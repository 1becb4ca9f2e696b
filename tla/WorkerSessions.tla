--------------------------- MODULE WorkerSessions ---------------------------
(***************************************************************************)
(* What MonitorController promises to the workers of its sessions: one is  *)
(* started when the last one is forgotten, it is asked to stop once, and   *)
(* it is forgotten when it has stopped.  Only where workers may hang is    *)
(* one forgotten before, and then its thread is told to quit and lives on  *)
(* beside the next.                                                        *)
(***************************************************************************)

CONSTANTS
  Sessions,   \* the sessions that may exist at a time
  NoSession,  \* not one of Sessions
  MayHang,    \* a session may be forgotten before its worker has stopped
  MayDie      \* the process may end

VARIABLES
  current,    \* the session the controller points to
  state       \* [session -> what its worker does]

sessionVars == <<current, state>>

Init == current = NoSession /\ state = [s \in Sessions |-> "off"]

Start(s) ==
  /\ current = NoSession /\ current' = s
  /\ state[s] = "off" /\ state' = [state EXCEPT ![s] = "on"]

Ask ==
  /\ current \in Sessions /\ current' = current
  /\ state[current] = "on" /\ state' = [state EXCEPT ![current] = "asked"]

\* The worker stops on request, or its thread ends when told to quit.
End(s) ==
  /\ current' = current
  /\ state[s] \in {"asked", "quit"} /\ state' = [state EXCEPT ![s] = "off"]

Forget ==
  /\ current \in Sessions /\ current' = NoSession
  /\ \/ state[current] = "off" /\ state' = state
     \/ MayHang /\ state[current] = "asked" /\ state' = [state EXCEPT ![current] = "quit"]

Die == MayDie /\ current' = NoSession /\ state' = [s \in Sessions |-> "off"]

Next == Ask \/ Forget \/ Die \/ \E s \in Sessions : Start(s) \/ End(s)

Spec == Init /\ [][Next]_sessionVars
=============================================================================
