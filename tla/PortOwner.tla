------------------------------ MODULE PortOwner ------------------------------
(***************************************************************************)
(* What ModbusPortGuard promises to the two Modbus workers of the process: *)
(* the RS-485 port has at most one owner at a time, only the owner has a   *)
(* serial client open on it, and ownership never passes from one party to  *)
(* another without the port being free in between.                         *)
(***************************************************************************)

CONSTANTS
  Parties,   \* the workers that compete for the port
  Nobody     \* the owner of a free port, not one of Parties

VARIABLES
  owner,     \* who holds the guard
  opened     \* the parties whose serial client is open on the port

portVars == <<owner, opened>>

Init == owner = Nobody /\ opened = {}

\* tryLock succeeds on a free port; the client may be opened at once.
Take(p) ==
  /\ owner = Nobody
  /\ owner' = p
  /\ opened' \in SUBSET {p}

\* The owner opens or closes its client and keeps the guard.
Use ==
  /\ owner \in Parties
  /\ owner' = owner
  /\ opened' \in SUBSET {owner}

\* The guard is released, and only with the client closed.
GiveUp ==
  /\ owner \in Parties
  /\ owner' = Nobody
  /\ opened' = {}

Next == (\E p \in Parties : Take(p)) \/ Use \/ GiveUp

Spec == Init /\ [][Next]_portVars

(***************************************************************************)
(* At most one party has the port open, and it is the owner (the crash the *)
(* guard exists to prevent is two clients open on one port).               *)
(***************************************************************************)
SingleClient == \A p \in opened : p = owner
=============================================================================
