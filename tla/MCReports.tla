----------------------------- MODULE MCReports -----------------------------
(***************************************************************************)
(* Two reports, so that one is written while another is sent or removed,   *)
(* and a restart between them; the second failure of an upload is its      *)
(* last. Uploads are on, off, or on without a server.                      *)
(***************************************************************************)
EXTENDS Reports

MCSettings == {[active |-> TRUE, interval |-> 2, address |-> TRUE],
               [active |-> FALSE, interval |-> 2, address |-> TRUE],
               [active |-> TRUE, interval |-> 2, address |-> FALSE]}
=============================================================================
