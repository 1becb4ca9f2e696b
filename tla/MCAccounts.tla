----------------------------- MODULE MCAccounts -----------------------------
(***************************************************************************)
(* Two accounts, so that one administrator can edit the other; the first   *)
(* wrong password locks and the second one doubles the lockout.            *)
(* The pool has a second thread: only the busy flag keeps it idle.         *)
(***************************************************************************)
EXTENDS Accounts
=============================================================================
