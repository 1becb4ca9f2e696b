---------------------------- MODULE MCTesterScan ----------------------------
(***************************************************************************)
(* Instances of TesterScan: the user's actions the answers depend on, and  *)
(* the shortest scan whose targets differ from its first and its last.     *)
(***************************************************************************)
EXTENDS TesterScan
=============================================================================
