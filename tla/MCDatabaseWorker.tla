-------------------------- MODULE MCDatabaseWorker --------------------------
(***************************************************************************)
(* Instances of DatabaseWorker: one or two worker objects that are the     *)
(* same to the model, a queue of two readings, and a few readings.         *)
(***************************************************************************)
EXTENDS DatabaseWorker, TLC

Symmetry == Permutations(Workers)
=============================================================================
