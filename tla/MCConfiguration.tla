--------------------------- MODULE MCConfiguration ---------------------------
(***************************************************************************)
(* Two sensors, so that an analog one can be linked to a digital one; few  *)
(* revisions, so that the column's largest one is reached.                 *)
(***************************************************************************)
EXTENDS Configuration
=============================================================================
