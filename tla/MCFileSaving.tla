---------------------------- MODULE MCFileSaving ----------------------------
(* ---- Instances of FileSaving ---- *)
EXTENDS FileSaving
=============================================================================
