---------------------------- MODULE MCPlayground ----------------------------
(* The model-checking instance of Playground. *)
EXTENDS Playground, TLC
=============================================================================
