------------------------------- MODULE MCNode -------------------------------
(* One board: see Node_power.cfg and its siblings.                         *)
EXTENDS Node
=============================================================================
