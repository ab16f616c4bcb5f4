------------------------------ MODULE MCInkTalk ------------------------------
(* A board with two names and two roles to be told, and one other node. *)
EXTENDS InkTalk
=============================================================================
