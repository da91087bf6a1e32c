--------------------------- MODULE MCKeyOperation ---------------------------
(* An instance of KeyOperation for TLC: lists of up to three keys. *)
EXTENDS KeyOperation
=============================================================================
