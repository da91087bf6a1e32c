--------------------------- MODULE MCKeyTransfer ---------------------------
(* An instance of KeyTransfer for TLC: lists of up to two keys, which may be of both *)
(* protocols, a search that finds up to one key too many, and another child.         *)
EXTENDS KeyTransfer
=============================================================================
