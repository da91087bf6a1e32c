-------------------------- MODULE MCFileOperation ---------------------------
(* An instance of FileOperation for TLC. *)
EXTENDS FileOperation

CONSTANTS f1, f2
=============================================================================
