----------------------------- MODULE MCKeyTable -----------------------------
(* An instance of KeyTable for TLC: the key list of the key manager, the list *)
(* of the dialog that selects recipients, and two selectors.                  *)
EXTENDS KeyTable

CONSTANTS a, x, n, manager, dialog, who, keys
=============================================================================
