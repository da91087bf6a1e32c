--------------------------- MODULE AbstractBatch ----------------------------
(***************************************************************************)
(* What an operation on a list of items promises its owner: it handles the *)
(* items one by one in their order, it reports at most once, nothing       *)
(* happens after the report, and it reports success only when it has       *)
(* handled every item.                                                     *)
(***************************************************************************)
EXTENDS Naturals

VARIABLES
  length,       \* how many items there are
  handled,      \* how many have been handled
  result        \* the code of "completed", or "none"

vars == <<length, handled, result>>

Init ==
  /\ length \in Nat \ {0}
  /\ handled = 0
  /\ result = "none"

\* Finishing an item, failing to start the next one and reporting may all
\* happen in one callback.
Step ==
  /\ result = "none"
  /\ handled' \in {handled, handled + 1}
  /\ handled' <= length
  /\ result' \in {"none", "OK", "ERR"}
  /\ result' = "OK" => handled' = length
  /\ UNCHANGED length

Spec == Init /\ [][Step]_vars
=============================================================================
