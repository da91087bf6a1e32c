-------------------------- MODULE MCRecipientDialog --------------------------
(* Two recipients, two certificates of each protocol and an expired one. *)
EXTENDS RecipientDialog
CONSTANTS alice, bob, p1, p2, p3, x1, x2
==============================================================================
