---------------------------- MODULE MCCardManager ----------------------------
\* Constants for TLC: an OpenPGP card, a PIV card and the fields of a holder.
EXTENDS CardManager
MCCards == {"openpgp", "piv"}
MCFields == {"last", "sex"}
==============================================================================
