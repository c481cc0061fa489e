--------------------------- MODULE MCAccountLink ---------------------------
(* AccountLink for model checking; the configurations set its bounds.        *)
EXTENDS AccountLink
=============================================================================
