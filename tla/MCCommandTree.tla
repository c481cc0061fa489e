---- MODULE MCCommandTree ----
(* Definitions that share beginnings in every way: words and placeholders at *)
(* one place, two placeholders at one place, one command below another.      *)
EXTENDS CommandTree

CONSTANTS a, b, p, q

Shapes == {<<a>>, <<p>>, <<q>>, <<a, b>>, <<a, p>>, <<p, b>>, <<q, b>>, <<a, p, b>>, <<a, q, b>>}
====
