---- MODULE MCRegistration ----
(* As many ids as clients: a client that comes back without an account may   *)
(* be given the other's.                                                      *)
EXTENDS Registration
====
