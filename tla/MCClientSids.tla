---- MODULE MCClientSids ----
(* One other account is enough: only the server's bucket is read.            *)
EXTENDS ClientSids
====
