---- MODULE MCDataRelay ----
(* Two accounts, of which either may be the sender.                          *)
EXTENDS DataRelay, TLC

Exchangeable == Permutations(Accounts)
====
