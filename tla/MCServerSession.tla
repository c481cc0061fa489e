-------------------------- MODULE MCServerSession --------------------------
(* ServerSession for model checking: two connections of one account, as when *)
(* a sub-server reconnects or is started twice, and one of another account.  *)
EXTENDS ServerSession

CONSTANTS a, b, c1, c2, c3

MCServers == {a, b}
MCConns == {c1, c2, c3}
MCOwner == [c \in MCConns |-> IF c = c3 THEN b ELSE a]

\* Only the two connections that compete for one account.
MCRivals == {c1, c2}
MCRivalsOwner == [c \in MCRivals |-> a]
=============================================================================
