---------------------------- MODULE AccountLease ----------------------------
(* What the server's registry promises about accounts, without packets,      *)
(* coroutines or timeouts: an account is leased to at most one connection at *)
(* a time, a lease is never handed from one connection to another without    *)
(* being given up in between, and a connection that has ended holds no lease *)
(* and never takes one again.  It does not promise that a lease lasts as     *)
(* long as its connection.                                                   *)
CONSTANTS Servers, Conns

VARIABLES
    lease,      \* account -> the connection that holds it
    retired     \* connections that have ended

vars == <<lease, retired>>

Without(accounts) == [s \in DOMAIN lease \ accounts |-> lease[s]]

Init == lease = [s \in {} |-> {}] /\ retired = {}

Take(s, c) ==
    /\ s \notin DOMAIN lease
    /\ c \notin retired
    /\ lease' = [t \in DOMAIN lease \cup {s} |-> IF t = s THEN c ELSE lease[t]]
    /\ UNCHANGED retired

Release(s) ==
    /\ s \in DOMAIN lease
    /\ lease' = Without({s})
    /\ UNCHANGED retired

\* The end of a connection gives up one account at most.
Retire(c) ==
    /\ retired' = retired \cup {c}
    /\ \/ UNCHANGED lease
       \/ \E s \in DOMAIN lease : lease' = Without({s})
    /\ \A s \in DOMAIN lease' : lease'[s] # c

Next ==
    \/ \E s \in Servers, c \in Conns : Take(s, c)
    \/ \E s \in Servers : Release(s)
    \/ \E c \in Conns : Retire(c)

Spec == Init /\ [][Next]_vars
=============================================================================
