--------------------------- MODULE MCPluginLoader ---------------------------
(* Small plugin directories for PluginLoader.                                *)
EXTENDS PluginLoader

CONSTANTS a, b, c

Needs(ids) == [i \in DOMAIN ids |-> [dep |-> ids[i], clauses |-> {}]]

\* Graphs with every kind of cycle; a second file with the id a, in version 2, which
\* names itself; b may name a twice and then wants version 2 of it.
Upgrades ==
    1 :> {[id |-> a, version |-> 1, requires |-> Needs(ds)] : ds \in {<<>>, <<c>>, <<b, c>>}} @@
    2 :> {[id |-> a, version |-> 2, requires |-> Needs(<<a>>)]} @@
    3 :> {[id |-> b, version |-> 1, requires |-> Needs(<<c>>)],
          [id |-> b, version |-> 1,
           requires |-> <<[dep |-> a, clauses |-> {{1, 2}}],
                          [dep |-> a, clauses |-> {{2}}]>>]} @@
    4 :> {[id |-> c, version |-> 1, requires |-> Needs(ds)] : ds \in {<<>>, <<b>>}}
=============================================================================
