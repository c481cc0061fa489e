------------------------- MODULE PluginLoaderProofs -------------------------
(* Proofs about the plugin loader, for any directory, manifests and edits.   *)
(* First the book-keeping of single loads and unloads, whatever is on the    *)
(* agenda; then the types; then what the depth-first search keeps from step  *)
(* to step; and from both what the agenda may hold, and in which order.      *)
EXTENDS PluginLoader, FunctionTheorems, FiniteSetTheorems, TLAPS

-----------------------------------------------------------------------------
(* The inductive invariant                                                   *)

From(p) == {q \in DOMAIN plugins : plugins[q].path = p}

PathsKnown ==
    /\ \A id \in DOMAIN available : available[id].path \in Paths
    /\ \A id \in DOMAIN plugins : plugins[id].path \in Paths

IInv ==
    /\ IsFiniteSet(DOMAIN plugins)
    /\ sysPath \in [Paths -> Nat]
    /\ PathsKnown
    /\ DependentsAreReal
    /\ PathsCounted

LEMMA CandidatePath ==
  ASSUME NEW id, NEW p
  PROVE  Candidate(id, p).path = p
  BY DEF Candidate

\* A scan of the directory gives each plugin one of the files that have its id,
\* or leaves what was known of it.
LEMMA DiscoveredFacts ==
  ASSUME NEW id \in DOMAIN Discovered
  PROVE  \/ \E p \in Readable : disk[p].id = id /\ Discovered[id] = Candidate(id, p)
         \/ id \in DOMAIN available /\ Discovered[id] = available[id]
  <1> DEFINE found == {disk[p].id : p \in Scanned}
             files == {p \in Scanned : disk[p].id = id}
  <1>1. DOMAIN Discovered = DOMAIN available \cup found
    BY DEF Discovered
  <1>2. CASE id \in found
    <2>1. files \in (SUBSET Paths) \ {{}}
      BY <1>2 DEF Scanned, Readable
    <2>2. Max(files) \in files
      <3>1. \E last \in files : \A p \in files : last >= p
        BY <2>1, PathsAssumption
      <3> QED
        BY <3>1 DEF Max
    <2>3. Discovered[id] = Candidate(id, Max(files))
      BY <1>1, <1>2 DEF Discovered
    <2> QED
      BY <2>2, <2>3 DEF Scanned
  <1>3. CASE id \notin found
    BY <1>1, <1>3 DEF Discovered
  <1> QED
    BY <1>2, <1>3

LEMMA DiscoveredPaths ==
  ASSUME PathsKnown
  PROVE  \A id \in DOMAIN Discovered : Discovered[id].path \in Paths
  BY DiscoveredFacts, CandidatePath DEF PathsKnown, Readable

-----------------------------------------------------------------------------
(* One load                                                                  *)

\* A failed load gives back exactly the entry it took.
LEMMA ReleaseUndoesEnsure ==
  ASSUME NEW entries \in [Paths -> Nat], NEW p \in Paths
  PROVE  ReleaseSysPath(EnsureSysPath(entries, p), p) = entries
  <1>1. \A r \in Paths : ReleaseSysPath(EnsureSysPath(entries, p), p)[r] = entries[r]
    BY DEF ReleaseSysPath, EnsureSysPath
  <1> QED
    BY <1>1 DEF ReleaseSysPath, EnsureSysPath

LEMMA ReleaseIsNat ==
  ASSUME NEW entries \in [Paths -> Nat], NEW p \in Paths
  PROVE  ReleaseSysPath(entries, p) \in [Paths -> Nat]
  <1>1. (IF entries[p] <= 1 THEN 0 ELSE entries[p] - 1) \in Nat
    OBVIOUS
  <1> QED
    BY <1>1 DEF ReleaseSysPath

LEMMA ImportKeepsIInv ==
  ASSUME IInv, NEW id, id \notin DOMAIN plugins, NEW c, c.path \in Paths,
         NEW ok, Import(id, c, ok), UNCHANGED available
  PROVE  IInv'
  <1>1. CASE ~ ok
    <2>1. sysPath' = sysPath /\ plugins' = plugins /\ dependents' = dependents
      BY <1>1, ReleaseUndoesEnsure DEF Import, IInv
    <2> QED
      BY <2>1 DEF IInv, PathsKnown, DependentsAreReal, PathsCounted
  <1>2. CASE ok
    <2> DEFINE record == [path |-> c.path, version |-> c.version, deps |-> c.deps]
    <2>1. /\ plugins' = [q \in DOMAIN plugins \cup {id} |->
                           IF q = id THEN record ELSE plugins[q]]
          /\ dependents' = WithDependent(id, c.deps)
          /\ sysPath' = EnsureSysPath(sysPath, c.path)
      BY <1>2 DEF Import
    <2>2. /\ DOMAIN plugins' = DOMAIN plugins \cup {id}
          /\ plugins'[id].path = c.path /\ plugins'[id].deps = c.deps
          /\ \A q \in DOMAIN plugins : plugins'[q] = plugins[q]
      BY <2>1
    <2>3. IsFiniteSet(DOMAIN plugins)'
      BY <2>2, FS_AddElement DEF IInv
    <2>4. (sysPath \in [Paths -> Nat])'
      BY <2>1 DEF IInv, EnsureSysPath
    <2>5. PathsKnown'
      BY <2>2 DEF IInv, PathsKnown
    <2>6. DependentsAreReal'
      <3> SUFFICES ASSUME NEW d \in DOMAIN dependents', NEW q \in dependents'[d]
                   PROVE  q \in DOMAIN plugins' /\ d \in ToSet(plugins'[q].deps)
        BY DEF DependentsAreReal
      <3>1. q \in Dependents(d) \/ (q = id /\ d \in ToSet(c.deps))
        BY <2>1 DEF WithDependent
      <3>2. CASE q \in Dependents(d)
        <4>1. q \in DOMAIN plugins /\ d \in ToSet(plugins[q].deps)
          BY <3>2 DEF Dependents, IInv, DependentsAreReal
        <4> QED
          BY <4>1, <2>2
      <3> QED
        BY <3>1, <3>2, <2>2
    <2>7. PathsCounted'
      <3> SUFFICES ASSUME NEW p \in Paths PROVE sysPath'[p] = Cardinality(From(p)')
        BY DEF PathsCounted, From
      <3>1. sysPath[p] = Cardinality(From(p)) /\ sysPath[p] \in Nat
        BY DEF IInv, PathsCounted, From
      <3>2. IsFiniteSet(From(p))
        BY FS_Subset DEF From, IInv
      <3>3. CASE p = c.path
        <4>1. From(p)' = From(p) \cup {id} /\ id \notin From(p)
          BY <2>2, <3>3 DEF From
        <4>2. Cardinality(From(p)') = Cardinality(From(p)) + 1
          BY <3>2, <4>1, FS_AddElement
        <4>3. sysPath'[p] = sysPath[p] + 1
          BY <2>1, <3>3 DEF EnsureSysPath, IInv
        <4> QED
          BY <3>1, <4>2, <4>3
      <3>4. CASE p # c.path
        <4>1. From(p)' = From(p)
          BY <2>2, <3>4 DEF From
        <4>2. sysPath'[p] = sysPath[p]
          BY <2>1, <3>4 DEF EnsureSysPath, IInv
        <4> QED
          BY <3>1, <4>1, <4>2
      <3> QED
        BY <3>3, <3>4
    <2> QED
      BY <2>3, <2>4, <2>5, <2>6, <2>7 DEF IInv
  <1> QED
    BY <1>1, <1>2

LEMMA LoadKeepsIInv ==
  ASSUME IInv, NEW id, LoadSingle(id), UNCHANGED available
  PROVE  IInv'
  <1>1. CASE UNCHANGED <<plugins, dependents, sysPath>>
    BY <1>1 DEF IInv, PathsKnown, DependentsAreReal, PathsCounted
  <1>2. ASSUME id \in DOMAIN available \ DOMAIN plugins,
               NEW ok \in Outcomes, Import(id, available[id], ok)
        PROVE  IInv'
    <2>1. available[id].path \in Paths
      BY <1>2 DEF IInv, PathsKnown
    <2> QED
      BY <1>2, <2>1, ImportKeepsIInv
  <1> QED
    BY <1>1, <1>2 DEF LoadSingle

-----------------------------------------------------------------------------
(* One unload                                                                *)

LEMMA UnloadKeepsIInv ==
  ASSUME IInv, NEW id, UnloadSingle(id), UNCHANGED available
  PROVE  IInv'
  <1>1. CASE id \notin DOMAIN plugins
    BY <1>1 DEF UnloadSingle, IInv, PathsKnown, DependentsAreReal, PathsCounted
  <1>2. CASE id \in DOMAIN plugins
    <2> DEFINE deps == plugins[id].deps
               path == plugins[id].path
    <2>1. /\ plugins' = [q \in DOMAIN plugins \ {id} |-> plugins[q]]
          /\ sysPath' = ReleaseSysPath(sysPath, path)
          /\ dependents' = WithoutDependent(id, deps)
      BY <1>2 DEF UnloadSingle
    <2>2. /\ DOMAIN plugins' = DOMAIN plugins \ {id}
          /\ \A q \in DOMAIN plugins' : plugins'[q] = plugins[q]
      BY <2>1
    <2>3. IsFiniteSet(DOMAIN plugins)'
      BY <2>2, FS_Subset DEF IInv
    <2>4. (sysPath \in [Paths -> Nat])'
      <3>1. path \in Paths /\ sysPath \in [Paths -> Nat]
        BY <1>2 DEF IInv, PathsKnown
      <3> QED
        BY <2>1, <3>1, ReleaseIsNat
    <2>5. PathsKnown'
      BY <2>2 DEF IInv, PathsKnown
    <2>6. DependentsAreReal'
      <3> SUFFICES ASSUME NEW d \in DOMAIN dependents', NEW q \in dependents'[d]
                   PROVE  q \in DOMAIN plugins' /\ d \in ToSet(plugins'[q].deps)
        BY DEF DependentsAreReal
      <3>1. /\ d \in DOMAIN dependents /\ q \in dependents[d]
            /\ d \in ToSet(deps) => q # id
        BY <2>1 DEF WithoutDependent
      <3>2. q \in DOMAIN plugins /\ d \in ToSet(plugins[q].deps)
        BY <3>1 DEF IInv, DependentsAreReal
      <3>3. q # id
        BY <3>1, <3>2
      <3> QED
        BY <2>2, <3>2, <3>3
    <2>7. PathsCounted'
      <3> SUFFICES ASSUME NEW p \in Paths PROVE sysPath'[p] = Cardinality(From(p)')
        BY DEF PathsCounted, From
      <3>1. sysPath[p] = Cardinality(From(p)) /\ sysPath[p] \in Nat
        BY DEF IInv, PathsCounted, From
      <3>2. IsFiniteSet(From(p))
        BY FS_Subset DEF From, IInv
      <3>3. CASE p = path
        <4>1. From(p)' = From(p) \ {id} /\ id \in From(p)
          BY <1>2, <2>2, <3>3 DEF From
        <4>2. Cardinality(From(p)') = Cardinality(From(p)) - 1
          BY <3>2, <4>1, FS_RemoveElement
        <4>3. Cardinality(From(p)) # 0
          BY <3>2, <4>1, FS_EmptySet
        <4>4. sysPath'[p] = IF sysPath[p] <= 1 THEN 0 ELSE sysPath[p] - 1
          BY <2>1, <3>3 DEF ReleaseSysPath, IInv
        <4> QED
          BY <3>1, <4>2, <4>3, <4>4
      <3>4. CASE p # path
        <4>1. From(p)' = From(p)
          BY <2>2, <3>4 DEF From
        <4>2. sysPath'[p] = sysPath[p]
          BY <2>1, <3>4 DEF ReleaseSysPath, IInv
        <4> QED
          BY <3>1, <4>1, <4>2
      <3> QED
        BY <3>3, <3>4
    <2> QED
      BY <2>3, <2>4, <2>5, <2>6, <2>7 DEF IInv
  <1> QED
    BY <1>1, <1>2

-----------------------------------------------------------------------------
(* The calls                                                                 *)

\* A call only changes what is available.
LEMMA CallKeepsIInv ==
  ASSUME IInv, UNCHANGED <<plugins, dependents, sysPath>>,
         \A id \in DOMAIN available' : available'[id].path \in Paths
  PROVE  IInv'
  BY DEF IInv, PathsKnown, DependentsAreReal, PathsCounted

\* The loader of a program that has just been started.
Empty ==
    /\ available = <<>> /\ plugins = <<>> /\ dependents = <<>>
    /\ sysPath = [p \in Paths |-> 0]
    /\ request = NoRequest /\ search = NoSearch /\ agenda = <<>>

LEMMA StartsEmpty == (Init => Empty) /\ (Restart => Empty')
  BY DEF Init, Restart, Empty, NoSearch, NoRequest

LEMMA EmptyIInv == Empty => IInv
  <1> SUFFICES ASSUME Empty PROVE IInv
    OBVIOUS
  <1>1. DOMAIN available = {} /\ DOMAIN plugins = {} /\ DOMAIN dependents = {}
        /\ sysPath = [p \in Paths |-> 0]
    BY DEF Empty
  <1>2. \A p \in Paths : {q \in DOMAIN plugins : plugins[q].path = p} = {}
    BY <1>1
  <1>3. PathsCounted
    BY <1>1, <1>2, FS_EmptySet DEF PathsCounted
  <1> QED
    BY <1>1, <1>3, FS_EmptySet DEF IInv, PathsKnown, DependentsAreReal

LEMMA NextIInv == IInv /\ [Next]_vars => IInv'
  <1> SUFFICES ASSUME IInv, [Next]_vars PROVE IInv'
    OBVIOUS
  <1>0. PathsKnown
    BY DEF IInv
  <1>1. ASSUME LoadPlugins \/ StartAborts \/ \E p \in Paths : LoadPluginAborts(p)
        PROVE  IInv'
    <2>1. available' = Discovered /\ UNCHANGED <<plugins, dependents, sysPath>>
      BY <1>1 DEF LoadPlugins, StartAborts, LoadPluginAborts
    <2> QED
      BY <2>1, <1>0, DiscoveredPaths, CallKeepsIInv
  <1>2. ASSUME NEW p \in Paths, LoadPlugin(p) PROVE IInv'
    <2> DEFINE id == disk[p].id
    <2>1. /\ available' = [Discovered EXCEPT ![id] = Candidate(id, p)]
          /\ UNCHANGED <<plugins, dependents, sysPath>>
      BY <1>2 DEF LoadPlugin
    <2>2. \A i \in DOMAIN available' : available'[i].path \in Paths
      <3> TAKE i \in DOMAIN available'
      <3>1. i \in DOMAIN Discovered
        BY <2>1
      <3>2. CASE i = id
        BY <2>1, <3>1, <3>2, CandidatePath
      <3>3. CASE i # id
        <4>1. available'[i] = Discovered[i]
          BY <2>1, <3>1, <3>3
        <4> QED
          BY <3>1, <4>1, <1>0, DiscoveredPaths
      <3> QED
        BY <3>2, <3>3
    <2> QED
      BY <2>1, <2>2, CallKeepsIInv
  <1>3. ASSUME NEW id \in Ids, ReloadPlugin(id) \/ ReloadAborts(id) PROVE IInv'
    <2>1. PICK ids : available' = Refreshed(ids)
      BY <1>3 DEF ReloadPlugin, ReloadAborts
    <2>3. UNCHANGED <<plugins, dependents, sysPath>>
      BY <1>3 DEF ReloadPlugin, ReloadAborts
    <2>2. \A i \in DOMAIN Refreshed(ids) : Refreshed(ids)[i].path \in Paths
      BY <1>0, CandidatePath DEF Refreshed, PathsKnown
    <2> QED
      BY <2>1, <2>2, <2>3, CallKeepsIInv
  <1>4. ASSUME NEW id \in Ids, UnloadPlugin(id) PROVE IInv'
    BY <1>4, <1>0, CallKeepsIInv DEF UnloadPlugin, loader, PathsKnown
  <1>5. ASSUME NEW p \in Paths, EditFile(p) PROVE IInv'
    BY <1>5, <1>0, CallKeepsIInv DEF EditFile, loader, PathsKnown
  <1>6. CASE RunLoad
    BY <1>6, LoadKeepsIInv DEF RunLoad
  <1>7. CASE RunUnload
    BY <1>7, UnloadKeepsIInv DEF RunUnload
  <1>8. CASE RunResolve \/ VisitTarget \/ VisitDependency \/ FinishVisit \/ EndSearch
    <2>1. UNCHANGED loader
      BY <1>8 DEF RunResolve, VisitTarget, VisitDependency, FinishVisit, EndSearch
    <2> QED
      BY <2>1, <1>0, CallKeepsIInv DEF loader, PathsKnown
  <1>9. CASE UNCHANGED vars
    BY <1>9, <1>0, CallKeepsIInv DEF vars, loader, PathsKnown
  <1>10. CASE Restart
    <2>1. (Empty => IInv)'
      BY EmptyIInv, PTL
    <2> QED
      BY <1>10, <2>1, StartsEmpty
  <1> QED
    BY <1>1, <1>2, <1>3, <1>4, <1>5, <1>6, <1>7, <1>8, <1>9, <1>10 DEF Next

LEMMA Invariance == Spec => []IInv
  BY StartsEmpty, EmptyIInv, NextIInv, PTL DEF Spec

\* _active_dependents never names a plugin that is not loaded or does not depend
\* on the key, for any manifests and any changes to them.
THEOREM DependentsStayReal == Spec => []DependentsAreReal
  <1>1. IInv => DependentsAreReal
    BY DEF IInv
  <1> QED
    BY <1>1, Invariance, PTL

\* The count of a sys.path entry is the number of loaded plugins that came from it.
THEOREM PathsStayCounted == Spec => []PathsCounted
  <1>1. IInv => PathsCounted
    BY DEF IInv
  <1> QED
    BY <1>1, Invariance, PTL

-----------------------------------------------------------------------------
(* What a manifest makes known of a plugin                                   *)

Below(S, i) == {j \in S : j < i}

\* In a finite set of numbers some element has exactly n - 1 smaller ones: a
\* larger element has more of them, so that there are as many such counts as
\* elements.
LEMMA PlaceExists ==
  ASSUME NEW S \in SUBSET Nat, IsFiniteSet(S), NEW n \in 1..Cardinality(S)
  PROVE  \E i \in S : Cardinality(Below(S, i)) = n - 1
  <1> DEFINE N == Cardinality(S)
             rank == [i \in S |-> Cardinality(Below(S, i)) + 1]
  <1>1. N \in Nat
    BY FS_CardinalityType
  <1>2. \A i \in S : i \in Nat
    OBVIOUS
  <1>3. ASSUME NEW i \in S, NEW T, T = Below(S, i)
        PROVE  /\ T \subseteq S /\ IsFiniteSet(T) /\ Cardinality(T) \in Nat
               /\ Cardinality(T \cup {i}) = Cardinality(T) + 1
    <2>1. T \subseteq S /\ i \notin T
      BY <1>2, <1>3 DEF Below
    <2> QED
      BY <2>1, FS_Subset, FS_CardinalityType, FS_AddElement
  <1>4. ASSUME NEW i \in S PROVE rank[i] \in 1..N
    <2>1. Cardinality(Below(S, i)) + 1 <= N /\ Cardinality(Below(S, i)) \in Nat
      <3>1. Below(S, i) \cup {i} \subseteq S
        BY <1>3
      <3>2. Cardinality(Below(S, i) \cup {i}) <= N
        BY <3>1, FS_Subset
      <3> QED
        BY <1>3, <3>2
    <2> QED
      BY <1>1, <2>1
  <1>5. ASSUME NEW i \in S, NEW j \in S, i < j PROVE rank[i] < rank[j]
    <2>1. Below(S, i) \cup {i} \subseteq Below(S, j)
      <3>1. \A t \in S : t < i => t < j
        BY <1>2, <1>5
      <3> QED
        BY <1>5, <3>1 DEF Below
    <2>2. IsFiniteSet(Below(S, j)) /\ Cardinality(Below(S, j)) \in Nat
      BY <1>3
    <2>3. Cardinality(Below(S, i) \cup {i}) <= Cardinality(Below(S, j))
      BY <2>1, <2>2, FS_Subset
    <2>4. /\ Cardinality(Below(S, i)) \in Nat
          /\ Cardinality(Below(S, i) \cup {i}) = Cardinality(Below(S, i)) + 1
      BY <1>3
    <2>5. Cardinality(Below(S, i)) < Cardinality(Below(S, j))
      BY <2>2, <2>3, <2>4
    <2> QED
      BY <2>2, <2>4, <2>5
  <1>6. rank \in Injection(S, 1..N)
    <2>1. rank \in [S -> 1..N]
      BY <1>4
    <2>2. ASSUME NEW i \in S, NEW j \in S, i # j PROVE rank[i] # rank[j]
      <3>1. i < j \/ j < i
        BY <1>2, <2>2
      <3>2. rank[i] \in Nat /\ rank[j] \in Nat
        BY <1>1, <1>4
      <3> HIDE DEF rank
      <3> QED
        BY <1>5, <3>1, <3>2
    <2> HIDE DEF rank
    <2> QED
      BY <2>1, <2>2 DEF Injection, IsInjective
  <1>7. rank \in Surjection(S, 1..N)
    <2>1. IsFiniteSet(1..N) /\ Cardinality(1..N) = N
      BY <1>1, FS_Interval
    <2> HIDE DEF rank
    <2> QED
      BY <1>6, <2>1, FS_Injection
  <1>8. PICK i \in S : rank[i] = n
    BY <1>7 DEF Surjection
  <1>9. Cardinality(Below(S, i)) \in Nat
    BY <1>3
  <1> QED
    BY <1>8, <1>9

\* _sanitize_dependencies returns ids, none of them twice and none the plugin's own.
LEMMA DependencyIdsFacts ==
  ASSUME NEW id, NEW requires \in Seq(Requirements), NEW deps, deps = DependencyIds(id, requires)
  PROVE  deps \in DependencyLists /\ id \notin ToSet(deps)
  <1> DEFINE first == {i \in DOMAIN requires :
                         requires[i].dep \notin {id} \cup {requires[j].dep : j \in 1..i - 1}}
             place(n) == CHOOSE i \in first : Cardinality(Below(first, i)) = n - 1
             N == Cardinality(first)
  <1>1. deps = [n \in 1..N |-> requires[place(n)].dep]
    BY DEF DependencyIds, Below
  <1>2. DOMAIN requires = 1..Len(requires) /\ Len(requires) \in Nat
    OBVIOUS
  <1>3. first \in SUBSET Nat /\ IsFiniteSet(first)
    <2>1. IsFiniteSet(1..Len(requires))
      BY <1>2, FS_Interval
    <2> QED
      BY <1>2, <2>1, FS_Subset
  <1>4. N \in Nat
    BY <1>3, FS_CardinalityType
  <1>5. /\ \A i \in first : requires[i].dep \in Ids \ {id}
        /\ \A i, j \in first : requires[i].dep = requires[j].dep => i = j
    <2>1. ASSUME NEW i \in first PROVE requires[i].dep \in Ids \ {id}
      <3>1. requires[i] \in Requirements
        BY <1>2
      <3> QED
        BY <3>1 DEF Requirements
    <2>2. ASSUME NEW i \in first, NEW j \in first, i < j
          PROVE  requires[i].dep # requires[j].dep
      <3>1. i \in 1..j - 1
        BY <1>2, <2>2
      <3> QED
        BY <3>1
    <2>3. \A i, j \in first : i = j \/ i < j \/ j < i
      BY <1>3
    <2> QED
      BY <2>1, <2>2, <2>3
  <1> HIDE DEF first
  <1>6. \A n \in 1..N : place(n) \in first /\ Cardinality(Below(first, place(n))) = n - 1
    BY <1>3, PlaceExists
  <1> HIDE DEF place
  <1>7. deps \in Seq(Ids) /\ DOMAIN deps = 1..N /\ \A n \in 1..N : deps[n] = requires[place(n)].dep
    BY <1>1, <1>4, <1>5, <1>6
  <1>8. \A m, n \in DOMAIN deps : deps[m] = deps[n] => m = n
    <2> SUFFICES ASSUME NEW m \in 1..N, NEW n \in 1..N, deps[m] = deps[n] PROVE m = n
      BY <1>7
    <2>1. place(m) = place(n)
      BY <1>5, <1>6, <1>7
    <2>2. m - 1 = n - 1
      BY <1>6, <2>1
    <2> QED
      BY <1>4, <2>2
  <1>9. IsInjective(deps)
    BY <1>8 DEF IsInjective
  <1>10. id \notin ToSet(deps)
    BY <1>5, <1>6, <1>7 DEF ToSet
  <1> QED
    BY <1>7, <1>9, <1>10 DEF DependencyLists

OnDisk ==
    /\ DOMAIN disk = Paths
    /\ \A p \in Paths : disk[p] \notin {NoFile, Corrupt} => disk[p] \in Manifests[p]

AvailableOK(id, c) == id \in Ids /\ c \in Candidates /\ id \notin ToSet(c.deps)

LEMMA CandidateTyped ==
  ASSUME OnDisk, NEW id \in Ids, NEW p \in Readable
  PROVE  AvailableOK(id, Candidate(id, p)) /\ disk[p].id \in Ids
  <1> DEFINE c == Candidate(id, p)
             requires == disk[p].requires
  <1>1. p \in Paths /\ disk[p] \in [id : Ids, version : Versions, requires : Seq(Requirements)]
    BY ManifestsAssumption DEF OnDisk, Readable
  <1>2. requires \in Seq(Requirements) /\ disk[p].version \in Versions /\ disk[p].id \in Ids
    BY <1>1
  <1>3. c.deps \in DependencyLists /\ id \notin ToSet(c.deps)
    BY <1>2, DependencyIdsFacts DEF Candidate
  <1>4. \A r \in ToSet(requires) : r.dep \in Ids /\ r.clauses \in SUBSET Clauses
    <2>1. \A i \in DOMAIN requires : requires[i] \in Requirements
      BY <1>2
    <2> HIDE DEF requires
    <2>2. ToSet(requires) \subseteq Requirements
      BY <2>1 DEF ToSet
    <2> QED
      BY <2>2 DEF Requirements
  <1>5. c.specs \in UNION {[S -> SUBSET Clauses] : S \in SUBSET Ids}
    <2> DEFINE S == {r.dep : r \in ToSet(requires)} \ {id}
               clauses(d) == UNION {r.clauses : r \in {s \in ToSet(requires) : s.dep = d}}
    <2>1. c.specs = [d \in S |-> clauses(d)]
      BY DEF Candidate, Specifiers
    <2>2. S \in SUBSET Ids
      BY <1>4
    <2>3. \A d \in S : clauses(d) \in SUBSET Clauses
      BY <1>4
    <2> HIDE DEF S, clauses
    <2>4. c.specs \in [S -> SUBSET Clauses]
      BY <2>1, <2>3
    <2> QED
      BY <2>2, <2>4
  <1>6. c = [path |-> p, version |-> disk[p].version, deps |-> c.deps, specs |-> c.specs]
    BY DEF Candidate
  <1>7. c \in Candidates
    BY <1>1, <1>2, <1>3, <1>5, <1>6 DEF Candidates
  <1> QED
    BY <1>2, <1>3, <1>7 DEF AvailableOK

-----------------------------------------------------------------------------
(* Types                                                                     *)

\* Types are not inductive by themselves: what becomes available was on the disk.
Typed == OnDisk /\ LoaderTyped

LEMMA AvailableTyped ==
  ASSUME Typed, NEW id \in DOMAIN available
  PROVE  AvailableOK(id, available[id])
  BY DEF Typed, LoaderTyped, AvailableOK

LEMMA DiscoveredTyped ==
  ASSUME Typed, NEW id \in DOMAIN Discovered
  PROVE  AvailableOK(id, Discovered[id])
  <1>1. CASE \E p \in Readable : disk[p].id = id /\ Discovered[id] = Candidate(id, p)
    <2>1. PICK p \in Readable : disk[p].id = id /\ Discovered[id] = Candidate(id, p)
      BY <1>1
    <2>2. \A i \in Ids : AvailableOK(i, Candidate(i, p)) /\ disk[p].id \in Ids
      BY CandidateTyped DEF Typed
    <2>3. disk[p].id \in Ids
      <3>1. disk[p] \in [id : Ids, version : Versions, requires : Seq(Requirements)]
        BY ManifestsAssumption DEF Typed, OnDisk, Readable
      <3> QED
        BY <3>1
    <2> QED
      BY <2>1, <2>2, <2>3
  <1>2. CASE id \in DOMAIN available /\ Discovered[id] = available[id]
    BY <1>2, AvailableTyped
  <1> QED
    BY <1>1, <1>2, DiscoveredFacts

LEMMA RefreshedTyped ==
  ASSUME Typed, NEW ids, NEW id \in DOMAIN Refreshed(ids)
  PROVE  AvailableOK(id, Refreshed(ids)[id])
  <1>1. id \in DOMAIN available
    BY DEF Refreshed
  <1>2. id \in Ids
    BY <1>1, AvailableTyped DEF AvailableOK
  <1>3. CASE id \in ids /\ available[id].path \in Readable
    <2>1. Refreshed(ids)[id] = Candidate(id, available[id].path)
      BY <1>1, <1>3 DEF Refreshed
    <2> QED
      BY <1>2, <1>3, <2>1, CandidateTyped DEF Typed
  <1>4. CASE ~ (id \in ids /\ available[id].path \in Readable)
    <2>1. Refreshed(ids)[id] = available[id]
      BY <1>1, <1>4 DEF Refreshed
    <2> QED
      BY <1>1, <2>1, AvailableTyped
  <1> QED
    BY <1>3, <1>4

\* A call may only change what is available.
LEMMA CallKeepsTyped ==
  ASSUME Typed, UNCHANGED <<disk, plugins, dependents, sysPath>>,
         \A id \in DOMAIN available' : AvailableOK(id, available'[id])
  PROVE  Typed'
  BY DEF Typed, OnDisk, LoaderTyped, AvailableOK

LEMMA ImportKeepsTyped ==
  ASSUME Typed, NEW id \in DOMAIN available, NEW ok, Import(id, available[id], ok),
         UNCHANGED <<disk, available>>
  PROVE  Typed'
  <1> DEFINE c == available[id]
             record == [path |-> c.path, version |-> c.version, deps |-> c.deps]
  <1>1. /\ id \in Ids /\ c.path \in Paths /\ c.version \in Versions
        /\ c.deps \in DependencyLists /\ id \notin ToSet(c.deps)
    BY AvailableTyped DEF AvailableOK, Candidates
  <1>2. sysPath \in [Paths -> Nat]
    BY DEF Typed, LoaderTyped
  <1>3. ToSet(c.deps) \subseteq Ids
    <2>1. c.deps \in Seq(Ids)
      BY <1>1 DEF DependencyLists
    <2> HIDE DEF c
    <2> QED
      BY <2>1 DEF ToSet
  <1>4. CASE ~ ok
    <2>1. sysPath' = sysPath /\ plugins' = plugins /\ dependents' = dependents
      BY <1>1, <1>2, <1>4, ReleaseUndoesEnsure DEF Import
    <2> QED
      BY <2>1, AvailableTyped, CallKeepsTyped
  <1>5. CASE ok
    <2>1. /\ plugins' = [q \in DOMAIN plugins \cup {id} |->
                           IF q = id THEN record ELSE plugins[q]]
          /\ dependents' = WithDependent(id, c.deps)
          /\ sysPath' = EnsureSysPath(sysPath, c.path)
      BY <1>5 DEF Import
    <2>2. record \in Records /\ record.deps = c.deps
      BY <1>1 DEF Records
    <2> HIDE DEF record, c
    <2>3. DOMAIN plugins' \subseteq Ids
      BY <1>1, <2>1 DEF Typed, LoaderTyped
    <2>4. \A q \in DOMAIN plugins' : plugins'[q] \in Records /\ q \notin ToSet(plugins'[q].deps)
      BY <1>1, <2>1, <2>2 DEF Typed, LoaderTyped
    <2>5. DOMAIN dependents' \subseteq Ids /\ \A d \in DOMAIN dependents' : dependents'[d] \subseteq Ids
      BY <1>1, <1>3, <2>1 DEF WithDependent, Dependents, Typed, LoaderTyped
    <2>6. sysPath' \in [Paths -> Nat]
      BY <1>1, <1>2, <2>1 DEF EnsureSysPath
    <2> QED
      BY <2>3, <2>4, <2>5, <2>6 DEF Typed, OnDisk, LoaderTyped
  <1> QED
    BY <1>4, <1>5

LEMMA UnloadKeepsTyped ==
  ASSUME Typed, NEW id, UnloadSingle(id), UNCHANGED <<disk, available>>
  PROVE  Typed'
  <1>1. CASE id \notin DOMAIN plugins
    BY <1>1, AvailableTyped, CallKeepsTyped DEF UnloadSingle
  <1>2. CASE id \in DOMAIN plugins
    <2>1. /\ plugins' = [q \in DOMAIN plugins \ {id} |-> plugins[q]]
          /\ sysPath' = ReleaseSysPath(sysPath, plugins[id].path)
          /\ dependents' = WithoutDependent(id, plugins[id].deps)
      BY <1>2 DEF UnloadSingle
    <2>2. sysPath' \in [Paths -> Nat]
      <3>1. plugins[id].path \in Paths /\ sysPath \in [Paths -> Nat]
        BY <1>2 DEF Typed, LoaderTyped, Records
      <3> QED
        BY <2>1, <3>1, ReleaseIsNat
    <2>3. DOMAIN dependents' \subseteq DOMAIN dependents
          /\ \A d \in DOMAIN dependents' : dependents'[d] \subseteq dependents[d]
      BY <2>1 DEF WithoutDependent
    <2> QED
      BY <2>1, <2>2, <2>3 DEF Typed, OnDisk, LoaderTyped
  <1> QED
    BY <1>1, <1>2

LEMMA EmptyTyped == OnDisk /\ Empty => Typed
  <1> SUFFICES ASSUME OnDisk, Empty PROVE Typed
    OBVIOUS
  <1>1. DOMAIN available = {} /\ DOMAIN plugins = {} /\ DOMAIN dependents = {}
        /\ sysPath = [p \in Paths |-> 0]
    BY DEF Empty
  <1> QED
    BY <1>1 DEF Typed, LoaderTyped

LEMMA InitTyped == Init => Typed
  <1>1. Init => OnDisk
    BY DEF Init, OnDisk, Contents
  <1> QED
    BY <1>1, StartsEmpty, EmptyTyped

LEMMA NextTyped == Typed /\ [Next]_vars => Typed'
  <1> SUFFICES ASSUME Typed, [Next]_vars PROVE Typed'
    OBVIOUS
  <1>1. ASSUME LoadPlugins \/ StartAborts \/ \E p \in Paths : LoadPluginAborts(p)
        PROVE  Typed'
    <2>1. available' = Discovered /\ UNCHANGED <<disk, plugins, dependents, sysPath>>
      BY <1>1 DEF LoadPlugins, StartAborts, LoadPluginAborts
    <2> QED
      BY <2>1, DiscoveredTyped, CallKeepsTyped
  <1>2. ASSUME NEW p \in Paths, LoadPlugin(p) PROVE Typed'
    <2> DEFINE id == disk[p].id
    <2>1. /\ available' = [Discovered EXCEPT ![id] = Candidate(id, p)]
          /\ UNCHANGED <<disk, plugins, dependents, sysPath>> /\ p \in Readable
      BY <1>2 DEF LoadPlugin
    <2>2. ASSUME NEW i \in DOMAIN available' PROVE AvailableOK(i, available'[i])
      <3>1. i \in DOMAIN Discovered
        BY <2>1
      <3>2. AvailableOK(i, Discovered[i])
        BY <3>1, DiscoveredTyped
      <3>3. CASE i = id
        <4>1. available'[i] = Candidate(i, p) /\ i \in Ids
          BY <2>1, <3>1, <3>2, <3>3 DEF AvailableOK
        <4> QED
          BY <2>1, <4>1, CandidateTyped DEF Typed
      <3>4. CASE i # id
        <4>1. available'[i] = Discovered[i]
          BY <2>1, <3>1, <3>4
        <4> QED
          BY <3>2, <4>1
      <3> QED
        BY <3>3, <3>4
    <2> QED
      BY <2>1, <2>2, CallKeepsTyped
  <1>3. ASSUME NEW id \in Ids, ReloadPlugin(id) \/ ReloadAborts(id) PROVE Typed'
    <2>1. PICK ids : available' = Refreshed(ids)
      BY <1>3 DEF ReloadPlugin, ReloadAborts
    <2>2. UNCHANGED <<disk, plugins, dependents, sysPath>>
      BY <1>3 DEF ReloadPlugin, ReloadAborts
    <2> QED
      BY <2>1, <2>2, RefreshedTyped, CallKeepsTyped
  <1>4. ASSUME NEW id \in Ids, UnloadPlugin(id) PROVE Typed'
    BY <1>4, AvailableTyped, CallKeepsTyped DEF UnloadPlugin, loader
  <1>5. ASSUME NEW p \in Paths, EditFile(p) PROVE Typed'
    <2>1. PICK m \in Manifests[p] \cup {NoFile, Corrupt} : disk' = [disk EXCEPT ![p] = m]
      BY <1>5 DEF EditFile, Contents
    <2>2. OnDisk'
      BY <2>1 DEF Typed, OnDisk
    <2>3. UNCHANGED <<available, plugins, dependents, sysPath>>
      BY <1>5 DEF EditFile, loader
    <2> QED
      BY <2>2, <2>3 DEF Typed, LoaderTyped
  <1>6. CASE RunLoad
    <2>1. LoadSingle(Head(agenda).id) /\ UNCHANGED <<disk, available>>
      BY <1>6 DEF RunLoad
    <2> DEFINE id == Head(agenda).id
    <2>2. CASE UNCHANGED <<plugins, dependents, sysPath>>
      BY <2>1, <2>2, AvailableTyped, CallKeepsTyped
    <2>3. ASSUME id \in DOMAIN available \ DOMAIN plugins,
                 NEW ok \in Outcomes, Import(id, available[id], ok)
          PROVE  Typed'
      BY <2>1, <2>3, ImportKeepsTyped
    <2> QED
      BY <2>1, <2>2, <2>3 DEF LoadSingle
  <1>7. CASE RunUnload
    BY <1>7, UnloadKeepsTyped DEF RunUnload
  <1>8. CASE RunResolve \/ VisitTarget \/ VisitDependency \/ FinishVisit \/ EndSearch
    <2>1. UNCHANGED <<disk, loader>>
      BY <1>8 DEF RunResolve, VisitTarget, VisitDependency, FinishVisit, EndSearch
    <2> QED
      BY <2>1, AvailableTyped, CallKeepsTyped DEF loader
  <1>9. CASE UNCHANGED vars
    BY <1>9, AvailableTyped, CallKeepsTyped DEF vars, loader
  <1>10. CASE Restart
    <2>1. (OnDisk /\ Empty => Typed)'
      BY EmptyTyped, PTL
    <2>2. OnDisk'
      BY <1>10 DEF Restart, Typed, OnDisk
    <2> QED
      BY <1>10, <2>1, <2>2, StartsEmpty
  <1> QED
    BY <1>1, <1>2, <1>3, <1>4, <1>5, <1>6, <1>7, <1>8, <1>9, <1>10 DEF Next

-----------------------------------------------------------------------------
(* The operators of a search                                                 *)

LEMMA AnswerShape ==
  ASSUME NEW s \in Searches, NEW answer \in BOOLEAN
  PROVE  LET t == Answer(s, answer)
         IN  /\ t \in Searches
             /\ t.aim = s.aim /\ t.targets = s.targets /\ t.roots = s.roots
             /\ t.done = s.done /\ t.order = s.order
             /\ Len(t.stack) = Len(s.stack)
             /\ \A k \in 1..Len(s.stack) :
                   /\ t.stack[k].id = s.stack[k].id /\ t.stack[k].left = s.stack[k].left
                   /\ t.stack[k].ok = (s.stack[k].ok /\ (k = Len(s.stack) => answer))
  <1> DEFINE t == Answer(s, answer)
  <1>1. CASE s.stack = <<>>
    BY <1>1 DEF Answer
  <1>2. CASE s.stack # <<>>
    <2> DEFINE n == Len(s.stack)
               call == [s.stack[n] EXCEPT !.ok = @ /\ answer]
    <2>1. /\ s.stack \in Seq(Frames) /\ n \in Nat /\ n \in 1..n
          /\ \A k \in 1..n : s.stack[k] \in Frames
      BY <1>2 DEF Searches
    <2>2. t = [s EXCEPT !.stack = [s.stack EXCEPT ![n] = call]]
      BY <1>2 DEF Answer
    <2>3. s.stack[n] \in Frames
      BY <2>1
    <2>4. /\ call \in Frames /\ call.id = s.stack[n].id /\ call.left = s.stack[n].left
          /\ call.ok = (s.stack[n].ok /\ answer)
      BY <2>3 DEF Frames
    <2> HIDE DEF call
    <2>5. [s.stack EXCEPT ![n] = call] \in Seq(Frames)
          /\ Len([s.stack EXCEPT ![n] = call]) = n
      BY <2>1, <2>4
    <2>6. t.stack = [s.stack EXCEPT ![n] = call] /\ t \in Searches
      BY <2>2, <2>5 DEF Searches
    <2>7. \A k \in 1..n : t.stack[k] = IF k = n THEN call ELSE s.stack[k]
      BY <2>1, <2>6
    <2>8. /\ t.aim = s.aim /\ t.targets = s.targets /\ t.roots = s.roots
         /\ t.done = s.done /\ t.order = s.order
      BY <2>2 DEF Searches
    <2>9. \A k \in 1..n : s.stack[k].ok \in BOOLEAN
      BY <2>1 DEF Frames
    <2> QED
      BY <2>4, <2>5, <2>6, <2>7, <2>8, <2>9, <2>1
  <1> QED
    BY <1>1, <1>2

LEMMA EnterShape ==
  ASSUME NEW s \in Searches, NEW id \in Ids, NEW left \in Seq(Ids)
  PROVE  LET t == Enter(s, id, left)
         IN  /\ t \in Searches
             /\ t.aim = s.aim /\ t.targets = s.targets /\ t.roots = s.roots
             /\ t.done = s.done /\ t.order = s.order
             /\ Len(t.stack) = Len(s.stack) + 1
             /\ \A k \in 1..Len(s.stack) : t.stack[k] = s.stack[k]
             /\ t.stack[Len(s.stack) + 1] = [id |-> id, left |-> left, ok |-> TRUE]
  <1> DEFINE t == Enter(s, id, left)
  <1> DEFINE call == [id |-> id, left |-> left, ok |-> TRUE]
  <1>1. s.stack \in Seq(Frames) /\ call \in Frames
    BY DEF Searches, Frames
  <1> HIDE DEF call
  <1>2. Append(s.stack, call) \in Seq(Frames)
    BY <1>1
  <1>3. t = [s EXCEPT !.stack = Append(s.stack, call)]
    BY DEF call, Enter
  <1> HIDE DEF t
  <1>4. t \in Searches /\ t.stack = Append(s.stack, call)
    BY <1>2, <1>3 DEF Searches
  <1>5. /\ t.aim = s.aim /\ t.targets = s.targets /\ t.roots = s.roots
        /\ t.done = s.done /\ t.order = s.order
    BY <1>3 DEF Searches
  <1>6. t.stack[Len(s.stack) + 1] = call /\ Len(t.stack) = Len(s.stack) + 1
    BY <1>1, <1>4
  <1> QED
    BY <1>1, <1>4, <1>5, <1>6 DEF call, t

\* Finish takes the last call off the stack and then answers the one before.
LEMMA FinishShape ==
  ASSUME NEW s \in Searches, s.stack # <<>>
  PROVE  LET t == Finish(s)
             call == Last(s.stack)
         IN  /\ t \in Searches
             /\ t.aim = s.aim /\ t.targets = s.targets /\ t.roots = s.roots
             /\ t.done = s.done \cup {call.id}
             /\ t.order = IF call.ok /\ Wanted(s, call.id) THEN Append(s.order, call.id)
                          ELSE s.order
             /\ Len(t.stack) = Len(s.stack) - 1
             /\ \A k \in 1..Len(s.stack) - 1 :
                   /\ t.stack[k].id = s.stack[k].id /\ t.stack[k].left = s.stack[k].left
                   /\ t.stack[k].ok = (s.stack[k].ok /\ (k = Len(s.stack) - 1 => call.ok))
  <1> DEFINE t == Finish(s)
             call == Last(s.stack)
  <1> DEFINE order == IF call.ok /\ Wanted(s, call.id) THEN Append(s.order, call.id)
                      ELSE s.order
             r == [s EXCEPT !.done = @ \cup {call.id}, !.stack = Front(@), !.order = order]
  <1>1. /\ s.stack \in Seq(Frames) /\ Len(s.stack) \in Nat \ {0}
        /\ s.stack[Len(s.stack)] \in Frames /\ s.order \in Seq(Ids)
    BY DEF Searches
  <1>2. call.id \in Ids /\ call.ok \in BOOLEAN
    BY <1>1 DEF Last, Frames
  <1>3. order \in Seq(Ids)
    BY <1>1, <1>2
  <1>4. t = Answer(r, call.ok)
    BY DEF Finish
  <1> HIDE DEF order
  <1>5. /\ Front(s.stack) \in Seq(Frames) /\ Len(Front(s.stack)) = Len(s.stack) - 1
        /\ \A k \in 1..Len(s.stack) - 1 : Front(s.stack)[k] = s.stack[k]
    BY <1>1 DEF Front
  <1>6. /\ r \in Searches /\ r.stack = Front(s.stack) /\ r.order = order
        /\ r.done = s.done \cup {call.id}
        /\ r.aim = s.aim /\ r.targets = s.targets /\ r.roots = s.roots
    BY <1>2, <1>3, <1>5 DEF Searches
  <1> HIDE DEF r
  <1>7. /\ t \in Searches
        /\ t.aim = r.aim /\ t.targets = r.targets /\ t.roots = r.roots
        /\ t.done = r.done /\ t.order = r.order
        /\ Len(t.stack) = Len(r.stack)
        /\ \A k \in 1..Len(r.stack) :
              /\ t.stack[k].id = r.stack[k].id /\ t.stack[k].left = r.stack[k].left
              /\ t.stack[k].ok = (r.stack[k].ok /\ (k = Len(r.stack) => call.ok))
    BY <1>2, <1>4, <1>6, AnswerShape, SMTT(30)
  <1> QED
    BY <1>5, <1>6, <1>7 DEF order

LEMMA ContinueShape ==
  ASSUME NEW s \in Searches, s.stack # <<>>, Last(s.stack).left # <<>>
  PROVE  LET t == Continue(s)
             n == Len(s.stack)
             call == Last(s.stack)
         IN  /\ t \in Searches
             /\ t.aim = s.aim /\ t.targets = s.targets /\ t.roots = s.roots
             /\ t.done = s.done /\ t.order = s.order /\ n \in Nat \ {0} /\ Len(t.stack) = n
             /\ \A k \in 1..n : /\ t.stack[k].id = s.stack[k].id /\ t.stack[k].ok = s.stack[k].ok
                                /\ k # n => t.stack[k].left = s.stack[k].left
             /\ s.stack[n] = call /\ call \in Frames /\ Head(call.left) \in Ids
             /\ ToSet(call.left) = {Head(call.left)} \cup ToSet(t.stack[n].left)
  <1> DEFINE t == Continue(s)
             n == Len(s.stack)
             call == Last(s.stack)
             c == [call EXCEPT !.left = Tail(@)]
             left == call.left
  <1>1. /\ s.stack \in Seq(Frames) /\ n \in Nat /\ n \in 1..n /\ DOMAIN s.stack = 1..n
        /\ \A k \in 1..n : s.stack[k] \in Frames
    BY DEF Searches
  <1>2. s.stack[n] = call /\ call \in Frames
    BY <1>1 DEF Last
  <1>3. left \in Seq(Ids) /\ left # <<>>
    BY <1>2 DEF Frames
  <1>4. t = [s EXCEPT !.stack = [s.stack EXCEPT ![n] = c]]
    BY <1>2 DEF Continue
  <1>5. Head(left) \in Ids /\ Tail(left) \in Seq(Ids) /\ ToSet(left) = {Head(left)} \cup ToSet(Tail(left))
    <2> HIDE DEF left
    <2>1. /\ Head(left) = left[1] /\ Head(left) \in Ids /\ Tail(left) \in Seq(Ids)
          /\ Len(left) \in Nat \ {0} /\ DOMAIN left = 1..Len(left)
          /\ DOMAIN Tail(left) = 1..Len(left) - 1
          /\ \A i \in 1..Len(left) - 1 : Tail(left)[i] = left[i + 1]
      BY <1>3
    <2>2. \A i \in 1..Len(left) : i = 1 \/ i - 1 \in 1..Len(left) - 1
      BY <2>1
    <2>3. \A i \in 1..Len(left) - 1 : i + 1 \in 1..Len(left)
      BY <2>1
    <2>4. \A i \in 1..Len(left) : i # 1 => left[i] = Tail(left)[i - 1]
      BY <2>1, <2>2
    <2>5. ToSet(left) \subseteq {Head(left)} \cup ToSet(Tail(left))
      <3> SUFFICES ASSUME NEW i \in 1..Len(left)
                   PROVE  left[i] \in {Head(left)} \cup ToSet(Tail(left))
        BY <2>1 DEF ToSet
      <3>1. CASE i = 1
        BY <2>1, <3>1
      <3>2. CASE i # 1
        <4>1. i - 1 \in DOMAIN Tail(left) /\ left[i] = Tail(left)[i - 1]
          BY <2>1, <2>2, <2>4, <3>2
        <4> QED
          BY <4>1 DEF ToSet
      <3> QED
        BY <3>1, <3>2
    <2>6. ToSet(Tail(left)) \subseteq ToSet(left)
      BY <2>1, <2>3 DEF ToSet
    <2>7. Head(left) \in ToSet(left)
      <3>1. 1 \in DOMAIN left
        BY <2>1
      <3> QED
        BY <2>1, <3>1 DEF ToSet
    <2> QED
      BY <2>1, <2>5, <2>6, <2>7
  <1>6. c \in Frames /\ c.id = call.id /\ c.ok = call.ok /\ c.left = Tail(left)
    BY <1>2, <1>5 DEF Frames
  <1> HIDE DEF c
  <1>7. [s.stack EXCEPT ![n] = c] \in Seq(Frames) /\ Len([s.stack EXCEPT ![n] = c]) = n
    BY <1>1, <1>6
  <1>8. t.stack = [s.stack EXCEPT ![n] = c] /\ t \in Searches
    BY <1>4, <1>7 DEF Searches
  <1>9. \A k \in 1..n : t.stack[k] = IF k = n THEN c ELSE s.stack[k]
    <2>1. \A k \in 1..n : [s.stack EXCEPT ![n] = c][k] = IF k = n THEN c ELSE s.stack[k]
      BY <1>1
    <2> QED
      BY <1>8, <2>1
  <1>10. /\ t.aim = s.aim /\ t.targets = s.targets /\ t.roots = s.roots
         /\ t.done = s.done /\ t.order = s.order
    BY <1>4 DEF Searches
  <1>11. n # 0
    BY <1>1
  <1>12. ToSet(t.stack[n].left) = ToSet(Tail(left))
    BY <1>1, <1>6, <1>9
  <1>13. Len(t.stack) = n
    BY <1>7, <1>8
  <1>14. \A k \in 1..n : /\ t.stack[k].id = s.stack[k].id /\ t.stack[k].ok = s.stack[k].ok
                         /\ k # n => t.stack[k].left = s.stack[k].left
    BY <1>2, <1>6, <1>9
  <1> QED
    BY <1>1, <1>2, <1>5, <1>8, <1>10, <1>11, <1>12, <1>13, <1>14

-----------------------------------------------------------------------------
(* Types of what a call keeps                                                *)

CallTyped == request \in Requests /\ search \in Searches /\ agenda \in Seq(Tasks)

LEMMA StepsFacts ==
  ASSUME NEW what \in {"load", "unload", "resolve"}, NEW ids \in Seq(Ids)
  PROVE  /\ Steps(what, ids) \in Seq(Tasks) /\ Len(Steps(what, ids)) = Len(ids)
         /\ DOMAIN Steps(what, ids) = 1..Len(ids)
         /\ \A i \in 1..Len(ids) : Steps(what, ids)[i] = [do |-> what, id |-> ids[i]]
  <1>1. DOMAIN ids = 1..Len(ids) /\ Len(ids) \in Nat /\ \A i \in 1..Len(ids) : ids[i] \in Ids
    OBVIOUS
  <1>2. \A i \in 1..Len(ids) : [do |-> what, id |-> ids[i]] \in Tasks
    BY <1>1 DEF Tasks
  <1> QED
    BY <1>1, <1>2 DEF Steps

LEMMA ReverseFacts ==
  ASSUME NEW ids \in Seq(Ids)
  PROVE  /\ Reverse(ids) \in Seq(Ids) /\ Len(Reverse(ids)) = Len(ids)
         /\ \A i \in 1..Len(ids) : Reverse(ids)[i] = ids[Len(ids) - i + 1]
  <1>1. Len(ids) \in Nat /\ \A i \in 1..Len(ids) : ids[i] \in Ids
    OBVIOUS
  <1>2. \A i \in 1..Len(ids) : Len(ids) - i + 1 \in 1..Len(ids)
    BY <1>1
  <1> QED
    BY <1>1, <1>2 DEF Reverse

LEMMA AgendaTyped ==
  ASSUME NEW aim \in {"load", "unload", "reload"}, NEW order \in Seq(Ids)
  PROVE  Agenda(aim, order) \in Seq(Tasks)
  <1>1. Steps("load", order) \in Seq(Tasks) /\ LoadAgenda(order) \in Seq(Tasks)
    BY StepsFacts DEF LoadAgenda
  <1>2. UnloadAgenda(order) \in Seq(Tasks)
    BY ReverseFacts, StepsFacts DEF UnloadAgenda
  <1>3. UnloadAgenda(order) \o LoadAgenda(order) \in Seq(Tasks)
    BY <1>1, <1>2
  <1> QED
    BY <1>1, <1>2, <1>3 DEF Agenda

LEMMA SearchTyped ==
  ASSUME NEW aim \in {"none", "load", "unload", "reload"}, NEW targets \in SUBSET Ids
  PROVE  Search(aim, targets) \in Searches
  BY DEF Search, Searches

LEMMA KnownDependenciesTyped ==
  ASSUME LoaderTyped, NEW id
  PROVE  KnownDependencies(id) \in Seq(Ids)
  <1>1. CASE id \in DOMAIN available
    <2>1. available[id].deps \in DependencyLists
      BY <1>1 DEF LoaderTyped, Candidates
    <2> QED
      BY <1>1, <2>1 DEF KnownDependencies, DependencyLists
  <1>2. CASE id \notin DOMAIN available /\ id \in DOMAIN plugins
    <2>1. plugins[id].deps \in DependencyLists
      BY <1>2 DEF LoaderTyped, Records
    <2> QED
      BY <1>2, <2>1 DEF KnownDependencies, DependencyLists
  <1>3. CASE id \notin DOMAIN available /\ id \notin DOMAIN plugins
    BY <1>3 DEF KnownDependencies
  <1> QED
    BY <1>1, <1>2, <1>3

LEMMA VisitTyped ==
  ASSUME LoaderTyped, NEW s \in Searches, NEW id \in Ids
  PROVE  Visit(s, id) \in Searches
  <1>1. Revisit(s, id) \in Searches
    <2>1. (id \in s.done) \in BOOLEAN
      OBVIOUS
    <2> QED
      BY <2>1, AnswerShape DEF Revisit
  <1>2. Enter(s, id, KnownDependencies(id)) \in Searches
    BY KnownDependenciesTyped, EnterShape
  <1> QED
    BY <1>1, <1>2 DEF Visit

LEMMA SearchStepTyped ==
  ASSUME LoaderTyped, search \in Searches, VisitTarget \/ VisitDependency \/ FinishVisit
  PROVE  search' \in Searches
  <1>1. CASE VisitTarget
    <2>1. PICK id \in search.roots : search' = Visit([search EXCEPT !.roots = @ \ {id}], id)
      BY <1>1 DEF VisitTarget
    <2>2. [search EXCEPT !.roots = @ \ {id}] \in Searches /\ id \in Ids
      BY DEF Searches
    <2> QED
      BY <2>1, <2>2, VisitTyped
  <1>2. CASE VisitDependency
    <2> DEFINE dep == Head(Last(search.stack).left)
               s == Continue(search)
    <2>1. search' = IF InScope(s, dep) THEN Visit(s, dep) ELSE Answer(s, s.aim # "load")
      BY <1>2 DEF VisitDependency
    <2>2. s \in Searches /\ dep \in Ids
      BY <1>2, ContinueShape DEF VisitDependency
    <2> HIDE DEF s, dep
    <2>3. (s.aim # "load") \in BOOLEAN
      OBVIOUS
    <2>4. Answer(s, s.aim # "load") \in Searches
      BY <2>2, <2>3, AnswerShape
    <2> QED
      BY <2>1, <2>2, <2>4, VisitTyped
  <1>3. CASE FinishVisit
    BY <1>3, FinishShape DEF FinishVisit
  <1> QED
    BY <1>1, <1>2, <1>3

LEMMA HeadTyped ==
  ASSUME agenda \in Seq(Tasks), agenda # <<>>
  PROVE  Head(agenda) \in Tasks /\ Head(agenda).id \in Ids /\ Tail(agenda) \in Seq(Tasks)
  <1>1. Head(agenda) \in Tasks /\ Tail(agenda) \in Seq(Tasks)
    OBVIOUS
  <1> QED
    BY <1>1 DEF Tasks

LEMMA CallTypedRequest ==
  ASSUME LoaderTyped,
         NEW op \in {"start", "load", "loadAborted", "unload", "reload"} \cup Over,
         NEW ids \in SUBSET Ids, Call(op, ids)
  PROVE  request' \in Requests
  BY DEF Call, Requests, LoaderTyped

LEMMA EmptyCallTyped == Empty => CallTyped
  <1> SUFFICES ASSUME Empty PROVE CallTyped
    OBVIOUS
  <1>1. search \in Searches
    BY SearchTyped DEF Empty, NoSearch
  <1>2. request \in Requests /\ agenda \in Seq(Tasks)
    BY DEF Empty, NoRequest, Requests
  <1> QED
    BY <1>1, <1>2 DEF CallTyped

\* A call that is given up leaves no more than its name.
Aborts ==
    \/ StartAborts
    \/ \E p \in Paths : LoadPluginAborts(p)
    \/ \E id \in Ids : ReloadAborts(id)

LEMMA AbortFacts ==
  ASSUME Typed, Typed', Aborts
  PROVE  /\ UNCHANGED <<disk, plugins, dependents, sysPath, search, agenda>>
         /\ \E op \in {"loadAborted"} \cup Over : \E ids \in SUBSET Ids : Call(op, ids)
         /\ DOMAIN available \subseteq DOMAIN available'
         /\ request.op = "none" \/ Idle
  <1>0. DOMAIN available' \subseteq Ids
    BY DEF Typed, LoaderTyped
  <1>1. DOMAIN available \subseteq DOMAIN Discovered
    BY DEF Discovered
  <1>2. CASE StartAborts
    <2>1. Call("startAborted", DOMAIN available')
      BY <1>2 DEF StartAborts
    <2> QED
      BY <1>0, <1>1, <1>2, <2>1 DEF StartAborts, Over
  <1>3. ASSUME NEW p \in Paths, LoadPluginAborts(p)
        PROVE  \E ids \in SUBSET Ids : Call("loadAborted", ids)
    <2>1. disk[p].id \in Ids
      <3>1. disk[p] \in [id : Ids, version : Versions, requires : Seq(Requirements)]
        BY <1>3, ManifestsAssumption DEF Typed, OnDisk, Readable, LoadPluginAborts
      <3> QED
        BY <3>1
    <2>2. Call("loadAborted", {disk[p].id})
      BY <1>3 DEF LoadPluginAborts
    <2> QED
      BY <2>1, <2>2
  <1>4. ASSUME NEW p \in Paths, LoadPluginAborts(p)
        PROVE  /\ UNCHANGED <<disk, plugins, dependents, sysPath, search, agenda>>
               /\ DOMAIN available \subseteq DOMAIN available' /\ Idle
    BY <1>1, <1>4 DEF LoadPluginAborts, Ready
  <1>5. ASSUME NEW id \in Ids, ReloadAborts(id)
        PROVE  /\ UNCHANGED <<disk, plugins, dependents, sysPath, search, agenda>>
               /\ \E op \in Over : \E ids \in SUBSET Ids : Call(op, ids)
               /\ DOMAIN available \subseteq DOMAIN available' /\ Idle
    <2>1. PICK ids : available' = Refreshed(ids)
      BY <1>5 DEF ReloadAborts
    <2>2. DOMAIN available' = DOMAIN available
      BY <2>1 DEF Refreshed
    <2>3. Call("reloadAborted", {id}) /\ Idle
          /\ UNCHANGED <<disk, plugins, dependents, sysPath, search, agenda>>
      BY <1>5 DEF ReloadAborts, Ready
    <2> QED
      BY <2>2, <2>3 DEF Over
  <1> QED
    BY <1>2, <1>3, <1>4, <1>5 DEF Aborts

LEMMA NextCallTyped ==
  ASSUME Typed, Typed', CallTyped, [Next]_vars
  PROVE  CallTyped'
  <1>0. LoaderTyped /\ LoaderTyped' /\ DOMAIN plugins \subseteq Ids /\ DOMAIN plugins' \subseteq Ids
        /\ DOMAIN available' \subseteq Ids
    BY DEF Typed, LoaderTyped
  <1>1. CASE LoadPlugins
    <2>1. Call("start", DOMAIN available') /\ UNCHANGED agenda
          /\ search' = Search("load", DOMAIN available')
      BY <1>1 DEF LoadPlugins
    <2>2. request' \in Requests
      BY <1>0, <2>1, CallTypedRequest
    <2>3. search' \in Searches
      BY <1>0, <2>1, SearchTyped
    <2> QED
      BY <2>1, <2>2, <2>3 DEF CallTyped
  <1>2. ASSUME NEW p \in Paths, LoadPlugin(p) PROVE CallTyped'
    <2> DEFINE id == disk[p].id
               unload == IF id \in DOMAIN plugins THEN <<id>> ELSE <<>>
    <2>1. p \in Readable /\ Call("load", {id}) /\ UNCHANGED search
          /\ agenda' = Steps("unload", unload) \o Steps("resolve", <<id>>)
      BY <1>2 DEF LoadPlugin
    <2>2. id \in Ids
      <3>1. disk[p] \in [id : Ids, version : Versions, requires : Seq(Requirements)]
        BY <2>1, ManifestsAssumption DEF Typed, OnDisk, Readable
      <3> QED
        BY <3>1
    <2> HIDE DEF id
    <2>3. unload \in Seq(Ids) /\ <<id>> \in Seq(Ids)
      BY <2>2
    <2> HIDE DEF unload
    <2>4. Steps("unload", unload) \in Seq(Tasks) /\ Steps("resolve", <<id>>) \in Seq(Tasks)
      BY <2>3, StepsFacts
    <2>5. agenda' \in Seq(Tasks)
      BY <2>1, <2>4
    <2>6. request' \in Requests
      BY <1>0, <2>1, <2>2, CallTypedRequest
    <2> QED
      BY <2>1, <2>5, <2>6 DEF CallTyped
  <1>3. ASSUME NEW id \in Ids, ReloadPlugin(id) PROVE CallTyped'
    <2>1. /\ Call("reload", {id}) /\ UNCHANGED agenda
          /\ search' = Search("reload", Affected(id) \cap DOMAIN plugins)
      BY <1>3 DEF ReloadPlugin
    <2>2. request' \in Requests
      BY <1>0, <2>1, CallTypedRequest
    <2>3. search' \in Searches
      <3>1. Affected(id) \cap DOMAIN plugins \in SUBSET Ids
        BY <1>0
      <3> QED
        BY <2>1, <3>1, SearchTyped
    <2> QED
      BY <2>1, <2>2, <2>3 DEF CallTyped
  <1>4. ASSUME NEW id \in Ids, UnloadPlugin(id) PROVE CallTyped'
    <2>1. /\ Call("unload", {id}) /\ UNCHANGED agenda
          /\ search' = Search("unload", Affected(id) \cap DOMAIN plugins)
      BY <1>4 DEF UnloadPlugin
    <2>2. request' \in Requests
      BY <1>0, <2>1, CallTypedRequest
    <2>3. search' \in Searches
      <3>1. Affected(id) \cap DOMAIN plugins \in SUBSET Ids
        BY <1>0
      <3> QED
        BY <2>1, <3>1, SearchTyped
    <2> QED
      BY <2>1, <2>2, <2>3 DEF CallTyped
  <1>5. CASE RunLoad
    <2>1. /\ agenda # <<>> /\ agenda' = Tail(agenda) /\ UNCHANGED search
          /\ request' = [request EXCEPT !.failed = @ \cup ({Head(agenda).id} \ DOMAIN plugins')]
      BY <1>5 DEF RunLoad
    <2>2. Head(agenda).id \in Ids /\ Tail(agenda) \in Seq(Tasks)
      BY <2>1, HeadTyped DEF CallTyped
    <2>3. request' \in Requests
      BY <2>1, <2>2 DEF CallTyped, Requests
    <2> QED
      BY <2>1, <2>2, <2>3 DEF CallTyped
  <1>6. CASE RunUnload
    BY <1>6, HeadTyped DEF RunUnload, CallTyped
  <1>7. CASE RunResolve
    <2>1. agenda # <<>> /\ UNCHANGED request /\ search' = Search("load", {Head(agenda).id})
          /\ agenda' = Tail(agenda)
      BY <1>7 DEF RunResolve
    <2>2. {Head(agenda).id} \in SUBSET Ids /\ Tail(agenda) \in Seq(Tasks)
      BY <2>1, HeadTyped DEF CallTyped
    <2> QED
      BY <2>1, <2>2, SearchTyped DEF CallTyped
  <1>8. CASE VisitTarget \/ VisitDependency \/ FinishVisit
    <2>1. search' \in Searches
      BY <1>0, <1>8, SearchStepTyped DEF CallTyped
    <2>2. UNCHANGED <<request, agenda>>
      BY <1>8 DEF VisitTarget, VisitDependency, FinishVisit
    <2> QED
      BY <2>1, <2>2 DEF CallTyped
  <1>9. CASE EndSearch
    <2>1. /\ search.aim # "none" /\ UNCHANGED request /\ search' = Search("none", {})
          /\ agenda' = Agenda(search.aim, search.order) \o agenda
      BY <1>9 DEF EndSearch, NotSearching, NoSearch
    <2>2. search.aim \in {"load", "unload", "reload"} /\ search.order \in Seq(Ids)
      BY <2>1 DEF CallTyped, Searches
    <2>3. Agenda(search.aim, search.order) \in Seq(Tasks)
      BY <2>2, AgendaTyped
    <2>4. agenda' \in Seq(Tasks)
      BY <2>1, <2>3 DEF CallTyped
    <2> QED
      BY <2>1, <2>4, SearchTyped DEF CallTyped
  <1>10. ASSUME NEW p \in Paths, EditFile(p) PROVE CallTyped'
    BY <1>10 DEF EditFile, CallTyped
  <1>11. CASE UNCHANGED vars
    BY <1>11 DEF vars, CallTyped
  <1>12. CASE Aborts
    <2>1. PICK op \in {"loadAborted"} \cup Over, ids \in SUBSET Ids : Call(op, ids)
      BY <1>12, AbortFacts
    <2>2. request' \in Requests
      BY <1>0, <2>1, CallTypedRequest
    <2> QED
      BY <1>12, <2>2, AbortFacts DEF CallTyped
  <1>13. CASE Restart
    <2>1. (Empty => CallTyped)'
      BY EmptyCallTyped, PTL
    <2> QED
      BY <1>13, <2>1, StartsEmpty
  <1> QED
    BY <1>1, <1>2, <1>3, <1>4, <1>5, <1>6, <1>7, <1>8, <1>9, <1>10, <1>11, <1>12, <1>13
       DEF Next, Aborts

\* What is remembered of a plugin names no dependency twice and not the plugin
\* itself, for any manifests, whatever is edited, loaded or fails; searches and
\* agendas are about ids that some manifest or directory names.
THEOREM TypeCorrect == Spec => []TypeOK
  <1>1. Typed /\ CallTyped => TypeOK
    BY DEF Typed, CallTyped, TypeOK
  <1>2. Typed /\ CallTyped /\ [Next]_vars => Typed' /\ CallTyped'
    BY NextTyped, NextCallTyped
  <1> QED
    BY <1>1, <1>2, InitTyped, StartsEmpty, EmptyCallTyped, PTL DEF Spec

-----------------------------------------------------------------------------
(* The invariant of a search, over the graph that it searches                *)

LoopsIn(succ, id) == \E d \in succ[id] : id \in Closure(d, succ)

SoundIn(succ, known, id) ==
    \A q \in Closure(id, succ) : q \in known /\ ~ LoopsIn(succ, q)

\* What is the matter with a plugin whose visit fails.
Guilty(strict, succ, known, id) ==
    \/ strict /\ ~ SoundIn(succ, known, id)
    \/ \E q \in Closure(id, succ) : LoopsIn(succ, q)

Skipped(s, scope, d) == d \notin scope /\ s.aim # "load"

\* The calls on the stack are a path without repetition from a target, each with the
\* dependencies that it has not dealt with yet.
StackOK(s, succ, scope) ==
    \A k \in DOMAIN s.stack :
        /\ s.stack[k].id \in scope \ s.done
        /\ ToSet(s.stack[k].left) \subseteq succ[s.stack[k].id]
        /\ k = 1 => s.stack[k].id \in s.targets
        /\ k # 1 => s.stack[k].id \in succ[s.stack[k - 1].id]
        /\ \A j \in DOMAIN s.stack : j < k =>
              s.stack[j].id # s.stack[k].id /\ s.stack[k].id \in Closure(s.stack[j].id, succ)

\* A call that may still succeed has seen all but what is left succeed or be skipped.
CoverOK(s, succ, scope) ==
    \A k \in DOMAIN s.stack : s.stack[k].ok =>
        \A d \in succ[s.stack[k].id] :
            \/ d \in ToSet(s.stack[k].left) \cup s.done \/ Skipped(s, scope, d)
            \/ k # Len(s.stack) /\ d = s.stack[k + 1].id

\* Visits fail for a reason.
BlameOK(s, succ, scope, loaded) ==
    /\ \A k \in DOMAIN s.stack :
          ~ s.stack[k].ok => Guilty(s.aim = "load", succ, scope, s.stack[k].id)
    /\ \A x \in s.done : x \in s.targets \/ x \notin loaded =>
          x \in ToSet(s.order) \/ Guilty(s.aim = "load", succ, scope, x)

\* No target is forgotten.
TargetsOK(s, scope) ==
    /\ s.targets \subseteq scope /\ s.roots \subseteq s.targets /\ s.done \subseteq scope
    /\ s.targets \subseteq s.roots \cup s.done \cup Open(s)

OrderOK(s, succ, scope) ==
    /\ \A i \in DOMAIN s.order :
          /\ s.order[i] \in s.done
          /\ \A d \in succ[s.order[i]] : d \in s.done \/ Skipped(s, scope, d)
    /\ \A i, j \in DOMAIN s.order : i <= j => s.order[j] \notin succ[s.order[i]]

\* As long as nothing has failed in the search from a single target, all that is done
\* is sound and closed under dependencies.
CleanOK(s, succ, scope) ==
    /\ s.aim = "load" /\ \A x, y \in s.targets : x = y
    /\ \A k \in DOMAIN s.stack : s.stack[k].ok
    /\ s.targets \cap s.done \subseteq ToSet(s.order)
    => \A x \in s.done : SoundIn(succ, scope, x) /\ succ[x] \subseteq s.done

SearchOK(s, succ, scope, loaded) ==
    /\ StackOK(s, succ, scope)
    /\ CoverOK(s, succ, scope)
    /\ BlameOK(s, succ, scope, loaded)
    /\ TargetsOK(s, scope)
    /\ OrderOK(s, succ, scope)
    /\ CleanOK(s, succ, scope)

-----------------------------------------------------------------------------
(* Closures                                                                  *)

Graphs == [Ids -> SUBSET Ids]

LEMMA ClosureFacts ==
  ASSUME NEW next \in Graphs, NEW id \in Ids
  PROVE  /\ id \in Closure(id, next)
         /\ Closure(id, next) \subseteq Ids
         /\ \A x \in Closure(id, next) : next[x] \subseteq Closure(id, next)
  <1>1. \A x \in Closure(id, next) : \A d \in next[x] : d \in Closure(id, next)
    <2> TAKE x \in Closure(id, next)
    <2> TAKE d \in next[x]
    <2>1. x \in Ids /\ d \in Ids
      BY DEF Closure, Graphs
    <2>2. ASSUME NEW S \in SUBSET Ids, id \in S, \A y \in S : next[y] \subseteq S
          PROVE  d \in S
      BY <2>2 DEF Closure
    <2> QED
      BY <2>1, <2>2 DEF Closure
  <1> QED
    BY <1>1 DEF Closure

LEMMA ClosureLeast ==
  ASSUME NEW next, NEW id, NEW S \in SUBSET Ids, id \in S, \A x \in S : next[x] \subseteq S
  PROVE  Closure(id, next) \subseteq S
  BY DEF Closure

LEMMA ClosureTransitive ==
  ASSUME NEW next \in Graphs, NEW id \in Ids, NEW x \in Closure(id, next)
  PROVE  Closure(x, next) \subseteq Closure(id, next)
  BY ClosureFacts, ClosureLeast

\* A successor, and what a successor reaches, is reached.
LEMMA ClosureStep ==
  ASSUME NEW next \in Graphs, NEW id \in Ids, NEW d \in next[id]
  PROVE  d \in Ids /\ d \in Closure(id, next) /\ Closure(d, next) \subseteq Closure(id, next)
  <1>1. id \in Closure(id, next)
    BY ClosureFacts
  <1>2. d \in Closure(id, next)
    BY <1>1, ClosureFacts
  <1> QED
    BY <1>2, ClosureFacts, ClosureTransitive

\* A plugin is to blame as soon as a dependency is, is missing, or leads back to it.
LEMMA GuiltyBy ==
  ASSUME NEW succ \in Graphs, NEW known, NEW strict \in BOOLEAN,
         NEW x \in Ids, NEW d \in succ[x],
         \/ Guilty(strict, succ, known, d)
         \/ x \in Closure(d, succ)
         \/ strict /\ d \notin known
  PROVE  Guilty(strict, succ, known, x)
  <1>1. x \in Closure(x, succ) /\ d \in Closure(x, succ) /\ Closure(d, succ) \subseteq Closure(x, succ)
    BY ClosureFacts, ClosureStep
  <1> QED
    BY <1>1 DEF Guilty, SoundIn, LoopsIn

LEMMA SoundIsNotGuilty ==
  ASSUME NEW succ, NEW known, NEW strict, NEW x, SoundIn(succ, known, x)
  PROVE  ~ Guilty(strict, succ, known, x)
  BY DEF Guilty, SoundIn

LEMMA SoundFrom ==
  ASSUME NEW succ \in Graphs, NEW known, NEW x \in Ids \cap known,
         \A d \in succ[x] : SoundIn(succ, known, d) /\ x \notin Closure(d, succ)
  PROVE  SoundIn(succ, known, x)
  <1> DEFINE S == {x} \cup UNION {Closure(d, succ) : d \in succ[x]}
  <1>1. \A d \in succ[x] : d \in Ids /\ d \in Closure(d, succ) /\ Closure(d, succ) \subseteq Ids
    BY ClosureFacts DEF Graphs
  <1>2. Closure(x, succ) \subseteq S
    <2>1. S \in SUBSET Ids /\ x \in S
      BY <1>1
    <2>2. \A y \in S : succ[y] \subseteq S
      <3> TAKE y \in S
      <3>1. CASE y = x
        BY <1>1, <3>1
      <3>2. ASSUME NEW d \in succ[x], y \in Closure(d, succ) PROVE succ[y] \subseteq S
        BY <1>1, <3>2, ClosureFacts
      <3> QED
        BY <3>1, <3>2
    <2> HIDE DEF S
    <2> QED
      BY <2>1, <2>2, ClosureLeast
  <1>3. ~ LoopsIn(succ, x)
    BY DEF LoopsIn
  <1> QED
    BY <1>2, <1>3 DEF SoundIn

-----------------------------------------------------------------------------
(* One step of a search                                                      *)

\* What the steps of a search change, from s to t.
SameSearch(s, t) == t.aim = s.aim /\ t.targets = s.targets /\ s \in Searches /\ t \in Searches

\* The call on top is done with its dependency d, and was answered.
Dropped(s, t, d, answer) ==
    LET n == Len(s.stack)
    IN  /\ SameSearch(s, t) /\ t.roots = s.roots /\ t.done = s.done /\ t.order = s.order
        /\ n # 0 /\ Len(t.stack) = n /\ ToSet(s.stack[n].left) = {d} \cup ToSet(t.stack[n].left)
        /\ \A k \in 1..n : /\ t.stack[k].id = s.stack[k].id
                           /\ k # n => t.stack[k].left = s.stack[k].left
                           /\ t.stack[k].ok = (s.stack[k].ok /\ (k = n => answer))

\* The call on top calls visit for its dependency d.
Descended(s, t, d, dependencies) ==
    LET n == Len(s.stack)
    IN  /\ SameSearch(s, t) /\ t.roots = s.roots /\ t.done = s.done /\ t.order = s.order
        /\ n # 0 /\ Len(t.stack) = n + 1 /\ ToSet(s.stack[n].left) = {d} \cup ToSet(t.stack[n].left)
        /\ \A k \in 1..n : /\ t.stack[k].id = s.stack[k].id
                           /\ k # n => t.stack[k].left = s.stack[k].left
                           /\ t.stack[k].ok = s.stack[k].ok
        /\ t.stack[n + 1].id = d /\ t.stack[n + 1].ok
        /\ ToSet(t.stack[n + 1].left) = dependencies

\* The call on top, for x, ends and its caller is answered.
Finished(s, t, x, ok, wanted) ==
    LET n == Len(s.stack)
    IN  /\ SameSearch(s, t) /\ t.roots = s.roots /\ t.done = s.done \cup {x}
        /\ t.order = IF ok /\ wanted THEN Append(s.order, x) ELSE s.order
        /\ n # 0 /\ Len(t.stack) = n - 1 /\ s.stack[n].left = <<>>
        /\ s.stack[n].id = x /\ s.stack[n].ok = ok
        /\ \A k \in 1..n - 1 : /\ t.stack[k].id = s.stack[k].id
                               /\ t.stack[k].left = s.stack[k].left
                               /\ t.stack[k].ok = (s.stack[k].ok /\ (k = n - 1 => ok))

\* The search goes on to the next dependency of the call on top: the one that is
\* dropped succeeded, may be skipped, or is a reason to fail.
LEMMA DropKeepsSearch ==
  ASSUME NEW succ \in Graphs, NEW scope, NEW loaded, NEW s, NEW t,
         SearchOK(s, succ, scope, loaded),
         NEW d, NEW answer \in BOOLEAN, Dropped(s, t, d, answer),
         answer => d \in s.done \/ Skipped(s, scope, d),
         ~ answer => Guilty(s.aim = "load", succ, scope, s.stack[Len(s.stack)].id)
  PROVE  SearchOK(t, succ, scope, loaded)
  <1> DEFINE n == Len(s.stack)
  <1>a. /\ s \in Searches /\ t \in Searches /\ t.aim = s.aim /\ t.targets = s.targets
        /\ t.roots = s.roots /\ t.done = s.done /\ t.order = s.order
        /\ Len(t.stack) = n /\ ToSet(s.stack[n].left) = {d} \cup ToSet(t.stack[n].left)
    BY DEF Dropped, SameSearch
  <1>b. \A k \in 1..n : /\ t.stack[k].id = s.stack[k].id
                        /\ k # n => t.stack[k].left = s.stack[k].left
                        /\ t.stack[k].ok = (s.stack[k].ok /\ (k = n => answer))
    BY DEF Dropped
  <1>c. n \in Nat \ {0}
    BY <1>a DEF Dropped, Searches
  <1>d. n = Len(s.stack)
    OBVIOUS
  <1> USE <1>a, <1>b, <1>c, <1>d
  <1> HIDE DEF n
  <1>1. /\ DOMAIN s.stack = 1..n /\ DOMAIN t.stack = 1..n
        /\ StackOK(s, succ, scope) /\ CoverOK(s, succ, scope)
        /\ BlameOK(s, succ, scope, loaded) /\ TargetsOK(s, scope)
        /\ OrderOK(s, succ, scope) /\ CleanOK(s, succ, scope)
    BY DEF Searches, SearchOK
  <1>2. \A k \in 1..n : ToSet(t.stack[k].left) \subseteq ToSet(s.stack[k].left)
    OBVIOUS
  <1>3. StackOK(t, succ, scope)
    <2> SUFFICES ASSUME NEW k \in 1..n
                 PROVE  /\ t.stack[k].id \in scope \ t.done
                        /\ ToSet(t.stack[k].left) \subseteq succ[t.stack[k].id]
                        /\ k = 1 => t.stack[k].id \in t.targets
                        /\ k # 1 => t.stack[k].id \in succ[t.stack[k - 1].id]
                        /\ \A j \in 1..n : j < k =>
                              /\ t.stack[j].id # t.stack[k].id
                              /\ t.stack[k].id \in Closure(t.stack[j].id, succ)
      BY <1>1 DEF StackOK
    <2>1. k # 1 => k - 1 \in 1..n
      OBVIOUS
    <2>2. \A j \in 1..n : t.stack[j].id = s.stack[j].id
      OBVIOUS
    <2>3. /\ s.stack[k].id \in scope \ s.done
          /\ ToSet(s.stack[k].left) \subseteq succ[s.stack[k].id]
          /\ k = 1 => s.stack[k].id \in s.targets
          /\ k # 1 => s.stack[k].id \in succ[s.stack[k - 1].id]
      BY <1>1 DEF StackOK
    <2>4. \A j \in 1..n : j < k =>
              s.stack[j].id # s.stack[k].id /\ s.stack[k].id \in Closure(s.stack[j].id, succ)
      BY <1>1 DEF StackOK
    <2>5. k # 1 => t.stack[k - 1].id = s.stack[k - 1].id
      BY <2>1
    <2>6. ToSet(t.stack[k].left) \subseteq ToSet(s.stack[k].left)
      BY <1>2
    <2> QED
      BY <2>2, <2>3, <2>4, <2>5, <2>6
  <1>4. CoverOK(t, succ, scope)
    <2> SUFFICES ASSUME NEW k \in 1..n, t.stack[k].ok, NEW x \in succ[t.stack[k].id]
                 PROVE  \/ x \in ToSet(t.stack[k].left) \cup t.done \/ Skipped(t, scope, x)
                        \/ k # Len(t.stack) /\ x = t.stack[k + 1].id
      BY <1>1 DEF CoverOK
    <2>1. \/ x \in ToSet(s.stack[k].left) \cup s.done \/ Skipped(s, scope, x)
          \/ k # n /\ x = s.stack[k + 1].id
      BY <1>1, ZenonT(60) DEF CoverOK
    <2>2. k # n => k + 1 \in 1..n
      OBVIOUS
    <2> QED
      BY <2>1, <2>2 DEF Skipped
  <1>5. BlameOK(t, succ, scope, loaded)
    <2>1. ASSUME NEW k \in 1..n, ~ t.stack[k].ok
          PROVE  Guilty(t.aim = "load", succ, scope, t.stack[k].id)
      <3>1. t.stack[k].id = s.stack[k].id /\ (~ s.stack[k].ok \/ (k = n /\ ~ answer))
        BY <2>1
      <3>2. CASE ~ s.stack[k].ok
        BY <1>1, <3>1, <3>2 DEF BlameOK
      <3> QED
        BY <3>1, <3>2
    <2>2. \A x \in s.done : x \in s.targets \/ x \notin loaded =>
              x \in ToSet(s.order) \/ Guilty(s.aim = "load", succ, scope, x)
      BY <1>1 DEF BlameOK
    <2> QED
      BY <1>1, <2>1, <2>2 DEF BlameOK
  <1>6. TargetsOK(t, scope)
    BY <1>1 DEF TargetsOK, Open
  <1>7. OrderOK(t, succ, scope)
    BY <1>1 DEF OrderOK, Skipped
  <1>8. CleanOK(t, succ, scope)
    BY <1>1 DEF CleanOK
  <1> QED
    BY <1>3, <1>4, <1>5, <1>6, <1>7, <1>8 DEF SearchOK

\* The search goes on to a dependency that has not been visited.
LEMMA DescendKeepsSearch ==
  ASSUME NEW succ \in Graphs, NEW scope \in SUBSET Ids, NEW loaded,
         NEW s, NEW t, SearchOK(s, succ, scope, loaded),
         NEW d \in scope \ (s.done \cup Open(s)), Descended(s, t, d, succ[d])
  PROVE  SearchOK(t, succ, scope, loaded)
  <1> DEFINE n == Len(s.stack)
  <1>a. /\ s \in Searches /\ t \in Searches /\ t.aim = s.aim /\ t.targets = s.targets
        /\ t.roots = s.roots /\ t.done = s.done /\ t.order = s.order
        /\ Len(t.stack) = n + 1 /\ ToSet(s.stack[n].left) = {d} \cup ToSet(t.stack[n].left)
    BY DEF Descended, SameSearch
  <1>b. /\ \A k \in 1..n : /\ t.stack[k].id = s.stack[k].id
                           /\ k # n => t.stack[k].left = s.stack[k].left
                           /\ t.stack[k].ok = s.stack[k].ok
        /\ t.stack[n + 1].id = d /\ t.stack[n + 1].ok
        /\ ToSet(t.stack[n + 1].left) = succ[d]
    BY DEF Descended
  <1>c. n \in Nat \ {0}
    BY <1>a DEF Descended, Searches
  <1>d. n = Len(s.stack)
    OBVIOUS
  <1> USE <1>a, <1>b, <1>c, <1>d
  <1> HIDE DEF n
  <1>1. /\ DOMAIN s.stack = 1..n /\ DOMAIN t.stack = 1..n + 1
        /\ StackOK(s, succ, scope) /\ CoverOK(s, succ, scope)
        /\ BlameOK(s, succ, scope, loaded) /\ TargetsOK(s, scope)
        /\ OrderOK(s, succ, scope) /\ CleanOK(s, succ, scope)
    BY DEF Searches, SearchOK
  <1>2. \A k \in 1..n : ToSet(t.stack[k].left) \subseteq ToSet(s.stack[k].left)
    OBVIOUS
  <1>0. \A k \in 1..n + 1 : k = n + 1 \/ k \in 1..n
    OBVIOUS
  <1>3. StackOK(t, succ, scope)
    <2>1. \A k \in 1..n : s.stack[k].id \in Ids /\ s.stack[k].id # d
      BY <1>1 DEF StackOK, Open
    <2>2. d \in succ[s.stack[n].id]
      <3>1. n \in 1..n /\ d \in ToSet(s.stack[n].left)
        OBVIOUS
      <3> QED
        BY <1>1, <3>1 DEF StackOK
    <2>3. d \in Closure(s.stack[n].id, succ)
      BY <2>1, <2>2, ClosureStep
    <2>4. ASSUME NEW j \in 1..n PROVE d \in Closure(s.stack[j].id, succ)
      <3>1. CASE j = n
        BY <3>1, <2>3
      <3>2. CASE j < n
        <4>1. s.stack[n].id \in Closure(s.stack[j].id, succ)
          BY <1>1, <3>2 DEF StackOK
        <4> QED
          BY <4>1, <2>1, <2>3, ClosureTransitive
      <3> QED
        BY <3>1, <3>2
    <2>5. ASSUME NEW k \in 1..n + 1
          PROVE  /\ t.stack[k].id \in scope \ t.done
                 /\ ToSet(t.stack[k].left) \subseteq succ[t.stack[k].id]
                 /\ k = 1 => t.stack[k].id \in t.targets
                 /\ k # 1 => t.stack[k].id \in succ[t.stack[k - 1].id]
      <3>1. CASE k = n + 1
        BY <3>1, <2>2
      <3>2. CASE k \in 1..n
        <4>1. k # 1 => k - 1 \in 1..n
          BY <3>2
        <4> QED
          BY <1>1, <1>2, <3>2, <4>1, ZenonT(60) DEF StackOK
      <3> QED
        BY <1>0, <3>1, <3>2
    <2>6. ASSUME NEW k \in 1..n + 1, NEW j \in 1..n + 1, j < k
          PROVE  /\ t.stack[j].id # t.stack[k].id
                 /\ t.stack[k].id \in Closure(t.stack[j].id, succ)
      <3>0. j \in 1..n
        BY <2>6
      <3>1. CASE k = n + 1
        BY <3>0, <3>1, <2>1, <2>4
      <3>2. CASE k \in 1..n
        <4>1. s.stack[j].id # s.stack[k].id /\ s.stack[k].id \in Closure(s.stack[j].id, succ)
          BY <1>1, <2>6, <3>0, <3>2 DEF StackOK
        <4> QED
          BY <3>0, <3>2, <4>1
      <3> QED
        BY <1>0, <3>1, <3>2
    <2> QED
      BY <1>1, <2>5, <2>6 DEF StackOK
  <1>4. CoverOK(t, succ, scope)
    <2> SUFFICES ASSUME NEW k \in 1..n + 1, t.stack[k].ok, NEW x \in succ[t.stack[k].id]
                 PROVE  \/ x \in ToSet(t.stack[k].left) \cup t.done \/ Skipped(t, scope, x)
                        \/ k # Len(t.stack) /\ x = t.stack[k + 1].id
      BY <1>1 DEF CoverOK
    <2>1. CASE k = n + 1
      BY <2>1
    <2>2. CASE k \in 1..n
      <3>1. \/ x \in ToSet(s.stack[k].left) \cup s.done \/ Skipped(s, scope, x)
            \/ k # n /\ x = s.stack[k + 1].id
        BY <1>1, <2>2 DEF CoverOK
      <3>2. k # n => k + 1 \in 1..n
        BY <2>2
      <3>3. CASE k = n
        BY <3>1, <3>3 DEF Skipped
      <3>4. CASE k # n
        BY <2>2, <3>1, <3>2, <3>4 DEF Skipped
      <3> QED
        BY <3>3, <3>4
    <2> QED
      BY <1>0, <2>1, <2>2
  <1>5. BlameOK(t, succ, scope, loaded)
    BY <1>0, <1>1 DEF BlameOK
  <1>6. TargetsOK(t, scope)
    BY <1>1, SMTT(30) DEF TargetsOK, Open
  <1>7. OrderOK(t, succ, scope)
    BY <1>1 DEF OrderOK, Skipped
  <1>8. CleanOK(t, succ, scope)
    BY <1>1, SMTT(30) DEF CleanOK
  <1> QED
    BY <1>3, <1>4, <1>5, <1>6, <1>7, <1>8 DEF SearchOK

\* The next target has been visited on the way to another one.
LEMMA SkipKeepsSearch ==
  ASSUME NEW succ \in Graphs, NEW scope, NEW loaded, NEW s \in Searches, NEW t \in Searches,
         SearchOK(s, succ, scope, loaded), s.stack = <<>>, NEW id \in s.done,
         t.aim = s.aim, t.targets = s.targets, t.roots = s.roots \ {id},
         t.done = s.done, t.order = s.order, t.stack = <<>>
  PROVE  SearchOK(t, succ, scope, loaded)
  <1>1. /\ DOMAIN s.stack = {} /\ DOMAIN t.stack = {}
        /\ StackOK(s, succ, scope) /\ CoverOK(s, succ, scope)
        /\ BlameOK(s, succ, scope, loaded) /\ TargetsOK(s, scope)
        /\ OrderOK(s, succ, scope) /\ CleanOK(s, succ, scope)
    BY DEF SearchOK
  <1>2. TargetsOK(t, scope)
    BY <1>1 DEF TargetsOK, Open
  <1>3. StackOK(t, succ, scope) /\ CoverOK(t, succ, scope) /\ BlameOK(t, succ, scope, loaded)
    BY <1>1 DEF StackOK, CoverOK, BlameOK
  <1>4. OrderOK(t, succ, scope) /\ CleanOK(t, succ, scope)
    BY <1>1 DEF OrderOK, CleanOK, Skipped
  <1> QED
    BY <1>2, <1>3, <1>4 DEF SearchOK

\* The visit of the next target begins.
LEMMA StartKeepsSearch ==
  ASSUME NEW succ \in Graphs, NEW scope, NEW loaded, NEW s \in Searches, NEW t \in Searches,
         SearchOK(s, succ, scope, loaded), s.stack = <<>>, NEW id \in s.roots, id \notin s.done,
         t.aim = s.aim, t.targets = s.targets, t.roots = s.roots \ {id},
         t.done = s.done, t.order = s.order, Len(t.stack) = 1,
         t.stack[1].id = id, t.stack[1].ok, ToSet(t.stack[1].left) = succ[id]
  PROVE  SearchOK(t, succ, scope, loaded)
  <1>1. /\ DOMAIN s.stack = {} /\ DOMAIN t.stack = {1}
        /\ StackOK(s, succ, scope) /\ CoverOK(s, succ, scope)
        /\ BlameOK(s, succ, scope, loaded) /\ TargetsOK(s, scope)
        /\ OrderOK(s, succ, scope) /\ CleanOK(s, succ, scope)
    BY DEF SearchOK, Searches
  <1>2. id \in scope /\ id \in s.targets
    BY <1>1 DEF TargetsOK
  <1>3. TargetsOK(t, scope)
    BY <1>1 DEF TargetsOK, Open
  <1>4. StackOK(t, succ, scope)
    BY <1>1, <1>2 DEF StackOK
  <1>5. CoverOK(t, succ, scope) /\ BlameOK(t, succ, scope, loaded)
    BY <1>1 DEF CoverOK, BlameOK
  <1>6. OrderOK(t, succ, scope) /\ CleanOK(t, succ, scope)
    BY <1>1 DEF OrderOK, CleanOK, Skipped
  <1> QED
    BY <1>3, <1>4, <1>5, <1>6 DEF SearchOK

\* What the call on top finds when its loop ends: a plugin that succeeds has all its
\* dependencies done before it, and one that fails has a reason, which its caller shares.
LEMMA FinishKeepsSearch ==
  ASSUME NEW succ \in Graphs, NEW scope \in SUBSET Ids, NEW loaded,
         NEW s, NEW t, SearchOK(s, succ, scope, loaded),
         NEW x, NEW ok \in BOOLEAN, Finished(s, t, x, ok, x \in s.targets \/ x \notin loaded)
  PROVE  SearchOK(t, succ, scope, loaded)
  <1> DEFINE n == Len(s.stack)
  <1>a. /\ s \in Searches /\ t \in Searches /\ t.aim = s.aim /\ t.targets = s.targets
        /\ t.roots = s.roots /\ t.done = s.done \cup {x}
        /\ t.order = IF ok /\ (x \in s.targets \/ x \notin loaded) THEN Append(s.order, x)
                     ELSE s.order
        /\ Len(t.stack) = n - 1 /\ s.stack[n].left = <<>>
    BY DEF Finished, SameSearch
  <1>b. /\ \A k \in 1..n - 1 : /\ t.stack[k].id = s.stack[k].id
                               /\ t.stack[k].left = s.stack[k].left
                               /\ t.stack[k].ok = (s.stack[k].ok /\ (k = n - 1 => ok))
        /\ s.stack[n].id = x /\ s.stack[n].ok = ok
    BY DEF Finished
  <1>c. n \in Nat \ {0}
    BY <1>a DEF Finished, Searches
  <1>d. n = Len(s.stack)
    OBVIOUS
  <1> USE <1>a, <1>b, <1>c, <1>d
  <1> HIDE DEF n
  <1> DEFINE strict == s.aim = "load"
  <1>1. /\ DOMAIN s.stack = 1..n /\ DOMAIN t.stack = 1..n - 1 /\ n \in 1..n
        /\ StackOK(s, succ, scope) /\ CoverOK(s, succ, scope)
        /\ BlameOK(s, succ, scope, loaded) /\ TargetsOK(s, scope)
        /\ OrderOK(s, succ, scope) /\ CleanOK(s, succ, scope)
    BY DEF Searches, SearchOK
  <1>2. \A k \in 1..n - 1 : k \in 1..n /\ k # n
    OBVIOUS
  <1>3. x \in Ids /\ x \in scope /\ x \notin s.done
    BY <1>1 DEF StackOK
  <1>4. \A k \in 1..n : s.stack[k].id = x => k = n
    <2> SUFFICES ASSUME NEW k \in 1..n, k < n PROVE s.stack[k].id # s.stack[n].id
      OBVIOUS
    <2> QED
      BY <1>1 DEF StackOK
  <1>5. /\ s.order \in Seq(Ids) /\ t.order \in Seq(Ids)
        /\ \A i \in DOMAIN s.order : s.order[i] \in s.done
    BY <1>1 DEF Searches, OrderOK
  <1>6. /\ DOMAIN s.order \subseteq DOMAIN t.order
        /\ \A i \in DOMAIN s.order : t.order[i] = s.order[i]
        /\ \A i \in DOMAIN t.order :
              \/ i \in DOMAIN s.order
              \/ ok /\ t.order[i] = x /\ i = Len(s.order) + 1
        /\ ok /\ (x \in s.targets \/ x \notin loaded) => x \in ToSet(t.order)
    <2>1. CASE ok /\ (x \in s.targets \/ x \notin loaded)
      <3>1. t.order = Append(s.order, x)
        BY <2>1
      <3>2. /\ DOMAIN s.order = 1..Len(s.order) /\ Len(s.order) \in Nat
            /\ DOMAIN t.order = 1..Len(s.order) + 1
            /\ t.order[Len(s.order) + 1] = x
            /\ \A i \in DOMAIN s.order : t.order[i] = s.order[i]
        BY <3>1, <1>5, <1>3
      <3>3. x \in ToSet(t.order)
        BY <3>2 DEF ToSet
      <3> QED
        BY <2>1, <3>2, <3>3
    <2>2. CASE ~ (ok /\ (x \in s.targets \/ x \notin loaded))
      BY <2>2
    <2> QED
      BY <2>1, <2>2
  <1>7. ToSet(s.order) \subseteq ToSet(t.order) /\ ToSet(t.order) \subseteq ToSet(s.order) \cup {x}
    BY <1>6 DEF ToSet
  <1>8. ToSet(s.order) \subseteq s.done
    BY <1>5 DEF ToSet
  <1>9. ~ ok => Guilty(strict, succ, scope, x)
    BY <1>1 DEF BlameOK
  <1>10. ok => \A d \in succ[x] : d \in s.done \/ Skipped(s, scope, d)
    <2>1. ToSet(s.stack[n].left) = {}
      BY DEF ToSet
    <2> QED
      BY <2>1, <1>1 DEF CoverOK
  <1>11. StackOK(t, succ, scope)
    <2> SUFFICES ASSUME NEW k \in 1..n - 1
                 PROVE  /\ t.stack[k].id \in scope \ t.done
                        /\ ToSet(t.stack[k].left) \subseteq succ[t.stack[k].id]
                        /\ k = 1 => t.stack[k].id \in t.targets
                        /\ k # 1 => t.stack[k].id \in succ[t.stack[k - 1].id]
                        /\ \A j \in 1..n - 1 : j < k =>
                              /\ t.stack[j].id # t.stack[k].id
                              /\ t.stack[k].id \in Closure(t.stack[j].id, succ)
      BY <1>1 DEF StackOK
    <2>1. /\ s.stack[k].id \in scope \ s.done
          /\ ToSet(s.stack[k].left) \subseteq succ[s.stack[k].id]
          /\ k = 1 => s.stack[k].id \in s.targets
          /\ k # 1 => s.stack[k].id \in succ[s.stack[k - 1].id]
      BY <1>1, <1>2 DEF StackOK
    <2>2. \A j \in 1..n - 1 : j < k =>
              s.stack[j].id # s.stack[k].id /\ s.stack[k].id \in Closure(s.stack[j].id, succ)
      BY <1>1, <1>2 DEF StackOK
    <2>3. k # 1 => t.stack[k - 1].id = s.stack[k - 1].id
      OBVIOUS
    <2>4. \A j \in 1..n - 1 : t.stack[j].id = s.stack[j].id
      OBVIOUS
    <2>5. s.stack[k].id # x
      BY <1>2, <1>4
    <2>6. t.stack[k].id = s.stack[k].id /\ t.stack[k].left = s.stack[k].left
      OBVIOUS
    <2>7. \A j \in 1..n - 1 : j < k =>
              t.stack[j].id # t.stack[k].id /\ t.stack[k].id \in Closure(t.stack[j].id, succ)
      BY <2>2, <2>4, <2>6
    <2>8. k # 1 => t.stack[k].id \in succ[t.stack[k - 1].id]
      BY <2>1, <2>3, <2>6
    <2>9. t.stack[k].id \in scope \ t.done
      BY <2>1, <2>5, <2>6
    <2> QED
      BY <2>1, <2>6, <2>7, <2>8, <2>9
  <1>12. CoverOK(t, succ, scope)
    <2> SUFFICES ASSUME NEW k \in 1..n - 1, t.stack[k].ok, NEW d \in succ[t.stack[k].id]
                 PROVE  \/ d \in ToSet(t.stack[k].left) \cup t.done \/ Skipped(t, scope, d)
                        \/ k # Len(t.stack) /\ d = t.stack[k + 1].id
      BY <1>1 DEF CoverOK
    <2>1. \/ d \in ToSet(s.stack[k].left) \cup s.done \/ Skipped(s, scope, d)
          \/ d = s.stack[k + 1].id
      BY <1>1, <1>2, ZenonT(60) DEF CoverOK
    <2>2. CASE k = n - 1
      BY <2>1, <2>2, SMTT(30) DEF Skipped
    <2>3. CASE k # n - 1
      <3>1. k + 1 \in 1..n - 1
        BY <2>3
      <3> QED
        BY <2>1, <2>3, <3>1 DEF Skipped
    <2> QED
      BY <2>2, <2>3
  <1>13. BlameOK(t, succ, scope, loaded)
    <2>1. ASSUME NEW k \in 1..n - 1, ~ t.stack[k].ok
          PROVE  Guilty(strict, succ, scope, t.stack[k].id)
      <3>1. CASE ~ s.stack[k].ok
        BY <1>1, <1>2, <3>1 DEF BlameOK
      <3>2. CASE k = n - 1 /\ ~ ok
        <4>1. x \in succ[s.stack[k].id]
          <5>1. n # 1
            BY <3>2
          <5> QED
            BY <1>1, <3>2, <5>1 DEF StackOK
        <4>2. s.stack[k].id \in Ids
          BY <1>1, <1>2 DEF StackOK
        <4>3. Guilty(strict, succ, scope, s.stack[k].id)
          BY <4>1, <4>2, <3>2, <1>3, <1>9, GuiltyBy
        <4> QED
          BY <4>3
      <3> QED
        BY <2>1, <3>1, <3>2
    <2>2. ASSUME NEW y \in t.done, y \in t.targets \/ y \notin loaded
          PROVE  y \in ToSet(t.order) \/ Guilty(strict, succ, scope, y)
      <3>1. CASE y = x
        BY <2>2, <3>1, <1>6, <1>9
      <3>2. CASE y \in s.done
        BY <2>2, <3>2, <1>1, <1>7 DEF BlameOK
      <3> QED
        BY <3>1, <3>2
    <2> QED
      BY <1>1, <2>1, <2>2 DEF BlameOK
  <1>14. TargetsOK(t, scope)
    <2>1. Open(s) \subseteq Open(t) \cup {x}
      <3> SUFFICES ASSUME NEW k \in 1..n PROVE s.stack[k].id \in Open(t) \cup {x}
        BY <1>1, SMTT(30) DEF Open
      <3>1. CASE k = n
        BY <3>1
      <3>2. CASE k # n
        <4>1. k \in 1..n - 1
          BY <3>2
        <4> QED
          BY <1>1, <4>1, ZenonT(60) DEF Open
      <3> QED
        BY <3>1, <3>2
    <2> QED
      BY <2>1, <1>1, <1>3 DEF TargetsOK
  <1>15. OrderOK(t, succ, scope)
    <2>1. ASSUME NEW i \in DOMAIN t.order
          PROVE  /\ t.order[i] \in t.done
                 /\ \A d \in succ[t.order[i]] : d \in t.done \/ Skipped(t, scope, d)
      <3>1. CASE i \in DOMAIN s.order
        BY <3>1, <1>1, <1>6 DEF OrderOK, Skipped
      <3>2. CASE ok /\ t.order[i] = x
        BY <3>2, <1>10 DEF Skipped
      <3> QED
        BY <3>1, <3>2, <1>6
    <2>2. ASSUME NEW i \in DOMAIN t.order, NEW j \in DOMAIN t.order, i <= j
          PROVE  t.order[j] \notin succ[t.order[i]]
      <3>0. /\ DOMAIN s.order = 1..Len(s.order) /\ Len(s.order) \in Nat
            /\ x \notin s.done /\ ~ Skipped(s, scope, x)
        BY <1>3, <1>5 DEF Skipped
      <3>1. CASE j \in DOMAIN s.order
        <4>1. i \in DOMAIN s.order
          <5>1. i # Len(s.order) + 1
            BY <2>2, <3>0, <3>1, <1>5
          <5> QED
            BY <5>1, <1>6
        <4> QED
          BY <2>2, <3>1, <4>1, <1>1, <1>6 DEF OrderOK
      <3>2. CASE t.order[j] = x /\ i \in DOMAIN s.order
        BY <3>0, <3>2, <1>1, <1>6 DEF OrderOK
      <3>3. CASE t.order[j] = x /\ ok /\ t.order[i] = x
        BY <3>0, <3>3, <1>10
      <3> QED
        BY <3>1, <3>2, <3>3, <1>6
    <2> QED
      BY <2>1, <2>2 DEF OrderOK
  <1>16. CleanOK(t, succ, scope)
    <2> SUFFICES ASSUME t.aim = "load", \A y, z \in t.targets : y = z,
                        \A k \in DOMAIN t.stack : t.stack[k].ok,
                        t.targets \cap t.done \subseteq ToSet(t.order),
                        NEW y \in t.done
                 PROVE  SoundIn(succ, scope, y) /\ succ[y] \subseteq t.done
      BY DEF CleanOK
    <2>1. ok
      <3>1. CASE n = 1
        <4>1. x \in s.targets
          BY <3>1, <1>1 DEF StackOK
        <4>2. x \in ToSet(t.order)
          BY <4>1
        <4> QED
          BY <4>2, <1>3, <1>8, <1>5
      <3>2. CASE n # 1
        <4>1. \A m \in Nat \ {0} : m # 1 => m - 1 \in 1..m - 1
          OBVIOUS
        <4>2. n - 1 \in 1..n - 1
          BY <3>2, <4>1
        <4> QED
          BY <4>2, <1>1
      <3> QED
        BY <3>1, <3>2
    <2>2. \A k \in DOMAIN s.stack : s.stack[k].ok
      <3>1. \A k \in 1..n : k = n \/ k \in 1..n - 1
        OBVIOUS
      <3> QED
        BY <3>1, <2>1, <1>1
    <2>3. s.targets \cap s.done \subseteq ToSet(s.order)
      BY <1>3, <1>7
    <2>4. \A z \in s.done : SoundIn(succ, scope, z) /\ succ[z] \subseteq s.done
      BY <2>2, <2>3, <1>1 DEF CleanOK
    <2>5. CASE y \in s.done
      BY <2>4, <2>5
    <2>6. CASE y = x
      <3>1. succ[x] \subseteq s.done
        BY <2>1, <1>10 DEF Skipped
      <3>2. s.done \in SUBSET Ids
        BY DEF Searches
      <3>3. ASSUME NEW d \in succ[x] PROVE SoundIn(succ, scope, d) /\ x \notin Closure(d, succ)
        <4>1. Closure(d, succ) \subseteq s.done
          BY <2>4, <3>1, <3>2, ClosureLeast
        <4> QED
          BY <2>4, <3>1, <4>1, <1>3
      <3>4. SoundIn(succ, scope, x)
        BY <3>3, <1>3, SoundFrom
      <3> QED
        BY <2>6, <3>1, <3>4
    <2> QED
      BY <2>5, <2>6
  <1> QED
    BY <1>11, <1>12, <1>13, <1>14, <1>15, <1>16 DEF SearchOK

-----------------------------------------------------------------------------
(* The search for one call                                                   *)

Scope == IF search.aim = "load" THEN Known ELSE search.targets

LEMMA DependsOnGraph ==
  ASSUME LoaderTyped
  PROVE  /\ DependsOn \in Graphs /\ Known \in SUBSET Ids
         /\ \A id \in Ids : DependsOn[id] = ToSet(KnownDependencies(id))
  <1>1. ASSUME NEW id \in Ids PROVE ToSet(KnownDependencies(id)) \in SUBSET Ids
    <2>1. KnownDependencies(id) \in Seq(Ids)
      BY KnownDependenciesTyped
    <2> QED
      BY <2>1 DEF ToSet
  <1> QED
    BY <1>1 DEF DependsOn, Graphs, Known, LoaderTyped

\* The graph is that of the manifests that were read last and of what is loaded.
LEMMA GraphUnchanged ==
  ASSUME UNCHANGED <<available, plugins>>
  PROVE  DependsOn' = DependsOn /\ Known' = Known
  BY DEF DependsOn, KnownDependencies, Known

LEMMA VisitTargetKeepsSearch ==
  ASSUME LoaderTyped, search \in Searches, VisitTarget,
         SearchOK(search, DependsOn, Scope, DOMAIN plugins)
  PROVE  /\ SearchOK(search', DependsOn, Scope, DOMAIN plugins)
         /\ search'.aim = search.aim /\ search'.targets = search.targets
  <1>1. search.stack = <<>> /\ \E id \in search.roots : search' = Visit([search EXCEPT !.roots = @ \ {id}], id)
    BY DEF VisitTarget
  <1>2. PICK id \in search.roots : search' = Visit([search EXCEPT !.roots = @ \ {id}], id)
    BY <1>1
  <1> DEFINE s == [search EXCEPT !.roots = @ \ {id}]
  <1>3. /\ s \in Searches /\ id \in Ids /\ s.stack = <<>>
        /\ s.aim = search.aim /\ s.targets = search.targets /\ s.roots = search.roots \ {id}
        /\ s.done = search.done /\ s.order = search.order
    BY <1>1 DEF Searches
  <1>4. search' = Visit(s, id)
    BY <1>2
  <1> HIDE DEF s
  <1>5. DependsOn \in Graphs /\ DependsOn[id] = ToSet(KnownDependencies(id))
    BY <1>3, DependsOnGraph
  <1>6. CASE id \in s.done
    <2>1. search' = s
      BY <1>3, <1>4, <1>6 DEF Visit, Revisit, Answer
    <2> QED
      BY <1>1, <1>3, <1>5, <1>6, <2>1, SkipKeepsSearch
  <1>7. CASE id \notin s.done
    <2>1. id \notin s.done \cup Open(s)
      BY <1>3, <1>7 DEF Open
    <2>2. search' = Enter(s, id, KnownDependencies(id))
      BY <1>4, <2>1 DEF Visit
    <2>3. KnownDependencies(id) \in Seq(Ids)
      BY KnownDependenciesTyped
    <2>4. /\ search' \in Searches
          /\ search'.aim = s.aim /\ search'.targets = s.targets /\ search'.roots = s.roots
          /\ search'.done = s.done /\ search'.order = s.order
          /\ Len(search'.stack) = Len(s.stack) + 1
      BY <1>3, <2>2, <2>3, EnterShape, ZenonT(60)
    <2>9. search'.stack[Len(s.stack) + 1] =
             [id |-> id, left |-> KnownDependencies(id), ok |-> TRUE]
      BY <1>3, <2>2, <2>3, EnterShape
    <2>5. /\ Len(search'.stack) = 1 /\ search'.stack[1].id = id /\ search'.stack[1].ok
          /\ ToSet(search'.stack[1].left) = DependsOn[id]
      BY <1>3, <1>5, <2>4, <2>9
    <2> QED
      BY <1>1, <1>3, <1>5, <1>7, <2>4, <2>5, StartKeepsSearch, ZenonT(60)
  <1> QED
    BY <1>6, <1>7

LEMMA VisitDependencyKeepsSearch ==
  ASSUME LoaderTyped, search \in Searches, VisitDependency,
         SearchOK(search, DependsOn, Scope, DOMAIN plugins)
  PROVE  /\ SearchOK(search', DependsOn, Scope, DOMAIN plugins)
         /\ search'.aim = search.aim /\ search'.targets = search.targets
  <1> DEFINE n == Len(search.stack)
             call == Last(search.stack)
             dep == Head(call.left)
             s == Continue(search)
  <1>0. /\ n = Len(search.stack) /\ call = Last(search.stack) /\ dep = Head(call.left)
        /\ s = Continue(search)
    OBVIOUS
  <1>1. /\ search.stack # <<>> /\ call.left # <<>>
        /\ search' = IF InScope(s, dep) THEN Visit(s, dep) ELSE Answer(s, s.aim # "load")
    BY DEF VisitDependency
  <1> HIDE DEF n, call, dep, s
  <1>2. /\ s \in Searches
        /\ s.aim = search.aim /\ s.targets = search.targets /\ s.roots = search.roots
        /\ s.done = search.done /\ s.order = search.order
        /\ n \in Nat \ {0} /\ Len(s.stack) = n
        /\ \A k \in 1..n : /\ s.stack[k].id = search.stack[k].id /\ s.stack[k].ok = search.stack[k].ok
                           /\ k # n => s.stack[k].left = search.stack[k].left
        /\ search.stack[n] = call /\ call \in Frames /\ dep \in Ids
        /\ ToSet(call.left) = {dep} \cup ToSet(s.stack[n].left)
    BY <1>0, <1>1, ContinueShape
  <1>3. /\ DOMAIN search.stack = 1..n /\ DOMAIN s.stack = 1..n /\ n \in 1..n
    BY <1>0, <1>2 DEF Searches
  <1>4. DependsOn \in Graphs /\ Known \in SUBSET Ids /\ Scope \in SUBSET Ids
        /\ DependsOn[dep] = ToSet(KnownDependencies(dep))
    BY <1>2, DependsOnGraph DEF Scope, Searches
  <1>5. InScope(s, dep) <=> dep \in Scope
    BY <1>2 DEF InScope, Scope
  <1>6. Open(s) = Open(search)
    BY <1>2, <1>3 DEF Open
  <1>7. /\ call.id \in Ids /\ dep \in DependsOn[call.id]
        /\ StackOK(search, DependsOn, Scope)
    <2>1. StackOK(search, DependsOn, Scope)
      BY DEF SearchOK
    <2>2. ToSet(search.stack[n].left) \subseteq DependsOn[search.stack[n].id]
      BY <1>3, <2>1 DEF StackOK
    <2> QED
      BY <1>2, <2>1, <2>2 DEF Frames
  <1>8. ASSUME NEW answer \in BOOLEAN, search' = Answer(s, answer),
               answer => dep \in search.done \/ Skipped(search, Scope, dep),
               ~ answer => Guilty(search.aim = "load", DependsOn, Scope, call.id)
        PROVE  /\ SearchOK(search', DependsOn, Scope, DOMAIN plugins)
               /\ search'.aim = search.aim /\ search'.targets = search.targets
    <2>1. /\ search' \in Searches
          /\ search'.aim = s.aim /\ search'.targets = s.targets /\ search'.roots = s.roots
          /\ search'.done = s.done /\ search'.order = s.order
          /\ Len(search'.stack) = Len(s.stack)
          /\ \A k \in 1..Len(s.stack) :
                /\ search'.stack[k].id = s.stack[k].id /\ search'.stack[k].left = s.stack[k].left
                /\ search'.stack[k].ok = (s.stack[k].ok /\ (k = Len(s.stack) => answer))
      BY <1>2, <1>8, AnswerShape, SMTT(30)
    <2>2. \A k \in 1..n : /\ search'.stack[k].id = search.stack[k].id
                          /\ k # n => search'.stack[k].left = search.stack[k].left
                          /\ search'.stack[k].ok = (search.stack[k].ok /\ (k = n => answer))
      BY <1>2, <2>1
    <2>3. ToSet(search.stack[n].left) = {dep} \cup ToSet(search'.stack[n].left)
      BY <1>2, <1>3, <2>1
    <2>4. /\ search'.aim = search.aim /\ search'.targets = search.targets
          /\ search'.roots = search.roots /\ search'.done = search.done
          /\ search'.order = search.order /\ Len(search'.stack) = n
          /\ search.stack[n].id = call.id
      BY <1>2, <2>1
    <2>5. Dropped(search, search', dep, answer)
      BY <1>0, <1>2, <2>1, <2>2, <2>3, <2>4 DEF Dropped, SameSearch
    <2>6. search.stack[Len(search.stack)].id = call.id
      BY <1>0, <2>4
    <2>7. SearchOK(search', DependsOn, Scope, DOMAIN plugins)
      BY <1>4, <1>8, <2>5, <2>6, DropKeepsSearch
    <2> QED
      BY <2>4, <2>7
  <1>9. CASE dep \notin Scope
    <2>1. search' = Answer(s, search.aim # "load") /\ (search.aim # "load") \in BOOLEAN
      BY <1>1, <1>2, <1>5, <1>9
    <2>2. search.aim # "load" => Skipped(search, Scope, dep)
      BY <1>9 DEF Skipped
    <2>3. search.aim = "load" => Guilty(search.aim = "load", DependsOn, Scope, call.id)
      BY <1>4, <1>7, <1>9, GuiltyBy
    <2> QED
      BY <1>8, <2>1, <2>2, <2>3
  <1>10. CASE dep \in Scope /\ dep \in s.done
    <2>1. search' = Answer(s, TRUE)
      <3>1. (dep \in s.done) = TRUE
        BY <1>10
      <3>2. search' = Answer(s, dep \in s.done)
        BY <1>1, <1>5, <1>10 DEF Visit, Revisit
      <3> QED
        BY <3>1, <3>2
    <2> QED
      BY <1>2, <1>8, <1>10, <2>1
  <1>11. CASE dep \in Scope /\ dep \notin s.done /\ dep \in Open(s)
    <2>1. search' = Answer(s, FALSE)
      <3>1. (dep \in s.done) = FALSE
        BY <1>11
      <3>2. search' = Answer(s, dep \in s.done)
        BY <1>1, <1>5, <1>11 DEF Visit, Revisit
      <3> QED
        BY <3>1, <3>2
    <2>2. PICK j \in 1..n : search.stack[j].id = dep
      BY <1>3, <1>6, <1>11 DEF Open
    <2>3. call.id \in Closure(dep, DependsOn)
      <3>1. CASE j = n
        BY <2>2, <3>1, <1>2, <1>4, ClosureFacts
      <3>2. CASE j < n
        <4>1. search.stack[n].id \in Closure(search.stack[j].id, DependsOn)
          BY <3>2, <1>3, <1>7 DEF StackOK
        <4> QED
          BY <2>2, <4>1, <1>2
      <3>3. j \in Nat /\ n \in Nat /\ (j = n \/ j < n)
        BY <1>2
      <3> QED
        BY <3>1, <3>2, <3>3
    <2>4. Guilty(search.aim = "load", DependsOn, Scope, call.id)
      BY <1>4, <1>7, <2>3, GuiltyBy
    <2> QED
      BY <1>8, <2>1, <2>4
  <1>12. CASE dep \in Scope /\ dep \notin s.done \cup Open(s)
    <2>1. search' = Enter(s, dep, KnownDependencies(dep))
      BY <1>1, <1>5, <1>12 DEF Visit
    <2>2. KnownDependencies(dep) \in Seq(Ids)
      BY KnownDependenciesTyped
    <2>3. /\ search' \in Searches
          /\ search'.aim = s.aim /\ search'.targets = s.targets /\ search'.roots = s.roots
          /\ search'.done = s.done /\ search'.order = s.order
          /\ Len(search'.stack) = Len(s.stack) + 1
      BY <1>2, <2>1, <2>2, EnterShape, ZenonT(60)
    <2>9. \A k \in 1..Len(s.stack) : search'.stack[k] = s.stack[k]
      BY <1>2, <2>1, <2>2, EnterShape, ZenonT(60)
    <2>10. search'.stack[Len(s.stack) + 1] =
              [id |-> dep, left |-> KnownDependencies(dep), ok |-> TRUE]
      BY <1>2, <2>1, <2>2, EnterShape
    <2>4. /\ Len(search'.stack) = n + 1 /\ search'.stack[n + 1].id = dep /\ search'.stack[n + 1].ok
          /\ ToSet(search'.stack[n + 1].left) = DependsOn[dep]
      BY <1>2, <1>4, <2>3, <2>10
    <2>5. \A k \in 1..n : /\ search'.stack[k].id = search.stack[k].id
                          /\ k # n => search'.stack[k].left = search.stack[k].left
                          /\ search'.stack[k].ok = search.stack[k].ok
      BY <1>2, <2>9
    <2>6. ToSet(search.stack[n].left) = {dep} \cup ToSet(search'.stack[n].left)
      BY <1>2, <1>3, <2>9
    <2>7. /\ search'.aim = search.aim /\ search'.targets = search.targets
          /\ search'.roots = search.roots /\ search'.done = search.done
          /\ search'.order = search.order
      BY <1>2, <2>3
    <2>8. dep \in Scope \ (search.done \cup Open(search))
      BY <1>2, <1>6, <1>12
    <2>11. Descended(search, search', dep, DependsOn[dep])
      BY <1>0, <1>2, <2>3, <2>4, <2>5, <2>6, <2>7 DEF Descended, SameSearch
    <2>12. SearchOK(search', DependsOn, Scope, DOMAIN plugins)
      BY <1>4, <2>8, <2>11, DescendKeepsSearch
    <2> QED
      BY <2>7, <2>12
  <1> QED
    BY <1>9, <1>10, <1>11, <1>12

LEMMA FinishVisitKeepsSearch ==
  ASSUME LoaderTyped, search \in Searches, FinishVisit,
         SearchOK(search, DependsOn, Scope, DOMAIN plugins)
  PROVE  /\ SearchOK(search', DependsOn, Scope, DOMAIN plugins)
         /\ search'.aim = search.aim /\ search'.targets = search.targets
  <1> DEFINE n == Len(search.stack)
             call == Last(search.stack)
  <1>0. n = Len(search.stack) /\ call = Last(search.stack)
    OBVIOUS
  <1>1. search.stack # <<>> /\ call.left = <<>> /\ search' = Finish(search)
    BY DEF FinishVisit
  <1> HIDE DEF n, call
  <1>2. n \in Nat \ {0} /\ call = search.stack[n] /\ call \in Frames
    BY <1>0, <1>1 DEF Searches, Last
  <1>3. /\ search' \in Searches
        /\ search'.aim = search.aim /\ search'.targets = search.targets
        /\ search'.roots = search.roots
        /\ search'.done = search.done \cup {call.id}
        /\ search'.order = IF call.ok /\ Wanted(search, call.id) THEN Append(search.order, call.id)
                           ELSE search.order
        /\ Len(search'.stack) = n - 1
        /\ \A k \in 1..n - 1 :
              /\ search'.stack[k].id = search.stack[k].id
              /\ search'.stack[k].left = search.stack[k].left
              /\ search'.stack[k].ok = (search.stack[k].ok /\ (k = n - 1 => call.ok))
    BY <1>0, <1>1, FinishShape
  <1>4. DependsOn \in Graphs /\ Scope \in SUBSET Ids
    BY DependsOnGraph DEF Scope, Searches
  <1>5. call.ok \in BOOLEAN
    BY <1>2 DEF Frames
  <1>6. search'.order = IF call.ok /\ (call.id \in search.targets \/ call.id \notin DOMAIN plugins)
                        THEN Append(search.order, call.id) ELSE search.order
    BY <1>3 DEF Wanted
  <1>7. Finished(search, search', call.id, call.ok,
                 call.id \in search.targets \/ call.id \notin DOMAIN plugins)
    BY <1>0, <1>1, <1>2, <1>3, <1>6 DEF Finished, SameSearch
  <1>8. SearchOK(search', DependsOn, Scope, DOMAIN plugins)
    BY <1>4, <1>5, <1>7, FinishKeepsSearch
  <1> QED
    BY <1>3, <1>8

-----------------------------------------------------------------------------
(* The invariant of the agenda                                               *)

SearchInv ==
    /\ NotSearching => search = NoSearch
    /\ ~ NotSearching => SearchOK(search, DependsOn, Scope, DOMAIN plugins)

Planned(what, id) == \E i \in DOMAIN agenda : agenda[i] = [do |-> what, id |-> id]

\* First what is unloaded, then what is loaded, then what is searched for.
Sorted(tasks) ==
    \A i, j \in DOMAIN tasks : i < j =>
        /\ tasks[i].do = "resolve" => tasks[j].do = "resolve"
        /\ tasks[i].do = "load" => tasks[j].do # "unload"

Only(what, tasks) == \A i \in DOMAIN tasks : tasks[i].do = what

AgendaOK ==
    /\ DOMAIN plugins \subseteq DOMAIN available
    /\ Sorted(agenda)
    /\ search.aim = "load" => Only("resolve", agenda)
    /\ search.aim \in {"unload", "reload"} => agenda = <<>>
    /\ \A id \in Ids : Planned("resolve", id) => id \in DOMAIN available

\* What each call may be in the middle of.
RequestOK ==
    /\ request.op = "none" => Idle
    /\ request.op = "start" =>
          /\ search.aim \in {"none", "load"} /\ Only("load", agenda)
          /\ search.aim = "load" => search.targets = DOMAIN available
    /\ request.op = "load" =>
          /\ search.aim \in {"none", "load"}
          /\ \A x, y \in request.ids : x = y
          /\ search.aim = "load" => search.targets = request.ids
          /\ \A id \in Ids : Planned("resolve", id) => id \in request.ids
    /\ request.op = "reload" => search.aim # "unload"

\* An unsound plugin is not about to be loaded, and if it is loaded it will go.
LoadOK ==
    request.op = "load" => \A id \in request.ids :
        \/ Sound(id)
        \/ ~ Planned("load", id) /\ (id \in DOMAIN plugins => Planned("unload", id))

\* Start-up and a reload never lose a sound plugin on the way.
StartOK ==
    request.op = "start" => \A id \in DOMAIN available : Sound(id) =>
        search.aim = "load" \/ Planned("load", id) \/ id \in DOMAIN plugins \cup request.failed

ReloadOK ==
    request.op = "reload" => \A id \in request.was : Sound(id) =>
        \/ search.aim = "load" /\ search.targets = {id}
        \/ Planned("load", id) \/ Planned("resolve", id)
        \/ id \in request.failed
        \/ id \in DOMAIN plugins /\ ~ Planned("unload", id)

Excused(q) == KnownDependencies(q) # plugins[q].deps \/ \E d \in Needed(q) : OnCycle(d)

\* A search to unload has all dependents among its targets, and on the agenda they
\* come before what they depend on.
UnloadOK ==
    /\ search.aim \in {"unload", "reload"} =>
          /\ search.targets \subseteq DOMAIN plugins
          /\ \A x \in search.targets : Dependents(x) \subseteq search.targets
    /\ request.op \in {"unload", "reload"} =>
          \A i \in DOMAIN agenda : agenda[i].do = "unload" =>
              \A q \in Dependents(agenda[i].id) :
                  Excused(q) \/ \E j \in 1..i - 1 : agenda[j] = [do |-> "unload", id |-> q]

SInv ==
    /\ SearchInv /\ AgendaOK /\ RequestOK /\ LoadsInOrder
    /\ LoadOK /\ StartOK /\ ReloadOK /\ UnloadOK

-----------------------------------------------------------------------------
(* Helpers about soundness, searches and agendas                             *)

LEMMA SoundIs ==
  /\ \A id : Sound(id) <=> SoundIn(DependsOn, Known, id)
  /\ \A id : OnCycle(id) <=> LoopsIn(DependsOn, id)
  /\ \A id : Needed(id) = Closure(id, DependsOn)
  BY DEF Sound, SoundIn, OnCycle, LoopsIn, Needed

\* Loads and unloads leave the graph alone: it is that of what is available.
LEMMA GraphStable ==
  ASSUME UNCHANGED available,
         DOMAIN plugins \subseteq DOMAIN available, DOMAIN plugins' \subseteq DOMAIN available
  PROVE  /\ DependsOn' = DependsOn /\ Known' = Known
         /\ \A id : KnownDependencies(id)' = KnownDependencies(id)
         /\ \A id : Sound(id)' <=> Sound(id)
         /\ \A id : (\E d \in Needed(id) : OnCycle(d))' <=> \E d \in Needed(id) : OnCycle(d)
  <1>1. Known' = Known
    BY DEF Known
  <1>2. \A id : KnownDependencies(id)' = KnownDependencies(id)
    BY DEF KnownDependencies
  <1>3. DependsOn' = DependsOn
    BY <1>2 DEF DependsOn
  <1>4. \A id : Needed(id)' = Needed(id)
    BY <1>3 DEF Needed
  <1>5. \A id : OnCycle(id)' <=> OnCycle(id)
    BY <1>3, <1>4 DEF OnCycle
  <1>6. \A id : Sound(id)' <=> Sound(id)
    BY <1>1, <1>4, <1>5 DEF Sound
  <1> QED
    BY <1>1, <1>2, <1>3, <1>4, <1>5, <1>6

LEMMA FreshSearchOK ==
  ASSUME NEW succ \in Graphs, NEW scope, NEW loaded, NEW aim, NEW targets, targets \subseteq scope
  PROVE  SearchOK(Search(aim, targets), succ, scope, loaded)
  <1> DEFINE s == Search(aim, targets)
  <1>1. /\ s.aim = aim /\ s.targets = targets /\ s.roots = targets /\ s.done = {}
        /\ s.stack = <<>> /\ s.order = <<>>
    BY DEF Search
  <1>2. DOMAIN s.stack = {} /\ DOMAIN s.order = {} /\ ToSet(s.order) = {}
    BY <1>1 DEF ToSet
  <1> HIDE DEF s
  <1>3. StackOK(s, succ, scope) /\ CoverOK(s, succ, scope) /\ BlameOK(s, succ, scope, loaded)
    BY <1>1, <1>2 DEF StackOK, CoverOK, BlameOK
  <1>4. TargetsOK(s, scope)
    BY <1>1 DEF TargetsOK
  <1>5. OrderOK(s, succ, scope) /\ CleanOK(s, succ, scope)
    BY <1>1, <1>2 DEF OrderOK, CleanOK
  <1> QED
    BY <1>3, <1>4, <1>5 DEF SearchOK, s

\* What a search has found out when it ends.
LEMMA SearchResult ==
  ASSUME NEW succ \in Graphs, NEW scope, NEW loaded, NEW s \in Searches,
         SearchOK(s, succ, scope, loaded), s.stack = <<>>, s.roots = {}
  PROVE  /\ s.order \in Seq(Ids) /\ ToSet(s.order) \subseteq scope
         /\ \A i, j \in 1..Len(s.order) : i <= j => s.order[j] \notin succ[s.order[i]]
         /\ \A x \in s.targets :
               x \in ToSet(s.order) \/ Guilty(s.aim = "load", succ, scope, x)
         /\ s.aim = "load" /\ (\A x, y \in s.targets : x = y) =>
               \A x \in s.targets \cap ToSet(s.order) : SoundIn(succ, scope, x)
  <1>1. s.order \in Seq(Ids) /\ DOMAIN s.order = 1..Len(s.order) /\ DOMAIN s.stack = {}
    BY DEF Searches
  <1>2. ToSet(s.order) \subseteq s.done /\ s.done \subseteq scope
    BY <1>1 DEF SearchOK, OrderOK, TargetsOK, ToSet
  <1>3. \A i, j \in 1..Len(s.order) : i <= j => s.order[j] \notin succ[s.order[i]]
    BY <1>1 DEF SearchOK, OrderOK
  <1>4. s.targets \subseteq s.done
    BY <1>1 DEF SearchOK, TargetsOK, Open
  <1>5. \A x \in s.targets : x \in ToSet(s.order) \/ Guilty(s.aim = "load", succ, scope, x)
    BY <1>4 DEF SearchOK, BlameOK
  <1>6. ASSUME s.aim = "load", \A x, y \in s.targets : x = y, NEW x \in s.targets \cap ToSet(s.order)
        PROVE  SoundIn(succ, scope, x)
    <2>1. s.targets \cap s.done \subseteq ToSet(s.order) /\ x \in s.done
      BY <1>2, <1>6
    <2> QED
      BY <1>1, <1>6, <2>1 DEF SearchOK, CleanOK
  <1> QED
    BY <1>1, <1>2, <1>3, <1>5, <1>6

\* The head of the agenda goes, the rest moves up.
LEMMA TailFacts ==
  ASSUME agenda \in Seq(Tasks), agenda # <<>>, agenda' = Tail(agenda)
  PROVE  /\ DOMAIN agenda = 1..Len(agenda) /\ Len(agenda) \in Nat \ {0}
         /\ 1 \in DOMAIN agenda /\ agenda[1] = Head(agenda)
         /\ agenda[1] = [do |-> agenda[1].do, id |-> agenda[1].id] /\ agenda[1].id \in Ids
         /\ DOMAIN agenda' = 1..Len(agenda) - 1
         /\ \A i \in DOMAIN agenda' : i + 1 \in DOMAIN agenda /\ agenda'[i] = agenda[i + 1]
         /\ \A i \in DOMAIN agenda : i # 1 => i - 1 \in DOMAIN agenda' /\ agenda'[i - 1] = agenda[i]
  <1>1. /\ DOMAIN agenda = 1..Len(agenda) /\ Len(agenda) \in Nat \ {0}
        /\ 1 \in DOMAIN agenda /\ agenda[1] = Head(agenda)
        /\ Tail(agenda) \in Seq(Tasks) /\ Len(Tail(agenda)) = Len(agenda) - 1
        /\ DOMAIN agenda' = 1..Len(agenda) - 1
    OBVIOUS
  <1>2. agenda[1] = [do |-> agenda[1].do, id |-> agenda[1].id] /\ agenda[1].id \in Ids
    <2>1. \A t \in Tasks : t = [do |-> t.do, id |-> t.id] /\ t.id \in Ids
      BY DEF Tasks
    <2>2. agenda[1] \in Tasks
      BY <1>1
    <2> QED
      BY <2>1, <2>2
  <1>3. ASSUME NEW i \in DOMAIN agenda' PROVE i + 1 \in DOMAIN agenda /\ agenda'[i] = agenda[i + 1]
    BY <1>1
  <1>4. ASSUME NEW i \in DOMAIN agenda, i # 1
        PROVE  i - 1 \in DOMAIN agenda' /\ agenda'[i - 1] = agenda[i]
    <2>1. i - 1 \in DOMAIN agenda' /\ (i - 1) + 1 = i
      BY <1>1, <1>4
    <2> QED
      BY <1>3, <2>1
  <1> QED
    BY <1>1, <1>2, <1>3, <1>4

LEMMA TailPlanned ==
  ASSUME agenda \in Seq(Tasks), agenda # <<>>, agenda' = Tail(agenda)
  PROVE  /\ \A what, id : Planned(what, id)' => Planned(what, id)
         /\ \A what, id : Planned(what, id) =>
               Planned(what, id)' \/ Head(agenda) = [do |-> what, id |-> id]
         /\ Planned(Head(agenda).do, Head(agenda).id)
  <1>1. \A what, id : Planned(what, id)' => Planned(what, id)
    BY TailFacts DEF Planned
  <1>2. \A what, id : Planned(what, id) =>
           Planned(what, id)' \/ Head(agenda) = [do |-> what, id |-> id]
    BY TailFacts, ZenonT(60) DEF Planned
  <1>3. Planned(Head(agenda).do, Head(agenda).id)
    BY TailFacts DEF Planned
  <1> QED
    BY <1>1, <1>2, <1>3

LEMMA TailSorted ==
  ASSUME agenda \in Seq(Tasks), agenda # <<>>, agenda' = Tail(agenda), Sorted(agenda),
         LoadsInOrder, DependsOn' = DependsOn
  PROVE  /\ Sorted(agenda') /\ LoadsInOrder'
         /\ \A what : Only(what, agenda) => Only(what, agenda')
         /\ Head(agenda).do = "resolve" => Only("resolve", agenda')
         /\ Head(agenda).do = "load" => \A i \in DOMAIN agenda' : agenda'[i].do # "unload"
  <1>1. /\ DOMAIN agenda \subseteq Int /\ DOMAIN agenda' \subseteq Int
        /\ \A i, j \in DOMAIN agenda' : i < j => i + 1 < j + 1
        /\ \A i \in DOMAIN agenda' : 1 < i + 1
    BY TailFacts
  <1>2. Sorted(agenda')
    BY <1>1, TailFacts DEF Sorted
  <1>3. LoadsInOrder'
    BY <1>1, TailFacts DEF LoadsInOrder
  <1>4. \A what : Only(what, agenda) => Only(what, agenda')
    BY TailFacts DEF Only
  <1>5. Head(agenda).do = "resolve" => Only("resolve", agenda')
    BY <1>1, TailFacts DEF Sorted, Only
  <1>6. Head(agenda).do = "load" => \A i \in DOMAIN agenda' : agenda'[i].do # "unload"
    BY <1>1, TailFacts DEF Sorted
  <1> QED
    BY <1>2, <1>3, <1>4, <1>5, <1>6

\* Two agendas one after the other.
LEMMA ConcatFacts ==
  ASSUME NEW s \in Seq(Tasks), NEW t \in Seq(Tasks)
  PROVE  /\ Len(s) \in Nat /\ Len(t) \in Nat /\ DOMAIN (s \o t) = 1..Len(s) + Len(t)
         /\ \A i \in 1..Len(s) : i \in DOMAIN (s \o t) /\ (s \o t)[i] = s[i]
         /\ \A i \in 1..Len(t) : Len(s) + i \in DOMAIN (s \o t) /\ (s \o t)[Len(s) + i] = t[i]
         /\ \A i \in DOMAIN (s \o t) :
               \/ i \in 1..Len(s) /\ (s \o t)[i] = s[i]
               \/ i > Len(s) /\ i - Len(s) \in 1..Len(t) /\ (s \o t)[i] = t[i - Len(s)]
  <1> DEFINE n == Len(s)
             m == Len(t)
             both == s \o t
  <1>1. n \in Nat /\ m \in Nat /\ DOMAIN both = 1..n + m
    OBVIOUS
  <1>2. \A i \in 1..n : both[i] = s[i]
    BY <1>1
  <1>3. \A i \in 1..n + m : i > n => both[i] = t[i - n]
    BY <1>1
  <1> HIDE DEF both, n, m
  <1>4. \A i \in 1..n : i \in 1..n + m
    BY <1>1
  <1>5. \A i \in 1..m : n + i \in 1..n + m /\ n + i > n /\ (n + i) - n = i
    BY <1>1
  <1>6. \A i \in 1..n + m : i \in 1..n \/ (i > n /\ i - n \in 1..m)
    BY <1>1
  <1>7. \A i \in 1..m : n + i \in DOMAIN both /\ both[n + i] = t[i]
    BY <1>1, <1>3, <1>5
  <1>8. \A i \in DOMAIN both : \/ i \in 1..n /\ both[i] = s[i]
                               \/ i > n /\ i - n \in 1..m /\ both[i] = t[i - n]
    BY <1>1, <1>2, <1>3, <1>6
  <1> QED
    BY <1>1, <1>2, <1>4, <1>7, <1>8 DEF both, n, m

-----------------------------------------------------------------------------
(* The steps of the agenda                                                   *)

\* A plugin is loaded or its load is remembered as failed.
LEMMA RunLoadKeepsSInv ==
  ASSUME CallTyped, SInv, RunLoad
  PROVE  SInv'
  <1> DEFINE id == Head(agenda).id
  <1>1. /\ NotSearching /\ agenda \in Seq(Tasks) /\ agenda # <<>> /\ agenda' = Tail(agenda)
        /\ Head(agenda).do = "load" /\ LoadSingle(id)
        /\ request' = [request EXCEPT !.failed = @ \cup ({id} \ DOMAIN plugins')]
        /\ UNCHANGED <<available, search>> /\ request \in Requests
    BY DEF RunLoad, CallTyped
  <1>2. DOMAIN plugins \subseteq DOMAIN plugins' /\ DOMAIN plugins' \subseteq DOMAIN plugins \cup {id}
        /\ (id \in DOMAIN plugins' => id \in DOMAIN available \cup DOMAIN plugins)
    BY <1>1 DEF LoadSingle, Import
  <1>3. /\ request'.op = request.op /\ request'.ids = request.ids /\ request'.was = request.was
        /\ request'.failed = request.failed \cup ({id} \ DOMAIN plugins')
    BY <1>1 DEF Requests
  <1>4. AgendaOK /\ RequestOK /\ LoadsInOrder /\ LoadOK /\ StartOK /\ ReloadOK
    BY DEF SInv
  <1>5. /\ DOMAIN plugins \subseteq DOMAIN available /\ DOMAIN plugins' \subseteq DOMAIN available
        /\ Sorted(agenda)
    BY <1>2, <1>4 DEF AgendaOK
  <1>6. DependsOn' = DependsOn /\ \A x : Sound(x)' <=> Sound(x)
    BY <1>1, <1>5, GraphStable
  <1>7. /\ Sorted(agenda') /\ LoadsInOrder'
        /\ \A what : Only(what, agenda) => Only(what, agenda')
        /\ \A i \in DOMAIN agenda' : agenda'[i].do # "unload"
    BY <1>1, <1>4, <1>5, <1>6, TailSorted
  <1>8. /\ \A what, x : Planned(what, x)' => Planned(what, x)
        /\ \A what, x : Planned(what, x) =>
              Planned(what, x)' \/ Head(agenda) = [do |-> what, id |-> x]
        /\ Planned("load", id)
    BY <1>1, TailPlanned
  <1>9. \A what, x : what # "load" \/ x # id => Head(agenda) # [do |-> what, id |-> x]
    BY <1>1
  <1>10. \A x : ~ Planned("unload", x)'
    BY <1>7 DEF Planned
  <1>11. \A x : ~ Planned("unload", x)
    BY <1>8, <1>9, <1>10
  <1> HIDE DEF id
  <1>12. SearchInv'
    BY <1>1 DEF SInv, SearchInv, NotSearching
  <1>13. AgendaOK'
    <2>1. search.aim = "none"
      BY <1>1 DEF NotSearching
    <2> QED
      BY <1>1, <1>4, <1>5, <1>7, <1>8, <2>1 DEF AgendaOK
  <1>14. RequestOK'
    <2>1. search.aim = "none" /\ ~ Idle
      BY <1>1 DEF NotSearching, Idle
    <2> QED
      BY <1>1, <1>3, <1>4, <1>7, <1>8, <2>1 DEF RequestOK
  <1>15. LoadOK'
    <2> SUFFICES ASSUME request.op = "load", NEW x \in request.ids, ~ Sound(x)
                 PROVE  ~ Planned("load", x)' /\ x \notin DOMAIN plugins'
      BY <1>3, <1>6 DEF LoadOK
    <2>1. ~ Planned("load", x) /\ x \notin DOMAIN plugins
      BY <1>4, <1>11 DEF LoadOK
    <2>2. x # id
      BY <2>1, <1>8
    <2> QED
      BY <1>2, <1>8, <2>1, <2>2
  <1>16. StartOK'
    <2> SUFFICES ASSUME request.op = "start", NEW x \in DOMAIN available, Sound(x)
                 PROVE  Planned("load", x)' \/ x \in DOMAIN plugins' \cup request'.failed
      BY <1>1, <1>3, <1>6 DEF StartOK
    <2>1. Planned("load", x) \/ x \in DOMAIN plugins \cup request.failed
      BY <1>1, <1>4 DEF StartOK, NotSearching
    <2> QED
      BY <1>2, <1>3, <1>8, <1>9, <2>1
  <1>17. ReloadOK'
    <2> SUFFICES ASSUME request.op = "reload", NEW x \in request.was, Sound(x)
                 PROVE  \/ Planned("load", x)' \/ Planned("resolve", x)'
                        \/ x \in request'.failed \/ x \in DOMAIN plugins'
      BY <1>1, <1>3, <1>6, <1>10 DEF ReloadOK
    <2>1. \/ Planned("load", x) \/ Planned("resolve", x)
          \/ x \in request.failed \/ x \in DOMAIN plugins
      BY <1>1, <1>4 DEF ReloadOK, NotSearching
    <2> QED
      BY <1>2, <1>3, <1>8, <1>9, <2>1
  <1>18. UnloadOK'
    BY <1>1, <1>7 DEF UnloadOK, NotSearching
  <1> QED
    BY <1>7, <1>12, <1>13, <1>14, <1>15, <1>16, <1>17, <1>18 DEF SInv

LEMMA UnloadFacts ==
  ASSUME NEW id, UnloadSingle(id)
  PROVE  /\ DOMAIN plugins' = DOMAIN plugins \ {id}
         /\ \A q \in DOMAIN plugins' : plugins'[q] = plugins[q]
         /\ \A d : Dependents(d)' \subseteq Dependents(d)
  <1>1. CASE id \in DOMAIN plugins
    <2>1. /\ plugins' = [q \in DOMAIN plugins \ {id} |-> plugins[q]]
          /\ dependents' = WithoutDependent(id, plugins[id].deps)
      BY <1>1 DEF UnloadSingle
    <2>2. \A d : Dependents(d)' \subseteq Dependents(d)
      BY <2>1 DEF Dependents, WithoutDependent
    <2> QED
      BY <2>1, <2>2
  <1>2. CASE id \notin DOMAIN plugins
    BY <1>2 DEF UnloadSingle, Dependents
  <1> QED
    BY <1>1, <1>2

\* The plugin that goes was the first of those to go, so it is nobody's dependent.
LEMMA RunUnloadKeepsSInv ==
  ASSUME CallTyped, SInv, RunUnload, DependentsAreReal'
  PROVE  SInv'
  <1> DEFINE id == Head(agenda).id
  <1>1. /\ NotSearching /\ agenda \in Seq(Tasks) /\ agenda # <<>> /\ agenda' = Tail(agenda)
        /\ Head(agenda).do = "unload" /\ UnloadSingle(id)
        /\ UNCHANGED <<available, search, request>>
    BY DEF RunUnload, CallTyped
  <1>2. /\ DOMAIN plugins' = DOMAIN plugins \ {id}
        /\ \A q \in DOMAIN plugins' : plugins'[q] = plugins[q]
        /\ \A d : Dependents(d)' \subseteq Dependents(d)
    BY <1>1, UnloadFacts
  <1>3. AgendaOK /\ RequestOK /\ LoadsInOrder /\ LoadOK /\ ReloadOK /\ UnloadOK
    BY DEF SInv
  <1>4. /\ DOMAIN plugins \subseteq DOMAIN available /\ DOMAIN plugins' \subseteq DOMAIN available
        /\ Sorted(agenda)
    BY <1>2, <1>3 DEF AgendaOK
  <1>5. /\ DependsOn' = DependsOn /\ \A x : Sound(x)' <=> Sound(x)
        /\ \A x : KnownDependencies(x)' = KnownDependencies(x)
        /\ \A x : (\E d \in Needed(x) : OnCycle(d))' <=> \E d \in Needed(x) : OnCycle(d)
    BY <1>1, <1>4, GraphStable
  <1>6. /\ Sorted(agenda') /\ LoadsInOrder'
        /\ \A what : Only(what, agenda) => Only(what, agenda')
    BY <1>1, <1>3, <1>4, <1>5, TailSorted
  <1>7. /\ \A what, x : Planned(what, x)' => Planned(what, x)
        /\ \A what, x : Planned(what, x) =>
              Planned(what, x)' \/ Head(agenda) = [do |-> what, id |-> x]
        /\ Planned("unload", id)
    BY <1>1, TailPlanned
  <1>8. /\ \A what, x : what # "unload" \/ x # id => Head(agenda) # [do |-> what, id |-> x]
        /\ search.aim = "none"
    BY <1>1 DEF NotSearching
  <1> HIDE DEF id
  <1>9. SearchInv'
    BY <1>1 DEF SInv, SearchInv, NotSearching
  <1>10. AgendaOK'
    BY <1>1, <1>3, <1>4, <1>6, <1>7, <1>8 DEF AgendaOK
  <1>11. RequestOK'
    <2>1. ~ Idle
      BY <1>1 DEF Idle
    <2> QED
      BY <1>1, <1>3, <1>6, <1>7, <1>8, <2>1 DEF RequestOK
  <1>12. LoadOK'
    <2> SUFFICES ASSUME request.op = "load", NEW x \in request.ids, ~ Sound(x)
                 PROVE  /\ ~ Planned("load", x)'
                        /\ x \in DOMAIN plugins' => Planned("unload", x)'
      BY <1>1, <1>5 DEF LoadOK
    <2>1. ~ Planned("load", x) /\ (x \in DOMAIN plugins => Planned("unload", x))
      BY <1>3 DEF LoadOK
    <2> QED
      BY <1>2, <1>7, <1>8, <2>1
  <1>13. StartOK'
    <2>1. request.op # "start"
      BY <1>1, <1>3, TailFacts DEF RequestOK, Only
    <2> QED
      BY <1>1, <2>1 DEF StartOK
  <1>14. ReloadOK'
    <2> SUFFICES ASSUME request.op = "reload", NEW x \in request.was, Sound(x)
                 PROVE  \/ Planned("load", x)' \/ Planned("resolve", x)'
                        \/ x \in request.failed
                        \/ x \in DOMAIN plugins' /\ ~ Planned("unload", x)'
      BY <1>1, <1>5 DEF ReloadOK
    <2>1. \/ Planned("load", x) \/ Planned("resolve", x)
          \/ x \in request.failed
          \/ x \in DOMAIN plugins /\ ~ Planned("unload", x)
      BY <1>3, <1>8 DEF ReloadOK
    <2> QED
      BY <1>2, <1>7, <1>8, <2>1
  <1>15. UnloadOK'
    <2> SUFFICES ASSUME request.op \in {"unload", "reload"},
                        NEW i \in DOMAIN agenda', agenda'[i].do = "unload",
                        NEW q \in Dependents(agenda[i].id)', ~ Excused(q)'
                 PROVE  \E j \in 1..i - 1 : agenda'[j] = [do |-> "unload", id |-> q]
      BY <1>1, <1>8 DEF UnloadOK
    <2>1. q \in DOMAIN plugins' /\ q \in Dependents(agenda'[i].id)
      <3>1. q \in DOMAIN plugins'
        BY DEF DependentsAreReal, Dependents
      <3> QED
        BY <1>2, <3>1 DEF Dependents
    <2>2. ~ Excused(q)
      BY <1>2, <1>5, <2>1 DEF Excused
    <2>3. i + 1 \in DOMAIN agenda /\ agenda'[i] = agenda[i + 1] /\ i \in Nat \ {0}
      BY <1>1, TailFacts
    <2>4. PICK j \in 1..(i + 1) - 1 : agenda[j] = [do |-> "unload", id |-> q]
      BY <1>3, <2>1, <2>2, <2>3 DEF UnloadOK
    <2>5. j # 1
      BY <1>1, <1>2, <2>1, <2>4, TailFacts DEF id
    <2>6. j \in DOMAIN agenda /\ j - 1 \in 1..i - 1
      BY <1>1, <2>3, <2>4, <2>5, TailFacts
    <2> QED
      BY <1>1, <2>4, <2>5, <2>6, TailFacts
  <1> QED
    BY <1>6, <1>9, <1>10, <1>11, <1>12, <1>13, <1>14, <1>15 DEF SInv

\* A search for one plugin that is available, when all unloads are done.
LEMMA RunResolveKeepsSInv ==
  ASSUME LoaderTyped, CallTyped, SInv, RunResolve
  PROVE  SInv'
  <1> DEFINE id == Head(agenda).id
  <1>1. /\ NotSearching /\ agenda \in Seq(Tasks) /\ agenda # <<>> /\ agenda' = Tail(agenda)
        /\ Head(agenda).do = "resolve" /\ search' = Search("load", {id})
        /\ UNCHANGED <<available, plugins, dependents, request>>
    BY DEF RunResolve, CallTyped, loader
  <1>2. search'.aim = "load" /\ search'.targets = {id} /\ search.aim = "none" /\ id \in Ids
    BY <1>1, HeadTyped DEF Search, NotSearching
  <1>3. AgendaOK /\ RequestOK /\ LoadsInOrder /\ LoadOK /\ StartOK /\ ReloadOK /\ UnloadOK
    BY DEF SInv
  <1>4. DOMAIN plugins \subseteq DOMAIN available /\ Sorted(agenda)
    BY <1>3 DEF AgendaOK
  <1>5. DependsOn' = DependsOn /\ Known' = Known /\ \A x : Sound(x)' <=> Sound(x)
    BY <1>1, <1>4, GraphStable
  <1>6. Sorted(agenda') /\ LoadsInOrder' /\ Only("resolve", agenda')
    BY <1>1, <1>3, <1>4, <1>5, TailSorted
  <1>7. /\ \A what, x : Planned(what, x)' => Planned(what, x)
        /\ \A what, x : Planned(what, x) =>
              Planned(what, x)' \/ Head(agenda) = [do |-> what, id |-> x]
        /\ Planned("resolve", id)
    BY <1>1, TailPlanned
  <1>8. \A what, x : what # "resolve" \/ x # id => Head(agenda) # [do |-> what, id |-> x]
    BY <1>1
  <1>9. \A x : ~ Planned("unload", x)' /\ ~ Planned("load", x)'
    BY <1>6 DEF Planned, Only
  <1>10. \A x : ~ Planned("unload", x) /\ ~ Planned("load", x)
    BY <1>7, <1>8, <1>9
  <1> HIDE DEF id
  <1>11. SearchInv'
    <2>1. {id} \subseteq Known
      BY <1>2, <1>3, <1>7 DEF AgendaOK, Known
    <2>2. Scope' = Known /\ DependsOn \in Graphs
      BY <1>2, <1>5, DependsOnGraph DEF Scope
    <2>3. SearchOK(search', DependsOn, Known, DOMAIN plugins)
      BY <1>1, <2>1, <2>2, FreshSearchOK
    <2> QED
      BY <1>1, <1>2, <1>5, <2>2, <2>3 DEF SearchInv, NotSearching
  <1>12. AgendaOK'
    BY <1>1, <1>2, <1>3, <1>4, <1>6, <1>7 DEF AgendaOK
  <1>13. RequestOK'
    <2>1. ~ Idle /\ request.op # "start"
      BY <1>1, <1>3, TailFacts DEF Idle, RequestOK, Only
    <2>2. request.op = "load" => id \in request.ids
      BY <1>2, <1>3, <1>7 DEF RequestOK
    <2>3. request.op = "load" => request.ids = {id}
      BY <1>3, <2>2 DEF RequestOK
    <2> QED
      BY <1>1, <1>2, <1>3, <1>7, <2>1, <2>3 DEF RequestOK
  <1>14. LoadOK'
    BY <1>1, <1>3, <1>5, <1>9, <1>10 DEF LoadOK
  <1>15. StartOK'
    BY <1>2 DEF StartOK
  <1>16. ReloadOK'
    <2> SUFFICES ASSUME request.op = "reload", NEW x \in request.was, Sound(x)
                 PROVE  x = id \/ Planned("resolve", x)' \/ x \in request.failed \/ x \in DOMAIN plugins
      BY <1>1, <1>2, <1>5, <1>9 DEF ReloadOK
    <2>1. Planned("resolve", x) \/ x \in request.failed \/ x \in DOMAIN plugins
      BY <1>2, <1>3, <1>10 DEF ReloadOK
    <2> QED
      BY <1>7, <1>8, <2>1
  <1>17. UnloadOK'
    <2>1. \A i \in DOMAIN agenda' : agenda'[i].do # "unload"
      BY <1>6 DEF Only
    <2> QED
      BY <1>2, <2>1 DEF UnloadOK
  <1> QED
    BY <1>6, <1>11, <1>12, <1>13, <1>14, <1>15, <1>16, <1>17 DEF SInv

-----------------------------------------------------------------------------
(* The steps of a search, and what it leaves on the agenda                   *)

LEMMA VisitKeepsSInv ==
  ASSUME LoaderTyped, CallTyped, SInv, VisitTarget \/ VisitDependency \/ FinishVisit
  PROVE  SInv'
  <1>1. UNCHANGED <<available, plugins, dependents, request, agenda>>
    BY DEF VisitTarget, VisitDependency, FinishVisit, loader
  <1>2. ~ NotSearching
    BY DEF SInv, SearchInv, NoSearch, Search, VisitTarget, VisitDependency, FinishVisit
  <1>3. SearchOK(search, DependsOn, Scope, DOMAIN plugins) /\ search \in Searches
    BY <1>2 DEF SInv, SearchInv, CallTyped
  <1>4. /\ SearchOK(search', DependsOn, Scope, DOMAIN plugins)
        /\ search'.aim = search.aim /\ search'.targets = search.targets
    BY <1>3, VisitTargetKeepsSearch, VisitDependencyKeepsSearch, FinishVisitKeepsSearch
  <1>5. AgendaOK /\ DOMAIN plugins \subseteq DOMAIN available
    BY DEF SInv, AgendaOK
  <1>6. /\ DependsOn' = DependsOn /\ Known' = Known
        /\ \A x : KnownDependencies(x)' = KnownDependencies(x)
        /\ \A x : Sound(x)' <=> Sound(x)
        /\ \A x : (\E d \in Needed(x) : OnCycle(d))' <=> \E d \in Needed(x) : OnCycle(d)
    BY <1>1, <1>5, GraphStable
  <1>7. \A what, x : Planned(what, x)' <=> Planned(what, x)
    BY <1>1 DEF Planned
  <1>8. Scope' = Scope /\ NotSearching' = NotSearching /\ Idle' = Idle
    BY <1>1, <1>4, <1>6 DEF Scope, NotSearching, Idle
  <1>9. SearchInv'
    BY <1>1, <1>2, <1>4, <1>6, <1>8 DEF SearchInv
  <1>10. AgendaOK'
    BY <1>1, <1>4, <1>5, <1>7 DEF AgendaOK
  <1>11. RequestOK'
    BY <1>1, <1>4, <1>7, <1>8 DEF SInv, RequestOK
  <1>12. LoadsInOrder'
    BY <1>1, <1>6 DEF SInv, LoadsInOrder
  <1>13. LoadOK' /\ StartOK' /\ ReloadOK'
    BY <1>1, <1>4, <1>6, <1>7 DEF SInv, LoadOK, StartOK, ReloadOK
  <1>14. UnloadOK'
    <2>1. \A q : Excused(q)' <=> Excused(q)
      BY <1>1, <1>6 DEF Excused
    <2>2. \A d : Dependents(d)' = Dependents(d)
      BY <1>1 DEF Dependents
    <2> QED
      BY <1>1, <1>4, <2>1, <2>2 DEF SInv, UnloadOK
  <1> QED
    BY <1>9, <1>10, <1>11, <1>12, <1>13, <1>14 DEF SInv

\* A search to load puts loads before the searches that are still to do.
LEMMA EndLoadKeepsSInv ==
  ASSUME LoaderTyped, CallTyped, SInv, EndSearch, search.aim = "load"
  PROVE  SInv'
  <1> DEFINE order == search.order
  <1>1. /\ search.stack = <<>> /\ search.roots = {} /\ search' = NoSearch /\ search'.aim = "none"
        /\ agenda' = Steps("load", order) \o agenda
        /\ UNCHANGED <<available, plugins, dependents, request>>
    BY DEF EndSearch, Agenda, loader, NoSearch, Search
  <1>2. search \in Searches /\ agenda \in Seq(Tasks)
    BY DEF CallTyped
  <1>3. AgendaOK /\ RequestOK /\ LoadOK /\ StartOK /\ ReloadOK /\ Only("resolve", agenda)
        /\ DOMAIN plugins \subseteq DOMAIN available
        /\ SearchOK(search, DependsOn, Known, DOMAIN plugins)
    BY DEF SInv, AgendaOK, SearchInv, NotSearching, Scope
  <1>4. DependsOn \in Graphs
    BY DependsOnGraph
  <1>5. /\ order \in Seq(Ids) /\ ToSet(order) \subseteq Known
        /\ \A i, j \in 1..Len(order) : i <= j => order[j] \notin DependsOn[order[i]]
    BY <1>1, <1>2, <1>3, <1>4, SearchResult
  <1>6. \A x \in search.targets :
           x \in ToSet(order) \/ Guilty(search.aim = "load", DependsOn, Known, x)
    BY <1>1, <1>2, <1>3, <1>4, SearchResult
  <1>7. (\A x, y \in search.targets : x = y) =>
           \A x \in search.targets \cap ToSet(order) : SoundIn(DependsOn, Known, x)
    BY <1>1, <1>2, <1>3, <1>4, SearchResult
  <1>8. /\ \A x \in search.targets : Sound(x) => x \in ToSet(order)
        /\ (\A x, y \in search.targets : x = y) =>
              \A x \in search.targets \cap ToSet(order) : Sound(x)
    BY <1>6, <1>7, SoundIsNotGuilty, SoundIs
  <1>9. /\ DependsOn' = DependsOn /\ \A x : Sound(x)' <=> Sound(x)
    BY <1>1, <1>3, GraphStable
  <1> DEFINE n == Len(order)
             m == Len(agenda)
             loads == Steps("load", order)
  <1>10. /\ loads \in Seq(Tasks) /\ Len(loads) = n /\ DOMAIN order = 1..n
         /\ \A i \in 1..n : loads[i] = [do |-> "load", id |-> order[i]]
         /\ agenda' = loads \o agenda
    <2>1. DOMAIN order = 1..n
      BY <1>5
    <2> QED
      BY <1>1, <1>5, <2>1, StepsFacts
  <1>11. DOMAIN agenda = 1..m
    BY <1>2
  <1> HIDE DEF order, n, m, loads
  <1>12. /\ n \in Nat /\ m \in Nat /\ DOMAIN agenda' = 1..n + m
         /\ \A i \in 1..n : i \in DOMAIN agenda' /\ agenda'[i] = [do |-> "load", id |-> order[i]]
         /\ \A i \in 1..m : n + i \in DOMAIN agenda' /\ agenda'[n + i] = agenda[i]
         /\ \A i \in DOMAIN agenda' :
               \/ i \in 1..n /\ agenda'[i].do = "load" /\ agenda'[i].id = order[i]
               \/ i > n /\ agenda'[i].do = "resolve" /\ i - n \in 1..m /\ agenda'[i] = agenda[i - n]
    <2>1. /\ n \in Nat /\ m \in Nat /\ DOMAIN agenda' = 1..n + m
          /\ \A i \in 1..n : i \in DOMAIN agenda' /\ agenda'[i] = loads[i]
          /\ \A i \in 1..m : n + i \in DOMAIN agenda' /\ agenda'[n + i] = agenda[i]
          /\ \A i \in DOMAIN agenda' :
                \/ i \in 1..n /\ agenda'[i] = loads[i]
                \/ i > n /\ i - n \in 1..m /\ agenda'[i] = agenda[i - n]
      BY <1>2, <1>10, ConcatFacts, SMTT(30) DEF m
    <2>2. \A i \in 1..m : agenda[i].do = "resolve"
      BY <1>3, <1>11 DEF Only
    <2> QED
      BY <1>10, <2>1, <2>2
  <1>13. /\ \A x : Planned("load", x)' <=> x \in ToSet(order)
         /\ \A x : Planned("resolve", x)' <=> Planned("resolve", x)
         /\ \A x : ~ Planned("unload", x)'
         /\ \A x : ~ Planned("unload", x) /\ ~ Planned("load", x)
    <2>1. ASSUME NEW x, Planned("load", x)' PROVE x \in ToSet(order)
      BY <1>10, <1>12, <2>1 DEF Planned, ToSet
    <2>2. ASSUME NEW x \in ToSet(order) PROVE Planned("load", x)'
      <3>1. PICK i \in 1..n : order[i] = x
        BY <1>10 DEF ToSet
      <3>2. i \in DOMAIN agenda' /\ agenda'[i] = [do |-> "load", id |-> x]
        BY <1>10, <1>12, <3>1
      <3> QED
        BY <3>2 DEF Planned
    <2>3. ASSUME NEW x, Planned("resolve", x)' PROVE Planned("resolve", x)
      BY <1>12, <1>11, <2>3, SMTT(30) DEF Planned
    <2>4. ASSUME NEW x, Planned("resolve", x) PROVE Planned("resolve", x)'
      <3>1. PICK i \in 1..m : agenda[i] = [do |-> "resolve", id |-> x]
        BY <1>11, <2>4 DEF Planned
      <3>2. n + i \in DOMAIN agenda' /\ agenda'[n + i] = [do |-> "resolve", id |-> x]
        BY <1>10, <1>12, <3>1
      <3> QED
        BY <3>2 DEF Planned
    <2>5. \A x : ~ Planned("unload", x)'
      BY <1>12 DEF Planned
    <2>6. \A x : ~ Planned("unload", x) /\ ~ Planned("load", x)
      BY <1>3 DEF Planned, Only
    <2> QED
      BY <2>1, <2>2, <2>3, <2>4, <2>5, <2>6
  <1>14. SearchInv'
    BY <1>1 DEF SearchInv, NotSearching
  <1>15. AgendaOK'
    <2>1. Sorted(agenda')
      BY <1>12 DEF Sorted
    <2> QED
      BY <1>1, <1>3, <1>13, <2>1 DEF AgendaOK
  <1>16. RequestOK'
    <2>1. request.op # "none"
      BY <1>3 DEF RequestOK, Idle, NotSearching
    <2>2. request.op = "start" => Only("load", agenda')
      <3>1. request.op = "start" => m = 0
        <4>1. request.op = "start" => Only("load", agenda)
          BY <1>3 DEF RequestOK
        <4> QED
          BY <1>3, <1>12, <1>11, <4>1 DEF Only
      <3> QED
        BY <1>12, <3>1 DEF Only
    <2> QED
      BY <1>1, <1>3, <1>13, <2>1, <2>2 DEF RequestOK
  <1>17. LoadsInOrder'
    <2> SUFFICES ASSUME NEW i \in DOMAIN agenda', NEW j \in DOMAIN agenda', i < j,
                        agenda'[i].do = "load", agenda'[j].do = "load"
                 PROVE  agenda'[j].id \notin DependsOn[agenda'[i].id]
      BY <1>9 DEF LoadsInOrder
    <2>1. /\ i \in 1..n /\ j \in 1..n /\ i <= j
          /\ agenda'[i].id = order[i] /\ agenda'[j].id = order[j]
      BY <1>12
    <2> QED
      BY <1>5, <2>1 DEF n
  <1>18. LoadOK'
    <2> SUFFICES ASSUME request.op = "load", NEW x \in request.ids, ~ Sound(x)
                 PROVE  x \notin ToSet(order) /\ x \notin DOMAIN plugins
      BY <1>1, <1>9, <1>13 DEF LoadOK
    <2>1. x \notin DOMAIN plugins
      BY <1>3, <1>13 DEF LoadOK
    <2>2. search.targets = request.ids /\ \A y, z \in request.ids : y = z
      BY <1>3 DEF RequestOK
    <2> QED
      BY <1>8, <2>1, <2>2
  <1>19. StartOK'
    <2> SUFFICES ASSUME request.op = "start", NEW x \in DOMAIN available, Sound(x)
                 PROVE  x \in ToSet(order)
      BY <1>1, <1>9, <1>13 DEF StartOK
    <2> QED
      BY <1>3, <1>8 DEF RequestOK
  <1>20. ReloadOK'
    <2> SUFFICES ASSUME request.op = "reload", NEW x \in request.was, Sound(x)
                 PROVE  \/ x \in ToSet(order) \/ Planned("resolve", x)
                        \/ x \in request.failed \/ x \in DOMAIN plugins
      BY <1>1, <1>9, <1>13 DEF ReloadOK
    <2>1. \/ search.targets = {x} \/ Planned("resolve", x)
          \/ x \in request.failed \/ x \in DOMAIN plugins
      BY <1>3, <1>13 DEF ReloadOK
    <2> QED
      BY <1>8, <2>1
  <1>21. UnloadOK'
    <2>1. \A i \in DOMAIN agenda' : agenda'[i].do # "unload"
      BY <1>12
    <2> QED
      BY <1>1, <2>1 DEF UnloadOK
  <1> QED
    BY <1>14, <1>15, <1>16, <1>17, <1>18, <1>19, <1>20, <1>21 DEF SInv

\* A search to unload sets the agenda: dependents go first, and a reload then looks
\* for each of them again.
LEMMA EndUnloadAgenda ==
  ASSUME agenda = <<>>, EndSearch, search.aim \in {"unload", "reload"}, search.order \in Seq(Ids)
  PROVE  LET order == search.order
             n == Len(order)
         IN  /\ \A i \in DOMAIN agenda' :
                   \/ i \in 1..n /\ agenda'[i] = [do |-> "unload", id |-> order[n - i + 1]]
                   \/ /\ i > n /\ search.aim = "reload" /\ i - n \in 1..n
                      /\ agenda'[i] = [do |-> "resolve", id |-> order[i - n]]
             /\ \A i \in 1..n : agenda'[i] = [do |-> "unload", id |-> order[n - i + 1]]
             /\ search.aim = "reload" =>
                   \A i \in 1..n : n + i \in DOMAIN agenda'
                                   /\ agenda'[n + i] = [do |-> "resolve", id |-> order[i]]
             /\ DOMAIN agenda' \subseteq Nat
  <1> DEFINE order == search.order
             n == Len(order)
             unloads == UnloadAgenda(order)
             searches == LoadAgenda(order)
  <1>1. /\ unloads \in Seq(Tasks) /\ Len(unloads) = n /\ DOMAIN unloads = 1..n
        /\ \A i \in 1..n : unloads[i] = [do |-> "unload", id |-> order[n - i + 1]]
    <2>1. /\ Reverse(order) \in Seq(Ids) /\ Len(Reverse(order)) = n
          /\ \A i \in 1..n : Reverse(order)[i] = order[n - i + 1]
      BY ReverseFacts
    <2> QED
      BY <2>1, StepsFacts DEF UnloadAgenda
  <1>2. /\ searches \in Seq(Tasks) /\ Len(searches) = n
        /\ \A i \in 1..n : searches[i] = [do |-> "resolve", id |-> order[i]]
    BY StepsFacts DEF LoadAgenda
  <1>3. n \in Nat
    OBVIOUS
  <1>4. agenda' = IF search.aim = "reload" THEN unloads \o searches ELSE unloads
    <2>1. unloads \o <<>> = unloads /\ (unloads \o searches) \o <<>> = unloads \o searches
      BY <1>1, <1>2
    <2>2. agenda' = (IF search.aim = "reload" THEN unloads \o searches ELSE unloads) \o <<>>
      BY DEF EndSearch, Agenda
    <2> QED
      BY <2>1, <2>2
  <1> HIDE DEF order, n, unloads, searches
  <1>5. /\ \A i \in DOMAIN agenda' :
              \/ i \in 1..n /\ agenda'[i] = unloads[i]
              \/ /\ i > n /\ search.aim = "reload" /\ i - n \in 1..n
                 /\ agenda'[i] = searches[i - n]
        /\ \A i \in 1..n : agenda'[i] = unloads[i]
        /\ search.aim = "reload" =>
              \A i \in 1..n : n + i \in DOMAIN agenda' /\ agenda'[n + i] = searches[i]
        /\ DOMAIN agenda' \subseteq Nat
    <2>1. CASE search.aim = "reload"
      <3>1. agenda' = unloads \o searches
        BY <1>4, <2>1
      <3>2. /\ DOMAIN agenda' = 1..n + n
            /\ \A i \in 1..n : agenda'[i] = unloads[i]
            /\ \A i \in 1..n : n + i \in DOMAIN agenda' /\ agenda'[n + i] = searches[i]
            /\ \A i \in DOMAIN agenda' :
                  \/ i \in 1..n /\ agenda'[i] = unloads[i]
                  \/ i > n /\ i - n \in 1..n /\ agenda'[i] = searches[i - n]
        BY <1>1, <1>2, <3>1, ConcatFacts
      <3> QED
        BY <1>3, <2>1, <3>2
    <2>2. CASE search.aim # "reload"
      BY <1>1, <1>3, <1>4, <2>2
    <2> QED
      BY <2>1, <2>2
  <1> QED
    BY <1>1, <1>2, <1>5 DEF order, n

LEMMA EndUnloadKeepsSInv ==
  ASSUME LoaderTyped, CallTyped, DependentsAreReal, SInv, EndSearch,
         search.aim \in {"unload", "reload"}
  PROVE  SInv'
  <1> DEFINE order == search.order
             n == Len(order)
  <1>1. /\ search.stack = <<>> /\ search.roots = {} /\ search' = NoSearch /\ search'.aim = "none"
        /\ UNCHANGED <<available, plugins, dependents, request>>
    BY DEF EndSearch, loader, NoSearch, Search
  <1>2. search \in Searches
    BY DEF CallTyped
  <1>3. /\ AgendaOK /\ RequestOK /\ ReloadOK /\ UnloadOK /\ agenda = <<>> /\ DOMAIN agenda = {}
        /\ DOMAIN plugins \subseteq DOMAIN available
        /\ SearchOK(search, DependsOn, search.targets, DOMAIN plugins)
    BY DEF SInv, AgendaOK, SearchInv, NotSearching, Scope
  <1>4. DependsOn \in Graphs /\ \A x \in Ids : DependsOn[x] = ToSet(KnownDependencies(x))
    BY DependsOnGraph
  <1>5. /\ order \in Seq(Ids) /\ ToSet(order) \subseteq search.targets
        /\ \A i, j \in 1..n : i <= j => order[j] \notin DependsOn[order[i]]
    BY <1>1, <1>2, <1>3, <1>4, SearchResult
  <1>6. \A x \in search.targets : x \in ToSet(order) \/ \E q \in Needed(x) : OnCycle(q)
    <2>1. \A x \in search.targets :
             x \in ToSet(order) \/ Guilty(search.aim = "load", DependsOn, search.targets, x)
      BY <1>1, <1>2, <1>3, <1>4, SearchResult
    <2> QED
      BY <2>1, SoundIs DEF Guilty
  <1>7. /\ DependsOn' = DependsOn /\ \A x : Sound(x)' <=> Sound(x)
        /\ \A x : KnownDependencies(x)' = KnownDependencies(x)
        /\ \A x : (\E d \in Needed(x) : OnCycle(d))' <=> \E d \in Needed(x) : OnCycle(d)
    BY <1>1, <1>3, GraphStable
  <1>8. /\ \A i \in DOMAIN agenda' :
              \/ i \in 1..n /\ agenda'[i] = [do |-> "unload", id |-> order[n - i + 1]]
              \/ /\ i > n /\ search.aim = "reload" /\ i - n \in 1..n
                 /\ agenda'[i] = [do |-> "resolve", id |-> order[i - n]]
        /\ \A i \in 1..n : agenda'[i] = [do |-> "unload", id |-> order[n - i + 1]]
        /\ search.aim = "reload" =>
              \A i \in 1..n : n + i \in DOMAIN agenda'
                              /\ agenda'[n + i] = [do |-> "resolve", id |-> order[i]]
        /\ DOMAIN agenda' \subseteq Nat
    BY <1>3, <1>5, EndUnloadAgenda
  <1>9. n \in Nat /\ DOMAIN order = 1..n /\ \A i \in 1..n : n - i + 1 \in 1..n
    BY <1>5
  <1> HIDE DEF order, n
  <1>10. /\ \A x : ~ Planned("load", x)'
         /\ \A x : Planned("resolve", x)' => x \in ToSet(order)
         /\ \A x : Planned("unload", x)' => x \in ToSet(order)
         /\ search.aim = "reload" => \A x \in ToSet(order) : Planned("resolve", x)'
    <2>1. \A x : ~ Planned("load", x)'
      BY <1>8 DEF Planned
    <2>2. \A x : Planned("resolve", x)' => x \in ToSet(order)
      BY <1>8, <1>9 DEF Planned, ToSet
    <2>3. \A x : Planned("unload", x)' => x \in ToSet(order)
      BY <1>8, <1>9 DEF Planned, ToSet
    <2>4. ASSUME search.aim = "reload", NEW x \in ToSet(order) PROVE Planned("resolve", x)'
      <3>1. PICK i \in 1..n : order[i] = x
        BY <1>9 DEF ToSet
      <3>2. n + i \in DOMAIN agenda' /\ agenda'[n + i] = [do |-> "resolve", id |-> x]
        BY <1>8, <2>4, <3>1
      <3> QED
        BY <3>2 DEF Planned
    <2> QED
      BY <2>1, <2>2, <2>3, <2>4
  <1>11. SearchInv'
    BY <1>1 DEF SearchInv, NotSearching
  <1>12. AgendaOK'
    <2>1. Sorted(agenda')
      BY <1>8, <1>9 DEF Sorted
    <2>2. search.targets \subseteq DOMAIN available
      BY <1>3 DEF UnloadOK
    <2> QED
      BY <1>1, <1>3, <1>5, <1>10, <2>1, <2>2 DEF AgendaOK
  <1>13. RequestOK'
    <2>1. request.op \notin {"none", "start", "load"}
      BY <1>3 DEF RequestOK, Idle, NotSearching
    <2> QED
      BY <1>1, <2>1 DEF RequestOK
  <1>14. LoadsInOrder'
    <2>1. \A i \in DOMAIN agenda' : agenda'[i].do # "load"
      BY <1>8
    <2> QED
      BY <2>1 DEF LoadsInOrder
  <1>15. LoadOK' /\ StartOK'
    <2>1. request.op \notin {"start", "load"}
      BY <1>3 DEF RequestOK
    <2> QED
      BY <1>1, <2>1 DEF LoadOK, StartOK
  <1>16. ReloadOK'
    <2> SUFFICES ASSUME request.op = "reload", NEW x \in request.was, Sound(x)
                 PROVE  \/ Planned("resolve", x)' \/ x \in request.failed
                        \/ x \in DOMAIN plugins /\ ~ Planned("unload", x)'
      BY <1>1, <1>7 DEF ReloadOK
    <2>1. x \in request.failed \/ x \in DOMAIN plugins
      BY <1>3 DEF ReloadOK, Planned
    <2>2. search.aim = "reload"
      BY <1>3 DEF RequestOK
    <2> QED
      BY <1>10, <2>1, <2>2
  <1>17. UnloadOK'
    <2> SUFFICES ASSUME NEW i \in DOMAIN agenda', agenda'[i].do = "unload",
                        NEW q \in Dependents(agenda[i].id)', ~ Excused(q)'
                 PROVE  \E j \in 1..i - 1 : agenda'[j] = [do |-> "unload", id |-> q]
      BY <1>1 DEF UnloadOK
    <2> DEFINE x == order[n - i + 1]
    <2>1. i \in 1..n /\ agenda'[i].id = x /\ x \in ToSet(order)
      BY <1>8, <1>9 DEF ToSet
    <2>2. q \in Dependents(x)
      BY <1>1, <2>1 DEF Dependents
    <2>3. /\ q \in DOMAIN plugins /\ x \in ToSet(plugins[q].deps) /\ q \in search.targets
          /\ q \in Ids
      <3>1. q \in DOMAIN plugins /\ x \in ToSet(plugins[q].deps)
        BY <2>2 DEF Dependents, DependentsAreReal
      <3>2. q \in search.targets
        BY <1>3, <1>5, <2>1, <2>2 DEF UnloadOK
      <3> QED
        BY <3>1, <3>2 DEF LoaderTyped
    <2>4. KnownDependencies(q) = plugins[q].deps /\ ~ \E d \in Needed(q) : OnCycle(d)
      BY <1>1, <1>7 DEF Excused
    <2>5. q \in ToSet(order) /\ x \in DependsOn[q]
      BY <1>4, <1>6, <2>3, <2>4
    <2>6. PICK m \in 1..n : order[m] = q
      BY <1>9, <2>5 DEF ToSet
    <2>7. ~ (m <= n - i + 1)
      BY <1>5, <1>9, <2>1, <2>5, <2>6
    <2>8. n - m + 1 \in 1..i - 1 /\ n - m + 1 \in 1..n /\ n - (n - m + 1) + 1 = m
      BY <1>9, <2>1, <2>6, <2>7, SMTT(30)
    <2>9. agenda'[n - m + 1] = [do |-> "unload", id |-> q]
      BY <1>8, <2>6, <2>8
    <2> QED
      BY <2>8, <2>9
  <1> QED
    BY <1>11, <1>12, <1>13, <1>14, <1>15, <1>16, <1>17 DEF SInv

-----------------------------------------------------------------------------
(* The calls                                                                 *)

LEMMA GraphTyped == LoaderTyped => DependsOn \in Graphs
  BY DependsOnGraph

\* The graph of the next state has its type as well.
LEMMA NextGraphTyped == LoaderTyped' => DependsOn' \in Graphs
  <1>1. (LoaderTyped => DependsOn \in Graphs)'
    BY GraphTyped, PTL
  <1> QED
    BY <1>1 DEF Graphs

\* A call that is given up makes none of its promises.
LEMMA AbortKeepsSInv ==
  ASSUME Typed, Typed', SInv, Aborts
  PROVE  SInv'
  <1>1. /\ agenda = <<>> /\ search.aim = "none" /\ UNCHANGED <<plugins, dependents, search, agenda>>
        /\ DOMAIN available \subseteq DOMAIN available' /\ DOMAIN agenda' = {}
    BY AbortFacts DEF SInv, RequestOK, Idle, NotSearching
  <1>2. request'.op \in {"loadAborted", "startAborted", "reloadAborted"}
    BY AbortFacts DEF Call, Over
  <1>3. \A what, id : ~ Planned(what, id)'
    BY <1>1 DEF Planned
  <1>4. SearchInv' /\ RequestOK'
    BY <1>1, <1>2 DEF SInv, SearchInv, NotSearching, RequestOK
  <1>5. AgendaOK' /\ LoadsInOrder'
    BY <1>1, <1>3 DEF SInv, AgendaOK, Sorted, LoadsInOrder
  <1>6. LoadOK' /\ StartOK' /\ ReloadOK' /\ UnloadOK'
    BY <1>1, <1>2 DEF LoadOK, StartOK, ReloadOK, UnloadOK
  <1> QED
    BY <1>4, <1>5, <1>6 DEF SInv

LEMMA LoadPluginsKeepsSInv ==
  ASSUME LoaderTyped', SInv, LoadPlugins
  PROVE  SInv'
  <1>1. /\ request.op = "none" /\ Call("start", DOMAIN available')
        /\ search' = Search("load", DOMAIN available') /\ UNCHANGED <<plugins, agenda>>
        /\ available' = Discovered
    BY DEF LoadPlugins
  <1>2. agenda = <<>> /\ DOMAIN agenda' = {} /\ DOMAIN plugins' \subseteq DOMAIN available'
    <2>1. DOMAIN available \subseteq DOMAIN Discovered
      BY DEF Discovered
    <2> QED
      BY <1>1, <2>1 DEF SInv, RequestOK, AgendaOK, Idle
  <1>3. /\ request'.op = "start" /\ search'.aim = "load" /\ search'.targets = DOMAIN available'
    BY <1>1 DEF Call, Search
  <1>4. \A what, id : ~ Planned(what, id)'
    BY <1>2 DEF Planned
  <1>5. SearchInv'
    <2>1. DependsOn' \in Graphs
      BY NextGraphTyped
    <2>2. Scope' = Known' /\ DOMAIN available' \subseteq Known'
      BY <1>3 DEF Scope, Known
    <2>3. SearchOK(search', DependsOn', Known', DOMAIN plugins')
      BY <1>1, <2>1, <2>2, FreshSearchOK
    <2> QED
      BY <1>3, <2>2, <2>3 DEF SearchInv, NotSearching
  <1>6. AgendaOK' /\ LoadsInOrder'
    BY <1>2, <1>3, <1>4 DEF AgendaOK, Sorted, Only, LoadsInOrder
  <1>7. RequestOK'
    BY <1>2, <1>3 DEF RequestOK, Only
  <1>8. LoadOK' /\ StartOK' /\ ReloadOK' /\ UnloadOK'
    BY <1>3 DEF LoadOK, StartOK, ReloadOK, UnloadOK
  <1> QED
    BY <1>5, <1>6, <1>7, <1>8 DEF SInv

\* A loaded plugin is planned to go before it is searched for.
LEMMA LoadPluginKeepsSInv ==
  ASSUME Typed, SInv, NEW p \in Paths, LoadPlugin(p)
  PROVE  SInv'
  <1>0. PICK id \in Ids : id = disk[p].id
    <2>1. disk[p] \in [id : Ids, version : Versions, requires : Seq(Requirements)]
      BY ManifestsAssumption DEF Typed, OnDisk, Readable, LoadPlugin
    <2> QED
      BY <2>1
  <1>1. /\ agenda = <<>> /\ search = NoSearch /\ search' = NoSearch /\ search'.aim = "none"
        /\ Call("load", {id}) /\ UNCHANGED plugins
        /\ available' = [Discovered EXCEPT ![id] = Candidate(id, p)]
        /\ agenda' = Steps("unload", IF id \in DOMAIN plugins THEN <<id>> ELSE <<>>)
                       \o Steps("resolve", <<id>>)
    BY <1>0 DEF LoadPlugin, Ready, Idle, SInv, SearchInv, NoSearch, Search
  <1>2. id \in DOMAIN available' /\ DOMAIN plugins' \subseteq DOMAIN available'
    <2>1. DOMAIN available' = DOMAIN available \cup {disk[q].id : q \in Scanned} /\ p \in Scanned
      BY <1>0, <1>1 DEF Discovered, LoadPlugin, Scanned
    <2> QED
      BY <1>0, <1>1, <2>1 DEF SInv, AgendaOK
  <1>3. request'.op = "load" /\ request'.ids = {id}
    BY <1>1 DEF Call
  <1>4. /\ \A i \in DOMAIN agenda' :
              \/ i = 1 /\ agenda'[i] = [do |-> "unload", id |-> id]
              \/ agenda'[i] = [do |-> "resolve", id |-> id]
        /\ id \in DOMAIN plugins => 1 \in DOMAIN agenda' /\ agenda'[1] = [do |-> "unload", id |-> id]
        /\ DOMAIN agenda' \subseteq Nat \ {0}
    <2> DEFINE gone == IF id \in DOMAIN plugins THEN <<id>> ELSE <<>>
               first == Steps("unload", gone)
               then == Steps("resolve", <<id>>)
    <2>2. /\ gone \in Seq(Ids) /\ (id \in DOMAIN plugins => Len(gone) = 1 /\ gone[1] = id)
          /\ id \notin DOMAIN plugins => Len(gone) = 0
          /\ <<id>> \in Seq(Ids) /\ Len(<<id>>) = 1 /\ <<id>>[1] = id
      OBVIOUS
    <2>3. agenda' = first \o then
      BY <1>1
    <2> HIDE DEF gone
    <2>4. /\ first \in Seq(Tasks) /\ Len(first) = Len(gone)
          /\ \A i \in 1..Len(gone) : first[i] = [do |-> "unload", id |-> gone[i]]
      BY <2>2, StepsFacts
    <2>6. then \in Seq(Tasks) /\ Len(then) = 1 /\ then[1] = [do |-> "resolve", id |-> id]
      <3>1. then \in Seq(Tasks) /\ Len(then) = Len(<<id>>)
            /\ \A i \in 1..Len(<<id>>) : then[i] = [do |-> "resolve", id |-> <<id>>[i]]
        BY <2>2, StepsFacts
      <3>2. 1 \in 1..Len(<<id>>)
        BY <2>2
      <3>3. then[1] = [do |-> "resolve", id |-> <<id>>[1]]
        BY <3>1, <3>2
      <3> HIDE DEF then
      <3> QED
        BY <2>2, <3>1, <3>3
    <2> HIDE DEF first, then
    <2>5. /\ DOMAIN agenda' = 1..Len(first) + Len(then)
          /\ \A i \in 1..Len(first) : i \in DOMAIN agenda' /\ agenda'[i] = first[i]
          /\ \A i \in DOMAIN agenda' :
                \/ i \in 1..Len(first) /\ agenda'[i] = first[i]
                \/ i - Len(first) \in 1..Len(then) /\ agenda'[i] = then[i - Len(first)]
      BY <2>3, <2>4, <2>6, ConcatFacts, ZenonT(60)
    <2> QED
      BY <2>2, <2>4, <2>5, <2>6
  <1>5. /\ \A x : ~ Planned("load", x)' /\ (Planned("resolve", x)' => x = id)
        /\ id \in DOMAIN plugins => Planned("unload", id)'
    <2>1. \A x : ~ Planned("load", x)'
      BY <1>4 DEF Planned
    <2>2. \A x : Planned("resolve", x)' => x = id
      BY <1>4 DEF Planned
    <2>3. id \in DOMAIN plugins => Planned("unload", id)'
      BY <1>4 DEF Planned
    <2> QED
      BY <2>1, <2>2, <2>3
  <1>6. SearchInv'
    BY <1>1 DEF SearchInv, NotSearching
  <1>7. AgendaOK' /\ LoadsInOrder'
    <2>1. \A i \in DOMAIN agenda' :
             /\ i \in Nat /\ agenda'[i].do \in {"unload", "resolve"}
             /\ agenda'[i].do = "unload" => i = 1
      BY <1>4
    <2>2. Sorted(agenda')
      <3> SUFFICES ASSUME NEW i \in DOMAIN agenda', NEW j \in DOMAIN agenda', i < j
                   PROVE  agenda'[j].do = "resolve" /\ agenda'[i].do # "load"
        BY DEF Sorted
      <3>1. j # 1
        BY <1>4
      <3> QED
        BY <2>1, <3>1
    <2>3. LoadsInOrder'
      BY <2>1 DEF LoadsInOrder
    <2> QED
      BY <1>1, <1>2, <1>5, <2>2, <2>3 DEF AgendaOK
  <1>8. RequestOK'
    BY <1>1, <1>3, <1>5 DEF RequestOK
  <1>9. LoadOK'
    <2>1. ~ Planned("load", id)' /\ (id \in DOMAIN plugins' => Planned("unload", id)')
      BY <1>1, <1>5
    <2> QED
      BY <1>3, <2>1 DEF LoadOK
  <1>10. StartOK' /\ ReloadOK' /\ UnloadOK'
    BY <1>1, <1>3 DEF StartOK, ReloadOK, UnloadOK
  <1> QED
    BY <1>6, <1>7, <1>8, <1>9, <1>10 DEF SInv

\* The targets of a cascade are closed under dependents that are loaded.
LEMMA CascadeKeepsSInv ==
  ASSUME LoaderTyped, LoaderTyped', DependentsAreReal, SInv, Idle,
         NEW id \in Ids, NEW aim \in {"unload", "reload"}, Call(aim, {id}),
         search' = Search(aim, Affected(id) \cap DOMAIN plugins),
         DOMAIN available' = DOMAIN available, UNCHANGED <<plugins, dependents, agenda>>
  PROVE  SInv'
  <1> DEFINE targets == Affected(id) \cap DOMAIN plugins
             next == [d \in Ids |-> Dependents(d)]
  <1>1. /\ agenda' = <<>> /\ DOMAIN agenda' = {} /\ search' = Search(aim, targets)
        /\ request'.op = aim /\ request'.was = DOMAIN plugins
        /\ search'.aim = aim /\ search'.targets = targets
    BY DEF Idle, Call, Search
  <1>2. DOMAIN plugins \subseteq DOMAIN available /\ DOMAIN plugins \subseteq Ids
    BY DEF SInv, AgendaOK, LoaderTyped
  <1>3. \A x \in targets : Dependents(x) \subseteq targets
    <2>1. next \in Graphs
      BY DEF Graphs, Dependents, LoaderTyped
    <2>2. \A x \in Affected(id) : next[x] \subseteq Affected(id)
      BY <2>1, ClosureFacts DEF Affected
    <2>3. \A x : Dependents(x) \subseteq DOMAIN plugins
      BY DEF Dependents, DependentsAreReal
    <2> QED
      BY <1>2, <2>2, <2>3
  <1> HIDE DEF targets
  <1>4. SearchInv'
    <2>1. DependsOn' \in Graphs
      BY NextGraphTyped
    <2>2. Scope' = targets
      BY <1>1 DEF Scope
    <2>3. SearchOK(search', DependsOn', targets, DOMAIN plugins')
      BY <1>1, <2>1, FreshSearchOK
    <2> QED
      BY <1>1, <2>2, <2>3 DEF SearchInv, NotSearching
  <1>5. \A what, x : ~ Planned(what, x)'
    BY <1>1 DEF Planned
  <1>6. AgendaOK' /\ LoadsInOrder'
    BY <1>1, <1>2, <1>5 DEF AgendaOK, Sorted, LoadsInOrder
  <1>7. RequestOK'
    BY <1>1 DEF RequestOK
  <1>8. LoadOK' /\ StartOK'
    BY <1>1 DEF LoadOK, StartOK
  <1>9. ReloadOK'
    BY <1>1, <1>5 DEF ReloadOK
  <1>10. UnloadOK'
    <2>1. targets \subseteq DOMAIN plugins /\ \A x : Dependents(x)' = Dependents(x)
      BY DEF targets, Dependents
    <2> QED
      BY <1>1, <1>3, <2>1 DEF UnloadOK
  <1> QED
    BY <1>4, <1>6, <1>7, <1>8, <1>9, <1>10 DEF SInv

LEMMA SameCallKeepsSInv ==
  ASSUME SInv, UNCHANGED <<loader, request, search, agenda>>
  PROVE  SInv'
  <1>1. UNCHANGED <<available, plugins, dependents, sysPath, request, search, agenda>>
    BY DEF loader
  <1>2. /\ DependsOn' = DependsOn /\ Known' = Known
        /\ \A x : KnownDependencies(x)' = KnownDependencies(x)
        /\ \A x : Sound(x)' <=> Sound(x)
        /\ \A x : (\E d \in Needed(x) : OnCycle(d))' <=> \E d \in Needed(x) : OnCycle(d)
    BY <1>1, GraphStable DEF SInv, AgendaOK
  <1>3. \A what, x : Planned(what, x)' <=> Planned(what, x)
    BY <1>1 DEF Planned
  <1>4. Scope' = Scope /\ NotSearching' = NotSearching /\ Idle' = Idle
    BY <1>1, <1>2 DEF Scope, NotSearching, Idle
  <1>5. SearchInv'
    BY <1>1, <1>2, <1>4 DEF SInv, SearchInv
  <1>6. AgendaOK'
    BY <1>1, <1>3 DEF SInv, AgendaOK
  <1>7. RequestOK'
    BY <1>1, <1>3, <1>4 DEF SInv, RequestOK
  <1>8. LoadsInOrder'
    BY <1>1, <1>2 DEF SInv, LoadsInOrder
  <1>9. LoadOK' /\ StartOK' /\ ReloadOK'
    BY <1>1, <1>2, <1>3 DEF SInv, LoadOK, StartOK, ReloadOK
  <1>10. UnloadOK'
    <2>1. \A q : Excused(q)' <=> Excused(q)
      BY <1>1, <1>2 DEF Excused
    <2>2. \A d : Dependents(d)' = Dependents(d)
      BY <1>1 DEF Dependents
    <2> QED
      BY <1>1, <2>1, <2>2 DEF SInv, UnloadOK
  <1> QED
    BY <1>5, <1>6, <1>7, <1>8, <1>9, <1>10 DEF SInv

-----------------------------------------------------------------------------
(* The invariant and what follows from it                                    *)

LoaderInv == Typed /\ CallTyped /\ IInv /\ SInv

LEMMA EmptySInv == Empty => SInv
  <1> SUFFICES ASSUME Empty PROVE SInv
    OBVIOUS
  <1>1. /\ search = NoSearch /\ search.aim = "none" /\ agenda = <<>> /\ DOMAIN agenda = {}
        /\ request.op = "none" /\ DOMAIN plugins = {}
    BY DEF Empty, NoRequest, NoSearch, Search
  <1>2. SearchInv /\ RequestOK
    BY <1>1 DEF SearchInv, NotSearching, RequestOK, Idle
  <1>3. AgendaOK /\ LoadsInOrder
    BY <1>1 DEF AgendaOK, Sorted, Planned, LoadsInOrder
  <1>4. LoadOK /\ StartOK /\ ReloadOK /\ UnloadOK
    BY <1>1 DEF LoadOK, StartOK, ReloadOK, UnloadOK
  <1> QED
    BY <1>2, <1>3, <1>4 DEF SInv

LEMMA NextSInv == LoaderInv /\ Typed' /\ IInv' /\ [Next]_vars => SInv'
  <1> SUFFICES ASSUME LoaderInv, Typed', IInv', [Next]_vars PROVE SInv'
    OBVIOUS
  <1>0. /\ Typed /\ CallTyped /\ SInv /\ LoaderTyped /\ LoaderTyped'
        /\ DependentsAreReal /\ DependentsAreReal'
    BY DEF LoaderInv, IInv, Typed
  <1>1. CASE LoadPlugins
    BY <1>0, <1>1, LoadPluginsKeepsSInv
  <1>2. CASE RunLoad
    BY <1>0, <1>2, RunLoadKeepsSInv
  <1>3. CASE RunUnload
    BY <1>0, <1>3, RunUnloadKeepsSInv
  <1>4. CASE RunResolve
    BY <1>0, <1>4, RunResolveKeepsSInv
  <1>5. CASE VisitTarget \/ VisitDependency \/ FinishVisit
    BY <1>0, <1>5, VisitKeepsSInv
  <1>6. CASE EndSearch
    <2>1. search.aim \in {"load", "unload", "reload"}
      BY <1>0, <1>6 DEF EndSearch, NotSearching, CallTyped, Searches
    <2> QED
      BY <1>0, <1>6, <2>1, EndLoadKeepsSInv, EndUnloadKeepsSInv
  <1>7. ASSUME NEW p \in Paths, LoadPlugin(p) PROVE SInv'
    BY <1>0, <1>7, LoadPluginKeepsSInv
  <1>8. ASSUME NEW p \in Paths, EditFile(p) PROVE SInv'
    BY <1>0, <1>8, SameCallKeepsSInv DEF EditFile
  <1>9. ASSUME NEW id \in Ids, UnloadPlugin(id) PROVE SInv'
    <2>1. /\ Idle /\ Call("unload", {id}) /\ search' = Search("unload", Affected(id) \cap DOMAIN plugins)
          /\ DOMAIN available' = DOMAIN available /\ UNCHANGED <<plugins, dependents, agenda>>
      BY <1>9 DEF UnloadPlugin, Ready, loader
    <2> QED
      BY <1>0, <2>1, CascadeKeepsSInv
  <1>10. ASSUME NEW id \in Ids, ReloadPlugin(id) PROVE SInv'
    <2>1. /\ Idle /\ Call("reload", {id}) /\ search' = Search("reload", Affected(id) \cap DOMAIN plugins)
          /\ DOMAIN available' = DOMAIN available /\ UNCHANGED <<plugins, dependents, agenda>>
      BY <1>10 DEF ReloadPlugin, Ready, Refreshed
    <2> QED
      BY <1>0, <2>1, CascadeKeepsSInv
  <1>11. CASE UNCHANGED vars
    BY <1>0, <1>11, SameCallKeepsSInv DEF vars
  <1>12. CASE Aborts
    BY <1>0, <1>12, AbortKeepsSInv
  <1>13. CASE Restart
    <2>1. (Empty => SInv)'
      BY EmptySInv, PTL
    <2> QED
      BY <1>13, <2>1, StartsEmpty
  <1> QED
    BY <1>1, <1>2, <1>3, <1>4, <1>5, <1>6, <1>7, <1>8, <1>9, <1>10, <1>11, <1>12, <1>13
       DEF Next, Aborts

LEMMA LoaderInvariance == Spec => []LoaderInv
  <1>1. Init => LoaderInv
    BY InitTyped, StartsEmpty, EmptyCallTyped, EmptyIInv, EmptySInv DEF LoaderInv
  <1>2. LoaderInv /\ [Next]_vars => LoaderInv'
    <2> SUFFICES ASSUME LoaderInv, [Next]_vars PROVE LoaderInv'
      OBVIOUS
    <2>1. Typed' /\ IInv'
      BY NextTyped, NextIInv DEF LoaderInv
    <2>2. CallTyped'
      BY <2>1, NextCallTyped DEF LoaderInv
    <2>3. SInv'
      BY <2>1, NextSInv
    <2> QED
      BY <2>1, <2>2, <2>3 DEF LoaderInv
  <1> QED
    BY <1>1, <1>2, PTL DEF Spec

\* Of two plugins that one call still has to load the dependency comes first, for any
\* manifests, any order in which a search visits its targets, cycles included.
THEOREM LoadsStayInOrder == Spec => []LoadsInOrder
  <1>1. LoaderInv => LoadsInOrder
    BY DEF LoaderInv, SInv
  <1> QED
    BY <1>1, LoaderInvariance, PTL

\* When load_plugin is over, what it was asked for is loaded only if all that it needs
\* is known and no cycle is among it.
THEOREM LoadedTargetStaysSound == Spec => []LoadedTargetIsSound
  <1>1. LoaderInv => LoadedTargetIsSound
    BY DEF LoaderInv, SInv, LoadedTargetIsSound, LoadOK, Idle, Planned
  <1> QED
    BY <1>1, LoaderInvariance, PTL

\* When start-up is over, every sound plugin is loaded unless its own load failed.
THEOREM StartLoadsEverySound == Spec => []StartLoadsAllSound
  <1>1. LoaderInv => StartLoadsAllSound
    BY DEF LoaderInv, SInv, StartLoadsAllSound, SoundAreLoaded, StartOK, Idle, NotSearching, Planned
  <1> QED
    BY <1>1, LoaderInvariance, PTL

\* When a reload is over, every sound plugin that was loaded before is loaded again
\* unless its own load failed.
THEOREM ReloadRestoresEverySound == Spec => []ReloadRestores
  <1>1. LoaderInv => ReloadRestores
    BY DEF LoaderInv, SInv, ReloadRestores, ReloadOK, Idle, NotSearching, Planned
  <1> QED
    BY <1>1, LoaderInvariance, PTL

\* A cascade or a reload unloads a plugin only after all of its dependents, but those
\* whose manifests have changed since they were loaded or lead into a cycle.
THEOREM UnloadsStayInOrder == Spec => UnloadsInOrder
  <1>1. LoaderInv /\ [Next]_vars =>
          [RunUnload /\ request.op \in {"unload", "reload"} =>
             \A q \in Dependents(Head(agenda).id) :
                KnownDependencies(q) # plugins[q].deps \/ \E d \in Needed(q) : OnCycle(d)]_vars
    <2> SUFFICES ASSUME LoaderInv, RunUnload, request.op \in {"unload", "reload"},
                        NEW q \in Dependents(Head(agenda).id)
                 PROVE  KnownDependencies(q) # plugins[q].deps \/ \E d \in Needed(q) : OnCycle(d)
      OBVIOUS
    <2>1. agenda \in Seq(Tasks) /\ agenda # <<>> /\ agenda' = Tail(agenda) /\ Head(agenda).do = "unload"
      BY DEF RunUnload, LoaderInv, CallTyped
    <2>2. 1 \in DOMAIN agenda /\ agenda[1] = Head(agenda)
      BY <2>1, TailFacts
    <2>3. ~ \E j \in 1..1 - 1 : agenda[j] = [do |-> "unload", id |-> q]
      OBVIOUS
    <2>4. Excused(q)
      BY <2>1, <2>2, <2>3 DEF LoaderInv, SInv, UnloadOK
    <2> QED
      BY <2>4 DEF Excused
  <1> QED
    BY <1>1, LoaderInvariance, PTL DEF Spec, UnloadsInOrder
=============================================================================
