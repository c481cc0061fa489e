---------------------------- MODULE PluginLoader ----------------------------
(* PluginLoader (plugin/loader.py): the plugins of a stand-alone core, their *)
(* dependencies, and loading, unloading and reloading them.                  *)
(*                                                                           *)
(* One call runs at a time (start-up, then the console thread).  A call      *)
(* searches the dependencies, one visit a step, and the order that it finds  *)
(* sets the agenda: the single loads and unloads still to do, one a step,    *)
(* for each runs code of a plugin and may fail.  The user edits the plugin   *)
(* directory at any time, and may leave a file there that cannot be read at  *)
(* all: the exception ends the call, and at start-up or in a reload the      *)
(* program with it.  A version constraint is a set of clauses, a clause the  *)
(* set of versions it admits; the empty set is no constraint.                *)
EXTENDS Integers, Sequences, FiniteSets, SequencesExt

CONSTANTS
    Ids,        \* plugin ids, of plugins that exist and of dependencies
    Paths,      \* files and directories below plugins/, numbered in sorted order
    Versions,
    Manifests,  \* path -> the manifests that may be found there
    NoFile,     \* nothing there, or nothing that is a plugin: a PluginLoadError
    Corrupt,    \* a file whose reading raises another exception
    Outcomes,   \* how importing a plugin and its on_load may end: TRUE, FALSE
    MaxEdits    \* bound on the user's changes below plugins/

\* A directory is finite: of some of its files one is the last.
ASSUME PathsAssumption ==
    /\ Paths \subseteq Nat
    /\ \A S \in (SUBSET Paths) \ {{}} : \E last \in S : \A p \in S : last >= p

VARIABLES
    disk,       \* path -> manifest, NoFile or Corrupt
    available,  \* _available, _dependency_graph and _dependency_requirements
    plugins,    \* _plugins
    dependents, \* _active_dependents
    sysPath,    \* _sys_path_entries, 0 where there is no entry
    request,    \* the call that runs or ran last: its targets, the plugins loaded
                \* before it, and those it failed to load
    search,     \* the depth-first search that call is in
    agenda,     \* what that call still has to do
    edits

loader == <<available, plugins, dependents, sysPath>>
vars == <<disk, loader, request, search, agenda, edits>>

-----------------------------------------------------------------------------
(* Manifests                                                                 *)

Clauses == SUBSET Versions
Requirements == [dep : Ids, clauses : SUBSET Clauses]

\* A manifest that can be read has an id, a version and a list of requirements.
ASSUME ManifestsAssumption ==
    \A p \in Paths :
        Manifests[p] \subseteq [id : Ids, version : Versions, requires : Seq(Requirements)]

DependencyLists == {ds \in Seq(Ids) : IsInjective(ds)}

Candidates == [path : Paths, version : Versions, deps : DependencyLists,
               specs : UNION {[S -> SUBSET Clauses] : S \in SUBSET Ids}]
Records == [path : Paths, version : Versions, deps : DependencyLists]

\* Mutant of DependencyIds: a dependency that is named twice is listed twice.
DependencyIdsWithRepeats(id, requires) ==
    LET ids == [i \in DOMAIN requires |-> requires[i].dep]
    IN  SelectSeq(ids, LAMBDA d : d # id)

\* The dependencies in the order in which they are first named, without the plugin.
DependencyIds(id, requires) ==
    LET first == {i \in DOMAIN requires :
                     requires[i].dep \notin {id} \cup {requires[j].dep : j \in 1..i - 1}}
        place(n) == CHOOSE i \in first : Cardinality({j \in first : j < i}) = n - 1
    IN  [n \in 1..Cardinality(first) |-> requires[place(n)].dep]

\* The clauses of all entries that name a dependency count together.
Specifiers(id, requires) ==
    [d \in {r.dep : r \in ToSet(requires)} \ {id} |->
        UNION {r.clauses : r \in {s \in ToSet(requires) : s.dep = d}}]

\* _register_candidate: what is remembered of the manifest at a path.
Candidate(id, p) ==
    [path |-> p, version |-> disk[p].version,
     deps |-> DependencyIds(id, disk[p].requires),
     specs |-> Specifiers(id, disk[p].requires)]

Readable == {p \in Paths : disk[p] \notin {NoFile, Corrupt}}
Damaged == {p \in Paths : disk[p] = Corrupt}

\* The files are read in order, and the first damaged one is the last that is read.
Scanned == {p \in Readable : \A q \in Damaged : p < q}

\* _discover_plugins: of two files with one id the later one counts; a plugin
\* whose file is gone stays available.
Discovered ==
    LET found == {disk[p].id : p \in Scanned}
    IN  [id \in DOMAIN available \cup found |->
           IF id \in found
           THEN Candidate(id, Max({p \in Scanned : disk[p].id = id}))
           ELSE available[id]]

\* _refresh_manifest: a file is read again and kept under the old id.
Refreshed(ids) ==
    [id \in DOMAIN available |->
        IF id \in ids /\ available[id].path \in Readable
        THEN Candidate(id, available[id].path) ELSE available[id]]

-----------------------------------------------------------------------------
(* Orders                                                                    *)

KnownDependencies(id) ==
    IF id \in DOMAIN available THEN available[id].deps
    ELSE IF id \in DOMAIN plugins THEN plugins[id].deps ELSE <<>>

Known == DOMAIN available \cup DOMAIN plugins

\* A search calls visit (dfs) on each target, and visit calls itself on each
\* dependency.  The stack holds these calls, the innermost last, with what is left
\* of their loops and their success.  A marker of 1 is a place on the stack, a
\* marker of 2 membership of done.
Frames == [id : Ids, left : Seq(Ids), ok : BOOLEAN]
Searches ==
    [aim : {"none", "load", "unload", "reload"}, targets : SUBSET Ids, roots : SUBSET Ids,
     done : SUBSET Ids, stack : Seq(Frames), order : Seq(Ids)]

\* The loop over the targets has all of them left: a set, in any order.
Search(aim, targets) ==
    [aim |-> aim, targets |-> targets, roots |-> targets,
     done |-> {}, stack |-> <<>>, order |-> <<>>]

NoSearch == Search("none", {})

Open(s) == {s.stack[k].id : k \in DOMAIN s.stack}

\* What is searched to load: all that exists; to unload: the targets alone.
InScope(s, id) == IF s.aim = "load" THEN id \in Known ELSE id \in s.targets

\* target_set: what is not loaded yet joins the targets when it is visited.
Wanted(s, id) == id \in s.targets \/ id \notin DOMAIN plugins

\* The call of visit that waits for an answer succeeds only if all of them are good.
Answer(s, answer) ==
    IF s.stack = <<>> THEN s ELSE [s EXCEPT !.stack[Len(s.stack)].ok = @ /\ answer]

\* Mutant of Revisit: a plugin that is still open counts as loadable.
RevisitOpen(s, id) == s

\* Mutant of Revisit: a plugin that was visited before counts as not loadable.
RevisitFails(s, id) == Answer(s, FALSE)

\* The answer of a second visit: a cycle if the first one is still open, and
\* otherwise success, however the first one ended.
Revisit(s, id) == Answer(s, id \in s.done)

Enter(s, id, dependencies) ==
    [s EXCEPT !.stack = Append(@, [id |-> id, left |-> dependencies, ok |-> TRUE])]

Visit(s, id) ==
    IF id \in s.done \cup Open(s) THEN Revisit(s, id)
    ELSE Enter(s, id, KnownDependencies(id))

\* The loop of the innermost call goes on.
Continue(s) == [s EXCEPT !.stack[Len(s.stack)].left = Tail(@)]

\* Mutant of Finish: a plugin comes before what it depends on.
FinishInFront(s) ==
    LET call == Last(s.stack)
    IN  Answer([s EXCEPT !.done = @ \cup {call.id}, !.stack = Front(@),
                         !.order = IF call.ok /\ Wanted(s, call.id)
                                   THEN <<call.id>> \o @ ELSE @], call.ok)

Finish(s) ==
    LET call == Last(s.stack)
    IN  Answer([s EXCEPT !.done = @ \cup {call.id}, !.stack = Front(@),
                         !.order = IF call.ok /\ Wanted(s, call.id)
                                   THEN Append(@, call.id) ELSE @], call.ok)

Dependents(id) == IF id \in DOMAIN dependents THEN dependents[id] ELSE {}

\* The least set with the plugin and, for each member, its successors.
Closure(id, next) ==
    {q \in Ids : \A S \in SUBSET Ids :
        id \in S /\ (\A x \in S : next[x] \subseteq S) => q \in S}

\* _collect_dependents, and the plugin itself.
Affected(id) == Closure(id, [d \in Ids |-> Dependents(d)])

-----------------------------------------------------------------------------
(* One load and one unload                                                   *)

EnsureSysPath(entries, p) == [entries EXCEPT ![p] = @ + 1]

\* Mutant of ReleaseSysPath: the last user's entry is kept.
ReleaseSysPathButOne(entries, p) == [entries EXCEPT ![p] = IF @ <= 1 THEN @ ELSE @ - 1]

ReleaseSysPath(entries, p) == [entries EXCEPT ![p] = IF @ <= 1 THEN 0 ELSE @ - 1]

\* _validate_dependency_versions: only a constraint is checked, not presence.
VersionsFit(specs) ==
    \A d \in DOMAIN specs : specs[d] # {} =>
        /\ d \in DOMAIN plugins
        /\ \A clause \in specs[d] : plugins[d].version \in clause

WithDependent(id, deps) ==
    [d \in DOMAIN dependents \cup ToSet(deps) \cup {id} |->
        Dependents(d) \cup (IF d \in ToSet(deps) THEN {id} ELSE {})]

\* Mutant of WithoutDependent: the plugin stays in the sets of its dependencies.
WithoutOwnEntry(id, deps) == [d \in DOMAIN dependents \ {id} |-> dependents[d]]

\* The plugin leaves the sets of its dependencies, and its own set is dropped
\* whoever is in it.
WithoutDependent(id, deps) ==
    LET left == {d \in DOMAIN dependents : d \in ToSet(deps) /\ dependents[d] \subseteq {id}}
    IN  [d \in DOMAIN dependents \ (left \cup {id}) |->
           IF d \in ToSet(deps) THEN dependents[d] \ {id} ELSE dependents[d]]

\* _perform_load after its path is on sys.path.
Import(id, c, ok) ==
    LET entries == EnsureSysPath(sysPath, c.path)
    IN  IF ok
        THEN /\ plugins' = [q \in DOMAIN plugins \cup {id} |->
                              IF q = id THEN [path |-> c.path, version |-> c.version,
                                              deps |-> c.deps]
                              ELSE plugins[q]]
             /\ dependents' = WithDependent(id, c.deps)
             /\ sysPath' = entries
        ELSE /\ sysPath' = ReleaseSysPath(entries, c.path)
             /\ UNCHANGED <<plugins, dependents>>

\* One round of _load_sequence.  A failure is logged and the sequence goes on.
LoadSingle(id) ==
    \/ /\ id \in DOMAIN available \ DOMAIN plugins
       /\ VersionsFit(available[id].specs)
       /\ \E ok \in Outcomes : Import(id, available[id], ok)
    \/ /\ id \in DOMAIN available \ DOMAIN plugins => ~ VersionsFit(available[id].specs)
       /\ UNCHANGED <<plugins, dependents, sysPath>>

\* _unload_single.  An on_unload that raises changes nothing.
UnloadSingle(id) ==
    IF id \in DOMAIN plugins
    THEN /\ plugins' = [q \in DOMAIN plugins \ {id} |-> plugins[q]]
         /\ sysPath' = ReleaseSysPath(sysPath, plugins[id].path)
         /\ dependents' = WithoutDependent(id, plugins[id].deps)
    ELSE UNCHANGED <<plugins, dependents, sysPath>>

-----------------------------------------------------------------------------
(* The agenda                                                                *)

Tasks == [do : {"load", "unload", "resolve"}, id : Ids]
Over == {"startAborted", "reloadAborted"}
Requests == [op : {"none", "start", "load", "loadAborted", "unload", "reload"} \cup Over,
             ids : SUBSET Ids, was : SUBSET Ids, failed : SUBSET Ids]

Steps(what, ids) == [i \in DOMAIN ids |-> [do |-> what, id |-> ids[i]]]

NotSearching == search.aim = "none"

Idle == agenda = <<>> /\ NotSearching

\* The console waits for the next command.
Ready == Idle /\ request.op \notin {"none"} \cup Over

Call(op, ids) ==
    request' = [op |-> op, ids |-> ids, was |-> DOMAIN plugins, failed |-> {}]

\* Mutant of UnloadAgenda: in loading order.
UnloadAgendaForward(order) == Steps("unload", order)

UnloadAgenda(order) == Steps("unload", Reverse(order))

\* Mutant of LoadAgenda: one plugin too few.
LoadAgendaButLast(order) == Steps("resolve", SubSeq(order, 1, Len(order) - 1))

LoadAgenda(order) == Steps("resolve", order)

\* What the order is for: _load_sequence, unload, or reload.
Agenda(aim, order) ==
    CASE aim = "load" -> Steps("load", order)
      [] aim = "unload" -> UnloadAgenda(order)
      [] aim = "reload" -> UnloadAgenda(order) \o LoadAgenda(order)

RunLoad ==
    /\ NotSearching /\ agenda # <<>> /\ Head(agenda).do = "load"
    /\ LoadSingle(Head(agenda).id)
    /\ request' = [request EXCEPT !.failed = @ \cup ({Head(agenda).id} \ DOMAIN plugins')]
    /\ agenda' = Tail(agenda)
    /\ UNCHANGED <<disk, available, search, edits>>

RunUnload ==
    /\ NotSearching /\ agenda # <<>> /\ Head(agenda).do = "unload"
    /\ UnloadSingle(Head(agenda).id)
    /\ agenda' = Tail(agenda)
    /\ UNCHANGED <<disk, available, request, search, edits>>

\* _load_with_dependencies: the sequence is searched when its turn comes.
RunResolve ==
    /\ NotSearching /\ agenda # <<>> /\ Head(agenda).do = "resolve"
    /\ search' = Search("load", {Head(agenda).id})
    /\ agenda' = Tail(agenda)
    /\ UNCHANGED <<disk, loader, request, edits>>

-----------------------------------------------------------------------------
(* The steps of a search                                                     *)

VisitTarget ==
    /\ ~ NotSearching /\ search.stack = <<>>
    /\ \E id \in search.roots : search' = Visit([search EXCEPT !.roots = @ \ {id}], id)
    /\ UNCHANGED <<disk, loader, request, agenda, edits>>

\* A dependency out of scope: missing for a load, of no interest for an unload.
VisitDependency ==
    /\ search.stack # <<>> /\ Last(search.stack).left # <<>>
    /\ LET dep == Head(Last(search.stack).left)
           s == Continue(search)
       IN  search' = IF InScope(s, dep) THEN Visit(s, dep) ELSE Answer(s, s.aim # "load")
    /\ UNCHANGED <<disk, loader, request, agenda, edits>>

FinishVisit ==
    /\ search.stack # <<>> /\ Last(search.stack).left = <<>>
    /\ search' = Finish(search)
    /\ UNCHANGED <<disk, loader, request, agenda, edits>>

EndSearch ==
    /\ ~ NotSearching /\ search.stack = <<>> /\ search.roots = {}
    /\ agenda' = Agenda(search.aim, search.order) \o agenda
    /\ search' = NoSearch
    /\ UNCHANGED <<disk, loader, request, edits>>

-----------------------------------------------------------------------------
(* The calls                                                                 *)

\* load_plugins, once at start-up.
LoadPlugins ==
    /\ request.op = "none" /\ Damaged = {}
    /\ available' = Discovered
    /\ Call("start", DOMAIN available')
    /\ search' = Search("load", DOMAIN available')
    /\ UNCHANGED <<disk, plugins, dependents, sysPath, agenda, edits>>

\* Nothing catches the exception of a damaged file: no plugin is loaded, and the
\* program ends.
StartAborts ==
    /\ request.op = "none" /\ Damaged # {}
    /\ available' = Discovered
    /\ Call("startAborted", DOMAIN available')
    /\ UNCHANGED <<disk, plugins, dependents, sysPath, search, agenda, edits>>

\* load_plugin: a plugin that is loaded is unloaded first, on its own.
LoadPlugin(p) ==
    /\ Ready /\ p \in Readable /\ Damaged = {}
    /\ LET id == disk[p].id
       IN  /\ available' = [Discovered EXCEPT ![id] = Candidate(id, p)]
           /\ Call("load", {id})
           /\ agenda' = Steps("unload", IF id \in DOMAIN plugins THEN <<id>> ELSE <<>>)
                          \o Steps("resolve", <<id>>)
    /\ UNCHANGED <<disk, plugins, dependents, sysPath, search, edits>>

\* With a damaged file in the directory load_plugin logs the exception and does no
\* more, whichever file it was asked for.  If that is the damaged one, it has not
\* even scanned the directory: left out.
LoadPluginAborts(p) ==
    /\ Ready /\ p \in Readable /\ Damaged # {}
    /\ available' = Discovered
    /\ Call("loadAborted", {disk[p].id})
    /\ UNCHANGED <<disk, plugins, dependents, sysPath, search, agenda, edits>>

\* unload, with its default cascade.
UnloadPlugin(id) ==
    /\ Ready
    /\ Call("unload", {id})
    /\ search' = Search("unload", Affected(id) \cap DOMAIN plugins)
    /\ UNCHANGED <<disk, loader, agenda, edits>>

\* The affected plugins whose file is damaged now.
Broken(id) == {q \in Affected(id) \cap DOMAIN available : available[q].path \in Damaged}

\* reload.  What an unknown id leads to is left out: a warning.
ReloadPlugin(id) ==
    /\ Ready /\ id \in Known /\ Broken(id) = {}
    /\ Call("reload", {id})
    /\ available' = Refreshed(Affected(id))
    /\ search' = Search("reload", Affected(id) \cap DOMAIN plugins)
    /\ UNCHANGED <<disk, plugins, dependents, sysPath, agenda, edits>>

\* The set of the affected is read in any order, up to a damaged file.  The exception
\* ends the console thread and, before anything is unloaded, the program.
ReloadAborts(id) ==
    /\ Ready /\ id \in Known /\ Broken(id) # {}
    /\ \E ids \in SUBSET (Affected(id) \ Broken(id)) : available' = Refreshed(ids)
    /\ Call("reloadAborted", {id})
    /\ UNCHANGED <<disk, plugins, dependents, sysPath, search, agenda, edits>>

NoRequest == [op |-> "none", ids |-> {}, was |-> {}, failed |-> {}]

\* The program that has ended is started again.
Restart ==
    /\ request.op \in Over
    /\ available' = <<>> /\ plugins' = <<>> /\ dependents' = <<>>
    /\ sysPath' = [p \in Paths |-> 0]
    /\ request' = NoRequest /\ search' = NoSearch /\ agenda' = <<>>
    /\ UNCHANGED <<disk, edits>>

Contents(p) == Manifests[p] \cup {NoFile, Corrupt}

\* The user writes, replaces, damages or removes a plugin.
EditFile(p) ==
    /\ edits < MaxEdits
    /\ edits' = edits + 1
    /\ \E m \in Contents(p) \ {disk[p]} : disk' = [disk EXCEPT ![p] = m]
    /\ UNCHANGED <<loader, request, search, agenda>>

Init ==
    /\ disk \in {d \in [Paths -> UNION {Contents(p) : p \in Paths}] :
                   \A p \in Paths : d[p] \in Contents(p)}
    /\ available = <<>> /\ plugins = <<>> /\ dependents = <<>>
    /\ sysPath = [p \in Paths |-> 0]
    /\ request = NoRequest
    /\ search = NoSearch
    /\ agenda = <<>>
    /\ edits = 0

Next ==
    \/ LoadPlugins \/ StartAborts \/ Restart
    \/ RunLoad \/ RunUnload \/ RunResolve
    \/ VisitTarget \/ VisitDependency \/ FinishVisit \/ EndSearch
    \/ \E p \in Paths : LoadPlugin(p) \/ LoadPluginAborts(p) \/ EditFile(p)
    \/ \E id \in Ids : UnloadPlugin(id) \/ ReloadPlugin(id) \/ ReloadAborts(id)

Spec == Init /\ [][Next]_vars

-----------------------------------------------------------------------------
(* Properties                                                                *)

LoaderTyped ==
    /\ DOMAIN available \subseteq Ids /\ DOMAIN plugins \subseteq Ids
    /\ \A id \in DOMAIN available :
          available[id] \in Candidates /\ id \notin ToSet(available[id].deps)
    /\ \A id \in DOMAIN plugins :
          plugins[id] \in Records /\ id \notin ToSet(plugins[id].deps)
    /\ DOMAIN dependents \subseteq Ids
    /\ \A id \in DOMAIN dependents : dependents[id] \subseteq Ids
    /\ sysPath \in [Paths -> Nat]

\* Types.  Registered dependencies name no plugin twice and not the plugin itself.
TypeOK ==
    /\ LoaderTyped
    /\ request \in Requests /\ search \in Searches /\ agenda \in Seq(Tasks)

\* A cascade only ever reaches plugins that are loaded and do depend on the
\* plugin: _active_dependents has no stale member, through failed loads, manifests
\* that changed under a loaded plugin and plugins that moved to another file.
DependentsAreReal ==
    \A d \in DOMAIN dependents : \A q \in dependents[d] :
        q \in DOMAIN plugins /\ d \in ToSet(plugins[q].deps)

\* sys.path keeps the entry of a path as long as a plugin loaded from it is
\* loaded, and no longer: no failed or repeated load leaks one.
PathsCounted ==
    \A p \in Paths :
        sysPath[p] = Cardinality({q \in DOMAIN plugins : plugins[q].path = p})

DependsOn == [id \in Ids |-> ToSet(KnownDependencies(id))]

\* The plugin and everything it needs, directly or not.
Needed(id) == Closure(id, DependsOn)

OnCycle(id) == \E d \in DependsOn[id] : id \in Needed(d)

\* All of it is there and free of cycles.
Sound(id) == \A q \in Needed(id) : q \in Known /\ ~ OnCycle(q)

\* A plugin that load_plugin was asked for is loaded at the end only if all it
\* needs, directly or not, exists and no cycle is among it.
LoadedTargetIsSound ==
    Idle /\ request.op = "load" =>
        \A id \in request.ids \cap DOMAIN plugins : Sound(id)

\* Of two plugins that one call still has to load, a dependency comes first,
\* whatever the order in which the graph was searched, cycles included.
LoadsInOrder ==
    \A i, j \in DOMAIN agenda :
        i < j /\ agenda[i].do = "load" /\ agenda[j].do = "load"
        => agenda[j].id \notin DependsOn[agenda[i].id]

SoundAreLoaded ==
    \A id \in DOMAIN available :
        Sound(id) /\ id \notin request.failed => id \in DOMAIN plugins

\* A start-up that no damaged file aborts tries to load every sound plugin, whatever
\* cycles, missing dependencies and files that are no plugins lie beside it: in the
\* end it is loaded unless its own load failed.
StartLoadsAllSound == Idle /\ request.op = "start" => SoundAreLoaded

\* Reloading brings back every sound plugin that was loaded before, the dependents it
\* took down included, unless its own load fails, and also when manifests have
\* changed since they were loaded.
ReloadRestores ==
    Idle /\ request.op = "reload" =>
        \A id \in request.was :
            Sound(id) /\ id \notin request.failed => id \in DOMAIN plugins

\* What the documentation says of unload_plugin: with a plugin it unloads those that
\* depend on it.  The cascade follows the record of dependents, which load_plugin
\* drops when it takes down a plugin that is loaded already.
UnloadCascades ==
    Idle /\ request.op = "unload" =>
        \A id \in request.ids \cap request.was : \A q \in DOMAIN plugins :
            id \notin ToSet(plugins[q].deps)

\* A plugin that a cascade or a reload unloads has no registered dependent left but
\* those whose manifests have changed since they were loaded or lead into a cycle.
UnloadsInOrder ==
    [][RunUnload /\ request.op \in {"unload", "reload"} =>
         \A q \in Dependents(Head(agenda).id) :
             KnownDependencies(q) # plugins[q].deps \/ \E d \in Needed(q) : OnCycle(d)]_vars
=============================================================================
