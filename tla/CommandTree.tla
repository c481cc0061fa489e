---------------------------- MODULE CommandTree ----------------------------
(* The console's commands (cli/command_core.py): a tree for each plugin, to   *)
(* which commands are added and from which they are removed by their          *)
(* definition, and which a line of input is looked up in.                     *)
(*                                                                            *)
(* This is the tree of one plugin; those of others are not reached from it.   *)
(* A tree is the list of its nodes in the order they were made, which is the  *)
(* order of the keys in each dictionary.  A definition, a node's path and an  *)
(* input are sequences of words; an argument is the word itself.              *)
EXTENDS Integers, Sequences, FiniteSets, SequencesExt

CONSTANTS
    Definitions,    \* the commands that plugins may add: sequences of segments
    Placeholders,   \* segments of the form <name>
    Words,          \* what the user may type
    Help,           \* "help", the word that stands in for no word
    Dict,           \* the value of an inner node
    MaxCalls,       \* bound on calls of add_command, remove_command, remove_sid
    MaxWords        \* bound on the words of an input

ASSUME WordsAssumption ==
    Help \in Words /\ Words \cap Placeholders = {}
ASSUME DefinitionsAssumption ==
    \A d \in Definitions : d \in Seq(Words \cup Placeholders) \ {<<>>}

VARIABLES
    tree,       \* commands[sid]: a sequence of records of path and value
    book,       \* what is registered: definition -> binding
    failed,     \* definitions whose registration raised
    calls       \* how many calls there were

vars == <<tree, book, failed, calls>>

-----------------------------------------------------------------------------
(* The tree                                                                   *)

Paths == {tree[i].path : i \in DOMAIN tree}
ValueAt(path) == (CHOOSE e \in ToSet(tree) : e.path = path).value
IsDict(path) == path = <<>> \/ (path \in Paths /\ ValueAt(path) = Dict)

\* The nodes on the way to a command.
Inner(d) == {SubSeq(d, 1, i) : i \in 1..Len(d) - 1}

\* add_command makes the nodes on the way that are missing.
WithInner(d) ==
    tree \o SelectSeq([i \in 1..Len(d) - 1 |-> [path |-> SubSeq(d, 1, i), value |-> Dict]],
                      LAMBDA e : e.path \notin Paths)

\* A command that is there already is replaced in its place; whatever was below is gone.
WithBinding(nodes, d, binding) ==
    LET kept == SelectSeq(nodes, LAMBDA e : ~ IsStrictPrefix(d, e.path))
        leaf == [path |-> d, value |-> binding]
    IN  IF d \in Paths
        THEN [i \in DOMAIN kept |-> IF kept[i].path = d THEN leaf ELSE kept[i]]
        ELSE Append(kept, leaf)

\* Mutant of Pruned: the node above a removed command goes, whatever else it has.
PrunedAlways(d) ==
    SelectSeq(tree, LAMBDA e : ~ IsPrefix(d, e.path) /\ e.path \notin Inner(d))

\* remove_command: the node with all below, then, upwards, dictionaries left empty.
Pruned(d) ==
    LET rest == SelectSeq(tree, LAMBDA e : ~ IsPrefix(d, e.path))
        Empty(path) == \A e \in ToSet(rest) : IsStrictPrefix(path, e.path) => e.path \in Inner(d)
    IN  SelectSeq(rest, LAMBDA e : ~ (e.path \in Inner(d) /\ Empty(e.path)))

-----------------------------------------------------------------------------
(* Looking up                                                                 *)

Nowhere == [path |-> <<>>, captured |-> <<>>, lost |-> TRUE]

\* _match_placeholder: the first key of that form.
PlaceholdersBelow(path) ==
    SelectSeq(tree, LAMBDA e : \E s \in Placeholders : e.path = Append(path, s))

\* One word of _resolve_command_path: a key of this name, else a placeholder,
\* which captures the word; from a command on, everything is captured.
Follow(at, word) ==
    IF at.lost THEN Nowhere
    ELSE IF ~ IsDict(at.path) THEN [at EXCEPT !.captured = Append(@, word)]
    ELSE IF Append(at.path, word) \in Paths THEN [at EXCEPT !.path = Append(@, word)]
    ELSE IF PlaceholdersBelow(at.path) = <<>> THEN Nowhere
    ELSE [at EXCEPT !.path = Head(PlaceholdersBelow(at.path)).path,
                    !.captured = Append(@, word)]

Start == [path |-> <<>>, captured |-> <<>>, lost |-> FALSE]

Resolved(words) == FoldLeft(Follow, Start, words)

\* The words that a definition's placeholders stand for, and how many those are.
Slots(d) == {i \in DOMAIN d : d[i] \in Placeholders}

\* handle_input and build_arguments: the calls an input makes, none or one.  A
\* command whose arguments are single words refuses more of them.
Calls(input) ==
    LET words == IF input = <<>> THEN <<Help>> ELSE input
        end == Resolved(words)
    IN  IF end.lost \/ IsDict(end.path) THEN {}
        ELSE LET binding == ValueAt(end.path)
             IN  IF binding.strict /\ Slots(end.path) # {}
                    /\ Len(end.captured) > Cardinality(Slots(end.path))
                 THEN {}
                 ELSE {[binding |-> binding, args |-> end.captured]}

-----------------------------------------------------------------------------
Init == tree = <<>> /\ book = <<>> /\ failed = {} /\ calls = 0

Call == calls < MaxCalls /\ calls' = calls + 1

Without(d) == [c \in {x \in DOMAIN book : ~ IsPrefix(d, x)} |-> book[c]]

\* A command where a shorter one is bound: the binding is no dictionary.
AddBelowCommand(d) ==
    /\ Call
    /\ \E p \in Inner(d) : p \in Paths /\ ~ IsDict(p)
    /\ UNCHANGED <<tree, book, failed>>

\* Argument specifications that do not fit the placeholders raise after the
\* nodes on the way were made.
AddMisfit(d) ==
    /\ Call
    /\ \A p \in Inner(d) : p \in Paths => IsDict(p)
    /\ tree' = WithInner(d)
    /\ failed' = failed \cup {d}
    /\ UNCHANGED book

AddCommand(d, strict) ==
    /\ Call
    /\ \A p \in Inner(d) : p \in Paths => IsDict(p)
    /\ LET binding == [action |-> calls', strict |-> strict]
       IN  /\ tree' = WithBinding(WithInner(d), d, binding)
           /\ book' = [c \in DOMAIN Without(d) \cup {d} |-> IF c = d THEN binding ELSE book[c]]
    /\ UNCHANGED failed

\* Nothing happens when the way there is not one of dictionaries.
RemoveCommand(d) ==
    /\ Call
    /\ IF \A p \in Inner(d) : IsDict(p)
       THEN tree' = Pruned(d) /\ book' = Without(d)
       ELSE UNCHANGED <<tree, book>>
    /\ UNCHANGED failed

\* The plugin loader's clean-up after an unloaded plugin.
RemoveSid ==
    /\ Call
    /\ tree' = <<>> /\ book' = <<>> /\ failed' = {}

Next ==
    \/ \E d \in Definitions :
        \/ AddBelowCommand(d) \/ AddMisfit(d) \/ RemoveCommand(d)
        \/ \E strict \in BOOLEAN : AddCommand(d, strict)
    \/ RemoveSid

Spec == Init /\ [][Next]_vars

-----------------------------------------------------------------------------
(* Properties                                                                 *)

Inputs == UNION {[1..n -> Words] : n \in 0..MaxWords}

Params(input) == IF input = <<>> THEN <<Help>> ELSE input

Fits(segment, word) == segment = word \/ segment \in Placeholders

Matches(d, words) ==
    Len(d) <= Len(words) /\ \A i \in DOMAIN d : Fits(d[i], words[i])

Captured(d, words) ==
    LET taken == SelectSeq([i \in DOMAIN words |-> i],
                           LAMBDA i : i \in Slots(d) \/ i > Len(d))
    IN  [j \in DOMAIN taken |-> words[taken[j]]]

\* Another command, or one whose registration failed, takes the input away: the two
\* part where this one has a placeholder and the other has the word itself or
\* another placeholder.
Hidden(d, words) ==
    \E c \in DOMAIN book \cup failed : \E i \in Slots(d) \cap DOMAIN c :
        /\ SubSeq(c, 1, i - 1) = SubSeq(d, 1, i - 1)
        /\ c[i] # d[i] /\ Fits(c[i], words[i])

\* The tree holds the registered commands and nothing but the way to them and
\* to those whose registration failed.
TreeIsMap ==
    /\ {<<e.path, e.value>> : e \in {x \in ToSet(tree) : x.value # Dict}}
         = {<<d, book[d]>> : d \in DOMAIN book}
    /\ Cardinality(Paths) = Len(tree)
    /\ \A path \in Paths :
        IsDict(path) => \E d \in DOMAIN book \cup failed : IsStrictPrefix(path, d)

\* What is called is a registered command that matches the input word by word,
\* with the words its placeholders stand for and those beyond its end.
CallsOnlyMatching ==
    \A input \in Inputs : \A call \in Calls(input) :
        \E d \in DOMAIN book :
            /\ Matches(d, Params(input)) /\ call.binding = book[d]
            /\ call.args = Captured(d, Params(input))

\* An input that matches a registered command calls it, unless another one
\* hides it, or the command does not take that many words.
FindsTheCommand ==
    \A input \in Inputs : \A d \in DOMAIN book :
        LET words == Params(input)
        IN  Matches(d, words) /\ ~ Hidden(d, words) =>
            \/ \E call \in Calls(input) : call.binding = book[d]
            \/ book[d].strict /\ Len(words) > Len(d)

\* Whatever was added before and removed, overwritten or refused: the console
\* calls exactly the commands that are registered (add_command, remove_command,
\* _resolve_command_path).
CommandsAreFound == TreeIsMap /\ CallsOnlyMatching /\ FindsTheCommand
=============================================================================
