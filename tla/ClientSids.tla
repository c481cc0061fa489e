----------------------------- MODULE ClientSids -----------------------------
(* How a client knows the highest sid: its history and two counters beside it *)
(* (ClientDataPacket in websockets/data_packet.py), with the debug commands   *)
(* that change them.  The history has a bucket for each sender; only that of  *)
(* the server, which own packets share, is ever read, and of its entries only *)
(* sid and direction.                                                         *)
(*                                                                            *)
(* AccountLink keeps one number, known, instead; KnownCounts is why it may.   *)
(*                                                                            *)
(* The event loop's thread records packets while the CLI's thread runs a      *)
(* command, and no lock is taken.  A command is a program of statements; one  *)
(* statement, with what it tests or computes, is a step, and packets may be   *)
(* recorded between any two.  Recording a packet is one step.                 *)
EXTENDS Integers, Sequences, FiniteSets, SequencesExt, FiniteSetsExt

CONSTANTS
    Server,     \* DEFAULT_TEMP[0]: owner of the bucket, and of own packets
    Others,     \* accounts whose packets the server relays
    MaxSid,     \* bound on sids
    MaxRecent   \* entries of _recent_packets (100 in the code)

ASSUME OwnersAssumption == Server \notin Others
ASSUME BoundsAssumption == MaxSid \in Nat /\ MaxRecent \in Nat \ {0}

Owners == {Server} \cup Others

VARIABLES
    bucket,     \* _history[DEFAULT_TEMP[0]]: sid -> direction
    recent,     \* _recent_packets
    lastSent,   \* _last_sent_sid
    lastReceived,   \* _last_received_sid
    command, at,    \* what the CLI's thread runs, and its next statement
    value,      \* the sid that the command stores
    removed, rest,  \* removed and new_bucket of delete_recent_sids
    since       \* history variable: sids recorded since new_bucket was stored

counters == <<lastSent, lastReceived>>
locals == <<command, at, value, removed, rest>>
vars == <<bucket, recent, counters, locals, since>>

-----------------------------------------------------------------------------
(* The bucket                                                                 *)

Top(book) == Max({0} \cup DOMAIN book)

Upsert(book, sid, direction) ==
    [s \in DOMAIN book \cup {sid} |-> IF s = sid THEN direction ELSE book[s]]

\* _ensure_sid_continuity: placeholders, as if sent, between the bucket's highest sid and
\* this one.  A received packet is in its bucket before this is called, so that
\* the gaps below it stay.
Continuous(book, sid) ==
    [s \in DOMAIN book \cup (Top(book) + 1)..(sid - 1) |->
        IF s \in DOMAIN book THEN book[s] ELSE "sent"]

\* Mutant of HighestKnownSid: what other accounts sent is left out.
HighestKnownOfServer == Max({Top(bucket), lastSent})

\* _highest_known_sid, and so the sid of a PING.
HighestKnownSid == Max({Top(bucket), lastReceived, lastSent})

SidsOf(book, direction) == {s \in DOMAIN book : book[s] = direction}

\* Mutant of Recorded: the cache is never cut.
RecordedAll(owner, sid) == Append(recent, [owner |-> owner, sid |-> sid])

Recorded(owner, sid) ==
    LET all == Append(recent, [owner |-> owner, sid |-> sid])
    IN  SubSeq(all, Max({1, Len(all) - MaxRecent + 1}), Len(all))

-----------------------------------------------------------------------------
Init ==
    /\ bucket = <<>> /\ recent = <<>>
    /\ lastSent = 0 /\ lastReceived = 0
    /\ command = "none" /\ at = 0 /\ value = 0
    /\ removed = {} /\ rest = <<>> /\ since = {}

-----------------------------------------------------------------------------
(* Packets                                                                    *)

\* What the deletion under way, once its bucket is stored, finds recorded in it.
Noted(sid) == IF command = "delete" /\ at > 1 THEN since \cup {sid} ELSE since

\* get_data_packet for any packet but PING.
Send ==
    /\ HighestKnownSid < MaxSid
    /\ LET sid == HighestKnownSid + 1
       IN  /\ bucket' = Upsert(Continuous(bucket, sid), sid, "sent")
           /\ lastSent' = Max({lastSent, sid})
           /\ recent' = Recorded(Server, sid)
           /\ since' = Noted(sid)
    /\ UNCHANGED <<lastReceived, locals>>

\* parse_msg with _record_recent, for any packet but PONG.
Receive(owner, sid) ==
    /\ bucket' = IF owner = Server THEN Upsert(bucket, sid, "received") ELSE bucket
    /\ lastReceived' = Max({lastReceived, sid})
    /\ recent' = Recorded(owner, sid)
    /\ since' = Noted(sid)
    /\ UNCHANGED <<lastSent, locals>>

\* Of PONG only the history learns.
ReceivePong(sid) ==
    /\ bucket' = Upsert(bucket, sid, "received")
    /\ since' = Noted(sid)
    /\ UNCHANGED <<recent, counters, locals>>

-----------------------------------------------------------------------------
(* Debug commands                                                             *)

\* The statements of each: set_sid_state with next_sid positive, with next_sid 0,
\* and with last_received; delete_recent_sids once it has chosen.
Program ==
    [setNext     |-> <<"cut", "fill", "mark", "sent", "lower">>,
     clear       |-> <<"empty", "empty", "sent", "received">>,
     acknowledge |-> <<"received", "fill", "mark">>,
     delete      |-> <<"store", "forget", "findSent", "sent",
                       "findReceived", "received", "raise">>]

\* The CLI's thread is idle and starts a command.
Starts(name, sid) ==
    /\ command = "none"
    /\ command' = name /\ at' = 1 /\ value' = sid
    /\ UNCHANGED <<bucket, recent, counters, since>>

SetNext(n) == Starts("setNext", n - 1) /\ UNCHANGED <<removed, rest>>
Clear == Starts("clear", 0) /\ UNCHANGED <<removed, rest>>
Acknowledge(n) == Starts("acknowledge", n) /\ UNCHANGED <<removed, rest>>

\* The entries up to a sid.
Cut(book, sid) == [s \in {x \in DOMAIN book : x <= sid} |-> book[s]]

\* delete_recent_sids chooses the newest sids of the bucket and keeps the others.
Delete(count) ==
    /\ DOMAIN bucket # {}
    /\ \E kept \in {0} \cup DOMAIN bucket :
        /\ removed' = {s \in DOMAIN bucket : s > kept}
        /\ Cardinality(removed') = Min({count, Cardinality(DOMAIN bucket)})
        /\ rest' = Cut(bucket, kept)
    /\ Starts("delete", 0)

\* The command's next statement is this one, which leaves next in value.
Does(statement, next) ==
    /\ command # "none" /\ Program[command][at] = statement
    /\ IF at = Len(Program[command])
       THEN command' = "none" /\ at' = 0 /\ value' = 0 /\ removed' = {} /\ since' = {}
       ELSE at' = at + 1 /\ value' = next /\ UNCHANGED <<command, removed, since>>

\* The statements of set_sid_state.
Cuts ==
    /\ Does("cut", value)
    /\ bucket' = Cut(bucket, value)
    /\ UNCHANGED <<recent, counters, rest>>

Fills ==
    /\ Does("fill", value)
    /\ bucket' = Continuous(bucket, value)
    /\ UNCHANGED <<recent, counters, rest>>

Marks ==
    /\ Does("mark", value)
    /\ bucket' = IF value > 0 THEN Upsert(bucket, value, "sent") ELSE bucket
    /\ UNCHANGED <<recent, counters, rest>>

Empties ==
    /\ Does("empty", value)
    /\ bucket' = <<>>
    /\ UNCHANGED <<recent, counters, rest>>

Lowers ==
    /\ Does("lower", value)
    /\ lastReceived' = Min({lastReceived, lastSent})
    /\ UNCHANGED <<bucket, recent, lastSent, rest>>

\* Those of both commands.
StoresSent ==
    /\ Does("sent", value)
    /\ lastSent' = value
    /\ UNCHANGED <<bucket, recent, lastReceived, rest>>

StoresReceived ==
    /\ Does("received", value)
    /\ lastReceived' = value
    /\ UNCHANGED <<bucket, recent, lastSent, rest>>

\* Those of delete_recent_sids.  new_bucket is stored over what was recorded while
\* it was made; from then on it is the bucket, which packets go into, and the
\* counters are computed from.
Stores ==
    /\ Does("store", value)
    /\ bucket' = rest
    /\ rest' = <<>>
    /\ UNCHANGED <<recent, counters>>

Forgets ==
    /\ Does("forget", value)
    /\ LET left == {k \in DOMAIN recent :
                        recent[k].sid \notin removed \/ recent[k].owner # Server}
       IN  \E place \in [1..Cardinality(left) -> left] :
              /\ \A i, j \in DOMAIN place : i < j => place[i] < place[j]
              /\ recent' = [i \in DOMAIN place |-> recent[place[i]]]
    /\ UNCHANGED <<bucket, counters, rest>>

\* Mutant of Remaining: what the counter had stays, if it is higher.
RemainingOrKept(direction) == Max({0, lastSent} \cup SidsOf(bucket, direction))

Remaining(direction) == Max({0} \cup SidsOf(bucket, direction))

FindsSent == Does("findSent", Remaining("sent")) /\ UNCHANGED <<bucket, recent, counters, rest>>

FindsReceived ==
    /\ Does("findReceived", Remaining("received"))
    /\ UNCHANGED <<bucket, recent, counters, rest>>

Raises ==
    /\ Does("raise", value)
    /\ lastSent' = Max({lastSent, lastReceived})
    /\ UNCHANGED <<bucket, recent, lastReceived, rest>>

-----------------------------------------------------------------------------
Next ==
    \/ Send
    \/ \E o \in Owners, s \in 1..MaxSid : Receive(o, s)
    \/ \E s \in 1..MaxSid : ReceivePong(s)
    \/ \E n \in 1..MaxSid : SetNext(n) \/ Delete(n)
    \/ \E n \in 0..MaxSid : Acknowledge(n)
    \/ Clear
    \/ Cuts \/ Fills \/ Marks \/ Empties \/ Lowers
    \/ StoresSent \/ StoresReceived
    \/ Stores \/ Forgets \/ FindsSent \/ FindsReceived \/ Raises

Spec == Init /\ [][Next]_vars

-----------------------------------------------------------------------------
(* Properties                                                                 *)

\* Every variable has its type; the cache of recent packets keeps its bound.
TypeOK ==
    /\ DOMAIN bucket \subseteq 1..MaxSid
    /\ \A s \in DOMAIN bucket : bucket[s] \in {"sent", "received"}
    /\ recent \in Seq([owner : Owners, sid : 1..MaxSid]) /\ Len(recent) <= MaxRecent
    /\ {lastSent, lastReceived, value} \subseteq 0..MaxSid

\* Whatever buckets and commands have made of the state, and between any two
\* statements of one, the highest known sid behaves as one number: a received
\* packet, relayed or not, raises it to its sid, and an own packet takes the next
\* one.
KnownCounts ==
    [][/\ Send => HighestKnownSid' = HighestKnownSid + 1
       /\ \A s \in 1..MaxSid :
            (ReceivePong(s) \/ \E o \in Owners : Receive(o, s))
                => HighestKnownSid' = Max({HighestKnownSid, s})]_vars

\* When delete_recent_sids ends, what it removed is forgotten: the next PING asks
\* for a removed sid again, and none is shown as recent.  Only a packet recorded
\* after the shortened bucket was stored can undo that, and only for its own sid
\* (which is shown) and those below it (which the PING leaves out); neither the old
\* counters nor what came before it can.
DeletedIsForgotten ==
    [][command = "delete" /\ command' = "none" =>
        \A s \in removed :
            /\ (\A x \in since : x < s) => HighestKnownSid' < s
            /\ s \notin since => [owner |-> Server, sid |-> s] \notin ToSet(recent')]_vars

=============================================================================
