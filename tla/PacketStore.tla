---------------------------- MODULE PacketStore ----------------------------
(* The server's PacketStore (websockets/data_packet.py): for every peer id a *)
(* bucket of history entries, keyed by sid, from which packets are numbered, *)
(* recorded and replayed.                                                    *)
(*                                                                           *)
(* A bucket is the Python list in list order.  A missing bucket and an empty *)
(* one differ (a broadcast reaches every key of the dict), so history is a   *)
(* partial function.  Packets keep their type and an opaque body.            *)
EXTENDS Integers, Sequences, FiniteSets, FiniteSetsExt

CONSTANTS
    Servers,    \* account ids of the sub-servers
    Temp,       \* the placeholder id "-----" of a peer without an account
    Bodies,     \* payloads, told apart only by identity
    MaxSid      \* bound on the sids the model hands out or receives

ASSUME TempAssumption == Temp \notin Servers
ASSUME MaxSidAssumption == MaxSid \in Nat \ {0}

VARIABLES
    history,    \* PacketStore._history
    out         \* what the last call of create_packets returned: peer -> sid

vars == <<history, out>>

-----------------------------------------------------------------------------
Ids == Servers \cup {Temp}

\* "data_send" stands for every type that takes a sid of its own.
PacketTypes == {"test_connect", "ping", "pong", "data_send"}
PersistentTypes == PacketTypes \ {"test_connect", "ping", "pong"}

Packets == [type : PacketTypes, body : Bodies]
Entries == [sid : Nat, packet : Packets, direction : {"sent", "received"}]

Bucket(d) == IF d \in DOMAIN history THEN history[d] ELSE <<>>
Sids(bucket) == {bucket[i].sid : i \in DOMAIN bucket}
\* Mutant of HighestSid: an empty bucket counts from -1.
HighestFromMinusOne(bucket) == Max({-1} \cup Sids(bucket))

HighestSid(bucket) == Max({0} \cup Sids(bucket))

\* Mutant of UpsertEntry: no search for the sid.
AppendEntry(bucket, e) == Append(bucket, e)

\* The first entry with the same sid is overwritten in place, whatever its
\* direction; only an unused sid makes the list longer.
UpsertEntry(bucket, e) ==
    IF e.sid \in Sids(bucket)
    THEN [bucket EXCEPT ![Min({i \in DOMAIN bucket : bucket[i].sid = e.sid})] = e]
    ELSE Append(bucket, e)

\* Mutant of NextSid: numbers by the length of the bucket.
NextSidByLength(d, p) ==
    Len(Bucket(d)) + (IF p.type \in PersistentTypes THEN 1 ELSE 0)

\* Mutant of NextSid: a probe takes a sid of its own as well.
NextSidAlways(d, p) == HighestSid(Bucket(d)) + 1

\* The sid of a packet to d: a new one, or the highest one again for a probe.
NextSid(d, p) ==
    HighestSid(Bucket(d)) + (IF p.type \in PersistentTypes THEN 1 ELSE 0)

\* sorted: the entries at these places of the bucket, by sid.
Sorted(bucket, places) ==
    LET before(k) == {j \in places : \/ bucket[j].sid < bucket[k].sid
                                     \/ bucket[j].sid = bucket[k].sid /\ j < k}
    IN  [i \in 1..Cardinality(places) |->
            bucket[CHOOSE k \in places : Cardinality(before(k)) = i - 1]]

\* Mutant of Replay: starts with the packet the client has.
ReplayInclusive(bucket, since) ==
    Sorted(bucket, {k \in DOMAIN bucket : bucket[k].sid >= since
                                          /\ bucket[k].direction = "sent"})

\* PacketStore.history: the entries a PING that carries `since` asks for.
Replay(bucket, since) ==
    Sorted(bucket, {k \in DOMAIN bucket : bucket[k].sid > since
                                          /\ bucket[k].direction = "sent"})

-----------------------------------------------------------------------------
Init ==
    /\ history = <<>>
    /\ out = <<>>

\* create_packets once the destinations are resolved.  A packet to the
\* placeholder id is numbered but never recorded.
CreatePackets(dests, p) ==
    LET recorded == IF p.type \in PersistentTypes THEN dests \ {Temp} ELSE {}
    IN  /\ \A d \in dests : NextSid(d, p) <= MaxSid
        /\ out' = [d \in dests |-> NextSid(d, p)]
        /\ history' =
             [d \in DOMAIN history \cup recorded |->
                IF d \in recorded
                THEN UpsertEntry(Bucket(d), [sid       |-> NextSid(d, p),
                                             packet    |-> p,
                                             direction |-> "sent"])
                ELSE history[d]]

\* A packet to one account.  A probe to a peer without a bucket resolves to
\* nothing at all.
SendTo(d, p) ==
    CreatePackets(IF p.type \in PersistentTypes \/ d \in DOMAIN history
                  THEN {d} ELSE {}, p)

\* A packet to the placeholder id has sid 0 and leaves no trace.
SendToTemp(p) ==
    /\ out' = [d \in {Temp} |-> 0]
    /\ UNCHANGED history

\* A packet to "all": every bucket there is, and every connected account.
Broadcast(known, exclude, p) ==
    CreatePackets((DOMAIN history \cup known) \ exclude, p)

\* A packet arrived from peer d, carrying the sid the peer chose.
RecordReceived(d, sid, p) ==
    /\ p.type \notin {"ping", "pong"}
    /\ history' =
         [c \in DOMAIN history \cup {d} |->
            IF c = d
            THEN UpsertEntry(Bucket(d), [sid       |-> sid,
                                         packet    |-> p,
                                         direction |-> "received"])
            ELSE history[c]]
    /\ out' = <<>>

\* Mutant of DropServer: the bucket is emptied and stays.
ClearServer(d) ==
    /\ history' = [c \in DOMAIN history |-> IF c = d THEN <<>> ELSE history[c]]
    /\ out' = <<>>

\* The account's connection was closed.
DropServer(d) ==
    /\ history' = [c \in DOMAIN history \ {d} |-> history[c]]
    /\ out' = <<>>

Next ==
    \/ \E d \in Servers, p \in Packets : SendTo(d, p)
    \/ \E p \in Packets : SendToTemp(p)
    \/ \E known \in SUBSET Servers, p \in Packets :
          \/ Broadcast(known, {}, p)
          \/ \E sender \in Servers : Broadcast(known, {sender}, p)
    \/ \E d \in Ids, sid \in 1..MaxSid, p \in Packets : RecordReceived(d, sid, p)
    \/ \E d \in Servers : DropServer(d)

Spec == Init /\ [][Next]_vars

-----------------------------------------------------------------------------
(* Properties                                                                *)

\* Every bucket is a list of entries and every packet handed out has a sid.
TypeOK ==
    /\ DOMAIN history \subseteq Ids
    /\ history \in [DOMAIN history -> Seq(Entries)]
    /\ DOMAIN out \subseteq Ids
    /\ out \in [DOMAIN out -> Nat]

\* A bucket never holds two entries with one sid, although both ends of the
\* connection number packets and either may use a number the other has used:
\* _upsert_entry replaces, it never appends a second time.
UniqueSids ==
    \A d \in DOMAIN history : \A i, j \in DOMAIN history[d] :
        history[d][i].sid = history[d][j].sid => i = j

\* What create_packets puts on the wire agrees with the history: right after
\* the call, each packet's sid is the highest its account's bucket knows.
\* (A probe repeats that number, a persistent packet has just become it.)
WireMatchesHistory ==
    \A d \in DOMAIN out \ {Temp} : out[d] = HighestSid(Bucket(d))

\* PacketStore.history answers a PING with exactly the sent packets above the
\* sid it carries, in increasing order of sid, although received packets are
\* entered out of order.
ReplayExact ==
    \A d \in DOMAIN history, since \in 0..MaxSid :
        LET r == Replay(history[d], since)
        IN  /\ {r[i] : i \in DOMAIN r} =
                 {e \in {history[d][i] : i \in DOMAIN history[d]} :
                     e.sid > since /\ e.direction = "sent"}
            /\ \A i, j \in DOMAIN r : i < j => r[i].sid < r[j].sid

\* An entry that is replaced was replaced by a packet that came in: numbering
\* an outgoing packet never reuses a sid, so sending never destroys history.
SendNeverOverwrites ==
    [][\A d \in DOMAIN history \cap DOMAIN history' :
         \A i \in DOMAIN history[d] :
            \/ history'[d][i] = history[d][i]
            \/ history'[d][i].direction = "received"]_vars

\* The lists, searched and overwritten in place, behave as one ledger per peer
\* from sids to packets: a send only adds above the highest sid, a packet that
\* came in takes its sid's place, a closed account is forgotten whole.
LedgerOf(bucket) ==
    [s \in Sids(bucket) |->
        LET e == bucket[CHOOSE i \in DOMAIN bucket : bucket[i].sid = s]
        IN  [packet |-> e.packet, direction |-> e.direction]]

Ledgers ==
    INSTANCE SidLedger WITH
        SidSpace <- 1..MaxSid,
        ledger <- [d \in DOMAIN history |-> LedgerOf(history[d])]

ImplementsLedger == Ledgers!Spec

=============================================================================
