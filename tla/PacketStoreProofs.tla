------------------------- MODULE PacketStoreProofs -------------------------
(* Proofs about the packet history, for any accounts, payloads and sids.     *)
EXTENDS PacketStore, FunctionTheorems, FiniteSetTheorems, TLAPS

-----------------------------------------------------------------------------
(* One bucket                                                                *)

Unique(bucket) ==
    \A i, j \in DOMAIN bucket : bucket[i].sid = bucket[j].sid => i = j

\* Some entry has the highest sid.  For a list this would follow by induction
\* on its length; as a part of the invariant it needs none.
HasHighest(bucket) ==
    \E h \in {0} \cup Sids(bucket) : \A s \in {0} \cup Sids(bucket) : h >= s

Bounded(bucket) == Sids(bucket) \subseteq 1..MaxSid

Good(bucket) ==
    /\ bucket \in Seq(Entries)
    /\ Unique(bucket)
    /\ HasHighest(bucket)
    /\ Bounded(bucket)

LEMMA EmptyIsGood == Good(<<>>)
  BY DEF Good, Unique, HasHighest, Bounded, Sids

LEMMA SidsAreNat ==
  ASSUME NEW b \in Seq(Entries)
  PROVE  Sids(b) \subseteq Nat
  <1>1. \A i \in DOMAIN b : b[i] \in Entries
    OBVIOUS
  <1>2. \A e \in Entries : e.sid \in Nat
    BY DEF Entries
  <1> QED
    BY <1>1, <1>2 DEF Sids

LEMMA HighestIsHighest ==
  ASSUME NEW b, Good(b)
  PROVE  /\ HighestSid(b) \in {0} \cup Sids(b)
         /\ \A s \in {0} \cup Sids(b) : HighestSid(b) >= s
         /\ HighestSid(b) \in Nat
  <1>1. Sids(b) \subseteq Nat
    BY SidsAreNat DEF Good
  <1> DEFINE S == {0} \cup Sids(b)
  <1>2. \E h \in S : \A s \in S : h >= s
    BY DEF Good, HasHighest
  <1>3. Max(S) \in S /\ \A s \in S : Max(S) >= s
    BY <1>2 DEF Max
  <1> QED
    BY <1>1, <1>3 DEF HighestSid

\* _upsert_entry: at most one entry changes, and it is the one with the sid.
LEMMA UpsertShape ==
  ASSUME NEW b, Good(b), NEW e \in Entries
  PROVE  \/ /\ e.sid \notin Sids(b)
            /\ UpsertEntry(b, e) = Append(b, e)
         \/ \E i \in DOMAIN b :
               /\ b[i].sid = e.sid
               /\ UpsertEntry(b, e) = [b EXCEPT ![i] = e]
  <1>1. CASE e.sid \notin Sids(b)
    BY <1>1 DEF UpsertEntry
  <1>2. CASE e.sid \in Sids(b)
    <2>1. PICK i \in DOMAIN b : b[i].sid = e.sid
      BY <1>2 DEF Sids
    <2>2. {k \in DOMAIN b : b[k].sid = e.sid} = {i}
      BY <2>1 DEF Good, Unique
    <2>3. Min({i}) = i
      <3>1. i \in Int
        BY <2>1 DEF Good
      <3> QED
        BY <3>1 DEF Min
    <2> QED
      BY <1>2, <2>1, <2>2, <2>3 DEF UpsertEntry
  <1> QED
    BY <1>1, <1>2

LEMMA UpsertSids ==
  ASSUME NEW b, Good(b), NEW e \in Entries
  PROVE  /\ UpsertEntry(b, e) \in Seq(Entries)
         /\ Unique(UpsertEntry(b, e))
         /\ Sids(UpsertEntry(b, e)) = Sids(b) \cup {e.sid}
  <1> DEFINE u == UpsertEntry(b, e)
  <1>0. b \in Seq(Entries) /\ Unique(b)
    BY DEF Good
  <1>1. CASE e.sid \notin Sids(b) /\ u = Append(b, e)
    <2> HIDE DEF u
    <2>1. u \in Seq(Entries) /\ DOMAIN u = DOMAIN b \cup {Len(b) + 1}
      BY <1>0, <1>1
    <2>2. u[Len(b) + 1] = e /\ \A k \in DOMAIN b : u[k] = b[k] /\ k # Len(b) + 1
      BY <1>0, <1>1
    <2>3. Sids(u) = Sids(b) \cup {e.sid}
      BY <2>1, <2>2 DEF Sids
    <2>4. Unique(u)
      BY <1>0, <1>1, <2>1, <2>2 DEF Unique, Sids
    <2> QED
      BY <2>1, <2>3, <2>4 DEF u
  <1>2. CASE \E i \in DOMAIN b : b[i].sid = e.sid /\ u = [b EXCEPT ![i] = e]
    <2> HIDE DEF u
    <2>1. PICK i \in DOMAIN b : b[i].sid = e.sid /\ u = [b EXCEPT ![i] = e]
      BY <1>2
    <2>2. u \in Seq(Entries) /\ DOMAIN u = DOMAIN b
      BY <1>0, <2>1
    <2>3. \A k \in DOMAIN b : u[k].sid = b[k].sid
      BY <1>0, <2>1
    <2>4. Sids(u) = Sids(b) \cup {e.sid}
      BY <2>1, <2>2, <2>3 DEF Sids
    <2>5. Unique(u)
      BY <1>0, <2>2, <2>3 DEF Unique
    <2> QED
      BY <2>2, <2>4, <2>5 DEF u
  <1> QED
    BY <1>1, <1>2, UpsertShape

LEMMA UpsertGood ==
  ASSUME NEW b, Good(b), NEW e \in Entries, e.sid \in 1..MaxSid
  PROVE  Good(UpsertEntry(b, e))
  <1> DEFINE u == UpsertEntry(b, e)
             h == HighestSid(b)
             t == IF e.sid > h THEN e.sid ELSE h
  <1>1. u \in Seq(Entries) /\ Unique(u) /\ Sids(u) = Sids(b) \cup {e.sid}
    BY UpsertSids
  <1>2. h \in {0} \cup Sids(b) /\ h \in Nat /\ \A s \in {0} \cup Sids(b) : h >= s
    BY HighestIsHighest
  <1>3. Sids(b) \subseteq Nat /\ e.sid \in Nat
    BY SidsAreNat, MaxSidAssumption DEF Good
  <1> HIDE DEF u, h
  <1>4. t \in {0} \cup Sids(u) /\ \A s \in {0} \cup Sids(u) : t >= s
    BY <1>1, <1>2, <1>3
  <1>5. HasHighest(u)
    BY <1>4 DEF HasHighest
  <1>6. Bounded(u)
    BY <1>1 DEF Good, Bounded
  <1> QED
    BY <1>1, <1>5, <1>6 DEF Good, u
-----------------------------------------------------------------------------
(* The inductive invariant                                                   *)

IInv ==
    /\ TypeOK
    /\ \A d \in DOMAIN history : Good(history[d])

LEMMA BucketIsGood ==
  ASSUME IInv, NEW d
  PROVE  Good(Bucket(d))
  BY EmptyIsGood DEF IInv, Bucket

SentEntry(d, p) == [sid |-> NextSid(d, p), packet |-> p, direction |-> "sent"]

\* A persistent packet gets a sid above all that its account's bucket holds.
LEMMA NextSidIsNew ==
  ASSUME IInv, NEW d, NEW p \in Packets
  PROVE  /\ NextSid(d, p) \in Nat
         /\ p.type \in PersistentTypes =>
              /\ NextSid(d, p) >= 1
              /\ \A s \in Sids(Bucket(d)) : s < NextSid(d, p)
              /\ SentEntry(d, p) \in Entries
  <1>1. Good(Bucket(d))
    BY BucketIsGood
  <1> DEFINE h == HighestSid(Bucket(d))
  <1>2. h \in Nat /\ \A s \in Sids(Bucket(d)) : h >= s
    BY <1>1, HighestIsHighest
  <1>3. Sids(Bucket(d)) \subseteq Nat
    BY <1>1, SidsAreNat DEF Good
  <1>4. NextSid(d, p) = h + (IF p.type \in PersistentTypes THEN 1 ELSE 0)
    BY DEF NextSid
  <1> HIDE DEF h
  <1>5. NextSid(d, p) \in Nat
    BY <1>2, <1>4
  <1>6. SentEntry(d, p) \in Entries
    BY <1>5 DEF SentEntry, Entries
  <1>7. ASSUME p.type \in PersistentTypes
        PROVE  NextSid(d, p) >= 1 /\ \A s \in Sids(Bucket(d)) : s < NextSid(d, p)
    BY <1>2, <1>3, <1>4, <1>7
  <1> QED
    BY <1>5, <1>6, <1>7

Recorded(dests, p) == IF p.type \in PersistentTypes THEN dests \ {Temp} ELSE {}

\* create_packets only ever appends to the buckets it records in.
LEMMA CreateAppends ==
  ASSUME IInv, NEW dests \in SUBSET Ids, NEW p \in Packets, CreatePackets(dests, p)
  PROVE  /\ DOMAIN history' = DOMAIN history \cup Recorded(dests, p)
         /\ \A d \in Recorded(dests, p) :
               /\ SentEntry(d, p) \in Entries
               /\ NextSid(d, p) \in 1..MaxSid
               /\ \A s \in Sids(Bucket(d)) : s < NextSid(d, p)
               /\ history'[d] = UpsertEntry(Bucket(d), SentEntry(d, p))
               /\ history'[d] = Append(Bucket(d), SentEntry(d, p))
         /\ \A d \in DOMAIN history \ Recorded(dests, p) : history'[d] = history[d]
         /\ history' = [d \in DOMAIN history' |-> history'[d]]
  <1> DEFINE R == Recorded(dests, p)
  <1>1. history' = [d \in DOMAIN history \cup R |->
                      IF d \in R THEN UpsertEntry(Bucket(d), SentEntry(d, p))
                      ELSE history[d]]
    BY DEF CreatePackets, Recorded, SentEntry
  <1>2. ASSUME NEW d \in R
        PROVE  /\ SentEntry(d, p) \in Entries
               /\ NextSid(d, p) \in 1..MaxSid
               /\ \A s \in Sids(Bucket(d)) : s < NextSid(d, p)
    <2>1. p.type \in PersistentTypes /\ d \in dests
      BY <1>2 DEF Recorded
    <2>2. NextSid(d, p) <= MaxSid
      BY <2>1 DEF CreatePackets
    <2> QED
      BY <2>1, <2>2, NextSidIsNew, MaxSidAssumption
  <1>3. ASSUME NEW d \in R
        PROVE  UpsertEntry(Bucket(d), SentEntry(d, p)) = Append(Bucket(d), SentEntry(d, p))
    <2>1. Sids(Bucket(d)) \subseteq Nat
      BY BucketIsGood, SidsAreNat DEF Good
    <2>2. NextSid(d, p) \notin Sids(Bucket(d))
      BY <1>2, <2>1
    <2> QED
      BY <2>2 DEF UpsertEntry, SentEntry
  <1> QED
    BY <1>1, <1>2, <1>3

LEMMA CreateKeepsIInv ==
  ASSUME IInv, NEW dests \in SUBSET Ids, NEW p \in Packets, CreatePackets(dests, p)
  PROVE  IInv'
  <1> DEFINE R == Recorded(dests, p)
  <1>1. ASSUME NEW d \in DOMAIN history' PROVE Good(history'[d])
    <2>1. CASE d \in R
      <3>1. SentEntry(d, p).sid \in 1..MaxSid
        BY <2>1, CreateAppends DEF SentEntry
      <3> QED
        BY <2>1, <3>1, CreateAppends, BucketIsGood, UpsertGood
    <2>2. CASE d \notin R
      BY <1>1, <2>2, CreateAppends DEF IInv
    <2> QED
      BY <2>1, <2>2
  <1>2. DOMAIN history' \subseteq Ids
    BY CreateAppends DEF IInv, TypeOK, Recorded
  <1>3. history' \in [DOMAIN history' -> Seq(Entries)]
    BY <1>1, CreateAppends DEF Good
  <1>4. DOMAIN out' \subseteq Ids /\ out' \in [DOMAIN out' -> Nat]
    BY NextSidIsNew DEF CreatePackets
  <1> QED
    BY <1>1, <1>2, <1>3, <1>4 DEF IInv, TypeOK

LEMMA ReceiveKeepsIInv ==
  ASSUME IInv, NEW d \in Ids, NEW sid \in 1..MaxSid, NEW p \in Packets,
         RecordReceived(d, sid, p)
  PROVE  IInv'
  <1> DEFINE e == [sid |-> sid, packet |-> p, direction |-> "received"]
  <1>1. e \in Entries /\ e.sid \in 1..MaxSid
    BY MaxSidAssumption DEF Entries
  <1>2. history' = [c \in DOMAIN history \cup {d} |->
                      IF c = d THEN UpsertEntry(Bucket(d), e) ELSE history[c]]
    BY DEF RecordReceived
  <1>3. Good(UpsertEntry(Bucket(d), e))
    BY <1>1, BucketIsGood, UpsertGood
  <1> HIDE DEF e
  <1>4. \A c \in DOMAIN history' : Good(history'[c])
    BY <1>2, <1>3 DEF IInv
  <1>5. history' \in [DOMAIN history' -> Seq(Entries)] /\ DOMAIN history' \subseteq Ids
    BY <1>2, <1>4 DEF IInv, TypeOK, Good
  <1>6. DOMAIN out' \subseteq Ids /\ out' \in [DOMAIN out' -> Nat]
    BY DEF RecordReceived
  <1> QED
    BY <1>4, <1>5, <1>6 DEF IInv, TypeOK

\* Every step is a call of create_packets for some destinations, an arrival, a
\* packet to the placeholder or a drop.
LEMMA NextCases ==
  ASSUME IInv, Next
  PROVE  \/ \E dests \in SUBSET Ids, p \in Packets : CreatePackets(dests, p)
         \/ \E p \in Packets : SendToTemp(p)
         \/ \E d \in Ids, sid \in 1..MaxSid, p \in Packets : RecordReceived(d, sid, p)
         \/ \E d \in Servers : DropServer(d)
  <1>1. ASSUME NEW d \in Servers, NEW p \in Packets, SendTo(d, p)
        PROVE  \E dests \in SUBSET Ids : CreatePackets(dests, p)
    BY <1>1 DEF SendTo, Ids
  <1>2. ASSUME NEW known \in SUBSET Servers, NEW ex, NEW p \in Packets,
               Broadcast(known, ex, p)
        PROVE  \E dests \in SUBSET Ids : CreatePackets(dests, p)
    BY <1>2 DEF Broadcast, Ids, IInv, TypeOK
  <1> QED
    BY <1>1, <1>2 DEF Next

LEMMA InitIInv == Init => IInv
  <1> SUFFICES ASSUME Init PROVE IInv
    OBVIOUS
  <1>1. DOMAIN history = {} /\ DOMAIN out = {}
    BY DEF Init
  <1> QED
    BY <1>1 DEF Init, IInv, TypeOK

LEMMA NextIInv == IInv /\ [Next]_vars => IInv'
  <1> SUFFICES ASSUME IInv, [Next]_vars PROVE IInv'
    OBVIOUS
  <1>1. ASSUME NEW p \in Packets, SendToTemp(p) PROVE IInv'
    BY <1>1 DEF SendToTemp, IInv, TypeOK, Ids
  <1>2. ASSUME NEW d \in Servers, DropServer(d) PROVE IInv'
    BY <1>2 DEF DropServer, IInv, TypeOK
  <1>3. CASE UNCHANGED vars
    BY <1>3 DEF vars, IInv, TypeOK
  <1> QED
    BY <1>1, <1>2, <1>3, NextCases, CreateKeepsIInv, ReceiveKeepsIInv

LEMMA Invariance == Spec => []IInv
  BY InitIInv, NextIInv, PTL DEF Spec

-----------------------------------------------------------------------------
\* The history is made of entries and every packet handed out has a sid.
THEOREM TypeCorrect == Spec => []TypeOK
  BY Invariance, PTL DEF IInv

\* No bucket ever holds two entries with one sid.
THEOREM SidsStayUnique == Spec => []UniqueSids
  <1>1. IInv => UniqueSids
    BY DEF IInv, Good, Unique, UniqueSids
  <1> QED
    BY <1>1, Invariance, PTL

\* Numbering an outgoing packet never replaces an entry of the history.
THEOREM SendingKeepsHistory == Spec => SendNeverOverwrites
  <1> DEFINE Kept == \A d \in DOMAIN history \cap DOMAIN history' :
                        \A i \in DOMAIN history[d] :
                           \/ history'[d][i] = history[d][i]
                           \/ history'[d][i].direction = "received"
  <1>1. ASSUME IInv, Next PROVE Kept
    <2>1. ASSUME NEW dests \in SUBSET Ids, NEW p \in Packets, CreatePackets(dests, p)
          PROVE  Kept
      <3> SUFFICES ASSUME NEW d \in DOMAIN history \cap DOMAIN history',
                          NEW i \in DOMAIN history[d]
                   PROVE  history'[d][i] = history[d][i]
        OBVIOUS
      <3>1. CASE d \in Recorded(dests, p)
        <4>1. history'[d] = Append(history[d], SentEntry(d, p))
          <5>1. Bucket(d) = history[d]
            BY DEF Bucket
          <5> QED
            BY <1>1, <2>1, <3>1, <5>1, CreateAppends
        <4>2. history[d] \in Seq(Entries)
          BY <1>1 DEF IInv, Good
        <4> QED
          BY <4>1, <4>2
      <3>2. CASE d \notin Recorded(dests, p)
        BY <1>1, <2>1, <3>2, CreateAppends
      <3> QED
        BY <3>1, <3>2
    <2>2. ASSUME NEW p \in Packets, SendToTemp(p) PROVE Kept
      BY <2>2 DEF SendToTemp
    <2>3. ASSUME NEW d \in Servers, DropServer(d) PROVE Kept
      BY <2>3 DEF DropServer
    <2>4. ASSUME NEW c \in Ids, NEW sid \in 1..MaxSid, NEW p \in Packets,
                 RecordReceived(c, sid, p)
          PROVE  Kept
      <3> DEFINE e == [sid |-> sid, packet |-> p, direction |-> "received"]
      <3>1. e \in Entries
        BY MaxSidAssumption DEF Entries
      <3> SUFFICES ASSUME NEW d \in DOMAIN history \cap DOMAIN history',
                          NEW i \in DOMAIN history[d]
                   PROVE  \/ history'[d][i] = history[d][i]
                          \/ history'[d][i].direction = "received"
        OBVIOUS
      <3>2. CASE d = c
        <4>1. history'[d] = UpsertEntry(history[d], e)
          BY <2>4, <3>2 DEF RecordReceived, Bucket
        <4>2. Good(history[d]) /\ history[d] \in Seq(Entries)
          BY <1>1 DEF IInv, Good
        <4>3. e.direction = "received"
          OBVIOUS
        <4> HIDE DEF e
        <4>4. \/ history'[d] = Append(history[d], e)
              \/ \E k \in DOMAIN history[d] : history'[d] = [history[d] EXCEPT ![k] = e]
          BY <3>1, <4>1, <4>2, UpsertShape
        <4>5. CASE history'[d] = Append(history[d], e)
          BY <4>2, <4>5
        <4>6. ASSUME NEW k \in DOMAIN history[d],
                     history'[d] = [history[d] EXCEPT ![k] = e]
              PROVE  history'[d][i] = history[d][i] \/ history'[d][i] = e
          BY <4>2, <4>6
        <4> QED
          BY <4>3, <4>4, <4>5, <4>6
      <3>3. CASE d # c
        BY <2>4, <3>3 DEF RecordReceived
      <3> QED
        BY <3>2, <3>3
    <2> QED
      BY <1>1, <2>1, <2>2, <2>3, <2>4, NextCases
  <1>2. ASSUME UNCHANGED vars PROVE Kept
    BY <1>2 DEF vars
  <1>3. IInv /\ [Next]_vars => [Kept]_vars
    BY <1>1, <1>2
  <1> HIDE DEF Kept
  <1>4. Spec => [][Kept]_vars
    BY <1>3, Invariance, PTL DEF Spec
  <1> QED
    BY <1>4 DEF Kept, SendNeverOverwrites

-----------------------------------------------------------------------------
(* What goes on the wire                                                     *)

\* A new entry above all others has the highest sid.
LEMMA AppendedIsHighest ==
  ASSUME NEW b, Good(b), NEW e \in Entries, e.sid \in 1..MaxSid,
         \A s \in Sids(b) : s < e.sid
  PROVE  HighestSid(UpsertEntry(b, e)) = e.sid
  <1> DEFINE u == UpsertEntry(b, e)
  <1>1. Good(u) /\ Sids(u) = Sids(b) \cup {e.sid}
    BY UpsertGood, UpsertSids
  <1> HIDE DEF u
  <1>2. HighestSid(u) \in {0} \cup Sids(u) /\ \A s \in {0} \cup Sids(u) : HighestSid(u) >= s
    BY <1>1, HighestIsHighest
  <1>3. e.sid \in Nat /\ e.sid >= 1 /\ HighestSid(u) >= e.sid
    BY <1>1, <1>2, MaxSidAssumption
  <1>4. HighestSid(u) \notin {0} \cup Sids(b)
    <2>1. Sids(b) \subseteq Nat
      BY SidsAreNat DEF Good
    <2> QED
      BY <1>3, <2>1
  <1> QED
    BY <1>1, <1>2, <1>4 DEF u

LEMMA CreateMatches ==
  ASSUME IInv, NEW dests \in SUBSET Ids, NEW p \in Packets, CreatePackets(dests, p)
  PROVE  WireMatchesHistory'
  <1> SUFFICES ASSUME NEW d \in dests, d # Temp
               PROVE  NextSid(d, p) = HighestSid(Bucket(d)')
    <2>1. out' = [d \in dests |-> NextSid(d, p)]
      BY DEF CreatePackets
    <2> QED
      BY <2>1 DEF WireMatchesHistory, HighestSid, Bucket
  <1>1. CASE p.type \in PersistentTypes
    <2>1. d \in Recorded(dests, p)
      BY <1>1 DEF Recorded
    <2>2. /\ SentEntry(d, p) \in Entries /\ NextSid(d, p) \in 1..MaxSid
          /\ \A s \in Sids(Bucket(d)) : s < NextSid(d, p)
          /\ d \in DOMAIN history'
          /\ history'[d] = UpsertEntry(Bucket(d), SentEntry(d, p))
      BY <2>1, CreateAppends
    <2>3. SentEntry(d, p).sid = NextSid(d, p)
      BY DEF SentEntry
    <2>4. HighestSid(history'[d]) = NextSid(d, p)
      BY <2>2, <2>3, BucketIsGood, AppendedIsHighest
    <2>5. Bucket(d)' = history'[d]
      BY <2>2 DEF Bucket
    <2> QED
      BY <2>4, <2>5
  <1>2. CASE p.type \notin PersistentTypes
    <2>1. Recorded(dests, p) = {}
      BY <1>2 DEF Recorded
    <2>2. Bucket(d)' = Bucket(d)
      BY <2>1, CreateAppends DEF Bucket
    <2>3. HighestSid(Bucket(d)) \in Nat
      BY BucketIsGood, HighestIsHighest
    <2> QED
      BY <1>2, <2>2, <2>3 DEF NextSid
  <1> QED
    BY <1>1, <1>2

\* Right after create_packets the sid of each packet is the highest that the
\* history of its account knows, for a probe as for a packet that is recorded.
THEOREM WireAgrees == Spec => []WireMatchesHistory
  <1>1. Init => WireMatchesHistory
    BY DEF Init, WireMatchesHistory
  <1>2. IInv /\ WireMatchesHistory /\ [Next]_vars => WireMatchesHistory'
    <2> SUFFICES ASSUME IInv, WireMatchesHistory, [Next]_vars PROVE WireMatchesHistory'
      OBVIOUS
    <2>1. ASSUME NEW p \in Packets, SendToTemp(p) PROVE WireMatchesHistory'
      BY <2>1 DEF SendToTemp, WireMatchesHistory
    <2>2. ASSUME NEW d \in Ids, NEW sid \in 1..MaxSid, NEW p \in Packets,
                 RecordReceived(d, sid, p)
          PROVE  WireMatchesHistory'
      BY <2>2 DEF RecordReceived, WireMatchesHistory
    <2>3. ASSUME NEW d \in Servers, DropServer(d) PROVE WireMatchesHistory'
      BY <2>3 DEF DropServer, WireMatchesHistory
    <2>4. CASE UNCHANGED vars
      BY <2>4 DEF vars, WireMatchesHistory, HighestSid, Bucket, Sids
    <2> QED
      BY <2>1, <2>2, <2>3, <2>4, NextCases, CreateMatches
  <1> QED
    BY <1>1, <1>2, Invariance, PTL DEF Spec

-----------------------------------------------------------------------------
(* What a PING is answered with                                              *)

Before(b, places, k) ==
    {j \in places : b[j].sid < b[k].sid \/ (b[j].sid = b[k].sid /\ j < k)}

Rank(b, places, k) == Cardinality(Before(b, places, k))

\* Places of lower sids come first, so that no two places have the same rank
\* and, there being as many ranks as places, every rank has its place.
LEMMA RanksAreTaken ==
  ASSUME NEW b, Good(b), NEW places \in SUBSET DOMAIN b, NEW n, n = Cardinality(places)
  PROVE  /\ n \in Nat
         /\ \A k \in places : Rank(b, places, k) \in Nat /\ Rank(b, places, k) + 1 <= n
         /\ \A k, l \in places :
               b[k].sid < b[l].sid => Rank(b, places, k) < Rank(b, places, l)
         /\ \A i \in 1..n : \E k \in places : Rank(b, places, k) = i - 1
         /\ \A k \in places : b[k].sid \in Nat
  <1> DEFINE rank == [k \in places |-> Rank(b, places, k) + 1]
  <1>1. /\ b \in Seq(Entries) /\ Len(b) \in Nat /\ DOMAIN b = 1..Len(b)
        /\ \A k \in places : k \in Nat /\ b[k].sid \in Nat
        /\ \A k, l \in places : b[k].sid = b[l].sid => k = l
    <2>1. b \in Seq(Entries) /\ Len(b) \in Nat /\ DOMAIN b = 1..Len(b)
      BY DEF Good
    <2>2. \A e \in Entries : e.sid \in Nat
      BY DEF Entries
    <2>3. \A k \in places : k \in Nat /\ b[k] \in Entries
      BY <2>1
    <2> QED
      BY <2>1, <2>2, <2>3 DEF Good, Unique
  <1>2. IsFiniteSet(places) /\ n \in Nat
    <2>1. IsFiniteSet(1..Len(b))
      BY <1>1, FS_Interval
    <2> QED
      BY <1>1, <2>1, FS_Subset, FS_CardinalityType
  <1>3. ASSUME NEW k \in places, NEW B, B = Before(b, places, k)
        PROVE  /\ IsFiniteSet(B) /\ Cardinality(B) \in Nat /\ Cardinality(B) + 1 <= n
               /\ Cardinality(B \cup {k}) = Cardinality(B) + 1
    <2>1. B \subseteq places /\ k \notin B
      BY <1>1, <1>3 DEF Before
    <2>2. IsFiniteSet(B) /\ Cardinality(B) \in Nat
      BY <1>2, <2>1, FS_Subset, FS_CardinalityType
    <2>3. Cardinality(B \cup {k}) = Cardinality(B) + 1
      BY <2>1, <2>2, FS_AddElement
    <2>4. Cardinality(B \cup {k}) <= n
      BY <1>2, <2>1, FS_Subset
    <2> QED
      BY <2>2, <2>3, <2>4
  <1>4. \A k \in places : Rank(b, places, k) \in Nat /\ Rank(b, places, k) + 1 <= n
    BY <1>3 DEF Rank
  <1>5. ASSUME NEW k \in places, NEW l \in places, b[k].sid < b[l].sid
        PROVE  Rank(b, places, k) < Rank(b, places, l)
    <2> DEFINE K == Before(b, places, k)
               L == Before(b, places, l)
    <2>1. K \cup {k} \subseteq L
      BY <1>1, <1>5 DEF Before
    <2>2. K = Before(b, places, k) /\ L = Before(b, places, l)
      OBVIOUS
    <2> HIDE DEF K, L
    <2>3. /\ IsFiniteSet(L) /\ Cardinality(L) \in Nat /\ Cardinality(K) \in Nat
          /\ Cardinality(K \cup {k}) = Cardinality(K) + 1
      BY <1>3, <2>2
    <2>4. Cardinality(K \cup {k}) <= Cardinality(L)
      BY <2>1, <2>3, FS_Subset
    <2> QED
      BY <2>2, <2>3, <2>4 DEF Rank
  <1>6. rank \in Injection(places, 1..n)
    <2>1. rank \in [places -> 1..n]
      BY <1>2, <1>4
    <2>2. ASSUME NEW k \in places, NEW l \in places, k # l PROVE rank[k] # rank[l]
      <3>1. b[k].sid < b[l].sid \/ b[l].sid < b[k].sid
        BY <1>1, <2>2
      <3>2. Rank(b, places, k) # Rank(b, places, l)
        BY <1>4, <1>5, <3>1
      <3> QED
        BY <1>4, <3>2
    <2> QED
      BY <2>1, <2>2 DEF Injection, IsInjective
  <1>7. rank \in Surjection(places, 1..n)
    <2>1. IsFiniteSet(1..n) /\ Cardinality(1..n) = n
      BY <1>2, FS_Interval
    <2> HIDE DEF rank
    <2> QED
      BY <1>6, <2>1, FS_Injection
  <1>8. ASSUME NEW i \in 1..n PROVE \E k \in places : Rank(b, places, k) = i - 1
    <2>1. PICK k \in places : rank[k] = i
      BY <1>7 DEF Surjection
    <2> QED
      BY <1>4, <2>1
  <1> QED
    BY <1>1, <1>2, <1>4, <1>5, <1>8

\* Sorting loses nothing, adds nothing, and orders.
LEMMA SortedFacts ==
  ASSUME NEW b, Good(b), NEW places \in SUBSET DOMAIN b, NEW r, r = Sorted(b, places)
  PROVE  /\ {r[i] : i \in DOMAIN r} = {b[k] : k \in places}
         /\ \A i, j \in DOMAIN r : i < j => r[i].sid < r[j].sid
  <1> DEFINE n == Cardinality(places)
             pick(i) == CHOOSE k \in places : Rank(b, places, k) = i - 1
  <1>1. r = [i \in 1..n |-> b[pick(i)]]
    BY DEF Sorted, Before, Rank
  <1>2. /\ n \in Nat
        /\ \A k \in places : Rank(b, places, k) \in Nat /\ Rank(b, places, k) + 1 <= n
        /\ \A k, l \in places :
              b[k].sid < b[l].sid => Rank(b, places, k) < Rank(b, places, l)
        /\ \A i \in 1..n : \E k \in places : Rank(b, places, k) = i - 1
        /\ \A k \in places : b[k].sid \in Nat
    BY RanksAreTaken
  <1>3. \A k, l \in places : b[k].sid = b[l].sid => k = l
    BY DEF Good, Unique
  <1> HIDE DEF n
  <1>4. \A i \in 1..n : pick(i) \in places /\ Rank(b, places, pick(i)) = i - 1
    BY <1>2
  <1>5. DOMAIN r = 1..n /\ \A i \in 1..n : r[i] = b[pick(i)]
    BY <1>1
  <1> HIDE DEF pick
  <1>6. ASSUME NEW k \in places PROVE \E i \in 1..n : pick(i) = k
    <2> DEFINE i == Rank(b, places, k) + 1
               l == pick(i)
    <2>1. i \in 1..n
      BY <1>2
    <2>2. l \in places /\ Rank(b, places, l) = i - 1
      BY <1>4, <2>1
    <2>3. Rank(b, places, l) = Rank(b, places, k)
      BY <1>2, <2>2
    <2> HIDE DEF l
    <2>4. ~(b[k].sid < b[l].sid) /\ ~(b[l].sid < b[k].sid)
      BY <1>2, <2>2, <2>3
    <2>5. l = k
      BY <1>2, <1>3, <2>2, <2>4
    <2> QED
      BY <2>1, <2>5 DEF l
  <1>7. {r[i] : i \in DOMAIN r} = {b[k] : k \in places}
    BY <1>4, <1>5, <1>6
  <1>8. ASSUME NEW i \in 1..n, NEW j \in 1..n, i < j PROVE r[i].sid < r[j].sid
    <2> DEFINE k == pick(i)
               l == pick(j)
    <2>1. k \in places /\ l \in places /\ Rank(b, places, k) = i - 1 /\ Rank(b, places, l) = j - 1
      BY <1>4
    <2>2. r[i] = b[k] /\ r[j] = b[l]
      BY <1>5
    <2> HIDE DEF k, l
    <2>3. Rank(b, places, k) < Rank(b, places, l)
      BY <1>2, <1>8, <2>1
    <2>4. ~(b[l].sid < b[k].sid) /\ k # l
      BY <1>2, <2>1, <2>3
    <2> QED
      BY <1>2, <1>3, <2>1, <2>2, <2>4
  <1> QED
    BY <1>5, <1>7, <1>8

\* PacketStore.history answers a PING with exactly the packets sent above its
\* sid, in increasing order of sid, in whatever order they were entered.
THEOREM ReplaysAreExact == Spec => []ReplayExact
  <1>1. IInv => ReplayExact
    <2> SUFFICES ASSUME IInv, NEW d \in DOMAIN history, NEW since \in 0..MaxSid,
                        NEW r, r = Replay(history[d], since)
                 PROVE  /\ {r[i] : i \in DOMAIN r} =
                             {e \in {history[d][i] : i \in DOMAIN history[d]} :
                                 e.sid > since /\ e.direction = "sent"}
                        /\ \A i, j \in DOMAIN r : i < j => r[i].sid < r[j].sid
      BY DEF ReplayExact
    <2> DEFINE b == history[d]
               places == {k \in DOMAIN b : b[k].sid > since /\ b[k].direction = "sent"}
    <2>1. Good(b)
      BY DEF IInv
    <2>2. r = Sorted(b, places)
      BY DEF Replay
    <2>3. {b[k] : k \in places} = {e \in {b[i] : i \in DOMAIN b} :
                                      e.sid > since /\ e.direction = "sent"}
      OBVIOUS
    <2> HIDE DEF b
    <2>4. /\ {r[i] : i \in DOMAIN r} = {b[k] : k \in places}
          /\ \A i, j \in DOMAIN r : i < j => r[i].sid < r[j].sid
      BY <2>1, <2>2, SortedFacts
    <2> QED
      BY <2>3, <2>4 DEF b
  <1> QED
    BY <1>1, Invariance, PTL

-----------------------------------------------------------------------------
(* The lists implement a ledger per peer                                     *)

Record(e) == [packet |-> e.packet, direction |-> e.direction]

LEMMA LedgerAt ==
  ASSUME NEW b, Good(b), NEW i \in DOMAIN b
  PROVE  LedgerOf(b)[b[i].sid] = Record(b[i])
  <1>1. b[i].sid \in Sids(b)
    BY DEF Sids
  <1>2. (CHOOSE k \in DOMAIN b : b[k].sid = b[i].sid) = i
    BY DEF Good, Unique
  <1> QED
    BY <1>1, <1>2 DEF LedgerOf, Record

\* _upsert_entry writes one place of the ledger.
LEMMA UpsertIsPut ==
  ASSUME NEW b, Good(b), NEW e \in Entries, e.sid \in 1..MaxSid
  PROVE  LedgerOf(UpsertEntry(b, e)) = Ledgers!Put(LedgerOf(b), e.sid, Record(e))
  <1> DEFINE u == UpsertEntry(b, e)
  <1>1. Good(u) /\ Sids(u) = Sids(b) \cup {e.sid}
    BY UpsertGood, UpsertSids
  <1>2. b \in Seq(Entries) /\ u \in Seq(Entries)
    BY <1>1 DEF Good
  <1>3. /\ \E i \in DOMAIN u : u[i] = e
        /\ \A i \in DOMAIN b : b[i].sid # e.sid => i \in DOMAIN u /\ u[i] = b[i]
    <2>1. CASE u = Append(b, e)
      <3>1. u[Len(b) + 1] = e /\ Len(b) + 1 \in DOMAIN u
        BY <1>2, <2>1
      <3>2. \A i \in DOMAIN b : i \in DOMAIN u /\ u[i] = b[i]
        BY <1>2, <2>1
      <3> QED
        BY <3>1, <3>2
    <2>2. CASE \E i \in DOMAIN b : b[i].sid = e.sid /\ u = [b EXCEPT ![i] = e]
      BY <1>2, <2>2
    <2> QED
      BY <2>1, <2>2, UpsertShape
  <1> HIDE DEF u
  <1>4. ASSUME NEW s \in Sids(u)
        PROVE  LedgerOf(u)[s] = IF s = e.sid THEN Record(e) ELSE LedgerOf(b)[s]
    <2>1. CASE s = e.sid
      BY <1>1, <1>3, <2>1, LedgerAt
    <2>2. CASE s # e.sid
      <3>1. PICK i \in DOMAIN b : b[i].sid = s
        BY <1>1, <1>4, <2>2 DEF Sids
      <3>2. i \in DOMAIN u /\ u[i] = b[i]
        BY <1>3, <2>2, <3>1
      <3> QED
        BY <1>1, <2>2, <3>1, <3>2, LedgerAt
    <2> QED
      BY <2>1, <2>2
  <1>5. DOMAIN LedgerOf(b) = Sids(b) /\ DOMAIN LedgerOf(u) = Sids(u)
    BY DEF LedgerOf
  <1>6. LedgerOf(u) = [s \in Sids(u) |-> LedgerOf(u)[s]]
    BY DEF LedgerOf
  <1>7. Ledgers!Put(LedgerOf(b), e.sid, Record(e))
          = [s \in Sids(u) |-> IF s = e.sid THEN Record(e) ELSE LedgerOf(b)[s]]
    BY <1>1, <1>5 DEF Ledgers!Put
  <1> QED
    BY <1>4, <1>6, <1>7 DEF u

Abstract == [d \in DOMAIN history |-> LedgerOf(history[d])]

LEMMA LedgerOfBucket ==
  ASSUME IInv, NEW d
  PROVE  Ledgers!Ledger(d) = LedgerOf(Bucket(d)) /\ DOMAIN Ledgers!Ledger(d) = Sids(Bucket(d))
  <1>1. LedgerOf(<<>>) = <<>>
    <2>1. Sids(<<>>) = {}
      BY DEF Sids
    <2> QED
      BY <2>1 DEF LedgerOf
  <1>2. Ledgers!Ledger(d) = LedgerOf(Bucket(d))
    BY <1>1 DEF Ledgers!Ledger, Bucket
  <1> QED
    BY <1>2 DEF LedgerOf

LEMMA CreateAllocates ==
  ASSUME IInv, NEW dests \in SUBSET Ids, NEW p \in Packets, CreatePackets(dests, p)
  PROVE  Ledgers!Allocate(Recorded(dests, p), p)
  <1> DEFINE R == Recorded(dests, p)
  <1>1. DOMAIN Abstract' = DOMAIN Abstract \cup R
    BY CreateAppends DEF Abstract
  <1>2. ASSUME NEW d \in R
        PROVE  \E sid \in 1..MaxSid :
                 /\ \A used \in DOMAIN Ledgers!Ledger(d) : used < sid
                 /\ Abstract'[d] = Ledgers!Put(Ledgers!Ledger(d), sid,
                                     [packet |-> p, direction |-> "sent"])
    <2> DEFINE e == SentEntry(d, p)
    <2>1. /\ e \in Entries /\ NextSid(d, p) \in 1..MaxSid
          /\ \A s \in Sids(Bucket(d)) : s < NextSid(d, p)
          /\ history'[d] = UpsertEntry(Bucket(d), e)
      BY CreateAppends
    <2>2. e.sid = NextSid(d, p) /\ Record(e) = [packet |-> p, direction |-> "sent"]
      BY DEF SentEntry, Record
    <2> HIDE DEF e
    <2>3. LedgerOf(UpsertEntry(Bucket(d), e))
            = Ledgers!Put(LedgerOf(Bucket(d)), e.sid, Record(e))
      BY <2>1, <2>2, BucketIsGood, UpsertIsPut
    <2>4. Abstract'[d] = LedgerOf(history'[d])
      BY <1>1, CreateAppends DEF Abstract
    <2> QED
      BY <2>1, <2>2, <2>3, <2>4, LedgerOfBucket
  <1>3. \A d \in DOMAIN Abstract \ R : Abstract'[d] = Abstract[d]
    BY <1>1, CreateAppends DEF Abstract
  <1> QED
    BY <1>1, <1>2, <1>3 DEF Ledgers!Allocate, Abstract

LEMMA ReceiveIsReceive ==
  ASSUME IInv, NEW d \in Ids, NEW sid \in 1..MaxSid, NEW p \in Packets,
         RecordReceived(d, sid, p)
  PROVE  Ledgers!Receive(d, sid, p)
  <1> DEFINE e == [sid |-> sid, packet |-> p, direction |-> "received"]
  <1>1. e \in Entries /\ e.sid = sid
        /\ Record(e) = [packet |-> p, direction |-> "received"]
    BY MaxSidAssumption DEF Entries, Record
  <1>2. history' = [c \in DOMAIN history \cup {d} |->
                      IF c = d THEN UpsertEntry(Bucket(d), e) ELSE history[c]]
    BY DEF RecordReceived
  <1> HIDE DEF e
  <1>3. LedgerOf(UpsertEntry(Bucket(d), e))
          = Ledgers!Put(Ledgers!Ledger(d), sid, [packet |-> p, direction |-> "received"])
    BY <1>1, BucketIsGood, UpsertIsPut, LedgerOfBucket
  <1>4. [c \in DOMAIN history' |-> LedgerOf(history'[c])]
          = [c \in DOMAIN history \cup {d} |->
               IF c = d THEN LedgerOf(UpsertEntry(Bucket(d), e)) ELSE Abstract[c]]
    BY <1>2 DEF Abstract
  <1> QED
    BY <1>3, <1>4 DEF Ledgers!Receive, Abstract

LEMMA NextLedger == IInv /\ [Next]_vars => [Ledgers!Next]_Abstract
  <1> SUFFICES ASSUME IInv, [Next]_vars PROVE [Ledgers!Next]_Abstract
    OBVIOUS
  <1>1. ASSUME NEW p \in Packets, SendToTemp(p) PROVE UNCHANGED Abstract
    BY <1>1 DEF SendToTemp, Abstract
  <1>2. ASSUME NEW d \in Servers, DropServer(d) PROVE Ledgers!Next
    <2>1. Ledgers!Forget(d)
      BY <1>2 DEF DropServer, Ledgers!Forget
    <2> QED
      BY <2>1 DEF Ledgers!Next, Ids
  <1>3. CASE UNCHANGED vars
    BY <1>3 DEF vars, Abstract
  <1>4. ASSUME NEW dests \in SUBSET Ids, NEW p \in Packets, CreatePackets(dests, p)
        PROVE  Ledgers!Next
    <2>1. Recorded(dests, p) \in SUBSET Ids
      BY DEF Recorded
    <2> QED
      BY <1>4, <2>1, CreateAllocates DEF Ledgers!Next
  <1>5. ASSUME NEW d \in Ids, NEW sid \in 1..MaxSid, NEW p \in Packets,
               RecordReceived(d, sid, p)
        PROVE  Ledgers!Next
    BY <1>5, ReceiveIsReceive DEF Ledgers!Next
  <1> QED
    BY <1>1, <1>2, <1>3, <1>4, <1>5, NextCases

\* The history implements SidLedger: sending only adds above the highest sid,
\* receiving writes under the peer's sid, and closing forgets a whole ledger.
THEOREM LedgerRefinement == Spec => ImplementsLedger
  <1>1. Init => Ledgers!Init
    <2> SUFFICES ASSUME Init PROVE Ledgers!Init
      OBVIOUS
    <2>1. history = <<>> /\ DOMAIN history = {}
      BY DEF Init
    <2> QED
      BY <2>1 DEF Ledgers!Init
  <1>2. Spec => Ledgers!Spec
    BY <1>1, Invariance, NextLedger, PTL DEF Spec, Ledgers!Spec, Abstract
  <1> QED
    BY <1>2 DEF ImplementsLedger
=============================================================================
