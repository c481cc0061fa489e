-------------------------- MODULE ClientSidsProofs --------------------------
(* Proofs about the client's sids, for any accounts and bounds.               *)
EXTENDS ClientSids, FiniteSetTheorems, SequenceTheorems, WellFoundedInduction, TLAPS

\* Sids are positive and bounded, in the bucket and in what a deletion has
\* left of it, so that each Max is of a set that has one.
BookOK(book) == DOMAIN book \subseteq 1..MaxSid

Counted ==
    /\ BookOK(bucket) /\ BookOK(rest)
    /\ lastSent \in 0..MaxSid /\ lastReceived \in 0..MaxSid /\ value \in 0..MaxSid

Directed(book) == \A s \in DOMAIN book : book[s] \in {"sent", "received"}

Directions == Directed(bucket) /\ Directed(rest)

Entry == [owner : Owners, sid : 1..MaxSid]
Cache == Seq(Entry)

Cached == recent \in Cache /\ Len(recent) <= MaxRecent

Shown(s) == [owner |-> Server, sid |-> s] \in ToSet(recent)

\* A deletion from statement to statement.  What it removes is above all that it
\* keeps; once that is stored, a removed sid is in the bucket or the cache, and
\* below a counter it has set, only by what was recorded since.
Deleting ==
    command = "delete" =>
        /\ at \in 1..7 /\ removed \subseteq 1..MaxSid
        /\ \A s \in removed :
            /\ at = 1 => \A x \in DOMAIN rest : x < s
            /\ at > 1 /\ (\A x \in since : x < s) =>
                /\ \A x \in DOMAIN bucket : x < s
                /\ at \in {4, 6} => value < s
                /\ at > 4 => lastSent < s
                /\ at > 6 => lastReceived < s
            /\ at > 2 /\ s \notin since => ~ Shown(s)

IInv == Counted /\ Directions /\ Cached /\ Deleting

-----------------------------------------------------------------------------
(* Sets of natural numbers.  What is chosen from one by CHOOSE is understood  *)
(* only through these; they rest on < being well-founded on Nat.              *)

\* Every set of natural numbers but the empty one has a least element.
LEMMA LeastExists ==
  ASSUME NEW S \in SUBSET Nat, S # {}
  PROVE  \E s \in S : \A t \in S : s <= t
  <1> DEFINE Less == OpToRel(<, Nat)
  <1>1. \E s \in S : \A t \in S : ~ (<<t, s>> \in Less)
    <2>1. IsWellFoundedOn(Less, Nat)
      BY NatLessThanWellFounded
    <2> HIDE DEF Less
    <2> QED
      BY <2>1, WFMin
  <1>2. \A s \in S : s \in Nat
    OBVIOUS
  <1>3. PICK s \in S : \A t \in S : ~ (<<t, s>> \in Less)
    BY <1>1
  <1>4. \A t \in S : ~ (t < s)
    BY <1>2, <1>3 DEF OpToRel
  <1> QED
    BY <1>2, <1>4

\* One that has a bound has a greatest element too, and Max is that.
LEMMA MaxExists ==
  ASSUME NEW S \in SUBSET Nat, S # {}, NEW b \in Nat, \A s \in S : s <= b
  PROVE  /\ Max(S) \in S /\ Max(S) \in Nat
         /\ \A s \in S : Max(S) >= s
  <1> DEFINE Gaps == {b - s : s \in S}
  <1>1. \A s \in S : s \in Nat /\ b - s \in Nat
    OBVIOUS
  <1>2. Gaps \in SUBSET Nat /\ Gaps # {}
    BY <1>1
  <1>3. \E g \in Gaps : \A h \in Gaps : g <= h
    <2> HIDE DEF Gaps
    <2> QED
      BY <1>2, LeastExists
  <1>4. PICK m \in S : \A h \in Gaps : b - m <= h
    BY <1>3
  <1>5. \A s \in S : m >= s
    <2> TAKE s \in S
    <2>1. b - m <= b - s
      BY <1>4
    <2> QED
      BY <1>1, <2>1
  <1> QED
    BY <1>1, <1>5 DEF Max

LEMMA MaxIsBounded ==
  ASSUME NEW S, S \subseteq 0..MaxSid, S # {}
  PROVE  /\ Max(S) \in S /\ Max(S) \in 0..MaxSid
         /\ \A s \in S : Max(S) >= s
  <1>1. S \in SUBSET Nat /\ MaxSid \in Nat /\ \A s \in S : s <= MaxSid
    BY BoundsAssumption
  <1> QED
    BY <1>1, MaxExists

\* The greatest is the one that is greatest.
LEMMA MaxIs ==
  ASSUME NEW S, S \subseteq 0..MaxSid, NEW m \in S, \A s \in S : m >= s
  PROVE  Max(S) = m
  <1>1. Max(S) \in S /\ Max(S) \in 0..MaxSid /\ Max(S) >= m
    BY MaxIsBounded
  <1>2. m >= Max(S) /\ m \in 0..MaxSid
    BY <1>1
  <1> QED
    BY <1>1, <1>2, BoundsAssumption

LEMMA TopIsTop ==
  ASSUME NEW book, BookOK(book)
  PROVE  /\ Top(book) \in {0} \cup DOMAIN book /\ Top(book) \in 0..MaxSid
         /\ \A s \in DOMAIN book : Top(book) >= s
  <1>1. {0} \cup DOMAIN book \subseteq 0..MaxSid
    BY BoundsAssumption DEF BookOK
  <1> QED
    BY <1>1, MaxIsBounded DEF Top

LEMMA HighestIsHighest ==
  ASSUME Counted
  PROVE  /\ HighestKnownSid \in {Top(bucket), lastReceived, lastSent}
         /\ HighestKnownSid \in 0..MaxSid
         /\ HighestKnownSid >= Top(bucket)
         /\ HighestKnownSid >= lastReceived /\ HighestKnownSid >= lastSent
  <1>1. {Top(bucket), lastReceived, lastSent} \subseteq 0..MaxSid
    BY TopIsTop DEF Counted
  <1> QED
    BY <1>1, MaxIsBounded DEF HighestKnownSid

\* Adding a sid to a bucket, with or without placeholders below it.
LEMMA UpsertTop ==
  ASSUME NEW book, BookOK(book), NEW sid \in 1..MaxSid, NEW way
  PROVE  /\ BookOK(Upsert(book, sid, way))
         /\ Top(Upsert(book, sid, way)) = IF Top(book) >= sid THEN Top(book) ELSE sid
  <1>1. DOMAIN Upsert(book, sid, way) = DOMAIN book \cup {sid}
    BY DEF Upsert
  <1>2. BookOK(Upsert(book, sid, way))
    BY <1>1 DEF BookOK
  <1> DEFINE S == {0} \cup DOMAIN book \cup {sid}
             m == IF Top(book) >= sid THEN Top(book) ELSE sid
  <1>3. S \subseteq 0..MaxSid
    BY BoundsAssumption DEF BookOK
  <1>4. m \in S /\ \A s \in S : m >= s
    <2>1. m \in S
      BY TopIsTop
    <2>2. Top(book) \in 0..MaxSid /\ \A s \in DOMAIN book : Top(book) >= s /\ s \in 1..MaxSid
      BY TopIsTop DEF BookOK
    <2> QED
      BY <2>1, <2>2, BoundsAssumption
  <1> HIDE DEF m
  <1>5. Max(S) = m
    BY <1>3, <1>4, MaxIs
  <1> QED
    BY <1>1, <1>2, <1>5 DEF Top, m

LEMMA ContinuousTop ==
  ASSUME NEW book, BookOK(book), NEW sid \in 0..MaxSid
  PROVE  /\ BookOK(Continuous(book, sid))
         /\ Top(book) < sid => Top(Continuous(book, sid)) < sid
  <1>1. DOMAIN Continuous(book, sid) = DOMAIN book \cup (Top(book) + 1)..(sid - 1)
    BY DEF Continuous
  <1>2. Top(book) \in 0..MaxSid /\ \A s \in DOMAIN book : Top(book) >= s /\ s \in 1..MaxSid
    BY TopIsTop DEF BookOK
  <1>3. BookOK(Continuous(book, sid))
    BY <1>1, <1>2, BoundsAssumption DEF BookOK
  <1>4. Top(Continuous(book, sid)) \in {0} \cup DOMAIN Continuous(book, sid)
    BY <1>3, TopIsTop
  <1>5. Top(book) < sid => \A s \in {0} \cup DOMAIN Continuous(book, sid) : s < sid
    BY <1>1, <1>2
  <1> QED
    BY <1>3, <1>4, <1>5

LEMMA CutIsOK ==
  ASSUME NEW book, BookOK(book), NEW sid
  PROVE  BookOK(Cut(book, sid))
  BY DEF Cut, BookOK

-----------------------------------------------------------------------------
\* What a counter is computed from is in the bucket.
LEMMA RemainingIsThere ==
  ASSUME BookOK(bucket), NEW way
  PROVE  Remaining(way) \in 0..MaxSid /\ Remaining(way) \in {0} \cup DOMAIN bucket
  <1> DEFINE S == {0} \cup SidsOf(bucket, way)
  <1>1. S \subseteq 0..MaxSid /\ S # {} /\ S \subseteq {0} \cup DOMAIN bucket
    BY BoundsAssumption DEF BookOK, SidsOf
  <1> HIDE DEF S
  <1>2. Max(S) \in S /\ Max(S) \in 0..MaxSid
    BY <1>1, MaxIsBounded
  <1> QED
    BY <1>1, <1>2 DEF Remaining, S

LEMMA InitCounted == Init => Counted
  BY BoundsAssumption DEF Init, Counted, BookOK

LEMMA CountedKeeps == Counted /\ [Next]_vars => Counted'
  <1> SUFFICES ASSUME Counted, [Next]_vars PROVE Counted'
    OBVIOUS
  <1>0. /\ MaxSid \in Nat /\ BookOK(bucket) /\ BookOK(rest)
        /\ lastSent \in 0..MaxSid /\ lastReceived \in 0..MaxSid /\ value \in 0..MaxSid
    BY BoundsAssumption DEF Counted
  <1>1. \A x, y \in 0..MaxSid : Max({x, y}) \in 0..MaxSid
    <2> TAKE x, y \in 0..MaxSid
    <2>1. {x, y} \subseteq 0..MaxSid
      OBVIOUS
    <2> QED
      BY <2>1, MaxIsBounded
  <1>2. CASE Send
    <2> DEFINE sid == HighestKnownSid + 1
    <2>1. sid \in 1..MaxSid /\ sid \in 0..MaxSid
      BY <1>0, <1>2, HighestIsHighest DEF Send
    <2>2. bucket' = Upsert(Continuous(bucket, sid), sid, "sent")
          /\ lastSent' = Max({lastSent, sid}) /\ UNCHANGED <<lastReceived, value, rest>>
      BY <1>2 DEF Send, locals
    <2> HIDE DEF sid
    <2> QED
      BY <1>0, <1>1, <2>1, <2>2, ContinuousTop, UpsertTop DEF Counted
  <1>3. ASSUME NEW o \in Owners, NEW s \in 1..MaxSid, Receive(o, s) PROVE Counted'
    BY <1>0, <1>1, <1>3, UpsertTop DEF Receive, locals, Counted
  <1>4. ASSUME NEW s \in 1..MaxSid, ReceivePong(s) PROVE Counted'
    BY <1>0, <1>4, UpsertTop DEF ReceivePong, counters, locals, Counted
  <1>5. ASSUME NEW n \in 1..MaxSid, SetNext(n) PROVE Counted'
    BY <1>0, <1>5 DEF SetNext, Starts, counters, Counted
  <1>6. ASSUME NEW n \in 1..MaxSid, Delete(n) PROVE Counted'
    BY <1>0, <1>6, CutIsOK DEF Delete, Starts, counters, Counted
  <1>7. ASSUME NEW n \in 0..MaxSid, Acknowledge(n) PROVE Counted'
    BY <1>0, <1>7 DEF Acknowledge, Starts, counters, Counted
  <1>8. CASE Clear
    BY <1>0, <1>8 DEF Clear, Starts, counters, Counted
  <1>9. \A st : \A v \in 0..MaxSid : Does(st, v) => value' \in 0..MaxSid
    BY <1>0 DEF Does
  <1>10. CASE Cuts \/ Fills \/ Marks \/ Empties
    <2>1. value' \in 0..MaxSid /\ UNCHANGED <<counters, rest>>
      BY <1>0, <1>9, <1>10 DEF Cuts, Fills, Marks, Empties
    <2>2. BookOK(bucket')
      <3>1. CASE Cuts
        BY <1>0, <3>1, CutIsOK DEF Cuts
      <3>2. CASE Fills
        BY <1>0, <3>2, ContinuousTop DEF Fills
      <3>3. CASE Marks
        BY <1>0, <3>3, UpsertTop DEF Marks
      <3>4. CASE Empties
        BY <3>4 DEF Empties, BookOK
      <3> QED
        BY <1>10, <3>1, <3>2, <3>3, <3>4
    <2> QED
      BY <1>0, <2>1, <2>2 DEF counters, Counted
  <1>11. CASE Lowers
    <2>1. Min({lastReceived, lastSent}) \in {lastReceived, lastSent}
      <3> DEFINE least == IF lastReceived <= lastSent THEN lastReceived ELSE lastSent
      <3>1. least \in {lastReceived, lastSent} /\ \A y \in {lastReceived, lastSent} : least <= y
        BY <1>0
      <3> HIDE DEF least
      <3> QED
        BY <3>1 DEF Min
    <2> QED
      BY <1>0, <1>9, <1>11, <2>1 DEF Lowers, Counted
  <1>12. CASE StoresSent \/ StoresReceived
    BY <1>0, <1>9, <1>12 DEF StoresSent, StoresReceived, Counted
  <1>13. CASE Stores
    BY <1>0, <1>9, <1>13 DEF Stores, counters, Counted, BookOK
  <1>14. CASE Forgets
    BY <1>0, <1>9, <1>14 DEF Forgets, counters, Counted
  <1>15. CASE FindsSent \/ FindsReceived
    BY <1>0, <1>9, <1>15, RemainingIsThere DEF FindsSent, FindsReceived, counters, Counted
  <1>16. CASE Raises
    BY <1>0, <1>1, <1>9, <1>16 DEF Raises, Counted
  <1>17. CASE UNCHANGED vars
    BY <1>0, <1>17 DEF vars, counters, locals, Counted
  <1> QED
    BY <1>2, <1>3, <1>4, <1>5, <1>6, <1>7, <1>8, <1>10, <1>11, <1>12, <1>13, <1>14,
       <1>15, <1>16, <1>17 DEF Next

LEMMA SendCounts ==
  ASSUME Counted, Counted', Send
  PROVE  HighestKnownSid' = HighestKnownSid + 1
  <1> DEFINE sid == HighestKnownSid + 1
  <1>1. sid \in 1..MaxSid /\ HighestKnownSid \in 0..MaxSid /\ MaxSid \in Nat
    BY HighestIsHighest, BoundsAssumption DEF Send
  <1>2. /\ bucket' = Upsert(Continuous(bucket, sid), sid, "sent")
        /\ lastSent' = Max({lastSent, sid}) /\ lastReceived' = lastReceived
    BY DEF Send
  <1>3. Top(bucket) < sid /\ lastReceived < sid /\ lastSent < sid
    BY <1>1, HighestIsHighest, TopIsTop DEF Counted
  <1> HIDE DEF sid
  <1>4. Top(bucket') = sid
    <2>1. BookOK(Continuous(bucket, sid)) /\ Top(Continuous(bucket, sid)) < sid
      BY <1>1, <1>3, ContinuousTop DEF Counted
    <2>2. Top(Continuous(bucket, sid)) \in 0..MaxSid
      BY <2>1, TopIsTop
    <2> QED
      BY <1>1, <1>2, <2>1, <2>2, UpsertTop
  <1>5. lastSent' = sid
    <2>1. {lastSent, sid} \subseteq 0..MaxSid /\ \A s \in {lastSent, sid} : sid >= s
      BY <1>1, <1>3 DEF Counted
    <2> QED
      BY <1>2, <2>1, MaxIs
  <1>6. HighestKnownSid' = Max({sid, lastReceived, sid})
    BY <1>2, <1>4, <1>5 DEF HighestKnownSid
  <1>7. Max({sid, lastReceived, sid}) = sid
    <2>1. /\ {sid, lastReceived, sid} \subseteq 0..MaxSid
          /\ \A s \in {sid, lastReceived, sid} : sid >= s
      BY <1>1, <1>3 DEF Counted
    <2> QED
      BY <2>1, MaxIs
  <1> QED
    BY <1>6, <1>7 DEF sid

\* Receiving, with lastReceived raised or, for PONG, not.
LEMMA ReceiveCounts ==
  ASSUME Counted, Counted', NEW s \in 1..MaxSid,
         bucket' \in {bucket, Upsert(bucket, s, "received")},
         lastReceived' \in {lastReceived, Max({lastReceived, s})}, lastSent' = lastSent,
         \/ bucket' = Upsert(bucket, s, "received")
         \/ lastReceived' = Max({lastReceived, s})
  PROVE  HighestKnownSid' = Max({HighestKnownSid, s})
  <1> DEFINE h == HighestKnownSid
             top == IF h >= s THEN h ELSE s
             raised == IF lastReceived >= s THEN lastReceived ELSE s
             filled == IF Top(bucket) >= s THEN Top(bucket) ELSE s
  <1>1. /\ h \in {Top(bucket), lastReceived, lastSent} /\ h \in 0..MaxSid /\ MaxSid \in Nat
        /\ h >= Top(bucket) /\ h >= lastReceived /\ h >= lastSent
        /\ Top(bucket) \in 0..MaxSid /\ lastReceived \in 0..MaxSid /\ lastSent \in 0..MaxSid
    BY HighestIsHighest, TopIsTop, BoundsAssumption DEF Counted
  <1> HIDE DEF h
  <1>2. Max({h, s}) = top
    <2>1. {h, s} \subseteq 0..MaxSid /\ top \in {h, s} /\ \A x \in {h, s} : top >= x
      BY <1>1
    <2> QED
      BY <2>1, MaxIs
  <1>3. Max({lastReceived, s}) = raised
    <2>1. /\ {lastReceived, s} \subseteq 0..MaxSid /\ raised \in {lastReceived, s}
          /\ \A x \in {lastReceived, s} : raised >= x
      BY <1>1
    <2> QED
      BY <2>1, MaxIs
  <1>4. Top(Upsert(bucket, s, "received")) = filled
    BY UpsertTop DEF Counted
  <1> DEFINE S == {Top(bucket'), lastReceived', lastSent'}
  <1>5. /\ Top(bucket') \in {Top(bucket), filled}
        /\ lastReceived' \in {lastReceived, raised} /\ lastSent' = lastSent
        /\ Top(bucket') = filled \/ lastReceived' = raised
    BY <1>3, <1>4
  <1>6. S \subseteq 0..MaxSid /\ top \in S /\ \A x \in S : top >= x
    BY <1>1, <1>5
  <1>7. Max(S) = top
    <2> HIDE DEF S, top
    <2> QED
      BY <1>6, MaxIs
  <1> QED
    BY <1>2, <1>7 DEF HighestKnownSid, h

-----------------------------------------------------------------------------
(* Directions, the cache of recent packets, and deletions                     *)

LEMMA Filled ==
  ASSUME NEW book, Directed(book), NEW sid
  PROVE  /\ Directed(Continuous(book, sid)) /\ Directed(Cut(book, sid))
         /\ \A way \in {"sent", "received"} : Directed(Upsert(book, sid, way))
  BY DEF Directed, Upsert, Continuous, Cut

LEMMA DirectionsKeep ==
  ASSUME Counted, Directions, [Next]_vars
  PROVE  Directions'
  <1>0. Directed(bucket) /\ Directed(rest)
    BY DEF Directions
  <1>1. CASE Send
    BY <1>0, <1>1, Filled DEF Send, locals, Directions
  <1>2. ASSUME NEW o \in Owners, NEW s \in 1..MaxSid, Receive(o, s) PROVE Directions'
    BY <1>0, <1>2, Filled DEF Receive, locals, Directions
  <1>3. ASSUME NEW s \in 1..MaxSid, ReceivePong(s) PROVE Directions'
    BY <1>0, <1>3, Filled DEF ReceivePong, locals, Directions
  <1>4. ASSUME NEW n \in 1..MaxSid, Delete(n) PROVE Directions'
    BY <1>0, <1>4, Filled DEF Delete, Starts, Directions
  <1>5. CASE Cuts \/ Fills \/ Marks
    BY <1>0, <1>5, Filled DEF Cuts, Fills, Marks, Directions
  <1>6. CASE Empties \/ Stores
    BY <1>0, <1>6 DEF Empties, Stores, Directions, Directed
  <1>7. CASE bucket' = bucket /\ rest' = rest
    BY <1>0, <1>7 DEF Directions
  <1> QED
    BY <1>1, <1>2, <1>3, <1>4, <1>5, <1>6, <1>7
       DEF Next, SetNext, Acknowledge, Clear, Starts, Lowers, StoresSent, StoresReceived,
           Forgets, FindsSent, FindsReceived, Raises, vars, locals

\* An entry is appended, and as many are cut off in front as are too many.
LEMMA RecordedIsCached ==
  ASSUME Cached, NEW o \in Owners, NEW s \in 1..MaxSid
  PROVE  /\ Recorded(o, s) \in Cache /\ Len(Recorded(o, s)) <= MaxRecent
         /\ \A e \in ToSet(Recorded(o, s)) :
                e \in ToSet(recent) \/ e = [owner |-> o, sid |-> s]
  <1> DEFINE all == Append(recent, [owner |-> o, sid |-> s])
             m == Len(all) - MaxRecent + 1
             first == Max({1, m})
  <1>0. [owner |-> o, sid |-> s] \in Entry
    BY DEF Entry
  <1>1. /\ all \in Cache /\ Len(all) \in Nat /\ Len(all) >= 1
        /\ Len(all) <= MaxRecent + 1 /\ MaxRecent \in Nat
    BY <1>0, BoundsAssumption DEF Cached, Cache
  <1> HIDE DEF all
  <1>2. first \in 1..Len(all) /\ first >= m
    <2>1. {1, m} \subseteq Int
      BY <1>1
    <2>2. {1, m} \cap Nat \in SUBSET Nat
      OBVIOUS
    <2>3. first = IF m > 1 THEN m ELSE 1
      <3> DEFINE x == IF m > 1 THEN m ELSE 1
      <3>1. x \in {1, m} /\ \A y \in {1, m} : x >= y
        BY <1>1
      <3>2. \A z \in {1, m} : (\A y \in {1, m} : z >= y) => z = x
        BY <1>1
      <3> HIDE DEF x, m
      <3> QED
        BY <3>1, <3>2 DEF Max, x
    <2> QED
      BY <1>1, <2>3, BoundsAssumption
  <1>3. Recorded(o, s) = SubSeq(all, first, Len(all))
    BY DEF Recorded, all
  <1> HIDE DEF first
  <1>4. SubSeq(all, first, Len(all)) \in Cache
    <2>1. all \in Seq(Entry)
      BY <1>1 DEF Cache
    <2> QED
      BY <1>1, <1>2, <2>1, SubSeqProperties DEF Cache
  <1>5. /\ Len(SubSeq(all, first, Len(all))) = Len(all) - first + 1
        /\ \A i \in 1..(Len(all) - first + 1) :
                SubSeq(all, first, Len(all))[i] = all[first + i - 1]
    <2>1. all \in Seq(Entry)
      BY <1>1 DEF Cache
    <2> QED
      BY <1>1, <1>2, <2>1, SubSeqProperties
  <1>6. ASSUME NEW e \in ToSet(Recorded(o, s))
        PROVE  e \in ToSet(recent) \/ e = [owner |-> o, sid |-> s]
    <2>1. recent \in Seq(Entry) /\ Len(recent) \in Nat
      BY DEF Cached, Cache
    <2>2. Recorded(o, s) \in Seq(Entry)
      BY <1>3, <1>4 DEF Cache
    <2>3. PICK i \in 1..Len(Recorded(o, s)) : e = Recorded(o, s)[i]
      BY <2>2 DEF ToSet
    <2>4. first + i - 1 \in 1..Len(all) /\ e = all[first + i - 1]
      BY <1>1, <1>2, <1>3, <1>5, <2>3
    <2>5. Len(all) = Len(recent) + 1 /\ DOMAIN recent = 1..Len(recent)
          /\ \A k \in 1..Len(all) : all[k] = IF k <= Len(recent) THEN recent[k]
                                               ELSE [owner |-> o, sid |-> s]
      BY <1>0, <2>1 DEF all
    <2> QED
      BY <2>1, <2>4, <2>5 DEF ToSet
  <1> QED
    BY <1>1, <1>2, <1>3, <1>4, <1>5, <1>6

\* Of the entries, those that are left: what each of them is, and how many.
LEMMA LeftIsCached ==
  ASSUME Cached, NEW left \in SUBSET DOMAIN recent,
         NEW place \in [1..Cardinality(left) -> left],
         recent' = [i \in DOMAIN place |-> recent[place[i]]]
  PROVE  /\ Cached'
         /\ \A e \in ToSet(recent') : \E k \in left : e = recent[k]
  <1>1. recent \in Cache /\ Len(recent) \in Nat /\ DOMAIN recent = 1..Len(recent)
    BY DEF Cached, Cache
  <1>2. Cardinality(left) \in Nat /\ Cardinality(left) <= Len(recent)
    <2>1. IsFiniteSet(1..Len(recent)) /\ Cardinality(1..Len(recent)) = Len(recent)
      BY <1>1, FS_Interval, SMTT(30)
    <2>2. IsFiniteSet(left) /\ Cardinality(left) <= Cardinality(1..Len(recent))
      BY <1>1, <2>1, FS_Subset
    <2> QED
      BY <2>1, <2>2, FS_CardinalityType
  <1>3. \A i \in 1..Cardinality(left) : recent'[i] = recent[place[i]] /\ place[i] \in left
    OBVIOUS
  <1>4. DOMAIN recent' = 1..Cardinality(left)
    OBVIOUS
  <1>5. \A k \in left : recent[k] \in Entry
    BY <1>1 DEF Cache
  <1>6. recent' = [i \in 1..Cardinality(left) |-> recent[place[i]]]
    OBVIOUS
  <1>7. recent' \in Cache /\ Len(recent') = Cardinality(left)
    BY <1>2, <1>3, <1>5, <1>6 DEF Cache
  <1>8. Cached'
    BY <1>1, <1>2, <1>7, BoundsAssumption DEF Cached, Cache, Entry, Owners
  <1>9. \A e \in ToSet(recent') : \E k \in left : e = recent[k]
    BY <1>3, <1>4 DEF ToSet
  <1> QED
    BY <1>8, <1>9

LEMMA CachedKeeps ==
  ASSUME Counted, Cached, [Next]_vars
  PROVE  Cached'
  <1>1. CASE recent' = recent
    BY <1>1 DEF Cached, Cache, Entry, Owners
  <1>2. ASSUME NEW o \in Owners, NEW s \in 1..MaxSid, recent' = Recorded(o, s)
        PROVE  Cached'
    BY <1>2, RecordedIsCached DEF Cached, Cache, Entry, Owners
  <1>3. CASE Send
    <2>1. HighestKnownSid + 1 \in 1..MaxSid
      BY <1>3, HighestIsHighest, BoundsAssumption DEF Send
    <2> QED
      BY <1>2, <1>3, <2>1 DEF Send, Owners
  <1>4. CASE Forgets
    <2>1. PICK left \in SUBSET DOMAIN recent : \E place \in [1..Cardinality(left) -> left] :
              recent' = [i \in DOMAIN place |-> recent[place[i]]]
      BY <1>4 DEF Forgets
    <2> QED
      BY <2>1, LeftIsCached
  <1> QED
    BY <1>1, <1>2, <1>3, <1>4
       DEF Next, Receive, ReceivePong, SetNext, Delete, Acknowledge, Clear, Starts, Cuts,
           Fills, Marks, Empties, Lowers, StoresSent, StoresReceived, Stores, FindsSent,
           FindsReceived, Raises, vars

-----------------------------------------------------------------------------
(* A deletion, statement by statement                                         *)

\* Which statement of a deletion is where.
LEMMA WhichStatement ==
  ASSUME command = "delete", at \in 1..7, NEW st, NEW v, Does(st, v)
  PROVE  /\ at = 1 => st = "store"
         /\ at = 2 => st = "forget"
         /\ at = 3 => st = "findSent"
         /\ at = 4 => st = "sent"
         /\ at = 5 => st = "findReceived"
         /\ at = 6 => st = "received"
         /\ at = 7 => st = "raise"
         /\ at = 7 => command' = "none"
         /\ at # 7 => /\ at' = at + 1 /\ value' = v
                      /\ UNCHANGED <<command, removed, since>>
  BY DEF Does, Program

\* So a statement of a deletion is the action of its place.
LEMMA StatementOfDelete ==
  ASSUME command = "delete", at \in 1..7, [Next]_vars, \E st, v : Does(st, v)
  PROVE  /\ at = 1 => Stores
         /\ at = 2 => Forgets
         /\ at = 3 => FindsSent
         /\ at = 4 => StoresSent
         /\ at = 5 => FindsReceived
         /\ at = 6 => StoresReceived
         /\ at = 7 => Raises
  <1>1. command' # command \/ at' # at
    BY DEF Does, Program, locals
  <1>2. \/ Cuts \/ Fills \/ Marks \/ Empties \/ Lowers \/ StoresSent \/ StoresReceived
        \/ Stores \/ Forgets \/ FindsSent \/ FindsReceived \/ Raises
    BY <1>1 DEF Next, Send, Receive, ReceivePong, SetNext, Delete, Acknowledge, Clear,
                Starts, locals, vars
  <1>3. ASSUME NEW st, NEW v, Does(st, v)
        PROVE  /\ at = 1 => st = "store"
               /\ at = 2 => st = "forget"
               /\ at = 3 => st = "findSent"
               /\ at = 4 => st = "sent"
               /\ at = 5 => st = "findReceived"
               /\ at = 6 => st = "received"
               /\ at = 7 => st = "raise"
    BY <1>3, WhichStatement
  <1>4. /\ Cuts => \E v : Does("cut", v)
        /\ Fills => \E v : Does("fill", v)
        /\ Marks => \E v : Does("mark", v)
        /\ Empties => \E v : Does("empty", v)
        /\ Lowers => \E v : Does("lower", v)
        /\ StoresSent => \E v : Does("sent", v)
        /\ StoresReceived => \E v : Does("received", v)
        /\ Stores => \E v : Does("store", v)
        /\ Forgets => \E v : Does("forget", v)
        /\ FindsSent => \E v : Does("findSent", v)
        /\ FindsReceived => \E v : Does("findReceived", v)
        /\ Raises => \E v : Does("raise", v)
    BY DEF Cuts, Fills, Marks, Empties, Lowers, StoresSent, StoresReceived, Stores, Forgets,
           FindsSent, FindsReceived, Raises
  <1> QED
    BY <1>2, <1>3, <1>4

\* A packet recorded with this sid raises the bucket and the counters to it at most.
LEMMA PacketKeepsDeleting ==
  ASSUME Counted, Counted', Cached, Deleting, NEW o \in Owners, NEW n \in 1..MaxSid,
         since' = Noted(n), UNCHANGED locals,
         \A x \in DOMAIN bucket' : x \in DOMAIN bucket \/ x <= n,
         lastSent' \in {lastSent, Max({lastSent, n})},
         lastReceived' \in {lastReceived, Max({lastReceived, n})},
         recent' \in {recent, Recorded(o, n)}
  PROVE  Deleting'
  <1> SUFFICES ASSUME command = "delete" PROVE Deleting'
    BY DEF Deleting, locals
  <1>0. /\ at \in 1..7 /\ removed \subseteq 1..MaxSid /\ MaxSid \in Nat
        /\ lastSent \in 0..MaxSid /\ lastReceived \in 0..MaxSid
        /\ UNCHANGED <<command, at, value, removed, rest>>
    BY BoundsAssumption DEF Deleting, Counted, locals
  <1>1. \A k \in 0..MaxSid : Max({k, n}) \in {k, n}
    <2> TAKE k \in 0..MaxSid
    <2>1. {k, n} \subseteq 0..MaxSid
      BY <1>0
    <2> QED
      BY <2>1, MaxIsBounded
  <1> SUFFICES ASSUME NEW s \in removed
      PROVE  /\ at = 1 => \A x \in DOMAIN rest : x < s
             /\ at > 1 /\ (\A x \in since' : x < s) =>
                 /\ \A x \in DOMAIN bucket' : x < s
                 /\ at \in {4, 6} => value < s
                 /\ at > 4 => lastSent' < s
                 /\ at > 6 => lastReceived' < s
             /\ at > 2 /\ s \notin since' => ~ Shown(s)'
    BY <1>0 DEF Deleting
  <1>2. at > 1 => since' = since \cup {n}
    BY DEF Noted
  <1>3. /\ at = 1 => \A x \in DOMAIN rest : x < s
        /\ at > 1 /\ (\A x \in since : x < s) =>
            /\ \A x \in DOMAIN bucket : x < s
            /\ at \in {4, 6} => value < s
            /\ at > 4 => lastSent < s
            /\ at > 6 => lastReceived < s
        /\ at > 2 /\ s \notin since => ~ Shown(s)
    BY DEF Deleting
  <1>4. ASSUME at > 1, \A x \in since' : x < s
        PROVE  /\ \A x \in DOMAIN bucket' : x < s
               /\ at \in {4, 6} => value < s
               /\ at > 4 => lastSent' < s
               /\ at > 6 => lastReceived' < s
    <2>1. (\A x \in since : x < s) /\ n < s /\ s \in 1..MaxSid
      BY <1>0, <1>2, <1>4
    <2>2. \A x \in DOMAIN bucket' : x < s
      <3> TAKE x \in DOMAIN bucket'
      <3>1. CASE x \in DOMAIN bucket
        BY <1>3, <1>4, <2>1, <3>1
      <3>2. CASE x \notin DOMAIN bucket
        <4>1. x <= n
          BY <3>2
        <4> QED
          BY <1>0, <2>1, <4>1 DEF Counted, BookOK
      <3> QED
        BY <3>1, <3>2
    <2> QED
      BY <1>0, <1>1, <1>3, <1>4, <2>1, <2>2
  <1>5. ASSUME at > 2, s \notin since' PROVE ~ Shown(s)'
    <2>1. s \notin since /\ s # n
      BY <1>0, <1>2, <1>5
    <2>2. \A e \in ToSet(recent') : e \in ToSet(recent) \/ e = [owner |-> o, sid |-> n]
      BY RecordedIsCached
    <2> QED
      BY <1>3, <1>5, <2>1, <2>2 DEF Shown
  <1> QED
    BY <1>3, <1>4, <1>5

LEMMA DeletingKeeps ==
  ASSUME Counted, Counted', Cached, Deleting, [Next]_vars
  PROVE  Deleting'
  <1>0. /\ MaxSid \in Nat /\ BookOK(bucket) /\ BookOK(rest)
        /\ lastSent \in 0..MaxSid /\ lastReceived \in 0..MaxSid /\ value \in 0..MaxSid
    BY BoundsAssumption DEF Counted
  <1>1. CASE Send
    <2> DEFINE sid == HighestKnownSid + 1
    <2>1. sid \in 1..MaxSid /\ sid \in 0..MaxSid /\ Top(bucket) < sid
          /\ \A x \in DOMAIN bucket : x < sid
      BY <1>0, <1>1, HighestIsHighest, TopIsTop DEF Send, BookOK
    <2>2. /\ bucket' = Upsert(Continuous(bucket, sid), sid, "sent")
          /\ lastSent' = Max({lastSent, sid}) /\ lastReceived' = lastReceived
          /\ recent' = Recorded(Server, sid) /\ since' = Noted(sid) /\ UNCHANGED locals
      BY <1>1 DEF Send
    <2> HIDE DEF sid
    <2>3. \A x \in DOMAIN bucket' : x \in DOMAIN bucket \/ x <= sid
      <3>1. DOMAIN bucket' = DOMAIN bucket \cup (Top(bucket) + 1)..(sid - 1) \cup {sid}
        BY <2>2 DEF Upsert, Continuous
      <3>2. Top(bucket) \in 0..MaxSid
        BY <1>0, TopIsTop
      <3> QED
        BY <1>0, <2>1, <3>1, <3>2
    <2>4. Server \in Owners
      BY DEF Owners
    <2> QED
      BY <2>1, <2>2, <2>3, <2>4, PacketKeepsDeleting
  <1>2. ASSUME NEW o \in Owners, NEW s \in 1..MaxSid, Receive(o, s) PROVE Deleting'
    <2>1. \A x \in DOMAIN bucket' : x \in DOMAIN bucket \/ x <= s
      BY <1>0, <1>2 DEF Receive, Upsert, BookOK
    <2> QED
      BY <1>2, <2>1, PacketKeepsDeleting DEF Receive
  <1>3. ASSUME NEW s \in 1..MaxSid, ReceivePong(s) PROVE Deleting'
    <2>1. \A x \in DOMAIN bucket' : x \in DOMAIN bucket \/ x <= s
      BY <1>0, <1>3 DEF ReceivePong, Upsert, BookOK
    <2>2. Server \in Owners
      BY DEF Owners
    <2> QED
      BY <1>3, <2>1, <2>2, PacketKeepsDeleting DEF ReceivePong, counters
  <1>4. ASSUME NEW n \in 1..MaxSid, Delete(n) PROVE Deleting'
    <2>1. at' = 1
      BY <1>4 DEF Delete, Starts
    <2>2. PICK kept \in {0} \cup DOMAIN bucket :
              /\ removed' = {s \in DOMAIN bucket : s > kept}
              /\ rest' = Cut(bucket, kept)
      BY <1>4 DEF Delete
    <2>3. \A x \in DOMAIN rest' : x \in DOMAIN bucket /\ x <= kept
      BY <2>2 DEF Cut
    <2>4. removed' \subseteq 1..MaxSid /\ \A s \in removed' : \A x \in DOMAIN rest' : x < s
      BY <1>0, <2>2, <2>3 DEF BookOK
    <2> QED
      BY <2>1, <2>4 DEF Deleting
  <1>5. CASE (\E n \in 1..MaxSid : SetNext(n)) \/ (\E n \in 0..MaxSid : Acknowledge(n)) \/ Clear
    BY <1>5 DEF SetNext, Acknowledge, Clear, Starts, Deleting
  <1>6. CASE UNCHANGED vars
    <2>1. UNCHANGED <<command, at, value, removed, rest, bucket, lastSent, lastReceived,
                      recent, since>>
      BY <1>6 DEF vars, locals, counters
    <2> QED
      BY <2>1 DEF Deleting, Shown
  <1>7. CASE command # "delete" /\ \E st, v : Does(st, v)
    BY <1>7 DEF Does, Deleting
  <1>8. CASE command = "delete" /\ \E st, v : Does(st, v)
    <2>0. at \in 1..7 /\ removed \subseteq 1..MaxSid
      BY <1>8 DEF Deleting
    <2>1. CASE at = 7
      BY <1>8, <2>0, <2>1, WhichStatement DEF Deleting
    <2> SUFFICES ASSUME at # 7 PROVE Deleting'
      BY <2>1
    <2>2. at' = at + 1 /\ UNCHANGED <<command, removed, since>>
      BY <1>8, <2>0, WhichStatement
    <2> SUFFICES ASSUME NEW s \in removed
        PROVE  /\ (\A x \in since : x < s) =>
                    /\ \A x \in DOMAIN bucket' : x < s
                    /\ at \in {3, 5} => value' < s
                    /\ at > 3 => lastSent' < s
                    /\ at > 5 => lastReceived' < s
               /\ at > 1 /\ s \notin since => ~ Shown(s)'
      BY <1>8, <2>0, <2>2 DEF Deleting
    <2>3. /\ at = 1 => \A x \in DOMAIN rest : x < s
          /\ at > 1 /\ (\A x \in since : x < s) =>
              /\ \A x \in DOMAIN bucket : x < s
              /\ at \in {4, 6} => value < s
              /\ at > 4 => lastSent < s
              /\ at > 6 => lastReceived < s
          /\ at > 2 /\ s \notin since => ~ Shown(s)
      BY <1>8 DEF Deleting
    <2>4. CASE at = 1
      <3>1. Stores
        BY <1>8, <2>0, <2>4, StatementOfDelete
      <3> QED
        BY <2>3, <2>4, <3>1 DEF Stores
    <2>5. CASE at = 2
      <3>1. Forgets
        BY <1>8, <2>0, <2>5, StatementOfDelete
      <3>2. UNCHANGED <<bucket, counters>>
        BY <3>1 DEF Forgets
      <3>3. ~ Shown(s)'
        <4> DEFINE left == {k \in DOMAIN recent :
                              recent[k].sid \notin removed \/ recent[k].owner # Server}
        <4>1. PICK place \in [1..Cardinality(left) -> left] :
                  recent' = [i \in DOMAIN place |-> recent[place[i]]]
          BY <3>1 DEF Forgets
        <4>2. left \in SUBSET DOMAIN recent
          OBVIOUS
        <4> HIDE DEF left
        <4>3. \A e \in ToSet(recent') : \E k \in left : e = recent[k]
          BY <4>1, <4>2, LeftIsCached
        <4>4. \A k \in left : recent[k].sid \notin removed \/ recent[k].owner # Server
          BY DEF left
        <4> QED
          BY <4>3, <4>4 DEF Shown
      <3> QED
        BY <2>3, <2>5, <3>2, <3>3
    <2>6. CASE at = 3
      <3>1. FindsSent
        BY <1>8, <2>0, <2>6, StatementOfDelete
      <3>2. UNCHANGED <<bucket, recent, counters>> /\ value' = Remaining("sent")
        BY <1>8, <2>0, <2>6, <3>1, WhichStatement DEF FindsSent
      <3>3. (\A x \in since : x < s) => value' < s
        BY <1>0, <2>0, <2>3, <2>6, <3>2, RemainingIsThere
      <3> QED
        BY <2>3, <2>6, <3>2, <3>3 DEF Shown
    <2>7. CASE at = 4
      <3>1. StoresSent
        BY <1>8, <2>0, <2>7, StatementOfDelete
      <3> QED
        BY <2>3, <2>7, <3>1 DEF StoresSent, Shown
    <2>8. CASE at = 5
      <3>1. FindsReceived
        BY <1>8, <2>0, <2>8, StatementOfDelete
      <3>2. UNCHANGED <<bucket, recent, lastSent, lastReceived>>
            /\ value' = Remaining("received")
        BY <1>8, <2>0, <2>8, <3>1, WhichStatement DEF FindsReceived, counters
      <3>3. (\A x \in since : x < s) => value' < s
        BY <1>0, <2>0, <2>3, <2>8, <3>2, RemainingIsThere
      <3> QED
        BY <2>3, <2>8, <3>2, <3>3 DEF Shown
    <2>9. CASE at = 6
      <3>1. StoresReceived
        BY <1>8, <2>0, <2>9, StatementOfDelete
      <3> QED
        BY <2>3, <2>9, <3>1 DEF StoresReceived, Shown
    <2> QED
      BY <2>0, <2>4, <2>5, <2>6, <2>7, <2>8, <2>9
  <1>9. CASE Cuts \/ Fills \/ Marks \/ Empties \/ Lowers \/ StoresSent \/ StoresReceived
             \/ Stores \/ Forgets \/ FindsSent \/ FindsReceived \/ Raises
    BY <1>7, <1>8, <1>9 DEF Cuts, Fills, Marks, Empties, Lowers, StoresSent,
         StoresReceived, Stores, Forgets, FindsSent, FindsReceived, Raises
  <1> QED
    BY <1>1, <1>2, <1>3, <1>4, <1>5, <1>6, <1>9 DEF Next

LEMMA InitIInv == Init => IInv
  <1> SUFFICES ASSUME Init PROVE IInv
    OBVIOUS
  <1>1. Counted
    BY InitCounted
  <1>2. Directions /\ Cached /\ Deleting
    BY BoundsAssumption DEF Init, Directions, Directed, Cached, Cache, Deleting
  <1> QED
    BY <1>1, <1>2 DEF IInv

LEMMA NextKeeps == IInv /\ [Next]_vars => IInv'
  BY CountedKeeps, DirectionsKeep, CachedKeeps, DeletingKeeps DEF IInv

\* The invariant the theorem below follows from holds in every state.
THEOREM Invariance == Spec => []IInv
  <1>1. Init => IInv
    BY InitIInv
  <1>2. IInv /\ [Next]_vars => IInv'
    BY NextKeeps
  <1> QED
    BY <1>1, <1>2, PTL DEF Spec

\* The highest known sid behaves as one number, as AccountLink has it: a
\* received packet, relayed or not, raises it to its sid, and an own packet
\* takes the next one, whatever commands have made of the state.
THEOREM KnownIsOneNumber == Spec => KnownCounts
  <1> DEFINE Counts ==
        /\ Send => HighestKnownSid' = HighestKnownSid + 1
        /\ \A s \in 1..MaxSid :
            (ReceivePong(s) \/ \E o \in Owners : Receive(o, s))
                => HighestKnownSid' = Max({HighestKnownSid, s})
  <1>1. IInv /\ IInv' /\ [Next]_vars => [Counts]_vars
    <2> SUFFICES ASSUME IInv, IInv' PROVE Counts
      OBVIOUS
    <2>0. Counted /\ Counted'
      BY DEF IInv
    <2>1. Send => HighestKnownSid' = HighestKnownSid + 1
      BY <2>0, SendCounts
    <2>2. ASSUME NEW s \in 1..MaxSid, ReceivePong(s)
          PROVE  HighestKnownSid' = Max({HighestKnownSid, s})
      BY <2>0, <2>2, ReceiveCounts DEF ReceivePong, counters
    <2>3. ASSUME NEW s \in 1..MaxSid, NEW o \in Owners, Receive(o, s)
          PROVE  HighestKnownSid' = Max({HighestKnownSid, s})
      BY <2>0, <2>3, ReceiveCounts DEF Receive
    <2> QED
      BY <2>1, <2>2, <2>3
  <1> QED
    BY <1>1, Invariance, PTL DEF KnownCounts, Spec

\* Every variable keeps its type, and the cache of recent packets its bound.
THEOREM TypeCorrect == Spec => []TypeOK
  <1>1. IInv => TypeOK
    BY DEF IInv, Counted, BookOK, Directions, Directed, Cached, Cache, Entry, TypeOK
  <1> QED
    BY <1>1, Invariance, PTL

\* When a deletion ends, a removed sid is above the highest known one unless a
\* packet recorded since its bucket was stored has that sid or a higher one, and it
\* is shown as recent only if such a packet has it.
LEMMA EndIsForgotten ==
  ASSUME IInv, Next, command = "delete", command' = "none", NEW s \in removed
  PROVE  /\ (\A x \in since : x < s) => HighestKnownSid' < s
         /\ s \notin since => [owner |-> Server, sid |-> s] \notin ToSet(recent')
  <1>0. Counted /\ Deleting /\ MaxSid \in Nat /\ at \in 1..7 /\ s \in 1..MaxSid
    BY BoundsAssumption DEF IInv, Deleting
  <1>1. \E st, v : Does(st, v)
    BY DEF Next, Send, Receive, ReceivePong, SetNext, Delete, Acknowledge, Clear, Starts,
           locals, Cuts, Fills, Marks, Empties, Lowers, StoresSent, StoresReceived, Stores,
           Forgets, FindsSent, FindsReceived, Raises
  <1>2. at = 7
    BY <1>0, <1>1, WhichStatement
  <1>3. Raises
    BY <1>0, <1>1, <1>2, StatementOfDelete
  <1>4. /\ UNCHANGED <<bucket, recent, lastReceived>>
        /\ lastSent' = Max({lastSent, lastReceived})
    BY <1>3 DEF Raises
  <1>5. s \notin since => ~ Shown(s)
    BY <1>0, <1>2 DEF Deleting
  <1>6. ASSUME \A x \in since : x < s PROVE HighestKnownSid' < s
    <2>1. (\A x \in DOMAIN bucket : x < s) /\ lastSent < s /\ lastReceived < s
      BY <1>0, <1>2, <1>6 DEF Deleting
    <2>2. BookOK(bucket) /\ lastSent \in 0..MaxSid /\ lastReceived \in 0..MaxSid
      BY <1>0 DEF Counted
    <2>3. lastSent' \in {lastSent, lastReceived}
      <3>1. {lastSent, lastReceived} \subseteq 0..MaxSid
        BY <2>2
      <3> QED
        BY <1>4, <3>1, MaxIsBounded
    <2>4. Top(bucket) \in 0..MaxSid /\ Top(bucket) < s
      <3>1. Top(bucket) \in {0} \cup DOMAIN bucket /\ Top(bucket) \in 0..MaxSid
        BY <2>2, TopIsTop
      <3> QED
        BY <1>0, <2>1, <3>1
    <2> DEFINE known == {Top(bucket), lastReceived, lastSent'}
    <2>5. known \subseteq 0..MaxSid /\ known # {} /\ \A x \in known : x < s
      BY <2>1, <2>2, <2>3, <2>4
    <2>6. HighestKnownSid' = Max(known)
      BY <1>4 DEF HighestKnownSid
    <2> HIDE DEF known
    <2> QED
      BY <2>5, <2>6, MaxIsBounded
  <1> QED
    BY <1>4, <1>5, <1>6 DEF Shown

\* For any bucket, any count and any packets recorded while the command works:
\* what delete_recent_sids removes is forgotten when it ends, but for what packets
\* recorded after the shortened bucket was stored bring back.
THEOREM DeletionForgets == Spec => DeletedIsForgotten
  <1> DEFINE Forgotten ==
        command = "delete" /\ command' = "none" =>
            \A s \in removed :
                /\ (\A x \in since : x < s) => HighestKnownSid' < s
                /\ s \notin since => [owner |-> Server, sid |-> s] \notin ToSet(recent')
  <1>1. IInv /\ [Next]_vars => [Forgotten]_vars
    <2> SUFFICES ASSUME IInv, Next PROVE Forgotten
      OBVIOUS
    <2> QED
      BY EndIsForgotten
  <1> QED
    BY <1>1, Invariance, PTL DEF DeletedIsForgotten, Spec

=============================================================================
