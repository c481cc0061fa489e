------------------------- MODULE AccountLinkProofs -------------------------
(* Proofs about the link of one account, for any number of packets, losses    *)
(* and lost connections.                                                      *)
EXTENDS AccountLink, FiniteSetTheorems, WellFoundedInduction, TLAPS

-----------------------------------------------------------------------------
(* Sets of natural numbers.  What is chosen from one by CHOOSE is understood  *)
(* only through these; they rest on < being well-founded on Nat.              *)

\* Every set of natural numbers but the empty one has a least element.
LEMMA LeastExists ==
  ASSUME NEW S \in SUBSET Nat, S # {}
  PROVE  \E s \in S : \A t \in S : s <= t
  <1> DEFINE Less == OpToRel(<, Nat)
  <1>1. \E s \in S : \A t \in S : ~ (<<t, s>> \in Less)
    <2>1. IsWellFoundedOn(Less, Nat)
      BY NatLessThanWellFounded
    <2> HIDE DEF Less
    <2> QED
      BY <2>1, WFMin
  <1>2. \A s \in S : s \in Nat
    OBVIOUS
  <1>3. PICK s \in S : \A t \in S : ~ (<<t, s>> \in Less)
    BY <1>1
  <1>4. \A t \in S : ~ (t < s)
    BY <1>2, <1>3 DEF OpToRel
  <1> QED
    BY <1>2, <1>4

\* One that has a bound has a greatest element too, and Max is that.
LEMMA MaxExists ==
  ASSUME NEW S \in SUBSET Nat, S # {}, NEW b \in Nat, \A s \in S : s <= b
  PROVE  /\ Max(S) \in S /\ Max(S) \in Nat
         /\ \A s \in S : Max(S) >= s
  <1> DEFINE Gaps == {b - s : s \in S}
  <1>1. \A s \in S : s \in Nat /\ b - s \in Nat
    OBVIOUS
  <1>2. Gaps \in SUBSET Nat /\ Gaps # {}
    BY <1>1
  <1>3. \E g \in Gaps : \A h \in Gaps : g <= h
    <2> HIDE DEF Gaps
    <2> QED
      BY <1>2, LeastExists
  <1>4. PICK m \in S : \A h \in Gaps : b - m <= h
    BY <1>3
  <1>5. \A s \in S : m >= s
    <2> TAKE s \in S
    <2>1. b - m <= b - s
      BY <1>4
    <2> QED
      BY <1>1, <2>1
  <1> QED
    BY <1>1, <1>5 DEF Max

LEMMA MaxOfTwo ==
  ASSUME NEW x \in Nat, NEW y \in Nat
  PROVE  Max({x, y}) = IF x >= y THEN x ELSE y
  <1>1. \A s \in {x, y} : s <= x + y
    OBVIOUS
  <1>2. /\ Max({x, y}) \in {x, y}
        /\ \A s \in {x, y} : Max({x, y}) >= s
    BY <1>1, MaxExists
  <1> QED
    BY <1>2

-----------------------------------------------------------------------------
Below(S, s) == {t \in S : t < s}

\* In a finite set of numbers some element has exactly i - 1 smaller ones: of
\* the i for which there is none the least would follow one for which there is.
LEMMA RankExists ==
  ASSUME NEW S \in SUBSET Nat, IsFiniteSet(S), NEW i \in 1..Cardinality(S)
  PROVE  \E s \in S : Cardinality(Below(S, s)) = i - 1
  <1> DEFINE N == Cardinality(S)
             Has(k) == \E s \in S : Cardinality(Below(S, s)) = k - 1
             Bad == {k \in 1..N : ~ Has(k)}
  <1>1. N \in Nat
    BY FS_CardinalityType
  <1>2. \A s \in S : s \in Nat
    OBVIOUS
  <1>3. SUFFICES ASSUME Bad # {} PROVE FALSE
    OBVIOUS
  <1>4. PICK k \in 1..N : ~ Has(k) /\ \A j \in 1..k - 1 : Has(j)
    <2>1. Bad \in SUBSET Nat
      BY <1>1
    <2>2. PICK k \in Bad : \A j \in Bad : k <= j
      <3> HIDE DEF Bad
      <3> QED
        BY <1>3, <2>1, LeastExists
    <2>3. \A j \in 1..k - 1 : j \in 1..N /\ j \notin Bad
      BY <1>1, <2>2
    <2> QED
      BY <2>2, <2>3
  <1> HIDE DEF Bad, Has
  <1>5. CASE k = 1
    <2>1. S # {}
      BY <1>1, <1>4, FS_EmptySet
    <2>2. PICK s \in S : \A t \in S : s <= t
      BY <2>1, LeastExists
    <2>3. \A t \in S : ~ (t < s)
      BY <1>2, <2>2
    <2>4. Below(S, s) = {}
      BY <2>3 DEF Below
    <2> QED
      BY <1>4, <1>5, <2>4, FS_EmptySet DEF Has
  <1>6. CASE k # 1
    <2>1. k - 1 \in 1..k - 1
      BY <1>1, <1>6
    <2>2. PICK s \in S : Cardinality(Below(S, s)) = (k - 1) - 1
      BY <1>4, <2>1 DEF Has
    <2> DEFINE UpTo == Below(S, s) \cup {s}
               Rest == S \ UpTo
    <2>3. IsFiniteSet(Below(S, s)) /\ s \notin Below(S, s)
      <3>1. Below(S, s) \subseteq S /\ s \notin Below(S, s)
        BY <1>2 DEF Below
      <3> QED
        BY <3>1, FS_Subset
    <2>4. Cardinality(UpTo) = k - 1
      <3>1. Cardinality(UpTo) = Cardinality(Below(S, s)) + 1
        BY <2>3, FS_AddElement
      <3> QED
        BY <1>1, <2>2, <3>1
    <2>5. Rest # {}
      <3>1. Rest = {} => S = UpTo
        BY DEF Below
      <3>2. S # UpTo
        <4> HIDE DEF UpTo
        <4> QED
          BY <1>1, <2>4
      <3> QED
        BY <3>1, <3>2
    <2>6. PICK u \in Rest : \A t \in Rest : u <= t
      <3>1. Rest \in SUBSET Nat
        OBVIOUS
      <3> HIDE DEF Rest
      <3> QED
        BY <2>5, <3>1, LeastExists
    <2>7. \A t \in S : t < u <=> t \in UpTo
      BY <1>2, <2>6 DEF Below
    <2>8. Below(S, u) = UpTo
      BY <2>7 DEF Below
    <2> QED
      BY <1>4, <2>4, <2>6, <2>8 DEF Has
  <1> QED
    BY <1>5, <1>6

-----------------------------------------------------------------------------
(* Messages                                                                   *)

Ways == {"sent", "received"}

\* Bodies of data packets that the server's plugins sent.
BodyOK(m) == m.type = "data" => m.body \in 1..MaxData

LEMMA MsgFields ==
  /\ \A m \in Msgs : m.type \in MsgTypes /\ m.sid \in Nat /\ m.body \in Nat
  /\ \A ch \in Seq(Msgs) : \A i \in 1..Len(ch) : ch[i] \in Msgs
  <1>1. \A m \in Msgs : m.type \in MsgTypes /\ m.sid \in Nat /\ m.body \in Nat
    BY DEF Msgs
  <1>2. \A ch \in Seq(Msgs) : \A i \in 1..Len(ch) : ch[i] \in Msgs
    OBVIOUS
  <1> QED
    BY <1>1, <1>2

LEMMA MsgIsMsg ==
  ASSUME NEW type \in MsgTypes, NEW sid \in Nat, NEW body \in Nat
  PROVE  /\ Msg(type, sid, body) \in Msgs
         /\ Msg(type, sid, body).type = type
         /\ Msg(type, sid, body).sid = sid
         /\ Msg(type, sid, body).body = body
  BY DEF Msg, Msgs

-----------------------------------------------------------------------------
(* The ledger                                                                 *)

EntryOK(entry, s) ==
    /\ entry.msg \in Msgs /\ entry.msg.sid = s
    /\ entry.direction \in Ways
    /\ entry.direction = "sent" => BodyOK(entry.msg)

BookOK(book, n) == DOMAIN book = 1..n /\ \A s \in 1..n : EntryOK(book[s], s)

LEMMA TopIsLast ==
  ASSUME NEW book, NEW n \in Nat, DOMAIN book = 1..n
  PROVE  Top(book) = n
  <1> DEFINE S == {0} \cup DOMAIN book
  <1>1. S \in SUBSET Nat /\ S # {} /\ n \in S /\ \A s \in S : s <= n
    OBVIOUS
  <1> HIDE DEF S
  <1>2. Max(S) \in S /\ Max(S) >= n /\ Max(S) <= n /\ Max(S) \in Nat
    BY <1>1, MaxExists
  <1> QED
    BY <1>2 DEF Top, S

\* record_received and create_packets: an entry is replaced or added at the end.
LEMMA PutKeeps ==
  ASSUME NEW book, NEW n \in Nat, BookOK(book, n),
         NEW m \in Msgs, m.sid \in 1..n + 1,
         NEW way \in Ways, way = "sent" => BodyOK(m)
  PROVE  BookOK(Put(book, m, way), IF m.sid <= n THEN n ELSE m.sid)
  <1>1. DOMAIN Put(book, m, way) = 1..(IF m.sid <= n THEN n ELSE m.sid)
    BY DEF Put, BookOK
  <1>2. \A s \in DOMAIN Put(book, m, way) : EntryOK(Put(book, m, way)[s], s)
    BY DEF Put, BookOK, EntryOK
  <1> QED
    BY <1>1, <1>2 DEF BookOK

-----------------------------------------------------------------------------
LEMMA Numbers ==
  ASSUME NEW book, NEW n \in Nat, BookOK(book, n),
         NEW type \in MsgTypes, NEW body \in Nat, type = "data" => body \in 1..MaxData
  PROVE  /\ Fresh(book, type, body) = Msg(type, n + 1, body)
         /\ Fresh(book, type, body) \in Msgs
         /\ Fresh(book, type, body).sid = n + 1
         /\ Fresh(book, type, body).type = type
         /\ BodyOK(Fresh(book, type, body))
         /\ BookOK(Put(book, Fresh(book, type, body), "sent"), n + 1)
         /\ Top(Put(book, Fresh(book, type, body), "sent")) = n + 1
  <1> DEFINE m == Fresh(book, type, body)
  <1>1. m = Msg(type, n + 1, body)
    BY TopIsLast DEF Fresh, BookOK
  <1>2. /\ m \in Msgs /\ m.sid = n + 1 /\ m.type = type /\ m.body = body
        /\ BodyOK(m)
    BY <1>1, MsgIsMsg DEF BodyOK
  <1> HIDE DEF m
  <1>3. BookOK(Put(book, m, "sent"), n + 1)
    <2>1. BookOK(Put(book, m, "sent"), IF m.sid <= n THEN n ELSE m.sid)
      BY <1>2, PutKeeps DEF Ways
    <2> QED
      BY <1>2, <2>1
  <1>4. Top(Put(book, m, "sent")) = n + 1
    BY <1>3, TopIsLast DEF BookOK
  <1> QED
    BY <1>1, <1>2, <1>3, <1>4 DEF m

LEMMA Records ==
  ASSUME NEW book, NEW n \in Nat, BookOK(book, n),
         NEW m \in Msgs, m.sid \in 1..n + 1
  PROVE  \E n2 \in Nat :
            /\ BookOK(Put(book, m, "received"), n2)
            /\ Top(Put(book, m, "received")) = n2
            /\ n2 = IF m.sid <= n THEN n ELSE m.sid
  <1> DEFINE n2 == IF m.sid <= n THEN n ELSE m.sid
  <1>1. n2 \in Nat
    OBVIOUS
  <1>2. BookOK(Put(book, m, "received"), n2)
    BY PutKeeps DEF Ways
  <1>3. Top(Put(book, m, "received")) = n2
    BY <1>1, <1>2, TopIsLast DEF BookOK
  <1> QED
    BY <1>1, <1>2, <1>3

\* What a replay sends.  SentAbove picks the i-th of the sids, so that it has to
\* be known that there is one with i - 1 smaller ones.
LEMMA ReplayIsSent ==
  ASSUME NEW n \in Nat, BookOK(ledger, n), NEW sid
  PROVE  /\ SentAbove(sid) \in Seq(Msgs)
         /\ \A i \in 1..Len(SentAbove(sid)) :
                SentAbove(sid)[i].sid <= n /\ BodyOK(SentAbove(sid)[i])
  <1> DEFINE sids == {s \in DOMAIN ledger : s > sid /\ ledger[s].direction = "sent"}
             pick(i) == CHOOSE s \in sids : Cardinality({t \in sids : t < s}) = i - 1
  <1>1. sids \in SUBSET Nat /\ sids \subseteq 1..n
    BY DEF BookOK
  <1>2. IsFiniteSet(sids) /\ Cardinality(sids) \in Nat
    <2>1. IsFiniteSet(1..n)
      BY FS_Interval
    <2> HIDE DEF sids
    <2> QED
      BY <1>1, <2>1, FS_Subset, FS_CardinalityType
  <1>3. \A i \in 1..Cardinality(sids) : pick(i) \in sids
    <2> TAKE i \in 1..Cardinality(sids)
    <2> HIDE DEF sids
    <2>1. \E s \in sids : Cardinality({t \in sids : t < s}) = i - 1
      BY <1>1, <1>2, RankExists DEF Below
    <2> QED
      BY <2>1
  <1>4. \A s \in sids : /\ ledger[s].msg \in Msgs /\ ledger[s].msg.sid <= n
                        /\ BodyOK(ledger[s].msg)
    BY <1>1 DEF BookOK, EntryOK
  <1>5. SentAbove(sid) = [i \in 1..Cardinality(sids) |-> ledger[pick(i)].msg]
    BY DEF SentAbove
  <1> HIDE DEF sids, pick
  <1> QED
    BY <1>2, <1>3, <1>4, <1>5

-----------------------------------------------------------------------------
(* What is on its way to the server.  The handler reads it in this order, so  *)
(* a message may build on the sids of those before it.                        *)

\* The handler has used sid s when it comes to the k-th message.
Backed(ch, k, n, s) ==
    \/ s <= n
    \/ \E j \in 1..k - 1 : j <= Len(ch) /\ ch[j].type # "ping" /\ ch[j].sid >= s

\* Every message but PING has a sid that is used or the next one; PING names
\* one that is used; and so is the highest sid h the client knows.
UpOK(ch, n, h) ==
    /\ ch \in Seq(Msgs)
    /\ \A i \in 1..Len(ch) :
        /\ ch[i].sid <= h
        /\ IF ch[i].type = "ping" THEN Backed(ch, i, n, ch[i].sid)
           ELSE ch[i].sid >= 1 /\ Backed(ch, i, n, ch[i].sid - 1)
    /\ Backed(ch, Len(ch) + 1, n, h)

LEMMA UpRead ==
  ASSUME NEW ch, NEW n \in Nat, NEW h \in Nat, UpOK(ch, n, h), ch # <<>>,
         NEW n2 \in Nat, n2 >= n, Head(ch).type # "ping" => n2 >= Head(ch).sid
  PROVE  UpOK(Tail(ch), n2, h)
  <1> DEFINE rest == Tail(ch)
  <1>1. /\ rest \in Seq(Msgs) /\ Len(rest) = Len(ch) - 1 /\ Len(ch) \in Nat
        /\ \A i \in 1..Len(rest) : i + 1 \in 1..Len(ch) /\ rest[i] = ch[i + 1]
        /\ ch[1] = Head(ch)
    BY DEF UpOK
  <1>2. \A i \in 1..Len(ch) : ch[i] \in Msgs /\ ch[i].sid \in Nat
    BY MsgFields DEF UpOK
  <1> HIDE DEF rest
  <1>3. ASSUME NEW k \in 1..Len(ch), NEW s \in Nat, Backed(ch, k + 1, n, s)
        PROVE  Backed(rest, k, n2, s)
    <2>1. CASE s <= n
      BY <2>1 DEF Backed
    <2>2. ASSUME NEW j \in 1..(k + 1) - 1, j <= Len(ch), ch[j].type # "ping", ch[j].sid >= s
          PROVE  Backed(rest, k, n2, s)
      <3>1. CASE j = 1
        BY <1>1, <1>2, <2>2, <3>1 DEF Backed
      <3>2. CASE j # 1
        <4>1. j - 1 \in 1..k - 1 /\ j - 1 \in 1..Len(rest) /\ rest[j - 1] = ch[j]
          BY <1>1, <2>2, <3>2
        <4> QED
          BY <1>1, <2>2, <4>1 DEF Backed
      <3> QED
        BY <3>1, <3>2
    <2> QED
      BY <1>3, <2>1, <2>2 DEF Backed
  <1>4. ASSUME NEW i \in 1..Len(rest)
        PROVE  /\ rest[i].sid <= h
               /\ IF rest[i].type = "ping" THEN Backed(rest, i, n2, rest[i].sid)
                  ELSE rest[i].sid >= 1 /\ Backed(rest, i, n2, rest[i].sid - 1)
    <2>1. i + 1 \in 1..Len(ch) /\ i \in 1..Len(ch) /\ rest[i] = ch[i + 1]
      BY <1>1
    <2>2. /\ ch[i + 1].sid <= h /\ ch[i + 1].sid \in Nat
          /\ IF ch[i + 1].type = "ping" THEN Backed(ch, i + 1, n, ch[i + 1].sid)
             ELSE ch[i + 1].sid >= 1 /\ Backed(ch, i + 1, n, ch[i + 1].sid - 1)
      BY <1>2, <2>1 DEF UpOK
    <2> QED
      BY <1>3, <2>1, <2>2
  <1>5. Backed(rest, Len(rest) + 1, n2, h)
    <2>1. Len(ch) \in 1..Len(ch) /\ Backed(ch, Len(ch) + 1, n, h)
      BY <1>1 DEF UpOK
    <2>2. Backed(rest, Len(ch), n2, h)
      BY <1>3, <2>1
    <2> QED
      BY <1>1, <2>2
  <1> QED
    BY <1>1, <1>4, <1>5 DEF UpOK, rest

\* The server numbers a packet, or the client hears of a sid.
LEMMA UpGrows ==
  ASSUME NEW ch, NEW n \in Nat, NEW h \in Nat, UpOK(ch, n, h),
         NEW n2 \in Nat, n2 >= n,
         NEW h2 \in Nat, h2 = h \/ (h2 >= h /\ h2 <= n2)
  PROVE  UpOK(ch, n2, h2)
  <1>1. \A i \in 1..Len(ch) : ch[i] \in Msgs /\ ch[i].sid \in Nat
    BY MsgFields DEF UpOK
  <1>2. ASSUME NEW k, NEW s \in Nat, Backed(ch, k, n, s)
        PROVE  Backed(ch, k, n2, s)
    BY <1>2 DEF Backed
  <1>3. Backed(ch, Len(ch) + 1, n2, h2)
    <2>1. CASE h2 = h
      BY <1>2, <2>1 DEF UpOK
    <2>2. CASE h2 <= n2
      BY <2>2 DEF Backed
    <2> QED
      BY <2>1, <2>2
  <1>4. ASSUME NEW i \in 1..Len(ch)
        PROVE  /\ ch[i].sid <= h2
               /\ IF ch[i].type = "ping" THEN Backed(ch, i, n2, ch[i].sid)
                  ELSE ch[i].sid >= 1 /\ Backed(ch, i, n2, ch[i].sid - 1)
    <2>1. /\ ch[i].sid <= h /\ ch[i].sid \in Nat
          /\ IF ch[i].type = "ping" THEN Backed(ch, i, n, ch[i].sid)
             ELSE ch[i].sid >= 1 /\ Backed(ch, i, n, ch[i].sid - 1)
      BY <1>1 DEF UpOK
    <2> QED
      BY <1>2, <2>1
  <1> QED
    BY <1>3, <1>4 DEF UpOK

\* The client sends a message of its own, an unacknowledged one again, or PING.
LEMMA UpSend ==
  ASSUME NEW ch, NEW n \in Nat, NEW h \in Nat, UpOK(ch, n, h),
         NEW m \in Msgs, NEW h2 \in Nat,
         \/ m.type # "ping" /\ m.sid = h + 1 /\ h2 = h + 1
         \/ m.type # "ping" /\ m.sid \in 1..h /\ h2 = h
         \/ m.type = "ping" /\ m.sid = h /\ h2 = h
  PROVE  UpOK(Append(ch, m), n, h2)
  <1> DEFINE all == Append(ch, m)
  <1>1. /\ ch \in Seq(Msgs) /\ Len(ch) \in Nat
        /\ all \in Seq(Msgs) /\ Len(all) = Len(ch) + 1
        /\ all[Len(ch) + 1] = m
        /\ \A i \in 1..Len(ch) : all[i] = ch[i]
    BY DEF UpOK
  <1>2. m.sid \in Nat /\ \A i \in 1..Len(ch) : ch[i].sid \in Nat
    BY <1>1, MsgFields
  <1> HIDE DEF all
  <1>3. ASSUME NEW k \in 1..Len(ch) + 1, NEW s \in Nat, Backed(ch, k, n, s)
        PROVE  Backed(all, k, n, s)
    BY <1>1, <1>3 DEF Backed
  <1>4. Backed(all, Len(ch) + 1, n, h)
    BY <1>1, <1>3 DEF UpOK
  <1>5. ASSUME NEW i \in 1..Len(ch)
        PROVE  /\ all[i].sid <= h2
               /\ IF all[i].type = "ping" THEN Backed(all, i, n, all[i].sid)
                  ELSE all[i].sid >= 1 /\ Backed(all, i, n, all[i].sid - 1)
    <2>1. /\ ch[i].sid <= h /\ ch[i].sid \in Nat
          /\ IF ch[i].type = "ping" THEN Backed(ch, i, n, ch[i].sid)
             ELSE ch[i].sid >= 1 /\ Backed(ch, i, n, ch[i].sid - 1)
      BY <1>2 DEF UpOK
    <2> QED
      BY <1>1, <1>3, <2>1
  <1>6. /\ m.sid <= h2
        /\ IF m.type = "ping" THEN Backed(all, Len(ch) + 1, n, m.sid)
           ELSE m.sid >= 1 /\ Backed(all, Len(ch) + 1, n, m.sid - 1)
    <2>1. ASSUME NEW s \in Nat, s <= h
          PROVE  Backed(all, Len(ch) + 1, n, s)
      <3>1. CASE h <= n
        BY <2>1, <3>1 DEF Backed
      <3>2. ASSUME NEW j \in 1..(Len(ch) + 1) - 1, j <= Len(all),
                   all[j].type # "ping", all[j].sid >= h
            PROVE  Backed(all, Len(ch) + 1, n, s)
        <4>1. all[j].sid \in Nat
          BY <1>1, <1>2
        <4>2. all[j].sid >= s
          BY <2>1, <3>2, <4>1
        <4> QED
          BY <3>2, <4>2 DEF Backed
      <3> QED
        BY <1>4, <3>1, <3>2 DEF Backed
    <2>2. m.sid <= h2 /\ IF m.type = "ping" THEN m.sid <= h ELSE m.sid >= 1 /\ m.sid - 1 <= h
      BY <1>2
    <2> QED
      BY <1>2, <2>1, <2>2
  <1>7. Backed(all, Len(all) + 1, n, h2)
    BY <1>1, <1>2, <1>4 DEF Backed
  <1>8. \A i \in 1..Len(all) :
            /\ all[i].sid <= h2
            /\ IF all[i].type = "ping" THEN Backed(all, i, n, all[i].sid)
               ELSE all[i].sid >= 1 /\ Backed(all, i, n, all[i].sid - 1)
    BY <1>1, <1>5, <1>6
  <1> QED
    BY <1>1, <1>7, <1>8 DEF UpOK, all

-----------------------------------------------------------------------------
(* What is on its way to the client                                           *)

DownOK(ch, n) ==
    /\ ch \in Seq(Msgs)
    /\ \A i \in 1..Len(ch) : ch[i].sid <= n /\ BodyOK(ch[i])

\* A message on the way has a sid of at least s.
Carries(ch, s) == \E i \in 1..Len(ch) : ch[i].sid >= s

LEMMA DownEmpty ==
  ASSUME NEW n
  PROVE  DownOK(<<>>, n)
  BY DEF DownOK

LEMMA DownGrows ==
  ASSUME NEW ch, NEW n \in Nat, DownOK(ch, n), NEW n2 \in Nat, n2 >= n
  PROVE  DownOK(ch, n2)
  <1>1. \A i \in 1..Len(ch) : ch[i].sid \in Nat
    BY MsgFields DEF DownOK
  <1> QED
    BY <1>1 DEF DownOK

LEMMA DownSend ==
  ASSUME NEW ch, NEW n \in Nat, DownOK(ch, n),
         NEW m \in Msgs, m.sid <= n, BodyOK(m)
  PROVE  /\ DownOK(Append(ch, m), n)
         /\ Carries(Append(ch, m), m.sid)
         /\ \A s \in Nat : Carries(ch, s) => Carries(Append(ch, m), s)
         /\ Append(ch, m) # <<>>
         /\ Append(ch, m)[Len(Append(ch, m))] = m
  <1> DEFINE all == Append(ch, m)
  <1>1. /\ ch \in Seq(Msgs) /\ Len(ch) \in Nat /\ m.sid \in Nat
        /\ all \in Seq(Msgs) /\ Len(all) = Len(ch) + 1
        /\ all[Len(ch) + 1] = m
        /\ \A i \in 1..Len(ch) : all[i] = ch[i]
    BY MsgFields DEF DownOK
  <1> HIDE DEF all
  <1>2. DownOK(all, n)
    BY <1>1 DEF DownOK
  <1>3. Carries(all, m.sid)
    BY <1>1 DEF Carries
  <1>4. \A s \in Nat : Carries(ch, s) => Carries(all, s)
    BY <1>1 DEF Carries
  <1>5. all # <<>> /\ all[Len(all)] = m
    BY <1>1
  <1> QED
    BY <1>2, <1>3, <1>4, <1>5 DEF all

LEMMA DownRead ==
  ASSUME NEW ch, NEW n \in Nat, DownOK(ch, n), ch # <<>>
  PROVE  /\ Head(ch) \in Msgs /\ Head(ch).sid \in Nat /\ Head(ch).sid <= n
         /\ BodyOK(Head(ch))
         /\ DownOK(Tail(ch), n)
         /\ \A s \in Nat : Carries(ch, s) => Head(ch).sid >= s \/ Carries(Tail(ch), s)
         /\ Len(ch) # 1 => Tail(ch) # <<>> /\ Tail(ch)[Len(Tail(ch))] = ch[Len(ch)]
         /\ Len(ch) = 1 => Tail(ch) = <<>>
  <1> DEFINE rest == Tail(ch)
  <1>1. /\ rest \in Seq(Msgs) /\ Len(rest) = Len(ch) - 1 /\ Len(ch) \in Nat \ {0}
        /\ \A i \in 1..Len(rest) : i + 1 \in 1..Len(ch) /\ rest[i] = ch[i + 1]
        /\ ch[1] = Head(ch) /\ ch \in Seq(Msgs)
    BY DEF DownOK
  <1>2. \A i \in 1..Len(ch) : ch[i] \in Msgs /\ ch[i].sid \in Nat
    BY <1>1, MsgFields
  <1> HIDE DEF rest
  <1>3. 1 \in 1..Len(ch)
    BY <1>1
  <1>4. /\ Head(ch) \in Msgs /\ Head(ch).sid \in Nat /\ Head(ch).sid <= n
        /\ BodyOK(Head(ch))
    BY <1>1, <1>2, <1>3 DEF DownOK
  <1>5. DownOK(rest, n)
    BY <1>1 DEF DownOK
  <1>6. ASSUME NEW s \in Nat, Carries(ch, s) PROVE Head(ch).sid >= s \/ Carries(rest, s)
    <2>1. PICK i \in 1..Len(ch) : ch[i].sid >= s
      BY <1>6 DEF Carries
    <2>2. CASE i = 1
      BY <1>1, <2>1, <2>2
    <2>3. CASE i # 1
      <3>1. i - 1 \in 1..Len(rest) /\ rest[i - 1] = ch[i]
        BY <1>1, <2>3
      <3> QED
        BY <2>1, <3>1 DEF Carries
    <2> QED
      BY <2>2, <2>3
  <1>7. Len(ch) # 1 => rest # <<>> /\ rest[Len(rest)] = ch[Len(ch)]
    BY <1>1
  <1>8. Len(ch) = 1 => rest = <<>>
    BY <1>1
  <1> QED
    BY <1>4, <1>5, <1>6, <1>7, <1>8 DEF rest

LEMMA DownJoin ==
  ASSUME NEW ch, NEW more, NEW n \in Nat, DownOK(ch, n), DownOK(more, n)
  PROVE  /\ DownOK(ch \o more, n)
         /\ \A s \in Nat : Carries(ch, s) \/ Carries(more, s) => Carries(ch \o more, s)
  <1> DEFINE all == ch \o more
  <1>1. /\ ch \in Seq(Msgs) /\ more \in Seq(Msgs) /\ Len(ch) \in Nat /\ Len(more) \in Nat
        /\ all \in Seq(Msgs) /\ Len(all) = Len(ch) + Len(more)
        /\ \A i \in 1..Len(ch) : all[i] = ch[i]
        /\ \A i \in 1..Len(more) : all[Len(ch) + i] = more[i]
    BY DEF DownOK
  <1>2. \A i \in 1..Len(all) :
            i \in 1..Len(ch) \/ (i - Len(ch) \in 1..Len(more) /\ all[i] = more[i - Len(ch)])
    <2> TAKE i \in 1..Len(all)
    <2>1. CASE i <= Len(ch)
      BY <1>1, <2>1
    <2>2. CASE ~ (i <= Len(ch))
      <3>1. i - Len(ch) \in 1..Len(more) /\ Len(ch) + (i - Len(ch)) = i
        BY <1>1, <2>2
      <3> QED
        BY <1>1, <3>1
    <2> QED
      BY <2>1, <2>2
  <1> HIDE DEF all
  <1>3. DownOK(all, n)
    BY <1>1, <1>2 DEF DownOK
  <1>4. ASSUME NEW s \in Nat, NEW i \in 1..Len(ch), ch[i].sid >= s PROVE Carries(all, s)
    <2>1. i \in 1..Len(all)
      BY <1>1
    <2> QED
      BY <1>1, <1>4, <2>1 DEF Carries
  <1>5. ASSUME NEW s \in Nat, NEW i \in 1..Len(more), more[i].sid >= s PROVE Carries(all, s)
    <2>1. Len(ch) + i \in 1..Len(all)
      BY <1>1
    <2> QED
      BY <1>1, <1>5, <2>1 DEF Carries
  <1> QED
    BY <1>3, <1>4, <1>5 DEF Carries, all

-----------------------------------------------------------------------------
(* The inductive invariant                                                    *)

N == Top(ledger)

LedgerOK == N \in Nat /\ BookOK(ledger, N)

ServerOK ==
    /\ registered \in BOOLEAN
    /\ lastSend \in Msgs /\ lastSend.sid <= N /\ BodyOK(lastSend)
    /\ duty \in {"read", "greet", "announce", "replay"}
    /\ duty \in {"read", "greet"} => todo = <<>>
    /\ duty = "announce" => todo # <<>> /\ todo[Len(todo)].type = "new_login"
    /\ duty = "replay" => todo # <<>> /\ todo[Len(todo)].type = "pong"

ClientOK ==
    /\ {up, loggedIn} \subseteq BOOLEAN
    /\ known \in Nat
    /\ pending \in Msgs /\ pending.sid <= known
    /\ pending # NoMsg => pending.type = "data" /\ pending.sid >= 1

CountersOK ==
    /\ got \cup lost \subseteq 1..MaxData
    /\ sent \in 0..MaxData /\ {clientSent, losses, drops} \subseteq Nat

\* Without a login there is nothing to and from the client but its LOGIN.
OnlyLoggedIn ==
    /\ ~ registered => /\ ~ loggedIn /\ toClient = <<>> /\ duty = "read"
                       /\ \A i \in 1..Len(toServer) : toServer[i].type = "login"
    /\ ~ up => ~ registered /\ toServer = <<>> /\ pending = NoMsg

\* Unless a packet was lost, the newest sid is known to the client or on its
\* way there.
News == registered /\ losses = 0 => N <= known \/ Carries(toClient, N) \/ Carries(todo, N)

IInv ==
    /\ LedgerOK /\ ServerOK /\ ClientOK /\ CountersOK
    /\ DownOK(toClient, N) /\ DownOK(todo, N)
    /\ UpOK(toServer, N, known)
    /\ OnlyLoggedIn /\ News

LEMMA NoMsgIsMsg == NoMsg \in Msgs /\ NoMsg.sid = 0 /\ NoMsg.type = "none" /\ BodyOK(NoMsg)
  BY MsgIsMsg DEF NoMsg, MsgTypes, BodyOK

LEMMA NothingIsOK ==
  ASSUME NEW n \in Nat, NEW h \in Nat, h <= n
  PROVE  UpOK(<<>>, n, h)
  BY DEF UpOK, Backed

LEMMA EmptyBook == BookOK(<<>>, 0) /\ Top(<<>>) = 0
  <1>1. BookOK(<<>>, 0)
    BY DEF BookOK
  <1> QED
    BY <1>1, TopIsLast DEF BookOK

LEMMA InitIInv == Init => IInv
  <1> SUFFICES ASSUME Init PROVE IInv
    OBVIOUS
  <1> USE DEF Init
  <1>1. N = 0 /\ LedgerOK
    BY EmptyBook DEF N, LedgerOK
  <1>2. ServerOK /\ ClientOK /\ CountersOK
    <2>1. ServerOK
      <3>1. lastSend \in Msgs /\ lastSend.sid <= N /\ BodyOK(lastSend)
        BY <1>1, NoMsgIsMsg
      <3> QED
        BY <3>1 DEF ServerOK
    <2>2. ClientOK
      <3>1. known \in Nat /\ pending \in Msgs /\ pending.sid <= known
        BY NoMsgIsMsg
      <3> QED
        BY <3>1 DEF ClientOK
    <2>3. CountersOK
      BY BoundsAssumption DEF CountersOK
    <2> QED
      BY <2>1, <2>2, <2>3
  <1>3. DownOK(toClient, N) /\ DownOK(todo, N) /\ UpOK(toServer, N, known)
    BY <1>1, DownEmpty, NothingIsOK
  <1>4. OnlyLoggedIn /\ News
    BY DEF OnlyLoggedIn, News
  <1> QED
    BY <1>1, <1>2, <1>3, <1>4 DEF IInv

-----------------------------------------------------------------------------
(* The client's steps.  The ledger is the server's and stays.                 *)

\* Whatever the client reads from the server, it hears of a sid that is used.
LEMMA HeardIsUsed ==
  ASSUME IInv, toClient # <<>>
  PROVE  /\ Heard \in Nat /\ Heard >= known /\ Heard >= Head(toClient).sid
         /\ Heard = known \/ Heard <= N
         /\ Head(toClient) \in Msgs /\ BodyOK(Head(toClient))
  <1>1. known \in Nat /\ N \in Nat /\ Head(toClient).sid \in Nat /\ Head(toClient).sid <= N
    BY DownRead DEF IInv, ClientOK, LedgerOK
  <1>2. Heard = IF known >= Head(toClient).sid THEN known ELSE Head(toClient).sid
    BY <1>1, MaxOfTwo DEF Heard
  <1>3. Head(toClient) \in Msgs /\ BodyOK(Head(toClient))
    BY <1>1, DownRead DEF IInv
  <1> QED
    BY <1>1, <1>2, <1>3

LEMMA ConnectKeeps == IInv /\ ClientConnect => IInv'
  <1> SUFFICES ASSUME IInv, ClientConnect PROVE IInv'
    OBVIOUS
  <1>1. N' = N /\ N \in Nat /\ LedgerOK'
    BY DEF IInv, LedgerOK, N, ClientConnect, serverVars
  <1>2. UpOK(toServer, N, known)'
    <2> DEFINE m == Msg("login", 1, 0)
    <2>1. m \in Msgs /\ m.type = "login" /\ m.sid = 1
      BY MsgIsMsg DEF MsgTypes
    <2>2. UpOK(<<>>, N, 0)
      BY <1>1, NothingIsOK
    <2> HIDE DEF m
    <2>3. UpOK(Append(<<>>, m), N, 1)
      <3>1. m.type # "ping" /\ m.sid = 0 + 1 /\ 1 = 0 + 1
        BY <2>1
      <3> QED
        BY <1>1, <2>1, <2>2, <3>1, UpSend
    <2>4. Append(<<>>, m) = <<m>>
      OBVIOUS
    <2> QED
      BY <1>1, <2>3, <2>4 DEF ClientConnect, m
  <1>3. ServerOK' /\ ClientOK' /\ CountersOK'
    BY <1>1, NoMsgIsMsg DEF IInv, ServerOK, ClientOK, CountersOK, OnlyLoggedIn,
       ClientConnect, serverVars, bounds
  <1>4. DownOK(toClient, N)' /\ DownOK(todo, N)'
    BY <1>1 DEF IInv, ClientConnect, serverVars
  <1>5. OnlyLoggedIn' /\ News'
    <2>1. ~ registered /\ ~ registered'
      BY DEF IInv, OnlyLoggedIn, ClientConnect, serverVars
    <2>2. toServer' = <<Msg("login", 1, 0)>> /\ Msg("login", 1, 0).type = "login"
      BY MsgIsMsg DEF ClientConnect, MsgTypes
    <2>3. \A i \in 1..Len(toServer') : toServer'[i].type = "login"
      BY <2>2
    <2> QED
      BY <2>1, <2>3 DEF IInv, OnlyLoggedIn, News, ClientConnect, serverVars
  <1> QED
    BY <1>1, <1>2, <1>3, <1>4, <1>5 DEF IInv

\* What the steps that read a packet have in common: the client hears of its
\* sid, and may acknowledge it under the next one.
LEMMA HearingKeeps ==
  ASSUME IInv, toClient # <<>>, toClient' = Tail(toClient),
         UNCHANGED <<serverVars, up, bounds>>,
         \/ known' = Heard /\ toServer' = toServer
         \/ /\ known' = Heard + 1
            /\ toServer' = Append(toServer, Msg("sendok", Heard + 1, 0)),
         loggedIn' \in {loggedIn, TRUE},
         pending' \in {pending, NoMsg},
         got' \subseteq got \cup 1..MaxData
  PROVE  IInv'
  <1>1. N' = N /\ N \in Nat /\ LedgerOK'
    BY DEF IInv, LedgerOK, N, serverVars
  <1>2. known' \in Nat /\ known' >= known /\ known' >= Head(toClient).sid
    <2>1. Head(toClient).sid \in Nat /\ known \in Nat
      BY <1>1, DownRead DEF IInv, ClientOK
    <2>2. Heard \in Nat /\ Heard >= known /\ Heard >= Head(toClient).sid
      BY HeardIsUsed
    <2> HIDE DEF IInv
    <2> QED
      BY <2>1, <2>2
  <1>3. UpOK(toServer, N, known)'
    <2>1. UpOK(toServer, N, Heard)
      BY <1>1, HeardIsUsed, UpGrows DEF IInv, ClientOK
    <2> DEFINE m == Msg("sendok", Heard + 1, 0)
    <2>2. m \in Msgs /\ m.type # "ping" /\ m.sid = Heard + 1 /\ Heard \in Nat
      BY HeardIsUsed, MsgIsMsg DEF MsgTypes
    <2> HIDE DEF m
    <2>3. UpOK(Append(toServer, m), N, Heard + 1)
      BY <1>1, <2>1, <2>2, UpSend
    <2> QED
      BY <1>1, <2>1, <2>3 DEF m
  <1>4. DownOK(toClient, N)' /\ DownOK(todo, N)'
    BY <1>1, DownRead DEF IInv, serverVars
  <1>5. ServerOK' /\ CountersOK'
    BY <1>1 DEF IInv, ServerOK, CountersOK, serverVars, bounds
  <1>6. ClientOK'
    <2>1. pending' \in Msgs /\ pending'.sid \in Nat /\ pending'.sid <= known
      BY NoMsgIsMsg, MsgFields DEF IInv, ClientOK
    <2>2. pending'.sid <= known'
      BY <1>2, <2>1 DEF IInv, ClientOK
    <2>3. {up', loggedIn'} \subseteq BOOLEAN
      BY DEF IInv, ClientOK
    <2>4. pending' # NoMsg => pending'.type = "data" /\ pending'.sid >= 1
      BY DEF IInv, ClientOK
    <2> QED
      BY <1>2, <2>1, <2>2, <2>3, <2>4 DEF ClientOK
  <1>7. registered /\ up
    BY DEF IInv, OnlyLoggedIn
  <1>8. OnlyLoggedIn'
    BY <1>7 DEF OnlyLoggedIn, serverVars
  <1>9. News'
    <2>1. Carries(toClient, N) => Head(toClient).sid >= N \/ Carries(Tail(toClient), N)
      BY <1>1, DownRead DEF IInv
    <2>2. Head(toClient).sid \in Nat /\ known \in Nat
      BY <1>1, DownRead DEF IInv, ClientOK
    <2> QED
      BY <1>1, <1>2, <2>1, <2>2 DEF IInv, News, serverVars, bounds
  <1> QED
    BY <1>1, <1>3, <1>4, <1>5, <1>6, <1>8, <1>9 DEF IInv

LEMMA ReceiveKeeps == IInv /\ ClientReceive => IInv'
  <1> SUFFICES ASSUME IInv, ClientReceive PROVE IInv'
    OBVIOUS
  <1>1. CASE ReceiveLogined
    BY <1>1, HearingKeeps DEF ReceiveLogined, ClientReceives
  <1>2. CASE ReceiveData
    <2>1. toClient # <<>> /\ Head(toClient).type = "data" /\ toClient' = Tail(toClient)
      BY <1>2 DEF ReceiveData, ClientReceives
    <2>2. Head(toClient).body \in 1..MaxData
      BY <2>1, HeardIsUsed DEF BodyOK
    <2>3. got' \subseteq got \cup 1..MaxData
      BY <1>2, <2>2 DEF ReceiveData
    <2> QED
      BY <1>2, <2>1, <2>3, HearingKeeps DEF ReceiveData
  <1>3. CASE ReceiveSendOk
    BY <1>3, HearingKeeps DEF ReceiveSendOk, ClientReceives
  <1>4. CASE ReceiveNotice
    BY <1>4, HearingKeeps DEF ReceiveNotice, ClientReceives
  <1> QED
    BY <1>1, <1>2, <1>3, <1>4 DEF ClientReceive

\* A packet that was lost is not heard of.
LEMMA DecodeFailsKeeps == IInv /\ DecodeFails => IInv'
  <1> SUFFICES ASSUME IInv, DecodeFails PROVE IInv'
    OBVIOUS
  <1>1. N' = N /\ N \in Nat /\ LedgerOK'
    BY DEF IInv, LedgerOK, N, serverVars, DecodeFails
  <1>2. /\ toClient # <<>> /\ toClient' = Tail(toClient)
        /\ losses \in Nat /\ losses' = losses + 1
        /\ UNCHANGED <<serverVars, clientVars, toServer, sent, clientSent, drops>>
    BY DEF IInv, CountersOK, DecodeFails
  <1>3. UpOK(toServer, N, known)' /\ ServerOK' /\ ClientOK' /\ DownOK(todo, N)'
    BY <1>1, <1>2 DEF IInv, ServerOK, ClientOK, serverVars, clientVars
  <1>4. DownOK(toClient, N)' /\ BodyOK(Head(toClient))
    BY <1>1, <1>2, DownRead DEF IInv
  <1>5. CountersOK'
    <2>1. lost' \subseteq lost \cup 1..MaxData
      BY <1>4 DEF DecodeFails, BodyOK
    <2> QED
      BY <1>2, <2>1 DEF IInv, CountersOK, clientVars
  <1>6. OnlyLoggedIn'
    BY <1>2 DEF IInv, OnlyLoggedIn, serverVars, clientVars
  <1>7. News'
    BY <1>2 DEF News
  <1> QED
    BY <1>1, <1>3, <1>4, <1>5, <1>6, <1>7 DEF IInv

LEMMA ClientSendKeeps == IInv /\ ClientSend => IInv'
  <1> SUFFICES ASSUME IInv, ClientSend PROVE IInv'
    OBVIOUS
  <1>1. N' = N /\ N \in Nat /\ LedgerOK'
    BY DEF IInv, LedgerOK, N, serverVars, ClientSend
  <1>2. /\ known \in Nat /\ known' = known + 1
        /\ clientSent \in Nat /\ clientSent' = clientSent + 1
        /\ toServer' = Append(toServer, pending')
        /\ UNCHANGED <<serverVars, up, loggedIn, got, toClient, lost, sent, losses, drops>>
    BY DEF IInv, ClientOK, CountersOK, ClientSend
  <1>3. pending' \in Msgs /\ pending'.type = "data" /\ pending'.sid = known + 1
    BY <1>2, MsgIsMsg DEF ClientSend, MsgTypes
  <1>4. UpOK(toServer, N, known)'
    <2>1. UpOK(Append(toServer, pending'), N, known + 1)
      BY <1>1, <1>2, <1>3, UpSend DEF IInv
    <2> QED
      BY <1>1, <1>2, <2>1
  <1>5. DownOK(toClient, N)' /\ DownOK(todo, N)' /\ ServerOK' /\ CountersOK'
    BY <1>1, <1>2 DEF IInv, ServerOK, CountersOK, serverVars
  <1>6. ClientOK'
    BY <1>2, <1>3 DEF IInv, ClientOK
  <1>7. OnlyLoggedIn'
    <2>1. registered /\ up
      BY DEF IInv, OnlyLoggedIn, ClientSend
    <2> QED
      BY <1>2, <2>1 DEF OnlyLoggedIn, serverVars
  <1>8. News'
    BY <1>1, <1>2 DEF IInv, News, serverVars
  <1> QED
    BY <1>1, <1>4, <1>5, <1>6, <1>7, <1>8 DEF IInv

LEMMA KeepaliveKeeps == IInv /\ Keepalive => IInv'
  <1> SUFFICES ASSUME IInv, Keepalive PROVE IInv'
    OBVIOUS
  <1>1. N' = N /\ N \in Nat /\ LedgerOK' /\ known \in Nat
    BY DEF IInv, LedgerOK, N, ClientOK, serverVars, Keepalive
  <1> DEFINE ping == Msg("ping", known, 0)
             again == IF pending # NoMsg THEN Append(toServer, pending) ELSE toServer
  <1>2. ping \in Msgs /\ ping.type = "ping" /\ ping.sid = known
    BY <1>1, MsgIsMsg DEF MsgTypes
  <1>3. toServer' = Append(again, ping)
    <2>1. toServer \in Seq(Msgs) /\ pending \in Msgs
      BY DEF IInv, UpOK, ClientOK
    <2> QED
      BY <1>2, <2>1 DEF Keepalive
  <1> HIDE DEF ping
  <1>4. UpOK(again, N, known)
    <2>1. CASE pending # NoMsg
      <3>1. pending \in Msgs /\ pending.type # "ping" /\ pending.sid \in 1..known
        BY <2>1, MsgFields DEF IInv, ClientOK
      <3> QED
        BY <1>1, <2>1, <3>1, UpSend DEF IInv
    <2>2. CASE pending = NoMsg
      BY <2>2 DEF IInv
    <2> QED
      BY <2>1, <2>2
  <1> HIDE DEF again
  <1>5. UpOK(Append(again, ping), N, known)
    BY <1>1, <1>2, <1>4, UpSend
  <1>6. UpOK(toServer, N, known)'
    BY <1>1, <1>3, <1>5 DEF Keepalive, clientVars
  <1>7. DownOK(toClient, N)' /\ DownOK(todo, N)' /\ ServerOK' /\ ClientOK' /\ CountersOK'
    BY <1>1 DEF IInv, ServerOK, ClientOK, CountersOK, serverVars, clientVars, bounds, Keepalive
  <1>8. OnlyLoggedIn' /\ News'
    <2>1. registered /\ up
      BY DEF IInv, OnlyLoggedIn, Keepalive
    <2> QED
      BY <1>1, <2>1 DEF IInv, OnlyLoggedIn, News, serverVars, clientVars, bounds, Keepalive
  <1> QED
    BY <1>1, <1>6, <1>7, <1>8 DEF IInv

-----------------------------------------------------------------------------
(* The server's steps.  The client stays as it is.                            *)

\* The head of toServer, for the step that reads it; and, but for a PING, what
\* recording it makes of the ledger.
LEMMA HeadOfServer ==
  ASSUME IInv, toServer # <<>>
  PROVE  /\ Head(toServer) \in Msgs /\ Head(toServer).sid \in Nat
         /\ Head(toServer).sid <= known
         /\ IF Head(toServer).type = "ping" THEN Head(toServer).sid <= N
            ELSE Head(toServer).sid \in 1..N + 1
         /\ Head(toServer).type # "login" => registered
  <1>1. /\ toServer \in Seq(Msgs) /\ 1 \in 1..Len(toServer) /\ toServer[1] = Head(toServer)
        /\ N \in Nat
    BY DEF IInv, UpOK, LedgerOK
  <1>2. Head(toServer) \in Msgs /\ Head(toServer).sid \in Nat
    BY <1>1, MsgFields
  <1>3. /\ Head(toServer).sid <= known
        /\ IF Head(toServer).type = "ping" THEN Backed(toServer, 1, N, Head(toServer).sid)
           ELSE Head(toServer).sid >= 1 /\ Backed(toServer, 1, N, Head(toServer).sid - 1)
    BY <1>1 DEF IInv, UpOK
  <1>4. \A s : Backed(toServer, 1, N, s) => s <= N
    BY DEF Backed
  <1>5. Head(toServer).type # "login" => registered
    BY <1>1 DEF IInv, OnlyLoggedIn
  <1> QED
    BY <1>1, <1>2, <1>3, <1>4, <1>5

\* An answer: the message is recorded, then a packet is numbered and sent.
LEMMA AnswerKeeps ==
  ASSUME IInv, toServer # <<>>, Head(toServer).type # "ping",
         toServer' = Tail(toServer), UNCHANGED <<clientVars, bounds, lastSend, todo>>,
         NEW type \in MsgTypes \ {"data"},
         ledger' = Put(Put(ledger, Head(toServer), "received"),
                       Fresh(Put(ledger, Head(toServer), "received"), type, 0), "sent"),
         toClient' = Append(toClient,
                            Fresh(Put(ledger, Head(toServer), "received"), type, 0)),
         registered' \in {registered, TRUE}, registered',
         duty = "read", duty' \in {"read", "greet"}
  PROVE  IInv'
  <1> DEFINE book == Put(ledger, Head(toServer), "received")
             m == Fresh(book, type, 0)
  <1>1. /\ Head(toServer) \in Msgs /\ Head(toServer).sid \in 1..N + 1
        /\ N \in Nat /\ BookOK(ledger, N) /\ known \in Nat
    BY HeadOfServer DEF IInv, LedgerOK, ClientOK
  <1>2. PICK n \in Nat : /\ BookOK(book, n)
                         /\ n = IF Head(toServer).sid <= N THEN N ELSE Head(toServer).sid
    BY <1>1, Records
  <1> HIDE DEF book
  <1>3. /\ m \in Msgs /\ m.sid = n + 1 /\ BodyOK(m)
        /\ BookOK(Put(book, m, "sent"), n + 1)
        /\ Top(Put(book, m, "sent")) = n + 1
    BY <1>2, Numbers
  <1> HIDE DEF m
  <1>4. ledger' = Put(book, m, "sent") /\ toClient' = Append(toClient, m)
    BY DEF book, m
  <1>5. N' = n + 1 /\ LedgerOK'
    BY <1>2, <1>3, <1>4 DEF N, LedgerOK
  <1>6. N' \in Nat /\ N' >= N /\ N' >= Head(toServer).sid
    BY <1>1, <1>2, <1>5
  <1>7. UpOK(toServer, N, known)'
    <2>1. UpOK(Tail(toServer), N', known)
      BY <1>1, <1>6, UpRead DEF IInv
    <2> QED
      BY <2>1 DEF clientVars
  <1>8. DownOK(toClient, N)' /\ DownOK(todo, N)' /\ Carries(toClient', N')
    <2>1. DownOK(toClient, N') /\ DownOK(todo, N')
      BY <1>1, <1>6, DownGrows DEF IInv
    <2>2. DownOK(Append(toClient, m), N') /\ Carries(Append(toClient, m), N')
      BY <1>3, <1>5, <1>6, <2>1, DownSend
    <2> QED
      BY <1>4, <2>1, <2>2
  <1>9. ServerOK'
    <2>1. /\ lastSend' \in Msgs /\ lastSend'.sid <= N' /\ BodyOK(lastSend')
      <3>1. lastSend \in Msgs /\ lastSend.sid \in Nat /\ lastSend.sid <= N /\ BodyOK(lastSend)
        BY MsgFields DEF IInv, ServerOK
      <3>2. lastSend.sid <= N'
        BY <1>1, <1>6, <3>1
      <3> QED
        BY <3>1, <3>2
    <2>2. registered' \in BOOLEAN
      BY DEF IInv, ServerOK
    <2> QED
      BY <2>1, <2>2 DEF IInv, ServerOK
  <1>10. ClientOK' /\ CountersOK' /\ News'
    BY <1>8 DEF IInv, ClientOK, CountersOK, News, clientVars, bounds
  <1>11. OnlyLoggedIn'
    BY DEF IInv, OnlyLoggedIn, clientVars
  <1> QED
    BY <1>5, <1>7, <1>8, <1>9, <1>10, <1>11 DEF IInv

LEMMA AnswersKeep == IInv /\ (HandleLogin \/ HandleData) => IInv'
  <1> SUFFICES ASSUME IInv, HandleLogin \/ HandleData PROVE IInv'
    OBVIOUS
  <1>1. CASE HandleLogin
    <2>1. "logined" \in MsgTypes \ {"data"} /\ Head(toServer).type # "ping"
      BY <1>1 DEF MsgTypes, HandleLogin, ServerReceives
    <2> QED
      BY <1>1, <2>1, AnswerKeeps DEF HandleLogin, ServerReceives
  <1>2. CASE HandleData
    <2>1. "sendok" \in MsgTypes \ {"data"} /\ Head(toServer).type # "ping"
      BY <1>2 DEF MsgTypes, HandleData, ServerReceives
    <2>2. registered
      BY <1>2, HeadOfServer DEF HandleData, ServerReceives
    <2> QED
      BY <1>2, <2>1, <2>2, AnswerKeeps DEF HandleData, ServerReceives
  <1> QED
    BY <1>1, <1>2

LEMMA HandleSendOkKeeps == IInv /\ HandleSendOk => IInv'
  <1> SUFFICES ASSUME IInv, HandleSendOk PROVE IInv'
    OBVIOUS
  <1>1. /\ duty = "read" /\ toServer # <<>> /\ toServer' = Tail(toServer)
        /\ Head(toServer).type = "sendok"
        /\ ledger' = Put(ledger, Head(toServer), "received") /\ lastSend' = NoMsg
        /\ UNCHANGED <<registered, duty, todo, clientVars, toClient, bounds>>
    BY DEF HandleSendOk, ServerReceives
  <1>2. /\ Head(toServer) \in Msgs /\ Head(toServer).sid \in 1..N + 1
        /\ Head(toServer).sid <= known
        /\ N \in Nat /\ BookOK(ledger, N) /\ known \in Nat /\ registered
    BY <1>1, HeadOfServer DEF IInv, LedgerOK, ClientOK
  <1>3. PICK n \in Nat : /\ BookOK(ledger', n) /\ Top(ledger') = n
                         /\ n = IF Head(toServer).sid <= N THEN N ELSE Head(toServer).sid
    BY <1>1, <1>2, Records
  <1>4. N' = n /\ LedgerOK' /\ N' \in Nat /\ N' >= N /\ N' >= Head(toServer).sid
    BY <1>2, <1>3 DEF N, LedgerOK
  <1>5. UpOK(toServer, N, known)'
    <2>1. UpOK(Tail(toServer), N', known)
      BY <1>1, <1>2, <1>4, UpRead DEF IInv
    <2> QED
      BY <1>1, <2>1 DEF clientVars
  <1>6. DownOK(toClient, N)' /\ DownOK(todo, N)'
    BY <1>1, <1>2, <1>4, DownGrows DEF IInv
  <1>7. ServerOK'
    BY <1>1, <1>4, NoMsgIsMsg DEF IInv, ServerOK
  <1>8. ClientOK' /\ CountersOK'
    BY <1>1 DEF IInv, ClientOK, CountersOK, clientVars, bounds
  <1>9. OnlyLoggedIn'
    BY <1>1, <1>2 DEF IInv, OnlyLoggedIn, clientVars
  <1>10. News'
    <2>1. CASE N' = N
      BY <1>1, <2>1 DEF IInv, News, clientVars, bounds
    <2>2. CASE N' = Head(toServer).sid
      BY <1>1, <1>2, <2>2 DEF News, clientVars
    <2> QED
      BY <1>3, <1>4, <2>1, <2>2
  <1> QED
    BY <1>4, <1>5, <1>6, <1>7, <1>8, <1>9, <1>10 DEF IInv

LEMMA CreateNoticeKeeps == IInv /\ CreateNotice => IInv'
  <1> SUFFICES ASSUME IInv, CreateNotice PROVE IInv'
    OBVIOUS
  <1> DEFINE m == Fresh(ledger, "new_login", 0)
  <1>1. N \in Nat /\ BookOK(ledger, N) /\ known \in Nat
    BY DEF IInv, LedgerOK, ClientOK
  <1>2. /\ m \in Msgs /\ m.sid = N + 1 /\ BodyOK(m) /\ m.type = "new_login"
        /\ BookOK(Put(ledger, m, "sent"), N + 1)
        /\ Top(Put(ledger, m, "sent")) = N + 1
    <2>1. "new_login" \in MsgTypes /\ "new_login" # "data"
      BY DEF MsgTypes
    <2> QED
      BY <1>1, <2>1, Numbers
  <1>3. /\ ledger' = Put(ledger, m, "sent") /\ todo' = <<m>>
        /\ duty = "greet" /\ duty' = "announce"
        /\ UNCHANGED <<registered, lastSend, clientVars, toClient, toServer, bounds>>
    BY DEF CreateNotice
  <1> HIDE DEF m
  <1>4. N' = N + 1 /\ LedgerOK' /\ N' \in Nat /\ N' >= N
    BY <1>1, <1>2, <1>3 DEF N, LedgerOK
  <1>5. UpOK(toServer, N, known)'
    <2>1. UpOK(toServer, N', known)
      BY <1>1, <1>4, UpGrows DEF IInv
    <2> QED
      BY <1>3, <2>1 DEF clientVars
  <1>6. DownOK(toClient, N)'
    BY <1>1, <1>3, <1>4, DownGrows DEF IInv
  <1>7. DownOK(todo, N)' /\ Carries(todo', N') /\ todo' # <<>> /\ todo'[Len(todo')] = m
    <2>1. Append(<<>>, m) = <<m>> /\ DownOK(<<>>, N')
      BY DownEmpty
    <2>2. /\ DownOK(Append(<<>>, m), N') /\ Carries(Append(<<>>, m), m.sid)
          /\ Append(<<>>, m) # <<>> /\ Append(<<>>, m)[Len(Append(<<>>, m))] = m
      <3>1. m.sid <= N'
        BY <1>1, <1>2, <1>4
      <3> QED
        BY <1>2, <1>4, <2>1, <3>1, DownSend
    <2> QED
      BY <1>2, <1>3, <1>4, <2>1, <2>2
  <1>8. ServerOK'
    <2>1. lastSend \in Msgs /\ lastSend.sid \in Nat /\ lastSend.sid <= N /\ BodyOK(lastSend)
      BY MsgFields DEF IInv, ServerOK
    <2>2. lastSend.sid <= N'
      BY <1>1, <1>4, <2>1
    <2> QED
      BY <1>2, <1>3, <1>7, <2>1, <2>2 DEF IInv, ServerOK
  <1>9. ClientOK' /\ CountersOK' /\ News'
    BY <1>3, <1>7 DEF IInv, ClientOK, CountersOK, News, clientVars, bounds
  <1>10. OnlyLoggedIn'
    BY <1>3 DEF IInv, OnlyLoggedIn, clientVars
  <1> QED
    BY <1>4, <1>5, <1>6, <1>7, <1>8, <1>9, <1>10 DEF IInv

LEMMA SendNoticeKeeps == IInv /\ SendNotice => IInv'
  <1> SUFFICES ASSUME IInv, SendNotice PROVE IInv'
    OBVIOUS
  <1>1. /\ duty = "announce" /\ toClient' = toClient \o todo /\ todo' = <<>> /\ duty' = "read"
        /\ UNCHANGED <<ledger, registered, lastSend, clientVars, toServer, bounds>>
    BY DEF SendNotice
  <1>2. N' = N /\ N \in Nat /\ LedgerOK'
    BY <1>1 DEF IInv, LedgerOK, N
  <1>3. /\ DownOK(toClient \o todo, N)
        /\ Carries(toClient, N) \/ Carries(todo, N) => Carries(toClient \o todo, N)
    BY <1>2, DownJoin DEF IInv
  <1>4. DownOK(toClient, N)' /\ DownOK(todo, N)' /\ UpOK(toServer, N, known)'
    BY <1>1, <1>2, <1>3, DownEmpty DEF IInv, clientVars
  <1>5. ServerOK' /\ ClientOK' /\ CountersOK'
    BY <1>1, <1>2 DEF IInv, ServerOK, ClientOK, CountersOK, clientVars, bounds
  <1>6. registered
    BY <1>1 DEF IInv, OnlyLoggedIn
  <1>7. OnlyLoggedIn' /\ News'
    BY <1>1, <1>2, <1>3, <1>6 DEF IInv, OnlyLoggedIn, News, clientVars, bounds
  <1> QED
    BY <1>2, <1>4, <1>5, <1>7 DEF IInv

LEMMA HandlePingKeeps == IInv /\ HandlePing => IInv'
  <1> SUFFICES ASSUME IInv, HandlePing PROVE IInv'
    OBVIOUS
  <1> DEFINE sid == Head(toServer).sid
             pong == Msg("pong", Max({Top(ledger), sid}), 0)
  <1>1. /\ duty = "read" /\ toServer # <<>> /\ toServer' = Tail(toServer)
        /\ Head(toServer).type = "ping"
        /\ todo' = Append(SentAbove(sid), pong) /\ duty' = "replay"
        /\ UNCHANGED <<ledger, registered, lastSend, clientVars, toClient, bounds>>
    BY DEF HandlePing, ServerReceives
  <1>2. N' = N /\ N \in Nat /\ LedgerOK' /\ BookOK(ledger, N) /\ known \in Nat
    BY <1>1 DEF IInv, LedgerOK, N, ClientOK
  <1>3. sid \in Nat /\ sid <= N /\ registered
    BY <1>1, HeadOfServer
  <1>4. pong \in Msgs /\ pong.type = "pong" /\ pong.sid = N /\ BodyOK(pong)
    <2>1. Max({N, sid}) = N
      BY <1>2, <1>3, MaxOfTwo
    <2> QED
      BY <1>2, <2>1, MsgIsMsg DEF N, MsgTypes, BodyOK
  <1>5. DownOK(SentAbove(sid), N)
    BY <1>2, ReplayIsSent DEF DownOK
  <1> HIDE DEF sid, pong
  <1>6. /\ DownOK(todo, N)' /\ Carries(todo', N)
        /\ todo' # <<>> /\ todo'[Len(todo')].type = "pong"
    BY <1>1, <1>2, <1>4, <1>5, DownSend
  <1>7. UpOK(toServer, N, known)'
    <2>1. UpOK(Tail(toServer), N, known)
      BY <1>1, <1>2, UpRead DEF IInv
    <2> QED
      BY <1>1, <1>2, <2>1 DEF clientVars
  <1>8. ServerOK' /\ ClientOK' /\ CountersOK' /\ DownOK(toClient, N)'
    BY <1>1, <1>2, <1>6 DEF IInv, ServerOK, ClientOK, CountersOK, clientVars, bounds
  <1>9. OnlyLoggedIn' /\ News'
    BY <1>1, <1>2, <1>3, <1>6 DEF IInv, OnlyLoggedIn, News, clientVars
  <1> QED
    BY <1>2, <1>6, <1>7, <1>8, <1>9 DEF IInv

LEMMA ReplayNextKeeps == IInv /\ ReplayNext => IInv'
  <1> SUFFICES ASSUME IInv, ReplayNext PROVE IInv'
    OBVIOUS
  <1>1. /\ duty = "replay" /\ toClient' = Append(toClient, Head(todo)) /\ todo' = Tail(todo)
        /\ duty' = IF Len(todo) = 1 THEN "read" ELSE "replay"
        /\ UNCHANGED <<ledger, registered, lastSend, clientVars, toServer, bounds>>
    BY DEF ReplayNext
  <1>2. N' = N /\ N \in Nat /\ LedgerOK'
    BY <1>1 DEF IInv, LedgerOK, N
  <1>3. todo # <<>> /\ todo[Len(todo)].type = "pong"
    BY <1>1 DEF IInv, ServerOK
  <1>4. /\ Head(todo) \in Msgs /\ Head(todo).sid \in Nat /\ Head(todo).sid <= N
        /\ BodyOK(Head(todo)) /\ DownOK(Tail(todo), N)
        /\ Carries(todo, N) => Head(todo).sid >= N \/ Carries(Tail(todo), N)
        /\ Len(todo) # 1 => Tail(todo) # <<>> /\ Tail(todo)[Len(Tail(todo))] = todo[Len(todo)]
        /\ Len(todo) = 1 => Tail(todo) = <<>>
    BY <1>2, <1>3, DownRead DEF IInv
  <1>5. /\ DownOK(Append(toClient, Head(todo)), N)
        /\ Carries(Append(toClient, Head(todo)), Head(todo).sid)
        /\ Carries(toClient, N) => Carries(Append(toClient, Head(todo)), N)
    BY <1>2, <1>4, DownSend DEF IInv
  <1>6. DownOK(toClient, N)' /\ DownOK(todo, N)' /\ UpOK(toServer, N, known)'
    BY <1>1, <1>2, <1>4, <1>5 DEF IInv, clientVars
  <1>7. ServerOK'
    BY <1>1, <1>2, <1>3, <1>4 DEF IInv, ServerOK
  <1>8. ClientOK' /\ CountersOK'
    BY <1>1, <1>2 DEF IInv, ClientOK, CountersOK, clientVars, bounds
  <1>9. registered
    BY <1>1 DEF IInv, OnlyLoggedIn
  <1>10. OnlyLoggedIn'
    BY <1>1, <1>9 DEF IInv, OnlyLoggedIn, clientVars
  <1>11. News'
    <2>1. Head(todo).sid >= N => Head(todo).sid = N
      BY <1>2, <1>4
    <2>2. Carries(todo, N) => Carries(toClient', N) \/ Carries(todo', N)
      BY <1>1, <1>4, <1>5, <2>1
    <2> QED
      BY <1>1, <1>2, <1>5, <2>2 DEF IInv, News, clientVars, bounds
  <1> QED
    BY <1>2, <1>6, <1>7, <1>8, <1>10, <1>11 DEF IInv

LEMMA ServerSendKeeps == IInv /\ ServerSend => IInv'
  <1> SUFFICES ASSUME IInv, ServerSend PROVE IInv'
    OBVIOUS
  <1> DEFINE m == Fresh(ledger, "data", sent + 1)
  <1>1. /\ N \in Nat /\ BookOK(ledger, N) /\ known \in Nat
        /\ sent \in 0..MaxData /\ sent < MaxData /\ MaxData \in Nat
    BY BoundsAssumption DEF IInv, LedgerOK, ClientOK, CountersOK, ServerSend
  <1>2. /\ m \in Msgs /\ m.sid = N + 1 /\ BodyOK(m)
        /\ BookOK(Put(ledger, m, "sent"), N + 1)
        /\ Top(Put(ledger, m, "sent")) = N + 1
    <2>1. sent + 1 \in Nat /\ sent + 1 \in 1..MaxData /\ "data" \in MsgTypes
      BY <1>1 DEF MsgTypes
    <2> QED
      BY <1>1, <2>1, Numbers
  <1>3. /\ ledger' = Put(ledger, m, "sent") /\ sent' = sent + 1
        /\ IF registered THEN lastSend' = m /\ toClient' = Append(toClient, m)
           ELSE UNCHANGED <<lastSend, toClient>>
        /\ UNCHANGED <<registered, duty, todo, clientVars, toServer,
                       lost, clientSent, losses, drops>>
    BY DEF ServerSend
  <1> HIDE DEF m
  <1>4. N' = N + 1 /\ LedgerOK' /\ N' \in Nat /\ N' >= N
    BY <1>1, <1>2, <1>3 DEF N, LedgerOK
  <1>5. UpOK(toServer, N, known)'
    <2>1. UpOK(toServer, N', known)
      BY <1>1, <1>4, UpGrows DEF IInv
    <2> QED
      BY <1>3, <2>1 DEF clientVars
  <1>6. /\ DownOK(toClient, N') /\ DownOK(todo, N')
        /\ DownOK(Append(toClient, m), N') /\ Carries(Append(toClient, m), N')
    <2>1. DownOK(toClient, N') /\ DownOK(todo, N')
      BY <1>1, <1>4, DownGrows DEF IInv
    <2> QED
      BY <1>2, <1>4, <2>1, DownSend
  <1>7. DownOK(toClient, N)' /\ DownOK(todo, N)' /\ (registered => Carries(toClient', N'))
    BY <1>3, <1>6
  <1>8. ServerOK'
    <2>1. lastSend \in Msgs /\ lastSend.sid \in Nat /\ lastSend.sid <= N /\ BodyOK(lastSend)
      BY MsgFields DEF IInv, ServerOK
    <2>2. lastSend'.sid <= N' /\ lastSend' \in Msgs /\ BodyOK(lastSend')
      <3>1. lastSend.sid <= N' /\ m.sid <= N'
        BY <1>1, <1>2, <1>4, <2>1
      <3> QED
        BY <1>2, <1>3, <2>1, <3>1
    <2> QED
      BY <1>3, <2>2 DEF IInv, ServerOK
  <1>9. ClientOK' /\ CountersOK' /\ News'
    BY <1>1, <1>3, <1>7 DEF IInv, ClientOK, CountersOK, News, clientVars
  <1>10. OnlyLoggedIn'
    BY <1>3 DEF IInv, OnlyLoggedIn, clientVars
  <1> QED
    BY <1>4, <1>5, <1>7, <1>8, <1>9, <1>10 DEF IInv

LEMMA ServerResendKeeps == IInv /\ ServerResend => IInv'
  <1> SUFFICES ASSUME IInv, ServerResend PROVE IInv'
    OBVIOUS
  <1>1. /\ registered /\ toClient' = Append(toClient, lastSend)
        /\ UNCHANGED <<serverVars, clientVars, toServer, bounds>>
    BY DEF ServerResend
  <1>2. N' = N /\ N \in Nat /\ LedgerOK'
    BY <1>1 DEF IInv, LedgerOK, N, serverVars
  <1>3. /\ DownOK(Append(toClient, lastSend), N)
        /\ Carries(toClient, N) => Carries(Append(toClient, lastSend), N)
    BY <1>2, DownSend DEF IInv, ServerOK
  <1>4. DownOK(toClient, N)' /\ DownOK(todo, N)' /\ UpOK(toServer, N, known)'
    BY <1>1, <1>2, <1>3 DEF IInv, serverVars, clientVars
  <1>5. ServerOK' /\ ClientOK' /\ CountersOK'
    BY <1>1, <1>2 DEF IInv, ServerOK, ClientOK, CountersOK, serverVars, clientVars, bounds
  <1>6. OnlyLoggedIn' /\ News'
    BY <1>1, <1>2, <1>3 DEF IInv, OnlyLoggedIn, News, serverVars, clientVars, bounds
  <1> QED
    BY <1>2, <1>4, <1>5, <1>6 DEF IInv

LEMMA DisconnectKeeps == IInv /\ Disconnect => IInv'
  <1> SUFFICES ASSUME IInv, Disconnect PROVE IInv'
    OBVIOUS
  <1>1. /\ ledger' = IF registered THEN <<>> ELSE ledger
        /\ registered' = FALSE /\ lastSend' = NoMsg /\ duty' = "read" /\ todo' = <<>>
        /\ up' = FALSE /\ loggedIn' = FALSE /\ known' = 0 /\ pending' = NoMsg
        /\ toClient' = <<>> /\ toServer' = <<>> /\ drops' = drops + 1
        /\ UNCHANGED <<got, lost, sent, clientSent, losses>>
    BY DEF Disconnect
  <1>2. N' \in Nat /\ LedgerOK'
    <2>1. CASE registered
      BY <1>1, <2>1, EmptyBook DEF LedgerOK, N
    <2>2. CASE ~ registered
      BY <1>1, <2>2 DEF IInv, LedgerOK, N
    <2> QED
      BY <2>1, <2>2
  <1>3. DownOK(toClient, N)' /\ DownOK(todo, N)' /\ UpOK(toServer, N, known)'
    BY <1>1, <1>2, DownEmpty, NothingIsOK
  <1>4. ServerOK'
    <2>1. lastSend' \in Msgs /\ lastSend'.sid <= N' /\ BodyOK(lastSend')
      BY <1>1, <1>2, NoMsgIsMsg
    <2> QED
      BY <1>1, <2>1 DEF ServerOK
  <1>5. ClientOK'
    <2>1. known' \in Nat /\ pending' \in Msgs /\ pending'.sid <= known'
      BY <1>1, NoMsgIsMsg
    <2> QED
      BY <1>1, <2>1 DEF ClientOK
  <1>6. CountersOK'
    BY <1>1 DEF IInv, CountersOK
  <1>7. OnlyLoggedIn' /\ News'
    BY <1>1 DEF OnlyLoggedIn, News
  <1> QED
    BY <1>2, <1>3, <1>4, <1>5, <1>6, <1>7 DEF IInv

-----------------------------------------------------------------------------
LEMMA NextKeeps == IInv /\ [Next]_vars => IInv'
  <1> SUFFICES ASSUME IInv, [Next]_vars PROVE IInv'
    OBVIOUS
  <1>1. CASE ClientConnect
    BY <1>1, ConnectKeeps
  <1>2. CASE ClientReceive
    BY <1>2, ReceiveKeeps
  <1>3. CASE DecodeFails \/ ClientSend \/ Keepalive
    BY <1>3, DecodeFailsKeeps, ClientSendKeeps, KeepaliveKeeps
  <1>4. CASE HandlerStep
    BY <1>4, AnswersKeep, CreateNoticeKeeps, SendNoticeKeeps, HandleSendOkKeeps,
       HandlePingKeeps, ReplayNextKeeps DEF HandlerStep
  <1>5. CASE ServerSend \/ ServerResend \/ Disconnect
    BY <1>5, ServerSendKeeps, ServerResendKeeps, DisconnectKeeps
  <1>6. CASE UNCHANGED vars
    BY <1>6 DEF vars, serverVars, clientVars, bounds, IInv, LedgerOK, N, ServerOK, ClientOK,
       CountersOK, OnlyLoggedIn, News
  <1> QED
    BY <1>1, <1>2, <1>3, <1>4, <1>5, <1>6 DEF Next

\* The invariant from which the theorems below follow holds in every state.
THEOREM Invariance == Spec => []IInv
  <1>1. Init => IInv
    BY InitIInv
  <1>2. IInv /\ [Next]_vars => IInv'
    BY NextKeeps
  <1> QED
    BY <1>1, <1>2, PTL DEF Spec

\* Every variable has its type, and a replay always still has its PONG to send.
THEOREM TypeCorrect == Spec => []TypeOK
  <1>1. IInv => TypeOK
    <2> SUFFICES ASSUME IInv PROVE TypeOK
      OBVIOUS
    <2>1. \A s \in DOMAIN ledger :
              ledger[s].msg \in Msgs /\ ledger[s].direction \in {"sent", "received"}
      BY DEF IInv, LedgerOK, BookOK, EntryOK, Ways
    <2>2. {registered, up, loggedIn} \subseteq BOOLEAN
      BY DEF IInv, ServerOK, ClientOK
    <2>3. {todo, toClient, toServer} \subseteq Seq(Msgs)
      BY DEF IInv, DownOK, UpOK
    <2>4. duty = "replay" <=> (todo # <<>> /\ todo[Len(todo)].type = "pong")
      BY DEF IInv, ServerOK
    <2>5. /\ {lastSend, pending} \subseteq Msgs /\ known \in Nat
          /\ duty \in {"read", "greet", "announce", "replay"}
          /\ got \cup lost \subseteq 1..MaxData
      BY DEF IInv, ServerOK, ClientOK, CountersOK
    <2> QED
      BY <2>1, <2>2, <2>3, <2>4, <2>5 DEF TypeOK
  <1> QED
    BY <1>1, Invariance, PTL

\* The server's history has no gaps, whoever numbers its entries and whatever
\* is lost.
THEOREM HistoryHasNoGaps == Spec => []NoGaps
  <1>1. IInv => NoGaps
    BY DEF IInv, LedgerOK, BookOK, N, NoGaps
  <1> QED
    BY <1>1, Invariance, PTL

\* A sid that the client knows is in the server's history or on its way there.
THEOREM KnownSidsAreReal == Spec => []KnownIsReal
  <1>1. IInv => KnownIsReal
    <2> SUFFICES ASSUME IInv PROVE KnownIsReal
      OBVIOUS
    <2> DEFINE S == {N} \cup SidsIn(toServer)
    <2>1. /\ N \in Nat /\ known \in Nat
          /\ toServer \in Seq(Msgs) /\ DOMAIN toServer = 1..Len(toServer)
          /\ \A i \in 1..Len(toServer) : toServer[i].sid \in Nat /\ toServer[i].sid <= known
      BY MsgFields DEF IInv, LedgerOK, ClientOK, UpOK
    <2>2. /\ S \in SUBSET Nat /\ S # {}
          /\ N + known \in Nat /\ \A s \in S : s <= N + known
      BY <2>1 DEF SidsIn
    <2>3. \E s \in S : s >= known
      BY <2>1 DEF IInv, UpOK, Backed, SidsIn
    <2> HIDE DEF S
    <2>4. Max(S) \in Nat /\ \A s \in S : Max(S) >= s /\ s \in Nat
      BY <2>2, MaxExists
    <2>5. known <= Max(S)
      BY <2>1, <2>3, <2>4
    <2> QED
      BY <2>5 DEF S, N, KnownIsReal
  <1> QED
    BY <1>1, Invariance, PTL

\* When nothing is under way and nothing was lost, the ends agree.
THEOREM EndsAgreeWhenQuiet == Spec => []AgreeWhenQuiet
  <1>1. IInv => AgreeWhenQuiet
    <2> SUFFICES ASSUME IInv, loggedIn, Quiet, losses = 0 PROVE known = N
      BY DEF AgreeWhenQuiet, N
    <2>1. /\ toClient = <<>> /\ todo = <<>> /\ toServer = <<>> /\ registered
          /\ N \in Nat /\ known \in Nat
      BY DEF Quiet, IInv, ServerOK, OnlyLoggedIn, LedgerOK, ClientOK
    <2>2. known <= N
      BY <2>1 DEF IInv, UpOK, Backed
    <2>3. N <= known
      BY <2>1 DEF IInv, News, Carries
    <2> QED
      BY <2>1, <2>2, <2>3
  <1> QED
    BY <1>1, Invariance, PTL

=============================================================================
