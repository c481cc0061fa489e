-------------------------- MODULE FileTransferProofs --------------------------
(* Proofs about file transfers, for any accounts, calls, file sizes, channel  *)
(* sizes and numbers of lost connections and PINGs.                           *)
EXTENDS FileTransfer, SequenceTheorems, TLAPS

Paths == {job[t].path : t \in Transfers}
Contents == Seq((Transfers \cup {None}) \X Nat)
Slots == [of : Transfers \cup {None}, path : Paths \cup {None}, at : Nat]

-----------------------------------------------------------------------------
(* The inductive invariant                                                    *)

Types ==
    /\ job \in Jobs
    /\ stage \in [Transfers -> -1..Complete]
    /\ DOMAIN copies = {job[t].name : t \in Transfers}
    /\ \A n \in DOMAIN copies : copies[n] \in Transfers \cup {None}
    /\ wait \in [Handles -> Slots]
    /\ files \in [Machines \X Paths -> Contents]
    /\ link \in [Accounts -> {"up", "dead", "down"}]
    /\ connected = {a \in Accounts : link[a] # "down"}
    /\ book \in [Accounts -> Seq(Packets)] /\ known \in [Accounts -> Nat]
    /\ toClient \in [Accounts -> Seq(Packets)] /\ toServer \in [Accounts -> Seq(Packets)]
    /\ got \subseteq Machines \X Transfers /\ disturbed \subseteq Machines \X Transfers

\* A file is open for a transfer, where that transfer is received.
OpenFor(h) ==
    LET t == wait[h].of
    IN  /\ t \in Transfers /\ h = HandleOf(h[1], job[t].from)
        /\ wait[h].path = job[t].path
        /\ h[1] = Server => link[h[2]] # "down"

HandlesOK == \A h \in Handles : wait[h] = Closed \/ OpenFor(h)

\* What a packet says.
IsFile(p) ==
    /\ p.kind \in FileKinds /\ p.of \in Transfers
    /\ p.kind = "sending" => p.chunk \in (Transfers \cup {None}) \X (1..Chunks)

UpMay(a) ==
    {p \in Packets :
        \/ IsFile(p) /\ job[p.of].from = a
        \/ p.kind = "error" /\ p.of = None
        \/ p.kind = "ping" /\ p.of = None /\ p.sid <= known[a]}

Upward == \A a \in Accounts : ToSet(toServer[a]) \subseteq UpMay(a)

DownMay(a, p) ==
    \/ IsFile(p) /\ a \in Receivers(p.of)
    \/ p.kind = "error" /\ p.of = None

Booked ==
    \A a \in Accounts : \A i \in DOMAIN book[a] :
        book[a][i].sid = i /\ DownMay(a, book[a][i])

\* What is on its way to a client is in the book, without a gap, and it is all
\* that the client has not heard.
Fresh(ch, bk, k) ==
    /\ \A i \in DOMAIN ch :
        /\ ch[i].sid \in DOMAIN bk /\ ch[i] = bk[ch[i].sid]
        /\ ch[i].sid <= k + 1 \/ \E j \in 1..i - 1 : ch[i].sid <= ch[j].sid + 1
    /\ \A s \in DOMAIN bk : s <= k \/ \E i \in DOMAIN ch : ch[i].sid = s
    /\ k <= Len(bk)

Downward ==
    \A a \in Accounts :
        /\ link[a] = "up" => Fresh(toClient[a], book[a], known[a])
        /\ link[a] # "up" => toClient[a] = <<>> /\ toServer[a] = <<>> /\ known[a] = 0
        /\ link[a] = "down" => book[a] = <<>>

\* A transfer that has not begun has left no trace.
Ofs(ch) == {ch[i].of : i \in DOMAIN ch}

Unbegun ==
    \A t \in Transfers : stage[t] = 0 =>
        \A a \in Accounts : t \notin Ofs(toServer[a]) \cup Ofs(book[a])

Number(p) ==
    IF p.kind = "send" THEN 0 ELSE IF p.kind = "sending" THEN p.chunk[2] ELSE Chunks + 1

\* Behind the first k of a sequence of packets, those of t are its packets from
\* the m-th to the last but the n-th, each once and in their order.
Queue(ch, k, t, m, n) ==
    /\ \A i \in DOMAIN ch : i > k /\ ch[i].of = t =>
        /\ Number(ch[i]) \in m..n - 1
        /\ ch[i].kind = "sending" => ch[i].chunk[1] = t
    /\ \A x \in m..n - 1 : \E i \in DOMAIN ch : i > k /\ ch[i].of = t /\ Number(ch[i]) = x
    /\ \A i, j \in DOMAIN ch :
        k < i /\ i < j /\ ch[i].of = t /\ ch[j].of = t => Number(ch[i]) < Number(ch[j])

\* What r has made of the first n packets.
Progress(r, t, n) ==
    LET handle == HandleOf(r, job[t].from)
    IN  \/ n = 0
        \/ /\ n \in 1..Chunks + 1
           /\ wait[handle].of = t /\ wait[handle].at = n - 1
           /\ files[<<r, job[t].path>>] = [i \in 1..n - 1 |-> <<t, i>>]
           /\ \A h \in Handles : h[1] = r /\ h # handle /\ wait[h] # Closed =>
                 wait[h].path # job[t].path
        \/ n = Complete /\ <<r, t>> \in got

\* The server has passed on m of the packets of t.
Sent(t, m) ==
    IF job[t].from = Server THEN m = stage[t]
    ELSE Queue(toServer[job[t].from], 0, t, m, stage[t])

\* Of those, r has taken n.
Passed(r, t, m, n) == IF r = Server THEN n = m ELSE Queue(book[r], known[r], t, n, m)

At(r, t, m, n) == Sent(t, m) /\ Passed(r, t, m, n) /\ Progress(r, t, n)

Ready(r, t) ==
    /\ job[t].from # Server => link[job[t].from] = "up"
    /\ r # Server => link[r] = "up"
    /\ job[t].from = Server /\ stage[t] \in 1..Chunks => copies[job[t].name] = t

Follows(r, t) == Ready(r, t) /\ \E m \in 0..stage[t] : \E n \in 0..m : At(r, t, m, n)

Tracked ==
    \A t \in Transfers : \A r \in Receivers(t) :
        stage[t] >= 1 /\ <<r, t>> \notin disturbed => Follows(r, t)

IInv ==
    Types /\ HandlesOK /\ Upward /\ Booked /\ Downward /\ Unbegun /\ Tracked

-----------------------------------------------------------------------------
(* Sequences of packets                                                       *)

LEMMA AppendFacts ==
  ASSUME NEW S, NEW ch \in Seq(S), NEW p \in S
  PROVE  /\ Append(ch, p) \in Seq(S) /\ Len(ch) \in Nat
         /\ DOMAIN ch = 1..Len(ch) /\ DOMAIN Append(ch, p) = 1..Len(ch) + 1
         /\ \A i \in 1..Len(ch) : Append(ch, p)[i] = ch[i]
         /\ Append(ch, p)[Len(ch) + 1] = p
  OBVIOUS

LEMMA TailFacts ==
  ASSUME NEW S, NEW ch \in Seq(S), ch # <<>>
  PROVE  /\ Head(ch) \in S /\ Tail(ch) \in Seq(S) /\ Len(ch) \in Nat \ {0}
         /\ Head(ch) = ch[1] /\ DOMAIN ch = 1..Len(ch) /\ DOMAIN Tail(ch) = 1..Len(ch) - 1
         /\ \A i \in 1..Len(ch) - 1 : Tail(ch)[i] = ch[i + 1]
  OBVIOUS

LEMMA QueueEmpty ==
  ASSUME NEW ch, NEW k, NEW t, NEW m \in Int,
         \A i \in DOMAIN ch : i > k => ch[i].of # t
  PROVE  Queue(ch, k, t, m, m)
  BY DEF Queue

LEMMA QueueAppendOther ==
  ASSUME NEW S, NEW ch \in Seq(S), NEW p \in S, NEW k \in Nat, NEW t, NEW m, NEW n,
         Queue(ch, k, t, m, n), p.of # t
  PROVE  Queue(Append(ch, p), k, t, m, n)
  <1> DEFINE new == Append(ch, p)
  <1>1. /\ Len(ch) \in Nat
        /\ DOMAIN ch = 1..Len(ch) /\ DOMAIN new = 1..Len(ch) + 1
        /\ \A i \in 1..Len(ch) : new[i] = ch[i]
        /\ new[Len(ch) + 1] = p
    BY AppendFacts
  <1> HIDE DEF new
  <1>2. \A i \in DOMAIN new : new[i].of = t => i \in DOMAIN ch /\ new[i] = ch[i]
    BY <1>1
  <1>3. \A i \in DOMAIN ch : i \in DOMAIN new /\ new[i] = ch[i]
    BY <1>1
  <1>4. Queue(new, k, t, m, n)
    BY <1>2, <1>3 DEF Queue
  <1> QED
    BY <1>4 DEF new

LEMMA QueueAppendOwn ==
  ASSUME NEW S, NEW ch \in Seq(S), NEW p \in S, NEW k \in 0..Len(ch), NEW t,
         NEW n \in Nat, NEW m \in 0..n,
         Queue(ch, k, t, m, n), p.of = t, Number(p) = n, p.kind = "sending" => p.chunk[1] = t
  PROVE  Queue(Append(ch, p), k, t, m, n + 1)
  <1> DEFINE new == Append(ch, p)
             last == Len(ch) + 1
  <1>1. /\ Len(ch) \in Nat
        /\ DOMAIN ch = 1..Len(ch) /\ DOMAIN new = 1..last
        /\ \A i \in 1..Len(ch) : new[i] = ch[i]
        /\ new[last] = p
    BY AppendFacts
  <1> HIDE DEF new
  <1>2. /\ \A i \in DOMAIN new : i = last \/ (i \in DOMAIN ch /\ new[i] = ch[i] /\ i < last)
        /\ last \in DOMAIN new /\ last > k
        /\ \A i \in DOMAIN ch : i \in DOMAIN new /\ new[i] = ch[i]
    BY <1>1
  <1> HIDE DEF last
  <1>3. \A i \in DOMAIN new : i > k /\ new[i].of = t =>
           /\ Number(new[i]) \in m..(n + 1) - 1
           /\ new[i].kind = "sending" => new[i].chunk[1] = t
    <2> SUFFICES ASSUME NEW i \in DOMAIN new, i > k, new[i].of = t
                 PROVE  /\ Number(new[i]) \in m..(n + 1) - 1
                        /\ new[i].kind = "sending" => new[i].chunk[1] = t
      OBVIOUS
    <2>1. CASE i = last
      BY <1>1, <2>1
    <2>2. CASE i \in DOMAIN ch /\ new[i] = ch[i]
      <3>1. Number(ch[i]) \in m..n - 1 /\ (ch[i].kind = "sending" => ch[i].chunk[1] = t)
        BY <2>2 DEF Queue
      <3> QED
        BY <2>2, <3>1
    <2> QED
      BY <1>2, <2>1, <2>2
  <1>4. \A x \in m..(n + 1) - 1 : \E i \in DOMAIN new : i > k /\ new[i].of = t /\ Number(new[i]) = x
    <2> TAKE x \in m..(n + 1) - 1
    <2>1. CASE x = n
      BY <1>1, <1>2, <2>1
    <2>2. CASE x \in m..n - 1
      <3>1. PICK i \in DOMAIN ch : i > k /\ ch[i].of = t /\ Number(ch[i]) = x
        BY <2>2 DEF Queue
      <3> QED
        BY <1>2, <3>1
    <2> QED
      BY <2>1, <2>2
  <1>5. ASSUME NEW i \in DOMAIN new, NEW j \in DOMAIN new,
               k < i, i < j, new[i].of = t, new[j].of = t
        PROVE  Number(new[i]) < Number(new[j])
    <2>1. i \in DOMAIN ch /\ new[i] = ch[i]
      BY <1>1, <1>2, <1>5 DEF last
    <2>2. CASE j = last
      <3>1. Number(ch[i]) \in m..n - 1
        BY <1>5, <2>1 DEF Queue
      <3> QED
        BY <1>1, <2>1, <2>2, <3>1
    <2>3. CASE j \in DOMAIN ch /\ new[j] = ch[j]
      BY <1>5, <2>1, <2>3 DEF Queue
    <2> QED
      BY <1>2, <2>2, <2>3
  <1>6. Queue(new, k, t, m, n + 1)
    BY <1>3, <1>4, <1>5 DEF Queue
  <1> QED
    BY <1>6 DEF new

\* The first packet behind the k-th is read.
LEMMA QueueSkip ==
  ASSUME NEW S, NEW ch \in Seq(S), NEW k \in Nat, k + 1 \in DOMAIN ch,
         NEW t, NEW n \in Nat, NEW m \in 0..n, Queue(ch, k, t, m, n)
  PROVE  /\ ch[k + 1].of # t => Queue(ch, k + 1, t, m, n)
         /\ ch[k + 1].of = t =>
              /\ m < n /\ Number(ch[k + 1]) = m
              /\ ch[k + 1].kind = "sending" => ch[k + 1].chunk[1] = t
              /\ Queue(ch, k + 1, t, m + 1, n)
  <1>0. \A i \in DOMAIN ch : i \in Int
    OBVIOUS
  <1>1. CASE ch[k + 1].of # t
    <2>1. \A i \in DOMAIN ch : i > k /\ ch[i].of = t => i > k + 1
      BY <1>0, <1>1
    <2>2. \A i \in DOMAIN ch : i > k + 1 => i > k
      BY <1>0
    <2> QED
      BY <1>0, <1>1, <2>1, <2>2 DEF Queue
  <1>2. CASE ch[k + 1].of = t
    <2> DEFINE h == k + 1
    <2>1. /\ Number(ch[h]) \in m..n - 1
          /\ ch[h].kind = "sending" => ch[h].chunk[1] = t
      BY <1>2 DEF Queue
    <2>2. \A j \in DOMAIN ch : j > h /\ ch[j].of = t => Number(ch[h]) < Number(ch[j])
      BY <1>0, <1>2 DEF Queue
    <2>3. Number(ch[h]) = m
      <3>1. m \in m..n - 1
        BY <2>1
      <3>2. PICK i \in DOMAIN ch : i > k /\ ch[i].of = t /\ Number(ch[i]) = m
        BY <3>1 DEF Queue
      <3>3. i = h \/ i > h
        BY <1>0, <3>2
      <3> QED
        BY <2>1, <2>2, <3>2, <3>3
    <2>4. \A i \in DOMAIN ch : i > h /\ ch[i].of = t =>
             /\ Number(ch[i]) \in (m + 1)..n - 1
             /\ ch[i].kind = "sending" => ch[i].chunk[1] = t
      <3> TAKE i \in DOMAIN ch
      <3> HAVE i > h /\ ch[i].of = t
      <3>1. Number(ch[i]) \in m..n - 1 /\ (ch[i].kind = "sending" => ch[i].chunk[1] = t)
        BY <1>0 DEF Queue
      <3>2. Number(ch[i]) > m
        BY <2>2, <2>3, <3>1
      <3> QED
        BY <3>1, <3>2
    <2>5. \A x \in (m + 1)..n - 1 : \E i \in DOMAIN ch : i > h /\ ch[i].of = t /\ Number(ch[i]) = x
      <3> TAKE x \in (m + 1)..n - 1
      <3>1. x \in m..n - 1 /\ x # m
        OBVIOUS
      <3>2. PICK i \in DOMAIN ch : i > k /\ ch[i].of = t /\ Number(ch[i]) = x
        BY <3>1 DEF Queue
      <3>3. i # h
        BY <2>3, <3>1, <3>2
      <3> QED
        BY <1>0, <3>2, <3>3
    <2>6. Queue(ch, h, t, m + 1, n)
      <3>1. \A i, j \in DOMAIN ch :
               h < i /\ i < j /\ ch[i].of = t /\ ch[j].of = t => Number(ch[i]) < Number(ch[j])
        BY <1>0 DEF Queue
      <3> QED
        BY <2>4, <2>5, <3>1 DEF Queue
    <2> QED
      BY <1>2, <2>1, <2>3, <2>6
  <1> QED
    BY <1>1, <1>2

\* The first packet of all is taken off.
LEMMA QueueTail ==
  ASSUME NEW S, NEW ch \in Seq(S), ch # <<>>, NEW t, NEW m, NEW n, Queue(ch, 1, t, m, n)
  PROVE  Queue(Tail(ch), 0, t, m, n)
  <1> DEFINE new == Tail(ch)
  <1>1. /\ Len(ch) \in Nat \ {0}
        /\ DOMAIN ch = 1..Len(ch) /\ DOMAIN new = 1..Len(ch) - 1
        /\ \A i \in 1..Len(ch) - 1 : new[i] = ch[i + 1]
    BY TailFacts
  <1> HIDE DEF new
  <1>2. \A i \in DOMAIN new : i + 1 \in DOMAIN ch /\ i + 1 > 1 /\ new[i] = ch[i + 1]
    BY <1>1
  <1>3. \A i \in DOMAIN ch : i > 1 => i - 1 \in DOMAIN new /\ i - 1 > 0 /\ new[i - 1] = ch[i]
    BY <1>1
  <1>4. \A i \in DOMAIN new : i > 0 /\ new[i].of = t =>
           /\ Number(new[i]) \in m..n - 1
           /\ new[i].kind = "sending" => new[i].chunk[1] = t
    BY <1>2 DEF Queue
  <1>5. \A x \in m..n - 1 : \E i \in DOMAIN new : i > 0 /\ new[i].of = t /\ Number(new[i]) = x
    <2> TAKE x \in m..n - 1
    <2>1. PICK i \in DOMAIN ch : i > 1 /\ ch[i].of = t /\ Number(ch[i]) = x
      BY DEF Queue
    <2> QED
      BY <1>3, <2>1
  <1>6. ASSUME NEW i \in DOMAIN new, NEW j \in DOMAIN new,
               0 < i, i < j, new[i].of = t, new[j].of = t
        PROVE  Number(new[i]) < Number(new[j])
    <2>1. 1 < i + 1 /\ i + 1 < j + 1
      BY <1>1, <1>6
    <2> QED
      BY <1>2, <1>6, <2>1 DEF Queue
  <1>7. Queue(new, 0, t, m, n)
    BY <1>4, <1>5, <1>6 DEF Queue
  <1> QED
    BY <1>7 DEF new

-----------------------------------------------------------------------------
(* What a client has still to hear                                            *)

LEMMA MaxOfTwo ==
  ASSUME NEW x \in Int, NEW y \in Int
  PROVE  Max({x, y}) = IF x < y THEN y ELSE x
  <1>1. CASE x < y
    <2>1. \A z \in {x, y} : (\A w \in {x, y} : z >= w) => z = y
      BY <1>1
    <2>2. \A w \in {x, y} : y >= w
      BY <1>1
    <2> QED
      BY <1>1, <2>1, <2>2 DEF Max
  <1>2. CASE ~(x < y)
    <2>1. \A z \in {x, y} : (\A w \in {x, y} : z >= w) => z = x
      BY <1>2
    <2>2. \A w \in {x, y} : x >= w
      BY <1>2
    <2> QED
      BY <1>2, <2>1, <2>2 DEF Max
  <1> QED
    BY <1>1, <1>2

LEMMA FreshEmpty ==
  Fresh(<<>>, <<>>, 0)
  BY DEF Fresh

\* A packet is numbered and sent.
LEMMA FreshAppend ==
  ASSUME NEW ch \in Seq(Packets), NEW bk \in Seq(Packets), NEW k \in Nat, NEW p \in Packets,
         Fresh(ch, bk, k), p.sid = Len(bk) + 1
  PROVE  Fresh(Append(ch, p), Append(bk, p), k)
  <1> DEFINE ch2 == Append(ch, p)
             bk2 == Append(bk, p)
             c == Len(ch) + 1
             b == Len(bk) + 1
  <1>1. /\ c \in Nat /\ Len(ch) \in Nat /\ DOMAIN ch = 1..Len(ch) /\ DOMAIN ch2 = 1..c
        /\ \A i \in 1..Len(ch) : ch2[i] = ch[i]
        /\ ch2[c] = p
    BY AppendFacts
  <1>2. /\ b \in Nat /\ Len(bk) \in Nat /\ DOMAIN bk = 1..Len(bk) /\ DOMAIN bk2 = 1..b
        /\ \A i \in 1..Len(bk) : bk2[i] = bk[i]
        /\ bk2[b] = p /\ Len(bk2) = b
    BY AppendFacts
  <1>3. p.sid = b /\ k <= Len(bk)
    BY DEF Fresh
  <1> HIDE DEF ch2, bk2
  <1>4. ASSUME NEW i \in DOMAIN ch2
        PROVE  /\ ch2[i].sid \in DOMAIN bk2 /\ ch2[i] = bk2[ch2[i].sid]
               /\ ch2[i].sid <= k + 1 \/ \E j \in 1..i - 1 : ch2[i].sid <= ch2[j].sid + 1
    <2>1. CASE i \in DOMAIN ch
      <3>1. /\ ch[i].sid \in DOMAIN bk /\ ch[i] = bk[ch[i].sid]
            /\ ch[i].sid <= k + 1 \/ \E j \in 1..i - 1 : ch[i].sid <= ch[j].sid + 1
        BY <2>1 DEF Fresh
      <3>2. ch2[i] = ch[i] /\ \A j \in 1..i - 1 : ch2[j] = ch[j]
        BY <1>1, <2>1
      <3>3. \A s \in DOMAIN bk : s \in DOMAIN bk2 /\ bk2[s] = bk[s]
        BY <1>2
      <3> QED
        BY <3>1, <3>2, <3>3
    <2>2. CASE i = c
      <3>1. ch2[i].sid = b /\ b \in DOMAIN bk2
        BY <1>1, <1>2, <1>3, <2>2
      <3>2. ch2[i] = bk2[b]
        BY <1>1, <1>2, <2>2
      <3>3. b <= k + 1 \/ \E j \in 1..c - 1 : b <= ch2[j].sid + 1
        <4>1. CASE Len(bk) > k
          <5>1. Len(bk) \in DOMAIN bk
            BY <1>2, <4>1
          <5>2. PICK j \in DOMAIN ch : ch[j].sid = Len(bk)
            BY <4>1, <5>1, <1>2 DEF Fresh
          <5>3. j \in 1..c - 1 /\ ch2[j] = ch[j]
            BY <1>1
          <5> QED
            BY <1>2, <5>2, <5>3
        <4> QED
          BY <1>2, <1>3, <4>1
      <3> QED
        BY <2>2, <3>1, <3>2, <3>3
    <2> QED
      BY <1>1, <2>1, <2>2
  <1>5. ASSUME NEW s \in DOMAIN bk2
        PROVE  s <= k \/ \E i \in DOMAIN ch2 : ch2[i].sid = s
    <2>1. CASE s = b
      BY <1>1, <1>3, <2>1
    <2>2. CASE s \in DOMAIN bk
      <3>1. s <= k \/ \E i \in DOMAIN ch : ch[i].sid = s
        BY <2>2 DEF Fresh
      <3> QED
        BY <1>1, <3>1
    <2> QED
      BY <1>2, <2>1, <2>2
  <1>6. k <= Len(bk2)
    BY <1>2, <1>3
  <1>7. Fresh(ch2, bk2, k)
    BY <1>4, <1>5, <1>6 DEF Fresh
  <1> QED
    BY <1>7 DEF ch2, bk2

\* What is recorded above a sid the client knows is sent again.
LEMMA FreshReplay ==
  ASSUME NEW ch \in Seq(Packets), NEW bk \in Seq(Packets), NEW k \in Nat, NEW from \in 0..k,
         Fresh(ch, bk, k), \A i \in DOMAIN bk : bk[i].sid = i
  PROVE  /\ ch \o SubSeq(bk, from + 1, Len(bk)) \in Seq(Packets)
         /\ Fresh(ch \o SubSeq(bk, from + 1, Len(bk)), bk, k)
  <1> DEFINE again == SubSeq(bk, from + 1, Len(bk))
             ch2 == ch \o again
             c == Len(ch)
             more == Len(bk) - from
  <1>1. k <= Len(bk) /\ Len(bk) \in Nat /\ DOMAIN bk = 1..Len(bk) /\ more \in Nat
    BY DEF Fresh
  <1>2. again \in Seq(Packets) /\ Len(again) = more /\ \A i \in 1..more : again[i] = bk[from + i]
    <2>1. \A i \in (from + 1)..Len(bk) : bk[i] \in Packets
      BY <1>1
    <2>2. /\ again \in Seq(Packets)
          /\ Len(again) = IF from + 1 <= Len(bk) THEN Len(bk) - (from + 1) + 1 ELSE 0
          /\ \A i \in 1..Len(bk) - (from + 1) + 1 : again[i] = bk[(from + 1) + i - 1]
      BY <1>1, <2>1, SubSeqProperties
    <2> HIDE DEF again
    <2>3. Len(again) = more /\ Len(bk) - (from + 1) + 1 = more
      <3> SUFFICES ASSUME NEW n \in Nat, n = Len(bk), n - from \in Nat
                   PROVE  /\ (IF from + 1 <= n THEN n - (from + 1) + 1 ELSE 0) = n - from
                          /\ n - (from + 1) + 1 = n - from
        BY <1>1, <2>2
      <3> QED
        OBVIOUS
    <2>4. \A i \in 1..more : (from + 1) + i - 1 = from + i
      OBVIOUS
    <2> QED
      BY <2>2, <2>3, <2>4
  <1> HIDE DEF again
  <1>3. /\ ch2 \in Seq(Packets) /\ c \in Nat /\ DOMAIN ch = 1..c /\ DOMAIN ch2 = 1..c + more
        /\ \A i \in 1..c : ch2[i] = ch[i]
        /\ \A i \in 1..c + more : i > c => ch2[i] = again[i - c]
    <2> HIDE DEF more
    <2>1. ch2 \in Seq(Packets) /\ Len(ch2) = c + more /\ c \in Nat /\ DOMAIN ch = 1..c
      BY <1>1, <1>2, SMTT(30)
    <2>2. DOMAIN ch2 = 1..c + more
      BY <2>1
    <2>3. \A i \in 1..c : ch2[i] = ch[i]
      BY <1>1, <1>2
    <2>4. \A i \in 1..c + more : i > c => ch2[i] = again[i - c]
      BY <1>1, <1>2
    <2> QED
      BY <2>1, <2>2, <2>3, <2>4
  <1> HIDE DEF ch2, more, c
  <1>4. ASSUME NEW i \in 1..c + more, i > c
        PROVE  ch2[i].sid = from + i - c /\ ch2[i] = bk[from + i - c] /\ from + i - c \in DOMAIN bk
    <2>1. i - c \in 1..more /\ from + i - c = from + (i - c) /\ from + i - c \in DOMAIN bk
      BY <1>1, <1>3, <1>4 DEF more
    <2>2. ch2[i] = bk[from + i - c]
      BY <1>2, <1>3, <1>4, <2>1
    <2> QED
      BY <2>1, <2>2
  <1>5. ASSUME NEW i \in DOMAIN ch2
        PROVE  /\ ch2[i].sid \in DOMAIN bk /\ ch2[i] = bk[ch2[i].sid]
               /\ ch2[i].sid <= k + 1 \/ \E j \in 1..i - 1 : ch2[i].sid <= ch2[j].sid + 1
    <2>1. CASE i \in DOMAIN ch
      <3>1. /\ ch[i].sid \in DOMAIN bk /\ ch[i] = bk[ch[i].sid]
            /\ ch[i].sid <= k + 1 \/ \E j \in 1..i - 1 : ch[i].sid <= ch[j].sid + 1
        BY <2>1 DEF Fresh
      <3>2. ch2[i] = ch[i] /\ \A j \in 1..i - 1 : ch2[j] = ch[j]
        BY <1>3, <2>1
      <3> QED
        BY <3>1, <3>2
    <2>2. CASE i > c
      <3>1. ch2[i].sid = from + i - c /\ ch2[i] = bk[from + i - c] /\ from + i - c \in DOMAIN bk
        BY <1>3, <1>4, <2>2
      <3>2. CASE i = c + 1
        BY <1>1, <1>3, <3>1, <3>2
      <3>3. CASE i > c + 1
        <4>1. i - 1 \in 1..c + more /\ i - 1 > c /\ i - 1 \in 1..i - 1
          BY <1>1, <1>3, <3>3
        <4>2. ch2[i - 1].sid = from + (i - 1) - c
          BY <1>4, <4>1
        <4>3. ch2[i].sid <= ch2[i - 1].sid + 1
          BY <1>3, <3>1, <4>2
        <4> QED
          BY <3>1, <4>1, <4>3
      <3> QED
        BY <1>1, <1>3, <2>2, <3>2, <3>3, <3>1
    <2> QED
      BY <1>1, <1>3, <2>1, <2>2
  <1>6. \A s \in DOMAIN bk : s <= k \/ \E i \in DOMAIN ch2 : ch2[i].sid = s
    <2> TAKE s \in DOMAIN bk
    <2>1. s <= k \/ \E i \in DOMAIN ch : ch[i].sid = s
      BY DEF Fresh
    <2>2. \A i \in DOMAIN ch : i \in DOMAIN ch2 /\ ch2[i] = ch[i]
      BY <1>1, <1>3
    <2> QED
      BY <2>1, <2>2
  <1>7. Fresh(ch2, bk, k)
    BY <1>1, <1>5, <1>6 DEF Fresh
  <1> QED
    BY <1>3, <1>7 DEF ch2, again, c, more

\* The client reads: what it hears is in the book, and new only if it is the next.
LEMMA FreshTail ==
  ASSUME NEW ch \in Seq(Packets), NEW bk \in Seq(Packets), NEW k \in Nat, ch # <<>>,
         Fresh(ch, bk, k)
  PROVE  /\ Head(ch).sid \in DOMAIN bk /\ Head(ch) = bk[Head(ch).sid] /\ Head(ch).sid <= k + 1
         /\ Fresh(Tail(ch), bk, Max({k, Head(ch).sid}))
  <1> DEFINE new == Tail(ch)
             s1 == Head(ch).sid
             c == Len(ch)
  <1>1. /\ Head(ch) \in Packets /\ c \in Nat \ {0}
        /\ Head(ch) = ch[1] /\ DOMAIN ch = 1..c /\ DOMAIN new = 1..c - 1
        /\ \A i \in 1..c - 1 : new[i] = ch[i + 1]
    BY TailFacts
  <1>2. s1 \in Nat /\ 1 \in DOMAIN ch
    BY <1>1 DEF Packets
  <1>3. s1 \in DOMAIN bk /\ Head(ch) = bk[s1] /\ s1 <= k + 1
    <2>1. ch[1].sid \in DOMAIN bk /\ ch[1] = bk[ch[1].sid]
      BY <1>2 DEF Fresh
    <2>2. ch[1].sid <= k + 1 \/ \E j \in 1..1 - 1 : ch[1].sid <= ch[j].sid + 1
      BY <1>2 DEF Fresh
    <2>3. ~ \E j \in 1..1 - 1 : TRUE
      OBVIOUS
    <2> QED
      BY <1>1, <2>1, <2>2, <2>3
  <1>4. SUFFICES ASSUME NEW l \in Nat, l >= k, l >= s1, l = k \/ l = s1
                 PROVE  Fresh(new, bk, l)
    <2>1. Max({k, s1}) = IF k < s1 THEN s1 ELSE k
      BY <1>2, MaxOfTwo
    <2>2. /\ Max({k, s1}) \in Nat /\ Max({k, s1}) >= k /\ Max({k, s1}) >= s1
          /\ Max({k, s1}) = k \/ Max({k, s1}) = s1
      BY <1>2, <2>1
    <2> HIDE DEF s1, new
    <2>3. Fresh(new, bk, Max({k, s1}))
      BY <2>2, <1>4
    <2> QED
      BY <1>3, <2>3 DEF s1, new
  <1> HIDE DEF new, s1
  <1>5. ASSUME NEW i \in DOMAIN new
        PROVE  /\ new[i].sid \in DOMAIN bk /\ new[i] = bk[new[i].sid]
               /\ new[i].sid <= l + 1 \/ \E j \in 1..i - 1 : new[i].sid <= new[j].sid + 1
    <2>1. i + 1 \in DOMAIN ch /\ new[i] = ch[i + 1] /\ i \in Nat
      BY <1>1
    <2>2. ch[i + 1].sid \in DOMAIN bk /\ ch[i + 1] = bk[ch[i + 1].sid] /\ ch[i + 1].sid \in Int
      BY <2>1 DEF Fresh
    <2>3. ch[i + 1].sid <= k + 1 \/ \E j \in 1..(i + 1) - 1 : ch[i + 1].sid <= ch[j].sid + 1
      BY <2>1 DEF Fresh
    <2>4. CASE ch[i + 1].sid <= k + 1
      <3>1. ch[i + 1].sid <= l + 1
        BY <2>2, <2>4, <1>4
      <3> QED
        BY <2>1, <2>2, <3>1
    <2>5. ASSUME NEW j \in 1..(i + 1) - 1, ch[i + 1].sid <= ch[j].sid + 1
          PROVE  new[i].sid <= l + 1 \/ \E x \in 1..i - 1 : new[i].sid <= new[x].sid + 1
      <3>1. CASE j = 1
        <4>1. ch[i + 1].sid <= s1 + 1
          BY <1>1, <2>5, <3>1 DEF s1
        <4>2. ch[i + 1].sid <= l + 1
          BY <1>2, <1>4, <2>2, <4>1
        <4> QED
          BY <2>1, <4>2
      <3>2. CASE j > 1
        <4>1. j - 1 \in 1..i - 1 /\ j - 1 \in 1..c - 1 /\ (j - 1) + 1 = j
          BY <1>1, <2>1, <3>2
        <4>2. new[j - 1] = ch[j]
          BY <1>1, <4>1
        <4> QED
          BY <2>1, <2>5, <4>1, <4>2
      <3> QED
        BY <2>1, <3>1, <3>2
    <2>6. new[i].sid <= l + 1 \/ \E j \in 1..i - 1 : new[i].sid <= new[j].sid + 1
      BY <2>1, <2>3, <2>4, <2>5
    <2> QED
      BY <2>1, <2>2, <2>6
  <1>6. ASSUME NEW s \in DOMAIN bk
        PROVE  s <= l \/ \E i \in DOMAIN new : new[i].sid = s
    <2>1. s \in Int
      OBVIOUS
    <2>2. CASE s <= k
      BY <1>4, <2>1, <2>2
    <2>3. ASSUME NEW i \in DOMAIN ch, ch[i].sid = s
          PROVE  s <= l \/ \E x \in DOMAIN new : new[x].sid = s
      <3>1. CASE i = 1
        BY <1>1, <1>2, <1>4, <2>3, <3>1 DEF s1
      <3>2. CASE i # 1
        <4>1. i - 1 \in DOMAIN new /\ i - 1 \in 1..c - 1 /\ (i - 1) + 1 = i
          BY <1>1, <3>2
        <4>2. new[i - 1] = ch[i]
          BY <1>1, <4>1
        <4> QED
          BY <2>3, <4>1, <4>2
      <3> QED
        BY <3>1, <3>2
    <2>4. s <= k \/ \E i \in DOMAIN ch : ch[i].sid = s
      BY DEF Fresh
    <2> QED
      BY <2>2, <2>3, <2>4
  <1>7. l <= Len(bk)
    <2>1. k <= Len(bk)
      BY DEF Fresh
    <2>2. s1 <= Len(bk)
      BY <1>3
    <2> QED
      BY <1>4, <2>1, <2>2
  <1> QED
    BY <1>5, <1>6, <1>7 DEF Fresh

-----------------------------------------------------------------------------
(* Packets on their way                                                       *)

Numbered(p, n) == [p EXCEPT !.sid = n]

LEMMA NumberedFacts ==
  ASSUME NEW p \in Packets, NEW n \in Nat
  PROVE  /\ Numbered(p, n) \in Packets /\ Numbered(p, n).sid = n
         /\ Numbered(p, n).kind = p.kind /\ Numbered(p, n).of = p.of
         /\ Numbered(p, n).chunk = p.chunk /\ Number(Numbered(p, n)) = Number(p)
         /\ IsFile(p) => IsFile(Numbered(p, n))
  <1>1. /\ Numbered(p, n) \in Packets /\ Numbered(p, n).sid = n
        /\ Numbered(p, n).kind = p.kind /\ Numbered(p, n).of = p.of
        /\ Numbered(p, n).chunk = p.chunk
    BY DEF Numbered, Packets
  <1> QED
    BY <1>1 DEF Number, IsFile

\* Where account b's side of the server has grown by the packet p or not at all.
Adds(b, p) ==
    LET q == Numbered(p, Len(book[b]) + 1)
    IN  /\ book'[b] = Append(book[b], q)
        /\ toClient'[b] = IF link[b] = "up" THEN Append(toClient[b], q) ELSE toClient[b]

Leaves(b) == book'[b] = book[b] /\ toClient'[b] = toClient[b]

LEMMA DeliverFacts ==
  ASSUME Types, NEW mail, DOMAIN mail \subseteq Accounts,
         \A b \in DOMAIN mail : mail[b] \in Packets, Deliver(mail)
  PROVE  /\ book' \in [Accounts -> Seq(Packets)] /\ toClient' \in [Accounts -> Seq(Packets)]
         /\ \A b \in DOMAIN mail : Adds(b, mail[b])
         /\ \A b \in Accounts \ DOMAIN mail : Leaves(b)
  <1>1. book \in [Accounts -> Seq(Packets)] /\ toClient \in [Accounts -> Seq(Packets)]
    BY DEF Types
  <1> DEFINE q(b) == Numbered(mail[b], Len(book[b]) + 1)
  <1>2. /\ book' = [b \in Accounts |-> IF b \in DOMAIN mail THEN Append(book[b], q(b)) ELSE book[b]]
        /\ toClient' = [b \in Accounts |-> IF b \in DOMAIN mail /\ link[b] = "up"
                                             THEN Append(toClient[b], q(b)) ELSE toClient[b]]
    BY DEF Deliver, Numbered
  <1>3. \A b \in DOMAIN mail : q(b) \in Packets
    <2> TAKE b \in DOMAIN mail
    <2>1. Len(book[b]) + 1 \in Nat
      BY <1>1
    <2> QED
      BY <2>1, NumberedFacts
  <1>4. \A b \in DOMAIN mail : /\ book'[b] = Append(book[b], q(b))
                               /\ toClient'[b] = IF link[b] = "up" THEN Append(toClient[b], q(b))
                                                 ELSE toClient[b]
    BY <1>2
  <1>5. \A b \in Accounts \ DOMAIN mail : Leaves(b)
    BY <1>2 DEF Leaves
  <1>6. \A b \in DOMAIN mail : Adds(b, mail[b])
    BY <1>4 DEF Adds
  <1> HIDE DEF q
  <1>7. book' \in [Accounts -> Seq(Packets)] /\ toClient' \in [Accounts -> Seq(Packets)]
    BY <1>1, <1>2, <1>3
  <1> QED
    BY <1>5, <1>6, <1>7

LEMMA ErrorFacts ==
  Error \in Packets /\ Error.kind = "error" /\ Error.of = None
  BY DEF Error, Packet, Packets, FileKinds

LEMMA NthFacts ==
  ASSUME NEW t \in Transfers, NEW n \in 0..Complete - 1, NEW source \in Transfers \cup {None}
  PROVE  /\ Nth(t, n, source) \in Packets /\ IsFile(Nth(t, n, source))
         /\ Nth(t, n, source).of = t /\ Number(Nth(t, n, source)) = n
         /\ Nth(t, n, source).kind = "sending" => n \in 1..Chunks /\ Nth(t, n, source).chunk[1] = source
  <1> USE BoundsAssumption
  <1>1. CASE n = 0
    BY <1>1 DEF Nth, Packet, Packets, FileKinds, IsFile, Number
  <1>2. CASE n \in 1..Chunks
    <2> DEFINE p == [kind |-> "sending", of |-> t, chunk |-> <<source, n>>, sid |-> 0]
    <2>1. Nth(t, n, source) = p
      BY <1>2 DEF Nth, Packet
    <2>2. <<source, n>> \in (Transfers \cup {None}) \X (1..Chunks)
      BY <1>2
    <2>3. p \in Packets
      BY <2>2 DEF Packets, FileKinds
    <2>4. IsFile(p)
      BY <2>2 DEF IsFile, FileKinds
    <2>5. Number(p) = n /\ p.chunk[1] = source
      BY DEF Number
    <2> QED
      BY <2>1, <2>3, <2>4, <2>5, <1>2
  <1>3. CASE n = Chunks + 1
    <2>1. Nth(t, n, source) = [kind |-> "sendok", of |-> t, chunk |-> <<>>, sid |-> 0]
      BY <1>3 DEF Nth, Packet
    <2> QED
      BY <1>3, <2>1 DEF Packets, FileKinds, IsFile, Number
  <1> QED
    BY <1>1, <1>2, <1>3 DEF Complete

\* Who can receive what from whom.
LEMMA ReceiversFacts ==
  ASSUME job \in Jobs, NEW t \in Transfers
  PROVE  /\ job[t].from \in Machines /\ Receivers(t) \subseteq Machines
         /\ job[t].from = Server => Receivers(t) \subseteq Accounts
         /\ job[t].to \in Machines => Receivers(t) = {job[t].to}
         /\ job[t].to = All => Receivers(t) = Machines \ {job[t].from}
         /\ \A r \in Receivers(t) : HandleOf(r, job[t].from) \in Handles
                                    /\ HandleOf(r, job[t].from)[1] = r
  <1>1. /\ job[t].from \in Machines /\ job[t].to \in Machines \cup {All}
        /\ <<job[t].from, job[t].to>> # <<Server, Server>>
    BY JobsAssumption
  <1>2. All \notin Machines
    BY IdsAssumption DEF Machines
  <1>3. /\ job[t].to \in Machines => Receivers(t) = {job[t].to}
        /\ job[t].to = All => Receivers(t) = Machines \ {job[t].from}
    BY <1>1, <1>2 DEF Receivers
  <1>4. job[t].from = Server => Receivers(t) \subseteq Accounts
    BY <1>1, <1>3 DEF Machines
  <1>5. ASSUME NEW r \in Receivers(t)
        PROVE  HandleOf(r, job[t].from) \in Handles /\ HandleOf(r, job[t].from)[1] = r
    <2>1. CASE r = Server
      <3>1. job[t].from \in Accounts
        BY <1>1, <1>4, <2>1, IdsAssumption DEF Machines
      <3> QED
        BY <2>1, <3>1 DEF HandleOf, Handles
    <2>2. CASE r # Server
      <3>1. r \in Accounts
        BY <1>1, <1>3, <2>2 DEF Machines
      <3> QED
        BY <2>2, <3>1 DEF HandleOf, Handles
    <2> QED
      BY <2>1, <2>2
  <1> QED
    BY <1>1, <1>3, <1>4, <1>5

\* A packet taken from a channel is what the channel was said to hold.
LEMMA HeadUp ==
  ASSUME Types, Upward, NEW a \in Accounts, toServer[a] # <<>>
  PROVE  LET p == Head(toServer[a])
         IN  /\ p \in Packets
             /\ \/ IsFile(p) /\ job[p.of].from = a
                \/ p.kind = "error" /\ p.of = None
                \/ p.kind = "ping" /\ p.of = None /\ p.sid <= known[a]
  <1>1. toServer[a] \in Seq(Packets)
    BY DEF Types
  <1>2. Head(toServer[a]) = toServer[a][1] /\ 1 \in DOMAIN toServer[a]
    BY <1>1, TailFacts
  <1>3. Head(toServer[a]) \in ToSet(toServer[a])
    BY <1>2 DEF ToSet
  <1> QED
    BY <1>3 DEF Upward, UpMay

LEMMA HeadDown ==
  ASSUME Types, Booked, Downward, NEW a \in Accounts, toClient[a] # <<>>
  PROVE  LET p == Head(toClient[a])
         IN  /\ p \in Packets /\ p.sid \in DOMAIN book[a] /\ p = book[a][p.sid]
             /\ p.sid \in Nat /\ p.sid <= known[a] + 1 /\ link[a] = "up"
             /\ \/ IsFile(p) /\ a \in Receivers(p.of)
                \/ p.kind = "error" /\ p.of = None
             /\ Max({known[a], p.sid}) \in Nat
             /\ Fresh(Tail(toClient[a]), book[a], Max({known[a], p.sid}))
  <1> DEFINE p == Head(toClient[a])
  <1>1. toClient[a] \in Seq(Packets) /\ book[a] \in Seq(Packets) /\ known[a] \in Nat
    BY DEF Types
  <1>2. link[a] = "up" /\ Fresh(toClient[a], book[a], known[a])
    BY DEF Downward
  <1>3. /\ p.sid \in DOMAIN book[a] /\ p = book[a][p.sid] /\ p.sid <= known[a] + 1
        /\ Fresh(Tail(toClient[a]), book[a], Max({known[a], p.sid}))
    BY <1>1, <1>2, FreshTail
  <1>4. p \in Packets
    BY <1>1, TailFacts
  <1>5. p.sid \in Nat
    BY <1>4 DEF Packets
  <1>6. \/ IsFile(p) /\ a \in Receivers(p.of)
        \/ p.kind = "error" /\ p.of = None
    BY <1>3 DEF Booked, DownMay
  <1>7. Max({known[a], p.sid}) \in Nat
    BY <1>1, <1>5, MaxOfTwo
  <1> QED
    BY <1>2, <1>3, <1>4, <1>5, <1>6, <1>7

-----------------------------------------------------------------------------
(* The receiver's handler                                                     *)

\* A packet of a file is handled by q, which is one of those it is for, or q
\* fails to.
Handling(q, p) ==
    /\ q \in Machines /\ p \in Packets /\ IsFile(p) /\ q \in Receivers(p.of)
    /\ q = Server => link[job[p.of].from] # "down"
    /\ HandleFile(q, p) \/ CannotHandleFile(q, p)

LEMMA ClosedFacts == Closed \in Slots /\ Closed.of = None /\ None \notin Transfers
  BY IdsAssumption DEF Closed, Slots

\* One handle and one file change.
Happens(q, p, h) ==
    \/ /\ p.kind = "send"
       /\ wait' = [wait EXCEPT ![h] = Opened(p.of)]
       /\ files' = [files EXCEPT ![<<q, job[p.of].path>>] = <<>>]
       /\ got' = got
    \/ /\ p.kind = "sending" /\ wait[h] # Closed
       /\ wait' = [wait EXCEPT ![h].at = @ + 1]
       /\ files' = [files EXCEPT ![<<q, wait[h].path>>] = WriteAt(@, wait[h].at, p.chunk)]
       /\ got' = got
    \/ /\ p.kind = "sendok" /\ wait[h] # Closed
       /\ wait' = [wait EXCEPT ![h] = Closed]
       /\ files' = files
       /\ got' = got \cup (IF Verified(files[<<q, job[p.of].path>>], p.of)
                           THEN {<<q, p.of>>} ELSE {})
    \/ /\ p.kind # "send" /\ wait[h] = Closed
       /\ wait' = wait /\ files' = files /\ got' = got

\* The same, of a handler that may fail.
MayHappen(q, p, h) ==
    \/ /\ p.kind = "send"
       /\ wait' = [wait EXCEPT ![h] = Opened(p.of)]
       /\ files' = [files EXCEPT ![<<q, job[p.of].path>>] = <<>>]
    \/ /\ p.kind = "sending" /\ wait[h] # Closed
       /\ wait' = [wait EXCEPT ![h].at = @ + 1]
       /\ \E c \in (Transfers \cup {None}) \X Nat :
             files' = [files EXCEPT ![<<q, wait[h].path>>] = WriteAt(@, wait[h].at, c)]
    \/ wait' \in {wait, [wait EXCEPT ![h] = Closed]} /\ files' = files

LEMMA HandleAt ==
  ASSUME Types, HandlesOK, NEW q, NEW p, Handling(q, p)
  PROVE  /\ HandleOf(q, job[p.of].from) \in Handles /\ HandleOf(q, job[p.of].from)[1] = q
         /\ p.of \in Transfers
         /\ \A g \in Handles \ {HandleOf(q, job[p.of].from)} : wait'[g] = wait[g]
         /\ got' \in {got, got \cup {<<q, p.of>>}}
         /\ MayHappen(q, p, HandleOf(q, job[p.of].from))
         /\ HandleFile(q, p) => Happens(q, p, HandleOf(q, job[p.of].from))
  <1> DEFINE h == HandleOf(q, job[p.of].from)
  <1>1. p.of \in Transfers /\ h \in Handles /\ h[1] = q
    BY ReceiversFacts DEF Handling, IsFile, Types
  <1>2. HandleFile(q, p) \/ CannotHandleFile(q, p)
    BY DEF Handling
  <1>3. Open(q, p.of) = wait[h]
    BY DEF Open
  <1>4. HandleFile(q, p) => Happens(q, p, h)
    BY <1>3 DEF HandleFile, HandleFileSend, HandleFileSending, HandleFileSendOk, disk, Happens
  <1>5. p.kind = "sending" =>
           p.chunk \in (Transfers \cup {None}) \X Nat /\ <<None, 1>> \in (Transfers \cup {None}) \X Nat
    <2>1. p.kind = "sending" => p.chunk \in (Transfers \cup {None}) \X (1..Chunks)
      BY DEF Handling, IsFile
    <2>2. 1..Chunks \subseteq Nat
      OBVIOUS
    <2> QED
      BY <2>1, <2>2
  <1>6. MayHappen(q, p, h) /\ got' \in {got, got \cup {<<q, p.of>>}}
    <2>1. CASE HandleFile(q, p)
      <3> HIDE DEF h
      <3>1. Happens(q, p, h)
        BY <1>4, <2>1
      <3> QED
        BY <1>5, <3>1 DEF Happens, MayHappen
    <2>2. CASE CannotHandleFile(q, p)
      <3>1. CASE UNCHANGED disk
        BY <3>1 DEF disk, MayHappen
      <3>2. CASE /\ Open(q, p.of) # Closed /\ p.kind = "sending"
                 /\ \E part \in {p.chunk, <<None, 1>>} : HandleFileSending(q, p.of, part)
        <4>1. PICK part \in {p.chunk, <<None, 1>>} : HandleFileSending(q, p.of, part)
          BY <3>2
        <4>2. part \in (Transfers \cup {None}) \X Nat
          BY <1>5, <3>2, <4>1
        <4>3. /\ wait' = [wait EXCEPT ![h].at = @ + 1] /\ got' = got
              /\ files' = [files EXCEPT ![<<q, wait[h].path>>] = WriteAt(@, wait[h].at, part)]
          BY <1>3, <4>1 DEF HandleFileSending
        <4> QED
          BY <1>3, <3>2, <4>2, <4>3 DEF MayHappen
      <3>3. CASE wait' = [wait EXCEPT ![h] = Closed] /\ UNCHANGED <<files, got>>
        BY <3>3 DEF MayHappen
      <3> QED
        BY <2>2, <3>1, <3>2, <3>3 DEF CannotHandleFile
    <2> QED
      BY <1>2, <2>1, <2>2
  <1> HIDE DEF h
  <1>7. wait \in [Handles -> Slots]
    BY DEF Types
  <1>8. \A g \in Handles \ {h} : wait'[g] = wait[g]
    BY <1>6, <1>7 DEF MayHappen
  <1> QED
    BY <1>1, <1>4, <1>6, <1>8 DEF h

LEMMA WriteFacts ==
  ASSUME NEW content \in Contents, NEW at \in Nat,
         NEW chunk \in (Transfers \cup {None}) \X Nat
  PROVE  WriteAt(content, at, chunk) \in Contents
  <1> DEFINE n == Max({Len(content), at + 1})
             E == (Transfers \cup {None}) \X Nat
             f(i) == IF i = at + 1 THEN chunk
                     ELSE IF i <= Len(content) THEN content[i] ELSE <<None, i>>
  <1>1. content \in Seq(E) /\ Len(content) \in Nat
    BY DEF Contents
  <1>2. n \in Nat
    <2>1. Len(content) \in Int /\ at + 1 \in Int
      BY <1>1
    <2>2. n = IF Len(content) < at + 1 THEN at + 1 ELSE Len(content)
      BY <2>1, MaxOfTwo
    <2> QED
      BY <1>1, <2>2
  <1>3. \A i \in 1..n : f(i) \in E
    <2> TAKE i \in 1..n
    <2>1. CASE i = at + 1
      BY <2>1
    <2>2. CASE i # at + 1 /\ i <= Len(content)
      <3>1. i \in 1..Len(content)
        BY <1>1, <1>2, <2>2
      <3>2. content[i] \in E
        BY <1>1, <3>1
      <3> QED
        BY <2>2, <3>2
    <2>3. CASE i # at + 1 /\ ~(i <= Len(content))
      <3>1. i \in Nat
        BY <1>2
      <3> QED
        BY <2>3, <3>1
    <2> QED
      BY <2>1, <2>2, <2>3
  <1>4. WriteAt(content, at, chunk) = [i \in 1..n |-> f(i)]
    BY DEF WriteAt
  <1> HIDE DEF n, f, E
  <1>5. [i \in 1..n |-> f(i)] \in Seq(E)
    BY <1>2, <1>3
  <1> QED
    BY <1>4, <1>5 DEF Contents, E

LEMMA OpenedFacts ==
  ASSUME NEW t \in Transfers
  PROVE  /\ Opened(t) \in Slots /\ Opened(t).of = t /\ Opened(t).path = job[t].path
         /\ Opened(t).at = 0 /\ job[t].path \in Paths
  BY DEF Opened, Slots, Paths

\* Handles and files keep their types.
LEMMA HandleTypes ==
  ASSUME Types, HandlesOK, NEW q, NEW p, Handling(q, p)
  PROVE  /\ wait' \in [Handles -> Slots] /\ files' \in [Machines \X Paths -> Contents]
         /\ got' \subseteq Machines \X Transfers
  <1> DEFINE h == HandleOf(q, job[p.of].from)
             u == p.of
  <1>1. /\ wait \in [Handles -> Slots] /\ files \in [Machines \X Paths -> Contents]
        /\ got \subseteq Machines \X Transfers
    BY DEF Types
  <1>2. q \in Machines /\ u \in Transfers /\ h \in Handles
    BY HandleAt DEF Handling
  <1>3. got' \subseteq Machines \X Transfers
    <2>1. got' \in {got, got \cup {<<q, u>>}}
      BY HandleAt
    <2> QED
      BY <1>1, <1>2, <2>1
  <1>4. CASE /\ wait' = [wait EXCEPT ![h] = Opened(u)]
             /\ files' = [files EXCEPT ![<<q, job[u].path>>] = <<>>]
    <2>1. Opened(u) \in Slots /\ job[u].path \in Paths
      BY <1>2, OpenedFacts
    <2>2. <<>> \in Contents
      BY DEF Contents
    <2> HIDE DEF h, u
    <2> QED
      BY <1>1, <1>2, <1>3, <1>4, <2>1, <2>2
  <1>5. ASSUME NEW chunk \in (Transfers \cup {None}) \X Nat,
               wait[h] # Closed, wait' = [wait EXCEPT ![h].at = @ + 1],
               files' = [files EXCEPT ![<<q, wait[h].path>>] = WriteAt(@, wait[h].at, chunk)]
        PROVE  wait' \in [Handles -> Slots] /\ files' \in [Machines \X Paths -> Contents]
    <2>1. OpenFor(h)
      BY <1>2, <1>5 DEF HandlesOK
    <2>2. wait[h].path \in Paths
      BY <2>1 DEF OpenFor, Paths
    <2> DEFINE c == files[<<q, wait[h].path>>]
               w == WriteAt(c, wait[h].at, chunk)
    <2>4. wait[h] \in Slots /\ wait[h].at \in Nat
      BY <1>1, <1>2 DEF Slots
    <2>5. w \in Contents
      <3>1. c \in Contents
        BY <1>1, <1>2, <2>2
      <3> HIDE DEF c
      <3> QED
        BY <2>4, <3>1, WriteFacts
    <2>6. files' = [files EXCEPT ![<<q, wait[h].path>>] = w]
      BY <1>5
    <2>7. [wait[h] EXCEPT !.at = @ + 1] \in Slots
      BY <2>4 DEF Slots
    <2>8. wait' = [wait EXCEPT ![h] = [wait[h] EXCEPT !.at = @ + 1]]
      BY <1>5
    <2> HIDE DEF w, c, h
    <2>9. files' \in [Machines \X Paths -> Contents]
      BY <1>1, <1>2, <2>2, <2>5, <2>6
    <2>10. wait' \in [Handles -> Slots]
      BY <1>1, <2>7, <2>8
    <2> QED
      BY <2>9, <2>10
  <1>6. CASE wait' = [wait EXCEPT ![h] = Closed] /\ files' = files
    <2> HIDE DEF h
    <2> QED
      BY <1>1, <1>3, <1>6, ClosedFacts
  <1>7. CASE wait' = wait /\ files' = files
    BY <1>1, <1>3, <1>7
  <1> QED
    <2>1. MayHappen(q, p, h)
      BY HandleAt
    <2> HIDE DEF h, u
    <2> QED
      BY <1>3, <1>4, <1>5, <1>6, <1>7, <2>1 DEF MayHappen, u

\* The handle is open for the packet's transfer, or as it was, or closed.
LEMMA HandleKeeps ==
  ASSUME Types, HandlesOK, NEW q, NEW p, Handling(q, p), job' = job, link' = link
  PROVE  HandlesOK'
  <1> DEFINE h == HandleOf(q, job[p.of].from)
             u == p.of
  <1>1. wait \in [Handles -> Slots]
    BY DEF Types
  <1>2. /\ u \in Transfers /\ h \in Handles /\ h[1] = q
        /\ \A g \in Handles \ {h} : wait'[g] = wait[g]
    BY HandleAt
  <1>3. ASSUME NEW g \in Handles, g # h PROVE (wait[g] = Closed \/ OpenFor(g))'
    <2>1. wait'[g] = wait[g] /\ (wait[g] = Closed \/ OpenFor(g))
      BY <1>2, <1>3 DEF HandlesOK
    <2> QED
      BY <2>1 DEF OpenFor, HandleOf, Closed
  <1>4. (wait[h] = Closed \/ OpenFor(h))'
    <2> SUFFICES ASSUME NEW g \in Handles, g = h
                 PROVE  (wait[g] = Closed \/ OpenFor(g))'
      BY <1>2
    <2>0. wait[g] = Closed \/ OpenFor(g)
      BY DEF HandlesOK
    <2>5. \/ wait' = [wait EXCEPT ![h] = Opened(u)]
          \/ wait' = [wait EXCEPT ![h].at = @ + 1] /\ wait[h] # Closed
          \/ wait' = [wait EXCEPT ![h] = Closed]
          \/ wait' = wait
      BY HandleAt DEF MayHappen
    <2>1. CASE wait' = [wait EXCEPT ![h] = Opened(u)]
      <3>1. wait'[g] = Opened(u)
        BY <1>1, <1>2, <2>1
      <3>2. wait'[g].of = u /\ wait'[g].path = job[u].path
        BY <1>2, <3>1, OpenedFacts
      <3>3. g = HandleOf(g[1], job[u].from)
        BY <1>2
      <3>4. g[1] = Server => link[g[2]] # "down"
        <4>1. q = Server => link[job[u].from] # "down"
          BY DEF Handling
        <4>2. q = Server => h[2] = job[u].from
          BY DEF HandleOf
        <4> QED
          BY <1>2, <4>1, <4>2
      <3> HIDE DEF u, h
      <3>5. wait'[g].of \in Transfers /\ HandleOf(g[1], job'[u].from) = HandleOf(g[1], job[u].from)
        BY <1>2, <3>2 DEF HandleOf
      <3> QED
        BY <3>2, <3>3, <3>4, <3>5 DEF OpenFor, HandleOf
    <2>2. CASE wait' = [wait EXCEPT ![h].at = @ + 1] /\ wait[h] # Closed
      <3>1. wait'[g].of = wait[g].of /\ wait'[g].path = wait[g].path
        BY <1>1, <1>2, <2>2 DEF Slots
      <3>2. OpenFor(g)
        BY <2>0, <2>2
      <3> QED
        BY <3>1, <3>2 DEF OpenFor, HandleOf
    <2>3. CASE wait' = [wait EXCEPT ![h] = Closed]
      <3>1. wait'[g] = Closed
        BY <1>1, <1>2, <2>3
      <3> QED
        BY <3>1 DEF Closed
    <2>4. CASE wait' = wait
      BY <2>0, <2>4 DEF OpenFor, HandleOf, Closed
    <2> QED
      BY <2>1, <2>2, <2>3, <2>4, <2>5
  <1> QED
    BY <1>3, <1>4 DEF HandlesOK

\* Other machines do not notice.
LEMMA HandleElsewhere ==
  ASSUME Types, HandlesOK, NEW q, NEW p, Handling(q, p), NEW r \in Machines, r # q
  PROVE  /\ \A g \in Handles : g[1] = r => wait'[g] = wait[g]
         /\ \A x \in Paths : files'[<<r, x>>] = files[<<r, x>>]
         /\ got \subseteq got'
  <1>1. files \in [Machines \X Paths -> Contents]
    BY DEF Types
  <1>2. got \subseteq got' /\ \A g \in Handles : g[1] = r => wait'[g] = wait[g]
    BY HandleAt
  <1>3. \/ files' = files
        \/ files' = [files EXCEPT ![<<q, job[p.of].path>>] = <<>>]
        \/ \E g \in Handles : \E v : files' = [files EXCEPT ![<<q, wait[g].path>>] = v]
    <2> DEFINE h == HandleOf(q, job[p.of].from)
    <2>1. h \in Handles /\ MayHappen(q, p, h)
      BY HandleAt
    <2> HIDE DEF h
    <2> QED
      BY <2>1 DEF MayHappen
  <1>4. \A x \in Paths : files'[<<r, x>>] = files[<<r, x>>]
    <2> TAKE x \in Paths
    <2>1. \A y : <<q, y>> # <<r, x>>
      OBVIOUS
    <2> QED
      BY <1>1, <1>3, <2>1
  <1> QED
    BY <1>2, <1>4

-----------------------------------------------------------------------------
(* What becomes of the transfers that a receiver is in the middle of          *)

LEMMA ProgressSame ==
  ASSUME Types, NEW t \in Transfers, NEW r \in Receivers(t), NEW n, job' = job,
         \A g \in Handles : g[1] = r => wait'[g] = wait[g],
         \A x \in Paths : files'[<<r, x>>] = files[<<r, x>>],
         got \subseteq got', Progress(r, t, n)
  PROVE  Progress(r, t, n)'
  <1> DEFINE h == HandleOf(r, job[t].from)
  <1>1. h \in Handles /\ h[1] = r
    BY ReceiversFacts DEF Types
  <1>2. wait'[h] = wait[h] /\ files'[<<r, job[t].path>>] = files[<<r, job[t].path>>]
    BY <1>1 DEF Paths
  <1>3. HandleOf(r, job[t].from)' = h
    BY DEF HandleOf
  <1>4. \A g \in Handles : g[1] = r => (wait'[g] # Closed <=> wait[g] # Closed) /\ wait'[g].path = wait[g].path
    OBVIOUS
  <1> HIDE DEF h
  <1>5. Progress(r, t, n) <=>
          \/ n = 0
          \/ /\ n \in 1..Chunks + 1
             /\ wait[h].of = t /\ wait[h].at = n - 1
             /\ files[<<r, job[t].path>>] = [i \in 1..n - 1 |-> <<t, i>>]
             /\ \A g \in Handles : g[1] = r /\ g # h /\ wait[g] # Closed => wait[g].path # job[t].path
          \/ n = Complete /\ <<r, t>> \in got
    BY DEF Progress, h
  <1>6. Progress(r, t, n)' <=>
          \/ n = 0
          \/ /\ n \in 1..Chunks + 1
             /\ wait'[h].of = t /\ wait'[h].at = n - 1
             /\ files'[<<r, job[t].path>>] = [i \in 1..n - 1 |-> <<t, i>>]
             /\ \A g \in Handles : g[1] = r /\ g # h /\ wait'[g] # Closed => wait'[g].path # job[t].path
          \/ n = Complete /\ <<r, t>> \in got'
    BY <1>3 DEF Progress, Closed, Complete
  <1> QED
    BY <1>1, <1>2, <1>4, <1>5, <1>6

\* A packet of another transfer, which does not run into this one.
LEMMA ProgressOther ==
  ASSUME Types, HandlesOK, NEW r, NEW p, NEW again, Handling(r, p), job' = job,
         NEW t \in Transfers, r \in Receivers(t), p.of # t, <<r, t>> \notin Disturbs(r, p, again),
         NEW n, Progress(r, t, n)
  PROVE  Progress(r, t, n)'
  <1> DEFINE h == HandleOf(r, job[t].from)
             u == p.of
             g == HandleOf(r, job[u].from)
             x == job[t].path
  <1>1. /\ g \in Handles /\ g[1] = r /\ u \in Transfers /\ MayHappen(r, p, g)
        /\ \A k \in Handles \ {g} : wait'[k] = wait[k]
        /\ got' \in {got, got \cup {<<r, p.of>>}}
    BY HandleAt
  <1>2. h \in Handles /\ h[1] = r /\ r \in Machines
    BY ReceiversFacts DEF Types
  <1>3. /\ wait \in [Handles -> Slots] /\ files \in [Machines \X Paths -> Contents]
        /\ job[u].path \in Paths /\ x \in Paths
    BY <1>1, OpenedFacts DEF Types
  <1>4. CASE n = 0 \/ (n = Complete /\ <<r, t>> \in got)
    BY <1>1, <1>4 DEF Progress, Complete
  <1>5. CASE /\ n \in 1..Chunks + 1
             /\ wait[h].of = t /\ wait[h].at = n - 1
             /\ files[<<r, x>>] = [i \in 1..n - 1 |-> <<t, i>>]
             /\ \A k \in Handles : k[1] = r /\ k # h /\ wait[k] # Closed => wait[k].path # x
    <2>1. OpenFor(h) /\ wait[h].path = x
      BY <1>2, <1>5, ClosedFacts DEF HandlesOK, OpenFor
    <2>2. g # h
      <3> SUFFICES ASSUME g = h PROVE FALSE
        OBVIOUS
      <3>1. r = Server => job[u].from = job[t].from
        BY DEF HandleOf
      <3>2. t \in Rivals(r, u)
        BY <3>1 DEF Rivals
      <3>3. Open(r, u).of = t
        BY <1>5 DEF Open
      <3> QED
        BY <3>2, <3>3 DEF Disturbs
    <2>3. wait'[h] = wait[h]
      BY <1>1, <1>2, <2>2
    <2>4. p.kind = "send" => job[u].path # x
      <3> SUFFICES ASSUME p.kind = "send", job[u].path = x PROVE FALSE
        OBVIOUS
      <3> DEFINE samePath == {v \in Transfers \ {p.of} : \E k \in Handles :
                                k[1] = r /\ wait[k].of = v /\ wait[k].path = job[p.of].path}
      <3>1. h[1] = r /\ wait[h].of = t /\ wait[h].path = job[p.of].path /\ t \in Transfers \ {p.of}
        BY <1>2, <1>5, <2>1
      <3>2. t \in samePath
        BY <1>2, <3>1
      <3> HIDE DEF samePath
      <3>3. {r} \X samePath \subseteq Disturbs(r, p, again)
        BY DEF Disturbs, samePath
      <3> QED
        BY <3>2, <3>3
    <2>5. p.kind = "sending" /\ wait[g] # Closed => wait[g].path # x
      BY <1>1, <1>5, <2>2
    <2>6. files'[<<r, x>>] = files[<<r, x>>]
      <3>1. CASE p.kind = "send" /\ files' = [files EXCEPT ![<<r, job[u].path>>] = <<>>]
        BY <1>2, <1>3, <2>4, <3>1
      <3>2. CASE /\ p.kind = "sending" /\ wait[g] # Closed
                 /\ \E c : files' = [files EXCEPT ![<<r, wait[g].path>>] = WriteAt(@, wait[g].at, c)]
        BY <1>2, <1>3, <2>5, <3>2
      <3>3. CASE files' = files
        BY <3>3
      <3> QED
        BY <1>1, <3>1, <3>2, <3>3 DEF MayHappen
    <2>7. wait'[g] # Closed => wait'[g].path # x
      <3>1. CASE p.kind = "send" /\ wait' = [wait EXCEPT ![g] = Opened(u)]
        <4>1. wait'[g] = Opened(u)
          BY <1>1, <1>3, <3>1
        <4> QED
          BY <1>1, <2>4, <3>1, <4>1, OpenedFacts
      <3>2. CASE /\ p.kind = "sending" /\ wait[g] # Closed
                 /\ wait' = [wait EXCEPT ![g].at = @ + 1]
        <4>1. wait'[g].path = wait[g].path
          BY <1>1, <1>3, <3>2 DEF Slots
        <4> QED
          BY <2>5, <3>2, <4>1
      <3>3. CASE wait' = [wait EXCEPT ![g] = Closed]
        BY <1>1, <1>3, <3>3
      <3>4. CASE wait' = wait
        BY <1>1, <1>5, <2>2, <3>4
      <3> QED
        BY <1>1, <3>1, <3>2, <3>3, <3>4 DEF MayHappen
    <2>8. \A k \in Handles : k[1] = r /\ k # h /\ wait'[k] # Closed => wait'[k].path # x
      BY <1>1, <1>5, <2>7
    <2>9. HandleOf(r, job[t].from)' = h /\ x = job'[t].path
      BY DEF HandleOf
    <2> HIDE DEF h, x
    <2> QED
      BY <1>5, <2>3, <2>6, <2>8, <2>9 DEF Progress, Closed
  <1> QED
    BY <1>4, <1>5 DEF Progress

\* The transfer's own next packet.
LEMMA ProgressOwn ==
  ASSUME Types, HandlesOK, NEW r, NEW p, NEW again, Handling(r, p), HandleFile(r, p), job' = job,
         NEW t \in Transfers, p.of = t, <<r, t>> \notin Disturbs(r, p, again),
         NEW n \in Nat, Number(p) = n, p.kind = "sending" => p.chunk[1] = t,
         Progress(r, t, n)
  PROVE  Progress(r, t, n + 1)'
  <1> USE BoundsAssumption
  <1> DEFINE h == HandleOf(r, job[t].from)
             x == job[t].path
  <1>1. /\ h \in Handles /\ h[1] = r /\ Happens(r, p, h)
        /\ \A k \in Handles \ {h} : wait'[k] = wait[k]
    BY HandleAt
  <1>2. r \in Machines /\ p \in Packets /\ IsFile(p)
    BY DEF Handling
  <1>3. /\ wait \in [Handles -> Slots] /\ files \in [Machines \X Paths -> Contents]
        /\ x \in Paths
    BY OpenedFacts DEF Types
  <1>4. /\ p.kind \in FileKinds /\ n = Number(p)
        /\ p.kind = "sending" => p.chunk[2] \in 1..Chunks /\ p.chunk = <<t, p.chunk[2]>>
    BY <1>2 DEF IsFile
  <1>5. /\ p.kind = "send" <=> n = 0
        /\ p.kind = "sending" <=> n \in 1..Chunks
        /\ p.kind = "sendok" <=> n = Chunks + 1
        /\ p.kind = "sending" => p.chunk = <<t, n>>
    BY <1>4 DEF Number, FileKinds
  <1>6. HandleOf(r, job[t].from)' = h /\ x = job'[t].path
    BY DEF HandleOf
  <1>7. CASE n = 0
    <2>1. /\ p.kind = "send"
          /\ wait' = [wait EXCEPT ![h] = Opened(t)]
          /\ files' = [files EXCEPT ![<<r, x>>] = <<>>]
      BY <1>1, <1>5, <1>7 DEF Happens
    <2>2. wait'[h] = Opened(t)
      BY <1>1, <1>3, <2>1
    <2>3. wait'[h].of = t /\ wait'[h].at = 0
      BY <2>2, OpenedFacts
    <2>4. files'[<<r, x>>] = <<>>
      BY <1>2, <1>3, <2>1
    <2>5. ASSUME NEW k \in Handles, k[1] = r, k # h, wait'[k] # Closed, wait'[k].path = x
          PROVE  FALSE
      <3> DEFINE v == wait[k].of
                 displaced == {Open(r, p.of).of} \cap Rivals(r, p.of)
                 samePath == {w \in Transfers \ {p.of} : \E l \in Handles :
                                l[1] = r /\ wait[l].of = w /\ wait[l].path = job[p.of].path}
      <3>1. wait[k] # Closed /\ wait[k].path = x
        BY <1>1, <2>5
      <3>2. v \in Transfers /\ k = HandleOf(r, job[v].from)
        BY <2>5, <3>1 DEF HandlesOK, OpenFor
      <3>3. v # t
        BY <2>5, <3>2
      <3>4. v \in samePath
        BY <2>5, <3>1, <3>2, <3>3
      <3>5. v \notin displaced
        <4> SUFFICES ASSUME v = wait[h].of PROVE FALSE
          BY DEF Open
        <4>1. wait[h] # Closed
          BY <3>2, ClosedFacts
        <4>2. h = HandleOf(r, job[v].from)
          BY <1>1, <4>1 DEF HandlesOK, OpenFor
        <4> QED
          BY <2>5, <3>2, <4>2
      <3>6. samePath \ displaced # {}
        BY <3>4, <3>5
      <3> HIDE DEF samePath, displaced
      <3>7. samePath \ displaced # {} => <<r, p.of>> \in Disturbs(r, p, again)
        BY DEF Disturbs, samePath, displaced
      <3> QED
        BY <3>6, <3>7
    <2>6. [i \in 1..(n + 1) - 1 |-> <<t, i>>] = <<>>
      BY <1>7
    <2>7. n + 1 \in 1..Chunks + 1 /\ (n + 1) - 1 = 0
      BY <1>7
    <2> HIDE DEF h, x
    <2> QED
      BY <1>6, <2>3, <2>4, <2>5, <2>6, <2>7 DEF Progress, Closed
  <1>8. CASE n # 0
    <2>1. n # Complete
      BY <1>4, <1>5, <1>8 DEF Complete, FileKinds
    <2>2. /\ n \in 1..Chunks + 1
          /\ wait[h].of = t /\ wait[h].at = n - 1
          /\ files[<<r, x>>] = [i \in 1..n - 1 |-> <<t, i>>]
          /\ \A k \in Handles : k[1] = r /\ k # h /\ wait[k] # Closed => wait[k].path # x
      BY <1>8, <2>1 DEF Progress
    <2>3. wait[h] # Closed
      BY <2>2, ClosedFacts
    <2>4. wait[h].path = x
      BY <1>1, <2>2, <2>3 DEF HandlesOK, OpenFor
    <2>5. \A k \in Handles : k[1] = r /\ k # h /\ wait'[k] # Closed => wait'[k].path # x
      BY <1>1, <2>2
    <2>6. CASE p.kind = "sending"
      <3>1. /\ wait' = [wait EXCEPT ![h].at = @ + 1]
            /\ files' = [files EXCEPT ![<<r, x>>] = WriteAt(@, n - 1, <<t, n>>)]
        <4>1. /\ wait' = [wait EXCEPT ![h].at = @ + 1]
              /\ files' = [files EXCEPT ![<<r, wait[h].path>>] = WriteAt(@, wait[h].at, p.chunk)]
          <5> HIDE DEF h
          <5> QED
            BY <1>1, <2>3, <2>6 DEF Happens
        <4>2. p.chunk = <<t, n>>
          BY <1>5, <2>6
        <4> HIDE DEF h, x
        <4> QED
          BY <2>2, <2>4, <4>1, <4>2
      <3>2. wait'[h].of = t /\ wait'[h].at = (n - 1) + 1
        BY <1>1, <1>3, <2>2, <3>1 DEF Slots
      <3>3. files'[<<r, x>>] = WriteAt([i \in 1..n - 1 |-> <<t, i>>], n - 1, <<t, n>>)
        BY <1>2, <1>3, <2>2, <3>1
      <3>4. WriteAt([i \in 1..n - 1 |-> <<t, i>>], n - 1, <<t, n>>) = [i \in 1..n |-> <<t, i>>]
        <4> DEFINE c == [i \in 1..n - 1 |-> <<t, i>>]
        <4>1. n - 1 \in Nat /\ (n - 1) + 1 = n
          BY <1>8
        <4>2. Len(c) = n - 1
          BY <4>1
        <4>3. Max({Len(c), (n - 1) + 1}) = n
          BY <4>1, <4>2, MaxOfTwo
        <4>4. \A i \in 1..n : (IF i = (n - 1) + 1 THEN <<t, n>>
                               ELSE IF i <= Len(c) THEN c[i] ELSE <<None, i>>) = <<t, i>>
          BY <4>1, <4>2
        <4> HIDE DEF c
        <4>5. WriteAt(c, n - 1, <<t, n>>) = [i \in 1..n |-> <<t, i>>]
          BY <4>3, <4>4 DEF WriteAt
        <4> QED
          BY <4>5 DEF c
      <3>5. n + 1 \in 1..Chunks + 1 /\ (n + 1) - 1 = n /\ (n - 1) + 1 = n
        BY <1>5, <2>6
      <3> HIDE DEF h, x
      <3> QED
        BY <1>6, <2>5, <3>2, <3>3, <3>4, <3>5 DEF Progress, Closed
    <2>7. CASE p.kind = "sendok"
      <3>1. n = Chunks + 1 /\ n - 1 = Chunks
        BY <1>5, <2>7
      <3>2. Verified(files[<<r, x>>], t)
        BY <2>2, <3>1 DEF Verified, Content
      <3>3. <<r, t>> \in got'
        BY <1>1, <2>3, <2>7, <3>2 DEF Happens
      <3>4. n + 1 = Complete
        BY <3>1 DEF Complete
      <3> QED
        BY <3>3, <3>4 DEF Progress, Complete
    <2> QED
      BY <1>4, <1>5, <1>8, <2>6, <2>7 DEF FileKinds
  <1> QED
    BY <1>7, <1>8

-----------------------------------------------------------------------------
(* Channels                                                                   *)

LEMMA RangeAppend ==
  ASSUME NEW S, NEW ch \in Seq(S), NEW p \in S
  PROVE  /\ ToSet(Append(ch, p)) = ToSet(ch) \cup {p}
         /\ Ofs(Append(ch, p)) = Ofs(ch) \cup {p.of}
  <1> DEFINE new == Append(ch, p)
             c == Len(ch) + 1
  <1>1. /\ DOMAIN new = DOMAIN ch \cup {c} /\ c \notin DOMAIN ch
        /\ \A i \in DOMAIN ch : new[i] = ch[i]
        /\ new[c] = p
    BY AppendFacts
  <1> HIDE DEF new, c
  <1>2. ToSet(new) = ToSet(ch) \cup {p} /\ Ofs(new) = Ofs(ch) \cup {p.of}
    BY <1>1 DEF ToSet, Ofs
  <1> QED
    BY <1>2 DEF new

LEMMA RangeTail ==
  ASSUME NEW S, NEW ch \in Seq(S), ch # <<>>
  PROVE  /\ ToSet(Tail(ch)) \subseteq ToSet(ch) /\ Head(ch) \in ToSet(ch)
         /\ Ofs(Tail(ch)) \subseteq Ofs(ch) /\ Head(ch).of \in Ofs(ch)
  <1> DEFINE new == Tail(ch)
  <1>1. /\ Len(ch) \in Nat \ {0}
        /\ Head(ch) = ch[1] /\ DOMAIN ch = 1..Len(ch) /\ DOMAIN new = 1..Len(ch) - 1
        /\ \A i \in 1..Len(ch) - 1 : new[i] = ch[i + 1]
    BY TailFacts
  <1>2. 1 \in DOMAIN ch /\ \A i \in DOMAIN new : i + 1 \in DOMAIN ch /\ new[i] = ch[i + 1]
    BY <1>1
  <1> HIDE DEF new
  <1>3. ToSet(new) \subseteq ToSet(ch) /\ Ofs(new) \subseteq Ofs(ch)
    BY <1>2 DEF ToSet, Ofs
  <1> QED
    BY <1>1, <1>2, <1>3 DEF new, ToSet, Ofs

\* The server reads from a.
LEMMA TakeFacts ==
  ASSUME Types, Upward, Downward, NEW a \in Accounts, toServer[a] # <<>>,
         toServer' = [toServer EXCEPT ![a] = Tail(@)]
  PROVE  /\ toServer' \in [Accounts -> Seq(Packets)] /\ link[a] = "up"
         /\ Head(toServer[a]).of \in Ofs(toServer[a])
         /\ \A b \in Accounts :
              /\ ToSet(toServer'[b]) \subseteq UpMay(b)
              /\ Ofs(toServer'[b]) \subseteq Ofs(toServer[b])
              /\ link[b] # "up" => toServer'[b] = <<>>
              /\ b # a => toServer'[b] = toServer[b]
         /\ \A t \in Transfers : \A n \in Nat : \A m \in 0..n :
              Queue(toServer[a], 0, t, m, n) =>
                IF Head(toServer[a]).of = t
                THEN /\ m < n /\ Number(Head(toServer[a])) = m
                     /\ Head(toServer[a]).kind = "sending" => Head(toServer[a]).chunk[1] = t
                     /\ Queue(toServer'[a], 0, t, m + 1, n)
                ELSE Queue(toServer'[a], 0, t, m, n)
  <1>1. toServer \in [Accounts -> Seq(Packets)]
    BY DEF Types
  <1>2. toServer[a] \in Seq(Packets) /\ Tail(toServer[a]) \in Seq(Packets)
    BY <1>1, TailFacts
  <1>3. toServer'[a] = Tail(toServer[a]) /\ \A b \in Accounts : b # a => toServer'[b] = toServer[b]
    BY <1>1
  <1>4. toServer' \in [Accounts -> Seq(Packets)]
    BY <1>1, <1>2
  <1>5. link[a] = "up"
    BY DEF Downward
  <1>6. /\ ToSet(toServer'[a]) \subseteq ToSet(toServer[a])
        /\ Ofs(toServer'[a]) \subseteq Ofs(toServer[a])
        /\ Head(toServer[a]).of \in Ofs(toServer[a])
    BY <1>2, <1>3, RangeTail
  <1>7. ASSUME NEW b \in Accounts
        PROVE  /\ ToSet(toServer'[b]) \subseteq UpMay(b)
               /\ Ofs(toServer'[b]) \subseteq Ofs(toServer[b])
               /\ link[b] # "up" => toServer'[b] = <<>>
    <2>1. ToSet(toServer[b]) \subseteq UpMay(b) /\ (link[b] # "up" => toServer[b] = <<>>)
      BY DEF Upward, Downward
    <2> QED
      BY <1>3, <1>5, <1>6, <2>1
  <1>8. ASSUME NEW t \in Transfers, NEW n \in Nat, NEW m \in 0..n, Queue(toServer[a], 0, t, m, n)
        PROVE  IF Head(toServer[a]).of = t
               THEN /\ m < n /\ Number(Head(toServer[a])) = m
                    /\ Head(toServer[a]).kind = "sending" => Head(toServer[a]).chunk[1] = t
                    /\ Queue(toServer'[a], 0, t, m + 1, n)
               ELSE Queue(toServer'[a], 0, t, m, n)
    <2> DEFINE ch == toServer[a]
    <2>1. ch \in Seq(Packets) /\ ch # <<>> /\ Queue(ch, 0, t, m, n)
      BY <1>2, <1>8
    <2>2. Head(ch) = ch[1] /\ 0 + 1 \in DOMAIN ch /\ 0 + 1 = 1
      BY <2>1, TailFacts
    <2> HIDE DEF ch
    <2>3. /\ ch[1].of # t => Queue(ch, 1, t, m, n)
          /\ ch[1].of = t =>
               /\ m < n /\ Number(ch[1]) = m
               /\ ch[1].kind = "sending" => ch[1].chunk[1] = t
               /\ Queue(ch, 1, t, m + 1, n)
      <3>1. /\ ch[0 + 1].of # t => Queue(ch, 0 + 1, t, m, n)
            /\ ch[0 + 1].of = t =>
                 /\ m < n /\ Number(ch[0 + 1]) = m
                 /\ ch[0 + 1].kind = "sending" => ch[0 + 1].chunk[1] = t
                 /\ Queue(ch, 0 + 1, t, m + 1, n)
        BY <2>1, <2>2, QueueSkip
      <3> QED
        BY <2>2, <3>1
    <2>4. \A x, y : Queue(ch, 1, t, x, y) => Queue(Tail(ch), 0, t, x, y)
      BY <2>1, QueueTail
    <2>5. toServer'[a] = Tail(ch)
      BY <1>3 DEF ch
    <2> QED
      BY <2>2, <2>3, <2>4, <2>5 DEF ch
  <1> QED
    BY <1>3, <1>4, <1>5, <1>6, <1>7, <1>8

\* a sends to the server.
LEMMA PutFacts ==
  ASSUME Types, Upward, Downward, NEW a \in Accounts, link[a] = "up",
         NEW p \in Packets, p \in UpMay(a), ToServer(a, p)
  PROVE  /\ toServer' \in [Accounts -> Seq(Packets)]
         /\ toServer'[a] = Append(toServer[a], p)
         /\ Ofs(toServer'[a]) = Ofs(toServer[a]) \cup {p.of}
         /\ \A b \in Accounts :
              /\ ToSet(toServer'[b]) \subseteq UpMay(b)
              /\ link[b] # "up" => toServer'[b] = <<>>
              /\ b # a => toServer'[b] = toServer[b]
         /\ \A b \in Accounts : \A t \in Transfers : \A m, n :
              Queue(toServer[b], 0, t, m, n) /\ p.of # t => Queue(toServer'[b], 0, t, m, n)
  <1>1. toServer \in [Accounts -> Seq(Packets)]
    BY DEF Types
  <1>2. toServer[a] \in Seq(Packets) /\ Append(toServer[a], p) \in Seq(Packets)
    BY <1>1, AppendFacts
  <1>3. /\ toServer'[a] = Append(toServer[a], p)
        /\ \A b \in Accounts : b # a => toServer'[b] = toServer[b]
    BY <1>1 DEF ToServer
  <1>4. toServer' \in [Accounts -> Seq(Packets)]
    BY <1>1, <1>2 DEF ToServer
  <1>5. /\ ToSet(toServer'[a]) = ToSet(toServer[a]) \cup {p}
        /\ Ofs(toServer'[a]) = Ofs(toServer[a]) \cup {p.of}
    BY <1>2, <1>3, RangeAppend
  <1>6. ASSUME NEW b \in Accounts
        PROVE  ToSet(toServer'[b]) \subseteq UpMay(b) /\ (link[b] # "up" => toServer'[b] = <<>>)
    <2>1. ToSet(toServer[b]) \subseteq UpMay(b) /\ (link[b] # "up" => toServer[b] = <<>>)
      BY DEF Upward, Downward
    <2>2. CASE b = a
      BY <1>5, <2>1, <2>2
    <2>3. CASE b # a
      BY <1>3, <2>1, <2>3
    <2> QED
      BY <2>2, <2>3
  <1>7. ASSUME NEW b \in Accounts, NEW t \in Transfers, NEW m, NEW n,
               Queue(toServer[b], 0, t, m, n), p.of # t
        PROVE  Queue(toServer'[b], 0, t, m, n)
    <2>1. CASE b = a
      <3>1. 0 \in Nat
        OBVIOUS
      <3>2. Queue(toServer[a], 0, t, m, n)
        BY <1>7, <2>1
      <3>3. Queue(Append(toServer[a], p), 0, t, m, n)
        BY <1>2, <1>7, <3>1, <3>2, QueueAppendOther
      <3> QED
        BY <1>3, <2>1, <3>3
    <2> QED
      BY <1>3, <1>7, <2>1
  <1> QED
    BY <1>3, <1>4, <1>5, <1>6, <1>7

\* The server's record of what it sent to b grows by p.
LEMMA AddFacts ==
  ASSUME Types, NEW b \in Accounts, NEW p \in Packets, Adds(b, p)
  PROVE  /\ Ofs(book'[b]) = Ofs(book[b]) \cup {p.of}
         /\ \A t \in Transfers : \A m, n :
              Queue(book[b], known[b], t, n, m) /\ p.of # t => Queue(book'[b], known[b], t, n, m)
         /\ \A t \in Transfers : \A m \in Nat : \A n \in 0..m :
              /\ Queue(book[b], known[b], t, n, m) /\ known[b] <= Len(book[b])
              /\ p.of = t /\ Number(p) = m /\ (p.kind = "sending" => p.chunk[1] = t)
              => Queue(book'[b], known[b], t, n, m + 1)
  <1> DEFINE ch == book[b]
             q == Numbered(p, Len(ch) + 1)
             k == known[b]
  <1>1. ch \in Seq(Packets) /\ k \in Nat /\ Len(ch) \in Nat
    BY DEF Types
  <1>2. /\ q \in Packets /\ q.kind = p.kind /\ q.of = p.of /\ q.chunk = p.chunk
        /\ Number(q) = Number(p)
    <2>1. Len(ch) + 1 \in Nat
      BY <1>1
    <2> QED
      BY <2>1, NumberedFacts
  <1>3. book'[b] = Append(ch, q)
    BY DEF Adds
  <1> HIDE DEF ch, q, k
  <1>4. Ofs(book'[b]) = Ofs(ch) \cup {p.of}
    BY <1>1, <1>2, <1>3, RangeAppend
  <1>5. \A t \in Transfers : \A m, n : Queue(ch, k, t, n, m) /\ p.of # t => Queue(book'[b], k, t, n, m)
    BY <1>1, <1>2, <1>3, QueueAppendOther
  <1>6. ASSUME NEW t \in Transfers, NEW m \in Nat, NEW n \in 0..m, Queue(ch, k, t, n, m), k <= Len(ch),
               p.of = t, Number(p) = m, p.kind = "sending" => p.chunk[1] = t
        PROVE  Queue(book'[b], k, t, n, m + 1)
    <2>1. k \in 0..Len(ch)
      BY <1>1, <1>6
    <2>2. q.of = t /\ Number(q) = m /\ (q.kind = "sending" => q.chunk[1] = t)
      BY <1>2, <1>6
    <2> QED
      BY <1>1, <1>2, <1>3, <1>6, <2>1, <2>2, QueueAppendOwn
  <1> QED
    BY <1>4, <1>5, <1>6 DEF ch, k

-----------------------------------------------------------------------------
(* What a step keeps of the invariant                                         *)

LEMMA TypesKeep ==
  ASSUME Types, job' = job,
         stage' \in [Transfers -> -1..Complete],
         DOMAIN copies' = DOMAIN copies,
         \A n \in DOMAIN copies : copies'[n] \in Transfers \cup {None},
         wait' \in [Handles -> Slots], files' \in [Machines \X Paths -> Contents],
         link' \in [Accounts -> {"up", "dead", "down"}],
         connected' = {a \in Accounts : link'[a] # "down"},
         book' \in [Accounts -> Seq(Packets)], known' \in [Accounts -> Nat],
         toClient' \in [Accounts -> Seq(Packets)], toServer' \in [Accounts -> Seq(Packets)],
         got' \subseteq Machines \X Transfers, disturbed' \subseteq Machines \X Transfers
  PROVE  Types'
  <1>1. Paths' = Paths
    BY DEF Paths
  <1>2. Slots' = Slots
    BY <1>1 DEF Slots
  <1> QED
    BY <1>1, <1>2 DEF Types

LEMMA UpwardKeeps ==
  ASSUME Types, job' = job,
         \A b \in Accounts : ToSet(toServer'[b]) \subseteq UpMay(b),
         \A b \in Accounts : known'[b] \in Nat /\ known[b] <= known'[b]
  PROVE  Upward'
  <1> SUFFICES ASSUME NEW b \in Accounts, NEW p \in ToSet(toServer'[b]) PROVE p \in UpMay(b)'
    BY DEF Upward, ToSet
  <1>1. p \in UpMay(b)
    OBVIOUS
  <1>2. p \in Packets /\ p.sid \in Nat /\ known[b] \in Nat /\ known[b] <= known'[b] /\ known'[b] \in Nat
    BY <1>1 DEF UpMay, Packets, Types
  <1>3. Packets' = Packets /\ (IsFile(p)' <=> IsFile(p))
    BY DEF Packets, IsFile, FileKinds
  <1>4. p.sid <= known[b] => p.sid <= known'[b]
    BY <1>2
  <1> QED
    BY <1>1, <1>2, <1>3, <1>4 DEF UpMay

LEMMA BookedKeeps ==
  ASSUME job' = job,
         \A b \in Accounts : \A i \in DOMAIN book'[b] :
            book'[b][i].sid = i /\ DownMay(b, book'[b][i])
  PROVE  Booked'
  BY DEF Booked, DownMay, IsFile, FileKinds, Receivers, Machines

\* The server sends to the accounts of S.
LEMMA GrowthKeeps ==
  ASSUME Types, Booked, Downward, job' = job, link' = link, known' = known,
         NEW S \in SUBSET Accounts,
         \A b \in S : link[b] # "down" /\ \E p \in Packets : DownMay(b, p) /\ Adds(b, p),
         \A b \in Accounts \ S : Leaves(b),
         \A b \in Accounts : link[b] # "up" => toServer'[b] = <<>>
  PROVE  Booked' /\ Downward'
  <1>1. /\ book \in [Accounts -> Seq(Packets)] /\ toClient \in [Accounts -> Seq(Packets)]
        /\ known \in [Accounts -> Nat]
    BY DEF Types
  <1>2. ASSUME NEW b \in S, NEW p \in Packets, DownMay(b, p), Adds(b, p)
        PROVE  /\ \A i \in DOMAIN book'[b] : book'[b][i].sid = i /\ DownMay(b, book'[b][i])
               /\ link[b] = "up" => Fresh(toClient'[b], book'[b], known[b])
               /\ link[b] # "up" => toClient'[b] = toClient[b]
    <2> DEFINE ch == book[b]
               q == Numbered(p, Len(ch) + 1)
    <2>1. ch \in Seq(Packets) /\ Len(ch) + 1 \in Nat
      BY <1>1
    <2>2. /\ book'[b] = Append(ch, q)
          /\ toClient'[b] = IF link[b] = "up" THEN Append(toClient[b], q) ELSE toClient[b]
      BY <1>2 DEF Adds
    <2>3. /\ q \in Packets /\ q.sid = Len(ch) + 1 /\ q.kind = p.kind /\ q.of = p.of
          /\ IsFile(p) => IsFile(q)
      BY <2>1, NumberedFacts
    <2>4. DownMay(b, q)
      BY <1>2, <2>3 DEF DownMay
    <2>5. \A i \in DOMAIN ch : ch[i].sid = i /\ DownMay(b, ch[i])
      BY DEF Booked
    <2>6. link[b] = "up" => Fresh(toClient[b], ch, known[b])
      BY DEF Downward
    <2> HIDE DEF ch, q
    <2>7. /\ DOMAIN Append(ch, q) = DOMAIN ch \cup {Len(ch) + 1}
          /\ \A i \in DOMAIN ch : Append(ch, q)[i] = ch[i]
          /\ Append(ch, q)[Len(ch) + 1] = q
      BY <2>1, <2>3, AppendFacts
    <2>8. \A i \in DOMAIN Append(ch, q) : Append(ch, q)[i].sid = i /\ DownMay(b, Append(ch, q)[i])
      BY <2>3, <2>4, <2>5, <2>7
    <2>9. link[b] = "up" => Fresh(Append(toClient[b], q), Append(ch, q), known[b])
      BY <1>1, <2>1, <2>3, <2>6, FreshAppend
    <2>10. \A i \in DOMAIN book'[b] : book'[b][i].sid = i /\ DownMay(b, book'[b][i])
      BY <2>2, <2>8
    <2> QED
      BY <2>2, <2>9, <2>10
  <1>3. ASSUME NEW b \in Accounts \ S
        PROVE  /\ \A i \in DOMAIN book'[b] : book'[b][i].sid = i /\ DownMay(b, book'[b][i])
               /\ link[b] = "up" => Fresh(toClient'[b], book'[b], known[b])
               /\ link[b] # "up" => toClient'[b] = toClient[b]
    <2>1. book'[b] = book[b] /\ toClient'[b] = toClient[b]
      BY DEF Leaves
    <2>2. \A i \in DOMAIN book[b] : book[b][i].sid = i /\ DownMay(b, book[b][i])
      BY DEF Booked
    <2> QED
      BY <2>1, <2>2 DEF Downward
  <1>4. ASSUME NEW b \in Accounts
        PROVE  /\ \A i \in DOMAIN book'[b] : book'[b][i].sid = i /\ DownMay(b, book'[b][i])
               /\ link[b] = "up" => Fresh(toClient'[b], book'[b], known[b])
               /\ link[b] # "up" => toClient'[b] = toClient[b]
    BY <1>2, <1>3
  <1>5. Booked'
    BY <1>4, BookedKeeps
  <1>6. \A b \in Accounts : link[b] = "down" => book'[b] = <<>>
    BY DEF Leaves, Downward
  <1>7. Downward'
    BY <1>4, <1>6 DEF Downward
  <1> QED
    BY <1>5, <1>7

LEMMA UnbegunKeeps ==
  ASSUME Types, Unbegun, NEW X,
         \A t \in Transfers : stage'[t] = 0 => stage[t] = 0 /\ t \notin X,
         \A b \in Accounts : Ofs(toServer'[b]) \subseteq Ofs(toServer[b]) \cup X,
         \A b \in Accounts : \/ \E p \in Packets : Adds(b, p) /\ p.of \in X
                             \/ Ofs(book'[b]) \subseteq Ofs(book[b])
  PROVE  Unbegun'
  <1> SUFFICES ASSUME NEW t \in Transfers, stage'[t] = 0, NEW b \in Accounts
               PROVE  t \notin Ofs(toServer'[b]) \cup Ofs(book'[b])
    BY DEF Unbegun, Ofs
  <1>1. stage[t] = 0 /\ t \notin X
    OBVIOUS
  <1>2. t \notin Ofs(toServer[b]) \cup Ofs(book[b])
    BY <1>1 DEF Unbegun
  <1>3. Ofs(book'[b]) \subseteq Ofs(book[b]) \cup X
    <2>1. ASSUME NEW p \in Packets, Adds(b, p), p.of \in X
          PROVE  Ofs(book'[b]) \subseteq Ofs(book[b]) \cup X
      <3>1. Ofs(book'[b]) = Ofs(book[b]) \cup {p.of}
        BY <2>1, AddFacts
      <3> QED
        BY <2>1, <3>1
    <2> QED
      BY <2>1
  <1> QED
    BY <1>1, <1>2, <1>3

LEMMA ReadyKeeps ==
  ASSUME job' = job, link' = link, copies' = copies, NEW t, stage'[t] = stage[t],
         NEW r, Ready(r, t)
  PROVE  Ready(r, t)'
  BY DEF Ready

\* A step that, for the transfer at this receiver, changes nothing.
LEMMA FollowsKeeps ==
  ASSUME Types, Tracked, NEW t \in Transfers, NEW r \in Receivers(t),
         stage[t] >= 1, <<r, t>> \notin disturbed, stage'[t] = stage[t],
         Ready(r, t) => Ready(r, t)',
         \A m \in 0..stage[t] : Sent(t, m) => Sent(t, m)',
         \A m \in 0..stage[t] : \A n \in 0..m : Passed(r, t, m, n) => Passed(r, t, m, n)',
         \A n \in 0..stage[t] : Progress(r, t, n) => Progress(r, t, n)'
  PROVE  Follows(r, t)'
  <1>1. Follows(r, t)
    BY DEF Tracked
  <1>2. PICK m \in 0..stage[t] : \E n \in 0..m : At(r, t, m, n)
    BY <1>1 DEF Follows
  <1>3. PICK n \in 0..m : At(r, t, m, n)
    BY <1>2
  <1>4. n \in 0..stage[t] /\ stage[t] \in Int
    BY DEF Types
  <1>5. Sent(t, m)' /\ Passed(r, t, m, n)' /\ Progress(r, t, n)'
    BY <1>3, <1>4 DEF At
  <1>6. Ready(r, t)'
    BY <1>1 DEF Follows
  <1>7. At(r, t, m, n)'
    BY <1>5 DEF At
  <1> QED
    BY <1>6, <1>7 DEF Follows

LEMMA SentSame ==
  ASSUME NEW t, NEW m, Sent(t, m), job' = job, stage'[t] = stage[t],
         job[t].from # Server /\ Queue(toServer[job[t].from], 0, t, m, stage[t])
           => Queue(toServer'[job[t].from], 0, t, m, stage[t])
  PROVE  Sent(t, m)'
  BY DEF Sent

LEMMA PassedSame ==
  ASSUME NEW r, NEW t, NEW m, NEW n, Passed(r, t, m, n),
         r # Server /\ Queue(book[r], known[r], t, n, m) => Queue(book'[r], known'[r], t, n, m)
  PROVE  Passed(r, t, m, n)'
  BY DEF Passed

LEMMA HandlesSame ==
  ASSUME HandlesOK, job' = job, wait' = wait, link' = link
  PROVE  HandlesOK'
  BY DEF HandlesOK, OpenFor, HandleOf, Closed

\* Where neither handles nor files change.
LEMMA DiskSame ==
  ASSUME Types, job' = job, UNCHANGED disk, NEW t \in Transfers, NEW r \in Receivers(t), NEW n,
         Progress(r, t, n)
  PROVE  Progress(r, t, n)'
  BY ProgressSame DEF disk

\* Who a packet of t does not reach is on record.
LEMMA ReachedFacts ==
  ASSUME Types, NEW t \in Transfers, NEW r \in Receivers(t), <<r, t>> \notin Unreached(t)
  PROVE  r # Server => r \in Accounts /\ link[r] = "up" /\ r \in connected
  <1>1. r \in Machines
    BY ReceiversFacts DEF Types
  <1>2. r # Server => r \in Accounts /\ link[r] = "up"
    BY <1>1 DEF Unreached, Machines
  <1> QED
    BY <1>2 DEF Types

\* A transfer of which nothing was sent.
LEMMA NothingYet ==
  ASSUME Types, Unbegun, NEW t \in Transfers, NEW r \in Receivers(t), stage[t] = 0
  PROVE  /\ job[t].from # Server => Queue(toServer[job[t].from], 0, t, 0, 0)
         /\ r # Server => Queue(book[r], known[r], t, 0, 0)
         /\ Progress(r, t, 0)
  <1>1. job[t].from \in Machines /\ r \in Machines
    BY ReceiversFacts DEF Types
  <1>2. \A a \in Accounts : t \notin Ofs(toServer[a]) /\ t \notin Ofs(book[a])
    BY DEF Unbegun
  <1>3. 0 \in Int
    OBVIOUS
  <1>4. ASSUME NEW ch, NEW k, t \notin Ofs(ch) PROVE Queue(ch, k, t, 0, 0)
    <2>1. \A i \in DOMAIN ch : i > k => ch[i].of # t
      BY <1>4 DEF Ofs
    <2> QED
      BY <1>3, <2>1, QueueEmpty
  <1> QED
    BY <1>1, <1>2, <1>4 DEF Machines, Progress

-----------------------------------------------------------------------------
(* The senders' steps                                                         *)

LEMMA ClientSendsNextKeeps ==
  ASSUME IInv, NEW u \in Transfers, ClientSendsNext(u)
  PROVE  IInv'
  <1> USE DEF IInv
  <1> DEFINE a == job[u].from
             p == Nth(u, stage[u], u)
  <1>1. /\ a \in Accounts /\ link[a] = "up" /\ stage[u] \in 0..Complete - 1
        /\ stage' = [stage EXCEPT ![u] = @ + 1]
        /\ ToServer(a, p)
        /\ disturbed' = disturbed \cup Unreached(u)
        /\ job' = job /\ copies' = copies /\ UNCHANGED disk /\ link' = link
        /\ connected' = connected /\ book' = book /\ known' = known /\ toClient' = toClient
    BY DEF ClientSendsNext
  <1>2. /\ p \in Packets /\ IsFile(p) /\ p.of = u /\ Number(p) = stage[u]
        /\ p.kind = "sending" => p.chunk[1] = u
    BY <1>1, NthFacts
  <1>3. p \in UpMay(a)
    BY <1>2 DEF UpMay
  <1> HIDE DEF p, IInv
  <1>4. /\ toServer' \in [Accounts -> Seq(Packets)]
        /\ toServer'[a] = Append(toServer[a], p)
        /\ Ofs(toServer'[a]) = Ofs(toServer[a]) \cup {u}
        /\ \A b \in Accounts :
              /\ ToSet(toServer'[b]) \subseteq UpMay(b)
              /\ link[b] # "up" => toServer'[b] = <<>>
              /\ b # a => toServer'[b] = toServer[b]
        /\ \A b \in Accounts : \A t \in Transfers : \A m, n :
              Queue(toServer[b], 0, t, m, n) /\ u # t => Queue(toServer'[b], 0, t, m, n)
    BY <1>1, <1>2, <1>3, PutFacts DEF IInv
  <1> HIDE DEF a
  <1>5. Types'
    <2>1. stage \in [Transfers -> -1..Complete] /\ stage[u] + 1 \in -1..Complete
      <3>1. Complete \in Int
        BY BoundsAssumption DEF Complete
      <3> QED
        BY <1>1, <3>1 DEF Types, IInv
    <2>2. stage' \in [Transfers -> -1..Complete]
      BY <1>1, <2>1
    <2>3. disturbed' \subseteq Machines \X Transfers
      <3>1. Receivers(u) \subseteq Machines
        BY ReceiversFacts DEF IInv, Types
      <3> QED
        BY <1>1, <3>1 DEF Unreached, IInv, Types
    <2>4. /\ DOMAIN copies' = DOMAIN copies
          /\ \A n \in DOMAIN copies : copies'[n] \in Transfers \cup {None}
          /\ wait' \in [Handles -> Slots] /\ files' \in [Machines \X Paths -> Contents]
          /\ link' \in [Accounts -> {"up", "dead", "down"}]
          /\ connected' = {b \in Accounts : link'[b] # "down"}
          /\ book' \in [Accounts -> Seq(Packets)] /\ known' \in [Accounts -> Nat]
          /\ toClient' \in [Accounts -> Seq(Packets)]
          /\ got' \subseteq Machines \X Transfers
      BY <1>1 DEF IInv, Types, disk
    <2> QED
      BY <1>1, <1>4, <2>2, <2>3, <2>4, TypesKeep DEF IInv
  <1>6. HandlesOK'
    BY <1>1, HandlesSame DEF IInv, disk
  <1>7. Upward'
    <2>1. \A b \in Accounts : known'[b] \in Nat /\ known[b] <= known'[b]
      BY <1>1 DEF IInv, Types
    <2> QED
      BY <1>1, <1>4, <2>1, UpwardKeeps DEF IInv
  <1>8. Booked'
    BY <1>1, BookedKeeps DEF IInv, Booked
  <1>9. Downward'
    BY <1>1, <1>4 DEF IInv, Downward
  <1>10. \A t \in Transfers : stage'[t] = IF t = u THEN stage[t] + 1 ELSE stage[t]
    BY <1>1 DEF IInv, Types
  <1>11. Unbegun'
    <2> DEFINE X == {u}
    <2>1. \A t \in Transfers : stage'[t] = 0 => stage[t] = 0 /\ t \notin X
      BY <1>1, <1>10
    <2>2. \A b \in Accounts : Ofs(toServer'[b]) \subseteq Ofs(toServer[b]) \cup X
      BY <1>4
    <2>3. \A b \in Accounts : Ofs(book'[b]) \subseteq Ofs(book[b])
      BY <1>1
    <2> HIDE DEF X
    <2> QED
      BY <2>1, <2>2, <2>3, UnbegunKeeps DEF IInv
  <1>12. ASSUME NEW t \in Transfers, NEW r \in Receivers(t), stage'[t] >= 1, <<r, t>> \notin disturbed'
         PROVE  Follows(r, t)'
    <2>1. <<r, t>> \notin disturbed
      BY <1>1, <1>12
    <2>2. CASE t # u
      <3>1. stage'[t] = stage[t] /\ stage[t] >= 1
        BY <1>10, <1>12, <2>2
      <3>2. Ready(r, t) => Ready(r, t)'
        BY <1>1, <3>1, ReadyKeeps
      <3>3. \A m \in 0..stage[t] : Sent(t, m) => Sent(t, m)'
        <4>1. job[t].from \in Machines
          BY ReceiversFacts DEF IInv, Types
        <4>2. \A m : job[t].from # Server /\ Queue(toServer[job[t].from], 0, t, m, stage[t])
                => Queue(toServer'[job[t].from], 0, t, m, stage[t])
          BY <1>4, <2>2, <4>1 DEF Machines
        <4> QED
          BY <1>1, <3>1, <4>2, SentSame
      <3>4. \A m \in 0..stage[t] : \A n \in 0..m : Passed(r, t, m, n) => Passed(r, t, m, n)'
        BY <1>1, PassedSame
      <3>5. \A n \in 0..stage[t] : Progress(r, t, n) => Progress(r, t, n)'
        BY <1>1, DiskSame DEF IInv
      <3> QED
        BY <2>1, <3>1, <3>2, <3>3, <3>4, <3>5, FollowsKeeps DEF IInv
    <2>3. CASE t = u
      <3>0. /\ toServer[a] \in Seq(Packets) /\ stage[u] \in Nat /\ a # Server
            /\ a = job[u].from /\ stage'[u] = stage[u] + 1 /\ 0 \in 0..Len(toServer[a])
        BY <1>1, <1>10, IdsAssumption DEF IInv, Types, a
      <3>1. \A m \in 0..stage[u] : Queue(toServer[a], 0, u, m, stage[u])
                                      => Queue(toServer'[a], 0, u, m, stage[u] + 1)
        BY <1>2, <1>4, <3>0, QueueAppendOwn
      <3>2. r # Server => link[r] = "up"
        BY <1>1, <1>12, <2>3, ReachedFacts DEF IInv
      <3>3. Ready(r, u)'
        BY <1>1, <3>0, <3>2 DEF Ready
      <3>4. \E m \in 0..stage[u] : \E n \in 0..m :
               /\ Queue(toServer[a], 0, u, m, stage[u])
               /\ Passed(r, u, m, n) /\ Progress(r, u, n)
        <4>1. CASE stage[u] = 0
          <5>1. /\ Queue(toServer[a], 0, u, 0, 0) /\ Progress(r, u, 0)
                /\ r # Server => Queue(book[r], known[r], u, 0, 0)
            BY <2>3, <3>0, <4>1, NothingYet DEF IInv
          <5>2. Passed(r, u, 0, 0)
            BY <5>1 DEF Passed
          <5> QED
            BY <4>1, <5>1, <5>2
        <4>2. CASE stage[u] # 0
          <5>1. Follows(r, u)
            BY <2>1, <2>3, <3>0, <4>2 DEF IInv, Tracked
          <5> QED
            BY <3>0, <5>1 DEF Follows, At, Sent
        <4> QED
          BY <4>1, <4>2
      <3>5. PICK m \in 0..stage[u] : \E n \in 0..m :
               /\ Queue(toServer[a], 0, u, m, stage[u])
               /\ Passed(r, u, m, n) /\ Progress(r, u, n)
        BY <3>4
      <3>6. PICK n \in 0..m : Passed(r, u, m, n) /\ Progress(r, u, n)
        BY <3>5
      <3>7. Sent(u, m)'
        BY <1>1, <3>0, <3>1, <3>5 DEF Sent
      <3>8. Passed(r, u, m, n)' /\ Progress(r, u, n)'
        BY <1>1, <2>3, <3>6, PassedSame, DiskSame DEF IInv
      <3>9. At(r, u, m, n)' /\ m \in 0..stage'[u]
        BY <3>0, <3>7, <3>8 DEF At
      <3> QED
        BY <2>3, <3>3, <3>9 DEF Follows
    <2> QED
      BY <2>2, <2>3
  <1>13. Tracked'
    BY <1>1, <1>12 DEF Tracked, Receivers, Machines
  <1> QED
    BY <1>5, <1>6, <1>7, <1>8, <1>9, <1>11, <1>13 DEF IInv

LEMMA PassedGrowth ==
  ASSUME Types, NEW t \in Transfers, NEW r \in Receivers(t), NEW m, NEW n, known' = known,
         r # Server => \/ Leaves(r)
                       \/ \E p \in Packets : Adds(r, p) /\ p.of # t,
         Passed(r, t, m, n)
  PROVE  Passed(r, t, m, n)'
  <1>1. r # Server => r \in Accounts
    BY ReceiversFacts DEF Types, Machines
  <1>2. r # Server /\ Queue(book[r], known[r], t, n, m) => Queue(book'[r], known'[r], t, n, m)
    BY <1>1, AddFacts DEF Leaves
  <1> QED
    BY <1>2, PassedSame

LEMMA PassedOwn ==
  ASSUME Types, Downward, NEW t \in Transfers, NEW r \in Accounts, r # Server,
         NEW m \in Nat, NEW n \in 0..m, known' = known, link[r] = "up",
         NEW p \in Packets, Adds(r, p), p.of = t, Number(p) = m,
         p.kind = "sending" => p.chunk[1] = t,
         Passed(r, t, m, n)
  PROVE  Passed(r, t, m + 1, n)'
  <1>1. Queue(book[r], known[r], t, n, m)
    BY DEF Passed
  <1>2. known[r] <= Len(book[r])
    BY DEF Downward, Fresh
  <1>3. Queue(book'[r], known[r], t, n, m + 1)
    BY <1>1, <1>2, AddFacts
  <1> QED
    BY <1>3 DEF Passed

LEMMA UnreachedTypes ==
  ASSUME Types, NEW t \in Transfers
  PROVE  Unreached(t) \subseteq Machines \X Transfers
  BY ReceiversFacts DEF Types, Unreached

LEMMA ServerSendsNextKeeps ==
  ASSUME IInv, NEW u \in Transfers, ServerSendsNext(u)
  PROVE  IInv'
  <1> DEFINE p == Nth(u, stage[u], copies'[job[u].name])
             reached == Receivers(u) \cap connected
             sameName == {v \in Transfers \ {u} : job[v].name = job[u].name
                            /\ job[v].from = Server /\ stage[v] \in 1..Chunks}
  <1>1. /\ job[u].from = Server /\ stage[u] \in 0..Complete - 1
        /\ copies' = IF stage[u] = 0 THEN [copies EXCEPT ![job[u].name] = u] ELSE copies
        /\ disturbed' = disturbed \cup Unreached(u) \cup
                            (IF stage[u] = 0 THEN Machines \X sameName ELSE {})
        /\ \/ /\ stage' = [stage EXCEPT ![u] = -1] /\ book' = book /\ toClient' = toClient
           \/ stage' = [stage EXCEPT ![u] = @ + 1] /\ Deliver(Copies(reached, p))
        /\ job' = job /\ UNCHANGED disk /\ link' = link /\ connected' = connected
        /\ known' = known /\ toServer' = toServer
    BY DEF ServerSendsNext
  <1>2. Types /\ HandlesOK /\ Upward /\ Booked /\ Downward /\ Unbegun /\ Tracked
    BY DEF IInv
  <1>3. /\ DOMAIN copies' = DOMAIN copies
        /\ \A n \in DOMAIN copies : copies'[n] \in Transfers \cup {None}
        /\ job[u].name \in DOMAIN copies
        /\ stage[u] = 0 => copies'[job[u].name] = u
        /\ \A t \in Transfers : job[t].name # job[u].name => copies'[job[t].name] = copies[job[t].name]
    BY <1>1, <1>2 DEF Types
  <1>4. /\ p \in Packets /\ IsFile(p) /\ p.of = u /\ Number(p) = stage[u]
        /\ p.kind = "sending" => stage[u] \in 1..Chunks /\ p.chunk[1] = copies'[job[u].name]
    <2>1. copies'[job[u].name] \in Transfers \cup {None}
      BY <1>3
    <2> HIDE DEF p
    <2> QED
      BY <1>1, <2>1, NthFacts DEF p
  <1> HIDE DEF p
  <1>5. /\ reached \in SUBSET Accounts
        /\ \A b \in reached : link[b] # "down" /\ DownMay(b, p)
    BY <1>2, <1>4 DEF Types, DownMay
  <1>6. \E S \in SUBSET reached :
           /\ book' \in [Accounts -> Seq(Packets)] /\ toClient' \in [Accounts -> Seq(Packets)]
           /\ \A b \in S : Adds(b, p)
           /\ \A b \in Accounts \ S : Leaves(b)
           /\ \/ stage' = [stage EXCEPT ![u] = -1]
              \/ stage' = [stage EXCEPT ![u] = @ + 1] /\ S = reached
    <2>1. CASE stage' = [stage EXCEPT ![u] = -1] /\ book' = book /\ toClient' = toClient
      <3>1. {} \in SUBSET reached /\ \A b \in Accounts : Leaves(b)
        BY <2>1 DEF Leaves
      <3>2. book' \in [Accounts -> Seq(Packets)] /\ toClient' \in [Accounts -> Seq(Packets)]
        BY <1>2, <2>1 DEF Types
      <3> HIDE DEF reached
      <3> QED
        BY <2>1, <3>1, <3>2
    <2>2. CASE stage' = [stage EXCEPT ![u] = @ + 1] /\ Deliver(Copies(reached, p))
      <3> DEFINE mail == Copies(reached, p)
      <3>1. DOMAIN mail = reached /\ \A b \in reached : mail[b] = p
        BY DEF Copies
      <3> HIDE DEF mail, reached
      <3>2. DOMAIN mail \subseteq Accounts /\ (\A b \in DOMAIN mail : mail[b] \in Packets) /\ Deliver(mail)
        BY <1>4, <1>5, <2>2, <3>1 DEF mail
      <3>3. /\ book' \in [Accounts -> Seq(Packets)] /\ toClient' \in [Accounts -> Seq(Packets)]
            /\ \A b \in DOMAIN mail : Adds(b, mail[b])
            /\ \A b \in Accounts \ DOMAIN mail : Leaves(b)
        BY <1>2, <3>2, DeliverFacts
      <3> QED
        BY <2>2, <3>1, <3>3
    <2> QED
      BY <1>1, <2>1, <2>2
  <1>7. PICK S \in SUBSET reached :
           /\ book' \in [Accounts -> Seq(Packets)] /\ toClient' \in [Accounts -> Seq(Packets)]
           /\ \A b \in S : Adds(b, p)
           /\ \A b \in Accounts \ S : Leaves(b)
           /\ \/ stage' = [stage EXCEPT ![u] = -1]
              \/ stage' = [stage EXCEPT ![u] = @ + 1] /\ S = reached
    BY <1>6
  <1>8. S \in SUBSET Accounts /\ \A b \in S : link[b] # "down" /\ DownMay(b, p) /\ Adds(b, p)
    BY <1>5, <1>7
  <1>9. /\ \A t \in Transfers : t # u => stage'[t] = stage[t]
        /\ stage'[u] = -1 \/ (stage'[u] = stage[u] + 1 /\ S = reached)
        /\ stage[u] \in Nat
    BY <1>1, <1>2, <1>7 DEF Types
  <1>10. Types'
    <2>1. Complete \in Int
      BY BoundsAssumption DEF Complete
    <2>2. stage' \in [Transfers -> -1..Complete]
      <3>1. /\ stage \in [Transfers -> -1..Complete]
            /\ stage[u] + 1 \in -1..Complete /\ -1 \in -1..Complete
        BY <1>1, <1>2, <2>1 DEF Types
      <3> QED
        BY <1>7, <3>1
    <2>3. disturbed' \subseteq Machines \X Transfers
      BY <1>1, <1>2, UnreachedTypes DEF Types
    <2>4. /\ wait' \in [Handles -> Slots] /\ files' \in [Machines \X Paths -> Contents]
          /\ link' \in [Accounts -> {"up", "dead", "down"}]
          /\ connected' = {b \in Accounts : link'[b] # "down"}
          /\ known' \in [Accounts -> Nat] /\ toServer' \in [Accounts -> Seq(Packets)]
          /\ got' \subseteq Machines \X Transfers
      BY <1>1, <1>2 DEF Types, disk
    <2> QED
      BY <1>1, <1>2, <1>3, <1>7, <2>2, <2>3, <2>4, TypesKeep
  <1>11. HandlesOK'
    BY <1>1, <1>2, HandlesSame DEF disk
  <1>12. Upward'
    <2>1. \A b \in Accounts : known'[b] \in Nat /\ known[b] <= known'[b]
      BY <1>1, <1>2 DEF Types
    <2>2. \A b \in Accounts : ToSet(toServer'[b]) \subseteq UpMay(b)
      BY <1>1, <1>2 DEF Upward
    <2> QED
      BY <1>1, <1>2, <2>1, <2>2, UpwardKeeps
  <1>13. Booked' /\ Downward'
    <2>1. \A b \in Accounts : link[b] # "up" => toServer'[b] = <<>>
      BY <1>1, <1>2 DEF Downward
    <2>2. \A b \in S : link[b] # "down" /\ \E q \in Packets : DownMay(b, q) /\ Adds(b, q)
      BY <1>4, <1>8
    <2> QED
      BY <1>1, <1>2, <1>7, <1>8, <2>1, <2>2, GrowthKeeps
  <1>14. Unbegun'
    <2> DEFINE X == {u}
    <2>1. \A t \in Transfers : stage'[t] = 0 => stage[t] = 0 /\ t \notin X
      BY <1>9
    <2>2. \A b \in Accounts : Ofs(toServer'[b]) \subseteq Ofs(toServer[b]) \cup X
      BY <1>1
    <2>3. \A b \in Accounts : \/ \E q \in Packets : Adds(b, q) /\ q.of \in X
                              \/ Ofs(book'[b]) \subseteq Ofs(book[b])
      BY <1>4, <1>7 DEF Leaves
    <2> HIDE DEF X
    <2> QED
      BY <1>2, <2>1, <2>2, <2>3, UnbegunKeeps
  <1>15. ASSUME NEW t \in Transfers, NEW r \in Receivers(t), stage'[t] >= 1, <<r, t>> \notin disturbed'
         PROVE  Follows(r, t)'
    <2>1. <<r, t>> \notin disturbed
      BY <1>1, <1>15
    <2>0. r \in Machines
      BY <1>2, ReceiversFacts DEF Types
    <2>2. CASE t # u
      <3>1. stage'[t] = stage[t] /\ stage[t] >= 1
        BY <1>9, <1>15, <2>2
      <3>2. Ready(r, t) => Ready(r, t)'
        <4> SUFFICES ASSUME Ready(r, t), job[t].from = Server, stage[t] \in 1..Chunks
                     PROVE  copies'[job[t].name] = t
          BY <1>1, <3>1 DEF Ready
        <4>1. copies[job[t].name] = t
          BY DEF Ready
        <4>2. CASE stage[u] = 0 /\ job[t].name = job[u].name
          <5>1. t \in sameName
            BY <2>2, <4>2
          <5> HIDE DEF sameName
          <5>2. <<r, t>> \in disturbed'
            BY <1>1, <2>0, <4>2, <5>1
          <5> QED
            BY <1>15, <5>2
        <4>3. CASE stage[u] # 0
          BY <1>1, <4>1, <4>3
        <4>4. CASE job[t].name # job[u].name
          BY <1>3, <4>1, <4>4
        <4> QED
          BY <4>2, <4>3, <4>4
      <3>3. \A m \in 0..stage[t] : Sent(t, m) => Sent(t, m)'
        BY <1>1, <3>1, SentSame
      <3>4. \A m \in 0..stage[t] : \A n \in 0..m : Passed(r, t, m, n) => Passed(r, t, m, n)'
        <4>1. r # Server => Leaves(r) \/ \E q \in Packets : Adds(r, q) /\ q.of # t
          BY <1>4, <1>7, <2>0, <2>2 DEF Machines
        <4> QED
          BY <1>1, <1>2, <4>1, PassedGrowth
      <3>5. \A n \in 0..stage[t] : Progress(r, t, n) => Progress(r, t, n)'
        BY <1>1, <1>2, DiskSame
      <3> QED
        BY <1>2, <2>1, <3>1, <3>2, <3>3, <3>4, <3>5, FollowsKeeps
    <2>3. CASE t = u
      <3>1. stage'[u] = stage[u] + 1 /\ S = reached
        BY <1>9, <1>15, <2>3
      <3>2. r \in Accounts /\ link[r] = "up" /\ r \in connected /\ r # Server
        <4>1. r \in Accounts /\ r # Server
          BY <1>1, <1>2, <2>3, ReceiversFacts, IdsAssumption DEF Types
        <4> QED
          BY <1>1, <1>2, <1>15, <2>3, <4>1, ReachedFacts
      <3>3. Adds(r, p)
        BY <1>7, <2>3, <3>1, <3>2
      <3>4. stage[u] # 0 => Follows(r, u)
        BY <1>2, <1>9, <2>1, <2>3 DEF Tracked
      <3>5. p.kind = "sending" => p.chunk[1] = u
        <4> SUFFICES ASSUME stage[u] \in 1..Chunks PROVE copies'[job[u].name] = u
          BY <1>4
        <4>1. stage[u] # 0
          OBVIOUS
        <4>2. copies[job[u].name] = u
          BY <1>1, <3>4, <4>1 DEF Follows, Ready
        <4> QED
          BY <1>1, <4>1, <4>2
      <3>6. \E n \in 0..stage[u] : Passed(r, u, stage[u], n) /\ Progress(r, u, n)
        <4>1. CASE stage[u] = 0
          <5>1. Queue(book[r], known[r], u, 0, 0) /\ Progress(r, u, 0)
            BY <1>2, <2>3, <3>2, <4>1, NothingYet
          <5> QED
            BY <3>2, <4>1, <5>1 DEF Passed
        <4>2. CASE stage[u] # 0
          BY <1>1, <3>4, <4>2 DEF Follows, At, Sent
        <4> QED
          BY <4>1, <4>2
      <3>7. PICK n \in 0..stage[u] : Passed(r, u, stage[u], n) /\ Progress(r, u, n)
        BY <3>6
      <3> SUFFICES ASSUME NEW k, k = stage[u] PROVE Follows(r, u)'
        BY <2>3
      <3>8. Passed(r, u, k + 1, n)'
        BY <1>1, <1>2, <1>4, <1>9, <3>2, <3>3, <3>5, <3>7, PassedOwn
      <3>9. Progress(r, u, n)'
        BY <1>1, <1>2, <2>3, <3>7, DiskSame
      <3>10. Sent(u, k + 1)'
        BY <1>1, <3>1 DEF Sent
      <3>11. Ready(r, u)'
        <4>1. link'[r] = "up"
          BY <1>1, <3>2
        <4>2. stage'[u] \in 1..Chunks => copies'[job[u].name] = u
          <5>1. CASE stage[u] = 0
            BY <1>3, <5>1
          <5>2. CASE stage[u] # 0
            <6>1. stage'[u] \in 1..Chunks => stage[u] \in 1..Chunks
              BY <1>9, <3>1, <5>2, BoundsAssumption
            <6> QED
              BY <1>1, <3>4, <5>2, <6>1 DEF Follows, Ready
          <5> QED
            BY <5>1, <5>2
        <4> QED
          BY <1>1, <4>1, <4>2 DEF Ready
      <3>12. At(r, u, k + 1, n)'
        BY <3>8, <3>9, <3>10 DEF At
      <3>13. k + 1 \in 0..stage'[u] /\ n \in 0..k + 1
        BY <1>9, <3>1
      <3> QED
        BY <3>11, <3>12, <3>13 DEF Follows
    <2> QED
      BY <2>2, <2>3
  <1>16. Tracked'
    BY <1>1, <1>15 DEF Tracked, Receivers, Machines
  <1> QED
    BY <1>10, <1>11, <1>12, <1>13, <1>14, <1>16 DEF IInv

-----------------------------------------------------------------------------
(* What a packet makes fail                                                   *)

\* The transfers that are not among the lost are those that p, handled by r, does
\* not disturb; unless r touches nothing.
Spares(r, p, lost) ==
    \A t \in Transfers : t # p.of /\ <<r, t>> \notin lost =>
        UNCHANGED disk \/ <<r, t>> \notin Disturbs(r, p, FALSE)

LEMMA FileUp ==
  ASSUME IInv, NEW a \in Accounts, toServer[a] # <<>>, Head(toServer[a]).kind \in FileKinds
  PROVE  Head(toServer[a]).of \in Transfers
  BY HeadUp DEF IInv, IsFile, FileKinds

LEMMA FileDown ==
  ASSUME IInv, NEW a \in Accounts, toClient[a] # <<>>, Head(toClient[a]).kind \in FileKinds
  PROVE  Head(toClient[a]).of \in Transfers
  BY HeadDown DEF IInv, IsFile, FileKinds

LEMMA DisturbsTypes ==
  ASSUME NEW r \in Machines, NEW p, p.of \in Transfers, NEW again
  PROVE  Disturbs(r, p, again) \in SUBSET (Machines \X Transfers)
  BY DEF Disturbs, Rivals

LEMMA FailsTypes ==
  ASSUME NEW r \in Machines, NEW p, p.of \in Transfers
  PROVE  Fails(r, p) \in SUBSET (Machines \X Transfers)
  <1>1. Disturbs(r, p, FALSE) \in SUBSET (Machines \X Transfers)
    BY DisturbsTypes
  <1>2. CASE p.kind = "send"
    BY <1>2 DEF Fails
  <1>3. CASE p.kind # "send"
    <2> DEFINE D == Disturbs(r, p, FALSE)
    <2>1. Fails(r, p) = {<<r, p.of>>} \cup D
      BY <1>3 DEF Fails
    <2>2. D \in SUBSET (Machines \X Transfers)
      BY <1>1
    <2> HIDE DEF D
    <2> QED
      BY <2>1, <2>2
  <1> QED
    BY <1>2, <1>3

\* A handler that fails has lost its own transfer, and otherwise disturbs those
\* that it would have, or touches nothing.
LEMMA FailsFacts ==
  ASSUME NEW r, NEW p, CannotHandleFile(r, p)
  PROVE  /\ <<r, p.of>> \in Fails(r, p)
         /\ Spares(r, p, Fails(r, p))
  <1>1. CASE p.kind = "send"
    BY <1>1 DEF CannotHandleFile, Fails, Spares
  <1>2. CASE p.kind # "send"
    BY <1>2 DEF Fails, Spares
  <1> QED
    BY <1>1, <1>2

-----------------------------------------------------------------------------
(* The server's steps                                                         *)

\* The server reads p from a, and sends packets of the same transfer or of none.
LEMMA ServerReadKeeps ==
  ASSUME IInv, NEW a \in Accounts, toServer[a] # <<>>,
         toServer' = [toServer EXCEPT ![a] = Tail(@)],
         NEW p, p = Head(toServer[a]), NEW S \in SUBSET Accounts,
         job' = job, stage' = stage, copies' = copies, link' = link, known' = known,
         \A b \in S : link[b] # "down" /\ \E q \in Packets :
            DownMay(b, q) /\ Adds(b, q) /\ q.of \in {p.of, None},
         \A b \in Accounts \ S : Leaves(b)
  PROVE  /\ Upward' /\ Booked' /\ Downward' /\ Unbegun'
         /\ \A t \in Transfers : \A r \in Receivers(t) :
              /\ t # p.of /\ stage[t] >= 1 /\ <<r, t>> \notin disturbed
              /\ \A n \in 0..stage[t] : Progress(r, t, n) => Progress(r, t, n)'
              => Follows(r, t)'
  <1>1. Types /\ Upward /\ Booked /\ Downward /\ Unbegun /\ Tracked
    BY DEF IInv
  <1>2. /\ toServer' \in [Accounts -> Seq(Packets)] /\ link[a] = "up"
        /\ p.of \in Ofs(toServer[a])
        /\ \A b \in Accounts :
              /\ ToSet(toServer'[b]) \subseteq UpMay(b)
              /\ Ofs(toServer'[b]) \subseteq Ofs(toServer[b])
              /\ link[b] # "up" => toServer'[b] = <<>>
              /\ b # a => toServer'[b] = toServer[b]
        /\ \A t \in Transfers : \A n \in Nat : \A m \in 0..n :
              Queue(toServer[a], 0, t, m, n) /\ p.of # t => Queue(toServer'[a], 0, t, m, n)
    BY <1>1, TakeFacts
  <1>3. Upward'
    <2>1. \A b \in Accounts : known'[b] \in Nat /\ known[b] <= known'[b]
      BY <1>1 DEF Types
    <2> QED
      BY <1>1, <1>2, <2>1, UpwardKeeps
  <1>4. Booked' /\ Downward'
    BY <1>1, <1>2, GrowthKeeps
  <1>5. Unbegun'
    <2> DEFINE X == {p.of, None}
    <2>1. \A t \in Transfers : stage'[t] = 0 => stage[t] = 0 /\ t \notin X
      BY <1>1, <1>2, IdsAssumption DEF Unbegun
    <2>2. \A b \in Accounts : Ofs(toServer'[b]) \subseteq Ofs(toServer[b]) \cup X
      BY <1>2
    <2>3. \A b \in Accounts : \/ \E q \in Packets : Adds(b, q) /\ q.of \in X
                              \/ Ofs(book'[b]) \subseteq Ofs(book[b])
      BY DEF Leaves
    <2> HIDE DEF X
    <2> QED
      BY <1>1, <2>1, <2>2, <2>3, UnbegunKeeps
  <1>6. ASSUME NEW t \in Transfers, NEW r \in Receivers(t),
               t # p.of, stage[t] >= 1, <<r, t>> \notin disturbed,
               \A n \in 0..stage[t] : Progress(r, t, n) => Progress(r, t, n)'
        PROVE  Follows(r, t)'
    <2>1. Ready(r, t) => Ready(r, t)'
      BY ReadyKeeps
    <2>2. job[t].from \in Machines /\ r \in Machines /\ stage[t] \in Nat
      BY <1>1, <1>6, ReceiversFacts DEF Types
    <2>3. \A m \in 0..stage[t] : Sent(t, m) => Sent(t, m)'
      <3> TAKE m \in 0..stage[t]
      <3>1. job[t].from # Server /\ Queue(toServer[job[t].from], 0, t, m, stage[t])
                => Queue(toServer'[job[t].from], 0, t, m, stage[t])
        BY <1>2, <1>6, <2>2 DEF Machines
      <3> QED
        BY <3>1, SentSame
    <2>4. \A m \in 0..stage[t] : \A n \in 0..m : Passed(r, t, m, n) => Passed(r, t, m, n)'
      <3>1. r # Server => Leaves(r) \/ \E q \in Packets : Adds(r, q) /\ q.of # t
        BY <1>6, <2>2, IdsAssumption DEF Machines
      <3> QED
        BY <1>1, <3>1, PassedGrowth
    <2> QED
      BY <1>1, <1>6, <2>1, <2>3, <2>4, FollowsKeeps
  <1> QED
    BY <1>3, <1>4, <1>5, <1>6

\* The packet p that the server takes off is the next one of its transfer.
NextOf(r, t, p) ==
    \E m \in 0..stage[t] - 1 : \E n \in 0..m :
        /\ Passed(r, t, m, n) /\ Progress(r, t, n)
        /\ Number(p) = m /\ (p.kind = "sending" => p.chunk[1] = t)
        /\ Sent(t, m + 1)'

LEMMA ServerReadOwn ==
  ASSUME IInv, NEW a \in Accounts, toServer[a] # <<>>,
         toServer' = [toServer EXCEPT ![a] = Tail(@)],
         NEW p, p = Head(toServer[a]),
         job' = job, stage' = stage,
         NEW t \in Transfers, NEW r \in Receivers(t), p.of = t, job[t].from = a,
         stage[t] >= 1, <<r, t>> \notin disturbed
  PROVE  Ready(r, t) /\ NextOf(r, t, p)
  <1>1. Types /\ Upward /\ Downward /\ Follows(r, t)
    BY DEF IInv, Tracked
  <1>2. stage[t] \in Nat /\ a # Server
    BY <1>1, IdsAssumption DEF Types
  <1>3. PICK m \in 0..stage[t] : \E n \in 0..m : At(r, t, m, n)
    BY <1>1 DEF Follows
  <1>4. PICK n \in 0..m : At(r, t, m, n)
    BY <1>3
  <1>5. Queue(toServer[a], 0, t, m, stage[t])
    BY <1>2, <1>4 DEF At, Sent
  <1>6. /\ m < stage[t] /\ Number(p) = m
        /\ p.kind = "sending" => p.chunk[1] = t
        /\ Queue(toServer'[a], 0, t, m + 1, stage[t])
    <2>1. \A n1 \in Nat : \A m1 \in 0..n1 :
             Queue(toServer[a], 0, t, m1, n1) =>
               IF Head(toServer[a]).of = t
               THEN /\ m1 < n1 /\ Number(Head(toServer[a])) = m1
                    /\ Head(toServer[a]).kind = "sending" => Head(toServer[a]).chunk[1] = t
                    /\ Queue(toServer'[a], 0, t, m1 + 1, n1)
               ELSE Queue(toServer'[a], 0, t, m1, n1)
      BY <1>1, TakeFacts
    <2>2. /\ m < stage[t] /\ Number(Head(toServer[a])) = m
          /\ Head(toServer[a]).kind = "sending" => Head(toServer[a]).chunk[1] = t
          /\ Queue(toServer'[a], 0, t, m + 1, stage[t])
      BY <1>2, <1>5, <2>1
    <2> QED
      BY <2>2
  <1>7. Sent(t, m + 1)'
    BY <1>2, <1>6 DEF Sent
  <1>8. m \in 0..stage[t] - 1
    BY <1>2, <1>6
  <1> QED
    BY <1>1, <1>4, <1>6, <1>7, <1>8 DEF Follows, At, NextOf

LEMMA RelayKeeps ==
  ASSUME IInv, NEW a \in Accounts, Relay(a)
  PROVE  IInv'
  <1> DEFINE h == Head(toServer[a])
  <1> SUFFICES ASSUME NEW p, p = h PROVE IInv'
    OBVIOUS
  <1> DEFINE u == p.of
             c == job[u].to
             S == {c} \cap connected
  <1>1. /\ toServer[a] # <<>> /\ p.kind \in FileKinds
        /\ toServer' = [toServer EXCEPT ![a] = Tail(@)]
        /\ c \in Accounts /\ Deliver(Copies(S, p))
        /\ disturbed' = disturbed \cup Unreached(u)
        /\ job' = job /\ stage' = stage /\ copies' = copies /\ UNCHANGED disk
        /\ link' = link /\ connected' = connected /\ known' = known
    BY DEF Relay, ServerReads
  <1>2. Types /\ HandlesOK /\ Upward /\ Booked /\ Downward /\ Unbegun /\ Tracked
    BY DEF IInv
  <1>3. p \in Packets /\ IsFile(p) /\ u \in Transfers /\ job[u].from = a
    BY <1>1, <1>2, HeadUp DEF FileKinds, IsFile
  <1>4. Receivers(u) = {c}
    BY <1>1, <1>2, <1>3, ReceiversFacts DEF Types, Machines
  <1>5. /\ S \in SUBSET Accounts
        /\ \A b \in S : link[b] # "down" /\ DownMay(b, p)
    BY <1>1, <1>2, <1>3, <1>4 DEF Types, DownMay
  <1>6. /\ book' \in [Accounts -> Seq(Packets)] /\ toClient' \in [Accounts -> Seq(Packets)]
        /\ \A b \in S : Adds(b, p)
        /\ \A b \in Accounts \ S : Leaves(b)
    <2> DEFINE mail == Copies(S, p)
    <2>1. DOMAIN mail = S /\ \A b \in S : mail[b] = p
      BY DEF Copies
    <2>2. Deliver(mail)
      BY <1>1
    <2> HIDE DEF mail, S
    <2> QED
      BY <1>2, <1>3, <1>5, <2>1, <2>2, DeliverFacts
  <1>7. \A b \in S : link[b] # "down" /\ \E q \in Packets :
            DownMay(b, q) /\ Adds(b, q) /\ q.of \in {p.of, None}
    BY <1>3, <1>5, <1>6
  <1>8. /\ Upward' /\ Booked' /\ Downward' /\ Unbegun'
        /\ \A t \in Transfers : \A r \in Receivers(t) :
              /\ t # p.of /\ stage[t] >= 1 /\ <<r, t>> \notin disturbed
              /\ \A n \in 0..stage[t] : Progress(r, t, n) => Progress(r, t, n)'
              => Follows(r, t)'
    <2> HIDE DEF S, h
    <2>1. p = Head(toServer[a])
      BY DEF h
    <2> QED
      BY <1>1, <1>5, <1>6, <1>7, <2>1, ServerReadKeeps
  <1>9. Types'
    <2>1. disturbed' \subseteq Machines \X Transfers
      BY <1>1, <1>2, <1>3, UnreachedTypes DEF Types
    <2>2. /\ stage' \in [Transfers -> -1..Complete] /\ DOMAIN copies' = DOMAIN copies
          /\ \A n \in DOMAIN copies : copies'[n] \in Transfers \cup {None}
          /\ wait' \in [Handles -> Slots] /\ files' \in [Machines \X Paths -> Contents]
          /\ link' \in [Accounts -> {"up", "dead", "down"}]
          /\ connected' = {b \in Accounts : link'[b] # "down"}
          /\ known' \in [Accounts -> Nat] /\ got' \subseteq Machines \X Transfers
      BY <1>1, <1>2 DEF Types, disk
    <2>3. toServer' \in [Accounts -> Seq(Packets)]
      BY <1>1, <1>2, TakeFacts
    <2> QED
      BY <1>1, <1>2, <1>6, <2>1, <2>2, <2>3, TypesKeep
  <1>10. HandlesOK'
    BY <1>1, <1>2, HandlesSame DEF disk
  <1>11. ASSUME NEW t \in Transfers, NEW r \in Receivers(t), stage'[t] >= 1, <<r, t>> \notin disturbed'
         PROVE  Follows(r, t)'
    <2>1. <<r, t>> \notin disturbed /\ stage[t] >= 1
      BY <1>1, <1>11
    <2>2. CASE t # u
      <3>1. \A n \in 0..stage[t] : Progress(r, t, n) => Progress(r, t, n)'
        BY <1>1, <1>2, DiskSame
      <3> QED
        BY <1>8, <2>1, <2>2, <3>1
    <2>3. CASE t = u
      <3>1. Ready(r, u) /\ NextOf(r, u, p)
        BY <1>1, <1>3, <2>1, <2>3, ServerReadOwn
      <3>2. PICK m \in 0..stage[u] - 1, n \in 0..stage[u] :
                 /\ n <= m
                 /\ Passed(r, u, m, n) /\ Progress(r, u, n)
                 /\ Number(p) = m /\ (p.kind = "sending" => p.chunk[1] = u)
                 /\ Sent(u, m + 1)'
        <4>1. stage[u] \in Int
          BY <1>2, <1>3 DEF Types
        <4> QED
          BY <3>1, <4>1 DEF NextOf
      <3>3. m \in Nat /\ n \in 0..m /\ m + 1 \in 0..stage[u] /\ n \in 0..m + 1
        BY <1>2, <1>3, <3>2, SMTT(30) DEF Types
      <3>4. r = c /\ r \in Accounts /\ r # Server
        BY <1>1, <1>4, <2>3, IdsAssumption
      <3>5. link[r] = "up" /\ r \in connected
        BY <1>1, <1>2, <1>11, <2>3, <3>4, ReachedFacts
      <3>6. Adds(r, p)
        BY <1>6, <3>4, <3>5
      <3>7. Passed(r, u, m + 1, n)'
        BY <1>1, <1>2, <1>3, <3>2, <3>3, <3>4, <3>5, <3>6, PassedOwn
      <3>8. Progress(r, u, n)'
        BY <1>1, <1>2, <2>3, <3>2, DiskSame
      <3>9. At(r, u, m + 1, n)'
        BY <3>2, <3>7, <3>8 DEF At
      <3>10. Ready(r, u)'
        BY <1>1, <3>1, ReadyKeeps
      <3> QED
        BY <1>1, <2>3, <3>3, <3>9, <3>10 DEF Follows
    <2> QED
      BY <2>2, <2>3
  <1>12. Tracked'
    BY <1>1, <1>11 DEF Tracked, Receivers, Machines
  <1> QED
    BY <1>8, <1>9, <1>10, <1>12 DEF IInv

\* The server handles p of a, or fails to, and may answer FILE_ERROR: those for
\* which it may make the transfer fail are on record, as lost.
LEMMA ServerHandles ==
  ASSUME IInv, NEW a \in Accounts, NEW p, p = Head(toServer[a]),
         NEW others, others = IF job[p.of].to = All THEN connected \ {a} ELSE {},
         NEW sorry \in SUBSET {a}, NEW lost \in SUBSET (Machines \X Transfers),
         toServer[a] # <<>>, p.kind \in FileKinds,
         toServer' = [toServer EXCEPT ![a] = Tail(@)],
         job[p.of].to \in {Server, All},
         HandleFile(Server, p) \/ CannotHandleFile(Server, p),
         Deliver([b \in others \cup sorry |-> IF b = a THEN Error ELSE p]),
         disturbed' = disturbed \cup Unreached(p.of) \cup lost,
         job' = job, stage' = stage, copies' = copies,
         link' = link, connected' = connected, known' = known,
         Spares(Server, p, lost),
         <<Server, p.of>> \notin lost =>
            HandleFile(Server, p) /\ <<Server, p.of>> \notin Disturbs(Server, p, FALSE)
  PROVE  IInv'
  <1> DEFINE h == Head(toServer[a])
             u == p.of
             S == others \cup sorry
             mail == [b \in S |-> IF b = a THEN Error ELSE p]
  <1>1. /\ toServer[a] # <<>> /\ p.kind \in FileKinds
        /\ toServer' = [toServer EXCEPT ![a] = Tail(@)]
        /\ job[u].to \in {Server, All} /\ Deliver(mail)
        /\ HandleFile(Server, p) \/ CannotHandleFile(Server, p)
        /\ disturbed' = disturbed \cup Unreached(u) \cup lost
        /\ job' = job /\ stage' = stage /\ copies' = copies
        /\ link' = link /\ connected' = connected /\ known' = known
    OBVIOUS
  <1>2. Types /\ HandlesOK /\ Upward /\ Booked /\ Downward /\ Unbegun /\ Tracked
    BY DEF IInv
  <1>3. p \in Packets /\ IsFile(p) /\ u \in Transfers /\ job[u].from = a
    BY <1>1, <1>2, HeadUp DEF FileKinds, IsFile
  <1>4. link[a] = "up" /\ a # Server /\ toServer' \in [Accounts -> Seq(Packets)]
    BY <1>1, <1>2, TakeFacts, IdsAssumption
  <1>5. /\ Server \in Receivers(u)
        /\ job[u].to = All => Receivers(u) = Machines \ {a}
        /\ job[u].to = Server => Receivers(u) = {Server}
    BY <1>1, <1>2, <1>3, <1>4, ReceiversFacts, SMTT(30) DEF Types, Machines
  <1>6. Handling(Server, p)
    BY <1>1, <1>3, <1>4, <1>5 DEF Handling, Machines
  <1>7. /\ S \in SUBSET Accounts /\ a \notin others
        /\ DOMAIN mail = S /\ (\A b \in others : mail[b] = p) /\ (\A b \in sorry : mail[b] = Error)
        /\ \A b \in others : DownMay(b, p) /\ link[b] # "down"
        /\ \A b \in sorry : DownMay(b, Error) /\ link[b] # "down"
    <2>1. others \subseteq Accounts /\ a \notin others /\ \A b \in others : link[b] # "down"
      BY <1>2 DEF Types
    <2>2. sorry \subseteq {a}
      OBVIOUS
    <2>3. \A b \in others : DownMay(b, p)
      BY <1>3, <1>5, <2>1 DEF DownMay, Machines
    <2>4. \A b \in sorry : DownMay(b, Error) /\ link[b] # "down"
      BY <1>4, <2>2, ErrorFacts DEF DownMay
    <2>5. /\ DOMAIN mail = S
          /\ (\A b \in others : mail[b] = p) /\ (\A b \in sorry : mail[b] = Error)
      BY <2>1, <2>2
    <2> QED
      BY <2>1, <2>2, <2>3, <2>4, <2>5
  <1> HIDE DEF mail
  <1>8. \A b \in DOMAIN mail : mail[b] \in Packets
    BY <1>3, <1>7, ErrorFacts
  <1>9. /\ book' \in [Accounts -> Seq(Packets)] /\ toClient' \in [Accounts -> Seq(Packets)]
        /\ \A b \in S : Adds(b, mail[b])
        /\ \A b \in Accounts \ S : Leaves(b)
    BY <1>1, <1>2, <1>7, <1>8, DeliverFacts
  <1>10. (\A b \in others : Adds(b, p)) /\ (\A b \in sorry : Adds(b, Error))
    BY <1>7, <1>9, SMTT(30)
  <1>11. \A b \in S : link[b] # "down" /\ \E q \in Packets :
            DownMay(b, q) /\ Adds(b, q) /\ q.of \in {p.of, None}
    BY <1>3, <1>7, <1>10, ErrorFacts
  <1>12. /\ Upward' /\ Booked' /\ Downward' /\ Unbegun'
         /\ \A t \in Transfers : \A r \in Receivers(t) :
              /\ t # p.of /\ stage[t] >= 1 /\ <<r, t>> \notin disturbed
              /\ \A n \in 0..stage[t] : Progress(r, t, n) => Progress(r, t, n)'
              => Follows(r, t)'
    <2>1. S \in SUBSET Accounts
      BY <1>7
    <2>2. p = Head(toServer[a])
      OBVIOUS
    <2> HIDE DEF S, h
    <2> QED
      BY <1>1, <1>9, <1>11, <2>1, <2>2, ServerReadKeeps
  <1>13. Types'
    <2>1. disturbed' \subseteq Machines \X Transfers
      BY <1>1, <1>2, <1>3, UnreachedTypes DEF Types
    <2>2. /\ stage' \in [Transfers -> -1..Complete] /\ DOMAIN copies' = DOMAIN copies
          /\ \A n \in DOMAIN copies : copies'[n] \in Transfers \cup {None}
          /\ link' \in [Accounts -> {"up", "dead", "down"}]
          /\ connected' = {b \in Accounts : link'[b] # "down"}
          /\ known' \in [Accounts -> Nat]
      BY <1>1, <1>2 DEF Types
    <2>3. /\ wait' \in [Handles -> Slots] /\ files' \in [Machines \X Paths -> Contents]
          /\ got' \subseteq Machines \X Transfers
      BY <1>2, <1>6, HandleTypes
    <2> QED
      BY <1>1, <1>2, <1>4, <1>9, <2>1, <2>2, <2>3, TypesKeep
  <1>14. HandlesOK'
    BY <1>1, <1>2, <1>6, HandleKeeps
  <1>15. ASSUME NEW t \in Transfers, NEW r \in Receivers(t), r # Server, NEW n, Progress(r, t, n)
         PROVE  Progress(r, t, n)'
    <2>1. r \in Machines
      BY <1>2, ReceiversFacts DEF Types
    <2>2. /\ \A g \in Handles : g[1] = r => wait'[g] = wait[g]
          /\ \A x \in Paths : files'[<<r, x>>] = files[<<r, x>>]
          /\ got \subseteq got'
      BY <1>2, <1>6, <1>15, <2>1, HandleElsewhere
    <2> QED
      BY <1>1, <1>2, <1>15, <2>2, ProgressSame
  <1>16. ASSUME NEW t \in Transfers, NEW r \in Receivers(t), stage'[t] >= 1, <<r, t>> \notin disturbed'
         PROVE  Follows(r, t)'
    <2>1. <<r, t>> \notin disturbed /\ stage[t] >= 1 /\ <<r, t>> \notin lost
      BY <1>1, <1>16
    <2>2. CASE t # u
      <3>1. \A n \in 0..stage[t] : Progress(r, t, n) => Progress(r, t, n)'
        <4>1. CASE r = Server
          <5>1. UNCHANGED disk \/ <<Server, t>> \notin Disturbs(Server, p, FALSE)
            BY <2>1, <2>2, <4>1 DEF Spares
          <5>2. CASE UNCHANGED disk
            BY <1>1, <1>2, <5>2, DiskSame
          <5>3. CASE <<Server, t>> \notin Disturbs(Server, p, FALSE)
            BY <1>1, <1>2, <1>6, <2>2, <4>1, <5>3, ProgressOther
          <5> QED
            BY <5>1, <5>2, <5>3
        <4>2. CASE r # Server
          BY <1>15, <4>2
        <4> QED
          BY <4>1, <4>2
      <3> QED
        BY <1>12, <2>1, <2>2, <3>1
    <2>3. CASE t = u
      <3>1. Ready(r, u) /\ NextOf(r, u, p)
        <4>1. toServer[a] # <<>> /\ toServer' = [toServer EXCEPT ![a] = Tail(@)]
          OBVIOUS
        <4>2. job' = job /\ stage' = stage /\ u \in Transfers /\ job[u].from = a
          BY <1>3
        <4>3. r \in Receivers(u) /\ stage[u] >= 1 /\ <<r, u>> \notin disturbed
          BY <2>1, <2>3
        <4> QED
          BY <4>1, <4>2, <4>3, ServerReadOwn
      <3>2. PICK m \in 0..stage[u] - 1, n \in 0..stage[u] :
                 /\ n <= m
                 /\ Passed(r, u, m, n) /\ Progress(r, u, n)
                 /\ Number(p) = m /\ (p.kind = "sending" => p.chunk[1] = u)
                 /\ Sent(u, m + 1)'
        <4>1. stage[u] \in Int
          BY <1>2, <1>3 DEF Types
        <4> QED
          BY <3>1, <4>1, SMTT(30) DEF NextOf
      <3>3. m \in Nat /\ n \in 0..m /\ m + 1 \in 0..stage[u] /\ n \in 0..m + 1 /\ n + 1 \in 0..m + 1
        BY <1>2, <1>3, <3>2, SMTT(30) DEF Types
      <3>4. Ready(r, u)'
        BY <1>1, <3>1, ReadyKeeps
      <3>5. CASE r = Server
        <4>1. n = m
          BY <3>2, <3>5 DEF Passed
        <4>2. Progress(r, u, m + 1)'
          <5>1. HandleFile(Server, p) /\ <<Server, u>> \notin Disturbs(Server, p, FALSE)
            BY <2>1, <2>3, <3>5
          <5> QED
            BY <1>1, <1>2, <1>6, <3>2, <3>3, <3>5, <4>1, <1>3, <5>1, ProgressOwn
        <4>3. Passed(r, u, m + 1, m + 1)'
          BY <3>5 DEF Passed
        <4>4. At(r, u, m + 1, m + 1)'
          BY <3>2, <4>2, <4>3 DEF At
        <4>5. m + 1 \in 0..m + 1
          BY <3>3
        <4> QED
          BY <1>1, <2>3, <3>3, <3>4, <4>4, <4>5 DEF Follows
      <3>6. CASE r # Server
        <4>1. r \in Accounts /\ link[r] = "up" /\ r \in connected
          BY <1>1, <1>2, <1>16, <2>3, <3>6, ReachedFacts
        <4>2. job[u].to = All /\ r # a
          BY <1>1, <1>5, <2>3, <3>6
        <4>3. Adds(r, p)
          BY <1>10, <4>1, <4>2
        <4>4. Passed(r, u, m + 1, n)'
          BY <1>1, <1>2, <1>3, <3>2, <3>3, <3>6, <4>1, <4>3, PassedOwn
        <4>5. Progress(r, u, n)'
          BY <1>15, <2>3, <3>2, <3>6
        <4>6. At(r, u, m + 1, n)'
          BY <3>2, <4>4, <4>5 DEF At
        <4> QED
          BY <1>1, <2>3, <3>3, <3>4, <4>6 DEF Follows
      <3> QED
        BY <3>5, <3>6
    <2> QED
      BY <2>2, <2>3
  <1>17. Tracked'
    BY <1>1, <1>16 DEF Tracked, Receivers, Machines
  <1> QED
    BY <1>12, <1>13, <1>14, <1>17 DEF IInv

LEMMA ServerReceivesKeeps ==
  ASSUME IInv, NEW a \in Accounts, ServerReceives(a)
  PROVE  IInv'
  <1> DEFINE p == Head(toServer[a])
             others == IF job[p.of].to = All THEN connected \ {a} ELSE {}
             sorry == IF Refused(Server, p) THEN {a} ELSE {}
             lost == Disturbs(Server, p, FALSE)
  <1>1. /\ toServer[a] # <<>> /\ p.kind \in FileKinds
        /\ toServer' = [toServer EXCEPT ![a] = Tail(@)]
        /\ job[p.of].to \in {Server, All} /\ HandleFile(Server, p)
        /\ Deliver([b \in others \cup sorry |-> IF b = a THEN Error ELSE p])
        /\ disturbed' = disturbed \cup Unreached(p.of) \cup lost
        /\ job' = job /\ stage' = stage /\ copies' = copies
        /\ link' = link /\ connected' = connected /\ known' = known
    BY DEF ServerReceives, ServerReads
  <1>2. sorry \in SUBSET {a}
    OBVIOUS
  <1>3. lost \in SUBSET (Machines \X Transfers)
    BY <1>1, DisturbsTypes, FileUp DEF Machines
  <1>4. Spares(Server, p, lost)
    BY DEF Spares
  <1> HIDE DEF sorry, lost
  <1>5. <<Server, p.of>> \notin lost => <<Server, p.of>> \notin Disturbs(Server, p, FALSE)
    BY DEF lost
  <1> QED
    BY <1>1, <1>2, <1>3, <1>4, <1>5, ServerHandles

LEMMA ServerCannotReceiveKeeps ==
  ASSUME IInv, NEW a \in Accounts, ServerCannotReceive(a)
  PROVE  IInv'
  <1> DEFINE p == Head(toServer[a])
             others == IF job[p.of].to = All THEN connected \ {a} ELSE {}
             lost == Fails(Server, p)
  <1>1. /\ toServer[a] # <<>> /\ p.kind \in FileKinds
        /\ toServer' = [toServer EXCEPT ![a] = Tail(@)]
        /\ job[p.of].to \in {Server, All} /\ CannotHandleFile(Server, p)
        /\ Deliver(Copies(others, p))
        /\ disturbed' = disturbed \cup Unreached(p.of) \cup lost
        /\ job' = job /\ stage' = stage /\ copies' = copies
        /\ link' = link /\ connected' = connected /\ known' = known
    BY DEF ServerCannotReceive, ServerReads
  <1>2. Deliver([b \in others \cup {} |-> IF b = a THEN Error ELSE p])
    <2>1. a \notin others
      OBVIOUS
    <2> HIDE DEF others
    <2>2. [b \in others \cup {} |-> IF b = a THEN Error ELSE p] = Copies(others, p)
      BY <2>1 DEF Copies
    <2> QED
      BY <1>1, <2>2
  <1>3. lost \in SUBSET (Machines \X Transfers)
    BY <1>1, FailsTypes, FileUp DEF Machines
  <1>4. /\ <<Server, p.of>> \in lost
        /\ Spares(Server, p, lost)
    BY <1>1, FailsFacts
  <1> HIDE DEF lost
  <1> QED
    BY <1>1, <1>2, <1>3, <1>4, ServerHandles

LEMMA EchoErrorKeeps ==
  ASSUME IInv, NEW a \in Accounts, EchoError(a)
  PROVE  IInv'
  <1> DEFINE h == Head(toServer[a])
  <1> SUFFICES ASSUME NEW p, p = h PROVE IInv'
    OBVIOUS
  <1> DEFINE S == {a}
             mail == Copies(S, Error)
  <1>1. /\ toServer[a] # <<>> /\ p.kind = "error"
        /\ toServer' = [toServer EXCEPT ![a] = Tail(@)]
        /\ Deliver(mail)
        /\ job' = job /\ stage' = stage /\ copies' = copies /\ UNCHANGED disk
        /\ link' = link /\ connected' = connected /\ known' = known /\ disturbed' = disturbed
    BY DEF EchoError, ServerReads
  <1>2. Types /\ HandlesOK /\ Upward /\ Booked /\ Downward /\ Unbegun /\ Tracked
    BY DEF IInv
  <1>3. p.of = None
    BY <1>1, <1>2, HeadUp DEF IsFile, FileKinds
  <1>4. link[a] = "up" /\ toServer' \in [Accounts -> Seq(Packets)]
    BY <1>1, <1>2, TakeFacts
  <1>5. DOMAIN mail = S /\ \A b \in S : mail[b] = Error
    BY DEF Copies
  <1> HIDE DEF mail
  <1>6. /\ book' \in [Accounts -> Seq(Packets)] /\ toClient' \in [Accounts -> Seq(Packets)]
        /\ \A b \in S : Adds(b, Error)
        /\ \A b \in Accounts \ S : Leaves(b)
    <2>1. DOMAIN mail \subseteq Accounts /\ \A b \in DOMAIN mail : mail[b] \in Packets
      BY <1>5, ErrorFacts
    <2> QED
      BY <1>1, <1>2, <1>5, <2>1, DeliverFacts
  <1>7. S \in SUBSET Accounts /\ \A b \in S : link[b] # "down" /\ \E q \in Packets :
            DownMay(b, q) /\ Adds(b, q) /\ q.of \in {p.of, None}
    BY <1>4, <1>6, ErrorFacts DEF DownMay
  <1>8. /\ Upward' /\ Booked' /\ Downward' /\ Unbegun'
        /\ \A t \in Transfers : \A r \in Receivers(t) :
              /\ t # p.of /\ stage[t] >= 1 /\ <<r, t>> \notin disturbed
              /\ \A n \in 0..stage[t] : Progress(r, t, n) => Progress(r, t, n)'
              => Follows(r, t)'
    <2>1. p = Head(toServer[a])
      OBVIOUS
    <2> HIDE DEF S, h
    <2> QED
      BY <1>1, <1>6, <1>7, <2>1, ServerReadKeeps
  <1>9. Types'
    <2>1. /\ stage' \in [Transfers -> -1..Complete] /\ DOMAIN copies' = DOMAIN copies
          /\ \A n \in DOMAIN copies : copies'[n] \in Transfers \cup {None}
          /\ wait' \in [Handles -> Slots] /\ files' \in [Machines \X Paths -> Contents]
          /\ link' \in [Accounts -> {"up", "dead", "down"}]
          /\ connected' = {b \in Accounts : link'[b] # "down"}
          /\ known' \in [Accounts -> Nat] /\ got' \subseteq Machines \X Transfers
          /\ disturbed' \subseteq Machines \X Transfers
      BY <1>1, <1>2 DEF Types, disk
    <2> QED
      BY <1>1, <1>2, <1>4, <1>6, <2>1, TypesKeep
  <1>10. HandlesOK'
    BY <1>1, <1>2, HandlesSame DEF disk
  <1>11. ASSUME NEW t \in Transfers, NEW r \in Receivers(t), stage'[t] >= 1, <<r, t>> \notin disturbed'
         PROVE  Follows(r, t)'
    <2>1. t # p.of
      BY <1>3, IdsAssumption
    <2>2. \A n \in 0..stage[t] : Progress(r, t, n) => Progress(r, t, n)'
      BY <1>1, <1>2, DiskSame
    <2> QED
      BY <1>1, <1>8, <1>11, <2>1, <2>2
  <1>12. Tracked'
    BY <1>1, <1>11 DEF Tracked, Receivers, Machines
  <1> QED
    BY <1>8, <1>9, <1>10, <1>12 DEF IInv

LEMMA ReplayKeeps ==
  ASSUME IInv, NEW a \in Accounts, Replay(a)
  PROVE  IInv'
  <1> DEFINE h == Head(toServer[a])
  <1> SUFFICES ASSUME NEW p, p = h PROVE IInv'
    OBVIOUS
  <1> DEFINE more == SubSeq(book[a], p.sid + 1, Len(book[a]))
  <1>1. /\ toServer[a] # <<>> /\ p.kind = "ping"
        /\ toServer' = [toServer EXCEPT ![a] = Tail(@)]
        /\ toClient' = [toClient EXCEPT ![a] = @ \o more]
        /\ job' = job /\ stage' = stage /\ copies' = copies /\ UNCHANGED disk
        /\ link' = link /\ connected' = connected /\ book' = book /\ known' = known
        /\ disturbed' = disturbed
    BY DEF Replay, ServerReads
  <1>2. Types /\ HandlesOK /\ Upward /\ Booked /\ Downward /\ Unbegun /\ Tracked
    BY DEF IInv
  <1>3. p \in Packets /\ p.of = None /\ p.sid <= known[a] /\ p.sid \in Nat
    <2>1. p \in Packets /\ p.of = None /\ p.sid <= known[a]
      BY <1>1, <1>2, HeadUp DEF IsFile, FileKinds
    <2> QED
      BY <2>1 DEF Packets
  <1>4. /\ link[a] = "up" /\ toServer' \in [Accounts -> Seq(Packets)]
        /\ p.of \in Ofs(toServer[a])
        /\ \A b \in Accounts :
              /\ ToSet(toServer'[b]) \subseteq UpMay(b)
              /\ Ofs(toServer'[b]) \subseteq Ofs(toServer[b])
              /\ link[b] # "up" => toServer'[b] = <<>>
              /\ b # a => toServer'[b] = toServer[b]
        /\ \A t \in Transfers : \A n \in Nat : \A m \in 0..n :
              Queue(toServer[a], 0, t, m, n) /\ p.of # t => Queue(toServer'[a], 0, t, m, n)
    BY <1>1, <1>2, TakeFacts
  <1>5. /\ toClient[a] \o more \in Seq(Packets)
        /\ Fresh(toClient[a] \o more, book[a], known[a])
    <2>1. toClient[a] \in Seq(Packets) /\ book[a] \in Seq(Packets) /\ known[a] \in Nat
      BY <1>2 DEF Types
    <2>2. Fresh(toClient[a], book[a], known[a])
      BY <1>2, <1>4 DEF Downward
    <2>3. p.sid \in 0..known[a] /\ \A i \in DOMAIN book[a] : book[a][i].sid = i
      BY <1>2, <1>3, <2>1 DEF Booked
    <2> HIDE DEF h
    <2> QED
      BY <2>1, <2>2, <2>3, FreshReplay
  <1> HIDE DEF more
  <1>6. /\ toClient' \in [Accounts -> Seq(Packets)]
        /\ toClient'[a] = toClient[a] \o more
        /\ \A b \in Accounts : b # a => toClient'[b] = toClient[b]
    BY <1>1, <1>2, <1>5 DEF Types
  <1>7. Types'
    <2>1. /\ stage' \in [Transfers -> -1..Complete] /\ DOMAIN copies' = DOMAIN copies
          /\ \A n \in DOMAIN copies : copies'[n] \in Transfers \cup {None}
          /\ wait' \in [Handles -> Slots] /\ files' \in [Machines \X Paths -> Contents]
          /\ link' \in [Accounts -> {"up", "dead", "down"}]
          /\ connected' = {b \in Accounts : link'[b] # "down"}
          /\ book' \in [Accounts -> Seq(Packets)]
          /\ known' \in [Accounts -> Nat] /\ got' \subseteq Machines \X Transfers
          /\ disturbed' \subseteq Machines \X Transfers
      BY <1>1, <1>2 DEF Types, disk
    <2> QED
      BY <1>1, <1>2, <1>4, <1>6, <2>1, TypesKeep
  <1>8. HandlesOK'
    BY <1>1, <1>2, HandlesSame DEF disk
  <1>9. Upward'
    <2>1. \A b \in Accounts : known'[b] \in Nat /\ known[b] <= known'[b]
      BY <1>1, <1>2 DEF Types
    <2> QED
      BY <1>1, <1>2, <1>4, <2>1, UpwardKeeps
  <1>10. Booked'
    BY <1>1, <1>2, BookedKeeps DEF Booked
  <1>11. Downward'
    <2> SUFFICES ASSUME NEW b \in Accounts
                 PROVE  /\ link[b] = "up" => Fresh(toClient'[b], book[b], known[b])
                        /\ link[b] # "up" => toClient'[b] = <<>> /\ toServer'[b] = <<>> /\ known[b] = 0
                        /\ link[b] = "down" => book[b] = <<>>
      BY <1>1 DEF Downward
    <2>1. CASE b = a
      BY <1>4, <1>5, <1>6, <2>1
    <2>2. CASE b # a
      BY <1>2, <1>4, <1>6, <2>2 DEF Downward
    <2> QED
      BY <2>1, <2>2
  <1>12. Unbegun'
    <2> DEFINE X == {}
    <2>1. \A t \in Transfers : stage'[t] = 0 => stage[t] = 0 /\ t \notin X
      BY <1>1
    <2>2. \A b \in Accounts : Ofs(toServer'[b]) \subseteq Ofs(toServer[b]) \cup X
      BY <1>4
    <2>3. \A b \in Accounts : Ofs(book'[b]) \subseteq Ofs(book[b])
      BY <1>1
    <2> HIDE DEF X
    <2> QED
      BY <1>2, <2>1, <2>2, <2>3, UnbegunKeeps
  <1>13. ASSUME NEW t \in Transfers, NEW r \in Receivers(t), stage'[t] >= 1, <<r, t>> \notin disturbed'
         PROVE  Follows(r, t)'
    <2>1. <<r, t>> \notin disturbed /\ stage[t] >= 1 /\ stage'[t] = stage[t] /\ stage[t] \in Nat
      BY <1>1, <1>2, <1>13 DEF Types
    <2>2. Ready(r, t) => Ready(r, t)'
      BY <1>1, ReadyKeeps
    <2>3. \A m \in 0..stage[t] : Sent(t, m) => Sent(t, m)'
      <3> TAKE m \in 0..stage[t]
      <3>1. job[t].from \in Machines /\ t # None
        BY <1>2, ReceiversFacts, IdsAssumption DEF Types
      <3>2. job[t].from # Server /\ Queue(toServer[job[t].from], 0, t, m, stage[t])
                => Queue(toServer'[job[t].from], 0, t, m, stage[t])
        BY <1>3, <1>4, <2>1, <3>1 DEF Machines
      <3> QED
        BY <1>1, <3>2, SentSame
    <2>4. \A m \in 0..stage[t] : \A n \in 0..m : Passed(r, t, m, n) => Passed(r, t, m, n)'
      BY <1>1, PassedSame
    <2>5. \A n \in 0..stage[t] : Progress(r, t, n) => Progress(r, t, n)'
      BY <1>1, <1>2, DiskSame
    <2> QED
      BY <1>2, <2>1, <2>2, <2>3, <2>4, <2>5, FollowsKeeps
  <1>14. Tracked'
    BY <1>1, <1>13 DEF Tracked, Receivers, Machines
  <1> QED
    BY <1>7, <1>8, <1>9, <1>10, <1>11, <1>12, <1>14 DEF IInv

-----------------------------------------------------------------------------
(* The client's steps                                                         *)

LEMMA ClientReadFacts ==
  ASSUME IInv, NEW a \in Accounts, toClient[a] # <<>>,
         toClient' = [toClient EXCEPT ![a] = Tail(@)],
         known' = [known EXCEPT ![a] = Max({@, Head(toClient[a]).sid})],
         book' = book,
         NEW p, p = Head(toClient[a])
  PROVE  /\ toClient' \in [Accounts -> Seq(Packets)] /\ known' \in [Accounts -> Nat]
         /\ \A b \in Accounts : known[b] <= known'[b]
         /\ \A b \in Accounts : b # a => toClient'[b] = toClient[b] /\ known'[b] = known[b]
         /\ Fresh(toClient'[a], book[a], known'[a])
         /\ \A t \in Transfers : \A r \in Receivers(t) : \A m \in Nat : \A n \in 0..m :
              /\ r # a \/ t # p.of \/ p.sid <= known[a]
              /\ Passed(r, t, m, n)
              => Passed(r, t, m, n)'
         /\ \A t \in Transfers : \A m \in Nat : \A n \in 0..m :
              /\ t = p.of /\ ~(p.sid <= known[a]) /\ Passed(a, t, m, n)
              => /\ n < m /\ Number(p) = n /\ (p.kind = "sending" => p.chunk[1] = t)
                 /\ Passed(a, t, m, n + 1)'
  <1> DEFINE k == known[a]
             l == Max({k, p.sid})
             bk == book[a]
  <1>1. Types /\ Booked /\ Downward
    BY DEF IInv
  <1>2. /\ p \in Packets /\ p.sid \in DOMAIN bk /\ p = bk[p.sid]
        /\ p.sid \in Nat /\ p.sid <= k + 1 /\ link[a] = "up"
        /\ l \in Nat /\ Fresh(Tail(toClient[a]), bk, l)
    BY <1>1, HeadDown
  <1>3. /\ k \in Nat /\ toClient \in [Accounts -> Seq(Packets)] /\ known \in [Accounts -> Nat]
        /\ bk \in Seq(Packets)
    BY <1>1 DEF Types
  <1>4. IF p.sid <= k THEN l = k ELSE p.sid = k + 1 /\ l = k + 1
    <2>0. k \in Int /\ p.sid \in Int
      BY <1>2, <1>3
    <2>1. l = IF k < p.sid THEN p.sid ELSE k
      <3> HIDE DEF k
      <3> QED
        BY <2>0, MaxOfTwo
    <2> QED
      BY <1>2, <1>3, <2>1
  <1> HIDE DEF l
  <1>5. known' = [known EXCEPT ![a] = l]
    BY DEF l
  <1>6. known'[a] = l /\ \A b \in Accounts : b # a => known'[b] = known[b]
    BY <1>3, <1>5
  <1>7. known' \in [Accounts -> Nat] /\ k <= l
    BY <1>2, <1>3, <1>4, <1>5
  <1>8. \A b \in Accounts : known[b] <= known'[b]
    BY <1>3, <1>6, <1>7
  <1>9. toClient'[a] = Tail(toClient[a]) /\ \A b \in Accounts : b # a => toClient'[b] = toClient[b]
    BY <1>3
  <1>10. toClient' \in [Accounts -> Seq(Packets)]
    <2>1. Tail(toClient[a]) \in Seq(Packets)
      BY <1>3, TailFacts
    <2> QED
      BY <1>3, <2>1
  <1>11. Fresh(toClient'[a], book[a], known'[a])
    BY <1>2, <1>6, <1>9
  <1>12. a # Server
    BY IdsAssumption
  <1>13. ASSUME NEW t \in Transfers, NEW m \in Nat, NEW n \in 0..m, ~(p.sid <= k), Queue(bk, k, t, n, m)
         PROVE  IF p.of = t
                THEN /\ n < m /\ Number(p) = n /\ (p.kind = "sending" => p.chunk[1] = t)
                     /\ Queue(bk, l, t, n + 1, m)
                ELSE Queue(bk, l, t, n, m)
    <2>1. k + 1 \in DOMAIN bk /\ p = bk[k + 1] /\ l = k + 1
      BY <1>2, <1>4, <1>13
    <2> HIDE DEF bk, k
    <2>2. /\ bk[k + 1].of # t => Queue(bk, k + 1, t, n, m)
          /\ bk[k + 1].of = t =>
               /\ n < m /\ Number(bk[k + 1]) = n
               /\ bk[k + 1].kind = "sending" => bk[k + 1].chunk[1] = t
               /\ Queue(bk, k + 1, t, n + 1, m)
      BY <1>3, <1>13, <2>1, QueueSkip
    <2> QED
      BY <2>1, <2>2
  <1>14. ASSUME NEW t \in Transfers, NEW r \in Receivers(t), NEW m \in Nat, NEW n \in 0..m,
                r # a \/ t # p.of \/ p.sid <= k, Passed(r, t, m, n)
         PROVE  Passed(r, t, m, n)'
    <2>1. r # Server => r \in Accounts
      BY <1>1, ReceiversFacts DEF Types, Machines
    <2>2. r # Server /\ Queue(book[r], known[r], t, n, m) => Queue(book'[r], known'[r], t, n, m)
      <3>1. CASE r # a
        BY <1>6, <2>1, <3>1
      <3>2. CASE r = a /\ p.sid <= k
        BY <1>4, <1>6, <3>2
      <3>3. CASE r = a /\ ~(p.sid <= k)
        BY <1>6, <1>13, <1>14, <3>3
      <3> QED
        BY <3>1, <3>2, <3>3
    <2> QED
      BY <1>14, <2>2, PassedSame
  <1>15. ASSUME NEW t \in Transfers, NEW m \in Nat, NEW n \in 0..m,
                t = p.of, ~(p.sid <= k), Passed(a, t, m, n)
         PROVE  /\ n < m /\ Number(p) = n /\ (p.kind = "sending" => p.chunk[1] = t)
                /\ Passed(a, t, m, n + 1)'
    <2>1. Queue(bk, k, t, n, m)
      BY <1>12, <1>15 DEF Passed
    <2>2. /\ n < m /\ Number(p) = n /\ (p.kind = "sending" => p.chunk[1] = t)
          /\ Queue(bk, l, t, n + 1, m)
      BY <1>13, <1>15, <2>1
    <2>3. Passed(a, t, m, n + 1)'
      BY <1>6, <1>12, <2>2 DEF Passed
    <2> QED
      BY <2>2, <2>3
  <1> QED
    BY <1>6, <1>7, <1>8, <1>9, <1>10, <1>11, <1>14, <1>15

\* The client reads p, and answers with FILE_ERROR or not at all.
LEMMA ClientReadKeeps ==
  ASSUME IInv, NEW a \in Accounts, toClient[a] # <<>>,
         toClient' = [toClient EXCEPT ![a] = Tail(@)],
         known' = [known EXCEPT ![a] = Max({@, Head(toClient[a]).sid})],
         book' = book, job' = job, stage' = stage, copies' = copies, link' = link,
         toServer' = toServer \/ ToServer(a, Error),
         NEW p, p = Head(toClient[a])
  PROVE  /\ Upward' /\ Booked' /\ Downward' /\ Unbegun'
         /\ toServer' \in [Accounts -> Seq(Packets)]
         /\ \A t \in Transfers : \A m : Sent(t, m) => Sent(t, m)'
         /\ \A t \in Transfers : \A r \in Receivers(t) :
              /\ stage[t] >= 1 /\ <<r, t>> \notin disturbed
              /\ r # a \/ t # p.of \/ p.sid <= known[a]
              /\ \A n \in 0..stage[t] : Progress(r, t, n) => Progress(r, t, n)'
              => Follows(r, t)'
  <1>1. Types /\ HandlesOK /\ Upward /\ Booked /\ Downward /\ Unbegun /\ Tracked
    BY DEF IInv
  <1>2. link[a] = "up"
    BY <1>1, HeadDown
  <1>3. /\ toServer' \in [Accounts -> Seq(Packets)]
        /\ \A b \in Accounts :
              /\ ToSet(toServer'[b]) \subseteq UpMay(b)
              /\ Ofs(toServer'[b]) \subseteq Ofs(toServer[b]) \cup {None}
              /\ link[b] # "up" => toServer'[b] = <<>>
        /\ \A b \in Accounts : \A t \in Transfers : \A m, n :
              Queue(toServer[b], 0, t, m, n) => Queue(toServer'[b], 0, t, m, n)
    <2>1. CASE toServer' = toServer
      BY <1>1, <2>1 DEF Types, Upward, Downward
    <2>2. CASE ToServer(a, Error)
      <3>1. Error \in Packets /\ Error.of = None /\ Error \in UpMay(a) /\ None \notin Transfers
        BY ErrorFacts, IdsAssumption DEF UpMay
      <3>2. /\ toServer' \in [Accounts -> Seq(Packets)]
            /\ toServer'[a] = Append(toServer[a], Error)
            /\ Ofs(toServer'[a]) = Ofs(toServer[a]) \cup {Error.of}
            /\ \A b \in Accounts :
                  /\ ToSet(toServer'[b]) \subseteq UpMay(b)
                  /\ link[b] # "up" => toServer'[b] = <<>>
                  /\ b # a => toServer'[b] = toServer[b]
            /\ \A b \in Accounts : \A t \in Transfers : \A m, n :
                  Queue(toServer[b], 0, t, m, n) /\ Error.of # t => Queue(toServer'[b], 0, t, m, n)
        BY <1>1, <1>2, <2>2, <3>1, PutFacts
      <3>3. \A b \in Accounts : Ofs(toServer'[b]) \subseteq Ofs(toServer[b]) \cup {None}
        <4> TAKE b \in Accounts
        <4>1. CASE b = a
          BY <3>1, <3>2, <4>1
        <4>2. CASE b # a
          BY <3>2, <4>2
        <4> QED
          BY <4>1, <4>2
      <3>4. \A b \in Accounts : \A t \in Transfers : \A m, n :
              Queue(toServer[b], 0, t, m, n) => Queue(toServer'[b], 0, t, m, n)
        BY <3>1, <3>2
      <3> QED
        BY <3>2, <3>3, <3>4
    <2> QED
      BY <2>1, <2>2
  <1>4. /\ known' \in [Accounts -> Nat]
        /\ \A b \in Accounts : known[b] <= known'[b]
        /\ \A b \in Accounts : b # a => toClient'[b] = toClient[b] /\ known'[b] = known[b]
        /\ Fresh(toClient'[a], book[a], known'[a])
        /\ \A t \in Transfers : \A r \in Receivers(t) : \A m \in Nat : \A n \in 0..m :
              /\ r # a \/ t # p.of \/ p.sid <= known[a]
              /\ Passed(r, t, m, n)
              => Passed(r, t, m, n)'
    BY ClientReadFacts
  <1>5. Upward'
    <2>1. \A b \in Accounts : known'[b] \in Nat /\ known[b] <= known'[b]
      BY <1>4
    <2> QED
      BY <1>1, <1>3, <2>1, UpwardKeeps
  <1>6. Booked'
    BY <1>1, BookedKeeps DEF Booked
  <1>7. Downward'
    <2> SUFFICES ASSUME NEW b \in Accounts
                 PROVE  /\ link[b] = "up" => Fresh(toClient'[b], book[b], known'[b])
                        /\ link[b] # "up" => toClient'[b] = <<>> /\ toServer'[b] = <<>> /\ known'[b] = 0
                        /\ link[b] = "down" => book[b] = <<>>
      BY DEF Downward
    <2>1. CASE b = a
      BY <1>2, <1>4, <2>1
    <2>2. CASE b # a
      BY <1>1, <1>3, <1>4, <2>2 DEF Downward
    <2> QED
      BY <2>1, <2>2
  <1>8. Unbegun'
    <2> DEFINE X == {None}
    <2>1. \A t \in Transfers : stage'[t] = 0 => stage[t] = 0 /\ t \notin X
      BY IdsAssumption
    <2>2. \A b \in Accounts : Ofs(toServer'[b]) \subseteq Ofs(toServer[b]) \cup X
      BY <1>3
    <2>3. \A b \in Accounts : Ofs(book'[b]) \subseteq Ofs(book[b])
      OBVIOUS
    <2> HIDE DEF X
    <2> QED
      BY <1>1, <2>1, <2>2, <2>3, UnbegunKeeps
  <1>9. ASSUME NEW t \in Transfers, NEW m, Sent(t, m) PROVE Sent(t, m)'
    <2>1. job[t].from \in Machines
      BY <1>1, ReceiversFacts DEF Types
    <2>2. job[t].from # Server /\ Queue(toServer[job[t].from], 0, t, m, stage[t])
                => Queue(toServer'[job[t].from], 0, t, m, stage[t])
      BY <1>3, <2>1 DEF Machines
    <2> QED
      BY <1>9, <2>2, SentSame
  <1>10. ASSUME NEW t \in Transfers, NEW r \in Receivers(t),
                stage[t] >= 1, <<r, t>> \notin disturbed,
                r # a \/ t # p.of \/ p.sid <= known[a],
                \A n \in 0..stage[t] : Progress(r, t, n) => Progress(r, t, n)'
         PROVE  Follows(r, t)'
    <2>1. Ready(r, t) => Ready(r, t)'
      BY ReadyKeeps
    <2>2. \A m \in 0..stage[t] : \A n \in 0..m : Passed(r, t, m, n) => Passed(r, t, m, n)'
      <3>1. stage[t] \in Nat
        BY <1>1, <1>10 DEF Types
      <3>2. \A m \in 0..stage[t] : m \in Nat
        BY <3>1
      <3> QED
        BY <1>4, <1>10, <3>2
    <2>3. \A m \in 0..stage[t] : Sent(t, m) => Sent(t, m)'
      BY <1>9
    <2> QED
      BY <1>1, <1>10, <2>1, <2>2, <2>3, FollowsKeeps
  <1> QED
    BY <1>3, <1>5, <1>6, <1>7, <1>8, <1>9, <1>10

\* The same of a client.
LEMMA ClientHandles ==
  ASSUME IInv, NEW a \in Accounts, NEW p, p = Head(toClient[a]),
         NEW lost \in SUBSET (Machines \X Transfers),
         toClient[a] # <<>>, p.kind \in FileKinds,
         toClient' = [toClient EXCEPT ![a] = Tail(@)],
         known' = [known EXCEPT ![a] = Max({@, Head(toClient[a]).sid})],
         HandleFile(a, p) \/ CannotHandleFile(a, p),
         toServer' = toServer \/ ToServer(a, Error),
         disturbed' = disturbed \cup lost,
         job' = job, stage' = stage, copies' = copies,
         link' = link, connected' = connected, book' = book,
         Spares(a, p, lost),
         <<a, p.of>> \notin lost =>
            /\ HandleFile(a, p) /\ ~(p.sid <= known[a])
            /\ <<a, p.of>> \notin Disturbs(a, p, FALSE)
  PROVE  IInv'
  <1> DEFINE h == Head(toClient[a])
             u == p.of
  <1>1. /\ toClient[a] # <<>> /\ p.kind \in FileKinds
        /\ toClient' = [toClient EXCEPT ![a] = Tail(@)]
        /\ known' = [known EXCEPT ![a] = Max({@, Head(toClient[a]).sid})]
        /\ HandleFile(a, p) \/ CannotHandleFile(a, p)
        /\ toServer' = toServer \/ ToServer(a, Error)
        /\ disturbed' = disturbed \cup lost
        /\ job' = job /\ stage' = stage /\ copies' = copies
        /\ link' = link /\ connected' = connected /\ book' = book
    OBVIOUS
  <1>2. Types /\ HandlesOK /\ Upward /\ Booked /\ Downward /\ Unbegun /\ Tracked
    BY DEF IInv
  <1>3. p \in Packets /\ IsFile(p) /\ u \in Transfers /\ a \in Receivers(u)
    BY <1>1, <1>2, HeadDown DEF FileKinds, IsFile
  <1>4. a # Server /\ a \in Machines
    BY IdsAssumption DEF Machines
  <1>5. Handling(a, p)
    BY <1>1, <1>3, <1>4 DEF Handling
  <1>6. /\ Upward' /\ Booked' /\ Downward' /\ Unbegun'
        /\ toServer' \in [Accounts -> Seq(Packets)]
        /\ \A t \in Transfers : \A m : Sent(t, m) => Sent(t, m)'
        /\ \A t \in Transfers : \A r \in Receivers(t) :
              /\ stage[t] >= 1 /\ <<r, t>> \notin disturbed
              /\ r # a \/ t # p.of \/ p.sid <= known[a]
              /\ \A n \in 0..stage[t] : Progress(r, t, n) => Progress(r, t, n)'
              => Follows(r, t)'
    BY <1>1, ClientReadKeeps
  <1>7. /\ toClient' \in [Accounts -> Seq(Packets)] /\ known' \in [Accounts -> Nat]
        /\ \A t \in Transfers : \A m \in Nat : \A n \in 0..m :
              /\ t = p.of /\ ~(p.sid <= known[a]) /\ Passed(a, t, m, n)
              => /\ n < m /\ Number(p) = n /\ (p.kind = "sending" => p.chunk[1] = t)
                 /\ Passed(a, t, m, n + 1)'
    <2>1. p = Head(toClient[a])
      OBVIOUS
    <2> HIDE DEF h, u
    <2>2. toClient' \in [Accounts -> Seq(Packets)] /\ known' \in [Accounts -> Nat]
      BY <1>1, <2>1, ClientReadFacts
    <2>3. \A t \in Transfers : \A m \in Nat : \A n \in 0..m :
              /\ t = p.of /\ ~(p.sid <= known[a]) /\ Passed(a, t, m, n)
              => /\ n < m /\ Number(p) = n /\ (p.kind = "sending" => p.chunk[1] = t)
                 /\ Passed(a, t, m, n + 1)'
      BY <1>1, <2>1, ClientReadFacts
    <2> QED
      BY <2>2, <2>3
  <1>8. Types'
    <2>1. disturbed' \subseteq Machines \X Transfers
      BY <1>1, <1>2 DEF Types
    <2>2. /\ stage' \in [Transfers -> -1..Complete] /\ DOMAIN copies' = DOMAIN copies
          /\ \A n \in DOMAIN copies : copies'[n] \in Transfers \cup {None}
          /\ link' \in [Accounts -> {"up", "dead", "down"}]
          /\ connected' = {b \in Accounts : link'[b] # "down"}
          /\ book' \in [Accounts -> Seq(Packets)]
      BY <1>1, <1>2 DEF Types
    <2>3. /\ wait' \in [Handles -> Slots] /\ files' \in [Machines \X Paths -> Contents]
          /\ got' \subseteq Machines \X Transfers
      BY <1>2, <1>5, HandleTypes
    <2> QED
      BY <1>1, <1>2, <1>6, <1>7, <2>1, <2>2, <2>3, TypesKeep
  <1>9. HandlesOK'
    BY <1>1, <1>2, <1>5, HandleKeeps
  <1>10. ASSUME NEW t \in Transfers, NEW r \in Receivers(t), stage'[t] >= 1, <<r, t>> \notin disturbed'
         PROVE  Follows(r, t)'
    <2>1. <<r, t>> \notin disturbed /\ stage[t] >= 1 /\ <<r, t>> \notin lost
      BY <1>1, <1>10
    <2>2. r = a /\ t = u =>
            /\ HandleFile(a, p) /\ ~(p.sid <= known[a])
            /\ <<a, u>> \notin Disturbs(a, p, FALSE)
      BY <2>1
    <2>3. CASE r = a /\ t = u
      <3>1. Follows(a, u)
        BY <1>2, <2>1, <2>3 DEF Tracked
      <3>2. PICK m \in 0..stage[u] : \E n \in 0..m : At(a, u, m, n)
        BY <3>1 DEF Follows
      <3>3. PICK n \in 0..m : At(a, u, m, n)
        BY <3>2
      <3>4. stage[u] \in Nat /\ m \in Nat /\ n \in Nat
        BY <1>2, <1>3, <2>1, <2>3 DEF Types
      <3>5. /\ n < m /\ Number(p) = n /\ (p.kind = "sending" => p.chunk[1] = u)
            /\ Passed(a, u, m, n + 1)'
        BY <1>3, <1>7, <2>2, <2>3, <3>3, <3>4 DEF At
      <3>6. Sent(u, m)'
        BY <1>3, <1>6, <3>3 DEF At
      <3>7. Progress(a, u, n + 1)'
        <4>1. Progress(a, u, n)
          BY <3>3 DEF At
        <4> QED
          BY <1>1, <1>2, <1>3, <1>5, <2>2, <2>3, <3>4, <3>5, <4>1, ProgressOwn
      <3>8. At(a, u, m, n + 1)'
        BY <3>5, <3>6, <3>7 DEF At
      <3>9. Ready(a, u)'
        BY <1>1, <3>1, ReadyKeeps DEF Follows
      <3>10. m \in 0..stage'[u] /\ n + 1 \in 0..m
        BY <1>1, <3>4, <3>5
      <3> QED
        BY <2>3, <3>8, <3>9, <3>10 DEF Follows
    <2>4. CASE r = a /\ t # u
      <3>1. \A n \in 0..stage[t] : Progress(r, t, n) => Progress(r, t, n)'
        <4>1. UNCHANGED disk \/ <<a, t>> \notin Disturbs(a, p, FALSE)
          BY <2>1, <2>4 DEF Spares
        <4>2. CASE UNCHANGED disk
          BY <1>1, <1>2, <4>2, DiskSame
        <4>3. CASE <<a, t>> \notin Disturbs(a, p, FALSE)
          BY <1>1, <1>2, <1>5, <2>4, <4>3, ProgressOther
        <4> QED
          BY <4>1, <4>2, <4>3
      <3> QED
        BY <1>6, <2>1, <2>4, <3>1
    <2>5. CASE r # a
      <3>1. r \in Machines
        BY <1>2, ReceiversFacts DEF Types
      <3>2. /\ \A g \in Handles : g[1] = r => wait'[g] = wait[g]
            /\ \A x \in Paths : files'[<<r, x>>] = files[<<r, x>>]
            /\ got \subseteq got'
        BY <1>2, <1>5, <2>5, <3>1, HandleElsewhere
      <3>3. \A n \in 0..stage[t] : Progress(r, t, n) => Progress(r, t, n)'
        BY <1>1, <1>2, <3>2, ProgressSame
      <3> QED
        BY <1>6, <2>1, <2>5, <3>3
    <2> QED
      BY <2>3, <2>4, <2>5
  <1>11. Tracked'
    BY <1>1, <1>10 DEF Tracked, Receivers, Machines
  <1> QED
    BY <1>6, <1>8, <1>9, <1>11 DEF IInv

LEMMA ClientReceivesKeeps ==
  ASSUME IInv, NEW a \in Accounts, ClientReceives(a)
  PROVE  IInv'
  <1> DEFINE p == Head(toClient[a])
             again == p.sid <= known[a]
             lost == Disturbs(a, p, again)
  <1>1. /\ toClient[a] # <<>> /\ p.kind \in FileKinds
        /\ toClient' = [toClient EXCEPT ![a] = Tail(@)]
        /\ known' = [known EXCEPT ![a] = Max({@, Head(toClient[a]).sid})]
        /\ HandleFile(a, p)
        /\ toServer' = toServer \/ ToServer(a, Error)
        /\ disturbed' = disturbed \cup lost
        /\ job' = job /\ stage' = stage /\ copies' = copies
        /\ link' = link /\ connected' = connected /\ book' = book
    BY DEF ClientReceives, ClientReads
  <1>2. lost \in SUBSET (Machines \X Transfers)
    BY <1>1, DisturbsTypes, FileDown DEF Machines
  <1>3. /\ Disturbs(a, p, FALSE) \subseteq lost
        /\ again => <<a, p.of>> \in lost
    BY DEF Disturbs
  <1>4. Spares(a, p, lost)
    BY <1>3 DEF Spares
  <1> HIDE DEF lost
  <1> QED
    BY <1>1, <1>2, <1>3, <1>4, ClientHandles

LEMMA ClientCannotReceiveKeeps ==
  ASSUME IInv, NEW a \in Accounts, ClientCannotReceive(a)
  PROVE  IInv'
  <1> DEFINE p == Head(toClient[a])
             lost == Fails(a, p)
  <1>1. /\ toClient[a] # <<>> /\ p.kind \in FileKinds
        /\ toClient' = [toClient EXCEPT ![a] = Tail(@)]
        /\ known' = [known EXCEPT ![a] = Max({@, Head(toClient[a]).sid})]
        /\ CannotHandleFile(a, p) /\ toServer' = toServer
        /\ disturbed' = disturbed \cup lost
        /\ job' = job /\ stage' = stage /\ copies' = copies
        /\ link' = link /\ connected' = connected /\ book' = book
    BY DEF ClientCannotReceive, ClientReads
  <1>2. lost \in SUBSET (Machines \X Transfers)
    BY <1>1, FailsTypes, FileDown DEF Machines
  <1>3. /\ <<a, p.of>> \in lost
        /\ Spares(a, p, lost)
    BY <1>1, FailsFacts
  <1> HIDE DEF lost
  <1> QED
    BY <1>1, <1>2, <1>3, ClientHandles

LEMMA HandleFileErrorKeeps ==
  ASSUME IInv, NEW a \in Accounts, HandleFileError(a)
  PROVE  IInv'
  <1> DEFINE q == Head(toClient[a])
             h == <<a, a>>
  <1> SUFFICES ASSUME NEW p, p = q PROVE IInv'
    OBVIOUS
  <1>1. /\ toClient[a] # <<>> /\ p.kind = "error"
        /\ toClient' = [toClient EXCEPT ![a] = Tail(@)]
        /\ known' = [known EXCEPT ![a] = Max({@, Head(toClient[a]).sid})]
        /\ wait' = [wait EXCEPT ![h] = Closed]
        /\ disturbed' = disturbed \cup ({<<a, wait[h].of>>} \cap (Machines \X Transfers))
        /\ job' = job /\ stage' = stage /\ copies' = copies /\ files' = files /\ got' = got
        /\ link' = link /\ connected' = connected /\ book' = book /\ toServer' = toServer
    BY DEF HandleFileError, ClientReads
  <1>2. Types /\ HandlesOK /\ Upward /\ Booked /\ Downward /\ Unbegun /\ Tracked
    BY DEF IInv
  <1>3. p.of = None
    BY <1>1, <1>2, HeadDown DEF IsFile, FileKinds
  <1>4. a # Server /\ a \in Machines /\ h \in Handles
    BY IdsAssumption DEF Machines, Handles
  <1>5. /\ wait'[h] = Closed /\ \A g \in Handles : g # h => wait'[g] = wait[g]
        /\ wait' \in [Handles -> Slots]
    BY <1>1, <1>2, <1>4, ClosedFacts DEF Types
  <1>6. /\ Upward' /\ Booked' /\ Downward' /\ Unbegun'
        /\ toServer' \in [Accounts -> Seq(Packets)]
        /\ \A t \in Transfers : \A r \in Receivers(t) :
              /\ stage[t] >= 1 /\ <<r, t>> \notin disturbed
              /\ r # a \/ t # p.of \/ p.sid <= known[a]
              /\ \A n \in 0..stage[t] : Progress(r, t, n) => Progress(r, t, n)'
              => Follows(r, t)'
    BY <1>1, ClientReadKeeps
  <1>7. toClient' \in [Accounts -> Seq(Packets)] /\ known' \in [Accounts -> Nat]
    BY <1>1, ClientReadFacts
  <1>8. Types'
    <2>1. /\ stage' \in [Transfers -> -1..Complete] /\ DOMAIN copies' = DOMAIN copies
          /\ \A n \in DOMAIN copies : copies'[n] \in Transfers \cup {None}
          /\ link' \in [Accounts -> {"up", "dead", "down"}]
          /\ connected' = {b \in Accounts : link'[b] # "down"}
          /\ book' \in [Accounts -> Seq(Packets)]
          /\ files' \in [Machines \X Paths -> Contents] /\ got' \subseteq Machines \X Transfers
          /\ disturbed' \subseteq Machines \X Transfers
      BY <1>1, <1>2 DEF Types
    <2> QED
      BY <1>1, <1>2, <1>5, <1>6, <1>7, <2>1, TypesKeep
  <1>9. HandlesOK'
    <2> SUFFICES ASSUME NEW g \in Handles PROVE (wait[g] = Closed \/ OpenFor(g))'
      BY DEF HandlesOK
    <2>1. wait'[g] = Closed \/ (wait'[g] = wait[g] /\ (wait[g] = Closed \/ OpenFor(g)))
      BY <1>2, <1>5 DEF HandlesOK
    <2> QED
      BY <1>1, <2>1 DEF OpenFor, HandleOf, Closed
  <1>10. ASSUME NEW t \in Transfers, NEW r \in Receivers(t), stage'[t] >= 1, <<r, t>> \notin disturbed'
         PROVE  Follows(r, t)'
    <2>1. <<r, t>> \notin disturbed /\ stage[t] >= 1 /\ t # p.of /\ r \in Machines
      BY <1>1, <1>2, <1>3, <1>10, IdsAssumption, ReceiversFacts DEF Types
    <2>2. CASE r = a
      <3>1. wait[h].of # t
        BY <1>1, <1>4, <1>10, <2>2
      <3>2. HandleOf(a, job[t].from) = h
        BY <1>4 DEF HandleOf
      <3>3. \A n \in 0..stage[t] : Progress(r, t, n) => Progress(r, t, n)'
        BY <1>1, <2>2, <3>1, <3>2 DEF Progress, Complete
      <3> QED
        BY <1>6, <2>1, <3>3
    <2>3. CASE r # a
      <3>1. \A g \in Handles : g[1] = r => wait'[g] = wait[g]
        BY <1>5, <2>3
      <3>2. \A n \in 0..stage[t] : Progress(r, t, n) => Progress(r, t, n)'
        BY <1>1, <1>2, <3>1, ProgressSame
      <3> QED
        BY <1>6, <2>1, <3>2
    <2> QED
      BY <2>2, <2>3
  <1>11. Tracked'
    BY <1>1, <1>10 DEF Tracked, Receivers, Machines
  <1> QED
    BY <1>6, <1>8, <1>9, <1>11 DEF IInv

-----------------------------------------------------------------------------
(* PINGs and connections                                                      *)

LEMMA KeepaliveKeeps ==
  ASSUME IInv, NEW a \in Accounts, Keepalive(a)
  PROVE  IInv'
  <1> DEFINE q == Ping(known[a])
  <1> SUFFICES ASSUME NEW p, p = q PROVE IInv'
    OBVIOUS
  <1>1. /\ link[a] = "up" /\ ToServer(a, p)
        /\ job' = job /\ stage' = stage /\ copies' = copies /\ UNCHANGED disk
        /\ link' = link /\ connected' = connected /\ book' = book /\ known' = known
        /\ toClient' = toClient /\ disturbed' = disturbed
    BY DEF Keepalive
  <1>2. Types /\ HandlesOK /\ Upward /\ Booked /\ Downward /\ Unbegun /\ Tracked
    BY DEF IInv
  <1>3. p \in Packets /\ p.of = None /\ p \in UpMay(a)
    <2>1. known[a] \in Nat
      BY <1>2 DEF Types
    <2>2. p \in Packets /\ p.kind = "ping" /\ p.of = None /\ p.sid = known[a]
      BY <2>1 DEF Ping, Packet, Packets
    <2> QED
      BY <2>1, <2>2 DEF UpMay
  <1> HIDE DEF q
  <1>4. /\ toServer' \in [Accounts -> Seq(Packets)]
        /\ toServer'[a] = Append(toServer[a], p)
        /\ Ofs(toServer'[a]) = Ofs(toServer[a]) \cup {p.of}
        /\ \A b \in Accounts :
              /\ ToSet(toServer'[b]) \subseteq UpMay(b)
              /\ link[b] # "up" => toServer'[b] = <<>>
              /\ b # a => toServer'[b] = toServer[b]
        /\ \A b \in Accounts : \A t \in Transfers : \A m, n :
              Queue(toServer[b], 0, t, m, n) /\ p.of # t => Queue(toServer'[b], 0, t, m, n)
    BY <1>1, <1>2, <1>3, PutFacts
  <1>5. Types'
    <2>1. /\ stage' \in [Transfers -> -1..Complete] /\ DOMAIN copies' = DOMAIN copies
          /\ \A n \in DOMAIN copies : copies'[n] \in Transfers \cup {None}
          /\ wait' \in [Handles -> Slots] /\ files' \in [Machines \X Paths -> Contents]
          /\ link' \in [Accounts -> {"up", "dead", "down"}]
          /\ connected' = {b \in Accounts : link'[b] # "down"}
          /\ book' \in [Accounts -> Seq(Packets)] /\ toClient' \in [Accounts -> Seq(Packets)]
          /\ known' \in [Accounts -> Nat] /\ got' \subseteq Machines \X Transfers
          /\ disturbed' \subseteq Machines \X Transfers
      BY <1>1, <1>2 DEF Types, disk
    <2> QED
      BY <1>1, <1>2, <1>4, <2>1, TypesKeep
  <1>6. HandlesOK'
    BY <1>1, <1>2, HandlesSame DEF disk
  <1>7. Upward'
    <2>1. \A b \in Accounts : known'[b] \in Nat /\ known[b] <= known'[b]
      BY <1>1, <1>2 DEF Types
    <2> QED
      BY <1>1, <1>2, <1>4, <2>1, UpwardKeeps
  <1>8. Booked'
    BY <1>1, <1>2, BookedKeeps DEF Booked
  <1>9. Downward'
    BY <1>1, <1>2, <1>4 DEF Downward
  <1>10. Unbegun'
    <2> DEFINE X == {None}
    <2>1. \A t \in Transfers : stage'[t] = 0 => stage[t] = 0 /\ t \notin X
      BY <1>1, IdsAssumption
    <2>2. \A b \in Accounts : Ofs(toServer'[b]) \subseteq Ofs(toServer[b]) \cup X
      <3> TAKE b \in Accounts
      <3>1. CASE b = a
        BY <1>3, <1>4, <3>1
      <3>2. CASE b # a
        BY <1>4, <3>2
      <3> QED
        BY <3>1, <3>2
    <2>3. \A b \in Accounts : Ofs(book'[b]) \subseteq Ofs(book[b])
      BY <1>1
    <2> HIDE DEF X
    <2> QED
      BY <1>2, <2>1, <2>2, <2>3, UnbegunKeeps
  <1>11. ASSUME NEW t \in Transfers, NEW r \in Receivers(t), stage'[t] >= 1, <<r, t>> \notin disturbed'
         PROVE  Follows(r, t)'
    <2>1. <<r, t>> \notin disturbed /\ stage[t] >= 1 /\ stage'[t] = stage[t]
      BY <1>1, <1>11
    <2>2. Ready(r, t) => Ready(r, t)'
      BY <1>1, ReadyKeeps
    <2>3. \A m \in 0..stage[t] : Sent(t, m) => Sent(t, m)'
      <3> TAKE m \in 0..stage[t]
      <3>1. job[t].from \in Machines /\ t # None
        BY <1>2, ReceiversFacts, IdsAssumption DEF Types
      <3>2. job[t].from # Server /\ Queue(toServer[job[t].from], 0, t, m, stage[t])
                => Queue(toServer'[job[t].from], 0, t, m, stage[t])
        BY <1>3, <1>4, <3>1 DEF Machines
      <3> QED
        BY <1>1, <3>2, SentSame
    <2>4. \A m \in 0..stage[t] : \A n \in 0..m : Passed(r, t, m, n) => Passed(r, t, m, n)'
      BY <1>1, PassedSame
    <2>5. \A n \in 0..stage[t] : Progress(r, t, n) => Progress(r, t, n)'
      BY <1>1, <1>2, DiskSame
    <2> QED
      BY <1>2, <2>1, <2>2, <2>3, <2>4, <2>5, FollowsKeeps
  <1>12. Tracked'
    BY <1>1, <1>11 DEF Tracked, Receivers, Machines
  <1> QED
    BY <1>5, <1>6, <1>7, <1>8, <1>9, <1>10, <1>12 DEF IInv

\* An account's own channels and handle are gone; the others' do not change.
LEMMA DropKeeps ==
  ASSUME IInv, NEW a \in Accounts, Drop(a)
  PROVE  IInv'
  <1> DEFINE h == <<a, a>>
             cut == {w \in Machines \X Transfers :
                        stage[w[2]] > 0 /\ (w[1] = a \/ job[w[2]].from = a)}
  <1>1. /\ link[a] = "up"
        /\ link' = [link EXCEPT ![a] = "dead"]
        /\ wait' = [wait EXCEPT ![h] = Closed]
        /\ known' = [known EXCEPT ![a] = 0]
        /\ toClient' = [toClient EXCEPT ![a] = <<>>]
        /\ toServer' = [toServer EXCEPT ![a] = <<>>]
        /\ stage' = [t \in Transfers |->
                        IF job[t].from = a /\ stage[t] > 0 THEN -1 ELSE stage[t]]
        /\ disturbed' = disturbed \cup cut
        /\ job' = job /\ copies' = copies /\ files' = files /\ got' = got
        /\ connected' = connected /\ book' = book
    BY DEF Drop
  <1>2. Types /\ HandlesOK /\ Upward /\ Booked /\ Downward /\ Unbegun /\ Tracked
    BY DEF IInv
  <1>3. a # Server /\ a \in Machines /\ h \in Handles
    BY IdsAssumption DEF Machines, Handles
  <1>4. /\ link'[a] = "dead" /\ known'[a] = 0 /\ toClient'[a] = <<>> /\ toServer'[a] = <<>>
        /\ \A b \in Accounts : b # a =>
              /\ link'[b] = link[b] /\ known'[b] = known[b]
              /\ toClient'[b] = toClient[b] /\ toServer'[b] = toServer[b]
        /\ wait'[h] = Closed /\ \A g \in Handles : g # h => wait'[g] = wait[g]
    BY <1>1, <1>2, <1>3 DEF Types
  <1>5. Types'
    <2>1. stage' \in [Transfers -> -1..Complete]
      <3>1. Complete \in Nat
        BY BoundsAssumption DEF Complete
      <3> QED
        BY <1>1, <1>2, <3>1 DEF Types
    <2>2. wait' \in [Handles -> Slots]
      BY <1>1, <1>2, ClosedFacts DEF Types
    <2>3. /\ link' \in [Accounts -> {"up", "dead", "down"}] /\ known' \in [Accounts -> Nat]
      BY <1>1, <1>2 DEF Types
    <2>4. connected' = {b \in Accounts : link'[b] # "down"}
      <3>1. connected = {b \in Accounts : link[b] # "down"}
        BY <1>2 DEF Types
      <3>2. \A b \in Accounts : link'[b] # "down" <=> link[b] # "down"
        BY <1>1, <1>4
      <3> QED
        BY <1>1, <3>1, <3>2
    <2>5. toClient' \in [Accounts -> Seq(Packets)] /\ toServer' \in [Accounts -> Seq(Packets)]
      <3>1. <<>> \in Seq(Packets)
        OBVIOUS
      <3> QED
        BY <1>1, <1>2, <3>1 DEF Types
    <2>6. /\ DOMAIN copies' = DOMAIN copies
          /\ \A n \in DOMAIN copies : copies'[n] \in Transfers \cup {None}
          /\ files' \in [Machines \X Paths -> Contents] /\ got' \subseteq Machines \X Transfers
          /\ book' \in [Accounts -> Seq(Packets)]
          /\ disturbed' \subseteq Machines \X Transfers
      BY <1>1, <1>2 DEF Types
    <2> QED
      BY <1>1, <1>2, <2>1, <2>2, <2>3, <2>4, <2>5, <2>6, TypesKeep
  <1>6. HandlesOK'
    <2> SUFFICES ASSUME NEW g \in Handles PROVE (wait[g] = Closed \/ OpenFor(g))'
      BY DEF HandlesOK
    <2>1. CASE wait'[g] = Closed
      BY <2>1 DEF Closed
    <2>2. CASE wait'[g] = wait[g] /\ OpenFor(g)
      <3>1. g[1] = Server => g[2] \in Accounts
        BY IdsAssumption DEF Handles
      <3>2. g[1] = Server => link'[g[2]] # "down"
        BY <1>1, <1>4, <2>2, <3>1 DEF OpenFor
      <3> QED
        BY <1>1, <2>2, <3>2 DEF OpenFor, HandleOf
    <2> QED
      BY <1>2, <1>4, <2>1, <2>2 DEF HandlesOK
  <1>7. Upward'
    <2> SUFFICES ASSUME NEW b \in Accounts PROVE (ToSet(toServer[b]) \subseteq UpMay(b))'
      BY DEF Upward
    <2>1. CASE b = a
      BY <1>4, <2>1 DEF ToSet
    <2>2. CASE b # a
      BY <1>1, <1>2, <1>4, <2>2 DEF Upward, UpMay, IsFile
    <2> QED
      BY <2>1, <2>2
  <1>8. Booked'
    BY <1>1, <1>2, BookedKeeps DEF Booked
  <1>9. Downward'
    <2> SUFFICES ASSUME NEW b \in Accounts
                 PROVE  /\ link'[b] = "up" => Fresh(toClient'[b], book[b], known'[b])
                        /\ link'[b] # "up" => toClient'[b] = <<>> /\ toServer'[b] = <<>> /\ known'[b] = 0
                        /\ link'[b] = "down" => book[b] = <<>>
      BY <1>1 DEF Downward
    <2>1. CASE b = a
      BY <1>4, <2>1
    <2>2. CASE b # a
      BY <1>2, <1>4, <2>2 DEF Downward
    <2> QED
      BY <2>1, <2>2
  <1>10. Unbegun'
    <2> DEFINE X == {}
    <2>1. \A t \in Transfers : stage'[t] = 0 => stage[t] = 0 /\ t \notin X
      BY <1>1
    <2>2. \A b \in Accounts : Ofs(toServer'[b]) \subseteq Ofs(toServer[b]) \cup X
      <3> TAKE b \in Accounts
      <3>1. CASE b = a
        BY <1>4, <3>1 DEF Ofs
      <3>2. CASE b # a
        BY <1>4, <3>2
      <3> QED
        BY <3>1, <3>2
    <2>3. \A b \in Accounts : Ofs(book'[b]) \subseteq Ofs(book[b])
      BY <1>1
    <2> HIDE DEF X
    <2> QED
      BY <1>2, <2>1, <2>2, <2>3, UnbegunKeeps
  <1>11. ASSUME NEW t \in Transfers, NEW r \in Receivers(t), stage'[t] >= 1, <<r, t>> \notin disturbed'
         PROVE  Follows(r, t)'
    <2>1. stage[t] \in Int /\ r \in Machines
      BY <1>2, ReceiversFacts DEF Types
    <2>2. stage'[t] = IF job[t].from = a /\ stage[t] > 0 THEN -1 ELSE stage[t]
      BY <1>1
    <2>3. stage'[t] = stage[t] /\ stage[t] >= 1 /\ job[t].from # a
      BY <1>11, <2>1, <2>2
    <2>4. <<r, t>> \notin disturbed /\ r # a
      <3>1. <<r, t>> \notin cut
        BY <1>1, <1>11
      <3>2. <<r, t>> \in Machines \X Transfers /\ stage[t] > 0
        BY <2>1, <2>3
      <3> QED
        BY <1>1, <1>11, <3>1, <3>2
    <2>5. job[t].from \in Machines
      BY <1>2, ReceiversFacts DEF Types
    <2>6. Ready(r, t) => Ready(r, t)'
      BY <1>1, <1>4, <2>1, <2>3, <2>4, <2>5 DEF Ready, Machines
    <2>7. \A m \in 0..stage[t] : Sent(t, m) => Sent(t, m)'
      <3> TAKE m \in 0..stage[t]
      <3>1. job[t].from # Server => toServer'[job[t].from] = toServer[job[t].from]
        BY <1>4, <2>3, <2>5 DEF Machines
      <3> QED
        BY <1>1, <2>3, <3>1, SentSame
    <2>8. \A m \in 0..stage[t] : \A n \in 0..m : Passed(r, t, m, n) => Passed(r, t, m, n)'
      <3>1. r # Server => known'[r] = known[r]
        BY <1>4, <2>1, <2>4 DEF Machines
      <3> QED
        BY <1>1, <3>1, PassedSame
    <2>9. \A n \in 0..stage[t] : Progress(r, t, n) => Progress(r, t, n)'
      <3>1. \A g \in Handles : g[1] = r => wait'[g] = wait[g]
        BY <1>4, <2>4
      <3> QED
        BY <1>1, <1>2, <3>1, ProgressSame
    <2> QED
      BY <1>2, <2>3, <2>4, <2>6, <2>7, <2>8, <2>9, FollowsKeeps
  <1>12. Tracked'
    BY <1>1, <1>11 DEF Tracked, Receivers, Machines
  <1> QED
    BY <1>5, <1>6, <1>7, <1>8, <1>9, <1>10, <1>12 DEF IInv

\* The rest of a step that only takes an account's connection away or gives it
\* one: nothing that is followed goes through an account without one.
LEMMA LinkChanges ==
  ASSUME IInv, NEW a \in Accounts, link[a] # "up",
         \A b \in Accounts : b # a => link'[b] = link[b] /\ book'[b] = book[b],
         \A g \in Handles : g # <<Server, a>> => wait'[g] = wait[g],
         wait' = wait \/ wait'[<<Server, a>>] = Closed,
         Ofs(book'[a]) \subseteq Ofs(book[a]),
         job' = job, stage' = stage, copies' = copies, files' = files, got' = got,
         known' = known, toClient' = toClient, toServer' = toServer, disturbed' = disturbed
  PROVE  Upward' /\ Unbegun' /\ Tracked'
  <1>1. Types /\ HandlesOK /\ Upward /\ Booked /\ Downward /\ Unbegun /\ Tracked
    BY DEF IInv
  <1>2. a # Server /\ a \in Machines
    BY IdsAssumption DEF Machines
  <1>3. Upward'
    <2>1. \A b \in Accounts : known'[b] \in Nat /\ known[b] <= known'[b]
      BY <1>1 DEF Types
    <2>2. \A b \in Accounts : ToSet(toServer'[b]) \subseteq UpMay(b)
      BY <1>1 DEF Upward
    <2> QED
      BY <1>1, <2>1, <2>2, UpwardKeeps
  <1>4. Unbegun'
    <2> DEFINE X == {}
    <2>1. \A t \in Transfers : stage'[t] = 0 => stage[t] = 0 /\ t \notin X
      OBVIOUS
    <2>2. \A b \in Accounts : Ofs(toServer'[b]) \subseteq Ofs(toServer[b]) \cup X
      OBVIOUS
    <2>3. \A b \in Accounts : Ofs(book'[b]) \subseteq Ofs(book[b])
      OBVIOUS
    <2> HIDE DEF X
    <2> QED
      BY <1>1, <2>1, <2>2, <2>3, UnbegunKeeps
  <1>5. ASSUME NEW t \in Transfers, NEW r \in Receivers(t), stage'[t] >= 1, <<r, t>> \notin disturbed'
         PROVE  Follows(r, t)'
    <2>1. stage[t] >= 1 /\ <<r, t>> \notin disturbed /\ r \in Machines /\ job[t].from \in Machines
      BY <1>1, <1>5, ReceiversFacts DEF Types
    <2>2. Ready(r, t)
      BY <1>1, <2>1 DEF Tracked, Follows
    <2>3. r # a /\ job[t].from # a
      BY <1>2, <2>2 DEF Ready
    <2>4. Ready(r, t)'
      BY <2>1, <2>2, <2>3 DEF Ready, Machines
    <2>5. \A m \in 0..stage[t] : Sent(t, m) => Sent(t, m)'
      BY SentSame
    <2>6. \A m \in 0..stage[t] : \A n \in 0..m : Passed(r, t, m, n) => Passed(r, t, m, n)'
      <3>1. r # Server => book'[r] = book[r]
        BY <2>1, <2>3 DEF Machines
      <3> QED
        BY <3>1, PassedSame
    <2>7. \A n \in 0..stage[t] : Progress(r, t, n) => Progress(r, t, n)'
      <3> SUFFICES ASSUME NEW n \in 0..stage[t], Progress(r, t, n) PROVE Progress(r, t, n)'
        OBVIOUS
      <3>1. HandleOf(r, job[t].from) # <<Server, a>>
        BY <1>2, <2>3 DEF HandleOf
      <3>2. HandleOf(r, job[t].from) \in Handles /\ HandleOf(r, job[t].from)[1] = r
        BY <1>1, ReceiversFacts DEF Types
      <3>3. wait'[HandleOf(r, job[t].from)] = wait[HandleOf(r, job[t].from)]
        BY <3>1, <3>2
      <3>4. \A g \in Handles : wait'[g] = wait[g] \/ wait'[g] = Closed
        OBVIOUS
      <3> QED
        BY <3>2, <3>3, <3>4 DEF Progress, Complete, HandleOf
    <2> QED
      BY <1>1, <2>1, <2>2, <2>4, <2>5, <2>6, <2>7, FollowsKeeps
  <1>6. Tracked'
    BY <1>5 DEF Tracked, Receivers, Machines
  <1> QED
    BY <1>3, <1>4, <1>6

LEMMA CloseConnectionKeeps ==
  ASSUME IInv, NEW a \in Accounts, CloseConnection(a)
  PROVE  IInv'
  <1> DEFINE h == <<Server, a>>
  <1>1. /\ link[a] = "dead"
        /\ link' = [link EXCEPT ![a] = "down"]
        /\ connected' = connected \ {a}
        /\ book' = [book EXCEPT ![a] = <<>>]
        /\ wait' = [wait EXCEPT ![h] = Closed]
        /\ job' = job /\ stage' = stage /\ copies' = copies /\ files' = files /\ got' = got
        /\ known' = known /\ toClient' = toClient /\ toServer' = toServer
        /\ disturbed' = disturbed
    BY DEF CloseConnection, Dropped
  <1>2. Types /\ HandlesOK /\ Upward /\ Booked /\ Downward /\ Unbegun /\ Tracked
    BY DEF IInv
  <1>3. h \in Handles
    BY DEF Handles
  <1>4. /\ link'[a] = "down" /\ book'[a] = <<>> /\ wait'[h] = Closed
        /\ \A b \in Accounts : b # a => link'[b] = link[b] /\ book'[b] = book[b]
        /\ \A g \in Handles : g # h => wait'[g] = wait[g]
    BY <1>1, <1>2, <1>3 DEF Types
  <1>5. Types'
    <2>1. wait' \in [Handles -> Slots]
      BY <1>1, <1>2, ClosedFacts DEF Types
    <2>2. link' \in [Accounts -> {"up", "dead", "down"}]
      BY <1>1, <1>2 DEF Types
    <2>3. connected' = {b \in Accounts : link'[b] # "down"}
      <3>1. connected = {b \in Accounts : link[b] # "down"}
        BY <1>2 DEF Types
      <3>2. \A b \in Accounts : link'[b] # "down" <=> link[b] # "down" /\ b # a
        BY <1>1, <1>4
      <3> QED
        BY <1>1, <3>1, <3>2
    <2>4. book' \in [Accounts -> Seq(Packets)]
      <3>1. <<>> \in Seq(Packets)
        OBVIOUS
      <3> QED
        BY <1>1, <1>2, <3>1 DEF Types
    <2>5. /\ stage' \in [Transfers -> -1..Complete] /\ DOMAIN copies' = DOMAIN copies
          /\ \A n \in DOMAIN copies : copies'[n] \in Transfers \cup {None}
          /\ files' \in [Machines \X Paths -> Contents] /\ got' \subseteq Machines \X Transfers
          /\ known' \in [Accounts -> Nat] /\ toClient' \in [Accounts -> Seq(Packets)]
          /\ toServer' \in [Accounts -> Seq(Packets)]
          /\ disturbed' \subseteq Machines \X Transfers
      BY <1>1, <1>2 DEF Types
    <2> QED
      BY <1>1, <1>2, <2>1, <2>2, <2>3, <2>4, <2>5, TypesKeep
  <1>6. HandlesOK'
    <2> SUFFICES ASSUME NEW g \in Handles PROVE (wait[g] = Closed \/ OpenFor(g))'
      BY DEF HandlesOK
    <2>1. CASE wait'[g] = Closed
      BY <2>1 DEF Closed
    <2>2. CASE g # h /\ wait'[g] = wait[g] /\ OpenFor(g)
      <3>1. g[1] = Server => g[2] \in Accounts /\ g[2] # a
        BY <2>2, IdsAssumption DEF Handles
      <3>2. g[1] = Server => link'[g[2]] # "down"
        BY <1>4, <2>2, <3>1 DEF OpenFor
      <3> QED
        BY <1>1, <2>2, <3>2 DEF OpenFor, HandleOf
    <2> QED
      BY <1>2, <1>4, <2>1, <2>2 DEF HandlesOK
  <1>7. Booked'
    <2>1. ASSUME NEW b \in Accounts, NEW i \in DOMAIN book'[b]
          PROVE  book'[b][i].sid = i /\ DownMay(b, book'[b][i])
      <3>1. b # a
        BY <1>4, <2>1
      <3> QED
        BY <1>2, <1>4, <2>1, <3>1 DEF Booked
    <2> QED
      BY <1>1, <2>1, BookedKeeps
  <1>8. Downward'
    <2> SUFFICES ASSUME NEW b \in Accounts
                 PROVE  /\ link'[b] = "up" => Fresh(toClient[b], book'[b], known[b])
                        /\ link'[b] # "up" => toClient[b] = <<>> /\ toServer[b] = <<>> /\ known[b] = 0
                        /\ link'[b] = "down" => book'[b] = <<>>
      BY <1>1 DEF Downward
    <2>1. CASE b = a
      BY <1>1, <1>2, <1>4, <2>1 DEF Downward
    <2>2. CASE b # a
      BY <1>2, <1>4, <2>2 DEF Downward
    <2> QED
      BY <2>1, <2>2
  <1>9. Upward' /\ Unbegun' /\ Tracked'
    <2>1. Ofs(book'[a]) \subseteq Ofs(book[a])
      BY <1>4 DEF Ofs
    <2>2. link[a] # "up"
      BY <1>1
    <2> QED
      BY <1>1, <1>4, <2>1, <2>2, LinkChanges
  <1> QED
    BY <1>5, <1>6, <1>7, <1>8, <1>9 DEF IInv

LEMMA LoginKeeps ==
  ASSUME IInv, NEW a \in Accounts, Login(a)
  PROVE  IInv'
  <1>1. /\ link[a] = "down"
        /\ link' = [link EXCEPT ![a] = "up"]
        /\ connected' = connected \cup {a}
        /\ job' = job /\ stage' = stage /\ copies' = copies
        /\ wait' = wait /\ files' = files /\ got' = got /\ book' = book
        /\ known' = known /\ toClient' = toClient /\ toServer' = toServer
        /\ disturbed' = disturbed
    BY DEF Login, disk
  <1>2. Types /\ HandlesOK /\ Upward /\ Booked /\ Downward /\ Unbegun /\ Tracked
    BY DEF IInv
  <1>3. link'[a] = "up" /\ \A b \in Accounts : b # a => link'[b] = link[b]
    BY <1>1, <1>2 DEF Types
  <1>4. Types'
    <2>1. link' \in [Accounts -> {"up", "dead", "down"}]
      BY <1>1, <1>2 DEF Types
    <2>2. connected' = {b \in Accounts : link'[b] # "down"}
      <3>1. connected = {b \in Accounts : link[b] # "down"}
        BY <1>2 DEF Types
      <3>2. \A b \in Accounts : link'[b] # "down" <=> link[b] # "down" \/ b = a
        BY <1>1, <1>3
      <3> QED
        BY <1>1, <3>1, <3>2
    <2>3. /\ stage' \in [Transfers -> -1..Complete] /\ DOMAIN copies' = DOMAIN copies
          /\ \A n \in DOMAIN copies : copies'[n] \in Transfers \cup {None}
          /\ wait' \in [Handles -> Slots] /\ book' \in [Accounts -> Seq(Packets)]
          /\ files' \in [Machines \X Paths -> Contents] /\ got' \subseteq Machines \X Transfers
          /\ known' \in [Accounts -> Nat] /\ toClient' \in [Accounts -> Seq(Packets)]
          /\ toServer' \in [Accounts -> Seq(Packets)]
          /\ disturbed' \subseteq Machines \X Transfers
      BY <1>1, <1>2 DEF Types
    <2> QED
      BY <1>1, <1>2, <2>1, <2>2, <2>3, TypesKeep
  <1>5. HandlesOK'
    <2> SUFFICES ASSUME NEW g \in Handles PROVE (wait[g] = Closed \/ OpenFor(g))'
      BY DEF HandlesOK
    <2>1. CASE wait[g] = Closed
      BY <1>1, <2>1 DEF Closed
    <2>2. CASE OpenFor(g)
      <3>1. g[1] = Server => g[2] \in Accounts
        BY IdsAssumption DEF Handles
      <3>2. g[1] = Server => link'[g[2]] # "down"
        BY <1>1, <1>3, <2>2, <3>1 DEF OpenFor
      <3> QED
        BY <1>1, <2>2, <3>2 DEF OpenFor, HandleOf
    <2> QED
      BY <1>2, <2>1, <2>2 DEF HandlesOK
  <1>6. Booked'
    BY <1>1, <1>2, BookedKeeps DEF Booked
  <1>7. Downward'
    <2> SUFFICES ASSUME NEW b \in Accounts
                 PROVE  /\ link'[b] = "up" => Fresh(toClient[b], book[b], known[b])
                        /\ link'[b] # "up" => toClient[b] = <<>> /\ toServer[b] = <<>> /\ known[b] = 0
                        /\ link'[b] = "down" => book[b] = <<>>
      BY <1>1 DEF Downward
    <2>1. CASE b = a
      <3>1. toClient[a] = <<>> /\ known[a] = 0 /\ book[a] = <<>>
        BY <1>1, <1>2 DEF Downward
      <3> QED
        BY <1>3, <2>1, <3>1, FreshEmpty
    <2>2. CASE b # a
      BY <1>2, <1>3, <2>2 DEF Downward
    <2> QED
      BY <2>1, <2>2
  <1>8. Upward' /\ Unbegun' /\ Tracked'
    <2>1. link[a] # "up"
      BY <1>1
    <2> QED
      BY <1>1, <1>3, <2>1, LinkChanges
  <1> QED
    BY <1>4, <1>5, <1>6, <1>7, <1>8 DEF IInv

-----------------------------------------------------------------------------
(* The invariant holds                                                        *)

LEMMA StutterKeeps ==
  ASSUME IInv, UNCHANGED vars
  PROVE  IInv'
  <1>1. /\ job' = job /\ stage' = stage /\ copies' = copies /\ wait' = wait /\ files' = files
        /\ link' = link /\ connected' = connected /\ book' = book /\ known' = known
        /\ toClient' = toClient /\ toServer' = toServer /\ got' = got /\ disturbed' = disturbed
    BY DEF vars, wire
  <1>2. Types'
    <2>1. Types /\ job' = job
      BY <1>1 DEF IInv
    <2>2. /\ stage' \in [Transfers -> -1..Complete] /\ DOMAIN copies' = DOMAIN copies
          /\ \A n \in DOMAIN copies : copies'[n] \in Transfers \cup {None}
          /\ wait' \in [Handles -> Slots] /\ files' \in [Machines \X Paths -> Contents]
          /\ link' \in [Accounts -> {"up", "dead", "down"}]
          /\ connected' = {a \in Accounts : link'[a] # "down"}
          /\ book' \in [Accounts -> Seq(Packets)] /\ known' \in [Accounts -> Nat]
          /\ toClient' \in [Accounts -> Seq(Packets)] /\ toServer' \in [Accounts -> Seq(Packets)]
          /\ got' \subseteq Machines \X Transfers /\ disturbed' \subseteq Machines \X Transfers
      BY <1>1, <2>1 DEF Types
    <2> QED
      BY <2>1, <2>2, TypesKeep
  <1>3. HandlesOK'
    BY <1>1, HandlesSame DEF IInv
  <1>4. Upward' /\ Booked' /\ Downward' /\ Unbegun'
    BY <1>1 DEF IInv, Upward, UpMay, IsFile, Booked, DownMay, Receivers, Downward, Unbegun, Ofs
  <1>5. Tracked'
    <2> SUFFICES ASSUME NEW t \in Transfers, NEW r \in Receivers(t), stage[t] >= 1,
                        <<r, t>> \notin disturbed
                 PROVE  Follows(r, t)'
      BY <1>1 DEF Tracked, Receivers
    <2>1. Follows(r, t)
      BY DEF IInv, Tracked
    <2>2. Ready(r, t)'
      BY <1>1, <2>1 DEF Follows, Ready
    <2>3. PICK m \in 0..stage[t] : \E n \in 0..m : At(r, t, m, n)
      BY <2>1 DEF Follows
    <2>4. PICK n \in 0..m : At(r, t, m, n)
      BY <2>3
    <2>5. At(r, t, m, n)'
      BY <1>1, <2>4 DEF At, Sent, Passed, Progress, HandleOf, Complete
    <2> QED
      BY <1>1, <2>2, <2>5 DEF Follows
  <1> QED
    BY <1>2, <1>3, <1>4, <1>5 DEF IInv

LEMMA InitIInv == Init => IInv
  <1> SUFFICES ASSUME Init PROVE IInv
    OBVIOUS
  <1>1. /\ stage = [t \in Transfers |-> 0] /\ got = {} /\ disturbed = {}
        /\ wait = [h \in Handles |-> Closed]
        /\ link = [a \in Accounts |-> "up"] /\ connected = Accounts
        /\ book = [a \in Accounts |-> <<>>] /\ known = [a \in Accounts |-> 0]
        /\ toClient = [a \in Accounts |-> <<>>] /\ toServer = [a \in Accounts |-> <<>>]
    BY DEF Init
  <1>2. <<>> \in Seq(Packets) /\ DOMAIN <<>> = {} /\ <<>> \in Contents
    BY DEF Contents
  <1>3. Types
    <2>1. stage \in [Transfers -> -1..Complete]
      <3>1. 0 \in -1..Complete
        BY BoundsAssumption DEF Complete
      <3> QED
        BY <1>1, <3>1
    <2>2. /\ DOMAIN copies = {job[t].name : t \in Transfers}
          /\ \A n \in DOMAIN copies : copies[n] \in Transfers \cup {None}
      BY DEF Init
    <2>3. wait \in [Handles -> Slots]
      BY <1>1, ClosedFacts
    <2>4. files \in [Machines \X Paths -> Contents]
      BY <1>2 DEF Init, Paths
    <2>5. /\ link \in [Accounts -> {"up", "dead", "down"}]
          /\ connected = {a \in Accounts : link[a] # "down"}
      BY <1>1
    <2>6. /\ book \in [Accounts -> Seq(Packets)] /\ known \in [Accounts -> Nat]
          /\ toClient \in [Accounts -> Seq(Packets)] /\ toServer \in [Accounts -> Seq(Packets)]
      BY <1>1, <1>2
    <2>7. job \in Jobs
      BY DEF Init
    <2> QED
      BY <1>1, <2>1, <2>2, <2>3, <2>4, <2>5, <2>6, <2>7 DEF Types
  <1>4. HandlesOK
    BY <1>1 DEF HandlesOK
  <1>5. Upward
    BY <1>1 DEF Upward, ToSet
  <1>6. Booked
    BY <1>1 DEF Booked
  <1>7. Downward
    BY <1>1, FreshEmpty DEF Downward
  <1>8. Unbegun
    BY <1>1 DEF Unbegun, Ofs
  <1>9. Tracked
    BY <1>1 DEF Tracked
  <1> QED
    BY <1>3, <1>4, <1>5, <1>6, <1>7, <1>8, <1>9 DEF IInv

\* Every channel holds only what it may, every book is numbered without a gap,
\* and a transfer that nothing disturbed is somewhere on its way, in order.
THEOREM Invariance == Spec => []IInv
  <1>1. IInv /\ [Next]_vars => IInv'
    <2> SUFFICES ASSUME IInv, [Next]_vars PROVE IInv'
      OBVIOUS
    <2>1. ASSUME NEW t \in Transfers, ClientSendsNext(t) PROVE IInv'
      BY <2>1, ClientSendsNextKeeps
    <2>2. ASSUME NEW t \in Transfers, ServerSendsNext(t) PROVE IInv'
      BY <2>2, ServerSendsNextKeeps
    <2>3. ASSUME NEW a \in Accounts, Relay(a) PROVE IInv'
      BY <2>3, RelayKeeps
    <2>4. ASSUME NEW a \in Accounts, ServerReceives(a) PROVE IInv'
      BY <2>4, ServerReceivesKeeps
    <2>5. ASSUME NEW a \in Accounts, EchoError(a) PROVE IInv'
      BY <2>5, EchoErrorKeeps
    <2>6. ASSUME NEW a \in Accounts, Replay(a) PROVE IInv'
      BY <2>6, ReplayKeeps
    <2>7. ASSUME NEW a \in Accounts, ClientReceives(a) PROVE IInv'
      BY <2>7, ClientReceivesKeeps
    <2>8. ASSUME NEW a \in Accounts, HandleFileError(a) PROVE IInv'
      BY <2>8, HandleFileErrorKeeps
    <2>9. ASSUME NEW a \in Accounts, Keepalive(a) PROVE IInv'
      BY <2>9, KeepaliveKeeps
    <2>10. ASSUME NEW a \in Accounts, Drop(a) PROVE IInv'
      BY <2>10, DropKeeps
    <2>11. ASSUME NEW a \in Accounts, CloseConnection(a) PROVE IInv'
      BY <2>11, CloseConnectionKeeps
    <2>12. ASSUME NEW a \in Accounts, Login(a) PROVE IInv'
      BY <2>12, LoginKeeps
    <2>13. ASSUME NEW a \in Accounts, ServerCannotReceive(a) PROVE IInv'
      BY <2>13, ServerCannotReceiveKeeps
    <2>14. ASSUME NEW a \in Accounts, ClientCannotReceive(a) PROVE IInv'
      BY <2>14, ClientCannotReceiveKeeps
    <2>15. CASE UNCHANGED vars
      BY <2>15, StutterKeeps
    <2> QED
      BY <2>1, <2>2, <2>3, <2>4, <2>5, <2>6, <2>7, <2>8, <2>9, <2>10, <2>11, <2>12, <2>13,
         <2>14, <2>15 DEF Next, ServerStep, ClientStep
  <1> QED
    BY InitIInv, <1>1, PTL DEF Spec

-----------------------------------------------------------------------------
(* What follows                                                               *)

\* A client that reads nothing more has still its connection.
DeafAreUp == deaf \subseteq {a \in Accounts : link[a] = "up"}

LEMMA DeafInvariance == Spec => []DeafAreUp
  <1>1. Init => DeafAreUp
    BY DEF Init, DeafAreUp
  <1>2. IInv /\ DeafAreUp /\ [Next]_vars => DeafAreUp'
    <2> SUFFICES ASSUME IInv, DeafAreUp, [Next]_vars PROVE DeafAreUp'
      OBVIOUS
    <2>1. Types /\ Downward
      BY DEF IInv
    <2>2. CASE deaf' = deaf /\ link' = link
      BY <2>2 DEF DeafAreUp
    <2>3. ASSUME NEW a \in Accounts, ClientCannotReceive(a) PROVE DeafAreUp'
      <3>1. deaf' = deaf \cup {a} /\ link' = link /\ link[a] = "up"
        BY <2>1, <2>3 DEF ClientCannotReceive, ClientReads, Downward
      <3> QED
        BY <3>1 DEF DeafAreUp
    <2>4. ASSUME NEW a \in Accounts, Drop(a) PROVE DeafAreUp'
      <3>1. deaf' = deaf \ {a} /\ \A b \in Accounts \ {a} : link'[b] = link[b]
        BY <2>1, <2>4 DEF Drop, Types
      <3> QED
        BY <3>1 DEF DeafAreUp
    <2>5. ASSUME NEW a \in Accounts, CloseConnection(a) \/ Login(a) PROVE DeafAreUp'
      <3>1. /\ deaf' = deaf /\ link[a] # "up"
            /\ \A b \in Accounts \ {a} : link'[b] = link[b]
        BY <2>1, <2>5 DEF CloseConnection, Login, Types
      <3> QED
        BY <3>1 DEF DeafAreUp
    <2>6. \/ deaf' = deaf /\ link' = link
          \/ \E a \in Accounts :
                ClientCannotReceive(a) \/ Drop(a) \/ CloseConnection(a) \/ Login(a)
      BY DEF Next, ServerStep, ClientStep, ClientSendsNext, ServerSendsNext, Relay,
             ServerReceives, ServerCannotReceive, EchoError, Replay, ClientReceives,
             HandleFileError, Keepalive, vars, wire
    <2> QED
      BY <2>2, <2>3, <2>4, <2>5, <2>6
  <1> QED
    BY <1>1, <1>2, Invariance, PTL DEF Spec

\* Every variable has its type, and the server keeps no file open for an
\* account whose connection it has closed.
THEOREM TypeCorrect == Spec => []TypeOK
  <1>1. IInv /\ DeafAreUp => TypeOK
    <2> SUFFICES ASSUME IInv, DeafAreUp PROVE TypeOK
      OBVIOUS
    <2>1. Types /\ HandlesOK /\ Downward
      BY DEF IInv
    <2>2. \A h \in Handles : wait[h] = Closed \/ wait[h].of \in Transfers
      BY <2>1 DEF HandlesOK, OpenFor
    <2>3. ASSUME NEW a \in Accounts
          PROVE  /\ link[a] \in {"up", "dead", "down"} /\ (link[a] # "down" <=> a \in connected)
                 /\ wait[<<Server, a>>] # Closed => a \in connected
                 /\ ToSet(toClient[a]) \cup ToSet(toServer[a]) \cup ToSet(book[a]) \subseteq Packets
                 /\ known[a] <= Len(book[a])
      <3>1. link[a] \in {"up", "dead", "down"} /\ (link[a] # "down" <=> a \in connected)
        BY <2>1 DEF Types
      <3>2. wait[<<Server, a>>] # Closed => a \in connected
        <4>1. <<Server, a>> \in Handles
          BY DEF Handles
        <4> QED
          BY <2>1, <3>1, <4>1 DEF HandlesOK, OpenFor
      <3>3. ToSet(toClient[a]) \cup ToSet(toServer[a]) \cup ToSet(book[a]) \subseteq Packets
        <4>1. \A ch \in Seq(Packets) : ToSet(ch) \subseteq Packets
          BY DEF ToSet
        <4> QED
          BY <2>1, <4>1 DEF Types
      <3>4. known[a] <= Len(book[a])
        <4>1. CASE link[a] = "up"
          BY <2>1, <4>1 DEF Downward, Fresh
        <4>2. CASE link[a] # "up"
          <5>1. known[a] = 0 /\ Len(book[a]) \in Nat
            BY <2>1, <4>2 DEF Types, Downward
          <5> QED
            BY <5>1
        <4> QED
          BY <4>1, <4>2
      <3> QED
        BY <3>1, <3>2, <3>3, <3>4
    <2>4. job \in Jobs /\ (\A t \in Transfers : stage[t] \in -1..Complete)
          /\ got \cup disturbed \subseteq Machines \X Transfers
      BY <2>1 DEF Types
    <2> QED
      BY <2>2, <2>3, <2>4 DEF TypeOK, DeafAreUp
  <1> QED
    BY <1>1, Invariance, DeafInvariance, PTL

\* A packet that the client has not heard is on its way.
LEMMA UnheardArrives ==
  ASSUME IInv, NEW r \in Accounts, link[r] = "up", NEW t,
         NEW i \in DOMAIN book[r], i > known[r], book[r][i].of = t
  PROVE  \E p \in ToSet(toClient[r]) : p.of = t
  <1>1. Fresh(toClient[r], book[r], known[r]) /\ known[r] \in Nat /\ i \in Nat
    BY DEF IInv, Types, Downward
  <1>2. ~(i <= known[r])
    BY <1>1
  <1>3. PICK j \in DOMAIN toClient[r] : toClient[r][j].sid = i
    BY <1>1, <1>2 DEF Fresh
  <1>4. toClient[r][j] = book[r][i]
    BY <1>1, <1>3 DEF Fresh
  <1> QED
    BY <1>4 DEF ToSet

\* A transfer that was sent to its end is received, unless something on the
\* list of FailsForAReason happened to it: there is no other way to lose one.
THEOREM FailuresHaveReasons == Spec => []FailsForAReason
  <1>1. IInv => FailsForAReason
    <2> SUFFICES ASSUME IInv, NEW t \in Transfers, stage[t] = Complete, NEW r \in Receivers(t),
                        <<r, t>> \notin got, <<r, t>> \notin disturbed
                 PROVE  Arriving(r, t)
      BY DEF FailsForAReason
    <2>1. Complete \in Nat /\ Complete >= 1 /\ Complete = Chunks + 2 /\ Chunks \in Nat
      BY BoundsAssumption DEF Complete
    <2>2. r \in Machines /\ job[t].from \in Machines
      BY ReceiversFacts DEF IInv, Types
    <2>3. Follows(r, t)
      BY <2>1 DEF IInv, Tracked
    <2>4. PICK m \in 0..Complete : \E n \in 0..m : At(r, t, m, n)
      BY <2>3 DEF Follows
    <2>5. PICK n \in 0..m : At(r, t, m, n)
      BY <2>4
    <2>6. m \in Nat /\ n \in Nat /\ n <= m /\ m <= Complete
      BY <2>1
    <2>7. n # Complete
      <3>1. Progress(r, t, n)
        BY <2>5 DEF At
      <3> QED
        BY <2>1, <3>1 DEF Progress
    <2>8. CASE n < m
      <3>1. Passed(r, t, m, n)
        BY <2>5 DEF At
      <3>2. r # Server
        BY <2>6, <2>8, <3>1 DEF Passed
      <3>3. r \in Accounts /\ link[r] = "up"
        BY <2>2, <2>3, <3>2 DEF Machines, Follows, Ready
      <3>4. n \in n..m - 1
        BY <2>6, <2>8
      <3>5. PICK i \in DOMAIN book[r] : i > known[r] /\ book[r][i].of = t
        BY <3>1, <3>2, <3>4 DEF Passed, Queue
      <3> QED
        BY <3>3, <3>5, UnheardArrives DEF Arriving
    <2>9. CASE n = m
      <3>1. Sent(t, m) /\ m # Complete
        BY <2>5, <2>7, <2>9 DEF At
      <3>2. job[t].from # Server
        BY <3>1 DEF Sent
      <3>3. m \in m..Complete - 1
        BY <2>1, <2>6, <3>1
      <3>4. PICK i \in DOMAIN toServer[job[t].from] : toServer[job[t].from][i].of = t
        BY <3>1, <3>2, <3>3 DEF Sent, Queue
      <3>5. job[t].from \in Accounts
        BY <2>2, <3>2 DEF Machines
      <3> QED
        BY <3>4, <3>5 DEF Arriving, ToSet
    <2> QED
      BY <2>6, <2>8, <2>9
  <1> QED
    BY <1>1, Invariance, PTL

\* Only the last packet of a transfer, at one of those it is for, with the
\* right bytes in the file, makes a machine call recv_file.
LEMMA HandledExactly ==
  ASSUME NEW q, NEW p, q \in Receivers(p.of), HandleFile(q, p), NEW w \in got' \ got
  PROVE  w[1] \in Receivers(w[2]) /\ files'[<<w[1], job[w[2]].path>>] = Content(w[2])
  <1>1. HandleFileSendOk(q, p.of)
    BY DEF HandleFile, HandleFileSend, HandleFileSending, disk
  <1>2. w = <<q, p.of>> /\ Verified(files[<<q, job[p.of].path>>], p.of) /\ files' = files
    BY <1>1 DEF HandleFileSendOk
  <1> QED
    BY <1>2 DEF Verified

\* recv_file is called only by a machine that the file was sent to, and with
\* exactly the bytes that its sender had.
THEOREM Exact == Spec => ReceivedIsExact
  <1> DEFINE Right == \A w \in got' \ got :
                /\ w[1] \in Receivers(w[2])
                /\ files'[<<w[1], job[w[2]].path>>] = Content(w[2])
  <1>1. IInv /\ [Next]_vars => [Right]_vars
    <2> SUFFICES ASSUME IInv, Next PROVE Right
      OBVIOUS
    <2>1. Types /\ Upward /\ Booked /\ Downward
      BY DEF IInv
    <2>2. CASE got' = got
      BY <2>2
    <2>3. ASSUME NEW a \in Accounts, ServerReceives(a) PROVE Right
      <3> DEFINE p == Head(toServer[a])
      <3>1. /\ toServer[a] # <<>> /\ p.kind \in FileKinds /\ job[p.of].to \in {Server, All}
            /\ HandleFile(Server, p)
        BY <2>3 DEF ServerReceives, ServerReads
      <3>2. p.of \in Transfers /\ job[p.of].from = a
        BY <2>1, <3>1, HeadUp DEF IsFile, FileKinds
      <3>3. Server \in Receivers(p.of)
        BY <3>1, <3>2, IdsAssumption DEF Receivers, Machines
      <3> HIDE DEF p
      <3> QED
        BY <3>1, <3>3, HandledExactly
    <2>4. ASSUME NEW a \in Accounts, ClientReceives(a) PROVE Right
      <3> DEFINE p == Head(toClient[a])
      <3>1. toClient[a] # <<>> /\ p.kind \in FileKinds /\ HandleFile(a, p)
        BY <2>4 DEF ClientReceives, ClientReads
      <3>2. a \in Receivers(p.of)
        BY <2>1, <3>1, HeadDown DEF FileKinds
      <3> HIDE DEF p
      <3> QED
        BY <3>1, <3>2, HandledExactly
    <2>5. \/ got' = got
          \/ \E a \in Accounts : ServerReceives(a) \/ ClientReceives(a)
      BY ZenonT(60) DEF Next, ServerStep, ClientStep, ClientSendsNext, ServerSendsNext, Relay, EchoError,
             ServerCannotReceive, ClientCannotReceive, CannotHandleFile, HandleFileSending,
             Replay, HandleFileError, Keepalive, Drop, CloseConnection, Login, disk
    <2> QED
      BY <2>2, <2>3, <2>4, <2>5
  <1> QED
    BY <1>1, Invariance, PTL DEF Spec, ReceivedIsExact

=============================================================================
