-------------------------- MODULE DataRelayProofs --------------------------
(* Proofs about the data relay, for any accounts, payloads, channel sizes and *)
(* numbers of lost connections, repeats and sweeps.                           *)
EXTENDS DataRelay, TLAPS

Duties == [step : {"read", "forward", "broadcast"}, packet : Packets,
           left : SUBSET Accounts]
SlotValues == [shape : {"mapping", "bare"}, dests : SUBSET Accounts, packet : Packets]
Messages == [key : Accounts, packet : Packets]

\* The two directions of a connection, without their order.
Down(a) == ToSet(toClient[a])
Up(a) == ToSet(toServer[a])

-----------------------------------------------------------------------------
(* The inductive invariant                                                    *)

Types ==
    /\ link \in [Accounts -> {"up", "down", "dead"}]
    /\ connected = {a \in Accounts : link[a] # "down"}
    /\ connected \subseteq remembered /\ remembered \subseteq Accounts
    /\ lists \in [Accounts -> SUBSET Accounts]
    /\ pending \in [Accounts -> Packets]
    /\ duty \in [Accounts -> Duties] /\ call \in Duties
    /\ DOMAIN slots \subseteq Accounts
    /\ \A a \in DOMAIN slots : slots[a] \in SlotValues
    /\ sweep \subseteq Accounts \X SlotValues
    /\ toClient \in [Accounts -> Seq(Messages)]
    /\ toServer \in [Accounts -> Seq(Packets)]
    /\ sent \in [Bodies -> [from : Accounts \cup {Plugins, Nobody},
                            to : Accounts \cup {Plugins, All, Nobody}]]
    /\ got \subseteq (Accounts \cup {Plugins}) \X Bodies
    /\ owed \subseteq Accounts \X Bodies

\* Nothing is in flight on a connection that is not up.
Quiet ==
    \A a \in Accounts : link[a] # "up" =>
        Down(a) = {} /\ Up(a) = {} /\ pending[a] = NoPacket

\* A data packet as it was sent; only an unstable payload can fail its check.
DataOK(p) ==
    /\ p.type = "data" /\ p.body \in Bodies
    /\ p.to \in Accounts \cup {Plugins, All}
    /\ sent[p.body].from # Nobody /\ sent[p.body].to = p.to
    /\ ~p.valid => p.body \in Unstable

ControlOK(p) ==
    /\ p.type \in {"sendok", "error", "new_login", "del_login"}
    /\ p.to \in Accounts /\ p.body = Nobody

For(a, p) == DataOK(p) /\ (p.to = a \/ (p.to = All /\ sent[p.body].from # a))
From(a, p) == DataOK(p) /\ sent[p.body].from = a

SlotFor(a, slot) == For(a, slot.packet) /\ (slot.shape = "bare" \/ a \in slot.dests)

Stored ==
    /\ \A a \in DOMAIN slots : SlotFor(a, slots[a])
    /\ \A s \in sweep : SlotFor(s[1], s[2])

\* A broadcast never aims at its sender.
Relays(a, work) ==
    \/ work = Idle
    \/ /\ work.step = "forward" /\ work.left = {}
       /\ DataOK(work.packet) /\ work.packet.to \in Accounts
    \/ /\ work.step = "broadcast" /\ a \notin work.left
       /\ From(a, work.packet) /\ work.packet.to = All

Working ==
    /\ \A a \in Accounts : Relays(a, duty[a])
    /\ call = Idle \/ (call.step = "broadcast" /\ Relays(Plugins, call))

Channels ==
    \A a \in Accounts :
        /\ \A m \in Down(a) : For(m.key, m.packet) \/ ControlOK(m.packet)
        /\ \A p \in Up(a) : From(a, p) \/ ControlOK(p)
        /\ pending[a] = NoPacket \/ From(a, pending[a])

Delivered ==
    \A w \in got :
        LET s == sent[w[2]]
        IN  s.from # Nobody /\ (w[1] = s.to \/ (s.to = All /\ w[1] # s.from))

\* Where the server has what it owes.
InChannel(t, d) == \E m \in Down(t) : m.key = t /\ m.packet.body = d
InSlot(t, d) == t \in DOMAIN slots /\ slots[t].packet.body = d
InSweep(t, d) == \E s \in sweep : s[1] = t /\ s[2].packet.body = d
Sends(work, t, d) == Aimed(work, t) /\ work.packet.body = d
InWork(t, d) == Sends(call, t, d) \/ \E a \in Accounts : Sends(duty[a], t, d)

Traffic(t, d) == InChannel(t, d) \/ InWork(t, d) \/ InSweep(t, d)
Acknowledged(t) == \E p \in Up(t) : p.type = "sendok"

\* Without a connection only the slot counts: what is sent then is gone.  With
\* one, the slot only counts as long as no acknowledgement but the body's own
\* can reach the server.
Safe(t, d) ==
    IF link[t] = "up"
    THEN \/ InChannel(t, d) \/ InWork(t, d)
         \/ /\ InSlot(t, d) /\ ~Acknowledged(t)
            /\ \A b \in Bodies : Traffic(t, b) => b = d
    ELSE InSlot(t, d)

Done(t, d) == <<t, d>> \in got \/ d \in Unstable

Owing == \A t \in Accounts, d \in Bodies : <<t, d>> \in owed => Done(t, d) \/ Safe(t, d)

IInv == Types /\ Quiet /\ Stored /\ Working /\ Channels /\ Delivered /\ Owing

-----------------------------------------------------------------------------
(* Channels as sets                                                           *)

LEMMA ToSetEmpty == ToSet(<<>>) = {}
  BY DEF ToSet

LEMMA ToSetElements ==
  ASSUME NEW S, NEW s \in Seq(S)
  PROVE  ToSet(s) \subseteq S
  BY DEF ToSet

LEMMA ToSetAppend ==
  ASSUME NEW S, NEW s \in Seq(S), NEW e \in S
  PROVE  /\ Append(s, e) \in Seq(S)
         /\ ToSet(Append(s, e)) = ToSet(s) \cup {e}
  <1>1. /\ Append(s, e) \in Seq(S) /\ Len(Append(s, e)) = Len(s) + 1
        /\ \A i \in 1..Len(s) : Append(s, e)[i] = s[i]
        /\ Append(s, e)[Len(s) + 1] = e
    OBVIOUS
  <1>2. Len(s) \in Nat /\ DOMAIN s = 1..Len(s) /\ DOMAIN Append(s, e) = 1..Len(s) + 1
    BY <1>1
  <1>3. 1..Len(s) + 1 = 1..Len(s) \cup {Len(s) + 1}
    BY <1>2
  <1> QED
    BY <1>1, <1>2, <1>3 DEF ToSet

LEMMA ToSetTail ==
  ASSUME NEW S, NEW s \in Seq(S), s # <<>>
  PROVE  /\ Head(s) \in S /\ Tail(s) \in Seq(S)
         /\ ToSet(s) = {Head(s)} \cup ToSet(Tail(s))
  <1>1. /\ Head(s) \in S /\ Tail(s) \in Seq(S) /\ Len(s) \in Nat \ {0}
        /\ Head(s) = s[1] /\ DOMAIN s = 1..Len(s) /\ DOMAIN Tail(s) = 1..Len(s) - 1
        /\ \A i \in 1..Len(s) - 1 : Tail(s)[i] = s[i + 1]
    OBVIOUS
  <1>2. \A i \in 1..Len(s) : i = 1 \/ (i - 1 \in 1..Len(s) - 1 /\ (i - 1) + 1 = i)
    BY <1>1
  <1>3. 1 \in 1..Len(s) /\ \A i \in 1..Len(s) - 1 : i + 1 \in 1..Len(s)
    BY <1>1
  <1>4. ToSet(s) \subseteq {Head(s)} \cup ToSet(Tail(s))
    <2> SUFFICES ASSUME NEW i \in 1..Len(s) PROVE s[i] \in {Head(s)} \cup ToSet(Tail(s))
      BY <1>1 DEF ToSet
    <2>1. CASE i = 1
      BY <1>1, <2>1
    <2>2. CASE i - 1 \in 1..Len(s) - 1 /\ (i - 1) + 1 = i
      <3>1. s[i] = Tail(s)[i - 1]
        BY <1>1, <2>2
      <3> QED
        BY <1>1, <2>2, <3>1 DEF ToSet
    <2> QED
      BY <1>2, <2>1, <2>2
  <1>5. {Head(s)} \cup ToSet(Tail(s)) \subseteq ToSet(s)
    BY <1>1, <1>3 DEF ToSet
  <1> QED
    BY <1>1, <1>4, <1>5

\* A channel of the network, as its type says.
Typed(channels, S) == channels \in [Accounts -> Seq(S)]

\* What the actions do to the two directions.
LEMMA ArrivesSets ==
  ASSUME Typed(toClient, Messages), NEW a \in Accounts, NEW key \in Accounts,
         NEW p \in Packets, toClient' = Arrives(toClient, a, key, p)
  PROVE  /\ Typed(toClient', Messages)
         /\ \A x \in Accounts :
               Down(x)' = Down(x) \cup (IF x = a /\ link[a] = "up"
                                        THEN {Envelope(key, p)} ELSE {})
  <1> DEFINE e == Envelope(key, p)
  <1>1. e \in Messages
    BY DEF Envelope, Messages
  <1>2. \A x \in Accounts : /\ toClient[x] \in Seq(Messages)
                            /\ Append(toClient[x], e) \in Seq(Messages)
                            /\ ToSet(Append(toClient[x], e)) = ToSet(toClient[x]) \cup {e}
    BY <1>1, ToSetAppend DEF Typed
  <1>3. CASE link[a] = "up"
    <2>1. toClient' = [toClient EXCEPT ![a] = Append(@, e)]
      BY <1>3 DEF Arrives
    <2> HIDE DEF e
    <2>2. toClient'[a] = Append(toClient[a], e) /\ \A x \in Accounts \ {a} : toClient'[x] = toClient[x]
      BY <2>1 DEF Typed
    <2>3. Typed(toClient', Messages)
      BY <2>1, <1>2 DEF Typed
    <2> QED
      BY <2>2, <2>3, <1>2, <1>3 DEF Down, e
  <1>4. CASE link[a] # "up"
    BY <1>4 DEF Arrives, Down
  <1> QED
    BY <1>3, <1>4

LEMMA AnnounceSets ==
  ASSUME Typed(toClient, Messages), NEW accounts, NEW p \in Packets,
         toClient' = Announce(toClient, accounts, p)
  PROVE  /\ Typed(toClient', Messages)
         /\ \A x \in Accounts :
               Down(x)' = Down(x) \cup (IF x \in accounts /\ link'[x] = "up"
                                        THEN {Envelope(x, p)} ELSE {})
  <1>1. \A x \in Accounts :
           /\ toClient[x] \in Seq(Messages)
           /\ Append(toClient[x], Envelope(x, p)) \in Seq(Messages)
           /\ ToSet(Append(toClient[x], Envelope(x, p))) = ToSet(toClient[x]) \cup {Envelope(x, p)}
    <2> TAKE x \in Accounts
    <2>1. Envelope(x, p) \in Messages /\ toClient[x] \in Seq(Messages)
      BY DEF Envelope, Messages, Typed
    <2> QED
      BY <2>1, ToSetAppend
  <1>2. \A x \in Accounts :
           toClient'[x] = IF x \in accounts /\ link'[x] = "up"
                          THEN Append(toClient[x], Envelope(x, p)) ELSE toClient[x]
    BY DEF Announce
  <1>3. Typed(toClient', Messages)
    BY <1>1 DEF Typed, Announce
  <1> QED
    BY <1>1, <1>2, <1>3 DEF Down

LEMMA ClientReadsSets ==
  ASSUME Typed(toClient, Messages), NEW a \in Accounts, ClientReads(a)
  PROVE  /\ Typed(toClient', Messages)
         /\ Head(toClient[a]) \in Messages
         /\ Down(a) = {Head(toClient[a])} \cup Down(a)'
         /\ \A x \in Accounts \ {a} : Down(x)' = Down(x)
  <1>1. toClient[a] \in Seq(Messages) /\ toClient[a] # <<>>
    BY DEF Typed, ClientReads
  <1>2. /\ Head(toClient[a]) \in Messages /\ Tail(toClient[a]) \in Seq(Messages)
        /\ ToSet(toClient[a]) = {Head(toClient[a])} \cup ToSet(Tail(toClient[a]))
    BY <1>1, ToSetTail
  <1>3. /\ toClient'[a] = Tail(toClient[a])
        /\ \A x \in Accounts \ {a} : toClient'[x] = toClient[x]
    BY DEF Typed, ClientReads
  <1>4. Typed(toClient', Messages)
    BY <1>2 DEF Typed, ClientReads
  <1> QED
    BY <1>2, <1>3, <1>4 DEF Down

LEMMA ServerReadsSets ==
  ASSUME Typed(toServer, Packets), NEW a \in Accounts, ServerReads(a)
  PROVE  /\ Typed(toServer', Packets)
         /\ Received(a) \in Packets
         /\ Up(a) = {Received(a)} \cup Up(a)'
         /\ \A x \in Accounts \ {a} : Up(x)' = Up(x)
  <1>1. toServer[a] \in Seq(Packets) /\ toServer[a] # <<>>
    BY DEF Typed, ServerReads
  <1>2. /\ Head(toServer[a]) \in Packets /\ Tail(toServer[a]) \in Seq(Packets)
        /\ ToSet(toServer[a]) = {Head(toServer[a])} \cup ToSet(Tail(toServer[a]))
    BY <1>1, ToSetTail
  <1>3. /\ toServer'[a] = Tail(toServer[a])
        /\ \A x \in Accounts \ {a} : toServer'[x] = toServer[x]
    BY DEF Typed, ServerReads
  <1>4. Typed(toServer', Packets)
    BY <1>2 DEF Typed, ServerReads
  <1> QED
    BY <1>2, <1>3, <1>4 DEF Up, Received

LEMMA ToServerSets ==
  ASSUME Typed(toServer, Packets), NEW a \in Accounts, NEW p \in Packets, ToServer(a, p)
  PROVE  /\ Typed(toServer', Packets)
         /\ Up(a)' = Up(a) \cup {p}
         /\ \A x \in Accounts \ {a} : Up(x)' = Up(x)
  <1>1. /\ Append(toServer[a], p) \in Seq(Packets)
        /\ ToSet(Append(toServer[a], p)) = ToSet(toServer[a]) \cup {p}
    BY ToSetAppend DEF Typed
  <1>2. /\ toServer'[a] = Append(toServer[a], p)
        /\ \A x \in Accounts \ {a} : toServer'[x] = toServer[x]
    BY DEF Typed, ToServer
  <1>3. Typed(toServer', Packets)
    BY <1>1 DEF Typed, ToServer
  <1> QED
    BY <1>1, <1>2, <1>3 DEF Up

-----------------------------------------------------------------------------
(* Packets                                                                    *)

LEMMA PacketFacts ==
  /\ NoPacket \in Packets /\ NoPacket.type = "none"
  /\ NoPacket.to = Nobody /\ NoPacket.body = Nobody
  /\ \A t \in Accounts \cup {Plugins, All}, d \in Bodies :
        LET p == DataSend(t, d)
        IN  /\ p \in Packets /\ p.type = "data" /\ p.to = t /\ p.body = d
            /\ ~p.valid => d \in Unstable
  /\ \A type \in {"sendok", "error", "new_login", "del_login"}, a \in Accounts :
        LET p == Control(type, a)
        IN  p \in Packets /\ ControlOK(p) /\ p.type = type
  /\ \A p \in Packets :
        /\ Relayed(p) \in Packets /\ Relayed(p).type = p.type /\ Relayed(p).valid
        /\ Relayed(p).to = p.to /\ Relayed(p).body = p.body
  BY DEF Packets, NoPacket, Packet, DataSend, Control, ControlOK, Relayed

LEMMA RelayedOK ==
  ASSUME NEW p \in Packets
  PROVE  /\ DataOK(p) => DataOK(Relayed(p))
         /\ \A a : For(a, p) => For(a, Relayed(p))
         /\ \A a : From(a, p) => From(a, Relayed(p))
  BY PacketFacts DEF DataOK, For, From

LEMMA WorkFacts ==
  /\ Idle \in Duties /\ Idle.step = "read" /\ Idle.left = {} /\ Idle.packet = NoPacket
  /\ \A p \in Packets :
        LET w == Forwarding(p)
        IN  w \in Duties /\ w.step = "forward" /\ w.packet = p /\ w.left = {}
  /\ \A p \in Packets, dests \in SUBSET Accounts :
        LET w == Broadcasting(p, dests)
        IN  w \in Duties /\ w.step = "broadcast" /\ w.packet = p /\ w.left = dests
  BY PacketFacts DEF Idle, Forwarding, Broadcasting, Duties

\* Data packets and control packets are told apart by their bodies as well.
LEMMA DataIsNotControl ==
  ASSUME NEW p
  PROVE  /\ DataOK(p) => p.body # Nobody /\ p.type = "data" /\ ~ControlOK(p)
         /\ ControlOK(p) => p.type # "data"
  BY BodiesAssumption DEF DataOK, ControlOK

\* A body is sent once: who sent it to whom does not change.
SentOnce == \A d \in Bodies : sent[d].from # Nobody => sent'[d] = sent[d]

LEMMA SentStays ==
  ASSUME SentOnce
  PROVE  /\ \A p : DataOK(p) => DataOK(p)'
         /\ \A a, p : For(a, p) => For(a, p)'
         /\ \A a, p : From(a, p) => From(a, p)'
         /\ \A a, slot : SlotFor(a, slot) => SlotFor(a, slot)'
         /\ \A a, work : Relays(a, work) => Relays(a, work)'
  <1>1. \A p : DataOK(p) => DataOK(p)'
    BY DEF SentOnce, DataOK
  <1>2. \A a, p : For(a, p) => For(a, p)'
    BY <1>1 DEF SentOnce, DataOK, For
  <1>3. \A a, p : From(a, p) => From(a, p)'
    BY <1>1 DEF SentOnce, DataOK, From
  <1> QED
    BY <1>1, <1>2, <1>3 DEF SlotFor, Relays

-----------------------------------------------------------------------------
(* What a step may leave alone                                                *)

LEMMA StoredKept ==
  ASSUME Stored, SentOnce, sweep' \subseteq sweep,
         \A a \in DOMAIN slots' : a \in DOMAIN slots /\ slots'[a] = slots[a]
  PROVE  Stored'
  BY SentStays DEF Stored

LEMMA WorkingKept ==
  ASSUME Working, SentOnce, UNCHANGED <<duty, call>>
  PROVE  Working'
  BY SentStays DEF Working

LEMMA ChannelsKept ==
  ASSUME Channels, SentOnce,
         \A a \in Accounts :
            /\ \A m \in Down(a)' : m \in Down(a) \/ For(m.key, m.packet)' \/ ControlOK(m.packet)
            /\ \A p \in Up(a)' : p \in Up(a) \/ From(a, p)' \/ ControlOK(p)
            /\ pending'[a] = pending[a] \/ pending'[a] = NoPacket \/ From(a, pending[a])'
  PROVE  Channels'
  <1> SUFFICES ASSUME NEW a \in Accounts
               PROVE  /\ \A m \in Down(a)' : For(m.key, m.packet)' \/ ControlOK(m.packet)
                      /\ \A p \in Up(a)' : From(a, p)' \/ ControlOK(p)
                      /\ pending'[a] = NoPacket \/ From(a, pending[a])'
    BY DEF Channels, ControlOK
  <1>1. \A m \in Down(a)' : For(m.key, m.packet)' \/ ControlOK(m.packet)
    BY SentStays DEF Channels
  <1>2. \A p \in Up(a)' : From(a, p)' \/ ControlOK(p)
    BY SentStays DEF Channels
  <1>3. pending'[a] = NoPacket \/ From(a, pending[a])'
    BY SentStays DEF Channels
  <1> QED
    BY <1>1, <1>2, <1>3

\* A body may be received once more, by one whom it is for.
Expects(t, d) ==
    /\ d \in Bodies /\ sent[d].from # Nobody
    /\ t = sent[d].to \/ (sent[d].to = All /\ t # sent[d].from)

LEMMA DeliveredStays ==
  ASSUME Types, Delivered, SentOnce, NEW t, NEW d,
         got' = got \/ (got' = got \cup {<<t, d>>} /\ Expects(t, d))
  PROVE  Delivered'
  <1> SUFFICES ASSUME NEW w \in got' PROVE Expects(w[1], w[2])'
    BY DEF Delivered, Expects
  <1>1. Expects(w[1], w[2])
    BY DEF Types, Delivered, Expects
  <1> QED
    BY <1>1 DEF Expects, SentOnce

\* A pair that is owed stays so, when a step drops no message to the account
\* unread, adds only traffic that was under way or in the slot, and empties the
\* slot only for an acknowledgement.
LEMMA StaysSafe ==
  ASSUME NEW t \in Accounts, NEW d \in Bodies, Safe(t, d), link'[t] = link[t],
         InChannel(t, d) => InChannel(t, d)' \/ Done(t, d)',
         link[t] = "up" /\ InWork(t, d) => InWork(t, d)' \/ InChannel(t, d)',
         InSlot(t, d) =>
            /\ InSlot(t, d)' \/ (link[t] = "up" /\ Acknowledged(t))
            /\ link[t] = "up" =>
                /\ \A b \in Bodies : Traffic(t, b)' => Traffic(t, b) \/ InSlot(t, b)
                /\ Acknowledged(t)' =>
                      \/ Acknowledged(t)
                      \/ \E b \in Bodies : InChannel(t, b) /\ Done(t, b)'
  PROVE  Done(t, d)' \/ Safe(t, d)'
  <1>1. CASE link[t] # "up"
    BY <1>1 DEF Safe
  <1>2. CASE link[t] = "up" /\ (InChannel(t, d) \/ InWork(t, d))
    BY <1>2 DEF Safe
  <1>3. CASE link[t] = "up" /\ ~(InChannel(t, d) \/ InWork(t, d))
    <2>1. InSlot(t, d) /\ ~Acknowledged(t) /\ \A b \in Bodies : Traffic(t, b) => b = d
      BY <1>3 DEF Safe
    <2>2. InSlot(t, d)' /\ \A b \in Bodies : Traffic(t, b)' => b = d
      BY <1>3, <2>1 DEF InSlot
    <2>3. CASE Acknowledged(t)'
      <3>1. PICK b \in Bodies : InChannel(t, b) /\ Done(t, b)'
        BY <1>3, <2>1, <2>3
      <3>2. b = d
        BY <3>1, <2>1 DEF Traffic
      <3> QED
        BY <3>1, <3>2
    <2>4. CASE ~Acknowledged(t)'
      BY <1>3, <2>2, <2>4 DEF Safe
    <2> QED
      BY <2>3, <2>4
  <1> QED
    BY <1>1, <1>2, <1>3

\* The same for all pairs, when the slots of some accounts may get another
\* packet and some pairs become owed.
LEMMA OwingKept ==
  ASSUME IInv, NEW accounts \in SUBSET Accounts, NEW pairs,
         link' = link, got \subseteq got', owed' \subseteq Owed(pairs, accounts),
         \A t \in Accounts, d \in Bodies : <<t, d>> \in pairs => Done(t, d)' \/ Safe(t, d)',
         \A t \in Accounts, d \in Bodies :
            /\ InChannel(t, d) => InChannel(t, d)' \/ Done(t, d)'
            /\ link[t] = "up" /\ InWork(t, d) => InWork(t, d)' \/ InChannel(t, d)',
         \A t \in Accounts \ accounts, d \in Bodies :
            /\ InSlot(t, d) => InSlot(t, d)' \/ (link[t] = "up" /\ Acknowledged(t))
            /\ link[t] = "up" => (Traffic(t, d)' => Traffic(t, d) \/ InSlot(t, d)),
         \A t \in Accounts \ accounts :
            Acknowledged(t)' => \/ Acknowledged(t)
                                \/ \E b \in Bodies : InChannel(t, b) /\ Done(t, b)'
  PROVE  Owing'
  <1> SUFFICES ASSUME NEW t \in Accounts, NEW d \in Bodies, <<t, d>> \in owed'
               PROVE  Done(t, d)' \/ Safe(t, d)'
    BY DEF Owing
  <1>1. CASE <<t, d>> \in pairs
    BY <1>1
  <1>2. CASE <<t, d>> \in owed \ Held(accounts)
    <2>1. Done(t, d) \/ Safe(t, d)
      BY <1>2 DEF IInv, Owing
    <2>2. Done(t, d) => Done(t, d)'
      BY DEF Done
    <2>3. t \in accounts => ~InSlot(t, d)
      BY <1>2 DEF Held, InSlot
    <2>4. Safe(t, d) => Done(t, d)' \/ Safe(t, d)'
      <3>1. CASE t \in accounts
        BY <3>1, <2>3, StaysSafe
      <3>2. CASE t \notin accounts
        BY <3>2, StaysSafe
      <3> QED
        BY <3>1, <3>2
    <2> QED
      BY <2>1, <2>2, <2>4
  <1> QED
    BY <1>1, <1>2 DEF Owed

LEMMA InitIInv == Init => IInv
  <1> SUFFICES ASSUME Init PROVE IInv
    OBVIOUS
  <1>1. \A a \in Accounts : Down(a) = {} /\ Up(a) = {} /\ pending[a] = NoPacket
    BY ToSetEmpty DEF Init, Down, Up
  <1>2. Types
    <2>1. PICK place \in Bijection(Accounts, 1..Cardinality(Accounts)) :
             lists = [a \in Accounts |-> {b \in Accounts : place[b] >= place[a]}]
      BY DEF Init
    <2>2. lists \in [Accounts -> SUBSET Accounts]
      BY <2>1
    <2>3. /\ pending \in [Accounts -> Packets] /\ duty \in [Accounts -> Duties]
          /\ call \in Duties
      BY PacketFacts, WorkFacts DEF Init
    <2>4. toClient \in [Accounts -> Seq(Messages)] /\ toServer \in [Accounts -> Seq(Packets)]
      BY DEF Init
    <2>5. DOMAIN slots = {} /\ sweep = {} /\ got = {} /\ owed = {}
      BY DEF Init
    <2>6. /\ link \in [Accounts -> {"up", "down", "dead"}]
          /\ connected = {a \in Accounts : link[a] # "down"} /\ remembered = Accounts
      BY DEF Init
    <2>7. sent \in [Bodies -> [from : Accounts \cup {Plugins, Nobody},
                               to : Accounts \cup {Plugins, All, Nobody}]]
      BY DEF Init
    <2> QED
      BY <2>2, <2>3, <2>4, <2>5, <2>6, <2>7 DEF Types
  <1>3. DOMAIN slots = {} /\ sweep = {} /\ got = {} /\ owed = {}
    BY DEF Init
  <1>4. Quiet /\ Channels
    BY <1>1 DEF Quiet, Channels
  <1>5. Stored /\ Delivered /\ Owing
    BY <1>3 DEF Stored, Delivered, Owing
  <1>6. Working
    BY DEF Init, Working, Relays
  <1> QED
    BY <1>2, <1>4, <1>5, <1>6 DEF IInv

-----------------------------------------------------------------------------
(* The client                                                                 *)

LEMMA TypedChannels ==
  ASSUME Types
  PROVE  Typed(toClient, Messages) /\ Typed(toServer, Packets)
  BY DEF Types, Typed

\* Only open connections have anything to read.
LEMMA ReadFacts ==
  ASSUME IInv, NEW a \in Accounts, ClientReads(a)
  PROVE  /\ link[a] = "up"
         /\ Head(toClient[a]) \in Down(a) /\ Head(toClient[a]) \in Messages
         /\ Incoming(a) \in Packets
         /\ Readable(a) => For(a, Incoming(a)) \/ ControlOK(Incoming(a))
         /\ Typed(toClient', Messages)
         /\ \A x \in Accounts : Down(x)' \subseteq Down(x)
         /\ \A t \in Accounts, d \in Bodies :
               /\ InChannel(t, d)' => InChannel(t, d)
               /\ InChannel(t, d) =>
                     \/ InChannel(t, d)'
                     \/ t = a /\ Readable(a) /\ Incoming(a).body = d
  <1> DEFINE h == Head(toClient[a])
  <1>1. /\ Typed(toClient', Messages)
        /\ h \in Messages
        /\ Down(a) = {h} \cup Down(a)'
        /\ \A x \in Accounts \ {a} : Down(x)' = Down(x)
    BY TypedChannels, ClientReadsSets DEF IInv
  <1>2. h \in Down(a) /\ \A x \in Accounts : Down(x)' \subseteq Down(x)
    BY <1>1
  <1>3. link[a] = "up"
    BY <1>2 DEF IInv, Quiet
  <1>4. For(h.key, h.packet) \/ ControlOK(h.packet)
    BY <1>2 DEF IInv, Channels
  <1>5. Incoming(a) = h.packet /\ (Readable(a) <=> h.key = a)
    BY DEF Incoming, Readable
  <1>6. Incoming(a) \in Packets
    BY <1>1, <1>5 DEF Messages
  <1>7. \A t \in Accounts, d \in Bodies :
               /\ InChannel(t, d)' => InChannel(t, d)
               /\ InChannel(t, d) =>
                     \/ InChannel(t, d)'
                     \/ t = a /\ Readable(a) /\ Incoming(a).body = d
    <2> TAKE t \in Accounts, d \in Bodies
    <2>1. InChannel(t, d)' <=> \E m \in Down(t)' : m.key = t /\ m.packet.body = d
      BY DEF InChannel
    <2> HIDE DEF h
    <2>2. CASE t = a
      BY <1>1, <1>5, <2>1, <2>2 DEF InChannel
    <2>3. CASE t # a
      BY <1>1, <2>1, <2>3 DEF InChannel
    <2> QED
      BY <2>2, <2>3
  <1> QED
    BY <1>1, <1>2, <1>3, <1>4, <1>5, <1>6, <1>7

\* A message that was read is no longer needed: it is for somebody else, says
\* nothing of a body, or its body has arrived or never can.
LEMMA ReadOwing ==
  ASSUME IInv, NEW a \in Accounts, ClientReads(a),
         UNCHANGED <<serverVars, link, sent, owed>>, got \subseteq got',
         \A d \in Bodies : Readable(a) /\ Incoming(a).body = d => Done(a, d)',
         \A x \in Accounts : \A p \in Up(x)' :
            \/ p \in Up(x) \/ p.type # "sendok"
            \/ x = a /\ Readable(a) /\ Incoming(a).body \in Bodies
  PROVE  Owing'
  <1> USE DEF serverVars
  <1>1. \A t \in Accounts, d \in Bodies :
           /\ InSlot(t, d)' <=> InSlot(t, d)
           /\ InWork(t, d)' <=> InWork(t, d)
           /\ InSweep(t, d)' <=> InSweep(t, d)
    BY DEF InSlot, InWork, InSweep, Sends, Aimed
  <1>2. \A t \in Accounts, d \in Bodies :
           /\ InChannel(t, d)' => InChannel(t, d)
           /\ InChannel(t, d) => InChannel(t, d)' \/ Done(t, d)'
    BY ReadFacts
  <1>3. ASSUME NEW t \in Accounts, Acknowledged(t)', ~Acknowledged(t)
        PROVE  \E b \in Bodies : InChannel(t, b) /\ Done(t, b)'
    <2>1. t = a /\ Readable(a) /\ Incoming(a).body \in Bodies
      BY <1>3 DEF Acknowledged
    <2>2. InChannel(a, Incoming(a).body)
      BY <2>1, ReadFacts DEF InChannel, Incoming, Readable
    <2> DEFINE b == Incoming(a).body
    <2>3. InChannel(t, b) /\ b \in Bodies
      BY <2>1, <2>2
    <2> HIDE DEF b
    <2> QED
      BY <2>1, <2>3 DEF b
  <1>4. owed' \subseteq Owed({}, {})
    BY DEF Owed, Held
  <1>5. \A t \in Accounts, d \in Bodies : Traffic(t, d)' => Traffic(t, d)
    BY <1>1, <1>2 DEF Traffic
  <1> QED
    <2>1. \A t \in Accounts : Acknowledged(t)' =>
             \/ Acknowledged(t)
             \/ \E b \in Bodies : InChannel(t, b) /\ Done(t, b)'
      BY <1>3
    <2> HIDE DEF serverVars
    <2>2. {} \in SUBSET Accounts
      OBVIOUS
    <2> QED
      BY <1>1, <1>2, <1>4, <1>5, <2>1, <2>2, OwingKept

\* What reading a message may do besides: change the client's own state, answer
\* with at most one packet, and hand at most one body to the plugins.
LEMMA ReadKeeps ==
  ASSUME IInv, NEW a \in Accounts, ClientReads(a),
         UNCHANGED <<serverVars, link, sent, owed>>,
         lists' \in [Accounts -> SUBSET Accounts], pending' \in [Accounts -> Packets],
         \A x \in Accounts : pending'[x] \in {pending[x], NoPacket},
         Typed(toServer', Packets), NEW answer,
         From(a, answer) \/ ControlOK(answer),
         \A x \in Accounts : Up(x)' \subseteq Up(x) \cup {p \in {answer} : x = a},
         NEW body,
         got' = got \/ (got' = got \cup {<<a, body>>} /\ Expects(a, body)),
         \A d \in Bodies : Readable(a) /\ Incoming(a).body = d => Done(a, d)',
         answer.type = "sendok" => Readable(a) /\ Incoming(a).body \in Bodies
  PROVE  IInv'
  <1>1. /\ link[a] = "up" /\ Typed(toClient', Messages)
        /\ \A x \in Accounts : Down(x)' \subseteq Down(x)
    BY ReadFacts
  <1>2. SentOnce
    BY DEF SentOnce
  <1>3. got' \subseteq (Accounts \cup {Plugins}) \X Bodies
    BY DEF IInv, Types, Expects
  <1>4. Types'
    BY <1>1, <1>3 DEF IInv, Types, Typed, serverVars
  <1>5. Quiet'
    BY <1>1 DEF IInv, Quiet
  <1>6. Stored' /\ Working'
    BY <1>2, StoredKept, WorkingKept DEF IInv, serverVars
  <1>7. Channels'
    <2>1. ASSUME NEW x \in Accounts, NEW p \in Up(x)'
          PROVE  p \in Up(x) \/ From(x, p)' \/ ControlOK(p)
      BY <1>2, SentStays
    <2> QED
      BY <1>1, <1>2, <2>1, ChannelsKept DEF IInv
  <1>8. Delivered'
    BY <1>2, DeliveredStays DEF IInv
  <1>9. Owing'
    BY ReadOwing
  <1> QED
    BY <1>4, <1>5, <1>6, <1>7, <1>8, <1>9 DEF IInv

\* Messages that are not data, or not for the account, have nobody's body.
LEMMA NoBody ==
  ASSUME IInv, NEW a \in Accounts, ClientReads(a), Incoming(a).type # "data" \/ ~Readable(a)
  PROVE  \A d \in Bodies : ~(Readable(a) /\ Incoming(a).body = d)
  BY ReadFacts, BodiesAssumption DEF For, DataOK, ControlOK

LEMMA ReceiveSilentKeeps ==
  ASSUME IInv, NEW a \in Accounts,
         ReceiveUnreadable(a) \/ ReceiveNotice(a) \/ ReceiveSendOk(a)
  PROVE  IInv'
  <1>1. /\ ClientReads(a) /\ UNCHANGED <<serverVars, link, toServer, sent, got, owed>>
        /\ Incoming(a).type # "data" \/ ~Readable(a)
    BY DEF ReceiveUnreadable, ReceiveNotice, ReceiveSendOk, history
  <1>2. /\ pending' \in [Accounts -> Packets]
        /\ \A x \in Accounts : pending'[x] \in {pending[x], NoPacket}
    <2>1. pending' = pending \/ pending' = [pending EXCEPT ![a] = NoPacket]
      BY DEF ReceiveUnreadable, ReceiveNotice, ReceiveSendOk, clientVars
    <2>2. pending \in [Accounts -> Packets] /\ NoPacket \in Packets
      BY PacketFacts DEF IInv, Types
    <2> QED
      BY <2>1, <2>2
  <1>3. lists' \in [Accounts -> SUBSET Accounts]
    <2> lists \in [Accounts -> SUBSET Accounts]
      BY DEF IInv, Types
    <2>1. CASE Readable(a) /\ Incoming(a).type \in {"new_login", "del_login"}
      <3>1. Incoming(a).to \in Accounts
        BY <1>1, <2>1, ReadFacts DEF For, DataOK, ControlOK
      <3>2. \/ lists' = [lists EXCEPT ![a] = @ \cup {Incoming(a).to}]
            \/ lists' = [lists EXCEPT ![a] = @ \ {Incoming(a).to}]
            \/ lists' = lists
        BY DEF ReceiveUnreadable, ReceiveNotice, ReceiveSendOk, clientVars
      <3> QED
        BY <3>1, <3>2
    <2>2. CASE ~(Readable(a) /\ Incoming(a).type \in {"new_login", "del_login"})
      <3>1. lists' = lists
        BY <2>2 DEF ReceiveUnreadable, ReceiveNotice, ReceiveSendOk, clientVars
      <3> QED
        BY <3>1
    <2> QED
      BY <2>1, <2>2
  <1>4. Typed(toServer', Packets) /\ \A x \in Accounts : Up(x)' = Up(x)
    BY <1>1, TypedChannels DEF IInv, Up
  <1>5. ControlOK(Control("error", a)) /\ Control("error", a).type = "error"
    BY PacketFacts
  <1> QED
    BY <1>1, <1>2, <1>3, <1>4, <1>5, NoBody, ReadKeeps

LEMMA ReceiveErrorKeeps ==
  ASSUME IInv, NEW a \in Accounts, ReceiveError(a)
  PROVE  IInv'
  <1>1. /\ ClientReads(a) /\ UNCHANGED <<serverVars, link, lists, pending, sent, got, owed>>
        /\ Incoming(a).type # "data"
    BY DEF ReceiveError, clientVars, history
  <1>2. /\ lists' \in [Accounts -> SUBSET Accounts] /\ pending' \in [Accounts -> Packets]
        /\ \A x \in Accounts : pending'[x] \in {pending[x], NoPacket}
    BY <1>1 DEF IInv, Types
  <1>3. CASE pending[a] = NoPacket
    <2>1. Typed(toServer', Packets) /\ \A x \in Accounts : Up(x)' = Up(x)
      BY <1>3, TypedChannels DEF ReceiveError, IInv, Up
    <2>2. ControlOK(Control("error", a)) /\ Control("error", a).type = "error"
      BY PacketFacts
    <2> QED
      BY <1>1, <1>2, <2>1, <2>2, NoBody, ReadKeeps
  <1>4. CASE pending[a] # NoPacket
    <2>1. From(a, pending[a]) /\ pending[a] \in Packets
      BY <1>4 DEF IInv, Channels, Types
    <2>2. ToServer(a, pending[a])
      BY <1>4 DEF ReceiveError
    <2>3. /\ Typed(toServer', Packets)
          /\ \A x \in Accounts : Up(x)' \subseteq Up(x) \cup {p \in {pending[a]} : x = a}
      BY <2>1, <2>2, TypedChannels, ToServerSets DEF IInv
    <2>4. pending[a].type # "sendok"
      BY <2>1 DEF From, DataOK
    <2> QED
      BY <1>1, <1>2, <2>1, <2>3, <2>4, NoBody, ReadKeeps
  <1> QED
    BY <1>3, <1>4

LEMMA ReceiveDataKeeps ==
  ASSUME IInv, NEW a \in Accounts, ReceiveData(a)
  PROVE  IInv'
  <1> DEFINE p == Incoming(a)
             answer == IF p.valid THEN Control("sendok", a) ELSE Control("error", a)
  <1>1. /\ ClientReads(a) /\ Readable(a)
        /\ UNCHANGED <<serverVars, link, lists, pending, sent, owed>>
        /\ p.type = "data" /\ ToServer(a, answer)
        /\ got' = IF p.valid THEN got \cup {<<a, p.body>>} ELSE got
    BY DEF ReceiveData, clientVars
  <1>2. For(a, p)
    BY <1>1, ReadFacts DEF ControlOK
  <1>3. p.body \in Bodies /\ Expects(a, p.body)
    BY <1>2 DEF For, DataOK, Expects
  <1>4. \A d \in Bodies : p.body = d => Done(a, d)'
    <2>1. ~p.valid => p.body \in Unstable
      BY <1>2 DEF For, DataOK
    <2> QED
      BY <1>1, <2>1 DEF Done
  <1>5. answer \in Packets /\ ControlOK(answer)
    BY PacketFacts
  <1>6. /\ Typed(toServer', Packets)
        /\ \A x \in Accounts : Up(x)' \subseteq Up(x) \cup {q \in {answer} : x = a}
    BY <1>1, <1>5, TypedChannels, ToServerSets DEF IInv
  <1>7. /\ lists' \in [Accounts -> SUBSET Accounts] /\ pending' \in [Accounts -> Packets]
        /\ \A x \in Accounts : pending'[x] \in {pending[x], NoPacket}
    BY <1>1 DEF IInv, Types
  <1>8. got' = got \/ (got' = got \cup {<<a, p.body>>} /\ Expects(a, p.body))
    BY <1>1, <1>3
  <1> HIDE DEF answer
  <1> QED
    BY <1>1, <1>3, <1>4, <1>5, <1>6, <1>7, <1>8, ReadKeeps

\* A packet to the server takes nothing away.
LEMMA SendingOwing ==
  ASSUME IInv, UNCHANGED <<slots, duty, call, sweep, link, toClient, got, owed>>,
         \A x \in Accounts : \A p \in Up(x)' : p \in Up(x) \/ p.type # "sendok"
  PROVE  Owing'
  <1>1. \A t \in Accounts, d \in Bodies :
           /\ InSlot(t, d)' <=> InSlot(t, d)
           /\ InWork(t, d)' <=> InWork(t, d)
           /\ InSweep(t, d)' <=> InSweep(t, d)
           /\ InChannel(t, d)' <=> InChannel(t, d)
    BY DEF InSlot, InWork, InSweep, InChannel, Down, Sends, Aimed
  <1>2. \A t \in Accounts : Acknowledged(t)' => Acknowledged(t)
    BY DEF Acknowledged
  <1>3. owed' \subseteq Owed({}, {}) /\ {} \in SUBSET Accounts
    BY DEF Owed, Held
  <1>4. \A t \in Accounts, d \in Bodies : Traffic(t, d)' <=> Traffic(t, d)
    BY <1>1 DEF Traffic
  <1> QED
    BY <1>1, <1>2, <1>3, <1>4, OwingKept

\* An open connection's client sends p, which may be new.
LEMMA UpwardKeeps ==
  ASSUME IInv, NEW a \in Accounts, NEW p \in Packets, link[a] = "up", SentOnce,
         ToServer(a, p), From(a, p)',
         UNCHANGED <<serverVars, link, lists, toClient, got, owed>>,
         sent' \in [Bodies -> [from : Accounts \cup {Plugins, Nobody},
                               to : Accounts \cup {Plugins, All, Nobody}]],
         pending' = pending \/ pending' = [pending EXCEPT ![a] = p]
  PROVE  IInv'
  <1>1. /\ Typed(toServer', Packets)
        /\ Up(a)' = Up(a) \cup {p}
        /\ \A x \in Accounts \ {a} : Up(x)' = Up(x)
    BY TypedChannels, ToServerSets DEF IInv
  <1>2. \A x \in Accounts : Down(x)' = Down(x)
    BY DEF Down
  <1>3. /\ pending' \in [Accounts -> Packets]
        /\ \A x \in Accounts : pending'[x] = pending[x] \/ (x = a /\ pending'[x] = p)
    <2>1. pending \in [Accounts -> Packets]
      BY DEF IInv, Types
    <2> QED
      BY <2>1
  <1>4. p.type = "data"
    BY DEF From, DataOK
  <1>5. Types'
    BY <1>1, <1>3 DEF IInv, Types, Typed, serverVars
  <1>6. Quiet'
    BY <1>1, <1>2, <1>3 DEF IInv, Quiet
  <1>7. Stored' /\ Working'
    BY StoredKept, WorkingKept DEF IInv, serverVars
  <1>8. Channels'
    <2>1. ASSUME NEW x \in Accounts
          PROVE  pending'[x] = pending[x] \/ pending'[x] = NoPacket \/ From(x, pending[x])'
      <3>1. CASE pending'[x] = pending[x]
        BY <3>1
      <3>2. CASE x = a /\ pending'[x] = p
        BY <3>2 DEF From, DataOK
      <3> QED
        BY <1>3, <3>1, <3>2
    <2>2. ASSUME NEW x \in Accounts, NEW q \in Up(x)'
          PROVE  q \in Up(x) \/ From(x, q)' \/ ControlOK(q)
      <3>1. q \in Up(x) \/ (x = a /\ q = p)
        BY <1>1
      <3> QED
        BY <3>1
    <2> QED
      BY <1>2, <2>1, <2>2, ChannelsKept DEF IInv
  <1>9. Delivered'
    BY DeliveredStays DEF IInv
  <1>10. Owing'
    BY <1>1, <1>4, SendingOwing DEF serverVars
  <1> QED
    BY <1>5, <1>6, <1>7, <1>8, <1>9, <1>10 DEF IInv

LEMMA ClientSendKeeps ==
  ASSUME IInv, NEW a \in Accounts, NEW t \in Accounts \cup {Plugins, All}, NEW d \in Bodies,
         ClientSend(a, t, d)
  PROVE  IInv'
  <1>1. /\ link[a] = "up" /\ sent[d].from = Nobody /\ ToServer(a, DataSend(t, d))
        /\ sent' = [sent EXCEPT ![d] = [from |-> a, to |-> t]]
        /\ pending' = [pending EXCEPT ![a] = DataSend(t, d)]
        /\ UNCHANGED <<serverVars, link, lists, toClient, got, owed>>
    BY DEF ClientSend
  <1>2. /\ sent' \in [Bodies -> [from : Accounts \cup {Plugins, Nobody},
                                 to : Accounts \cup {Plugins, All, Nobody}]]
        /\ sent'[d] = [from |-> a, to |-> t] /\ \A b \in Bodies \ {d} : sent'[b] = sent[b]
    <2>1. sent \in [Bodies -> [from : Accounts \cup {Plugins, Nobody},
                               to : Accounts \cup {Plugins, All, Nobody}]]
      BY DEF IInv, Types
    <2> QED
      BY <1>1, <2>1
  <1>3. SentOnce
    BY <1>1, <1>2 DEF SentOnce
  <1>4. DataSend(t, d) \in Packets /\ From(a, DataSend(t, d))'
    <2> DEFINE p == DataSend(t, d)
    <2>1. /\ p \in Packets /\ p.type = "data" /\ p.to = t /\ p.body = d
          /\ ~p.valid => d \in Unstable
      BY PacketFacts
    <2>2. a # Nobody
      BY IdsAssumption
    <2> HIDE DEF p
    <2>3. From(a, p)'
      BY <1>2, <2>1, <2>2 DEF From, DataOK
    <2> QED
      BY <2>1, <2>3 DEF p
  <1> QED
    BY <1>1, <1>2, <1>3, <1>4, UpwardKeeps

LEMMA KeepaliveKeeps ==
  ASSUME IInv, NEW a \in Accounts, Keepalive(a)
  PROVE  IInv'
  <1>1. /\ pending[a] # NoPacket /\ ToServer(a, pending[a])
        /\ UNCHANGED <<serverVars, link, lists, pending, toClient, sent, got, owed>>
    BY DEF Keepalive, clientVars, history
  <1>2. /\ pending[a] \in Packets /\ From(a, pending[a]) /\ link[a] = "up"
        /\ sent' \in [Bodies -> [from : Accounts \cup {Plugins, Nobody},
                                 to : Accounts \cup {Plugins, All, Nobody}]]
    BY <1>1 DEF IInv, Types, Channels, Quiet
  <1>3. SentOnce
    BY <1>1 DEF SentOnce
  <1> QED
    BY <1>1, <1>2, <1>3, SentStays, UpwardKeeps

-----------------------------------------------------------------------------
(* The server, with the connections as they are                               *)

\* Packets go to open connections only, and the server reads what it was sent.
LEMMA ServerKeeps ==
  ASSUME IInv, SentOnce, UNCHANGED <<link, connected, lists, pending>>,
         sent' \in [Bodies -> [from : Accounts \cup {Plugins, Nobody},
                               to : Accounts \cup {Plugins, All, Nobody}]],
         remembered \subseteq remembered', remembered' \subseteq Accounts,
         duty' \in [Accounts -> Duties], call' \in Duties, Working',
         DOMAIN slots' \subseteq Accounts, \A a \in DOMAIN slots' : slots'[a] \in SlotValues,
         sweep' \subseteq Accounts \X SlotValues, Stored',
         Typed(toServer', Packets), \A a \in Accounts : Up(a)' \subseteq Up(a),
         Typed(toClient', Messages),
         \A a \in Accounts : \A m \in Down(a)' :
            m \in Down(a) \/ (link[a] = "up" /\ (For(m.key, m.packet)' \/ ControlOK(m.packet))),
         NEW body,
         got' = got \/ (got' = got \cup {<<Plugins, body>>} /\ Expects(Plugins, body)),
         owed' \subseteq Accounts \X Bodies, Owing'
  PROVE  IInv'
  <1>1. got' \subseteq (Accounts \cup {Plugins}) \X Bodies
    BY DEF IInv, Types, Expects
  <1>2. Types'
    BY <1>1 DEF IInv, Types, Typed
  <1>3. Quiet'
    BY DEF IInv, Quiet
  <1>4. Channels'
    BY ChannelsKept DEF IInv
  <1>5. Delivered'
    BY DeliveredStays DEF IInv
  <1> QED
    BY <1>2, <1>3, <1>4, <1>5 DEF IInv

LEMMA ServerOwing ==
  ASSUME IInv, NEW accounts \in SUBSET Accounts, NEW pairs,
         link' = link, got \subseteq got', owed' \subseteq Owed(pairs, accounts),
         \A t \in Accounts, d \in Bodies : <<t, d>> \in pairs => Safe(t, d)',
         \A t \in Accounts : Down(t) \subseteq Down(t)' /\ Up(t)' \subseteq Up(t),
         \A t \in Accounts, d \in Bodies :
            link[t] = "up" /\ InWork(t, d) => InWork(t, d)' \/ InChannel(t, d)',
         \A t \in Accounts \ accounts, d \in Bodies :
            /\ InSlot(t, d) => InSlot(t, d)' \/ (link[t] = "up" /\ Acknowledged(t))
            /\ link[t] = "up" =>
                  (InWork(t, d)' \/ InSweep(t, d)' => Traffic(t, d) \/ InSlot(t, d)),
         \A t \in Accounts \ accounts, d \in Bodies : \A m \in Down(t)' :
            \/ m \in Down(t) \/ m.key # t \/ m.packet.body # d
            \/ Traffic(t, d) \/ InSlot(t, d)
  PROVE  Owing'
  <1>1. \A t \in Accounts, d \in Bodies : InChannel(t, d) => InChannel(t, d)'
    BY DEF InChannel
  <1>2. \A t \in Accounts : Acknowledged(t)' => Acknowledged(t)
    BY DEF Acknowledged
  <1>3. ASSUME NEW t \in Accounts \ accounts, NEW d \in Bodies, link[t] = "up", Traffic(t, d)'
        PROVE  Traffic(t, d) \/ InSlot(t, d)
    <2>1. CASE InChannel(t, d)'
      <3>1. PICK m \in Down(t)' : m.key = t /\ m.packet.body = d
        BY <2>1 DEF InChannel
      <3>2. CASE m \in Down(t)
        BY <3>1, <3>2 DEF InChannel, Traffic
      <3>3. CASE m \notin Down(t)
        BY <3>1, <3>3
      <3> QED
        BY <3>2, <3>3
    <2>2. CASE InWork(t, d)' \/ InSweep(t, d)'
      BY <1>3, <2>2
    <2> QED
      BY <1>3, <2>1, <2>2 DEF Traffic
  <1>4. \A t \in Accounts \ accounts, d \in Bodies :
           /\ InSlot(t, d) => InSlot(t, d)' \/ (link[t] = "up" /\ Acknowledged(t))
           /\ link[t] = "up" => (Traffic(t, d)' => Traffic(t, d) \/ InSlot(t, d))
    BY <1>3
  <1> QED
    BY <1>1, <1>2, <1>4, OwingKept

\* The handler of a connection goes over to other work.
LEMMA WorkChanges ==
  ASSUME Types, NEW a \in Accounts, NEW w \in Duties,
         duty' = [duty EXCEPT ![a] = w], call' = call
  PROVE  /\ duty' \in [Accounts -> Duties] /\ call' \in Duties
         /\ \A t, d : /\ InWork(t, d)' => InWork(t, d) \/ Sends(w, t, d)
                      /\ InWork(t, d) => InWork(t, d)' \/ Sends(duty[a], t, d)
                      /\ Sends(w, t, d) => InWork(t, d)'
         /\ Working /\ SentOnce /\ Relays(a, w)' => Working'
  <1>1. duty \in [Accounts -> Duties] /\ call \in Duties
    BY DEF Types
  <1>2. /\ duty' \in [Accounts -> Duties] /\ duty'[a] = w
        /\ \A x \in Accounts \ {a} : duty'[x] = duty[x]
    BY <1>1
  <1>3. \A t, d : /\ InWork(t, d)' => InWork(t, d) \/ Sends(w, t, d)
                  /\ InWork(t, d) => InWork(t, d)' \/ Sends(duty[a], t, d)
                  /\ Sends(w, t, d) => InWork(t, d)'
    <2> TAKE t, d
    <2>1. InWork(t, d)' <=> Sends(call, t, d) \/ \E x \in Accounts : Sends(duty'[x], t, d)
      BY DEF InWork, Sends, Aimed
    <2> QED
      BY <1>2, <2>1 DEF InWork
  <1>4. Working /\ SentOnce /\ Relays(a, w)' => Working'
    BY <1>2, SentStays DEF Working
  <1> QED
    BY <1>1, <1>2, <1>3, <1>4

LEMMA IdleSendsNothing == \A t, d : t # Nobody => ~Sends(Idle, t, d)
  BY WorkFacts DEF Sends, Aimed

\* A handler only reads from an open connection.
LEMMA ServerReadFacts ==
  ASSUME IInv, NEW a \in Accounts, ServerReads(a)
  PROVE  /\ link[a] = "up" /\ duty[a] = Idle
         /\ Received(a) \in Packets /\ Received(a) \in Up(a)
         /\ From(a, Received(a)) \/ ControlOK(Received(a))
         /\ Received(a).type = "data" => From(a, Received(a))
         /\ Typed(toServer', Packets)
         /\ \A x \in Accounts : Up(x)' \subseteq Up(x)
         /\ \A t \in Accounts, d \in Bodies : ~Sends(duty[a], t, d)
  <1>1. /\ Typed(toServer', Packets) /\ Received(a) \in Packets
        /\ Up(a) = {Received(a)} \cup Up(a)'
        /\ \A x \in Accounts \ {a} : Up(x)' = Up(x)
    BY TypedChannels, ServerReadsSets DEF IInv
  <1>2. Received(a) \in Up(a) /\ \A x \in Accounts : Up(x)' \subseteq Up(x)
    BY <1>1
  <1>3. link[a] = "up" /\ (From(a, Received(a)) \/ ControlOK(Received(a)))
    BY <1>2 DEF IInv, Quiet, Channels
  <1>4. duty[a] = Idle
    BY DEF ServerReads
  <1>5. \A t \in Accounts, d \in Bodies : ~Sends(duty[a], t, d)
    BY <1>4, IdleSendsNothing, IdsAssumption
  <1> QED
    BY <1>1, <1>2, <1>3, <1>4, <1>5 DEF ControlOK

\* An answer says nothing of a body.
LEMMA AnswerFacts ==
  ASSUME IInv, NEW a \in Accounts, NEW type \in {"sendok", "error"}, Answer(a, type)
  PROVE  /\ Typed(toClient', Messages)
         /\ \A x \in Accounts :
              /\ Down(x) \subseteq Down(x)'
              /\ \A m \in Down(x)' :
                    \/ m \in Down(x)
                    \/ /\ link[x] = "up" /\ ControlOK(m.packet)
                       /\ \A d \in Bodies : m.packet.body # d
  <1> DEFINE c == Control(type, a)
             e == Envelope(a, c)
  <1>1. c \in Packets /\ ControlOK(c)
    BY PacketFacts
  <1>2. /\ Typed(toClient', Messages)
        /\ \A x \in Accounts :
              Down(x)' = Down(x) \cup (IF x = a /\ link[a] = "up" THEN {e} ELSE {})
    BY <1>1, TypedChannels, ArrivesSets DEF Answer, IInv
  <1>3. e.packet = c /\ \A d \in Bodies : c.body # d
    BY <1>1, BodiesAssumption DEF Envelope, ControlOK
  <1> HIDE DEF c, e
  <1> QED
    BY <1>1, <1>2, <1>3

-----------------------------------------------------------------------------
(* Packets the server takes over                                              *)

LEMMA SlotFacts ==
  ASSUME NEW shape \in {"mapping", "bare"}, NEW dests \in SUBSET Accounts, NEW p \in Packets
  PROVE  LET slot == Slot(shape, dests, p)
         IN  /\ slot \in SlotValues /\ slot.shape = shape
             /\ slot.dests = dests /\ slot.packet = p
  BY DEF Slot, SlotValues

LEMMA WithSlotsFacts ==
  ASSUME Types, NEW accounts \in SUBSET Accounts, NEW slot \in SlotValues,
         slots' = WithSlots(accounts, slot)
  PROVE  /\ DOMAIN slots' \subseteq Accounts
         /\ \A x \in DOMAIN slots' : slots'[x] \in SlotValues
         /\ \A t \in Accounts \ accounts : \A d : InSlot(t, d)' <=> InSlot(t, d)
         /\ \A t \in accounts : InSlot(t, slot.packet.body)'
         /\ Stored /\ SentOnce /\ sweep' = sweep /\ (\A t \in accounts : SlotFor(t, slot)')
              => Stored'
  <1>1. /\ DOMAIN slots' = DOMAIN slots \cup accounts
        /\ \A x \in DOMAIN slots' :
              slots'[x] = IF x \in accounts THEN slot ELSE slots[x]
    BY DEF WithSlots
  <1>2. /\ \A t \in Accounts \ accounts : \A d : InSlot(t, d)' <=> InSlot(t, d)
        /\ \A t \in accounts : InSlot(t, slot.packet.body)'
    BY <1>1 DEF InSlot
  <1>3. /\ DOMAIN slots' \subseteq Accounts
        /\ \A x \in DOMAIN slots' : slots'[x] \in SlotValues
    BY <1>1 DEF Types
  <1>4. ASSUME Stored, SentOnce, sweep' = sweep, \A t \in accounts : SlotFor(t, slot)'
        PROVE  Stored'
    <2>1. \A s \in sweep' : SlotFor(s[1], s[2])'
      BY <1>4, SentStays DEF Stored
    <2>2. ASSUME NEW x \in DOMAIN slots' PROVE SlotFor(x, slots[x])'
      <3>1. CASE x \in accounts
        BY <1>1, <1>4, <3>1 DEF SlotFor
      <3>2. CASE x \notin accounts
        <4>1. slots'[x] = slots[x] /\ x \in DOMAIN slots
          BY <1>1, <3>2
        <4>2. SlotFor(x, slots[x])
          BY <4>1, <1>4 DEF Stored
        <4> DEFINE slot0 == slots[x]
        <4> QED
          BY <4>1, <4>2, <1>4, SentStays DEF SlotFor
      <3> QED
        BY <3>1, <3>2
    <2> QED
      BY <2>1, <2>2 DEF Stored
  <1> QED
    BY <1>2, <1>3, <1>4

\* The sweep is not concerned.
LEMMA SweepStays == sweep' = sweep => \A t, d : InSweep(t, d)' <=> InSweep(t, d)
  BY DEF InSweep

LEMMA TakeDirectKeeps ==
  ASSUME IInv, NEW a \in Accounts, TakeDirect(a)
  PROVE  IInv'
  <1> SUFFICES ASSUME NEW r, r = Received(a) PROVE IInv'
    OBVIOUS
  <1> DEFINE t == r.to
             p == Relayed(r)
             slot == Slot("mapping", {t}, p)
             w == Forwarding(p)
  <1>1. /\ ServerReads(a) /\ r.type = "data" /\ t \in Accounts
        /\ remembered' = remembered \cup {a, t}
        /\ slots' = WithSlots({t}, slot)
        /\ owed' = Owed({<<t, p.body>>}, {t})
        /\ duty' = [duty EXCEPT ![a] = w]
        /\ Answer(a, "sendok")
        /\ UNCHANGED <<connected, call, sweep, link, clientVars, sent, got, turns>>
    BY DEF TakeDirect
  <1>2. /\ r \in Packets /\ From(a, r)
        /\ Typed(toServer', Packets) /\ \A x \in Accounts : Up(x)' \subseteq Up(x)
        /\ \A x \in Accounts, d \in Bodies : ~Sends(duty[a], x, d)
    BY <1>1, ServerReadFacts
  <1>3. p \in Packets /\ From(a, p) /\ p.to = t /\ p.body \in Bodies
    BY <1>2, RelayedOK, PacketFacts DEF From, DataOK
  <1>4. slot \in SlotValues /\ slot.packet = p /\ slot.dests = {t}
    BY <1>1, <1>3, SlotFacts
  <1>5. w \in Duties /\ w.step = "forward" /\ w.packet = p /\ w.left = {}
    BY <1>3, WorkFacts
  <1>6. /\ Typed(toClient', Messages)
        /\ \A x \in Accounts :
              /\ Down(x) \subseteq Down(x)'
              /\ \A m \in Down(x)' :
                    \/ m \in Down(x)
                    \/ /\ link[x] = "up" /\ ControlOK(m.packet)
                       /\ \A d \in Bodies : m.packet.body # d
    BY <1>1, AnswerFacts
  <1>7. SentOnce /\ Types /\ Stored /\ Working
    BY <1>1 DEF SentOnce, IInv
  <1> HIDE DEF t, p, slot, w
  <1>8. /\ duty' \in [Accounts -> Duties] /\ call' \in Duties
        /\ \A x, d : /\ InWork(x, d)' => InWork(x, d) \/ Sends(w, x, d)
                     /\ InWork(x, d) => InWork(x, d)' \/ Sends(duty[a], x, d)
                     /\ Sends(w, x, d) => InWork(x, d)'
        /\ Relays(a, w)' => Working'
    BY <1>1, <1>5, <1>7, WorkChanges
  <1>9. Relays(a, w) /\ SlotFor(t, slot)
    BY <1>1, <1>3, <1>4, <1>5 DEF Relays, SlotFor, From, For
  <1>10. Relays(a, w)' /\ SlotFor(t, slot)'
    BY <1>7, <1>9, SentStays
  <1>11. /\ DOMAIN slots' \subseteq Accounts
         /\ \A x \in DOMAIN slots' : slots'[x] \in SlotValues
         /\ \A x \in Accounts \ {t} : \A d : InSlot(x, d)' <=> InSlot(x, d)
         /\ InSlot(t, p.body)'
         /\ Stored'
    BY <1>1, <1>4, <1>7, <1>10, WithSlotsFacts
  <1>12. Sends(w, t, p.body) /\ \A x \in Accounts \ {t} : \A d : ~Sends(w, x, d)
    BY <1>3, <1>5 DEF Sends, Aimed
  <1>13. owed' \subseteq Accounts \X Bodies
    BY <1>1, <1>3 DEF Owed, IInv, Types
  <1>14. Owing'
    <2>1. \A x \in Accounts, d \in Bodies : <<x, d>> \in {<<t, p.body>>} => Safe(x, d)'
      BY <1>8, <1>11, <1>12 DEF Safe
    <2>2. \A x, d : InSweep(x, d)' <=> InSweep(x, d)
      BY <1>1, SweepStays
    <2>3. \A x \in Accounts \ {t}, d \in Bodies :
             InWork(x, d)' \/ InSweep(x, d)' => Traffic(x, d) \/ InSlot(x, d)
      BY <1>8, <1>12, <2>2 DEF Traffic
    <2> QED
      BY <1>1, <1>2, <1>6, <1>8, <1>11, <2>1, <2>3, ServerOwing
  <1> QED
    <2>1. /\ remembered \subseteq remembered' /\ remembered' \subseteq Accounts
          /\ sweep' \subseteq Accounts \X SlotValues
          /\ sent' \in [Bodies -> [from : Accounts \cup {Plugins, Nobody},
                                   to : Accounts \cup {Plugins, All, Nobody}]]
      BY <1>1 DEF IInv, Types
    <2> QED
      BY <1>1, <1>2, <1>6, <1>7, <1>8, <1>10, <1>11, <1>13, <1>14, <2>1,
         ServerKeeps DEF clientVars

LEMMA TakeBroadcastKeeps ==
  ASSUME IInv, NEW a \in Accounts, TakeBroadcast(a)
  PROVE  IInv'
  <1> SUFFICES ASSUME NEW r, r = Received(a),
                      NEW dests, dests = (remembered \cup connected) \ {a}
               PROVE  IInv'
    OBVIOUS
  <1> DEFINE p == Relayed(r)
             slot == Slot("bare", dests, p)
             w == Broadcasting(r, dests)
  <1>1. /\ ServerReads(a) /\ r.type = "data" /\ r.to = All
        /\ remembered' = remembered \cup {a} \cup dests
        /\ slots' = WithSlots(dests, slot)
        /\ owed' = Owed({<<t, p.body>> : t \in dests}, dests)
        /\ duty' = [duty EXCEPT ![a] = w]
        /\ UNCHANGED <<connected, call, sweep, link, clientVars, toClient, sent, got, turns>>
    BY DEF TakeBroadcast
  <1>2. /\ r \in Packets /\ From(a, r)
        /\ Typed(toServer', Packets) /\ \A x \in Accounts : Up(x)' \subseteq Up(x)
        /\ \A x \in Accounts, d \in Bodies : ~Sends(duty[a], x, d)
    BY <1>1, ServerReadFacts
  <1>3. p \in Packets /\ From(a, p) /\ p.to = All /\ p.body = r.body /\ p.body \in Bodies
    BY <1>1, <1>2, RelayedOK, PacketFacts DEF From, DataOK
  <1>4. dests \in SUBSET Accounts /\ a \notin dests
    BY DEF IInv, Types
  <1>5. slot \in SlotValues /\ slot.packet = p /\ slot.shape = "bare"
    BY <1>3, <1>4, SlotFacts
  <1>6. w \in Duties /\ w.step = "broadcast" /\ w.packet = r /\ w.left = dests
    BY <1>2, <1>4, WorkFacts
  <1>7. SentOnce /\ Types /\ Stored /\ Working
    BY <1>1 DEF SentOnce, IInv
  <1>8. Typed(toClient', Messages) /\ \A x \in Accounts : Down(x)' = Down(x)
    BY <1>1, <1>7, TypedChannels DEF Down
  <1> HIDE DEF p, slot, w
  <1>9. /\ duty' \in [Accounts -> Duties] /\ call' \in Duties
        /\ \A x, d : /\ InWork(x, d)' => InWork(x, d) \/ Sends(w, x, d)
                     /\ InWork(x, d) => InWork(x, d)' \/ Sends(duty[a], x, d)
                     /\ Sends(w, x, d) => InWork(x, d)'
        /\ Relays(a, w)' => Working'
    BY <1>1, <1>6, <1>7, WorkChanges
  <1>10. Relays(a, w) /\ \A t \in dests : SlotFor(t, slot)
    BY <1>1, <1>2, <1>3, <1>4, <1>5, <1>6 DEF Relays, SlotFor, From, For
  <1>11. Relays(a, w)' /\ \A t \in dests : SlotFor(t, slot)'
    BY <1>7, <1>10, SentStays
  <1>12. /\ DOMAIN slots' \subseteq Accounts
         /\ \A x \in DOMAIN slots' : slots'[x] \in SlotValues
         /\ \A x \in Accounts \ dests : \A d : InSlot(x, d)' <=> InSlot(x, d)
         /\ \A x \in dests : InSlot(x, p.body)'
         /\ Stored'
    BY <1>1, <1>4, <1>5, <1>7, <1>11, WithSlotsFacts
  <1>13. /\ \A x \in dests : Sends(w, x, p.body)
         /\ \A x \in Accounts \ dests : \A d : ~Sends(w, x, d)
    BY <1>3, <1>6 DEF Sends, Aimed
  <1>14. owed' \subseteq Accounts \X Bodies
    BY <1>1, <1>3, <1>4 DEF Owed, IInv, Types
  <1>15. Owing'
    <2> DEFINE pairs == {<<t, p.body>> : t \in dests}
    <2>1. \A x \in Accounts, d \in Bodies : <<x, d>> \in pairs => Safe(x, d)'
      BY <1>9, <1>12, <1>13 DEF Safe
    <2>2. \A x, d : InSweep(x, d)' <=> InSweep(x, d)
      BY <1>1, SweepStays
    <2>3. \A x \in Accounts \ dests, d \in Bodies :
             InWork(x, d)' \/ InSweep(x, d)' => Traffic(x, d) \/ InSlot(x, d)
      BY <1>9, <1>13, <2>2 DEF Traffic
    <2>4. \A x \in Accounts, d \in Bodies : InWork(x, d) => InWork(x, d)'
      BY <1>2, <1>9
    <2>5. /\ link' = link /\ got' = got
          /\ owed' = Owed(pairs, dests)
      BY <1>1
    <2> HIDE DEF pairs
    <2>6. \A x \in Accounts : Up(x)' \subseteq Up(x) /\ Down(x)' = Down(x)
      BY <1>2, <1>8
    <2>7. \A x \in Accounts \ dests, d \in Bodies : InSlot(x, d) => InSlot(x, d)'
      BY <1>12
    <2> QED
      BY <1>4, <2>1, <2>3, <2>4, <2>5, <2>6, <2>7, ServerOwing
  <1> QED
    <2>1. /\ remembered \subseteq remembered' /\ remembered' \subseteq Accounts
          /\ sweep' \subseteq Accounts \X SlotValues
          /\ sent' \in [Bodies -> [from : Accounts \cup {Plugins, Nobody},
                                   to : Accounts \cup {Plugins, All, Nobody}]]
      BY <1>1, <1>4 DEF IInv, Types
    <2> QED
      BY <1>1, <1>2, <1>7, <1>8, <1>9, <1>11, <1>12, <1>14, <1>15, <2>1,
         ServerKeeps DEF clientVars

\* What the server's own plugins send is new.
LEMMA PluginsSend ==
  ASSUME IInv, NEW t \in Accounts \cup {All}, NEW d \in Bodies, sent[d].from = Nobody,
         sent' = [sent EXCEPT ![d] = [from |-> Plugins, to |-> t]]
  PROVE  LET p == DataSend(t, d)
         IN  /\ SentOnce /\ p \in Packets /\ p.body = d /\ p.to = t
             /\ From(Plugins, p)'
             /\ \A x \in Accounts : t \in {x, All} => For(x, p)'
             /\ sent' \in [Bodies -> [from : Accounts \cup {Plugins, Nobody},
                                      to : Accounts \cup {Plugins, All, Nobody}]]
  <1> DEFINE p == DataSend(t, d)
  <1>1. sent \in [Bodies -> [from : Accounts \cup {Plugins, Nobody},
                             to : Accounts \cup {Plugins, All, Nobody}]]
    BY DEF IInv, Types
  <1>2. /\ sent' \in [Bodies -> [from : Accounts \cup {Plugins, Nobody},
                                 to : Accounts \cup {Plugins, All, Nobody}]]
        /\ sent'[d] = [from |-> Plugins, to |-> t] /\ \A b \in Bodies \ {d} : sent'[b] = sent[b]
    BY <1>1
  <1>3. SentOnce
    BY <1>2 DEF SentOnce
  <1>4. /\ p \in Packets /\ p.type = "data" /\ p.to = t /\ p.body = d
        /\ ~p.valid => d \in Unstable
    BY PacketFacts
  <1>5. Plugins # Nobody /\ Plugins \notin Accounts
    BY IdsAssumption
  <1> HIDE DEF p
  <1>6. From(Plugins, p)'
    BY <1>2, <1>4, <1>5 DEF From, DataOK
  <1>7. \A x \in Accounts : t \in {x, All} => For(x, p)'
    BY <1>2, <1>4, <1>5, <1>6 DEF From, For
  <1> QED
    BY <1>2, <1>3, <1>4, <1>6, <1>7 DEF p

LEMMA PluginSendKeeps ==
  ASSUME IInv, NEW t \in Accounts, NEW d \in Bodies, PluginSend(t, d)
  PROVE  IInv'
  <1> DEFINE p == DataSend(t, d)
             slot == Slot("mapping", {t}, p)
  <1>1. /\ sent[d].from = Nobody
        /\ sent' = [sent EXCEPT ![d] = [from |-> Plugins, to |-> t]]
        /\ remembered' = remembered \cup {t}
        /\ UNCHANGED <<connected, duty, call, sweep, link, clientVars, toServer, got, turns>>
    BY DEF PluginSend
  <1>2. /\ SentOnce /\ p \in Packets /\ p.body = d /\ For(t, p)'
        /\ sent' \in [Bodies -> [from : Accounts \cup {Plugins, Nobody},
                                 to : Accounts \cup {Plugins, All, Nobody}]]
    BY <1>1, PluginsSend
  <1>3. slot \in SlotValues /\ slot.packet = p /\ slot.dests = {t}
    BY <1>2, SlotFacts
  <1>4. Types /\ Stored /\ Working
    BY DEF IInv
  <1>5. /\ remembered \subseteq remembered' /\ remembered' \subseteq Accounts
        /\ duty' \in [Accounts -> Duties] /\ call' \in Duties
        /\ sweep' \subseteq Accounts \X SlotValues /\ UNCHANGED <<lists, pending>>
    BY <1>1, <1>4 DEF Types, clientVars
  <1>6. Typed(toServer', Packets) /\ \A x \in Accounts : Up(x)' = Up(x)
    BY <1>1, <1>4, TypedChannels DEF Up
  <1>7. \A x, b : (InSweep(x, b)' <=> InSweep(x, b)) /\ (InWork(x, b)' <=> InWork(x, b))
    BY <1>1 DEF InSweep, InWork, Sends, Aimed
  <1>8. Working'
    BY <1>1, <1>2, <1>4, WorkingKept
  <1>9. CASE t \notin connected
    <2>1. UNCHANGED <<slots, owed, toClient>>
      BY <1>9 DEF PluginSend
    <2>2. /\ Typed(toClient', Messages) /\ \A x \in Accounts : Down(x)' = Down(x)
          /\ DOMAIN slots' \subseteq Accounts
          /\ \A x \in DOMAIN slots' : slots'[x] \in SlotValues
          /\ owed' \subseteq Accounts \X Bodies
      BY <2>1, <1>4, TypedChannels DEF Types, Down
    <2>3. Stored'
      BY <1>1, <1>2, <1>4, <2>1, StoredKept
    <2>4. Owing'
      BY <1>1, <1>6, <2>1, SendingOwing
    <2> QED
      BY <1>1, <1>2, <1>5, <1>6, <1>8, <2>2, <2>3, <2>4, ServerKeeps
  <1>10. CASE t \in connected
    <2>1. /\ slots' = WithSlots({t}, slot)
          /\ owed' = Owed({<<t, d>>}, {t})
          /\ toClient' = Arrives(toClient, t, t, p)
      BY <1>10 DEF PluginSend
    <2> HIDE DEF p, slot
    <2>2. /\ Typed(toClient', Messages)
          /\ \A x \in Accounts :
               Down(x)' = Down(x) \cup (IF x = t /\ link[t] = "up"
                                        THEN {Envelope(t, p)} ELSE {})
      BY <1>2, <1>4, <2>1, TypedChannels, ArrivesSets
    <2>3. SlotFor(t, slot)'
      BY <1>2, <1>3 DEF SlotFor
    <2>4. /\ DOMAIN slots' \subseteq Accounts
          /\ \A x \in DOMAIN slots' : slots'[x] \in SlotValues
          /\ \A x \in Accounts \ {t} : \A b : InSlot(x, b)' <=> InSlot(x, b)
          /\ InSlot(t, d)' /\ Stored'
      <3>1. {t} \in SUBSET Accounts /\ \A x \in {t} : SlotFor(x, slot)'
        BY <2>3
      <3>2. SentOnce /\ sweep' = sweep /\ slot.packet.body = d
        BY <1>1, <1>2, <1>3
      <3> QED
        BY <1>3, <1>4, <2>1, <3>1, <3>2, WithSlotsFacts
    <2>5. owed' \subseteq Accounts \X Bodies
      BY <2>1, <1>4 DEF Owed, Types
    <2>6. Envelope(t, p).key = t /\ Envelope(t, p).packet = p
      BY DEF Envelope
    <2>7. Owing'
      <3>1. \A x \in Accounts, b \in Bodies : <<x, b>> \in {<<t, d>>} => Safe(x, b)'
        BY <1>1, <1>2, <2>2, <2>4, <2>6 DEF Safe, InChannel
      <3>2. \A x \in Accounts \ {t}, b \in Bodies :
               InWork(x, b)' \/ InSweep(x, b)' => Traffic(x, b) \/ InSlot(x, b)
        BY <1>7 DEF Traffic
      <3> QED
        BY <1>1, <1>6, <1>7, <2>1, <2>2, <2>4, <3>1, <3>2, ServerOwing
    <2>8. \A x \in Accounts : \A m \in Down(x)' :
             m \in Down(x) \/ (link[x] = "up" /\ (For(m.key, m.packet)' \/ ControlOK(m.packet)))
      BY <1>2, <2>2, <2>6
    <2> QED
      BY <1>1, <1>2, <1>5, <1>6, <1>8, <2>2, <2>4, <2>5, <2>7, <2>8, ServerKeeps
  <1> QED
    BY <1>9, <1>10

LEMMA PluginBroadcastKeeps ==
  ASSUME IInv, NEW d \in Bodies, PluginBroadcast(d)
  PROVE  IInv'
  <1> SUFFICES ASSUME NEW dests, dests = remembered \cup connected,
                      NEW accounts, accounts = connected
               PROVE  IInv'
    OBVIOUS
  <1> DEFINE p == DataSend(All, d)
             slot == Slot("mapping", dests, p)
             w == Broadcasting(p, dests)
  <1>1. /\ call = Idle /\ sent[d].from = Nobody
        /\ sent' = [sent EXCEPT ![d] = [from |-> Plugins, to |-> All]]
        /\ remembered' = dests /\ slots' = WithSlots(accounts, slot)
        /\ owed' = Owed({<<t, d>> : t \in accounts}, accounts)
        /\ call' = w
        /\ UNCHANGED <<connected, duty, sweep, link, clientVars, toClient, toServer, got, turns>>
    BY DEF PluginBroadcast
  <1>2. /\ SentOnce /\ p \in Packets /\ p.body = d /\ p.to = All
        /\ From(Plugins, p)' /\ \A x \in Accounts : For(x, p)'
        /\ sent' \in [Bodies -> [from : Accounts \cup {Plugins, Nobody},
                                 to : Accounts \cup {Plugins, All, Nobody}]]
    BY <1>1, PluginsSend
  <1>3. /\ dests \in SUBSET Accounts /\ accounts \in SUBSET Accounts /\ accounts \subseteq dests
        /\ \A x \in Accounts \ accounts : link[x] # "up"
        /\ Plugins \notin dests
    BY IdsAssumption DEF IInv, Types
  <1>4. slot \in SlotValues /\ slot.packet = p /\ slot.dests = dests
    BY <1>2, <1>3, SlotFacts
  <1>5. w \in Duties /\ w.step = "broadcast" /\ w.packet = p /\ w.left = dests
    BY <1>2, <1>3, WorkFacts
  <1>6. Types /\ Stored /\ Working
    BY DEF IInv
  <1>7. /\ remembered \subseteq remembered' /\ remembered' \subseteq Accounts
        /\ duty' \in [Accounts -> Duties] /\ call' \in Duties
        /\ sweep' \subseteq Accounts \X SlotValues /\ UNCHANGED <<lists, pending>>
    BY <1>1, <1>3, <1>5, <1>6 DEF Types, clientVars
  <1>8. /\ Typed(toServer', Packets) /\ Typed(toClient', Messages)
        /\ \A x \in Accounts : Up(x)' = Up(x) /\ Down(x)' = Down(x)
    BY <1>1, <1>6, TypedChannels DEF Up, Down
  <1> HIDE DEF p, slot, w
  <1>9. \A x \in accounts : SlotFor(x, slot)'
    BY <1>2, <1>3, <1>4 DEF SlotFor
  <1>10. /\ DOMAIN slots' \subseteq Accounts
         /\ \A x \in DOMAIN slots' : slots'[x] \in SlotValues
         /\ \A x \in accounts : InSlot(x, d)'
         /\ \A x \in Accounts \ accounts : \A b : InSlot(x, b)' <=> InSlot(x, b)
         /\ Stored'
    BY <1>1, <1>2, <1>3, <1>4, <1>6, <1>9, WithSlotsFacts
  <1>11. Working'
    <2>1. Relays(Plugins, w)' /\ w.step = "broadcast"
      BY <1>2, <1>3, <1>5 DEF Relays
    <2>2. Relays(Plugins, call)'
      BY <1>1, <2>1 DEF Relays
    <2>3. \A x \in Accounts : Relays(x, duty[x])'
      BY <1>1, <1>2, <1>6, SentStays DEF Working, Relays
    <2> QED
      BY <1>1, <2>1, <2>2, <2>3 DEF Working
  <1>12. owed' \subseteq Accounts \X Bodies
    BY <1>1, <1>3, <1>6 DEF Owed, Types
  <1>13. Owing'
    <2>1. \A x \in Accounts : \A b : ~Sends(call, x, b)
      BY <1>1, IdleSendsNothing, IdsAssumption
    <2>2. \A x, b : InWork(x, b)' <=> Sends(w, x, b) \/ \E a \in Accounts : Sends(duty[a], x, b)
      BY <1>1 DEF InWork, Sends, Aimed
    <2>3. \A x \in accounts : Sends(w, x, d)
      BY <1>2, <1>3, <1>5 DEF Sends, Aimed
    <2>4. \A x \in Accounts, b \in Bodies :
             <<x, b>> \in {<<t, d>> : t \in accounts} => Safe(x, b)'
      BY <1>10, <2>2, <2>3 DEF Safe
    <2>5. \A x \in Accounts, b \in Bodies : InWork(x, b) => InWork(x, b)'
      BY <2>1, <2>2 DEF InWork
    <2> QED
      BY <1>1, <1>3, <1>8, <1>10, <2>4, <2>5, ServerOwing
  <1> QED
    BY <1>1, <1>2, <1>7, <1>8, <1>10, <1>11, <1>12, <1>13, ServerKeeps

-----------------------------------------------------------------------------
(* Packets the server passes on                                               *)

\* One packet goes down a connection: it was under way to the account, or in
\* its slot, or it says nothing of a body.
LEMMA RelayKeeps ==
  ASSUME IInv, UNCHANGED <<connected, remembered, slots, link, lists, pending, sent, owed>>,
         duty' \in [Accounts -> Duties], call' \in Duties, Working',
         sweep' \subseteq sweep,
         Typed(toServer', Packets), \A x \in Accounts : Up(x)' \subseteq Up(x),
         NEW target \in Accounts, NEW key \in Accounts, NEW p,
         For(key, p) \/ ControlOK(p),
         \A d \in Bodies : key = target /\ p.body = d =>
            Traffic(target, d) \/ InSlot(target, d),
         Typed(toClient', Messages),
         \A x \in Accounts :
            /\ Down(x) \subseteq Down(x)'
            /\ \A m \in Down(x)' : \/ m \in Down(x)
                                   \/ x = target /\ link[x] = "up" /\ m = Envelope(key, p),
         \A t \in Accounts, d \in Bodies :
            /\ InWork(t, d)' => InWork(t, d)
            /\ link[t] = "up" /\ InWork(t, d) => InWork(t, d)' \/ InChannel(t, d)',
         NEW body,
         got' = got \/ (got' = got \cup {<<Plugins, body>>} /\ Expects(Plugins, body))
  PROVE  IInv'
  <1>1. SentOnce
    BY DEF SentOnce
  <1>2. /\ sent' \in [Bodies -> [from : Accounts \cup {Plugins, Nobody},
                                 to : Accounts \cup {Plugins, All, Nobody}]]
        /\ remembered \subseteq remembered' /\ remembered' \subseteq Accounts
        /\ DOMAIN slots' \subseteq Accounts /\ \A a \in DOMAIN slots' : slots'[a] \in SlotValues
        /\ sweep' \subseteq Accounts \X SlotValues
        /\ owed' \subseteq Accounts \X Bodies
    BY DEF IInv, Types
  <1>3. Stored'
    BY <1>1, StoredKept DEF IInv
  <1>4. Envelope(key, p).key = key /\ Envelope(key, p).packet = p
    BY DEF Envelope
  <1>5. For(key, p)' \/ ControlOK(p)
    BY <1>1, SentStays
  <1>6. \A x \in Accounts : \A m \in Down(x)' :
           m \in Down(x) \/ (link[x] = "up" /\ (For(m.key, m.packet)' \/ ControlOK(m.packet)))
    BY <1>4, <1>5
  <1>7. Owing'
    <2>1. owed' \subseteq Owed({}, {}) /\ {} \in SUBSET Accounts
      BY DEF Owed, Held
    <2>2. \A t, d : /\ InSlot(t, d)' <=> InSlot(t, d)
                    /\ InSweep(t, d)' => InSweep(t, d)
      BY DEF InSlot, InSweep
    <2>3. \A t \in Accounts, d \in Bodies : \A m \in Down(t)' :
             \/ m \in Down(t) \/ m.key # t \/ m.packet.body # d
             \/ Traffic(t, d) \/ InSlot(t, d)
      <3> TAKE t \in Accounts, d \in Bodies
      <3> TAKE m \in Down(t)'
      <3>1. m \in Down(t) \/ (t = target /\ m.key = key /\ m.packet = p)
        BY <1>4
      <3> QED
        BY <3>1
    <2>4. \A t \in Accounts, d \in Bodies :
             InWork(t, d)' \/ InSweep(t, d)' => Traffic(t, d)
      BY <2>2 DEF Traffic
    <2> QED
      BY <2>1, <2>2, <2>3, <2>4, ServerOwing
  <1> QED
    BY <1>1, <1>2, <1>3, <1>6, <1>7, ServerKeeps

\* Through Arrives, if at all.
LEMMA ArrivesFacts ==
  ASSUME IInv, NEW target \in Accounts, NEW key \in Accounts, NEW p \in Packets,
         toClient' = Arrives(toClient, target, key, p) \/ toClient' = toClient
  PROVE  /\ Typed(toClient', Messages)
         /\ \A x \in Accounts :
               /\ Down(x) \subseteq Down(x)'
               /\ \A m \in Down(x)' : \/ m \in Down(x)
                                      \/ x = target /\ link[x] = "up" /\ m = Envelope(key, p)
         /\ toClient' = Arrives(toClient, target, key, p) /\ link[target] = "up" /\ key = target
               => InChannel(target, p.body)'
  <1>1. CASE toClient' = toClient
    <2>1. \A x \in Accounts : Down(x)' = Down(x)
      BY <1>1 DEF Down
    <2>2. Typed(toClient', Messages)
      BY <1>1, TypedChannels DEF IInv
    <2>3. toClient' = Arrives(toClient, target, key, p) => link[target] # "up"
      <3> SUFFICES ASSUME toClient' = Arrives(toClient, target, key, p), link[target] = "up"
                   PROVE  FALSE
        OBVIOUS
      <3>1. toClient[target] \in Seq(Messages) /\ DOMAIN toClient = Accounts
        BY DEF IInv, Types
      <3>2. toClient[target] = Append(toClient[target], Envelope(key, p))
        BY <1>1, <3>1 DEF Arrives
      <3>3. Len(Append(toClient[target], Envelope(key, p))) = Len(toClient[target]) + 1
        BY <3>1 DEF Envelope, Messages
      <3> QED
        BY <3>1, <3>2, <3>3
    <2> QED
      BY <2>1, <2>2, <2>3
  <1>2. CASE toClient' = Arrives(toClient, target, key, p)
    <2>1. /\ Typed(toClient', Messages)
          /\ \A x \in Accounts :
               Down(x)' = Down(x) \cup (IF x = target /\ link[target] = "up"
                                        THEN {Envelope(key, p)} ELSE {})
      BY <1>2, TypedChannels, ArrivesSets DEF IInv
    <2>2. Envelope(key, p).key = key /\ Envelope(key, p).packet = p
      BY DEF Envelope
    <2>3. link[target] = "up" /\ key = target => InChannel(target, p.body)'
      BY <2>1, <2>2 DEF InChannel
    <2> QED
      BY <2>1, <2>3
  <1> QED
    BY <1>1, <1>2

LEMMA ForwardKeeps ==
  ASSUME IInv, NEW a \in Accounts, Forward(a)
  PROVE  IInv'
  <1> SUFFICES ASSUME NEW p, p = duty[a].packet, NEW t, t = p.to,
                      NEW websocket, websocket = IF t \in connected THEN t ELSE a
               PROVE  IInv'
    OBVIOUS
  <1>1. /\ duty[a].step = "forward"
        /\ toClient' = Arrives(toClient, websocket, t, p)
        /\ duty' = [duty EXCEPT ![a] = Idle]
        /\ UNCHANGED <<connected, remembered, slots, call, sweep, link, clientVars,
                       toServer, history, turns>>
    BY DEF Forward
  <1>2. Types /\ Working /\ SentOnce
    BY <1>1 DEF IInv, SentOnce, history
  <1>3. p \in Packets /\ DataOK(p) /\ t \in Accounts /\ duty[a].left = {}
    <2>1. duty[a] \in Duties /\ Relays(a, duty[a])
      BY <1>2 DEF Types, Working
    <2>2. duty[a] # Idle
      BY <1>1, WorkFacts
    <2> QED
      BY <1>1, <2>1, <2>2 DEF Relays, Duties
  <1>4. websocket \in Accounts /\ (t = websocket \/ link[t] # "up")
    BY <1>2, <1>3 DEF Types
  <1>5. For(t, p) /\ \A x, d : Sends(duty[a], x, d) <=> x = t /\ p.body = d
    BY <1>1, <1>3 DEF For, Sends, Aimed
  <1>6. /\ duty' \in [Accounts -> Duties] /\ call' \in Duties
        /\ \A x, d : /\ InWork(x, d)' => InWork(x, d) \/ Sends(Idle, x, d)
                     /\ InWork(x, d) => InWork(x, d)' \/ Sends(duty[a], x, d)
        /\ Working'
    <2>1. Idle \in Duties /\ Relays(a, Idle)'
      BY WorkFacts DEF Relays
    <2> QED
      BY <1>1, <1>2, <2>1, WorkChanges
  <1>7. /\ Typed(toClient', Messages)
        /\ \A x \in Accounts :
              /\ Down(x) \subseteq Down(x)'
              /\ \A m \in Down(x)' : \/ m \in Down(x)
                                     \/ x = websocket /\ link[x] = "up" /\ m = Envelope(t, p)
        /\ link[websocket] = "up" /\ t = websocket => InChannel(websocket, p.body)'
    BY <1>1, <1>3, <1>4, ArrivesFacts
  <1>8. \A x \in Accounts, d \in Bodies :
           /\ InWork(x, d)' => InWork(x, d)
           /\ link[x] = "up" /\ InWork(x, d) => InWork(x, d)' \/ InChannel(x, d)'
    <2>1. \A x \in Accounts, d \in Bodies : ~Sends(Idle, x, d)
      BY IdleSendsNothing, IdsAssumption
    <2> QED
      BY <1>4, <1>5, <1>6, <1>7, <2>1
  <1>9. \A d \in Bodies : t = websocket /\ p.body = d =>
           Traffic(websocket, d) \/ InSlot(websocket, d)
    BY <1>5 DEF Traffic, InWork
  <1>10. Typed(toServer', Packets) /\ \A x \in Accounts : Up(x)' = Up(x)
    BY <1>1, <1>2, TypedChannels DEF Up
  <1> QED
    BY <1>1, <1>3, <1>4, <1>5, <1>6, <1>7, <1>8, <1>9, <1>10, RelayKeeps
       DEF clientVars, history

LEMMA BroadcastNextKeeps ==
  ASSUME IInv, NEW a \in Accounts, BroadcastNext(a)
  PROVE  IInv'
  <1>1. PICK t \in duty[a].left :
           /\ IF t \in connected
              THEN /\ Room(t)
                   /\ toClient' = Arrives(toClient, t, t, Relayed(duty[a].packet))
              ELSE UNCHANGED toClient
           /\ duty' = [duty EXCEPT ![a].left = @ \ {t}]
    BY DEF BroadcastNext
  <1> SUFFICES ASSUME NEW r, r = duty[a].packet, NEW left, left = duty[a].left,
                      NEW w, w = [duty[a] EXCEPT !.left = @ \ {t}]
               PROVE  IInv'
    OBVIOUS
  <1> DEFINE p == Relayed(r)
  <1>2. UNCHANGED <<connected, remembered, slots, call, sweep, link, clientVars,
                    toServer, history, turns>>
    BY DEF BroadcastNext
  <1>3. Types /\ Working /\ SentOnce
    BY <1>2 DEF IInv, SentOnce, history
  <1>4. /\ duty[a].step = "broadcast" /\ duty[a] \in Duties /\ a \notin left
        /\ From(a, r) /\ r.to = All /\ r \in Packets /\ left \in SUBSET Accounts
    <2>1. duty[a] \in Duties /\ Relays(a, duty[a]) /\ duty[a].step = "broadcast"
      BY <1>3 DEF Types, Working, BroadcastNext
    <2>2. duty[a] # Idle
      BY <2>1, WorkFacts
    <2> QED
      BY <2>1, <2>2 DEF Relays, Duties
  <1>5. /\ w \in Duties /\ w.step = "broadcast" /\ w.packet = r /\ w.left = left \ {t}
        /\ duty' = [duty EXCEPT ![a] = w]
    <2>1. duty[a] \in Duties
      BY <1>4
    <2>2. w \in Duties /\ w.step = "broadcast" /\ w.packet = r /\ w.left = left \ {t}
      BY <1>4, <2>1 DEF Duties
    <2> QED
      BY <1>1, <2>2
  <1>6. p \in Packets /\ From(a, p) /\ p.to = All /\ p.body = r.body
    BY <1>4, RelayedOK, PacketFacts
  <1>7. t \in Accounts /\ t # a /\ For(t, p)
    BY <1>1, <1>4, <1>6 DEF For, From
  <1> HIDE DEF p
  <1>8. /\ duty' \in [Accounts -> Duties] /\ call' \in Duties
        /\ \A x, d : /\ InWork(x, d)' => InWork(x, d) \/ Sends(w, x, d)
                     /\ InWork(x, d) => InWork(x, d)' \/ Sends(duty[a], x, d)
                     /\ Sends(w, x, d) => InWork(x, d)'
        /\ Working'
    <2>1. Relays(a, w)
      BY <1>4, <1>5 DEF Relays
    <2>2. Relays(a, w)'
      BY <1>3, <2>1, SentStays
    <2> QED
      BY <1>2, <1>3, <1>5, <2>2, WorkChanges
  <1>9. /\ Typed(toClient', Messages)
        /\ \A x \in Accounts :
              /\ Down(x) \subseteq Down(x)'
              /\ \A m \in Down(x)' : \/ m \in Down(x)
                                     \/ x = t /\ link[x] = "up" /\ m = Envelope(t, p)
        /\ t \in connected /\ link[t] = "up" => InChannel(t, p.body)'
    <2>1. toClient' = Arrives(toClient, t, t, p) \/ toClient' = toClient
      BY <1>1 DEF p
    <2>2. t \in connected => toClient' = Arrives(toClient, t, t, p)
      BY <1>1 DEF p
    <2> QED
      BY <1>6, <1>7, <2>1, <2>2, ArrivesFacts
  <1>10. \A x, d : Sends(duty[a], x, d) <=> Sends(w, x, d) \/ (x = t /\ d = p.body)
    BY <1>1, <1>4, <1>5, <1>6 DEF Sends, Aimed
  <1>11. \A x \in Accounts, d \in Bodies :
            /\ InWork(x, d)' => InWork(x, d)
            /\ link[x] = "up" /\ InWork(x, d) => InWork(x, d)' \/ InChannel(x, d)'
    <2>1. link[t] = "up" => t \in connected
      BY <1>3, <1>7 DEF Types
    <2>2. \A x, d : Sends(w, x, d) => InWork(x, d)
      BY <1>10 DEF InWork
    <2> QED
      BY <1>8, <1>9, <1>10, <2>1, <2>2
  <1>12. \A d \in Bodies : p.body = d => Traffic(t, d) \/ InSlot(t, d)
    BY <1>10 DEF Traffic, InWork
  <1>13. Typed(toServer', Packets) /\ \A x \in Accounts : Up(x)' = Up(x)
    BY <1>2, <1>3, TypedChannels DEF Up
  <1> QED
    BY <1>2, <1>7, <1>8, <1>9, <1>11, <1>12, <1>13, RelayKeeps DEF clientVars, history

LEMMA CallNextKeeps ==
  ASSUME IInv, CallNext
  PROVE  IInv'
  <1> SUFFICES ASSUME NEW p, p = call.packet, NEW left, left = call.left
               PROVE  IInv'
    OBVIOUS
  <1>1. /\ call # Idle
        /\ UNCHANGED <<connected, remembered, slots, duty, sweep, link, clientVars,
                       toServer, history, turns>>
    BY DEF CallNext
  <1>2. Types /\ Working /\ SentOnce
    BY <1>1 DEF IInv, SentOnce, history
  <1>3. /\ call \in Duties /\ call.step = "broadcast" /\ From(Plugins, p) /\ p.to = All
        /\ p \in Packets /\ left \in SUBSET Accounts /\ Plugins \notin left
    <2>1. call \in Duties /\ Relays(Plugins, call) /\ call.step = "broadcast"
      BY <1>1, <1>2 DEF Types, Working
    <2> QED
      BY <1>1, <2>1 DEF Relays, Duties
  <1>4. /\ duty' \in [Accounts -> Duties]
        /\ Typed(toServer', Packets) /\ \A x \in Accounts : Up(x)' = Up(x)
        /\ \A x \in Accounts : Relays(x, duty[x])'
    <2>1. \A x \in Accounts : duty'[x] = duty[x] /\ Relays(x, duty[x])
      BY <1>1, <1>2 DEF Working
    <2>2. \A x \in Accounts : Relays(x, duty[x])'
      BY <1>2, <2>1, SentStays DEF Relays
    <2> QED
      BY <1>1, <1>2, <2>2, TypedChannels DEF Up, Types
  <1>5. \A x, d : InWork(x, d)' <=> Sends(call', x, d) \/ \E a \in Accounts : Sends(duty[a], x, d)
    BY <1>1 DEF InWork, Sends, Aimed
  <1>6. CASE left = {}
    <2>1. call' = Idle /\ toClient' = toClient
      BY <1>6 DEF CallNext
    <2>2. /\ Typed(toClient', Messages) /\ \A x \in Accounts : Down(x)' = Down(x)
          /\ call' \in Duties
      BY <2>1, <1>2, TypedChannels, WorkFacts DEF Down
    <2>3. Working'
      BY <1>4, <2>1 DEF Working
    <2>4. \A x \in Accounts, d \in Bodies : ~Sends(Idle, x, d) /\ ~Sends(call, x, d)
      BY <1>3, <1>6, IdleSendsNothing, IdsAssumption DEF Sends, Aimed
    <2>5. \A x \in Accounts, d \in Bodies : InWork(x, d)' <=> InWork(x, d)
      BY <1>5, <2>1, <2>4 DEF InWork
    <2>6. Stored' /\ Owing'
      <3>1. Stored'
        BY <1>1, <1>2, StoredKept DEF IInv
      <3>2. owed' \subseteq Owed({}, {}) /\ {} \in SUBSET Accounts
        BY <1>1 DEF Owed, Held, history
      <3>3. \A t, d : /\ InSlot(t, d)' <=> InSlot(t, d)
                      /\ InSweep(t, d)' => InSweep(t, d)
        BY <1>1 DEF InSlot, InSweep
      <3>4. \A t \in Accounts, d \in Bodies :
               InWork(t, d)' \/ InSweep(t, d)' => Traffic(t, d)
        BY <2>5, <3>3 DEF Traffic
      <3>5. link' = link /\ got' = got
        BY <1>1 DEF history
      <3> QED
        BY <1>4, <2>2, <2>5, <3>1, <3>2, <3>3, <3>4, <3>5, ServerOwing
    <2>7. /\ sent' \in [Bodies -> [from : Accounts \cup {Plugins, Nobody},
                                   to : Accounts \cup {Plugins, All, Nobody}]]
          /\ remembered \subseteq remembered' /\ remembered' \subseteq Accounts
          /\ DOMAIN slots' \subseteq Accounts /\ \A a \in DOMAIN slots' : slots'[a] \in SlotValues
          /\ sweep' \subseteq Accounts \X SlotValues
          /\ owed' \subseteq Accounts \X Bodies
      BY <1>1, <1>2 DEF Types, history
    <2> QED
      BY <1>1, <1>2, <1>4, <2>2, <2>3, <2>6, <2>7, ServerKeeps DEF clientVars, history
  <1>7. CASE left # {}
    <2>1. PICK t \in left :
             /\ IF t \in connected
                THEN Room(t) /\ toClient' = Arrives(toClient, t, t, p)
                ELSE UNCHANGED toClient
             /\ call' = [call EXCEPT !.left = @ \ {t}]
      BY <1>7 DEF CallNext
    <2>2. /\ call' \in Duties /\ call'.step = "broadcast" /\ call'.packet = p
          /\ call'.left = left \ {t} /\ t \in Accounts
      BY <1>3, <2>1 DEF Duties
    <2>3. Working'
      <3>1. From(Plugins, p)'
        BY <1>2, <1>3, SentStays
      <3>2. From(Plugins, call.packet)'
        BY <2>2, <3>1 DEF From, DataOK
      <3>3. Relays(Plugins, call)'
        BY <1>3, <2>2, <3>2 DEF Relays
      <3> QED
        BY <1>4, <2>2, <3>3 DEF Working
    <2>4. For(t, p)
      BY <1>3, <2>2, IdsAssumption DEF For, From
    <2>5. /\ Typed(toClient', Messages)
          /\ \A x \in Accounts :
                /\ Down(x) \subseteq Down(x)'
                /\ \A m \in Down(x)' : \/ m \in Down(x)
                                       \/ x = t /\ link[x] = "up" /\ m = Envelope(t, p)
          /\ t \in connected /\ link[t] = "up" => InChannel(t, p.body)'
      BY <1>3, <2>1, <2>2, ArrivesFacts
    <2>6. \A x, d : Sends(call, x, d) <=> Sends(call', x, d) \/ (x = t /\ d = p.body)
      BY <1>3, <2>1, <2>2 DEF Sends, Aimed
    <2>7. \A x \in Accounts, d \in Bodies :
             /\ InWork(x, d)' => InWork(x, d)
             /\ link[x] = "up" /\ InWork(x, d) => InWork(x, d)' \/ InChannel(x, d)'
      <3>1. link[t] = "up" => t \in connected
        BY <1>2, <2>2 DEF Types
      <3>2. \A x \in Accounts, d \in Bodies :
               InWork(x, d) <=> Sends(call, x, d) \/ \E a \in Accounts : Sends(duty[a], x, d)
        BY DEF InWork
      <3> QED
        BY <1>5, <2>5, <2>6, <3>1, <3>2
    <2>8. \A d \in Bodies : p.body = d => Traffic(t, d) \/ InSlot(t, d)
      BY <2>6 DEF Traffic, InWork
    <2> QED
      BY <1>1, <1>4, <2>2, <2>3, <2>4, <2>5, <2>7, <2>8, RelayKeeps DEF clientVars, history
  <1> QED
    BY <1>6, <1>7

\* The plugins of the server take a packet, and its sender gets an answer.
LEMMA HandleDataSendKeeps ==
  ASSUME IInv, NEW a \in Accounts, NEW r, HandleDataSend(a, r),
         From(a, r), r.to \in {Plugins, All},
         Typed(toServer', Packets), \A x \in Accounts : Up(x)' \subseteq Up(x),
         duty' = duty \/ (duty' = [duty EXCEPT ![a] = Idle]
                            /\ \A x \in Accounts, d \in Bodies : ~Sends(duty[a], x, d))
  PROVE  IInv'
  <1>1. /\ UNCHANGED <<connected, remembered, slots, call, sweep, link, lists, pending, sent, owed>>
        /\ \E type \in {"sendok", "error"} : Answer(a, type)
        /\ got' = IF r.valid THEN got \cup {<<Plugins, r.body>>} ELSE got
    BY DEF HandleDataSend, clientVars
  <1>2. PICK type \in {"sendok", "error"} : Answer(a, type)
    BY <1>1
  <1>3. Types /\ Working /\ SentOnce
    BY <1>1 DEF IInv, SentOnce
  <1>4. Expects(Plugins, r.body)
    <2>1. Plugins # a
      BY IdsAssumption
    <2> QED
      BY <2>1 DEF From, DataOK, Expects
  <1> DEFINE c == Control(type, a)
  <1>5. c \in Packets /\ ControlOK(c) /\ \A d \in Bodies : c.body # d
    BY PacketFacts, BodiesAssumption DEF ControlOK
  <1>6. toClient' = Arrives(toClient, a, a, c)
    BY <1>2 DEF Answer
  <1> HIDE DEF c
  <1>7. /\ Typed(toClient', Messages)
        /\ \A x \in Accounts :
              /\ Down(x) \subseteq Down(x)'
              /\ \A m \in Down(x)' : \/ m \in Down(x)
                                     \/ x = a /\ link[x] = "up" /\ m = Envelope(a, c)
    BY <1>5, <1>6, ArrivesFacts
  <1>8. /\ duty' \in [Accounts -> Duties] /\ call' \in Duties /\ Working'
        /\ \A t \in Accounts, d \in Bodies : InWork(t, d)' <=> InWork(t, d)
    <2>1. CASE duty' = duty
      <3>1. \A t, d : InWork(t, d)' <=> InWork(t, d)
        BY <1>1, <2>1 DEF InWork, Sends, Aimed
      <3> QED
        BY <1>1, <1>3, <2>1, <3>1, WorkingKept DEF Types
    <2>2. CASE /\ duty' = [duty EXCEPT ![a] = Idle]
               /\ \A x \in Accounts, d \in Bodies : ~Sends(duty[a], x, d)
      <3>1. Idle \in Duties /\ Relays(a, Idle)'
        BY WorkFacts DEF Relays
      <3>2. /\ duty' \in [Accounts -> Duties] /\ call' \in Duties
            /\ \A x, d : /\ InWork(x, d)' => InWork(x, d) \/ Sends(Idle, x, d)
                         /\ InWork(x, d) => InWork(x, d)' \/ Sends(duty[a], x, d)
            /\ Working'
        BY <1>1, <1>3, <2>2, <3>1, WorkChanges
      <3>3. \A x \in Accounts, d \in Bodies : ~Sends(Idle, x, d)
        BY IdleSendsNothing, IdsAssumption
      <3> QED
        BY <2>2, <3>2, <3>3
    <2> QED
      BY <2>1, <2>2
  <1>9. got' = got \/ (got' = got \cup {<<Plugins, r.body>>} /\ Expects(Plugins, r.body))
    BY <1>1, <1>4
  <1> QED
    BY <1>1, <1>5, <1>7, <1>8, <1>9, RelayKeeps

LEMMA BroadcastEndsKeeps ==
  ASSUME IInv, NEW a \in Accounts, BroadcastEnds(a)
  PROVE  IInv'
  <1> SUFFICES ASSUME NEW r, r = duty[a].packet PROVE IInv'
    OBVIOUS
  <1>1. /\ duty[a].step = "broadcast" /\ duty[a].left = {} /\ HandleDataSend(a, r)
        /\ duty' = [duty EXCEPT ![a] = Idle] /\ UNCHANGED toServer
    BY DEF BroadcastEnds
  <1>2. From(a, r) /\ r.to = All
    <2>1. Relays(a, duty[a]) /\ duty[a] # Idle
      BY <1>1, WorkFacts DEF IInv, Working
    <2> QED
      BY <1>1, <2>1 DEF Relays
  <1>3. Typed(toServer', Packets) /\ \A x \in Accounts : Up(x)' = Up(x)
    BY <1>1, TypedChannels DEF Up, IInv
  <1>4. \A x \in Accounts, d \in Bodies : ~Sends(duty[a], x, d)
    BY <1>1 DEF Sends, Aimed
  <1> QED
    BY <1>1, <1>2, <1>3, <1>4, HandleDataSendKeeps

LEMMA TakeForPluginsKeeps ==
  ASSUME IInv, NEW a \in Accounts, TakeForPlugins(a)
  PROVE  IInv'
  <1> SUFFICES ASSUME NEW r, r = Received(a) PROVE IInv'
    OBVIOUS
  <1>1. /\ ServerReads(a) /\ r.type = "data" /\ r.to = Plugins
        /\ HandleDataSend(a, r) /\ UNCHANGED duty
    BY DEF TakeForPlugins
  <1>2. /\ From(a, r)
        /\ Typed(toServer', Packets) /\ \A x \in Accounts : Up(x)' \subseteq Up(x)
    BY <1>1, ServerReadFacts
  <1> QED
    BY <1>1, <1>2, HandleDataSendKeeps

LEMMA HandleErrorKeeps ==
  ASSUME IInv, NEW a \in Accounts, HandleError(a)
  PROVE  IInv'
  <1>1. /\ ServerReads(a)
        /\ UNCHANGED <<connected, remembered, slots, duty, call, sweep, link, clientVars, history>>
    BY DEF HandleError
  <1>2. /\ Typed(toServer', Packets) /\ \A x \in Accounts : Up(x)' \subseteq Up(x)
        /\ Types /\ Working /\ SentOnce
    BY <1>1, ServerReadFacts DEF IInv, SentOnce, history
  <1>3. /\ duty' \in [Accounts -> Duties] /\ call' \in Duties /\ Working'
        /\ \A t, d : InWork(t, d)' <=> InWork(t, d)
    <2>1. \A t, d : InWork(t, d)' <=> InWork(t, d)
      BY <1>1 DEF InWork, Sends, Aimed
    <2> QED
      BY <1>1, <1>2, <2>1, WorkingKept DEF Types
  <1>4. PICK p \in Packets :
           /\ For(a, p) \/ ControlOK(p)
           /\ \A d \in Bodies : p.body = d => InSlot(a, d)
           /\ toClient' = Arrives(toClient, a, a, p) \/ toClient' = toClient
    <2>1. CASE a \in DOMAIN slots /\ toClient' = Arrives(toClient, a, a, slots[a].packet)
      <3>1. SlotFor(a, slots[a]) /\ slots[a].packet \in Packets
        BY <2>1 DEF IInv, Types, Stored, SlotValues
      <3> QED
        BY <2>1, <3>1 DEF SlotFor, InSlot
    <2>2. CASE toClient' = toClient
      <3>1. /\ Control("error", a) \in Packets /\ ControlOK(Control("error", a))
            /\ \A d \in Bodies : Control("error", a).body # d
        BY PacketFacts, BodiesAssumption DEF ControlOK
      <3> QED
        BY <2>2, <3>1
    <2> QED
      BY <2>1, <2>2 DEF HandleError
  <1>5. /\ Typed(toClient', Messages)
        /\ \A x \in Accounts :
              /\ Down(x) \subseteq Down(x)'
              /\ \A m \in Down(x)' : \/ m \in Down(x)
                                     \/ x = a /\ link[x] = "up" /\ m = Envelope(a, p)
    BY <1>4, ArrivesFacts
  <1> QED
    BY <1>1, <1>2, <1>3, <1>4, <1>5, RelayKeeps DEF clientVars, history

\* The acknowledgement that empties the slot was in flight.
LEMMA HandleSendOkKeeps ==
  ASSUME IInv, NEW a \in Accounts, HandleSendOk(a)
  PROVE  IInv'
  <1>1. /\ ServerReads(a) /\ Received(a).type = "sendok"
        /\ slots' = [b \in DOMAIN slots \ {a} |-> slots[b]]
        /\ UNCHANGED <<connected, remembered, duty, call, sweep, link, clientVars,
                       toClient, history, turns>>
    BY DEF HandleSendOk
  <1>2. /\ Typed(toServer', Packets) /\ \A x \in Accounts : Up(x)' \subseteq Up(x)
        /\ link[a] = "up" /\ Acknowledged(a)
    BY <1>1, ServerReadFacts DEF Acknowledged
  <1>3. Types /\ Stored /\ Working /\ SentOnce
    BY <1>1 DEF IInv, SentOnce, history
  <1>4. \A b \in DOMAIN slots' : b \in DOMAIN slots /\ slots'[b] = slots[b]
    BY <1>1
  <1>5. Stored' /\ Working'
    BY <1>1, <1>3, <1>4, StoredKept, WorkingKept
  <1>6. Typed(toClient', Messages) /\ \A x \in Accounts : Down(x)' = Down(x)
    BY <1>1, <1>3, TypedChannels DEF Down
  <1>7. Owing'
    <2>1. owed' \subseteq Owed({}, {}) /\ {} \in SUBSET Accounts
      BY <1>1 DEF Owed, Held, history
    <2>2. \A t \in Accounts, d \in Bodies :
             InSlot(t, d) => InSlot(t, d)' \/ (link[t] = "up" /\ Acknowledged(t))
      BY <1>1, <1>2 DEF InSlot
    <2>3. \A t, d : /\ InWork(t, d)' <=> InWork(t, d)
                    /\ InSweep(t, d)' <=> InSweep(t, d)
      BY <1>1 DEF InWork, InSweep, Sends, Aimed
    <2>4. \A t \in Accounts, d \in Bodies :
             InWork(t, d)' \/ InSweep(t, d)' => Traffic(t, d)
      BY <2>3 DEF Traffic
    <2>5. link' = link /\ got' = got
      BY <1>1 DEF history
    <2> QED
      BY <1>2, <1>6, <2>1, <2>2, <2>3, <2>4, <2>5, ServerOwing
  <1>8. /\ sent' \in [Bodies -> [from : Accounts \cup {Plugins, Nobody},
                                 to : Accounts \cup {Plugins, All, Nobody}]]
        /\ remembered \subseteq remembered' /\ remembered' \subseteq Accounts
        /\ duty' \in [Accounts -> Duties] /\ call' \in Duties
        /\ sweep' \subseteq Accounts \X SlotValues
        /\ owed' \subseteq Accounts \X Bodies
        /\ DOMAIN slots' \subseteq Accounts /\ \A b \in DOMAIN slots' : slots'[b] \in SlotValues
    BY <1>1, <1>3, <1>4 DEF Types, history
  <1> QED
    BY <1>1, <1>2, <1>3, <1>5, <1>6, <1>7, <1>8, ServerKeeps DEF clientVars, history

LEMMA SweepStartsKeeps ==
  ASSUME IInv, SweepStarts
  PROVE  IInv'
  <1>1. /\ sweep' = {<<a, slots[a]>> : a \in DOMAIN slots}
        /\ UNCHANGED <<connected, remembered, slots, duty, call, link, clientVars,
                       toClient, toServer, history>>
    BY DEF SweepStarts
  <1>2. Types /\ Stored /\ Working /\ SentOnce
    BY <1>1 DEF IInv, SentOnce, history
  <1>3. Stored'
    <2>1. ASSUME NEW a \in DOMAIN slots PROVE SlotFor(a, slots[a])'
      <3>1. SlotFor(a, slots[a])
        BY <1>2 DEF Stored
      <3> QED
        BY <1>1, <1>2, <3>1, SentStays DEF SlotFor, For, DataOK, history
    <2> QED
      BY <1>1, <2>1 DEF Stored, SlotFor, For, DataOK
  <1>4. Working'
    BY <1>1, <1>2, WorkingKept
  <1>5. /\ Typed(toClient', Messages) /\ Typed(toServer', Packets)
        /\ \A x \in Accounts : Down(x)' = Down(x) /\ Up(x)' = Up(x)
    BY <1>1, <1>2, TypedChannels DEF Down, Up
  <1>6. Owing'
    <2>1. owed' \subseteq Owed({}, {}) /\ {} \in SUBSET Accounts
      BY <1>1 DEF Owed, Held, history
    <2>2. \A t, d : /\ InWork(t, d)' <=> InWork(t, d)
                    /\ InSlot(t, d)' <=> InSlot(t, d)
      BY <1>1 DEF InWork, InSlot, Sends, Aimed
    <2>3. \A t, d : InSweep(t, d)' => InSlot(t, d)
      BY <1>1 DEF InSweep, InSlot
    <2>4. \A t \in Accounts, d \in Bodies :
             InWork(t, d)' \/ InSweep(t, d)' => Traffic(t, d) \/ InSlot(t, d)
      BY <2>2, <2>3 DEF Traffic
    <2>5. link' = link /\ got' = got
      BY <1>1 DEF history
    <2> QED
      BY <1>5, <2>1, <2>2, <2>4, <2>5, ServerOwing
  <1>7. /\ sent' \in [Bodies -> [from : Accounts \cup {Plugins, Nobody},
                                 to : Accounts \cup {Plugins, All, Nobody}]]
        /\ remembered \subseteq remembered' /\ remembered' \subseteq Accounts
        /\ duty' \in [Accounts -> Duties] /\ call' \in Duties
        /\ sweep' \subseteq Accounts \X SlotValues
        /\ owed' \subseteq Accounts \X Bodies
        /\ DOMAIN slots' \subseteq Accounts /\ \A b \in DOMAIN slots' : slots'[b] \in SlotValues
    BY <1>1, <1>2 DEF Types, history
  <1> QED
    BY <1>1, <1>2, <1>3, <1>4, <1>5, <1>6, <1>7, ServerKeeps DEF clientVars, history

LEMMA SweepNextKeeps ==
  ASSUME IInv, SweepNext
  PROVE  IInv'
  <1>1. PICK s \in sweep :
           /\ IF s[1] \in connected
              THEN Room(s[1]) /\ toClient' = Arrives(toClient, s[1], s[1], SlotPacket(s[1], s[2]))
              ELSE UNCHANGED toClient
           /\ sweep' = sweep \ {s}
    BY DEF SweepNext
  <1>2. UNCHANGED <<connected, remembered, slots, duty, call, link, clientVars,
                    toServer, history, turns>>
    BY DEF SweepNext
  <1>3. Types /\ Working /\ SentOnce
    BY <1>2 DEF IInv, SentOnce, history
  <1> DEFINE a == s[1]
             p == s[2].packet
  <1>4. a \in Accounts /\ s[2] \in SlotValues /\ SlotFor(a, s[2])
    BY <1>1 DEF IInv, Types, Stored
  <1>5. p \in Packets /\ SlotPacket(a, s[2]) = p /\ For(a, p)
    BY <1>4 DEF SlotValues, SlotFor, SlotPacket
  <1>6. toClient' = Arrives(toClient, a, a, p) \/ toClient' = toClient
    BY <1>1, <1>5
  <1>7. \A d \in Bodies : p.body = d => Traffic(a, d)
    BY <1>1 DEF Traffic, InSweep
  <1> HIDE DEF a, p
  <1>8. /\ Typed(toClient', Messages)
        /\ \A x \in Accounts :
              /\ Down(x) \subseteq Down(x)'
              /\ \A m \in Down(x)' : \/ m \in Down(x)
                                     \/ x = a /\ link[x] = "up" /\ m = Envelope(a, p)
    BY <1>4, <1>5, <1>6, ArrivesFacts
  <1>9. /\ duty' \in [Accounts -> Duties] /\ call' \in Duties /\ Working'
        /\ \A t, d : InWork(t, d)' <=> InWork(t, d)
    <2>1. \A t, d : InWork(t, d)' <=> InWork(t, d)
      BY <1>2 DEF InWork, Sends, Aimed
    <2> QED
      BY <1>2, <1>3, <2>1, WorkingKept DEF Types
  <1>10. Typed(toServer', Packets) /\ \A x \in Accounts : Up(x)' = Up(x)
    BY <1>2, <1>3, TypedChannels DEF Up
  <1> QED
    BY <1>1, <1>2, <1>4, <1>5, <1>7, <1>8, <1>9, <1>10, RelayKeeps DEF clientVars, history

-----------------------------------------------------------------------------
(* Connections                                                                *)

\* The pairs of an account whose connection changes are the step's own matter.
LEMMA OthersOwing ==
  ASSUME IInv, NEW a \in Accounts, owed' \subseteq owed, UNCHANGED <<got, duty, call, sweep>>,
         \A t \in Accounts \ {a} :
            /\ link'[t] = link[t]
            /\ Up(t)' = Up(t) /\ Down(t) \subseteq Down(t)'
            /\ \A m \in Down(t)' : m \in Down(t) \/ \A d \in Bodies : m.packet.body # d
            /\ \A d \in Bodies : InSlot(t, d)' <=> InSlot(t, d),
         \A d \in Bodies : <<a, d>> \in owed' => Done(a, d)' \/ Safe(a, d)'
  PROVE  Owing'
  <1> SUFFICES ASSUME NEW t \in Accounts, NEW d \in Bodies, <<t, d>> \in owed', t # a
               PROVE  Done(t, d)' \/ Safe(t, d)'
    BY DEF Owing
  <1>1. Done(t, d) \/ Safe(t, d)
    BY DEF IInv, Owing
  <1>2. Done(t, d) => Done(t, d)'
    BY DEF Done
  <1>3. \A b \in Bodies : /\ InChannel(t, b)' <=> InChannel(t, b)
                          /\ InWork(t, b)' <=> InWork(t, b)
                          /\ InSweep(t, b)' <=> InSweep(t, b)
    BY DEF InChannel, InWork, InSweep, Sends, Aimed
  <1>4. Acknowledged(t)' <=> Acknowledged(t)
    BY DEF Acknowledged
  <1>5. \A b \in Bodies : Traffic(t, b)' <=> Traffic(t, b)
    BY <1>3 DEF Traffic
  <1> QED
    BY <1>1, <1>2, <1>3, <1>4, <1>5, StaysSafe

LEMMA NoticeFacts ==
  ASSUME Types, NEW a \in Accounts, NEW type \in {"new_login", "del_login"}, NEW accounts,
         toClient' = Announce(toClient, accounts, Control(type, a))
  PROVE  /\ Typed(toClient', Messages)
         /\ \A x \in Accounts :
              /\ Down(x) \subseteq Down(x)'
              /\ \A m \in Down(x)' :
                    \/ m \in Down(x)
                    \/ /\ link'[x] = "up" /\ ControlOK(m.packet)
                       /\ \A d \in Bodies : m.packet.body # d
  <1> DEFINE c == Control(type, a)
  <1>1. c \in Packets /\ ControlOK(c) /\ \A d \in Bodies : c.body # d
    BY PacketFacts, BodiesAssumption DEF ControlOK
  <1> HIDE DEF c
  <1>2. /\ Typed(toClient', Messages)
        /\ \A x \in Accounts :
               Down(x)' = Down(x) \cup (IF x \in accounts /\ link'[x] = "up"
                                        THEN {Envelope(x, c)} ELSE {})
    BY <1>1, TypedChannels, AnnounceSets DEF c
  <1>3. \A x : Envelope(x, c).packet = c
    BY DEF Envelope
  <1> QED
    BY <1>1, <1>2, <1>3

LEMMA LoginKeeps ==
  ASSUME IInv, NEW a \in Accounts, Login(a)
  PROVE  IInv'
  <1> USE DEF clientVars
  <1>1. /\ link[a] = "down" /\ link' = [link EXCEPT ![a] = "up"]
        /\ connected' = connected \cup {a} /\ remembered' = remembered \cup {a}
        /\ toClient' = Announce(toClient, connected', Control("new_login", a))
        /\ UNCHANGED <<slots, duty, call, sweep, clientVars, toServer, sent, got, turns>>
    BY DEF Login
  <1>2. /\ owed' \subseteq owed
        /\ (\E p \in UnderWay(a) : <<a, p.body>> \notin Held({a})) => \A w \in owed' : w[1] # a
    BY DEF Login, Forgotten
  <1>3. Types /\ Stored /\ Working /\ SentOnce
    BY <1>1 DEF IInv, SentOnce
  <1>4. link'[a] = "up" /\ \A x \in Accounts \ {a} : link'[x] = link[x]
    BY <1>1, <1>3 DEF Types
  <1>5. /\ Typed(toClient', Messages)
        /\ \A x \in Accounts :
              /\ Down(x) \subseteq Down(x)'
              /\ \A m \in Down(x)' :
                    \/ m \in Down(x)
                    \/ /\ link'[x] = "up" /\ ControlOK(m.packet)
                       /\ \A d \in Bodies : m.packet.body # d
    BY <1>1, <1>3, NoticeFacts
  <1>6. \A x \in Accounts : Up(x)' = Up(x)
    BY <1>1 DEF Up
  <1>7. Down(a) = {} /\ Up(a) = {}
    BY <1>1 DEF IInv, Quiet
  <1>8. Types'
    <2>1. link \in [Accounts -> {"up", "down", "dead"}] /\ connected = {x \in Accounts : link[x] # "down"}
      BY <1>3 DEF Types
    <2>2. link' \in [Accounts -> {"up", "down", "dead"}]
      BY <1>1, <2>1
    <2>3. connected' = {x \in Accounts : link'[x] # "down"}
      BY <1>1, <1>4, <2>1
    <2>4. toServer' \in [Accounts -> Seq(Packets)] /\ toClient' \in [Accounts -> Seq(Messages)]
      BY <1>1, <1>3, <1>5 DEF Types, Typed
    <2> QED
      BY <1>1, <1>2, <1>3, <2>2, <2>3, <2>4 DEF Types
  <1>9. Quiet'
    BY <1>1, <1>4, <1>5, <1>6 DEF IInv, Quiet
  <1>10. Stored' /\ Working'
    BY <1>1, <1>3, StoredKept, WorkingKept
  <1>11. Channels' /\ Delivered'
    BY <1>1, <1>3, <1>5, <1>6, ChannelsKept, DeliveredStays DEF IInv
  <1>12. Owing'
    <2>1. ASSUME NEW d \in Bodies, <<a, d>> \in owed' PROVE Done(a, d)' \/ Safe(a, d)'
      <3>1. Done(a, d) => Done(a, d)'
        BY <1>1 DEF Done
      <3>2. Done(a, d) \/ InSlot(a, d)
        BY <1>1, <1>2, <2>1 DEF IInv, Owing, Safe
      <3>3. InSlot(a, d) => InSlot(a, d)'
        BY <1>1 DEF InSlot
      <3>4. ~Acknowledged(a)'
        BY <1>6, <1>7 DEF Acknowledged
      <3>5. \A p \in UnderWay(a) : <<a, p.body>> \in Held({a})
        BY <1>2, <2>1
      <3>6. ASSUME NEW b \in Bodies, Traffic(a, b)', InSlot(a, d) PROVE b = d
        <4>1. ~InChannel(a, b)'
          BY <1>5, <1>7 DEF InChannel
        <4>2. InWork(a, b) \/ InSweep(a, b)
          <5>1. (InWork(a, b)' <=> InWork(a, b)) /\ (InSweep(a, b)' <=> InSweep(a, b))
            BY <1>1 DEF InWork, InSweep, Sends, Aimed
          <5> QED
            BY <3>6, <4>1, <5>1 DEF Traffic
        <4>3. \E p \in UnderWay(a) : p.body = b
          <5>1. CASE InSweep(a, b)
            BY <5>1 DEF InSweep, UnderWay
          <5>2. CASE InWork(a, b)
            <6>1. PICK work \in Range(duty) \cup {call} : Sends(work, a, b)
              BY <1>3, <5>2 DEF InWork, Range, Types
            <6> QED
              BY <6>1 DEF Sends, UnderWay
          <5> QED
            BY <4>2, <5>1, <5>2
        <4>4. <<a, b>> \in Held({a})
          BY <3>5, <4>3
        <4> QED
          BY <3>6, <4>4 DEF Held, InSlot
      <3> QED
        BY <1>4, <3>1, <3>2, <3>3, <3>4, <3>6 DEF Safe
    <2>2. \A t, d : InSlot(t, d)' <=> InSlot(t, d)
      BY <1>1 DEF InSlot
    <2>3. \A t \in Accounts \ {a} :
             /\ link'[t] = link[t] /\ Up(t)' = Up(t) /\ Down(t) \subseteq Down(t)'
             /\ \A m \in Down(t)' : m \in Down(t) \/ \A d \in Bodies : m.packet.body # d
             /\ \A d \in Bodies : InSlot(t, d)' <=> InSlot(t, d)
      BY <1>4, <1>5, <1>6, <2>2
    <2>4. owed' \subseteq owed /\ UNCHANGED <<got, duty, call, sweep>>
      BY <1>1, <1>2
    <2> QED
      BY <2>1, <2>3, <2>4, OthersOwing
  <1> QED
    BY <1>8, <1>9, <1>10, <1>11, <1>12 DEF IInv

LEMMA DropKeeps ==
  ASSUME IInv, NEW a \in Accounts, Drop(a)
  PROVE  IInv'
  <1>1. /\ link[a] = "up" /\ link' = [link EXCEPT ![a] = "dead"]
        /\ lists' = [lists EXCEPT ![a] = {}]
        /\ pending' = [pending EXCEPT ![a] = NoPacket]
        /\ toClient' = [toClient EXCEPT ![a] = <<>>]
        /\ toServer' = [toServer EXCEPT ![a] = <<>>]
        /\ owed' = Forgotten(a)
        /\ UNCHANGED <<connected, remembered, slots, duty, call, sweep, sent, got>>
    BY DEF Drop, serverVars
  <1>2. Types /\ SentOnce
    BY <1>1 DEF IInv, SentOnce
  <1>3. owed' \subseteq owed /\ \A d : <<a, d>> \notin owed'
    BY <1>1 DEF Forgotten
  <1>4. link'[a] = "dead" /\ \A x \in Accounts \ {a} : link'[x] = link[x]
    BY <1>1, <1>2 DEF Types
  <1>5. /\ toClient' \in [Accounts -> Seq(Messages)]
        /\ Down(a)' = {} /\ \A x \in Accounts \ {a} : Down(x)' = Down(x)
    <2>1. toClient \in [Accounts -> Seq(Messages)]
      BY <1>2 DEF Types
    <2>2. toClient'[a] = <<>> /\ \A x \in Accounts \ {a} : toClient'[x] = toClient[x]
      BY <1>1, <2>1
    <2> QED
      BY <1>1, <2>1, <2>2, ToSetEmpty DEF Down
  <1>6. /\ toServer' \in [Accounts -> Seq(Packets)]
        /\ Up(a)' = {} /\ \A x \in Accounts \ {a} : Up(x)' = Up(x)
    <2>1. toServer \in [Accounts -> Seq(Packets)]
      BY <1>2 DEF Types
    <2>2. toServer'[a] = <<>> /\ \A x \in Accounts \ {a} : toServer'[x] = toServer[x]
      BY <1>1, <2>1
    <2> QED
      BY <1>1, <2>1, <2>2, ToSetEmpty DEF Up
  <1>7. /\ pending' \in [Accounts -> Packets] /\ pending'[a] = NoPacket
        /\ \A x \in Accounts \ {a} : pending'[x] = pending[x]
    <2>1. pending \in [Accounts -> Packets] /\ NoPacket \in Packets
      BY <1>2, PacketFacts DEF Types
    <2> QED
      BY <1>1, <2>1
  <1>8. Types'
    <2>1. /\ link \in [Accounts -> {"up", "down", "dead"}]
          /\ connected = {x \in Accounts : link[x] # "down"}
          /\ lists \in [Accounts -> SUBSET Accounts]
      BY <1>2 DEF Types
    <2>2. link' \in [Accounts -> {"up", "down", "dead"}] /\ lists' \in [Accounts -> SUBSET Accounts]
      BY <1>1, <2>1
    <2>3. connected' = {x \in Accounts : link'[x] # "down"}
      BY <1>1, <1>4, <2>1
    <2> QED
      BY <1>1, <1>2, <1>3, <1>5, <1>6, <1>7, <2>2, <2>3 DEF Types
  <1>9. Quiet'
    BY <1>4, <1>5, <1>6, <1>7 DEF IInv, Quiet
  <1>10. Stored' /\ Working'
    BY <1>1, <1>2, StoredKept, WorkingKept DEF IInv
  <1>11. Channels' /\ Delivered'
    <2>1. \A x \in Accounts :
             /\ Down(x)' \subseteq Down(x) /\ Up(x)' \subseteq Up(x)
             /\ pending'[x] = pending[x] \/ pending'[x] = NoPacket
      BY <1>5, <1>6, <1>7
    <2> QED
      BY <1>1, <1>2, <2>1, ChannelsKept, DeliveredStays DEF IInv
  <1>12. Owing'
    <2>1. \A t, d : InSlot(t, d)' <=> InSlot(t, d)
      BY <1>1 DEF InSlot
    <2>2. \A t \in Accounts \ {a} :
             /\ link'[t] = link[t] /\ Up(t)' = Up(t) /\ Down(t) \subseteq Down(t)'
             /\ \A m \in Down(t)' : m \in Down(t) \/ \A d \in Bodies : m.packet.body # d
             /\ \A d \in Bodies : InSlot(t, d)' <=> InSlot(t, d)
      BY <1>4, <1>5, <1>6, <2>1
    <2>3. UNCHANGED <<got, duty, call, sweep>>
      BY <1>1
    <2> QED
      BY <1>3, <2>2, <2>3, OthersOwing
  <1> QED
    BY <1>8, <1>9, <1>10, <1>11, <1>12 DEF IInv

LEMMA CloseConnectionKeeps ==
  ASSUME IInv, NEW a \in Accounts, CloseConnection(a)
  PROVE  IInv'
  <1>1. /\ link[a] = "dead" /\ link' = [link EXCEPT ![a] = "down"]
        /\ connected' = connected \ {a} /\ remembered' = remembered \ {a}
        /\ slots' = [b \in DOMAIN slots \ {a} |-> slots[b]]
        /\ owed' = Forgotten(a)
        /\ toClient' = Announce(toClient, connected', Control("del_login", a))
        /\ UNCHANGED <<duty, call, sweep, lists, pending, toServer, sent, got>>
    BY DEF CloseConnection, Without, clientVars
  <1>2. Types /\ Stored /\ SentOnce
    BY <1>1 DEF IInv, SentOnce
  <1>3. owed' \subseteq owed /\ \A d : <<a, d>> \notin owed'
    BY <1>1 DEF Forgotten
  <1>4. link'[a] = "down" /\ \A x \in Accounts \ {a} : link'[x] = link[x]
    BY <1>1, <1>2 DEF Types
  <1>5. /\ Typed(toClient', Messages)
        /\ \A x \in Accounts :
              /\ Down(x) \subseteq Down(x)'
              /\ \A m \in Down(x)' :
                    \/ m \in Down(x)
                    \/ /\ link'[x] = "up" /\ ControlOK(m.packet)
                       /\ \A d \in Bodies : m.packet.body # d
    BY <1>1, <1>2, NoticeFacts
  <1>6. \A x \in Accounts : Up(x)' = Up(x)
    BY <1>1 DEF Up
  <1>7. \A b \in DOMAIN slots' : b \in DOMAIN slots /\ slots'[b] = slots[b]
    BY <1>1
  <1>8. Types'
    <2>1. link \in [Accounts -> {"up", "down", "dead"}] /\ connected = {x \in Accounts : link[x] # "down"}
      BY <1>2 DEF Types
    <2>2. link' \in [Accounts -> {"up", "down", "dead"}]
      BY <1>1, <2>1
    <2>3. connected' = {x \in Accounts : link'[x] # "down"}
      BY <1>1, <1>4, <2>1
    <2>4. toServer' \in [Accounts -> Seq(Packets)] /\ toClient' \in [Accounts -> Seq(Messages)]
      BY <1>1, <1>2, <1>5 DEF Types, Typed
    <2> QED
      BY <1>1, <1>2, <1>3, <1>7, <2>2, <2>3, <2>4 DEF Types
  <1>9. Quiet'
    BY <1>1, <1>4, <1>5, <1>6 DEF IInv, Quiet
  <1>10. Stored' /\ Working'
    BY <1>1, <1>2, <1>7, StoredKept, WorkingKept DEF IInv
  <1>11. Channels' /\ Delivered'
    BY <1>1, <1>2, <1>5, <1>6, ChannelsKept, DeliveredStays DEF IInv
  <1>12. Owing'
    <2>1. \A t \in Accounts \ {a} : \A d : InSlot(t, d)' <=> InSlot(t, d)
      BY <1>1 DEF InSlot
    <2>2. \A t \in Accounts \ {a} :
             /\ link'[t] = link[t] /\ Up(t)' = Up(t) /\ Down(t) \subseteq Down(t)'
             /\ \A m \in Down(t)' : m \in Down(t) \/ \A d \in Bodies : m.packet.body # d
             /\ \A d \in Bodies : InSlot(t, d)' <=> InSlot(t, d)
      BY <1>4, <1>5, <1>6, <2>1
    <2>3. UNCHANGED <<got, duty, call, sweep>>
      BY <1>1
    <2> QED
      BY <1>3, <2>2, <2>3, OthersOwing
  <1> QED
    BY <1>8, <1>9, <1>10, <1>11, <1>12 DEF IInv

-----------------------------------------------------------------------------
LEMMA StutterKeeps ==
  ASSUME IInv, UNCHANGED vars
  PROVE  IInv'
  <1> USE DEF vars, serverVars, clientVars, history
  <1>1. Types' /\ SentOnce
    BY DEF IInv, Types, SentOnce
  <1>2. \A x \in Accounts : Down(x)' = Down(x) /\ Up(x)' = Up(x)
    BY DEF Down, Up
  <1>3. Quiet'
    BY <1>2 DEF IInv, Quiet
  <1>4. Stored' /\ Working' /\ Delivered'
    BY <1>1, StoredKept, WorkingKept, DeliveredStays DEF IInv
  <1>5. Channels'
    BY <1>1, <1>2, ChannelsKept DEF IInv
  <1>6. Owing'
    BY <1>2, SendingOwing
  <1> QED
    BY <1>1, <1>3, <1>4, <1>5, <1>6 DEF IInv

LEMMA NextKeeps == IInv /\ [Next]_vars => IInv'
  <1> SUFFICES ASSUME IInv, [Next]_vars PROVE IInv'
    OBVIOUS
  <1>1. ASSUME NEW a \in Accounts, Login(a) \/ Drop(a) \/ CloseConnection(a) PROVE IInv'
    BY <1>1, LoginKeeps, DropKeeps, CloseConnectionKeeps
  <1>2. ASSUME NEW a \in Accounts, ClientStep(a) PROVE IInv'
    BY <1>2, ReceiveSilentKeeps, ReceiveDataKeeps, ReceiveErrorKeeps DEF ClientStep
  <1>3. ASSUME NEW a \in Accounts, HandlerStep(a) PROVE IInv'
    BY <1>3, TakeDirectKeeps, ForwardKeeps, TakeBroadcastKeeps, BroadcastNextKeeps,
       BroadcastEndsKeeps, TakeForPluginsKeeps, HandleSendOkKeeps, HandleErrorKeeps
       DEF HandlerStep
  <1>4. ASSUME NEW a \in Accounts, Keepalive(a) PROVE IInv'
    BY <1>4, KeepaliveKeeps
  <1>5. ASSUME NEW a \in Accounts, NEW t \in Accounts \cup {Plugins, All}, NEW d \in Bodies,
               ClientSend(a, t, d)
        PROVE  IInv'
    BY <1>5, ClientSendKeeps
  <1>6. ASSUME NEW a \in Accounts, NEW d \in Bodies, PluginSend(a, d) PROVE IInv'
    BY <1>6, PluginSendKeeps
  <1>7. ASSUME NEW d \in Bodies, PluginBroadcast(d) PROVE IInv'
    BY <1>7, PluginBroadcastKeeps
  <1>8. ASSUME CallNext \/ SweepStarts \/ SweepNext PROVE IInv'
    BY <1>8, CallNextKeeps, SweepStartsKeeps, SweepNextKeeps
  <1>9. ASSUME UNCHANGED vars PROVE IInv'
    BY <1>9, StutterKeeps
  <1> QED
    BY <1>1, <1>2, <1>3, <1>4, <1>5, <1>6, <1>7, <1>8, <1>9 DEF Next

LEMMA Invariance == Spec => []IInv
  BY InitIInv, NextKeeps, PTL DEF Spec

-----------------------------------------------------------------------------
(* Results                                                                    *)

\* Every variable has its type, whatever is in flight.
THEOREM TypeCorrect == Spec => []TypeOK
  <1>1. ASSUME IInv PROVE TypeOK
    <2>1. /\ connected \subseteq remembered /\ remembered \subseteq Accounts
          /\ DOMAIN slots \subseteq Accounts
          /\ got \cup owed \subseteq (Accounts \cup {Plugins}) \X Bodies
      BY <1>1 DEF IInv, Types
    <2>2. \A a \in DOMAIN slots : slots[a].packet \in Packets
      BY <1>1 DEF IInv, Types, SlotValues
    <2>3. ASSUME NEW a \in Accounts
          PROVE  /\ duty[a].step \in {"read", "forward", "broadcast"}
                 /\ lists[a] \subseteq Accounts /\ pending[a] \in Packets
      BY <1>1 DEF IInv, Types, Duties
    <2>4. ASSUME NEW a \in Accounts
          PROVE  /\ \A m \in ToSet(toClient[a]) : m.key \in Accounts /\ m.packet \in Packets
                 /\ ToSet(toServer[a]) \subseteq Packets
      <3>1. toClient[a] \in Seq(Messages) /\ toServer[a] \in Seq(Packets)
        BY <1>1 DEF IInv, Types
      <3>2. ToSet(toClient[a]) \subseteq Messages /\ ToSet(toServer[a]) \subseteq Packets
        BY <3>1, ToSetElements
      <3> QED
        BY <3>2 DEF Messages
    <2> QED
      BY <2>1, <2>2, <2>3, <2>4 DEF TypeOK
  <1> QED
    BY <1>1, Invariance, PTL

\* A body reaches only plugins it was addressed to, whatever is lost, repeated
\* or re-sent, and although a packet for an account that is gone is sent down
\* the sender's own connection.
THEOREM AddresseesOnly == Spec => []OnlyAddressees
  <1>1. IInv => OnlyAddressees
    BY DEF IInv, Delivered, OnlyAddressees
  <1> QED
    BY <1>1, Invariance, PTL

\* _resend never fails on a slot: each yields a packet for its own account.
THEOREM SlotsAreSound == Spec => []SlotsHoldOwnPacket
  <1>1. IInv => SlotsHoldOwnPacket
    BY DEF IInv, Stored, SlotFor, For, DataOK, SlotPacket, SlotsHoldOwnPacket
  <1> QED
    BY <1>1, Invariance, PTL

\* What the server has taken over for an account is received, under way, or in
\* the slot, as long as the account's connection holds.
THEOREM NothingIsLost == Spec => []NothingVanishes
  <1>1. ASSUME IInv PROVE NothingVanishes
    <2> SUFFICES ASSUME NEW w \in owed
                 PROVE  w \in got \/ w[2] \in Unstable \/ Coming(w[1], w[2])
      BY DEF NothingVanishes
    <2>1. PICK t \in Accounts, d \in Bodies : w = <<t, d>>
      BY <1>1 DEF IInv, Types
    <2>2. Done(t, d) \/ Safe(t, d)
      BY <1>1, <2>1 DEF IInv, Owing
    <2>3. CASE Done(t, d)
      BY <2>1, <2>3 DEF Done
    <2>4. CASE InSlot(t, d)
      BY <2>1, <2>4 DEF InSlot, Coming
    <2>5. CASE InChannel(t, d)
      <3>1. PICK m \in ToSet(toClient[t]) : m.key = t /\ m.packet.body = d
        BY <2>5 DEF InChannel, Down
      <3>2. PICK i \in DOMAIN toClient[t] : toClient[t][i] = m
        BY <3>1 DEF ToSet
      <3> QED
        BY <2>1, <3>1, <3>2 DEF Coming
    <2>6. CASE InWork(t, d)
      <3>1. PICK work \in Range(duty) \cup {call} : Sends(work, t, d)
        BY <1>1, <2>6 DEF IInv, Types, InWork, Range
      <3> QED
        BY <2>1, <3>1 DEF Sends, Coming
    <2> QED
      BY <2>2, <2>3, <2>4, <2>5, <2>6 DEF Safe
  <1> QED
    BY <1>1, Invariance, PTL

=============================================================================
