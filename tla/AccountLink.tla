---------------------------- MODULE AccountLink ----------------------------
(* One account's link: the server's history of it, the client that logs in   *)
(* with it, and the two directions of the websocket between them.  Both ends *)
(* number packets from one sid space, each one above the highest sid it      *)
(* knows; the client's periodic PING asks for what the server sent above     *)
(* that sid; each side re-sends its last unacknowledged data packet.         *)
(*                                                                           *)
(* The server's bucket is the ledger PacketStore implements (SidLedger).  Of *)
(* the client's sid state only the highest known sid is read, so known is    *)
(* kept instead of its three sources, which only ever grow.  A restart of    *)
(* the client is the new WebsocketClient that a lost connection leads to.    *)
EXTENDS Integers, Sequences, FiniteSets, FiniteSetsExt

CONSTANTS
    MaxData,        \* data packets the server's plugins send
    MaxClientData,  \* data packets the client's plugins send
    MaxLoss,        \* packets the client fails to decode
    MaxDrops        \* lost connections

ASSUME BoundsAssumption ==
    /\ MaxData \in Nat /\ MaxClientData \in Nat
    /\ MaxLoss \in Nat /\ MaxDrops \in Nat

VARIABLES
    ledger,         \* server: sid -> [msg, direction] for this account
    registered,     \* server: the account is in websockets
    lastSend,       \* server: last_send_packet of the account, or NoMsg
    duty,           \* server: what the connection's handler is in the middle of
    todo,           \* server: packets that handler still has to send
    known,          \* client: _highest_known_sid
    up,             \* client: its websocket is connected
    loggedIn,       \* client: server_id is set and the keepalive runs
    pending,        \* client: last_data_packet, or NoMsg
    got,            \* data bodies its plugins received from the server
    toClient, toServer,                     \* the two directions in flight
    lost,           \* data bodies the client failed to decode
    sent, clientSent, losses, drops         \* counters, for the bounds

serverVars == <<ledger, registered, lastSend, duty, todo>>
clientVars == <<known, up, loggedIn, pending, got>>
bounds == <<lost, sent, clientSent, losses, drops>>
vars == <<serverVars, clientVars, toClient, toServer, bounds>>

Msg(type, sid, body) == [type |-> type, sid |-> sid, body |-> body]
NoMsg == Msg("none", 0, 0)

Types(channel) == {channel[i].type : i \in DOMAIN channel}

\* The bound on the timers: with a period of 30 seconds against a round trip,
\* neither fires again before its last round is through.
PingOutstanding ==
    "ping" \in Types(toServer) \/ "pong" \in Types(todo) \cup Types(toClient)
DataOutstanding ==
    "data" \in Types(todo) \cup Types(toClient) \/ "sendok" \in Types(toServer)

-----------------------------------------------------------------------------
(* The server's history of the account                                       *)

Top(book) == Max({0} \cup DOMAIN book)

Put(book, m, way) ==
    [s \in DOMAIN book \cup {m.sid} |->
        IF s = m.sid THEN [msg |-> m, direction |-> way] ELSE book[s]]

\* A packet to the client: numbered, recorded, put on the wire.
Fresh(book, type, body) == Msg(type, Top(book) + 1, body)

SentAbove(sid) ==
    LET sids == {s \in DOMAIN ledger : s > sid /\ ledger[s].direction = "sent"}
    IN  [i \in 1..Cardinality(sids) |->
            ledger[CHOOSE s \in sids : Cardinality({t \in sids : t < s}) = i - 1].msg]

-----------------------------------------------------------------------------
Init ==
    /\ ledger = <<>> /\ registered = FALSE /\ lastSend = NoMsg
    /\ duty = "read" /\ todo = <<>>
    /\ known = 0 /\ up = FALSE /\ loggedIn = FALSE /\ pending = NoMsg
    /\ got = {} /\ toClient = <<>> /\ toServer = <<>>
    /\ lost = {} /\ sent = 0 /\ clientSent = 0 /\ losses = 0 /\ drops = 0

-----------------------------------------------------------------------------
(* The client                                                                *)

\* A new client object has an empty history; its first packet is LOGIN.
ClientConnect ==
    /\ ~up
    /\ up' = TRUE
    /\ known' = 1
    /\ toServer' = <<Msg("login", 1, 0)>>
    /\ UNCHANGED <<serverVars, loggedIn, pending, got, toClient, bounds>>

\* parse_msg first enters the packet's sid, PONG's included.
ClientReceives(type) ==
    /\ toClient # <<>>
    /\ Head(toClient).type = type
    /\ toClient' = Tail(toClient)

\* Mutant of Heard: counts packets, the replayed ones too.
HeardCounting == known + 1

Heard == Max({known, Head(toClient).sid})

ReceiveLogined ==
    /\ ClientReceives("logined")
    /\ known' = Heard
    /\ loggedIn' = TRUE
    /\ UNCHANGED <<serverVars, up, pending, got, toServer, bounds>>

\* recv_data, then DATA_SENDOK under a sid of the client's own, if it is
\* logged in.
ReceiveData ==
    /\ ClientReceives("data")
    /\ got' = got \cup {Head(toClient).body}
    /\ IF loggedIn
       THEN /\ known' = Heard + 1
            /\ toServer' = Append(toServer, Msg("sendok", Heard + 1, 0))
       ELSE /\ known' = Heard
            /\ UNCHANGED toServer
    /\ UNCHANGED <<serverVars, up, loggedIn, pending, bounds>>

ReceiveSendOk ==
    /\ ClientReceives("sendok")
    /\ known' = Heard
    /\ pending' = NoMsg
    /\ UNCHANGED <<serverVars, up, loggedIn, got, toServer, bounds>>

\* NEW_LOGIN and PONG: only the sid matters here.
ReceiveNotice ==
    /\ ClientReceives("new_login") \/ ClientReceives("pong")
    /\ known' = Heard
    /\ UNCHANGED <<serverVars, up, loggedIn, pending, got, toServer, bounds>>

\* _decode_payload returned None: the packet is skipped.
DecodeFails ==
    /\ losses < MaxLoss
    /\ toClient # <<>>
    /\ losses' = losses + 1
    /\ lost' = IF Head(toClient).type = "data"
               THEN lost \cup {Head(toClient).body} ELSE lost
    /\ toClient' = Tail(toClient)
    /\ UNCHANGED <<serverVars, clientVars, toServer, sent, clientSent, drops>>

ClientSend ==
    /\ loggedIn /\ clientSent < MaxClientData
    /\ clientSent' = clientSent + 1
    /\ known' = known + 1
    /\ pending' = Msg("data", known + 1, clientSent + 1)
    /\ toServer' = Append(toServer, pending')
    /\ UNCHANGED <<serverVars, up, loggedIn, got, toClient, lost, sent, losses, drops>>

\* Mutant of Keepalive: PING only together with an unacknowledged packet.
KeepaliveWhenPending ==
    /\ loggedIn /\ ~PingOutstanding /\ pending # NoMsg
    /\ toServer' = toServer \o <<pending, Msg("ping", known, 0)>>
    /\ UNCHANGED <<serverVars, clientVars, toClient, bounds>>

\* Mutant of Keepalive: PING takes a sid of its own.
KeepaliveNumbered ==
    /\ loggedIn /\ ~PingOutstanding
    /\ toServer' = toServer \o (IF pending # NoMsg THEN <<pending>> ELSE <<>>)
                            \o <<Msg("ping", known + 1, 0)>>
    /\ UNCHANGED <<serverVars, clientVars, toClient, bounds>>

\* _trigger_websocket_client: the unacknowledged packet again, then PING.
Keepalive ==
    /\ loggedIn /\ ~PingOutstanding
    /\ toServer' = toServer \o (IF pending # NoMsg THEN <<pending>> ELSE <<>>)
                            \o <<Msg("ping", known, 0)>>
    /\ UNCHANGED <<serverVars, clientVars, toClient, bounds>>

-----------------------------------------------------------------------------
(* The server's handler of the connection: it reads the next message only    *)
(* when it is done with the last one.                                        *)

ServerReceives(type) ==
    /\ duty = "read"
    /\ toServer # <<>>
    /\ Head(toServer).type = type
    /\ toServer' = Tail(toServer)

\* record_received, register, LOGINED; NEW_LOGIN follows after an await.
HandleLogin ==
    /\ ServerReceives("login")
    /\ LET book == Put(ledger, Head(toServer), "received")
           m == Fresh(book, "logined", 0)
       IN  /\ ledger' = Put(book, m, "sent")
           /\ toClient' = Append(toClient, m)
    /\ registered' = TRUE
    /\ duty' = "greet"
    /\ UNCHANGED <<lastSend, todo, clientVars, bounds>>

\* NEW_LOGIN is numbered for all accounts at once and reaches this one after
\* the awaits of the sends to the others.
CreateNotice ==
    /\ duty = "greet"
    /\ LET m == Fresh(ledger, "new_login", 0)
       IN  /\ ledger' = Put(ledger, m, "sent")
           /\ todo' = <<m>>
    /\ duty' = "announce"
    /\ UNCHANGED <<registered, lastSend, clientVars, toClient, toServer, bounds>>

SendNotice ==
    /\ duty = "announce"
    /\ toClient' = toClient \o todo
    /\ todo' = <<>>
    /\ duty' = "read"
    /\ UNCHANGED <<ledger, registered, lastSend, clientVars, toServer, bounds>>

\* DATA_SEND for the server's own plugins: record_received, recv_data, ack.
HandleData ==
    /\ ServerReceives("data")
    /\ LET book == Put(ledger, Head(toServer), "received")
           m == Fresh(book, "sendok", 0)
       IN  /\ ledger' = Put(book, m, "sent")
           /\ toClient' = Append(toClient, m)
    /\ UNCHANGED <<registered, lastSend, duty, todo, clientVars, bounds>>

\* Mutant of HandleSendOk: acknowledgements are not recorded.
HandleSendOkUnrecorded ==
    /\ ServerReceives("sendok")
    /\ lastSend' = NoMsg
    /\ UNCHANGED <<ledger, registered, duty, todo, clientVars, toClient, bounds>>

HandleSendOk ==
    /\ ServerReceives("sendok")
    /\ ledger' = Put(ledger, Head(toServer), "received")
    /\ lastSend' = NoMsg
    /\ UNCHANGED <<registered, duty, todo, clientVars, toClient, bounds>>

\* Mutant of HandlePing: no PONG after a replay.
HandlePingNoPong ==
    /\ ServerReceives("ping")
    /\ LET sid == Head(toServer).sid
       IN  todo' = IF SentAbove(sid) # <<>> THEN SentAbove(sid)
                   ELSE <<Msg("pong", Max({Top(ledger), sid}), 0)>>
    /\ duty' = "replay"
    /\ UNCHANGED <<ledger, registered, lastSend, clientVars, toClient, bounds>>

\* What to replay and what PONG will say are both fixed before the first await.
HandlePing ==
    /\ ServerReceives("ping")
    /\ LET sid == Head(toServer).sid
       IN  todo' = Append(SentAbove(sid),
                          Msg("pong", Max({Top(ledger), sid}), 0))
    /\ duty' = "replay"
    /\ UNCHANGED <<ledger, registered, lastSend, clientVars, toClient, bounds>>

ReplayNext ==
    /\ duty = "replay"
    /\ toClient' = Append(toClient, Head(todo))
    /\ todo' = Tail(todo)
    /\ duty' = IF Len(todo) = 1 THEN "read" ELSE "replay"
    /\ UNCHANGED <<ledger, registered, lastSend, clientVars, toServer, bounds>>

-----------------------------------------------------------------------------
(* The server's other coroutines                                             *)

\* send_data_to_other_server records the packet first and then finds out
\* whether the account is connected.
ServerSend ==
    /\ sent < MaxData
    /\ sent' = sent + 1
    /\ LET m == Fresh(ledger, "data", sent + 1)
       IN  /\ ledger' = Put(ledger, m, "sent")
           /\ IF registered
              THEN lastSend' = m /\ toClient' = Append(toClient, m)
              ELSE UNCHANGED <<lastSend, toClient>>
    /\ UNCHANGED <<registered, duty, todo, clientVars, toServer,
                   lost, clientSent, losses, drops>>

\* Mutant of ServerResend: the resend task was never started.
ServerResendNever == FALSE /\ UNCHANGED vars

\* _resend, every 30 seconds.
ServerResend ==
    /\ registered /\ lastSend # NoMsg /\ ~DataOutstanding
    /\ toClient' = Append(toClient, lastSend)
    /\ UNCHANGED <<serverVars, clientVars, toServer, bounds>>

\* The connection is lost: the server's handler runs its finally clause, the
\* client starts over with a new WebsocketClient.
Disconnect ==
    /\ up /\ drops < MaxDrops
    /\ drops' = drops + 1
    /\ ledger' = IF registered THEN <<>> ELSE ledger
    /\ registered' = FALSE /\ lastSend' = NoMsg /\ duty' = "read" /\ todo' = <<>>
    /\ up' = FALSE /\ loggedIn' = FALSE /\ known' = 0 /\ pending' = NoMsg
    /\ toClient' = <<>> /\ toServer' = <<>>
    /\ UNCHANGED <<got, lost, sent, clientSent, losses>>

-----------------------------------------------------------------------------
ClientReceive ==
    ReceiveLogined \/ ReceiveData \/ ReceiveSendOk \/ ReceiveNotice

HandlerStep ==
    \/ HandleLogin \/ CreateNotice \/ SendNotice
    \/ HandleData \/ HandleSendOk
    \/ HandlePing \/ ReplayNext

Next ==
    \/ ClientConnect \/ ClientReceive \/ DecodeFails \/ ClientSend \/ Keepalive
    \/ HandlerStep \/ ServerSend \/ ServerResend \/ Disconnect

Spec == Init /\ [][Next]_vars

\* Both event loops run, the client reconnects, and both timers keep firing.
FairSpec ==
    /\ Spec
    /\ WF_vars(ClientConnect) /\ WF_vars(ClientReceive) /\ WF_vars(HandlerStep)
    /\ WF_vars(Keepalive) /\ WF_vars(ServerResend)

-----------------------------------------------------------------------------
(* Properties                                                                *)

MsgTypes == {"none", "login", "logined", "new_login", "data", "sendok", "ping", "pong"}
Msgs == [type : MsgTypes, sid : Nat, body : Nat]

\* Every variable has its type, and a replay always still has its PONG to send.
TypeOK ==
    /\ \A s \in DOMAIN ledger :
          ledger[s].msg \in Msgs /\ ledger[s].direction \in {"sent", "received"}
    /\ {registered, up, loggedIn} \subseteq BOOLEAN
    /\ {lastSend, pending} \subseteq Msgs
    /\ duty \in {"read", "greet", "announce", "replay"}
    /\ {todo, toClient, toServer} \subseteq Seq(Msgs)
    /\ duty = "replay" <=> (todo # <<>> /\ todo[Len(todo)].type = "pong")
    /\ known \in Nat
    /\ got \cup lost \subseteq 1..MaxData

SidsIn(channel) == {channel[i].sid : i \in DOMAIN channel}

\* The server's history has no gaps, although two parties number its entries,
\* packets get lost on the way to the client, and nothing on the server checks
\* continuity (the client does): so `everything above a sid` is well defined.
NoGaps == DOMAIN ledger = 1..Top(ledger)

\* The client never knows a sid that is neither in the server's history nor on
\* its way to it, so a PING never names a sid the server has not used or is
\* not about to read.
KnownIsReal == known <= Max({Top(ledger)} \cup SidsIn(toServer))

\* When nothing is in flight and nothing was lost, the two ends agree on the
\* highest sid, in spite of all the sids both have used.
Quiet ==
    toClient = <<>> /\ toServer = <<>> /\ duty = "read"

AgreeWhenQuiet == loggedIn /\ Quiet /\ losses = 0 => known = Top(ledger)

\* PONG repairs the client's sid: whatever was lost, a client that stays
\* logged in comes to agree with the server on the highest sid for good.
EventuallyAgree == <>[](loggedIn => known = Top(ledger))

\* The server's resend loop delivers: a data packet that is the account's last
\* one is received, or a later packet or an acknowledgement takes its place.
LastDataDelivered ==
    \A b \in 1..MaxData :
        lastSend.body = b ~> (b \in got \/ lastSend.body # b)

InFlight(b) ==
    \E m \in {toClient[i] : i \in DOMAIN toClient} \cup {todo[i] : i \in DOMAIN todo} :
        m.type = "data" /\ m.body = b

Replayable(b) ==
    \E s \in DOMAIN ledger :
        s > known /\ ledger[s].direction = "sent" /\ ledger[s].msg.body = b

\* A data packet the client missed will still come: it is about to be sent
\* again, or the next PING asks for it and the history still has it.
MissedIsReplayed ==
    \A b \in lost \ got : InFlight(b) \/ lastSend.body = b \/ Replayable(b)
=============================================================================
