----------------------------- MODULE DataRelay -----------------------------
(* Data packets between accounts through the server: direct messages, the    *)
(* copies of a broadcast, packets of the server's own plugins, the            *)
(* acknowledgements, DATA_ERROR, and the one slot per account from which the  *)
(* server re-sends (websockets/data_packet.py, server.py, client.py).         *)
(*                                                                            *)
(* Sids and the replay after a PING are in AccountLink and left out here; of  *)
(* the packet history only its keys count, because a broadcast reaches them.  *)
(* The opening of a connection is ServerSession's: here it is one step.       *)
EXTENDS Integers, Sequences, FiniteSets, SequencesExt

CONSTANTS
    Accounts,   \* account ids of the sub-servers
    Plugins,    \* the id "-----": the server's own plugins
    All,        \* the id "all"
    Bodies,     \* payloads, each sent once
    Unstable,   \* payloads whose checksum differs once they were JSON
    Nobody,     \* not an id: the sender of a body not sent yet
    Window,     \* packets one direction of a websocket holds
    MaxTurns    \* bound on lost connections, repeats and sweeps, together

ASSUME IdsAssumption ==
    /\ {Plugins, All, Nobody} \cap Accounts = {}
    /\ Plugins # All /\ Plugins # Nobody /\ All # Nobody
ASSUME BodiesAssumption == Unstable \subseteq Bodies /\ Nobody \notin Bodies
ASSUME BoundsAssumption == Window \in Nat \ {0} /\ MaxTurns \in Nat

VARIABLES
    connected,  \* server: accounts in websockets and servers_info
    remembered, \* server: accounts with a bucket in the packet history
    slots,      \* server: last_send_packet
    duty,       \* server: what the handler of each connection is doing
    call,       \* server: the broadcast of a plugin that is under way
    sweep,      \* server: what _resend still has to send of its snapshot
    link,       \* the connection of each account: down, up, or dead
    lists,      \* client: server_list
    pending,    \* client: last_data_packet
    toClient, toServer,     \* the two directions in flight
    sent,       \* who sent a body to whom
    got,        \* <<receiver, body>>: recv_data was called
    owed,       \* <<receiver, body>>: the server has taken the body over
    turns       \* lost connections, repeats and sweeps so far

serverVars == <<connected, remembered, slots, duty, call, sweep>>
clientVars == <<lists, pending>>
history == <<sent, got, owed>>
vars == <<serverVars, link, clientVars, toClient, toServer, history, turns>>

-----------------------------------------------------------------------------
(* Packets.  A packet is encrypted for one account; valid says whether its    *)
(* checksum still matches when it is read.                                    *)

Packet(type, to, body, valid) ==
    [type |-> type, to |-> to, body |-> body, valid |-> valid]

DataSend(to, body) == Packet("data", to, body, body \notin Unstable)
Control(type, about) == Packet(type, about, Nobody, TRUE)
NoPacket == Packet("none", Nobody, Nobody, FALSE)

Envelope(account, packet) == [key |-> account, packet |-> packet]

\* The server builds a new packet around the payload it has read, so that the
\* checksum is computed again.
Relayed(p) == [p EXCEPT !.valid = TRUE]

\* Mutant of Slot: a mapping is keyed by the addressee of the packet.
SlotKeyedByTo(shape, dests, p) ==
    [shape |-> shape, dests |-> {p.to}, packet |-> p]

\* last_send_packet holds the mapping that get_data_packet returned, or, after
\* a client's broadcast, the account's packet itself.
Slot(shape, dests, p) == [shape |-> shape, dests |-> dests, packet |-> p]

\* What send finds in an account's slot when it is called with the whole of it.
SlotPacket(account, slot) ==
    IF slot.shape = "bare" \/ account \in slot.dests THEN slot.packet ELSE NoPacket

-----------------------------------------------------------------------------
(* Sending                                                                    *)

Room(account) == Len(toClient[account]) < Window

\* WebsocketServer.send: what goes into a dead socket is gone.
Arrives(channels, account, key, p) ==
    IF link[account] = "up"
    THEN [channels EXCEPT ![account] = Append(@, Envelope(key, p))]
    ELSE channels

\* The same control packet to several accounts; the loop's awaits are in
\* ServerSession.
Announce(channels, accounts, p) ==
    [a \in Accounts |-> IF a \in accounts /\ link'[a] = "up"
                        THEN Append(channels[a], Envelope(a, p))
                        ELSE channels[a]]

ToServer(account, p) ==
    toServer' = [toServer EXCEPT ![account] = Append(@, p)]

Idle == [step |-> "read", packet |-> NoPacket, left |-> {}]
Forwarding(p) == [step |-> "forward", packet |-> p, left |-> {}]
Broadcasting(p, dests) == [step |-> "broadcast", packet |-> p, left |-> dests]

\* What the accounts' slots hold.
Held(accounts) ==
    {<<a, slots[a].packet.body>> : a \in accounts \cap DOMAIN slots}

Forgotten(account) == {w \in owed : w[1] # account}

WithSlots(accounts, slot) ==
    [a \in DOMAIN slots \cup accounts |->
        IF a \in accounts THEN slot ELSE slots[a]]

\* The work still has to send its packet to the account.
Aimed(work, account) ==
    \/ work.step = "forward" /\ work.packet.to = account
    \/ account \in work.left

\* What some coroutine is still going to send to an account.
UnderWay(account) ==
    {work.packet : work \in {w \in Range(duty) \cup {call} : Aimed(w, account)}}
    \cup {s[2].packet : s \in {s \in sweep : s[1] = account}}

\* A step that MaxTurns bounds.
Turn == turns < MaxTurns /\ turns' = turns + 1

-----------------------------------------------------------------------------
\* All accounts have logged in, one after the other: a client's list begins
\* with its own NEW_LOGIN.
Init ==
    /\ connected = Accounts /\ remembered = Accounts /\ slots = <<>>
    /\ duty = [a \in Accounts |-> Idle] /\ call = Idle /\ sweep = {}
    /\ link = [a \in Accounts |-> "up"]
    /\ \E place \in Bijection(Accounts, 1..Cardinality(Accounts)) :
          lists = [a \in Accounts |-> {b \in Accounts : place[b] >= place[a]}]
    /\ pending = [a \in Accounts |-> NoPacket]
    /\ toClient = [a \in Accounts |-> <<>>]
    /\ toServer = [a \in Accounts |-> <<>>]
    /\ sent = [d \in Bodies |-> [from |-> Nobody, to |-> Nobody]]
    /\ got = {} /\ owed = {} /\ turns = 0

-----------------------------------------------------------------------------
(* Connections                                                                *)

\* _handle_login: registered, then NEW_LOGIN to everybody, itself included.  The
\* slot outlives the absence, but the sweep or a broadcast that began before may
\* still send another packet, whose acknowledgement then empties the slot: from
\* here on the body in it is not certain to arrive.
Login(a) ==
    /\ link[a] = "down"
    /\ link' = [link EXCEPT ![a] = "up"]
    /\ connected' = connected \cup {a}
    /\ remembered' = remembered \cup {a}
    /\ toClient' = Announce(toClient, connected', Control("new_login", a))
    /\ owed' = IF \E p \in UnderWay(a) : <<a, p.body>> \notin Held({a})
               THEN Forgotten(a) ELSE owed
    /\ UNCHANGED <<slots, duty, call, sweep, clientVars, toServer, sent, got, turns>>

\* The connection is lost.  The client starts over with an empty state; the
\* server does not know yet.
Drop(a) ==
    /\ link[a] = "up" /\ Turn
    /\ link' = [link EXCEPT ![a] = "dead"]
    /\ lists' = [lists EXCEPT ![a] = {}]
    /\ pending' = [pending EXCEPT ![a] = NoPacket]
    /\ toClient' = [toClient EXCEPT ![a] = <<>>]
    /\ toServer' = [toServer EXCEPT ![a] = <<>>]
    /\ owed' = Forgotten(a)
    /\ UNCHANGED <<serverVars, sent, got>>

\* Mutant of Without: the websocket of a closed connection stays.
WithoutNone(a) == connected

Without(a) == connected \ {a}

\* _close_connection, then DEL_LOGIN to those who are left.
CloseConnection(a) ==
    /\ link[a] = "dead" /\ duty[a] = Idle
    /\ link' = [link EXCEPT ![a] = "down"]
    /\ connected' = Without(a)
    /\ remembered' = remembered \ {a}
    /\ slots' = [b \in DOMAIN slots \ {a} |-> slots[b]]
    /\ owed' = Forgotten(a)
    /\ toClient' = Announce(toClient, connected', Control("del_login", a))
    /\ UNCHANGED <<duty, call, sweep, clientVars, toServer, sent, got, turns>>

-----------------------------------------------------------------------------
(* The client                                                                 *)

ClientReads(a) ==
    /\ toClient[a] # <<>>
    /\ toClient' = [toClient EXCEPT ![a] = Tail(@)]

Incoming(a) == Head(toClient[a]).packet
Readable(a) == Head(toClient[a]).key = a

\* Mutant of ReceiveUnreadable: the key does not matter.
ReceiveAnyKey(a) ==
    /\ ClientReads(a) /\ ~Readable(a)
    /\ got' = got \cup {<<a, Incoming(a).body>>}
    /\ UNCHANGED <<serverVars, link, clientVars, toServer, sent, owed, turns>>

\* _decode_payload fails for a packet encrypted for another account.
ReceiveUnreadable(a) ==
    /\ ClientReads(a) /\ ~Readable(a)
    /\ UNCHANGED <<serverVars, link, clientVars, toServer, history, turns>>

ReceiveNotice(a) ==
    /\ ClientReads(a) /\ Readable(a)
    /\ \/ /\ Incoming(a).type = "new_login"
          /\ lists' = [lists EXCEPT ![a] = @ \cup {Incoming(a).to}]
       \/ /\ Incoming(a).type = "del_login"
          /\ lists' = [lists EXCEPT ![a] = @ \ {Incoming(a).to}]
    /\ UNCHANGED <<serverVars, link, pending, toServer, history, turns>>

\* recv_data and DATA_SENDOK, or DATA_ERROR; either goes to the server.
ReceiveData(a) ==
    /\ ClientReads(a) /\ Readable(a)
    /\ Incoming(a).type = "data"
    /\ Len(toServer[a]) < Window
    /\ IF Incoming(a).valid
       THEN /\ got' = got \cup {<<a, Incoming(a).body>>}
            /\ ToServer(a, Control("sendok", a))
       ELSE /\ UNCHANGED got
            /\ ToServer(a, Control("error", a))
    /\ UNCHANGED <<serverVars, link, clientVars, sent, owed, turns>>

ReceiveSendOk(a) ==
    /\ ClientReads(a) /\ Readable(a)
    /\ Incoming(a).type = "sendok"
    /\ pending' = [pending EXCEPT ![a] = NoPacket]
    /\ UNCHANGED <<serverVars, link, lists, toServer, history, turns>>

ReceiveError(a) ==
    /\ ClientReads(a) /\ Readable(a)
    /\ Incoming(a).type = "error"
    /\ IF pending[a] # NoPacket THEN ToServer(a, pending[a]) ELSE UNCHANGED toServer
    /\ UNCHANGED <<serverVars, link, clientVars, history, turns>>

\* Where send_data_to_other_server lets a packet go.
Known(a) == lists[a] \cup {Plugins, All}

ClientSend(a, t, d) ==
    /\ link[a] = "up" /\ t \in Known(a) /\ sent[d].from = Nobody
    /\ Len(toServer[a]) < Window
    /\ sent' = [sent EXCEPT ![d] = [from |-> a, to |-> t]]
    /\ pending' = [pending EXCEPT ![a] = DataSend(t, d)]
    /\ ToServer(a, DataSend(t, d))
    /\ UNCHANGED <<serverVars, link, lists, toClient, got, owed, turns>>

\* _trigger_websocket_client repeats what is not acknowledged.
Keepalive(a) ==
    /\ pending[a] # NoPacket
    /\ Len(toServer[a]) < Window /\ Turn
    /\ ToServer(a, pending[a])
    /\ UNCHANGED <<serverVars, link, clientVars, toClient, history>>

-----------------------------------------------------------------------------
(* The server's handler of a connection.  It reads the next packet when it is *)
(* done with the last one.                                                    *)

ServerReads(a) ==
    /\ duty[a] = Idle
    /\ toServer[a] # <<>>
    /\ toServer' = [toServer EXCEPT ![a] = Tail(@)]

Received(a) == Head(toServer[a])

Answer(a, type) == toClient' = Arrives(toClient, a, a, Control(type, a))

Owed(pairs, accounts) == (owed \ Held(accounts)) \cup pairs

\* _handle_direct_message up to the acknowledgement, which is sent first.
TakeDirect(a) ==
    /\ ServerReads(a)
    /\ Received(a).type = "data" /\ Received(a).to \in Accounts
    /\ LET t == Received(a).to
           p == Relayed(Received(a))
       IN  /\ remembered' = remembered \cup {a, t}
           /\ slots' = WithSlots({t}, Slot("mapping", {t}, p))
           /\ owed' = Owed({<<t, p.body>>}, {t})
           /\ duty' = [duty EXCEPT ![a] = Forwarding(p)]
    /\ Answer(a, "sendok")
    /\ UNCHANGED <<connected, call, sweep, link, clientVars, sent, got, turns>>

\* The rest of it: the target's websocket as it is now, or the sender's own.
Forward(a) ==
    /\ duty[a].step = "forward"
    /\ LET t == duty[a].packet.to
           websocket == IF t \in connected THEN t ELSE a
       IN  /\ Room(websocket)
           /\ toClient' = Arrives(toClient, websocket, t, duty[a].packet)
    /\ duty' = [duty EXCEPT ![a] = Idle]
    /\ UNCHANGED <<connected, remembered, slots, call, sweep, link, clientVars,
                   toServer, history, turns>>

\* A packet to all: every account with a history or a connection but its
\* sender; the slots get the packets themselves.
TakeBroadcast(a) ==
    /\ ServerReads(a)
    /\ Received(a).type = "data" /\ Received(a).to = All
    /\ LET dests == (remembered \cup connected) \ {a}
           p == Relayed(Received(a))
       IN  /\ remembered' = remembered \cup {a} \cup dests
           /\ slots' = WithSlots(dests, Slot("bare", dests, p))
           /\ owed' = Owed({<<t, p.body>> : t \in dests}, dests)
           /\ duty' = [duty EXCEPT ![a] = Broadcasting(Received(a), dests)]
    /\ UNCHANGED <<connected, call, sweep, link, clientVars, toClient, sent, got, turns>>

BroadcastNext(a) ==
    /\ duty[a].step = "broadcast"
    /\ \E t \in duty[a].left :
        /\ IF t \in connected
           THEN /\ Room(t)
                /\ toClient' = Arrives(toClient, t, t, Relayed(duty[a].packet))
           ELSE UNCHANGED toClient
        /\ duty' = [duty EXCEPT ![a].left = @ \ {t}]
    /\ UNCHANGED <<connected, remembered, slots, call, sweep, link, clientVars,
                   toServer, history, turns>>

\* _handle_data_send, for the server's plugins: recv_data and DATA_SENDOK, or
\* DATA_ERROR.
HandleDataSend(a, p) ==
    /\ IF p.valid THEN /\ got' = got \cup {<<Plugins, p.body>>}
                       /\ Answer(a, "sendok")
                  ELSE /\ UNCHANGED got
                       /\ Answer(a, "error")
    /\ UNCHANGED <<connected, remembered, slots, call, sweep, link, clientVars,
                   sent, owed, turns>>

\* The server's plugins get their copy of a broadcast last.
BroadcastEnds(a) ==
    /\ duty[a].step = "broadcast" /\ duty[a].left = {}
    /\ HandleDataSend(a, duty[a].packet)
    /\ duty' = [duty EXCEPT ![a] = Idle]
    /\ UNCHANGED toServer

TakeForPlugins(a) ==
    /\ ServerReads(a)
    /\ Received(a).type = "data" /\ Received(a).to = Plugins
    /\ HandleDataSend(a, Received(a))
    /\ UNCHANGED duty

\* Mutant of HandleSendOk: a packet under way is taken for delivered.
HandleSendOkAll(a) ==
    /\ ServerReads(a) /\ Received(a).type = "sendok"
    /\ slots' = <<>>
    /\ UNCHANGED <<connected, remembered, duty, call, sweep, link, clientVars,
                   toClient, history, turns>>

\* _handle_data_sendok: whatever packet the acknowledgement is for.
HandleSendOk(a) ==
    /\ ServerReads(a) /\ Received(a).type = "sendok"
    /\ slots' = [b \in DOMAIN slots \ {a} |-> slots[b]]
    /\ UNCHANGED <<connected, remembered, duty, call, sweep, link, clientVars,
                   toClient, history, turns>>

\* _send_last_data_packet looks the account up in the slot, which finds nothing
\* when the slot holds the packet itself.
HandleError(a) ==
    /\ ServerReads(a) /\ Received(a).type = "error"
    /\ IF a \in DOMAIN slots /\ slots[a].shape = "mapping" /\ a \in slots[a].dests
       THEN toClient' = Arrives(toClient, a, a, slots[a].packet)
       ELSE UNCHANGED toClient
    /\ UNCHANGED <<connected, remembered, slots, duty, call, sweep, link, clientVars,
                   history, turns>>

-----------------------------------------------------------------------------
(* The server's other coroutines                                              *)

\* send_data_to_other_server to one account: recorded in any case, sent only
\* to who is connected.
PluginSend(t, d) ==
    /\ sent[d].from = Nobody
    /\ sent' = [sent EXCEPT ![d] = [from |-> Plugins, to |-> t]]
    /\ remembered' = remembered \cup {t}
    /\ LET p == DataSend(t, d)
       IN  IF t \in connected
           THEN /\ Room(t)
                /\ slots' = WithSlots({t}, Slot("mapping", {t}, p))
                /\ owed' = Owed({<<t, d>>}, {t})
                /\ toClient' = Arrives(toClient, t, t, p)
           ELSE UNCHANGED <<slots, owed, toClient>>
    /\ UNCHANGED <<connected, duty, call, sweep, link, clientVars, toServer, got, turns>>

\* To all: every connected account's slot gets the whole mapping.  One such
\* call at a time.
PluginBroadcast(d) ==
    /\ call = Idle /\ sent[d].from = Nobody
    /\ sent' = [sent EXCEPT ![d] = [from |-> Plugins, to |-> All]]
    /\ LET dests == remembered \cup connected
           p == DataSend(All, d)
       IN  /\ remembered' = dests
           /\ slots' = WithSlots(connected, Slot("mapping", dests, p))
           /\ owed' = Owed({<<t, d>> : t \in connected}, connected)
           /\ call' = Broadcasting(p, dests)
    /\ UNCHANGED <<connected, duty, sweep, link, clientVars, toClient, toServer, got, turns>>

CallNext ==
    /\ call # Idle
    /\ IF call.left = {} THEN call' = Idle /\ UNCHANGED toClient
       ELSE \E t \in call.left :
              /\ IF t \in connected
                 THEN Room(t) /\ toClient' = Arrives(toClient, t, t, call.packet)
                 ELSE UNCHANGED toClient
              /\ call' = [call EXCEPT !.left = @ \ {t}]
    /\ UNCHANGED <<connected, remembered, slots, duty, sweep, link, clientVars,
                   toServer, history, turns>>

\* _resend copies the slots and then sends one after the other.
SweepStarts ==
    /\ sweep = {}
    /\ DOMAIN slots \cap connected # {} /\ Turn
    /\ sweep' = {<<a, slots[a]>> : a \in DOMAIN slots}
    /\ UNCHANGED <<connected, remembered, slots, duty, call, link, clientVars,
                   toClient, toServer, history>>

SweepNext ==
    /\ \E s \in sweep :
        LET a == s[1]
            p == SlotPacket(a, s[2])
        IN  /\ IF a \in connected
               THEN Room(a) /\ toClient' = Arrives(toClient, a, a, p)
               ELSE UNCHANGED toClient
            /\ sweep' = sweep \ {s}
    /\ UNCHANGED <<connected, remembered, slots, duty, call, link, clientVars,
                   toServer, history, turns>>

-----------------------------------------------------------------------------
ClientStep(a) ==
    \/ ReceiveUnreadable(a) \/ ReceiveNotice(a) \/ ReceiveData(a)
    \/ ReceiveSendOk(a) \/ ReceiveError(a)

HandlerStep(a) ==
    \/ TakeDirect(a) \/ Forward(a)
    \/ TakeBroadcast(a) \/ BroadcastNext(a) \/ BroadcastEnds(a)
    \/ TakeForPlugins(a) \/ HandleSendOk(a) \/ HandleError(a)

Next ==
    \/ \E a \in Accounts :
        \/ Login(a) \/ Drop(a) \/ CloseConnection(a)
        \/ ClientStep(a) \/ HandlerStep(a) \/ Keepalive(a)
        \/ \E t \in Accounts \cup {Plugins, All}, d \in Bodies : ClientSend(a, t, d)
        \/ \E d \in Bodies : PluginSend(a, d)
    \/ \E d \in Bodies : PluginBroadcast(d)
    \/ CallNext \/ SweepStarts \/ SweepNext

Spec == Init /\ [][Next]_vars

-----------------------------------------------------------------------------
(* Properties                                                                 *)

Packets ==
    [type : {"none", "data", "sendok", "error", "new_login", "del_login"},
     to : Accounts \cup {Plugins, All, Nobody},
     body : Bodies \cup {Nobody}, valid : BOOLEAN]

\* Every variable has its type.
TypeOK ==
    /\ connected \subseteq remembered /\ remembered \subseteq Accounts
    /\ DOMAIN slots \subseteq Accounts
    /\ \A a \in DOMAIN slots : slots[a].packet \in Packets
    /\ \A a \in Accounts :
        /\ duty[a].step \in {"read", "forward", "broadcast"}
        /\ lists[a] \subseteq Accounts
        /\ pending[a] \in Packets
        /\ \A m \in ToSet(toClient[a]) : m.key \in Accounts /\ m.packet \in Packets
        /\ ToSet(toServer[a]) \subseteq Packets
    /\ got \cup owed \subseteq (Accounts \cup {Plugins}) \X Bodies

\* A body reaches only plugins it was addressed to: those of the one account,
\* or everybody but the account that sent it.  This is so although a packet for
\* an account that is gone is sent down the sender's own connection, although
\* slots outlive connections, and whatever is re-sent in between.
OnlyAddressees ==
    \A w \in got :
        LET s == sent[w[2]]
        IN  w[1] = s.to \/ (s.to = All /\ w[1] # s.from)

\* Every slot yields the account's own data packet when _resend passes it to
\* send as a whole.  Were it a mapping without the account, send would read the
\* fields of a packet from the mapping, and the exception would end the resend
\* task for all accounts.
SlotsHoldOwnPacket ==
    \A a \in DOMAIN slots :
        LET p == SlotPacket(a, slots[a]) IN p.type = "data" /\ p.to \in {a, All}

\* What the server has acknowledged, or taken from its own plugins, for an
\* account never just disappears: as long as the account's connection holds,
\* the body was received, is on its way, or waits in the slot for the next
\* resend - or a later body has taken the slot.  In particular the message to
\* an account that is offline waits until it has logged in, unless the
\* acknowledgement of a packet that was under way then is taken for its own.
Coming(a, d) ==
    \/ \E i \in DOMAIN toClient[a] :
          toClient[a][i].key = a /\ toClient[a][i].packet.body = d
    \/ a \in DOMAIN slots /\ slots[a].packet.body = d
    \/ \E work \in Range(duty) \cup {call} : work.packet.body = d /\ Aimed(work, a)

NothingVanishes ==
    \A w \in owed : w \in got \/ w[2] \in Unstable \/ Coming(w[1], w[2])

=============================================================================
