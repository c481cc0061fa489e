--------------------------- MODULE ServerSession ---------------------------
(* The websocket server's connection registry (websockets/server.py with     *)
(* _handle_register and _handle_login of websockets/data_packet.py).         *)
(*                                                                           *)
(* All coroutines share one event loop, so the code between two awaits is    *)
(* atomic: each action is one such segment of a connection's _handler or of  *)
(* the keepalive task.  handler[c] names the await the handler of c is in.   *)
(* The packets themselves are left out: of what a client sends, only the     *)
(* message that opens its session touches the registry.  Event hooks are     *)
(* those of standalone mode, where the plugin loader dispatches them.        *)
EXTENDS FiniteSets

CONSTANTS
    Servers,    \* account ids
    Temp,       \* "-----", the id of a handler that has not read an account
    Conns,      \* connections, each used once
    Owner       \* the account each connection's client is configured with

ASSUME TempAssumption == Temp \notin Servers
ASSUME OwnerAssumption == Owner \in [Conns -> Servers]

VARIABLES
    websockets,     \* WebsocketServer.websockets: account -> connection
    serversInfo,    \* the keys of WebsocketServer.servers_info
    pluginView,     \* accounts connected according to new_connect/del_connect
    link,           \* transport: "half" = the peer is gone, unnoticed
    client,         \* what the client of a connection has asked for
    inbox,          \* the message the library has queued for the handler
    handler,        \* where the handler coroutine of a connection is
    serverId,       \* the local variable server_id of _handler
    sweep,          \* keepalive: pairs of the snapshot still to be pinged
    probing,        \* keepalive: the pair being pinged
    keepalive       \* where the keepalive coroutine is

connVars == <<link, client, inbox, handler, serverId>>
registryVars == <<websockets, serversInfo, pluginView>>
keepaliveVars == <<sweep, probing, keepalive>>
vars == <<registryVars, connVars, keepaliveVars>>

None == "none"
Greetings == {"login", "mismatch", "garbled"}

-----------------------------------------------------------------------------
Init ==
    /\ websockets = [s \in {} |-> None]
    /\ serversInfo = {}
    /\ pluginView = {}
    /\ link = [c \in Conns |-> "idle"]
    /\ client = [c \in Conns |-> "silent"]
    /\ inbox = [c \in Conns |-> None]
    /\ handler = [c \in Conns |-> None]
    /\ serverId = [c \in Conns |-> Temp]
    /\ sweep = {}
    /\ probing = <<>>
    /\ keepalive = "sleep"

\* Mutant of CloseConnection: servers_info is not cleaned.
CloseKeepsInfo(s) ==
    IF s = Temp
    THEN UNCHANGED registryVars
    ELSE /\ websockets' = [t \in DOMAIN websockets \ {s} |-> websockets[t]]
         /\ pluginView' = pluginView \ {s}
         /\ UNCHANGED serversInfo

\* Mutant of CloseConnection: returns early for an account that is gone.
CloseIfRegistered(s) ==
    IF s \notin DOMAIN websockets
    THEN UNCHANGED registryVars
    ELSE /\ websockets' = [t \in DOMAIN websockets \ {s} |-> websockets[t]]
         /\ serversInfo' = serversInfo \ {s}
         /\ pluginView' = pluginView \ {s}

\* _close_connection up to its broadcast: by account, whatever connection the
\* account is registered with.  For a handler that never read an account it
\* does nothing.
CloseConnection(s) ==
    IF s = Temp
    THEN UNCHANGED registryVars
    ELSE /\ websockets' = [t \in DOMAIN websockets \ {s} |-> websockets[t]]
         /\ serversInfo' = serversInfo \ {s}
         /\ pluginView' = pluginView \ {s}

-----------------------------------------------------------------------------
(* The clients and the network                                               *)

Connect(c) ==
    /\ link[c] = "idle"
    /\ link' = [link EXCEPT ![c] = "open"]
    /\ handler' = [handler EXCEPT ![c] = "recv"]
    /\ UNCHANGED <<registryVars, client, inbox, serverId, keepaliveVars>>

\* A client without an account asks for one before it logs in.
ClientRegister(c) ==
    /\ link[c] = "open" /\ client[c] = "silent" /\ inbox[c] = None
    /\ client' = [client EXCEPT ![c] = "registering"]
    /\ inbox' = [inbox EXCEPT ![c] = "register"]
    /\ UNCHANGED <<registryVars, link, handler, serverId, keepaliveVars>>

\* start_login, once per connection: with this server's protocol version, with
\* another one, or with a password the server cannot decrypt.
ClientGreet(c, greeting) ==
    /\ link[c] = "open" /\ client[c] \in {"silent", "registered"} /\ inbox[c] = None
    /\ client' = [client EXCEPT ![c] = "greeted"]
    /\ inbox' = [inbox EXCEPT ![c] = greeting]
    /\ UNCHANGED <<registryVars, link, handler, serverId, keepaliveVars>>

\* The client stops or its network goes away; the server does not know yet.
PeerLost(c) ==
    /\ link[c] = "open"
    /\ link' = [link EXCEPT ![c] = "half"]
    /\ UNCHANGED <<registryVars, client, inbox, handler, serverId, keepaliveVars>>

\* The library sees the end of the stream or its own ping time out.
LinkClosed(c) ==
    /\ link[c] = "half"
    /\ link' = [link EXCEPT ![c] = "closed"]
    /\ UNCHANGED <<registryVars, client, inbox, handler, serverId, keepaliveVars>>

-----------------------------------------------------------------------------
(* The handler of a connection                                               *)

\* Messages queued before the connection closed may still be read.
Receives(c, message) ==
    /\ handler[c] = "recv"
    /\ inbox[c] = message
    /\ inbox' = [inbox EXCEPT ![c] = None]

\* REGISTER comes under the placeholder id; it is answered with credentials.
AcceptRegister(c) ==
    /\ Receives(c, "register")
    /\ client' = [client EXCEPT ![c] = "registered"]
    /\ UNCHANGED <<registryVars, link, handler, serverId, keepaliveVars>>

\* _decrypt_message raised: close with 400, then _close_connection.
ReceiveGarbled(c) ==
    /\ \/ Receives(c, "register") /\ UNCHANGED serverId
       \/ Receives(c, "garbled") /\ serverId' = [serverId EXCEPT ![c] = Owner[c]]
    /\ handler' = [handler EXCEPT ![c] = "reject"]
    /\ UNCHANGED <<registryVars, link, client, keepaliveVars>>

\* A REGISTER or LOGIN that is refused (another protocol version, or the
\* account is registered already), or a message that ends the read loop: not
\* JSON, without an account, or over the rate limit.
Refuse(c) ==
    /\ \/ Receives(c, "register") /\ UNCHANGED serverId
       \/ /\ \/ Receives(c, "mismatch")
             \/ Receives(c, "login") /\ Owner[c] \in DOMAIN websockets
          /\ serverId' = [serverId EXCEPT ![c] = Owner[c]]
       \/ /\ Receives(c, "garbled")
          /\ UNCHANGED serverId \/ serverId' = [serverId EXCEPT ![c] = Owner[c]]
    /\ handler' = [handler EXCEPT ![c] = "refuse"]
    /\ UNCHANGED <<registryVars, link, client, keepaliveVars>>

\* Mutant of AcceptLogin: no check that the account is free.
AcceptAnyLogin(c) ==
    /\ Receives(c, "login")
    /\ serverId' = [serverId EXCEPT ![c] = Owner[c]]
    /\ websockets' = [s \in DOMAIN websockets \cup {Owner[c]} |->
                        IF s = Owner[c] THEN c ELSE websockets[s]]
    /\ serversInfo' = serversInfo \cup {Owner[c]}
    /\ handler' = [handler EXCEPT ![c] = "welcome"]
    /\ UNCHANGED <<pluginView, link, client, keepaliveVars>>

\* Mutant of AcceptLogin: registers the id the handler had before the packet.
AcceptStaleLogin(c) ==
    /\ Receives(c, "login")
    /\ serverId[c] \notin DOMAIN websockets
    /\ serverId' = [serverId EXCEPT ![c] = Owner[c]]
    /\ websockets' = [s \in DOMAIN websockets \cup {serverId[c]} |->
                        IF s = serverId[c] THEN c ELSE websockets[s]]
    /\ serversInfo' = serversInfo \cup {serverId[c]}
    /\ handler' = [handler EXCEPT ![c] = "welcome"]
    /\ UNCHANGED <<pluginView, link, client, keepaliveVars>>

\* A LOGIN that is accepted: registered first, LOGINED sent next.
AcceptLogin(c) ==
    /\ Receives(c, "login")
    /\ Owner[c] \notin DOMAIN websockets
    /\ serverId' = [serverId EXCEPT ![c] = Owner[c]]
    /\ websockets' = [s \in DOMAIN websockets \cup {Owner[c]} |->
                        IF s = Owner[c] THEN c ELSE websockets[s]]
    /\ serversInfo' = serversInfo \cup {Owner[c]}
    /\ handler' = [handler EXCEPT ![c] = "welcome"]
    /\ UNCHANGED <<pluginView, link, client, keepaliveVars>>

\* LOGINED is out: new_connect, and NEW_LOGIN to everyone.
Announce(c) ==
    /\ handler[c] = "welcome"
    /\ pluginView' = pluginView \cup {Owner[c]}
    /\ handler' = [handler EXCEPT ![c] = "recv"]
    /\ UNCHANGED <<websockets, serversInfo, link, client, inbox, serverId,
                   keepaliveVars>>

\* The error packet is out: close_connect, then back to the read loop.
CloseRefused(c) ==
    /\ handler[c] = "refuse"
    /\ link' = [link EXCEPT ![c] = "closed"]
    /\ handler' = [handler EXCEPT ![c] = "recv"]
    /\ UNCHANGED <<registryVars, client, inbox, serverId, keepaliveVars>>

CloseRejected(c) ==
    /\ handler[c] = "reject"
    /\ link' = [link EXCEPT ![c] = "closed"]
    /\ handler' = [handler EXCEPT ![c] = "evict"]
    /\ UNCHANGED <<registryVars, client, inbox, serverId, keepaliveVars>>

\* _process_message's own call of _close_connection, before the finally's.
EvictRejected(c) ==
    /\ handler[c] = "evict"
    /\ CloseConnection(serverId[c])
    /\ handler' = [handler EXCEPT ![c] = "recv"]
    /\ UNCHANGED <<link, client, inbox, serverId, keepaliveVars>>

\* Mutant of HandlerEnd: the loop only ends for a client that named itself.
HandlerEndIdentified(c) ==
    /\ handler[c] = "recv" /\ link[c] = "closed" /\ serverId[c] # Temp
    /\ handler' = [handler EXCEPT ![c] = "done"]
    /\ CloseConnection(serverId[c])
    /\ UNCHANGED <<link, client, inbox, serverId, keepaliveVars>>

\* The read loop ends on a closed connection; the finally clause runs on every
\* way out, the return for a 401 included.
HandlerEnd(c) ==
    /\ handler[c] = "recv" /\ link[c] = "closed"
    /\ handler' = [handler EXCEPT ![c] = "done"]
    /\ CloseConnection(serverId[c])
    /\ UNCHANGED <<link, client, inbox, serverId, keepaliveVars>>

-----------------------------------------------------------------------------
(* The keepalive task                                                        *)

\* list(self.websockets.items())
KeepaliveSnapshot ==
    /\ keepalive = "sleep" /\ DOMAIN websockets # {}
    /\ sweep' = {<<s, websockets[s]>> : s \in DOMAIN websockets}
    /\ keepalive' = "sweep"
    /\ UNCHANGED <<registryVars, connVars, probing>>

\* ws.ping() raises at once on a closed connection.
KeepalivePing(pair) ==
    /\ keepalive = "sweep" /\ pair \in sweep
    /\ sweep' = sweep \ {pair}
    /\ probing' = pair
    /\ keepalive' = IF link[pair[2]] = "closed" THEN "drop" ELSE "wait"
    /\ UNCHANGED <<registryVars, connVars>>

\* Mutant of KeepaliveAnswer: waits for the pong only.
KeepalivePongOnly ==
    /\ keepalive = "wait"
    /\ link[probing[2]] = "open" /\ keepalive' = "sweep"
    /\ UNCHANGED <<registryVars, connVars, sweep, probing>>

\* The pong came, or the connection closed while it was awaited.
KeepaliveAnswer ==
    /\ keepalive = "wait"
    /\ \/ link[probing[2]] = "open" /\ keepalive' = "sweep"
       \/ link[probing[2]] = "closed" /\ keepalive' = "drop"
    /\ UNCHANGED <<registryVars, connVars, sweep, probing>>

KeepaliveDrop ==
    /\ keepalive = "drop"
    /\ CloseConnection(probing[1])
    /\ keepalive' = "sweep"
    /\ UNCHANGED <<connVars, sweep, probing>>

KeepaliveDone ==
    /\ keepalive = "sweep" /\ sweep = {}
    /\ keepalive' = "sleep"
    /\ probing' = <<>>
    /\ UNCHANGED <<registryVars, connVars, sweep>>

-----------------------------------------------------------------------------
HandlerStep(c) ==
    \/ AcceptRegister(c)
    \/ ReceiveGarbled(c)
    \/ Refuse(c)
    \/ AcceptLogin(c)
    \/ Announce(c)
    \/ CloseRefused(c)
    \/ CloseRejected(c)
    \/ EvictRejected(c)
    \/ HandlerEnd(c)

ClientStep(c) ==
    \/ Connect(c)
    \/ ClientRegister(c)
    \/ \E greeting \in Greetings : ClientGreet(c, greeting)
    \/ PeerLost(c)

KeepaliveStep ==
    \/ KeepaliveSnapshot
    \/ \E pair \in sweep : KeepalivePing(pair)
    \/ KeepaliveAnswer
    \/ KeepaliveDrop
    \/ KeepaliveDone

Next ==
    \/ \E c \in Conns : HandlerStep(c) \/ ClientStep(c) \/ LinkClosed(c)
    \/ KeepaliveStep

Spec == Init /\ [][Next]_vars

\* The event loop runs every coroutine that is ready and every close handshake
\* times out; the library's ping timeout notices a silent peer.  The clients
\* owe nothing.
FairSpec ==
    /\ Spec
    /\ \A c \in Conns : WF_vars(HandlerStep(c)) /\ WF_vars(LinkClosed(c))
    /\ WF_vars(KeepaliveStep)

-----------------------------------------------------------------------------
(* Properties                                                                *)

HandlerStates == {None, "recv", "welcome", "refuse", "reject", "evict", "done"}

\* Every variable has its type, and a pending ping names a connection.
TypeOK ==
    /\ DOMAIN websockets \subseteq Servers
    /\ websockets \in [DOMAIN websockets -> Conns]
    /\ serversInfo \subseteq Servers
    /\ pluginView \subseteq Servers
    /\ link \in [Conns -> {"idle", "open", "half", "closed"}]
    /\ client \in [Conns -> {"silent", "registering", "registered", "greeted"}]
    /\ inbox \in [Conns -> Greetings \cup {None, "register"}]
    /\ handler \in [Conns -> HandlerStates]
    /\ serverId \in [Conns -> Servers \cup {Temp}]
    /\ sweep \subseteq Servers \X Conns
    /\ keepalive \in {"sleep", "sweep", "wait", "drop"}
    /\ keepalive \in {"wait", "drop"} => probing \in Servers \X Conns

Running(c) == handler[c] \notin {None, "done"}

\* websockets and servers_info always name the same accounts, and each account
\* a connection of its own client whose handler still runs: whichever of the
\* several callers of _close_connection comes first, the last one to leave
\* takes the entry with it, so no account stays blocked by a dead connection.
NoGhost ==
    /\ DOMAIN websockets = serversInfo
    /\ \A s \in DOMAIN websockets :
          Owner[websockets[s]] = s /\ Running(websockets[s])

\* An account that plugins believe connected has a running handler, although
\* new_connect comes an await after the registration and can be overtaken by
\* a del_connect: the plugins' view heals when the account's handlers end.
PluginsForgetTheGone ==
    \A s \in pluginView : \E c \in Conns : serverId[c] = s /\ Running(c)

\* The registry hands out accounts as exclusive leases: no login takes an
\* account over, and no connection holds one once its handler has ended.
Leases ==
    INSTANCE AccountLease WITH
        lease <- websockets,
        retired <- {c \in Conns : handler[c] = "done"}

ImplementsLease == Leases!Spec

\* A connection is lost for good, or refused or rejected; once true, this stays
\* true until the handler has ended.
Leaving(c) == link[c] \in {"half", "closed"} \/ handler[c] \in {"refuse", "reject"}

\* A connection that is lost, refused or rejected is always cleaned up: its
\* handler gets to its finally clause, so its account can log in again.
AlwaysCleanedUp == \A c \in Conns : []<>(Leaving(c) => handler[c] = "done")

\* The keepalive task always gets back to sleep: a peer that goes silent
\* during a sweep does not stop the others from being probed.
SweepEnds == []<>(keepalive = "sleep")

\* del_connect is called when a sub-server disconnects: the account that
\* leaves the registry belonged to a connection that is closed.
DelConnectMeansDisconnected ==
    [][\A s \in DOMAIN websockets \ DOMAIN websockets' :
         link[websockets[s]] = "closed"]_vars

=============================================================================
