---------------------------- MODULE Registration ----------------------------
(* From the registration key to a client that is logged in, and stays so:     *)
(* account/register_system.py, REGISTER and LOGIN of                          *)
(* websockets/data_packet.py, _handler of websockets/server.py and the life   *)
(* of websockets/client.py, with account.json and the client's configuration. *)
(*                                                                            *)
(* A client is what an operator set up once: it registers, stores the account *)
(* it is given, and from then on logs in with it on every connection.  An     *)
(* action of the server is what its event loop does between two awaits; the   *)
(* thread that replaces the registration key runs beside the loop.            *)
EXTENDS Integers, FiniteSets, Functions

CONSTANTS
    Clients,        \* processes of sub-servers
    Ids,            \* what generate_random_id may return
    Temp,           \* "-----": the account of a client that has none
    None,           \* no message; no key
    MaxDrops,       \* bound on the connections that are lost
    MaxRotations    \* bound on changes of the registration key

ASSUME IdsAssumption == Temp \notin Ids
ASSUME BoundsAssumption == MaxDrops \in Nat /\ MaxRotations \in Nat

\* The n-th connection of each client.
Conns == Clients \X (1..MaxDrops + 1)

VARIABLES
    outdated,   \* clients of another protocol version
    rotations,  \* how often the registration key was replaced
    respawn,    \* _respawn_event
    issued,     \* how many passwords generate_password has returned
    accounts,   \* account.json: id -> password
    websockets, \* WebsocketServer.websockets: id -> connection
    handler,    \* the await a connection's _handler is in
    served,     \* its local variable server_id
    phase,      \* what each client is doing
    config,     \* its account and password, as saved; the password is _fernet's
    epoch,      \* which of its connections is the current one
    toServer,   \* the message waiting on each connection
    toClient,   \* the message waiting for each client
    drops,      \* connections lost so far
    unlucky     \* clients that may fail, for a reason named where they join

passwordVars == <<rotations, respawn>>
serverVars == <<issued, accounts, websockets, handler, served>>
clientVars == <<phase, config, epoch, drops>>
vars == <<outdated, passwordVars, serverVars, clientVars, toServer, toClient, unlucky>>

-----------------------------------------------------------------------------
RegisterKey == <<"register", rotations>>

Connected == {"registering", "logging in", "ready"}

\* The peer of connection k is still there.
Open(k) == epoch[k[1]] = k[2] /\ phase[k[1]] \in Connected

Greeting(c) ==
    [kind |-> IF config[c].account = Temp THEN "register" ELSE "login",
     account |-> config[c].account, key |-> config[c].password]

\* A packet or a close frame; nobody reads it on a dead connection.
Answered(k, message) ==
    [toClient EXCEPT ![k[1]] = IF Open(k) THEN message ELSE @]

Closed == [kind |-> "closed", key |-> None, account |-> None, password |-> None]

\* Clients that were told of an account, or are about to be.
Holders(id) ==
    {c \in Clients :
        \/ config[c].account = id
        \/ toClient[c] # None /\ toClient[c].kind = "registered" /\ toClient[c].account = id}

\* Mutant of Free: an id that is in use may come again.
AnyId == Ids

\* _generate_server_credentials compares with the connected accounts, not with the file.
Free == Ids \ DOMAIN websockets

\* _save_credentials: account.json is read, extended and written.
Saved(id, password) ==
    [i \in DOMAIN accounts \cup {id} |-> IF i = id THEN password ELSE accounts[i]]

\* Mutant of Popped: the registration stays.
PoppedNone(id) == websockets

\* _close_connection, whichever connection the account is registered with.
Popped(id) == Restrict(websockets, DOMAIN websockets \ {id})

-----------------------------------------------------------------------------
Init ==
    /\ outdated \in SUBSET Clients
    /\ rotations = 0 /\ respawn = FALSE
    /\ issued = 0
    /\ accounts = <<>> /\ websockets = <<>>
    /\ handler = [k \in Conns |-> "idle"]
    /\ served = [k \in Conns |-> Temp]
    /\ phase = [c \in Clients |-> "new"]
    /\ config = [c \in Clients |-> [account |-> Temp, password |-> None]]
    /\ epoch = [c \in Clients |-> 0]
    /\ toServer = [k \in Conns |-> None]
    /\ toClient = [c \in Clients |-> None]
    /\ drops = 0
    /\ unlucky = {}

-----------------------------------------------------------------------------
(* The registration key                                                       *)

\* An operator reads the key (getkey) and sets a client up with it; how much
\* later the client starts is up to them.  The set-up does find the server, but
\* does not wait for an answer to its TEST_CONNECT.
GetPassword(c) ==
    /\ phase[c] = "new"
    /\ config' = [config EXCEPT ![c].password = RegisterKey]
    /\ phase' = [phase EXCEPT ![c] = "off"]
    /\ respawn' = TRUE
    /\ UNCHANGED <<outdated, rotations, serverVars, epoch, drops, toServer, toClient, unlucky>>

\* A second of _spawn_password that finds the event set starts the 180 s again.
ResetTimer ==
    /\ respawn
    /\ respawn' = FALSE
    /\ UNCHANGED <<outdated, rotations, serverVars, clientVars, toServer, toClient, unlucky>>

\* A second of _spawn_password after 180 s.
Rotate ==
    /\ ~respawn
    /\ rotations < MaxRotations
    /\ rotations' = rotations + 1
    /\ UNCHANGED <<outdated, respawn, serverVars, clientVars, toServer, toClient, unlucky>>

-----------------------------------------------------------------------------
(* The client                                                                 *)

\* websocket_client_main up to the REGISTER or LOGIN it begins with.
Connect(c) ==
    /\ phase[c] = "off"
    /\ LET k == <<c, epoch[c] + 1>>
           greeting == Greeting(c)
       IN  /\ epoch' = [epoch EXCEPT ![c] = @ + 1]
           /\ phase' = [phase EXCEPT ![c] =
                            IF greeting.kind = "register" THEN "registering" ELSE "logging in"]
           /\ handler' = [handler EXCEPT ![k] = "recv"]
           /\ toServer' = [toServer EXCEPT ![k] = greeting]
    /\ UNCHANGED <<outdated, passwordVars, issued, accounts, websockets, served, config, drops,
                   toClient, unlucky>>

Received(c, kind) ==
    /\ phase[c] \in Connected
    /\ toClient[c] # None /\ toClient[c].kind = kind
    /\ toClient' = [toClient EXCEPT ![c] = None]

Readable(c) == toClient[c].key = config[c].password

\* _handle_registered: the account is saved and used at once.
ReceiveRegistered(c) ==
    /\ Received(c, "registered") /\ Readable(c)
    /\ LET account == toClient[c].account
           password == toClient[c].password
       IN  /\ config' = [config EXCEPT ![c] = [account |-> account, password |-> password]]
           /\ toServer' = [toServer EXCEPT ![<<c, epoch[c]>>] =
                            [kind |-> "login", account |-> account, key |-> password]]
    /\ phase' = [phase EXCEPT ![c] = "logging in"]
    /\ UNCHANGED <<outdated, passwordVars, serverVars, epoch, drops, unlucky>>

\* _decode_payload fails, and nothing asks again.
ReceiveUnreadable(c) ==
    /\ Received(c, "registered") /\ ~Readable(c)
    /\ UNCHANGED <<outdated, passwordVars, serverVars, clientVars, toServer, unlucky>>

ReceiveLogined(c) ==
    /\ Received(c, "logined") /\ Readable(c)
    /\ phase' = [phase EXCEPT ![c] = "ready"]
    /\ UNCHANGED <<outdated, passwordVars, serverVars, config, epoch, drops, toServer, unlucky>>

\* REGISTER_ERROR, LOGIN_ERROR, and a close for 400, 401 or 4001 end the client:
\* _get_recv looks for "400" in the reason.
ReceiveClosed(c) ==
    /\ Received(c, "closed")
    /\ phase' = [phase EXCEPT ![c] = "stopped"]
    /\ UNCHANGED <<outdated, passwordVars, serverVars, config, epoch, drops, toServer, unlucky>>

\* Any other end of the connection makes a new client from the saved
\* configuration.  What was on its way to the server arrives.
Drop(c) ==
    /\ phase[c] \in Connected
    /\ drops < MaxDrops
    /\ drops' = drops + 1
    /\ phase' = [phase EXCEPT ![c] = "off"]
    /\ toClient' = [toClient EXCEPT ![c] = None]
    /\ UNCHANGED <<outdated, passwordVars, serverVars, config, epoch, toServer, unlucky>>

\* The keepalive's PING, for whatever a client sends once it is logged in.
Ping(c) ==
    /\ phase[c] = "ready" /\ toServer[<<c, epoch[c]>>] = None
    /\ toServer' = [toServer EXCEPT ![<<c, epoch[c]>>] =
                        [Greeting(c) EXCEPT !.kind = "ping"]]
    /\ UNCHANGED <<outdated, passwordVars, serverVars, clientVars, toClient, unlucky>>

-----------------------------------------------------------------------------
(* The handler of a connection                                                *)

\* The start of _handler's loop body: server_id is what the message says.
Reads(k, kind) ==
    /\ handler[k] = "recv" /\ toServer[k] # None /\ toServer[k].kind = kind
    /\ toServer' = [toServer EXCEPT ![k] = None]
    /\ served' = [served EXCEPT ![k] = toServer[k].account]

Decrypts(k) ==
    LET message == toServer[k]
    IN  IF message.account = Temp
        THEN message.key = RegisterKey
        ELSE message.account \in DOMAIN accounts /\ accounts[message.account] = message.key

\* A ValueError of _decrypt_message: close with 400, then _close_connection.
Refuse(k) ==
    /\ \E kind \in {"register", "login", "ping"} : Reads(k, kind)
    /\ ~Decrypts(k)
    /\ handler' = [handler EXCEPT ![k] = "refused"]
    /\ toClient' = Answered(k, Closed)
    /\ UNCHANGED <<outdated, passwordVars, issued, accounts, websockets, clientVars, unlucky>>

\* The protocol version: an error packet, then close with 4001.
RefuseVersion(k) ==
    /\ \E kind \in {"register", "login"} : Reads(k, kind)
    /\ Decrypts(k) /\ k[1] \in outdated
    /\ handler' = [handler EXCEPT ![k] = "leaving"]
    /\ toClient' = Answered(k, Closed)
    /\ UNCHANGED <<outdated, passwordVars, issued, accounts, websockets, clientVars, unlucky>>

\* _handle_register.  The message was decrypted with one key and the answer is
\* encrypted with the key of that moment, which the thread may have replaced.
\* Unlucky is who shares the id from now on, except a client that the server
\* has registered under it: that one must not notice.
HandleRegister(k, id) ==
    /\ Reads(k, "register")
    /\ Decrypts(k) /\ k[1] \notin outdated
    /\ id \in Free
    /\ rotations' \in {rotations} \cup
                      (IF respawn \/ rotations = MaxRotations THEN {} ELSE {rotations + 1})
    /\ issued' = issued + 1
    /\ accounts' = Saved(id, <<"account", issued'>>)
    /\ toClient' = Answered(k, [kind |-> "registered", key |-> RegisterKey',
                                account |-> id, password |-> <<"account", issued'>>])
    /\ LET before == Holders(id)
           safe == {c \in before : id \in DOMAIN websockets /\ websockets[id] = <<c, epoch[c]>>}
       IN  unlucky' = unlucky \cup (before \ safe) \cup (IF before = {} THEN {} ELSE {k[1]})
    /\ UNCHANGED <<outdated, respawn, websockets, handler, clientVars>>

\* _handle_login of an account that is not connected.
HandleLogin(k) ==
    /\ Reads(k, "login")
    /\ Decrypts(k) /\ k[1] \notin outdated
    /\ toServer[k].account \notin DOMAIN websockets
    /\ websockets' = [i \in DOMAIN websockets \cup {toServer[k].account} |->
                        IF i = toServer[k].account THEN k ELSE websockets[i]]
    /\ toClient' = Answered(k, [kind |-> "logined", key |-> toServer[k].key,
                                account |-> toServer[k].account, password |-> None])
    /\ UNCHANGED <<outdated, passwordVars, issued, accounts, handler, clientVars, unlucky>>

\* _handle_login of an account that is: LOGIN_ERROR and close with 401.  Unlucky
\* is a client whose own lost connection is what the server still has.
RefuseLogin(k) ==
    /\ Reads(k, "login")
    /\ Decrypts(k) /\ k[1] \notin outdated
    /\ toServer[k].account \in DOMAIN websockets
    /\ handler' = [handler EXCEPT ![k] = "leaving"]
    /\ toClient' = Answered(k, Closed)
    /\ LET registered == websockets[toServer[k].account]
       IN  unlucky' = IF registered[1] = k[1] /\ handler[registered] # "done"
                      THEN unlucky \cup {k[1]} ELSE unlucky
    /\ UNCHANGED <<outdated, passwordVars, issued, accounts, websockets, clientVars>>

HandlePing(k) ==
    /\ Reads(k, "ping")
    /\ Decrypts(k)
    /\ UNCHANGED <<outdated, passwordVars, issued, accounts, websockets, handler, clientVars,
                   toClient, unlucky>>

\* _process_message after the close for 400 has been awaited.
CloseRefused(k) ==
    /\ handler[k] = "refused"
    /\ handler' = [handler EXCEPT ![k] = "leaving"]
    /\ websockets' = Popped(served[k])
    /\ UNCHANGED <<outdated, passwordVars, issued, accounts, served, clientVars, toServer,
                   toClient, unlucky>>

\* The end of _handler, after a close or when the connection is found lost.
Leave(k) ==
    /\ \/ handler[k] = "leaving"
       \/ handler[k] = "recv" /\ toServer[k] = None /\ ~Open(k)
    /\ handler' = [handler EXCEPT ![k] = "done"]
    /\ websockets' = Popped(served[k])
    /\ UNCHANGED <<outdated, passwordVars, issued, accounts, served, clientVars, toServer,
                   toClient, unlucky>>

-----------------------------------------------------------------------------
ClientStep(c) ==
    \/ Connect(c)
    \/ ReceiveRegistered(c) \/ ReceiveUnreadable(c)
    \/ ReceiveLogined(c) \/ ReceiveClosed(c)

HandlerStep(k) ==
    \/ Refuse(k) \/ RefuseVersion(k) \/ RefuseLogin(k)
    \/ \E id \in Ids : HandleRegister(k, id)
    \/ HandleLogin(k) \/ HandlePing(k)
    \/ CloseRefused(k) \/ Leave(k)

Next ==
    \/ \E c \in Clients : GetPassword(c) \/ ClientStep(c) \/ Drop(c) \/ Ping(c)
    \/ ResetTimer \/ Rotate
    \/ \E k \in Conns : HandlerStep(k)

Spec == Init /\ [][Next]_vars

\* The event loops run every handler that is ready, and TCP delivers or ends.
\* Operators, the network's failures and the password thread owe nothing.
Fairness ==
    /\ \A c \in Clients : WF_vars(ClientStep(c))
    /\ \A k \in Conns : WF_vars(HandlerStep(k))

FairSpec == Spec /\ Fairness

-----------------------------------------------------------------------------
Passwords == {<<"account", n>> : n \in 1..issued}
Keys == {None} \cup {<<"register", n>> : n \in 0..rotations} \cup Passwords

\* Types; and what the registry may hold: an account of the file, with a
\* connection whose handler serves that account and has not finished, however
\* often registrations are removed by account (WebsocketServer.websockets).
TypeOK ==
    /\ outdated \subseteq Clients /\ unlucky \subseteq Clients
    /\ rotations \in 0..MaxRotations /\ respawn \in BOOLEAN
    /\ DOMAIN accounts \subseteq Ids
    /\ \A id \in DOMAIN accounts : accounts[id] \in Passwords
    /\ handler \in [Conns -> {"idle", "recv", "refused", "leaving", "done"}]
    /\ served \in [Conns -> Ids \cup {Temp}]
    /\ phase \in [Clients -> Connected \cup {"new", "off", "stopped"}]
    /\ config \in [Clients -> [account : Ids \cup {Temp}, password : Keys]]
    /\ epoch \in [Clients -> 0..MaxDrops + 1] /\ drops \in 0..MaxDrops
    /\ DOMAIN websockets \subseteq DOMAIN accounts
    /\ \A id \in DOMAIN websockets :
        LET k == websockets[id] IN served[k] = id /\ handler[k] # "done"

\* Nobody but an operator can repair a client's account, so what a client has
\* saved opens its account on the server from then on, unless its id was
\* given away while it was off line (_save_credentials, save_config).
CredentialsWork ==
    \A c \in Clients :
        config[c].account # Temp /\ c \notin unlucky =>
            /\ config[c].account \in DOMAIN accounts
            /\ accounts[config[c].account] = config[c].password

\* Why a client may end up stopped, or wait for an answer for ever: its
\* protocol version, a registration key that was replaced before it had an
\* account, or what made it unlucky.
Excused(c) ==
    \/ c \in outdated \cup unlucky
    \/ config[c].account = Temp /\ config[c].password # RegisterKey

\* Every client that was set up is in the end logged in, and not thrown out
\* again, through lost connections, other registrations and new keys
\* (_init_main, _get_recv, _handle_register, _handle_login).
EventuallyServed ==
    \A c \in Clients : <>[](phase[c] \in {"new", "ready"} \/ Excused(c))
=============================================================================
