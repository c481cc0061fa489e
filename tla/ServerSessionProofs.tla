------------------------ MODULE ServerSessionProofs ------------------------
(* Proofs about the connection registry, for any set of accounts and any     *)
(* number of connections.                                                    *)
EXTENDS ServerSession, TLAPS

-----------------------------------------------------------------------------
(* The inductive invariant                                                   *)

\* A handler only ever acts under its own client's account, it has read that
\* account before it welcomes the client, and no connection is used again.
HandlerIds ==
    \A c \in Conns :
        /\ serverId[c] \in {Temp, Owner[c]}
        /\ handler[c] = "welcome" => serverId[c] = Owner[c]
        /\ handler[c] = "done" => link[c] # "idle"

\* The handler of a registered connection will name the right account when it
\* calls _close_connection at its end.
HoldersNamed ==
    \A s \in DOMAIN websockets : serverId[websockets[s]] = s

IInv ==
    /\ TypeOK
    /\ HandlerIds
    /\ HoldersNamed
    /\ NoGhost
    /\ PluginsForgetTheGone

-----------------------------------------------------------------------------
LEMMA InitIInv == Init => IInv
  BY TempAssumption, OwnerAssumption
  DEF Init, IInv, TypeOK, HandlerIds, HoldersNamed, NoGhost,
      PluginsForgetTheGone, None, HandlerStates

\* What _close_connection does, the placeholder id included.
LEMMA CloseEffect ==
  ASSUME TypeOK, NEW s \in Servers \cup {Temp}, CloseConnection(s)
  PROVE  /\ websockets' = [t \in DOMAIN websockets \ {s} |-> websockets[t]]
         /\ serversInfo' = serversInfo \ {s}
         /\ pluginView' = pluginView \ {s}
  <1>1. CASE s = Temp
    <2>1. /\ websockets' = websockets
          /\ serversInfo' = serversInfo
          /\ pluginView' = pluginView
      BY <1>1 DEF CloseConnection, registryVars
    <2>2. s \notin DOMAIN websockets /\ s \notin serversInfo /\ s \notin pluginView
      BY <1>1, TempAssumption DEF TypeOK
    <2>3. websockets = [t \in DOMAIN websockets \ {s} |-> websockets[t]]
      BY <2>2 DEF TypeOK
    <2> QED
      BY <2>1, <2>2, <2>3
  <1>2. CASE s # Temp
    BY <1>2 DEF CloseConnection
  <1> QED
    BY <1>1, <1>2

\* Closing an account's entry keeps the invariant as long as no handler is
\* affected.
LEMMA CloseKeepsIInv ==
  ASSUME IInv, NEW s \in Servers \cup {Temp}, CloseConnection(s),
         UNCHANGED <<link, client, inbox, handler, serverId>>,
         UNCHANGED <<sweep, probing>>,
         keepalive' \in {"sleep", "sweep"}
  PROVE  IInv'
  <1>0. /\ websockets' = [t \in DOMAIN websockets \ {s} |-> websockets[t]]
        /\ serversInfo' = serversInfo \ {s}
        /\ pluginView' = pluginView \ {s}
    BY CloseEffect DEF IInv
  <1> USE <1>0
  <1>1. TypeOK'
    BY DEF IInv, TypeOK
  <1>2. HandlerIds' /\ HoldersNamed'
    BY DEF IInv, HandlerIds, HoldersNamed
  <1>3. NoGhost'
    BY DEF IInv, NoGhost, Running
  <1>4. PluginsForgetTheGone'
    BY DEF IInv, PluginsForgetTheGone, Running
  <1> QED
    BY <1>1, <1>2, <1>3, <1>4 DEF IInv

\* A step of a connection that leaves the registry alone and neither starts
\* nor ends the handler keeps the invariant.
LEMMA ConnKeepsIInv ==
  ASSUME IInv, NEW c \in Conns, UNCHANGED registryVars, UNCHANGED keepaliveVars,
         TypeOK',
         HandlerIds',
         \A d \in Conns : Running(d) => Running(d)',
         \A d \in Conns : serverId[d] # Temp => serverId'[d] = serverId[d]
  PROVE  IInv'
  <1> USE DEF registryVars, keepaliveVars
  <1>1. \A s \in DOMAIN websockets : websockets[s] \in Conns /\ s # Temp
    BY TempAssumption DEF IInv, TypeOK
  <1>2. HoldersNamed'
    BY <1>1 DEF IInv, HoldersNamed
  <1>3. NoGhost'
    BY <1>1 DEF IInv, NoGhost
  <1>4. PluginsForgetTheGone'
    BY TempAssumption DEF IInv, PluginsForgetTheGone, TypeOK
  <1> QED
    BY <1>2, <1>3, <1>4 DEF IInv

LEMMA NextIInv == IInv /\ [Next]_vars => IInv'
  <1> SUFFICES ASSUME IInv, [Next]_vars PROVE IInv'
    OBVIOUS
  <1> USE TempAssumption, OwnerAssumption
  <1>1. ASSUME NEW c \in Conns, Connect(c) PROVE IInv'
    <2>1. TypeOK' /\ HandlerIds'
      BY <1>1 DEF Connect, IInv, TypeOK, HandlerIds, registryVars, keepaliveVars, HandlerStates
    <2>2. /\ \A d \in Conns : Running(d) => Running(d)'
          /\ UNCHANGED serverId
      BY <1>1 DEF Connect, Running, None, IInv, TypeOK
    <2> QED
      BY <1>1, <2>1, <2>2, ConnKeepsIInv DEF Connect
  <1>2. ASSUME NEW c \in Conns,
               \/ ClientRegister(c) \/ PeerLost(c) \/ LinkClosed(c)
               \/ AcceptRegister(c)
               \/ \E greeting \in Greetings : ClientGreet(c, greeting)
        PROVE IInv'
    <2>1. /\ UNCHANGED <<registryVars, handler, serverId, keepaliveVars>>
          /\ \/ UNCHANGED link
             \/ link' = [link EXCEPT ![c] = "half"]
             \/ link' = [link EXCEPT ![c] = "closed"]
      BY <1>2 DEF ClientRegister, PeerLost, LinkClosed, AcceptRegister, ClientGreet
    <2>2. TypeOK'
      BY <1>2, <2>1 DEF ClientRegister, PeerLost, LinkClosed, AcceptRegister, ClientGreet,
         Receives, IInv, TypeOK, registryVars, keepaliveVars
    <2>3. HandlerIds' /\ \A d \in Conns : Running(d) => Running(d)'
      BY <2>1 DEF IInv, TypeOK, HandlerIds, Running
    <2> QED
      BY <2>1, <2>2, <2>3, ConnKeepsIInv
  <1>3. ASSUME NEW c \in Conns, ReceiveGarbled(c) \/ Refuse(c) PROVE IInv'
    <2>1. /\ UNCHANGED <<registryVars, link, client, keepaliveVars>>
          /\ handler[c] = "recv"
          /\ \/ handler' = [handler EXCEPT ![c] = "reject"]
             \/ handler' = [handler EXCEPT ![c] = "refuse"]
          /\ UNCHANGED serverId \/ serverId' = [serverId EXCEPT ![c] = Owner[c]]
          /\ inbox' = [inbox EXCEPT ![c] = None]
      BY <1>3 DEF ReceiveGarbled, Refuse, Receives
    <2>2. TypeOK' /\ HandlerIds'
      BY <2>1 DEF IInv, TypeOK, HandlerIds, registryVars, keepaliveVars, HandlerStates
    <2>3. /\ \A d \in Conns : Running(d) => Running(d)'
          /\ \A d \in Conns : serverId[d] # Temp => serverId'[d] = serverId[d]
      BY <2>1 DEF IInv, TypeOK, HandlerIds, Running, None
    <2> QED
      BY <2>1, <2>2, <2>3, ConnKeepsIInv
  <1>4. ASSUME NEW c \in Conns, AcceptLogin(c) PROVE IInv'
    <2> USE <1>4 DEF AcceptLogin, Receives
    <2>1. TypeOK' /\ HandlerIds'
      BY DEF IInv, TypeOK, HandlerIds, keepaliveVars, HandlerStates
    <2>2. HoldersNamed'
      BY DEF IInv, TypeOK, HoldersNamed, NoGhost
    <2>3. NoGhost'
      BY DEF IInv, TypeOK, NoGhost, Running, None
    <2>4. PluginsForgetTheGone'
      BY DEF IInv, TypeOK, HandlerIds, PluginsForgetTheGone, Running, None
    <2> QED
      BY <2>1, <2>2, <2>3, <2>4 DEF IInv
  <1>5. ASSUME NEW c \in Conns, Announce(c) PROVE IInv'
    <2> USE <1>5 DEF Announce
    <2>1. TypeOK' /\ HandlerIds'
      BY DEF IInv, TypeOK, HandlerIds, keepaliveVars, HandlerStates
    <2>2. HoldersNamed' /\ NoGhost'
      BY DEF IInv, TypeOK, HoldersNamed, NoGhost, Running, None
    <2>3. PluginsForgetTheGone'
      BY DEF IInv, TypeOK, HandlerIds, PluginsForgetTheGone, Running, None
    <2> QED
      BY <2>1, <2>2, <2>3 DEF IInv
  <1>6. ASSUME NEW c \in Conns, CloseRefused(c) \/ CloseRejected(c) PROVE IInv'
    <2>1. TypeOK'
      BY <1>6 DEF CloseRefused, CloseRejected, IInv, TypeOK, registryVars,
         keepaliveVars, HandlerStates
    <2>2. HandlerIds'
      BY <1>6 DEF CloseRefused, CloseRejected, IInv, TypeOK, HandlerIds
    <2>3. /\ \A d \in Conns : Running(d) => Running(d)'
          /\ UNCHANGED <<registryVars, serverId, keepaliveVars>>
      BY <1>6 DEF CloseRefused, CloseRejected, IInv, TypeOK, Running, None
    <2> QED
      BY <2>1, <2>2, <2>3, ConnKeepsIInv
  <1>7. ASSUME NEW c \in Conns, EvictRejected(c) PROVE IInv'
    <2>1. /\ handler[c] = "evict" /\ handler' = [handler EXCEPT ![c] = "recv"]
          /\ UNCHANGED <<link, client, inbox, serverId, sweep, probing, keepalive>>
      BY <1>7 DEF EvictRejected, keepaliveVars
    <2>2. /\ websockets' = [t \in DOMAIN websockets \ {serverId[c]} |-> websockets[t]]
          /\ serversInfo' = serversInfo \ {serverId[c]}
          /\ pluginView' = pluginView \ {serverId[c]}
      BY <1>7, CloseEffect DEF EvictRejected, IInv, TypeOK
    <2>3. TypeOK' /\ HandlerIds'
      BY <2>1, <2>2 DEF IInv, TypeOK, HandlerIds, HandlerStates
    <2>4. HoldersNamed' /\ NoGhost'
      BY <2>1, <2>2 DEF IInv, TypeOK, HoldersNamed, NoGhost, Running, None
    <2>5. PluginsForgetTheGone'
      BY <2>1, <2>2 DEF IInv, TypeOK, PluginsForgetTheGone, Running, None
    <2> QED
      BY <2>3, <2>4, <2>5 DEF IInv
  <1>8. ASSUME NEW c \in Conns, HandlerEnd(c) PROVE IInv'
    <2>1. /\ link[c] = "closed"
          /\ handler[c] = "recv" /\ handler' = [handler EXCEPT ![c] = "done"]
          /\ UNCHANGED <<link, client, inbox, serverId, sweep, probing, keepalive>>
      BY <1>8 DEF HandlerEnd, keepaliveVars
    <2>2. /\ websockets' = [t \in DOMAIN websockets \ {serverId[c]} |-> websockets[t]]
          /\ serversInfo' = serversInfo \ {serverId[c]}
          /\ pluginView' = pluginView \ {serverId[c]}
      BY <1>8, CloseEffect DEF HandlerEnd, IInv, TypeOK
    <2>3. TypeOK' /\ HandlerIds'
      BY <2>1, <2>2 DEF IInv, TypeOK, HandlerIds, HandlerStates
    <2>4. HoldersNamed'
      BY <2>1, <2>2 DEF IInv, HoldersNamed
    \* If c is registered, HoldersNamed says that its entry is the one removed.
    <2>5. \A s \in DOMAIN websockets' : websockets'[s] # c
      BY <2>2 DEF IInv, HoldersNamed
    <2>6. NoGhost'
      BY <2>1, <2>2, <2>5 DEF IInv, TypeOK, NoGhost, Running, None
    <2>7. PluginsForgetTheGone'
      BY <2>1, <2>2 DEF IInv, TypeOK, PluginsForgetTheGone, Running, None
    <2> QED
      BY <2>3, <2>4, <2>6, <2>7 DEF IInv
  <1>9. ASSUME KeepaliveStep PROVE IInv'
    <2>1. CASE KeepaliveDrop
      <3>1. probing[1] \in Servers
        BY <2>1 DEF KeepaliveDrop, IInv, TypeOK
      <3> QED
        BY <2>1, <3>1, CloseKeepsIInv DEF KeepaliveDrop, connVars
    <2>2. CASE \/ KeepaliveSnapshot \/ KeepaliveAnswer \/ KeepaliveDone
               \/ \E pair \in sweep : KeepalivePing(pair)
      <3>1. UNCHANGED <<registryVars, connVars>>
        BY <2>2 DEF KeepaliveSnapshot, KeepaliveAnswer, KeepaliveDone, KeepalivePing
      <3>2. /\ sweep' \subseteq Servers \X Conns
            /\ keepalive' \in {"sleep", "sweep", "wait", "drop"}
            /\ keepalive' \in {"wait", "drop"} => probing' \in Servers \X Conns
        BY <2>2 DEF KeepaliveSnapshot, KeepaliveAnswer, KeepaliveDone, KeepalivePing,
           IInv, TypeOK
      <3>3. TypeOK'
        BY <3>1, <3>2 DEF IInv, TypeOK, registryVars, connVars
      <3> QED
        BY <3>1, <3>3 DEF IInv, HandlerIds, HoldersNamed, NoGhost, PluginsForgetTheGone,
           Running, registryVars, connVars
    <2> QED
      BY <1>9, <2>1, <2>2 DEF KeepaliveStep
  <1>10. CASE UNCHANGED vars
    BY <1>10 DEF vars, registryVars, connVars, keepaliveVars, IInv, TypeOK, HandlerIds,
       HoldersNamed, NoGhost, PluginsForgetTheGone, Running
  <1> QED
    BY <1>1, <1>2, <1>3, <1>4, <1>5, <1>6, <1>7, <1>8, <1>9, <1>10
    DEF Next, HandlerStep, ClientStep

-----------------------------------------------------------------------------
LEMMA Invariance == Spec => []IInv
  BY InitIInv, NextIInv, PTL DEF Spec

\* Every variable keeps its type.
THEOREM TypeCorrect == Spec => []TypeOK
  BY Invariance, PTL DEF IInv

\* The registry never names a connection whose handler has ended, and its two
\* tables agree.
THEOREM NeverAGhost == Spec => []NoGhost
  BY Invariance, PTL DEF IInv

\* Plugins never believe an account connected that has no handler left.
THEOREM PluginsForget == Spec => []PluginsForgetTheGone
  BY Invariance, PTL DEF IInv

-----------------------------------------------------------------------------
(* The registry implements exclusive leases                                  *)

Retired == {c \in Conns : handler[c] = "done"}

LEMMA InitLease == Init => Leases!Init
  <1> SUFFICES ASSUME Init PROVE Leases!Init
    OBVIOUS
  <1>1. websockets = [s \in {} |-> {}]
    BY DEF Init
  <1>2. Retired = {}
    BY DEF Init, Retired, None
  <1> QED
    BY <1>1, <1>2 DEF Leases!Init, Retired

\* A call of _close_connection outside the end of a handler releases the
\* account's lease or finds none.
LEMMA CloseReleases ==
  ASSUME IInv, NEW s \in Servers \cup {Temp}, CloseConnection(s), Retired' = Retired
  PROVE  [Leases!Next]_(Leases!vars)
  <1>1. websockets' = [t \in DOMAIN websockets \ {s} |-> websockets[t]]
    BY CloseEffect DEF IInv
  <1>2. CASE s \in DOMAIN websockets
    <2>1. s \in Servers
      BY <1>2 DEF IInv, TypeOK
    <2> QED
      BY <1>1, <1>2, <2>1 DEF Leases!Next, Leases!Release, Leases!Without, Retired
  <1>3. CASE s \notin DOMAIN websockets
    <2>1. websockets' = websockets
      BY <1>1, <1>3 DEF IInv, TypeOK
    <2> QED
      BY <2>1 DEF Leases!vars, Retired
  <1> QED
    BY <1>2, <1>3

LEMMA NextLease == IInv /\ [Next]_vars => [Leases!Next]_(Leases!vars)
  <1> SUFFICES ASSUME IInv, [Next]_vars PROVE [Leases!Next]_(Leases!vars)
    OBVIOUS
  <1>1. ASSUME NEW c \in Conns, AcceptLogin(c) PROVE Leases!Take(Owner[c], c)
    <2>1. handler[c] = "recv" /\ handler' = [handler EXCEPT ![c] = "welcome"]
      BY <1>1 DEF AcceptLogin, Receives
    <2>2. Retired' = Retired /\ c \notin Retired
      BY <2>1 DEF Retired, IInv, TypeOK
    <2> QED
      BY <1>1, <2>2 DEF AcceptLogin, Leases!Take, Retired
  <1>2. ASSUME NEW c \in Conns, HandlerEnd(c) PROVE Leases!Retire(c)
    <2>1. Retired' = Retired \cup {c}
      BY <1>2 DEF HandlerEnd, Retired, IInv, TypeOK
    <2>2. websockets' = [t \in DOMAIN websockets \ {serverId[c]} |-> websockets[t]]
      BY <1>2, CloseEffect DEF HandlerEnd, IInv, TypeOK
    <2>3. \A s \in DOMAIN websockets' : websockets'[s] # c
      BY <2>2 DEF IInv, HoldersNamed
    <2>4. \/ UNCHANGED websockets
          \/ \E s \in DOMAIN websockets :
                websockets' = [t \in DOMAIN websockets \ {s} |-> websockets[t]]
      BY <2>2 DEF IInv, TypeOK
    <2> QED
      BY <2>1, <2>3, <2>4 DEF Leases!Retire, Leases!Without, Retired
  <1>3. ASSUME NEW c \in Conns, EvictRejected(c) PROVE [Leases!Next]_(Leases!vars)
    <2>1. Retired' = Retired
      BY <1>3 DEF EvictRejected, Retired, IInv, TypeOK
    <2>2. serverId[c] \in Servers \cup {Temp} /\ CloseConnection(serverId[c])
      BY <1>3 DEF EvictRejected, IInv, TypeOK
    <2> QED
      BY <2>1, <2>2, CloseReleases
  <1>4. ASSUME KeepaliveStep PROVE [Leases!Next]_(Leases!vars)
    <2>1. UNCHANGED handler
      BY <1>4 DEF KeepaliveStep, KeepaliveDrop, KeepaliveSnapshot, KeepaliveAnswer,
         KeepaliveDone, KeepalivePing, connVars
    <2>2. CASE KeepaliveDrop
      <3>1. probing[1] \in Servers /\ CloseConnection(probing[1])
        BY <2>2 DEF KeepaliveDrop, IInv, TypeOK
      <3> QED
        BY <2>1, <3>1, CloseReleases DEF Retired
    <2>3. CASE UNCHANGED websockets
      BY <2>1, <2>3 DEF Leases!vars
    <2> QED
      BY <1>4, <2>2, <2>3
      DEF KeepaliveStep, KeepaliveSnapshot, KeepaliveAnswer, KeepaliveDone,
          KeepalivePing, registryVars
  <1>5. ASSUME NEW c \in Conns,
               \/ ClientStep(c) \/ LinkClosed(c)
               \/ AcceptRegister(c) \/ ReceiveGarbled(c) \/ Refuse(c)
               \/ Announce(c) \/ CloseRefused(c) \/ CloseRejected(c)
        PROVE UNCHANGED Leases!vars
    <2>1. UNCHANGED websockets
      BY <1>5 DEF ClientStep, Connect, ClientRegister, ClientGreet, PeerLost, LinkClosed,
         AcceptRegister, ReceiveGarbled, Refuse, Announce, CloseRefused, CloseRejected,
         registryVars
    <2>2. \/ UNCHANGED handler
          \/ \E where \in HandlerStates \ {"done"} :
               handler[c] # "done" /\ handler' = [handler EXCEPT ![c] = where]
      <3>1. CASE Connect(c)
        <4>1. CASE handler[c] = "done"
          BY <3>1, <4>1 DEF Connect, IInv, HandlerIds
        <4> QED
          BY <3>1, <4>1 DEF Connect, HandlerStates
      <3>2. CASE \/ ClientStep(c) /\ ~Connect(c)
                 \/ LinkClosed(c) \/ AcceptRegister(c)
        <4>1. UNCHANGED handler
          BY <3>2 DEF ClientStep, ClientRegister, ClientGreet, PeerLost, LinkClosed,
             AcceptRegister
        <4> QED
          BY <4>1
      <3>3. CASE ReceiveGarbled(c)
        BY <3>3 DEF ReceiveGarbled, Receives, HandlerStates
      <3>4. CASE Refuse(c)
        BY <3>4 DEF Refuse, Receives, HandlerStates
      <3>5. CASE Announce(c) \/ CloseRefused(c) \/ CloseRejected(c)
        BY <3>5 DEF Announce, CloseRefused, CloseRejected, HandlerStates
      <3> QED
        BY <1>5, <3>1, <3>2, <3>3, <3>4, <3>5
    <2>3. Retired' = Retired
      BY <2>2 DEF Retired, IInv, TypeOK
    <2> QED
      BY <2>1, <2>3 DEF Leases!vars, Retired
  <1>6. CASE UNCHANGED vars
    BY <1>6 DEF vars, connVars, registryVars, Leases!vars
  <1>7. \A c \in Conns : Owner[c] \in Servers
    BY OwnerAssumption
  <1> QED
    BY <1>1, <1>2, <1>3, <1>4, <1>5, <1>6, <1>7
    DEF Next, HandlerStep, Leases!Next

\* The registry implements AccountLease: an account is held by one connection
\* at a time, never handed over directly, never held by an ended connection.
THEOREM LeaseRefinement == Spec => ImplementsLease
  <1>1. Spec => Leases!Spec
    BY InitLease, Invariance, NextLease, PTL DEF Spec, Leases!Spec
  <1> QED
    BY <1>1 DEF ImplementsLease
=============================================================================
