------------------------- MODULE RegistrationProofs -------------------------
(* Proofs about registration and login, for any clients, ids, lost            *)
(* connections and changes of the key.                                        *)
EXTENDS Registration, TLAPS

HandlerStates == {"idle", "recv", "refused", "leaving", "done"}
Phases == Connected \cup {"new", "off", "stopped"}

-----------------------------------------------------------------------------
(* The inductive invariant                                                    *)

Types ==
    /\ outdated \subseteq Clients /\ unlucky \subseteq Clients
    /\ rotations \in 0..MaxRotations /\ respawn \in BOOLEAN
    /\ issued \in Nat /\ drops \in 0..MaxDrops
    /\ handler \in [Conns -> HandlerStates]
    /\ served \in [Conns -> Ids \cup {Temp}]
    /\ phase \in [Clients -> Phases]
    /\ epoch \in [Clients -> Nat]
    /\ DOMAIN toServer = Conns /\ DOMAIN toClient = Clients

\* What is stored as a password is a key of some time.
Stored ==
    /\ config \in [Clients -> [account : Ids \cup {Temp}, password : Keys]]
    /\ DOMAIN accounts \subseteq Ids
    /\ \A id \in DOMAIN accounts : accounts[id] \in Passwords

\* A connection is used once, and there are as many as can be lost, and one.
Epochs ==
    /\ \A c \in Clients :
        /\ epoch[c] <= drops + 1
        /\ phase[c] \in {"new", "off"} => epoch[c] <= drops
    /\ \A k \in Conns : k[2] > epoch[k[1]] => handler[k] = "idle" /\ toServer[k] = None

\* A message to the server names the account its sender has; REGISTER is what a
\* client without one says first, before it hears anything.
Upward ==
    \A k \in Conns : toServer[k] # None =>
        /\ toServer[k].kind \in {"register", "login", "ping"}
        /\ toServer[k].account \in Ids \cup {Temp}
        /\ toServer[k].kind = "register" <=> toServer[k].account = Temp
        /\ Open(k) => /\ toServer[k].account = config[k[1]].account
                      /\ toServer[k].kind = "register" => toClient[k[1]] = None

\* REGISTERED reaches only clients without an account, LOGINED only others.
Downward ==
    \A c \in Clients :
        /\ toClient[c] # None =>
            /\ toClient[c].kind = "registered" =>
                /\ toClient[c].account \in Ids /\ toClient[c].password \in Passwords
                /\ config[c].account = Temp
            /\ toClient[c].kind = "logined" => config[c].account # Temp
        /\ phase[c] \in {"new", "off"} => toClient[c] = None
        /\ phase[c] = "new" => config[c].account = Temp
        /\ phase[c] = "ready" => config[c].account # Temp

\* The connection of a registered account has nothing to do with another one:
\* not in its handler, not in what it still has to read, not at its client.
Registry ==
    /\ DOMAIN websockets \subseteq DOMAIN accounts
    /\ \A id \in DOMAIN websockets :
        LET k == websockets[id]
        IN  /\ k \in Conns
            /\ served[k] = id
            /\ handler[k] \in {"recv", "refused", "leaving"}
            /\ toServer[k] # None => toServer[k].account = id
            /\ Open(k) => config[k[1]].account = id

\* The credentials that are on their way to a client work as well.
Works(id, password) == id \in DOMAIN accounts /\ accounts[id] = password

Credentials ==
    \A c \in Clients \ unlucky :
        /\ config[c].account # Temp => Works(config[c].account, config[c].password)
        /\ toClient[c] # None /\ toClient[c].kind = "registered"
              => Works(toClient[c].account, toClient[c].password)

IInv == Types /\ Stored /\ Epochs /\ Upward /\ Downward /\ Registry /\ Credentials

-----------------------------------------------------------------------------
LEMMA ConnsArePairs ==
  /\ \A k \in Conns : k = <<k[1], k[2]>> /\ k[1] \in Clients /\ k[2] \in 1..MaxDrops + 1
  /\ \A c \in Clients, n \in 1..MaxDrops + 1 : <<c, n>> \in Conns
  BY DEF Conns

\* Keys and passwords are only added.
LEMMA KeysGrow ==
  ASSUME rotations \in Nat, issued \in Nat, rotations' \in Nat, issued' \in Nat,
         rotations' >= rotations, issued' >= issued
  PROVE  Keys \subseteq Keys' /\ Passwords \subseteq Passwords'
  BY DEF Keys, Passwords

LEMMA InitIInv == Init => IInv
  <1> SUFFICES ASSUME Init PROVE IInv
    OBVIOUS
  <1> USE DEF Init
  <1>1. Types
    <2>1. respawn \in BOOLEAN /\ outdated \subseteq Clients /\ unlucky \subseteq Clients
      OBVIOUS
    <2>2. /\ rotations \in 0..MaxRotations /\ issued \in Nat /\ drops \in 0..MaxDrops
          /\ epoch \in [Clients -> Nat]
      BY BoundsAssumption
    <2>3. /\ handler \in [Conns -> HandlerStates] /\ served \in [Conns -> Ids \cup {Temp}]
          /\ phase \in [Clients -> Phases]
          /\ DOMAIN toServer = Conns /\ DOMAIN toClient = Clients
      BY DEF HandlerStates, Phases
    <2> QED
      BY <2>1, <2>2, <2>3 DEF Types
  <1>2. Stored
    BY DEF Stored, Keys
  <1>3. Epochs /\ Upward
    BY ConnsArePairs, BoundsAssumption DEF Epochs, Upward
  <1>4. Downward /\ Registry /\ Credentials
    BY DEF Downward, Registry, Credentials
  <1> QED
    BY <1>1, <1>2, <1>3, <1>4 DEF IInv

-----------------------------------------------------------------------------
(* The key                                                                    *)

\* Nothing but the key and its timer changes.
LEMMA KeyKeeps ==
  ASSUME IInv, respawn' \in BOOLEAN, rotations' \in 0..MaxRotations, rotations' >= rotations,
         UNCHANGED <<outdated, serverVars, clientVars, toServer, toClient, unlucky>>
  PROVE  IInv'
  <1> USE DEF serverVars, clientVars
  <1>1. Types'
    BY DEF IInv, Types
  <1>2. Stored'
    <2>1. Keys \subseteq Keys' /\ Passwords' = Passwords
      BY KeysGrow, BoundsAssumption DEF IInv, Types, Passwords
    <2> QED
      BY <2>1 DEF IInv, Stored
  <1>3. Epochs' /\ Upward'
    BY DEF IInv, Epochs, Upward, Open
  <1>4. Downward'
    BY DEF IInv, Downward, Passwords
  <1>5. Registry' /\ Credentials'
    BY DEF IInv, Registry, Credentials, Works, Open
  <1> QED
    BY <1>1, <1>2, <1>3, <1>4, <1>5 DEF IInv

LEMMA TimerKeeps == IInv /\ (ResetTimer \/ Rotate) => IInv'
  <1> SUFFICES ASSUME IInv, ResetTimer \/ Rotate PROVE IInv'
    OBVIOUS
  <1>1. respawn \in BOOLEAN /\ rotations \in 0..MaxRotations /\ MaxRotations \in Nat
    BY BoundsAssumption DEF IInv, Types
  <1>2. CASE ResetTimer
    <2>1. rotations' \in 0..MaxRotations /\ rotations' >= rotations
      BY <1>1, <1>2 DEF ResetTimer
    <2>2. respawn' \in BOOLEAN
      BY <1>2 DEF ResetTimer
    <2> QED
      BY <1>2, <2>1, <2>2, KeyKeeps DEF ResetTimer
  <1>3. CASE Rotate
    <2>1. rotations' \in 0..MaxRotations /\ rotations' >= rotations
      BY <1>1, <1>3 DEF Rotate
    <2>2. respawn' \in BOOLEAN
      BY <1>1, <1>3 DEF Rotate
    <2> QED
      BY <1>3, <2>1, <2>2, KeyKeeps DEF Rotate
  <1> QED
    BY <1>2, <1>3

-----------------------------------------------------------------------------
(* The client                                                                 *)

LEMMA GetPasswordKeeps ==
  ASSUME IInv, NEW c \in Clients, GetPassword(c)
  PROVE  IInv'
  <1> USE DEF GetPassword, serverVars
  <1>1. Types'
    <2>1. respawn' \in BOOLEAN /\ phase' \in [Clients -> Phases]
      BY DEF IInv, Types, Phases
    <2> QED
      BY <2>1 DEF IInv, Types
  <1>2. Stored'
    <2>1. Keys' = Keys /\ Passwords' = Passwords /\ RegisterKey \in Keys
      BY BoundsAssumption DEF IInv, Types, Keys, Passwords, RegisterKey
    <2> QED
      BY <2>1 DEF IInv, Stored
  <1>3. Epochs'
    BY DEF IInv, Epochs, Types
  <1>4. \A k \in Conns : k[1] \in Clients /\ (Open(k)' => Open(k))
    BY ConnsArePairs DEF Open, Connected, IInv, Types
  <1>5. \A x \in Clients : config'[x].account = config[x].account
    BY DEF IInv, Stored
  <1>6. Upward'
    BY <1>4, <1>5 DEF IInv, Upward
  <1>7. Downward'
    BY <1>5 DEF IInv, Downward, Types, Passwords
  <1>8. Registry'
    BY <1>4, <1>5 DEF IInv, Registry
  <1>9. Credentials'
    <2>1. config[c].account = Temp
      BY DEF IInv, Downward
    <2> QED
      BY <1>5, <2>1 DEF IInv, Credentials, Works, Stored
  <1> QED
    BY <1>1, <1>2, <1>3, <1>6, <1>7, <1>8, <1>9 DEF IInv

LEMMA ConnectKeeps ==
  ASSUME IInv, NEW c \in Clients, Connect(c)
  PROVE  IInv'
  <1> DEFINE k0 == <<c, epoch[c] + 1>>
  <1>1. /\ phase[c] = "off" /\ epoch' = [epoch EXCEPT ![c] = @ + 1]
        /\ phase' = [phase EXCEPT ![c] = IF Greeting(c).kind = "register"
                                          THEN "registering" ELSE "logging in"]
        /\ handler' = [handler EXCEPT ![k0] = "recv"]
        /\ toServer' = [toServer EXCEPT ![k0] = Greeting(c)]
        /\ UNCHANGED <<outdated, passwordVars, issued, accounts, websockets, served, config,
                       drops, toClient, unlucky>>
    BY DEF Connect
  <1>2. /\ epoch[c] \in Nat /\ epoch[c] <= drops /\ drops \in 0..MaxDrops /\ MaxDrops \in Nat
        /\ k0 \in Conns
    <2>1. epoch[c] \in Nat /\ drops \in 0..MaxDrops /\ MaxDrops \in Nat
      BY BoundsAssumption DEF IInv, Types
    <2>2. epoch[c] <= drops
      BY <1>1 DEF IInv, Epochs
    <2>3. epoch[c] + 1 \in 1..MaxDrops + 1
      BY <2>1, <2>2
    <2>4. k0 \in Conns
      BY <2>3, ConnsArePairs
    <2> QED
      BY <2>1, <2>2, <2>4
  <1>3. /\ Greeting(c).account = config[c].account
        /\ Greeting(c).kind \in {"register", "login"}
        /\ Greeting(c).kind = "register" <=> Greeting(c).account = Temp
        /\ config[c].account \in Ids \cup {Temp}
    BY DEF Greeting, IInv, Stored
  <1> HIDE DEF k0
  <1>4. /\ \A k \in Conns : k[1] \in Clients /\ k[2] \in Nat
        /\ k0[1] = c /\ k0[2] = epoch[c] + 1
    <2>1. k0[1] = c /\ k0[2] = epoch[c] + 1
      BY DEF k0
    <2>2. \A k \in Conns : k[1] \in Clients /\ k[2] \in Nat
      BY ConnsArePairs, BoundsAssumption
    <2> QED
      BY <2>1, <2>2
  <1>5. handler[k0] = "idle" /\ toServer[k0] = None /\ toClient[c] = None
    <2>1. k0[2] > epoch[k0[1]]
      BY <1>2, <1>4
    <2>2. toClient[c] = None
      BY <1>1 DEF IInv, Downward
    <2> QED
      BY <1>2, <2>1, <2>2 DEF IInv, Epochs
  <1>6. \A k \in Conns \ {k0} : Open(k)' => Open(k)
    <2> SUFFICES ASSUME NEW k \in Conns \ {k0}, Open(k)' PROVE Open(k)
      OBVIOUS
    <2>1. CASE k[1] = c
      <3>1. k[2] = epoch[c] + 1
        BY <1>1, <2>1 DEF Open, IInv, Types
      <3>2. k = k0
        BY <2>1, <3>1, ConnsArePairs DEF k0
      <3> QED
        BY <3>2
    <2>2. CASE k[1] # c
      BY <1>1, <1>4, <2>2 DEF Open, IInv, Types
    <2> QED
      BY <2>1, <2>2
  <1>7. /\ epoch'[c] = epoch[c] + 1 /\ phase'[c] \in {"registering", "logging in"}
         /\ \A x \in Clients \ {c} : epoch'[x] = epoch[x] /\ phase'[x] = phase[x]
    BY <1>1 DEF IInv, Types
  <1>8. Types' /\ Stored'
    <2>1. epoch' \in [Clients -> Nat]
      <3>1. epoch[c] + 1 \in Nat
        BY <1>2
      <3>2. epoch' = [epoch EXCEPT ![c] = epoch[c] + 1] /\ epoch \in [Clients -> Nat]
        BY <1>1 DEF IInv, Types
      <3> QED
        BY <3>1, <3>2
    <2>2. phase' \in [Clients -> Phases]
      BY <1>1 DEF IInv, Types, Phases, Connected
    <2>3. handler' \in [Conns -> HandlerStates] /\ DOMAIN toServer' = Conns
      BY <1>1 DEF IInv, Types, HandlerStates
    <2>4. Types'
      BY <1>1, <2>1, <2>2, <2>3 DEF IInv, Types, passwordVars
    <2>5. Keys' = Keys /\ Passwords' = Passwords
      BY <1>1 DEF Keys, Passwords, passwordVars
    <2> QED
      BY <1>1, <2>4, <2>5 DEF IInv, Stored
  <1>9. Epochs'
    <2>1. \A x \in Clients : /\ epoch'[x] <= drops' + 1
                             /\ phase'[x] \in {"new", "off"} => epoch'[x] <= drops'
      <3> SUFFICES ASSUME NEW x \in Clients
                   PROVE  /\ epoch'[x] <= drops' + 1
                          /\ phase'[x] \in {"new", "off"} => epoch'[x] <= drops'
        OBVIOUS
      <3>1. drops' = drops
        BY <1>1
      <3>2. CASE x = c
        <4>1. epoch'[x] <= drops' + 1
          <5>1. epoch[c] + 1 <= drops + 1
            BY <1>2
          <5>2. epoch'[x] = epoch[c] + 1
            BY <1>7, <3>2
          <5> QED
            BY <3>1, <5>1, <5>2
        <4>2. phase'[x] \notin {"new", "off"}
          BY <1>7, <3>2
        <4> QED
          BY <4>1, <4>2
      <3>3. CASE x # c
        BY <1>7, <3>1, <3>3 DEF IInv, Epochs
      <3> QED
        BY <3>2, <3>3
    <2>2. \A k \in Conns : k[2] > epoch'[k[1]] => handler'[k] = "idle" /\ toServer'[k] = None
      <3> SUFFICES ASSUME NEW k \in Conns, k[2] > epoch'[k[1]]
                   PROVE  handler'[k] = "idle" /\ toServer'[k] = None
        OBVIOUS
      <3>1. k[2] > epoch[k[1]] /\ k # k0
        <4>1. CASE k[1] = c
          <5>1. k[2] > epoch[c] + 1 /\ k[2] \in Nat
            BY <1>4, <1>7, <4>1
          <5>2. k[2] > epoch[c] /\ k[2] # k0[2]
            BY <1>2, <1>4, <5>1
          <5> QED
            BY <4>1, <5>2
        <4>2. CASE k[1] # c
          BY <1>4, <1>7, <4>2
        <4> QED
          BY <4>1, <4>2
      <3> QED
        BY <1>1, <3>1 DEF IInv, Types, Epochs
    <2> QED
      BY <2>1, <2>2 DEF Epochs
  <1>10. Upward'
    <2>1. \A k \in Conns \ {k0} : toServer'[k] = toServer[k]
      BY <1>1 DEF IInv, Types
    <2>2. toServer'[k0] = Greeting(c)
      BY <1>1, <1>2 DEF IInv, Types
    <2> QED
      <3>1. ASSUME NEW k \in Conns \ {k0}, toServer'[k] # None
            PROVE  /\ toServer'[k].kind \in {"register", "login", "ping"}
                   /\ toServer'[k].account \in Ids \cup {Temp}
                   /\ toServer'[k].kind = "register" <=> toServer'[k].account = Temp
                   /\ Open(k)' => /\ toServer'[k].account = config'[k[1]].account
                                  /\ toServer'[k].kind = "register" => toClient'[k[1]] = None
        BY <1>1, <1>6, <2>1, <3>1 DEF IInv, Upward
      <3>2. /\ toServer'[k0].kind \in {"register", "login", "ping"}
            /\ toServer'[k0].account \in Ids \cup {Temp}
            /\ toServer'[k0].kind = "register" <=> toServer'[k0].account = Temp
            /\ toServer'[k0].account = config'[k0[1]].account
            /\ toClient'[k0[1]] = None
        BY <1>1, <1>3, <1>5, <1>4, <2>2
      <3> QED
        BY <3>1, <3>2 DEF Upward
  <1>11. Downward'
    BY <1>1 DEF IInv, Downward, Types, Passwords
  <1>12. Registry'
    BY <1>1, <1>5, <1>6 DEF IInv, Registry, Types
  <1>13. Credentials'
    BY <1>1 DEF IInv, Credentials, Works
  <1> QED
    BY <1>8, <1>9, <1>10, <1>11, <1>12, <1>13 DEF IInv

\* An answer is read that has no consequence but for the phase of the client.
LEMMA ReadingKeeps ==
  ASSUME IInv, NEW c \in Clients, phase[c] \in Connected,
         toClient' = [toClient EXCEPT ![c] = None],
         NEW p \in {"ready", "stopped", phase[c]}, phase' = [phase EXCEPT ![c] = p],
         p = "ready" => config[c].account # Temp,
         UNCHANGED <<outdated, passwordVars, serverVars, config, epoch, drops, toServer, unlucky>>
  PROVE  IInv'
  <1> USE DEF passwordVars, serverVars
  <1>1. Types'
    BY DEF IInv, Types, Phases, Connected
  <1>2. Stored'
    BY DEF IInv, Stored, Keys, Passwords
  <1>3. Epochs'
    BY DEF IInv, Epochs, Types, Connected
  <1>4. \A k \in Conns : k[1] \in Clients /\ (Open(k)' => Open(k))
    BY ConnsArePairs DEF Open, IInv, Types
  <1>5. Upward'
    BY <1>4 DEF IInv, Upward, Types
  <1>6. Downward'
    BY DEF IInv, Downward, Types, Passwords, Connected
  <1>7. Registry'
    BY <1>4 DEF IInv, Registry
  <1>8. Credentials'
    BY DEF IInv, Credentials, Works, Types
  <1> QED
    BY <1>1, <1>2, <1>3, <1>5, <1>6, <1>7, <1>8 DEF IInv

LEMMA ReadingsKeep ==
  ASSUME IInv, NEW c \in Clients, ReceiveUnreadable(c) \/ ReceiveLogined(c) \/ ReceiveClosed(c)
  PROVE  IInv'
  <1>1. CASE ReceiveUnreadable(c)
    <2>1. phase' = [phase EXCEPT ![c] = phase[c]]
      BY <1>1 DEF ReceiveUnreadable, clientVars, IInv, Types
    <2>2. phase[c] = "ready" => config[c].account # Temp
      BY DEF IInv, Downward
    <2> QED
      BY <1>1, <2>1, <2>2, ReadingKeeps DEF ReceiveUnreadable, Received, clientVars
  <1>2. CASE ReceiveLogined(c)
    <2>1. config[c].account # Temp
      BY <1>2 DEF ReceiveLogined, Received, IInv, Downward
    <2> QED
      BY <1>2, <2>1, ReadingKeeps DEF ReceiveLogined, Received
  <1>3. CASE ReceiveClosed(c)
    BY <1>3, ReadingKeeps DEF ReceiveClosed, Received
  <1> QED
    BY <1>1, <1>2, <1>3

LEMMA ReceiveRegisteredKeeps ==
  ASSUME IInv, NEW c \in Clients, ReceiveRegistered(c)
  PROVE  IInv'
  <1> DEFINE account == toClient[c].account
             password == toClient[c].password
             k0 == <<c, epoch[c]>>
             login == [kind |-> "login", account |-> account, key |-> password]
  <1>1. /\ phase[c] \in Connected /\ toClient[c] # None /\ toClient[c].kind = "registered"
        /\ toClient' = [toClient EXCEPT ![c] = None]
        /\ config' = [config EXCEPT ![c] = [account |-> account, password |-> password]]
        /\ toServer' = [toServer EXCEPT ![k0] = login]
        /\ phase' = [phase EXCEPT ![c] = "logging in"]
        /\ UNCHANGED <<outdated, passwordVars, serverVars, epoch, drops, unlucky>>
    BY DEF ReceiveRegistered, Received
  <1>2. account \in Ids /\ account # Temp /\ password \in Passwords /\ config[c].account = Temp
    BY <1>1, IdsAssumption DEF IInv, Downward
  <1>3. login.kind = "login" /\ login.account = account
    OBVIOUS
  <1>4. config'[c].account = account /\ config'[c].password = password
    BY <1>1 DEF IInv, Stored
  <1> HIDE DEF login, k0, account, password
  <1>5. \A k \in Conns : k[1] \in Clients /\ (Open(k)' <=> Open(k)) /\ (Open(k) /\ k[1] = c => k = k0)
    BY <1>1, ConnsArePairs DEF Open, IInv, Types, Connected, k0
  <1>6. \A x \in Clients \ {c} : config'[x] = config[x] /\ toClient'[x] = toClient[x]
    BY <1>1 DEF IInv, Stored, Types
  <1>7. toClient'[c] = None
    BY <1>1 DEF IInv, Types
  <1>8. Types'
    BY <1>1 DEF IInv, Types, Phases, Connected, passwordVars, serverVars
  <1>9. Stored'
    <2>1. Keys' = Keys /\ Passwords' = Passwords /\ Passwords \subseteq Keys
      BY <1>1 DEF Keys, Passwords, passwordVars, serverVars
    <2>2. config' \in [Clients -> [account : Ids \cup {Temp}, password : Keys]]
      BY <1>1, <1>2, <2>1 DEF IInv, Stored
    <2> QED
      BY <1>1, <2>1, <2>2 DEF IInv, Stored, serverVars
  <1>10. Epochs'
    <2>1. \A k \in Conns : k[2] > epoch[k[1]] => k # k0
      BY DEF k0, IInv, Types
    <2> QED
      BY <1>1, <2>1 DEF IInv, Epochs, Types, Connected, serverVars
  <1>11. Upward'
    <2>1. \A k \in Conns : k # k0 => toServer'[k] = toServer[k]
      BY <1>1 DEF IInv, Types
    <2>2. k0 \in Conns => toServer'[k0] = login
      BY <1>1 DEF IInv, Types
    <2>3. k0[1] = c
      BY DEF k0
    <2> QED
      BY <1>2, <1>3, <1>4, <1>5, <1>6, <1>7, <2>1, <2>2, <2>3 DEF IInv, Upward
  <1>12. phase'[c] = "logging in" /\ \A x \in Clients \ {c} : phase'[x] = phase[x]
    BY <1>1 DEF IInv, Types
  <1>13. Downward'
    <2>1. Passwords' = Passwords
      BY <1>1 DEF Passwords, serverVars
    <2> QED
      BY <1>6, <1>7, <1>12, <2>1 DEF IInv, Downward
  <1>14. Registry'
    <2>1. websockets' = websockets /\ accounts' = accounts /\ served' = served /\ handler' = handler
      BY <1>1 DEF serverVars
    <2>2. ASSUME NEW id \in DOMAIN websockets, NEW k \in Conns, k = websockets[id]
          PROVE  /\ toServer'[k] # None => toServer'[k].account = id
                 /\ Open(k)' => config'[k[1]].account = id
      <3>1. /\ toServer[k] # None => toServer[k].account = id
            /\ Open(k) => config[k[1]].account = id
            /\ id \in Ids
        BY <2>2 DEF IInv, Registry, Stored
      <3>2. k # k0
        <4>1. ASSUME k = k0 PROVE FALSE
          <5>1. Open(k) /\ k[1] = c
            BY <1>1, <4>1 DEF Open, k0
          <5> QED
            BY <1>2, <3>1, <5>1, IdsAssumption
        <4> QED
          BY <4>1
      <3>3. toServer'[k] = toServer[k]
        BY <1>1, <3>2 DEF IInv, Types
      <3>4. Open(k)' => Open(k) /\ k[1] # c
        BY <1>5, <3>2
      <3> QED
        BY <1>5, <1>6, <3>1, <3>3, <3>4
    <2> QED
      BY <2>1, <2>2 DEF IInv, Registry
  <1>15. Credentials'
    <2>1. c \notin unlucky => Works(account, password)
      BY <1>1 DEF IInv, Credentials, account, password
    <2>2. accounts' = accounts /\ unlucky' = unlucky
      BY <1>1 DEF serverVars
    <2> QED
      BY <1>4, <1>6, <1>7, <2>1, <2>2 DEF IInv, Credentials, Works
  <1> QED
    BY <1>8, <1>9, <1>10, <1>11, <1>13, <1>14, <1>15 DEF IInv

LEMMA DropKeeps ==
  ASSUME IInv, NEW c \in Clients, Drop(c)
  PROVE  IInv'
  <1> USE DEF Drop, passwordVars, serverVars
  <1>1. Types'
    BY BoundsAssumption DEF IInv, Types, Phases
  <1>2. Stored'
    BY DEF IInv, Stored, Keys, Passwords
  <1>3. Epochs'
    BY DEF IInv, Epochs, Types
  <1>4. \A k \in Conns : k[1] \in Clients /\ (Open(k)' => Open(k))
    BY ConnsArePairs DEF Open, Connected, IInv, Types
  <1>5. Upward'
    BY <1>4 DEF IInv, Upward, Types
  <1>6. Downward'
    BY DEF IInv, Downward, Types, Passwords
  <1>7. Registry'
    BY <1>4 DEF IInv, Registry
  <1>8. Credentials'
    BY DEF IInv, Credentials, Works, Types
  <1> QED
    BY <1>1, <1>2, <1>3, <1>5, <1>6, <1>7, <1>8 DEF IInv

LEMMA PingKeeps ==
  ASSUME IInv, NEW c \in Clients, Ping(c)
  PROVE  IInv'
  <1> DEFINE k0 == <<c, epoch[c]>>
             ping == [Greeting(c) EXCEPT !.kind = "ping"]
  <1>1. /\ phase[c] = "ready" /\ toServer[k0] = None
        /\ toServer' = [toServer EXCEPT ![k0] = ping]
        /\ UNCHANGED <<outdated, passwordVars, serverVars, clientVars, toClient, unlucky>>
    BY DEF Ping
  <1>2. /\ ping.kind = "ping" /\ ping.account = config[c].account
        /\ config[c].account \in Ids \cup {Temp} /\ config[c].account # Temp
    BY <1>1 DEF Greeting, IInv, Stored, Downward
  <1> HIDE DEF ping, k0
  <1>3. k0[1] = c /\ k0[2] = epoch[c]
    BY DEF k0
  <1> USE DEF passwordVars, serverVars, clientVars
  <1>4. Types' /\ Stored' /\ Downward' /\ Credentials'
    BY <1>1 DEF IInv, Types, Stored, Keys, Passwords, Downward, Credentials, Works
  <1>5. \A k \in Conns : Open(k)' <=> Open(k)
    BY <1>1 DEF Open
  <1>6. \A k \in Conns : k # k0 => toServer'[k] = toServer[k]
    BY <1>1 DEF IInv, Types
  <1>7. k0 \in Conns => toServer'[k0] = ping
    BY <1>1 DEF IInv, Types
  <1>8. Epochs'
    <2>1. \A k \in Conns : k[2] > epoch[k[1]] => k # k0
      BY <1>3 DEF IInv, Types
    <2> QED
      BY <1>1, <1>6, <2>1 DEF IInv, Epochs
  <1>9. Upward'
    BY <1>1, <1>2, <1>3, <1>5, <1>6, <1>7 DEF IInv, Upward
  <1>10. Open(k0)
    BY <1>1, <1>3 DEF Open, Connected
  <1>11. Registry'
    BY <1>1, <1>2, <1>3, <1>5, <1>6, <1>7, <1>10 DEF IInv, Registry
  <1> QED
    BY <1>4, <1>8, <1>9, <1>11 DEF IInv

-----------------------------------------------------------------------------
(* The handlers                                                               *)

\* A client has one connection at a time.
LEMMA OneIsOpen ==
  \A k, q \in Conns : Open(k) /\ Open(q) /\ k[1] = q[1] => k = q
  BY ConnsArePairs DEF Open

\* A message leaves its connection, and the client may hear that it is closed.
LEMMA ReadKeeps ==
  ASSUME IInv, NEW k \in Conns, NEW kind, Reads(k, kind),
         NEW h \in {"recv", "refused", "leaving"}, handler' = [handler EXCEPT ![k] = h],
         toClient' = toClient \/ toClient' = Answered(k, Closed),
         unlucky \subseteq unlucky', unlucky' \subseteq Clients,
         UNCHANGED <<outdated, passwordVars, issued, accounts, websockets, clientVars>>
  PROVE  IInv'
  <1> USE DEF passwordVars, clientVars
  <1>1. /\ toServer[k] # None /\ handler[k] = "recv"
        /\ toServer' = [toServer EXCEPT ![k] = None]
        /\ served' = [served EXCEPT ![k] = toServer[k].account]
        /\ toServer[k].account \in Ids \cup {Temp}
    BY DEF Reads, IInv, Upward
  <1>2. /\ toServer'[k] = None /\ handler'[k] = h /\ served'[k] = toServer[k].account
        /\ \A q \in Conns \ {k} : /\ toServer'[q] = toServer[q] /\ handler'[q] = handler[q]
                                  /\ served'[q] = served[q]
    BY <1>1 DEF IInv, Types
  <1>3. /\ DOMAIN toClient' = Clients
        /\ \A c \in Clients : \/ toClient'[c] = toClient[c]
                              \/ /\ toClient'[c] = Closed
                                 /\ c = k[1] /\ Open(k)
    BY DEF Answered, IInv, Types
  <1>4. Types'
    BY <1>1, <1>3 DEF IInv, Types, HandlerStates
  <1>5. Stored'
    BY DEF IInv, Stored, Keys, Passwords
  <1>6. Epochs'
    <2>1. \A q \in Conns : q[2] > epoch[q[1]] => q # k
      BY <1>1 DEF IInv, Epochs
    <2> QED
      BY <1>2, <2>1 DEF IInv, Epochs
  <1>7. \A q \in Conns : q[1] \in Clients /\ (Open(q)' <=> Open(q))
    BY ConnsArePairs DEF Open
  <1>8. Upward'
    <2> SUFFICES ASSUME NEW q \in Conns, toServer'[q] # None
                 PROVE  /\ toServer'[q] = toServer[q]
                        /\ Open(q) => toClient'[q[1]] = toClient[q[1]]
      BY <1>7 DEF IInv, Upward
    <2> QED
      BY <1>2, <1>3, <1>7, OneIsOpen
  <1>9. Downward'
    <2>1. Open(k) => phase[k[1]] \notin {"new", "off"}
      BY DEF Open, Connected
    <2>2. Closed # None => Closed.kind = "closed"
      BY DEF Closed
    <2> QED
      BY <1>3, <2>1, <2>2 DEF IInv, Downward, Passwords
  <1>10. Registry'
    <2>1. ASSUME NEW id \in DOMAIN websockets, NEW q \in Conns, q = websockets[id]
          PROVE  /\ served'[q] = id
                 /\ handler'[q] \in {"recv", "refused", "leaving"}
                 /\ toServer'[q] # None => toServer'[q].account = id
                 /\ Open(q)' => config'[q[1]].account = id
      BY <1>1, <1>2, <1>7, <2>1 DEF IInv, Registry
    <2> QED
      BY <2>1 DEF IInv, Registry
  <1>11. Credentials'
    <2>1. Closed # None => Closed.kind # "registered"
      BY DEF Closed
    <2> QED
      BY <1>3, <2>1 DEF IInv, Credentials, Works
  <1> QED
    BY <1>4, <1>5, <1>6, <1>8, <1>9, <1>10, <1>11 DEF IInv

LEMMA RefusalsKeep ==
  ASSUME IInv, NEW k \in Conns,
         Refuse(k) \/ RefuseVersion(k) \/ RefuseLogin(k) \/ HandlePing(k)
  PROVE  IInv'
  <1>1. unlucky \subseteq Clients /\ k[1] \in Clients
    BY ConnsArePairs DEF IInv, Types
  <1>2. CASE Refuse(k)
    BY <1>1, <1>2, ReadKeeps DEF Refuse
  <1>3. CASE RefuseVersion(k)
    BY <1>1, <1>3, ReadKeeps DEF RefuseVersion
  <1>4. CASE RefuseLogin(k)
    <2>1. unlucky \subseteq unlucky' /\ unlucky' \subseteq Clients
      BY <1>1, <1>4 DEF RefuseLogin
    <2> QED
      BY <1>4, <2>1, ReadKeeps DEF RefuseLogin
  <1>5. CASE HandlePing(k)
    <2>1. handler' = [handler EXCEPT ![k] = "recv"]
      BY <1>5 DEF HandlePing, Reads, IInv, Types
    <2> QED
      BY <1>1, <1>5, <2>1, ReadKeeps DEF HandlePing
  <1> QED
    BY <1>2, <1>3, <1>4, <1>5

\* A handler that ends removes what it serves, so its connection goes as well.
LEMMA LeavingKeeps ==
  ASSUME IInv, NEW k \in Conns, handler[k] # "idle",
         NEW h \in {"leaving", "done"}, handler' = [handler EXCEPT ![k] = h],
         websockets' = Popped(served[k]),
         UNCHANGED <<outdated, passwordVars, issued, accounts, served, clientVars, toServer,
                     toClient, unlucky>>
  PROVE  IInv'
  <1> USE DEF passwordVars, clientVars
  <1>1. /\ handler'[k] = h
        /\ \A q \in Conns \ {k} : handler'[q] = handler[q]
    BY DEF IInv, Types
  <1>2. /\ DOMAIN websockets' = DOMAIN websockets \ {served[k]}
        /\ \A id \in DOMAIN websockets' : websockets'[id] = websockets[id]
    BY DEF Popped, Restrict
  <1>3. Types' /\ Stored'
    BY DEF IInv, Types, HandlerStates, Stored, Keys, Passwords
  <1>4. Epochs'
    BY <1>1 DEF IInv, Epochs
  <1>5. \A q \in Conns : Open(q)' <=> Open(q)
    BY DEF Open
  <1>6. Upward'
    BY <1>5 DEF IInv, Upward
  <1>7. Downward' /\ Credentials'
    BY DEF IInv, Downward, Passwords, Credentials, Works
  <1>8. Registry'
    BY <1>1, <1>2, <1>5 DEF IInv, Registry
  <1> QED
    BY <1>3, <1>4, <1>6, <1>7, <1>8 DEF IInv

LEMMA EndsKeep ==
  ASSUME IInv, NEW k \in Conns, CloseRefused(k) \/ Leave(k)
  PROVE  IInv'
  <1>1. CASE CloseRefused(k)
    BY <1>1, LeavingKeeps DEF CloseRefused
  <1>2. CASE Leave(k)
    BY <1>2, LeavingKeeps DEF Leave
  <1> QED
    BY <1>1, <1>2

LEMMA HandleLoginKeeps ==
  ASSUME IInv, NEW k \in Conns, HandleLogin(k)
  PROVE  IInv'
  <1> DEFINE account == toServer[k].account
             logined == [kind |-> "logined", key |-> toServer[k].key,
                         account |-> account, password |-> None]
  <1>1. /\ toServer[k] # None /\ handler[k] = "recv" /\ toServer[k].kind = "login"
        /\ toServer' = [toServer EXCEPT ![k] = None]
        /\ served' = [served EXCEPT ![k] = account]
        /\ account \notin DOMAIN websockets
        /\ websockets' = [i \in DOMAIN websockets \cup {account} |->
                            IF i = account THEN k ELSE websockets[i]]
        /\ toClient' = Answered(k, logined)
        /\ UNCHANGED <<outdated, rotations, respawn, issued, accounts, handler, phase, config,
                       epoch, drops, unlucky>>
    BY DEF HandleLogin, Reads, passwordVars, clientVars
  <1>2. /\ account \in Ids /\ account # Temp /\ account \in DOMAIN accounts
        /\ Open(k) => account = config[k[1]].account
    <2>1. /\ account \in Ids \cup {Temp} /\ account # Temp
          /\ Open(k) => account = config[k[1]].account
      BY <1>1 DEF IInv, Upward
    <2> QED
      BY <2>1 DEF HandleLogin, Decrypts
  <1>3. logined # None => logined.kind = "logined"
    OBVIOUS
  <1> HIDE DEF account, logined
  <1>4. /\ toServer'[k] = None /\ served'[k] = account
        /\ \A q \in Conns \ {k} : toServer'[q] = toServer[q] /\ served'[q] = served[q]
    BY <1>1 DEF IInv, Types
  <1>5. /\ DOMAIN toClient' = Clients
        /\ \A c \in Clients : \/ toClient'[c] = toClient[c]
                              \/ /\ toClient'[c] = logined
                                 /\ c = k[1] /\ Open(k)
    BY <1>1 DEF Answered, IInv, Types
  <1>6. Types'
    BY <1>1, <1>2, <1>5 DEF IInv, Types
  <1>7. Stored'
    BY <1>1 DEF IInv, Stored, Keys, Passwords
  <1>8. Epochs'
    <2>1. \A q \in Conns : q[2] > epoch[q[1]] => q # k
      BY <1>1 DEF IInv, Epochs
    <2> QED
      BY <1>1, <1>4, <2>1 DEF IInv, Epochs
  <1>9. \A q \in Conns : q[1] \in Clients /\ (Open(q)' <=> Open(q))
    BY <1>1, ConnsArePairs DEF Open
  <1>10. Upward'
    <2> SUFFICES ASSUME NEW q \in Conns, toServer'[q] # None
                 PROVE  /\ toServer'[q] = toServer[q]
                        /\ Open(q) => toClient'[q[1]] = toClient[q[1]]
      BY <1>1, <1>9 DEF IInv, Upward
    <2> QED
      BY <1>4, <1>5, <1>9, OneIsOpen
  <1>11. Downward'
    <2>1. Open(k) => phase[k[1]] \notin {"new", "off"} /\ config[k[1]].account # Temp
      BY <1>2 DEF Open, Connected
    <2> QED
      BY <1>1, <1>3, <1>5, <2>1 DEF IInv, Downward, Passwords
  <1>12. Registry'
    <2>1. ASSUME NEW id \in DOMAIN websockets, NEW q \in Conns, q = websockets[id]
          PROVE  /\ served'[q] = id
                 /\ handler[q] \in {"recv", "refused", "leaving"}
                 /\ toServer'[q] # None => toServer'[q].account = id
                 /\ Open(q) => config[q[1]].account = id
      <3>1. q # k
        BY <1>1, <2>1 DEF IInv, Registry, account
      <3> QED
        BY <1>4, <2>1, <3>1 DEF IInv, Registry
    <2>2. \A id \in DOMAIN websockets : websockets'[id] = websockets[id] /\ id \in DOMAIN accounts
      BY <1>1 DEF IInv, Registry
    <2>3. websockets'[account] = k /\ DOMAIN websockets' = DOMAIN websockets \cup {account}
      BY <1>1
    <2>4. \A id \in DOMAIN websockets : websockets[id] \in Conns
      BY DEF IInv, Registry
    <2> QED
      BY <1>1, <1>2, <1>4, <1>9, <2>1, <2>2, <2>3, <2>4 DEF Registry
  <1>13. Credentials'
    BY <1>1, <1>3, <1>5 DEF IInv, Credentials, Works
  <1> QED
    BY <1>6, <1>7, <1>8, <1>10, <1>11, <1>12, <1>13 DEF IInv

\* Clients that hold the id already are unlucky from now on, and nobody else is
\* concerned: an account that is not replaced keeps its password.
LEMMA HandleRegisterKeeps ==
  ASSUME IInv, NEW k \in Conns, NEW id \in Ids, HandleRegister(k, id)
  PROVE  IInv'
  <1> DEFINE password == <<"account", issued'>>
             registered == [kind |-> "registered", key |-> RegisterKey',
                            account |-> id, password |-> password]
  <1>1. /\ toServer[k] # None /\ handler[k] = "recv" /\ toServer[k].kind = "register"
        /\ toServer' = [toServer EXCEPT ![k] = None]
        /\ served' = [served EXCEPT ![k] = toServer[k].account]
        /\ id \notin DOMAIN websockets
        /\ issued' = issued + 1
        /\ accounts' = Saved(id, password)
        /\ toClient' = Answered(k, registered)
        /\ Holders(id) \subseteq unlucky' /\ unlucky \subseteq unlucky'
        /\ UNCHANGED <<outdated, respawn, websockets, handler, phase, config, epoch, drops>>
    BY DEF HandleRegister, Reads, Free, clientVars
  <1>2. /\ toServer[k].account = Temp
        /\ Open(k) => config[k[1]].account = Temp
    BY <1>1 DEF IInv, Upward
  <1>3. rotations' \in 0..MaxRotations /\ rotations' >= rotations
    BY BoundsAssumption DEF HandleRegister, IInv, Types
  <1>4. issued' \in Nat /\ issued' >= issued
    BY <1>1 DEF IInv, Types
  <1>5. Keys \subseteq Keys' /\ Passwords \subseteq Passwords'
    BY <1>3, <1>4, BoundsAssumption, KeysGrow DEF IInv, Types
  <1>6. password \in Passwords'
    BY <1>1, <1>4 DEF Passwords, IInv, Types
  <1>7. /\ registered # None => registered.kind = "registered"
        /\ registered.account = id /\ registered.password = password
    OBVIOUS
  <1> HIDE DEF registered, password
  <1>8. /\ toServer'[k] = None /\ served'[k] = Temp
        /\ \A q \in Conns \ {k} : toServer'[q] = toServer[q] /\ served'[q] = served[q]
    BY <1>1, <1>2 DEF IInv, Types
  <1>9. /\ DOMAIN toClient' = Clients
        /\ \A c \in Clients : \/ toClient'[c] = toClient[c]
                              \/ /\ toClient'[c] = registered
                                 /\ c = k[1] /\ Open(k)
    BY <1>1 DEF Answered, IInv, Types
  <1>10. /\ DOMAIN accounts' = DOMAIN accounts \cup {id} /\ accounts'[id] = password
         /\ \A i \in DOMAIN accounts \ {id} : accounts'[i] = accounts[i]
    BY <1>1 DEF Saved
  <1>11. Types'
    <2>1. unlucky' \subseteq Clients
      <3>1. k[1] \in Clients /\ Holders(id) \subseteq Clients /\ unlucky \subseteq Clients
        BY ConnsArePairs DEF Holders, IInv, Types
      <3> QED
        BY <3>1 DEF HandleRegister
    <2>2. served' \in [Conns -> Ids \cup {Temp}] /\ DOMAIN toServer' = Conns
      BY <1>1, <1>2 DEF IInv, Types
    <2> QED
      BY <1>1, <1>3, <1>4, <1>9, <2>1, <2>2 DEF IInv, Types
  <1>12. Stored'
    BY <1>1, <1>5, <1>6, <1>10 DEF IInv, Stored
  <1>13. Epochs'
    <2>1. \A q \in Conns : q[2] > epoch[q[1]] => q # k
      BY <1>1 DEF IInv, Epochs
    <2> QED
      BY <1>1, <1>8, <2>1 DEF IInv, Epochs
  <1>14. \A q \in Conns : q[1] \in Clients /\ (Open(q)' <=> Open(q))
    BY <1>1, ConnsArePairs DEF Open
  <1>15. Upward'
    <2> SUFFICES ASSUME NEW q \in Conns, toServer'[q] # None
                 PROVE  /\ toServer'[q] = toServer[q]
                        /\ Open(q) => toClient'[q[1]] = toClient[q[1]]
      BY <1>1, <1>14 DEF IInv, Upward
    <2> QED
      BY <1>8, <1>9, <1>14, OneIsOpen
  <1>16. Downward'
    <2>1. Open(k) => phase[k[1]] \notin {"new", "off"}
      BY DEF Open, Connected
    <2> QED
      BY <1>1, <1>2, <1>5, <1>6, <1>7, <1>9, <2>1 DEF IInv, Downward
  <1>17. Registry'
    <2>1. ASSUME NEW i \in DOMAIN websockets, NEW q \in Conns, q = websockets[i]
          PROVE  /\ served'[q] = i
                 /\ toServer'[q] # None => toServer'[q].account = i
      <3>1. toServer[q] # None => toServer[q].account = i
        BY <2>1 DEF IInv, Registry
      <3>2. i \in Ids
        BY DEF IInv, Registry, Stored
      <3>3. q # k
        BY <1>1, <1>2, <3>1, <3>2, IdsAssumption
      <3> QED
        BY <1>8, <2>1, <3>3 DEF IInv, Registry
    <2> QED
      BY <1>1, <1>10, <1>14, <2>1 DEF IInv, Registry
  <1>18. Credentials'
    <2> SUFFICES ASSUME NEW c \in Clients \ unlucky'
                 PROVE  /\ config[c].account # Temp => Works(config[c].account, config[c].password)'
                        /\ toClient'[c] # None /\ toClient'[c].kind = "registered"
                              => Works(toClient[c].account, toClient[c].password)'
      BY <1>1 DEF Credentials
    <2>1. c \notin unlucky /\ c \notin Holders(id)
      BY <1>1
    <2>2. config[c].account # Temp => Works(config[c].account, config[c].password)'
      BY <1>1, <1>10, <2>1 DEF IInv, Credentials, Holders, Works
    <2>3. CASE toClient'[c] = toClient[c]
      BY <1>10, <2>1, <2>2, <2>3 DEF IInv, Credentials, Holders, Works
    <2>4. CASE toClient'[c] = registered
      BY <1>7, <1>10, <2>2, <2>4 DEF Works
    <2> QED
      BY <1>9, <2>2, <2>3, <2>4
  <1> QED
    BY <1>11, <1>12, <1>13, <1>15, <1>16, <1>17, <1>18 DEF IInv

-----------------------------------------------------------------------------
LEMMA NextKeeps == IInv /\ [Next]_vars => IInv'
  <1> SUFFICES ASSUME IInv, [Next]_vars PROVE IInv'
    OBVIOUS
  <1>1. ASSUME NEW c \in Clients, GetPassword(c) \/ ClientStep(c) \/ Drop(c) \/ Ping(c)
        PROVE  IInv'
    BY <1>1, GetPasswordKeeps, ConnectKeeps, ReceiveRegisteredKeeps, ReadingsKeep, DropKeeps,
       PingKeeps DEF ClientStep
  <1>2. ASSUME NEW k \in Conns, HandlerStep(k) PROVE IInv'
    BY <1>2, RefusalsKeep, HandleRegisterKeeps, HandleLoginKeeps, EndsKeep DEF HandlerStep
  <1>3. CASE UNCHANGED vars
    <2>1. respawn' \in BOOLEAN /\ rotations' \in 0..MaxRotations /\ rotations' >= rotations
      BY <1>3, BoundsAssumption DEF vars, passwordVars, IInv, Types
    <2> QED
      BY <1>3, <2>1, KeyKeeps DEF vars
  <1> QED
    BY <1>1, <1>2, <1>3, TimerKeeps DEF Next

\* Everything the registry, the account file, the clients and what is on its
\* way between them keep, whatever is lost or replaced on the way.
THEOREM Invariance == Spec => []IInv
  <1>1. Init => IInv
    BY InitIInv
  <1>2. IInv /\ [Next]_vars => IInv'
    BY NextKeeps
  <1> QED
    BY <1>1, <1>2, PTL DEF Spec

LEMMA IInvTypeOK == IInv => TypeOK
  <1> SUFFICES ASSUME IInv PROVE TypeOK
    OBVIOUS
  <1>1. epoch \in [Clients -> 0..MaxDrops + 1]
    <2>1. ASSUME NEW c \in Clients PROVE epoch[c] \in 0..MaxDrops + 1
      BY BoundsAssumption DEF IInv, Types, Epochs
    <2> QED
      BY <2>1 DEF IInv, Types
  <1>2. \A id \in DOMAIN websockets :
          LET k == websockets[id] IN served[k] = id /\ handler[k] # "done"
    BY DEF IInv, Registry
  <1> QED
    BY <1>1, <1>2 DEF IInv, Types, Stored, Registry, TypeOK, HandlerStates, Phases

\* An account that is registered as connected is in the file, and its
\* connection has a handler that serves it and has not finished: no account is
\* left connected by a handler that is gone.
THEOREM TypeCorrect == Spec => []TypeOK
  BY Invariance, IInvTypeOK, PTL

LEMMA IInvCredentials == IInv => CredentialsWork
  BY DEF IInv, Credentials, Works, CredentialsWork

\* What a client saved opens its account on the server, for any number of
\* clients, ids, lost connections and new registration keys.
THEOREM CredentialsAlwaysWork == Spec => []CredentialsWork
  BY Invariance, IInvCredentials, PTL
=============================================================================
