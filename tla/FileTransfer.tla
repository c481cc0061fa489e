---------------------------- MODULE FileTransfer ----------------------------
(* Files between accounts and the server: FILE_SEND, the chunks, FILE_SENDOK  *)
(* and FILE_ERROR (websockets/data_packet.py, server.py, client.py).          *)
(*                                                                            *)
(* A sender's coroutine sleeps after each chunk, so that transfers interleave *)
(* on the way; the receiver tells them apart by nothing but the sender (the   *)
(* server) or not at all (a client).  Payload checksums always match here:    *)
(* names, hashes and hexadecimal strings survive JSON.  A file is the         *)
(* sequence of its chunks; the chunk <<t, i>> is the i-th of transfer t's.    *)
EXTENDS Integers, Sequences, FiniteSets, SequencesExt, FiniteSetsExt

CONSTANTS
    Accounts,   \* account ids of the sub-servers
    Server,     \* the id "-----": the server and its own plugins
    All,        \* the id "all"
    Transfers,  \* calls of send_file_to_other_server
    Jobs,       \* what the calls may be: functions from Transfers to records
                \* of from, to, name (the basename) and path (target_save_path)
    None,       \* no transfer
    Chunks,     \* chunks of each file
    Window,     \* packets in one direction of a websocket before send waits
    MaxTurns    \* bound on lost connections, PINGs and failing files, together

ASSUME IdsAssumption ==
    /\ Server \notin Accounts /\ All \notin Accounts /\ Server # All
    /\ None \notin Transfers
ASSUME BoundsAssumption ==
    Chunks \in Nat /\ Window \in Nat \ {0} /\ MaxTurns \in Nat

Machines == Accounts \cup {Server}

ASSUME JobsAssumption ==
    \A job \in Jobs : \A t \in Transfers :
        /\ job[t].from \in Machines
        /\ job[t].to \in Machines \cup {All}
        /\ <<job[t].from, job[t].to>> # <<Server, Server>>

VARIABLES
    job,        \* the calls of this behaviour
    stage,      \* packets of each transfer sent so far, or -1: given up
    copies,     \* server: whose content send_files/<name> has
    wait,       \* _wait_files of the server, _wait_file of each client
    files,      \* <<machine, path>> -> content, of the files written to
    link,       \* the connection of each account: down, up, or dead
    deaf,       \* clients that have stopped reading their connection
    connected,  \* server: accounts in websockets
    book,       \* server: what it sent on the account's connection, by sid
    known,      \* client: the highest sid it has heard
    toClient, toServer,     \* the two directions in flight
    got,        \* <<machine, transfer>>: recv_file was called
    disturbed,  \* <<machine, transfer>>: what may make the transfer fail did
    turns       \* of what MaxTurns bounds, so far

wire == <<link, deaf, connected, book, known, toClient, toServer>>
disk == <<wait, files, got>>
vars == <<job, stage, copies, wait, files, wire, got, disturbed, turns>>

-----------------------------------------------------------------------------
Content(t) == [i \in 1..Chunks |-> <<t, i>>]

Packet(kind, t, chunk) == [kind |-> kind, of |-> t, chunk |-> chunk, sid |-> 0]
Error == Packet("error", None, <<>>)
Ping(sid) == [Packet("ping", None, <<>>) EXCEPT !.sid = sid]

\* The packet that a transfer sends when it has sent n.
Nth(t, n, source) ==
    IF n = 0 THEN Packet("send", t, <<>>)
    ELSE IF n <= Chunks THEN Packet("sending", t, <<source, n>>)
    ELSE Packet("sendok", t, <<>>)

Complete == Chunks + 2

Receivers(t) ==
    IF job[t].to = All THEN Machines \ {job[t].from} ELSE {job[t].to}

\* Mutant of HandleOf: the server has one file for all senders, as a client.
HandleOfMachine(r, from) ==
    IF r = Server THEN <<Server, CHOOSE a \in Accounts : TRUE>> ELSE <<r, r>>

\* Where r keeps the file it is writing for a sender.
HandleOf(r, from) == IF r = Server THEN <<Server, from>> ELSE <<r, r>>
Handles == {<<Server, a>> : a \in Accounts} \cup {<<a, a>> : a \in Accounts}

Closed == [of |-> None, path |-> None, at |-> 0]
Opened(t) == [of |-> t, path |-> job[t].path, at |-> 0]

\* Transfers that r cannot tell from t.
Rivals(r, t) ==
    {u \in Transfers \ {t} : r = Server => job[u].from = job[t].from}

-----------------------------------------------------------------------------
(* Sending                                                                    *)

\* mail gives some accounts a packet each: it takes the account's next sid, is
\* recorded, and reaches the client if its connection lives.  A send waits while
\* the window is full.
Deliver(mail) ==
    LET Numbered(a) == [mail[a] EXCEPT !.sid = Len(book[a]) + 1]
    IN  /\ \A a \in DOMAIN mail : Len(toClient[a]) < Window
        /\ book' = [a \in Accounts |-> IF a \in DOMAIN mail
                        THEN Append(book[a], Numbered(a)) ELSE book[a]]
        /\ toClient' = [a \in Accounts |-> IF a \in DOMAIN mail /\ link[a] = "up"
                        THEN Append(toClient[a], Numbered(a)) ELSE toClient[a]]

Copies(accounts, p) == [a \in accounts |-> p]

ToServer(a, p) == toServer' = [toServer EXCEPT ![a] = Append(@, p)]

\* Those that a packet of t does not reach now.
Unreached(t) == {<<r, t>> : r \in {a \in Receivers(t) \cap Accounts : link[a] # "up"}}

\* A step that MaxTurns bounds.
Turn == turns < MaxTurns /\ turns' = turns + 1

-----------------------------------------------------------------------------
Init ==
    /\ job \in Jobs
    /\ stage = [t \in Transfers |-> 0]
    /\ copies = [n \in {job[t].name : t \in Transfers} |-> None]
    /\ wait = [h \in Handles |-> Closed]
    /\ files = [f \in Machines \X {job[t].path : t \in Transfers} |-> <<>>]
    /\ link = [a \in Accounts |-> "up"] /\ deaf = {} /\ connected = Accounts
    /\ book = [a \in Accounts |-> <<>>] /\ known = [a \in Accounts |-> 0]
    /\ toClient = [a \in Accounts |-> <<>>] /\ toServer = [a \in Accounts |-> <<>>]
    /\ got = {} /\ disturbed = {} /\ turns = 0

-----------------------------------------------------------------------------
(* The senders                                                                *)

\* The client's send_file_to_other_server, from one await to the next.
ClientSendsNext(t) ==
    LET a == job[t].from
    IN  /\ a \in Accounts /\ link[a] = "up" /\ Len(toServer[a]) < Window
        /\ stage[t] \in 0..Complete - 1
        /\ stage' = [stage EXCEPT ![t] = @ + 1]
        /\ ToServer(a, Nth(t, stage[t], t))
        /\ disturbed' = disturbed \cup Unreached(t)
        /\ UNCHANGED <<job, copies, disk, link, deaf, connected, book, known, toClient,
                       turns>>

\* The server's: the file is copied to send_files and read from there.  Without
\* a websocket there is a KeyError, or, before the first packet, a return.
ServerSendsNext(t) ==
    /\ job[t].from = Server
    /\ stage[t] \in 0..Complete - 1
    /\ copies' = IF stage[t] = 0 THEN [copies EXCEPT ![job[t].name] = t] ELSE copies
    /\ LET sameName == {u \in Transfers \ {t} : job[u].name = job[t].name
                            /\ job[u].from = Server /\ stage[u] \in 1..Chunks}
           overwritten == IF stage[t] = 0 THEN Machines \X sameName ELSE {}
       IN  disturbed' = disturbed \cup Unreached(t) \cup overwritten
    /\ IF job[t].to # All /\ job[t].to \notin connected
       THEN /\ stage' = [stage EXCEPT ![t] = -1]
            /\ UNCHANGED <<book, toClient>>
       ELSE /\ stage' = [stage EXCEPT ![t] = @ + 1]
            /\ Deliver(Copies(Receivers(t) \cap connected,
                              Nth(t, stage[t], copies'[job[t].name])))
    /\ UNCHANGED <<job, disk, link, deaf, connected, known, toServer, turns>>

-----------------------------------------------------------------------------
(* The receiver of a file, on the server or on a client: what becomes of its  *)
(* handle, its file, and whether it answers FILE_ERROR.                       *)

WriteAt(content, at, chunk) ==
    [i \in 1..Max({Len(content), at + 1}) |->
        IF i = at + 1 THEN chunk
        ELSE IF i <= Len(content) THEN content[i] ELSE <<None, i>>]

\* Mutant of Verified: the hash is not compared.
VerifiedNot(content, t) == TRUE

Verified(content, t) == content = Content(t)

\* The file r is writing for the sender of t.
Open(r, t) == wait[HandleOf(r, job[t].from)]

\* The transfers that a packet may make fail: those that lose their handle or
\* their bytes to its own, and its own if it writes to the file of another,
\* shares a path with one, or repeats itself.
Disturbs(r, p, again) ==
    LET displaced == {Open(r, p.of).of} \cap Rivals(r, p.of)
        samePath == {u \in Transfers \ {p.of} : \E h \in Handles :
                        h[1] = r /\ wait[h].of = u /\ wait[h].path = job[p.of].path}
        own == \/ again
               \/ p.kind # "send" /\ displaced # {}
               \/ samePath \ displaced # {}
    IN  {r} \X (displaced \cup samePath \cup (IF own THEN {p.of} ELSE {}))

\* open(save_path, "wb") truncates; a handle that is replaced is gone.
HandleFileSend(r, t) ==
    /\ wait' = [wait EXCEPT ![HandleOf(r, job[t].from)] = Opened(t)]
    /\ files' = [files EXCEPT ![<<r, job[t].path>>] = <<>>]
    /\ UNCHANGED got

HandleFileSending(r, t, chunk) ==
    /\ wait' = [wait EXCEPT ![HandleOf(r, job[t].from)].at = @ + 1]
    /\ files' = [files EXCEPT ![<<r, Open(r, t).path>>] = WriteAt(@, Open(r, t).at, chunk)]
    /\ UNCHANGED got

\* Whatever file is open is closed; the one that the packet names is verified.
HandleFileSendOk(r, t) ==
    /\ wait' = [wait EXCEPT ![HandleOf(r, job[t].from)] = Closed]
    /\ got' = got \cup (IF Verified(files[<<r, job[t].path>>], t) THEN {<<r, t>>} ELSE {})
    /\ UNCHANGED files

HandleFile(r, p) ==
    \/ p.kind = "send" /\ HandleFileSend(r, p.of)
    \/ /\ Open(r, p.of) # Closed
       /\ \/ p.kind = "sending" /\ HandleFileSending(r, p.of, p.chunk)
          \/ p.kind = "sendok" /\ HandleFileSendOk(r, p.of)
    \/ p.kind # "send" /\ Open(r, p.of) = Closed /\ UNCHANGED disk

\* Whether the handler answers FILE_ERROR.
Refused(r, p) ==
    \/ p.kind # "send" /\ Open(r, p.of) = Closed
    \/ p.kind = "sendok" /\ ~Verified(files[<<r, job[p.of].path>>], p.of)

FileKinds == {"send", "sending", "sendok"}

\* Instead, open, write or close raises OSError: no file is opened, and an older
\* handle stays; a chunk is written wholly, torn, or not; a file is closed, and
\* not verified.
CannotHandleFile(r, p) ==
    \/ p.kind = "send" /\ UNCHANGED disk
    \/ /\ Open(r, p.of) # Closed
       /\ \/ p.kind = "sending" /\ UNCHANGED disk
          \/ /\ p.kind = "sending"
             /\ \E part \in {p.chunk, <<None, 1>>} : HandleFileSending(r, p.of, part)
          \/ /\ p.kind = "sendok"
             /\ wait' = [wait EXCEPT ![HandleOf(r, job[p.of].from)] = Closed]
             /\ UNCHANGED <<files, got>>

\* The packet's own transfer has then failed, with those it displaced.
Fails(r, p) ==
    {<<r, p.of>>} \cup (IF p.kind = "send" THEN {} ELSE Disturbs(r, p, FALSE))

-----------------------------------------------------------------------------
(* The server                                                                 *)

ServerReads(a, kinds) ==
    /\ toServer[a] # <<>> /\ Head(toServer[a]).kind \in kinds
    /\ toServer' = [toServer EXCEPT ![a] = Tail(@)]

\* For an account: passed on to its websocket, or down the sender's own under
\* the account's key, where nobody can read it.
Relay(a) ==
    /\ ServerReads(a, FileKinds)
    /\ LET p == Head(toServer[a])
           b == job[p.of].to
       IN  /\ b \in Accounts
           /\ Deliver(Copies({b} \cap connected, p))
           /\ disturbed' = disturbed \cup Unreached(p.of)
    /\ UNCHANGED <<job, stage, copies, disk, link, deaf, connected, known, turns>>

\* For the server, or for all: then to every other account first.
ServerReceives(a) ==
    /\ ServerReads(a, FileKinds)
    /\ LET p == Head(toServer[a])
           others == IF job[p.of].to = All THEN connected \ {a} ELSE {}
           sorry == IF Refused(Server, p) THEN {a} ELSE {}
       IN  /\ job[p.of].to \in {Server, All}
           /\ HandleFile(Server, p)
           /\ Deliver([b \in others \cup sorry |-> IF b = a THEN Error ELSE p])
           /\ disturbed' = disturbed \cup Unreached(p.of) \cup Disturbs(Server, p, FALSE)
    /\ UNCHANGED <<job, stage, copies, link, deaf, connected, known, turns>>

\* parse_msg logs the OSError: the sender hears nothing of it.
ServerCannotReceive(a) ==
    /\ ServerReads(a, FileKinds) /\ Turn
    /\ LET p == Head(toServer[a])
       IN  /\ job[p.of].to \in {Server, All}
           /\ CannotHandleFile(Server, p)
           /\ Deliver(Copies(IF job[p.of].to = All THEN connected \ {a} ELSE {}, p))
           /\ disturbed' = disturbed \cup Unreached(p.of) \cup Fails(Server, p)
    /\ UNCHANGED <<job, stage, copies, link, deaf, connected, known>>

\* FILE_ERROR of a client goes back to the client.
EchoError(a) ==
    /\ ServerReads(a, {"error"})
    /\ Deliver(Copies({a}, Error))
    /\ UNCHANGED <<job, stage, copies, disk, link, deaf, connected, known, disturbed,
                   turns>>

\* _handle_ping sends again what it sent above the sid; the sids of the client's
\* own packets, and the awaits in between, are in AccountLink.
Replay(a) ==
    /\ ServerReads(a, {"ping"})
    /\ toClient' = [toClient EXCEPT ![a] =
                        @ \o SubSeq(book[a], Head(toServer[a]).sid + 1, Len(book[a]))]
    /\ UNCHANGED <<job, stage, copies, disk, link, deaf, connected, book, known, disturbed,
                   turns>>

-----------------------------------------------------------------------------
(* The client                                                                 *)

ClientReads(a, kinds) ==
    /\ a \notin deaf
    /\ toClient[a] # <<>> /\ Head(toClient[a]).kind \in kinds
    /\ toClient' = [toClient EXCEPT ![a] = Tail(@)]
    /\ known' = [known EXCEPT ![a] = Max({@, Head(toClient[a]).sid})]

ClientReceives(a) ==
    /\ ClientReads(a, FileKinds)
    /\ LET p == Head(toClient[a])
       IN  /\ HandleFile(a, p)
           /\ IF Refused(a, p) THEN ToServer(a, Error) ELSE UNCHANGED toServer
           /\ disturbed' = disturbed \cup Disturbs(a, p, p.sid <= known[a])
    /\ UNCHANGED <<job, stage, copies, link, deaf, connected, book, turns>>

\* The OSError ends _receive as if the connection were lost: the client leaves it
\* unread, though not unwritten, for a new one on which it is refused.
ClientCannotReceive(a) ==
    /\ ClientReads(a, FileKinds) /\ Turn
    /\ LET p == Head(toClient[a])
       IN  /\ CannotHandleFile(a, p)
           /\ disturbed' = disturbed \cup Fails(a, p)
    /\ deaf' = deaf \cup {a}
    /\ UNCHANGED <<job, stage, copies, link, connected, book, toServer>>

\* FILE_ERROR closes the file the client is receiving, whichever it is about.
HandleFileError(a) ==
    /\ ClientReads(a, {"error"})
    /\ wait' = [wait EXCEPT ![<<a, a>>] = Closed]
    /\ disturbed' = disturbed \cup ({<<a, wait[<<a, a>>].of>>} \cap (Machines \X Transfers))
    /\ UNCHANGED <<job, stage, copies, files, got, link, deaf, connected, book, toServer,
                   turns>>

Keepalive(a) ==
    /\ link[a] = "up" /\ Turn
    /\ ToServer(a, Ping(known[a]))
    /\ UNCHANGED <<job, stage, copies, disk, link, deaf, connected, book, known, toClient,
                   disturbed>>

-----------------------------------------------------------------------------
(* Connections                                                                *)

\* The connection is lost, in the end also one that its client has left: what the
\* client was receiving is gone with its object, what it was sending goes nowhere.
Drop(a) ==
    /\ link[a] = "up"
    /\ IF a \in deaf THEN UNCHANGED turns ELSE Turn
    /\ deaf' = deaf \ {a}
    /\ link' = [link EXCEPT ![a] = "dead"]
    /\ wait' = [wait EXCEPT ![<<a, a>>] = Closed]
    /\ known' = [known EXCEPT ![a] = 0]
    /\ toClient' = [toClient EXCEPT ![a] = <<>>]
    /\ toServer' = [toServer EXCEPT ![a] = <<>>]
    /\ stage' = [t \in Transfers |->
                    IF job[t].from = a /\ stage[t] > 0 THEN -1 ELSE stage[t]]
    /\ disturbed' = disturbed \cup
           {w \in Machines \X Transfers :
               stage[w[2]] > 0 /\ (w[1] = a \/ job[w[2]].from = a)}
    /\ UNCHANGED <<job, copies, files, got, connected, book>>

\* Mutant of Dropped: del_server_id forgets the open file.
DroppedKept(h) == wait[h]

Dropped(h) == Closed

\* _close_connection with its del_server_id.
CloseConnection(a) ==
    /\ link[a] = "dead"
    /\ link' = [link EXCEPT ![a] = "down"]
    /\ connected' = connected \ {a}
    /\ book' = [book EXCEPT ![a] = <<>>]
    /\ wait' = [wait EXCEPT ![<<Server, a>>] = Dropped(<<Server, a>>)]
    /\ UNCHANGED <<job, stage, copies, files, got, deaf, known, toClient, toServer,
                   disturbed, turns>>

Login(a) ==
    /\ link[a] = "down"
    /\ link' = [link EXCEPT ![a] = "up"]
    /\ connected' = connected \cup {a}
    /\ UNCHANGED <<job, stage, copies, disk, deaf, book, known, toClient, toServer,
                   disturbed, turns>>

-----------------------------------------------------------------------------
ServerStep(a) ==
    Relay(a) \/ ServerReceives(a) \/ ServerCannotReceive(a) \/ EchoError(a) \/ Replay(a)
ClientStep(a) == ClientReceives(a) \/ ClientCannotReceive(a) \/ HandleFileError(a)

Next ==
    \/ \E t \in Transfers : ClientSendsNext(t) \/ ServerSendsNext(t)
    \/ \E a \in Accounts :
        \/ ServerStep(a) \/ ClientStep(a) \/ Keepalive(a)
        \/ Drop(a) \/ CloseConnection(a) \/ Login(a)

Spec == Init /\ [][Next]_vars

-----------------------------------------------------------------------------
(* Properties                                                                 *)

Packets == [kind : FileKinds \cup {"error", "ping"}, of : Transfers \cup {None},
            chunk : {<<>>} \cup ((Transfers \cup {None}) \X (1..Chunks)), sid : Nat]

\* Every variable has its type, and the server keeps no file open for an
\* account without a connection, on whichever side of a chunk it was lost.
TypeOK ==
    /\ job \in Jobs
    /\ \A t \in Transfers : stage[t] \in -1..Complete
    /\ \A h \in Handles : wait[h] = Closed \/ wait[h].of \in Transfers
    /\ \A a \in Accounts :
        /\ link[a] \in {"up", "dead", "down"} /\ (link[a] # "down" <=> a \in connected)
        /\ wait[<<Server, a>>] # Closed => a \in connected
        /\ ToSet(toClient[a]) \cup ToSet(toServer[a]) \cup ToSet(book[a]) \subseteq Packets
        /\ known[a] <= Len(book[a])
    /\ \A a \in deaf : link[a] = "up"
    /\ got \cup disturbed \subseteq Machines \X Transfers

\* recv_file is called only with a file that has exactly the bytes its sender
\* had, by one of those it was sent to, whatever was interleaved, replayed,
\* overwritten or cut off before.
ReceivedIsExact ==
    [][\A w \in got' \ got :
          /\ w[1] \in Receivers(w[2])
          /\ files'[<<w[1], job[w[2]].path>>] = Content(w[2])]_vars

\* A transfer fails for a reason: one that was sent to its end is received by
\* everybody it was for, unless at that receiver another one of the same sender
\* (on a client: any other) or on the same path ran into it, a replay repeated
\* a packet of it, a FILE_ERROR closed its file, a connection was lost, the
\* server's copy in send_files was replaced, or its file could not be opened,
\* written or closed there (which on a client costs the connection as well).
Arriving(r, t) ==
    \/ \E a \in Accounts : \E p \in ToSet(toServer[a]) : p.of = t
    \/ r \in Accounts /\ \E p \in ToSet(toClient[r]) : p.of = t

FailsForAReason ==
    \A t \in Transfers : stage[t] = Complete =>
        \A r \in Receivers(t) :
            Arriving(r, t) \/ <<r, t>> \in got \cup disturbed

=============================================================================
