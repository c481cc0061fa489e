# ConnectCore in TLA+

ConnectCore links Minecraft sub-servers through one main server. Sub-servers
keep a websocket to it; plugins on either side exchange data and files by
account id. This directory holds TLA+ modules of the parts whose correctness
depends on ordering, loss or interleaving, TLC configurations that check them
on small instances, and TLAPS proofs of what matters most. Paths below are
relative to `src/connect_core/`.

## The system

| Component | State it keeps | Operations | What makes it correct |
|---|---|---|---|
| Packet store (`websockets/data_packet.py`, `PacketStore`) | per peer a list of (sid, packet, direction) | number and record a packet, record a received one, replay above a sid, drop an account | one entry per sid; numbering never overwrites; replay complete and ordered |
| Connection registry (`websockets/server.py`, `_handle_login`) | `websockets`, `servers_info`, one handler coroutine per connection, the keepalive task | connect, register, login, refuse, reject, clean up, ping | an account belongs to one live connection, dead ones are always removed, plugins are told |
| Account link (`data_packet.py`, `server.py`, `client.py`) | the account's ledger, `last_send_packet`; the client's sids and `last_data_packet` | LOGIN, DATA_SEND, DATA_SENDOK, PING, PONG, two resend loops | both ends agree on sids; what was lost is repaired as far as the design goes |
| Data relay (`data_packet.py`, `server.py`) | `last_send_packet`, ledgers of several accounts, the clients' lists | direct messages, the copy to `all`, acknowledgements, DATA_ERROR, the resend sweep | a body reaches who it was for and is not lost while the connection holds |
| File transfer | `_wait_files`, `_wait_file`, `send_files` | header, chunk, tail, error | a file handed to a plugin is the file that was sent |
| Client sid state (`ClientDataPacket`) | history, `_last_sent_sid`, `_last_received_sid`, recent packets | send, receive, the debug commands | the highest known sid is one number, whatever its sources |
| Client lifecycle | event loop thread, `server_id`, `server_list`, tasks | connect, reconnect, stop | a client that was set up is served in the end |
| Registration (`account/register_system.py`, `_handle_register`) | rotating key, `account.json` | rotate, issue credentials, log in | saved credentials open their account |
| Start-up and plugin events (`plugin/init_plugin.py`) | the plugin loader or none | event facade | events never stop the network loop |
| Plugin loader (`plugin/loader.py`) | available and loaded plugins, dependency graph, dependents | discover, load, unload, reload, dispatch | dependencies are loaded first and unloaded last |
| Rate limiter (`server.py`) | a window of times per key | allow, clear | at most n messages per window and key |
| Command tree (`cli/command_core.py`) | a tree of nodes by owner | add, remove, look up | an input calls the command that is registered for it |
| Sandbox, configuration, context, encryption, logging, health check, terminal commands, entry points | settings, files | I/O and conversion | not modelled: no interaction of their own |

Server side, all coroutines share one asyncio loop: code between two `await`s
is atomic and everything else interleaves. The store is shared by the handlers
of all connections, the keepalive and resend tasks and the plugins' calls.
The client runs its own loop; it talks to the server only by packets and to
plugins by the event hooks (`recv_data`, `new_connect`, `del_connect`,
`connected`, `disconnected`).

What is hard: handlers suspended between changing the registry and announcing
it; clean-up by account that runs several times for one connection; two ends
that number packets from one sid space; packets lost by a failed decode; resend
timers that race acknowledgements; one slot, one open file and one sid space that
several packets, transfers or parties share. The hazards are listed with their lines in
`PROJECT.json`.

## Modules

| Module | Models | Refines |
|---|---|---|
| `PacketStore` | `PacketStore`: history lists in list order, sids, replay | `SidLedger` |
| `SidLedger` | abstract: one map from sid to packet per peer | |
| `ServerSession` | `_handler`, `_process_message`, `_handle_register`, `_handle_login`, `_close_connection`, `_send_keepalive` | `AccountLease` |
| `AccountLease` | abstract: exclusive leases of accounts to connections | |
| `AccountLink` | one account end to end: server ledger, client sids, both channels, PING replay, both resend loops | builds on what `SidLedger` promises |
| `ClientSids` | the client's history, its two counters, the debug commands that change them | justifies `known` of `AccountLink` |
| `DataRelay` | data packets among several accounts: slots, relay, broadcast, sweep | |
| `FileTransfer` | transfers in both directions, chunk by chunk, with relay and replay | |
| `Registration` | key, REGISTER, LOGIN, `_handler` and the life of several clients | |
| `CommandTree` | the console's commands of one owner | |
| `PluginLoader` | `PluginLoader`: candidates, dependency searches, load, unload, reload, `sys.path` counts | |
| `PacketStoreProofs`, `ServerSessionProofs`, `PluginLoaderProofs`, `AccountLinkProofs`, `ClientSidsProofs`, `RegistrationProofs`, `DataRelayProofs`, `FileTransferProofs` | the proofs about the module in the name | |
| `MC...` | constants and symmetry for TLC | |

Definitions whose comment starts with "Mutant of" are wrong variants of the
definition that follows them. No specification uses them; each shows that a
property notices the mistake.

### PacketStore

`history` is `_history`: a missing bucket and an empty one differ, because a
broadcast reaches every key of the dict. `UpsertEntry` is `_upsert_entry`
(first entry with the sid is overwritten, else appended), `NextSid` is
`_calculate_next_sid`, `CreatePackets` is the loop of `create_packets` for the
destinations that `SendTo`, `SendToTemp` and `Broadcast` resolve as
`_resolve_targets` does, `Replay` is `history()`, `RecordReceived` and
`DropServer` are the methods of those names. `out` is the last return value.
Packet types matter only by whether they are in `PERSISTENT_TYPES`;
`record_history` is always left to its default by the callers and is not a
parameter. The bound `MaxSid` ends numbering, nothing else.

### ServerSession

`handler[c]` names the await the coroutine of connection c is suspended in;
each action runs from one await to the next. `serverId[c]` is the local
variable `server_id`, `inbox` the message the library has queued, `link` the
transport (`half`: the peer is gone, the server does not know). Of what a client
sends only the opening message (REGISTER, LOGIN, or one that is refused or
rejected) can touch the registry, so later traffic is left out. `CloseConnection` is
`_close_connection` up to its broadcast, the part that runs without an await.
`pluginView` is what a plugin knows from `new_connect` and `del_connect`.
A message that ends the read loop by `break` (bad JSON, no account, rate limit)
is closed and cleaned up as a refused one is, and is modelled by the same steps.

### AccountLink

The server's bucket for the account is a ledger from sid to message; the
client's three sources of `_highest_known_sid` only grow and are kept as
`known`. `todo` and `duty` are the handler's own suspended sends: a replay
is fixed before its first await, and `NEW_LOGIN` is numbered before it is
sent. A channel is FIFO, as a websocket is; what is lost is lost by the client
failing to decode it (`DecodeFails`) or with the whole connection
(`Disconnect`). A lost connection is noticed by both ends in one step here; the
skew between them is the subject of `ServerSession`.

### PluginLoader

`disk` holds what the plugin directory contains and changes by `EditFile` at any
time. `available` joins `_available`, `_dependency_graph` and
`_dependency_requirements`, which `_register_candidate` writes together;
`plugins`, `dependents` and `sysPath` are the dicts of those names. A call
(`LoadPlugins`, `LoadPlugin`, `UnloadPlugin`, `ReloadPlugin`) starts a search or fixes
the agenda, and `RunUnload`, `RunResolve` and `RunLoad` work the agenda off one plugin at a
time, because each runs plugin code and may fail. `_resolve_load_sequence` and
`_topological_order_subset` are one depth-first search: they differ in which
dependencies they follow (`InScope`), in whether one that they do not follow is a
failure, and in what they keep (`Wanted`). `search` is its state. The recursion of
`visit` and `dfs` is a stack of frames, innermost last, each with the dependencies its
loop has left and its `success`: `VisitTarget` takes the next target of the outer loop,
`VisitDependency` one round of the innermost loop, `FinishVisit` returns to the
caller and `EndSearch` to the call, whose agenda the order sets (`Agenda`). A
Python set is visited in any order, hence the choice among `roots`. `Affected` is the
worklist of `_collect_dependents`, stated as the least closed set. A
version constraint is a set of clauses, as `SpecifierSet` is; a version that cannot
be parsed is one that no clause admits. `request` keeps, for the properties
only, what was loaded before the call and what the call failed to load. Calls that
only log a warning (an unknown id, a file that is no plugin) are left out.

A file can be `NoFile`, which `_read_manifest` reports as a `PluginLoadError` and every
caller skips, or `Corrupt`: no zip archive, not UTF-8, no JSON object. What that raises no
scan catches. `_discover_plugins` has then registered the files before it (`Scanned`) and the
call is given up: `load_plugins` with the program (`StartAborts`), `load_plugin` with a log
entry, whichever file it was asked for (`LoadPluginAborts`), and `reload` of a plugin that a
damaged file belongs to, or a dependent of it, after some of the manifests were read again,
with the console thread and so the program (`ReloadAborts`). `Restart` starts it again.

Plugin code that calls the loader itself, from `on_load` or from the network thread, is not
modelled: the loader has no lock and nothing says what should hold then.

### ClientSids

A client's history has a bucket per sender, of which only the server's is ever read;
`bucket` is that one, from sid to direction. `HighestKnownSid` reads it and both
counters, `Send` and `Receive` write them as `get_data_packet` and `parse_msg` do, PONG
enters the history alone. `Acknowledge`, `SetNext` and `Clear` are the cases of
`set_sid_state`, `Delete` is `delete_recent_sids` once it has chosen. The commands run in the
CLI's thread, without a lock, while the event loop works on the same fields: each statement
that reads or writes one of them is a step, in the order of `Program`, and a packet may
come between any two. `value` is the local that a statement leaves to the next, `removed` and
`rest` what a deletion has chosen and the shortened list before it is stored. Within a packet's
or a statement's own step the two threads do not interleave. `since` is for the properties:
what was recorded after the list was stored. The property `KnownCounts` is the licence for
`AccountLink` to keep one number, `known`.

### DataRelay

`slots` is `last_send_packet` with both shapes it takes: the mapping that
`get_data_packet` returns, or, after a client's broadcast, the account's packet itself;
`SlotPacket` is what `send` finds in it. `duty[a]` is what the handler of connection a is
in the middle of, one action per await: the acknowledgement of a direct message goes
out before the message (`TakeDirect`, `Forward`), the copies of a broadcast one by one,
the server's own plugins last. `call` is a plugin's broadcast, `sweep` the snapshot
`_resend` works off. A packet is encrypted for one account, so a message that goes
down the sender's connection because its target is gone is one that nobody can read.
A payload in `Unstable` has a checksum that differs once it has been JSON (for
instance integer keys). `lists` are the clients' server lists, which begin at a client's
own login. `sent`, `got` and `owed` are history variables for the properties: `owed` is what
the server has taken over for an account; a later body for the slot, the end of the
connection, and a login while another body is under way to the account (`UnderWay`) end the
debt. Sids and replay are `AccountLink`'s.

### FileTransfer

`stage` counts the packets of a transfer: header, chunks, tail. `wait` is the file a
receiver is writing: one per sender on the server (`_wait_files`), a single one on a
client (`_wait_file`), which two senders then share. `files` is the disk: opening truncates,
a chunk goes where the handle stands. `CannotHandleFile` is what is left when `makedirs`, `open`,
`write` or `close` raises, which it always does for a `save_path` without a directory. On
the server (`ServerCannotReceive`) `parse_msg` logs it and nobody is told; an older handle of
the sender stays open. On a client (`ClientCannotReceive`) the `OSError` leaves `_receive` for
the handler of lost connections in `_init_main`: the client stops reading (`deaf`) and
connects anew, while the server still has the old connection. The new login is refused
with 401; the operator starts the client again, which is the `Drop`, `CloseConnection` and
`Login` that follow. `copies` is the directory `send_files`, where the
server keeps its copy under the file's name. `book` is what a PING makes the server
send again. `disturbed` collects, with each step, the transfers that step may make fail;
a transfer outside of it must arrive.

### Registration

A client is set up with a key (`GetPassword`), registers, saves the account it is given
and logs in, now and after every lost connection; `Clients \X 1..` are its
connections, each with a handler on the server that is named by its await. Encryption is
the key a message carries: `Decrypts` compares it with the registration key of the
moment or with `account.json`, `Readable` is the client's side. The thread that replaces
the key may do so between two steps of a handler, and within `HandleRegister`, which
reads it twice. An id is drawn from `Free`, the ids that are not connected: it may
be one that an absent client has. Of what a client sends later only a PING is kept, as any
packet that makes the handler decrypt and set its `server_id`.

### CommandTree

`tree` is the dictionary of one owner as the list of its nodes in the order of their
creation, which decides between two placeholders. `AddCommand` makes the inner nodes and
puts the command where anything was before; `AddMisfit` raises after the inner
nodes were made; `RemoveCommand` prunes upwards; `RemoveSid` is an unloaded plugin's end. `Calls` is
`handle_input` with `_resolve_command_path` and the check of `build_arguments` on the
number of arguments. `book` is a map from definitions to bindings, the meaning that the
tree is compared with.

## Runs

| Run | Instance | What it shows |
|---|---|---|
| `packet_store` | 2 accounts, the placeholder, 1 body, sids to 2 | the six properties of `PacketStore`, the refinement of `SidLedger` among them |
| `server_session` | 3 connections, two of them rivals for one account, fair event loop | no ghosts, plugins forget the gone, refinement of `AccountLease`; clean-up and keepalive sweeps always complete |
| `duplicate_login` | 2 rivals | expected violation, see below |
| `account_link` | 2 packets down, 1 up, 1 loss, 1 lost connection, fair | gap-free numbering, no invented sids, agreement when quiet and in the end for good, delivery of the last packet |
| `plugin_loader` | 4 files, 3 ids, 2 versions, failures, damaged files, 1 edit | dependency order of loads and unloads, completeness of start-up and reload, exact book-keeping |
| `lost_dependents` | the same, no edit | expected violation, see below |
| `missed_packet` | 2 packets and a loss | expected violation, see below |
| `data_relay` | 2 accounts, 2 bodies, one of them unstable, 2 turns | only addressees receive; slots stay usable by the sweep; what was taken over does not vanish |
| `file_transfer` | 2 transfers of 2 chunks in 7 constellations, 1 turn (a loss, a PING or a failing file) | a file handed over is exact; one that fails has a named reason |
| `client_sids` | sids to 3, 1 other account, 1 recent entry | the highest known sid is one number; deleted sids are asked for again |
| `registration` | 2 clients, 2 ids, 1 lost connection, 1 new key, fair | saved credentials work; every client is served in the end or has a named excuse |
| `command_tree` | 9 definitions, 4 calls, inputs of 3 words | an input calls the command registered for it |

Bounds. Two sids are enough for a collision, an overwrite in place, an append
out of order and a gap below a received sid. Two rivals are enough for every
hand-over of an account between connections; a third connection of another
account makes the keepalive sweep longer than one and the sweeps overlap other
sessions. Three plugins are enough for a cycle with a member that is reached again
after another member failed, the case in which the search errs, and for dependents
of dependents; one edit changes a manifest under loaded plugins. In `AccountLink` a second data packet is what overtakes or replaces a
first; the client's own packet collides with the server's sids. The counters
`sent`, `clientSent`, `losses`, `drops` are bounds of the model only, and so are
the guards `PingOutstanding` and `DataOutstanding`: with periods of 30 seconds a
timer does not fire again before its last round is through. In
`DataRelay` two accounts are a sender and an addressee that can be absent, the
second body is the one that takes a slot, and a turn is a lost connection, a repeat or a
sweep: two let a sweep outlive the connection it began with. The accounts are
exchangeable. `Window` 1 makes senders wait. In `FileTransfer` two transfers meet at a
receiver in one of seven ways (same sender, same receiver, same name, same path, crossing,
broadcast from either side), which are all up to renaming; the second chunk is one that
a loss or an overwriting separates from the first. In `Registration` two ids are enough for
a collision, and the one lost connection of either client is enough for an id to be
drawn while its holder is away. `ClientSids` needs a sid above a gap above a received
one; one recent entry is enough for the cache to be full, and for its only entry to
be a deleted sid or one that came since. The definitions of `CommandTree` are nine that share beginnings in every way: one a prefix of
another, literal against placeholder, two placeholders. Deadlock is not
checked: every model stops when its bounded supply of connections, sids, calls or
packets is used up.

Fairness. `ServerSession` assumes weak fairness of each handler, of the keepalive
task and of the library's detection of a dead peer: asyncio runs every ready
coroutine, `close()` is bounded by the library's close timeout, and
`PING_TIMEOUT` is passed to `websockets.serve`. Clients owe nothing.
`AccountLink` assumes weak fairness of both event loops, of reconnecting and of
the two timers, which are endless loops over `sleep`. Losses are not fair and
bounded. `Registration` assumes weak fairness of each client's own steps, of which
reconnecting is one, and of each handler; operators, PINGs, failures of the network and
the thread that replaces the key owe nothing. The other specifications state safety only.

### What the violations show

- `duplicate_login`: `doc/plugin_structure.md` says `del_connect` is called when
  a sub-server disconnects. A connection that was refused, for its protocol version or
  with 401 because the account is connected, keeps the account it named; when it ends,
  `_handler`'s finally clause calls `_close_connection` by account and so removes the
  account's other connection, which logged in before the refusal or after it and is
  still open, from the registry, and tells plugins it has gone. TLC reports one of
  the shortest of these histories, in which the refusal is for the protocol version.
- `missed_packet`: `doc/websocket.md` says PING makes the server replay what the
  client missed. PING carries the highest sid the client knows, not the first
  it lacks, so a lost packet below a later one is never replayed.
- `lost_dependents`: `doc/plugin_structure.md` says `unload_plugin` cascades to the plugins that
  depend on the plugin. `load_plugin` of a plugin that is loaded drops the set of its
  dependents, and a later unload leaves them loaded without it.

Disagreements met on the way that have no run of their own, because they show in a
single step or outside of what is modelled:

- History is said to serve re-sending after a disconnection (`doc/websocket.md`), but
  LOGIN has sid 1 and takes the place of the first packet recorded while the account
  was offline, and the sids received since cover the others.
- `doc/websocket.md` has close code 4001 for a protocol mismatch. The client looks for
  "400" in the reason, so that it stops for that one too, as the models have it.
- DATA_ERROR is said to make the sender send again. After a client's broadcast the slots hold
  bare packets, `_send_last_data_packet` finds nothing under the account's id,
  and nothing is sent before the next sweep.
- A missing dependency is said to prevent loading (`doc/plugin_structure.md`). The search answers
  a second visit of a plugin with success, however the first one ended.
- `load_plugins` is said to load all supported plugins of the directory (its docstring). One
  damaged file makes the scan raise what it does not catch, and none is loaded. It also
  makes every `load_plugin` fail, whichever file it names, and a reload that reads it end
  the program.
- Loaded plugins are ordered by manifests read later. `UnloadsInOrder` has to except
  dependents whose manifests have changed since they were loaded, and those that lead into
  a cycle: plugins that were loaded one after the other can form one, and it can even agree
  with the manifests again. Such plugins are left out of the order, so that unload and
  reload pass over them (`ReloadRestores` speaks only of sound plugins).
- A key that is replaced between the decryption of REGISTER and the encryption of its
  answer leaves a client with an answer it cannot read. It stays connected and waits
  for ever (an excuse in `EventuallyServed`). The retry after REGISTER_ERROR cannot be reached.
- An id may be drawn that an absent client has. `_save_credentials` replaces its
  password, and that client is refused from then on (`unlucky`).
- A client that comes back before the server has noticed the loss is refused with 401 and stops.
- FILE_ERROR of a client is answered by FILE_ERROR to the same client, which closes
  whatever file it is receiving; the sender never learns of it.
- A plugin's file of the same name as one under way replaces the copy in `send_files`
  that the other is being read from.
- A transfer that fails leaves a truncated file, and the one it replaced is gone.
- A `save_path` without a directory cannot be received: on the server the transfer is lost in
  silence, a client loses its connection, is refused with 401 and stops.
- A packet that arrives while `delete_recent_sids` works is forgotten with the deleted, if its
  list is not stored yet. Later it goes into that list, with a sid from the old
  counters if it is the client's own, and the highest known sid stays at or above
  deleted ones, which no PING asks for. A relayed packet may be lost to the counter.
- In MCDR mode `websockets_started` raises, and the resend and keepalive tasks never start.

## Proofs

TLAPS proves for every value of the constants what the runs check on small ones.

`ServerSessionProofs`. `TypeCorrect`, `NeverAGhost` and `PluginsForget` follow from
the inductive invariant `IInv`. `NoGhost` alone is not inductive: when a
handler ends it removes the account it has in `server_id`, so one must know
that a registered connection's handler has its account there (`HoldersNamed`), and
that a handler only ever has the placeholder or its own client's account
(`HandlerIds`). `LeaseRefinement` maps each step to a step of `AccountLease` or a
stutter; the end of a handler is `Retire`, an early clean-up is `Release`, and
`CloseReleases` says that an eviction that finds nothing is a stutter.
Assumptions: `Owner` maps connections to accounts and the placeholder is no
account.

`PacketStoreProofs`. The inductive invariant `IInv` is `TypeOK` together with `Good`
for every bucket: a sequence of entries (`Seq(Entries)`) without a repeated sid
(`Unique`), with a highest sid (`HasHighest`) and no sid above `MaxSid` (`Bounded`).
`HasHighest` follows from `Bounded`, but as a part of the invariant it needs no
well-foundedness: a step that adds one entry keeps it. `UpsertShape` says that `_upsert_entry`
appends or replaces one entry, and `UpsertGood` that a good bucket stays good.
`TypeCorrect` and `SidsStayUnique` follow. `SendingKeepsHistory` rests on
`CreateAppends`: a created packet has a sid that no entry of the bucket has, so the
upsert appends and no earlier entry changes. `LedgerRefinement` maps creating to
`Allocate` and receiving to `Receive` of `SidLedger` (`UpsertIsPut` carries a bucket to
its ledger), and every other step to a stutter.
`WireAgrees` is about `NextSid`, which reads the bucket before the packet is entered, and
`HighestSid` after it: the new entry is above all others (`AppendedIsHighest`), and a probe
enters nothing. `ReplaysAreExact` needs that the sort of `history()` loses nothing.
`Replay` takes the entries by rank, the number of entries before one in a stable sort by
sid (`Sorted`); the library's `SortSeq` is a built-in of TLC, of which the provers know
nothing. Sids are unique, so ranks are an injection of n entries into n numbers, and
every number is the rank of an entry (`RanksAreTaken`). Assumptions: the placeholder is an
account of its own (`TempAssumption`) and `MaxSid` is a positive number
(`MaxSidAssumption`).

`PluginLoaderProofs`. `DependentsStayReal` and `PathsStayCounted` follow from `IInv`, which
adds to the two properties that the set of plugins is finite and that
every path is one of the directory's. `ImportKeepsIInv` needs that the plugin was not
loaded before, which makes the count rise by one and no older entry name it;
`UnloadKeepsIInv` needs that a plugin stands only in the sets of its own
dependencies; `ReleaseUndoesEnsure` covers a failed load. Nothing is assumed of the
agenda, so these two hold for any order a search could give. `TypeCorrect` says that
registered dependencies are without repeats and without the plugin itself
(`DependencyIdsFacts`); for that one must know that what is registered was read from a manifest
on the disk (`Typed`). The k-th dependency is the first mention that has k - 1 first mentions
before it, and `PlaceExists` says that there is one.

What the searches compute is proved without induction over the recursion, because the stack
is a variable: `SearchOK` holds after each visit. `StackOK`: the stack is a path without
repetition from a target, so a plugin that is met again while it is open closes a cycle.
`CoverOK`: a visit that may still succeed has, but for what is left of its loop, only
dependencies that are done, and hence (`OrderOK`) nothing in the order comes before what it
depends on. `BlameOK`: who is done and not in the order has a reason, which is that
something it needs is missing or on a cycle (`Guilty`). `CleanOK`: a second visit answers
with success also when the first one failed, but then the failure has already reached
every call on the stack, and the single target of a `load_plugin` stays out. Paths in the graph
are least closed sets (`Closure`), of which `ClosureLeast` and `ClosureStep` are all that is
needed; none of it needs the graph to be finite. `SInv` carries the result from the
search to the end of the call: loads come after unloads and searches after loads
(`Sorted`); a sound plugin is at any time being searched for, planned, loaded or failed
(`StartOK`, `ReloadOK`); an unsound one is not planned (`LoadOK`); a dependent stands on the
agenda before what it depends on (`UnloadOK`), which `RunUnload` keeps because a plugin
that is gone is nobody's dependent (`DependentsStayReal`). The graph does not move
under a call: what is loaded is available, and only calls change what is available
(`GraphStable`). A call that a damaged file aborts begins no search and no agenda and is
noted in `request` under a name of its own, of which nothing is promised (`AbortFacts`,
`AbortKeepsSInv`); a restart begins from nothing (`Empty`). `StartLoadsEverySound` is therefore about the start-ups that got
through, as its property says. `LoadsStayInOrder`, `LoadedTargetStaysSound`, `StartLoadsEverySound`,
`ReloadRestoresEverySound` and `UnloadsStayInOrder` follow. TLC checked `SInv` with one and two
edits before it was proved; with more it found the cycles that the exception in
`UnloadsInOrder` is for. Assumptions: of any files of the directory
one is the last (`PathsAssumption`), and a readable manifest has an id, a version and a
list of requirements (`ManifestsAssumption`).

`AccountLinkProofs`. `NoGaps`, `KnownIsReal` and `AgreeWhenQuiet` say nothing of packets on
their way, and every one of them is disturbed by the arrival of one; the
inductive invariant `IInv` therefore describes the channels. `DownOK`: what is on its way to
the client has sids of the server's history. `UpOK`: the server will have used each sid by
the time it reads it, because every message but PING has a used sid or the one
after those before it (`Backed`), PING has a used one, and the same holds of `known`.
`News`: as long as nothing was lost, the newest sid is known to the client or on its
way to it. `TypeCorrect`, `HistoryHasNoGaps`,
`KnownSidsAreReal` and `EndsAgreeWhenQuiet` follow. That a bounded set of numbers has a highest
element is a consequence of the order of the naturals (`LeastExists`, from the library's
well-foundedness facts), so `Max` can be reasoned about without an induction of our own;
`RankExists` gives each element of a finite set of numbers its place, which the replay
sends in. Assumption: the bounds are naturals (`BoundsAssumption`).

`ClientSidsProofs`. The inductive invariant `IInv` has four parts. `Counted`: sids are positive and
bounded, also in what a deletion under way has left over, so that every maximum is one
of a nonempty bounded set (`MaxIs`); `KnownIsOneNumber`, an action property, needs no more.
`Directions` and `Cached` are the types of the bucket and of the recent packets. `Deleting`
follows a deletion from statement to statement: what it removes is above all it keeps, and
once the shortened list is stored, a removed sid is in the bucket or the cache, or below a
counter the deletion has set, only by what was recorded `since`. A packet before the store is
overwritten by it, one after it is the exception that the property names. `DeletionForgets`
is what `Deleting` says at the last statement (`EndIsForgotten`); `TypeCorrect` follows from
the invariant as it stands. The
filtered list of recent packets is taken by an increasing choice of places, not by
`SelectSeq`, which is a recursive definition of the library and as such opaque to the provers.

`RegistrationProofs`. `CredentialsAlwaysWork` needs what is true of credentials on their way to
a client (`Credentials`), and that needs most of the protocol: REGISTER comes only from
clients without an account and REGISTERED goes only to them (`Upward`, `Downward`), a
connection is used once (`Epochs`), and a registered connection has nothing to do with
any account but its own: not in its handler, not in what it has still to read,
not at its client (`Registry`). The last part is also why no handler can end and leave
its account registered, the second half of `TypeOK` (`TypeCorrect`). Assumptions: the
placeholder is no id, the bounds are naturals.

`DataRelayProofs`. `OnlyAddressees` and `SlotsHoldOwnPacket` follow from where packets may be:
in slots and in the snapshot of a sweep only those for the account (`Stored`), in a handler's
hands only those its own client sent (`Working`), on a connection only those that are
for its account or cannot be read there (`Channels`), received only what was addressed
(`Delivered`). `Quiet` says that nothing is in flight on a connection that is not up, which
is what keeps a new connection free of an old one's packets. `NothingVanishes` needs `Owing`:
a body the server took over is on its way, in some handler's hands, or in the slot, and in
the slot only as long as no acknowledgement but its own can reach the server and nothing
older is under way to the account (`Safe`). That is why the property leaves out bodies
whose account logs in while a broadcast, a forward or a sweep is under way to it: the
older packet is acknowledged and the acknowledgement empties the slot of the newer one. The
run has one body that stays stable, so for two that cross the theorem is
the only evidence. Theorems: `AddresseesOnly`, `SlotsAreSound`, `NothingIsLost`, `TypeCorrect`.
Assumptions: names are distinct (`IdsAssumption`, `BodiesAssumption`), the window is positive
(`BoundsAssumption`).

`FileTransferProofs`. An open file is exact because of everything before it, so the invariant
follows a transfer from end to end. `Queue` says which packets of a transfer a sequence
holds behind a position: those from the m-th to before the n-th, each once and in order.
`Tracked` puts three of them together for every receiver that was not disturbed: the packets not yet
taken by the server, those it passed on and the receiver has not heard, and what the
receiver has written (`Progress`: the handle is where it should be, the file holds exactly the
chunks so far, and no other handle is open on its path). A replay repeats packets, so
`Downward` (`Fresh`) says that a channel holds packets of the book and leaves no gap above the
highest sid that the client has heard: a packet at or below that sid is a repeat, which
the client writes like any other and which counts as a disturbance, and the first
packet above it is the next one. A file operation that fails disturbs the packet's own transfer and, unless the
packet is a header, what the packet would have disturbed anyway (`Fails`, `FailsFacts`); a client that fails so is still up at the server (`DeafInvariance`).
`Booked` and `Upward` say what packets may be in which direction, `HandlesOK` for which transfer
a handle can be open, `Unbegun` that a transfer leaves no trace before its header.
`FailuresHaveReasons` follows: when the transfer was sent to its end and no packet of it is on
its way, `Tracked` leaves only that it was received. `Exact` is an action property: a handle
is only ever open for a transfer at one of its receivers, and a tail is checked against the file
as it is. TLC checked `IInv` as an invariant on pairs of transfers before it
was proved. Assumptions: names of machines are distinct (`IdsAssumption`), bounds are naturals
(`BoundsAssumption`), a call names machines and the server sends itself no file
(`JobsAssumption`).

Only model-checked: all liveness (`AlwaysCleanedUp`, `SweepEnds`, `EventuallyAgree`,
`LastDataDelivered`, `EventuallyServed`), and `CommandsAreFound` of `CommandTree`, on a
recursive walk of a tree, which needs induction over data. That searches end is not
stated: each visit marks a plugin, and a directory is finite. Every other property of a
passing run is a theorem.

## Plan

Every component whose behaviour depends on order or failure has its module, and every
safety property that does not rest on a recursion is proved. What is left, in order:

1. `CommandsAreFound` of `CommandTree`, with the walk as a state machine, as the searches of
   `PluginLoader` have become.
2. Small modules for the start-up in MCDR mode and the rate limiter, if the code starts to
   promise something about them; the next section says why they have none yet.

## Not modelled

- Start-up and MCDR mode (`plugin/init_plugin.py`, `server.py`): sequential. In MCDR mode
  no plugin loader exists and `websockets_started` raises, so the tasks that
  follow it are never created; this takes no exploration to see. All models describe
  the standalone mode, in which the tasks run.
- Shutdown (`close_server`, `stop_server` and the joining of threads): it ends the process.
- The rate limiter: a list of times per key, read and written between two awaits. No
  document states what should hold across connections, and its refusal is in
  `ServerSession` as a rejected message.
- The retry after REGISTER_ERROR: the client sends it only if the checksum of a plain
  string fails or the password is empty, which the server's answer never is.
- The sandbox: it patches builtins around an import. That two imports do not overlap
  is up to who calls the loader, see PluginLoader.
- Configuration and JSON files: I/O and conversion. File operations that fail are modelled
  where a transfer is received, in `FileTransfer`, and nowhere else. A crash of the server
  loses histories, slots and connections, which it keeps in memory only; to a client it
  looks like a lost connection.
- Encryption, checksums, logging: third-party or output. A failure to decrypt or to
  verify is an outcome in the models.
- The health check, terminal and MCDR commands, completion words, entry points, the
  context and control interface: wording, wiring and reads of the components above.

`AccountLink`, `DataRelay` and `FileTransfer` assume that no rival client of the same account
has the server evict a connection that is alive. `ServerSession` shows that one can
(`duplicate_login`): the guarantees of these three hold while each account has one client.

Outside of `src/`: the websockets library is modelled by what the code relies on: FIFO
delivery, a close that both sides notice, and pings that time out.
