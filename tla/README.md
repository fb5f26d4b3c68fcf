# A TLA+ model of simple-webrtc

simple-webrtc pairs two browsers: a small signalling server keeps *rooms* with
a host and a guest, relays their WebRTC signals, and lets either side come back
with a signed rejoin token; a TypeScript client drives the handshake,
reconnects, and rebuilds the peer connection. The hard part of the server is
its registry: rooms live in a map under one lock, each room has its own lock,
each session a third one, and handlers take them one after another while
closes, evictions, detaches and a periodic sweep do the same. Around it are a
persister that writes rooms to disk on its own goroutine, connections that are
written, read, timed and closed by different goroutines, bounded caches, and
two clients whose peers must end up belonging together. This directory models
these parts, model-checks each with TLC, and proves with TLAPS, for any number
of connections and rooms and any limits, the safety properties of the registry,
of a connection's write and read paths, of the stores and of persistence.

- [Inventory](#inventory)
- [Modules](#modules)
- [How the models correspond to the code](#how-the-models-correspond-to-the-code)
- [Runs](#runs)
- [Disagreements between the code and what is said of it](#disagreements)
- [Observed without a run](#observed-without-a-run)
- [Bounds, symmetry, fairness, deadlock](#bounds-symmetry-fairness-deadlock)
- [Proofs](#proofs)
- [Not modelled](#not-modelled)
- [Plan](#plan)

Paths below are relative to `src/server/internal/` unless they start with
`client/`, `cmd/` or `docs/`.

## Inventory

| component | state it keeps | operations | correct when |
|---|---|---|---|
| registry handlers (`room/handlers.go`, `room/room.go`) | map id → room; per room two slots (connection, epoch, lastSeq, buffer, reportedConnected), deadlines, password attempts; per connection a session | CreateRoom, JoinRoom, RejoinRoom, Signal, PeerConnected, CloseRoom, Detach | sessions and slots agree; no join displaces a guest; signals keep their order; both sides learn the other's epoch; a closed room stays closed |
| sweep (`room/sweep.go`) | the list it is working through, the instant it read | sweepOnce, sweepRoom, Stop, Shutdown | every room ends; only rooms that are due end |
| connections (`server/wsconn.go`, `server/server.go`) | open or closed, the bytes read, the frames to write | accept, read, dispatch, reply, Close, release | released exactly once; frames leave in the order sent |
| poller (`server/poller_linux.go`) | epoll registrations | watch, unwatch, re-arm, serve | a readable socket is read, by one goroutine at a time |
| capacity counters (`ratelimit`) | rooms per address, rooms and connections in all, token buckets | Increment, Decrement, AllowN, Take | the caps hold and every unit taken is given back |
| tombstones (`tombstone`, on `lru`) | id → closing time | Add, Has, Sweep | a closed id is refused for the TTL |
| rejoin tokens (`token`) | none: id, role, creation time, password digest, signed | Encode, Decode, Expired | a token outlives neither its TTL nor the room's tombstone |
| persistence (`room/snapshot.go`, `state/store.go`) | a file per room, a queue of dirty and deleted ids | MarkDirty, MarkDeleted, flush, Close, FlushAll, LoadAll, Restore | after a restart the rooms that lived, and only those, live |
| shutdown (`room/sweep.go`, `cmd/server/main.go`) | – | stop listening, Shutdown, flush | clients can rejoin the restarted server |
| client PeerConnection (`client/src/peer-connection.ts`) | phase, epoch, seq, token, retry timer, peer | createRoom, joinRoom, rejoin, event handlers, reconnect | never two peers or two sockets; ends connected or in a terminal state |
| client RTC engine (`client/src/rtc`) | negotiation flags, candidate queue, channels, tracks | perfect negotiation, channel queue, rebuild | glare resolves; queued messages are sent once, in order |
| others | – | config, ids, protocol structs, metrics, request log, TURN and Turnstile HTTP clients, client texts and utilities, load generator | – |

How they interact. The poller hands a readable socket to a goroutine, which
parses frames and dispatches each to a registry handler, one at a time per
connection. The handler changes rooms and *sends to other connections* (guest
joined, peer reset, forwarded signals) while it holds the room's lock; its own
response is sent by the dispatcher after the handler has returned. `Close` may
be called by a handler (eviction, close-room), the sweep, the reader, the
writer or a timer; it starts a goroutine that runs `Detach` and gives the
connection's unit back. The sweep copies the list of rooms under the map's lock
and visits them one by one under theirs. Handlers and sweep mark rooms dirty or
deleted for the persister, which writes files on its own goroutine.

What is hard here, and the reason for a model checker: pointers to rooms used
after the lock they were found under is released; checks (tombstone, attached
flag, guest slot) and the actions that rely on them in different lock sections;
closes and detaches arriving in the middle of a handler; deadlines moved by
whoever comes last; responses overtaken by events. `PROJECT.json` lists each
hazard at its line, under `hazards`, with the properties that cover it.

## Modules

| module | contents | depends on |
|---|---|---|
| `RoomState` | the `Room` and `Slot` records and, as operators on them, every change a handler makes to a room under its lock | |
| `RoomRegistry` | the registry at the grain of its locks: map, sessions, counters, tombstones, tokens, connections, handlers, sweep, clock | `RoomState` |
| `RoomRegistryClaims` | a claim of the design document that the registry does not keep | `RoomRegistry` |
| `Persistence` | marks, persister, files, snapshots, Restore, shutdown, crash and restart, with the handlers at the grain of their marks | `RoomState` |
| `FrameStream` | abstract: what the write path of a connection promises | |
| `WsConn` | one connection as it is written, timed and closed; implements `FrameStream` | `FrameStream` |
| `WsReader` | one connection as it is polled, read and parsed | |
| `LRU` | the cache, as operators | |
| `Stores` | tombstones, token buckets and room counters on top of it | `LRU` |
| `Rendezvous` | the composition: both clients, their sockets, and the room with its handlers | `RoomState` |
| `MC...` | definitions the configurations of a module use | |
| `RoomStateProofs` | lemmas on the operators of a room | `RoomState` |
| `RoomRegistryProofs`, `RoomRegistryRelayProofs` | the registry's theorems: types and buffers, sessions and slots, counters, caps and lockout; then epochs and signals | `RoomRegistry`, `RoomStateProofs` |
| `WsConnProofs`, `WsReaderProofs`, `StoresProofs`, `PersistenceProofs`, `RendezvousProofs` | the theorems of those modules | `WsConn`, `WsReader`, `Stores`, `Persistence`, `Rendezvous` with `RoomStateProofs` |

`RoomState` is where the parts meet: the same operators on a room are used at
the grain of locks in `RoomRegistry`, at the grain of marks in `Persistence`,
and as one locked step and an answer in `Rendezvous`.

Definitions named `X_Something` beside a definition `X` are the same operation
with a plausible slip in it. They are used by no specification: replacing `X`
by one of them must make a run fail, which shows that the run's property
depends on what the code does there (`mutants` in `PROJECT.json`).

## How the models correspond to the code

### RoomRegistry

**A step is one lock section.** `JoinRoom` in the code checks the tombstones,
looks the room up under `r.mu`, then locks `room.mu` and attaches. In the model
these are `JoinRoom`, `JoinLookup` and one of `JoinWrongPassword`,
`JoinRefused`, `JoinAttach`; between them any other goroutine may run. `h[c]`
is the stack frame of the handler connection `c` is in: where it is (`at`) and
the locals it will still use (`id`, `obj`, `role`, the instant `t` it read, the
response `ev`).

**A room is an object.** `rooms` maps ids to objects and `obj` holds the
objects; the map may drop an object that a handler still points to, or name
another one under the same id. `removeRoomLocked` removes by id, as in the
code, whichever object is there.

| variable | code |
|---|---|
| `rooms`, `obj`, `nObj` | `Registry.rooms` and the `*Room` values reachable from anywhere |
| `sess` | `Session.room`, `role`, `attached` (attached iff the room is not nil) |
| `det` | the locals of a `Detach` between `s.mu` and `room.mu` |
| `sock` | `wsConn.closed` and the progress of its release goroutine |
| `chunk` | frames `consume` has read and not dispatched |
| `tomb` | the tombstone store |
| `tokens` | rejoin tokens the clients have received |
| `roomsGlobal`, `roomsPerIP`, `connectionsGlobal` | the counters of the same names |
| `sweepQ`, `sweepNow` | the locals of `sweepOnce` |
| `told` | not in the code: a history of what each connection was sent |
| `crashed` | the process has died of a nil dereference |

| code | actions |
|---|---|
| `handleSignal` admission, a failed upgrade | `Accept`, `IncConnections` |
| `wsConn.Close` from outside the registry | `SocketCloses` |
| `wsConn.release`, `Registry.Detach` | `DetachSession`, `DetachRoom` |
| `CreateRoom` | `CreateRoom`, `CreateFails`, `PublishRoom`, `AttachCreator` |
| `JoinRoom` | `JoinRoom`, `JoinLookup`, `JoinWrongPassword`, `JoinRefused`, `JoinAttach` |
| `RejoinRoom` | `RejoinRoom`, `RejoinLookup`, `RejoinRefused`, `Recreate`, `RejoinAttach` |
| `Signal`, `PeerConnected`, `CloseRoom` | `CheckAttached`, `LoadRoom`, then the action of the same name |
| response sent by `dispatchMessage` | `Reply`, `ReplyFatal` |
| `sweepOnce`, `sweepRoom` | `SweepStart`, `SweepRoom` |

What is abstracted. Signals carry a size and a sequence number, no payload. A
password is a flag; a guess is right or wrong. A token is a value only the
server makes. TURN and Turnstile calls are a refusal that may happen. Requests
refused without a change of server state (malformed, wrong state, rate limited,
bad token) are no steps. The clock counts whole seconds, the unit of a token's
creation time. `markDirty` and `markDeleted` are left to `Persistence`.

### Persistence

A handler is one step when its mark is made under the lock of the change, and
two when the mark comes after it (`CreateRoom`/`MarkCreated`,
`Recreate`/`MarkRecreated`/`AttachRecreated`, `CloseRoom`/`MarkClosed`,
`SweepRoom`/`SweepMark`); `task[c]` is what is left to do. A room object is an
id and a generation, so a pointer to an object that was replaced stays apart
from its successor. `opCh` is the channel with its capacity; `Take`,
`TickerFlush`, `SeeStop` and `FinalFlush` are the cases of `loop`'s select;
`FlushDelete`, `SnapshotLookup`, `SnapshotRead` and `FlushSave` are `flush`, cut
where `snapshotRoom` changes locks and before the rename. `Written` lets a Save
or a Delete fail, since its error is dropped. `Boot`, `MarkAllDirty`, `Serve`,
`Shutdown`, `ShutdownClose`, `ShutdownRemove`, `Stop` and `Exit` are `main.run`
in its order. `Crash` may come at any step and keeps only `disk` and the
clients' tokens. `Boot` keeps any part of the stale files, as the Delete of
Restore may fail too. `newest`, `late` and `promised` are histories: what became
of the newest mark of a room, the deletes that were made after their id was
recreated, and the rooms a crash found settled.

### WsConn and FrameStream

`writeBytes` is one step, under `wmu`: `Enqueue`, `WriteAll` or `WriteShort`,
with any number of bytes taken by the socket, or `writeBytesErr`. `FlushLoop`
is the locked part of `flush`, `FlushWrite` the blocking write byte by byte.
`tick` is `Fire` and one of `FiredEarly` (before the handshake's deadline, which
`DeadlinePasses` ends), `HandshakeTimeout`, `KeepaliveTimeout`, `Ping`, then
`Reschedule`, so that Close may come between. `Close` is its four parts;
callers that are not the first change nothing. A byte carries the number of its
frame; `accepted` and `wire` are histories. `FrameStream` says what callers may
rely on: bytes leave in the order of acceptance, each once, until a write
fails. The mapping hides `out`, the flush goroutine, timer and Close, and reads
`broken` and `closed` as the state of the stream.

### WsReader

`Watch`, `ServePending`, `Deliver`, `Rearm`, `RearmFails` (which closes the
connection) and `CloseRest` are the poller;
`reader[k]` is an event goroutine or the fallback loop. `Lock`, `ReadSome`,
`ReadNothing`, `ReadFails` are `onReadable`; `TakeFrame`, `Dispatch`,
`RefuseFrame`, `EndConsume` are `consume` with `handleFrame` and
`dispatchMessage`, one frame a step. A frame is a header unit and its payload
units; a read returns any number of the units there up to the buffer's size.
`Reference` defines the events of a list of frames without reading it unit by
unit: each frame that ends a message, or the connection, gives an event that
names the frames it came from, and nothing counts behind the first that ends
the connection. A message is too long when its payload units, counted as a set,
are more than the limit.

### LRU and Stores

A cache is the list from the most to the least recently used entry; deleting
keys (`Without`) keeps the other positions in their order. Every call
of a store runs under one mutex, so it is one action. Histories (`closedAt`,
`since`, `granted`, `held`, `exact`) say what a store without a cache would
know. Tokens are whole units: `Cost` per request, `Rate` per tick.

### Rendezvous

A client is the record of the fields of `PeerConnection` that its decisions
read; each callback is a step: `createRoom`, `joinRoom`, `rejoin`, `doRejoin`,
one action per kind of server message, `handleTransportClose` by close code.
The `await` in `handshake` is a gap: a handshake without an open socket puts a
new one in the transport (`sock` is `"dialing"`, `wait` holds what it will
send), and `Opened` goes on from there, over whichever socket is the
transport's by then; in between another `doRejoin` may start, and the close
event of an older socket may empty the transport (`client/src/transport.ts:72`).

A server handler is two steps: what it does under `room.mu`, on the room of
`RoomState`, with the events it posts to the sockets' queues meanwhile, and
`Reply`, which sends what it returned (`answer`) once the lock is gone. Events
of later handlers may therefore overtake it. The reader of a socket takes no
next message before. `tomb` is the room's tombstone.

A peer is the generation that was built, whether it is the initiator, whether it
has made its description and whose it has applied. Who initiates is computed as
the code does, from the state: a client that has none yet builds a responder.
`Describes` is the negotiator's rule (an initiator offers by itself, a responder
answers an offer), `WithSignal` is `applyRemoteDescription`, which destroys a
peer whose description does not fit, and `Dead` and `PathLost` are the ICE and
connection failures that destroy it, connected or not. What the browser decides
is external: two peers connect when each holds the description the other made
for it, and one whose counterpart is gone fails.

Faults, each in `FaultKinds`: a page is reloaded and rejoins with its stored
session (`rejoin`); the server restarts, with or without its room (`Restart`); a
connection breaks, cannot be made or is given up by the server
(`ConnectionLost`, `ServerDrops`); a peer dies (`PathLost`); the sweep ends the
room at a deadline (`expire`); a stranger's wrong guesses lock it (`closeRoom`).

## Runs

| run | module | properties | instance and what it shows |
|---|---|---|---|
| `races` | `MCRoomRegistry` | `TypeOK`, `ConnectionsCounted`, `SessionSlotAgree`, `RoomsWithinCap`, `LockedOutRoomGone`, `EpochNews`, `GuestNotDisplaced` | three connections, two at a time; two objects under one id; a password whose first wrong guess locks the room; two handlers interleaved at their locks with Detach, sweep and one tick. 1.9 million states |
| `relay` | `MCRoomRegistry` | `RelayOrder`, `EpochNews`, `BufferBounded` | under `RelaySpec`: three connections, two epochs, two sequence numbers, a buffer of two; one handler at a time, as the signal path is one lock section after `LoadRoom`. 1.7 million states |
| `timers` | `MCRoomRegistry` | `RoomsEnd` | two connections with two frames in one read, two objects, under fairness. 540 thousand states |
| `persistence` | `MCPersistence` | `TypeOK`, `FilesCatchUp`, `SurvivesCrash`, `StopReturns` | two connections, one room id with two generations, a queue and a batch of two, two messages, failing writes, stale files, crash, shutdown and restart anywhere, under fairness. 540 thousand states |
| `writer` | `MCWsConn` | `TypeOK`, `IsStream`, `BacklogDrains`, `SilentConnEnds`, `CloseReleases` | four frames of one or two bytes, a backlog of three bytes, under fairness. 490 thousand states |
| `reader` | `MCWsReader` | `TypeOK`, `DispatchExact`, `AllServed`, `GoneNoticed` | three frames out of eight kinds (whole, fragmented, too long together, binary, with a fatal answer, ping, malformed), reads of one or two units, with and without bytes left of the HTTP handshake, under fairness. 580 thousand states |
| `stores` | `MCStores` | `TypeOK`, `TombstoneKept`, `LimiterExact`, `ChargeExact` | seven calls; three rooms in a store of two, two addresses in caches of one. 340 thousand states |
| `rendezvous` | `MCRendezvous` | `TypeOK`, `QuietMatched` | two reloads, lost connections or dead peers, or one restart, expiry or lockout; three sockets, four handshakes and four peers per side; a buffer of one signal. 960 thousand states |

Each property, and why it could fail:

- `SessionSlotAgree` – a session and a slot are written under different locks
  by attach, eviction, close, expiry and Detach.
- `ConnectionsCounted` – five callers of Close, frames of closed connections
  still being dispatched.
- `RoomsWithinCap` – counters are taken before the room exists, given back by
  rollback and by removal *by id*, and two recreates take two units for one
  entry of the map.
- `GuestNotDisplaced` – two joins can be past the lookup at once.
- `LockedOutRoomGone` – a guess on a room that another guess has just closed.
- `RelayOrder`, `EpochNews` – three ways a signal reaches a client and three
  ways an epoch does, across evictions and epoch changes.
  `RelayOrder` is promised to clients that draw a new epoch for every peer they
  build, a random 128-bit value (`client/src/util.ts:14`, `docs/DESIGN.md:39`):
  `FreshEpochs` says that a connection attaches either under the epoch its slot
  has or under one the other side has not heard. The server does not check it,
  and without it the property fails: with five connections a side can leave an
  epoch, return to it and be numbered from one again while the absent peer's
  buffer still holds its earlier signals. `EpochNews` needs no such assumption:
  `races` checks it under `Spec` with two handlers at once and one epoch, `relay`
  with two epochs and overflows, and it is proved under `Spec`.
- `BufferBounded` – two limits, tested before the append.
- `RoomsEnd` – deadlines move with every join, rejoin and detach; the lifetime
  must not.
- `FilesCatchUp` – marks are made by many goroutines, some after the lock of
  their change, and coalesced; the snapshot is of whichever object has the id
  when it is taken. Once nothing is outstanding the file must be the room as it
  is now, or both must be gone. Where the code leaves them apart the property
  says so: after a mark the full queue dropped or a write that failed, until the
  next mark of the id; after the sweep's `markDeleted` that comes behind the
  recreation of the id, which leaves a live room without a file; after a
  lockout, which makes no mark; and for a stale file Restore could not delete,
  which no later Restore takes up.
- `SurvivesCrash` – what is settled on disk must be enough to rebuild the room.
- `StopReturns` – the drain competes with goroutines that still mark.
- `IsStream` – a frame may go straight to the socket, be cut, or wait behind a
  backlog that another goroutine has already taken.
- `BacklogDrains`, `SilentConnEnds`, `CloseReleases` – who starts the flush,
  who re-arms the timer, and whether Close can get stuck on its own close
  frame.
- `DispatchExact` – any cut of the bytes, fragments with control frames
  between, two goroutines on one connection.
- `AllServed`, `GoneNoticed` – one-shot events, short reads and bytes already
  in the buffer.
- `TombstoneKept`, `LimiterExact`, `ChargeExact` – eviction order, expiry on
  lookup, refill at the boundary, counters removed at zero.
- `QuietMatched` – each side rebuilds its peer on what it hears of the other's
  epoch, and messages about older peers are still on their way.

`QuietMatched` names the five cases in which the code does leave two attached
clients with peers that do not belong together. The history `odd` records four
of them as they happen:

- `behind`: a peer was built before the other side's first epoch was known, and
  is kept when it arrives (`client/src/peer-connection.ts:1475`);
- `swallowed`: a signal was dropped as a duplicate (run `swallowed`);
- `overtaken`: a signal was forwarded to a client whose response, which makes it
  build the peer for that signal, was still to be sent. It takes no fault: the
  offer may overtake the response to the very first join;
- `refused`, with a side that has no peer: a client that lost its peer while its
  socket was attached is refused the rejoin (1004);
- a host whose peer is no initiator (run `offerer`).

Without any one of them the property is violated. What it does check is the rest:
every order of reloads, evictions, releases, losses and restarts in which all
signals arrive, where each side has to notice by itself, from guest-joined,
peer-reset or the epochs in a response, that its peer is out of date.

## Disagreements

Each of these runs expects TLC to find a violation of one claim; `findings` in
`PROJECT.json` quotes it.

| run | claim | what happens |
|---|---|---|
| `panic` | `NeverPanics` | Detach between the unlocked read of `s.attached` and the locked read of `s.room`: nil dereference |
| `shutdown_files` | `ShutdownKeepsFiles` | Shutdown empties the map, the Detach of each closed connection marks its room dirty, and the final flush finds no such room and deletes its file |
| `swallowed` | `FreshSignalsPass` | the guest reloads and rejoins, which resets both `lastSeq`; the host's old offer arrives after the reset and is number one again; the host hears of the reset, rebuilds, and its new signal number one is dropped as a duplicate |
| `offerer` | `OneOfferer` | both pages are reloaded; the guest's rejoin posts peer-reset to the host before the host's own answer leaves; without a state the host builds a responder, which the answer keeps, and neither side offers |

## Observed without a run

Seen in traces of the models; each is a behaviour of the code at the line given.

Registry. A guest that joins after another left inherits its `lastSeq` and
buffer (`handlers.go:267`, against `docs/DESIGN.md:557`). A rejoin with a new
epoch leaves its old signals in the buffer of an absent peer
(`handlers.go:473`); a client that returns to an epoch it had left, or whose
recreated rejoin attaches late under an unchanged epoch (`handlers.go:443`), has
its numbers repeated behind them. A close between a rejoin's tombstone check and its lookup
is not seen, and the rejoin recreates the room (`handlers.go:346`). The Detach
of an evicted connection arms the peer deadline of a complete pair
(`handlers.go:713`). A join under way when its connection is released leaves a
released connection in the guest slot (`handlers.go:267`). A join past its
lookup may attach to a room the sweep has just ended (`handlers.go:229`). A
response may be overtaken by a later peer-reset and report the older epoch last
(`server/wsconn.go:635`). A guest that joins while the host is away clears the
peer deadline (`handlers.go:270`). An epoch change withdraws the connected
reports and leaves the scheduled release standing (`handlers.go:449`); a report
still on its way counts for the new epoch. Two concurrent recreates count twice
(`handlers.go:410`). A signal past `LoadRoom` when its connection is evicted
advances its successor's `lastSeq` (`handlers.go:550`).

Persistence. A mark dropped by the full queue is not repeated: the sweep does
not re-dirty live rooms, as the comment at `state/store.go:243` says. A failed
write is retried only on the next mark. The password lockout makes no mark, so
its file may stay and the room return after a restart; wrong guesses and the
`lastSeq` of forwarded signals are not marked either. A late `markDeleted`
behind the `markDirty` of a recreated room deletes the file of a live room, and
a crash before its next mark loses it (`room/sweep.go:87`). The unit Restore could not take is given back all the
same when the room ends.

Connections. What flush has taken and what is queued may together reach twice
`maxPendingBytes`. A frame sent between Close's close frame and `closed = true`
follows the close frame; a close frame behind a backlog is dropped with it. With
bytes left of the handshake two event goroutines can be in `serve` at once,
against the comment at `server/poller_linux.go:20`; `rmu` keeps them apart, and
after a stop the second one parses `rbuf` again.

Stores. Evicting the counter or bucket of an address starts its limit again.

Clients. A failed connect, and any close code but 4200, 4008, 4014 and 4300,
ends the client. 4014 is called retryable, "rejoin with token if still valid"
(`client/src/errors.ts:44`), but the room-expired message in front of it has
already made the client terminal and deleted its session
(`client/src/peer-connection.ts:1525`). 4008 is never sent by this server. A peer
of the host built before there is a guest makes an offer nobody is given, and is
kept when the guest joins. When a path dies while the socket is attached, the
rejoin is refused (1004) and the client stays without a peer. After an overflow
the client rebuilds under the same epoch and its new signals are dropped. A
rejoin of a page already left may evict the reloaded page (4400, final). A
handshake whose socket closes is never settled. The close event of an old socket
empties the transport of the new one, whose handshake then fails to send
(`client/src/transport.ts:72`). An offer may overtake the join response and find
no peer to take it (`client/src/peer-connection.ts:1444`).

## Bounds, symmetry, fairness, deadlock

Bounds that are not the code's own are named in the `CONSTANTS` of each module.

`RoomRegistry`: `MaxObjs` (rooms ever built), `MaxPipelined` (frames one read
may hold), `MaxBusy` (handlers under way at once), `MaxTime`, `MaxSeq`. A
connection is used once, so `Conns` bounds arrivals: three are a host, a guest
and one that rejoins, guesses or competes. Two objects are what two generations
of one id need, two busy handlers what a race needs; Detach, sweep and clock are
not counted. Deadlines of one and two seconds keep the order of the real ones.
`SweepStart` takes no second pass in the same instant unless a room is due.
Each run keeps the values the others vary small.

`Persistence`: `MaxHandled` messages and lost connections, `MaxGens` objects per
id. Two of them, with the sweep, Detach and the boot that are not counted, are
enough to create a room, lose it and recreate or close it, with a queue of two
that is full after two marks; two instants, with lifetimes of one, let rooms,
files and tokens expire. `WsConn`: `MaxFrames`, two sizes;
a backlog of three bytes is full with two frames. `WsReader`: `MaxSent` frames;
three are a beginning, a middle and an end of a message. `Stores`: `MaxCalls`,
with fewer places than keys. `Rendezvous`: `MaxDials`, `MaxAsks`, `MaxGens`
leave room for what two faults cause; `Solo` makes the
restart, the expiry and the lockout, which end the room for both, come alone;
`Trickling` lets the host's first peer send a candidate, so that a signal of an
old peer can arrive behind a reset.

Symmetry is used for model values compared only for equality (connections,
epochs, rooms, addresses), and in no run with a liveness property.

Fairness. `RoomRegistry`: a handler that has started goes on, a closed
connection's release goroutine runs, the sweep's ticker fires, the clock
advances. `Persistence`: the persister's goroutine, the sweep's and main's run.
`WsConn`: flush, timer and Close run, and the handshake's deadline passes; the
write of flush has a deadline in the code, so it either writes or fails. `WsReader`: the event loop, its goroutines
and Close run. All are goroutines the Go scheduler runs or timers the runtime
fires, and weak fairness is all that is assumed. Nothing is assumed of clients:
they need not send, read, stay or leave. `Rendezvous` states safety only:
`QuietMatched` speaks of the states where nothing is left to do.

Deadlock is not checked where the system may stop for good: with every
connection used up or closed, or a bound reached. `Persistence` is checked for
deadlock: its process can always be started or crash.

## Proofs

The theorems hold for every value of the constants that satisfies the
assumptions of the module: `RoomStateAssumption` and `RoomRegistryAssumption`,
`WsConnAssumption`, `WsReaderAssumption`, `StoresAssumption`,
`PersistenceAssumption`, `NoFileAssumption` and `RendezvousAssumption`. They say
that limits are naturals (of a cache, a queue, a read or a price: positive),
that the "none" values are not members of the sets they complete, that there is
an id and an address, and of `Rendezvous` how sockets, epochs and sequence
numbers are named after its bounds; TLC evaluates them in every run. Each inductive invariant below was model-checked before it was proved, on
the bounds of a run of its module (`NewsInv` also with two handlers at once, two
epochs and a buffer that overflows at its first signal, 2.0 million states).

### Registry

- `TypeCorrect` : `Spec => []TypeOK`. `TypeOK` is not inductive: the actions
  that follow a handler's pointer need it to be a room and not nil. `TypeInv`
  adds what a frame holds at each point of each handler (`FrameOK`).
- `BuffersStayBounded` : `Spec => []BufferBounded`, by lemmas of
  `RoomStateProofs` on what each operator does to a slot's buffer: only
  `Buffered` grows it, and only where `BufferFull` is false.
- `SessionsAgree` : `Spec => []SessionSlotAgree`. The inductive invariant
  `AttachInv` splits the agreement into its directions, and adds why an
  attaching handler finds its connection in no slot: one handler per connection
  at a time, started only by a session without a room (`NotYet`); pointers and
  the map name built objects and the others are empty (`Pointer`, `MapInv`); a
  connection not yet admitted has left no trace (`Untouched`). Steps fall into
  those that only empty slots of connections they close or that are closed
  already, argued once for all of them, and the three that seat a connection.
- `GuestsNotDisplaced` : `Spec => GuestNotDisplaced`, from the same invariant
  and the lemmas on what each operator does to the guest slot.
- `ConnectionsExact` : `Spec => []ConnectionsCounted`. `ConnectionInv` adds that
  the set of live connections is finite, which a proof that counts needs since
  `Conns` need not be: it is empty at first, and a step adds or removes one.
- `RoomsCapped` : `Spec => []RoomsWithinCap`. `RoomInv` adds that the registered
  ids and the creates under way are finite sets. Their sizes together never
  exceed the counter: a recreate over a live id takes a unit for no new entry,
  and a removal gives one back only for an entry it removes.
- `LockedOutStaysOut` : `Spec => []LockedOutRoomGone`. `LockInv` adds that the
  map names each room under the id it was built with, so that removal by id
  removes the room that was locked and not another.
- `EpochsKnown` : `Spec => []EpochNews`. `NewsInv` says for every seated
  connection what it has been told of the epoch opposite, or what the answer of
  its running handler is about to tell it (`NewsAt`); that an overflow is
  answered only while nobody is opposite or somebody has announced himself
  since; that a loaded room is the session's (`LoadedInv`); and that a
  connection in no slot has been told nothing.
- `SignalsInOrder` : `RelaySpec => []RelayOrder`. `RelayInv` says of every
  buffer (`HeldInv`) and of every history (`HeardInv`) that it is in order and
  that no signal of the sender's present epoch is beyond the sender's `lastSeq`
  (`Below`). For both theorems the steps that leave sockets, slots and histories
  as they are, or only empty slots, are argued once (`Calm`); each step that
  tells somebody something has its own lemma.

### Connection

- `ConnTypes` : `Spec => []TypeOK`, and `ConnIsStream` : `Spec => IsStream`, the
  refinement of `FrameStream`. The inductive invariant `WriteInv` says that one
  flush goroutine runs at a time, that nothing waits in `out` without one, and
  that until a write fails `accepted` is what is on the wire, followed by what
  flush holds, by `out`, and by what Close dropped (`NothingMissing`). A frame
  written straight to the socket keeps it because nothing is then in flight.
  The mapping hides the flush goroutines, the queue, the timer and Close, so
  their other steps are stutters.

- `ReaderTypes` : `Spec => []TypeOK` of `WsReader`: every unit read and every
  frame an event names was sent, and a message put together from fragments has
  a kind and stays within `MaxFrameLen` (`TypeInv`).
- `DispatchesExactly` : `Spec => []DispatchExact`. The inductive invariant
  `ReadInv` says that `rmu` has one holder and that, until the connection is
  ended, some number n of frames is parsed: what the parsing goroutine has left,
  or `rbuf` when nobody parses, followed by the socket's units, is exactly the
  units of the frames behind n (`Aligned`); `fragged`, `msgOp` and `msg` are what
  the reference gives for the first n frames (`FragOK`); and the events are
  those of the first n frames, in order. A read moves units from one part of
  the rest to the next and leaves n; taking a complete frame removes a whole
  frame from the front, and is the one step that raises n; sending appends whole
  frames. Once the connection is ended the claim is about the events up to that
  point only, so what a second goroutine parses again does not matter. `Aligned`
  speaks of neighbouring units and of both ends rather than of a flattened
  sequence, so that no induction over data is needed.

### Stores

- `StoresTypes`, `TombstonesKept`, `LimitsExact`, `ChargesExact` : the four
  properties of the run, for caches of any capacity and any price, rate, burst
  and life. `Before(c, k)`, the keys in front of `k`, is what the lemmas on
  `Touched`, `Put` and `Without` are about.
  `TombInv`: the rooms in front of `r` were closed or found since `r` was, so
  `r` is pushed out only by as many others as there are places.
  `BucketInv`: a bucket holds the least, over the windows that start at a
  request, of size and refill less the price of the requests in it (`Ledger`);
  taking a price and refilling both keep that minimum.
  `CountInv` is `ChargeExact` with its types. That a finite set of positions
  can be listed in order, which `Without` rests on, is an induction over
  naturals on a set, taken from the minimum of its complement
  (`NatSetInduction`).

### Persistence

- `PersistenceTypes` : `Spec => []TypeOK`. `TypeInv` adds, for sessions, tasks,
  the sweep, Shutdown and the persister, that the pointer each holds is to an
  object of the heap, which only grows until a crash empties it.
- `FilesKept` : `Spec => []FilesCatchUp`, with the exceptions that definition
  names and no other. `FileInv` follows the newest mark
  through the stages queue, `pending`, `batch` and the hands of flush: it is the
  last one of the first stage that has any (`PipeOne`), and when the stages are
  empty and nobody is about to mark, the file or what flush is about to rename
  is the room as it is (`CatchOne`), or the newest mark is a delete and the id
  has no room or is in `late`. A step that changes no persisted state, or
  leaves its own mark to be made, keeps it for every id (`Calm`), which leaves
  the marks, the moves between the stages, the crash and the boot.
- `CrashSurvived` : `Spec => SurvivesCrash`, an action property. `KnownInv`: a
  room that has a file has had somebody in it, or has empty buffers, so that
  Restore does not discard it; `PromiseInv`: what the crash found settled is
  still on disk when the next process boots, and alike (`Alike`: in all that a
  snapshot keeps).

### Rendezvous

- `RendezvousTypes` : `Spec => []TypeOK`. Four things are needed for it to be
  inductive. A handshake on its way carries an epoch and not "none" (`SentUp`),
  as the room it reaches keeps it. A socket that is being opened has a handshake
  that was begun, with a type and an epoch, waiting for it (`Begun`), which
  `Opened` sends. A
  client has numbered no more signals than the peer it has now has sent, its one
  description and its candidates (`Numbered`), which holds because whoever builds
  a peer resets the counter: with a counter that goes on, `seq` leaves its type.
  And what the handlers do to the room keeps its type, by the lemmas of
  `RoomStateProofs` that the registry's proofs use.

### What is only model-checked

- The liveness properties (`RoomsEnd`, `StopReturns`, `BacklogDrains`,
  `SilentConnEnds`, `CloseReleases`, `AllServed`, `GoneNoticed`): they rest on
  fairness, which this prover does not handle.
- `QuietMatched` of `Rendezvous`. It speaks only of states where nothing is on
  its way, and is far from inductive: a strengthening has to say, for every
  state in between, which epoch and which peer each message in every queue of
  every socket is about, and whether a later one will undo it, for each order of
  reload, release, eviction and restart. The run explores every behaviour of its
  instance.

## Not modelled

- Room id generation and normalisation (strings); configuration and flag
  parsing (the values are the constants); metrics, request log, version (output
  only); JSON and the wire format; cryptography of tokens; the HTTP upgrade and
  the HTTP clients, whose failure is a refusal that may happen.
- `FlushAll`, `SetClock` and the like, which only tests call; files that are
  corrupt or of another version, which this code does not write.
- The TURN credential cache of a room, and `room.mu` held across its HTTP
  request (`handlers.go:261`): a delay, not a change of state, at the grain of
  these models.
- In the client: media and data channels, and of the engine under
  `client/src/rtc` the renegotiation of a live connection, the candidate queue
  and the control channel; the application's own `close`, the cap of reconnect
  attempts and the expiry of a token; shard selection, texts, storage,
  utilities. The server's `reconnectAfterMs` is not used by the client.
- The load generator.

## Plan

1. **Proofs.** `QuietMatched` for histories without an eviction, where the
   queues of one socket per side are all there is to describe.
2. **Channels.** The queue of a data channel across rebuilds, with a send that
   fails in the middle (`client/src/rtc/channel-handle.ts:228`).
3. **Locks.** Lock order of `r.mu`, `room.mu`, `s.mu` and the connection's
   locks, with `room.mu` held across the TURN request.
