---------------------------- MODULE Persistence ----------------------------
(***************************************************************************)
(* Disk persistence: the registry's dirty and deleted marks, the batching  *)
(* Persister and FileStore of server/internal/state, the snapshots and     *)
(* Restore of server/internal/room, and the life of the process around     *)
(* them (cmd/server/main.go: restore, serve, Shutdown, Stop), with crashes *)
(* at any step.                                                            *)
(*                                                                         *)
(* A handler is one step where its mark is made under the lock of the      *)
(* change it is about, and two where the mark comes after that lock: the   *)
(* creator's, the recreator's, the closer's and the sweep's.  The finer    *)
(* interleavings inside a handler are RoomRegistry's subject.              *)
(*                                                                         *)
(* A room object is named by its id and a generation: recreating an id     *)
(* makes a new one, and pointers to the older ones stay behind in sessions *)
(* and in the persister.  Temp files are no state: LoadAll skips them and  *)
(* Save replaces the file in one rename, which either happens or not.      *)
(* The capacity counters are RoomRegistry's; Restore adds to them and      *)
(* branches on none.                                                       *)
(***************************************************************************)
EXTENDS RoomState, FiniteSets

CONSTANTS
  NoId,                 \* the id of a nil pointer
  NoFile,               \* no file for a room; also: nothing promised
  QueueCap,             \* capacity of opCh (4096 in the code)
  BatchSize,            \* cfg.StateBatchSize
  MaxPasswordAttempts,  \* cfg.MaxPasswordAttempts
  HasPassword,          \* do rooms have a guest password?
  MaxGens,              \* bound: objects built for one id in one process
  MaxHandled,           \* bound: messages and lost connections in all
  MaxTime               \* bound: last instant of the clock

ASSUME PersistenceAssumption ==
  /\ NoId \notin RoomIds
  /\ QueueCap \in Nat \ {0}
  /\ BatchSize \in Nat \ {0}
  /\ MaxPasswordAttempts \in Nat \ {0}
  /\ HasPassword \in BOOLEAN
  /\ MaxGens \in Nat \ {0}
  /\ MaxHandled \in Nat
  /\ MaxTime \in Nat

VARIABLES
  now,       \* the wall clock
  phase,     \* where main.run is
  heap,      \* the Room objects of each id, oldest first
  rooms,     \* Registry.rooms: id -> generation, 0 when absent
  tomb,      \* why the id is closed, in this process
  sess,      \* Session of each connection
  leaving,   \* connections closed, their Detach still to run
  task,      \* what a handler has yet to do after its lock
  handled,   \* messages and lost connections so far
  sweeping,  \* the room the sweep has removed and not yet marked
  toMark,    \* MarkAllDirty: ids still to mark
  toShut,    \* Shutdown: objects still to empty
  shutting,  \* Shutdown: the object emptied and not yet removed
  tokens,    \* rejoin tokens the clients hold
  opCh,      \* Persister.opCh
  pending,   \* loop's coalesced operations
  batch,     \* what flush has yet to process
  holding,   \* the save flush is in the middle of
  loop,      \* where the persister's goroutine is
  disk,      \* the state directory
  newest,    \* history: the fate of the newest mark of each id
  late,      \* history: ids whose newest mark deletes the file of a room that is live
  promised   \* history: rooms a crash found settled on disk

memVars   == <<heap, rooms, tomb, sess, leaving, task, handled, tokens>>
mainVars  == <<toMark, toShut, shutting>>
queueVars == <<opCh, newest, late>>
loopVars  == <<pending, batch, holding, loop>>
vars == <<now, phase, memVars, sweeping, mainVars, queueVars, loopVars, disk,
          promised>>

-----------------------------------------------------------------------------
(* Types *)

Gens == 1..MaxGens

NoGen == 0    \* a nil *Room

NoRef == [id |-> NoId, gen |-> NoGen]

Ref == [id : RoomIds, gen : Gens] \union {NoRef}

Session == [at : Ref, role : Role]

NoSession == [at |-> NoRef, role |-> "host"]

Task == [do : {"nothing", "markCreated", "markRecreated", "attach", "markClosed"},
         at : Ref, role : Role]

NoTask == [do |-> "nothing", at |-> NoRef, role |-> "host"]

OpKind == {"save", "delete"}

NoOps == [id \in RoomIds |-> "none"]

SlotSnapshot == [epoch : OptEpoch, reportedConnected : BOOLEAN,
                 lastSeq : 0..MaxSeq, buffer : Seq(BufferedSignal),
                 bufferBytes : Nat, overflowReset : BOOLEAN]

RoomSnapshot == [id : RoomIds, createdAt : Time, expiresAt : Time,
                 peerDeadlineAt : OptTime, password : BOOLEAN,
                 passwordAttempts : Nat, ownerIP : IPs,
                 slots : [Role -> SlotSnapshot]]

\* flush is idle, has looked a room up, or has its bytes to write.
Holding == [id : RoomIds \union {NoId}, gen : Gens \union {NoGen},
            data : RoomSnapshot \union {NoFile}]

NoHold == [id |-> NoId, gen |-> NoGen, data |-> NoFile]

\* A missing file is not a snapshot.
ASSUME NoFileAssumption == NoFile \notin RoomSnapshot

TypeOK ==
  /\ now \in Time
  /\ phase \in {"down", "booting", "serving", "draining", "stopping"}
  /\ heap \in [RoomIds -> Seq(Room)]
  /\ rooms \in [RoomIds -> Gens \union {NoGen}]
  /\ \A id \in RoomIds : rooms[id] <= Len(heap[id]) /\ Len(heap[id]) <= MaxGens
  /\ tomb \in [RoomIds -> {"none", "closed", "locked"}]
  /\ sess \in [Conns -> Session]
  /\ leaving \subseteq Conns
  /\ task \in [Conns -> Task]
  /\ handled \in 0..MaxHandled
  /\ sweeping \in Ref
  /\ toMark \subseteq RoomIds
  /\ toShut \subseteq Ref
  /\ shutting \in Ref
  /\ tokens \subseteq [id : RoomIds, role : Role, createdAt : Time]
  /\ opCh \in Seq([id : RoomIds, kind : OpKind])
  /\ Len(opCh) <= QueueCap
  /\ pending \in [RoomIds -> OpKind \union {"none"}]
  /\ batch \in [RoomIds -> OpKind \union {"none"}]
  /\ holding \in Holding
  /\ loop \in {"select", "drain", "final"}
  /\ disk \in [RoomIds -> RoomSnapshot \union {NoFile}]
  /\ newest \in [RoomIds -> OpKind \union {"none", "lost"}]
  /\ late \subseteq RoomIds
  /\ promised \in [RoomIds -> Room \union {NoFile}]

-----------------------------------------------------------------------------
(* Snapshots: what is written of a room, and what Restore makes of it *)

slotSnapshot(s) ==
  [epoch |-> s.epoch, reportedConnected |-> s.reportedConnected,
   lastSeq |-> s.lastSeq, buffer |-> s.buffer, bufferBytes |-> s.bufferBytes,
   overflowReset |-> s.overflowReset]

\* No connection and no releaseAt: neither outlives the process.
marshalSnapshot(rm) ==
  [id |-> rm.id, createdAt |-> rm.createdAt, expiresAt |-> rm.expiresAt,
   peerDeadlineAt |-> rm.peerDeadlineAt, password |-> rm.password,
   passwordAttempts |-> rm.passwordAttempts, ownerIP |-> rm.ownerIP,
   slots |-> [r \in Role |-> slotSnapshot(rm.slots[r])]]

unmarshalSlot(ss) ==
  [conn |-> NoConn, epoch |-> ss.epoch,
   reportedConnected |-> ss.reportedConnected, lastSeq |-> ss.lastSeq,
   buffer |-> ss.buffer, bufferBytes |-> ss.bufferBytes,
   overflowReset |-> ss.overflowReset]

\* Mutant: the buffered signals are not read back.
unmarshalSnapshot_NoBuffer(snap) ==
  [id |-> snap.id, ownerIP |-> snap.ownerIP, createdAt |-> snap.createdAt,
   expiresAt |-> snap.expiresAt, peerDeadlineAt |-> snap.peerDeadlineAt,
   releaseAt |-> NoTime, password |-> snap.password,
   passwordAttempts |-> snap.passwordAttempts,
   slots |-> [r \in Role |->
                [unmarshalSlot(snap.slots[r]) EXCEPT !.buffer = << >>]]]

unmarshalSnapshot(snap) ==
  [id |-> snap.id, ownerIP |-> snap.ownerIP, createdAt |-> snap.createdAt,
   expiresAt |-> snap.expiresAt, peerDeadlineAt |-> snap.peerDeadlineAt,
   releaseAt |-> NoTime, password |-> snap.password,
   passwordAttempts |-> snap.passwordAttempts,
   slots |-> [r \in Role |-> unmarshalSlot(snap.slots[r])]]

\* Restore skips, and deletes, what has expired and what nobody can rejoin.
Restorable(snap, t) ==
  /\ t < snap.expiresAt
  /\ \E r \in Role : \/ snap.slots[r].epoch # NoEpoch
                     \/ snap.slots[r].buffer # << >>

\* The fresh peer deadline of a restored room runs from the restart.
RestoredRoom(snap, t) ==
  WithDeadline(unmarshalSnapshot(snap), computePeerDeadline(t, snap.expiresAt))

-----------------------------------------------------------------------------
(* Marks and lookups *)

Obj(ref) == heap[ref.id][ref.gen]

LiveRef(id) == [id |-> id, gen |-> rooms[id]]

\* Mutant: one operation more than the channel holds.
Mark_OneMore(id, kind) ==
  LET room == Len(opCh) <= QueueCap
  IN  /\ opCh' = IF room THEN Append(opCh, [id |-> id, kind |-> kind]) ELSE opCh
      /\ newest' = [newest EXCEPT ![id] = IF room THEN kind ELSE "lost"]
      /\ late' = IF kind = "delete" /\ rooms[id] # NoGen THEN late \union {id} ELSE late \ {id}

\* MarkDirty and MarkDeleted: a full queue drops the operation.
Mark(id, kind) ==
  LET room == Len(opCh) < QueueCap
  IN  /\ opCh' = IF room THEN Append(opCh, [id |-> id, kind |-> kind]) ELSE opCh
      /\ newest' = [newest EXCEPT ![id] = IF room THEN kind ELSE "lost"]
      /\ late' = IF kind = "delete" /\ rooms[id] # NoGen THEN late \union {id} ELSE late \ {id}

markDirty(id) == Mark(id, "save")

markDeleted(id) == Mark(id, "delete")

\* The sweep holds room.mu from the removal to its mark.
Unlocked(ref) == sweeping # ref

Handling == phase \in {"serving", "draining", "stopping"}

\* A connection whose reader may start a handler.
Ready(c) == Handling /\ c \notin leaving /\ task[c] = NoTask

Unattached(c) == Ready(c) /\ sess[c] = NoSession

AttachedTo(c, ref) == Ready(c) /\ ref # NoRef /\ sess[c].at = ref /\ Unlocked(ref)

SetObj(ref, rm) == heap' = [heap EXCEPT ![ref.id][ref.gen] = rm]

Attach(c, ref, role) == sess' = [sess EXCEPT ![c] = [at |-> ref, role |-> role]]

Issue(id, role, rm) ==
  tokens' = tokens \union {[id |-> id, role |-> role, createdAt |-> rm.createdAt]}

\* removeRoomLocked: by id, whichever object has it.
removeRoomLocked(id) == rooms' = [rooms EXCEPT ![id] = NoGen]

\* Close both sockets and remove the room: close, lockout, expiry, release.
EndRoom(ref) ==
  /\ SetObj(ref, Emptied(Obj(ref)))
  /\ leaving' = leaving \union Occupants(Obj(ref))
  /\ removeRoomLocked(ref.id)

Publish(id, rm) ==
  /\ Len(heap[id]) < MaxGens
  /\ heap' = [heap EXCEPT ![id] = Append(@, rm)]
  /\ rooms' = [rooms EXCEPT ![id] = Len(heap[id]) + 1]

-----------------------------------------------------------------------------
(* The handlers, as far as persistence sees them *)

Ip == CHOOSE ip \in IPs : TRUE

\* CreateRoom up to the publication of the room.
CreateRoom(c, id, e) ==
  LET rm  == NewRoom(id, Ip, now, now, HasPassword)
      ref == [id |-> id, gen |-> Len(heap[id]) + 1]
  IN  /\ Unattached(c)
      /\ rooms[id] = NoGen /\ tomb[id] = "none"
      /\ Publish(id, HostAttached(rm, c, e))
      /\ Attach(c, ref, "host")
      /\ task' = [task EXCEPT ![c] = [do |-> "markCreated", at |-> ref, role |-> "host"]]
      /\ UNCHANGED <<tomb, leaving, tokens, queueVars>>

\* The rest of CreateRoom: the mark, then the response with the token.
MarkCreated(c) ==
  LET ref == task[c].at
  IN  /\ Handling /\ task[c].do = "markCreated"
      /\ markDirty(ref.id)
      /\ Issue(ref.id, "host", Obj(ref))
      /\ task' = [task EXCEPT ![c] = NoTask]
      /\ UNCHANGED <<heap, rooms, tomb, sess, leaving>>

JoinRoom(c, id, e) ==
  LET ref == LiveRef(id)
  IN  /\ Unattached(c)
      /\ rooms[id] # NoGen /\ tomb[id] = "none" /\ Unlocked(ref)
      /\ ~Occupied(Obj(ref), "guest")
      /\ SetObj(ref, GuestAttached(Obj(ref), c, e))
      /\ Attach(c, ref, "guest")
      /\ markDirty(id)
      /\ Issue(id, "guest", Obj(ref))
      /\ UNCHANGED <<rooms, tomb, leaving, task>>

\* JoinRoom with a wrong password.  Neither the count nor the lockout is marked.
WrongPassword(c, id) ==
  LET ref == LiveRef(id)
      rm  == GuessedWrong(Obj(ref))
  IN  /\ Unattached(c)
      /\ rooms[id] # NoGen /\ tomb[id] = "none" /\ Unlocked(ref)
      /\ Obj(ref).password
      /\ IF rm.passwordAttempts >= MaxPasswordAttempts
         THEN /\ heap' = [heap EXCEPT ![id][ref.gen] = Emptied(rm)]
              /\ leaving' = leaving \union Occupants(rm)
              /\ removeRoomLocked(id)
              /\ tomb' = [tomb EXCEPT ![id] = "locked"]
         ELSE SetObj(ref, rm) /\ UNCHANGED <<leaving, rooms, tomb>>
      /\ UNCHANGED <<sess, task, tokens, queueVars>>

\* token.Expired is of tokens older than the TTL.
Fresh(tok) == now <= tok.createdAt + RejoinTokenTtl

\* The room.mu section of RejoinRoom; whoever was in the slot is evicted.
RejoinSection(c, ref, role, e, recreated) ==
  LET old == Obj(ref).slots[role].conn
  IN  /\ Unlocked(ref)
      /\ SetObj(ref, Rejoined(Obj(ref), role, c, e, recreated, now))
      /\ leaving' = leaving \union ({old} \ {NoConn})
      /\ Attach(c, ref, role)
      /\ markDirty(ref.id)

RejoinRoom(c, tok, e) ==
  /\ Unattached(c)
  /\ Fresh(tok) /\ tomb[tok.id] = "none" /\ rooms[tok.id] # NoGen
  /\ RejoinSection(c, LiveRef(tok.id), tok.role, e, FALSE)
  /\ UNCHANGED <<rooms, tomb, task, tokens>>

\* RejoinRoom of an unknown id: the room is built from the token, published,
\* marked and only then attached to.
Recreate(c, tok) ==
  LET ref == [id |-> tok.id, gen |-> Len(heap[tok.id]) + 1]
  IN  /\ Unattached(c)
      /\ Fresh(tok) /\ tomb[tok.id] = "none" /\ rooms[tok.id] = NoGen
      /\ Publish(tok.id, NewRoom(tok.id, Ip, tok.createdAt, now, HasPassword))
      /\ task' = [task EXCEPT ![c] = [do |-> "markRecreated", at |-> ref,
                                      role |-> tok.role]]
      /\ UNCHANGED <<tomb, sess, leaving, tokens, queueVars>>

MarkRecreated(c) ==
  /\ Handling /\ task[c].do = "markRecreated"
  /\ markDirty(task[c].at.id)
  /\ task' = [task EXCEPT ![c].do = "attach"]
  /\ UNCHANGED <<heap, rooms, tomb, sess, leaving, tokens>>

AttachRecreated(c, e) ==
  /\ Handling /\ task[c].do = "attach"
  /\ RejoinSection(c, task[c].at, task[c].role, e, TRUE)
  /\ task' = [task EXCEPT ![c] = NoTask]
  /\ UNCHANGED <<rooms, tomb, tokens>>

\* Signal: forwarding advances lastSeq without a mark.
Signal(c, ref, seq, size) ==
  LET role  == sess[c].role
      other == Other(role)
      rm    == Obj(ref)
  IN  /\ AttachedTo(c, ref)
      /\ seq > rm.slots[role].lastSeq
      /\ IF Occupied(rm, other)
         THEN SetObj(ref, Accepted(rm, role, seq)) /\ UNCHANGED queueVars
         ELSE /\ SetObj(ref, IF BufferFull(rm.slots[other], size)
                             THEN Overflowed(rm, role, seq)
                             ELSE Buffered(rm, role, seq, size))
              /\ markDirty(ref.id)
      /\ UNCHANGED <<rooms, tomb, sess, leaving, task, tokens>>

PeerConnected(c, ref) ==
  LET role == sess[c].role
  IN  /\ AttachedTo(c, ref)
      /\ ~Obj(ref).slots[role].reportedConnected
      /\ SetObj(ref, Reported(Obj(ref), role, now))
      /\ markDirty(ref.id)
      /\ UNCHANGED <<rooms, tomb, sess, leaving, task, tokens>>

CloseRoom(c, ref) ==
  /\ AttachedTo(c, ref)
  /\ EndRoom(ref)
  /\ tomb' = [tomb EXCEPT ![ref.id] = "closed"]
  /\ task' = [task EXCEPT ![c] = [do |-> "markClosed", at |-> ref, role |-> "host"]]
  /\ UNCHANGED <<sess, tokens, queueVars>>

MarkClosed(c) ==
  /\ Handling /\ task[c].do = "markClosed"
  /\ markDeleted(task[c].at.id)
  /\ task' = [task EXCEPT ![c] = NoTask]
  /\ UNCHANGED <<heap, rooms, tomb, sess, leaving, tokens>>

\* The socket of a connection closes.
Lose(c) ==
  /\ Ready(c) /\ sess[c] # NoSession
  /\ leaving' = leaving \union {c}
  /\ UNCHANGED <<heap, rooms, tomb, sess, task, tokens, queueVars>>

\* Detach marks the room whether or not somebody is left in it.
MarkDetached(id, rm) == markDirty(id)

\* Detach of a closed connection.  Its place is taken by a new connection,
\* unless the listener is closed by then.  A session is attached only after an
\* epoch is recorded, so the branch that drops a room without one is not taken.
Detach(c) ==
  LET ref == sess[c].at
      rm  == Detached(Obj(ref), sess[c].role, c, now)
  IN  /\ Handling /\ c \in leaving /\ task[c] = NoTask
      /\ sess[c] # NoSession /\ Unlocked(ref)
      /\ SetObj(ref, rm)
      /\ MarkDetached(ref.id, rm)
      /\ sess' = [sess EXCEPT ![c] = NoSession]
      /\ leaving' = IF phase = "stopping" THEN leaving ELSE leaving \ {c}
      /\ UNCHANGED <<rooms, tomb, task, tokens>>

\* A message arrives, or a connection is lost.
StartHandler(c) ==
  /\ handled < MaxHandled
  /\ handled' = handled + 1
  /\ \/ \E id \in RoomIds, e \in Epochs : CreateRoom(c, id, e) \/ JoinRoom(c, id, e)
     \/ \E id \in RoomIds : WrongPassword(c, id)
     \/ \E tok \in tokens : Recreate(c, tok) \/ \E e \in Epochs : RejoinRoom(c, tok, e)
     \/ \E seq \in 1..MaxSeq, size \in Sizes : Signal(c, sess[c].at, seq, size)
     \/ PeerConnected(c, sess[c].at)
     \/ CloseRoom(c, sess[c].at)
     \/ Lose(c)

\* What is under way goes on.
ContinueHandler(c) ==
  /\ \/ \E e \in Epochs : AttachRecreated(c, e)
     \/ MarkCreated(c) \/ MarkRecreated(c) \/ MarkClosed(c)
     \/ Detach(c)
  /\ UNCHANGED handled

Handle ==
  /\ \E c \in Conns : StartHandler(c) \/ ContinueHandler(c)
  /\ UNCHANGED <<now, phase, sweeping, mainVars, loopVars, disk, promised>>

-----------------------------------------------------------------------------
(* The sweep *)

Due(rm) == \/ Reached(rm.releaseAt, now) \/ Reached(rm.expiresAt, now)
           \/ Reached(rm.peerDeadlineAt, now)

\* One room of a pass; a pass under way when Stop is called goes on.
SweepRoom(id) ==
  /\ Handling
  /\ rooms[id] # NoGen /\ sweeping = NoRef
  /\ Due(Obj(LiveRef(id)))
  /\ EndRoom(LiveRef(id))
  /\ sweeping' = LiveRef(id)
  /\ UNCHANGED <<now, phase, tomb, sess, task, handled, tokens, mainVars,
                 queueVars, loopVars, disk, promised>>

SweepMark ==
  /\ phase # "down" /\ sweeping # NoRef
  /\ markDeleted(sweeping.id)
  /\ sweeping' = NoRef
  /\ UNCHANGED <<now, phase, memVars, mainVars, loopVars, disk, promised>>

Sweep == SweepMark \/ \E id \in RoomIds : SweepRoom(id)

-----------------------------------------------------------------------------
(* The persister's goroutine *)

Flushing == batch # NoOps \/ holding # NoHold

Ops(p) == {id \in RoomIds : p[id] # "none"}

persisterRest == <<now, phase, memVars, sweeping, mainVars, promised>>

\* Mutant: the first mark of an id wins.
Coalesce_First(p, op) == IF p[op.id] = "none" THEN [p EXCEPT ![op.id] = op.kind] ELSE p

\* The last mark of an id wins.
Coalesce(p, op) == [p EXCEPT ![op.id] = op.kind]

\* loop takes one operation; a full batch is flushed, except while draining.
Take ==
  LET p == Coalesce(pending, Head(opCh))
  IN  /\ phase # "down" /\ loop \in {"select", "drain"} /\ ~Flushing
      /\ opCh # << >>
      /\ opCh' = Tail(opCh)
      /\ IF loop = "select" /\ Cardinality(Ops(p)) >= BatchSize
         THEN batch' = p /\ pending' = NoOps
         ELSE pending' = p /\ UNCHANGED batch
      /\ UNCHANGED <<persisterRest, newest, late, holding, loop, disk>>

\* The flush ticker.
TickerFlush ==
  /\ phase # "down" /\ loop = "select" /\ ~Flushing
  /\ pending # NoOps
  /\ batch' = pending /\ pending' = NoOps
  /\ UNCHANGED <<persisterRest, queueVars, holding, loop, disk>>

\* loop sees stopCh closed.
SeeStop ==
  /\ phase = "stopping" /\ loop = "select" /\ ~Flushing
  /\ loop' = "drain"
  /\ UNCHANGED <<persisterRest, queueVars, pending, batch, holding, disk>>

\* Mutant: the drain receives until the channel is closed, which nobody does.
FinalFlush_Range ==
  /\ loop = "closed"
  /\ UNCHANGED vars

\* Nothing left to drain: the final flush.
FinalFlush ==
  /\ phase # "down" /\ loop = "drain" /\ opCh = << >>
  /\ loop' = "final"
  /\ batch' = pending /\ pending' = NoOps
  /\ UNCHANGED <<persisterRest, queueVars, holding, disk>>

Queued(id) == \E i \in 1..Len(opCh) : opCh[i].id = id

\* What a Save or a Delete leaves on disk; its error is swallowed.
Written(id, data) ==
  \/ disk' = [disk EXCEPT ![id] = data] /\ UNCHANGED newest
  \/ /\ UNCHANGED disk
     /\ newest' = [newest EXCEPT ![id] = IF Queued(id) THEN @ ELSE "lost"]

\* flush, one room: a delete, or a save of a room that is gone.
FlushDelete(id) ==
  /\ phase # "down" /\ holding = NoHold
  /\ \/ batch[id] = "delete"
     \/ batch[id] = "save" /\ rooms[id] = NoGen
  /\ batch' = [batch EXCEPT ![id] = "none"]
  /\ Written(id, NoFile)
  /\ UNCHANGED <<persisterRest, opCh, late, pending, holding, loop>>

\* snapshotRoom finds the room under r.mu ...
SnapshotLookup(id) ==
  /\ phase # "down" /\ holding = NoHold
  /\ batch[id] = "save" /\ rooms[id] # NoGen
  /\ batch' = [batch EXCEPT ![id] = "none"]
  /\ holding' = [id |-> id, gen |-> rooms[id], data |-> NoFile]
  /\ UNCHANGED <<persisterRest, queueVars, pending, loop, disk>>

\* ... and reads it under room.mu.
SnapshotRead ==
  LET ref == [id |-> holding.id, gen |-> holding.gen]
  IN  /\ phase # "down" /\ holding.gen # NoGen /\ Unlocked(ref)
      /\ holding' = [id |-> ref.id, gen |-> NoGen,
                     data |-> marshalSnapshot(Obj(ref))]
      /\ UNCHANGED <<persisterRest, queueVars, pending, batch, loop, disk>>

\* Save's rename.
FlushSave ==
  /\ phase # "down" /\ holding.data # NoFile
  /\ Written(holding.id, holding.data)
  /\ holding' = NoHold
  /\ UNCHANGED <<persisterRest, opCh, late, pending, batch, loop>>

Flush == SnapshotRead \/ FlushSave
         \/ \E id \in RoomIds : FlushDelete(id) \/ SnapshotLookup(id)

Persister == Take \/ TickerFlush \/ SeeStop \/ FinalFlush \/ Flush

-----------------------------------------------------------------------------
(* The process *)

\* Memory of a process that does not run.
NoProcess ==
  /\ phase' = "down"
  /\ heap' = [id \in RoomIds |-> << >>]
  /\ rooms' = [id \in RoomIds |-> NoGen]
  /\ tomb' = [id \in RoomIds |-> "none"]
  /\ sess' = [c \in Conns |-> NoSession]
  /\ leaving' = {}
  /\ task' = [c \in Conns |-> NoTask]
  /\ sweeping' = NoRef
  /\ toMark' = {} /\ toShut' = {} /\ shutting' = NoRef
  /\ opCh' = << >>
  /\ pending' = NoOps /\ batch' = NoOps /\ holding' = NoHold
  /\ loop' = "select"
  /\ newest' = [id \in RoomIds |-> "none"]
  /\ late' = {}

\* A mark made, or about to be made, and not yet on disk.
Outstanding(id) ==
  \/ Queued(id)
  \/ pending[id] # "none" \/ batch[id] # "none"
  \/ holding.id = id
  \/ id \in toMark
  \/ sweeping.id = id
  \/ \E c \in Conns : task[c].at.id = id

Settled(id) == ~Outstanding(id)

Crash ==
  /\ phase # "down"
  /\ NoProcess
  /\ promised' = [id \in RoomIds |->
                    IF Settled(id) /\ newest[id] = "save" /\ rooms[id] # NoGen
                    THEN Obj(LiveRef(id)) ELSE NoFile]
  /\ UNCHANGED <<now, handled, tokens, disk>>

\* main.run: Restore, then the persister is started and installed.  A stale
\* file is deleted; when that fails, it stays.
Boot ==
  LET live == {id \in RoomIds : disk[id] # NoFile /\ Restorable(disk[id], now)}
  IN  /\ phase = "down"
      /\ phase' = "booting"
      /\ heap' = [id \in RoomIds |->
                    IF id \in live THEN <<RestoredRoom(disk[id], now)>> ELSE << >>]
      /\ rooms' = [id \in RoomIds |-> IF id \in live THEN 1 ELSE NoGen]
      /\ \E kept \in SUBSET (RoomIds \ live) :
           disk' = [id \in RoomIds |-> IF id \in live \union kept THEN disk[id] ELSE NoFile]
      /\ toMark' = live
      /\ promised' = [id \in RoomIds |-> NoFile]
      /\ UNCHANGED <<now, tomb, sess, leaving, task, handled, tokens, sweeping, toShut,
                     shutting, queueVars, loopVars>>

\* MarkAllDirty, one room.
MarkAllDirty(id) ==
  /\ phase = "booting" /\ id \in toMark
  /\ markDirty(id)
  /\ toMark' = toMark \ {id}
  /\ UNCHANGED <<now, phase, memVars, sweeping, toShut, shutting, loopVars,
                 disk, promised>>

Serve ==
  /\ phase = "booting" /\ toMark = {}
  /\ phase' = "serving"
  /\ UNCHANGED <<now, memVars, sweeping, mainVars, queueVars, loopVars, disk,
                 promised>>

\* SIGTERM: Shutdown copies the list of rooms.
Shutdown ==
  /\ phase = "serving"
  /\ phase' = "draining"
  /\ toShut' = {LiveRef(id) : id \in {i \in RoomIds : rooms[i] # NoGen}}
  /\ UNCHANGED <<now, memVars, sweeping, toMark, shutting, queueVars, loopVars,
                 disk, promised>>

\* Shutdown, one room: close both sockets under room.mu ...
ShutdownClose(ref) ==
  /\ phase = "draining" /\ shutting = NoRef /\ ref \in toShut /\ Unlocked(ref)
  /\ SetObj(ref, Emptied(Obj(ref)))
  /\ leaving' = leaving \union Occupants(Obj(ref))
  /\ toShut' = toShut \ {ref}
  /\ shutting' = ref
  /\ UNCHANGED <<now, phase, rooms, tomb, sess, task, handled, tokens, sweeping,
                 toMark, queueVars, loopVars, disk, promised>>

\* ... and remove it, without a mark, after letting go of it.
ShutdownRemove ==
  /\ phase = "draining" /\ shutting # NoRef
  /\ removeRoomLocked(shutting.id)
  /\ shutting' = NoRef
  /\ UNCHANGED <<now, phase, heap, tomb, sess, leaving, task, handled, tokens,
                 sweeping, toMark, toShut, queueVars, loopVars, disk, promised>>

\* The deferred Stop closes the persister and waits for it.
Stop ==
  /\ phase = "draining" /\ toShut = {} /\ shutting = NoRef
  /\ phase' = "stopping"
  /\ UNCHANGED <<now, memVars, sweeping, mainVars, queueVars, loopVars, disk,
                 promised>>

Exit ==
  /\ phase = "stopping" /\ loop = "final" /\ ~Flushing
  /\ NoProcess
  /\ UNCHANGED <<now, handled, tokens, disk, promised>>

Main == \/ Boot \/ Serve \/ ShutdownRemove \/ Stop \/ Exit
        \/ \E id \in RoomIds : MarkAllDirty(id)
        \/ \E ref \in toShut : ShutdownClose(ref)

Tick ==
  /\ now < MaxTime
  /\ now' = now + 1
  /\ UNCHANGED <<phase, memVars, sweeping, mainVars, queueVars, loopVars, disk,
                 promised>>

Init ==
  /\ now = 0
  /\ phase = "down"
  /\ heap = [id \in RoomIds |-> << >>]
  /\ rooms = [id \in RoomIds |-> NoGen]
  /\ tomb = [id \in RoomIds |-> "none"]
  /\ sess = [c \in Conns |-> NoSession]
  /\ leaving = {}
  /\ task = [c \in Conns |-> NoTask]
  /\ handled = 0
  /\ sweeping = NoRef
  /\ toMark = {} /\ toShut = {} /\ shutting = NoRef
  /\ tokens = {}
  /\ opCh = << >>
  /\ pending = NoOps /\ batch = NoOps /\ holding = NoHold
  /\ loop = "select"
  /\ disk = [id \in RoomIds |-> NoFile]
  /\ newest = [id \in RoomIds |-> "none"]
  /\ late = {}
  /\ promised = [id \in RoomIds |-> NoFile]

Next == Handle \/ Sweep \/ Persister \/ Main \/ Shutdown \/ Crash \/ Tick

Spec == Init /\ [][Next]_vars

\* Goroutines that can run do: the persister's, whose ticker keeps firing, the
\* sweep's, and main's once it is told to stop.
FairSpec == Spec /\ WF_vars(Persister) /\ WF_vars(Sweep) /\ WF_vars(Main)

-----------------------------------------------------------------------------
(* Properties *)

\* What a settled file must have of the room: all but what no handler marks,
\* the sequence number of a forwarded signal and the count of wrong passwords.
SameButUnmarked(snap, rm) ==
  LET cur == marshalSnapshot(rm)
      Blur(s) == [s EXCEPT !.passwordAttempts = 0,
                           !.slots = [r \in Role |-> [s.slots[r] EXCEPT !.lastSeq = 0]]]
  IN  /\ Blur(snap) = Blur(cur)
      /\ \A r \in Role : snap.slots[r].lastSeq <= cur.slots[r].lastSeq

\* Once the marks of an id are processed, its file and its room agree: the
\* file is the room as it is now, or both are gone.  The snapshot is taken
\* when it is written, from whichever object then has the id, so this must
\* hold although marks are queued by many goroutines, coalesced, and made
\* before or after the lock of their change (store.go loop and flush).  Where
\* the code leaves them apart is spelled out: a mark the full queue dropped and
\* a failed write ("lost"), until the next mark of the id; the sweep's delete
\* that comes after the id was recreated (late), which leaves a live room
\* without a file; a lockout, which makes no mark; and a stale file Restore
\* could not delete, which no later Restore takes up either.
FilesCatchUp ==
  phase \in {"booting", "serving"} =>
    \A id \in RoomIds : Settled(id) =>
      CASE newest[id] = "lost"   -> TRUE
        [] newest[id] = "delete" -> disk[id] = NoFile /\ (rooms[id] = NoGen \/ id \in late)
        [] newest[id] = "none"   ->
             /\ rooms[id] = NoGen
             /\ disk[id] # NoFile => ~Restorable(disk[id], now)
        [] newest[id] = "save"   ->
             IF rooms[id] = NoGen THEN disk[id] = NoFile \/ tomb[id] = "locked"
             ELSE disk[id] # NoFile /\ SameButUnmarked(disk[id], Obj(LiveRef(id)))

\* A crash loses nothing that was settled: the restarted server has the room,
\* with the epochs, reports and buffered signals of both slots, unless it has
\* expired meanwhile; nobody is in it and no release is scheduled.
SurvivesCrash ==
  [][phase = "down" /\ phase' = "booting" =>
       \A id \in RoomIds :
         promised[id] # NoFile /\ now < promised[id].expiresAt =>
           /\ rooms'[id] # NoGen
           /\ LET rm == heap'[id][rooms'[id]] IN
                /\ SameButUnmarked(
                     marshalSnapshot(WithDeadline(rm, promised[id].peerDeadlineAt)),
                     promised[id])
                /\ Occupants(rm) = {} /\ rm.releaseAt = NoTime]_vars

\* Stop returns: the drain comes to an end although handlers and release
\* goroutines still mark rooms while it runs, and main exits.
StopReturns == phase = "stopping" ~> phase = "down"

\* Claim (sweep.go, Shutdown): "Room state files are NOT deleted", so that the
\* restarted server has the rooms.  A file goes during the shutdown only when
\* the newest mark asked for it.
ShutdownKeepsFiles ==
  [][(phase \in {"draining", "stopping"}) =>
       \A id \in RoomIds : (disk[id] # NoFile /\ disk'[id] = NoFile)
                             => newest[id] = "delete"]_vars
=============================================================================
