------------------------------ MODULE ChatFlush ------------------------------
(***************************************************************************)
(* The write path of the chat: chat:send appends a message to the Redis    *)
(* stream of its room (ChatService.queueMessage); the ChatFlushWorker of   *)
(* every server instance drains the registered streams through one         *)
(* consumer group into Postgres (ChatFlushWorker, ChatService.flushStream).*)
(*                                                                         *)
(* A server instance is a member of Servers.  Its worker id contains the   *)
(* pid and the start time, so an instance that went down never comes back  *)
(* under the same name: a restart is another member of Servers.            *)
(*                                                                         *)
(* A stream is append-only (nothing in the code trims or deletes entries), *)
(* so it is represented by its length; entry i of room r is the i-th       *)
(* message queued for r, and carries the id of its future Postgres row.    *)
(***************************************************************************)
EXTENDS Integers, FiniteSets

CONSTANTS
    Rooms,        \* the chat rooms (chatStreamKey)
    Servers,      \* the incarnations of the server process (workerId)
    NoOwner,      \* the owner of an entry that is not in the PEL
    BatchSize,    \* BATCH_SIZE of the worker
    MaxEntries,   \* bound: messages queued per room
    MaxFaults     \* bound: crashes and failed calls

ASSUME ChatFlushAssumption ==
    /\ NoOwner \notin Servers
    /\ BatchSize \in Nat \ {0}
    /\ MaxEntries \in Nat
    /\ MaxFaults \in Nat

Entries == 1..MaxEntries

VARIABLES
    len,          \* len[r]: XLEN of the stream of r
    active,       \* the set chat:active_streams
    group,        \* the rooms whose stream has the consumer group
    lastDel,      \* lastDel[r]: last-delivered-id of the group
    owner,        \* owner[r][i]: consumer holding entry i in the PEL
    stored,       \* stored[r]: the entries of r with a chat_messages row
    server,       \* server[s]: "new", "up" or "down"
    registering,  \* registering[s]: rooms between SADD and XGROUP CREATE
    pc,           \* pc[s][r]: where the flush of r by s stands
    batch,        \* batch[s][r]: the entries that flush has read
    faults        \* crashes and failed calls so far

redis == <<len, active, group, lastDel, owner>>
local == <<server, registering, pc, batch>>
vars  == <<redis, stored, local, faults>>

PC == {"idle", "recover", "read", "insert", "ack"}

TypeOK ==
    /\ len \in [Rooms -> 0..MaxEntries]
    /\ active \subseteq Rooms
    /\ group \subseteq Rooms
    /\ lastDel \in [Rooms -> 0..MaxEntries]
    /\ owner \in [Rooms -> [Entries -> Servers \cup {NoOwner}]]
    /\ stored \in [Rooms -> SUBSET Entries]
    /\ server \in [Servers -> {"new", "up", "down"}]
    /\ registering \in [Servers -> SUBSET Rooms]
    /\ pc \in [Servers -> [Rooms -> PC]]
    /\ batch \in [Servers -> [Rooms -> SUBSET Entries]]
    /\ faults \in 0..MaxFaults

Init ==
    /\ len = [r \in Rooms |-> 0]
    /\ active = {}
    /\ group = {}
    /\ lastDel = [r \in Rooms |-> 0]
    /\ owner = [r \in Rooms |-> [i \in Entries |-> NoOwner]]
    /\ stored = [r \in Rooms |-> {}]
    /\ server = [s \in Servers |-> "new"]
    /\ registering = [s \in Servers |-> {}]
    /\ pc = [s \in Servers |-> [r \in Rooms |-> "idle"]]
    /\ batch = [s \in Servers |-> [r \in Rooms |-> {}]]
    /\ faults = 0

-----------------------------------------------------------------------------
(* The pending entries list, and the part of it XPENDING - + batchSize shows *)

PEL(r) == {i \in Entries : owner[r][i] # NoOwner}

FirstPending(r) ==
    {i \in PEL(r) : Cardinality({j \in PEL(r) : j <= i}) <= BatchSize}

(* Mutant: the read starts at the last delivered entry instead of after it *)
NewEntriesReread(r) ==
    {i \in Entries : /\ lastDel[r] <= i
                     /\ i <= len[r]
                     /\ i <= lastDel[r] + BatchSize}

(* What XREADGROUP ... COUNT batchSize STREAMS key > hands out next *)
NewEntries(r) ==
    {i \in Entries : /\ lastDel[r] < i
                     /\ i <= len[r]
                     /\ i <= lastDel[r] + BatchSize}

(* Mutant: the cursor moves by the count asked for, not by what was there *)
CursorPastEnd(r) == lastDel[r] + BatchSize

(* last-delivered-id after that read *)
CursorAfterRead(r) ==
    IF len[r] <= lastDel[r] + BatchSize THEN len[r] ELSE lastDel[r] + BatchSize

(* Mutant: the group is recreated on every join *)
GroupStartReset(r) == 0

(* Mutant: a new group starts at $, after what was sent before the first join *)
GroupStartTail(r) == IF r \in group THEN lastDel[r] ELSE len[r]

(* The cursor after XGROUP CREATE key flush-workers 0 MKSTREAM: a group that     *)
(* exists is left alone (BUSYGROUP is swallowed), a new one starts before the    *)
(* first entry.                                                                  *)
GroupStart(r) == IF r \in group THEN lastDel[r] ELSE 0

Fault == faults < MaxFaults /\ faults' = faults + 1

(* The end of one flushStream: its promise settles, Promise.all has one less *)
FlushEnds(s, r) ==
    /\ pc' = [pc EXCEPT ![s][r] = "idle"]
    /\ batch' = [batch EXCEPT ![s][r] = {}]

-----------------------------------------------------------------------------
(* onApplicationBootstrap of a new incarnation *)
Bootstrap(s) ==
    /\ server[s] = "new"
    /\ server' = [server EXCEPT ![s] = "up"]
    /\ UNCHANGED <<redis, stored, registering, pc, batch, faults>>

(* The process dies, or exits after onApplicationShutdown, which only stops   *)
(* the timer: what it held in memory is gone, Redis and Postgres stay.        *)
Crash(s) ==
    /\ server[s] = "up"
    /\ Fault
    /\ server' = [server EXCEPT ![s] = "down"]
    /\ registering' = [registering EXCEPT ![s] = {}]
    /\ pc' = [pc EXCEPT ![s] = [r \in Rooms |-> "idle"]]
    /\ batch' = [batch EXCEPT ![s] = [r \in Rooms |-> {}]]
    /\ UNCHANGED <<redis, stored>>

(* chat:send by a user with access to r: XADD.  The handler does not look at  *)
(* the rooms its socket joined, nor does it register the stream.              *)
QueueMessage(s, r) ==
    /\ server[s] = "up"
    /\ len[r] < MaxEntries
    /\ len' = [len EXCEPT ![r] = @ + 1]
    /\ UNCHANGED <<active, group, lastDel, owner, stored, local, faults>>

(* chat:join, registerStream: SADD, then (next action) XGROUP CREATE *)
RegisterStream(s, r) ==
    /\ server[s] = "up"
    /\ r \notin registering[s]
    /\ active' = active \cup {r}
    /\ registering' = [registering EXCEPT ![s] = @ \cup {r}]
    /\ UNCHANGED <<len, group, lastDel, owner, stored, server, pc,
                   batch, faults>>

(* ensureConsumerGroup, the second call of registerStream *)
EnsureConsumerGroup(s, r) ==
    /\ r \in registering[s]
    /\ registering' = [registering EXCEPT ![s] = @ \ {r}]
    /\ group' = group \cup {r}
    /\ lastDel' = [lastDel EXCEPT ![r] = GroupStart(r)]
    /\ UNCHANGED <<len, active, owner, stored, server, pc, batch, faults>>

(* Mutant: no tick reads new entries while entries are pending *)
TickUnlessPending(s) ==
    /\ server[s] = "up"
    /\ active # {}
    /\ \A r \in Rooms : pc[s][r] = "idle" /\ PEL(r) = {}
    /\ pc' = [pc EXCEPT ![s] =
                 [r \in Rooms |-> IF r \in active THEN "recover" ELSE "idle"]]
    /\ UNCHANGED <<redis, stored, server, registering, batch, faults>>

(* tick: not while a tick is running; drainAllStreams starts one flush for    *)
(* every member of chat:active_streams, in parallel.                          *)
Tick(s) ==
    /\ server[s] = "up"
    /\ active # {}
    /\ \A r \in Rooms : pc[s][r] = "idle"
    /\ pc' = [pc EXCEPT ![s] =
                 [r \in Rooms |-> IF r \in active THEN "recover" ELSE "idle"]]
    /\ UNCHANGED <<redis, stored, server, registering, batch, faults>>

(* recoverPendingEntries: the entries of the first page of the PEL that have  *)
(* been idle for more than 5s (any of them, clocks are not modelled) change   *)
(* owner; the reply of XCLAIM, which holds their contents, is dropped.        *)
RecoverPendingEntries(s, r) ==
    /\ pc[s][r] = "recover"
    /\ \E stale \in SUBSET FirstPending(r) :
          owner' = [owner EXCEPT ![r] =
                      [i \in Entries |-> IF i \in stale THEN s ELSE @[i]]]
    /\ pc' = [pc EXCEPT ![s][r] = "read"]
    /\ UNCHANGED <<len, active, group, lastDel, stored, server, registering,
                   batch, faults>>

(* XREADGROUP > : without the group it fails, without new entries the flush   *)
(* returns 0; otherwise the new entries enter the PEL.  (The check of XLEN    *)
(* against the alert threshold, which only logs, is left out.)                *)
FlushReadNothing(s, r) ==
    /\ pc[s][r] = "read"
    /\ r \notin group \/ NewEntries(r) = {}
    /\ FlushEnds(s, r)
    /\ UNCHANGED <<redis, stored, server, registering, faults>>

FlushRead(s, r) ==
    /\ pc[s][r] = "read"
    /\ r \in group
    /\ NewEntries(r) # {}
    /\ batch' = [batch EXCEPT ![s][r] = NewEntries(r)]
    /\ owner' = [owner EXCEPT ![r] =
                   [i \in Entries |-> IF i \in NewEntries(r) THEN s ELSE @[i]]]
    /\ lastDel' = [lastDel EXCEPT ![r] = CursorAfterRead(r)]
    /\ pc' = [pc EXCEPT ![s][r] = "insert"]
    /\ UNCHANGED <<len, active, group, stored, server, registering, faults>>

(* Mutant: the INSERT is not awaited, the ack follows whatever comes of it *)
FlushInsertNotAwaited(s, r) ==
    /\ pc[s][r] = "insert"
    /\ pc' = [pc EXCEPT ![s][r] = "ack"]
    /\ UNCHANGED <<redis, stored, server, registering, batch, faults>>

(* INSERT ... ON CONFLICT DO NOTHING of the whole batch, one statement *)
FlushInsert(s, r) ==
    /\ pc[s][r] = "insert"
    /\ stored' = [stored EXCEPT ![r] = @ \cup batch[s][r]]
    /\ pc' = [pc EXCEPT ![s][r] = "ack"]
    /\ UNCHANGED <<redis, server, registering, batch, faults>>

(* XACK of the ids that were read *)
FlushAck(s, r) ==
    /\ pc[s][r] = "ack"
    /\ owner' = [owner EXCEPT ![r] =
                   [i \in Entries |-> IF i \in batch[s][r] THEN NoOwner ELSE @[i]]]
    /\ FlushEnds(s, r)
    /\ UNCHANGED <<len, active, group, lastDel, stored, server,
                   registering, faults>>

(* A call of flushStream fails: the exception reaches the catch of             *)
(* drainAllStreams, which logs it.  An INSERT whose connection breaks may      *)
(* have been committed nevertheless.                                           *)
FlushFails(s, r) ==
    /\ pc[s][r] \in {"read", "insert", "ack"}
    /\ Fault
    /\ \/ UNCHANGED stored
       \/ /\ pc[s][r] = "insert"
          /\ stored' = [stored EXCEPT ![r] = @ \cup batch[s][r]]
    /\ FlushEnds(s, r)
    /\ UNCHANGED <<redis, server, registering>>

FlushStep(s, r) ==
    \/ RecoverPendingEntries(s, r)
    \/ FlushReadNothing(s, r)
    \/ FlushRead(s, r)
    \/ FlushInsert(s, r)
    \/ FlushAck(s, r)

Next ==
    \E s \in Servers :
       \/ Bootstrap(s)
       \/ Crash(s)
       \/ Tick(s)
       \/ \E r \in Rooms :
             \/ QueueMessage(s, r)
             \/ RegisterStream(s, r)
             \/ EnsureConsumerGroup(s, r)
             \/ FlushStep(s, r)
             \/ FlushFails(s, r)

Spec == Init /\ [][Next]_vars

(* A recovery that finds the whole first page of the PEL idle.  The clock    *)
(* runs, so an entry that stays in the PEL is found idle again and again.    *)
ReclaimPage(s, r) ==
    /\ RecoverPendingEntries(s, r)
    /\ \A i \in FirstPending(r) : owner'[r][i] = s

(* The orchestrator restarts the process (restart: unless-stopped in          *)
(* docker-compose.yml)                                                        *)
Restarts == \A s \in Servers : WF_vars(Bootstrap(s))

(* The timer re-arms itself in the finally of tick; a call that was issued    *)
(* returns.  Nobody has to send, join or crash.                               *)
WorkerFairness ==
    \A s \in Servers :
       /\ WF_vars(Tick(s))
       /\ \A r \in Rooms : /\ WF_vars(EnsureConsumerGroup(s, r))
                           /\ WF_vars(FlushStep(s, r))
                           /\ SF_vars(ReclaimPage(s, r))

Fairness == Restarts /\ WorkerFairness

FairSpec == Spec /\ Fairness

-----------------------------------------------------------------------------
(* Properties *)

Acked(r) == {i \in Entries : i <= lastDel[r] /\ owner[r][i] = NoOwner}

(* "ACK only after successful INSERT": whatever crashes and failed calls       *)
(* happen in between, and whoever the entry was claimed by, an entry that was  *)
(* delivered and has left the PEL of flushStream has its row in Postgres.      *)
AckedIsStored == \A r \in Rooms : Acked(r) \subseteq stored[r]

(* The detailed pipeline implements MessageLog: a message is accepted when it   *)
(* is in its stream, kept when it has its row, settled when it is acked.       *)
Log == INSTANCE MessageLog WITH
    Messages <- Rooms \X Entries,
    accepted <- {m \in Rooms \X Entries : m[2] <= len[m[1]]},
    kept     <- {m \in Rooms \X Entries : m[2] \in stored[m[1]]},
    settled  <- {m \in Rooms \X Entries : m[2] \in Acked(m[1])}

(* Refinement: across crashes, failed calls and claims no step of the workers   *)
(* writes a row for a message nobody sent, drops a row, settles a message       *)
(* without a row, or takes a settled message up again.                         *)
ImplementsMessageLog == Log!Spec

(* "each entry is assigned to exactly one worker instance": two flushes of    *)
(* one stream never hold the same entry, although XCLAIM may hand the entry    *)
(* of a slow instance to another one while the slow one still works on it.     *)
ExclusiveDelivery ==
    \A r \in Rooms : \A s, t \in Servers :
        s # t => batch[s][r] \cap batch[t][r] = {}

(* A failed or crashed flush does not block what comes after it: every entry   *)
(* of a stream that has its group is eventually read by some flush.            *)
EventuallyDelivered ==
    \A r \in Rooms : \A i \in Entries :
        (i <= len[r] /\ r \in group) ~> (i <= lastDel[r])

(* "XREADGROUP + XACK gives at-least-once delivery with PEL crash recovery":   *)
(* every entry of a stream that has its group eventually gets its row.         *)
EventuallyStored ==
    \A r \in Rooms : \A i \in Entries :
        (i <= len[r] /\ r \in group) ~> (i \in stored[r])

(* The same while no call fails and no process dies: whatever ticks, joins and *)
(* sends interleave, every entry gets its row, unless a fault comes first.     *)
StoredUnlessFault ==
    \A r \in Rooms : \A i \in Entries :
        (i <= len[r] /\ r \in group) ~> (i \in stored[r] \/ faults > 0)
=============================================================================
