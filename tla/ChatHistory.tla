----------------------------- MODULE ChatHistory -----------------------------
(***************************************************************************)
(* What is read of the chat of one room: the pages of GET .../messages,    *)
(* walked back by a client with the oldest message of the last page, and   *)
(* the snapshot of the message that a new one replies to.                  *)
(*                                                                         *)
(* A message is <<created_at, id>>: the time at which some server queued   *)
(* it, by that server's clock, and a random UUID, so neither follows the   *)
(* order of the stream.  The stream keeps its entries (see ChatFlush) and  *)
(* the worker stores them at some time, in some order; no code deletes a   *)
(* row or sets isDeleted.                                                  *)
(***************************************************************************)
EXTENDS Integers, Sequences, SequencesExt, FiniteSets

CONSTANTS
    Ids,        \* the UUIDs, by their order: numbers
    Times,      \* the values of created_at: numbers
    Writers,    \* the slots in which messages are sent
    None,       \* no message
    Limit,      \* the page size the client asks for (at most 100)
    ReplyScan,  \* the entries of the stream resolveReplySnapshot looks at
    MaxFaults   \* bound: Redis calls that fail

VARIABLES
    stream,     \* the messages in the room's stream, oldest entry first
    stored,     \* the messages with a row in chat_messages
    writer,     \* writer[w]: the queueMessage in slot w
    walk,       \* the client's walk through the pages
    faults      \* Redis calls that have failed

historyVars == <<stream, stored, writer, walk, faults>>

(* found: the snapshot is not null *)
NoWriter == [pc |-> "idle", target |-> None, found |-> FALSE, failed |-> FALSE]

(* first: the message the client starts from, if it knows one; begin (history): what *)
(* was stored then; repeated (history): a page had a message of an earlier page      *)
NoWalk == [pc |-> "idle", first |-> None, before |-> None, cursor |-> None, begin |-> {},
           shown |-> {}, repeated |-> FALSE]

Init ==
    /\ stream = << >>
    /\ stored = {}
    /\ writer = [w \in Writers |-> NoWriter]
    /\ walk = NoWalk
    /\ faults = 0

-----------------------------------------------------------------------------
(* queueMessage, with and without reply_to_id *)

Queued == ToSet(stream)
Writes(w, step) == writer[w].pc = step

BeginSend(w) ==
    /\ Writes(w, "idle")
    /\ writer' = [writer EXCEPT ![w].pc = "add"]
    /\ UNCHANGED <<stream, stored, walk, faults>>

BeginReply(w, m) ==
    /\ Writes(w, "idle")
    /\ m \in Queued
    /\ writer' = [writer EXCEPT ![w].pc = "scan", ![w].target = m]
    /\ UNCHANGED <<stream, stored, walk, faults>>

(* Mutant: XRANGE instead of XREVRANGE reads the oldest entries *)
OldestEntries == ToSet(SubSeq(stream, 1, IF Len(stream) < ReplyScan THEN Len(stream) ELSE ReplyScan))

(* XREVRANGE + - COUNT 200 *)
LatestEntries ==
    ToSet(SubSeq(stream, IF Len(stream) < ReplyScan THEN 1 ELSE Len(stream) - ReplyScan + 1, Len(stream)))

ScanStream(w) ==
    /\ Writes(w, "scan")
    /\ writer' = IF writer[w].target \in LatestEntries
                   THEN [writer EXCEPT ![w].pc = "add", ![w].found = TRUE]
                   ELSE [writer EXCEPT ![w].pc = "row"]
    /\ UNCHANGED <<stream, stored, walk, faults>>

(* "Stream lookup failure is non-fatal" *)
ScanFails(w) ==
    /\ Writes(w, "scan")
    /\ faults < MaxFaults
    /\ faults' = faults + 1
    /\ writer' = [writer EXCEPT ![w].pc = "row", ![w].failed = TRUE]
    /\ UNCHANGED <<stream, stored, walk>>

(* The fallback to Postgres *)
FindParent(w) ==
    /\ Writes(w, "row")
    /\ writer' = [writer EXCEPT ![w].pc = "add", ![w].found = writer[w].target \in stored]
    /\ UNCHANGED <<stream, stored, walk, faults>>

(* XADD: by then, other messages may have been added *)
AddMessage(w, m) ==
    /\ Writes(w, "add")
    /\ m[2] \notin {x[2] : x \in Queued}
    /\ stream' = Append(stream, m)
    /\ writer' = [writer EXCEPT ![w] = NoWriter]
    /\ UNCHANGED <<stored, walk, faults>>

(* The process ends before XADD *)
Die(w) ==
    /\ ~Writes(w, "idle")
    /\ writer' = [writer EXCEPT ![w] = NoWriter]
    /\ UNCHANGED <<stream, stored, walk, faults>>

(* The flush worker stores a message, see ChatFlush *)
Flush(m) ==
    /\ m \in Queued \ stored
    /\ stored' = stored \cup {m}
    /\ UNCHANGED <<stream, writer, walk, faults>>

-----------------------------------------------------------------------------
(* getHistory *)

(* The order of the pages *)
Older(x, y) == x[1] < y[1] \/ (x[1] = y[1] /\ x[2] < y[2])

(* Mutants of the cursor: the time only, and the cursor's own row again *)
BeforeByTime(x, c) == x[1] < c[1]
BeforeOrSame(x, c) == x[1] < c[1] \/ (x[1] = c[1] /\ x[2] <= c[2])

(* The compound cursor *)
Before(x, c) == x[1] < c[1] \/ (x[1] = c[1] /\ x[2] < c[2])

Newest(messages) ==
    {x \in messages : Cardinality({y \in messages : Older(x, y)}) < Limit}

(* A client starts at the end, or before a message that it has *)
BeginWalk(m) ==
    /\ walk.pc = "idle"
    /\ m \in Queued \cup {None}
    /\ walk' = [NoWalk EXCEPT !.pc = "cursor", !.first = m, !.before = m, !.begin = stored]
    /\ UNCHANGED <<stream, stored, writer, faults>>

(* findOne of the cursor: a message that has no row yet gives the newest page *)
FindCursor ==
    /\ walk.pc = "cursor"
    /\ walk' = [walk EXCEPT !.pc = "page",
                            !.cursor = IF walk.before \in stored THEN walk.before ELSE None]
    /\ UNCHANGED <<stream, stored, writer, faults>>

(* The page; the client goes on before its oldest message, and ends at an empty one *)
ReadPage ==
    LET rows == IF walk.cursor = None THEN stored ELSE {x \in stored : Before(x, walk.cursor)}
        page == Newest(rows) IN
    /\ walk.pc = "page"
    /\ walk' = IF page = {}
                 THEN [walk EXCEPT !.pc = "done", !.cursor = None, !.before = None]
                 ELSE [walk EXCEPT !.pc = "cursor", !.cursor = None,
                          !.shown = @ \cup page,
                          !.repeated = @ \/ page \cap walk.shown # {},
                          !.before = CHOOSE x \in page : \A y \in page : x = y \/ Older(x, y)]
    /\ UNCHANGED <<stream, stored, writer, faults>>

EndWalk ==
    /\ walk.pc = "done"
    /\ walk' = NoWalk
    /\ UNCHANGED <<stream, stored, writer, faults>>

-----------------------------------------------------------------------------
WriterStep(w) ==
    \/ ScanStream(w)
    \/ FindParent(w)
    \/ \E m \in Times \X Ids : AddMessage(w, m)

WalkStep == FindCursor \/ ReadPage

Next ==
    \/ \E w \in Writers :
          \/ BeginSend(w)
          \/ \E m \in Queued : BeginReply(w, m)
          \/ WriterStep(w)
          \/ ScanFails(w)
          \/ Die(w)
    \/ \E m \in Queued : Flush(m)
    \/ \E m \in Queued \cup {None} : BeginWalk(m)
    \/ WalkStep
    \/ EndWalk

Spec == Init /\ [][Next]_historyVars

-----------------------------------------------------------------------------
(* Properties *)

Messages == Times \X Ids

TypeOK ==
    /\ Queued \subseteq Messages /\ Len(stream) = Cardinality(Queued)
    /\ stored \subseteq Queued
    /\ writer \in [Writers -> [pc : {"idle", "scan", "row", "add"}, target : Queued \cup {None},
                               found : BOOLEAN, failed : BOOLEAN]]
    /\ walk.pc \in {"idle", "cursor", "page", "done"}
    /\ walk.before \in Queued \cup {None} /\ walk.cursor \in stored \cup {None}
    /\ walk.begin \cup walk.shown \subseteq stored
    /\ faults \in 0..MaxFaults

(* "prevents skipping messages that share the same createdAt": a walk to the end has  *)
(* shown every message before its first one that was stored when it began, whatever   *)
(* is stored meanwhile.                                                               *)
NothingSkipped ==
    walk.pc = "done" =>
        \A x \in walk.begin : (walk.first = None \/ Older(x, walk.first)) => x \in walk.shown

(* "stable pagination": no page of a walk has a message of an earlier one, also when *)
(* the walk starts from a message that has no row yet.                                *)
NothingRepeated == ~walk.repeated

(* The two together: a walk shows every message once *)
EveryMessageOnce == NothingSkipped /\ NothingRepeated

(* "replies to messages sent in the last <100ms resolve correctly instead of          *)
(* returning null": a reply has no snapshot only if Redis failed or so many messages  *)
(* came after its target that the scan does not reach it.                             *)
ReplyResolves ==
    \A w \in Writers :
        (Writes(w, "add") /\ writer[w].target # None /\ ~writer[w].found)
            => \/ writer[w].failed
               \/ \E k \in DOMAIN stream :
                     stream[k] = writer[w].target /\ Len(stream) - k >= ReplyScan
=============================================================================
