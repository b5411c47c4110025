---------------------------- MODULE StopProgress ----------------------------
(***************************************************************************)
(* A member's progress along the stops of a trip: the rows of              *)
(* user_stop_progress of one user and one trip (StopProgressService).      *)
(*                                                                         *)
(* markComplete is a transaction under READ COMMITTED, which holds a       *)
(* connection of the pool from begin to commit.  It locks the row of the   *)
(* completed stop until the commit, then advances the first pending stop   *)
(* with UPDATE ... WHERE id = (SELECT ...): the SELECT reads a snapshot,   *)
(* and when the UPDATE has waited for the lock of that row it looks only   *)
(* at the id again, not at the status.                                     *)
(***************************************************************************)
EXTENDS Integers, FiniteSets

CONSTANTS
    N,       \* the stops of the trip, numbered by stop_order
    Reqs,    \* the slots in which the user's requests run at once
    None,    \* the holder of a free row lock
    PoolSize \* the connections of the pool

ASSUME StopAssumption ==
    /\ N \in Nat \ {0}
    /\ None \notin Reqs
    /\ PoolSize \in Nat \ {0}

Stops == 1..N

VARIABLES
    row,     \* row[s]: the committed status of stop s, "none" before seeding
    lock,    \* lock[s]: the transaction that has written the row of s
    req      \* req[q]: the markComplete running in slot q

vars == <<row, lock, req>>

(* marks: save has found the status to differ; next: the stop to advance, 0 for *)
(* none; alone: history, no other request overlapped with this one.             *)
Request == [pc : {"idle", "begin", "seed", "find", "locate", "reload", "save", "pick",
                  "advance", "commit"},
            stop : Stops, marks : BOOLEAN, next : 0..N, alone : BOOLEAN]

TypeOK ==
    /\ row \in [Stops -> {"none", "pending", "current", "completed"}]
    /\ lock \in [Stops -> Reqs \cup {None}]
    /\ req \in [Reqs -> Request]

Idle == [pc |-> "idle", stop |-> 1, marks |-> FALSE, next |-> 0, alone |-> TRUE]

Init ==
    /\ row = [s \in Stops |-> "none"]
    /\ lock = [s \in Stops |-> None]
    /\ req = [q \in Reqs |-> Idle]

-----------------------------------------------------------------------------
At(q, step) == req[q].pc = step
Goto(q, step) == req' = [req EXCEPT ![q].pc = step]
Ends(q) == req' = [req EXCEPT ![q] = Idle]

(* The open transactions hold a connection each; any other statement needs a free *)
(* one and waits for it without a timeout.                                        *)
FreeConnection == Cardinality({q \in Reqs : req[q].pc \notin {"idle", "begin"}}) < PoolSize

(* Mutant: the rows are upserted instead of ignored on conflict *)
SeededUpsert == [s \in Stops |-> IF s = 1 THEN "current" ELSE "pending"]

(* ensureRowsExist: INSERT ... ON CONFLICT DO NOTHING of all stops, committed at *)
(* once on a connection of its own                                               *)
Seeded ==
    [s \in Stops |-> IF row[s] # "none" THEN row[s]
                     ELSE IF s = 1 THEN "current" ELSE "pending"]

(* approveJoin and getMyProgress only seed *)
EnsureRowsExist ==
    /\ FreeConnection
    /\ row' = Seeded
    /\ UNCHANGED <<lock, req>>

(* A member sends markComplete for a stop of the trip: any stop, whatever the    *)
(* status of its row; the other checks refuse without an effect.                 *)
Begin(q, s) ==
    /\ At(q, "idle")
    /\ req' = [p \in Reqs |->
                 IF p = q THEN [Idle EXCEPT !.pc = "begin", !.stop = s,
                                  !.alone = \A o \in Reqs \ {q} : At(o, "idle")]
                 ELSE IF At(p, "idle") THEN Idle ELSE [req[p] EXCEPT !.alone = FALSE]]
    /\ UNCHANGED <<row, lock>>

OpenTransaction(q) ==
    /\ At(q, "begin")
    /\ FreeConnection
    /\ Goto(q, "seed")
    /\ UNCHANGED <<row, lock>>

(* "Seed if missing": on a second connection, while the transaction holds its own *)
Seed(q) ==
    /\ At(q, "seed")
    /\ FreeConnection
    /\ row' = Seeded
    /\ Goto(q, "find")
    /\ UNCHANGED lock

(* A completed stop is answered at once; the others are given a location or not *)
FindProgress(q) ==
    /\ At(q, "find")
    /\ IF row[req[q].stop] = "completed" THEN Ends(q)
       ELSE Goto(q, "locate") \/ Goto(q, "reload")
    /\ UNCHANGED <<row, lock>>

(* The UPDATE of completion_location *)
SetLocation(q) ==
    /\ At(q, "locate")
    /\ lock[req[q].stop] = None
    /\ lock' = [lock EXCEPT ![req[q].stop] = q]
    /\ Goto(q, "reload")
    /\ UNCHANGED row

(* save reads the row again: it sets the status if that is not completed by now ... *)
ReloadProgress(q) ==
    /\ At(q, "reload")
    /\ req' = [req EXCEPT ![q].marks = (row[req[q].stop] # "completed"), ![q].pc = "save"]
    /\ UNCHANGED <<row, lock>>

(* ... and UPDATEs the row in any case, as completed_at always differs *)
SaveCompleted(q) ==
    /\ At(q, "save")
    /\ lock[req[q].stop] \in {None, q}
    /\ lock' = [lock EXCEPT ![req[q].stop] = q]
    /\ Goto(q, "pick")
    /\ UNCHANGED row

(* The pending stops as the transaction sees them: committed rows and its own *)
PendingFor(q) == {s \in Stops : row[s] = "pending" /\ s # req[q].stop}

(* Mutant: the next stop is the one after the completed one *)
PickFollowing(q) ==
    /\ At(q, "pick")
    /\ req' = [req EXCEPT ![q].next = req[q].stop + 1, ![q].pc = "advance"]
    /\ UNCHANGED <<row, lock>>

(* Mutant: FOR UPDATE SKIP LOCKED in the SELECT *)
PickUnlocked(q) ==
    /\ At(q, "pick")
    /\ \/ /\ \A s \in PendingFor(q) : lock[s] # None
          /\ Goto(q, "commit")
       \/ \E s \in PendingFor(q) :
             /\ lock[s] = None
             /\ req' = [req EXCEPT ![q].next = s, ![q].pc = "advance"]
    /\ UNCHANGED <<row, lock>>

(* SELECT ... status = 'pending' ORDER BY stop_order LIMIT 1 *)
PickNext(q) ==
    /\ At(q, "pick")
    /\ \/ /\ PendingFor(q) = {}
          /\ Goto(q, "commit")
       \/ \E s \in PendingFor(q) :
             /\ \A t \in PendingFor(q) : s <= t
             /\ req' = [req EXCEPT ![q].next = s, ![q].pc = "advance"]
    /\ UNCHANGED <<row, lock>>

(* ... and the UPDATE of the picked row, once nobody else holds its lock *)
AdvanceNext(q) ==
    /\ At(q, "advance")
    /\ lock[req[q].next] = None
    /\ lock' = [lock EXCEPT ![req[q].next] = q]
    /\ Goto(q, "commit")
    /\ UNCHANGED row

(* Mutant: only the lock of the completed row is released *)
UnlockStop(q) == lock' = [lock EXCEPT ![req[q].stop] = IF @ = q THEN None ELSE @]

Unlock(q) == lock' = [s \in Stops |-> IF lock[s] = q THEN None ELSE lock[s]]

Commit(q) ==
    /\ At(q, "commit")
    /\ row' = [s \in Stops |-> IF s = req[q].stop /\ req[q].marks THEN "completed"
                               ELSE IF s = req[q].next THEN "current" ELSE row[s]]
    /\ Unlock(q)
    /\ Ends(q)

(* The transaction is rolled back: the process died, a call failed, or Postgres  *)
(* chose it as the victim of a deadlock.                                         *)
Abort(q) ==
    /\ ~At(q, "idle")
    /\ Unlock(q)
    /\ Ends(q)
    /\ UNCHANGED row

-----------------------------------------------------------------------------
(* The requests that wait for a row lock, and the one each waits for *)
AwaitedRow(q) == IF At(q, "advance") THEN req[q].next ELSE req[q].stop

Waits(q, p) ==
    /\ req[q].pc \in {"locate", "save", "advance"}
    /\ lock[AwaitedRow(q)] = p
    /\ p # q

(* q is on a cycle of waiting requests *)
Deadlocked(q) ==
    \E C \in SUBSET Reqs :
        /\ q \in C
        /\ \A o \in C : (\E p \in C : Waits(o, p)) /\ (\E p \in C : Waits(p, o))

HandlerStep(q) ==
    \/ OpenTransaction(q)
    \/ Seed(q)
    \/ FindProgress(q)
    \/ SetLocation(q)
    \/ ReloadProgress(q)
    \/ SaveCompleted(q)
    \/ PickNext(q)
    \/ AdvanceNext(q)
    \/ Commit(q)

Next ==
    \/ EnsureRowsExist
    \/ \E q \in Reqs :
          \/ \E s \in Stops : Begin(q, s)
          \/ HandlerStep(q)
          \/ Abort(q)

Spec == Init /\ [][Next]_vars

(* Statements that were issued are executed, lock waiters are served in turn,    *)
(* and Postgres resolves a deadlock by aborting one of its transactions.         *)
Fairness ==
    /\ \A q \in Reqs : SF_vars(HandlerStep(q))
    /\ WF_vars(\E q \in Reqs : Deadlocked(q) /\ Abort(q))

FairSpec == Spec /\ Fairness

-----------------------------------------------------------------------------
(* Properties *)

(* markComplete "advances the next pending stop to current": once the rows are   *)
(* there, a member who has not completed every stop has a current one, whatever  *)
(* completions of theirs overlap, in whatever order they complete the stops and  *)
(* wherever a completion is rolled back.                                         *)
NextStopOffered ==
    (\A s \in Stops : row[s] # "none") =>
       \/ \A s \in Stops : row[s] = "completed"
       \/ \E s \in Stops : row[s] = "current"

(* "pending -> current -> completed": only completions that overlapped can take  *)
(* a completed stop back; a request on its own, and the seeding, never do.       *)
UndoneOnlyByRace ==
    [][(\E s \in Stops : row[s] = "completed" /\ row'[s] # "completed")
          => \E q \in Reqs : ~req[q].alone]_vars

(* "pending -> current -> completed": no completed stop becomes another one again *)
StaysCompleted ==
    [][\A s \in Stops : row[s] = "completed" => row'[s] = "completed"]_vars

(* Two completions may wait for each other's rows (3 then 2 against 2 then 3);   *)
(* every request ends all the same, as long as the pool has one connection more  *)
(* than there are transactions.                                                  *)
EveryCompletionEnds == \A q \in Reqs : ~At(q, "idle") ~> At(q, "idle")
=============================================================================
