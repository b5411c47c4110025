--------------------------- MODULE TripMembership ---------------------------
(***************************************************************************)
(* Who is on a trip: the row of one trip (its status, its stored counter   *)
(* current_participants, its capacity max_participants), the participant   *)
(* rows of its users, and the request handlers that change them            *)
(* (TripsService and ShareLinksService.joinViaLink).                       *)
(*                                                                         *)
(* Handlers run concurrently, one statement at a time, under READ          *)
(* COMMITTED: a read returns the committed row and takes no lock.  An      *)
(* entity is then changed in memory and given to TypeORM's save, which     *)
(* reads the row again, determines the columns in which the entity differs *)
(* from it (also those that only grew stale), and UPDATEs these columns.   *)
(* An UPDATE waits for the row lock and keeps it until the commit.         *)
(*                                                                         *)
(* approveJoin and leaveTrip are transactions, which hold a connection of  *)
(* the pool of the process from begin to commit.  The other handlers       *)
(* commit statement by statement and hold one for the statement, or from   *)
(* the read to the commit of a save, the wait for the row lock included.   *)
(***************************************************************************)
EXTENDS Integers, FiniteSets

CONSTANTS
    Users,      \* the users, the trip's creator included
    Creator,
    Reqs,       \* the slots in which requests about this trip run at once
    None,       \* the holder of a free row lock
    Capacities, \* the values of max_participants the DTO lets through
    Ops,        \* the operations requested
    CrashOps,   \* the operations during which the process may die
    PoolSize    \* the connections of the pool

AllOps == {"approve", "leave", "reject", "request", "link", "cancel", "update"}

ASSUME TripAssumption ==
    /\ IsFiniteSet(Users) /\ IsFiniteSet(Reqs)
    /\ Creator \in Users
    /\ None \notin Reqs
    /\ Capacities \subseteq Nat \ {0, 1}
    /\ Capacities # {}
    /\ Ops \subseteq AllOps
    /\ CrashOps \subseteq Ops
    /\ PoolSize \in Nat \ {0}

VARIABLES
    trip,    \* the committed trip row
    part,    \* part[u]: status in the committed participant row of u
    lockT,   \* the request that holds the lock of the trip row
    lockP,   \* lockP[u]: the request that holds the lock of u's row
    req      \* req[q]: the state of the handler running in slot q

vars == <<trip, part, lockT, lockP, req>>

TripRow    == [status : {"pending", "cancelled"}, cur : Nat, max : Capacities]
PartStatus == {"none", "pending", "approved", "rejected", "left"}
Columns    == {"status", "cur", "max"}

Steps == {"idle", "findTrip", "findPart", "reloadPart", "writePart",
          "insertPart", "reloadTrip", "writeTrip", "increment", "incrementing", "seed", "commit"}

(* op, u: the operation and the user whose membership it is about;            *)
(* trip, part: the entities in memory; after: what follows the write of the   *)
(* participant; dirtyP, dirtyT: what save found to differ when it re-read.    *)
Handler == [op : AllOps, u : Users, pc : Steps, trip : TripRow,
            part : PartStatus, after : Steps, dirtyP : BOOLEAN,
            dirtyT : SUBSET Columns]

TypeOK ==
    /\ trip \in TripRow
    /\ part \in [Users -> PartStatus]
    /\ lockT \in Reqs \cup {None}
    /\ lockP \in [Users -> Reqs \cup {None}]
    /\ req \in [Reqs -> Handler]

(* A slot without a request; its entities have no meaning *)
Idle == [op |-> "cancel", u |-> Creator, pc |-> "idle",
         trip |-> [status |-> "pending", cur |-> 0,
                   max |-> CHOOSE m \in Capacities : TRUE],
         part |-> "none", after |-> "idle", dirtyP |-> FALSE, dirtyT |-> {}]

(* create: the trip, its stops and the creator's row, in one transaction *)
Init ==
    /\ trip \in [status : {"pending"}, cur : {1}, max : Capacities]
    /\ part = [u \in Users |-> IF u = Creator THEN "approved" ELSE "none"]
    /\ lockT = None
    /\ lockP = [u \in Users |-> None]
    /\ req = [q \in Reqs |-> Idle]

-----------------------------------------------------------------------------
InTransaction(h) == h.op \in {"approve", "leave"}

(* A transaction has a connection, and so has a save that has read the row or  *)
(* an UPDATE that was sent.  Any other statement, or the begin of a            *)
(* transaction, needs a free one and waits for it without a timeout.           *)
HoldsConnection(q) ==
    \/ InTransaction(req[q]) /\ req[q].pc \notin {"idle", "findTrip"}
    \/ req[q].pc \in {"writePart", "writeTrip", "incrementing"}

FreeConnection == Cardinality({q \in Reqs : HoldsConnection(q)}) < PoolSize

Connected(q) == HoldsConnection(q) \/ FreeConnection

Goto(q, h, step) == req' = [req EXCEPT ![q] = [h EXCEPT !.pc = step]]

(* The handler returns or throws *)
Ends(q) == req' = [req EXCEPT ![q] = Idle]

(* A client sends a request.  u is the caller of leave, request and link, and  *)
(* the user an admin decides about in approve and reject; the other            *)
(* operations take none.  Requests of anyone else are refused by the admin     *)
(* check (assertAdmin, NOT_TRIP_ADMIN) without an effect and are left out.     *)
Begin(q, op, u) ==
    /\ req[q].pc = "idle"
    /\ op \in {"cancel", "update"} => u = Creator
    /\ req' = [req EXCEPT ![q] = [Idle EXCEPT !.op = op, !.u = u, !.pc = "findTrip"]]
    /\ UNCHANGED <<trip, part, lockT, lockP>>

(* Mutant: the capacity check is off by one *)
HasSeatOffByOne(t) == t.cur <= t.max

(* The negation of TRIP_FULL *)
HasSeat(t) == t.cur < t.max

(* What a handler does once it has read the trip t and the participant row of u  *)
(* with status p: the participant entity and the trip entity as it is going to   *)
(* save them, and what follows the write of the participant.  No plan: it        *)
(* throws, or returns at once, without an effect.                                *)
Write(new, t, next) == [part |-> new, trip |-> t, after |-> next]

(* Mutant: REQUEST_NOT_PENDING is forgotten *)
ApproveJoinAnyone(u, t, p) ==
    IF p \notin {"none", "approved"} /\ HasSeat(t)
    THEN {Write("approved", [t EXCEPT !.cur = @ + 1], "reloadTrip")} ELSE {}

(* approveJoin: idempotent on approved; the counter of the entity goes up *)
ApproveJoin(u, t, p) ==
    IF p = "pending" /\ HasSeat(t)
    THEN {Write("approved", [t EXCEPT !.cur = @ + 1], "reloadTrip")} ELSE {}

RejectJoin(u, t, p) ==
    IF p = "pending" THEN {Write("rejected", t, "idle")} ELSE {}

(* leaveTrip: Math.max(0, current_participants - 1) if they were approved *)
LeaveTrip(u, t, p) ==
    IF u = Creator \/ p \in {"none", "left"} THEN {}
    ELSE IF p = "approved"
         THEN {Write("left", [t EXCEPT !.cur = IF @ = 0 THEN 0 ELSE @ - 1], "reloadTrip")}
         ELSE {Write("left", t, "commit")}

Joinable(u, t, p) ==
    /\ u # Creator
    /\ t.status = "pending"
    /\ HasSeat(t)
    /\ p \in {"none", "rejected", "left"}

RequestJoin(u, t, p) ==
    IF Joinable(u, t, p) THEN {Write("pending", t, "idle")} ELSE {}

(* Mutant: an auto-join through a link is not counted *)
JoinViaLinkUncounted(u, t, p) ==
    IF Joinable(u, t, p)
    THEN {Write("pending", t, "idle"), Write("approved", t, "idle")} ELSE {}

(* joinViaLink: approved at once if the link is auto-join and the trip is free,  *)
(* both of which the creator may change at any time; else a pending request      *)
JoinViaLink(u, t, p) ==
    IF Joinable(u, t, p)
    THEN {Write("pending", t, "idle"), Write("approved", t, "increment")} ELSE {}

Plans(op, u, t, p) ==
    CASE op = "approve" -> ApproveJoin(u, t, p)
      [] op = "reject"  -> RejectJoin(u, t, p)
      [] op = "leave"   -> LeaveTrip(u, t, p)
      [] op = "request" -> RequestJoin(u, t, p)
      [] op = "link"    -> JoinViaLink(u, t, p)
      [] OTHER          -> {}

(* Mutant: the creator's seat is taken off the capacity *)
UpdateTripWithoutCreator(t) ==
    IF t.status = "pending" THEN {[t EXCEPT !.max = m - 1] : m \in Capacities} ELSE {}

(* Mutant: an edit opens the trip again *)
UpdateTripReopens(t) == {[t EXCEPT !.max = m, !.status = "pending"] : m \in Capacities}

(* update: pending trips only; max_participants comes from the DTO without a     *)
(* look at the counter.  (The 6h edit window only refuses more.)                 *)
UpdateTrip(t) ==
    IF t.status = "pending" THEN {[t EXCEPT !.max = m] : m \in Capacities} ELSE {}

(* cancel: any trip that is not completed, a status no code sets *)
CancelTrip(t) == {[t EXCEPT !.status = "cancelled"]}

-----------------------------------------------------------------------------
(* The first read: the trip.  cancel and update change it and save. *)
FindTrip(q) ==
    LET h == req[q]
        new == IF h.op = "cancel" THEN CancelTrip(trip) ELSE UpdateTrip(trip) IN
    /\ h.pc = "findTrip"
    /\ Connected(q)
    /\ IF h.op \notin {"cancel", "update"}
       THEN Goto(q, [h EXCEPT !.trip = trip], "findPart")
       ELSE \/ /\ new = {}
               /\ Ends(q)
            \/ \E t \in new : Goto(q, [h EXCEPT !.trip = t], "reloadTrip")
    /\ UNCHANGED <<trip, part, lockT, lockP>>

(* The second read: the participant row, and the decision *)
FindParticipant(q) ==
    LET h == req[q]
        plans == Plans(h.op, h.u, h.trip, part[h.u]) IN
    /\ h.pc = "findPart"
    /\ Connected(q)
    /\ \/ /\ plans = {}
          /\ Ends(q)
       \/ \E w \in plans :
             Goto(q, [h EXCEPT !.part = w.part, !.trip = w.trip, !.after = w.after],
                  IF part[h.u] = "none" THEN "insertPart" ELSE "reloadPart")
    /\ UNCHANGED <<trip, part, lockT, lockP>>

-----------------------------------------------------------------------------
(* save of the participant entity: the row is read again ... *)
ReloadParticipant(q) ==
    LET h == req[q] IN
    /\ h.pc = "reloadPart"
    /\ Connected(q)
    /\ Goto(q, [h EXCEPT !.dirtyP = (h.part # part[h.u])], "writePart")
    /\ UNCHANGED <<trip, part, lockT, lockP>>

(* ... and UPDATEd: outside a transaction the change is committed at once, in  *)
(* one it stays with the handler, which keeps the row lock.  The timestamps    *)
(* the handlers set make the UPDATE happen even when the status is the same.   *)
WriteParticipant(q) ==
    LET h == req[q] IN
    /\ h.pc = "writePart"
    /\ lockP[h.u] = None
    /\ IF InTransaction(h)
       THEN /\ lockP' = [lockP EXCEPT ![h.u] = q]
            /\ UNCHANGED part
       ELSE /\ part' = IF h.dirtyP THEN [part EXCEPT ![h.u] = h.part] ELSE part
            /\ UNCHANGED lockP
    /\ IF h.after = "idle" THEN Ends(q) ELSE Goto(q, h, h.after)
    /\ UNCHANGED <<trip, lockT>>

(* INSERT of a new participant: UNIQUE(trip_id, user_id) rejects a second one *)
InsertParticipant(q) ==
    LET h == req[q] IN
    /\ h.pc = "insertPart"
    /\ Connected(q)
    /\ IF part[h.u] = "none"
       THEN /\ part' = [part EXCEPT ![h.u] = h.part]
            /\ IF h.after = "idle" THEN Ends(q) ELSE Goto(q, h, h.after)
       ELSE Ends(q) /\ UNCHANGED part
    /\ UNCHANGED <<trip, lockT, lockP>>

(* The columns in which an entity differs from its row *)
Differing(e, t) ==
    {c \in Columns : \/ c = "status" /\ e.status # t.status
                     \/ c = "cur" /\ e.cur # t.cur
                     \/ c = "max" /\ e.max # t.max}

(* save of the trip entity: the row is read again and compared ... *)
ReloadTrip(q) ==
    LET h == req[q] IN
    /\ h.pc = "reloadTrip"
    /\ Connected(q)
    /\ Goto(q, [h EXCEPT !.dirtyT = Differing(h.trip, trip)], "writeTrip")
    /\ UNCHANGED <<trip, part, lockT, lockP>>

(* The row after an UPDATE of the columns d to their values in the entity e *)
Updated(t, e, d) ==
    [status |-> IF "status" \in d THEN e.status ELSE t.status,
     cur    |-> IF "cur" \in d THEN e.cur ELSE t.cur,
     max    |-> IF "max" \in d THEN e.max ELSE t.max]

(* ... and the columns that differ, if any, are UPDATEd *)
WriteTrip(q) ==
    LET h == req[q] IN
    /\ h.pc = "writeTrip"
    /\ h.dirtyT # {} => lockT = None
    /\ IF InTransaction(h)
       THEN /\ lockT' = IF h.dirtyT # {} THEN q ELSE lockT
            /\ UNCHANGED trip
            /\ Goto(q, h, IF h.op = "approve" THEN "seed" ELSE "commit")
       ELSE /\ trip' = Updated(trip, h.trip, h.dirtyT)
            /\ UNCHANGED lockT
            /\ Ends(q)
    /\ UNCHANGED <<part, lockP>>

(* joinViaLink: UPDATE trips SET current_participants = current_participants + 1 *)
(* is sent ...                                                                   *)
SendIncrement(q) ==
    /\ req[q].pc = "increment"
    /\ Connected(q)
    /\ Goto(q, req[q], "incrementing")
    /\ UNCHANGED <<trip, part, lockT, lockP>>

(* ... and executed *)
Increment(q) ==
    /\ req[q].pc = "incrementing"
    /\ lockT = None
    /\ trip' = [trip EXCEPT !.cur = @ + 1]
    /\ Ends(q)
    /\ UNCHANGED <<part, lockT, lockP>>

(* approveJoin: ensureRowsExist seeds the progress rows (see StopProgress) on a  *)
(* second connection, while the transaction holds its own.  A failure of it is   *)
(* caught and forgotten.                                                         *)
Seed(q) ==
    LET h == req[q] IN
    /\ h.pc = "seed"
    /\ FreeConnection
    /\ Goto(q, h, "commit")
    /\ UNCHANGED <<trip, part, lockT, lockP>>

(* Mutant: the connection is returned without ending the transaction *)
UnlockNothing(q) == UNCHANGED <<lockT, lockP>>

(* The row locks of a transaction go with its end *)
Unlock(q) ==
    /\ lockT' = IF lockT = q THEN None ELSE lockT
    /\ lockP' = [u \in Users |-> IF lockP[u] = q THEN None ELSE lockP[u]]

Commit(q) ==
    LET h == req[q] IN
    /\ h.pc = "commit"
    /\ part' = IF h.dirtyP THEN [part EXCEPT ![h.u] = h.part] ELSE part
    /\ trip' = Updated(trip, h.trip, h.dirtyT)
    /\ Unlock(q)
    /\ Ends(q)

(* The process dies: an open transaction is rolled back, statements that were  *)
(* committed one by one stay.                                                  *)
Crash(q) ==
    /\ req[q].pc # "idle"
    /\ req[q].op \in CrashOps
    /\ Unlock(q)
    /\ Ends(q)
    /\ UNCHANGED <<trip, part>>

HandlerStep(q) ==
    \/ FindTrip(q)
    \/ FindParticipant(q)
    \/ ReloadParticipant(q)
    \/ WriteParticipant(q)
    \/ InsertParticipant(q)
    \/ ReloadTrip(q)
    \/ WriteTrip(q)
    \/ SendIncrement(q)
    \/ Increment(q)
    \/ Seed(q)
    \/ Commit(q)

Next ==
    \E q \in Reqs :
       \/ \E op \in Ops, u \in Users : Begin(q, op, u)
       \/ HandlerStep(q)
       \/ Crash(q)

Spec == Init /\ [][Next]_vars

(* A statement that was issued is executed, and Postgres serves the waiters    *)
(* for a row lock in turn, so a handler that can proceed again and again does. *)
Fairness == \A q \in Reqs : SF_vars(HandlerStep(q))

FairSpec == Spec /\ Fairness

-----------------------------------------------------------------------------
(* Properties *)

Approved == {u \in Users : part[u] = "approved"}

(* "trip full (current_participants >= max) -> 409": nobody is approved on a   *)
(* trip that already has max_participants approved participants.               *)
AdmitsOnlyBelowMax ==
    [][Cardinality(Approved') > Cardinality(Approved)
         => Cardinality(Approved) < trip.max]_vars

(* The rows as a TripRoster; the counter and the handlers do not show in it *)
Roster == INSTANCE TripRoster WITH
    Members  <- Users,
    Sizes    <- Capacities,
    standing <- part,
    open     <- trip.status = "pending",
    seats    <- trip.max

(* Refinement: with one request at a time, the handlers' statements, their stored  *)
(* counter, saves and crashes amount to what TripRoster does at once: no answer to *)
(* a request that was not asked, no seat given twice, no edit of a cancelled trip. *)
ImplementsRoster == Roster!Spec

(* Handlers take the participant lock before the trip lock, so no two wait for  *)
(* each other; and an approval that waits for its second connection holds up    *)
(* nobody for ever: every request is answered.                                 *)
EveryRequestEnds == \A q \in Reqs : (req[q].pc # "idle") ~> (req[q].pc = "idle")
=============================================================================
