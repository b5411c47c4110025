------------------------ MODULE TripMembershipProofs ------------------------
(***************************************************************************)
(* Proofs about TripRaces, for any users, capacities, crashes and any      *)
(* number of requests at once: only who has missed a cancel or a           *)
(* withdrawal undoes it, the counter counts until a save overtakes a       *)
(* change, and the other interleavings implement TripRoster.               *)
(***************************************************************************)
EXTENDS TripRaces, FiniteSetTheorems, TLAPS

(* What a request that has loaded the rows knows: what it has not missed is as it *)
(* has loaded it.                                                                 *)
KnowsTrip(q, t) ==
    /\ "status" \in missed[q] \/ t.status = trip.status
    /\ "cur" \in missed[q] \/ t.cur = trip.cur
    /\ "max" \in missed[q] \/ t.max = trip.max

KnowsRow(q, p) == "row" \in missed[q] \/ p = part[req[q].u]

Edits == {"cancel", "update"}
Edited(op, t) == IF op = "cancel" THEN CancelTrip(t) ELSE UpdateTrip(t)

(* A cancel or update is going to save what it makes of the trip it has loaded; ... *)
EditInv(q) ==
    LET h == req[q] IN
    h.op \in Edits /\ HasTrip(q) =>
       /\ h.pc \in {"reloadTrip", "writeTrip"}
       /\ \E t \in TripRow : KnowsTrip(q, t) /\ h.trip \in Edited(h.op, t)

(* ... any other request what it has planned on the rows it has loaded. *)
PlanInv(q) ==
    LET h == req[q] IN
    h.op \notin Edits /\ HasTrip(q) =>
       /\ h.pc = "findPart" => KnowsTrip(q, h.trip)
       /\ h.pc # "findPart" =>
             \E t \in TripRow, p \in PartStatus :
                /\ KnowsTrip(q, t) /\ KnowsRow(q, p)
                /\ Write(h.part, h.trip, h.after) \in Plans(h.op, h.u, t, p)
                /\ h.pc = "insertPart" => p = "none"

(* Which request is where, and what its saves have found to differ *)
SavesTripLater(h) == h.op \in Edits \/ h.after = "reloadTrip"

DirtyInv(q) ==
    LET h == req[q] IN
    /\ h.pc \in {"reloadTrip", "writeTrip", "seed"} => SavesTripLater(h)
    /\ h.pc = "seed" => h.op = "approve"
    /\ h.pc = "commit" => h.op \in {"approve", "leave"}
    /\ h.pc \in {"increment", "incrementing"} => h.op = "link"
    /\ h.op \notin Edits /\ h.pc \in {"writePart", "reloadTrip", "writeTrip", "seed", "commit"}
          => "row" \in missed[q] \/ h.dirtyP
    /\ h.pc \notin {"writeTrip", "seed", "commit"} => h.dirtyT = {}
    /\ h.pc = "commit" /\ ~SavesTripLater(h) => h.dirtyT = {}
    /\ h.pc \in {"writeTrip", "seed", "commit"} /\ SavesTripLater(h) =>
          /\ "status" \in missed[q] \/ ("status" \in h.dirtyT <=> h.trip.status # trip.status)
          /\ "cur" \in missed[q] \/ ("cur" \in h.dirtyT <=> h.trip.cur # trip.cur)
          /\ "max" \in missed[q] \/ ("max" \in h.dirtyT <=> h.trip.max # trip.max)

RaceInv(q) == EditInv(q) /\ PlanInv(q) /\ DirtyInv(q)

RacesInv == TypeOK /\ (\A q \in Reqs : RaceInv(q)) /\ CountHolds

USE TripAssumption

-----------------------------------------------------------------------------
(* The blank handler is a handler. *)
LEMMA IdleType == Idle \in Handler
<1>1. (CHOOSE m \in Capacities : TRUE) \in Capacities
  OBVIOUS
<1> QED
  BY <1>1 DEF Idle, Handler, TripRow, AllOps, PartStatus, Steps, Columns

(* An UPDATE of some columns of a row to the values of an entity yields a row. *)
LEMMA UpdatedType ==
    ASSUME NEW t \in TripRow, NEW e \in TripRow, NEW d
    PROVE  Updated(t, e, d) \in TripRow
  BY DEF Updated, TripRow

(* Whatever a handler plans to write is an entity of its type. *)
LEMMA PlansType ==
    ASSUME NEW op, NEW u, NEW t \in TripRow, NEW p \in PartStatus,
           NEW w \in Plans(op, u, t, p)
    PROVE  w.part \in PartStatus /\ w.trip \in TripRow /\ w.after \in Steps
<1>1. CASE w \in ApproveJoin(u, t, p)
  BY <1>1 DEF ApproveJoin, Write, PartStatus, TripRow, Steps
<1>2. CASE w \in RejectJoin(u, t, p)
  BY <1>2 DEF RejectJoin, Write, PartStatus, Steps
<1>3. CASE w \in LeaveTrip(u, t, p)
  BY <1>3 DEF LeaveTrip, Write, PartStatus, TripRow, Steps
<1>4. CASE w \in RequestJoin(u, t, p)
  BY <1>4 DEF RequestJoin, Write, PartStatus, Steps
<1>5. CASE w \in JoinViaLink(u, t, p)
  BY <1>5 DEF JoinViaLink, Write, PartStatus, Steps
<1> QED
  BY <1>1, <1>2, <1>3, <1>4, <1>5 DEF Plans

(* Every step of a handler keeps the variables in their types. *)
LEMMA TypeStep == TypeOK /\ [Next]_vars => TypeOK'
<1> SUFFICES ASSUME TypeOK, [Next]_vars PROVE TypeOK'
  OBVIOUS
<1>u. ASSUME NEW q \in Reqs, Unlock(q)
      PROVE  lockT' \in Reqs \cup {None} /\ lockP' \in [Users -> Reqs \cup {None}]
  BY <1>u DEF Unlock, TypeOK
<1>e. ASSUME NEW q \in Reqs, Ends(q) PROVE req' \in [Reqs -> Handler]
  BY <1>e, IdleType DEF Ends, TypeOK
<1>g. ASSUME NEW q \in Reqs, NEW h \in Handler, NEW step \in Steps, Goto(q, h, step)
      PROVE  req' \in [Reqs -> Handler]
  <2>1. [h EXCEPT !.pc = step] \in Handler
    BY DEF Handler
  <2> QED
    BY <1>g, <2>1 DEF Goto, TypeOK
<1>1. ASSUME NEW q \in Reqs, NEW op \in Ops, NEW u \in Users, Begin(q, op, u)
      PROVE  TypeOK'
  <2>1. [Idle EXCEPT !.op = op, !.u = u, !.pc = "findTrip"] \in Handler
    BY IdleType DEF Handler, Steps
  <2> QED
    BY <1>1, <2>1 DEF Begin, TypeOK
<1>2. ASSUME NEW q \in Reqs, FindTrip(q) PROVE TypeOK'
  <2>1. trip \in TripRow /\ CancelTrip(trip) \subseteq TripRow /\ UpdateTrip(trip) \subseteq TripRow
    BY DEF CancelTrip, UpdateTrip, TypeOK, TripRow
  <2>2. \A t \in TripRow : [req[q] EXCEPT !.trip = t] \in Handler
    BY DEF TypeOK, Handler
  <2>3. req' \in [Reqs -> Handler]
    BY <1>2, <1>e, <1>g, <2>1, <2>2 DEF FindTrip, Steps
  <2> QED
    BY <1>2, <2>3 DEF FindTrip, TypeOK
<1>3. ASSUME NEW q \in Reqs, FindParticipant(q) PROVE TypeOK'
  <2> DEFINE h == req[q]
             p == part[h.u]
  <2>1. h \in Handler /\ h.trip \in TripRow /\ p \in PartStatus
    BY DEF TypeOK, Handler
  <2>2. ASSUME NEW w \in Plans(h.op, h.u, h.trip, p)
        PROVE  [h EXCEPT !.part = w.part, !.trip = w.trip, !.after = w.after] \in Handler
    BY <2>1, PlansType DEF Handler
  <2>3. req' \in [Reqs -> Handler]
    BY <1>3, <1>e, <1>g, <2>2 DEF FindParticipant, Steps
  <2> QED
    BY <1>3, <2>3 DEF FindParticipant, TypeOK
<1>4. ASSUME NEW q \in Reqs, ReloadParticipant(q) PROVE TypeOK'
  <2>1. ASSUME NEW h \in Handler, NEW b \in BOOLEAN PROVE [h EXCEPT !.dirtyP = b] \in Handler
    BY DEF Handler
  <2>2. [req[q] EXCEPT !.dirtyP = (req[q].part # part[req[q].u])] \in Handler
    BY <2>1 DEF TypeOK
  <2> QED
    BY <1>4, <1>g, <2>2 DEF ReloadParticipant, TypeOK, Steps
<1>5. ASSUME NEW q \in Reqs, WriteParticipant(q) PROVE TypeOK'
  <2>1. req[q] \in Handler /\ req[q].after \in Steps
    BY DEF TypeOK, Handler
  <2>2. req' \in [Reqs -> Handler]
    BY <1>5, <1>e, <1>g, <2>1 DEF WriteParticipant
  <2> QED
    BY <1>5, <2>1, <2>2 DEF WriteParticipant, TypeOK, Handler
<1>6. ASSUME NEW q \in Reqs, InsertParticipant(q) PROVE TypeOK'
  <2>1. req[q] \in Handler /\ req[q].after \in Steps
    BY DEF TypeOK, Handler
  <2>2. req' \in [Reqs -> Handler]
    BY <1>6, <1>e, <1>g, <2>1 DEF InsertParticipant
  <2> QED
    BY <1>6, <2>1, <2>2 DEF InsertParticipant, TypeOK, Handler
<1>7. ASSUME NEW q \in Reqs, ReloadTrip(q) PROVE TypeOK'
  <2>1. [req[q] EXCEPT !.dirtyT = Differing(req[q].trip, trip)] \in Handler
    BY DEF TypeOK, Handler, Differing
  <2> QED
    BY <1>7, <1>g, <2>1 DEF ReloadTrip, TypeOK, Steps
<1>8. ASSUME NEW q \in Reqs, WriteTrip(q) PROVE TypeOK'
  <2>1. req[q] \in Handler /\ req[q].trip \in TripRow
    BY DEF TypeOK, Handler
  <2>2. req' \in [Reqs -> Handler]
    BY <1>8, <1>e, <1>g, <2>1 DEF WriteTrip, Steps
  <2> QED
    BY <1>8, <2>1, <2>2, UpdatedType DEF WriteTrip, TypeOK
<1>9. ASSUME NEW q \in Reqs, Increment(q) PROVE TypeOK'
  BY <1>9, <1>e DEF Increment, TypeOK, TripRow
<1>14. ASSUME NEW q \in Reqs, SendIncrement(q) PROVE TypeOK'
  <2>1. req[q] \in Handler
    BY DEF TypeOK
  <2> QED
    BY <1>14, <1>g, <2>1 DEF SendIncrement, TypeOK, Steps
<1>13. ASSUME NEW q \in Reqs, Seed(q) PROVE TypeOK'
  <2>1. req[q] \in Handler
    BY DEF TypeOK
  <2> QED
    BY <1>13, <1>g, <2>1 DEF Seed, TypeOK, Steps
<1>10. ASSUME NEW q \in Reqs, Commit(q) PROVE TypeOK'
  <2>1. req[q] \in Handler /\ req[q].trip \in TripRow /\ req[q].part \in PartStatus
    BY DEF TypeOK, Handler
  <2> QED
    BY <1>10, <1>e, <1>u, <2>1, UpdatedType DEF Commit, TypeOK
<1>11. ASSUME NEW q \in Reqs, Crash(q) PROVE TypeOK'
  BY <1>11, <1>e, <1>u DEF Crash, TypeOK
<1>12. CASE UNCHANGED vars
  BY <1>12 DEF vars, TypeOK
<1> QED
  BY <1>1, <1>2, <1>3, <1>4, <1>5, <1>6, <1>7, <1>8, <1>9, <1>10, <1>11, <1>12,
     <1>13, <1>14 DEF Next, HandlerStep

(* The rows, the locks and the handlers keep their types, however many         *)
(* requests about the trip are handled at once and wherever they crash.        *)
THEOREM TypeCorrect == Spec => []TypeOK
<1>1. Init => TypeOK
  BY IdleType DEF Init, TypeOK, TripRow, PartStatus
<1> QED
  BY <1>1, TypeStep, PTL DEF Spec

-----------------------------------------------------------------------------
(* How the number of approved participants follows one participant row *)
LEMMA ApprovedCount ==
    ASSUME TypeOK, NEW u \in Users, NEW st \in PartStatus,
           part' = [part EXCEPT ![u] = st]
    PROVE  /\ Cardinality(Approved) \in Nat
           /\ part[u] # "approved" /\ st = "approved" =>
                 Cardinality(Approved') = Cardinality(Approved) + 1
           /\ part[u] = "approved" /\ st # "approved" =>
                 /\ Cardinality(Approved') = Cardinality(Approved) - 1
                 /\ Cardinality(Approved) > 0
           /\ (part[u] = "approved" <=> st = "approved") => Approved' = Approved
<1>1. IsFiniteSet(Approved)
  BY FS_Subset DEF Approved
<1>2. Cardinality(Approved) \in Nat
  BY <1>1, FS_CardinalityType
<1>3. ASSUME part[u] # "approved", st = "approved"
      PROVE  Cardinality(Approved') = Cardinality(Approved) + 1
  <2>1. Approved' = Approved \cup {u} /\ u \notin Approved
    BY <1>3 DEF Approved, TypeOK
  <2> QED
    BY <1>1, <2>1, FS_AddElement
<1>4. ASSUME part[u] = "approved", st # "approved"
      PROVE  /\ Cardinality(Approved') = Cardinality(Approved) - 1
             /\ Cardinality(Approved) > 0
  <2>1. Approved' = Approved \ {u} /\ u \in Approved
    BY <1>4 DEF Approved, TypeOK
  <2>2. Cardinality(Approved') = Cardinality(Approved) - 1
    BY <1>1, <2>1, FS_RemoveElement
  <2>3. Approved # {} 
    BY <2>1
  <2>4. Cardinality(Approved) # 0
    BY <1>1, <2>3, FS_EmptySet
  <2> QED
    BY <1>2, <2>2, <2>4
<1>5. ASSUME part[u] = "approved" <=> st = "approved" PROVE Approved' = Approved
  BY <1>5 DEF Approved, TypeOK
<1> QED
  BY <1>2, <1>3, <1>4, <1>5

-----------------------------------------------------------------------------
(* What a handler plans is what it writes. *)
LEMMA PlansWrite ==
    ASSUME NEW op, NEW u, NEW t, NEW p, NEW w \in Plans(op, u, t, p)
    PROVE  w = Write(w.part, w.trip, w.after)
  BY DEF Plans, ApproveJoin, RejectJoin, LeaveTrip, RequestJoin, JoinViaLink, Write

(* What the handlers plan, by the rows they have loaded *)
LEMMA PlanFacts ==
    ASSUME NEW op, NEW u, NEW t \in TripRow, NEW p \in PartStatus,
           NEW a, NEW b, NEW c, Write(a, b, c) \in Plans(op, u, t, p)
    PROVE  /\ b.status = t.status /\ b.max = t.max /\ a # p
           /\ \/ /\ op = "approve" /\ p = "pending" /\ a = "approved" /\ c = "reloadTrip"
                 /\ t.cur < t.max /\ b.cur = t.cur + 1
              \/ /\ op = "leave" /\ u # Creator /\ p = "approved" /\ a = "left" /\ c = "reloadTrip"
                 /\ b.cur = IF t.cur = 0 THEN 0 ELSE t.cur - 1
              \/ /\ op = "leave" /\ u # Creator /\ p \in {"pending", "rejected"} /\ a = "left"
                 /\ c = "commit"
              \/ op = "reject" /\ p = "pending" /\ a = "rejected" /\ c = "idle"
              \/ op \in {"request", "link"} /\ Joinable(u, t, p) /\ a = "pending" /\ c = "idle"
              \/ op = "link" /\ Joinable(u, t, p) /\ a = "approved" /\ c = "increment"
<1>w. \A x, y, z : Write(a, b, c) = Write(x, y, z) => a = x /\ b = y /\ c = z
  BY DEF Write
<1>1. CASE op = "approve"
  BY <1>1, <1>w DEF Plans, ApproveJoin, HasSeat, TripRow
<1>2. CASE op = "reject"
  BY <1>2, <1>w DEF Plans, RejectJoin
<1>3. CASE op = "leave"
  <2>1. CASE p = "approved"
    BY <1>3, <1>w, <2>1 DEF Plans, LeaveTrip, TripRow
  <2>2. CASE p # "approved"
    BY <1>3, <1>w, <2>2 DEF Plans, LeaveTrip, PartStatus
  <2> QED
    BY <2>1, <2>2
<1>4. CASE op = "request"
  BY <1>4, <1>w DEF Plans, RequestJoin, Joinable
<1>5. CASE op = "link"
  BY <1>5, <1>w DEF Plans, JoinViaLink, Joinable
<1> QED
  BY <1>1, <1>2, <1>3, <1>4, <1>5 DEF Plans

(* The trips that cancel and update save *)
LEMMA EditFacts ==
    ASSUME NEW op \in Edits, NEW t \in TripRow, NEW b \in Edited(op, t)
    PROVE  /\ b \in TripRow /\ b.cur = t.cur
           /\ op = "cancel" => b.status = "cancelled" /\ b.max = t.max
           /\ op = "update" => b.status = "pending" /\ t.status = "pending" /\ b.max \in Capacities
  BY DEF Edits, Edited, CancelTrip, UpdateTrip, TripRow

-----------------------------------------------------------------------------
(* A request that goes on keeps what it knows. *)
LEMMA KnowsOn ==
    ASSUME TypeOK, TypeOK', Races, NEW q \in Reqs, HasTrip(q), req'[q].pc # "idle"
    PROVE  /\ missed[q] \subseteq missed'[q]
           /\ "status" \in missed'[q] \/ trip'.status = trip.status
           /\ "cur" \in missed'[q] \/ trip'.cur = trip.cur
           /\ "max" \in missed'[q] \/ trip'.max = trip.max
           /\ HasParticipant(q) => "row" \in missed'[q] \/ part'[req[q].u] = part[req[q].u]
<1>1. missed'[q] = missed[q] \cup Changes(q)
  BY DEF Races
<1> QED
  BY <1>1 DEF Changes, Differing, Columns

LEMMA KnowsTripOn ==
    ASSUME TypeOK, TypeOK', Races, NEW q \in Reqs, HasTrip(q), req'[q].pc # "idle",
           NEW t, KnowsTrip(q, t)
    PROVE  KnowsTrip(q, t)'
<1>1. /\ "status" \in missed'[q] \/ t.status = trip'.status
      /\ "cur" \in missed'[q] \/ t.cur = trip'.cur
      /\ "max" \in missed'[q] \/ t.max = trip'.max
  BY KnowsOn DEF KnowsTrip
<1> QED
  BY <1>1 DEF KnowsTrip

LEMMA KnowsRowOn ==
    ASSUME TypeOK, TypeOK', Races, NEW q \in Reqs, HasParticipant(q), req'[q].pc # "idle",
           req'[q].u = req[q].u, NEW p, KnowsRow(q, p)
    PROVE  KnowsRow(q, p)'
<1>1. HasTrip(q)
  BY DEF HasParticipant
<1>2. "row" \in missed'[q] \/ p = part'[req[q].u]
  BY <1>1, KnowsOn DEF KnowsRow
<1> QED
  BY <1>2 DEF KnowsRow

(* A slot without a request knows nothing. *)
LEMMA IdleRace ==
    ASSUME NEW q \in Reqs, req'[q] = Idle
    PROVE  RaceInv(q)'
  BY DEF Idle, RaceInv, EditInv, PlanInv, DirtyInv, HasTrip

(* A request with a plan goes on with it. *)
LEMMA PlanOn ==
    ASSUME TypeOK, TypeOK', Races, NEW q \in Reqs, PlanInv(q), HasParticipant(q),
           req'[q].op = req[q].op, req'[q].u = req[q].u, req'[q].part = req[q].part,
           req'[q].trip = req[q].trip, req'[q].after = req[q].after,
           req'[q].pc \notin {"idle", "findTrip", "findPart"},
           req'[q].pc = "insertPart" => req[q].pc = "insertPart"
    PROVE  PlanInv(q)'
<1> DEFINE h == req[q]
           k == req'[q]
<1> SUFFICES ASSUME h.op \notin Edits
             PROVE  \E t \in TripRow, p \in PartStatus :
                       /\ KnowsTrip(q, t)' /\ KnowsRow(q, p)'
                       /\ Write(k.part, k.trip, k.after) \in Plans(k.op, k.u, t, p)
                       /\ k.pc = "insertPart" => p = "none"
  BY DEF PlanInv
<1>1. HasTrip(q) /\ h.pc # "findPart"
  BY DEF HasParticipant
<1>2. PICK t \in TripRow, p \in PartStatus :
         /\ KnowsTrip(q, t) /\ KnowsRow(q, p)
         /\ Write(h.part, h.trip, h.after) \in Plans(h.op, h.u, t, p)
         /\ h.pc = "insertPart" => p = "none"
  BY <1>1 DEF PlanInv
<1>3. KnowsTrip(q, t)' /\ KnowsRow(q, p)'
  BY <1>1, <1>2, KnowsTripOn, KnowsRowOn
<1> QED
  BY <1>2, <1>3

(* So does a cancel or an update. *)
LEMMA EditOn ==
    ASSUME TypeOK, TypeOK', Races, NEW q \in Reqs, EditInv(q), HasTrip(q),
           req'[q].op = req[q].op, req'[q].trip = req[q].trip,
           req[q].op \in Edits => req'[q].pc \in {"reloadTrip", "writeTrip"}
    PROVE  EditInv(q)'
<1> DEFINE h == req[q]
           k == req'[q]
<1> SUFFICES ASSUME h.op \in Edits
             PROVE  \E t \in TripRow : KnowsTrip(q, t)' /\ k.trip \in Edited(k.op, t)
  BY DEF EditInv
<1>1. PICK t \in TripRow : KnowsTrip(q, t) /\ h.trip \in Edited(h.op, t)
  BY DEF EditInv
<1>2. KnowsTrip(q, t)'
  BY <1>1, KnowsTripOn
<1> QED
  BY <1>1, <1>2

(* A request that another one's step overtakes has missed what that step changes. *)
LEMMA OvertakenRace ==
    ASSUME TypeOK, TypeOK', Races, NEW q \in Reqs, RaceInv(q), req'[q] = req[q]
    PROVE  RaceInv(q)'
<1> DEFINE h == req[q]
<1>1. CASE ~HasTrip(q)
  BY <1>1 DEF RaceInv, EditInv, PlanInv, DirtyInv, HasTrip
<1>2. CASE HasTrip(q)
  <2>1. h.pc \notin {"idle", "findTrip"}
    BY <1>2 DEF HasTrip
  <2>2. EditInv(q)'
    <3>1. h.op \in Edits => h.pc \in {"reloadTrip", "writeTrip"}
      BY <1>2 DEF RaceInv, EditInv
    <3> QED
      BY <1>2, <3>1, EditOn DEF RaceInv
  <2>3. PlanInv(q)'
    <3>1. CASE h.pc = "findPart"
      <4>1. h.op \notin Edits => KnowsTrip(q, h.trip)
        BY <1>2, <3>1 DEF RaceInv, PlanInv
      <4>2. /\ missed[q] \subseteq missed'[q]
            /\ "status" \in missed'[q] \/ trip'.status = trip.status
            /\ "cur" \in missed'[q] \/ trip'.cur = trip.cur
            /\ "max" \in missed'[q] \/ trip'.max = trip.max
        BY <1>2, <2>1, KnowsOn
      <4>3. h.op \notin Edits => KnowsTrip(q, h.trip)'
        BY <4>1, <4>2 DEF KnowsTrip
      <4> QED
        BY <3>1, <4>3 DEF PlanInv
    <3>2. CASE h.pc # "findPart"
      <4>1. HasParticipant(q)
        BY <1>2, <3>2 DEF HasParticipant
      <4> QED
        BY <2>1, <3>2, <4>1, PlanOn DEF RaceInv
    <3> QED
      BY <3>1, <3>2
  <2>4. DirtyInv(q)'
    BY <1>2, <2>1, KnowsOn DEF RaceInv, DirtyInv, SavesTripLater
  <2> QED
    BY <2>2, <2>3, <2>4 DEF RaceInv
<1> QED
  BY <1>1, <1>2

(* Every step of a handler keeps what it knows. *)
LEMMA RaceStep ==
    ASSUME TypeOK, TypeOK', Races, NEW q \in Reqs, RaceInv(q), HandlerStep(q)
    PROVE  RaceInv(q)'
<1> DEFINE h == req[q]
           k == req'[q]
<1>h. h \in Handler /\ h.u \in Users /\ h.trip \in TripRow /\ h.part \in PartStatus
  BY DEF TypeOK, Handler
<1>p. part[h.u] \in PartStatus /\ trip \in TripRow
  BY <1>h DEF TypeOK
<1>e. Ends(q) => RaceInv(q)'
  BY IdleRace DEF Ends, TypeOK
<1>r. EditInv(q) /\ PlanInv(q) /\ DirtyInv(q)
  BY DEF RaceInv
<1>m. HasTrip(q) /\ k.pc # "idle" =>
         /\ missed[q] \subseteq missed'[q]
         /\ HasParticipant(q) => "row" \in missed'[q] \/ part'[h.u] = part[h.u]
  BY KnowsOn
(* What a request that has loaded its participant has planned *)
<1>w. ASSUME HasParticipant(q), h.op \notin Edits
      PROVE  \E p \in PartStatus :
                /\ KnowsRow(q, p) /\ h.part # p
                /\ h.pc = "insertPart" => p = "none"
                /\ h.after \in {"reloadTrip", "commit", "idle", "increment"}
                /\ h.after = "commit" => h.op = "leave"
                /\ h.after = "increment" => h.op = "link"
                /\ h.after = "reloadTrip" => h.op \in {"approve", "leave"} /\ p # "none"
                /\ h.op = "approve" => h.after = "reloadTrip"
                /\ h.op = "leave" => p # "none"
  <2>1. HasTrip(q) /\ h.pc # "findPart"
    BY <1>w DEF HasParticipant
  <2>2. PICK t \in TripRow, p \in PartStatus :
           /\ KnowsRow(q, p)
           /\ Write(h.part, h.trip, h.after) \in Plans(h.op, h.u, t, p)
           /\ h.pc = "insertPart" => p = "none"
    BY <1>r, <1>w, <2>1 DEF PlanInv
  <2> HIDE DEF h
  <2> QED
    BY <2>2, PlanFacts
<1>1. CASE FindTrip(q)
  <2> SUFFICES ASSUME ~Ends(q) PROVE RaceInv(q)'
    BY <1>e
  <2>0. h.pc = "findTrip" /\ UNCHANGED <<trip, part>> /\ h.dirtyT = {}
    BY <1>1, <1>r DEF FindTrip, DirtyInv
  <2>1. CASE h.op \notin Edits
    <3>1. k = [[h EXCEPT !.trip = trip] EXCEPT !.pc = "findPart"]
      BY <1>1, <2>1 DEF FindTrip, Goto, TypeOK, Edits
    <3>2. k.op = h.op /\ k.trip = trip /\ k.pc = "findPart" /\ k.dirtyT = {}
      BY <1>h, <2>0, <3>1 DEF Handler
    <3>3. KnowsTrip(q, h.trip)'
      BY <2>0, <3>2 DEF KnowsTrip
    <3> QED
      BY <2>1, <3>2, <3>3 DEF RaceInv, EditInv, PlanInv, DirtyInv
  <2>2. CASE h.op \in Edits
    <3>1. PICK t \in Edited(h.op, trip) :
             k = [[h EXCEPT !.trip = t] EXCEPT !.pc = "reloadTrip"]
      BY <1>1, <2>2 DEF FindTrip, Goto, TypeOK, Edits, Edited
    <3>2. k.op = h.op /\ k.trip = t /\ k.pc = "reloadTrip" /\ k.dirtyT = {}
      BY <1>h, <2>0, <3>1 DEF Handler
    <3>3. trip' \in TripRow /\ k.trip \in Edited(k.op, trip')
      BY <1>p, <2>0, <3>1, <3>2
    <3>4. EditInv(q)'
      BY <3>2, <3>3 DEF EditInv, KnowsTrip
    <3> QED
      BY <2>2, <3>2, <3>4 DEF RaceInv, PlanInv, DirtyInv, SavesTripLater
  <2> QED
    BY <2>1, <2>2
<1>2. CASE FindParticipant(q)
  <2> SUFFICES ASSUME ~Ends(q) PROVE RaceInv(q)'
    BY <1>e
  <2>0. /\ h.pc = "findPart" /\ UNCHANGED <<trip, part>> /\ h.dirtyT = {}
        /\ HasTrip(q) /\ h.op \notin Edits
    BY <1>2, <1>r DEF FindParticipant, DirtyInv, HasTrip, EditInv
  <2>1. PICK w \in Plans(h.op, h.u, h.trip, part[h.u]) :
           k = [[h EXCEPT !.part = w.part, !.trip = w.trip, !.after = w.after]
                   EXCEPT !.pc = IF part[h.u] = "none" THEN "insertPart" ELSE "reloadPart"]
    BY <1>2 DEF FindParticipant, Goto, TypeOK
  <2>2. /\ k.op = h.op /\ k.u = h.u /\ k.dirtyT = {}
        /\ k.part = w.part /\ k.trip = w.trip /\ k.after = w.after
        /\ k.pc = IF part[h.u] = "none" THEN "insertPart" ELSE "reloadPart"
    BY <1>h, <2>0, <2>1 DEF Handler
  <2>3. Write(k.part, k.trip, k.after) \in Plans(k.op, k.u, h.trip, part[h.u])
    BY <2>1, <2>2, PlansWrite
  <2>4. KnowsTrip(q, h.trip)
    BY <1>r, <2>0 DEF PlanInv
  <2>6. missed[q] \subseteq missed'[q]
    BY <1>m, <2>0, <2>2
  <2>7. \E t \in TripRow, p \in PartStatus :
           /\ KnowsTrip(q, t)' /\ KnowsRow(q, p)'
           /\ Write(k.part, k.trip, k.after) \in Plans(k.op, k.u, t, p)
           /\ k.pc = "insertPart" => p = "none"
    <3>1. /\ "status" \in missed'[q] \/ h.trip.status = trip'.status
          /\ "cur" \in missed'[q] \/ h.trip.cur = trip'.cur
          /\ "max" \in missed'[q] \/ h.trip.max = trip'.max
      BY <2>0, <2>4, <2>6 DEF KnowsTrip
    <3>2. part[h.u] = part'[k.u] /\ (k.pc = "insertPart" => part[h.u] = "none")
      BY <2>0, <2>2
    <3>3. PICK t \in TripRow, p \in PartStatus : t = h.trip /\ p = part[h.u]
      BY <1>h, <1>p
    <3>4. KnowsTrip(q, t)' /\ KnowsRow(q, p)'
      BY <3>1, <3>2, <3>3 DEF KnowsTrip, KnowsRow
    <3>5. Write(k.part, k.trip, k.after) \in Plans(k.op, k.u, t, p)
      BY <2>3, <3>3
    <3>6. k.pc = "insertPart" => p = "none"
      BY <3>2, <3>3
    <3> WITNESS t \in TripRow, p \in PartStatus
    <3> QED
      BY <3>4, <3>5, <3>6
  <2>8. PlanInv(q)'
    BY <2>2, <2>7 DEF PlanInv
  <2> QED
    BY <2>0, <2>2, <2>8 DEF RaceInv, EditInv, DirtyInv
<1>3. CASE ReloadParticipant(q)
  <2>0. h.pc = "reloadPart" /\ UNCHANGED <<trip, part>> /\ HasParticipant(q) /\ HasTrip(q)
    BY <1>3 DEF ReloadParticipant, HasParticipant, HasTrip
  <2>1. h.op \notin Edits /\ h.dirtyT = {}
    BY <1>r, <2>0 DEF EditInv, DirtyInv
  <2>2. k = [[h EXCEPT !.dirtyP = (h.part # part[h.u])] EXCEPT !.pc = "writePart"]
    BY <1>3 DEF ReloadParticipant, Goto, TypeOK
  <2>3. /\ k.op = h.op /\ k.u = h.u /\ k.part = h.part /\ k.trip = h.trip /\ k.after = h.after
        /\ k.pc = "writePart" /\ k.dirtyT = h.dirtyT /\ k.dirtyP = (h.part # part[h.u])
    BY <1>h, <2>2 DEF Handler
  <2>4. PlanInv(q)'
    BY <1>r, <2>0, <2>3, PlanOn
  <2>5. "row" \in missed[q] \/ h.part # part[h.u]
    BY <1>w, <2>0, <2>1 DEF KnowsRow
  <2>6. "row" \in missed'[q] \/ k.dirtyP
    BY <1>m, <2>0, <2>3, <2>5
  <2> QED
    BY <2>1, <2>3, <2>4, <2>6 DEF RaceInv, EditInv, DirtyInv
<1>4. CASE WriteParticipant(q)
  <2> SUFFICES ASSUME ~Ends(q) PROVE RaceInv(q)'
    BY <1>e
  <2>0. h.pc = "writePart" /\ HasParticipant(q) /\ HasTrip(q)
    BY <1>4 DEF WriteParticipant, HasParticipant, HasTrip
  <2>1. h.op \notin Edits /\ h.dirtyT = {} /\ ("row" \in missed[q] \/ h.dirtyP)
    BY <1>r, <2>0 DEF EditInv, DirtyInv
  <2>2. k = [h EXCEPT !.pc = h.after] /\ h.after # "idle"
    BY <1>4 DEF WriteParticipant, Goto, TypeOK
  <2>3. /\ k.op = h.op /\ k.u = h.u /\ k.part = h.part /\ k.trip = h.trip /\ k.after = h.after
        /\ k.pc = h.after /\ k.dirtyT = h.dirtyT /\ k.dirtyP = h.dirtyP
    BY <1>h, <2>2 DEF Handler
  <2>4. /\ h.after \in {"reloadTrip", "commit", "increment"}
        /\ h.after = "commit" => h.op = "leave"
        /\ h.after = "increment" => h.op = "link"
    BY <1>w, <2>0, <2>1, <2>2
  <2>5. PlanInv(q)'
    BY <1>r, <2>0, <2>3, <2>4, PlanOn
  <2>6. "row" \in missed'[q] \/ k.dirtyP
    BY <1>m, <2>0, <2>1, <2>3, <2>4
  <2> QED
    BY <2>1, <2>3, <2>4, <2>5, <2>6 DEF RaceInv, EditInv, DirtyInv, SavesTripLater
<1>5. CASE InsertParticipant(q)
  <2> SUFFICES ASSUME ~Ends(q) PROVE RaceInv(q)'
    BY <1>e
  <2>0. h.pc = "insertPart" /\ HasParticipant(q) /\ HasTrip(q)
    BY <1>5 DEF InsertParticipant, HasParticipant, HasTrip
  <2>1. h.op \notin Edits /\ h.dirtyT = {}
    BY <1>r, <2>0 DEF EditInv, DirtyInv
  <2>2. k = [h EXCEPT !.pc = h.after] /\ h.after # "idle"
    BY <1>5 DEF InsertParticipant, Goto, TypeOK
  <2>3. /\ k.op = h.op /\ k.u = h.u /\ k.part = h.part /\ k.trip = h.trip /\ k.after = h.after
        /\ k.pc = h.after /\ k.dirtyT = h.dirtyT /\ k.dirtyP = h.dirtyP
    BY <1>h, <2>2 DEF Handler
  <2>4. h.after = "increment" /\ h.op = "link"
    BY <1>w, <2>0, <2>1, <2>2
  <2>5. PlanInv(q)'
    BY <1>r, <2>0, <2>3, <2>4, PlanOn
  <2> QED
    BY <2>1, <2>3, <2>4, <2>5 DEF RaceInv, EditInv, DirtyInv
<1>6. CASE ReloadTrip(q)
  <2>0. h.pc = "reloadTrip" /\ UNCHANGED <<trip, part>> /\ HasParticipant(q) /\ HasTrip(q)
    BY <1>6 DEF ReloadTrip, HasParticipant, HasTrip
  <2>1. SavesTripLater(h) /\ (h.op \notin Edits => "row" \in missed[q] \/ h.dirtyP)
    BY <1>r, <2>0 DEF DirtyInv
  <2>2. k = [[h EXCEPT !.dirtyT = Differing(h.trip, trip)] EXCEPT !.pc = "writeTrip"]
    BY <1>6 DEF ReloadTrip, Goto, TypeOK
  <2>3. /\ k.op = h.op /\ k.u = h.u /\ k.part = h.part /\ k.trip = h.trip /\ k.after = h.after
        /\ k.pc = "writeTrip" /\ k.dirtyT = Differing(h.trip, trip) /\ k.dirtyP = h.dirtyP
    BY <1>h, <2>2 DEF Handler
  <2>4. PlanInv(q)' /\ EditInv(q)'
    BY <1>r, <2>0, <2>3, PlanOn, EditOn
  <2>5. SavesTripLater(k)
    BY <2>1, <2>3 DEF SavesTripLater
  <2>6. /\ "status" \in k.dirtyT <=> k.trip.status # trip'.status
        /\ "cur" \in k.dirtyT <=> k.trip.cur # trip'.cur
        /\ "max" \in k.dirtyT <=> k.trip.max # trip'.max
    BY <2>0, <2>3 DEF Differing, Columns
  <2>7. k.op \notin Edits => "row" \in missed'[q] \/ k.dirtyP
    BY <1>m, <2>0, <2>1, <2>3
  <2>8. DirtyInv(q)'
    BY <2>3, <2>5, <2>6, <2>7 DEF DirtyInv
  <2> QED
    BY <2>4, <2>8 DEF RaceInv
<1>7. CASE WriteTrip(q)
  <2> SUFFICES ASSUME ~Ends(q) PROVE RaceInv(q)'
    BY <1>e
  <2>0. /\ h.pc = "writeTrip" /\ UNCHANGED <<trip, part>> /\ HasParticipant(q) /\ HasTrip(q)
        /\ h.op \in {"approve", "leave"}
    BY <1>7 DEF WriteTrip, HasParticipant, HasTrip, InTransaction
  <2>2. k = [h EXCEPT !.pc = IF h.op = "approve" THEN "seed" ELSE "commit"]
    BY <1>7, <2>0 DEF WriteTrip, Goto, TypeOK, InTransaction
  <2>3. /\ k.op = h.op /\ k.u = h.u /\ k.part = h.part /\ k.trip = h.trip /\ k.after = h.after
        /\ k.pc = IF h.op = "approve" THEN "seed" ELSE "commit"
        /\ k.dirtyT = h.dirtyT /\ k.dirtyP = h.dirtyP
    BY <1>h, <2>2 DEF Handler
  <2>4. PlanInv(q)'
    BY <1>r, <2>0, <2>3, PlanOn
  <2>5. missed[q] \subseteq missed'[q]
    BY <1>m, <2>0, <2>3
  <2>6. SavesTripLater(k)
    BY <1>r, <2>0, <2>3 DEF DirtyInv, SavesTripLater
  <2>7. DirtyInv(q)'
    BY <1>r, <2>0, <2>3, <2>5, <2>6 DEF DirtyInv
  <2> QED
    BY <2>0, <2>3, <2>4, <2>7 DEF RaceInv, EditInv, Edits
<1>8. CASE SendIncrement(q)
  <2>0. h.pc = "increment" /\ HasParticipant(q) /\ HasTrip(q)
    BY <1>8 DEF SendIncrement, HasParticipant, HasTrip
  <2>1. h.op = "link" /\ h.dirtyT = {}
    BY <1>r, <2>0 DEF DirtyInv
  <2>2. k = [h EXCEPT !.pc = "incrementing"]
    BY <1>8 DEF SendIncrement, Goto, TypeOK
  <2>3. /\ k.op = h.op /\ k.u = h.u /\ k.part = h.part /\ k.trip = h.trip /\ k.after = h.after
        /\ k.pc = "incrementing" /\ k.dirtyT = h.dirtyT /\ k.dirtyP = h.dirtyP
    BY <1>h, <2>2 DEF Handler
  <2>4. PlanInv(q)'
    BY <1>r, <2>0, <2>3, PlanOn
  <2> QED
    BY <2>1, <2>3, <2>4 DEF RaceInv, EditInv, DirtyInv, Edits
<1>9. CASE Increment(q)
  BY <1>9, <1>e DEF Increment
<1>10. CASE Seed(q)
  <2>0. h.pc = "seed" /\ UNCHANGED <<trip, part>> /\ HasParticipant(q) /\ HasTrip(q)
    BY <1>10 DEF Seed, HasParticipant, HasTrip
  <2>1. h.op = "approve" /\ SavesTripLater(h)
    BY <1>r, <2>0 DEF DirtyInv
  <2>2. k = [h EXCEPT !.pc = "commit"]
    BY <1>10 DEF Seed, Goto, TypeOK
  <2>3. /\ k.op = h.op /\ k.u = h.u /\ k.part = h.part /\ k.trip = h.trip /\ k.after = h.after
        /\ k.pc = "commit" /\ k.dirtyT = h.dirtyT /\ k.dirtyP = h.dirtyP
    BY <1>h, <2>2 DEF Handler
  <2>4. PlanInv(q)'
    BY <1>r, <2>0, <2>3, PlanOn
  <2>5. missed[q] \subseteq missed'[q]
    BY <1>m, <2>0, <2>3
  <2>6. SavesTripLater(k)
    BY <2>1, <2>3 DEF SavesTripLater
  <2>7. DirtyInv(q)'
    BY <1>r, <2>0, <2>1, <2>3, <2>5, <2>6 DEF DirtyInv
  <2> QED
    BY <2>1, <2>3, <2>4, <2>7 DEF RaceInv, EditInv, Edits
<1>11. CASE Commit(q)
  BY <1>11, <1>e DEF Commit
<1> QED
  BY <1>1, <1>2, <1>3, <1>4, <1>5, <1>6, <1>7, <1>8, <1>9, <1>10, <1>11 DEF HandlerStep

(* A step moves one slot. *)
LEMMA OneMoves ==
    ASSUME TypeOK, NEW q \in Reqs,
           \/ HandlerStep(q)
           \/ Crash(q)
           \/ \E op \in Ops, u \in Users : Begin(q, op, u)
    PROVE  \A p \in Reqs \ {q} : req'[p] = req[p]
<1>1. (\E h : req' = [req EXCEPT ![q] = h]) => \A p \in Reqs \ {q} : req'[p] = req[p]
  BY DEF TypeOK
<1> QED
  BY <1>1 DEF HandlerStep, Begin, Crash, FindTrip, FindParticipant, ReloadParticipant,
              WriteParticipant, InsertParticipant, ReloadTrip, WriteTrip, SendIncrement,
              Increment, Seed, Commit, Goto, Ends

-----------------------------------------------------------------------------
(* A step of q tells how the number of link joins that are halfway changes. *)
LEMMA JoiningCount ==
    ASSUME TypeOK, NEW q \in Reqs, \A p \in Reqs \ {q} : req'[p] = req[p]
    PROVE  /\ Cardinality(Joining) \in Nat
           /\ q \notin Joining /\ q \in Joining' => Cardinality(Joining') = Cardinality(Joining) + 1
           /\ q \in Joining /\ q \notin Joining' => Cardinality(Joining') = Cardinality(Joining) - 1
           /\ (q \in Joining <=> q \in Joining') => Joining' = Joining
<1>1. IsFiniteSet(Joining)
  BY FS_Subset DEF Joining
<1>2. Cardinality(Joining) \in Nat
  BY <1>1, FS_CardinalityType
<1>3. ASSUME q \notin Joining, q \in Joining'
      PROVE  Cardinality(Joining') = Cardinality(Joining) + 1
  <2>1. Joining' = Joining \cup {q}
    BY <1>3 DEF Joining
  <2> QED
    BY <1>1, <1>3, <2>1, FS_AddElement
<1>4. ASSUME q \in Joining, q \notin Joining'
      PROVE  Cardinality(Joining') = Cardinality(Joining) - 1
  <2>1. Joining' = Joining \ {q}
    BY <1>4 DEF Joining
  <2> QED
    BY <1>1, <1>4, <2>1, FS_RemoveElement
<1>5. ASSUME q \in Joining <=> q \in Joining' PROVE Joining' = Joining
  BY <1>5 DEF Joining
<1> QED
  BY <1>2, <1>3, <1>4, <1>5

(* A request that saves its participant and has missed nothing of it: the row is as it *)
(* has loaded it, and becomes what it has planned.                                     *)
LEMMA PlannedRow ==
    ASSUME TypeOK, NEW q \in Reqs, RaceInv(q), req[q].op \notin Edits, HasParticipant(q),
           "row" \notin missed[q] \/ (req[q].pc = "insertPart" /\ part[req[q].u] = "none")
    PROVE  LET h == req[q]
               p == part[h.u]
           IN  /\ h.pc \in {"writePart", "reloadTrip", "writeTrip", "seed", "commit"} => h.dirtyP
               /\ h.part # p
               /\ \/ /\ h.op = "approve" /\ p = "pending" /\ h.part = "approved"
                     /\ h.after = "reloadTrip"
                  \/ /\ h.op = "leave" /\ h.u # Creator /\ p = "approved" /\ h.part = "left"
                     /\ h.after = "reloadTrip"
                  \/ /\ h.op = "leave" /\ h.u # Creator /\ p \in {"pending", "rejected"}
                     /\ h.part = "left" /\ h.after = "commit"
                  \/ h.op = "reject" /\ p = "pending" /\ h.part = "rejected" /\ h.after = "idle"
                  \/ /\ h.op \in {"request", "link"} /\ h.u # Creator /\ p \in Outside
                     /\ h.part = "pending" /\ h.after = "idle"
                  \/ /\ h.op = "link" /\ h.u # Creator /\ p \in Outside
                     /\ h.part = "approved" /\ h.after = "increment"
<1> DEFINE h == req[q]
<1>1. HasTrip(q) /\ h.pc # "findPart"
  BY DEF HasParticipant
<1>2. PICK t \in TripRow, p \in PartStatus :
         /\ KnowsRow(q, p)
         /\ Write(h.part, h.trip, h.after) \in Plans(h.op, h.u, t, p)
         /\ h.pc = "insertPart" => p = "none"
  BY <1>1 DEF RaceInv, PlanInv
<1>3. p = part[h.u]
  BY <1>2 DEF KnowsRow
<1>4. "row" \notin missed[q] /\ h.pc \in {"writePart", "reloadTrip", "writeTrip", "seed", "commit"}
        => h.dirtyP
  BY DEF RaceInv, DirtyInv
<1> HIDE DEF h
<1>5. /\ h.part # p
      /\ \/ /\ h.op = "approve" /\ p = "pending" /\ h.part = "approved"
            /\ h.after = "reloadTrip"
         \/ /\ h.op = "leave" /\ h.u # Creator /\ p = "approved" /\ h.part = "left"
            /\ h.after = "reloadTrip"
         \/ /\ h.op = "leave" /\ h.u # Creator /\ p \in {"pending", "rejected"}
            /\ h.part = "left" /\ h.after = "commit"
         \/ h.op = "reject" /\ p = "pending" /\ h.part = "rejected" /\ h.after = "idle"
         \/ /\ h.op \in {"request", "link"} /\ h.u # Creator /\ p \in Outside
            /\ h.part = "pending" /\ h.after = "idle"
         \/ /\ h.op = "link" /\ h.u # Creator /\ p \in Outside
            /\ h.part = "approved" /\ h.after = "increment"
  BY <1>2, PlanFacts DEF Joinable, Outside
<1> QED
  BY <1>3, <1>4, <1>5 DEF h

(* A request that saves the trip for an approval or a departure and has not missed a *)
(* change of the counter: it counts on the stored one, and saves the result.         *)
LEMMA PlannedCount ==
    ASSUME TypeOK, NEW q \in Reqs, RaceInv(q), req[q].pc = "commit",
           req[q].after = "reloadTrip", "cur" \notin missed[q], NEW new,
           new = Updated(trip, req[q].trip, req[q].dirtyT)
    PROVE  /\ req[q].op = "approve" => new.cur = trip.cur + 1 /\ trip.cur < req[q].trip.max
           /\ req[q].op = "leave" => new.cur = IF trip.cur = 0 THEN 0 ELSE trip.cur - 1
<1> DEFINE h == req[q]
<1>1. HasTrip(q) /\ h.pc # "findPart" /\ h.op \in {"approve", "leave"} /\ SavesTripLater(h)
  BY DEF HasTrip, RaceInv, DirtyInv, SavesTripLater
<1>2. PICK t \in TripRow, p \in PartStatus :
         KnowsTrip(q, t) /\ Write(h.part, h.trip, h.after) \in Plans(h.op, h.u, t, p)
  BY <1>1 DEF RaceInv, PlanInv, Edits
<1>3. t.cur = trip.cur
  BY <1>2 DEF KnowsTrip
<1>4. "cur" \in h.dirtyT <=> h.trip.cur # trip.cur
  BY <1>1 DEF RaceInv, DirtyInv
<1>5. new.cur = h.trip.cur
  BY <1>4 DEF Updated
<1>a. h.after # "commit"
  OBVIOUS
<1> HIDE DEF h
<1>6. /\ h.op = "approve" => h.trip.cur = t.cur + 1 /\ t.cur < t.max /\ h.trip.max = t.max
      /\ h.op = "leave" => h.trip.cur = IF t.cur = 0 THEN 0 ELSE t.cur - 1
  BY <1>2, <1>a, PlanFacts
<1> QED
  BY <1>3, <1>5, <1>6 DEF h

(* A cancel or an update that has not missed a change of the counter leaves it. *)
LEMMA EditCount ==
    ASSUME TypeOK, NEW q \in Reqs, RaceInv(q), req[q].op \in Edits, req[q].pc = "writeTrip",
           "cur" \notin missed[q]
    PROVE  Updated(trip, req[q].trip, req[q].dirtyT).cur = trip.cur
<1>1. HasTrip(q) /\ SavesTripLater(req[q])
  BY DEF HasTrip, SavesTripLater
<1>2. PICK t \in TripRow : KnowsTrip(q, t) /\ req[q].trip \in Edited(req[q].op, t)
  BY <1>1 DEF RaceInv, EditInv
<1>3. req[q].trip.cur = trip.cur
  BY <1>2, EditFacts DEF KnowsTrip
<1> QED
  BY <1>3 DEF Updated

(* While the counter has not drifted, every step keeps the account. *)
LEMMA CountStep ==
    ASSUME TypeOK, TypeOK', \A q \in Reqs : RaceInv(q), CountHolds, Next, Races
    PROVE  CountHolds'
<1> SUFFICES ASSUME ~drifted' PROVE (trip.cur + Cardinality(Joining) = Cardinality(Approved))'
  BY DEF CountHolds
<1>q. PICK q \in Reqs : \/ HandlerStep(q)
                        \/ Crash(q)
                        \/ \E op \in Ops, u \in Users : Begin(q, op, u)
  BY DEF Next
<1> DEFINE h == req[q]
           k == req'[q]
           J == Cardinality(Joining)
           A == Cardinality(Approved)
<1>h. h \in Handler /\ h.u \in Users /\ h.part \in PartStatus /\ trip \in TripRow /\ trip.cur \in Nat
  BY DEF TypeOK, Handler, TripRow
<1>d. ~Drifts(q) /\ trip.cur + J = A
  BY DEF Races, CountHolds
<1>r. RaceInv(q)
  OBVIOUS
<1>j. /\ J \in Nat
      /\ q \notin Joining /\ q \in Joining' => Cardinality(Joining') = J + 1
      /\ q \in Joining /\ q \notin Joining' => Cardinality(Joining') = J - 1
      /\ (q \in Joining <=> q \in Joining') => Joining' = Joining
  BY <1>q, JoiningCount, OneMoves
<1>i. /\ q \in Joining <=> h.pc \in {"increment", "incrementing"}
      /\ q \in Joining' <=> k.pc \in {"increment", "incrementing"}
  BY DEF Joining
<1>a. A \in Nat
  BY FS_Subset, FS_CardinalityType DEF Approved
<1>s. ASSUME part' = part PROVE Approved' = Approved
  BY <1>s DEF Approved
<1>e. Ends(q) => k.pc = "idle"
  BY DEF Ends, Idle, TypeOK
(* Most steps leave the account alone. *)
<1>n. ASSUME trip'.cur = trip.cur, part' = part, q \in Joining <=> q \in Joining'
      PROVE  (trip.cur + Cardinality(Joining) = Cardinality(Approved))'
  <2>1. Approved' = Approved /\ Joining' = Joining
    BY <1>n, <1>s, <1>j
  <2> QED
    BY <1>d, <1>n, <2>1
<1>1. ASSUME NEW op \in Ops, NEW u \in Users, Begin(q, op, u)
      PROVE  (trip.cur + Cardinality(Joining) = Cardinality(Approved))'
  <2>1. k.pc = "findTrip" /\ h.pc = "idle" /\ trip' = trip /\ part' = part
    BY <1>1 DEF Begin, Idle, TypeOK
  <2> QED
    BY <1>i, <1>n, <2>1
<1>2. ASSUME \/ FindTrip(q) \/ FindParticipant(q) \/ ReloadParticipant(q) \/ ReloadTrip(q)
             \/ SendIncrement(q) \/ Seed(q)
      PROVE  (trip.cur + Cardinality(Joining) = Cardinality(Approved))'
  <2>1. ASSUME NEW x, NEW step, req' = [req EXCEPT ![q] = [x EXCEPT !.pc = step]], x.pc = x.pc,
               k \in Handler
        PROVE  k.pc = step
    <3>1. k = [x EXCEPT !.pc = step]
      BY <2>1 DEF TypeOK
    <3> QED
      BY <2>1, <3>1 DEF Handler
  <2>k. k \in Handler
    BY DEF TypeOK
  <2>2. trip' = trip /\ part' = part
    BY <1>2 DEF FindTrip, FindParticipant, ReloadParticipant, ReloadTrip, SendIncrement, Seed
  <2>3. \/ h.pc \in {"increment"} /\ k.pc = "incrementing"
        \/ h.pc \notin {"increment", "incrementing"} /\ k.pc \notin {"increment", "incrementing"}
    BY <1>2, <1>e, <2>1, <2>k DEF FindTrip, FindParticipant, ReloadParticipant, ReloadTrip,
       SendIncrement, Seed, Goto
  <2> QED
    BY <1>i, <1>n, <2>2, <2>3
<1>3. ASSUME Crash(q)
      PROVE  (trip.cur + Cardinality(Joining) = Cardinality(Approved))'
  <2>1. q \notin Joining /\ k.pc = "idle" /\ trip' = trip /\ part' = part
    BY <1>3, <1>d, <1>e DEF Drifts, Crash
  <2> QED
    BY <1>i, <1>n, <2>1
<1>4. ASSUME WriteParticipant(q)
      PROVE  (trip.cur + Cardinality(Joining) = Cardinality(Approved))'
  <2>0. h.pc = "writePart" /\ HasParticipant(q) /\ trip' = trip
    BY <1>4 DEF WriteParticipant, HasParticipant, HasTrip
  <2>1. h.op \notin Edits
    BY <1>r, <2>0 DEF RaceInv, EditInv, HasParticipant
  <2>2. k.pc = h.after
    BY <1>4, <1>e, <1>h DEF WriteParticipant, Goto, TypeOK, Handler
  <2>3. CASE InTransaction(h)
    <3>1. part' = part
      BY <1>4, <2>3 DEF WriteParticipant
    <3>2. PICK t \in TripRow, p \in PartStatus :
             Write(h.part, h.trip, h.after) \in Plans(h.op, h.u, t, p)
      BY <1>r, <2>0, <2>1 DEF RaceInv, PlanInv, HasParticipant
    <3>3. h.op \in {"approve", "leave"}
      BY <2>3 DEF InTransaction
    <3>4. h.after \in {"reloadTrip", "commit"}
      <4> HIDE DEF h
      <4> QED
        BY <3>2, <3>3, PlanFacts
    <3> QED
      BY <1>i, <1>n, <2>0, <2>2, <3>1, <3>4
  <2>4. CASE ~InTransaction(h)
    <3>1. "row" \notin missed[q]
      BY <1>4, <1>d, <2>4 DEF Drifts, SavesParticipant
    <3>2. /\ h.dirtyP
          /\ \/ h.part # "approved" /\ part[h.u] # "approved" /\ h.after = "idle"
             \/ h.part = "approved" /\ part[h.u] # "approved" /\ h.after = "increment"
      BY <1>r, <2>0, <2>1, <2>4, <3>1, PlannedRow DEF InTransaction, Outside
    <3>3. part' = [part EXCEPT ![h.u] = h.part]
      BY <1>4, <2>4, <3>2 DEF WriteParticipant
    <3>4. /\ h.part = "approved" => Cardinality(Approved') = A + 1
          /\ h.part # "approved" => Approved' = Approved
      BY <1>h, <3>2, <3>3, ApprovedCount
    <3> QED
      BY <1>d, <1>i, <1>j, <1>h, <1>a, <2>0, <2>2, <3>2, <3>4
  <2> QED
    BY <2>3, <2>4
<1>5. ASSUME InsertParticipant(q)
      PROVE  (trip.cur + Cardinality(Joining) = Cardinality(Approved))'
  <2>0. h.pc = "insertPart" /\ HasParticipant(q) /\ trip' = trip
    BY <1>5 DEF InsertParticipant, HasParticipant, HasTrip
  <2>1. h.op \notin Edits
    BY <1>r, <2>0 DEF RaceInv, EditInv, HasParticipant
  <2>3. CASE part[h.u] # "none"
    <3>1. part' = part /\ k.pc = "idle"
      BY <1>5, <1>e, <2>3 DEF InsertParticipant
    <3> QED
      BY <1>i, <1>n, <2>0, <3>1
  <2>4. CASE part[h.u] = "none"
    <3>2. \/ h.part # "approved" /\ h.after = "idle"
          \/ h.part = "approved" /\ h.after = "increment"
      BY <1>r, <2>0, <2>1, <2>4, PlannedRow DEF Outside
    <3>3. part' = [part EXCEPT ![h.u] = h.part]
      BY <1>5, <2>4 DEF InsertParticipant
    <3>4. /\ h.part = "approved" => Cardinality(Approved') = A + 1
          /\ h.part # "approved" => Approved' = Approved
      BY <1>h, <2>4, <3>3, ApprovedCount
    <3>5. k.pc = h.after
      BY <1>5, <1>e, <1>h, <2>4 DEF InsertParticipant, Goto, TypeOK, Handler
    <3> QED
      BY <1>d, <1>i, <1>j, <1>h, <1>a, <2>0, <3>2, <3>4, <3>5
  <2> QED
    BY <2>3, <2>4
<1>6. ASSUME WriteTrip(q)
      PROVE  (trip.cur + Cardinality(Joining) = Cardinality(Approved))'
  <2>0. h.pc = "writeTrip" /\ HasParticipant(q) /\ part' = part
    BY <1>6 DEF WriteTrip, HasParticipant, HasTrip
  <2>1. CASE InTransaction(h)
    <3>1. trip' = trip /\ k.pc \in {"seed", "commit"}
      BY <1>6, <1>h, <2>1 DEF WriteTrip, Goto, TypeOK, Handler
    <3> QED
      BY <1>i, <1>n, <2>0, <3>1
  <2>2. CASE ~InTransaction(h)
    <3>1. SavesTrip(q)
      BY <1>6, <2>2 DEF SavesTrip
    <3>2. "cur" \notin missed[q]
      BY <1>d, <3>1 DEF Drifts
    <3>3. h.op \in Edits
      <4>1. SavesTripLater(h)
        BY <1>r, <2>0 DEF RaceInv, DirtyInv
      <4>2. ASSUME h.op \notin Edits PROVE FALSE
        <5>1. PICK t \in TripRow, p \in PartStatus :
                 Write(h.part, h.trip, h.after) \in Plans(h.op, h.u, t, p)
          BY <1>r, <2>0, <4>2 DEF RaceInv, PlanInv, HasParticipant
        <5>2. h.after = "reloadTrip"
          BY <4>1, <4>2 DEF SavesTripLater
        <5>3. h.op \in {"approve", "leave"}
          <6> HIDE DEF h
          <6> QED
            BY <5>1, <5>2, PlanFacts
        <5> QED
          BY <2>2, <5>3 DEF InTransaction
      <4> QED
        BY <4>2
    <3>4. trip'.cur = trip.cur /\ k.pc = "idle"
      BY <1>6, <1>e, <1>r, <2>0, <2>2, <3>2, <3>3, EditCount DEF WriteTrip
    <3> QED
      BY <1>i, <1>n, <2>0, <3>4
  <2> QED
    BY <2>1, <2>2
<1>7. ASSUME Increment(q)
      PROVE  (trip.cur + Cardinality(Joining) = Cardinality(Approved))'
  <2>1. h.pc = "incrementing" /\ k.pc = "idle" /\ part' = part /\ trip'.cur = trip.cur + 1
    BY <1>7, <1>e, <1>h DEF Increment, TripRow
  <2>2. Approved' = Approved /\ Cardinality(Joining') = J - 1
    BY <1>i, <1>j, <1>s, <2>1
  <2> QED
    BY <1>d, <1>h, <1>j, <2>1, <2>2
<1>8. ASSUME Commit(q)
      PROVE  (trip.cur + Cardinality(Joining) = Cardinality(Approved))'
  <2>0. h.pc = "commit" /\ HasParticipant(q) /\ k.pc = "idle"
    BY <1>8, <1>e DEF Commit, HasParticipant, HasTrip
  <2>1. h.op \in {"approve", "leave"} /\ h.op \notin Edits
    BY <1>r, <2>0 DEF RaceInv, DirtyInv, Edits
  <2>2. "row" \notin missed[q]
    BY <1>8, <1>d DEF Drifts, SavesParticipant
  <2>3. h.dirtyP /\ Joining' = Joining
    BY <1>r, <1>i, <1>j, <2>0, <2>1, <2>2, PlannedRow
  <2>4. part' = [part EXCEPT ![h.u] = h.part] /\ trip' = Updated(trip, h.trip, h.dirtyT)
    BY <1>8, <2>3 DEF Commit
  <2>5. CASE h.after = "reloadTrip"
    <3>1. SavesTrip(q)
      BY <1>8, <2>5 DEF SavesTrip
    <3>2. "cur" \notin missed[q] /\ (h.op = "leave" => trip.cur # 0)
      BY <1>d, <3>1 DEF Drifts
    <3>3. /\ h.op = "approve" => trip'.cur = trip.cur + 1
          /\ h.op = "leave" => trip'.cur = trip.cur - 1
      BY <1>r, <2>0, <2>4, <2>5, <3>2, PlannedCount
    <3>4. CASE h.op = "approve"
      <4>1. part[h.u] # "approved" /\ h.part = "approved"
        BY <1>r, <2>0, <2>1, <2>2, <3>4, PlannedRow
      <4>2. Cardinality(Approved') = A + 1
        BY <1>h, <2>4, <4>1, ApprovedCount
      <4> QED
        BY <1>d, <1>h, <1>j, <1>a, <2>3, <3>3, <3>4, <4>2
    <3>5. CASE h.op = "leave"
      <4>1. part[h.u] = "approved" /\ h.part # "approved"
        BY <1>r, <2>0, <2>1, <2>2, <2>5, <3>5, PlannedRow
      <4>2. Cardinality(Approved') = A - 1
        BY <1>h, <2>4, <4>1, ApprovedCount
      <4> QED
        BY <1>d, <1>h, <1>j, <1>a, <2>3, <3>3, <3>5, <4>2
    <3> QED
      BY <2>1, <3>4, <3>5
  <2>6. CASE h.after # "reloadTrip"
    <3>1. h.dirtyT = {}
      BY <1>r, <2>0, <2>1, <2>6 DEF RaceInv, DirtyInv, SavesTripLater
    <3>2. trip'.cur = trip.cur
      BY <2>4, <3>1 DEF Updated
    <3>3. part[h.u] # "approved" /\ h.part # "approved"
      BY <1>r, <2>0, <2>1, <2>2, <2>6, PlannedRow
    <3>4. Approved' = Approved
      BY <1>h, <2>4, <3>3, ApprovedCount
    <3> QED
      BY <1>d, <2>3, <3>2, <3>4
  <2> QED
    BY <2>5, <2>6
<1> QED
  BY <1>q, <1>1, <1>2, <1>3, <1>4, <1>5, <1>6, <1>7, <1>8 DEF HandlerStep

-----------------------------------------------------------------------------
(* Every step keeps what all requests know, and the account. *)
LEMMA RacesStep == RacesInv /\ [Next /\ Races]_all => RacesInv'
<1> SUFFICES ASSUME RacesInv, [Next /\ Races]_all PROVE RacesInv'
  OBVIOUS
<1>t. TypeOK /\ TypeOK'
  BY TypeStep DEF RacesInv, all
<1>1. CASE UNCHANGED all
  <2>1. trip' = trip /\ part' = part /\ req' = req /\ missed' = missed /\ drifted' = drifted
    BY <1>1 DEF all, vars
  <2>2. CountHolds'
    BY <2>1 DEF RacesInv, CountHolds, Joining, Approved
  <2>3. ASSUME NEW q \in Reqs PROVE RaceInv(q)'
    <3>1. EditInv(q)'
      BY <2>1 DEF RacesInv, RaceInv, EditInv, HasTrip, KnowsTrip
    <3>2. PlanInv(q)'
      BY <2>1 DEF RacesInv, RaceInv, PlanInv, HasTrip, KnowsTrip, KnowsRow
    <3>3. DirtyInv(q)'
      BY <2>1 DEF RacesInv, RaceInv, DirtyInv, SavesTripLater
    <3> QED
      BY <3>1, <3>2, <3>3 DEF RaceInv
  <2> QED
    BY <1>t, <2>2, <2>3 DEF RacesInv
<1>2. ASSUME Next, Races PROVE RacesInv'
  <2>1. PICK q \in Reqs : \/ HandlerStep(q)
                          \/ Crash(q)
                          \/ \E op \in Ops, u \in Users : Begin(q, op, u)
    BY <1>2 DEF Next
  <2>2. ASSUME NEW p \in Reqs, p # q PROVE RaceInv(p)'
    BY <1>2, <1>t, <2>1, <2>2, OneMoves, OvertakenRace DEF RacesInv
  <2>3. RaceInv(q)'
    <3>1. CASE HandlerStep(q)
      BY <1>2, <1>t, <3>1, RaceStep DEF RacesInv
    <3>2. CASE Crash(q)
      BY <1>t, <3>2, IdleRace DEF Crash, Ends, TypeOK
    <3>3. ASSUME NEW op \in Ops, NEW u \in Users, Begin(q, op, u) PROVE RaceInv(q)'
      <4>1. req'[q] = [Idle EXCEPT !.op = op, !.u = u, !.pc = "findTrip"]
        BY <1>t, <3>3 DEF Begin, TypeOK
      <4>2. req'[q].pc = "findTrip" /\ req'[q].dirtyT = {}
        BY <4>1 DEF Idle
      <4> QED
        BY <4>2 DEF RaceInv, EditInv, PlanInv, DirtyInv, HasTrip
    <3> QED
      BY <2>1, <3>1, <3>2, <3>3
  <2>4. CountHolds'
    BY <1>2, <1>t, CountStep DEF RacesInv
  <2> QED
    BY <1>t, <2>2, <2>3, <2>4 DEF RacesInv
<1> QED
  BY <1>1, <1>2

(* At the start there are no requests, and the counter counts the creator. *)
LEMMA RacesStart == RacesInit => RacesInv
<1> SUFFICES ASSUME RacesInit PROVE RacesInv
  OBVIOUS
<1>1. TypeOK
  BY IdleType DEF RacesInit, Init, TypeOK, TripRow, PartStatus
<1>2. ASSUME NEW q \in Reqs PROVE RaceInv(q)
  <2>1. req[q].pc = "idle" /\ req[q].dirtyT = {}
    BY DEF RacesInit, Init, Idle
  <2> QED
    BY <2>1 DEF RaceInv, EditInv, PlanInv, DirtyInv, HasTrip
<1>3. CountHolds
  <2>1. Joining = {} /\ Approved = {Creator} /\ trip.cur = 1
    BY DEF RacesInit, Init, Joining, Idle, Approved
  <2>2. Cardinality(Joining) = 0
    BY <2>1, FS_EmptySet
  <2>3. Cardinality(Approved) = 1
    BY <2>1, FS_Singleton
  <2> QED
    BY <2>1, <2>2, <2>3 DEF CountHolds
<1> QED
  BY <1>1, <1>2, <1>3 DEF RacesInv

(* For any number of requests at once and any crashes, current_participants and the    *)
(* link joins that are halfway make up the approved participants, until a request      *)
(* saves over a change it has missed, a process dies halfway through a link join, or a *)
(* departure takes the counter below 0.                                                *)
THEOREM CountKept == RacesSpec => []CountHolds
<1>1. RacesInv => CountHolds
  BY DEF RacesInv
<1> QED
  BY <1>1, RacesStart, RacesStep, PTL DEF RacesSpec

-----------------------------------------------------------------------------
(* What a request that has missed nothing saves is a step of the roster, ... *)
LEMMA RosterWrite ==
    ASSUME TypeOK, NEW q \in Reqs, RaceInv(q), req[q].op \notin Edits, HasParticipant(q),
           missed[q] = {}, trip.cur = Cardinality(Approved),
           part' = [part EXCEPT ![req[q].u] = req[q].part],
           trip'.status = trip.status, trip'.max = trip.max
    PROVE  Roster!Next
<1> DEFINE h == req[q]
<1>1. HasTrip(q) /\ h.pc # "findPart" /\ h.u \in Users
  BY DEF HasParticipant, TypeOK, Handler
<1>2. PICK t \in TripRow, p \in PartStatus :
         /\ KnowsTrip(q, t) /\ KnowsRow(q, p)
         /\ Write(h.part, h.trip, h.after) \in Plans(h.op, h.u, t, p)
  BY <1>1 DEF RaceInv, PlanInv
<1>3. p = part[h.u] /\ t.cur = trip.cur /\ t.max = trip.max /\ t.status = trip.status
  BY <1>2 DEF KnowsRow, KnowsTrip
<1>4. \/ p = "pending" /\ h.part = "approved" /\ t.cur < t.max
      \/ p \in {"pending", "approved", "rejected"} /\ h.part = "left" /\ h.u # Creator
      \/ p = "pending" /\ h.part = "rejected"
      \/ p \in Outside /\ h.part \in {"pending", "approved"} /\ h.u # Creator
           /\ t.status = "pending" /\ t.cur < t.max
  <2> HIDE DEF h
  <2> QED
    BY <1>2, PlanFacts DEF Joinable, HasSeat, Outside
<1>5. UNCHANGED <<trip.status = "pending", trip.max>>
  OBVIOUS
<1>6. trip.cur < trip.max => Roster!HasRoom
  <2>1. trip.cur = Cardinality({u \in Users : part[u] = "approved"})
    BY DEF Approved
  <2>2. \A S : Roster!Cardinality(S) = Cardinality(S)
    BY DEF Roster!Cardinality, Cardinality
  <2> QED
    BY <2>1, <2>2 DEF Roster!HasRoom
<1>7. \/ Roster!Ask(h.u) \/ Roster!JoinFreely(h.u) \/ Roster!Admit(h.u)
      \/ Roster!Refuse(h.u) \/ Roster!Leave(h.u)
  BY <1>3, <1>4, <1>5, <1>6 DEF Roster!Ask, Roster!JoinFreely, Roster!Admit,
     Roster!Refuse, Roster!Leave, Roster!Becomes, Roster!Outside, Outside
<1> QED
  BY <1>1, <1>7 DEF Roster!Next

(* ... and nothing else shows. *)
LEMMA RosterStep ==
    ASSUME RacesInv, Next, Races, ~drifted, Joining = {},
           \A q \in Reqs : Saves(q) => missed[q] = {},
           ~UNCHANGED Roster!rosterVars
    PROVE  Roster!Next
<1>q. PICK q \in Reqs : \/ \E op \in Ops, u \in Users : Begin(q, op, u)
                       \/ HandlerStep(q)
                       \/ Crash(q)
  BY DEF Next
<1> DEFINE h == req[q]
<1>i. TypeOK /\ RaceInv(q) /\ h \in Handler /\ trip \in TripRow /\ h.trip \in TripRow
  BY DEF RacesInv, TypeOK, Handler
<1>c. trip.cur = Cardinality(Approved)
  <2>1. trip.cur + Cardinality({}) = Cardinality(Approved)
    BY DEF RacesInv, CountHolds
  <2> QED
    BY <1>i, <2>1, FS_EmptySet DEF TripRow
<1>n. ~(part' = part /\ trip'.status = trip.status /\ trip'.max = trip.max)
  BY DEF Roster!rosterVars
<1>1. ASSUME WriteParticipant(q) PROVE Roster!Next
  <2>1. h.pc = "writePart" /\ trip' = trip /\ HasParticipant(q)
    BY <1>1 DEF WriteParticipant, HasParticipant, HasTrip
  <2>2. part' = [part EXCEPT ![h.u] = h.part] /\ ~InTransaction(h)
    BY <1>1, <1>n, <2>1 DEF WriteParticipant
  <2>3. missed[q] = {}
    BY <1>1, <2>2 DEF Saves, SavesParticipant
  <2>4. h.op \notin Edits
    BY <1>i, <2>1 DEF RaceInv, EditInv, HasParticipant
  <2> QED
    BY <1>i, <1>c, <2>1, <2>2, <2>3, <2>4, RosterWrite
<1>2. ASSUME InsertParticipant(q) PROVE Roster!Next
  <2>1. h.pc = "insertPart" /\ trip' = trip /\ HasParticipant(q)
    BY <1>2 DEF InsertParticipant, HasParticipant, HasTrip
  <2>2. part' = [part EXCEPT ![h.u] = h.part]
    BY <1>2, <1>n, <2>1 DEF InsertParticipant
  <2>3. missed[q] = {}
    BY <1>2 DEF Saves
  <2>4. h.op \notin Edits
    BY <1>i, <2>1 DEF RaceInv, EditInv, HasParticipant
  <2> QED
    BY <1>i, <1>c, <2>1, <2>2, <2>3, <2>4, RosterWrite
<1>3. ASSUME Commit(q) PROVE Roster!Next
  <2>1. h.pc = "commit" /\ HasParticipant(q) /\ missed[q] = {}
    BY <1>3 DEF Commit, HasParticipant, HasTrip, Saves, SavesParticipant
  <2>2. h.op \notin Edits /\ h.op \in {"approve", "leave"} /\ h.dirtyP
    BY <1>i, <2>1 DEF RaceInv, DirtyInv, Edits
  <2>3. part' = [part EXCEPT ![h.u] = h.part] /\ trip' = Updated(trip, h.trip, h.dirtyT)
    BY <1>3, <2>2 DEF Commit
  <2>4. trip'.status = trip.status /\ trip'.max = trip.max
    <3>1. CASE SavesTripLater(h)
      <4>1. /\ "status" \in h.dirtyT <=> h.trip.status # trip.status
            /\ "max" \in h.dirtyT <=> h.trip.max # trip.max
        BY <1>i, <2>1, <3>1 DEF RaceInv, DirtyInv
      <4>2. PICK t \in TripRow, p \in PartStatus :
               KnowsTrip(q, t) /\ Write(h.part, h.trip, h.after) \in Plans(h.op, h.u, t, p)
        BY <1>i, <2>1, <2>2 DEF RaceInv, PlanInv, HasParticipant
      <4>3. h.trip.status = t.status /\ h.trip.max = t.max
        <5> HIDE DEF h
        <5> QED
          BY <4>2, PlanFacts
      <4>4. h.trip.status = trip.status /\ h.trip.max = trip.max
        BY <2>1, <4>2, <4>3 DEF KnowsTrip
      <4> QED
        BY <2>3, <4>1, <4>4 DEF Updated
    <3>2. CASE ~SavesTripLater(h)
      <4>1. h.dirtyT = {}
        BY <1>i, <2>1, <3>2 DEF RaceInv, DirtyInv
      <4> QED
        BY <2>3, <4>1 DEF Updated
    <3> QED
      BY <3>1, <3>2
  <2> QED
    BY <1>i, <1>c, <2>1, <2>2, <2>3, <2>4, RosterWrite
<1>4. ASSUME WriteTrip(q) PROVE Roster!Next
  <2>1. part' = part /\ h.pc = "writeTrip" /\ HasTrip(q)
    BY <1>4 DEF WriteTrip, HasTrip
  <2>2. trip' = Updated(trip, h.trip, h.dirtyT) /\ ~InTransaction(h)
    BY <1>4, <1>n, <2>1 DEF WriteTrip
  <2>3. missed[q] = {} /\ SavesTripLater(h)
    BY <1>4, <1>i, <2>1, <2>2 DEF Saves, SavesTrip, RaceInv, DirtyInv
  <2>4. /\ "status" \in h.dirtyT <=> h.trip.status # trip.status
        /\ "max" \in h.dirtyT <=> h.trip.max # trip.max
    BY <1>i, <2>1, <2>3 DEF RaceInv, DirtyInv
  <2>5. trip'.status = h.trip.status /\ trip'.max = h.trip.max
    BY <2>2, <2>4 DEF Updated
  <2>6. h.op \in Edits
    <3>1. ASSUME h.op \notin Edits PROVE FALSE
      <4>1. PICK t \in TripRow, p \in PartStatus :
               Write(h.part, h.trip, h.after) \in Plans(h.op, h.u, t, p)
        BY <1>i, <2>1, <3>1 DEF RaceInv, PlanInv
      <4>2. h.after = "reloadTrip"
        BY <2>3, <3>1 DEF SavesTripLater
      <4>3. h.op \in {"approve", "leave"}
        <5> HIDE DEF h
        <5> QED
          BY <4>1, <4>2, PlanFacts
      <4> QED
        BY <2>2, <4>3 DEF InTransaction
    <3> QED
      BY <3>1
  <2>7. PICK t \in TripRow : KnowsTrip(q, t) /\ h.trip \in Edited(h.op, t)
    BY <1>i, <2>1, <2>6 DEF RaceInv, EditInv
  <2>8. t.status = trip.status /\ t.max = trip.max
    BY <2>3, <2>7 DEF KnowsTrip
  <2>9. /\ h.op = "cancel" => h.trip.status = "cancelled" /\ h.trip.max = t.max
        /\ h.op = "update" => h.trip.status = "pending" /\ t.status = "pending"
                              /\ h.trip.max \in Capacities
    BY <2>6, <2>7, EditFacts
  <2>10. CASE h.op = "cancel"
    BY <2>1, <2>5, <2>8, <2>9, <2>10 DEF Roster!Next, Roster!Cancel
  <2>11. CASE h.op = "update"
    BY <2>1, <2>5, <2>8, <2>9, <2>11 DEF Roster!Next, Roster!Resize
  <2> QED
    BY <2>6, <2>10, <2>11 DEF Edits
<1>5. ASSUME Increment(q) PROVE FALSE
  BY <1>5 DEF Increment, Joining
<1>6. part' # part \/ trip' # trip
  BY DEF Roster!rosterVars
<1> QED
  BY <1>q, <1>1, <1>2, <1>3, <1>4, <1>5, <1>6 DEF HandlerStep, Begin, FindTrip,
     FindParticipant, ReloadParticipant, ReloadTrip, SendIncrement, Seed, Crash

(* For any number of requests at once and any crashes, the handlers of TripsService and  *)
(* ShareLinksService take the steps of TripRoster, in the order in which they save:       *)
(* wherever the counter has not drifted and no link join is halfway, a save of a request  *)
(* that has missed nothing is one step of it, and the other statements are none.          *)
THEOREM RosterKept == RacesSpec => RosterUnlessRaced
<1>1. RacesInv /\ [Next /\ Races]_all
        => [\/ UNCHANGED Roster!rosterVars
            \/ drifted
            \/ Joining # {}
            \/ \E q \in Reqs : missed[q] # {} /\ Saves(q)
            \/ Roster!Next]_all
  BY RosterStep
<1> QED
  BY <1>1, RacesStart, RacesStep, PTL DEF RacesSpec, RosterUnlessRaced

-----------------------------------------------------------------------------
(* A handler that opens a cancelled trip again has missed the cancel. *)
LEMMA ReopensLate ==
    ASSUME RacesInv, Next /\ Races, trip.status = "cancelled", trip'.status # "cancelled"
    PROVE  EndsLate("status")
<1>1. PICK q \in Reqs : WriteTrip(q) \/ Commit(q)
  <2>1. ASSUME NEW q \in Reqs, Increment(q) PROVE FALSE
    BY <2>1 DEF Increment, RacesInv, TypeOK, TripRow
  <2> QED
    BY <2>1 DEF Next, HandlerStep, Begin, Crash, FindTrip, FindParticipant, ReloadParticipant,
                WriteParticipant, InsertParticipant, ReloadTrip, SendIncrement, Seed
<1> DEFINE h == req[q]
<1>2. /\ trip' = Updated(trip, h.trip, h.dirtyT)
      /\ req'[q].pc = "idle" /\ HasTrip(q) /\ h.pc \in {"writeTrip", "commit"}
  BY <1>1 DEF WriteTrip, Commit, Ends, Idle, HasTrip, RacesInv, TypeOK
<1>3. h.trip.status = "pending" /\ "status" \in h.dirtyT
  BY <1>2 DEF Updated, RacesInv, TypeOK, Handler, TripRow
<1>4. RaceInv(q)
  BY DEF RacesInv
<1>5. CASE h.op \in Edits
  <2>1. PICK t \in TripRow : KnowsTrip(q, t) /\ h.trip \in Edited(h.op, t)
    BY <1>2, <1>4, <1>5 DEF RaceInv, EditInv
  <2>2. t.status = "pending"
    BY <1>3, <1>5, <2>1, EditFacts DEF Edits
  <2> QED
    BY <1>2, <2>1, <2>2 DEF KnowsTrip, EndsLate
<1>6. CASE h.op \notin Edits
  <2>1. PICK t \in TripRow, p \in PartStatus :
           KnowsTrip(q, t) /\ Write(h.part, h.trip, h.after) \in Plans(h.op, h.u, t, p)
    BY <1>2, <1>4, <1>6 DEF RaceInv, PlanInv
  <2>2. h.trip.status = t.status
    <3> HIDE DEF h
    <3> QED
      BY <2>1, PlanFacts
  <2> QED
    BY <1>2, <1>3, <2>1, <2>2 DEF KnowsTrip, EndsLate
<1> QED
  BY <1>5, <1>6

(* TripsService.cancel is final for any number of requests at once: a cancelled trip is *)
(* opened again only by a handler that had loaded the trip before the cancel and saves  *)
(* the status it has in memory.                                                         *)
THEOREM CancelStands == RacesSpec => CancelIsFinal
<1>1. RacesInv /\ [Next /\ Races]_all
        => [trip.status = "cancelled" /\ trip'.status # "cancelled" => EndsLate("status")]_all
  BY ReopensLate
<1> QED
  BY <1>1, RacesStart, RacesStep, PTL DEF RacesSpec, CancelIsFinal

(* Who is approved from outside is so by an approval that has missed the end of the *)
(* request, or by the user's own join through a link.                               *)
LEMMA ApprovesLate ==
    ASSUME RacesInv, Next /\ Races, NEW u \in Users,
           part[u] \in Outside, part'[u] = "approved"
    PROVE  \/ EndsLate("row")
           \/ \E q \in Reqs : req[q].op = "link" /\ req[q].u = u
                             /\ req[q].pc \in {"writePart", "insertPart"}
<1>0. part'[u] # part[u]
  BY DEF Outside
<1>1. PICK q \in Reqs : WriteParticipant(q) \/ InsertParticipant(q) \/ Commit(q)
  BY <1>0 DEF Next, HandlerStep, Begin, Crash, FindTrip, FindParticipant, ReloadParticipant,
              ReloadTrip, WriteTrip, SendIncrement, Increment, Seed
<1> DEFINE h == req[q]
<1>2. part' = [part EXCEPT ![h.u] = h.part]
  BY <1>0, <1>1 DEF WriteParticipant, InsertParticipant, Commit
<1>3. h.u = u /\ h.part = "approved"
  BY <1>0, <1>2 DEF RacesInv, TypeOK
<1>4. HasParticipant(q) /\ h.op \notin Edits /\ RaceInv(q) /\ TypeOK
  <2>1. RaceInv(q) /\ TypeOK
    BY DEF RacesInv
  <2>2. HasParticipant(q) /\ h.pc \in {"writePart", "insertPart", "commit"}
    BY <1>1 DEF WriteParticipant, InsertParticipant, Commit, HasParticipant, HasTrip
  <2> QED
    BY <2>1, <2>2 DEF RaceInv, EditInv, HasParticipant
<1>5. h.op \in {"approve", "link"}
  <2>1. PICK t \in TripRow, p \in PartStatus :
           Write(h.part, h.trip, h.after) \in Plans(h.op, h.u, t, p)
    BY <1>4 DEF RaceInv, PlanInv, HasParticipant
  <2>2. h.part = "approved"
    BY <1>3
  <2> HIDE DEF h
  <2> QED
    BY <2>1, <2>2, PlanFacts
<1>6. CASE WriteParticipant(q)
  BY <1>0, <1>3, <1>5, <1>6 DEF WriteParticipant, InTransaction
<1>7. CASE InsertParticipant(q)
  <2>1. h.pc = "insertPart" /\ part[h.u] = "none"
    BY <1>0, <1>7 DEF InsertParticipant
  <2>2. h.op # "approve"
    BY <1>4, <2>1, PlannedRow
  <2> QED
    BY <1>3, <1>5, <2>1, <2>2
<1>8. CASE Commit(q)
  <2>1. h.op = "approve" /\ req'[q].pc = "idle"
    BY <1>4, <1>5, <1>8 DEF Commit, RaceInv, DirtyInv, Ends, Idle, TypeOK
  <2>2. ASSUME "row" \notin missed[q] PROVE FALSE
    <3>1. part[h.u] = "pending"
      BY <1>4, <2>1, <2>2, PlannedRow
    <3> QED
      BY <1>3, <3>1 DEF Outside
  <2> QED
    BY <2>1, <2>2 DEF EndsLate
<1> QED
  BY <1>1, <1>6, <1>7, <1>8

(* TripsService.leaveTrip and rejectJoin, for any number of requests at once: who has    *)
(* withdrawn or was rejected is approved only by an approval that had loaded the request *)
(* while it was pending, or by an own join through a link.                               *)
THEOREM WithdrawalsStand == RacesSpec => WithdrawalStands
<1> DEFINE A == \A u \in Users :
                   part[u] \in Outside /\ part'[u] = "approved"
                     => \/ EndsLate("row")
                        \/ \E q \in Reqs : req[q].op = "link" /\ req[q].u = u
                                          /\ req[q].pc \in {"writePart", "insertPart"}
<1>1. RacesInv /\ [Next /\ Races]_all => [A]_all
  BY ApprovesLate
<1> QED
  BY <1>1, RacesStart, RacesStep, PTL DEF RacesSpec, WithdrawalStands
=============================================================================
