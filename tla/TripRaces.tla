----------------------------- MODULE TripRaces -----------------------------
(***************************************************************************)
(* TripMembership under concurrent requests, with history variables: what  *)
(* each request has missed since it loaded the rows, and whether the       *)
(* stored counter may be wrong.                                            *)
(***************************************************************************)
EXTENDS TripMembership

VARIABLES
    missed,     \* missed[q]: the columns of the trip that have changed since q
                \* loaded it, and "row" when the participant it loaded has
    drifted     \* the counter has lost its meaning

all == <<vars, missed, drifted>>

HasTrip(q) == req[q].pc \notin {"idle", "findTrip"}
HasParticipant(q) == HasTrip(q) /\ req[q].pc # "findPart"

Changes(q) ==
    (IF HasTrip(q) THEN Differing(trip, trip') ELSE {})
      \cup (IF HasParticipant(q) /\ part'[req[q].u] # part[req[q].u] THEN {"row"} ELSE {})

(* The steps in which a request commits what it has to save *)
SavesParticipant(q) ==
    \/ WriteParticipant(q) /\ ~InTransaction(req[q])
    \/ Commit(q)

SavesTrip(q) ==
    \/ WriteTrip(q) /\ ~InTransaction(req[q])
    \/ Commit(q) /\ req[q].after = "reloadTrip"

Saves(q) == SavesParticipant(q) \/ SavesTrip(q) \/ InsertParticipant(q)

(* The link joins between their INSERT or UPDATE and their increment *)
Joining == {q \in Reqs : req[q].pc \in {"increment", "incrementing"}}

(* What makes the counter wrong: a trip saved over a change of the counter, a     *)
(* participant saved over a change of their row, the end of a process halfway     *)
(* through a link join, and a departure that would take the counter below 0       *)
(* (for which two link joins have to be halfway).                                 *)
Drifts(q) ==
    \/ "cur" \in missed[q] /\ SavesTrip(q)
    \/ "row" \in missed[q] /\ SavesParticipant(q)
    \/ q \in Joining /\ Crash(q)
    \/ req[q].op = "leave" /\ trip.cur = 0 /\ SavesTrip(q)

Races ==
    /\ missed' = [q \in Reqs |-> IF req'[q].pc = "idle" THEN {} ELSE missed[q] \cup Changes(q)]
    /\ drifted' = (drifted \/ \E q \in Reqs : Drifts(q))

RacesInit == Init /\ missed = [q \in Reqs |-> {}] /\ drifted = FALSE

RacesSpec == RacesInit /\ [][Next /\ Races]_all

-----------------------------------------------------------------------------
(* Properties *)

(* A request that ends with this step and has missed this *)
EndsLate(what) == \E q \in Reqs : what \in missed[q] /\ req'[q].pc = "idle"

(* A cancelled trip stays cancelled: no handler opens it again but one that had       *)
(* loaded the trip before the cancel, and saves the status it has in memory.          *)
CancelIsFinal ==
    [][trip.status = "cancelled" /\ trip'.status # "cancelled" => EndsLate("status")]_all

(* Who has withdrawn or was rejected is not approved before asking again: only an     *)
(* approval that had loaded the request while it was pending does it, or the user's   *)
(* own join through a link.                                                           *)
Outside == {"none", "rejected", "left"}

WithdrawalStands ==
    [][\A u \in Users :
          part[u] \in Outside /\ part'[u] = "approved"
            => \/ EndsLate("row")
               \/ \E q \in Reqs : req[q].op = "link" /\ req[q].u = u
                                 /\ req[q].pc \in {"writePart", "insertPart"}]_all

(* "Increments current_participants", "Decrements current_participants if they were   *)
(* approved": with any requests under way, the counter and the link joins that are    *)
(* halfway make up the approved participants, until a request saves over a change it  *)
(* has missed or a process dies halfway through a link join.                          *)
CountHolds == ~drifted => trip.cur + Cardinality(Joining) = Cardinality(Approved)

(* Any requests at once amount to what TripRoster does at once, in the order in which  *)
(* they save, where no save overtakes a change of the rows its request had loaded: the *)
(* interleaving of the rest, the counter in place of a count, the saves of whole       *)
(* entities, the rollbacks and crashes do not show.                                    *)
RosterUnlessRaced ==
    [][\/ UNCHANGED Roster!rosterVars
       \/ drifted
       \/ Joining # {}
       \/ \E q \in Reqs : missed[q] # {} /\ Saves(q)
       \/ Roster!Next]_all
=============================================================================
