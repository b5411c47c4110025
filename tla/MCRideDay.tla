----------------------------- MODULE MCRideDay -----------------------------
(* A ride, for TLC: the requests about who is on the trip, the stops, and the  *)
(* live position of a rider.  They share no state in the models, so each       *)
(* behaviour follows the one that `focus` names; the others stay in their      *)
(* initial states, where none of their fair actions is enabled.                *)
EXTENDS StopProgress

CONSTANTS
    Users, Creator, Capacities, Ops, CrashOps,  \* TripMembership
    Cells, Slots                                \* LocationPresence

VARIABLES
    focus,
    trip, part, lockT, lockP, tripReq,
    rest, pos, count, countTtl, socket, handler, view, raced, deaths

Trip == INSTANCE TripMembership WITH req <- tripReq

Presence == INSTANCE LocationPresence WITH Reqs <- Slots, MaxDeaths <- 1

membership == <<trip, part, lockT, lockP, tripReq>>
presence == <<rest, pos, count, countTtl, socket, handler, view, raced, deaths>>
all == <<focus, vars, membership, presence>>

MCInit ==
    /\ Init /\ Trip!Init /\ Presence!Init
    /\ focus \in {"trip", "stops", "presence"}
    /\ focus # "presence" => ~rest

MCNext ==
    /\ UNCHANGED focus
    /\ IF focus = "trip" THEN Trip!Next ELSE UNCHANGED membership
    /\ IF focus = "stops" THEN Next ELSE UNCHANGED vars
    /\ IF focus = "presence" THEN Presence!Next ELSE UNCHANGED presence

MCSpec ==
    /\ MCInit /\ [][MCNext]_all
    /\ Trip!Fairness /\ Fairness /\ Presence!Fairness

(* Every request about the trip ends *)
EveryRequestEnds == Trip!EveryRequestEnds

(* A rider who was limited can update again *)
LimitLifts == Presence!LimitLifts
=============================================================================
