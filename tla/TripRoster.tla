----------------------------- MODULE TripRoster -----------------------------
(***************************************************************************)
(* What a trip promises its users, without rows, statements, counters or   *)
(* crashes: who asks, is approved, rejected or leaves does so at once, and *)
(* nobody asks or is approved when all seats are taken.                    *)
(***************************************************************************)
EXTENDS Naturals, FiniteSets

CONSTANTS Members, Creator, Sizes

VARIABLES
    standing,   \* standing[u]: how u stands to the trip
    open,       \* the trip has not been cancelled
    seats       \* how many the trip has

rosterVars == <<standing, open, seats>>

Outside == {"none", "rejected", "left"}

HasRoom == Cardinality({u \in Members : standing[u] = "approved"}) < seats

Init ==
    /\ standing = [u \in Members |-> IF u = Creator THEN "approved" ELSE "none"]
    /\ open = TRUE
    /\ seats \in Sizes

Becomes(u, before, after) ==
    /\ standing[u] \in before
    /\ standing' = [standing EXCEPT ![u] = after]
    /\ UNCHANGED <<open, seats>>

(* A new request is for a trip that is open and has a seat ... *)
Ask(u) == u # Creator /\ open /\ HasRoom /\ Becomes(u, Outside, "pending")

(* ... as is a join through a link, *)
JoinFreely(u) == u # Creator /\ open /\ HasRoom /\ Becomes(u, Outside, "approved")

(* and the answer needs a seat, too. *)
Admit(u) == HasRoom /\ Becomes(u, {"pending"}, "approved")

Refuse(u) == Becomes(u, {"pending"}, "rejected")

Leave(u) == u # Creator /\ Becomes(u, {"pending", "approved", "rejected"}, "left")

Cancel == open' = FALSE /\ UNCHANGED <<standing, seats>>

(* Taking seats away sends nobody home *)
Resize ==
    /\ open
    /\ seats' \in Sizes
    /\ UNCHANGED <<standing, open>>

Next ==
    \/ \E u \in Members : Ask(u) \/ JoinFreely(u) \/ Admit(u) \/ Refuse(u) \/ Leave(u)
    \/ Cancel
    \/ Resize

Spec == Init /\ [][Next]_rosterVars
=============================================================================
