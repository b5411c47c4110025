------------------------ MODULE CommunityMembership ------------------------
(***************************************************************************)
(* Who belongs to a community: the row of one community (join_type,        *)
(* is_active, member_count), the community_member rows of the users other  *)
(* than its creator, and their pending invites (CommunityService).         *)
(*                                                                         *)
(* Handlers run concurrently, one statement at a time, under READ          *)
(* COMMITTED.  A new membership and a departure are transactions: they     *)
(* write the member row, then add to or subtract from the counter in       *)
(* place.  A rejoin, an update and a deletion are a save of an entity read *)
(* earlier.  The save of a member row writes one column, so its reload and *)
(* its UPDATE are one step here; the save of the community writes every    *)
(* column in which the entity differs from the reloaded row, in two steps. *)
(***************************************************************************)
EXTENDS Integers, FiniteSets

CONSTANTS
    Users,    \* the users who are not the creator
    Reqs,     \* the slots in which requests about this community run at once
    None,     \* the holder of a free row lock
    Invites,  \* the invites that are pending at once for one user
    MinCount, \* bound: departures are requested while member_count is above it
    MayFail   \* whether calls fail and processes die

ASSUME CommunityAssumption ==
    /\ IsFiniteSet(Users) /\ Users # {}
    /\ Invites # {}
    /\ None \notin Reqs
    /\ MinCount \in Int
    /\ MayFail \in BOOLEAN

VARIABLES
    community,  \* the committed community row
    member,     \* member[u]: "none" without a row, else its is_active
    pending,    \* pending[u]: the pending invites of u
    lockC,      \* the request that holds the lock of the community row
    lockM,      \* lockM[u]: the request that has written u's member row
    req,        \* req[q]: the handler running in slot q
    staleCount  \* history: a save has written back an outdated member_count

vars == <<community, member, pending, lockC, lockM, req, staleCount>>

Community == [open : BOOLEAN, active : BOOLEAN, count : Int]
Columns == {"open", "active", "count"}

Active == {u \in Users : member[u] = "active"}

(* op, u: the operation and the user it is about, leave being kickMember too;  *)
(* invite: the one answered; entity, cols: the community in memory, where it is *)
(* still needed, and the columns its save writes.                              *)
Request ==
    [pc : {"idle", "findCommunity", "findMember", "findInvite", "answer", "reload",
           "saveCommunity", "rejoin", "insert", "remove", "count", "commit"},
     op : {"join", "leave", "update", "delete", "invite", "accept", "reject"},
     u : Users, invite : Invites, entity : Community, cols : SUBSET Columns]

TypeOK ==
    /\ community \in Community
    /\ community.count <= Cardinality(Users) + 1
    /\ member \in [Users -> {"none", "active", "inactive"}]
    /\ pending \in [Users -> SUBSET Invites]
    /\ lockC \in Reqs \cup {None}
    /\ lockM \in [Users -> Reqs \cup {None}]
    /\ req \in [Reqs -> Request]
    /\ staleCount \in BOOLEAN

Nobody == [open |-> FALSE, active |-> FALSE, count |-> 0]

Idle == [pc |-> "idle", op |-> "join", u |-> CHOOSE u \in Users : TRUE,
         invite |-> CHOOSE i \in Invites : TRUE, entity |-> Nobody, cols |-> {}]

(* create: the creator is the first member and stays one *)
Init ==
    /\ \E open \in BOOLEAN : community = [open |-> open, active |-> TRUE, count |-> 1]
    /\ member = [u \in Users |-> "none"]
    /\ pending = [u \in Users |-> {}]
    /\ lockC = None
    /\ lockM = [u \in Users |-> None]
    /\ req = [q \in Reqs |-> Idle]
    /\ staleCount = FALSE

-----------------------------------------------------------------------------
At(q, step) == req[q].pc = step
Goto(q, step) == req' = [req EXCEPT ![q].pc = step]
Ends(q) == req' = [req EXCEPT ![q] = Idle]

(* A request arrives; assertAdmin and the creator checks compare with the     *)
(* creator's id, which never changes, and refuse without an effect.  An       *)
(* answer starts with reading the pending invite.                             *)
Begin(q, op, u) ==
    /\ At(q, "idle")
    /\ op = "leave" => community.count > MinCount
    /\ IF op \in {"accept", "reject"}
       THEN \E i \in pending[u] :
               req' = [req EXCEPT ![q] = [Idle EXCEPT !.pc = "answer", !.op = op,
                                            !.u = u, !.invite = i]]
       ELSE req' = [req EXCEPT ![q] = [Idle EXCEPT !.pc = "findCommunity", !.op = op, !.u = u]]
    /\ UNCHANGED <<community, member, pending, lockC, lockM, staleCount>>

(* respondToInvite saves the answer, then calls join *)
AnswerInvite(q) ==
    LET r == req[q] IN
    /\ At(q, "answer")
    /\ pending' = [pending EXCEPT ![r.u] = @ \ {r.invite}]
    /\ IF r.op = "accept"
       THEN req' = [req EXCEPT ![q].op = "join", ![q].pc = "findCommunity"]
       ELSE Ends(q)
    /\ UNCHANGED <<community, member, lockC, lockM, staleCount>>

(* findOne of a deleted community, and join of an invite-only one, throw *)
FindCommunity(q) ==
    LET r == req[q]
        found == community.active /\ (r.op = "join" => community.open)
        read == [req EXCEPT ![q].entity = community]
    IN
    /\ At(q, "findCommunity")
    /\ CASE ~found -> Ends(q)
         [] found /\ r.op = "update" ->
              \E open \in BOOLEAN :
                 req' = [read EXCEPT ![q].entity.open = open, ![q].pc = "reload"]
         [] found /\ r.op = "delete" ->
              req' = [read EXCEPT ![q].entity.active = FALSE, ![q].pc = "reload"]
         [] found /\ r.op = "invite" -> req' = [read EXCEPT ![q].pc = "findMember"]
         [] OTHER -> Goto(q, "findMember")
    /\ UNCHANGED <<community, member, pending, lockC, lockM, staleCount>>

(* The member row as committed: who joins must not be active, who leaves or    *)
(* is kicked must be; an invited user, if there is one with that phone, must   *)
(* not be.                                                                     *)
FindMember(q) ==
    LET r == req[q] IN
    /\ At(q, "findMember")
    /\ IF (member[r.u] = "active") # (r.op = "leave") THEN Ends(q)
       ELSE Goto(q, CASE r.op = "leave" -> "remove"
                      [] r.op = "invite" -> "findInvite"
                      [] r.op = "join" /\ member[r.u] = "none" -> "insert"
                      [] OTHER -> "rejoin")
    /\ UNCHANGED <<community, member, pending, lockC, lockM, staleCount>>

(* Invites that a running request has read keep their id to themselves *)
FreshInvites(u) ==
    Invites \ (pending[u] \cup {req[o].invite : o \in {p \in Reqs : At(p, "answer")}})

(* invite of one phone number: a user is added at once to an open community; a *)
(* number without a user, who is then no member, and anybody in an invite-only *)
(* community gets an invite, unless one is pending.                            *)
InviteMember(q) ==
    LET r == req[q] IN
    /\ At(q, "findInvite")
    /\ \/ /\ pending[r.u] # {}
          /\ Ends(q)
          /\ UNCHANGED pending
       \/ /\ pending[r.u] = {} /\ r.entity.open
          /\ req' = [req EXCEPT ![q].op = "join", ![q].entity = Nobody,
                                 ![q].pc = "findCommunity"]
          /\ UNCHANGED pending
       \/ /\ pending[r.u] = {}
          /\ r.entity.open => member[r.u] = "none"
          /\ \E i \in FreshInvites(r.u) : pending' = [pending EXCEPT ![r.u] = {i}]
          /\ Ends(q)
    /\ UNCHANGED <<community, member, lockC, lockM, staleCount>>

-----------------------------------------------------------------------------
(* save of the community: the columns in which the entity differs from the row *)
Differing(entity) == {c \in Columns : entity[c] # community[c]}

ReloadCommunity(q) ==
    /\ At(q, "reload")
    /\ req' = [req EXCEPT ![q].cols = Differing(req[q].entity), ![q].pc = "saveCommunity"]
    /\ UNCHANGED <<community, member, pending, lockC, lockM, staleCount>>

SaveCommunity(q) ==
    LET r == req[q] IN
    /\ At(q, "saveCommunity")
    /\ r.cols # {} => lockC = None
    /\ community' = [c \in Columns |-> IF c \in r.cols THEN r.entity[c] ELSE community[c]]
    /\ staleCount' = (staleCount \/ "count" \in r.cols)
    /\ Ends(q)
    /\ UNCHANGED <<member, pending, lockC, lockM>>

(* The rejoin of join: committed on its own, and the counter is left alone *)
Rejoin(q) ==
    LET u == req[q].u IN
    /\ At(q, "rejoin")
    /\ member[u] # "active" => lockM[u] = None
    /\ member' = [member EXCEPT ![u] = "active"]
    /\ Ends(q)
    /\ UNCHANGED <<community, pending, lockC, lockM, staleCount>>

(* Mutant: ON CONFLICT DO NOTHING *)
InsertOrIgnore(q) ==
    /\ At(q, "insert")
    /\ lockM' = [lockM EXCEPT ![req[q].u] = IF @ = None THEN q ELSE @]
    /\ Goto(q, "count")
    /\ UNCHANGED <<community, member, pending, lockC, staleCount>>

(* The INSERT of join waits for another one of the same user and violates the  *)
(* unique constraint when that one has been committed: rollback.               *)
InsertMember(q) ==
    LET u == req[q].u IN
    /\ At(q, "insert")
    /\ lockM[u] = None
    /\ IF member[u] = "none"
       THEN Goto(q, "count") /\ lockM' = [lockM EXCEPT ![u] = q]
       ELSE Ends(q) /\ UNCHANGED lockM
    /\ UNCHANGED <<community, member, pending, lockC, staleCount>>

(* Mutant: the counter is forgotten *)
RemoveUncounted(q) ==
    LET u == req[q].u IN
    /\ At(q, "remove")
    /\ lockM[u] = None
    /\ lockM' = [lockM EXCEPT ![u] = q]
    /\ Goto(q, "commit")
    /\ UNCHANGED <<community, member, pending, lockC, staleCount>>

(* leave, kickMember: save of is_active = false, no UPDATE when it is already *)
RemoveMember(q) ==
    LET u == req[q].u IN
    /\ At(q, "remove")
    /\ IF member[u] = "inactive" THEN UNCHANGED lockM
       ELSE lockM[u] = None /\ lockM' = [lockM EXCEPT ![u] = q]
    /\ Goto(q, "count")
    /\ UNCHANGED <<community, member, pending, lockC, staleCount>>

(* increment, decrement: count = count + 1, count - 1 *)
CountMember(q) ==
    /\ At(q, "count")
    /\ lockC = None
    /\ lockC' = q
    /\ Goto(q, "commit")
    /\ UNCHANGED <<community, member, pending, lockM, staleCount>>

(* Mutant: the row lock of the community survives the transaction *)
UnlockMember(q) ==
    /\ lockC' = lockC
    /\ lockM' = [u \in Users |-> IF lockM[u] = q THEN None ELSE lockM[u]]

Unlock(q) ==
    /\ lockC' = IF lockC = q THEN None ELSE lockC
    /\ lockM' = [u \in Users |-> IF lockM[u] = q THEN None ELSE lockM[u]]

(* What the transaction has written becomes visible *)
Commit(q) ==
    LET r == req[q] IN
    /\ At(q, "commit")
    /\ community' = [community EXCEPT !.count =
                       IF lockC # q THEN @ ELSE IF r.op = "join" THEN @ + 1 ELSE @ - 1]
    /\ member' = [u \in Users |-> IF lockM[u] # q THEN member[u]
                                  ELSE IF r.op = "join" THEN "active" ELSE "inactive"]
    /\ Unlock(q)
    /\ Ends(q)
    /\ UNCHANGED <<pending, staleCount>>

(* A call fails or the process dies: an open transaction is rolled back *)
Abort(q) ==
    /\ MayFail
    /\ ~At(q, "idle")
    /\ Unlock(q)
    /\ Ends(q)
    /\ UNCHANGED <<community, member, pending, staleCount>>

-----------------------------------------------------------------------------
HandlerStep(q) ==
    \/ AnswerInvite(q)
    \/ FindCommunity(q)
    \/ FindMember(q)
    \/ InviteMember(q)
    \/ ReloadCommunity(q)
    \/ SaveCommunity(q)
    \/ Rejoin(q)
    \/ InsertMember(q)
    \/ RemoveMember(q)
    \/ CountMember(q)
    \/ Commit(q)

Next ==
    \E q \in Reqs :
       \/ \E u \in Users,
             op \in {"join", "leave", "update", "delete", "invite", "accept", "reject"} :
             Begin(q, op, u)
       \/ HandlerStep(q)
       \/ Abort(q)

Spec == Init /\ [][Next]_vars

(* A statement that was issued is executed, and Postgres serves the waiters    *)
(* for a row lock in turn.                                                     *)
Fairness == \A q \in Reqs : SF_vars(HandlerStep(q))

FairSpec == Spec /\ Fairness

-----------------------------------------------------------------------------
(* Properties *)

(* member_count, the "stored counter", never promises more members than there  *)
(* are (the creator and the active ones), whatever joins, departures, rejoins, *)
(* kicks and failures overlap; only an update or deletion that writes back the *)
(* value it read before another request changed it can make it.               *)
CountNeverOverstates ==
    staleCount \/ community.count <= Cardinality(Active) + 1

(* Transactions lock the member row before the community row, so no two wait   *)
(* for each other: every request is answered.                                  *)
EveryRequestEnds == \A q \in Reqs : ~At(q, "idle") ~> At(q, "idle")
=============================================================================
