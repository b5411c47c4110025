--------------------- MODULE CommunityMembershipProofs ---------------------
(***************************************************************************)
(* The rows of a community keep their types, and its counter promises no   *)
(* members that are not there, for any users, any number of requests at    *)
(* once and any failures.                                                  *)
(***************************************************************************)
EXTENDS CommunityMembership, FiniteSetTheorems, TLAPS

USE CommunityAssumption

Statuses == {"none", "active", "inactive"}

(* TypeOK without the bound of the counter, which CountsBounded is about *)
Types ==
    /\ community \in Community
    /\ member \in [Users -> Statuses]
    /\ pending \in [Users -> SUBSET Invites]
    /\ lockC \in Reqs \cup {None}
    /\ lockM \in [Users -> Reqs \cup {None}]
    /\ req \in [Reqs -> Request]
    /\ staleCount \in BOOLEAN

(* Who has a row, active or not; a row is never deleted *)
Known == {u \in Users : member[u] # "none"}

(* A new row adds one to the counter, at most: neither the committed counter nor *)
(* one in the memory of a request is above the number of rows.                  *)
CountsBounded ==
    /\ community.count <= Cardinality(Known) + 1
    /\ \A q \in Reqs : req[q].entity.count <= Cardinality(Known) + 1

(* What a transaction holds: the community row from the counting to the commit, *)
(* no member row but that of its user, and for a join this one, still unused.   *)
Holds(q) ==
    /\ req[q].pc = "insert" => req[q].op = "join"
    /\ req[q].pc = "remove" => req[q].op = "leave"
    /\ req[q].pc \in {"count", "commit"} => req[q].op \in {"join", "leave"}
    /\ req[q].pc \in {"count", "commit"} /\ req[q].op = "join"
         => lockM[req[q].u] = q /\ member[req[q].u] = "none"
    /\ req[q].pc = "commit" <=> lockC = q
    /\ \A u \in Users : lockM[u] = q => u = req[q].u /\ req[q].pc \in {"count", "commit"}

Transactions == \A q \in Reqs : Holds(q)

Inv == Types /\ Transactions /\ CountsBounded /\ CountNeverOverstates

-----------------------------------------------------------------------------
LEMMA IdleType ==
    /\ Idle \in Request
    /\ Idle.pc = "idle" /\ Idle.entity = Nobody /\ Nobody.count = 0
<1>1. (CHOOSE u \in Users : TRUE) \in Users /\ (CHOOSE i \in Invites : TRUE) \in Invites
  OBVIOUS
<1> QED
  BY <1>1 DEF Idle, Request, Nobody, Community

(* What a step leaves in the request that takes it, and in the others *)
LEMMA GotoFields ==
    ASSUME Types, NEW q \in Reqs,
           NEW step \in {"findMember", "findInvite", "rejoin", "insert", "remove", "count",
                         "commit"},
           Goto(q, step)
    PROVE  /\ req' \in [Reqs -> Request]
           /\ req'[q].pc = step /\ req'[q].op = req[q].op /\ req'[q].u = req[q].u
           /\ req'[q].entity = req[q].entity
           /\ \A p \in Reqs : p # q => req'[p] = req[p]
<1> DEFINE new == [req[q] EXCEPT !.pc = step]
<1>1. new \in Request
  BY DEF Types, Request
<1>2. req' = [req EXCEPT ![q] = new]
  BY DEF Goto, Types
<1>3. new.pc = step /\ new.op = req[q].op /\ new.u = req[q].u /\ new.entity = req[q].entity
  BY DEF Types, Request
<1> HIDE DEF new
<1> QED
  BY <1>1, <1>2, <1>3 DEF Types

LEMMA EndsFields ==
    ASSUME Types, NEW q \in Reqs, Ends(q)
    PROVE  /\ req' \in [Reqs -> Request]
           /\ req'[q].pc = "idle" /\ req'[q].entity.count = 0
           /\ \A p \in Reqs : p # q => req'[p] = req[p]
  BY IdleType DEF Ends, Types

LEMMA UnlockType ==
    ASSUME Types, NEW q \in Reqs, Unlock(q)
    PROVE  /\ lockC' \in Reqs \cup {None}
           /\ lockM' \in [Users -> Reqs \cup {None}]
           /\ lockC' = IF lockC = q THEN None ELSE lockC
           /\ \A u \in Users : lockM'[u] = IF lockM[u] = q THEN None ELSE lockM[u]
  BY DEF Unlock, Types

(* A record with some of its columns replaced *)
LEMMA RowType ==
    ASSUME NEW old \in Community, NEW new \in Community, NEW cols,
           NEW row, row = [c \in Columns |-> IF c \in cols THEN new[c] ELSE old[c]]
    PROVE  /\ row \in Community
           /\ row.count = IF "count" \in cols THEN new.count ELSE old.count
<1>1. /\ row = [open |-> row.open, active |-> row.active, count |-> row.count]
      /\ row.open = IF "open" \in cols THEN new.open ELSE old.open
      /\ row.active = IF "active" \in cols THEN new.active ELSE old.active
      /\ row.count = IF "count" \in cols THEN new.count ELSE old.count
  BY DEF Columns
<1>2. row.open \in BOOLEAN /\ row.active \in BOOLEAN /\ row.count \in Int
  BY <1>1 DEF Community
<1> QED
  BY <1>1, <1>2 DEF Community

(* The rows of a subset of the users are finitely many *)
LEMMA SubsetCount ==
    ASSUME NEW S \in SUBSET Users
    PROVE  IsFiniteSet(S) /\ Cardinality(S) \in Nat /\ Cardinality(S) <= Cardinality(Users)
  BY FS_Subset, FS_CardinalityType

-----------------------------------------------------------------------------
(* Every step of a request keeps the types. *)
LEMMA TypeStep == Types /\ [Next]_vars => Types'
<1> SUFFICES ASSUME Types, [Next]_vars PROVE Types'
  OBVIOUS
<1>1. ASSUME NEW q \in Reqs, NEW u \in Users,
             NEW op \in {"join", "leave", "update", "delete", "invite", "accept", "reject"},
             Begin(q, op, u)
      PROVE  Types'
  <2>1. \A i \in Invites : [Idle EXCEPT !.pc = "answer", !.op = op, !.u = u, !.invite = i]
                             \in Request
    BY IdleType DEF Request
  <2>2. [Idle EXCEPT !.pc = "findCommunity", !.op = op, !.u = u] \in Request
    BY IdleType DEF Request
  <2>3. CASE op \in {"accept", "reject"}
    <3>1. PICK i \in pending[u] :
             req' = [req EXCEPT ![q] = [Idle EXCEPT !.pc = "answer", !.op = op, !.u = u,
                                                    !.invite = i]]
      BY <1>1, <2>3 DEF Begin
    <3>2. i \in Invites
      BY DEF Types
    <3>3. [Idle EXCEPT !.pc = "answer", !.op = op, !.u = u, !.invite = i] \in Request
      BY <2>1, <3>2
    <3> QED
      BY <1>1, <3>1, <3>3 DEF Begin, Types
  <2>4. CASE op \notin {"accept", "reject"}
    <3>1. req' = [req EXCEPT ![q] = [Idle EXCEPT !.pc = "findCommunity", !.op = op, !.u = u]]
      BY <1>1, <2>4 DEF Begin
    <3> QED
      BY <1>1, <2>2, <3>1 DEF Begin, Types
  <2> QED
    BY <2>3, <2>4
<1>2. ASSUME NEW q \in Reqs, AnswerInvite(q) PROVE Types'
  <2>1. req' \in [Reqs -> Request]
    BY <1>2, EndsFields DEF AnswerInvite, Types, Request
  <2>2. pending' \in [Users -> SUBSET Invites]
    BY <1>2 DEF AnswerInvite, Types, Request
  <2> QED
    BY <1>2, <2>1, <2>2 DEF AnswerInvite, Types
<1>3. ASSUME NEW q \in Reqs, FindCommunity(q) PROVE Types'
  <2>1. ASSUME NEW h \in Request, req' = [req EXCEPT ![q] = h]
        PROVE  req' \in [Reqs -> Request]
    BY <2>1 DEF Types
  <2>2. req' \in [Reqs -> Request]
    <3>1. CASE Ends(q) \/ Goto(q, "findMember")
      BY <3>1, EndsFields, GotoFields
    <3>2. ASSUME NEW open \in BOOLEAN,
                 req' = [[req EXCEPT ![q].entity = community]
                            EXCEPT ![q].entity.open = open, ![q].pc = "reload"]
          PROVE  req' \in [Reqs -> Request]
      <4> DEFINE k == [req[q] EXCEPT !.entity = community]
                 new == [k EXCEPT !.entity.open = open, !.pc = "reload"]
      <4>1. k \in Request /\ k.entity = community
        BY DEF Types, Request
      <4>2. new \in Request
        <5>1. new = [k EXCEPT !.entity = [community EXCEPT !.open = open], !.pc = "reload"]
          BY <4>1
        <5>2. [community EXCEPT !.open = open] \in Community
          BY DEF Types, Community
        <5> QED
          BY <4>1, <5>1, <5>2 DEF Request
      <4>3. req' = [req EXCEPT ![q] = new]
        BY <3>2, ZenonT(60) DEF Types
      <4> QED
        BY <2>1, <4>2, <4>3
    <3>3. ASSUME req' = [[req EXCEPT ![q].entity = community]
                            EXCEPT ![q].entity.active = FALSE, ![q].pc = "reload"]
          PROVE  req' \in [Reqs -> Request]
      <4> DEFINE k == [req[q] EXCEPT !.entity = community]
                 new == [k EXCEPT !.entity.active = FALSE, !.pc = "reload"]
      <4>1. k \in Request /\ k.entity = community
        BY DEF Types, Request
      <4>2. new \in Request
        <5>1. new = [k EXCEPT !.entity = [community EXCEPT !.active = FALSE], !.pc = "reload"]
          BY <4>1
        <5>2. [community EXCEPT !.active = FALSE] \in Community
          BY DEF Types, Community
        <5> QED
          BY <4>1, <5>1, <5>2 DEF Request
      <4>3. req' = [req EXCEPT ![q] = new]
        BY <3>3, ZenonT(60) DEF Types
      <4> QED
        BY <2>1, <4>2, <4>3
    <3>4. ASSUME req' = [[req EXCEPT ![q].entity = community] EXCEPT ![q].pc = "findMember"]
          PROVE  req' \in [Reqs -> Request]
      <4>1. [req[q] EXCEPT !.entity = community, !.pc = "findMember"] \in Request
        BY ZenonT(60) DEF Types, Request
      <4>2. req' = [req EXCEPT ![q] = [req[q] EXCEPT !.entity = community, !.pc = "findMember"]]
        BY <3>4, ZenonT(60) DEF Types, Request
      <4> QED
        BY <2>1, <4>1, <4>2
    <3> QED
      BY <1>3, <3>1, <3>2, <3>3, <3>4 DEF FindCommunity
  <2> QED
    BY <1>3, <2>2 DEF FindCommunity, Types
<1>4. ASSUME NEW q \in Reqs, FindMember(q) PROVE Types'
  BY <1>4, EndsFields, GotoFields DEF FindMember, Types
<1>5. ASSUME NEW q \in Reqs, InviteMember(q) PROVE Types'
  <2>1. req' \in [Reqs -> Request]
    BY <1>5, EndsFields, IdleType DEF InviteMember, Types, Request, Nobody, Community
  <2>2. pending' \in [Users -> SUBSET Invites]
    BY <1>5 DEF InviteMember, FreshInvites, Types
  <2>3. UNCHANGED <<community, member, lockC, lockM, staleCount>>
    BY <1>5 DEF InviteMember
  <2> QED
    BY <2>1, <2>2, <2>3 DEF Types
<1>6. ASSUME NEW q \in Reqs, ReloadCommunity(q) PROVE Types'
  <2>1. Differing(req[q].entity) \in SUBSET Columns
    BY DEF Differing
  <2>2. [req[q] EXCEPT !.cols = Differing(req[q].entity), !.pc = "saveCommunity"] \in Request
    BY <2>1, ZenonT(60) DEF Types, Request
  <2>3. req' \in [Reqs -> Request]
    BY <1>6, <2>2 DEF ReloadCommunity, Types
  <2> QED
    BY <1>6, <2>3 DEF ReloadCommunity, Types
<1>7. ASSUME NEW q \in Reqs, SaveCommunity(q) PROVE Types'
  <2>1. req[q].entity \in Community
    BY DEF Types, Request
  <2>2. community' \in Community
    BY <1>7, <2>1, RowType DEF SaveCommunity, Types
  <2>3. staleCount' \in BOOLEAN
    BY <1>7 DEF SaveCommunity
  <2> QED
    BY <1>7, <2>2, <2>3, EndsFields DEF SaveCommunity, Types
<1>8. ASSUME NEW q \in Reqs, Rejoin(q) PROVE Types'
  BY <1>8, EndsFields DEF Rejoin, Types, Statuses
<1>9. ASSUME NEW q \in Reqs, InsertMember(q) PROVE Types'
  BY <1>9, EndsFields, GotoFields DEF InsertMember, Types
<1>10. ASSUME NEW q \in Reqs, RemoveMember(q) PROVE Types'
  BY <1>10, GotoFields DEF RemoveMember, Types
<1>11. ASSUME NEW q \in Reqs, CountMember(q) PROVE Types'
  BY <1>11, GotoFields DEF CountMember, Types
<1>12. ASSUME NEW q \in Reqs, Commit(q) PROVE Types'
  <2>1. community' \in Community
    BY <1>12 DEF Commit, Types, Community
  <2>2. member' \in [Users -> Statuses]
    BY <1>12 DEF Commit, Types, Statuses
  <2> QED
    BY <1>12, <2>1, <2>2, EndsFields, UnlockType DEF Commit, Types
<1>13. ASSUME NEW q \in Reqs, Abort(q) PROVE Types'
  BY <1>13, EndsFields, UnlockType DEF Abort, Types
<1>14. CASE UNCHANGED vars
  BY <1>14 DEF vars, Types
<1> QED
  BY <1>1, <1>2, <1>3, <1>4, <1>5, <1>6, <1>7, <1>8, <1>9, <1>10, <1>11, <1>12, <1>13,
     <1>14 DEF Next, HandlerStep

-----------------------------------------------------------------------------
(* A step of q leaves the other transactions alone if it changes no lock of theirs *)
(* and no member row that is locked.                                               *)
LEMMA OthersHold ==
    ASSUME Types, Transactions, NEW q \in Reqs,
           \A p \in Reqs : p # q => req'[p] = req[p] /\ (lockC' = p <=> lockC = p),
           \A u \in Users, p \in Reqs : p # q => (lockM'[u] = p <=> lockM[u] = p),
           \A u \in Users : lockM[u] \notin {None, q} => member'[u] = member[u],
           Holds(q)'
    PROVE  Transactions'
<1> SUFFICES ASSUME NEW p \in Reqs, p # q PROVE Holds(p)'
  BY DEF Transactions
<1>1. Holds(p) /\ req[p].u \in Users /\ p # None
  BY DEF Transactions, Types, Request
<1>2. req'[p] = req[p]
  OBVIOUS
<1> QED
  BY <1>1, <1>2 DEF Holds

(* A step of a request that holds nothing, and takes nothing *)
LEMMA FreeStep ==
    ASSUME Types, Transactions, NEW q \in Reqs,
           req[q].pc \notin {"count", "commit"}, req'[q].pc \notin {"count", "commit"},
           req'[q].pc = "insert" => req'[q].op = "join",
           req'[q].pc = "remove" => req'[q].op = "leave",
           \A p \in Reqs : p # q => req'[p] = req[p],
           UNCHANGED <<lockC, lockM>>,
           \A u \in Users : lockM[u] # None => member'[u] = member[u]
    PROVE  Transactions'
<1>1. Holds(q)'
  BY DEF Transactions, Holds
<1> QED
  BY <1>1, OthersHold

(* The end of a transaction *)
LEMMA UnlockStep ==
    ASSUME Types, Transactions, NEW q \in Reqs, Unlock(q), Ends(q),
           \A u \in Users : lockM[u] # q => member'[u] = member[u]
    PROVE  Transactions'
<1>1. Holds(q)'
  BY EndsFields, UnlockType DEF Holds
<1> QED
  BY <1>1, OthersHold, EndsFields, UnlockType

(* Every step keeps what the transactions hold. *)
LEMMA TransactionStep == Types /\ Transactions /\ [Next]_vars => Transactions'
<1> SUFFICES ASSUME Types, Transactions, [Next]_vars PROVE Transactions'
  OBVIOUS
<1>1. ASSUME NEW q \in Reqs, NEW u \in Users,
             NEW op \in {"join", "leave", "update", "delete", "invite", "accept", "reject"},
             Begin(q, op, u)
      PROVE  Transactions'
  <2>0. /\ \A i : [Idle EXCEPT !.pc = "answer", !.op = op, !.u = u, !.invite = i].pc = "answer"
        /\ [Idle EXCEPT !.pc = "findCommunity", !.op = op, !.u = u].pc = "findCommunity"
    BY DEF Idle
  <2>1. req[q].pc = "idle" /\ req'[q].pc \in {"answer", "findCommunity"}
    <3>1. CASE op \in {"accept", "reject"}
      <4>1. PICK i \in pending[u] :
               req' = [req EXCEPT ![q] = [Idle EXCEPT !.pc = "answer", !.op = op, !.u = u,
                                                      !.invite = i]]
        BY <1>1, <3>1 DEF Begin
      <4> QED
        BY <1>1, <2>0, <4>1 DEF Begin, At, Types
    <3>2. CASE op \notin {"accept", "reject"}
      BY <1>1, <2>0, <3>2 DEF Begin, At, Types
    <3> QED
      BY <3>1, <3>2
  <2>2. \A p \in Reqs : p # q => req'[p] = req[p]
    BY <1>1 DEF Begin, Types
  <2> QED
    BY <1>1, <2>1, <2>2, FreeStep DEF Begin
<1>2. ASSUME NEW q \in Reqs, AnswerInvite(q) PROVE Transactions'
  <2>1. req[q].pc = "answer" /\ req'[q].pc \in {"idle", "findCommunity"}
    BY <1>2, EndsFields DEF AnswerInvite, At, Types, Request
  <2>2. \A p \in Reqs : p # q => req'[p] = req[p]
    BY <1>2, EndsFields DEF AnswerInvite, Types
  <2> QED
    BY <1>2, <2>1, <2>2, FreeStep DEF AnswerInvite
<1>3. ASSUME NEW q \in Reqs, FindCommunity(q) PROVE Transactions'
  <2>1. req[q].pc = "findCommunity" /\ req'[q].pc \in {"idle", "reload", "findMember"}
    <3>1. CASE Ends(q) \/ Goto(q, "findMember")
      BY <1>3, <3>1, EndsFields, GotoFields DEF FindCommunity, At
    <3>2. ASSUME NEW open \in BOOLEAN,
                 req' = [[req EXCEPT ![q].entity = community]
                            EXCEPT ![q].entity.open = open, ![q].pc = "reload"]
          PROVE  req'[q].pc = "reload"
      BY <3>2 DEF Types, Request
    <3>3. ASSUME req' = [[req EXCEPT ![q].entity = community]
                            EXCEPT ![q].entity.active = FALSE, ![q].pc = "reload"]
          PROVE  req'[q].pc = "reload"
      BY <3>3 DEF Types, Request
    <3>4. ASSUME req' = [[req EXCEPT ![q].entity = community] EXCEPT ![q].pc = "findMember"]
          PROVE  req'[q].pc = "findMember"
      BY <3>4 DEF Types, Request
    <3> QED
      BY <1>3, <3>1, <3>2, <3>3, <3>4 DEF FindCommunity, At
  <2>2. \A p \in Reqs : p # q => req'[p] = req[p]
    BY <1>3, EndsFields, GotoFields DEF FindCommunity, Types
  <2> QED
    BY <1>3, <2>1, <2>2, FreeStep DEF FindCommunity
<1>4. ASSUME NEW q \in Reqs, FindMember(q) PROVE Transactions'
  <2>1. req[q].pc = "findMember"
    BY <1>4 DEF FindMember, At
  <2>2. CASE Ends(q)
    BY <1>4, <2>1, <2>2, EndsFields, FreeStep DEF FindMember
  <2>3. CASE req[q].op = "leave" /\ Goto(q, "remove")
    BY <1>4, <2>1, <2>3, GotoFields, FreeStep DEF FindMember
  <2>4. CASE req[q].op = "join" /\ Goto(q, "insert")
    BY <1>4, <2>1, <2>4, GotoFields, FreeStep DEF FindMember
  <2>5. CASE Goto(q, "findInvite") \/ Goto(q, "rejoin")
    BY <1>4, <2>1, <2>5, GotoFields, FreeStep DEF FindMember
  <2> QED
    BY <1>4, <2>2, <2>3, <2>4, <2>5 DEF FindMember
<1>5. ASSUME NEW q \in Reqs, InviteMember(q) PROVE Transactions'
  <2>1. req[q].pc = "findInvite" /\ req'[q].pc \in {"idle", "findCommunity"}
    BY <1>5, EndsFields DEF InviteMember, At, Types, Request
  <2>2. \A p \in Reqs : p # q => req'[p] = req[p]
    BY <1>5, EndsFields DEF InviteMember, Types
  <2> QED
    BY <1>5, <2>1, <2>2, FreeStep DEF InviteMember
<1>6. ASSUME NEW q \in Reqs, ReloadCommunity(q) PROVE Transactions'
  <2>1. req[q].pc = "reload" /\ req'[q].pc = "saveCommunity"
    BY <1>6 DEF ReloadCommunity, At, Types, Request
  <2>2. \A p \in Reqs : p # q => req'[p] = req[p]
    BY <1>6 DEF ReloadCommunity, Types
  <2> QED
    BY <1>6, <2>1, <2>2, FreeStep DEF ReloadCommunity
<1>7. ASSUME NEW q \in Reqs, SaveCommunity(q) PROVE Transactions'
  BY <1>7, EndsFields, FreeStep DEF SaveCommunity, At
<1>8. ASSUME NEW q \in Reqs, Rejoin(q) PROVE Transactions'
  <2>1. \A u \in Users : lockM[u] # None => member'[u] = member[u]
    BY <1>8 DEF Rejoin, Types
  <2> QED
    BY <1>8, <2>1, EndsFields, FreeStep DEF Rejoin, At
<1>9. ASSUME NEW q \in Reqs, InsertMember(q) PROVE Transactions'
  <2>1. req[q].pc = "insert" /\ req[q].op = "join" /\ req[q].u \in Users
    BY <1>9 DEF InsertMember, At, Transactions, Holds, Types, Request
  <2>2. CASE member[req[q].u] = "none"
    <3>1. Goto(q, "count") /\ lockM' = [lockM EXCEPT ![req[q].u] = q]
          /\ lockM[req[q].u] = None /\ UNCHANGED <<lockC, member>>
      BY <1>9, <2>2 DEF InsertMember
    <3>2. Holds(q)'
      BY <2>1, <2>2, <3>1, GotoFields DEF Transactions, Holds, Types
    <3> QED
      BY <2>1, <3>1, <3>2, GotoFields, OthersHold DEF Types
  <2>3. CASE member[req[q].u] # "none"
    BY <1>9, <2>1, <2>3, EndsFields, FreeStep DEF InsertMember
  <2> QED
    BY <2>2, <2>3
<1>10. ASSUME NEW q \in Reqs, RemoveMember(q) PROVE Transactions'
  <2>1. req[q].pc = "remove" /\ req[q].op = "leave" /\ req[q].u \in Users
    BY <1>10 DEF RemoveMember, At, Transactions, Holds, Types, Request
  <2>2. /\ Goto(q, "count") /\ UNCHANGED <<lockC, member>>
        /\ \/ UNCHANGED lockM
           \/ lockM[req[q].u] = None /\ lockM' = [lockM EXCEPT ![req[q].u] = q]
    BY <1>10 DEF RemoveMember
  <2>3. Holds(q)'
    BY <2>1, <2>2, GotoFields DEF Transactions, Holds, Types
  <2> QED
    BY <2>1, <2>2, <2>3, GotoFields, OthersHold DEF Types
<1>11. ASSUME NEW q \in Reqs, CountMember(q) PROVE Transactions'
  <2>1. /\ req[q].pc = "count" /\ Goto(q, "commit") /\ lockC = None /\ lockC' = q
        /\ UNCHANGED <<lockM, member>>
    BY <1>11 DEF CountMember, At
  <2>2. Holds(q)'
    BY <2>1, GotoFields DEF Transactions, Holds
  <2> QED
    BY <2>1, <2>2, GotoFields, OthersHold
<1>12. ASSUME NEW q \in Reqs, Commit(q) PROVE Transactions'
  <2>1. \A u \in Users : lockM[u] # q => member'[u] = member[u]
    BY <1>12 DEF Commit
  <2> QED
    BY <1>12, <2>1, UnlockStep DEF Commit
<1>13. ASSUME NEW q \in Reqs, Abort(q) PROVE Transactions'
  BY <1>13, UnlockStep DEF Abort
<1>14. CASE UNCHANGED vars
  BY <1>14 DEF vars, Transactions, Holds
<1> QED
  BY <1>1, <1>2, <1>3, <1>4, <1>5, <1>6, <1>7, <1>8, <1>9, <1>10, <1>11, <1>12, <1>13,
     <1>14 DEF Next, HandlerStep

-----------------------------------------------------------------------------
(* What a step does to the counter in memory: nothing, or it is the committed one, *)
(* or the request is new or over.                                                  *)
EntityKept(q) ==
    /\ req'[q].entity.count \in {req[q].entity.count, community.count, 0}
    /\ \A p \in Reqs : p # q => req'[p] = req[p]

LEMMA EntityStep ==
    ASSUME Types, NEW q \in Reqs,
           \/ \E u \in Users, op \in {"join", "leave", "update", "delete", "invite", "accept",
                                       "reject"} : Begin(q, op, u)
           \/ HandlerStep(q)
           \/ Abort(q)
    PROVE  EntityKept(q)
<1> USE DEF EntityKept
<1>1. ASSUME NEW u \in Users,
             NEW op \in {"join", "leave", "update", "delete", "invite", "accept", "reject"},
             Begin(q, op, u)
      PROVE  EntityKept(q)
  <2>1. /\ \A i : [Idle EXCEPT !.pc = "answer", !.op = op, !.u = u, !.invite = i].entity.count = 0
        /\ [Idle EXCEPT !.pc = "findCommunity", !.op = op, !.u = u].entity.count = 0
    BY DEF Idle, Nobody
  <2>2. CASE op \in {"accept", "reject"}
    <3>1. PICK i \in pending[u] :
             req' = [req EXCEPT ![q] = [Idle EXCEPT !.pc = "answer", !.op = op, !.u = u,
                                                    !.invite = i]]
      BY <1>1, <2>2 DEF Begin
    <3> QED
      BY <2>1, <3>1 DEF Types
  <2>3. CASE op \notin {"accept", "reject"}
    BY <1>1, <2>1, <2>3 DEF Begin, Types
  <2> QED
    BY <2>2, <2>3
<1>2. CASE Ends(q)
  BY <1>2, EndsFields
<1>3. ASSUME NEW step \in {"findMember", "findInvite", "rejoin", "insert", "remove", "count",
                           "commit"}, Goto(q, step)
      PROVE  EntityKept(q)
  BY <1>3, GotoFields
<1>4. CASE AnswerInvite(q)
  <2>1. CASE req[q].op # "accept"
    BY <1>2, <1>4, <2>1 DEF AnswerInvite
  <2>2. CASE req[q].op = "accept"
    BY <1>4, <2>2 DEF AnswerInvite, Types, Request
  <2> QED
    BY <2>1, <2>2
<1>5. CASE FindCommunity(q)
  <2>1. ASSUME NEW open \in BOOLEAN,
               req' = [[req EXCEPT ![q].entity = community]
                          EXCEPT ![q].entity.open = open, ![q].pc = "reload"]
        PROVE  EntityKept(q)
    BY <2>1 DEF Types, Request, Community
  <2>2. ASSUME req' = [[req EXCEPT ![q].entity = community]
                          EXCEPT ![q].entity.active = FALSE, ![q].pc = "reload"]
        PROVE  EntityKept(q)
    BY <2>2 DEF Types, Request, Community
  <2>3. ASSUME req' = [[req EXCEPT ![q].entity = community] EXCEPT ![q].pc = "findMember"]
        PROVE  EntityKept(q)
    BY <2>3 DEF Types, Request
  <2> QED
    BY <1>2, <1>3, <1>5, <2>1, <2>2, <2>3 DEF FindCommunity
<1>6. CASE InviteMember(q)
  <2>1. ASSUME req' = [req EXCEPT ![q].op = "join", ![q].entity = Nobody,
                                  ![q].pc = "findCommunity"]
        PROVE  EntityKept(q)
    BY <2>1 DEF Types, Request, Nobody
  <2> QED
    BY <1>2, <1>6, <2>1 DEF InviteMember
<1>7. CASE ReloadCommunity(q)
  BY <1>7 DEF ReloadCommunity, Types, Request
<1>8. CASE FindMember(q)
  BY <1>2, <1>3, <1>8 DEF FindMember
<1>9. CASE InsertMember(q)
  BY <1>2, <1>3, <1>9 DEF InsertMember
<1>10. CASE RemoveMember(q) \/ CountMember(q)
  BY <1>3, <1>10 DEF RemoveMember, CountMember
<1>11. CASE SaveCommunity(q) \/ Rejoin(q) \/ Commit(q) \/ Abort(q)
  BY <1>2, <1>11 DEF SaveCommunity, Rejoin, Commit, Abort
<1> QED
  BY <1>1, <1>4, <1>5, <1>6, <1>7, <1>8, <1>9, <1>10, <1>11 DEF HandlerStep

-----------------------------------------------------------------------------
(* What a commit does to the counter and to the rows *)
LEMMA CommitRows ==
    ASSUME Types, Transactions, NEW q \in Reqs, Commit(q)
    PROVE  \E u \in Users :
              \/ /\ community'.count = community.count + 1
                 /\ u \notin Known /\ Known \cup {u} \subseteq Known'
                 /\ u \notin Active /\ Active \cup {u} \subseteq Active'
              \/ /\ community'.count = community.count - 1
                 /\ Known \subseteq Known' /\ Active \ {u} \subseteq Active'
<1> DEFINE u == req[q].u
<1>1. /\ u \in Users /\ lockC = q /\ req[q].op \in {"join", "leave"}
      /\ \A v \in Users : lockM[v] = q => v = u
      /\ req[q].op = "join" => lockM[u] = q /\ member[u] = "none"
  BY DEF Commit, At, Transactions, Holds, Types, Request
<1>2. community'.count = IF req[q].op = "join" THEN community.count + 1 ELSE community.count - 1
  BY <1>1 DEF Commit, Types, Community
<1>3. \A v \in Users : member'[v] = IF lockM[v] # q THEN member[v]
                                    ELSE IF req[q].op = "join" THEN "active" ELSE "inactive"
  BY DEF Commit
<1>4. CASE req[q].op = "join"
  <2>1. u \notin Known /\ u \notin Active
    BY <1>1, <1>4 DEF Known, Active
  <2>2. Known \cup {u} \subseteq Known' /\ Active \cup {u} \subseteq Active'
    BY <1>1, <1>3, <1>4 DEF Known, Active
  <2> QED
    BY <1>1, <1>2, <1>4, <2>1, <2>2
<1>5. CASE req[q].op = "leave"
  <2>1. Known \subseteq Known' /\ Active \ {u} \subseteq Active'
    BY <1>1, <1>3, <1>5 DEF Known, Active
  <2> QED
    BY <1>1, <1>2, <1>5, <2>1
<1> QED
  BY <1>1, <1>4, <1>5

(* What any other step does *)
LEMMA OtherRows ==
    ASSUME Types, [Next]_vars, \A q \in Reqs : ~Commit(q)
    PROVE  /\ Known \subseteq Known' /\ Active \subseteq Active'
           /\ \/ UNCHANGED <<community, staleCount>>
              \/ \E q \in Reqs :
                    \/ community'.count = req[q].entity.count /\ staleCount'
                    \/ community'.count = community.count /\ staleCount' = staleCount
<1> USE DEF Known, Active
<1>1. CASE UNCHANGED <<community, member, staleCount>>
  BY <1>1
<1>2. ASSUME NEW q \in Reqs, Rejoin(q)
      PROVE  Known \subseteq Known' /\ Active \subseteq Active' /\ UNCHANGED <<community, staleCount>>
  BY <1>2 DEF Rejoin, Types
<1>3. ASSUME NEW q \in Reqs, SaveCommunity(q)
      PROVE  /\ Known \subseteq Known' /\ Active \subseteq Active'
             /\ \/ community'.count = req[q].entity.count /\ staleCount'
                \/ community'.count = community.count /\ staleCount' = staleCount
  <2>1. req[q].entity \in Community /\ community \in Community /\ member' = member
    BY <1>3 DEF SaveCommunity, Types, Request
  <2>2. community'.count = IF "count" \in req[q].cols THEN req[q].entity.count ELSE community.count
    BY <1>3, <2>1, RowType DEF SaveCommunity
  <2>3. CASE "count" \in req[q].cols
    BY <1>3, <2>1, <2>2, <2>3 DEF SaveCommunity
  <2>4. CASE "count" \notin req[q].cols
    <3>1. staleCount' = staleCount
      BY <1>3, <2>4 DEF SaveCommunity, Types
    <3> QED
      BY <2>1, <2>2, <2>4, <3>1
  <2> QED
    BY <2>3, <2>4
<1> QED
  BY <1>1, <1>2, <1>3, ZenonT(60)
     DEF Next, HandlerStep, Begin, AnswerInvite, FindCommunity, FindMember, InviteMember,
         ReloadCommunity, InsertMember, RemoveMember, CountMember, Abort, vars

LEMMA SubsetsCount ==
    /\ IsFiniteSet(Known) /\ Cardinality(Known) \in Nat
    /\ IsFiniteSet(Active) /\ Cardinality(Active) \in Nat
    /\ Cardinality(Known) <= Cardinality(Users) /\ Cardinality(Users) \in Nat
<1>1. Known \in SUBSET Users /\ Active \in SUBSET Users
  BY DEF Known, Active
<1> QED
  BY <1>1, SubsetCount, FS_CardinalityType

(* Between two sets of users, inclusion bounds the cardinality *)
LEMMA Included ==
    ASSUME NEW S \in SUBSET Users, NEW T \in SUBSET Users, S \subseteq T
    PROVE  /\ Cardinality(S) \in Nat /\ Cardinality(T) \in Nat
           /\ Cardinality(S) <= Cardinality(T)
  BY SubsetCount, FS_Subset

LEMMA OneMore ==
    ASSUME NEW S \in SUBSET Users, NEW T \in SUBSET Users, NEW u \in Users
    PROVE  /\ Cardinality(S) \in Nat /\ Cardinality(T) \in Nat
           /\ u \notin S /\ S \cup {u} \subseteq T => Cardinality(S) + 1 <= Cardinality(T)
           /\ S \ {u} \subseteq T => Cardinality(S) - 1 <= Cardinality(T)
<1>1. IsFiniteSet(S) /\ Cardinality(S) \in Nat /\ Cardinality(T) \in Nat
  BY SubsetCount
<1>2. ASSUME u \notin S, S \cup {u} \subseteq T PROVE Cardinality(S) + 1 <= Cardinality(T)
  <2>1. Cardinality(S \cup {u}) = Cardinality(S) + 1
    BY <1>1, <1>2, FS_AddElement
  <2> QED
    BY <1>2, <2>1, Included
<1>3. ASSUME S \ {u} \subseteq T PROVE Cardinality(S) - 1 <= Cardinality(T)
  <2>1. Cardinality(S \ {u}) = IF u \in S THEN Cardinality(S) - 1 ELSE Cardinality(S)
    BY <1>1, FS_RemoveElement
  <2>2. Cardinality(S \ {u}) <= Cardinality(T)
    BY <1>3, Included
  <2> QED
    BY <1>1, <2>1, <2>2
<1> QED
  BY <1>1, <1>2, <1>3

(* The counter stays within the rows, and, as long as no save has written an old *)
(* one back, within the active members.                                         *)
LEMMA CountStep == Inv /\ [Next]_vars => CountsBounded' /\ CountNeverOverstates'
<1> SUFFICES ASSUME Inv, [Next]_vars PROVE CountsBounded' /\ CountNeverOverstates'
  OBVIOUS
<1>t. Types /\ Types'
  BY TypeStep DEF Inv
<1>k. /\ Known \in SUBSET Users /\ Known' \in SUBSET Users
      /\ Active \in SUBSET Users /\ Active' \in SUBSET Users
  BY DEF Known, Active
<1>n. /\ Cardinality(Known) \in Nat /\ Cardinality(Known') \in Nat
      /\ Cardinality(Active) \in Nat /\ Cardinality(Active') \in Nat
  BY <1>k, SubsetCount
<1>i. /\ community.count \in Int /\ \A q \in Reqs : req[q].entity.count \in Int
      /\ staleCount \in BOOLEAN
  BY <1>t DEF Types, Request, Community
<1>b. /\ community.count <= Cardinality(Known) + 1
      /\ \A q \in Reqs : req[q].entity.count <= Cardinality(Known) + 1
      /\ staleCount \/ community.count <= Cardinality(Active) + 1
  BY DEF Inv, CountsBounded, CountNeverOverstates
<1>e. \A q \in Reqs : req'[q].entity.count \in
        {req[q].entity.count, community.count, 0}
  <2>1. CASE UNCHANGED vars
    BY <2>1 DEF vars
  <2>2. ASSUME NEW q \in Reqs, EntityKept(q)
        PROVE  \A p \in Reqs : req'[p].entity.count \in
                 {req[p].entity.count, community.count, 0}
    BY <2>2 DEF EntityKept
  <2> QED
    BY <1>t, <2>1, <2>2, EntityStep DEF Next
<1>1. ASSUME NEW q \in Reqs, Commit(q) PROVE CountsBounded' /\ CountNeverOverstates'
  <2>1. PICK u \in Users :
              \/ /\ community'.count = community.count + 1
                 /\ u \notin Known /\ Known \cup {u} \subseteq Known'
                 /\ u \notin Active /\ Active \cup {u} \subseteq Active'
              \/ /\ community'.count = community.count - 1
                 /\ Known \subseteq Known' /\ Active \ {u} \subseteq Active'
    BY <1>1, <1>t, CommitRows DEF Inv
  <2>2. Cardinality(Known) <= Cardinality(Known')
    BY <1>k, <2>1, Included
  <2>3. \/ /\ community'.count = community.count + 1
           /\ Cardinality(Known) + 1 <= Cardinality(Known')
           /\ Cardinality(Active) + 1 <= Cardinality(Active')
        \/ /\ community'.count = community.count - 1
           /\ Cardinality(Active) - 1 <= Cardinality(Active')
    BY <1>k, <2>1, OneMore
  <2>4. staleCount' = staleCount
    BY <1>1 DEF Commit
  <2>5. CountsBounded'
    BY <1>b, <1>e, <1>i, <1>n, <2>2, <2>3 DEF CountsBounded
  <2>6. CountNeverOverstates'
    BY <1>b, <1>i, <1>n, <2>3, <2>4 DEF CountNeverOverstates
  <2> QED
    BY <2>5, <2>6
<1>2. CASE \A q \in Reqs : ~Commit(q)
  <2>1. /\ Known \subseteq Known' /\ Active \subseteq Active'
        /\ \/ UNCHANGED <<community, staleCount>>
           \/ \E q \in Reqs :
                 \/ community'.count = req[q].entity.count /\ staleCount'
                 \/ community'.count = community.count /\ staleCount' = staleCount
    BY <1>2, <1>t, OtherRows
  <2>2. /\ Cardinality(Known) <= Cardinality(Known')
        /\ Cardinality(Active) <= Cardinality(Active')
    BY <1>k, <2>1, Included
  <2>3. CountsBounded'
    BY <1>b, <1>e, <1>i, <1>n, <2>1, <2>2 DEF CountsBounded
  <2>4. CountNeverOverstates'
    BY <1>b, <1>i, <1>n, <2>1, <2>2 DEF CountNeverOverstates
  <2> QED
    BY <2>3, <2>4
<1> QED
  BY <1>1, <1>2

LEMMA InitInv == Init => Inv
<1> SUFFICES ASSUME Init PROVE Inv
  OBVIOUS
<1>1. PICK open \in BOOLEAN : community = [open |-> open, active |-> TRUE, count |-> 1]
  BY DEF Init
<1>2. \A q \in Reqs : req[q] = Idle
  BY DEF Init
<1>3. Types
  <2>1. community \in Community
    BY <1>1 DEF Community
  <2>2. req \in [Reqs -> Request] /\ lockC \in Reqs \cup {None}
    BY IdleType DEF Init
  <2>3. /\ member \in [Users -> Statuses] /\ pending \in [Users -> SUBSET Invites]
        /\ lockM \in [Users -> Reqs \cup {None}] /\ staleCount \in BOOLEAN
    BY DEF Init, Statuses
  <2> QED
    BY <2>1, <2>2, <2>3 DEF Types
<1>4. Transactions
  BY <1>2, IdleType DEF Init, Transactions, Holds
<1>5. CountsBounded
  BY <1>1, <1>2, IdleType, SubsetsCount DEF CountsBounded
<1>6. CountNeverOverstates
  BY <1>1, SubsetsCount DEF CountNeverOverstates
<1> QED
  BY <1>3, <1>4, <1>5, <1>6 DEF Inv

LEMMA InvStep == Inv /\ [Next]_vars => Inv'
  BY TypeStep, TransactionStep, CountStep DEF Inv

-----------------------------------------------------------------------------
(* Rows, locks and requests keep their types, and the counter is never above the  *)
(* number of users there are: a new row is counted once, a rejoin not at all.     *)
THEOREM TypeCorrect == Spec => []TypeOK
<1>1. Inv => TypeOK
  <2> SUFFICES ASSUME Inv PROVE TypeOK
    OBVIOUS
  <2>1. community.count \in Int
    BY DEF Inv, Types, Community
  <2>2. community.count <= Cardinality(Users) + 1
    BY <2>1, SubsetsCount DEF Inv, CountsBounded
  <2> QED
    BY <2>2 DEF Inv, Types, Statuses, TypeOK
<1> QED
  BY <1>1, InitInv, InvStep, PTL DEF Spec

(* member_count promises no members that are not there, whatever joins, departures, *)
(* rejoins, kicks and failures overlap, unless an update has written one back.      *)
THEOREM CountHolds == Spec => []CountNeverOverstates
<1>1. Inv => CountNeverOverstates
  BY DEF Inv
<1> QED
  BY <1>1, InitInv, InvStep, PTL DEF Spec
=============================================================================
