-------------------------- MODULE RoomAccessProofs --------------------------
(***************************************************************************)
(* Proofs about RoomAccess, for any number of concurrent requests, sockets *)
(* and failures.                                                           *)
(***************************************************************************)
EXTENDS RoomAccess, TLAPS

USE AccessAssumption

(* Nothing in Redis, in the room or in the memory of a request grants access    *)
(* to a user who never had it.                                                  *)
StrangerInv ==
    ~ever => /\ ~member
             /\ cache # "1"
             /\ inRoom = {}
             /\ \A q \in Reqs : /\ req[q].pc # "act"
                                /\ req[q].pc = "fill" => ~req[q].seen

Inv == TypeOK /\ StrangerInv

(* An idle slot has the type of a request. *)
LEMMA IdleType == Idle \in Request
<1>1. (CHOOSE s \in Sockets : TRUE) \in Sockets
  OBVIOUS
<1> QED
  BY <1>1 DEF Idle, Request, ChatOps

(* Every step of a request, of the eviction and of the TTL keeps the types. *)
LEMMA TypeStep == TypeOK /\ [Next]_vars => TypeOK'
<1> SUFFICES ASSUME TypeOK, [Next]_vars PROVE TypeOK'
  OBVIOUS
<1>e. ASSUME NEW q \in Reqs, Ends(q) PROVE req' \in [Reqs -> Request]
  BY <1>e, IdleType DEF Ends, TypeOK
<1>g. ASSUME NEW q \in Reqs, Goto(q, "read") \/ Goto(q, "act") \/ Goto(q, "write") \/ Goto(q, "del")
                                \/ Goto(q, "publish") \/ Goto(q, "commit")
      PROVE  req' \in [Reqs -> Request]
  BY <1>g DEF Goto, TypeOK, Request
<1>1. ASSUME NEW q \in Reqs, NEW op \in Ops, NEW s \in Sockets, Begin(q, op, s) PROVE TypeOK'
  <2>1. [Idle EXCEPT !.op = op, !.sock = s,
                     !.pc = CASE op \in ChatOps -> "get"
                              [] op \in TripOps -> "find"
                              [] OTHER -> "write"] \in Request
    BY IdleType DEF Request
  <2> QED
    BY <1>1, <2>1 DEF Begin, TypeOK
<1>2. ASSUME NEW q \in Reqs, GetCached(q) PROVE TypeOK'
  <2>1. req' \in [Reqs -> Request]
    BY <1>2, <1>e, <1>g DEF GetCached, TypeOK
  <2>2. UNCHANGED <<member, ever, serial, lock, cache, inRoom, kick, faults>>
    BY <1>2 DEF GetCached
  <2> QED
    BY <2>1, <2>2 DEF TypeOK
<1>3. ASSUME NEW q \in Reqs, ReadMembership(q) PROVE TypeOK'
  BY <1>3, ZenonT(60) DEF ReadMembership, TypeOK, Request
<1>4. ASSUME NEW q \in Reqs, FillCache(q) PROVE TypeOK'
  BY <1>4, <1>e, <1>g DEF FillCache, TypeOK
<1>5. ASSUME NEW q \in Reqs, Act(q) PROVE TypeOK'
  BY <1>5, <1>e DEF Act, TypeOK, Request
<1>6. ASSUME NEW q \in Reqs, WriteMembership(q) PROVE TypeOK'
  BY <1>6, <1>g DEF WriteMembership, TypeOK
<1>7. ASSUME NEW q \in Reqs, Invalidate(q) PROVE TypeOK'
  BY <1>7, <1>g DEF Invalidate, Fault, TypeOK
<1>8. ASSUME NEW q \in Reqs, PublishKick(q) PROVE TypeOK'
  <2>1. kick' \in BOOLEAN
    BY <1>8 DEF PublishKick, TypeOK
  <2>2. faults' \in 0..MaxFaults
    BY <1>8 DEF PublishKick, Fault, TypeOK
  <2>3. req' \in [Reqs -> Request]
    BY <1>8, <1>g DEF PublishKick
  <2> QED
    BY <1>8, <2>1, <2>2, <2>3 DEF PublishKick, TypeOK
<1>9. ASSUME NEW q \in Reqs, CommitMembership(q) PROVE TypeOK'
  BY <1>9, <1>e DEF CommitMembership, SetMember, TypeOK
<1>10. ASSUME NEW q \in Reqs, ChangeMembership(q) PROVE TypeOK'
  BY <1>10, <1>e DEF ChangeMembership, SetMember, TypeOK
<1>11. ASSUME NEW q \in Reqs, Abort(q) PROVE TypeOK'
  BY <1>11, <1>e DEF Abort, Fault, TypeOK
<1>12. ASSUME NEW s \in Sockets, LeaveRoom(s) PROVE TypeOK'
  BY <1>12 DEF LeaveRoom, TypeOK
<1>13. CASE EvictUser
  <2>1. inRoom' \subseteq Sockets /\ faults' \in 0..MaxFaults
    BY <1>13 DEF EvictUser, Fault, TypeOK
  <2> QED
    BY <1>13, <2>1 DEF EvictUser, TypeOK
<1>14. CASE Expire
  BY <1>14 DEF Expire, TypeOK
<1>15. CASE UNCHANGED vars
  BY <1>15 DEF vars, TypeOK
<1>16. ASSUME NEW q \in Reqs, FindMembership(q) PROVE TypeOK'
  BY <1>16, <1>e, <1>g DEF FindMembership, TypeOK
<1> QED
  BY <1>1, <1>2, <1>3, <1>4, <1>5, <1>6, <1>7, <1>8, <1>9, <1>10, <1>11, <1>12,
     <1>13, <1>14, <1>15, <1>16 DEF Next, RequestStep

(* The first state has the right types. *)
LEMMA TypeInit == Init => TypeOK
<1>1. Init => member \in BOOLEAN /\ ever \in BOOLEAN /\ serial \in BOOLEAN /\ kick \in BOOLEAN
  BY DEF Init
<1> QED
  BY <1>1, IdleType DEF Init, TypeOK

(* Membership row, cache, room and requests keep their types, however many requests *)
(* run at once and whatever fails.                                                  *)
THEOREM TypeCorrect == Spec => []TypeOK
  BY TypeInit, TypeStep, PTL DEF Spec

-----------------------------------------------------------------------------
(* Every step of a request, of the eviction and of the TTL keeps the invariant. *)
LEMMA InvStep == Inv /\ [Next]_vars => StrangerInv'
<1> SUFFICES ASSUME Inv, [Next]_vars PROVE StrangerInv'
  OBVIOUS
<1> USE DEF Inv, StrangerInv
<1>1. ASSUME NEW q \in Reqs, NEW op \in Ops, NEW s \in Sockets, Begin(q, op, s) PROVE StrangerInv'
  BY <1>1 DEF Begin, Idle
<1>2. ASSUME NEW q \in Reqs, GetCached(q) PROVE StrangerInv'
  <2>1. CASE Ends(q)
    BY <1>2, <2>1 DEF GetCached, Ends, Idle, TypeOK
  <2>2. CASE Goto(q, "read")
    BY <1>2, <2>2 DEF GetCached, Goto, TypeOK
  <2>3. CASE cache = "1"
    BY <1>2, <2>3 DEF GetCached
  <2> QED
    BY <1>2, <2>1, <2>2, <2>3 DEF GetCached, TypeOK
<1>3. ASSUME NEW q \in Reqs, ReadMembership(q) PROVE StrangerInv'
  BY <1>3 DEF ReadMembership, At, TypeOK
<1>4. ASSUME NEW q \in Reqs, FillCache(q) PROVE StrangerInv'
  BY <1>4 DEF FillCache, Goto, Ends, Idle, At, TypeOK
<1>5. ASSUME NEW q \in Reqs, Act(q) PROVE StrangerInv'
  BY <1>5 DEF Act, Ends, Idle, At, TypeOK
<1>6. ASSUME NEW q \in Reqs, WriteMembership(q) PROVE StrangerInv'
  BY <1>6 DEF WriteMembership, Goto, At
<1>7. ASSUME NEW q \in Reqs, Invalidate(q) PROVE StrangerInv'
  BY <1>7 DEF Invalidate, Goto, At, Fault
<1>8. ASSUME NEW q \in Reqs, PublishKick(q) PROVE StrangerInv'
  BY <1>8 DEF PublishKick, Goto, At, Fault
<1>9. ASSUME NEW q \in Reqs, CommitMembership(q) PROVE StrangerInv'
  <2>1. ~ever' => ~ever /\ ~member'
    BY <1>9 DEF CommitMembership, SetMember
  <2>2. cache' = cache /\ inRoom' = inRoom /\ req' = [req EXCEPT ![q] = Idle]
    BY <1>9 DEF CommitMembership, Ends
  <2>3. ~ever => \A p \in Reqs : /\ req'[p].pc # "act"
                                 /\ req'[p].pc = "fill" => ~req'[p].seen
    BY <2>2 DEF Idle, TypeOK
  <2> QED
    BY <2>1, <2>2, <2>3
<1>10. ASSUME NEW q \in Reqs, ChangeMembership(q) PROVE StrangerInv'
  <2>1. ~ever' => ~ever /\ ~member'
    BY <1>10 DEF ChangeMembership, SetMember
  <2>2. cache' = cache /\ inRoom' = inRoom /\ req' = [req EXCEPT ![q] = Idle]
    BY <1>10 DEF ChangeMembership, Ends
  <2>3. ~ever => \A p \in Reqs : /\ req'[p].pc # "act"
                                 /\ req'[p].pc = "fill" => ~req'[p].seen
    BY <2>2 DEF Idle, TypeOK
  <2> QED
    BY <2>1, <2>2, <2>3
<1>11. ASSUME NEW q \in Reqs, Abort(q) PROVE StrangerInv'
  BY <1>11 DEF Abort, Ends, Idle, At
<1>12. ASSUME NEW s \in Sockets, LeaveRoom(s) PROVE StrangerInv'
  BY <1>12 DEF LeaveRoom
<1>13. CASE EvictUser
  BY <1>13 DEF EvictUser
<1>14. CASE Expire
  BY <1>14 DEF Expire
<1>15. CASE UNCHANGED vars
  BY <1>15 DEF vars
<1>16. ASSUME NEW q \in Reqs, FindMembership(q) PROVE StrangerInv'
  <2>1. CASE Ends(q)
    BY <1>16, <2>1 DEF FindMembership, Ends, Idle, TypeOK
  <2>2. CASE Goto(q, "write")
    BY <1>16, <2>2 DEF FindMembership, Goto, TypeOK
  <2> QED
    BY <1>16, <2>1, <2>2 DEF FindMembership
<1> QED
  BY <1>1, <1>2, <1>3, <1>4, <1>5, <1>6, <1>7, <1>8, <1>9, <1>10, <1>11, <1>12,
     <1>13, <1>14, <1>15, <1>16 DEF Next, RequestStep

(* A user who has never been a member is never granted access by the cache and   *)
(* never has a socket in the room: for any interleaving of checks, membership    *)
(* changes, invalidations, expiries and failures.                                *)
THEOREM StrangersStayOut == Spec => []NeverMemberNeverIn
<1>1. Init => Inv
  <2>1. ASSUME Init PROVE StrangerInv
    BY <2>1 DEF Init, StrangerInv, Idle
  <2> QED
    BY <2>1, TypeInit DEF Inv
<1>2. Inv => NeverMemberNeverIn
  BY DEF Inv, StrangerInv, NeverMemberNeverIn
<1>3. Inv /\ [Next]_vars => Inv'
  BY InvStep, TypeStep DEF Inv
<1> QED
  BY <1>1, <1>2, <1>3, PTL DEF Spec

-----------------------------------------------------------------------------
(* Requests that do not overlap and that all tell the chat, and no failures: the *)
(* cache never contradicts the membership, and a socket of who is no member is    *)
(* in the room only until the kick is handled.                                    *)
Coherent ==
    /\ cache = "1" => member
    /\ cache = "0" => ~member
    /\ ~member => kick \/ inRoom = {}

(* A single request runs, and no other has changed what it knows or has done: a   *)
(* check has seen the membership there is; from the invalidation to the commit    *)
(* the cache is empty, and from the kick to the commit nobody comes in.           *)
AloneInv ==
    /\ \A p, q \in Reqs : p # q => req[p].pc = "idle" \/ req[q].pc = "idle"
    /\ \A q \in Reqs :
          /\ req[q].pc = "fill" => req[q].seen = member
          /\ req[q].pc = "act" => member
          /\ req[q].pc \in {"find", "write"} => req[q].op \in TripOps
          /\ req[q].pc \in {"publish", "commit"} => cache = "miss"
          /\ req[q].pc = "commit" /\ req[q].op # "approveJoin" => kick \/ inRoom = {}
          /\ req[q].pc = "del" => req[q].op \in TripOps

SerialInv == Undisturbed => Coherent /\ AloneInv

(* What was disturbed stays so. *)
LEMMA StaysDisturbed == TypeOK /\ [Next]_vars /\ Undisturbed' => Undisturbed
<1> SUFFICES ASSUME TypeOK, [Next]_vars
             PROVE  (serial' => serial) /\ (faults' = 0 => faults = 0)
  BY DEF Undisturbed
<1> USE DEF TypeOK
<1>1. ASSUME NEW q \in Reqs, NEW op \in Ops, NEW s \in Sockets, Begin(q, op, s)
      PROVE  (serial' => serial) /\ (faults' = 0 => faults = 0)
  BY <1>1 DEF Begin
<1>2. ASSUME NEW q \in Reqs, RequestStep(q)
      PROVE  (serial' => serial) /\ (faults' = 0 => faults = 0)
  <2>1. CASE UNCHANGED <<serial, faults>>
    BY <2>1
  <2>2. CASE Invalidate(q)
    BY <2>2 DEF Invalidate, Fault
  <2>3. CASE PublishKick(q)
    BY <2>3 DEF PublishKick, Fault
  <2> QED
    BY <1>2, <2>1, <2>2, <2>3
       DEF RequestStep, GetCached, ReadMembership, FillCache, Act, FindMembership,
           WriteMembership, CommitMembership, ChangeMembership
<1>3. ASSUME NEW q \in Reqs, Abort(q)
      PROVE  (serial' => serial) /\ (faults' = 0 => faults = 0)
  BY <1>3 DEF Abort, Fault
<1>4. CASE UNCHANGED <<serial, faults>>
  BY <1>4
<1>5. CASE EvictUser
  BY <1>5 DEF EvictUser, Fault
<1> QED
  BY <1>1, <1>2, <1>3, <1>4, <1>5 DEF Next, LeaveRoom, Expire, vars

(* What a step leaves in the request that takes it, and in the others. *)
LEMMA GotoFields ==
    ASSUME TypeOK, NEW q \in Reqs, NEW step, Goto(q, step)
    PROVE  /\ req'[q].pc = step /\ req'[q].op = req[q].op /\ req'[q].seen = req[q].seen
           /\ \A p \in Reqs : p # q => req'[p] = req[p]
  BY DEF Goto, TypeOK, Request

(* Every step keeps the invariant of requests one after the other. *)
LEMMA SerialStep == TypeOK /\ SerialInv /\ [Next]_vars => SerialInv'
<1> SUFFICES ASSUME TypeOK, Coherent, AloneInv, Undisturbed, Undisturbed', [Next]_vars
             PROVE  Coherent' /\ AloneInv'
  BY StaysDisturbed DEF SerialInv
<1> USE DEF Coherent, AloneInv
<1>i. Idle.pc = "idle" /\ Idle.op = "join"
  BY DEF Idle
<1>1. ASSUME NEW q \in Reqs, NEW op \in Ops, NEW s \in Sockets, Begin(q, op, s)
      PROVE  Coherent' /\ AloneInv'
  <2>1. op \in ChatOps \cup TripOps /\ \A p \in Reqs : req[p].pc = "idle"
    BY <1>1 DEF Begin, Undisturbed, At
  <2>2. req'[q].op = op /\ req'[q].pc = IF op \in ChatOps THEN "get" ELSE "find"
    <3> DEFINE pc == CASE op \in ChatOps -> "get"
                       [] op \in TripOps -> "find"
                       [] OTHER -> "write"
    <3>1. pc = IF op \in ChatOps THEN "get" ELSE "find"
      BY <2>1 DEF ChatOps, TripOps
    <3> HIDE DEF pc
    <3>2. req'[q] = [Idle EXCEPT !.op = op, !.sock = s, !.pc = pc]
      BY <1>1 DEF Begin, TypeOK, pc
    <3> QED
      BY <3>1, <3>2 DEF Idle
  <2>3. \A p \in Reqs : p # q => req'[p] = req[p]
    BY <1>1 DEF Begin, TypeOK
  <2>4. AloneInv'
    BY <2>1, <2>2, <2>3
  <2> QED
    BY <1>1, <2>4 DEF Begin
<1>2. ASSUME NEW q \in Reqs, GetCached(q) PROVE Coherent' /\ AloneInv'
  <2>1. CASE Ends(q)
    BY <1>2, <1>i, <2>1 DEF GetCached, Ends, At, TypeOK
  <2>2. CASE cache = "miss"
    <3>1. Goto(q, "read")
      BY <1>2, <2>2 DEF GetCached
    <3> QED
      BY <1>2, <3>1, GotoFields DEF GetCached, At
  <2>3. CASE cache = "1"
    <3>1. Goto(q, "act")
      BY <1>2, <2>3 DEF GetCached
    <3> QED
      <4>1. req[q].pc = "get" /\ UNCHANGED <<member, cache, inRoom, kick>>
        BY <1>2 DEF GetCached, At
      <4>2. /\ req'[q].pc = "act"
            /\ \A p \in Reqs : p # q => req'[p] = req[p] /\ req[p].pc = "idle"
        BY <3>1, <4>1, GotoFields
      <4>3. AloneInv'
        BY <2>3, <4>1, <4>2
      <4> QED
        BY <4>1, <4>3
  <2> QED
    BY <1>2, <2>1, <2>2, <2>3 DEF GetCached, TypeOK
<1>3. ASSUME NEW q \in Reqs, ReadMembership(q) PROVE Coherent' /\ AloneInv'
  BY <1>3 DEF ReadMembership, At, TypeOK
<1>4. ASSUME NEW q \in Reqs, FillCache(q) PROVE Coherent' /\ AloneInv'
  <2>1. CASE req[q].seen
    BY <1>4, <2>1, GotoFields DEF FillCache, At
  <2>2. CASE ~req[q].seen
    BY <1>4, <1>i, <2>2 DEF FillCache, Ends, At, TypeOK
  <2> QED
    BY <2>1, <2>2
<1>5. ASSUME NEW q \in Reqs, Act(q) PROVE Coherent' /\ AloneInv'
  BY <1>5, <1>i DEF Act, Ends, At, TypeOK
<1>6. ASSUME NEW q \in Reqs, WriteMembership(q) PROVE Coherent' /\ AloneInv'
  BY <1>6 DEF WriteMembership, Goto, At, TypeOK
<1>7. ASSUME NEW q \in Reqs, Invalidate(q) PROVE Coherent' /\ AloneInv'
  BY <1>7 DEF Invalidate, Fault, Goto, At, TypeOK, Undisturbed, TripOps
<1>8. ASSUME NEW q \in Reqs, PublishKick(q) PROVE Coherent' /\ AloneInv'
  BY <1>8 DEF PublishKick, Fault, Goto, At, TypeOK, Undisturbed
<1>9. ASSUME NEW q \in Reqs, CommitMembership(q) PROVE Coherent' /\ AloneInv'
  BY <1>9, <1>i DEF CommitMembership, SetMember, Ends, At, TypeOK
<1>10. ASSUME NEW q \in Reqs, ChangeMembership(q) PROVE FALSE
  BY <1>10 DEF ChangeMembership, At, TripOps, OtherOps
<1>11. ASSUME NEW q \in Reqs, Abort(q) PROVE FALSE
  BY <1>11 DEF Abort, Fault, Undisturbed
<1>12. ASSUME NEW s \in Sockets, LeaveRoom(s) PROVE Coherent' /\ AloneInv'
  BY <1>12 DEF LeaveRoom
<1>13. CASE EvictUser
  BY <1>13 DEF EvictUser, Fault, Undisturbed, TypeOK
<1>14. CASE Expire
  BY <1>14 DEF Expire
<1>15. CASE UNCHANGED vars
  BY <1>15 DEF vars
<1>16. ASSUME NEW q \in Reqs, FindMembership(q) PROVE Coherent' /\ AloneInv'
  <2>1. CASE Ends(q)
    BY <1>16, <1>i, <2>1 DEF FindMembership, Ends, At, TypeOK
  <2>2. CASE Goto(q, "write")
    BY <1>16, <2>2, GotoFields DEF FindMembership, At
  <2> QED
    BY <1>16, <2>1, <2>2 DEF FindMembership
<1> QED
  BY <1>1, <1>2, <1>3, <1>4, <1>5, <1>6, <1>7, <1>8, <1>9, <1>10, <1>11, <1>12,
     <1>13, <1>14, <1>15, <1>16 DEF Next, RequestStep

LEMMA SerialAlways == Spec => [](TypeOK /\ SerialInv)
<1>1. Init => SerialInv
  <2>1. ASSUME Init
        PROVE  cache = "miss" /\ inRoom = {} /\ \A q \in Reqs : req[q].pc = "idle"
    BY <2>1 DEF Init, Idle
  <2> QED
    BY <2>1 DEF SerialInv, Coherent, AloneInv
<1> QED
  BY <1>1, TypeInit, TypeStep, SerialStep, PTL DEF Spec

(* "MUST invalidate cache on membership changes": after any number of undisturbed  *)
(* requests of any sockets, the cached answer agrees with the membership.          *)
THEOREM CacheCoheres == Spec => []CoherentAtRest
<1>1. SerialInv => CoherentAtRest
  BY DEF SerialInv, Coherent, CoherentAtRest
<1> QED
  BY <1>1, SerialAlways, PTL

(* leaveTrip's kick reaches every socket of the user: with no kick under way, only *)
(* a member has sockets in the room, after any number of undisturbed requests.     *)
THEOREM LeaversAreOut == Spec => []OnlyMembersInRoom
<1>1. SerialInv => OnlyMembersInRoom
  BY DEF SerialInv, Coherent, OnlyMembersInRoom, Quiet
<1> QED
  BY <1>1, SerialAlways, PTL
=============================================================================
