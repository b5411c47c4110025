----------------------------- MODULE RoomAccess -----------------------------
(***************************************************************************)
(* Who may use a chat room: the Redis cache in front of the membership     *)
(* rows (ChatService.checkRoomAccess), the sockets that joined the room    *)
(* (ChatGateway), and the membership changes of trips, share links and     *)
(* communities, with the cache invalidation and the chat:kick message some *)
(* of them send.  The module follows one user and one room: the cache key, *)
(* the membership row and the kick are all per user and room.              *)
(***************************************************************************)
EXTENDS Integers

CONSTANTS
    Sockets,    \* the user's connections
    Reqs,       \* the slots in which requests of or about the user run at once
    None,       \* the holder of a free row lock
    Ops,        \* the operations requested
    MaxFaults   \* bound: failed Redis calls and crashes

ChatOps == {"join", "send"}                       \* events that check the access
TripOps == {"approveJoin", "leaveTrip"}           \* transactions of TripsService
OtherOps == {"joinViaLink", "communityJoin", "communityLeave"}

ASSUME AccessAssumption ==
    /\ Sockets # {}
    /\ None \notin Reqs
    /\ Ops \subseteq ChatOps \cup TripOps \cup OtherOps
    /\ MaxFaults \in Nat

VARIABLES
    member,   \* the committed membership row grants access
    ever,     \* history: it did so at some time
    serial,   \* history: no two requests have overlapped, and all tell the chat
    lock,     \* the transaction that has written the row and not committed
    cache,    \* the key chat:access:...: "1", "0", or "miss"
    inRoom,   \* the sockets in the Socket.IO room
    kick,     \* a chat:kick message is on its way to the gateways
    req,      \* req[q]: the request in slot q
    faults

vars == <<member, ever, serial, lock, cache, inRoom, kick, req, faults>>

Request == [op : ChatOps \cup TripOps \cup OtherOps, sock : Sockets, seen : BOOLEAN,
            pc : {"idle", "get", "read", "fill", "act", "find", "write", "del", "publish",
                  "commit"}]

TypeOK ==
    /\ member \in BOOLEAN
    /\ ever \in BOOLEAN
    /\ serial \in BOOLEAN
    /\ lock \in Reqs \cup {None}
    /\ cache \in {"1", "0", "miss"}
    /\ inRoom \subseteq Sockets
    /\ kick \in BOOLEAN
    /\ req \in [Reqs -> Request]
    /\ faults \in 0..MaxFaults

Idle == [op |-> "join", sock |-> CHOOSE s \in Sockets : TRUE, seen |-> FALSE, pc |-> "idle"]

Init ==
    /\ member \in BOOLEAN
    /\ ever = member
    /\ serial = TRUE
    /\ lock = None
    /\ cache = "miss"
    /\ inRoom = {}
    /\ kick = FALSE
    /\ req = [q \in Reqs |-> Idle]
    /\ faults = 0

-----------------------------------------------------------------------------
Goto(q, step) == req' = [req EXCEPT ![q].pc = step]
Ends(q) == req' = [req EXCEPT ![q] = Idle]
At(q, step) == req[q].pc = step

SetMember(m) == member' = m /\ ever' = (ever \/ m)

Fault == faults < MaxFaults /\ faults' = faults + 1

Begin(q, op, s) ==
    /\ At(q, "idle")
    /\ op \notin ChatOps => s = Idle.sock
    /\ req' = [req EXCEPT ![q] = [Idle EXCEPT !.op = op, !.sock = s,
                                    !.pc = CASE op \in ChatOps -> "get"
                                             [] op \in TripOps -> "find"
                                             [] OTHER -> "write"]]
    /\ serial' = (serial /\ op \in ChatOps \cup TripOps /\ \A p \in Reqs : At(p, "idle"))
    /\ UNCHANGED <<member, ever, lock, cache, inRoom, kick, faults>>

(* Mutant: any cached answer counts as a grant *)
GetCachedAny(q) ==
    /\ At(q, "get")
    /\ Goto(q, IF cache = "miss" THEN "read" ELSE "act")
    /\ UNCHANGED <<member, ever, serial, lock, cache, inRoom, kick, faults>>

(* checkRoomAccess: a cached answer is final ... *)
GetCached(q) ==
    /\ At(q, "get")
    /\ CASE cache = "miss" -> Goto(q, "read")
         [] cache = "1"    -> Goto(q, "act")
         [] cache = "0"    -> Ends(q)
    /\ UNCHANGED <<member, ever, serial, lock, cache, inRoom, kick, faults>>

(* ... on a miss the committed row is read ... *)
ReadMembership(q) ==
    /\ At(q, "read")
    /\ req' = [req EXCEPT ![q].seen = member, ![q].pc = "fill"]
    /\ UNCHANGED <<member, ever, serial, lock, cache, inRoom, kick, faults>>

(* Mutant: the grant is cached in a form the readers do not know *)
FillCacheTrue(q) ==
    /\ At(q, "fill")
    /\ cache' = IF req[q].seen THEN "true" ELSE "0"
    /\ IF req[q].seen THEN Goto(q, "act") ELSE Ends(q)
    /\ UNCHANGED <<member, ever, serial, lock, inRoom, kick, faults>>

(* ... and what was read is cached, 5 minutes for a grant, 30s for a denial *)
FillCache(q) ==
    /\ At(q, "fill")
    /\ cache' = IF req[q].seen THEN "1" ELSE "0"
    /\ IF req[q].seen THEN Goto(q, "act") ELSE Ends(q)
    /\ UNCHANGED <<member, ever, serial, lock, inRoom, kick, faults>>

(* The rest of the handler: chat:join puts the socket in the room (and registers *)
(* the stream, see ChatFlush), chat:send queues the message.                     *)
Act(q) ==
    /\ At(q, "act")
    /\ inRoom' = IF req[q].op = "join" THEN inRoom \cup {req[q].sock} ELSE inRoom
    /\ Ends(q)
    /\ UNCHANGED <<member, ever, serial, lock, cache, kick, faults>>

(* chat:leave, or the socket disconnects *)
LeaveRoom(s) ==
    /\ s \in inRoom
    /\ inRoom' = inRoom \ {s}
    /\ UNCHANGED <<member, ever, serial, lock, cache, kick, req, faults>>

-----------------------------------------------------------------------------
(* approveJoin and leaveTrip find the row: an approval of somebody who is already  *)
(* approved returns before it tells the chat anything                              *)
FindMembership(q) ==
    /\ At(q, "find")
    /\ IF req[q].op = "approveJoin" /\ member THEN Ends(q) ELSE Goto(q, "write")
    /\ UNCHANGED <<member, ever, serial, lock, cache, inRoom, kick, faults>>

(* ... and write it within the transaction *)
WriteMembership(q) ==
    /\ At(q, "write")
    /\ req[q].op \in TripOps
    /\ lock = None
    /\ lock' = q
    /\ Goto(q, "del")
    /\ UNCHANGED <<member, ever, serial, cache, inRoom, kick, faults>>

(* Mutant: the invalidation is left out *)
InvalidateNothing(q) ==
    /\ At(q, "del")
    /\ Goto(q, IF req[q].op = "leaveTrip" THEN "publish" ELSE "commit")
    /\ UNCHANGED <<member, ever, serial, lock, cache, inRoom, kick, faults>>

(* invalidateRoomAccessCache, awaited inside the transaction; a failure of the   *)
(* call is caught and forgotten                                                  *)
Invalidate(q) ==
    /\ At(q, "del")
    /\ \/ cache' = "miss" /\ UNCHANGED faults
       \/ Fault /\ UNCHANGED cache
    /\ Goto(q, IF req[q].op = "leaveTrip" THEN "publish" ELSE "commit")
    /\ UNCHANGED <<member, ever, serial, lock, inRoom, kick>>

(* leaveTrip: PUBLISH chat:kick, also before the commit and also best-effort *)
PublishKick(q) ==
    /\ At(q, "publish")
    /\ \/ kick' = TRUE /\ UNCHANGED faults
       \/ Fault /\ UNCHANGED kick
    /\ Goto(q, "commit")
    /\ UNCHANGED <<member, ever, serial, lock, cache, inRoom>>

CommitMembership(q) ==
    /\ At(q, "commit")
    /\ SetMember(req[q].op = "approveJoin")
    /\ lock' = None
    /\ Ends(q)
    /\ UNCHANGED <<serial, cache, inRoom, kick, faults>>

(* joinViaLink and the communities: the row changes, the chat is not told *)
ChangeMembership(q) ==
    /\ At(q, "write")
    /\ req[q].op \in OtherOps
    /\ lock = None
    /\ SetMember(req[q].op # "communityLeave")
    /\ Ends(q)
    /\ UNCHANGED <<serial, lock, cache, inRoom, kick, faults>>

(* Mutant: only one socket of the user is evicted *)
EvictOneSocket ==
    /\ kick
    /\ kick' = FALSE
    /\ inRoom' = IF inRoom = {} THEN {} ELSE inRoom \ {CHOOSE s \in inRoom : TRUE}
    /\ UNCHANGED <<member, ever, serial, lock, cache, req, faults>>

(* evictUserFromRoom on receipt of chat:kick: the sockets then in the room leave, *)
(* or some of them when a call fails, which is caught and forgotten               *)
EvictUser ==
    /\ kick
    /\ kick' = FALSE
    /\ \/ inRoom' = {} /\ UNCHANGED faults
       \/ inRoom' \in SUBSET inRoom /\ Fault
    /\ UNCHANGED <<member, ever, serial, lock, cache, req>>

(* Mutant: grants are cached without a TTL *)
ExpireDenials ==
    /\ cache = "0"
    /\ cache' = "miss"
    /\ UNCHANGED <<member, ever, serial, lock, inRoom, kick, req, faults>>

(* Mutant: denials are cached without a TTL *)
ExpireGrants ==
    /\ cache = "1"
    /\ cache' = "miss"
    /\ UNCHANGED <<member, ever, serial, lock, inRoom, kick, req, faults>>

(* The TTL of the cache key *)
Expire ==
    /\ cache # "miss"
    /\ cache' = "miss"
    /\ UNCHANGED <<member, ever, serial, lock, inRoom, kick, req, faults>>

(* A request dies with its process or a Redis call: its transaction is rolled    *)
(* back, what it did in Redis stays.                                             *)
Abort(q) ==
    /\ ~At(q, "idle")
    /\ Fault
    /\ lock' = IF lock = q THEN None ELSE lock
    /\ Ends(q)
    /\ UNCHANGED <<member, ever, serial, cache, inRoom, kick>>

RequestStep(q) ==
    \/ GetCached(q)
    \/ ReadMembership(q)
    \/ FillCache(q)
    \/ Act(q)
    \/ FindMembership(q)
    \/ WriteMembership(q)
    \/ Invalidate(q)
    \/ PublishKick(q)
    \/ CommitMembership(q)
    \/ ChangeMembership(q)

Next ==
    \/ \E q \in Reqs :
          \/ \E op \in Ops, s \in Sockets : Begin(q, op, s)
          \/ RequestStep(q)
          \/ Abort(q)
    \/ \E s \in Sockets : LeaveRoom(s)
    \/ EvictUser
    \/ Expire

Spec == Init /\ [][Next]_vars

(* Calls that were issued return (row locks are granted in turn), Redis lets a   *)
(* key expire that is not written again, and delivers what was published.        *)
Fairness ==
    /\ \A q \in Reqs : SF_vars(RequestStep(q))
    /\ WF_vars(EvictUser)
    /\ WF_vars(Expire)

FairSpec == Spec /\ Fairness

-----------------------------------------------------------------------------
(* Properties *)

Quiet == ~kick /\ \A q \in Reqs : At(q, "idle")

(* Nothing has happened that could confuse the chat: the requests came one after  *)
(* the other, none of them through a path that does not tell it, no call failed   *)
Undisturbed == serial /\ faults = 0

(* "MUST invalidate cache on membership changes": after any sequence of undisturbed *)
(* requests, what checkRoomAccess finds in the cache agrees with the membership.   *)
CoherentAtRest ==
    Undisturbed /\ Quiet => (cache = "1" => member) /\ (cache = "0" => ~member)

(* leaveTrip "kicks them out of the chat room": after any sequence of undisturbed  *)
(* requests, and with no kick under way, only a member has sockets in the room.    *)
OnlyMembersInRoom == Undisturbed /\ Quiet /\ ~member => inRoom = {}

(* Whatever the cache, the races and the failures do, a user who has never been   *)
(* a member is never granted access nor has a socket in the room.                 *)
NeverMemberNeverIn == ~ever => cache # "1" /\ inRoom = {}

(* "access granted -> 5 min TTL": after the membership has ended for good, a      *)
(* grant that a racing check left in the cache does not live on.                  *)
StaleGrantExpires == (<>[]~member) => <>[](cache # "1")

(* "newly-added members aren't stuck": after the membership has begun for good,   *)
(* a denial left in the cache, also by the paths that do not invalidate, ends.    *)
StaleDenialExpires == (<>[]member) => <>[](cache # "0")

(* The two together: no stale answer outlives its TTL *)
StaleAnswersExpire == StaleGrantExpires /\ StaleDenialExpires

(* leaveTrip "so the gateway disconnects any open sockets": a user who is no      *)
(* longer a member eventually has no socket in the room.                          *)
EventuallyEvicted == (<>[]~member) => <>[](inRoom = {})
=============================================================================
