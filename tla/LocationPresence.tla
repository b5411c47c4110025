-------------------------- MODULE LocationPresence --------------------------
(***************************************************************************)
(* The live position of one rider on a trip: the keys loc:pos and loc:rl   *)
(* in Redis, the handlers of the /location namespace and of the REST       *)
(* fallback, and the map of one other member who joins the room.           *)
(*                                                                         *)
(* Joining is for members (checkMembership is checkRoomAccess, see         *)
(* RoomAccess) and a refusal changes nothing, so only granted joins are    *)
(* actions; update checks neither membership nor room.  The REST fallback  *)
(* takes its caller from req.user.sub, which JwtStrategy does not set:     *)
(* all its callers share the keys of the user "undefined".                 *)
(* Socket.IO empties socket.rooms before it calls handleDisconnect, whose  *)
(* clean-up therefore finds no room: a disconnect removes nothing.         *)
(***************************************************************************)
EXTENDS Integers, FiniteSets

CONSTANTS
    Cells,      \* places at least MIN_MOVE_M from each other, numbers from 1
    Reqs,       \* the slots in which handlers run at once
    MaxDeaths   \* bound: handlers that die with their process

VARIABLES
    rest,       \* the rider is the "undefined" one of the REST fallback; never changes
    pos,        \* the position stored under loc:pos, 0 for none
    count,      \* the counter loc:rl, 0 when there is none
    countTtl,   \* the counter has an expiry
    socket,     \* the rider's socket: none, connected, or in the room of the trip
    handler,    \* handler[q]: the handler in slot q
    view,       \* the map of the other member
    raced,      \* (history) the map has missed a change, or got two in the other order
    deaths      \* handlers that have died

presenceVars == <<rest, pos, count, countTtl, socket, handler, view, raced, deaths>>

RL_MAX == 1
NoPlace == 0

NoHandler == [pc |-> "idle", cell |-> NoPlace]
NoView == [pc |-> "out", snapshot |-> NoPlace, shown |-> NoPlace]

Init ==
    /\ rest \in BOOLEAN
    /\ pos = NoPlace
    /\ count = 0
    /\ countTtl = FALSE
    /\ socket = "none"
    /\ handler = [q \in Reqs |-> NoHandler]
    /\ view = NoView
    /\ raced = FALSE
    /\ deaths = 0

-----------------------------------------------------------------------------
At(q, step) == handler[q].pc = step
Goto(q, step) == handler' = [handler EXCEPT ![q].pc = step]
Ends(q) == handler' = [handler EXCEPT ![q] = NoHandler]

(* The map may differ from the store from here on: what happens before its KEYS it sees *)
Races(condition) == raced' = (raced \/ (condition /\ view.pc \in {"listed", "read", "in"}))

(* The rider opens the app; the one of the REST fallback has no socket, but is there *)
Connect ==
    /\ socket = "none"
    /\ socket' = "connected"
    /\ UNCHANGED <<rest, pos, count, countTtl, handler, view, raced, deaths>>

(* location:join of the rider *)
JoinTrip ==
    /\ socket = "connected" /\ ~rest
    /\ socket' = "inRoom"
    /\ UNCHANGED <<rest, pos, count, countTtl, handler, view, raced, deaths>>

(* handleDisconnect finds no room to clean up; the handlers that run go on *)
Disconnect ==
    /\ socket # "none"
    /\ socket' = "none"
    /\ UNCHANGED <<rest, pos, count, countTtl, handler, view, raced, deaths>>

(* location:update, postLocation *)
BeginUpdate(q, cell) ==
    /\ At(q, "idle")
    /\ socket # "none"
    /\ handler' = [handler EXCEPT ![q] = [pc |-> "incr", cell |-> cell]]
    /\ UNCHANGED <<rest, pos, count, countTtl, socket, view, raced, deaths>>

(* location:leave; the REST fallback has no such call *)
BeginLeave(q) ==
    /\ At(q, "idle")
    /\ socket # "none" /\ ~rest
    /\ socket' = "connected"
    /\ Goto(q, "store")
    /\ UNCHANGED <<rest, pos, count, countTtl, view, raced, deaths>>

(* Mutant: the window starts when the limit is passed *)
StartsWindowLate(n) == n = RL_MAX + 1

(* checkRateLimit: INCR; the one who counts first starts the window *)
WithinLimit(n) == n <= RL_MAX
StartsWindow(n) == n = 1

CountUpdate(q) ==
    LET n == count + 1 IN
    /\ At(q, "incr")
    \* above RL_MAX the counter matters no more
    /\ count' = IF n > RL_MAX + 1 THEN count ELSE n
    /\ \/ StartsWindow(n) /\ Goto(q, "expire")
       \/ ~StartsWindow(n) /\ WithinLimit(n) /\ Goto(q, "get")
       \/ ~StartsWindow(n) /\ ~WithinLimit(n) /\ Ends(q)
    /\ UNCHANGED <<rest, pos, countTtl, socket, view, raced, deaths>>

(* checkRateLimit: EXPIRE *)
StartWindow(q) ==
    /\ At(q, "expire")
    /\ countTtl' = (count # 0)
    /\ Goto(q, "get")
    /\ UNCHANGED <<rest, pos, count, socket, view, raced, deaths>>

(* The window of RL_WINDOW_S seconds is over *)
WindowEnds ==
    /\ countTtl
    /\ count' = 0
    /\ countTtl' = FALSE
    /\ UNCHANGED <<rest, pos, socket, handler, view, raced, deaths>>

(* updatePosition: a move of less than MIN_MOVE_M from the stored position is skipped *)
ReadPosition(q) ==
    /\ At(q, "get")
    /\ IF pos = handler[q].cell THEN Ends(q) ELSE Goto(q, "store")
    /\ UNCHANGED <<rest, pos, count, countTtl, socket, view, raced, deaths>>

(* updatePosition's SET, removePosition's DEL.  postLocation tells nobody. *)
Store(q) ==
    /\ At(q, "store")
    /\ pos' = handler[q].cell
    /\ IF rest THEN Ends(q) ELSE Goto(q, "emit")
    /\ Races(rest)
    /\ UNCHANGED <<rest, count, countTtl, socket, view, deaths>>

(* Mutant: the joiner enters the room after the snapshot *)
InRoomLast == view.pc = "in"

InRoom == view.pc # "out"

(* Between its KEYS and its snapshot, a joiner gets the event before a snapshot that *)
(* may be older                                                                      *)
BeforeSnapshot == InRoom /\ view.pc \in {"listed", "read"}

(* location:changed, location:left *)
Broadcast(q) ==
    LET cell == handler[q].cell IN
    /\ At(q, "emit")
    /\ view' = IF InRoom THEN [view EXCEPT !.shown = cell] ELSE view
    /\ Races(BeforeSnapshot \/ cell # pos)
    /\ Ends(q)
    /\ UNCHANGED <<rest, pos, count, countTtl, socket, deaths>>

(* POS_TTL after the last update; no event tells the room *)
PositionExpires ==
    /\ pos # NoPlace
    /\ pos' = NoPlace
    /\ Races(TRUE)
    /\ UNCHANGED <<rest, count, countTtl, socket, handler, view, deaths>>

(* handleJoin of the other member: the room first ... *)
JoinRoom ==
    /\ view.pc = "out"
    /\ view' = [view EXCEPT !.pc = "room"]
    /\ UNCHANGED <<rest, pos, count, countTtl, socket, handler, raced, deaths>>

(* ... then getSnapshot: the KEYS of the trip, ... *)
ListKeys ==
    /\ view.pc = "room"
    /\ view' = [view EXCEPT !.pc = "listed", !.snapshot = pos]
    /\ UNCHANGED <<rest, pos, count, countTtl, socket, handler, raced, deaths>>

(* ... the MGET of those that were listed, ... *)
ReadListed ==
    /\ view.pc = "listed"
    /\ view' = [view EXCEPT !.pc = "read",
                            !.snapshot = IF @ = NoPlace THEN NoPlace ELSE pos]
    /\ UNCHANGED <<rest, pos, count, countTtl, socket, handler, raced, deaths>>

(* ... and location:snapshot, which replaces what the map shows *)
SendSnapshot ==
    /\ view.pc = "read"
    /\ view' = [view EXCEPT !.pc = "in", !.shown = view.snapshot, !.snapshot = NoPlace]
    /\ UNCHANGED <<rest, pos, count, countTtl, socket, handler, raced, deaths>>

(* The other member closes the map *)
CloseMap ==
    /\ view.pc = "in"
    /\ view' = NoView
    /\ raced' = FALSE
    /\ UNCHANGED <<rest, pos, count, countTtl, socket, handler, deaths>>

(* The process of the handler in slot q ends *)
Die(q) ==
    /\ ~At(q, "idle")
    /\ deaths < MaxDeaths
    /\ deaths' = deaths + 1
    /\ Races(At(q, "emit"))
    /\ Ends(q)
    /\ UNCHANGED <<rest, pos, count, countTtl, socket, view>>

-----------------------------------------------------------------------------
HandlerStep(q) ==
    \/ CountUpdate(q)
    \/ StartWindow(q)
    \/ ReadPosition(q)
    \/ Store(q)
    \/ Broadcast(q)

JoinStep == ListKeys \/ ReadListed \/ SendSnapshot

Next ==
    \/ Connect
    \/ JoinTrip
    \/ Disconnect
    \/ \E q \in Reqs :
          \/ \E cell \in Cells : BeginUpdate(q, cell)
          \/ BeginLeave(q)
          \/ HandlerStep(q)
          \/ Die(q)
    \/ WindowEnds
    \/ PositionExpires
    \/ JoinRoom
    \/ JoinStep
    \/ CloseMap

(* Handlers that run go on, and a counter with an expiry expires *)
Fairness ==
    /\ \A q \in Reqs : WF_presenceVars(HandlerStep(q))
    /\ WF_presenceVars(WindowEnds)

Spec == Init /\ [][Next]_presenceVars /\ Fairness

-----------------------------------------------------------------------------
(* Properties *)

Places == Cells \cup {NoPlace}

TypeOK ==
    /\ rest \in BOOLEAN
    /\ pos \in Places
    /\ count \in 0..(RL_MAX + 1)
    /\ countTtl \in BOOLEAN
    /\ socket \in {"none", "connected", "inRoom"}
    /\ handler \in [Reqs -> [cell : Places, pc : {"idle", "incr", "expire", "get", "store", "emit"}]]
    /\ view \in [pc : {"out", "room", "listed", "read", "in"}, snapshot : Places, shown : Places]
    /\ raced \in BOOLEAN
    /\ deaths \in 0..MaxDeaths

(* A rider who was limited can update again: only a process that dies between INCR    *)
(* and EXPIRE leaves a counter that never expires.                                    *)
LimitLifts == count # 0 ~> (count = 0 \/ deaths > 0)

Quiet == \A q \in Reqs : At(q, "idle")

(* With no handler running, a member's map shows the stored position: after a         *)
(* snapshot every change reaches the map, unless it came between KEYS and snapshot,   *)
(* two changes were told in the other order, or the position expired or was not told. *)
MapShowsStored ==
    (view.pc = "in" /\ ~raced /\ Quiet) => view.shown = pos
=============================================================================
