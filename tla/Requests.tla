------------------------------ MODULE Requests ------------------------------
(***************************************************************************)
(* Eight components whose requests read a row, go on and write it: the     *)
(* membership of a trip, its share link, its SOS alert, the sessions of a  *)
(* user, the reactions and pages of the chat, the live position of a rider *)
(* and the notifications.  They share no state in the models, so each      *)
(* behaviour follows the one that `focus` names and leaves the others in   *)
(* their initial states.                                                   *)
(***************************************************************************)
EXTENDS TripMembership

CONSTANTS
    Slots,      \* the slots of the components other than the trip
    MaxLinkTokens, MaxSaves, MaxHits, MaxLinkFaults,                \* ShareLinks
    Riders, Admin, Sender, MaxCloses,                               \* SosAlerts
    MaxCodes, MaxTokens, MaxEdits, MaxCrashes,                      \* AuthSessions
    Reactors, MaxReactDeaths,                                        \* ChatReactions
    Ids, Times, Senders, Repliers, NoMessage, Limit, ReplyScan, MaxScanFaults,  \* ChatHistory
    Cells, MaxPresenceDeaths,                                       \* LocationPresence
    Passengers, Applicant                                           \* PushFanout

ASSUME RequestsAssumption ==
    /\ IsFiniteSet(Slots) /\ Slots # {}
    /\ MaxLinkTokens \in Nat /\ MaxSaves \in Nat /\ MaxHits \in Nat /\ MaxLinkFaults \in Nat
    /\ Sender \in Riders /\ MaxCloses \in Nat
    /\ MaxCodes \in Nat /\ MaxTokens \in Nat /\ MaxEdits \in Nat /\ MaxCrashes \in Nat
    /\ Reactors # {} /\ MaxReactDeaths \in Nat
    /\ Ids \subseteq Int /\ Times \subseteq Int /\ NoMessage \notin Times \X Ids
    /\ Limit \in Nat \ {0} /\ ReplyScan \in Nat /\ MaxScanFaults \in Nat
    /\ MaxPresenceDeaths \in Nat
    /\ Sender \in Passengers

VARIABLES
    focus,
    link, made, linkReq, linkFaults,
    alert, early, onTrip, sosReq, closings,
    sms, otp, issued, elapsed, row, minted, held, authReq, past,
    reactionRow, roomCached, rows, told, reacting, odd, contended, outdated, deaths,
    stream, kept, writer, walk, faults,
    rest, pos, count, countTtl, socket, handler, view, raced, presenceDeaths,
    approved, commit, hasToken, push, due, tried, lost, everOn

Links == INSTANCE ShareLinks WITH
    Reqs <- Slots, MaxTokens <- MaxLinkTokens, MaxFaults <- MaxLinkFaults

Sos == INSTANCE SosAlerts WITH Reqs <- Slots

(* The requests of a user: for an OTP, to log in with it or with Firebase, to refresh the *)
(* tokens, to edit the profile or the account, and to log out                             *)
AuthOps == {"otp", "login", "firebase", "refresh", "profile", "me", "logout"}

Auth == INSTANCE AuthSessions WITH Reqs <- Slots, Ops <- AuthOps, req <- authReq

React == INSTANCE ChatReactions WITH
    Users <- Reactors, Reqs <- Slots, MaxDeaths <- MaxReactDeaths,
    stored <- reactionRow, cached <- roomCached, handler <- reacting

History == INSTANCE ChatHistory WITH
    Writers <- Senders \cup Repliers, None <- NoMessage, MaxFaults <- MaxScanFaults, stored <- kept

Presence == INSTANCE LocationPresence WITH
    Reqs <- Slots, MaxDeaths <- MaxPresenceDeaths, deaths <- presenceDeaths

Fanout == INSTANCE PushFanout WITH Riders <- Passengers

links == <<link, made, linkReq, linkFaults>>
sos == <<alert, early, onTrip, sosReq, closings>>
auth == <<sms, otp, issued, elapsed, row, minted, held, authReq, past>>
reactions == <<reactionRow, roomCached, rows, told, reacting, odd, contended, outdated, deaths>>
history == <<stream, kept, writer, walk, faults>>
presence == <<rest, pos, count, countTtl, socket, handler, view, raced, presenceDeaths>>
fanout == <<approved, commit, hasToken, push, due, tried, lost, everOn>>
requests == <<focus, vars, links, sos, auth, reactions, history, presence, fanout>>

Focuses == {"trip", "links", "sos", "session", "reactions", "pages", "replies",
             "presence", "fanout"}

RequestsInit ==
    /\ Init /\ Links!Init /\ Sos!Init /\ Auth!Init /\ React!Init /\ History!Init
    /\ Presence!Init /\ Fanout!Init
    /\ focus \in Focuses
    \* the parameters of the components that stay put
    /\ focus = "trip" \/ \A n \in Capacities : trip.max <= n
    /\ focus = "session" \/ sms
    /\ focus = "presence" \/ ~rest
    /\ focus = "fanout" \/ hasToken = {}

RequestsNext ==
    /\ UNCHANGED focus
    /\ IF focus = "trip" THEN Next ELSE UNCHANGED vars
    /\ IF focus = "links" THEN Links!Next ELSE UNCHANGED links
    /\ IF focus = "sos" THEN Sos!Next ELSE UNCHANGED sos
    /\ IF focus = "reactions" THEN React!Next ELSE UNCHANGED reactions
    \* what a user does with the tokens of a login with Firebase
    /\ IF focus = "session" THEN Auth!Next /\ \A q \in Slots : authReq'[q] = Auth!Idle \/ authReq'[q].op # "otp"
       ELSE UNCHANGED auth
    \* pages while messages come and are stored; replies, where ids and times do not matter
    /\ IF focus \in {"pages", "replies"} THEN History!Next ELSE UNCHANGED history
    /\ focus = "pages" => /\ \A w \in Senders : writer'[w].pc # "scan"
                          /\ \A w \in Repliers : writer'[w].pc = "idle"
    /\ focus = "replies" => UNCHANGED walk /\ \A k \in DOMAIN stream' : stream'[k] = <<1, k>>
    /\ IF focus = "presence" THEN Presence!Next ELSE UNCHANGED presence
    /\ IF focus = "fanout" THEN Fanout!Next ELSE UNCHANGED fanout

RequestsSpec == RequestsInit /\ [][RequestsNext]_requests

(* The type invariants of the components other than the trip *)
PartsTypeOK ==
    CASE focus = "links" -> Links!TypeOK
      [] focus = "sos" -> Sos!TypeOK
      [] focus = "session" -> Auth!TypeOK
      [] focus = "reactions" -> React!TypeOK
      [] focus \in {"pages", "replies"} -> History!TypeOK
      [] focus = "presence" -> Presence!TypeOK
      [] focus = "fanout" -> Fanout!TypeOK
      [] OTHER -> TRUE

(* A share link keeps its counts, its password, and stays disabled *)
LinkStands == Links!LinkStands

(* How an alert was closed and who acknowledged it is final *)
AnswersStand == Sos!AnswersStand

(* A refresh token that a client holds is accepted until the user logs out, unless a query fails *)
RefreshAccepted == Auth!RefreshAccepted

(* An edit of the profile is not undone *)
EditsKept == Auth!EditsKept

(* A user has a reaction if and only if they toggled it an odd number of times *)
ToggleKeepsParity == React!ToggleKeepsParity

(* At rest, the room was told the reactions that are stored *)
ToldIsStored == React!ToldIsStored

(* A walk through the pages shows every message that was stored when it began once *)
EveryMessageOnce == History!EveryMessageOnce

(* A reply has no snapshot only if its target is too far back, or Redis failed *)
ReplyResolves == History!ReplyResolves

(* At rest, a member's map shows the stored position *)
MapShowsStored == Presence!MapShowsStored

(* An alert reaches riders of the trip, not its sender, and no dead token stops it *)
AlertReachesRiders == Fanout!AlertReachesRiders
=============================================================================
