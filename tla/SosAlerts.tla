----------------------------- MODULE SosAlerts -----------------------------
(***************************************************************************)
(* One SOS alert of a trip (SosService): its row, the requests that close  *)
(* and acknowledge it.  The notifications it sets off are in PushFanout.   *)
(*                                                                         *)
(* cancel and acknowledge load the alert, change the entity and save it:   *)
(* TypeORM reads the row again and UPDATEs the columns in which the entity *)
(* differs, whoever has changed them.  The messages on sos:new and         *)
(* sos:update have no subscriber in this server.  A request that dies has  *)
(* saved or it has not, so that its death needs no action.                 *)
(***************************************************************************)
EXTENDS Integers, FiniteSets

CONSTANTS
    Riders,     \* the users who are on the trip when the alert is raised
    Admin,      \* the creator of the trip
    Sender,     \* who raises the alert
    Reqs,       \* the slots in which requests about the alert run at once
    MaxCloses   \* bound: cancels of the alert

VARIABLES
    alert,      \* the row of sos_alerts
    early,      \* the alert is at most 30 seconds old
    onTrip,     \* the approved participants
    sosReq,     \* sosReq[q]: the request in slot q
    closings    \* the cancels so far

sosVars == <<alert, early, onTrip, sosReq, closings>>

Columns == {"status", "resolved_at", "acknowledged_by"}

NoAlert == [status |-> "none", resolved_at |-> 0, acknowledged_by |-> {}]

(* entity: the alert in memory; patch: what save is going to write; stale (history): *)
(* another request has written the row since it was loaded                           *)
SosIdle == [op |-> "acknowledge", u |-> Admin, pc |-> "idle", patch |-> << >>,
            stale |-> FALSE, entity |-> NoAlert]

Init ==
    /\ alert = NoAlert
    /\ early = FALSE
    /\ onTrip = Riders
    /\ sosReq = [q \in Reqs |-> SosIdle]
    /\ closings = 0

-----------------------------------------------------------------------------
At(q, step) == sosReq[q].pc = step
Ends(q) == sosReq' = [sosReq EXCEPT ![q] = SosIdle]

(* assertMember: the creator, or an approved participant *)
IsMember(u) == u = Admin \/ u \in onTrip

(* create: the INSERT; its answer does not wait for the notifications *)
Create ==
    /\ alert.status = "none"
    /\ IsMember(Sender)
    /\ alert' = [alert EXCEPT !.status = "active"]
    /\ early' = TRUE
    /\ UNCHANGED <<onTrip, sosReq, closings>>

(* The self-cancel window of 30 seconds is over *)
WindowEnds ==
    /\ early
    /\ early' = FALSE
    /\ UNCHANGED <<alert, onTrip, sosReq, closings>>

(* cancel is for the sender and the admin (CANNOT_CANCEL_SOS) *)
Begin(q, op, u) ==
    /\ At(q, "idle")
    /\ alert.status # "none"
    /\ op = "cancel" =>
         /\ u \in {Sender, Admin}
         /\ closings + Cardinality({p \in Reqs : sosReq[p].op = "cancel"}) < MaxCloses
    /\ sosReq' = [sosReq EXCEPT ![q] = [SosIdle EXCEPT !.op = op, !.u = u, !.pc = "find"]]
    /\ UNCHANGED <<alert, early, onTrip, closings>>

(* Mutant: any alert can be cancelled *)
NeverClosed(a) == FALSE

(* An alert that is not active is cancelled already *)
IsClosed(a) == a.status # "active"

FindAlert(q) ==
    /\ At(q, "find")
    /\ IF sosReq[q].op = "cancel" /\ IsClosed(alert)
         THEN Ends(q)
         ELSE sosReq' = [sosReq EXCEPT ![q].entity = alert, ![q].pc = sosReq[q].op]
    /\ UNCHANGED <<alert, early, onTrip, closings>>

(* Mutant: a status that the column does not know *)
ClosedAsCancelled(u) == "cancelled"

(* FR-072: within the window the sender's cancel is a false alarm *)
ClosedAs(u) == IF u = Sender /\ early THEN "false-alarm" ELSE "resolved"

(* cancel, once it has read the trip; the time of the closing is its number *)
CloseEntity(q) ==
    /\ At(q, "cancel")
    /\ closings' = closings + 1
    /\ sosReq' = [sosReq EXCEPT ![q].entity.status = ClosedAs(sosReq[q].u),
                                ![q].entity.resolved_at = closings', ![q].pc = "reload"]
    /\ UNCHANGED <<alert, early, onTrip>>

(* Mutant: the list has only the last one *)
LastAcknowledged(users, u) == {u}

Acknowledged(users, u) == users \cup {u}

(* acknowledge, once it has read the membership of the caller *)
AcknowledgeEntity(q) ==
    LET u == sosReq[q].u IN
    /\ At(q, "acknowledge")
    /\ IF ~IsMember(u) \/ u \in sosReq[q].entity.acknowledged_by
         THEN Ends(q)
         ELSE sosReq' = [sosReq EXCEPT ![q].entity.acknowledged_by = Acknowledged(@, u),
                                       ![q].pc = "reload"]
    /\ UNCHANGED <<alert, early, onTrip, closings>>

(* save: the columns that differ from the row as it is now ... *)
Differing(entity) == {c \in Columns : entity[c] # alert[c]}

ReloadAlert(q) ==
    LET entity == sosReq[q].entity IN
    /\ At(q, "reload")
    /\ sosReq' = [sosReq EXCEPT ![q].pc = "save", ![q].u = Admin, ![q].entity = NoAlert,
                     ![q].patch = [c \in Differing(entity) |-> entity[c]]]
    /\ UNCHANGED <<alert, early, onTrip, closings>>

(* ... and their UPDATE *)
Patched(patch) == [c \in Columns |-> IF c \in DOMAIN patch THEN patch[c] ELSE alert[c]]

SaveAlert(q) ==
    /\ At(q, "save")
    /\ alert' = Patched(sosReq[q].patch)
    /\ sosReq' = [p \in Reqs |->
          IF p = q THEN SosIdle
          ELSE [sosReq[p] EXCEPT !.stale = sosReq[p].pc \notin {"idle", "find"}]]
    /\ UNCHANGED <<early, onTrip, closings>>

(* A participant leaves the trip while the alert is up, see TripMembership *)
LeaveTrip(u) ==
    /\ alert.status # "none"
    /\ u \in onTrip \ {Admin}
    /\ onTrip' = onTrip \ {u}
    /\ UNCHANGED <<alert, early, sosReq, closings>>

RequestStep(q) ==
    \/ FindAlert(q)
    \/ CloseEntity(q)
    \/ AcknowledgeEntity(q)
    \/ ReloadAlert(q)
    \/ SaveAlert(q)

Next ==
    \/ Create
    \/ WindowEnds
    \/ \E q \in Reqs :
          \/ \E op \in {"cancel", "acknowledge"}, u \in Riders : Begin(q, op, u)
          \/ RequestStep(q)
    \/ \E u \in Riders : LeaveTrip(u)

Spec == Init /\ [][Next]_sosVars

-----------------------------------------------------------------------------
(* Properties *)

TypeOK ==
    /\ alert \in [status : {"none", "active", "false-alarm", "resolved"},
                  resolved_at : 0..MaxCloses, acknowledged_by : SUBSET Riders]
    /\ early \in BOOLEAN
    /\ onTrip \subseteq Riders
    /\ \A q \in Reqs : DOMAIN sosReq[q].patch \subseteq Columns
    /\ closings \in 0..MaxCloses

(* A save by a request that had loaded the alert before somebody else wrote it *)
StaleSave == \E q \in Reqs : At(q, "save") /\ sosReq[q].stale /\ sosReq'[q].pc = "idle"

(* "already cancelled: idempotent", and an acknowledgement is added to the list: how  *)
(* an alert was closed is final and who has acknowledged it stays in the list; only a  *)
(* request that had loaded the alert, and was overtaken, takes such an answer back.    *)
AnswersStand ==
    [][\/ StaleSave
       \/ /\ alert.acknowledged_by \subseteq alert'.acknowledged_by
          /\ alert.status \in {"false-alarm", "resolved"}
               => alert'.status = alert.status /\ alert'.resolved_at = alert.resolved_at]_sosVars
=============================================================================
