----------------------------- MODULE PushFanout -----------------------------
(***************************************************************************)
(* The push notifications of an SOS alert and of an approved request to    *)
(* join.  Both run as promises nobody waits for: the alert's reads the     *)
(* participants, their tokens and the trip, then sends to all tokens at    *)
(* once; the approval's starts before the transaction that approves        *)
(* commits.  sendPush answers whatever FCM or Expo answer.  Firebase and   *)
(* the Expo service are external: a token is tried, with or without        *)
(* success.                                                                *)
(***************************************************************************)
EXTENDS FiniteSets

CONSTANTS
    Riders,     \* the users approved when the alert is raised, the sender among them
    Sender,     \* who raises the alert
    Applicant   \* whose request is pending, and is being approved

VARIABLES
    approved,   \* the approved participants, as committed
    commit,     \* the transaction of approveJoin: "none", "open", "yes", "no"
    hasToken,   \* the users with a push_token
    push,       \* push[k]: the notification of kind k: its step and whom it goes to
    due,        \* due[k] (history): the users whose tokens the promise has read
    tried,      \* <<k, u>>: u's token was handed to the push service
    lost,       \* the kinds whose promise failed, or died with the process
    everOn      \* (history) the users who have been approved participants

pushVars == <<approved, commit, hasToken, push, due, tried, lost, everOn>>

Kinds == {"sos", "approval"}
People == Riders \cup {Applicant}

Init ==
    /\ approved = Riders
    /\ commit = "none"
    /\ hasToken \in SUBSET People
    /\ push = [k \in Kinds |-> [pc |-> "idle", ids |-> {}]]
    /\ due = [k \in Kinds |-> {}]
    /\ tried = {}
    /\ lost = {}
    /\ everOn = Riders

-----------------------------------------------------------------------------
At(k, step) == push[k].pc = step
Proceeds(k, step, ids) ==
    push' = [push EXCEPT ![k] = IF ids = {} THEN [pc |-> "done", ids |-> {}]
                                            ELSE [pc |-> step, ids |-> ids]]

(* create: the chain starts once the alert is saved *)
RaiseAlert ==
    /\ At("sos", "idle")
    /\ Sender \in approved
    /\ push' = [push EXCEPT !["sos"].pc = "participants"]
    /\ UNCHANGED <<approved, commit, hasToken, due, tried, lost, everOn>>

(* approveJoin: the push starts inside the transaction *)
Approve ==
    /\ commit = "none"
    /\ commit' = "open"
    /\ Proceeds("approval", "tokens", {Applicant})
    /\ UNCHANGED <<approved, hasToken, due, tried, lost, everOn>>

Commit ==
    /\ commit = "open"
    /\ commit' = "yes"
    /\ approved' = approved \cup {Applicant}
    /\ everOn' = everOn \cup {Applicant}
    /\ UNCHANGED <<hasToken, push, due, tried, lost>>

(* Mutant: whatever the status of the participant *)
AnyoneFound == People

(* Participants with status "approved" *)
Found == approved

FindParticipants ==
    /\ At("sos", "participants")
    /\ Proceeds("sos", "tokens", Found \ {Sender})
    /\ UNCHANGED <<approved, commit, hasToken, due, tried, lost, everOn>>

(* findPushTokens, findPushToken *)
FindTokens(k) ==
    /\ At(k, "tokens")
    /\ Proceeds(k, IF k = "sos" THEN "trip" ELSE "send", push[k].ids \cap hasToken)
    /\ due' = [due EXCEPT ![k] = push[k].ids \cap hasToken]
    /\ UNCHANGED <<approved, commit, hasToken, tried, lost, everOn>>

(* The trip gives the title of the alert's message *)
FindTrip ==
    /\ At("sos", "trip")
    /\ Proceeds("sos", "send", push["sos"].ids)
    /\ UNCHANGED <<approved, commit, hasToken, due, tried, lost, everOn>>

(* Mutant: one after the other, and an error ends the loop *)
OthersInTurn(ids, u, ok) == IF ok THEN ids \ {u} ELSE {}

(* sendPushMany: all at once, each with its own try *)
Others(ids, u, ok) == ids \ {u}

(* sendPush, sendFcm, sendExpo *)
Send(k, u, ok) ==
    /\ At(k, "send")
    /\ u \in push[k].ids
    /\ tried' = tried \cup {<<k, u>>}
    /\ Proceeds(k, "send", Others(push[k].ids, u, ok))
    /\ UNCHANGED <<approved, commit, hasToken, due, lost, everOn>>

(* One of the queries of the promise fails: it is logged, and nothing is sent *)
QueryFails(k) ==
    /\ push[k].pc \in {"participants", "tokens", "trip"}
    /\ lost' = lost \cup {k}
    /\ Proceeds(k, "done", {})
    /\ UNCHANGED <<approved, commit, hasToken, due, tried, everOn>>

(* The process dies: what was not sent is sent by nobody *)
Die ==
    /\ lost' = lost \cup {k \in Kinds : push[k].pc \notin {"idle", "done"}}
    /\ lost' # lost
    /\ push' = [k \in Kinds |-> IF k \in lost' THEN [pc |-> "done", ids |-> {}] ELSE push[k]]
    /\ commit' = IF commit = "open" THEN "no" ELSE commit
    /\ UNCHANGED <<approved, hasToken, due, tried, everOn>>

(* A participant leaves the trip, see TripMembership *)
Leave(u) ==
    /\ u \in approved \ {Sender}
    /\ approved' = approved \ {u}
    /\ UNCHANGED <<commit, hasToken, push, due, tried, lost, everOn>>

(* updateMe sets or clears the push_token *)
SetToken(u) ==
    /\ hasToken' = IF u \in hasToken THEN hasToken \ {u} ELSE hasToken \cup {u}
    /\ UNCHANGED <<approved, commit, push, due, tried, lost, everOn>>

-----------------------------------------------------------------------------
PushStep(k) ==
    \/ k = "sos" /\ (FindParticipants \/ FindTrip)
    \/ FindTokens(k)
    \/ \E u \in People, ok \in BOOLEAN : Send(k, u, ok)

Next ==
    \/ RaiseAlert
    \/ Approve
    \/ Commit
    \/ \E k \in Kinds : PushStep(k) \/ QueryFails(k)
    \/ Die
    \/ \E u \in People : Leave(u) \/ SetToken(u)

Spec == Init /\ [][Next]_pushVars

-----------------------------------------------------------------------------
(* Properties *)

TypeOK ==
    /\ approved \subseteq People
    /\ commit \in {"none", "open", "yes", "no"}
    /\ hasToken \subseteq People
    /\ push \in [Kinds -> [pc : {"idle", "participants", "tokens", "trip", "send", "done"},
                           ids : SUBSET People]]
    /\ due \in [Kinds -> SUBSET People]
    /\ tried \subseteq Kinds \X People
    /\ lost \subseteq Kinds
    /\ everOn \subseteq People

(* "Send to multiple tokens in parallel": a promise that is through has tried the     *)
(* token of everyone it found, whichever tokens failed; only a failed query or the    *)
(* end of the process leaves somebody out.                                            *)
EveryoneIsTried ==
    \A k \in Kinds : At(k, "done") => k \in lost \/ \A u \in due[k] : <<k, u>> \in tried

(* "all trip participants": an alert goes to users who have been on the trip, whatever *)
(* requests are approved meanwhile, and never back to its sender.                      *)
AlertsOnlyRiders ==
    \A u \in People : <<"sos", u>> \in tried => u \in everOn \ {Sender}

(* The two together: an alert reaches the riders, and them only *)
AlertReachesRiders == EveryoneIsTried /\ AlertsOnlyRiders
=============================================================================
