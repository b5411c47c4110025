----------------------------- MODULE MessageLog -----------------------------
(***************************************************************************)
(* What the chat's write path promises, without streams, groups, workers   *)
(* or crashes: messages are accepted one at a time, rows are written for   *)
(* accepted messages only and never go away, and a message is settled      *)
(* (nobody will look at it again) only once its row exists.                *)
(***************************************************************************)
CONSTANT Messages

VARIABLES
    accepted,   \* messages whose sender was told they were sent
    kept,       \* messages with a row
    settled     \* messages the pipeline is done with

logVars == <<accepted, kept, settled>>

Init ==
    /\ accepted = {}
    /\ kept = {}
    /\ settled = {}

Accept ==
    \E m \in Messages \ accepted :
       /\ accepted' = accepted \cup {m}
       /\ UNCHANGED <<kept, settled>>

Keep ==
    \E S \in SUBSET (accepted \ kept) :
       /\ kept' = kept \cup S
       /\ UNCHANGED <<accepted, settled>>

Settle ==
    \E S \in SUBSET (kept \ settled) :
       /\ settled' = settled \cup S
       /\ UNCHANGED <<accepted, kept>>

Next == Accept \/ Keep \/ Settle

Spec == Init /\ [][Next]_logVars
=============================================================================
