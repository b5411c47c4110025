----------------------------- MODULE ChatLimits -----------------------------
(***************************************************************************)
(* The limits of one user of the chat gateway: the sliding window          *)
(* chat:rl:react of handleReact and the counter chat:flood of handleSend.  *)
(* The keys are per user, so users do not meet.  What passes goes on in    *)
(* ChatReactions and ChatFlush.                                            *)
(***************************************************************************)
EXTENDS Integers, FiniteSets

CONSTANTS
    Reqs,           \* the slots in which the user's handlers run at once
    RL_REACT_MAX,   \* reactions per window
    FLOOD_MAX,      \* FLOOD_MAX_PER_SEC
    MaxDeaths       \* bound: handlers that die with their process

VARIABLES
    window,     \* the entries of chat:rl:react that are younger than 60 s
    flood,      \* the counter chat:flood, 0 when there is none
    floodTtl,   \* the counter has an expiry
    limiter,    \* limiter[q]: where the check in slot q stands
    sent,       \* (history) sends let through since the counter was absent
    deaths      \* handlers that have died

limitVars == <<window, flood, floodTtl, limiter, sent, deaths>>

Init ==
    /\ window = 0
    /\ flood = 0
    /\ floodTtl = FALSE
    /\ limiter = [q \in Reqs |-> "idle"]
    /\ sent = 0
    /\ deaths = 0

-----------------------------------------------------------------------------
Goto(q, from, to) ==
    /\ limiter[q] = from
    /\ limiter' = [limiter EXCEPT ![q] = to]

(* handleReact, handleSend *)
Begin(q, check) ==
    /\ Goto(q, "idle", check)
    /\ UNCHANGED <<window, flood, floodTtl, sent, deaths>>

(* Mutant: the limit itself is let through *)
UnderLimitOrAt == window <= RL_REACT_MAX

(* checkRateLimit: the first pipeline drops the old entries and counts the others ... *)
UnderLimit == window < RL_REACT_MAX

CountReactions(q) ==
    /\ Goto(q, "count", IF UnderLimit THEN "add" ELSE "idle")
    /\ UNCHANGED <<window, flood, floodTtl, sent, deaths>>

(* ... the second one adds an entry *)
AddReaction(q) ==
    /\ Goto(q, "add", "idle")
    /\ window' = window + 1
    /\ UNCHANGED <<flood, floodTtl, sent, deaths>>

(* RL_WINDOW_MS after it was added, an entry counts no more *)
AgesOut ==
    /\ window > 0
    /\ window' = window - 1
    /\ UNCHANGED <<flood, floodTtl, limiter, sent, deaths>>

-----------------------------------------------------------------------------
(* Mutants: one message too many; the second send of the second sets the expiry *)
WithinFloodAndOne(n) == n <= FLOOD_MAX + 1
StartsSecondLate(n) == n = 2

(* checkFloodControl: INCR; the one who counts first starts the second *)
WithinFlood(n) == n <= FLOOD_MAX
StartsSecond(n) == n = 1

CountSend(q) ==
    LET n == flood + 1 IN
    \* above the limit the counter matters no more
    /\ flood' = IF n > FLOOD_MAX + 1 THEN flood ELSE n
    /\ sent' = IF WithinFlood(n) THEN sent + 1 ELSE sent
    /\ Goto(q, "incr", IF StartsSecond(n) THEN "expire" ELSE "idle")
    /\ UNCHANGED <<window, floodTtl, deaths>>

(* checkFloodControl: EXPIRE *)
StartSecond(q) ==
    /\ Goto(q, "expire", "idle")
    /\ floodTtl' = TRUE
    /\ UNCHANGED <<window, flood, sent, deaths>>

SecondEnds ==
    /\ floodTtl
    /\ floodTtl' = FALSE
    /\ flood' = 0
    /\ sent' = 0
    /\ UNCHANGED <<window, limiter, deaths>>

(* The process of the handler in slot q ends *)
Die(q) ==
    /\ limiter[q] # "idle"
    /\ Goto(q, limiter[q], "idle")
    /\ deaths < MaxDeaths
    /\ deaths' = deaths + 1
    /\ UNCHANGED <<window, flood, floodTtl, sent>>

-----------------------------------------------------------------------------
CheckStep(q) ==
    \/ CountReactions(q)
    \/ AddReaction(q)
    \/ CountSend(q)
    \/ StartSecond(q)

Next ==
    \/ \E q \in Reqs :
          \/ \E check \in {"count", "incr"} : Begin(q, check)
          \/ CheckStep(q)
          \/ Die(q)
    \/ AgesOut
    \/ SecondEnds

(* Handlers that run go on, and a counter with an expiry expires *)
Fairness ==
    /\ \A q \in Reqs : WF_limitVars(CheckStep(q))
    /\ WF_limitVars(SecondEnds)

Spec == Init /\ [][Next]_limitVars /\ Fairness

-----------------------------------------------------------------------------
(* Properties *)

TypeOK ==
    /\ window \in Nat
    /\ flood \in 0..(FLOOD_MAX + 1)
    /\ floodTtl \in BOOLEAN
    /\ limiter \in [Reqs -> {"idle", "count", "add", "incr", "expire"}]
    /\ sent \in Nat
    /\ deaths \in 0..MaxDeaths

(* "60 reactions per user per 60s": count and entry are two pipelines, so concurrent *)
(* reactions pass the limit, but by fewer than run at once.                          *)
LimitOvershootBounded == window <= RL_REACT_MAX + Cardinality(Reqs) - 1

(* "max 10 messages per user per second": however the sends of a user overlap, no     *)
(* more than the limit pass between two expiries of the counter.                      *)
SendsPaced == sent <= FLOOD_MAX

(* The two together: what passes the gateway's limits *)
LimitsHold == LimitOvershootBounded /\ SendsPaced

(* A user stopped by the flood control can send again; only a process that dies       *)
(* between INCR and EXPIRE leaves the counter for ever.                               *)
FloodLifts == flood # 0 ~> (flood = 0 \/ deaths > 0)
=============================================================================
