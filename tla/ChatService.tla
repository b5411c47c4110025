---------------------------- MODULE ChatService ----------------------------
(***************************************************************************)
(* The chat as messages and reactions come in: the write path (ChatFlush)  *)
(* and the limits of one user in front of it (ChatLimits).  They share no  *)
(* state in the models, so each behaviour follows the one that `focus`     *)
(* names; the other stays in its initial state, where none of its fair     *)
(* actions but Bootstrap is enabled.                                       *)
(***************************************************************************)
EXTENDS ChatFlush

CONSTANTS Handlers, RL_REACT_MAX, FLOOD_MAX, MaxLimitDeaths    \* ChatLimits

ASSUME ChatServiceAssumption ==
    /\ IsFiniteSet(Handlers) /\ Handlers # {}
    /\ RL_REACT_MAX \in Nat \ {0} /\ FLOOD_MAX \in Nat
    /\ MaxLimitDeaths \in Nat

VARIABLES focus, window, flood, floodTtl, limiter, sent, limitDeaths

Limits == INSTANCE ChatLimits WITH
    Reqs <- Handlers, MaxDeaths <- MaxLimitDeaths, deaths <- limitDeaths

limits == <<window, flood, floodTtl, limiter, sent, limitDeaths>>
service == <<focus, vars, limits>>

ServiceInit == Init /\ Limits!Init /\ focus \in {"flush", "limits"}

ServiceNext ==
    /\ UNCHANGED focus
    /\ IF focus = "flush" THEN Next ELSE UNCHANGED vars
    /\ IF focus = "limits" THEN Limits!Next ELSE UNCHANGED limits

ServiceSpec ==
    /\ ServiceInit /\ [][ServiceNext]_service
    /\ \A s \in Servers : WF_vars(focus = "flush" /\ Bootstrap(s))
    /\ WorkerFairness
    /\ Limits!Fairness

(* Few more reactions than the limit pass, and no more sends *)
LimitsHold == Limits!LimitsHold

(* A user stopped by the flood control can send again *)
FloodLifts == Limits!FloodLifts
=============================================================================
