---------------------------- MODULE MCAdmission ----------------------------
(* How somebody comes to ride along, for TLC: with a phone number and an OTP   *)
(* into an account, by a request or a link onto a trip.  They share no state   *)
(* in the models, so each behaviour follows the one that `focus` names.        *)
EXTENDS TripRaces, TLC

CONSTANTS MaxCodes, MaxTokens, MaxCrashes   \* AuthSessions

VARIABLES
    focus,
    sms, otp, issued, elapsed, row, minted, held, authReq, past

Auth == INSTANCE AuthSessions WITH Ops <- {"otp", "login"}, MaxEdits <- 0, req <- authReq

auth == <<sms, otp, issued, elapsed, row, minted, held, authReq, past>>

MCInit ==
    /\ RacesInit /\ Auth!Init
    /\ focus \in {"trip", "codes"}
    /\ focus = "codes" \/ sms

MCNext ==
    /\ UNCHANGED focus
    /\ IF focus = "trip" THEN Next /\ Races ELSE UNCHANGED all
    /\ IF focus = "codes" THEN Auth!Next ELSE UNCHANGED auth

MCSpec == MCInit /\ [][MCNext]_<<focus, all, auth>>

(* A live OTP survives few wrong guesses, and logs in once *)
OtpIsGuarded == Auth!OtpIsGuarded

(* The properties about the counter say nothing once it has drifted *)
Counting == ~drifted

Symmetry == Permutations(Reqs) \cup Permutations(Users \ {Creator})
=============================================================================
