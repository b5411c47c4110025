-------------------------- MODULE MCTripMembership --------------------------
(* TripMembership for TLC: the values of its constants are in the cfgs *)
EXTENDS TripMembership
=============================================================================
