----------------------- MODULE MCCommunityMembership -----------------------
(* CommunityMembership for TLC: the values of its constants are in the cfgs *)
EXTENDS CommunityMembership
=============================================================================
