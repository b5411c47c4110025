---------------------------- MODULE MCRoomAccess ----------------------------
(* RoomAccess for TLC: the values of its constants are in the cfgs *)
EXTENDS RoomAccess
=============================================================================
