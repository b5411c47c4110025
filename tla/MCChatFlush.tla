---------------------------- MODULE MCChatFlush ----------------------------
(* ChatFlush for TLC: the values of its constants are in the cfgs *)
EXTENDS ChatFlush
=============================================================================
