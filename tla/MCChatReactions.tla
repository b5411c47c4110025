--------------------------- MODULE MCChatReactions ---------------------------
(* ChatReactions for TLC: the values of its constants are in the cfg *)
EXTENDS ChatReactions
=============================================================================
