--------------------------- MODULE MCChatService ---------------------------
(* ChatService for TLC: the values of its constants are in the cfg *)
EXTENDS ChatService
=============================================================================
