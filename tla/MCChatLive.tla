------------------------------ MODULE MCChatLive -------------------------------
(* ChatLive for TLC: every constant is a number, given by each configuration. *)
EXTENDS ChatLive
=============================================================================
