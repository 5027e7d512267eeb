-------------------------- MODULE MCChatMonitoring --------------------------
(* A small instance of ChatMonitoring.                                       *)
EXTENDS ChatMonitoring
=============================================================================
