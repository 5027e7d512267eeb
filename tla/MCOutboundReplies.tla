------------------------- MODULE MCOutboundReplies -------------------------
(* A small instance of OutboundReplies: the texts and the command ids are    *)
(* interchangeable.                                                          *)
EXTENDS OutboundReplies, TLC

Interchangeable == Permutations(Text) \cup Permutations(CommandId)
=============================================================================
