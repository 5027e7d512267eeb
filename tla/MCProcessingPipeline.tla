------------------------ MODULE MCProcessingPipeline ------------------------
(* A small instance of ProcessingPipeline: all messages are of one chat, and *)
(* they are interchangeable.                                                 *)
EXTENDS ProcessingPipeline, TLC

OneChat == [m \in Message |-> CHOOSE c \in Chat : TRUE]

Interchangeable == Permutations(Message) \cup Permutations(ChainWorker)
=============================================================================
