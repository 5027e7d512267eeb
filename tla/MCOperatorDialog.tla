-------------------------- MODULE MCOperatorDialog --------------------------
(* A small instance of OperatorDialog: questions and handlers are            *)
(* interchangeable.                                                          *)
EXTENDS OperatorDialog, TLC

Interchangeable == Permutations(Question) \cup Permutations(Handler)
=============================================================================
