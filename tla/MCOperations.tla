---------------------------- MODULE MCOperations ----------------------------
(* A small instance of Operations.                                           *)
EXTENDS Operations
=============================================================================
