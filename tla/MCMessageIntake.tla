-------------------------- MODULE MCMessageIntake --------------------------
(* A small instance of MessageIntake: a lead, the same lead decorated in two *)
(* ways, and a text that the prefilter rejects.                              *)
EXTENDS MessageIntake

Lead == {"need", "programmist", "bot"}
MCText == {Lead, Lead \cup {"link"}, Lead \cup {"emoji", "mention"}, {"hello", "emoji"}}
=============================================================================
