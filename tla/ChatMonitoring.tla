--------------------------- MODULE ChatMonitoring ---------------------------
(***************************************************************************)
(* The monitored chats and the verifier that keeps asking Telegram whether  *)
(* the account still has access to them: the repository monitored_chats,    *)
(* the chat cards of the bot, listener/chat_verification.py, and the part   *)
(* of the listener's lifecycle that starts, cancels and leaks verifiers.    *)
(*                                                                         *)
(* A verifier reads the due chats in one transaction, asks Telegram about   *)
(* one after the other, and applies each answer in a transaction of its     *)
(* own.  While it asks, the operator pauses, resumes, removes and adds      *)
(* chats, and a failed send requests a prompt check.                        *)
(*                                                                         *)
(* A connection runs its tasks under asyncio.gather.  When the link drops   *)
(* they are all cancelled; when one of them raises, the others go on while  *)
(* the listener connects again and starts a second set: a leaked verifier.  *)
(***************************************************************************)
EXTENDS Naturals

CONSTANTS
  Chat,      \* Telegram groups the operator may pick
  Verifier,  \* sets of connection tasks that may run at the same time (bound)
  None       \* no connection

ASSUME NoneAssumption == None \notin Verifier

\* read_only stands for itself and verification_failed: both are written like
\* active, and only active chats are ingested.
ChatStatus ==
  {"pending_verification", "active", "read_only", "access_lost", "disabled"}

\* next_verification_at: due, in five minutes, in a day.
Due == {"now", "soon", "day"}

\* consecutive_access_failures counts on; nothing tells 2 from more.
FailureCap == 2

Row == [status : ChatStatus, failures : 0..FailureCap, due : Due]
NoRow == [status |-> "absent"]

\* transient: ChatVerificationTransientError, which changes no evidence.
Answer == {"active", "read_only", "access_lost", "transient"}

Off == [step |-> "off"]
Waiting == [step |-> "waiting"]
Round == [step : {"round"}, batch : SUBSET Chat]
\* asked and covers are history: the failures recorded when the question was
\* put to Telegram, and whether it was put after the last requested check.
Asking ==
  [step : {"asking"}, batch : SUBSET Chat, chat : Chat, answer : Answer,
   asked : 0..FailureCap, covers : BOOLEAN]

VARIABLES
  row,        \* monitored_chats, by Telegram chat
  verifier,   \* the verifier of each set of connection tasks
  current,    \* the set of tasks the listener is waiting for
  requested,  \* history: chats with a followed request that no later check answered
  leaked      \* history: a verifier has outlived its connection since Restart

vars == <<row, verifier, current, requested, leaked>>

TypeOK ==
  /\ row \in [Chat -> Row \cup {NoRow}]
  /\ verifier \in [Verifier -> {Off, Waiting} \cup Round \cup Asking]
  /\ current \in Verifier \cup {None}
  /\ requested \subseteq Chat
  /\ leaked \in BOOLEAN

Init ==
  /\ row = [c \in Chat |-> NoRow]
  /\ verifier = [v \in Verifier |-> Off]
  /\ current = None
  /\ requested = {}
  /\ leaked = FALSE

Present(c) == row[c].status # "absent"
Enabled(c) == Present(c) /\ row[c].status # "disabled"
Running == {v \in Verifier : verifier[v] # Off}

-----------------------------------------------------------------------------
(* The operator's chat cards: one transaction each.                          *)

AddPending(c) ==
  /\ ~Present(c)
  /\ row' = [row EXCEPT ![c] = [status |-> "pending_verification", failures |-> 0,
                                due |-> "now"]]
  /\ UNCHANGED <<verifier, current, requested, leaked>>

Pause(c) ==
  /\ Enabled(c)
  /\ row' = [row EXCEPT ![c].status = "disabled"]
  /\ requested' = requested \ {c}
  /\ UNCHANGED <<verifier, current, leaked>>

\* ResumeAsIs keeps the failures counted before the pause.
ResumeAsIs(c) ==
  /\ row[c].status = "disabled"
  /\ row' = [row EXCEPT ![c].status = "pending_verification", ![c].due = "now"]
  /\ UNCHANGED <<verifier, current, requested, leaked>>
Resume(c) ==
  /\ row[c].status = "disabled"
  /\ row' = [row EXCEPT ![c] = [status |-> "pending_verification", failures |-> 0,
                                due |-> "now"]]
  /\ UNCHANGED <<verifier, current, requested, leaked>>

\* A chat that is added again is a row with another id: whatever a verifier
\* still does with the old id changes nothing, so it is dropped here.
Forget(v, c) ==
  CASE v.step = "round" -> [v EXCEPT !.batch = @ \ {c}]
    [] v.step = "asking" /\ v.chat # c -> [v EXCEPT !.batch = @ \ {c}]
    [] v.step = "asking" /\ v.chat = c -> [step |-> "round", batch |-> v.batch \ {c}]
    [] OTHER -> v

Remove(c) ==
  /\ Present(c)
  /\ row' = [row EXCEPT ![c] = NoRow]
  /\ verifier' = [v \in Verifier |-> Forget(verifier[v], c)]
  /\ requested' = requested \ {c}
  /\ UNCHANGED <<current, leaked>>

\* request_chat_verification, after a send that failed for lost access.  The
\* history follows one request at a time, any of them (follow): an answer that
\* is already on its way was not asked because of it.
RequestVerification(c, follow) ==
  /\ Enabled(c)
  /\ row' = [row EXCEPT ![c].due = "now"]
  /\ IF follow /\ c \notin requested
     THEN /\ requested' = requested \cup {c}
          /\ verifier' = [v \in Verifier |->
               IF verifier[v].step = "asking" /\ verifier[v].chat = c
               THEN [verifier[v] EXCEPT !.covers = FALSE] ELSE verifier[v]]
     ELSE UNCHANGED <<requested, verifier>>
  /\ UNCHANGED <<current, leaked>>

-----------------------------------------------------------------------------
(* verify_due_chats_once.                                                    *)

\* list_due_verification.  Its limit of 20, oldest first, is above the
\* instances checked.  DueListed repeats the filter of the allow list instead.
DueListed(c) == row[c].status \in {"pending_verification", "active"} /\ row[c].due = "now"
DueEnabled(c) == Enabled(c) /\ row[c].due = "now"

ListDue(v) ==
  /\ verifier[v] = Waiting
  /\ verifier' = [verifier EXCEPT ![v] =
       [step |-> "round", batch |-> {c \in Chat : DueEnabled(c)}]]
  /\ UNCHANGED <<row, current, requested, leaked>>

\* client.verify_chat of one chat of the batch; it may have been paused since.
Ask(v, c) ==
  /\ verifier[v].step = "round"
  /\ c \in verifier[v].batch
  /\ \E answer \in Answer :
       verifier' = [verifier EXCEPT ![v] =
         [step |-> "asking", batch |-> verifier[v].batch \ {c}, chat |-> c,
          answer |-> answer, asked |-> row[c].failures, covers |-> c \in requested]]
  /\ UNCHANGED <<row, current, requested, leaked>>

EndRound(v) ==
  /\ verifier[v] = [step |-> "round", batch |-> {}]
  /\ verifier' = [verifier EXCEPT ![v] = Waiting]
  /\ UNCHANGED <<row, current, requested, leaked>>

NextChat(v) ==
  verifier' = [verifier EXCEPT ![v] = [step |-> "round", batch |-> verifier[v].batch]]

\* The row after an access loss: the first one only asks for a confirmation.
\* LostAtOnce believes it.
LostAtOnce(r) == [status |-> "access_lost", failures |-> FailureCap, due |-> "day"]
AccessLoss(r) ==
  IF r.failures >= 1
  THEN [status |-> "access_lost", failures |-> FailureCap, due |-> "day"]
  ELSE [r EXCEPT !.failures = 1, !.due = "soon"]

Applied(r, answer) ==
  IF answer = "access_lost" THEN AccessLoss(r)
  ELSE [status |-> answer, failures |-> 0, due |-> "day"]

\* A chat that was paused meanwhile keeps its row.
ApplyVerification(v, c) ==
  /\ verifier[v].step = "asking"
  /\ verifier[v].chat = c
  /\ verifier[v].answer # "transient"
  /\ IF Enabled(c)
     THEN /\ row' = [row EXCEPT ![c] = Applied(row[c], verifier[v].answer)]
          /\ requested' = IF verifier[v].covers THEN requested \ {c} ELSE requested
     ELSE UNCHANGED <<row, requested>>
  /\ NextChat(v)
  /\ UNCHANGED <<current, leaked>>

Defer(c) == row' = [row EXCEPT ![c].due = "soon"]

DeferVerification(v) ==
  /\ verifier[v].step = "asking"
  /\ verifier[v].answer = "transient"
  /\ IF Enabled(verifier[v].chat) THEN Defer(verifier[v].chat) ELSE UNCHANGED row
  /\ NextChat(v)
  /\ UNCHANGED <<current, requested, leaked>>

\* Time passes until the chat is due.
Elapse(c) ==
  /\ Present(c)
  /\ row[c].due # "now"
  /\ row' = [row EXCEPT ![c].due = "now"]
  /\ UNCHANGED <<verifier, current, requested, leaked>>

-----------------------------------------------------------------------------
(* run_listener.                                                             *)

Connect(v) ==
  /\ current = None
  /\ verifier[v] = Off
  /\ current' = v
  /\ verifier' = [verifier EXCEPT ![v] = Waiting]
  /\ UNCHANGED <<row, requested, leaked>>

\* run_until_disconnected ends: the gathered tasks are cancelled.
LinkDrops ==
  /\ current # None
  /\ verifier' = [verifier EXCEPT ![current] = Off]
  /\ current' = None
  /\ UNCHANGED <<row, requested, leaked>>

\* A task raises (a database error, a worker's unexpected exception): gather
\* ends with it and the listener connects again, but the verifier runs on
\* unless it was the verifier that raised.
TaskRaises(verifierToo) ==
  /\ current # None
  /\ verifier' = IF verifierToo THEN [verifier EXCEPT ![current] = Off] ELSE verifier
  /\ current' = None
  /\ leaked' = (leaked \/ ~verifierToo)
  /\ UNCHANGED <<row, requested>>

\* A leaked verifier dies of its own exception, seen by nobody.
LeakedDies(v) ==
  /\ v \in Running \ {current}
  /\ verifier' = [verifier EXCEPT ![v] = Off]
  /\ UNCHANGED <<row, current, requested, leaked>>

\* The process is stopped or killed, and started again.
Restart ==
  /\ Running # {}
  /\ verifier' = [v \in Verifier |-> Off]
  /\ current' = None
  /\ leaked' = FALSE
  /\ UNCHANGED <<row, requested>>

-----------------------------------------------------------------------------
ChatStep(c) ==
  \/ AddPending(c) \/ Pause(c) \/ Resume(c) \/ Remove(c)
  \/ Elapse(c)
  \/ \E follow \in BOOLEAN : RequestVerification(c, follow)

VerifierStep(v) ==
  \/ ListDue(v) \/ EndRound(v) \/ DeferVerification(v)
  \/ \E c \in Chat : Ask(v, c) \/ ApplyVerification(v, c)
  \/ Connect(v) \/ LeakedDies(v)

Next ==
  \/ \E c \in Chat : ChatStep(c)
  \/ \E v \in Verifier : VerifierStep(v)
  \/ LinkDrops \/ Restart
  \/ \E verifierToo \in BOOLEAN : TaskRaises(verifierToo)

Spec == Init /\ [][Next]_vars

(* Fairness.  The listener always connects again, its verifier polls without *)
(* end, time passes, and Telegram's transient errors end: of infinitely many *)
(* questions about a chat one is answered.  A dropped link, a crash or a     *)
(* pause may hit a round anywhere, but not every round (SF).                 *)
Fairness ==
  /\ WF_vars(\E v \in Verifier : Connect(v))
  /\ SF_vars(\E v \in Verifier : ListDue(v))
  /\ \A v \in Verifier : WF_vars(EndRound(v)) /\ WF_vars(DeferVerification(v))
  /\ \A c \in Chat :
       /\ WF_vars(Elapse(c))
       /\ SF_vars(\E v \in Verifier : Ask(v, c) /\ verifier'[v].answer # "transient")
       /\ SF_vars(\E v \in Verifier : ApplyVerification(v, c))

FairSpec == Spec /\ Fairness

-----------------------------------------------------------------------------
(* Properties.                                                               *)

\* The evidence and the status of a chat agree, whoever wrote them last: an
\* enabled chat is access_lost exactly when two losses in a row are recorded,
\* and a single loss is confirmed promptly, not with the next daily check.  It
\* holds with leaked verifiers, overtaken answers, and pauses in between.
EvidenceMatchesStatus ==
  \A c \in Chat : Enabled(c) =>
    /\ row[c].status = "access_lost" <=> row[c].failures = FailureCap
    /\ row[c].failures = 1 => row[c].due # "day"

\* "requiring two consecutive access-loss results": as long as no verifier has
\* leaked, a chat is given up only on an answer that was asked for after an
\* earlier loss had been recorded.
AccessLossConfirmed ==
  [][\A c \in Chat :
       Enabled(c) /\ row[c].status # "access_lost" /\ row'[c].status = "access_lost"
       /\ ~leaked
       => \E v \in Running : verifier[v].chat = c /\ verifier[v].asked >= 1]_vars

\* A requested check is not lost for ever, although the answer to an older
\* question may push it back by a day: a question asked after the request is
\* answered, or the chat is paused or removed.
RequestHonoured ==
  \A c \in Chat : c \in requested ~> c \notin requested
=============================================================================
