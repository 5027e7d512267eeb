--------------------------- MODULE OperatorDialog ---------------------------
(***************************************************************************)
(* The operator's reply dialog: the callbacks and messages that the bot's   *)
(* handlers answer (bot/handlers/replies.py, question_feedback.py), the     *)
(* operator_sessions row they share, and the aiogram FSM kept in it.        *)
(*                                                                         *)
(* aiogram runs every update as a task of its own, so two clicks of the     *)
(* operator overlap.  A handler first reads active_question_id WITHOUT a    *)
(* lock, then locks the question row and commits; after the commit it       *)
(* writes the FSM state and the FSM data in two more transactions.  Each of *)
(* these is one step; task[h] holds what the handler has read so far.       *)
(* Abort is a crash or an exception between any two of them.                *)
(*                                                                         *)
(* A callback that only answers "unavailable", and the conflict keyboard,   *)
(* change nothing and are stutters.  Buttons of old messages stay, so any   *)
(* callback may come at any time.                                           *)
(***************************************************************************)
EXTENDS Naturals, FiniteSets

CONSTANTS
  Question,  \* rows of detected_questions
  Handler,   \* updates that the dispatcher handles at the same time
  None       \* NULL, or {} in the FSM data

ASSUME NoneAssumption == None \notin Question

QuestionStatus ==
  {"detected", "waiting_for_draft", "waiting_confirmation", "send_requested",
   "sent", "send_failed", "dismissed", "cancelled", "deleted"}

\* The statuses of a question whose reply is being composed.
Composing == {"waiting_for_draft", "waiting_confirmation"}

FsmState ==
  {"none", "waiting_for_draft", "waiting_for_send_confirmation",
   "waiting_for_sent_edit", "waiting_for_sent_edit_confirmation"}

MaybeQuestion == Question \cup {None}

Idle == [step |-> "idle"]

\* A handler before its commit: what it does, for which question, and the
\* active question it has read.
Deciding ==
  [step : {"typed", "read", "commit"},
   op : {"reply", "replace", "continue", "confirm", "edit", "cancel", "draft", "sent_edit"},
   question : MaybeQuestion, seen : MaybeQuestion]

\* A handler after its commit; keep: set_data is not called.
Writing ==
  [step : {"write_state", "write_data"}, state : FsmState, data : MaybeQuestion,
   keep : BOOLEAN]

VARIABLES
  status,       \* detected_questions.status
  drafted,      \* questions with at least one reply version
  active,       \* operator_sessions.active_question_id
  fsmState,     \* operator_sessions.state
  fsmQuestion,  \* operator_sessions.data["question_id"]
  task,         \* each running handler
  chatRemoved,  \* questions whose chat row is gone
  overrun       \* history: a write of active replaced a question nobody had read

questions == <<status, drafted, chatRemoved>>
fsm == <<fsmState, fsmQuestion>>
vars == <<questions, active, fsm, task, overrun>>

TypeOK ==
  /\ status \in [Question -> QuestionStatus]
  /\ drafted \subseteq Question
  /\ active \in MaybeQuestion
  /\ fsmState \in FsmState
  /\ fsmQuestion \in MaybeQuestion
  /\ task \in [Handler -> {Idle} \cup Deciding \cup Writing]
  /\ chatRemoved \subseteq Question
  /\ overrun \in BOOLEAN

Init ==
  /\ status = [q \in Question |-> "detected"]
  /\ drafted = {}
  /\ active = None
  /\ fsmState = "none"
  /\ fsmQuestion = None
  /\ task = [h \in Handler |-> Idle]
  /\ chatRemoved = {}
  /\ overrun = FALSE

-----------------------------------------------------------------------------
(* A handler's way through its transactions.                                 *)

At(h, step, op) == task[h].step = step /\ task[h].op = op

Decide(h, step, op, q, seen) ==
  task' = [task EXCEPT ![h] = [step |-> step, op |-> op, question |-> q, seen |-> seen]]

Finish(h) == task' = [task EXCEPT ![h] = Idle]

\* set_state, then set_data; state.clear() is both with nothing in them.
SaveFsm(h, state, q) ==
  task' = [task EXCEPT ![h] = [step |-> "write_state", state |-> state, data |-> q,
                               keep |-> FALSE]]
SaveState(h, state) ==
  task' = [task EXCEPT ![h] = [step |-> "write_state", state |-> state, data |-> None,
                               keep |-> TRUE]]
ClearFsm(h) == SaveFsm(h, "none", None)

WriteState(h) ==
  /\ task[h].step = "write_state"
  /\ fsmState' = task[h].state
  /\ IF task[h].keep THEN Finish(h)
                     ELSE task' = [task EXCEPT ![h].step = "write_data"]
  /\ UNCHANGED <<questions, active, fsmQuestion, overrun>>

WriteData(h) ==
  /\ task[h].step = "write_data"
  /\ fsmQuestion' = task[h].data
  /\ Finish(h)
  /\ UNCHANGED <<questions, active, fsmState, overrun>>

Abort(h) ==
  /\ task[h] # Idle
  /\ Finish(h)
  /\ UNCHANGED <<questions, active, fsm, overrun>>

-----------------------------------------------------------------------------
(* The updates, up to the last unlocked read.                                *)

ClickReply(h, q) ==
  /\ task[h] = Idle
  /\ IF status[q] = "sent" THEN SaveFsm(h, "waiting_for_sent_edit", q)
                           ELSE Decide(h, "read", "reply", q, None)
  /\ UNCHANGED <<questions, active, fsm, overrun>>

\* get_active_question; another active question than q ends in a stutter.
ReadActive(h) ==
  /\ task[h].step = "read"
  /\ LET q == task[h].question
         op == task[h].op
     IN IF active \in (IF op = "reply" THEN {None, q} ELSE {q})
        THEN Decide(h, "commit", op, q, active)
        ELSE IF op = "draft" THEN ClearFsm(h) ELSE Finish(h)
  /\ UNCHANGED <<questions, active, fsm, overrun>>

ClickReplace(h, q) ==
  /\ task[h] = Idle
  /\ Decide(h, "commit", "replace", q, active)
  /\ UNCHANGED <<questions, active, fsm, overrun>>

ClickDraft(h, op, q) ==
  /\ task[h] = Idle
  /\ active = q
  /\ Decide(h, "commit", op, q, active)
  /\ UNCHANGED <<questions, active, fsm, overrun>>

ClickEditSent(h, q) ==
  /\ task[h] = Idle
  /\ SaveFsm(h, "waiting_for_sent_edit", q)
  /\ UNCHANGED <<questions, active, fsm, overrun>>

\* The edit itself (prepare_edit, confirm_edit) is in OutboundReplies.
ClickSentEdit(h, q) ==
  /\ task[h] = Idle
  /\ ClearFsm(h)
  /\ UNCHANGED <<questions, active, fsm, overrun>>

\* The dispatcher picks the handler by the FSM state it has read.
TypeText(h) ==
  /\ task[h] = Idle
  /\ \/ fsmState = "waiting_for_draft" /\ Decide(h, "typed", "draft", None, None)
     \/ fsmState = "waiting_for_sent_edit" /\ Decide(h, "typed", "sent_edit", None, None)
  /\ UNCHANGED <<questions, active, fsm, overrun>>

ReadData(h) ==
  /\ task[h].step = "typed"
  /\ IF fsmQuestion = None
     THEN ClearFsm(h)
     ELSE Decide(h, IF task[h].op = "draft" THEN "read" ELSE "commit",
                 task[h].op, fsmQuestion, None)
  /\ UNCHANGED <<questions, active, fsm, overrun>>

-----------------------------------------------------------------------------
(* The commits.  The question rows are read FOR UPDATE.                      *)

\* Where a write of active that is not conditional on its value hits a
\* question that this handler had not read.
Overruns(q, seen) == overrun \/ active \notin {None, q, seen}

\* OpenableFailed would take a question whose send has failed, too.
OpenableFailed == {"detected", "send_failed"} \cup Composing
Openable == {"detected"} \cup Composing

\* ReplyDraftRepository.cancel of the question that was read as active; its
\* DraftUnavailableError is ignored.  KeepReplaced forgets the cancel.
KeepReplaced(h) == status
AfterReplace(h) ==
  LET seen == task[h].seen IN
  IF task[h].op = "replace" /\ seen \notin {None, task[h].question}
  THEN [q \in Question |-> IF q = seen /\ status[q] \in Composing THEN "cancelled"
                           ELSE status[q]]
  ELSE status

\* OperatorSessionRepository.open_question without its conflict check.
MayBindBlindly(op, q) == TRUE
\* The session row is read FOR UPDATE: a conflict raises and rolls back.
MayBind(op, q) == op = "replace" \/ active \in {None, q}

\* open fails: the question is gone or done, or its chat is.  The error is
\* caught inside the transaction, which commits what was changed before it.
CommitUnavailable(h) ==
  LET q == task[h].question IN
  /\ At(h, "commit", "reply") \/ At(h, "commit", "replace")
  /\ \/ AfterReplace(h)[q] \notin Openable /\ status' = AfterReplace(h)
     \/ /\ AfterReplace(h)[q] \in Openable
        /\ q \in chatRemoved
        /\ status' = [AfterReplace(h) EXCEPT ![q] = "waiting_for_draft"]
  /\ Finish(h)
  /\ UNCHANGED <<drafted, chatRemoved, active, fsm, overrun>>

CommitOpen(h) ==
  LET q == task[h].question IN
  /\ At(h, "commit", "reply") \/ At(h, "commit", "replace")
  /\ AfterReplace(h)[q] \in Openable
  /\ q \notin chatRemoved
  /\ MayBind(task[h].op, q)
  /\ status' = [AfterReplace(h) EXCEPT ![q] = "waiting_for_draft"]
  /\ active' = q
  /\ overrun' = IF task[h].op = "replace" THEN Overruns(q, task[h].seen) ELSE overrun
  /\ SaveFsm(h, "waiting_for_draft", q)
  /\ UNCHANGED <<drafted, chatRemoved, fsm>>

CommitDraft(h) ==
  LET q == task[h].question IN
  /\ At(h, "commit", "draft")
  /\ IF status[q] = "waiting_for_draft" /\ q \notin chatRemoved
     THEN /\ status' = [status EXCEPT ![q] = "waiting_confirmation"]
          /\ drafted' = drafted \cup {q}
          /\ SaveState(h, "waiting_for_send_confirmation")
     ELSE ClearFsm(h) /\ UNCHANGED <<status, drafted>>
  /\ UNCHANGED <<chatRemoved, active, fsm, overrun>>

\* clear_active_question writes NULL over whatever is there by now.
ClearActive(q) == active' = None /\ overrun' = Overruns(q, q)

\* KeepBound forgets clear_active_question.
KeepBound(q) == UNCHANGED <<active, overrun>>
UnbindConfirmed(q) == ClearActive(q)

\* A second confirmation finds the command of the first and returns it.
CommitConfirm(h) ==
  LET q == task[h].question IN
  /\ At(h, "commit", "confirm")
  /\ status[q] \in {"waiting_confirmation", "send_requested"}
  /\ status' = [status EXCEPT ![q] = "send_requested"]
  /\ UnbindConfirmed(q)
  /\ ClearFsm(h)
  /\ UNCHANGED <<drafted, chatRemoved, fsm>>

CommitReopen(h) ==
  LET q == task[h].question IN
  /\ At(h, "commit", "edit")
  /\ status[q] = "waiting_confirmation"
  /\ status' = [status EXCEPT ![q] = "waiting_for_draft"]
  /\ SaveFsm(h, "waiting_for_draft", q)
  /\ UNCHANGED <<drafted, chatRemoved, active, fsm, overrun>>

CommitCancel(h) ==
  LET q == task[h].question IN
  /\ At(h, "commit", "cancel")
  /\ status[q] \in Composing \cup {"cancelled"}
  /\ status' = [status EXCEPT ![q] = "cancelled"]
  /\ ClearActive(q)
  /\ ClearFsm(h)
  /\ UNCHANGED <<drafted, chatRemoved, fsm>>

\* latest: without the chat the preview of a draft cannot be shown and raises.
CommitContinue(h) ==
  LET q == task[h].question IN
  /\ At(h, "commit", "continue")
  /\ status[q] # "deleted"
  /\ IF q \in drafted
     THEN q \notin chatRemoved /\ SaveFsm(h, "waiting_for_send_confirmation", q)
     ELSE SaveFsm(h, "waiting_for_draft", q)
  /\ UNCHANGED <<questions, active, fsm, overrun>>

CommitSentEdit(h) ==
  /\ At(h, "commit", "sent_edit")
  /\ IF status[task[h].question] = "sent"
     THEN SaveState(h, "waiting_for_sent_edit_confirmation")
     ELSE ClearFsm(h)
  /\ UNCHANGED <<questions, active, fsm, overrun>>

-----------------------------------------------------------------------------
(* One transaction each: the feedback buttons, the send worker, retention,   *)
(* the removal of a chat.                                                    *)

Move(q, from, to) ==
  /\ status[q] = from
  /\ status' = [status EXCEPT ![q] = to]
  /\ UNCHANGED <<drafted, chatRemoved, active, fsm, task, overrun>>

Dismiss(q) == Move(q, "detected", "dismissed")
Reopen(q) == Move(q, "dismissed", "detected")
SendSettles(q) == Move(q, "send_requested", "sent") \/ Move(q, "send_requested", "send_failed")

\* active_question_id is a foreign key ON DELETE SET NULL.
DeleteQuestion(q) ==
  /\ status[q] # "deleted"
  /\ status' = [status EXCEPT ![q] = "deleted"]
  /\ drafted' = drafted \ {q}
  /\ active' = IF active = q THEN None ELSE active
  /\ UNCHANGED <<chatRemoved, fsm, task, overrun>>

RemoveChat(q) ==
  /\ q \notin chatRemoved
  /\ chatRemoved' = chatRemoved \cup {q}
  /\ UNCHANGED <<status, drafted, active, fsm, task, overrun>>

-----------------------------------------------------------------------------
Click(h, q) ==
  \/ ClickReply(h, q) \/ ClickReplace(h, q)
  \/ \E op \in {"continue", "confirm", "edit", "cancel"} : ClickDraft(h, op, q)
  \/ ClickEditSent(h, q) \/ ClickSentEdit(h, q)

Handle(h) ==
  \/ TypeText(h) \/ ReadData(h) \/ ReadActive(h)
  \/ CommitUnavailable(h) \/ CommitOpen(h) \/ CommitDraft(h) \/ CommitConfirm(h)
  \/ CommitReopen(h) \/ CommitCancel(h) \/ CommitContinue(h) \/ CommitSentEdit(h)
  \/ WriteState(h) \/ WriteData(h) \/ Abort(h)

Elsewhere(q) ==
  Dismiss(q) \/ Reopen(q) \/ SendSettles(q) \/ DeleteQuestion(q) \/ RemoveChat(q)

Next ==
  \/ \E h \in Handler : Handle(h) \/ \E q \in Question : Click(h, q)
  \/ \E q \in Question : Elsewhere(q)

Spec == Init /\ [][Next]_vars

-----------------------------------------------------------------------------
(* Properties.                                                               *)

\* The operator's flow is bound only to a question that is being composed (or
\* whose draft was cancelled while the next question turned out unavailable),
\* never to one that is confirmed, sent, dismissed or gone: however many clicks
\* overlap, the unlocked read of active_question_id cannot bring one back.
FlowBoundToDraft ==
  active # None => status[active] \in Composing \cup {"cancelled"}

\* Unless a write of active_question_id hit a question that its handler had not
\* read, at most one question is being composed, and it is the active one: the
\* two transactions of the FSM, a crash between them and overlapping clicks on
\* "reply" never leave a second draft open.  Only a question without its chat
\* may wait for a text that nobody can give it (CommitUnavailable).
OneOpenDraft ==
  ~overrun =>
    \A q \in Question :
      /\ status[q] = "waiting_confirmation" => active = q
      /\ status[q] = "waiting_for_draft" => active = q \/ q \in chatRemoved

\* A text becomes a draft, and a draft becomes a confirmed reply, only in the
\* question that the flow is bound to at the moment of the commit, although the
\* binding was read earlier and without a lock (same exception).
ActsOnBoundQuestion ==
  [][\A q \in Question :
       \/ status[q] = "waiting_for_draft" /\ status'[q] = "waiting_confirmation"
       \/ status[q] = "waiting_confirmation" /\ status'[q] = "send_requested"
       => active = q \/ overrun]_vars

(* The life of a question (module QuestionLifecycle), whose variables have   *)
(* the same names here.                                                      *)
Lifecycle == INSTANCE QuestionLifecycle

\* However handlers overlap and die, and although they decide on what they
\* have read before, every commit takes its questions along the edges of their
\* life, the two of a replacement included.
LifecycleKept == Lifecycle!Spec
=============================================================================
