------------------------ MODULE OperatorDialog_proofs ------------------------
(* The invariants of OperatorDialog for any number of questions and of       *)
(* overlapping handlers.  FlowBoundToDraft and OneOpenDraft speak only of    *)
(* the question rows and the active question, so the lemmas are about the    *)
(* commits; every other step leaves those alone.                             *)
EXTENDS OperatorDialog, TLAPS

\* What the invariants look at.
rows == <<status, chatRemoved, active, overrun>>

Flow == FlowBoundToDraft /\ OneOpenDraft

LEMMA RowsKept ==
  ASSUME Flow, UNCHANGED rows
  PROVE  Flow'
BY DEF Flow, rows, FlowBoundToDraft, OneOpenDraft

LEMMA TaskType ==
  ASSUME TypeOK, NEW h \in Handler, NEW next \in {Idle} \cup Deciding \cup Writing,
         task' = [task EXCEPT ![h] = next]
  PROVE  task' \in [Handler -> {Idle} \cup Deciding \cup Writing]
BY DEF TypeOK

LEMMA DecideType ==
  ASSUME TypeOK, NEW h \in Handler, NEW step \in {"typed", "read", "commit"},
         NEW op \in {"reply", "replace", "continue", "confirm", "edit", "cancel",
                     "draft", "sent_edit"},
         NEW q \in MaybeQuestion, NEW seen \in MaybeQuestion,
         Decide(h, step, op, q, seen)
  PROVE  task' \in [Handler -> {Idle} \cup Deciding \cup Writing]
BY DEF TypeOK, Decide, Deciding

LEMMA SaveType ==
  ASSUME TypeOK, NEW h \in Handler, NEW state \in FsmState, NEW q \in MaybeQuestion,
         SaveFsm(h, state, q) \/ SaveState(h, state) \/ ClearFsm(h) \/ Finish(h)
  PROVE  task' \in [Handler -> {Idle} \cup Deciding \cup Writing]
<1>1. "none" \in FsmState /\ None \in MaybeQuestion
  BY DEF FsmState, MaybeQuestion
<1>2. \A s \in FsmState, d \in MaybeQuestion, k \in BOOLEAN :
        [step |-> "write_state", state |-> s, data |-> d, keep |-> k] \in Writing
  BY DEF Writing
<1>. QED
  BY <1>1, <1>2, TaskType DEF SaveFsm, SaveState, ClearFsm, Finish

LEMMA TaskRecord ==
  ASSUME TypeOK, NEW h \in Handler
  PROVE  /\ task[h].step \in {"typed", "read", "commit"} => task[h] \in Deciding
         /\ task[h].step \in {"write_state", "write_data"} => task[h] \in Writing
<1>1. CASE task[h] = Idle
  BY <1>1 DEF Idle
<1>2. CASE task[h] \in Deciding
  BY <1>2 DEF Deciding
<1>3. CASE task[h] \in Writing
  BY <1>3 DEF Writing
<1>4. task[h] \in {Idle} \cup Deciding \cup Writing
  BY DEF TypeOK
<1>. QED
  BY <1>1, <1>2, <1>3, <1>4

\* A handler that decides keeps to a question, except before it has read one.
Located ==
  \A h \in Handler :
    task[h].step \in {"read", "commit"} => task[h].question \in Question

-----------------------------------------------------------------------------
LEMMA AfterReplaceType ==
  ASSUME TypeOK, NEW h \in Handler
  PROVE  AfterReplace(h) \in [Question -> QuestionStatus]
BY DEF AfterReplace, TypeOK, QuestionStatus

LEMMA ClickType ==
  ASSUME TypeOK, Located, NEW h \in Handler, NEW q \in Question, Click(h, q)
  PROVE  TypeOK' /\ Located' /\ UNCHANGED rows
<1>1. UNCHANGED <<questions, active, fsm, overrun>>
  BY DEF Click, ClickReply, ClickReplace, ClickDraft, ClickEditSent, ClickSentEdit
<1>2. task' \in [Handler -> {Idle} \cup Deciding \cup Writing]
  <2>1. CASE ClickReply(h, q)
    BY <2>1, DecideType, SaveType DEF ClickReply, FsmState, MaybeQuestion
  <2>2. CASE ClickReplace(h, q)
    BY <2>2, DecideType DEF ClickReplace, MaybeQuestion, TypeOK
  <2>3. ASSUME NEW op \in {"continue", "confirm", "edit", "cancel"}, ClickDraft(h, op, q)
        PROVE  task' \in [Handler -> {Idle} \cup Deciding \cup Writing]
    BY <2>3, DecideType DEF ClickDraft, MaybeQuestion, TypeOK
  <2>4. CASE ClickEditSent(h, q)
    BY <2>4, SaveType DEF ClickEditSent, FsmState, MaybeQuestion
  <2>5. CASE ClickSentEdit(h, q)
    <3>1. ClearFsm(h)
      BY <2>5 DEF ClickSentEdit
    <3>2. "none" \in FsmState /\ None \in MaybeQuestion
      BY DEF FsmState, MaybeQuestion
    <3>. QED
      BY <3>1, <3>2, SaveType
  <2>. QED
    BY <2>1, <2>2, <2>3, <2>4, <2>5 DEF Click
<1>3. Located'
  <2>1. \A g \in Handler \ {h} : task'[g] = task[g]
    BY DEF Click, ClickReply, ClickReplace, ClickDraft, ClickEditSent, ClickSentEdit,
       Decide, SaveFsm, ClearFsm, TypeOK
  <2>2. task'[h].step \in {"read", "commit"} => task'[h].question = q
    BY DEF Click, ClickReply, ClickReplace, ClickDraft, ClickEditSent, ClickSentEdit,
       Decide, SaveFsm, ClearFsm, TypeOK
  <2>. QED
    BY <2>1, <2>2 DEF Located
<1>. QED
  BY <1>1, <1>2, <1>3 DEF TypeOK, questions, fsm, rows

\* The steps of a handler that touch no row: reads, FSM writes, aborts.
Aside(h) ==
  \/ TypeText(h) \/ ReadData(h) \/ ReadActive(h)
  \/ CommitContinue(h) \/ CommitSentEdit(h)
  \/ WriteState(h) \/ WriteData(h) \/ Abort(h)

LEMMA AsideType ==
  ASSUME TypeOK, Located, NEW h \in Handler, Aside(h)
  PROVE  TypeOK' /\ Located' /\ UNCHANGED rows
<1>1. UNCHANGED <<questions, active, overrun>> /\ fsmState' \in FsmState /\ fsmQuestion' \in MaybeQuestion
  <2>1. CASE WriteState(h)
    BY <2>1, TaskRecord DEF WriteState, Writing, TypeOK
  <2>2. CASE WriteData(h)
    BY <2>2, TaskRecord DEF WriteData, Writing, TypeOK
  <2>. QED
    BY <2>1, <2>2 DEF Aside, TypeText, ReadData, ReadActive, CommitContinue,
       CommitSentEdit, Abort, TypeOK, fsm
<1>2. task' \in [Handler -> {Idle} \cup Deciding \cup Writing]
  <2>0. "none" \in FsmState /\ None \in MaybeQuestion /\ Question \subseteq MaybeQuestion
        /\ fsmQuestion \in MaybeQuestion /\ active \in MaybeQuestion
    BY DEF FsmState, MaybeQuestion, TypeOK
  <2>1. CASE TypeText(h)
    BY <2>0, <2>1, DecideType DEF TypeText
  <2>2. CASE ReadData(h)
    <3>1. task[h] \in Deciding
      BY <2>2, TaskRecord DEF ReadData
    <3>. QED
      BY <2>0, <2>2, <3>1, DecideType, SaveType DEF ReadData, Deciding
  <2>3. CASE ReadActive(h)
    <3>1. task[h] \in Deciding
      BY <2>3, TaskRecord DEF ReadActive
    <3>. QED
      BY <2>0, <2>3, <3>1, DecideType, SaveType DEF ReadActive, Deciding
  <2>4. CASE CommitContinue(h)
    <3>1. task[h].question \in Question
      BY <2>4 DEF CommitContinue, At, Located
    <3>. QED
      BY <2>0, <2>4, <3>1, SaveType DEF CommitContinue, FsmState
  <2>5. CASE CommitSentEdit(h)
    BY <2>0, <2>5, SaveType DEF CommitSentEdit, FsmState
  <2>6. CASE WriteState(h)
    <3>1. task[h] \in Writing
      BY <2>6, TaskRecord DEF WriteState
    <3>2. [task[h] EXCEPT !.step = "write_data"] \in Writing
      BY <3>1 DEF Writing
    <3>3. Finish(h) \/ task' = [task EXCEPT ![h] = [task[h] EXCEPT !.step = "write_data"]]
      BY <2>6 DEF WriteState
    <3>. QED
      BY <3>2, <3>3, TaskType DEF Finish
  <2>7. CASE WriteData(h) \/ Abort(h)
    BY <2>0, <2>7, SaveType DEF WriteData, Abort
  <2>. QED
    BY <2>1, <2>2, <2>3, <2>4, <2>5, <2>6, <2>7 DEF Aside
<1>3. Located'
  <2>1. \A g \in Handler \ {h} : task'[g] = task[g]
    BY DEF Aside, TypeText, ReadData, ReadActive, CommitContinue, CommitSentEdit,
       WriteState, WriteData, Abort, Decide, SaveFsm, SaveState, ClearFsm, Finish, TypeOK
  <2>2. task'[h].step \in {"read", "commit"} => task'[h].question \in Question
    <3>1. CASE ReadData(h)
      BY <3>1 DEF ReadData, Decide, ClearFsm, SaveFsm, TypeOK, MaybeQuestion
    <3>2. CASE ReadActive(h)
      <4>1. task[h].question \in Question
        BY <3>2 DEF ReadActive, Located
      <4>2. task'[h].step \in {"idle", "write_state"} \/ task'[h].question = task[h].question
        BY <3>2 DEF ReadActive, Decide, ClearFsm, SaveFsm, Finish, Idle, TypeOK
      <4>. QED
        BY <4>1, <4>2
    <3>3. CASE TypeText(h)
      BY <3>3 DEF TypeText, Decide, TypeOK
    <3>4. CASE CommitContinue(h) \/ CommitSentEdit(h)
      BY <3>4 DEF CommitContinue, CommitSentEdit, SaveFsm, SaveState, ClearFsm, TypeOK
    <3>5. CASE WriteState(h)
      <4>1. task[h] \in Writing
        BY <3>5, TaskRecord DEF WriteState
      <4>. QED
        BY <3>5, <4>1 DEF WriteState, Writing, Finish, Idle, TypeOK
    <3>6. CASE WriteData(h) \/ Abort(h)
      BY <3>6 DEF WriteData, Abort, Finish, Idle, TypeOK
    <3>. QED
      BY <3>1, <3>2, <3>3, <3>4, <3>5, <3>6 DEF Aside
  <2>. QED
    BY <2>1, <2>2 DEF Located
<1>. QED
  BY <1>1, <1>2, <1>3 DEF TypeOK, questions, rows

-----------------------------------------------------------------------------
Commit(h) ==
  \/ CommitUnavailable(h) \/ CommitOpen(h) \/ CommitDraft(h)
  \/ CommitConfirm(h) \/ CommitReopen(h) \/ CommitCancel(h)

LEMMA CommitType ==
  ASSUME TypeOK, Located, NEW h \in Handler, Commit(h)
  PROVE  TypeOK' /\ Located'
<1> DEFINE q == task[h].question
<1>1. task[h].step = "commit" /\ q \in Question
  BY DEF Commit, CommitUnavailable, CommitOpen, CommitDraft, CommitConfirm, CommitReopen,
     CommitCancel, At, Located
<1>2. status' \in [Question -> QuestionStatus]
  <2>1. AfterReplace(h) \in [Question -> QuestionStatus]
    BY AfterReplaceType
  <2>. QED
    BY <1>1, <2>1 DEF Commit, CommitUnavailable, CommitOpen, CommitDraft, CommitConfirm,
       CommitReopen, CommitCancel, TypeOK, QuestionStatus
<1>3. /\ drafted' \subseteq Question /\ active' \in MaybeQuestion /\ overrun' \in BOOLEAN
      /\ UNCHANGED <<chatRemoved, fsm>>
  BY <1>1 DEF Commit, CommitUnavailable, CommitOpen, CommitDraft, CommitConfirm,
     CommitReopen, CommitCancel, UnbindConfirmed, ClearActive, Overruns, TypeOK,
     MaybeQuestion
<1>4. /\ task' \in [Handler -> {Idle} \cup Deciding \cup Writing]
      /\ \A g \in Handler \ {h} : task'[g] = task[g]
      /\ task'[h].step \notin {"read", "commit"}
  <2>1. "none" \in FsmState /\ "waiting_for_draft" \in FsmState
        /\ "waiting_for_send_confirmation" \in FsmState
        /\ None \in MaybeQuestion /\ q \in MaybeQuestion
    BY <1>1 DEF FsmState, MaybeQuestion
  <2>2. \/ Finish(h) \/ ClearFsm(h) \/ SaveState(h, "waiting_for_send_confirmation")
        \/ SaveFsm(h, "waiting_for_draft", q)
    BY DEF Commit, CommitUnavailable, CommitOpen, CommitDraft, CommitConfirm, CommitReopen,
       CommitCancel
  <2>3. task' \in [Handler -> {Idle} \cup Deciding \cup Writing]
    BY <2>1, <2>2, SaveType
  <2>. QED
    BY <2>2, <2>3 DEF Finish, ClearFsm, SaveState, SaveFsm, TypeOK, Idle
<1>5. Located'
  BY <1>4 DEF Located
<1>. QED
  BY <1>2, <1>3, <1>4, <1>5 DEF TypeOK, fsm

LEMMA CommitFlow ==
  ASSUME TypeOK, Located, Flow, NEW h \in Handler, Commit(h)
  PROVE  Flow'
<1>1. PICK q \in Question, seen \in MaybeQuestion :
        q = task[h].question /\ seen = task[h].seen
  BY TaskRecord DEF Commit, CommitUnavailable, CommitOpen, CommitDraft, CommitConfirm,
     CommitReopen, CommitCancel, At, Located, Deciding
<1>2. active \in MaybeQuestion /\ None \notin Question /\ overrun \in BOOLEAN
  BY NoneAssumption DEF TypeOK
<1>3. PICK after \in [Question -> QuestionStatus] :
        /\ after = AfterReplace(h)
        /\ \A r \in Question : after[r] = status[r] \/ (r = seen /\ after[r] = "cancelled")
        /\ task[h].op = "replace" => seen \in {None, q} \/ after[seen] \notin Composing
  BY <1>1, AfterReplaceType DEF AfterReplace, MaybeQuestion, Composing, TypeOK
<1>4. ASSUME NEW to \in QuestionStatus, NEW r \in Question, status' = [status EXCEPT ![r] = to]
      PROVE  status'[r] = to /\ \A t \in Question \ {r} : status'[t] = status[t]
  BY <1>4 DEF TypeOK
<1>5. CASE CommitUnavailable(h)
  <2>1. UNCHANGED <<chatRemoved, active, overrun>>
    BY <1>5 DEF CommitUnavailable
  <2>2. \A r \in Question :
          \/ status'[r] = after[r]
          \/ r = q /\ q \in chatRemoved /\ status'[r] = "waiting_for_draft"
    BY <1>1, <1>3, <1>5 DEF CommitUnavailable
  <2>3. FlowBoundToDraft'
    BY <1>2, <1>3, <2>1, <2>2 DEF Flow, FlowBoundToDraft, Composing, MaybeQuestion
  <2>4. OneOpenDraft'
    BY <1>2, <1>3, <2>1, <2>2 DEF Flow, OneOpenDraft
  <2>. QED
    BY <2>3, <2>4 DEF Flow
<1>6. CASE CommitOpen(h)
  <2>1. /\ status'[q] = "waiting_for_draft" /\ active' = q
        /\ \A r \in Question \ {q} : status'[r] = after[r]
        /\ UNCHANGED chatRemoved
    BY <1>1, <1>3, <1>6 DEF CommitOpen
  <2>2. ~overrun' => ~overrun /\ (active \in {None, q} \/ (task[h].op = "replace" /\ active = seen))
    <3>1. CASE task[h].op = "replace"
      BY <1>1, <1>2, <1>6, <3>1 DEF CommitOpen, Overruns
    <3>2. CASE task[h].op # "replace"
      BY <1>1, <1>2, <1>6, <3>2 DEF CommitOpen, MayBind
    <3>. QED
      BY <3>1, <3>2
  <2>3. FlowBoundToDraft'
    BY <2>1 DEF FlowBoundToDraft, Composing
  <2>4. OneOpenDraft'
    <3>1. ASSUME ~overrun', NEW r \in Question, r # q
          PROVE  /\ status'[r] # "waiting_confirmation"
                 /\ status'[r] = "waiting_for_draft" => r \in chatRemoved
      <4>1. active = r => r = seen /\ task[h].op = "replace"
        BY <1>2, <2>2, <3>1
      <4>2. active = r => after[r] \notin Composing
        BY <1>2, <1>3, <3>1, <4>1
      <4>. QED
        BY <1>3, <2>1, <2>2, <3>1, <4>2 DEF Flow, OneOpenDraft, Composing
    <3>. QED
      BY <2>1, <3>1 DEF OneOpenDraft
  <2>. QED
    BY <2>3, <2>4 DEF Flow
<1>7. CASE CommitDraft(h)
  <2>1. UNCHANGED <<chatRemoved, active, overrun>>
    BY <1>7 DEF CommitDraft
  <2>2. \/ UNCHANGED status
        \/ /\ status[q] = "waiting_for_draft" /\ q \notin chatRemoved
           /\ status'[q] = "waiting_confirmation"
           /\ \A t \in Question \ {q} : status'[t] = status[t]
    BY <1>1, <1>7 DEF CommitDraft, TypeOK
  <2>. QED
    BY <1>2, <2>1, <2>2 DEF Flow, FlowBoundToDraft, OneOpenDraft, Composing, MaybeQuestion
<1>8. CASE CommitReopen(h)
  <2>1. UNCHANGED <<chatRemoved, active, overrun>>
    BY <1>8 DEF CommitReopen
  <2>2. /\ status[q] = "waiting_confirmation" /\ status'[q] = "waiting_for_draft"
        /\ \A t \in Question \ {q} : status'[t] = status[t]
    BY <1>1, <1>8 DEF CommitReopen, TypeOK
  <2>. QED
    BY <1>2, <2>1, <2>2 DEF Flow, FlowBoundToDraft, OneOpenDraft, Composing, MaybeQuestion
<1>9. CASE CommitConfirm(h) \/ CommitCancel(h)
  <2>1. /\ active' = None /\ UNCHANGED chatRemoved
        /\ ~overrun' => ~overrun /\ active \in {None, q}
    BY <1>1, <1>2, <1>9 DEF CommitConfirm, CommitCancel, UnbindConfirmed, ClearActive, Overruns
  <2>2. /\ status'[q] \in {"send_requested", "cancelled"}
        /\ \A t \in Question \ {q} : status'[t] = status[t]
    BY <1>1, <1>9 DEF CommitConfirm, CommitCancel, TypeOK
  <2>. QED
    BY <1>2, <2>1, <2>2 DEF Flow, FlowBoundToDraft, OneOpenDraft, Composing, MaybeQuestion
<1>. QED
  BY <1>5, <1>6, <1>7, <1>8, <1>9 DEF Commit

LEMMA ElsewhereInv ==
  ASSUME TypeOK, Located, Flow, NEW q \in Question, Elsewhere(q)
  PROVE  TypeOK' /\ Located' /\ Flow'
<1>1. CASE DeleteQuestion(q)
  <2>1. TypeOK' /\ Located'
    BY <1>1 DEF DeleteQuestion, TypeOK, Located, QuestionStatus, MaybeQuestion, fsm
  <2>2. /\ status'[q] = "deleted" /\ \A t \in Question \ {q} : status'[t] = status[t]
        /\ active' = IF active = q THEN None ELSE active
        /\ UNCHANGED <<chatRemoved, overrun>>
    BY <1>1 DEF DeleteQuestion, TypeOK
  <2>3. FlowBoundToDraft'
    BY <2>2, NoneAssumption DEF Flow, FlowBoundToDraft, TypeOK, MaybeQuestion
  <2>4. OneOpenDraft'
    BY <2>2 DEF Flow, OneOpenDraft
  <2>. QED
    BY <2>1, <2>3, <2>4 DEF Flow
<1>2. CASE RemoveChat(q)
  BY <1>2 DEF RemoveChat, TypeOK, Located, Flow, FlowBoundToDraft, OneOpenDraft, fsm
<1>3. ASSUME NEW from \in {"detected", "dismissed", "send_requested"},
             NEW to \in {"detected", "dismissed", "sent", "send_failed"}, Move(q, from, to)
      PROVE  TypeOK' /\ Located' /\ Flow'
  <2>1. TypeOK' /\ Located'
    BY <1>3 DEF Move, TypeOK, Located, QuestionStatus, fsm
  <2>2. /\ status[q] = from /\ status'[q] = to
        /\ \A t \in Question \ {q} : status'[t] = status[t]
        /\ UNCHANGED <<active, chatRemoved, overrun>>
    BY <1>3 DEF Move, TypeOK
  <2>. QED
    BY <2>1, <2>2, NoneAssumption
       DEF Flow, FlowBoundToDraft, OneOpenDraft, Composing, TypeOK, MaybeQuestion
<1>. QED
  BY <1>1, <1>2, <1>3 DEF Elsewhere, Dismiss, Reopen, SendSettles

LEMMA NextInv ==
  ASSUME TypeOK, Located, Flow, [Next]_vars
  PROVE  TypeOK' /\ Located' /\ Flow'
<1>1. ASSUME NEW h \in Handler, Handle(h)
      PROVE  TypeOK' /\ Located' /\ Flow'
  <2>1. CASE Commit(h)
    BY <2>1, CommitType, CommitFlow
  <2>2. CASE Aside(h)
    BY <2>2, AsideType, RowsKept
  <2>. QED
    BY <1>1, <2>1, <2>2 DEF Handle, Commit, Aside
<1>2. ASSUME NEW h \in Handler, NEW q \in Question, Click(h, q)
      PROVE  TypeOK' /\ Located' /\ Flow'
  BY <1>2, ClickType, RowsKept
<1>3. CASE UNCHANGED vars
  BY <1>3 DEF vars, questions, fsm, TypeOK, Located, Flow, FlowBoundToDraft, OneOpenDraft
<1>. QED
  BY <1>1, <1>2, <1>3, ElsewhereInv DEF Next

LEMMA InitInv == Init => TypeOK /\ Located /\ Flow
<1>. SUFFICES ASSUME Init PROVE TypeOK /\ Located /\ Flow
  OBVIOUS
<1>1. TypeOK
  BY DEF Init, TypeOK, QuestionStatus, FsmState, MaybeQuestion
<1>2. Located
  BY DEF Init, Located, Idle
<1>3. Flow
  BY DEF Init, Flow, FlowBoundToDraft, OneOpenDraft
<1>. QED
  BY <1>1, <1>2, <1>3

\* The invariants hold together with the location of the handlers.
THEOREM DialogInvariant == Spec => [](TypeOK /\ Located /\ Flow)
<1>1. Init => TypeOK /\ Located /\ Flow
  BY InitInv
<1>2. (TypeOK /\ Located /\ Flow) /\ [Next]_vars => (TypeOK /\ Located /\ Flow)'
  BY NextInv
<1>. QED
  BY <1>1, <1>2, PTL DEF Spec

\* The session row, the question rows and the handlers keep to their types.
THEOREM DialogTypeCorrect == Spec => []TypeOK
BY DialogInvariant, PTL

\* However many clicks overlap, the flow is never bound to a question that is
\* confirmed, sent, dismissed or gone.
THEOREM FlowAlwaysBoundToDraft == Spec => []FlowBoundToDraft
<1>1. Flow => FlowBoundToDraft
  BY DEF Flow
<1>. QED
  BY <1>1, DialogInvariant, PTL

\* Without a write over an unread active question, one draft is open at most.
THEOREM OneOpenDraftAlways == Spec => []OneOpenDraft
<1>1. Flow => OneOpenDraft
  BY DEF Flow
<1>. QED
  BY <1>1, DialogInvariant, PTL

LEMMA StatusChange ==
  ASSUME TypeOK, Located, Flow, [Next]_vars, NEW q \in Question
  PROVE  \/ status[q] = "waiting_for_draft" /\ status'[q] = "waiting_confirmation"
         \/ status[q] = "waiting_confirmation" /\ status'[q] = "send_requested"
         => active = q \/ overrun
<1>1. CASE status[q] = "waiting_confirmation"
  BY <1>1 DEF Flow, OneOpenDraft
<1>2. CASE status[q] = "waiting_for_draft" /\ status'[q] = "waiting_confirmation"
  <2>1. ASSUME NEW h \in Handler, Handle(h) \/ \E r \in Question : Click(h, r)
        PROVE  q \notin chatRemoved
    <3>1. CommitDraft(h) /\ q = task[h].question
      <4>1. CASE CommitUnavailable(h) \/ CommitOpen(h)
        BY <1>2, <4>1 DEF CommitUnavailable, CommitOpen, AfterReplace, TypeOK
      <4>2. CASE CommitConfirm(h) \/ CommitReopen(h) \/ CommitCancel(h)
        BY <1>2, <4>2 DEF CommitConfirm, CommitReopen, CommitCancel, TypeOK
      <4>3. CASE CommitDraft(h)
        BY <1>2, <4>3 DEF CommitDraft, TypeOK
      <4>4. CASE Aside(h) \/ \E r \in Question : Click(h, r)
        BY <1>2, <4>4, AsideType, ClickType DEF rows
      <4>. QED
        BY <2>1, <4>1, <4>2, <4>3, <4>4 DEF Handle, Aside
    <3>. QED
      BY <1>2, <3>1 DEF CommitDraft
  <2>2. ASSUME NEW r \in Question, Elsewhere(r)
        PROVE  FALSE
    BY <1>2, <2>2 DEF Elsewhere, Dismiss, Reopen, SendSettles, Move, DeleteQuestion,
       RemoveChat, TypeOK
  <2>3. CASE UNCHANGED vars
    BY <1>2, <2>3 DEF vars, questions
  <2>. QED
    BY <1>2, <2>1, <2>2, <2>3 DEF Next, Flow, OneOpenDraft
<1>. QED
  BY <1>1, <1>2

\* Drafts and confirmations land in the bound question only.
THEOREM ActsOnBoundQuestionAlways == Spec => ActsOnBoundQuestion
<1>1. (TypeOK /\ Located /\ Flow) /\ [Next]_vars =>
        [\A q \in Question :
           \/ status[q] = "waiting_for_draft" /\ status'[q] = "waiting_confirmation"
           \/ status[q] = "waiting_confirmation" /\ status'[q] = "send_requested"
           => active = q \/ overrun]_vars
  BY StatusChange
<1>. QED
  BY <1>1, DialogInvariant, PTL DEF Spec, ActsOnBoundQuestion

-----------------------------------------------------------------------------
(* The life of a question.  A step is an edge of it, or none, for each       *)
(* question by itself.                                                       *)

Edge(r) ==
  \/ Lifecycle!Open(r) \/ Lifecycle!Write(r) \/ Lifecycle!Cancel(r)
  \/ Lifecycle!Confirm(r) \/ Lifecycle!Settle(r) \/ Lifecycle!Dismiss(r)
  \/ Lifecycle!Reopen(r) \/ Lifecycle!Delete(r) \/ Lifecycle!Stay(r)

\* A replacement takes the question it leaves to "cancelled" and no other
\* question anywhere.
LEMMA Replaced ==
  ASSUME TypeOK, NEW h \in Handler, NEW r \in Question
  PROVE  \/ AfterReplace(h)[r] = status[r]
         \/ status[r] \in Composing /\ AfterReplace(h)[r] = "cancelled"
BY DEF AfterReplace, TypeOK

LEMMA OpeningEdge ==
  ASSUME TypeOK, Located, NEW h \in Handler, NEW r \in Question,
         CommitUnavailable(h) \/ CommitOpen(h)
  PROVE  Edge(r)
<1>1. PICK q \in Question : q = task[h].question
  BY DEF CommitUnavailable, CommitOpen, At, Located
<1>2. drafted' = drafted
  BY DEF CommitUnavailable, CommitOpen
<1>3. CASE status'[r] = AfterReplace(h)[r]
  BY <1>2, <1>3, Replaced
     DEF Edge, Lifecycle!Cancel, Lifecycle!Stay, Lifecycle!Moves, Lifecycle!Keeps, Composing
<1>4. CASE r = q /\ AfterReplace(h)[r] \in Openable /\ status'[r] = "waiting_for_draft"
  BY <1>2, <1>4, Replaced
     DEF Edge, Lifecycle!Open, Lifecycle!Moves, Lifecycle!Keeps, Openable, Composing
<1>5. AfterReplace(h) \in [Question -> QuestionStatus]
  BY AfterReplaceType
<1>6. \/ status' = AfterReplace(h)
      \/ /\ AfterReplace(h)[q] \in Openable
         /\ status' = [AfterReplace(h) EXCEPT ![q] = "waiting_for_draft"]
  BY <1>1 DEF CommitUnavailable, CommitOpen
<1>. QED
  BY <1>3, <1>4, <1>5, <1>6

LEMMA DraftEdge ==
  ASSUME TypeOK, Located, NEW h \in Handler, NEW r \in Question, CommitDraft(h)
  PROVE  Edge(r)
<1>1. PICK q \in Question : q = task[h].question
  BY DEF CommitDraft, At, Located
<1>2. CASE UNCHANGED <<status, drafted>>
  BY <1>2 DEF Edge, Lifecycle!Stay, Lifecycle!Keeps
<1>3. CASE /\ status[q] = "waiting_for_draft" /\ drafted' = drafted \cup {q}
           /\ status' = [status EXCEPT ![q] = "waiting_confirmation"]
  <2>1. CASE r = q
    BY <1>3, <2>1 DEF Edge, Lifecycle!Write, Lifecycle!Moves, TypeOK
  <2>2. CASE r # q
    BY <1>3, <2>2 DEF Edge, Lifecycle!Stay, Lifecycle!Keeps, TypeOK
  <2>. QED
    BY <2>1, <2>2
<1>. QED
  BY <1>1, <1>2, <1>3 DEF CommitDraft

LEMMA ClosingEdge ==
  ASSUME TypeOK, Located, NEW h \in Handler, NEW r \in Question,
         CommitConfirm(h) \/ CommitReopen(h) \/ CommitCancel(h)
  PROVE  Edge(r)
<1>1. PICK q \in Question : q = task[h].question
  BY DEF CommitConfirm, CommitReopen, CommitCancel, At, Located
<1>2. drafted' = drafted
  BY DEF CommitConfirm, CommitReopen, CommitCancel
<1>3. CASE r # q
  BY <1>1, <1>2, <1>3 DEF CommitConfirm, CommitReopen, CommitCancel, Edge,
     Lifecycle!Stay, Lifecycle!Keeps, TypeOK
<1>4. CASE r = q /\ CommitConfirm(h)
  BY <1>1, <1>2, <1>4 DEF CommitConfirm, Edge, Lifecycle!Confirm, Lifecycle!Stay,
     Lifecycle!Moves, Lifecycle!Keeps, TypeOK
<1>5. CASE r = q /\ CommitReopen(h)
  BY <1>1, <1>2, <1>5 DEF CommitReopen, Edge, Lifecycle!Open, Lifecycle!Moves,
     Lifecycle!Keeps, TypeOK
<1>6. CASE r = q /\ CommitCancel(h)
  BY <1>1, <1>2, <1>6 DEF CommitCancel, Edge, Lifecycle!Cancel, Lifecycle!Stay,
     Lifecycle!Moves, Lifecycle!Keeps, Composing, TypeOK
<1>. QED
  BY <1>3, <1>4, <1>5, <1>6

LEMMA ElsewhereEdge ==
  ASSUME TypeOK, NEW q \in Question, NEW r \in Question, Elsewhere(q)
  PROVE  Edge(r)
<1>1. CASE DeleteQuestion(q)
  BY <1>1 DEF DeleteQuestion, Edge, Lifecycle!Delete, Lifecycle!Stay, Lifecycle!Moves,
     Lifecycle!Keeps, Lifecycle!Status, QuestionStatus, TypeOK
<1>2. CASE RemoveChat(q)
  BY <1>2 DEF RemoveChat, Edge, Lifecycle!Stay, Lifecycle!Keeps
<1>3. CASE Dismiss(q)
  BY <1>3 DEF Dismiss, Move, Edge, Lifecycle!Dismiss, Lifecycle!Stay, Lifecycle!Moves,
     Lifecycle!Keeps, TypeOK
<1>4. CASE Reopen(q)
  BY <1>4 DEF Reopen, Move, Edge, Lifecycle!Reopen, Lifecycle!Stay, Lifecycle!Moves,
     Lifecycle!Keeps, TypeOK
<1>5. CASE SendSettles(q)
  BY <1>5 DEF SendSettles, Move, Edge, Lifecycle!Settle, Lifecycle!Stay, Lifecycle!Moves,
     Lifecycle!Keeps, TypeOK
<1>. QED
  BY <1>1, <1>2, <1>3, <1>4, <1>5 DEF Elsewhere

\* A step that is no commit leaves the drafts alone as well as the rows.
LEMMA DraftsKept ==
  ASSUME NEW h \in Handler, Aside(h) \/ \E q \in Question : Click(h, q)
  PROVE  drafted' = drafted
BY DEF Aside, TypeText, ReadData, ReadActive, CommitContinue, CommitSentEdit, WriteState,
   WriteData, Abort, Click, ClickReply, ClickReplace, ClickDraft, ClickEditSent,
   ClickSentEdit, questions

LEMMA StepIsEdge ==
  ASSUME TypeOK, Located, [Next]_vars, NEW r \in Question
  PROVE  Edge(r)
<1>1. CASE UNCHANGED <<status, drafted>>
  BY <1>1 DEF Edge, Lifecycle!Stay, Lifecycle!Keeps
<1>2. ASSUME NEW h \in Handler, Handle(h)
      PROVE  Edge(r)
  <2>1. CASE Aside(h)
    BY <1>1, <2>1, AsideType, DraftsKept DEF rows
  <2>. QED
    BY <1>2, <2>1, OpeningEdge, DraftEdge, ClosingEdge DEF Handle, Aside
<1>3. ASSUME NEW h \in Handler, NEW q \in Question, Click(h, q)
      PROVE  Edge(r)
  BY <1>1, <1>3, ClickType, DraftsKept DEF rows
<1>. QED
  BY <1>1, <1>2, <1>3, ElsewhereEdge DEF Next, vars, questions

\* The dialog implements the life of a question (QuestionLifecycle): whatever a
\* handler has read before, its commit moves every question along an edge.
THEOREM DialogFollowsLifecycle == Spec => LifecycleKept
<1>1. Init => Lifecycle!Init
  BY DEF Init, Lifecycle!Init
<1>2. (TypeOK /\ TypeOK' /\ Located /\ Flow) /\ [Next]_vars => [Lifecycle!Next]_Lifecycle!life
  <2>. SUFFICES ASSUME TypeOK, TypeOK', Located, [Next]_vars
                PROVE  Lifecycle!Next
    OBVIOUS
  <2>1. status' \in [Question -> Lifecycle!Status] /\ drafted' \in SUBSET Question
    BY DEF TypeOK, QuestionStatus, Lifecycle!Status
  <2>. QED
    BY <2>1, StepIsEdge DEF Lifecycle!Next, Edge
<1>. QED
  BY <1>1, <1>2, DialogInvariant, PTL DEF Spec, LifecycleKept, Lifecycle!Spec

\* What has been proved of the abstract life holds of the dialog: a question
\* that waits for a confirmation, or was sent, has a reply version, also when
\* the click that confirms it was decided on before another one's commit.
THEOREM DialogWrittenFirst == Spec => []Lifecycle!WrittenFirst
<1>1. Lifecycle!Init => Lifecycle!WrittenFirst
  BY DEF Lifecycle!Init, Lifecycle!WrittenFirst
<1>2. Lifecycle!WrittenFirst /\ [Lifecycle!Next]_Lifecycle!life => Lifecycle!WrittenFirst'
  <2>. SUFFICES ASSUME Lifecycle!WrittenFirst, Lifecycle!Next \/ UNCHANGED <<status, drafted>>,
                       NEW q \in Question,
                       status'[q] \in {"waiting_confirmation", "send_requested", "sent",
                                       "send_failed"}
                PROVE  q \in drafted'
    BY DEF Lifecycle!WrittenFirst, Lifecycle!life
  <2>1. CASE Lifecycle!Next
    BY <2>1 DEF Lifecycle!WrittenFirst, Lifecycle!Next, Lifecycle!Open, Lifecycle!Write,
       Lifecycle!Cancel, Lifecycle!Confirm, Lifecycle!Settle, Lifecycle!Dismiss,
       Lifecycle!Reopen, Lifecycle!Delete, Lifecycle!Stay, Lifecycle!Moves, Lifecycle!Keeps
  <2>2. CASE UNCHANGED <<status, drafted>>
    BY <2>2 DEF Lifecycle!WrittenFirst
  <2>. QED
    BY <2>1, <2>2
<1>. QED
  BY <1>1, <1>2, DialogFollowsLifecycle, PTL DEF LifecycleKept, Lifecycle!Spec
=============================================================================
