----------------------- MODULE OutboundReplies_proofs -----------------------
(* Every safety property of OutboundReplies, for every set of questions,     *)
(* texts, commands and workers and every bound.  IInv is inductive: the      *)
(* lemmas show it kept by one kind of step each, the theorems at the end     *)
(* read the properties off it.                                               *)
EXTENDS OutboundReplies, SequenceTheorems, TLAPS

-----------------------------------------------------------------------------
(* What the pieces of a step produce.                                        *)

LEMMA PresentIsCommand ==
  ASSUME TypeOK, NEW c \in CommandId, Present(c)
  PROVE  commands[c] \in Command
BY DEF TypeOK, Present, NoCommand

LEMMA BusySender ==
  ASSUME TypeOK, NEW w \in SendWorker, sender[w] # Idle
  PROVE  /\ sender[w] \in Working
         /\ sender[w].command \in CommandId
         /\ sender[w].result \in Result
BY DEF TypeOK, Working

LEMMA BusyEditor ==
  ASSUME TypeOK, NEW w \in EditWorker, editor[w] # Idle
  PROVE  /\ editor[w] \in Working
         /\ editor[w].command \in CommandId
         /\ editor[w].result \in Result
BY DEF TypeOK, Working

LEMMA ClaimWorking ==
  ASSUME NEW c \in CommandId
  PROVE  Claim(c) \in Working
BY DEF Claim, Working, Result, NoResult, ErrorCode

LEMMA NewCommandType ==
  ASSUME NEW q \in Question, NEW kind \in {"send_reply", "edit_reply"},
         NEW version \in Nat, NEW text \in Text, NEW sentId \in Nat
  PROVE  NewCommand(q, kind, version, text, sentId) \in Command
BY DEF NewCommand, Command, CommandStatus, ErrorCode, AttemptCap, MaxRetries

LEMMA CountedType ==
  ASSUME TypeOK, NEW c \in CommandId, Present(c)
  PROVE  Counted(c) \in 0..AttemptCap
BY PresentIsCommand DEF Counted, Command, AttemptCap, MaxRetries

LEMMA AnswerType ==
  ASSUME NEW r \in Working, NEW result \in Result
  PROVE  [r EXCEPT !.step = "answered", !.result = result] \in Working
BY DEF Working

-----------------------------------------------------------------------------
LEMMA InitTypeOK == Init => TypeOK
BY DEF Init, TypeOK, QuestionStatus

LEMMA MoveTypeOK ==
  ASSUME TypeOK, NEW q \in Question, NEW from, NEW to \in QuestionStatus,
         MoveQuestion(q, from, to)
  PROVE  TypeOK'
BY DEF TypeOK, MoveQuestion, workers, chats

LEMMA AppendVersionType ==
  ASSUME TypeOK, NEW q \in Question, NEW t \in Text,
         NEW a \in {"draft", "sent", "edited"}
  PROVE  [versions EXCEPT ![q] = Append(@, [text |-> t, action |-> a])]
           \in [Question -> Seq(Version)]
<1>1. [text |-> t, action |-> a] \in Version
  BY DEF Version
<1>2. versions[q] \in Seq(Version)
  BY DEF TypeOK
<1>3. Append(versions[q], [text |-> t, action |-> a]) \in Seq(Version)
  BY <1>1, <1>2
<1>. QED
  BY <1>3 DEF TypeOK

LEMMA PreviewType ==
  ASSUME TypeOK, NEW q \in Question, LatestIsDraft(q)
  PROVE  Preview(q).text \in Text
<1>1. versions[q] \in Seq(Version) /\ versions[q] # <<>>
  BY DEF TypeOK, LatestIsDraft
<1>2. Len(versions[q]) \in 1..Len(versions[q])
  BY <1>1
<1>3. Preview(q) \in Version
  BY <1>1, <1>2 DEF Preview
<1>. QED
  BY <1>3 DEF Version

LEMMA OperatorTypeOK ==
  ASSUME TypeOK, NEW q \in Question, OperatorStep(q)
  PROVE  TypeOK'
<1>1. CASE OpenDraft(q)
  BY <1>1, MoveTypeOK DEF OpenDraft, QuestionStatus
<1>2. CASE ReopenForEdit(q)
  BY <1>2, MoveTypeOK DEF ReopenForEdit, QuestionStatus
<1>3. CASE CancelDraft(q)
  BY <1>3, MoveTypeOK DEF CancelDraft, QuestionStatus
<1>4. CASE Dismiss(q)
  BY <1>4, MoveTypeOK DEF Dismiss, QuestionStatus
<1>5. CASE Reopen(q)
  BY <1>5, MoveTypeOK DEF Reopen, QuestionStatus
<1>6. ASSUME NEW t \in Text, CreateVersion(q, t)
      PROVE  TypeOK'
  <2>1. versions' \in [Question -> Seq(Version)]
    BY <1>6, AppendVersionType DEF CreateVersion
  <2>. QED
    BY <1>6, <2>1 DEF CreateVersion, TypeOK, QuestionStatus, workers, chats
<1>7. ASSUME NEW t \in Text, PrepareEdit(q, t)
      PROVE  TypeOK'
  <2>1. versions' \in [Question -> Seq(Version)]
    BY <1>7, AppendVersionType DEF PrepareEdit
  <2>. QED
    BY <1>7, <2>1 DEF PrepareEdit, TypeOK, workers, chats
<1>8. CASE ConfirmSend(q)
  <2>1. Preview(q).text \in Text
    BY <1>8, PreviewType DEF ConfirmSend
  <2>2. versions' \in [Question -> Seq(Version)]
    <3>1. [versions EXCEPT ![q] = Append(@, [text |-> Preview(q).text, action |-> "sent"])]
            \in [Question -> Seq(Version)]
      BY <2>1, AppendVersionType
    <3>. QED
      BY <1>8, <3>1 DEF ConfirmSend
  <2>3. Len(versions[q]) + 1 \in Nat
    BY DEF TypeOK
  <2>4. NewCommand(q, "send_reply", Len(versions[q]) + 1, Preview(q).text, 0) \in Command
    BY <2>1, <2>3, NewCommandType
  <2>5. commands' \in [CommandId -> Command \cup {NoCommand}]
    BY <1>8, <2>4 DEF ConfirmSend, TypeOK
  <2>. QED
    BY <1>8, <2>2, <2>5 DEF ConfirmSend, TypeOK, QuestionStatus, workers, chats
<1>9. CASE ConfirmEdit(q)
  <2>1. Preview(q).text \in Text
    BY <1>9, PreviewType DEF ConfirmEdit
  <2>2. Len(versions[q]) + 1 \in Nat
    BY DEF TypeOK
  <2>3. StoredSentIds(q) \subseteq Nat
    BY PresentIsCommand DEF StoredSentIds, SendCommandsOf, IsSend, Command
  <2>4. \A id \in StoredSentIds(q) :
          NewCommand(q, "edit_reply", Len(versions[q]) + 1, Preview(q).text, id) \in Command
    BY <2>1, <2>2, <2>3, NewCommandType
  <2>5. commands' \in [CommandId -> Command \cup {NoCommand}]
    BY <1>9, <2>4 DEF ConfirmEdit, TypeOK
  <2>. QED
    BY <1>9, <2>5 DEF ConfirmEdit, TypeOK, workers, chats
<1>. QED
  BY <1>1, <1>2, <1>3, <1>4, <1>5, <1>6, <1>7, <1>8, <1>9 DEF OperatorStep

-----------------------------------------------------------------------------
(* What a worker's commit writes to its command keeps the command typed.     *)

LEMMA SenderCommandType ==
  ASSUME TypeOK, NEW w \in SendWorker, sender[w] # Idle,
         IsSend(sender[w].command)
  PROVE  /\ commands[sender[w].command] \in Command
         /\ commands[sender[w].command].question \in Question
         /\ commands[sender[w].command].text \in Text
         /\ Counted(sender[w].command) \in 0..AttemptCap
BY BusySender, PresentIsCommand, CountedType DEF IsSend, Command

LEMMA EditorCommandType ==
  ASSUME TypeOK, NEW w \in EditWorker, editor[w] # Idle,
         IsEdit(editor[w].command)
  PROVE  /\ commands[editor[w].command] \in Command
         /\ commands[editor[w].command].question \in Question
         /\ commands[editor[w].command].text \in Text
         /\ Counted(editor[w].command) \in 0..AttemptCap
BY BusyEditor, PresentIsCommand, CountedType DEF IsEdit, Command

LEMMA SenderTypeOK ==
  ASSUME TypeOK, WorkersHoldPending, NEW w \in SendWorker, SenderStep(w)
  PROVE  TypeOK'
<1>1. ASSUME NEW c \in CommandId, ClaimSend(w, c)
      PROVE  TypeOK'
  BY <1>1, ClaimWorking DEF ClaimSend, TypeOK, chats
<1>2. CASE ValidateSend(w)
  <2>1. sender[w] # Idle /\ sender[w] \in Working
    BY <1>2, BusySender DEF ValidateSend, SenderAt
  <2>2. [sender[w] EXCEPT !.step = "validated"] \in Working
    BY <2>1 DEF Working
  <2>3. \A failure \in ValidationFailures :
          [sender[w] EXCEPT !.step = "answered", !.result = failure] \in Working
    BY <2>1, AnswerType
       DEF ValidationFailures, Failure, Result, FailureKind, ErrorCode
  <2>. QED
    BY <1>2, <2>2, <2>3 DEF ValidateSend, AnswerSender, TypeOK, chats
<1>3. CASE SendAccepted(w)
  <2>1. sender[w] # Idle /\ sender[w] \in Working
    BY <1>3, BusySender DEF SendAccepted, SenderAt
  <2>2. IsSend(sender[w].command)
    BY <2>1 DEF WorkersHoldPending
  <2> DEFINE q == commands[sender[w].command].question
  <2>3. q \in Question /\ commands[sender[w].command].text \in Text
    BY <2>1, <2>2, SenderCommandType
  <2>4. posts' \in [Question -> Seq(Text)]
    BY <1>3, <2>3 DEF SendAccepted, Post, TypeOK
  <2>5. Accepted(Len(posts[q]) + 1) \in Result /\ Unclear \in Result
    BY <2>3 DEF Accepted, Unclear, Failure, Result, FailureKind, ErrorCode, TypeOK
  <2>6. /\ [sender[w] EXCEPT !.step = "answered",
                             !.result = Accepted(Len(posts[q]) + 1)] \in Working
        /\ [sender[w] EXCEPT !.step = "answered", !.result = Unclear] \in Working
    BY <2>1, <2>5, AnswerType
  <2>7. sender' \in [SendWorker -> Working \cup {Idle}]
    BY <1>3, <2>6 DEF SendAccepted, AnswerSender, TypeOK
  <2>. QED
    BY <1>3, <2>4, <2>7 DEF SendAccepted, TypeOK, chats
<1>4. CASE SendRejected(w)
  <2>1. sender[w] # Idle /\ sender[w] \in Working
    BY <1>4, BusySender DEF SendRejected, SenderAt
  <2>2. \A failure \in SendRejections \cup {Unclear} :
          [sender[w] EXCEPT !.step = "answered", !.result = failure] \in Working
    BY <2>1, AnswerType
       DEF SendRejections, Unclear, Failure, Result, FailureKind, ErrorCode
  <2>. QED
    BY <1>4, <2>2 DEF SendRejected, AnswerSender, TypeOK, chats
<1>5. CASE CompleteSend(w)
  <2>1. sender[w] # Idle /\ sender[w].result \in Result
    BY <1>5, BusySender DEF CompleteSend, SenderAt
  <2>2. commands[sender[w].command] \in Command /\ Counted(sender[w].command) \in 0..AttemptCap
    BY <2>1, SenderCommandType DEF WorkersHoldPending
  <2>3. [commands[sender[w].command] EXCEPT
           !.status = "succeeded", !.sentId = sender[w].result.id,
           !.attempts = Counted(sender[w].command)] \in Command
    BY <2>1, <2>2 DEF Command, CommandStatus, Result
  <2>4. commands' \in [CommandId -> Command \cup {NoCommand}]
    BY <1>5, <2>3 DEF CompleteSend, TypeOK
  <2>. QED
    BY <1>5, <2>4 DEF CompleteSend, TypeOK, QuestionStatus, chats
<1>6. CASE RetrySend(w)
  <2>1. sender[w] # Idle /\ sender[w].result \in Result
    BY <1>6, BusySender DEF RetrySend, SenderAt
  <2>2. commands[sender[w].command] \in Command /\ Counted(sender[w].command) \in 0..AttemptCap
    BY <2>1, SenderCommandType DEF WorkersHoldPending
  <2>3. [commands[sender[w].command] EXCEPT
           !.error = sender[w].result.error,
           !.attempts = Counted(sender[w].command)] \in Command
    BY <2>1, <2>2 DEF Command, Result
  <2>4. commands' \in [CommandId -> Command \cup {NoCommand}]
    BY <1>6, <2>3 DEF RetrySend, TypeOK
  <2>. QED
    BY <1>6, <2>4 DEF RetrySend, TypeOK, chats
<1>7. CASE FailSend(w)
  <2>1. sender[w] # Idle /\ sender[w].result \in Result
    BY <1>7, BusySender DEF FailSend, SenderAt
  <2>2. commands[sender[w].command] \in Command /\ Counted(sender[w].command) \in 0..AttemptCap
    BY <2>1, SenderCommandType DEF WorkersHoldPending
  <2>3. \A s \in {"failed", "needs_review"} :
          [commands[sender[w].command] EXCEPT
             !.status = s, !.error = sender[w].result.error,
             !.attempts = Counted(sender[w].command)] \in Command
    BY <2>1, <2>2 DEF Command, CommandStatus, Result
  <2>4. commands' \in [CommandId -> Command \cup {NoCommand}]
    BY <1>7, <2>3 DEF FailSend, TypeOK
  <2>5. promptCheck' \subseteq Question /\ chatRemoved' \subseteq Question
    <3>1. commands[sender[w].command].question \in Question
      BY <2>2 DEF Command
    <3>. QED
      BY <1>7, <3>1 DEF FailSend, RequestChatVerification, TypeOK
  <2>. QED
    BY <1>7, <2>4, <2>5 DEF FailSend, TypeOK, QuestionStatus
<1>8. CASE AbortSend(w)
  BY <1>8 DEF AbortSend, TypeOK, chats
<1>. QED
  BY <1>1, <1>2, <1>3, <1>4, <1>5, <1>6, <1>7, <1>8 DEF SenderStep

LEMMA SequenceUpdateType ==
  ASSUME NEW S, NEW s \in Seq(S), NEW i \in Nat, NEW x \in S
  PROVE  /\ [s EXCEPT ![i] = x] \in Seq(S)
         /\ Len([s EXCEPT ![i] = x]) = Len(s)
<1>1. CASE i \in 1..Len(s)
  BY <1>1, ExceptSeq
<1>2. CASE i \notin 1..Len(s)
  <2>1. [s EXCEPT ![i] = x] = s
    BY <1>2
  <2>. QED
    BY <2>1
<1>. QED
  BY <1>1, <1>2

LEMMA EditorTypeOK ==
  ASSUME TypeOK, WorkersHoldPending, NEW w \in EditWorker, EditorStep(w)
  PROVE  TypeOK'
<1>1. ASSUME NEW c \in CommandId, ClaimEdit(w, c)
      PROVE  TypeOK'
  BY <1>1, ClaimWorking DEF ClaimEdit, TypeOK, chats
<1>2. CASE ApplyEdit(w)
  <2>1. editor[w] # Idle /\ editor[w] \in Working
    BY <1>2, BusyEditor DEF ApplyEdit, EditorAt
  <2> DEFINE command == commands[editor[w].command]
  <2>2. command \in Command /\ command.question \in Question /\ command.text \in Text
    BY <2>1, EditorCommandType DEF WorkersHoldPending
  <2>3. command.sentId \in Nat
    BY <2>2 DEF Command
  <2>4. posts' \in [Question -> Seq(Text)]
    <3>1. posts[command.question] \in Seq(Text)
      BY <2>2 DEF TypeOK
    <3>2. [posts[command.question] EXCEPT ![command.sentId] = command.text] \in Seq(Text)
      BY <2>2, <2>3, <3>1, SequenceUpdateType
    <3>. QED
      BY <1>2, <3>2 DEF ApplyEdit, TypeOK
  <2>5. Accepted(command.sentId) \in Result /\ Unclear \in Result
    BY <2>3 DEF Accepted, Unclear, Failure, Result, FailureKind, ErrorCode
  <2>6. /\ [editor[w] EXCEPT !.step = "answered",
                             !.result = Accepted(command.sentId)] \in Working
        /\ [editor[w] EXCEPT !.step = "answered", !.result = Unclear] \in Working
    BY <2>1, <2>5, AnswerType
  <2>7. editor' \in [EditWorker -> Working \cup {Idle}]
    BY <1>2, <2>6 DEF ApplyEdit, AnswerEditor, TypeOK
  <2>. QED
    BY <1>2, <2>4, <2>7 DEF ApplyEdit, TypeOK, chats
<1>3. CASE EditRejected(w)
  <2>1. editor[w] # Idle /\ editor[w] \in Working
    BY <1>3, BusyEditor DEF EditRejected, EditorAt
  <2>2. \A failure \in EditRejections :
          [editor[w] EXCEPT !.step = "answered", !.result = failure] \in Working
    BY <2>1, AnswerType
       DEF EditRejections, Unclear, Failure, Result, FailureKind, ErrorCode
  <2>. QED
    BY <1>3, <2>2 DEF EditRejected, AnswerEditor, TypeOK, chats
<1>4. CASE CompleteEdit(w)
  <2>1. editor[w] # Idle
    BY <1>4 DEF CompleteEdit, EditorAt
  <2> DEFINE c == editor[w].command
             q == commands[c].question
  <2>2. /\ c \in CommandId /\ commands[c] \in Command /\ q \in Question
        /\ commands[c].text \in Text /\ Counted(c) \in 0..AttemptCap
    BY <2>1, BusyEditor, EditorCommandType DEF WorkersHoldPending
  <2>3. versions' \in [Question -> Seq(Version)]
    <3>1. [versions EXCEPT ![q] = Append(@, [text |-> commands[c].text, action |-> "edited"])]
            \in [Question -> Seq(Version)]
      BY <2>2, AppendVersionType
    <3>. QED
      BY <1>4, <3>1 DEF CompleteEdit
  <2>4. [commands[c] EXCEPT !.status = "succeeded", !.attempts = Counted(c)] \in Command
    BY <2>2 DEF Command, CommandStatus
  <2>5. commands' \in [CommandId -> Command \cup {NoCommand}]
    BY <1>4, <2>4 DEF CompleteEdit, TypeOK
  <2>. QED
    BY <1>4, <2>3, <2>5 DEF CompleteEdit, TypeOK, chats
<1>5. CASE FailEdit(w)
  <2>1. editor[w] # Idle /\ editor[w].result \in Result
    BY <1>5, BusyEditor DEF FailEdit, EditRefused, EditorAt
  <2> DEFINE c == editor[w].command
  <2>2. c \in CommandId /\ commands[c] \in Command /\ Counted(c) \in 0..AttemptCap
    BY <2>1, BusyEditor, EditorCommandType DEF WorkersHoldPending
  <2>3. \A e \in ErrorCode :
          [commands[c] EXCEPT !.status = "failed", !.error = e,
                              !.attempts = Counted(c)] \in Command
    BY <2>2 DEF Command, CommandStatus
  <2>4. (IF editor[w].step = "claimed" THEN "INVALID_EDIT_TARGET"
         ELSE editor[w].result.error) \in ErrorCode
    BY <2>1 DEF Result, ErrorCode
  <2>5. commands' \in [CommandId -> Command \cup {NoCommand}]
    BY <1>5, <2>3, <2>4 DEF FailEdit, TypeOK
  <2>. QED
    BY <1>5, <2>5 DEF FailEdit, TypeOK, chats
<1>6. CASE AbortEdit(w)
  BY <1>6 DEF AbortEdit, TypeOK, chats
<1>. QED
  BY <1>1, <1>2, <1>3, <1>4, <1>5, <1>6 DEF EditorStep

LEMMA OtherTypeOK ==
  ASSUME TypeOK
  PROVE  /\ \A c \in CommandId : RetryFailed(c) => TypeOK'
         /\ \A q \in Question : DeleteQuestion(q) \/ RemoveChat(q) => TypeOK'
<1>1. ASSUME NEW c \in CommandId, RetryFailed(c)
      PROVE  TypeOK'
  <2>1. commands[c] \in Command
    BY <1>1, PresentIsCommand DEF RetryFailed, ManualRetryAllowed, IsEdit
  <2>2. [commands[c] EXCEPT !.status = "pending"] \in Command
    BY <2>1 DEF Command, CommandStatus
  <2>. QED
    BY <1>1, <2>2 DEF RetryFailed, TypeOK, workers, chats
<1>2. ASSUME NEW q \in Question, DeleteQuestion(q)
      PROVE  TypeOK'
  BY <1>2 DEF DeleteQuestion, WithoutCommandsOf, TypeOK, QuestionStatus, workers, chats
<1>3. ASSUME NEW q \in Question, RemoveChat(q)
      PROVE  TypeOK'
  BY <1>3 DEF RemoveChat, TypeOK, workers
<1>. QED
  BY <1>1, <1>2, <1>3

LEMMA NextTypeOK == TypeOK /\ WorkersHoldPending /\ [Next]_vars => TypeOK'
<1>. SUFFICES ASSUME TypeOK, WorkersHoldPending, [Next]_vars
              PROVE  TypeOK'
  OBVIOUS
<1>1. CASE Next
  BY <1>1, OperatorTypeOK, SenderTypeOK, EditorTypeOK, OtherTypeOK DEF Next
<1>2. CASE UNCHANGED vars
  BY <1>2 DEF vars, TypeOK, workers, chats
<1>. QED
  BY <1>1, <1>2

-----------------------------------------------------------------------------
(* The inductive invariant, one lemma per kind of step.                      *)

LEMMA SendStatuses ==
  /\ DOMAIN SendStatusFor = {"send_requested", "sent", "send_failed"}
  /\ SendStatusFor["send_requested"] = {"pending"}
  /\ SendStatusFor["sent"] = {"succeeded"}
  /\ SendStatusFor["send_failed"] = {"failed", "needs_review"}
BY DEF SendStatusFor

\* The row of a question is locked out of every other status by its send.
LEMMA SendFacts ==
  ASSUME IInv, NEW c \in CommandId, IsSend(c)
  PROVE  /\ commands[c].question \in Question
         /\ commands[c].status = "pending" <=> status[commands[c].question] = "send_requested"
         /\ commands[c].status = "succeeded" <=> status[commands[c].question] = "sent"
         /\ status[commands[c].question] \in {"send_requested", "sent", "send_failed"}
<1>1. commands[c].question \in Question
  BY PresentIsCommand DEF IInv, IsSend, Command
<1>. QED
  BY <1>1, SendStatuses DEF IInv, QuestionMatchesSend

\* A question outside "send_requested", "sent" and "send_failed" has no command.
LEMMA NoCommandsOutside ==
  ASSUME IInv, NEW q \in Question, NEW c \in CommandId, Present(c),
         commands[c].question = q,
         status[q] \notin {"send_requested", "sent", "send_failed"}
  PROVE  FALSE
<1>1. IsSend(c) \/ IsEdit(c)
  BY PresentIsCommand DEF IInv, IsSend, IsEdit, Command
<1>2. CASE IsSend(c)
  BY <1>2, SendFacts
<1>3. CASE IsEdit(c)
  BY <1>3 DEF IInv, EditTargetValid
<1>. QED
  BY <1>1, <1>2, <1>3

\* An edit command has a send command of its question behind it.
SendBehind(c, e) ==
  /\ status[commands[c].question] = "sent"
  /\ IsSend(e)
  /\ commands[e].question = commands[c].question
  /\ commands[e].status = "succeeded"
  /\ commands[e].sentId = commands[c].sentId
  /\ commands[c].sentId # 0

LEMMA EditTargets ==
  EditTargetValid <=>
    \A c \in CommandId : IsEdit(c) => \E e \in CommandId : SendBehind(c, e)
BY DEF EditTargetValid, StoredSentIds, SendCommandsOf, SendBehind

LEMMA EditTargetsNext ==
  EditTargetValid' <=>
    \A c \in CommandId : IsEdit(c)' => \E e \in CommandId : SendBehind(c, e)'
BY DEF EditTargetValid, StoredSentIds, SendCommandsOf, SendBehind

LEMMA SendCommandNext ==
  ASSUME NEW q \in Question, NEW c \in CommandId, IsSend(c)', commands'[c].question = q
  PROVE  SendCommandsOf(q)' # {}
BY DEF SendCommandsOf

LEMMA MoveInv ==
  ASSUME IInv, NEW q \in Question, NEW from, NEW to \in QuestionStatus,
         from \cap {"send_requested", "sent", "send_failed", "deleted"} = {},
         to \notin {"send_requested", "sent", "send_failed"},
         MoveQuestion(q, from, to)
  PROVE  IInv'
<1>1. TypeOK'
  BY MoveTypeOK DEF IInv
<1>2. /\ status' = [status EXCEPT ![q] = to]
      /\ UNCHANGED <<versions, commands, sender, editor, posts, chatRemoved, promptCheck>>
  BY DEF MoveQuestion, workers, chats
<1>3. \A c \in CommandId : Present(c) => commands[c].question # q
  BY NoCommandsOutside DEF MoveQuestion
<1>4. status \in [Question -> QuestionStatus]
  BY DEF IInv, TypeOK
<1>5. QuestionMatchesSend'
  BY <1>2, <1>3, <1>4, SendStatuses
     DEF IInv, QuestionMatchesSend, IsSend, Present, SendCommandsOf
<1>6. PublishedWasPreviewed'
  BY <1>2, <1>4 DEF IInv, PublishedWasPreviewed, Present, MoveQuestion
<1>7. EditTargetValid'
  BY <1>2, <1>3, <1>4
     DEF IInv, EditTargetValid, IsEdit, IsSend, Present, StoredSentIds, SendCommandsOf
<1>8. /\ OneCommandPerPreview' /\ ExclusiveClaims' /\ RetriesBounded'
      /\ AccessLossRequestsCheck' /\ WorkersHoldPending' /\ AcceptedIsPosted'
      /\ EditFollowsPreview'
  BY <1>2 DEF IInv, OneCommandPerPreview, ExclusiveClaims, RetriesBounded,
     AccessLossRequestsCheck, WorkersHoldPending, AcceptedIsPosted, EditFollowsPreview,
     IsEdit, IsSend, Present
<1>. QED
  BY <1>1, <1>5, <1>6, <1>7, <1>8 DEF IInv

\* A draft appended to a question that has no pending edit beyond its versions.
LEMMA AppendDraftInv ==
  ASSUME IInv, TypeOK', NEW q \in Question, NEW t \in Text,
         versions' = [versions EXCEPT ![q] = Append(@, [text |-> t, action |-> "draft"])],
         status' = status \/ (/\ status[q] = "waiting_for_draft"
                              /\ status' = [status EXCEPT ![q] = "waiting_confirmation"]),
         UNCHANGED <<commands, sender, editor, posts, chatRemoved, promptCheck>>
  PROVE  IInv'
<1>1. status \in [Question -> QuestionStatus] /\ versions \in [Question -> Seq(Version)]
  BY DEF IInv, TypeOK
<1>2. /\ \A c \in CommandId : Present(c) =>
             status'[commands[c].question] = status[commands[c].question]
      /\ \A r \in Question : status'[r] = status[r] \/ status'[r] = "waiting_confirmation"
  <2>1. CASE status' = status
    BY <2>1
  <2>2. CASE /\ status[q] = "waiting_for_draft"
             /\ status' = [status EXCEPT ![q] = "waiting_confirmation"]
    <3>1. \A c \in CommandId : Present(c) => commands[c].question # q
      BY <2>2, NoCommandsOutside
    <3>. QED
      BY <1>1, <2>2, <3>1
  <2>. QED
    BY <2>1, <2>2
<1>3. QuestionMatchesSend'
  BY <1>2, SendStatuses
     DEF IInv, QuestionMatchesSend, IsSend, Present, SendCommandsOf
<1>4. \A r \in Question : \A i \in 1..Len(versions[r]) :
        i \in 1..Len(versions'[r]) /\ versions'[r][i] = versions[r][i]
  BY <1>1
<1>5. PublishedWasPreviewed'
  <2>1. ASSUME NEW r \in Question, NEW i \in 1..Len(versions'[r]),
               versions'[r][i].action # "draft"
        PROVE  i > 1 /\ versions'[r][i - 1] = [text |-> versions'[r][i].text, action |-> "draft"]
    <3>1. i \in 1..Len(versions[r])
      BY <1>1, <2>1
    <3>2. versions'[r][i] = versions[r][i]
      BY <1>4, <3>1
    <3>3. i > 1 /\ versions[r][i - 1] = [text |-> versions[r][i].text, action |-> "draft"]
      BY <2>1, <3>1, <3>2 DEF IInv, PublishedWasPreviewed
    <3>4. i - 1 \in 1..Len(versions[r])
      BY <3>1, <3>3
    <3>. QED
      BY <1>4, <3>2, <3>3, <3>4
  <2>2. \A r \in Question : status'[r] = "deleted" <=> status[r] = "deleted"
    BY <1>1
  <2>. QED
    BY <2>1, <2>2 DEF IInv, PublishedWasPreviewed, Present
<1>6. EditTargetValid'
  BY <1>2
     DEF IInv, EditTargetValid, IsEdit, IsSend, Present, StoredSentIds, SendCommandsOf
<1>7. EditFollowsPreview'
  <2>1. ASSUME NEW c \in CommandId, IsEdit(c)
        PROVE  commands[c].question \in Question
    BY <2>1, PresentIsCommand DEF IInv, IsEdit, Command
  <2>. QED
    BY <1>4, <2>1 DEF IInv, EditFollowsPreview, IsEdit, Present
<1>8. /\ OneCommandPerPreview' /\ ExclusiveClaims' /\ RetriesBounded'
      /\ AccessLossRequestsCheck' /\ WorkersHoldPending' /\ AcceptedIsPosted'
  BY DEF IInv, OneCommandPerPreview, ExclusiveClaims, RetriesBounded,
     AccessLossRequestsCheck, WorkersHoldPending, AcceptedIsPosted, IsEdit, IsSend, Present
<1>. QED
  BY <1>3, <1>5, <1>6, <1>7, <1>8 DEF IInv

\* A new row in outbound_commands, seen from the rows that were there.
LEMMA NewRow ==
  ASSUME IInv, NEW c \in CommandId, ~Present(c), NEW row \in Command,
         row.status = "pending",
         commands' = [commands EXCEPT ![c] = row]
  PROVE  /\ commands'[c] = row /\ Present(c)'
         /\ \A d \in CommandId \ {c} : commands'[d] = commands[d]
         /\ \A w \in SendWorker : sender[w] # Idle => sender[w].command \in CommandId \ {c}
         /\ \A w \in EditWorker : editor[w] # Idle => editor[w].command \in CommandId \ {c}
<1>1. commands'[c] = row /\ \A d \in CommandId \ {c} : commands'[d] = commands[d]
  BY DEF IInv, TypeOK
<1>2. \A w \in SendWorker : sender[w] # Idle => sender[w].command \in CommandId \ {c}
  BY BusySender DEF IInv, WorkersHoldPending, IsSend
<1>3. \A w \in EditWorker : editor[w] # Idle => editor[w].command \in CommandId \ {c}
  BY BusyEditor DEF IInv, WorkersHoldPending, IsEdit
<1>. QED
  BY <1>1, <1>2, <1>3 DEF Present

LEMMA ConfirmSendInv ==
  ASSUME IInv, TypeOK', NEW q \in Question, ConfirmSend(q)
  PROVE  IInv'
<1> DEFINE text == Preview(q).text
           row == NewCommand(q, "send_reply", Len(versions[q]) + 1, text, 0)
<1>1. PICK c \in CommandId :
        /\ ~Present(c)
        /\ commands' = [commands EXCEPT ![c] = row]
        /\ versions' = [versions EXCEPT ![q] = Append(@, [text |-> text, action |-> "sent"])]
  BY DEF ConfirmSend
<1>2. /\ status' = [status EXCEPT ![q] = "send_requested"]
      /\ status[q] = "waiting_confirmation"
      /\ UNCHANGED <<sender, editor, posts, chatRemoved, promptCheck>>
  BY DEF ConfirmSend, workers, chats
<1>3. status \in [Question -> QuestionStatus] /\ versions \in [Question -> Seq(Version)]
  BY DEF IInv, TypeOK
<1>4. text \in Text /\ row \in Command
  <2>1. text \in Text /\ Len(versions[q]) + 1 \in Nat
    BY <1>3, PreviewType DEF IInv, ConfirmSend
  <2>. QED
    BY <2>1, NewCommandType
<1>5. /\ row.status = "pending" /\ row.kind = "send_reply" /\ row.question = q
      /\ row.error = "none" /\ row.text = text
  BY DEF NewCommand
<1>6. /\ commands'[c] = row
      /\ \A d \in CommandId \ {c} : commands'[d] = commands[d]
      /\ \A w \in SendWorker : sender[w] # Idle => sender[w].command \in CommandId \ {c}
      /\ \A w \in EditWorker : editor[w] # Idle => editor[w].command \in CommandId \ {c}
  BY <1>1, <1>4, <1>5, NewRow
<1>7. \A d \in CommandId : Present(d) =>
        /\ commands[d].question \in Question \ {q}
        /\ status'[commands[d].question] = status[commands[d].question]
        /\ versions'[commands[d].question] = versions[commands[d].question]
  <2>1. ASSUME NEW d \in CommandId, Present(d)
        PROVE  commands[d].question \in Question \ {q}
    BY <1>2, <2>1, NoCommandsOutside, PresentIsCommand DEF IInv, Command
  <2>. QED
    BY <1>1, <1>2, <1>3, <2>1
<1>8. QuestionMatchesSend'
  <2>1. IsSend(c)' /\ \A d \in CommandId \ {c} : IsSend(d)' <=> IsSend(d)
    BY <1>5, <1>6 DEF IsSend, Present
  <2>2. ASSUME NEW d \in CommandId, IsSend(d)'
        PROVE  LET r == commands'[d].question IN
                 /\ status'[r] \in DOMAIN SendStatusFor
                 /\ commands'[d].status \in SendStatusFor[status'[r]]
                 /\ status'[r] = "sent" => commands'[d].sentId \in 1..Len(posts'[r])
    <3>1. CASE d = c
      BY <1>2, <1>3, <1>5, <1>6, <3>1, SendStatuses
    <3>2. CASE d # c
      BY <1>2, <1>6, <1>7, <2>1, <2>2, <3>2 DEF IInv, QuestionMatchesSend, IsSend
    <3>. QED
      BY <3>1, <3>2
  <2>3. ASSUME NEW r \in Question, status'[r] \in DOMAIN SendStatusFor
        PROVE  SendCommandsOf(r)' # {}
    <3>1. CASE r = q
      BY <1>5, <1>6, <2>1, <3>1, SendCommandNext
    <3>2. CASE r # q
      <4>1. PICK d \in SendCommandsOf(r) : TRUE
        BY <1>2, <1>3, <2>3, <3>2 DEF IInv, QuestionMatchesSend
      <4>2. d \in CommandId \ {c} /\ IsSend(d) /\ commands[d].question = r
        BY <1>1, <4>1 DEF SendCommandsOf, IsSend
      <4>. QED
        BY <1>6, <2>1, <4>2, SendCommandNext
    <3>. QED
      BY <3>1, <3>2
  <2>4. \A d, e \in CommandId :
          IsSend(d)' /\ IsSend(e)' /\ commands'[d].question = commands'[e].question => d = e
    BY <1>5, <1>6, <1>7, <2>1 DEF IInv, QuestionMatchesSend, IsSend
  <2>. QED
    BY <2>2, <2>3, <2>4 DEF QuestionMatchesSend
<1>9. PublishedWasPreviewed'
  <2>1. Len(versions[q]) > 0 /\ versions[q][Len(versions[q])] = [text |-> text, action |-> "draft"]
    <3>1. versions[q] \in Seq(Version) /\ versions[q] # <<>> /\ Preview(q).action = "draft"
      BY <1>3 DEF ConfirmSend, LatestIsDraft
    <3>2. Preview(q) \in Version
      BY <3>1 DEF Preview
    <3>. QED
      BY <3>1, <3>2 DEF Preview, Version
  <2>2. ASSUME NEW r \in Question, NEW i \in 1..Len(versions'[r]),
               versions'[r][i].action # "draft"
        PROVE  i > 1 /\ versions'[r][i - 1] = [text |-> versions'[r][i].text, action |-> "draft"]
    <3>1. CASE r = q /\ i = Len(versions[q]) + 1
      BY <1>1, <1>3, <2>1, <3>1
    <3>2. CASE r # q \/ i # Len(versions[q]) + 1
      <4>1. i \in 1..Len(versions[r]) /\ versions'[r][i] = versions[r][i]
        BY <1>1, <1>3, <3>2
      <4>2. i > 1 /\ versions[r][i - 1] = [text |-> versions[r][i].text, action |-> "draft"]
        BY <2>2, <4>1 DEF IInv, PublishedWasPreviewed
      <4>3. versions'[r][i - 1] = versions[r][i - 1]
        BY <1>1, <1>3, <4>1, <4>2
      <4>. QED
        BY <4>1, <4>2, <4>3
    <3>. QED
      BY <3>1, <3>2
  <2>3. \A r \in Question : status'[r] # "deleted" => status[r] # "deleted"
    BY <1>2, <1>3
  <2>4. \A d \in CommandId : Present(d) => d # c /\ commands'[d] = commands[d]
    BY <1>1, <1>6
  <2>. QED
    BY <1>2, <2>2, <2>3, <2>4 DEF IInv, PublishedWasPreviewed, Present
<1>10. EditTargetValid'
  <2>1. ASSUME NEW d \in CommandId, IsEdit(d)'
        PROVE  \E e \in CommandId : SendBehind(d, e)'
    <3>1. d # c /\ IsEdit(d) /\ commands'[d] = commands[d]
      BY <1>5, <1>6, <2>1 DEF IsEdit, Present
    <3>2. PICK e \in CommandId : SendBehind(d, e)
      BY <3>1, EditTargets DEF IInv
    <3>3. e # c /\ commands'[e] = commands[e]
      BY <1>1, <1>6, <3>2 DEF SendBehind, IsSend
    <3>4. SendBehind(d, e)'
      BY <1>7, <3>1, <3>2, <3>3 DEF SendBehind, IsEdit, IsSend, Present
    <3>. QED
      BY <3>4
  <2>. QED
    BY <2>1, EditTargetsNext
<1>11. OneCommandPerPreview' /\ EditFollowsPreview'
  <2>1. \A d \in CommandId : IsEdit(d)' => d # c /\ IsEdit(d) /\ commands'[d] = commands[d]
    BY <1>5, <1>6 DEF IsEdit, Present
  <2>2. OneCommandPerPreview'
    BY <2>1 DEF IInv, OneCommandPerPreview
  <2>3. EditFollowsPreview'
    BY <1>7, <2>1 DEF IInv, EditFollowsPreview, IsEdit
  <2>. QED
    BY <2>2, <2>3
<1>12. RetriesBounded' /\ AccessLossRequestsCheck'
  BY <1>2, <1>5, <1>6
     DEF IInv, RetriesBounded, AccessLossRequestsCheck, IsSend, Present
<1>13. ExclusiveClaims'
  BY <1>2 DEF IInv, ExclusiveClaims
<1>14. WorkersHoldPending' /\ AcceptedIsPosted'
  BY <1>2, <1>6 DEF IInv, WorkersHoldPending, AcceptedIsPosted, IsSend, IsEdit, Present
<1>. QED
  BY <1>8, <1>9, <1>10, <1>11, <1>12, <1>13, <1>14 DEF IInv

LEMMA ConfirmEditInv ==
  ASSUME IInv, TypeOK', NEW q \in Question, ConfirmEdit(q)
  PROVE  IInv'
<1>1. PICK c \in CommandId, id \in StoredSentIds(q) :
        /\ ~Present(c)
        /\ commands' = [commands EXCEPT
             ![c] = NewCommand(q, "edit_reply", Len(versions[q]) + 1, Preview(q).text, id)]
  BY DEF ConfirmEdit
<1> DEFINE row == NewCommand(q, "edit_reply", Len(versions[q]) + 1, Preview(q).text, id)
<1>2. /\ UNCHANGED <<status, versions, sender, editor, posts, chatRemoved, promptCheck>>
      /\ status[q] = "sent"
  BY DEF ConfirmEdit, workers, chats
<1>3. /\ versions[q] \in Seq(Version) /\ versions[q] # <<>>
      /\ Preview(q) \in Version /\ Preview(q).action = "draft"
  <2>1. versions[q] \in Seq(Version) /\ versions[q] # <<>> /\ Preview(q).action = "draft"
    BY DEF IInv, TypeOK, ConfirmEdit, LatestIsDraft
  <2>. QED
    BY <2>1 DEF Preview
<1>4. row \in Command
  <2>1. Preview(q).text \in Text /\ Len(versions[q]) + 1 \in Nat
    BY <1>3 DEF Version
  <2>2. id \in Nat
    BY PresentIsCommand DEF StoredSentIds, SendCommandsOf, IsSend, Command, IInv
  <2>. QED
    BY <2>1, <2>2, NewCommandType
<1>5. /\ row.status = "pending" /\ row.kind = "edit_reply" /\ row.question = q
      /\ row.version = Len(versions[q]) + 1 /\ row.text = Preview(q).text
      /\ row.sentId = id
  BY DEF NewCommand
<1>6. /\ commands'[c] = row
      /\ \A d \in CommandId \ {c} : commands'[d] = commands[d]
      /\ \A w \in SendWorker : sender[w] # Idle => sender[w].command \in CommandId \ {c}
      /\ \A w \in EditWorker : editor[w] # Idle => editor[w].command \in CommandId \ {c}
  BY <1>1, <1>4, <1>5, NewRow
<1>7. \A d \in CommandId : Present(d) => d # c /\ commands'[d] = commands[d]
  BY <1>1, <1>6
<1>8. \A d \in CommandId : IsSend(d)' <=> IsSend(d)
  BY <1>1, <1>5, <1>6 DEF IsSend, Present
<1>9. QuestionMatchesSend'
  <2>1. ASSUME NEW r \in Question, status'[r] \in DOMAIN SendStatusFor
        PROVE  SendCommandsOf(r)' # {}
    <3>1. PICK d \in SendCommandsOf(r) : TRUE
      BY <1>2, <2>1 DEF IInv, QuestionMatchesSend
    <3>2. d \in CommandId /\ IsSend(d) /\ commands[d].question = r
      BY <3>1 DEF SendCommandsOf
    <3>. QED
      BY <1>7, <1>8, <3>2, SendCommandNext DEF IsSend
  <2>2. \A d \in CommandId : IsSend(d)' => IsSend(d) /\ commands'[d] = commands[d]
    BY <1>7, <1>8 DEF IsSend
  <2>. QED
    BY <1>2, <2>1, <2>2 DEF IInv, QuestionMatchesSend
<1>10. PublishedWasPreviewed'
  BY <1>2, <1>7 DEF IInv, PublishedWasPreviewed, Present
<1>11. OneCommandPerPreview'
  <2>1. \A d \in EditCommandsOf(q) : commands[d].version # Len(versions[q]) + 1
    BY DEF ConfirmEdit, EditKeyTaken
  <2>2. \A d \in CommandId \ {c} :
          IsEdit(d)' => /\ IsEdit(d) /\ commands'[d] = commands[d]
                        /\ commands[d].question = q => commands[d].version # row.version
    BY <1>5, <1>6, <2>1 DEF IsEdit, Present, EditCommandsOf
  <2>. QED
    BY <1>5, <1>6, <2>2 DEF IInv, OneCommandPerPreview
<1>12. EditTargetValid'
  <2>1. ASSUME NEW d \in CommandId, IsEdit(d)'
        PROVE  \E e \in CommandId : SendBehind(d, e)'
    <3>1. CASE d = c
      <4>1. PICK e \in SendCommandsOf(q) :
              /\ commands[e].status = "succeeded" /\ commands[e].sentId # 0
              /\ commands[e].sentId = id
        BY DEF StoredSentIds
      <4>2. e \in CommandId /\ IsSend(e) /\ commands[e].question = q
        BY <4>1 DEF SendCommandsOf
      <4>3. IsSend(e)' /\ commands'[e] = commands[e]
        BY <1>7, <1>8, <4>2 DEF IsSend
      <4>4. SendBehind(c, e)'
        BY <1>2, <1>5, <1>6, <4>1, <4>2, <4>3 DEF SendBehind
      <4>. QED
        BY <3>1, <4>2, <4>4
    <3>2. CASE d # c
      <4>1. IsEdit(d) /\ commands'[d] = commands[d]
        BY <1>6, <2>1, <3>2 DEF IsEdit, Present
      <4>2. PICK e \in CommandId : SendBehind(d, e)
        BY <4>1, EditTargets DEF IInv
      <4>3. IsSend(e)' /\ commands'[e] = commands[e]
        BY <1>7, <1>8, <4>2 DEF SendBehind, IsSend
      <4>4. SendBehind(d, e)'
        BY <1>2, <4>1, <4>2, <4>3 DEF SendBehind
      <4>. QED
        BY <4>4
    <3>. QED
      BY <3>1, <3>2
  <2>. QED
    BY <2>1, EditTargetsNext
<1>13. EditFollowsPreview'
  <2>1. ASSUME NEW d \in CommandId, IsEdit(d)'
        PROVE  LET r == commands'[d].question
                   preview == commands'[d].version - 1
               IN /\ preview \in 1..Len(versions'[r])
                  /\ versions'[r][preview] = [text |-> commands'[d].text, action |-> "draft"]
    <3>1. CASE d = c
      <4>1. row.version - 1 = Len(versions[q]) /\ Len(versions[q]) \in 1..Len(versions[q])
        BY <1>3, <1>5
      <4>2. versions[q][Len(versions[q])] = [text |-> row.text, action |-> "draft"]
        BY <1>3, <1>5 DEF Preview, Version
      <4>. QED
        BY <1>2, <1>5, <1>6, <3>1, <4>1, <4>2
    <3>2. CASE d # c
      <4>1. IsEdit(d) /\ commands'[d] = commands[d]
        BY <1>6, <2>1, <3>2 DEF IsEdit, Present
      <4>. QED
        BY <1>2, <4>1 DEF IInv, EditFollowsPreview
    <3>. QED
      BY <3>1, <3>2
  <2>. QED
    BY <2>1 DEF EditFollowsPreview
<1>14. RetriesBounded' /\ AccessLossRequestsCheck'
  <2>1. \A d \in CommandId : IsSend(d)' => IsSend(d) /\ commands'[d] = commands[d]
    BY <1>7, <1>8 DEF IsSend
  <2>. QED
    BY <1>2, <2>1 DEF IInv, RetriesBounded, AccessLossRequestsCheck
<1>15. ExclusiveClaims' /\ WorkersHoldPending' /\ AcceptedIsPosted'
  BY <1>2, <1>6
     DEF IInv, ExclusiveClaims, WorkersHoldPending, AcceptedIsPosted, IsSend, IsEdit, Present
<1>. QED
  BY <1>9, <1>10, <1>11, <1>12, <1>13, <1>14, <1>15 DEF IInv

LEMMA RemoveChatInv ==
  ASSUME IInv, TypeOK', NEW q \in Question, RemoveChat(q)
  PROVE  IInv'
<1>1. /\ chatRemoved' = chatRemoved \cup {q}
      /\ UNCHANGED <<status, versions, commands, sender, editor, posts, promptCheck>>
  BY DEF RemoveChat, workers
<1>2. AccessLossRequestsCheck'
  BY <1>1 DEF IInv, AccessLossRequestsCheck, IsSend, Present
<1>3. EditTargetValid' /\ QuestionMatchesSend'
  BY <1>1 DEF IInv, EditTargetValid, QuestionMatchesSend, StoredSentIds, SendCommandsOf,
     IsEdit, IsSend, Present
<1>. QED
  BY <1>1, <1>2, <1>3
     DEF IInv, PublishedWasPreviewed, OneCommandPerPreview, ExclusiveClaims, RetriesBounded,
         WorkersHoldPending, AcceptedIsPosted, EditFollowsPreview, IsEdit, IsSend, Present

\* The parts of IInv that do not look at the workers.
RowsInv ==
  /\ QuestionMatchesSend /\ PublishedWasPreviewed /\ OneCommandPerPreview
  /\ EditTargetValid /\ RetriesBounded /\ AccessLossRequestsCheck /\ EditFollowsPreview

\* The parts that do.
WorkersInv == ExclusiveClaims /\ WorkersHoldPending /\ AcceptedIsPosted

LEMMA RowsUnchanged ==
  ASSUME IInv, UNCHANGED <<status, versions, commands, posts, chatRemoved, promptCheck>>
  PROVE  RowsInv'
BY DEF IInv, RowsInv, QuestionMatchesSend, PublishedWasPreviewed, OneCommandPerPreview,
   EditTargetValid, RetriesBounded, AccessLossRequestsCheck, EditFollowsPreview,
   StoredSentIds, SendCommandsOf, IsEdit, IsSend, Present

\* What appending to one of several sequences leaves and adds.
LEMMA AppendAt ==
  ASSUME NEW S, NEW f \in [Question -> Seq(S)], NEW g,
         NEW q \in Question, NEW v \in S,
         g = [f EXCEPT ![q] = Append(f[q], v)]
  PROVE  /\ \A r \in Question : Len(f[r]) \in Nat /\ Len(f[r]) <= Len(g[r])
         /\ \A r \in Question \ {q} : g[r] = f[r]
         /\ \A r \in Question : \A i \in 1..Len(f[r]) : i \in 1..Len(g[r]) /\ g[r][i] = f[r][i]
         /\ Len(g[q]) = Len(f[q]) + 1
         /\ g[q][Len(f[q]) + 1] = v
<1>1. f[q] \in Seq(S) /\ g[q] = Append(f[q], v) /\ \A r \in Question \ {q} : g[r] = f[r]
  OBVIOUS
<1>2. /\ Len(g[q]) = Len(f[q]) + 1 /\ g[q][Len(f[q]) + 1] = v
      /\ Len(f[q]) \in Nat /\ \A i \in 1..Len(f[q]) : i \in 1..Len(g[q]) /\ g[q][i] = f[q][i]
  BY <1>1
<1>3. \A r \in Question : Len(f[r]) \in Nat
  OBVIOUS
<1>. QED
  BY <1>1, <1>2, <1>3

\* The same, one part at a time, for steps that move more: each part asks only
\* for what it reads.
LEMMA SendRowsKept ==
  ASSUME QuestionMatchesSend,
         UNCHANGED <<status, commands>>,
         \A d \in CommandId : IsSend(d) => commands[d].question \in Question,
         \A q \in Question : status[q] = "sent" => Len(posts'[q]) = Len(posts[q])
  PROVE  QuestionMatchesSend'
<1>1. \A d \in CommandId : IsSend(d)' <=> IsSend(d)
  BY DEF IsSend, Present
<1>2. \A q \in Question : SendCommandsOf(q)' = SendCommandsOf(q)
  BY <1>1 DEF SendCommandsOf
<1>3. ASSUME NEW d \in CommandId, IsSend(d)
      PROVE  LET q == commands[d].question IN
               /\ status[q] \in DOMAIN SendStatusFor
               /\ commands[d].status \in SendStatusFor[status[q]]
               /\ status[q] = "sent" => commands[d].sentId \in 1..Len(posts'[q])
  <2>1. PICK q \in Question : q = commands[d].question
    BY <1>3
  <2>2. /\ status[q] \in DOMAIN SendStatusFor
        /\ commands[d].status \in SendStatusFor[status[q]]
        /\ status[q] = "sent" => commands[d].sentId \in 1..Len(posts[q])
    BY <1>3, <2>1 DEF QuestionMatchesSend
  <2>3. status[q] = "sent" => Len(posts'[q]) = Len(posts[q])
    OBVIOUS
  <2>. QED
    BY <2>1, <2>2, <2>3
<1>. QED
  BY <1>1, <1>2, <1>3 DEF QuestionMatchesSend

LEMMA PostsPreviewed ==
  ASSUME PublishedWasPreviewed,
         UNCHANGED <<status, versions, commands>>,
         ASSUME NEW q \in Question, status[q] # "deleted", NEW i \in 1..Len(posts'[q])
         PROVE  \E c \in CommandId :
                  Present(c) /\ commands[c].question = q /\ commands[c].text = posts'[q][i]
  PROVE  PublishedWasPreviewed'
<1>1. \A c \in CommandId : Present(c)' <=> Present(c)
  BY DEF Present
<1>. QED
  BY <1>1 DEF PublishedWasPreviewed

LEMMA EditRowsKept ==
  ASSUME OneCommandPerPreview, EditFollowsPreview,
         \A d \in CommandId : IsEdit(d)' =>
           /\ IsEdit(d)
           /\ commands[d].question \in Question
           /\ commands'[d].question = commands[d].question
           /\ commands'[d].version = commands[d].version
           /\ commands'[d].text = commands[d].text,
         \A q \in Question : \A i \in 1..Len(versions[q]) :
           i \in 1..Len(versions'[q]) /\ versions'[q][i] = versions[q][i]
  PROVE  OneCommandPerPreview' /\ EditFollowsPreview'
<1>1. OneCommandPerPreview'
  BY DEF OneCommandPerPreview
<1>2. ASSUME NEW d \in CommandId, IsEdit(d)'
      PROVE  LET q == commands'[d].question
                 preview == commands'[d].version - 1
             IN /\ preview \in 1..Len(versions'[q])
                /\ versions'[q][preview] = [text |-> commands'[d].text, action |-> "draft"]
  <2>1. PICK q \in Question : q = commands[d].question
    BY <1>2
  <2>2. PICK i : i = commands[d].version - 1
    OBVIOUS
  <2>3. i \in 1..Len(versions[q]) /\ versions[q][i] = [text |-> commands[d].text, action |-> "draft"]
    BY <1>2, <2>1, <2>2 DEF EditFollowsPreview
  <2>4. i \in 1..Len(versions'[q]) /\ versions'[q][i] = versions[q][i]
    BY <2>3
  <2>. QED
    BY <1>2, <2>1, <2>2, <2>3, <2>4
<1>3. EditFollowsPreview'
  BY <1>2 DEF EditFollowsPreview
<1>. QED
  BY <1>1, <1>3

LEMMA OtherRowsKept ==
  ASSUME IInv, UNCHANGED <<status, versions, commands, chatRemoved, promptCheck>>
  PROVE  /\ OneCommandPerPreview' /\ EditTargetValid' /\ RetriesBounded'
         /\ AccessLossRequestsCheck' /\ EditFollowsPreview'
<1>1. \A d \in CommandId : (IsSend(d)' <=> IsSend(d)) /\ (IsEdit(d)' <=> IsEdit(d))
  BY DEF IsSend, IsEdit, Present
<1>2. \A d, e \in CommandId : SendBehind(d, e)' <=> SendBehind(d, e)
  BY <1>1 DEF SendBehind
<1>3. EditTargetValid'
  BY <1>1, <1>2, EditTargets, EditTargetsNext DEF IInv
<1>4. OneCommandPerPreview' /\ EditFollowsPreview'
  BY <1>1 DEF IInv, OneCommandPerPreview, EditFollowsPreview
<1>5. RetriesBounded'
  BY <1>1 DEF IInv, RetriesBounded
<1>6. AccessLossRequestsCheck'
  BY <1>1 DEF IInv, AccessLossRequestsCheck
<1>. QED
  BY <1>3, <1>4, <1>5, <1>6

\* Commands never lose their question, kind, version or text: what a commit
\* changes is the outcome.
LEMMA OutcomeRow ==
  ASSUME IInv, NEW c \in CommandId, Present(c), NEW row \in Command,
         row.question = commands[c].question, row.kind = commands[c].kind,
         row.version = commands[c].version, row.text = commands[c].text,
         commands' = [commands EXCEPT ![c] = row]
  PROVE  /\ commands'[c] = row
         /\ \A d \in CommandId \ {c} : commands'[d] = commands[d]
         /\ \A d \in CommandId : Present(d)' <=> Present(d)
         /\ \A d \in CommandId : IsSend(d)' <=> IsSend(d)
         /\ \A d \in CommandId : IsEdit(d)' <=> IsEdit(d)
         /\ \A d \in CommandId : Present(d) =>
              /\ commands'[d].question = commands[d].question
              /\ commands'[d].version = commands[d].version
              /\ commands'[d].text = commands[d].text
         /\ \A q \in Question : SendCommandsOf(q)' = SendCommandsOf(q)
<1>1. commands'[c] = row /\ \A d \in CommandId \ {c} : commands'[d] = commands[d]
  BY DEF IInv, TypeOK
<1>2. row.status # "absent"
  BY DEF Command, CommandStatus
<1>3. /\ \A d \in CommandId : Present(d)' <=> Present(d)
      /\ \A d \in CommandId : IsSend(d)' <=> IsSend(d)
      /\ \A d \in CommandId : IsEdit(d)' <=> IsEdit(d)
  BY <1>1, <1>2 DEF Present, IsSend, IsEdit
<1>4. \A d \in CommandId : Present(d) =>
              /\ commands'[d].question = commands[d].question
              /\ commands'[d].version = commands[d].version
              /\ commands'[d].text = commands[d].text
  BY <1>1
<1>5. \A q \in Question : SendCommandsOf(q)' = SendCommandsOf(q)
  BY <1>3, <1>4 DEF SendCommandsOf, IsSend
<1>. QED
  BY <1>1, <1>3, <1>4, <1>5

LEMMA RetryFailedInv ==
  ASSUME IInv, TypeOK', NEW c \in CommandId, RetryFailed(c)
  PROVE  IInv'
<1> DEFINE row == [commands[c] EXCEPT !.status = "pending"]
<1>1. /\ IsEdit(c) /\ commands[c].status = "failed" /\ commands[c] \in Command
      /\ commands' = [commands EXCEPT ![c] = row]
      /\ UNCHANGED <<status, versions, sender, editor, posts, chatRemoved, promptCheck>>
  <2>1. IsEdit(c) /\ commands[c].status = "failed" /\ commands[c] \in Command
    BY PresentIsCommand DEF RetryFailed, ManualRetryAllowed, IsEdit, IInv
  <2>. QED
    BY <2>1 DEF RetryFailed, workers, chats
<1>2. /\ row \in Command /\ row.question = commands[c].question
      /\ row.kind = commands[c].kind /\ row.version = commands[c].version
      /\ row.text = commands[c].text /\ row.sentId = commands[c].sentId
      /\ row.status = "pending"
  BY <1>1 DEF Command, CommandStatus
<1>3. Present(c) /\ ~IsSend(c)
  BY <1>1 DEF IsEdit, IsSend
<1>4. /\ commands'[c] = row
      /\ \A d \in CommandId \ {c} : commands'[d] = commands[d]
      /\ \A d \in CommandId : Present(d)' <=> Present(d)
      /\ \A d \in CommandId : IsSend(d)' <=> IsSend(d)
      /\ \A d \in CommandId : IsEdit(d)' <=> IsEdit(d)
      /\ \A d \in CommandId : Present(d) =>
           /\ commands'[d].question = commands[d].question
           /\ commands'[d].version = commands[d].version
           /\ commands'[d].text = commands[d].text
      /\ \A q \in Question : SendCommandsOf(q)' = SendCommandsOf(q)
  BY <1>1, <1>2, <1>3, OutcomeRow
<1>5. \A d \in CommandId : IsSend(d) => d # c /\ commands'[d] = commands[d]
  BY <1>3, <1>4
<1>6. QuestionMatchesSend'
  BY <1>1, <1>4, <1>5 DEF IInv, QuestionMatchesSend
<1>7. PublishedWasPreviewed'
  BY <1>1, <1>4 DEF IInv, PublishedWasPreviewed
<1>8. OneCommandPerPreview' /\ EditFollowsPreview'
  BY <1>1, <1>4 DEF IInv, OneCommandPerPreview, EditFollowsPreview, IsEdit
<1>9. EditTargetValid'
  <2>1. \A d \in CommandId : commands'[d].sentId = commands[d].sentId
    BY <1>2, <1>4
  <2>2. ASSUME NEW d \in CommandId, IsEdit(d)'
        PROVE  \E e \in CommandId : SendBehind(d, e)'
    <3>1. PICK e \in CommandId : SendBehind(d, e)
      BY <1>4, <2>2, EditTargets DEF IInv
    <3>2. SendBehind(d, e)'
      BY <1>1, <1>4, <1>5, <2>1, <2>2, <3>1 DEF SendBehind, IsEdit
    <3>. QED
      BY <3>2
  <2>. QED
    BY <2>2, EditTargetsNext
<1>10. RetriesBounded' /\ AccessLossRequestsCheck'
  BY <1>1, <1>4, <1>5 DEF IInv, RetriesBounded, AccessLossRequestsCheck
<1>11. WorkersInv'
  BY <1>1, <1>2, <1>4, BusySender, BusyEditor
     DEF IInv, WorkersInv, ExclusiveClaims, WorkersHoldPending, AcceptedIsPosted, IsSend, IsEdit
<1>. QED
  BY <1>6, <1>7, <1>8, <1>9, <1>10, <1>11 DEF IInv, WorkersInv

LEMMA DeleteQuestionInv ==
  ASSUME IInv, TypeOK', NEW q \in Question, DeleteQuestion(q)
  PROVE  IInv'
<1>1. /\ status' = [status EXCEPT ![q] = "deleted"]
      /\ versions' = [versions EXCEPT ![q] = <<>>]
      /\ commands' = WithoutCommandsOf(q)
      /\ UNCHANGED <<sender, editor, posts, chatRemoved, promptCheck>>
  BY DEF DeleteQuestion, workers, chats
<1>2. status \in [Question -> QuestionStatus] /\ versions \in [Question -> Seq(Version)]
  BY DEF IInv, TypeOK
<1>3. \A d \in CommandId :
        /\ Present(d)' <=> Present(d) /\ commands[d].question # q
        /\ Present(d)' => commands'[d] = commands[d]
  BY <1>1 DEF WithoutCommandsOf, Present, NoCommand
<1>4. \A d \in CommandId : Present(d)' =>
        /\ commands[d].question \in Question \ {q}
        /\ status'[commands[d].question] = status[commands[d].question]
        /\ versions'[commands[d].question] = versions[commands[d].question]
  BY <1>1, <1>2, <1>3, PresentIsCommand DEF IInv, Command
<1>5. \A d \in CommandId :
        /\ IsSend(d)' <=> IsSend(d) /\ commands[d].question # q
        /\ IsEdit(d)' <=> IsEdit(d) /\ commands[d].question # q
  BY <1>3 DEF IsSend, IsEdit
<1>6. QuestionMatchesSend'
  <2>1. ASSUME NEW r \in Question, status'[r] \in DOMAIN SendStatusFor
        PROVE  SendCommandsOf(r)' # {}
    <3>1. r # q /\ status[r] \in DOMAIN SendStatusFor
      BY <1>1, <1>2, <2>1, SendStatuses
    <3>2. PICK d \in SendCommandsOf(r) : TRUE
      BY <3>1 DEF IInv, QuestionMatchesSend
    <3>3. d \in CommandId /\ IsSend(d) /\ commands[d].question = r
      BY <3>2 DEF SendCommandsOf
    <3>. QED
      BY <1>3, <1>5, <3>1, <3>3, SendCommandNext DEF IsSend
  <2>2. \A d \in CommandId : IsSend(d)' =>
          IsSend(d) /\ commands'[d] = commands[d]
          /\ status'[commands[d].question] = status[commands[d].question]
    BY <1>3, <1>4, <1>5 DEF IsSend
  <2>. QED
    BY <1>1, <2>1, <2>2 DEF IInv, QuestionMatchesSend
<1>7. PublishedWasPreviewed'
  <2>1. ASSUME NEW r \in Question, NEW i \in 1..Len(versions'[r]),
               versions'[r][i].action # "draft"
        PROVE  i > 1 /\ versions'[r][i - 1] = [text |-> versions'[r][i].text, action |-> "draft"]
    <3>1. r # q
      BY <1>1, <1>2, <2>1
    <3>2. versions'[r] = versions[r]
      BY <1>1, <1>2, <3>1
    <3>. QED
      BY <2>1, <3>2 DEF IInv, PublishedWasPreviewed
  <2>2. ASSUME NEW r \in Question, status'[r] # "deleted", NEW i \in 1..Len(posts'[r])
        PROVE  \E c \in CommandId :
                 Present(c)' /\ commands'[c].question = r /\ commands'[c].text = posts'[r][i]
    <3>1. r # q /\ status[r] # "deleted"
      BY <1>1, <1>2, <2>2
    <3>2. PICK c \in CommandId :
            Present(c) /\ commands[c].question = r /\ commands[c].text = posts[r][i]
      BY <1>1, <2>2, <3>1 DEF IInv, PublishedWasPreviewed
    <3>. QED
      BY <1>1, <1>3, <3>1, <3>2
  <2>. QED
    BY <2>1, <2>2 DEF PublishedWasPreviewed
<1>8. OneCommandPerPreview' /\ EditFollowsPreview'
  BY <1>3, <1>4, <1>5 DEF IInv, OneCommandPerPreview, EditFollowsPreview, IsEdit
<1>9. EditTargetValid'
  <2>1. ASSUME NEW d \in CommandId, IsEdit(d)'
        PROVE  \E e \in CommandId : SendBehind(d, e)'
    <3>1. IsEdit(d) /\ commands'[d] = commands[d] /\ commands[d].question # q
      BY <1>3, <1>5, <2>1 DEF IsEdit
    <3>2. PICK e \in CommandId : SendBehind(d, e)
      BY <3>1, EditTargets DEF IInv
    <3>3. IsSend(e)' /\ commands'[e] = commands[e]
      BY <1>3, <1>5, <3>1, <3>2 DEF SendBehind, IsSend
    <3>4. SendBehind(d, e)'
      BY <1>4, <2>1, <3>1, <3>2, <3>3 DEF SendBehind, IsEdit
    <3>. QED
      BY <3>4
  <2>. QED
    BY <2>1, EditTargetsNext
<1>10. RetriesBounded' /\ AccessLossRequestsCheck'
  BY <1>1, <1>3, <1>5 DEF IInv, RetriesBounded, AccessLossRequestsCheck, IsSend
<1>11. \A c \in CommandId :
         /\ \A w \in SendWorker : sender[w] # Idle /\ sender[w].command = c =>
              IsSend(c)' /\ commands'[c] = commands[c]
         /\ \A w \in EditWorker : editor[w] # Idle /\ editor[w].command = c =>
              IsEdit(c)' /\ commands'[c] = commands[c]
  <2>1. ASSUME NEW w \in SendWorker, NEW c \in CommandId, sender[w] # Idle, sender[w].command = c
        PROVE  IsSend(c)' /\ commands'[c] = commands[c]
    <3>1. IsSend(c)
      BY <2>1 DEF IInv, WorkersHoldPending
    <3>2. commands[c].question # q
      BY <2>1, <3>1 DEF DeleteQuestion, SendCommandsOf, SendLocked
    <3>. QED
      BY <1>3, <1>5, <3>1, <3>2 DEF IsSend
  <2>2. ASSUME NEW w \in EditWorker, NEW c \in CommandId, editor[w] # Idle, editor[w].command = c
        PROVE  IsEdit(c)' /\ commands'[c] = commands[c]
    <3>1. IsEdit(c)
      BY <2>2 DEF IInv, WorkersHoldPending
    <3>2. commands[c].question # q
      BY <2>2, <3>1 DEF DeleteQuestion, EditCommandsOf, EditLocked
    <3>. QED
      BY <1>3, <1>5, <3>1, <3>2 DEF IsEdit
  <2>. QED
    BY <2>1, <2>2
<1>12. WorkersInv'
  BY <1>1, <1>11, BusySender, BusyEditor
     DEF IInv, WorkersInv, ExclusiveClaims, WorkersHoldPending, AcceptedIsPosted
<1>. QED
  BY <1>6, <1>7, <1>8, <1>9, <1>10, <1>12 DEF IInv, WorkersInv

-----------------------------------------------------------------------------
(* Steps of the workers.                                                     *)

\* A worker that goes on, or gives up, with the command it holds.
LEMMA SenderGoesOn ==
  ASSUME IInv, TypeOK', NEW w \in SendWorker, sender[w] # Idle,
         NEW next \in Working \cup {Idle},
         next # Idle => next.command = sender[w].command,
         next # Idle /\ next.result.kind = "ok" =>
           next.result.id \in 1..Len(posts'[commands[sender[w].command].question]),
         sender' = [sender EXCEPT ![w] = next],
         \A q \in Question : Len(posts[q]) <= Len(posts'[q]),
         UNCHANGED <<commands, editor>>
  PROVE  WorkersInv'
<1>1. /\ sender'[w] = next
      /\ \A v \in SendWorker \ {w} : sender'[v] = sender[v]
      /\ \A v \in SendWorker : sender'[v] # Idle =>
           sender[v] # Idle /\ sender'[v].command = sender[v].command
  BY DEF IInv, TypeOK
<1>2. ExclusiveClaims' /\ WorkersHoldPending'
  BY <1>1 DEF IInv, ExclusiveClaims, WorkersHoldPending, IsSend, IsEdit, Present
<1>3. AcceptedIsPosted'
  <2>1. ASSUME NEW v \in SendWorker, sender'[v] # Idle, sender'[v].result.kind = "ok"
        PROVE  sender'[v].result.id
                 \in 1..Len(posts'[commands'[sender'[v].command].question])
    <3>1. CASE v = w
      BY <1>1, <2>1, <3>1
    <3>2. CASE v # w
      <4>1. commands[sender[v].command].question \in Question
        BY <1>1, <2>1, <3>2, SenderCommandType DEF IInv, WorkersHoldPending
      <4>2. /\ Len(posts[commands[sender[v].command].question]) \in Nat
            /\ Len(posts'[commands[sender[v].command].question]) \in Nat
            /\ Len(posts'[commands[sender[v].command].question])
                 >= Len(posts[commands[sender[v].command].question])
        BY <4>1 DEF IInv, TypeOK
      <4>3. sender[v].result.id \in 1..Len(posts[commands[sender[v].command].question])
        BY <1>1, <2>1, <3>2 DEF IInv, AcceptedIsPosted
      <4>. QED
        BY <1>1, <2>1, <3>2, <4>2, <4>3
    <3>. QED
      BY <3>1, <3>2
  <2>. QED
    BY <2>1 DEF AcceptedIsPosted
<1>. QED
  BY <1>2, <1>3 DEF WorkersInv

LEMMA ClaimSendInv ==
  ASSUME IInv, TypeOK', NEW w \in SendWorker, NEW c \in CommandId, ClaimSend(w, c)
  PROVE  IInv'
<1>1. /\ sender[w] = Idle /\ IsSend(c) /\ commands[c].status = "pending" /\ ~SendLocked(c)
      /\ sender' = [sender EXCEPT ![w] = Claim(c)]
      /\ UNCHANGED <<status, versions, commands, editor, posts, chatRemoved, promptCheck>>
  BY DEF ClaimSend, chats
<1>2. /\ sender'[w] = Claim(c)
      /\ \A v \in SendWorker \ {w} : sender'[v] = sender[v]
  BY <1>1 DEF IInv, TypeOK
<1>3. Claim(c).command = c /\ Claim(c).result.kind = "none"
  BY DEF Claim, NoResult
<1>4. ExclusiveClaims'
  BY <1>1, <1>2, <1>3 DEF IInv, ExclusiveClaims, SendLocked
<1>5. WorkersHoldPending'
  BY <1>1, <1>2, <1>3 DEF IInv, WorkersHoldPending, IsSend, IsEdit, Present
<1>6. AcceptedIsPosted'
  BY <1>1, <1>2, <1>3 DEF IInv, AcceptedIsPosted
<1>7. RowsInv'
  BY <1>1, RowsUnchanged
<1>. QED
  BY <1>4, <1>5, <1>6, <1>7 DEF IInv, RowsInv

LEMMA SenderQuietInv ==
  ASSUME IInv, TypeOK', NEW w \in SendWorker,
         ValidateSend(w) \/ SendRejected(w) \/ AbortSend(w)
  PROVE  IInv'
<1>1. UNCHANGED <<status, versions, commands, editor, posts, chatRemoved, promptCheck>>
  BY DEF ValidateSend, SendRejected, AbortSend, chats
<1>2. sender[w] # Idle /\ sender[w] \in Working
  BY BusySender DEF IInv, ValidateSend, SendRejected, AbortSend, SenderAt
<1>3. PICK next \in Working \cup {Idle} :
        /\ sender' = [sender EXCEPT ![w] = next]
        /\ next # Idle => next.command = sender[w].command
        /\ next # Idle => next.result = sender[w].result \/ next.result.kind # "ok"
  <2>1. CASE AbortSend(w)
    BY <2>1 DEF AbortSend
  <2>2. CASE sender' = [sender EXCEPT ![w].step = "validated"]
    <3>1. PICK next : next = [sender[w] EXCEPT !.step = "validated"]
      OBVIOUS
    <3>2. next \in Working
      BY <1>2, <3>1 DEF Working
    <3>3. next.command = sender[w].command /\ next.result = sender[w].result
      BY <1>2, <3>1 DEF Working
    <3>4. sender' = [sender EXCEPT ![w] = next]
      BY <2>2, <3>1
    <3>. QED
      BY <3>2, <3>3, <3>4
  <2>3. ASSUME NEW failure \in ValidationFailures \cup SendRejections \cup {Unclear},
               AnswerSender(w, failure)
        PROVE  \E next \in Working \cup {Idle} :
                 /\ sender' = [sender EXCEPT ![w] = next]
                 /\ next # Idle => next.command = sender[w].command
                 /\ next # Idle => next.result = sender[w].result \/ next.result.kind # "ok"
    <3> DEFINE answer == [sender[w] EXCEPT !.step = "answered", !.result = failure]
    <3>1. failure \in Result /\ failure.kind # "ok"
      BY DEF ValidationFailures, SendRejections, Unclear, Failure, Result, FailureKind, ErrorCode
    <3>2. answer \in Working /\ answer.command = sender[w].command /\ answer.result = failure
      BY <1>2, <3>1, AnswerType DEF Working
    <3>3. sender' = [sender EXCEPT ![w] = answer]
      BY <2>3 DEF AnswerSender
    <3>. QED
      BY <3>1, <3>2, <3>3
  <2>. QED
    BY <2>1, <2>2, <2>3 DEF ValidateSend, SendRejected
<1>4. next # Idle /\ next.result.kind = "ok" =>
        next.result.id \in 1..Len(posts'[commands[sender[w].command].question])
  BY <1>1, <1>2, <1>3 DEF IInv, AcceptedIsPosted
<1>5. \A q \in Question : Len(posts[q]) <= Len(posts'[q])
  BY <1>1 DEF IInv, TypeOK
<1>6. WorkersInv'
  BY <1>1, <1>2, <1>3, <1>4, <1>5, SenderGoesOn
<1>7. RowsInv'
  BY <1>1, RowsUnchanged
<1>. QED
  BY <1>6, <1>7 DEF IInv, RowsInv, WorkersInv

\* While a worker sends, its question waits: no other send, and no edit.
LEMMA SendingFacts ==
  ASSUME IInv, NEW w \in SendWorker, sender[w] # Idle
  PROVE  LET c == sender[w].command
             q == commands[c].question
         IN /\ c \in CommandId /\ IsSend(c) /\ Present(c) /\ commands[c] \in Command
            /\ commands[c].status = "pending" /\ commands[c].kind = "send_reply"
            /\ q \in Question /\ status[q] = "send_requested"
            /\ \A d \in CommandId : IsSend(d) /\ commands[d].question = q => d = c
            /\ \A d \in CommandId : IsEdit(d) => d # c /\ commands[d].question # q
<1> DEFINE c == sender[w].command
           q == commands[c].question
<1>1. c \in CommandId /\ IsSend(c) /\ commands[c].status = "pending"
  BY BusySender DEF IInv, WorkersHoldPending
<1>2. Present(c) /\ commands[c] \in Command /\ commands[c].kind = "send_reply"
  BY <1>1, PresentIsCommand DEF IInv, IsSend
<1>3. q \in Question /\ status[q] = "send_requested"
  BY <1>1, SendFacts
<1>4. \A d \in CommandId : IsSend(d) /\ commands[d].question = q => d = c
  BY <1>1 DEF IInv, QuestionMatchesSend
<1>5. \A d \in CommandId : IsEdit(d) => d # c /\ commands[d].question # q
  BY <1>1, <1>3 DEF IInv, EditTargetValid, IsEdit, IsSend
<1>. QED
  BY <1>1, <1>2, <1>3, <1>4, <1>5

LEMMA SendAcceptedInv ==
  ASSUME IInv, TypeOK', NEW w \in SendWorker, SendAccepted(w)
  PROVE  IInv'
<1> DEFINE c == sender[w].command
           q == commands[c].question
<1>1. /\ sender[w] # Idle /\ sender[w] \in Working
      /\ posts' = [posts EXCEPT ![q] = Append(@, commands[c].text)]
      /\ \/ AnswerSender(w, Accepted(Len(posts[q]) + 1))
         \/ AnswerSender(w, Unclear)
      /\ UNCHANGED <<status, versions, commands, editor, chatRemoved, promptCheck>>
  BY BusySender DEF IInv, SendAccepted, SenderAt, Post, chats
<1>2. /\ c \in CommandId /\ Present(c) /\ q \in Question
      /\ status[q] = "send_requested" /\ commands[c].text \in Text
  BY <1>1, SendingFacts DEF Command
<1>3. posts \in [Question -> Seq(Text)]
  BY DEF IInv, TypeOK
<1>4. /\ Len(posts'[q]) = Len(posts[q]) + 1 /\ Len(posts[q]) \in Nat
      /\ posts'[q][Len(posts[q]) + 1] = commands[c].text
      /\ \A r \in Question : \A i \in 1..Len(posts[r]) :
           i \in 1..Len(posts'[r]) /\ posts'[r][i] = posts[r][i]
      /\ \A r \in Question : Len(posts[r]) <= Len(posts'[r])
      /\ \A r \in Question \ {q} : posts'[r] = posts[r]
  <2>1. PICK v \in Text : v = commands[c].text
    BY <1>2
  <2>2. posts' = [posts EXCEPT ![q] = Append(posts[q], v)]
    BY <1>1, <2>1
  <2>3. /\ \A r \in Question : Len(posts[r]) \in Nat /\ Len(posts[r]) <= Len(posts'[r])
        /\ \A r \in Question \ {q} : posts'[r] = posts[r]
        /\ \A r \in Question : \A i \in 1..Len(posts[r]) :
             i \in 1..Len(posts'[r]) /\ posts'[r][i] = posts[r][i]
        /\ Len(posts'[q]) = Len(posts[q]) + 1
        /\ posts'[q][Len(posts[q]) + 1] = v
    <3>1. q \in Question
      BY <1>2
    <3>. HIDE DEF q
    <3>. QED
      BY ONLY <1>3, <2>2, <3>1, AppendAt
  <2>. QED
    BY <1>2, <2>1, <2>3
<1>5. \A r \in Question :
        /\ r # q => posts'[r] = posts[r]
        /\ Len(posts[r]) <= Len(posts'[r])
  BY <1>4
<1>6. \E next \in Working :
        /\ sender' = [sender EXCEPT ![w] = next] /\ next.command = c
        /\ next.result.kind = "ok" => next.result.id \in 1..Len(posts'[q])
  <2>1. CASE AnswerSender(w, Accepted(Len(posts[q]) + 1))
    <3> DEFINE next == [sender[w] EXCEPT !.step = "answered",
                                         !.result = Accepted(Len(posts[q]) + 1)]
    <3>1. Accepted(Len(posts[q]) + 1) \in Result /\ Accepted(Len(posts[q]) + 1).id = Len(posts[q]) + 1
      BY <1>4 DEF Accepted, Result, ErrorCode
    <3>2. next \in Working /\ next.command = c /\ next.result = Accepted(Len(posts[q]) + 1)
      BY <1>1, <3>1, AnswerType DEF Working
    <3>3. sender' = [sender EXCEPT ![w] = next]
      BY <2>1 DEF AnswerSender
    <3>4. next.result.id \in 1..Len(posts'[q])
      <4>1. Len(posts[q]) + 1 \in 1..Len(posts'[q])
        BY <1>4
      <4>2. next.result.id = Len(posts[q]) + 1
        BY <3>1, <3>2
      <4>. QED
        BY <4>1, <4>2
    <3>. HIDE DEF next
    <3>. QED
      BY <3>2, <3>3, <3>4
  <2>2. CASE AnswerSender(w, Unclear)
    <3> DEFINE next == [sender[w] EXCEPT !.step = "answered", !.result = Unclear]
    <3>1. Unclear \in Result /\ Unclear.kind # "ok"
      BY DEF Unclear, Failure, Result, FailureKind, ErrorCode
    <3>2. next \in Working /\ next.command = c /\ next.result = Unclear
      BY <1>1, <3>1, AnswerType DEF Working
    <3>3. sender' = [sender EXCEPT ![w] = next]
      BY <2>2 DEF AnswerSender
    <3>. QED
      BY <3>1, <3>2, <3>3
  <2>. QED
    BY <1>1, <2>1, <2>2
<1>7. WorkersInv'
  BY <1>1, <1>5, <1>6, SenderGoesOn
<1>8. QuestionMatchesSend'
  <2>1. \A r \in Question : status[r] = "sent" => Len(posts'[r]) = Len(posts[r])
    BY <1>2, <1>5
  <2>2. \A d \in CommandId : IsSend(d) => commands[d].question \in Question
    BY SendFacts
  <2>3. QuestionMatchesSend /\ UNCHANGED <<status, commands>>
    BY <1>1 DEF IInv
  <2>. QED
    BY <2>1, <2>2, <2>3, SendRowsKept
<1>9. PublishedWasPreviewed'
  <2>1. ASSUME NEW r \in Question, status[r] # "deleted", NEW i \in 1..Len(posts'[r])
        PROVE  \E d \in CommandId :
                 Present(d) /\ commands[d].question = r /\ commands[d].text = posts'[r][i]
    <3>1. CASE r = q /\ i = Len(posts[q]) + 1
      <4>1. posts'[r][i] = commands[c].text
        BY <1>4, <3>1
      <4>. QED
        BY <1>2, <3>1, <4>1
    <3>2. CASE r # q \/ i # Len(posts[q]) + 1
      <4>1. i \in 1..Len(posts[r]) /\ posts'[r][i] = posts[r][i]
        <5>1. CASE r # q
          BY <1>5, <2>1, <5>1
        <5>2. CASE r = q
          <6>1. i \in 1..(Len(posts[q]) + 1) /\ i # Len(posts[q]) + 1
            BY <1>4, <2>1, <3>2, <5>2
          <6>2. i \in 1..Len(posts[q])
            BY <1>4, <6>1
          <6>. QED
            BY <1>2, <1>4, <5>2, <6>2
        <5>. QED
          BY <5>1, <5>2
      <4>. QED
        BY <2>1, <4>1 DEF IInv, PublishedWasPreviewed
    <3>. QED
      BY <3>1, <3>2
  <2>2. PublishedWasPreviewed /\ UNCHANGED <<status, versions, commands>>
    BY <1>1 DEF IInv
  <2>. QED
    BY <2>1, <2>2, PostsPreviewed
<1>10. /\ OneCommandPerPreview' /\ EditTargetValid' /\ RetriesBounded'
       /\ AccessLossRequestsCheck' /\ EditFollowsPreview'
  BY <1>1, OtherRowsKept
<1>. QED
  BY <1>7, <1>8, <1>9, <1>10 DEF IInv, WorkersInv

\* What the commit of any outcome of a send leaves to prove.
LEMMA SendCommitInv ==
  ASSUME IInv, TypeOK', NEW w \in SendWorker, sender[w] # Idle,
         NEW row \in Command,
         LET c == sender[w].command
             q == commands[c].question
         IN /\ commands' = [commands EXCEPT ![c] = row]
            /\ row.question = q /\ row.kind = "send_reply"
            /\ row.version = commands[c].version /\ row.text = commands[c].text
            /\ status' = [status EXCEPT ![q] = status'[q]]
            /\ status'[q] \in DOMAIN SendStatusFor
            /\ row.status \in SendStatusFor[status'[q]]
            /\ status'[q] = "sent" => row.sentId \in 1..Len(posts[q])
            /\ row.status = "pending" /\ row.error = "UNKNOWN_ERROR" => row.attempts <= MaxRetries
            /\ row.status = "failed" /\ row.error = "ACCESS_LOST"
                 => q \in promptCheck' \cup PausedQuestion \cup chatRemoved,
         promptCheck \subseteq promptCheck',
         sender' = [sender EXCEPT ![w] = Idle],
         UNCHANGED <<versions, editor, posts, chatRemoved>>
  PROVE  IInv'
<1> DEFINE c == sender[w].command
           q == commands[c].question
<1>1. /\ c \in CommandId /\ IsSend(c) /\ Present(c) /\ commands[c] \in Command
      /\ commands[c].kind = "send_reply" /\ q \in Question /\ status[q] = "send_requested"
      /\ \A d \in CommandId : IsSend(d) /\ commands[d].question = q => d = c
      /\ \A d \in CommandId : IsEdit(d) => d # c /\ commands[d].question # q
  BY SendingFacts
<1>2. /\ commands'[c] = row
      /\ \A d \in CommandId \ {c} : commands'[d] = commands[d]
      /\ \A d \in CommandId : Present(d)' <=> Present(d)
      /\ \A d \in CommandId : IsSend(d)' <=> IsSend(d)
      /\ \A d \in CommandId : IsEdit(d)' <=> IsEdit(d)
      /\ \A d \in CommandId : Present(d) =>
           /\ commands'[d].question = commands[d].question
           /\ commands'[d].version = commands[d].version
           /\ commands'[d].text = commands[d].text
      /\ \A r \in Question : SendCommandsOf(r)' = SendCommandsOf(r)
  BY <1>1, OutcomeRow
<1>3. \A r \in Question : r # q => status'[r] = status[r]
  BY DEF IInv, TypeOK
<1>4. \A d \in CommandId : Present(d) => commands[d].question \in Question
  BY PresentIsCommand DEF IInv, Command
<1>5. QuestionMatchesSend'
  <2>1. ASSUME NEW d \in CommandId, IsSend(d)'
        PROVE  LET r == commands'[d].question IN
                 /\ status'[r] \in DOMAIN SendStatusFor
                 /\ commands'[d].status \in SendStatusFor[status'[r]]
                 /\ status'[r] = "sent" => commands'[d].sentId \in 1..Len(posts'[r])
    <3>1. CASE d = c
      BY <1>1, <1>2, <3>1
    <3>2. CASE d # c
      <4>1. IsSend(d) /\ commands'[d] = commands[d] /\ commands[d].question \in Question \ {q}
        BY <1>1, <1>2, <1>4, <2>1, <3>2 DEF IsSend
      <4>2. LET r == commands[d].question IN
              /\ status[r] \in DOMAIN SendStatusFor
              /\ commands[d].status \in SendStatusFor[status[r]]
              /\ status[r] = "sent" => commands[d].sentId \in 1..Len(posts[r])
        BY <4>1 DEF IInv, QuestionMatchesSend
      <4>. QED
        BY <1>3, <4>1, <4>2
    <3>. QED
      BY <3>1, <3>2
  <2>2. ASSUME NEW r \in Question, status'[r] \in DOMAIN SendStatusFor
        PROVE  SendCommandsOf(r)' # {}
    <3>1. CASE r = q
      BY <1>1, <1>2, <3>1, SendCommandNext
    <3>2. CASE r # q
      <4>1. SendCommandsOf(r)' = SendCommandsOf(r) /\ status'[r] = status[r]
        BY <1>2, <1>3, <3>2
      <4>2. status[r] \in DOMAIN SendStatusFor => SendCommandsOf(r) # {}
        BY DEF IInv, QuestionMatchesSend
      <4>. QED
        BY ONLY <2>2, <4>1, <4>2
    <3>. QED
      BY <3>1, <3>2
  <2>3. \A d, e \in CommandId :
          IsSend(d)' /\ IsSend(e)' /\ commands'[d].question = commands'[e].question => d = e
    <3>1. \A d, e \in CommandId :
            IsSend(d) /\ IsSend(e) /\ commands[d].question = commands[e].question => d = e
      BY DEF IInv, QuestionMatchesSend
    <3>2. \A d \in CommandId :
            IsSend(d)' => IsSend(d) /\ commands'[d].question = commands[d].question
      BY <1>2 DEF IsSend
    <3>. QED
      BY ONLY <3>1, <3>2
  <2>. QED
    BY ONLY <2>1, <2>2, <2>3 DEF QuestionMatchesSend
<1>6. PublishedWasPreviewed'
  <2>1. \A r \in Question : status'[r] # "deleted" => status[r] # "deleted"
    BY <1>1, <1>3
  <2>2. ASSUME NEW r \in Question, status'[r] # "deleted", NEW i \in 1..Len(posts'[r])
        PROVE  \E d \in CommandId :
                 Present(d)' /\ commands'[d].question = r /\ commands'[d].text = posts'[r][i]
    <3>1. PICK d \in CommandId :
            Present(d) /\ commands[d].question = r /\ commands[d].text = posts[r][i]
      BY <2>1, <2>2 DEF IInv, PublishedWasPreviewed
    <3>2. Present(d)' /\ commands'[d].question = r /\ commands'[d].text = posts'[r][i]
      BY <1>2, <3>1
    <3>. QED
      BY <3>2
  <2>3. \A r \in Question : \A i \in 1..Len(versions'[r]) : versions'[r][i].action # "draft" =>
          i > 1 /\ versions'[r][i - 1] = [text |-> versions'[r][i].text, action |-> "draft"]
    BY DEF IInv, PublishedWasPreviewed
  <2>. QED
    BY <2>2, <2>3 DEF PublishedWasPreviewed
<1>7. OneCommandPerPreview' /\ EditFollowsPreview'
  <2>1. ASSUME NEW d \in CommandId, IsEdit(d)'
        PROVE  /\ IsEdit(d) /\ commands[d].question \in Question
               /\ commands'[d].question = commands[d].question
               /\ commands'[d].version = commands[d].version
               /\ commands'[d].text = commands[d].text
    <3>1. IsEdit(d) /\ Present(d)
      BY <1>2, <2>1 DEF IsEdit
    <3>. QED
      BY <1>2, <1>4, <3>1
  <2>2. OneCommandPerPreview /\ EditFollowsPreview /\ versions' = versions
    BY DEF IInv
  <2>. QED
    BY <2>1, <2>2, EditRowsKept
<1>8. EditTargetValid'
  <2>1. ASSUME NEW d \in CommandId, IsEdit(d)'
        PROVE  \E e \in CommandId : SendBehind(d, e)'
    <3>1. IsEdit(d) /\ commands'[d] = commands[d] /\ commands[d].question \in Question \ {q}
      BY <1>1, <1>2, <1>4, <2>1 DEF IsEdit
    <3>2. PICK e \in CommandId : SendBehind(d, e)
      BY <3>1, EditTargets DEF IInv
    <3>3. e # c /\ commands'[e] = commands[e] /\ IsSend(e)'
      BY <1>1, <1>2, <3>1, <3>2 DEF SendBehind
    <3>4. SendBehind(d, e)'
      BY <1>3, <3>1, <3>2, <3>3 DEF SendBehind
    <3>. QED
      BY <3>4
  <2>. QED
    BY <2>1, EditTargetsNext
<1>9. RetriesBounded' /\ AccessLossRequestsCheck'
  <2>1. \A d \in CommandId : d # c /\ IsSend(d)' => IsSend(d) /\ commands'[d] = commands[d]
    BY <1>2
  <2>2. RetriesBounded'
    <3>1. RetriesBounded
      BY DEF IInv
    <3>. QED
      BY <1>2, <2>1, <3>1 DEF RetriesBounded
  <2>3. AccessLossRequestsCheck'
    BY <1>2, <2>1 DEF IInv, AccessLossRequestsCheck
  <2>. QED
    BY <2>2, <2>3
<1>10. ExclusiveClaims'
  BY DEF IInv, ExclusiveClaims, TypeOK
<1>11. WorkersHoldPending' /\ AcceptedIsPosted'
  <2>1. \A v \in SendWorker : sender'[v] # Idle =>
          /\ sender'[v] = sender[v] /\ sender[v] # Idle
          /\ sender[v].command \in CommandId \ {c}
    BY BusySender DEF IInv, ExclusiveClaims, TypeOK
  <2>2. \A v \in EditWorker : editor[v] # Idle => editor[v].command \in CommandId \ {c}
    BY <1>1, BusyEditor DEF IInv, WorkersHoldPending
  <2>3. ASSUME NEW v \in SendWorker, sender'[v] # Idle
        PROVE  /\ IsSend(sender[v].command)'
               /\ commands'[sender'[v].command].status = "pending"
               /\ sender'[v].result.kind = "ok" => sender'[v].result.id
                    \in 1..Len(posts'[commands'[sender'[v].command].question])
    <3>1. PICK d \in CommandId \ {c} : d = sender[v].command
      BY <2>1, <2>3
    <3>2. IsSend(d)' /\ commands'[d] = commands[d] /\ commands[d].status = "pending"
      BY <1>2, <2>1, <2>3, <3>1 DEF IInv, WorkersHoldPending
    <3>3. sender[v].result.kind = "ok" =>
            sender[v].result.id \in 1..Len(posts[commands[d].question])
      BY <2>1, <2>3, <3>1 DEF IInv, AcceptedIsPosted
    <3>. QED
      BY <2>1, <2>3, <3>1, <3>2, <3>3
  <2>4. ASSUME NEW v \in EditWorker, editor'[v] # Idle
        PROVE  IsEdit(editor[v].command)' /\ commands'[editor'[v].command].status = "pending"
    <3>1. PICK d \in CommandId \ {c} : d = editor[v].command
      BY <2>2, <2>4
    <3>2. IsEdit(d) /\ commands[d].status = "pending"
      BY <2>4, <3>1 DEF IInv, WorkersHoldPending
    <3>. QED
      BY <1>2, <3>1, <3>2
  <2>. QED
    BY <2>3, <2>4 DEF WorkersHoldPending, AcceptedIsPosted
<1>. QED
  BY <1>5, <1>6, <1>7, <1>8, <1>9, <1>10, <1>11 DEF IInv

LEMMA CompleteSendInv ==
  ASSUME IInv, TypeOK', NEW w \in SendWorker, CompleteSend(w)
  PROVE  IInv'
<1> DEFINE c == sender[w].command
           q == commands[c].question
           row == [commands[c] EXCEPT !.status = "succeeded",
                                      !.sentId = sender[w].result.id,
                                      !.attempts = Counted(c)]
<1>1. /\ sender[w] # Idle /\ sender[w].result \in Result /\ sender[w].result.kind = "ok"
      /\ commands' = [commands EXCEPT ![c] = row]
      /\ status' = [status EXCEPT ![q] = "sent"]
      /\ sender' = [sender EXCEPT ![w] = Idle]
      /\ UNCHANGED <<versions, editor, posts, chatRemoved, promptCheck>>
  BY BusySender DEF IInv, CompleteSend, SenderAt, chats
<1>2. c \in CommandId /\ commands[c] \in Command /\ q \in Question /\ Present(c)
      /\ commands[c].kind = "send_reply"
  BY <1>1, SendingFacts
<1>3. Counted(c) \in 0..AttemptCap /\ sender[w].result.id \in Nat
  BY <1>1, <1>2, CountedType DEF IInv, Result
<1>4. /\ row \in Command /\ row.question = q /\ row.kind = "send_reply"
      /\ row.version = commands[c].version /\ row.text = commands[c].text
      /\ row.status = "succeeded" /\ row.sentId = sender[w].result.id
  BY <1>2, <1>3 DEF Command, CommandStatus
<1>5. status'[q] = "sent" /\ status' = [status EXCEPT ![q] = status'[q]]
  BY <1>1, <1>2 DEF IInv, TypeOK
<1>6. sender[w].result.id \in 1..Len(posts[q])
  BY <1>1 DEF IInv, AcceptedIsPosted
<1>. HIDE DEF row
<1>. QED
  BY <1>1, <1>4, <1>5, <1>6, SendStatuses, SendCommitInv

LEMMA RetrySendInv ==
  ASSUME IInv, TypeOK', NEW w \in SendWorker, RetrySend(w)
  PROVE  IInv'
<1> DEFINE c == sender[w].command
           q == commands[c].question
           row == [commands[c] EXCEPT !.error = sender[w].result.error,
                                      !.attempts = Counted(c)]
<1>1. /\ sender[w] # Idle /\ sender[w].result \in Result
      /\ RetryableSend(c, sender[w].result)
      /\ commands' = [commands EXCEPT ![c] = row]
      /\ sender' = [sender EXCEPT ![w] = Idle]
      /\ UNCHANGED <<status, versions, editor, posts, chatRemoved, promptCheck>>
  BY BusySender DEF IInv, RetrySend, SenderAt, chats
<1>2. /\ c \in CommandId /\ commands[c] \in Command /\ q \in Question /\ Present(c)
      /\ commands[c].kind = "send_reply" /\ commands[c].status = "pending"
      /\ status[q] = "send_requested"
  BY <1>1, SendingFacts
<1>3. Counted(c) \in 0..AttemptCap /\ sender[w].result.error \in ErrorCode
  BY <1>1, <1>2, CountedType DEF IInv, Result
<1>4. /\ row \in Command /\ row.question = q /\ row.kind = "send_reply"
      /\ row.version = commands[c].version /\ row.text = commands[c].text
      /\ row.status = "pending" /\ row.error = sender[w].result.error
      /\ row.attempts = Counted(c)
  BY <1>2, <1>3 DEF Command
<1>5. row.error = "UNKNOWN_ERROR" => row.attempts <= MaxRetries
  BY <1>1, <1>4 DEF RetryableSend
<1>6. status' = [status EXCEPT ![q] = status'[q]]
  BY <1>1, <1>2 DEF IInv, TypeOK
<1>. HIDE DEF row
<1>. QED
  BY <1>1, <1>2, <1>4, <1>5, <1>6, SendStatuses, SendCommitInv

LEMMA FailSendInv ==
  ASSUME IInv, TypeOK', NEW w \in SendWorker, FailSend(w)
  PROVE  IInv'
<1> DEFINE c == sender[w].command
           q == commands[c].question
           outcome == IF sender[w].result.kind = "permanent" THEN "failed" ELSE "needs_review"
           row == [commands[c] EXCEPT !.status = outcome,
                                      !.error = sender[w].result.error,
                                      !.attempts = Counted(c)]
<1>1. /\ sender[w] # Idle /\ sender[w].result \in Result
      /\ commands' = [commands EXCEPT ![c] = row]
      /\ status' = [status EXCEPT ![q] = "send_failed"]
      /\ RequestChatVerification(q, sender[w].result.error)
      /\ sender' = [sender EXCEPT ![w] = Idle]
      /\ UNCHANGED <<versions, editor, posts>>
  BY BusySender DEF IInv, FailSend, SenderAt
<1>2. c \in CommandId /\ commands[c] \in Command /\ q \in Question /\ Present(c)
      /\ commands[c].kind = "send_reply"
  BY <1>1, SendingFacts
<1>3. /\ Counted(c) \in 0..AttemptCap /\ sender[w].result.error \in ErrorCode
      /\ outcome \in {"failed", "needs_review"}
  BY <1>1, <1>2, CountedType DEF IInv, Result
<1>4. /\ row \in Command /\ row.question = q /\ row.kind = "send_reply"
      /\ row.version = commands[c].version /\ row.text = commands[c].text
      /\ row.status \in {"failed", "needs_review"} /\ row.error = sender[w].result.error
  BY <1>2, <1>3 DEF Command, CommandStatus
<1>5. status'[q] = "send_failed" /\ status' = [status EXCEPT ![q] = status'[q]]
  BY <1>1, <1>2 DEF IInv, TypeOK
<1>6. /\ chatRemoved' = chatRemoved /\ promptCheck \subseteq promptCheck'
      /\ row.error = "ACCESS_LOST" => q \in promptCheck' \cup PausedQuestion \cup chatRemoved
  BY <1>1, <1>4 DEF RequestChatVerification
<1>. HIDE DEF row
<1>. QED
  BY <1>1, <1>4, <1>5, <1>6, SendStatuses, SendCommitInv

LEMMA ClaimEditInv ==
  ASSUME IInv, TypeOK', NEW w \in EditWorker, NEW c \in CommandId, ClaimEdit(w, c)
  PROVE  IInv'
<1>1. /\ editor[w] = Idle /\ IsEdit(c) /\ commands[c].status = "pending" /\ ~EditLocked(c)
      /\ editor' = [editor EXCEPT ![w] = Claim(c)]
      /\ UNCHANGED <<status, versions, commands, sender, posts, chatRemoved, promptCheck>>
  BY DEF ClaimEdit, chats
<1>2. /\ editor'[w] = Claim(c)
      /\ \A v \in EditWorker \ {w} : editor'[v] = editor[v]
  BY <1>1 DEF IInv, TypeOK
<1>3. Claim(c).command = c
  BY DEF Claim
<1>4. ExclusiveClaims'
  BY <1>1, <1>2, <1>3 DEF IInv, ExclusiveClaims, EditLocked
<1>5. WorkersHoldPending' /\ AcceptedIsPosted'
  BY <1>1, <1>2, <1>3 DEF IInv, WorkersHoldPending, AcceptedIsPosted, IsSend, IsEdit, Present
<1>6. RowsInv'
  BY <1>1, RowsUnchanged
<1>. QED
  BY <1>4, <1>5, <1>6 DEF IInv, RowsInv

\* An editor that goes on, or gives up, with the command it holds.
LEMMA EditorGoesOn ==
  ASSUME IInv, NEW w \in EditWorker, editor[w] # Idle,
         NEW next,
         next # Idle => next.command = editor[w].command,
         editor' = [editor EXCEPT ![w] = next],
         UNCHANGED <<commands, sender>>,
         \A q \in Question : Len(posts'[q]) = Len(posts[q])
  PROVE  WorkersInv'
<1>1. \A v \in EditWorker : editor'[v] # Idle =>
        editor[v] # Idle /\ editor'[v].command = editor[v].command
  BY DEF IInv, TypeOK
<1>2. ExclusiveClaims' /\ WorkersHoldPending'
  BY <1>1 DEF IInv, ExclusiveClaims, WorkersHoldPending, IsSend, IsEdit, Present
<1>3. AcceptedIsPosted'
  <2>1. \A v \in SendWorker : sender[v] # Idle => commands[sender[v].command].question \in Question
    BY SendingFacts
  <2>. QED
    BY <2>1 DEF IInv, AcceptedIsPosted
<1>. QED
  BY <1>2, <1>3 DEF WorkersInv

LEMMA EditorQuietInv ==
  ASSUME IInv, TypeOK', NEW w \in EditWorker, EditRejected(w) \/ AbortEdit(w)
  PROVE  IInv'
<1>1. UNCHANGED <<status, versions, commands, sender, posts, chatRemoved, promptCheck>>
  BY DEF EditRejected, AbortEdit, chats
<1>2. editor[w] # Idle /\ editor[w] \in Working
  BY BusyEditor DEF IInv, EditRejected, AbortEdit, EditorAt
<1>3. \E next : /\ editor' = [editor EXCEPT ![w] = next]
                /\ next # Idle => next.command = editor[w].command
  <2>1. CASE AbortEdit(w)
    BY <2>1 DEF AbortEdit
  <2>2. ASSUME NEW failure, AnswerEditor(w, failure)
        PROVE  \E next : /\ editor' = [editor EXCEPT ![w] = next]
                         /\ next # Idle => next.command = editor[w].command
    <3> DEFINE answer == [editor[w] EXCEPT !.step = "answered", !.result = failure]
    <3>1. answer.command = editor[w].command /\ editor' = [editor EXCEPT ![w] = answer]
      BY <1>2, <2>2 DEF AnswerEditor, Working
    <3>. HIDE DEF answer
    <3>. QED
      BY <3>1
  <2>. QED
    BY <2>1, <2>2 DEF EditRejected
<1>4. WorkersInv'
  BY <1>1, <1>2, <1>3, EditorGoesOn
<1>5. RowsInv'
  BY <1>1, RowsUnchanged
<1>. QED
  BY <1>4, <1>5 DEF IInv, RowsInv, WorkersInv

LEMMA EditingFacts ==
  ASSUME IInv, NEW w \in EditWorker, editor[w] # Idle
  PROVE  LET c == editor[w].command
             q == commands[c].question
         IN /\ c \in CommandId /\ IsEdit(c) /\ ~IsSend(c) /\ Present(c)
            /\ commands[c] \in Command /\ commands[c].status = "pending"
            /\ commands[c].kind = "edit_reply"
            /\ q \in Question /\ status[q] = "sent"
BY BusyEditor, PresentIsCommand
   DEF IInv, WorkersHoldPending, EditTargetValid, IsEdit, IsSend, Command

LEMMA ApplyEditInv ==
  ASSUME IInv, TypeOK', NEW w \in EditWorker, ApplyEdit(w)
  PROVE  IInv'
<1> DEFINE c == editor[w].command
           q == commands[c].question
           shown == [posts[q] EXCEPT ![commands[c].sentId] = commands[c].text]
<1>1. /\ editor[w] # Idle /\ editor[w] \in Working
      /\ posts' = [posts EXCEPT ![q] = shown]
      /\ UNCHANGED <<status, versions, commands, sender, chatRemoved, promptCheck>>
  BY BusyEditor DEF IInv, ApplyEdit, EditorAt, chats
<1>2. /\ c \in CommandId /\ Present(c) /\ commands[c] \in Command /\ q \in Question
      /\ commands[c].text \in Text /\ commands[c].sentId \in Nat
  BY <1>1, EditingFacts DEF Command
<1>3. posts \in [Question -> Seq(Text)]
  BY DEF IInv, TypeOK
<1>4. /\ Len(shown) = Len(posts[q])
      /\ \A i \in 1..Len(posts[q]) : shown[i] = posts[q][i] \/ shown[i] = commands[c].text
  BY <1>2, <1>3, SequenceUpdateType
<1>5. \A r \in Question : /\ Len(posts'[r]) = Len(posts[r])
                          /\ r # q => posts'[r] = posts[r]
                          /\ r = q => posts'[r] = shown
  BY <1>1, <1>2, <1>3, <1>4
<1>6. WorkersInv'
  <2>1. PICK result : AnswerEditor(w, result)
    BY DEF ApplyEdit
  <2> DEFINE next == [editor[w] EXCEPT !.step = "answered", !.result = result]
  <2>2. next.command = c /\ editor' = [editor EXCEPT ![w] = next]
    BY <1>1, <2>1 DEF AnswerEditor, Working
  <2>. HIDE DEF next
  <2>. QED
    BY <1>1, <1>5, <2>2, EditorGoesOn
<1>7. QuestionMatchesSend'
  <2>1. \A d \in CommandId : IsSend(d) => commands[d].question \in Question
    BY SendFacts
  <2>2. QuestionMatchesSend /\ UNCHANGED <<status, commands>>
    BY <1>1 DEF IInv
  <2>. QED
    BY <1>5, <2>1, <2>2, SendRowsKept
<1>8. PublishedWasPreviewed'
  <2>1. ASSUME NEW r \in Question, status[r] # "deleted", NEW i \in 1..Len(posts[r])
        PROVE  \E d \in CommandId :
                 Present(d) /\ commands[d].question = r /\ commands[d].text = posts'[r][i]
    <3>1. CASE posts'[r][i] = posts[r][i]
      BY <2>1, <3>1 DEF IInv, PublishedWasPreviewed
    <3>2. CASE r = q /\ posts'[r][i] = commands[c].text
      BY <1>2, <3>2
    <3>. QED
      BY <1>4, <1>5, <3>1, <3>2
  <2>2. PublishedWasPreviewed /\ UNCHANGED <<status, versions, commands>>
    BY <1>1 DEF IInv
  <2>3. \A r \in Question : 1..Len(posts'[r]) = 1..Len(posts[r])
    BY <1>5
  <2>. QED
    BY <2>1, <2>2, <2>3, PostsPreviewed
<1>9. /\ OneCommandPerPreview' /\ EditTargetValid' /\ RetriesBounded'
      /\ AccessLossRequestsCheck' /\ EditFollowsPreview'
  BY <1>1, OtherRowsKept
<1>. QED
  BY <1>6, <1>7, <1>8, <1>9 DEF IInv, WorkersInv

\* The version that complete_edit inserts.
RecordsEdit(c) ==
  LET q == commands[c].question IN
    /\ commands[c].version = Len(versions[q]) + 1
    /\ versions' = [versions EXCEPT
         ![q] = Append(@, [text |-> commands[c].text, action |-> "edited"])]

\* What the commit of any outcome of an edit leaves to prove.
LEMMA EditCommitInv ==
  ASSUME IInv, TypeOK', NEW w \in EditWorker, editor[w] # Idle,
         NEW c \in CommandId, c = editor[w].command, NEW row \in Command,
         commands' = [commands EXCEPT ![c] = row],
         row.question = commands[c].question, row.kind = "edit_reply",
         row.version = commands[c].version, row.text = commands[c].text,
         row.sentId = commands[c].sentId,
         versions' = versions \/ RecordsEdit(c),
         editor' = [editor EXCEPT ![w] = Idle],
         UNCHANGED <<status, sender, posts, chatRemoved, promptCheck>>
  PROVE  IInv'
<1> DEFINE q == commands[c].question
<1>1. /\ c \in CommandId /\ IsEdit(c) /\ ~IsSend(c) /\ Present(c)
      /\ commands[c] \in Command /\ commands[c].kind = "edit_reply" /\ q \in Question
  BY EditingFacts
<1>2. /\ commands'[c] = row
      /\ \A d \in CommandId \ {c} : commands'[d] = commands[d]
      /\ \A d \in CommandId : Present(d)' <=> Present(d)
      /\ \A d \in CommandId : IsSend(d)' <=> IsSend(d)
      /\ \A d \in CommandId : IsEdit(d)' <=> IsEdit(d)
      /\ \A d \in CommandId : Present(d) =>
           /\ commands'[d].question = commands[d].question
           /\ commands'[d].version = commands[d].version
           /\ commands'[d].text = commands[d].text
      /\ \A r \in Question : SendCommandsOf(r)' = SendCommandsOf(r)
  BY <1>1, OutcomeRow
<1>3. \A d \in CommandId : IsSend(d) => d # c /\ commands'[d] = commands[d]
  BY <1>1, <1>2
<1>4. QuestionMatchesSend'
  BY <1>2, <1>3 DEF IInv, QuestionMatchesSend
<1>5. versions \in [Question -> Seq(Version)]
  BY DEF IInv, TypeOK
<1>6. \A r \in Question : \A i \in 1..Len(versions[r]) :
        i \in 1..Len(versions'[r]) /\ versions'[r][i] = versions[r][i]
  <2>1. CASE versions' = versions
    BY <2>1
  <2>2. CASE RecordsEdit(c)
    <3>1. PICK v : versions' = [versions EXCEPT ![q] = Append(versions[q], v)]
      BY <2>2 DEF RecordsEdit
    <3>2. ASSUME NEW r \in Question, NEW i \in 1..Len(versions[r])
          PROVE  i \in 1..Len(versions'[r]) /\ versions'[r][i] = versions[r][i]
      <4>1. versions[r] \in Seq(Version)
        BY <1>5
      <4>2. versions'[r] = versions[r] \/ versions'[r] = Append(versions[r], v)
        BY <1>5, <3>1
      <4>. QED
        BY <4>1, <4>2
    <3>. QED
      BY <3>2
  <2>. QED
    BY <2>1, <2>2
<1>7. /\ commands[c].version - 1 \in 1..Len(versions[q])
      /\ versions[q][commands[c].version - 1] = [text |-> commands[c].text, action |-> "draft"]
  BY <1>1 DEF IInv, EditFollowsPreview
<1>8. PublishedWasPreviewed'
  <2>1. ASSUME NEW r \in Question, NEW i \in 1..Len(versions'[r]),
               versions'[r][i].action # "draft"
        PROVE  i > 1 /\ versions'[r][i - 1] = [text |-> versions'[r][i].text, action |-> "draft"]
    <3>1. CASE i \in 1..Len(versions[r])
      <4>1. versions'[r][i] = versions[r][i]
        BY <1>6, <3>1
      <4>2. i > 1 /\ versions[r][i - 1] = [text |-> versions[r][i].text, action |-> "draft"]
        BY <2>1, <3>1, <4>1 DEF IInv, PublishedWasPreviewed
      <4>3. i - 1 \in 1..Len(versions[r])
        BY <3>1, <4>2
      <4>. QED
        BY <1>6, <4>1, <4>2, <4>3
    <3>2. CASE i \notin 1..Len(versions[r])
      <4>1. /\ r = q /\ i = Len(versions[q]) + 1 /\ commands[c].version = Len(versions[q]) + 1
            /\ versions'[q][i] = [text |-> commands[c].text, action |-> "edited"]
        <5>1. /\ commands[c].version = Len(versions[q]) + 1
              /\ versions' = [versions EXCEPT
                   ![q] = Append(versions[q], [text |-> commands[c].text, action |-> "edited"])]
          BY <2>1, <3>2 DEF RecordsEdit
        <5>2. r = q
          BY <1>1, <1>5, <2>1, <3>2, <5>1
        <5>3. PICK v : v = [text |-> commands[c].text, action |-> "edited"]
          OBVIOUS
        <5>4. /\ Len(versions[q]) \in Nat
              /\ Len(versions'[q]) = Len(versions[q]) + 1
              /\ versions'[q][Len(versions[q]) + 1] = v
          <6>1. v \in Version
            BY <1>1, <5>3 DEF Command, Version
          <6>2. q \in Question /\ versions' = [versions EXCEPT ![q] = Append(versions[q], v)]
            BY <1>1, <5>1, <5>3
          <6>. HIDE DEF q
          <6>. QED
            BY ONLY <1>5, <6>1, <6>2, AppendAt
        <5>5. i = Len(versions[q]) + 1
          <6>1. i \in 1..(Len(versions[q]) + 1) /\ i \notin 1..Len(versions[q])
            BY <2>1, <3>2, <5>2, <5>4
          <6>. HIDE DEF q
          <6>. QED
            BY ONLY <5>4, <6>1
        <5>. QED
          BY <5>1, <5>2, <5>3, <5>4, <5>5
      <4>2. Len(versions[q]) \in Nat /\ i - 1 = commands[c].version - 1
        <5>1. versions[q] \in Seq(Version)
          BY <1>1, <1>5
        <5>2. i = Len(versions[q]) + 1 /\ commands[c].version = Len(versions[q]) + 1
          BY <4>1
        <5>. HIDE DEF q
        <5>. QED
          BY ONLY <5>1, <5>2
      <4>3. versions'[q][i - 1] = versions[q][i - 1]
        BY <1>1, <1>6, <1>7, <4>2
      <4>4. i > 1
        BY <1>7, <4>2
      <4>5. versions'[r][i].text = commands[c].text
        BY <4>1
      <4>6. versions'[r][i - 1] = [text |-> commands[c].text, action |-> "draft"]
        BY <1>7, <4>1, <4>2, <4>3
      <4>. QED
        BY <4>4, <4>5, <4>6
    <3>. QED
      BY <3>1, <3>2
  <2>. QED
    BY <1>2, <2>1 DEF IInv, PublishedWasPreviewed
<1>9. OneCommandPerPreview'
  BY <1>2 DEF IInv, OneCommandPerPreview, IsEdit
<1>10. EditFollowsPreview'
  <2>1. \A d \in CommandId : IsEdit(d) => Present(d) /\ commands[d].question \in Question
    BY PresentIsCommand DEF IInv, IsEdit, Command
  <2>. QED
    BY <1>2, <1>6, <2>1 DEF IInv, EditFollowsPreview
<1>11. EditTargetValid'
  <2>1. ASSUME NEW d \in CommandId, IsEdit(d)'
        PROVE  \E e \in CommandId : SendBehind(d, e)'
    <3>1. IsEdit(d) /\ Present(d) /\ commands'[d].sentId = commands[d].sentId
      BY <1>2, <2>1 DEF IsEdit
    <3>2. PICK e \in CommandId : SendBehind(d, e)
      BY <3>1, EditTargets DEF IInv
    <3>3. SendBehind(d, e)'
      BY <1>2, <1>3, <3>1, <3>2 DEF SendBehind
    <3>. QED
      BY <3>3
  <2>. QED
    BY <2>1, EditTargetsNext
<1>12. RetriesBounded' /\ AccessLossRequestsCheck'
  <2>1. RetriesBounded /\ AccessLossRequestsCheck
    BY DEF IInv
  <2>2. \A d \in CommandId : IsSend(d)' => IsSend(d) /\ commands'[d] = commands[d]
    BY <1>2, <1>3
  <2>. QED
    BY <2>1, <2>2 DEF RetriesBounded, AccessLossRequestsCheck
<1>13. ExclusiveClaims'
  BY DEF IInv, ExclusiveClaims, TypeOK
<1>14. WorkersHoldPending' /\ AcceptedIsPosted'
  <2>1. \A v \in EditWorker : editor'[v] # Idle =>
          /\ editor'[v] = editor[v] /\ editor[v] # Idle
          /\ editor[v].command \in CommandId \ {c}
    BY BusyEditor DEF IInv, ExclusiveClaims, TypeOK
  <2>2. \A v \in SendWorker : sender[v] # Idle => sender[v].command \in CommandId \ {c}
    BY <1>1, BusySender DEF IInv, WorkersHoldPending
  <2>3. WorkersHoldPending /\ AcceptedIsPosted
    BY DEF IInv
  <2>4. WorkersHoldPending'
    BY <1>2, <2>1, <2>2, <2>3 DEF WorkersHoldPending
  <2>5. AcceptedIsPosted'
    BY <1>2, <2>2, <2>3 DEF AcceptedIsPosted
  <2>. QED
    BY <2>4, <2>5
<1>. QED
  BY <1>4, <1>8, <1>9, <1>10, <1>11, <1>12, <1>13, <1>14 DEF IInv

LEMMA CompleteEditInv ==
  ASSUME IInv, TypeOK', NEW w \in EditWorker, CompleteEdit(w)
  PROVE  IInv'
<1> DEFINE c == editor[w].command
           row == [commands[c] EXCEPT !.status = "succeeded", !.attempts = Counted(c)]
<1>1. /\ editor[w] # Idle /\ c \in CommandId
      /\ commands' = [commands EXCEPT ![c] = row]
      /\ editor' = [editor EXCEPT ![w] = Idle]
      /\ UNCHANGED <<status, sender, posts, chatRemoved, promptCheck>>
  BY BusyEditor DEF IInv, CompleteEdit, EditorAt, chats
<1>2. commands[c] \in Command /\ commands[c].kind = "edit_reply" /\ Counted(c) \in 0..AttemptCap
  BY <1>1, EditingFacts, CountedType DEF IInv
<1>3. /\ row \in Command /\ row.question = commands[c].question /\ row.kind = "edit_reply"
      /\ row.version = commands[c].version /\ row.text = commands[c].text
      /\ row.sentId = commands[c].sentId
  BY <1>2 DEF Command, CommandStatus
<1>4. RecordsEdit(c)
  BY DEF CompleteEdit, RecordsEdit
<1>. HIDE DEF row
<1>. QED
  BY <1>1, <1>3, <1>4, EditCommitInv

LEMMA FailEditInv ==
  ASSUME IInv, TypeOK', NEW w \in EditWorker, FailEdit(w)
  PROVE  IInv'
<1> DEFINE c == editor[w].command
           code == IF editor[w].step = "claimed" THEN "INVALID_EDIT_TARGET"
                   ELSE editor[w].result.error
           row == [commands[c] EXCEPT !.status = "failed", !.error = code,
                                      !.attempts = Counted(c)]
<1>1. /\ editor[w] # Idle /\ c \in CommandId
      /\ commands' = [commands EXCEPT ![c] = row]
      /\ editor' = [editor EXCEPT ![w] = Idle]
      /\ UNCHANGED <<status, versions, sender, posts, chatRemoved, promptCheck>>
  BY BusyEditor DEF IInv, FailEdit, EditRefused, EditorAt, chats
<1>2. commands[c] \in Command /\ commands[c].kind = "edit_reply" /\ Counted(c) \in 0..AttemptCap
  BY <1>1, EditingFacts, CountedType DEF IInv
<1>3. code \in ErrorCode
  BY <1>1, BusyEditor DEF IInv, Result, ErrorCode
<1>4. /\ row \in Command /\ row.question = commands[c].question /\ row.kind = "edit_reply"
      /\ row.version = commands[c].version /\ row.text = commands[c].text
      /\ row.sentId = commands[c].sentId
  BY <1>2, <1>3 DEF Command, CommandStatus
<1>. HIDE DEF row
<1>. QED
  BY <1>1, <1>4, EditCommitInv

-----------------------------------------------------------------------------
(* The theorems.                                                             *)

LEMMA OperatorInv ==
  ASSUME IInv, TypeOK', NEW q \in Question, OperatorStep(q)
  PROVE  IInv'
<1>1. CASE OpenDraft(q)
  BY <1>1, MoveInv DEF OpenDraft, QuestionStatus
<1>2. CASE ReopenForEdit(q)
  BY <1>2, MoveInv DEF ReopenForEdit, QuestionStatus
<1>3. CASE CancelDraft(q)
  BY <1>3, MoveInv DEF CancelDraft, QuestionStatus
<1>4. CASE Dismiss(q)
  BY <1>4, MoveInv DEF Dismiss, QuestionStatus
<1>5. CASE Reopen(q)
  BY <1>5, MoveInv DEF Reopen, QuestionStatus
<1>6. ASSUME NEW t \in Text, CreateVersion(q, t)
      PROVE  IInv'
  BY <1>6, AppendDraftInv DEF CreateVersion, workers, chats
<1>7. ASSUME NEW t \in Text, PrepareEdit(q, t)
      PROVE  IInv'
  BY <1>7, AppendDraftInv DEF PrepareEdit, workers, chats
<1>8. CASE ConfirmSend(q)
  BY <1>8, ConfirmSendInv
<1>9. CASE ConfirmEdit(q)
  BY <1>9, ConfirmEditInv
<1>. QED
  BY <1>1, <1>2, <1>3, <1>4, <1>5, <1>6, <1>7, <1>8, <1>9 DEF OperatorStep

LEMMA SenderInv ==
  ASSUME IInv, TypeOK', NEW w \in SendWorker, SenderStep(w)
  PROVE  IInv'
BY ClaimSendInv, SenderQuietInv, SendAcceptedInv, CompleteSendInv, RetrySendInv, FailSendInv
   DEF SenderStep

LEMMA EditorInv ==
  ASSUME IInv, TypeOK', NEW w \in EditWorker, EditorStep(w)
  PROVE  IInv'
BY ClaimEditInv, EditorQuietInv, ApplyEditInv, CompleteEditInv, FailEditInv
   DEF EditorStep

LEMMA InitInv == Init => IInv
<1>. SUFFICES ASSUME Init PROVE IInv
  OBVIOUS
<1>1. TypeOK
  BY InitTypeOK
<1>2. \A c \in CommandId : ~Present(c)
  BY DEF Init, Present, NoCommand
<1>3. QuestionMatchesSend
  BY <1>2, SendStatuses DEF Init, QuestionMatchesSend, IsSend
<1>. QED
  BY <1>1, <1>2, <1>3
     DEF Init, IInv, PublishedWasPreviewed, OneCommandPerPreview, ExclusiveClaims,
         EditTargetValid, RetriesBounded, AccessLossRequestsCheck, WorkersHoldPending,
         AcceptedIsPosted, EditFollowsPreview, IsSend, IsEdit

LEMMA NextInv == IInv /\ [Next]_vars => IInv'
<1>. SUFFICES ASSUME IInv, [Next]_vars
              PROVE  IInv'
  OBVIOUS
<1>1. TypeOK'
  BY NextTypeOK DEF IInv
<1>2. CASE Next
  BY <1>1, <1>2, OperatorInv, DeleteQuestionInv, RemoveChatInv, RetryFailedInv,
     SenderInv, EditorInv DEF Next
<1>3. CASE UNCHANGED vars
  <2>1. RowsInv'
    BY <1>3, RowsUnchanged DEF vars, chats
  <2>2. WorkersInv'
    BY <1>3 DEF vars, workers, IInv, WorkersInv, ExclusiveClaims, WorkersHoldPending,
       AcceptedIsPosted, IsSend, IsEdit, Present
  <2>. QED
    BY <1>1, <2>1, <2>2 DEF IInv, RowsInv, WorkersInv
<1>. QED
  BY <1>2, <1>3

\* No interleaving of operator, workers, crashes, retention and chat removal
\* leaves the inductive invariant.
THEOREM InductiveInvariant == Spec => []IInv
<1>1. Init => IInv
  BY InitInv
<1>2. IInv /\ [Next]_vars => IInv'
  BY NextInv
<1>. QED
  BY <1>1, <1>2, PTL DEF Spec

\* Every row and every worker keeps to its type.
THEOREM TypeCorrect == Spec => []TypeOK
<1>1. IInv => TypeOK
  BY DEF IInv
<1>. QED
  BY <1>1, InductiveInvariant, PTL

\* The question row and its only send command always tell the same story.
THEOREM QuestionMatchesSendAlways == Spec => []QuestionMatchesSend
<1>1. IInv => QuestionMatchesSend
  BY DEF IInv
<1>. QED
  BY <1>1, InductiveInvariant, PTL

\* Only a text that was previewed and confirmed is ever published.
THEOREM PublishedWasPreviewedAlways == Spec => []PublishedWasPreviewed
<1>1. IInv => PublishedWasPreviewed
  BY DEF IInv
<1>. QED
  BY <1>1, InductiveInvariant, PTL

\* One preview is confirmed into at most one edit command.
THEOREM OneCommandPerPreviewAlways == Spec => []OneCommandPerPreview
<1>1. IInv => OneCommandPerPreview
  BY DEF IInv
<1>. QED
  BY <1>1, InductiveInvariant, PTL

\* However many workers run, no two act on one command.
THEOREM ExclusiveClaimsAlways == Spec => []ExclusiveClaims
<1>1. IInv => ExclusiveClaims
  BY DEF IInv
<1>. QED
  BY <1>1, InductiveInvariant, PTL

\* An edit command always has the message of a successful send to edit.
THEOREM EditTargetAlwaysValid == Spec => []EditTargetValid
<1>1. IInv => EditTargetValid
  BY DEF IInv
<1>. QED
  BY <1>1, InductiveInvariant, PTL

\* Temporary failures other than FLOOD_WAIT are retried at most MaxRetries times.
THEOREM RetriesAlwaysBounded == Spec => []RetriesBounded
<1>1. IInv => RetriesBounded
  BY DEF IInv
<1>. QED
  BY <1>1, InductiveInvariant, PTL

\* A send that lost access has always asked for a check of its chat.
THEOREM AccessLossAlwaysRequestsCheck == Spec => []AccessLossRequestsCheck
<1>1. IInv => AccessLossRequestsCheck
  BY DEF IInv
<1>. QED
  BY <1>1, InductiveInvariant, PTL

\* What SendOutcomeFinal asks of one step.
OutcomeKept ==
  \A c \in CommandId :
    IsSend(c) /\ commands[c].status # "pending" => commands'[c] \in {commands[c], NoCommand}
PostedForPending ==
  \A q \in Question :
    Len(posts'[q]) > Len(posts[q]) => \E c \in SendCommandsOf(q) : commands[c].status = "pending"

LEMMA OutcomeKeptStep ==
  ASSUME IInv, [Next]_vars
  PROVE  OutcomeKept
<1>1. ASSUME NEW q \in Question, OperatorStep(q)
      PROVE  OutcomeKept
  <2>1. CASE commands' = commands
    BY <2>1 DEF OutcomeKept
  <2>2. CASE ConfirmSend(q) \/ ConfirmEdit(q)
    <3>1. PICK c, row : c \in CommandId /\ ~Present(c) /\ commands' = [commands EXCEPT ![c] = row]
      BY <2>2 DEF ConfirmSend, ConfirmEdit
    <3>. QED
      BY <3>1 DEF OutcomeKept, IsSend, IInv, TypeOK
  <2>. QED
    BY <1>1, <2>1, <2>2
       DEF OperatorStep, OpenDraft, ReopenForEdit, CancelDraft, Dismiss, Reopen, MoveQuestion,
           CreateVersion, PrepareEdit
<1>2. ASSUME NEW q \in Question, DeleteQuestion(q) \/ RemoveChat(q)
      PROVE  OutcomeKept
  BY <1>2 DEF DeleteQuestion, RemoveChat, WithoutCommandsOf, OutcomeKept
<1>3. ASSUME NEW c \in CommandId, RetryFailed(c)
      PROVE  OutcomeKept
  <2>1. ~IsSend(c)
    BY <1>3 DEF RetryFailed, ManualRetryAllowed, IsEdit, IsSend
  <2>. QED
    BY <1>3, <2>1 DEF RetryFailed, OutcomeKept, IInv, TypeOK
<1>4. ASSUME NEW w \in SendWorker, SenderStep(w)
      PROVE  OutcomeKept
  <2>1. CASE commands' = commands
    BY <2>1 DEF OutcomeKept
  <2>2. CASE CompleteSend(w) \/ RetrySend(w) \/ FailSend(w)
    <3>1. sender[w] # Idle
      BY <2>2 DEF CompleteSend, RetrySend, FailSend, SenderAt
    <3>2. commands[sender[w].command].status = "pending"
      BY <3>1, SendingFacts
    <3>3. \E row : commands' = [commands EXCEPT ![sender[w].command] = row]
      BY <2>2 DEF CompleteSend, RetrySend, FailSend
    <3>. QED
      BY <3>2, <3>3 DEF OutcomeKept, IInv, TypeOK
  <2>. QED
    BY <1>4, <2>1, <2>2
       DEF SenderStep, ClaimSend, ValidateSend, SendAccepted, SendRejected, AbortSend
<1>5. ASSUME NEW w \in EditWorker, EditorStep(w)
      PROVE  OutcomeKept
  <2>1. CASE commands' = commands
    BY <2>1 DEF OutcomeKept
  <2>2. CASE CompleteEdit(w) \/ FailEdit(w)
    <3>1. editor[w] # Idle
      BY <2>2 DEF CompleteEdit, FailEdit, EditRefused, EditorAt
    <3>2. ~IsSend(editor[w].command)
      BY <3>1, EditingFacts
    <3>3. \E row : commands' = [commands EXCEPT ![editor[w].command] = row]
      BY <2>2 DEF CompleteEdit, FailEdit
    <3>. QED
      BY <3>2, <3>3 DEF OutcomeKept, IInv, TypeOK
  <2>. QED
    BY <1>5, <2>1, <2>2 DEF EditorStep, ClaimEdit, ApplyEdit, EditRejected, AbortEdit
<1>6. CASE UNCHANGED vars
  BY <1>6 DEF vars, OutcomeKept
<1>. QED
  BY <1>1, <1>2, <1>3, <1>4, <1>5, <1>6 DEF Next

\* Only a send that Telegram accepts makes the posts of a question more.
LEMMA PostedBySend ==
  ASSUME IInv, [Next]_vars, NEW q \in Question, Len(posts'[q]) > Len(posts[q])
  PROVE  \E w \in SendWorker :
           SendAccepted(w) /\ commands[sender[w].command].question = q
<1>0. \A r \in Question : posts[r] \in Seq(Text) /\ Len(posts[r]) \in Nat
  BY DEF IInv, TypeOK
<1>1. posts' # posts
  BY <1>0
<1>2. ASSUME NEW w \in SendWorker, SendAccepted(w)
      PROVE  commands[sender[w].command].question = q
  <2>1. sender[w] # Idle
    BY <1>2 DEF SendAccepted, SenderAt
  <2>2. PICK r \in Question : r = commands[sender[w].command].question
    BY <2>1, SendingFacts
  <2>3. \A x \in Question : x # r => posts'[x] = posts[x]
    BY <1>2, <2>2 DEF SendAccepted, Post, IInv, TypeOK
  <2>. QED
    BY <1>0, <2>2, <2>3
<1>3. ASSUME NEW w \in EditWorker, ApplyEdit(w)
      PROVE  FALSE
  <2>1. editor[w] # Idle
    BY <1>3 DEF ApplyEdit, EditorAt
  <2> DEFINE c == editor[w].command
             r == commands[c].question
             shown == [posts[r] EXCEPT ![commands[c].sentId] = commands[c].text]
  <2>2. /\ r \in Question /\ posts[r] \in Seq(Text)
        /\ commands[c].text \in Text /\ commands[c].sentId \in Nat
    BY <2>1, EditingFacts DEF Command, IInv, TypeOK
  <2>3. Len(shown) = Len(posts[r])
    BY <2>2, SequenceUpdateType
  <2>4. posts' = [posts EXCEPT ![r] = shown]
    BY <1>3 DEF ApplyEdit
  <2>5. Len(posts'[q]) = Len(posts[q])
    BY <2>2, <2>3, <2>4 DEF IInv, TypeOK
  <2>. QED
    BY <1>0, <2>5
<1>4. ASSUME NEW w \in SendWorker, SenderStep(w), ~SendAccepted(w)
      PROVE  UNCHANGED posts
  BY <1>4 DEF SenderStep, ClaimSend, ValidateSend, SendRejected, CompleteSend, RetrySend,
     FailSend, AbortSend
<1>5. ASSUME NEW w \in EditWorker, EditorStep(w), ~ApplyEdit(w)
      PROVE  UNCHANGED posts
  BY <1>5 DEF EditorStep, ClaimEdit, EditRejected, CompleteEdit, FailEdit, AbortEdit
<1>6. ASSUME NEW r \in Question, OperatorStep(r) \/ DeleteQuestion(r) \/ RemoveChat(r)
      PROVE  UNCHANGED posts
  BY <1>6 DEF OperatorStep, OpenDraft, ReopenForEdit, CancelDraft, Dismiss, Reopen,
     MoveQuestion, CreateVersion, PrepareEdit, ConfirmSend, ConfirmEdit, DeleteQuestion, RemoveChat
<1>7. ASSUME NEW c \in CommandId, RetryFailed(c)
      PROVE  UNCHANGED posts
  BY <1>7 DEF RetryFailed
<1>8. ~(UNCHANGED vars)
  BY <1>1 DEF vars
<1>. QED
  BY <1>1, <1>2, <1>3, <1>4, <1>5, <1>6, <1>7, <1>8 DEF Next

LEMMA PostedForPendingStep ==
  ASSUME IInv, [Next]_vars
  PROVE  PostedForPending
<1>1. ASSUME NEW q \in Question, Len(posts'[q]) > Len(posts[q])
      PROVE  \E c \in SendCommandsOf(q) : commands[c].status = "pending"
  <2>1. PICK w \in SendWorker : SendAccepted(w) /\ commands[sender[w].command].question = q
    BY <1>1, PostedBySend
  <2>2. sender[w] # Idle
    BY <2>1 DEF SendAccepted, SenderAt
  <2>. QED
    BY <2>1, <2>2, SendingFacts DEF SendCommandsOf
<1>. QED
  BY <1>1 DEF PostedForPending

\* A recorded outcome is never undone, and nothing is posted after it.
THEOREM SendOutcomeIsFinal == Spec => SendOutcomeFinal
<1>1. IInv /\ [Next]_vars =>
        [/\ \A c \in CommandId :
              IsSend(c) /\ commands[c].status # "pending"
                => commands'[c] \in {commands[c], NoCommand}
         /\ \A q \in Question :
              Len(posts'[q]) > Len(posts[q])
                => \E c \in SendCommandsOf(q) : commands[c].status = "pending"]_vars
  BY OutcomeKeptStep, PostedForPendingStep DEF OutcomeKept, PostedForPending
<1>. QED
  BY <1>1, InductiveInvariant, PTL DEF Spec, SendOutcomeFinal

-----------------------------------------------------------------------------
(* Why a reply may be posted twice (the finding at listener/outbound,         *)
(* run_once): the one step that makes a shown reply due again is a rollback  *)
(* after the call.                                                           *)

PendingSend(c, q) == c \in SendCommandsOf(q) /\ commands[c].status = "pending"

LEMMA RepeatableKept ==
  ASSUME NEW q \in Question,
         posts'[q] # <<>> => posts[q] # <<>>,
         \A c \in CommandId : PendingSend(c, q)' => PendingSend(c, q),
         \A w \in SendWorker : MayHaveSent(w) /\ PendingSend(sender[w].command, q)
           => MayHaveSent(w)' /\ sender'[w].command = sender[w].command
  PROVE  Repeatable(q)' => Repeatable(q)
<1>. SUFFICES ASSUME Repeatable(q)' PROVE Repeatable(q)
  OBVIOUS
<1>1. PICK c \in CommandId :
        /\ PendingSend(c, q)'
        /\ ~\E w \in SendWorker : MayHaveSent(w)' /\ sender'[w].command = c
  BY DEF Repeatable, PendingSend, SendCommandsOf
<1>2. ~\E w \in SendWorker : MayHaveSent(w) /\ sender[w].command = c
  BY <1>1
<1>3. posts[q] # <<>>
  BY DEF Repeatable
<1>. QED
  BY <1>1, <1>2, <1>3 DEF Repeatable, PendingSend

\* Steps that leave the send commands and their workers alone.
LEMMA OtherRowsRepeatable ==
  ASSUME NEW q \in Question, UNCHANGED sender, posts'[q] # <<>> => posts[q] # <<>>,
         \A c \in CommandId : IsSend(c)' => commands'[c] = commands[c]
  PROVE  Repeatable(q)' => Repeatable(q)
<1>1. \A c \in CommandId : PendingSend(c, q)' => PendingSend(c, q)
  BY DEF PendingSend, SendCommandsOf, IsSend, Present
<1>2. \A w \in SendWorker : MayHaveSent(w) => MayHaveSent(w)'
  BY DEF MayHaveSent, SenderAt
<1>. QED
  BY <1>1, <1>2, RepeatableKept

\* Steps of a worker that are no outcome, and no rollback after the call.
LEMMA SenderRepeatable ==
  ASSUME NEW w \in SendWorker, NEW q \in Question, UNCHANGED commands,
         posts'[q] # <<>> => posts[q] # <<>>,
         \A v \in SendWorker \ {w} : sender'[v] = sender[v],
         ~MayHaveSent(w) \/ ~PendingSend(sender[w].command, q)
  PROVE  Repeatable(q)' => Repeatable(q)
<1>1. \A c \in CommandId : PendingSend(c, q)' => PendingSend(c, q)
  BY DEF PendingSend, SendCommandsOf, IsSend, Present
<1>2. \A v \in SendWorker \ {w} : MayHaveSent(v) => MayHaveSent(v)'
  BY DEF MayHaveSent, SenderAt
<1>3. \A v \in SendWorker : MayHaveSent(v) /\ PendingSend(sender[v].command, q) =>
        MayHaveSent(v)' /\ sender'[v].command = sender[v].command
  BY <1>2
<1>. QED
  BY <1>1, <1>3, RepeatableKept

LEMMA OperatorRepeatable ==
  ASSUME IInv, NEW r \in Question, NEW q \in Question,
         OperatorStep(r) \/ DeleteQuestion(r) \/ RemoveChat(r)
  PROVE  Repeatable(q)' => Repeatable(q)
<1>1. UNCHANGED <<sender, posts>>
  BY DEF OperatorStep, OpenDraft, ReopenForEdit, CancelDraft, Dismiss, Reopen, MoveQuestion,
     CreateVersion, PrepareEdit, ConfirmSend, ConfirmEdit, DeleteQuestion, RemoveChat, workers
<1>2. CASE UNCHANGED commands
  BY <1>1, <1>2, OtherRowsRepeatable
<1>3. CASE ConfirmEdit(r)
  <2>0. PICK c \in CommandId, id \in StoredSentIds(r) :
          commands' = [commands EXCEPT
            ![c] = NewCommand(r, "edit_reply", Len(versions[r]) + 1, Preview(r).text, id)]
    BY <1>3 DEF ConfirmEdit
  <2>1. PICK row : commands' = [commands EXCEPT ![c] = row] /\ row.kind = "edit_reply"
    <3>1. PICK row : row = NewCommand(r, "edit_reply", Len(versions[r]) + 1, Preview(r).text, id)
      OBVIOUS
    <3>2. row.kind = "edit_reply"
      BY <3>1 DEF NewCommand
    <3>. QED
      BY <2>0, <3>1, <3>2
  <2>2. \A d \in CommandId : IsSend(d)' => commands'[d] = commands[d]
    BY <2>1 DEF IsSend, IInv, TypeOK
  <2>. QED
    BY <1>1, <2>2, OtherRowsRepeatable
<1>4. CASE DeleteQuestion(r)
  <2>1. \A d \in CommandId : IsSend(d)' => commands'[d] = commands[d]
    BY <1>4 DEF DeleteQuestion, WithoutCommandsOf, NoCommand, IsSend, Present
  <2>. QED
    BY <1>1, <2>1, OtherRowsRepeatable
<1>5. CASE ConfirmSend(r)
  <2>0. PICK c \in CommandId :
          commands' = [commands EXCEPT
            ![c] = NewCommand(r, "send_reply", Len(versions[r]) + 1, Preview(r).text, 0)]
    BY <1>5 DEF ConfirmSend
  <2>1. PICK row : commands' = [commands EXCEPT ![c] = row] /\ row.question = r
    <3>1. PICK row : row = NewCommand(r, "send_reply", Len(versions[r]) + 1, Preview(r).text, 0)
      OBVIOUS
    <3>2. row.question = r
      BY <3>1 DEF NewCommand
    <3>. QED
      BY <2>0, <3>1, <3>2
  <2>2. \A d \in CommandId : IsSend(d)' => d = c \/ commands'[d] = commands[d]
    BY <2>1 DEF IInv, TypeOK
  <2>3. commands'[c].question = r
    BY <2>1 DEF IInv, TypeOK
  <2>4. CASE q = r
    <3>1. status[r] = "waiting_confirmation"
      BY <1>5 DEF ConfirmSend
    <3>2. ASSUME posts[r] # <<>> PROVE FALSE
      <4>1. posts[r] \in Seq(Text) /\ 1 \in 1..Len(posts[r])
        BY <3>2 DEF IInv, TypeOK
      <4>2. PICK d \in CommandId : Present(d) /\ commands[d].question = r
        BY <3>1, <4>1 DEF IInv, PublishedWasPreviewed
      <4>. QED
        BY <3>1, <4>2, NoCommandsOutside
    <3>. QED
      BY <1>1, <2>4, <3>2 DEF Repeatable
  <2>5. CASE q # r
    <3>1. \A d \in CommandId : PendingSend(d, q)' => PendingSend(d, q)
      BY <2>2, <2>3, <2>5 DEF PendingSend, SendCommandsOf, IsSend, Present
    <3>2. \A w \in SendWorker : MayHaveSent(w) => MayHaveSent(w)'
      BY <1>1 DEF MayHaveSent, SenderAt
    <3>. QED
      BY <1>1, <3>1, <3>2, RepeatableKept
  <2>. QED
    BY <2>4, <2>5
<1>. QED
  BY <1>2, <1>3, <1>4, <1>5 DEF OperatorStep, OpenDraft, ReopenForEdit, CancelDraft, Dismiss,
     Reopen, MoveQuestion, CreateVersion, PrepareEdit, RemoveChat

LEMMA EditorRepeatable ==
  ASSUME IInv, NEW w \in EditWorker, NEW q \in Question, EditorStep(w)
  PROVE  Repeatable(q)' => Repeatable(q)
<1>1. CASE (\E c \in CommandId : ClaimEdit(w, c)) \/ EditRejected(w)
             \/ AbortEdit(w)
  BY <1>1, OtherRowsRepeatable DEF ClaimEdit, EditRejected, AbortEdit
<1>2. CASE ApplyEdit(w)
  <2>1. editor[w] # Idle /\ UNCHANGED <<sender, commands>>
    BY <1>2 DEF ApplyEdit, EditorAt
  <2>2. PICK r \in Question, id \in Nat, t \in Text : posts' = [posts EXCEPT ![r][id] = t]
    BY <1>2, <2>1, EditingFacts DEF ApplyEdit, Command
  <2>3. posts'[q] = posts[q] \/ posts'[q] = [posts[q] EXCEPT ![id] = t]
    BY <2>2 DEF IInv, TypeOK
  <2>4. posts[q] \in Seq(Text)
    BY DEF IInv, TypeOK
  <2>5. posts'[q] # <<>> => posts[q] # <<>>
    BY <2>3, <2>4
  <2>. QED
    BY <2>1, <2>5, OtherRowsRepeatable
<1>3. CASE CompleteEdit(w) \/ FailEdit(w)
  <2>1. editor[w] # Idle
    BY <1>3 DEF CompleteEdit, FailEdit, EditRefused, EditorAt
  <2>2. PICK c \in CommandId : c = editor[w].command /\ commands[c] \in Command
                               /\ commands[c].kind = "edit_reply"
    BY <2>1, EditingFacts
  <2>3. PICK row : commands' = [commands EXCEPT ![c] = row] /\ row.kind = "edit_reply"
    <3>1. CASE CompleteEdit(w)
      <4>1. PICK row : row = [commands[c] EXCEPT !.status = "succeeded", !.attempts = Counted(c)]
        OBVIOUS
      <4>2. row.kind = "edit_reply"
        BY <2>2, <4>1 DEF Command
      <4>. QED
        BY <2>2, <3>1, <4>1, <4>2 DEF CompleteEdit
    <3>2. CASE FailEdit(w)
      <4>1. PICK error : error = IF editor[w].step = "claimed" THEN "INVALID_EDIT_TARGET"
                                 ELSE editor[w].result.error
        OBVIOUS
      <4>2. PICK row : row = [commands[c] EXCEPT !.status = "failed", !.error = error,
                                                 !.attempts = Counted(c)]
        OBVIOUS
      <4>3. row.kind = "edit_reply"
        BY <2>2, <4>2 DEF Command
      <4>. QED
        BY <2>2, <3>2, <4>1, <4>2, <4>3 DEF FailEdit
    <3>. QED
      BY <1>3, <3>1, <3>2
  <2>4. \A d \in CommandId : IsSend(d)' => commands'[d] = commands[d]
    BY <2>3 DEF IsSend, IInv, TypeOK
  <2>. QED
    BY <1>3, <2>4, OtherRowsRepeatable DEF CompleteEdit, FailEdit
<1>. QED
  BY <1>1, <1>2, <1>3 DEF EditorStep

\* The outcome of a send: the command leaves "pending", or it is a retry by a
\* worker that knows the message was not sent.
LEMMA OutcomeRepeatable ==
  ASSUME IInv, NEW w \in SendWorker, NEW q \in Question,
         CompleteSend(w) \/ FailSend(w) \/ RetrySend(w)
  PROVE  Repeatable(q)' => Repeatable(q)
<1>1. sender[w] # Idle /\ UNCHANGED posts /\ sender' = [sender EXCEPT ![w] = Idle]
  BY DEF CompleteSend, FailSend, RetrySend, SenderAt
<1>2. PICK c \in CommandId, r \in Question :
        /\ c = sender[w].command /\ r = commands[c].question
        /\ commands[c] \in Command /\ IsSend(c) /\ commands[c].status = "pending"
        /\ \A d \in CommandId : IsSend(d) /\ commands[d].question = r => d = c
  BY <1>1, SendingFacts
<1>3. PICK row :
        /\ commands' = [commands EXCEPT ![c] = row]
        /\ row.question = r
        /\ row.status = "pending" => RetrySend(w)
  <2>1. CASE CompleteSend(w)
    <3>1. PICK row : row = [commands[c] EXCEPT !.status = "succeeded",
                                               !.sentId = sender[w].result.id,
                                               !.attempts = Counted(c)]
      OBVIOUS
    <3>2. row.question = r /\ row.status = "succeeded"
      BY <1>2, <3>1 DEF Command
    <3>3. commands' = [commands EXCEPT ![c] = row]
      BY <1>2, <2>1, <3>1 DEF CompleteSend
    <3>. QED
      BY <3>2, <3>3
  <2>2. CASE FailSend(w)
    <3>1. PICK st \in {"failed", "needs_review"} :
            st = IF sender[w].result.kind = "permanent" THEN "failed" ELSE "needs_review"
      OBVIOUS
    <3>2. PICK row : row = [commands[c] EXCEPT !.status = st,
                                               !.error = sender[w].result.error,
                                               !.attempts = Counted(c)]
      OBVIOUS
    <3>3. commands' = [commands EXCEPT ![c] = row]
      BY <1>2, <2>2, <3>1, <3>2 DEF FailSend
    <3>4. row.question = r /\ row.status = st
      BY <1>2, <3>2 DEF Command
    <3>. QED
      BY <3>1, <3>3, <3>4
  <2>3. CASE RetrySend(w)
    <3>1. PICK row : row = [commands[c] EXCEPT !.error = sender[w].result.error,
                                               !.attempts = Counted(c)]
      OBVIOUS
    <3>2. row.question = r
      BY <1>2, <3>1 DEF Command
    <3>3. commands' = [commands EXCEPT ![c] = row]
      BY <1>2, <2>3, <3>1 DEF RetrySend
    <3>. QED
      BY <2>3, <3>2, <3>3
  <2>. QED
    BY <2>1, <2>2, <2>3
<1>4. /\ commands'[c] = row /\ \A d \in CommandId \ {c} : commands'[d] = commands[d]
      /\ \A v \in SendWorker \ {w} : sender'[v] = sender[v]
  BY <1>1, <1>3 DEF IInv, TypeOK
<1>5. \A d \in CommandId : PendingSend(d, q)' => PendingSend(d, q)
  BY <1>2, <1>3, <1>4 DEF PendingSend, SendCommandsOf, IsSend, Present
<1>6. \A v \in SendWorker \ {w} : MayHaveSent(v) => MayHaveSent(v)'
  BY <1>4 DEF MayHaveSent, SenderAt
<1>7. CASE RetrySend(w) \/ q # r
  <2>1. ~MayHaveSent(w) \/ q # r
    BY <1>7 DEF RetrySend, RetryableSend, MayHaveSent
  <2>2. \A v \in SendWorker : MayHaveSent(v) /\ PendingSend(sender[v].command, q) =>
          MayHaveSent(v)' /\ sender'[v].command = sender[v].command
    BY <1>2, <1>4, <1>6, <2>1 DEF PendingSend, SendCommandsOf
  <2>. QED
    BY <1>1, <1>5, <2>2, RepeatableKept
<1>8. CASE ~RetrySend(w) /\ q = r
  <2>1. \A d \in CommandId : ~PendingSend(d, q)'
    BY <1>2, <1>3, <1>4, <1>5, <1>8 DEF PendingSend, SendCommandsOf
  <2>. QED
    BY <2>1 DEF Repeatable, PendingSend, SendCommandsOf
<1>. QED
  BY <1>7, <1>8

LEMMA AcceptedRepeatable ==
  ASSUME IInv, NEW w \in SendWorker, NEW q \in Question, SendAccepted(w)
  PROVE  Repeatable(q)' => Repeatable(q)
<1>1. sender[w] # Idle /\ ~MayHaveSent(w) /\ UNCHANGED commands
  BY DEF SendAccepted, SenderAt, MayHaveSent
<1>2. PICK c \in CommandId, r \in Question :
        /\ c = sender[w].command /\ r = commands[c].question
        /\ \A d \in CommandId : IsSend(d) /\ commands[d].question = r => d = c
  BY <1>1, SendingFacts
<1>3. PICK result \in Result :
        /\ AnswerSender(w, result) /\ result.kind \in {"ok", "ambiguous"}
        /\ posts' = [posts EXCEPT ![r] = Append(@, commands[c].text)]
  <2>1. /\ Accepted(Len(posts[r]) + 1) \in Result /\ Unclear \in Result
        /\ Accepted(Len(posts[r]) + 1).kind = "ok" /\ Unclear.kind = "ambiguous"
    BY DEF Accepted, Unclear, Failure, Result, FailureKind, ErrorCode, IInv, TypeOK
  <2>. QED
    BY <1>2, <2>1 DEF SendAccepted, Post
<1>4. sender[w] \in Working
  BY <1>1, BusySender DEF IInv
<1>5. /\ sender'[w].step = "answered" /\ sender'[w].result = result
      /\ sender'[w].command = c /\ sender'[w] # Idle
      /\ \A v \in SendWorker \ {w} : sender'[v] = sender[v]
  BY <1>2, <1>3, <1>4 DEF AnswerSender, Working, Idle, IInv, TypeOK
<1>6. CASE q # r
  <2>1. posts'[q] = posts[q]
    BY <1>3, <1>6 DEF IInv, TypeOK
  <2>. QED
    BY <1>1, <1>5, <2>1, SenderRepeatable
<1>7. CASE q = r
  <2>1. MayHaveSent(w)'
    BY <1>3, <1>5 DEF MayHaveSent, SenderAt
  <2>2. SendCommandsOf(q)' \subseteq {c}
    BY <1>1, <1>2, <1>7 DEF SendCommandsOf, IsSend, Present
  <2>. QED
    BY <1>5, <2>1, <2>2 DEF Repeatable
<1>. QED
  BY <1>6, <1>7

LEMMA SenderStepRepeatable ==
  ASSUME IInv, NEW w \in SendWorker, NEW q \in Question, SenderStep(w)
  PROVE  Repeatable(q)' => Repeatable(q) \/ LateAbort(q)
<1>1. CASE (\E c \in CommandId : ClaimSend(w, c)) \/ ValidateSend(w) \/ SendRejected(w)
  <2>1. /\ ~MayHaveSent(w) /\ UNCHANGED <<commands, posts>>
        /\ \A v \in SendWorker \ {w} : sender'[v] = sender[v]
    BY <1>1 DEF ClaimSend, ValidateSend, SendRejected, AnswerSender, SenderAt, MayHaveSent,
       IInv, TypeOK
  <2>. QED
    BY <2>1, SenderRepeatable
<1>2. CASE AbortSend(w)
  <2>1. /\ UNCHANGED <<commands, posts>>
        /\ \A v \in SendWorker \ {w} : sender'[v] = sender[v]
    BY <1>2 DEF AbortSend, IInv, TypeOK
  <2>2. CASE ~MayHaveSent(w) \/ ~PendingSend(sender[w].command, q)
    BY <2>1, <2>2, SenderRepeatable
  <2>3. CASE MayHaveSent(w) /\ PendingSend(sender[w].command, q)
    BY <1>2, <2>3 DEF LateAbort, PendingSend, SendCommandsOf
  <2>. QED
    BY <2>2, <2>3
<1>. QED
  BY <1>1, <1>2, OutcomeRepeatable, AcceptedRepeatable DEF SenderStep

LEMMA RepeatableStep ==
  ASSUME IInv, [Next]_vars, NEW q \in Question
  PROVE  Repeatable(q)' => Repeatable(q) \/ LateAbort(q)
<1>1. ASSUME NEW c \in CommandId, RetryFailed(c)
      PROVE  Repeatable(q)' => Repeatable(q)
  <2>1. \A d \in CommandId : IsSend(d)' => commands'[d] = commands[d]
    <3>1. commands[c] \in Command /\ commands[c].kind = "edit_reply"
      BY <1>1, PresentIsCommand DEF RetryFailed, ManualRetryAllowed, IsEdit, IInv
    <3>2. PICK row : row = [commands[c] EXCEPT !.status = "pending"]
      OBVIOUS
    <3>3. commands' = [commands EXCEPT ![c] = row] /\ row.kind = "edit_reply"
      BY <1>1, <3>1, <3>2 DEF RetryFailed, Command
    <3>. QED
      BY <3>3 DEF IsSend, IInv, TypeOK
  <2>. QED
    BY <1>1, <2>1, OtherRowsRepeatable DEF RetryFailed, workers
<1>2. CASE UNCHANGED vars
  BY <1>2, OtherRowsRepeatable DEF vars, workers
<1>. QED
  BY <1>1, <1>2, OperatorRepeatable, EditorRepeatable, SenderStepRepeatable DEF Next

LEMMA PostedAgainStep ==
  ASSUME IInv, [Next]_vars, NEW q \in Question,
         posts[q] # <<>>, Len(posts'[q]) > Len(posts[q])
  PROVE  Repeatable(q)
<1>1. PICK w \in SendWorker : SendAccepted(w) /\ commands[sender[w].command].question = q
  BY PostedBySend
<1>2. sender[w] # Idle /\ ~MayHaveSent(w)
  BY <1>1 DEF SendAccepted, SenderAt, MayHaveSent
<1>3. sender[w].command \in SendCommandsOf(q) /\ commands[sender[w].command].status = "pending"
  BY <1>1, <1>2, SendingFacts DEF SendCommandsOf
<1>4. ~\E v \in SendWorker : MayHaveSent(v) /\ sender[v].command = sender[w].command
  BY <1>2 DEF IInv, ExclusiveClaims, MayHaveSent, SenderAt
<1>. QED
  BY <1>3, <1>4 DEF Repeatable

\* A shown reply becomes due again by nothing but a rollback after the call, and
\* nothing but a due reply is posted.
THEOREM DuplicateByAbortOnly == Spec => DuplicateOnlyByAbort
<1>1. IInv /\ [Next]_vars =>
        [\A q \in Question :
           /\ Repeatable(q)' => Repeatable(q) \/ LateAbort(q)
           /\ posts[q] # <<>> /\ Len(posts'[q]) > Len(posts[q]) => Repeatable(q)]_vars
  BY RepeatableStep, PostedAgainStep
<1>. QED
  BY <1>1, InductiveInvariant, PTL DEF Spec, DuplicateOnlyByAbort

\* Without such a rollback a reply is posted at most once (README, "idempotent
\* send"; the promise NoDuplicateReply that the run duplicate_reply refutes):
\* two workers, unclear answers, retries and repeated clicks do not break it.
THEOREM NoDuplicateWithoutLateAbort ==
  Init /\ [][Next /\ ~\E q \in Question : LateAbort(q)]_vars => []NoDuplicateReply
<1> DEFINE Careful == Next /\ ~\E q \in Question : LateAbort(q)
           Once == \A q \in Question : ~Repeatable(q) /\ Len(posts[q]) <= 1
<1>1. Init => IInv /\ Once
  <2>. SUFFICES ASSUME Init PROVE IInv /\ Once
    OBVIOUS
  <2>1. \A q \in Question : posts[q] = <<>> /\ Len(posts[q]) = 0
    BY DEF Init
  <2>. QED
    BY <2>1, InitInv DEF Repeatable
<1>2. IInv /\ Once /\ [Careful]_vars => IInv' /\ Once'
  <2>. SUFFICES ASSUME IInv, Once, [Careful]_vars PROVE IInv' /\ Once'
    OBVIOUS
  <2>1. [Next]_vars /\ IInv'
    BY NextInv
  <2>2. ASSUME NEW q \in Question PROVE ~Repeatable(q)'
    <3>1. CASE UNCHANGED vars
      <4>1. UNCHANGED <<sender, posts, commands>>
        BY <3>1 DEF vars, workers
      <4>2. Repeatable(q)' => Repeatable(q)
        BY <4>1, OtherRowsRepeatable
      <4>. QED
        BY <4>2
    <3>2. CASE Careful
      BY <2>1, <3>2, RepeatableStep
    <3>. QED
      BY <3>1, <3>2
  <2>3. ASSUME NEW q \in Question PROVE Len(posts'[q]) <= 1
    <3>0. posts[q] \in Seq(Text) /\ posts'[q] \in Seq(Text)
      BY <2>1 DEF IInv, TypeOK
    <3>1. CASE Len(posts'[q]) <= Len(posts[q])
      BY <3>0, <3>1
    <3>2. CASE Len(posts'[q]) > Len(posts[q])
      <4>1. posts[q] = <<>>
        BY <2>1, <3>2, PostedAgainStep
      <4>2. PICK w \in SendWorker :
              SendAccepted(w) /\ commands[sender[w].command].question = q
        BY <2>1, <3>2, PostedBySend
      <4>3. PICK text \in Text : posts'[q] = Append(posts[q], text)
        <5>1. sender[w] # Idle
          BY <4>2 DEF SendAccepted, SenderAt
        <5>2. commands[sender[w].command].text \in Text
          BY <5>1, SendingFacts DEF Command
        <5>. QED
          BY <4>2, <5>2 DEF SendAccepted, Post, IInv, TypeOK
      <4>. QED
        BY <3>0, <4>1, <4>3
    <3>. QED
      BY <3>0, <3>1, <3>2
  <2>. QED
    BY <2>1, <2>2, <2>3
<1>3. Once => NoDuplicateReply
  BY DEF NoDuplicateReply
<1>. QED
  BY <1>1, <1>2, <1>3, PTL

-----------------------------------------------------------------------------
(* Why a confirmed edit may not be recordable (the finding at confirm_edit):  *)
(* its version number is taken by a draft, and by nothing else.              *)

Overtaken(c) ==
  \/ Recordable(c)' \/ ~Present(c)' \/ commands'[c].status = "succeeded"
  \/ \E t \in Text : PrepareEdit(commands[c].question, t)

LEMMA RecordableFacts ==
  ASSUME IInv, NEW c \in CommandId, Recordable(c)
  PROVE  /\ commands[c].question \in Question
         /\ status[commands[c].question] = "sent"
         /\ Present(c) /\ commands[c] \in Command /\ commands[c].kind = "edit_reply"
BY PresentIsCommand DEF Recordable, IsEdit, IInv, EditTargetValid, Command

\* What an edit keeps of itself and of its question to stay recordable.
LEMMA RecordableKept ==
  ASSUME NEW c \in CommandId, Recordable(c),
         commands'[c].question = commands[c].question,
         commands'[c].kind = commands[c].kind,
         commands'[c].version = commands[c].version,
         commands'[c].status \notin {"absent", "succeeded"},
         versions'[commands[c].question] = versions[commands[c].question]
  PROVE  Recordable(c)'
BY DEF Recordable, IsEdit, Present

LEMMA SameRecordable ==
  ASSUME NEW c \in CommandId, Recordable(c), commands'[c] = commands[c],
         versions'[commands[c].question] = versions[commands[c].question]
  PROVE  Recordable(c)'
BY RecordableKept DEF Recordable, IsEdit, Present

LEMMA OperatorOvertakes ==
  ASSUME IInv, NEW c \in CommandId, Recordable(c), NEW r \in Question,
         OperatorStep(r) \/ DeleteQuestion(r) \/ RemoveChat(r)
  PROVE  Overtaken(c)
<1>1. PICK q \in Question :
        q = commands[c].question /\ status[q] = "sent" /\ Present(c)
  BY RecordableFacts
<1>2. CASE UNCHANGED <<commands, versions>>
  BY <1>2, SameRecordable DEF Overtaken
<1>3. CASE r = q /\ \E t \in Text : PrepareEdit(r, t)
  BY <1>1, <1>3 DEF Overtaken
<1>4. CASE r # q /\ \E t \in Text : PrepareEdit(r, t)
  <2>1. versions'[q] = versions[q] /\ commands'[c] = commands[c]
    BY <1>4 DEF PrepareEdit, IInv, TypeOK
  <2>. QED
    BY <1>1, <2>1, SameRecordable DEF Overtaken
<1>5. CASE (\E t \in Text : CreateVersion(r, t)) \/ ConfirmSend(r)
  <2>1. r # q
    BY <1>1, <1>5 DEF CreateVersion, ConfirmSend
  <2>2. versions'[q] = versions[q] /\ commands'[c] = commands[c]
    BY <1>1, <1>5, <2>1 DEF CreateVersion, ConfirmSend, IInv, TypeOK
  <2>. QED
    BY <1>1, <2>2, SameRecordable DEF Overtaken
<1>6. CASE ConfirmEdit(r)
  <2>1. versions'[q] = versions[q] /\ commands'[c] = commands[c]
    BY <1>1, <1>6 DEF ConfirmEdit, IInv, TypeOK
  <2>. QED
    BY <1>1, <2>1, SameRecordable DEF Overtaken
<1>7. CASE DeleteQuestion(r)
  <2>1. CASE r = q
    BY <1>1, <1>7, <2>1 DEF DeleteQuestion, WithoutCommandsOf, NoCommand, Present, Overtaken
  <2>2. CASE r # q
    <3>1. versions'[q] = versions[q] /\ commands'[c] = commands[c]
      BY <1>1, <1>7, <2>2 DEF DeleteQuestion, WithoutCommandsOf, IInv, TypeOK
    <3>. QED
      BY <1>1, <3>1, SameRecordable DEF Overtaken
  <2>. QED
    BY <2>1, <2>2
<1>. QED
  BY <1>2, <1>3, <1>4, <1>5, <1>6, <1>7
     DEF OperatorStep, OpenDraft, ReopenForEdit, CancelDraft, Dismiss, Reopen, MoveQuestion,
         RemoveChat

LEMMA SenderOvertakes ==
  ASSUME IInv, NEW c \in CommandId, Recordable(c), NEW w \in SendWorker, SenderStep(w)
  PROVE  Overtaken(c)
<1>1. versions' = versions
  BY DEF SenderStep, ClaimSend, ValidateSend, SendAccepted, SendRejected, CompleteSend,
     RetrySend, FailSend, AbortSend
<1>2. commands'[c] = commands[c]
  <2>1. CASE commands' = commands
    BY <2>1
  <2>2. CASE CompleteSend(w) \/ RetrySend(w) \/ FailSend(w)
    <3>1. sender[w] # Idle
      BY <2>2 DEF CompleteSend, RetrySend, FailSend, SenderAt
    <3>2. sender[w].command # c
      BY <3>1, SendingFacts DEF Recordable
    <3>3. \E row : commands' = [commands EXCEPT ![sender[w].command] = row]
      BY <2>2 DEF CompleteSend, RetrySend, FailSend
    <3>. QED
      BY <3>2, <3>3 DEF IInv, TypeOK
  <2>. QED
    BY <2>1, <2>2
       DEF SenderStep, ClaimSend, ValidateSend, SendAccepted, SendRejected, AbortSend
<1>. QED
  BY <1>1, <1>2, SameRecordable DEF Overtaken

LEMMA EditorOvertakes ==
  ASSUME IInv, NEW c \in CommandId, Recordable(c), NEW w \in EditWorker, EditorStep(w)
  PROVE  Overtaken(c)
<1>1. CASE UNCHANGED <<commands, versions>>
  BY <1>1, SameRecordable DEF Overtaken
<1>2. PICK q \in Question :
        /\ q = commands[c].question /\ commands[c] \in Command
        /\ commands[c].kind = "edit_reply"
  BY RecordableFacts
<1>3. CASE CompleteEdit(w)
  <2>1. editor[w] # Idle
    BY <1>3 DEF CompleteEdit, EditorAt
  <2>2. PICK d \in CommandId, r \in Question :
          d = editor[w].command /\ r = commands[d].question /\ IsEdit(d)
    BY <2>1, EditingFacts
  <2>3. PICK row : row = [commands[d] EXCEPT !.status = "succeeded", !.attempts = Counted(d)]
    OBVIOUS
  <2>4. /\ commands' = [commands EXCEPT ![d] = row]
        /\ commands[d].version = Len(versions[r]) + 1
        /\ \A x \in Question \ {r} : versions'[x] = versions[x]
    BY <1>3, <2>2, <2>3 DEF CompleteEdit, IInv, TypeOK
  <2>5. CASE d = c
    <3>1. row.status = "succeeded"
      BY <1>2, <2>3, <2>5 DEF Command
    <3>. QED
      BY <2>4, <2>5, <3>1 DEF Overtaken, IInv, TypeOK
  <2>6. CASE d # c
    <3>1. r # q
      BY <1>2, <2>2, <2>4, <2>6 DEF Recordable, IInv, OneCommandPerPreview
    <3>2. versions'[q] = versions[q] /\ commands'[c] = commands[c]
      BY <2>4, <2>6, <3>1 DEF IInv, TypeOK
    <3>. QED
      BY <1>2, <3>2, SameRecordable DEF Overtaken
  <2>. QED
    BY <2>5, <2>6
<1>4. CASE FailEdit(w)
  <2>1. editor[w] # Idle /\ versions' = versions
    BY <1>4 DEF FailEdit, EditRefused, EditorAt
  <2>2. PICK d \in CommandId : d = editor[w].command
    BY <2>1, EditingFacts
  <2>3. PICK error : error = IF editor[w].step = "claimed" THEN "INVALID_EDIT_TARGET"
                             ELSE editor[w].result.error
    OBVIOUS
  <2>4. PICK row : row = [commands[d] EXCEPT !.status = "failed", !.error = error,
                                             !.attempts = Counted(d)]
    OBVIOUS
  <2>5. commands' = [commands EXCEPT ![d] = row]
    BY <1>4, <2>2, <2>3, <2>4 DEF FailEdit
  <2>6. CASE d = c
    <3>1. /\ row.status = "failed" /\ row.question = commands[c].question
          /\ row.kind = commands[c].kind /\ row.version = commands[c].version
      BY <1>2, <2>4, <2>6 DEF Command
    <3>2. commands'[c] = row
      BY <2>5, <2>6 DEF IInv, TypeOK
    <3>. QED
      BY <2>1, <3>1, <3>2, RecordableKept DEF Overtaken
  <2>7. CASE d # c
    <3>1. commands'[c] = commands[c]
      BY <2>5, <2>7 DEF IInv, TypeOK
    <3>. QED
      BY <2>1, <3>1, SameRecordable DEF Overtaken
  <2>. QED
    BY <2>6, <2>7
<1>. QED
  BY <1>1, <1>3, <1>4 DEF EditorStep, ClaimEdit, ApplyEdit, EditRejected, AbortEdit

LEMMA RetryOvertakes ==
  ASSUME IInv, NEW c \in CommandId, Recordable(c), NEW d \in CommandId, RetryFailed(d)
  PROVE  Overtaken(c)
<1>1. PICK row : row = [commands[d] EXCEPT !.status = "pending"]
  OBVIOUS
<1>2. commands' = [commands EXCEPT ![d] = row] /\ versions' = versions
  BY <1>1 DEF RetryFailed
<1>3. CASE d = c
  <2>1. /\ row.status = "pending" /\ row.question = commands[c].question
        /\ row.kind = commands[c].kind /\ row.version = commands[c].version
    BY <1>1, <1>3, RecordableFacts DEF Command
  <2>2. commands'[c] = row
    BY <1>2, <1>3 DEF IInv, TypeOK
  <2>. QED
    BY <1>2, <2>1, <2>2, RecordableKept DEF Overtaken
<1>4. CASE d # c
  <2>1. commands'[c] = commands[c]
    BY <1>2, <1>4 DEF IInv, TypeOK
  <2>. QED
    BY <1>2, <2>1, SameRecordable DEF Overtaken
<1>. QED
  BY <1>3, <1>4

LEMMA OvertakenStep ==
  ASSUME IInv, [Next]_vars, NEW c \in CommandId, Recordable(c)
  PROVE  Overtaken(c)
<1>1. CASE UNCHANGED vars
  BY <1>1, SameRecordable DEF vars, Overtaken
<1>. QED
  BY <1>1, OperatorOvertakes, SenderOvertakes, EditorOvertakes, RetryOvertakes DEF Next

\* The version number that confirm_edit reserves is lost to a draft of
\* prepare_edit only; another edit, an outcome or a manual retry never takes it.
THEOREM OvertakenByDraft == Spec => OvertakenByDraftOnly
<1>1. IInv /\ [Next]_vars =>
        [\A c \in CommandId : Recordable(c) =>
           \/ Recordable(c)' \/ ~Present(c)' \/ commands'[c].status = "succeeded"
           \/ \E t \in Text : PrepareEdit(commands[c].question, t)]_vars
  BY OvertakenStep DEF Overtaken
<1>. QED
  BY <1>1, InductiveInvariant, PTL DEF Spec, OvertakenByDraftOnly

\* An edit that is to be done, or has failed.
Unrecorded(c) == IsEdit(c) /\ commands[c].status # "succeeded"

\* How an edit gets there: it was there before, or was just confirmed and has
\* the next version number.
Begun(c) == Unrecorded(c)' => Unrecorded(c) \/ Recordable(c)'

LEMMA SameBegun ==
  ASSUME NEW c \in CommandId, commands'[c] = commands[c]
  PROVE  Begun(c)
BY DEF Begun, Unrecorded, IsEdit, Present

LEMMA OperatorBegins ==
  ASSUME IInv, NEW c \in CommandId, NEW q \in Question,
         OperatorStep(q) \/ DeleteQuestion(q) \/ RemoveChat(q)
  PROVE  Begun(c)
<1>1. CASE UNCHANGED commands
  BY <1>1, SameBegun
<1>2. CASE DeleteQuestion(q)
  <2>1. commands'[c] = commands[c] \/ commands'[c] = NoCommand
    BY <1>2 DEF DeleteQuestion, WithoutCommandsOf
  <2>. QED
    BY <2>1, SameBegun DEF Begun, Unrecorded, IsEdit, Present, NoCommand
<1>3. CASE ConfirmSend(q)
  <2>1. PICK d, row :
          /\ d \in CommandId /\ row.kind = "send_reply"
          /\ commands' = [commands EXCEPT ![d] = row]
    BY <1>3 DEF ConfirmSend, NewCommand
  <2>2. commands'[c] = commands[c] \/ commands'[c].kind = "send_reply"
    BY <2>1 DEF IInv, TypeOK
  <2>. QED
    BY <2>2, SameBegun DEF Begun, Unrecorded, IsEdit
<1>4. CASE ConfirmEdit(q)
  <2>1. PICK d, row :
          /\ d \in CommandId
          /\ row.question = q /\ row.kind = "edit_reply" /\ row.status = "pending"
          /\ row.version = Len(versions[q]) + 1
          /\ commands' = [commands EXCEPT ![d] = row]
    BY <1>4 DEF ConfirmEdit, NewCommand
  <2>2. versions' = versions
    BY <1>4 DEF ConfirmEdit
  <2>3. CASE c = d
    <3>1. commands'[c] = row
      BY <2>1, <2>3 DEF IInv, TypeOK
    <3>. QED
      BY <2>1, <2>2, <3>1 DEF Begun, Recordable, IsEdit, Present
  <2>4. CASE c # d
    BY <2>1, <2>4, SameBegun DEF IInv, TypeOK
  <2>. QED
    BY <2>3, <2>4
<1>. QED
  BY <1>1, <1>2, <1>3, <1>4
     DEF OperatorStep, CreateVersion, PrepareEdit, OpenDraft, ReopenForEdit, CancelDraft,
         Dismiss, Reopen, MoveQuestion, RemoveChat

LEMMA SenderBegins ==
  ASSUME IInv, NEW c \in CommandId, NEW w \in SendWorker, SenderStep(w)
  PROVE  Begun(c)
<1>1. CASE commands' = commands
  BY <1>1, SameBegun
<1>2. CASE CompleteSend(w) \/ RetrySend(w) \/ FailSend(w)
  <2>1. sender[w] # Idle
    BY <1>2 DEF CompleteSend, RetrySend, FailSend, SenderAt
  <2>2. PICK d \in CommandId :
          d = sender[w].command /\ commands[d] \in Command /\ commands[d].kind = "send_reply"
    BY <2>1, SendingFacts
  <2>3. PICK row : commands' = [commands EXCEPT ![d] = row] /\ row.kind = "send_reply"
    <3>1. CASE CompleteSend(w)
      <4>1. PICK row : row = [commands[d] EXCEPT !.status = "succeeded",
                                            !.sentId = sender[w].result.id,
                                            !.attempts = Counted(d)]
        OBVIOUS
      <4>2. row.kind = "send_reply"
        BY <2>2, <4>1 DEF Command
      <4>. QED
        BY <2>2, <3>1, <4>1, <4>2 DEF CompleteSend
    <3>2. CASE RetrySend(w)
      <4>1. PICK row : row = [commands[d] EXCEPT !.error = sender[w].result.error,
                                            !.attempts = Counted(d)]
        OBVIOUS
      <4>2. row.kind = "send_reply"
        BY <2>2, <4>1 DEF Command
      <4>. QED
        BY <2>2, <3>2, <4>1, <4>2 DEF RetrySend
    <3>3. CASE FailSend(w)
      <4>1. PICK row : row = [commands[d] EXCEPT
                          !.status = IF sender[w].result.kind = "permanent"
                                     THEN "failed" ELSE "needs_review",
                          !.error = sender[w].result.error,
                          !.attempts = Counted(d)]
        OBVIOUS
      <4>2. row.kind = "send_reply"
        BY <2>2, <4>1 DEF Command
      <4>. QED
        BY <2>2, <3>3, <4>1, <4>2 DEF FailSend
    <3>. QED
      BY <1>2, <3>1, <3>2, <3>3
  <2>4. commands'[c] = commands[c] \/ commands'[c].kind = "send_reply"
    BY <2>3 DEF IInv, TypeOK
  <2>. QED
    BY <2>4, SameBegun DEF Begun, Unrecorded, IsEdit
<1>. QED
  BY <1>1, <1>2 DEF SenderStep, ClaimSend, ValidateSend, SendAccepted, SendRejected, AbortSend

LEMMA EditorBegins ==
  ASSUME IInv, NEW c \in CommandId, NEW w \in EditWorker, EditorStep(w)
  PROVE  Begun(c)
<1>1. CASE commands' = commands
  BY <1>1, SameBegun
<1>2. CASE CompleteEdit(w) \/ FailEdit(w)
  <2>1. editor[w] # Idle
    BY <1>2 DEF CompleteEdit, FailEdit, EditRefused, EditorAt
  <2>2. PICK d \in CommandId : d = editor[w].command
    BY <2>1, EditingFacts
  <2>3. Unrecorded(d)
    BY <2>1, <2>2, EditingFacts DEF Unrecorded, IInv, WorkersHoldPending
  <2>4. c # d => commands'[c] = commands[c]
    BY <1>2, <2>2 DEF CompleteEdit, FailEdit, IInv, TypeOK
  <2>. QED
    BY <2>3, <2>4, SameBegun DEF Begun
<1>. QED
  BY <1>1, <1>2 DEF EditorStep, ClaimEdit, ApplyEdit, EditRejected, AbortEdit

LEMMA BegunStep ==
  ASSUME IInv, [Next]_vars, NEW c \in CommandId
  PROVE  Begun(c)
<1>1. CASE UNCHANGED vars
  BY <1>1, SameBegun DEF vars
<1>2. ASSUME NEW d \in CommandId, RetryFailed(d)
      PROVE  Begun(c)
  <2>1. Unrecorded(d)
    BY <1>2 DEF RetryFailed, ManualRetryAllowed, Unrecorded
  <2>2. c # d => commands'[c] = commands[c]
    BY <1>2 DEF RetryFailed, IInv, TypeOK
  <2>. QED
    BY <2>1, <2>2, SameBegun DEF Begun
<1>. QED
  BY <1>1, <1>2, OperatorBegins, SenderBegins, EditorBegins DEF Next

\* A draft is stored while an edit of the same reply holds the next number.
Overtakes ==
  \E c \in CommandId, t \in Text : Recordable(c) /\ PrepareEdit(commands[c].question, t)

\* "appends the new final version only after Telegram confirms the edit": as long
\* as no new draft is stored beside an edit that is under way or has failed, every
\* edit that Telegram confirmed can be recorded (outbound_commands.py,
\* confirm_edit, complete_edit and retry_failed).
THEOREM EditsRecordedUnlessOvertaken ==
  Init /\ [][Next /\ ~Overtakes]_vars => []ConfirmedEditRecorded
<1> DEFINE AllRecordable == \A c \in CommandId : Unrecorded(c) => Recordable(c)
<1>1. Init => IInv /\ AllRecordable
  BY InitInv DEF Init, Unrecorded, IsEdit, Present, NoCommand
<1>2. IInv /\ [Next /\ ~Overtakes]_vars => IInv'
  BY NextInv
<1>3. IInv /\ AllRecordable /\ [Next /\ ~Overtakes]_vars => AllRecordable'
  <2>1. ASSUME IInv, AllRecordable, [Next /\ ~Overtakes]_vars,
               NEW c \in CommandId, Unrecorded(c)', Recordable(c)
        PROVE  Recordable(c)'
    <3>1. ~Overtakes => ~ \E t \in Text : PrepareEdit(commands[c].question, t)
      BY <2>1 DEF Overtakes
    <3>2. Present(c)' /\ commands'[c].status # "succeeded"
      BY <2>1 DEF Unrecorded, IsEdit
    <3>3. CASE UNCHANGED vars
      BY <2>1, <3>3, SameRecordable DEF vars
    <3>4. CASE Next /\ ~Overtakes
      BY <2>1, <3>1, <3>2, <3>4, OvertakenStep DEF Overtaken
    <3>. QED
      BY <2>1, <3>3, <3>4
  <2>. QED
    BY <2>1, BegunStep DEF Begun
<1>4. IInv /\ AllRecordable => ConfirmedEditRecorded
  <2>1. ASSUME IInv, AllRecordable, NEW w \in EditWorker, editor[w] # Idle
        PROVE  Recordable(editor[w].command)
    BY <2>1, EditingFacts DEF Unrecorded, IInv, WorkersHoldPending
  <2>. QED
    BY <2>1 DEF ConfirmedEditRecorded, EditorAt, Recordable
<1>. QED
  BY <1>1, <1>2, <1>3, <1>4, PTL
=============================================================================
