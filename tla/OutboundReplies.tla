-------------------------- MODULE OutboundReplies --------------------------
(***************************************************************************)
(* A detected question from the first draft to the reply (and its edits)   *)
(* that the working account has posted in Telegram: the repositories       *)
(* reply_drafts, question_feedback and outbound_commands, and the          *)
(* listener's SendReplyWorker and EditReplyWorker.                         *)
(*                                                                         *)
(* Every operation of a repository runs under the FOR UPDATE lock of its   *)
(* question row in one transaction, so it is one action.  A worker claims  *)
(* a command, talks to Telegram and records the outcome in ONE             *)
(* transaction: what it changes in the database before the commit is seen  *)
(* by nobody, only the row lock is.  The worker's position is therefore    *)
(* kept in sender[w] / editor[w], the row lock is "some worker holds c",   *)
(* and the columns change when the transaction commits.  An abort (kill,   *)
(* cancellation, an exception that leaves run_once) leaves the row as it   *)
(* was before the claim: pending, its attempt not counted.                 *)
(***************************************************************************)
EXTENDS Naturals, Sequences, FiniteSets

CONSTANTS
  Question,        \* rows of detected_questions
  Text,            \* texts an operator can type
  CommandId,       \* primary keys of outbound_commands
  SendWorker,      \* running SendReplyWorkers (two when a reconnect leaked one)
  EditWorker,      \* running EditReplyWorkers
  PausedQuestion,  \* questions whose chat the operator has disabled
  MaxVersions,     \* bound: reply_versions rows of one question
  MaxPosts         \* bound: messages Telegram accepts for one question

ASSUME BoundsAssumption ==
  /\ MaxVersions \in Nat
  /\ MaxPosts \in Nat
  /\ PausedQuestion \subseteq Question

\* A question Telegram and the operator can no longer reach: its row is gone.
QuestionStatus ==
  {"detected", "waiting_for_draft", "waiting_confirmation", "send_requested",
   "sent", "send_failed", "dismissed", "cancelled", "deleted"}

\* "processing" is never committed: the claim and its outcome commit together.
CommandStatus == {"absent", "pending", "succeeded", "failed", "needs_review"}

\* ACCESS_LOST stands for itself and CHAT_WRITE_FORBIDDEN (both ask for a chat
\* check), TARGET_GONE for SOURCE_MESSAGE_DELETED, TOPIC_DELETED, TOPIC_CLOSED.
ErrorCode ==
  {"none", "ACCESS_LOST", "TARGET_GONE", "FLOOD_WAIT", "UNKNOWN_ERROR",
   "INVALID_EDIT_TARGET"}

FailureKind == {"permanent", "temporary", "ambiguous"}

\* len(retry_delays): a temporary failure is retried after attempts 1..4.
MaxRetries == 4
\* attempt_count counts on past MaxRetries + 1; nothing tells the values apart.
AttemptCap == MaxRetries + 1

Version == [text : Text, action : {"draft", "sent", "edited"}]

Command ==
  [question : Question, kind : {"send_reply", "edit_reply"}, version : Nat,
   text : Text, status : CommandStatus \ {"absent"}, attempts : 0..AttemptCap,
   error : ErrorCode, sentId : Nat]
NoCommand == [status |-> "absent"]

\* What a worker got from _validate or from Telegram; id is 0 unless kind = "ok".
Result == [kind : FailureKind \cup {"ok", "none"}, error : ErrorCode, id : Nat]
NoResult == [kind |-> "none", error |-> "none", id |-> 0]
Accepted(id) == [kind |-> "ok", error |-> "none", id |-> id]
Failure(kind, error) == [kind |-> kind, error |-> error, id |-> 0]

Working ==
  [step : {"claimed", "validated", "answered"}, command : CommandId,
   result : Result]
Idle == [step |-> "idle"]

VARIABLES
  status,       \* detected_questions.status of each question
  versions,     \* its reply_versions, by version_number
  commands,     \* the rows of outbound_commands
  sender,       \* each SendReplyWorker: its open transaction
  editor,       \* each EditReplyWorker: its open transaction
  posts,        \* Telegram: the text each posted reply shows, by message id
  chatRemoved,  \* questions whose chat row is gone (monitored_chat_id is NULL)
  promptCheck   \* questions whose chat was scheduled for a prompt access check

workers == <<sender, editor>>
chats == <<chatRemoved, promptCheck>>
vars == <<status, versions, commands, workers, posts, chats>>

TypeOK ==
  /\ status \in [Question -> QuestionStatus]
  /\ versions \in [Question -> Seq(Version)]
  /\ commands \in [CommandId -> Command \cup {NoCommand}]
  /\ sender \in [SendWorker -> Working \cup {Idle}]
  /\ editor \in [EditWorker -> Working \cup {Idle}]
  /\ posts \in [Question -> Seq(Text)]
  /\ chatRemoved \subseteq Question
  /\ promptCheck \subseteq Question

Init ==
  /\ status = [q \in Question |-> "detected"]
  /\ versions = [q \in Question |-> <<>>]
  /\ commands = [c \in CommandId |-> NoCommand]
  /\ sender = [w \in SendWorker |-> Idle]
  /\ editor = [w \in EditWorker |-> Idle]
  /\ posts = [q \in Question |-> <<>>]
  /\ chatRemoved = {}
  /\ promptCheck = {}

-----------------------------------------------------------------------------
(* What the repositories look up.                                           *)

Present(c) == commands[c].status # "absent"
IsSend(c) == Present(c) /\ commands[c].kind = "send_reply"
IsEdit(c) == Present(c) /\ commands[c].kind = "edit_reply"

SendCommandsOf(q) == {c \in CommandId : IsSend(c) /\ commands[c].question = q}
EditCommandsOf(q) == {c \in CommandId : IsEdit(c) /\ commands[c].question = q}

\* The newest version; PreviewOldest forgets the descending order.
PreviewOldest(q) == versions[q][1]
Preview(q) == versions[q][Len(versions[q])]

LatestIsDraft(q) == versions[q] # <<>> /\ Preview(q).action = "draft"

HasFinal(q) ==
  \E i \in 1..Len(versions[q]) : versions[q][i].action \in {"sent", "edited"}

\* The message ids that _stored_sent_message_id may return for q.
StoredSentIds(q) ==
  {commands[c].sentId : c \in {d \in SendCommandsOf(q) :
      commands[d].status = "succeeded" /\ commands[d].sentId # 0}}

\* FOR UPDATE SKIP LOCKED; SendUnlocked forgets it.
SendUnlocked(c) == FALSE
SendLocked(c) == \E w \in SendWorker : sender[w] # Idle /\ sender[w].command = c
EditLocked(c) == \E w \in EditWorker : editor[w] # Idle /\ editor[w].command = c

NewCommand(q, kind, version, text, sentId) ==
  [question |-> q, kind |-> kind, version |-> version, text |-> text,
   status |-> "pending", attempts |-> 0, error |-> "none", sentId |-> sentId]

Counted(c) ==
  IF commands[c].attempts < AttemptCap THEN commands[c].attempts + 1 ELSE AttemptCap

-----------------------------------------------------------------------------
(* Drafts and feedback: ReplyDraftRepository, QuestionFeedbackRepository.    *)

MoveQuestion(q, from, to) ==
  /\ status[q] \in from
  /\ status' = [status EXCEPT ![q] = to]
  /\ UNCHANGED <<versions, commands, workers, posts, chats>>

\* OpenAny also opens a question whose reply is already confirmed.
OpenAny(q) ==
  MoveQuestion(q, {"detected", "waiting_for_draft", "waiting_confirmation",
                   "send_requested"}, "waiting_for_draft")

\* Without its chat open raises, but _open_question catches that inside the
\* transaction and returns: the status it had already set is committed.
OpenDraft(q) ==
  MoveQuestion(q, {"detected", "waiting_for_draft", "waiting_confirmation"},
               "waiting_for_draft")

ReopenForEdit(q) == MoveQuestion(q, {"waiting_confirmation"}, "waiting_for_draft")

\* CancelAny also cancels a question whose reply is already confirmed.
CancelAny(q) ==
  MoveQuestion(q, {"waiting_for_draft", "waiting_confirmation", "send_requested"},
               "cancelled")

CancelDraft(q) ==
  MoveQuestion(q, {"waiting_for_draft", "waiting_confirmation"}, "cancelled")

\* DismissOpened also dismisses a question that is being answered.
DismissOpened(q) == MoveQuestion(q, {"detected", "waiting_for_draft"}, "dismissed")
Dismiss(q) == MoveQuestion(q, {"detected"}, "dismissed")

Reopen(q) == MoveQuestion(q, {"dismissed"}, "detected")

CreateVersion(q, t) ==
  /\ status[q] = "waiting_for_draft"
  /\ q \notin chatRemoved
  /\ Len(versions[q]) < MaxVersions
  /\ versions' = [versions EXCEPT ![q] = Append(@, [text |-> t, action |-> "draft"])]
  /\ status' = [status EXCEPT ![q] = "waiting_confirmation"]
  /\ UNCHANGED <<commands, workers, posts, chats>>

(* A repeated confirmation while the question is "send_requested" only       *)
(* returns the existing command: it changes nothing and is a stutter here.   *)
ConfirmSend(q) ==
  /\ SendCommandsOf(q) = {}
  /\ status[q] = "waiting_confirmation"
  /\ LatestIsDraft(q)
  /\ Len(versions[q]) < MaxVersions
  /\ LET text == Preview(q).text
         final == Len(versions[q]) + 1
     IN \E c \in CommandId :
          /\ ~Present(c)
          /\ commands' = [commands EXCEPT
                            ![c] = NewCommand(q, "send_reply", final, text, 0)]
          /\ versions' = [versions EXCEPT
                            ![q] = Append(@, [text |-> text, action |-> "sent"])]
  /\ status' = [status EXCEPT ![q] = "send_requested"]
  /\ UNCHANGED <<workers, posts, chats>>

-----------------------------------------------------------------------------
(* Edits of a sent reply, before the worker sees them.                       *)

PrepareEdit(q, t) ==
  /\ status[q] = "sent"
  /\ HasFinal(q)
  /\ StoredSentIds(q) # {}
  /\ Len(versions[q]) < MaxVersions
  /\ versions' = [versions EXCEPT ![q] = Append(@, [text |-> t, action |-> "draft"])]
  /\ UNCHANGED <<status, commands, workers, posts, chats>>

\* idempotency_key = question : edit_reply : preview, and reply_version = preview + 1.
\* EditKeyTakenPending forgets the edits that are done.
EditKeyTakenPending(q) ==
  \E c \in EditCommandsOf(q) :
    commands[c].status = "pending" /\ commands[c].version = Len(versions[q]) + 1
EditKeyTaken(q) ==
  \E c \in EditCommandsOf(q) : commands[c].version = Len(versions[q]) + 1

ConfirmEdit(q) ==
  /\ status[q] = "sent"
  /\ LatestIsDraft(q)
  /\ ~EditKeyTaken(q)
  /\ \E c \in CommandId, id \in StoredSentIds(q) :
       /\ ~Present(c)
       /\ commands' = [commands EXCEPT
            ![c] = NewCommand(q, "edit_reply", Len(versions[q]) + 1,
                              Preview(q).text, id)]
  /\ UNCHANGED <<status, versions, workers, posts, chats>>

\* ManualRetryAny takes every failed command, sends too.
ManualRetryAny(c) ==
  Present(c) /\ commands[c].status \in {"failed", "needs_review"}

ManualRetryAllowed(c) ==
  /\ IsEdit(c)
  /\ commands[c].status = "failed"
  /\ commands[c].sentId # 0
  /\ commands[c].error = "UNKNOWN_ERROR"

RetryFailed(c) ==
  /\ ManualRetryAllowed(c)
  /\ commands' = [commands EXCEPT ![c].status = "pending"]
  /\ UNCHANGED <<status, versions, workers, posts, chats>>

-----------------------------------------------------------------------------
(* SendReplyWorker.run_once.  Which due command is the oldest depends on     *)
(* retry delays; any pending command that is not locked may be the one.      *)

Claim(c) == [step |-> "claimed", command |-> c, result |-> NoResult]

ClaimSend(w, c) ==
  /\ sender[w] = Idle
  /\ IsSend(c)
  /\ commands[c].status = "pending"
  /\ ~SendLocked(c)
  /\ sender' = [sender EXCEPT ![w] = Claim(c)]
  /\ UNCHANGED <<status, versions, commands, editor, posts, chats>>

SenderAt(w, step) == sender[w] # Idle /\ sender[w].step = step

AnswerSender(w, result) ==
  sender' = [sender EXCEPT ![w].step = "answered", ![w].result = result]

ValidationFailures ==
  {Failure("permanent", "ACCESS_LOST"), Failure("permanent", "TARGET_GONE"),
   Failure("temporary", "UNKNOWN_ERROR")}

SendRejections ==
  {Failure("permanent", "ACCESS_LOST"), Failure("permanent", "TARGET_GONE"),
   Failure("temporary", "FLOOD_WAIT")}

Unclear == Failure("ambiguous", "UNKNOWN_ERROR")

\* _validate: a question that is not "send_requested" raises and aborts instead.
ValidateSend(w) ==
  /\ SenderAt(w, "claimed")
  /\ status[commands[sender[w].command].question] = "send_requested"
  /\ \/ sender' = [sender EXCEPT ![w].step = "validated"]
     \/ \E failure \in ValidationFailures : AnswerSender(w, failure)
  /\ UNCHANGED <<status, versions, commands, editor, posts, chats>>

Post(q, t) ==
  /\ Len(posts[q]) < MaxPosts
  /\ posts' = [posts EXCEPT ![q] = Append(@, t)]

\* Telegram accepts the message; the client learns its id, or cannot tell.
SendAccepted(w) ==
  /\ SenderAt(w, "validated")
  /\ LET command == commands[sender[w].command] IN
       /\ Post(command.question, command.text)
       /\ \/ AnswerSender(w, Accepted(Len(posts[command.question]) + 1))
          \/ AnswerSender(w, Unclear)
  /\ UNCHANGED <<status, versions, commands, editor, chats>>

SendRejected(w) ==
  /\ SenderAt(w, "validated")
  /\ \E failure \in SendRejections \cup {Unclear} : AnswerSender(w, failure)
  /\ UNCHANGED <<status, versions, commands, editor, posts, chats>>

CompleteSend(w) ==
  LET c == sender[w].command
      q == commands[c].question
  IN /\ SenderAt(w, "answered")
     /\ sender[w].result.kind = "ok"
     /\ status[q] = "send_requested"
     /\ commands' = [commands EXCEPT ![c].status = "succeeded",
                                     ![c].sentId = sender[w].result.id,
                                     ![c].attempts = Counted(c)]
     /\ status' = [status EXCEPT ![q] = "sent"]
     /\ sender' = [sender EXCEPT ![w] = Idle]
     /\ UNCHANGED <<versions, editor, posts, chats>>

\* request_chat_verification: a disabled or removed chat is left alone;
\* NoChatVerification forgets the request.
NoChatVerification(q, error) == UNCHANGED chats
RequestChatVerification(q, error) ==
  /\ promptCheck' = IF error = "ACCESS_LOST" /\ q \notin PausedQuestion \cup chatRemoved
                    THEN promptCheck \cup {q}
                    ELSE promptCheck
  /\ UNCHANGED chatRemoved

\* RetryableOneMore compares the stored count; RetryableForever never gives up;
\* RetryableUnclear retries what may have been delivered.
RetryableUnclear(c, result) ==
  /\ result.kind # "permanent"
  /\ result.error = "FLOOD_WAIT" \/ Counted(c) <= MaxRetries
RetryableOneMore(c, result) ==
  /\ result.kind = "temporary"
  /\ result.error = "FLOOD_WAIT" \/ commands[c].attempts <= MaxRetries
RetryableForever(c, result) == result.kind = "temporary"

RetryableSend(c, result) ==
  /\ result.kind = "temporary"
  /\ result.error = "FLOOD_WAIT" \/ Counted(c) <= MaxRetries

RetrySend(w) ==
  LET c == sender[w].command
      result == sender[w].result
  IN /\ SenderAt(w, "answered")
     /\ RetryableSend(c, result)
     /\ commands' = [commands EXCEPT ![c].error = result.error,
                                     ![c].attempts = Counted(c)]
     /\ sender' = [sender EXCEPT ![w] = Idle]
     /\ UNCHANGED <<status, versions, editor, posts, chats>>

FailSend(w) ==
  LET c == sender[w].command
      q == commands[c].question
      result == sender[w].result
  IN /\ SenderAt(w, "answered")
     /\ result.kind \in FailureKind
     /\ ~RetryableSend(c, result)
     /\ commands' = [commands EXCEPT
          ![c].status = IF result.kind = "permanent" THEN "failed" ELSE "needs_review",
          ![c].error = result.error,
          ![c].attempts = Counted(c)]
     /\ status' = [status EXCEPT ![q] = "send_failed"]
     /\ RequestChatVerification(q, result.error)
     /\ sender' = [sender EXCEPT ![w] = Idle]
     /\ UNCHANGED <<versions, editor, posts>>

(* The transaction is rolled back: the process is killed, the MTProto link   *)
(* drops and the task is cancelled, an exception other than                  *)
(* TelegramOutboundError leaves run_once, or the commit fails.               *)
AbortSend(w) ==
  /\ sender[w] # Idle
  /\ sender' = [sender EXCEPT ![w] = Idle]
  /\ UNCHANGED <<status, versions, commands, editor, posts, chats>>

-----------------------------------------------------------------------------
(* EditReplyWorker.run_once.                                                 *)

ClaimEdit(w, c) ==
  /\ editor[w] = Idle
  /\ IsEdit(c)
  /\ commands[c].status = "pending"
  /\ ~EditLocked(c)
  /\ editor' = [editor EXCEPT ![w] = Claim(c)]
  /\ UNCHANGED <<status, versions, commands, sender, posts, chats>>

EditorAt(w, step) == editor[w] # Idle /\ editor[w].step = step

ValidEditTarget(c) ==
  status[commands[c].question] = "sent" /\ commands[c].sentId # 0

AnswerEditor(w, result) ==
  editor' = [editor EXCEPT ![w].step = "answered", ![w].result = result]

\* Editing the same text again changes nothing and Telegram refuses it.
EditRejections ==
  {Failure("permanent", "ACCESS_LOST"), Failure("permanent", "TARGET_GONE"),
   Failure("temporary", "FLOOD_WAIT"), Unclear}

ApplyEdit(w) ==
  LET command == commands[editor[w].command] IN
    /\ EditorAt(w, "claimed")
    /\ ValidEditTarget(editor[w].command)
    /\ posts[command.question][command.sentId] # command.text
    /\ posts' = [posts EXCEPT ![command.question][command.sentId] = command.text]
    /\ \/ AnswerEditor(w, Accepted(command.sentId))
       \/ AnswerEditor(w, Unclear)
    /\ UNCHANGED <<status, versions, commands, sender, chats>>

EditRejected(w) ==
  /\ EditorAt(w, "claimed")
  /\ ValidEditTarget(editor[w].command)
  /\ \E failure \in EditRejections : AnswerEditor(w, failure)
  /\ UNCHANGED <<status, versions, commands, sender, posts, chats>>

\* A version number that is taken violates uq_reply_versions_question_version:
\* the insert raises and only AbortEdit is left.
CompleteEdit(w) ==
  LET c == editor[w].command
      q == commands[c].question
  IN /\ EditorAt(w, "answered")
     /\ editor[w].result.kind = "ok"
     /\ status[q] = "sent"
     /\ commands[c].version = Len(versions[q]) + 1
     /\ versions' = [versions EXCEPT
          ![q] = Append(@, [text |-> commands[c].text, action |-> "edited"])]
     /\ commands' = [commands EXCEPT ![c].status = "succeeded",
                                     ![c].attempts = Counted(c)]
     /\ editor' = [editor EXCEPT ![w] = Idle]
     /\ UNCHANGED <<status, sender, posts, chats>>

EditRefused(w) ==
  \/ EditorAt(w, "claimed") /\ ~ValidEditTarget(editor[w].command)
  \/ EditorAt(w, "answered") /\ editor[w].result.kind # "ok"

FailEdit(w) ==
  LET c == editor[w].command IN
    /\ EditRefused(w)
    /\ commands' = [commands EXCEPT
         ![c].status = "failed",
         ![c].error = IF editor[w].step = "claimed" THEN "INVALID_EDIT_TARGET"
                      ELSE editor[w].result.error,
         ![c].attempts = Counted(c)]
    /\ editor' = [editor EXCEPT ![w] = Idle]
    /\ UNCHANGED <<status, versions, sender, posts, chats>>

AbortEdit(w) ==
  /\ editor[w] # Idle
  /\ editor' = [editor EXCEPT ![w] = Idle]
  /\ UNCHANGED <<status, versions, commands, sender, posts, chats>>

-----------------------------------------------------------------------------
(* RetentionRepository: the row of a question older than its retention is    *)
(* deleted, its versions and commands with it (ON DELETE CASCADE).  The      *)
(* delete waits for a worker that holds one of the commands.  KeepEditsOf     *)
(* forgets the cascade to the edits.                                         *)
KeepEditsOf(q) ==
  [c \in CommandId |-> IF c \in SendCommandsOf(q) THEN NoCommand ELSE commands[c]]
WithoutCommandsOf(q) ==
  [c \in CommandId |-> IF Present(c) /\ commands[c].question = q
                       THEN NoCommand ELSE commands[c]]

DeleteQuestion(q) ==
  /\ status[q] # "deleted"
  /\ \A c \in SendCommandsOf(q) : ~SendLocked(c)
  /\ \A c \in EditCommandsOf(q) : ~EditLocked(c)
  /\ status' = [status EXCEPT ![q] = "deleted"]
  /\ versions' = [versions EXCEPT ![q] = <<>>]
  /\ commands' = WithoutCommandsOf(q)
  /\ UNCHANGED <<workers, posts, chats>>

\* MonitoredChatRepository.remove: the question row outlives its chat.
RemoveChat(q) ==
  /\ status[q] # "deleted"
  /\ q \notin chatRemoved
  /\ chatRemoved' = chatRemoved \cup {q}
  /\ UNCHANGED <<status, versions, commands, workers, posts, promptCheck>>

-----------------------------------------------------------------------------
OperatorStep(q) ==
  \/ OpenDraft(q) \/ ReopenForEdit(q) \/ CancelDraft(q)
  \/ Dismiss(q) \/ Reopen(q)
  \/ \E t \in Text : CreateVersion(q, t) \/ PrepareEdit(q, t)
  \/ ConfirmSend(q) \/ ConfirmEdit(q)

SenderStep(w) ==
  \/ \E c \in CommandId : ClaimSend(w, c)
  \/ ValidateSend(w) \/ SendAccepted(w) \/ SendRejected(w)
  \/ CompleteSend(w) \/ RetrySend(w) \/ FailSend(w) \/ AbortSend(w)

EditorStep(w) ==
  \/ \E c \in CommandId : ClaimEdit(w, c)
  \/ ApplyEdit(w) \/ EditRejected(w)
  \/ CompleteEdit(w) \/ FailEdit(w) \/ AbortEdit(w)

Next ==
  \/ \E q \in Question : OperatorStep(q) \/ DeleteQuestion(q) \/ RemoveChat(q)
  \/ \E c \in CommandId : RetryFailed(c)
  \/ \E w \in SendWorker : SenderStep(w)
  \/ \E w \in EditWorker : EditorStep(w)

Spec == Init /\ [][Next]_vars

(* Fairness.  run_forever polls without end and takes the oldest due command *)
(* first, so a command that is free again and again is claimed.  An abort is *)
(* a crash or a dropped link: it may hit an attempt anywhere, but it does    *)
(* not hit every validation, every answer and every commit (SF).  Telegram's *)
(* flood limit ends: of infinitely many attempts one is answered otherwise.  *)
SettledAnswer(w) ==
  \/ SendAccepted(w)
  \/ SendRejected(w) /\ sender'[w].result.error # "FLOOD_WAIT"

SettledRetry(w) == RetrySend(w) /\ sender[w].result.error # "FLOOD_WAIT"

Fairness ==
  \A w \in SendWorker :
    /\ WF_vars(SenderStep(w))
    /\ \A c \in CommandId : SF_vars(ClaimSend(w, c))
    /\ SF_vars(ValidateSend(w))
    /\ SF_vars(SettledAnswer(w))
    /\ SF_vars(CompleteSend(w))
    /\ SF_vars(FailSend(w))
    /\ SF_vars(SettledRetry(w))

FairSpec == Spec /\ Fairness

-----------------------------------------------------------------------------
(* Properties.                                                               *)

SendStatusFor ==
  [send_requested |-> {"pending"}, sent |-> {"succeeded"},
   send_failed |-> {"failed", "needs_review"}]

\* The question the operator sees and the send command the listener works on
\* never disagree, although three transactions (confirm_send, complete_send,
\* fail_send) and a cascade delete write the two rows; and a question never has
\* two send commands, whatever is clicked twice or drafted again.
QuestionMatchesSend ==
  /\ \A c \in CommandId : IsSend(c) =>
       LET q == commands[c].question IN
         /\ status[q] \in DOMAIN SendStatusFor
         /\ commands[c].status \in SendStatusFor[status[q]]
         /\ status[q] = "sent" => commands[c].sentId \in 1..Len(posts[q])
  /\ \A q \in Question :
       status[q] \in DOMAIN SendStatusFor => SendCommandsOf(q) # {}
  /\ \A c, d \in CommandId :
       IsSend(c) /\ IsSend(d) /\ commands[c].question = commands[d].question => c = d

\* Whatever becomes final was previewed: the version numbered just below a
\* "sent" or "edited" version is the draft with the same text, and a message
\* in Telegram shows the text of some confirmed command of its question.
PublishedWasPreviewed ==
  /\ \A q \in Question : \A i \in 1..Len(versions[q]) :
       versions[q][i].action # "draft" =>
         i > 1 /\ versions[q][i - 1] = [text |-> versions[q][i].text, action |-> "draft"]
  /\ \A q \in Question : status[q] # "deleted" =>
       \A i \in 1..Len(posts[q]) : \E c \in CommandId :
         Present(c) /\ commands[c].question = q /\ commands[c].text = posts[q][i]

\* One preview never becomes two edit commands, whether the first is pending,
\* failed or done (the idempotency key of confirm_edit).
OneCommandPerPreview ==
  \A c, d \in CommandId :
    /\ IsEdit(c) /\ IsEdit(d)
    /\ commands[c].question = commands[d].question
    /\ commands[c].version = commands[d].version
    => c = d

\* Two workers never act on the same command: the row lock of the claim lasts
\* until the outcome is committed, and only pending commands are held.
ExclusiveClaims ==
  /\ \A v, w \in SendWorker :
       v # w /\ sender[v] # Idle /\ sender[w] # Idle
         => sender[v].command # sender[w].command
  /\ \A v, w \in EditWorker :
       v # w /\ editor[v] # Idle /\ editor[w] # Idle
         => editor[v].command # editor[w].command

\* The check "INVALID_EDIT_TARGET" of EditReplyWorker.run_once never fires: an
\* edit command exists only while its question is sent, and edits its message.
EditTargetValid ==
  \A c \in CommandId : IsEdit(c) =>
    LET q == commands[c].question IN
      status[q] = "sent" /\ commands[c].sentId \in StoredSentIds(q)

\* A temporary failure other than FLOOD_WAIT is retried at most MaxRetries
\* times, however FLOOD_WAITs and aborts are mixed with it (_record_error).
RetriesBounded ==
  \A c \in CommandId :
    IsSend(c) /\ commands[c].status = "pending" /\ commands[c].error = "UNKNOWN_ERROR"
      => commands[c].attempts <= MaxRetries

\* A send that failed because access is lost has asked for a prompt check of
\* its chat, unless the operator had paused or removed the chat.
AccessLossRequestsCheck ==
  \A c \in CommandId :
    IsSend(c) /\ commands[c].status = "failed" /\ commands[c].error = "ACCESS_LOST"
      => commands[c].question \in promptCheck \cup PausedQuestion \cup chatRemoved

\* A recorded outcome of a send is final: the command is not sent again, by a
\* worker or by the operator's retry button, however unclear the outcome was;
\* and Telegram gets a message only for a send that is still pending.
SendOutcomeFinal ==
  [][/\ \A c \in CommandId :
          IsSend(c) /\ commands[c].status # "pending"
            => commands'[c] \in {commands[c], NoCommand}
     /\ \A q \in Question :
          Len(posts'[q]) > Len(posts[q])
            => \E c \in SendCommandsOf(q) : commands[c].status = "pending"]_vars

\* A worker that has sent the message, for all it can know.
MayHaveSent(w) == SenderAt(w, "answered") /\ sender[w].result.kind \in {"ok", "ambiguous"}

\* The reply is shown, its command is pending, and no worker is about to record
\* it: the next claim posts it again.
Repeatable(q) ==
  /\ posts[q] # <<>>
  /\ \E c \in SendCommandsOf(q) :
       /\ commands[c].status = "pending"
       /\ ~\E w \in SendWorker : MayHaveSent(w) /\ sender[w].command = c

LateAbort(q) ==
  \E w \in SendWorker :
    MayHaveSent(w) /\ commands[sender[w].command].question = q /\ AbortSend(w)

\* A reply is posted twice for one reason only: the transaction of a worker is
\* rolled back after Telegram may have accepted the message.  No retry, no
\* unclear answer, no second worker and no click leads there.
DuplicateOnlyByAbort ==
  [][\A q \in Question :
       /\ Repeatable(q)' => Repeatable(q) \/ LateAbort(q)
       /\ posts[q] # <<>> /\ Len(posts'[q]) > Len(posts[q]) => Repeatable(q)]_vars

\* The edit may still be recorded under the version number it has reserved.
Recordable(c) ==
  /\ IsEdit(c)
  /\ commands[c].status # "succeeded"
  /\ commands[c].version = Len(versions[commands[c].question]) + 1

\* Only a draft stored by prepare_edit takes the number an edit has reserved:
\* no other edit, no retry and no outcome does.
OvertakenByDraftOnly ==
  [][\A c \in CommandId : Recordable(c) =>
       \/ Recordable(c)' \/ ~Present(c)' \/ commands'[c].status = "succeeded"
       \/ \E t \in Text : PrepareEdit(commands[c].question, t)]_vars

\* A confirmed reply does not stay "send_requested" for ever.
ConfirmedSendSettles ==
  \A q \in Question :
    status[q] = "send_requested" ~> status[q] \in {"sent", "send_failed", "deleted"}

(* The promise to the operator (module ReplyPromise) and how this module      *)
(* keeps it: a question is open until its send command exists, and the texts *)
(* of its commands are the approved ones.                                    *)

PhaseOf(q) ==
  CASE status[q] = "send_requested" -> "confirmed"
    [] status[q] = "sent" -> "sent"
    [] status[q] = "send_failed" -> "failed"
    [] status[q] = "deleted" -> "gone"
    [] OTHER -> "open"

ApprovedTexts(q) ==
  {commands[c].text : c \in {d \in CommandId : Present(d) /\ commands[d].question = q}}

ShownTexts(q) == {posts[q][i] : i \in 1..Len(posts[q])}

Promise == INSTANCE ReplyPromise WITH
  phase <- [q \in Question |-> PhaseOf(q)],
  approved <- [q \in Question |-> ApprovedTexts(q)],
  shown <- [q \in Question |-> ShownTexts(q)]

\* The repositories and the two workers, however they are interleaved, aborted
\* and repeated, are an implementation of ReplyPromise: no text is shown that
\* the operator did not confirm, and no outcome is recorded twice or undone.
PromiseKept == Promise!Spec

(* The life of a question (module QuestionLifecycle), as it shows here: a     *)
(* question is drafted when it has a version.                                *)

Lifecycle == INSTANCE QuestionLifecycle WITH
  drafted <- {q \in Question : versions[q] # <<>>}

\* Repositories and workers together take a question along the edges of its
\* life only, each of them writing the status in transactions of its own.
LifecycleKept == Lifecycle!Spec

(* What holds the properties together: with it they are inductive.           *)

\* A worker holds a command that exists, is of its kind, and is pending.
WorkersHoldPending ==
  /\ \A w \in SendWorker : sender[w] # Idle =>
       IsSend(sender[w].command) /\ commands[sender[w].command].status = "pending"
  /\ \A w \in EditWorker : editor[w] # Idle =>
       IsEdit(editor[w].command) /\ commands[editor[w].command].status = "pending"

\* The message id that send_reply returned is the id of a message in Telegram.
AcceptedIsPosted ==
  \A w \in SendWorker : sender[w] # Idle /\ sender[w].result.kind = "ok" =>
    sender[w].result.id \in 1..Len(posts[commands[sender[w].command].question])

\* An edit command carries the text of the draft numbered just below it.
EditFollowsPreview ==
  \A c \in CommandId : IsEdit(c) =>
    LET q == commands[c].question
        preview == commands[c].version - 1
    IN /\ preview \in 1..Len(versions[q])
       /\ versions[q][preview] = [text |-> commands[c].text, action |-> "draft"]

\* The inductive invariant: no transaction of the repositories or the workers,
\* committed or aborted, leads out of it.
IInv ==
  /\ TypeOK
  /\ QuestionMatchesSend
  /\ PublishedWasPreviewed
  /\ OneCommandPerPreview
  /\ ExclusiveClaims
  /\ EditTargetValid
  /\ RetriesBounded
  /\ AccessLossRequestsCheck
  /\ WorkersHoldPending
  /\ AcceptedIsPosted
  /\ EditFollowsPreview

(* Promises of the documentation that the code does not keep.                *)

\* "idempotent send ... no auto-retry on ambiguous results" (README), "нет
\* duplicate replies" (SPEC): one confirmed reply is posted at most once.
NoDuplicateReply == \A q \in Question : Len(posts[q]) <= 1

\* complete_edit appends "the new final version only after Telegram confirms
\* the edit": an edit that Telegram confirmed can be recorded.
ConfirmedEditRecorded ==
  \A w \in EditWorker :
    EditorAt(w, "answered") /\ editor[w].result.kind = "ok" =>
      LET command == commands[editor[w].command] IN
        command.version = Len(versions[command.question]) + 1
=============================================================================
