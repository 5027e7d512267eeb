--------------------- MODULE OutboundReplies_refinement ---------------------
(* OutboundReplies implements ReplyPromise, for every set of questions,      *)
(* texts, commands and workers.  Each step either leaves the three mapped    *)
(* variables alone or is one action of ReplyPromise; which one needs the     *)
(* inductive invariant, proved in OutboundReplies_proofs.                    *)
EXTENDS OutboundReplies_proofs

Phases == [q \in Question |-> PhaseOf(q)]
Approvals == [q \in Question |-> ApprovedTexts(q)]
Display == [q \in Question |-> ShownTexts(q)]

\* The next-state relation of ReplyPromise, of one question.
PromiseStep(q) ==
  \/ \E t \in Text : \/ Promise!Approve(q, t)
                     \/ Promise!ApproveEdit(q, t)
                     \/ Promise!PublishEdit(q, t)
  \/ Promise!Publish(q)
  \/ \E outcome \in {"sent", "failed"} : Promise!Settle(q, outcome)
  \/ Promise!Close(q)

-----------------------------------------------------------------------------
(* What a step has to keep for a mapped variable to stay.                    *)

LEMMA PhasesKept ==
  ASSUME \A q \in Question : PhaseOf(q)' = PhaseOf(q)
  PROVE  Phases' = Phases
BY DEF Phases

LEMMA PhaseChanged ==
  ASSUME NEW q \in Question, NEW p, PhaseOf(q)' = p,
         \A r \in Question \ {q} : status'[r] = status[r]
  PROVE  Phases' = [Phases EXCEPT ![q] = p]
<1>1. \A r \in Question \ {q} : PhaseOf(r)' = PhaseOf(r)
  BY DEF PhaseOf
<1>. QED
  BY <1>1 DEF Phases

\* No command appears, disappears or changes its question or its text.
SameTexts ==
  \A c \in CommandId :
    /\ Present(c)' = Present(c)
    /\ Present(c) => /\ commands'[c].question = commands[c].question
                     /\ commands'[c].text = commands[c].text

LEMMA ApprovalsKept ==
  ASSUME SameTexts
  PROVE  Approvals' = Approvals
<1>1. \A q \in Question : ApprovedTexts(q)' = ApprovedTexts(q)
  BY DEF SameTexts, ApprovedTexts
<1>. QED
  BY <1>1 DEF Approvals

\* The row of one present command gets new values; question and text stay.
LEMMA RowKept ==
  ASSUME IInv, NEW c \in CommandId, Present(c), NEW row,
         row.status # "absent", row.question = commands[c].question,
         row.text = commands[c].text,
         commands' = [commands EXCEPT ![c] = row]
  PROVE  SameTexts
BY DEF SameTexts, Present, IInv, TypeOK

LEMMA ApprovalsAdd ==
  ASSUME NEW c \in CommandId, ~Present(c), NEW q \in Question, NEW row, NEW text,
         row.status # "absent", row.question = q, row.text = text,
         commands'[c] = row,
         \A d \in CommandId \ {c} : commands'[d] = commands[d]
  PROVE  Approvals' = [Approvals EXCEPT ![q] = ApprovedTexts(q) \cup {text}]
<1>1. ApprovedTexts(q)' = ApprovedTexts(q) \cup {text}
  BY DEF ApprovedTexts, Present
<1>2. \A r \in Question \ {q} : ApprovedTexts(r)' = ApprovedTexts(r)
  BY DEF ApprovedTexts, Present
<1>. QED
  BY <1>1, <1>2 DEF Approvals

LEMMA DisplayKept ==
  ASSUME UNCHANGED posts
  PROVE  Display' = Display
BY DEF Display, ShownTexts

-----------------------------------------------------------------------------
(* Steps that the promise does not see.                                      *)

Quiet == Phases' = Phases /\ Approvals' = Approvals /\ Display' = Display

LEMMA SameRowsQuiet ==
  ASSUME UNCHANGED <<status, commands, posts>>
  PROVE  Quiet
<1>1. \A q \in Question : PhaseOf(q)' = PhaseOf(q)
  BY DEF PhaseOf
<1>2. SameTexts
  BY DEF SameTexts, Present
<1>. QED
  BY <1>1, <1>2, PhasesKept, ApprovalsKept, DisplayKept DEF Quiet

OpenStatus ==
  {"detected", "waiting_for_draft", "waiting_confirmation", "dismissed", "cancelled"}

LEMMA DraftingQuiet ==
  ASSUME TypeOK, NEW q \in Question, NEW to \in OpenStatus, status[q] \in OpenStatus,
         status' = [status EXCEPT ![q] = to], UNCHANGED <<commands, posts>>
  PROVE  Quiet
<1>1. status'[q] = to /\ \A r \in Question \ {q} : status'[r] = status[r]
  BY DEF TypeOK
<1>2. PhaseOf(q)' = "open" /\ PhaseOf(q) = "open"
  BY <1>1 DEF PhaseOf, OpenStatus
<1>3. \A r \in Question : PhaseOf(r)' = PhaseOf(r)
  BY <1>1, <1>2 DEF PhaseOf
<1>4. SameTexts
  BY DEF SameTexts, Present
<1>. QED
  BY <1>3, <1>4, PhasesKept, ApprovalsKept, DisplayKept DEF Quiet

LEMMA OutcomeQuiet ==
  ASSUME IInv, NEW c \in CommandId, Present(c), NEW row,
         row.status # "absent", row.question = commands[c].question,
         row.text = commands[c].text,
         commands' = [commands EXCEPT ![c] = row], UNCHANGED <<status, posts>>
  PROVE  Quiet
<1>1. \A q \in Question : PhaseOf(q)' = PhaseOf(q)
  BY DEF PhaseOf
<1>2. SameTexts
  BY RowKept
<1>. QED
  BY <1>1, <1>2, PhasesKept, ApprovalsKept, DisplayKept DEF Quiet

LEMMA MoveQuiet ==
  ASSUME TypeOK, NEW q \in Question, NEW from, from \subseteq OpenStatus,
         NEW to \in OpenStatus, MoveQuestion(q, from, to)
  PROVE  Quiet
BY DraftingQuiet DEF MoveQuestion

-----------------------------------------------------------------------------
(* One lemma per kind of step.                                               *)

LEMMA ConfirmSendApproves ==
  ASSUME IInv, NEW q \in Question, ConfirmSend(q)
  PROVE  PromiseStep(q)
<1>1. PICK c \in CommandId :
        /\ ~Present(c)
        /\ commands' = [commands EXCEPT
             ![c] = NewCommand(q, "send_reply", Len(versions[q]) + 1, Preview(q).text, 0)]
  BY DEF ConfirmSend
<1>2. Preview(q).text \in Text
  BY PreviewType DEF ConfirmSend, IInv
<1>3. /\ status[q] = "waiting_confirmation"
      /\ status' = [status EXCEPT ![q] = "send_requested"]
      /\ SendCommandsOf(q) = {}
      /\ UNCHANGED posts
  BY DEF ConfirmSend
<1>4. status'[q] = "send_requested" /\ \A r \in Question \ {q} : status'[r] = status[r]
  BY <1>3 DEF IInv, TypeOK
<1>5. PhaseOf(q) = "open" /\ PhaseOf(q)' = "confirmed"
  BY <1>3, <1>4 DEF PhaseOf
<1>6. Phases' = [Phases EXCEPT ![q] = "confirmed"]
  BY <1>4, <1>5, PhaseChanged
<1>7. ApprovedTexts(q) = {}
  <2>1. ASSUME NEW d \in CommandId, Present(d), commands[d].question = q
        PROVE  FALSE
    <3>1. IsSend(d) \/ IsEdit(d)
      BY <2>1, PresentIsCommand DEF IInv, IsSend, IsEdit, Command
    <3>2. ~IsEdit(d)
      BY <1>3, <2>1 DEF IInv, EditTargetValid
    <3>. QED
      BY <1>3, <2>1, <3>1, <3>2 DEF SendCommandsOf
  <2>. QED
    BY <2>1 DEF ApprovedTexts
<1>8. Approvals' = [Approvals EXCEPT ![q] = @ \cup {Preview(q).text}]
  <2>0. PICK row : row = NewCommand(q, "send_reply", Len(versions[q]) + 1, Preview(q).text, 0)
    OBVIOUS
  <2>1. row.status # "absent" /\ row.question = q /\ row.text = Preview(q).text
    BY <2>0 DEF NewCommand
  <2>2. /\ ~Present(c) /\ commands'[c] = row
        /\ \A d \in CommandId \ {c} : commands'[d] = commands[d]
    BY <1>1, <2>0 DEF IInv, TypeOK
  <2>3. PICK text : text = Preview(q).text
    OBVIOUS
  <2>4. Approvals' = [Approvals EXCEPT ![q] = ApprovedTexts(q) \cup {text}]
    BY <2>1, <2>2, <2>3, ApprovalsAdd
  <2>. QED
    BY <2>3, <2>4 DEF Approvals
<1>9. Approvals' = [Approvals EXCEPT ![q] = {Preview(q).text}]
  BY <1>7, <1>8 DEF Approvals
<1>10. Phases[q] = "open"
  BY <1>5 DEF Phases
<1>11. Display' = Display
  BY <1>3, DisplayKept
<1>12. Promise!Approve(q, Preview(q).text)
  BY <1>6, <1>9, <1>10, <1>11 DEF Promise!Approve, Phases, Approvals, Display
<1>. QED
  BY <1>2, <1>12 DEF PromiseStep

LEMMA ConfirmEditApproves ==
  ASSUME IInv, NEW q \in Question, ConfirmEdit(q)
  PROVE  PromiseStep(q)
<1>1. PICK c \in CommandId, id \in StoredSentIds(q) :
        /\ ~Present(c)
        /\ commands' = [commands EXCEPT
             ![c] = NewCommand(q, "edit_reply", Len(versions[q]) + 1, Preview(q).text, id)]
  BY DEF ConfirmEdit
<1>2. Preview(q).text \in Text
  BY PreviewType DEF ConfirmEdit, IInv
<1>3. status[q] = "sent" /\ UNCHANGED <<status, posts>>
  BY DEF ConfirmEdit
<1>4. Phases[q] = "sent" /\ Phases' = Phases
  BY <1>3 DEF Phases, PhaseOf
<1>5. Approvals' = [Approvals EXCEPT ![q] = @ \cup {Preview(q).text}]
  <2>0. PICK row : row = NewCommand(q, "edit_reply", Len(versions[q]) + 1, Preview(q).text, id)
    OBVIOUS
  <2>1. row.status # "absent" /\ row.question = q /\ row.text = Preview(q).text
    BY <2>0 DEF NewCommand
  <2>2. /\ ~Present(c) /\ commands'[c] = row
        /\ \A d \in CommandId \ {c} : commands'[d] = commands[d]
    BY <1>1, <2>0 DEF IInv, TypeOK
  <2>3. PICK text : text = Preview(q).text
    OBVIOUS
  <2>4. Approvals' = [Approvals EXCEPT ![q] = ApprovedTexts(q) \cup {text}]
    BY <2>1, <2>2, <2>3, ApprovalsAdd
  <2>. QED
    BY <2>3, <2>4 DEF Approvals
<1>6. Display' = Display
  BY <1>3, DisplayKept
<1>7. Promise!ApproveEdit(q, Preview(q).text)
  BY <1>4, <1>5, <1>6 DEF Promise!ApproveEdit, Phases, Approvals, Display
<1>. QED
  BY <1>2, <1>7 DEF PromiseStep

LEMMA OperatorRefines ==
  ASSUME IInv, NEW q \in Question, OperatorStep(q)
  PROVE  Quiet \/ PromiseStep(q)
<1>0. TypeOK
  BY DEF IInv
<1>1. CASE OpenDraft(q)
  BY <1>0, <1>1, MoveQuiet DEF OpenDraft, OpenStatus
<1>2. CASE ReopenForEdit(q)
  BY <1>0, <1>2, MoveQuiet DEF ReopenForEdit, OpenStatus
<1>3. CASE CancelDraft(q)
  BY <1>0, <1>3, MoveQuiet DEF CancelDraft, OpenStatus
<1>4. CASE Dismiss(q)
  BY <1>0, <1>4, MoveQuiet DEF Dismiss, OpenStatus
<1>5. CASE Reopen(q)
  BY <1>0, <1>5, MoveQuiet DEF Reopen, OpenStatus
<1>6. ASSUME NEW t \in Text, CreateVersion(q, t)
      PROVE  Quiet
  BY <1>0, <1>6, DraftingQuiet DEF CreateVersion, OpenStatus
<1>7. ASSUME NEW t \in Text, PrepareEdit(q, t)
      PROVE  Quiet
  BY <1>7, SameRowsQuiet DEF PrepareEdit
<1>. QED
  BY <1>1, <1>2, <1>3, <1>4, <1>5, <1>6, <1>7, ConfirmSendApproves, ConfirmEditApproves
     DEF OperatorStep

LEMMA DeleteCloses ==
  ASSUME IInv, NEW q \in Question, DeleteQuestion(q)
  PROVE  PromiseStep(q)
<1>1. /\ status[q] # "deleted"
      /\ status' = [status EXCEPT ![q] = "deleted"]
      /\ commands' = WithoutCommandsOf(q)
      /\ UNCHANGED posts
  BY DEF DeleteQuestion
<1>2. status'[q] = "deleted" /\ \A r \in Question \ {q} : status'[r] = status[r]
  BY <1>1 DEF IInv, TypeOK
<1>3. PhaseOf(q)' = "gone" /\ PhaseOf(q) # "gone"
  BY <1>1, <1>2 DEF PhaseOf
<1>4. Phases' = [Phases EXCEPT ![q] = "gone"] /\ Phases[q] # "gone"
  BY <1>2, <1>3, PhaseChanged DEF Phases
<1>5. \A c \in CommandId :
        commands'[c] = IF Present(c) /\ commands[c].question = q
                       THEN NoCommand ELSE commands[c]
  BY <1>1 DEF WithoutCommandsOf
<1>6. ApprovedTexts(q)' = {}
  BY <1>5 DEF ApprovedTexts, Present, NoCommand
<1>7. ASSUME NEW r \in Question, r # q
      PROVE  ApprovedTexts(r)' = ApprovedTexts(r)
  <2>1. \A c \in CommandId :
          Present(c) /\ commands[c].question = r => commands'[c] = commands[c]
    BY <1>5, <1>7
  <2>2. \A c \in CommandId :
          commands'[c].status # "absent" => commands'[c] = commands[c]
    BY <1>5 DEF NoCommand
  <2>. QED
    BY <2>1, <2>2 DEF ApprovedTexts, Present
<1>8. Approvals' = [Approvals EXCEPT ![q] = {}]
  BY <1>6, <1>7 DEF Approvals
<1>9. Display' = Display
  BY <1>1, DisplayKept
<1>10. Promise!Close(q)
  BY <1>4, <1>8, <1>9 DEF Promise!Close, Phases, Approvals, Display
<1>. QED
  BY <1>10 DEF PromiseStep

\* While a send is on its way its text is the only approved one.
LEMMA SendingApproved ==
  ASSUME IInv, NEW w \in SendWorker, sender[w] # Idle
  PROVE  LET c == sender[w].command
         IN ApprovedTexts(commands[c].question) = {commands[c].text}
<1> DEFINE c == sender[w].command
           q == commands[c].question
<1>1. /\ c \in CommandId /\ Present(c)
      /\ \A d \in CommandId : IsSend(d) /\ commands[d].question = q => d = c
      /\ \A d \in CommandId : IsEdit(d) => commands[d].question # q
  BY SendingFacts
<1>2. \A d \in CommandId : Present(d) /\ commands[d].question = q => d = c
  <2>1. ASSUME NEW d \in CommandId, Present(d), commands[d].question = q
        PROVE  d = c
    <3>1. IsSend(d) \/ IsEdit(d)
      BY <2>1, PresentIsCommand DEF IInv, IsSend, IsEdit, Command
    <3>. QED
      BY <1>1, <2>1, <3>1
  <2>. QED
    BY <2>1
<1>. QED
  BY <1>1, <1>2 DEF ApprovedTexts

LEMMA SendAcceptedPublishes ==
  ASSUME IInv, NEW w \in SendWorker, SendAccepted(w)
  PROVE  \E q \in Question : PromiseStep(q)
<1>0. PICK c \in CommandId, q \in Question :
        c = sender[w].command /\ q = commands[c].question
  BY SendingFacts DEF SendAccepted, SenderAt
<1>1. /\ sender[w] # Idle
      /\ posts' = [posts EXCEPT ![q] = Append(@, commands[c].text)]
      /\ UNCHANGED <<status, commands>>
  BY <1>0 DEF SendAccepted, SenderAt, Post
<1>2. q \in Question /\ status[q] = "send_requested" /\ commands[c].text \in Text
  BY <1>0, <1>1, SendingFacts DEF Command
<1>3. ApprovedTexts(q) = {commands[c].text}
  BY <1>0, <1>1, SendingApproved
<1>4. posts[q] \in Seq(Text)
  BY <1>2 DEF IInv, TypeOK
<1>5. \A i \in 1..Len(posts[q]) : posts[q][i] = commands[c].text
  <2>1. ASSUME NEW i \in 1..Len(posts[q])
        PROVE  posts[q][i] \in ApprovedTexts(q)
    BY <1>2, <2>1 DEF IInv, PublishedWasPreviewed, ApprovedTexts
  <2>. QED
    BY <1>3, <2>1
<1>6. ShownTexts(q)' = {commands[c].text}
  <2>1. posts'[q] = Append(posts[q], commands[c].text)
    BY <1>1, <1>2 DEF IInv, TypeOK
  <2>2. /\ Len(posts'[q]) = Len(posts[q]) + 1
        /\ posts'[q][Len(posts[q]) + 1] = commands[c].text
        /\ \A i \in 1..Len(posts[q]) : posts'[q][i] = posts[q][i]
    <3>. DEFINE old == posts[q]
                text == commands[c].text
    <3>1. old \in Seq(Text) /\ text \in Text
      BY <1>2, <1>4
    <3>. HIDE DEF old, text
    <3>2. /\ Len(Append(old, text)) = Len(old) + 1
          /\ Append(old, text)[Len(old) + 1] = text
          /\ \A i \in 1..Len(old) : Append(old, text)[i] = old[i]
      BY <3>1
    <3>. QED
      BY <2>1, <3>2 DEF old, text
  <2>3. Len(posts[q]) \in Nat
    BY <1>4
  <2>4. \A i \in 1..Len(posts'[q]) : posts'[q][i] = commands[c].text
    <3>1. ASSUME NEW i \in 1..Len(posts'[q])
          PROVE  posts'[q][i] = commands[c].text
      <4>1. i \in 1..Len(posts[q]) \/ i = Len(posts[q]) + 1
        BY <2>2, <2>3, <3>1
      <4>. QED
        BY <1>5, <2>2, <4>1
    <3>. QED
      BY <3>1
  <2>5. Len(posts[q]) + 1 \in 1..Len(posts'[q])
    BY <2>2, <2>3
  <2>6. posts'[q][Len(posts[q]) + 1] = commands[c].text
    BY <2>2
  <2>7. ShownTexts(q)' = {posts'[q][i] : i \in 1..Len(posts'[q])}
    BY DEF ShownTexts
  <2>. QED
    BY <2>4, <2>5, <2>6, <2>7
<1>7. \A r \in Question \ {q} : ShownTexts(r)' = ShownTexts(r)
  <2>1. \A r \in Question \ {q} : posts'[r] = posts[r]
    BY <1>1, <1>2 DEF IInv, TypeOK
  <2>. QED
    BY <2>1 DEF ShownTexts
<1>8. Display' = [Display EXCEPT ![q] = Approvals[q]]
  BY <1>2, <1>3, <1>6, <1>7 DEF Display, Approvals
<1>9. Phases[q] = "confirmed" /\ Phases' = Phases
  BY <1>1, <1>2 DEF Phases, PhaseOf
<1>10. Approvals' = Approvals
  BY <1>1, ApprovalsKept DEF SameTexts, Present
<1>11. Promise!Publish(q)
  BY <1>8, <1>9, <1>10 DEF Promise!Publish, Phases, Approvals, Display
<1>. QED
  BY <1>2, <1>11 DEF PromiseStep

\* complete_send and fail_send: the one command of the question keeps its text.
LEMMA CommitSettles ==
  ASSUME IInv, NEW w \in SendWorker, CompleteSend(w) \/ FailSend(w)
  PROVE  \E q \in Question : PromiseStep(q)
<1>0. PICK c \in CommandId, q \in Question :
        c = sender[w].command /\ q = commands[c].question
  BY SendingFacts DEF CompleteSend, FailSend, SenderAt
<1>1. /\ sender[w] # Idle
      /\ Present(c) /\ status[q] = "send_requested"
  BY <1>0, SendingFacts DEF CompleteSend, FailSend, SenderAt
<1>2a. PICK outcome \in {"sent", "failed"}, to \in {"sent", "send_failed"} : \E row :
        /\ status' = [status EXCEPT ![q] = to]
        /\ commands' = [commands EXCEPT ![c] = row]
        /\ row.status # "absent" /\ row.question = commands[c].question
        /\ row.text = commands[c].text
        /\ (outcome = "sent") = (to = "sent")
        /\ outcome = "sent" => sender[w].result.kind = "ok"
        /\ UNCHANGED posts
  <2>1. commands[c] \in Command
    BY <1>0, <1>1, PresentIsCommand DEF IInv
  <2>2. CASE CompleteSend(w)
    <3>1. PICK row : row = [commands[c] EXCEPT !.status = "succeeded",
                                               !.sentId = sender[w].result.id,
                                               !.attempts = Counted(c)]
      OBVIOUS
    <3>2. /\ status' = [status EXCEPT ![q] = "sent"]
          /\ commands' = [commands EXCEPT ![c] = row]
          /\ sender[w].result.kind = "ok" /\ UNCHANGED posts
      BY <1>0, <2>2, <3>1 DEF CompleteSend
    <3>3. row.status = "succeeded" /\ row.question = commands[c].question
          /\ row.text = commands[c].text
      BY <2>1, <3>1 DEF Command
    <3>. QED
      BY <3>2, <3>3
  <2>3. CASE FailSend(w)
    <3>1. PICK st \in {"failed", "needs_review"} :
            st = IF sender[w].result.kind = "permanent" THEN "failed" ELSE "needs_review"
      OBVIOUS
    <3>2. PICK row : row = [commands[c] EXCEPT !.status = st,
                                               !.error = sender[w].result.error,
                                               !.attempts = Counted(c)]
      OBVIOUS
    <3>3. /\ status' = [status EXCEPT ![q] = "send_failed"]
          /\ commands' = [commands EXCEPT ![c] = row]
          /\ UNCHANGED posts
      BY <1>0, <2>3, <3>1, <3>2 DEF FailSend
    <3>4. row.status = st /\ row.question = commands[c].question
          /\ row.text = commands[c].text
      BY <2>1, <3>2 DEF Command
    <3>. QED
      BY <3>1, <3>3, <3>4
  <2>. QED
    BY <2>2, <2>3
<1>2. PICK row :
        /\ status' = [status EXCEPT ![q] = to]
        /\ commands' = [commands EXCEPT ![c] = row]
        /\ row.status # "absent" /\ row.question = commands[c].question
        /\ row.text = commands[c].text
        /\ (outcome = "sent") = (to = "sent")
        /\ outcome = "sent" => sender[w].result.kind = "ok"
        /\ UNCHANGED posts
  BY <1>2a
<1>3. Approvals' = Approvals
  BY <1>1, <1>2, RowKept, ApprovalsKept
<1>4. Display' = Display
  BY <1>2, DisplayKept
<1>5. status'[q] = IF outcome = "sent" THEN "sent" ELSE "send_failed"
  BY <1>2 DEF IInv, TypeOK
<1>6. \A r \in Question \ {q} : status'[r] = status[r]
  BY <1>2 DEF IInv, TypeOK
<1>7. PhaseOf(q)' = outcome
  BY <1>5 DEF PhaseOf
<1>8. Phases' = [Phases EXCEPT ![q] = outcome]
  BY <1>6, <1>7, PhaseChanged
<1>9. Phases[q] = "confirmed"
  BY <1>1 DEF Phases, PhaseOf
<1>10. outcome = "sent" => Display[q] # {}
  <2>1. SUFFICES ASSUME outcome = "sent" PROVE Display[q] # {}
    OBVIOUS
  <2>2. sender[w].result.id \in 1..Len(posts[q])
    BY <1>0, <1>1, <1>2, <2>1 DEF IInv, AcceptedIsPosted
  <2>. QED
    BY <2>2 DEF Display, ShownTexts
<1>11. Promise!Settle(q, outcome)
  BY <1>3, <1>4, <1>8, <1>9, <1>10 DEF Promise!Settle, Phases, Approvals, Display
<1>. QED
  BY <1>11 DEF PromiseStep

LEMMA ApplyEditPublishes ==
  ASSUME IInv, NEW w \in EditWorker, ApplyEdit(w)
  PROVE  \E q \in Question : PromiseStep(q)
<1>1. /\ editor[w] # Idle
      /\ UNCHANGED <<status, commands>>
  BY DEF ApplyEdit, EditorAt
<1>2. PICK c \in CommandId, q \in Question :
        /\ c = editor[w].command /\ q = commands[c].question
        /\ IsEdit(c) /\ Present(c) /\ commands[c] \in Command
        /\ status[q] = "sent"
        /\ commands[c].sentId \in 1..Len(posts[q])
  <2>1. PICK c \in CommandId, q \in Question :
          /\ c = editor[w].command /\ q = commands[c].question
          /\ IsEdit(c) /\ Present(c) /\ commands[c] \in Command
          /\ status[q] = "sent"
    BY <1>1, EditingFacts
  <2>2. PICK d \in SendCommandsOf(q) : commands[d].sentId = commands[c].sentId
    BY <2>1 DEF IInv, EditTargetValid, StoredSentIds
  <2>3. commands[d].sentId \in 1..Len(posts[q])
    BY <2>1, <2>2 DEF IInv, QuestionMatchesSend, SendCommandsOf
  <2>. QED
    BY <2>1, <2>2, <2>3
<1>3. PICK text \in Text, id \in 1..Len(posts[q]) :
        text = commands[c].text /\ id = commands[c].sentId
  BY <1>2 DEF Command
<1>4. posts' = [posts EXCEPT ![q][id] = text]
  BY <1>2, <1>3 DEF ApplyEdit
<1>5. posts[q] \in Seq(Text)
  BY DEF IInv, TypeOK
<1>6. /\ posts'[q] = [posts[q] EXCEPT ![id] = text]
      /\ \A r \in Question \ {q} : posts'[r] = posts[r]
  BY <1>4 DEF IInv, TypeOK
<1>7. /\ Len(posts'[q]) = Len(posts[q])
      /\ posts'[q][id] = text
      /\ \A i \in 1..Len(posts[q]) : i # id => posts'[q][i] = posts[q][i]
  BY <1>3, <1>5, <1>6
<1>8. PICK kept \in SUBSET ShownTexts(q) :
        kept = {posts[q][i] : i \in 1..Len(posts[q]) \ {id}}
  BY DEF ShownTexts
<1>9. ShownTexts(q)' = kept \cup {text}
  BY <1>3, <1>7, <1>8 DEF ShownTexts
<1>10. \A r \in Question \ {q} : ShownTexts(r)' = ShownTexts(r)
  BY <1>6 DEF ShownTexts
<1>11. Display' = [Display EXCEPT ![q] = kept \cup {text}]
  BY <1>9, <1>10 DEF Display
<1>12. kept \in SUBSET Display[q]
  BY <1>8 DEF Display
<1>13. text \in Approvals[q]
  BY <1>2, <1>3 DEF Approvals, ApprovedTexts
<1>14. Phases[q] = "sent" /\ Phases' = Phases
  BY <1>1, <1>2 DEF Phases, PhaseOf
<1>15. Approvals' = Approvals
  BY <1>1, ApprovalsKept DEF SameTexts, Present
<1>16. Promise!PublishEdit(q, text)
  BY <1>11, <1>12, <1>13, <1>14, <1>15 DEF Promise!PublishEdit, Phases, Approvals, Display
<1>. QED
  BY <1>3, <1>16 DEF PromiseStep

LEMMA EditOutcomeQuiet ==
  ASSUME IInv, NEW w \in EditWorker, CompleteEdit(w) \/ FailEdit(w)
  PROVE  Quiet
<1>1. PICK c \in CommandId : c = editor[w].command /\ Present(c) /\ commands[c] \in Command
  BY EditingFacts DEF CompleteEdit, FailEdit, EditRefused, EditorAt
<1>2. CASE CompleteEdit(w)
  <2>1. PICK row : row = [commands[c] EXCEPT !.status = "succeeded", !.attempts = Counted(c)]
    OBVIOUS
  <2>2. commands' = [commands EXCEPT ![c] = row] /\ UNCHANGED <<status, posts>>
    BY <1>1, <1>2, <2>1 DEF CompleteEdit
  <2>3. row.status = "succeeded" /\ row.question = commands[c].question
        /\ row.text = commands[c].text
    BY <1>1, <2>1 DEF Command
  <2>. QED
    BY <1>1, <2>2, <2>3, OutcomeQuiet
<1>3. CASE FailEdit(w)
  <2>1. PICK error : error = IF editor[w].step = "claimed" THEN "INVALID_EDIT_TARGET"
                             ELSE editor[w].result.error
    OBVIOUS
  <2>2. PICK row : row = [commands[c] EXCEPT !.status = "failed", !.error = error,
                                             !.attempts = Counted(c)]
    OBVIOUS
  <2>3. commands' = [commands EXCEPT ![c] = row] /\ UNCHANGED <<status, posts>>
    BY <1>1, <1>3, <2>1, <2>2 DEF FailEdit
  <2>4. row.status = "failed" /\ row.question = commands[c].question
        /\ row.text = commands[c].text
    BY <1>1, <2>2 DEF Command
  <2>. QED
    BY <1>1, <2>3, <2>4, OutcomeQuiet
<1>. QED
  BY <1>2, <1>3

LEMMA RetryFailedQuiet ==
  ASSUME IInv, NEW c \in CommandId, RetryFailed(c)
  PROVE  Quiet
<1>1. Present(c) /\ commands[c] \in Command
  BY PresentIsCommand DEF RetryFailed, ManualRetryAllowed, IsEdit, IInv
<1>2. PICK row : row = [commands[c] EXCEPT !.status = "pending"]
  OBVIOUS
<1>3. commands' = [commands EXCEPT ![c] = row] /\ UNCHANGED <<status, posts>>
  BY <1>2 DEF RetryFailed
<1>4. row.status = "pending" /\ row.question = commands[c].question
      /\ row.text = commands[c].text
  BY <1>1, <1>2 DEF Command
<1>. QED
  BY <1>1, <1>3, <1>4, OutcomeQuiet

LEMMA RetrySendQuiet ==
  ASSUME IInv, NEW w \in SendWorker, RetrySend(w)
  PROVE  Quiet
<1>1. PICK c \in CommandId : c = sender[w].command /\ Present(c) /\ commands[c] \in Command
  BY SendingFacts DEF RetrySend, SenderAt
<1>2. PICK row : row = [commands[c] EXCEPT !.error = sender[w].result.error,
                                           !.attempts = Counted(c)]
  OBVIOUS
<1>3. commands' = [commands EXCEPT ![c] = row] /\ UNCHANGED <<status, posts>>
  BY <1>1, <1>2 DEF RetrySend
<1>4. row.status = commands[c].status /\ row.question = commands[c].question
      /\ row.text = commands[c].text
  BY <1>1, <1>2 DEF Command
<1>5. row.status # "absent"
  BY <1>1, <1>4 DEF Present
<1>. QED
  BY <1>1, <1>3, <1>4, <1>5, OutcomeQuiet

LEMMA StepRefines ==
  ASSUME IInv, [Next]_vars
  PROVE  Quiet \/ \E q \in Question : PromiseStep(q)
<1>1. ASSUME NEW q \in Question, OperatorStep(q) \/ DeleteQuestion(q) \/ RemoveChat(q)
      PROVE  Quiet \/ PromiseStep(q)
  BY <1>1, OperatorRefines, DeleteCloses, SameRowsQuiet DEF RemoveChat
<1>2. ASSUME NEW w \in SendWorker, SenderStep(w)
      PROVE  Quiet \/ \E q \in Question : PromiseStep(q)
  <2>1. CASE \/ \E c \in CommandId : ClaimSend(w, c)
             \/ ValidateSend(w) \/ SendRejected(w) \/ AbortSend(w)
    BY <2>1, SameRowsQuiet DEF ClaimSend, ValidateSend, SendRejected, AbortSend
  <2>. QED
    BY <1>2, <2>1, SendAcceptedPublishes, CommitSettles, RetrySendQuiet DEF SenderStep
<1>3. ASSUME NEW w \in EditWorker, EditorStep(w)
      PROVE  Quiet \/ \E q \in Question : PromiseStep(q)
  <2>1. CASE \/ \E c \in CommandId : ClaimEdit(w, c)
             \/ EditRejected(w) \/ AbortEdit(w)
    BY <2>1, SameRowsQuiet DEF ClaimEdit, EditRejected, AbortEdit
  <2>. QED
    BY <1>3, <2>1, ApplyEditPublishes, EditOutcomeQuiet DEF EditorStep
<1>4. CASE UNCHANGED vars
  BY <1>4, SameRowsQuiet DEF vars
<1>. QED
  BY <1>1, <1>2, <1>3, <1>4, RetryFailedQuiet DEF Next

LEMMA InitRefines == Init => Promise!Init
<1>. SUFFICES ASSUME Init PROVE Promise!Init
  OBVIOUS
<1>1. \A q \in Question : PhaseOf(q) = "open"
  BY DEF Init, PhaseOf
<1>2. \A q \in Question : ApprovedTexts(q) = {}
  BY DEF Init, ApprovedTexts, Present, NoCommand
<1>3. \A q \in Question : ShownTexts(q) = {}
  BY DEF Init, ShownTexts
<1>. QED
  BY <1>1, <1>2, <1>3 DEF Promise!Init

-----------------------------------------------------------------------------
\* The repositories and the workers keep the promise: nothing is shown that
\* the operator has not confirmed, "sent" is recorded only for a reply that is
\* shown, no outcome is recorded twice, nothing appears after the question is
\* gone.
THEOREM ImplementsPromise == Spec => PromiseKept
<1>1. Init => Promise!Init
  BY InitRefines
<1>2. IInv /\ [Next]_vars => [Promise!Next]_Promise!promise
  <2>. SUFFICES ASSUME IInv, [Next]_vars
                PROVE  [Promise!Next]_Promise!promise
    OBVIOUS
  <2>1. CASE Quiet
    BY <2>1 DEF Quiet, Promise!promise, Phases, Approvals, Display
  <2>2. ASSUME NEW q \in Question, PromiseStep(q)
        PROVE  Promise!Next
    BY <2>2 DEF PromiseStep, Promise!Next
  <2>. QED
    BY <2>1, <2>2, StepRefines
<1>. QED
  BY <1>1, <1>2, InductiveInvariant, PTL DEF Spec, PromiseKept, Promise!Spec

-----------------------------------------------------------------------------
(* The life of a question.  Every step is, for each question by itself, one  *)
(* edge of QuestionLifecycle or none.                                        *)

Edge(r) ==
  \/ Lifecycle!Open(r) \/ Lifecycle!Write(r) \/ Lifecycle!Cancel(r)
  \/ Lifecycle!Confirm(r) \/ Lifecycle!Settle(r) \/ Lifecycle!Dismiss(r)
  \/ Lifecycle!Reopen(r) \/ Lifecycle!Delete(r) \/ Lifecycle!Stay(r)

\* A question whose status stays, and whose versions do not come or go.
LEMMA StayEdge ==
  ASSUME NEW r \in Question, status'[r] = status[r],
         (versions'[r] = <<>>) = (versions[r] = <<>>)
  PROVE  Edge(r)
BY DEF Edge, Lifecycle!Stay, Lifecycle!Keeps

\* The steps of ReplyDraftRepository and QuestionFeedbackRepository.
LEMMA MoveEdge ==
  ASSUME TypeOK, NEW q \in Question, NEW r \in Question,
         OpenDraft(q) \/ ReopenForEdit(q) \/ CancelDraft(q) \/ Dismiss(q) \/ Reopen(q)
  PROVE  Edge(r)
<1>1. versions' = versions
  BY DEF OpenDraft, ReopenForEdit, CancelDraft, Dismiss, Reopen, MoveQuestion
<1>2. CASE r # q
  <2>1. status'[r] = status[r]
    BY <1>2 DEF OpenDraft, ReopenForEdit, CancelDraft, Dismiss, Reopen, MoveQuestion, TypeOK
  <2>. QED
    BY <1>1, <2>1, StayEdge
<1>3. CASE r = q /\ (OpenDraft(q) \/ ReopenForEdit(q))
  BY <1>1, <1>3 DEF OpenDraft, ReopenForEdit, MoveQuestion, TypeOK, Edge,
     Lifecycle!Open, Lifecycle!Moves, Lifecycle!Keeps
<1>4. CASE r = q /\ CancelDraft(q)
  BY <1>1, <1>4 DEF CancelDraft, MoveQuestion, TypeOK, Edge,
     Lifecycle!Cancel, Lifecycle!Moves, Lifecycle!Keeps
<1>5. CASE r = q /\ Dismiss(q)
  BY <1>1, <1>5 DEF Dismiss, MoveQuestion, TypeOK, Edge,
     Lifecycle!Dismiss, Lifecycle!Moves, Lifecycle!Keeps
<1>6. CASE r = q /\ Reopen(q)
  BY <1>1, <1>6 DEF Reopen, MoveQuestion, TypeOK, Edge,
     Lifecycle!Reopen, Lifecycle!Moves, Lifecycle!Keeps
<1>. QED
  BY <1>2, <1>3, <1>4, <1>5, <1>6

\* A version more is a version.
LEMMA AppendedNotEmpty ==
  ASSUME NEW S, NEW s \in Seq(S), NEW e \in S
  PROVE  Append(s, e) # <<>>
<1>1. Len(Append(s, e)) = Len(s) + 1 /\ Len(s) \in Nat
  OBVIOUS
<1>2. Len(<<>>) = 0
  OBVIOUS
<1>. QED
  BY <1>1, <1>2

LEMMA VersionAdded ==
  ASSUME TypeOK, NEW q \in Question, NEW version \in Version,
         versions' = [versions EXCEPT ![q] = Append(@, version)]
  PROVE  /\ versions'[q] # <<>>
         /\ \A r \in Question \ {q} : versions'[r] = versions[r]
<1>1. versions[q] \in Seq(Version)
  BY DEF TypeOK
<1>2. Append(versions[q], version) # <<>>
  BY <1>1, AppendedNotEmpty
<1>. QED
  BY <1>2 DEF TypeOK

LEMMA CreateVersionEdge ==
  ASSUME TypeOK, NEW q \in Question, NEW t \in Text, NEW r \in Question,
         CreateVersion(q, t)
  PROVE  Edge(r)
<1>1. PICK version \in Version : version = [text |-> t, action |-> "draft"]
  BY DEF Version
<1>2. versions'[q] # <<>> /\ \A x \in Question \ {q} : versions'[x] = versions[x]
  BY <1>1, VersionAdded DEF CreateVersion
<1>3. /\ status[q] = "waiting_for_draft" /\ status'[q] = "waiting_confirmation"
      /\ \A x \in Question \ {q} : status'[x] = status[x]
  BY DEF CreateVersion, TypeOK
<1>4. CASE r = q
  BY <1>2, <1>3, <1>4 DEF Edge, Lifecycle!Write, Lifecycle!Moves
<1>5. CASE r # q
  BY <1>2, <1>3, <1>5, StayEdge
<1>. QED
  BY <1>4, <1>5

LEMMA ConfirmSendEdge ==
  ASSUME TypeOK, NEW q \in Question, NEW r \in Question, ConfirmSend(q)
  PROVE  Edge(r)
<1>1. Preview(q).text \in Text /\ versions[q] # <<>>
  BY PreviewType DEF ConfirmSend, LatestIsDraft
<1>2. PICK version \in Version : version = [text |-> Preview(q).text, action |-> "sent"]
  BY <1>1 DEF Version
<1>3. versions'[q] # <<>> /\ \A x \in Question \ {q} : versions'[x] = versions[x]
  BY <1>2, VersionAdded DEF ConfirmSend
<1>4. /\ status[q] = "waiting_confirmation" /\ status'[q] = "send_requested"
      /\ \A x \in Question \ {q} : status'[x] = status[x]
  BY DEF ConfirmSend, TypeOK
<1>5. CASE r = q
  BY <1>1, <1>3, <1>4, <1>5 DEF Edge, Lifecycle!Confirm, Lifecycle!Moves, Lifecycle!Keeps
<1>6. CASE r # q
  BY <1>3, <1>4, <1>6, StayEdge
<1>. QED
  BY <1>5, <1>6

LEMMA PrepareEditEdge ==
  ASSUME TypeOK, NEW q \in Question, NEW t \in Text, NEW r \in Question,
         PrepareEdit(q, t)
  PROVE  Edge(r)
<1>1. PICK version \in Version : version = [text |-> t, action |-> "draft"]
  BY DEF Version
<1>2. versions'[q] # <<>> /\ \A x \in Question \ {q} : versions'[x] = versions[x]
  BY <1>1, VersionAdded DEF PrepareEdit
<1>3. versions[q] # <<>>
  BY DEF PrepareEdit, HasFinal
<1>. QED
  BY <1>2, <1>3, StayEdge DEF PrepareEdit

LEMMA DeleteEdge ==
  ASSUME TypeOK, NEW q \in Question, NEW r \in Question, DeleteQuestion(q)
  PROVE  Edge(r)
<1>1. /\ status[q] \in QuestionStatus \ {"deleted"} /\ status'[q] = "deleted"
      /\ versions'[q] = <<>>
      /\ \A x \in Question \ {q} : status'[x] = status[x] /\ versions'[x] = versions[x]
  BY DEF DeleteQuestion, TypeOK
<1>2. CASE r = q
  BY <1>1, <1>2 DEF Edge, Lifecycle!Delete, Lifecycle!Moves, Lifecycle!Status, QuestionStatus
<1>3. CASE r # q
  BY <1>1, <1>3, StayEdge
<1>. QED
  BY <1>2, <1>3

LEMMA SettleEdge ==
  ASSUME IInv, NEW w \in SendWorker, NEW r \in Question, CompleteSend(w) \/ FailSend(w)
  PROVE  Edge(r)
<1>0. sender[w] # Idle
  BY DEF CompleteSend, FailSend, SenderAt
<1>1. PICK c \in CommandId, q \in Question :
        c = sender[w].command /\ q = commands[c].question /\ status[q] = "send_requested"
  BY <1>0, SendingFacts
<1>2. PICK to \in {"sent", "send_failed"} : status' = [status EXCEPT ![q] = to]
  BY <1>1 DEF CompleteSend, FailSend
<1>3. versions' = versions
  BY DEF CompleteSend, FailSend
<1>4. status'[q] = to /\ \A x \in Question \ {q} : status'[x] = status[x]
  BY <1>2 DEF IInv, TypeOK
<1>5. CASE r = q
  BY <1>1, <1>3, <1>4, <1>5 DEF Edge, Lifecycle!Settle, Lifecycle!Moves, Lifecycle!Keeps
<1>6. CASE r # q
  BY <1>3, <1>4, <1>6, StayEdge
<1>. QED
  BY <1>5, <1>6

LEMMA CompleteEditEdge ==
  ASSUME IInv, NEW w \in EditWorker, NEW r \in Question, CompleteEdit(w)
  PROVE  Edge(r)
<1>0. editor[w] # Idle
  BY DEF CompleteEdit, EditorAt
<1>1. PICK c \in CommandId, q \in Question :
        /\ c = editor[w].command /\ q = commands[c].question
        /\ IsEdit(c) /\ commands[c] \in Command
  BY <1>0, EditingFacts
<1>2. PICK version \in Version : version = [text |-> commands[c].text, action |-> "edited"]
  BY <1>1 DEF Version, Command
<1>3. versions' = [versions EXCEPT ![q] = Append(@, version)] /\ status' = status
  BY <1>1, <1>2 DEF CompleteEdit
<1>4. TypeOK
  BY DEF IInv
<1>5. versions'[q] # <<>> /\ \A x \in Question \ {q} : versions'[x] = versions[x]
  BY <1>3, <1>4, VersionAdded
<1>6. commands[c].version - 1 \in 1..Len(versions[q])
  BY <1>1 DEF IInv, EditFollowsPreview
<1>7. versions[q] # <<>>
  BY <1>6
<1>. QED
  BY <1>3, <1>5, <1>7, StayEdge

LEMMA StepIsEdge ==
  ASSUME IInv, [Next]_vars, NEW r \in Question
  PROVE  Edge(r)
<1>0. TypeOK
  BY DEF IInv
<1>1. CASE UNCHANGED <<status, versions>>
  BY <1>1, StayEdge
<1>2. ASSUME NEW q \in Question, OperatorStep(q)
      PROVE  Edge(r)
  <2>1. CASE ConfirmEdit(q)
    BY <1>1, <2>1 DEF ConfirmEdit
  <2>. QED
    BY <1>0, <1>2, <2>1, MoveEdge, CreateVersionEdge, PrepareEditEdge, ConfirmSendEdge
       DEF OperatorStep
<1>3. ASSUME NEW q \in Question, RemoveChat(q)
      PROVE  Edge(r)
  BY <1>1, <1>3 DEF RemoveChat
<1>4. ASSUME NEW c \in CommandId, RetryFailed(c)
      PROVE  Edge(r)
  BY <1>1, <1>4 DEF RetryFailed
<1>5. ASSUME NEW w \in SendWorker, SenderStep(w)
      PROVE  Edge(r)
  <2>1. CASE \/ \E c \in CommandId : ClaimSend(w, c)
             \/ ValidateSend(w) \/ SendAccepted(w) \/ SendRejected(w)
             \/ RetrySend(w) \/ AbortSend(w)
    BY <1>1, <2>1 DEF ClaimSend, ValidateSend, SendAccepted, SendRejected, RetrySend, AbortSend
  <2>. QED
    BY <1>5, <2>1, SettleEdge DEF SenderStep
<1>6. ASSUME NEW w \in EditWorker, EditorStep(w)
      PROVE  Edge(r)
  <2>1. CASE \/ \E c \in CommandId : ClaimEdit(w, c)
             \/ ApplyEdit(w) \/ EditRejected(w) \/ FailEdit(w) \/ AbortEdit(w)
    BY <1>1, <2>1 DEF ClaimEdit, ApplyEdit, EditRejected, FailEdit, AbortEdit
  <2>. QED
    BY <1>6, <2>1, CompleteEditEdge DEF EditorStep
<1>7. CASE UNCHANGED vars
  BY <1>1, <1>7 DEF vars
<1>. QED
  BY <1>0, <1>2, <1>3, <1>4, <1>5, <1>6, <1>7, DeleteEdge DEF Next

\* The repositories and the workers together implement the life of a question:
\* no transaction, however it is interleaved, aborted or repeated, takes a
\* question along another edge.
THEOREM FollowsLifecycle == Spec => LifecycleKept
<1>1. Init => Lifecycle!Init
  BY DEF Init, Lifecycle!Init
<1>2. IInv /\ IInv' /\ [Next]_vars => [Lifecycle!Next]_Lifecycle!life
  <2>. SUFFICES ASSUME IInv, IInv', [Next]_vars
                PROVE  Lifecycle!Next
    OBVIOUS
  <2>1. status' \in [Question -> Lifecycle!Status]
    BY DEF IInv, TypeOK, QuestionStatus, Lifecycle!Status
  <2>. QED
    BY <2>1, StepIsEdge DEF Lifecycle!Next, Edge
<1>. QED
  BY <1>1, <1>2, InductiveInvariant, PTL DEF Spec, LifecycleKept, Lifecycle!Spec

\* A question that waits for a confirmation or was sent has a version: what
\* confirm_send reads as the newest one is there, whatever happened since the
\* operator was shown it.
THEOREM WrittenBeforeConfirmed == Spec => []Lifecycle!WrittenFirst
<1> DEFINE written == {q \in Question : versions[q] # <<>>}
<1>1. Lifecycle!Init => Lifecycle!WrittenFirst
  BY DEF Lifecycle!Init, Lifecycle!WrittenFirst
<1>2. Lifecycle!WrittenFirst /\ [Lifecycle!Next]_Lifecycle!life => Lifecycle!WrittenFirst'
  <2>. SUFFICES ASSUME Lifecycle!WrittenFirst,
                       Lifecycle!Next \/ (status' = status /\ written' = written),
                       NEW q \in Question,
                       status'[q] \in {"waiting_confirmation", "send_requested", "sent",
                                       "send_failed"}
                PROVE  q \in written'
    BY DEF Lifecycle!WrittenFirst, Lifecycle!life
  <2>1. CASE Lifecycle!Next
    BY <2>1 DEF Lifecycle!WrittenFirst, Lifecycle!Next, Lifecycle!Open, Lifecycle!Write,
       Lifecycle!Cancel, Lifecycle!Confirm, Lifecycle!Settle, Lifecycle!Dismiss,
       Lifecycle!Reopen, Lifecycle!Delete, Lifecycle!Stay, Lifecycle!Moves, Lifecycle!Keeps
  <2>2. CASE status' = status /\ written' = written
    BY <2>2 DEF Lifecycle!WrittenFirst
  <2>. QED
    BY <2>1, <2>2
<1>. QED
  BY <1>1, <1>2, FollowsLifecycle, PTL DEF LifecycleKept, Lifecycle!Spec
=============================================================================
