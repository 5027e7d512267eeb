------------------------ MODULE ChatMonitoring_proofs ------------------------
(* The invariants of ChatMonitoring for any chats and any number of           *)
(* verifiers.  EvidenceMatchesStatus is a matter of each row; that a loss is  *)
(* confirmed needs that only one verifier runs as long as none has leaked,    *)
(* and that what it knows of a chat is not older than the row's evidence.     *)
EXTENDS ChatMonitoring, TLAPS

Verifying == {Off, Waiting} \cup Round \cup Asking

LEMMA RoundRecord ==
  ASSUME TypeOK, NEW v \in Verifier, verifier[v].step = "round"
  PROVE  verifier[v] \in Round
BY DEF TypeOK, Off, Waiting, Asking

LEMMA AskingRecord ==
  ASSUME TypeOK, NEW v \in Verifier, verifier[v].step = "asking"
  PROVE  /\ verifier[v] \in Asking
         /\ verifier[v].batch \in SUBSET Chat /\ verifier[v].chat \in Chat
         /\ verifier[v].answer \in Answer /\ verifier[v].asked \in 0..FailureCap
         /\ verifier[v].covers \in BOOLEAN
<1>1. verifier[v] \in Asking
  BY DEF TypeOK, Off, Waiting, Round
<1>. QED
  BY <1>1 DEF Asking

LEMMA PresentRow ==
  ASSUME TypeOK, NEW c \in Chat
  PROVE  /\ Present(c) => row[c] \in Row
         /\ Enabled(c) => row[c] \in Row /\ row[c].status # "disabled"
BY DEF TypeOK, Present, Enabled, NoRow

-----------------------------------------------------------------------------
(* The rows.                                                                 *)

\* The evidence of one row.
Fits(r) ==
  r.status \notin {"absent", "disabled"} =>
    /\ r.status = "access_lost" <=> r.failures = FailureCap
    /\ r.failures = 1 => r.due # "day"

LEMMA EvidenceByRow == EvidenceMatchesStatus <=> \A c \in Chat : Fits(row[c])
BY DEF EvidenceMatchesStatus, Fits, Enabled, Present

LEMMA RowWritten ==
  ASSUME TypeOK, EvidenceMatchesStatus, NEW c \in Chat, NEW r \in Row \cup {NoRow},
         Fits(r), row' = [row EXCEPT ![c] = r]
  PROVE  /\ row' \in [Chat -> Row \cup {NoRow}]
         /\ EvidenceMatchesStatus'
         /\ row'[c] = r
         /\ \A d \in Chat \ {c} : row'[d] = row[d]
<1>1. /\ row' \in [Chat -> Row \cup {NoRow}]
      /\ row'[c] = r
      /\ \A d \in Chat \ {c} : row'[d] = row[d]
  BY DEF TypeOK
<1>2. \A d \in Chat : Fits(row'[d])
  BY <1>1, EvidenceByRow
<1>. QED
  BY <1>1, <1>2 DEF EvidenceMatchesStatus, Fits, Enabled, Present

\* An access loss is recorded nowhere, or only in the row of a verification.
Evident(c) == Enabled(c) /\ row[c].failures >= 1

-----------------------------------------------------------------------------
(* The inductive invariant.                                                  *)

\* Without a leak only the current verifier runs.
Lone == ~leaked => \A v \in Verifier : verifier[v] # Off => v = current

\* A question was put after the loss that is recorded, if one is.
AskedKnowing ==
  ~leaked => \A v \in Verifier :
    verifier[v].step = "asking" /\ Evident(verifier[v].chat) => verifier[v].asked >= 1

\* The chats of a round still have a row.
RoundsPresent ==
  \A v \in Verifier : verifier[v].step \in {"round", "asking"} =>
    \A c \in verifier[v].batch : Present(c)

IInv == TypeOK /\ EvidenceMatchesStatus /\ RoundsPresent /\ Lone /\ AskedKnowing

LEMMA InitInv ==
  ASSUME Init
  PROVE  IInv
<1>1. TypeOK
  BY DEF Init, TypeOK
<1>2. EvidenceMatchesStatus
  BY DEF Init, EvidenceMatchesStatus, Enabled, Present, NoRow
<1>3. Lone /\ AskedKnowing /\ RoundsPresent
  BY DEF Init, Lone, AskedKnowing, RoundsPresent, Off
<1>. QED
  BY <1>1, <1>2, <1>3 DEF IInv

\* What keeps Lone and AskedKnowing when no verification is applied.
LEMMA KnowingKept ==
  ASSUME IInv, UNCHANGED leaked,
         \A c \in Chat : Evident(c)' => Evident(c),
         \A v \in Verifier : verifier'[v].step = "asking" =>
           /\ verifier[v].step = "asking"
           /\ verifier'[v].chat = verifier[v].chat
           /\ verifier'[v].asked = verifier[v].asked
  PROVE  AskedKnowing'
BY AskingRecord DEF IInv, AskedKnowing, Evident

-----------------------------------------------------------------------------
(* The operator's cards, and requests.                                       *)

\* A row that is written and holds no new loss.
Written(c, r) ==
  /\ row' = [row EXCEPT ![c] = r]
  /\ Fits(r)
  /\ r.status \notin {"absent", "disabled"} /\ r.failures >= 1 => Evident(c)
  /\ r.status = "absent" => Remove(c)

LEMMA CardRow ==
  ASSUME IInv, NEW c \in Chat,
         \/ AddPending(c) \/ Pause(c) \/ Resume(c) \/ Remove(c) \/ Elapse(c)
         \/ \E follow \in BOOLEAN : RequestVerification(c, follow)
  PROVE  /\ row' \in [Chat -> Row \cup {NoRow}]
         /\ EvidenceMatchesStatus'
         /\ \A d \in Chat : Evident(d)' => Evident(d)
         /\ \A d \in Chat : Present(d) /\ ~(Remove(c) /\ d = c) => Present(d)'
<1>0. TypeOK /\ EvidenceMatchesStatus /\ Fits(row[c])
  BY EvidenceByRow DEF IInv
<1>1. \E r \in Row \cup {NoRow} : Written(c, r)
  <2>1. CASE AddPending(c) \/ Resume(c)
    <3>1. PICK r : r = [status |-> "pending_verification", failures |-> 0, due |-> "now"]
      OBVIOUS
    <3>2. r \in Row /\ r.failures = 0 /\ r.status = "pending_verification"
      BY <3>1 DEF Row, ChatStatus, FailureCap, Due
    <3>3. row' = [row EXCEPT ![c] = r]
      BY <2>1, <3>1 DEF AddPending, Resume
    <3>4. Fits(r)
      BY <3>2 DEF Fits, FailureCap
    <3>5. Written(c, r)
      BY <3>2, <3>3, <3>4 DEF Written
    <3>. QED
      BY <3>2, <3>5
  <2>2. CASE Pause(c)
    <3>1. row[c] \in Row
      BY <1>0, <2>2, PresentRow DEF Pause
    <3>2. PICK r : r = [row[c] EXCEPT !.status = "disabled"]
      OBVIOUS
    <3>3. r \in Row /\ r.status = "disabled"
      BY <3>1, <3>2 DEF Row, ChatStatus
    <3>4. row' = [row EXCEPT ![c] = r]
      BY <2>2, <3>2 DEF Pause
    <3>. QED
      BY <3>3, <3>4 DEF Written, Fits
  <2>3. CASE Remove(c)
    <3>1. NoRow.status = "absent"
      BY DEF NoRow
    <3>. QED
      BY <2>3, <3>1 DEF Remove, Fits, Written
  <2>4. CASE Elapse(c) \/ \E follow \in BOOLEAN : RequestVerification(c, follow)
    <3>1. row[c] \in Row /\ row[c].status # "absent"
      BY <1>0, <2>4, PresentRow DEF Elapse, RequestVerification, Enabled, Present
    <3>2. PICK r : r = [row[c] EXCEPT !.due = "now"]
      OBVIOUS
    <3>3. /\ r \in Row /\ r.status = row[c].status
          /\ r.failures = row[c].failures /\ r.due = "now"
      BY <3>1, <3>2 DEF Row, Due
    <3>4. row' = [row EXCEPT ![c] = r]
      BY <2>4, <3>2 DEF Elapse, RequestVerification
    <3>5. Fits(r)
      BY <1>0, <3>3 DEF Fits
    <3>6. r.status \notin {"absent", "disabled"} /\ r.failures >= 1 => Evident(c)
      BY <3>3 DEF Evident, Enabled, Present
    <3>7. Written(c, r)
      BY <3>1, <3>3, <3>4, <3>5, <3>6 DEF Written
    <3>. QED
      BY <3>3, <3>7
  <2>. QED
    BY <2>1, <2>2, <2>3, <2>4
<1>1a. PICK r \in Row \cup {NoRow} : Written(c, r)
  BY <1>1
<1>2. /\ row' \in [Chat -> Row \cup {NoRow}] /\ EvidenceMatchesStatus'
      /\ row'[c] = r
      /\ \A d \in Chat \ {c} : row'[d] = row[d]
  BY <1>0, <1>1a, RowWritten DEF Written
<1>. QED
  BY <1>1a, <1>2 DEF Evident, Enabled, Present, Written

\* A verifier may lose a chat, or the claim to answer a request, but it keeps
\* what it has asked.
Loses(v) ==
  /\ verifier'[v] \in Verifying
  /\ verifier'[v] # Off => verifier[v] # Off
  /\ verifier'[v].step \in {"round", "asking"} =>
       /\ verifier[v].step \in {"round", "asking"}
       /\ verifier'[v].batch \subseteq verifier[v].batch
  /\ verifier'[v].step = "asking" =>
       /\ verifier[v].step = "asking"
       /\ verifier'[v].chat = verifier[v].chat
       /\ verifier'[v].asked = verifier[v].asked

LEMMA ForgetLoses ==
  ASSUME TypeOK, NEW c \in Chat, NEW v \in Verifier,
         verifier'[v] = Forget(verifier[v], c)
  PROVE  Loses(v)
<1>1. CASE verifier[v].step = "round"
  <2>1. verifier'[v] = [verifier[v] EXCEPT !.batch = @ \ {c}]
    BY <1>1 DEF Forget
  <2>. QED
    BY <1>1, <2>1, RoundRecord DEF Loses, Round, Verifying, Off
<1>2. CASE verifier[v].step = "asking" /\ verifier[v].chat # c
  <2>1. verifier'[v] = [verifier[v] EXCEPT !.batch = @ \ {c}]
    BY <1>2 DEF Forget
  <2>. QED
    BY <1>2, <2>1, AskingRecord DEF Loses, Asking, Verifying, Off
<1>3. CASE verifier[v].step = "asking" /\ verifier[v].chat = c
  <2>1. verifier'[v] = [step |-> "round", batch |-> verifier[v].batch \ {c}]
    BY <1>3 DEF Forget
  <2>. QED
    BY <1>3, <2>1, AskingRecord DEF Loses, Round, Verifying, Off
<1>4. CASE verifier[v].step \notin {"round", "asking"}
  <2>1. verifier'[v] = verifier[v]
    BY <1>4 DEF Forget
  <2>. QED
    BY <1>4, <2>1 DEF Loses, Verifying, TypeOK
<1>. QED
  BY <1>1, <1>2, <1>3, <1>4

LEMMA CardInv ==
  ASSUME IInv, NEW c \in Chat, ChatStep(c)
  PROVE  IInv'
<1>1. \A v \in Verifier : Loses(v)
  <2>1. CASE UNCHANGED verifier
    BY <2>1 DEF Loses, Verifying, IInv, TypeOK
  <2>2. CASE Remove(c)
    BY <2>2, ForgetLoses DEF Remove, IInv
  <2>3. ASSUME NEW follow \in BOOLEAN, RequestVerification(c, follow)
        PROVE  \A v \in Verifier : Loses(v)
    <3>1. SUFFICES ASSUME NEW v \in Verifier PROVE Loses(v)
      OBVIOUS
    <3>2. \/ verifier'[v] = verifier[v]
          \/ /\ verifier[v].step = "asking"
             /\ verifier'[v] = [verifier[v] EXCEPT !.covers = FALSE]
      BY <2>3 DEF RequestVerification
    <3>3. CASE verifier'[v] = verifier[v]
      BY <3>3 DEF Loses, Verifying, IInv, TypeOK
    <3>4. CASE /\ verifier[v].step = "asking"
               /\ verifier'[v] = [verifier[v] EXCEPT !.covers = FALSE]
      BY <3>4, AskingRecord DEF Loses, Asking, Verifying, Off, IInv
    <3>. QED
      BY <3>2, <3>3, <3>4
  <2>. QED
    BY <2>1, <2>2, <2>3 DEF ChatStep, AddPending, Pause, Resume, Elapse
<1>2. UNCHANGED <<current, leaked>> /\ requested' \subseteq Chat
      /\ verifier' \in [Verifier -> Verifying]
  <2>1. UNCHANGED <<current, leaked>> /\ requested' \subseteq Chat
    BY DEF ChatStep, AddPending, Pause, Resume, Remove, Elapse, RequestVerification,
       IInv, TypeOK
  <2>2. verifier' = [v \in Verifier |-> verifier'[v]]
    BY DEF ChatStep, AddPending, Pause, Resume, Remove, Elapse, RequestVerification,
       IInv, TypeOK
  <2>. QED
    BY <1>1, <2>1, <2>2 DEF Loses
<1>3. /\ row' \in [Chat -> Row \cup {NoRow}]
      /\ EvidenceMatchesStatus'
      /\ \A d \in Chat : Evident(d)' => Evident(d)
  BY CardRow DEF ChatStep
<1>4. TypeOK'
  BY <1>2, <1>3 DEF TypeOK, IInv, Verifying
<1>5. Lone'
  BY <1>1, <1>2 DEF IInv, Lone, Loses
<1>7. RoundsPresent'
  <2>1. SUFFICES ASSUME NEW v \in Verifier, verifier'[v].step \in {"round", "asking"},
                        NEW d \in verifier'[v].batch
                 PROVE  Present(d)'
    BY DEF RoundsPresent, Present
  <2>2. Present(d) /\ d \in Chat
    <3>1. verifier[v].step \in {"round", "asking"} /\ d \in verifier[v].batch
      BY <1>1, <2>1 DEF Loses
    <3>. QED
      BY <3>1, RoundRecord, AskingRecord DEF IInv, RoundsPresent, Round
  <2>3. ~(Remove(c) /\ d = c)
    <3>1. Remove(c) => verifier'[v] = Forget(verifier[v], c)
      BY DEF Remove
    <3>2. verifier[v].step \in {"round", "asking"}
      BY <1>1, <2>1 DEF Loses
    <3>3. CASE verifier[v].step = "round"
      BY <2>1, <3>1, <3>3, RoundRecord DEF Forget, Round, IInv
    <3>4. CASE verifier[v].step = "asking"
      BY <2>1, <3>1, <3>4, AskingRecord DEF Forget, Asking, IInv
    <3>. QED
      BY <3>2, <3>3, <3>4
  <2>4. \A e \in Chat : Present(e) /\ ~(Remove(c) /\ e = c) => Present(e)'
    BY CardRow DEF ChatStep
  <2>. QED
    BY <2>2, <2>3, <2>4
<1>6. AskedKnowing'
  BY <1>1, <1>2, <1>3, KnowingKept DEF Loses
<1>. QED
  BY <1>3, <1>4, <1>5, <1>6, <1>7 DEF IInv

-----------------------------------------------------------------------------
(* The verifiers.                                                            *)

\* A running verifier goes on; the others stand still.
Moves(v) ==
  /\ verifier[v] # Off
  /\ verifier'[v] \in Verifying
  /\ verifier' = [verifier EXCEPT ![v] = verifier'[v]]
  /\ UNCHANGED <<current, leaked>>

LEMMA MoveInv ==
  ASSUME IInv, NEW v \in Verifier, Moves(v)
  PROVE  /\ verifier' \in [Verifier -> Verifying]
         /\ \A u \in Verifier \ {v} : verifier'[u] = verifier[u]
         /\ Lone'
BY DEF Moves, IInv, TypeOK, Lone, Verifying

LEMMA ListInv ==
  ASSUME IInv, NEW v \in Verifier, ListDue(v) \/ EndRound(v)
  PROVE  IInv'
<1>1. /\ UNCHANGED <<row, current, requested, leaked>>
      /\ verifier[v] # Off
      /\ verifier'[v] \in Verifying
      /\ verifier'[v].step # "asking"
      /\ verifier' = [verifier EXCEPT ![v] = verifier'[v]]
  BY DEF ListDue, EndRound, IInv, TypeOK, Off, Waiting, Round, Verifying
<1>2. /\ verifier' \in [Verifier -> Verifying]
      /\ \A u \in Verifier \ {v} : verifier'[u] = verifier[u]
      /\ Lone'
  BY <1>1, MoveInv DEF Moves
<1>3. AskedKnowing'
  BY <1>1, <1>2, KnowingKept DEF Evident, Enabled, Present
<1>4. RoundsPresent'
  <2>1. verifier'[v].step \in {"round", "asking"} => \A c \in verifier'[v].batch : Present(c)
    BY DEF ListDue, EndRound, DueEnabled, Enabled, IInv, TypeOK, Waiting
  <2>. QED
    BY <1>1, <1>2, <2>1 DEF IInv, RoundsPresent, Present
<1>. QED
  BY <1>1, <1>2, <1>3, <1>4 DEF IInv, TypeOK, EvidenceMatchesStatus, Enabled, Present, Verifying

LEMMA AskInv ==
  ASSUME IInv, NEW v \in Verifier, NEW c \in Chat, Ask(v, c)
  PROVE  IInv'
<1>1. PICK answer \in Answer : verifier' = [verifier EXCEPT ![v] =
         [step |-> "asking", batch |-> verifier[v].batch \ {c}, chat |-> c,
          answer |-> answer, asked |-> row[c].failures, covers |-> c \in requested]]
  BY DEF Ask
<1>2. /\ verifier[v] \in Round /\ verifier[v] # Off /\ verifier[v].step = "round"
      /\ Present(c)
      /\ UNCHANGED <<row, current, requested, leaked>>
  BY RoundRecord DEF Ask, IInv, Off, RoundsPresent
<1>3. /\ verifier'[v].step = "asking" /\ verifier'[v].chat = c
      /\ verifier'[v].asked = row[c].failures
      /\ verifier'[v].batch = verifier[v].batch \ {c}
      /\ \A u \in Verifier \ {v} : verifier'[u] = verifier[u]
  BY <1>1 DEF IInv, TypeOK
<1>4. verifier'[v] \in Asking
  <2>1. row[c].failures \in 0..FailureCap
    BY <1>2, PresentRow DEF IInv, Row
  <2>2. verifier[v].batch \ {c} \in SUBSET Chat /\ (c \in requested) \in BOOLEAN
    BY <1>2 DEF Round
  <2>3. verifier'[v] =
         [step |-> "asking", batch |-> verifier[v].batch \ {c}, chat |-> c,
          answer |-> answer, asked |-> row[c].failures, covers |-> c \in requested]
    BY <1>1 DEF IInv, TypeOK
  <2>. QED
    BY <2>1, <2>2, <2>3 DEF Asking
<1>5. TypeOK'
  BY <1>1, <1>2, <1>4 DEF IInv, TypeOK
<1>6. AskedKnowing'
  BY <1>2, <1>3 DEF IInv, AskedKnowing, Evident, Enabled, Present
<1>7. Lone'
  BY <1>2, <1>3 DEF IInv, Lone
<1>8. RoundsPresent'
  BY <1>2, <1>3 DEF IInv, RoundsPresent, Present
<1>9. EvidenceMatchesStatus'
  BY <1>2 DEF IInv, EvidenceMatchesStatus, Enabled, Present
<1>. QED
  BY <1>5, <1>6, <1>7, <1>8, <1>9 DEF IInv

\* The row that an answer writes.
LEMMA AppliedRow ==
  ASSUME NEW r \in Row, NEW answer \in Answer \ {"transient"}, Fits(r),
         r.status # "disabled"
  PROVE  /\ Applied(r, answer) \in Row
         /\ Fits(Applied(r, answer))
         /\ Applied(r, answer).status = "access_lost" =>
              r.failures >= 1 /\ answer = "access_lost"
<1>1. CASE answer # "access_lost"
  <2>1. PICK s : s = [status |-> answer, failures |-> 0, due |-> "day"]
    OBVIOUS
  <2>2. s \in Row /\ s.status = answer /\ s.failures = 0
    BY <1>1, <2>1 DEF Row, ChatStatus, Due, FailureCap, Answer
  <2>3. Applied(r, answer) = s
    BY <1>1, <2>1 DEF Applied
  <2>. QED
    BY <1>1, <2>2, <2>3 DEF Fits, FailureCap
<1>2. CASE answer = "access_lost" /\ r.failures >= 1
  <2>1. PICK s : s = [status |-> "access_lost", failures |-> FailureCap, due |-> "day"]
    OBVIOUS
  <2>2. s \in Row /\ s.status = "access_lost" /\ s.failures = FailureCap
    BY <2>1 DEF Row, ChatStatus, Due, FailureCap
  <2>3. Applied(r, answer) = s
    BY <1>2, <2>1 DEF Applied, AccessLoss
  <2>. QED
    BY <1>2, <2>2, <2>3 DEF Fits, FailureCap
<1>3. CASE answer = "access_lost" /\ ~(r.failures >= 1)
  <2>1. PICK s : s = [r EXCEPT !.failures = 1, !.due = "soon"]
    OBVIOUS
  <2>2. s \in Row /\ s.status = r.status /\ s.failures = 1 /\ s.due = "soon"
    <3>1. 1 \in 0..FailureCap /\ "soon" \in Due
      BY DEF FailureCap, Due
    <3>. QED
      BY <2>1, <3>1 DEF Row
  <2>3. Applied(r, answer) = s
    BY <1>3, <2>1 DEF Applied, AccessLoss
  <2>4. r.failures = 0 /\ r.status \in ChatStatus
    BY <1>3 DEF Row, FailureCap
  <2>5. r.status # "access_lost"
    BY <2>4 DEF Fits, FailureCap, ChatStatus
  <2>. QED
    BY <2>2, <2>3, <2>5 DEF Fits, FailureCap
<1>. QED
  BY <1>1, <1>2, <1>3

\* After an answer the verifier goes on with its round.
LEMMA NextChatMoves ==
  ASSUME IInv, NEW v \in Verifier, verifier[v].step = "asking", NextChat(v),
         UNCHANGED <<current, leaked>>
  PROVE  /\ verifier' \in [Verifier -> Verifying]
         /\ verifier'[v].step = "round" /\ verifier'[v].batch = verifier[v].batch
         /\ \A u \in Verifier \ {v} : verifier'[u] = verifier[u]
         /\ Lone'
<1>1. verifier[v].batch \in SUBSET Chat /\ verifier[v] # Off
  BY AskingRecord DEF IInv, Off
<1>2. [step |-> "round", batch |-> verifier[v].batch] \in Round
  BY <1>1 DEF Round
<1>3. verifier'[v] = [step |-> "round", batch |-> verifier[v].batch]
  BY DEF NextChat, IInv, TypeOK
<1>4. Moves(v)
  BY <1>1, <1>2, <1>3 DEF Moves, NextChat, Verifying
<1>. QED
  BY <1>3, <1>4, MoveInv

LEMMA ApplyInv ==
  ASSUME IInv, NEW v \in Verifier, NEW c \in Chat, ApplyVerification(v, c)
  PROVE  IInv'
<1>0. /\ verifier[v].step = "asking" /\ verifier[v].chat = c
      /\ verifier[v].answer \in Answer \ {"transient"}
      /\ NextChat(v) /\ UNCHANGED <<current, leaked>>
  BY AskingRecord DEF ApplyVerification, IInv
<1>1. /\ verifier' \in [Verifier -> Verifying]
      /\ verifier'[v].step = "round" /\ verifier'[v].batch = verifier[v].batch
      /\ \A u \in Verifier \ {v} : verifier'[u] = verifier[u]
      /\ Lone'
  BY <1>0, NextChatMoves
<1>2. /\ row' \in [Chat -> Row \cup {NoRow}] /\ EvidenceMatchesStatus'
      /\ \A d \in Chat \ {c} : row'[d] = row[d]
      /\ Present(c) => Present(c)'
  <2>1. CASE Enabled(c)
    <3>1. row[c] \in Row /\ row[c].status # "disabled" /\ Fits(row[c])
      BY <2>1, PresentRow, EvidenceByRow DEF IInv
    <3>2. PICK r : r = Applied(row[c], verifier[v].answer)
      OBVIOUS
    <3>3. r \in Row /\ Fits(r)
      BY <1>0, <3>1, <3>2, AppliedRow
    <3>4. row' = [row EXCEPT ![c] = r]
      BY <1>0, <2>1, <3>2 DEF ApplyVerification
    <3>5. r.status # "absent"
      BY <3>3 DEF Row, ChatStatus
    <3>. QED
      BY <3>3, <3>4, <3>5, RowWritten DEF IInv, Present
  <2>2. CASE ~Enabled(c)
    BY <2>2 DEF ApplyVerification, IInv, TypeOK, EvidenceMatchesStatus, Enabled, Present
  <2>. QED
    BY <2>1, <2>2
<1>3. requested' \subseteq Chat
  BY DEF ApplyVerification, IInv, TypeOK
<1>4. TypeOK'
  BY <1>0, <1>1, <1>2, <1>3 DEF IInv, TypeOK, Verifying
<1>5. RoundsPresent'
  <2>1. \A u \in Verifier : verifier'[u].step \in {"round", "asking"} =>
          /\ verifier[u].step \in {"round", "asking"}
          /\ verifier'[u].batch = verifier[u].batch
          /\ verifier[u].batch \subseteq Chat
    BY <1>0, <1>1, RoundRecord, AskingRecord DEF IInv, Round
  <2>2. \A d \in Chat : Present(d) => Present(d)'
    BY <1>2 DEF Present
  <2>. QED
    BY <2>1, <2>2 DEF IInv, RoundsPresent, Present
<1>6. AskedKnowing'
  <2>1. CASE leaked
    BY <1>0, <2>1 DEF AskedKnowing
  <2>2. CASE ~leaked
    <3>1. verifier[v] # Off
      BY <1>0 DEF Off
    <3>2. \A u \in Verifier \ {v} : verifier[u] = Off
      BY <2>2, <3>1 DEF IInv, Lone
    <3>. QED
      BY <1>1, <3>2 DEF AskedKnowing, Off
  <2>. QED
    BY <2>1, <2>2
<1>. QED
  BY <1>1, <1>2, <1>4, <1>5, <1>6 DEF IInv

LEMMA DeferInv ==
  ASSUME IInv, NEW v \in Verifier, DeferVerification(v)
  PROVE  IInv'
<1>0. /\ verifier[v].step = "asking" /\ verifier[v].chat \in Chat
      /\ NextChat(v) /\ UNCHANGED <<current, leaked, requested>>
  BY AskingRecord DEF DeferVerification, IInv
<1>1. /\ verifier' \in [Verifier -> Verifying]
      /\ verifier'[v].step = "round" /\ verifier'[v].batch = verifier[v].batch
      /\ \A u \in Verifier \ {v} : verifier'[u] = verifier[u]
      /\ Lone'
  BY <1>0, NextChatMoves
<1>2. PICK c \in Chat : c = verifier[v].chat
  BY <1>0
<1>3. /\ row' \in [Chat -> Row \cup {NoRow}] /\ EvidenceMatchesStatus'
      /\ \A d \in Chat : Present(d) => Present(d)'
      /\ \A d \in Chat : Evident(d)' => Evident(d)
  <2>1. CASE Enabled(c)
    <3>1. row[c] \in Row /\ row[c].status # "disabled" /\ Fits(row[c])
      BY <2>1, PresentRow, EvidenceByRow DEF IInv
    <3>2. PICK r : r = [row[c] EXCEPT !.due = "soon"]
      OBVIOUS
    <3>3. r \in Row /\ r.status = row[c].status /\ r.failures = row[c].failures
          /\ r.due = "soon"
      BY <3>1, <3>2 DEF Row, Due
    <3>4. row' = [row EXCEPT ![c] = r]
      BY <1>2, <2>1, <3>2 DEF DeferVerification, Defer
    <3>5. Fits(r)
      BY <3>1, <3>3 DEF Fits
    <3>6. /\ row' \in [Chat -> Row \cup {NoRow}] /\ EvidenceMatchesStatus'
          /\ row'[c] = r
          /\ \A d \in Chat \ {c} : row'[d] = row[d]
      BY <3>3, <3>4, <3>5, RowWritten DEF IInv
    <3>. QED
      BY <3>3, <3>6 DEF Present, Evident, Enabled
  <2>2. CASE ~Enabled(c)
    BY <1>2, <2>2 DEF DeferVerification, IInv, TypeOK, EvidenceMatchesStatus, Enabled,
       Present, Evident
  <2>. QED
    BY <2>1, <2>2
<1>4. TypeOK'
  BY <1>0, <1>1, <1>3 DEF IInv, TypeOK, Verifying
<1>5. RoundsPresent'
  <2>1. \A u \in Verifier : verifier'[u].step \in {"round", "asking"} =>
          /\ verifier[u].step \in {"round", "asking"}
          /\ verifier'[u].batch = verifier[u].batch
          /\ verifier[u].batch \subseteq Chat
    BY <1>0, <1>1, RoundRecord, AskingRecord DEF IInv, Round
  <2>. QED
    BY <1>3, <2>1 DEF IInv, RoundsPresent, Present
<1>6. AskedKnowing'
  BY <1>0, <1>1, <1>3, KnowingKept
<1>. QED
  BY <1>1, <1>3, <1>4, <1>5, <1>6 DEF IInv

-----------------------------------------------------------------------------
(* The listener.                                                             *)

\* Verifiers are started or stopped; rows are left alone.
Reset(v) == verifier'[v] \in {verifier[v], Off, Waiting}

LEMMA LifecycleInv ==
  ASSUME IInv, UNCHANGED <<row, requested>>,
         verifier' \in [Verifier -> Verifying],
         \A v \in Verifier : Reset(v),
         current' \in Verifier \cup {None}, leaked' \in BOOLEAN,
         ~leaked' => ~leaked \/ \A v \in Verifier : verifier'[v] = Off,
         Lone'
  PROVE  IInv'
<1>1. TypeOK'
  BY DEF IInv, TypeOK, Verifying
<1>2. RoundsPresent'
  BY DEF IInv, RoundsPresent, Reset, Off, Waiting, Present
<1>3. AskedKnowing'
  BY DEF IInv, AskedKnowing, Reset, Off, Waiting, Evident, Enabled, Present
<1>4. EvidenceMatchesStatus'
  BY DEF IInv, EvidenceMatchesStatus, Enabled, Present
<1>. QED
  BY <1>1, <1>2, <1>3, <1>4 DEF IInv

LEMMA ConnectInv ==
  ASSUME IInv, NEW v \in Verifier, Connect(v)
  PROVE  IInv'
<1>1. Lone'
  BY NoneAssumption DEF Connect, IInv, Lone, TypeOK
<1>. QED
  BY <1>1, LifecycleInv DEF Connect, IInv, TypeOK, Verifying, Reset

LEMMA StopInv ==
  ASSUME IInv,
         \/ LinkDrops \/ Restart
         \/ \E verifierToo \in BOOLEAN : TaskRaises(verifierToo)
         \/ \E v \in Verifier : LeakedDies(v)
  PROVE  IInv'
<1>1. CASE LinkDrops \/ TaskRaises(TRUE)
  <2>1. /\ current \in Verifier /\ current' = None
        /\ verifier' = [verifier EXCEPT ![current] = Off]
        /\ leaked' = leaked /\ UNCHANGED <<row, requested>>
    BY <1>1 DEF LinkDrops, TaskRaises, IInv, TypeOK
  <2>2. Lone'
    BY <2>1 DEF IInv, Lone, TypeOK
  <2>. QED
    BY <2>1, <2>2, LifecycleInv DEF IInv, TypeOK, Verifying, Reset
<1>2. CASE TaskRaises(FALSE)
  <2>1. /\ current' = None /\ verifier' = verifier
        /\ leaked' = TRUE /\ UNCHANGED <<row, requested>>
    BY <1>2 DEF TaskRaises
  <2>2. Lone'
    BY <2>1 DEF Lone
  <2>. QED
    BY <2>1, <2>2, LifecycleInv DEF IInv, TypeOK, Verifying, Reset
<1>3. CASE \E v \in Verifier : LeakedDies(v)
  <2>1. PICK v \in Verifier : LeakedDies(v)
    BY <1>3
  <2>2. Lone'
    BY <2>1 DEF LeakedDies, IInv, Lone, TypeOK
  <2>. QED
    BY <2>1, <2>2, LifecycleInv DEF LeakedDies, IInv, TypeOK, Verifying, Reset
<1>4. CASE Restart
  <2>1. Lone'
    BY <1>4 DEF Restart, Lone
  <2>. QED
    BY <1>4, <2>1, LifecycleInv DEF Restart, Verifying, Reset
<1>. QED
  BY <1>1, <1>2, <1>3, <1>4

LEMMA NextInv ==
  ASSUME IInv, [Next]_vars
  PROVE  IInv'
<1>1. CASE UNCHANGED vars
  BY <1>1 DEF vars, IInv, TypeOK, EvidenceMatchesStatus, RoundsPresent, Lone,
     AskedKnowing, Evident, Enabled, Present
<1>2. CASE \E c \in Chat : ChatStep(c)
  BY <1>2, CardInv
<1>3. CASE \E v \in Verifier : VerifierStep(v)
  BY <1>3, ListInv, AskInv, ApplyInv, DeferInv, ConnectInv, StopInv DEF VerifierStep
<1>4. CASE LinkDrops \/ Restart \/ \E verifierToo \in BOOLEAN : TaskRaises(verifierToo)
  BY <1>4, StopInv
<1>. QED
  BY <1>1, <1>2, <1>3, <1>4 DEF Next

LEMMA Inductive == Spec => []IInv
BY InitInv, NextInv, PTL DEF Spec

-----------------------------------------------------------------------------
\* The rows and the verifiers keep their types (monitored_chats.py,
\* chat_verification.py).
THEOREM TypeCorrect == Spec => []TypeOK
<1>1. IInv => TypeOK
  BY DEF IInv
<1>. QED
  BY <1>1, Inductive, PTL

\* Status and evidence of an enabled chat agree, leaked verifiers or not
\* (monitored_chats.py, apply_verification, defer_verification, resume).
THEOREM EvidenceAgrees == Spec => []EvidenceMatchesStatus
<1>1. IInv => EvidenceMatchesStatus
  BY DEF IInv
<1>. QED
  BY <1>1, Inductive, PTL

\* A step that gives a chat up applies an answer that was asked for after a
\* first loss (monitored_chats.py, apply_verification).
LEMMA LossStep ==
  ASSUME IInv, [Next]_vars, NEW c \in Chat, ~leaked,
         Enabled(c), row[c].status # "access_lost", row'[c].status = "access_lost"
  PROVE  \E v \in Running : verifier[v].chat = c /\ verifier[v].asked >= 1
<1>1. PICK v \in Verifier : ApplyVerification(v, c)
  <2>1. \A d \in Chat : ChatStep(d) => row'[c].status # "access_lost"
    <3>1. ASSUME NEW d \in Chat, ChatStep(d), c # d
          PROVE  row'[c] = row[c]
      BY <3>1 DEF ChatStep, AddPending, Pause, Resume, Remove, Elapse,
         RequestVerification, IInv, TypeOK
    <3>2. ASSUME ChatStep(c)
          PROVE  row'[c].status # "access_lost"
      <4>1. CASE AddPending(c) \/ Resume(c)
        BY <4>1 DEF AddPending, Resume, IInv, TypeOK
      <4>2. CASE Remove(c)
        BY <4>2 DEF Remove, IInv, TypeOK, NoRow
      <4>3. CASE Pause(c)
        BY <4>3, PresentRow DEF Pause, IInv, TypeOK, Row
      <4>4. CASE Elapse(c) \/ \E follow \in BOOLEAN : RequestVerification(c, follow)
        BY <4>4, PresentRow DEF Elapse, RequestVerification, IInv, TypeOK, Row
      <4>. QED
        BY <3>2, <4>1, <4>2, <4>3, <4>4 DEF ChatStep
    <3>. QED
      BY <3>1, <3>2
  <2>2. \A v \in Verifier, d \in Chat : ApplyVerification(v, d) /\ d # c => row'[c] = row[c]
    BY DEF ApplyVerification, IInv, TypeOK
  <2>3. \A v \in Verifier : DeferVerification(v) => row'[c].status # "access_lost"
    <3>1. ASSUME NEW v \in Verifier, DeferVerification(v)
          PROVE  row'[c].status # "access_lost"
      <4>1. row[c] \in Row
        BY PresentRow DEF IInv
      <4>2. row'[c] = row[c] \/ row'[c] = [row[c] EXCEPT !.due = "soon"]
        BY <3>1, AskingRecord DEF DeferVerification, Defer, IInv, TypeOK
      <4>. QED
        BY <4>1, <4>2 DEF Row
    <3>. QED
      BY <3>1
  <2>. QED
    BY <2>1, <2>2, <2>3 DEF Next, VerifierStep, ListDue, EndRound, Ask, Connect,
       LeakedDies, LinkDrops, Restart, TaskRaises, vars
<1>2. /\ verifier[v].step = "asking" /\ verifier[v].chat = c
      /\ verifier[v].answer \in Answer \ {"transient"}
      /\ verifier[v] # Off
  BY <1>1, AskingRecord DEF ApplyVerification, IInv, Off
<1>3. row[c] \in Row /\ row[c].status # "disabled" /\ Fits(row[c])
  BY PresentRow, EvidenceByRow DEF IInv
<1>4. row'[c] = Applied(row[c], verifier[v].answer)
  BY <1>1 DEF ApplyVerification, IInv, TypeOK
<1>5. row[c].failures >= 1
  BY <1>2, <1>3, <1>4, AppliedRow
<1>6. Evident(c)
  BY <1>5 DEF Evident
<1>. QED
  BY <1>2, <1>6 DEF IInv, AskedKnowing, Running

\* "requiring two consecutive access-loss results", as long as no verifier has
\* leaked (monitored_chats.py, apply_verification).
THEOREM LossConfirmed == Spec => AccessLossConfirmed
<1>1. IInv /\ [Next]_vars =>
        [\A c \in Chat :
           Enabled(c) /\ row[c].status # "access_lost" /\ row'[c].status = "access_lost"
           /\ ~leaked
           => \E v \in Running : verifier[v].chat = c /\ verifier[v].asked >= 1]_vars
  BY LossStep
<1>. QED
  BY <1>1, Inductive, PTL DEF Spec, AccessLossConfirmed
=============================================================================
