------------------------ MODULE MessageIntake_proofs ------------------------
(* The safety properties of MessageIntake for any chats, texts, messages and *)
(* refresh loops.  A twin needs an overlap because an entry that is inside   *)
(* its window is seen by whoever reads after the commit that made it         *)
(* visible: who was admitted nevertheless was in its transaction by then.    *)
EXTENDS MessageIntake, TLAPS

Slot == Chat \X Prints
Twin(k) == \E n \in Message : Stored(n) /\ Key(n) = k

\* A transaction that has read the earlier entry.
HasRead(m) == post[m].step \in {"read", "registered"}

PostFits(m) ==
  /\ post[m].step = "arrived" /\ status[post[m].chat] = "active" => post[m].active
  /\ InTransaction(m) \/ Stored(m) => post[m].active
  /\ post[m].step = "filtered" => ~ShouldClassify("plain", post[m].print)
  /\ HasRead(m) /\ ~post[m].admitted => Twin(Key(m))
  /\ post[m].step = "suppressed" => Twin(Key(m))
  /\ Stored(m) => /\ post[m].epoch <= expiry[Key(m)]
                  /\ post[m].epoch = expiry[Key(m)] => seen[Key(m)] = "recent"

\* A committed entry of the current window is missed only by a transaction
\* that was open beside the one that made it.
Missed(m, n) ==
  /\ HasRead(m) /\ post[m].admitted
  /\ Stored(n) /\ Key(n) = Key(m) /\ post[n].epoch = expiry[Key(m)]

PairFits(m, n) ==
  /\ InTransaction(m) /\ InTransaction(n) => <<m, n>> \in beside /\ <<n, m>> \in beside
  /\ Missed(m, n) => <<m, n>> \in beside /\ <<n, m>> \in beside
  /\ Stored(m) /\ Stored(n) /\ Key(m) = Key(n) /\ post[m].epoch = post[n].epoch
       => <<m, n>> \in beside

PostsFit == \A m \in Message : PostFits(m)
PairsFit == \A m, n \in Message : m # n => PairFits(m, n)
SeenFits == \A k \in Slot : seen[k] = "recent" => Twin(k)

IInv == TypeOK /\ PostsFit /\ PairsFit /\ SeenFits

-----------------------------------------------------------------------------
(* The prefilter and the fingerprint.                                        *)

LEMMA HasMonotone ==
  ASSUME NEW small, NEW large, small \subseteq large, NEW terms, Has(small, terms)
  PROVE  Has(large, terms)
BY DEF Has

LEMMA IntentMonotone ==
  ASSUME NEW small, NEW large, small \subseteq large, HasHiringIntent(small)
  PROVE  HasHiringIntent(large)
BY HasMonotone DEF HasHiringIntent

\* A text with an intent holds a token that says so.
LEMMA IntentHasToken ==
  ASSUME NEW text, HasHiringIntent(text)
  PROVE  \E t \in text : t \in NEED_TOKEN \cup WHO_TOKEN \cup WEAK_NEED \cup ORDER_PAY
BY DEF HasHiringIntent, Has

LEMMA PassMeans ==
  ASSUME NEW text, ShouldClassify("plain", text)
  PROVE  /\ ~Has(text, EXCLUSION) /\ HasHiringIntent(text) /\ Has(text, STACK_TOKEN)
BY DEF ShouldClassify, Decide

LEMMA PassWhen ==
  ASSUME NEW text, NEW envelope \in {"sticker", "plain"}, text # {},
         ~IsOnlyEmoji(text), ~IsCommand(text), ~IsOnlyUrls(text),
         ~IsPhrase(text, KNOWN_GREETINGS), ~IsPhrase(text, KNOWN_THANKS),
         ~Has(text, EXCLUSION), HasHiringIntent(text), Has(text, STACK_TOKEN)
  PROVE  ShouldClassify(envelope, text)
BY DEF ShouldClassify, Decide

\* What the prefilter rejects it would reject also without links, mentions,
\* emoji and punctuation: no decoration hides a lead.
THEOREM DecorationHidesNoLead ==
  ASSUME NEW text \in SUBSET Token, NEW envelope \in {"sticker", "plain"},
         ShouldClassify("plain", Fingerprint(text))
  PROVE  ShouldClassify(envelope, text)
<1>. DEFINE bare == Fingerprint(text)
<1>1. bare \subseteq text
  BY DEF Fingerprint
<1>2. ~Has(bare, EXCLUSION) /\ HasHiringIntent(bare) /\ Has(bare, STACK_TOKEN)
  BY PassMeans
<1>3. HasHiringIntent(text) /\ Has(text, STACK_TOKEN)
  BY <1>1, <1>2, IntentMonotone, HasMonotone
<1>4. ~Has(text, EXCLUSION)
  BY <1>2 DEF Has, EXCLUSION, Fingerprint, Link
<1>5. PICK t \in bare : t \in NEED_TOKEN \cup WHO_TOKEN \cup WEAK_NEED \cup ORDER_PAY
  BY <1>2, IntentHasToken
<1>6. /\ t \in text
      /\ t \notin Link \cup Command
      /\ t \notin {"emoji", "punctuation", "hello", "thanks"}
  BY <1>1, <1>5 DEF NEED_TOKEN, WHO_TOKEN, WEAK_NEED, ORDER_PAY, Link, Command
<1>7. text # {} /\ ~IsOnlyEmoji(text) /\ ~IsCommand(text) /\ ~IsOnlyUrls(text)
  BY <1>6 DEF IsOnlyEmoji, IsCommand, IsOnlyUrls
<1>8. ~IsPhrase(text, KNOWN_GREETINGS) /\ ~IsPhrase(text, KNOWN_THANKS)
  BY <1>6 DEF IsPhrase, KNOWN_GREETINGS, KNOWN_THANKS
<1>. QED
  BY <1>3, <1>4, <1>7, <1>8, PassWhen


-----------------------------------------------------------------------------
(* What steps have in common.                                                *)

LEMMA PostType ==
  ASSUME TypeOK, NEW m \in Message, post[m] # Unsent
  PROVE  post[m] \in Post /\ Key(m) \in Slot
BY DEF TypeOK, Post, Key, Slot

LEMMA HandledIsPost ==
  ASSUME TypeOK, NEW m \in Message, post[m].step # "unsent"
  PROVE  post[m] \in Post /\ Key(m) \in Slot
BY PostType DEF Unsent

LEMMA TwinStays ==
  ASSUME \A n \in Message : Stored(n) => Stored(n)' /\ Key(n)' = Key(n), NEW k
  PROVE  Twin(k) => Twin(k)'
BY DEF Twin

\* The records change in what the invariant does not look at.
Alike(m) ==
  /\ post'[m].step = post[m].step
  /\ post[m].step # "unsent" =>
       /\ post'[m].chat = post[m].chat /\ post'[m].print = post[m].print
       /\ post'[m].admitted = post[m].admitted /\ post'[m].epoch = post[m].epoch

\* Handling ends without a trace.
Vanishes(m) == post'[m].step \in {"lost", "ignored"}

\* A step that at most drops messages that are being handled.
LEMMA NothingStored ==
  ASSUME IInv, UNCHANGED <<seen, expiry, beside>>,
         \A m \in Message : Alike(m) \/ (Vanishes(m) /\ ~Stored(m))
  PROVE  PairsFit' /\ SeenFits' /\ \A k : Twin(k) => Twin(k)'
<1>1. ASSUME NEW m \in Message, post'[m].step \notin {"lost", "ignored"}
      PROVE  Alike(m)
  BY <1>1 DEF Vanishes
<1>2. ASSUME NEW m \in Message, Stored(m)
      PROVE  Stored(m)' /\ Key(m)' = Key(m)
  BY <1>2 DEF Alike, Stored, Key
<1>3. \A k : Twin(k) => Twin(k)'
  BY <1>2, TwinStays
<1>4. SeenFits'
  BY <1>3 DEF IInv, SeenFits, Slot, Prints
<1>5. ASSUME NEW m \in Message, NEW n \in Message, m # n
      PROVE  PairFits(m, n)'
  <2>1. PairFits(m, n)
    BY <1>5 DEF IInv, PairsFit
  <2>2. CASE ~Alike(m) \/ ~Alike(n)
    BY <1>1, <2>2 DEF PairFits, Missed, HasRead, InTransaction, Stored
  <2>3. CASE Alike(m) /\ Alike(n) /\ post[m].step # "unsent" /\ post[n].step # "unsent"
    BY <2>1, <2>3 DEF Alike, PairFits, Missed, HasRead, InTransaction, Stored, Key
  <2>4. CASE Alike(m) /\ Alike(n) /\ (post[m].step = "unsent" \/ post[n].step = "unsent")
    BY <2>4 DEF Alike, PairFits, Missed, HasRead, InTransaction, Stored
  <2>. QED
    BY <2>2, <2>3, <2>4
<1>. QED
  BY <1>3, <1>4, <1>5 DEF PairsFit

LEMMA InitInv ==
  ASSUME Init
  PROVE  IInv
<1>1. \A m \in Message : post[m].step = "unsent"
  BY DEF Init, Unsent
<1>2. TypeOK
  BY DEF Init, TypeOK, MaxExpiry
<1>3. PostsFit
  BY <1>1 DEF PostsFit, PostFits, InTransaction, Stored, HasRead
<1>4. PairsFit
  BY <1>1 DEF PairsFit, PairFits, InTransaction, Stored, HasRead, Missed
<1>5. SeenFits
  BY DEF Init, SeenFits, Slot
<1>. QED
  BY <1>2, <1>3, <1>4, <1>5 DEF IInv

-----------------------------------------------------------------------------
(* The chats and the allow list.                                             *)

LEMMA RefreshInv ==
  ASSUME IInv, NEW r \in Refresher, Load(r) \/ Publish(r)
  PROVE  IInv'
<1>1. UNCHANGED <<status, post, seen, expiry, beside>>
  BY DEF Load, Publish
<1>2. TypeOK'
  BY <1>1 DEF IInv, TypeOK, Load, Publish, ActiveChats, Nothing
<1>3. PostsFit'
  BY <1>1 DEF IInv, PostsFit, PostFits, InTransaction, Stored, HasRead, Twin, Key
<1>4. PairsFit' /\ SeenFits'
  BY <1>1 DEF IInv, PairsFit, PairFits, Missed, SeenFits, InTransaction, Stored, HasRead, Twin, Key
<1>. QED
  BY <1>2, <1>3, <1>4 DEF IInv

LEMMA ActivateInv ==
  ASSUME IInv, NEW c \in Chat, Activate(c)
  PROVE  IInv'
<1>1. UNCHANGED <<allowed, loaded, seen, expiry, beside>>
  BY DEF Activate
<1>2. \A m \in Message :
        \/ post'[m] = post[m] /\ (post[m] = Unsent \/ post[m].chat # c)
        \/ /\ post[m] # Unsent /\ post[m].chat = c
           /\ post'[m] = [post[m] EXCEPT !.active = @ \/ post[m].step = "arrived"]
  BY DEF Activate
<1>3. \A m \in Message : post[m] # Unsent =>
        /\ post'[m] \in Post /\ Alike(m)
        /\ post[m].active => post'[m].active
        /\ post[m].step = "arrived" /\ post[m].chat = c => post'[m].active
  <2>1. ASSUME NEW m \in Message, post[m] # Unsent, post[m].chat # c, post'[m] = post[m]
        PROVE  post'[m] \in Post /\ Alike(m)
    BY <2>1, PostType DEF IInv, Alike
  <2>2. ASSUME NEW m \in Message, post[m] # Unsent,
               post'[m] = [post[m] EXCEPT !.active = @ \/ post[m].step = "arrived"]
        PROVE  /\ post'[m] \in Post /\ Alike(m)
               /\ post[m].active => post'[m].active
               /\ post[m].step = "arrived" => post'[m].active
    <3>1. PICK p \in Post : p = post[m]
      BY <2>2, PostType DEF IInv
    <3>2. PICK b \in BOOLEAN : b = (p.active \/ p.step = "arrived")
      OBVIOUS
    <3>3. post'[m] = [p EXCEPT !.active = b]
      BY <2>2, <3>1, <3>2
    <3>4. post'[m] \in Post /\ post'[m].active = b
      BY <3>3 DEF Post
    <3>5. Alike(m)
      BY <3>1, <3>3 DEF Post, Alike
    <3>. QED
      BY <3>1, <3>2, <3>4, <3>5
  <2>. QED
    BY <1>2, <2>1, <2>2
<1>4. \A m \in Message : post[m] = Unsent => post'[m] = Unsent /\ Alike(m)
  BY <1>2 DEF Alike, Unsent
<1>5. TypeOK'
  BY <1>1, <1>3, <1>4 DEF IInv, TypeOK, Activate
<1>6. PairsFit' /\ SeenFits' /\ \A k : Twin(k) => Twin(k)'
  <2>1. UNCHANGED <<seen, expiry, beside>>
    BY <1>1
  <2>2. \A m \in Message : Alike(m) \/ (Vanishes(m) /\ ~Stored(m))
    BY <1>3, <1>4
  <2>. QED
    BY <2>1, <2>2, NothingStored
<1>7. ASSUME NEW m \in Message
      PROVE  PostFits(m)'
  <2>1. PostFits(m)
    BY DEF IInv, PostsFit
  <2>2. CASE post[m] = Unsent
    BY <1>4, <2>2 DEF Unsent, PostFits, InTransaction, Stored, HasRead
  <2>3. CASE post[m] # Unsent
    <3>1. Key(m)' = Key(m) \/ post[m].step = "unsent"
      BY <1>3, <2>3 DEF Alike, Key
    <3>2. post[m].step # "unsent"
      BY <2>3, PostType DEF IInv, Post
    <3>3. post[m].chat # c => status'[post[m].chat] = status[post[m].chat]
      BY DEF Activate, IInv, TypeOK
    <3>. QED
      BY <1>1, <1>3, <1>6, <2>1, <2>3, <3>1, <3>2, <3>3
      DEF Alike, PostFits, InTransaction, Stored, HasRead
  <2>. QED
    BY <2>2, <2>3
<1>. QED
  BY <1>5, <1>6, <1>7 DEF IInv, PostsFit

LEMMA DeactivateInv ==
  ASSUME IInv, NEW c \in Chat, Deactivate(c)
  PROVE  IInv'
<1>1. UNCHANGED <<allowed, loaded, post, seen, expiry, beside>>
  BY DEF Deactivate
<1>2. TypeOK'
  BY <1>1 DEF IInv, TypeOK, Deactivate
<1>3. \A d : status'[d] = "active" => status[d] = "active"
  BY DEF Deactivate, IInv, TypeOK
<1>4. PostsFit'
  BY <1>1, <1>3 DEF IInv, PostsFit, PostFits, InTransaction, Stored, HasRead, Twin, Key
<1>5. PairsFit' /\ SeenFits'
  BY <1>1 DEF IInv, PairsFit, PairFits, Missed, SeenFits, InTransaction, Stored, HasRead, Twin, Key
<1>. QED
  BY <1>2, <1>4, <1>5 DEF IInv

LEMMA RemoveChatInv ==
  ASSUME IInv, NEW c \in Chat, RemoveChat(c)
  PROVE  IInv'
<1>1. UNCHANGED <<allowed, loaded, seen, expiry, beside>>
  BY DEF RemoveChat
<1>2. \A m \in Message :
        \/ post'[m] = post[m]
        \/ post[m] # Unsent /\ post'[m] = [post[m] EXCEPT !.gone = TRUE]
  BY DEF RemoveChat
<1>3. \A m \in Message : post[m] # Unsent =>
        /\ post'[m] \in Post /\ Alike(m)
        /\ post'[m].active = post[m].active
  <2>1. ASSUME NEW m \in Message, post[m] # Unsent
        PROVE  /\ post'[m] \in Post /\ Alike(m)
               /\ post'[m].active = post[m].active
    <3>1. post[m] \in Post
      BY <2>1, PostType DEF IInv
    <3>2. CASE post'[m] = post[m]
      BY <3>1, <3>2 DEF Alike
    <3>3. CASE post'[m] = [post[m] EXCEPT !.gone = TRUE]
      BY <3>1, <3>3 DEF Alike, Post
    <3>. QED
      BY <1>2, <3>2, <3>3
  <2>. QED
    BY <2>1
<1>4. \A m \in Message : post[m] = Unsent => post'[m] = Unsent /\ Alike(m)
  BY <1>2 DEF Alike, Unsent
<1>5. TypeOK'
  BY <1>1, <1>3, <1>4 DEF IInv, TypeOK, RemoveChat
<1>6. PairsFit' /\ SeenFits' /\ \A k : Twin(k) => Twin(k)'
  <2>1. UNCHANGED <<seen, expiry, beside>>
    BY <1>1
  <2>2. \A m \in Message : Alike(m) \/ (Vanishes(m) /\ ~Stored(m))
    BY <1>3, <1>4
  <2>. QED
    BY <2>1, <2>2, NothingStored
<1>7. ASSUME NEW m \in Message
      PROVE  PostFits(m)'
  <2>1. PostFits(m)
    BY DEF IInv, PostsFit
  <2>2. CASE post[m] = Unsent
    BY <1>4, <2>2 DEF Unsent, PostFits, InTransaction, Stored, HasRead
  <2>3. CASE post[m] # Unsent
    <3>1. post[m].step # "unsent" /\ Key(m)' = Key(m)
      BY <1>3, <2>3, PostType DEF IInv, Post, Alike, Key
    <3>2. status'[post[m].chat] = "active" => status[post[m].chat] = "active"
      BY <2>3, PostType DEF RemoveChat, IInv, TypeOK, Post
    <3>. QED
      BY <1>1, <1>3, <1>6, <2>1, <2>3, <3>1, <3>2
      DEF Alike, PostFits, InTransaction, Stored, HasRead
  <2>. QED
    BY <2>2, <2>3
<1>. QED
  BY <1>5, <1>6, <1>7 DEF IInv, PostsFit

LEMMA EndedType ==
  ASSUME NEW p \in Post,
         NEW step \in {"ignored", "lost", "suppressed", "enqueued"}
  PROVE  LET e == Ended(p, step) IN
         /\ e \in Post /\ e.step = step /\ e.chat = p.chat /\ e.print = p.print
         /\ e.epoch = p.epoch
         /\ step = "enqueued" => e.active = p.active
BY DEF Ended, Post

LEMMA RestartInv ==
  ASSUME IInv, Restart
  PROVE  IInv'
<1>1. UNCHANGED <<status, seen, expiry, beside>>
  BY DEF Restart
<1>2. \A m \in Message :
        \/ post'[m] = post[m]
        \/ /\ post[m] # Unsent
           /\ InTransaction(m) \/ post[m].step = "arrived"
           /\ post'[m] = Ended(post[m], "lost")
  BY DEF Restart, Unsent, InTransaction
<1>3. ASSUME NEW m \in Message
      PROVE  /\ post'[m] \in Post \cup {Unsent}
             /\ Alike(m) \/ (Vanishes(m) /\ ~Stored(m))
             /\ post'[m] = post[m] \/ post'[m].step = "lost"
  <2>1. CASE post'[m] = post[m]
    BY <2>1 DEF IInv, TypeOK, Alike
  <2>2. CASE post'[m] # post[m]
    <3>1. /\ post[m].step \in {"arrived", "checked", "read", "registered"}
          /\ post'[m] = Ended(post[m], "lost")
      BY <1>2, <2>2 DEF InTransaction, Unsent
    <3>2. post[m] \in Post
      BY <3>1, HandledIsPost DEF IInv
    <3>. QED
      BY <3>1, <3>2, EndedType DEF Vanishes, Stored
  <2>. QED
    BY <2>1, <2>2
<1>4. TypeOK'
  BY <1>1, <1>3 DEF IInv, TypeOK, Restart, Nothing
<1>5. PairsFit' /\ SeenFits' /\ \A k : Twin(k) => Twin(k)'
  <2>1. UNCHANGED <<seen, expiry, beside>>
    BY <1>1
  <2>. QED
    BY <1>3, <2>1, NothingStored
<1>6. ASSUME NEW m \in Message
      PROVE  PostFits(m)'
  <2>1. PostFits(m)
    BY DEF IInv, PostsFit
  <2>2. CASE post'[m] = post[m]
    BY <1>1, <1>5, <2>1, <2>2 DEF PostFits, InTransaction, Stored, HasRead, Key
  <2>3. CASE post'[m].step = "lost"
    BY <2>3 DEF PostFits, InTransaction, Stored, HasRead
  <2>. QED
    BY <1>3, <2>2, <2>3
<1>. QED
  BY <1>4, <1>5, <1>6 DEF IInv, PostsFit

-----------------------------------------------------------------------------
(* The handling of one message.                                              *)

OnlyPost(m) == \A n \in Message \ {m} : post'[n] = post[n]
Beside(m, n) == <<m, n>> \in beside /\ <<n, m>> \in beside

LEMMA OneMessage ==
  ASSUME IInv, NEW m \in Message, OnlyPost(m),
         UNCHANGED <<status, expiry>>, beside \subseteq beside',
         \A k \in Slot : seen[k] = "recent" => seen'[k] = "recent",
         Stored(m) => Stored(m)' /\ Key(m)' = Key(m)
  PROVE  /\ \A k : Twin(k) => Twin(k)'
         /\ \A n \in Message \ {m} : PostFits(n)'
<1>1. ASSUME NEW n \in Message, Stored(n)
      PROVE  Stored(n)' /\ Key(n)' = Key(n)
  BY <1>1 DEF OnlyPost, Stored, Key
<1>2. \A k : Twin(k) => Twin(k)'
  BY <1>1, TwinStays
<1>3. ASSUME NEW n \in Message \ {m}
      PROVE  PostFits(n)'
  <2>1. PostFits(n) /\ post'[n] = post[n]
    BY DEF IInv, PostsFit, OnlyPost
  <2>2. Stored(n) => Key(n) \in Slot
    BY HandledIsPost DEF IInv, Stored
  <2>. QED
    BY <1>2, <2>1, <2>2 DEF PostFits, InTransaction, Stored, HasRead, Key
<1>. QED
  BY <1>2, <1>3

\* A step of a message that is not stored by it.
LEMMA OneUnstored ==
  ASSUME IInv, NEW m \in Message, OnlyPost(m),
         UNCHANGED <<status, expiry>>, beside \subseteq beside',
         ~Stored(m), ~Stored(m)',
         InTransaction(m)' => \A n \in Message \ {m} : InTransaction(n) => Beside(m, n)',
         HasRead(m)' /\ post'[m].admitted =>
           \A n \in Message \ {m} :
             Stored(n) /\ Key(n) = Key(m)' /\ post[n].epoch = expiry[Key(m)'] => Beside(m, n)'
  PROVE  PairsFit'
<1>1. ASSUME NEW a \in Message, NEW b \in Message, a # b
      PROVE  PairFits(a, b)'
  <2>1. PairFits(a, b)
    BY <1>1 DEF IInv, PairsFit
  <2>2. CASE a # m /\ b # m
    <3>1. post'[a] = post[a] /\ post'[b] = post[b]
      BY <2>2 DEF OnlyPost
    <3>. QED
      BY <2>1, <3>1 DEF PairFits, Missed, InTransaction, Stored, HasRead, Key
  <2>3. CASE a = m
    <3>1. post'[b] = post[b] /\ b \in Message \ {m}
      BY <1>1, <2>3 DEF OnlyPost
    <3>2. InTransaction(m)' /\ InTransaction(b)' => Beside(m, b)'
      BY <3>1 DEF InTransaction
    <3>3. Missed(m, b)' => Beside(m, b)'
      BY <3>1 DEF Missed, Stored, HasRead, Key
    <3>. QED
      BY <2>3, <3>2, <3>3 DEF PairFits, Beside
  <2>4. CASE b = m
    <3>1. post'[a] = post[a] /\ a \in Message \ {m}
      BY <1>1, <2>4 DEF OnlyPost
    <3>2. InTransaction(m)' /\ InTransaction(a)' => Beside(m, a)'
      BY <3>1 DEF InTransaction
    <3>3. ~Missed(a, m)'
      BY DEF Missed
    <3>. QED
      BY <2>4, <3>2, <3>3 DEF PairFits, Beside
  <2>. QED
    BY <2>2, <2>3, <2>4
<1>. QED
  BY <1>1 DEF PairsFit

LEMMA ArriveInv ==
  ASSUME IInv, NEW m \in Message, NEW c \in Chat, NEW envelope \in Envelope,
         NEW text \in Text, Arrive(m, c, envelope, text)
  PROVE  IInv'
<1>. DEFINE step == FirstStep(c, envelope, text)
            new == [step |-> step, chat |-> c, print |-> Fingerprint(text),
                    admitted |-> FALSE, gone |-> FALSE,
                    active |-> step = "arrived" /\ status[c] = "active", epoch |-> 0]
<1>1. step \in {"arrived", "filtered", "ignored"}
  BY DEF FirstStep
<1>2. /\ post' = [post EXCEPT ![m] = new]
      /\ UNCHANGED <<status, allowed, loaded, seen, expiry, beside>>
      /\ post[m] = Unsent
  BY DEF Arrive
<1>3. post'[m] = new /\ OnlyPost(m)
  BY <1>2 DEF IInv, TypeOK, OnlyPost
<1>4. new \in Post
  BY <1>1 DEF Post, Prints, MaxExpiry
<1>5. TypeOK'
  BY <1>2, <1>4 DEF IInv, TypeOK
<1>6. /\ ~Stored(m) /\ ~Stored(m)' /\ ~InTransaction(m)' /\ ~HasRead(m)'
      /\ post'[m].step = step /\ post'[m].chat = c /\ post'[m].print = Fingerprint(text)
      /\ step = "arrived" /\ status[c] = "active" => post'[m].active
  <2>1. /\ post'[m].step = step /\ post'[m].chat = c
        /\ post'[m].print = Fingerprint(text)
    BY <1>3
  <2>2. step = "arrived" /\ status[c] = "active" => post'[m].active
    <3>1. post'[m].active = (step = "arrived" /\ status[c] = "active")
      BY <1>3
    <3>. QED
      BY <3>1, Zenon
  <2>3. ~Stored(m) /\ ~Stored(m)' /\ ~InTransaction(m)' /\ ~HasRead(m)'
    BY <1>1, <1>2, <2>1 DEF Stored, InTransaction, HasRead, Unsent
  <2>. QED
    BY <2>1, <2>2, <2>3
<1>7. /\ \A k : Twin(k) => Twin(k)'
      /\ \A n \in Message \ {m} : PostFits(n)'
  BY <1>2, <1>3, <1>6, OneMessage
<1>8. PairsFit'
  BY <1>2, <1>3, <1>6, OneUnstored
<1>9. SeenFits'
  BY <1>2, <1>7 DEF IInv, SeenFits, Slot, Prints
<1>10. step = "filtered" => ~ShouldClassify("plain", Fingerprint(text))
  <2>1. text \in SUBSET Token
    BY TextAssumption
  <2>2. step = "filtered" =>
          envelope \in {"sticker", "plain"} /\ ~ShouldClassify(envelope, text)
    BY DEF FirstStep, Envelope
  <2>. QED
    BY <2>1, <2>2, DecorationHidesNoLead
<1>11. PostFits(m)'
  BY <1>1, <1>2, <1>6, <1>10 DEF PostFits
<1>. QED
  BY <1>5, <1>7, <1>8, <1>9, <1>11 DEF IInv, PostsFit

\* Handling that ends without storing: the message was ignored, lost or suppressed.
LEMMA EndInv ==
  ASSUME IInv, NEW m \in Message, NEW step \in {"ignored", "lost", "suppressed"},
         post[m] \in Post, ~Stored(m), End(m, step),
         step = "suppressed" => Twin(Key(m)),
         UNCHANGED <<status, allowed, loaded, expiry, beside>>,
         UNCHANGED seen \/ (step = "suppressed" /\ Visible(m))
  PROVE  IInv'
<1>1. /\ post' = [post EXCEPT ![m] = Ended(post[m], step)]
      /\ post'[m] = Ended(post[m], step) /\ OnlyPost(m)
  BY DEF End, IInv, TypeOK, OnlyPost
<1>2. /\ post'[m] \in Post /\ post'[m].step = step
      /\ Key(m)' = Key(m) /\ Key(m) \in Slot
  BY <1>1, EndedType DEF Key, Slot, Post
<1>3. /\ ~Stored(m)' /\ ~InTransaction(m)' /\ ~HasRead(m)'
      /\ post'[m].step \notin {"arrived", "filtered"}
  BY <1>2 DEF Stored, InTransaction, HasRead
<1>4. /\ seen' \in [Slot -> {"none", "recent", "old"}]
      /\ \A k \in Slot : seen[k] = "recent" => seen'[k] = "recent"
      /\ \A k \in Slot : seen'[k] = "recent" => seen[k] = "recent" \/ Twin(k)
  BY <1>2 DEF IInv, TypeOK, Visible, Slot
<1>5. TypeOK'
  BY <1>1, <1>2, <1>4 DEF IInv, TypeOK, Slot
<1>6. /\ \A k : Twin(k) => Twin(k)'
      /\ \A n \in Message \ {m} : PostFits(n)'
  BY <1>1, <1>4, OneMessage
<1>7. PairsFit'
  BY <1>1, <1>3, OneUnstored
<1>8. SeenFits'
  BY <1>4, <1>6 DEF IInv, SeenFits, Slot, Prints
<1>9. PostFits(m)'
  BY <1>2, <1>3, <1>6 DEF PostFits
<1>. QED
  BY <1>5, <1>6, <1>7, <1>8, <1>9 DEF IInv, PostsFit

LEMMA CheckInv ==
  ASSUME IInv, NEW m \in Message, Check(m)
  PROVE  IInv'
<1>1. /\ post[m] \in Post /\ post[m].step = "arrived" /\ ~Stored(m)
      /\ Key(m) \in Slot /\ post[m].chat \in Chat
  BY PostType DEF IInv, Check, Stored, Post
<1>2. CASE ~MayStore(post[m].chat)
  BY <1>1, <1>2, EndInv DEF Check
<1>3. CASE MayStore(post[m].chat)
  <2>1. /\ post' = [post EXCEPT ![m].step = "checked"]
        /\ beside' = beside \cup ({m} \X Others(m)) \cup (Others(m) \X {m})
        /\ UNCHANGED <<status, allowed, loaded, seen, expiry>>
    BY <1>3 DEF Check, Move
  <2>2. post'[m] = [post[m] EXCEPT !.step = "checked"] /\ OnlyPost(m)
    BY <2>1 DEF IInv, TypeOK, OnlyPost
  <2>3. /\ post'[m] \in Post /\ post'[m].step = "checked" /\ Key(m)' = Key(m)
        /\ post'[m].active = post[m].active
    BY <1>1, <2>2 DEF Post, Key
  <2>4. \A n \in Message \ {m} : InTransaction(n) => n \in Others(m)
    BY DEF Others, InTransaction, Unsent
  <2>5. Others(m) \subseteq Message
    BY DEF Others
  <2>6. TypeOK'
    BY <2>1, <2>3, <2>5 DEF IInv, TypeOK
  <2>7. ~Stored(m)' /\ ~HasRead(m)'
    BY <2>3 DEF Stored, HasRead
  <2>8. /\ \A k : Twin(k) => Twin(k)'
        /\ \A n \in Message \ {m} : PostFits(n)'
    BY <1>1, <2>1, <2>2, OneMessage
  <2>9. PairsFit'
    <3>1. \A n \in Message \ {m} : InTransaction(n) => Beside(m, n)'
      BY <2>1, <2>4 DEF Beside
    <3>. QED
      BY <1>1, <2>1, <2>2, <2>7, <3>1, OneUnstored
  <2>10. SeenFits'
    BY <2>1, <2>8 DEF IInv, SeenFits, Slot, Prints
  <2>11. post[m].active
    BY <1>1, <1>3 DEF IInv, PostsFit, PostFits, MayStore
  <2>12. PostFits(m)'
    BY <2>3, <2>7, <2>11 DEF PostFits
  <2>. QED
    BY <2>6, <2>8, <2>9, <2>10, <2>12 DEF IInv, PostsFit
<1>. QED
  BY <1>2, <1>3

LEMMA ReadPriorInv ==
  ASSUME IInv, NEW m \in Message, ReadPrior(m)
  PROVE  IInv'
<1>1. /\ post[m] \in Post /\ post[m].step = "checked" /\ ~Stored(m)
      /\ InTransaction(m) /\ Key(m) \in Slot
  BY PostType DEF IInv, ReadPrior, Stored, InTransaction
<1>2. /\ post' = [post EXCEPT ![m].step = "read", ![m].admitted = IsNew(Key(m))]
      /\ UNCHANGED <<status, allowed, loaded, seen, expiry, beside>>
  BY DEF ReadPrior
<1>3. /\ post'[m] = [post[m] EXCEPT !.step = "read", !.admitted = IsNew(Key(m))]
      /\ OnlyPost(m)
  BY <1>2 DEF IInv, TypeOK, OnlyPost
<1>4. IsNew(Key(m)) \in BOOLEAN
  BY DEF IsNew
<1>5. /\ post'[m] \in Post /\ post'[m].step = "read" /\ Key(m)' = Key(m)
      /\ post'[m].active = post[m].active
      /\ post'[m].admitted = IsNew(Key(m))
  BY <1>1, <1>3, <1>4 DEF Post, Key
<1>6. /\ post'[m].admitted => seen[Key(m)] # "recent"
      /\ ~post'[m].admitted => seen[Key(m)] = "recent"
  BY <1>5 DEF IsNew
<1>7. TypeOK'
  BY <1>2, <1>5 DEF IInv, TypeOK
<1>8. ~Stored(m)'
  BY <1>5 DEF Stored
<1>9. /\ \A k : Twin(k) => Twin(k)'
      /\ \A n \in Message \ {m} : PostFits(n)'
  BY <1>1, <1>2, <1>3, OneMessage
<1>10. PairsFit'
  <2>1. \A n \in Message \ {m} : InTransaction(n) => Beside(m, n)'
    BY <1>1, <1>2 DEF IInv, PairsFit, PairFits, Beside
  <2>2. post'[m].admitted => \A n \in Message \ {m} :
          ~(Stored(n) /\ Key(n) = Key(m)' /\ post[n].epoch = expiry[Key(m)'])
    BY <1>5, <1>6 DEF IInv, PostsFit, PostFits
  <2>. QED
    BY <1>1, <1>2, <1>3, <1>8, <2>1, <2>2, OneUnstored
<1>11. SeenFits'
  BY <1>2, <1>9 DEF IInv, SeenFits, Slot, Prints
<1>12. post[m].active
  BY <1>1 DEF IInv, PostsFit, PostFits
<1>13. ~post'[m].admitted => Twin(Key(m))'
  BY <1>1, <1>5, <1>6, <1>9 DEF IInv, SeenFits
<1>14. PostFits(m)'
  BY <1>5, <1>8, <1>12, <1>13 DEF PostFits
<1>. QED
  BY <1>7, <1>9, <1>10, <1>11, <1>14 DEF IInv, PostsFit

LEMMA RegisterInv ==
  ASSUME IInv, NEW m \in Message, Register(m)
  PROVE  IInv'
<1>1. /\ post[m] \in Post /\ post[m].step = "read" /\ ~Stored(m)
      /\ InTransaction(m) /\ HasRead(m) /\ Key(m) \in Slot
  BY PostType DEF IInv, Register, Stored, InTransaction, HasRead
<1>2. /\ post' = [post EXCEPT ![m].step = "registered"]
      /\ UNCHANGED <<status, allowed, loaded, seen, expiry, beside>>
  BY DEF Register, Move
<1>3. post'[m] = [post[m] EXCEPT !.step = "registered"] /\ OnlyPost(m)
  BY <1>2 DEF IInv, TypeOK, OnlyPost
<1>4. /\ post'[m] \in Post /\ post'[m].step = "registered" /\ Key(m)' = Key(m)
      /\ post'[m].active = post[m].active /\ post'[m].admitted = post[m].admitted
  BY <1>1, <1>3 DEF Post, Key
<1>5. TypeOK'
  BY <1>2, <1>4 DEF IInv, TypeOK
<1>6. ~Stored(m)'
  BY <1>4 DEF Stored
<1>7. /\ \A k : Twin(k) => Twin(k)'
      /\ \A n \in Message \ {m} : PostFits(n)'
  BY <1>1, <1>2, <1>3, OneMessage
<1>8. PairsFit'
  <2>1. \A n \in Message \ {m} : InTransaction(n) => Beside(m, n)'
    BY <1>1, <1>2 DEF IInv, PairsFit, PairFits, Beside
  <2>2. post'[m].admitted => \A n \in Message \ {m} :
          Stored(n) /\ Key(n) = Key(m)' /\ post[n].epoch = expiry[Key(m)'] => Beside(m, n)'
    BY <1>1, <1>2, <1>4 DEF IInv, PairsFit, PairFits, Missed, Beside
  <2>. QED
    BY <1>1, <1>2, <1>3, <1>6, <2>1, <2>2, OneUnstored
<1>9. SeenFits'
  BY <1>2, <1>7 DEF IInv, SeenFits, Slot, Prints
<1>10. PostFits(m)
  BY DEF IInv, PostsFit
<1>11. PostFits(m)'
  BY <1>1, <1>4, <1>6, <1>7, <1>10 DEF PostFits
<1>. QED
  BY <1>5, <1>7, <1>8, <1>9, <1>11 DEF IInv, PostsFit

LEMMA SuppressInv ==
  ASSUME IInv, NEW m \in Message, Suppress(m)
  PROVE  IInv'
<1>1. post[m] \in Post /\ ~Stored(m) /\ Twin(Key(m))
  BY PostType DEF IInv, PostsFit, PostFits, Suppress, Stored, HasRead
<1>. QED
  BY <1>1, EndInv DEF Suppress

LEMMA FailInv ==
  ASSUME IInv, NEW m \in Message, Fail(m)
  PROVE  IInv'
<1>1. post[m] \in Post /\ ~Stored(m)
  BY PostType DEF IInv, Fail, Stored, InTransaction
<1>. QED
  BY <1>1, EndInv DEF Fail

\* The commit: who is stored in the same window already was open beside it,
\* and so was who has read and goes on.
LEMMA EnqueueInv ==
  ASSUME IInv, NEW m \in Message, EnqueueAndCommit(m)
  PROVE  IInv'
<1>0. PICK k : k = Key(m)
  OBVIOUS
<1>1. /\ post[m] \in Post /\ post[m].step = "registered" /\ post[m].admitted
      /\ ~Stored(m) /\ InTransaction(m) /\ HasRead(m) /\ Key(m) = k /\ k \in Slot
  BY <1>0, PostType DEF IInv, EnqueueAndCommit, Stored, InTransaction, HasRead
<1>2. /\ post' = [post EXCEPT ![m] = [Ended(post[m], "enqueued") EXCEPT !.epoch = expiry[k]]]
      /\ seen' = [seen EXCEPT ![k] = "recent"]
      /\ UNCHANGED <<status, allowed, loaded, expiry, beside>>
  BY <1>0 DEF EnqueueAndCommit, Visible
<1>3. /\ post'[m] = [Ended(post[m], "enqueued") EXCEPT !.epoch = expiry[k]]
      /\ OnlyPost(m)
  BY <1>2 DEF IInv, TypeOK, OnlyPost
<1>4. expiry[k] \in 0..MaxExpiry
  BY <1>1 DEF IInv, TypeOK, Slot
<1>5. /\ post'[m] \in Post /\ post'[m].step = "enqueued" /\ Key(m)' = k
      /\ post'[m].active = post[m].active /\ post'[m].epoch = expiry[k]
  <2>1. PICK e : e = Ended(post[m], "enqueued")
    OBVIOUS
  <2>2. /\ e \in Post /\ e.step = "enqueued" /\ e.chat = post[m].chat
        /\ e.print = post[m].print /\ e.active = post[m].active
    BY <1>1, <2>1, EndedType
  <2>3. post'[m] = [e EXCEPT !.epoch = expiry[k]]
    BY <1>3, <2>1
  <2>. QED
    BY <1>1, <1>4, <2>2, <2>3 DEF Post, Key
<1>6. Stored(m)' /\ ~InTransaction(m)' /\ ~HasRead(m)'
  BY <1>5 DEF Stored, InTransaction, HasRead
<1>7. /\ seen' \in [Slot -> {"none", "recent", "old"}] /\ seen'[k] = "recent"
      /\ \A j \in Slot : seen[j] = "recent" => seen'[j] = "recent"
      /\ \A j \in Slot : seen'[j] = "recent" => seen[j] = "recent" \/ j = k
  BY <1>1, <1>2 DEF IInv, TypeOK, Slot
<1>8. TypeOK'
  BY <1>2, <1>5, <1>7 DEF IInv, TypeOK, Slot
<1>9. /\ \A j : Twin(j) => Twin(j)'
      /\ \A n \in Message \ {m} : PostFits(n)'
  BY <1>1, <1>2, <1>3, <1>7, OneMessage
<1>10. Twin(k)'
  BY <1>5, <1>6 DEF Twin
<1>11. SeenFits'
  BY <1>7, <1>9, <1>10 DEF IInv, SeenFits, Slot, Prints
<1>12. post[m].active
  BY <1>1 DEF IInv, PostsFit, PostFits
<1>13. PostFits(m)'
  <2>1. /\ post'[m].epoch <= expiry'[Key(m)']
        /\ seen'[Key(m)'] = "recent"
    BY <1>2, <1>4, <1>5, <1>7 DEF MaxExpiry
  <2>. QED
    BY <1>5, <1>6, <1>12, <2>1 DEF PostFits
<1>14. ASSUME NEW n \in Message, n # m
       PROVE  /\ Stored(n) /\ Key(n) = k /\ post[n].epoch = expiry[k] => Beside(m, n)
              /\ InTransaction(n) => Beside(m, n)
  BY <1>1, <1>14 DEF IInv, PairsFit, PairFits, Missed, Beside
<1>15. ASSUME NEW a \in Message, NEW b \in Message, a # b
       PROVE  PairFits(a, b)'
  <2>1. PairFits(a, b)
    BY <1>15 DEF IInv, PairsFit
  <2>2. CASE a # m /\ b # m
    <3>1. post'[a] = post[a] /\ post'[b] = post[b]
      BY <1>3, <2>2 DEF OnlyPost
    <3>. QED
      BY <1>2, <2>1, <3>1 DEF PairFits, Missed, InTransaction, Stored, HasRead, Key
  <2>3. CASE a = m
    <3>1. post'[b] = post[b] /\ b # m
      BY <1>3, <1>15, <2>3 DEF OnlyPost
    <3>2. Stored(b)' /\ Key(m)' = Key(b)' /\ post'[m].epoch = post'[b].epoch
            => Beside(m, b)'
      BY <1>2, <1>5, <1>14, <3>1 DEF Stored, Key, Beside
    <3>. QED
      BY <1>6, <2>3, <3>2 DEF PairFits, Missed, Beside
  <2>4. CASE b = m
    <3>1. post'[a] = post[a] /\ a # m
      BY <1>3, <1>15, <2>4 DEF OnlyPost
    <3>2. Stored(a)' /\ Key(a)' = Key(m)' /\ post'[a].epoch = post'[m].epoch
            => Beside(m, a)'
      BY <1>2, <1>5, <1>14, <3>1 DEF Stored, Key, Beside
    <3>3. HasRead(a)' => Beside(m, a)'
      BY <1>2, <1>14, <3>1 DEF HasRead, InTransaction, Beside
    <3>. QED
      BY <1>6, <2>4, <3>2, <3>3 DEF PairFits, Missed, Beside
  <2>. QED
    BY <2>2, <2>3, <2>4
<1>. QED
  BY <1>8, <1>9, <1>11, <1>13, <1>15 DEF IInv, PostsFit, PairsFit

-----------------------------------------------------------------------------
(* The window.                                                               *)

LEMMA ExpireInv ==
  ASSUME IInv, NEW k \in Slot, Expire(k)
  PROVE  IInv'
<1>1. /\ seen' = [seen EXCEPT ![k] = "old"]
      /\ expiry' = [expiry EXCEPT ![k] = expiry[k] + 1]
      /\ UNCHANGED <<status, allowed, loaded, post, beside>>
      /\ expiry[k] < MaxExpiry
      /\ \A m \in Message : post[m] # Unsent /\ Key(m) = k => ~InTransaction(m)
  BY DEF Expire
<1>2. /\ expiry[k] \in Nat /\ expiry'[k] = expiry[k] + 1 /\ seen'[k] = "old"
      /\ \A j \in Slot \ {k} : expiry'[j] = expiry[j] /\ seen'[j] = seen[j]
      /\ seen' \in [Slot -> {"none", "recent", "old"}]
      /\ expiry' \in [Slot -> 0..MaxExpiry]
  <2>1. /\ seen \in [Slot -> {"none", "recent", "old"}]
        /\ expiry \in [Slot -> 0..MaxExpiry]
    BY DEF IInv, TypeOK, Slot
  <2>2. expiry[k] \in 0..MaxExpiry /\ expiry[k] + 1 \in 0..MaxExpiry
    BY <1>1, <2>1 DEF MaxExpiry
  <2>. QED
    BY <1>1, <2>1, <2>2
<1>3. TypeOK'
  BY <1>1, <1>2 DEF IInv, TypeOK, Slot
<1>4. \A j : Twin(j)' <=> Twin(j)
  BY <1>1 DEF Twin, Stored, Key
<1>5. ASSUME NEW m \in Message, Stored(m)
      PROVE  Key(m) \in Slot /\ post[m].epoch \in Nat
  BY <1>5, HandledIsPost DEF IInv, Stored, Post
<1>6. ASSUME NEW m \in Message
      PROVE  PostFits(m)'
  <2>1. PostFits(m)
    BY DEF IInv, PostsFit
  <2>2. Stored(m) => /\ post[m].epoch <= expiry'[Key(m)]
                     /\ post[m].epoch = expiry'[Key(m)] => seen'[Key(m)] = "recent"
    BY <1>2, <1>5, <2>1 DEF PostFits
  <2>. QED
    BY <1>1, <1>4, <2>1, <2>2 DEF PostFits, InTransaction, Stored, HasRead, Key
<1>7. ASSUME NEW a \in Message, NEW b \in Message, a # b
      PROVE  PairFits(a, b)'
  <2>1. PairFits(a, b)
    BY <1>7 DEF IInv, PairsFit
  <2>2. HasRead(a) => Key(a) \in Slot \ {k}
    BY <1>1, HandledIsPost DEF IInv, HasRead, InTransaction, Unsent
  <2>3. Missed(a, b)' => Missed(a, b)
    BY <1>1, <1>2, <2>2 DEF Missed, HasRead, Stored, Key
  <2>. QED
    BY <1>1, <2>1, <2>3 DEF PairFits, InTransaction, Stored, Key
<1>8. SeenFits'
  BY <1>2, <1>4 DEF IInv, SeenFits, Slot, Prints
<1>. QED
  BY <1>3, <1>6, <1>7, <1>8 DEF IInv, PostsFit, PairsFit

LEMMA DeleteOldInv ==
  ASSUME IInv, NEW k \in Slot, DeleteOld(k)
  PROVE  IInv'
<1>1. /\ seen[k] = "old" /\ seen' = [seen EXCEPT ![k] = "none"]
      /\ UNCHANGED <<status, allowed, loaded, post, expiry, beside>>
  BY DEF DeleteOld
<1>2. \A j \in Slot : seen'[j] = "recent" <=> seen[j] = "recent"
  BY <1>1 DEF IInv, TypeOK, Slot
<1>3. TypeOK'
  BY <1>1 DEF IInv, TypeOK
<1>4. \A j : Twin(j)' <=> Twin(j)
  BY <1>1 DEF Twin, Stored, Key
<1>5. ASSUME NEW m \in Message
      PROVE  PostFits(m)'
  <2>1. PostFits(m)
    BY DEF IInv, PostsFit
  <2>2. Stored(m) => Key(m) \in Slot
    BY HandledIsPost DEF IInv, Stored
  <2>. QED
    BY <1>1, <1>2, <1>4, <2>1, <2>2 DEF PostFits, InTransaction, Stored, HasRead, Key
<1>6. PairsFit'
  BY <1>1 DEF IInv, PairsFit, PairFits, Missed, InTransaction, Stored, HasRead, Key
<1>7. SeenFits'
  BY <1>2, <1>4 DEF IInv, SeenFits, Slot, Prints
<1>. QED
  BY <1>3, <1>5, <1>6, <1>7 DEF IInv, PostsFit

-----------------------------------------------------------------------------

LEMMA NextInv ==
  ASSUME IInv, [Next]_vars
  PROVE  IInv'
<1>1. CASE UNCHANGED vars
  BY <1>1 DEF vars, IInv, TypeOK, PostsFit, PairsFit, SeenFits, PostFits, PairFits,
     Missed, InTransaction, Stored, HasRead, Twin, Key
<1>2. ASSUME NEW c \in Chat, Activate(c) \/ Deactivate(c) \/ RemoveChat(c)
      PROVE  IInv'
  BY <1>2, ActivateInv, DeactivateInv, RemoveChatInv
<1>3. ASSUME NEW r \in Refresher, Load(r) \/ Publish(r)
      PROVE  IInv'
  BY <1>3, RefreshInv
<1>4. ASSUME NEW m \in Message, Handle(m)
      PROVE  IInv'
  BY <1>4, CheckInv, ReadPriorInv, RegisterInv, EnqueueInv, SuppressInv, FailInv DEF Handle
<1>5. ASSUME NEW m \in Message, NEW c \in Chat, NEW envelope \in Envelope,
             NEW text \in Text, Arrive(m, c, envelope, text)
      PROVE  IInv'
  BY <1>5, ArriveInv
<1>6. ASSUME NEW k \in Slot, Expire(k) \/ DeleteOld(k)
      PROVE  IInv'
  BY <1>6, ExpireInv, DeleteOldInv
<1>7. CASE Restart
  BY <1>7, RestartInv
<1>. QED
  BY <1>1, <1>2, <1>3, <1>4, <1>5, <1>6, <1>7 DEF Next, Slot

LEMMA InductiveInvariant == Spec => []IInv
<1>. QED
  BY InitInv, NextInv, PTL DEF Spec

\* The chats, the allow list, the refresh loops, the messages and the table of
\* fingerprints keep to their types.
THEOREM TypeCorrect == Spec => []TypeOK
<1>1. IInv => TypeOK
  BY DEF IInv
<1>. QED
  BY <1>1, InductiveInvariant, PTL

\* A message is suppressed only as the repetition of one that was enqueued,
\* whatever transactions fail, overlap or are cut off, and whatever expires.
THEOREM SuppressedAlwaysHasTwin == Spec => []SuppressedHasTwin
<1>1. IInv => SuppressedHasTwin
  BY DEF IInv, PostsFit, PostFits, SuppressedHasTwin, Twin
<1>. QED
  BY <1>1, InductiveInvariant, PTL

\* A text is enqueued twice within its window only by overlapping transactions.
THEOREM TwinsAlwaysOverlap == Spec => []TwinsOnlyByOverlap
<1>1. IInv => TwinsOnlyByOverlap
  BY DEF IInv, PairsFit, PairFits, TwinsOnlyByOverlap
<1>. QED
  BY <1>1, InductiveInvariant, PTL

\* No two transactions have ever been open at the same time.
NoneBeside == beside = {}

\* "atomically admit a normalized SHA-256 content fingerprint once per monitored
\* chat and configurable rolling window": it does, as long as no transaction of a
\* message starts while one of another message is open (queue.py, enqueue_unique).
THEOREM AdmittedOnceInSequence ==
  Init /\ [][Next /\ NoneBeside']_vars => []AdmittedOncePerWindow
<1>1. Init => IInv /\ NoneBeside
  BY InitInv DEF Init, NoneBeside
<1>2. IInv /\ NoneBeside /\ [Next /\ NoneBeside']_vars => IInv' /\ NoneBeside'
  <2>1. IInv /\ [Next /\ NoneBeside']_vars => IInv'
    BY NextInv
  <2>2. NoneBeside /\ [Next /\ NoneBeside']_vars => NoneBeside'
    BY DEF vars, NoneBeside
  <2>. QED
    BY <2>1, <2>2
<1>3. IInv /\ NoneBeside => AdmittedOncePerWindow
  <2>1. IInv => TwinsOnlyByOverlap
    BY DEF IInv, PairsFit, PairFits, TwinsOnlyByOverlap
  <2>. QED
    BY <2>1 DEF TwinsOnlyByOverlap, AdmittedOncePerWindow, NoneBeside
<1>. QED
  BY <1>1, <1>2, <1>3, PTL

\* Nothing is stored of a chat that was never active since the message arrived.
THEOREM StoredOnlyWhileActive == Spec => []StoredWhileActive
<1>1. IInv => StoredWhileActive
  BY DEF IInv, PostsFit, PostFits, StoredWhileActive
<1>. QED
  BY <1>1, InductiveInvariant, PTL

\* No message that the prefilter dropped is a lead in decoration, for any texts.
THEOREM NoLeadFiltered == Spec => []FilteredIsNoLead
<1>1. IInv => FilteredIsNoLead
  BY DEF IInv, PostsFit, PostFits, FilteredIsNoLead
<1>. QED
  BY <1>1, InductiveInvariant, PTL
=============================================================================
