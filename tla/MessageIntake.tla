--------------------------- MODULE MessageIntake ---------------------------
(***************************************************************************)
(* Ingestion of messages: the allow list of active chats and its refresh,   *)
(* the event handler (allow list, prefilter, swallowed failures), and the   *)
(* short transaction that checks the chat again, registers the fingerprint  *)
(* of the text, and enqueues a job.                                         *)
(*                                                                         *)
(* Telethon handles every update in a task of its own, so transactions of   *)
(* several messages overlap.  register_fingerprint reads the earlier entry  *)
(* in its snapshot before ON CONFLICT waits for the transaction that is     *)
(* inserting the same fingerprint: the two reads are separate steps here.   *)
(***************************************************************************)
EXTENDS Prefilter

CONSTANTS
  Chat,       \* Telegram chats
  Message,    \* messages that arrive (bound)
  Text,       \* texts they may have: sets of tokens
  Refresher   \* refresh loops: a reconnect may leave an old one running

ASSUME TextAssumption == Text \subseteq SUBSET Token

Prints == {Fingerprint(text) : text \in Text}

\* Number of times the rolling window of a fingerprint may run out (bound).
MaxExpiry == 1

Unsent == [step |-> "unsent"]
\* gone: the chat's row was removed after it had been read.  active (history):
\* the chat was active at some moment since the message arrived.
Post ==
  [step : {"arrived", "checked", "read", "registered",
           "ignored", "filtered", "enqueued", "suppressed", "lost"},
   chat : Chat, print : Prints, admitted : BOOLEAN, gone : BOOLEAN,
   active : BOOLEAN, epoch : 0..MaxExpiry]

VARIABLES
  status,   \* status of the monitored chat
  allowed,  \* ActiveChatAllowList._chat_ids
  loaded,   \* what each refresh loop has read and not published
  post,     \* the messages, with the transaction that handles each
  seen,     \* recent_message_fingerprints: none, or inside or past the window
  expiry,   \* history: how often the window of a fingerprint ran out
  beside    \* history: pairs of transactions that overlapped

vars == <<status, allowed, loaded, post, seen, expiry, beside>>

Nothing == {"nothing"}

TypeOK ==
  /\ status \in [Chat -> {"absent", "active", "inactive"}]
  /\ allowed \subseteq Chat
  /\ loaded \in [Refresher -> (SUBSET Chat) \cup {Nothing}]
  /\ post \in [Message -> Post \cup {Unsent}]
  /\ seen \in [Chat \X Prints -> {"none", "recent", "old"}]
  /\ expiry \in [Chat \X Prints -> 0..MaxExpiry]
  /\ beside \subseteq Message \X Message

Init ==
  /\ status = [c \in Chat |-> "absent"]
  /\ allowed = {}
  /\ loaded = [r \in Refresher |-> Nothing]
  /\ post = [m \in Message |-> Unsent]
  /\ seen = [k \in Chat \X Prints |-> "none"]
  /\ expiry = [k \in Chat \X Prints |-> 0]
  /\ beside = {}

Key(m) == <<post[m].chat, post[m].print>>
InTransaction(m) == post[m].step \in {"checked", "read", "registered"}
Move(m, step) == post' = [post EXCEPT ![m].step = step]

\* A message whose handling has ended; what only the handling needs is dropped.
Ended(p, step) ==
  [p EXCEPT !.step = step, !.admitted = FALSE, !.gone = FALSE,
            !.active = @ /\ step = "enqueued"]
End(m, step) == post' = [post EXCEPT ![m] = Ended(post[m], step)]

-----------------------------------------------------------------------------
(* The chats, from the point of view of the listener.                        *)

\* A verification finds the chat accessible.
Activate(c) ==
  /\ status[c] # "active"
  /\ status' = [status EXCEPT ![c] = "active"]
  /\ post' = [m \in Message |->
       IF post[m] # Unsent /\ post[m].chat = c
       THEN [post[m] EXCEPT !.active = @ \/ post[m].step = "arrived"] ELSE post[m]]
  /\ UNCHANGED <<allowed, loaded, seen, expiry, beside>>

\* The operator pauses the chat, or a verification finds it inaccessible.
Deactivate(c) ==
  /\ status[c] = "active"
  /\ status' = [status EXCEPT ![c] = "inactive"]
  /\ UNCHANGED <<allowed, loaded, post, seen, expiry, beside>>

RemoveChat(c) ==
  /\ status[c] # "absent"
  /\ status' = [status EXCEPT ![c] = "absent"]
  /\ post' = [m \in Message |->
       IF post[m] # Unsent /\ InTransaction(m) /\ post[m].chat = c
       THEN [post[m] EXCEPT !.gone = TRUE] ELSE post[m]]
  /\ UNCHANGED <<allowed, loaded, seen, expiry, beside>>

-----------------------------------------------------------------------------
(* ActiveChatAllowList.refresh, in each loop; a failed load changes nothing. *)

ActiveChats == {c \in Chat : status[c] = "active"}

Load(r) ==
  /\ loaded[r] = Nothing
  /\ loaded' = [loaded EXCEPT ![r] = ActiveChats]
  /\ UNCHANGED <<status, allowed, post, seen, expiry, beside>>

\* PublishRetained keeps the chats of the list that are still active.
PublishRetained(r) ==
  /\ loaded[r] # Nothing
  /\ allowed' = allowed \cap loaded[r]
  /\ loaded' = [loaded EXCEPT ![r] = Nothing]
  /\ UNCHANGED <<status, post, seen, expiry, beside>>
Publish(r) ==
  /\ loaded[r] # Nothing
  /\ allowed' = loaded[r]
  /\ loaded' = [loaded EXCEPT ![r] = Nothing]
  /\ UNCHANGED <<status, post, seen, expiry, beside>>

-----------------------------------------------------------------------------
(* IngestionHandler.__call__ of one message.                                 *)

\* The allow list and the prefilter, with no await in between.
FirstStep(c, envelope, text) ==
  CASE c \notin allowed \/ envelope \in {"own", "service"} -> "ignored"
    [] OTHER -> IF ShouldClassify(envelope, text) THEN "arrived" ELSE "filtered"

Arrive(m, c, envelope, text) ==
  /\ post[m] = Unsent
  /\ LET step == FirstStep(c, envelope, text)
     IN post' = [post EXCEPT ![m] =
          [step |-> step, chat |-> c, print |-> Fingerprint(text),
           admitted |-> FALSE, gone |-> FALSE,
           active |-> step = "arrived" /\ status[c] = "active", epoch |-> 0]]
  /\ UNCHANGED <<status, allowed, loaded, seen, expiry, beside>>

\* The transaction begins and checks the chat again.  TrustAllowList leaves
\* the check out, and takes any row of the chat.
Others(m) == {n \in Message \ {m} : post[n] # Unsent /\ InTransaction(n)}
TrustAllowList(c) == status[c] # "absent"
MayStore(c) == status[c] = "active"

Check(m) ==
  /\ post[m] # Unsent
  /\ post[m].step = "arrived"
  /\ IF MayStore(post[m].chat)
     THEN /\ Move(m, "checked")
          /\ beside' = beside \cup ({m} \X Others(m)) \cup (Others(m) \X {m})
     ELSE /\ End(m, "ignored")
          /\ UNCHANGED beside
  /\ UNCHANGED <<status, allowed, loaded, seen, expiry>>

\* The earlier entry, in the snapshot of the statement.
AlwaysNew(k) == TRUE
IsNew(k) == seen[k] # "recent"
ReadPrior(m) ==
  /\ post[m] # Unsent
  /\ post[m].step = "checked"
  /\ post' = [post EXCEPT ![m].step = "read", ![m].admitted = IsNew(Key(m))]
  /\ UNCHANGED <<status, allowed, loaded, seen, expiry, beside>>

\* INSERT ... ON CONFLICT DO UPDATE waits for whoever holds the entry.
Register(m) ==
  /\ post[m] # Unsent
  /\ post[m].step = "read"
  /\ \A n \in Others(m) : post[n].step = "registered" => Key(n) # Key(m)
  /\ Move(m, "registered")
  /\ UNCHANGED <<status, allowed, loaded, seen, expiry, beside>>

\* The entry becomes visible with the commit, also that of a suppressed one.
Visible(m) == seen' = [seen EXCEPT ![Key(m)] = "recent"]

\* The job refers to the chat's row: without it the insert fails.
EnqueueAndCommit(m) ==
  /\ post[m] # Unsent
  /\ post[m].step = "registered"
  /\ post[m].admitted
  /\ ~post[m].gone
  /\ post' = [post EXCEPT ![m] =
       [Ended(post[m], "enqueued") EXCEPT !.epoch = expiry[Key(m)]]]
  /\ Visible(m)
  /\ UNCHANGED <<status, allowed, loaded, expiry, beside>>

Suppress(m) ==
  /\ post[m] # Unsent
  /\ post[m].step = "registered"
  /\ ~post[m].admitted
  /\ End(m, "suppressed")
  /\ Visible(m)
  /\ UNCHANGED <<status, allowed, loaded, expiry, beside>>

\* The database fails or refuses: the transaction is rolled back, the handler
\* logs it and the message is never seen again.  KeepEntry is a registration
\* that committed on its own.
KeepEntry(m) ==
  /\ post[m] # Unsent
  /\ InTransaction(m)
  /\ End(m, "lost")
  /\ IF post[m].step = "registered" THEN Visible(m) ELSE UNCHANGED seen
  /\ UNCHANGED <<status, allowed, loaded, expiry, beside>>
Fail(m) ==
  /\ post[m] # Unsent
  /\ InTransaction(m)
  /\ End(m, "lost")
  /\ UNCHANGED <<status, allowed, loaded, seen, expiry, beside>>

-----------------------------------------------------------------------------
\* The window of dedup_window_days runs out.  A transaction is short next to
\* it: none is open.
Expire(k) ==
  /\ seen[k] = "recent"
  /\ expiry[k] < MaxExpiry
  /\ \A m \in Message : post[m] # Unsent /\ Key(m) = k => ~InTransaction(m)
  /\ seen' = [seen EXCEPT ![k] = "old"]
  /\ expiry' = [expiry EXCEPT ![k] = @ + 1]
  /\ UNCHANGED <<status, allowed, loaded, post, beside>>

\* Retention deletes entries past the window.
DeleteOld(k) ==
  /\ seen[k] = "old"
  /\ \A m \in Message :
       post[m] # Unsent /\ Key(m) = k => post[m].step # "registered"
  /\ seen' = [seen EXCEPT ![k] = "none"]
  /\ UNCHANGED <<status, allowed, loaded, post, expiry, beside>>

\* The listener stops and starts: the allow list is empty, handlers are gone.
Restart ==
  /\ allowed # {} \/ \E r \in Refresher : loaded[r] # Nothing
  /\ allowed' = {}
  /\ loaded' = [r \in Refresher |-> Nothing]
  /\ post' = [m \in Message |->
       IF post[m] # Unsent /\ (InTransaction(m) \/ post[m].step = "arrived")
       THEN Ended(post[m], "lost") ELSE post[m]]
  /\ UNCHANGED <<status, seen, expiry, beside>>

Handle(m) ==
  \/ Check(m) \/ ReadPrior(m) \/ Register(m)
  \/ EnqueueAndCommit(m) \/ Suppress(m) \/ Fail(m)

Next ==
  \/ \E c \in Chat : Activate(c) \/ Deactivate(c) \/ RemoveChat(c)
  \/ \E r \in Refresher : Load(r) \/ Publish(r)
  \/ \E m \in Message :
       \/ Handle(m)
       \/ \E c \in Chat, envelope \in Envelope, text \in Text :
            Arrive(m, c, envelope, text)
  \/ \E k \in Chat \X Prints : Expire(k) \/ DeleteOld(k)
  \/ Restart

Spec == Init /\ [][Next]_vars

(* Fairness.  A refresh loop sleeps a minute and loads again; a failing       *)
(* database recovers, and restarts of the listener end.                       *)
Fairness ==
  \A r \in Refresher : SF_vars(Load(r)) /\ SF_vars(Publish(r))

FairSpec == Spec /\ Fairness

-----------------------------------------------------------------------------
(* Properties.                                                               *)

Stored(m) == post[m].step = "enqueued"

\* A message is suppressed only as the repetition of one that was enqueued: a
\* transaction that fails after registering a fingerprint takes the entry
\* with it, so the next repetition is not lost together with the first.
SuppressedHasTwin ==
  \A m \in Message : post[m].step = "suppressed" =>
    \E n \in Message : Stored(n) /\ Key(n) = Key(m)

\* A text is enqueued a second time within its window only by a transaction
\* that ran at the same time as the first one.
TwinsOnlyByOverlap ==
  \A m, n \in Message :
    m # n /\ Stored(m) /\ Stored(n) /\ Key(m) = Key(n) /\ post[m].epoch = post[n].epoch
    => <<m, n>> \in beside

\* No message is stored of a chat that was not active at any time since the
\* message arrived, however stale the allow list was.
StoredWhileActive ==
  \A m \in Message : Stored(m) => post[m].active

\* A chat that stays active gets onto the allow list, again after every restart
\* and also when a refresh loop left behind publishes an older list.
AllowListCatchesUp ==
  \A c \in Chat : <>[](status[c] = "active") => []<>(c \in allowed)

\* "ignore only unambiguous noise": the prefilter drops no message whose text
\* without its links, mentions, emoji and punctuation it would pass.
FilteredIsNoLead ==
  \A m \in Message : post[m].step = "filtered" => ~ShouldClassify("plain", post[m].print)

\* "atomically admit a normalized SHA-256 content fingerprint once per
\* monitored chat and configurable rolling window".
AdmittedOncePerWindow ==
  \A m, n \in Message :
    m # n /\ Stored(m) /\ Stored(n) /\ Key(m) = Key(n) => post[m].epoch # post[n].epoch
=============================================================================
