----------------------------- MODULE Prefilter -----------------------------
(***************************************************************************)
(* The local prefilter of listener/events/prefilter.py and the content      *)
(* fingerprint of listener/events/fingerprint.py, as pure operators.        *)
(*                                                                         *)
(* A text is the set of its tokens, each standing for the terms that belong *)
(* to the same lists: the lists overlap ("bot" is a deliverable and a stack *)
(* term, the stem "develop" also matches "developer"), and which rule       *)
(* decides depends on that.  The order of words and the inflections that    *)
(* _compile_stem_terms accepts are left out; a link or a mention whose name *)
(* holds a term is a token of its own.                                      *)
(***************************************************************************)
EXTENDS Naturals

\* Terms, each with the lists it is in below.
Term ==
  {"programmist", "developer", "need", "need_to", "nado", "who", "sdelat",
   "automate", "interfeis", "bot", "crm", "quote", "resume", "looking_for_a_job",
   "api_link", "bot_command"}

Link == {"link", "api_link"}
Command == {"start_command", "bot_command"}
Plain == {"word", "hello", "thanks", "emoji", "punctuation", "mention"}
Token == Term \cup Link \cup Command \cup Plain

DEV_NOUN == {"programmist", "developer"}
NEED_TOKEN == {"need", "need_to", "looking_for_a_job"}
WHO_TOKEN == {"who"}
BUILD_VERB == {"sdelat", "automate", "developer"}
WEAK_NEED == {"need_to", "nado"}
DELIVERABLE == {"interfeis", "bot", "api_link", "bot_command"}
STACK_TOKEN == {"automate", "bot", "crm", "api_link", "bot_command"}
ORDER_PAY == {"quote"}
EXCLUSION == {"resume", "looking_for_a_job"}

KNOWN_GREETINGS == {"hello"}
KNOWN_THANKS == {"thanks"}

Has(text, terms) == text \cap terms # {}

\* AnyEmoji would reject every text that carries an emoji.
AnyEmoji(text) == "emoji" \in text
IsOnlyEmoji(text) == text \subseteq {"emoji"}
IsCommand(text) == \E command \in Command : text = {command}
IsOnlyUrls(text) == text # {} /\ text \subseteq Link
\* Punctuation is stripped from the edges only, and that is where it is here.
IsPhrase(text, phrases) == \E phrase \in phrases : text \ {"punctuation"} = {phrase}

HasHiringIntent(text) ==
  \/ Has(text, NEED_TOKEN) /\ Has(text, DEV_NOUN)
  \/ Has(text, WHO_TOKEN) /\ Has(text, BUILD_VERB)
  \/ Has(text, WEAK_NEED) /\ Has(text, BUILD_VERB) /\ Has(text, DELIVERABLE)
  \/ Has(text, ORDER_PAY)

FilterReasonCode ==
  {"NO_TEXT", "OWN_MESSAGE", "SERVICE_MESSAGE", "STICKER_WITHOUT_CAPTION",
   "ONLY_EMOJI", "BOT_COMMAND", "ONLY_URL", "KNOWN_GREETING", "KNOWN_THANKS",
   "NO_HIRING_INTENT", "NO_STACK_FIT", "PASS_TO_CLASSIFIER"}

\* What the message is besides its text.
Envelope == {"own", "service", "sticker", "plain"}

\* prefilter_message: the first rule that applies decides.
Decide(envelope, text) ==
  CASE envelope = "own"               -> "OWN_MESSAGE"
    [] envelope = "service"           -> "SERVICE_MESSAGE"
    [] OTHER ->
  CASE text = {} /\ envelope = "sticker" -> "STICKER_WITHOUT_CAPTION"
    [] text = {} /\ envelope # "sticker" -> "NO_TEXT"
    [] OTHER ->
  CASE IsOnlyEmoji(text)              -> "ONLY_EMOJI"
    [] IsCommand(text)                -> "BOT_COMMAND"
    [] IsOnlyUrls(text)               -> "ONLY_URL"
    [] IsPhrase(text, KNOWN_GREETINGS) -> "KNOWN_GREETING"
    [] IsPhrase(text, KNOWN_THANKS)   -> "KNOWN_THANKS"
    [] OTHER ->
  CASE Has(text, EXCLUSION) \/ ~HasHiringIntent(text) -> "NO_HIRING_INTENT"
    [] ~Has(text, EXCLUSION) /\ HasHiringIntent(text) /\ ~Has(text, STACK_TOKEN)
         -> "NO_STACK_FIT"
    [] OTHER -> "PASS_TO_CLASSIFIER"

ShouldClassify(envelope, text) == Decide(envelope, text) = "PASS_TO_CLASSIFIER"

\* Links, mentions, emoji and punctuation leave no trace in the fingerprint.
Fingerprint(text) == text \ (Link \cup {"mention", "emoji", "punctuation"})
=============================================================================
