------------------------------- MODULE Intake -------------------------------
(***************************************************************************)
(* What the handler does with a request body before it enqueues it: the    *)
(* validation of api/routes.py and the classification of                   *)
(* scheduler/classifier.py.  Both are functions of the body alone.         *)
(***************************************************************************)
EXTENDS Integers, Sequences

LOCAL INSTANCE Functions

CONSTANTS
  NoCap,      \* max_tokens is missing or no number
  InfCap,     \* max_tokens is Infinity, which json.loads accepts
  NoList,     \* messages is missing or no list
  OddList,    \* an item of messages is no object, or a text no valid Unicode
  NoText      \* a message without text

(***************************************************************************)
(* What is told apart of a body.  A message is the length of its text, or  *)
(* NoText; content in several text parts is several messages here.  Bytes  *)
(* that are no UTF-8 are "undecodable".  A "list" is a JSON array or       *)
(* string, in which the validation finds a field name as an element or a   *)
(* substring.                                                              *)
(***************************************************************************)
BodiesOver(texts, caps) ==
  [ form     : {"empty", "undecodable", "not_json", "scalar", "list", "object"},
    ids      : BOOLEAN,    \* a correlation id, which belongs in a header
    model    : BOOLEAN,    \* "model" is there and not empty
    messages : {NoList, OddList} \cup texts,
    cap      : {NoCap, InfCap} \cup caps,
    stream   : {"absent", "true", "false"} ]

FieldsValid(body) == ~body.ids /\ body.model

MessagesValid(body) == body.messages \notin {NoList, <<>>}

\* What becomes of a body.  Only json.JSONDecodeError and HTTPException are
\* caught: "crashed" is any other exception.
Verdict(body) ==
  CASE body.form = "empty"                   -> "empty_body"
    [] body.form \in {"undecodable", "scalar"} -> "crashed"
    [] body.form = "not_json"                -> "invalid_json"
    [] ~FieldsValid(body)                    -> "invalid_chat_payload"
    [] body.form = "list"                    -> "crashed"
    [] ~MessagesValid(body)                  -> "invalid_chat_payload"
    [] body.messages = OddList               -> "crashed"
    [] body.cap = InfCap                     -> "crashed"
    [] OTHER                                 -> "accepted"

-----------------------------------------------------------------------------
(* Classification of an accepted body.                                     *)

\* Four characters to a token, and no text for less than one token.
TokensOf(message) ==
  CASE message = NoText -> 0
    [] message < 4      -> 1
    [] OTHER            -> message \div 4

RoughTokens(messages) ==
  SumFunction([i \in DOMAIN messages |-> TokensOf(messages[i])])

DefaultCap == 512

\* A cap of zero counts as none.
CapOf(cap) == IF cap \in {NoCap, 0} THEN DefaultCap ELSE cap

TotalEstimate(body) == RoughTokens(body.messages) + CapOf(body.cap)

\* A body that does not say streams.
IsStream(body) == body.stream # "false"

ClassOf(total, stream) ==
  CASE stream /\ total > 4000 -> "streaming_long"
    [] total < 1500           -> "small_chat"
    [] total < 8000           -> "medium_chat"
    [] OTHER                  -> "large_chat"

Classify(body) == ClassOf(TotalEstimate(body), IsStream(body))

\* The classes that large_inflight counts.
Heavy == {"large_chat", "streaming_long"}

=============================================================================
