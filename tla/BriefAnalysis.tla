---------------------------- MODULE BriefAnalysis ----------------------------
(***************************************************************************)
(* What one analysis of a text comes to: the judgement of the text itself  *)
(* (shared/src/index.ts), the provider's reply and the schema its result   *)
(* must have (worker/src/llm), and the errors an attempt ends with         *)
(* (worker/src/errors, worker/src/job-failure.ts).                         *)
(*                                                                         *)
(* A text is the sequence of its words and a word the sequence of its      *)
(* letters, after the normalisation of the code.  Of a string in a result  *)
(* only the length counts.                                                 *)
(***************************************************************************)
EXTENDS Integers, Sequences, FiniteSets, Functions

Meaningful(text) == {word \in Range(text) : Len(word) >= 3}

\* assessBriefInputQuality: four words, three different ones of at least three
\* letters, and six different letters in those.
Sufficient(text) ==
  /\ Len(text) >= 4
  /\ Cardinality(Meaningful(text)) >= 3
  /\ Cardinality(UNION {Range(word) : word \in Meaningful(text)}) >= 6

-----------------------------------------------------------------------------
(***************************************************************************)
(* briefAnalysisSchema: per outcome, the strings and the lists of strings  *)
(* that a result has, and how long they may be.  A strict object has no    *)
(* field but these.                                                        *)
(***************************************************************************)
StringsOf ==
  [ANALYZED           |-> [summary       |-> 160 .. 1200,
                           mainObjective |-> 100 .. 700],
   INSUFFICIENT_BRIEF |-> [reason |-> 30 .. 600]]

List(count, item) == [count |-> count, item |-> item]

ListsOf ==
  [ANALYZED           |-> [targetAudience       |-> List(0 .. 6, 3 .. 280),
                           communicationPillars |-> List(0 .. 6, 15 .. 400),
                           suggestedActions     |-> List(1 .. 8, 50 .. 600),
                           risks                |-> List(1 .. 8, 40 .. 600)],
   INSUFFICIENT_BRIEF |-> [missingInformation |-> List(1 .. 8, 5 .. 280)]]

\* A result gives each of its strings a length, and each of its lists the
\* lengths of its items.
FitsSchema(result) ==
  /\ result.outcome \in DOMAIN StringsOf
  /\ LET strings == StringsOf[result.outcome]
         lists == ListsOf[result.outcome] IN
     /\ DOMAIN result.strings = DOMAIN strings
     /\ DOMAIN result.lists = DOMAIN lists
     /\ \A field \in DOMAIN strings : result.strings[field] \in strings[field]
     /\ \A field \in DOMAIN lists :
          /\ Len(result.lists[field]) \in lists[field].count
          /\ Range(result.lists[field]) \subseteq lists[field].item

\* The result the worker makes itself of a text that is not sufficient.
OwnResult == [outcome |-> "INSUFFICIENT_BRIEF",
              strings |-> [reason |-> 102],
              lists   |-> [missingInformation |-> <<62, 47>>]]

NoResult == [outcome |-> "none", strings |-> <<>>, lists |-> <<>>]

-----------------------------------------------------------------------------
(***************************************************************************)
(* Errors as BullMQ and the handlers of the worker see them: name, the     *)
(* string in field code, the code a message starts with in brackets, and   *)
(* whether the attempt may be repeated.                                    *)
(***************************************************************************)
ErrorCodes == {"LLM_AUTH_ERROR", "LLM_TIMEOUT", "LLM_RATE_LIMITED", "LLM_UNAVAILABLE",
               "LLM_REQUEST_INVALID", "LLM_INVALID_RESPONSE", "WORKER_INTERNAL_ERROR",
               "UNCLASSIFIED_ERROR"}

Codes == ErrorCodes \cup {"none"}

Errors == [name      : {"ProcessingError", "MongoServerError", "UnrecoverableError", "none"},
           code      : Codes,
           prefix    : Codes,
           retryable : BOOLEAN]

Error(name, code, prefix, retryable) ==
  [name |-> name, code |-> code, prefix |-> prefix, retryable |-> retryable]

NoError == Error("none", "none", "none", FALSE)

ProcessingError(code, retryable) == Error("ProcessingError", code, "none", retryable)

\* normalizeError of anything that is no ProcessingError.
InternalError == ProcessingError("WORKER_INTERNAL_ERROR", TRUE)

\* An error of the MongoDB driver (its code is a number) as it leaves the
\* catch block of processBrief.
DriverError == Error("MongoServerError", "none", "none", TRUE)

\* What processBrief throws: BullMQ repeats anything but UnrecoverableError.
Thrown(error) ==
  IF error.retryable THEN error
                     ELSE Error("UnrecoverableError", "none", error.code, FALSE)

\* What BullMQ reports of a job that stalled once too often.
StalledError == Error("UnrecoverableError", "none", "none", FALSE)

\* mutant: the code in the message is not looked for
ErrorCodeOfField(error) == IF error.code # "none" THEN error.code ELSE "UNCLASSIFIED_ERROR"

\* errorLogFields.
ErrorCodeOf(error) ==
  IF error.code # "none" THEN error.code
  ELSE IF error.prefix # "none" THEN error.prefix
  ELSE "UNCLASSIFIED_ERROR"

-----------------------------------------------------------------------------
\* mutant: a timeout the provider reports itself is taken for a bad request
HttpErrorWithout408(status) ==
  CASE status \in {401, 403} -> ProcessingError("LLM_AUTH_ERROR", FALSE)
    [] status = 429 -> ProcessingError("LLM_RATE_LIMITED", TRUE)
    [] status >= 500 -> ProcessingError("LLM_UNAVAILABLE", TRUE)
    [] OTHER -> ProcessingError("LLM_REQUEST_INVALID", FALSE)

\* throwHttpError.
HttpError(status) ==
  CASE status \in {401, 403} -> ProcessingError("LLM_AUTH_ERROR", FALSE)
    [] status = 408 -> ProcessingError("LLM_TIMEOUT", TRUE)
    [] status = 429 -> ProcessingError("LLM_RATE_LIMITED", TRUE)
    [] status >= 500 -> ProcessingError("LLM_UNAVAILABLE", TRUE)
    [] OTHER -> ProcessingError("LLM_REQUEST_INVALID", FALSE)

(***************************************************************************)
(* A reply of the provider: whether it comes (in time), its status, what   *)
(* its body is (too slow, no JSON, no envelope with a message, a message   *)
(* that is no JSON, or a result), and the result.                          *)
(***************************************************************************)
Reply(fetched, status, body, result) ==
  [fetched |-> fetched, status |-> status, body |-> body, result |-> result]

Bodies == {"slow", "garbled", "noMessage", "noJson", "result"}

Silence == Reply("never", 0, "slow", NoResult)
Unreachable == Reply("refused", 0, "slow", NoResult)
Refusal(status) == Reply("answered", status, "garbled", NoResult)
Unusable(body) == Reply("answered", 200, body, NoResult)
Answer(result) == Reply("answered", 200, "result", result)

\* The error analyzeBrief throws on a reply, or NoError.
ReplyError(reply) ==
  IF reply.fetched = "never" THEN ProcessingError("LLM_TIMEOUT", TRUE)
  ELSE IF reply.fetched = "refused" THEN ProcessingError("LLM_UNAVAILABLE", TRUE)
  ELSE IF reply.status \notin 200 .. 299 THEN HttpError(reply.status)
  ELSE CASE reply.body = "slow" -> ProcessingError("LLM_TIMEOUT", TRUE)
         [] reply.body \in {"garbled", "noMessage", "noJson"} ->
              ProcessingError("LLM_INVALID_RESPONSE", TRUE)
         [] OTHER -> IF FitsSchema(reply.result) THEN NoError
                     ELSE ProcessingError("LLM_INVALID_RESPONSE", TRUE)

=============================================================================
