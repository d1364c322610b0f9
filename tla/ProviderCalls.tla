--------------------------- MODULE ProviderCalls ---------------------------
(***************************************************************************)
(* One call of a model: the chain of providers (ai/providers/index.ts), the *)
(* requests each of them sends (ai/providers/http.ts), the repair of a      *)
(* structured answer, and the offline engine the orchestrator falls back to *)
(* for it.                                                                 *)
(*                                                                         *)
(*   ask      what is asked: the operation, whether the caller may abort    *)
(*            it, and whether the schema accepts an empty object            *)
(*   chain    the providers; at is the one that is asked, one more than     *)
(*            there are is the offline engine of the orchestrator           *)
(*   pc       where the call is                                            *)
(*   attempt  of fetchWithRetry; round, of the structured loop; texts, of   *)
(*            the texts to embed                                           *)
(*   sent     the requests sent to each provider                           *)
(*   reply    what the provider answered last                              *)
(*   late     a provider was turned to after the caller had aborted         *)
(***************************************************************************)
EXTENDS Naturals, Sequences

CONSTANTS
    Configs,   \* the configurations: sequences of kinds, all with their keys
    Texts      \* how many texts are embedded

ASSUME ProviderAssumption ==
    /\ Configs \subseteq Seq({"openai", "anthropic", "google", "local"})
    /\ Texts \in Nat \ {0}

VARIABLES ask, chain, at, pc, attempt, round, texts, sent, reply, failed, aborted, late

providerVars == <<ask, chain, at, pc, attempt, round, texts, sent, reply, failed, aborted, late>>
asked == <<ask, chain>>

Ops == {"generate", "stream", "structured", "embed"}

(* createProviderChain: without any there is the local engine. *)
ChainOf(configs) == IF configs = <<>> THEN <<"local">> ELSE configs

ProviderInit ==
    /\ ask \in [op : Ops, signal : BOOLEAN, lenient : BOOLEAN]
    /\ ask.op = "embed" => ~ask.signal
    /\ chain \in {ChainOf(c) : c \in Configs}
    /\ at = 0 /\ pc = "next" /\ attempt = 0 /\ round = 1 /\ texts = 0
    /\ sent = [i \in 1..Len(chain) |-> 0]
    /\ reply = "none" /\ failed = {} /\ aborted = FALSE /\ late = FALSE

Offline == Len(chain) + 1
Kind == IF at = Offline THEN "local" ELSE chain[at]

(* What a model may answer a request for an object: the API of OpenAI is asked for *)
(* the schema, which the engines that speak like it may not know; Anthropic only in *)
(* the prompt; Google for JSON.                                                      *)
OpenAiReplies == {"valid", "invalid", "prose", "empty"}
AnthropicReplies == {"valid", "invalid", "prose", "empty"}
GoogleReplies == {"valid", "invalid", "empty"}
Replies == CASE Kind = "openai" -> OpenAiReplies [] Kind = "anthropic" -> AnthropicReplies [] OTHER -> GoogleReplies

(* An answer without a text is taken for an empty object. *)
Accepted(r) == r = "valid" \/ (r = "empty" /\ ask.lenient)

(* Only the request for a stream of OpenAI is not repeated; round 0 is that stream. *)
Retries == IF round = 0 THEN 0 ELSE 2
FirstRound == IF ask.op = "stream" /\ chain[at + 1] = "openai" THEN 0 ELSE 1

-----------------------------------------------------------------------------
(* The providers of the chain that can do it: Anthropic has no embeddings.  A *)
(* chain of one is asked whatever it can.                                     *)
Skipped(i) == Len(chain) > 1 /\ ask.op = "embed" /\ chain[i] = "anthropic"

NextProvider ==
    /\ pc = "next" /\ at < Len(chain)
    /\ at' = at + 1 /\ attempt' = 0 /\ texts' = 0
    /\ round' = FirstRound
    /\ pc' = IF Skipped(at + 1) THEN "next"
             ELSE IF chain[at + 1] = "local" THEN "local"
             ELSE IF ask.op = "embed" /\ chain[at + 1] = "anthropic" THEN "thrown"
             ELSE "send"
    /\ late' = (late \/ (aborted /\ at > 0 /\ pc' = "send"))
    /\ reply' = "none"
    /\ UNCHANGED <<asked, sent, failed, aborted>>

(* None is left: the orchestrator does a structured request itself, unless the chain *)
(* was the offline engine, and embed falls back to hashes if nobody was asked.        *)
LastResort ==
    /\ pc = "next" /\ at = Len(chain)
    /\ \/ /\ ask.op = "structured" /\ chain # <<"local">>
          /\ at' = Offline /\ pc' = "local"
       \/ /\ ask.op = "embed" /\ failed = {}
          /\ at' = Offline /\ pc' = "local"
       \/ /\ ~(ask.op = "structured" /\ chain # <<"local">>) /\ ~(ask.op = "embed" /\ failed = {})
          /\ pc' = "failed" /\ UNCHANGED at
    /\ UNCHANGED <<asked, attempt, round, texts, sent, reply, failed, aborted, late>>

(* FallbackProvider: what was thrown is kept and the next is asked; generate and *)
(* stream look whether the caller has aborted.                                    *)
Thrown ==
    /\ pc = "thrown"
    /\ failed' = failed \union {at}
    /\ pc' = IF at = Offline \/ (aborted /\ ask.op \in {"generate", "stream"}) THEN "failed" ELSE "next"
    /\ UNCHANGED <<asked, at, attempt, round, texts, sent, reply, aborted, late>>

ThrownOn ==
    /\ pc = "thrown"
    /\ failed' = failed \union {at}
    /\ pc' = IF at = Offline THEN "failed" ELSE "next"
    /\ UNCHANGED <<asked, at, attempt, round, texts, sent, reply, aborted, late>>

-----------------------------------------------------------------------------
(* fetchWithRetry *)

AgainOrThrow ==
    IF attempt < Retries THEN attempt' = attempt + 1 /\ pc' = "send"
    ELSE pc' = "thrown" /\ UNCHANGED attempt

(* A request: its answer, none yet, a status that is worth another attempt or the *)
(* network, or a refusal.  Of an aborted one there is no answer.                   *)
Request ==
    /\ pc = "send"
    /\ sent' = [sent EXCEPT ![at] = @ + 1]
    /\ \/ ~aborted /\ pc' \in {"body", "silent", "thrown"} /\ UNCHANGED attempt
       \/ AgainOrThrow
    /\ UNCHANGED <<asked, at, round, texts, reply, failed, aborted, late>>

(* The timer of a request, which the signal of the caller takes the place of. *)
TimerEnds ==
    /\ pc = "silent" /\ ~ask.signal
    /\ AgainOrThrow
    /\ UNCHANGED <<asked, at, round, texts, sent, reply, failed, aborted, late>>

Abort ==
    /\ ask.signal /\ ~aborted
    /\ at = 0 \/ pc \in {"send", "silent", "body", "stalled"}
    /\ aborted' = TRUE
    /\ IF pc = "silent" THEN AgainOrThrow
       ELSE pc' = (IF pc \in {"body", "stalled"} THEN "thrown" ELSE pc) /\ UNCHANGED attempt
    /\ UNCHANGED <<asked, at, round, texts, sent, reply, failed, late>>

-----------------------------------------------------------------------------
(* The body of an answer *)

(* It breaks off, or stops without an end: there is no timer on it any more. *)
BodyFails ==
    /\ pc = "body"
    /\ pc' \in {"thrown", "stalled"}
    /\ UNCHANGED <<asked, at, attempt, round, texts, sent, reply, failed, aborted, late>>

(* A stream without a body: the answer is asked for once more, as a whole. *)
NoStream ==
    /\ pc = "body" /\ round = 0
    /\ round' = 1 /\ attempt' = 0 /\ pc' = "send"
    /\ UNCHANGED <<asked, at, texts, sent, reply, failed, aborted, late>>

(* generate, stream: whatever text there is, even none, is the answer. *)
WholeAnswer ==
    /\ pc = "body" /\ ask.op \in {"generate", "stream"}
    /\ reply' \in {"text", "empty"} /\ pc' = "answered"
    /\ UNCHANGED <<asked, at, attempt, round, texts, sent, failed, aborted, late>>

(* Google embeds one text with each request. *)
Embedded ==
    /\ pc = "body" /\ ask.op = "embed"
    /\ texts' = IF Kind = "google" THEN texts + 1 ELSE Texts
    /\ attempt' = 0
    /\ IF texts' = Texts THEN pc' = "answered" /\ reply' = "vectors" ELSE pc' = "send" /\ UNCHANGED reply
    /\ UNCHANGED <<asked, at, round, sent, failed, aborted, late>>

(* structured: what parses and does not validate is sent back with the errors, once; *)
(* what does not parse is thrown.                                                     *)
Structured ==
    /\ pc = "body" /\ ask.op = "structured"
    /\ reply' \in Replies
    /\ IF Accepted(reply') THEN pc' = "answered" /\ UNCHANGED <<round, attempt>>
       ELSE IF round = 1 /\ reply' # "prose" THEN pc' = "send" /\ round' = 2 /\ attempt' = 0
       ELSE pc' = "thrown" /\ UNCHANGED <<round, attempt>>
    /\ UNCHANGED <<asked, at, texts, sent, failed, aborted, late>>

StructuredUnchecked ==
    /\ pc = "body" /\ ask.op = "structured"
    /\ reply' \in Replies
    /\ IF Accepted(reply') \/ round = 2 THEN pc' = "answered" /\ UNCHANGED <<round, attempt>>
       ELSE IF round = 1 /\ reply' # "prose" THEN pc' = "send" /\ round' = 2 /\ attempt' = 0
       ELSE pc' = "thrown" /\ UNCHANGED <<round, attempt>>
    /\ UNCHANGED <<asked, at, texts, sent, failed, aborted, late>>

(* The local engine always has an answer; an object it makes from rules, then from *)
(* the schema, and neither need validate.                                          *)
LocalEngine ==
    /\ pc = "local"
    /\ \/ reply' = (IF ask.op = "structured" THEN "valid" ELSE IF ask.op = "embed" THEN "vectors" ELSE "text")
          /\ pc' = "answered"
       \/ ask.op = "structured" /\ pc' = "thrown" /\ UNCHANGED reply
    /\ UNCHANGED <<asked, at, attempt, round, texts, sent, failed, aborted, late>>

ProviderNext ==
    \/ NextProvider \/ LastResort \/ Thrown \/ Request \/ TimerEnds \/ Abort
    \/ BodyFails \/ NoStream \/ WholeAnswer \/ Embedded \/ Structured \/ LocalEngine

ProviderSpec == ProviderInit /\ [][ProviderNext]_providerVars
-----------------------------------------------------------------------------
ProviderTypeOK ==
    /\ at \in 0..Offline /\ attempt \in 0..2 /\ round \in 0..2 /\ texts \in 0..Texts
    /\ pc \in {"next", "send", "silent", "body", "stalled", "thrown", "local", "answered", "failed"}
    /\ failed \subseteq 1..Offline

(* A call costs a bounded number of requests: three for an answer, one more for a *)
(* stream without a body, twice three for an object, three for each text.          *)
RequestsAreFew ==
    \A i \in 1..Len(chain) :
        sent[i] <= CASE ask.op = "stream" /\ chain[i] = "openai" -> 4
                     [] ask.op = "structured" -> 6
                     [] ask.op = "embed" /\ chain[i] = "google" -> 3 * Texts
                     [] OTHER -> 3

(* The answer is that of the first provider of the chain that did not fail. *)
FirstAnswerWins ==
    pc = "answered" =>
        /\ \A i \in 1..Len(chain) : i < at /\ ~Skipped(i) => i \in failed
        /\ \A i \in 1..Len(chain) : i > at => sent[i] = 0

(* An object that was not validated does not leave. *)
OnlyValidLeaves == pc = "answered" /\ ask.op = "structured" => Accepted(reply)

(* Nobody else is asked to generate for a caller who has aborted. *)
AbortEndsIt == ask.op \in {"generate", "stream"} => ~late

(* With the local engine in the chain only the caller, or a schema it has no object *)
(* for, is left without an answer.                                                   *)
LocalAnswers ==
    pc = "failed" /\ (\E i \in DOMAIN chain : chain[i] = "local") =>
        aborted \/ ask.op = "structured"

(* A model is asked a bounded number of times and its first good answer counts. *)
AnswersAreSound ==
    ProviderTypeOK /\ RequestsAreFew /\ FirstAnswerWins /\ OnlyValidLeaves /\ AbortEndsIt /\ LocalAnswers

(* "request -> parse -> validate -> one repair attempt" (http.ts), whatever is wrong. *)
UnusableIsRepaired ==
    ask.op = "structured" /\ pc = "thrown" /\ reply \in {"prose", "invalid"} => round = 2 \/ at = Offline

(* "A cloud outage degrades to the local engine instead of breaking the app" (index.ts): *)
(* what does not answer is asked up at some time.                                        *)
SilenceEnds == pc # "stalled" /\ (pc = "silent" => ~ask.signal)

(* An abort ends a structured request as well. *)
AbortEndsStructured == ask.op = "structured" => ~late
=============================================================================
