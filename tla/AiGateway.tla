----------------------------- MODULE AiGateway -----------------------------
(***************************************************************************)
(* The calls of one user's devices to the models behind the server: the     *)
(* GatewayProvider of a device, the routes of /v1/ai, the budget of tokens   *)
(* a user has for a day (AiGateway) and the chain of providers of the        *)
(* server (FallbackProvider).  A device that gets no answer from here        *)
(* answers with its own offline engine.                                     *)
(***************************************************************************)
EXTENDS Naturals, FiniteSets

CONSTANTS
    Call,          \* the calls a device may make, each at most once
    Budget,        \* config.ai.dailyTokenBudget
    MaxCost,       \* the most tokens one call uses
    Chain,         \* the number of providers the server has keys for
    MaxNights      \* how often the day changes

VARIABLES
    request,    \* the handler of a call: what it does, its kind and the provider it is at
    client,     \* what the device has of the call
    charged,    \* the tokens of today's rows of ai_usage
    spent,      \* the tokens today's successful calls have used
    rows,       \* the calls that have a row of ai_usage: how many
    heard,      \* the providers whose deltas a streaming device was sent
    owner,      \* the row of users: a purge deletes the account and its rows
    peak,       \* the most calls that were with a provider at once
    nights

gatewayVars == <<request, client, charged, spent, rows, heard, owner, peak, nights>>

Kinds == {"generate", "stream", "structured", "embed"}

GatewayInit ==
    /\ request \in [Call -> [pc : {"none"}, kind : Kinds, at : {1}]]
    /\ client = [c \in Call |-> "idle"]
    /\ charged = 0 /\ spent = 0
    /\ rows = [c \in Call |-> 0] /\ heard = [c \in Call |-> {}]
    /\ owner = TRUE /\ peak = 0 /\ nights = 0

At(c, pc) == request[c].pc = pc
Moves(c, fields) == request' = [request EXCEPT ![c] = [f \in DOMAIN @ |-> IF f \in DOMAIN fields THEN fields[f] ELSE @[f]]]

(* call and stream: the device has a token and sends the request, with a timer. *)
Send(c) ==
    /\ client[c] = "idle" /\ owner
    /\ client' = [client EXCEPT ![c] = "waiting"]
    /\ Moves(c, [pc |-> "received"])
    /\ UNCHANGED <<charged, spent, rows, heard, owner, peak, nights>>

(* The answer of a streaming call is a 200 before anything is known of it.  What   *)
(* follows it as an error is not looked at: the device takes what text there is.  *)
Answered(c, outcome) ==
    client' = [client EXCEPT ![c] =
        IF @ # "waiting" THEN @
        ELSE IF outcome = "ok" THEN "text"
        ELSE IF request[c].kind = "stream" THEN "cut" ELSE "local"]

(* With the number of tokens compared to be strictly more. *)
ExceededLate == Budget > 0 /\ charged > Budget

(* assertBudget: today's rows reach the budget; a budget of 0 is none. *)
Exceeded == Budget > 0 /\ charged >= Budget

(* The budget is checked and the call goes to the first provider of the chain. *)
Admit(c) ==
    /\ At(c, "received")
    /\ IF Exceeded
       THEN Moves(c, [pc |-> "done"]) /\ Answered(c, "refused") /\ UNCHANGED peak
       ELSE /\ Moves(c, [pc |-> "calling"]) /\ UNCHANGED client
            /\ LET n == Cardinality({d \in Call : At(d, "calling")}) + 1
               IN  peak' = IF n > peak THEN n ELSE peak
    /\ UNCHANGED <<charged, spent, rows, heard, owner, nights>>

(* Deltas of the provider are passed on as they come. *)
Delta(c) ==
    /\ At(c, "calling") /\ request[c].kind = "stream"
    /\ heard' = [heard EXCEPT ![c] = @ \cup {request[c].at}]
    /\ UNCHANGED <<request, client, charged, spent, rows, owner, peak, nights>>

(* logUsage: what has no usage of its own, a structured answer or vectors, is      *)
(* charged nothing.                                                              *)
Charge(c, cost) == IF request[c].kind \in {"generate", "stream"} THEN cost ELSE 0

(* With failures left out of the log. *)
LoggedSuccess(c, ok) == rows' = IF owner /\ ok THEN [rows EXCEPT ![c] = @ + 1] ELSE rows

(* A row for the call, however it ended; the foreign key refuses it without owner. *)
Logged(c, ok) == rows' = IF owner THEN [rows EXCEPT ![c] = @ + 1] ELSE rows

(* run: a provider has answered, and the usage is logged.  A log that fails is an  *)
(* error of the call.                                                            *)
Provided(c) ==
    /\ At(c, "calling")
    /\ \E cost \in 1..MaxCost :
         /\ spent' = spent + cost
         /\ charged' = IF owner THEN charged + Charge(c, cost) ELSE charged
    /\ Logged(c, TRUE)
    /\ Moves(c, [pc |-> "done"])
    /\ Answered(c, IF owner THEN "ok" ELSE "error")
    /\ UNCHANGED <<heard, owner, peak, nights>>

(* A provider has failed: the next of the chain, or the error is logged and told. *)
ProviderFails(c) ==
    /\ At(c, "calling")
    /\ IF request[c].at < Chain
       THEN Moves(c, [at |-> request[c].at + 1]) /\ UNCHANGED <<client, rows>>
       ELSE Moves(c, [pc |-> "done"]) /\ Logged(c, FALSE) /\ Answered(c, "error")
    /\ UNCHANGED <<charged, spent, heard, owner, peak, nights>>

(* With no timer: a device waits as long as the server does. *)
TimesOutNever(c) == FALSE

(* AbortController: the device gives up, or never reached the server; the handler  *)
(* goes on.                                                                       *)
TimesOut(c) == client[c] = "waiting"
Timeout(c) ==
    /\ TimesOut(c)
    /\ client' = [client EXCEPT ![c] = "local"]
    /\ UNCHANGED <<request, charged, spent, rows, heard, owner, peak, nights>>

(* usageToday sums the rows of the current day. *)
Night ==
    /\ nights < MaxNights
    /\ nights' = nights + 1 /\ charged' = 0 /\ spent' = 0
    /\ UNCHANGED <<request, client, rows, heard, owner, peak>>

Purged ==
    /\ owner
    /\ owner' = FALSE /\ rows' = [c \in Call |-> 0] /\ charged' = 0
    /\ UNCHANGED <<request, client, spent, heard, peak, nights>>

GatewayNext ==
    \/ Night \/ Purged
    \/ \E c \in Call : Send(c) \/ Admit(c) \/ Delta(c) \/ Provided(c) \/ ProviderFails(c) \/ Timeout(c)

(* The timer of a call fires; a provider need never answer. *)
GatewayFairness == \A c \in Call : WF_gatewayVars(Timeout(c))

-----------------------------------------------------------------------------

(* The check comes before a call and the charge after it: a day's charge exceeds   *)
(* the budget by no more than the calls that are with a provider at once may cost. *)
OvershootBounded == Budget > 0 => charged <= (Budget - 1) + peak * MaxCost

(* Each call that reached a provider leaves one row for its owner, not two, however *)
(* it ended and whoever still waits for it.                                       *)
LoggedOnce ==
    \A c \in Call : owner => /\ rows[c] <= 1
                             /\ At(c, "calling") => rows[c] = 0
                             /\ client[c] = "text" => rows[c] = 1
                             /\ request[c].at = Chain /\ At(c, "done") /\ Chain > 1 => rows[c] = 1

(* The user is answered, by the server or by the offline engine.                  *)
AlwaysAnswered == []<>(\A c \in Call : client[c] # "waiting")

(* docs/08: a budget of tokens for a user and day.                                 *)
AllCallsCharged == owner => charged = spent

(* index.ts:65: an outage "degrades to the local engine" - not to a cut text.     *)
OutageDegrades == \A c \in Call : client[c] # "cut"

(* A streamed text is the text of one provider.                                   *)
OneVoice == \A c \in Call : client[c] = "text" => Cardinality(heard[c]) <= 1

(* What calls that run at once may spend beyond the budget is bounded by   *)
(* their number, and each is in the log once.                              *)
UsageIsBounded == OvershootBounded /\ LoggedOnce
=============================================================================
