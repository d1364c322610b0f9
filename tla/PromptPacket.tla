---------------------------- MODULE PromptPacket ----------------------------
(***************************************************************************)
(* ContextEngine: what of the user's data goes into the prompt of a turn.   *)
(* The sections are built side by side, each from a query that may fail;    *)
(* the token budget is shared out between those that came to something.     *)
(*                                                                         *)
(* Of a text its length in tokens is kept.  The sharing-out is one          *)
(* synchronous computation, and a step here.                                *)
(***************************************************************************)
EXTENDS Integers, Sequences, SequencesExt, FiniteSets, FiniteSetsExt

CONSTANTS
    Budgets,     \* the token budgets asked for
    Intents,     \* the intents of the requests
    Lengths,     \* the lengths there may be of a section the packet needs
    Extras,      \* the lengths there may be of the others
    Failing,     \* the sections whose query may fail
    Threads,       \* the conversations: their messages in tokens, the oldest first
    HistoryBudget, \* what trimHistory is given
    MaxAsked     \* bound: the request and changes of the settings

ASSUME PacketAssumption ==
    /\ Budgets \subseteq Nat /\ Lengths \subseteq Nat /\ Extras \subseteq Nat
    /\ HistoryBudget \in Nat /\ MaxAsked \in Nat

Part(priority, required, floor) == [priority |-> priority, required |-> required, floor |-> floor]
Sections ==
    [user_model |-> Part(100, TRUE, 220), constraints |-> Part(88, TRUE, 120), today |-> Part(95, TRUE, 160),
     next_tasks |-> Part(90, TRUE, 160), goals |-> Part(85, TRUE, 140), memory |-> Part(80, TRUE, 160),
     progress |-> Part(62, FALSE, 120), learning |-> Part(60, FALSE, 110), skills |-> Part(55, FALSE, 100),
     projects |-> Part(52, FALSE, 90), patterns |-> Part(50, FALSE, 90), knowledge |-> Part(34, FALSE, 80),
     news |-> Part(30, FALSE, 80)]
Section == DOMAIN Sections
Order == <<"user_model", "constraints", "today", "next_tasks", "goals", "memory", "progress", "learning", "skills",
           "projects", "patterns", "knowledge", "news">>
Required == {s \in Section : Sections[s].required}

(* What an intent adds to the priority of a section. *)
Relevance ==
    [news |-> [news |-> 40, memory |-> 4],
     next_action |-> [next_tasks |-> 30, today |-> 20, goals |-> 10, patterns |-> 8],
     plan_day |-> [today |-> 30, next_tasks |-> 24, constraints |-> 16, patterns |-> 10, goals |-> 6],
     progress |-> [progress |-> 40, learning |-> 14, goals |-> 12, patterns |-> 8],
     learning |-> [learning |-> 30, skills |-> 16, knowledge |-> 10, goals |-> 6],
     career |-> [user_model |-> 16, goals |-> 16, skills |-> 16, memory |-> 10, knowledge |-> 6]]
Priority(s, intent) ==
    Sections[s].priority
      + (IF intent \in DOMAIN Relevance /\ s \in DOMAIN Relevance[intent] THEN Relevance[intent][s] ELSE 0)

HeaderReserve == 260
LeastBudget == 800
LeastGrant == 40
LeastText == 50    \* truncateToTokens leaves 200 characters standing

VARIABLES
    enabled,  \* of the settings: whether memory and news are on
    length,   \* the sections of this user, in tokens
    wanted,   \* the request in progress
    packet,   \* what was sent: the tokens of each section in it, and what was dropped
    kept,     \* how many messages of the conversation went along
    thread, askedFor

packetVars == <<enabled, length, wanted, packet, kept, thread, askedFor>>

NoRequest == [asked |-> FALSE]
NoPacket == [built |-> FALSE]
SumOver(f, S) == MapThenSumSet(LAMBDA s : f[s], S)

PacketInit ==
    /\ enabled = [memory |-> TRUE, news |-> TRUE]
    /\ \E needed \in [Required -> Lengths], extra \in Extras :
         length = [s \in Section |-> IF s \in Required THEN needed[s] ELSE extra]
    /\ wanted = NoRequest /\ packet = NoPacket /\ kept = 0 /\ thread \in Threads /\ askedFor = 0

(* ContextEngine.build: the settings are read once, before the sections are built. *)
Ask ==
    /\ ~wanted.asked /\ ~packet.built /\ askedFor < MaxAsked /\ askedFor' = askedFor + 1
    /\ \E b \in Budgets, i \in Intents :
         wanted' = [asked |-> TRUE, budget |-> Max({LeastBudget, b}) - HeaderReserve, intent |-> i, settings |-> enabled]
    /\ UNCHANGED <<enabled, length, packet, kept, thread>>

(* What the request selects, and what came of it: an empty or failed section is out. *)
Selected(w, failed) ==
    {s \in Section : /\ length[s] > 0 /\ s \notin failed
                     /\ s = "news" => w.settings.news
                     /\ s = "memory" => w.settings.memory}

(* fit: a section that is longer than its grant is cut, though never below LeastText. *)
Fit(tokens, grant) ==
    IF tokens <= grant THEN tokens ELSE Min({tokens, Max({LeastText, 20, grant - 4})})

InTable(s) == CHOOSE k \in DOMAIN Order : Order[k] = s

(* Sorted by priority; sections that matter alike stay in the order of the table. *)
Before(s, t, intent) ==
    \/ Priority(s, intent) > Priority(t, intent)
    \/ Priority(s, intent) = Priority(t, intent) /\ InTable(s) < InTable(t)
ByPriority(set, intent) ==
    [k \in 1..Cardinality(set) |-> CHOOSE s \in set : Cardinality({t \in set : Before(t, s, intent)}) = k - 1]

(* The needed sections take their floor or a fair share, whichever is more, as far *)
(* as the budget goes; the others follow in order until it has run out.             *)
Allocate(built, budget, intent) ==
    LET needed == ByPriority(built \intersect Required, intent)
        others == ByPriority(built \ Required, intent)
        total == Max({200, budget})
        fairShare == total \div Max({1, Len(needed)})
        Grant(acc, s) ==
          LET want == Max({Min({length[s], fairShare}), Min({Sections[s].floor, length[s]})})
              tokens == Fit(length[s], Max({LeastGrant, Min({want, acc.remaining})}))
          IN [acc EXCEPT !.tokens[s] = tokens, !.remaining = @ - tokens]
        Offer(acc, s) ==
          IF acc.remaining < LeastGrant THEN [acc EXCEPT !.dropped = @ \union {s}]
          ELSE LET tokens == Fit(length[s], Min({length[s], acc.remaining}))
               IN [acc EXCEPT !.tokens[s] = tokens, !.remaining = @ - tokens]
        first == FoldLeft(Grant, [tokens |-> [s \in Section |-> 0], dropped |-> {}, remaining |-> total], needed)
    IN FoldLeft(Offer, first, others)

(* trimHistory: from the newest message back, until what is left of the older ones *)
(* is within the budget.                                                            *)
TrimHistory(messages, budget) ==
    LET total == FoldLeft(+, 0, messages)
        Back(acc, cost) ==
          IF acc.over \/ (100 * (acc.total - cost) < 45 * budget /\ acc.kept >= 4) THEN [acc EXCEPT !.over = TRUE]
          ELSE [kept |-> acc.kept + 1, total |-> acc.total - cost, over |-> acc.total - cost <= budget]
    IN IF total <= budget THEN Len(messages)
       ELSE FoldRight(LAMBDA cost, acc : Back(acc, cost), messages, [kept |-> 0, total |-> total, over |-> FALSE]).kept

Assemble ==
    /\ wanted.asked
    /\ \E failed \in SUBSET Failing :
         LET a == Allocate(Selected(wanted, failed), wanted.budget, wanted.intent)
         IN packet' = [built |-> TRUE, tokens |-> a.tokens, dropped |-> a.dropped, budget |-> wanted.budget,
                       intent |-> wanted.intent, failed |-> failed, settings |-> wanted.settings]
    /\ kept' = TrimHistory(thread, HistoryBudget)
    /\ wanted' = NoRequest
    /\ UNCHANGED <<enabled, length, thread, askedFor>>

(* The user switches memory or news off or on, perhaps while a packet is built. *)
Toggle ==
    /\ ~packet.built /\ askedFor < MaxAsked /\ askedFor' = askedFor + 1
    /\ \E s \in {"memory", "news"} : enabled' = [enabled EXCEPT ![s] = ~@]
    /\ UNCHANGED <<length, wanted, packet, kept, thread>>

PacketNext == Ask \/ Assemble \/ Toggle
PacketSpec == PacketInit /\ [][PacketNext]_packetVars
-----------------------------------------------------------------------------
PacketTypeOK ==
    /\ enabled \in [memory : BOOLEAN, news : BOOLEAN] /\ kept \in 0..Len(thread)
    /\ packet.built => packet.tokens \in [Section -> Nat] /\ packet.dropped \subseteq Section \ Required

InPacket == {s \in Section : packet.tokens[s] > 0}
Used == SumOver(packet.tokens, Section)
Floor(s) == Min({Sections[s].floor, length[s]})
LargestFloor == Max({Sections[s].floor : s \in Required})

(* "Required sections always survive" (context-engine.ts): whatever else failed, *)
(* however small the budget, and with whatever intent.                            *)
RequiredSurvive ==
    \A s \in Required : length[s] > 0 /\ s \notin packet.failed /\ (s = "memory" => packet.settings.memory)
        => packet.tokens[s] >= Min({length[s], LeastGrant})

(* Where the budget has room for the largest floor of each, every needed section  *)
(* keeps its floor (but for the mark of the cut) and the whole keeps the budget, but *)
(* for what the shortest text takes above the least grant.                            *)
AmpleBudgetIsKept ==
    packet.budget >= Cardinality(Required) * LargestFloor =>
       /\ Used <= packet.budget + (LeastText - LeastGrant)
       /\ \A s \in Required \intersect InPacket : packet.tokens[s] >= Floor(s) - 4

(* A small budget is overdrawn by no more than the least text of the needed ones. *)
OverdrawnByALittle == Used <= packet.budget + LeastText * Cardinality(Required)

(* The budget goes to the sections in the order of what the question is about: none  *)
(* is dropped that matters more than one that stays.                                  *)
DroppedMatterLess ==
    \A s \in packet.dropped, t \in InPacket \ Required : Priority(s, packet.intent) <= Priority(t, packet.intent)

(* What the user had switched off when the question was put is not in the prompt. *)
SwitchedOffStaysOut ==
    /\ ~packet.settings.memory => "memory" \notin InPacket
    /\ ~packet.settings.news => "news" \notin InPacket

(* The prompt carries what it needs, in the right order and within reach of its *)
(* budget.                                                                       *)
PromptIsSound ==
    /\ PacketTypeOK
    /\ packet.built =>
         RequiredSurvive /\ AmpleBudgetIsKept /\ OverdrawnByALittle /\ DroppedMatterLess /\ SwitchedOffStaysOut

(* "truncated or dropped to fit the token budget" (context-engine.ts:26). *)
PacketFits == packet.built => Used <= packet.budget

(* "required sections get at least their floor" (context-engine.ts:324). *)
FloorsAreKept ==
    packet.built /\ SumOver([s \in Section |-> Floor(s)], Required) <= packet.budget =>
       \A s \in Required \intersect InPacket : packet.tokens[s] >= Floor(s) - 4

(* "Trim a conversation to a token budget" (context-engine.ts:374). *)
HistoryFits ==
    packet.built /\ kept > 1 => FoldLeft(+, 0, SubSeq(thread, Len(thread) - kept + 1, Len(thread))) <= HistoryBudget
=============================================================================
