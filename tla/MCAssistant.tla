---------------------------- MODULE MCAssistant ----------------------------
(***************************************************************************)
(* The turns, the prompt, a call of a provider, the gateway and the memory, *)
(* one of them in each behaviour.                                          *)
(***************************************************************************)
EXTENDS Assistant, AiGateway, MemoryStore, PromptPacket, ProviderCalls, TLC

CONSTANT Parts  \* of "turns", "gateway", "memory", "packet" and "calls"
VARIABLE part   \* the part this behaviour is of

CONSTANTS t1, t2, t3, i1, i2, stand, up, g1, g2, s1, s2, m1, m2

MCTurn == {t1, t2, t3}
MCItem == {i1, i2}
MCWord == {stand, up}
On(tool, about, grave) == [tool |-> tool, about |-> about, grave |-> grave]
Cancel == On("cancel_task", {stand}, FALSE)
Look == On("get_tasks", {}, FALSE)
MCAsked == (t1 :> {On("create_task", {up}, FALSE)} @@ t2 :> {Look}
            @@ t3 :> {Cancel, On("delete_calendar_event", {}, FALSE), On("send_notification", {up}, FALSE)})

MCCall == {g1, g2}
MCSaver == {s1, s2}
MCContent == {m1, m2}
MCWeak == {m1, m2}
MCDecision == {m2}

(* One task, and perhaps one whose title has its words as well: a turn that may  *)
(* follow one in which its cancellation was asked for; and, with one task, two    *)
(* turns that may overlap.                                                        *)
Task(title) == [kind |-> "task", title |-> title, open |-> TRUE]
Turns ==
    /\ items \in {i1 :> Task({stand}) @@ i2 :> i : i \in {NoItem, Task({stand, up})}}
    /\ \/ /\ turn \in [Turn -> {Fresh("idle"), Fresh("never")}]
          /\ \A t \in Turn : (turn[t].pc = "idle") <=> (t = t3)
          /\ shown \in {{}, {[call |-> Cancel, meant |-> Pick(Cancel)]}} /\ edits = 0
       \/ /\ turn \in [Turn -> {Fresh("idle"), Fresh("never")}]
          /\ \A t \in Turn : (turn[t].pc = "idle") <=> (t # t3)
          /\ shown = {} /\ edits = MaxEdits /\ items[i2] = NoItem

NoTurns ==
    /\ turn = [t \in Turn |-> Fresh("never")]
    /\ items = [i \in Item |-> NoItem]
    /\ shown = {} /\ edits = MaxEdits
NoCalls == request = [c \in Call |-> [pc |-> "none", kind |-> "embed", at |-> 1]]

(* One save at a time and the retention policy; two saves that overlap. *)
Savers(step) == saving = [x \in Saver |-> [NoSave EXCEPT !.pc = step[x]]]
OneSaver == Savers(s1 :> "none" @@ s2 :> "off") /\ pruning = {} /\ decisions = 0
TwoSavers == Savers([x \in Saver |-> "none"]) /\ pruning = Off /\ decisions = MaxDecisions
NoSavers == Savers([x \in Saver |-> "off"]) /\ pruning = Off /\ decisions = MaxDecisions

(* Threads of many short messages, of long ones, and one that ends with a long one. *)
MCThreads == {<<300, 300, 300>>, <<900, 900, 900, 900, 900, 900>>, <<100, 100, 100, 100, 2000>>}

(* No provider, one, and chains of some. *)
MCConfigs == {<<>>, <<"openai">>, <<"openai", "local">>, <<"google", "anthropic", "openai">>,
              <<"anthropic", "google", "local">>, <<"anthropic", "anthropic">>}

NoPackets == thread = <<300, 300, 300>> /\ length = [x \in Section |-> Min(Lengths \union Extras)]
NoAsk == ask = [op |-> "embed", signal |-> FALSE, lenient |-> FALSE] /\ chain = ChainOf(<<>>)

allVars == <<assistantVars, gatewayVars, memoryVars, packetVars, providerVars, part>>

MCInit ==
    /\ part \in Parts
    /\ IF part = "turns" THEN Turns ELSE NoTurns
    /\ part # "gateway" => NoCalls
    /\ IF part = "memory" THEN OneSaver \/ TwoSavers ELSE NoSavers
    /\ part # "packet" => NoPackets
    /\ part # "calls" => NoAsk
    /\ AssistantInit /\ GatewayInit /\ MemoryInit /\ PacketInit /\ ProviderInit

MCNext ==
    \/ part = "turns" /\ AssistantNext /\ UNCHANGED <<gatewayVars, memoryVars, packetVars, providerVars, part>>
    \/ part = "gateway" /\ GatewayNext /\ UNCHANGED <<assistantVars, memoryVars, packetVars, providerVars, part>>
    \/ part = "memory" /\ MemoryNext /\ UNCHANGED <<assistantVars, gatewayVars, packetVars, providerVars, part>>
    \/ part = "packet" /\ PacketNext /\ UNCHANGED <<assistantVars, gatewayVars, memoryVars, providerVars, part>>
    \/ part = "calls" /\ ProviderNext /\ UNCHANGED <<assistantVars, gatewayVars, memoryVars, packetVars, part>>

MCSpec == MCInit /\ [][MCNext]_allVars
MCFairSpec == MCSpec /\ AssistantFairness /\ GatewayFairness

(* What a call of a model costs is bounded: what is sent and how often, and what is *)
(* used up of a day's budget (PromptPacket!PromptIsSound,                           *)
(* ProviderCalls!AnswersAreSound, AiGateway!UsageIsBounded).                        *)
CallsAreBounded == UsageIsBounded /\ PromptIsSound /\ AnswersAreSound
=============================================================================
