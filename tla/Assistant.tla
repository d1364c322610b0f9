----------------------------- MODULE Assistant -----------------------------
(***************************************************************************)
(* The turns of the conversation with the mentor (AIOrchestrator.chat),    *)
(* the tools the model may call in them (ToolRegistry and its 29 tools)     *)
(* and the conversation they are recorded in (ConversationStore).          *)
(*                                                                         *)
(* The text of a message is not modelled.  What a tool call is about is a   *)
(* set of words, and so is the title of an item.  The model is free to call *)
(* any of the offered tools about anything; the items change while a turn   *)
(* waits for it.  Turns overlap when the user leaves the chat and returns.  *)
(***************************************************************************)
EXTENDS Naturals, Sequences, FiniteSets, SequencesExt

CONSTANTS
    Turn, Item, Word,
    Asked,           \* the calls the model may ask for in a turn: [tool, about, grave]
    MaxIterations,   \* MAX_ITERATIONS of the orchestrator
    MaxBatch,        \* calls in one answer of the model
    HistoryLimit,    \* rows of the conversation that are read for a prompt
    MaxEdits         \* interventions of the user while turns are under way

VARIABLES
    turn,      \* the turns: TurnOptions and the local variables of chat
    items,     \* what the tools act on: the rows of tasks, events, goals, ...
    messages,  \* the rows of messages, oldest first
    count,     \* conversations.message_count
    changes,   \* what the tools have done, in order
    shown,     \* the confirmations the user was shown, with the items meant then
    apart,     \* no two turns have overlapped
    edits

assistantVars == <<turn, items, messages, count, changes, shown, apart, edits>>

-----------------------------------------------------------------------------
(* The tools. *)

(* A tool: how risky it is, when it asks first, the kind of item it is about, and   *)
(* what it does: look, create one, change or close the one it finds, or only act.   *)
(* It asks about "grave" arguments: a priority of P0, a goal abandoned or archived, *)
(* more than eight topics, an inference marked confirmed, a day the user asked no   *)
(* plan for; save_memory about them too, unless the turn has any approval.          *)
A(risk, asks, kind, does) == [risk |-> risk, asks |-> asks, kind |-> kind, does |-> does]

ReadTools ==
    [n \in {"get_user_memory", "get_schedule", "get_tasks", "get_goals", "get_progress", "get_skills",
            "get_learning", "get_news", "get_user_model"} |-> A("read", "never", "none", "look")]

TaskTools ==
    [create_task |-> A("write", "never", "task", "create"),
     complete_task |-> A("write", "never", "task", "close"),
     reschedule_task |-> A("write", "never", "task", "change"),
     update_task |-> A("write", "grave", "task", "change")]

GoalAndCalendarTools ==
    [create_goal |-> A("write", "never", "goal", "create"),
     update_goal |-> A("write", "grave", "goal", "close"),
     create_calendar_event |-> A("write", "never", "event", "create"),
     delete_calendar_event |-> A("destructive", "always", "event", "close"),
     cancel_task |-> A("destructive", "always", "task", "close")]

LearningTools ==
    [update_learning_progress |-> A("write", "never", "topic", "change"),
     create_learning_path |-> A("write", "grave", "path", "create"),
     assess_skill |-> A("write", "always", "skill", "change")]

MemoryTools ==
    [save_memory |-> A("write", "unapproved", "memory", "create"),
     delete_memory |-> A("destructive", "always", "memory", "close")]

PlanningTools ==
    [create_project |-> A("write", "never", "project", "create"),
     plan_day |-> A("write", "grave", "none", "act"),
     send_notification |-> A("write", "never", "none", "act"),
     update_user_model |-> A("write", "grave", "none", "act")]

MoreReadTools == [n \in {"search_knowledge", "get_preferences"} |-> A("read", "never", "none", "look")]

ToolGroups ==
    {ReadTools, TaskTools, GoalAndCalendarTools, LearningTools, MemoryTools, PlanningTools, MoreReadTools}

(* The registry: the tools of all groups by their names. *)
Tools ==
    [n \in UNION {DOMAIN g : g \in ToolGroups} |-> (CHOOSE g \in ToolGroups : n \in DOMAIN g)[n]]

(* Somebody asks, and for tools that exist. *)
ASSUME AssistantAssumption ==
    /\ MaxIterations \in Nat \ {0} /\ MaxBatch \in Nat /\ HistoryLimit \in Nat \ {0}
    /\ \A t \in Turn : Asked[t] \subseteq [tool : DOMAIN Tools, about : SUBSET Word, grave : BOOLEAN]

Does(c) == Tools[c.tool].does

(* toolSpecs: what an unattended turn is offered. *)
Offered(t) ==
    IF turn[t].unattended
    THEN {n \in DOMAIN Tools : Tools[n].risk = "read"} \cup {"send_notification"}
    ELSE DOMAIN Tools

Confirms(t, c) ==
    LET asks == Tools[c.tool].asks
    IN  \/ asks = "always"
        \/ asks = "grave" /\ c.grave
        \/ asks = "unapproved" /\ c.grave /\ turn[t].approved = {}

(* The open items a call may be about: those whose title has all of its words. *)
Candidates(c) == {i \in Item : items[i].kind = Tools[c.tool].kind /\ items[i].open /\ c.about \subseteq items[i].title}

(* pick: the item of exactly that title, or the only candidate.  An event is the  *)
(* first that fits, a memory is named by its id.                                  *)
Pick(c) ==
    LET exact == {i \in Candidates(c) : items[i].title = c.about}
    IN  CASE c.tool = "delete_calendar_event" -> Candidates(c)
          [] c.tool # "delete_calendar_event" /\ (exact # {} \/ c.tool = "delete_memory") -> exact
          [] OTHER -> {i \in Candidates(c) : Candidates(c) = {i}}

(* The items a call may act on: a free one, one it finds, or none of its own. *)
Targets(c) ==
    CASE Does(c) = "create" -> {i \in Item : items[i].kind = "none"}
      [] Does(c) \in {"change", "close"} -> Pick(c)
      [] OTHER -> {}

(* A cancelled, completed or removed item leaves the lists, and so does a goal     *)
(* that is abandoned or archived.                                                  *)
Changed(c, i) ==
    CASE Does(c) = "create" -> [items EXCEPT ![i] = [kind |-> Tools[c.tool].kind, title |-> c.about, open |-> TRUE]]
      [] Does(c) = "close" /\ (c.tool = "update_goal" => c.grave) -> [items EXCEPT ![i].open = FALSE]
      [] OTHER -> items

-----------------------------------------------------------------------------
(* The conversation. *)

NoItem == [kind |-> "none", title |-> {}, open |-> FALSE]
Worlds == {NoItem} \cup [kind : {"task", "event"}, title : (SUBSET Word) \ {{}}, open : {TRUE}]

(* A turn that is "never" is not taken in this behaviour. *)
Fresh(pc) ==
    [pc |-> pc, unattended |-> FALSE, approved |-> {}, pass |-> 0, provider |-> "model", batch |-> <<>>,
     executions |-> <<>>, blocked |-> FALSE, prompt |-> {}, extracts |-> FALSE]

AssistantInit ==
    /\ turn \in [Turn -> {Fresh("idle"), Fresh("never")}]
    /\ items \in [Item -> Worlds]
    /\ shown \in SUBSET UNION {{[call |-> c, meant |-> Pick(c)] : c \in Asked[t]} : t \in Turn}
    /\ edits \in 0..MaxEdits
    /\ messages = <<>> /\ count = 0 /\ changes = <<>> /\ apart = TRUE

(* With the tool messages not counted. *)
Append1Uncounted(t, role) ==
    /\ messages' = Append(messages, [role |-> role, turn |-> t])
    /\ count' = IF role = "tool" THEN count ELSE count + 1

(* append: the message and the counters of its conversation, in one transaction. *)
Append1(t, role) ==
    /\ messages' = Append(messages, [role |-> role, turn |-> t])
    /\ count' = count + 1

Running(t) == turn[t].pc \notin {"idle", "never", "done", "failed"}
Only(t, pc) == turn[t].pc = pc
Goes(t, pc) == turn' = [turn EXCEPT ![t].pc = pc]
SameWorld == UNCHANGED <<items, changes, shown, apart, edits>>

(* chat: the message is stored, and the context is built.  What the user approves *)
(* is a confirmation an earlier turn has shown, by its id.                        *)
chat(t) ==
    /\ Only(t, "idle")
    /\ \E approved \in SUBSET {s.call : s \in shown}, un \in BOOLEAN :
          /\ Cardinality(approved) <= 1
          /\ un => approved = {}
          /\ turn' = [turn EXCEPT ![t] = [@ EXCEPT !.pc = "building", !.unattended = un,
                                                   !.approved = approved, !.pass = 1]]
    /\ Append1(t, "user")
    /\ apart' = (apart /\ ~\E u \in Turn : Running(u))
    /\ UNCHANGED <<items, changes, shown, edits>>

(* What user and mentor said in the rows that are read, the newest: as positions. *)
Spoken == {k \in DOMAIN messages : Len(messages) - k < HistoryLimit /\ messages[k].role # "tool"}

(* With the stored message left in. *)
HistoryWhole == Spoken

(* Without the last message of the two parties, taken to be the one just stored. *)
History == {k \in Spoken : \E later \in Spoken : k < later}

(* The history is read: the prompt is the history, and after it the live message. *)
Built(t) ==
    /\ Only(t, "building")
    /\ turn' = [turn EXCEPT ![t] = [@ EXCEPT !.pc = "asking", !.prompt = History]]
    /\ UNCHANGED <<messages, count>> /\ SameWorld

Same(c, e) == e.call = c

(* With calls repeated, or with writes let through. *)
toolAllowedAgain(t, c) == c.tool \in Offered(t)
toolAllowedWrites(t, c) == ~\E e \in Range(turn[t].executions) : Same(c, e)

(* toolAllowed: the tool was offered, and this very call was not executed by an *)
(* earlier answer.                                                              *)
toolAllowed(t, c) ==
    /\ c.tool \in Offered(t)
    /\ ~\E e \in Range(turn[t].executions) : Same(c, e)

(* With one pass more. *)
isLastLate(t) == turn[t].pass = MaxIterations + 1

isLast(t) == turn[t].pass = MaxIterations

(* The provider answers: with the calls it asks for that are allowed, or with text. *)
generate(t) ==
    /\ Only(t, "asking")
    /\ \E calls \in SeqOf({c \in Asked[t] : toolAllowed(t, c)}, MaxBatch) :
         turn' = [turn EXCEPT ![t] = [@ EXCEPT !.batch = calls,
                                               !.pc = IF calls = <<>> THEN "replying" ELSE "calling"]]
    /\ UNCHANGED <<messages, count>> /\ SameWorld

(* The provider fails: the offline engine, which does not, is asked instead. *)
Outage(t) ==
    /\ Only(t, "asking") /\ turn[t].provider = "model"
    /\ turn' = [turn EXCEPT ![t] = [@ EXCEPT !.provider = "fallback"]]
    /\ UNCHANGED <<messages, count>> /\ SameWorld

(* The user stops the turn, which notices before or in a call of the provider. *)
Aborted(t) ==
    /\ Only(t, "asking")
    /\ Goes(t, "failed")
    /\ UNCHANGED <<messages, count>> /\ SameWorld

-----------------------------------------------------------------------------
(* Invoking a tool. *)

(* With the question itself taken for the approval. *)
ApprovedShown(t, c) == \E s \in shown : s.call = c

(* By its id, which is made from its arguments.  The name of a tool would do as     *)
(* well; no caller passes one.                                                     *)
Approved(t, c) == c \in turn[t].approved

Valid(c) == Does(c) = "look" \/ c.about # {}

(* With invalid arguments throwing out of the loop. *)
OutcomesThrown(t, c) ==
    CASE ~Valid(c) -> {}
      [] Valid(c) /\ Confirms(t, c) /\ ~Approved(t, c) -> {"asked"}
      [] OTHER -> {"done"}

(* How a call ends: a question to the user, arguments to be repaired, the reply   *)
(* that no item or several fit, a refusal of the service, or success.             *)
Outcomes(t, c) ==
    CASE ~Valid(c) -> {"unclear"}
      [] Valid(c) /\ Confirms(t, c) /\ ~Approved(t, c) -> {"asked"}
      [] Does(c) \in {"change", "close"} /\ Targets(c) = {} -> {"told"}
      [] Does(c) = "create" /\ Targets(c) = {} -> {"failed"}
      [] Does(c) = "look" -> {"done"}
      [] OTHER -> {"done", "failed"}

(* With the loop going on after a question. *)
BlocksNever(outcome) == FALSE

Blocks(outcome) == outcome \in {"asked", "unclear"}

(* The items are changed, the outcome is recorded as a message of the conversation. *)
invoke(t) ==
    /\ Only(t, "calling") /\ turn[t].batch # <<>>
    /\ LET c == Head(turn[t].batch)
       IN  \E outcome \in Outcomes(t, c) :
             /\ IF outcome = "done" /\ Does(c) # "look"
                THEN \E i \in IF Targets(c) = {} THEN Item ELSE Targets(c) :
                       /\ (Targets(c) = {} => i = CHOOSE j \in Item : TRUE)
                       /\ items' = Changed(c, i)
                       /\ changes' = Append(changes, [turn |-> t, call |-> c, item |-> i, pass |-> turn[t].pass])
                ELSE UNCHANGED <<items, changes>>
             /\ shown' = IF outcome = "asked" THEN shown \cup {[call |-> c, meant |-> Pick(c)]} ELSE shown
             /\ turn' = [turn EXCEPT ![t] =
                            [@ EXCEPT !.batch = Tail(turn[t].batch),
                                      !.executions = Append(turn[t].executions,
                                                            [call |-> c, outcome |-> outcome, pass |-> turn[t].pass]),
                                      !.blocked = turn[t].blocked \/ Blocks(outcome)]]
    /\ Append1(t, "tool")
    /\ UNCHANGED <<apart, edits>>

(* The batch is done: a question to the user ends the loop, and so does its last pass. *)
NextPass(t) ==
    /\ Only(t, "calling") /\ turn[t].batch = <<>>
    /\ IF turn[t].blocked \/ isLast(t)
       THEN Goes(t, "replying")
       ELSE turn' = [turn EXCEPT ![t] = [@ EXCEPT !.pc = "asking", !.pass = turn[t].pass + 1]]
    /\ UNCHANGED <<messages, count>> /\ SameWorld

(* The answer is stored. *)
Reply(t) ==
    /\ Only(t, "replying")
    /\ Goes(t, "extracting")
    /\ Append1(t, "assistant") /\ SameWorld

(* extractAndSaveMemories: it saves what it finds, and its failure is swallowed. *)
Extracted(t) ==
    /\ Only(t, "extracting")
    /\ \E saved \in BOOLEAN : turn' = [turn EXCEPT ![t] = [@ EXCEPT !.pc = "done", !.extracts = saved]]
    /\ UNCHANGED <<messages, count>> /\ SameWorld

(* Meanwhile the user, or the synchronisation, opens, renames or closes an item. *)
Edited ==
    /\ edits < MaxEdits /\ (\E t \in Turn : turn[t].pc \notin {"never", "done", "failed"})
    /\ edits' = edits + 1
    /\ \E i \in Item :
         /\ items[i].kind # "none"
         /\ \/ \E title \in (SUBSET Word) \ {{}} : items' = [items EXCEPT ![i].title = title]
            \/ items' = [items EXCEPT ![i].open = ~items[i].open]
    /\ UNCHANGED <<turn, messages, count, changes, shown, apart>>

Proceeds(t) ==
    Built(t) \/ generate(t) \/ Outage(t) \/ invoke(t) \/ NextPass(t) \/ Reply(t) \/ Extracted(t)
AssistantNext == Edited \/ \E t \in Turn : chat(t) \/ Aborted(t) \/ Proceeds(t)
AssistantFairness == \A t \in Turn : WF_assistantVars(Proceeds(t))

-----------------------------------------------------------------------------
(* Correctness. *)

(* The executions of a pass. *)
ExecutedIn(t, p) == {k \in DOMAIN turn[t].executions : turn[t].executions[k].pass = p}

(* A turn makes at most MaxIterations passes of at most MaxBatch calls, and each   *)
(* item has a kind and a title exactly if it exists.                              *)
AssistantTypeOK ==
    /\ \A t \in Turn :
         /\ turn[t].pass \in 0..MaxIterations
         /\ turn[t].batch \in SeqOf(Asked[t], MaxBatch)
         /\ \A p \in 1..MaxIterations : Cardinality(ExecutedIn(t, p)) <= MaxBatch
    /\ \A i \in Item : (items[i].kind = "none") <=> (items[i].title = {})

Destructive(c) == Tools[c.tool].risk = "destructive"

(* Whatever order turns, answers and edits come in, an item is cancelled, deleted  *)
(* or forgotten only by a call the user was shown and has approved for that turn.  *)
DestroyedAsApproved ==
    \A n \in DOMAIN changes :
       Destructive(changes[n].call) =>
          /\ changes[n].call \in turn[changes[n].turn].approved
          /\ \E s \in shown : s.call = changes[n].call

(* A turn nobody is waiting for changes nothing through the tools but the outbox   *)
(* of notifications.                                                              *)
UnattendedOnlyNotifies ==
    \A n \in DOMAIN changes : turn[changes[n].turn].unattended => changes[n].call.tool = "send_notification"

(* "Never act on their behalf twice": after a question to the user, the model is   *)
(* not asked again in that turn.                                                  *)
QuestionEndsTheLoop ==
    \A t \in Turn : \A e \in Range(turn[t].executions) : e.outcome \in {"asked", "unclear"} => e.pass = turn[t].pass

(* A model that insists on a call gets it executed by one of its answers only.     *)
NotRepeated ==
    \A t \in Turn : \A e, f \in Range(turn[t].executions) : e.call = f.call => e.pass = f.pass

Entries(t, role) == {k \in DOMAIN messages : messages[k].turn = t /\ messages[k].role = role}

(* The conversation is the audit trail: of a turn it has the message, first, one   *)
(* entry for each tool executed, and the answer, last; and it is counted right.    *)
TrailIsWhole ==
    /\ count = Len(messages)
    /\ \A k \in DOMAIN messages : messages[k].role \in {"user", "tool", "assistant"}
    /\ \A t \in Turn :
         /\ Cardinality(Entries(t, "user")) = (IF turn[t].pass = 0 THEN 0 ELSE 1)
         /\ Cardinality(Entries(t, "tool")) = Len(turn[t].executions)
         /\ Cardinality(Entries(t, "assistant")) = (IF turn[t].pc \in {"extracting", "done"} THEN 1 ELSE 0)
         /\ \A j, k \in DOMAIN messages :
              j < k /\ messages[j].turn = t /\ messages[k].turn = t
                => messages[j].role # "assistant" /\ messages[k].role # "user"

(* The model is told everything said before in the rows that are read, and the     *)
(* message of the turn once, unless turns overlapped.                              *)
ToldOnce(t) ==
    turn[t].pc \notin {"idle", "never", "building"} =>
       \E own \in Entries(t, "user") :
          turn[t].prompt = {k \in 1..(own - 1) : own - k < HistoryLimit /\ messages[k].role # "tool"}
PromptIsTrue == apart => \A t \in Turn : ToldOnce(t)

(* An outage, a refusal, arguments that do not parse and a question all end in an  *)
(* answer: no turn runs for ever, and in the end none runs.                       *)
TurnEnds == []<>(\A t \in Turn : ~Running(t))

-----------------------------------------------------------------------------
(* What the code and its comments promise and the runs refute. *)

(* orchestrator.ts:28: "a destructive or ambiguous tool call stops the loop".      *)
AmbiguousStops ==
    \A t \in Turn : \A e \in Range(turn[t].executions) : e.outcome \in {"told", "asked"} => e.pass = turn[t].pass

(* The same, for the rest of the batch: nothing is changed after the question.     *)
NothingAfterQuestion ==
    \A t \in Turn : \A j, k \in DOMAIN turn[t].executions :
       j < k /\ turn[t].executions[j].outcome = "asked" => turn[t].executions[k].outcome # "done"

(* orchestrator.ts:30: unattended turns "may only read and notify - never write".  *)
UnattendedNeverWrites == \A t \in Turn : turn[t].unattended => ~turn[t].extracts

(* orchestrator.ts:377: "the identical call must not be repeated".                 *)
ApprovedOnce ==
    \A j, k \in DOMAIN changes :
       /\ changes[j].turn = changes[k].turn /\ changes[j].call = changes[k].call
       /\ Destructive(changes[j].call)
       => j = k

(* What is destroyed is what the question was about when it was shown.             *)
DestroyedAsShown ==
    \A n \in DOMAIN changes :
       Destructive(changes[n].call) =>
          \E s \in shown : s.call = changes[n].call /\ changes[n].item \in s.meant

(* The prompt of overlapping turns. *)
PromptIsAlwaysTrue == \A t \in Turn : ToldOnce(t)

(* The model acts as the user approved: what it destroys was asked for and *)
(* approved, a question ends the loop, a turn nobody attends only          *)
(* notifies, and no call is executed twice (orchestrator.ts).              *)
ActsAsApproved == AssistantTypeOK /\ DestroyedAsApproved /\ UnattendedOnlyNotifies /\ QuestionEndsTheLoop /\ NotRepeated

(* The audit holds every change a tool made, and what the model is told of *)
(* a conversation is what was said, once.                                  *)
TrailIsTrue == TrailIsWhole /\ PromptIsTrue
=============================================================================
