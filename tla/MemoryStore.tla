---------------------------- MODULE MemoryStore ----------------------------
(***************************************************************************)
(* What the assistant remembers of the user: MemoryService, the extraction  *)
(* of facts from a message (AIOrchestrator.extractAndSaveMemories) and the  *)
(* tool save_memory.                                                        *)
(*                                                                         *)
(* A save waits for the embedding of its text between looking for the text  *)
(* and inserting it; the retention policy reads a list and then works       *)
(* through it.                                                              *)
(***************************************************************************)
EXTENDS Naturals, Sequences, FiniteSets

CONSTANTS
    Saver, Content,
    Weak,            \* the contents of low importance
    Decision,        \* the contents that are decisions or changes of a goal
    MaxMemories, MaxDecisions

VARIABLES
    memories,   \* the rows of memories
    saving,     \* the saves under way
    pruning,    \* the ids the retention policy has still to look at, or "off"
    separate,   \* no two saves have overlapped
    decisions   \* what the user has done to single memories

memoryVars == <<memories, saving, pruning, separate, decisions>>

NoSave == [pc |-> "none", in |-> <<>>]
Off == {<<0, NoSave>>}

(* Who asks for a memory, and as what: "said" if it is the user's own word.        *)
(* "edge" is the tool called with a fact it marks confirmed in a turn in which     *)
(* the user approved another call: it is stored as inferred, but as of the user.   *)
Told == [sure |-> "confirmed", source |-> "user", asks |-> FALSE, said |-> TRUE]
Guess(asks) == [sure |-> "inferred", source |-> "ai", asks |-> asks, said |-> FALSE]

(* extractAndSaveMemories: only what the model marks confirmed is the user's; the  *)
(* rest is flagged if the settings say so.                                        *)
Extraction == {Told, Guess(TRUE), Guess(FALSE)}

(* save_memory: the label the tool stores depends on what the turn has approved.   *)
SaveTool ==
    {Told, Guess(TRUE), [sure |-> "inferred", source |-> "user", asks |-> FALSE, said |-> FALSE]}

(* "off": no save by this one, and no retention policy, in this behaviour. *)
MemoryInit ==
    /\ memories = <<>> /\ separate = TRUE
    /\ saving \in [Saver -> {NoSave, [NoSave EXCEPT !.pc = "off"]}]
    /\ pruning \in {{}, Off} /\ decisions \in 0..MaxDecisions

Active(i) == ~memories[i].deleted /\ memories[i].next = 0

(* With a text looked for only among what is confirmed. *)
ExistingSure(text) == {i \in DOMAIN memories : Active(i) /\ memories[i].content = text /\ memories[i].sure = "confirmed"}

Existing(text) == {i \in DOMAIN memories : Active(i) /\ memories[i].content = text}

(* With the insert leaving the flag to its caller. *)
FlagAsAsked(in) == in.asks

Flag(in) == in.asks \/ in.source = "ai"

(* save: a text that is there is reinforced, any other waits for its embedding.    *)
save(s) ==
    /\ saving[s].pc = "none"
    /\ \E in \in Extraction \cup SaveTool, text \in Content,
          old \in {0} \cup {i \in DOMAIN memories : ~memories[i].deleted} :
         IF Existing(text) # {}
         THEN /\ \E i \in Existing(text) :
                   memories' = [memories EXCEPT ![i].sure = IF in.source = "user" THEN "confirmed" ELSE @,
                                                ![i].old = FALSE, ![i].said = @ \/ in.said]
              /\ UNCHANGED <<saving, separate>>
         ELSE /\ saving' = [saving EXCEPT ![s] =
                     [pc |-> "embedding", in |-> [sure |-> in.sure, source |-> in.source, asks |-> in.asks,
                                                   said |-> in.said, content |-> text, replaces |-> old]]]
              /\ separate' = (separate /\ \A o \in Saver : saving[o].pc # "embedding")
              /\ UNCHANGED memories
    /\ UNCHANGED <<pruning, decisions>>

(* The row is inserted, and the memory it replaces is superseded.                 *)
Inserted(s) ==
    LET in == saving[s].in
        row == [content |-> in.content, sure |-> in.sure, source |-> in.source, flagged |-> Flag(in),
                old |-> FALSE, next |-> 0, deleted |-> FALSE, said |-> in.said]
        n == Len(memories) + 1
    IN  /\ saving[s].pc = "embedding" /\ n <= MaxMemories
        /\ memories' = Append([i \in DOMAIN memories |->
                          IF i = in.replaces THEN [memories[i] EXCEPT !.next = n, !.old = FALSE] ELSE memories[i]], row)
        /\ saving' = [saving EXCEPT ![s] = NoSave]
        /\ UNCHANGED <<pruning, separate, decisions>>

Decides(i) == decisions < MaxDecisions /\ decisions' = decisions + 1 /\ i \in DOMAIN memories /\ ~memories[i].deleted
Becomes(i, row) == memories' = [memories EXCEPT ![i] = row]

(* The user confirms, doubts or deletes a memory. *)
confirm(i) ==
    /\ Decides(i)
    /\ Becomes(i, [memories[i] EXCEPT !.sure = "confirmed", !.flagged = FALSE, !.source = "user", !.old = FALSE, !.said = TRUE])
    /\ UNCHANGED <<saving, pruning, separate>>

markUncertain(i) ==
    /\ Decides(i)
    /\ Becomes(i, [memories[i] EXCEPT !.sure = "uncertain", !.flagged = TRUE, !.old = FALSE])
    /\ UNCHANGED <<saving, pruning, separate>>

remove(i) ==
    /\ Decides(i)
    /\ Becomes(i, [memories[i] EXCEPT !.deleted = TRUE])
    /\ UNCHANGED <<saving, pruning, separate>>

(* Time passes since the last change of a memory. *)
Ages(i) ==
    /\ i \in DOMAIN memories /\ ~memories[i].old /\ pruning # Off
    /\ Becomes(i, [memories[i] EXCEPT !.old = TRUE])
    /\ UNCHANGED <<saving, pruning, separate, decisions>>

(* prune: the old and unimportant memories are read.                              *)
prune ==
    /\ pruning = {}
    /\ pruning' = {<<i, memories[i]>> : i \in {j \in DOMAIN memories : memories[j].old /\ memories[j].content \in Weak /\ ~memories[j].deleted}}
    /\ pruning' # {}
    /\ UNCHANGED <<memories, saving, separate, decisions>>

(* With the history of the user's decisions deleted as well. *)
KeepsFactsOnly(m) == m.sure = "confirmed" /\ m.source = "user"

Keeps(m) == KeepsFactsOnly(m) \/ m.content \in Decision

(* One of them is judged by what was read, and deleted.                            *)
Pruned ==
    \E p \in pruning \ Off :
       /\ pruning' = pruning \ {p}
       /\ IF Keeps(p[2]) THEN UNCHANGED memories ELSE Becomes(p[1], [memories[p[1]] EXCEPT !.deleted = TRUE])
       /\ UNCHANGED <<saving, separate, decisions>>

MemoryNext ==
    \/ prune \/ Pruned
    \/ \E s \in Saver : save(s) \/ Inserted(s)
    \/ \E i \in 1..MaxMemories : confirm(i) \/ markUncertain(i) \/ remove(i) \/ Ages(i)
MemorySpec == MemoryInit /\ [][MemoryNext]_memoryVars

(* A text has one active memory, unless two saves of it overlapped.               *)
OneActive ==
    separate => \A i, j \in DOMAIN memories : Active(i) /\ Active(j) /\ memories[i].content = memories[j].content => i = j

(* What the model inferred stays flagged until the user has confirmed it, however  *)
(* often it is saved again and whatever the caller asked for.                      *)
InferredIsFlagged == \A i \in DOMAIN memories : memories[i].source = "ai" => memories[i].flagged

(* The retention policy deletes no decision and no change of goal, and memories it *)
(* deletes were neither important nor fresh when it looked.                        *)
HistoryIsKept ==
    [][\A i \in DOMAIN memories :
          memories'[i].deleted /\ ~memories[i].deleted /\ decisions' = decisions => memories[i].content \notin Decision]_memoryVars

(* memory.ts:307: the policy "never touches confirmed facts by default".           *)
ConfirmedSurvives ==
    [][\A i \in DOMAIN memories :
          memories'[i].deleted /\ ~memories[i].deleted /\ decisions' = decisions => memories[i].sure # "confirmed"]_memoryVars

(* tools.ts:850: "Only a user statement is confirmed".                             *)
ConfirmedWasSaid == \A i \in DOMAIN memories : memories[i].sure = "confirmed" => memories[i].said

(* memory.ts:82: "an identical active memory is updated, not duplicated".          *)
NeverTwice ==
    \A i, j \in DOMAIN memories : Active(i) /\ Active(j) /\ memories[i].content = memories[j].content => i = j

(* Of the versions of a memory one is active and the others are kept, and  *)
(* what the model inferred says so, with saves and extractions that        *)
(* overlap (memory.ts).                                                    *)
MemoriesAreTrue == [](OneActive /\ InferredIsFlagged) /\ HistoryIsKept
=============================================================================
