----------------------------- MODULE DayPlanner -----------------------------
(***************************************************************************)
(* The daily planner: how PlannerService.buildDay turns the calendar and a  *)
(* ranked list of candidate tasks into the slots of a day.  Time is counted *)
(* in units of five minutes from the beginning of the day.                  *)
(*                                                                         *)
(* The scores are abstracted: the candidates come in any order, and a task  *)
(* may take any of the free spans that fit it.  What does not fit, what is  *)
(* put off and what is forgotten is kept exactly.                           *)
(***************************************************************************)
EXTENDS Integers, Sequences, SequencesExt, FiniteSets, FiniteSetsExt

CONSTANTS
    DayEnd,       \* the end of the waking day
    Blocks,       \* the calendar events there may be, as spans
    MaxBlocks,    \* how many of them a day has at most
    Starts,       \* when the plan may begin: at waking, or now
    Minutes,      \* the estimates of the candidate tasks
    MaxTasks,     \* how many candidates there are at most
    Buffer,       \* planning.buffer_minutes
    FocusCap,     \* the load the user has been seen to carry
    ProtectedFree,\* planning.free_time_minutes
    BreakEvery    \* planning.break_every_minutes

ASSUME PlannerAssumption ==
    /\ {DayEnd, MaxBlocks, MaxTasks, FocusCap, ProtectedFree, BreakEvery, Buffer} \subseteq Nat
    /\ Starts \subseteq 0..DayEnd /\ Minutes \subseteq Nat \ {0}
    /\ Blocks \subseteq [start : 0..DayEnd, end : 1..DayEnd]

MinWindow == 3      \* a gap of less than 15 minutes is no window
MinTask == 2        \* a task is planned for 10 minutes or not at all
MinCapacity == 1    \* with 5 minutes left the planner stops
BreakLength == 2
ReviewBlock == 3    \* the one block of spaced repetition
Slack == 6          \* half an hour more than fits is not called an overload

VARIABLES
    busy,      \* the events of the day
    from,      \* the bound the plan begins at
    queue,     \* the estimates of the candidates not yet considered, best first
    slots,     \* what has been placed: [kind, start, end]
    left,      \* the capacity that remains
    sinceBreak,\* the focus since the last break
    deferred,  \* how many candidates were put off with a reason
    dropped,   \* the candidates that were neither placed nor put off
    demanded,  \* the sum of all the estimates
    stage      \* "off", "tasks", "reviews", "free" or "done"

plannerVars == <<busy, from, queue, slots, left, sinceBreak, deferred, dropped, demanded, stage>>

Larger(a, b) == IF a > b THEN a ELSE b
Smaller(a, b) == IF a < b THEN a ELSE b
Apart(s, t) == s.end <= t.start \/ t.end <= s.start
Length(s) == s.end - s.start

ByStart(spans) == SetToSortSeq(spans, LAMBDA a, b : a.start < b.start \/ (a.start = b.start /\ a.end < b.end))

(* The time the events take, overlaps counted once. *)
MergeMinutes(spans) ==
    FoldLeft(LAMBDA acc, s :
               [total |-> acc.total + Larger(0, s.end - Larger(s.start, acc.cursor)),
                cursor |-> Larger(acc.cursor, s.end)],
             [total |-> 0, cursor |-> -1], ByStart(spans)).total

(* Mutant: the window ends where the event begins. *)
WindowsToTheEvent(spans, first, last) ==
    LET Step(acc, s) ==
          [gaps |-> acc.gaps \union {[start |-> acc.cursor, end |-> s.start]}, cursor |-> Larger(acc.cursor, s.end + Buffer)]
        swept == FoldLeft(Step, [gaps |-> {}, cursor |-> first], ByStart(spans))
    IN {w \in swept.gaps \union {[start |-> swept.cursor, end |-> last]} : Length(w) >= MinWindow}

(* The gaps between the events, a buffer away from them. *)
WindowsBetween(spans, first, last) ==
    LET Step(acc, s) ==
          [gaps |-> IF s.start - acc.cursor >= MinWindow
                      THEN acc.gaps \union {[start |-> acc.cursor, end |-> s.start - Buffer]}
                      ELSE acc.gaps,
           cursor |-> Larger(acc.cursor, s.end + Buffer)]
        swept == FoldLeft(Step, [gaps |-> {}, cursor |-> first], ByStart(spans))
    IN {w \in swept.gaps \union {[start |-> swept.cursor, end |-> last]} : Length(w) >= MinWindow}

(* The events, cut to the part of the day that is planned. *)
InDay(spans) == {[start |-> Larger(b.start, from), end |-> Smaller(b.end, DayEnd)] :
                   b \in {b \in spans : b.end > from /\ b.start < DayEnd}}

Windows == WindowsBetween(InDay(busy), from, DayEnd)

(* Mutant: the next span begins where the last one ends. *)
CandidatesTouching(placed, length, buffer) ==
    UNION {{[start |-> c, end |-> c + length] : c \in {c \in w.start..(w.end - length) :
              c = w.start \/ \E s \in placed : c = s.end}} : w \in Windows}

(* In each window, the spans of the given length that begin at its start or   *)
(* right behind something that was placed.                                    *)
Candidates(placed, length, buffer) ==
    LET InWindow(w) ==
          LET Step(acc, s) ==
                IF s.end <= acc.cursor \/ s.start >= w.end THEN acc
                ELSE [found |-> IF s.start - acc.cursor >= length THEN acc.found \union {acc.cursor} ELSE acc.found,
                      cursor |-> Larger(acc.cursor, s.end + buffer)]
              swept == FoldLeft(Step, [found |-> {}, cursor |-> w.start], ByStart(placed))
          IN swept.found \union (IF w.end - swept.cursor >= length THEN {swept.cursor} ELSE {})
    IN {[start |-> c, end |-> c + length] : c \in UNION {InWindow(w) : w \in Windows}}

(* Mutants: the free time is forgotten; a full day has less than nothing left. *)
CapacityForgetsFree == Larger(0, Smaller(DayEnd - from - MergeMinutes(InDay(busy)), FocusCap))
CapacityBelowZero == Smaller(DayEnd - from - MergeMinutes(InDay(busy)) - ProtectedFree, FocusCap)

(* What the day holds: the waking time less the events, the buffers and the free *)
(* time, and no more than the load the user has been seen to carry.              *)
Capacity ==
    LET raw == Larger(0, DayEnd - from - MergeMinutes(InDay(busy)) - Buffer * Larger(0, Cardinality(Windows) - 1))
    IN Larger(0, Smaller(raw - ProtectedFree, FocusCap))

PlannerInit ==
    /\ slots = {} /\ sinceBreak = 0 /\ deferred = 0 /\ dropped = <<>>
    /\ \/ /\ stage = "tasks"
          /\ busy \in {b \in SUBSET Blocks : Cardinality(b) <= MaxBlocks}
          /\ from \in Starts
          /\ queue \in BoundedSeq(Minutes, MaxTasks)
          /\ left = Capacity
          /\ demanded = FoldLeft(+, 0, queue)
       \/ stage = "off" /\ busy = {} /\ from = 0 /\ queue = <<>> /\ left = 0 /\ demanded = 0

Slot(kind, span) == [kind |-> kind, start |-> span.start, end |-> span.end]

(* The next candidate takes a span that fits it, shortened to the capacity that  *)
(* is left; after enough focus a break is looked for, wherever there is room.     *)
Place ==
    /\ stage = "tasks" /\ queue # <<>> /\ left > MinCapacity
    /\ LET length == Smaller(Larger(MinTask, Head(queue)), left)
           focus == sinceBreak + length
       IN /\ length >= MinTask
          /\ \E span \in Candidates(slots, length, Buffer) :
               LET placed == slots \union {Slot("task", span)}
                   rests == Candidates(placed, BreakLength, 0)
               IN IF focus < BreakEvery
                    THEN slots' = placed /\ sinceBreak' = focus
                    ELSE /\ sinceBreak' = 0
                         /\ IF rests = {} THEN slots' = placed
                            ELSE \E r \in rests : slots' = placed \union {Slot("break", r)}
          /\ left' = left - length
    /\ queue' = Tail(queue)
    /\ UNCHANGED <<busy, from, deferred, dropped, demanded, stage>>

(* No continuous span is long enough: the candidate is put off, with a reason. *)
Defer ==
    /\ stage = "tasks" /\ queue # <<>> /\ left > MinCapacity
    /\ LET length == Smaller(Larger(MinTask, Head(queue)), left)
       IN length < MinTask \/ Candidates(slots, length, Buffer) = {}
    /\ queue' = Tail(queue) /\ deferred' = deferred + 1
    /\ UNCHANGED <<busy, from, slots, left, sinceBreak, dropped, demanded, stage>>

(* The loop is over: every candidate was considered, or the capacity is used up  *)
(* and the loop is left with the rest of them unmentioned.                        *)
Stop ==
    /\ stage = "tasks" /\ (queue = <<>> \/ left <= MinCapacity)
    /\ stage' = "reviews" /\ dropped' = queue /\ queue' = <<>>
    /\ UNCHANGED <<busy, from, slots, left, sinceBreak, deferred, demanded>>

(* Cards are due or not; their one block is taken off the capacity. *)
Reviews ==
    /\ stage = "reviews" /\ stage' = "free"
    /\ \/ UNCHANGED <<slots, left>>
       \/ /\ left >= ReviewBlock
          /\ \E span \in Candidates(slots, ReviewBlock, Buffer) : slots' = slots \union {Slot("review", span)}
          /\ left' = left - ReviewBlock
    /\ UNCHANGED <<busy, from, queue, sinceBreak, deferred, dropped, demanded>>

(* The free time takes the last span that is long enough, if there is one. *)
FreeTime ==
    /\ stage = "free" /\ stage' = "done"
    /\ LET spans == Candidates(slots, ProtectedFree, 0)
       IN IF spans = {} THEN UNCHANGED slots
          ELSE slots' = slots \union {Slot("free", CHOOSE s \in spans : \A o \in spans : o.start <= s.start)}
    /\ UNCHANGED <<busy, from, queue, left, sinceBreak, deferred, dropped, demanded>>

PlannerNext == Place \/ Defer \/ Stop \/ Reviews \/ FreeTime
PlannerSpec == PlannerInit /\ [][PlannerNext]_plannerVars
-----------------------------------------------------------------------------
Kinds == {"task", "break", "review", "free"}
Planned(kinds) == {s \in slots : s.kind \in kinds}
Sum(spans) == MapThenSumSet(LAMBDA s : s.end - s.start, spans)

PlannerTypeOK ==
    /\ stage \in {"off", "tasks", "reviews", "free", "done"}
    /\ \A s \in slots : s.kind \in Kinds /\ s.start \in 0..DayEnd /\ s.end \in 0..DayEnd
    /\ left \in Nat /\ deferred \in 0..MaxTasks

(* Nothing the planner puts into a day overlaps anything else in it or an event, *)
(* and it keeps the buffer to every event (planner.ts, hard rule 1).              *)
NothingOverlaps ==
    \A s \in slots :
       /\ from <= s.start /\ s.end <= DayEnd
       /\ \A t \in slots \ {s} : Apart(s, t)
       /\ \A b \in InDay(busy) : s.end + Buffer <= b.start \/ b.end + Buffer <= s.start

(* The focus of a day stays within what the user was seen to carry, and with the *)
(* events and the protected time it fits into the waking day (hard rules 2 and 3). *)
LoadFits ==
    /\ Sum(Planned({"task", "review"})) + left <= FocusCap
    /\ Planned({"task"}) # {} =>
         Sum(Planned({"task", "review"})) + left + MergeMinutes(InDay(busy)) + ProtectedFree <= DayEnd - from

(* Every candidate gets a slot or a reason: "lists what was deferred and why     *)
(* instead of silently dropping tasks" (docs/07).  Stop keeps the rest to itself. *)
NobodyDropped == stage = "done" => dropped = <<>>

(* At the least, a day that drops a task says that it is overloaded. *)
DroppedIsSaid == stage = "done" /\ dropped # <<>> => demanded > Capacity + Slack

(* Two blocks of work are a buffer apart (docs/07: buffers between blocks). *)
WorkKeepsBuffer ==
    \A s, t \in Planned({"task"}) : s # t /\ s.start < t.start => s.end + Buffer <= t.start

(* A day that is planned can be lived: nothing overlaps, the load fits the *)
(* day, and work keeps its buffers, whatever the tasks are.                *)
PlanIsSound == PlannerTypeOK /\ NothingOverlaps /\ LoadFits /\ WorkKeepsBuffer
=============================================================================
