---------------------------- MODULE LearningPath ----------------------------
(***************************************************************************)
(* A learning path: its topics, which unlock one another, the progress that *)
(* is summed up into the path, and a recall card with its schedule          *)
(* (LearningService).  Every statement of an operation is a step of its      *)
(* own; operations of the screens and of the chat may overlap.               *)
(***************************************************************************)
EXTENDS Integers, Sequences, FiniteSets, FiniteSetsExt

CONSTANTS
    Estimate,    \* minutes per topic, in the order of the path
    Dependencies,\* the depends_on there may be: functions from topics to sets of names
    Callers,     \* who may have an operation in progress
    MaxLearnOps, \* bound: operations begun
    MaxEntries,  \* bound: progress rows of one topic
    MaxReviews,  \* bound: gradings of the card
    LearnCrashes \* bound: how often the app is closed in the middle

Topics == 1..Len(Estimate)

ASSUME LearningAssumption ==
    /\ Estimate \in Seq(Nat \ {0}) /\ Estimate # <<>>
    /\ Dependencies \subseteq [Topics -> SUBSET Nat]
    /\ {MaxLearnOps, MaxEntries, MaxReviews, LearnCrashes} \subseteq Nat

MinEase == 1300       \* in thousandths
MasteryInterval == 60

VARIABLES
    topic,     \* the rows: status, progress
    deps,      \* what each topic depends on
    entries,   \* the progress rows of a topic: their minutes as far as they count, whether one has a full score
    path,      \* the row of the path: status, progress
    call,      \* per caller: the operation in progress
    everDone,  \* history: the topics that were done at some time
    relocked,  \* history: the topics a report locked again with the status it had read
    disturbed, \* history: operations have overlapped, or one was cut off
    learnOps, learnCrashes,
    card,      \* interval, ease, repetitions, lapses, status
    streak,    \* history: the recalls in a row
    reviews

pathVars == <<topic, deps, entries, path, call, everDone, relocked, disturbed, learnOps, learnCrashes>>
cardVars == <<card, streak, reviews>>
learnVars == <<pathVars, cardVars>>

NoCall == [step |-> "none"]
Idle == \A c \in Callers : call[c] = NoCall
Done(t) == topic[t].status = "done"
DoneTopics == {t \in Topics : Done(t)}

Round(num, den) == (2 * num + den) \div (2 * den)

(* The path's progress is the mean of its topics', weighted by their estimates. *)
Total(minutes) ==
    LET sum[t \in 0..Len(Estimate)] == IF t = 0 THEN 0 ELSE sum[t - 1] + minutes[t]
    IN sum[Len(Estimate)]
PathProgress(rows) == Round(Total([t \in Topics |-> Estimate[t] * rows[t].progress]), Total(Estimate))

(* A path as createPath leaves it: its first topic is available. *)
PathInit ==
    /\ deps \in Dependencies
    /\ topic = [t \in Topics |-> [status |-> IF t = 1 THEN "available" ELSE "pending", progress |-> 0]]
    /\ entries = [t \in Topics |-> [n |-> 0, minutes |-> 0, scored |-> FALSE]]
    /\ path = [status |-> "active", progress |-> 0]
    /\ call = [c \in Callers |-> NoCall]
    /\ everDone = {} /\ relocked = {} /\ disturbed = FALSE /\ learnOps = 0 /\ learnCrashes = 0

(* The UI completes a topic that is not done and reopens one that is; progress is *)
(* recorded for any of them, by the screen or by the chat.  recordProgress reads   *)
(* the row here and uses it when it writes.                                        *)
Start(c, kind, t) ==
    /\ call[c] = NoCall /\ learnOps < MaxLearnOps
    /\ kind = "complete" => ~Done(t)
    /\ kind = "reopen" => Done(t)
    /\ kind = "record" => entries[t].n < MaxEntries
    /\ call' = [call EXCEPT ![c] = [step |-> IF kind = "record" THEN "entry" ELSE "row", kind |-> kind, topic |-> t, was |-> topic[t]]]
    /\ learnOps' = learnOps + 1
    /\ disturbed' = (disturbed \/ ~Idle)
    /\ UNCHANGED <<topic, deps, entries, path, everDone, relocked, learnCrashes>>

Goes(c, next) == call' = [call EXCEPT ![c] = next]

InsertEntry(c) ==
    /\ call[c].step = "entry"
    /\ \E minutes \in 0..Estimate[call[c].topic], scored \in BOOLEAN :
          entries' = [entries EXCEPT ![call[c].topic] =
                        [n |-> @.n + 1, minutes |-> Min({Estimate[call[c].topic], @.minutes + minutes}), scored |-> @.scored \/ scored]]
    /\ Goes(c, [call[c] EXCEPT !.step = "row"])
    /\ UNCHANGED <<topic, deps, path, everDone, relocked, disturbed, learnOps, learnCrashes>>

(* Time against the estimate counts 60, the score 40; it never falls below what *)
(* was read.                                                                     *)
Recorded(t, was) ==
    LET e == entries[t]
    IN Max({was.progress, Round(60 * e.minutes + (IF e.scored THEN 40 * Estimate[t] ELSE 0), Estimate[t])})

(* The row of the topic is written. *)
WriteTopic(c) ==
    /\ call[c].step = "row"
    /\ LET t == call[c].topic
           p == Recorded(t, call[c].was)
           row == CASE call[c].kind = "complete" -> [status |-> "done", progress |-> 100]
                    [] call[c].kind = "reopen" -> [topic[t] EXCEPT !.status = "available"]
                    [] call[c].kind = "record" ->
                         [progress |-> p, status |-> IF p >= 100 THEN "done" ELSE IF p > 0 THEN "in_progress" ELSE call[c].was.status]
       IN /\ topic' = [topic EXCEPT ![t] = row]
          /\ everDone' = IF row.status = "done" THEN everDone \union {t} ELSE everDone
          /\ relocked' = IF row.status # "pending" THEN relocked \ {t}
                         ELSE IF topic[t].status # "pending" THEN relocked \union {t} ELSE relocked
          /\ Goes(c, IF row.status = "done" THEN [step |-> "unlock", topic |-> t] ELSE [step |-> "sum"])
    /\ UNCHANGED <<deps, entries, path, disturbed, learnOps, learnCrashes>>

(* Mutant: one done dependency is enough. *)
UnlockedByOne(t) == {u \in Topics : topic[u].status = "pending" /\ (deps[u] = {} \/ deps[u] \cap (DoneTopics \union {t}) # {})}

(* Topics that only depended on completed topics. *)
Unlocked(t) == {u \in Topics : topic[u].status = "pending" /\ deps[u] \subseteq DoneTopics \union {t}}

ListDependents(c) ==
    /\ call[c].step = "unlock"
    /\ Goes(c, [step |-> "each", todo |-> Unlocked(call[c].topic)])
    /\ UNCHANGED <<topic, deps, entries, path, everDone, relocked, disturbed, learnOps, learnCrashes>>

Unlock(c) ==
    /\ call[c].step = "each"
    /\ IF call[c].todo = {}
         THEN Goes(c, [step |-> "sum"]) /\ UNCHANGED <<topic, relocked>>
         ELSE LET u == Min(call[c].todo)
              IN /\ topic' = [topic EXCEPT ![u].status = "available"]
                 /\ relocked' = relocked \ {u}
                 /\ Goes(c, [call[c] EXCEPT !.todo = @ \ {u}])
    /\ UNCHANGED <<deps, entries, path, everDone, disturbed, learnOps, learnCrashes>>

PathRow(rows, status) ==
    [progress |-> PathProgress(rows), status |-> IF PathProgress(rows) >= 100 THEN "completed" ELSE status]

(* recomputePath reads the path and its topics, then writes the path. *)
SumUp(c) ==
    /\ call[c].step = "sum"
    /\ Goes(c, [step |-> "path", row |-> PathRow(topic, path.status)])
    /\ UNCHANGED <<topic, deps, entries, path, everDone, relocked, disturbed, learnOps, learnCrashes>>

WritePath(c) ==
    /\ call[c].step = "path"
    /\ path' = call[c].row /\ Goes(c, NoCall)
    /\ UNCHANGED <<topic, deps, entries, everDone, relocked, disturbed, learnOps, learnCrashes>>

LearnClose ==
    /\ ~Idle /\ learnCrashes < LearnCrashes
    /\ call' = [c \in Callers |-> NoCall] /\ learnCrashes' = learnCrashes + 1 /\ disturbed' = TRUE
    /\ UNCHANGED <<topic, deps, entries, path, everDone, relocked, learnOps>>

PathNext ==
    \/ \E c \in Callers :
         \/ \E kind \in {"complete", "reopen", "record"}, t \in Topics : Start(c, kind, t)
         \/ InsertEntry(c) \/ WriteTopic(c) \/ ListDependents(c) \/ Unlock(c) \/ SumUp(c) \/ WritePath(c)
    \/ LearnClose
PathSpec == PathInit /\ [][PathNext]_pathVars
-----------------------------------------------------------------------------
NewCard == [interval |-> 0, ease |-> 2500, reps |-> 0, lapses |-> 0, status |-> "active"]
CardInit == card = NewCard /\ streak = 0 /\ reviews = 0

EaseAfter(ease, q) == Max({MinEase, ease + 100 - (5 - q) * (80 + (5 - q) * 20)})

(* Mutant: a lapse takes only some ease. *)
sm2KeepsInterval(s, q) ==
    IF q < 3
      THEN [interval |-> s.interval, ease |-> Max({MinEase, s.ease - 200}), reps |-> s.reps, lapses |-> s.lapses + 1]
      ELSE [interval |-> IF s.reps = 0 THEN 1 ELSE IF s.reps = 1 THEN 6 ELSE Max({1, Round(s.interval * s.ease, 1000)}),
            ease |-> EaseAfter(s.ease, q), reps |-> s.reps + 1, lapses |-> s.lapses]

(* SM-2: a lapse starts the card again, a recall multiplies its interval. *)
sm2(s, q) ==
    IF q < 3
      THEN [interval |-> 1, ease |-> Max({MinEase, s.ease - 200}), reps |-> 0, lapses |-> s.lapses + 1]
      ELSE [interval |-> IF s.reps = 0 THEN 1 ELSE IF s.reps = 1 THEN 6 ELSE Max({1, Round(s.interval * s.ease, 1000)}),
            ease |-> EaseAfter(s.ease, q), reps |-> s.reps + 1, lapses |-> s.lapses]

(* A due card, which is an active one, is graded. *)
gradeReview(q) ==
    /\ card.status = "active" /\ reviews < MaxReviews
    /\ LET next == sm2(card, q)
       IN card' = [interval |-> next.interval, ease |-> next.ease, reps |-> next.reps, lapses |-> next.lapses,
                   status |-> IF next.interval >= MasteryInterval THEN "mastered" ELSE "active"]
    /\ streak' = IF q < 3 THEN 0 ELSE streak + 1
    /\ reviews' = reviews + 1

CardNext == \E q \in 0..5 : gradeReview(q)
CardSpec == CardInit /\ [][CardNext]_cardVars
-----------------------------------------------------------------------------
TopicRow == [status : {"pending", "available", "in_progress", "done"}, progress : 0..100]
PathTypeOK == topic \in [Topics -> TopicRow] /\ path \in [status : {"active", "completed"}, progress : 0..100]

(* Once every operation has ended, what is still locked waits for a topic that is *)
(* not done, also when completions have overlapped (unlockDependents).             *)
NothingStaysLocked ==
    Idle /\ learnCrashes = 0 /\ everDone # {} =>
       \A t \in Topics \ relocked : topic[t].status = "pending" => ~(deps[t] \subseteq DoneTopics)

(* There is always a next topic to offer (LearningService.nextActions), until all *)
(* of them are done and unless the app was closed before the next was unlocked or  *)
(* a report has locked it again.                                                    *)
NextStep == Idle /\ DoneTopics # Topics => \E t \in Topics : topic[t].status \in {"available", "in_progress"}
ThereIsANextStep == learnCrashes = 0 /\ relocked = {} => NextStep

(* No topic is offered before everything it depends on was done, unless it was     *)
(* done itself and reopened.                                                        *)
UnlocksAreEarned ==
    \A t \in Topics :
       topic[t].status = "available" => t = 1 \/ t \in everDone \/ (everDone # {} /\ deps[t] \subseteq everDone)

(* The path shows the mean of its topics, as long as operations come one after    *)
(* another and none is cut off.                                                    *)
PathIsItsTopics == Idle /\ ~disturbed => path.progress = PathProgress(topic)

(* Recorded progress is not lost again (recordProgress takes the maximum).        *)
ProgressIsKept == [][~disturbed => \A t \in Topics : topic'[t].progress >= topic[t].progress]_pathVars

(* A card leaves the queue only after recalls in a row: a lapse starts it again.   *)
(* Four of them; three only when the ease of dozens of recalls before has piled up, *)
(* which nothing bounds (gradeReview; a lapse takes 0.2 of it, a recall adds 0.1).   *)
MasteredIsEarned == card.status = "mastered" => streak >= 4 \/ (streak = 3 /\ reviews > 70)

(* A card that is recalled every time does leave the queue: rounding never holds   *)
(* its interval where it is.                                                        *)
RecallEndsInMastery == streak >= 11 => card.status = "mastered"
-----------------------------------------------------------------------------
(* A completed path has only completed topics.  A reopened topic keeps its        *)
(* progress, and the mean of a long path rounds up.                                *)
CompletedIsAllDone == Idle /\ ~disturbed /\ path.status = "completed" => DoneTopics = Topics

(* The same with the app closed between the writes: nothing unlocks the topic later. *)
NextStepAfterClose == NextStep

(* What was unlocked stays unlocked: "Topics that only depended on completed topics *)
(* become available" (learning.ts 167).  A report of no minutes and no score that   *)
(* was begun before writes the status it has read.                                   *)
UnlockedStaysUnlocked == relocked = {}

(* What was completed stays completed until the user reopens it. *)
CompletionIsKept ==
    [][\A t \in Topics : Done(t) /\ topic'[t].status # "done" => \E c \in Callers : call[c].step = "row" /\ call[c].kind = "reopen"]_pathVars

(* A path advances: topics are unlocked when, and as soon as, what they    *)
(* depend on is done, progress is what was recorded and does not go back,  *)
(* with two callers at work.                                               *)
PathsAdvance ==
    /\ [](PathTypeOK /\ NothingStaysLocked /\ ThereIsANextStep /\ UnlocksAreEarned /\ PathIsItsTopics)
    /\ ProgressIsKept

(* A card is mastered after enough recalls in a row, neither before nor    *)
(* never (learning.ts 52-66 and 250-268).                                  *)
RecallIsEarned == card.ease >= MinEase /\ card.interval \in Nat /\ MasteredIsEarned /\ RecallEndsInMastery
=============================================================================
