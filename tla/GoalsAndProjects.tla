-------------------------- MODULE GoalsAndProjects --------------------------
(***************************************************************************)
(* The goals as a tree, on the devices of one user: GoalService, the form    *)
(* that edits a goal, the tool update_goal of the chat, and the history of   *)
(* the strategy, whose rows follow the row of the goal.  A change reaches    *)
(* the other device as the row it left behind.  The projects that serve the  *)
(* goals and the skills follow below.                                        *)
(***************************************************************************)
EXTENDS Integers, Sequences, FiniteSets, FiniteSetsExt

CONSTANTS
    Goal,        \* the ids there are
    Device,      \* the devices of the user
    Reopens,     \* whether the chat is asked to make an archived goal active
    MaxGoalOps,  \* bound: edits of all devices
    GoalCrashes  \* bound: how often an app is closed in the middle

ASSUME GoalAssumption == Reopens \in BOOLEAN /\ {MaxGoalOps, GoalCrashes} \subseteq Nat

NoGoal == "none"

VARIABLES
    goal,     \* per device and goal: the row
    log,      \* per device and goal: what strategy_changes says of it last
    editing,  \* per device: the edit in progress, with the row as it was read
    unsent,   \* per device: the goals whose row has not reached the others
    met,      \* history: a row has come from the other device
    goalOps, goalCrashes

goalVars == <<goal, log, editing, unsent, met, goalOps, goalCrashes>>

NoEdit == [step |-> "none"]
Missing == [status |-> "missing", parent |-> NoGoal, daily |-> FALSE, dated |-> FALSE]
NewGoal(parent, daily) == [status |-> "active", parent |-> parent, daily |-> daily, dated |-> FALSE]

Present(d, g) == goal[d][g].status # "missing"
Listed(d) == {g \in Goal : goal[d][g].status \notin {"missing", "archived", "abandoned"}}

(* GoalService.tree: a goal whose parent is not listed is a root, the others hang  *)
(* below theirs.                                                                     *)
Roots(d) == {g \in Listed(d) : goal[d][g].parent \notin Listed(d)}
Below(d, found) == found \union {g \in Listed(d) : goal[d][g].parent \in found}
Tree(d) ==
    LET depth == Cardinality(Listed(d))
        drawn[n \in 0..depth] == IF n = 0 THEN Roots(d) ELSE Below(d, drawn[n - 1])
    IN drawn[depth]

(* Mutant: the form offers every goal but the one that is edited. *)
OfferedAll(d, g, daily) == {p \in Listed(d) \ {g} : goal[d][p].daily = daily}

(* The parents the form offers: the roots of the same kind, but the goal itself. *)
Offered(d, g, daily) == {p \in Roots(d) \ {g} : goal[d][p].daily = daily}

GoalInit ==
    /\ goal = [d \in Device |-> [g \in Goal |-> Missing]]
    /\ log = [d \in Device |-> [g \in Goal |-> Missing]]
    /\ editing = [d \in Device |-> NoEdit]
    /\ unsent = [d \in Device |-> {}] /\ met = FALSE /\ goalOps = 0 /\ goalCrashes = 0

(* The form creates a root; the chat may name a parent, which must exist and may *)
(* not be a daily goal unless the new one is.                                      *)
CreateGoal(d, g, parent, daily) ==
    /\ editing[d] = NoEdit /\ goalOps < MaxGoalOps /\ \A e \in Device : ~Present(e, g)
    /\ parent # NoGoal => Present(d, parent) /\ (goal[d][parent].daily => daily)
    /\ goal' = [goal EXCEPT ![d][g] = NewGoal(parent, daily)]
    /\ log' = [log EXCEPT ![d][g] = NewGoal(parent, daily)]
    /\ unsent' = [unsent EXCEPT ![d] = @ \union {g}]
    /\ goalOps' = goalOps + 1
    /\ UNCHANGED <<editing, met, goalCrashes>>

(* Mutant: the date of a goal that is active again stays. *)
WithStatusDated(was, status) == [was EXCEPT !.status = status, !.dated = was.dated \/ status = "achieved"]

(* A status and the dates that go with it. *)
WithStatus(was, status) ==
    [was EXCEPT !.status = status, !.dated = IF status = "active" THEN FALSE ELSE was.dated \/ status = "achieved"]

Edit(d, g, row) ==
    /\ editing[d] = NoEdit /\ goalOps < MaxGoalOps /\ Present(d, g) /\ row # goal[d][g]
    /\ goal' = [goal EXCEPT ![d][g] = row]
    /\ editing' = [editing EXCEPT ![d] = [step |-> "log", goal |-> g, was |-> goal[d][g]]]
    /\ unsent' = [unsent EXCEPT ![d] = @ \union {g}]
    /\ goalOps' = goalOps + 1
    /\ UNCHANGED <<log, met, goalCrashes>>

(* The form saves a root of the tree with a horizon and a parent. *)
SaveForm(d, g) ==
    /\ g \in Roots(d)
    /\ \E daily \in BOOLEAN : \E p \in Offered(d, g, daily) \union {NoGoal, goal[d][g].parent} :
          Edit(d, g, [goal[d][g] EXCEPT !.daily = daily, !.parent = p])

(* The checkbox of a goal in the tree, the archive button of a root, and the chat, *)
(* which may name any goal by its id.                                                *)
SetStatus(d, g, status) ==
    /\ \/ g \in Tree(d) /\ status = (IF goal[d][g].status = "achieved" THEN "active" ELSE "achieved")
       \/ g \in Roots(d) /\ status = "archived"
       \/ g \in Listed(d) /\ status \in {"paused", "abandoned", "archived"}
       \/ Reopens /\ status = "active"
    /\ Edit(d, g, WithStatus(goal[d][g], status))

(* Mutant: the parent of a goal is not a tracked field. *)
TrackedFew(old, row, was) == [old EXCEPT !.status = row.status, !.daily = row.daily]

(* What strategy_changes records: every tracked field that differs from before. *)
Tracked(old, row, was) ==
    [old EXCEPT !.status = IF row.status # was.status THEN row.status ELSE @,
                !.parent = IF row.parent # was.parent THEN row.parent ELSE @,
                !.daily = IF row.daily # was.daily THEN row.daily ELSE @]

LogChanges(d) ==
    /\ editing[d].step = "log"
    /\ LET g == editing[d].goal IN log' = [log EXCEPT ![d][g] = Tracked(@, goal[d][g], editing[d].was)]
    /\ editing' = [editing EXCEPT ![d] = NoEdit]
    /\ UNCHANGED <<goal, unsent, met, goalOps, goalCrashes>>

(* The row of a goal reaches the other device and replaces the one there; the     *)
(* history is synchronised with it.  Two changes of one goal are a conflict for    *)
(* the user (module SyncEngine); here only goals changed on one device travel.      *)
Exchange(d, e, g) ==
    /\ d # e /\ g \in unsent[d] /\ g \notin unsent[e]
    /\ editing[d] = NoEdit /\ editing[e] = NoEdit
    /\ goal' = [goal EXCEPT ![e][g] = goal[d][g]]
    /\ log' = [log EXCEPT ![e][g] = log[d][g]]
    /\ unsent' = [unsent EXCEPT ![d] = @ \ {g}] /\ met' = TRUE
    /\ UNCHANGED <<editing, goalOps, goalCrashes>>

CloseApp(d) ==
    /\ editing[d] # NoEdit /\ goalCrashes < GoalCrashes
    /\ editing' = [editing EXCEPT ![d] = NoEdit] /\ goalCrashes' = goalCrashes + 1
    /\ UNCHANGED <<goal, log, unsent, met, goalOps>>

GoalNext ==
    \E d \in Device :
       \/ LogChanges(d) \/ CloseApp(d)
       \/ \E g \in Goal :
            \/ \E p \in Goal \union {NoGoal}, daily \in BOOLEAN : CreateGoal(d, g, p, daily)
            \/ SaveForm(d, g)
            \/ \E s \in {"active", "paused", "achieved", "abandoned", "archived"} : SetStatus(d, g, s)
            \/ \E e \in Device : Exchange(d, e, g)
-----------------------------------------------------------------------------
(* Every goal that is not archived or given up can be seen: it hangs below a root *)
(* (GoalService.tree; the screen draws the roots).  As long as only this device     *)
(* has changed them, the parents the form offers keep it so.                        *)
AllShown == \A d \in Device : Tree(d) = Listed(d)
EveryGoalIsShown == ~met => AllShown

(* The history of the strategy ends with what each goal is (docs/07: "immutable    *)
(* evolution history"), as long as no app was closed between the two.               *)
HistoryIsWhole ==
    goalCrashes = 0 => \A d \in Device, g \in Goal : editing[d] = NoEdit =>
       /\ log[d][g].status = goal[d][g].status
       /\ log[d][g].parent = goal[d][g].parent /\ log[d][g].daily = goal[d][g].daily

(* A goal has a date of completion if it was achieved since it was active last.     *)
AchievedIsDated ==
    \A d \in Device, g \in Goal :
       /\ goal[d][g].status = "achieved" => goal[d][g].dated
       /\ goal[d][g].status = "active" => ~goal[d][g].dated

(* The same with goals from another device: each moved one below the other. *)
EveryGoalIsShownEverywhere == AllShown

(* "A daily goal cannot contain a longer-horizon goal" (goals.ts).  Only create    *)
(* asks; the horizon of the parent may be changed.                                  *)
DailyHoldsNothingLonger ==
    \A d \in Device, g \in Goal :
       Present(d, g) /\ goal[d][g].parent # NoGoal /\ goal[d][goal[d][g].parent].daily => goal[d][g].daily

(* Every goal is drawn, its history is complete and an achieved one has    *)
(* its date.                                                               *)
GoalsAreWhole == EveryGoalIsShown /\ HistoryIsWhole /\ AchievedIsDated

-----------------------------------------------------------------------------
(***************************************************************************)
(* A project, its milestones and its tasks (ProjectService): a milestone is  *)
(* written, the progress of the project is recomputed from all of them, and  *)
(* the project is touched.  The screen starts each without waiting for the   *)
(* one before.                                                              *)
(***************************************************************************)

CONSTANTS
    Milestones,     \* the milestones there may be
    Weight,         \* what each weighs
    ProjectTasks,   \* the tasks there may be
    MaxProjectOps,  \* bound: operations begun
    Hands           \* how many operations may be in progress

ASSUME ProjectAssumption ==
    /\ MaxProjectOps \in Nat /\ IsFiniteSet(Milestones) /\ IsFiniteSet(ProjectTasks) /\ IsFiniteSet(Hands)
    /\ Weight \in [Milestones -> Nat \ {0}]

VARIABLES
    milestone,  \* "absent", "pending" or "done"
    projectTask,\* "absent", "todo" or "done"
    progress,   \* of the project
    hand,       \* the operations in progress
    projectOps,
    settled,    \* history: nothing has changed since the progress was computed last
    crossed     \* history: two operations have overlapped

projectVars == <<milestone, projectTask, progress, hand, projectOps, settled, crossed>>

Free == [step |-> "none"]
AllFree == \A h \in Hands : hand[h] = Free
There(rows) == {x \in DOMAIN rows : rows[x] # "absent"}
DoneOf(rows) == {x \in DOMAIN rows : rows[x] = "done"}
WeightOf(S) == MapThenSumSet(LAMBDA m : Weight[m], S)
Nearest(num, den) == (2 * num + den) \div (2 * den)

(* Mutant: the milestones are counted and not weighed. *)
ProgressCounted(ms, ts, old) ==
    IF There(ms) = {} THEN old ELSE Nearest(100 * Cardinality(DoneOf(ms)), Cardinality(There(ms)))

(* 60% milestones and 40% tasks, or whichever there are. *)
Progress(ms, ts, old) ==
    LET mw == WeightOf(There(ms))  md == WeightOf(DoneOf(ms))
        tn == Cardinality(There(ts))  td == Cardinality(DoneOf(ts))
    IN IF mw > 0 /\ tn > 0 THEN Nearest(60 * md * tn + 40 * td * mw, mw * tn)
       ELSE IF mw > 0 THEN Nearest(100 * md, mw)
       ELSE IF tn > 0 THEN Nearest(100 * td, tn)
       ELSE old

ProjectInit ==
    /\ milestone \in [Milestones -> {"absent", "pending"}]
    /\ projectTask = [t \in ProjectTasks |-> "absent"]
    /\ progress = 0 /\ hand = [h \in Hands |-> Free] /\ projectOps = 0 /\ settled = FALSE /\ crossed = FALSE

MayBegin(h) == hand[h] = Free /\ projectOps < MaxProjectOps

(* The checkbox and the cross of a milestone. *)
ToggleMilestone(h, m, to) ==
    /\ MayBegin(h) /\ milestone[m] # "absent"
    /\ to = IF milestone[m] = "done" THEN "pending" ELSE "done"
    /\ milestone' = [milestone EXCEPT ![m] = to]
    /\ hand' = [hand EXCEPT ![h] = [step |-> "read"]] /\ projectOps' = projectOps + 1
    /\ settled' = FALSE /\ crossed' = (crossed \/ ~AllFree)
    /\ UNCHANGED <<projectTask, progress>>

RemoveMilestone(h, m) ==
    /\ MayBegin(h) /\ milestone[m] # "absent"
    /\ milestone' = [milestone EXCEPT ![m] = "absent"]
    /\ hand' = [hand EXCEPT ![h] = [step |-> "read"]] /\ projectOps' = projectOps + 1
    /\ settled' = FALSE /\ crossed' = (crossed \/ ~AllFree)
    /\ UNCHANGED <<projectTask, progress>>

(* A milestone is added, a task created or completed: none of them recomputes. *)
AddMilestone(m) ==
    /\ milestone[m] = "absent" /\ projectOps < MaxProjectOps
    /\ milestone' = [milestone EXCEPT ![m] = "pending"]
    /\ projectOps' = projectOps + 1 /\ settled' = FALSE
    /\ UNCHANGED <<projectTask, progress, hand, crossed>>

ChangeTask(t, to) ==
    /\ projectOps < MaxProjectOps
    /\ <<projectTask[t], to>> \in {<<"absent", "todo">>, <<"todo", "done">>, <<"done", "todo">>}
    /\ projectTask' = [projectTask EXCEPT ![t] = to]
    /\ projectOps' = projectOps + 1 /\ settled' = FALSE
    /\ UNCHANGED <<milestone, progress, hand, crossed>>

(* recomputeProgress: what it reads, and the update. *)
ReadProject(h) ==
    /\ hand[h].step = "read"
    /\ hand' = [hand EXCEPT ![h] = [step |-> "write", progress |-> Progress(milestone, projectTask, progress)]]
    /\ settled' = TRUE
    /\ UNCHANGED <<milestone, projectTask, progress, projectOps, crossed>>

WriteProject(h) ==
    /\ hand[h].step = "write"
    /\ progress' = hand[h].progress
    /\ hand' = [hand EXCEPT ![h] = Free]
    /\ UNCHANGED <<milestone, projectTask, projectOps, settled, crossed>>

ProjectNext ==
    \/ \E m \in Milestones :
         \/ AddMilestone(m)
         \/ \E h \in Hands : RemoveMilestone(h, m) \/ \E to \in {"done", "pending"} : ToggleMilestone(h, m, to)
    \/ \E t \in ProjectTasks, to \in {"todo", "done"} : ChangeTask(t, to)
    \/ \E h \in Hands : ReadProject(h) \/ WriteProject(h)
-----------------------------------------------------------------------------
(* The progress of a project is complete only if its milestones and tasks are, and *)
(* nothing only if none of them is done, whatever they weigh, right after it was     *)
(* computed.                                                                         *)
ProgressIsHonest ==
    AllFree /\ settled /\ ~crossed /\ There(milestone) # {} =>
       /\ progress = 100 <=> There(milestone) = DoneOf(milestone) /\ There(projectTask) = DoneOf(projectTask)
       /\ progress = 0 <=> DoneOf(milestone) = {} /\ DoneOf(projectTask) = {}

(* The last of several clicks counts.  A recomputation that read before it may     *)
(* write after it.                                                                  *)
LastClickCounts == AllFree /\ settled => progress = Progress(milestone, projectTask, progress)

(* "Progress = weighted milestone completion + task completion" (docs/07).  A task *)
(* that is completed does not recompute it.                                         *)
ProgressFollowsTasks ==
    AllFree /\ ~crossed /\ DoneOf(projectTask) # {} => progress = Progress(milestone, projectTask, progress)
-----------------------------------------------------------------------------
(***************************************************************************)
(* A skill and its level (SkillService): created with a self-rating, moved   *)
(* by assessments.  An assessment reads the skill, inserts its row and then  *)
(* updates the skill, so two of them may fall into each other: the screens   *)
(* do not lock their buttons, and the chat assesses too.                     *)
(***************************************************************************)

CONSTANTS
    Levels,      \* the self-ratings a skill is created with
    Scores,      \* the scores an assessment may have
    Assessors,   \* who may have an assessment in progress
    MaxAssessed, \* bound: assessments begun
    SkillCrashes \* bound: how often the app is closed in the middle

ASSUME SkillAssumption ==
    Levels \subseteq 0..100 /\ Scores \subseteq 0..100 /\ {MaxAssessed, SkillCrashes} \subseteq Nat

NoScore == -1

VARIABLES
    skill,    \* level, confidence, the assessments listed as evidence
    assessed, \* the rows of skill_assessments, in order
    work,     \* per assessor: the assessment in progress
    begun, upset, \* upset: assessments have overlapped, or one was cut off
    skillCrashes

skillVars == <<skill, assessed, work, begun, upset, skillCrashes>>

NoWork == [step |-> "none"]
NobodyAssesses == \A a \in Assessors : work[a] = NoWork

(* Mutant: a test replaces what was known. *)
DeriveWhole(level, score, weight) == score

(* The score is blended with the current level. *)
deriveLevel(level, score, weight) == (2 * (level * (100 - weight) + score * weight) + 100) \div 200

(* What the kinds of assessment weigh, in percent. *)
Weights == {50, 35, 25, 20}

SkillInit ==
    /\ \E l \in Levels :
          skill = [level |-> l, confidence |-> IF l > 0 THEN "inferred" ELSE "uncertain", evidence |-> {}, created |-> l]
    /\ assessed = <<>> /\ work = [a \in Assessors |-> NoWork] /\ begun = 0 /\ upset = FALSE /\ skillCrashes = 0

(* The skill is read and the new level is computed.  Evidence or a score is needed; *)
(* evidence without a score leaves the level.                                       *)
Assess(a) ==
    /\ work[a] = NoWork /\ begun < MaxAssessed
    /\ \E score \in Scores \union {NoScore}, weight \in Weights, ref \in BOOLEAN :
          /\ ref \/ score # NoScore
          /\ work' = [work EXCEPT ![a] =
               [step |-> "insert", was |-> skill, score |-> score, ref |-> ref,
                after |-> IF score = NoScore THEN skill.level ELSE deriveLevel(skill.level, score, weight)]]
    /\ begun' = begun + 1 /\ upset' = (upset \/ ~NobodyAssesses)
    /\ UNCHANGED <<skill, assessed, skillCrashes>>

InsertAssessment(a) ==
    /\ work[a].step = "insert"
    /\ assessed' = Append(assessed, [before |-> work[a].was.level, after |-> work[a].after, score |-> work[a].score, ref |-> work[a].ref])
    /\ work' = [work EXCEPT ![a] = [step |-> "update", was |-> work[a].was, after |-> work[a].after, id |-> Len(assessed) + 1]]
    /\ UNCHANGED <<skill, begun, upset, skillCrashes>>

(* Mutants: two assessments are enough to be sure; the level stays. *)
SkillAfterSoon(was, after, id) ==
    [was EXCEPT !.level = after, !.evidence = @ \union {id},
                !.confidence = IF Cardinality(was.evidence) >= 1 THEN "confirmed" ELSE "inferred"]
SkillAfterSame(was, after, id) == [was EXCEPT !.evidence = @ \union {id}, !.confidence = "inferred"]

(* Level, confidence and the list of evidence, computed from the row as it was read. *)
SkillAfter(was, after, id) ==
    [was EXCEPT !.level = after, !.evidence = @ \union {id},
                !.confidence = IF Cardinality(was.evidence) >= 2 THEN "confirmed" ELSE "inferred"]

UpdateSkill(a) ==
    /\ work[a].step = "update"
    /\ skill' = SkillAfter(work[a].was, work[a].after, work[a].id)
    /\ work' = [work EXCEPT ![a] = NoWork]
    /\ UNCHANGED <<assessed, begun, upset, skillCrashes>>

SkillClose ==
    /\ ~NobodyAssesses /\ skillCrashes < SkillCrashes
    /\ work' = [a \in Assessors |-> NoWork] /\ skillCrashes' = skillCrashes + 1 /\ upset' = TRUE
    /\ UNCHANGED <<skill, assessed, begun>>

SkillNext == (\E a \in Assessors : Assess(a) \/ InsertAssessment(a) \/ UpdateSkill(a)) \/ SkillClose
SkillSpec == SkillInit /\ [][SkillNext]_skillVars
-----------------------------------------------------------------------------
(* Every level is explained by the assessments: each starts from the level the one *)
(* before it left, and the last of them left the level the skill has.              *)
LevelIsExplained ==
    ~upset =>
       /\ \A i \in 2..Len(assessed) : assessed[i].before = assessed[i - 1].after
       /\ NobodyAssesses /\ assessed # <<>> => skill.level = assessed[Len(assessed)].after

(* The evidence a skill lists has its assessment, and three of them make it        *)
(* "confirmed", whatever overlaps and wherever the app is closed.                    *)
EvidenceIsReal ==
    /\ skill.evidence \subseteq DOMAIN assessed
    /\ skill.confidence = "confirmed" => Cardinality(skill.evidence) >= 3

Distance(x, y) == IF x > y THEN x - y ELSE y - x

(* "One test cannot swing a skill wildly": an assessment moves the level towards    *)
(* its score, by half the distance at most (skills.ts, deriveLevel).                *)
OneTestCannotSwing ==
    \A i \in DOMAIN assessed :
       LET r == assessed[i]
       IN r.score # NoScore =>
            /\ 2 * Distance(r.after, r.before) <= Distance(r.score, r.before) + 1
            /\ Distance(r.after, r.score) <= Distance(r.before, r.score)

(* Every assessment is in the list of evidence.  One of two that overlap is lost.   *)
EvidenceIsKept == NobodyAssesses /\ skillCrashes = 0 => skill.evidence = DOMAIN assessed

(* "Level changes only through a skill_assessments row" (docs/07): a skill without   *)
(* an assessment has no level.  It is created with a self-rating.                     *)
LevelOnlyByAssessment == skill.level > 0 => \E i \in DOMAIN assessed : assessed[i].after = skill.level

(* "requires evidence_ref" (docs/07): a score alone is enough.                        *)
EvidenceIsReferenced == \A i \in DOMAIN assessed : assessed[i].ref

(* The level of a skill is what its assessments derive, from evidence that *)
(* exists, and one of them does not swing it.                              *)
LevelIsTrue == LevelIsExplained /\ EvidenceIsReal /\ OneTestCannotSwing
=============================================================================
