------------------------------ MODULE MCGrowth ------------------------------
(***************************************************************************)
(* Learning paths, recall cards, skills, goals and projects, one of them in *)
(* each behaviour.                                                         *)
(***************************************************************************)
EXTENDS LearningPath, GoalsAndProjects, TLC

CONSTANT Parts  \* of "path", "card", "skill", "goals" and "project"
VARIABLE part

CONSTANTS g1, g2, g3, c1, c2

MCEstimate == <<1, 2, 1>>
MCLongEstimate == <<150, 150, 1>>
(* depends_on by id, on topics that come before. *)
MCDependencies ==
    {[t \in Topics |-> {}], [t \in Topics |-> 1..(t - 1)], [t \in Topics |-> {1} \ {t}]}
(* What a caller of createPath can give: a name that is the id of no topic (0). *)
MCTitles == {[t \in Topics |-> IF t = 1 THEN {} ELSE {0}]}
MCGoals == {g1, g2, g3}
MCMilestones == {1, 2}
MCWeight == <<1, 3>>
MCGrowthSymmetry == Permutations({g1, g2, g3}) \union Permutations({c1, c2})

NoSkill ==
    /\ skill = [level |-> 0, confidence |-> "uncertain", evidence |-> {}, created |-> 0]
    /\ assessed = <<>> /\ work = [a \in Assessors |-> NoWork] /\ begun = 0 /\ upset = FALSE /\ skillCrashes = 0
NoProject ==
    /\ milestone = [m \in Milestones |-> "absent"] /\ projectTask = [t \in ProjectTasks |-> "absent"]
    /\ progress = 0 /\ hand = [h \in Hands |-> Free] /\ projectOps = 0 /\ settled = FALSE /\ crossed = FALSE

MCInit ==
    /\ part \in Parts
    /\ PathInit /\ (part # "path" => deps = [t \in Topics |-> {}])
    /\ CardInit
    /\ IF part = "skill" THEN SkillInit ELSE NoSkill
    /\ GoalInit
    /\ IF part = "project" THEN ProjectInit ELSE NoProject

MCNext ==
    \/ part = "path" /\ PathNext /\ UNCHANGED <<cardVars, skillVars, goalVars, projectVars, part>>
    \/ part = "card" /\ CardNext /\ UNCHANGED <<pathVars, skillVars, goalVars, projectVars, part>>
    \/ part = "skill" /\ SkillNext /\ UNCHANGED <<learnVars, goalVars, projectVars, part>>
    \/ part = "goals" /\ GoalNext /\ UNCHANGED <<learnVars, skillVars, projectVars, part>>
    \/ part = "project" /\ ProjectNext /\ UNCHANGED <<learnVars, skillVars, goalVars, part>>

growthVars == <<learnVars, skillVars, goalVars, projectVars, part>>
MCSpec == MCInit /\ [][MCNext]_growthVars

(* What the screen of the goals shows of goals and projects is true.       *)
GoalsAreTrue == GoalsAreWhole /\ ProgressIsHonest
=============================================================================
