SPECIFICATION MCSpec
CONSTANTS
  g1 = g1
  g2 = g2
  g3 = g3
  c1 = c1
  c2 = c2
  Parts = {"path", "card", "skill", "goals", "project"}
  Dependencies <- MCDependencies
  Estimate <- MCEstimate
  Callers = {c1, c2}
  MaxLearnOps = 3
  MaxEntries = 2
  MaxReviews = 14
  LearnCrashes = 1
  Levels = {0, 35}
  Scores = {0, 81}
  Assessors = {c1, c2}
  MaxAssessed = 3
  SkillCrashes = 1
  Goal <- MCGoals
  Device = {"phone", "desktop"}
  Reopens = FALSE
  MaxGoalOps = 4
  GoalCrashes = 1
  Milestones <- MCMilestones
  Weight <- MCWeight
  ProjectTasks = {"t"}
  MaxProjectOps = 5
  Hands = {c1, c2}
CHECK_DEADLOCK FALSE
SYMMETRY MCGrowthSymmetry
INVARIANTS RecallIsEarned LevelIsTrue 
PROPERTIES PathsAdvance
