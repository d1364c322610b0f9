SPECIFICATION MCFairSpec
CONSTANTS
  t1 = t1
  t2 = t2
  t3 = t3
  i1 = i1
  i2 = i2
  stand = stand
  up = up
  g1 = g1
  g2 = g2
  s1 = s1
  s2 = s2
  m1 = m1
  m2 = m2
  Turn <- MCTurn
  Item <- MCItem
  Word <- MCWord
  Asked <- MCAsked
  MaxIterations = 2
  MaxBatch = 2
  MaxEdits = 1
  HistoryLimit = 4
  Call <- MCCall
  Budget = 2
  MaxCost = 2
  Chain = 2
  MaxNights = 1
  Saver <- MCSaver
  Content <- MCContent
  Weak <- MCWeak
  Decision <- MCDecision
  Parts = {"turns", "gateway", "memory", "packet", "calls"}
  MaxMemories = 2
  MaxDecisions = 1
  Budgets = {500, 1250, 1600}
  Intents = {"news", "plan_day"}
  Lengths = {60, 500}
  Extras = {60, 400}
  Failing = {"goals"}
  Threads <- MCThreads
  HistoryBudget = 1800
  MaxAsked = 2
  Configs <- MCConfigs
  Texts = 2
CHECK_DEADLOCK FALSE
INVARIANTS ActsAsApproved  CallsAreBounded
PROPERTIES MemoriesAreTrue TurnEnds AlwaysAnswered
