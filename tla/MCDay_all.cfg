SPECIFICATION MCSpec
CONSTANTS
  a1 = a1
  a2 = a2
  e1 = e1
  e2 = e2
  e3 = e3
  Parts = {"planner", "tasks", "calendar"}
  DayEnd = 24
  Blocks <- MCBlocks
  MaxBlocks = 2
  Starts = {0, 5}
  Minutes = {1, 4, 6}
  MaxTasks = 3
  Buffer = 1
  FocusCap = 12
  ProtectedFree = 6
  BreakEvery = 6
  Task <- MCTask
  Attributes <- MCAttributes
  LastDay = 1
  MaxCount = 3
  MaxOps = 2
  MaxPlans = 2
  Overlap = FALSE
  Crashes = 1
  Event <- MCEvent
  DayMinutes = 10
  Hours <- MCHours
  CalendarDays = 2
  MinBlock = 2
  MinFree = 2
  MaxEdits = 3
CHECK_DEADLOCK FALSE
SYMMETRY MCSymmetry
INVARIANTS DayIsSound 
