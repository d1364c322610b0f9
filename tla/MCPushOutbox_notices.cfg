SPECIFICATION MCFairSpec
CONSTANTS
    web = web
    phone = phone
    f1 = f1
    f2 = f2
    p1 = p1
    n1 = n1
    n2 = n2
    m1 = m1
    Device <- MCDevice
    Fcm <- MCFcm
    PersistentScheduler <- MCPersistent
    Flow <- MCFlow
    News <- MCNews
    PlanKey = {p1}
    UrgentPlan = {}
    Message = {m1}
    DailyBudget = 1
    QuietStart = 2
    QuietEnd = 1
    HoursPerDay = 3
    DEDUPE_WINDOW_HOURS = 1
    Lead = 1
    MaxHour = 4
    MaxReminders = 3
    MaxReloads = 1
    MaxSwitches = 1
    MaxCancels = 1
    newsDailyCap = 1
    MaxNotes = 2
    MaxPolls = 1
    MaxFetches = 4
    MaxLoops = 2
    MaxLost = 1
    MaxRestarts = 1
    MaxSubs = 1
    MaxThrows = 1
CHECK_DEADLOCK FALSE
  
PROPERTIES EventuallyTaken
