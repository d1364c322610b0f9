SPECIFICATION MCSpec
CONSTANTS
  Parts = {"sessions", "onboarding", "news", "snapshots", "reviews", "strategy"}
  d1 = d1
  d2 = d2
  c1 = c1
  c2 = c2
  Client <- MCClient
  Caller = {c1, c2}
  MaxTokens = 4
  MaxCalls = 3
  MaxFaults = 1
  MaxChanges = 1
  Fills <- MCFills
  Proposed <- MCProposed
  Domain <- MCDomain
  Unwritable = {"GOALS.in one word"}
  None = None
  Doubtful = {"GOALS.in one word", "SKILLS.current"}
  MaxMishaps = 1
  MaxQuestions = 5
  Sources <- MCSources
  Page <- MCPage
  Urgent = {"a", "b"}
  Reader = {"ann", "bob"}
  Starter = {"timer", "request"}
  MaxEnrich = 1
  KeptDays = 1
  LastNewsDay = 3
  MaxRefreshes = 2
  MaxNewsFaults = 1
  Owner = {"phone", "desktop"}
  UserDevice = {"phone"}
  Work = {"t"}
  NoRow = NoRow
  WeekLength = 2
  LastDate = 3
  LastTaking = 1
  StreakLimit = 4
  MaxWorkOps = 2
  MaxTakings = 3
  MaxProgressCrashes = 1
  Direction = {1, 2, 3, 4, 5}
  LifeGoal = {"g", "h"}
  LadderTitle = {"A", "B"}
  Horizons <- MCHorizons
  AtMost = 2
  MaxDirections = 3
  LadderCrashes = 1
INVARIANTS TokensAreSound DeviceIsWhole  NothingSaidIsLost NewsIsToldOnce 
PROPERTIES OthersAreLeftAlone
SYMMETRY MCServicesSymmetry
CHECK_DEADLOCK FALSE
