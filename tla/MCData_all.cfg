SPECIFICATION MCSpec
CONSTANTS
  Parts = {"archive", "shelf", "cloud", "settings", "launch"}
  d1 = d1
  d2 = d2
  c1 = c1
  c2 = c2
  None = None
  Device = {d1, d2}
  Kinds <- MCKinds
  Days = {"mon"}
  MaxRows = 3
  MaxEdits = 1
  MaxDeletes = 1
  MaxImports = 1
  Never = None
  Daily = 2
  Weekly = 2
  Monthly = 1
  Week = 2
  Month = 4
  LastDay = 3
  MaxContent = 1
  MaxShelved = 4
  MaxReplaced = 1
  MaxShelfCrashes = 1
  Phone = {d1, d2}
  Nothing = Nothing
  MaxSaves = 2
  MaxRequests = 4
  MaxWipes = 1
  Client = {d1, d2}
  Caller = {c1, c2}
  Field = {"f", "g"}
  Choice = {0, 1}
  Odd = 9
  Absent = Absent
  MaxSets = 2
  MaxGets = 1
  MaxPulls = 1
  MaxReloads = 1
  Current = 2
  Preferences = 2
  Cell = {"path", "topic", "review", "task"}
  Keys <- MCKeys
  Loose = {"task"}
  Self = "self"
  Stranger = "stranger"
  Nowhere = Nowhere
  LastDate = 1
  MaxLaunches = 2
  MaxEngines = 3
CHECK_DEADLOCK FALSE
SYMMETRY MCDataSymmetry
INVARIANTS RotationIsFair CopyIsReadable SettingsAreKept 
PROPERTIES  OrphansAreWrittenDown
