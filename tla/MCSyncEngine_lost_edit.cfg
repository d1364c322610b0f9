SPECIFICATION Spec
CONSTANTS
    NoRow = NoRow
    NoBase = NoBase
    NoConflict = NoConflict
    phone = phone
    desktop = desktop
    task = task
    project = project
    title = title
    notes = notes
    Field <- TwoFields
    Status = title
    Completing = {}
    Device <- BothDevices
    Entity <- OneTask
    Critical = {}
    Parent <- NoParent
    Priority <- Priorities
    Editor <- OwnField
    Deleter = {}
    Choice = {}
    EditWindow <- AtRest
    MAX_ATTEMPTS = 6
    PageLimit = 9
    OneAtATime = FALSE
    MaxEdits = 4
    MaxFaults = 0
    MaxCrashes = 0
    MaxTorn = 0
    MaxChoices = 0
INVARIANTS
    NothingLost
CHECK_DEADLOCK FALSE
