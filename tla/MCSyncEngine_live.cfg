SPECIFICATION FairSpec
CONSTANTS
    NoRow = NoRow
    NoBase = NoBase
    NoConflict = NoConflict
    phone = phone
    desktop = desktop
    task = task
    project = project
    title = title
    notes = notes
    Field <- TwoFields
    Status = title
    Completing = {}
    Device <- BothDevices
    Entity <- TaskAndProject
    Critical <- OneTask
    Parent <- NoParent
    Priority <- Priorities
    Editor <- FewFields
    Deleter <- PhoneDelete
    Choice <- AllChoices
    EditWindow <- AtRest
    MAX_ATTEMPTS = 6
    PageLimit = 1
    OneAtATime = FALSE
    MaxEdits = 2
    MaxFaults = 1
    MaxCrashes = 1
    MaxTorn = 1
    MaxChoices = 1
INVARIANTS
    InFlightIsSound 
PROPERTIES
    EventuallyQuiet
CHECK_DEADLOCK FALSE
