SPECIFICATION MCSpec
CONSTANTS
    outer = outer
    apart = apart
    inner = inner
    last = last
    Caller = {outer, apart}
    Parent <- ParentOf
    Writer = {}
    Statements = 2
    Wasm = FALSE
    Overlap = TRUE
    Nobody = Nobody
    Parts = {"transactions"}
    Drivers = {"tauri", "node", "wasm", "capacitor"}
    MaxTxns = 2
    MaxSnapshots = 2
    MaxRestores = 2
    MaxFileFaults = 1
    MaxKills = 2
    MaxThrows = 1
    MaxFaults = 0
    MaxCloses = 0
    MaxCrashes = 0
INVARIANTS
    CommittedIsKept
CHECK_DEADLOCK FALSE
