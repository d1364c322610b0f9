SPECIFICATION MCSpec
CONSTANTS
    outer = outer
    apart = apart
    inner = inner
    last = last
    Caller = {outer, inner, last, apart}
    Parent <- ParentOf
    Writer = {w}
    Statements = 2
    Wasm = TRUE
    Overlap = FALSE
    Nobody = Nobody
    Parts = {"transactions", "bytes"}
    Drivers = {"tauri", "node", "wasm", "capacitor"}
    MaxTxns = 2
    MaxSnapshots = 2
    MaxRestores = 2
    MaxFileFaults = 1
    MaxKills = 2
    MaxThrows = 2
    MaxFaults = 1
    MaxCloses = 1
    MaxCrashes = 1
CHECK_DEADLOCK FALSE
INVARIANTS  StorageIsSound
