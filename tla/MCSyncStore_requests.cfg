SPECIFICATION Spec
CONSTANTS
    NoRow = NoRow
    phone = phone
    desktop = desktop
    task = task
    payload = payload
    Device <- MCDevice
    Entity <- MCEntity
    Value <- MCValue
    Sent <- MCSent
    MaxVersion = 2
    MaxFeed = 3
    MaxBatch = 2
    PageLimit = 1
    Overlap = FALSE
CHECK_DEADLOCK FALSE
INVARIANTS TypeOK FeedChain ReplayIsRefused FeedIsSound
PROPERTIES ImplementsVersionedStore
