SPECIFICATION Spec
CONSTANTS
    NoRow = NoRow
    NoBase = NoBase
    NoConflict = NoConflict
    phone = phone
    desktop = desktop
    task = task
    title = title
    notes = notes
CHECK_DEADLOCK FALSE
INVARIANTS  Converged
