SPECIFICATION Spec
CONSTANTS
    Me = me
    Others = {other}
    BatchLimit = 2
    PageSize = 1
    Marks = TRUE
    MaxNotes = 2
    MaxChanges = 1
    MaxFaults = 1
INVARIANTS TypeOK ViewIsComplete ReconnectReplays NothingIsReplayed
CHECK_DEADLOCK FALSE
