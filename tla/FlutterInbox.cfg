SPECIFICATION FairSpec
CONSTANTS
    Me = me
    Others = {}
    BatchLimit = 2
    MaxNotes = 3
    MaxChanges = 1
    MaxTurns = 1
INVARIANTS NothingIsMissed RevocationStopsTheStream
PROPERTY EveryDeliveryIsGot
CHECK_DEADLOCK FALSE
