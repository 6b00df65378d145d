SPECIFICATION FairSpec
CONSTANTS
    Me = me
    Others = {}
    BatchLimit = 1
    PageSize = 1
    Marks = FALSE
    MaxNotes = 2
    MaxChanges = 1
    MaxFaults = 1
PROPERTIES EveryDeliveryIsShown CountsConverge RevokedClientSignsOut
CHECK_DEADLOCK FALSE
