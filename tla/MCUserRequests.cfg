SPECIFICATION MCSpec
CONSTANTS
    r1 = r1
    r2 = r2
    Requests = {r1, r2}
    Users = {1, 2}
    MaxNotes = 2
    MaxRequests = 4
    Tabs = {t1, t2, t3}
    MaxToggles = 5
SYMMETRY Symmetry
INVARIANTS AcknowledgementSticks DeletedStaysDeleted AnsweredAsAsked
PROPERTY OnlyOwnDeliveries
CHECK_DEADLOCK FALSE
