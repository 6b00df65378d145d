SPECIFICATION Spec
CONSTANTS
    Revisions = {good, bad}
    Defective = {bad}
    Shortcomings <- MCShortcomings
    RequiredChecks = {glaze, screen_reader}
    ScreenReaderChecks = {screen_reader}
    MaxDeploys = 1
    MaxOutages = 2
    MaxWork = 2
    MaxChanges = 4
    MaxAlerts = 3
INVARIANTS
    AcceptedCandidateWasExamined
    JudgedAsPinned
    RestoredFromTheNamedSnapshot
    AlertsTellWhatHappened
CHECK_DEADLOCK FALSE
