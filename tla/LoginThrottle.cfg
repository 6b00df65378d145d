SPECIFICATION Spec
CONSTANTS
    Attempts = {r1, r2}
    Accounts = {alice, bob}
    Source = source
    SourceLimit = 3
    AccountLimit = 2
    Window = 2
    Cooldown = 2
    Ttl = 2
    MaxTime = 4
INVARIANTS OvershootIsInFlight AnsweredGuessesAreBounded
PROPERTIES BlockOutlastsArrivals UnrelatedHistoryIsKept
CHECK_DEADLOCK FALSE
