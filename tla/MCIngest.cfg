SPECIFICATION MCSpec
CONSTANTS
    p1 = p1
    p2 = p2
    s1 = s1
    k1 = k1
    m1 = m1
    m2 = m2
    c1 = c1
    u1 = u1
    NoKey = NoKey
    Nobody = Nobody
    Producers = {p1, p2}
    Sources = {s1}
    MayPublish <- MCMayPublish
    Keys = {k1}
    Payloads = {m1, m2}
    ChannelOf <- MCChannelOf
    Channels = {c1}
    Users = {u1}
    MaxFaults = 1
INVARIANTS TypeOK OneNotificationPerKey AnswersAgree
PROPERTIES ImplementsLog EveryRequestIsAnswered
CHECK_DEADLOCK FALSE
