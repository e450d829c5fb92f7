SPECIFICATION FairServiceSpec
CONSTANTS
    t1 = t1
    k1 = k1
    short = short
    r1 = r1
    p1 = p1
    p2 = p2
    p3 = p3
    None = None
    Tokens <- OneToken
    Keys <- OneKey
    BadCookies <- ShortCookie
    BadKeys <- Nothing
    Requests <- OneRequest
    Probes <- ThreeProbes
    Size = 2
    MaxLost = 2
INVARIANTS
    ServiceTypeOK
    NoFalse401
    GuardedHandlerHasActor
    SessionGoesFirst
    PublicNeverBlocked
    UnavailableHasCause
PROPERTIES
    ReadyIsTruthful
    ProbesAnswered
    Served
