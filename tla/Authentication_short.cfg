SPECIFICATION Spec
CONSTANTS
    t1 = t1
    k1 = k1
    short = short
    garbled = garbled
    r1 = r1
    r2 = r2
    None = None
    Tokens <- OneToken
    Keys <- OneKey
    BadCookies <- ShortCookie
    BadKeys <- GarbledKey
    Requests <- TwoRequests
INVARIANT UnavailableIsOutage
