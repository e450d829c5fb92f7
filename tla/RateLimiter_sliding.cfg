SPECIFICATION Spec
CONSTANTS
    login = login
    register = register
    NoEntry = NoEntry
    Keys <- TwoKeys
    MaxRequests = 2
    Window = 3
    Second = 2
    MaxTime = 6
    MaxCount = 3
INVARIANT SlidingWindow
