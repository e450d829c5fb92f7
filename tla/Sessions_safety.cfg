SPECIFICATION Spec
CONSTANTS
    alice = alice
    bob = bob
    s1 = s1
    s2 = s2
    s3 = s3
    r1 = r1
    r2 = r2
    Actors <- TwoActors
    Ids <- ThreeIds
    Requests <- TwoRequests
    Durations <- LoginDurations
    DefaultDuration = 2
    TouchInterval = 1
    MaxTime = 2
SYMMETRY Symmetry
INVARIANTS
    TypeOK
    RowsAsMinted
    SuccessorAfterRevocation
    OnlyStaleReturn
PROPERTIES
    SpentStaysSpent
    DeadLoginStaysDead
    OneStepAtATime
CHECK_DEADLOCK FALSE
