SPECIFICATION Spec
CONSTANTS
    alice = alice
    Absent = Absent
    p1 = p1
    p2 = p2
    p3 = p3
    t1 = t1
    t2 = t2
    s1 = s1
    s2 = s2
    r1 = r1
    r2 = r2
    Users <- OneUser
    Passwords <- ThreePasswords
    TokenIds <- TwoTokens
    SessionIds <- TwoSessions
    Requests <- TwoRequests
    TokenLife = 0
    MaxTime = 1
SYMMETRY Symmetry
INVARIANT ResetPasswordSticks
CHECK_DEADLOCK FALSE
