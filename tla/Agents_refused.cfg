SPECIFICATION Spec
CONSTANTS
    owner = owner
    other = other
    a1 = a1
    a2 = a2
    k1 = k1
    k2 = k2
    k3 = k3
    r1 = r1
    r2 = r2
    live = live
    test = test
    Users <- TwoUsers
    Ids <- TwoIds
    Secrets <- ThreeSecrets
    Requests <- TwoRequests
    Prefixes <- LiveAndTest
    Asked <- LiveOnly
    Live = live
SYMMETRY Symmetry
INVARIANT NoCreationRefused
