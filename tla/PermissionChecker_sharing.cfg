SPECIFICATION Spec
CONSTANTS
    c1 = c1
    c2 = c2
    alice = alice
    p = p
    q = q
    s = s
    None = None
    Default = Default
    Config = Config
    Checkers <- TwoCheckers
    Actors <- Alice
    Permissions <- TwoPermissions
    Scopes <- OneScope
    Defaults <- AliceMayP
    Configured <- AliceMayQ
    Inactive <- Nobody
SYMMETRY Symmetry
INVARIANT ResetRestoresUntouched
PROPERTY SharedOnlyIfNeverReplaced
