SPECIFICATION Spec
CONSTANTS
    c1 = c1
    c2 = c2
    proxy = proxy
    login = login
    loginSlash = loginSlash
    refresh = refresh
    ours = ours
    theirs = theirs
    alice = alice
    Alice = Alice
    bad = bad
    wide = wide
    name = name
    spaced = spaced
    blank = blank
    long = long
    short = short
    pass = pass
    sameStart = sameStart
    h1 = h1
    h2 = h2
    Star = Star
    None = None
    Addresses <- ThreeAddresses
    Clients <- TwoClients
    Proxies <- OneProxy
    Forged <- NothingOrAnother
    Paths <- ThreePaths
    Origins <- TwoOrigins
    MaxHops = 2
    Spellings <- FourSpellings
    Normal <- Lower
    Malformed <- OneBad
    Wide <- OneWide
    Names <- FourNames
    Trimmed <- Trim
    Blank <- OneBlank
    Refused <- OneLong
    Passwords <- ThreePasswords
    Weak <- OneShort
    Hash <- First72
INVARIANTS
    OneBucketPerClient
    CookiesOnlyForTheListed
    AccountsUsable
