SPECIFICATION ServingSpec
CONSTANTS
    r1 = r1
    r2 = r2
    r3 = r3
    a1 = a1
    a2 = a2
    proxy = proxy
    user = user
    email = email
    cloud = cloud
    local = local
    off = off
    Window = 3
    Limit = 1
    Slack = 2
    Ahead = 1
    Behind = 1
    FailOpen = TRUE
    MaxOutages = 1
    MaxLosses = 1
    MaxHits = 3
    Horizon = 5
    Reviews <- ThreeReviews
    TTL = 3
    SlotHorizon = 7
    Addresses <- ThreeAddresses
    Proxy = proxy
    Users <- OneUser
    Emails <- OneEmail
    Limits <- OneOfEach
    LimiterOpen = TRUE
    MaxRequests = 3
    MaxDown = 1
    MaxPolls = 3
    Providers <- ThreeProviders
    Unconfigured <- OneOff
    Statuses <- OnlyOk
    Fallback = local
    CacheTime = 2
    Timeout = 1
    HealthHorizon = 4
    tab1 = tab1
    tab2 = tab2
    Tabs <- TwoTabs
    Wait = 1
    Grace = 2
    AccessLife = 3
    Latency = 1
    MaxTokens = 4
    MaxLeaves = 1
    MaxEntries = 1
    RefreshHorizon = 4
    s1 = s1
    s2 = s2
    s3 = s3
    e1 = e1
    e2 = e2
    SignUps <- ThreeSignUps
    SignUpEmails <- TwoEmails
    MaxFailures = 1
SYMMETRY Symmetry
INVARIANTS
    ServingTypeOK
    WindowCapped
    NoEarlyRefusal
    SilenceFreesLeaks
    BudgetsKept
    CacheWorks
    NoTabSignedOut
    CookieUsable
    LiveTokensBounded
    SignedOutStaysOut
    SignUpWorks
PROPERTY ReserveCountsHolders
