SPECIFICATION PartsSpec
CONSTANTS
    Requests = {r1, r2, r3}
    Processes = {p1, p2}
    Routes <- AllRoutes
    Bodies = {b1, b2}
    MaxCrashes = 1
    MaxRebinds = 1
    Definitions <- Pollings
    Retries <- RetryAfters
    Milli = 2
    Second = 2
    MaxInt = 15
    MaxAsks = 1
    Logins = {n1, n2, n3}
    Calls = {c1, c2}
    Keys = {h1, h2}
    Buckets = {o1, o2, o3, o4}
    MaxTokens = 3
    Passwords = {w1, w2}
    Limit = 2
    Window = 2
    MaxBuckets = 1
    Slots = 2
    Lifetime = 1
    ExtendAfter = 0
    Initial = {0, 1}
    MaxVersion = 2
    MaxPolls = 2
    Statuses = {"queued", "completed", "failed"}
    MaxProgress = 0
    MaxMishaps = 1
    Order <- ThreeChannels
    Fleets <- AllFleets
    Replies <- AllReplies
    MaxWeight = 2
    MaxPools = 2
    MaxTurns = 4
    MaxChanges = 1
    MaxRevision = 2
    Contents = {"x1", "x2"}
    Offers <- OneOrTwo
    Preset = "x1"
    Patterns = {"m", "*"}
    Precedences <- DefaultToo
    MaxBindings = 2
    Editors = {e1}
    Tasks = {u1}
    None = None
    r1 = r1
    r3 = r3
    p1 = p1
    b1 = b1
    n1 = n1
    h1 = h1
    w1 = w1
    w2 = w2
    c1 = c1
    e1 = e1
    k1 = k1
    k2 = k2
    k3 = k3
CHECK_DEADLOCK FALSE
INVARIANTS
    TypeOK
    OneSubmission
    TasksAreRemembered
    WaitAccounted
    DelayExact
    RequestsRouted
    TurnsFair
PROPERTIES
    AccountsKept
    CatalogKept
    LogAccounted
