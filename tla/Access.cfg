\* Two tabs of a browser, two users, a restart; two sextants, two servers, a session two
\* tokens long, one kill; two address pools and two services; the command lines and keys that matter.  A browser that has used up
\* its sign-ins may have no step left.
SPECIFICATION AccessSpec
SYMMETRY Symmetry
CONSTANTS
    t1 = t1
    t2 = t2
    ann = ann
    bob = bob
    Tab = {t1, t2}
    User = {ann, bob}
    ScopedCluster <- MCScopedCluster
    StorageLayer <- MCStorage
    GroupsOf <- MCGroups
    GroupScopes <- MCScopes
    Stable = FALSE
    StateLife = 1
    SessionLife = 1
    MaxClock = 2
    MaxNonce = 3
    MaxStart = 1
    Nobody = Nobody
    NoCookie = NoCookie
    Process = {p1, p2}
    Server = {s1, s2}
    TokenLife = 1
    MaxSession = 1
    MaxNow = 2
    MaxGrant = 2
    MaxKill = 1
    NoServer = NoServer
    NoEntry = NoEntry
    NoFile = NoFile
    Torn = Torn
    v1 = v1
    v2 = v2
    Pool <- MCPool
    LbService = {v1, v2}
    Pinned = NoNamespace
    MaxMove = 2
    MaxMiss = 1
    NoNamespace = NoNamespace
    Waiting = Waiting
    Asked <- MCAsked
    MinKey = 32
INVARIANT OkIsEarned
INVARIANT CacheHolds
 
PROPERTY SignInsLand
 
CHECK_DEADLOCK FALSE
