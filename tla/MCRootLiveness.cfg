SPECIFICATION FairSpec
CONSTANTS
    pSpawn = pSpawn
    pUser = pUser
    gSpawn = gSpawn
    gUser = gUser
    gNext = gNext
    r1 = r1
    r2 = r2
    Path = {pSpawn}
    Gen = {gSpawn}
    PathOf <- LaunchedPath
    RootOf <- SharedRoot
    Root = {r1, r2}
    Kid = {}
    KidsOf <- UserKids
    Launched = {gSpawn}
    Handle = {h1, h2}
    NewName = {""}
    MaxEvictions = 1
    Request = {"quiesce"}
    NoGen = NoGen
    NoRoot = NoRoot
    NoHandle = NoHandle
PROPERTIES
    FailedSpawnDies
    GoneIsForgotten
    CloseEnds
CHECK_DEADLOCK FALSE
