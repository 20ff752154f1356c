SPECIFICATION Spec
CONSTANTS
    pSpawn = pSpawn
    pUser = pUser
    gSpawn = gSpawn
    gUser = gUser
    gNext = gNext
    r1 = r1
    r2 = r2
    Path = {pUser, pSpawn}
    Gen = {gSpawn, gUser}
    PathOf <- LaunchedPath
    RootOf <- SharedRoot
    Root = {r1, r2}
    Kid = {k}
    KidsOf <- UserKids
    Launched = {gSpawn}
    Handle = {h1, h2}
    NewName = {""}
    MaxEvictions = 1
    Request = {"rename"}
    NoGen = NoGen
    NoRoot = NoRoot
    NoHandle = NoHandle
SYMMETRY Symmetry
INVARIANTS
    OneSocketPerRoot
PROPERTIES
    RenameSticks
CHECK_DEADLOCK FALSE
