SPECIFICATION LiveSpec
CONSTANTS
    s1 = s1
    s2 = s2
    Stream = {s1, s2}
    NoStream = NoStream
    RingCap = 2
    MailCap = 2
    MaxEvents = 2
    MaxTimeouts = 1
    PageCap = 1
INVARIANTS
    NoHole
    GapIsTrue
PROPERTIES
    CatchesUp
    PageShows
    Released
    ShutdownEnds
CHECK_DEADLOCK FALSE
