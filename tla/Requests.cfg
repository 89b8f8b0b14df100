CONSTANTS
    c1 = c1
    c2 = c2
    c3 = c3
    alice = alice
    bob = bob
    Conn = {c1}
    Fd = {f1}
    Name = {alice}
    Addr = {a1}
    Requests <- AllRequests
    MaxReads <- AllReads
    Sleepers = {c1}
    Resets = {c1}
    Deaf = {c1}
    NoConn = NoConn
    NoFd = NoFd
    NoName = NoName
    NoAddr = NoAddr
    Unknown = Unknown
    Watchdog = Watchdog
    Nobody = Nobody
SPECIFICATION FairSpec
INVARIANT TypeOK
INVARIANT OneAnswer
INVARIANT RegisteredFirst
INVARIANT RememberedOrInvisible
INVARIANT NoticesBalance
PROPERTY ChoiceKept
PROPERTY DepartedReleased
PROPERTY IdleMarked
CHECK_DEADLOCK FALSE
