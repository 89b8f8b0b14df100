CONSTANTS
    c1 = c1
    c2 = c2
    c3 = c3
    alice = alice
    bob = bob
    Conn = {c1, c2, c3}
    Fd = {f1, f2}
    Name = {alice, bob}
    Addr = {a1, a2}
    Requests <- MessagingRequests
    MaxReads <- MessagingReads
    Sleepers = {}
    Resets = {c2, c3}
    Deaf = {}
    NoConn = NoConn
    NoFd = NoFd
    NoName = NoName
    NoAddr = NoAddr
    Unknown = Unknown
    Watchdog = Watchdog
    Nobody = Nobody
SPECIFICATION Spec
SYMMETRY Symmetry
INVARIANT RegistryConsistent
INVARIANT DescriptorOwned
INVARIANT WelcomeFirst
INVARIANT DmAddressee
INVARIANT DmConfirmed
INVARIANT InOrderOnce
INVARIANT StraysAreLate
PROPERTY DirectorySpec
CHECK_DEADLOCK FALSE
