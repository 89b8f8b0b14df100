CONSTANTS
    c1 = c1
    c2 = c2
    t1 = t1
    Conn = {c1, c2}
    Other = {t1}
    Rude = {c1}
    Header = 2
    Limit = 1
    Lengths <- MCLengths
    MaxSends <- MCSends
    Garbage = Garbage
    NoConn = NoConn
    Nobody = Nobody
SPECIFICATION Spec
INVARIANT TypeOK
INVARIANT LimitKept
INVARIANT RestComes
INVARIANT WritersExclude
PROPERTY ChannelSpec
CHECK_DEADLOCK FALSE
