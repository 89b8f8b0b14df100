CONSTANTS
    Room = 1
    MaxAsks = 2
    MaxPushes = 2
SPECIFICATION FairSpec
INVARIANT TypeOK
INVARIANT NoFalseAlarm
INVARIANT ReaderEndsFirst
INVARIANT WindowRegistered
PROPERTY NeverStuck
PROPERTY SessionReleased
CHECK_DEADLOCK FALSE
