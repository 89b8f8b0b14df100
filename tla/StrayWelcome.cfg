CONSTANTS
    Room = 1
    MaxAsks = 0
    MaxPushes = 1
SPECIFICATION Spec
INVARIANT RefusedNoWindow
CHECK_DEADLOCK FALSE
