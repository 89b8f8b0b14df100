CONSTANTS
    Peer = {bob}
    NoPeer = NoPeer
    MaxActs = 3
    MaxPushes = 1
SPECIFICATION Spec
INVARIANT StatusMirrored
CHECK_DEADLOCK FALSE
