CONSTANTS
    Peer = {bob}
    NoPeer = NoPeer
    MaxActs = 3
    MaxPushes = 2
SPECIFICATION Spec
INVARIANT TypeOK
INVARIANT ChoiceAgrees
 
CHECK_DEADLOCK FALSE
