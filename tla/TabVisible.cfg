CONSTANTS
    Peer = {bob}
    NoPeer = NoPeer
    MaxActs = 2
    MaxPushes = 2
SPECIFICATION Spec
PROPERTY ConversationVisible
CHECK_DEADLOCK FALSE
