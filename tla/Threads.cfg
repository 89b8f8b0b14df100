CONSTANTS
    Conn = {c1, c2}
    Room = 1
    Main = Main
    Watchdog = Watchdog
    NoConn = NoConn
    Nobody = Nobody
SPECIFICATION OrdinarySpec
INVARIANT TypeOK
INVARIANT NoWaitCycle
INVARIANT RegistryStall
INVARIANT AllJoined
PROPERTY Served
PROPERTY StopsOnSignal
CHECK_DEADLOCK FALSE
