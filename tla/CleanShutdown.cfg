CONSTANTS
    Conn = {c1, c2}
    Room = 1
    Main = Main
    Watchdog = Watchdog
    NoConn = NoConn
    Nobody = Nobody
SPECIFICATION FairSpec
PROPERTY StopsOnSignal
CHECK_DEADLOCK FALSE
