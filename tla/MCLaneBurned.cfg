\* Two threads on the lanes direct, tor1, tor2, tor3, without tor_loop.
SPECIFICATION Spec
CONSTANTS
    Number = {n1, n2}
    Thread = {t1, t2}
    NoThread = NoThread
    Lanes = 4
    TorLoop = FALSE
    MaxCycles = 50
    WithProfile = FALSE
PROPERTIES
    LaneLeftOnlyAfterItsCaptcha
