SPECIFICATION FairSpec
CONSTANTS
    Texts = {t1}
    Paths = {p1}
    Torn = Torn
    N = 2
    PeerMayStall = FALSE
    ClientMayVanish = TRUE
    PowerMayFail = FALSE
INVARIANT TasksCanStep
PROPERTIES
    StatusAnswered
    
    SwitchCarriedOut
