SPECIFICATION FairSpec
CONSTANTS
    Texts = {t1}
    Paths = {p1}
    Torn = Torn
    N = 2
    PeerMayStall = FALSE
    ClientMayVanish = FALSE
    PowerMayFail = FALSE
PROPERTY ServerKeepsServing
