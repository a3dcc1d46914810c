SPECIFICATION Spec
CONSTANTS
    Texts = {t1, t2}
    Paths = {p1}
    Torn = Torn
    N = 2
    PeerMayStall = FALSE
    ClientMayVanish = FALSE
    PowerMayFail = FALSE
PROPERTY ErasedOnlyWhenDone
