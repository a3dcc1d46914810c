SPECIFICATION Spec
CONSTANTS
    Texts = {t1}
    Paths = {p1, p2}
    Torn = Torn
    N = 2
    PeerMayStall = FALSE
    ClientMayVanish = FALSE
    PowerMayFail = FALSE
INVARIANT TransferCompleteBeforeAnswer
