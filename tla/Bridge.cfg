SPECIFICATION Spec
CONSTANTS
    Texts = {t1, t2}
    Paths = {p1, p2}
    Torn = Torn
    N = 2
    PeerMayStall = TRUE
    ClientMayVanish = TRUE
    PowerMayFail = TRUE
SYMMETRY Interchangeable
INVARIANTS
    FilesExclusive
    ServedIsRequested
    HandlesConsistent
    LibraryBalanced
PROPERTIES
    MachinesAreObjects
    PendingTransferKept
    UploadIsChannel
    ScpIsChannel
    StatusIsChannel
    ReportedAsChecked
    StrandedForGood
