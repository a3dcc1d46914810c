SPECIFICATION UplinkFairSpec
CONSTANTS
    MaxEvents = 3
    MaxSpoiled = 2
INVARIANTS
    ExecAfterAssociation
    SessionsFreed
    CallsFreed
    UplinkCanStep
PROPERTIES
    ConnectIsAtomic
    AssociatedThenExec
    LoginReturns
