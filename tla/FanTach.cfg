SPECIFICATION TachFairSpec
CONSTANTS
    Wrap = 8
    TACH_SAMPLE_TIME = 3
    MaxPulses = 4
INVARIANTS
    FullPeriod
    PulsesAccounted
PROPERTY SamplingGoesOn
