SPECIFICATION UplinkSpec
CONSTANTS
    MaxEvents = 3
    MaxSpoiled = 1
INVARIANT AddressKnownAtDial
