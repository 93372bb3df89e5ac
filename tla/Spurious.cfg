SPECIFICATION IntrSpec
CONSTANTS
    Fault <- MCFault
    MaxFaults = 4
INVARIANT
    SpuriousIgnored
