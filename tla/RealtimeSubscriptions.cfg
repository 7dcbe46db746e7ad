SPECIFICATION FairSpec
CONSTANTS
    Codes = {1, 2}
    Protected = {1}
    Opening = {1}
    MaxCodes = 1
    ScreenSize = 1
    Changes = 2
    MaxFaults = 1
INVARIANTS TypeOK ActiveIsServedUnlessLate
PROPERTIES ProtectedGetsServed UnwantedGoes
