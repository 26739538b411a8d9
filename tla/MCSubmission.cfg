SPECIFICATION SubmitSpec

CONSTANTS
    l1 = l1
    l2 = l2
    s1 = s1
    s2 = s2
    s3 = s3
    sent = sent
    Loaders <- MCLoaders
    Seeds <- MCSeeds
    Requests <- MCRequests
    MaxFaults = 1
    None = None
    Garbled = Garbled
    Altered = Altered
    Refused = Refused

SYMMETRY Symmetry
CONSTRAINT TwoBatchesBounded

\* All requests have been served when it stops.
CHECK_DEADLOCK FALSE

INVARIANTS
    SubmitTypeOK
    SignersAgree
    TempsAccounted
    BatchIsPrefix
    OrdersWithinCard

PROPERTY ImplementsIntake
