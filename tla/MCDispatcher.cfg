\* Generation, dispatch and approval on one store, with store errors,
\* crashes and rebuilds at every point.
CONSTANTS
    auto1 = auto1
    auto2 = auto2
    byHand = byHand
    unowned = unowned
    live = live
    c1 = c1
    local = local
    repo = repo
    elsewhere = elsewhere
    Orders <- SafetyOrders
    Payload <- SafetyPayload
    Manual <- SafetyManual
    Faults <- AllFaults
    Repos <- MCRepos
    Watched <- MCWatched
    Approvers <- MCApprovers
    Actors <- MCActors
    ApproverOf <- MCApproverOf
    Tokens <- MCTokens
    TTLs <- MCTTLs
    MaxCrashes = 1
    LeaseTTL = 0
    MaxTime = 1
SYMMETRY MCSymmetry
CONSTRAINT CrashOrRebuildInTime
SPECIFICATION LoopSpec
INVARIANTS
    AllTypeOK
    LeaseOnRecord
    OneOpenPerRepo
    RunAtMostOnce
PROPERTIES
    HumanOrdersKeepTheGate
