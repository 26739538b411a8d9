\* Without faults, every claim is settled and nothing starves.
CONSTANTS
    auto1 = auto1
    auto2 = auto2
    byHand = byHand
    unowned = unowned
    live = live
    c1 = c1
    local = local
    repo = repo
    elsewhere = elsewhere
    Orders <- ProgressOrders
    Payload <- ProgressPayload
    Manual <- ProgressManual
    Faults <- NoFaults
    Repos <- MCRepos
    Watched <- MCWatched
    Approvers <- MCApprovers
    Actors <- MCActors
    ApproverOf <- MCApproverOf
    Tokens <- MCTokens
    TTLs <- MCTTLs
    MaxCrashes = 0
    LeaseTTL = 0
    MaxTime = 1
SPECIFICATION FairLoopSpec
PROPERTIES
    LeasedSettles
    NoStarvation
