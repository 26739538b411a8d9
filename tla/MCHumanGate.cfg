\* One microtask and one approver who asks to be consulted while it runs.
CONSTANTS
    auto1 = auto1
    auto2 = auto2
    byHand = byHand
    unowned = unowned
    live = live
    c1 = c1
    local = local
    repo = repo
    elsewhere = elsewhere
    Orders <- OneOrder
    Payload <- OnePayload
    Manual <- NoOrders
    Faults <- NoFaults
    Repos <- MCRepos
    Watched <- MCWatched
    Approvers <- MCApprovers
    Actors <- MCActors
    ApproverOf <- MCApproverOf
    Tokens <- MCTokens
    TTLs <- MCTTLs
    MaxCrashes = 0
    LeaseTTL = 0
    MaxTime = 1
SPECIFICATION LoopSpec
PROPERTY
    AwaitingLeftAlone
