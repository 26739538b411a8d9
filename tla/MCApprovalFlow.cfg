\* Every interleaving of creating and answering two challenges over
\* two work orders, with interruptions between transactions.
CONSTANTS
    w1 = w1
    w2 = w2
    c1 = c1
    c2 = c2
    local = local
    telegram = telegram
    atHttp = atHttp
    inChat = inChat
    inGroup = inGroup
    Orders <- MCOrders
    Approvers <- MCApprovers
    Actors <- MCActors
    ApproverOf <- MCApproverOf
    Tokens <- MCTokens
    TTLs <- MCTTLs
    MaxTime = 2
SYMMETRY MCSymmetry
SPECIFICATION Spec
INVARIANTS
    TypeOK
    DecisionTrail
    SingleDecision
    DeadlineAgreement
PROPERTIES
    SpentTokenStays
    ImplementsGate
\* When every token is answered and the clock has reached its bound nothing
\* is left to do.
CHECK_DEADLOCK FALSE
