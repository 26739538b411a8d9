\* Requests that ask for the default lifetime, on one approver's two tokens.
CONSTANTS
    w1 = w1
    w2 = w2
    c1 = c1
    c2 = c2
    local = local
    telegram = telegram
    atHttp = atHttp
    inChat = inChat
    inGroup = inGroup
    Orders <- MCOrders
    Approvers <- MCApprovers
    Actors <- MCActors
    ApproverOf <- MCApproverOf
    Tokens <- MCTokens
    TTLs <- RenewalTTLs
    MaxTime = 2

SPECIFICATION Spec
PROPERTY
    RenewalExtendsDeadline
CHECK_DEADLOCK FALSE
