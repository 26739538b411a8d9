\* Three updates, two of anything that can be submitted, one fault.
CONSTANTS
    w1 = w1
    w2 = w2
    c1 = c1
    c2 = c2
    local = local
    alice = alice
    home = home
    group = group
    None = None
    Orders <- MCOrders
    Approvers <- MCApprovers
    Actors <- MCActors
    ApproverOf <- MCApproverOf
    Tokens <- MCTokens
    TTLs <- MCTTLs
    MaxTime = 1
    Users <- MCUsers
    Chats <- MCChats
    HttpActors <- MCHttpActors
    EnvFiles <- MCEnvFiles
    Messages <- MCMessages
    MaxUpdates = 3
    MaxFaults = 1
SYMMETRY MCSymmetry
SPECIFICATION BotSpec
INVARIANTS
    AllTypeOK
    HandledOnce
    NoneLost
    VoiceAnswersLastPrompt
    SingleDecision
PROPERTIES
    AnsweredByHolder
\* When everything that can be written has been handled nothing is left.
CHECK_DEADLOCK FALSE
