SPECIFICATION UniverseSpec

CONSTANTS
    o1 = o1
    o2 = o2
    None = None
    Orders <- MCOrders
    Mentions <- MCMentions
    BranchOf <- MCBranchOf
    Answers <- MCAnswers
    MaxTime = 5

INVARIANTS
    DegradationExplicit
    ShownWasTrue
    NodesFaithful
