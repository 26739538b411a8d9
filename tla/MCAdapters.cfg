\* One call of every adapter, against engines that answer or not.
CONSTANTS
    a1 = a1
    a2 = a2
    None = None
    Garbled = Garbled
    Accounts <- MCAccounts
    WorkOrders <- MCWorkOrders
    LeaseTtl = 1800
    MaxTime = 4000
    JekkoTimeout = 240
    JekkoDelay = 1
    MaxDetachedPolls = 3
    ChildTime = 3
    MaxBusy = 2
    BusyDelay = 1
    ZyalInterval = 10
    MaxPhases = 2
    MaxPhaseEvidence = 1
    JailgunTimeout = 4
    JailgunRequest = 2
    JailgunDelay = 1
    RetryDelay = 1
    JankuraiTimeout = 60
    JeryuTimeout = 120
SPECIFICATION FairAdapterSpec
\* The call has ended, and the engine too.
CHECK_DEADLOCK FALSE
INVARIANTS
    AdapterTypeOK
    EvidenceMeansDone
    ReportHonest
    ManifestRemoved
    StartedAtMostOnce
    EndsInTime
    AccountsAgree
PROPERTIES
    ExecuteEnds
