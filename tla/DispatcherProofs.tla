--------------------------- MODULE DispatcherProofs ---------------------------
(***************************************************************************)
(* Theorems about Dispatcher, for every instance of its constants: with    *)
(* all faults, crashes and rebuilds it allows.                             *)
(*                                                                         *)
(* The loop writes over rows of the table of work orders that an approval  *)
(* request has in hand, so the table does not follow ApprovalFlow.  The    *)
(* log does: with the last logged status in place of the stored one every  *)
(* step is one of ApprovalFlow, or none.  LogLink says how far the two     *)
(* statuses are from each other, and the approval machinery is taken from  *)
(* ApprovalFlowProofs, read over the log.                                  *)
(***************************************************************************)
EXTENDS Dispatcher, TLAPS

Flow == INSTANCE ApprovalFlowProofs WITH orders <- logged

(* What the log may say of an order, given what its row says.              *)
LogLink ==
    /\ orders \in [Orders -> { "Absent" } \cup Status]
    /\ \A w \in Orders :
         /\ logged[w] \in { "Absent", "Submitted", "AwaitingApproval", "Approved", "Failed" }
         /\ orders[w] = "Absent" <=> logged[w] = "Absent"
         /\ orders[w] \in { "Submitted", "Leased" } => logged[w] = "Submitted"
         /\ orders[w] \in { "AwaitingApproval", "Approved" } => logged[w] = orders[w]

Loops ==
    [pc : { "generate", "sweep" }, repos : SUBSET Watched, todo : SUBSET Orders] \cup
    [pc : { "submit" }, repo : Watched, repos : SUBSET Watched, todo : SUBSET Orders]

Tasks ==
    { NoTask } \cup
    [stage : { "claimed" }, order : Orders, expires : Int] \cup
    [stage : { "running" }, order : Orders] \cup
    [stage : { "done" }, order : Orders, result : Results]

LoopTyped ==
    /\ leased \subseteq Orders
    /\ loop \in Loops
    /\ task \in Tasks
    /\ runs \in [Orders -> { "never", "once", "again" }]
    /\ rebuilt \in BOOLEAN
    /\ crashes \in 0 .. MaxCrashes

(* What is in flight was claimed from the table.                           *)
TaskKnown == task # NoTask => orders[task.order] # "Absent"

TablesInv == Flow!Inv /\ LogLink /\ LoopTyped /\ TaskKnown

-----------------------------------------------------------------------------
(* How the requests of ApprovalFlow move orders. *)

Moved(w) ==
    \/ orders[w] = "Absent" /\ w \in Manual /\ orders'[w] = "Submitted"
    \/ orders[w] \in RequireApprovalFrom /\ orders'[w] = "AwaitingApproval"
    \/ orders[w] = "AwaitingApproval" /\ orders'[w] \in { "Approved", "Failed" }

LEMMA RequestMoves ==
    ASSUME LogLink, Request \/ RequestGoesOn
    PROVE  /\ DOMAIN orders' = Orders
           /\ \A w \in Orders : orders'[w] = orders[w] \/ Moved(w)
           /\ \A w \in Orders :
                logged'[w] = IF orders'[w] = orders[w] THEN logged[w] ELSE orders'[w]
           /\ UNCHANGED << leased, loop, task, runs, rebuilt, crashes >>
<1>1. /\ LogOrders
      /\ UNCHANGED << leased, loop, task, runs, rebuilt, crashes >>
  BY DEF Request, RequestGoesOn
<1>2. /\ DOMAIN orders' = Orders
      /\ \A w \in Orders : orders'[w] = orders[w] \/ Moved(w)
  <2>1. CASE \E w \in Manual : Submit(w)
    BY <2>1, ManualAssumption DEF Submit, Moved, LogLink
  <2>2. CASE \E w \in Orders, actor \in Actors, ttl \in TTLs : OpenGate(w, actor, ttl)
    BY <2>2 DEF OpenGate, Moved, LogLink
  <2>3. CASE DecideApply
    BY <2>3 DEF DecideApply, Applicable, ApplyApprovalFrom, DecidedStatus, Moved, LogLink
  <2>4. CASE UNCHANGED orders
    BY <2>4 DEF LogLink
  <2> QED
    BY <2>1, <2>2, <2>3, <2>4 DEF Request, RequestGoesOn, Create, JoinGate, Decide, DecideExpired,
       DecideLookup, Interrupt, Tick, HandlerStep, CreateRecordApproval, CreateRecordChallenge,
       DecideRefused, DecideRecordApproval, DecideRecordChallenge
<1> QED BY <1>1, <1>2 DEF LogOrders

(* The loop's own steps, and what they do to the tables.                   *)
LEMMA LoopMoves ==
    ASSUME LogLink, LoopTyped, LoopStep \/ LoopFault
    PROVE  /\ UNCHANGED << now, approvals, challenges, handler >>
           /\ \/ UNCHANGED << orders, logged >>
              \/ GenerateSubmit
              \/ \E w \in loop.todo : Claim(w)
              \/ Record
BY DEF LoopStep, LoopFault, GenerateSkip, GenerateCheck, GenerateSubmit, StartSweep, SkipUnrouted,
       Claim, ClaimRefused, Execute, Finish, Record, EndSweep, GenerateFails, ListFails,
       ClaimTorn, RecordFails, vars

-----------------------------------------------------------------------------
(* The log follows ApprovalFlow. *)

LEMMA SameLog ==
    ASSUME Flow!Inv, LogOrders, orders' = orders
    PROVE  logged' = logged
BY DEF LogOrders, Flow!Inv, Flow!TypeOK

LEMMA LogFollowsRequest ==
    ASSUME Flow!Inv, LogLink, Request \/ RequestGoesOn
    PROVE  Flow!Next
<1>1. LogOrders
  BY DEF Request, RequestGoesOn
<1>2. logged \in [Orders -> { "Absent" } \cup Status]
  BY DEF Flow!Inv, Flow!TypeOK, Flow!Status, Status
<1>3. ASSUME NEW w \in Manual, Submit(w) PROVE Flow!Next
  <2>1. w \in Orders /\ logged[w] = "Absent"
    BY <1>3, ManualAssumption DEF Submit, LogLink
  <2>2. logged' = [logged EXCEPT ![w] = "Submitted"]
    BY <1>1, <1>2, <1>3, <2>1 DEF LogOrders, Submit, LogLink
  <2>3. Flow!Submit(w)
    BY <1>3, <2>1, <2>2 DEF Submit, Flow!Submit, Idle, Flow!Idle
  <2> QED BY <2>1, <2>3 DEF Flow!Next
<1>4. ASSUME NEW w \in Orders, NEW actor \in Actors, NEW ttl \in TTLs, OpenGate(w, actor, ttl)
      PROVE  Flow!Next
  <2>1. logged[w] = "Submitted"
    BY <1>4 DEF OpenGate, RequireApprovalFrom, LogLink
  <2>2. logged' = [logged EXCEPT ![w] = "AwaitingApproval"]
    BY <1>1, <1>2, <1>4, <2>1 DEF LogOrders, OpenGate, RequireApprovalFrom, LogLink
  <2>3. Flow!OpenGate(w, actor, ttl)
    BY <1>4, <2>1, <2>2 DEF OpenGate, Flow!OpenGate, Idle, Flow!Idle, TokenLeft, Flow!TokenLeft,
       NoChallenge, Flow!NoChallenge, Flow!RequireApprovalFrom
  <2> QED BY <2>3 DEF Flow!Next, Flow!Create
<1>5. ASSUME NEW w \in Orders, NEW actor \in Actors, NEW ttl \in TTLs, NEW asked \in 0 .. now,
             JoinGate(w, actor, ttl, asked)
      PROVE  Flow!Next
  <2>1. logged[w] = "AwaitingApproval" /\ logged' = logged
    BY <1>1, <1>5, SameLog DEF JoinGate, LogLink
  <2>2. Flow!JoinGate(w, actor, ttl, asked)
    BY <1>5, <2>1 DEF JoinGate, Flow!JoinGate, Idle, Flow!Idle, TokenLeft, Flow!TokenLeft,
       NoChallenge, Flow!NoChallenge, Decisions, Flow!Decisions, HasApproval, Flow!HasApproval
  <2> QED BY <2>2 DEF Flow!Next, Flow!Create
<1>6. ASSUME NEW c \in Tokens, NEW actor \in Actors, DecideExpired(c, actor)
      PROVE  Flow!Next
  <2>1. logged' = logged
    BY <1>1, <1>6, SameLog DEF DecideExpired
  <2>2. Flow!DecideExpired(c, actor)
    BY <1>6, <2>1 DEF DecideExpired, Flow!DecideExpired, Idle, Flow!Idle, NoChallenge,
       Flow!NoChallenge, ChallengeAnswer, Flow!ChallengeAnswer, Lapsed, Flow!Lapsed
  <2> QED BY <2>2 DEF Flow!Next, Flow!Decide
<1>7. ASSUME NEW c \in Tokens, NEW actor \in Actors, NEW decision \in Decisions,
             DecideLookup(c, actor, decision)
      PROVE  Flow!Next
  <2>1. logged' = logged
    BY <1>1, <1>7, SameLog DEF DecideLookup
  <2>2. Flow!DecideLookup(c, actor, decision)
    BY <1>7, <2>1 DEF DecideLookup, Flow!DecideLookup, Idle, Flow!Idle, NoChallenge,
       Flow!NoChallenge, ChallengeAnswer, Flow!ChallengeAnswer, Lapsed, Flow!Lapsed
  <2> QED BY <2>2 DEF Flow!Next, Flow!Decide, Decisions, Flow!Decisions
<1>8. CASE DecideApply
  <2> DEFINE w == challenges[handler.token].order
  <2>1. w \in Orders
    BY <1>8, Flow!TokenInHand, ApproverOfAssumption, TTLsAssumption, MaxTimeAssumption
       DEF DecideApply
  <2>2. /\ orders[w] = "AwaitingApproval"
        /\ ~ Lapsed(ApprovalOf(handler.token).expires, now)
        /\ ApprovalOf(handler.token).decision # "Absent"
        /\ orders' = [orders EXCEPT ![w] = DecidedStatus(handler.decision)]
    BY <1>8 DEF DecideApply, Applicable, ApplyApprovalFrom
  <2>3. Flow!Applicable(handler.token)
    BY <2>1, <2>2 DEF Flow!Applicable, LogLink, Flow!ApprovalOf, ApprovalOf, Lapsed, Flow!Lapsed,
       Flow!ApplyApprovalFrom
  <2>4. DecidedStatus(handler.decision) = Flow!DecidedStatus(handler.decision)
        /\ DecidedStatus(handler.decision) \in { "Approved", "Failed" }
    BY DEF DecidedStatus, Flow!DecidedStatus
  <2> HIDE DEF w
  <2>5. logged[w] = "AwaitingApproval"
    BY <2>1, <2>2 DEF LogLink
  <2>6. logged' = [logged EXCEPT ![w] = DecidedStatus(handler.decision)]
    BY <1>1, <1>2, <2>1, <2>2, <2>4, <2>5 DEF LogOrders, LogLink
  <2>7. Flow!DecideApply
    BY <1>8, <2>3, <2>4, <2>6 DEF DecideApply, Flow!DecideApply, w
  <2> QED BY <2>7 DEF Flow!Next, Flow!HandlerStep
<1>9. CASE CreateRecordApproval \/ CreateRecordChallenge
  <2>1. logged' = logged
    BY <1>1, <1>9, SameLog DEF CreateRecordApproval, CreateRecordChallenge
  <2>2. Flow!CreateRecordApproval \/ Flow!CreateRecordChallenge
    BY <1>9, <2>1 DEF CreateRecordApproval, CreateRecordChallenge, Flow!CreateRecordApproval,
       Flow!CreateRecordChallenge, Idle, Flow!Idle, NoChallenge, Flow!NoChallenge
  <2> QED BY <2>2 DEF Flow!Next, Flow!HandlerStep
<1>10. CASE DecideRecordApproval \/ DecideRecordChallenge
  <2>1. logged' = logged
    BY <1>1, <1>10, SameLog DEF DecideRecordApproval, DecideRecordChallenge
  <2>2. Flow!DecideRecordApproval \/ Flow!DecideRecordChallenge
    BY <1>10, <2>1 DEF DecideRecordApproval, DecideRecordChallenge, Flow!DecideRecordApproval,
       Flow!DecideRecordChallenge, Idle, Flow!Idle
  <2> QED BY <2>2 DEF Flow!Next, Flow!HandlerStep
<1>11. CASE DecideRefused \/ Interrupt
  <2>1. /\ handler # Idle /\ handler' = Idle
        /\ UNCHANGED << now, orders, approvals, challenges >>
    BY <1>11 DEF DecideRefused, Interrupt, Idle
  <2>2. logged' = logged
    BY <1>1, <2>1, SameLog
  <2>3. Flow!Interrupt
    BY <2>1, <2>2 DEF Flow!Interrupt, Idle, Flow!Idle
  <2> QED BY <2>3 DEF Flow!Next
<1>12. CASE Tick
  <2>1. logged' = logged
    BY <1>1, <1>12, SameLog DEF Tick
  <2>2. Flow!Tick
    BY <1>12, <2>1 DEF Tick, Flow!Tick
  <2> QED BY <2>2 DEF Flow!Next
<1> QED
  BY <1>3, <1>4, <1>5, <1>6, <1>7, <1>8, <1>9, <1>10, <1>11, <1>12
     DEF Request, RequestGoesOn, Create, Decide, HandlerStep

LEMMA LogStep ==
    ASSUME TablesInv, [LoopNext]_allVars
    PROVE  [Flow!Next]_Flow!vars
<1>1. CASE Request \/ RequestGoesOn
  BY <1>1, LogFollowsRequest DEF TablesInv
<1>2. CASE UNCHANGED << now, logged, approvals, challenges, handler >>
  BY <1>2 DEF Flow!vars
<1>3. CASE GenerateSubmit
  <2>1. PICK w \in Orders : /\ orders[w] = "Absent"
                            /\ logged' = [logged EXCEPT ![w] = "Submitted"]
                            /\ handler = Idle
                            /\ UNCHANGED << now, approvals, challenges, handler >>
    BY <1>3 DEF GenerateSubmit, Unused
  <2>2. Flow!Submit(w)
    BY <2>1 DEF Flow!Submit, Idle, Flow!Idle, TablesInv, LogLink
  <2> QED BY <2>2 DEF Flow!Next
<1>4. CASE LoopStep \/ LoopFault
  <2>1. GenerateSubmit \/ UNCHANGED << now, logged, approvals, challenges, handler >>
    BY <1>4, LoopMoves DEF TablesInv, Claim, Record
  <2> QED BY <1>2, <1>3, <2>1
<1>5. CASE Rebuild \/ UNCHANGED allVars
  BY <1>2, <1>5 DEF Rebuild, allVars
<1>6. CASE Crash
  BY <1>6 DEF Crash, Flow!vars, Flow!Next, Flow!Interrupt, Idle, Flow!Idle
<1> QED BY <1>1, <1>4, <1>5, <1>6 DEF LoopNext

-----------------------------------------------------------------------------
(* The invariant of the tables. *)

LEMMA TablesInit == LoopInit => TablesInv
<1> SUFFICES ASSUME LoopInit PROVE TablesInv
  OBVIOUS
<1>1. Flow!Init
  BY DEF LoopInit, Init, Flow!Init, Flow!Idle, Flow!NoApproval, Flow!NoChallenge, Idle,
     NoApproval, NoChallenge
<1>2. Flow!Inv
  BY <1>1, Flow!InvInit, ApproverOfAssumption, TTLsAssumption, MaxTimeAssumption
<1>3. LogLink
  BY DEF LoopInit, Init, LogLink
<1>4. LoopTyped
  <2>1. LoopStart \in Loops /\ NoTask \in Tasks
    BY DEF LoopStart, Loops, Tasks
  <2>2. crashes \in 0 .. MaxCrashes /\ leased \subseteq Orders
    BY MaxCrashesAssumption DEF LoopInit
  <2>3. rebuilt \in BOOLEAN
    BY DEF LoopInit
  <2>4. runs \in [Orders -> { "never", "once", "again" }]
    BY DEF LoopInit
  <2> QED BY <2>1, <2>2, <2>3, <2>4 DEF LoopInit, LoopTyped
<1>5. TaskKnown
  BY DEF LoopInit, TaskKnown
<1> QED BY <1>2, <1>3, <1>4, <1>5 DEF TablesInv

LEMMA LoopTypedStep ==
    ASSUME LoopTyped, TablesInv, [LoopNext]_allVars
    PROVE  LoopTyped'
<1> USE DEF LoopTyped
<1>1. CASE UNCHANGED << leased, loop, task, runs, rebuilt, crashes >>
  BY <1>1
<1>2. LoopStart \in Loops
  BY DEF LoopStart, Loops
<1>3. CASE GenerateSkip \/ ListFails
  <2>1. /\ loop \in [pc : { "generate", "sweep" }, repos : SUBSET Watched, todo : SUBSET Orders]
        /\ \/ \E repo \in loop.repos : loop' = [loop EXCEPT !.repos = @ \ { repo }]
           \/ loop' = LoopStart
        /\ UNCHANGED << leased, task, runs, rebuilt, crashes >>
    BY <1>3 DEF GenerateSkip, ListFails, Loops
  <2>2. loop' \in Loops
    BY <1>2, <2>1 DEF Loops
  <2> QED BY <2>1, <2>2
<1>4. CASE GenerateCheck
  BY <1>4 DEF GenerateCheck, Loops
<1>5. CASE GenerateSubmit \/ GenerateFails
  BY <1>5 DEF GenerateSubmit, GenerateFails, Loops
<1>6. CASE StartSweep
  <2>1. { w \in Orders : AutoDispatchable(w) } \in SUBSET Orders
    OBVIOUS
  <2> QED BY <1>6, <2>1 DEF StartSweep, Loops
<1>7. CASE \E w \in loop.todo : SkipUnrouted(w)
  <2>1. /\ loop \in [pc : { "generate", "sweep" }, repos : SUBSET Watched, todo : SUBSET Orders]
        /\ \E w \in loop.todo : loop' = [loop EXCEPT !.todo = @ \ { w }]
        /\ UNCHANGED << leased, task, runs, rebuilt, crashes >>
    BY <1>7 DEF SkipUnrouted, Sweeping, Loops
  <2>2. loop' \in Loops
    BY <2>1 DEF Loops
  <2> QED BY <2>1, <2>2
<1>8. CASE \E w \in loop.todo : Claim(w)
  <2>1. PICK w \in loop.todo : Claim(w)
    BY <1>8
  <2>2. w \in Orders /\ now + LeaseTTL \in Int
    <3>1. now \in 0 .. MaxTime
      BY DEF TablesInv, Flow!Inv, Flow!TypeOK
    <3>2. now \in Int
      BY <3>1, MaxTimeAssumption
    <3> QED BY <2>1, <3>2, LeaseTTLAssumption DEF Loops
  <2>3. loop' \in Loops
    <3>1. /\ loop \in [pc : { "generate", "sweep" }, repos : SUBSET Watched, todo : SUBSET Orders]
          /\ loop' = [loop EXCEPT !.todo = @ \ { w }]
      BY <2>1 DEF Claim, Sweeping, Loops
    <3> QED BY <3>1 DEF Loops
  <2>4. task' \in Tasks
    BY <2>1, <2>2 DEF Claim, Tasks
  <2> QED BY <2>1, <2>2, <2>3, <2>4 DEF Claim
<1>9. CASE \E w \in loop.todo : ClaimRefused(w)
  BY <1>2, <1>9 DEF ClaimRefused
<1>10. CASE Execute
  <2>1. task.order \in Orders
    BY <1>10 DEF Execute, Tasks, NoTask
  <2>2. task' \in Tasks
    BY <1>10, <2>1 DEF Execute, Tasks, Results
  <2> QED BY <1>10, <2>1, <2>2 DEF Execute
<1>11. CASE Finish
  <2>1. task.order \in Orders
    BY <1>11 DEF Finish, Tasks, NoTask
  <2> QED BY <1>11, <2>1 DEF Finish, Tasks
<1>12. CASE Record \/ RecordFails \/ EndSweep
  BY <1>2, <1>12 DEF Record, RecordFails, EndSweep, Tasks
<1>13. CASE Rebuild
  BY <1>13 DEF Rebuild
<1>14. CASE Crash
  BY <1>2, <1>14, MaxCrashesAssumption DEF Crash, Tasks
<1>15. CASE \E w \in loop.todo : ClaimTorn(w)
  <2>1. PICK w \in loop.todo : ClaimTorn(w)
    BY <1>15
  <2>2. w \in Orders
    BY <2>1 DEF Loops
  <2>3. leased' \in { leased, leased \cup { w } }
    BY <2>1 DEF ClaimTorn
  <2>4. crashes' \in 0 .. MaxCrashes
    BY <2>1, MaxCrashesAssumption DEF ClaimTorn
  <2> QED BY <1>2, <2>1, <2>2, <2>3, <2>4 DEF ClaimTorn
<1> QED
  BY <1>1, <1>3, <1>4, <1>5, <1>6, <1>7, <1>8, <1>9, <1>10, <1>11, <1>12, <1>13, <1>14,
     <1>15 DEF LoopNext, LoopStep, LoopFault, Request, RequestGoesOn, allVars

(* Who is in flight changes with a claim and with the end of a task.       *)
LEMMA TaskMoves ==
    ASSUME LoopTyped, [LoopNext]_allVars, task' # NoTask
    PROVE  \/ \E w \in loop.todo : Claim(w) /\ task'.order = w
           \/ task # NoTask /\ task'.order = task.order
<1>1. CASE \E w \in loop.todo : Claim(w)
  <2>1. PICK w \in loop.todo : Claim(w)
    BY <1>1
  <2>2. task'.order = w
    BY <2>1 DEF Claim
  <2> QED BY <2>1, <2>2
<1>2. CASE Execute \/ Finish
  BY <1>2 DEF Execute, Finish, NoTask
<1>3. CASE UNCHANGED task
  BY <1>3
<1> QED
  BY <1>1, <1>2, <1>3 DEF LoopNext, LoopStep, LoopFault, GenerateSkip, GenerateCheck,
     GenerateSubmit, GenerateFails, ListFails, StartSweep, SkipUnrouted, ClaimRefused, ClaimTorn,
     Record, RecordFails, EndSweep, Crash, Request, RequestGoesOn, Rebuild, allVars

(* Every step moves orders in one of these ways.                           *)
LEMMA OrderMoves ==
    ASSUME TablesInv, [LoopNext]_allVars
    PROVE  \/ Request \/ RequestGoesOn
           \/ GenerateSubmit
           \/ \E w \in loop.todo : Claim(w)
           \/ Record
           \/ Rebuild
           \/ UNCHANGED << orders, logged >>
BY LoopMoves DEF TablesInv, LoopNext, Crash, allVars

LEMMA LogLinkStep ==
    ASSUME TablesInv, [LoopNext]_allVars
    PROVE  LogLink' /\ \A w \in Orders : orders[w] # "Absent" => orders'[w] # "Absent"
<1> USE DEF TablesInv, LogLink
<1>1. logged \in [Orders -> { "Absent" } \cup Status]
  BY DEF Flow!Inv, Flow!TypeOK, Flow!Status, Status
<1>2. CASE Request \/ RequestGoesOn
  <2>1. /\ DOMAIN orders' = Orders
        /\ \A w \in Orders : orders'[w] = orders[w] \/ Moved(w)
        /\ \A w \in Orders :
             logged'[w] = IF orders'[w] = orders[w] THEN logged[w] ELSE orders'[w]
    BY <1>2, RequestMoves
  <2>2. orders' \in [Orders -> { "Absent" } \cup Status]
    <3>1. orders' = [w \in Orders |-> orders'[w]]
      BY <1>2 DEF Request, RequestGoesOn, Submit, Create, OpenGate, JoinGate, Decide,
         DecideExpired, DecideLookup, Interrupt, Tick, HandlerStep, CreateRecordApproval,
         CreateRecordChallenge, DecideApply, DecideRefused, DecideRecordApproval,
         DecideRecordChallenge
    <3> QED BY <2>1, <3>1 DEF Moved, Status
  <2> QED BY <2>1, <2>2 DEF Moved, RequireApprovalFrom
<1>3. CASE GenerateSubmit
  BY <1>1, <1>3 DEF GenerateSubmit, Unused, Status
<1>4. CASE \E w \in loop.todo : Claim(w)
  <2>1. PICK w \in loop.todo : Claim(w)
    BY <1>4
  <2>2. /\ orders[w] = "Submitted" /\ logged' = logged
        /\ orders' = [orders EXCEPT ![w] = "Leased"]
    BY <2>1 DEF Claim, LeaseFrom
  <2> QED BY <2>2 DEF Status
<1>5. CASE Record
  <2>1. task.order \in Orders /\ orders[task.order] # "Absent"
    BY <1>5 DEF Record, LoopTyped, Tasks, TaskKnown, NoTask
  <2> QED BY <1>5, <2>1 DEF Record, Status
<1>6. CASE Rebuild
  BY <1>1, <1>6 DEF Rebuild
<1>7. CASE UNCHANGED << orders, logged >>
  BY <1>7
<1> QED BY <1>2, <1>3, <1>4, <1>5, <1>6, <1>7, OrderMoves

LEMMA TablesStep ==
    ASSUME TablesInv, [LoopNext]_allVars
    PROVE  TablesInv'
<1>1. Flow!Inv'
  BY LogStep, Flow!InvStep, ApproverOfAssumption, TTLsAssumption, MaxTimeAssumption DEF TablesInv
<1>2. LoopTyped'
  BY LoopTypedStep DEF TablesInv
<1>3. TaskKnown'
  <2> SUFFICES ASSUME task' # NoTask PROVE orders'[task'.order] # "Absent"
    BY DEF TaskKnown
  <2>1. CASE \E w \in loop.todo : Claim(w) /\ task'.order = w
    <3>1. loop.todo \subseteq Orders
      BY DEF TablesInv, LoopTyped, Loops
    <3> QED BY <2>1, <3>1 DEF Claim, TablesInv, LogLink
  <2>2. CASE task # NoTask /\ task'.order = task.order
    <3>1. task.order \in Orders
      BY <2>2 DEF TablesInv, LoopTyped, Tasks
    <3> QED BY <2>2, <3>1, LogLinkStep DEF TablesInv, TaskKnown
  <2> QED BY <2>1, <2>2, TaskMoves DEF TablesInv
<1> QED BY <1>1, <1>2, <1>3, LogLinkStep DEF TablesInv

LEMMA TablesHold == LoopSpec => []TablesInv
BY TablesInit, TablesStep, PTL DEF LoopSpec

(* What the log says of orders, with approvals and challenges, follows     *)
(* ApprovalFlow whatever sweeps, crashes and rebuilds do, and so does all  *)
(* that is proved of ApprovalFlow: the decision of an order is never lost  *)
(* and never taken twice (dispatch_microtasks_once, replay_projection).    *)
THEOREM LogFollowsFlow == LoopSpec => Flow!Spec /\ []Flow!SingleDecision
<1>1. LoopInit => Flow!Init
  BY DEF LoopInit, Init, Flow!Init, Flow!Idle, Flow!NoApproval, Flow!NoChallenge, Idle,
     NoApproval, NoChallenge
<1>2. TablesInv /\ [LoopNext]_allVars => [Flow!Next]_Flow!vars
  BY LogStep
<1>3. TablesInv => Flow!SingleDecision
  BY DEF TablesInv, Flow!Inv
<1> QED BY <1>1, <1>2, <1>3, TablesHold, PTL DEF LoopSpec, Flow!Spec

(* Tables, log and the loop's memory hold what they may hold.              *)
THEOREM LoopTypesHold == LoopSpec => []AllTypeOK
<1>1. TablesInv => AllTypeOK
  <2> SUFFICES ASSUME TablesInv PROVE AllTypeOK
    OBVIOUS
  <2>1. TypeOK
    BY DEF TablesInv, Flow!Inv, Flow!TypeOK, TypeOK, LogLink, Flow!Status, Status,
       Flow!NoApproval, NoApproval, Flow!ApprovalRow, ApprovalRow, Flow!Deadlines, Deadlines,
       Flow!NoChallenge, NoChallenge, Flow!ChallengeRow, ChallengeRow, Flow!Idle, Idle,
       Flow!CreateLocals, CreateLocals, Flow!DecideLocals, DecideLocals, Flow!Decisions,
       Decisions, Flow!ChallengeStates, ChallengeStates
  <2>2. logged \in [Orders -> { "Absent" } \cup Status]
    BY DEF TablesInv, Flow!Inv, Flow!TypeOK, Flow!Status, Status
  <2>3. LoopTypeOK
    BY <2>2 DEF TablesInv, LoopTyped, Loops, Tasks, LoopTypeOK
  <2> QED BY <2>1, <2>3 DEF AllTypeOK
<1> QED BY <1>1, TablesHold, PTL

-----------------------------------------------------------------------------
(* Leases. *)

(* A leased order has its lease on record, whatever is interrupted or      *)
(* rebuilt (claim_work_order).                                             *)
THEOREM LeasesOnRecord == LoopSpec => []LeaseOnRecord
<1>1. LoopInit => LeaseOnRecord
  BY DEF LoopInit, Init, LeaseOnRecord
<1>2. ASSUME TablesInv, LeaseOnRecord, [LoopNext]_allVars
      PROVE  LeaseOnRecord'
  <2>1. leased \subseteq leased'
    BY <1>2 DEF LoopNext, Request, RequestGoesOn, LoopStep, LoopFault, GenerateSkip,
       GenerateCheck, GenerateSubmit, GenerateFails, ListFails, StartSweep, SkipUnrouted, Claim,
       ClaimRefused, ClaimTorn, Execute, Finish, Record, RecordFails, EndSweep, Rebuild, Crash,
       allVars
  <2>2. ASSUME NEW w \in Orders, orders'[w] = "Leased"
        PROVE  orders[w] = "Leased" \/ w \in leased'
    <3>1. CASE Request \/ RequestGoesOn
      <4>1. orders'[w] = orders[w] \/ Moved(w)
        BY <1>2, <3>1, RequestMoves DEF TablesInv
      <4> QED BY <2>2, <4>1 DEF Moved
    <3>2. CASE \E v \in loop.todo : Claim(v)
      BY <1>2, <2>2, <3>2 DEF Claim, TablesInv, LogLink
    <3>3. CASE GenerateSubmit \/ Record
      BY <1>2, <2>2, <3>3 DEF GenerateSubmit, Record, TablesInv, LogLink
    <3>4. CASE Rebuild
      BY <1>2, <2>2, <3>4 DEF Rebuild, TablesInv, LogLink
    <3> QED BY <1>2, <2>2, <3>1, <3>2, <3>3, <3>4, OrderMoves
  <2> QED BY <1>2, <2>1, <2>2 DEF LeaseOnRecord
<1> QED BY <1>1, <1>2, TablesHold, PTL DEF LoopSpec

(* What is in flight or has run has left Submitted, unless a rebuild took  *)
(* it back.                                                                *)
RunInv ==
    ~ rebuilt =>
        /\ \A w \in Orders :
             runs[w] # "never" \/ (task # NoTask /\ task.order = w) =>
                 orders[w] \notin { "Absent", "Submitted" }
        /\ task.stage = "claimed" => runs[task.order] = "never"
        /\ \A w \in Orders : runs[w] # "again"

(* No step but a rebuild takes an order back to Submitted.                 *)
LEMMA NeverSubmittedAgain ==
    ASSUME TablesInv, [LoopNext]_allVars, ~ rebuilt', NEW w \in Orders,
           orders[w] \notin { "Absent", "Submitted" }
    PROVE  orders'[w] \notin { "Absent", "Submitted" }
<1>1. CASE Request \/ RequestGoesOn
  <2>1. orders'[w] = orders[w] \/ Moved(w)
    BY <1>1, RequestMoves DEF TablesInv
  <2> QED BY <2>1 DEF Moved
<1>2. CASE GenerateSubmit \/ Record \/ \E v \in loop.todo : Claim(v)
  BY <1>2 DEF GenerateSubmit, Unused, Record, Claim, TablesInv, LogLink
<1>3. CASE Rebuild
  BY <1>3 DEF Rebuild
<1> QED BY <1>1, <1>2, <1>3, OrderMoves

LEMMA RunStep ==
    ASSUME TablesInv, RunInv, [LoopNext]_allVars
    PROVE  RunInv'
<1> SUFFICES ASSUME ~ rebuilt' PROVE RunInv'
  BY DEF RunInv
<1>1. ~ rebuilt
  BY DEF LoopNext, Request, RequestGoesOn, LoopStep, LoopFault, GenerateSkip, GenerateCheck,
     GenerateSubmit, GenerateFails, ListFails, StartSweep, SkipUnrouted, Claim, ClaimRefused,
     ClaimTorn, Execute, Finish, Record, RecordFails, EndSweep, Rebuild, Crash, allVars
<1>2. CASE Execute
  <2>1. /\ task.stage = "claimed" /\ task.order \in Orders /\ task # NoTask
        /\ task' # NoTask /\ task'.order = task.order /\ task'.stage # "claimed"
        /\ \A w \in Orders : w # task.order => runs'[w] = runs[w]
        /\ runs'[task.order] \in { "never", "once" }
        /\ UNCHANGED orders
    BY <1>1, <1>2 DEF Execute, TablesInv, LoopTyped, Tasks, NoTask, RunInv, vars
  <2> QED BY <1>1, <2>1 DEF RunInv
<1>3. CASE \E v \in loop.todo : Claim(v)
  <2>1. PICK v \in loop.todo : Claim(v)
    BY <1>3
  <2>2. v \in Orders /\ orders[v] = "Submitted"
    BY <2>1 DEF Claim, LeaseFrom, TablesInv, LoopTyped, Loops
  <2>3. /\ task'.order = v /\ runs' = runs /\ orders'[v] = "Leased"
        /\ \A w \in Orders : w # v => orders'[w] = orders[w]
    BY <2>1, <2>2 DEF Claim, TablesInv, LogLink
  <2> QED BY <1>1, <2>2, <2>3 DEF RunInv
<1>4. CASE runs' = runs /\ task' = NoTask
  BY <1>1, <1>4, NeverSubmittedAgain DEF RunInv, NoTask
<1>5. CASE runs' = runs /\ task' = task
  BY <1>1, <1>5, NeverSubmittedAgain DEF RunInv
<1>6. CASE Finish
  BY <1>1, <1>6, NeverSubmittedAgain DEF Finish, RunInv, NoTask
<1> QED
  BY <1>2, <1>3, <1>4, <1>5, <1>6 DEF LoopNext, Request, RequestGoesOn, LoopStep, LoopFault,
     GenerateSkip, GenerateCheck, GenerateSubmit, GenerateFails, ListFails, StartSweep,
     SkipUnrouted, ClaimRefused, ClaimTorn, Record, RecordFails, EndSweep, Rebuild, Crash, allVars

(* As long as the tables have not been rebuilt no order is run twice       *)
(* (claim_work_order).                                                     *)
THEOREM OrdersRunOnce == LoopSpec => []RunAtMostOnce
<1>1. LoopInit => RunInv
  BY DEF LoopInit, Init, RunInv, NoTask
<1>2. RunInv => RunAtMostOnce
  BY DEF RunInv, RunAtMostOnce
<1> QED BY <1>1, <1>2, RunStep, TablesHold, PTL DEF LoopSpec

-----------------------------------------------------------------------------
(* One open microtask per repository. *)

(* Between the check and the submission of a microtask its repository      *)
(* stays free: no request submits one for the loop.                        *)
RepoInv ==
    ~ rebuilt =>
        /\ \A v, w \in Orders \ Manual :
             Open(v) /\ Open(w) /\ Payload[v].repo = Payload[w].repo => v = w
        /\ loop.pc = "submit" =>
             \A w \in Orders \ Manual : Payload[w].repo = loop.repo => ~ Open(w)

(* Only the loop opens orders of its own.                                  *)
LEMMA OnlySubmissionOpens ==
    ASSUME TablesInv, [LoopNext]_allVars, ~ rebuilt', ~ GenerateSubmit,
           NEW w \in Orders \ Manual, Open(w)'
    PROVE  Open(w)
<1>1. CASE Request \/ RequestGoesOn
  <2>1. orders'[w] = orders[w] \/ Moved(w)
    BY <1>1, RequestMoves DEF TablesInv
  <2> QED BY <2>1 DEF Moved, Open, Terminal, RequireApprovalFrom
<1>2. CASE Record
  BY <1>2 DEF Record, Open, Terminal, TablesInv, LogLink
<1>3. CASE \E v \in loop.todo : Claim(v)
  BY <1>3 DEF Claim, Open, Terminal, LeaseFrom, TablesInv, LogLink
<1>4. CASE Rebuild
  BY <1>4 DEF Rebuild
<1>5. CASE UNCHANGED orders
  BY <1>5 DEF Open
<1> QED BY <1>1, <1>2, <1>3, <1>4, <1>5, OrderMoves

LEMMA RepoStep ==
    ASSUME TablesInv, RepoInv, [LoopNext]_allVars
    PROVE  RepoInv'
<1> SUFFICES ASSUME ~ rebuilt' PROVE RepoInv'
  BY DEF RepoInv
<1>1. ~ rebuilt
  BY DEF LoopNext, Request, RequestGoesOn, LoopStep, LoopFault, GenerateSkip, GenerateCheck,
     GenerateSubmit, GenerateFails, ListFails, StartSweep, SkipUnrouted, Claim, ClaimRefused,
     ClaimTorn, Execute, Finish, Record, RecordFails, EndSweep, Rebuild, Crash, allVars
<1>2. CASE GenerateSubmit
  <2>1. PICK u \in Unused(loop.repo) : orders' = [orders EXCEPT ![u] = "Submitted"]
    BY <1>2 DEF GenerateSubmit
  <2>2. /\ loop.pc = "submit" /\ loop'.pc = "generate"
        /\ u \in Orders \ Manual /\ Payload[u].repo = loop.repo
        /\ \A w \in Orders : w # u => orders'[w] = orders[w]
    BY <1>2, <2>1 DEF GenerateSubmit, Unused, TablesInv, LogLink
  <2>3. ASSUME NEW w \in Orders \ Manual, w # u, Open(w)'
        PROVE  Payload[w].repo # Payload[u].repo /\ Open(w)
    BY <1>1, <2>2, <2>3 DEF RepoInv, Open
  <2> QED BY <1>1, <2>2, <2>3 DEF RepoInv
<1>3. CASE ~ GenerateSubmit
  <2>1. \A w \in Orders \ Manual : Open(w)' => Open(w)
    BY <1>3, OnlySubmissionOpens
  <2>2. ASSUME loop'.pc = "submit", NEW w \in Orders \ Manual, Payload[w].repo = loop'.repo
        PROVE  ~ Open(w)
    <3>1. CASE GenerateCheck
      <4>1. PICK repo \in loop.repos : ~ HasOpenMicrotask(repo) /\ loop'.repo = repo
        BY <3>1 DEF GenerateCheck
      <4> QED BY <2>2, <4>1, GeneratedAssumption DEF HasOpenMicrotask
    <3>2. CASE loop' = loop
      BY <1>1, <2>2, <3>2 DEF RepoInv
    <3>3. CASE GenerateSkip \/ ListFails
      <4>1. loop'.pc = "generate"
        BY <3>3 DEF GenerateSkip, ListFails, LoopStart, TablesInv, LoopTyped, Loops
      <4> QED BY <2>2, <4>1
    <3>4. CASE \E v \in loop.todo : SkipUnrouted(v) \/ Claim(v)
      <4>1. loop'.pc = "sweep"
        BY <3>4 DEF SkipUnrouted, Claim, Sweeping, TablesInv, LoopTyped, Loops
      <4> QED BY <2>2, <4>1
    <3>5. CASE loop'.pc \in { "generate", "sweep" }
      BY <2>2, <3>5
    <3> QED
      BY <1>3, <3>1, <3>2, <3>3, <3>4, <3>5 DEF LoopNext, Request, RequestGoesOn, LoopStep,
         LoopFault, GenerateFails, ListFails, StartSweep, ClaimRefused, ClaimTorn, Execute,
         Finish, Record, RecordFails, EndSweep, Rebuild, Crash, LoopStart, allVars
  <2> QED BY <1>1, <2>1, <2>2 DEF RepoInv
<1> QED BY <1>2, <1>3

(* The loop never keeps two microtasks of its own open for one repository  *)
(* (generate_microtask_if_absent).                                         *)
THEOREM OneMicrotaskPerRepo == LoopSpec => []OneOpenPerRepo
<1>1. LoopInit => RepoInv
  BY DEF LoopInit, Init, RepoInv, Open, LoopStart
<1>2. RepoInv => OneOpenPerRepo
  BY DEF RepoInv, OneOpenPerRepo
<1> QED BY <1>1, <1>2, RepoStep, TablesHold, PTL DEF LoopSpec

-----------------------------------------------------------------------------
(* Orders that wait for a person. *)

(* The loop never has one in its list or in flight, and the table says of  *)
(* it what the log says.                                                   *)
HumanInv ==
    \A w \in HumanOrders :
        /\ orders[w] = logged[w]
        /\ w \notin loop.todo
        /\ task # NoTask => task.order # w

LEMMA HumanStep ==
    ASSUME TablesInv, HumanInv, [LoopNext]_allVars
    PROVE  HumanInv'
<1> SUFFICES ASSUME NEW w \in HumanOrders
             PROVE  /\ orders'[w] = logged'[w]
                    /\ w \notin loop'.todo
                    /\ task' # NoTask => task'.order # w
  BY DEF HumanInv
<1>1. w \in Orders /\ ~ EvidenceOnly(w)
  BY DEF HumanOrders, EvidenceOnly
<1>2. orders[w] = logged[w] /\ w \notin loop.todo /\ (task # NoTask => task.order # w)
  BY DEF HumanInv
<1>3. w \notin loop'.todo
  <2>1. CASE loop'.todo \subseteq loop.todo
    BY <1>2, <2>1
  <2>2. CASE StartSweep
    BY <1>1, <2>2 DEF StartSweep, AutoDispatchable
  <2>3. CASE \/ GenerateSkip \/ ListFails
             \/ \E v \in loop.todo : SkipUnrouted(v) \/ Claim(v)
    <3>1. loop'.todo \subseteq loop.todo
      BY <2>3 DEF GenerateSkip, ListFails, LoopStart, SkipUnrouted, Claim, TablesInv, LoopTyped,
         Loops
    <3> QED BY <1>2, <3>1
  <2> QED
    BY <2>1, <2>2, <2>3 DEF LoopNext, Request, RequestGoesOn, LoopStep, LoopFault, GenerateCheck,
       GenerateSubmit, GenerateFails, ListFails, ClaimRefused, ClaimTorn, Execute, Finish, Record,
       RecordFails, EndSweep, Rebuild, Crash, LoopStart, allVars
<1>4. task' # NoTask => task'.order # w
  BY <1>2, TaskMoves DEF TablesInv
<1>5. orders'[w] = logged'[w]
  <2>1. CASE Request \/ RequestGoesOn
    BY <1>1, <1>2, <2>1, RequestMoves DEF TablesInv
  <2>2. CASE GenerateSubmit
    <3>1. PICK u \in Orders : /\ orders' = [orders EXCEPT ![u] = "Submitted"]
                              /\ logged' = [logged EXCEPT ![u] = "Submitted"]
      BY <2>2 DEF GenerateSubmit, Unused
    <3> QED BY <1>1, <1>2, <3>1 DEF TablesInv, LogLink, Flow!Inv, Flow!TypeOK
  <2>3. CASE \E v \in loop.todo : Claim(v)
    BY <1>1, <1>2, <2>3 DEF Claim, TablesInv, LogLink
  <2>4. CASE Record
    BY <1>1, <1>2, <2>4 DEF Record, NoTask, TablesInv, LogLink
  <2>5. CASE Rebuild \/ UNCHANGED << orders, logged >>
    BY <1>2, <2>5 DEF Rebuild
  <2> QED BY <2>1, <2>2, <2>3, <2>4, <2>5, OrderMoves
<1> QED BY <1>3, <1>4, <1>5

(* The gate of some orders is what the gate of all says of them.           *)
LEMMA HumanGateStep ==
    ASSUME TablesInv, HumanInv, HumanInv', [Flow!Gate!Next]_Flow!Gate!gateVars
    PROVE  [HumanGate!Next]_HumanGate!gateVars
<1> DEFINE all == [w \in Orders |-> Flow!GateOf(logged[w])]
           few == [w \in HumanOrders |-> GateOf(orders[w])]
           rows == { x \in WindowRows : x[1] \in HumanOrders }
<1>1. HumanOrders \subseteq Orders
  BY DEF HumanOrders
<1>2. /\ \A w \in HumanOrders : few[w] = all[w]
      /\ \A w \in HumanOrders : few'[w] = all'[w]
  BY <1>1 DEF HumanInv, GateOf, Flow!GateOf
<1>3. Flow!WindowRows = WindowRows /\ Flow!WindowRows' = WindowRows'
  BY DEF Flow!WindowRows, WindowRows, Flow!HasApproval, HasApproval
<1>4. Flow!Deadlines = Deadlines
  BY DEF Flow!Deadlines, Deadlines
<1>5. /\ DOMAIN few = HumanOrders /\ DOMAIN few' = HumanOrders /\ DOMAIN all = Orders
      /\ few = [w \in HumanOrders |-> few[w]] /\ few' = [w \in HumanOrders |-> few'[w]]
  OBVIOUS
<1> HIDE DEF all, few
<1>6. ASSUME NEW w \in Orders, Flow!Gate!Open(w)
      PROVE  [HumanGate!Next]_HumanGate!gateVars
  <2>1. /\ all[w] = "shut" /\ all' = [all EXCEPT ![w] = "open"]
        /\ now' = now /\ WindowRows' = WindowRows
    BY <1>3, <1>6 DEF Flow!Gate!Open, all
  <2>2. CASE w \in HumanOrders
    <3>1. few[w] = "shut" /\ few' = [few EXCEPT ![w] = "open"]
      BY <1>1, <1>2, <1>5, <2>1, <2>2
    <3>2. HumanGate!Open(w)
      BY <2>1, <3>1 DEF HumanGate!Open, few
    <3> QED BY <2>2, <3>2 DEF HumanGate!Next
  <2>3. CASE w \notin HumanOrders
    <3>1. few' = few
      BY <1>1, <1>2, <1>5, <2>1, <2>3
    <3> QED BY <2>1, <3>1 DEF HumanGate!gateVars, few
  <2> QED BY <2>2, <2>3
<1>7. ASSUME NEW w \in Orders, NEW a \in Approvers, Flow!Gate!Grant(w, a)
      PROVE  [HumanGate!Next]_HumanGate!gateVars
  <2>1. /\ all[w] = "open" /\ all' = all /\ now' = now
        /\ ~ \E x \in WindowRows : x[1] = w /\ x[2] = a
        /\ \E e \in Deadlines : WindowRows' = WindowRows \cup { << w, a, e >> }
    BY <1>3, <1>4, <1>7 DEF Flow!Gate!Grant, all
  <2>2. few' = few
    BY <1>1, <1>2, <1>5, <2>1
  <2>3. CASE w \in HumanOrders
    <3>1. few[w] = "open" /\ \E e \in Deadlines : rows' = rows \cup { << w, a, e >> }
      BY <1>2, <2>1, <2>3
    <3>2. ~ \E x \in rows : x[1] = w /\ x[2] = a
      BY <2>1
    <3>3. HumanGate!Grant(w, a)
      BY <2>1, <2>2, <3>1, <3>2 DEF HumanGate!Grant, few
    <3> QED BY <2>3, <3>3 DEF HumanGate!Next
  <2>4. CASE w \notin HumanOrders
    <3>1. rows' = rows
      BY <2>1, <2>4
    <3> QED BY <2>1, <2>2, <3>1 DEF HumanGate!gateVars, few
  <2> QED BY <2>3, <2>4
<1>8. ASSUME NEW w \in Orders, NEW verdict \in { "granted", "refused" },
             Flow!Gate!Decide(w, verdict)
      PROVE  [HumanGate!Next]_HumanGate!gateVars
  <2>1. /\ all[w] = "open" /\ all' = [all EXCEPT ![w] = verdict]
        /\ \E x \in WindowRows : x[1] = w /\ now =< x[3]
        /\ now' = now /\ WindowRows' = WindowRows
    BY <1>3, <1>8 DEF Flow!Gate!Decide, all
  <2>2. CASE w \in HumanOrders
    <3>1. few[w] = "open" /\ few' = [few EXCEPT ![w] = verdict]
      BY <1>1, <1>2, <1>5, <2>1, <2>2
    <3>2. \E x \in rows : x[1] = w /\ now =< x[3]
      BY <2>1, <2>2
    <3>3. HumanGate!Decide(w, verdict)
      BY <2>1, <3>1, <3>2 DEF HumanGate!Decide, few
    <3> QED BY <2>2, <3>3 DEF HumanGate!Next
  <2>3. CASE w \notin HumanOrders
    <3>1. few' = few
      BY <1>1, <1>2, <1>5, <2>1, <2>3
    <3> QED BY <2>1, <3>1 DEF HumanGate!gateVars, few
  <2> QED BY <2>2, <2>3
<1>9. CASE Flow!Gate!Tick \/ UNCHANGED Flow!Gate!gateVars
  <2>1. /\ all' = all /\ WindowRows' = WindowRows
        /\ now' = now + 1 \/ now' = now
    BY <1>3, <1>9 DEF Flow!Gate!Tick, Flow!Gate!gateVars, all
  <2>2. few' = few
    BY <1>1, <1>2, <1>5, <2>1
  <2> QED BY <2>1, <2>2 DEF HumanGate!Next, HumanGate!Tick, HumanGate!gateVars, few
<1> QED BY <1>4, <1>6, <1>7, <1>8, <1>9 DEF Flow!Gate!Next

(* An order that is no evidence-only, non-live microtask goes through the  *)
(* approval gate and nothing else, for every number of sweeps, crashes,    *)
(* failures and rebuilds (is_auto_dispatchable).                           *)
THEOREM HumanOrdersAreGated == LoopSpec => HumanOrdersKeepTheGate
<1>1. LoopInit => HumanInv
  BY DEF LoopInit, HumanInv, LoopStart
<1>2. LoopInit => HumanGate!Init
  <2> SUFFICES ASSUME LoopInit PROVE HumanGate!Init
    OBVIOUS
  <2>1. \A w \in HumanOrders : GateOf(orders[w]) = "shut"
    BY DEF LoopInit, Init, GateOf, HumanOrders
  <2>2. WindowRows = {}
    BY DEF LoopInit, Init, WindowRows, HasApproval, NoApproval
  <2> QED BY <2>1, <2>2 DEF HumanGate!Init, LoopInit, Init
<1>3. ASSUME TablesInv, HumanInv, [LoopNext]_allVars
      PROVE  HumanInv' /\ [HumanGate!Next]_HumanGate!gateVars
  <2>1. HumanInv'
    BY <1>3, HumanStep
  <2>2. [Flow!Gate!Next]_Flow!Gate!gateVars
    BY <1>3, LogStep, Flow!GateStep, ApproverOfAssumption, TTLsAssumption, MaxTimeAssumption
       DEF TablesInv
  <2> QED BY <1>3, <2>1, <2>2, HumanGateStep
<1> QED
  BY <1>1, <1>2, <1>3, TablesHold, PTL DEF LoopSpec, HumanOrdersKeepTheGate, HumanGate!Spec
(* No human order was ever leased or run.                                  *)
Untouched == \A w \in HumanOrders : w \notin leased /\ runs[w] = "never"

LEMMA UntouchedStep ==
    ASSUME TablesInv, HumanInv, Untouched, [LoopNext]_allVars
    PROVE  Untouched'
<1> SUFFICES ASSUME NEW w \in HumanOrders
             PROVE  w \notin leased' /\ runs'[w] = "never"
  BY DEF Untouched
<1>1. w \notin leased /\ runs[w] = "never"
  BY DEF Untouched
<1>2. CASE Execute
  <2>1. task.order # w
    BY <1>2 DEF HumanInv, Execute, NoTask
  <2>2. runs'[w] = runs[w]
    BY <1>2, <2>1 DEF Execute, TablesInv, LoopTyped, HumanOrders
  <2> QED BY <1>1, <1>2, <2>2 DEF Execute
<1>3. CASE \E v \in loop.todo : Claim(v) \/ ClaimTorn(v)
  BY <1>1, <1>3 DEF HumanInv, Claim, ClaimTorn
<1>4. CASE UNCHANGED << leased, runs >>
  BY <1>1, <1>4
<1> QED
  BY <1>2, <1>3, <1>4 DEF LoopNext, Request, RequestGoesOn, LoopStep, LoopFault, GenerateSkip,
     GenerateCheck, GenerateSubmit, GenerateFails, ListFails, StartSweep, SkipUnrouted,
     ClaimRefused, Finish, Record, RecordFails, EndSweep, Rebuild, Crash, allVars

(* No adapter ever runs an order that waits for a person, and none is ever *)
(* leased, for whatever lapses, crashes, failures and rebuilds there are:  *)
(* is_auto_dispatchable keeps it from the list, and claim_work_order is    *)
(* called for what is in the list only.                                    *)
THEOREM HumanOrdersNeverRun ==
    LoopSpec => [](\A w \in HumanOrders : w \notin leased /\ runs[w] = "never")
<1>1. LoopInit => HumanInv /\ Untouched
  BY DEF LoopInit, HumanInv, Untouched, HumanOrders, LoopStart
<1>2. Untouched => \A w \in HumanOrders : w \notin leased /\ runs[w] = "never"
  BY DEF Untouched
<1> QED
  BY <1>1, <1>2, HumanStep, UntouchedStep, TablesHold, PTL DEF LoopSpec

-----------------------------------------------------------------------------
(* The two columns. *)

(* A request changes one order, and its log with it, or none.              *)
LEMMA RequestChanges ==
    ASSUME TablesInv, Request \/ RequestGoesOn
    PROVE  \/ UNCHANGED << orders, logged >>
           \/ \E w \in Orders, s \in Status : Book!Change(w, s)
<1>1. LogOrders /\ logged \in [Orders -> { "Absent" } \cup Status]
  BY DEF Request, RequestGoesOn, TablesInv, Flow!Inv, Flow!TypeOK, Flow!Status, Status
<1>2. \/ UNCHANGED orders
      \/ \E w \in Orders, s \in Status :
            orders[w] # s /\ orders' = [orders EXCEPT ![w] = s]
  <2>1. CASE \E w \in Manual : Submit(w)
    BY <2>1, ManualAssumption DEF Submit, Status
  <2>2. CASE \E w \in Orders, actor \in Actors, ttl \in TTLs : OpenGate(w, actor, ttl)
    BY <2>2 DEF OpenGate, RequireApprovalFrom, Status
  <2>3. CASE DecideApply
    <3>1. challenges[handler.token].order \in Orders
      BY <2>3, Flow!TokenInHand, ApproverOfAssumption, TTLsAssumption, MaxTimeAssumption
         DEF TablesInv, DecideApply
    <3> QED
      BY <2>3, <3>1 DEF DecideApply, Applicable, ApplyApprovalFrom, DecidedStatus, Status
  <2>4. CASE UNCHANGED orders
    BY <2>4
  <2> QED
    BY <2>1, <2>2, <2>3, <2>4 DEF Request, RequestGoesOn, Create, JoinGate, Decide, DecideExpired,
       DecideLookup, Interrupt, Tick, HandlerStep, CreateRecordApproval, CreateRecordChallenge,
       DecideRefused, DecideRecordApproval, DecideRecordChallenge
<1>3. CASE UNCHANGED orders
  BY <1>1, <1>3, SameLog DEF TablesInv
<1>4. ASSUME NEW w \in Orders, NEW s \in Status, orders[w] # s,
             orders' = [orders EXCEPT ![w] = s]
      PROVE  Book!Change(w, s)
  <2>1. orders'[w] = s /\ \A v \in Orders : v # w => orders'[v] = orders[v]
    BY <1>4 DEF TablesInv, LogLink
  <2>2. logged' = [logged EXCEPT ![w] = s]
    BY <1>1, <1>4, <2>1 DEF LogOrders
  <2> QED BY <1>4, <2>2 DEF Book!Change
<1> QED BY <1>2, <1>3, <1>4

LEMMA LedgerStep ==
    ASSUME TablesInv, [LoopNext]_allVars
    PROVE  [Book!Next]_Book!ledgerVars
<1>1. CASE Request \/ RequestGoesOn
  BY <1>1, RequestChanges DEF Book!Next, Book!ledgerVars
<1>2. CASE GenerateSubmit
  <2>1. PICK w \in Orders : Book!Change(w, "Submitted")
    BY <1>2 DEF GenerateSubmit, Unused, Book!Change
  <2> QED BY <2>1 DEF Book!Next, Status
<1>3. CASE \E w \in loop.todo : Claim(w)
  <2>1. PICK w \in Orders : Book!Mark(w, "Leased")
    BY <1>3 DEF Claim, Book!Mark, TablesInv, LoopTyped, Loops
  <2> QED BY <2>1 DEF Book!Next, Status
<1>4. CASE Record
  <2>1. task.order \in Orders
    BY <1>4 DEF Record, TablesInv, LoopTyped, Tasks, NoTask
  <2>2. Book!Mark(task.order, IF task.result = "evidence" THEN "Completed" ELSE "Failed")
    BY <1>4 DEF Record, Book!Mark
  <2> QED BY <2>1, <2>2 DEF Book!Next, Status
<1>5. CASE Rebuild
  BY <1>5 DEF Rebuild, Book!Restore, Book!Next
<1>6. CASE UNCHANGED << orders, logged >>
  BY <1>6 DEF Book!ledgerVars
<1> QED BY <1>1, <1>2, <1>3, <1>4, <1>5, <1>6, OrderMoves

(* The loop, the requests, their faults and the rebuild treat the table    *)
(* and the log as the columns of one ledger, which the store keeps for     *)
(* them (claim_work_order, complete_work_order, append_work_order).        *)
THEOREM LoopKeepsLedger == LoopSpec => FollowsLedger
<1>1. LoopInit => Book!Init
  BY DEF LoopInit, Init, Book!Init
<1> QED
  BY <1>1, LedgerStep, TablesHold, PTL DEF LoopSpec, FollowsLedger, Book!Spec
=============================================================================
