------------------------------ MODULE Dispatcher ------------------------------
(***************************************************************************)
(* The microtask loop of jmcpd (apps/jmcpd/src/dispatch_loop.rs over       *)
(* crates/jmcp-app/src/dispatch.rs), running beside the approval requests  *)
(* of ApprovalFlow on the same store, and the rebuild of the store's       *)
(* tables from its event log.                                              *)
(*                                                                         *)
(* One loop: it generates a microtask per repository unless one is open,   *)
(* lists the microtasks that may run, and for each one claims it, runs the *)
(* adapter, and records the result.  The store lock is taken for each of   *)
(* these and is never held while the adapter runs, so everything in        *)
(* ApprovalFlow can happen between a claim and its result.  The loop then  *)
(* writes back the copy of the work order it took when it claimed it.      *)
(***************************************************************************)
EXTENDS ApprovalFlow

CONSTANTS
    Repos,     \* repositories; with the one microtask id the loop generates,
               \* the key of its dedup guard
    Watched,   \* the repositories the loop generates microtasks for
    Payload,   \* what the payload of an order says, see PayloadAssumption
    Manual,    \* the orders that people submit; the loop generates the rest
    LeaseTTL,  \* the lifetime of a lease
    Faults,    \* what may happen on top: "store" errors, "replay" requests
    MaxCrashes \* bound on the times the process is killed

ASSUME PayloadAssumption ==
    Payload \in [Orders -> [microtask         : BOOLEAN,
                            evidence_oriented : BOOLEAN,
                            live              : BOOLEAN,
                            routed            : BOOLEAN, \* holder_for knows the kind
                            repo              : Repos]]
ASSUME WatchedAssumption  == Watched \subseteq Repos
ASSUME ManualAssumption   == Manual \subseteq Orders
ASSUME GeneratedAssumption == \A w \in Orders \ Manual : Payload[w].microtask
ASSUME LeaseTTLAssumption == LeaseTTL \in Int
ASSUME FaultsAssumption   == Faults \subseteq { "store", "replay" }
ASSUME MaxCrashesAssumption == MaxCrashes \in Nat

VARIABLES
    logged,    \* the status in the last work_order.* event of each order
    leased,    \* the orders with a row in table leases
    loop,      \* the loop: what is left to generate and to dispatch
    task,      \* the microtask in flight, a copy taken by the claim
    runs,      \* history: how often an adapter has run each order
    rebuilt,   \* history: a rebuild has happened
    crashes    \* history: how often the process has been killed

loopVars == << logged, leased, loop, task, runs, rebuilt, crashes >>
allVars  == << now, orders, approvals, challenges, handler,
               logged, leased, loop, task, runs, rebuilt, crashes >>

Results == { "evidence", "empty", "error" }

NoTask == [stage |-> "none"]

(* The top of an iteration. *)
LoopStart == [pc |-> "generate", repos |-> Watched, todo |-> {}]

LoopTypeOK ==
    /\ logged \in [Orders -> { "Absent" } \cup Status]
    /\ leased \subseteq Orders
    /\ loop.pc \in { "generate", "submit", "sweep" }
    /\ loop.repos \subseteq Watched
    /\ loop.todo \subseteq Orders
    /\ loop.pc = "submit" => loop.repo \in Watched
    /\ task = NoTask \/ ( /\ task.order \in Orders
                          /\ \/ task.stage = "claimed" /\ task.expires \in Int
                             \/ task.stage = "running"
                             \/ task.stage = "done" /\ task.result \in Results )
    /\ runs \in [Orders -> { "never", "once", "again" }]
    /\ rebuilt \in BOOLEAN
    /\ crashes \in 0 .. MaxCrashes

AllTypeOK == TypeOK /\ LoopTypeOK

LoopInit ==
    /\ Init
    /\ logged = orders
    /\ leased = {}
    /\ loop = LoopStart
    /\ task = NoTask
    /\ runs = [w \in Orders |-> "never"]
    /\ rebuilt = FALSE
    /\ crashes = 0

-----------------------------------------------------------------------------
(* What the loop looks for in the table. *)

(* A slip: the gate forgets to look at `live`.                             *)
EvidenceOnlyLiveToo(w) == Payload[w].microtask /\ Payload[w].evidence_oriented

(* The R0 gate of is_auto_dispatchable, as far as the payload decides it.  *)
EvidenceOnly(w) ==
    /\ Payload[w].microtask
    /\ Payload[w].evidence_oriented
    /\ ~ Payload[w].live

AutoDispatchable(w) == orders[w] = "Submitted" /\ EvidenceOnly(w)

Open(w) == orders[w] \notin Terminal \cup { "Absent" }

(* A slip: only a queued microtask counts as open.                         *)
HasQueuedMicrotask(repo) ==
    \E w \in Orders :
        orders[w] = "Submitted" /\ Payload[w].microtask /\ Payload[w].repo = repo

HasOpenMicrotask(repo) ==
    \E w \in Orders : Open(w) /\ Payload[w].microtask /\ Payload[w].repo = repo

(* The ids the loop can still give to microtasks of a repository.          *)
Unused(repo) ==
    { w \in Orders \ Manual : orders[w] = "Absent" /\ Payload[w].repo = repo }

-----------------------------------------------------------------------------
(* generate_due.  The check and the submission each take the lock.         *)

GenerateSkip ==
    /\ handler = Idle
    /\ loop.pc = "generate"
    /\ \E repo \in loop.repos :
         /\ HasOpenMicrotask(repo) \/ Unused(repo) = {}
         /\ loop' = [loop EXCEPT !.repos = @ \ { repo }]
    /\ UNCHANGED << vars, logged, leased, task, runs, rebuilt, crashes >>

GenerateCheck ==
    /\ handler = Idle
    /\ loop.pc = "generate"
    /\ \E repo \in loop.repos :
         /\ ~ HasOpenMicrotask(repo)
         /\ Unused(repo) # {}
         /\ loop' = [pc |-> "submit", repo |-> repo,
                     repos |-> loop.repos \ { repo }, todo |-> {}]
    /\ UNCHANGED << vars, logged, leased, task, runs, rebuilt, crashes >>

GenerateSubmit ==
    /\ handler = Idle
    /\ loop.pc = "submit"
    /\ \E w \in Unused(loop.repo) :
         /\ orders' = [orders EXCEPT ![w] = "Submitted"]
         /\ logged' = [logged EXCEPT ![w] = "Submitted"]
    /\ loop' = [pc |-> "generate", repos |-> loop.repos, todo |-> {}]
    /\ UNCHANGED << now, approvals, challenges, handler, leased, task, runs, rebuilt, crashes >>

(* The submission fails; the loop goes on with the next repository.        *)
GenerateFails ==
    /\ "store" \in Faults
    /\ handler = Idle
    /\ loop.pc = "submit"
    /\ loop' = [pc |-> "generate", repos |-> loop.repos, todo |-> {}]
    /\ UNCHANGED << vars, logged, leased, task, runs, rebuilt, crashes >>

(* The orders cannot be listed: the check of a repository fails, and the   *)
(* loop goes on with the next one, or the sweep ends before it begins.     *)
ListFails ==
    /\ "store" \in Faults
    /\ handler = Idle
    /\ loop.pc = "generate"
    /\ \/ \E repo \in loop.repos : loop' = [loop EXCEPT !.repos = @ \ { repo }]
       \/ loop.repos = {} /\ loop' = LoopStart
    /\ UNCHANGED << vars, logged, leased, task, runs, rebuilt, crashes >>

-----------------------------------------------------------------------------
(* dispatch_microtasks_once. *)

StartSweep ==
    /\ handler = Idle
    /\ loop.pc = "generate"
    /\ loop.repos = {}
    /\ loop' = [pc |-> "sweep", repos |-> {}, todo |-> { w \in Orders : AutoDispatchable(w) }]
    /\ UNCHANGED << vars, logged, leased, task, runs, rebuilt, crashes >>

Sweeping == loop.pc = "sweep" /\ task = NoTask

(* A slip: an order no adapter owns ends the sweep.                        *)
SkipUnroutedAndStop(w) ==
    /\ Sweeping
    /\ ~ Payload[w].routed
    /\ loop' = LoopStart
    /\ UNCHANGED << vars, logged, leased, task, runs, rebuilt, crashes >>

(* No adapter owns the kind: the order is left Submitted.                  *)
SkipUnrouted(w) ==
    /\ Sweeping
    /\ ~ Payload[w].routed
    /\ loop' = [loop EXCEPT !.todo = @ \ { w }]
    /\ UNCHANGED << vars, logged, leased, task, runs, rebuilt, crashes >>

(* A slip: the claim does not persist the order's new status.              *)
ClaimInMemory(w) ==
    /\ Sweeping
    /\ Payload[w].routed
    /\ handler = Idle
    /\ orders[w] \in LeaseFrom
    /\ leased' = leased \cup { w }
    /\ task' = [stage |-> "claimed", order |-> w, expires |-> now + LeaseTTL]
    /\ loop' = [loop EXCEPT !.todo = @ \ { w }]
    /\ UNCHANGED << vars, logged, runs, rebuilt, crashes >>

(* claim_work_order: the lease row, then the order, under one lock.  The   *)
(* event is microtask.leased, which `logged` does not count.               *)
Claim(w) ==
    /\ Sweeping
    /\ Payload[w].routed
    /\ handler = Idle
    /\ orders[w] \in LeaseFrom
    /\ leased' = leased \cup { w }
    /\ orders' = [orders EXCEPT ![w] = "Leased"]
    /\ task' = [stage |-> "claimed", order |-> w, expires |-> now + LeaseTTL]
    /\ loop' = [loop EXCEPT !.todo = @ \ { w }]
    /\ UNCHANGED << now, approvals, challenges, handler, logged, runs, rebuilt, crashes >>

(* A slip: the two writes of the claim the other way round.                *)
ClaimTornStatusFirst(w) ==
    /\ Sweeping
    /\ Payload[w].routed
    /\ handler = Idle
    /\ orders[w] \in LeaseFrom
    /\ \/ "store" \in Faults /\ crashes' = crashes
       \/ crashes < MaxCrashes /\ crashes' = crashes + 1
    /\ orders' = [orders EXCEPT ![w] = "Leased"]
    /\ loop' = LoopStart
    /\ UNCHANGED << now, approvals, challenges, handler, logged, leased, task, runs, rebuilt >>

(* The claim stops before its last write: an error of the read or of       *)
(* either write ends the sweep, or the process dies between the writes.    *)
ClaimTorn(w) ==
    /\ Sweeping
    /\ Payload[w].routed
    /\ handler = Idle
    /\ orders[w] \in LeaseFrom
    /\ \/ /\ "store" \in Faults
          /\ leased' \in { leased, leased \cup { w } }
          /\ crashes' = crashes
       \/ /\ crashes < MaxCrashes
          /\ leased' = leased \cup { w }
          /\ crashes' = crashes + 1
    /\ loop' = LoopStart
    /\ UNCHANGED << vars, logged, task, runs, rebuilt >>

(* The order has left Submitted since it was listed: the error ends the    *)
(* sweep, and the rest of the list waits for the next one.                 *)
ClaimRefused(w) ==
    /\ Sweeping
    /\ Payload[w].routed
    /\ handler = Idle
    /\ orders[w] \notin LeaseFrom
    /\ loop' = LoopStart
    /\ UNCHANGED << vars, logged, leased, task, runs, rebuilt, crashes >>

(* execute_with_lease looks at the lease once, then runs the adapter.      *)
Execute ==
    /\ task.stage = "claimed"
    /\ IF Lapsed(task.expires, now)
         THEN /\ task' = [stage |-> "done", order |-> task.order, result |-> "error"]
              /\ runs' = runs
         ELSE /\ task' = [stage |-> "running", order |-> task.order]
              /\ runs' = [runs EXCEPT ![task.order] = IF @ = "never" THEN "once" ELSE "again"]
    /\ UNCHANGED << vars, logged, leased, loop, rebuilt, crashes >>

Finish ==
    /\ task.stage = "running"
    /\ \E result \in Results :
         task' = [stage |-> "done", order |-> task.order, result |-> result]
    /\ UNCHANGED << vars, logged, leased, loop, runs, rebuilt, crashes >>

(* A slip: no evidence is counted as a failure but not recorded as one.    *)
RecordOnlyWithResult ==
    /\ handler = Idle
    /\ task.stage = "done"
    /\ orders' = CASE task.result = "evidence" -> [orders EXCEPT ![task.order] = "Completed"]
                   [] task.result = "error"    -> [orders EXCEPT ![task.order] = "Failed"]
                   [] OTHER                    -> orders
    /\ task' = NoTask
    /\ UNCHANGED << now, approvals, challenges, handler, logged, leased, loop, runs, rebuilt, crashes >>

(* complete_work_order or fail_work_order.  Both work on the copy the      *)
(* claim returned, which is Leased, and write it over the stored row.  The *)
(* events are microtask.completed and microtask.failed.                    *)
Record ==
    /\ handler = Idle
    /\ task.stage = "done"
    /\ orders' = [orders EXCEPT ![task.order] =
                    IF task.result = "evidence" THEN "Completed" ELSE "Failed"]
    /\ task' = NoTask
    /\ UNCHANGED << now, approvals, challenges, handler, logged, leased, loop, runs, rebuilt, crashes >>

(* The result cannot be written: the error ends the sweep.                 *)
RecordFails ==
    /\ "store" \in Faults
    /\ handler = Idle
    /\ task.stage = "done"
    /\ task' = NoTask
    /\ loop' = LoopStart
    /\ UNCHANGED << vars, logged, leased, runs, rebuilt, crashes >>

EndSweep ==
    /\ Sweeping
    /\ loop.todo = {}
    /\ loop' = LoopStart
    /\ UNCHANGED << vars, logged, leased, task, runs, rebuilt, crashes >>

-----------------------------------------------------------------------------
(* rebuild_work_order_projection_from_events: one transaction deletes the  *)
(* tables and fills them from the log.  An order is what its last          *)
(* work_order.* event says.  Leases, approvals and challenges are logged   *)
(* whole with every write, and come back as they were.                     *)
Rebuild ==
    /\ "replay" \in Faults
    /\ handler = Idle
    /\ orders' = logged
    /\ rebuilt' = TRUE
    /\ UNCHANGED << now, approvals, challenges, handler, logged, leased, loop, task, runs, crashes >>

(* The process dies and is started again: what was in memory is gone.      *)
Crash ==
    /\ crashes < MaxCrashes
    /\ crashes' = crashes + 1
    /\ handler' = Idle
    /\ loop' = LoopStart
    /\ task' = NoTask
    /\ UNCHANGED << now, orders, approvals, challenges, logged, leased, runs, rebuilt >>

(* Each write a request makes to an order appends a work_order.* event in  *)
(* the same transaction.                                                   *)
LogOrders ==
    logged' = [w \in Orders |-> IF orders'[w] = orders[w] THEN logged[w] ELSE orders'[w]]

(* A request that holds the lock goes on. *)
RequestGoesOn ==
    HandlerStep /\ LogOrders /\ UNCHANGED << leased, loop, task, runs, rebuilt, crashes >>

(* The other steps of ApprovalFlow.  Of the orders, people submit theirs.  *)
Request ==
    /\ \/ \E w \in Manual : Submit(w)
       \/ Create
       \/ Decide
       \/ "store" \in Faults /\ Interrupt
       \/ Tick
    /\ LogOrders
    /\ UNCHANGED << leased, loop, task, runs, rebuilt, crashes >>

(* What the loop's thread does when nothing fails. *)
LoopStep ==
    \/ GenerateSkip
    \/ GenerateCheck
    \/ GenerateSubmit
    \/ StartSweep
    \/ \E w \in loop.todo : SkipUnrouted(w) \/ Claim(w) \/ ClaimRefused(w)
    \/ Execute
    \/ Finish
    \/ Record
    \/ EndSweep

LoopFault ==
    \/ GenerateFails
    \/ ListFails
    \/ \E w \in loop.todo : ClaimTorn(w)
    \/ RecordFails

LoopNext == Request \/ RequestGoesOn \/ LoopStep \/ LoopFault \/ Rebuild \/ Crash

LoopSpec == LoopInit /\ [][LoopNext]_allVars

(* A request that holds the lock runs on; the loop's thread, which finds   *)
(* the lock free again and again, gets it in the end; an adapter returns.  *)
FairLoopSpec ==
    /\ LoopSpec
    /\ WF_allVars(RequestGoesOn)
    /\ SF_allVars(LoopStep)

-----------------------------------------------------------------------------
(* Properties. *)

(* Orders that wait for a person: not microtasks, or live, or not out for  *)
(* evidence only.                                                          *)
HumanOrders ==
    { w \in Orders : \/ ~ Payload[w].microtask
                     \/ Payload[w].live
                     \/ ~ Payload[w].evidence_oriented }

HumanGate == INSTANCE ApprovalGate WITH
               Orders  <- HumanOrders,
               clock   <- now,
               gate    <- [w \in HumanOrders |-> GateOf(orders[w])],
               windows <- { x \in WindowRows : x[1] \in HumanOrders }

(* An order that is not an evidence-only, non-live microtask goes through  *)
(* the approval gate and nothing else: no sweep, no crash, no rebuild of   *)
(* the tables ever leases it, completes it, decides it or undoes its       *)
(* decision (is_auto_dispatchable).                                        *)
HumanOrdersKeepTheGate == HumanGate!Spec

Book == INSTANCE Ledger WITH
          States   <- Status,
          Absent   <- "Absent",
          Joins    <- {},
          status   <- orders,
          recorded <- logged

(* `orders` and `logged` are a ledger as the store keeps one: what this    *)
(* module does to the two, its rebuild included, is what EventStore makes  *)
(* of some table and some log (rebuild_work_order_projection_from_events). *)
FollowsLedger == Book!Spec

(* A leased order has its lease on record: claim_work_order writes the     *)
(* lease before the order, so no interruption and no rebuild leaves a      *)
(* Leased order whose holder nobody can name.                              *)
LeaseOnRecord == \A w \in Orders : orders[w] = "Leased" => w \in leased

(* The loop never keeps two microtasks of its own open for one repository, *)
(* however its checks and submissions interleave with crashes, requests    *)
(* and failed sweeps (generate_microtask_if_absent).  A rebuild reopens    *)
(* finished ones and is left out here.                                     *)
OneOpenPerRepo ==
    ~ rebuilt =>
        \A v, w \in Orders \ Manual :
            Open(v) /\ Open(w) /\ Payload[v].repo = Payload[w].repo => v = w

(* The claim is the point of no return: as long as the tables have not     *)
(* been rebuilt, no order is run by an adapter twice, whatever crashes     *)
(* between claim, run and result (claim_work_order).                       *)
RunAtMostOnce == ~ rebuilt => \A w \in Orders : runs[w] # "again"

(* A claim is settled: a leased order is completed, failed, or taken over  *)
(* by somebody who asks for its approval (dispatch_microtasks_once).       *)
LeasedSettles ==
    \A w \in Orders : orders[w] = "Leased" ~> orders[w] # "Leased"

(* No microtask that an adapter owns waits forever, even though each claim *)
(* that comes too late ends the sweep for all that are left in its list    *)
(* (dispatch_microtasks_once).                                             *)
NoStarvation ==
    \A w \in Orders :
        AutoDispatchable(w) /\ Payload[w].routed ~> orders[w] # "Submitted"

(* What dispatch_loop.rs says of its sweeps, "anything awaiting a human    *)
(* gate is left alone": an order awaiting approval moves only by the       *)
(* decision of an approval request.                                        *)
AwaitingLeftAlone ==
    [][\A w \in Orders :
         orders[w] = "AwaitingApproval" /\ orders'[w] # orders[w] /\ ~ rebuilt'
         => handler'.pc = "decide_approval"]_allVars

(* What docs/security.md says of replay, that it "must not duplicate       *)
(* committed side effects": an order is run by an adapter at most once,    *)
(* rebuilds included.                                                      *)
ReplayRunsNothingTwice == \A w \in Orders : runs[w] # "again"
=============================================================================
