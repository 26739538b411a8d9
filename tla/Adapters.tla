------------------------------ MODULE Adapters ------------------------------
(***************************************************************************)
(* One call of execute_with_lease (crates/jmcp-adapter-sdk/src/lib.rs), as *)
(* the dispatcher's executor (apps/jmcpd/src/dispatch_loop.rs) or another  *)
(* caller makes it, to any of the adapters: jekko, zyal and jailgun of     *)
(* their own modules, and the two that wait for one thing only, jankurai   *)
(* (a child process) and jeryu (two requests to the forge).                *)
(***************************************************************************)
EXTENDS JekkoAdapter, ZyalAdapter, JailgunAdapter

CONSTANTS
    JankuraiTimeout,  \* how long a jankurai child may take
    JeryuTimeout      \* the forge client's timeout

ASSUME LocalAssumption == { JankuraiTimeout, JeryuTimeout } \subseteq Nat

Kinds == { "worker", "reason", "zyal", "run", "deploy", "packet",
           "jankurai", "jeryu", "unknown" }

(* holder_for of the dispatcher's executor.                                *)
HolderFor(kind) ==
    CASE kind = "jankurai"             -> "jankurai"
      [] kind \in { "worker", "reason" } -> "jekko"
      [] OTHER                         -> None

(* The longest a call may take, by the timeouts of its adapter.            *)
Budget(o) ==
    CASE o.kind \in { "worker", "reason" }       -> JekkoBudget(o.kind)
      [] o.kind = "zyal"                         -> ZyalBudget(o)
      [] o.kind \in { "run", "deploy", "packet" } -> JailgunBudget(o.kind)
      [] o.kind = "jankurai"                     -> JankuraiTimeout
      [] o.kind = "jeryu"                        -> 2 * JeryuTimeout
      [] OTHER                                   -> 0

(* The clock's bound is out of the way of every call.                      *)
ASSUME BudgetAssumption == \A o \in WorkOrders : Budget(o) < MaxTime

(* The dispatcher's lease outlasts the adapters it drives.                 *)
ASSUME LeaseAssumption ==
    \A o \in WorkOrders : HolderFor(o.kind) # None => Budget(o) < LeaseTtl

LocalCalls ==
    [pc : { "idle", "spawn", "process", "health", "run-id", "ci" }]

AdapterTypeOK ==
    /\ order \in WorkOrders
    /\ expires \in { -1, LeaseTtl }
    /\ now \in 0 .. MaxTime
    /\ job.status \in JobStates /\ { job.receipts, job.clean } \subseteq BOOLEAN
    /\ phases \in Seq(PhaseStates) /\ Len(phases) =< MaxPhases
    /\ starts \in Nat
    /\ manifest \in { "absent", "partial", "whole" }
    /\ ~ HasEnded => call \in LocalCalls \cup JekkoCalls \cup ZyalCalls \cup JailgunCalls

AdapterInit ==
    /\ order \in WorkOrders
    /\ expires \in { -1, LeaseTtl }
    /\ now = 0
    /\ job = NewJob
    /\ phases = << >>
    /\ starts = 0
    /\ manifest = "absent"
    /\ call = [pc |-> "idle"]

-----------------------------------------------------------------------------
(* Where execute of the adapter begins for a kind, "none" if it fails      *)
(* closed.                                                                 *)
Route(kind) ==
    CASE kind = "zyal"     -> "write"
      [] kind = "jankurai" -> "spawn"
      [] kind = "jeryu"    -> "health"
      [] JekkoRoute(kind) # "none"   -> JekkoRoute(kind)
      [] JailgunRoute(kind) # "none" -> JailgunRoute(kind)
      [] OTHER             -> "none"

(* require_valid_lease, and the route of execute.                          *)
Begin ==
    /\ call.pc = "idle"
    /\ call' = IF expires < now \/ Route(order.kind) = "none"
               THEN Failed ELSE [pc |-> Route(order.kind)]
    /\ UNCHANGED << order, expires, now, job, phases, starts, manifest >>

-----------------------------------------------------------------------------
(* jankurai: execute. *)

JankuraiSpawn ==
    /\ call.pc = "spawn"
    /\ \/ Begins(None) /\ call' = [pc |-> "process"]
       \/ NothingBegins /\ call' = Failed
    /\ UNCHANGED << order, expires, now, phases, manifest >>

(* A slip: the child is waited for without a timeout.                      *)
JankuraiNeverTimesOut ==
    /\ call.pc = "process"
    /\ job.status # "running"
    /\ call' = Failed
    /\ UNCHANGED << order, expires, now, job, phases, starts, manifest >>

(* The child is left alone when its time is up.                            *)
JankuraiTimesOut ==
    /\ call.pc = "process"
    /\ now' = Later(JankuraiTimeout)
    /\ call' = Failed
    /\ UNCHANGED << order, expires, job, phases, starts, manifest >>

JankuraiExits ==
    /\ call.pc = "process"
    /\ job.status # "running"
    /\ \E d \in Within(JankuraiTimeout) : now' = Later(d)
    /\ call' = IF job.status = "succeeded" THEN Ended({ "jankurai.digest" }) ELSE Failed
    /\ UNCHANGED << order, expires, job, phases, starts, manifest >>

-----------------------------------------------------------------------------
(* jeryu: the forge is asked for its health, the order for a run id, and   *)
(* the forge for what it has on that run, whatever its status.             *)

JeryuHealth ==
    /\ call.pc = "health"
    /\ \E d \in Within(JeryuTimeout) : now' = Later(d)
    /\ call' \in { Failed, [pc |-> "run-id"] }
    /\ UNCHANGED << order, expires, job, phases, starts, manifest >>

JeryuRunId ==
    /\ call.pc = "run-id"
    /\ call' = IF order.valid THEN [pc |-> "ci"] ELSE Failed
    /\ UNCHANGED << order, expires, now, job, phases, starts, manifest >>

JeryuEvidence ==
    { { "jeryu.ci-run", "jeryu.ci-run.digest" } \cup extra :
        extra \in SUBSET { "jeryu.ci-run.commit", "jeryu.artifact" } }

JeryuCi ==
    /\ call.pc = "ci"
    /\ \E d \in Within(JeryuTimeout) : now' = Later(d)
    /\ call' \in { Failed } \cup { Ended(kinds) : kinds \in JeryuEvidence }
    /\ UNCHANGED << order, expires, job, phases, starts, manifest >>

LocalStep ==
    \/ Begin
    \/ JankuraiSpawn \/ JankuraiTimesOut \/ JankuraiExits
    \/ JeryuHealth \/ JeryuRunId \/ JeryuCi

CallStep == LocalStep \/ JekkoStep \/ ZyalStep \/ JailgunStep

AdapterNext == CallStep \/ JobSettles \/ PhaseSettles

AdapterSpec == AdapterInit /\ [][AdapterNext]_callVars

(* The runtime polls the call's future.  A request or a child with a       *)
(* timeout returns at the latest when that is up; the engines owe nothing. *)
FairAdapterSpec == AdapterSpec /\ WF_callVars(CallStep)

-----------------------------------------------------------------------------
(* Properties. *)

(* Evidence completes the order, so there is evidence only of a job that   *)
(* really succeeded at its engine: a worker that was detached, a run that  *)
(* was asked for over two channels, a child that was retried.  A           *)
(* deployment has left receipts, and nothing with prompt text in it is     *)
(* passed on.  A chat, a CI run and a zyal run have no such job.           *)
EvidenceMeansDone ==
    Proven /\ order.kind \notin { "reason", "zyal", "jeryu" } =>
        /\ job.status = "succeeded"
        /\ order.kind = "deploy" => job.receipts
        /\ order.kind \in { "run", "deploy", "packet" } => job.clean

(* Evidence of a zyal run is given for a failed and an unfinished run too. *)
(* Its label and its percentage must then tell the truth, long after the   *)
(* snapshot they were taken from: "complete" and 100 percent go together   *)
(* and mean that every phase is complete, "failed" and "blocked" that one  *)
(* is, and the other labels come only when the whole budget was waited.    *)
ReportHonest ==
    Proven /\ order.kind = "zyal" =>
        /\ call.label = "complete" <=> call.percent = 100
        /\ call.label = "complete" => phases # << >> /\ AllPhases({ "complete" })
        /\ call.label \in { "failed", "blocked" } => SomePhase(call.label)
        /\ call.label \in { "partial", "unknown" } => now >= order.pollTimeout

(* However the call ends, the manifest is gone from the temporary          *)
(* directory, unless the write of it failed before the run was submitted.  *)
ManifestRemoved ==
    HasEnded => manifest # "whole" /\ (starts > 0 => manifest = "absent")

(* A call starts at most one job: retries are for executables that were    *)
(* busy and never ran, and a start that was not answered is not repeated.  *)
StartedAtMostOnce == starts =< 1

(* All bounds of polls and waits together: a call that has not met a       *)
(* hanging jekko child ends within its budget, the two waits of jailgun    *)
(* included, and that of an adapter the dispatcher drives ends before the  *)
(* lease it was given runs out.                                            *)
EndsInTime ==
    /\ now =< Budget(order)
    /\ HolderFor(order.kind) # None => now < LeaseTtl

(* The engine was told of exactly the accounts the order names, in each of *)
(* the ways it may name them, and of none twice.                           *)
AccountsAgree ==
    job.accounts # None =>
        /\ ~ Duplicates(job.accounts)
        /\ \A list \in Aliases(order.request) : list = job.accounts

(* A call ends, whatever the engine does.  Only a jekko child process can  *)
(* hold it for ever.                                                       *)
ExecuteEnds == <>(HasEnded \/ call.pc = "hung")
=============================================================================
