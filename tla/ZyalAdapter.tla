----------------------------- MODULE ZyalAdapter -----------------------------
(***************************************************************************)
(* The zyal adapter (crates/jmcp-adapter-jekko/src/zyal.rs, zyal_runner.rs,*)
(* zyal_status.rs): a manifest is written to a temporary file, `jekko      *)
(* port-run` is given it, and the run's phases are polled until they have  *)
(* all settled or the budget is spent.  The jekko child processes have no  *)
(* timeout: one that hangs holds the call for ever.                        *)
(***************************************************************************)
EXTENDS AdapterCall

CONSTANTS
    ChildTime,         \* the longest a jekko child takes if it does not hang
    MaxBusy,           \* times a busy executable is tried again
    BusyDelay,         \* the pause before that
    ZyalInterval,      \* the pause between two polls
    MaxPhases,         \* bound on the phases of a run
    MaxPhaseEvidence   \* phases that appear in the evidence

ASSUME ZyalAssumption ==
    { ChildTime, MaxBusy, BusyDelay, ZyalInterval, MaxPhases, MaxPhaseEvidence }
        \subseteq Nat

(* A run without a timeout of its own has the default one.                 *)
ASSUME PollTimeoutAssumption ==
    \A o \in WorkOrders : o.kind = "zyal" => o.pollTimeout \in Nat

ZyalCalls ==
    [pc : { "write", "hung" }] \cup
    [pc : { "submit" }, busy : 0 .. MaxBusy] \cup
    [pc : { "status" }, busy : 0 .. MaxBusy, since : 0 .. MaxTime] \cup
    [pc : { "pause" }, since : 0 .. MaxTime]

Settled == { "complete", "blocked", "failed" }

SomePhase(status) == \E i \in DOMAIN phases : phases[i] = status
AllPhases(set)    == \A i \in DOMAIN phases : phases[i] \in set
Completed         == Cardinality({ i \in DOMAIN phases : phases[i] = "complete" })

(* ZyalRunStatus::percent and is_terminal.                                 *)
Percent  == IF phases = << >> THEN 0 ELSE (Completed * 100) \div Len(phases)
Terminal == phases # << >> /\ AllPhases(Settled)

(* A slip: a run with no failed and no blocked phase is complete.          *)
StateLabelOptimistic ==
    CASE phases = << >>        -> "unknown"
      [] SomePhase("failed")   -> "failed"
      [] SomePhase("blocked") /\ ~ SomePhase("failed") -> "blocked"
      [] OTHER                 -> "complete"

(* ZyalRunStatus::state_label.                                             *)
StateLabel ==
    CASE phases = << >>        -> "unknown"
      [] SomePhase("failed")   -> "failed"
      [] SomePhase("blocked") /\ ~ SomePhase("failed") -> "blocked"
      [] phases # << >> /\ Completed = Len(phases)     -> "complete"
      [] OTHER                 -> "partial"

(* evidence_for.  The label, the percentage and the phases that are listed *)
(* are in the uris; they are kept beside the kinds.                        *)
ZyalEnded ==
    [pc       |-> "ended",
     evidence |-> { "zyal.run", "zyal.progress", "zyal.status" },
     listed   |-> { i \in DOMAIN phases : i =< MaxPhaseEvidence },
     label    |-> StateLabel,
     percent  |-> Percent]

(* How long the submitter of the order lets the adapter poll.              *)
ZyalBudget(o) ==
    LET children == 2 * (ChildTime + MaxBusy * BusyDelay)
    IN  children + o.pollTimeout + ZyalInterval

-----------------------------------------------------------------------------
(* The manifest file.                                                      *)

Removed == manifest' = "absent"

(* The payload carries no manifest.                                        *)
ManifestMissing ==
    /\ call.pc = "write"
    /\ ~ order.valid
    /\ call' = Failed
    /\ UNCHANGED << order, expires, now, job, phases, starts, manifest >>

WriteManifest ==
    /\ call.pc = "write"
    /\ order.valid
    /\ manifest' = "whole"
    /\ call' = [pc |-> "submit", busy |-> 0]
    /\ UNCHANGED << order, expires, now, job, phases, starts >>

(* What a failed write leaves behind is not removed.                       *)
WriteManifestFails ==
    /\ call.pc = "write"
    /\ order.valid
    /\ manifest' \in { "absent", "partial" }
    /\ call' = Failed
    /\ UNCHANGED << order, expires, now, job, phases, starts >>

-----------------------------------------------------------------------------
(* The child processes.                                                    *)

(* output_retrying_etxtbsy: nothing ran, it is tried again.                *)
ChildBusy ==
    /\ call.pc \in { "submit", "status" }
    /\ call.busy < MaxBusy
    /\ now' = Later(BusyDelay)
    /\ call' = [call EXCEPT !.busy = @ + 1]
    /\ UNCHANGED << order, expires, job, phases, starts, manifest >>

ChildHangs ==
    /\ call.pc \in { "submit", "status" }
    /\ call' = [pc |-> "hung"]
    /\ UNCHANGED << order, expires, now, job, phases, starts, manifest >>

(* jekko plans the run.                                                    *)
RunBegins ==
    /\ starts' = starts + 1
    /\ \E n \in 0 .. MaxPhases : phases' = [i \in 1 .. n |-> "pending"]

NoRunBegins == UNCHANGED << starts, phases >>

Submit ==
    /\ call.pc = "submit"
    /\ \E d \in Within(ChildTime) : now' = Later(d)
    /\ RunBegins
    /\ call' = [pc |-> "status", busy |-> 0, since |-> now']
    /\ UNCHANGED << order, expires, job, manifest >>

(* The child cannot be spawned, or exits with an error, whatever it has    *)
(* done by then.                                                           *)
SubmitFails ==
    /\ call.pc = "submit"
    /\ \E d \in Within(ChildTime) : now' = Later(d)
    /\ RunBegins \/ NoRunBegins
    /\ Removed
    /\ call' = Failed
    /\ UNCHANGED << order, expires, job >>

(* A slip: the error is returned before the file is removed.               *)
StatusFailsKeepingFile ==
    /\ call.pc = "status"
    /\ \E d \in Within(ChildTime) : now' = Later(d)
    /\ call' = Failed
    /\ UNCHANGED << order, expires, job, phases, starts, manifest >>

StatusFails ==
    /\ call.pc = "status"
    /\ \E d \in Within(ChildTime) : now' = Later(d)
    /\ Removed
    /\ call' = Failed
    /\ UNCHANGED << order, expires, job, phases, starts >>

(* One turn of the loop in execute: a snapshot, and the end of the call if *)
(* it is terminal or the budget is spent.                                  *)
Status ==
    /\ call.pc = "status"
    /\ \E d \in Within(ChildTime) : now' = Later(d)
    /\ IF Terminal \/ now' - call.since >= order.pollTimeout
         THEN Removed /\ call' = ZyalEnded
         ELSE manifest' = manifest /\ call' = [pc |-> "pause", since |-> call.since]
    /\ UNCHANGED << order, expires, job, phases, starts >>

Pause ==
    /\ call.pc = "pause"
    /\ now' = Later(ZyalInterval)
    /\ call' = [pc |-> "status", busy |-> 0, since |-> call.since]
    /\ UNCHANGED << order, expires, job, phases, starts, manifest >>

ZyalStep ==
    \/ ManifestMissing \/ WriteManifest \/ WriteManifestFails
    \/ ChildBusy \/ ChildHangs
    \/ Submit \/ SubmitFails \/ Status \/ StatusFails \/ Pause

(* jekko settles a phase.                                                  *)
PhaseSettles ==
    /\ \E i \in DOMAIN phases, status \in Settled :
         /\ phases[i] = "pending"
         /\ phases' = [phases EXCEPT ![i] = status]
    /\ UNCHANGED << order, expires, now, job, starts, manifest, call >>
=============================================================================
