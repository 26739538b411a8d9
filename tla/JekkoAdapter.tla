---------------------------- MODULE JekkoAdapter ----------------------------
(***************************************************************************)
(* The jekko adapter (crates/jmcp-adapter-jekko/src/lib.rs and             *)
(* worker_run.rs): one answer of the chat surface, or an autonomous worker *)
(* that the router runs and may detach, and that is then polled a bounded  *)
(* number of times.                                                        *)
(***************************************************************************)
EXTENDS AdapterCall

CONSTANTS
    JekkoTimeout,      \* the HTTP client's timeout
    JekkoDelay,        \* the pause before a poll
    MaxDetachedPolls   \* polls before a detached worker is given up

ASSUME JekkoAssumption ==
    /\ { JekkoTimeout, JekkoDelay } \subseteq Nat
    /\ MaxDetachedPolls \in Nat \ { 0 }

JekkoRoute(kind) ==
    CASE kind = "worker" -> "worker"
      [] kind = "reason" -> "chat"
      [] OTHER           -> "none"

JekkoCalls ==
    [pc : { "worker", "answer", "chat" }] \cup
    [pc : { "detached" }, polls : 0 .. MaxDetachedPolls - 1]

JekkoBudget(kind) ==
    IF kind = "reason"
    THEN JekkoTimeout
    ELSE JekkoTimeout + MaxDetachedPolls * (JekkoDelay + JekkoTimeout)

(* evidence_for: a run always, a digest of its text and artifacts if any.  *)
JekkoEvidence ==
    { { "jekko.run" } \cup extra :
        extra \in SUBSET { "jekko.assistant.digest", "jekko.artifact" } }

(* A slip: whatever has not failed has succeeded.                          *)
OutcomeUnlessFailed(status) ==
    IF status # "failed" THEN JekkoEvidence ELSE { {} }

(* map_worker_outcome and the check of its success in execute: anything    *)
(* but "succeeded", an absent status included, is an error.                *)
Outcome(status) ==
    IF status = "succeeded" THEN JekkoEvidence ELSE { {} }

Concludes(status) == \E kinds \in Outcome(status) : call' = Ended(kinds)

(* run: the fusion chat.                                                   *)
Chat ==
    /\ call.pc = "chat"
    /\ \E d \in Within(JekkoTimeout) : now' = Later(d)
    /\ \/ call' = Failed
       \/ \E kinds \in JekkoEvidence :
            /\ "jekko.artifact" \notin kinds
            /\ call' = Ended(kinds)
    /\ UNCHANGED << order, expires, job, phases, starts, manifest >>

(* The worker_run request reaches the router, or does not.                 *)
WorkerRequest ==
    /\ call.pc = "worker"
    /\ call' = [pc |-> "answer"]
    /\ Begins(None) \/ NothingBegins
    /\ UNCHANGED << order, expires, now, phases, manifest >>

(* No answer, an answer that is an error or is not JSON.                   *)
WorkerUnanswered ==
    /\ call.pc = "answer"
    /\ \E d \in Within(JekkoTimeout) : now' = Later(d)
    /\ call' = Failed
    /\ UNCHANGED << order, expires, job, phases, starts, manifest >>

(* The structured answer is read permissively: a part of it that is absent *)
(* or of another shape reads as no status.                                 *)
Answered == { job.status, None }

(* run_worker: a job that still runs and has an id is polled from here on. *)
WorkerAnswer ==
    /\ call.pc = "answer"
    /\ job.status # "none"
    /\ \E d \in Within(JekkoTimeout) : now' = Later(d)
    /\ \E status \in Answered :
         \/ status = "running" /\ call' = [pc |-> "detached", polls |-> 0]
         \/ Concludes(status)
    /\ UNCHANGED << order, expires, job, phases, starts, manifest >>

(* A slip: a poll that fails is tried again.                               *)
PollDetachedAgain ==
    /\ call.pc = "detached"
    /\ \E d \in Within(JekkoTimeout) : now' = Later(JekkoDelay + d)
    /\ \/ call' = call
       \/ job.status # "running" /\ Concludes(job.status)
       \/ /\ job.status = "running"
          /\ call' = IF call.polls + 1 = MaxDetachedPolls
                     THEN Failed ELSE [call EXCEPT !.polls = @ + 1]
    /\ UNCHANGED << order, expires, job, phases, starts, manifest >>

(* poll_detached, one turn: a pause, then job_result.  A request that      *)
(* fails ends the call, as does the last poll that finds it running.       *)
PollDetached ==
    /\ call.pc = "detached"
    /\ \E d \in Within(JekkoTimeout) : now' = Later(JekkoDelay + d)
    /\ \/ call' = Failed
       \/ \E status \in Answered : status # "running" /\ Concludes(status)
       \/ /\ job.status = "running"
          /\ call' = IF call.polls + 1 = MaxDetachedPolls
                     THEN Failed ELSE [call EXCEPT !.polls = @ + 1]
    /\ UNCHANGED << order, expires, job, phases, starts, manifest >>

JekkoStep ==
    Chat \/ WorkerRequest \/ WorkerUnanswered \/ WorkerAnswer \/ PollDetached
=============================================================================
