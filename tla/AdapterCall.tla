----------------------------- MODULE AdapterCall -----------------------------
(***************************************************************************)
(* What all adapters share when they execute one work order                *)
(* (crates/jmcp-adapter-sdk/src/lib.rs): the order and its lease, the      *)
(* clock, the job the order stands for at an engine outside the daemon,    *)
(* and the call itself, which ends in evidence or in an error.             *)
(*                                                                         *)
(* The job lives on its own.  A request that starts it may be answered or  *)
(* not, it settles when it likes, and an adapter that gives up leaves it   *)
(* running.  Time passes only while the call waits or sleeps.              *)
(***************************************************************************)
EXTENDS Integers, FiniteSets, Sequences

CONSTANTS
    WorkOrders,  \* the orders that may be executed: what their payloads say
    LeaseTtl,    \* how long the dispatcher leases an order
    MaxTime,     \* bound on the clock, beyond every budget of an adapter
    None         \* the absent value

ASSUME TimeAssumption == { LeaseTtl, MaxTime } \subseteq Nat

VARIABLES
    order,     \* the order that is executed
    expires,   \* when its lease does
    now,       \* time since the call began
    job,       \* the engine: the job as it really stands
    phases,    \* the engine: the phases of a zyal run
    starts,    \* the engine: how many jobs this call has started
    manifest,  \* the temporary file of a zyal run
    call       \* the adapter: where the call is, with its local variables

callVars == << order, expires, now, job, phases, starts, manifest, call >>

JobStates   == { "none", "running", "succeeded", "failed", "cancelled" }
ASSUME NoneAssumption == None \notin JobStates

PhaseStates == { "pending", "complete", "blocked", "failed" }

(* What the engine knows of a job: its status, whether it left receipts,   *)
(* whether what it reports is of the wire version and free of prompt text, *)
(* and the browser accounts it was told to use.                            *)
NewJob == [status |-> "none", receipts |-> FALSE, clean |-> TRUE, accounts |-> None]

Later(d) == IF now + d > MaxTime THEN MaxTime ELSE now + d

(* A request or a child process answers at once or as late as it may.      *)
Within(limit) == { 0, limit }

(* The call ends in evidence, of which only the kinds are kept.            *)
Ended(kinds) == [pc |-> "ended", evidence |-> kinds]

(* The call ends in an error.                                              *)
Failed == Ended({})

HasEnded == call.pc = "ended"
Proven   == HasEnded /\ call.evidence # {}

(* The engine takes a job on.                                              *)
Begins(accounts) ==
    /\ \E receipts, clean \in BOOLEAN :
         job' = [status |-> "running", receipts |-> receipts, clean |-> clean,
                 accounts |-> accounts]
    /\ starts' = starts + 1

NothingBegins == UNCHANGED << job, starts >>

(* The engine ends the job, whoever still waits for it.                    *)
JobSettles ==
    /\ job.status = "running"
    /\ \E status \in JobStates \ { "none", "running" } :
         job' = [job EXCEPT !.status = status]
    /\ UNCHANGED << order, expires, now, phases, starts, manifest, call >>
=============================================================================
