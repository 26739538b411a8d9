------------------------------ MODULE Universe ------------------------------
(***************************************************************************)
(* GET /universe (crates/jmcp-api/src/routes_extra.rs, universe.rs,        *)
(* universe_helpers.rs): one picture of the repositories, put together of  *)
(* Jeryu's answer, the work orders and the leases.  The three are read one *)
(* after the other, the last two under separate locks, while orders arrive,*)
(* are claimed by the dispatcher and settle.                               *)
(*                                                                         *)
(* Scores and the health levels made of them are left out: nothing is      *)
(* decided by them.  Readings of the clock are taken to be distinct; of    *)
(* two orders of one instant max_by_key shows the later in the list.  A    *)
(* rebuild is not an action here: it leaves the rows of leases alone.      *)
(***************************************************************************)
EXTENDS Ecosystem, Integers

CONSTANTS
    Orders,    \* every work order there will be
    Mentions,  \* the repositories each order names somewhere
    BranchOf,  \* the branch in its payload, if any
    Answers,   \* what Jeryu may say
    MaxTime    \* bound on the clock

(* observed_repo_names, and the roles of systems of these names, which are *)
(* the pools of orders without a lease.                                    *)
RoleOf ==
    [Jeryu    |-> "evidence runner",         Jekko   |-> "headless worker",
     Jankurai |-> "standards memory",        Jailgun |-> "bounded ChatGPT capture"]

Repos == DOMAIN RoleOf

(* The value of a task or a branch that was not observed.                  *)
Unobserved == "unobserved"

ASSUME OrdersAssumption ==
    /\ Unobserved \notin Orders
    /\ Mentions \in [Orders -> SUBSET Repos]
    /\ DOMAIN BranchOf = Orders
    /\ MaxTime \in Nat

ASSUME AnswersAssumption ==
    \A answer \in Answers :
        answer.tools \in Seq(RawTools) /\ answer.records \in Seq(RawRepos)

VARIABLES
    clock,    \* counts the readings of the clock
    updated,  \* updated_at of each order in the store, 0 for the others
    leased,   \* the orders in the table of leases
    stamped,  \* updated_at of orders on their way to the store, 0 for none
    reader,   \* the request, with its local variables
    truths    \* history: for each repository, what was so while it was served

universeVars == << clock, updated, leased, stamped, reader, truths >>

-----------------------------------------------------------------------------
(* Composing. *)

(* order_matches_repo and find_work_order_for_repo: the latest change.     *)
LatestOrder(repo, at) ==
    LET mine == { o \in Orders : at[o] > 0 /\ repo \in Mentions[o] }
    IN  IF mine = {} THEN Unobserved
        ELSE CHOOSE o \in mine : \A p \in mine : at[p] =< at[o]

(* universe_placements.  The holder of a lease stands for its order.       *)
Placement(repo, at, leases) ==
    LET o == LatestOrder(repo, at)
    IN  [task   |-> o,
         branch |-> IF o = Unobserved THEN Unobserved ELSE Unless(BranchOf[o], Unobserved),
         pool   |-> IF o \in leases THEN o ELSE RoleOf[repo]]

Missing(p) ==
    { field \in { "task", "branch" } : p[field] = Unobserved } \cup
    { field \in { "pool" } : p[field] = "unassigned" }

(* repo_coverage.                                                          *)
Coverage(p) == ((3 - Cardinality(Missing(p))) * 100) \div 3

(* What the snapshot says, as reasons of the picture.                      *)
JeryuReasons(snapshot) == { << "ecosystem", why >> : why \in snapshot.reason }

(* A slip: a task without a branch is not worth a word.                    *)
RepoReasonsWithoutBranch(repo, p, snapshot) ==
    { << repo, field >> : field \in Missing(p) \ { "branch" } } \cup
    (IF ToolsOf(snapshot.tools, repo) = {} THEN { << repo, "tools" >> } ELSE {}) \cup
    (IF ~ snapshot.live /\ repo = "Jeryu" THEN JeryuReasons(snapshot) ELSE {})

(* repo_degraded_reason.                                                   *)
RepoReasons(repo, p, snapshot) ==
    { << repo, field >> : field \in Missing(p) } \cup
    (IF ToolsOf(snapshot.tools, repo) = {} THEN { << repo, "tools" >> } ELSE {}) \cup
    (IF ~ snapshot.live /\ repo = "Jeryu" THEN JeryuReasons(snapshot) ELSE {})

(* average_numbers over the repositories, average_coverage over slices.    *)
AverageOf(coverage) ==
    (coverage["Jeryu"] + coverage["Jekko"] + coverage["Jankurai"] + coverage["Jailgun"]) \div 4

(* universe_slices and compose_universe: the bootstrap slice is about the  *)
(* repositories, the other about Jeryu.                                    *)
Compose(at, leases, snapshot) ==
    LET places   == [r \in Repos |-> Placement(r, at, leases)]
        coverage == [r \in Repos |-> Coverage(places[r])]
        covered  == \A r \in Repos : coverage[r] = 100
        reasons  == UNION { RepoReasons(r, places[r], snapshot) : r \in Repos }
        live     == covered /\ snapshot.live
    IN  [places   |-> places,
         coverage |-> coverage,
         observed |-> (AverageOf(coverage) + (IF snapshot.live THEN 100 ELSE 0)) \div 2,
         live     |-> live,
         reasons  |-> IF live THEN {} ELSE reasons \cup JeryuReasons(snapshot)]

-----------------------------------------------------------------------------
Nothing == [o \in Orders |-> 0]

Idle == [pc |-> "idle", answer |-> None, snapshot |-> None, orders |-> Nothing,
         picture |-> None, broken |-> FALSE]

UniverseInit ==
    /\ clock = 0
    /\ updated = Nothing
    /\ leased = {}
    /\ stamped = Nothing
    /\ reader = Idle
    /\ truths = [r \in Repos |-> {}]

Reads == clock < MaxTime /\ clock' = clock + 1

Serving == reader.pc \in { "fetched", "ordered" }

(* The store has changed while the request is, or is not, being served.    *)
Witness ==
    truths' = [r \in Repos |->
                 IF Serving THEN truths[r] \cup { Placement(r, updated', leased') } ELSE truths[r]]

(* WorkOrder::submit, complete and fail read the clock before they lock    *)
(* the store.                                                              *)
Stamp(o) ==
    /\ Reads
    /\ stamped[o] = 0
    /\ stamped' = [stamped EXCEPT ![o] = clock']
    /\ UNCHANGED << updated, leased, reader, truths >>

AppendStamped(o) ==
    /\ stamped[o] > 0
    /\ updated' = [updated EXCEPT ![o] = stamped[o]]
    /\ stamped' = [stamped EXCEPT ![o] = 0]
    /\ UNCHANGED << clock, leased, reader >>
    /\ Witness

(* A slip: the claim does not count as a change of the order.              *)
ClaimUntouched(o) ==
    /\ Reads
    /\ updated[o] > 0 /\ o \notin leased
    /\ leased' = leased \cup { o }
    /\ UNCHANGED << updated, stamped, reader >>
    /\ Witness

(* claim_work_order: lease and order under one lock, the clock read within.*)
(* The statuses are left out; an order is claimed once.                    *)
Claim(o) ==
    /\ Reads
    /\ updated[o] > 0 /\ o \notin leased
    /\ leased' = leased \cup { o }
    /\ updated' = [updated EXCEPT ![o] = clock']
    /\ UNCHANGED << stamped, reader >>
    /\ Witness

(* Its second transaction fails.                                           *)
ClaimFails(o) ==
    /\ Reads
    /\ updated[o] > 0 /\ o \notin leased
    /\ leased' = leased \cup { o }
    /\ reader' = [reader EXCEPT !.broken = Serving \/ reader.broken]
    /\ UNCHANGED << updated, stamped >>
    /\ Witness

(* require_approval and apply_approval, under one lock with their reads.   *)
Touch(o) ==
    /\ Reads
    /\ updated[o] > 0
    /\ updated' = [updated EXCEPT ![o] = clock']
    /\ UNCHANGED << leased, stamped, reader >>
    /\ Witness

(* universe: Jeryu is asked first.                                         *)
Fetch ==
    /\ reader.pc \in { "idle", "done" }
    /\ \E answer \in Answers :
         reader' = [Idle EXCEPT !.pc = "fetched", !.answer = answer, !.snapshot = Snapshot(answer)]
    /\ truths' = [r \in Repos |-> { Placement(r, updated, leased) }]
    /\ UNCHANGED << clock, updated, leased, stamped >>

(* A list that cannot be read is taken for an empty one.                   *)
ReadOrders ==
    /\ reader.pc = "fetched"
    /\ \/ reader' = [reader EXCEPT !.pc = "ordered", !.orders = updated]
       \/ reader' = [reader EXCEPT !.pc = "ordered", !.broken = TRUE]
    /\ UNCHANGED << clock, updated, leased, stamped, truths >>

Composed(leases, broken) ==
    reader' = [reader EXCEPT !.pc = "done", !.broken = @ \/ broken,
                             !.picture = Compose(reader.orders, leases, reader.snapshot)]

ReadLeases ==
    /\ reader.pc = "ordered"
    /\ Composed(leased, FALSE) \/ Composed({}, TRUE)
    /\ UNCHANGED << clock, updated, leased, stamped, truths >>

UniverseNext ==
    \/ \E o \in Orders :
         Stamp(o) \/ AppendStamped(o) \/ Claim(o) \/ ClaimFails(o) \/ Touch(o)
    \/ Fetch \/ ReadOrders \/ ReadLeases

UniverseSpec == UniverseInit /\ [][UniverseNext]_universeVars

-----------------------------------------------------------------------------
(* Properties. *)

(* Degradation is explicit: a picture that is not live says why, down to   *)
(* each repository that is not fully observed; a coverage of 100 is never  *)
(* the work of rounding; and only a well-formed answer has no reason.      *)
DegradationExplicit ==
    reader.pc = "done" =>
      LET picture == reader.picture
          answer  == reader.answer
      IN  /\ ~ picture.live => picture.reasons # {}
          /\ \A r \in Repos : picture.coverage[r] < 100 =>
               \E field \in { "task", "branch", "pool" } : << r, field >> \in picture.reasons
          /\ picture.live <=> picture.observed = 100
          /\ reader.snapshot.reason = {} =>
               /\ answer.failure = None
               /\ \A i \in DOMAIN answer.tools : answer.tools[i].whole

(* Orders and leases are read at different times, yet what the picture     *)
(* says of a repository (its latest order, and who holds it) was so at     *)
(* some moment while the request was served, unless the store failed.      *)
ShownWasTrue ==
    reader.pc = "done" /\ ~ reader.broken =>
      \A r \in Repos : reader.picture.places[r] \in truths[r]

(* No tool is lost between Jeryu and the picture, and no repository looks  *)
(* better than the worst of its tools unless Jeryu itself says so.         *)
NodesFaithful ==
    reader.pc = "done" =>
      LET answer == reader.answer
          tools  == reader.snapshot.tools
          nodes  == reader.snapshot.nodes
          Vouched(name) == \E j \in DOMAIN answer.records :
                              answer.records[j].name = name /\ answer.records[j].health # None
      IN  /\ answer.failure = None => Len(tools) = Len(answer.tools)
          /\ answer.records = << >> =>
               \A i \in DOMAIN tools : tools[i].repo \in { node.name : node \in nodes } \cup { None }
          /\ \A node \in nodes : \A i \in ToolsOf(tools, node.name) :
               Vouched(node.name) \/ Rank(node.health) >= Rank(tools[i].health)
=============================================================================
