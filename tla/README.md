# JMCP: specification, model checking and proofs

JMCP is a local control plane.  Work orders enter through signed envelopes,
are leased to adapters or held behind an approval gate, and everything is
kept in one SQLite store: an event log and tables projected from it.  One
process, `jmcpd`, owns the store behind a mutex.  Inside it run the HTTP
surface, a Telegram poll loop and the microtask dispatch loop.

This directory holds TLA+ modules of the parts where order, failure and time
decide what is right, the TLC configurations that check them on small
instances, and proofs that TLAPS checks for all instances.

## Inventory

| component | state | operations | hard behaviour | what makes it correct |
|---|---|---|---|---|
| domain (`jmcp-domain`) | status of a work order; leases; approvals; challenges | submit, lease, require_approval, apply_approval, complete, fail; challenge decide | deadline boundaries, two clock reads | statuses move only from the allowed ones; a challenge is answered once |
| approval flow (`jmcp-app/approval_flow.rs`) | tables work_orders, approvals, approval_challenges | create a challenge (HTTP or Telegram), decide by token | three transactions per request, several approvers and tokens per order, expiry, retries | one decision per order; no token spent for nothing; deadlines agree |
| dispatcher (`jmcp-app/dispatch.rs`, `jmcpd/dispatch_loop.rs`, `jmcp-adapter-sdk`) | the loop's list, the claimed copy, table leases | generate, sweep, claim, execute, record | stale list, stale copy across an await, torn claim, crash, errors that end a sweep | only R0 microtasks run unattended; a claim is exclusive; claims settle; nothing starves |
| store (`jmcp-store`) | event log, tables, replay checkpoints | append/record, rebuild, events_after | rebuild against a live system; readers with cursors | tables and log agree; readers see each event once |
| Telegram poll loop (`jmcpd/main.rs`, `telegram_helpers.rs`) | offset file, the batch fetched | get updates, persist the offset, handle | crash between persisting and handling, an offset file cut off in a write, updates served again | no update is handled twice; a fault costs one update at most |
| voice approval (`jmcpd/voice_*.rs`, `jmcp-approval-telegram/voice.rs`) | the last token of each user, in memory | remember, evaluate, decide, forget | replaced and forgotten challenges, restarts, several chats of one person | a voice decides only what its speaker was asked last |
| adapters (`jmcp-adapter-*`, `jmcp-adapter-sdk`) | the job at an engine; a temporary manifest | start, poll, wait, time out | requests that may have arrived, jobs that settle after the last poll, waits one after the other, busy executables | evidence only of jobs that are done; one job per call; the call ends before its lease |
| envelope and signer (`jcp-core`) | key file, temporary files | load_or_create, sign, verify | several processes create the key; steps that fail | one seed for everybody; what is stored was signed |
| microtask catalogue, autonomous actions (`jmcp-app`) | none of their own | submit one, queue the catalogue | a batch cut off in the middle; overrides from outside | overrides never go beyond a card; a batch leaves its front |
| universe (`jmcp-api/universe*.rs`, `jmcp-adapter-jeryu/ecosystem.rs`) | none; reads Jeryu, orders, leases | compose a picture | three readings at different times; partial and ill-formed answers | what is shown was so; what is missing is said |
| control-plane records, attention policy, conformance, jmcpctl, TUI, cockpit, web, Python services | rows written once; views | translation, listing | little | see "Not modelled" |

How they interact: HTTP and Telegram requests and the dispatch loop call
`AppState` methods, which take the store lock.  A method that does several
writes commits each in its own transaction while it holds the lock.  The
dispatch loop gives the lock back while an adapter runs.  The rebuild
(`POST` replay) replaces all tables in one transaction under the lock.  The
signing key is shared by processes through a file only.

## Modules

| module | stands for |
|---|---|
| `WorkOrders` | vocabulary: statuses, from where each method moves, `ApprovalChallenge::decide`, lapse of deadlines |
| `ApprovalGate` | abstract specification: a gate per order, one window per approver that never moves, one decision while a window is open |
| `Ledger` | abstract specification: the status of an order in two columns; a change enters both, a mark the first, what joins the second; a restoration takes the first back to the second |
| `Intake` | abstract specification: lists are asked for, sealed as a whole, and enter the store entry by entry, each list in its order |
| `ApprovalFlow` | `create_approval_challenge` and `decide_approval_by_token` over the tables |
| `Dispatcher` | extends `ApprovalFlow` on the same tables: the loop, the adapters, faults, rebuild, crash |
| `TelegramLoop` | extends `ApprovalFlow` on the same tables: Telegram, the poll loop, its offset file, the voice book, crashes, beside the HTTP surface |
| `EventStore` | the event log, live projection, replay and rebuild, checkpoints, `/events` streams |
| `AdapterCall` | what every call of an adapter shares: order, lease, clock, the job at its engine |
| `JekkoAdapter`, `ZyalAdapter`, `JailgunAdapter` | the steps of these three adapters |
| `Adapters` | composes them with jankurai and jeryu into one call of `execute_with_lease` |
| `KeyStore` | `LocalSigner::load_or_create`, step by step, in several processes |
| `Microtasks` | the catalogue, overrides, payloads of microtasks and actions; no state |
| `Submission` | extends `KeyStore` and `Microtasks`: requests that sign, check and store envelopes |
| `Ecosystem` | what is made of Jeryu's answer; no state |
| `Universe` | extends `Ecosystem`: the request for the picture, beside a store that changes |
| `*Proofs` | theorems about the module of that name (`TelegramProofs` about `TelegramLoop`) |
| `MC*` | constants of the checked instances |

**ApprovalFlow.**  `orders`, `approvals` and `challenges` are the three tables
(status column; rows by order and approver; rows by challenge id), `now` the
wall clock, and `handler` the request that holds the store lock, with the
local variables it still needs.  `Submit` is `submit_envelope`.  `OpenGate`
and `JoinGate` are the two arms of the match in `create_approval_challenge`,
up to its first write; `CreateRecordApproval` and `CreateRecordChallenge` are
its last two transactions.  `DecideExpired` and `DecideLookup` are the outcomes
of `ApprovalChallenge::decide` that change something; `DecideApply` or
`DecideRefused` is `apply_approval`, and two more steps are the remaining
transactions.  `Interrupt` drops the rest of a request, for a failed
transaction or a killed process.  A token is the id of its challenge; hashes
are not modelled, as nothing depends on more than their being different.
A row of `approvals` outlives its order's decision, as in the code.

**Dispatcher.** `loop` is where the loop's thread is and what it has left,
`task` the microtask in flight with the copy `claim_work_order` returned.
`Record` writes that copy's successor over the stored row, whatever it holds by
now. `logged` is what a rebuild would make of an order, its last `work_order.*`
event; events named `microtask.*` do not count, as in `replay_projection`.
Leases, approvals and challenges are logged whole with each write, so a rebuild
leaves them as they are; of leases only the presence of a row matters. A claim
may be torn between its two writes by a store error, or by a crash, which counts
as one (`ClaimTorn`), and the list of orders may fail to be read (`ListFails`).
What the payload says of an order is the constant `Payload`. The dedup guard
looks at the id and repository of a microtask; the loop generates one id, so the
repository is the key. `runs`, `rebuilt` and `crashes` are history variables.

**EventStore.** `log` is table events, the position of an event its id; `tables`
are the others, those whose rows are replaced whole folded into one (`rows`),
since each is written and replayed the same way. `Record` is `append_work_order`
and every `record_*`; `Projected` is what a live write does to its table,
`Replayed` one turn of `replay_projection`. The rebuild is three steps under one
lock, and may fail between them. `record_evidence` is called by tests only, so
nothing in the program relies on how evidence joins an order. A stream is one
connection to `/events`; a browser that reconnects opens a new one and is sent
everything behind its `after` again; an `after` below zero, which the route
takes, is the same as zero. `Dispatcher` keeps of the log only what its own
writes make of it (`logged`), the status in the last `work_order.*` event. That
this is what a rebuild makes of an order, whatever else is in the log, is the
theorem `RebuildsFromLastChange`; that the store and the loop agree on how the
table and `logged` move is that both implement `Ledger`, `EventStore` as
`ImplementsLedger`, with the rows of the live table and those
`replay_projection` would make, and `Dispatcher` as `FollowsLedger`, with
`orders` and `logged`. `Fold` is the loop of `replay_projection` as a recursive
function over the events, and `Replay(n)` its result for the first n of the log.

**TelegramLoop.** The requests of the loop are ApprovalFlow's: `task` says where
the handler of an update is, and `handler` which of its transactions come next,
so the loop, the HTTP surface (`HttpRequest`, `HttpStep`) and the clock
interleave on one store. A request of the loop may fail at its first transaction
or between any two (`StoreFails`). That nothing the daemon does is outside
`ApprovalFlow` is the theorem `DaemonFollowsFlow`; it is no property of a run,
as the requests are `ApprovalFlow`'s own actions. Telegram is external: it keeps
`inbox` until a `getUpdates` with a higher offset confirms it. `Fetch` is one
such call, whose answer may be lost; `Persist` writes the offset file before the
handler starts, as the code does; `Crash` loses the batch, the handler and the
voice book, and may leave the file truncated, which reads as no offset. People
write only while nothing else is under way (`Write` asks for a quiet daemon): an
update that comes later is fetched later, and is the same to the loop. The env
file is parsed as lines: a list adds to the one before it, the last token
counts, and an ill-formed file leaves the daemon without its bot. Words of a
voice are the flags `parse_voice_reply` makes of them.

**Adapters.** A call is a program counter with its locals, `job` the truth at
the engine, which settles whenever it likes (`JobSettles`, `PhaseSettles`) and
which the adapter sees only when it asks. A request may take effect and not be
answered. Time passes only while the call waits or sleeps: a wait takes nothing
or all of its timeout, which are the two ends of what it may take. A packet
program that is busy is tried again, and one that cannot be started for another
reason ends the call (`PacketBusy`); a summary in a word that is neither running
nor settled is taken and not accepted (`McpTurn`). A jekko child of a zyal run
has no timeout in the code; `ChildHangs` ends in a state of its own, `hung`.
Evidence is kept as its set of kinds.

**KeyStore and Submission.** `load` is where each loader is in
`load_or_create`: look, draw a seed, create and write the temporary file, link
it to its place, unlink it, read back. `temp` holds the temporary files, `key`
the seed in the file, `None` before. Steps may fail, and a load may be cut off
between any two by the death of its process, `MaxFaults` times in all; a daemon
that dies with several loads under way is several of these faults. A request in
`Submission` is one such load after another: it loads the signer to sign and
again to check each envelope. A payload is a record, its hash is the payload,
and a signature is the seed with the version and the hash. An envelope may be
changed on its way: its payload, its payload and hash, its version (which also
stands for its subject), or it may be another key's. `Microtasks` holds the
seven entries of the catalogue with their real caps (hours in half hours), and
the refusals of overrides. Prompts and other texts are left out. `PlacesOf(r)`
are the positions in the store of what a request has left there, and `Nth(r, i)`
says the how-manieth of them a position is. `Intake` is seen through `Desk`: of
each request the payloads it asked for (`Wanted`) and how many of them are
stored (`Count`), whether its whole list was signed (`sealed`), and the store as
it grew. Keys, envelopes, checks and faults are not part of it.

**Universe.** Orders are stamped before the store is locked and appended later,
claimed together with their lease, or touched by the approval flow; their
statuses are left out, and an order is claimed once. A request asks Jeryu, then
reads the orders, then the leases. A list that cannot be read counts as empty,
which the history variable `broken` records. The clock moves with each reading,
so no two orders were changed at one instant; the code would break a tie by the
order of the list. A rebuild between the two readings is not an action, as it
leaves the rows of leases as they are. Scores and health levels are left out:
nothing is decided by them. Answers are finite lists of raw tools and
repositories (`AnswersAssumption`), which is what `serde_json` makes of an
array.

## Runs

| run | instance | shows |
|---|---|---|
| `approval_flow` | 2 orders, 2 tokens, 2 approvers, one of them in 2 chats, lifetimes -1 and 1, clock 0..2 | `TypeOK`, `DecisionTrail`, `SingleDecision`, `DeadlineAgreement`, `SpentTokenStays`, and the refinement `ImplementsGate` |
| `dispatcher` | 2 generated microtasks of one repository, 1 live microtask submitted by hand, 1 token, store errors, 1 crash, rebuilds | `AllTypeOK`, `LeaseOnRecord`, `OneOpenPerRepo`, `RunAtMostOnce`, `HumanOrdersKeepTheGate` |
| `dispatcher_progress` | 1 generated, 1 submitted and 1 unroutable microtask, no faults, fairness | `LeasedSettles`, `NoStarvation` |
| `event_store` | 1 order, 1 key, 2 contents, 1 stream, logs of up to 3 events of all kinds | `StoreTypeOK`, `TablesFollowLog`, `CheckpointsHold`, `StreamsExact` |
| `telegram` | 1 person in 2 chats and the operator at the HTTP surface, 2 orders, 2 tokens, 3 updates of 4 kinds, 5 env files, clock 0..1, 1 fault | `AllTypeOK`, `HandledOnce`, `NoneLost`, `VoiceAnswersLastPrompt`, `AnsweredByHolder`, and `SingleDecision` for orders both surfaces hold tokens of |
| `adapters` | one call of every kind of order, valid and not, configured and not, all ways to name accounts | `AdapterTypeOK`, `EvidenceMeansDone`, `ReportHonest`, `ManifestRemoved`, `StartedAtMostOnce`, `EndsInTime`, `AccountsAgree`, `ExecuteEnds` |
| `submission` | 2 processes, 3 seeds, 1 fault or death; microtasks, actions and batches with overrides at and beyond their caps, and envelopes changed on their way | `SubmitTypeOK`, `SignersAgree`, `TempsAccounted`, `BatchIsPrefix`, `OrdersWithinCard`, and the refinement `ImplementsIntake` |
| `universe` | 2 orders, 5 answers of Jeryu, clock 0..5 | `DegradationExplicit`, `ShownWasTrue`, `NodesFaithful` |
| `renewal` | as `approval_flow`, lifetime 1 | violated: `RenewalExtendsDeadline` |
| `human_gate` | 1 microtask, no faults | violated: `AwaitingLeftAlone` |
| `replay_reruns` | 1 microtask, rebuilds | violated: `ReplayRunsNothingTwice` |
| `crash_strands_lease` | 1 microtask, 1 crash, fairness | violated: `LeasedSettles` |

Bounds.  Two orders let a token meet an order it was not made for; two tokens
are two approvers on one order, or two requests of one approver, or two chats
of one person.  Clock 0..2 with lifetime 1 has an instant before, at and after
a deadline; -1 is a window closed when it opens, which the HTTP surface
accepts.  Two generated microtasks of one repository are what the dedup guard
must keep apart.  Three events are a first row, evidence or a microtask event
on it, and a last row, with a rebuild at any point.  Three updates are a
submission, a later one that replaces its challenge in the voice book, and an
answer.  Two processes are enough for a lost race for the key, three seeds for
a process that draws again.  Two orders are the one a picture shows and the
one that overtakes it while the picture is made.  `MaxTime`, `MaxCrashes`,
`MaxFaults`, `MaxUpdates`, `MaxPhases` and `MaxEvents` are the bounds in guards
of the models; the finite supplies of orders and tokens (`Unused`, `TokenLeft`)
bound the rest.

Two instances are cut by a CONSTRAINT, each where three things would have to
meet that the properties tell apart in pairs. `TwoBatchesBounded` follows two
whole batches beside each other up to their sixth order, by which each may have
overtaken the other and been cut off; a batch beside any other request goes to
its end. `CrashOrRebuildInTime` stops the clock of `dispatcher` after both a
crash and a rebuild; leases and approvals lapse with either of them. The proofs
know none of these bounds. In `telegram` the env file that names no user lets
people in from the group chat only, where what is written from home is ignored.

In `adapters` time is counted in half seconds for jekko, with the values of the
code for its client (240), pause (1) and polls (3), and in the same numbers as
the code's seconds for jankurai (60), the lease (1800) and the forge (120);
waits of zyal and jailgun are scaled down to a few polls.  Its clock stops at a
bound that lies beyond every budget (`BudgetAssumption`), and is never reached.

Deadlock.  `approval_flow`, `renewal` and `telegram` turn the check off: when
every order is decided, every update handled and the clock at its bound,
nothing is left to do.  In `adapters` the call has ended, and in `submission` all
requests have been served.  The loop of `Dispatcher` never stops, and the
picture of `Universe` can always be asked for again.

Fairness.  A request that holds the lock runs straight-line code to its end:
weak fairness of `RequestGoesOn`.  The loop's thread finds the lock taken and
free in turn and gets it in the end, and an adapter's run returns, which its
own timeouts provide: strong fairness of `LoopStep`.  A call of an adapter is
polled by the runtime, and every request and every child with a timeout
returns when that is up: weak fairness of `CallStep`.  Engines, the clock,
requests and faults have no fairness.  `ExecuteEnds` allows for one end that
is none: a jekko child that hangs.  `TelegramLoop` states no liveness: what the
loop owes its users depends on Telegram, and on people.

What the four violations say of the code:

* `renewal`: an approver whose approval has lapsed gets the same lapsed
  deadline with every new token, while the error message tells them to ask for
  one.  Another approver can still be asked.
* `human_gate`: an approval asked for while a microtask is running is
  overwritten by the result of the run, against the loop's module comment.
  Orders the R0 gate keeps from the loop are not affected, which is
  `HumanOrdersKeepTheGate`.
* `replay_reruns`: a rebuild returns a dispatched order to `Submitted`, since it
  does not read `microtask.*` events, and the loop runs it again.
* `crash_strands_lease`: an order leased at the time of a crash stays `Leased`,
  and the dedup guard generates no successor for its repository.

Each property of a passing run has a mutant in PROJECT.json, a slip of one
definition that makes it fail; the slips are defined next to what they replace.

## Theorems

Each holds for every value of the constants, under the assumptions named in
the modules.  All proofs are checked from nothing in a few minutes.

**`ApprovalFlowProofs`** (an actor has one approver name, lifetimes are integers,
the clock's bound is a natural number).  `TypeCorrect`, `TrailIsKept`,
`DecidedOnce`, `DeadlinesAgree` are the four invariants of the run,
`SpentTokensStay` the action property, and `FlowImplementsGate` is
`Spec => Gate!Spec`.  The invariants are not inductive.  `Inv` adds what a
pending request relies on because it holds the lock: `CreateProgress` (between
the writes of a creation the order awaits approval, the approval in hand
agrees with what is stored, and nobody has decided), `DecideProgress` (between
the writes of a decision the order has gone where the decision sends it, no
approval of it is decided yet or only the one of this token), and
`GateBeforeApproval` (an approval row exists only for orders whose gate was
opened).  `Invariance` proves `Spec => []Inv`, one lemma per action; the others
follow from `Inv`.

**`TelegramProofs`**. `DaemonFollowsFlow` maps every step of the daemon to a
step of `ApprovalFlow` or a stutter, so the theorems above hold of the daemon
(`DaemonDecidesOnce`, the run's `SingleDecision`, is one). `UpdatesHandledOnce`
needs `PollInv`: the batch follows the offset, the file holds the offset or
nothing, and unless the file was torn no update from the offset on was ever
begun. `NothingLost` adds a count of what each fault has cost (`CostInv`).
`TokensAnsweredByHolder` rests on `HolderInv`: the token in a handler's hands
belongs to the one who wrote the update. `VoicesAnswerLastPrompt` needs
`VoiceInv`: what was minted in this life was minted for updates behind the
offset, one update mints one token, and the book holds for each person a token
no older than any minted for them, but for the one a prompt is about to enter.
`DaemonTypesHold` bounds how often an update is begun (`CountInv`: once for each
fault so far, and once more when the offset has passed it).

**`DispatcherProofs`** (`GeneratedAssumption`: what the loop generates are
microtasks).  The tables of `Dispatcher` do not follow `ApprovalFlow`, since a
rebuild takes them back.  What a rebuild would make of them does:
`LogFollowsFlow` instantiates `ApprovalFlowProofs` over `logged` and proves
`LoopSpec => Flow!Spec`, by `LogLink`, which says how far a row and its log may
be apart.  `LeasesOnRecord`, `OrdersRunOnce` (`RunInv`: an order in an
adapter's hands, or run before, has left `Submitted` until a rebuild takes it
back, and a claimed one has not run), `OneMicrotaskPerRepo` (`RepoInv`: from the
loop's look at the list to its submission the repository stays free),
`HumanOrdersAreGated` (the gate of orders the R0 rule keeps from the loop,
by the same refinement as before) and `LoopTypesHold` are the run's properties.
Two more are only proved.  `HumanOrdersNeverRun`: the orders the R0 rule keeps from
the loop are never leased and no adapter ever runs them, by `HumanInv` (they are
neither in the loop's list nor in its hands) and `Untouched`.  `LoopKeepsLedger` is
`LoopSpec => FollowsLedger`: a request changes one order in the table and in the
log (`RequestChanges`), a claim and a result are marks, the rebuild is the
restoration, and all else is a stutter.

**`EventStoreProofs`** (`MaxEventsAssumption`, `NobodyAssumption`).  Two lemmas say
what replay is: `FoldEmpty`, and `FoldAppend`, one more event is one more turn of
the loop.  They are by induction over the naturals, in the form `NatSetInduction`
(a set that holds 0 and is closed under the next holds every natural number),
which follows from the naturals being well founded.  `LogInduction` is the same
over the events of a log.

* `RebuildsFromLastChange` is about `replay_projection` itself, for any sequence
  of events: an order becomes what its last `work_order.*` event says, with the
  evidence recorded behind that event; an order without one is unknown; and
  `microtask.*` events leave no trace, which is what `replay_reruns` shows going
  wrong.
* `CheckpointsTrue` rests on `StoreInv`: while a rebuild holds the lock, what it has
  in hand is the replay of the log as it is, and replay is typed and knows
  finitely many orders at every point of the log.
* `TablesAlwaysFollow` is inductive next to `StoreInv`: each event does the same to
  the live tables and to the replay of the log, except for the two cases the
  property leaves out (`OneEvent`), and a rebuild makes them equal.
* `StoreKeepsLedger` is `StoreSpec => ImplementsLedger`.  A write enters the table by
  projection and the other column by what it does to the last `work_order.*` event
  and the evidence behind it (`RecordEnters`): a status is a change, a
  `microtask.*` event a mark, evidence joins or, of an order nobody entered, is
  a stutter.  That the rebuild is a restoration (`ReplaceRestores`) needs
  `StoreInv`, since what it puts in place was folded before, and
  `RebuildsFromLastChange`.
* `StreamsAlwaysExact` needs `StreamInv`, which says of each stream what it has
  sent, position by position, and `StoreTypesHold` needs both.

**`KeyStoreProofs`** and **`SubmissionProofs`** (`SeedsAssumption`,
`FaultsAssumption`, `RequestsAssumption`).  `SignersAlwaysAgree` and
`KeyNeverReplaced` rest on `KeyInv`: each signer so far is made of the seed the
file holds now, and there is none before it holds one.  `RequestsShareOneKey`
is the same for requests that also fail elsewhere.  `TempsAlwaysAccounted` and
`RequestsAccountForTemps` count the files no loader will remove any more
(`TempInv`): only a fault adds one.  `OnlySignedIsStored` and
`NoOrderBeyondItsCard` follow from `SubmitInv`, which says of each envelope still
to be submitted that what the key has signed of it was signed for this request,
so that it is as signed or will be refused.

`BatchLeavesAPrefix` needs `AlongInv`, which counts: what a request has stored and
what it has still to submit are together the payloads it asked for, in their
order, and the i-th of its places in the store holds the i-th of them, wherever
the orders of other requests have come in between.  `NewPlace` and
`NthIsBounded` are what one more order does to the count.  `SubmitTypesHold`
follows from the same two invariants.

`SubmissionImplementsIntake` is `SubmitSpec => Desk!Spec`. `Receive` is the
asking, `Sign` the sealing, `AppendOrder` the entering of one entry, and all
else, a fault or a death included, is a stutter. The last is the hard one: by
`SubmitInv` what passed both checks is a payload of its own request, by its part
`SealInv` the whole list of that request was signed before any of it is on its
way to the store, and by `AlongInv` it is the next of them (`NextOfItsOwn`). It
implies `StoredAsSigned`, which no run lists beside it.

**`AdaptersProofs`** (`NoneAssumption`, `PollTimeoutAssumption`, and
`LeaseAssumption`: the lease is longer than the budgets of the adapters the
dispatcher drives, which TLC checks for the code's values).  `CallInv` ties
the place of a call to the kind of its order, to what was started, to the
manifest and to the accounts; from it `JobsStartedOnce`, `ManifestsRemoved`,
`EvidenceIsTrue` and `AccountsAlwaysAgree`.  `TimeInv` says how much time can have
passed at each place, polls and retries included; from it `CallsEndInTime`.
`ReportsAreHonest` rests on what a label and a percentage say of the snapshot they
are made of, and on phases that never leave a settled state.  `AdapterTypesHold`
puts the shapes of a call's locals together, one lemma per adapter (`JekkoShape`
and the like), with the clock's bound from `TimeInv`.

**`UniverseProofs`** (no order is called "unobserved"; answers are sequences).
`PictureWasTrue`: a lease that appears between the two readings comes with a
change that makes its order the latest of its repositories, so the order shown
and its holder were there together at one moment.  The other two say what a
picture may say whatever it was composed of, so all they need of the steps is
`PictureInv`: the picture is composed of the snapshot of the answer at hand, and
of some orders and leases.  `DegradationAlwaysExplicit` is then about the
arithmetic: a coverage is 100 exactly when nothing is missing (`CoverageExact`),
the average of four is 100 exactly when all are (`AverageExact`), and a snapshot
without a reason is of a well-formed answer (`SnapshotReasons`).
`NodesAlwaysFaithful` rests on `WorstToolCounts`: the health derived from a set of
tools ranks with the worst of them, for answers of any length.

Every invariant and every action property a passing run checks is proved, and so
are the refinements the runs check (`ImplementsGate`, `HumanOrdersKeepTheGate`,
`ImplementsIntake`). No run lists `FollowsApprovalFlow`, nor the two of
`Ledger`, which hold for any log and are proved of both modules. Model-checked
only are the liveness properties `LeasedSettles`, `NoStarvation` and
`ExecuteEnds`, since TLAPS proves nothing about fairness, and the four
violations, which are counterexamples.

## Not modelled

* Control-plane records (agents, workers, reviews, inboxes and the like): each
  is written whole and listed, as the keyed rows of `EventStore` are.  Samples
  that answer for an empty table, and health probes, decide nothing.
* Attention entries of orders that wait for approval: stored with the order,
  and read only to be shown.
* `jmcp-conformance`: static checks of fixtures.
* `jmcpctl`, the TUI, the cockpit and the web pages: clients of the HTTP
  surface.  The Python services and the speech adapter: one request, one
  answer.
* HTTP parsing and rendering, layouts, scores, texts of prompts and evidence.
* Envelope ids are not remembered by the code: an envelope sent again is a
  second order.  Nothing promises otherwise, so no property is about it.

## What is left

1. An abstract register, written once, that `KeyStore` and `Submission`
   implement, to stand beside `Intake`; the theorems about the key say as much,
   property by property.
2. The violation a rebuild makes of evidence that only a microtask event carries.
3. Liveness of the poll loop, on an instance of one order and one token.
