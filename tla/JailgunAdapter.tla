--------------------------- MODULE JailgunAdapter ---------------------------
(***************************************************************************)
(* The jailgun adapter (crates/jmcp-adapter-jailgun/src): a run is started *)
(* over HTTP and its summary awaited, first over MCP and, should that not  *)
(* give one, over REST; a review packet is made by a child process.        *)
(***************************************************************************)
EXTENDS AdapterCall

CONSTANTS
    Accounts,         \* browser accounts
    JailgunTimeout,   \* the adapter's timeout, of each wait and each child
    JailgunRequest,   \* the HTTP client's timeout
    JailgunDelay,     \* the pause between two polls
    RetryDelay,       \* the pause after a busy executable, times the attempt
    Garbled           \* a value of the wrong JSON type

ASSUME JailgunAssumption ==
    { JailgunTimeout, JailgunRequest, JailgunDelay, RetryDelay } \subseteq Nat

Channels == { "mcp", "rest" }

JailgunCalls ==
    [pc : { "prepare", "start", "packet" }] \cup
    [pc : { "accepted" }, accepted : BOOLEAN] \cup
    [pc : { "wait" }, channel : Channels, since : 0 .. MaxTime, local : BOOLEAN] \cup
    [pc : { "review", "child" }, attempt : 0 .. 4]

JailgunRoute(kind) ==
    CASE kind \in { "run", "deploy" } -> "prepare"
      [] kind = "packet"              -> "packet"
      [] OTHER                        -> "none"

WaitBudget == JailgunTimeout + JailgunDelay + JailgunRequest

JailgunBudget(kind) ==
    IF kind = "packet"
    THEN JailgunTimeout + 10 * RetryDelay
    ELSE JailgunRequest + 2 * WaitBudget

-----------------------------------------------------------------------------
(* require_wire_version and ensure_no_prompt_text, of what the engine left.*)
Clean == job.clean

(* run_agent_request.  The accounts of a request may be given as a list in *)
(* browser.account_ids, as a list in account_ids, as one id in account, or *)
(* in several of these ways.                                               *)

Aliases(r) == { r.browser, r.top, r.account } \ { None }

Duplicates(list) == \E i, j \in DOMAIN list : i # j /\ list[i] = list[j]

(* A slip: the first alias wins.                                           *)
CanonicalizeFirst(r) ==
    IF Garbled \in Aliases(r) THEN Garbled
    ELSE IF r.browser # None THEN r.browser
    ELSE IF r.top # None THEN r.top
    ELSE r.account

(* canonicalize_run_request, account_ids, reject_duplicate_accounts: the   *)
(* accounts the request is sent with, Garbled if it is refused.            *)
Canonicalize(r) ==
    CASE Aliases(r) = {} -> None
      [] \E list \in Aliases(r) \ { Garbled } :
           Aliases(r) = { list } /\ ~ Duplicates(list) ->
             CHOOSE list \in Aliases(r) : TRUE
      [] OTHER -> Garbled

(* The payload holds a request of the wire version, or the path of one.    *)
RequestOf(o) == IF o.valid THEN Canonicalize(o.request) ELSE Garbled

(* Nothing is sent unless the request is whole and the endpoint and its    *)
(* token are configured and allowed (validate_jailgun_client_config).      *)
Prepare ==
    /\ call.pc = "prepare"
    /\ call' = IF RequestOf(order) # Garbled /\ order.configured
               THEN [pc |-> "start"] ELSE Failed
    /\ UNCHANGED << order, expires, now, job, phases, starts, manifest >>

(* start_run: the request reaches the engine, or does not.                 *)
StartRequest ==
    /\ call.pc = "start"
    /\ \/ Begins(RequestOf(order)) /\ call' = [pc |-> "accepted", accepted |-> TRUE]
       \/ NothingBegins /\ call' = [pc |-> "accepted", accepted |-> FALSE]
    /\ UNCHANGED << order, expires, now, phases, manifest >>

(* A slip: a start that is not answered is sent again.                     *)
StartUnansweredAgain ==
    /\ call.pc = "accepted"
    /\ \E d \in Within(JailgunRequest) : now' = Later(d)
    /\ call' = [pc |-> "start"]
    /\ UNCHANGED << order, expires, job, phases, starts, manifest >>

StartUnanswered ==
    /\ call.pc = "accepted"
    /\ \E d \in Within(JailgunRequest) : now' = Later(d)
    /\ call' = Failed
    /\ UNCHANGED << order, expires, job, phases, starts, manifest >>

(* The answer names the summary: with an id MCP is asked first.  What it   *)
(* names may lie outside the engine's origin.                              *)
StartAnswered ==
    /\ call.pc = "accepted"
    /\ call.accepted
    /\ \E d \in Within(JailgunRequest) : now' = Later(d)
    /\ \E channel \in Channels, local \in BOOLEAN :
         call' = [pc |-> "wait", channel |-> channel, since |-> now', local |-> local]
    /\ UNCHANGED << order, expires, job, phases, starts, manifest >>

-----------------------------------------------------------------------------
(* wait_for_summary. *)

(* evidence_for_summary.                                                   *)
SummaryEvidence ==
    { { "jailgun.run", "jailgun.summary", "jailgun.events", "jailgun.prompt_ref" }
        \cup (IF job.receipts THEN { "jailgun.receipt" } ELSE {}) \cup extra :
        extra \in SUBSET { "jailgun.events.summary-path", "jailgun.artifact",
                           "jailgun.failures.digest" } }

(* execute_run_agent, once it has a summary: its url is local, the run     *)
(* succeeded, and a deployment left receipts.                              *)
Accepts(local) ==
    /\ local
    /\ job.status = "succeeded"
    /\ order.kind = "deploy" => job.receipts

TakeSummary(local) ==
    IF Accepts(local)
    THEN \E kinds \in SummaryEvidence : call' = Ended(kinds)
    ELSE call' = Failed

GoRest(local) ==
    call' = [pc |-> "wait", channel |-> "rest", since |-> now', local |-> local]

(* The job still runs: after a pause it is asked for again.                *)
WaitOn(d) ==
    /\ now' = Later(d + JailgunDelay)
    /\ call' = call

Waited(d) == now + d - call.since

(* mcp_tool_call: no answer, one that is an error or lacks its parts, or   *)
(* none before the time is up.  REST is tried next, with the whole timeout *)
(* again.                                                                  *)
McpFails(d) == now' = Later(d) /\ GoRest(call.local)

(* wait_for_mcp_summary, one turn.  A job that has not settled is reported *)
(* as running; any other word for it ("queued") is taken for a summary,    *)
(* which is then not accepted.                                             *)
McpTurn ==
    /\ call.pc = "wait"
    /\ call.channel = "mcp"
    /\ \E d \in Within(JailgunRequest) :
         \/ McpFails(d)
         \/ /\ job.status = "running"
            /\ Waited(d) < JailgunTimeout
            /\ WaitOn(d)
         \/ /\ Clean
            /\ now' = Later(d)
            /\ TakeSummary(call.local)
    /\ UNCHANGED << order, expires, job, phases, starts, manifest >>

(* wait_for_rest_summary, one turn: the same, by the status of the answer. *)
RestTurn ==
    /\ call.pc = "wait"
    /\ call.channel = "rest"
    /\ IF ~ call.local
       THEN now' = now /\ call' = Failed
       ELSE \E d \in Within(JailgunRequest) :
              \/ now' = Later(d) /\ call' = Failed
              \/ /\ job.status = "running"
                 /\ IF Waited(d) >= JailgunTimeout
                      THEN now' = Later(d) /\ call' = Failed
                      ELSE WaitOn(d)
              \/ /\ now' = Later(d)
                 /\ IF Clean THEN TakeSummary(call.local) ELSE call' = Failed
    /\ UNCHANGED << order, expires, job, phases, starts, manifest >>

-----------------------------------------------------------------------------
(* execute_review_packet. *)

PacketPrepare ==
    /\ call.pc = "packet"
    /\ call' = IF order.valid THEN [pc |-> "review", attempt |-> 0] ELSE Failed
    /\ UNCHANGED << order, expires, now, job, phases, starts, manifest >>

Retry ==
    /\ now' = Later(RetryDelay * (call.attempt + 1))
    /\ call' = [call EXCEPT !.attempt = @ + 1]

(* A slip: one attempt too many.                                           *)
PacketBusyOnceMore ==
    /\ call.pc = "review"
    /\ \/ call.attempt < 5 /\ Retry
       \/ now' = now /\ call' = Failed
    /\ UNCHANGED << order, expires, job, phases, starts, manifest >>

(* run_with_retry: a busy executable is tried again, four times; busy once *)
(* more, or not to be started for another reason, it ends the call.        *)
PacketBusy ==
    /\ call.pc = "review"
    /\ \/ call.attempt < 4 /\ Retry
       \/ now' = now /\ call' = Failed
    /\ UNCHANGED << order, expires, job, phases, starts, manifest >>

PacketRuns ==
    /\ call.pc = "review"
    /\ Begins(None)
    /\ call' = [pc |-> "child", attempt |-> call.attempt]
    /\ UNCHANGED << order, expires, now, phases, manifest >>

(* The child is left alone when its time is up.                            *)
PacketTimesOut ==
    /\ call.pc = "child"
    /\ now' = Later(JailgunTimeout)
    /\ call' = Failed
    /\ UNCHANGED << order, expires, job, phases, starts, manifest >>

(* review_packet_evidence, on the file the child has written.              *)
PacketEvidence == IF Clean THEN { "jailgun.review_packet" } ELSE {}

(* run_checked: the digest of a failed child's output becomes the error.   *)
PacketExits ==
    /\ call.pc = "child"
    /\ job.status # "running"
    /\ \E d \in Within(JailgunTimeout) : now' = Later(d)
    /\ call' = IF job.status = "succeeded" THEN Ended(PacketEvidence) ELSE Failed
    /\ UNCHANGED << order, expires, job, phases, starts, manifest >>

JailgunStep ==
    \/ Prepare \/ StartRequest \/ StartUnanswered \/ StartAnswered
    \/ McpTurn \/ RestTurn
    \/ PacketPrepare \/ PacketBusy \/ PacketRuns \/ PacketTimesOut \/ PacketExits
=============================================================================
