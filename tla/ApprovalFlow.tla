----------------------------- MODULE ApprovalFlow -----------------------------
(***************************************************************************)
(* crates/jmcp-app/src/approval_flow.rs over the tables of jmcp-store: how *)
(* approval challenges are created and decided.                            *)
(*                                                                         *)
(* Every request takes the store lock, does its reads, writes the tables   *)
(* in up to three SQLite transactions, and returns.  The transactions are  *)
(* separate steps here: the clock moves between them, and the request may  *)
(* stop between them, because a later transaction fails or because the     *)
(* process dies.  What is committed stays, what was to follow is lost.     *)
(*                                                                         *)
(* `handler` is the request that holds the lock, with its local variables. *)
(* The lock is why a row read early in a request is still the stored row   *)
(* at its end, so the locals kept are only those that are not in a table.  *)
(***************************************************************************)
EXTENDS WorkOrders, FiniteSets

CONSTANTS
    Orders,      \* work-order ids
    Approvers,   \* approver names: "local", "telegram:user:<id>", ...
    Actors,      \* who holds a challenge or answers one: an approver name
                 \* together with the Telegram user and chat it speaks from
    ApproverOf,  \* the approver name of an actor
    Tokens,      \* challenge ids; the token sent out is a fresh name for one
    TTLs,        \* the lifetimes requests ask for
    MaxTime      \* bound on the clock

ASSUME ApproverOfAssumption == ApproverOf \in [Actors -> Approvers]
ASSUME TTLsAssumption       == TTLs \subseteq Int
ASSUME MaxTimeAssumption    == MaxTime \in Nat

VARIABLES
    now,         \* the wall clock, Utc::now()
    orders,      \* table work_orders: the status column
    approvals,   \* table approvals, keyed by work order and approver
    challenges,  \* table approval_challenges, keyed by id
    handler      \* the request holding the store lock

vars == << now, orders, approvals, challenges, handler >>

Deadlines == { t + ttl : t \in 0 .. MaxTime, ttl \in TTLs }

(* Rows.  "Absent" in the first column means there is no row. *)
NoApproval   == [decision |-> "Absent"]
ApprovalRow  == [decision : { "None" } \cup Decisions, expires : Deadlines]
NoChallenge  == [state |-> "Absent"]
ChallengeRow == [state : ChallengeStates, order : Orders, actor : Actors,
                 expires : Deadlines]

Idle == [pc |-> "idle"]

CreateLocals == [pc : { "create_approval", "create_challenge" },
                 order : Orders, actor : Actors, approval : ApprovalRow]

DecideLocals == [pc : { "decide_apply", "decide_approval", "decide_challenge" },
                 token : Tokens, decision : Decisions]

TypeOK ==
    /\ now \in 0 .. MaxTime
    /\ orders \in [Orders -> { "Absent" } \cup Status]
    /\ approvals \in [Orders -> [Approvers -> { NoApproval } \cup ApprovalRow]]
    /\ challenges \in [Tokens -> { NoChallenge } \cup ChallengeRow]
    /\ handler \in { Idle } \cup CreateLocals \cup DecideLocals

Init ==
    /\ now = 0
    /\ orders = [w \in Orders |-> "Absent"]
    /\ approvals = [w \in Orders |-> [a \in Approvers |-> NoApproval]]
    /\ challenges = [c \in Tokens |-> NoChallenge]
    /\ handler = Idle

-----------------------------------------------------------------------------
(* Helpers. *)

HasApproval(w, a) == approvals[w][a].decision # "Absent"

(* The approval a challenge stands for: same order, same approver name. *)
ApprovalOf(c) == approvals[challenges[c].order][ApproverOf[challenges[c].actor]]

(* Tokens are a finite supply here; a new request needs one left. *)
TokenLeft == \E c \in Tokens : challenges[c] = NoChallenge

-----------------------------------------------------------------------------
(* Submission: AppState::submit_envelope ends in one append_work_order.    *)

Submit(w) ==
    /\ handler = Idle
    /\ orders[w] = "Absent"
    /\ orders' = [orders EXCEPT ![w] = "Submitted"]
    /\ UNCHANGED << now, approvals, challenges, handler >>

-----------------------------------------------------------------------------
(* create_approval_challenge.                                              *)

(* A Submitted or Leased order: require_approval moves it, that is         *)
(* committed, and a fresh approval is on its way to its table.             *)
OpenGate(w, actor, ttl) ==
    /\ handler = Idle
    /\ TokenLeft
    /\ orders[w] \in RequireApprovalFrom
    /\ orders' = [orders EXCEPT ![w] = "AwaitingApproval"]
    /\ handler' = [pc |-> "create_approval", order |-> w, actor |-> actor,
                   approval |-> [decision |-> "None", expires |-> now + ttl]]
    /\ UNCHANGED << now, approvals, challenges >>

(* A slip: every request on an open gate renews the approval.              *)
JoinGateRenewing(w, actor, ttl, asked) ==
    /\ handler = Idle
    /\ TokenLeft
    /\ orders[w] = "AwaitingApproval"
    /\ approvals[w][ApproverOf[actor]].decision \notin Decisions
    /\ handler' = [pc |-> "create_approval", order |-> w, actor |-> actor,
                   approval |-> [decision |-> "None", expires |-> asked + ttl]]
    /\ UNCHANGED << now, orders, approvals, challenges >>

(* An order already AwaitingApproval: the approver's approval is taken as  *)
(* it stands, deadline included, and only an approver who has none gets a  *)
(* fresh one.  `asked` is when the request computed its deadline, before   *)
(* it waited for the lock.                                                 *)
JoinGate(w, actor, ttl, asked) ==
    LET a == ApproverOf[actor] IN
    /\ handler = Idle
    /\ TokenLeft
    /\ orders[w] = "AwaitingApproval"
    /\ approvals[w][a].decision \notin Decisions
    /\ handler' = [pc |-> "create_approval", order |-> w, actor |-> actor,
                   approval |-> IF HasApproval(w, a)
                                THEN approvals[w][a]
                                ELSE [decision |-> "None", expires |-> asked + ttl]]
    /\ UNCHANGED << now, orders, approvals, challenges >>

CreateRecordApproval ==
    /\ handler.pc = "create_approval"
    /\ approvals' = [approvals EXCEPT
                       ![handler.order][ApproverOf[handler.actor]] = handler.approval]
    /\ handler' = [handler EXCEPT !.pc = "create_challenge"]
    /\ UNCHANGED << now, orders, challenges >>

(* The challenge carries the approval's deadline, and its token goes out.  *)
CreateRecordChallenge ==
    /\ handler.pc = "create_challenge"
    /\ \E c \in Tokens :
         /\ challenges[c] = NoChallenge
         /\ challenges' = [challenges EXCEPT
                             ![c] = [state |-> "Pending", order |-> handler.order,
                                     actor |-> handler.actor,
                                     expires |-> handler.approval.expires]]
    /\ handler' = Idle
    /\ UNCHANGED << now, orders, approvals >>

-----------------------------------------------------------------------------
(* decide_approval_by_token.  An unknown token, a used one and a wrong     *)
(* actor change nothing; a lapsed challenge is recorded as Expired.        *)

DecideExpired(c, actor) ==
    /\ handler = Idle
    /\ challenges[c] # NoChallenge
    /\ ChallengeAnswer(challenges[c], actor, now) = "Expired"
    /\ challenges' = [challenges EXCEPT ![c].state = "Expired"]
    /\ UNCHANGED << now, orders, approvals, handler >>

DecideLookup(c, actor, decision) ==
    /\ handler = Idle
    /\ challenges[c] # NoChallenge
    /\ ChallengeAnswer(challenges[c], actor, now) = "Accepted"
    /\ handler' = [pc |-> "decide_apply", token |-> c, decision |-> decision]
    /\ UNCHANGED << now, orders, approvals, challenges >>

(* A slip: the deadline is checked when the token is looked up and not     *)
(* again when it takes effect.                                             *)
ApplicableWithoutClock(c) ==
    /\ ApprovalOf(c).decision # "Absent"
    /\ orders[challenges[c].order] \in ApplyApprovalFrom

(* What apply_approval asks before it moves the order: it reads the clock  *)
(* again.                                                                  *)
Applicable(c) ==
    /\ ApprovalOf(c).decision # "Absent"
    /\ ~ Lapsed(ApprovalOf(c).expires, now)
    /\ orders[challenges[c].order] \in ApplyApprovalFrom

(* A slip: the token is spent before the approval is recorded.             *)
DecideApplySpendingToken ==
    /\ handler.pc = "decide_apply"
    /\ Applicable(handler.token)
    /\ orders' = [orders EXCEPT
                    ![challenges[handler.token].order] = DecidedStatus(handler.decision)]
    /\ handler' = [handler EXCEPT !.pc = "decide_challenge"]
    /\ UNCHANGED << now, approvals, challenges >>

(* First transaction: the order. *)
DecideApply ==
    /\ handler.pc = "decide_apply"
    /\ Applicable(handler.token)
    /\ orders' = [orders EXCEPT
                    ![challenges[handler.token].order] = DecidedStatus(handler.decision)]
    /\ handler' = [handler EXCEPT !.pc = "decide_approval"]
    /\ UNCHANGED << now, approvals, challenges >>

(* apply_approval refuses: nothing is recorded, the challenge stays        *)
(* Pending.                                                                *)
DecideRefused ==
    /\ handler.pc = "decide_apply"
    /\ ~ Applicable(handler.token)
    /\ handler' = Idle
    /\ UNCHANGED << now, orders, approvals, challenges >>

(* Second transaction: the approval. *)
DecideRecordApproval ==
    LET c == challenges[handler.token] IN
    /\ handler.pc = "decide_approval"
    /\ approvals' = [approvals EXCEPT
                       ![c.order][ApproverOf[c.actor]].decision = handler.decision]
    /\ handler' = [handler EXCEPT !.pc = "decide_challenge"]
    /\ UNCHANGED << now, orders, challenges >>

(* Third transaction: the challenge, which spends the token. *)
DecideRecordChallenge ==
    /\ handler.pc = "decide_challenge"
    /\ challenges' = [challenges EXCEPT ![handler.token].state = handler.decision]
    /\ handler' = Idle
    /\ UNCHANGED << now, orders, approvals >>

-----------------------------------------------------------------------------
(* The request ends early: its next transaction fails and the error is     *)
(* returned, or the process dies and comes back with the tables as they    *)
(* are.  Either way the lock is free and the rest never happens.           *)
Interrupt ==
    /\ handler # Idle
    /\ handler' = Idle
    /\ UNCHANGED << now, orders, approvals, challenges >>

Tick ==
    /\ now < MaxTime
    /\ now' = now + 1
    /\ UNCHANGED << orders, approvals, challenges, handler >>

Create ==
    \E w \in Orders, actor \in Actors, ttl \in TTLs :
        \/ OpenGate(w, actor, ttl)
        \/ \E asked \in 0 .. now : JoinGate(w, actor, ttl, asked)

Decide ==
    \E c \in Tokens, actor \in Actors :
        \/ DecideExpired(c, actor)
        \/ \E decision \in Decisions : DecideLookup(c, actor, decision)

(* What a thread that holds the lock goes on to do. *)
HandlerStep ==
    \/ CreateRecordApproval
    \/ CreateRecordChallenge
    \/ DecideApply
    \/ DecideRefused
    \/ DecideRecordApproval
    \/ DecideRecordChallenge

Next ==
    \/ \E w \in Orders : Submit(w)
    \/ Create
    \/ Decide
    \/ HandlerStep
    \/ Interrupt
    \/ Tick

Spec == Init /\ [][Next]_vars

-----------------------------------------------------------------------------
(* Properties. *)

(* The three tables are written order first, approval second, challenge    *)
(* third, so that wherever a request stops a decided challenge is backed   *)
(* by an approval that says the same and a decided approval by an order    *)
(* that went where the decision sends it: no token is ever spent for       *)
(* nothing (decide_approval_by_token).                                     *)
DecisionTrail ==
    /\ \A c \in Tokens :
         challenges[c].state \in Decisions => ApprovalOf(c).decision = challenges[c].state
    /\ \A w \in Orders, a \in Approvers :
         approvals[w][a].decision \in Decisions =>
             orders[w] = DecidedStatus(approvals[w][a].decision)

(* However many approvers and tokens an order has gathered, and however    *)
(* their answers interleave with crashes and retries, one approval and one *)
(* token decide it (apply_approval, ApprovalChallenge::decide).            *)
SingleDecision ==
    /\ \A w \in Orders, a, b \in Approvers :
         /\ approvals[w][a].decision \in Decisions
         /\ approvals[w][b].decision \in Decisions
         => a = b
    /\ \A c, d \in Tokens :
         /\ challenges[c].state \in Decisions
         /\ challenges[d].state \in Decisions
         /\ challenges[c].order = challenges[d].order
         => c = d

(* The deadline printed on a token is the deadline of the approval it      *)
(* stands for: the check on the challenge and the later check on the       *)
(* approval never disagree about which window they guard, even though      *)
(* several requests asked for different lifetimes                          *)
(* (create_approval_challenge).                                            *)
DeadlineAgreement ==
    \A c \in Tokens : challenges[c] # NoChallenge =>
        /\ HasApproval(challenges[c].order, ApproverOf[challenges[c].actor])
        /\ ApprovalOf(c).expires = challenges[c].expires

(* A token is answered once: when its row has left Pending, by a decision  *)
(* or by its deadline, no retry, late answer or second actor rewrites it   *)
(* (ApprovalChallenge::decide).                                            *)
SpentTokenStays ==
    [][\A c \in Tokens :
         challenges[c].state \notin { "Absent", "Pending" } =>
             challenges'[c] = challenges[c]]_vars

(* What an Expired answer tells the approver to do, "request a new         *)
(* approval challenge token": the token that follows an expired one of the *)
(* same approver on the same order has a later deadline.                   *)
RenewalExtendsDeadline ==
    [][\A old, new \in Tokens :
         /\ challenges[old].state = "Expired"
         /\ challenges[new] = NoChallenge
         /\ challenges'[new] # NoChallenge
         /\ challenges'[new].order = challenges[old].order
         /\ challenges'[new].actor = challenges[old].actor
         => challenges'[new].expires > challenges[old].expires]_vars

(* The flow implements the abstract gate: it opens, grants each approver   *)
(* one window that never moves, and is decided at most once, while a       *)
(* window is open by the clock of the very step that decides.              *)
GateOf(status) ==
    CASE status \in { "Absent", "Submitted", "Leased" } -> "shut"
      [] status = "AwaitingApproval"                    -> "open"
      [] status = "Approved"                            -> "granted"
      [] status = "Failed"                              -> "refused"
      [] OTHER                                          -> "bypassed"

WindowRows ==
    { << x[1], x[2], approvals[x[1]][x[2]].expires >> :
        x \in { y \in Orders \X Approvers : HasApproval(y[1], y[2]) } }

Gate == INSTANCE ApprovalGate WITH
          clock   <- now,
          gate    <- [w \in Orders |-> GateOf(orders[w])],
          windows <- WindowRows

ImplementsGate == Gate!Spec
=============================================================================
