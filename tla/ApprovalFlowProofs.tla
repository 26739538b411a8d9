-------------------------- MODULE ApprovalFlowProofs --------------------------
(***************************************************************************)
(* Theorems about ApprovalFlow, for every set of orders, approvers, actors *)
(* and tokens, every set of lifetimes and every bound on the clock.        *)
(*                                                                         *)
(* The safety properties are not inductive by themselves: what they need   *)
(* to know is what the request in progress has already committed.  That is *)
(* Progress, and Inv joins it with the properties.                         *)
(***************************************************************************)
EXTENDS ApprovalFlow, TLAPS

(* An approval exists only for an order whose gate has been opened.        *)
GateBeforeApproval ==
    \A w \in Orders, a \in Approvers :
        HasApproval(w, a) => orders[w] \notin { "Absent", "Submitted", "Leased" }

(* What the request holding the lock may rely on, at each of its steps.    *)
CreateProgress ==
    handler.pc \in { "create_approval", "create_challenge" } =>
        /\ orders[handler.order] = "AwaitingApproval"
        /\ handler.approval.decision = "None"
        /\ HasApproval(handler.order, ApproverOf[handler.actor]) =>
             approvals[handler.order][ApproverOf[handler.actor]] = handler.approval
        /\ handler.pc = "create_challenge" =>
             approvals[handler.order][ApproverOf[handler.actor]] = handler.approval

DecideProgress ==
    handler.pc \in { "decide_apply", "decide_approval", "decide_challenge" } =>
        /\ challenges[handler.token].state = "Pending"
        /\ handler.pc # "decide_apply" =>
             /\ orders[challenges[handler.token].order] = DecidedStatus(handler.decision)
             /\ \A c \in Tokens :
                  challenges[c].state \in Decisions =>
                      challenges[c].order # challenges[handler.token].order
        /\ handler.pc = "decide_approval" =>
             \A a \in Approvers :
                 approvals[challenges[handler.token].order][a].decision \notin Decisions
        /\ handler.pc = "decide_challenge" =>
             ApprovalOf(handler.token).decision = handler.decision

Inv ==
    /\ TypeOK
    /\ DecisionTrail
    /\ SingleDecision
    /\ DeadlineAgreement
    /\ GateBeforeApproval
    /\ CreateProgress
    /\ DecideProgress

-----------------------------------------------------------------------------
(* Type correctness. *)

(* Which locals the request holds, by the step it is about to take.        *)
LEMMA LocalsByStep ==
    ASSUME TypeOK
    PROVE  /\ handler.pc \in { "create_approval", "create_challenge" } =>
                 handler \in CreateLocals
           /\ handler.pc \in { "decide_apply", "decide_approval", "decide_challenge" } =>
                 handler \in DecideLocals
BY DEF TypeOK, Idle, CreateLocals, DecideLocals

(* A challenge that has a state has all its columns.                       *)
LEMMA RowByState ==
    ASSUME TypeOK, NEW c \in Tokens,
           challenges[c].state # "Absent" \/ challenges[c] # NoChallenge
    PROVE  challenges[c] \in ChallengeRow
BY DEF TypeOK, NoChallenge

(* The token a decision works on names a pending challenge, with the       *)
(* approval it stands for.                                                 *)
LEMMA TokenInHand ==
    ASSUME Inv,
           handler.pc \in { "decide_apply", "decide_approval", "decide_challenge" }
    PROVE  /\ handler \in DecideLocals
           /\ challenges[handler.token] \in ChallengeRow
           /\ challenges[handler.token].state = "Pending"
           /\ challenges[handler.token].order \in Orders
           /\ ApproverOf[challenges[handler.token].actor] \in Approvers
           /\ ApprovalOf(handler.token) \in ApprovalRow
<1>1. handler \in DecideLocals /\ handler.token \in Tokens
  BY LocalsByStep DEF Inv, DecideLocals
<1>2. challenges[handler.token].state = "Pending"
  BY DEF Inv, DecideProgress
<1>3. challenges[handler.token] \in ChallengeRow
  BY <1>1, <1>2, RowByState DEF Inv
<1>4. /\ challenges[handler.token].order \in Orders
      /\ ApproverOf[challenges[handler.token].actor] \in Approvers
  BY <1>3, ApproverOfAssumption DEF ChallengeRow
<1>5. ApprovalOf(handler.token).decision # "Absent"
  <2>1. handler.token \in Tokens /\ challenges[handler.token] # NoChallenge
    BY <1>1, <1>2 DEF NoChallenge
  <2>2. DeadlineAgreement
    BY DEF Inv
  <2> QED BY <2>1, <2>2 DEF DeadlineAgreement, HasApproval, ApprovalOf
<1>6. ApprovalOf(handler.token) \in { NoApproval } \cup ApprovalRow
  BY <1>4 DEF Inv, TypeOK, ApprovalOf
<1> QED
  BY <1>1, <1>2, <1>3, <1>4, <1>5, <1>6 DEF NoApproval

LEMMA NewDeadline ==
    ASSUME NEW t \in 0 .. MaxTime, NEW ttl \in TTLs
    PROVE  t + ttl \in Deadlines
BY DEF Deadlines

(* The type invariant holds initially and every step keeps it.             *)
LEMMA TypeInit == Init => TypeOK
BY MaxTimeAssumption DEF Init, TypeOK, Idle

LEMMA TypeStep ==
    ASSUME Inv, [Next]_vars
    PROVE  TypeOK'
<1> USE DEF TypeOK, Inv
<1>1. ASSUME NEW w \in Orders, Submit(w) PROVE TypeOK'
  BY <1>1 DEF Submit, Status
<1>2. ASSUME NEW w \in Orders, NEW actor \in Actors, NEW ttl \in TTLs,
             OpenGate(w, actor, ttl)
      PROVE  TypeOK'
  <2>1. now + ttl \in Deadlines
    BY NewDeadline
  <2>2. handler' \in CreateLocals
    BY <1>2, <2>1 DEF OpenGate, CreateLocals, ApprovalRow
  <2>3. orders' \in [Orders -> { "Absent" } \cup Status]
    BY <1>2 DEF OpenGate, Status
  <2> QED BY <1>2, <2>2, <2>3 DEF OpenGate
<1>3. ASSUME NEW w \in Orders, NEW actor \in Actors, NEW ttl \in TTLs,
             NEW asked \in 0 .. now, JoinGate(w, actor, ttl, asked)
      PROVE  TypeOK'
  <2>1. asked + ttl \in Deadlines
    BY NewDeadline, MaxTimeAssumption
  <2>2. ApproverOf[actor] \in Approvers
    BY ApproverOfAssumption
  <2>3. handler' \in CreateLocals
    BY <1>3, <2>1, <2>2
       DEF JoinGate, CreateLocals, ApprovalRow, HasApproval, NoApproval
  <2> QED BY <1>3, <2>3 DEF JoinGate
<1>4. CASE CreateRecordApproval
  <2>1. handler \in CreateLocals
    BY <1>4, LocalsByStep DEF CreateRecordApproval
  <2>2. handler' \in CreateLocals
    BY <1>4, <2>1 DEF CreateRecordApproval, CreateLocals
  <2>3. handler.order \in Orders /\ ApproverOf[handler.actor] \in Approvers
        /\ handler.approval \in ApprovalRow
    BY <2>1, ApproverOfAssumption DEF CreateLocals
  <2>4. approvals' \in [Orders -> [Approvers -> { NoApproval } \cup ApprovalRow]]
    BY <1>4, <2>3 DEF CreateRecordApproval
  <2> QED BY <1>4, <2>2, <2>4 DEF CreateRecordApproval
<1>5. CASE CreateRecordChallenge
  <2>1. handler \in CreateLocals
    BY <1>5, LocalsByStep DEF CreateRecordChallenge
  <2>2. [state |-> "Pending", order |-> handler.order, actor |-> handler.actor,
         expires |-> handler.approval.expires] \in ChallengeRow
    BY <2>1 DEF CreateLocals, ApprovalRow, ChallengeRow, ChallengeStates
  <2>3. challenges' \in [Tokens -> { NoChallenge } \cup ChallengeRow]
    BY <1>5, <2>2 DEF CreateRecordChallenge
  <2> QED BY <1>5, <2>3 DEF CreateRecordChallenge
<1>6. ASSUME NEW c \in Tokens, NEW actor \in Actors, DecideExpired(c, actor)
      PROVE  TypeOK'
  <2>1. challenges[c] \in ChallengeRow
    BY <1>6 DEF DecideExpired
  <2>2. [challenges[c] EXCEPT !.state = "Expired"] \in ChallengeRow
    BY <2>1 DEF ChallengeRow, ChallengeStates
  <2> QED BY <1>6, <2>2 DEF DecideExpired
<1>7. ASSUME NEW c \in Tokens, NEW actor \in Actors, NEW decision \in Decisions,
             DecideLookup(c, actor, decision)
      PROVE  TypeOK'
  BY <1>7 DEF DecideLookup, DecideLocals
<1>8. CASE DecideApply
  <2>1. handler \in DecideLocals
    BY <1>8, LocalsByStep DEF DecideApply
  <2>2. handler' \in DecideLocals
    BY <1>8, <2>1 DEF DecideApply, DecideLocals
  <2>3. orders' \in [Orders -> { "Absent" } \cup Status]
    BY <1>8 DEF DecideApply, DecidedStatus, Status
  <2> QED BY <1>8, <2>2, <2>3 DEF DecideApply
<1>9. CASE DecideRefused
  BY <1>9 DEF DecideRefused
<1>10. CASE DecideRecordApproval
  <2> DEFINE w == challenges[handler.token].order
             a == ApproverOf[challenges[handler.token].actor]
  <2>1. /\ handler \in DecideLocals
        /\ w \in Orders /\ a \in Approvers
        /\ approvals[w][a] \in ApprovalRow
    BY <1>10, TokenInHand DEF DecideRecordApproval, ApprovalOf
  <2>2. handler' \in DecideLocals
    BY <1>10, <2>1 DEF DecideRecordApproval, DecideLocals
  <2>3. [approvals[w][a] EXCEPT !.decision = handler.decision] \in ApprovalRow
    BY <2>1 DEF ApprovalRow, DecideLocals
  <2>4. approvals' = [approvals EXCEPT ![w] = [approvals[w] EXCEPT
                        ![a] = [approvals[w][a] EXCEPT !.decision = handler.decision]]]
    BY <1>10 DEF DecideRecordApproval
  <2> HIDE DEF w, a
  <2>5. approvals' \in [Orders -> [Approvers -> { NoApproval } \cup ApprovalRow]]
    BY <2>1, <2>3, <2>4
  <2> QED BY <1>10, <2>2, <2>5 DEF DecideRecordApproval
<1>11. CASE DecideRecordChallenge
  <2>1. handler \in DecideLocals /\ challenges[handler.token] \in ChallengeRow
    BY <1>11, TokenInHand DEF DecideRecordChallenge
  <2>2. [challenges[handler.token] EXCEPT !.state = handler.decision] \in ChallengeRow
    BY <2>1 DEF ChallengeRow, ChallengeStates, DecideLocals
  <2>3. challenges' \in [Tokens -> { NoChallenge } \cup ChallengeRow]
    BY <1>11, <2>2 DEF DecideRecordChallenge
  <2> QED BY <1>11, <2>3 DEF DecideRecordChallenge
<1>12. CASE Interrupt
  BY <1>12 DEF Interrupt
<1>13. CASE Tick
  BY <1>13, MaxTimeAssumption DEF Tick
<1>14. CASE UNCHANGED vars
  BY <1>14 DEF vars
<1> QED
  BY <1>1, <1>2, <1>3, <1>4, <1>5, <1>6, <1>7, <1>8, <1>9, <1>10, <1>11, <1>12,
     <1>13, <1>14
  DEF Next, Create, Decide, HandlerStep

-----------------------------------------------------------------------------
(* The invariant. *)

LEMMA InvInit == Init => Inv
<1> SUFFICES ASSUME Init PROVE Inv
  OBVIOUS
<1>1. TypeOK
  BY TypeInit
<1>2. /\ \A c \in Tokens : challenges[c] = NoChallenge
      /\ \A w \in Orders, a \in Approvers : approvals[w][a] = NoApproval
      /\ handler.pc = "idle"
  BY DEF Init, Idle
<1> QED
  BY <1>1, <1>2
  DEF Inv, DecisionTrail, SingleDecision, DeadlineAgreement, GateBeforeApproval,
      CreateProgress, DecideProgress, HasApproval, NoChallenge, NoApproval, Decisions

(* While an order awaits approval nobody has decided it yet.               *)
LEMMA AwaitingIsUndecided ==
    ASSUME Inv, NEW w \in Orders, orders[w] = "AwaitingApproval"
    PROVE  /\ \A a \in Approvers : approvals[w][a].decision \notin Decisions
           /\ \A c \in Tokens : challenges[c].state \in Decisions =>
                                   challenges[c].order # w
<1>1. \A a \in Approvers : approvals[w][a].decision \notin Decisions
  BY DEF Inv, DecisionTrail, DecidedStatus
<1>2. ASSUME NEW c \in Tokens, challenges[c].state \in Decisions, challenges[c].order = w
      PROVE  FALSE
  <2>1. challenges[c] \in ChallengeRow
    BY <1>2, RowByState DEF Inv, Decisions
  <2>2. ApproverOf[challenges[c].actor] \in Approvers
    BY <2>1, ApproverOfAssumption DEF ChallengeRow
  <2> QED
    BY <1>1, <1>2, <2>2 DEF Inv, DecisionTrail, ApprovalOf
<1> QED
  BY <1>1, <1>2

(* Only a pending challenge is answered with Expired or Accepted.          *)
LEMMA AnsweredWhilePending ==
    ASSUME NEW challenge, NEW actor, NEW t,
           ChallengeAnswer(challenge, actor, t) \in { "Expired", "Accepted" }
    PROVE  challenge.state = "Pending"
BY DEF ChallengeAnswer

LEMMA SubmitStep ==
    ASSUME Inv, NEW w \in Orders, Submit(w), TypeOK'
    PROVE  Inv'
<1>1. \A a \in Approvers : ~ HasApproval(w, a)
  BY DEF Inv, Submit, GateBeforeApproval
<1>2. \A v \in Orders : v # w => orders'[v] = orders[v]
  BY DEF Submit, Inv, TypeOK
<1>3. UNCHANGED << approvals, challenges, handler >> /\ handler.pc = "idle"
  BY DEF Submit, Idle
<1> QED
  BY <1>1, <1>2, <1>3
  DEF Inv, DecisionTrail, SingleDecision, DeadlineAgreement, GateBeforeApproval,
      CreateProgress, DecideProgress, HasApproval, ApprovalOf, Decisions

LEMMA OpenGateStep ==
    ASSUME Inv, NEW w \in Orders, NEW actor \in Actors, NEW ttl \in TTLs,
           OpenGate(w, actor, ttl), TypeOK'
    PROVE  Inv'
<1>1. \A a \in Approvers : ~ HasApproval(w, a)
  BY DEF Inv, OpenGate, GateBeforeApproval, RequireApprovalFrom
<1>2. /\ orders'[w] = "AwaitingApproval"
      /\ \A v \in Orders : v # w => orders'[v] = orders[v]
      /\ UNCHANGED << approvals, challenges >>
  BY DEF OpenGate, Inv, TypeOK
<1>3. /\ handler'.pc = "create_approval" /\ handler'.order = w
      /\ handler'.actor = actor /\ handler'.approval.decision = "None"
      /\ ApproverOf[actor] \in Approvers
  BY ApproverOfAssumption DEF OpenGate
<1>4. CreateProgress' /\ DecideProgress'
  BY <1>1, <1>2, <1>3 DEF CreateProgress, DecideProgress, HasApproval
<1> QED
  BY <1>1, <1>2, <1>4
  DEF Inv, DecisionTrail, SingleDecision, DeadlineAgreement, GateBeforeApproval,
      HasApproval, ApprovalOf, Decisions

LEMMA JoinGateStep ==
    ASSUME Inv, NEW w \in Orders, NEW actor \in Actors, NEW ttl \in TTLs,
           NEW asked \in 0 .. now, JoinGate(w, actor, ttl, asked), TypeOK'
    PROVE  Inv'
<1>1. UNCHANGED << orders, approvals, challenges >>
  BY DEF JoinGate
<1>2. ApproverOf[actor] \in Approvers
  BY ApproverOfAssumption
<1>3. approvals[w][ApproverOf[actor]].decision \in { "Absent", "None" }
  BY <1>2 DEF JoinGate, Inv, TypeOK, NoApproval, ApprovalRow
<1>4. /\ handler'.pc = "create_approval" /\ handler'.order = w
      /\ handler'.actor = actor /\ handler'.approval.decision = "None"
      /\ HasApproval(w, ApproverOf[actor]) =>
           handler'.approval = approvals[w][ApproverOf[actor]]
  BY <1>3 DEF JoinGate, HasApproval
<1>5. CreateProgress' /\ DecideProgress'
  BY <1>1, <1>4 DEF JoinGate, CreateProgress, DecideProgress, HasApproval
<1> QED
  BY <1>1, <1>5
  DEF Inv, DecisionTrail, SingleDecision, DeadlineAgreement, GateBeforeApproval,
      HasApproval, ApprovalOf

LEMMA CreateRecordApprovalStep ==
    ASSUME Inv, CreateRecordApproval, TypeOK'
    PROVE  Inv'
<1> DEFINE w == handler.order
           a == ApproverOf[handler.actor]
<1>1. /\ w \in Orders /\ a \in Approvers
      /\ orders[w] = "AwaitingApproval" /\ handler.approval.decision = "None"
      /\ HasApproval(w, a) => approvals[w][a] = handler.approval
  BY LocalsByStep, ApproverOfAssumption
     DEF Inv, CreateRecordApproval, CreateProgress, CreateLocals
<1>2. /\ \A b \in Approvers : approvals[w][b].decision \notin Decisions
      /\ \A c \in Tokens : challenges[c].state \in Decisions => challenges[c].order # w
  BY <1>1, AwaitingIsUndecided
<1>3. approvals' = [approvals EXCEPT ![w] = [approvals[w] EXCEPT ![a] = handler.approval]]
  BY DEF CreateRecordApproval
<1>4. /\ UNCHANGED << orders, challenges >>
      /\ handler'.pc = "create_challenge" /\ handler'.order = w
      /\ handler'.actor = handler.actor /\ handler'.approval = handler.approval
  BY LocalsByStep DEF Inv, CreateRecordApproval, CreateLocals
<1> HIDE DEF w, a
<1>5. /\ approvals'[w][a] = handler.approval
      /\ \A v \in Orders, b \in Approvers :
           v # w \/ b # a => approvals'[v][b] = approvals[v][b]
  BY <1>1, <1>3 DEF Inv, TypeOK
<1>6. CreateProgress' /\ DecideProgress'
  BY <1>1, <1>4, <1>5 DEF CreateProgress, DecideProgress, w, a
<1>7. \A v \in Orders, b \in Approvers :
        approvals'[v][b].decision \in Decisions =>
            v # w /\ approvals'[v][b] = approvals[v][b]
  BY <1>1, <1>2, <1>5 DEF Decisions
<1>8. ASSUME NEW c \in Tokens, challenges[c].state \in Decisions
      PROVE  ApprovalOf(c)' = ApprovalOf(c)
  <2>1. challenges[c] \in ChallengeRow
    BY <1>8, RowByState DEF Inv, Decisions
  <2> QED
    BY <1>2, <1>4, <1>5, <1>8, <2>1, ApproverOfAssumption DEF ApprovalOf, ChallengeRow
<1>9. DecisionTrail'
  BY <1>4, <1>7, <1>8 DEF Inv, DecisionTrail
<1>10. SingleDecision'
  BY <1>4, <1>7 DEF Inv, SingleDecision
<1>11. ASSUME NEW c \in Tokens, challenges'[c] # NoChallenge
       PROVE  /\ HasApproval(challenges[c].order, ApproverOf[challenges[c].actor])'
              /\ ApprovalOf(c)'.expires = challenges'[c].expires
  <2>1. challenges[c] \in ChallengeRow
    BY <1>4, <1>11, RowByState DEF Inv
  <2>2. /\ challenges[c].order \in Orders
        /\ ApproverOf[challenges[c].actor] \in Approvers
    BY <2>1, ApproverOfAssumption DEF ChallengeRow
  <2>3. /\ HasApproval(challenges[c].order, ApproverOf[challenges[c].actor])
        /\ ApprovalOf(c).expires = challenges[c].expires
    BY <1>4, <1>11 DEF Inv, DeadlineAgreement
  <2> QED
    BY <1>1, <1>4, <1>5, <2>2, <2>3 DEF HasApproval, ApprovalOf
<1>12. DeadlineAgreement'
  BY <1>11 DEF DeadlineAgreement
<1>13. GateBeforeApproval'
  BY <1>1, <1>4, <1>5 DEF Inv, GateBeforeApproval, HasApproval
<1> QED
  BY <1>6, <1>9, <1>10, <1>12, <1>13 DEF Inv

LEMMA CreateRecordChallengeStep ==
    ASSUME Inv, CreateRecordChallenge, TypeOK'
    PROVE  Inv'
<1>1. PICK c \in Tokens :
        /\ challenges[c] = NoChallenge
        /\ challenges' = [challenges EXCEPT
                            ![c] = [state |-> "Pending", order |-> handler.order,
                                    actor |-> handler.actor,
                                    expires |-> handler.approval.expires]]
  BY DEF CreateRecordChallenge
<1>2. UNCHANGED << orders, approvals >> /\ handler'.pc = "idle"
  BY DEF CreateRecordChallenge, Idle
<1>3. /\ challenges'[c].state = "Pending"
      /\ challenges'[c].order = handler.order
      /\ challenges'[c].actor = handler.actor
      /\ challenges'[c].expires = handler.approval.expires
      /\ \A d \in Tokens : d # c => challenges'[d] = challenges[d]
  BY <1>1 DEF Inv, TypeOK
<1>4. /\ approvals[handler.order][ApproverOf[handler.actor]] = handler.approval
      /\ handler.approval.decision = "None"
  BY DEF Inv, CreateProgress, CreateRecordChallenge
<1>5. DecisionTrail'
  BY <1>2, <1>3 DEF Inv, DecisionTrail, ApprovalOf, Decisions
<1>6. SingleDecision'
  BY <1>2, <1>3 DEF Inv, SingleDecision, Decisions
<1>7. DeadlineAgreement'
  BY <1>2, <1>3, <1>4 DEF Inv, DeadlineAgreement, HasApproval, ApprovalOf
<1>8. GateBeforeApproval'
  BY <1>2 DEF Inv, GateBeforeApproval, HasApproval
<1>9. CreateProgress' /\ DecideProgress'
  <2>1. handler'.pc = "idle"
    BY <1>2
  <2> QED BY <2>1 DEF CreateProgress, DecideProgress
<1> QED
  BY <1>5, <1>6, <1>7, <1>8, <1>9 DEF Inv

(* Deadlines agree as long as no approval changes and no challenge gets    *)
(* another order, actor or deadline.                                       *)
LEMMA SameDeadlines ==
    ASSUME DeadlineAgreement, UNCHANGED approvals,
           \A d \in Tokens : challenges'[d] # NoChallenge =>
               /\ challenges[d] # NoChallenge
               /\ challenges'[d].order = challenges[d].order
               /\ challenges'[d].actor = challenges[d].actor
               /\ challenges'[d].expires = challenges[d].expires
    PROVE  DeadlineAgreement'
<1> SUFFICES ASSUME NEW d \in Tokens, challenges'[d] # NoChallenge
             PROVE  /\ HasApproval(challenges[d].order, ApproverOf[challenges[d].actor])'
                    /\ ApprovalOf(d)'.expires = challenges'[d].expires
  BY DEF DeadlineAgreement
<1>1. /\ HasApproval(challenges[d].order, ApproverOf[challenges[d].actor])
      /\ ApprovalOf(d).expires = challenges[d].expires
  BY DEF DeadlineAgreement
<1> QED BY <1>1 DEF HasApproval, ApprovalOf

LEMMA DecideExpiredStep ==
    ASSUME Inv, NEW c \in Tokens, NEW actor \in Actors, DecideExpired(c, actor), TypeOK'
    PROVE  Inv'
<1>1. challenges[c].state = "Pending" /\ challenges[c] \in ChallengeRow
  BY AnsweredWhilePending, RowByState DEF Inv, DecideExpired
<1>2. /\ UNCHANGED << orders, approvals >> /\ handler.pc = "idle" /\ handler' = handler
      /\ challenges' = [challenges EXCEPT ![c] = [challenges[c] EXCEPT !.state = "Expired"]]
  BY DEF DecideExpired, Idle
<1>3. /\ challenges'[c].state = "Expired"
      /\ challenges'[c].order = challenges[c].order
      /\ challenges'[c].actor = challenges[c].actor
      /\ challenges'[c].expires = challenges[c].expires
      /\ challenges[c] # NoChallenge
      /\ \A d \in Tokens : d # c => challenges'[d] = challenges[d]
  BY <1>1, <1>2 DEF Inv, TypeOK, ChallengeRow, NoChallenge
<1>4. DecisionTrail'
  BY <1>2, <1>3 DEF Inv, DecisionTrail, ApprovalOf, Decisions
<1>5. SingleDecision'
  BY <1>2, <1>3 DEF Inv, SingleDecision, Decisions
<1>6. DeadlineAgreement'
  <2>1. \A d \in Tokens : challenges'[d] # NoChallenge =>
          /\ challenges[d] # NoChallenge
          /\ challenges'[d].order = challenges[d].order
          /\ challenges'[d].actor = challenges[d].actor
          /\ challenges'[d].expires = challenges[d].expires
    BY <1>3
  <2> QED BY <1>2, <2>1, SameDeadlines DEF Inv
<1>7. GateBeforeApproval'
  BY <1>2 DEF Inv, GateBeforeApproval, HasApproval
<1>8. CreateProgress' /\ DecideProgress'
  <2>1. handler'.pc = "idle"
    BY <1>2
  <2> QED BY <2>1 DEF CreateProgress, DecideProgress
<1> QED
  BY <1>4, <1>5, <1>6, <1>7, <1>8 DEF Inv

(* A step that writes no table and leaves the request at rest, or ready to *)
(* apply a pending token.                                                  *)
LEMMA TablesUnchanged ==
    ASSUME Inv, TypeOK', UNCHANGED << orders, approvals, challenges >>,
           CreateProgress', DecideProgress'
    PROVE  Inv'
BY DEF Inv, DecisionTrail, SingleDecision, DeadlineAgreement, GateBeforeApproval,
       HasApproval, ApprovalOf

LEMMA DecideApplyStep ==
    ASSUME Inv, DecideApply, TypeOK'
    PROVE  Inv'
<1> DEFINE w == challenges[handler.token].order
<1>1. /\ handler \in DecideLocals /\ w \in Orders
      /\ challenges[handler.token].state = "Pending"
      /\ orders[w] = "AwaitingApproval"
  BY TokenInHand DEF DecideApply, Applicable, ApplyApprovalFrom
<1>2. /\ \A b \in Approvers : approvals[w][b].decision \notin Decisions
      /\ \A c \in Tokens : challenges[c].state \in Decisions => challenges[c].order # w
  BY <1>1, AwaitingIsUndecided
<1>3. /\ UNCHANGED << approvals, challenges >>
      /\ orders' = [orders EXCEPT ![w] = DecidedStatus(handler.decision)]
      /\ handler'.pc = "decide_approval" /\ handler'.token = handler.token
      /\ handler'.decision = handler.decision
  BY <1>1 DEF DecideApply, DecideLocals
<1> HIDE DEF w
<1>4. /\ orders'[w] = DecidedStatus(handler.decision)
      /\ orders'[w] \in { "Approved", "Failed" }
      /\ \A v \in Orders : v # w => orders'[v] = orders[v]
  BY <1>1, <1>3 DEF Inv, TypeOK, DecidedStatus
<1>5. CreateProgress' /\ DecideProgress'
  BY <1>1, <1>2, <1>3, <1>4 DEF CreateProgress, DecideProgress, w
<1>6. DecisionTrail'
  BY <1>2, <1>3, <1>4 DEF Inv, DecisionTrail, ApprovalOf
<1>7. GateBeforeApproval'
  BY <1>3, <1>4 DEF Inv, GateBeforeApproval, HasApproval
<1>8. SingleDecision' /\ DeadlineAgreement'
  BY <1>3 DEF Inv, SingleDecision, DeadlineAgreement, HasApproval, ApprovalOf
<1> QED
  BY <1>5, <1>6, <1>7, <1>8 DEF Inv

LEMMA DecideRecordApprovalStep ==
    ASSUME Inv, DecideRecordApproval, TypeOK'
    PROVE  Inv'
<1> DEFINE w == challenges[handler.token].order
           a == ApproverOf[challenges[handler.token].actor]
           row == [approvals[w][a] EXCEPT !.decision = handler.decision]
<1>1. /\ handler \in DecideLocals /\ w \in Orders /\ a \in Approvers
      /\ challenges[handler.token].state = "Pending"
      /\ approvals[w][a] \in ApprovalRow
  BY TokenInHand DEF DecideRecordApproval, ApprovalOf
<1>2. /\ orders[w] = DecidedStatus(handler.decision)
      /\ \A b \in Approvers : approvals[w][b].decision \notin Decisions
      /\ \A c \in Tokens : challenges[c].state \in Decisions => challenges[c].order # w
  BY DEF Inv, DecideProgress, DecideRecordApproval
<1>3. /\ UNCHANGED << orders, challenges >>
      /\ approvals' = [approvals EXCEPT ![w] = [approvals[w] EXCEPT ![a] = row]]
      /\ handler'.pc = "decide_challenge" /\ handler'.token = handler.token
      /\ handler'.decision = handler.decision
  BY <1>1 DEF DecideRecordApproval, DecideLocals
<1>4. row.decision = handler.decision /\ row.expires = approvals[w][a].expires
  BY <1>1 DEF ApprovalRow
<1> HIDE DEF w, a, row
<1>5. /\ approvals'[w][a] = row
      /\ \A v \in Orders, b \in Approvers :
           v # w \/ b # a => approvals'[v][b] = approvals[v][b]
  BY <1>1, <1>3 DEF Inv, TypeOK
<1>6. handler.decision \in Decisions
  BY <1>1 DEF DecideLocals
<1>7. CreateProgress' /\ DecideProgress'
  BY <1>1, <1>2, <1>3, <1>4, <1>5
  DEF CreateProgress, DecideProgress, ApprovalOf, w, a
<1>8. ASSUME NEW c \in Tokens, challenges[c].state \in Decisions
      PROVE  ApprovalOf(c)' = ApprovalOf(c)
  <2>1. challenges[c] \in ChallengeRow
    BY <1>8, RowByState DEF Inv, Decisions
  <2> QED
    BY <1>2, <1>3, <1>5, <1>8, <2>1, ApproverOfAssumption DEF ApprovalOf, ChallengeRow
<1>9. DecisionTrail'
  BY <1>2, <1>3, <1>4, <1>5, <1>8 DEF Inv, DecisionTrail
<1>10. \A v \in Orders, b \in Approvers :
         approvals'[v][b].decision \in Decisions =>
             \/ v = w /\ b = a
             \/ v # w /\ approvals[v][b].decision \in Decisions
  BY <1>2, <1>5
<1>11. SingleDecision'
  BY <1>3, <1>10 DEF Inv, SingleDecision
<1>12. ASSUME NEW c \in Tokens, challenges'[c] # NoChallenge
       PROVE  /\ HasApproval(challenges[c].order, ApproverOf[challenges[c].actor])'
              /\ ApprovalOf(c)'.expires = challenges'[c].expires
  <2>1. challenges[c] \in ChallengeRow
    BY <1>3, <1>12, RowByState DEF Inv
  <2>2. /\ challenges[c].order \in Orders
        /\ ApproverOf[challenges[c].actor] \in Approvers
    BY <2>1, ApproverOfAssumption DEF ChallengeRow
  <2>3. /\ HasApproval(challenges[c].order, ApproverOf[challenges[c].actor])
        /\ ApprovalOf(c).expires = challenges[c].expires
    BY <1>3, <1>12 DEF Inv, DeadlineAgreement
  <2> QED
    BY <1>3, <1>4, <1>5, <1>6, <2>2, <2>3 DEF HasApproval, ApprovalOf, Decisions
<1>13. DeadlineAgreement'
  BY <1>12 DEF DeadlineAgreement
<1>14. GateBeforeApproval'
  BY <1>2, <1>3, <1>5 DEF Inv, GateBeforeApproval, HasApproval, DecidedStatus
<1> QED
  BY <1>7, <1>9, <1>11, <1>13, <1>14 DEF Inv

LEMMA DecideRecordChallengeStep ==
    ASSUME Inv, DecideRecordChallenge, TypeOK'
    PROVE  Inv'
<1> DEFINE c == handler.token
<1>1. /\ c \in Tokens /\ handler.decision \in Decisions
      /\ challenges[c] \in ChallengeRow
  BY TokenInHand DEF DecideRecordChallenge, DecideLocals
<1>2. /\ ApprovalOf(c).decision = handler.decision
      /\ \A d \in Tokens : challenges[d].state \in Decisions =>
                              challenges[d].order # challenges[c].order
  BY DEF Inv, DecideProgress, DecideRecordChallenge
<1>3. /\ UNCHANGED << orders, approvals >> /\ handler'.pc = "idle"
      /\ challenges' = [challenges EXCEPT
                          ![c] = [challenges[c] EXCEPT !.state = handler.decision]]
  BY DEF DecideRecordChallenge, Idle
<1> HIDE DEF c
<1>4. /\ challenges'[c].state = handler.decision
      /\ challenges'[c].order = challenges[c].order
      /\ challenges'[c].actor = challenges[c].actor
      /\ challenges'[c].expires = challenges[c].expires
      /\ challenges[c] # NoChallenge
      /\ \A d \in Tokens : d # c => challenges'[d] = challenges[d]
  BY <1>1, <1>3 DEF Inv, TypeOK, ChallengeRow, ChallengeStates, NoChallenge, Decisions
<1>5. DecisionTrail'
  BY <1>2, <1>3, <1>4 DEF Inv, DecisionTrail, ApprovalOf
<1>6. SingleDecision'
  <2>1. \A d, f \in Tokens : /\ challenges[d].state \in Decisions
                             /\ challenges[f].state \in Decisions
                             /\ challenges[d].order = challenges[f].order
                             => d = f
    BY DEF Inv, SingleDecision
  <2>2. ASSUME NEW d \in Tokens, NEW f \in Tokens,
               challenges'[d].state \in Decisions,
               challenges'[f].state \in Decisions,
               challenges'[d].order = challenges'[f].order
        PROVE  d = f
    <3>1. CASE d # c /\ f # c
      BY <1>4, <2>1, <2>2, <3>1
    <3>2. CASE d = c /\ f # c
      BY <1>2, <1>4, <2>2, <3>2
    <3>3. CASE d # c /\ f = c
      BY <1>2, <1>4, <2>2, <3>3
    <3> QED BY <3>1, <3>2, <3>3
  <2>3. approvals' = approvals
    BY <1>3
  <2> QED BY <2>2, <2>3 DEF Inv, SingleDecision
<1>7. DeadlineAgreement'
  <2>1. \A d \in Tokens : challenges'[d] # NoChallenge =>
          /\ challenges[d] # NoChallenge
          /\ challenges'[d].order = challenges[d].order
          /\ challenges'[d].actor = challenges[d].actor
          /\ challenges'[d].expires = challenges[d].expires
    BY <1>4
  <2> QED BY <1>3, <2>1, SameDeadlines DEF Inv
<1>8. GateBeforeApproval'
  BY <1>3 DEF Inv, GateBeforeApproval, HasApproval
<1>9. CreateProgress' /\ DecideProgress'
  <2>1. handler'.pc = "idle"
    BY <1>3
  <2> QED BY <2>1 DEF CreateProgress, DecideProgress
<1> QED
  BY <1>5, <1>6, <1>7, <1>8, <1>9 DEF Inv

(* Every step keeps the invariant.                                         *)
LEMMA InvStep ==
    ASSUME Inv, [Next]_vars
    PROVE  Inv'
<1>1. TypeOK'
  BY TypeStep
<1>2. ASSUME NEW w \in Orders, Submit(w) PROVE Inv'
  BY <1>1, <1>2, SubmitStep
<1>3. ASSUME NEW w \in Orders, NEW actor \in Actors, NEW ttl \in TTLs,
             OpenGate(w, actor, ttl)
      PROVE  Inv'
  BY <1>1, <1>3, OpenGateStep
<1>4. ASSUME NEW w \in Orders, NEW actor \in Actors, NEW ttl \in TTLs,
             NEW asked \in 0 .. now, JoinGate(w, actor, ttl, asked)
      PROVE  Inv'
  BY <1>1, <1>4, JoinGateStep
<1>5. ASSUME NEW c \in Tokens, NEW actor \in Actors, DecideExpired(c, actor)
      PROVE  Inv'
  BY <1>1, <1>5, DecideExpiredStep
<1>6. ASSUME NEW c \in Tokens, NEW actor \in Actors, NEW decision \in Decisions,
             DecideLookup(c, actor, decision)
      PROVE  Inv'
  <2>1. challenges[c].state = "Pending"
    BY <1>6, AnsweredWhilePending DEF DecideLookup
  <2>2. /\ handler'.pc = "decide_apply" /\ handler'.token = c
        /\ UNCHANGED << orders, approvals, challenges >>
    BY <1>6 DEF DecideLookup
  <2>3. CreateProgress' /\ DecideProgress'
    BY <2>1, <2>2 DEF CreateProgress, DecideProgress
  <2> QED
    BY <1>1, <2>2, <2>3, TablesUnchanged
<1>7. CASE CreateRecordApproval
  BY <1>1, <1>7, CreateRecordApprovalStep
<1>8. CASE CreateRecordChallenge
  BY <1>1, <1>8, CreateRecordChallengeStep
<1>9. CASE DecideApply
  BY <1>1, <1>9, DecideApplyStep
<1>10. CASE DecideRecordApproval
  BY <1>1, <1>10, DecideRecordApprovalStep
<1>11. CASE DecideRecordChallenge
  BY <1>1, <1>11, DecideRecordChallengeStep
<1>12. CASE DecideRefused \/ Interrupt
  <2>1. handler'.pc = "idle" /\ UNCHANGED << orders, approvals, challenges >>
    BY <1>12 DEF DecideRefused, Interrupt, Idle
  <2>2. CreateProgress' /\ DecideProgress'
    BY <2>1 DEF CreateProgress, DecideProgress
  <2> QED
    BY <1>1, <2>1, <2>2, TablesUnchanged
<1>13. CASE Tick \/ UNCHANGED vars
  <2>1. UNCHANGED << orders, approvals, challenges, handler >>
    BY <1>13 DEF Tick, vars
  <2>2. CreateProgress' /\ DecideProgress'
    BY <2>1 DEF Inv, CreateProgress, DecideProgress, HasApproval, ApprovalOf
  <2> QED
    BY <1>1, <2>1, <2>2, TablesUnchanged
<1> QED
  BY <1>2, <1>3, <1>4, <1>5, <1>6, <1>7, <1>8, <1>9, <1>10, <1>11, <1>12, <1>13
  DEF Next, Create, Decide, HandlerStep

-----------------------------------------------------------------------------
(* The theorems. *)

(* The strengthened invariant holds in every reachable state: whatever the *)
(* interleaving of requests, retries, interruptions and the clock, the     *)
(* tables and the request in progress fit together.                        *)
THEOREM Invariance == Spec => []Inv
<1>1. Init => Inv
  BY InvInit
<1>2. Inv /\ [Next]_vars => Inv'
  BY InvStep
<1> QED
  BY <1>1, <1>2, PTL DEF Spec

(* The tables hold what their columns may hold.                            *)
THEOREM TypeCorrect == Spec => []TypeOK
BY Invariance, PTL DEF Inv

(* A recorded decision is always backed by the tables written before it,   *)
(* wherever a decision was interrupted (decide_approval_by_token).         *)
THEOREM TrailIsKept == Spec => []DecisionTrail
BY Invariance, PTL DEF Inv

(* A work order is decided by one approver and one token, for any number   *)
(* of approvers, tokens, retries and interruptions.                        *)
THEOREM DecidedOnce == Spec => []SingleDecision
BY Invariance, PTL DEF Inv

(* A token and the approval it stands for always expire together.          *)
THEOREM DeadlinesAgree == Spec => []DeadlineAgreement
BY Invariance, PTL DEF Inv

(* The row of a token that has left Pending is never written again, not by *)
(* a retry of its own decision nor by an expiry that comes late.           *)
THEOREM SpentTokensStay == Spec => SpentTokenStays
<1> DEFINE Spent == \A c \in Tokens :
                      challenges[c].state \notin { "Absent", "Pending" } =>
                          challenges'[c] = challenges[c]
<1>1. ASSUME Inv, [Next]_vars PROVE Spent
  <2>1. CASE CreateRecordChallenge
    BY <1>1, <2>1 DEF CreateRecordChallenge, NoChallenge, Inv, TypeOK
  <2>2. ASSUME NEW c \in Tokens, NEW actor \in Actors, DecideExpired(c, actor)
        PROVE  Spent
    <3>1. challenges[c].state = "Pending"
      BY <2>2, AnsweredWhilePending DEF DecideExpired
    <3> QED
      BY <1>1, <2>2, <3>1 DEF DecideExpired, Inv, TypeOK
  <2>3. CASE DecideRecordChallenge
    <3>1. challenges[handler.token].state = "Pending"
      BY <1>1, <2>3, TokenInHand DEF DecideRecordChallenge
    <3> QED
      BY <1>1, <2>3, <3>1 DEF DecideRecordChallenge, Inv, TypeOK
  <2>4. CASE UNCHANGED challenges
    BY <2>4
  <2> QED
    BY <1>1, <2>1, <2>2, <2>3, <2>4
    DEF Next, Submit, Create, OpenGate, JoinGate, CreateRecordApproval, Decide,
        DecideLookup, HandlerStep, DecideApply, DecideRefused, DecideRecordApproval,
        Interrupt, Tick, vars
<1>2. Inv /\ [Next]_vars => [Spent]_vars
  BY <1>1
<1> QED
  BY <1>2, Invariance, PTL DEF Spec, SpentTokenStays

-----------------------------------------------------------------------------
(* The flow implements the gate. *)

(* The rows are the windows of the approvals that are there, before a step *)
(* and after it.                                                           *)
LEMMA WindowRow ==
    ASSUME NEW x
    PROVE  /\ x \in WindowRows <=>
                \E w \in Orders, a \in Approvers :
                  HasApproval(w, a) /\ x = << w, a, approvals[w][a].expires >>
           /\ x \in WindowRows' <=>
                \E w \in Orders, a \in Approvers :
                  HasApproval(w, a)' /\ x = << w, a, approvals'[w][a].expires >>
<1>1. ASSUME NEW w \in Orders, NEW a \in Approvers, HasApproval(w, a)
      PROVE  << w, a, approvals[w][a].expires >> \in WindowRows
  <2>1. << w, a >> \in { y \in Orders \X Approvers : HasApproval(y[1], y[2]) }
    BY <1>1
  <2> QED
    BY <2>1 DEF WindowRows
<1>2. ASSUME NEW w \in Orders, NEW a \in Approvers, HasApproval(w, a)'
      PROVE  << w, a, approvals'[w][a].expires >> \in WindowRows'
  <2>1. << w, a >> \in { y \in Orders \X Approvers : HasApproval(y[1], y[2])' }
    BY <1>2
  <2> QED
    BY <2>1 DEF WindowRows
<1>3. ASSUME x \in WindowRows
      PROVE  \E w \in Orders, a \in Approvers :
               HasApproval(w, a) /\ x = << w, a, approvals[w][a].expires >>
  BY <1>3 DEF WindowRows
<1>4. ASSUME x \in WindowRows'
      PROVE  \E w \in Orders, a \in Approvers :
               HasApproval(w, a)' /\ x = << w, a, approvals'[w][a].expires >>
  BY <1>4 DEF WindowRows
<1> QED
  BY <1>1, <1>2, <1>3, <1>4

(* The windows change only when an approval appears or its deadline moves. *)
LEMMA SameWindows ==
    ASSUME \A w \in Orders, a \in Approvers :
             /\ HasApproval(w, a)' <=> HasApproval(w, a)
             /\ HasApproval(w, a) => approvals'[w][a].expires = approvals[w][a].expires
    PROVE  WindowRows' = WindowRows
<1>1. { y \in Orders \X Approvers : HasApproval(y[1], y[2]) }' =
        { y \in Orders \X Approvers : HasApproval(y[1], y[2]) }
  OBVIOUS
<1>2. ASSUME NEW y \in { z \in Orders \X Approvers : HasApproval(z[1], z[2]) }
      PROVE  approvals'[y[1]][y[2]].expires = approvals[y[1]][y[2]].expires
  OBVIOUS
<1> QED
  BY <1>1, <1>2 DEF WindowRows

LEMMA GateInit == Init => Gate!Init
<1> SUFFICES ASSUME Init PROVE Gate!Init
  OBVIOUS
<1>1. \A w \in Orders : GateOf(orders[w]) = "shut"
  BY DEF Init, GateOf
<1>2. \A w \in Orders, a \in Approvers : ~ HasApproval(w, a)
  BY DEF Init, HasApproval, NoApproval
<1>3. WindowRows = {}
  BY <1>2 DEF WindowRows
<1> QED
  BY <1>1, <1>3 DEF Gate!Init, Init

(* Opening: the order waits for approval from this commit on.              *)
LEMMA OpenGateOpens ==
    ASSUME Inv, NEW w \in Orders, NEW actor \in Actors, NEW ttl \in TTLs,
           OpenGate(w, actor, ttl)
    PROVE  Gate!Next
<1>1. /\ UNCHANGED << now, approvals >>
      /\ orders' = [orders EXCEPT ![w] = "AwaitingApproval"]
      /\ GateOf(orders[w]) = "shut"
  BY DEF OpenGate, RequireApprovalFrom, GateOf
<1>2. WindowRows' = WindowRows
  BY <1>1, SameWindows DEF HasApproval
<1>3. GateOf("AwaitingApproval") = "open"
  BY DEF GateOf
<1>4. [v \in Orders |-> GateOf(orders[v])]' =
        [[v \in Orders |-> GateOf(orders[v])] EXCEPT ![w] = "open"]
  BY <1>1, <1>3 DEF Inv, TypeOK
<1>5. Gate!Open(w)
  BY <1>1, <1>2, <1>4 DEF Gate!Open
<1> QED
  BY <1>5 DEF Gate!Next

(* Granting: a first approval is a new window, a repeated one is the old   *)
(* window again.                                                           *)
LEMMA RecordedApprovalGrants ==
    ASSUME Inv, CreateRecordApproval
    PROVE  Gate!Next \/ UNCHANGED Gate!gateVars
<1> DEFINE w == handler.order
           a == ApproverOf[handler.actor]
           e == handler.approval.expires
<1>1. /\ w \in Orders /\ a \in Approvers /\ e \in Deadlines
      /\ orders[w] = "AwaitingApproval" /\ handler.approval.decision = "None"
      /\ HasApproval(w, a) => approvals[w][a] = handler.approval
  BY LocalsByStep, ApproverOfAssumption
     DEF Inv, CreateRecordApproval, CreateProgress, CreateLocals, ApprovalRow
<1>2. /\ approvals' = [approvals EXCEPT ![w] = [approvals[w] EXCEPT ![a] = handler.approval]]
      /\ UNCHANGED << now, orders >>
  BY DEF CreateRecordApproval
<1>3. GateOf(orders[w]) = "open"
  BY <1>1 DEF GateOf
<1> HIDE DEF w, a
<1>4. /\ approvals'[w][a] = handler.approval
      /\ \A v \in Orders, b \in Approvers :
           v # w \/ b # a => approvals'[v][b] = approvals[v][b]
  BY <1>1, <1>2 DEF Inv, TypeOK
<1>5. CASE HasApproval(w, a)
  <2>1. WindowRows' = WindowRows
    BY <1>1, <1>4, <1>5, SameWindows DEF HasApproval
  <2> QED
    BY <1>2, <2>1 DEF Gate!gateVars
<1>6. CASE ~ HasApproval(w, a)
  <2>1. \A v \in Orders, b \in Approvers :
          HasApproval(v, b)' <=> (HasApproval(v, b) \/ (v = w /\ b = a))
    BY <1>1, <1>4 DEF HasApproval
  <2>2. WindowRows' = WindowRows \cup { << w, a, e >> }
    <3>1. ASSUME NEW x \in WindowRows'
          PROVE  x \in WindowRows \cup { << w, a, e >> }
      <4>1. PICK v \in Orders, b \in Approvers :
              HasApproval(v, b)' /\ x = << v, b, approvals'[v][b].expires >>
        BY <3>1, WindowRow
      <4>2. CASE v = w /\ b = a
        BY <1>4, <4>1, <4>2
      <4>3. CASE v # w \/ b # a
        BY <1>4, <2>1, <4>1, <4>3, WindowRow
      <4> QED
        BY <4>2, <4>3
    <3>2. ASSUME NEW x \in WindowRows
          PROVE  x \in WindowRows'
      <4>1. PICK v \in Orders, b \in Approvers :
              HasApproval(v, b) /\ x = << v, b, approvals[v][b].expires >>
        BY <3>2, WindowRow
      <4>2. HasApproval(v, b)' /\ x = << v, b, approvals'[v][b].expires >>
        BY <1>4, <1>6, <2>1, <4>1
      <4> QED
        BY <4>2, WindowRow
    <3>3. << w, a, e >> \in WindowRows'
      <4>1. PICK v \in Orders, b \in Approvers : v = w /\ b = a
        BY <1>1
      <4>2. HasApproval(v, b)' /\ << w, a, e >> = << v, b, approvals'[v][b].expires >>
        BY <1>4, <2>1, <4>1
      <4> QED
        BY <4>2, WindowRow
    <3> QED
      BY <3>1, <3>2, <3>3
  <2>3. ~ \E x \in WindowRows : x[1] = w /\ x[2] = a
    BY <1>6, WindowRow
  <2>4. Gate!Grant(w, a)
    BY <1>1, <1>2, <1>3, <2>2, <2>3 DEF Gate!Grant
  <2> QED
    BY <1>1, <2>4 DEF Gate!Next
<1> QED
  BY <1>5, <1>6

(* Deciding: the approval the token stands for is a window that is open by *)
(* the clock of this step.                                                 *)
LEMMA ApplyDecides ==
    ASSUME Inv, DecideApply
    PROVE  Gate!Next
<1> DEFINE w == challenges[handler.token].order
           a == ApproverOf[challenges[handler.token].actor]
<1>1. /\ handler \in DecideLocals /\ w \in Orders /\ a \in Approvers
      /\ approvals[w][a] \in ApprovalRow
      /\ ~ Lapsed(approvals[w][a].expires, now)
      /\ orders[w] = "AwaitingApproval"
  BY TokenInHand DEF DecideApply, Applicable, ApplyApprovalFrom, ApprovalOf
<1>2. /\ UNCHANGED << now, approvals >>
      /\ orders' = [orders EXCEPT ![w] = DecidedStatus(handler.decision)]
  BY DEF DecideApply
<1> HIDE DEF w, a
<1>3. approvals[w][a].expires \in Int /\ now \in Int
  BY <1>1, TTLsAssumption, MaxTimeAssumption DEF ApprovalRow, Deadlines, Inv, TypeOK
<1>4. now =< approvals[w][a].expires
  BY <1>1, <1>3 DEF Lapsed
<1>5. HasApproval(w, a)
  BY <1>1 DEF HasApproval, ApprovalRow, Decisions
<1>6. << w, a, approvals[w][a].expires >> \in WindowRows
  BY <1>1, <1>5, WindowRow
<1>7. \E x \in WindowRows : x[1] = w /\ now =< x[3]
  BY <1>4, <1>6
<1>8. GateOf(DecidedStatus(handler.decision)) \in { "granted", "refused" }
  BY DEF GateOf, DecidedStatus
<1>9. GateOf(orders[w]) = "open"
  BY <1>1 DEF GateOf
<1>10. [v \in Orders |-> GateOf(orders[v])]' =
         [[v \in Orders |-> GateOf(orders[v])]
            EXCEPT ![w] = GateOf(DecidedStatus(handler.decision))]
  BY <1>1, <1>2 DEF Inv, TypeOK
<1>11. WindowRows' = WindowRows
  BY <1>2, SameWindows DEF HasApproval
<1>12. Gate!Decide(w, GateOf(DecidedStatus(handler.decision)))
  BY <1>1, <1>2, <1>7, <1>9, <1>10, <1>11 DEF Gate!Decide
<1> QED
  BY <1>1, <1>8, <1>12 DEF Gate!Next

(* Recording a decision writes an approval that has its window already.    *)
LEMMA RecordedDecisionIsSilent ==
    ASSUME Inv, DecideRecordApproval
    PROVE  UNCHANGED Gate!gateVars
<1> DEFINE w == challenges[handler.token].order
           a == ApproverOf[challenges[handler.token].actor]
           row == [approvals[w][a] EXCEPT !.decision = handler.decision]
<1>1. /\ handler \in DecideLocals /\ w \in Orders /\ a \in Approvers
      /\ approvals[w][a] \in ApprovalRow
  BY TokenInHand DEF DecideRecordApproval, ApprovalOf
<1>2. /\ UNCHANGED << now, orders >>
      /\ approvals' = [approvals EXCEPT ![w] = [approvals[w] EXCEPT ![a] = row]]
  BY DEF DecideRecordApproval
<1>3. /\ row.decision \in Decisions /\ row.expires = approvals[w][a].expires
      /\ approvals[w][a].decision # "Absent"
  BY <1>1 DEF ApprovalRow, DecideLocals, Decisions
<1> HIDE DEF w, a, row
<1>4. /\ approvals'[w][a] = row
      /\ \A v \in Orders, b \in Approvers :
           v # w \/ b # a => approvals'[v][b] = approvals[v][b]
  BY <1>1, <1>2 DEF Inv, TypeOK
<1>5. WindowRows' = WindowRows
  BY <1>3, <1>4, SameWindows DEF HasApproval, Decisions
<1> QED
  BY <1>2, <1>5 DEF Gate!gateVars

LEMMA GateStep ==
    ASSUME Inv, [Next]_vars
    PROVE  [Gate!Next]_Gate!gateVars
<1>1. ASSUME NEW w \in Orders, Submit(w) PROVE UNCHANGED Gate!gateVars
  <2>1. /\ UNCHANGED << now, approvals >>
        /\ orders[w] = "Absent" /\ orders' = [orders EXCEPT ![w] = "Submitted"]
    BY <1>1 DEF Submit
  <2>2. GateOf("Submitted") = GateOf("Absent")
    BY DEF GateOf
  <2>3. \A v \in Orders : GateOf(orders'[v]) = GateOf(orders[v])
    BY <1>1, <2>1, <2>2 DEF Inv, TypeOK
  <2>4. WindowRows' = WindowRows
    BY <2>1, SameWindows DEF HasApproval
  <2> QED
    BY <2>1, <2>3, <2>4 DEF Gate!gateVars
<1>2. ASSUME NEW w \in Orders, NEW actor \in Actors, NEW ttl \in TTLs,
             OpenGate(w, actor, ttl)
      PROVE  Gate!Next
  BY <1>2, OpenGateOpens
<1>3. CASE CreateRecordApproval
  BY <1>3, RecordedApprovalGrants
<1>4. CASE DecideApply
  BY <1>4, ApplyDecides
<1>5. CASE DecideRecordApproval
  BY <1>5, RecordedDecisionIsSilent
<1>6. CASE UNCHANGED << now, orders, approvals >>
  <2>1. WindowRows' = WindowRows
    BY <1>6, SameWindows DEF HasApproval
  <2> QED
    BY <1>6, <2>1 DEF Gate!gateVars
<1>7. CASE Tick
  <2>1. UNCHANGED << orders, approvals >> /\ now' = now + 1
    BY <1>7 DEF Tick
  <2>2. WindowRows' = WindowRows
    BY <2>1, SameWindows DEF HasApproval
  <2>3. Gate!Tick
    BY <2>1, <2>2 DEF Gate!Tick
  <2> QED
    BY <2>3 DEF Gate!Next
<1> QED
  BY <1>1, <1>2, <1>3, <1>4, <1>5, <1>6, <1>7
  DEF Next, Create, JoinGate, Decide, DecideExpired, DecideLookup, HandlerStep,
      CreateRecordChallenge, DecideRefused, DecideRecordChallenge, Interrupt, vars

(* The approval flow, tables, tokens, lock, interruptions and all, behaves *)
(* like the gate: each approver's window is fixed when it is granted and   *)
(* an order is decided at most once, inside a window.                      *)
THEOREM FlowImplementsGate == Spec => ImplementsGate
<1>1. Init => Gate!Init
  BY GateInit
<1>2. Inv /\ [Next]_vars => [Gate!Next]_Gate!gateVars
  BY GateStep
<1> QED
  BY <1>1, <1>2, Invariance, PTL DEF Spec, ImplementsGate, Gate!Spec
=============================================================================
