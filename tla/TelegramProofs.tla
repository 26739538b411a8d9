---------------------------- MODULE TelegramProofs ----------------------------
(***************************************************************************)
(* Theorems about TelegramLoop, for every instance of its constants.       *)
(*                                                                         *)
(* The daemon does with the store only what ApprovalFlow does, so that the *)
(* theorems about ApprovalFlow hold of it.  For the rest, PollInv says how *)
(* the offset, its file and the batch at hand fit together, TaskInv what a *)
(* handler knows about the request it has in progress, and CostInv what    *)
(* each fault has cost.  Types and bounds come last.                       *)
(***************************************************************************)
EXTENDS TelegramLoop, ApprovalFlowProofs, SequenceTheorems, FiniteSetTheorems

(* The types the argument needs; bounds are left to BotTypeOK.             *)
LoopTyped ==
    /\ inbox \in Seq(Messages)
    /\ Len(inbox) =< MaxUpdates
    /\ confirmed \in Nat /\ file \in Nat /\ offset \in Nat
    /\ batch \in Seq(Nat)
    /\ task \in TaskTypes
    /\ book \in [Users -> Tokens \cup { None }]
    /\ begun \in [Updates -> Nat]
    /\ torn \in BOOLEAN
    /\ faults \in Nat

(* The update at hand is in the inbox, of somebody the daemon listens to   *)
(* once it is past the first look, and a request was received in the past. *)
TaskInv ==
    task # NoTask =>
        /\ task.id \in 1 .. Len(inbox)
        /\ task.pc # "handle" => IsAllowed(actor)
        /\ task.pc = "gate" => task.asked =< now

(* The update the loop comes to next.                                      *)
Upcoming == ConfirmedBy(offset)

PollInv ==
    /\ 1 =< confirmed
    /\ Upcoming =< Len(inbox) + 1
    /\ file \in { offset, 0 }
    /\ Upcoming + Len(batch) =< Len(inbox) + 1
    /\ \A i \in DOMAIN batch : batch[i] = Upcoming + i - 1
    /\ \A u \in Updates : u < Upcoming => begun[u] > 0
    /\ ~ torn => \A u \in Updates : begun[u] =< 1 /\ (u >= offset => begun[u] = 0)

LoopInv == LoopTyped /\ TaskInv /\ PollInv

-----------------------------------------------------------------------------
(* The update at hand. *)

LEMMA WritersAreActors ==
    ASSUME LoopTyped, TaskInv, task # NoTask
    PROVE  message \in Messages /\ actor \in Actors
<1>1. message \in Messages
  BY DEF LoopTyped, TaskInv, message
<1>2. message.from \in Actors \ HttpActors
  BY <1>1, MessagesAssumption
<1> QED BY <1>1, <1>2 DEF actor

(* The locals of a handler, by the step it is about to take.               *)
LEMMA TaskByStep ==
    ASSUME LoopTyped
    PROVE  /\ task.pc = "none" <=> task = NoTask
           /\ task # NoTask => task.id \in Updates
           /\ task.pc \in { "gate", "minting" } =>
                /\ task.order \in Orders
                /\ task.asked \in 0 .. MaxTime
                /\ task = [pc |-> task.pc, id |-> task.id, order |-> task.order,
                           asked |-> task.asked]
           /\ task.pc \in { "prompt", "decide", "deciding" } => task.token \in Tokens
           /\ task.pc \in { "decide", "deciding" } =>
                /\ task.decision \in Decisions
                /\ task = [pc |-> task.pc, id |-> task.id, token |-> task.token,
                           decision |-> task.decision]
BY DEF LoopTyped, TaskTypes, NoTask

-----------------------------------------------------------------------------
(* Every step is one of ApprovalFlow's, or none. *)

LEMMA StepFollowsFlow == TypeOK /\ LoopInv /\ [BotNext]_allVars => [Next]_vars
<1> SUFFICES ASSUME TypeOK, LoopInv, [BotNext]_allVars
             PROVE  [Next]_vars
  OBVIOUS
<1>1. CASE UNCHANGED allVars
  BY <1>1 DEF allVars, vars
<1>2. CASE UNCHANGED vars
  BY <1>2
<1>3. CASE HandleSubmit
  BY <1>3 DEF HandleSubmit, Next
<1>4. CASE RequestChallenge
  <2>1. actor \in Actors /\ task.order \in Orders /\ task.asked \in 0 .. now
    BY <1>4, WritersAreActors, TaskByStep DEF RequestChallenge, At, LoopInv, TaskInv, TypeOK, NoTask
  <2>2. PICK ttl \in TTLs : \/ OpenGate(task.order, actor, ttl)
                            \/ JoinGate(task.order, actor, ttl, task.asked)
    BY <1>4 DEF RequestChallenge
  <2>3. Create
    BY <2>1, <2>2 DEF Create
  <2> QED BY <2>3 DEF Next
<1>5. CASE MintApproval \/ MintChallenge \/ Deciding \/ Decided \/ HttpStep
  BY <1>5 DEF MintApproval, MintChallenge, Deciding, Decided, HttpStep, HandlerStep, Next
<1>6. CASE DecideToken
  <2>1. actor \in Actors /\ task.token \in Tokens /\ task.decision \in Decisions
    BY <1>6, WritersAreActors, TaskByStep DEF DecideToken, DecideTokenAs, At, LoopInv, NoTask
  <2>2. DecideLookup(task.token, actor, task.decision)
    BY <1>6 DEF DecideToken, DecideTokenAs
  <2>3. Decide
    BY <2>1, <2>2 DEF Decide
  <2> QED BY <2>3 DEF Next
<1>7. CASE DecideTokenUnanswered
  <2>1. actor \in Actors /\ task.token \in Tokens
    BY <1>7, WritersAreActors, TaskByStep DEF DecideTokenUnanswered, At, LoopInv, NoTask
  <2>2. DecideExpired(task.token, actor) \/ UNCHANGED vars
    BY <1>7 DEF DecideTokenUnanswered
  <2>3. Decide \/ UNCHANGED vars
    BY <2>1, <2>2 DEF Decide
  <2> QED BY <2>3 DEF Next
<1>8. CASE StoreFails
  BY <1>8 DEF StoreFails, Next
<1>9. CASE Crash
  BY <1>9 DEF Crash, Interrupt, Next, vars
<1>10. CASE HttpRequest
  <2>1. HttpActors \subseteq Actors
    BY ActorsAssumption
  <2>2. Create \/ Decide
    BY <1>10, <2>1 DEF HttpRequest, Create, Decide
  <2> QED BY <2>2 DEF Next
<1>11. CASE Clock
  BY <1>11 DEF Clock, Next
<1> QED
  BY <1>1, <1>2, <1>3, <1>4, <1>5, <1>6, <1>7, <1>8, <1>9, <1>10, <1>11
     DEF BotNext, LoopStep, Write, Fetch, Persist, PersistAs, PersistFails, PersistFailsThen,
         HandleOther, HandleSubmitRejected, HandleTyped, HandleVoice, HandleVoiceUndecided,
         RequestChallengeRefused, Prompt, PromptRemembering

-----------------------------------------------------------------------------
(* The invariant of the loop. *)

LEMMA LoopInit == BotInit => LoopInv
<1> SUFFICES ASSUME BotInit PROVE LoopInv
  OBVIOUS
<1>1. LoopTyped
  <2>1. inbox \in Seq(Messages) /\ Len(inbox) = 0 /\ batch \in Seq(Nat)
    BY DEF BotInit
  <2>2. task \in TaskTypes /\ book \in [Users -> Tokens \cup { None }]
    BY DEF BotInit, TaskTypes
  <2>3. begun \in [Updates -> Nat]
    BY DEF BotInit
  <2>4. torn \in BOOLEAN
    BY DEF BotInit
  <2>5. /\ confirmed \in Nat /\ file \in Nat /\ offset \in Nat /\ faults \in Nat
        /\ Len(inbox) =< MaxUpdates
    BY <2>1, BoundsAssumption DEF BotInit
  <2> QED BY <2>1, <2>2, <2>3, <2>4, <2>5 DEF LoopTyped
<1>2. TaskInv
  BY DEF BotInit, TaskInv
<1>3. PollInv
  BY DEF BotInit, PollInv, Upcoming, ConfirmedBy, Updates
<1> QED BY <1>1, <1>2, <1>3 DEF LoopInv

(* What has been handed to the loop stays as it is while a handler works.  *)
LEMMA PollUntouched ==
    ASSUME PollInv, UNCHANGED loopVars, UNCHANGED << begun, torn >>
    PROVE  PollInv'
BY DEF PollInv, Upcoming, ConfirmedBy, loopVars

(* A handler that returns.                                                 *)
LEMMA EndTaskInv ==
    ASSUME LoopInv, EndTask, UNCHANGED loopVars, UNCHANGED << begun, torn >>,
           book' \in [Users -> Tokens \cup { None }], faults' \in Nat
    PROVE  LoopInv'
<1>1. task' = NoTask
  BY DEF EndTask
<1>2. LoopTyped'
  BY <1>1 DEF LoopInv, LoopTyped, TaskTypes, loopVars
<1>3. TaskInv'
  BY <1>1 DEF TaskInv
<1> QED BY <1>2, <1>3, PollUntouched DEF LoopInv

(* A handler that goes on with the same update.                            *)
LEMMA GoOnInv ==
    ASSUME LoopInv, task # NoTask, task' \in TaskTypes, task'.id = task.id,
           IsAllowed(actor), task'.pc = "gate" => task'.asked =< now',
           UNCHANGED loopVars, UNCHANGED << book, begun, torn, faults >>
    PROVE  LoopInv'
<1>1. LoopTyped'
  BY DEF LoopInv, LoopTyped, loopVars
<1>2. actor' = actor /\ IsAllowed(actor)'
  BY DEF actor, message, IsAllowed, loopVars
<1>3. TaskInv'
  BY <1>2 DEF LoopInv, TaskInv, loopVars, NoTask
<1> QED BY <1>1, <1>3, PollUntouched DEF LoopInv

LEMMA HandlersInv ==
    ASSUME TypeOK, LoopInv,
           \/ HandleOther \/ HandleSubmit \/ HandleSubmitRejected \/ HandleTyped
           \/ HandleVoice \/ HandleVoiceUndecided
           \/ RequestChallenge \/ RequestChallengeRefused
           \/ MintApproval \/ MintChallenge
           \/ \E sent \in BOOLEAN : Prompt(sent)
           \/ DecideToken \/ DecideTokenUnanswered \/ Deciding \/ Decided \/ StoreFails
    PROVE  LoopInv'
<1>1. CASE HandleOther \/ HandleSubmitRejected \/ HandleVoiceUndecided \/ RequestChallengeRefused
  <2>1. EndTask /\ UNCHANGED loopVars /\ UNCHANGED << book, begun, torn, faults >>
    BY <1>1 DEF HandleOther, HandleSubmitRejected, HandleVoiceUndecided, RequestChallengeRefused
  <2> QED BY <2>1, EndTaskInv DEF LoopInv, LoopTyped
<1>2. CASE DecideTokenUnanswered \/ Decided \/ StoreFails
  <2>1. /\ EndDecision /\ UNCHANGED loopVars /\ UNCHANGED << begun, torn >>
        /\ faults' = faults \/ faults' = faults + 1
    BY <1>2 DEF DecideTokenUnanswered, Decided, StoreFails
  <2>2. book' \in [Users -> Tokens \cup { None }]
    BY <2>1 DEF EndDecision, LoopInv, LoopTyped
  <2>3. faults' \in Nat
    BY <2>1 DEF LoopInv, LoopTyped
  <2> QED BY <2>1, <2>2, <2>3, EndTaskInv DEF EndDecision
<1>3. CASE \E sent \in BOOLEAN : Prompt(sent)
  <2>1. /\ EndTask /\ UNCHANGED loopVars /\ UNCHANGED << begun, torn, faults >>
        /\ book' = [book EXCEPT ![actor.user] = task.token]
        /\ task.token \in Tokens
    BY <1>3, TaskByStep DEF Prompt, PromptRemembering, At, LoopInv
  <2> QED BY <2>1, EndTaskInv DEF LoopInv, LoopTyped
<1>4. CASE HandleSubmit
  <2>1. /\ task.pc = "handle" /\ IsAllowed(actor) /\ now' = now
        /\ \E w \in Orders : task' = [pc |-> "gate", id |-> task.id, order |-> w, asked |-> now]
        /\ UNCHANGED loopVars /\ UNCHANGED << book, begun, torn, faults >>
    BY <1>4 DEF HandleSubmit, Handling, At, Submit
  <2>2. now \in 0 .. MaxTime /\ task # NoTask /\ task.id \in Updates
    BY <2>1, TaskByStep DEF TypeOK, LoopInv, NoTask
  <2>3. task' \in TaskTypes /\ task'.id = task.id /\ task'.asked =< now'
    BY <2>1, <2>2 DEF TaskTypes
  <2> QED BY <2>1, <2>2, <2>3, GoOnInv
<1>5. CASE HandleTyped \/ HandleVoice
  <2>1. /\ task.pc = "handle" /\ IsAllowed(actor)
        /\ UNCHANGED loopVars /\ UNCHANGED << book, begun, torn, faults >>
    BY <1>5 DEF HandleTyped, HandleVoice, Handling, At
  <2>2. task # NoTask /\ task.id \in Updates
    BY <2>1, TaskByStep DEF LoopInv, NoTask
  <2>3. message \in Messages
    BY <2>2, WritersAreActors DEF LoopInv
  <2>4. PICK c \in Tokens, d \in Decisions :
          task' = [pc |-> "decide", id |-> task.id, token |-> c, decision |-> d]
    <3>1. CASE HandleTyped
      <4>1. message.token \in Tokens /\ message.decision \in Decisions
        BY <2>3, <3>1, MessagesAssumption DEF MessageRows, HandleTyped, Handling
      <4> QED BY <3>1, <4>1 DEF HandleTyped
    <3>2. CASE HandleVoice
      <4>1. message.from \in TelegramActors
        BY <2>3, MessagesAssumption, ActorsAssumption
      <4>2. book[actor.user] \in Tokens
        BY <3>2, <4>1 DEF HandleVoice, LoopInv, LoopTyped, actor, TelegramActors
      <4> QED BY <3>2, <4>2 DEF HandleVoice
    <3> QED BY <1>5, <3>1, <3>2
  <2>5. task' \in TaskTypes /\ task'.id = task.id /\ task'.pc # "gate"
    BY <2>2, <2>4 DEF TaskTypes
  <2> QED BY <2>1, <2>2, <2>5, GoOnInv
<1>6. CASE RequestChallenge
  <2>1. /\ task.pc = "gate" /\ task' = [task EXCEPT !.pc = "minting"]
        /\ UNCHANGED loopVars /\ UNCHANGED << book, begun, torn, faults >>
    BY <1>6 DEF RequestChallenge, At
  <2>2. /\ task # NoTask /\ task.id \in Updates /\ IsAllowed(actor)
        /\ task \in [pc : { "gate", "minting" }, id : Updates, order : Orders, asked : 0 .. MaxTime]
    BY <2>1, TaskByStep DEF LoopInv, LoopTyped, TaskInv, NoTask, TaskTypes
  <2>3. task' \in TaskTypes /\ task'.id = task.id /\ task'.pc # "gate"
    BY <2>1, <2>2 DEF TaskTypes
  <2> QED BY <2>1, <2>2, <2>3, GoOnInv
<1>7. CASE DecideToken
  <2>1. /\ task.pc = "decide" /\ task' = [task EXCEPT !.pc = "deciding"]
        /\ UNCHANGED loopVars /\ UNCHANGED << book, begun, torn, faults >>
    BY <1>7 DEF DecideToken, DecideTokenAs, At
  <2>2. /\ task # NoTask /\ task.id \in Updates /\ IsAllowed(actor)
        /\ task \in [pc : { "decide", "deciding" }, id : Updates, token : Tokens,
                      decision : Decisions]
    BY <2>1, TaskByStep DEF LoopInv, LoopTyped, TaskInv, NoTask, TaskTypes
  <2>3. task' \in TaskTypes /\ task'.id = task.id /\ task'.pc # "gate"
    BY <2>1, <2>2 DEF TaskTypes
  <2> QED BY <2>1, <2>2, <2>3, GoOnInv
<1>8. CASE MintChallenge
  <2>1. PICK c \in Tokens : /\ task.pc = "minting"
                            /\ task' = [pc |-> "prompt", id |-> task.id, token |-> c]
                            /\ UNCHANGED loopVars /\ UNCHANGED << book, begun, torn, faults >>
    BY <1>8 DEF MintChallenge, At
  <2>2. task # NoTask /\ task.id \in Updates /\ IsAllowed(actor)
    BY <2>1, TaskByStep DEF LoopInv, LoopTyped, TaskInv, NoTask
  <2>3. task' \in TaskTypes /\ task'.id = task.id /\ task'.pc # "gate"
    BY <2>1, <2>2 DEF TaskTypes
  <2> QED BY <2>1, <2>2, <2>3, GoOnInv
<1>9. CASE MintApproval \/ Deciding
  <2>1. UNCHANGED botVars /\ now' = now
    BY <1>9 DEF MintApproval, Deciding, CreateRecordApproval, DecideApply, DecideRecordApproval
  <2> QED BY <2>1 DEF botVars, LoopInv, LoopTyped, TaskInv, PollInv, Upcoming, ConfirmedBy,
        actor, message, IsAllowed
<1> QED BY <1>1, <1>2, <1>3, <1>4, <1>5, <1>6, <1>7, <1>8, <1>9

LEMMA WriteInv ==
    ASSUME LoopInv, NEW m \in Messages, Write(m)
    PROVE  LoopInv'
<1>1. /\ task = NoTask /\ batch = << >>
      /\ inbox' = Append(inbox, m) /\ Len(inbox) < MaxUpdates
      /\ UNCHANGED << vars, confirmed, file, offset, batch, task, book, begun, torn, faults >>
  BY DEF Write, Quiet
<1>2. inbox' \in Seq(Messages) /\ Len(inbox') = Len(inbox) + 1
  BY <1>1 DEF LoopInv, LoopTyped
<1>3. LoopTyped'
  BY <1>1, <1>2, BoundsAssumption DEF LoopInv, LoopTyped
<1>4. TaskInv'
  BY <1>1 DEF TaskInv
<1>5. PollInv'
  BY <1>1, <1>2 DEF LoopInv, LoopTyped, PollInv, Upcoming, ConfirmedBy
<1> QED BY <1>3, <1>4, <1>5 DEF LoopInv

(* What is served begins where Telegram has been told the loop is.         *)
LEMMA FetchInv ==
    ASSUME LoopInv, NEW answered \in BOOLEAN, Fetch(answered)
    PROVE  LoopInv'
<1>1. /\ task = NoTask
      /\ confirmed' = Upcoming
      /\ batch' = IF answered THEN ServedFrom(offset) ELSE << >>
      /\ UNCHANGED << vars, inbox, file, offset, task, book, begun, torn, faults >>
  BY DEF Fetch, Quiet, Upcoming
<1>2. Upcoming' = Upcoming /\ Upcoming \in Nat /\ 1 =< Upcoming
  BY <1>1 DEF Upcoming, ConfirmedBy, LoopInv, LoopTyped, PollInv
<1> DEFINE n == Len(inbox) + 1 - Upcoming
<1>3. n \in Nat
  BY <1>2 DEF LoopInv, LoopTyped, PollInv
<1>4. ServedFrom(offset) = [i \in 1 .. n |-> Upcoming + i - 1]
  BY DEF ServedFrom, Upcoming
<1>5. /\ ServedFrom(offset) \in Seq(Nat)
      /\ Len(ServedFrom(offset)) = n
      /\ \A i \in DOMAIN ServedFrom(offset) : ServedFrom(offset)[i] = Upcoming + i - 1
  <2> DEFINE s == [i \in 1 .. n |-> Upcoming + i - 1]
  <2>1. s \in [1 .. n -> Nat]
    BY <1>2, <1>3
  <2> HIDE DEF n
  <2>2. s \in Seq(Nat) /\ Len(s) = n /\ \A i \in DOMAIN s : s[i] = Upcoming + i - 1
    BY <1>3, <2>1, SeqDef
  <2> QED BY <1>4, <2>2
<1> HIDE DEF n
<1>6. /\ batch' \in Seq(Nat)
      /\ Len(batch') =< n
      /\ \A i \in DOMAIN batch' : batch'[i] = Upcoming + i - 1
  BY <1>1, <1>3, <1>5
<1>7. LoopTyped'
  BY <1>1, <1>2, <1>6 DEF LoopInv, LoopTyped
<1>8. TaskInv'
  BY <1>1 DEF TaskInv
<1>9. PollInv'
  <2>1. Upcoming + Len(batch') =< Len(inbox) + 1
    BY <1>2, <1>3, <1>6 DEF n, LoopInv, LoopTyped
  <2>2. \A i \in DOMAIN batch' : batch'[i] = Upcoming' + i - 1
    BY <1>2, <1>6
  <2>3. /\ 1 =< confirmed' /\ Upcoming' =< Len(inbox') + 1 /\ file' \in { offset', 0 }
        /\ Upcoming' + Len(batch') =< Len(inbox') + 1
        /\ \A u \in Updates : u < Upcoming' => begun'[u] > 0
        /\ ~ torn' => \A u \in Updates : begun'[u] =< 1 /\ (u >= offset' => begun'[u] = 0)
    BY <1>1, <1>2, <2>1 DEF LoopInv, PollInv
  <2> HIDE DEF Upcoming
  <2> QED BY <2>2, <2>3 DEF PollInv
<1> QED BY <1>7, <1>8, <1>9 DEF LoopInv

(* The offset is ahead of the update from before it is looked at.          *)
LEMMA PersistInv ==
    ASSUME LoopInv, Persist
    PROVE  LoopInv'
<1> DEFINE u == Head(batch)
<1>1. /\ task = NoTask /\ batch # << >>
      /\ file' = u + 1 /\ offset' = u + 1
      /\ batch' = Tail(batch)
      /\ task' = [pc |-> "handle", id |-> u]
      /\ begun' = [begun EXCEPT ![u] = @ + 1]
      /\ UNCHANGED << vars, config, inbox, confirmed, book, torn, faults >>
  BY DEF Persist, PersistAs
<1>2. /\ confirmed \in Nat /\ offset \in Nat /\ Len(inbox) \in Nat /\ Len(inbox) =< MaxUpdates
      /\ Upcoming \in Nat /\ confirmed =< Upcoming /\ offset =< Upcoming /\ 1 =< confirmed
  BY DEF LoopInv, LoopTyped, PollInv, Upcoming, ConfirmedBy
<1>3. u = Upcoming /\ Len(batch) >= 1 /\ Upcoming =< Len(inbox)
  <2>1. Len(batch) >= 1 /\ u = batch[1] /\ 1 \in DOMAIN batch
    BY <1>1 DEF LoopInv, LoopTyped
  <2> HIDE DEF u
  <2> QED BY <1>2, <2>1 DEF LoopInv, LoopTyped, PollInv
<1>4. u \in Updates
  BY <1>2, <1>3, BoundsAssumption DEF Updates
<1>5. Upcoming' = u + 1
  BY <1>1, <1>2, <1>3 DEF Upcoming, ConfirmedBy
<1>6. /\ Tail(batch) \in Seq(Nat)
      /\ Len(Tail(batch)) = Len(batch) - 1
      /\ \A i \in DOMAIN Tail(batch) : Tail(batch)[i] = u + 1 + i - 1
  <2>1. /\ Tail(batch) \in Seq(Nat) /\ Len(Tail(batch)) = Len(batch) - 1
        /\ \A i \in DOMAIN Tail(batch) : /\ i + 1 \in DOMAIN batch /\ i \in Nat
                                         /\ Tail(batch)[i] = batch[i + 1]
    BY <1>1 DEF LoopInv, LoopTyped
  <2>2. ASSUME NEW i \in DOMAIN Tail(batch)
        PROVE  Tail(batch)[i] = u + 1 + i - 1
    <3>1. batch[i + 1] = Upcoming + (i + 1) - 1
      BY <2>1 DEF LoopInv, PollInv
    <3> HIDE DEF u
    <3> QED BY <1>2, <1>3, <2>1, <3>1
  <2> QED BY <2>1, <2>2
<1> HIDE DEF u
<1>7. LoopTyped'
  <2>1. file' \in Nat /\ offset' \in Nat
    BY <1>1, <1>4 DEF Updates
  <2>2. task' \in TaskTypes
    BY <1>1, <1>4 DEF TaskTypes
  <2>3. begun' \in [Updates -> Nat]
    BY <1>1, <1>4 DEF LoopInv, LoopTyped
  <2> QED BY <1>1, <1>6, <2>1, <2>2, <2>3 DEF LoopInv, LoopTyped
<1>8. TaskInv'
  BY <1>1, <1>2, <1>3 DEF TaskInv
<1>9. PollInv'
  <2>1. ASSUME NEW v \in Updates, v < u + 1
        PROVE  begun'[v] > 0
    BY <1>1, <1>2, <1>3, <1>4, <2>1 DEF LoopInv, LoopTyped, PollInv, Updates
  <2>2. ASSUME ~ torn', NEW v \in Updates
        PROVE  begun'[v] =< 1 /\ (v >= u + 1 => begun'[v] = 0)
    BY <1>1, <1>2, <1>3, <1>4, <2>2 DEF LoopInv, LoopTyped, PollInv, Updates
  <2>3. /\ 1 =< confirmed' /\ Upcoming' =< Len(inbox') + 1 /\ file' \in { offset', 0 }
        /\ Upcoming' + Len(batch') =< Len(inbox') + 1
    BY <1>1, <1>2, <1>3, <1>5, <1>6 DEF LoopInv, LoopTyped, PollInv
  <2> HIDE DEF Upcoming
  <2> QED BY <1>1, <1>5, <1>6, <2>1, <2>2, <2>3 DEF PollInv
<1> QED BY <1>7, <1>8, <1>9 DEF LoopInv

LEMMA PersistFailsInv ==
    ASSUME LoopInv, PersistFails
    PROVE  LoopInv'
<1>1. /\ task = NoTask /\ batch' = << >> /\ file' \in { file, 0 } /\ faults' = faults + 1
      /\ UNCHANGED << vars, inbox, confirmed, offset, task, book, begun, torn >>
  BY DEF PersistFails, PersistFailsThen
<1>2. LoopTyped'
  BY <1>1 DEF LoopInv, LoopTyped
<1>3. TaskInv'
  BY <1>1 DEF TaskInv
<1>4. PollInv'
  BY <1>1 DEF LoopInv, LoopTyped, PollInv, Upcoming, ConfirmedBy
<1> QED BY <1>2, <1>3, <1>4 DEF LoopInv

(* A crash takes the loop back to the offset in the file, which is its own *)
(* unless the file is torn.                                                *)
LEMMA CrashInv ==
    ASSUME LoopInv, Crash
    PROVE  LoopInv'
<1>1. /\ task' = NoTask /\ batch' = << >> /\ file' \in { file, 0 } /\ faults' = faults + 1
      /\ torn' = (torn \/ (file' = 0 /\ offset # 0))
      /\ offset' = file' /\ book' = [v \in Users |-> None]
      /\ UNCHANGED << inbox, confirmed, begun >>
  BY DEF Crash
<1>2. LoopTyped'
  BY <1>1 DEF LoopInv, LoopTyped, TaskTypes
<1>3. TaskInv'
  BY <1>1 DEF TaskInv
<1>4. PollInv'
  <2>1. offset' = offset \/ offset' = 0
    BY <1>1 DEF LoopInv, PollInv
  <2>2. /\ Upcoming' \in Nat /\ Upcoming' =< Upcoming /\ Upcoming \in Nat
        /\ Len(batch') = 0 /\ DOMAIN batch' = {} /\ Len(inbox) \in Nat
    BY <1>1, <2>1 DEF LoopInv, LoopTyped, Upcoming, ConfirmedBy
  <2>3. ASSUME ~ torn'
        PROVE  ~ torn /\ offset' = offset
    BY <1>1, <2>1, <2>3 DEF LoopInv, LoopTyped
  <2>4. \A v \in Updates : v < Upcoming' => begun'[v] > 0
    BY <1>1, <2>2 DEF LoopInv, PollInv, Updates
  <2>5. \A v \in DOMAIN batch' : batch'[v] = Upcoming' + v - 1
    BY <2>2
  <2>6. ~ torn' => \A v \in Updates : begun'[v] =< 1 /\ (v >= offset' => begun'[v] = 0)
    BY <1>1, <2>3 DEF LoopInv, PollInv
  <2>7. /\ 1 =< confirmed' /\ Upcoming' =< Len(inbox') + 1 /\ file' \in { offset', 0 }
        /\ Upcoming' + Len(batch') =< Len(inbox') + 1
    BY <1>1, <2>2 DEF LoopInv, PollInv
  <2> QED BY <2>4, <2>5, <2>6, <2>7 DEF PollInv
<1> QED BY <1>2, <1>3, <1>4 DEF LoopInv

LEMMA LoopStepInv == TypeOK /\ LoopInv /\ [BotNext]_allVars => LoopInv'
<1> SUFFICES ASSUME TypeOK, LoopInv, [BotNext]_allVars
             PROVE  LoopInv'
  OBVIOUS
<1>1. CASE \/ UNCHANGED allVars
           \/ UNCHANGED botVars /\ (now' = now \/ now' = now + 1)
  <2>1. UNCHANGED botVars /\ now =< now'
    BY <1>1 DEF allVars, botVars, TypeOK
  <2>2. UNCHANGED loopVars /\ UNCHANGED << book, begun, torn, faults, task >>
    BY <2>1 DEF botVars, loopVars
  <2>3. LoopTyped'
    BY <2>2 DEF LoopInv, LoopTyped, loopVars
  <2>4. TaskInv'
    <3>1. actor' = actor /\ (IsAllowed(actor) => IsAllowed(actor)')
      BY <2>2 DEF actor, message, IsAllowed, loopVars
    <3>2. task.pc = "gate" /\ task # NoTask => task.asked =< now'
      BY <1>1, <2>1, TaskByStep DEF LoopInv, TaskInv, TypeOK, allVars
    <3> QED BY <2>2, <3>1, <3>2 DEF LoopInv, TaskInv, loopVars
  <2> QED BY <2>2, <2>3, <2>4, PollUntouched DEF LoopInv
<1>2. CASE HttpRequest \/ HttpStep \/ Clock
  <2>1. UNCHANGED botVars /\ (now' = now \/ now' = now + 1)
    BY <1>2 DEF HttpRequest, HttpStep, Clock, Tick, HandlerStep, OpenGate, JoinGate, DecideExpired,
       DecideLookup, CreateRecordApproval, CreateRecordChallenge, DecideApply, DecideRefused,
       DecideRecordApproval, DecideRecordChallenge
  <2> QED BY <1>1, <2>1
<1> QED
  BY <1>1, <1>2, WriteInv, FetchInv, PersistInv, PersistFailsInv, CrashInv, HandlersInv
     DEF BotNext, LoopStep

-----------------------------------------------------------------------------
(* What each fault has cost: the updates that were begun, are not at hand  *)
(* any more and were not handled to the end.                               *)
Lost == { u \in Updates : begun[u] > 0 /\ u \notin done /\ (task # NoTask => u # task.id) }

CostInv == Cardinality(Lost) =< faults

LEMMA LostIsFinite == IsFiniteSet(Lost) /\ Cardinality(Lost) \in Nat
<1>1. IsFiniteSet(Updates)
  BY FS_Interval, BoundsAssumption DEF Updates
<1>2. Lost \in SUBSET Updates
  BY DEF Lost
<1> QED BY <1>1, <1>2, FS_Subset, FS_CardinalityType

(* A step that loses nothing keeps the account.                            *)
LEMMA NothingMoreLost ==
    ASSUME LoopTyped, CostInv, Lost' \subseteq Lost, faults' \in { faults, faults + 1 }
    PROVE  CostInv'
<1>1. Cardinality(Lost') =< Cardinality(Lost) /\ Cardinality(Lost') \in Nat
  BY LostIsFinite, FS_Subset, FS_CardinalityType
<1> QED BY <1>1, LostIsFinite DEF CostInv, LoopTyped

LEMMA CostStep ==
    ASSUME TypeOK, LoopInv, CostInv, [BotNext]_allVars
    PROVE  CostInv'
<1>1. LoopTyped
  BY DEF LoopInv
<1>2. CASE UNCHANGED << task, begun, done >> /\ faults' \in { faults, faults + 1 }
  BY <1>1, <1>2, NothingMoreLost DEF Lost
<1>3. CASE Persist
  <2>1. /\ task = NoTask /\ batch # << >>
        /\ task' = [pc |-> "handle", id |-> Head(batch)]
        /\ begun' = [begun EXCEPT ![Head(batch)] = @ + 1]
        /\ UNCHANGED << done, faults >>
    BY <1>3 DEF Persist, PersistAs
  <2>2. task' # NoTask /\ task'.id = Head(batch)
    BY <2>1 DEF NoTask
  <2>3. Lost' \subseteq Lost
    BY <1>1, <2>1, <2>2 DEF Lost, LoopTyped
  <2> QED BY <1>1, <2>1, <2>3, NothingMoreLost
<1>4. CASE EndTask /\ begun' = begun /\ task # NoTask /\ faults' \in { faults, faults + 1 }
  <2>1. Lost' \subseteq Lost
    BY <1>4 DEF EndTask, Lost
  <2> QED BY <1>1, <1>4, <2>1, NothingMoreLost
<1>5. CASE task # NoTask /\ task' # NoTask /\ task'.id = task.id
           /\ UNCHANGED << begun, done, faults >>
  <2>1. Lost' \subseteq Lost
    BY <1>5 DEF Lost
  <2> QED BY <1>1, <1>5, <2>1, NothingMoreLost
<1>6. CASE Crash
  <2>1. task' = NoTask /\ faults' = faults + 1 /\ UNCHANGED << begun, done >>
    BY <1>6 DEF Crash
  <2>2. Lost' \subseteq Lost \cup { task.id }
    BY <2>1 DEF Lost
  <2>3. /\ IsFiniteSet(Lost \cup { task.id })
        /\ Cardinality(Lost \cup { task.id }) =< Cardinality(Lost) + 1
        /\ Cardinality(Lost \cup { task.id }) \in Nat
    <3>1. IsFiniteSet(Lost) /\ Cardinality(Lost) \in Nat
      BY LostIsFinite, FS_CardinalityType
    <3>2. /\ IsFiniteSet(Lost \cup { task.id })
          /\ \/ Cardinality(Lost \cup { task.id }) = Cardinality(Lost)
             \/ Cardinality(Lost \cup { task.id }) = Cardinality(Lost) + 1
      BY <3>1, FS_AddElement
    <3> QED BY <3>1, <3>2
  <2>4. Cardinality(Lost') =< Cardinality(Lost \cup { task.id }) /\ Cardinality(Lost') \in Nat
    BY <2>2, <2>3, FS_Subset, FS_CardinalityType
  <2> QED BY <1>1, <2>1, <2>3, <2>4, LostIsFinite DEF CostInv, LoopTyped
<1>7. CASE \/ \E m \in Messages : Write(m)
           \/ \E answered \in BOOLEAN : Fetch(answered)
           \/ PersistFails \/ MintApproval \/ Deciding
           \/ HttpRequest \/ HttpStep \/ Clock \/ UNCHANGED allVars
  <2>1. UNCHANGED << task, begun, done >> /\ faults' \in { faults, faults + 1 }
    BY <1>7 DEF Write, Fetch, PersistFails, PersistFailsThen, MintApproval, Deciding,
       HttpRequest, HttpStep, Clock, botVars, allVars
  <2> QED BY <1>2, <2>1
<1>8. CASE \/ HandleOther \/ HandleSubmitRejected \/ HandleVoiceUndecided
           \/ RequestChallengeRefused \/ DecideTokenUnanswered \/ Decided \/ StoreFails
           \/ \E sent \in BOOLEAN : Prompt(sent)
  <2>1. /\ EndTask /\ begun' = begun /\ faults' \in { faults, faults + 1 }
        /\ task.pc \in { "handle", "gate", "prompt", "minting", "decide", "deciding" }
    BY <1>8 DEF HandleOther, HandleSubmitRejected, HandleVoiceUndecided, RequestChallengeRefused,
       DecideTokenUnanswered, Decided, StoreFails, Prompt, PromptRemembering, EndDecision,
       Handling, At, LoopHolds
  <2> QED BY <1>4, <2>1 DEF NoTask
<1>9. CASE HandleSubmit \/ HandleTyped \/ HandleVoice \/ MintChallenge
  <2>1. /\ UNCHANGED << begun, done, faults >> /\ task.pc \in { "handle", "minting" }
        /\ task'.pc \in { "gate", "decide", "prompt" } /\ task'.id = task.id
    BY <1>9 DEF HandleSubmit, HandleTyped, HandleVoice, MintChallenge, Handling, At
  <2> QED BY <1>5, <2>1 DEF NoTask
<1>10. CASE RequestChallenge \/ DecideToken
  <2>1. /\ UNCHANGED << begun, done, faults >> /\ task.pc \in { "gate", "decide" }
        /\ task' = [task EXCEPT !.pc = "minting"] \/ task' = [task EXCEPT !.pc = "deciding"]
    BY <1>10 DEF RequestChallenge, DecideToken, DecideTokenAs, At
  <2>2. task' # NoTask /\ task'.id = task.id
    BY <1>1, <2>1 DEF LoopTyped, TaskTypes, NoTask
  <2> QED BY <1>5, <2>1, <2>2 DEF NoTask
<1> QED BY <1>3, <1>6, <1>7, <1>8, <1>9, <1>10 DEF BotNext, LoopStep

-----------------------------------------------------------------------------
(* What a handler in the middle of a request relies on: the lock is its    *)
(* own, and a token it decides is the writer's.                            *)
HolderInv ==
    /\ task.pc = "minting" => handler.pc \in { "create_approval", "create_challenge" }
    /\ task.pc = "deciding" =>
        /\ handler.pc \in { "decide_apply", "decide_approval", "decide_challenge" }
        /\ handler.token = task.token
        /\ challenges[task.token].actor = actor

BotInv == Inv /\ LoopInv /\ HolderInv

LEMMA BotInitInv == BotInit => BotInv
<1> SUFFICES ASSUME BotInit PROVE BotInv
  OBVIOUS
<1>1. Inv
  BY InvInit DEF BotInit
<1>2. HolderInv
  BY DEF BotInit, HolderInv, NoTask
<1> QED BY <1>1, <1>2, LoopInit DEF BotInv

(* While the loop decides, only the clock and its own request move.        *)
LEMMA HolderStep ==
    ASSUME BotInv, [BotNext]_allVars
    PROVE  HolderInv'
<1>1. TypeOK
  BY DEF BotInv, Inv
<1>2. CASE task'.pc \notin { "minting", "deciding" }
  BY <1>2 DEF HolderInv
<1>3. CASE UNCHANGED << task, inbox, handler, challenges >>
  BY <1>3 DEF BotInv, HolderInv, actor, message
<1>4. CASE DecideToken
  <2>1. /\ task.pc = "decide" /\ task' = [task EXCEPT !.pc = "deciding"]
        /\ DecideLookup(task.token, actor, task.decision)
        /\ UNCHANGED inbox
    BY <1>4 DEF DecideToken, DecideTokenAs, At, loopVars
  <2>2. /\ task.token \in Tokens
        /\ task \in [pc : { "decide", "deciding" }, id : Updates, token : Tokens,
                      decision : Decisions]
    BY <2>1, TaskByStep DEF BotInv, LoopInv, LoopTyped, TaskTypes, NoTask
  <2>3. task'.token = task.token /\ task'.id = task.id
    BY <2>1, <2>2
  <2>4. actor' = actor
    BY <2>1, <2>3 DEF actor, message
  <2>5. challenges[task.token].actor = actor
    BY <2>1 DEF DecideLookup, ChallengeAnswer
  <2>6. task'.pc = "deciding"
    BY <2>1, <2>2
  <2> QED BY <2>1, <2>3, <2>4, <2>5, <2>6 DEF DecideLookup, HolderInv
<1>5. CASE Deciding
  <2>1. /\ task.pc = "deciding" /\ UNCHANGED << task, inbox >>
        /\ DecideApply \/ DecideRecordApproval
    BY <1>5 DEF Deciding, At, botVars
  <2>2. handler \in DecideLocals
    BY <1>1, <2>1, LocalsByStep DEF BotInv, HolderInv
  <2>3. /\ handler'.pc \in { "decide_approval", "decide_challenge" }
        /\ handler'.token = handler.token /\ challenges' = challenges
    BY <2>1, <2>2 DEF DecideApply, DecideRecordApproval, DecideLocals
  <2> QED BY <2>1, <2>3 DEF BotInv, HolderInv, actor, message
<1>6. CASE HttpRequest
  <2>1. UNCHANGED botVars /\ handler = Idle
    BY <1>6 DEF HttpRequest, OpenGate, JoinGate, DecideExpired, DecideLookup
  <2> QED BY <2>1 DEF BotInv, HolderInv, Idle, botVars
<1>7. CASE HttpStep
  BY <1>7 DEF HttpStep, LoopHolds, botVars, HolderInv
<1>8. CASE MintApproval
  <2>1. task' = task /\ task.pc = "minting" /\ handler.pc = "create_approval"
        /\ handler' = [handler EXCEPT !.pc = "create_challenge"]
    BY <1>8 DEF MintApproval, At, botVars, CreateRecordApproval
  <2>2. handler \in CreateLocals
    BY <1>1, <2>1, LocalsByStep
  <2>3. handler'.pc = "create_challenge"
    BY <2>1, <2>2 DEF CreateLocals
  <2> QED BY <2>1, <2>3 DEF HolderInv
<1>9. CASE RequestChallenge
  <2>1. task' = [task EXCEPT !.pc = "minting"] /\ handler'.pc = "create_approval"
    BY <1>9 DEF RequestChallenge, OpenGate, JoinGate
  <2>2. task \in [pc : { "gate", "minting" }, id : Updates, order : Orders, asked : 0 .. MaxTime]
    BY <1>9 DEF RequestChallenge, At, BotInv, LoopInv, LoopTyped, TaskTypes, NoTask
  <2>3. task'.pc = "minting"
    BY <2>1, <2>2
  <2> QED BY <2>1, <2>3 DEF HolderInv
<1>10. CASE Clock \/ UNCHANGED allVars
  BY <1>3, <1>10 DEF Clock, Tick, allVars, botVars
<1>11. ASSUME BotNext, ~ DecideToken, ~ Deciding, ~ HttpRequest, ~ HttpStep, ~ MintApproval,
              ~ Clock, ~ RequestChallenge
       PROVE  task'.pc \notin { "minting", "deciding" }
  <2>1. CASE \/ \E m \in Messages : Write(m)
             \/ \E answered \in BOOLEAN : Fetch(answered)
             \/ PersistFails
    BY <2>1 DEF Write, Fetch, PersistFails, PersistFailsThen, Quiet, NoTask
  <2>2. CASE Persist \/ Crash
    BY <2>2 DEF Persist, PersistAs, Crash, NoTask
  <2>3. CASE HandleOther \/ HandleSubmitRejected \/ HandleVoiceUndecided
             \/ RequestChallengeRefused \/ DecideTokenUnanswered \/ Decided \/ StoreFails
             \/ \E sent \in BOOLEAN : Prompt(sent)
    BY <2>3 DEF HandleOther, HandleSubmitRejected, HandleVoiceUndecided, RequestChallengeRefused,
       DecideTokenUnanswered, Decided, StoreFails, Prompt, PromptRemembering, EndDecision,
       EndTask, NoTask
  <2>4. CASE HandleSubmit \/ HandleTyped \/ HandleVoice \/ MintChallenge
    BY <2>4 DEF HandleSubmit, HandleTyped, HandleVoice, MintChallenge
  <2> QED BY <1>11, <2>1, <2>2, <2>3, <2>4 DEF BotNext, LoopStep
<1> QED BY <1>2, <1>4, <1>5, <1>6, <1>7, <1>8, <1>9, <1>10, <1>11

LEMMA BotStepInv == BotInv /\ [BotNext]_allVars => BotInv'
<1> SUFFICES ASSUME BotInv, [BotNext]_allVars
             PROVE  BotInv'
  OBVIOUS
<1>1. TypeOK
  BY DEF BotInv, Inv
<1>2. [Next]_vars
  BY <1>1, StepFollowsFlow DEF BotInv
<1>3. Inv'
  BY <1>2, InvStep DEF BotInv
<1>4. LoopInv'
  BY <1>1, LoopStepInv DEF BotInv
<1> QED BY <1>3, <1>4, HolderStep DEF BotInv

(* The spoken and typed answers, the prompts and the HTTP surface together *)
(* do with the store only what ApprovalFlow does (telegram_poll_loop and   *)
(* all it calls).                                                          *)
THEOREM DaemonFollowsFlow == BotSpec => FollowsApprovalFlow
<1>1. BotInit => Init
  BY DEF BotInit
<1>2. BotInv /\ [BotNext]_allVars => [Next]_vars
  BY StepFollowsFlow DEF BotInv, Inv
<1> QED BY <1>1, <1>2, BotInitInv, BotStepInv, PTL DEF BotSpec, FollowsApprovalFlow, Spec

(* So an order is decided once, whoever answers where.                     *)
THEOREM DaemonDecidesOnce == BotSpec => []SingleDecision
BY DaemonFollowsFlow, DecidedOnce, PTL DEF FollowsApprovalFlow

(* An update is handled twice only when a crash met a torn offset file.    *)
THEOREM UpdatesHandledOnce == BotSpec => []HandledOnce
<1>1. BotInv => HandledOnce
  BY DEF BotInv, LoopInv, LoopTyped, PollInv, HandledOnce
<1> QED BY <1>1, BotInitInv, BotStepInv, PTL DEF BotSpec

(* The loop never runs ahead of its work, and each fault has cost at most  *)
(* one update its handling (telegram_poll_loop, persist_telegram_offset).  *)
THEOREM NothingLost == BotSpec => []NoneLost
<1>1. BotInit => CostInv
  <2> SUFFICES ASSUME BotInit PROVE CostInv
    OBVIOUS
  <2>1. Lost = {}
    BY DEF BotInit, Lost
  <2>2. Cardinality(Lost) = 0 /\ faults = 0
    BY <2>1, FS_EmptySet DEF BotInit
  <2> QED BY <2>2 DEF CostInv
<1>2. BotInv /\ CostInv /\ [BotNext]_allVars => CostInv'
  BY CostStep DEF BotInv, Inv
<1>3. BotInv /\ CostInv => NoneLost
  <2> SUFFICES ASSUME BotInv, CostInv PROVE NoneLost
    OBVIOUS
  <2> DEFINE Open == { u \in Updates : begun[u] > 0 /\ u \notin done }
  <2>1. ASSUME NEW u \in Updates, u < confirmed \/ u < file \/ u < offset
        PROVE  begun[u] > 0
    BY <2>1 DEF BotInv, LoopInv, LoopTyped, PollInv, Upcoming, ConfirmedBy, Updates
  <2>2. Cardinality(Open) =< faults + (IF task = NoTask THEN 0 ELSE 1)
    <3>1. CASE task = NoTask
      <4>1. Open = Lost
        BY <3>1 DEF Lost
      <4> HIDE DEF Open
      <4> QED BY <3>1, <4>1, LostIsFinite DEF CostInv, BotInv, LoopInv, LoopTyped
    <3>2. CASE task # NoTask
      <4>1. Open \subseteq Lost \cup { task.id }
        BY DEF Lost
      <4>2. /\ IsFiniteSet(Lost \cup { task.id })
            /\ Cardinality(Lost \cup { task.id }) =< Cardinality(Lost) + 1
            /\ Cardinality(Lost \cup { task.id }) \in Nat
        BY LostIsFinite, FS_AddElement, FS_CardinalityType
      <4>3. Cardinality(Open) =< Cardinality(Lost \cup { task.id }) /\ Cardinality(Open) \in Nat
        BY <4>1, <4>2, FS_Subset, FS_CardinalityType
      <4> QED BY <3>2, <4>2, <4>3, LostIsFinite DEF CostInv, BotInv, LoopInv, LoopTyped
    <3> QED BY <3>1, <3>2
  <2> QED BY <2>1, <2>2 DEF NoneLost
<1> QED BY <1>1, <1>2, <1>3, BotInitInv, BotStepInv, PTL DEF BotSpec

(* While the loop holds the lock, only the end of its decision spends a    *)
(* token.                                                                  *)
LEMMA LoopSpends ==
    ASSUME BotInv, [BotNext]_allVars, LoopHolds, NEW c \in Tokens,
           challenges[c].state = "Pending", challenges'[c].state \in Decisions
    PROVE  /\ task.pc = "deciding"
           /\ c = handler.token
<1>1. challenges' # challenges
  BY DEF Decisions
<1>2. PICK d \in Tokens : /\ \A e \in Tokens : e # d => challenges'[e] = challenges[e]
                          /\ \/ CreateRecordChallenge /\ challenges[d] = NoChallenge
                             \/ \E a \in Actors : DecideExpired(d, a)
                             \/ DecideRecordChallenge /\ d = handler.token
  <2>1. [Next]_vars
    BY StepFollowsFlow DEF BotInv, Inv
  <2>2. Next
    BY <1>1, <2>1 DEF vars
  <2>3. CASE CreateRecordChallenge
    BY <2>3 DEF CreateRecordChallenge, BotInv, Inv, TypeOK
  <2>4. CASE \E e \in Tokens, a \in Actors : DecideExpired(e, a)
    BY <2>4 DEF DecideExpired, BotInv, Inv, TypeOK
  <2>5. CASE DecideRecordChallenge
    <3>1. handler.token \in Tokens
      BY <2>5, LocalsByStep DEF DecideRecordChallenge, DecideLocals, BotInv, Inv
    <3> QED BY <2>5, <3>1 DEF DecideRecordChallenge, BotInv, Inv, TypeOK
  <2> QED
    BY <1>1, <2>2, <2>3, <2>4, <2>5 DEF Next, Submit, Create, OpenGate, JoinGate, Decide,
       DecideLookup, HandlerStep, CreateRecordApproval, DecideApply, DecideRefused,
       DecideRecordApproval, Interrupt, Tick
<1>3. c = d
  BY <1>2 DEF Decisions
<1>4. ~ \E a \in Actors : DecideExpired(c, a)
  BY DEF DecideExpired, BotInv, Inv, TypeOK, ChallengeRow, NoChallenge, Decisions
<1>5. DecideRecordChallenge /\ c = handler.token
  BY <1>2, <1>3, <1>4 DEF NoChallenge
<1>6. task.pc = "deciding"
  BY <1>5 DEF LoopHolds, DecideRecordChallenge, BotInv, HolderInv
<1> QED BY <1>5, <1>6

(* A token the loop spends is spent by the person it was made for, in the  *)
(* chat it was made in, who is on every list (decide_from_telegram).       *)
THEOREM TokensAnsweredByHolder == BotSpec => AnsweredByHolder
<1> DEFINE Spent(c) == LoopHolds /\ challenges[c].state = "Pending"
                       /\ challenges'[c].state \in Decisions
           ByHolder(c) == /\ challenges[c].actor = actor
                          /\ config.users = {} \/ actor.user \in config.users
                          /\ config.chats = {} \/ actor.chat \in config.chats
<1>1. BotInv /\ [BotNext]_allVars => [\A c \in Tokens : Spent(c) => ByHolder(c)]_allVars
  <2> SUFFICES ASSUME BotInv, [BotNext]_allVars, NEW c \in Tokens, Spent(c)
               PROVE  ByHolder(c)
    OBVIOUS
  <2>1. task.pc = "deciding" /\ c = handler.token
    BY LoopSpends
  <2>2. challenges[c].actor = actor
    BY <2>1 DEF BotInv, HolderInv
  <2>3. IsAllowed(actor)
    BY <2>1 DEF BotInv, LoopInv, TaskInv, NoTask
  <2> QED BY <2>2, <2>3 DEF IsAllowed
<1> QED BY <1>1, BotInitInv, BotStepInv, PTL DEF BotSpec, AnsweredByHolder

-----------------------------------------------------------------------------
(* What the voice book knows. *)

(* Ids run ahead of what was minted, and one update mints one token.       *)
MintInv ==
    /\ minted \in [Tokens -> Nat]
    /\ task # NoTask => Upcoming = task.id + 1
    /\ \A c \in Tokens :
         /\ minted[c] > 0 => challenges[c] # NoChallenge /\ minted[c] < Upcoming
         /\ task # NoTask /\ minted[c] = task.id => task.pc = "prompt" /\ task.token = c

(* A token is minted for whoever asks for it.                              *)
PromptInv ==
    /\ task.pc = "minting" => handler.actor = actor
    /\ task.pc = "prompt" =>
         minted[task.token] = task.id /\ challenges[task.token].actor = actor

(* The book holds the last token of each person, but for one that is about *)
(* to be entered.                                                          *)
AboutToEnter(c) == task.pc = "prompt" /\ task.token = c

BookInv ==
    \A u \in Users : book[u] # None =>
        /\ minted[book[u]] > 0
        /\ \A c \in Tokens :
             minted[c] > 0 /\ challenges[c].actor.user = u /\ ~ AboutToEnter(c) =>
                 minted[c] =< minted[book[u]]

(* A spoken decision is on the token in the book.                          *)
SpokenInv ==
    SpokenDecision =>
        /\ book[actor.user] = task.token /\ task.token # None
        /\ "risky" \in message.words => task.token \in message.spoken

VoiceInv == MintInv /\ PromptInv /\ BookInv /\ SpokenInv

LEMMA ChallengesStay ==
    ASSUME TypeOK, [Next]_vars, NEW c \in Tokens, challenges[c] # NoChallenge
    PROVE  challenges'[c] # NoChallenge /\ challenges'[c].actor = challenges[c].actor
<1>1. challenges \in [Tokens -> { NoChallenge } \cup ChallengeRow]
  BY DEF TypeOK
<1>2. challenges[c] \in ChallengeRow
  BY <1>1
<1>3. CASE CreateRecordChallenge
  BY <1>1, <1>3 DEF CreateRecordChallenge
<1>4. CASE \E d \in Tokens, a \in Actors : DecideExpired(d, a)
  BY <1>1, <1>2, <1>4 DEF DecideExpired, ChallengeRow, NoChallenge
<1>5. CASE DecideRecordChallenge
  <2>1. handler.token \in Tokens /\ handler.decision \in Decisions
    BY <1>5, LocalsByStep DEF DecideRecordChallenge, DecideLocals
  <2> QED BY <1>1, <1>2, <1>5, <2>1 DEF DecideRecordChallenge, ChallengeRow, NoChallenge, Decisions
<1>6. CASE UNCHANGED challenges
  BY <1>6
<1> QED
  BY <1>3, <1>4, <1>5, <1>6 DEF Next, vars, Submit, Create, OpenGate, JoinGate, Decide,
     DecideLookup, HandlerStep, CreateRecordApproval, DecideApply, DecideRefused,
     DecideRecordApproval, Interrupt, Tick

(* Nothing but the tables moves. *)
LEMMA VoiceAside ==
    ASSUME BotInv, VoiceInv, [Next]_vars, UNCHANGED botVars,
           task.pc = "minting" => handler'.actor = handler.actor
    PROVE  VoiceInv'
<1>1. \A c \in Tokens : challenges[c] # NoChallenge =>
        challenges'[c] # NoChallenge /\ challenges'[c].actor = challenges[c].actor
  BY ChallengesStay DEF BotInv, Inv
<1>2. UNCHANGED << inbox, confirmed, offset, task, book, minted >>
  BY DEF botVars
<1>3. Upcoming' = Upcoming /\ actor' = actor /\ message' = message
  BY <1>2 DEF Upcoming, ConfirmedBy, actor, message
<1>4. MintInv'
  BY <1>1, <1>2, <1>3 DEF VoiceInv, MintInv
<1>5. PromptInv'
  <2>1. task.pc = "prompt" => task.token \in Tokens /\ task # NoTask /\ task.id \in Updates
    BY TaskByStep DEF BotInv, LoopInv, NoTask
  <2>2. task.pc = "prompt" => challenges[task.token] # NoChallenge
    BY <2>1 DEF VoiceInv, MintInv, PromptInv, Updates
  <2> QED BY <1>1, <1>2, <1>3, <2>1, <2>2 DEF VoiceInv, PromptInv
<1>6. BookInv'
  BY <1>1, <1>2 DEF VoiceInv, MintInv, BookInv, AboutToEnter
<1>7. SpokenInv'
  BY <1>2, <1>3 DEF VoiceInv, SpokenInv, SpokenDecision
<1> QED BY <1>4, <1>5, <1>6, <1>7 DEF VoiceInv

(* Nobody is waited for: a handler has returned, or none is at work.       *)
LEMMA VoiceRests ==
    ASSUME BotInv, VoiceInv, [Next]_vars, task' = NoTask, task.pc # "prompt",
           minted' = minted, Upcoming' = Upcoming,
           book' = book \/ \E u \in Users : book' = [book EXCEPT ![u] = None]
    PROVE  VoiceInv'
<1>1. \A c \in Tokens : challenges[c] # NoChallenge =>
        challenges'[c] # NoChallenge /\ challenges'[c].actor = challenges[c].actor
  BY ChallengesStay DEF BotInv, Inv
<1>2. MintInv'
  BY <1>1 DEF VoiceInv, MintInv
<1>3. task'.pc = "none"
  BY DEF NoTask
<1>4. \A u \in Users : book'[u] = book[u] \/ book'[u] = None
  BY DEF BotInv, LoopInv, LoopTyped
<1>5. BookInv'
  BY <1>1, <1>3, <1>4 DEF VoiceInv, MintInv, BookInv, AboutToEnter
<1> QED BY <1>2, <1>3, <1>5 DEF VoiceInv, PromptInv, SpokenInv, SpokenDecision

(* A handler goes on with its update.                                      *)
LEMMA VoiceGoesOn ==
    ASSUME BotInv, VoiceInv, [Next]_vars, task # NoTask, task'.id = task.id, task' # NoTask,
           task.pc # "prompt", task'.pc # "prompt", UNCHANGED loopVars,
           UNCHANGED << book, minted >>, task'.pc = "minting" => handler'.actor = actor,
           SpokenInv'
    PROVE  VoiceInv'
<1>1. \A c \in Tokens : challenges[c] # NoChallenge =>
        challenges'[c] # NoChallenge /\ challenges'[c].actor = challenges[c].actor
  BY ChallengesStay DEF BotInv, Inv
<1>2. Upcoming' = Upcoming /\ actor' = actor
  BY DEF Upcoming, ConfirmedBy, loopVars, actor, message
<1>3. MintInv'
  BY <1>1, <1>2 DEF VoiceInv, MintInv
<1>4. PromptInv'
  BY <1>2 DEF PromptInv
<1>5. BookInv'
  BY <1>1 DEF VoiceInv, MintInv, BookInv, AboutToEnter
<1> QED BY <1>3, <1>4, <1>5 DEF VoiceInv

LEMMA WriterIsUser ==
    ASSUME BotInv, task # NoTask
    PROVE  actor.user \in Users /\ message \in Messages /\ task.id \in Updates
<1>1. message \in Messages /\ task.id \in Updates
  BY WritersAreActors, TaskByStep DEF BotInv, LoopInv
<1>2. message.from \in TelegramActors
  BY <1>1, MessagesAssumption, ActorsAssumption
<1> QED BY <1>1, <1>2 DEF actor, TelegramActors

LEMMA MintChallengeVoice == ASSUME BotInv, VoiceInv, MintChallenge PROVE VoiceInv'
<1>1. PICK c \in Tokens :
        /\ challenges'[c] # challenges[c]
        /\ minted' = [minted EXCEPT ![c] = task.id]
        /\ task' = [pc |-> "prompt", id |-> task.id, token |-> c]
  BY DEF MintChallenge
<1>2. PICK d \in Tokens :
        /\ challenges[d] = NoChallenge
        /\ challenges' = [challenges EXCEPT
                            ![d] = [state |-> "Pending", order |-> handler.order,
                                    actor |-> handler.actor,
                                    expires |-> handler.approval.expires]]
  BY DEF MintChallenge, CreateRecordChallenge
<1>3. challenges \in [Tokens -> { NoChallenge } \cup ChallengeRow] /\ minted \in [Tokens -> Nat]
  BY DEF BotInv, Inv, TypeOK, VoiceInv, MintInv
<1>4. c = d
  BY <1>1, <1>2, <1>3
<1>5. /\ task.pc = "minting" /\ UNCHANGED loopVars /\ book' = book
      /\ task # NoTask /\ task.id \in Updates
  BY WriterIsUser DEF MintChallenge, At, NoTask
<1>6. /\ challenges'[c].actor = handler.actor /\ challenges'[c] # NoChallenge
      /\ \A e \in Tokens : e # c => challenges'[e] = challenges[e] /\ minted'[e] = minted[e]
      /\ minted'[c] = task.id /\ minted[c] = 0
  <2>1. challenges'[c].actor = handler.actor /\ challenges'[c].state = "Pending"
    BY <1>2, <1>3, <1>4
  <2>2. challenges'[c] # NoChallenge
    BY <2>1 DEF NoChallenge
  <2>3. minted[c] = 0
    BY <1>2, <1>3, <1>4 DEF VoiceInv, MintInv
  <2> QED BY <1>1, <1>2, <1>3, <1>4, <2>1, <2>2, <2>3
<1>7. Upcoming' = Upcoming /\ actor' = actor /\ task'.id = task.id /\ task'.pc = "prompt"
      /\ task'.token = c /\ task' # NoTask
  BY <1>1, <1>5 DEF Upcoming, ConfirmedBy, loopVars, actor, message, NoTask
<1>8. MintInv'
  <2>1. minted' \in [Tokens -> Nat]
    BY <1>1, <1>3, <1>5 DEF Updates
  <2>2. task.id < Upcoming
    BY <1>5 DEF VoiceInv, MintInv, Updates
  <2> QED BY <1>5, <1>6, <1>7, <2>1, <2>2 DEF VoiceInv, MintInv
<1>9. PromptInv'
  BY <1>5, <1>6, <1>7 DEF VoiceInv, PromptInv
<1>10. BookInv'
  <2>1. ASSUME NEW u \in Users, book[u] # None
        PROVE  book[u] \in Tokens /\ book[u] # c
    BY <1>6, <2>1 DEF VoiceInv, BookInv, BotInv, LoopInv, LoopTyped
  <2>2. \A e \in Tokens : ~ AboutToEnter(e)
    BY <1>5 DEF AboutToEnter
  <2> QED BY <1>5, <1>6, <1>7, <2>1, <2>2 DEF VoiceInv, BookInv, AboutToEnter
<1>11. SpokenInv'
  BY <1>7 DEF SpokenInv, SpokenDecision
<1> QED BY <1>8, <1>9, <1>10, <1>11 DEF VoiceInv

LEMMA PromptVoice ==
    ASSUME BotInv, VoiceInv, NEW sent \in BOOLEAN, Prompt(sent)
    PROVE  VoiceInv'
<1>1. /\ task.pc = "prompt" /\ book' = [book EXCEPT ![actor.user] = task.token]
      /\ task' = NoTask /\ minted' = minted /\ UNCHANGED loopVars /\ UNCHANGED vars
  BY DEF Prompt, PromptRemembering, At, EndTask
<1>2. /\ task # NoTask /\ actor.user \in Users /\ task.token \in Tokens /\ task.id \in Updates
      /\ book \in [Users -> Tokens \cup { None }]
  BY <1>1, WriterIsUser, TaskByStep DEF NoTask, BotInv, LoopInv, LoopTyped
<1>3. Upcoming' = Upcoming /\ challenges' = challenges /\ task'.pc = "none"
  BY <1>1 DEF Upcoming, ConfirmedBy, loopVars, vars, NoTask
<1>4. MintInv'
  BY <1>1, <1>3 DEF VoiceInv, MintInv
<1>5. /\ minted[task.token] = task.id /\ task.id > 0
      /\ challenges[task.token].actor = actor
      /\ Upcoming = task.id + 1
  BY <1>1, <1>2 DEF VoiceInv, PromptInv, MintInv, Updates
<1>6. BookInv'
  <2>1. \A c \in Tokens : minted[c] > 0 => minted[c] =< task.id
    BY <1>2, <1>5 DEF VoiceInv, MintInv, Updates
  <2>2. ASSUME NEW u \in Users, u # actor.user, book[u] # None, NEW c \in Tokens,
               minted[c] > 0, challenges[c].actor.user = u
        PROVE  minted[c] =< minted[book[u]]
    BY <1>5, <2>2 DEF VoiceInv, BookInv, AboutToEnter
  <2>3. \A u \in Users : book[u] # None => minted[book[u]] > 0
    BY DEF VoiceInv, BookInv
  <2>4. \A u \in Users : book'[u] = IF u = actor.user THEN task.token ELSE book[u]
    BY <1>1, <1>2
  <2> QED BY <1>1, <1>3, <1>5, <2>1, <2>2, <2>3, <2>4 DEF BookInv
<1> QED BY <1>3, <1>4, <1>6 DEF VoiceInv, PromptInv, SpokenInv, SpokenDecision

LEMMA HandlersVoice ==
    ASSUME BotInv, VoiceInv, [Next]_vars,
           \/ HandleSubmit \/ HandleTyped \/ HandleVoice \/ RequestChallenge \/ DecideToken
    PROVE  VoiceInv'
<1>1. /\ task.pc \in { "handle", "gate", "decide" } /\ UNCHANGED loopVars
      /\ UNCHANGED << book, minted >>
  BY DEF HandleSubmit, HandleTyped, HandleVoice, RequestChallenge, DecideToken, DecideTokenAs,
     Handling, At
<1>2. task # NoTask
  BY <1>1 DEF NoTask
<1>3. CASE HandleSubmit
  <2>1. task'.id = task.id /\ task'.pc = "gate" /\ task' # NoTask
    BY <1>3 DEF HandleSubmit, NoTask
  <2>2. SpokenInv'
    BY <2>1 DEF SpokenInv, SpokenDecision
  <2> QED BY <1>1, <1>2, <2>1, <2>2, VoiceGoesOn
<1>4. CASE HandleTyped
  <2>1. /\ task'.id = task.id /\ task'.pc = "decide" /\ task' # NoTask
        /\ message.kind = "typed" /\ message' = message
    BY <1>1, <1>4 DEF HandleTyped, Handling, NoTask, message, loopVars
  <2>2. SpokenInv'
    BY <2>1 DEF SpokenInv, SpokenDecision
  <2> QED BY <1>1, <1>2, <2>1, <2>2, VoiceGoesOn
<1>5. CASE HandleVoice
  <2>1. /\ task'.id = task.id /\ task'.pc = "decide" /\ task' # NoTask
        /\ task'.token = book[actor.user] /\ message' = message /\ actor' = actor
        /\ VoiceAnswer(book[actor.user]) \in Decisions /\ book[actor.user] # None
    BY <1>1, <1>5 DEF HandleVoice, NoTask, message, actor, loopVars
  <2>2. "risky" \in message.words => book[actor.user] \in message.spoken
    BY <2>1 DEF VoiceAnswer, HighRisk, Decisions
  <2>3. SpokenInv'
    BY <1>1, <2>1, <2>2 DEF SpokenInv, SpokenDecision
  <2> QED BY <1>1, <1>2, <2>1, <2>3, VoiceGoesOn
<1>6. CASE RequestChallenge
  <2>1. /\ task.pc = "gate" /\ task' = [task EXCEPT !.pc = "minting"]
        /\ handler'.actor = actor
    BY <1>6 DEF RequestChallenge, At, OpenGate, JoinGate
  <2>2. task \in [pc : { "gate", "minting" }, id : Updates, order : Orders, asked : 0 .. MaxTime]
    BY <2>1 DEF BotInv, LoopInv, LoopTyped, TaskTypes, NoTask
  <2>3. task'.id = task.id /\ task'.pc = "minting" /\ task' # NoTask
    BY <2>1, <2>2 DEF NoTask
  <2>4. SpokenInv'
    BY <2>3 DEF SpokenInv, SpokenDecision
  <2> QED BY <1>1, <1>2, <2>1, <2>3, <2>4, VoiceGoesOn
<1>7. CASE DecideToken
  <2>1. task.pc = "decide" /\ task' = [task EXCEPT !.pc = "deciding"]
    BY <1>7 DEF DecideToken, DecideTokenAs, At
  <2>2. task \in [pc : { "decide", "deciding" }, id : Updates, token : Tokens, decision : Decisions]
    BY <2>1 DEF BotInv, LoopInv, LoopTyped, TaskTypes, NoTask
  <2>3. task'.id = task.id /\ task'.pc = "deciding" /\ task' # NoTask /\ task'.token = task.token
    BY <2>1, <2>2 DEF NoTask
  <2>4. message' = message /\ actor' = actor
    BY <1>1, <2>3 DEF message, actor, loopVars
  <2>5. SpokenInv'
    BY <1>1, <2>1, <2>3, <2>4 DEF VoiceInv, SpokenInv, SpokenDecision
  <2> QED BY <1>1, <1>2, <2>3, <2>5, VoiceGoesOn
<1> QED BY <1>3, <1>4, <1>5, <1>6, <1>7

LEMMA PersistVoice == ASSUME BotInv, VoiceInv, Persist PROVE VoiceInv'
<1>1. /\ task = NoTask /\ batch # << >> /\ offset' = Head(batch) + 1
      /\ task' = [pc |-> "handle", id |-> Head(batch)]
      /\ UNCHANGED vars /\ UNCHANGED << confirmed, book, minted >>
  BY DEF Persist, PersistAs
<1>2. /\ Upcoming \in Nat /\ confirmed \in Nat /\ confirmed =< Upcoming /\ Head(batch) = Upcoming
  <2>1. Len(batch) >= 1 /\ Head(batch) = batch[1] /\ 1 \in DOMAIN batch
    BY <1>1 DEF BotInv, LoopInv, LoopTyped
  <2>2. confirmed \in Nat /\ Upcoming \in Nat /\ confirmed =< Upcoming
    BY DEF BotInv, LoopInv, LoopTyped, Upcoming, ConfirmedBy
  <2>3. batch[1] = Upcoming + 1 - 1
    BY <2>1 DEF BotInv, LoopInv, PollInv
  <2> QED BY <2>1, <2>2, <2>3
<1>3. Upcoming' = Upcoming + 1
  BY <1>1, <1>2 DEF Upcoming, ConfirmedBy
<1>4. challenges' = challenges /\ task'.id = Upcoming /\ task'.pc = "handle" /\ task.pc = "none"
  BY <1>1, <1>2 DEF vars, NoTask
<1>5. MintInv'
  <2>1. \A c \in Tokens : minted[c] \in Nat /\ minted[c] # Upcoming
    BY <1>2 DEF VoiceInv, MintInv, BotInv, LoopInv, PollInv
  <2> QED BY <1>1, <1>2, <1>3, <1>4, <2>1 DEF VoiceInv, MintInv
<1>6. BookInv'
  BY <1>1, <1>4 DEF VoiceInv, BookInv, AboutToEnter
<1> QED BY <1>4, <1>5, <1>6 DEF VoiceInv, PromptInv, SpokenInv, SpokenDecision

LEMMA VoiceStepInv == BotInv /\ VoiceInv /\ [BotNext]_allVars => VoiceInv'
<1> SUFFICES ASSUME BotInv, VoiceInv, [BotNext]_allVars PROVE VoiceInv'
  OBVIOUS
<1>1. [Next]_vars
  BY StepFollowsFlow DEF BotInv, Inv
<1>2. CASE HttpRequest \/ HttpStep \/ Clock \/ MintApproval \/ Deciding \/ UNCHANGED allVars
  <2>1. UNCHANGED botVars
    BY <1>2 DEF HttpRequest, HttpStep, Clock, MintApproval, Deciding, allVars, botVars
  <2>2. task.pc = "minting" => handler'.actor = handler.actor
    <3>1. CASE MintApproval
      <4>1. handler.pc = "create_approval" /\ handler' = [handler EXCEPT !.pc = "create_challenge"]
        BY <3>1 DEF MintApproval, CreateRecordApproval
      <4>2. handler \in CreateLocals
        BY <4>1, LocalsByStep DEF BotInv, Inv
      <4> QED BY <4>1, <4>2 DEF CreateLocals
    <3>2. CASE HttpRequest
      <4>1. handler = Idle
        BY <3>2 DEF HttpRequest, OpenGate, JoinGate, DecideExpired, DecideLookup
      <4> QED BY <4>1 DEF BotInv, HolderInv, Idle
    <3> QED BY <1>2, <3>1, <3>2 DEF HttpStep, LoopHolds, Clock, Tick, Deciding, At, allVars
  <2> QED BY <1>1, <2>1, <2>2, VoiceAside
<1>3. CASE HandleOther \/ HandleSubmitRejected \/ HandleVoiceUndecided \/ RequestChallengeRefused
  <2>1. /\ task.pc \in { "handle", "gate" } /\ task' = NoTask
        /\ UNCHANGED loopVars /\ UNCHANGED << book, minted >>
    BY <1>3 DEF HandleOther, HandleSubmitRejected, HandleVoiceUndecided, RequestChallengeRefused,
       EndTask, At, Handling
  <2>2. Upcoming' = Upcoming
    BY <2>1 DEF Upcoming, ConfirmedBy, loopVars
  <2> QED BY <1>1, <2>1, <2>2, VoiceRests
<1>4. CASE DecideTokenUnanswered \/ Decided \/ StoreFails
  <2>1. /\ task.pc \in { "gate", "minting", "decide", "deciding" } /\ EndDecision
        /\ UNCHANGED loopVars /\ minted' = minted
    BY <1>4 DEF DecideTokenUnanswered, Decided, StoreFails, At, LoopHolds
  <2>2. Upcoming' = Upcoming
    BY <2>1 DEF Upcoming, ConfirmedBy, loopVars
  <2>3. actor.user \in Users
    BY <2>1, WriterIsUser DEF NoTask
  <2>4. task' = NoTask /\ (book' = book \/ \E u \in Users : book' = [book EXCEPT ![u] = None])
    BY <2>1, <2>3 DEF EndDecision, EndTask
  <2> QED BY <1>1, <2>1, <2>2, <2>4, VoiceRests
<1>5. CASE \/ \E m \in Messages : Write(m)
           \/ \E answered \in BOOLEAN : Fetch(answered)
           \/ PersistFails
  <2>1. /\ task = NoTask /\ task' = NoTask /\ UNCHANGED << book, minted, offset >>
        /\ confirmed' = confirmed \/ confirmed' = ConfirmedBy(offset)
    BY <1>5 DEF Write, Fetch, PersistFails, PersistFailsThen, Quiet
  <2>2. Upcoming' = Upcoming /\ task.pc # "prompt"
    BY <2>1 DEF Upcoming, ConfirmedBy, NoTask, BotInv, LoopInv, LoopTyped
  <2> QED BY <1>1, <2>1, <2>2, VoiceRests
<1>6. CASE Crash
  <2>1. /\ task' = NoTask /\ minted' = [c \in Tokens |-> 0]
        /\ book' = [u \in Users |-> None]
    BY <1>6 DEF Crash
  <2> QED BY <2>1 DEF VoiceInv, MintInv, PromptInv, BookInv, SpokenInv, SpokenDecision, NoTask
<1> QED
  BY <1>1, <1>2, <1>3, <1>4, <1>5, <1>6, PersistVoice, MintChallengeVoice, PromptVoice,
     HandlersVoice DEF BotNext, LoopStep

(* A spoken answer decides the last request of the one who speaks, in this *)
(* life of the daemon, and a risky one only with that token spoken.        *)
THEOREM VoicesAnswerLastPrompt == BotSpec => []VoiceAnswersLastPrompt
<1>1. BotInit => VoiceInv
  BY DEF BotInit, VoiceInv, MintInv, PromptInv, BookInv, SpokenInv, SpokenDecision, NoTask
<1>2. BotInv /\ VoiceInv => VoiceAnswersLastPrompt
  <2> SUFFICES ASSUME BotInv, VoiceInv, SpokenDecision PROVE VoiceAnswersLastPrompt
    BY DEF VoiceAnswersLastPrompt
  <2>1. task # NoTask /\ task.pc # "prompt"
    BY DEF SpokenDecision, NoTask
  <2>2. /\ actor.user \in Users /\ task.id \in Updates /\ task.token \in Tokens
        /\ book[actor.user] = task.token /\ book[actor.user] # None
        /\ "risky" \in message.words => task.token \in message.spoken
    BY <2>1, WriterIsUser, TaskByStep DEF SpokenDecision, VoiceInv, SpokenInv, BotInv, LoopInv
  <2>3. minted[task.token] \in Nat /\ minted[task.token] > 0 /\ minted[task.token] # task.id
        /\ minted[task.token] < task.id + 1
    BY <2>1, <2>2 DEF VoiceInv, BookInv, MintInv
  <2>4. minted[task.token] \in 1 .. task.id - 1
    BY <2>2, <2>3 DEF Updates
  <2>5. \A c \in Tokens :
          minted[c] \in 1 .. task.id - 1 /\ challenges[c].actor.user = actor.user =>
              minted[c] =< minted[task.token]
    BY <2>1, <2>2 DEF VoiceInv, BookInv, AboutToEnter
  <2> QED BY <2>2, <2>4, <2>5 DEF VoiceAnswersLastPrompt
<1> QED BY <1>1, <1>2, BotInitInv, BotStepInv, VoiceStepInv, PTL DEF BotSpec

-----------------------------------------------------------------------------
(* Types and bounds. *)

(* An update is begun once for each fault and once more when the loop has  *)
(* passed it.                                                              *)
CountInv ==
    /\ faults =< MaxFaults
    /\ \A u \in Updates : begun[u] =< faults + (IF u < Upcoming THEN 1 ELSE 0)

HistoryTyped ==
    /\ config = None \/ config \in [users : SUBSET Users, chats : SUBSET Chats]
    /\ shown \subseteq Tokens
    /\ minted \in [Tokens -> 0 .. MaxUpdates]
    /\ done \subseteq Updates

(* Every list of ids in the env file is one of users, or of chats.         *)
LEMMA EnvTyped ==
    ASSUME NEW lines \in EnvFiles
    PROVE  \/ ParseEnv(lines) = None
           \/ ParseEnv(lines) \in [users : SUBSET Users, chats : SUBSET Chats]
<1>1. \A i \in DOMAIN lines : lines[i] \in EnvLines
  BY EnvFilesAssumption
<1>2. IdList(lines, "users") \subseteq Users /\ IdList(lines, "chats") \subseteq Chats
  BY <1>1 DEF IdList, EnvLines
<1> QED BY <1>2 DEF ParseEnv

LEMMA HistoryInit == BotInit => HistoryTyped /\ CountInv
<1> SUFFICES ASSUME BotInit PROVE HistoryTyped /\ CountInv
  OBVIOUS
<1>1. config = None \/ config \in [users : SUBSET Users, chats : SUBSET Chats]
  BY EnvTyped DEF BotInit
<1>2. minted \in [Tokens -> 0 .. MaxUpdates]
  BY BoundsAssumption DEF BotInit
<1>3. CountInv
  BY BoundsAssumption DEF BotInit, CountInv
<1> QED BY <1>1, <1>2, <1>3 DEF BotInit, HistoryTyped

LEMMA HistoryStep ==
    ASSUME LoopInv, HistoryTyped, [BotNext]_allVars
    PROVE  HistoryTyped'
<1>1. LoopTyped
  BY DEF LoopInv
<1>2. config' = config
  BY DEF BotNext, LoopStep, Write, Fetch, Persist, PersistAs, PersistFails, PersistFailsThen,
     HandleOther, HandleSubmit, HandleSubmitRejected, HandleTyped, HandleVoice,
     HandleVoiceUndecided, RequestChallenge, RequestChallengeRefused, MintApproval,
     MintChallenge, Prompt, PromptRemembering, DecideToken, DecideTokenAs,
     DecideTokenUnanswered, Deciding, Decided, StoreFails, Crash, HttpRequest, HttpStep,
     Clock, loopVars, botVars, allVars
<1>3. done' \subseteq Updates
  <2>1. CASE done' = done
    BY <2>1 DEF HistoryTyped
  <2>2. CASE EndTask /\ task # NoTask
    BY <1>1, <2>2, TaskByStep DEF EndTask, HistoryTyped
  <2>3. done' = done \/ (EndTask /\ task # NoTask)
    BY DEF BotNext, LoopStep, Write, Fetch, Persist, PersistAs, PersistFails,
       PersistFailsThen, HandleOther, HandleSubmit, HandleSubmitRejected, HandleTyped,
       HandleVoice, HandleVoiceUndecided, RequestChallenge, RequestChallengeRefused,
       MintApproval, MintChallenge, Prompt, PromptRemembering, DecideToken, DecideTokenAs,
       DecideTokenUnanswered, Deciding, Decided, StoreFails, Crash, HttpRequest, HttpStep,
       Clock, EndDecision, Handling, At, LoopHolds, NoTask, botVars, allVars
  <2> QED BY <2>1, <2>2, <2>3
<1>4. shown' \subseteq Tokens
  <2>1. shown' = shown \/ (task.pc = "prompt" /\ shown' = shown \cup { task.token })
    BY DEF BotNext, LoopStep, Write, Fetch, Persist, PersistAs, PersistFails,
       PersistFailsThen, HandleOther, HandleSubmit, HandleSubmitRejected, HandleTyped,
       HandleVoice, HandleVoiceUndecided, RequestChallenge, RequestChallengeRefused,
       MintApproval, MintChallenge, Prompt, PromptRemembering, DecideToken, DecideTokenAs,
       DecideTokenUnanswered, Deciding, Decided, StoreFails, Crash, HttpRequest, HttpStep,
       Clock, At, botVars, allVars
  <2> QED BY <1>1, <2>1, TaskByStep DEF HistoryTyped
<1>5. minted' \in [Tokens -> 0 .. MaxUpdates]
  <2>1. CASE MintChallenge
    <3>1. task.id \in Updates
      BY <1>1, <2>1, TaskByStep DEF MintChallenge, At, NoTask
    <3>2. PICK c \in Tokens : minted' = [minted EXCEPT ![c] = task.id]
      BY <2>1 DEF MintChallenge
    <3>3. task.id \in 0 .. MaxUpdates
      BY <3>1 DEF Updates
    <3> QED BY <3>2, <3>3 DEF HistoryTyped
  <2>2. CASE Crash
    BY <2>2, BoundsAssumption DEF Crash
  <2>3. minted' = minted \/ MintChallenge \/ Crash
    BY DEF BotNext, LoopStep, Write, Fetch, Persist, PersistAs, PersistFails,
       PersistFailsThen, HandleOther, HandleSubmit, HandleSubmitRejected, HandleTyped,
       HandleVoice, HandleVoiceUndecided, RequestChallenge, RequestChallengeRefused,
       MintApproval, Prompt, PromptRemembering, DecideToken, DecideTokenAs,
       DecideTokenUnanswered, Deciding, Decided, StoreFails, HttpRequest, HttpStep, Clock,
       botVars, allVars
  <2> QED BY <2>1, <2>2, <2>3 DEF HistoryTyped
<1> QED BY <1>2, <1>3, <1>4, <1>5 DEF HistoryTyped

(* Only a crash takes the loop back, and it is a fault.                    *)
LEMMA CountStep ==
    ASSUME LoopInv, CountInv, [BotNext]_allVars
    PROVE  CountInv'
<1>1. /\ confirmed \in Nat /\ offset \in Nat /\ faults \in Nat /\ MaxFaults \in Nat
      /\ begun \in [Updates -> Nat]
      /\ file \in { offset, 0 }
  BY BoundsAssumption DEF LoopInv, LoopTyped, PollInv
<1>2. CASE begun' = begun /\ Upcoming' = Upcoming /\ faults' = faults
  BY <1>2 DEF CountInv
<1>3. CASE begun' = begun /\ faults < MaxFaults /\ faults' = faults + 1
  BY <1>1, <1>3 DEF CountInv
<1>4. CASE Persist
  <2> DEFINE u == Head(batch)
  <2>1. /\ offset' = u + 1 /\ confirmed' = confirmed /\ faults' = faults
        /\ begun' = [begun EXCEPT ![u] = @ + 1]
        /\ batch # << >>
    BY <1>4 DEF Persist, PersistAs
  <2>2. u = Upcoming
    <3>1. Len(batch) >= 1 /\ u = batch[1] /\ 1 \in DOMAIN batch /\ Upcoming \in Nat
      BY <1>1, <2>1 DEF LoopInv, LoopTyped, Upcoming, ConfirmedBy
    <3> HIDE DEF u
    <3> QED BY <3>1 DEF LoopInv, PollInv
  <2>3. /\ Upcoming \in Nat /\ Upcoming' = Upcoming + 1
    BY <1>1, <2>1, <2>2 DEF Upcoming, ConfirmedBy
  <2> HIDE DEF u
  <2>4. ASSUME NEW v \in Updates
        PROVE  begun'[v] =< faults' + (IF v < Upcoming' THEN 1 ELSE 0)
    <3>1. begun[v] =< faults + (IF v < Upcoming THEN 1 ELSE 0) /\ v \in Nat
      BY DEF CountInv, Updates
    <3>2. CASE v = u
      BY <1>1, <2>1, <2>2, <2>3, <3>1, <3>2
    <3>3. CASE v # u
      BY <1>1, <2>1, <2>2, <2>3, <3>1, <3>3
    <3> QED BY <3>2, <3>3
  <2> QED BY <2>1, <2>4 DEF CountInv
<1>5. CASE \E answered \in BOOLEAN : Fetch(answered)
  <2>1. /\ confirmed' = Upcoming /\ offset' = offset /\ begun' = begun /\ faults' = faults
    BY <1>5 DEF Fetch, Upcoming
  <2>2. Upcoming' = Upcoming
    BY <1>1, <2>1 DEF Upcoming, ConfirmedBy
  <2> QED BY <1>2, <2>1, <2>2
<1>6. CASE PersistFails \/ StoreFails \/ Crash
  BY <1>3, <1>6 DEF PersistFails, PersistFailsThen, StoreFails, Crash
<1>7. CASE UNCHANGED << confirmed, offset, begun, faults >>
  BY <1>2, <1>7 DEF Upcoming, ConfirmedBy
<1>8. \/ Persist \/ (\E answered \in BOOLEAN : Fetch(answered))
      \/ PersistFails \/ StoreFails \/ Crash
      \/ UNCHANGED << confirmed, offset, begun, faults >>
  BY DEF BotNext, LoopStep, Write, HandleOther, HandleSubmit, HandleSubmitRejected,
     HandleTyped, HandleVoice, HandleVoiceUndecided, RequestChallenge,
     RequestChallengeRefused, MintApproval, MintChallenge, Prompt, PromptRemembering,
     DecideToken, DecideTokenAs, DecideTokenUnanswered, Deciding, Decided, HttpRequest,
     HttpStep, Clock, loopVars, botVars, allVars
<1> QED BY <1>4, <1>5, <1>6, <1>7, <1>8

LEMMA BotTypesByInv == BotInv /\ CountInv /\ HistoryTyped => AllTypeOK
<1> SUFFICES ASSUME BotInv, CountInv, HistoryTyped PROVE TypeOK /\ BotTypeOK
  BY DEF AllTypeOK
<1>1. TypeOK /\ LoopTyped /\ PollInv
  BY DEF BotInv, Inv, LoopInv
<1>2. /\ Upcoming \in Nat /\ confirmed =< Upcoming /\ offset =< Upcoming
      /\ Len(inbox) \in Nat /\ Upcoming =< MaxUpdates + 1
  BY <1>1, BoundsAssumption DEF LoopTyped, PollInv, Upcoming, ConfirmedBy
<1>3. { confirmed, file, offset } \subseteq 0 .. MaxUpdates + 1
  BY <1>1, <1>2, BoundsAssumption DEF LoopTyped, PollInv
<1>4. batch \in Seq(Updates)
  <2>1. PICK n \in Nat : n = Len(batch) /\ DOMAIN batch = 1 .. n /\ batch \in [1 .. n -> Nat]
    BY <1>1 DEF LoopTyped
  <2>2. ASSUME NEW i \in 1 .. n
        PROVE  batch[i] \in Updates
    <3>1. batch[i] = Upcoming + i - 1 /\ Upcoming + n =< Len(inbox) + 1 /\ 1 =< Upcoming
      BY <1>1, <1>2, <2>1 DEF PollInv, LoopTyped
    <3>2. Len(inbox) =< MaxUpdates
      BY <1>1 DEF LoopTyped
    <3> QED BY <1>2, <3>1, <3>2, BoundsAssumption DEF Updates
  <2>3. batch \in [1 .. n -> Updates]
    BY <2>1, <2>2
  <2> QED BY <2>3, SeqDef
<1>5. begun \in [Updates -> 0 .. MaxFaults + 1] /\ faults \in 0 .. MaxFaults
  <2>1. faults \in Nat /\ faults =< MaxFaults /\ begun \in [Updates -> Nat]
    BY <1>1 DEF LoopTyped, CountInv
  <2>2. ASSUME NEW u \in Updates
        PROVE  begun[u] \in 0 .. MaxFaults + 1
    BY <2>1, BoundsAssumption DEF CountInv
  <2> QED BY <2>1, <2>2, BoundsAssumption
<1> QED BY <1>1, <1>3, <1>4, <1>5 DEF BotTypeOK, LoopTyped, HistoryTyped

(* Every variable of the daemon keeps its type: a batch is of updates that *)
(* exist, no offset runs past the inbox, and an update is begun at most    *)
(* once more than there are faults.                                        *)
THEOREM DaemonTypesHold == BotSpec => []AllTypeOK
<1>1. BotInv => LoopInv
  BY DEF BotInv
<1> QED BY <1>1, BotInitInv, BotStepInv, HistoryInit, HistoryStep, CountStep, BotTypesByInv,
       PTL DEF BotSpec
=============================================================================
