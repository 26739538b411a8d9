---------------------------- MODULE AdaptersProofs ----------------------------
(***************************************************************************)
(* Theorems about a call of any adapter, for every set of orders and every *)
(* value of the timeouts, delays and bounds on polls and retries.          *)
(*                                                                         *)
(* CallInv ties where the call is to the kind of its order, to what has    *)
(* been started, and to the manifest; TimeInv bounds the time that can     *)
(* have passed when the call is there, so that the bounds of all its polls *)
(* and waits add up to its budget.  The types of the locals come last, by  *)
(* the shape of the call at each place.                                    *)
(***************************************************************************)
EXTENDS Adapters, FiniteSetTheorems, SequenceTheorems, TLAPS

(* Where a call of each kind may be.                                       *)
Belongs ==
    /\ call.pc \in { "worker", "answer", "detached" } => order.kind = "worker"
    /\ call.pc = "chat" => order.kind = "reason"
    /\ call.pc \in { "write", "submit", "status", "pause", "hung" } => order.kind = "zyal"
    /\ call.pc \in { "spawn", "process" } => order.kind = "jankurai"
    /\ call.pc \in { "health", "run-id", "ci" } => order.kind = "jeryu"
    /\ call.pc \in { "prepare", "start", "accepted", "wait" } => order.kind \in { "run", "deploy" }
    /\ call.pc \in { "packet", "review", "child" } => order.kind = "packet"

(* Nothing has been started before a call has come to its request or child.*)
Unstarted ==
    { "idle", "worker", "chat", "write", "submit", "spawn", "health", "run-id", "ci",
      "prepare", "start", "packet", "review" }

StartInv ==
    /\ starts \in Nat
    /\ StartedAtMostOnce
    /\ call.pc \in Unstarted => starts = 0

(* The manifest is there while jekko works on it, and at no other time.    *)
FileInv ==
    /\ call.pc \notin { "submit", "status", "pause", "hung", "ended" } => manifest = "absent"
    /\ ManifestRemoved

(* A run is started with the accounts all aliases agree on.                *)
AccountInv ==
    /\ call.pc = "start" => RequestOf(order) # Garbled
    /\ AccountsAgree

JobTyped == DOMAIN job = { "status", "receipts", "clean", "accounts" }

CallTyped == "pc" \in DOMAIN call

CallInv ==
    CallTyped /\ JobTyped /\ Belongs /\ StartInv /\ FileInv /\ AccountInv /\ EvidenceMeansDone

-----------------------------------------------------------------------------
(* What the steps of the adapters have in common.                          *)

OnFile == { "submit", "status", "pause", "hung" }

(* The call ends in an error.                                              *)
LEMMA CallFails ==
    ASSUME CallInv, call' = Failed, UNCHANGED << order, job >>,
           starts' \in Nat, StartedAtMostOnce', ManifestRemoved'
    PROVE  CallInv'
<1>1. /\ "pc" \in DOMAIN call' /\ call'.pc = "ended" /\ call'.evidence = {}
  BY DEF Failed, Ended
<1>2. AccountsAgree'
  BY DEF CallInv, AccountInv, AccountsAgree
<1> QED BY <1>1, <1>2 DEF CallInv, CallTyped, JobTyped, Belongs, StartInv, Unstarted, FileInv,
             AccountInv, EvidenceMeansDone, Proven, HasEnded

(* The call of another adapter than zyal has no manifest to remove.        *)
LEMMA NoManifest ==
    ASSUME CallInv, ~ HasEnded, order.kind # "zyal" \/ call.pc = "write",
           manifest' = manifest
    PROVE  manifest = "absent" /\ ManifestRemoved'
BY DEF CallInv, Belongs, FileInv, HasEnded, ManifestRemoved

LEMMA CallGivesUp ==
    ASSUME CallInv, ~ HasEnded, order.kind # "zyal" \/ call.pc = "write",
           call' = Failed, UNCHANGED << order, job, starts, manifest >>
    PROVE  CallInv'
BY CallFails, NoManifest DEF CallInv, StartInv, StartedAtMostOnce

(* The call ends in evidence.                                              *)
LEMMA CallProves ==
    ASSUME CallInv, ~ HasEnded, order.kind # "zyal",
           NEW kinds, call' = Ended(kinds), UNCHANGED << order, job, starts, manifest >>,
           \/ kinds = {}
           \/ order.kind \in { "reason", "jeryu" }
           \/ /\ job.status = "succeeded"
              /\ order.kind = "deploy" => job.receipts
              /\ order.kind \in { "run", "deploy", "packet" } => job.clean
    PROVE  CallInv'
<1>1. /\ "pc" \in DOMAIN call' /\ call'.pc = "ended" /\ call'.evidence = kinds
  BY DEF Ended
<1>2. AccountsAgree'
  BY DEF CallInv, AccountInv, AccountsAgree
<1>3. ManifestRemoved'
  BY NoManifest
<1> QED BY <1>1, <1>2, <1>3 DEF CallInv, CallTyped, JobTyped, Belongs, StartInv,
             StartedAtMostOnce, Unstarted, FileInv, AccountInv, EvidenceMeansDone, Proven, HasEnded

(* The call goes on, and nothing begins.                                   *)
LEMMA CallGoesOn ==
    ASSUME CallInv, "pc" \in DOMAIN call', call'.pc \notin { "start", "ended" }, Belongs',
           UNCHANGED << order, job, starts, manifest >>,
           call'.pc \in Unstarted => call.pc \in Unstarted,
           call'.pc \in OnFile \/ call.pc \notin OnFile \cup { "ended" }
    PROVE  CallInv'
<1>1. AccountsAgree'
  BY DEF CallInv, AccountInv, AccountsAgree
<1> QED BY <1>1 DEF CallInv, CallTyped, JobTyped, StartInv, StartedAtMostOnce, FileInv, OnFile,
             ManifestRemoved, AccountInv, EvidenceMeansDone, Proven, HasEnded

(* A job begins.                                                           *)
LEMMA AliasesAgree ==
    ASSUME NEW o, RequestOf(o) \notin { None, Garbled }
    PROVE  /\ ~ Duplicates(RequestOf(o))
           /\ \A list \in Aliases(o.request) : list = RequestOf(o)
<1> DEFINE r == o.request
           Agreed(list) == Aliases(r) = { list } /\ ~ Duplicates(list)
<1>1. RequestOf(o) = Canonicalize(r) /\ Canonicalize(r) \notin { None, Garbled }
  BY DEF RequestOf
<1>2. PICK list \in Aliases(r) : Agreed(list)
  BY <1>1 DEF Canonicalize
<1>3. Canonicalize(r) = CHOOSE l \in Aliases(r) : TRUE
  BY <1>1 DEF Canonicalize
<1>4. Canonicalize(r) = list
  BY <1>2, <1>3
<1> QED BY <1>1, <1>2, <1>4

LEMMA CallBegins ==
    ASSUME CallInv, call.pc \in Unstarted, order.kind # "zyal",
           DOMAIN job' = { "status", "receipts", "clean", "accounts" }, starts' = starts + 1,
           job'.accounts # None => job'.accounts = RequestOf(order) /\ call.pc = "start",
           "pc" \in DOMAIN call', call'.pc \in { "answer", "process", "accepted", "child" },
           Belongs', UNCHANGED << order, manifest >>
    PROVE  CallInv'
<1>1. starts' = 1
  BY DEF CallInv, StartInv
<1>2. manifest = "absent"
  BY NoManifest DEF HasEnded, Unstarted
<1>3. AccountsAgree'
  <2>1. CASE job'.accounts = None
    BY <2>1 DEF AccountsAgree
  <2>2. CASE job'.accounts # None
    <3>1. RequestOf(order) \notin { None, Garbled } /\ job'.accounts = RequestOf(order)
      BY <2>2 DEF CallInv, AccountInv
    <3> QED BY <3>1, AliasesAgree DEF AccountsAgree
  <2> QED BY <2>1, <2>2
<1> QED BY <1>1, <1>2, <1>3 DEF CallInv, CallTyped, JobTyped, StartInv,
             StartedAtMostOnce, Unstarted, FileInv, ManifestRemoved, AccountInv,
             EvidenceMeansDone, Proven, HasEnded

-----------------------------------------------------------------------------
(* The steps of the adapters. *)

LEMMA BeginInv == ASSUME CallInv, Begin PROVE CallInv'
<1>1. call.pc = "idle" /\ UNCHANGED << order, job, starts, manifest >>
  BY DEF Begin
<1>2. CASE call' = Failed
  <2>1. starts' \in Nat /\ StartedAtMostOnce' /\ ManifestRemoved'
    BY <1>1, <1>2 DEF CallInv, StartInv, StartedAtMostOnce, FileInv, ManifestRemoved
  <2> QED BY <1>1, <1>2, <2>1, CallFails
<1>3. CASE call' # Failed
  <2> DEFINE pc == Route(order.kind)
  <2>1. call' = [pc |-> pc] /\ pc # "none"
    BY <1>3 DEF Begin
  <2>2. "pc" \in DOMAIN call' /\ call'.pc = pc
    BY <2>1
  <2>3. /\ pc \in Unstarted /\ pc \notin { "start", "ended" } /\ call.pc \in Unstarted
        /\ pc \in { "worker" } => order.kind = "worker"
        /\ pc = "chat" => order.kind = "reason"
        /\ pc \in { "write", "submit" } => order.kind = "zyal"
        /\ pc \in { "spawn", "process" } => order.kind = "jankurai"
        /\ pc \in { "health", "run-id", "ci" } => order.kind = "jeryu"
        /\ pc \in { "prepare", "start" } => order.kind \in { "run", "deploy" }
        /\ pc \in { "packet", "review" } => order.kind = "packet"
        /\ pc # "submit"
    BY <1>1, <2>1 DEF Route, JekkoRoute, JailgunRoute, Unstarted
  <2>4. Belongs'
    BY <1>1, <2>2, <2>3 DEF Belongs, Unstarted
  <2>5. call.pc \notin OnFile \cup { "ended" }
    BY <1>1 DEF OnFile
  <2> QED BY <1>1, <2>2, <2>3, <2>4, <2>5, CallGoesOn
<1> QED BY <1>2, <1>3

LEMMA JankuraiInv ==
    ASSUME CallInv, JankuraiSpawn \/ JankuraiTimesOut \/ JankuraiExits PROVE CallInv'
<1>1. order.kind = "jankurai" /\ ~ HasEnded
  BY DEF CallInv, Belongs, JankuraiSpawn, JankuraiTimesOut, JankuraiExits, HasEnded
<1>2. CASE JankuraiSpawn
  <2>1. call.pc = "spawn" /\ UNCHANGED << order, manifest >>
    BY <1>2 DEF JankuraiSpawn
  <2>2. CASE Begins(None) /\ call' = [pc |-> "process"]
    <3>1. Belongs'
      BY <1>1, <2>1, <2>2 DEF Belongs
    <3>2. /\ DOMAIN job' = { "status", "receipts", "clean", "accounts" }
          /\ starts' = starts + 1 /\ job'.accounts = None
      BY <2>2 DEF Begins
    <3>3. call.pc \in Unstarted /\ order.kind # "zyal"
      BY <1>1, <2>1 DEF Unstarted
    <3>4. "pc" \in DOMAIN call' /\ call'.pc \in { "answer", "process", "accepted", "child" }
      BY <2>2
    <3> QED BY <2>1, <3>1, <3>2, <3>3, <3>4, CallBegins
  <2>3. CASE NothingBegins /\ call' = Failed
    BY <1>1, <2>1, <2>3, CallGivesUp DEF NothingBegins
  <2> QED BY <1>2, <2>2, <2>3 DEF JankuraiSpawn
<1>3. CASE JankuraiTimesOut
  BY <1>1, <1>3, CallGivesUp DEF JankuraiTimesOut
<1>4. CASE JankuraiExits
  <2>1. CASE call' = Failed
    BY <1>1, <1>4, <2>1, CallGivesUp DEF JankuraiExits
  <2>2. CASE job.status = "succeeded" /\ call' = Ended({ "jankurai.digest" })
    BY <1>1, <1>4, <2>2, CallProves DEF JankuraiExits
  <2> QED BY <1>4, <2>1, <2>2 DEF JankuraiExits
<1> QED BY <1>2, <1>3, <1>4

LEMMA JeryuInv == ASSUME CallInv, JeryuHealth \/ JeryuRunId \/ JeryuCi PROVE CallInv'
<1>1. /\ order.kind = "jeryu" /\ call.pc \in { "health", "run-id", "ci" } /\ ~ HasEnded
      /\ UNCHANGED << order, job, starts, manifest >>
  BY DEF CallInv, Belongs, JeryuHealth, JeryuRunId, JeryuCi, HasEnded
<1>2. CASE call' = Failed
  BY <1>1, <1>2, CallGivesUp
<1>3. CASE call' \in { [pc |-> "run-id"], [pc |-> "ci"] }
  <2>1. "pc" \in DOMAIN call' /\ call'.pc \in { "run-id", "ci" }
    BY <1>3
  <2>2. Belongs'
    BY <1>1, <2>1 DEF Belongs
  <2> QED BY <1>1, <2>1, <2>2, CallGoesOn DEF Unstarted, OnFile
<1>4. ASSUME NEW kinds, call' = Ended(kinds) PROVE CallInv'
  BY <1>1, <1>4, CallProves
<1> QED BY <1>2, <1>3, <1>4 DEF JeryuHealth, JeryuRunId, JeryuCi

LEMMA ConcludesInv ==
    ASSUME CallInv, order.kind = "worker", ~ HasEnded, NEW status \in Answered,
           Concludes(status), UNCHANGED << order, job, starts, manifest >>
    PROVE  CallInv'
<1>1. PICK kinds \in Outcome(status) : call' = Ended(kinds)
  BY DEF Concludes
<1>2. kinds = {} \/ job.status = "succeeded"
  BY NoneAssumption DEF Outcome, Answered, JobStates
<1> QED BY <1>1, <1>2, CallProves

LEMMA JekkoInv == ASSUME CallInv, JekkoStep PROVE CallInv'
<1>1. ~ HasEnded
  BY DEF JekkoStep, Chat, WorkerRequest, WorkerUnanswered, WorkerAnswer, PollDetached, HasEnded
<1>2. CASE Chat
  <2>1. order.kind = "reason" /\ UNCHANGED << order, job, starts, manifest >>
    BY <1>2 DEF Chat, CallInv, Belongs
  <2>2. ASSUME NEW kinds, call' = Ended(kinds) PROVE CallInv'
    BY <1>1, <2>1, <2>2, CallProves
  <2> QED BY <1>1, <1>2, <2>1, <2>2, CallGivesUp DEF Chat
<1>3. CASE WorkerRequest
  <2>1. /\ order.kind = "worker" /\ call.pc = "worker" /\ call' = [pc |-> "answer"]
        /\ UNCHANGED << order, manifest >>
    BY <1>3 DEF WorkerRequest, CallInv, Belongs
  <2>2. "pc" \in DOMAIN call' /\ call'.pc = "answer"
    BY <2>1
  <2>3. Belongs'
    BY <2>1, <2>2 DEF Belongs
  <2>4. CASE Begins(None)
    <3>1. /\ DOMAIN job' = { "status", "receipts", "clean", "accounts" }
          /\ starts' = starts + 1 /\ job'.accounts = None
      BY <2>4 DEF Begins
    <3> QED BY <2>1, <2>2, <2>3, <3>1, CallBegins DEF Unstarted
  <2>5. CASE NothingBegins
    BY <2>1, <2>2, <2>3, <2>5, CallGoesOn DEF Unstarted, OnFile, NothingBegins
  <2> QED BY <1>3, <2>4, <2>5 DEF WorkerRequest
<1>4. CASE WorkerUnanswered \/ WorkerAnswer \/ PollDetached
  <2>1. /\ order.kind = "worker" /\ call.pc \in { "answer", "detached" }
        /\ UNCHANGED << order, job, starts, manifest >>
    BY <1>4 DEF WorkerUnanswered, WorkerAnswer, PollDetached, CallInv, Belongs
  <2>2. CASE call' = Failed
    BY <1>1, <2>1, <2>2, CallGivesUp
  <2>3. ASSUME NEW status \in Answered, Concludes(status) PROVE CallInv'
    BY <1>1, <2>1, <2>3, ConcludesInv
  <2>4. ASSUME "pc" \in DOMAIN call', call'.pc = "detached" PROVE CallInv'
    <3>1. Belongs'
      BY <2>1, <2>4 DEF Belongs
    <3> QED BY <2>1, <2>4, <3>1, CallGoesOn DEF Unstarted, OnFile
  <2>5. ASSUME call.pc = "detached", call' = [call EXCEPT !.polls = @ + 1] PROVE CallInv'
    <3>1. "pc" \in DOMAIN call' /\ call'.pc = "detached"
      BY <2>5 DEF CallInv, CallTyped
    <3> QED BY <2>4, <3>1
  <2>6. CASE WorkerUnanswered
    BY <2>2, <2>6 DEF WorkerUnanswered
  <2>7. CASE WorkerAnswer
    BY <2>3, <2>4, <2>7 DEF WorkerAnswer
  <2>8. CASE PollDetached
    BY <2>2, <2>3, <2>5, <2>8 DEF PollDetached
  <2> QED BY <1>4, <2>6, <2>7, <2>8
<1> QED BY <1>2, <1>3, <1>4 DEF JekkoStep

LEMMA ZyalInv == ASSUME CallInv, ZyalStep PROVE CallInv'
<1>1. /\ order.kind = "zyal" /\ call.pc \in { "write", "submit", "status", "pause" }
      /\ ~ HasEnded /\ UNCHANGED << order, job >>
  BY DEF CallInv, Belongs, ZyalStep, ManifestMissing, WriteManifest, WriteManifestFails,
         ChildBusy, ChildHangs, Submit, SubmitFails, Status, StatusFails, Pause, HasEnded
<1>2. /\ starts \in Nat /\ starts =< 1
      /\ call.pc \in { "write", "submit" } => starts = 0
      /\ call.pc = "write" => manifest = "absent"
  BY DEF CallInv, StartInv, StartedAtMostOnce, Unstarted, FileInv
<1>3. CASE ManifestMissing
  BY <1>1, <1>3, CallGivesUp DEF ManifestMissing
<1>4. CASE WriteManifest
  <2>1. "pc" \in DOMAIN call' /\ call'.pc = "submit" /\ call.pc = "write"
        /\ manifest' = "whole" /\ starts' = starts
    BY <1>4 DEF WriteManifest
  <2>2. Belongs' /\ AccountsAgree'
    BY <1>1, <2>1 DEF Belongs, CallInv, AccountInv, AccountsAgree
  <2> QED BY <1>1, <1>2, <2>1, <2>2 DEF CallInv, CallTyped, JobTyped, StartInv, StartedAtMostOnce,
               FileInv, ManifestRemoved, AccountInv, EvidenceMeansDone, Proven, HasEnded
<1>5. CASE WriteManifestFails
  <2>1. starts' = 0 /\ manifest' \in { "absent", "partial" } /\ call' = Failed
    BY <1>2, <1>5 DEF WriteManifestFails
  <2> QED BY <1>1, <2>1, CallFails DEF StartedAtMostOnce, ManifestRemoved
<1>6. ASSUME "pc" \in DOMAIN call', call'.pc \in OnFile, call.pc \in OnFile,
             call'.pc = "submit" => call.pc = "submit", UNCHANGED << starts, manifest >>
      PROVE  CallInv'
  <2>1. Belongs'
    BY <1>1, <1>6 DEF Belongs, OnFile
  <2> QED BY <1>1, <1>6, <2>1, CallGoesOn DEF OnFile, Unstarted
<1>7. CASE ChildBusy \/ ChildHangs \/ Pause
  <2>1. "pc" \in DOMAIN call' /\ call'.pc \in { call.pc, "hung", "status" }
        /\ call.pc \in { "submit", "status", "pause" } /\ UNCHANGED << starts, manifest >>
    BY <1>7 DEF ChildBusy, ChildHangs, Pause, CallInv, CallTyped
  <2> QED BY <1>6, <2>1 DEF OnFile
<1>8. CASE Submit
  <2>1. "pc" \in DOMAIN call' /\ call'.pc = "status" /\ call.pc = "submit"
        /\ starts' = starts + 1 /\ manifest' = manifest
    BY <1>8 DEF Submit, RunBegins
  <2>2. Belongs' /\ AccountsAgree'
    BY <1>1, <2>1 DEF Belongs, CallInv, AccountInv, AccountsAgree
  <2> QED BY <1>1, <1>2, <2>1, <2>2 DEF CallInv, CallTyped, JobTyped, StartInv, StartedAtMostOnce,
               Unstarted, FileInv, ManifestRemoved, AccountInv, EvidenceMeansDone, Proven, HasEnded
<1>9. CASE SubmitFails \/ StatusFails
  <2>1. starts' \in Nat /\ starts' =< 1 /\ manifest' = "absent" /\ call' = Failed
    BY <1>2, <1>9 DEF SubmitFails, StatusFails, RunBegins, NoRunBegins, Removed
  <2> QED BY <1>1, <2>1, CallFails DEF StartedAtMostOnce, ManifestRemoved
<1>10. CASE Status
  <2>1. CASE call' = ZyalEnded /\ Removed
    <3>1. "pc" \in DOMAIN call' /\ call'.pc = "ended" /\ manifest' = "absent" /\ starts' = starts
      BY <1>10, <2>1 DEF ZyalEnded, Removed, Status
    <3>2. AccountsAgree'
      BY <1>1 DEF CallInv, AccountInv, AccountsAgree
    <3> QED BY <1>1, <1>2, <3>1, <3>2 DEF CallInv, CallTyped, JobTyped, Belongs, StartInv,
                 StartedAtMostOnce, Unstarted, FileInv, ManifestRemoved, AccountInv,
                 EvidenceMeansDone, HasEnded, Proven
  <2>2. CASE call' = [pc |-> "pause", since |-> call.since] /\ manifest' = manifest
    <3>1. "pc" \in DOMAIN call' /\ call'.pc = "pause" /\ call.pc = "status" /\ starts' = starts
      BY <1>10, <2>2 DEF Status
    <3> QED BY <1>6, <2>2, <3>1 DEF OnFile
  <2> QED BY <1>10, <2>1, <2>2 DEF Status
<1> QED BY <1>3, <1>4, <1>5, <1>7, <1>8, <1>9, <1>10 DEF ZyalStep

(* The summary of a run: over MCP or over REST, it is taken by one rule.   *)
LEMMA SummaryInv ==
    ASSUME CallInv, ~ HasEnded, order.kind \in { "run", "deploy" }, job.clean,
           NEW local, TakeSummary(local), UNCHANGED << order, job, starts, manifest >>
    PROVE  CallInv'
<1>1. CASE Accepts(local)
  <2>1. PICK kinds \in SummaryEvidence : call' = Ended(kinds)
    BY <1>1 DEF TakeSummary
  <2>2. job.status = "succeeded" /\ (order.kind = "deploy" => job.receipts)
    BY <1>1 DEF Accepts
  <2> QED BY <2>1, <2>2, CallProves
<1>2. CASE call' = Failed
  BY <1>2, CallGivesUp
<1> QED BY <1>1, <1>2 DEF TakeSummary

LEMMA RunInv ==
    ASSUME CallInv, Prepare \/ StartRequest \/ StartUnanswered \/ StartAnswered PROVE CallInv'
<1>1. /\ order.kind \in { "run", "deploy" } /\ call.pc \in { "prepare", "start", "accepted" }
      /\ ~ HasEnded /\ UNCHANGED << order, manifest >>
  BY DEF CallInv, Belongs, Prepare, StartRequest, StartUnanswered, StartAnswered, HasEnded
<1>2. CASE call' = Failed /\ UNCHANGED << job, starts >>
  BY <1>1, <1>2, CallGivesUp
<1>3. CASE /\ Prepare /\ call' = [pc |-> "start"] /\ RequestOf(order) # Garbled
  <2>1. "pc" \in DOMAIN call' /\ call'.pc = "start" /\ call.pc = "prepare"
        /\ UNCHANGED << job, starts >>
    BY <1>3 DEF Prepare
  <2>2. Belongs' /\ AccountsAgree' /\ RequestOf(order)' # Garbled
    BY <1>1, <1>3, <2>1 DEF Belongs, CallInv, AccountInv, AccountsAgree
  <2> QED BY <1>1, <2>1, <2>2 DEF CallInv, CallTyped, JobTyped, StartInv, StartedAtMostOnce,
               Unstarted, FileInv, ManifestRemoved, AccountInv, EvidenceMeansDone, Proven, HasEnded
<1>4. CASE StartRequest
  <2>1. "pc" \in DOMAIN call' /\ call'.pc = "accepted" /\ call.pc = "start"
    BY <1>4 DEF StartRequest
  <2>2. Belongs'
    BY <1>1, <2>1 DEF Belongs
  <2>3. CASE Begins(RequestOf(order))
    <3>1. /\ DOMAIN job' = { "status", "receipts", "clean", "accounts" }
          /\ starts' = starts + 1 /\ job'.accounts = RequestOf(order)
      BY <2>3 DEF Begins
    <3> QED BY <1>1, <2>1, <2>2, <3>1, CallBegins DEF Unstarted
  <2>4. CASE NothingBegins
    BY <1>1, <2>1, <2>2, <2>4, CallGoesOn DEF Unstarted, OnFile, NothingBegins
  <2> QED BY <1>4, <2>3, <2>4 DEF StartRequest
<1>5. CASE StartAnswered
  <2>1. "pc" \in DOMAIN call' /\ call'.pc = "wait" /\ call.pc = "accepted"
        /\ UNCHANGED << job, starts >>
    BY <1>5 DEF StartAnswered
  <2>2. Belongs'
    BY <1>1, <2>1 DEF Belongs
  <2> QED BY <1>1, <2>1, <2>2, CallGoesOn DEF Unstarted, OnFile
<1>6. CASE Prepare
  BY <1>2, <1>3, <1>6 DEF Prepare
<1>7. CASE StartUnanswered
  BY <1>2, <1>7 DEF StartUnanswered
<1> QED BY <1>4, <1>5, <1>6, <1>7

LEMMA WaitInv == ASSUME CallInv, McpTurn \/ RestTurn PROVE CallInv'
<1>1. /\ order.kind \in { "run", "deploy" } /\ call.pc = "wait"
      /\ ~ HasEnded /\ UNCHANGED << order, job, starts, manifest >>
  BY DEF CallInv, Belongs, McpTurn, RestTurn, HasEnded
<1>2. CASE call' = Failed
  BY <1>1, <1>2, CallGivesUp
<1>3. CASE TakeSummary(call.local) /\ Clean
  <2>1. job.clean
    BY <1>3 DEF Clean
  <2> QED BY <1>1, <1>3, <2>1, SummaryInv
<1>4. ASSUME "pc" \in DOMAIN call', call'.pc = "wait" PROVE CallInv'
  <2>1. Belongs'
    BY <1>1, <1>4 DEF Belongs
  <2> QED BY <1>1, <1>4, <2>1, CallGoesOn DEF Unstarted, OnFile
<1>5. CASE McpTurn
  <2>1. \/ call' = call
        \/ call' = [pc |-> "wait", channel |-> "rest", since |-> now', local |-> call.local]
        \/ TakeSummary(call.local) /\ Clean
    BY <1>5 DEF McpTurn, McpFails, GoRest, WaitOn
  <2> QED BY <1>1, <1>3, <1>4, <2>1 DEF CallInv, CallTyped
<1>6. CASE RestTurn
  <2>1. CASE ~ call.local
    BY <1>2, <1>6, <2>1 DEF RestTurn
  <2>2. CASE call.local
    <3>1. PICK d \in Within(JailgunRequest) :
            \/ call' = Failed
            \/ WaitOn(d)
            \/ Clean /\ TakeSummary(call.local)
      BY <1>6, <2>2 DEF RestTurn
    <3>2. CASE WaitOn(d)
      BY <1>1, <1>4, <3>2 DEF WaitOn, CallInv, CallTyped
    <3> QED BY <1>2, <1>3, <3>1, <3>2
  <2> QED BY <2>1, <2>2
<1> QED BY <1>5, <1>6

LEMMA PacketInv ==
    ASSUME CallInv, PacketPrepare \/ PacketBusy \/ PacketRuns \/ PacketTimesOut \/ PacketExits
    PROVE  CallInv'
<1>1. /\ order.kind = "packet" /\ call.pc \in { "packet", "review", "child" }
      /\ ~ HasEnded /\ UNCHANGED << order, manifest >>
  BY DEF CallInv, Belongs, PacketPrepare, PacketBusy, PacketRuns, PacketTimesOut, PacketExits,
         HasEnded
<1>2. CASE call' = Failed /\ UNCHANGED << job, starts >>
  BY <1>1, <1>2, CallGivesUp
<1>3. ASSUME call.pc \in { "packet", "review" }, "pc" \in DOMAIN call', call'.pc = "review",
             UNCHANGED << job, starts >>
      PROVE  CallInv'
  <2>1. Belongs'
    BY <1>1, <1>3 DEF Belongs
  <2> QED BY <1>1, <1>3, <2>1, CallGoesOn DEF Unstarted, OnFile
<1>4. CASE PacketPrepare
  BY <1>2, <1>3, <1>4 DEF PacketPrepare
<1>5. CASE PacketBusy
  <2>1. call' = [call EXCEPT !.attempt = @ + 1] => "pc" \in DOMAIN call' /\ call'.pc = call.pc
    BY DEF CallInv, CallTyped
  <2> QED BY <1>2, <1>3, <1>5, <2>1 DEF PacketBusy, Retry
<1>6. CASE PacketRuns
  <2>1. /\ "pc" \in DOMAIN call' /\ call'.pc = "child" /\ call.pc = "review"
        /\ DOMAIN job' = { "status", "receipts", "clean", "accounts" }
        /\ starts' = starts + 1 /\ job'.accounts = None
    BY <1>6 DEF PacketRuns, Begins
  <2>2. Belongs'
    BY <1>1, <2>1 DEF Belongs
  <2> QED BY <1>1, <2>1, <2>2, CallBegins DEF Unstarted
<1>7. CASE PacketTimesOut
  BY <1>2, <1>7 DEF PacketTimesOut
<1>8. CASE PacketExits
  <2>1. CASE job.status = "succeeded" /\ call' = Ended(PacketEvidence)
    <3>1. PacketEvidence = {} \/ job.clean
      BY DEF PacketEvidence, Clean
    <3>2. UNCHANGED << job, starts >>
      BY <1>8 DEF PacketExits
    <3> QED BY <1>1, <2>1, <3>1, <3>2, CallProves
  <2> QED BY <1>2, <1>8, <2>1 DEF PacketExits
<1> QED BY <1>4, <1>5, <1>6, <1>7, <1>8

(* The engines. *)
LEMMA EngineInv == ASSUME CallInv, JobSettles \/ PhaseSettles PROVE CallInv'
<1>1. UNCHANGED << order, starts, manifest, call >>
  BY DEF JobSettles, PhaseSettles
<1>2. /\ DOMAIN job' = DOMAIN job /\ job'.accounts = job.accounts
      /\ job.status = "succeeded" => job' = job
      /\ job'.receipts = job.receipts /\ job'.clean = job.clean
  BY DEF JobSettles, PhaseSettles, CallInv, JobTyped
<1>3. AccountsAgree'
  BY <1>1, <1>2 DEF CallInv, AccountInv, AccountsAgree
<1> QED BY <1>1, <1>2, <1>3 DEF CallInv, CallTyped, JobTyped, Belongs, StartInv,
             StartedAtMostOnce, FileInv, ManifestRemoved, AccountInv, EvidenceMeansDone,
             Proven, HasEnded

LEMMA CallInitInv == AdapterInit => CallInv
<1> SUFFICES ASSUME AdapterInit PROVE CallInv
  OBVIOUS
<1>1. /\ starts = 0 /\ manifest = "absent" /\ "pc" \in DOMAIN call /\ call.pc = "idle"
      /\ DOMAIN job = { "status", "receipts", "clean", "accounts" } /\ job.accounts = None
  BY DEF AdapterInit, NewJob
<1> QED BY <1>1 DEF CallInv, CallTyped, JobTyped, Belongs, StartInv, StartedAtMostOnce, FileInv,
             ManifestRemoved, AccountInv, AccountsAgree, EvidenceMeansDone, Proven, HasEnded

LEMMA CallStepInv == CallInv /\ [AdapterNext]_callVars => CallInv'
<1> SUFFICES ASSUME CallInv, [AdapterNext]_callVars PROVE CallInv'
  OBVIOUS
<1>1. CASE UNCHANGED callVars
  <2>1. AccountsAgree'
    BY <1>1 DEF callVars, CallInv, AccountInv, AccountsAgree
  <2> QED BY <1>1, <2>1 DEF callVars, CallInv, CallTyped, JobTyped, Belongs, StartInv,
               StartedAtMostOnce, FileInv, ManifestRemoved, AccountInv, EvidenceMeansDone,
               Proven, HasEnded
<1>2. CASE JailgunStep
  BY <1>2, RunInv, WaitInv, PacketInv DEF JailgunStep
<1>3. CASE LocalStep
  BY <1>3, BeginInv, JankuraiInv, JeryuInv DEF LocalStep
<1> QED BY <1>1, <1>2, <1>3, JekkoInv, ZyalInv, EngineInv DEF AdapterNext, CallStep

-----------------------------------------------------------------------------
(* A call starts at most one job, whatever is retried.                     *)
THEOREM JobsStartedOnce == AdapterSpec => []StartedAtMostOnce
<1>1. CallInv => StartedAtMostOnce
  BY DEF CallInv, StartInv
<1> QED BY <1>1, CallInitInv, CallStepInv, PTL DEF AdapterSpec

(* However a call ends, the manifest of a run that was submitted is gone.  *)
THEOREM ManifestsRemoved == AdapterSpec => []ManifestRemoved
<1>1. CallInv => ManifestRemoved
  BY DEF CallInv, FileInv
<1> QED BY <1>1, CallInitInv, CallStepInv, PTL DEF AdapterSpec

(* There is evidence only of a job that succeeded at its engine.           *)
THEOREM EvidenceIsTrue == AdapterSpec => []EvidenceMeansDone
<1>1. CallInv => EvidenceMeansDone
  BY DEF CallInv
<1> QED BY <1>1, CallInitInv, CallStepInv, PTL DEF AdapterSpec

(* The engine is told of the accounts that all aliases agree on.           *)
THEOREM AccountsAlwaysAgree == AdapterSpec => []AccountsAgree
<1>1. CallInv => AccountsAgree
  BY DEF CallInv, AccountInv
<1> QED BY <1>1, CallInitInv, CallStepInv, PTL DEF AdapterSpec

-----------------------------------------------------------------------------
(* Time: how much of its budget a call can have used, wherever it is.      *)

AtOnce ==
    { "idle", "worker", "answer", "chat", "write", "spawn", "process", "health",
      "prepare", "start", "accepted", "packet" }

JekkoTime ==
    call.pc = "detached" =>
        /\ call \in [pc : { "detached" }, polls : 0 .. MaxDetachedPolls - 1]
        /\ now =< JekkoTimeout + call.polls * (JekkoDelay + JekkoTimeout)

Retries(busy) == busy * BusyDelay

ZyalTime ==
    /\ call.pc = "submit" =>
         /\ call \in [pc : { "submit" }, busy : 0 .. MaxBusy]
         /\ now =< Retries(call.busy)
    /\ call.pc = "status" =>
         /\ call \in [pc : { "status" }, busy : 0 .. MaxBusy, since : Nat]
         /\ call.since =< ChildTime + Retries(MaxBusy)
         /\ now =< call.since + order.pollTimeout + ZyalInterval + Retries(call.busy)
    /\ call.pc = "pause" =>
         /\ call \in [pc : { "pause" }, since : Nat]
         /\ call.since =< ChildTime + Retries(MaxBusy)
         /\ now < call.since + order.pollTimeout

JailgunTime ==
    /\ call.pc = "wait" =>
         /\ call.channel \in Channels /\ call.since \in Nat
         /\ call.since =< JailgunRequest + (IF call.channel = "mcp" THEN 0 ELSE WaitBudget)
         /\ now =< call.since + JailgunTimeout + JailgunDelay
    /\ call.pc = "review" =>
         /\ call \in [pc : { "review" }, attempt : 0 .. 4]
         /\ call.attempt = 0 => now = 0
         /\ call.attempt = 1 => now =< RetryDelay
         /\ call.attempt = 2 => now =< 3 * RetryDelay
         /\ call.attempt = 3 => now =< 6 * RetryDelay
         /\ now =< 10 * RetryDelay
    /\ call.pc = "child" => now =< 10 * RetryDelay

TimeInv ==
    /\ order \in WorkOrders
    /\ now \in Nat /\ now =< Budget(order)
    /\ call.pc \in AtOnce => now = 0
    /\ call.pc \in { "run-id", "ci" } => now =< JeryuTimeout
    /\ JekkoTime /\ ZyalTime /\ JailgunTime

-----------------------------------------------------------------------------
LEMMA LaterBound ==
    ASSUME now \in Nat, NEW d \in Nat
    PROVE  Later(d) \in Nat /\ Later(d) =< now + d
BY TimeAssumption DEF Later

LEMMA WithinBound ==
    ASSUME now \in Nat, NEW limit \in Nat, NEW pause \in Nat, NEW d \in Within(limit)
    PROVE  /\ d \in Nat /\ d =< limit
           /\ Later(d) \in Nat /\ Later(d) =< now + limit
           /\ Later(pause + d) \in Nat /\ Later(pause + d) =< now + pause + limit
           /\ Later(d + pause) \in Nat /\ Later(d + pause) =< now + d + pause
BY TimeAssumption DEF Later, Within

LEMMA TimesMonotone ==
    ASSUME NEW a \in Nat, NEW b \in Nat, NEW c \in Nat, a =< b
    PROVE  a * c \in Nat /\ b * c \in Nat /\ a * c =< b * c
OBVIOUS

LEMMA OneMore ==
    ASSUME NEW a \in Nat, NEW c \in Nat
    PROVE  (a + 1) * c = a * c + c
OBVIOUS

LEMMA LaterStill ==
    ASSUME NEW t \in Nat, NEW a \in Nat, NEW b \in Nat
    PROVE  t =< t + a + b
OBVIOUS

LEMMA TimeEnds ==
    ASSUME TimeInv, UNCHANGED order, call'.pc \in { "ended", "hung" },
           now' \in Nat, now' =< Budget(order)
    PROVE  TimeInv'
<1>1. Budget(order)' = Budget(order)
  BY DEF Budget
<1> QED BY <1>1 DEF TimeInv, AtOnce, JekkoTime, ZyalTime, JailgunTime

LEMMA TimeStays ==
    ASSUME TimeInv, UNCHANGED << order, now >>, now = 0,
           call'.pc \in AtOnce \cup { "hung", "ended", "run-id", "ci" }
    PROVE  TimeInv'
<1>1. Budget(order)' = Budget(order)
  BY DEF Budget
<1>2. JeryuTimeout \in Nat
  BY LocalAssumption
<1> QED BY <1>1, <1>2 DEF TimeInv, AtOnce, JekkoTime, ZyalTime, JailgunTime

LEMMA FailedEnds == ASSUME call' = Failed PROVE call'.pc = "ended"
BY DEF Failed, Ended

LEMMA LocalTime == ASSUME CallInv, TimeInv, LocalStep PROVE TimeInv'
<1> USE LocalAssumption
<1>1. CASE Begin
  <2>1. now = 0 /\ UNCHANGED << order, now >>
    BY <1>1 DEF Begin, TimeInv, AtOnce
  <2>2. CASE call' = Failed
    BY <2>1, <2>2, FailedEnds, TimeStays
  <2>3. CASE call' # Failed
    <3>1. call' = [pc |-> Route(order.kind)] /\ Route(order.kind) # "none"
      BY <1>1, <2>3 DEF Begin
    <3>2. Route(order.kind) \in AtOnce
      BY <3>1 DEF Route, JekkoRoute, JailgunRoute, AtOnce
    <3> QED BY <2>1, <3>1, <3>2, TimeStays
  <2> QED BY <2>2, <2>3
<1>2. CASE JankuraiSpawn
  <2>1. now = 0 /\ UNCHANGED << order, now >>
    BY <1>2 DEF JankuraiSpawn, TimeInv, AtOnce
  <2>2. call'.pc \in { "process", "ended" }
    BY <1>2, FailedEnds DEF JankuraiSpawn
  <2> QED BY <2>1, <2>2, TimeStays DEF AtOnce
<1>3. CASE JankuraiTimesOut \/ JankuraiExits
  <2>1. order.kind = "jankurai" /\ now = 0 /\ UNCHANGED order
    BY <1>3 DEF JankuraiTimesOut, JankuraiExits, CallInv, Belongs, TimeInv, AtOnce
  <2>2. now' \in Nat /\ now' =< JankuraiTimeout
    <3>1. CASE JankuraiTimesOut
      BY <2>1, <3>1, LaterBound DEF JankuraiTimesOut
    <3>2. CASE JankuraiExits
      BY <2>1, <3>2, WithinBound DEF JankuraiExits
    <3> QED BY <1>3, <3>1, <3>2
  <2>3. call'.pc = "ended"
    BY <1>3, FailedEnds DEF JankuraiTimesOut, JankuraiExits, Ended
  <2>4. Budget(order) = JankuraiTimeout
    BY <2>1 DEF Budget
  <2> QED BY <2>1, <2>2, <2>3, <2>4, TimeEnds
<1>4. CASE JeryuHealth \/ JeryuRunId \/ JeryuCi
  <2>1. /\ order.kind = "jeryu" /\ UNCHANGED order /\ now \in Nat
        /\ JeryuHealth => now = 0
        /\ JeryuRunId \/ JeryuCi => now =< JeryuTimeout
    BY <1>4 DEF JeryuHealth, JeryuRunId, JeryuCi, CallInv, Belongs, TimeInv, AtOnce
  <2>2. Budget(order) = 2 * JeryuTimeout /\ Budget(order)' = Budget(order)
    BY <2>1 DEF Budget
  <2>3. CASE JeryuHealth \/ JeryuRunId
    <3>1. now' \in Nat /\ now' =< JeryuTimeout
      <4>1. CASE JeryuHealth
        BY <2>1, <4>1, WithinBound DEF JeryuHealth
      <4>2. CASE JeryuRunId
        BY <2>1, <4>2 DEF JeryuRunId
      <4> QED BY <2>3, <4>1, <4>2
    <3>2. call'.pc \in { "ended", "run-id", "ci" }
      BY <2>3, FailedEnds DEF JeryuHealth, JeryuRunId
    <3> QED BY <2>1, <2>2, <3>1, <3>2 DEF TimeInv, AtOnce, JekkoTime, ZyalTime, JailgunTime
  <2>4. CASE JeryuCi
    <3>1. now' \in Nat /\ now' =< 2 * JeryuTimeout
      BY <2>1, <2>4, WithinBound DEF JeryuCi
    <3>2. call'.pc = "ended"
      BY <2>4, FailedEnds DEF JeryuCi, Ended
    <3> QED BY <2>1, <2>2, <3>1, <3>2, TimeEnds
  <2> QED BY <1>4, <2>3, <2>4
<1> QED BY <1>1, <1>2, <1>3, <1>4 DEF LocalStep

(* Each poll takes one pause and one request.                              *)
LEMMA PollsBounded ==
    ASSUME NEW polls \in 0 .. MaxDetachedPolls - 1
    PROVE  /\ polls * (JekkoDelay + JekkoTimeout) \in Nat
           /\ (polls + 1) * (JekkoDelay + JekkoTimeout)
                = polls * (JekkoDelay + JekkoTimeout) + JekkoDelay + JekkoTimeout
           /\ (polls + 1) * (JekkoDelay + JekkoTimeout)
                =< MaxDetachedPolls * (JekkoDelay + JekkoTimeout)
<1> DEFINE turn == JekkoDelay + JekkoTimeout
<1>1. /\ turn \in Nat /\ polls \in Nat /\ polls + 1 \in Nat /\ MaxDetachedPolls \in Nat
      /\ polls + 1 =< MaxDetachedPolls /\ JekkoDelay \in Nat /\ JekkoTimeout \in Nat
  BY JekkoAssumption
<1>2. polls * turn \in Nat /\ (polls + 1) * turn =< MaxDetachedPolls * turn
  <2> HIDE DEF turn
  <2> QED BY <1>1, TimesMonotone
<1>3. (polls + 1) * turn = polls * turn + turn
  <2> HIDE DEF turn
  <2> QED BY <1>1, OneMore
<1>4. polls * turn + turn = polls * turn + JekkoDelay + JekkoTimeout
  BY <1>1, <1>2
<1> QED BY <1>2, <1>3, <1>4

LEMMA JekkoTimes == ASSUME CallInv, TimeInv, JekkoStep PROVE TimeInv'
<1> DEFINE turn == JekkoDelay + JekkoTimeout
<1>1. /\ { JekkoTimeout, JekkoDelay } \subseteq Nat /\ MaxDetachedPolls \in Nat \ { 0 }
      /\ MaxDetachedPolls * turn \in Nat /\ turn \in Nat
  <2>1. turn \in Nat /\ MaxDetachedPolls \in Nat
    BY JekkoAssumption
  <2>2. MaxDetachedPolls * turn \in Nat
    <3> HIDE DEF turn
    <3> QED BY <2>1, TimesMonotone
  <2> QED BY JekkoAssumption, <2>1, <2>2
<1>2. CASE Chat
  <2>1. order.kind = "reason" /\ now = 0 /\ UNCHANGED order
    BY <1>2 DEF Chat, CallInv, Belongs, TimeInv, AtOnce
  <2>2. now' \in Nat /\ now' =< JekkoTimeout
    BY <1>1, <1>2, <2>1, WithinBound DEF Chat
  <2>3. call'.pc = "ended"
    BY <1>2, FailedEnds DEF Chat, Ended
  <2>4. Budget(order) = JekkoTimeout
    BY <2>1 DEF Budget, JekkoBudget
  <2> QED BY <2>1, <2>2, <2>3, <2>4, TimeEnds
<1>3. CASE WorkerRequest
  <2>1. now = 0 /\ UNCHANGED << order, now >> /\ call'.pc = "answer"
    BY <1>3 DEF WorkerRequest, TimeInv, AtOnce
  <2> QED BY <2>1, TimeStays DEF AtOnce
<1>4. CASE WorkerUnanswered \/ WorkerAnswer \/ PollDetached
  <2>1. order.kind = "worker" /\ UNCHANGED order /\ now \in Nat
    BY <1>4 DEF WorkerUnanswered, WorkerAnswer, PollDetached, CallInv, Belongs, TimeInv
  <2>2. Budget(order) = JekkoTimeout + MaxDetachedPolls * turn /\ Budget(order)' = Budget(order)
    BY <2>1 DEF Budget, JekkoBudget
  <2>3. ASSUME NEW status, Concludes(status) PROVE call'.pc = "ended"
    BY <2>3 DEF Concludes, Ended
  <2>4. CASE WorkerUnanswered \/ WorkerAnswer
    <3>1. now = 0
      BY <2>4 DEF WorkerUnanswered, WorkerAnswer, TimeInv, AtOnce
    <3>2. now' \in Nat /\ now' =< JekkoTimeout
      BY <1>1, <2>1, <2>4, <3>1, WithinBound DEF WorkerUnanswered, WorkerAnswer
    <3>3. CASE call'.pc = "ended"
      BY <1>1, <2>1, <2>2, <3>2, <3>3, TimeEnds
    <3>4. CASE call' = [pc |-> "detached", polls |-> 0]
      <4>1. JekkoTime'
        <5>1. 0 * (JekkoDelay + JekkoTimeout) = 0
          BY <1>1
        <5> QED BY <1>1, <3>2, <3>4, <5>1 DEF JekkoTime
      <4> QED BY <1>1, <2>1, <2>2, <3>2, <3>4, <4>1 DEF TimeInv, AtOnce, ZyalTime, JailgunTime
    <3> QED BY <2>3, <2>4, <3>3, <3>4, FailedEnds DEF WorkerUnanswered, WorkerAnswer
  <2>5. CASE PollDetached
    <3>1. /\ call \in [pc : { "detached" }, polls : 0 .. MaxDetachedPolls - 1]
          /\ now =< JekkoTimeout + call.polls * turn
      BY <2>5 DEF PollDetached, TimeInv, JekkoTime
    <3>2. /\ call.polls * turn \in Nat
          /\ (call.polls + 1) * turn = call.polls * turn + JekkoDelay + JekkoTimeout
          /\ (call.polls + 1) * turn =< MaxDetachedPolls * turn
      BY <3>1, PollsBounded
    <3>3. now' \in Nat /\ now' =< now + JekkoDelay + JekkoTimeout
      BY <1>1, <2>1, <2>5, WithinBound DEF PollDetached
    <3>4. now' =< JekkoTimeout + (call.polls + 1) * turn
      <4> HIDE DEF turn
      <4> QED BY <1>1, <2>1, <3>1, <3>2, <3>3
    <3>5. now' =< Budget(order)
      <4> HIDE DEF turn
      <4> QED BY <1>1, <2>1, <2>2, <3>1, <3>2, <3>3, <3>4
    <3>6. CASE call'.pc = "ended"
      BY <2>1, <3>3, <3>5, <3>6, TimeEnds
    <3>7. CASE call' = [call EXCEPT !.polls = @ + 1] /\ call.polls + 1 # MaxDetachedPolls
      <4>1. /\ call' \in [pc : { "detached" }, polls : 0 .. MaxDetachedPolls - 1]
            /\ call'.polls = call.polls + 1 /\ call'.pc = "detached"
        <5>1. call.polls \in 0 .. MaxDetachedPolls - 1 /\ call.polls + 1 # MaxDetachedPolls
          BY <3>1, <3>7
        <5>2. call.polls + 1 \in 0 .. MaxDetachedPolls - 1
          BY <5>1, JekkoAssumption
        <5>3. call' = [pc |-> "detached", polls |-> call.polls + 1]
          BY <3>1, <3>7
        <5> QED BY <5>2, <5>3
      <4>2. JekkoTime'
        BY <3>4, <4>1 DEF JekkoTime
      <4> QED BY <2>1, <2>2, <3>3, <3>5, <4>1, <4>2 DEF TimeInv, AtOnce, ZyalTime, JailgunTime
    <3> QED BY <2>3, <2>5, <3>6, <3>7, FailedEnds DEF PollDetached
  <2> QED BY <1>4, <2>4, <2>5
<1> QED BY <1>2, <1>3, <1>4 DEF JekkoStep

LEMMA RetriesBounded ==
    ASSUME NEW busy \in 0 .. MaxBusy
    PROVE  /\ Retries(busy) \in Nat /\ Retries(MaxBusy) \in Nat
           /\ Retries(busy) =< Retries(MaxBusy) /\ Retries(0) = 0
           /\ busy < MaxBusy => Retries(busy + 1) = Retries(busy) + BusyDelay
<1>1. busy \in Nat /\ MaxBusy \in Nat /\ BusyDelay \in Nat /\ busy =< MaxBusy
  BY ZyalAssumption
<1>2. /\ busy * BusyDelay \in Nat /\ MaxBusy * BusyDelay \in Nat
      /\ busy * BusyDelay =< MaxBusy * BusyDelay
  BY <1>1, TimesMonotone
<1>3. (busy + 1) * BusyDelay = busy * BusyDelay + BusyDelay
  BY <1>1, OneMore
<1>4. 0 * BusyDelay = 0
  BY <1>1
<1> QED BY <1>2, <1>3, <1>4 DEF Retries

LEMMA ZyalTimes == ASSUME CallInv, TimeInv, ZyalStep PROVE TimeInv'
<1> DEFINE first == ChildTime + Retries(MaxBusy)
<1>1. /\ order.kind = "zyal" /\ order \in WorkOrders /\ UNCHANGED order /\ now \in Nat
  BY DEF CallInv, Belongs, TimeInv, ZyalStep, ManifestMissing, WriteManifest, WriteManifestFails,
         ChildBusy, ChildHangs, Submit, SubmitFails, Status, StatusFails, Pause
<1>2. /\ order.pollTimeout \in Nat /\ ChildTime \in Nat /\ ZyalInterval \in Nat
      /\ BusyDelay \in Nat /\ MaxBusy \in Nat /\ Retries(MaxBusy) \in Nat /\ Retries(0) = 0
  <2>1. MaxBusy \in 0 .. MaxBusy /\ MaxBusy \in Nat
    BY ZyalAssumption
  <2> QED BY <1>1, <2>1, PollTimeoutAssumption, ZyalAssumption, RetriesBounded
<1>3. /\ Budget(order) = 2 * first + order.pollTimeout + ZyalInterval
      /\ Budget(order)' = Budget(order) /\ first \in Nat
  BY <1>1, <1>2 DEF Budget, ZyalBudget, Retries
<1>4. ASSUME now' \in Nat, now' =< Budget(order), call'.pc \in { "ended", "hung" }
      PROVE  TimeInv'
  BY <1>1, <1>4, TimeEnds
<1>5. CASE ManifestMissing \/ WriteManifest \/ WriteManifestFails
  <2>1. now = 0 /\ now' = now
    BY <1>5 DEF ManifestMissing, WriteManifest, WriteManifestFails, TimeInv, AtOnce
  <2>2. CASE call' = Failed
    BY <1>1, <2>1, <2>2, FailedEnds, TimeStays
  <2>3. CASE call' = [pc |-> "submit", busy |-> 0]
    <3>1. ZyalTime'
      BY <1>2, <2>1, <2>3 DEF ZyalTime, Retries
    <3> QED BY <1>1, <1>2, <1>3, <2>1, <2>3, <3>1 DEF TimeInv, AtOnce, JekkoTime, JailgunTime
  <2> QED BY <1>5, <2>2, <2>3 DEF ManifestMissing, WriteManifest, WriteManifestFails
(* Where a call in a child is, and where it gets to by its end.            *)
<1>6. ASSUME call.pc = "submit"
      PROVE  /\ call \in [pc : { "submit" }, busy : 0 .. MaxBusy]
             /\ Retries(call.busy) \in Nat /\ Retries(call.busy) =< Retries(MaxBusy)
             /\ call.busy < MaxBusy => Retries(call.busy + 1) = Retries(call.busy) + BusyDelay
             /\ now =< Retries(call.busy)
  <2>1. call \in [pc : { "submit" }, busy : 0 .. MaxBusy] /\ now =< Retries(call.busy)
    BY <1>6 DEF TimeInv, ZyalTime
  <2> QED BY <2>1, RetriesBounded
<1>7. ASSUME call.pc = "status"
      PROVE  /\ call \in [pc : { "status" }, busy : 0 .. MaxBusy, since : Nat]
             /\ Retries(call.busy) \in Nat /\ Retries(call.busy) =< Retries(MaxBusy)
             /\ call.busy < MaxBusy => Retries(call.busy + 1) = Retries(call.busy) + BusyDelay
             /\ call.since =< first
             /\ now =< call.since + order.pollTimeout + ZyalInterval + Retries(call.busy)
  <2>1. /\ call \in [pc : { "status" }, busy : 0 .. MaxBusy, since : Nat]
        /\ call.since =< first
        /\ now =< call.since + order.pollTimeout + ZyalInterval + Retries(call.busy)
    BY <1>7 DEF TimeInv, ZyalTime
  <2> QED BY <2>1, RetriesBounded
<1> HIDE DEF first
<1>8. ASSUME call.pc \in { "submit", "status" }, NEW d \in Within(ChildTime), now' = Later(d)
      PROVE  now' \in Nat /\ now' =< now + ChildTime /\ now' =< Budget(order)
  <2>1. now' \in Nat /\ now' =< now + ChildTime
    BY <1>1, <1>2, <1>8, WithinBound
  <2>2. now + ChildTime =< Budget(order)
    <3>1. CASE call.pc = "submit"
      BY <1>1, <1>2, <1>3, <1>6, <3>1 DEF first
    <3>2. CASE call.pc = "status"
      <4>1. call.since \in Nat
        BY <1>7, <3>2
      <4> QED BY <1>1, <1>2, <1>3, <1>7, <3>2, <4>1 DEF first
    <3> QED BY <1>8, <3>1, <3>2
  <2>3. Budget(order) \in Nat
    BY <1>2, <1>3
  <2> QED BY <1>1, <1>2, <2>1, <2>2, <2>3
<1>9. CASE ChildBusy
  <2>1. /\ call.pc \in { "submit", "status" } /\ call.busy < MaxBusy
        /\ call' = [call EXCEPT !.busy = @ + 1]
        /\ now' \in Nat /\ now' =< now + BusyDelay
    BY <1>1, <1>2, <1>9, LaterBound DEF ChildBusy
  <2>2. CASE call.pc = "submit"
    <3>1. /\ call' = [pc |-> "submit", busy |-> call.busy + 1]
          /\ call.busy + 1 \in 0 .. MaxBusy
      BY <1>2, <1>6, <2>1, <2>2
    <3>2. now' =< Retries(call.busy + 1)
      BY <1>1, <1>2, <1>6, <2>1, <2>2
    <3>3. Retries(call.busy + 1) =< Retries(MaxBusy) /\ Retries(call.busy + 1) \in Nat
      BY <3>1, RetriesBounded
    <3>4. now' =< Budget(order)
      BY <1>2, <1>3, <2>1, <3>2, <3>3 DEF first
    <3>5. ZyalTime'
      BY <3>1, <3>2 DEF ZyalTime, Retries
    <3> QED BY <1>1, <1>3, <2>1, <3>1, <3>4, <3>5 DEF TimeInv, AtOnce, JekkoTime, JailgunTime
  <2>3. CASE call.pc = "status"
    <3>1. /\ call' = [pc |-> "status", busy |-> call.busy + 1, since |-> call.since]
          /\ call.busy + 1 \in 0 .. MaxBusy /\ call.since \in Nat
      BY <1>2, <1>7, <2>1, <2>3
    <3>2. now' =< call.since + order.pollTimeout + ZyalInterval + Retries(call.busy + 1)
      BY <1>1, <1>2, <1>7, <2>1, <2>3, <3>1
    <3>3. Retries(call.busy + 1) =< Retries(MaxBusy) /\ Retries(call.busy + 1) \in Nat
      BY <3>1, RetriesBounded
    <3>4. now' =< Budget(order)
      BY <1>2, <1>3, <1>7, <2>1, <2>3, <3>1, <3>2, <3>3 DEF first
    <3>5. ZyalTime'
      BY <1>1, <1>7, <2>3, <3>1, <3>2 DEF ZyalTime, Retries, first
    <3> QED BY <1>1, <1>3, <2>1, <3>1, <3>4, <3>5 DEF TimeInv, AtOnce, JekkoTime, JailgunTime
  <2> QED BY <2>1, <2>2, <2>3
<1>10. CASE ChildHangs
  <2>1. now' = now /\ now =< Budget(order) /\ call'.pc = "hung"
    BY <1>10 DEF ChildHangs, TimeInv
  <2> QED BY <1>1, <1>4, <2>1
<1>11. CASE Submit
  <2>1. /\ call.pc = "submit" /\ now' \in Nat /\ now' =< now + ChildTime /\ now' =< Budget(order)
        /\ call' = [pc |-> "status", busy |-> 0, since |-> now']
    BY <1>8, <1>11 DEF Submit
  <2>2. now' =< first /\ first \in Nat
    BY <1>1, <1>2, <1>3, <1>6, <2>1 DEF first
  <2>3. now' =< now' + order.pollTimeout + ZyalInterval + Retries(0)
    BY <1>2, <2>1
  <2>4. ZyalTime'
    BY <1>1, <1>2, <2>1, <2>2, <2>3 DEF ZyalTime, Retries, first
  <2> QED BY <1>1, <1>3, <2>1, <2>4 DEF TimeInv, AtOnce, JekkoTime, JailgunTime
<1>12. CASE SubmitFails \/ StatusFails
  <2>1. now' \in Nat /\ now' =< Budget(order)
    BY <1>8, <1>12 DEF SubmitFails, StatusFails
  <2>2. call'.pc = "ended"
    BY <1>12, FailedEnds DEF SubmitFails, StatusFails
  <2> QED BY <1>4, <2>1, <2>2
<1>13. CASE Status
  <2>1. call.pc = "status" /\ now' \in Nat /\ now' =< Budget(order)
    BY <1>8, <1>13 DEF Status
  <2>2. CASE call' = ZyalEnded
    BY <1>4, <2>1, <2>2 DEF ZyalEnded
  <2>3. CASE /\ call' = [pc |-> "pause", since |-> call.since]
             /\ ~ (now' - call.since >= order.pollTimeout)
    <3>1. call.since \in Nat /\ call.since =< first
      BY <1>7, <2>1
    <3>2. now' < call.since + order.pollTimeout
      BY <1>2, <2>1, <2>3, <3>1
    <3>3. ZyalTime'
      BY <1>1, <2>3, <3>1, <3>2 DEF ZyalTime, Retries, first
    <3> QED BY <1>1, <1>3, <2>1, <2>3, <3>3 DEF TimeInv, AtOnce, JekkoTime, JailgunTime
  <2> QED BY <1>13, <2>2, <2>3 DEF Status
<1>14. CASE Pause
  <2>1. /\ call.since \in Nat /\ call.since =< first /\ now < call.since + order.pollTimeout
    BY <1>14 DEF Pause, TimeInv, ZyalTime, first
  <2>2. /\ now' \in Nat /\ now' =< now + ZyalInterval
        /\ call' = [pc |-> "status", busy |-> 0, since |-> call.since]
    BY <1>1, <1>2, <1>14, LaterBound DEF Pause
  <2>3. now' =< call.since + order.pollTimeout + ZyalInterval + Retries(0)
    BY <1>1, <1>2, <2>1, <2>2
  <2>4. now' =< Budget(order)
    BY <1>1, <1>2, <1>3, <2>1, <2>2, <2>3
  <2>5. ZyalTime'
    BY <1>1, <1>2, <2>1, <2>2, <2>3 DEF ZyalTime, Retries, first
  <2> QED BY <1>1, <1>3, <2>2, <2>4, <2>5 DEF TimeInv, AtOnce, JekkoTime, JailgunTime
<1> QED BY <1>5, <1>9, <1>10, <1>11, <1>12, <1>13, <1>14 DEF ZyalStep

(* The two waits of a run, each with the whole timeout.                    *)
LEMMA RunTimes ==
    ASSUME CallInv, TimeInv, Prepare \/ StartRequest \/ StartUnanswered \/ StartAnswered
    PROVE  TimeInv'
<1>1. /\ order.kind \in { "run", "deploy" } /\ now = 0 /\ UNCHANGED order
  BY DEF CallInv, Belongs, TimeInv, AtOnce, Prepare, StartRequest, StartUnanswered, StartAnswered
<1>2. JailgunTimeout \in Nat /\ JailgunRequest \in Nat /\ JailgunDelay \in Nat
  BY JailgunAssumption
<1>3. /\ Budget(order) = JailgunRequest + 2 * WaitBudget /\ Budget(order)' = Budget(order)
      /\ WaitBudget = JailgunTimeout + JailgunDelay + JailgunRequest
  BY <1>1 DEF Budget, JailgunBudget, WaitBudget
<1>4. CASE Prepare
  <2>1. now' = now /\ call'.pc \in { "ended", "start" }
    BY <1>4, FailedEnds DEF Prepare
  <2> QED BY <1>1, <2>1, TimeStays DEF AtOnce
<1>5. CASE StartRequest
  <2>1. now' = now /\ call'.pc = "accepted"
    BY <1>5 DEF StartRequest
  <2> QED BY <1>1, <2>1, TimeStays DEF AtOnce
<1>6. CASE StartUnanswered \/ StartAnswered
  <2>1. now' \in Nat /\ now' =< JailgunRequest
    BY <1>1, <1>2, <1>6, WithinBound DEF StartUnanswered, StartAnswered
  <2>2. now' =< Budget(order)
    BY <1>2, <1>3, <2>1
  <2>3. CASE StartUnanswered
    <3>1. call'.pc = "ended"
      BY <2>3, FailedEnds DEF StartUnanswered
    <3> QED BY <1>1, <2>1, <2>2, <3>1, TimeEnds
  <2>4. CASE StartAnswered
    <3>1. PICK channel \in Channels, local \in BOOLEAN :
            call' = [pc |-> "wait", channel |-> channel, since |-> now', local |-> local]
      BY <2>4 DEF StartAnswered
    <3>2. WaitBudget \in Nat
      BY <1>2, <1>3
    <3>3. call'.pc = "wait" /\ call'.channel = channel /\ call'.since = now'
      BY <3>1
    <3>4. JailgunTime'
      <4>1. now' =< JailgunRequest + (IF channel = "mcp" THEN 0 ELSE WaitBudget)
        BY <1>2, <2>1, <3>2
      <4>2. now' =< now' + JailgunTimeout + JailgunDelay
        <5>1. now' \in Nat
          BY <2>1
        <5> QED BY <1>2, <5>1, LaterStill
      <4> QED BY <2>1, <3>1, <3>3, <4>1, <4>2 DEF JailgunTime, WaitBudget
    <3> QED BY <1>1, <1>3, <2>1, <2>2, <3>3, <3>4 DEF TimeInv, AtOnce, JekkoTime, ZyalTime
  <2> QED BY <1>6, <2>3, <2>4
<1> QED BY <1>4, <1>5, <1>6

LEMMA WaitTimes == ASSUME CallInv, TimeInv, McpTurn \/ RestTurn PROVE TimeInv'
<1>1. /\ order.kind \in { "run", "deploy" } /\ call.pc = "wait" /\ UNCHANGED order /\ now \in Nat
  BY DEF CallInv, Belongs, TimeInv, McpTurn, RestTurn
<1>2. JailgunTimeout \in Nat /\ JailgunRequest \in Nat /\ JailgunDelay \in Nat
  BY JailgunAssumption
<1>3. /\ Budget(order) = JailgunRequest + 2 * WaitBudget /\ Budget(order)' = Budget(order)
      /\ WaitBudget = JailgunTimeout + JailgunDelay + JailgunRequest /\ WaitBudget \in Nat
  BY <1>1, <1>2 DEF Budget, JailgunBudget, WaitBudget
<1>4. /\ call.channel \in Channels /\ call.since \in Nat
      /\ call.since =< JailgunRequest + (IF call.channel = "mcp" THEN 0 ELSE WaitBudget)
      /\ now =< call.since + JailgunTimeout + JailgunDelay
  BY <1>1 DEF TimeInv, JailgunTime
<1>5. call.since + WaitBudget =< Budget(order)
  BY <1>2, <1>3, <1>4 DEF Channels
<1>6. ASSUME NEW d \in Within(JailgunRequest), now' = Later(d)
      PROVE  now' \in Nat /\ now' =< call.since + WaitBudget /\ now' =< Budget(order)
  <2>1. now' \in Nat /\ now' =< now + JailgunRequest
    BY <1>1, <1>2, <1>6, WithinBound
  <2>2. Budget(order) \in Nat
    BY <1>2, <1>3
  <2> QED BY <1>1, <1>2, <1>3, <1>4, <1>5, <2>1, <2>2
<1>7. ASSUME NEW d \in Within(JailgunRequest), now' = Later(d), call'.pc = "ended"
      PROVE  TimeInv'
  BY <1>1, <1>6, <1>7, TimeEnds
<1>8. ASSUME NEW d \in Within(JailgunRequest), Waited(d) < JailgunTimeout, WaitOn(d)
      PROVE  TimeInv'
  <2>1. now' \in Nat /\ now' =< now + d + JailgunDelay /\ d \in Nat
    BY <1>1, <1>2, <1>8, WithinBound DEF WaitOn
  <2>2. now + d - call.since < JailgunTimeout
    BY <1>8 DEF Waited
  <2>3. now' =< call.since + JailgunTimeout + JailgunDelay
    BY <1>1, <1>2, <1>4, <2>1, <2>2
  <2>4. now' =< Budget(order)
    BY <1>2, <1>3, <1>4, <1>5, <2>1, <2>3
  <2>5. call' = call
    BY <1>8 DEF WaitOn
  <2>6. JailgunTime'
    BY <1>1, <1>4, <2>3, <2>5 DEF JailgunTime, WaitBudget
  <2> QED BY <1>1, <1>3, <2>1, <2>4, <2>5, <2>6 DEF TimeInv, AtOnce, JekkoTime, ZyalTime
<1>9. ASSUME call'.pc = "ended", now' = now PROVE TimeInv'
  BY <1>1, <1>9, TimeEnds DEF TimeInv
<1>10. ASSUME NEW local, TakeSummary(local) PROVE call'.pc = "ended"
  BY <1>10, FailedEnds DEF TakeSummary, Ended
<1>11. CASE McpTurn
  <2>1. PICK d \in Within(JailgunRequest) :
          \/ McpFails(d)
          \/ Waited(d) < JailgunTimeout /\ WaitOn(d)
          \/ now' = Later(d) /\ TakeSummary(call.local)
    BY <1>11 DEF McpTurn
  <2>2. CASE McpFails(d)
    <3>1. /\ now' = Later(d) /\ call.channel = "mcp"
          /\ call' = [pc |-> "wait", channel |-> "rest", since |-> now', local |-> call.local]
      BY <1>11, <2>2 DEF McpFails, GoRest, McpTurn
    <3>2. now' \in Nat /\ now' =< JailgunRequest + WaitBudget /\ now' =< Budget(order)
      <4>1. now' \in Nat /\ now' =< call.since + WaitBudget /\ now' =< Budget(order)
        BY <1>6, <3>1
      <4> QED BY <1>2, <1>3, <1>4, <3>1, <4>1
    <3>3. call'.pc = "wait" /\ call'.channel = "rest" /\ call'.since = now'
      BY <3>1
    <3>4. JailgunTime'
      <4>1. now' =< now' + JailgunTimeout + JailgunDelay
        <5>1. now' \in Nat
          BY <3>2
        <5> QED BY <1>2, <5>1, LaterStill
      <4>2. call'.channel \in Channels /\ call'.since \in Nat
        BY <3>2, <3>3 DEF Channels
      <4>3. call'.since =< JailgunRequest + (IF call'.channel = "mcp" THEN 0 ELSE WaitBudget)
        BY <3>2, <3>3
      <4>4. now' =< call'.since + JailgunTimeout + JailgunDelay
        BY <3>3, <4>1
      <4>5. call'.pc # "review" /\ call'.pc # "child"
        BY <3>3
      <4> QED BY <4>2, <4>3, <4>4, <4>5 DEF JailgunTime
    <3> QED BY <1>1, <1>3, <3>2, <3>3, <3>4 DEF TimeInv, AtOnce, JekkoTime, ZyalTime
  <2>3. CASE Waited(d) < JailgunTimeout /\ WaitOn(d)
    BY <1>8, <2>3
  <2>4. CASE now' = Later(d) /\ TakeSummary(call.local)
    BY <1>7, <1>10, <2>4
  <2> QED BY <2>1, <2>2, <2>3, <2>4
<1>12. CASE RestTurn
  <2>1. CASE ~ call.local
    BY <1>9, <1>12, <2>1, FailedEnds DEF RestTurn
  <2>2. CASE call.local
    <3>1. PICK d \in Within(JailgunRequest) :
            \/ now' = Later(d) /\ call' = Failed
            \/ ~ (Waited(d) >= JailgunTimeout) /\ WaitOn(d)
            \/ now' = Later(d) /\ TakeSummary(call.local)
      BY <1>12, <2>2 DEF RestTurn
    <3>2. CASE now' = Later(d) /\ call' = Failed
      BY <1>7, <3>2, FailedEnds
    <3>3. CASE ~ (Waited(d) >= JailgunTimeout) /\ WaitOn(d)
      <4>1. d \in Nat
        BY <1>1, <1>2, WithinBound
      <4>2. Waited(d) < JailgunTimeout
        BY <1>1, <1>2, <1>4, <3>3, <4>1 DEF Waited
      <4> QED BY <1>8, <3>3, <4>2
    <3>4. CASE now' = Later(d) /\ TakeSummary(call.local)
      BY <1>7, <1>10, <3>4
    <3> QED BY <3>1, <3>2, <3>3, <3>4
  <2> QED BY <2>1, <2>2
<1> QED BY <1>11, <1>12

(* Four retries, after pauses of 1, 2, 3 and 4 delays.                     *)
LEMMA PacketTimes ==
    ASSUME CallInv, TimeInv,
           PacketPrepare \/ PacketBusy \/ PacketRuns \/ PacketTimesOut \/ PacketExits
    PROVE  TimeInv'
<1>1. /\ order.kind = "packet" /\ UNCHANGED order /\ now \in Nat
  BY DEF CallInv, Belongs, TimeInv, PacketPrepare, PacketBusy, PacketRuns, PacketTimesOut,
         PacketExits
<1>2. JailgunTimeout \in Nat /\ RetryDelay \in Nat
  BY JailgunAssumption
<1>3. /\ Budget(order) = JailgunTimeout + 10 * RetryDelay /\ Budget(order)' = Budget(order)
  BY <1>1 DEF Budget, JailgunBudget
<1>4. CASE PacketPrepare
  <2>1. now = 0 /\ now' = now
    BY <1>4 DEF PacketPrepare, TimeInv, AtOnce
  <2>2. CASE call' = Failed
    BY <1>1, <2>1, <2>2, FailedEnds, TimeStays
  <2>3. CASE call' = [pc |-> "review", attempt |-> 0]
    <3>1. JailgunTime'
      BY <1>2, <2>1, <2>3 DEF JailgunTime
    <3> QED BY <1>1, <1>2, <1>3, <2>1, <2>3, <3>1 DEF TimeInv, AtOnce, JekkoTime, ZyalTime
  <2> QED BY <1>4, <2>2, <2>3 DEF PacketPrepare
<1>5. ASSUME call.pc = "review"
      PROVE  /\ call \in [pc : { "review" }, attempt : 0 .. 4]
             /\ call.attempt = 0 => now = 0
             /\ call.attempt = 1 => now =< RetryDelay
             /\ call.attempt = 2 => now =< 3 * RetryDelay
             /\ call.attempt = 3 => now =< 6 * RetryDelay
             /\ now =< 10 * RetryDelay
  BY <1>5 DEF TimeInv, JailgunTime
<1>6. CASE PacketBusy
  <2>1. CASE call.attempt < 4 /\ Retry
    <3>1. /\ call.pc = "review" /\ now' = Later(RetryDelay * (call.attempt + 1))
          /\ call' = [call EXCEPT !.attempt = @ + 1]
      BY <1>6, <2>1 DEF PacketBusy, Retry
    <3>2. call' = [pc |-> "review", attempt |-> call.attempt + 1]
      BY <1>5, <3>1
    <3>3. ASSUME NEW k \in { 1, 2, 3, 4 }, call.attempt + 1 = k
          PROVE  now' \in Nat /\ now' =< now + RetryDelay * k
      <4>1. RetryDelay * k \in Nat
        BY <1>2
      <4> QED BY <1>1, <3>1, <3>3, <4>1, LaterBound
    <3>4. /\ call.attempt + 1 \in { 1, 2, 3, 4 }
          /\ call.attempt \in { 0, 1, 2, 3 }
      BY <1>5, <2>1, <3>1
    <3>5. /\ now' \in Nat
          /\ call.attempt = 0 => now' =< RetryDelay
          /\ call.attempt = 1 => now' =< 3 * RetryDelay
          /\ call.attempt = 2 => now' =< 6 * RetryDelay
          /\ now' =< 10 * RetryDelay
      BY <1>1, <1>2, <1>5, <3>1, <3>3, <3>4
    <3>6. JailgunTime'
      BY <3>2, <3>4, <3>5 DEF JailgunTime
    <3> QED BY <1>1, <1>2, <1>3, <3>2, <3>5, <3>6 DEF TimeInv, AtOnce, JekkoTime, ZyalTime
  <2>2. CASE now' = now /\ call' = Failed
    BY <1>1, <2>2, FailedEnds, TimeEnds DEF TimeInv
  <2> QED BY <1>6, <2>1, <2>2 DEF PacketBusy
<1>7. CASE PacketRuns
  <2>1. call.pc = "review" /\ now' = now /\ call'.pc = "child"
    BY <1>7 DEF PacketRuns
  <2>2. JailgunTime'
    BY <1>5, <2>1 DEF JailgunTime
  <2> QED BY <1>1, <1>3, <2>1, <2>2 DEF TimeInv, AtOnce, JekkoTime, ZyalTime
<1>8. CASE PacketTimesOut \/ PacketExits
  <2>1. now =< 10 * RetryDelay
    BY <1>8 DEF PacketTimesOut, PacketExits, TimeInv, JailgunTime
  <2>2. now' \in Nat /\ now' =< now + JailgunTimeout
    <3>1. CASE PacketTimesOut
      BY <1>1, <1>2, <3>1, LaterBound DEF PacketTimesOut
    <3>2. CASE PacketExits
      BY <1>1, <1>2, <3>2, WithinBound DEF PacketExits
    <3> QED BY <1>8, <3>1, <3>2
  <2>3. call'.pc = "ended"
    BY <1>8, FailedEnds DEF PacketTimesOut, PacketExits, Ended
  <2>4. now' =< Budget(order)
    BY <1>1, <1>2, <1>3, <2>1, <2>2
  <2> QED BY <1>1, <2>2, <2>3, <2>4, TimeEnds
<1> QED BY <1>4, <1>6, <1>7, <1>8


LEMMA BudgetIsNat == ASSUME NEW o \in WorkOrders PROVE Budget(o) \in Nat
<1>1. JekkoBudget(o.kind) \in Nat
  <2>1. JekkoDelay + JekkoTimeout \in Nat /\ MaxDetachedPolls \in Nat /\ JekkoTimeout \in Nat
    BY JekkoAssumption
  <2>2. MaxDetachedPolls * (JekkoDelay + JekkoTimeout) \in Nat
    BY <2>1
  <2> QED BY <2>1, <2>2 DEF JekkoBudget
<1>2. o.kind = "zyal" => ZyalBudget(o) \in Nat
  <2>1. MaxBusy * BusyDelay \in Nat
    BY ZyalAssumption
  <2> QED BY <2>1, ZyalAssumption, PollTimeoutAssumption DEF ZyalBudget
<1>3. JailgunBudget(o.kind) \in Nat
  BY JailgunAssumption DEF JailgunBudget, WaitBudget
<1> QED BY <1>1, <1>2, <1>3, LocalAssumption DEF Budget

LEMMA TimeInitInv == AdapterInit => TimeInv
<1> SUFFICES ASSUME AdapterInit PROVE TimeInv
  OBVIOUS
<1>1. order \in WorkOrders /\ now = 0 /\ call.pc = "idle"
  BY DEF AdapterInit
<1>2. Budget(order) \in Nat
  BY <1>1, BudgetIsNat
<1> QED BY <1>1, <1>2 DEF TimeInv, AtOnce, JekkoTime, ZyalTime, JailgunTime

LEMMA TimeStepInv == CallInv /\ TimeInv /\ [AdapterNext]_callVars => TimeInv'
<1> SUFFICES ASSUME CallInv, TimeInv, [AdapterNext]_callVars PROVE TimeInv'
  OBVIOUS
<1>1. CASE JobSettles \/ PhaseSettles \/ UNCHANGED callVars
  <2>1. UNCHANGED << order, now, call >>
    BY <1>1 DEF JobSettles, PhaseSettles, callVars
  <2>2. Budget(order)' = Budget(order)
    BY <2>1 DEF Budget
  <2> QED BY <2>1, <2>2 DEF TimeInv, JekkoTime, ZyalTime, Retries, JailgunTime
<1>2. CASE JailgunStep
  BY <1>2, RunTimes, WaitTimes, PacketTimes DEF JailgunStep
<1> QED BY <1>1, <1>2, LocalTime, JekkoTimes, ZyalTimes DEF AdapterNext, CallStep

(* A call ends within its budget, whatever is polled, retried and awaited  *)
(* twice, and before its lease runs out if the dispatcher gave it one.     *)
THEOREM CallsEndInTime == AdapterSpec => []EndsInTime
<1>1. TimeInv => EndsInTime
  <2> SUFFICES ASSUME TimeInv PROVE EndsInTime
    OBVIOUS
  <2>1. order \in WorkOrders /\ now \in Nat /\ now =< Budget(order) /\ Budget(order) \in Nat
    BY BudgetIsNat DEF TimeInv
  <2>2. HolderFor(order.kind) # None => Budget(order) < LeaseTtl
    BY <2>1, LeaseAssumption
  <2> QED BY <2>1, <2>2, TimeAssumption DEF EndsInTime
<1> QED BY <1>1, CallInitInv, CallStepInv, TimeInitInv, TimeStepInv, PTL DEF AdapterSpec

-----------------------------------------------------------------------------
(* What a report of a zyal run says of its phases.                         *)

LEMMA HundredPercent ==
    ASSUME NEW n \in Nat \ { 0 }, NEW k \in 0 .. n
    PROVE  (k * 100) \div n = 100 <=> k = n
<1>1. CASE k = n
  <2>1. (100 * n) \div n = 100
    OBVIOUS
  <2> QED BY <1>1, <2>1
<1>2. CASE k # n
  <2>1. k * 100 < 100 * n
    BY <1>2
  <2>2. (k * 100) \div n # 100
    BY <2>1
  <2> QED BY <1>2, <2>2
<1> QED BY <1>1, <1>2

LEMMA CompletedCounts ==
    ASSUME phases \in Seq(PhaseStates)
    PROVE  /\ Completed \in 0 .. Len(phases)
           /\ Completed = Len(phases) <=> AllPhases({ "complete" })
<1> DEFINE all  == 1 .. Len(phases)
           done == { i \in all : phases[i] = "complete" }
<1>1. Len(phases) \in Nat /\ DOMAIN phases = all /\ Completed = Cardinality(done)
  <2>1. Len(phases) \in Nat /\ DOMAIN phases = all
    OBVIOUS
  <2>2. { i \in DOMAIN phases : phases[i] = "complete" } = done
    BY <2>1
  <2> QED BY <2>1, <2>2 DEF Completed
<1>2. IsFiniteSet(all) /\ Cardinality(all) = Len(phases)
  BY <1>1, FS_Interval
<1>3. done \in SUBSET all
  OBVIOUS
<1>4. /\ IsFiniteSet(done) /\ Cardinality(done) =< Cardinality(all)
      /\ Cardinality(done) = Cardinality(all) => done = all
      /\ Cardinality(done) \in Nat
  <2> HIDE DEF all, done
  <2> QED BY <1>2, <1>3, FS_Subset, FS_CardinalityType
<1>5. done = all <=> AllPhases({ "complete" })
  BY <1>1 DEF AllPhases
<1>6. Completed \in Nat /\ Completed =< Len(phases)
  <2> HIDE DEF all, done
  <2> QED BY <1>1, <1>2, <1>4
<1>7. Completed = Len(phases) <=> done = all
  <2> HIDE DEF all, done
  <2> QED BY <1>1, <1>2, <1>4
<1> HIDE DEF all, done
<1> QED BY <1>1, <1>5, <1>6, <1>7

(* The report that is made of a snapshot agrees with it.                   *)
LEMMA ReportFromSnapshot ==
    ASSUME phases \in Seq(PhaseStates)
    PROVE  /\ StateLabel = "complete" <=> Percent = 100
           /\ StateLabel = "complete" => phases # << >> /\ AllPhases({ "complete" })
           /\ StateLabel \in { "failed", "blocked" } => SomePhase(StateLabel)
           /\ Terminal => StateLabel \notin { "partial", "unknown" }
<1>1. /\ Completed \in 0 .. Len(phases) /\ Len(phases) \in Nat
      /\ Completed = Len(phases) <=> AllPhases({ "complete" })
  BY CompletedCounts
<1>2. phases # << >> => Len(phases) \in Nat \ { 0 }
  OBVIOUS
<1>3. StateLabel = "complete" <=> phases # << >> /\ AllPhases({ "complete" })
  BY <1>1 DEF StateLabel, SomePhase, AllPhases
<1>4. Percent = 100 <=> phases # << >> /\ AllPhases({ "complete" })
  BY <1>1, <1>2, HundredPercent DEF Percent
<1>5. StateLabel \in { "failed", "blocked" } => SomePhase(StateLabel)
  BY DEF StateLabel
<1>6. Terminal => StateLabel \notin { "partial", "unknown" }
  BY <1>3 DEF Terminal, StateLabel, AllPhases, SomePhase, Settled
<1> QED BY <1>3, <1>4, <1>5, <1>6

(* A report stays true: what it says is of phases that are settled.        *)
ReportInv == phases \in Seq(PhaseStates) /\ ReportHonest

LEMMA NoReportYet ==
    ASSUME phases' \in Seq(PhaseStates), ~ Proven'
    PROVE  ReportInv'
BY DEF ReportInv, ReportHonest

LEMMA PhaseSettlesReport == ASSUME ReportInv, PhaseSettles PROVE ReportInv'
<1>1. PICK i \in DOMAIN phases, status \in Settled :
        /\ phases[i] = "pending"
        /\ phases' = [phases EXCEPT ![i] = status]
  BY DEF PhaseSettles
<1>2. /\ phases' \in Seq(PhaseStates) /\ DOMAIN phases' = DOMAIN phases
      /\ phases' # << >>
      /\ \A j \in DOMAIN phases : phases[j] # "pending" => phases'[j] = phases[j]
  BY <1>1 DEF ReportInv, Settled, PhaseStates
<1>3. ~ AllPhases({ "complete" })
  BY <1>1 DEF AllPhases
<1>4. \A label \in { "failed", "blocked" } : SomePhase(label) => SomePhase(label)'
  BY <1>2 DEF SomePhase
<1>5. UNCHANGED << call, order, now >> /\ (Proven <=> Proven')
  BY DEF PhaseSettles, Proven, HasEnded
<1> QED BY <1>2, <1>3, <1>4, <1>5 DEF ReportInv, ReportHonest

LEMMA StatusReport == ASSUME ReportInv, TimeInv, CallInv, Status PROVE ReportInv'
<1>1. /\ phases' = phases /\ order' = order /\ phases \in Seq(PhaseStates)
      /\ \E d \in Within(ChildTime) : now' = Later(d)
      /\ order.kind = "zyal" /\ order.pollTimeout \in Nat
      /\ call.since \in Nat /\ now \in Nat
  BY PollTimeoutAssumption DEF Status, ReportInv, CallInv, Belongs, TimeInv, ZyalTime
<1>2. now' \in Nat
  BY <1>1, WithinBound, ZyalAssumption
<1>3. CASE Terminal \/ now' - call.since >= order.pollTimeout
  <2>1. call' = ZyalEnded
    BY <1>3 DEF Status
  <2>2. call'.label = StateLabel /\ call'.percent = Percent
    BY <2>1 DEF ZyalEnded
  <2>3. Terminal \/ now' >= order.pollTimeout
    BY <1>1, <1>2, <1>3
  <2>4. AllPhases({ "complete" })' = AllPhases({ "complete" })
    BY <1>1 DEF AllPhases
  <2>5. \A label : SomePhase(label)' = SomePhase(label)
    BY <1>1 DEF SomePhase
  <2> QED BY <1>1, <2>2, <2>3, <2>4, <2>5, ReportFromSnapshot DEF ReportInv, ReportHonest
<1>4. CASE ~ (Terminal \/ now' - call.since >= order.pollTimeout)
  <2>1. call'.pc = "pause"
    BY <1>4 DEF Status
  <2> QED BY <1>1, <2>1, NoReportYet DEF Proven, HasEnded
<1> QED BY <1>3, <1>4

(* No other step of a call makes a report.                                 *)
LEMMA OtherZyalStep ==
    ASSUME CallInv, ReportInv, ZyalStep, ~ Status
    PROVE  ReportInv'
<1>1. phases' \in Seq(PhaseStates)
  <2>1. CASE RunBegins
    <3>1. PICK n \in 0 .. MaxPhases : phases' = [i \in 1 .. n |-> "pending"]
      BY <2>1 DEF RunBegins
    <3>2. n \in Nat
      BY <3>1, ZyalAssumption
    <3> QED BY <3>1, <3>2 DEF PhaseStates
  <2>2. RunBegins \/ UNCHANGED phases
    BY DEF ZyalStep, ManifestMissing, WriteManifest, WriteManifestFails, ChildBusy, ChildHangs,
       Submit, SubmitFails, StatusFails, Pause, NoRunBegins
  <2> QED BY <2>1, <2>2 DEF ReportInv
<1>2. call' = Failed \/ call'.pc # "ended"
  BY DEF CallInv, CallTyped, ZyalStep, ManifestMissing, WriteManifest, WriteManifestFails, ChildBusy, ChildHangs,
     Submit, SubmitFails, StatusFails, Pause
<1> QED BY <1>1, <1>2, NoReportYet DEF Proven, HasEnded, Failed, Ended

LEMMA OtherAdapters ==
    ASSUME CallInv, ReportInv, LocalStep \/ JekkoStep \/ JailgunStep
    PROVE  ReportInv'
<1>1. UNCHANGED << phases, order >>
  <2>1. CASE LocalStep
    BY <2>1 DEF LocalStep, Begin, JankuraiSpawn, JankuraiTimesOut, JankuraiExits, JeryuHealth,
       JeryuRunId, JeryuCi
  <2>2. CASE JekkoStep
    BY <2>2 DEF JekkoStep, Chat, WorkerRequest, WorkerUnanswered, WorkerAnswer, PollDetached
  <2>3. CASE JailgunStep
    BY <2>3 DEF JailgunStep, Prepare, StartRequest, StartUnanswered, StartAnswered, McpTurn,
       RestTurn, PacketPrepare, PacketBusy, PacketRuns, PacketTimesOut, PacketExits
  <2> QED BY <2>1, <2>2, <2>3
<1>2. CASE order.kind # "zyal"
  BY <1>1, <1>2 DEF ReportInv, ReportHonest
<1>3. CASE order.kind = "zyal"
  <2>1. ~ JekkoStep
    BY <1>3 DEF CallInv, Belongs, JekkoStep, Chat, WorkerRequest, WorkerUnanswered,
       WorkerAnswer, PollDetached
  <2>2. ~ JailgunStep
    BY <1>3 DEF CallInv, Belongs, JailgunStep, Prepare, StartRequest, StartUnanswered,
       StartAnswered, McpTurn, RestTurn, PacketPrepare, PacketBusy, PacketRuns,
       PacketTimesOut, PacketExits
  <2>3. LocalStep => Begin
    BY <1>3 DEF CallInv, Belongs, LocalStep, JankuraiSpawn, JankuraiTimesOut, JankuraiExits,
       JeryuHealth, JeryuRunId, JeryuCi
  <2>4. call' = Failed \/ (Route(order.kind) # "none" /\ call' = [pc |-> Route(order.kind)])
    BY <2>1, <2>2, <2>3 DEF Begin
  <2>5. Route(order.kind) \in AtOnce \cup { "none" }
    BY DEF Route, JekkoRoute, JailgunRoute, AtOnce
  <2> QED BY <1>1, <2>4, <2>5, NoReportYet DEF ReportInv, Proven, HasEnded, Failed, Ended, AtOnce
<1> QED BY <1>2, <1>3

LEMMA ReportStepInv == CallInv /\ TimeInv /\ ReportInv /\ [AdapterNext]_callVars => ReportInv'
<1> SUFFICES ASSUME CallInv, TimeInv, ReportInv, [AdapterNext]_callVars PROVE ReportInv'
  OBVIOUS
<1>1. CASE JobSettles \/ UNCHANGED callVars
  <2>1. UNCHANGED << order, now, call, phases >>
    BY <1>1 DEF JobSettles, callVars
  <2> QED BY <2>1 DEF ReportInv, ReportHonest, Proven, HasEnded, AllPhases, SomePhase
<1> QED BY <1>1, PhaseSettlesReport, StatusReport, OtherZyalStep, OtherAdapters
       DEF AdapterNext, CallStep

(* What the report of a zyal run says stays true of its phases, and the    *)
(* labels that say nothing is settled come only when the time is up.       *)
THEOREM ReportsAreHonest == AdapterSpec => []ReportHonest
<1>1. AdapterInit => ReportInv
  BY DEF AdapterInit, ReportInv, ReportHonest, Proven, HasEnded
<1>2. ReportInv => ReportHonest
  BY DEF ReportInv
<1> QED BY <1>1, <1>2, CallInitInv, CallStepInv, TimeInitInv, TimeStepInv, ReportStepInv,
       PTL DEF AdapterSpec

-----------------------------------------------------------------------------
(* Types: what a call remembers between its steps. *)

Calls == LocalCalls \cup JekkoCalls \cup ZyalCalls \cup JailgunCalls

CallShape == ~ HasEnded => call \in Calls

JobShape == job.status \in JobStates /\ { job.receipts, job.clean } \subseteq BOOLEAN

PhaseShape == phases \in Seq(PhaseStates) /\ Len(phases) =< MaxPhases

(* The clock is within its bound since the bound is beyond every budget.   *)
LEMMA ClockBounded ==
    ASSUME NEW o \in WorkOrders, NEW t \in Nat, t =< Budget(o)
    PROVE  t \in 0 .. MaxTime
<1>1. Budget(o) \in Nat /\ Budget(o) < MaxTime
  BY BudgetIsNat, BudgetAssumption
<1> QED BY <1>1, TimeAssumption

(* Where a call has locals it has those of its place.                      *)
LEMMA Locals ==
    ASSUME CallShape
    PROVE  /\ call.pc = "detached" =>
                call \in [pc : { "detached" }, polls : 0 .. MaxDetachedPolls - 1]
           /\ call.pc = "submit" => call \in [pc : { "submit" }, busy : 0 .. MaxBusy]
           /\ call.pc = "status" =>
                call \in [pc : { "status" }, busy : 0 .. MaxBusy, since : 0 .. MaxTime]
           /\ call.pc = "pause" => call \in [pc : { "pause" }, since : 0 .. MaxTime]
           /\ call.pc = "wait" =>
                call \in [pc : { "wait" }, channel : Channels, since : 0 .. MaxTime,
                          local : BOOLEAN]
           /\ call.pc \in { "review", "child" } =>
                call \in [pc : { "review", "child" }, attempt : 0 .. 4]
BY DEF CallShape, HasEnded, Calls, LocalCalls, JekkoCalls, ZyalCalls, JailgunCalls

LEMMA EndsShape == ASSUME call' = Failed \/ (\E kinds : call' = Ended(kinds)) PROVE CallShape'
BY DEF Failed, Ended, CallShape, HasEnded

LEMMA GoesShape == ASSUME call' \in Calls PROVE CallShape'
BY DEF CallShape, Calls, LocalCalls, JekkoCalls, ZyalCalls, JailgunCalls

LEMMA LocalShape == ASSUME LocalStep PROVE CallShape'
<1>1. CASE Begin
  <2>1. CASE call' = Failed
    BY <2>1, EndsShape
  <2>2. CASE call' = [pc |-> Route(order.kind)] /\ Route(order.kind) # "none"
    BY <2>2, GoesShape DEF Route, JekkoRoute, JailgunRoute, Calls, LocalCalls, JekkoCalls,
       ZyalCalls, JailgunCalls
  <2> QED BY <1>1, <2>1, <2>2 DEF Begin
<1>2. CASE JankuraiSpawn \/ JankuraiTimesOut \/ JankuraiExits
  BY <1>2, EndsShape, GoesShape DEF JankuraiSpawn, JankuraiTimesOut, JankuraiExits, Calls,
     LocalCalls
<1>3. CASE JeryuHealth \/ JeryuRunId \/ JeryuCi
  BY <1>3, EndsShape, GoesShape DEF JeryuHealth, JeryuRunId, JeryuCi, Calls, LocalCalls
<1> QED BY <1>1, <1>2, <1>3 DEF LocalStep

LEMMA JekkoShape == ASSUME CallShape, JekkoStep PROVE CallShape'
<1>1. ASSUME NEW status, Concludes(status) PROVE CallShape'
  BY <1>1, EndsShape DEF Concludes
<1>2. CASE Chat \/ WorkerRequest \/ WorkerUnanswered
  BY <1>2, EndsShape, GoesShape DEF Chat, WorkerRequest, WorkerUnanswered, Calls, JekkoCalls
<1>3. CASE WorkerAnswer
  <2>1. [pc |-> "detached", polls |-> 0] \in JekkoCalls
    BY JekkoAssumption DEF JekkoCalls
  <2> QED BY <1>1, <1>3, <2>1, GoesShape DEF WorkerAnswer, Calls
<1>4. CASE PollDetached
  <2>1. call \in [pc : { "detached" }, polls : 0 .. MaxDetachedPolls - 1]
    BY <1>4, Locals DEF PollDetached
  <2>2. call.polls + 1 # MaxDetachedPolls => [call EXCEPT !.polls = @ + 1] \in JekkoCalls
    BY <2>1, JekkoAssumption DEF JekkoCalls
  <2> QED BY <1>1, <1>4, <2>2, EndsShape, GoesShape DEF PollDetached, Calls
<1> QED BY <1>2, <1>3, <1>4 DEF JekkoStep

LEMMA ZyalShape ==
    ASSUME CallShape, ZyalStep, now' \in 0 .. MaxTime
    PROVE  CallShape'
<1>1. CASE ManifestMissing \/ WriteManifestFails \/ SubmitFails \/ StatusFails
  BY <1>1, EndsShape DEF ManifestMissing, WriteManifestFails, SubmitFails, StatusFails
<1>2. CASE WriteManifest \/ ChildHangs
  BY <1>2, GoesShape, ZyalAssumption DEF WriteManifest, ChildHangs, Calls, ZyalCalls
<1>3. CASE ChildBusy
  <2>1. \/ call \in [pc : { "submit" }, busy : 0 .. MaxBusy]
        \/ call \in [pc : { "status" }, busy : 0 .. MaxBusy, since : 0 .. MaxTime]
    BY <1>3, Locals DEF ChildBusy
  <2>2. call' \in ZyalCalls
    BY <1>3, <2>1, ZyalAssumption DEF ChildBusy, ZyalCalls
  <2> QED BY <2>2, GoesShape DEF Calls
<1>4. CASE Submit
  BY <1>4, GoesShape, ZyalAssumption DEF Submit, Calls, ZyalCalls
<1>5. CASE Status
  <2>1. CASE call' = ZyalEnded
    BY <2>1 DEF ZyalEnded, CallShape, HasEnded
  <2>2. CASE call' = [pc |-> "pause", since |-> call.since]
    BY <1>5, <2>2, Locals, GoesShape DEF Status, Calls, ZyalCalls
  <2> QED BY <1>5, <2>1, <2>2 DEF Status
<1>6. CASE Pause
  BY <1>6, Locals, GoesShape, ZyalAssumption DEF Pause, Calls, ZyalCalls
<1> QED BY <1>1, <1>2, <1>3, <1>4, <1>5, <1>6 DEF ZyalStep

LEMMA JailgunShape ==
    ASSUME CallShape, JailgunStep, now' \in 0 .. MaxTime
    PROVE  CallShape'
<1>1. ASSUME NEW local, TakeSummary(local) PROVE CallShape'
  BY <1>1, EndsShape DEF TakeSummary
<1>2. CASE Prepare \/ StartRequest \/ StartUnanswered \/ StartAnswered
  <2>1. CASE Prepare \/ StartRequest \/ StartUnanswered
    <3>1. \/ call' = Failed
          \/ call' = [pc |-> "start"]
          \/ \E accepted \in BOOLEAN : call' = [pc |-> "accepted", accepted |-> accepted]
      BY <2>1 DEF Prepare, StartRequest, StartUnanswered
    <3> QED BY <3>1, EndsShape, GoesShape DEF Calls, JailgunCalls
  <2>2. CASE StartAnswered
    <3>1. call' \in [pc : { "wait" }, channel : Channels, since : 0 .. MaxTime, local : BOOLEAN]
      BY <2>2 DEF StartAnswered
    <3> QED BY <3>1, GoesShape DEF Calls, JailgunCalls
  <2> QED BY <1>2, <2>1, <2>2
<1>3. CASE McpTurn \/ RestTurn
  <2>1. call \in [pc : { "wait" }, channel : Channels, since : 0 .. MaxTime, local : BOOLEAN]
    BY <1>3, Locals DEF McpTurn, RestTurn
  <2>2. ASSUME GoRest(call.local) PROVE CallShape'
    BY <2>1, <2>2, GoesShape DEF GoRest, Calls, JailgunCalls, Channels
  <2>3. ASSUME call' = call PROVE CallShape'
    BY <2>1, <2>3, GoesShape DEF Calls, JailgunCalls
  <2> QED BY <1>1, <1>3, <2>2, <2>3, EndsShape DEF McpTurn, McpFails, RestTurn, WaitOn
<1>4. CASE PacketPrepare \/ PacketTimesOut \/ PacketExits
  BY <1>4, EndsShape, GoesShape DEF PacketPrepare, PacketTimesOut, PacketExits, Calls,
     JailgunCalls
<1>5. CASE PacketBusy \/ PacketRuns
  <2>1. call \in [pc : { "review", "child" }, attempt : 0 .. 4]
    BY <1>5, Locals DEF PacketBusy, PacketRuns
  <2>2. call' = Failed \/ call' \in JailgunCalls
    BY <1>5, <2>1 DEF PacketBusy, Retry, PacketRuns, JailgunCalls
  <2> QED BY <2>2, EndsShape, GoesShape DEF Calls
<1> QED BY <1>2, <1>3, <1>4, <1>5 DEF JailgunStep

(* What a step does to the engine and to the temporary file.               *)
LEMMA EngineShape ==
    ASSUME CallInv, JobShape, PhaseShape, expires \in { -1, LeaseTtl },
           manifest \in { "absent", "partial", "whole" }, [AdapterNext]_callVars
    PROVE  /\ JobShape' /\ PhaseShape' /\ expires' \in { -1, LeaseTtl }
           /\ manifest' \in { "absent", "partial", "whole" }
<1>1. ASSUME NEW accounts, Begins(accounts) PROVE JobShape'
  BY <1>1 DEF Begins, JobShape, JobStates
<1>2. ASSUME RunBegins PROVE PhaseShape'
  <2>1. PICK n \in 0 .. MaxPhases : phases' = [i \in 1 .. n |-> "pending"]
    BY <1>2 DEF RunBegins
  <2>2. phases' \in [1 .. n -> PhaseStates] /\ n \in Nat /\ n =< MaxPhases
    BY <2>1, ZyalAssumption DEF PhaseStates
  <2> QED BY <2>2, SeqDef DEF PhaseShape
<1>3. ASSUME UNCHANGED << job, phases, expires, manifest >>
      PROVE  /\ JobShape' /\ PhaseShape' /\ expires' \in { -1, LeaseTtl }
             /\ manifest' \in { "absent", "partial", "whole" }
  BY <1>3 DEF JobShape, PhaseShape
<1>4. CASE LocalStep
  BY <1>1, <1>3, <1>4 DEF LocalStep, Begin, JankuraiSpawn, JankuraiTimesOut, JankuraiExits,
     JeryuHealth, JeryuRunId, JeryuCi, NothingBegins, PhaseShape
<1>5. CASE JekkoStep
  BY <1>1, <1>3, <1>5 DEF JekkoStep, Chat, WorkerRequest, WorkerUnanswered, WorkerAnswer,
     PollDetached, NothingBegins, PhaseShape
<1>6. CASE ZyalStep
  <2>1. expires' = expires /\ job' = job
    BY <1>6 DEF ZyalStep, ManifestMissing, WriteManifest, WriteManifestFails, ChildBusy,
       ChildHangs, Submit, SubmitFails, Status, StatusFails, Pause
  <2>2. manifest' \in { manifest, "absent", "partial", "whole" }
    BY <1>6 DEF ZyalStep, ManifestMissing, WriteManifest, WriteManifestFails, ChildBusy,
       ChildHangs, Submit, SubmitFails, Status, StatusFails, Pause, Removed
  <2>3. phases' = phases \/ RunBegins
    BY <1>6 DEF ZyalStep, ManifestMissing, WriteManifest, WriteManifestFails, ChildBusy,
       ChildHangs, Submit, SubmitFails, Status, StatusFails, Pause, NoRunBegins
  <2> QED BY <1>2, <2>1, <2>2, <2>3 DEF JobShape, PhaseShape
<1>7. CASE JailgunStep
  BY <1>1, <1>3, <1>7 DEF JailgunStep, Prepare, StartRequest, StartUnanswered, StartAnswered,
     McpTurn, RestTurn, PacketPrepare, PacketBusy, PacketRuns, PacketTimesOut, PacketExits,
     NothingBegins, PhaseShape
<1>8. CASE JobSettles
  BY <1>8 DEF JobSettles, JobShape, JobStates, PhaseShape, CallInv, JobTyped
<1>9. CASE PhaseSettles
  <2>1. PICK i \in DOMAIN phases, status \in Settled : phases' = [phases EXCEPT ![i] = status]
    BY <1>9 DEF PhaseSettles
  <2>2. phases' \in Seq(PhaseStates) /\ Len(phases') = Len(phases)
    BY <2>1 DEF PhaseShape, Settled, PhaseStates
  <2> QED BY <1>9, <2>2 DEF PhaseSettles, PhaseShape, JobShape
<1>10. CASE UNCHANGED callVars
  BY <1>3, <1>10 DEF callVars
<1> QED BY <1>4, <1>5, <1>6, <1>7, <1>8, <1>9, <1>10 DEF AdapterNext, CallStep

LEMMA TypeInit == AdapterInit => AdapterTypeOK
<1> SUFFICES ASSUME AdapterInit PROVE AdapterTypeOK
  OBVIOUS
<1>1. phases \in Seq(PhaseStates) /\ Len(phases) =< MaxPhases
  BY ZyalAssumption DEF AdapterInit
<1>2. call \in LocalCalls
  BY DEF AdapterInit, LocalCalls
<1> QED BY <1>1, <1>2, TimeAssumption DEF AdapterInit, AdapterTypeOK, NewJob, JobStates

LEMMA TypeStep ==
    CallInv /\ TimeInv /\ AdapterTypeOK /\ [AdapterNext]_callVars => AdapterTypeOK'
<1> SUFFICES ASSUME CallInv, TimeInv, AdapterTypeOK, [AdapterNext]_callVars
             PROVE  AdapterTypeOK'
  OBVIOUS
<1>1. CallInv' /\ TimeInv'
  BY CallStepInv, TimeStepInv
<1>2. now' \in 0 .. MaxTime /\ order' \in WorkOrders /\ starts' \in Nat
  <2>1. order' \in WorkOrders /\ now' \in Nat /\ now' =< Budget(order')
    BY <1>1 DEF TimeInv
  <2>2. now' \in 0 .. MaxTime
    BY <2>1, ClockBounded
  <2> QED BY <1>1, <2>1, <2>2 DEF CallInv, StartInv
<1>3. CallShape /\ JobShape /\ PhaseShape
  BY DEF AdapterTypeOK, CallShape, JobShape, PhaseShape, Calls
<1>4. CallShape'
  <2>1. CASE UNCHANGED call
    BY <1>3, <2>1 DEF CallShape, HasEnded
  <2>2. CASE CallStep
    BY <1>2, <1>3, <2>2, LocalShape, JekkoShape, ZyalShape, JailgunShape DEF CallStep
  <2> QED BY <2>1, <2>2 DEF AdapterNext, JobSettles, PhaseSettles, callVars
<1>5. /\ JobShape' /\ PhaseShape' /\ expires' \in { -1, LeaseTtl }
      /\ manifest' \in { "absent", "partial", "whole" }
  BY <1>3, EngineShape DEF AdapterTypeOK
<1> QED BY <1>2, <1>4, <1>5 DEF AdapterTypeOK, CallShape, JobShape, PhaseShape, Calls

(* Every variable keeps its type: the locals of a call are those of its    *)
(* place, its polls and retries stay below their bounds, and the clock     *)
(* below its own.                                                          *)
THEOREM AdapterTypesHold == AdapterSpec => []AdapterTypeOK
BY CallInitInv, CallStepInv, TimeInitInv, TimeStepInv, TypeInit, TypeStep, PTL DEF AdapterSpec
=============================================================================
