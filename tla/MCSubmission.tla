---------------------------- MODULE MCSubmission ----------------------------
(***************************************************************************)
(* Two processes that may ask for anything the routes take: the whole      *)
(* catalogue with overrides all entries accept, and with overrides only    *)
(* the first five do; single microtasks and actions at and beyond their    *)
(* caps; envelopes of another process, as signed and changed on the way.   *)
(***************************************************************************)
EXTENDS Submission, TLC

CONSTANTS l1, l2, s1, s2, s3, sent

MCLoaders == { l1, l2 }
MCSeeds   == { s1, s2, s3 }

Batch(overrides)         == [kind |-> "batch", id |-> "repo-bank-bug-scan", overrides |-> overrides]
OneMicrotask(id, overrides) == [kind |-> "microtask", id |-> id, overrides |-> overrides]
OneAction(id, overrides)    == [kind |-> "action", id |-> id, overrides |-> overrides]

Scan == "research.concept-scan"

MCRequests ==
    { Batch(NoOverrides),
      Batch([NoOverrides EXCEPT !.stages = 2]),
      OneMicrotask(Scan, [NoOverrides EXCEPT !.stages = 2, !.timeout = 900, !.repo = "other"]),
      OneMicrotask(Scan, [NoOverrides EXCEPT !.timeout = 901]),
      OneMicrotask(Scan, [NoOverrides EXCEPT !.stages = 0]),
      OneMicrotask("router.open-model-reasoning-survey", [NoOverrides EXCEPT !.network = TRUE]),
      OneMicrotask("nothing", NoOverrides),
      OneAction("repo-bank-bug-scan", [NoActionOverrides EXCEPT !.stages = 1]),
      OneAction("repo-bank-bug-scan", [NoActionOverrides EXCEPT !.hours = 0]),
      OneAction("repo-bank-bug-scan", [NoActionOverrides EXCEPT !.live = TRUE]) }
    \cup { [kind |-> "envelope", payload |-> sent, alter |-> how] : how \in Alterations }

(* The bound of this instance: two whole batches beside each other are     *)
(* followed up to their sixth order.  A batch beside any other request is  *)
(* followed to its end.                                                    *)
TwoBatchesBounded ==
    (\A r \in MCLoaders : req[r] # New /\ req[r].ask = Batch(NoOverrides))
        => Len(queue) =< 6

Symmetry == Permutations(MCLoaders) \cup Permutations(MCSeeds)
=============================================================================
