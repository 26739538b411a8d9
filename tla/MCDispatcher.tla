----------------------------- MODULE MCDispatcher -----------------------------
(* Dispatcher on small instances: microtasks the loop generates for one    *)
(* repository, microtasks and other orders that people submit, one         *)
(* approver, and one challenge that may be asked for on any of them.       *)
EXTENDS Dispatcher, TLC

CONSTANTS auto1, auto2,    \* microtasks the loop generates
          byHand,          \* a microtask somebody submits over HTTP
          unowned,         \* one whose kind no adapter owns
          live,            \* a microtask submitted with live = true
          c1,              \* a challenge id
          local,           \* the approver, and the actor who speaks for it
          repo, elsewhere  \* repositories

Micro == [microtask |-> TRUE, evidence_oriented |-> TRUE, live |-> FALSE,
          routed |-> TRUE, repo |-> repo]

MCPayload ==
    (auto1 :> Micro) @@ (auto2 :> Micro)
    @@ (byHand  :> [Micro EXCEPT !.repo = elsewhere])
    @@ (unowned :> [Micro EXCEPT !.repo = elsewhere, !.routed = FALSE])
    @@ (live    :> [Micro EXCEPT !.repo = elsewhere, !.live = TRUE])

OnlyOrders(set)  == [w \in set |-> MCPayload[w]]

SafetyOrders     == { auto1, auto2, live }
SafetyPayload    == OnlyOrders(SafetyOrders)
SafetyManual     == { live }
AllFaults        == { "store", "replay" }

ProgressOrders   == { auto1, byHand, unowned }
ProgressPayload  == OnlyOrders(ProgressOrders)
ProgressManual   == { byHand, unowned }
NoFaults         == { }
NoOrders         == { }

OneOrder         == { auto1 }
OnePayload       == OnlyOrders(OneOrder)
ReplayOnly       == { "replay" }

MCRepos          == { repo, elsewhere }
MCWatched        == { repo }
MCApprovers      == { local }
MCActors         == { local }
MCApproverOf     == local :> local
MCTokens         == { c1 }
MCTTLs           == { 1 }

(* The bound of the safety run: when the process has been killed and the   *)
(* tables have been rebuilt, the clock does not move any further.          *)
CrashOrRebuildInTime == crashes = 0 \/ ~ rebuilt \/ now < MaxTime

(* The two generated microtasks are interchangeable for the safety run.    *)
MCSymmetry       == Permutations({ auto1, auto2 })
=============================================================================
