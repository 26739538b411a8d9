----------------------------- MODULE Microtasks -----------------------------
(***************************************************************************)
(* What the microtask catalogue and the autonomous actions                 *)
(* (crates/jmcp-app/src/microtasks.rs, autonomous_actions.rs) make of an   *)
(* id and of the overrides that come with it: the payload of a work order, *)
(* or a refusal.  There is no state here.                                  *)
(*                                                                         *)
(* Budgets in hours are counted in half hours.                             *)
(***************************************************************************)
EXTENDS Integers, Sequences

CONSTANTS None, Refused

Microtask(id, stages, timeout, repo, concept, roots) ==
    [id |-> id, stages |-> stages, timeout |-> timeout,
     repo |-> IF repo THEN "." ELSE None,
     concept |-> IF concept THEN "default" ELSE None, roots |-> roots]

(* MICROTASKS.                                                             *)
Catalogue == <<
    Microtask("jankurai.repo-refresh-audit",        2, 600, TRUE,  FALSE, FALSE),
    Microtask("jankurai.changed-path-audit",        2, 600, TRUE,  FALSE, FALSE),
    Microtask("research.concept-scan",              2, 900, FALSE, TRUE,  FALSE),
    Microtask("router.tool-build-probe",            2, 900, TRUE,  FALSE, FALSE),
    Microtask("router.open-model-reasoning-survey", 2, 900, FALSE, TRUE,  TRUE),
    Microtask("local-model.inventory-20b-30b",      1, 600, FALSE, FALSE, TRUE),
    Microtask("local-speech.inventory-asr-tts",     1, 600, FALSE, FALSE, FALSE) >>

(* ACTIONS: the caps are the same for all of them.                         *)
ActionIds  ==
    { "repo-bank-bug-scan", "harden-jekko-with-jailgun", "cache-reduction-validity-check" }
ActionCaps == [stages |-> 4, hours |-> 1, phase_timeout |-> 600, poll_timeout |-> 1800]

(* microtask_by_id.                                                        *)
Known(id)        == \E i \in DOMAIN Catalogue : Catalogue[i].id = id
DefinitionOf(id) == Catalogue[CHOOSE i \in DOMAIN Catalogue : Catalogue[i].id = id]

(* No override of anything.                                                *)
NoOverrides ==
    [live |-> None, network |-> None, gpu |-> None, durable |-> None,
     stages |-> None, timeout |-> None, repo |-> None, concept |-> None, root |-> None]

NoActionOverrides ==
    [live |-> None, stages |-> None, hours |-> None, phase_timeout |-> None,
     poll_timeout |-> None]

-----------------------------------------------------------------------------
Given(value, default) == IF value = None THEN default ELSE value

(* reject_guarded_true.                                                    *)
Unguarded(o) == TRUE \notin { o.live, o.network, o.gpu, o.durable }

(* A slip: zero is within the bounds.                                      *)
BoundedOrZero(value, cap) == value = None \/ value =< cap

(* bounded_u32, bounded_u64, bounded_f64.                                  *)
Bounded(value, cap) == value = None \/ (0 < value /\ value =< cap)

(* microtask_model_roots: the roots of the machine unless one is given.    *)
RootsFor(definition, root) ==
    IF definition.roots THEN Given(root, "local") ELSE None

(* microtask_payload.                                                      *)
MicrotaskPayload(definition, o, parent) ==
    IF /\ Unguarded(o)
       /\ Bounded(o.stages, definition.stages)
       /\ Bounded(o.timeout, definition.timeout)
    THEN [task    |-> "microtask",
          id      |-> definition.id,
          parent  |-> parent,
          live    |-> FALSE, network |-> FALSE, gpu |-> FALSE, durable |-> FALSE,
          stages  |-> Given(o.stages, definition.stages),
          timeout |-> Given(o.timeout, definition.timeout),
          repo    |-> Given(o.repo, definition.repo),
          concept |-> Given(o.concept, definition.concept),
          roots   |-> RootsFor(definition, o.root)]
    ELSE Refused

(* action_payload.                                                         *)
ActionPayload(id, o) ==
    IF /\ id \in ActionIds
       /\ o.live # TRUE
       /\ \A field \in DOMAIN ActionCaps : Bounded(o[field], ActionCaps[field])
    THEN [task |-> "action", id |-> id, live |-> FALSE,
          caps |-> [field \in DOMAIN ActionCaps |-> Given(o[field], ActionCaps[field])]]
    ELSE Refused

(* A slip: entries that refuse the overrides are left out.                 *)
BatchPayloadsOfWilling(action, o) ==
    LET all == [i \in DOMAIN Catalogue |-> MicrotaskPayload(Catalogue[i], o, action)]
    IN  SelectSeq(all, LAMBDA payload : payload # Refused)

(* queue_autonomous_action_microtasks, its first half: one payload for     *)
(* every entry of the catalogue, none at all if one refuses.               *)
BatchPayloads(action, o) ==
    LET all == [i \in DOMAIN Catalogue |-> MicrotaskPayload(Catalogue[i], o, action)]
    IN  IF action \in ActionIds /\ \A i \in DOMAIN all : all[i] # Refused
        THEN all ELSE << >>
=============================================================================
