----------------------------- MODULE ApprovalGate -----------------------------
(***************************************************************************)
(* What the approval machinery of JMCP promises, without tokens, tables,   *)
(* transactions or locks.                                                  *)
(*                                                                         *)
(* A work order has a gate.  Somebody opens it; approvers are then granted *)
(* a window each, with a deadline that is fixed once and for all; and the  *)
(* gate is decided at most once, while at least one window is still open.  *)
(***************************************************************************)
EXTENDS Integers

CONSTANTS Orders, Approvers,
          Deadlines   \* the instants a window may end at

VARIABLES clock,     \* the wall clock
          gate,      \* gate[w]: where the order stands
          windows    \* rows <<w, a, e>>: approver a may decide w up to instant e

gateVars == << clock, gate, windows >>

GateStates == { "shut", "open", "granted", "refused" }

TypeOK ==
    /\ clock \in Nat
    /\ gate \in [Orders -> GateStates]
    /\ windows \subseteq (Orders \X Approvers \X Deadlines)

Init ==
    /\ clock = 0
    /\ gate = [w \in Orders |-> "shut"]
    /\ windows = {}

Open(w) ==
    /\ gate[w] = "shut"
    /\ gate' = [gate EXCEPT ![w] = "open"]
    /\ UNCHANGED << clock, windows >>

Grant(w, a) ==
    /\ gate[w] = "open"
    /\ ~ \E x \in windows : x[1] = w /\ x[2] = a
    /\ \E e \in Deadlines : windows' = windows \cup { << w, a, e >> }
    /\ UNCHANGED << clock, gate >>

Decide(w, verdict) ==
    /\ gate[w] = "open"
    /\ \E x \in windows : x[1] = w /\ clock =< x[3]
    /\ gate' = [gate EXCEPT ![w] = verdict]
    /\ UNCHANGED << clock, windows >>

Tick ==
    /\ clock' = clock + 1
    /\ UNCHANGED << gate, windows >>

Next ==
    \/ \E w \in Orders : Open(w)
    \/ \E w \in Orders, a \in Approvers : Grant(w, a)
    \/ \E w \in Orders, verdict \in { "granted", "refused" } : Decide(w, verdict)
    \/ Tick

Spec == Init /\ [][Next]_gateVars
=============================================================================
