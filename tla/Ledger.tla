-------------------------------- MODULE Ledger --------------------------------
(***************************************************************************)
(* What the store and its rebuild promise of work orders, without a log,   *)
(* transactions or locks.                                                  *)
(*                                                                         *)
(* The ledger has two columns.  A change of an order is entered in both; a *)
(* mark, which a worker makes of its own progress, in the first only; and  *)
(* what joins an order without changing it, in the second only.  A         *)
(* restoration takes the first column back to the second, for all orders   *)
(* at once.                                                                *)
(***************************************************************************)
CONSTANTS Orders,
          States,   \* what may be entered for an order
          Absent,   \* the state of an order nobody has entered
          Joins     \* pairs: what a state becomes when something joins it

VARIABLES status,   \* what readers are told of each order
          recorded  \* what a restoration would make of it

ledgerVars == << status, recorded >>

Init ==
    /\ status = [w \in Orders |-> Absent]
    /\ recorded = [w \in Orders |-> Absent]

Change(w, s) ==
    /\ status' = [status EXCEPT ![w] = s]
    /\ recorded' = [recorded EXCEPT ![w] = s]

Mark(w, s) ==
    /\ status' = [status EXCEPT ![w] = s]
    /\ UNCHANGED recorded

Join(w, s) ==
    /\ << recorded[w], s >> \in Joins
    /\ recorded' = [recorded EXCEPT ![w] = s]
    /\ UNCHANGED status

Restore ==
    /\ status' = recorded
    /\ UNCHANGED recorded

Next ==
    \/ \E w \in Orders, s \in States : Change(w, s) \/ Mark(w, s) \/ Join(w, s)
    \/ Restore

Spec == Init /\ [][Next]_ledgerVars
=============================================================================
