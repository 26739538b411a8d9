-------------------------------- MODULE Intake --------------------------------
(***************************************************************************)
(* What the ways into the store promise, without keys, envelopes, files    *)
(* or failures.                                                            *)
(*                                                                         *)
(* A client asks once, for a list of work orders.  The list is sealed as a *)
(* whole; from then on its entries enter the store, one at a time and in   *)
(* their order, among those of other clients, up to whatever point.        *)
(***************************************************************************)
EXTENDS Naturals, Sequences

CONSTANTS Clients,
          Wishes    \* the lists somebody may ask for

VARIABLES asked,    \* the list of every client that has asked
          entered,  \* how many of its entries have entered the store
          sealed,   \* the clients whose list was sealed
          stored    \* what has entered, as it came

intakeVars == << asked, entered, sealed, stored >>

Init ==
    /\ asked = [c \in {} |-> << >>]
    /\ entered = [c \in {} |-> 0]
    /\ sealed = {}
    /\ stored = << >>

With(f, c, value) == [d \in DOMAIN f \cup { c } |-> IF d = c THEN value ELSE f[d]]

Ask(c) ==
    /\ c \notin DOMAIN asked
    /\ \E wish \in Wishes : asked' = With(asked, c, wish)
    /\ entered' = With(entered, c, 0)
    /\ UNCHANGED << sealed, stored >>

Seal(c) ==
    /\ c \in DOMAIN asked
    /\ entered[c] = 0
    /\ sealed' = sealed \cup { c }
    /\ UNCHANGED << asked, entered, stored >>

Enter(c) ==
    /\ c \in sealed
    /\ entered[c] < Len(asked[c])
    /\ stored' = Append(stored, [by |-> c, payload |-> asked[c][entered[c] + 1]])
    /\ entered' = With(entered, c, entered[c] + 1)
    /\ UNCHANGED << asked, sealed >>

Next == \E c \in Clients : Ask(c) \/ Seal(c) \/ Enter(c)

Spec == Init /\ [][Next]_intakeVars
=============================================================================
