------------------------------ MODULE KeyStore ------------------------------
(***************************************************************************)
(* LocalSigner::load_or_create (crates/jcp-core/src/lib.rs): the signing   *)
(* key of a machine is a file that whoever needs it first creates.  Every  *)
(* request of the daemon and every command line tool loads it anew, and    *)
(* they may do so at once: a loader that finds no file draws a seed, writes*)
(* it to a temporary file named after the seed, hard-links that file to the*)
(* key's path, removes it, and reads whatever the path holds then.         *)
(*                                                                         *)
(* Any step on the file system may fail, and a load may be cut off         *)
(* anywhere.  A loader is one of the loads under way; a daemon that dies   *)
(* cuts off all of its own, one Die each.                                  *)
(***************************************************************************)
EXTENDS Naturals, FiniteSets

CONSTANTS
    Loaders,   \* everybody who ever loads the key
    Seeds,     \* what the random generator may draw, each drawn once
    MaxFaults, \* bound on failed steps and on loads cut off
    None,      \* no file
    Garbled    \* a file that holds no seed

ASSUME SeedsAssumption == None \notin Seeds /\ Garbled \notin Seeds /\ None # Garbled
ASSUME FaultsAssumption == MaxFaults \in Nat

VARIABLES
    key,     \* the file at the key's path
    temp,    \* the temporary file of each seed
    drawn,   \* history: the seeds that were drawn
    load,    \* where each loader is
    used,    \* history: the seeds signers were made of
    faults   \* history: failed steps and loads cut off

keyVars == << key, temp, drawn, load, used, faults >>

Whole == "whole"

LoadStates ==
    [pc : { "idle", "look", "draw", "read", "failed" }] \cup
    [pc : { "create", "write", "link" }, seed : Seeds] \cup
    [pc : { "unlink" }, seed : Seeds, linked : { "won", "lost", "error" }] \cup
    [pc : { "loaded" }, seed : Seeds]

KeyTypeOK ==
    /\ key \in Seeds \cup { None, Garbled }
    /\ temp \in [Seeds -> { "absent", "partial", Whole }]
    /\ drawn \subseteq Seeds
    /\ load \in [Loaders -> LoadStates]
    /\ used \subseteq Seeds
    /\ faults \in 0 .. MaxFaults

(* The file may be there already, of an earlier life or another tool.      *)
KeyInit ==
    /\ key \in Seeds \cup { None, Garbled }
    /\ temp = [s \in Seeds |-> "absent"]
    /\ drawn = {}
    /\ load = [l \in Loaders |-> [pc |-> "idle"]]
    /\ used = {}
    /\ faults = 0

-----------------------------------------------------------------------------
Goes(l, state) == load' = [load EXCEPT ![l] = state]

Fault == faults < MaxFaults /\ faults' = faults + 1

StartLoad(l) ==
    /\ load[l].pc = "idle"
    /\ Goes(l, [pc |-> "look"])
    /\ UNCHANGED << key, temp, drawn, used, faults >>

Look(l) ==
    /\ load[l].pc = "look"
    /\ Goes(l, [pc |-> IF key = None THEN "draw" ELSE "read"])
    /\ UNCHANGED << key, temp, drawn, used, faults >>

(* A random seed is nobody else's.                                         *)
Draw(l) ==
    /\ load[l].pc = "draw"
    /\ \E s \in Seeds \ (drawn \cup { key }) :
         /\ drawn' = drawn \cup { s }
         /\ Goes(l, [pc |-> "create", seed |-> s])
    /\ UNCHANGED << key, temp, used, faults >>

(* write_secret: the file is created, then filled.                         *)
CreateTemp(l) ==
    /\ load[l].pc = "create"
    /\ temp' = [temp EXCEPT ![load[l].seed] = "partial"]
    /\ Goes(l, [pc |-> "write", seed |-> load[l].seed])
    /\ UNCHANGED << key, drawn, used, faults >>

WriteTemp(l) ==
    /\ load[l].pc = "write"
    /\ temp' = [temp EXCEPT ![load[l].seed] = Whole]
    /\ Goes(l, [pc |-> "link", seed |-> load[l].seed])
    /\ UNCHANGED << key, drawn, used, faults >>

Unlinking(l, linked) == [pc |-> "unlink", seed |-> load[l].seed, linked |-> linked]

(* A slip: the file is renamed into place, over what is there.             *)
LinkReplacing(l) ==
    /\ load[l].pc = "link"
    /\ key' = load[l].seed
    /\ Goes(l, Unlinking(l, "won"))
    /\ UNCHANGED << temp, drawn, used, faults >>

(* hard_link: the first writer wins.  By now the temporary file is whole.  *)
Link(l) ==
    /\ load[l].pc = "link"
    /\ key' = IF key = None THEN load[l].seed ELSE key
    /\ Goes(l, Unlinking(l, IF key = None THEN "won" ELSE "lost"))
    /\ UNCHANGED << temp, drawn, used, faults >>

LinkFails(l) ==
    /\ Fault
    /\ load[l].pc = "link"
    /\ Goes(l, Unlinking(l, "error"))
    /\ UNCHANGED << key, temp, drawn, used >>

(* A slip: only the winner cleans up.                                      *)
UnlinkIfWon(l) ==
    /\ load[l].pc = "unlink"
    /\ temp' = [temp EXCEPT ![load[l].seed] =
                  IF load[l].linked = "won" THEN "absent" ELSE @]
    /\ Goes(l, [pc |-> IF load[l].linked = "error" /\ key = None
                       THEN "failed" ELSE "read"])
    /\ UNCHANGED << key, drawn, used, faults >>

(* remove_file, whose failure nobody looks at; then the look at how the    *)
(* link went: an error counts only if there is still nothing at the path.  *)
Unlink(l) ==
    /\ load[l].pc = "unlink"
    /\ \/ temp' = [temp EXCEPT ![load[l].seed] = "absent"] /\ UNCHANGED faults
       \/ Fault /\ UNCHANGED temp
    /\ Goes(l, [pc |-> IF load[l].linked = "error" /\ key = None
                       THEN "failed" ELSE "read"])
    /\ UNCHANGED << key, drawn, used >>

(* The file is read and decoded.                                           *)
Read(l) ==
    /\ load[l].pc = "read"
    /\ IF key \in Seeds
         THEN used' = used \cup { key } /\ Goes(l, [pc |-> "loaded", seed |-> key])
         ELSE used' = used /\ Goes(l, [pc |-> "failed"])
    /\ UNCHANGED << key, temp, drawn, faults >>

(* Any other step on the file system fails; its error ends the load at     *)
(* once, and a temporary file that was begun stays.                        *)
StepFails(l) ==
    /\ Fault
    /\ load[l].pc \in { "draw", "create", "write", "read" }
    /\ Goes(l, [pc |-> "failed"])
    /\ UNCHANGED << key, temp, drawn, used >>

LoadStep(l) ==
    \/ Look(l) \/ Draw(l) \/ CreateTemp(l) \/ WriteTemp(l) \/ Link(l)
    \/ LinkFails(l) \/ Unlink(l) \/ Read(l) \/ StepFails(l)

(* The caller has what it asked for, or its error.                         *)
EndLoad(l) ==
    /\ load[l].pc \in { "loaded", "failed" }
    /\ Goes(l, [pc |-> "idle"])
    /\ UNCHANGED << key, temp, drawn, used, faults >>

(* The process dies, with this load under way.                             *)
Die(l) ==
    /\ Fault
    /\ load[l].pc # "idle"
    /\ Goes(l, [pc |-> "idle"])
    /\ UNCHANGED << key, temp, drawn, used >>

KeyNext ==
    \E l \in Loaders : StartLoad(l) \/ LoadStep(l) \/ EndLoad(l) \/ Die(l)

KeySpec == KeyInit /\ [][KeyNext]_keyVars

-----------------------------------------------------------------------------
(* Properties. *)

(* All signers anybody was ever given are made of one seed, so that what   *)
(* one process signs another accepts, however many of them created the key *)
(* at once, were cut off or lost the race: "a seed that flips mid-run".    *)
SignersAgree == \A s, t \in used : s = t

(* The seed is a secret: the temporary files that hold it go away, but for *)
(* one per failed step or load cut off, and those of loads under way.      *)
TempsAccounted ==
    LET held == { load[l].seed : l \in { k \in Loaders :
                    load[k].pc \in { "write", "link", "unlink" } } }
    IN  Cardinality({ s \in Seeds \ held : temp[s] # "absent" }) =< faults
=============================================================================
