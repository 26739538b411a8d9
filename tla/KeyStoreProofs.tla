---------------------------- MODULE KeyStoreProofs ----------------------------
(***************************************************************************)
(* Theorems about KeyStore, for every set of loaders and seeds and every   *)
(* number of faults.                                                       *)
(*                                                                         *)
(* That all signers agree is not inductive: a signer is made of what the   *)
(* file holds now, and the others of what it held then.  KeyIsForGood says *)
(* what ties the two: the file, once there, is never replaced.             *)
(***************************************************************************)
EXTENDS KeyStore, FiniteSetTheorems, TLAPS

(* Every signer so far is made of the seed the file holds now, and there   *)
(* is none while the file holds no seed.                                   *)
KeyIsForGood == \A s \in used : s = key

KeyInv == KeyTypeOK /\ KeyIsForGood

-----------------------------------------------------------------------------
(* The shape of a loader's state, by where it is.                          *)
LEMMA LoaderShape ==
    ASSUME KeyTypeOK, NEW l \in Loaders
    PROVE  /\ load[l] \in LoadStates
           /\ load[l].pc \in { "create", "write", "link", "unlink", "loaded" } =>
                load[l].seed \in Seeds
           /\ load[l].pc = "unlink" =>
                /\ load[l].linked \in { "won", "lost", "error" }
                /\ load[l] = [pc |-> "unlink", seed |-> load[l].seed, linked |-> load[l].linked]
BY DEF KeyTypeOK, LoadStates

LEMMA GoesIsTyped ==
    ASSUME KeyTypeOK, NEW l \in Loaders, NEW state \in LoadStates, Goes(l, state)
    PROVE  load' \in [Loaders -> LoadStates]
BY DEF KeyTypeOK, Goes

LEMMA FaultIsTyped ==
    ASSUME KeyTypeOK, Fault
    PROVE  faults' \in 0 .. MaxFaults
BY FaultsAssumption DEF KeyTypeOK, Fault

(* The initial states.                                                     *)
LEMMA KeyInitInv == KeyInit => KeyInv
BY FaultsAssumption DEF KeyInit, KeyInv, KeyTypeOK, KeyIsForGood, LoadStates

-----------------------------------------------------------------------------
(* One lemma for each step. *)

LEMMA StartLoadInv ==
    ASSUME KeyInv, NEW l \in Loaders, StartLoad(l)
    PROVE  KeyInv'
<1>1. [pc |-> "look"] \in LoadStates
  BY DEF LoadStates
<1> QED BY <1>1, GoesIsTyped DEF StartLoad, KeyInv, KeyTypeOK, KeyIsForGood

LEMMA LookInv ==
    ASSUME KeyInv, NEW l \in Loaders, Look(l)
    PROVE  KeyInv'
<1>1. [pc |-> IF key = None THEN "draw" ELSE "read"] \in LoadStates
  BY DEF LoadStates
<1> QED BY <1>1, GoesIsTyped DEF Look, KeyInv, KeyTypeOK, KeyIsForGood

LEMMA DrawInv ==
    ASSUME KeyInv, NEW l \in Loaders, Draw(l)
    PROVE  KeyInv'
<1>1. PICK s \in Seeds : drawn' = drawn \cup { s } /\ Goes(l, [pc |-> "create", seed |-> s])
  BY DEF Draw
<1>2. [pc |-> "create", seed |-> s] \in LoadStates
  BY DEF LoadStates
<1>3. load' \in [Loaders -> LoadStates]
  BY <1>1, <1>2, GoesIsTyped DEF KeyInv
<1> QED BY <1>1, <1>3 DEF Draw, KeyInv, KeyTypeOK, KeyIsForGood

LEMMA CreateTempInv ==
    ASSUME KeyInv, NEW l \in Loaders, CreateTemp(l)
    PROVE  KeyInv'
<1>1. load[l].seed \in Seeds
  BY LoaderShape DEF CreateTemp, KeyInv
<1>2. [pc |-> "write", seed |-> load[l].seed] \in LoadStates
  BY <1>1 DEF LoadStates
<1>3. load' \in [Loaders -> LoadStates]
  BY <1>2, GoesIsTyped DEF KeyInv, CreateTemp
<1> QED BY <1>1, <1>3 DEF CreateTemp, KeyInv, KeyTypeOK, KeyIsForGood

LEMMA WriteTempInv ==
    ASSUME KeyInv, NEW l \in Loaders, WriteTemp(l)
    PROVE  KeyInv'
<1>1. load[l].seed \in Seeds
  BY LoaderShape DEF WriteTemp, KeyInv
<1>2. [pc |-> "link", seed |-> load[l].seed] \in LoadStates
  BY <1>1 DEF LoadStates
<1>3. load' \in [Loaders -> LoadStates]
  BY <1>2, GoesIsTyped DEF KeyInv, WriteTemp
<1> QED BY <1>1, <1>3 DEF WriteTemp, KeyInv, KeyTypeOK, KeyIsForGood

LEMMA UnlinkingIsTyped ==
    ASSUME KeyTypeOK, NEW l \in Loaders, load[l].pc = "link",
           NEW how \in { "won", "lost", "error" }
    PROVE  Unlinking(l, how) \in LoadStates
BY LoaderShape DEF Unlinking, LoadStates

(* The step that matters: the link leaves a file that is there as it is,   *)
(* and where there is none nobody has a signer.                            *)
LEMMA LinkInv ==
    ASSUME KeyInv, NEW l \in Loaders, Link(l)
    PROVE  KeyInv'
<1>1. load[l].seed \in Seeds
  BY LoaderShape DEF Link, KeyInv
<1>2. Unlinking(l, IF key = None THEN "won" ELSE "lost") \in LoadStates
  BY UnlinkingIsTyped DEF KeyInv, Link
<1>3. load' \in [Loaders -> LoadStates]
  BY <1>2, GoesIsTyped DEF KeyInv, Link
<1>4. KeyTypeOK'
  BY <1>1, <1>3 DEF Link, KeyInv, KeyTypeOK
<1>5. CASE key = None
  <2>1. used = {}
    BY <1>5, SeedsAssumption DEF KeyInv, KeyTypeOK, KeyIsForGood
  <2> QED BY <1>4, <2>1 DEF Link, KeyInv, KeyIsForGood
<1>6. CASE key # None
  BY <1>4, <1>6 DEF Link, KeyInv, KeyIsForGood
<1> QED BY <1>5, <1>6

LEMMA LinkFailsInv ==
    ASSUME KeyInv, NEW l \in Loaders, LinkFails(l)
    PROVE  KeyInv'
<1>1. Unlinking(l, "error") \in LoadStates
  BY UnlinkingIsTyped DEF KeyInv, LinkFails
<1>2. load' \in [Loaders -> LoadStates]
  BY <1>1, GoesIsTyped DEF KeyInv, LinkFails
<1>3. faults' \in 0 .. MaxFaults
  BY FaultIsTyped DEF KeyInv, LinkFails
<1> QED BY <1>2, <1>3 DEF LinkFails, KeyInv, KeyTypeOK, KeyIsForGood

LEMMA UnlinkInv ==
    ASSUME KeyInv, NEW l \in Loaders, Unlink(l)
    PROVE  KeyInv'
<1>1. load[l].seed \in Seeds
  BY LoaderShape DEF Unlink, KeyInv
<1>2. [pc |-> IF load[l].linked = "error" /\ key = None THEN "failed" ELSE "read"]
        \in LoadStates
  BY DEF LoadStates
<1>3. load' \in [Loaders -> LoadStates]
  BY <1>2, GoesIsTyped DEF KeyInv, Unlink
<1>4. faults' \in 0 .. MaxFaults
  BY FaultIsTyped DEF KeyInv, KeyTypeOK, Unlink
<1>5. temp' \in [Seeds -> { "absent", "partial", Whole }]
  BY <1>1 DEF KeyInv, KeyTypeOK, Unlink
<1> QED BY <1>3, <1>4, <1>5 DEF Unlink, KeyInv, KeyTypeOK, KeyIsForGood

LEMMA ReadInv ==
    ASSUME KeyInv, NEW l \in Loaders, Read(l)
    PROVE  KeyInv'
<1>1. CASE key \in Seeds
  <2>1. [pc |-> "loaded", seed |-> key] \in LoadStates
    BY <1>1 DEF LoadStates
  <2>2. load' \in [Loaders -> LoadStates]
    BY <1>1, <2>1, GoesIsTyped DEF KeyInv, Read
  <2> QED BY <1>1, <2>2 DEF Read, KeyInv, KeyTypeOK, KeyIsForGood
<1>2. CASE key \notin Seeds
  <2>1. [pc |-> "failed"] \in LoadStates
    BY DEF LoadStates
  <2>2. load' \in [Loaders -> LoadStates]
    BY <1>2, <2>1, GoesIsTyped DEF KeyInv, Read
  <2> QED BY <1>2, <2>2 DEF Read, KeyInv, KeyTypeOK, KeyIsForGood
<1> QED BY <1>1, <1>2

LEMMA StepFailsInv ==
    ASSUME KeyInv, NEW l \in Loaders, StepFails(l)
    PROVE  KeyInv'
<1>1. [pc |-> "failed"] \in LoadStates
  BY DEF LoadStates
<1>2. load' \in [Loaders -> LoadStates]
  BY <1>1, GoesIsTyped DEF KeyInv, StepFails
<1>3. faults' \in 0 .. MaxFaults
  BY FaultIsTyped DEF KeyInv, StepFails
<1> QED BY <1>2, <1>3 DEF StepFails, KeyInv, KeyTypeOK, KeyIsForGood

LEMMA EndLoadInv ==
    ASSUME KeyInv, NEW l \in Loaders, EndLoad(l)
    PROVE  KeyInv'
<1>1. [pc |-> "idle"] \in LoadStates
  BY DEF LoadStates
<1> QED BY <1>1, GoesIsTyped DEF EndLoad, KeyInv, KeyTypeOK, KeyIsForGood

LEMMA DieInv ==
    ASSUME KeyInv, NEW l \in Loaders, Die(l)
    PROVE  KeyInv'
<1>1. [pc |-> "idle"] \in LoadStates
  BY DEF LoadStates
<1>2. load' \in [Loaders -> LoadStates]
  BY <1>1, GoesIsTyped DEF KeyInv, Die
<1>3. faults' \in 0 .. MaxFaults
  BY FaultIsTyped DEF KeyInv, Die
<1> QED BY <1>2, <1>3 DEF Die, KeyInv, KeyTypeOK, KeyIsForGood

-----------------------------------------------------------------------------
LEMMA KeyStepInv == KeyInv /\ [KeyNext]_keyVars => KeyInv'
<1> SUFFICES ASSUME KeyInv, [KeyNext]_keyVars
             PROVE  KeyInv'
  OBVIOUS
<1>1. CASE UNCHANGED keyVars
  BY <1>1 DEF keyVars, KeyInv, KeyTypeOK, KeyIsForGood
<1>2. ASSUME NEW l \in Loaders, StartLoad(l) \/ LoadStep(l) \/ EndLoad(l) \/ Die(l)
      PROVE  KeyInv'
  BY <1>2, StartLoadInv, LookInv, DrawInv, CreateTempInv, WriteTempInv, LinkInv,
     LinkFailsInv, UnlinkInv, ReadInv, StepFailsInv, EndLoadInv, DieInv DEF LoadStep
<1> QED BY <1>1, <1>2 DEF KeyNext

LEMMA SignersAgreeByInv == KeyInv => SignersAgree
BY DEF KeyInv, KeyIsForGood, SignersAgree

(* The types of the key store's variables, a loader's locals included.     *)
THEOREM KeyTypesHold == KeySpec => []KeyTypeOK
<1>1. KeyInv => KeyTypeOK
  BY DEF KeyInv
<1> QED BY <1>1, KeyInitInv, KeyStepInv, PTL DEF KeySpec

(* However many processes create the key at once, and wherever they fail   *)
(* or die, every signer anybody is given is made of the same seed.         *)
THEOREM SignersAlwaysAgree == KeySpec => []SignersAgree
BY KeyInitInv, KeyStepInv, SignersAgreeByInv, PTL DEF KeySpec

(* A key file that is there is never replaced and never goes away.         *)
THEOREM KeyNeverReplaced == KeySpec => [][key # None => key' = key]_keyVars
<1>1. [KeyNext]_keyVars => [key # None => key' = key]_keyVars
  BY DEF KeyNext, keyVars, StartLoad, LoadStep, Look, Draw, CreateTemp, WriteTemp, Link,
     LinkFails, Unlink, Read, StepFails, EndLoad, Die
<1> QED BY <1>1, PTL DEF KeySpec

-----------------------------------------------------------------------------
(* What is left behind. *)

Held == { load[l].seed : l \in { k \in Loaders : load[k].pc \in { "write", "link", "unlink" } } }

(* The temporary files nobody will remove any more.                        *)
Stale == { s \in Seeds \ Held : temp[s] # "absent" }

TempInv == IsFiniteSet(Stale) /\ Cardinality(Stale) =< faults

LEMMA TempsByInv == KeyTypeOK /\ TempInv => TempsAccounted
BY DEF TempInv, Stale, Held, TempsAccounted

LEMMA NothingMoreStale ==
    ASSUME KeyTypeOK, TempInv, Stale' \subseteq Stale, faults' \in { faults, faults + 1 }
    PROVE  TempInv'
<1>1. /\ IsFiniteSet(Stale') /\ Cardinality(Stale') =< Cardinality(Stale)
      /\ Cardinality(Stale) \in Nat /\ Cardinality(Stale') \in Nat
  BY FS_Subset, FS_CardinalityType DEF TempInv
<1> QED BY <1>1 DEF TempInv, KeyTypeOK

LEMMA OneMoreStale ==
    ASSUME KeyTypeOK, TempInv, NEW s, Stale' \subseteq Stale \cup { s }, faults' = faults + 1
    PROVE  TempInv'
<1> DEFINE left == Stale
<1>1. IsFiniteSet(left) /\ Cardinality(left) \in Nat
  BY FS_CardinalityType DEF TempInv
<1>2. /\ IsFiniteSet(left \cup { s })
      /\ Cardinality(left \cup { s }) = Cardinality(left)
         \/ Cardinality(left \cup { s }) = Cardinality(left) + 1
  <2> HIDE DEF left
  <2> QED BY <1>1, FS_AddElement
<1>3. /\ IsFiniteSet(Stale \cup { s })
      /\ Cardinality(Stale \cup { s }) =< Cardinality(Stale) + 1
      /\ Cardinality(Stale) \in Nat /\ Cardinality(Stale \cup { s }) \in Nat
  BY <1>1, <1>2
<1>4. /\ IsFiniteSet(Stale') /\ Cardinality(Stale') =< Cardinality(Stale \cup { s })
      /\ Cardinality(Stale') \in Nat
  BY <1>3, FS_Subset, FS_CardinalityType
<1> QED BY <1>3, <1>4 DEF TempInv, KeyTypeOK

(* A loader that holds no file any more leaves at most its own behind.     *)
LEMMA LeavesItsOwn ==
    ASSUME KeyTypeOK, NEW l \in Loaders, NEW state, Goes(l, state), UNCHANGED temp
    PROVE  Stale' \subseteq Stale \cup { load[l].seed }
<1>1. \A k \in Loaders : k # l => load'[k] = load[k]
  BY DEF KeyTypeOK, Goes
<1>2. Held \subseteq Held' \cup { load[l].seed }
  BY <1>1 DEF Held
<1> QED BY <1>2 DEF Stale

LEMMA TempStep == KeyTypeOK /\ TempInv /\ [KeyNext]_keyVars => TempInv'
<1> SUFFICES ASSUME KeyTypeOK, TempInv, [KeyNext]_keyVars
             PROVE  TempInv'
  OBVIOUS
<1>1. CASE UNCHANGED keyVars
  <2>1. Stale' = Stale
    BY <1>1 DEF keyVars, Stale, Held
  <2> QED BY <1>1, <2>1, NothingMoreStale DEF keyVars
<1>2. ASSUME NEW l \in Loaders, StartLoad(l) \/ LoadStep(l) \/ EndLoad(l) \/ Die(l)
      PROVE  TempInv'
  <2>1. \A state : Goes(l, state) => load'[l] = state /\ \A k \in Loaders : k # l => load'[k] = load[k]
    BY DEF KeyTypeOK, Goes
  <2>2. CASE StartLoad(l) \/ Look(l) \/ Draw(l) \/ Read(l) \/ EndLoad(l)
    <3>1. load[l].pc \notin { "write", "link", "unlink" } /\ UNCHANGED << temp, faults >>
      BY <2>2 DEF StartLoad, Look, Draw, Read, EndLoad
    <3>2. \A k \in Loaders : k # l => load'[k] = load[k]
      BY <2>1, <2>2 DEF StartLoad, Look, Draw, Read, EndLoad
    <3>3. Stale' \subseteq Stale
      BY <3>1, <3>2 DEF Stale, Held
    <3> QED BY <3>1, <3>3, NothingMoreStale
  <2>3. CASE CreateTemp(l) \/ WriteTemp(l) \/ Link(l) \/ LinkFails(l)
    <3>1. /\ load'[l].pc \in { "write", "link", "unlink" } /\ load'[l].seed = load[l].seed
          /\ \A k \in Loaders : k # l => load'[k] = load[k]
      BY <2>1, <2>3 DEF CreateTemp, WriteTemp, Link, LinkFails, Unlinking
    <3>2. \A s \in Seeds : s # load[l].seed => temp'[s] = temp[s]
      BY <2>3 DEF CreateTemp, WriteTemp, Link, LinkFails, KeyTypeOK
    <3>3. Held \cup { load[l].seed } \subseteq Held'
      BY <3>1 DEF Held
    <3>4. Stale' \subseteq Stale
      BY <3>2, <3>3 DEF Stale
    <3>5. faults' \in { faults, faults + 1 }
      BY <2>3 DEF CreateTemp, WriteTemp, Link, LinkFails, Fault
    <3> QED BY <3>4, <3>5, NothingMoreStale
  <2>4. CASE Unlink(l) /\ UNCHANGED faults
    <3>1. /\ temp' = [temp EXCEPT ![load[l].seed] = "absent"]
          /\ \A k \in Loaders : k # l => load'[k] = load[k]
      BY <2>1, <2>4 DEF Unlink, Fault, KeyTypeOK
    <3>2. Held \subseteq Held' \cup { load[l].seed }
      BY <3>1 DEF Held
    <3>3. load[l].seed \in Seeds
      BY <2>4, LoaderShape DEF Unlink
    <3>4. Stale' \subseteq Stale
      BY <3>1, <3>2, <3>3 DEF Stale, KeyTypeOK
    <3> QED BY <2>4, <3>4, NothingMoreStale
  <2>5. CASE (Unlink(l) /\ faults' # faults) \/ StepFails(l) \/ Die(l)
    <3>1. /\ faults' = faults + 1 /\ UNCHANGED temp /\ \E state : Goes(l, state)
      BY <2>5 DEF Unlink, StepFails, Die, Fault
    <3>2. Stale' \subseteq Stale \cup { load[l].seed }
      BY <3>1, LeavesItsOwn
    <3> QED BY <3>1, <3>2, OneMoreStale
  <2> QED BY <1>2, <2>2, <2>3, <2>4, <2>5 DEF LoadStep
<1> QED BY <1>1, <1>2 DEF KeyNext

LEMMA TempInit == KeyInit => TempInv
<1> SUFFICES ASSUME KeyInit PROVE TempInv
  OBVIOUS
<1>1. Stale = {}
  BY DEF KeyInit, Stale
<1> QED BY <1>1, FS_EmptySet DEF KeyInit, TempInv

(* A seed stays behind in a temporary file only where a step failed or a   *)
(* death cut a load off, one for each at most; a lost race leaves none.    *)
THEOREM TempsAlwaysAccounted == KeySpec => []TempsAccounted
<1>1. KeyInv => KeyTypeOK
  BY DEF KeyInv
<1> QED BY <1>1, KeyInitInv, KeyStepInv, TempInit, TempStep, TempsByInv, PTL DEF KeySpec
=============================================================================
