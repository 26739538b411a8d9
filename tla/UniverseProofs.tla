---------------------------- MODULE UniverseProofs ----------------------------
(***************************************************************************)
(* Theorems about Universe, for every set of orders and of answers, and    *)
(* every bound on the clock.  The first: what a picture says of a          *)
(* repository was so at one moment, although orders and leases are read at *)
(* two.  The others: what it may say at all, for which it is enough that a *)
(* picture is composed of what an answer was normalized to.                *)
(*                                                                         *)
(* The argument for the first: a lease that appears between the two        *)
(* readings comes with a change of its order, which makes it the latest of *)
(* all its repositories.  If the order shown gets a holder in between, it  *)
(* is still the latest order at that moment; if another order does,        *)
(* nothing that is shown changes.                                          *)
(***************************************************************************)
EXTENDS Universe, WellFoundedInduction, FiniteSetTheorems, SequenceTheorems, TLAPS

ReaderTyped ==
    /\ DOMAIN reader = { "pc", "answer", "snapshot", "orders", "picture", "broken" }
    /\ reader.pc \in { "idle", "fetched", "ordered", "done" }
    /\ reader.orders \in [Orders -> Nat]
    /\ reader.broken \in BOOLEAN

(* What the store holds is older than the next reading of the clock.       *)
StoreInv ==
    /\ clock \in Nat
    /\ updated \in [Orders -> Nat] /\ \A o \in Orders : updated[o] =< clock
    /\ stamped \in [Orders -> Nat] /\ \A o \in Orders : stamped[o] =< clock
    /\ leased \subseteq Orders

(* Each moment of a request is in its history, and what it would show with *)
(* the leases of this moment was so at one of them.                        *)
ReaderInv ==
    /\ truths = [r \in Repos |-> truths[r]]
    /\ Serving => \A r \in Repos : Placement(r, updated, leased) \in truths[r]
    /\ reader.pc = "ordered" /\ ~ reader.broken =>
         /\ \A o \in Orders : reader.orders[o] =< clock
         /\ \A r \in Repos : Placement(r, reader.orders, leased) \in truths[r]
    /\ ShownWasTrue

UniverseInv == StoreInv /\ ReaderTyped /\ ReaderInv

-----------------------------------------------------------------------------
(* The latest order of a repository is one of its orders.                  *)

LEMMA LatestOfBounded ==
    ASSUME NEW bound \in Nat, NEW at \in [Orders -> Nat], \A o \in Orders : at[o] =< bound,
           NEW mine \in SUBSET Orders, mine # {}
    PROVE  \E o \in mine : \A p \in mine : at[p] =< at[o]
<1> DEFINE ages == { bound - at[o] : o \in mine }
<1>1. ages \subseteq Nat /\ ages # {}
  OBVIOUS
<1>2. PICK age \in ages : \A other \in ages : ~ (<< other, age >> \in OpToRel(<, Nat))
  <2> HIDE DEF ages
  <2> QED BY <1>1, NatLessThanWellFounded, WFMin, Zenon
<1>3. PICK o \in mine : age = bound - at[o]
  BY <1>2
<1>4. ASSUME NEW p \in mine PROVE at[p] =< at[o]
  <2>1. bound - at[p] \in ages /\ bound - at[p] \in Nat /\ age \in Nat
    BY <1>1, <1>2
  <2>2. ~ (bound - at[p] < age)
    BY <1>2, <2>1 DEF OpToRel
  <2> QED BY <2>2, <1>3
<1> QED BY <1>4

LEMMA LatestIsMentioned ==
    ASSUME NEW bound \in Nat, NEW at \in [Orders -> Nat], \A o \in Orders : at[o] =< bound,
           NEW repo, LatestOrder(repo, at) # Unobserved
    PROVE  /\ LatestOrder(repo, at) \in Orders
           /\ repo \in Mentions[LatestOrder(repo, at)]
<1> DEFINE mine == { o \in Orders : at[o] > 0 /\ repo \in Mentions[o] }
<1>1. mine # {} /\ LatestOrder(repo, at) = CHOOSE o \in mine : \A p \in mine : at[p] =< at[o]
  BY DEF LatestOrder
<1>2. \E o \in mine : \A p \in mine : at[p] =< at[o]
  <2>1. mine \in SUBSET Orders
    OBVIOUS
  <2> HIDE DEF mine
  <2> QED BY <1>1, <2>1, LatestOfBounded
<1>3. LatestOrder(repo, at) \in mine
  BY <1>1, <1>2
<1> QED BY <1>3

(* An order that has just changed is the latest.                           *)
LEMMA ChangedIsLatest ==
    ASSUME NEW bound \in Nat, NEW at \in [Orders -> Nat], \A o \in Orders : at[o] =< bound,
           NEW p \in Orders, NEW repo \in Mentions[p], at[p] = bound, bound > 0,
           \A o \in Orders \ { p } : at[o] < bound
    PROVE  LatestOrder(repo, at) = p
<1> DEFINE mine == { o \in Orders : at[o] > 0 /\ repo \in Mentions[o] }
<1>1. p \in mine
  OBVIOUS
<1>2. LatestOrder(repo, at) = CHOOSE o \in mine : \A q \in mine : at[q] =< at[o]
  BY <1>1 DEF LatestOrder
<1>3. \A o \in mine : (\A q \in mine : at[q] =< at[o]) => o = p
  BY <1>1
<1>4. \A q \in mine : at[q] =< at[p]
  OBVIOUS
<1> QED BY <1>1, <1>2, <1>3, <1>4

(* A claim and what a request would show.                                  *)
LEMMA ClaimShown ==
    ASSUME StoreInv, NEW at \in [Orders -> Nat], \A o \in Orders : at[o] =< clock,
           NEW p \in Orders, NEW repo, Claim(p)
    PROVE  \/ Placement(repo, at, leased') = Placement(repo, at, leased)
           \/ Placement(repo, at, leased') = Placement(repo, updated', leased')
<1> DEFINE o == LatestOrder(repo, at)
<1>1. leased' = leased \cup { p } /\ updated' = [updated EXCEPT ![p] = clock']
      /\ clock' = clock + 1
  BY DEF Claim, Reads
<1>2. CASE o # p
  <2>1. o \in leased' <=> o \in leased
    BY <1>1, <1>2
  <2> QED BY <2>1 DEF Placement
<1>3. CASE o = p
  <2>1. repo \in Mentions[p]
    BY <1>3, LatestIsMentioned, OrdersAssumption DEF StoreInv
  <2>2. LatestOrder(repo, updated') = p
    <3>1. /\ clock' \in Nat /\ clock' > 0
          /\ updated' \in [Orders -> Nat] /\ updated'[p] = clock'
          /\ \A q \in Orders : updated'[q] =< clock'
          /\ \A q \in Orders \ { p } : updated'[q] < clock'
      BY <1>1 DEF StoreInv
    <3> QED BY <3>1, <2>1, ChangedIsLatest
  <2> QED BY <1>3, <2>2 DEF Placement
<1> QED BY <1>2, <1>3

-----------------------------------------------------------------------------
LEMMA UniverseInitInv == UniverseInit => UniverseInv
<1> SUFFICES ASSUME UniverseInit PROVE UniverseInv
  OBVIOUS
<1> USE DEF UniverseInit, Idle, Nothing
<1>1. StoreInv
  BY DEF StoreInv
<1>2. ReaderTyped
  BY DEF ReaderTyped
<1>3. ReaderInv
  BY DEF ReaderInv, Serving, ShownWasTrue
<1> QED BY <1>1, <1>2, <1>3 DEF UniverseInv

(* A change of the store, with its witness.                                *)
LEMMA WitnessInv ==
    ASSUME UniverseInv, Witness, reader'.pc = reader.pc
    PROVE  /\ truths' = [r \in Repos |-> truths'[r]]
           /\ \A r \in Repos : truths[r] \subseteq truths'[r]
           /\ Serving => \A r \in Repos : Placement(r, updated', leased') \in truths'[r]
           /\ ~ Serving => truths' = truths
           /\ Serving' <=> Serving
BY DEF UniverseInv, ReaderInv, Witness, Serving

LEMMA ReaderRest ==
    ASSUME UniverseInv, reader' = reader, truths' = truths,
           leased' = leased, updated' = updated, clock' \in Nat, clock' >= clock
    PROVE  ReaderTyped' /\ ReaderInv'
<1>1. ReaderTyped'
  BY DEF UniverseInv, ReaderTyped
<1>2. \A o \in Orders :
        reader.pc = "ordered" /\ ~ reader.broken => reader.orders[o] =< clock'
  BY DEF UniverseInv, ReaderInv, ReaderTyped, StoreInv
<1>3. \A r \in Repos :
        /\ Placement(r, updated', leased') = Placement(r, updated, leased)
        /\ Placement(r, reader'.orders, leased') = Placement(r, reader.orders, leased)
  OBVIOUS
<1>4. ShownWasTrue'
  BY DEF UniverseInv, ReaderInv, ShownWasTrue
<1> QED BY <1>1, <1>2, <1>3, <1>4 DEF UniverseInv, ReaderInv, Serving

(* A change of orders only, witnessed.                                     *)
LEMMA OrdersChange ==
    ASSUME UniverseInv, Witness, reader' = reader, leased' = leased,
           clock' \in Nat, clock' >= clock
    PROVE  ReaderTyped' /\ ReaderInv'
<1>1. ReaderTyped'
  BY DEF UniverseInv, ReaderTyped
<1>2. /\ truths' = [r \in Repos |-> truths'[r]]
      /\ \A r \in Repos : truths[r] \subseteq truths'[r]
      /\ Serving => \A r \in Repos : Placement(r, updated', leased') \in truths'[r]
      /\ ~ Serving => truths' = truths
      /\ Serving' <=> Serving
  BY WitnessInv
<1>3. \A o \in Orders :
        reader.pc = "ordered" /\ ~ reader.broken => reader.orders[o] =< clock'
  BY DEF UniverseInv, ReaderInv, ReaderTyped, StoreInv
<1>4. \A r \in Repos : Placement(r, reader'.orders, leased') = Placement(r, reader.orders, leased)
  OBVIOUS
<1>5. ShownWasTrue'
  BY <1>2 DEF UniverseInv, ReaderInv, ShownWasTrue
<1> QED BY <1>1, <1>2, <1>3, <1>4, <1>5 DEF UniverseInv, ReaderInv

LEMMA ClaimInv == ASSUME UniverseInv, NEW p \in Orders, Claim(p) PROVE UniverseInv'
<1>1. /\ clock' = clock + 1 /\ clock' \in Nat
      /\ leased' = leased \cup { p } /\ updated' = [updated EXCEPT ![p] = clock']
      /\ reader' = reader /\ stamped' = stamped /\ Witness
  BY DEF UniverseInv, StoreInv, Claim, Reads
<1>2. StoreInv'
  BY <1>1 DEF UniverseInv, StoreInv
<1>3. ReaderTyped'
  BY <1>1 DEF UniverseInv, ReaderTyped
<1>4. /\ truths' = [r \in Repos |-> truths'[r]]
      /\ \A r \in Repos : truths[r] \subseteq truths'[r]
      /\ Serving => \A r \in Repos : Placement(r, updated', leased') \in truths'[r]
      /\ ~ Serving => truths' = truths
      /\ Serving' <=> Serving
  BY <1>1, WitnessInv
<1>5. \A o \in Orders :
        reader.pc = "ordered" /\ ~ reader.broken => reader.orders[o] =< clock'
  BY <1>1 DEF UniverseInv, ReaderInv, ReaderTyped, StoreInv
<1>6. ASSUME reader.pc = "ordered", ~ reader.broken, NEW r \in Repos
      PROVE  Placement(r, reader.orders, leased') \in truths'[r]
  <2>1. /\ StoreInv /\ reader.orders \in [Orders -> Nat]
        /\ \A o \in Orders : reader.orders[o] =< clock
        /\ Placement(r, reader.orders, leased) \in truths[r]
    BY <1>6 DEF UniverseInv, ReaderInv, ReaderTyped
  <2>2. \/ Placement(r, reader.orders, leased') = Placement(r, reader.orders, leased)
        \/ Placement(r, reader.orders, leased') = Placement(r, updated', leased')
    BY <2>1, ClaimShown
  <2>3. Serving
    BY <1>6 DEF Serving
  <2> QED BY <1>4, <2>1, <2>2, <2>3
<1>7. ShownWasTrue'
  BY <1>1, <1>4 DEF UniverseInv, ReaderInv, ShownWasTrue
<1>8. ReaderInv'
  BY <1>1, <1>4, <1>5, <1>6, <1>7 DEF ReaderInv
<1> QED BY <1>2, <1>3, <1>8 DEF UniverseInv

(* A claim of which only the lease is kept: the request is excepted.       *)
LEMMA ClaimFailsInv == ASSUME UniverseInv, NEW p \in Orders, ClaimFails(p) PROVE UniverseInv'
<1>1. /\ clock' = clock + 1 /\ clock' \in Nat
      /\ leased' = leased \cup { p } /\ updated' = updated /\ stamped' = stamped
      /\ reader' = [reader EXCEPT !.broken = Serving \/ reader.broken] /\ Witness
  BY DEF UniverseInv, StoreInv, ClaimFails, Reads
<1>2. /\ DOMAIN reader' = DOMAIN reader /\ reader'.pc = reader.pc
      /\ reader'.orders = reader.orders /\ reader'.picture = reader.picture
      /\ reader'.broken = (Serving \/ reader.broken)
  BY <1>1 DEF UniverseInv, ReaderTyped
<1>3. StoreInv'
  BY <1>1 DEF UniverseInv, StoreInv
<1>4. ReaderTyped'
  BY <1>2 DEF UniverseInv, ReaderTyped, Serving
<1>5. /\ truths' = [r \in Repos |-> truths'[r]]
      /\ Serving => \A r \in Repos : Placement(r, updated', leased') \in truths'[r]
      /\ ~ Serving => truths' = truths
      /\ Serving' <=> Serving
  BY <1>1, <1>2, WitnessInv
<1>6. \A o \in Orders :
        reader.pc = "ordered" /\ ~ reader.broken => reader.orders[o] =< clock'
  BY <1>1 DEF UniverseInv, ReaderInv, ReaderTyped, StoreInv
<1>7. reader.pc = "ordered" => reader'.broken
  BY <1>2 DEF Serving
<1>8. ShownWasTrue'
  BY <1>2, <1>5 DEF UniverseInv, ReaderInv, ShownWasTrue, Serving
<1>9. ReaderInv'
  BY <1>2, <1>5, <1>6, <1>7, <1>8 DEF ReaderInv
<1> QED BY <1>3, <1>4, <1>9 DEF UniverseInv

(* The three readings of a request.                                        *)
LEMMA FetchInv == ASSUME UniverseInv, Fetch PROVE UniverseInv'
<1>1. /\ UNCHANGED << clock, updated, leased, stamped >>
      /\ truths' = [r \in Repos |-> { Placement(r, updated, leased) }]
  BY DEF Fetch
<1>2. /\ DOMAIN reader' = DOMAIN Idle /\ reader'.pc = "fetched"
      /\ reader'.orders = Nothing /\ reader'.broken = FALSE
  BY DEF Fetch, Idle
<1>3. StoreInv'
  BY <1>1 DEF UniverseInv, StoreInv
<1>4. ReaderTyped'
  <2>1. DOMAIN Idle = { "pc", "answer", "snapshot", "orders", "picture", "broken" }
    BY DEF Idle
  <2>2. Nothing \in [Orders -> Nat]
    BY DEF Nothing
  <2> QED BY <1>2, <2>1, <2>2 DEF ReaderTyped
<1>5. ReaderInv'
  <2>1. \A r \in Repos : Placement(r, updated', leased') \in truths'[r]
    BY <1>1
  <2>2. truths' = [r \in Repos |-> truths'[r]]
    BY <1>1
  <2> QED BY <1>2, <2>1, <2>2 DEF ReaderInv, ShownWasTrue
<1> QED BY <1>3, <1>4, <1>5 DEF UniverseInv

LEMMA ReadOrdersInv == ASSUME UniverseInv, ReadOrders PROVE UniverseInv'
<1>1. UNCHANGED << clock, updated, leased, stamped, truths >> /\ reader.pc = "fetched"
  BY DEF ReadOrders
<1>2. /\ DOMAIN reader' = DOMAIN reader /\ reader'.pc = "ordered"
      /\ \/ reader'.orders = updated /\ reader'.broken = reader.broken
         \/ reader'.orders = reader.orders /\ reader'.broken = TRUE
  BY DEF ReadOrders, UniverseInv, ReaderTyped
<1>3. StoreInv'
  BY <1>1 DEF UniverseInv, StoreInv
<1>4. ReaderTyped'
  BY <1>2 DEF UniverseInv, ReaderTyped, StoreInv
<1>5. ASSUME NEW r \in Repos
      PROVE  /\ Placement(r, updated', leased') \in truths'[r]
             /\ ~ reader'.broken => Placement(r, reader'.orders, leased') \in truths'[r]
  <2>1. Placement(r, updated, leased) \in truths[r]
    BY <1>1 DEF UniverseInv, ReaderInv, Serving
  <2> QED BY <1>1, <1>2, <2>1
<1>6. ~ reader'.broken => \A o \in Orders : reader'.orders[o] =< clock'
  <2>1. ~ reader'.broken => reader'.orders = updated
    BY <1>2
  <2> QED BY <1>1, <1>2, <2>1 DEF UniverseInv, ReaderInv, StoreInv
<1>7. ReaderInv'
  BY <1>1, <1>2, <1>5, <1>6 DEF UniverseInv, ReaderInv, ShownWasTrue
<1> QED BY <1>3, <1>4, <1>7 DEF UniverseInv

LEMMA ReadLeasesInv == ASSUME UniverseInv, ReadLeases PROVE UniverseInv'
<1>1. UNCHANGED << clock, updated, leased, stamped, truths >> /\ reader.pc = "ordered"
  BY DEF ReadLeases
<1>2. /\ DOMAIN reader' = DOMAIN reader /\ reader'.pc = "done" /\ reader'.orders = reader.orders
      /\ \/ /\ reader'.broken = reader.broken
            /\ reader'.picture = Compose(reader.orders, leased, reader.snapshot)
         \/ reader'.broken = TRUE
  BY DEF ReadLeases, Composed, UniverseInv, ReaderTyped
<1>3. StoreInv'
  BY <1>1 DEF UniverseInv, StoreInv
<1>4. ReaderTyped'
  BY <1>2 DEF UniverseInv, ReaderTyped
<1>5. ASSUME ~ reader'.broken, NEW r \in Repos PROVE reader'.picture.places[r] \in truths'[r]
  <2>1. reader'.picture.places[r] = Placement(r, reader.orders, leased) /\ ~ reader.broken
    BY <1>2, <1>5 DEF Compose
  <2> QED BY <1>1, <2>1 DEF UniverseInv, ReaderInv
<1>6. ReaderInv'
  BY <1>1, <1>2, <1>5 DEF UniverseInv, ReaderInv, ShownWasTrue, Serving
<1> QED BY <1>3, <1>4, <1>6 DEF UniverseInv

LEMMA UniverseStepInv == UniverseInv /\ [UniverseNext]_universeVars => UniverseInv'
<1> SUFFICES ASSUME UniverseInv, [UniverseNext]_universeVars PROVE UniverseInv'
  OBVIOUS
<1>1. ASSUME NEW o \in Orders, Stamp(o) PROVE UniverseInv'
  <2>1. StoreInv' /\ clock' \in Nat /\ clock' >= clock
    BY <1>1 DEF UniverseInv, StoreInv, Stamp, Reads
  <2>2. ReaderTyped' /\ ReaderInv'
    BY <1>1, <2>1, ReaderRest DEF Stamp
  <2> QED BY <2>1, <2>2 DEF UniverseInv
<1>2. ASSUME NEW o \in Orders, AppendStamped(o) PROVE UniverseInv'
  <2>1. StoreInv' /\ clock' \in Nat /\ clock' >= clock
    BY <1>2 DEF UniverseInv, StoreInv, AppendStamped
  <2>2. ReaderTyped' /\ ReaderInv'
    BY <1>2, <2>1, OrdersChange DEF AppendStamped
  <2> QED BY <2>1, <2>2 DEF UniverseInv
<1>3. ASSUME NEW o \in Orders, Touch(o) PROVE UniverseInv'
  <2>1. StoreInv' /\ clock' \in Nat /\ clock' >= clock
    BY <1>3 DEF UniverseInv, StoreInv, Touch, Reads
  <2>2. ReaderTyped' /\ ReaderInv'
    BY <1>3, <2>1, OrdersChange DEF Touch
  <2> QED BY <2>1, <2>2 DEF UniverseInv
<1>4. CASE UNCHANGED universeVars
  <2>1. StoreInv' /\ clock' \in Nat /\ clock' >= clock
    BY <1>4 DEF UniverseInv, StoreInv, universeVars
  <2>2. ReaderTyped' /\ ReaderInv'
    BY <1>4, <2>1, ReaderRest DEF universeVars
  <2> QED BY <2>1, <2>2 DEF UniverseInv
<1> QED BY <1>1, <1>2, <1>3, <1>4, ClaimInv, ClaimFailsInv, FetchInv, ReadOrdersInv, ReadLeasesInv
        DEF UniverseNext

-----------------------------------------------------------------------------
(* Orders and leases are read at different times, yet what the picture     *)
(* says of a repository was so at some moment while the request was        *)
(* served, unless the store failed.                                        *)
THEOREM PictureWasTrue == UniverseSpec => []ShownWasTrue
<1>1. UniverseInv => ShownWasTrue
  BY DEF UniverseInv, ReaderInv
<1> QED BY <1>1, UniverseInitInv, UniverseStepInv, PTL DEF UniverseSpec

-----------------------------------------------------------------------------
(* What a picture says, whatever it was composed of.                       *)

(* A picture is composed of what the answer was normalized to, and of some *)
(* orders and leases.                                                      *)
PictureInv ==
    /\ DOMAIN reader = { "pc", "answer", "snapshot", "orders", "picture", "broken" }
    /\ reader.pc # "idle" =>
         /\ reader.answer \in Answers
         /\ reader.snapshot = Snapshot(reader.answer)
    /\ reader.pc = "done" =>
         \E at, leases : reader.picture = Compose(at, leases, reader.snapshot)

LEMMA PictureInit == UniverseInit => PictureInv
BY DEF UniverseInit, PictureInv, Idle

LEMMA PictureStep == PictureInv /\ [UniverseNext]_universeVars => PictureInv'
<1> SUFFICES ASSUME PictureInv, [UniverseNext]_universeVars PROVE PictureInv'
  OBVIOUS
<1>1. CASE reader' = reader
  BY <1>1 DEF PictureInv
<1>2. ASSUME NEW o \in Orders, ClaimFails(o) PROVE PictureInv'
  <2>1. /\ DOMAIN reader' = DOMAIN reader /\ reader'.pc = reader.pc
        /\ reader'.answer = reader.answer /\ reader'.snapshot = reader.snapshot
        /\ reader'.picture = reader.picture
    BY <1>2 DEF ClaimFails, PictureInv
  <2> QED BY <2>1 DEF PictureInv
<1>3. CASE Fetch
  <2>1. PICK answer \in Answers :
          reader' = [Idle EXCEPT !.pc = "fetched", !.answer = answer, !.snapshot = Snapshot(answer)]
    BY <1>3 DEF Fetch
  <2>2. /\ DOMAIN reader' = { "pc", "answer", "snapshot", "orders", "picture", "broken" }
        /\ reader'.pc = "fetched" /\ reader'.answer = answer
        /\ reader'.snapshot = Snapshot(answer)
    BY <2>1 DEF Idle
  <2> QED BY <2>2 DEF PictureInv
<1>4. CASE ReadOrders
  <2>1. /\ DOMAIN reader' = DOMAIN reader /\ reader'.pc = "ordered" /\ reader.pc # "idle"
        /\ reader'.answer = reader.answer /\ reader'.snapshot = reader.snapshot
    BY <1>4 DEF ReadOrders, PictureInv
  <2> QED BY <2>1 DEF PictureInv
<1>5. CASE ReadLeases
  <2>1. PICK leases, broken : Composed(leases, broken)
    BY <1>5 DEF ReadLeases
  <2>2. /\ DOMAIN reader' = DOMAIN reader /\ reader'.pc = "done" /\ reader.pc # "idle"
        /\ reader'.answer = reader.answer /\ reader'.snapshot = reader.snapshot
        /\ reader'.picture = Compose(reader.orders, leases, reader.snapshot)
    BY <1>5, <2>1 DEF ReadLeases, Composed, PictureInv
  <2> QED BY <2>2 DEF PictureInv
<1> QED BY <1>1, <1>2, <1>3, <1>4, <1>5
        DEF UniverseNext, Stamp, AppendStamped, Claim, Touch, universeVars

(* A coverage of 100 is never the work of rounding.                        *)
LEMMA CoverageExact ==
    ASSUME NEW p
    PROVE  /\ Coverage(p) \in 0 .. 100
           /\ Missing(p) \subseteq { "task", "branch", "pool" }
           /\ Coverage(p) # 100 <=> Missing(p) # {}
<1>1. Missing(p) \subseteq { "task", "branch", "pool" }
  BY DEF Missing
<1>2. /\ IsFiniteSet({ "task", "branch", "pool" })
      /\ Cardinality({ "task", "branch", "pool" }) = 3
  <2>1. IsFiniteSet({ "task" }) /\ Cardinality({ "task" }) = 1
    BY FS_Singleton
  <2>2. IsFiniteSet({ "task" } \cup { "branch" }) /\ Cardinality({ "task" } \cup { "branch" }) = 2
    BY <2>1, FS_AddElement
  <2>3. /\ IsFiniteSet(({ "task" } \cup { "branch" }) \cup { "pool" })
        /\ Cardinality(({ "task" } \cup { "branch" }) \cup { "pool" }) = 3
    BY <2>2, FS_AddElement
  <2>4. ({ "task" } \cup { "branch" }) \cup { "pool" } = { "task", "branch", "pool" }
    OBVIOUS
  <2> QED BY <2>3, <2>4
<1>3. /\ IsFiniteSet(Missing(p)) /\ Cardinality(Missing(p)) \in 0 .. 3
      /\ Cardinality(Missing(p)) = 0 <=> Missing(p) = {}
  <2>1. IsFiniteSet(Missing(p)) /\ Cardinality(Missing(p)) =< 3
    BY <1>1, <1>2, FS_Subset
  <2> QED BY <2>1, FS_CardinalityType, FS_EmptySet
<1>4. PICK n \in 0 .. 3 : n = Cardinality(Missing(p)) /\ Coverage(p) = ((3 - n) * 100) \div 3
  BY <1>3 DEF Coverage
<1>5. /\ Coverage(p) \in 0 .. 100
      /\ Coverage(p) = 100 <=> n = 0
  <2>1. n = 0 \/ n = 1 \/ n = 2 \/ n = 3
    OBVIOUS
  <2> QED BY <1>4, <2>1
<1> QED BY <1>1, <1>3, <1>4, <1>5

LEMMA AverageExact ==
    ASSUME NEW coverage, \A r \in Repos : coverage[r] \in 0 .. 100
    PROVE  /\ AverageOf(coverage) \in 0 .. 100
           /\ AverageOf(coverage) = 100 <=> \A r \in Repos : coverage[r] = 100
<1>1. Repos = { "Jeryu", "Jekko", "Jankurai", "Jailgun" }
  BY DEF Repos, RoleOf
<1>2. PICK a, b, c, d \in 0 .. 100 :
        a = coverage["Jeryu"] /\ b = coverage["Jekko"] /\ c = coverage["Jankurai"]
          /\ d = coverage["Jailgun"]
  BY <1>1
<1>3. AverageOf(coverage) = (a + b + c + d) \div 4
  BY <1>2 DEF AverageOf
<1>4. /\ (a + b + c + d) \div 4 \in 0 .. 100
      /\ (a + b + c + d) \div 4 = 100 <=> a = 100 /\ b = 100 /\ c = 100 /\ d = 100
  OBVIOUS
<1> QED BY <1>1, <1>2, <1>3, <1>4

(* An answer that came without a reason is a well-formed one.              *)
LEMMA SnapshotReasons ==
    ASSUME NEW answer
    PROVE  /\ Snapshot(answer).live \in BOOLEAN
           /\ ~ Snapshot(answer).live => Snapshot(answer).reason # {}
           /\ Snapshot(answer).reason = {} =>
                /\ answer.failure = None
                /\ \A i \in DOMAIN answer.tools : answer.tools[i].whole
<1>1. CASE answer.failure # None
  BY <1>1 DEF Snapshot, Degraded
<1>2. CASE answer.failure = None
  <2> DEFINE tools == [i \in DOMAIN answer.tools |-> NormalTool(answer.tools[i])]
             live == tools # << >>
             reason == IF ~ live THEN { "no tools" }
                       ELSE IF \E i \in DOMAIN answer.tools : ~ answer.tools[i].whole
                            THEN { "missing fields" } ELSE {}
  <2>1. Snapshot(answer).live = live /\ Snapshot(answer).reason = reason
    BY <1>2 DEF Snapshot, Normalize
  <2> HIDE DEF tools
  <2> QED BY <1>2, <2>1
<1> QED BY <1>1, <1>2

(* Degradation is explicit, whatever Jeryu says and whatever the store     *)
(* holds: a picture that is not live says why, of each repository too.     *)
THEOREM DegradationAlwaysExplicit == UniverseSpec => []DegradationExplicit
<1>1. PictureInv => DegradationExplicit
  <2> SUFFICES ASSUME PictureInv, reader.pc = "done"
               PROVE  DegradationExplicit
    BY DEF DegradationExplicit
  <2>1. PICK at, leases : reader.picture = Compose(at, leases, reader.snapshot)
    BY DEF PictureInv
  <2> DEFINE snapshot == reader.snapshot
             answer   == reader.answer
             places   == [r \in Repos |-> Placement(r, at, leases)]
             place(r) == places[r]
             coverage == [r \in Repos |-> Coverage(place(r))]
             covered  == \A r \in Repos : coverage[r] = 100
             reasons  == UNION { RepoReasons(r, place(r), snapshot) : r \in Repos }
             live     == covered /\ snapshot.live
             observed == (AverageOf(coverage) + (IF snapshot.live THEN 100 ELSE 0)) \div 2
             shown    == IF live THEN {} ELSE reasons \cup JeryuReasons(snapshot)
  <2>2. /\ reader.picture.live = live
        /\ reader.picture.coverage = coverage
        /\ reader.picture.observed = observed
        /\ reader.picture.reasons = shown
    <3> QED BY <2>1 DEF Compose
  <2>3. /\ snapshot.live \in BOOLEAN
        /\ ~ snapshot.live => snapshot.reason # {}
        /\ snapshot.reason = {} =>
             /\ answer.failure = None
             /\ \A i \in DOMAIN answer.tools : answer.tools[i].whole
    BY SnapshotReasons DEF PictureInv
  <2>4. \A r \in Repos :
          /\ coverage[r] \in 0 .. 100
          /\ coverage[r] # 100 =>
               \E field \in { "task", "branch", "pool" } : << r, field >> \in reasons
    <3> TAKE r \in Repos
    <3>1. coverage[r] = Coverage(place(r))
      OBVIOUS
    <3>2. \A field \in Missing(place(r)) : << r, field >> \in reasons
      <4>1. \A field \in Missing(place(r)) : << r, field >> \in RepoReasons(r, place(r), snapshot)
        BY DEF RepoReasons
      <4> HIDE DEF place
      <4> QED BY <4>1
    <3> HIDE DEF place, reasons
    <3> QED BY <3>1, <3>2, CoverageExact
  <2>5. /\ AverageOf(coverage) \in 0 .. 100
        /\ AverageOf(coverage) = 100 <=> covered
    <3>1. \A r \in Repos : coverage[r] \in 0 .. 100
      BY <2>4
    <3> HIDE DEF coverage
    <3> QED BY <3>1, AverageExact
  <2>6. ~ live => shown # {}
    <3>1. CASE ~ covered
      <4>1. PICK r \in Repos : coverage[r] # 100
        BY <3>1
      <4> HIDE DEF coverage, reasons
      <4> QED BY <2>4, <3>1, <4>1
    <3>2. CASE ~ snapshot.live
      <4>1. PICK why : why \in snapshot.reason
        BY <2>3, <3>2
      <4>2. << "ecosystem", why >> \in JeryuReasons(snapshot)
        BY <4>1 DEF JeryuReasons
      <4>3. ~ live /\ shown = reasons \cup JeryuReasons(snapshot)
        BY <3>2
      <4> HIDE DEF shown, reasons, live
      <4> QED BY <4>2, <4>3
    <3> QED BY <3>1, <3>2
  <2>7. \A r \in Repos : coverage[r] < 100 =>
          \E field \in { "task", "branch", "pool" } : << r, field >> \in shown
    <3> TAKE r \in Repos
    <3> HAVE coverage[r] < 100
    <3>1. coverage[r] # 100
      <4>1. coverage[r] \in 0 .. 100
        BY <2>4
      <4> HIDE DEF coverage
      <4> QED BY <4>1
    <3> HIDE DEF coverage, reasons
    <3> QED BY <2>4, <3>1
  <2>8. live <=> observed = 100
    <3>1. PICK average \in 0 .. 100 : average = AverageOf(coverage)
      BY <2>5
    <3>2. observed = (average + (IF snapshot.live THEN 100 ELSE 0)) \div 2
      BY <3>1
    <3>3. observed = 100 <=> average = 100 /\ snapshot.live
      <4> HIDE DEF coverage, snapshot, observed
      <4>1. CASE snapshot.live
        <5>1. observed = (average + 100) \div 2
          BY <3>2, <4>1
        <5> QED BY <4>1, <5>1
      <4>2. CASE ~ snapshot.live
        <5>1. observed = (average + 0) \div 2
          BY <3>2, <4>2
        <5> QED BY <4>2, <5>1
      <4> QED BY <4>1, <4>2
    <3> HIDE DEF coverage, observed, covered
    <3> QED BY <2>5, <3>1, <3>3
  <2> HIDE DEF live, coverage, observed, shown
  <2> QED BY <2>2, <2>3, <2>6, <2>7, <2>8 DEF DegradationExplicit
<1> QED BY <1>1, PictureInit, PictureStep, PTL DEF UniverseSpec

-----------------------------------------------------------------------------
(* Nodes. *)

LEMMA RankIsSmall == ASSUME NEW health PROVE Rank(health) \in 0 .. 2
BY DEF Rank

(* The health derived from tools ranks with the worst of them.             *)
LEMMA WorstToolCounts ==
    ASSUME NEW tools, NEW repo, NEW i \in ToolsOf(tools, repo)
    PROVE  Rank(DeriveHealth(tools, repo)) >= Rank(tools[i].health)
<1> DEFINE ranks == { Rank(tools[j].health) : j \in ToolsOf(tools, repo) }
           worst == CHOOSE r \in ranks : \A s \in ranks : s =< r
           mine  == Rank(tools[i].health)
<1>1. mine \in ranks /\ ranks \subseteq 0 .. 2
  BY RankIsSmall
<1>2. worst \in ranks /\ mine =< worst
  <2> HIDE DEF ranks, mine
  <2>1. \E r \in ranks : \A s \in ranks : s =< r
    <3>1. CASE 2 \in ranks
      BY <1>1, <3>1
    <3>2. CASE 2 \notin ranks /\ 1 \in ranks
      BY <1>1, <3>2
    <3>3. CASE 2 \notin ranks /\ 1 \notin ranks
      BY <1>1, <3>3
    <3> QED BY <3>1, <3>2, <3>3
  <2> QED BY <1>1, <2>1
<1>3. DeriveHealth(tools, repo) = << "nominal", "watch", "degraded" >>[1 + worst]
  <2>1. DeriveHealth(tools, repo) =
          IF ranks = {} THEN None ELSE << "nominal", "watch", "degraded" >>[1 + worst]
    BY DEF DeriveHealth
  <2> HIDE DEF ranks, worst
  <2> QED BY <1>1, <2>1
<1>4. worst = 0 \/ worst = 1 \/ worst = 2
  <2> HIDE DEF ranks, worst
  <2> QED BY <1>1, <1>2
<1>5. Rank(DeriveHealth(tools, repo)) = worst
  <2> HIDE DEF worst
  <2> QED BY <1>3, <1>4 DEF Rank
<1> HIDE DEF worst, mine, ranks
<1>6. Rank(DeriveHealth(tools, repo)) >= mine
  BY <1>1, <1>2, <1>4, <1>5
<1> QED BY <1>6 DEF mine

(* No tool is lost between Jeryu and the picture, and no repository looks  *)
(* better than the worst of its tools unless Jeryu itself says so.         *)
THEOREM NodesAlwaysFaithful == UniverseSpec => []NodesFaithful
<1>1. PictureInv => NodesFaithful
  <2> SUFFICES ASSUME PictureInv, reader.pc = "done"
               PROVE  NodesFaithful
    BY DEF NodesFaithful
  <2> DEFINE answer == reader.answer
             tools  == reader.snapshot.tools
             nodes  == reader.snapshot.nodes
             Vouched(name) == \E j \in DOMAIN answer.records :
                                answer.records[j].name = name /\ answer.records[j].health # None
             Healthy(node) == \A i \in ToolsOf(tools, node.name) :
                                Vouched(node.name) \/ Rank(node.health) >= Rank(tools[i].health)
  <2>1. reader.snapshot = Snapshot(answer) /\ answer.tools \in Seq(RawTools)
    BY AnswersAssumption DEF PictureInv
  <2>2. CASE answer.failure # None
    <3>1. tools = << >> /\ nodes = {}
      BY <2>1, <2>2 DEF Snapshot, Degraded
    <3> QED BY <2>2, <3>1 DEF NodesFaithful
  <2>3. CASE answer.failure = None
    <3> DEFINE normal == [i \in DOMAIN answer.tools |-> NormalTool(answer.tools[i])]
    <3>1. tools = normal /\ nodes = Nodes(answer.records, normal)
      <4>1. Snapshot(answer).tools = normal
        BY <2>3 DEF Snapshot, Normalize
      <4>2. Snapshot(answer).nodes = Nodes(answer.records, normal)
        BY <2>3 DEF Snapshot, Normalize
      <4> HIDE DEF normal
      <4> QED BY <2>1, <4>1, <4>2
    <3>2. Len(tools) = Len(answer.tools)
      <4>1. PICK n \in Nat : DOMAIN answer.tools = 1 .. n /\ Len(answer.tools) = n
        BY <2>1
      <4>2. DOMAIN normal = 1 .. n
        BY <4>1
      <4> DEFINE Values == { normal[i] : i \in 1 .. n }
      <4>3. normal \in [1 .. n -> Values]
        <5>1. normal = [i \in 1 .. n |-> normal[i]]
          BY <4>1
        <5> HIDE DEF normal
        <5>2. \A i \in 1 .. n : normal[i] \in Values
          OBVIOUS
        <5> HIDE DEF Values
        <5> QED BY <5>1, <5>2
      <4>4. normal \in Seq(Values)
        BY <4>1, <4>3, SeqDef
      <4>5. DOMAIN normal = 1 .. Len(normal) /\ Len(normal) \in Nat
        <5> HIDE DEF normal, Values
        <5> QED BY <4>4, LenProperties
      <4> HIDE DEF normal
      <4>6. Len(normal) = n
        <5> DEFINE m == Len(normal)
        <5>1. m \in Nat /\ 1 .. m = 1 .. n
          BY <4>2, <4>5
        <5> HIDE DEF m
        <5>2. m = n
          BY <4>1, <5>1
        <5> QED BY <5>2 DEF m
      <4> QED BY <3>1, <4>1, <4>6
    <3> HIDE DEF normal
    <3>3. answer.records = << >> =>
            \A i \in DOMAIN tools : tools[i].repo \in { node.name : node \in nodes } \cup { None }
      <4> SUFFICES ASSUME answer.records = << >>, NEW i \in DOMAIN tools, tools[i].repo # None
                   PROVE  tools[i].repo \in { node.name : node \in nodes }
        OBVIOUS
      <4> DEFINE repo == tools[i].repo
                 node == Node(repo, DeriveHealth(tools, repo), tools)
      <4>1. node \in nodes
        BY <3>1 DEF Nodes, NodesFromTools
      <4>2. node.name = repo
        BY DEF Node
      <4> HIDE DEF node
      <4> QED BY <4>1, <4>2
    <3>4. ASSUME NEW node \in nodes
          PROVE  Healthy(node)
      <4>1. CASE answer.records = << >>
        <5>1. PICK repo : node = Node(repo, DeriveHealth(tools, repo), tools)
          BY <3>1, <4>1 DEF Nodes, NodesFromTools
        <5>2. node.name = repo /\ node.health = DeriveHealth(tools, repo)
          BY <5>1 DEF Node
        <5> QED BY <5>2, WorstToolCounts
      <4>2. CASE answer.records # << >>
        <5>1. PICK j \in DOMAIN answer.records :
                LET r == answer.records[j]
                IN  node = Node(r.name, Unless(r.health, DeriveHealth(tools, r.name)), tools)
          BY <3>1, <4>2 DEF Nodes, NodesFromRecords
        <5> DEFINE r == answer.records[j]
        <5>2. node.name = r.name /\ node.health = Unless(r.health, DeriveHealth(tools, r.name))
          BY <5>1 DEF Node
        <5>3. CASE r.health # None
          BY <5>2, <5>3
        <5>4. CASE r.health = None
          <6>1. node.health = DeriveHealth(tools, node.name)
            BY <5>2, <5>4 DEF Unless
          <6> QED BY <6>1, WorstToolCounts
        <5> QED BY <5>3, <5>4
      <4> QED BY <4>1, <4>2
    <3> HIDE DEF tools, nodes, Healthy
    <3> QED BY <3>2, <3>3, <3>4 DEF NodesFaithful, tools, nodes, Healthy
  <2> QED BY <2>2, <2>3
<1> QED BY <1>1, PictureInit, PictureStep, PTL DEF UniverseSpec
=============================================================================
