--------------------------- MODULE EventStoreProofs ---------------------------
(***************************************************************************)
(* Theorems about EventStore, for every set of orders, keys, contents and  *)
(* streams and every bound on the log.                                     *)
(*                                                                         *)
(* The first part is about Fold: that it is the loop it looks like, one    *)
(* turn for each event.  Fold is a recursive function, so this takes an    *)
(* induction over the naturals.  The rest needs of Fold only FoldEmpty and *)
(* FoldAppend, and of the log LogInduction.                                *)
(***************************************************************************)
EXTENDS EventStore, FiniteSetTheorems, SequenceTheorems, WellFoundedInduction, TLAPS

(* Induction over the naturals, for a set.  The naturals are well founded, *)
(* so a set that starts at 0 and is closed under the next has no least     *)
(* number outside.                                                         *)
LEMMA NatSetInduction ==
    ASSUME NEW T, 0 \in T, \A n \in Nat : n \in T => n + 1 \in T
    PROVE  Nat \subseteq T
<1> SUFFICES ASSUME Nat \ T # {} PROVE FALSE
  OBVIOUS
<1>1. \E m \in Nat \ T : \A k \in Nat \ T : ~ (k < m)
  <2>1. Nat \ T \subseteq Nat
    OBVIOUS
  <2>2. \E m \in Nat \ T : \A k \in Nat \ T : ~ (<< k, m >> \in OpToRel(<, Nat))
    BY <2>1, WFMin, NatLessThanWellFounded, Zenon
  <2> QED BY <2>2, Zenon DEF OpToRel
<1>2. PICK m \in Nat \ T : \A k \in Nat \ T : ~ (k < m)
  BY <1>1
<1>3. m # 0 /\ m - 1 \in Nat
  OBVIOUS
<1>4. m - 1 \in T
  BY <1>2, <1>3
<1> QED BY <1>3, <1>4

(* The loop of replay_projection over `events`, one turn per position.     *)
Turns(events, n, f) ==
    [i \in 0 .. n |-> IF i = 0 THEN EmptyTables ELSE Replayed(f[i - 1], events[i])]

After(events) == CHOOSE f : f = Turns(events, Len(events), f)

LEMMA TurnsExist ==
    ASSUME NEW events, NEW n \in Nat
    PROVE  \E f : f = Turns(events, n, f)
<1> DEFINE T == { m \in Nat : \E f : f = Turns(events, m, f) }
<1>1. 0 \in T
  <2>1. [i \in 0 .. 0 |-> EmptyTables] = Turns(events, 0, [i \in 0 .. 0 |-> EmptyTables])
    BY DEF Turns
  <2> QED BY <2>1
<1>2. ASSUME NEW m \in Nat, m \in T
      PROVE  m + 1 \in T
  <2>1. PICK f : f = Turns(events, m, f)
    BY <1>2
  <2> DEFINE g == Turns(events, m + 1, f)
  <2>2. ASSUME NEW i \in 0 .. m
        PROVE  f[i] = g[i]
    <3>1. f[i] = Turns(events, m, f)[i]
      BY <2>1
    <3> HIDE <2>1
    <3> QED BY <3>1 DEF Turns
  <2>3. g = Turns(events, m + 1, g)
    <3> HIDE DEF g
    <3>1. ASSUME NEW i \in 0 .. m + 1, i # 0
          PROVE  f[i - 1] = g[i - 1]
      BY <2>2, <3>1
    <3>2. g = Turns(events, m + 1, f)
      BY DEF g
    <3> QED BY <3>1, <3>2 DEF Turns
  <2> QED BY <2>3
<1> HIDE DEF T
<1>3. n \in T
  BY <1>1, <1>2, NatSetInduction
<1> QED BY <1>3 DEF T

LEMMA AfterTurns ==
    ASSUME NEW events \in Seq(Event)
    PROVE  After(events) = Turns(events, Len(events), After(events))
<1>1. \E f : f = Turns(events, Len(events), f)
  BY TurnsExist
<1> QED BY <1>1 DEF After

LEMMA FoldIsAfter ==
    ASSUME NEW events
    PROVE  Fold(events) = After(events)[Len(events)]
BY DEF Fold, After, Turns

LEMMA FoldEmpty == Fold(<< >>) = EmptyTables
<1>1. After(<< >>) = Turns(<< >>, 0, After(<< >>))
  <2>1. << >> \in Seq(Event) /\ Len(<< >>) = 0
    OBVIOUS
  <2>2. After(<< >>) = Turns(<< >>, Len(<< >>), After(<< >>))
    BY <2>1, AfterTurns
  <2> QED BY <2>1, <2>2
<1>2. After(<< >>)[0] = EmptyTables
  BY <1>1 DEF Turns
<1> QED BY <1>2, FoldIsAfter

(* One more event is one more turn. *)
LEMMA FoldAppend ==
    ASSUME NEW events \in Seq(Event), NEW e \in Event
    PROVE  Fold(Append(events, e)) = Replayed(Fold(events), e)
<1> DEFINE more == Append(events, e)
           f    == After(events)
           g    == After(more)
<1>1. /\ more \in Seq(Event) /\ Len(more) = Len(events) + 1 /\ Len(events) \in Nat
      /\ more[Len(events) + 1] = e /\ \A i \in 1 .. Len(events) : more[i] = events[i]
  OBVIOUS
<1> HIDE DEF more
<1>2. f = Turns(events, Len(events), f) /\ g = Turns(more, Len(events) + 1, g)
  BY <1>1, AfterTurns
<1> HIDE DEF f, g
<1>3. f[0] = EmptyTables /\ g[0] = EmptyTables
  BY <1>1, <1>2 DEF Turns
<1>4. ASSUME NEW i \in 1 .. Len(events)
      PROVE  f[i] = Replayed(f[i - 1], events[i]) /\ g[i] = Replayed(g[i - 1], events[i])
  <2>1. f[i] = Turns(events, Len(events), f)[i] /\ g[i] = Turns(more, Len(events) + 1, g)[i]
    BY <1>2
  <2>2. i # 0 /\ i \in 0 .. Len(events) /\ i \in 0 .. Len(events) + 1
    BY <1>1
  <2> QED BY <1>1, <2>1, <2>2 DEF Turns
<1>5. g[Len(events) + 1] = Replayed(g[Len(events)], e)
  <2>1. g[Len(events) + 1] = Turns(more, Len(events) + 1, g)[Len(events) + 1]
    BY <1>2
  <2> QED BY <1>1, <2>1 DEF Turns
<1> DEFINE T == { n \in Nat : n =< Len(events) => f[n] = g[n] }
<1>6. 0 \in T
  BY <1>3
<1>7. ASSUME NEW n \in Nat, n \in T
      PROVE  n + 1 \in T
  <2>1. CASE n + 1 =< Len(events)
    <3>1. f[n] = g[n] /\ n + 1 \in 1 .. Len(events) /\ n + 1 - 1 = n
      BY <1>1, <1>7, <2>1
    <3>2. f[n + 1] = g[n + 1]
      BY <1>4, <3>1
    <3> QED BY <3>2
  <2> QED BY <2>1
<1> HIDE DEF T
<1>8. Len(events) \in T
  BY <1>1, <1>6, <1>7, NatSetInduction
<1>9. f[Len(events)] = g[Len(events)]
  BY <1>1, <1>8 DEF T
<1> QED BY <1>1, <1>5, <1>9, FoldIsAfter DEF f, g, more

-----------------------------------------------------------------------------
(* What replay makes of the log, event by event.                           *)

LEMMA ReplayOfPrefix ==
    ASSUME log \in Seq(Event), NEW e \in Event, log' = Append(log, e), NEW n \in 0 .. Len(log)
    PROVE  Replay(n)' = Replay(n)
<1>1. SubSeq(log', 1, n) = SubSeq(log, 1, n)
  OBVIOUS
<1> QED BY <1>1 DEF Replay

LEMMA ReplayNone ==
    ASSUME log \in Seq(Event)
    PROVE  Replay(0) = EmptyTables
<1>1. SubSeq(log, 1, 0) = << >>
  OBVIOUS
<1> QED BY <1>1, FoldEmpty DEF Replay

LEMMA ReplayOfMore ==
    ASSUME log \in Seq(Event), NEW e \in Event, log' = Append(log, e)
    PROVE  Replay(Len(log))' = Replayed(Replay(Len(log)), e)
<1>1. SubSeq(log', 1, Len(log')) = Append(log, e) /\ SubSeq(log, 1, Len(log)) = log
  OBVIOUS
<1> QED BY <1>1, FoldAppend DEF Replay

(* What one event does to tables that have their type. *)
LEMMA EmptyTablesOK == EmptyTables \in Tables /\ Known(EmptyTables) = {}
BY DEF Tables, EmptyTables, Known

LEMMA ProjectedOrder ==
    ASSUME NEW t, NEW e \in OrderEvent
    PROVE  Projected(t, e) = [t EXCEPT !.orders[e.order] = e.row]
BY DEF Projected, OrderEvent

LEMMA ProjectedRow ==
    ASSUME NEW t, NEW e \in RowEvent
    PROVE  Projected(t, e) = [t EXCEPT !.rows[e.key] = e.row]
BY DEF Projected, RowEvent

LEMMA ProjectedEvidence ==
    ASSUME NEW t, NEW e \in EvidenceEvent
    PROVE  Projected(t, e) =
             [t EXCEPT !.evidence = Append(@, [order |-> e.order, uri |-> e.uri])]
BY DEF Projected, EvidenceEvent

LEMMA ProjectedOK ==
    ASSUME NEW t \in Tables, NEW e \in Event
    PROVE  /\ Projected(t, e) \in Tables
           /\ \E w : Known(Projected(t, e)) \subseteq Known(t) \cup { w }
<1>1. CASE e \in OrderEvent
  <2>1. /\ Projected(t, e).orders = [t.orders EXCEPT ![e.order] = e.row]
        /\ Projected(t, e) \in Tables
    <3> DEFINE orders == [t.orders EXCEPT ![e.order] = e.row]
    <3>1. Projected(t, e) = [t EXCEPT !.orders[e.order] = e.row]
      BY <1>1, ProjectedOrder
    <3>2. Projected(t, e) = [t EXCEPT !.orders = orders]
      BY <3>1
    <3>3. orders \in [Orders -> { NoOrder } \cup OrderRow]
      BY <1>1 DEF Tables, OrderEvent
    <3> HIDE DEF orders
    <3>4. Projected(t, e).orders = orders /\ Projected(t, e) \in Tables
      BY <3>2, <3>3 DEF Tables
    <3> QED BY <3>4 DEF orders
  <2> QED BY <2>1 DEF Known, Tables
<1>2. CASE e \in RowEvent
  BY <1>2, ProjectedRow DEF Tables, RowEvent, Known
<1>3. CASE e \in EvidenceEvent
  <2>1. [order |-> e.order, uri |-> e.uri] \in Evidence /\ t.evidence \in Seq(Evidence)
    BY <1>3 DEF EvidenceEvent, Evidence, Tables
  <2>2. Append(t.evidence, [order |-> e.order, uri |-> e.uri]) \in Seq(Evidence)
    BY <2>1
  <2>3. Projected(t, e) =
          [t EXCEPT !.evidence = Append(t.evidence, [order |-> e.order, uri |-> e.uri])]
    BY <1>3, ProjectedEvidence
  <2> QED BY <2>2, <2>3 DEF Tables, Known
<1> QED BY <1>1, <1>2, <1>3 DEF Event

LEMMA WithEvidenceOK ==
    ASSUME NEW t \in Tables, NEW e \in EvidenceEvent
    PROVE  /\ WithEvidence(t, e) \in Tables
           /\ WithEvidence(t, e).rows = t.rows
           /\ WithEvidence(t, e).evidence = t.evidence
           /\ Known(WithEvidence(t, e)) \subseteq Known(t)
           /\ \A w \in Orders : w # e.order => WithEvidence(t, e).orders[w] = t.orders[w]
<1>1. CASE e.order \in Orders /\ t.orders[e.order] # NoOrder
  <2> DEFINE row == [t.orders[e.order] EXCEPT !.evidence = @ \cup { e.uri }]
  <2>1. WithEvidence(t, e) = [t EXCEPT !.orders = [t.orders EXCEPT ![e.order] = row]]
    BY <1>1 DEF WithEvidence
  <2>2. t.orders[e.order] \in OrderRow /\ e.uri \in Uris
    BY <1>1 DEF Tables, EvidenceEvent
  <2>3. row \in OrderRow
    BY <2>2 DEF OrderRow
  <2> HIDE DEF row
  <2> QED BY <1>1, <2>1, <2>3 DEF Tables, Known
<1>2. CASE ~ (e.order \in Orders /\ t.orders[e.order] # NoOrder)
  BY <1>2 DEF WithEvidence
<1> QED BY <1>1, <1>2

LEMMA ReplayedOK ==
    ASSUME NEW t \in Tables, NEW e \in Event
    PROVE  /\ Replayed(t, e) \in Tables
           /\ \E w : Known(Replayed(t, e)) \subseteq Known(t) \cup { w }
<1>1. CASE e \in OrderEvent /\ e.kind = "microtask"
  BY <1>1 DEF Replayed
<1>2. CASE (e \in OrderEvent /\ e.kind = "work_order") \/ e \in RowEvent
  <2>1. Replayed(t, e) = Projected(t, e)
    BY <1>2 DEF Replayed, OrderEvent, RowEvent
  <2> QED BY <2>1, ProjectedOK
<1>3. CASE e \in EvidenceEvent
  <2>1. Replayed(t, e) = Projected(WithEvidence(t, e), e)
    BY <1>3 DEF Replayed, EvidenceEvent
  <2> QED BY <1>3, <2>1, WithEvidenceOK, ProjectedOK
<1> QED BY <1>1, <1>2, <1>3 DEF Event, OrderEvent

-----------------------------------------------------------------------------
(* Types, and the rebuild: what it has in hand is what the log says, since *)
(* nobody writes while it holds the lock.  Replay is typed, and knows      *)
(* finitely many orders, at every point of the log.                        *)
StoreInv ==
    /\ log \in Seq(Event) /\ Len(log) =< MaxEvents
    /\ tables \in Tables
    /\ \A n \in 0 .. Len(log) : Replay(n) \in Tables /\ IsFiniteSet(Known(Replay(n)))
    /\ \/ rebuild = NoRebuild
       \/ rebuild.pc = "replace" /\ rebuild.view = Replay(Len(log))
       \/ rebuild.pc = "checkpoint" /\ rebuild.last = Len(log) /\ tables = Replay(Len(log))
    /\ \A p \in checkpoints :
         /\ p.last_event_id \in 0 .. Len(log)
         /\ p.rebuilt_work_orders = Cardinality(Known(Replay(p.last_event_id)))

LEMMA StoreInvInit == StoreInit => StoreInv
<1> SUFFICES ASSUME StoreInit PROVE StoreInv
  OBVIOUS
<1>1. log \in Seq(Event) /\ Len(log) = 0
  BY DEF StoreInit
<1>2. Replay(0) = EmptyTables
  BY <1>1, ReplayNone
<1>3. Replay(0) \in Tables /\ IsFiniteSet(Known(Replay(0)))
  BY <1>2, EmptyTablesOK, FS_EmptySet
<1>4. 0 .. Len(log) = { 0 }
  BY <1>1
<1> QED BY <1>1, <1>3, <1>4, EmptyTablesOK, MaxEventsAssumption DEF StoreInit, StoreInv

LEMMA RecordStep ==
    ASSUME StoreInv, NEW e \in Event, Record(e)
    PROVE  StoreInv'
<1> USE DEF StoreInv
<1>1. /\ log' = Append(log, e) /\ tables' = Projected(tables, e)
      /\ rebuild = NoRebuild /\ rebuild' = NoRebuild /\ checkpoints' = checkpoints
      /\ Len(log) < MaxEvents
  BY DEF Record, LockFree
<1>2. log' \in Seq(Event) /\ Len(log') = Len(log) + 1 /\ Len(log') =< MaxEvents
  BY <1>1, MaxEventsAssumption
<1>3. tables' \in Tables
  BY <1>1, ProjectedOK
<1>4. ASSUME NEW n \in 0 .. Len(log)
      PROVE  Replay(n)' = Replay(n) /\ Known(Replay(n))' = Known(Replay(n))
  BY <1>1, ReplayOfPrefix DEF Known
<1>5. ASSUME NEW n \in 0 .. Len(log')
      PROVE  (Replay(n) \in Tables /\ IsFiniteSet(Known(Replay(n))))'
  <2>1. CASE n \in 0 .. Len(log)
    BY <1>4, <2>1
  <2>2. CASE n = Len(log')
    <3> DEFINE before == Replay(Len(log))
    <3>1. before \in Tables /\ IsFiniteSet(Known(before))
      OBVIOUS
    <3>2. Replay(n)' = Replayed(before, e)
      BY <1>1, <2>2, ReplayOfMore DEF Replay
    <3> HIDE DEF before
    <3>3. PICK w : Known(Replayed(before, e)) \subseteq Known(before) \cup { w }
      BY <3>1, ReplayedOK
    <3>4. IsFiniteSet(Known(before) \cup { w })
      BY <3>1, FS_AddElement
    <3>5. IsFiniteSet(Known(Replayed(before, e)))
      BY <3>3, <3>4, FS_Subset
    <3>6. Known(Replay(n))' = Known(Replayed(before, e))
      BY <3>2 DEF Known
    <3> QED BY <3>1, <3>2, <3>5, <3>6, ReplayedOK
  <2> QED BY <1>2, <2>1, <2>2
<1>6. ASSUME NEW p \in checkpoints
      PROVE  /\ p.last_event_id \in 0 .. Len(log')
             /\ p.rebuilt_work_orders = Cardinality(Known(Replay(p.last_event_id)))'
  <2>1. p.last_event_id \in 0 .. Len(log) /\ p.last_event_id \in 0 .. Len(log')
    BY <1>2
  <2> QED BY <1>4, <2>1
<1> QED BY <1>1, <1>2, <1>3, <1>5, <1>6

LEMMA OtherStep ==
    ASSUME StoreInv, [StoreNext]_storeVars, UNCHANGED log
    PROVE  StoreInv'
<1> USE DEF StoreInv
<1>1. \A n : Replay(n)' = Replay(n)
  BY DEF Replay
<1>2. \A n : Known(Replay(n))' = Known(Replay(n))
  BY <1>1 DEF Known
<1>3. Len(log) \in 0 .. Len(log)
  OBVIOUS
<1>4. CASE RebuildRead
  BY <1>1, <1>2, <1>4 DEF RebuildRead
<1>5. CASE RebuildReplace
  <2>1. rebuild.view = Replay(Len(log)) /\ rebuild # NoRebuild
    BY <1>5 DEF RebuildReplace, NoRebuild
  <2> QED BY <1>1, <1>2, <1>3, <1>5, <2>1 DEF RebuildReplace
<1>6. CASE RebuildCheckpoint
  <2>1. /\ rebuild.last = Len(log) /\ tables = Replay(Len(log)) /\ rebuild' = NoRebuild
        /\ checkpoints' = checkpoints \cup
             { [last_event_id |-> Len(log),
                rebuilt_work_orders |-> Cardinality(Known(Replay(Len(log))))] }
        /\ UNCHANGED tables
    BY <1>6 DEF RebuildCheckpoint, NoRebuild
  <2> QED BY <1>1, <1>2, <1>3, <2>1
<1>7. CASE UNCHANGED << tables, checkpoints >> /\ (rebuild' = NoRebuild \/ UNCHANGED rebuild)
  BY <1>1, <1>2, <1>7
<1>8. CASE \E e \in Event : Record(e)
  <2>1. PICK e \in Event : log' = Append(log, e)
    BY <1>8 DEF Record
  <2>2. Len(log') = Len(log) + 1
    BY <2>1
  <2> QED BY <2>2
<1> QED BY <1>4, <1>5, <1>6, <1>7, <1>8
        DEF StoreNext, RebuildFails, OpenStream, CloseStream, Poll, Restart, storeVars

LEMMA StoreInvStep == StoreInv /\ [StoreNext]_storeVars => StoreInv'
<1> SUFFICES ASSUME StoreInv, [StoreNext]_storeVars PROVE StoreInv'
  OBVIOUS
<1>1. UNCHANGED log \/ \E e \in Event : Record(e)
  BY DEF StoreNext, RebuildRead, RebuildReplace, RebuildCheckpoint, RebuildFails, OpenStream,
     CloseStream, Poll, Restart, storeVars
<1> QED BY <1>1, RecordStep, OtherStep

LEMMA StoreInvariance == StoreSpec => []StoreInv
BY StoreInvInit, StoreInvStep, PTL DEF StoreSpec

(* A checkpoint stays true of the events it names, however much the log    *)
(* grows behind it, and whatever fails before or after it is written       *)
(* (rebuild_work_order_projection_from_events).                            *)
THEOREM CheckpointsTrue == StoreSpec => []CheckpointsHold
<1>1. StoreInv => CheckpointsHold
  BY DEF StoreInv, CheckpointsHold, NoRebuild
<1> QED BY <1>1, StoreInvariance, PTL

-----------------------------------------------------------------------------
(* The two projections, side by side.                                      *)

(* What an event makes of tables `t`, live, and of tables `r`, in replay.  *)
LEMMA OneEvent ==
    ASSUME NEW t \in Tables, NEW r \in Tables, NEW e \in Event,
           t.rows = r.rows, t.evidence = r.evidence
    PROVE  /\ Projected(t, e).rows = Replayed(r, e).rows
           /\ Projected(t, e).evidence = Replayed(r, e).evidence
           /\ \A w \in Orders : e.kind = "row" \/ e.order # w =>
                /\ Projected(t, e).orders[w] = t.orders[w]
                /\ Replayed(r, e).orders[w] = r.orders[w]
           /\ e.kind = "work_order" =>
                Projected(t, e).orders[e.order] = Replayed(r, e).orders[e.order]
<1>1. CASE e \in OrderEvent
  <2>1. /\ e.order \in Orders /\ e.row \in OrderRow /\ e.kind \in { "work_order", "microtask" }
        /\ Projected(t, e) = [t EXCEPT !.orders = [t.orders EXCEPT ![e.order] = e.row]]
        /\ Projected(r, e) = [r EXCEPT !.orders = [r.orders EXCEPT ![e.order] = e.row]]
    BY <1>1, ProjectedOrder DEF OrderEvent
  <2>2. CASE e.kind = "work_order"
    <3>1. Replayed(r, e) = Projected(r, e)
      BY <2>2 DEF Replayed
    <3> QED BY <2>1, <2>2, <3>1 DEF Tables
  <2>3. CASE e.kind = "microtask"
    <3>1. Replayed(r, e) = r
      BY <2>3 DEF Replayed
    <3> QED BY <2>1, <2>3, <3>1 DEF Tables
  <2> QED BY <2>1, <2>2, <2>3
<1>2. CASE e \in RowEvent
  <2>1. /\ e.kind = "row" /\ e.key \in Keys /\ e.row \in Contents
        /\ Projected(t, e) = [t EXCEPT !.rows = [t.rows EXCEPT ![e.key] = e.row]]
        /\ Projected(r, e) = [r EXCEPT !.rows = [r.rows EXCEPT ![e.key] = e.row]]
    BY <1>2, ProjectedRow DEF RowEvent
  <2>2. Replayed(r, e) = Projected(r, e)
    BY <2>1 DEF Replayed
  <2> QED BY <2>1, <2>2 DEF Tables
<1>3. CASE e \in EvidenceEvent
  <2> DEFINE v    == WithEvidence(r, e)
             item == [order |-> e.order, uri |-> e.uri]
  <2>1. /\ v \in Tables /\ v.rows = r.rows /\ v.evidence = r.evidence
        /\ \A w \in Orders : w # e.order => v.orders[w] = r.orders[w]
    BY <1>3, WithEvidenceOK
  <2>2. /\ e.kind = "evidence"
        /\ Projected(t, e) = [t EXCEPT !.evidence = Append(t.evidence, item)]
        /\ Projected(v, e) = [v EXCEPT !.evidence = Append(v.evidence, item)]
    BY <1>3, ProjectedEvidence DEF EvidenceEvent
  <2>3. Replayed(r, e) = Projected(v, e)
    BY <2>2 DEF Replayed
  <2> HIDE DEF v, item
  <2> QED BY <2>1, <2>2, <2>3 DEF Tables
<1> QED BY <1>1, <1>2, <1>3 DEF Event

LEMMA TablesFollowStep ==
    StoreInv /\ TablesFollowLog /\ [StoreNext]_storeVars => TablesFollowLog'
<1> SUFFICES ASSUME StoreInv, TablesFollowLog, [StoreNext]_storeVars PROVE TablesFollowLog'
  OBVIOUS
<1>1. ASSUME NEW e \in Event, Record(e)
      PROVE  TablesFollowLog'
  <2> DEFINE r == Replay(Len(log))
  <2>1. log \in Seq(Event) /\ log' = Append(log, e) /\ tables' = Projected(tables, e)
    BY <1>1 DEF Record, StoreInv
  <2>2. tables \in Tables /\ r \in Tables
    BY DEF StoreInv
  <2>3. tables.rows = r.rows /\ tables.evidence = r.evidence
    BY DEF TablesFollowLog
  <2>4. Replay(Len(log))' = Replayed(r, e)
    BY <2>1, ReplayOfMore
  <2>5. Len(log') = Len(log) + 1 /\ Len(log) \in Nat /\ log'[Len(log) + 1] = e
        /\ \A i \in 1 .. Len(log) : log'[i] = log[i]
    BY <2>1
  <2>6. ASSUME NEW w \in Orders, NEW i \in OrderEventsOf(w)', log'[i].kind = "work_order",
               \A j \in OrderEventsOf(w)' : j =< i
        PROVE  tables'.orders[w] = Replay(Len(log))'.orders[w]
    <3>1. CASE i = Len(log) + 1
      <4>1. e.kind = "work_order" /\ e.order = w
        BY <2>5, <2>6, <3>1 DEF OrderEventsOf
      <4> QED BY <2>1, <2>2, <2>3, <2>4, <4>1, OneEvent
    <3>2. CASE i # Len(log) + 1
      <4>1. i \in OrderEventsOf(w) /\ log[i].kind = "work_order"
        BY <2>1, <2>5, <2>6, <3>2 DEF OrderEventsOf
      <4>2. \A j \in OrderEventsOf(w) : j \in OrderEventsOf(w)'
        BY <2>1, <2>5 DEF OrderEventsOf
      <4>3. tables.orders[w] = r.orders[w]
        BY <2>6, <4>1, <4>2 DEF TablesFollowLog
      <4>4. Len(log) + 1 \notin OrderEventsOf(w)'
        BY <2>1, <2>5, <2>6, <4>1 DEF OrderEventsOf
      <4>5. e.kind = "row" \/ e.order # w
        BY <2>1, <2>5, <4>4 DEF OrderEventsOf
      <4> QED BY <2>1, <2>2, <2>3, <2>4, <4>3, <4>5, OneEvent
    <3> QED BY <3>1, <3>2
  <2>7. tables'.rows = Replay(Len(log))'.rows /\ tables'.evidence = Replay(Len(log))'.evidence
    BY <2>1, <2>2, <2>3, <2>4, OneEvent
  <2> QED BY <2>6, <2>7 DEF TablesFollowLog
<1>2. CASE UNCHANGED log
  <2>1. \A n : Replay(n)' = Replay(n)
    BY <1>2 DEF Replay
  <2>2. \A w : OrderEventsOf(w)' = OrderEventsOf(w)
    BY <1>2 DEF OrderEventsOf
  <2>3. CASE UNCHANGED tables
    BY <1>2, <2>1, <2>2, <2>3 DEF TablesFollowLog
  <2>4. CASE RebuildReplace
    <3>1. tables' = Replay(Len(log))
      BY <2>4 DEF RebuildReplace, StoreInv, NoRebuild
    <3> QED BY <1>2, <2>1, <2>2, <3>1 DEF TablesFollowLog
  <2>5. CASE \E e \in Event : Record(e)
    BY <1>1, <2>5
  <2> QED BY <2>3, <2>4, <2>5
          DEF StoreNext, RebuildRead, RebuildCheckpoint, RebuildFails, OpenStream, CloseStream,
              Poll, Restart, storeVars
<1>3. UNCHANGED log \/ \E e \in Event : Record(e)
  BY DEF StoreNext, RebuildRead, RebuildReplace, RebuildCheckpoint, RebuildFails, OpenStream,
     CloseStream, Poll, Restart, storeVars
<1> QED BY <1>1, <1>2, <1>3

(* Whatever is written and rebuilt, tables and log agree wherever replay   *)
(* looks at everything a live write does (append_work_order, record_*,     *)
(* replay_projection).                                                     *)
THEOREM TablesAlwaysFollow == StoreSpec => []TablesFollowLog
<1>1. StoreInit => TablesFollowLog
  <2> SUFFICES ASSUME StoreInit PROVE TablesFollowLog
    OBVIOUS
  <2>1. log \in Seq(Event) /\ Len(log) = 0 /\ tables = EmptyTables
    BY DEF StoreInit
  <2>2. Replay(Len(log)) = tables
    BY <2>1, ReplayNone
  <2> QED BY <2>2 DEF TablesFollowLog
<1> QED BY <1>1, TablesFollowStep, StoreInvariance, PTL DEF StoreSpec

-----------------------------------------------------------------------------
(* The streams.                                                            *)

(* An open stream has its type, and has sent what lies between where it    *)
(* started and where it is.                                                *)
OpenStreamOK(t) ==
    /\ t \in [open : { TRUE }, from : Nat, after : Nat, sent : Seq(1 .. Len(log))]
    /\ t.from =< t.after
    /\ Len(t.sent) = t.after - t.from
    /\ \A i \in DOMAIN t.sent : t.sent[i] = t.from + i

StreamInv == /\ log \in Seq(Event)
             /\ DOMAIN streams = Streams
             /\ \A s \in Streams : streams[s] = Closed \/ OpenStreamOK(streams[s])

(* One tick: the ids behind the cursor, up to the end of the log.          *)
LEMMA PolledOK ==
    ASSUME log \in Seq(Event), NEW t, OpenStreamOK(t),
           NEW batch, batch = EventsAfter(t.after), batch # << >>
    PROVE  OpenStreamOK([t EXCEPT !.sent = t.sent \o batch, !.after = Last(batch)])
<1> DEFINE last  == Len(log)
           from  == t.from
           after == t.after
           sent  == t.sent
           more  == sent \o batch
           u     == [[t EXCEPT !.sent = more] EXCEPT !.after = last]
<1>1. /\ t \in [open : { TRUE }, from : Nat, after : Nat, sent : Seq(1 .. last)]
      /\ from =< after /\ Len(sent) = after - from
      /\ \A i \in DOMAIN sent : sent[i] = from + i
  BY DEF OpenStreamOK
<1>2. from \in Nat /\ after \in Nat /\ sent \in Seq(1 .. last) /\ last \in Nat
  BY <1>1
<1>3. batch = [i \in 1 .. last - after |-> after + i]
  BY DEF EventsAfter
<1> HIDE DEF last, from, after, sent, more, u
<1>4. last - after \in Nat /\ last - after > 0
  <2>1. CASE last - after < 1
    <3>1. 1 .. last - after = {}
      BY <1>2, <2>1
    <3>2. batch = << >>
      BY <1>3, <3>1
    <3> QED BY <3>2
  <2> QED BY <1>2, <2>1
<1>5. batch \in Seq(1 .. last) /\ Len(batch) = last - after
  <2>1. \A i \in 1 .. last - after : after + i \in 1 .. last
    BY <1>2
  <2> QED BY <1>2, <1>3, <1>4, <2>1
<1>6. Last(batch) = last
  BY <1>2, <1>3, <1>4, <1>5 DEF Last
<1>7. /\ more \in Seq(1 .. last) /\ Len(more) = Len(sent) + Len(batch)
      /\ \A i \in 1 .. Len(sent) + Len(batch) :
           more[i] = IF i =< Len(sent) THEN sent[i] ELSE batch[i - Len(sent)]
  BY ONLY <1>2, <1>5, ConcatProperties DEF more
<1>8. Len(more) = last - from /\ DOMAIN more = 1 .. last - from
  BY ONLY <1>1, <1>2, <1>5, <1>7
<1>9. ASSUME NEW i \in 1 .. last - from
      PROVE  more[i] = from + i
  <2>1. i \in 1 .. Len(sent) + Len(batch)
    BY <1>1, <1>2, <1>5
  <2>2. CASE i =< Len(sent)
    <3>1. i \in DOMAIN sent
      BY <1>2, <2>2
    <3> QED BY <1>1, <1>7, <2>1, <2>2, <3>1
  <2>3. CASE ~ (i =< Len(sent))
    <3>1. more[i] = batch[i - Len(sent)]
      BY ONLY <1>7, <2>1, <2>3
    <3>2. i - Len(sent) \in 1 .. last - after
      BY <1>1, <1>2, <2>3
    <3> QED BY <1>1, <1>2, <1>3, <3>1, <3>2
  <2> QED BY <2>2, <2>3
<1>10. /\ u \in [open : { TRUE }, from : Nat, after : Nat, sent : Seq(1 .. last)]
       /\ u.from = from /\ u.after = last /\ u.sent = more
  BY <1>1, <1>2, <1>7 DEF u, from
<1>11. u.from =< u.after /\ Len(u.sent) = u.after - u.from
  BY <1>1, <1>2, <1>4, <1>8, <1>10
<1>12. OpenStreamOK(u)
  BY <1>8, <1>9, <1>10, <1>11 DEF OpenStreamOK, last
<1> QED BY <1>6, <1>12 DEF u, more, sent

LEMMA StreamInvStep == StreamInv /\ [StoreNext]_storeVars => StreamInv'
<1> SUFFICES ASSUME StreamInv, [StoreNext]_storeVars PROVE StreamInv'
  OBVIOUS
<1> USE DEF StreamInv
<1>1. ASSUME NEW e \in Event, Record(e)
      PROVE  StreamInv'
  <2>1. log' = Append(log, e) /\ UNCHANGED streams
    BY <1>1 DEF Record
  <2>2. log' \in Seq(Event) /\ Len(log') = Len(log) + 1
    BY <2>1
  <2>3. \A q : q \in Seq(1 .. Len(log)) => q \in Seq(1 .. Len(log'))
    BY <2>2
  <2>4. \A t : OpenStreamOK(t) => OpenStreamOK(t)'
    BY <2>3 DEF OpenStreamOK
  <2> QED BY <2>1, <2>2, <2>4
<1>2. CASE UNCHANGED log
  <2>1. \A t : OpenStreamOK(t)' <=> OpenStreamOK(t)
    BY <1>2 DEF OpenStreamOK
  <2>2. ASSUME NEW s \in Streams, NEW after \in 0 .. MaxEvents, OpenStream(s, after)
        PROVE  StreamInv'
    <3> DEFINE t == [open |-> TRUE, from |-> after, after |-> after, sent |-> << >>]
    <3>1. OpenStreamOK(t)
      BY MaxEventsAssumption DEF OpenStreamOK
    <3>2. streams' = [streams EXCEPT ![s] = t]
      BY <2>2 DEF OpenStream
    <3> HIDE DEF t
    <3> QED BY <1>2, <2>1, <3>1, <3>2
  <2>3. ASSUME NEW s \in Streams, CloseStream(s)
        PROVE  StreamInv'
    BY <1>2, <2>1, <2>3 DEF CloseStream
  <2>4. ASSUME NEW s \in Streams, Poll(s)
        PROVE  StreamInv'
    <3> DEFINE batch == EventsAfter(streams[s].after)
               t     == [streams[s] EXCEPT !.sent = streams[s].sent \o batch,
                                        !.after = Last(batch)]
    <3>1. streams[s] # Closed /\ batch # << >> /\ streams' = [streams EXCEPT ![s] = t]
      BY <2>4 DEF Poll
    <3>2. OpenStreamOK(t)
      BY <3>1, PolledOK
    <3> HIDE DEF t
    <3> QED BY <1>2, <2>1, <3>1, <3>2
  <2>5. CASE streams' = [s \in Streams |-> Closed] \/ UNCHANGED streams
    BY <1>2, <2>1, <2>5
  <2>6. CASE \E e \in Event : Record(e)
    BY <1>1, <2>6
  <2> QED BY <2>2, <2>3, <2>4, <2>5, <2>6
          DEF StoreNext, RebuildRead, RebuildReplace, RebuildCheckpoint, RebuildFails, Restart,
              storeVars
<1>3. UNCHANGED log \/ \E e \in Event : Record(e)
  BY DEF StoreNext, RebuildRead, RebuildReplace, RebuildCheckpoint, RebuildFails, OpenStream,
     CloseStream, Poll, Restart, storeVars
<1> QED BY <1>1, <1>2, <1>3

LEMMA StreamInvariance == StoreSpec => []StreamInv
<1>1. StoreInit => StreamInv
  BY DEF StoreInit, StreamInv
<1> QED BY <1>1, StreamInvStep, PTL DEF StoreSpec

(* Every event behind its starting point is sent on a stream once and in   *)
(* order, whatever is appended, rebuilt or refused between its ticks       *)
(* (events).                                                               *)
THEOREM StreamsAlwaysExact == StoreSpec => []StreamsExact
<1>1. StreamInv => StreamsExact
  BY DEF StreamInv, StreamsExact, OpenStreamOK
<1> QED BY <1>1, StreamInvariance, PTL

(* Log, tables, rebuild, checkpoints and streams keep their types.         *)
THEOREM StoreTypesHold == StoreSpec => []StoreTypeOK
<1>1. StoreInv /\ StreamInv => StoreTypeOK
  <2> SUFFICES ASSUME StoreInv, StreamInv PROVE StoreTypeOK
    OBVIOUS
  <2>1. Len(log) \in 0 .. Len(log) /\ Len(log) \in 0 .. MaxEvents
    BY MaxEventsAssumption DEF StoreInv
  <2>2. \/ rebuild = NoRebuild
        \/ rebuild.pc = "replace" /\ rebuild.view \in Tables
        \/ rebuild.pc = "checkpoint" /\ rebuild.last \in 0 .. MaxEvents
    BY <2>1 DEF StoreInv
  <2>3. ASSUME NEW p \in checkpoints
        PROVE  p.last_event_id \in 0 .. Len(log) /\ p.rebuilt_work_orders \in Nat
    BY FS_CardinalityType DEF StoreInv
  <2>4. ASSUME NEW s \in Streams
        PROVE  \/ streams[s] = Closed
               \/ /\ streams[s].from \in Nat /\ streams[s].after \in Nat
                  /\ streams[s].sent \in Seq(1 .. Len(log))
    BY DEF StreamInv, OpenStreamOK
  <2> QED BY <2>2, <2>3, <2>4 DEF StoreInv, StoreTypeOK
<1> QED BY <1>1, StoreInvariance, StreamInvariance, PTL

-----------------------------------------------------------------------------
(* What a rebuild makes of an order, whatever the log.                     *)

(* Induction over the events of a log, for a set. *)
LEMMA LogInduction ==
    ASSUME NEW T, << >> \in T,
           \A events \in Seq(Event), e \in Event : events \in T => Append(events, e) \in T
    PROVE  Seq(Event) \subseteq T
<1> DEFINE N == { n \in Nat : \A events \in Seq(Event) : Len(events) = n => events \in T }
<1>1. 0 \in N
  <2>1. \A events \in Seq(Event) : Len(events) = 0 => events = << >>
    OBVIOUS
  <2> QED BY <2>1
<1>2. ASSUME NEW n \in Nat, n \in N
      PROVE  n + 1 \in N
  <2> SUFFICES ASSUME NEW events \in Seq(Event), Len(events) = n + 1
               PROVE  events \in T
    OBVIOUS
  <2> DEFINE front == SubSeq(events, 1, n)
             e     == events[n + 1]
  <2>1. front \in Seq(Event) /\ Len(front) = n /\ e \in Event
    OBVIOUS
  <2>2. events = Append(front, e)
    OBVIOUS
  <2>3. front \in T
    BY <1>2, <2>1
  <2> HIDE DEF front, e
  <2> QED BY <2>1, <2>2, <2>3
<1> HIDE DEF N
<1>3. Nat \subseteq N
  BY <1>1, <1>2, NatSetInduction
<1>4. ASSUME NEW events \in Seq(Event)
      PROVE  events \in T
  <2>1. Len(events) \in N
    BY <1>3
  <2> QED BY <2>1 DEF N
<1> QED BY <1>4

LEMMA FoldOK ==
    ASSUME NEW events \in Seq(Event)
    PROVE  Fold(events) \in Tables
<1> DEFINE T == { es \in Seq(Event) : Fold(es) \in Tables }
<1>1. << >> \in T
  BY FoldEmpty, EmptyTablesOK
<1>2. ASSUME NEW es \in Seq(Event), NEW e \in Event, es \in T
      PROVE  Append(es, e) \in T
  <2>1. Fold(es) \in Tables /\ Append(es, e) \in Seq(Event)
    BY <1>2
  <2>2. Fold(Append(es, e)) \in Tables
    BY <2>1, FoldAppend, ReplayedOK
  <2> QED BY <2>1, <2>2
<1> HIDE DEF T
<1>3. Seq(Event) \subseteq T
  BY <1>1, <1>2, LogInduction
<1> QED BY <1>3 DEF T

(* One turn of replay, on one order. *)
LEMMA OrderReplayed ==
    ASSUME NEW t \in Tables, NEW e \in Event, NEW w \in Orders
    PROVE  /\ e.kind = "work_order" /\ e.order = w => Replayed(t, e).orders[w] = e.row
           /\ e.kind = "evidence" /\ e.order = w =>
                Replayed(t, e).orders[w] =
                  IF t.orders[w] = NoOrder THEN NoOrder
                  ELSE [t.orders[w] EXCEPT !.evidence = @ \cup { e.uri }]
           /\ ~ (e.kind \in { "work_order", "evidence" } /\ e.order = w) =>
                Replayed(t, e).orders[w] = t.orders[w]
<1>1. CASE e \in OrderEvent
  <2>1. /\ e.kind \in { "work_order", "microtask" } /\ e.order \in Orders
        /\ Projected(t, e) = [t EXCEPT !.orders = [t.orders EXCEPT ![e.order] = e.row]]
    BY <1>1, ProjectedOrder DEF OrderEvent
  <2>2. CASE e.kind = "work_order"
    BY <2>1, <2>2 DEF Replayed, Tables
  <2>3. CASE e.kind = "microtask"
    BY <2>3 DEF Replayed
  <2> QED BY <2>1, <2>2, <2>3
<1>2. CASE e \in RowEvent
  <2>1. /\ e.kind = "row"
        /\ Projected(t, e) = [t EXCEPT !.rows = [t.rows EXCEPT ![e.key] = e.row]]
    BY <1>2, ProjectedRow DEF RowEvent
  <2> QED BY <2>1 DEF Replayed, Tables
<1>3. CASE e \in EvidenceEvent
  <2> DEFINE v    == WithEvidence(t, e)
             item == [order |-> e.order, uri |-> e.uri]
             row  == [t.orders[w] EXCEPT !.evidence = @ \cup { e.uri }]
  <2>1. /\ v \in Tables
        /\ \A u \in Orders : u # e.order => v.orders[u] = t.orders[u]
    BY <1>3, WithEvidenceOK
  <2>2. /\ e.kind = "evidence"
        /\ Projected(v, e) = [v EXCEPT !.evidence = Append(v.evidence, item)]
    BY <1>3, ProjectedEvidence DEF EvidenceEvent
  <2>3. Replayed(t, e) = Projected(v, e)
    BY <2>2 DEF Replayed
  <2>4. e.order = w => v.orders[w] = IF t.orders[w] = NoOrder THEN NoOrder ELSE row
    <3>1. CASE e.order = w /\ t.orders[w] # NoOrder
      <4>1. v = [t EXCEPT !.orders = [t.orders EXCEPT ![w] = row]]
        BY <3>1 DEF WithEvidence
      <4> HIDE DEF row
      <4> QED BY <3>1, <4>1 DEF Tables
    <3>2. CASE e.order = w /\ t.orders[w] = NoOrder
      BY <3>2 DEF WithEvidence
    <3> QED BY <3>1, <3>2
  <2> HIDE DEF v, item, row
  <2>5. Replayed(t, e).orders[w] = v.orders[w]
    BY <2>1, <2>2, <2>3 DEF Tables
  <2> QED BY <2>1, <2>2, <2>4, <2>5 DEF row
<1> QED BY <1>1, <1>2, <1>3 DEF Event

LEMMA LastChangeIs ==
    ASSUME NEW events, NEW w, NEW i \in Changes(events, w),
           \A j \in Changes(events, w) : j \in Int /\ j =< i
    PROVE  LastChange(events, w) = i
BY DEF LastChange

LEMMA LastChangeExists ==
    ASSUME NEW events \in Seq(Event), NEW w
    PROVE  Changes(events, w) # {} =>
             /\ LastChange(events, w) \in Changes(events, w)
             /\ \A j \in Changes(events, w) : j =< LastChange(events, w)
<1> DEFINE T == { es \in Seq(Event) : Changes(es, w) # {} =>
                    \E i \in Changes(es, w) : \A j \in Changes(es, w) : j =< i }
<1>1. << >> \in T
  BY DEF Changes
<1>2. ASSUME NEW es \in Seq(Event), NEW e \in Event, es \in T
      PROVE  Append(es, e) \in T
  <2> DEFINE last == Len(es) + 1
             more == Append(es, e)
  <2>1. /\ more \in Seq(Event) /\ Len(es) \in Nat /\ DOMAIN es = 1 .. Len(es)
        /\ DOMAIN more = 1 .. last /\ \A i \in 1 .. Len(es) : more[i] = es[i]
    OBVIOUS
  <2> HIDE DEF more
  <2>2. /\ Changes(es, w) \subseteq 1 .. Len(es)
        /\ Changes(more, w) = Changes(es, w) \cup
             (IF more[last].kind = "work_order" /\ more[last].order = w THEN { last } ELSE {})
    BY <2>1 DEF Changes
  <2>3. Changes(more, w) = Changes(es, w) \/ Changes(more, w) = Changes(es, w) \cup { last }
    BY <2>2
  <2>4. Changes(more, w) # {} => \E i \in Changes(more, w) : \A j \in Changes(more, w) : j =< i
    <3>1. CASE Changes(more, w) = Changes(es, w)
      BY <1>2, <3>1
    <3>2. CASE Changes(more, w) = Changes(es, w) \cup { last }
      <4>1. \A j \in Changes(more, w) : j =< last
        BY <2>1, <2>2, <3>2
      <4> QED BY <3>2, <4>1
    <3> QED BY <2>3, <3>1, <3>2
  <2> QED BY <2>1, <2>4 DEF more
<1> HIDE DEF T
<1>3. events \in T
  BY <1>1, <1>2, LogInduction
<1> QED BY <1>3 DEF T, LastChange

(* The same turn, on what is claimed to be the order's row. *)
LEMMA LastRowAppend ==
    ASSUME NEW events \in Seq(Event), NEW e \in Event, NEW w \in Orders
    PROVE  LET old == LastRow(events, w)
               new == LastRow(Append(events, e), w)
           IN  /\ e.kind = "work_order" /\ e.order = w => new = e.row
               /\ e.kind = "evidence" /\ e.order = w =>
                    new = IF old = NoOrder THEN NoOrder
                          ELSE [old EXCEPT !.evidence = @ \cup { e.uri }]
               /\ ~ (e.kind \in { "work_order", "evidence" } /\ e.order = w) => new = old
<1> DEFINE n    == Len(events)
           last == n + 1
           more == Append(events, e)
           i    == LastChange(events, w)
<1>1. /\ more \in Seq(Event) /\ n \in Nat /\ DOMAIN events = 1 .. n /\ DOMAIN more = 1 .. last
      /\ more[last] = e /\ \A k \in 1 .. n : more[k] = events[k]
  OBVIOUS
<1> HIDE DEF more, n
<1>2. Changes(events, w) \subseteq 1 .. n
  BY <1>1 DEF Changes
<1>3. Changes(events, w) # {} => i \in Changes(events, w) /\ i \in 1 .. n
  BY <1>2, LastChangeExists
<1>4. ASSUME NEW k \in 1 .. n
      PROVE  EvidenceBehind(more, w, k) = EvidenceBehind(events, w, k) \cup
               (IF e.kind = "evidence" /\ e.order = w THEN { e.uri } ELSE {})
  <2> DEFINE Is(j, es) == j > k /\ es[j].kind = "evidence" /\ es[j].order = w
             old == { j \in DOMAIN events : Is(j, events) }
             new == { j \in DOMAIN more : Is(j, more) }
  <2>1. /\ EvidenceBehind(events, w, k) = { events[j].uri : j \in old }
        /\ EvidenceBehind(more, w, k) = { more[j].uri : j \in new }
    BY DEF EvidenceBehind
  <2>2. /\ last > k
        /\ DOMAIN more = DOMAIN events \cup { last }
        /\ \A j \in DOMAIN events : more[j] = events[j]
    BY <1>1
  <2>3. \A j \in old : more[j] = events[j]
    BY <2>2
  <2>4. CASE e.kind = "evidence" /\ e.order = w
    <3>1. new = old \cup { last }
      BY <1>1, <2>2, <2>4
    <3> HIDE DEF old, new
    <3> QED BY <1>1, <2>1, <2>3, <2>4, <3>1
  <2>5. CASE ~ (e.kind = "evidence" /\ e.order = w)
    <3>1. new = old
      BY <1>1, <2>2, <2>5
    <3> HIDE DEF old, new
    <3> QED BY <2>1, <2>3, <2>5, <3>1
  <2> QED BY <2>4, <2>5
<1>5. CASE e.kind = "work_order" /\ e.order = w
  <2>1. Changes(more, w) = Changes(events, w) \cup { last }
    BY <1>1, <1>5 DEF Changes
  <2>2. LastChange(more, w) = last
    BY <1>1, <1>2, <2>1, LastChangeIs
  <2>3. EvidenceBehind(more, w, last) = {}
    BY <1>1 DEF EvidenceBehind
  <2>4. e.row \in OrderRow
    BY <1>5 DEF Event, OrderEvent, RowEvent, EvidenceEvent
  <2>5. LastRow(more, w) = [e.row EXCEPT !.evidence = @ \cup {}]
    BY <1>1, <2>1, <2>2, <2>3 DEF LastRow
  <2>6. LastRow(more, w) = e.row
    BY <2>4, <2>5 DEF OrderRow
  <2> QED BY <1>5, <2>6 DEF more
<1>6. CASE ~ (e.kind = "work_order" /\ e.order = w)
  <2>1. Changes(more, w) = Changes(events, w)
    BY <1>1, <1>6 DEF Changes
  <2>2. LastChange(more, w) = i
    BY <2>1 DEF LastChange
  <2> HIDE DEF i
  <2>3. CASE Changes(events, w) = {}
    <3>1. LastRow(more, w) = NoOrder /\ LastRow(events, w) = NoOrder
      BY <2>1, <2>3 DEF LastRow
    <3> QED BY <1>6, <3>1 DEF more
  <2>4. CASE Changes(events, w) # {}
    <3> DEFINE row    == events[i].row
               before == EvidenceBehind(events, w, i)
               behind == EvidenceBehind(more, w, i)
    <3>1. i \in 1 .. n /\ more[i] = events[i] /\ row \in OrderRow
      <4>1. i \in 1 .. n /\ events[i].kind = "work_order" /\ events[i] \in Event
        BY <1>1, <1>3, <2>4 DEF Changes
      <4> QED BY <1>1, <4>1 DEF Event, OrderEvent, RowEvent, EvidenceEvent
    <3>2. /\ LastRow(events, w) = [row EXCEPT !.evidence = @ \cup before]
          /\ LastRow(more, w) = [row EXCEPT !.evidence = @ \cup behind]
      BY <2>1, <2>2, <2>4, <3>1 DEF LastRow, i
    <3> HIDE DEF row, before, behind
    <3>3. LastRow(events, w) # NoOrder
      <4>1. DOMAIN LastRow(events, w) = { "says", "evidence" }
        BY <3>1, <3>2 DEF OrderRow
      <4>2. DOMAIN NoOrder = { "says" }
        BY DEF NoOrder
      <4>3. "evidence" \in DOMAIN LastRow(events, w) /\ "evidence" \notin DOMAIN NoOrder
        BY <4>1, <4>2
      <4> QED BY <4>3
    <3>4. CASE e.kind = "evidence" /\ e.order = w
      <4>1. behind = before \cup { e.uri }
        BY <1>4, <3>1, <3>4 DEF before, behind
      <4>2. LastRow(more, w) = [LastRow(events, w) EXCEPT !.evidence = @ \cup { e.uri }]
        BY <3>1, <3>2, <4>1 DEF OrderRow
      <4> QED BY <1>6, <3>3, <3>4, <4>2 DEF more
    <3>5. CASE ~ (e.kind = "evidence" /\ e.order = w)
      <4>1. behind = before
        BY <1>4, <3>1, <3>5 DEF before, behind
      <4> QED BY <1>6, <3>2, <3>5, <4>1 DEF more
    <3> QED BY <3>4, <3>5
  <2> QED BY <2>3, <2>4
<1> QED BY <1>5, <1>6

(* Whatever is in the log, in whatever order: a rebuild makes of an order  *)
(* what its last work_order.* event says, with the evidence recorded       *)
(* behind that, and knows no order that has none.  Nothing of microtask.*  *)
(* events is in it (replay_projection).                                    *)
THEOREM RebuildsFromLastChange ==
    ASSUME NEW events \in Seq(Event), NEW w \in Orders
    PROVE  Fold(events).orders[w] = LastRow(events, w)
<1> DEFINE T == { es \in Seq(Event) : Fold(es).orders[w] = LastRow(es, w) }
<1>1. << >> \in T
  <2>1. LastRow(<< >>, w) = NoOrder
    BY DEF LastRow, Changes
  <2>2. EmptyTables.orders[w] = NoOrder
    BY DEF EmptyTables
  <2> QED BY <2>1, <2>2, FoldEmpty
<1>2. ASSUME NEW es \in Seq(Event), NEW e \in Event, es \in T
      PROVE  Append(es, e) \in T
  <2> DEFINE more == Append(es, e)
             t    == Fold(es)
  <2>1. t \in Tables /\ t.orders[w] = LastRow(es, w) /\ more \in Seq(Event)
    BY <1>2, FoldOK
  <2>2. Fold(more) = Replayed(t, e)
    BY FoldAppend
  <2> HIDE DEF t
  <2> DEFINE row  == t.orders[w]
             old  == LastRow(es, w)
             turn == Replayed(t, e).orders[w]
             new  == LastRow(more, w)
  <2>3. /\ e.kind = "work_order" /\ e.order = w => turn = e.row
        /\ e.kind = "evidence" /\ e.order = w =>
             turn = IF row = NoOrder THEN NoOrder ELSE [row EXCEPT !.evidence = @ \cup { e.uri }]
        /\ ~ (e.kind \in { "work_order", "evidence" } /\ e.order = w) => turn = row
    BY <2>1, OrderReplayed
  <2>4. /\ e.kind = "work_order" /\ e.order = w => new = e.row
        /\ e.kind = "evidence" /\ e.order = w =>
             new = IF old = NoOrder THEN NoOrder ELSE [old EXCEPT !.evidence = @ \cup { e.uri }]
        /\ ~ (e.kind \in { "work_order", "evidence" } /\ e.order = w) => new = old
    BY LastRowAppend
  <2>5. turn = new
    <3>1. row = old
      BY <2>1
    <3>2. CASE e.kind = "work_order" /\ e.order = w
      BY <2>3, <2>4, <3>2
    <3>3. CASE e.kind = "evidence" /\ e.order = w
      <4>1. turn = IF row = NoOrder THEN NoOrder ELSE [row EXCEPT !.evidence = @ \cup { e.uri }]
        BY <2>3, <3>3
      <4>2. new = IF old = NoOrder THEN NoOrder ELSE [old EXCEPT !.evidence = @ \cup { e.uri }]
        BY <2>4, <3>3
      <4> HIDE DEF row, old, turn, new
      <4> QED BY <3>1, <4>1, <4>2
    <3>4. CASE ~ (e.kind \in { "work_order", "evidence" } /\ e.order = w)
      <4>1. turn = row /\ new = old
        BY <2>3, <2>4, <3>4
      <4> HIDE DEF row, old, turn, new
      <4> QED BY <3>1, <4>1
    <3> QED BY <3>2, <3>3, <3>4
  <2> QED BY <2>1, <2>2, <2>5
<1> HIDE DEF T
<1>3. events \in T
  BY <1>1, <1>2, LogInduction
<1> QED BY <1>3 DEF T
-----------------------------------------------------------------------------
(* The store is a ledger.                                                  *)

LEMMA RecordedIsTyped ==
    ASSUME StoreInv, NEW w \in Orders
    PROVE  LastRow(log, w) \in { NoOrder } \cup OrderRow
<1>1. log \in Seq(Event)
  BY DEF StoreInv
<1>2. Fold(log) \in Tables
  BY <1>1, FoldOK
<1> QED BY <1>1, <1>2, RebuildsFromLastChange DEF Tables

(* What an event makes of the two columns. *)
LEMMA RecordEnters ==
    ASSUME StoreInv, NEW e \in Event, Record(e)
    PROVE  [Book!Next]_Book!ledgerVars
<1> DEFINE recorded == [w \in Orders |-> LastRow(log, w)]
           after    == [w \in Orders |-> LastRow(log', w)]
<1>1. /\ log \in Seq(Event) /\ log' = Append(log, e)
      /\ tables \in Tables /\ tables' = Projected(tables, e)
  BY DEF Record, StoreInv
<1>2. ASSUME NEW w \in Orders
      PROVE  /\ e.kind = "work_order" /\ e.order = w => after[w] = e.row
             /\ e.kind = "evidence" /\ e.order = w =>
                  after[w] = IF recorded[w] = NoOrder THEN NoOrder
                             ELSE [recorded[w] EXCEPT !.evidence = @ \cup { e.uri }]
             /\ ~ (e.kind \in { "work_order", "evidence" } /\ e.order = w) =>
                  after[w] = recorded[w]
  BY <1>1, LastRowAppend
<1>3. /\ recorded = [w \in Orders |-> recorded[w]] /\ after = [w \in Orders |-> after[w]]
      /\ \A w \in Orders : recorded[w] \in { NoOrder } \cup OrderRow
  BY RecordedIsTyped
<1> HIDE DEF recorded, after
<1>4. CASE tables'.orders = tables.orders /\ after = recorded
  BY <1>4 DEF Book!ledgerVars, recorded, after
<1>5. CASE e \in OrderEvent
  <2>1. e.kind \in { "work_order", "microtask" } /\ e.order \in Orders /\ e.row \in OrderRow
    BY <1>5 DEF OrderEvent
  <2>2. tables'.orders = [tables.orders EXCEPT ![e.order] = e.row]
    BY <1>1, <1>5, ProjectedOrder DEF Tables
  <2>3. CASE e.kind = "work_order"
    <3>1. after = [recorded EXCEPT ![e.order] = e.row]
      BY <1>2, <1>3, <2>1, <2>3
    <3>2. Book!Change(e.order, e.row)
      BY <2>2, <3>1 DEF Book!Change, recorded, after
    <3> QED BY <2>1, <3>2 DEF Book!Next
  <2>4. CASE e.kind = "microtask"
    <3>1. after = recorded
      BY <1>2, <1>3, <2>4
    <3>2. Book!Mark(e.order, e.row)
      BY <2>2, <3>1 DEF Book!Mark, recorded, after
    <3> QED BY <2>1, <3>2 DEF Book!Next
  <2> QED BY <2>1, <2>3, <2>4
<1>6. CASE e \in RowEvent
  <2>1. e.kind = "row" /\ tables'.orders = tables.orders
    BY <1>1, <1>6, ProjectedRow DEF RowEvent, Tables
  <2>2. after = recorded
    BY <1>2, <1>3, <2>1
  <2> QED BY <1>4, <2>1, <2>2
<1>7. CASE e \in EvidenceEvent
  <2>1. e.kind = "evidence" /\ e.uri \in Uris /\ tables'.orders = tables.orders
    <3> DEFINE item == [order |-> e.order, uri |-> e.uri]
    <3>1. tables' = [tables EXCEPT !.evidence = Append(tables.evidence, item)]
      BY <1>1, <1>7, ProjectedEvidence
    <3> HIDE DEF item
    <3>2. tables'.orders = tables.orders
      BY <1>1, <3>1 DEF Tables
    <3> QED BY <1>7, <3>2 DEF EvidenceEvent
  <2>2. CASE e.order \in Orders /\ recorded[e.order] # NoOrder
    <3> DEFINE s == [recorded[e.order] EXCEPT !.evidence = @ \cup { e.uri }]
    <3>1. recorded[e.order] \in OrderRow
      BY <1>3, <2>2
    <3>2. after = [recorded EXCEPT ![e.order] = s]
      BY <1>2, <1>3, <2>1, <2>2
    <3>3. << recorded[e.order], s >> \in
            { << row, WithUri(row, uri) >> : row \in OrderRow, uri \in Uris }
      <4>1. s = WithUri(recorded[e.order], e.uri)
        BY DEF WithUri
      <4> HIDE DEF s
      <4> QED BY <2>1, <3>1, <4>1
    <3>4. s \in OrderRow
      BY <2>1, <3>1 DEF OrderRow
    <3> HIDE DEF s
    <3>5. Book!Join(e.order, s)
      BY <2>1, <2>2, <3>2, <3>3 DEF Book!Join, recorded, after
    <3> QED BY <2>2, <3>4, <3>5 DEF Book!Next
  <2>3. CASE ~ (e.order \in Orders /\ recorded[e.order] # NoOrder)
    <3>1. after = recorded
      BY <1>2, <1>3, <2>1, <2>3
    <3> QED BY <1>4, <2>1, <3>1
  <2> QED BY <2>2, <2>3
<1> QED BY <1>5, <1>6, <1>7 DEF Event

LEMMA ReplaceRestores ==
    ASSUME StoreInv, RebuildReplace
    PROVE  Book!Restore
<1>1. /\ log \in Seq(Event) /\ log' = log /\ tables' = Replay(Len(log))
  BY DEF RebuildReplace, StoreInv, NoRebuild
<1>2. SubSeq(log, 1, Len(log)) = log
  BY <1>1
<1>3. tables' = Fold(log) /\ Fold(log) \in Tables
  BY <1>1, <1>2, FoldOK DEF Replay
<1>4. \A w \in Orders : Fold(log).orders[w] = LastRow(log, w)
  BY <1>1, RebuildsFromLastChange
<1>5. tables'.orders = [w \in Orders |-> LastRow(log, w)]
  BY <1>3, <1>4 DEF Tables
<1> QED BY <1>1, <1>5 DEF Book!Restore

(* The store keeps a ledger of its orders: every write is a change, a mark *)
(* or a note, a rebuild goes back to the last changes in one step, and     *)
(* nothing else, a rebuild that fails or a restart in the middle of one,   *)
(* shows in either column (append_work_order, replay_projection).          *)
THEOREM StoreKeepsLedger == StoreSpec => ImplementsLedger
<1>1. StoreInit => Book!Init
  <2> SUFFICES ASSUME StoreInit PROVE Book!Init
    OBVIOUS
  <2>1. log = << >> /\ tables.orders = [w \in Orders |-> NoOrder]
    BY DEF StoreInit, EmptyTables
  <2>2. \A w \in Orders : LastRow(log, w) = NoOrder
    BY <2>1 DEF LastRow, Changes
  <2> QED BY <2>1, <2>2 DEF Book!Init
<1>2. ASSUME StoreInv, [StoreNext]_storeVars
      PROVE  [Book!Next]_Book!ledgerVars
  <2>1. CASE \E e \in Event : Record(e)
    BY <1>2, <2>1, RecordEnters
  <2>2. CASE RebuildReplace
    BY <1>2, <2>2, ReplaceRestores DEF Book!Next
  <2>3. CASE UNCHANGED << log, tables >>
    BY <2>3 DEF Book!ledgerVars
  <2> QED
    BY <1>2, <2>1, <2>2, <2>3 DEF StoreNext, RebuildRead, RebuildCheckpoint, RebuildFails,
       OpenStream, CloseStream, Poll, Restart, storeVars
<1> QED
  BY <1>1, <1>2, StoreInvariance, PTL DEF StoreSpec, ImplementsLedger, Book!Spec
=============================================================================
