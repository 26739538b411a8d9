------------------------------ MODULE EventStore ------------------------------
(***************************************************************************)
(* crates/jmcp-store: the event log, the tables projected from it, their   *)
(* rebuild from the log with its checkpoint, and the streams that read the *)
(* log (routes_extra.rs).                                                  *)
(*                                                                         *)
(* There are two projections.  A live write appends an event and updates   *)
(* its table in one transaction; a rebuild folds the whole log and         *)
(* replaces the tables.  They differ on work orders: the fold skips        *)
(* microtask.* events and adds recorded evidence to the order.             *)
(*                                                                         *)
(* `rebuild` is the request that holds the store lock across several       *)
(* steps; all others need the lock for one.                                *)
(***************************************************************************)
EXTENDS Naturals, SequencesExt

CONSTANTS
    Orders,     \* work-order ids
    Keys,       \* keys of the tables whose rows are replaced whole: leases,
                \* approvals, challenges, adapter health, effects, records
    Contents,   \* what a row may say
    Uris,       \* what evidence may point to
    Nobody,     \* the order of evidence recorded for none
    Streams,    \* connections to /events
    MaxEvents   \* bound on the log

ASSUME NobodyAssumption    == Nobody \notin Orders
ASSUME MaxEventsAssumption == MaxEvents \in Nat

VARIABLES
    log,         \* table events; the id of an event is its position
    tables,      \* the other tables
    rebuild,     \* the rebuild that holds the lock
    checkpoints, \* table replay_checkpoints
    streams      \* the streams: where they started, where they are, what they sent

storeVars == << log, tables, rebuild, checkpoints, streams >>

OrderRow == [says : Contents, evidence : SUBSET Uris]
NoOrder  == [says |-> "Absent"]
NoRow    == "Absent"

OrderEvent    == [kind : { "work_order", "microtask" }, order : Orders, row : OrderRow]
RowEvent      == [kind : { "row" }, key : Keys, row : Contents]
EvidenceEvent == [kind : { "evidence" }, order : Orders \cup { Nobody }, uri : Uris]
Event         == OrderEvent \cup RowEvent \cup EvidenceEvent

Evidence == [order : Orders \cup { Nobody }, uri : Uris]

EmptyTables == [orders   |-> [w \in Orders |-> NoOrder],
                rows     |-> [k \in Keys |-> NoRow],
                evidence |-> << >>]

NoRebuild == [pc |-> "none"]
Closed    == [open |-> FALSE]

Tables == [orders   : [Orders -> { NoOrder } \cup OrderRow],
           rows     : [Keys -> { NoRow } \cup Contents],
           evidence : Seq(Evidence)]

StoreTypeOK ==
    /\ log \in Seq(Event) /\ Len(log) =< MaxEvents
    /\ tables \in Tables
    /\ \/ rebuild = NoRebuild
       \/ rebuild.pc = "replace" /\ rebuild.view \in Tables
       \/ rebuild.pc = "checkpoint" /\ rebuild.last \in 0 .. MaxEvents
    /\ \A p \in checkpoints :
         p.last_event_id \in 0 .. Len(log) /\ p.rebuilt_work_orders \in Nat
    /\ \A s \in Streams :
         \/ streams[s] = Closed
         \/ /\ streams[s].from \in Nat /\ streams[s].after \in Nat
            /\ streams[s].sent \in Seq(1 .. Len(log))

StoreInit ==
    /\ log = << >>
    /\ tables = EmptyTables
    /\ rebuild = NoRebuild
    /\ checkpoints = {}
    /\ streams = [s \in Streams |-> Closed]

LockFree == rebuild = NoRebuild

-----------------------------------------------------------------------------
(* The two projections of an event.                                        *)

(* What a live write makes of its table, in the transaction that appends.  *)
Projected(t, e) ==
    CASE e.kind \in { "work_order", "microtask" } -> [t EXCEPT !.orders[e.order] = e.row]
      [] e.kind = "row"      -> [t EXCEPT !.rows[e.key] = e.row]
      [] e.kind = "evidence" -> [t EXCEPT !.evidence =
                                   Append(@, [order |-> e.order, uri |-> e.uri])]

(* Evidence also joins the order it was recorded for, when it is known.    *)
WithEvidence(t, e) ==
    IF e.order \in Orders /\ t.orders[e.order] # NoOrder
    THEN [t EXCEPT !.orders[e.order].evidence = @ \cup { e.uri }]
    ELSE t

(* One turn of the loop of replay_projection. *)
Replayed(t, e) ==
    CASE e.kind \in { "work_order", "row" } -> Projected(t, e)
      [] e.kind = "microtask"               -> t
      [] e.kind = "evidence"                -> Projected(WithEvidence(t, e), e)

(* What a sequence of events makes of empty tables. *)
Fold(events) ==
    LET after[i \in 0 .. Len(events)] ==
          IF i = 0 THEN EmptyTables ELSE Replayed(after[i - 1], events[i])
    IN after[Len(events)]

(* What the events up to the n-th make of them. *)
Replay(n) == Fold(SubSeq(log, 1, n))

Known(t) == { w \in Orders : t.orders[w] # NoOrder }

-----------------------------------------------------------------------------
(* append_work_order and the record_* methods.  The store takes any row at *)
(* any time; what may be written is the business of its callers.           *)

(* A slip: a write that does not wait for the lock.                        *)
RecordAnyTime(e) ==
    /\ Len(log) < MaxEvents
    /\ log' = Append(log, e)
    /\ tables' = Projected(tables, e)
    /\ UNCHANGED << rebuild, checkpoints, streams >>

Record(e) ==
    /\ LockFree
    /\ Len(log) < MaxEvents
    /\ log' = Append(log, e)
    /\ tables' = Projected(tables, e)
    /\ UNCHANGED << rebuild, checkpoints, streams >>

-----------------------------------------------------------------------------
(* rebuild_work_order_projection_from_events: read, replace, checkpoint.   *)

RebuildRead ==
    /\ LockFree
    /\ rebuild' = [pc |-> "replace", view |-> Replay(Len(log))]
    /\ UNCHANGED << log, tables, checkpoints, streams >>

(* A slip: the evidence table is filled without being emptied first.       *)
RebuildReplaceKeepingEvidence ==
    /\ rebuild.pc = "replace"
    /\ tables' = [rebuild.view EXCEPT !.evidence = tables.evidence \o @]
    /\ rebuild' = [pc |-> "checkpoint", last |-> Len(log)]
    /\ UNCHANGED << log, checkpoints, streams >>

(* A slip: the id the next event will get.                                 *)
RebuildReplaceNextId ==
    /\ rebuild.pc = "replace"
    /\ tables' = rebuild.view
    /\ rebuild' = [pc |-> "checkpoint", last |-> Len(log) + 1]
    /\ UNCHANGED << log, checkpoints, streams >>

(* One transaction, which also asks for the last id of the log. *)
RebuildReplace ==
    /\ rebuild.pc = "replace"
    /\ tables' = rebuild.view
    /\ rebuild' = [pc |-> "checkpoint", last |-> Len(log)]
    /\ UNCHANGED << log, checkpoints, streams >>

(* The orders are those that were replayed, and under the lock the tables  *)
(* hold just them.                                                         *)
RebuildCheckpoint ==
    /\ rebuild.pc = "checkpoint"
    /\ checkpoints' = checkpoints \cup
         { [last_event_id |-> rebuild.last, rebuilt_work_orders |-> Cardinality(Known(tables))] }
    /\ rebuild' = NoRebuild
    /\ UNCHANGED << log, tables, streams >>

(* The rebuild stops between its steps: an error is returned.              *)
RebuildFails ==
    /\ rebuild # NoRebuild
    /\ rebuild' = NoRebuild
    /\ UNCHANGED << log, tables, checkpoints, streams >>

-----------------------------------------------------------------------------
(* Streams: `after` is what the client asked for, whatever the log holds,  *)
(* and moves to the last event sent.  One below 0 asks for what 0 asks for *)
(* and is left out: ids begin at 1.                                        *)

OpenStream(s, after) ==
    /\ streams[s] = Closed
    /\ streams' = [streams EXCEPT
                     ![s] = [open |-> TRUE, from |-> after, after |-> after, sent |-> << >>]]
    /\ UNCHANGED << log, tables, rebuild, checkpoints >>

CloseStream(s) ==
    /\ streams[s] # Closed
    /\ streams' = [streams EXCEPT ![s] = Closed]
    /\ UNCHANGED << log, tables, rebuild, checkpoints >>

(* A slip: `id >= ?1`. *)
EventsFrom(after) == [i \in 1 .. Len(log) - after + 1 |-> after + i - 1]

(* The ids events_after returns: those above `after`, in order. *)
EventsAfter(after) == [i \in 1 .. Len(log) - after |-> after + i]

(* A tick of the interval.  One that finds nothing, or fails, sends        *)
(* nothing and leaves the cursor.                                          *)
Poll(s) ==
    LET batch == EventsAfter(streams[s].after) IN
    /\ LockFree
    /\ streams[s] # Closed
    /\ batch # << >>
    /\ streams' = [streams EXCEPT ![s].sent = @ \o batch, ![s].after = Last(batch)]
    /\ UNCHANGED << log, tables, rebuild, checkpoints >>

(* The process dies: connections and requests are gone, tables stay.       *)
Restart ==
    /\ rebuild' = NoRebuild
    /\ streams' = [s \in Streams |-> Closed]
    /\ UNCHANGED << log, tables, checkpoints >>

StoreNext ==
    \/ \E e \in Event : Record(e)
    \/ RebuildRead
    \/ RebuildReplace
    \/ RebuildCheckpoint
    \/ RebuildFails
    \/ \E s \in Streams : \/ \E after \in 0 .. MaxEvents : OpenStream(s, after)
                          \/ CloseStream(s)
                          \/ Poll(s)
    \/ Restart

StoreSpec == StoreInit /\ [][StoreNext]_storeVars

-----------------------------------------------------------------------------
(* Properties. *)

(* The two projections agree wherever replay looks at everything a live    *)
(* write does: on keyed tables and evidence always, and on a work order    *)
(* when its last event is a work_order.* one, rebuilds in between or not   *)
(* (append_work_order, record_*, replay_projection).                       *)
OrderEventsOf(w) == { i \in DOMAIN log : log[i].kind # "row" /\ log[i].order = w }

TablesFollowLog ==
    LET replay == Replay(Len(log)) IN
    /\ tables.rows = replay.rows
    /\ tables.evidence = replay.evidence
    /\ \A w \in Orders : \A i \in OrderEventsOf(w) :
         log[i].kind = "work_order" /\ (\A j \in OrderEventsOf(w) : j =< i) =>
             tables.orders[w] = replay.orders[w]

(* A checkpoint tells the truth: the events up to the one it names are     *)
(* those its rebuild folded, and it counts the orders they rebuilt         *)
(* (rebuild_work_order_projection_from_events).                            *)
CheckpointsHold ==
    /\ rebuild.pc = "checkpoint" => tables = Replay(rebuild.last)
    /\ \A p \in checkpoints :
         p.rebuilt_work_orders = Cardinality(Known(Replay(p.last_event_id)))

(* What a rebuild makes of an order: the row of its last work_order.*      *)
(* event, with the evidence recorded for it behind that one.               *)
Changes(events, w) ==
    { i \in DOMAIN events : events[i].kind = "work_order" /\ events[i].order = w }

EvidenceBehind(events, w, i) ==
    { events[j].uri : j \in { k \in DOMAIN events :
        k > i /\ events[k].kind = "evidence" /\ events[k].order = w } }

LastChange(events, w) == CHOOSE i \in Changes(events, w) : \A j \in Changes(events, w) : j =< i

LastRow(events, w) ==
    LET i   == LastChange(events, w)
        row == events[i].row
    IN  IF Changes(events, w) = {} THEN NoOrder
        ELSE [row EXCEPT !.evidence = @ \cup EvidenceBehind(events, w, i)]

WithUri(row, uri) == [row EXCEPT !.evidence = @ \cup { uri }]

Book == INSTANCE Ledger WITH
          States   <- OrderRow,
          Absent   <- NoOrder,
          Joins    <- { << row, WithUri(row, uri) >> : row \in OrderRow, uri \in Uris },
          status   <- tables.orders,
          recorded <- [w \in Orders |-> LastRow(log, w)]

(* The orders of the store are a ledger: what a reader is told of an order *)
(* changes only by an event of that order, or by a rebuild, which goes     *)
(* back to its last work_order.* event and the evidence behind it for all  *)
(* orders in one step, however many writes, failed rebuilds and restarts   *)
(* came before (append_work_order, replay_projection).                     *)
ImplementsLedger == Book!Spec

(* A stream sends each event behind its starting point once and in order,  *)
(* whatever is appended, rebuilt or refused between its ticks (events).    *)
StreamsExact ==
    \A s \in Streams : streams[s] # Closed =>
        /\ Len(streams[s].sent) = streams[s].after - streams[s].from
        /\ \A i \in DOMAIN streams[s].sent : streams[s].sent[i] = streams[s].from + i
=============================================================================
