------------------------- MODULE GatewayCountProofs -------------------------
(***************************************************************************)
(* Theorems about the counts Gateway keeps: span_count, and the undecided  *)
(* traces of a shard, as every transaction of StageBatch sees and leaves   *)
(* them.                                                                   *)
(***************************************************************************)
EXTENDS GatewayProofs

\* A row of tail_traces the schema and the limits allow.
Sane(row) ==
    /\ row.state \in {"absent", "open", "decided"}
    /\ row.spanCount \in 0..MaxSpans
    /\ row.state = "absent" => row.spanCount = 0

\* S are the events buffered for the trace of the row.
Counted(row, S) == IF row.state = "open" THEN row.spanCount = Cardinality(S) ELSE S = {}

\* The undecided traces of a shard, committed and as a transaction sees them.
OpenTraces(s) == {t \in Traces : ShardOf[t] = s /\ traces[t].state = "open"}
OpenRows(r, s) == {t \in Traces : ShardOf[t] = s /\ Row(r, t).state = "open"}

\* Every row counts its buffered spans, no shard is over its cap, and every
\* buffered event has its key.
TablesRight ==
    /\ \A t \in Traces : Sane(traces[t]) /\ Counted(traces[t], BufferedIn(buffers, t))
    /\ \A s \in Shards : Cardinality(OpenTraces(s)) <= ShardCap
    /\ \A e \in buffers : keyTrace[KeyOf(e)] # NoTrace

\* So they are in what the transaction of r reads.
ViewRight(r) ==
    /\ \A t \in Traces :
           Sane(Row(r, t)) /\ Counted(Row(r, t), BufferedIn(VisibleBuffers(r), t))
    /\ \A s \in Shards : Cardinality(OpenRows(r, s)) <= ShardCap
    /\ \A e \in VisibleBuffers(r) : KnownTrace(r, KeyOf(e)) # NoTrace

\* A transaction buffers events of, and evicts, only traces it has touched.
WritesTouch(r) ==
    /\ \A t \in tx[r].evicted : Touches(r, t)
    /\ \A e \in tx[r].buffers : Touches(r, TraceOf(e))

\* The counts are right in the tables and in every view of them.
CountInv ==
    /\ Shape /\ LocksHeld /\ WritesExclusive
    /\ TablesRight
    /\ \A r \in Requests : ViewRight(r) /\ WritesTouch(r)

-----------------------------------------------------------------------------
(* Lemmas.                                                                 *)

\* A set of traces is finite.
LEMMA TraceSets ==
    ASSUME NEW S \in SUBSET Traces
    PROVE  IsFiniteSet(S) /\ Cardinality(S) \in Nat
  <1> DEFINE f == [e \in Events |-> TraceOf(e)]
  <1>1. f \in Surjection(Events, Traces)
    BY DEF Surjection, Traces, TracesOf
  <1> HIDE DEF f
  <1>2. IsFiniteSet(Traces)
    BY <1>1, PayloadAssumption, FS_Surjection
  <1> QED
    BY <1>2, FS_Subset, FS_CardinalityType

\* A request that has written nothing sees the tables.
LEMMA FreshView ==
    ASSUME NEW r \in Requests, tx[r] = NoWrites
    PROVE  /\ \A t \in Traces : Row(r, t) = traces[t] /\ ~Touches(r, t)
           /\ VisibleBuffers(r) = buffers
           /\ \A k \in Keys : KnownTrace(r, k) = keyTrace[k]
           /\ WritesTouch(r)
  BY DEF NoWrites, Row, Touches, VisibleBuffers, KnownTrace, WritesTouch

\* A transaction that has written nothing sees the tables.
LEMMA FreshRight ==
    Shape /\ TablesRight =>
        \A r \in Requests : tx[r] = NoWrites => ViewRight(r) /\ WritesTouch(r)
  <1> SUFFICES ASSUME Shape, TablesRight, NEW r \in Requests, tx[r] = NoWrites
               PROVE  ViewRight(r) /\ WritesTouch(r)
    OBVIOUS
  <1>1. \A s \in Shards : OpenRows(r, s) = OpenTraces(s)
    BY FreshView DEF OpenRows, OpenTraces
  <1>2. \A e \in buffers : KeyOf(e) \in Keys
    BY EventType DEF Shape
  <1> QED
    BY <1>1, <1>2, FreshView DEF TablesRight, ViewRight

\* The same of the next state.
LEMMA FreshRightNext ==
    (Shape /\ TablesRight =>
        \A r \in Requests : tx[r] = NoWrites => ViewRight(r) /\ WritesTouch(r))'
  BY FreshRight, PTL

\* Of a trace it has not touched, a request sees what is committed.
LEMMA UntouchedView ==
    ASSUME NEW r \in Requests, WritesTouch(r), NEW t \in Traces, ~Touches(r, t)
    PROVE  /\ Row(r, t) = traces[t]
           /\ BufferedIn(VisibleBuffers(r), t) = BufferedIn(buffers, t)
  BY DEF WritesTouch, Row, VisibleBuffers, BufferedIn

\* Two requests never touch traces of one shard.
LEMMA TouchOwn ==
    ASSUME WritesExclusive, NEW r \in Requests, NEW q \in Requests, r # q,
           NEW t \in Traces, NEW u \in Traces, ShardOf[t] = ShardOf[u],
           Touches(r, t)
    PROVE  ~Touches(q, u)
  BY DEF WritesExclusive

\* While the tables stay and a request writes nothing, its view stays.
LEMMA QuietView ==
    ASSUME UNCHANGED tables, NEW q \in Requests, tx'[q] = tx[q],
           ViewRight(q), WritesTouch(q)
    PROVE  ViewRight(q)' /\ WritesTouch(q)'
  <1>1. /\ \A t : (Touches(q, t) <=> Touches(q, t)')
        /\ \A t : Row(q, t)' = Row(q, t)
    BY DEF tables, Touches, Row
  <1>2. VisibleBuffers(q)' = VisibleBuffers(q)
    BY DEF tables, VisibleBuffers
  <1>3. \A k : KnownTrace(q, k)' = KnownTrace(q, k)
    BY DEF tables, KnownTrace
  <1>4. \A s : OpenRows(q, s)' = OpenRows(q, s)
    BY <1>1 DEF OpenRows
  <1>5. WritesTouch(q)'
    BY <1>1 DEF WritesTouch
  <1> QED
    BY <1>1, <1>2, <1>3, <1>4, <1>5 DEF ViewRight, BufferedIn

\* A step that writes no table keeps them right.
LEMMA QuietTables ==
    ASSUME UNCHANGED tables, TablesRight
    PROVE  TablesRight'
  BY DEF tables, TablesRight, OpenTraces, BufferedIn

-----------------------------------------------------------------------------
(* A batch is staged.                                                      *)

\* What the transaction of a request sees once it has staged a batch.
LEMMA StagedView ==
    ASSUME Shape, NEW r \in Requests, WritesTouch(r), StageAccepted(r)
    PROVE  \E victims \in Victims(r) :
             /\ \A t \in Traces : Row(r, t)' =
                    IF t = current[r] THEN StagedRow(r)
                    ELSE IF t \in victims THEN EvictedRow(r, t) ELSE Row(r, t)
             /\ VisibleBuffers(r)' =
                    {e \in VisibleBuffers(r) : TraceOf(e) \notin victims} \cup Fresh(r)
             /\ \A k \in Keys : KnownTrace(r, k)' =
                    IF k \in KeysOf(Fresh(r)) THEN current[r] ELSE KnownTrace(r, k)
             /\ \A t \in Traces : Touches(r, t)' <=>
                    Touches(r, t) \/ t = current[r] \/ t \in victims
             /\ WritesTouch(r)'
  <1>1. PICK victims \in Victims(r) : tx' = [tx EXCEPT ![r] =
           [rows |-> [t \in Traces |->
                IF t = current[r] THEN StagedRow(r)
                ELSE IF t \in victims THEN EvictedRow(r, t) ELSE tx[r].rows[t]],
            keys |-> [k \in Keys |->
                IF k \in KeysOf(Fresh(r)) THEN current[r] ELSE tx[r].keys[k]],
            buffers |-> {e \in tx[r].buffers : TraceOf(e) \notin victims} \cup Fresh(r),
            evicted |-> tx[r].evicted \cup victims]]
    BY DEF StageAccepted
  <1>2. /\ \A t \in Traces : tx'[r].rows[t] =
               IF t = current[r] THEN StagedRow(r)
               ELSE IF t \in victims THEN EvictedRow(r, t) ELSE tx[r].rows[t]
        /\ \A k \in Keys : tx'[r].keys[k] =
               IF k \in KeysOf(Fresh(r)) THEN current[r] ELSE tx[r].keys[k]
        /\ tx'[r].buffers = {e \in tx[r].buffers : TraceOf(e) \notin victims} \cup Fresh(r)
        /\ tx'[r].evicted = tx[r].evicted \cup victims
    BY <1>1 DEF Shape
  <1>3. UNCHANGED tables /\ traces' = traces /\ keyTrace' = keyTrace /\ buffers' = buffers
    BY DEF StageAccepted, tables
  <1>4. StagedRow(r) # Untouched /\ \A t : EvictedRow(r, t) # Untouched
    BY DEF StagedRow, EvictedRow, Untouched
  <1>5. current[r] \in Traces /\ current[r] # NoTrace /\ victims \subseteq Traces
    BY VictimType, NullAssumption DEF Shape, StageAccepted
  <1>6. \A t \in Traces : Touches(r, t)' <=>
            Touches(r, t) \/ t = current[r] \/ t \in victims
    BY <1>2, <1>4 DEF Touches
  <1>7. \A t \in Traces : Row(r, t)' =
            IF t = current[r] THEN StagedRow(r)
            ELSE IF t \in victims THEN EvictedRow(r, t) ELSE Row(r, t)
    BY <1>2, <1>3, <1>4 DEF Row, Touches
  <1>8. \A k \in Keys : KnownTrace(r, k)' =
            IF k \in KeysOf(Fresh(r)) THEN current[r] ELSE KnownTrace(r, k)
    BY <1>2, <1>3, <1>5 DEF KnownTrace
  <1>9. \A e \in Fresh(r) : TraceOf(e) = current[r]
    BY DEF Fresh, Batch, BufferedIn
  <1>10. VisibleBuffers(r)' =
            {e \in VisibleBuffers(r) : TraceOf(e) \notin victims} \cup Fresh(r)
    BY <1>2, <1>3 DEF VisibleBuffers
  <1>11. WritesTouch(r)'
    <2>1. tx[r].evicted \subseteq Traces /\ tx[r].buffers \subseteq Events
      BY DEF Shape, AnyWrites
    <2>2. \A t \in tx'[r].evicted : Touches(r, t)'
      BY <1>2, <1>5, <1>6, <2>1 DEF WritesTouch
    <2>3. \A e \in tx'[r].buffers : Touches(r, TraceOf(e))'
      BY <1>2, <1>5, <1>6, <1>9, <2>1, EventType DEF WritesTouch
    <2> QED
      BY <2>2, <2>3 DEF WritesTouch
  <1> QED
    BY <1>6, <1>7, <1>8, <1>10, <1>11

\* An evicted trace is open in the view and is not the one being staged.
LEMMA VictimOpen ==
    ASSUME NEW r \in Requests, NEW victims \in Victims(r)
    PROVE  /\ ShardFull(r) => \E v \in ShardActive(r) : victims = {v}
           /\ ~ShardFull(r) => victims = {}
           /\ victims \subseteq ShardActive(r)
           /\ current[r] \notin victims
           /\ ShardActive(r) = OpenRows(r, ShardOf[current[r]])
  <1>1. ShardActive(r) = OpenRows(r, ShardOf[current[r]])
    BY DEF ShardActive, OpenRows
  <1>2. CASE ShardFull(r)
    BY <1>1, <1>2 DEF Victims, ShardFull, ShardActive
  <1>3. CASE ~ShardFull(r)
    BY <1>1, <1>3 DEF Victims
  <1> QED
    BY <1>2, <1>3

\* The spans of every trace are counted after a batch as before it.
LEMMA StagedCounts ==
    ASSUME Shape, NEW r \in Requests, StageAccepted(r), ViewRight(r), WritesTouch(r),
           NEW t \in Traces
    PROVE  (Sane(Row(r, t)) /\ Counted(Row(r, t), BufferedIn(VisibleBuffers(r), t)))'
  <1>1. PICK victims \in Victims(r) :
             /\ \A u \in Traces : Row(r, u)' =
                    IF u = current[r] THEN StagedRow(r)
                    ELSE IF u \in victims THEN EvictedRow(r, u) ELSE Row(r, u)
             /\ VisibleBuffers(r)' =
                    {e \in VisibleBuffers(r) : TraceOf(e) \notin victims} \cup Fresh(r)
    BY StagedView
  <1> DEFINE V == VisibleBuffers(r)
             F == Fresh(r)
             old == BufferedIn(V, t)
             new == BufferedIn(VisibleBuffers(r)', t)
  <1>2. \A e \in F : TraceOf(e) = current[r] /\ e \notin V
    BY DEF Fresh, Batch, BufferedIn, ViewRight
  <1>3. V \subseteq Events /\ F \subseteq Events
    BY ViewType
  <1>4. IsFiniteSet(old) /\ IsFiniteSet(F) /\ Cardinality(old) \in Nat /\ Cardinality(F) \in Nat
    BY <1>3, CountType, PayloadAssumption, FS_Subset DEF BufferedIn
  <1>5. Sane(Row(r, t)) /\ Counted(Row(r, t), old)
    BY DEF ViewRight
  <1> HIDE DEF V, F, old, new
  <1>6. CASE t = current[r]
    <2>1. Row(r, t)' = [state |-> "open", spanCount |-> Row(r, t).spanCount + Cardinality(F)]
      BY <1>1, <1>6 DEF StagedRow, F
    <2>2. t \notin victims
      BY <1>6, VictimOpen
    <2>3. new = old \cup F /\ old \cap F = {}
      BY <1>1, <1>2, <1>6, <2>2 DEF new, old, V, F, BufferedIn
    <2>4. Cardinality(new) = Cardinality(old) + Cardinality(F)
      <3>1. Cardinality(old \cup F) =
                Cardinality(old) + Cardinality(F) - Cardinality(old \cap F)
        BY <1>4, FS_Union
      <3>2. Cardinality(old \cap F) = 0
        BY <2>3, FS_EmptySet
      <3> QED
        BY <1>4, <2>3, <3>1, <3>2
    <2>5. Row(r, t).state # "decided"
      BY <1>6 DEF StageAccepted
    <2>6. Row(r, t).spanCount = Cardinality(old)
      BY <1>5, <2>5, FS_EmptySet DEF Sane, Counted
    <2>7. Row(r, t).spanCount + Cardinality(F) \in 0..MaxSpans
      <3>1. CASE F = {}
        BY <1>5, <3>1, FS_EmptySet, BoundAssumption DEF Sane
      <3>2. CASE WithinSpanLimit(r)
        BY <1>4, <1>5, <1>6, <3>2, BoundAssumption DEF Sane, WithinSpanLimit, F
      <3> QED
        BY <3>1, <3>2 DEF StageAccepted, Admissible, F
    <2>8. Sane(Row(r, t)') /\ Counted(Row(r, t)', new)
      BY <2>1, <2>4, <2>6, <2>7 DEF Sane, Counted
    <2> QED
      BY <2>8 DEF new, Sane, Counted, BufferedIn
  <1>7. CASE t # current[r] /\ t \in victims
    <2>1. Row(r, t)' = [state |-> "decided", spanCount |-> Cardinality(old)]
      BY <1>1, <1>7 DEF EvictedRow, old, V
    <2>2. new = {}
      BY <1>1, <1>2, <1>7 DEF new, F, BufferedIn
    <2>3. Row(r, t).state = "open"
      BY <1>7, VictimOpen DEF ShardActive
    <2>4. Cardinality(old) \in 0..MaxSpans
      BY <1>5, <2>3 DEF Sane, Counted
    <2>5. Sane(Row(r, t)') /\ Counted(Row(r, t)', new)
      BY <2>1, <2>2, <2>4 DEF Sane, Counted
    <2> QED
      BY <2>5 DEF new, Sane, Counted, BufferedIn
  <1>8. CASE t # current[r] /\ t \notin victims
    <2>1. Row(r, t)' = Row(r, t)
      BY <1>1, <1>8
    <2>2. new = old
      BY <1>1, <1>2, <1>8 DEF new, old, V, F, BufferedIn
    <2>3. Sane(Row(r, t)') /\ Counted(Row(r, t)', new)
      BY <1>5, <2>1, <2>2
    <2> QED
      BY <2>3 DEF new, Sane, Counted, BufferedIn
  <1> QED
    BY <1>6, <1>7, <1>8

\* A shard keeps within its share: a victim makes room for the trace staged.
LEMMA StagedShards ==
    ASSUME Shape, NEW r \in Requests, StageAccepted(r), ViewRight(r), WritesTouch(r),
           NEW s \in Shards
    PROVE  Cardinality(OpenRows(r, s)') <= ShardCap
  <1>1. PICK victims \in Victims(r) : \A u \in Traces : Row(r, u)' =
             IF u = current[r] THEN StagedRow(r)
             ELSE IF u \in victims THEN EvictedRow(r, u) ELSE Row(r, u)
    BY StagedView
  <1>2. current[r] \in Traces /\ current[r] \notin victims
    BY VictimOpen DEF Shape, StageAccepted
  <1>3. /\ StagedRow(r).state = "open"
        /\ \A u : EvictedRow(r, u).state = "decided"
    BY DEF StagedRow, EvictedRow
  <1> DEFINE old == OpenRows(r, s)
             new == {t \in Traces : ShardOf[t] = s /\ Row(r, t)'.state = "open"}
  <1>4. OpenRows(r, s)' = new
    BY DEF OpenRows
  <1>5. old \subseteq Traces /\ IsFiniteSet(old) /\ Cardinality(old) \in Nat
    BY TraceSets DEF OpenRows
  <1>6. Cardinality(old) <= ShardCap
    BY DEF ViewRight
  <1>7. CASE s # ShardOf[current[r]]
    <2>1. \A v \in victims : ShardOf[v] # s
      BY <1>7, VictimType
    <2>2. new = old
      BY <1>1, <1>7, <2>1 DEF OpenRows
    <2> QED
      BY <1>4, <1>6, <2>2
  <1>8. CASE s = ShardOf[current[r]] /\ ~ShardFull(r)
    <2>1. victims = {}
      BY <1>8, VictimOpen
    <2>2. new = old \cup {current[r]}
      BY <1>1, <1>2, <1>3, <1>8, <2>1 DEF OpenRows
    <2>3. Cardinality(new) = IF current[r] \in old THEN Cardinality(old)
                             ELSE Cardinality(old) + 1
      BY <1>5, <2>2, FS_AddElement
    <2>4. current[r] \notin old => Cardinality(old) < ShardCap
      <3>1. Row(r, current[r]).state \in {"absent", "open", "decided"}
        BY <1>2 DEF ViewRight, Sane
      <3>2. current[r] \notin old => Row(r, current[r]).state = "absent"
        BY <1>2, <1>8, <3>1 DEF OpenRows, StageAccepted
      <3>3. ShardActive(r) = old
        BY <1>8 DEF ShardActive, OpenRows
      <3> QED
        BY <1>5, <1>8, <3>2, <3>3, BoundAssumption DEF ShardFull
    <2> QED
      BY <1>4, <1>5, <1>6, <2>3, <2>4, BoundAssumption
  <1>9. CASE s = ShardOf[current[r]] /\ ShardFull(r)
    <2>1. PICK v \in ShardActive(r) : victims = {v}
      BY <1>9, VictimOpen
    <2>2. v \in old /\ current[r] \notin old /\ v # current[r]
      BY <1>9, <2>1 DEF ShardActive, OpenRows, ShardFull
    <2>3. new = (old \ {v}) \cup {current[r]}
      BY <1>1, <1>2, <1>3, <1>9, <2>1, <2>2 DEF OpenRows
    <2>4. IsFiniteSet(old \ {v}) /\ Cardinality(old \ {v}) = Cardinality(old) - 1
      BY <1>5, <2>2, FS_RemoveElement
    <2>5. current[r] \notin old \ {v}
      BY <2>2
    <2>6. Cardinality(new) = Cardinality(old \ {v}) + 1
      BY <2>3, <2>4, <2>5, FS_AddElement
    <2> QED
      BY <1>4, <1>5, <1>6, <2>4, <2>6
  <1> QED
    BY <1>7, <1>8, <1>9

\* After a batch the request still knows the keys of all events it sees.
LEMMA StagedKeys ==
    ASSUME Shape, NEW r \in Requests, StageAccepted(r), ViewRight(r), WritesTouch(r),
           NEW e \in VisibleBuffers(r)'
    PROVE  KnownTrace(r, KeyOf(e))' # NoTrace
  <1>1. PICK victims \in Victims(r) :
             /\ VisibleBuffers(r)' =
                    {f \in VisibleBuffers(r) : TraceOf(f) \notin victims} \cup Fresh(r)
             /\ \A k \in Keys : KnownTrace(r, k)' =
                    IF k \in KeysOf(Fresh(r)) THEN current[r] ELSE KnownTrace(r, k)
    BY StagedView
  <1>2. current[r] # NoTrace
    BY NullAssumption DEF Shape, StageAccepted
  <1>3. e \in VisibleBuffers(r) \/ e \in Fresh(r)
    BY <1>1
  <1>4. KeyOf(e) \in Keys
    BY <1>3, ViewType, EventType
  <1>5. e \in Fresh(r) => KeyOf(e) \in KeysOf(Fresh(r))
    BY DEF KeysOf
  <1> QED
    BY <1>1, <1>2, <1>3, <1>4, <1>5 DEF ViewRight

\* StageAccepted keeps the invariant.
LEMMA CountStaged ==
    ASSUME CountInv, NEW r \in Requests, StageAccepted(r), Shape', LocksHeld', WritesExclusive'
    PROVE  CountInv'
  <1>1. UNCHANGED tables /\ \A q \in Requests \ {r} : tx'[q] = tx[q]
    BY StageWrites DEF StageAccepted, CountInv
  <1>2. TablesRight'
    BY <1>1, QuietTables DEF CountInv
  <1>3. \A q \in Requests \ {r} : ViewRight(q)' /\ WritesTouch(q)'
    BY <1>1, QuietView DEF CountInv
  <1>4. Shape /\ ViewRight(r) /\ WritesTouch(r)
    BY DEF CountInv
  <1>5. ViewRight(r)'
    BY <1>4, StagedCounts, StagedShards, StagedKeys DEF ViewRight
  <1>6. WritesTouch(r)'
    BY <1>4, StagedView
  <1> QED
    BY <1>2, <1>3, <1>5, <1>6 DEF CountInv

-----------------------------------------------------------------------------
(* The other steps.                                                        *)

\* A retry of known events only locks the row of the decided trace.
LEMMA CountDuplicate ==
    ASSUME CountInv, NEW r \in Requests, StageDuplicate(r),
           Shape', LocksHeld', WritesExclusive'
    PROVE  CountInv'
  <1>1. UNCHANGED tables /\ \A q \in Requests \ {r} : tx'[q] = tx[q]
    BY DEF StageDuplicate, CountInv, Shape
  <1>2. TablesRight'
    BY <1>1, QuietTables DEF CountInv
  <1>3. \A q \in Requests \ {r} : ViewRight(q)' /\ WritesTouch(q)'
    BY <1>1, QuietView DEF CountInv
  <1>4. /\ \A t \in Traces : tx'[r].rows[t] =
               IF t = current[r] THEN Row(r, t) ELSE tx[r].rows[t]
        /\ tx'[r].keys = tx[r].keys /\ tx'[r].buffers = tx[r].buffers
        /\ tx'[r].evicted = tx[r].evicted
    BY DEF StageDuplicate, CountInv, Shape, AnyWrites
  <1>5. Row(r, current[r]) # Untouched
    BY DEF StageDuplicate, Untouched
  <1>6. \A t \in Traces : Row(r, t)' = Row(r, t) /\ (Touches(r, t) => Touches(r, t)')
    BY <1>1, <1>4, <1>5 DEF Row, Touches, tables
  <1>7. VisibleBuffers(r)' = VisibleBuffers(r)
    BY <1>1, <1>4 DEF VisibleBuffers, tables
  <1>8. \A k : KnownTrace(r, k)' = KnownTrace(r, k)
    BY <1>1, <1>4 DEF KnownTrace, tables
  <1>9. \A s : OpenRows(r, s)' = OpenRows(r, s)
    BY <1>6 DEF OpenRows
  <1>10. ViewRight(r)'
    BY <1>6, <1>7, <1>8, <1>9 DEF CountInv, ViewRight, BufferedIn
  <1>11. WritesTouch(r)'
    <2>1. tx[r].evicted \subseteq Traces /\ tx[r].buffers \subseteq Events
      BY DEF CountInv, Shape, AnyWrites
    <2> QED
      BY <1>4, <1>6, <2>1, EventType DEF CountInv, WritesTouch
  <1> QED
    BY <1>2, <1>3, <1>10, <1>11 DEF CountInv

\* A rolled-back transaction leaves the tables to the others.
LEMMA CountAbort ==
    ASSUME CountInv, NEW r \in Requests, Abort(r), Shape', LocksHeld', WritesExclusive'
    PROVE  CountInv'
  <1>1. /\ UNCHANGED tables
        /\ tx'[r] = NoWrites
        /\ \A q \in Requests \ {r} : tx'[q] = tx[q]
    BY DEF Abort, EndTransaction, CountInv, Shape
  <1>2. TablesRight'
    BY <1>1, QuietTables DEF CountInv
  <1>3. \A q \in Requests \ {r} : ViewRight(q)' /\ WritesTouch(q)'
    BY <1>1, QuietView DEF CountInv
  <1>4. ViewRight(r)' /\ WritesTouch(r)'
    BY <1>1, <1>2, FreshRightNext
  <1> QED
    BY <1>2, <1>3, <1>4 DEF CountInv

\* The committed view of one request is the table of all: the others have
\* touched none of the traces it has, and none of their shards.
LEMMA CommitView ==
    ASSUME CountInv, NEW r \in Requests, Apply(r), NEW q \in Requests, q # r,
           tx'[q] = tx[q]
    PROVE  ViewRight(q)' /\ WritesTouch(q)'
  <1>1. /\ \A t \in Traces : traces'[t] = Row(r, t)
        /\ \A k \in Keys : keyTrace'[k] = KnownTrace(r, k)
        /\ buffers' = VisibleBuffers(r)
    BY DEF Apply
  <1>2. ViewRight(r) /\ ViewRight(q) /\ WritesTouch(r) /\ WritesTouch(q) /\ WritesExclusive
    BY DEF CountInv
  <1>3. tx[q].evicted \subseteq Traces /\ tx[q].buffers \subseteq Events
    BY DEF CountInv, Shape, AnyWrites
  <1>4. \A t : Touches(q, t)' <=> Touches(q, t)
    BY DEF Touches
  <1>5. ASSUME NEW t \in Traces, Touches(q, t)
        PROVE  /\ Row(q, t)' = Row(q, t)
               /\ BufferedIn(VisibleBuffers(q), t)' = BufferedIn(VisibleBuffers(q), t)
    <2>1. ~Touches(r, t)
      BY <1>2, <1>5, TouchOwn
    <2>2. BufferedIn(VisibleBuffers(r), t) = BufferedIn(buffers, t)
      BY <1>2, <2>1, UntouchedView
    <2>3. Row(q, t)' = Row(q, t)
      BY <1>4, <1>5 DEF Row
    <2>4. BufferedIn(VisibleBuffers(q), t)' = BufferedIn(VisibleBuffers(q), t)
      <3>1. \A e : TraceOf(e) = t => (e \in buffers' <=> e \in buffers)
        BY <1>1, <2>2 DEF BufferedIn
      <3> QED
        BY <3>1 DEF BufferedIn, VisibleBuffers
    <2> QED
      BY <2>3, <2>4
  <1>6. ASSUME NEW t \in Traces, ~Touches(q, t)
        PROVE  /\ Row(q, t)' = Row(r, t)
               /\ BufferedIn(VisibleBuffers(q), t)' = BufferedIn(VisibleBuffers(r), t)
    <2>1. t \notin tx[q].evicted /\ \A e \in tx[q].buffers : TraceOf(e) # t
      BY <1>2, <1>6 DEF WritesTouch
    <2>2. Row(q, t)' = Row(r, t)
      BY <1>1, <1>4, <1>6 DEF Row
    <2>3. BufferedIn(VisibleBuffers(q), t)' = BufferedIn(VisibleBuffers(r), t)
      BY <1>1, <2>1 DEF BufferedIn, VisibleBuffers
    <2> QED
      BY <2>2, <2>3
  <1>7. ASSUME NEW t \in Traces
        PROVE  (Sane(Row(q, t)) /\ Counted(Row(q, t), BufferedIn(VisibleBuffers(q), t)))'
    <2>1. /\ Sane(Row(q, t)) /\ Counted(Row(q, t), BufferedIn(VisibleBuffers(q), t))
          /\ Sane(Row(r, t)) /\ Counted(Row(r, t), BufferedIn(VisibleBuffers(r), t))
      BY <1>2 DEF ViewRight
    <2>2. Sane(Row(q, t)') /\ Counted(Row(q, t)', BufferedIn(VisibleBuffers(q), t)')
      BY <1>5, <1>6, <2>1
    <2> QED
      BY <2>2 DEF Sane, Counted
  <1>8. ASSUME NEW s \in Shards
        PROVE  Cardinality(OpenRows(q, s)') <= ShardCap
    <2>1. CASE \E t \in Traces : ShardOf[t] = s /\ Touches(q, t)
      <3>1. \A u \in Traces : ShardOf[u] = s => ~Touches(r, u)
        BY <1>2, <2>1, TouchOwn
      <3>2. ASSUME NEW u \in Traces, ShardOf[u] = s
            PROVE  Row(q, u)' = Row(q, u)
        <4>1. CASE Touches(q, u)
          BY <1>5, <4>1
        <4>2. CASE ~Touches(q, u)
          BY <1>2, <1>6, <3>1, <3>2, <4>2, UntouchedView
        <4> QED
          BY <4>1, <4>2
      <3>3. OpenRows(q, s)' = OpenRows(q, s)
        BY <3>2 DEF OpenRows
      <3> QED
        BY <1>2, <3>3 DEF ViewRight
    <2>2. CASE \A t \in Traces : ShardOf[t] = s => ~Touches(q, t)
      <3>1. OpenRows(q, s)' = OpenRows(r, s)
        BY <1>6, <2>2 DEF OpenRows
      <3> QED
        BY <1>2, <3>1 DEF ViewRight
    <2> QED
      BY <2>1, <2>2
  <1>9. ASSUME NEW e \in VisibleBuffers(q)'
        PROVE  KnownTrace(q, KeyOf(e))' # NoTrace
    <2>1. e \in VisibleBuffers(r) \/ e \in tx[q].buffers
      BY <1>1, <1>9 DEF VisibleBuffers
    <2>2. KeyOf(e) \in Keys
      BY <1>3, <2>1, ViewType, EventType DEF CountInv
    <2>3. CASE e \in VisibleBuffers(r)
      BY <1>1, <1>2, <2>2, <2>3 DEF ViewRight, KnownTrace
    <2>4. CASE e \in tx[q].buffers
      <3>1. KnownTrace(q, KeyOf(e)) # NoTrace
        BY <1>2, <2>4 DEF ViewRight, VisibleBuffers
      <3> QED
        BY <1>1, <2>2, <3>1 DEF KnownTrace
    <2> QED
      BY <2>1, <2>3, <2>4
  <1>10. WritesTouch(q)'
    BY <1>2, <1>4 DEF WritesTouch
  <1> QED
    BY <1>7, <1>8, <1>9, <1>10 DEF ViewRight

\* A commit makes the view of the request the table.
LEMMA CountCommit ==
    ASSUME CountInv, NEW r \in Requests, Commit(r), Shape', LocksHeld', WritesExclusive'
    PROVE  CountInv'
  <1>1. PICK a \in {"accepted", "refused"} : EndTransaction(r, a) /\ Apply(r)
    BY DEF Commit
  <1>2. /\ tx'[r] = NoWrites
        /\ \A q \in Requests \ {r} : tx'[q] = tx[q]
    BY <1>1 DEF EndTransaction, CountInv, Shape
  <1>3. /\ \A t \in Traces : traces'[t] = Row(r, t)
        /\ \A k \in Keys : keyTrace'[k] = KnownTrace(r, k)
        /\ buffers' = VisibleBuffers(r)
    BY <1>1 DEF Apply
  <1>4. TablesRight'
    <2>1. \A s : OpenTraces(s)' = OpenRows(r, s)
      BY <1>3 DEF OpenTraces, OpenRows
    <2>2. \A e \in VisibleBuffers(r) : KeyOf(e) \in Keys
      BY ViewType, EventType DEF CountInv
    <2>3. \A t \in Traces : Sane(traces'[t]) /\ Counted(traces'[t], BufferedIn(buffers', t))
      BY <1>3 DEF CountInv, ViewRight
    <2>4. \A s \in Shards : Cardinality(OpenTraces(s)') <= ShardCap
      BY <2>1 DEF CountInv, ViewRight
    <2>5. \A e \in buffers' : keyTrace'[KeyOf(e)] # NoTrace
      BY <1>3, <2>2 DEF CountInv, ViewRight
    <2> QED
      BY <2>3, <2>4, <2>5 DEF TablesRight, Sane, Counted, BufferedIn
  <1>5. \A q \in Requests \ {r} : ViewRight(q)' /\ WritesTouch(q)'
    BY <1>1, <1>2, CommitView
  <1>6. ViewRight(r)' /\ WritesTouch(r)'
    BY <1>2, <1>4, FreshRightNext
  <1> QED
    BY <1>4, <1>5, <1>6 DEF CountInv

\* A tailer decides a trace no transaction has touched: every view loses its
\* buffered events and one undecided trace of the shard.
LEMMA CountTailer ==
    ASSUME CountInv, NEW d \in Traces, TailerDecides(d), Shape', LocksHeld', WritesExclusive'
    PROVE  CountInv'
  <1>1. /\ \A t \in Traces : t # d => traces'[t] = traces[t]
        /\ traces'[d].state = "decided" /\ traces'[d].spanCount = traces[d].spanCount
        /\ traces[d].state = "open"
        /\ keyTrace' = keyTrace /\ tx' = tx
        /\ buffers' = {e \in buffers : TraceOf(e) # d}
        /\ \A q \in Requests : ~Touches(q, d)
    BY DEF TailerDecides, handler, BufferedIn, CountInv, Shape, AnyRow
  <1>2. TablesRight'
    <2>1. ASSUME NEW t \in Traces
          PROVE  Sane(traces'[t]) /\ Counted(traces'[t], BufferedIn(buffers', t))
      <3>1. Sane(traces[t]) /\ Counted(traces[t], BufferedIn(buffers, t))
        BY DEF CountInv, TablesRight
      <3>2. CASE t = d
        <4>1. BufferedIn(buffers', t) = {}
          BY <1>1, <3>2 DEF BufferedIn
        <4> QED
          BY <1>1, <3>1, <3>2, <4>1 DEF Sane, Counted
      <3>3. CASE t # d
        <4>1. BufferedIn(buffers', t) = BufferedIn(buffers, t)
          BY <1>1, <3>3 DEF BufferedIn
        <4> QED
          BY <1>1, <3>1, <3>3, <4>1
      <3> QED
        BY <3>2, <3>3
    <2>2. ASSUME NEW s \in Shards
          PROVE  Cardinality(OpenTraces(s)') <= ShardCap
      <3>1. OpenTraces(s)' \subseteq OpenTraces(s)
        BY <1>1 DEF OpenTraces
      <3>2. IsFiniteSet(OpenTraces(s)) /\ Cardinality(OpenTraces(s)) \in Nat
        BY TraceSets DEF OpenTraces
      <3>3. /\ Cardinality(OpenTraces(s)') <= Cardinality(OpenTraces(s))
            /\ Cardinality(OpenTraces(s)') \in Nat
        BY <3>1, <3>2, FS_Subset, FS_CardinalityType
      <3>4. Cardinality(OpenTraces(s)) <= ShardCap
        BY DEF CountInv, TablesRight
      <3> QED
        BY <3>2, <3>3, <3>4, BoundAssumption
    <2>3. \A e \in buffers' : keyTrace'[KeyOf(e)] # NoTrace
      BY <1>1 DEF CountInv, TablesRight
    <2> QED
      BY <2>1, <2>2, <2>3 DEF TablesRight, Sane, Counted, BufferedIn
  <1>3. ASSUME NEW q \in Requests
        PROVE  ViewRight(q)' /\ WritesTouch(q)'
    <2>1. ViewRight(q) /\ WritesTouch(q)
      BY DEF CountInv
    <2>2. \A t : Touches(q, t)' <=> Touches(q, t)
      BY <1>1 DEF Touches
    <2>3. d \notin tx[q].evicted /\ \A e \in tx[q].buffers : TraceOf(e) # d
      BY <1>1, <2>1 DEF WritesTouch
    <2>4. VisibleBuffers(q)' = {e \in VisibleBuffers(q) : TraceOf(e) # d}
      BY <1>1, <2>3 DEF VisibleBuffers
    <2>5. /\ Row(q, d)' = traces'[d] /\ Row(q, d) = traces[d]
          /\ \A t \in Traces : t # d => Row(q, t)' = Row(q, t)
      BY <1>1, <2>2 DEF Row, Touches
    <2>6. ASSUME NEW t \in Traces
          PROVE  Sane(Row(q, t)') /\ Counted(Row(q, t)', BufferedIn(VisibleBuffers(q)', t))
      <3>1. Sane(Row(q, t)) /\ Counted(Row(q, t), BufferedIn(VisibleBuffers(q), t))
        BY <2>1 DEF ViewRight
      <3>2. CASE t = d
        <4>1. BufferedIn(VisibleBuffers(q)', t) = {}
          BY <2>4, <3>2 DEF BufferedIn
        <4> QED
          BY <1>1, <2>5, <3>1, <3>2, <4>1 DEF Sane, Counted
      <3>3. CASE t # d
        <4>1. BufferedIn(VisibleBuffers(q)', t) = BufferedIn(VisibleBuffers(q), t)
          BY <2>4, <3>3 DEF BufferedIn
        <4> QED
          BY <2>5, <3>1, <3>3, <4>1
      <3> QED
        BY <3>2, <3>3
    <2>7. ASSUME NEW s \in Shards
          PROVE  Cardinality(OpenRows(q, s)') <= ShardCap
      <3>1. OpenRows(q, s)' \subseteq OpenRows(q, s)
        BY <1>1, <2>5 DEF OpenRows
      <3>2. IsFiniteSet(OpenRows(q, s)) /\ Cardinality(OpenRows(q, s)) \in Nat
        BY TraceSets DEF OpenRows
      <3>3. /\ Cardinality(OpenRows(q, s)') <= Cardinality(OpenRows(q, s))
            /\ Cardinality(OpenRows(q, s)') \in Nat
        BY <3>1, <3>2, FS_Subset, FS_CardinalityType
      <3>4. Cardinality(OpenRows(q, s)) <= ShardCap
        BY <2>1 DEF ViewRight
      <3> QED
        BY <3>2, <3>3, <3>4, BoundAssumption
    <2>8. \A e \in VisibleBuffers(q)' : KnownTrace(q, KeyOf(e))' # NoTrace
      BY <1>1, <2>1, <2>4 DEF ViewRight, KnownTrace
    <2>9. WritesTouch(q)'
      BY <1>1, <2>1, <2>2 DEF WritesTouch
    <2> QED
      BY <2>6, <2>7, <2>8, <2>9 DEF ViewRight, Sane, Counted, BufferedIn
  <1> QED
    BY <1>2, <1>3 DEF CountInv

\* The counts are right of the empty tables.
LEMMA CountInit == Init => CountInv
  <1> SUFFICES ASSUME Init PROVE CountInv
    OBVIOUS
  <1>1. Shape /\ LocksHeld /\ WritesExclusive
    BY ShapeInit DEF Init, LocksHeld, WritesExclusive, Touches, NoWrites
  <1>2. \A s : OpenTraces(s) = {}
    BY DEF Init, OpenTraces, AbsentTrace
  <1>3. TablesRight
    BY <1>2, FS_EmptySet, BoundAssumption
    DEF Init, TablesRight, Sane, Counted, AbsentTrace, BufferedIn
  <1> QED
    BY <1>1, <1>3, FreshRight DEF CountInv, Init

\* Every step keeps them right.
LEMMA CountStep ==
    ASSUME CountInv, [Next]_vars
    PROVE  CountInv'
  <1>1. Shape' /\ LocksHeld' /\ WritesExclusive'
    BY ShapeStep, ExclusiveStep DEF CountInv
  <1>2. CASE UNCHANGED <<tables, tx>>
    <2>1. UNCHANGED tables /\ tx' = tx
      BY <1>2
    <2>2. \A q \in Requests : ViewRight(q)' /\ WritesTouch(q)'
      BY <2>1, QuietView DEF CountInv
    <2> QED
      BY <1>1, <2>1, <2>2, QuietTables DEF CountInv
  <1>3. CASE UNCHANGED vars
    BY <1>2, <1>3 DEF vars, handler
  <1>4. ASSUME NEW r \in Requests,
               \/ Rejected(r) \/ PolicyUnavailable(r) \/ AcceptEvents(r)
               \/ NextTrace(r) \/ AcquireLock(r) \/ Retry(r)
        PROVE  CountInv'
    BY <1>2, <1>4
    DEF Rejected, PolicyUnavailable, AcceptEvents, NextTrace, AcquireLock, Retry
  <1>5. ASSUME NEW r \in Requests, StageRefused(r) \/ Cancelled(r) \/ DeadlockAbort(r)
        PROVE  CountInv'
    BY <1>1, <1>5, CountAbort DEF StageRefused, Cancelled, DeadlockAbort
  <1> QED
    BY <1>1, <1>3, <1>4, <1>5, CountStaged, CountDuplicate, CountCommit, CountTailer
    DEF Next, ServeHTTP, StageBatch

\* The invariant behind span_count and the cap under concurrent transactions.
THEOREM CountInvariant == Spec => []CountInv
  BY CountInit, CountStep, PTL DEF Spec

-----------------------------------------------------------------------------
(* What the runs check, for every set of requests and events.              *)

\* stageTraceTx: after every commit and every decision span_count of an
\* undecided trace is the number of its buffered events, whatever part of a
\* batch was known already, and a decided trace has no event buffered.
THEOREM SpansStayCounted == Spec => []SpansCounted
  <1>1. CountInv => SpansCounted
    BY DEF CountInv, TablesRight, Counted, SpansCounted
  <1> QED
    BY <1>1, CountInvariant, PTL

\* stageTraceTx and evictOldestTailTrace: no commit leaves a shard with more
\* undecided traces than its share, however many of a request it staged itself.
THEOREM ShardsStayBounded == Spec => []ShardBound
  <1>1. CountInv => ShardBound
    BY DEF CountInv, TablesRight, OpenTraces, ShardBound
  <1> QED
    BY <1>1, CountInvariant, PTL

\* The parts of TypeOK that are neither in Shape nor about the rows.
Bounded ==
    /\ staged \subseteq Events
    /\ faults \in 0..MaxFaults
    /\ retries \in 0..MaxRetries

\* Every step keeps the counters within their bounds.
LEMMA BoundedStep ==
    ASSUME Bounded, Shape, [Next]_vars
    PROVE  Bounded'
  <1>1. \A r \in Requests : Payload[r] \subseteq Events
    BY PayloadAssumption
  <1> QED
    BY <1>1, BoundAssumption
    DEF Bounded, Next, ServeHTTP, StageBatch, Rejected, PolicyUnavailable, AcceptEvents,
        NextTrace, AcquireLock, StageAccepted, StageDuplicate, StageRefused, Commit,
        Apply, Cancelled, DeadlockAbort, Abort, Retry, TailerDecides, bounds, vars

\* Gateway: every variable keeps its type, the counters their bounds: no row of
\* tail_traces or of a transaction counts more than MaxSpans spans.
THEOREM TypeCorrect == Spec => []TypeOK
  <1>1. Init => Bounded
    BY BoundAssumption DEF Init, Bounded
  <1>2. CountInv /\ Bounded => TypeOK
    <2> SUFFICES ASSUME CountInv, Bounded PROVE TypeOK
      OBVIOUS
    <2>1. \A t \in Traces : traces[t] \in TraceRow
      BY DEF CountInv, Shape, AnyRow, TraceRow, TablesRight, Sane
    <2>2. ASSUME NEW r \in Requests
          PROVE  tx[r] \in Writes
      <3>1. \A t \in Traces : tx[r].rows[t] \in TraceRow \cup {Untouched}
        <4> TAKE t \in Traces
        <4>1. CASE Touches(r, t)
          <5>1. tx[r].rows[t] \in AnyRow
            BY DEF CountInv, Shape, AnyWrites
          <5>2. Sane(tx[r].rows[t])
            BY <4>1 DEF CountInv, ViewRight, Row
          <5> QED
            BY <5>1, <5>2 DEF Sane, AnyRow, TraceRow
        <4>2. CASE ~Touches(r, t)
          BY <4>2 DEF Touches
        <4> QED
          BY <4>1, <4>2
      <3>2. tx[r] \in AnyWrites
        BY DEF CountInv, Shape
      <3>3. tx[r].rows \in [Traces -> TraceRow \cup {Untouched}]
        BY <3>1, <3>2 DEF AnyWrites
      <3> QED
        BY <3>2, <3>3 DEF AnyWrites, Writes
    <2>3. tx \in [Requests -> Writes]
      BY <2>2 DEF CountInv, Shape
    <2>4. traces \in [Traces -> TraceRow]
      BY <2>1 DEF CountInv, Shape
    <2> QED
      BY <2>3, <2>4 DEF CountInv, Shape, Bounded, TypeOK, Boundary!Answers
  <1>3. CountInv => Shape
    BY DEF CountInv
  <1> QED
    BY <1>1, <1>2, <1>3, CountInvariant, BoundedStep, PTL DEF Spec

=============================================================================
