------------------------ MODULE TailStoreLossProofs ------------------------
(***************************************************************************)
(* Theorems about what TailStore keeps of every accepted event: counts,    *)
(* decision records, and the event itself until it is published or a       *)
(* durable decision names its loss.                                        *)
(***************************************************************************)
EXTENDS TailStoreProofs

\* The span_count stageTraceTx starts from.
SpanCount(t) == IF Absent(t) THEN 0 ELSE traces[t].spanCount

-----------------------------------------------------------------------------
(* What the steps do, as far as these theorems tell them apart.            *)

\* A victim is an undecided trace of the shard, and not the trace being staged.
LEMMA VictimsOpen ==
    ASSUME NEW t \in Traces, NEW victims \in Victims(t)
    PROVE  /\ victims \subseteq ShardActive(t) /\ t \notin victims
           /\ \/ victims = {} /\ (~Absent(t) \/ ~(Cardinality(ShardActive(t)) >= ShardCap))
              \/ \E v \in ShardActive(t) : victims = {v}
  <1>1. CASE Absent(t) /\ Cardinality(ShardActive(t)) >= ShardCap
    BY <1>1 DEF Victims, ShardActive, Open, Absent
  <1>2. CASE ~(Absent(t) /\ Cardinality(ShardActive(t)) >= ShardCap)
    BY <1>2 DEF Victims
  <1> QED
    BY <1>1, <1>2

\* A request is accepted, and the victims evicted.
Staged(t, B, victims) ==
    /\ Fresh(B) \subseteq B /\ Cardinality(Fresh(B)) \in Nat
    /\ ~Decided(t)
    /\ Fresh(B) = {} \/ WithinSpanLimit(t, Cardinality(Fresh(B)))
    /\ BufferKeysFree(Fresh(B), {e \in buffers : TraceOf[e] \notin victims})
    /\ traces'[t].decision = "undecided"
    /\ traces'[t].spanCount = SpanCount(t) + Cardinality(Fresh(B))
    /\ \A v \in victims : /\ traces'[v].decision = "evicted_pressure"
                          /\ traces'[v].spanCount = Cardinality(Buffered(v))
                          /\ decisions'[v] = EvictionRow(v)
    /\ \A u \in Traces \ {t} : u \notin victims => traces'[u] = traces[u]
    /\ \A u \in Traces : u \notin victims => decisions'[u] = decisions[u]
    /\ buffers' = {e \in buffers : TraceOf[e] \notin victims} \cup Fresh(B)
    /\ \A k \in Keys : keyTrace'[k] = IF k \in KeysOf(Fresh(B)) THEN t ELSE keyTrace[k]
    /\ acked' = acked \cup B
    /\ UNCHANGED <<outbox, topic, del, deletes>>

\* stageTraceTx does that, for the victim of its shard or for none.
LEMMA StageEffect ==
    ASSUME TypeOK, NEW t \in Traces, NEW B \in SUBSET {e \in Envelopes : TraceOf[e] = t},
           StageAccepted(t, B)
    PROVE  \E victims \in Victims(t) : Staged(t, B, victims)
  <1> PICK victims \in Victims(t) :
        /\ ~Decided(t)
        /\ Fresh(B) = {} \/ WithinSpanLimit(t, Cardinality(Fresh(B)))
        /\ BufferKeysFree(Fresh(B), {e \in buffers : TraceOf[e] \notin victims})
        /\ traces' = [u \in Traces |->
               IF u = t THEN StagedRow(t, Cardinality(Fresh(B)))
               ELSE IF u \in victims THEN Evicted(u) ELSE traces[u]]
        /\ buffers' = {e \in buffers : TraceOf[e] \notin victims} \cup Fresh(B)
        /\ keyTrace' = [k \in Keys |-> IF k \in KeysOf(Fresh(B)) THEN t ELSE keyTrace[k]]
        /\ decisions' = [u \in Traces |->
               IF u \in victims THEN EvictionRow(u) ELSE decisions[u]]
        /\ acked' = acked \cup B
        /\ UNCHANGED <<outbox, notStaging>>
    BY DEF StageAccepted
  <1>1. Fresh(B) \subseteq B /\ Cardinality(Fresh(B)) \in Nat
    BY CountNat DEF Fresh
  <1>2. t \notin victims /\ victims \subseteq Traces
    BY VictimsOpen DEF ShardActive
  <1> DEFINE n == Cardinality(Fresh(B))
             row == IF Absent(t) THEN NewTrace ELSE traces[t]
  <1>3. row \in TraceRow /\ row.decision = "undecided" /\ row.spanCount = SpanCount(t)
    BY RowTypes DEF TypeOK, NewTrace, AbsentTrace, SpanCount, Decided, Absent, TraceRow
  <1>4. StagedRow(t, n) = IF n = 0 THEN row
            ELSE [row EXCEPT !.generation = @ + 1, !.spanCount = @ + n, !.quiet = FALSE]
    BY DEF StagedRow
  <1> HIDE DEF row, n
  <1>5. /\ StagedRow(t, n).decision = "undecided"
        /\ StagedRow(t, n).spanCount = SpanCount(t) + n
    <2>1. CASE n = 0
      BY <1>3, <1>4, <2>1 DEF TraceRow
    <2>2. CASE n # 0
      BY <1>3, <1>4, <2>2 DEF TraceRow
    <2> QED
      BY <2>1, <2>2
  <1>6. \A v \in Traces : /\ Evicted(v).decision = "evicted_pressure"
                          /\ Evicted(v).spanCount = Cardinality(Buffered(v))
    <2> SUFFICES ASSUME NEW v \in Traces
                 PROVE  /\ Evicted(v).decision = "evicted_pressure"
                        /\ Evicted(v).spanCount = Cardinality(Buffered(v))
      OBVIOUS
    <2>1. traces[v] \in TraceRow
      BY DEF TypeOK
    <2> QED
      BY <2>1 DEF Evicted, TraceRow
  <1>7. /\ traces'[t].decision = "undecided"
        /\ traces'[t].spanCount = SpanCount(t) + Cardinality(Fresh(B))
    BY <1>5 DEF n
  <1>8. \A v \in victims : /\ traces'[v].decision = "evicted_pressure"
                           /\ traces'[v].spanCount = Cardinality(Buffered(v))
                           /\ decisions'[v] = EvictionRow(v)
    <2> SUFFICES ASSUME NEW v \in victims
                 PROVE  traces'[v] = Evicted(v) /\ decisions'[v] = EvictionRow(v)
      BY <1>2, <1>6
    <2>1. v \in Traces /\ v # t
      BY <1>2
    <2> QED
      BY <2>1
  <1>9. /\ \A u \in Traces \ {t} : u \notin victims => traces'[u] = traces[u]
        /\ \A u \in Traces : u \notin victims => decisions'[u] = decisions[u]
        /\ \A k \in Keys : keyTrace'[k] = IF k \in KeysOf(Fresh(B)) THEN t ELSE keyTrace[k]
    OBVIOUS
  <1>10. UNCHANGED <<outbox, topic, del, deletes>>
    BY DEF notStaging, bounds
  <1> QED
    BY <1>1, <1>7, <1>8, <1>9, <1>10 DEF Staged

\* The trace of the lease is decided, by the reason its tailer computed.
Recorded(w) ==
    LET t == lease[w].trace IN
    /\ t \in Traces /\ Open(t) /\ reason[w] \in TailerReasons
    /\ traces'[t].decision = reason[w]
    /\ traces'[t].spanCount = Cardinality(Buffered(t))
    /\ decisions[t] = NoDecision
    /\ decisions'[t] = [reason |-> reason[w], spanCount |-> Cardinality(Buffered(t))]
    /\ \A u \in Traces \ {t} : traces'[u] = traces[u] /\ decisions'[u] = decisions[u]
    /\ buffers' = buffers \ Buffered(t)
    /\ \A k \in Keys : outbox[k].state # "absent" => outbox'[k] = outbox[k]
    /\ \A k \in Keys : \/ outbox'[k] = outbox[k]
                       \/ reason[w] \in RetainedReasons /\ k \in KeysOf(Buffered(t))
    /\ reason[w] \in RetainedReasons =>
           \A e \in Buffered(t) : outbox'[KeyOf[e]].state # "absent"
    /\ UNCHANGED <<keyTrace, topic, acked, del, deletes>>

\* RecordTailDecision does that.
LEMMA RecordEffect ==
    ASSUME TypeOK, WorkerShape, NEW w \in Workers, RecordTailDecision(w)
    PROVE  Recorded(w)
  <1> DEFINE t == lease[w].trace
  <1>1. t \in Traces /\ Open(t) /\ reason[w] \in TailerReasons
    <2>1. pc[w] = "record" /\ LeaseValid(w)
      BY DEF RecordTailDecision
    <2>2. lease[w] \in leases[w] /\ reason[w] \in TailerReasons
      BY <2>1 DEF WorkerShape
    <2>3. leases[w] \subseteq Lease
      BY DEF TypeOK
    <2> QED
      BY <2>1, <2>2, <2>3 DEF Lease, LeaseValid, Open
  <1>2. traces[t] \in TraceRow
    BY <1>1 DEF TypeOK
  <1>3. /\ traces'[t].decision = reason[w]
        /\ traces'[t].spanCount = Cardinality(Buffered(t))
        /\ \A u \in Traces \ {t} : traces'[u] = traces[u]
    BY <1>1, <1>2 DEF RecordTailDecision, TypeOK, TraceRow
  <1>4. /\ decisions[t] = NoDecision
        /\ decisions'[t] = [reason |-> reason[w], spanCount |-> Cardinality(Buffered(t))]
        /\ \A u \in Traces \ {t} : decisions'[u] = decisions[u]
    BY <1>1 DEF RecordTailDecision, TypeOK
  <1>5. \A k \in Keys : outbox[k].state # "absent" => outbox'[k] = outbox[k]
    BY DEF RecordTailDecision
  <1>6. \A k \in Keys : \/ outbox'[k] = outbox[k]
                        \/ reason[w] \in RetainedReasons /\ k \in KeysOf(Buffered(t))
    <2>1. \A k \in Keys : outbox'[k] = outbox[k] \/ k \in KeysOf(Kept(w))
      BY DEF RecordTailDecision
    <2>2. \A k : k \in KeysOf(Kept(w)) =>
              reason[w] \in RetainedReasons /\ k \in KeysOf(Buffered(t))
      BY DEF Kept, KeysOf
    <2> QED
      BY <2>1, <2>2
  <1>7. ASSUME reason[w] \in RetainedReasons, NEW e \in Buffered(t)
        PROVE  outbox'[KeyOf[e]].state # "absent"
    <2>1. KeyOf[e] \in Keys /\ KeyOf[e] \in KeysOf(Kept(w))
      BY <1>7, EventAssumption DEF Kept, KeysOf, Buffered, TypeOK
    <2>2. outbox'[KeyOf[e]] =
            IF outbox[KeyOf[e]].state = "absent"
            THEN [NoMessage EXCEPT !.state = "pending",
                                   !.envelope = {f \in Kept(w) : KeyOf[f] = KeyOf[e]}]
            ELSE outbox[KeyOf[e]]
      BY <2>1 DEF RecordTailDecision
    <2> QED
      BY <2>2 DEF NoMessage
  <1> QED
    BY <1>1, <1>3, <1>4, <1>5, <1>6, <1>7
    DEF Recorded, RecordTailDecision, history, bounds

\* The steps that decide, buffer and remove nothing.
Quiet ==
    /\ UNCHANGED <<buffers, keyTrace, decisions, del, deletes>>
    /\ \A t \in Traces : /\ traces'[t].decision = traces[t].decision
                         /\ traces'[t].spanCount = traces[t].spanCount
    /\ \A k \in Keys : outbox'[k].state = "absent" <=> outbox[k].state = "absent"
    /\ topic \subseteq topic'
    /\ \A e \in acked' : e \in acked \/ keyTrace[KeyOf[e]] # NoTrace

\* No other step of a tailer touches a trace, a decision or a buffered span.
LEMMA QuietProcess ==
    ASSUME TypeOK, NEW w \in Workers, Process(w), ~RecordTailDecision(w)
    PROVE  Quiet
  <1>1. CASE ClaimTailTraces(w)
    <2>1. ASSUME NEW t \in Traces
          PROVE  /\ traces'[t].decision = traces[t].decision
                 /\ traces'[t].spanCount = traces[t].spanCount
      <3>1. traces[t] \in TraceRow
        BY DEF TypeOK
      <3>2. \/ traces'[t] = traces[t]
            \/ traces'[t] = [traces[t] EXCEPT !.owner = OwnerOf[w], !.leased = TRUE]
        BY <1>1 DEF ClaimTailTraces
      <3> QED
        BY <3>1, <3>2 DEF TraceRow
    <2>2. UNCHANGED <<buffers, keyTrace, decisions, outbox, del, deletes, topic, acked>>
      BY <1>1 DEF ClaimTailTraces, history, bounds
    <2> QED
      BY <2>1, <2>2 DEF Quiet
  <1>2. CASE LoadTailTrace(w) \/ SkipTailDecision(w) \/ FailTailDecision(w)
                \/ Publish(w) \/ OutboxLeaseLost(w)
    BY <1>2 DEF LoadTailTrace, SkipTailDecision, FailTailDecision, Publish,
                OutboxLeaseLost, Quiet, tables, history, bounds
  <1>3. CASE ClaimTailOutbox(w)
    <2>1. ASSUME NEW k \in Keys
          PROVE  outbox'[k].state = outbox[k].state
      <3>1. outbox[k] \in OutboxRow
        BY DEF TypeOK
      <3>2. \/ outbox'[k] = outbox[k]
            \/ outbox'[k] = [outbox[k] EXCEPT !.owner = OwnerOf[w], !.leased = TRUE]
        BY <1>3 DEF ClaimTailOutbox
      <3>3. outbox'[k].state = outbox[k].state
        BY <3>1, <3>2 DEF OutboxRow
      <3> QED
        BY <3>3
    <2>2. UNCHANGED <<traces, buffers, keyTrace, decisions, del, deletes, topic, acked>>
      BY <1>3 DEF ClaimTailOutbox, history, bounds
    <2> QED
      BY <2>1, <2>2 DEF Quiet
  <1>4. CASE MarkTailOutboxPublished(w)
    <2>1. ASSUME NEW k \in Keys
          PROVE  outbox'[k].state = "absent" <=> outbox[k].state = "absent"
      <3>1. outbox \in [Keys -> OutboxRow] /\ outbox[k] \in OutboxRow
        BY DEF TypeOK
      <3>2. PICK e \in message[w] :
                /\ outbox[KeyOf[e]].state = "pending"
                /\ outbox' = [outbox EXCEPT ![KeyOf[e]] =
                       [@ EXCEPT !.state = "published", !.owner = NoOwner, !.leased = FALSE]]
        BY <1>4 DEF MarkTailOutboxPublished, HoldsMessage
      <3>3. CASE KeyOf[e] = k
        <4>1. outbox'[k] =
                  [outbox[k] EXCEPT !.state = "published", !.owner = NoOwner, !.leased = FALSE]
          BY <3>1, <3>2, <3>3
        <4>2. outbox'[k].state = "published"
          BY <3>1, <4>1 DEF OutboxRow
        <4> QED
          BY <3>2, <3>3, <4>2
      <3>4. CASE KeyOf[e] # k
        BY <3>1, <3>2, <3>4
      <3> QED
        BY <3>3, <3>4
    <2>2. UNCHANGED <<traces, buffers, keyTrace, decisions, del, deletes, topic, acked>>
      BY <1>4 DEF MarkTailOutboxPublished, history, bounds
    <2> QED
      BY <2>1, <2>2 DEF Quiet
  <1> QED
    BY <1>1, <1>2, <1>3, <1>4 DEF Process

\* Nor does the passing of time.
LEMMA QuietClock ==
    ASSUME TypeOK, (\E t \in Traces : QuietElapses(t)) \/ OrphanedLeaseExpires
                       \/ HeldLeaseExpires
    PROVE  Quiet
  <1>1. /\ \A t \in Traces : traces[t] \in TraceRow
        /\ \A k \in Keys : outbox[k] \in OutboxRow
        /\ traces \in [Traces -> TraceRow] /\ outbox \in [Keys -> OutboxRow]
    BY DEF TypeOK
  <1>2. ASSUME NEW t \in Traces, QuietElapses(t)
        PROVE  Quiet
    BY <1>1, <1>2 DEF QuietElapses, Quiet, TraceRow, history, bounds
  <1>3. ASSUME NEW t \in Traces, TraceLeaseExpires(t), UNCHANGED deletes
        PROVE  Quiet
    BY <1>1, <1>3 DEF TraceLeaseExpires, Quiet, TraceRow, history
  <1>4. ASSUME NEW k \in Keys, MessageLeaseExpires(k), UNCHANGED deletes
        PROVE  Quiet
    BY <1>1, <1>4 DEF MessageLeaseExpires, Quiet, OutboxRow, history
  <1> QED
    BY <1>2, <1>3, <1>4 DEF OrphanedLeaseExpires, HeldLeaseExpires, bounds

\* Every step is one of five kinds.
LEMMA StepKinds ==
    ASSUME TypeOK, WorkerShape, [Next]_vars
    PROVE  \/ \E t \in Traces : \E B \in SUBSET {e \in Envelopes : TraceOf[e] = t} :
                  \E victims \in Victims(t) : B # {} /\ Staged(t, B, victims)
           \/ \E w \in Workers : Recorded(w)
           \/ DeleteTailDataBefore
           \/ DeleteTenantTailData
           \/ Quiet
  <1>1. CASE Stage
    <2> PICK t \in Traces : \E B \in SUBSET {e \in Envelopes : TraceOf[e] = t} :
             Cardinality(B) \in 1..MaxBatch /\ (StageAccepted(t, B) \/ StageDuplicate(t, B))
      BY <1>1 DEF Stage
    <2> PICK B \in SUBSET {e \in Envelopes : TraceOf[e] = t} :
             Cardinality(B) \in 1..MaxBatch /\ (StageAccepted(t, B) \/ StageDuplicate(t, B))
      OBVIOUS
    <2>1. B # {}
      BY FS_EmptySet
    <2>2. CASE StageAccepted(t, B)
      BY <2>1, <2>2, StageEffect
    <2>3. CASE StageDuplicate(t, B)
      BY <2>3, EventAssumption DEF StageDuplicate, KnownTo, Quiet, tables, notStaging, bounds
    <2> QED
      BY <2>2, <2>3
  <1>2. ASSUME NEW w \in Workers, PublishFails(w) \/ Crash(w) \/ Restart(w)
        PROVE  Quiet
    BY <1>2 DEF PublishFails, Crash, Restart, Quiet, tables, history, bounds
  <1>3. CASE UNCHANGED vars
    BY <1>3 DEF vars, tables, history, bounds, Quiet
  <1> QED
    BY <1>1, <1>2, <1>3, RecordEffect, QuietProcess, QuietClock DEF Next

-----------------------------------------------------------------------------
(* Counts: span_count and the undecided traces of a shard.                 *)

\* BuffersCounted and ActiveBound, where the undecided traces are finitely many.
CountsInv ==
    /\ TypeOK /\ WorkerShape /\ BuffersCounted
    /\ \A t \in Traces :
           IsFiniteSet(ShardActive(t)) /\ Cardinality(ShardActive(t)) <= ShardCap

\* Fewer undecided traces keep within the bound.
LEMMA FewerActive ==
    ASSUME CountsInv, NEW t \in Traces, ShardActive(t)' \subseteq ShardActive(t)
    PROVE  IsFiniteSet(ShardActive(t)') /\ Cardinality(ShardActive(t)') <= ShardCap
  <1>1. IsFiniteSet(ShardActive(t)) /\ Cardinality(ShardActive(t)) <= ShardCap
    BY DEF CountsInv
  <1>2. /\ IsFiniteSet(ShardActive(t)')
        /\ Cardinality(ShardActive(t)') <= Cardinality(ShardActive(t))
    BY <1>1, FS_Subset
  <1>3. Cardinality(ShardActive(t)) \in Nat /\ Cardinality(ShardActive(t)') \in Nat
    BY <1>1, <1>2, FS_CardinalityType
  <1> QED
    BY <1>1, <1>2, <1>3, BoundAssumption

\* Staging a trace adds one at most to its shard, and then only below the cap
\* or in the place of a victim.
LEMMA StagedActive ==
    ASSUME CountsInv, NEW t \in Traces, NEW B, NEW victims \in Victims(t),
           Staged(t, B, victims), NEW u \in Traces
    PROVE  IsFiniteSet(ShardActive(u)') /\ Cardinality(ShardActive(u)') <= ShardCap
  <1> DEFINE old == ShardActive(u)
             new == {v \in Traces : traces'[v].decision = "undecided" /\ ShardOf[v] = ShardOf[u]}
  <1>1. ShardActive(u)' = new
    BY DEF ShardActive, Open
  <1>2. IsFiniteSet(old) /\ Cardinality(old) \in Nat /\ Cardinality(old) <= ShardCap
    BY FS_CardinalityType DEF CountsInv
  <1>3. victims \subseteq ShardActive(t) /\ t \notin victims
    BY VictimsOpen
  <1>4. /\ \A v \in Traces \ {t} : v \notin victims => traces'[v] = traces[v]
        /\ \A v \in victims : traces'[v].decision = "evicted_pressure"
        /\ traces'[t].decision = "undecided" /\ ~Decided(t)
    BY DEF Staged
  <1>5. CASE ShardOf[u] # ShardOf[t]
    <2>1. new = old
      BY <1>3, <1>4, <1>5 DEF ShardActive, Open
    <2> QED
      BY <1>1, <1>2, <2>1
  <1>6. CASE ShardOf[u] = ShardOf[t] /\ victims = {}
    <2>1. old = ShardActive(t)
      BY <1>6 DEF ShardActive
    <2>2. new = old \cup {t}
      BY <1>4, <1>6 DEF ShardActive, Open
    <2>3. t \notin old => Cardinality(old) < ShardCap
      <3>1. t \notin old => Absent(t)
        BY <1>4, <2>1 DEF ShardActive, Open, Absent, Decided, CountsInv, TypeOK, TraceRow
      <3>2. {} \notin {{v} : v \in ShardActive(t)}
        OBVIOUS
      <3>3. Absent(t) => ~(Cardinality(ShardActive(t)) >= ShardCap)
        BY <1>6, <3>2 DEF Victims
      <3> QED
        BY <1>2, <2>1, <3>1, <3>3, BoundAssumption
    <2>4. /\ IsFiniteSet(old \cup {t})
          /\ Cardinality(old \cup {t}) =
                 IF t \in old THEN Cardinality(old) ELSE Cardinality(old) + 1
      BY <1>2, FS_AddElement
    <2> HIDE DEF old, new
    <2> QED
      BY <1>1, <1>2, <2>2, <2>3, <2>4, BoundAssumption
  <1>7. CASE ShardOf[u] = ShardOf[t] /\ victims # {}
    <2>1. PICK v \in ShardActive(t) : victims = {v}
      BY <1>7, VictimsOpen
    <2>2. Absent(t)
      BY <1>7 DEF Victims
    <2>3. old = ShardActive(t) /\ v \in old /\ t \notin old
      BY <1>7, <2>1, <2>2 DEF ShardActive, Open, Absent
    <2>4. new = (old \ {v}) \cup {t}
      BY <1>3, <1>4, <1>7, <2>1 DEF ShardActive, Open
    <2>5. IsFiniteSet(old \ {v}) /\ Cardinality(old \ {v}) = Cardinality(old) - 1
      BY <1>2, <2>3, FS_RemoveElement
    <2>6. t \notin old \ {v}
      BY <2>3
    <2>7. /\ IsFiniteSet((old \ {v}) \cup {t})
          /\ Cardinality((old \ {v}) \cup {t}) = Cardinality(old \ {v}) + 1
      BY <2>5, <2>6, FS_AddElement
    <2> HIDE DEF old, new
    <2> QED
      BY <1>1, <1>2, <2>4, <2>5, <2>7
  <1> QED
    BY <1>5, <1>6, <1>7

\* Staging counts the spans it buffers.
LEMMA StagedBuffers ==
    ASSUME CountsInv, NEW t \in Traces, NEW B \in SUBSET {e \in Envelopes : TraceOf[e] = t},
           NEW victims \in Victims(t), Staged(t, B, victims)
    PROVE  BuffersCounted'
  <1> DEFINE F == Fresh(B)
  <1>1. victims \subseteq ShardActive(t) /\ t \notin victims
    BY VictimsOpen
  <1>2. /\ F \subseteq Envelopes /\ \A e \in F : TraceOf[e] = t
        /\ Cardinality(F) \in Nat
        /\ buffers' = {e \in buffers : TraceOf[e] \notin victims} \cup F
        /\ KeysOf(F) \cap KeysOf({e \in buffers : TraceOf[e] \notin victims}) = {}
        /\ F = {} \/ WithinSpanLimit(t, Cardinality(F))
        /\ traces'[t].decision = "undecided"
        /\ traces'[t].spanCount = SpanCount(t) + Cardinality(F)
        /\ \A v \in victims : traces'[v].decision = "evicted_pressure"
        /\ \A u \in Traces \ {t} : u \notin victims => traces'[u] = traces[u]
        /\ ~Decided(t)
    BY DEF Staged, BufferKeysFree
  <1>3. buffers \subseteq Envelopes /\ (\A e \in buffers : Open(TraceOf[e])) /\ TypeOK
    BY DEF CountsInv, TypeOK, BuffersCounted
  <1>4. \A e \in buffers' : Open(TraceOf[e])'
    BY <1>1, <1>2, <1>3, EventAssumption DEF Open
  <1>5. ASSUME NEW u \in Traces, Open(u)'
        PROVE  /\ traces'[u].spanCount = Cardinality(Buffered(u)')
               /\ traces'[u].spanCount <= MaxSpans
    <2>1. u \notin victims
      BY <1>2, <1>5 DEF Open
    <2>2. CASE u # t
      <3>1. Buffered(u)' = Buffered(u)
        BY <1>2, <2>1, <2>2 DEF Buffered
      <3>2. traces'[u] = traces[u] /\ Open(u)
        BY <1>2, <1>5, <2>1, <2>2 DEF Open
      <3> QED
        BY <3>1, <3>2 DEF CountsInv, BuffersCounted
    <2>3. CASE u = t
      <3>1. Buffered(t)' = Buffered(t) \cup F /\ Buffered(t) \cap F = {}
        BY <1>1, <1>2 DEF Buffered, KeysOf
      <3>2. /\ IsFiniteSet(Buffered(t)) /\ Cardinality(Buffered(t)) \in Nat
            /\ IsFiniteSet(F)
        BY <1>2, <1>3, FiniteAssumption, FS_Subset, FS_CardinalityType DEF Buffered
      <3>3. Cardinality(Buffered(t) \cup F) =
                Cardinality(Buffered(t)) + Cardinality(F) - Cardinality(Buffered(t) \cap F)
        BY <3>2, FS_Union
      <3>4. Cardinality(Buffered(t) \cap F) = 0
        BY <3>1, FS_EmptySet
      <3>5. Cardinality(Buffered(t)') = Cardinality(Buffered(t)) + Cardinality(F)
        BY <1>2, <3>1, <3>2, <3>3, <3>4
      <3>6. SpanCount(t) = Cardinality(Buffered(t)) /\ SpanCount(t) <= MaxSpans
        <4>1. CASE Absent(t)
          <5>1. Buffered(t) = {}
            BY <1>3, <4>1 DEF Buffered, Open, Absent
          <5> QED
            BY <4>1, <5>1, FS_EmptySet, BoundAssumption DEF SpanCount
        <4>2. CASE ~Absent(t)
          <5>1. Open(t)
            BY <1>2, <1>3, <4>2 DEF Open, Absent, Decided, TypeOK, TraceRow
          <5> QED
            BY <4>2, <5>1 DEF SpanCount, CountsInv, BuffersCounted
        <4> QED
          BY <4>1, <4>2
      <3>7. SpanCount(t) + Cardinality(F) <= MaxSpans
        <4>1. CASE F = {}
          <5>1. Cardinality(F) = 0
            BY <4>1, FS_EmptySet
          <5> QED
            BY <3>2, <3>6, <5>1, BoundAssumption
        <4>2. CASE WithinSpanLimit(t, Cardinality(F))
          <5>1. traces[t].spanCount \in Nat
            BY <1>3 DEF TypeOK, TraceRow
          <5> QED
            BY <1>2, <4>2, <5>1, BoundAssumption DEF WithinSpanLimit, SpanCount
        <4> QED
          BY <1>2, <4>1, <4>2
      <3> QED
        BY <1>2, <2>3, <3>5, <3>6, <3>7
    <2> QED
      BY <2>2, <2>3
  <1> QED
    BY <1>4, <1>5 DEF BuffersCounted, Open, Buffered

\* A step that leaves decisions, span counts and buffers alone keeps the counts.
LEMMA CountsQuiet ==
    ASSUME CountsInv, UNCHANGED buffers,
           \A t \in Traces : /\ traces'[t].decision = traces[t].decision
                             /\ traces'[t].spanCount = traces[t].spanCount
    PROVE  /\ BuffersCounted'
           /\ \A t \in Traces :
                  IsFiniteSet(ShardActive(t)') /\ Cardinality(ShardActive(t)') <= ShardCap
  <1>1. \A t \in Traces : Open(t)' <=> Open(t)
    BY DEF Open
  <1>2. \A t : Buffered(t)' = Buffered(t)
    BY DEF Buffered
  <1>3. \A e \in buffers : TraceOf[e] \in Traces
    BY EventAssumption DEF CountsInv, TypeOK
  <1>4. \A t \in Traces : ShardActive(t)' = ShardActive(t)
    BY <1>1 DEF ShardActive
  <1>5. BuffersCounted'
    BY <1>1, <1>2, <1>3 DEF CountsInv, BuffersCounted
  <1> QED
    BY <1>4, <1>5 DEF CountsInv

\* A step that only closes or removes traces, with their buffers, keeps them too.
LEMMA CountsClosed ==
    ASSUME CountsInv, buffers' \subseteq buffers,
           \A t \in Traces : \/ /\ traces'[t] = traces[t]
                                /\ Open(t) => Buffered(t)' = Buffered(t)
                             \/ ~Open(t)' /\ Buffered(t)' = {}
    PROVE  /\ BuffersCounted'
           /\ \A t \in Traces :
                  IsFiniteSet(ShardActive(t)') /\ Cardinality(ShardActive(t)') <= ShardCap
  <1>1. \A t \in Traces : Open(t)' =>
            Open(t) /\ traces'[t] = traces[t] /\ Buffered(t)' = Buffered(t)
    BY DEF Open
  <1>2. ASSUME NEW e \in buffers'
        PROVE  Open(TraceOf[e])'
    <2>1. TraceOf[e] \in Traces /\ Open(TraceOf[e]) /\ e \in Buffered(TraceOf[e])'
      BY <1>2, EventAssumption DEF CountsInv, TypeOK, BuffersCounted, Buffered
    <2> QED
      BY <2>1 DEF Open
  <1>3. \A t \in Traces : ShardActive(t)' \subseteq ShardActive(t)
    BY <1>1 DEF ShardActive
  <1>4. BuffersCounted'
    BY <1>1, <1>2 DEF CountsInv, BuffersCounted
  <1> QED
    BY <1>3, <1>4, FewerActive

\* Every step keeps the counts.
LEMMA CountsStep ==
    ASSUME CountsInv, [Next]_vars
    PROVE  CountsInv'
  <1>1. TypeOK' /\ WorkerShape'
    BY TypeStep, ShapeStep DEF CountsInv
  <1>2. \A e \in buffers : TraceOf[e] \in Traces /\ Open(TraceOf[e])
    BY EventAssumption DEF CountsInv, TypeOK, BuffersCounted
  <1>3. ASSUME NEW t \in Traces, NEW B \in SUBSET {e \in Envelopes : TraceOf[e] = t},
               NEW victims \in Victims(t), Staged(t, B, victims)
        PROVE  CountsInv'
    BY <1>1, <1>3, StagedActive, StagedBuffers DEF CountsInv
  <1>4. ASSUME NEW w \in Workers, Recorded(w)
        PROVE  CountsInv'
    <2>1. "undecided" \notin TailerReasons
      BY DEF TailerReasons, RetainedReasons
    <2>2. \A t \in Traces : \/ /\ traces'[t] = traces[t]
                               /\ Open(t) => Buffered(t)' = Buffered(t)
                            \/ ~Open(t)' /\ Buffered(t)' = {}
      BY <1>4, <2>1 DEF Recorded, Open, Buffered
    <2>3. buffers' \subseteq buffers
      BY <1>4 DEF Recorded
    <2> QED
      BY <1>1, <2>2, <2>3, CountsClosed DEF CountsInv
  <1>5. CASE DeleteTailDataBefore
    <2>1. buffers' = buffers /\ AbsentTrace.decision = "absent"
      BY <1>5 DEF DeleteTailDataBefore, AbsentTrace
    <2>2. \A t \in Traces : \/ traces'[t] = traces[t]
                            \/ traces'[t] = AbsentTrace /\ Decided(t)
      BY <1>5 DEF DeleteTailDataBefore, DecidedTraces
    <2>3. \A t \in Traces : Decided(t) => ~Open(t)
      BY DEF Decided, Open, Reasons, TailerReasons, RetainedReasons
    <2>4. \A t \in Traces : ~Open(t) => Buffered(t) = {}
      BY <1>2 DEF Buffered
    <2>5. \A t : Buffered(t)' = Buffered(t)
      BY <2>1 DEF Buffered
    <2> QED
      BY <1>1, <2>1, <2>2, <2>3, <2>4, <2>5, CountsClosed DEF CountsInv, Open
  <1>6. CASE DeleteTenantTailData
    <2>1. CASE DeleteTraces
      <3>1. /\ AbsentTrace.decision = "absent"
            /\ buffers' = {} /\ \A t \in Traces : traces'[t] = AbsentTrace
        BY <2>1 DEF DeleteTraces, AbsentTrace
      <3>2. \A t \in Traces : ~Open(t)' /\ Buffered(t)' = {}
        BY <3>1 DEF Open, Buffered
      <3> QED
        BY <1>1, <3>1, <3>2, CountsClosed DEF CountsInv
    <2>2. CASE UNCHANGED tables
      BY <1>1, <2>2, CountsQuiet DEF CountsInv, tables
    <2> QED
      BY <1>6, <2>1, <2>2
      DEF DeleteTenantTailData, DeleteOutbox, DeleteEventKeys, DeleteDecisions, DeleteRollback
  <1>7. CASE Quiet
    BY <1>1, <1>7, CountsQuiet DEF CountsInv, Quiet
  <1> QED
    BY <1>3, <1>4, <1>5, <1>6, <1>7, StepKinds DEF CountsInv

\* They are right of the empty tables.
LEMMA CountsInit == Init => CountsInv
  <1> SUFFICES ASSUME Init PROVE CountsInv
    OBVIOUS
  <1>1. TypeOK /\ WorkerShape
    BY TypeInit DEF Init, WorkerShape
  <1>2. \A t \in Traces : ~Open(t) /\ ShardActive(t) = {}
    BY DEF Init, Open, AbsentTrace, ShardActive
  <1>3. BuffersCounted
    BY <1>2 DEF BuffersCounted, Init
  <1>4. \A t \in Traces : /\ IsFiniteSet(ShardActive(t))
                          /\ Cardinality(ShardActive(t)) = 0 /\ 0 <= ShardCap
    BY <1>2, FS_EmptySet, BoundAssumption
  <1> QED
    BY <1>1, <1>3, <1>4 DEF CountsInv

\* The invariant behind span_count and the cap of stageTraceTx.
THEOREM CountsInvariant == Spec => []CountsInv
  BY CountsInit, CountsStep, PTL DEF Spec

\* stageTraceTx, evictTailTrace and RecordTailDecision: span_count, kept by
\* increments, is the number of buffered spans, and no buffered span is without
\* an undecided trace that a tailer will decide.
THEOREM BuffersStayCounted == Spec => []BuffersCounted
  <1>1. CountsInv => BuffersCounted
    BY DEF CountsInv
  <1> QED
    BY <1>1, CountsInvariant, PTL

\* evictOldestTailTrace: no shard ever holds more undecided traces than its share.
THEOREM ShardsStayBounded == Spec => []ActiveBound
  <1>1. CountsInv => ActiveBound
    BY DEF CountsInv, ActiveBound
  <1> QED
    BY <1>1, CountsInvariant, PTL

-----------------------------------------------------------------------------
(* Decision records.                                                       *)

\* Without an explicit deletion so far none is running.
AgreeInv ==
    /\ TypeOK /\ WorkerShape /\ DecisionsAgree
    /\ deletes = 0 => del.step = "none"

\* While no tenant deletion has begun, none takes a step.
LEMMA DeletesGrow ==
    ASSUME AgreeInv, [Next]_vars, deletes' = 0
    PROVE  deletes = 0 /\ ~DeleteTenantTailData
  <1>1. deletes \in Nat
    BY BoundAssumption DEF AgreeInv, TypeOK
  <1>2. deletes = 0
    <2>1. CASE DeleteTenantTailData
      BY <1>1, <2>1 DEF DeleteTenantTailData, DeleteOutbox, DeleteEventKeys,
                        DeleteDecisions, DeleteTraces, DeleteRollback
    <2>2. CASE DeleteTailDataBefore
      BY <2>2 DEF DeleteTailDataBefore
    <2> QED
      BY <2>1, <2>2, StepKinds DEF AgreeInv, Staged, Recorded, Quiet
  <1>3. ~DeleteTenantTailData
    BY <1>1, <1>2 DEF AgreeInv, DeleteTenantTailData, DeleteOutbox, DeleteEventKeys,
                      DeleteDecisions, DeleteTraces, DeleteRollback
  <1> QED
    BY <1>2, <1>3

\* Every step keeps the agreement.
LEMMA AgreeStep ==
    ASSUME AgreeInv, [Next]_vars
    PROVE  AgreeInv'
  <1>1. TypeOK /\ WorkerShape /\ TypeOK' /\ WorkerShape'
    BY TypeStep, ShapeStep DEF AgreeInv
  <1>2. ASSUME deletes' = 0
        PROVE  /\ del'.step = "none"
               /\ \A t \in Traces :
                    /\ Decided(t)' <=> decisions'[t] # NoDecision
                    /\ Decided(t)' => /\ decisions'[t].reason = traces'[t].decision
                                      /\ decisions'[t].spanCount = traces'[t].spanCount
    <2>1. deletes = 0 /\ ~DeleteTenantTailData /\ del.step = "none"
      BY <1>2, DeletesGrow DEF AgreeInv
    <2>2. \A t \in Traces :
            /\ Decided(t) <=> decisions[t] # NoDecision
            /\ Decided(t) => /\ decisions[t].reason = traces[t].decision
                             /\ decisions[t].spanCount = traces[t].spanCount
      BY <2>1 DEF AgreeInv, DecisionsAgree
    <2>3. /\ NoDecision.reason = "absent" /\ "absent" \notin Reasons
          /\ "undecided" \notin Reasons /\ "evicted_pressure" \in Reasons
          /\ TailerReasons \subseteq Reasons
      BY DEF NoDecision, Reasons, TailerReasons, RetainedReasons
    <2>4. ASSUME NEW t \in Traces, NEW B \in SUBSET {e \in Envelopes : TraceOf[e] = t},
                 NEW victims \in Victims(t), Staged(t, B, victims), NEW u \in Traces
          PROVE  /\ del'.step = "none"
                 /\ Decided(u)' <=> decisions'[u] # NoDecision
                 /\ Decided(u)' => /\ decisions'[u].reason = traces'[u].decision
                                   /\ decisions'[u].spanCount = traces'[u].spanCount
      <3>1. CASE u \in victims
        <4>1. Open(u) /\ u # t
          BY <3>1, VictimsOpen DEF ShardActive
        <4>2. decisions[u] = NoDecision
          BY <2>2, <2>3, <4>1 DEF Open, Decided
        <4>3. decisions'[u] = [reason |-> "evicted_pressure", spanCount |-> Cardinality(Buffered(u))]
          BY <2>4, <3>1, <4>2 DEF Staged, EvictionRow
        <4> QED
          BY <2>1, <2>3, <2>4, <3>1, <4>3 DEF Staged, Decided
      <3>2. CASE u \notin victims /\ u # t
        BY <2>1, <2>2, <2>4, <3>2 DEF Staged, Decided
      <3>3. CASE u = t
        BY <2>1, <2>2, <2>3, <2>4, <3>3, VictimsOpen DEF Staged, Decided
      <3> QED
        BY <3>1, <3>2, <3>3
    <2>5. ASSUME NEW w \in Workers, Recorded(w), NEW u \in Traces
          PROVE  /\ del'.step = "none"
                 /\ Decided(u)' <=> decisions'[u] # NoDecision
                 /\ Decided(u)' => /\ decisions'[u].reason = traces'[u].decision
                                   /\ decisions'[u].spanCount = traces'[u].spanCount
      <3>1. CASE u = lease[w].trace
        BY <2>1, <2>3, <2>5, <3>1 DEF Recorded, Decided
      <3>2. CASE u # lease[w].trace
        BY <2>1, <2>2, <2>5, <3>2 DEF Recorded, Decided
      <3> QED
        BY <3>1, <3>2
    <2>6. ASSUME DeleteTailDataBefore, NEW u \in Traces
          PROVE  /\ del'.step = "none"
                 /\ Decided(u)' <=> decisions'[u] # NoDecision
                 /\ Decided(u)' => /\ decisions'[u].reason = traces'[u].decision
                                   /\ decisions'[u].spanCount = traces'[u].spanCount
      <3>1. PICK D \in SUBSET DecidedTraces :
              /\ UNCHANGED del
              /\ traces' = [t \in Traces |-> IF t \in D THEN AbsentTrace ELSE traces[t]]
              /\ \E X \in Between(D, D \cup (Traces \ DecidedTraces)) :
                     decisions' = [t \in Traces |-> IF t \in X THEN NoDecision ELSE decisions[t]]
        BY <2>6 DEF DeleteTailDataBefore
      <3>2. PICK X \in Between(D, D \cup (Traces \ DecidedTraces)) :
              decisions' = [t \in Traces |-> IF t \in X THEN NoDecision ELSE decisions[t]]
        BY <3>1
      <3>3. D \subseteq X /\ \A t \in X : t \in D \/ ~Decided(t)
        BY <3>2 DEF Between, DecidedTraces
      <3>4. AbsentTrace.decision = "absent"
        BY DEF AbsentTrace
      <3>5. CASE u \in D
        BY <2>1, <2>3, <3>1, <3>2, <3>3, <3>4, <3>5 DEF Decided
      <3>6. CASE u \notin D
        BY <2>1, <2>2, <3>1, <3>2, <3>3, <3>6 DEF Decided
      <3> QED
        BY <3>5, <3>6
    <2>7. ASSUME Quiet, NEW u \in Traces
          PROVE  /\ del'.step = "none"
                 /\ Decided(u)' <=> decisions'[u] # NoDecision
                 /\ Decided(u)' => /\ decisions'[u].reason = traces'[u].decision
                                   /\ decisions'[u].spanCount = traces'[u].spanCount
      BY <2>1, <2>2, <2>7 DEF Quiet, Decided
    <2>8. del'.step = "none"
      <3>1. UNCHANGED del
        BY <1>1, <2>1, StepKinds DEF Staged, Recorded, DeleteTailDataBefore, Quiet
      <3> QED
        BY <2>1, <3>1
    <2> QED
      BY <1>1, <2>1, <2>4, <2>5, <2>6, <2>7, <2>8, StepKinds
  <1> QED
    BY <1>1, <1>2 DEF AgreeInv, DecisionsAgree, Decided

\* It holds of the empty tables.
LEMMA AgreeInit == Init => AgreeInv
  <1> SUFFICES ASSUME Init PROVE AgreeInv
    OBVIOUS
  <1>1. TypeOK /\ WorkerShape
    BY TypeInit DEF Init, WorkerShape
  <1> QED
    BY <1>1 DEF AgreeInv, Init, DecisionsAgree, Decided, AbsentTrace, NoDeletion,
                Reasons, TailerReasons, RetainedReasons

\* The invariant behind tail_traces and tail_decisions telling the same story.
THEOREM AgreeInvariant == Spec => []AgreeInv
  BY AgreeInit, AgreeStep, PTL DEF Spec

\* RecordTailDecision, evictTailTrace and DeleteTailDataBefore: until an
\* explicit deletion a trace is closed exactly when it has its decision record,
\* and the record says what the trace says.
THEOREM DecisionsStayAgreed == Spec => []DecisionsAgree
  <1>1. AgreeInv => DecisionsAgree
    BY DEF AgreeInv
  <1> QED
    BY <1>1, AgreeInvariant, PTL

\* RecordTailDecision and StageBatch: a decided trace keeps its decision and its
\* span count until its row is removed, whoever else claims, stages or retries.
THEOREM DecisionsAreFinal == Spec => DecidedFinal
  <1>1. TypeOK /\ WorkerShape /\ [Next]_vars =>
            [\A t \in Traces : Decided(t) /\ traces'[t].decision # "absent" =>
                 /\ traces'[t].decision = traces[t].decision
                 /\ traces'[t].spanCount = traces[t].spanCount]_vars
    <2> SUFFICES ASSUME TypeOK, WorkerShape, [Next]_vars, NEW t \in Traces,
                        Decided(t), traces'[t].decision # "absent"
                 PROVE  /\ traces'[t].decision = traces[t].decision
                        /\ traces'[t].spanCount = traces[t].spanCount
      OBVIOUS
    <2>1. ~Open(t) /\ AbsentTrace.decision = "absent"
      BY DEF Decided, Open, Reasons, TailerReasons, RetainedReasons, AbsentTrace
    <2>2. ASSUME NEW u \in Traces, NEW B \in SUBSET {e \in Envelopes : TraceOf[e] = u},
                 NEW victims \in Victims(u), Staged(u, B, victims)
          PROVE  traces'[t] = traces[t]
      <3>1. t # u /\ t \notin victims
        BY <2>1, <2>2, VictimsOpen DEF Staged, ShardActive
      <3> QED
        BY <2>2, <3>1 DEF Staged
    <2>3. ASSUME NEW w \in Workers, Recorded(w)
          PROVE  traces'[t] = traces[t]
      BY <2>1, <2>3 DEF Recorded
    <2>4. DeleteTailDataBefore => traces'[t] \in {AbsentTrace, traces[t]}
      BY DEF DeleteTailDataBefore
    <2>5. DeleteTenantTailData => traces'[t] \in {AbsentTrace, traces[t]}
      BY DEF DeleteTenantTailData, DeleteOutbox, DeleteEventKeys, DeleteDecisions,
             DeleteTraces, DeleteRollback, tables
    <2> QED
      BY <2>1, <2>2, <2>3, <2>4, <2>5, StepKinds DEF Quiet
  <1> QED
    BY <1>1, TypeCorrect, PTL DEF Spec, DecidedFinal

\* DeleteTailDataBefore, as its comment promises: until an explicit deletion
\* buffered spans go away only with the decision that closes their trace, and a
\* pending outbox row only by being published.
THEOREM UndeliveredStay == Spec => UndeliveredKept
  <1>1. AgreeInv /\ [Next]_vars =>
            [deletes = 0 =>
               /\ \A e \in buffers \ buffers' : traces'[TraceOf[e]].decision \in Reasons
               /\ \A k \in Keys :
                      outbox[k].state = "pending" => outbox'[k].state # "absent"]_vars
    <2> SUFFICES ASSUME AgreeInv, [Next]_vars, deletes = 0
                 PROVE  /\ \A e \in buffers \ buffers' :
                               traces'[TraceOf[e]].decision \in Reasons
                        /\ \A k \in Keys :
                               outbox[k].state = "pending" => outbox'[k].state # "absent"
      OBVIOUS
    <2>1. TypeOK /\ WorkerShape /\ del.step = "none"
      BY DEF AgreeInv
    <2>2. "evicted_pressure" \in Reasons /\ TailerReasons \subseteq Reasons
      BY DEF Reasons
    <2>3. ASSUME NEW t \in Traces, NEW B \in SUBSET {e \in Envelopes : TraceOf[e] = t},
                 NEW victims \in Victims(t), Staged(t, B, victims)
          PROVE  /\ \A e \in buffers \ buffers' : traces'[TraceOf[e]].decision \in Reasons
                 /\ outbox' = outbox
      BY <2>2, <2>3 DEF Staged
    <2>4. ASSUME NEW w \in Workers, Recorded(w)
          PROVE  /\ \A e \in buffers \ buffers' : traces'[TraceOf[e]].decision \in Reasons
                 /\ \A k \in Keys :
                        outbox[k].state = "pending" => outbox'[k].state # "absent"
      BY <2>2, <2>4 DEF Recorded, Buffered
    <2>5. ASSUME DeleteTailDataBefore
          PROVE  /\ buffers' = buffers
                 /\ \A k \in Keys : outbox[k].state = "pending" => outbox'[k] = outbox[k]
      BY <2>5 DEF DeleteTailDataBefore, Between, PublishedWithTraceIn
    <2>6. DeleteTenantTailData => UNCHANGED tables
      BY <2>1 DEF DeleteTenantTailData, DeleteOutbox, DeleteEventKeys, DeleteDecisions,
                  DeleteTraces, DeleteRollback
    <2> QED
      BY <2>1, <2>3, <2>4, <2>5, <2>6, StepKinds DEF Quiet, tables
  <1> QED
    BY <1>1, AgreeInvariant, PTL DEF Spec, UndeliveredKept

-----------------------------------------------------------------------------
(* Nothing accepted is lost.                                               *)

\* The event of the key is buffered, on its way, published, or lost by a
\* recorded decision.
AccountedKey(k) ==
    \/ k \in KeysOf(buffers)
    \/ outbox[k].state # "absent"
    \/ k \in KeysOf(topic)
    \/ keyTrace[k] \in Traces /\ decisions[keyTrace[k]].reason \in Reasons \ RetainedReasons

\* AckedAccounted is inductive for all known keys, accepted now or before, with
\* one more fact: the key of a buffered event names the event's own trace, if
\* the retention job has not removed it.
BufferedKeys == \A e \in buffers : keyTrace[KeyOf[e]] \in {NoTrace, TraceOf[e]}
\* So is every key of tail_event_keys, and every accepted event has its key.
KnownAccounted == \A k \in Keys : keyTrace[k] # NoTrace => AccountedKey(k)
AckedKnown == \A e \in acked : keyTrace[KeyOf[e]] # NoTrace
KeysRight == BufferedKeys /\ KnownAccounted /\ AckedKnown
LossInv == PublishInv /\ AgreeInv /\ (deletes = 0 => KeysRight)

\* Staging buffers the fresh events under keys no other trace has, and a victim
\* leaves a decision record for the keys it had.
LEMMA StagedKeys ==
    ASSUME LossInv, deletes = 0, NEW t \in Traces,
           NEW B \in SUBSET {e \in Envelopes : TraceOf[e] = t},
           NEW victims \in Victims(t), Staged(t, B, victims)
    PROVE  KeysRight'
  <1> DEFINE F == Fresh(B)
             stay == {e \in buffers : TraceOf[e] \notin victims}
  <1>1. /\ F \subseteq B /\ buffers' = stay \cup F
        /\ KeysOf(F) \cap KeysOf(stay) = {}
        /\ \A k \in Keys : keyTrace'[k] = IF k \in KeysOf(F) THEN t ELSE keyTrace[k]
        /\ acked' = acked \cup B /\ UNCHANGED <<outbox, topic>>
    BY DEF Staged, BufferKeysFree
  <1>2. /\ \A e \in B : e \in Envelopes /\ TraceOf[e] = t /\ KeyOf[e] \in Keys
        /\ \A e \in buffers : e \in Envelopes /\ TraceOf[e] \in Traces /\ KeyOf[e] \in Keys
        /\ \A e \in acked : KeyOf[e] \in Keys
        /\ t # NoTrace
    BY EventAssumption DEF LossInv, AgreeInv, TypeOK
  <1>3. BufferedKeys /\ KnownAccounted /\ AckedKnown /\ DecisionsAgree
    BY DEF LossInv, KeysRight, AgreeInv
  <1>4. \A v \in victims : v \in Traces /\ decisions[v] = NoDecision
    <2>1. \A v \in victims : v \in Traces /\ ~Decided(v)
      BY VictimsOpen DEF ShardActive, Open, Decided, Reasons, TailerReasons, RetainedReasons
    <2> QED
      BY <1>3, <2>1 DEF DecisionsAgree
  <1>5. /\ \A v \in victims : decisions'[v].reason = "evicted_pressure"
        /\ \A u \in Traces : u \notin victims => decisions'[u] = decisions[u]
    <2>1. \A v \in victims : EvictionRow(v).reason = "evicted_pressure"
      BY <1>4 DEF EvictionRow
    <2> QED
      BY <2>1 DEF Staged
  <1>6. /\ "evicted_pressure" \in Reasons \ RetainedReasons
        /\ NoDecision.reason \notin Reasons
    BY DEF Reasons, TailerReasons, RetainedReasons, NoDecision
  <1> HIDE DEF F, stay
  <1>7. BufferedKeys'
    <2> SUFFICES ASSUME NEW e \in buffers' PROVE keyTrace'[KeyOf[e]] \in {NoTrace, TraceOf[e]}
      BY DEF BufferedKeys
    <2>1. CASE e \in F
      BY <1>1, <1>2, <2>1 DEF KeysOf
    <2>2. CASE e \in stay
      <3>1. KeyOf[e] \notin KeysOf(F) /\ e \in buffers
        BY <1>1, <2>2 DEF KeysOf, stay
      <3> QED
        BY <1>1, <1>2, <1>3, <3>1 DEF BufferedKeys
    <2> QED
      BY <1>1, <2>1, <2>2
  <1>8. ASSUME NEW k \in Keys, keyTrace'[k] # NoTrace
        PROVE  AccountedKey(k)'
    <2>1. CASE k \in KeysOf(F)
      BY <1>1, <2>1 DEF AccountedKey, KeysOf
    <2>2. CASE k \notin KeysOf(F)
      <3>1. keyTrace'[k] = keyTrace[k] /\ AccountedKey(k)
        BY <1>1, <1>3, <1>8, <2>2 DEF KnownAccounted
      <3>2. CASE k \in KeysOf(buffers)
        <4>1. PICK e \in buffers : KeyOf[e] = k
          BY <3>2 DEF KeysOf
        <4>2. CASE TraceOf[e] \in victims
          <5>1. keyTrace'[k] = TraceOf[e]
            BY <1>3, <1>8, <3>1, <4>1 DEF BufferedKeys
          <5> QED
            BY <1>4, <1>5, <1>6, <4>2, <5>1 DEF AccountedKey
        <4>3. CASE TraceOf[e] \notin victims
          BY <1>1, <4>1, <4>3 DEF AccountedKey, KeysOf, stay
        <4> QED
          BY <4>2, <4>3
      <3>3. CASE outbox[k].state # "absent" \/ k \in KeysOf(topic)
        BY <1>1, <3>3 DEF AccountedKey, KeysOf
      <3>4. CASE keyTrace[k] \in Traces /\ decisions[keyTrace[k]].reason \in Reasons \ RetainedReasons
        <4>1. keyTrace[k] \notin victims
          BY <1>4, <1>6, <3>4
        <4> QED
          BY <1>5, <3>1, <3>4, <4>1 DEF AccountedKey
      <3> QED
        BY <3>1, <3>2, <3>3, <3>4 DEF AccountedKey
    <2> QED
      BY <2>1, <2>2
  <1>9. AckedKnown'
    <2> SUFFICES ASSUME NEW e \in acked' PROVE keyTrace'[KeyOf[e]] # NoTrace
      BY DEF AckedKnown
    <2>1. CASE e \in acked
      BY <1>1, <1>2, <1>3, <2>1 DEF AckedKnown
    <2>2. CASE e \in B
      <3>1. e \in F \/ keyTrace[KeyOf[e]] # NoTrace
        BY <2>2 DEF F, Fresh
      <3>2. e \in F => KeyOf[e] \in KeysOf(F)
        BY DEF KeysOf
      <3> QED
        BY <1>1, <1>2, <2>2, <3>1, <3>2
    <2> QED
      BY <1>1, <2>1, <2>2
  <1> QED
    BY <1>7, <1>8, <1>9 DEF KeysRight, KnownAccounted

\* A decision hands the events of its trace to the outbox or names their loss.
LEMMA RecordedKeys ==
    ASSUME LossInv, deletes = 0, NEW w \in Workers, Recorded(w)
    PROVE  KeysRight'
  <1> DEFINE t == lease[w].trace
  <1>1. /\ t \in Traces /\ decisions[t] = NoDecision
        /\ decisions'[t].reason = reason[w] /\ reason[w] \in TailerReasons
        /\ \A u \in Traces \ {t} : decisions'[u] = decisions[u]
        /\ buffers' = {e \in buffers : TraceOf[e] # t}
        /\ \A k \in Keys : outbox[k].state # "absent" => outbox'[k].state # "absent"
        /\ reason[w] \in RetainedReasons =>
               \A e \in buffers : TraceOf[e] = t => outbox'[KeyOf[e]].state # "absent"
        /\ UNCHANGED <<keyTrace, topic, acked>>
    BY DEF Recorded, Buffered
  <1>2. BufferedKeys /\ KnownAccounted /\ AckedKnown
    BY DEF LossInv, KeysRight
  <1>3. /\ TailerReasons \subseteq Reasons /\ NoDecision.reason \notin Reasons
    BY DEF Reasons, TailerReasons, RetainedReasons, NoDecision
  <1> HIDE DEF t
  <1>4. ASSUME NEW k \in Keys, keyTrace'[k] # NoTrace
        PROVE  AccountedKey(k)'
    <2>1. AccountedKey(k) /\ keyTrace'[k] = keyTrace[k] /\ keyTrace[k] # NoTrace
      BY <1>1, <1>2, <1>4 DEF KnownAccounted
    <2>2. CASE k \in KeysOf(buffers)
      <3>1. PICK e \in buffers : KeyOf[e] = k
        BY <2>2 DEF KeysOf
      <3>2. CASE TraceOf[e] # t
        BY <1>1, <3>1, <3>2 DEF AccountedKey, KeysOf
      <3>3. CASE TraceOf[e] = t
        <4>1. keyTrace[k] = t
          BY <1>2, <2>1, <3>1, <3>3 DEF BufferedKeys
        <4>2. CASE reason[w] \in RetainedReasons
          BY <1>1, <3>1, <3>3, <4>2 DEF AccountedKey
        <4>3. CASE reason[w] \notin RetainedReasons
          BY <1>1, <1>3, <2>1, <4>1, <4>3 DEF AccountedKey
        <4> QED
          BY <4>2, <4>3
      <3> QED
        BY <3>2, <3>3
    <2>3. CASE outbox[k].state # "absent" \/ k \in KeysOf(topic)
      BY <1>1, <2>3 DEF AccountedKey, KeysOf
    <2>4. CASE keyTrace[k] \in Traces /\ decisions[keyTrace[k]].reason \in Reasons \ RetainedReasons
      BY <1>1, <1>3, <2>1, <2>4 DEF AccountedKey
    <2> QED
      BY <2>1, <2>2, <2>3, <2>4 DEF AccountedKey
  <1>5. BufferedKeys' /\ AckedKnown'
    BY <1>1, <1>2 DEF BufferedKeys, AckedKnown
  <1> QED
    BY <1>4, <1>5 DEF KeysRight, KnownAccounted

\* What a retention job or a tenant deletion removes.
Removed(K, O, X) ==
    /\ outbox' = [k \in Keys |-> IF k \in O THEN NoMessage ELSE outbox[k]]
    /\ keyTrace' = [k \in Keys |-> IF k \in K THEN NoTrace ELSE keyTrace[k]]
    /\ decisions' = [t \in Traces |-> IF t \in X THEN NoDecision ELSE decisions[t]]
    /\ acked' = {e \in acked : KeyOf[e] \notin K}
    /\ UNCHANGED <<buffers, topic>>

\* The retention job forgets the keys of the traces it removes, and removes an
\* outbox row only when the broker has its envelope.
LEMMA RetentionKeys ==
    ASSUME LossInv, deletes = 0, DeleteTailDataBefore
    PROVE  KeysRight'
  <1> SUFFICES ASSUME NEW D \in SUBSET DecidedTraces,
                      NEW K \in Between(KeysWithTraceIn(D), KeysWithTraceIn(Traces)),
                      NEW O \in Between(PublishedWithTraceIn(D),
                                        PublishedWithTraceIn(D \cup (Traces \ DecidedTraces))),
                      NEW X \in Between(D, D \cup (Traces \ DecidedTraces)),
                      Removed(K, O, X)
               PROVE  KeysRight'
    BY DEF DeleteTailDataBefore, Removed
  <1>2. /\ outbox' = [k \in Keys |-> IF k \in O THEN NoMessage ELSE outbox[k]]
        /\ keyTrace' = [k \in Keys |-> IF k \in K THEN NoTrace ELSE keyTrace[k]]
        /\ decisions' = [t \in Traces |-> IF t \in X THEN NoDecision ELSE decisions[t]]
        /\ acked' = {e \in acked : KeyOf[e] \notin K}
        /\ UNCHANGED <<buffers, topic>>
    BY DEF Removed
  <1>3. BufferedKeys /\ KnownAccounted /\ AckedKnown /\ DecisionsAgree
        /\ OutboxEnvelope /\ PublishedInTopic
    BY DEF LossInv, KeysRight, AgreeInv, PublishInv
  <1>4. /\ \A e \in buffers : KeyOf[e] \in Keys
        /\ \A e \in acked : KeyOf[e] \in Keys
    BY EventAssumption DEF LossInv, AgreeInv, TypeOK
  <1>5. \A k \in O : outbox[k].state = "published"
    BY <1>2 DEF Between, PublishedWithTraceIn
  <1>6. ASSUME NEW k \in Keys, keyTrace'[k] # NoTrace
        PROVE  AccountedKey(k)'
    <2>1. k \notin K /\ keyTrace'[k] = keyTrace[k] /\ AccountedKey(k)
      BY <1>2, <1>3, <1>6 DEF KnownAccounted
    <2>2. keyTrace[k] \notin D
      BY <1>2, <2>1 DEF Between, KeysWithTraceIn
    <2>3. CASE k \in KeysOf(buffers) \/ k \in KeysOf(topic)
      BY <1>2, <2>3 DEF AccountedKey, KeysOf
    <2>4. CASE outbox[k].state # "absent" /\ k \notin O
      BY <1>2, <2>4 DEF AccountedKey
    <2>5. CASE k \in O
      <3>1. outbox[k].state = "published"
        BY <1>5, <2>5
      <3>2. PICK e \in Envelopes : outbox[k].envelope = {e} /\ KeyOf[e] = k
        BY <1>3, <3>1 DEF OutboxEnvelope
      <3>3. e \in topic
        BY <1>3, <3>1, <3>2 DEF PublishedInTopic
      <3> QED
        BY <1>2, <3>2, <3>3 DEF AccountedKey, KeysOf
    <2>6. CASE keyTrace[k] \in Traces /\ decisions[keyTrace[k]].reason \in Reasons \ RetainedReasons
      <3>1. Decided(keyTrace[k])
        BY <1>3, <2>6 DEF DecisionsAgree, NoDecision, Reasons, TailerReasons, RetainedReasons
      <3>2. keyTrace[k] \notin X
        BY <1>2, <2>2, <3>1, <2>6 DEF Between, DecidedTraces
      <3> QED
        BY <1>2, <2>1, <2>6, <3>2 DEF AccountedKey
    <2> QED
      BY <2>1, <2>3, <2>4, <2>5, <2>6 DEF AccountedKey
  <1>7. BufferedKeys' /\ AckedKnown'
    BY <1>2, <1>3, <1>4 DEF BufferedKeys, AckedKnown
  <1> QED
    BY <1>6, <1>7 DEF KeysRight, KnownAccounted

\* The other steps leave every key where it is.
LEMMA QuietKeys ==
    ASSUME LossInv, deletes = 0, Quiet
    PROVE  KeysRight'
  <1>1. KeysRight
    BY DEF LossInv
  <1>2. \A k \in Keys : AccountedKey(k) => AccountedKey(k)'
    BY DEF Quiet, AccountedKey, KeysOf
  <1> QED
    BY <1>1, <1>2 DEF Quiet, KeysRight, BufferedKeys, KnownAccounted, AckedKnown

\* Every step keeps every accepted event accounted for.
LEMMA LossStep ==
    ASSUME OwnersDistinct PROVE LossInv /\ [Next]_vars => LossInv'
  <1> SUFFICES ASSUME LossInv, [Next]_vars PROVE LossInv'
    OBVIOUS
  <1>1. PublishInv' /\ AgreeInv'
    BY PublishInvStep, AgreeStep DEF LossInv
  <1>2. ASSUME deletes' = 0 PROVE KeysRight'
    <2>1. deletes = 0 /\ ~DeleteTenantTailData /\ TypeOK /\ WorkerShape
      BY <1>2, DeletesGrow DEF LossInv, AgreeInv
    <2> QED
      BY <2>1, StepKinds, StagedKeys, RecordedKeys, RetentionKeys, QuietKeys
  <1> QED
    BY <1>1, <1>2 DEF LossInv

\* README, "losses are named": no accepted event vanishes before an explicit
\* deletion.  Until the retention job removes its key it is buffered, in the
\* outbox or at the broker, or the decision record of its trace says that it
\* was not retained, whatever crashes, slow tailers, evictions and retries do.
THEOREM AcceptedAreAccounted == ASSUME OwnersDistinct PROVE Spec => []AckedAccounted
  <1>1. Init => LossInv
    <2> SUFFICES ASSUME Init PROVE LossInv
      OBVIOUS
    <2>1. PublishInv /\ AgreeInv
      BY PublishInit, AgreeInit
    <2>2. KeysRight
      BY DEF Init, KeysRight, BufferedKeys, KnownAccounted, AckedKnown
    <2> QED
      BY <2>1, <2>2 DEF LossInv
  <1>2. LossInv => AckedAccounted
    <2> SUFFICES ASSUME LossInv, deletes = 0, NEW e \in acked PROVE Accounted(e)
      BY DEF AckedAccounted
    <2>1. KeyOf[e] \in Keys /\ keyTrace[KeyOf[e]] # NoTrace
      BY EventAssumption DEF LossInv, KeysRight, AckedKnown, AgreeInv, TypeOK
    <2> QED
      BY <2>1 DEF LossInv, KeysRight, KnownAccounted, AccountedKey, Accounted
  <1> QED
    BY <1>1, <1>2, LossStep, PTL DEF Spec

=============================================================================
