--------------------------- MODULE GatewayProofs ---------------------------
(***************************************************************************)
(* Theorems about Gateway: the transactions of StageBatch keep out of each *)
(* other's way, and requests are all-or-nothing, for every set of requests *)
(* and events.                                                             *)
(***************************************************************************)
EXTENDS Gateway, FiniteSetTheorems, TLAPS

\* A row a transaction may have written, and all it may have written.
AnyRow == [state : {"untouched", "absent", "open", "decided"}, spanCount : Nat]
AnyWrites ==
    [rows : [Traces -> AnyRow], keys : [Keys -> Traces \cup {NoTrace}],
     buffers : SUBSET Events, evicted : SUBSET Traces]

\* TypeOK without the bounds of its counters; current is the trace a request
\* locks or stages, and a request not answered yet has no answer.
Shape ==
    /\ traces \in [Traces -> AnyRow]
    /\ keyTrace \in [Keys -> Traces \cup {NoTrace}]
    /\ buffers \subseteq Events
    /\ pc \in [Requests -> {"new", "done"} \cup Staging]
    /\ todo \in [Requests -> SUBSET Traces]
    /\ current \in [Requests -> Traces \cup {NoTrace}]
    /\ tx \in [Requests -> AnyWrites]
    /\ shardLock \in [Shards -> Requests \cup {NoRequest}]
    /\ answer \in [Requests -> Boundary!Answers]
    /\ \A r \in Requests :
           /\ pc[r] \in {"lock", "stage"} => current[r] \in Traces
           /\ pc[r] # "done" => answer[r] = "none"

-----------------------------------------------------------------------------
(* Lemmas about the view of a transaction.                                 *)

\* An event of a request has a trace and a key.
LEMMA EventType ==
    ASSUME NEW e \in Events
    PROVE  TraceOf(e) \in Traces /\ KeyOf(e) \in Keys
  BY DEF Traces, TracesOf, Keys, KeysOf

\* A set of events is finite, and so is its cardinality.
LEMMA CountType ==
    ASSUME NEW S \in SUBSET Events
    PROVE  Cardinality(S) \in Nat
  BY PayloadAssumption, FS_Subset, FS_CardinalityType

\* What a request sees of a table has the table's type.
LEMMA ViewType ==
    ASSUME Shape, NEW r \in Requests
    PROVE  /\ \A t \in Traces : Row(r, t) \in AnyRow
           /\ \A k \in Keys : KnownTrace(r, k) \in Traces \cup {NoTrace}
           /\ VisibleBuffers(r) \subseteq Events
           /\ Payload[r] \subseteq Events
           /\ Batch(r) \subseteq Events
           /\ Fresh(r) \subseteq Events
  <1>1. tx[r] \in AnyWrites
    BY DEF Shape
  <1>2. Payload[r] \subseteq Events
    BY PayloadAssumption
  <1>3. Batch(r) \subseteq Events /\ Fresh(r) \subseteq Events
    BY <1>2 DEF Batch, Fresh, BufferedIn
  <1>4. \A t \in Traces : Row(r, t) \in AnyRow
    BY <1>1 DEF Shape, Row, AnyWrites
  <1>5. \A k \in Keys : KnownTrace(r, k) \in Traces \cup {NoTrace}
    BY <1>1 DEF Shape, KnownTrace, AnyWrites
  <1>6. VisibleBuffers(r) \subseteq Events
    BY <1>1 DEF Shape, VisibleBuffers, AnyWrites
  <1> QED
    BY <1>2, <1>3, <1>4, <1>5, <1>6

\* A fresh transaction has written nothing.
LEMMA NoWritesType == NoWrites \in AnyWrites
  BY DEF NoWrites, AnyWrites, AnyRow, Untouched

\* The victim of an eviction is a trace of the shard being staged in.
LEMMA VictimType ==
    ASSUME Shape, NEW r \in Requests, NEW victims \in Victims(r)
    PROVE  /\ victims \subseteq Traces
           /\ \A t \in victims : ShardOf[t] = ShardOf[current[r]]
  BY DEF Victims, ShardActive

\* The end of a transaction keeps the types.
LEMMA EndType ==
    ASSUME Shape, NEW r \in Requests, NEW a \in Boundary!Answers,
           EndTransaction(r, a)
    PROVE  /\ pc' \in [Requests -> {"new", "done"} \cup Staging]
           /\ todo' \in [Requests -> SUBSET Traces]
           /\ current' \in [Requests -> Traces \cup {NoTrace}]
           /\ tx' \in [Requests -> AnyWrites]
           /\ shardLock' \in [Shards -> Requests \cup {NoRequest}]
           /\ answer' \in [Requests -> Boundary!Answers]
           /\ \A q \in Requests :
                  /\ pc'[q] \in {"lock", "stage"} => current'[q] \in Traces
                  /\ pc'[q] # "done" => answer'[q] = "none"
  BY NoWritesType DEF Shape, EndTransaction, Respond, Release, Staging

\* The writes of one batch have their types.
LEMMA StageType ==
    ASSUME Shape, NEW r \in Requests, StageAccepted(r)
    PROVE  tx' \in [Requests -> AnyWrites]
  <1>1. current[r] \in Traces
    BY DEF Shape, StageAccepted
  <1>2. PICK victims \in Victims(r) : tx' = [tx EXCEPT ![r] =
           [rows |-> [t \in Traces |->
                IF t = current[r] THEN StagedRow(r)
                ELSE IF t \in victims THEN EvictedRow(r, t) ELSE tx[r].rows[t]],
            keys |-> [k \in Keys |->
                IF k \in KeysOf(Fresh(r)) THEN current[r] ELSE tx[r].keys[k]],
            buffers |-> {e \in tx[r].buffers : TraceOf(e) \notin victims} \cup Fresh(r),
            evicted |-> tx[r].evicted \cup victims]]
    BY DEF StageAccepted
  <1>3. victims \subseteq Traces
    BY VictimType
  <1>4. Cardinality(Fresh(r)) \in Nat
    BY ViewType, CountType
  <1>5. StagedRow(r) \in AnyRow
    BY <1>1, <1>4, ViewType DEF StagedRow, AnyRow
  <1>6. \A t \in Traces : EvictedRow(r, t) \in AnyRow
    <2> TAKE t \in Traces
    <2>1. BufferedIn(VisibleBuffers(r), t) \in SUBSET Events
      BY ViewType DEF BufferedIn
    <2> QED
      BY <2>1, CountType DEF EvictedRow, AnyRow
  <1>7. tx[r] \in AnyWrites
    BY DEF Shape
  <1>8. Fresh(r) \subseteq Events
    BY ViewType
  <1>9. [rows |-> [t \in Traces |->
                IF t = current[r] THEN StagedRow(r)
                ELSE IF t \in victims THEN EvictedRow(r, t) ELSE tx[r].rows[t]],
         keys |-> [k \in Keys |->
                IF k \in KeysOf(Fresh(r)) THEN current[r] ELSE tx[r].keys[k]],
         buffers |-> {e \in tx[r].buffers : TraceOf(e) \notin victims} \cup Fresh(r),
         evicted |-> tx[r].evicted \cup victims] \in AnyWrites
    BY <1>1, <1>3, <1>5, <1>6, <1>7, <1>8 DEF AnyWrites
  <1> QED
    BY <1>2, <1>9 DEF Shape

-----------------------------------------------------------------------------
(* The shape of the state.                                                 *)

\* The variables have their shapes initially.
LEMMA ShapeInit == Init => Shape
  BY NoWritesType DEF Init, Shape, AbsentTrace, AnyRow, Boundary!Answers

\* A step of a request keeps the shape.
LEMMA ShapeRequest ==
    ASSUME Shape, NEW r \in Requests,
           \/ ServeHTTP(r) \/ PolicyUnavailable(r) \/ Cancelled(r)
           \/ DeadlockAbort(r) \/ Retry(r)
    PROVE  Shape'
  <1> USE DEF Boundary!Answers
  <1>1. CASE Rejected(r)
    BY <1>1 DEF Rejected, Respond, Shape, tables, Staging
  <1>2. CASE AcceptEvents(r)
    <2>1. TracesOf(Payload[r]) \subseteq Traces
      BY ViewType, EventType DEF TracesOf
    <2> QED
      BY <1>2, <2>1 DEF AcceptEvents, Shape, tables, Staging
  <1>3. CASE NextTrace(r)
    BY <1>3 DEF NextTrace, Shape, tables, Staging
  <1>4. CASE AcquireLock(r)
    BY <1>4 DEF AcquireLock, Shape, tables, Staging
  <1>5. CASE StageAccepted(r)
    <2>1. tx' \in [Requests -> AnyWrites]
      BY <1>5, StageType
    <2> QED
      BY <1>5, <2>1 DEF StageAccepted, NextOne, Shape, tables, Staging
  <1>6. CASE StageDuplicate(r)
    <2>1. current[r] \in Traces /\ Row(r, current[r]) \in AnyRow
      BY <1>6, ViewType DEF StageDuplicate, Shape
    <2>2. tx[r] \in AnyWrites /\ tx[r].rows \in [Traces -> AnyRow]
      BY DEF Shape, AnyWrites
    <2> DEFINE rows == [tx[r].rows EXCEPT ![current[r]] = Row(r, current[r])]
    <2>3. rows \in [Traces -> AnyRow]
      BY <2>1, <2>2
    <2> HIDE DEF rows
    <2> DEFINE new == [rows |-> rows, keys |-> tx[r].keys,
                       buffers |-> tx[r].buffers, evicted |-> tx[r].evicted]
    <2>4. new \in AnyWrites
      BY <2>2, <2>3 DEF AnyWrites
    <2>5. [tx[r] EXCEPT !.rows = rows] = new
      BY <2>2 DEF AnyWrites
    <2>6. tx' = [tx EXCEPT ![r] = new]
      BY <1>6, <2>5 DEF StageDuplicate, rows
    <2>7. tx' \in [Requests -> AnyWrites]
      BY <2>4, <2>6 DEF Shape
    <2> QED
      BY <1>6, <2>7 DEF StageDuplicate, NextOne, Shape, tables, Staging
  <1>7. CASE Abort(r)
    BY <1>7, EndType DEF Abort, Shape, tables
  <1>8. CASE Commit(r)
    <2>1. PICK a \in {"accepted", "refused"} : EndTransaction(r, a) /\ Apply(r)
      BY <1>8 DEF Commit
    <2>2. /\ traces' \in [Traces -> AnyRow]
          /\ keyTrace' \in [Keys -> Traces \cup {NoTrace}]
          /\ buffers' \subseteq Events
      BY <2>1, ViewType DEF Apply
    <2> QED
      BY <2>1, <2>2, EndType DEF Shape
  <1>9. CASE PolicyUnavailable(r)
    BY <1>9 DEF PolicyUnavailable, Respond, Shape, tables, Staging
  <1>10. CASE Retry(r)
    BY <1>10 DEF Retry, Shape, tables, Staging
  <1> QED
    BY <1>1, <1>2, <1>3, <1>4, <1>5, <1>6, <1>7, <1>8, <1>9, <1>10
    DEF ServeHTTP, StageBatch, StageRefused, Cancelled, DeadlockAbort

\* A tailer's decision keeps the shape.
LEMMA ShapeTailer ==
    ASSUME Shape, NEW t \in Traces, TailerDecides(t)
    PROVE  Shape'
  BY DEF TailerDecides, Shape, AnyRow, handler

\* Every step keeps the shapes.
LEMMA ShapeStep == Shape /\ [Next]_vars => Shape'
  <1> SUFFICES ASSUME Shape, [Next]_vars PROVE Shape'
    OBVIOUS
  <1>1. CASE UNCHANGED vars
    BY <1>1 DEF Shape, vars, tables, handler
  <1>2. CASE Next
    BY <1>2, ShapeRequest, ShapeTailer DEF Next
  <1> QED
    BY <1>1, <1>2

-----------------------------------------------------------------------------
(* Transactions keep out of each other's way.                              *)

\* A request that is about to stage a trace holds the trace's shard lock.
LocksHeld == \A r \in Requests :
    pc[r] = "stage" => shardLock[ShardOf[current[r]]] = r

\* What a request wrote to a trace or a key before, or writes in StageAccepted.
LEMMA StageWrites ==
    ASSUME Shape, NEW r \in Requests, StageAccepted(r)
    PROVE  /\ \A t \in Traces : tx'[r].rows[t] # Untouched =>
                  Touches(r, t) \/ ShardOf[t] = ShardOf[current[r]]
           /\ \A k \in Keys : tx'[r].keys[k] =
                  IF k \in KeysOf(Fresh(r)) THEN current[r] ELSE tx[r].keys[k]
           /\ \A q \in Requests \ {r} : tx'[q] = tx[q]
  BY VictimType DEF StageAccepted, Shape, Touches

\* Every action takes a shard lock only when it is free or its own, writes rows
\* only under the lock and keys only when no other transaction has them.
LEMMA ExclusiveStep ==
    ASSUME Shape, LocksHeld, WritesExclusive, [Next]_vars
    PROVE  LocksHeld' /\ WritesExclusive'
  <1>1. CASE UNCHANGED vars
    BY <1>1 DEF LocksHeld, WritesExclusive, Touches, vars, handler
  <1>2. ASSUME NEW r \in Requests, Rejected(r) \/ AcceptEvents(r) \/ NextTrace(r)
                   \/ PolicyUnavailable(r) \/ Retry(r)
        PROVE  LocksHeld' /\ WritesExclusive'
    BY <1>2 DEF Rejected, AcceptEvents, NextTrace, PolicyUnavailable, Retry, Respond,
                LocksHeld, WritesExclusive, Touches, Shape
  <1>3. ASSUME NEW r \in Requests, AcquireLock(r)
        PROVE  LocksHeld' /\ WritesExclusive'
    <2>1. /\ ShardOf[current[r]] \in Shards
          /\ \A q \in Requests : pc[q] = "stage" => ShardOf[current[q]] \in Shards
      BY <1>3, PayloadAssumption DEF AcquireLock, Shape
    <2>2. LocksHeld'
      BY <1>3, <2>1, NullAssumption DEF AcquireLock, LocksHeld, Shape
    <2>3. WritesExclusive'
      BY <1>3, <2>1, NullAssumption, PayloadAssumption
      DEF AcquireLock, WritesExclusive, Touches, Shape
    <2> QED
      BY <2>2, <2>3
  <1>4. ASSUME NEW r \in Requests, StageAccepted(r)
        PROVE  LocksHeld' /\ WritesExclusive'
    <2>1. LocksHeld'
      BY <1>4 DEF StageAccepted, NextOne, LocksHeld, Shape
    <2>2. ASSUME NEW q \in Requests, NEW t \in Traces, Touches(q, t)'
          PROVE  shardLock'[ShardOf[t]] = q
      <3>1. /\ UNCHANGED shardLock
            /\ shardLock[ShardOf[current[r]]] = r
        BY <1>4 DEF StageAccepted, LocksHeld
      <3>2. Touches(q, t) \/ (q = r /\ ShardOf[t] = ShardOf[current[r]])
        <4>1. CASE q = r
          BY <1>4, <2>2, <4>1, StageWrites DEF Touches
        <4>2. CASE q # r
          <5>1. tx'[q] = tx[q]
            BY <1>4, <4>2, StageWrites
          <5> QED
            BY <2>2, <5>1 DEF Touches
        <4> QED
          BY <4>1, <4>2
      <3> QED
        BY <3>1, <3>2 DEF WritesExclusive
    <2>3. ASSUME NEW q \in Requests, NEW k \in KeysOf(Fresh(r)), q # r
          PROVE  tx[q].keys[k] = NoTrace
      BY <1>4, <2>3 DEF StageAccepted, KeyHolders, KeysOf, Fresh
    <2>4. ASSUME NEW p \in Requests, NEW q \in Requests, NEW k \in Keys,
                 tx'[p].keys[k] # NoTrace, tx'[q].keys[k] # NoTrace
          PROVE  p = q
      <3>1. CASE k \in KeysOf(Fresh(r))
        BY <1>4, <2>3, <2>4, <3>1, StageWrites
      <3>2. CASE k \notin KeysOf(Fresh(r))
        <4>1. tx[p].keys[k] # NoTrace /\ tx[q].keys[k] # NoTrace
          BY <1>4, <2>4, <3>2, StageWrites
        <4> QED
          BY <4>1 DEF WritesExclusive
      <3> QED
        BY <3>1, <3>2
    <2> QED
      BY <2>1, <2>2, <2>4 DEF WritesExclusive
  <1>5. ASSUME NEW r \in Requests, StageDuplicate(r)
        PROVE  LocksHeld' /\ WritesExclusive'
    <2>1. LocksHeld'
      BY <1>5 DEF StageDuplicate, NextOne, LocksHeld, Shape
    <2>2. \A q \in Requests : tx'[q].keys = tx[q].keys
      BY <1>5 DEF StageDuplicate, Shape, AnyWrites
    <2>3. \A q \in Requests, t \in Traces :
              Touches(q, t)' => Touches(q, t) \/ (q = r /\ t = current[r])
      BY <1>5 DEF StageDuplicate, Shape, AnyWrites, Touches
    <2> QED
      BY <1>5, <2>1, <2>2, <2>3 DEF StageDuplicate, LocksHeld, WritesExclusive
  <1>6. ASSUME NEW r \in Requests, NEW a \in Boundary!Answers, EndTransaction(r, a)
        PROVE  LocksHeld' /\ WritesExclusive'
    <2>1. /\ tx'[r] = NoWrites
          /\ \A q \in Requests \ {r} : tx'[q] = tx[q]
          /\ \A s \in Shards : shardLock[s] # r => shardLock'[s] = shardLock[s]
          /\ pc'[r] = "done"
          /\ \A q \in Requests \ {r} : pc'[q] = pc[q] /\ current'[q] = current[q]
      BY <1>6 DEF EndTransaction, Respond, Release, Shape
    <2>2. ASSUME NEW q \in Requests, pc'[q] = "stage"
          PROVE  shardLock'[ShardOf[current'[q]]] = q
      <3>1. q # r /\ pc[q] = "stage" /\ current'[q] = current[q]
        BY <2>1, <2>2
      <3>2. ShardOf[current[q]] \in Shards
        BY <3>1, PayloadAssumption DEF Shape
      <3> QED
        BY <2>1, <3>1, <3>2 DEF LocksHeld
    <2>3. ASSUME NEW q \in Requests, NEW t \in Traces, Touches(q, t)'
          PROVE  shardLock'[ShardOf[t]] = q
      <3>1. q # r
        BY <2>1, <2>3 DEF Touches, NoWrites
      <3>2. Touches(q, t)
        BY <2>1, <2>3, <3>1 DEF Touches
      <3> QED
        BY <2>1, <3>1, <3>2, PayloadAssumption DEF WritesExclusive
    <2>4. ASSUME NEW p \in Requests, NEW q \in Requests, NEW k \in Keys,
                 tx'[p].keys[k] # NoTrace, tx'[q].keys[k] # NoTrace
          PROVE  p = q
      <3>1. p # r /\ q # r
        BY <2>1, <2>4 DEF NoWrites
      <3> QED
        BY <2>1, <2>4, <3>1 DEF WritesExclusive
    <2> QED
      BY <2>2, <2>3, <2>4 DEF LocksHeld, WritesExclusive
  <1>7. ASSUME NEW t \in Traces, TailerDecides(t)
        PROVE  LocksHeld' /\ WritesExclusive'
    BY <1>7 DEF TailerDecides, handler, LocksHeld, WritesExclusive, Touches
  <1> QED
    BY <1>1, <1>2, <1>3, <1>4, <1>5, <1>6, <1>7
    DEF Next, ServeHTTP, StageBatch, StageRefused, Commit, Cancelled, DeadlockAbort,
        Abort, Boundary!Answers

\* StageBatch: for every set of requests, of the transactions under way only the
\* holder of a shard's lock has touched a trace of it, and no two transactions
\* have inserted the same event key.
THEOREM WritesStayExclusive == Spec => []WritesExclusive
  <1>1. Init => LocksHeld /\ WritesExclusive
    BY DEF Init, LocksHeld, WritesExclusive, Touches, NoWrites
  <1>2. Shape /\ LocksHeld /\ WritesExclusive /\ [Next]_vars
            => (Shape /\ LocksHeld /\ WritesExclusive)'
    BY ShapeStep, ExclusiveStep
  <1> QED
    BY <1>1, <1>2, ShapeInit, PTL DEF Spec

-----------------------------------------------------------------------------
(* Requests are all-or-nothing.                                            *)

\* Every event of S has its key in the view of r.
Known(r, S) == \A e \in S : KnownTrace(r, KeyOf(e)) # NoTrace

\* The transaction of a request inserts only keys of the request, and the keys
\* of the traces it has staged are known to it: in its writes or the table.
BatchInv ==
    /\ \A r \in Requests, k \in Keys :
           tx[r].keys[k] # NoTrace => k \in KeysOf(Payload[r])
    /\ \A r \in Requests : pc[r] \in Staging =>
           /\ r \in Acceptable
           /\ Known(r, {e \in Payload[r] : TraceOf(e) \notin todo[r]})

\* When the batch is staged its keys are known.
LEMMA BatchKnown ==
    ASSUME Shape, NEW r \in Requests, StageAccepted(r) \/ StageDuplicate(r)
    PROVE  /\ UNCHANGED keyTrace
           /\ \A k \in Keys : tx'[r].keys[k] # NoTrace =>
                  tx[r].keys[k] # NoTrace \/ k \in KeysOf(Payload[r])
           /\ \A k \in Keys : KnownTrace(r, k) # NoTrace => KnownTrace(r, k)' # NoTrace
           /\ \A e \in Batch(r) : KnownTrace(r, KeyOf(e))' # NoTrace
  <1>1. current[r] \in Traces /\ current[r] # NoTrace
    BY NullAssumption DEF Shape, StageAccepted, StageDuplicate
  <1>2. Batch(r) \subseteq Events /\ \A e \in Batch(r) : KeyOf(e) \in Keys
    BY ViewType, EventType
  <1>3. CASE StageAccepted(r)
    <2>1. \A k \in Keys : tx'[r].keys[k] =
              IF k \in KeysOf(Fresh(r)) THEN current[r] ELSE tx[r].keys[k]
      BY <1>3, StageWrites
    <2>2. keyTrace' = keyTrace
      BY <1>3 DEF StageAccepted, tables
    <2>3. KeysOf(Fresh(r)) \subseteq KeysOf(Payload[r])
      BY DEF KeysOf, Fresh, Batch, BufferedIn
    <2>4. \A k \in Keys : KnownTrace(r, k)' =
              IF k \in KeysOf(Fresh(r)) THEN current[r] ELSE KnownTrace(r, k)
      BY <1>1, <2>1, <2>2 DEF KnownTrace
    <2>5. \A e \in Batch(r) :
              KeyOf(e) \in KeysOf(Fresh(r)) \/ KnownTrace(r, KeyOf(e)) # NoTrace
      BY DEF Fresh, KeysOf
    <2> QED
      BY <1>1, <1>2, <2>1, <2>2, <2>3, <2>4, <2>5
  <1>4. CASE StageDuplicate(r)
    <2>1. tx'[r].keys = tx[r].keys /\ keyTrace' = keyTrace
      BY <1>4 DEF StageDuplicate, tables, Shape, AnyWrites
    <2>2. \A k \in Keys : KnownTrace(r, k)' = KnownTrace(r, k)
      BY <2>1 DEF KnownTrace
    <2>3. \A e \in Batch(r) : KnownTrace(r, KeyOf(e)) = current[r]
      BY <1>4 DEF StageDuplicate, KnownToTrace
    <2> QED
      BY <1>1, <1>2, <2>1, <2>2, <2>3
  <1> QED
    BY <1>3, <1>4

\* A step that changes no key, no transaction and no list of traces, and starts
\* no staging, keeps the invariant.
LEMMA BatchQuiet ==
    ASSUME Shape, BatchInv, UNCHANGED <<keyTrace, tx, todo>>,
           \A q \in Requests : pc'[q] \in Staging => pc[q] \in Staging
    PROVE  BatchInv'
  BY DEF BatchInv, Known, KnownTrace

\* The end of a transaction keeps the invariant of the other requests.
LEMMA BatchEnd ==
    ASSUME Shape, BatchInv, NEW r \in Requests, NEW a \in Boundary!Answers,
           EndTransaction(r, a),
           \A k \in Keys : keyTrace[k] # NoTrace => keyTrace'[k] # NoTrace
    PROVE  BatchInv'
  <1>1. /\ tx'[r] = NoWrites
        /\ \A q \in Requests \ {r} : tx'[q] = tx[q] /\ pc'[q] = pc[q] /\ todo'[q] = todo[q]
        /\ pc'[r] = "done"
    BY DEF EndTransaction, Respond, Shape
  <1>2. ASSUME NEW q \in Requests, NEW k \in Keys, tx'[q].keys[k] # NoTrace
        PROVE  k \in KeysOf(Payload[q])
    BY <1>1, <1>2 DEF BatchInv, NoWrites
  <1>3. ASSUME NEW q \in Requests, pc'[q] \in Staging
        PROVE  /\ q \in Acceptable
               /\ Known(q, {e \in Payload[q] : TraceOf(e) \notin todo[q]})'
    <2>1. q # r
      BY <1>1, <1>3 DEF Staging
    <2>2. \A e \in Payload[q] : KeyOf(e) \in Keys
      BY ViewType, EventType
    <2>3. /\ q \in Acceptable
          /\ \A e \in Payload[q] : TraceOf(e) \notin todo[q] =>
                 KnownTrace(q, KeyOf(e)) # NoTrace
      BY <1>1, <1>3, <2>1 DEF BatchInv, Known
    <2>4. \A e \in Payload[q] : TraceOf(e) \notin todo'[q] =>
              KnownTrace(q, KeyOf(e))' # NoTrace
      BY <1>1, <2>1, <2>2, <2>3 DEF KnownTrace
    <2> QED
      BY <2>3, <2>4 DEF Known
  <1> QED
    BY <1>2, <1>3 DEF BatchInv, Acceptable

\* Every step keeps the batch whole.
LEMMA BatchStep ==
    ASSUME Shape, BatchInv, [Next]_vars
    PROVE  BatchInv'
  <1>1. CASE UNCHANGED vars
    BY <1>1, BatchQuiet DEF vars, tables, handler
  <1>2. ASSUME NEW r \in Requests, AcceptEvents(r)
        PROVE  BatchInv'
    <2>1. r \in Acceptable
      BY <1>2 DEF AcceptEvents, Decodes, Acceptable
    <2>2. todo'[r] = TracesOf(Payload[r])
      BY <1>2 DEF AcceptEvents, Shape
    <2>3. {e \in Payload[r] : TraceOf(e) \notin todo'[r]} = {}
      BY <2>2 DEF TracesOf
    <2>4. /\ UNCHANGED <<keyTrace, tx>>
          /\ \A q \in Requests \ {r} : pc'[q] = pc[q] /\ todo'[q] = todo[q]
      BY <1>2 DEF AcceptEvents, Shape, tables
    <2> QED
      BY <2>1, <2>3, <2>4 DEF BatchInv, Known, KnownTrace, Acceptable
  <1>3. ASSUME NEW r \in Requests, StageAccepted(r) \/ StageDuplicate(r)
        PROVE  BatchInv'
    <2>1. /\ todo'[r] = todo[r] \ {current[r]}
          /\ pc[r] \in Staging
          /\ UNCHANGED keyTrace
          /\ \A q \in Requests \ {r} :
                 tx'[q] = tx[q] /\ pc'[q] = pc[q] /\ todo'[q] = todo[q]
      BY <1>3, BatchKnown DEF StageAccepted, StageDuplicate, NextOne, Shape, Staging
    <2>2. ASSUME NEW q \in Requests, NEW k \in Keys, tx'[q].keys[k] # NoTrace
          PROVE  k \in KeysOf(Payload[q])
      BY <1>3, <2>1, <2>2, BatchKnown DEF BatchInv
    <2>3. \A e \in Payload[r] : KeyOf(e) \in Keys
      BY ViewType, EventType
    <2>4. \A e \in Payload[r] : TraceOf(e) \notin todo'[r] =>
              KnownTrace(r, KeyOf(e))' # NoTrace
      <3> SUFFICES ASSUME NEW e \in Payload[r], TraceOf(e) \notin todo'[r]
                   PROVE  KnownTrace(r, KeyOf(e))' # NoTrace
        OBVIOUS
      <3>1. CASE TraceOf(e) = current[r]
        BY <1>3, <3>1, BatchKnown DEF Batch, BufferedIn
      <3>2. CASE TraceOf(e) # current[r]
        <4>1. KnownTrace(r, KeyOf(e)) # NoTrace
          BY <2>1, <3>2 DEF BatchInv, Known
        <4> QED
          BY <1>3, <2>3, <4>1, BatchKnown
      <3> QED
        BY <3>1, <3>2
    <2>5. ASSUME NEW q \in Requests, pc'[q] \in Staging
          PROVE  /\ q \in Acceptable
                 /\ Known(q, {e \in Payload[q] : TraceOf(e) \notin todo[q]})'
      <3>1. CASE q = r
        BY <2>1, <2>4, <3>1 DEF BatchInv, Known
      <3>2. CASE q # r
        BY <2>1, <2>5, <3>2 DEF BatchInv, Known, KnownTrace
      <3> QED
        BY <3>1, <3>2
    <2> QED
      BY <2>2, <2>5 DEF BatchInv, Acceptable
  <1>4. ASSUME NEW r \in Requests,
               Rejected(r) \/ NextTrace(r) \/ AcquireLock(r)
                   \/ PolicyUnavailable(r) \/ Retry(r)
        PROVE  BatchInv'
    BY <1>4, BatchQuiet
    DEF Rejected, NextTrace, AcquireLock, PolicyUnavailable, Retry, Respond, Shape,
        tables, Staging
  <1>5. ASSUME NEW r \in Requests, Abort(r)
        PROVE  BatchInv'
    BY <1>5, BatchEnd DEF Abort, tables, Boundary!Answers
  <1>6. ASSUME NEW r \in Requests, Commit(r)
        PROVE  BatchInv'
    <2>1. PICK a \in {"accepted", "refused"} : EndTransaction(r, a) /\ Apply(r)
      BY <1>6 DEF Commit
    <2>2. \A k \in Keys : keyTrace[k] # NoTrace => keyTrace'[k] # NoTrace
      BY <2>1 DEF Apply, KnownTrace
    <2> QED
      BY <2>1, <2>2, BatchEnd DEF Boundary!Answers
  <1>7. ASSUME NEW t \in Traces, TailerDecides(t)
        PROVE  BatchInv'
    BY <1>7, BatchQuiet DEF TailerDecides, handler
  <1> QED
    BY <1>1, <1>2, <1>3, <1>4, <1>5, <1>6, <1>7
    DEF Next, ServeHTTP, StageBatch, StageRefused, Cancelled, DeadlockAbort

\* The event keys known to the tail store, as the abstract specification sees them.
Durable == {k \in Keys : keyTrace[k] # NoTrace}

\* A commit makes exactly the keys of the request durable.
LEMMA CommitDurable ==
    ASSUME Shape, BatchInv, NEW r \in Requests, pc[r] = "next", todo[r] = {}, Apply(r)
    PROVE  Durable' = Durable \cup KeysOf(Payload[r])
  <1>1. \A k \in Keys : keyTrace'[k] = KnownTrace(r, k)
    BY DEF Apply
  <1>2. \A e \in Payload[r] : KeyOf(e) \in Keys /\ KnownTrace(r, KeyOf(e)) # NoTrace
    BY ViewType, EventType DEF BatchInv, Known, Staging
  <1>3. KeysOf(Payload[r]) \subseteq Durable'
    BY <1>1, <1>2 DEF Durable, KeysOf
  <1>4. Durable \subseteq Durable'
    BY <1>1 DEF Durable, KnownTrace
  <1>5. Durable' \subseteq Durable \cup KeysOf(Payload[r])
    BY <1>1 DEF Durable, KnownTrace, BatchInv
  <1> QED
    BY <1>3, <1>4, <1>5

\* Every step of the gateway and StageBatch is a step of the abstract boundary,
\* or changes nothing of it.
LEMMA BoundaryStep ==
    ASSUME Shape, BatchInv, [Next]_vars
    PROVE  [Boundary!Next]_<<Durable, answer>>
  <1> USE DEF Boundary!Next, Boundary!Accept, Boundary!Refuse, Boundary!Retry
  <1>1. CASE UNCHANGED vars
    BY <1>1 DEF vars, tables, Durable
  <1>2. ASSUME NEW r \in Requests, Rejected(r) \/ PolicyUnavailable(r)
        PROVE  Boundary!Refuse(r)
    BY <1>2 DEF Rejected, PolicyUnavailable, Respond, tables, Shape
  <1>3. ASSUME NEW r \in Requests, pc[r] \in Staging, Abort(r)
        PROVE  Boundary!Refuse(r)
    BY <1>3 DEF Abort, EndTransaction, Respond, tables, Shape, Staging
  <1>4. ASSUME NEW r \in Requests, Commit(r)
        PROVE  Boundary!Accept(r)
    <2>1. PICK a \in {"accepted", "refused"} :
              pc[r] = "next" /\ todo[r] = {} /\ EndTransaction(r, a) /\ Apply(r)
      BY <1>4 DEF Commit
    <2>2. r \in Acceptable /\ answer[r] = "none"
      BY <2>1 DEF BatchInv, Shape, Staging
    <2>3. Durable' = Durable \cup KeysOf(Payload[r])
      BY <2>1, CommitDurable
    <2>4. answer' = [answer EXCEPT ![r] = a]
      BY <2>1 DEF EndTransaction, Respond
    <2> QED
      BY <2>2, <2>3, <2>4 DEF Durable
  <1>5. ASSUME NEW r \in Requests, Retry(r)
        PROVE  Boundary!Retry(r)
    BY <1>5 DEF Retry, tables
  <1>6. ASSUME NEW r \in Requests,
               \/ AcceptEvents(r) \/ NextTrace(r) \/ AcquireLock(r)
               \/ StageAccepted(r) \/ StageDuplicate(r)
        PROVE  UNCHANGED <<Durable, answer>>
    BY <1>6 DEF AcceptEvents, NextTrace, AcquireLock, StageAccepted, StageDuplicate,
                tables, Durable
  <1>7. ASSUME NEW t \in Traces, TailerDecides(t)
        PROVE  UNCHANGED <<Durable, answer>>
    BY <1>7 DEF TailerDecides, Durable
  <1>8. ASSUME NEW r \in Requests, DeadlockAbort(r)
        PROVE  pc[r] \in Staging
    BY <1>8 DEF DeadlockAbort, WaitsFor, Staging
  <1>9. ASSUME NEW r \in Requests, StageRefused(r) \/ Cancelled(r) \/ DeadlockAbort(r)
        PROVE  Boundary!Refuse(r)
    BY <1>3, <1>8, <1>9 DEF StageRefused, Cancelled, DeadlockAbort, Staging
  <1> QED
    BY <1>1, <1>2, <1>4, <1>5, <1>6, <1>7, <1>9 DEF Next, ServeHTTP, StageBatch

\* acceptEvents and StageBatch: for every set of requests, a request of several
\* traces is durable as a whole, in one step with its acknowledgement, or not
\* at all, whatever other requests, tailers, failures and deadlocks do.
THEOREM RequestsAreAtomic == Spec => AtomicRequests
  <1>1. Init => Boundary!Init
    BY DEF Init, Boundary!Init
  <1>2. Init => BatchInv
    BY DEF Init, BatchInv, NoWrites, Staging
  <1>3. Shape /\ BatchInv /\ [Next]_vars => (Shape /\ BatchInv)'
    BY ShapeStep, BatchStep
  <1>4. Shape /\ BatchInv /\ [Next]_vars =>
            [Boundary!Next]_<<{k \in Keys : keyTrace[k] # NoTrace}, answer>>
    BY BoundaryStep DEF Durable
  <1> QED
    BY <1>1, <1>2, <1>3, <1>4, ShapeInit, PTL DEF Spec, AtomicRequests, Boundary!Spec

=============================================================================
