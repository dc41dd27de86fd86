-------------------------- MODULE TailStoreProofs --------------------------
(***************************************************************************)
(* Theorems about TailStore for every set of traces, events and tailers    *)
(* and every bound.                                                        *)
(***************************************************************************)
EXTENDS TailStore, FiniteSetTheorems, TLAPS

\* A set of envelopes has a natural number of elements: span counts are naturals.
LEMMA CountNat == ASSUME NEW S \in SUBSET Envelopes PROVE Cardinality(S) \in Nat
  BY FiniteAssumption, FS_Subset, FS_CardinalityType

\* The decision rule returns one of the tailer's four reasons.
LEMMA DecideType == \A t, S : Decide(t, S) \in TailerReasons
  BY DEF Decide, TailerReasons, RetainedReasons

\* The types of the initial and constant rows.
LEMMA RowTypes ==
    /\ AbsentTrace \in TraceRow
    /\ NewTrace \in TraceRow
    /\ NoDecision \in DecisionRow
    /\ NoMessage \in OutboxRow
    /\ NoDeletion \in Deletion
  BY DEF AbsentTrace, NewTrace, TraceRow, NoDecision, DecisionRow, NoMessage,
         OutboxRow, NoDeletion, Deletion

\* Every variable has its type initially.
LEMMA TypeInit == Init => TypeOK
  BY RowTypes, EventAssumption, BoundAssumption DEF Init, TypeOK

\* Staging any number of spans yields a well-typed row.
LEMMA StagedRowType ==
    ASSUME TypeOK, NEW t \in Traces, NEW n \in Nat
    PROVE  StagedRow(t, n) \in TraceRow
  <1> DEFINE row == IF Absent(t) THEN NewTrace ELSE traces[t]
  <1>1. row \in TraceRow
    BY RowTypes DEF TypeOK
  <1> DEFINE g == row.generation + 1
             c == row.spanCount + n
  <1>2. g \in Nat /\ c \in Nat
    BY <1>1 DEF TraceRow
  <1>3. [row EXCEPT !.generation = g, !.spanCount = c, !.quiet = FALSE] \in TraceRow
    <2> HIDE DEF row, g, c
    <2> QED BY <1>1, <1>2 DEF TraceRow
  <1> QED
    BY <1>1, <1>3 DEF StagedRow

\* So does an eviction, for the trace and for its decision record.
LEMMA EvictedType ==
    ASSUME TypeOK, NEW t \in Traces
    PROVE  Evicted(t) \in TraceRow /\ EvictionRow(t) \in DecisionRow
  <1> DEFINE row == traces[t]
             n == Cardinality(Buffered(t))
  <1>1. row \in TraceRow /\ n \in Nat /\ decisions[t] \in DecisionRow
    BY CountNat DEF TypeOK, Buffered
  <1>2. [row EXCEPT !.decision = "evicted_pressure", !.owner = NoOwner,
                    !.leased = FALSE, !.spanCount = n] \in TraceRow
    <2> HIDE DEF row, n
    <2> QED BY <1>1 DEF TraceRow, Reasons
  <1>3. [reason |-> "evicted_pressure", spanCount |-> n] \in DecisionRow
    BY <1>1 DEF DecisionRow, Reasons
  <1> QED
    BY <1>1, <1>2, <1>3 DEF Evicted, EvictionRow

\* A gateway request keeps the types.
LEMMA TypeStage == TypeOK /\ Stage => TypeOK'
  <1> SUFFICES ASSUME TypeOK, NEW t \in Traces,
                      NEW B \in SUBSET {e \in Envelopes : TraceOf[e] = t},
                      StageAccepted(t, B) \/ StageDuplicate(t, B)
               PROVE  TypeOK'
    BY DEF Stage
  <1>1. CASE StageAccepted(t, B)
    <2> DEFINE fresh == Fresh(B)
    <2> PICK victims \in Victims(t) :
            /\ traces' = [u \in Traces |->
                   IF u = t THEN StagedRow(t, Cardinality(fresh))
                   ELSE IF u \in victims THEN Evicted(u) ELSE traces[u]]
            /\ buffers' = {e \in buffers : TraceOf[e] \notin victims} \cup fresh
            /\ keyTrace' = [k \in Keys |->
                   IF k \in KeysOf(fresh) THEN t ELSE keyTrace[k]]
            /\ decisions' = [u \in Traces |->
                   IF u \in victims THEN EvictionRow(u) ELSE decisions[u]]
            /\ acked' = acked \cup B
            /\ UNCHANGED <<outbox, notStaging>>
      BY <1>1 DEF StageAccepted
    <2>1. fresh \subseteq Envelopes /\ Cardinality(fresh) \in Nat
      BY CountNat DEF Fresh
    <2>3. StagedRow(t, Cardinality(fresh)) \in TraceRow
      BY <2>1, StagedRowType
    <2>4. traces' \in [Traces -> TraceRow]
      BY <2>3, EvictedType DEF TypeOK
    <2>5. decisions' \in [Traces -> DecisionRow]
      BY EvictedType DEF TypeOK
    <2> QED
      BY <2>1, <2>4, <2>5 DEF TypeOK, notStaging, workers, bounds
  <1>2. CASE StageDuplicate(t, B)
    BY <1>2 DEF StageDuplicate, TypeOK, tables, notStaging, workers, bounds
  <1> QED
    BY <1>1, <1>2

\* The process variables after an exit have their types.
LEMMA ExitType ==
    ASSUME TypeOK, NEW w \in Workers, Exit(w)
    PROVE  /\ pc' \in [Workers -> {"idle", "trace", "record", "publish", "mark", "down"}]
           /\ leases' \in [Workers -> SUBSET Lease]
           /\ lease' \in [Workers -> Lease \cup {NoLease}]
           /\ reason' \in [Workers -> TailerReasons \cup {"none"}]
           /\ messages' \in [Workers -> SUBSET Envelopes]
           /\ message' \in [Workers -> SUBSET Envelopes]
  BY DEF TypeOK, Exit, Goto

\* The row of a decided trace has its type.
LEMMA DecidedRowType ==
    ASSUME TypeOK, NEW w \in Workers, lease[w] \in Lease, reason[w] # "none"
    PROVE  LET t == lease[w].trace
               n == Cardinality(Buffered(t))
           IN  /\ [traces[t] EXCEPT !.decision = reason[w], !.owner = NoOwner,
                                    !.leased = FALSE, !.spanCount = n] \in TraceRow
               /\ [reason |-> reason[w], spanCount |-> n] \in DecisionRow
  <1> DEFINE row == traces[lease[w].trace]
             n == Cardinality(Buffered(lease[w].trace))
             r == reason[w]
  <1>1. row \in TraceRow /\ n \in Nat /\ r \in Reasons
    BY CountNat DEF TypeOK, Buffered, Lease, Reasons
  <1>2. [row EXCEPT !.decision = r, !.owner = NoOwner, !.leased = FALSE,
                    !.spanCount = n] \in TraceRow
    <2> HIDE DEF row, n, r
    <2> QED BY <1>1 DEF TraceRow
  <1>3. [reason |-> r, spanCount |-> n] \in DecisionRow
    BY <1>1 DEF DecisionRow
  <1> QED
    BY <1>2, <1>3

\* A step of a running tailer keeps the types.
LEMMA TypeProcess ==
    ASSUME TypeOK, WorkerShape, NEW w \in Workers, Process(w)
    PROVE  TypeOK'
  <1>1. CASE ClaimTailTraces(w)
    <2>1. PICK S \in SUBSET Claimable :
            /\ traces' = [t \in Traces |->
                 IF t \in S THEN [traces[t] EXCEPT !.owner = OwnerOf[w], !.leased = TRUE]
                 ELSE traces[t]]
            /\ leases' = [leases EXCEPT ![w] =
                 {[trace |-> t, generation |-> traces[t].generation] : t \in S}]
            /\ Goto(w, "trace")
      BY <1>1 DEF ClaimTailTraces
    <2>2. OwnerOf[w] \in Owners
      BY DEF Owners
    <2>3. \A t \in Traces :
            [traces[t] EXCEPT !.owner = OwnerOf[w], !.leased = TRUE] \in TraceRow
      <3> TAKE t \in Traces
      <3>1. traces[t] \in TraceRow
        BY DEF TypeOK
      <3> QED
        BY <2>2, <3>1 DEF TraceRow
    <2>4. traces' \in [Traces -> TraceRow]
      BY <2>1, <2>3 DEF TypeOK
    <2>5. \A t \in S : [trace |-> t, generation |-> traces[t].generation] \in Lease
      BY DEF Claimable, TypeOK, TraceRow, Lease
    <2>6. {[trace |-> t, generation |-> traces[t].generation] : t \in S} \in SUBSET Lease
      BY <2>5
    <2>7. leases' \in [Workers -> SUBSET Lease]
      BY <2>1, <2>6 DEF TypeOK
    <2> QED
      BY <1>1, <2>1, <2>4, <2>6
      DEF ClaimTailTraces, TypeOK, Goto, history, bounds
  <1>2. CASE LoadTailTrace(w)
    BY <1>2, DecideType
    DEF LoadTailTrace, TypeOK, Goto, tables, history, bounds
  <1>3. CASE RecordTailDecision(w)
    <2> DEFINE t == lease[w].trace
               n == Cardinality(Buffered(t))
    <2>1. lease[w] \in Lease /\ reason[w] # "none"
      BY <1>3 DEF RecordTailDecision, WorkerShape, TypeOK, TailerReasons, RetainedReasons
    <2>2. traces' \in [Traces -> TraceRow] /\ decisions' \in [Traces -> DecisionRow]
      BY <1>3, <2>1, DecidedRowType DEF RecordTailDecision, TypeOK
    <2>3. \A k \in Keys :
            [NoMessage EXCEPT !.state = "pending",
                              !.envelope = {e \in Kept(w) : KeyOf[e] = k}] \in OutboxRow
      BY RowTypes DEF OutboxRow, NoMessage, Kept, Buffered, TypeOK
    <2>4. outbox' \in [Keys -> OutboxRow]
      BY <1>3, <2>3 DEF RecordTailDecision, TypeOK
    <2> QED
      BY <1>3, <2>2, <2>4
      DEF RecordTailDecision, NextLease, TypeOK, Goto, history, bounds
  <1>4. CASE SkipTailDecision(w)
    BY <1>4 DEF SkipTailDecision, NextLease, TypeOK, Goto, tables, history, bounds
  <1>5. CASE FailTailDecision(w)
    BY <1>5, ExitType DEF FailTailDecision, TypeOK, tables, history, bounds
  <1>6. CASE ClaimTailOutbox(w)
    <2>1. PICK S \in SUBSET Deliverable :
            /\ outbox' = [k \in Keys |->
                 IF k \in S THEN [outbox[k] EXCEPT !.owner = OwnerOf[w], !.leased = TRUE]
                 ELSE outbox[k]]
            /\ messages' = [messages EXCEPT ![w] = UNION {outbox[k].envelope : k \in S}]
            /\ Goto(w, IF S = {} THEN "idle" ELSE "publish")
      BY <1>6 DEF ClaimTailOutbox
    <2>2. OwnerOf[w] \in Owners
      BY DEF Owners
    <2>3. \A k \in Keys :
            [outbox[k] EXCEPT !.owner = OwnerOf[w], !.leased = TRUE] \in OutboxRow
      BY <2>2 DEF TypeOK, OutboxRow
    <2>4. outbox' \in [Keys -> OutboxRow]
      BY <2>1, <2>3 DEF TypeOK
    <2>5. UNION {outbox[k].envelope : k \in S} \subseteq Envelopes
      BY DEF Deliverable, TypeOK, OutboxRow
    <2>6. messages' \in [Workers -> SUBSET Envelopes]
      BY <2>1, <2>5 DEF TypeOK
    <2> QED
      BY <1>6, <2>1, <2>4, <2>6
      DEF ClaimTailOutbox, TypeOK, Goto, history, bounds
  <1>7. CASE Publish(w)
    BY <1>7 DEF Publish, TypeOK, Goto, tables, history, bounds
  <1>8. CASE MarkTailOutboxPublished(w)
    <2>1. \A k \in Keys :
            [outbox[k] EXCEPT !.state = "published", !.owner = NoOwner,
                              !.leased = FALSE] \in OutboxRow
      <3> TAKE k \in Keys
      <3>1. outbox[k] \in OutboxRow
        BY DEF TypeOK
      <3> QED
        BY <3>1 DEF OutboxRow
    <2>2. PICK e \in message[w] :
            outbox' = [outbox EXCEPT ![KeyOf[e]] =
                [@ EXCEPT !.state = "published", !.owner = NoOwner, !.leased = FALSE]]
      BY <1>8 DEF MarkTailOutboxPublished
    <2>3. e \in Envelopes /\ KeyOf[e] \in Keys
      BY EventAssumption DEF TypeOK
    <2>4. outbox' \in [Keys -> OutboxRow]
      BY <2>1, <2>2, <2>3 DEF TypeOK
    <2> QED
      BY <1>8, <2>4 DEF MarkTailOutboxPublished, TypeOK, Goto, history, bounds
  <1>9. CASE OutboxLeaseLost(w)
    BY <1>9, ExitType DEF OutboxLeaseLost, TypeOK, tables, history, bounds
  <1> QED
    BY <1>1, <1>2, <1>3, <1>4, <1>5, <1>6, <1>7, <1>8, <1>9 DEF Process

\* Failed publishes, crashes and restarts keep the types.
LEMMA TypeFault ==
    ASSUME TypeOK, NEW w \in Workers, PublishFails(w) \/ Crash(w) \/ Restart(w)
    PROVE  TypeOK'
  <1>1. CASE PublishFails(w)
    <2>1. faults' \in 0..MaxFaults
      BY <1>1, BoundAssumption DEF PublishFails, TypeOK
    <2> QED
      BY <1>1, <2>1, ExitType DEF PublishFails, TypeOK, tables, history
  <1>2. CASE Crash(w)
    <2>1. faults' \in 0..MaxFaults
      BY <1>2, BoundAssumption DEF Crash, TypeOK
    <2> QED
      BY <1>2, <2>1, ExitType DEF Crash, TypeOK, tables, history
  <1>3. CASE Restart(w)
    BY <1>3 DEF Restart, TypeOK, Goto, tables, history, bounds
  <1> QED
    BY <1>1, <1>2, <1>3

\* So do a trace falling quiet and a lease expiring.
LEMMA TypeClock ==
    ASSUME TypeOK, \/ \E t \in Traces : QuietElapses(t)
                   \/ OrphanedLeaseExpires
                   \/ HeldLeaseExpires
    PROVE  TypeOK'
  <1>1. \A t \in Traces : [traces[t] EXCEPT !.quiet = TRUE] \in TraceRow
                        /\ [traces[t] EXCEPT !.leased = FALSE] \in TraceRow
    BY DEF TypeOK, TraceRow
  <1>2. \A k \in Keys : [outbox[k] EXCEPT !.leased = FALSE] \in OutboxRow
    BY DEF TypeOK, OutboxRow
  <1>3. ASSUME NEW t \in Traces, QuietElapses(t) PROVE TypeOK'
    BY <1>1, <1>3 DEF QuietElapses, TypeOK, workers, history, bounds
  <1>4. ASSUME NEW t \in Traces, TraceLeaseExpires(t), bounds' \in
                   (0..MaxFaults) \X (0..MaxRetention) \X (0..MaxDeletes)
        PROVE  TypeOK'
    BY <1>1, <1>4 DEF TraceLeaseExpires, TypeOK, workers, history, bounds
  <1>5. ASSUME NEW k \in Keys, MessageLeaseExpires(k), bounds' \in
                   (0..MaxFaults) \X (0..MaxRetention) \X (0..MaxDeletes)
        PROVE  TypeOK'
    BY <1>2, <1>5 DEF MessageLeaseExpires, TypeOK, workers, history, bounds
  <1>6. CASE OrphanedLeaseExpires
    BY <1>4, <1>5, <1>6 DEF OrphanedLeaseExpires, TypeOK, bounds
  <1>7. CASE HeldLeaseExpires
    <2>1. faults' \in 0..MaxFaults
      BY <1>7, BoundAssumption DEF HeldLeaseExpires, TypeOK
    <2>2. bounds' \in (0..MaxFaults) \X (0..MaxRetention) \X (0..MaxDeletes)
      BY <1>7, <2>1 DEF HeldLeaseExpires, TypeOK, bounds
    <2> QED
      BY <1>4, <1>5, <1>7, <2>2 DEF HeldLeaseExpires
  <1> QED
    BY <1>3, <1>6, <1>7

\* So does the retention job.
LEMMA TypeRetention == TypeOK /\ DeleteTailDataBefore => TypeOK'
  BY RowTypes, EventAssumption, BoundAssumption
  DEF DeleteTailDataBefore, TypeOK, workers

\* So does every statement of an explicit deletion, its commit and rollback.
LEMMA TypeDeletion == TypeOK /\ DeleteTenantTailData => TypeOK'
  <1> SUFFICES ASSUME TypeOK, DeleteTenantTailData PROVE TypeOK'
    OBVIOUS
  <1> USE DEF TypeOK, tables, notDeleting, workers
  <1>1. CASE DeleteOutbox
    <2>1. deletes' \in 0..MaxDeletes
      BY <1>1, BoundAssumption DEF DeleteOutbox
    <2>2. KeysOf(buffers) \subseteq Keys
      BY EventAssumption DEF KeysOf
    <2>3. del' \in Deletion
      BY <1>1, <2>2 DEF DeleteOutbox, Deletion, NoDeletion
    <2> QED
      BY <1>1, <2>1, <2>3 DEF DeleteOutbox
  <1>2. CASE DeleteEventKeys
    BY <1>2 DEF DeleteEventKeys, Deletion
  <1>3. CASE DeleteDecisions
    BY <1>3 DEF DeleteDecisions, Deletion
  <1>4. CASE DeleteTraces
    BY <1>4, RowTypes, EventAssumption DEF DeleteTraces
  <1>5. CASE DeleteRollback
    BY <1>5, RowTypes DEF DeleteRollback
  <1> QED
    BY <1>1, <1>2, <1>3, <1>4, <1>5 DEF DeleteTenantTailData

\* Together: every step keeps the types, given what tailers hold at each step.
LEMMA TypeStep == TypeOK /\ WorkerShape /\ [Next]_vars => TypeOK'
  <1> SUFFICES ASSUME TypeOK, WorkerShape, [Next]_vars PROVE TypeOK'
    OBVIOUS
  <1>1. CASE UNCHANGED vars
    BY <1>1 DEF TypeOK, vars, tables, workers, history, bounds
  <1>2. CASE Next
    BY <1>2, TypeStage, TypeProcess, TypeFault, TypeClock, TypeRetention, TypeDeletion
    DEF Next
  <1> QED
    BY <1>1, <1>2

-----------------------------------------------------------------------------
(* What tailers hold.                                                      *)

\* Only its own steps change what a tailer holds, and an exit drops it all.
LEMMA ShapeStep == TypeOK /\ WorkerShape /\ [Next]_vars => WorkerShape'
  <1> SUFFICES ASSUME TypeOK, WorkerShape, [Next]_vars PROVE WorkerShape'
    OBVIOUS
  <1> USE DEF WorkerShape, TypeOK
  <1>1. CASE UNCHANGED workers
    BY <1>1 DEF workers
  <1>2. ASSUME NEW w \in Workers, Exit(w) PROVE WorkerShape'
    BY <1>2 DEF Exit, Goto
  <1>3. ASSUME NEW w \in Workers, Process(w) PROVE WorkerShape'
    <2>1. CASE ClaimTailTraces(w)
      BY <2>1 DEF ClaimTailTraces, Goto
    <2>2. CASE LoadTailTrace(w)
      BY <2>2, DecideType DEF LoadTailTrace, Goto
    <2>3. ASSUME NextLease(w), pc[w] = "record", UNCHANGED <<messages, message>>
          PROVE  WorkerShape'
      BY <2>3 DEF NextLease, Goto
    <2>4. CASE RecordTailDecision(w) \/ SkipTailDecision(w)
      BY <2>3, <2>4 DEF RecordTailDecision, SkipTailDecision
    <2>5. CASE FailTailDecision(w)
      BY <1>2, <2>5 DEF FailTailDecision
    <2>6. CASE ClaimTailOutbox(w)
      <3>1. PICK S \in SUBSET Deliverable :
              /\ messages' = [messages EXCEPT ![w] = UNION {outbox[k].envelope : k \in S}]
              /\ pc' = [pc EXCEPT ![w] = IF S = {} THEN "idle" ELSE "publish"]
        BY <2>6 DEF ClaimTailOutbox, Goto
      <3>2. S = {} => messages'[w] = {}
        BY <3>1
      <3> QED
        BY <2>6, <3>1, <3>2 DEF ClaimTailOutbox
    <2>7. CASE Publish(w)
      BY <2>7 DEF Publish, Goto
    <2>8. CASE MarkTailOutboxPublished(w)
      BY <2>8 DEF MarkTailOutboxPublished, Goto
    <2>9. CASE OutboxLeaseLost(w)
      BY <1>2, <2>9 DEF OutboxLeaseLost
    <2> QED
      BY <1>3, <2>1, <2>2, <2>4, <2>5, <2>6, <2>7, <2>8, <2>9 DEF Process
  <1>4. ASSUME NEW w \in Workers, PublishFails(w) \/ Crash(w) \/ Restart(w)
        PROVE  WorkerShape'
    <2>1. CASE PublishFails(w) \/ Crash(w)
      BY <1>2, <2>1 DEF PublishFails, Crash
    <2>2. CASE Restart(w)
      BY <2>2 DEF Restart, Goto
    <2> QED
      BY <1>4, <2>1, <2>2
  <1>5. CASE Stage
    BY <1>1, <1>5 DEF Stage, StageAccepted, StageDuplicate, notStaging
  <1>6. CASE (\E t \in Traces : QuietElapses(t)) \/ OrphanedLeaseExpires \/ HeldLeaseExpires
    BY <1>1, <1>6 DEF QuietElapses, OrphanedLeaseExpires, HeldLeaseExpires,
                      TraceLeaseExpires, MessageLeaseExpires
  <1>7. CASE DeleteTailDataBefore
    BY <1>1, <1>7 DEF DeleteTailDataBefore
  <1>8. CASE DeleteTenantTailData
    BY <1>1, <1>8 DEF DeleteTenantTailData, DeleteOutbox, DeleteEventKeys,
                      DeleteDecisions, DeleteTraces, DeleteRollback, notDeleting
  <1>9. CASE UNCHANGED vars
    BY <1>1, <1>9 DEF vars
  <1> QED
    BY <1>3, <1>4, <1>5, <1>6, <1>7, <1>8, <1>9 DEF Next

-----------------------------------------------------------------------------
(* LeaseFresh.                                                             *)

\* What one tailer's part of GenerationBound and LeaseFresh says.
FreshFor(w) ==
    /\ \A l \in leases[w] :
           Open(l.trace) /\ traces[l.trace].owner = OwnerOf[w] =>
               l.generation <= traces[l.trace].generation
    /\ pc[w] = "record" /\ LeaseValid(w) =>
           reason[w] = Decide(lease[w].trace, Buffered(lease[w].trace))

\* A step of the tables harmless to the leases of w on t: t is closed or not
\* owned by w afterwards, or has a new generation, or its buffers are the same.
Harmless(w, t) ==
    \/ traces'[t].decision # "undecided"
    \/ traces'[t].owner # OwnerOf[w]
    \/ /\ Open(t)
       /\ traces'[t].owner = traces[t].owner
       /\ \/ traces'[t].generation = traces[t].generation + 1
          \/ /\ traces'[t].generation = traces[t].generation
             /\ Buffered(t)' = Buffered(t)

\* What a tailer does of its own in a step after which it still is at no
\* record step it was not at before: nothing, or forgetting leases.
Keeps(w) ==
    \/ UNCHANGED <<pc[w], leases[w], lease[w], reason[w]>>
    \/ pc'[w] # "record" /\ leases'[w] \subseteq leases[w]

\* Harmless steps keep the leases of such a tailer fresh.
LEMMA HarmlessFresh ==
    ASSUME TypeOK, WorkerShape, NEW w \in Workers, FreshFor(w),
           \A t \in Traces : Harmless(w, t),
           Keeps(w)
    PROVE  FreshFor(w)'
  <1>1. \A t \in Traces : traces[t].generation \in Nat
    BY DEF TypeOK, TraceRow
  <1>2. \A l \in leases[w] : l.trace \in Traces /\ l.generation \in Nat
    BY DEF TypeOK, Lease
  <1>3. ASSUME NEW l \in leases'[w],
               Open(l.trace)', traces'[l.trace].owner = OwnerOf[w]
        PROVE  l.generation <= traces'[l.trace].generation
    <2>1. l \in leases[w]
      BY <1>3 DEF Keeps
    <2> QED
      BY <1>1, <1>2, <1>3, <2>1 DEF FreshFor, Harmless, Open
  <1>4. ASSUME pc'[w] = "record", LeaseValid(w)'
        PROVE  reason'[w] = Decide(lease[w].trace, Buffered(lease[w].trace))'
    <2> DEFINE t == lease[w].trace
    <2>0. UNCHANGED <<pc[w], leases[w], lease[w], reason[w]>>
      BY <1>4 DEF Keeps
    <2>1. lease[w] \in leases[w] /\ t \in Traces /\ lease[w].generation \in Nat
      BY <1>2, <1>4, <2>0 DEF WorkerShape
    <2>2. traces'[t].decision = "undecided" /\ traces'[t].owner = OwnerOf[w]
          /\ traces'[t].generation = lease[w].generation
      BY <1>4, <2>0 DEF LeaseValid
    <2>3. Open(t) /\ traces[t].owner = OwnerOf[w]
      BY <2>1, <2>2 DEF Harmless
    <2>4. lease[w].generation <= traces[t].generation
      BY <2>1, <2>3 DEF FreshFor
    <2>5. traces'[t].generation # traces[t].generation + 1
      BY <1>1, <2>1, <2>2, <2>4
    <2>6. traces'[t].generation = traces[t].generation /\ Buffered(t)' = Buffered(t)
      <3>1. Harmless(w, t)
        BY <2>1
      <3> QED
        BY <2>2, <2>5, <3>1 DEF Harmless
    <2>7. LeaseValid(w)
      BY <2>2, <2>3, <2>6 DEF LeaseValid, Open
    <2>8. reason[w] = Decide(t, Buffered(t))
      BY <1>4, <2>0, <2>7 DEF FreshFor
    <2> QED
      BY <2>0, <2>6, <2>8 DEF Decide
  <1> QED
    BY <1>3, <1>4 DEF FreshFor

\* Staging: new spans bump the generation of their trace, a victim is closed,
\* a new row has no owner, and the other traces keep their buffers.
LEMMA StageHarmless ==
    ASSUME TypeOK, NEW u \in Traces, NEW B \in SUBSET {e \in Envelopes : TraceOf[e] = u},
           StageAccepted(u, B), NEW w \in Workers, NEW t \in Traces
    PROVE  Harmless(w, t)
  <1> DEFINE fresh == Fresh(B)
             n == Cardinality(fresh)
  <1> PICK victims \in Victims(u) :
        /\ ~Decided(u)
        /\ traces' = [v \in Traces |->
               IF v = u THEN StagedRow(u, n)
               ELSE IF v \in victims THEN Evicted(v) ELSE traces[v]]
        /\ buffers' = {e \in buffers : TraceOf[e] \notin victims} \cup fresh
    BY DEF StageAccepted
  <1>0. IsFiniteSet(fresh) /\ \A e \in fresh : TraceOf[e] = u
    BY FiniteAssumption, FS_Subset DEF Fresh
  <1>1. NoOwner # OwnerOf[w]
    BY OwnerAssumption DEF Owners
  <1>2. CASE t = u /\ Absent(u)
    BY <1>1, <1>2 DEF Harmless, StagedRow, NewTrace, AbsentTrace
  <1>3. CASE t = u /\ ~Absent(u)
    <2>1. Open(u) /\ traces[u] \in TraceRow
      BY <1>3 DEF Decided, Absent, Open, TypeOK, TraceRow
    <2>2. victims = {}
      BY <1>3 DEF Victims
    <2>3. CASE n = 0
      <3>1. fresh = {}
        BY <1>0, <2>3, FS_EmptySet
      <3>2. traces'[t] = traces[t] /\ buffers' = buffers
        BY <1>3, <2>2, <2>3, <3>1 DEF StagedRow
      <3> QED
        BY <1>3, <2>1, <3>2 DEF Harmless, Buffered
    <2>4. CASE n # 0
      BY <1>3, <2>1, <2>4 DEF Harmless, StagedRow, TraceRow
    <2> QED
      BY <2>3, <2>4
  <1>4. CASE t # u /\ t \in victims
    <2>1. traces'[t] = Evicted(t)
      BY <1>4
    <2>2. traces[t] \in TraceRow
      BY DEF TypeOK
    <2>3. traces'[t].owner = NoOwner
      BY <2>1, <2>2 DEF Evicted, TraceRow
    <2> QED
      BY <1>1, <2>3 DEF Harmless
  <1>5. CASE t # u /\ t \notin victims
    <2>1. traces'[t] = traces[t]
      BY <1>5
    <2>2. Buffered(t)' = Buffered(t)
      BY <1>0, <1>5 DEF Buffered
    <2> QED
      BY <2>1, <2>2 DEF Harmless, Open
  <1> QED
    BY <1>2, <1>3, <1>4, <1>5

\* A step that leaves traces and buffers alone is harmless.
LEMMA SameTables ==
    ASSUME UNCHANGED <<traces, buffers>>, NEW w \in Workers, NEW t \in Traces
    PROVE  Harmless(w, t)
  BY DEF Harmless, Buffered, Open

\* So is one that only changes rows' clock flags.
LEMMA ClockHarmless ==
    ASSUME TypeOK, (\E u \in Traces : QuietElapses(u)) \/ OrphanedLeaseExpires \/ HeldLeaseExpires,
           NEW w \in Workers, NEW t \in Traces
    PROVE  Harmless(w, t)
  <1>1. ASSUME NEW u \in Traces, buffers' = buffers,
               \/ traces' = [traces EXCEPT ![u].quiet = TRUE]
               \/ traces' = [traces EXCEPT ![u].leased = FALSE]
        PROVE  Harmless(w, t)
    <2>1. traces \in [Traces -> TraceRow] /\ traces[t] \in TraceRow
      BY DEF TypeOK
    <2>2. /\ traces'[t].decision = traces[t].decision
          /\ traces'[t].owner = traces[t].owner
          /\ traces'[t].generation = traces[t].generation
      BY <1>1, <2>1 DEF TraceRow
    <2>3. Buffered(t)' = Buffered(t)
      BY <1>1 DEF Buffered
    <2> QED
      BY <2>2, <2>3 DEF Harmless, Open
  <1>2. CASE \E u \in Traces : QuietElapses(u)
    BY <1>1, <1>2 DEF QuietElapses
  <1>3. CASE \E u \in Traces : TraceLeaseExpires(u)
    BY <1>1, <1>3 DEF TraceLeaseExpires
  <1>4. CASE \E k \in Keys : MessageLeaseExpires(k)
    BY <1>4, SameTables DEF MessageLeaseExpires
  <1> QED
    BY <1>2, <1>3, <1>4 DEF OrphanedLeaseExpires, HeldLeaseExpires

\* Retention and deletion remove rows and change no other.
LEMMA RemovalHarmless ==
    ASSUME TypeOK, DeleteTailDataBefore \/ DeleteTenantTailData,
           NEW w \in Workers, NEW t \in Traces
    PROVE  Harmless(w, t)
  <1>1. CASE DeleteTailDataBefore
    BY <1>1 DEF DeleteTailDataBefore, Harmless, AbsentTrace, Buffered, Open
  <1>2. CASE DeleteTraces
    BY <1>2 DEF DeleteTraces, Harmless, AbsentTrace
  <1>3. CASE UNCHANGED <<traces, buffers>>
    BY <1>3, SameTables
  <1> QED
    BY <1>1, <1>2, <1>3 DEF DeleteTenantTailData, DeleteOutbox, DeleteEventKeys,
                            DeleteDecisions, DeleteRollback, tables

\* A decision closes its own trace and leaves the others' buffers alone.
LEMMA RecordHarmless ==
    ASSUME TypeOK, WorkerShape, NEW v \in Workers, RecordTailDecision(v),
           NEW w \in Workers, NEW t \in Traces
    PROVE  Harmless(w, t)
  <1> DEFINE u == lease[v].trace
  <1>1. pc[v] = "record"
    BY DEF RecordTailDecision
  <1>2. lease[v] \in Lease /\ reason[v] \in TailerReasons
    BY <1>1 DEF WorkerShape, TypeOK
  <1>3. u \in Traces /\ reason[v] # "undecided"
    BY <1>2 DEF Lease, TailerReasons, RetainedReasons
  <1>4. /\ traces' = [traces EXCEPT ![u] =
              [@ EXCEPT !.decision = reason[v], !.owner = NoOwner, !.leased = FALSE,
                        !.spanCount = Cardinality(Buffered(u))]]
        /\ buffers' = buffers \ Buffered(u)
    BY DEF RecordTailDecision
  <1>5. CASE t = u
    BY <1>3, <1>4, <1>5 DEF Harmless, TypeOK, TraceRow
  <1>6. CASE t # u
    BY <1>3, <1>4, <1>6 DEF Harmless, Buffered, Open, TypeOK
  <1> QED
    BY <1>5, <1>6

\* A claim gives the claimed traces to v, so it is harmless to anyone else.
LEMMA ClaimHarmless ==
    ASSUME TypeOK, OwnersDistinct, NEW v \in Workers, ClaimTailTraces(v),
           NEW w \in Workers \ {v}, NEW t \in Traces
    PROVE  Harmless(w, t)
  <1>1. PICK S \in SUBSET Claimable :
          traces' = [u \in Traces |->
              IF u \in S THEN [traces[u] EXCEPT !.owner = OwnerOf[v], !.leased = TRUE]
              ELSE traces[u]]
    BY DEF ClaimTailTraces
  <1>2. OwnerOf[v] # OwnerOf[w]
    BY DEF OwnersDistinct
  <1>3. CASE t \in S
    <2>1. traces[t] \in TraceRow
      BY DEF TypeOK
    <2>2. traces'[t].owner = OwnerOf[v]
      BY <1>1, <1>3, <2>1 DEF TraceRow
    <2> QED
      BY <1>2, <2>2 DEF Harmless
  <1>4. CASE t \notin S
    BY <1>1, <1>4 DEF Harmless, Open, Buffered, ClaimTailTraces
  <1> QED
    BY <1>3, <1>4

\* The claiming tailer itself starts from the generations it read.
LEMMA ClaimFresh ==
    ASSUME TypeOK, NEW w \in Workers, ClaimTailTraces(w)
    PROVE  FreshFor(w)'
  <1>1. PICK S \in SUBSET Claimable :
          /\ traces' = [t \in Traces |->
               IF t \in S THEN [traces[t] EXCEPT !.owner = OwnerOf[w], !.leased = TRUE]
               ELSE traces[t]]
          /\ leases' = [leases EXCEPT ![w] =
               {[trace |-> t, generation |-> traces[t].generation] : t \in S}]
          /\ pc' = [pc EXCEPT ![w] = "trace"]
    BY DEF ClaimTailTraces, Goto
  <1>2. pc'[w] # "record"
    BY <1>1 DEF TypeOK
  <1>3. ASSUME NEW l \in leases'[w]
        PROVE  l.generation <= traces'[l.trace].generation
    <2>1. PICK t \in S : l = [trace |-> t, generation |-> traces[t].generation]
      BY <1>1 DEF TypeOK
    <2>2. t \in Traces /\ traces[t].generation \in Nat
      BY DEF Claimable, TypeOK, TraceRow
    <2>3. traces'[t].generation = traces[t].generation
      BY <1>1, <2>2 DEF TypeOK, TraceRow
    <2> QED
      BY <2>1, <2>2, <2>3
  <1> QED
    BY <1>2, <1>3 DEF FreshFor

\* Loading computes the decision from what is buffered at that moment.
LEMMA LoadFresh ==
    ASSUME TypeOK, NEW w \in Workers, FreshFor(w), LoadTailTrace(w)
    PROVE  FreshFor(w)'
  <1>1. /\ UNCHANGED <<traces, buffers, leases>>
        /\ reason'[w] = Decide(lease'[w].trace, Buffered(lease'[w].trace))
    BY DEF LoadTailTrace, TypeOK, tables
  <1> QED
    BY <1>1 DEF FreshFor, Open, Decide, Buffered

\* Every step keeps every tailer's leases fresh, if owner names differ.
LEMMA FreshStep ==
    ASSUME LeaseInv, OwnersDistinct, [Next]_vars, NEW w \in Workers
    PROVE  FreshFor(w)'
  <1>0. TypeOK /\ WorkerShape /\ FreshFor(w)
    BY DEF LeaseInv, GenerationBound, LeaseFresh, FreshFor
  <1>1. ASSUME UNCHANGED workers, \A t \in Traces : Harmless(w, t)
        PROVE  FreshFor(w)'
    BY <1>0, <1>1, HarmlessFresh DEF workers, Keeps
  <1>2. ASSUME NEW v \in Workers, Exit(v), UNCHANGED <<traces, buffers>>
        PROVE  FreshFor(w)'
    BY <1>0, <1>2, HarmlessFresh, SameTables DEF Exit, Goto, Keeps, TypeOK
  <1>3. ASSUME NEW v \in Workers, Process(v) PROVE FreshFor(w)'
    <2>1. CASE ClaimTailTraces(v)
      <3>1. CASE w = v
        BY <1>0, <2>1, <3>1, ClaimFresh
      <3>2. CASE w # v
        BY <1>0, <2>1, <3>2, ClaimHarmless, HarmlessFresh
        DEF Keeps, ClaimTailTraces, Goto, TypeOK
      <3> QED BY <3>1, <3>2
    <2>2. CASE LoadTailTrace(v)
      <3>1. CASE w = v
        BY <1>0, <2>2, <3>1, LoadFresh
      <3>2. CASE w # v
        BY <1>0, <2>2, <3>2, SameTables, HarmlessFresh
        DEF Keeps, LoadTailTrace, Goto, TypeOK, tables
      <3> QED BY <3>1, <3>2
    <2>3. CASE RecordTailDecision(v) \/ SkipTailDecision(v)
      <3>1. Keeps(w)
        <4>1. NextLease(v)
          BY <2>3 DEF RecordTailDecision, SkipTailDecision
        <4>2. CASE w = v
          BY <1>0, <4>1, <4>2 DEF Keeps, NextLease, Goto, TypeOK
        <4>3. CASE w # v
          BY <1>0, <4>1, <4>3 DEF Keeps, NextLease, Goto, TypeOK
        <4> QED BY <4>2, <4>3
      <3>2. \A t \in Traces : Harmless(w, t)
        BY <1>0, <2>3, RecordHarmless, SameTables DEF SkipTailDecision, tables
      <3> QED BY <1>0, <3>1, <3>2, HarmlessFresh
    <2>4. CASE FailTailDecision(v) \/ OutboxLeaseLost(v)
      BY <1>2, <2>4 DEF FailTailDecision, OutboxLeaseLost, tables
    <2>5. CASE ClaimTailOutbox(v) \/ Publish(v) \/ MarkTailOutboxPublished(v)
      <3>1. Keeps(w)
        BY <1>0, <2>5 DEF Keeps, ClaimTailOutbox, Publish, MarkTailOutboxPublished,
                          Goto, TypeOK
      <3>2. UNCHANGED <<traces, buffers>>
        BY <2>5 DEF ClaimTailOutbox, Publish, MarkTailOutboxPublished, tables
      <3> QED BY <1>0, <3>1, <3>2, SameTables, HarmlessFresh
    <2> QED
      BY <1>3, <2>1, <2>2, <2>3, <2>4, <2>5 DEF Process
  <1>4. ASSUME NEW v \in Workers, PublishFails(v) \/ Crash(v) \/ Restart(v)
        PROVE  FreshFor(w)'
    <2>1. CASE PublishFails(v) \/ Crash(v)
      BY <1>2, <2>1 DEF PublishFails, Crash, tables
    <2>2. CASE Restart(v)
      BY <1>0, <2>2, SameTables, HarmlessFresh DEF Restart, Keeps, Goto, TypeOK, tables
    <2> QED
      BY <1>4, <2>1, <2>2
  <1>5. CASE Stage
    <2>1. ASSUME NEW t \in Traces, NEW B \in SUBSET {e \in Envelopes : TraceOf[e] = t},
                 StageAccepted(t, B)
          PROVE  FreshFor(w)'
      BY <1>0, <1>1, <2>1, StageHarmless DEF StageAccepted, notStaging
    <2>2. ASSUME NEW t \in Traces, NEW B \in SUBSET Envelopes,
                 StageDuplicate(t, B)
          PROVE  FreshFor(w)'
      BY <1>1, <2>2, SameTables DEF StageDuplicate, notStaging, tables
    <2> QED
      BY <1>5, <2>1, <2>2 DEF Stage
  <1>6. CASE (\E t \in Traces : QuietElapses(t)) \/ OrphanedLeaseExpires \/ HeldLeaseExpires
    <2>1. UNCHANGED workers
      BY <1>6 DEF QuietElapses, OrphanedLeaseExpires, HeldLeaseExpires,
                  TraceLeaseExpires, MessageLeaseExpires
    <2> QED
      BY <1>0, <1>1, <1>6, <2>1, ClockHarmless
  <1>7. CASE DeleteTailDataBefore \/ DeleteTenantTailData
    <2>1. UNCHANGED workers
      BY <1>7 DEF DeleteTailDataBefore, DeleteTenantTailData, DeleteOutbox, DeleteEventKeys,
                  DeleteDecisions, DeleteTraces, DeleteRollback, notDeleting
    <2> QED
      BY <1>0, <1>1, <1>7, <2>1, RemovalHarmless
  <1>8. CASE UNCHANGED vars
    BY <1>1, <1>8, SameTables DEF vars, tables
  <1> QED
    BY <1>3, <1>4, <1>5, <1>6, <1>7, <1>8 DEF Next

\* The inductive invariant holds initially.
LEMMA LeaseInvInit == Init => LeaseInv
  BY TypeInit DEF Init, LeaseInv, WorkerShape, GenerationBound, LeaseFresh, TypeOK

\* And every step keeps it.
LEMMA LeaseInvStep ==
    ASSUME OwnersDistinct PROVE LeaseInv /\ [Next]_vars => LeaseInv'
  <1> SUFFICES ASSUME LeaseInv, [Next]_vars PROVE LeaseInv'
    OBVIOUS
  <1>1. TypeOK' /\ WorkerShape'
    BY TypeStep, ShapeStep DEF LeaseInv
  <1>2. \A w \in Workers : FreshFor(w)'
    BY FreshStep
  <1>3. GenerationBound' /\ LeaseFresh'
    BY <1>2 DEF FreshFor, GenerationBound, LeaseFresh, Open
  <1> QED
    BY <1>1, <1>3 DEF LeaseInv

\* Every variable keeps its type in every behaviour, whatever the owner names,
\* and tailers hold leases and messages only at the steps that use them.
THEOREM TypeCorrect == Spec => [](TypeOK /\ WorkerShape)
  <1>1. Init => TypeOK /\ WorkerShape
    BY TypeInit DEF Init, WorkerShape, TypeOK
  <1>2. TypeOK /\ WorkerShape /\ [Next]_vars => TypeOK' /\ WorkerShape'
    BY TypeStep, ShapeStep
  <1> QED
    BY <1>1, <1>2, PTL DEF Spec

\* LeaseInv is an invariant of every behaviour when owner names are distinct.
THEOREM LeaseInvariant == ASSUME OwnersDistinct PROVE Spec => []LeaseInv
  BY LeaseInvInit, LeaseInvStep, PTL DEF Spec

\* So is LeaseFresh: RecordTailDecision never accepts a stale decision.
THEOREM LeasesStayFresh == ASSUME OwnersDistinct PROVE Spec => []LeaseFresh
  <1>1. LeaseInv => LeaseFresh
    BY DEF LeaseInv
  <1> QED
    BY <1>1, LeaseInvariant, PTL

-----------------------------------------------------------------------------
(* TailDecisionExact.                                                      *)

\* No step but RecordTailDecision gives an undecided trace a tailer's reason.
LEMMA OnlyRecordDecides ==
    ASSUME TypeOK, NEW t \in Traces, Open(t), Next,
           traces'[t].decision \in TailerReasons
    PROVE  \E w \in Workers : RecordTailDecision(w)
  <1>1. "undecided" \notin TailerReasons /\ "evicted_pressure" \notin TailerReasons
        /\ "absent" \notin TailerReasons
    BY DEF TailerReasons, RetainedReasons
  <1>2. traces[t] \in TraceRow /\ traces[t].decision = "undecided"
    BY DEF TypeOK, Open
  <1>3. traces'[t].decision # traces[t].decision
    BY <1>1, <1>2
  <1>4. ~Stage
    <2>1. ASSUME NEW u \in Traces, NEW B \in SUBSET Envelopes, StageAccepted(u, B)
          PROVE  FALSE
      <3>1. StagedRow(t, Cardinality(Fresh(B))).decision = "undecided"
        BY <1>2 DEF StagedRow, Absent, TraceRow
      <3>2. Evicted(t).decision = "evicted_pressure"
        BY <1>2 DEF Evicted, TraceRow
      <3>3. traces'[t] \in {StagedRow(t, Cardinality(Fresh(B))), Evicted(t), traces[t]}
        BY <2>1 DEF StageAccepted
      <3> QED
        BY <1>1, <1>2, <3>1, <3>2, <3>3
    <2> QED
      BY <1>3, <2>1 DEF Stage, StageDuplicate, tables
  <1>5. ASSUME NEW w \in Workers, ClaimTailTraces(w) PROVE FALSE
    <2>1. [traces[t] EXCEPT !.owner = OwnerOf[w], !.leased = TRUE].decision
              = traces[t].decision
      BY <1>2 DEF TraceRow
    <2>2. traces'[t] \in
            {[traces[t] EXCEPT !.owner = OwnerOf[w], !.leased = TRUE], traces[t]}
      BY <1>5 DEF ClaimTailTraces
    <2> QED
      BY <1>3, <2>1, <2>2
  <1>6. ~\E w \in Workers :
            \/ LoadTailTrace(w) \/ SkipTailDecision(w) \/ FailTailDecision(w)
            \/ ClaimTailOutbox(w) \/ Publish(w) \/ MarkTailOutboxPublished(w)
            \/ OutboxLeaseLost(w) \/ PublishFails(w) \/ Crash(w) \/ Restart(w)
    BY <1>3 DEF LoadTailTrace, SkipTailDecision, FailTailDecision, ClaimTailOutbox,
                Publish, MarkTailOutboxPublished, OutboxLeaseLost, PublishFails,
                Crash, Restart, tables
  <1>7. ~((\E u \in Traces : QuietElapses(u)) \/ OrphanedLeaseExpires \/ HeldLeaseExpires)
    BY <1>2, <1>3 DEF QuietElapses, OrphanedLeaseExpires, HeldLeaseExpires,
                      TraceLeaseExpires, MessageLeaseExpires, TypeOK, TraceRow
  <1>8. ~(DeleteTailDataBefore \/ DeleteTenantTailData)
    <2>1. AbsentTrace.decision = "absent"
      BY DEF AbsentTrace
    <2>2. DeleteTailDataBefore \/ DeleteTraces => traces'[t] \in {AbsentTrace, traces[t]}
      BY DEF DeleteTailDataBefore, DeleteTraces
    <2>3. ~(DeleteTailDataBefore \/ DeleteTraces)
      BY <1>1, <1>3, <2>1, <2>2
    <2> QED
      BY <1>3, <2>3 DEF DeleteTenantTailData, DeleteOutbox, DeleteEventKeys,
                        DeleteDecisions, DeleteRollback, tables
  <1> QED
    BY <1>4, <1>5, <1>6, <1>7, <1>8 DEF Next, Process

\* That step decides what the buffered spans call for and keeps them all.
LEMMA RecordExact ==
    ASSUME LeaseInv, NEW w \in Workers, RecordTailDecision(w),
           NEW t \in Traces, Open(t), traces'[t].decision \in TailerReasons
    PROVE  /\ traces'[t].decision = Decide(t, Buffered(t))
           /\ traces'[t].decision \in RetainedReasons =>
                  \A e \in Buffered(t) : outbox'[KeyOf[e]].state # "absent"
  <1>1. TypeOK /\ pc[w] = "record" /\ LeaseValid(w)
    BY DEF LeaseInv, RecordTailDecision
  <1>2. t = lease[w].trace
    BY <1>1 DEF RecordTailDecision, Open, TypeOK, TailerReasons, RetainedReasons
  <1>3. traces'[t].decision = reason[w]
    <2>1. traces \in [Traces -> TraceRow] /\ traces[t] \in TraceRow
      BY <1>1 DEF TypeOK
    <2> QED
      BY <1>2, <2>1 DEF RecordTailDecision, TraceRow
  <1>4. reason[w] = Decide(t, Buffered(t))
    BY <1>1, <1>2 DEF LeaseInv, LeaseFresh
  <1>5. ASSUME reason[w] \in RetainedReasons, NEW e \in Buffered(t)
        PROVE  outbox'[KeyOf[e]].state # "absent"
    <2>1. KeyOf[e] \in Keys /\ KeyOf[e] \in KeysOf(Kept(w))
      BY <1>1, <1>2, <1>5, EventAssumption DEF Kept, KeysOf, Buffered, TypeOK
    <2>2. outbox'[KeyOf[e]] =
            IF outbox[KeyOf[e]].state = "absent"
            THEN [NoMessage EXCEPT !.state = "pending",
                                   !.envelope = {f \in Kept(w) : KeyOf[f] = KeyOf[e]}]
            ELSE outbox[KeyOf[e]]
      BY <2>1 DEF RecordTailDecision
    <2> QED
      BY <2>2 DEF NoMessage
  <1> QED
    BY <1>3, <1>4, <1>5

\* A tailer decides every trace by exactly the spans it has at that moment, and
\* hands every span of a retained trace to the outbox.
THEOREM DecisionsAreExact == ASSUME OwnersDistinct PROVE Spec => TailDecisionExact
  <1>1. LeaseInv /\ [Next]_vars => [DecisionExact]_vars
    <2> SUFFICES ASSUME LeaseInv, Next PROVE DecisionExact
      OBVIOUS
    <2> QED
      BY OnlyRecordDecides, RecordExact DEF DecisionExact, LeaseInv
  <1> QED
    BY <1>1, LeaseInvariant, PTL DEF Spec, TailDecisionExact

-----------------------------------------------------------------------------
(* PublishedInTopic.                                                       *)

\* What a step does to an outbox row at most, short of publishing: nothing that
\* matters, or removing it.
Weakens(k) ==
    \/ outbox'[k].state = "absent"
    \/ /\ outbox'[k].state = outbox[k].state
       /\ outbox'[k].envelope = outbox[k].envelope
       /\ outbox'[k].owner = outbox[k].owner

\* And to the messages a tailer holds: it claims none and publishes none.
Forgets(w) ==
    /\ messages'[w] \subseteq messages[w]
    /\ pc'[w] = "mark" => pc[w] = "mark" /\ message'[w] = message[w]

\* Steps that only weaken and forget keep the invariant.
LEMMA WeakerPublish ==
    ASSUME PublishInv, TypeOK', WorkerShape', UniqueBuffers', topic \subseteq topic',
           \A k \in Keys : Weakens(k), \A w \in Workers : Forgets(w)
    PROVE  PublishInv'
  <1>1. OutboxEnvelope'
    BY DEF PublishInv, OutboxEnvelope, Weakens
  <1>2. ClaimedMessage'
    <2> SUFFICES ASSUME NEW w \in Workers, NEW m \in messages'[w], HoldsMessage(w, KeyOf[m])'
                 PROVE  outbox'[KeyOf[m]].envelope = {m}
      BY DEF ClaimedMessage
    <2>1. m \in messages[w]
      BY DEF Forgets
    <2>2. KeyOf[m] \in Keys
      BY <2>1, EventAssumption DEF PublishInv, TypeOK
    <2>3. HoldsMessage(w, KeyOf[m]) /\ outbox'[KeyOf[m]].envelope = outbox[KeyOf[m]].envelope
      BY <2>2 DEF HoldsMessage, Weakens
    <2> QED
      BY <2>1, <2>3 DEF PublishInv, ClaimedMessage
  <1>3. MarkAfterPublish'
    BY DEF PublishInv, MarkAfterPublish, Forgets
  <1>4. PublishedInTopic'
    BY DEF PublishInv, PublishedInTopic, Weakens
  <1> QED
    BY <1>1, <1>2, <1>3, <1>4 DEF PublishInv

\* A request never buffers two events of one key.
LEMMA StageUnique ==
    ASSUME UniqueBuffers, Stage PROVE UniqueBuffers'
  <1>1. ASSUME NEW t \in Traces, NEW B \in SUBSET Envelopes, StageAccepted(t, B)
        PROVE  UniqueBuffers'
    <2> PICK victims \in Victims(t) :
          /\ BufferKeysFree(Fresh(B), {e \in buffers : TraceOf[e] \notin victims})
          /\ buffers' = {e \in buffers : TraceOf[e] \notin victims} \cup Fresh(B)
      BY <1>1 DEF StageAccepted
    <2> QED
      BY DEF UniqueBuffers, BufferKeysFree, KeysOf
  <1> QED
    BY <1>1 DEF Stage, StageDuplicate, UniqueBuffers, tables

\* A decision turns buffered envelopes into rows of one envelope and no owner.
LEMMA RecordPublish ==
    ASSUME PublishInv, NEW w \in Workers, RecordTailDecision(w), TypeOK', WorkerShape'
    PROVE  PublishInv'
  <1>1. ASSUME NEW k \in Keys
        PROVE  \/ outbox'[k] = outbox[k]
               \/ /\ outbox'[k].state = "pending" /\ outbox'[k].owner = NoOwner
                  /\ \E e \in Envelopes : outbox'[k].envelope = {e} /\ KeyOf[e] = k
    <2>1. CASE k \in KeysOf(Kept(w)) /\ outbox[k].state = "absent"
      <3>1. outbox'[k] = [NoMessage EXCEPT !.state = "pending",
                                           !.envelope = {e \in Kept(w) : KeyOf[e] = k}]
        BY <2>1 DEF RecordTailDecision
      <3>2. PICK e \in Kept(w) : KeyOf[e] = k
        BY <2>1 DEF KeysOf
      <3>3. Kept(w) \subseteq buffers /\ buffers \subseteq Envelopes
        BY DEF Kept, Buffered, PublishInv, TypeOK
      <3>4. {f \in Kept(w) : KeyOf[f] = k} = {e}
        BY <3>2, <3>3 DEF PublishInv, UniqueBuffers
      <3> QED
        BY <3>1, <3>2, <3>3, <3>4 DEF NoMessage
    <2>2. CASE ~(k \in KeysOf(Kept(w)) /\ outbox[k].state = "absent")
      BY <2>2 DEF RecordTailDecision
    <2> QED
      BY <2>1, <2>2
  <1>2. UNCHANGED <<topic, messages, message>> /\ buffers' \subseteq buffers
    BY DEF RecordTailDecision
  <1>3. \A v \in Workers : pc'[v] = "mark" => pc[v] = "mark"
    BY DEF RecordTailDecision, NextLease, Goto, PublishInv, TypeOK
  <1>4. UniqueBuffers'
    BY <1>2 DEF PublishInv, UniqueBuffers
  <1>5. OutboxEnvelope'
    BY <1>1 DEF PublishInv, OutboxEnvelope
  <1>6. ClaimedMessage'
    <2>1. \A v \in Workers : OwnerOf[v] # NoOwner
      BY OwnerAssumption DEF Owners
    <2>2. \A v \in Workers : \A m \in messages[v] : KeyOf[m] \in Keys
      BY EventAssumption DEF PublishInv, TypeOK
    <2> QED
      BY <1>1, <1>2, <2>1, <2>2 DEF PublishInv, ClaimedMessage, HoldsMessage
  <1>7. MarkAfterPublish'
    BY <1>2, <1>3 DEF PublishInv, MarkAfterPublish
  <1>8. PublishedInTopic'
    BY <1>1, <1>2 DEF PublishInv, PublishedInTopic
  <1> QED
    BY <1>4, <1>5, <1>6, <1>7, <1>8 DEF PublishInv

\* A claim takes the envelopes the claimed rows hold; only that tailer owns them.
LEMMA ClaimPublish ==
    ASSUME PublishInv, OwnersDistinct, NEW w \in Workers, ClaimTailOutbox(w),
           TypeOK', WorkerShape'
    PROVE  PublishInv'
  <1>1. PICK S \in SUBSET Deliverable :
          /\ outbox' = [k \in Keys |->
               IF k \in S THEN [outbox[k] EXCEPT !.owner = OwnerOf[w], !.leased = TRUE]
               ELSE outbox[k]]
          /\ messages' = [messages EXCEPT ![w] = UNION {outbox[k].envelope : k \in S}]
          /\ pc' = [pc EXCEPT ![w] = IF S = {} THEN "idle" ELSE "publish"]
    BY DEF ClaimTailOutbox, Goto
  <1>2. S \subseteq Keys
    BY DEF Deliverable
  <1>3. \A k \in Keys :
          /\ outbox'[k].state = outbox[k].state
          /\ outbox'[k].envelope = outbox[k].envelope
          /\ k \in S => outbox'[k].owner = OwnerOf[w]
          /\ k \notin S => outbox'[k].owner = outbox[k].owner
    <2> SUFFICES ASSUME NEW k \in Keys
                 PROVE  /\ outbox'[k].state = outbox[k].state
                        /\ outbox'[k].envelope = outbox[k].envelope
                        /\ k \in S => outbox'[k].owner = OwnerOf[w]
                        /\ k \notin S => outbox'[k].owner = outbox[k].owner
      OBVIOUS
    <2>1. outbox[k] \in OutboxRow
      BY DEF PublishInv, TypeOK
    <2>2. CASE k \in S
      <3>1. outbox'[k] = [outbox[k] EXCEPT !.owner = OwnerOf[w], !.leased = TRUE]
        BY <1>1, <2>2
      <3> QED
        BY <2>1, <2>2, <3>1 DEF OutboxRow
    <2>3. CASE k \notin S
      BY <1>1, <2>3
    <2> QED
      BY <2>2, <2>3
  <1>4. UniqueBuffers' /\ UNCHANGED <<buffers, topic, message>>
    BY DEF ClaimTailOutbox, PublishInv, UniqueBuffers
  <1>5. OutboxEnvelope'
    BY <1>3 DEF PublishInv, OutboxEnvelope
  <1>6. ClaimedMessage'
    <2> SUFFICES ASSUME NEW v \in Workers, NEW m \in messages'[v], HoldsMessage(v, KeyOf[m])'
                 PROVE  outbox'[KeyOf[m]].envelope = {m}
      BY DEF ClaimedMessage
    <2>1. CASE v = w
      <3>0. m \in UNION {outbox[k].envelope : k \in S}
        BY <1>1, <2>1 DEF PublishInv, TypeOK
      <3>1. PICK k \in S : m \in outbox[k].envelope
        BY <3>0
      <3>2. outbox[k].state = "pending"
        BY DEF Deliverable
      <3>3. KeyOf[m] = k /\ outbox[k].envelope = {m}
        BY <1>2, <3>1, <3>2 DEF PublishInv, OutboxEnvelope
      <3> QED
        BY <1>2, <1>3, <3>3
    <2>2. CASE v # w
      <3>1. m \in messages[v] /\ KeyOf[m] \in Keys
        BY <1>1, <2>2, EventAssumption DEF PublishInv, TypeOK
      <3>2. OwnerOf[v] # OwnerOf[w]
        BY <2>2 DEF OwnersDistinct
      <3>3. KeyOf[m] \notin S
        BY <1>3, <3>1, <3>2 DEF HoldsMessage
      <3>4. HoldsMessage(v, KeyOf[m])
        BY <1>3, <3>1, <3>3 DEF HoldsMessage
      <3> QED
        BY <1>3, <3>1, <3>4 DEF PublishInv, ClaimedMessage
    <2> QED
      BY <2>1, <2>2
  <1>7. MarkAfterPublish'
    BY <1>1, <1>4 DEF PublishInv, MarkAfterPublish, TypeOK
  <1>8. PublishedInTopic'
    BY <1>3, <1>4 DEF PublishInv, PublishedInTopic
  <1> QED
    BY <1>4, <1>5, <1>6, <1>7, <1>8 DEF PublishInv

\* A publish puts the message in the topic before the tailer may mark it.
LEMMA PublishPublish ==
    ASSUME PublishInv, NEW w \in Workers, Publish(w), TypeOK', WorkerShape'
    PROVE  PublishInv'
  <1>1. PICK e \in messages[w] :
          /\ topic' = topic \cup {e}
          /\ message' = [message EXCEPT ![w] = {e}]
          /\ pc' = [pc EXCEPT ![w] = "mark"]
          /\ UNCHANGED <<buffers, outbox, messages>>
    BY DEF Publish, Goto, tables
  <1>2. UniqueBuffers' /\ OutboxEnvelope' /\ PublishedInTopic'
    BY <1>1 DEF PublishInv, UniqueBuffers, OutboxEnvelope, PublishedInTopic
  <1>3. ClaimedMessage'
    BY <1>1 DEF PublishInv, ClaimedMessage, HoldsMessage
  <1>4. MarkAfterPublish'
    BY <1>1 DEF PublishInv, MarkAfterPublish, TypeOK
  <1> QED
    BY <1>2, <1>3, <1>4 DEF PublishInv

\* A mark publishes a row whose one envelope is the published message.
LEMMA MarkPublish ==
    ASSUME PublishInv, NEW w \in Workers, MarkTailOutboxPublished(w),
           TypeOK', WorkerShape'
    PROVE  PublishInv'
  <1>1. PICK e \in message[w] :
          /\ HoldsMessage(w, KeyOf[e])
          /\ outbox' = [outbox EXCEPT ![KeyOf[e]] =
                [@ EXCEPT !.state = "published", !.owner = NoOwner, !.leased = FALSE]]
          /\ messages' = [messages EXCEPT ![w] = @ \ {e}]
          /\ message' = [message EXCEPT ![w] = {}]
          /\ pc' = [pc EXCEPT ![w] = IF messages[w] = {e} THEN "idle" ELSE "publish"]
    BY DEF MarkTailOutboxPublished, Goto
  <1>2. UNCHANGED <<buffers, topic>> /\ pc[w] = "mark"
    BY DEF MarkTailOutboxPublished
  <1>3. e \in messages[w] /\ e \in topic /\ KeyOf[e] \in Keys
    BY <1>1, <1>2, EventAssumption
    DEF PublishInv, WorkerShape, MarkAfterPublish, TypeOK
  <1>4. outbox[KeyOf[e]].envelope = {e}
    BY <1>1, <1>3 DEF PublishInv, ClaimedMessage
  <1>5. \A k \in Keys :
          /\ outbox'[k].envelope = outbox[k].envelope
          /\ k # KeyOf[e] => outbox'[k] = outbox[k]
    BY <1>1, <1>3 DEF PublishInv, TypeOK, OutboxRow
  <1>6. outbox'[KeyOf[e]].state = "published" /\ outbox[KeyOf[e]].state = "pending"
    BY <1>1, <1>3 DEF PublishInv, TypeOK, OutboxRow, HoldsMessage
  <1>7. UniqueBuffers'
    BY <1>2 DEF PublishInv, UniqueBuffers
  <1>8. OutboxEnvelope'
    BY <1>5, <1>6 DEF PublishInv, OutboxEnvelope
  <1>9. ClaimedMessage'
    <2>1. \A v \in Workers : messages'[v] \subseteq messages[v]
      BY <1>1 DEF PublishInv, TypeOK
    <2>2. \A v \in Workers : \A m \in messages[v] : KeyOf[m] \in Keys
      BY EventAssumption DEF PublishInv, TypeOK
    <2> QED
      BY <1>5, <1>6, <2>1, <2>2 DEF PublishInv, ClaimedMessage, HoldsMessage
  <1>10. MarkAfterPublish'
    BY <1>1, <1>2 DEF PublishInv, MarkAfterPublish, TypeOK
  <1>11. PublishedInTopic'
    BY <1>2, <1>3, <1>4, <1>5 DEF PublishInv, PublishedInTopic
  <1> QED
    BY <1>7, <1>8, <1>9, <1>10, <1>11 DEF PublishInv

\* Every step keeps the invariant when owner names are distinct.
LEMMA PublishInvStep ==
    ASSUME OwnersDistinct PROVE PublishInv /\ [Next]_vars => PublishInv'
  <1> SUFFICES ASSUME PublishInv, [Next]_vars PROVE PublishInv'
    OBVIOUS
  <1>0. TypeOK /\ WorkerShape /\ TypeOK' /\ WorkerShape'
    BY TypeStep, ShapeStep DEF PublishInv
  <1>1. ASSUME UNCHANGED <<buffers, outbox>>, topic \subseteq topic',
               \A w \in Workers : Forgets(w)
        PROVE  PublishInv'
    BY <1>0, <1>1, WeakerPublish DEF PublishInv, UniqueBuffers, Weakens
  <1>2. ASSUME NEW w \in Workers, Exit(w), UNCHANGED <<buffers, outbox>>,
               topic \subseteq topic'
        PROVE  PublishInv'
    <2>1. \A v \in Workers : Forgets(v)
      BY <1>0, <1>2 DEF Exit, Goto, Forgets, TypeOK
    <2> QED
      BY <1>1, <1>2, <2>1
  <1>3. ASSUME NEW w \in Workers, Process(w) PROVE PublishInv'
    <2>1. CASE ClaimTailTraces(w) \/ LoadTailTrace(w) \/ SkipTailDecision(w)
      <3>1. \A v \in Workers : Forgets(v)
        BY <1>0, <2>1 DEF ClaimTailTraces, LoadTailTrace, SkipTailDecision, NextLease,
                          Goto, Forgets, TypeOK
      <3> QED
        BY <1>1, <2>1, <3>1 DEF ClaimTailTraces, LoadTailTrace, SkipTailDecision, tables
    <2>2. CASE FailTailDecision(w) \/ OutboxLeaseLost(w)
      BY <1>2, <2>2 DEF FailTailDecision, OutboxLeaseLost, tables
    <2> QED
      BY <1>0, <1>3, <2>1, <2>2, RecordPublish, ClaimPublish, PublishPublish, MarkPublish
      DEF Process
  <1>4. ASSUME NEW w \in Workers, PublishFails(w) \/ Crash(w) \/ Restart(w)
        PROVE  PublishInv'
    <2>1. CASE PublishFails(w) \/ Crash(w)
      BY <1>2, <2>1 DEF PublishFails, Crash, tables
    <2>2. CASE Restart(w)
      <3>1. \A v \in Workers : Forgets(v)
        BY <1>0, <2>2 DEF Restart, Goto, Forgets, TypeOK
      <3> QED
        BY <1>1, <2>2, <3>1 DEF Restart, tables
    <2> QED
      BY <1>4, <2>1, <2>2
  <1>5. ASSUME UNCHANGED <<topic, workers>>, UniqueBuffers', \A k \in Keys : Weakens(k)
        PROVE  PublishInv'
    BY <1>0, <1>5, WeakerPublish DEF Forgets, workers
  <1>6. CASE Stage
    <2>1. UNCHANGED <<topic, workers, outbox>>
      BY <1>6 DEF Stage, StageAccepted, StageDuplicate, notStaging, tables
    <2> QED
      BY <1>5, <1>6, <2>1, StageUnique DEF PublishInv, Weakens
  <1>7. CASE (\E t \in Traces : QuietElapses(t)) \/ OrphanedLeaseExpires \/ HeldLeaseExpires
    <2>1. UNCHANGED <<topic, workers, buffers>>
      BY <1>7 DEF QuietElapses, OrphanedLeaseExpires, HeldLeaseExpires,
                  TraceLeaseExpires, MessageLeaseExpires
    <2>2. \A k \in Keys : Weakens(k)
      BY <1>0, <1>7 DEF QuietElapses, OrphanedLeaseExpires, HeldLeaseExpires,
           TraceLeaseExpires, MessageLeaseExpires, Weakens, TypeOK, OutboxRow
    <2> QED
      BY <1>5, <2>1, <2>2 DEF PublishInv, UniqueBuffers
  <1>8. CASE DeleteTailDataBefore \/ DeleteTenantTailData
    <2>1. UNCHANGED <<topic, workers>> /\ buffers' \subseteq buffers
      BY <1>8 DEF DeleteTailDataBefore, DeleteTenantTailData, DeleteOutbox, DeleteEventKeys,
                  DeleteDecisions, DeleteTraces, DeleteRollback, notDeleting, tables
    <2>2. NoMessage.state = "absent"
      BY DEF NoMessage
    <2>3. \A k \in Keys : Weakens(k)
      BY <1>8, <2>2 DEF DeleteTailDataBefore, DeleteTenantTailData, DeleteOutbox,
           DeleteEventKeys, DeleteDecisions, DeleteTraces, DeleteRollback, tables, Weakens
    <2> QED
      BY <1>5, <2>1, <2>3 DEF PublishInv, UniqueBuffers
  <1>9. CASE UNCHANGED vars
    BY <1>5, <1>9 DEF vars, tables, PublishInv, UniqueBuffers, Weakens
  <1> QED
    BY <1>3, <1>4, <1>6, <1>7, <1>8, <1>9 DEF Next

\* It holds initially: nothing is claimed or published.
LEMMA PublishInit == Init => PublishInv
  <1> SUFFICES ASSUME Init PROVE PublishInv
    OBVIOUS
  <1>1. TypeOK /\ WorkerShape
    BY TypeInit DEF Init, WorkerShape, TypeOK
  <1>2. \A k \in Keys : outbox[k].state = "absent"
    BY DEF Init, NoMessage
  <1>3. UniqueBuffers /\ OutboxEnvelope /\ PublishedInTopic
    BY <1>2 DEF Init, UniqueBuffers, OutboxEnvelope, PublishedInTopic
  <1>4. ClaimedMessage /\ MarkAfterPublish
    BY DEF Init, ClaimedMessage, MarkAfterPublish
  <1> QED
    BY <1>1, <1>3, <1>4 DEF PublishInv

\* StageBatch, RecordTailDecision and the outbox calls: what a tailer holds and
\* marks is what it claimed and published, for every set of tailers with owner
\* names of their own.
THEOREM PublishInvariant == ASSUME OwnersDistinct PROVE Spec => []PublishInv
  BY PublishInit, PublishInvStep, PTL DEF Spec

\* A row marked published has its envelope at the broker, in every behaviour
\* of tailers with owner names of their own: nothing is lost between publish and
\* mark.
THEOREM PublishedAreInTopic == ASSUME OwnersDistinct PROVE Spec => []PublishedInTopic
  <1>1. PublishInv => PublishedInTopic
    BY DEF PublishInv
  <1> QED
    BY <1>1, PublishInvariant, PTL

=============================================================================
