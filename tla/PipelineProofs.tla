--------------------------- MODULE PipelineProofs ---------------------------
(***************************************************************************)
(* Theorems about Pipeline: what becomes of an accepted event on its whole *)
(* way, whatever the tailers, the persistence workers, the retention job   *)
(* and the deletion request do in between.                                 *)
(*                                                                         *)
(* The tail store's invariants carry over, every step of the pipeline but  *)
(* the retention job's failure being a step of TailStore or none.  Those   *)
(* of the persistence workers do not: rows are deleted here.  They hold    *)
(* of the rows there are together with the keys that were erased.          *)
(***************************************************************************)
EXTENDS Pipeline, TailStoreLossProofs

storedOrErased == stored \cup KeysOf(erased)

Group == INSTANCE DeliveryConsumerProofs WITH
    Messages <- Envelopes, KindOf <- [e \in Envelopes |-> "valid"],
    NoMessage <- NoPlace, pc <- cpc, faults <- cfaults, stored <- storedOrErased

\* What DeliveryConsumer assumes of its constants holds of the pipeline's.
LEMMA GroupAssumptions ==
    Group!MessageAssumption /\ Group!ConsumerAssumption /\ Group!ConsumerBounds
  <1>1. Group!Place = Consumer!Place
    BY DEF Group!Place, Consumer!Place
  <1> QED
    BY <1>1, EventAssumption, BoundAssumption, GroupAssumption
    DEF Group!MessageAssumption, Group!ConsumerAssumption, Group!ConsumerBounds, Group!Kinds

-----------------------------------------------------------------------------
(* How events move through the tail store.                                 *)

\* An event is buffered when it is acknowledged, copied from the buffer to the
\* outbox under its own key, claimed from there and published from the claim;
\* its key is recorded when it is acknowledged, for its own trace.
Flow ==
    /\ buffers' \subseteq buffers \cup acked'
    /\ \A k \in Keys :
           outbox'[k].envelope \subseteq outbox[k].envelope \cup {e \in buffers : KeyOf[e] = k}
    /\ \A w \in Workers : \A m \in messages'[w] :
           \/ m \in messages[w]
           \/ \E k \in Keys : outbox[k].state = "pending" /\ m \in outbox[k].envelope
    /\ \A k \in Keys :
           \/ keyTrace'[k] \in {keyTrace[k], NoTrace}
           \/ \E e \in acked' : e \in Envelopes /\ KeyOf[e] = k /\ keyTrace'[k] = TraceOf[e]

\* StageBatch moves the fresh events of a request.
LEMMA StageFlow == ASSUME TypeOK, Stage PROVE Flow
  <1> PICK t \in Traces : \E B \in SUBSET {e \in Envelopes : TraceOf[e] = t} :
        StageAccepted(t, B) \/ StageDuplicate(t, B)
    BY DEF Stage
  <1> PICK B \in SUBSET {e \in Envelopes : TraceOf[e] = t} :
        StageAccepted(t, B) \/ StageDuplicate(t, B)
    OBVIOUS
  <1>1. CASE StageAccepted(t, B)
    <2>1. /\ Fresh(B) \subseteq B
          /\ buffers' \subseteq buffers \cup Fresh(B)
          /\ \A k \in Keys : keyTrace'[k] = IF k \in KeysOf(Fresh(B)) THEN t ELSE keyTrace[k]
          /\ acked' = acked \cup B
          /\ UNCHANGED <<outbox, messages>>
      BY <1>1 DEF StageAccepted, Fresh, notStaging, workers
    <2>2. \A k \in KeysOf(Fresh(B)) : \E e \in acked' :
              e \in Envelopes /\ KeyOf[e] = k /\ TraceOf[e] = t
      BY <2>1 DEF KeysOf
    <2> QED
      BY <2>1, <2>2 DEF Flow
  <1>2. CASE StageDuplicate(t, B)
    BY <1>2 DEF StageDuplicate, Flow, tables, notStaging, workers
  <1> QED
    BY <1>1, <1>2

\* The tailers' calls move them from table to table.
LEMMA ProcessFlow == ASSUME TypeOK, WorkerShape, NEW w \in Workers, Process(w) PROVE Flow
  <1>0. /\ outbox \in [Keys -> OutboxRow] /\ \A k \in Keys : outbox[k] \in OutboxRow
        /\ messages \in [Workers -> SUBSET Envelopes]
    BY DEF TypeOK
  <1>1. CASE ClaimTailTraces(w) \/ LoadTailTrace(w) \/ SkipTailDecision(w)
                \/ FailTailDecision(w) \/ Publish(w) \/ OutboxLeaseLost(w)
    <2>1. UNCHANGED <<buffers, outbox, keyTrace>>
      BY <1>1 DEF ClaimTailTraces, LoadTailTrace, SkipTailDecision, FailTailDecision,
                  Publish, OutboxLeaseLost, tables
    <2>2. \A v \in Workers : messages'[v] \subseteq messages[v]
      BY <1>0, <1>1 DEF ClaimTailTraces, LoadTailTrace, SkipTailDecision, FailTailDecision,
                  Publish, OutboxLeaseLost, Exit
    <2> QED
      BY <2>1, <2>2 DEF Flow
  <1>2. CASE RecordTailDecision(w)
    <2>1. UNCHANGED <<keyTrace, messages>> /\ buffers' \subseteq buffers
      BY <1>2 DEF RecordTailDecision
    <2>2. ASSUME NEW k \in Keys
          PROVE  outbox'[k].envelope \subseteq
                     outbox[k].envelope \cup {e \in buffers : KeyOf[e] = k}
      <3>1. \/ outbox'[k] = outbox[k]
            \/ outbox'[k] = [NoMessage EXCEPT !.state = "pending",
                                              !.envelope = {e \in Kept(w) : KeyOf[e] = k}]
        BY <1>2 DEF RecordTailDecision
      <3>2. Kept(w) \subseteq buffers
        BY DEF Kept, Buffered
      <3>3. [NoMessage EXCEPT !.state = "pending",
                              !.envelope = {e \in Kept(w) : KeyOf[e] = k}].envelope
                = {e \in Kept(w) : KeyOf[e] = k}
        BY DEF NoMessage
      <3> QED
        BY <3>1, <3>2, <3>3
    <2> QED
      BY <2>1, <2>2 DEF Flow
  <1>3. CASE ClaimTailOutbox(w)
    <2> PICK S \in SUBSET Deliverable :
          /\ outbox' = [k \in Keys |->
                 IF k \in S THEN [outbox[k] EXCEPT !.owner = OwnerOf[w], !.leased = TRUE]
                 ELSE outbox[k]]
          /\ messages' = [messages EXCEPT ![w] = UNION {outbox[k].envelope : k \in S}]
      BY <1>3 DEF ClaimTailOutbox
    <2>1. UNCHANGED <<buffers, keyTrace>>
      BY <1>3 DEF ClaimTailOutbox
    <2>2. \A k \in Keys : outbox'[k].envelope = outbox[k].envelope
      BY <1>0 DEF OutboxRow
    <2>3. \A k \in S : k \in Keys /\ outbox[k].state = "pending"
      BY DEF Deliverable
    <2>4. \A v \in Workers : \A m \in messages'[v] :
              \/ m \in messages[v]
              \/ \E k \in Keys : outbox[k].state = "pending" /\ m \in outbox[k].envelope
      BY <1>0, <2>3
    <2> QED
      BY <2>1, <2>2, <2>4 DEF Flow
  <1>4. CASE MarkTailOutboxPublished(w)
    <2> PICK e \in message[w] :
          /\ outbox' = [outbox EXCEPT ![KeyOf[e]] =
                 [@ EXCEPT !.state = "published", !.owner = NoOwner, !.leased = FALSE]]
          /\ messages' = [messages EXCEPT ![w] = @ \ {e}]
      BY <1>4 DEF MarkTailOutboxPublished
    <2>1. UNCHANGED <<buffers, keyTrace>>
      BY <1>4 DEF MarkTailOutboxPublished
    <2>2. \A k \in Keys : outbox'[k].envelope = outbox[k].envelope
      BY <1>0 DEF OutboxRow
    <2>3. \A v \in Workers : messages'[v] \subseteq messages[v]
      BY <1>0
    <2> QED
      BY <2>1, <2>2, <2>3 DEF Flow
  <1> QED
    BY <1>1, <1>2, <1>3, <1>4 DEF Process

\* So does every step.
LEMMA StepFlow == ASSUME TypeOK, WorkerShape, [Next]_vars PROVE Flow
  <1>0. /\ outbox \in [Keys -> OutboxRow] /\ \A k \in Keys : outbox[k] \in OutboxRow
        /\ messages \in [Workers -> SUBSET Envelopes]
    BY DEF TypeOK
  <1>1. ASSUME UNCHANGED <<buffers, outbox, keyTrace>>,
               \A v \in Workers : messages'[v] \subseteq messages[v]
        PROVE  Flow
    BY <1>1 DEF Flow
  <1>2. CASE UNCHANGED vars
    BY <1>1, <1>2 DEF vars, tables, workers
  <1>3. ASSUME NEW w \in Workers, PublishFails(w) \/ Crash(w) \/ Restart(w) PROVE Flow
    <2>1. UNCHANGED <<buffers, outbox, keyTrace>>
      BY <1>3 DEF PublishFails, Crash, Restart, tables
    <2>2. \A v \in Workers : messages'[v] \subseteq messages[v]
      BY <1>0, <1>3 DEF PublishFails, Crash, Restart, Exit
    <2> QED
      BY <1>1, <2>1, <2>2
  <1>4. ASSUME NEW t \in Traces, QuietElapses(t) \/ TraceLeaseExpires(t) PROVE Flow
    BY <1>1, <1>4 DEF QuietElapses, TraceLeaseExpires, workers
  <1>5. ASSUME NEW k \in Keys, MessageLeaseExpires(k) PROVE Flow
    BY <1>0, <1>5 DEF MessageLeaseExpires, Flow, OutboxRow, workers
  <1>6. CASE DeleteTailDataBefore \/ DeleteTenantTailData
    <2>1. /\ buffers' \subseteq buffers /\ UNCHANGED messages
          /\ \A k \in Keys : outbox'[k] \in {outbox[k], NoMessage}
          /\ \A k \in Keys : keyTrace'[k] \in {keyTrace[k], NoTrace}
      BY <1>6 DEF DeleteTailDataBefore, DeleteTenantTailData, DeleteOutbox, DeleteEventKeys,
                  DeleteDecisions, DeleteTraces, DeleteRollback, tables, notDeleting, workers
    <2> QED
      BY <2>1 DEF Flow, NoMessage
  <1> QED
    BY <1>2, <1>3, <1>4, <1>5, <1>6, StageFlow, ProcessFlow
    DEF Next, OrphanedLeaseExpires, HeldLeaseExpires

-----------------------------------------------------------------------------
(* The kinds of steps the pipeline takes.                                  *)

\* A step of the workers is one of Group's: an insert adds the same key to the
\* rows there are and to those with the erased keys.
LEMMA GroupProduce ==
    ASSUME UNCHANGED erased, NEW e \in Envelopes, Consumer!Produce(e)
    PROVE  Group!Produce(e)
  BY DEF Consumer!Produce, Group!Produce, Consumer!bounds, Group!bounds, storedOrErased, KeysOf

\* The group's assignments, likewise.
LEMMA GroupAssign ==
    ASSUME UNCHANGED erased, Consumer!Assign \/ Consumer!Rebalance
    PROVE  Group!Assign \/ Group!Rebalance
  BY DEF Consumer!Assign, Group!Assign, Consumer!Rebalance, Group!Rebalance,
         Consumer!NewGeneration, Group!NewGeneration, Consumer!Running, Group!Running,
         storedOrErased, KeysOf

\* A consumer's exit.
LEMMA GroupExit == ASSUME NEW c, Consumer!Exit(c) PROVE Group!Exit(c)
  BY DEF Consumer!Exit, Group!Exit, Consumer!Goto, Group!Goto

\* The key of the message a consumer holds.
LEMMA GroupKey == ASSUME NEW c PROVE Group!Key(c) = Consumer!Key(c)
  BY DEF Consumer!Key, Group!Key, Consumer!MessageAt, Group!MessageAt

\* And the steps of Consumer.Run, its faults and its restart.
LEMMA GroupRun ==
    ASSUME UNCHANGED erased, NEW c \in Consumers,
           \/ Consumer!FetchMessage(c) \/ Consumer!ClaimDelivery(c)
           \/ Consumer!MarkPersisted(c) \/ Consumer!MarkFails(c)
           \/ Consumer!CommitMessages(c) \/ Consumer!CommitFails(c)
           \/ Consumer!Persist(c) \/ Consumer!PersistFails(c)
           \/ Consumer!Crash(c) \/ Consumer!Restart(c)
    PROVE  Group!Run(c) \/ Group!PersistFails(c) \/ Group!Crash(c) \/ Group!Restart(c)
  <1>0. Group!Key(c) = Consumer!Key(c) /\ (Consumer!Exit(c) => Group!Exit(c))
        /\ (UNCHANGED stored => UNCHANGED storedOrErased)
        /\ (stored' = stored \cup {Consumer!Key(c)} =>
                storedOrErased' = storedOrErased \cup {Consumer!Key(c)})
    BY GroupKey, GroupExit DEF storedOrErased, KeysOf
  <1>1. CASE Consumer!FetchMessage(c)
    BY <1>0, <1>1 DEF Consumer!FetchMessage, Group!FetchMessage, Group!Run,
       Consumer!Goto, Group!Goto, Consumer!bounds, Group!bounds
  <1>2. CASE Consumer!ClaimDelivery(c)
    BY <1>0, <1>2 DEF Consumer!ClaimDelivery, Group!ClaimDelivery, Group!Run,
       Consumer!Goto, Group!Goto, Consumer!broker, Group!broker, Consumer!bounds, Group!bounds
  <1>3. CASE Consumer!MarkPersisted(c)
    BY <1>0, <1>3 DEF Consumer!MarkPersisted, Group!MarkPersisted, Group!Run,
       Consumer!Goto, Group!Goto, Consumer!broker, Group!broker, Consumer!bounds, Group!bounds
  <1>4. CASE Consumer!MarkFails(c)
    BY <1>0, <1>4 DEF Consumer!MarkFails, Group!MarkFails, Group!Run,
       Consumer!bounds, Group!bounds
  <1>5. CASE Consumer!CommitMessages(c)
    BY <1>0, <1>5 DEF Consumer!CommitMessages, Group!CommitMessages, Group!Run,
       Consumer!Goto, Group!Goto, Consumer!bounds, Group!bounds
  <1>6. CASE Consumer!CommitFails(c)
    BY <1>0, <1>6 DEF Consumer!CommitFails, Group!CommitFails, Group!Run,
       Consumer!bounds, Group!bounds
  <1>7. CASE Consumer!Persist(c)
    BY <1>0, <1>7 DEF Consumer!Persist, Group!Persist, Group!Run,
       Consumer!Goto, Group!Goto, Consumer!broker, Group!broker, Consumer!bounds, Group!bounds
  <1>8. CASE Consumer!PersistFails(c)
    <2>1. storedOrErased' \in {storedOrErased, storedOrErased \cup {Group!Key(c)}}
      BY <1>0, <1>8 DEF Consumer!PersistFails
    <2> QED
      BY <1>0, <1>8, <2>1 DEF Consumer!PersistFails, Group!PersistFails
  <1>9. CASE Consumer!Crash(c)
    BY <1>0, <1>9 DEF Consumer!Crash, Group!Crash
  <1>10. CASE Consumer!Restart(c)
    BY <1>0, <1>10 DEF Consumer!Restart, Group!Restart, Consumer!Goto, Group!Goto,
       Consumer!broker, Group!broker, Consumer!bounds, Group!bounds
  <1> QED
    BY <1>1, <1>2, <1>3, <1>4, <1>5, <1>6, <1>7, <1>8, <1>9, <1>10

\* The tailers, the clock, and the statements of a deletion request: no event
\* is acknowledged, published, consumed or erased.
TailOnly ==
    [Next]_vars /\ UNCHANGED <<topic, acked, retentions, consumerVars, doomed, job, promises>>

\* A tailer publishes a message it claimed, acknowledged or not.
Produces == \E w \in Workers : \E e \in messages[w] :
    /\ [Next]_vars
    /\ topic' = topic \cup {e} /\ Consumer!Produce(e)
    /\ UNCHANGED <<acked, retentions, doomed, job, promises>>

\* The persistence workers and their group.
Consumes ==
    /\ [Group!Next]_(Group!vars) /\ log' = log
    /\ stored \subseteq stored' /\ stored' \subseteq stored \cup KeysOf(topic)
    /\ doomed' \subseteq doomed
    /\ UNCHANGED <<vars, job, promises>>

\* A mutation is accepted for the rows S.
Dooms == \E S \in SUBSET stored :
    /\ doomed' = doomed \cup S
    /\ erased' = erased \cup EventsOf(S)
    /\ UNCHANGED <<vars, consumerVars, accepted, again>>

\* The topic's messages are those of the log.
TopicIsLog == \A e \in Envelopes : e \in topic <=> InTopic(e)

\* The tail store's part of the pipeline is one of these kinds.
LEMMA TailKinds ==
    ASSUME TypeOK, NEW w \in Workers,
           TailStep(w) \/ PublishMessage(w) \/ PublishMessageFails(w)
               \/ TailerFault(w) \/ TailerRestart(w)
    PROVE  TailOnly \/ Produces
  <1>1. CASE TailStep(w)
    <2>1. Next
      BY <1>1 DEF TailStep, Next, Process
    <2>2. UNCHANGED <<topic, acked, retentions>>
      BY <1>1 DEF TailStep, ClaimTailTraces, LoadTailTrace, RecordTailDecision,
                  SkipTailDecision, FailTailDecision, ClaimTailOutbox,
                  MarkTailOutboxPublished, OutboxLeaseLost, history, bounds
    <2> QED
      BY <1>1, <2>1, <2>2 DEF TailStep, TailOnly, notTail, removal
  <1>2. CASE PublishMessage(w)
    <2>1. Next /\ UNCHANGED <<acked, retentions, doomed, job, promises>>
      BY <1>2 DEF PublishMessage, Next, Process, Publish, history, bounds, removal
    <2>2. PICK e \in messages[w] : topic' = topic \cup {e} /\ message'[w] = {e}
      BY <1>2 DEF PublishMessage, Publish, TypeOK
    <2>3. Consumer!Produce(e)
      BY <1>2, <2>2 DEF PublishMessage
    <2> QED
      BY <2>1, <2>2, <2>3 DEF Produces
  <1>3. CASE PublishMessageFails(w)
    <2>1. Next /\ UNCHANGED <<acked, retentions, doomed, job, promises>>
      BY <1>3 DEF PublishMessageFails, Next, PublishFails, history, removal
    <2> QED
      BY <1>3, <2>1 DEF PublishMessageFails, TailOnly, Produces
  <1>4. CASE TailerFault(w)
    BY <1>4 DEF TailerFault, Next, TailOnly, Crash, notTail, removal, history
  <1>5. CASE TailerRestart(w)
    BY <1>5 DEF TailerRestart, Next, TailOnly, Restart, notTail, removal, history, bounds
  <1> QED
    BY <1>1, <1>2, <1>3, <1>4, <1>5

\* So are the clock, the deletion request's statements and its end.
LEMMA ClockKinds ==
    ASSUME \/ \E t \in Traces : QuietTime(t)
           \/ LeaseTime \/ SlowHolder \/ DeleteTail \/ RecordAudit \/ RequestFails
           \/ UNCHANGED allVars
    PROVE  TailOnly
  <1>1. CASE \E t \in Traces : QuietTime(t)
    BY <1>1 DEF QuietTime, Next, TailOnly, QuietElapses, notTail, removal, history, bounds
  <1>2. CASE LeaseTime \/ SlowHolder
    BY <1>2 DEF LeaseTime, SlowHolder, Next, TailOnly, OrphanedLeaseExpires, HeldLeaseExpires,
                TraceLeaseExpires, MessageLeaseExpires, notTail, removal, history, bounds
  <1>3. CASE DeleteTail
    <2>1. DeleteOutbox \/ DeleteEventKeys \/ DeleteDecisions \/ DeleteRollback
      BY <1>3 DEF DeleteTail
    <2>2. Next
      BY <2>1 DEF Next, DeleteTenantTailData
    <2>3. UNCHANGED <<topic, acked, retentions>>
      BY <2>1 DEF DeleteOutbox, DeleteEventKeys, DeleteDecisions, DeleteRollback, notDeleting
    <2> QED
      BY <1>3, <2>2, <2>3 DEF DeleteTail, TailOnly, notTail, removal
  <1>4. CASE RecordAudit \/ RequestFails \/ UNCHANGED allVars
    BY <1>4 DEF RecordAudit, RequestFails, allVars, TailOnly, vars, history, bounds, removal
  <1> QED
    BY <1>1, <1>2, <1>3, <1>4

\* The message a consumer holds is in the topic.
LEMMA HeldInTopic ==
    ASSUME Group!ConsumerInv, TopicIsLog, NEW c \in Consumers, cpc[c] = "persist"
    PROVE  Consumer!Key(c) \in KeysOf(topic)
  <1> DEFINE p == current[c].partition
             i == current[c].offset
             e == log[p][i]
  <1>1. Group!TypeOK /\ Group!HeldShape /\ cpc[c] \in Group!Busy
    BY DEF Group!ConsumerInv, Group!Busy
  <1>2. p \in Partitions /\ i \in 1..Len(log[p]) /\ e \in Envelopes
    BY <1>1, GroupAssumptions, Group!HeldType DEF Group!MessageAt
  <1>3. InTopic(e)
    BY <1>2 DEF InTopic
  <1>4. e \in topic
    BY <1>2, <1>3 DEF TopicIsLog
  <1> QED
    BY <1>4 DEF KeysOf, Consumer!Key, Consumer!MessageAt

\* And so are the workers' steps.
LEMMA ConsumeKinds ==
    ASSUME Group!ConsumerInv, TopicIsLog,
           \/ AssignPartitions \/ Rebalance
           \/ \E c \in Consumers : \/ Worker(c) \/ PersistRowFails(c)
                                  \/ ConsumerFault(c) \/ ConsumerRestart(c)
    PROVE  Consumes
  <1>1. CASE AssignPartitions \/ Rebalance
    <2>1. /\ UNCHANGED <<erased, log, stored, doomed, vars, job, promises>>
          /\ Consumer!Assign \/ Consumer!Rebalance
      BY <1>1 DEF AssignPartitions, Rebalance, Consumer!Assign, Consumer!Rebalance,
                  Consumer!NewGeneration, notConsumer, removal, promises
    <2> QED
      BY <2>1, GroupAssign DEF Consumes, Group!Next
  <1>2. ASSUME NEW c \in Consumers, ConsumerStep(c) \/ ConsumerFault(c) \/ ConsumerRestart(c)
        PROVE  Consumes
    <2>1. UNCHANGED <<erased, doomed, vars, job, promises>>
      BY <1>2 DEF ConsumerStep, ConsumerFault, ConsumerRestart, notConsumer, removal, promises
    <2>2. UNCHANGED <<log, stored>>
      BY <1>2 DEF ConsumerStep, ConsumerFault, ConsumerRestart, Consumer!FetchMessage,
         Consumer!ClaimDelivery, Consumer!MarkPersisted, Consumer!MarkFails,
         Consumer!CommitMessages, Consumer!CommitFails, Consumer!Crash, Consumer!Restart,
         Consumer!broker
    <2>3. Group!Next
      BY <1>2, <2>1, GroupRun DEF ConsumerStep, ConsumerFault, ConsumerRestart, Group!Next
    <2> QED
      BY <2>1, <2>2, <2>3 DEF Consumes
  <1>3. ASSUME NEW c \in Consumers, PersistRow(c) \/ PersistRowFails(c)
        PROVE  Consumes
    <2>1. /\ UNCHANGED <<erased, vars, job, promises>> /\ doomed' \subseteq doomed
          /\ Consumer!Persist(c) \/ Consumer!PersistFails(c)
      BY <1>3 DEF PersistRow, PersistRowFails, notConsumer, removal, promises
    <2>2. /\ log' = log /\ cpc[c] = "persist"
          /\ stored' \in {stored, stored \cup {Consumer!Key(c)}}
      BY <2>1 DEF Consumer!Persist, Consumer!PersistFails, Consumer!broker
    <2>3. Group!Next
      BY <2>1, GroupRun DEF Group!Next
    <2> QED
      BY <2>1, <2>2, <2>3, HeldInTopic DEF Consumes
  <1> QED
    BY <1>1, <1>2, <1>3 DEF Worker

\* Every step of the pipeline is of one of nine kinds.
LEMMA PipelineKinds ==
    ASSUME TypeOK, Group!ConsumerInv, TopicIsLog, doomed \subseteq stored,
           [PipelineNext]_allVars
    PROVE  \/ StageEvents \/ TailOnly \/ Produces \/ Consumes
           \/ Dooms \/ MutationApplies
           \/ DeleteTailBefore \/ JobFails \/ DeleteTailCommits
  <1>1. DeleteOlderThan => Dooms
    BY DEF DeleteOlderThan, Dooms
  <1>2. DeleteTenantTelemetry => Dooms
    BY DEF DeleteTenantTelemetry, Dooms
  <1> QED
    BY <1>1, <1>2, TailKinds, ClockKinds, ConsumeKinds DEF PipelineNext, Tailer

-----------------------------------------------------------------------------
(* Where events come from.                                                 *)

\* Every event in a table, at a tailer or at the broker was accepted, and its
\* key names it and its trace.
Known ==
    /\ acked \subseteq accepted /\ buffers \subseteq accepted
    /\ \A k \in Keys : outbox[k].envelope \subseteq {e \in accepted : KeyOf[e] = k}
    /\ \A w \in Workers : messages[w] \subseteq accepted
    /\ topic \subseteq accepted
    /\ \A e \in Envelopes : keyTrace[KeyOf[e]] # NoTrace =>
           e \in accepted /\ keyTrace[KeyOf[e]] = TraceOf[e]

\* PipelineTypeOK and LedgerTrue are inductive with these facts: the events known
\* anywhere were accepted, the topic is the log, a stored row comes from the topic,
\* a row doomed was erased for its owner, and the retention job between its two
\* calls has a run left.
OriginInv ==
    /\ PipelineTypeOK /\ WorkerShape /\ Group!ConsumerInv
    /\ Known /\ TopicIsLog
    /\ stored \subseteq KeysOf(topic) /\ doomed \subseteq KeysOf(erased)
    /\ job.step = "tail" => retentions < MaxRetention

\* A step of the tail store that only acknowledges what the pipeline accepts and
\* only publishes what a tailer claimed keeps every event known.
LEMMA KnownTail ==
    ASSUME OriginInv, [Next]_vars, accepted \subseteq accepted', acked' \subseteq accepted',
           \A e \in topic' : e \in topic \/ \E w \in Workers : e \in messages[w]
    PROVE  Known'
  <1>1. Known /\ TypeOK /\ Flow
    BY StepFlow DEF OriginInv, PipelineTypeOK
  <1>2. (acked \subseteq accepted /\ buffers \subseteq accepted)'
    BY <1>1 DEF Flow, Known
  <1>3. \A k \in Keys : outbox'[k].envelope \subseteq {e \in accepted' : KeyOf[e] = k}
    BY <1>1 DEF Flow, Known
  <1>4. \A w \in Workers : messages'[w] \subseteq accepted'
    BY <1>1 DEF Flow, Known
  <1>5. topic' \subseteq accepted'
    BY <1>1 DEF Known
  <1>6. ASSUME NEW e \in Envelopes, keyTrace'[KeyOf[e]] # NoTrace
        PROVE  e \in accepted' /\ keyTrace'[KeyOf[e]] = TraceOf[e]
    <2>1. KeyOf[e] \in Keys
      BY EventAssumption
    <2>2. CASE keyTrace'[KeyOf[e]] = keyTrace[KeyOf[e]]
      BY <1>1, <1>6, <2>2 DEF Known
    <2>3. CASE \E f \in acked' : f \in Envelopes /\ KeyOf[f] = KeyOf[e]
                                  /\ keyTrace'[KeyOf[e]] = TraceOf[f]
      BY <2>3, KeyAssumption
    <2> QED
      BY <1>1, <1>6, <2>1, <2>2, <2>3 DEF Flow
  <1> QED
    BY <1>2, <1>3, <1>4, <1>5, <1>6 DEF Known

\* Every step keeps every event known.
LEMMA KnownStep == ASSUME OriginInv, [PipelineNext]_allVars PROVE Known'
  <1>0. /\ TypeOK /\ Group!ConsumerInv /\ TopicIsLog /\ doomed \subseteq stored
        /\ Known
    BY DEF OriginInv, PipelineTypeOK
  <1>1. CASE StageEvents
    <2>1. Next /\ topic' = topic /\ accepted' = accepted \cup acked'
      BY <1>1 DEF StageEvents, Next, Stage, StageAccepted, StageDuplicate, notStaging
    <2> QED
      BY <2>1, KnownTail
  <1>2. CASE TailOnly
    <2>1. /\ [Next]_vars /\ topic' = topic /\ accepted' = accepted
          /\ acked' \subseteq accepted'
      BY <1>0, <1>2 DEF TailOnly, promises, Known
    <2> QED
      BY <2>1, KnownTail
  <1>3. CASE Produces
    <2>1. /\ [Next]_vars /\ accepted' = accepted /\ acked' \subseteq accepted'
          /\ \A e \in topic' : e \in topic \/ \E w \in Workers : e \in messages[w]
      BY <1>0, <1>3 DEF Produces, promises, Known
    <2> QED
      BY <2>1, KnownTail
  <1>4. CASE DeleteTailBefore
    <2>1. Next /\ topic' = topic /\ accepted' = accepted /\ acked' \subseteq acked
      BY <1>4 DEF DeleteTailBefore, Next, DeleteTailDataBefore
    <2> QED
      BY <1>0, <2>1, KnownTail DEF Known
  <1>5. CASE DeleteTailCommits
    <2>1. Next /\ topic' = topic /\ accepted' = accepted /\ acked' = {}
      BY <1>5 DEF DeleteTailCommits, Next, DeleteTenantTailData, DeleteTraces, notDeleting
    <2> QED
      BY <2>1, KnownTail
  <1>6. CASE Consumes \/ Dooms \/ MutationApplies \/ JobFails
    <2>1. UNCHANGED <<acked, buffers, outbox, messages, topic, keyTrace, accepted>>
      BY <1>6 DEF Consumes, Dooms, MutationApplies, JobFails, vars, tables, workers,
                  history, promises
    <2> QED
      BY <1>0, <2>1 DEF Known
  <1> QED
    BY <1>0, <1>1, <1>2, <1>3, <1>4, <1>5, <1>6, PipelineKinds

\* A produced message is appended to the log of its partition.
LEMMA ProduceInTopic ==
    ASSUME Group!TypeOK, NEW e \in Envelopes, Consumer!Produce(e), NEW f \in Envelopes
    PROVE  InTopic(f)' <=> InTopic(f) \/ f = e
  <1> DEFINE q == PartitionOf[e]
  <1>1. /\ q \in Partitions
        /\ \A p \in Partitions : log[p] \in Seq(Envelopes)
        /\ log' = [log EXCEPT ![q] = Append(log[q], e)]
    BY GroupAssumption DEF Group!TypeOK, Consumer!Produce
  <1> HIDE DEF q
  <1>2. \A p \in Partitions : log'[p] = IF p = q THEN Append(log[q], e) ELSE log[p]
    BY <1>1 DEF Group!TypeOK
  <1>3. /\ Len(log[q]) \in Nat /\ Len(log'[q]) = Len(log[q]) + 1
        /\ \A i \in 1..Len(log[q]) : log'[q][i] = log[q][i]
        /\ log'[q][Len(log[q]) + 1] = e
    <2>1. log[q] \in Seq(Envelopes) /\ log'[q] = Append(log[q], e)
      BY <1>1, <1>2
    <2> QED
      BY <2>1
  <1>4. ASSUME InTopic(f) PROVE InTopic(f)'
    <2> PICK p \in Partitions : \E i \in 1..Len(log[p]) : log[p][i] = f
      BY <1>4 DEF InTopic
    <2> PICK i \in 1..Len(log[p]) : log[p][i] = f
      OBVIOUS
    <2>1. i \in 1..Len(log'[p]) /\ log'[p][i] = f
      BY <1>2, <1>3
    <2> QED
      BY <2>1 DEF InTopic
  <1>5. ASSUME f = e PROVE InTopic(f)'
    <2>1. Len(log[q]) + 1 \in 1..Len(log'[q])
      BY <1>3
    <2> QED
      BY <1>1, <1>3, <1>5, <2>1 DEF InTopic
  <1>6. ASSUME InTopic(f)' PROVE InTopic(f) \/ f = e
    <2> PICK p \in Partitions : \E i \in 1..Len(log'[p]) : log'[p][i] = f
      BY <1>6 DEF InTopic
    <2> PICK i \in 1..Len(log'[p]) : log'[p][i] = f
      OBVIOUS
    <2>1. CASE p = q
      <3>1. i = Len(log[q]) + 1 \/ i \in 1..Len(log[q])
        BY <1>3, <2>1
      <3> QED
        BY <1>1, <1>3, <2>1, <3>1 DEF InTopic
    <2>2. CASE p # q
      BY <1>2, <2>2 DEF InTopic
    <2> QED
      BY <2>1, <2>2
  <1> QED
    BY <1>4, <1>5, <1>6

\* The topic stays the log, and never shrinks.
LEMMA TopicStep ==
    ASSUME OriginInv, [PipelineNext]_allVars
    PROVE  TopicIsLog' /\ topic \subseteq topic'
  <1>0. /\ TypeOK /\ Group!ConsumerInv /\ TopicIsLog /\ doomed \subseteq stored
        /\ Group!TypeOK
    BY DEF OriginInv, PipelineTypeOK, Group!ConsumerInv
  <1>1. ASSUME UNCHANGED <<topic, log>> PROVE TopicIsLog' /\ topic \subseteq topic'
    BY <1>0, <1>1 DEF TopicIsLog, InTopic
  <1>2. CASE StageEvents
    <2>1. UNCHANGED <<topic, log>>
      BY <1>2 DEF StageEvents, Stage, StageAccepted, StageDuplicate, notStaging, notTail,
                  consumerVars
    <2> QED
      BY <1>1, <2>1
  <1>3. CASE TailOnly \/ Consumes \/ Dooms \/ MutationApplies \/ JobFails
    <2>1. UNCHANGED <<topic, log>>
      BY <1>3 DEF TailOnly, Consumes, Dooms, MutationApplies, JobFails, consumerVars,
                  notStore, vars
    <2> QED
      BY <1>1, <2>1
  <1>4. CASE DeleteTailBefore \/ DeleteTailCommits
    <2>1. UNCHANGED <<topic, log>>
      BY <1>4 DEF DeleteTailBefore, DeleteTailDataBefore, DeleteTailCommits, DeleteTraces,
                  notDeleting, consumerVars
    <2> QED
      BY <1>1, <2>1
  <1>5. CASE Produces
    <2> PICK w \in Workers : \E e \in messages[w] :
             topic' = topic \cup {e} /\ Consumer!Produce(e)
      BY <1>5 DEF Produces
    <2> PICK e \in messages[w] : topic' = topic \cup {e} /\ Consumer!Produce(e)
      OBVIOUS
    <2>1. e \in Envelopes
      BY <1>0 DEF TypeOK
    <2>2. \A f \in Envelopes : InTopic(f)' <=> InTopic(f) \/ f = e
      BY <1>0, <2>1, ProduceInTopic
    <2> QED
      BY <1>0, <2>2 DEF TopicIsLog
  <1> QED
    BY <1>0, <1>2, <1>3, <1>4, <1>5, PipelineKinds

\* Every step but the retention job's failure is a step of the tail store or none.
LEMMA TailOrFails == ASSUME OriginInv, [PipelineNext]_allVars PROVE [Next]_vars \/ JobFails
  BY PipelineKinds
  DEF OriginInv, PipelineTypeOK, StageEvents, TailOnly, Produces, Consumes, Dooms,
      MutationApplies, DeleteTailBefore, DeleteTailCommits, Next, DeleteTenantTailData

\* The steps of the tail store, and the retention job's failure, keep its types.
LEMMA TailTypes == ASSUME OriginInv, [PipelineNext]_allVars
    PROVE TypeOK' /\ WorkerShape'
  <1>0. /\ TypeOK /\ WorkerShape /\ Group!ConsumerInv /\ TopicIsLog /\ doomed \subseteq stored
        /\ job.step = "tail" => retentions < MaxRetention
    BY DEF OriginInv, PipelineTypeOK
  <1>1. CASE JobFails
    <2>1. retentions' \in 0..MaxRetention
      BY <1>0, <1>1, BoundAssumption DEF JobFails, TypeOK
    <2>2. UNCHANGED <<tables, topic, workers, del, history, faults, deletes>>
      BY <1>1 DEF JobFails
    <2> QED
      BY <1>0, <2>1, <2>2 DEF TypeOK, WorkerShape, tables, workers, history
  <1>2. CASE ~JobFails
    BY <1>0, <1>2, TailOrFails, TypeStep, ShapeStep
  <1> QED
    BY <1>1, <1>2

\* Every step keeps the workers' invariant of the rows there are and the keys
\* erased: an erasure only adds to them, a mutation deletes rows already erased.
LEMMA GroupStep == ASSUME OriginInv, [PipelineNext]_allVars PROVE Group!ConsumerInv'
  <1>0. /\ TypeOK /\ Group!ConsumerInv /\ TopicIsLog /\ doomed \subseteq stored
        /\ stored \subseteq KeysOf(topic) /\ doomed \subseteq KeysOf(erased)
        /\ stored \subseteq Keys /\ erased \subseteq accepted /\ accepted \subseteq Envelopes
    BY DEF OriginInv, PipelineTypeOK, Consumer!TypeOK
  <1>1. ASSUME [Group!Next]_(Group!vars) PROVE Group!ConsumerInv'
    BY <1>0, <1>1, GroupAssumptions, Group!InvStep
  <1>2. CASE StageEvents \/ TailOnly \/ JobFails
    <2>1. UNCHANGED <<consumerVars, erased>>
      BY <1>2 DEF StageEvents, TailOnly, JobFails, notTail, promises
    <2>2. UNCHANGED Group!vars
      BY <2>1 DEF consumerVars, Group!vars, Group!broker, Group!bounds, storedOrErased, KeysOf
    <2> QED
      BY <1>1, <2>2
  <1>3. CASE Produces
    <2>1. \E e \in Envelopes : Group!Produce(e)
      BY <1>0, <1>3, GroupProduce DEF Produces, TypeOK, promises
    <2> QED
      BY <1>1, <2>1 DEF Group!Next
  <1>4. CASE Consumes
    BY <1>1, <1>4 DEF Consumes
  <1>5. CASE Dooms
    <2> PICK S \in SUBSET stored : /\ erased' = erased \cup EventsOf(S)
                                  /\ UNCHANGED consumerVars
      BY <1>5 DEF Dooms
    <2>1. KeysOf(erased') \subseteq KeysOf(erased) \cup S /\ KeysOf(erased) \subseteq KeysOf(erased')
      BY DEF KeysOf, EventsOf
    <2>2. storedOrErased' = storedOrErased
      BY <2>1 DEF storedOrErased, consumerVars, KeysOf
    <2>3. UNCHANGED Group!vars
      BY <2>2 DEF consumerVars, Group!vars, Group!broker, Group!bounds
    <2> QED
      BY <1>1, <2>3
  <1>6. CASE MutationApplies
    <2>1. stored' = stored \ doomed /\ UNCHANGED <<notStore, erased>>
      BY <1>6 DEF MutationApplies, promises
    <2>2. storedOrErased' = storedOrErased
      BY <1>0, <2>1 DEF storedOrErased, KeysOf
    <2>3. UNCHANGED Group!vars
      BY <2>1, <2>2 DEF notStore, Group!vars, Group!broker, Group!bounds
    <2> QED
      BY <1>1, <2>3
  <1>7. CASE DeleteTailBefore \/ DeleteTailCommits
    <2>1. UNCHANGED consumerVars /\ erased \subseteq erased' /\ erased' \subseteq accepted
      BY <1>0, <1>7 DEF DeleteTailBefore, DeleteTailCommits
    <2>2. storedOrErased \subseteq storedOrErased' /\ storedOrErased' \subseteq Keys
      BY <1>0, <2>1, EventAssumption DEF storedOrErased, consumerVars, KeysOf
    <2>3. UNCHANGED <<Group!broker, cpc, current, ledger, deadLetters, Group!bounds>>
      BY <2>1 DEF consumerVars, Group!broker, Group!bounds
    <2> QED
      BY <1>0, <2>2, <2>3, GroupAssumptions, Group!StoredGrows
  <1> QED
    BY <1>0, <1>2, <1>3, <1>4, <1>5, <1>6, <1>7, PipelineKinds

\* The removal's variables keep their types, and the retention job between its
\* two calls keeps a run left.
LEMMA RemovalStep ==
    ASSUME OriginInv, [PipelineNext]_allVars
    PROVE  /\ job' \in Job /\ request' \in {"none", "telemetry", "audit"} /\ audited' \in BOOLEAN
           /\ (job.step = "tail" => retentions < MaxRetention)'
  <1>0. /\ TypeOK /\ Group!ConsumerInv /\ TopicIsLog /\ doomed \subseteq stored
        /\ stored \subseteq Keys /\ job \in Job /\ request \in {"none", "telemetry", "audit"}
        /\ audited \in BOOLEAN
        /\ job.step = "tail" => retentions < MaxRetention
    BY DEF OriginInv, PipelineTypeOK, Consumer!TypeOK
  <1>1. NoJob \in Job /\ NoJob.step # "tail" /\ \A S \in SUBSET Keys : [step |-> "tail", keys |-> S] \in Job
    BY DEF Job, NoJob
  <1>2. [job EXCEPT !.keys = {}] \in Job /\ [job EXCEPT !.keys = {}].step = job.step
    BY <1>0 DEF Job
  <1>3. \/ job' = NoJob
        \/ job' \in {job, [job EXCEPT !.keys = {}]} /\ retentions' = retentions
        \/ (\E S \in SUBSET stored : job' = [step |-> "tail", keys |-> S])
               /\ retentions < MaxRetention /\ retentions' = retentions
    <2>1. CASE StageEvents
      BY <2>1 DEF StageEvents, Stage, StageAccepted, StageDuplicate, notStaging, bounds,
                  notTail, removal
    <2>2. CASE TailOnly \/ Produces \/ Consumes \/ MutationApplies
      BY <2>2 DEF TailOnly, Produces, Consumes, MutationApplies, vars, bounds, removal
    <2>3. CASE DeleteOlderThan
      BY <2>3 DEF DeleteOlderThan, vars, bounds
    <2>4. CASE DeleteTenantTelemetry
      BY <2>4 DEF DeleteTenantTelemetry, vars, bounds
    <2>5. CASE DeleteTailBefore \/ JobFails
      BY <2>5 DEF DeleteTailBefore, JobFails
    <2>6. CASE DeleteTailCommits
      BY <2>6 DEF DeleteTailCommits, DeleteTraces, notDeleting
    <2> QED
      BY <1>0, <2>1, <2>2, <2>3, <2>4, <2>5, <2>6, TailKinds, ClockKinds, ConsumeKinds
      DEF PipelineNext, Tailer
  <1>4. job' \in Job /\ (job.step = "tail" => retentions < MaxRetention)'
    BY <1>0, <1>1, <1>2, <1>3
  <1>5. request' \in {request, "none", "telemetry", "audit"} /\ audited' \in {audited, TRUE}
    BY DEF PipelineNext, allVars, removal, notTail, notConsumer, StageEvents, Tailer, TailStep,
           PublishMessage, PublishMessageFails, TailerFault, TailerRestart, QuietTime, LeaseTime,
           SlowHolder, AssignPartitions, Rebalance, Worker, ConsumerStep, PersistRow,
           PersistRowFails, ConsumerFault, ConsumerRestart, MutationApplies, DeleteOlderThan,
           DeleteTailBefore, JobFails, DeleteTail, DeleteTailCommits, DeleteTenantTelemetry,
           RecordAudit, RequestFails
  <1> QED
    BY <1>0, <1>4, <1>5

\* Every stored row keeps coming from the topic, every doomed row stays erased, and
\* only accepted events are erased.
LEMMA StoredStep ==
    ASSUME OriginInv, [PipelineNext]_allVars
    PROVE  /\ stored' \subseteq KeysOf(topic') /\ doomed' \subseteq stored'
           /\ doomed' \subseteq KeysOf(erased')
           /\ accepted' \subseteq Envelopes /\ erased' \subseteq accepted' /\ again' \subseteq erased'
  <1>0. /\ TypeOK /\ Group!ConsumerInv /\ TopicIsLog /\ Known
        /\ stored \subseteq KeysOf(topic) /\ doomed \subseteq stored
        /\ doomed \subseteq KeysOf(erased)
        /\ accepted \subseteq Envelopes /\ erased \subseteq accepted /\ again \subseteq erased
    BY DEF OriginInv, PipelineTypeOK
  <1>1. topic \subseteq topic' /\ KeysOf(topic) \subseteq KeysOf(topic')
    BY TopicStep DEF KeysOf
  <1>2. ASSUME doomed' \subseteq doomed, stored \subseteq stored',
               stored' \subseteq stored \cup KeysOf(topic), UNCHANGED promises
        PROVE  /\ stored' \subseteq KeysOf(topic') /\ doomed' \subseteq stored'
               /\ doomed' \subseteq KeysOf(erased')
               /\ accepted' \subseteq Envelopes /\ erased' \subseteq accepted' /\ again' \subseteq erased'
    BY <1>0, <1>1, <1>2 DEF promises
  <1>3. CASE StageEvents
    <2>1. /\ acked' \subseteq Envelopes /\ UNCHANGED <<stored, doomed, erased>>
          /\ accepted' = accepted \cup acked' /\ again' \subseteq again \cup erased
      BY <1>3, TailTypes DEF StageEvents, notTail, consumerVars, TypeOK
    <2> QED
      BY <1>0, <1>1, <2>1
  <1>4. CASE TailOnly \/ Produces \/ JobFails \/ Consumes
    <2>1. /\ doomed' \subseteq doomed /\ stored \subseteq stored'
          /\ stored' \subseteq stored \cup KeysOf(topic) /\ UNCHANGED promises
      BY <1>4 DEF TailOnly, Produces, JobFails, Consumes, Consumer!Produce, consumerVars
    <2> QED
      BY <1>2, <2>1
  <1>5. CASE Dooms
    <2> PICK S \in SUBSET stored : /\ doomed' = doomed \cup S
                                  /\ erased' = erased \cup EventsOf(S)
                                  /\ UNCHANGED <<consumerVars, accepted, again>>
      BY <1>5 DEF Dooms
    <2>1. S \subseteq KeysOf(EventsOf(S)) /\ EventsOf(S) \subseteq accepted
      <3>1. \A k \in S : \E e \in topic : e \in accepted /\ e \in Envelopes /\ KeyOf[e] = k
        BY <1>0 DEF KeysOf, Known
      <3>2. S \subseteq KeysOf(EventsOf(S))
        BY <3>1 DEF KeysOf, EventsOf
      <3>3. EventsOf(S) \subseteq accepted
        BY <3>1, KeyAssumption DEF EventsOf
      <3> QED
        BY <3>2, <3>3
    <2>2. KeysOf(erased') = KeysOf(erased) \cup KeysOf(EventsOf(S)) /\ stored' = stored
      BY DEF KeysOf, consumerVars
    <2> QED
      BY <1>0, <1>1, <2>1, <2>2
  <1>6. CASE MutationApplies
    BY <1>0, <1>1, <1>6 DEF MutationApplies, promises
  <1>7. CASE DeleteTailBefore \/ DeleteTailCommits
    <2>1. /\ UNCHANGED <<stored, doomed, accepted, again>>
          /\ erased \subseteq erased' /\ erased' \subseteq accepted
      BY <1>0, <1>7 DEF DeleteTailBefore, DeleteTailCommits, consumerVars
    <2>2. KeysOf(erased) \subseteq KeysOf(erased')
      BY <2>1 DEF KeysOf
    <2> QED
      BY <1>0, <1>1, <2>1, <2>2
  <1> QED
    BY <1>0, <1>3, <1>4, <1>5, <1>6, <1>7, PipelineKinds

\* Initially nothing is anywhere.
LEMMA OriginInit == PipelineInit => OriginInv
  <1> SUFFICES ASSUME PipelineInit PROVE OriginInv
    OBVIOUS
  <1>1. TypeOK /\ WorkerShape
    BY TypeInit DEF PipelineInit, Init, WorkerShape
  <1>2. Group!Init
    BY DEF PipelineInit, Consumer!Init, Group!Init, storedOrErased, KeysOf
  <1>3. Group!ConsumerInv
    BY <1>2, GroupAssumptions, Group!InvInit
  <1>4. Consumer!TypeOK
    BY <1>3 DEF Group!ConsumerInv, Group!TypeOK, Consumer!TypeOK, Group!Place, Consumer!Place,
                PipelineInit, Consumer!Init
  <1>5. PipelineTypeOK
    BY <1>1, <1>4 DEF PipelineTypeOK, PipelineInit, Job, NoJob
  <1>6. Known
    BY EventAssumption DEF Known, PipelineInit, Init, NoMessage
  <1>7. TopicIsLog
    BY DEF TopicIsLog, InTopic, PipelineInit, Init, Consumer!Init
  <1> QED
    BY <1>1, <1>3, <1>5, <1>6, <1>7 DEF OriginInv, PipelineInit, NoJob, Consumer!Init

\* The inductive step.
LEMMA OriginStep == OriginInv /\ [PipelineNext]_allVars => OriginInv'
  <1> SUFFICES ASSUME OriginInv, [PipelineNext]_allVars PROVE OriginInv'
    OBVIOUS
  <1>1. TypeOK' /\ WorkerShape' /\ Group!ConsumerInv' /\ Known' /\ TopicIsLog'
    BY TailTypes, GroupStep, KnownStep, TopicStep
  <1>2. stored' \subseteq Keys
    <2>1. stored' \subseteq KeysOf(topic') /\ topic' \subseteq Envelopes
      BY <1>1, StoredStep DEF TypeOK
    <2> QED
      BY <2>1, EventAssumption DEF KeysOf
  <1>3. Consumer!TypeOK'
    BY <1>1, <1>2 DEF Group!ConsumerInv, Group!TypeOK, Consumer!TypeOK, Group!Place,
                      Consumer!Place
  <1>4. PipelineTypeOK'
    BY <1>1, <1>3, StoredStep, RemovalStep DEF PipelineTypeOK
  <1> QED
    BY <1>1, <1>4, StoredStep, RemovalStep DEF OriginInv

\* The inductive invariant of the pipeline as a whole.
THEOREM OriginInvariant == PipelineSpec => []OriginInv
  BY OriginInit, OriginStep, PTL DEF PipelineSpec

\* Every variable of the pipeline keeps its type; only rows there are can be doomed
\* and only accepted events erased.
THEOREM PipelineTypeCorrect == PipelineSpec => []PipelineTypeOK
  <1>1. OriginInv => PipelineTypeOK
    BY DEF OriginInv
  <1> QED
    BY <1>1, OriginInvariant, PTL

\* However the retention job, a deletion request and ClickHouse's late mutations
\* interleave with the persistence workers, the ledger never calls an event
\* persisted that ClickHouse lacks, unless its owner's data was erased.
THEOREM LedgerStaysTrue == PipelineSpec => []LedgerTrue
  <1>1. OriginInv => LedgerTrue
    <2> SUFFICES ASSUME OriginInv, NEW e \in Envelopes, ledger[KeyOf[e]] = "persisted",
                        KeyOf[e] \notin stored
                 PROVE  e \in erased
      BY DEF LedgerTrue
    <2>1. KeyOf[e] \in storedOrErased
      BY EventAssumption DEF OriginInv, Group!ConsumerInv, Group!PersistedStored
    <2>2. erased \subseteq Envelopes
      BY DEF OriginInv, PipelineTypeOK
    <2> QED
      BY <2>1, <2>2, KeyAssumption DEF storedOrErased, KeysOf
  <1> QED
    BY <1>1, OriginInvariant, PTL

-----------------------------------------------------------------------------
(* An event is delivered or called lost, never both.                       *)

\* A message reaches the topic from a tailer's claim.
LEMMA TopicFlow ==
    ASSUME OriginInv, [PipelineNext]_allVars, NEW e \in topic'
    PROVE  e \in topic \/ \E w \in Workers : e \in messages[w]
  <1>1. CASE Produces
    BY <1>1 DEF Produces
  <1>2. CASE ~Produces
    <2>1. topic' = topic
      BY <1>2, PipelineKinds DEF OriginInv, PipelineTypeOK, StageEvents, Stage, StageAccepted,
         StageDuplicate, notStaging, TailOnly, Consumes, Dooms, MutationApplies, vars,
         DeleteTailBefore, DeleteTailDataBefore, JobFails, DeleteTailCommits, DeleteTraces,
         notDeleting
    <2> QED
      BY <2>1
  <1> QED
    BY <1>1, <1>2

\* A tailer claims pending messages.
LEMMA HeldFlow ==
    ASSUME OriginInv, [PipelineNext]_allVars, NEW w \in Workers, NEW m \in messages'[w]
    PROVE  m \in messages[w] \/ outbox[KeyOf[m]].state = "pending"
  <1>0. TypeOK /\ WorkerShape /\ Known
    BY DEF OriginInv, PipelineTypeOK
  <1>1. CASE JobFails
    BY <1>1 DEF JobFails, workers
  <1>2. CASE [Next]_vars
    <2>1. Flow
      BY <1>0, <1>2, StepFlow
    <2> QED
      BY <1>0, <2>1 DEF Flow, Known
  <1> QED
    BY <1>1, <1>2, TailOrFails

\* Only the retention job's second call, made or failed, counts as its run.
LEMMA RetentionsGrow ==
    ASSUME OriginInv, [PipelineNext]_allVars
    PROVE  /\ retentions \in Nat
           /\ \/ retentions' = retentions
              \/ retentions' = retentions + 1 /\ (DeleteTailBefore \/ JobFails)
  <1>1. retentions \in Nat
    BY BoundAssumption DEF OriginInv, PipelineTypeOK, TypeOK
  <1>2. CASE StageEvents
    BY <1>1, <1>2 DEF StageEvents, Stage, StageAccepted, StageDuplicate, notStaging, bounds
  <1>3. CASE ~StageEvents
    BY <1>1, <1>3, PipelineKinds DEF OriginInv, PipelineTypeOK, TailOnly, Produces,
       Consumes, Dooms, MutationApplies, vars, bounds, DeleteTailBefore, DeleteTailDataBefore,
       JobFails, DeleteTailCommits, DeleteTraces, notDeleting
  <1> QED
    BY <1>1, <1>2, <1>3

\* The decision records agree with the traces in the pipeline too.
LEMMA PipelineAgree ==
    ASSUME OriginInv, AgreeInv, [PipelineNext]_allVars PROVE AgreeInv'
  <1>1. CASE JobFails
    <2>1. UNCHANGED <<tables, del, deletes>>
      BY <1>1 DEF JobFails
    <2> QED
      BY <2>1, TailTypes DEF AgreeInv, DecisionsAgree, Decided, tables
  <1>2. CASE [Next]_vars
    BY <1>2, AgreeStep
  <1> QED
    BY <1>1, <1>2, TailOrFails

\* Until an explicit deletion begins, a step that is not the retention job's second
\* call stages, decides, or does neither.
LEMMA KeepingKinds ==
    ASSUME OriginInv, AgreeInv, [PipelineNext]_allVars, deletes' = 0
    PROVE  /\ deletes = 0
           /\ \/ \E t \in Traces : \E B \in SUBSET {e \in Envelopes : TraceOf[e] = t} :
                     \E victims \in Victims(t) : Staged(t, B, victims)
              \/ \E w \in Workers : Recorded(w)
              \/ DeleteTailBefore /\ DeleteTailDataBefore
              \/ Quiet
  <1>1. CASE JobFails
    BY <1>1 DEF JobFails, Quiet, tables, history
  <1>2. CASE ~JobFails
    <2>1. [Next]_vars
      BY <1>2, TailOrFails
    <2>2. DeleteTailDataBefore => retentions' = retentions + 1
      BY DEF DeleteTailDataBefore
    <2>3. DeleteTailDataBefore => DeleteTailBefore
      BY <1>2, <2>2, RetentionsGrow
    <2> QED
      BY <2>1, <2>3, DeletesGrow, StepKinds DEF AgreeInv
  <1> QED
    BY <1>1, <1>2

\* The event is in the outbox or the topic.
Sent(e) == e \in topic \/ outbox[KeyOf[e]].state # "absent"

\* NeverBoth is inductive with these: until something is removed, an event sent
\* belongs to a trace decided to be retained, and a message a tailer holds has its
\* outbox row.
SentRetained ==
    /\ \A e \in Envelopes : Sent(e) => decisions[TraceOf[e]].reason \in RetainedReasons
    /\ \A w \in Workers : \A m \in messages[w] : outbox[KeyOf[m]].state # "absent"
RetainedInv ==
    /\ OriginInv /\ AgreeInv
    /\ retentions = 0 /\ deletes = 0 => SentRetained

\* Every step that removes nothing sends only events of retained traces.
LEMMA SentRetainedStep ==
    ASSUME RetainedInv, [PipelineNext]_allVars, retentions' = 0, deletes' = 0
    PROVE  SentRetained'
  <1>1. /\ OriginInv /\ AgreeInv /\ TypeOK /\ Known
        /\ retentions = 0 /\ deletes = 0 /\ ~DeleteTailDataBefore
    <2>1. OriginInv /\ AgreeInv /\ TypeOK /\ Known
      BY DEF RetainedInv, OriginInv, PipelineTypeOK
    <2>2. DeleteTailDataBefore => retentions' = retentions + 1
      BY DEF DeleteTailDataBefore
    <2>3. /\ retentions \in Nat
          /\ retentions' = retentions \/ retentions' = retentions + 1
      BY <2>1, RetentionsGrow
    <2>4. retentions = 0 /\ ~DeleteTailDataBefore
      BY <2>2, <2>3
    <2> QED
      BY <2>1, <2>4, KeepingKinds
  <1>2. SentRetained /\ DecisionsAgree
    BY <1>1 DEF RetainedInv, AgreeInv
  <1>3. \A e \in Envelopes : KeyOf[e] \in Keys /\ TraceOf[e] \in Traces
    BY EventAssumption
  <1>4. NoDecision.reason \notin RetainedReasons
    BY DEF NoDecision, RetainedReasons
  <1>5. ASSUME NEW e \in topic' PROVE Sent(e)
    BY <1>1, <1>2, <1>5, TopicFlow DEF SentRetained, Sent
  <1>6. ASSUME NEW w \in Workers, NEW m \in messages'[w]
        PROVE  m \in Envelopes /\ outbox[KeyOf[m]].state # "absent"
    <2>1. m \in messages'[w] /\ messages'[w] \subseteq Envelopes
      BY <1>1, TailTypes DEF TypeOK
    <2> QED
      BY <1>1, <1>2, <2>1, HeldFlow DEF SentRetained
  <1>7. ASSUME \A e \in Envelopes : Sent(e)' =>
                   \/ Sent(e) /\ decisions'[TraceOf[e]] = decisions[TraceOf[e]]
                   \/ decisions'[TraceOf[e]].reason \in RetainedReasons,
               \A k \in Keys : outbox[k].state # "absent" => outbox'[k].state # "absent"
        PROVE  SentRetained'
    <2>1. \A e \in Envelopes : Sent(e)' => decisions'[TraceOf[e]].reason \in RetainedReasons
      BY <1>2, <1>7 DEF SentRetained
    <2>2. \A w \in Workers : \A m \in messages'[w] : outbox'[KeyOf[m]].state # "absent"
      BY <1>3, <1>6, <1>7
    <2> QED
      BY <2>1, <2>2 DEF SentRetained
  <1>8. ASSUME NEW t \in Traces, NEW B \in SUBSET {e \in Envelopes : TraceOf[e] = t},
               NEW victims \in Victims(t), Staged(t, B, victims)
        PROVE  SentRetained'
    <2>1. \A v \in victims : v \in Traces /\ decisions[v] = NoDecision
      <3>1. \A v \in victims : v \in Traces /\ ~Decided(v)
        BY VictimsOpen DEF ShardActive, Open, Decided, Reasons, TailerReasons, RetainedReasons
      <3> QED
        BY <1>1, <1>2, <3>1 DEF DecisionsAgree
    <2>2. /\ UNCHANGED <<outbox, topic>>
          /\ \A u \in Traces : u \notin victims => decisions'[u] = decisions[u]
      BY <1>8 DEF Staged
    <2>3. \A e \in Envelopes : Sent(e) => TraceOf[e] \notin victims
      BY <1>2, <1>4, <2>1 DEF SentRetained
    <2> QED
      BY <1>3, <1>7, <2>2, <2>3 DEF Sent
  <1>9. ASSUME NEW w \in Workers, Recorded(w) PROVE SentRetained'
    <2> DEFINE t == lease[w].trace
    <2>1. /\ decisions[t] = NoDecision /\ decisions'[t].reason = reason[w]
          /\ \A u \in Traces \ {t} : decisions'[u] = decisions[u]
          /\ \A k \in Keys : outbox[k].state # "absent" => outbox'[k] = outbox[k]
          /\ \A k \in Keys : \/ outbox'[k] = outbox[k]
                             \/ reason[w] \in RetainedReasons /\ k \in KeysOf(Buffered(t))
          /\ UNCHANGED topic
      BY <1>9 DEF Recorded
    <2> HIDE DEF t
    <2>2. ASSUME NEW e \in Envelopes, Sent(e)'
          PROVE  \/ Sent(e) /\ decisions'[TraceOf[e]] = decisions[TraceOf[e]]
                 \/ decisions'[TraceOf[e]].reason \in RetainedReasons
      <3>1. CASE Sent(e)
        <4>1. TraceOf[e] # t
          BY <1>2, <1>4, <2>1, <3>1 DEF SentRetained
        <4> QED
          BY <1>3, <2>1, <3>1, <4>1
      <3>2. CASE ~Sent(e)
        <4>1. reason[w] \in RetainedReasons /\ KeyOf[e] \in KeysOf(Buffered(t))
          BY <1>3, <2>1, <2>2, <3>2 DEF Sent
        <4>2. TraceOf[e] = t
          <5>1. PICK f \in Buffered(t) : KeyOf[e] = KeyOf[f]
            BY <4>1 DEF KeysOf
          <5>2. f \in Envelopes /\ TraceOf[f] = t
            BY <1>1 DEF Buffered, TypeOK
          <5> QED
            BY <5>1, <5>2, KeyAssumption
        <4> QED
          BY <2>1, <4>1, <4>2
      <3> QED
        BY <3>1, <3>2
    <2> QED
      BY <1>7, <2>1, <2>2
  <1>10. ASSUME Quiet PROVE SentRetained'
    <2>1. /\ UNCHANGED decisions
          /\ \A k \in Keys : outbox'[k].state = "absent" <=> outbox[k].state = "absent"
      BY <1>10 DEF Quiet
    <2>2. ASSUME NEW e \in Envelopes, Sent(e)' PROVE Sent(e)
      BY <1>3, <1>5, <2>1, <2>2 DEF Sent
    <2> QED
      BY <1>7, <2>1, <2>2
  <1> QED
    BY <1>1, <1>8, <1>9, <1>10, KeepingKinds

\* Across tail store, topic and ClickHouse: until retention or deletion removes
\* something, an event whose loss is on record is in no outbox row, no topic and no
\* row, and an event on its way there is never called lost.
THEOREM NeverDeliveredAndLost == PipelineSpec => []NeverBoth
  <1>1. PipelineInit => RetainedInv
    <2> SUFFICES ASSUME PipelineInit PROVE RetainedInv
      OBVIOUS
    <2>1. OriginInv /\ AgreeInv
      BY OriginInit, AgreeInit DEF PipelineInit
    <2>2. SentRetained
      BY EventAssumption DEF SentRetained, Sent, PipelineInit, Init, NoMessage
    <2> QED
      BY <2>1, <2>2 DEF RetainedInv
  <1>2. RetainedInv /\ [PipelineNext]_allVars => RetainedInv'
    BY OriginStep, PipelineAgree, SentRetainedStep DEF RetainedInv
  <1>3. RetainedInv => NeverBoth
    <2> SUFFICES ASSUME RetainedInv, retentions = 0, deletes = 0,
                        NEW e \in Envelopes, Evidence(e)
                 PROVE  ~InTopic(e) /\ outbox[KeyOf[e]].state = "absent" /\ KeyOf[e] \notin stored
      BY DEF NeverBoth
    <2>1. OriginInv /\ SentRetained
      BY DEF RetainedInv
    <2>2. ~Sent(e)
      BY <2>1 DEF SentRetained, Evidence, NonRetained
    <2>3. TopicIsLog /\ stored \subseteq KeysOf(topic) /\ topic \subseteq Envelopes
      BY <2>1 DEF OriginInv, PipelineTypeOK, TypeOK
    <2>4. KeyOf[e] \in KeysOf(topic) => e \in topic
      BY <2>3, KeyAssumption DEF KeysOf
    <2> QED
      BY <2>2, <2>3, <2>4 DEF Sent, TopicIsLog
  <1> QED
    BY <1>1, <1>2, <1>3, PTL DEF PipelineSpec

-----------------------------------------------------------------------------
(* An accepted event never vanishes.                                       *)

\* An event is accepted when it is acknowledged, and never leaves the histories
\* of the accepted and the erased ones.
LEMMA AcceptedFlow ==
    ASSUME OriginInv, [PipelineNext]_allVars
    PROVE  /\ accepted \subseteq accepted' /\ accepted' \subseteq accepted \cup acked'
           /\ erased \subseteq erased'
  <1>1. CASE StageEvents
    BY <1>1 DEF StageEvents
  <1>2. CASE ~StageEvents
    BY <1>2, PipelineKinds DEF OriginInv, PipelineTypeOK, TailOnly, Produces, Consumes,
       Dooms, MutationApplies, DeleteTailBefore, JobFails, DeleteTailCommits, promises
  <1> QED
    BY <1>1, <1>2

\* Before an explicit deletion an event accepted for the first time is buffered.
LEMMA NewlyBuffered ==
    ASSUME OriginInv, AgreeInv, [PipelineNext]_allVars, deletes' = 0,
           NEW e \in accepted', e \notin accepted
    PROVE  e \in buffers'
  <1>1. Known /\ e \in acked' /\ e \in Envelopes
    BY AcceptedFlow, StoredStep DEF OriginInv
  <1>2. keyTrace[KeyOf[e]] = NoTrace /\ e \notin acked
    BY <1>1 DEF Known
  <1>3. ASSUME NEW t \in Traces, NEW B \in SUBSET {f \in Envelopes : TraceOf[f] = t},
               NEW victims \in Victims(t), Staged(t, B, victims)
        PROVE  e \in buffers'
    <2>1. e \in B /\ Fresh(B) \subseteq buffers'
      BY <1>1, <1>2, <1>3 DEF Staged
    <2> QED
      BY <1>2, <2>1 DEF Fresh
  <1>4. ~(\E w \in Workers : Recorded(w))
    BY <1>1, <1>2 DEF Recorded
  <1>5. ~DeleteTailDataBefore
    BY <1>1, <1>2 DEF DeleteTailDataBefore
  <1>6. ~Quiet
    BY <1>1, <1>2 DEF Quiet
  <1> QED
    BY <1>3, <1>4, <1>5, <1>6, KeepingKinds

\* NothingVanishes is inductive with these: until an explicit deletion an accepted
\* event not erased is buffered, sent, or called lost by its trace's decision, and
\* what a tailer claimed stays sent even when the retention job removes its row.
Somewhere(e) == e \in buffers \/ Sent(e) \/ Evidence(e)
AcceptedSomewhere == \A e \in accepted \ erased : Somewhere(e)
HeldSent == \A w \in Workers : \A m \in messages[w] : Sent(m)
VanishInv ==
    /\ OriginInv /\ PublishInv /\ AgreeInv
    /\ deletes = 0 => AcceptedSomewhere /\ HeldSent

\* An outbox row holds the event of its key, and a published one is in the topic.
LEMMA RowOfEvent ==
    ASSUME PublishInv, NEW e \in Envelopes, outbox[KeyOf[e]].state # "absent"
    PROVE  /\ outbox[KeyOf[e]].envelope = {e}
           /\ outbox[KeyOf[e]].state = "published" => e \in topic
  <1>1. KeyOf[e] \in Keys
    BY EventAssumption
  <1>2. outbox[KeyOf[e]].envelope = {e}
    BY <1>1, KeyAssumption DEF PublishInv, OutboxEnvelope
  <1> QED
    BY <1>1, <1>2 DEF PublishInv, PublishedInTopic

\* No step before an explicit deletion takes an event sent out of both places.
LEMMA SentStays ==
    ASSUME VanishInv, [PipelineNext]_allVars, deletes' = 0, NEW e \in Envelopes, Sent(e)
    PROVE  Sent(e)'
  <1>1. OriginInv /\ PublishInv /\ AgreeInv /\ KeyOf[e] \in Keys
    BY EventAssumption DEF VanishInv
  <1>2. topic \subseteq topic'
    BY <1>1, TopicStep
  <1>3. CASE e \in topic
    BY <1>2, <1>3 DEF Sent
  <1>4. CASE outbox[KeyOf[e]].state # "absent" /\ e \notin topic
    <2>1. outbox[KeyOf[e]].state # "published"
      BY <1>1, <1>4, RowOfEvent
    <2>2. DeleteTailDataBefore => outbox'[KeyOf[e]] = outbox[KeyOf[e]]
      BY <1>1, <2>1 DEF DeleteTailDataBefore, Between, PublishedWithTraceIn
    <2>3. (\E t \in Traces : \E B \in SUBSET {f \in Envelopes : TraceOf[f] = t} :
              \E victims \in Victims(t) : Staged(t, B, victims)) => outbox' = outbox
      BY DEF Staged
    <2>4. (\E w \in Workers : Recorded(w)) => outbox'[KeyOf[e]] = outbox[KeyOf[e]]
      BY <1>1, <1>4 DEF Recorded
    <2>5. Quiet => outbox'[KeyOf[e]].state # "absent"
      BY <1>1, <1>4 DEF Quiet
    <2>6. outbox'[KeyOf[e]].state # "absent"
      BY <1>1, <1>4, <2>2, <2>3, <2>4, <2>5, KeepingKinds
    <2> QED
      BY <2>6 DEF Sent
  <1> QED
    BY <1>3, <1>4 DEF Sent

\* What a tailer holds stays sent.
LEMMA HeldSentStep ==
    ASSUME VanishInv, [PipelineNext]_allVars, deletes' = 0
    PROVE  HeldSent'
  <1>1. OriginInv /\ AgreeInv /\ TypeOK /\ Known
    BY DEF VanishInv, OriginInv, PipelineTypeOK
  <1>2. deletes = 0
    BY <1>1, KeepingKinds
  <1>3. HeldSent
    BY <1>2 DEF VanishInv
  <1> SUFFICES ASSUME NEW w \in Workers, NEW m \in messages'[w] PROVE Sent(m)'
    BY DEF HeldSent
  <1>4. m \in Envelopes
    BY <1>1, TailTypes DEF TypeOK
  <1>5. Sent(m)
    BY <1>1, <1>3, HeldFlow DEF HeldSent, Sent
  <1> QED
    BY <1>4, <1>5, SentStays

\* An acknowledgement buffers the event or finds that it was accepted before, and
\* an eviction records the loss.
LEMMA StagedSomewhere ==
    ASSUME VanishInv, [PipelineNext]_allVars, deletes = 0, NEW t \in Traces,
           NEW B \in SUBSET {e \in Envelopes : TraceOf[e] = t},
           NEW victims \in Victims(t), Staged(t, B, victims),
           NEW e \in accepted', e \notin erased
    PROVE  e \in buffers' \/ Sent(e) \/ Evidence(e)'
  <1>1. /\ OriginInv /\ AcceptedSomewhere /\ DecisionsAgree /\ Known
        /\ TypeOK
    BY DEF VanishInv, OriginInv, PipelineTypeOK, AgreeInv
  <1>2. /\ buffers' = {f \in buffers : TraceOf[f] \notin victims} \cup Fresh(B)
        /\ acked' = acked \cup B
        /\ \A v \in victims : decisions'[v] = EvictionRow(v)
        /\ \A u \in Traces : u \notin victims => decisions'[u] = decisions[u]
    BY DEF Staged
  <1>3. e \in accepted \/ e \in B
    BY <1>1, <1>2, AcceptedFlow DEF Known
  <1>4. CASE e \notin accepted
    <2>1. keyTrace[KeyOf[e]] = NoTrace
      BY <1>1, <1>3, <1>4 DEF Known
    <2> QED
      BY <1>2, <1>3, <1>4, <2>1 DEF Fresh
  <1>5. CASE e \in accepted
    <2>1. e \in Envelopes /\ TraceOf[e] \in Traces /\ Somewhere(e)
      BY <1>1, <1>5, EventAssumption DEF AcceptedSomewhere, OriginInv, PipelineTypeOK
    <2>2. \A v \in victims : v \in Traces /\ decisions[v] = NoDecision
      <3>1. \A v \in victims : v \in Traces /\ ~Decided(v)
        BY VictimsOpen DEF ShardActive, Open, Decided, Reasons, TailerReasons, RetainedReasons
      <3> QED
        BY <1>1, <3>1 DEF DecisionsAgree
    <2>3. \A v \in victims : EvictionRow(v).reason \in NonRetained
      BY <2>2 DEF EvictionRow, NonRetained, Reasons, TailerReasons, RetainedReasons
    <2>4. CASE TraceOf[e] \in victims
      BY <1>2, <2>3, <2>4 DEF Evidence
    <2>5. CASE TraceOf[e] \notin victims
      BY <1>2, <2>1, <2>5 DEF Somewhere, Evidence
    <2> QED
      BY <2>4, <2>5
  <1> QED
    BY <1>4, <1>5

\* A decision sends the events of its trace or records their loss.
LEMMA RecordedSomewhere ==
    ASSUME VanishInv, [PipelineNext]_allVars, deletes = 0, NEW w \in Workers, Recorded(w),
           NEW e \in accepted', e \notin erased
    PROVE  e \in buffers' \/ Sent(e) \/ Sent(e)' \/ Evidence(e)'
  <1> DEFINE t == lease[w].trace
  <1>1. /\ OriginInv /\ AcceptedSomewhere /\ Known
    BY DEF VanishInv, OriginInv
  <1>2. /\ decisions[t] = NoDecision /\ decisions'[t].reason = reason[w]
        /\ reason[w] \in TailerReasons
        /\ \A u \in Traces \ {t} : decisions'[u] = decisions[u]
        /\ buffers' = {f \in buffers : TraceOf[f] # t}
        /\ reason[w] \in RetainedReasons =>
               \A f \in buffers : TraceOf[f] = t => outbox'[KeyOf[f]].state # "absent"
        /\ acked' = acked
    BY DEF Recorded, Buffered
  <1> HIDE DEF t
  <1>3. e \in accepted /\ e \in Envelopes /\ TraceOf[e] \in Traces /\ Somewhere(e)
    <2>1. e \in accepted
      BY <1>1, <1>2, AcceptedFlow DEF Known
    <2> QED
      BY <1>1, <2>1, EventAssumption DEF AcceptedSomewhere, OriginInv, PipelineTypeOK
  <1>4. CASE e \in buffers /\ TraceOf[e] = t
    <2>1. CASE reason[w] \in RetainedReasons
      BY <1>2, <1>4, <2>1 DEF Sent
    <2>2. CASE reason[w] \notin RetainedReasons
      BY <1>2, <1>4, <2>2 DEF Evidence, NonRetained, Reasons
    <2> QED
      BY <2>1, <2>2
  <1>5. CASE e \in buffers /\ TraceOf[e] # t
    BY <1>2, <1>5
  <1>6. CASE Evidence(e)
    <2>1. TraceOf[e] # t
      BY <1>2, <1>6 DEF Evidence, NonRetained, Reasons, TailerReasons, RetainedReasons, NoDecision
    <2> QED
      BY <1>2, <1>3, <1>6, <2>1 DEF Evidence
  <1> QED
    BY <1>3, <1>4, <1>5, <1>6 DEF Somewhere

\* The retention job erases the events whose decision record it removes.
LEMMA RetentionSomewhere ==
    ASSUME VanishInv, deletes = 0, DeleteTailBefore, DeleteTailDataBefore,
           NEW e \in accepted', e \notin erased'
    PROVE  e \in buffers' \/ Sent(e) \/ Evidence(e)'
  <1>1. e \in accepted /\ e \notin erased
    BY DEF DeleteTailBefore
  <1>2. ~Evidence(e) \/ decisions'[TraceOf[e]] # NoDecision
    BY <1>1 DEF DeleteTailBefore
  <1>3. e \in Envelopes /\ TraceOf[e] \in Traces /\ Somewhere(e)
    BY <1>1, EventAssumption DEF VanishInv, AcceptedSomewhere, OriginInv, PipelineTypeOK
  <1>4. /\ buffers' = buffers
        /\ \A t \in Traces : decisions'[t] \in {NoDecision, decisions[t]}
    BY DEF DeleteTailDataBefore
  <1> QED
    BY <1>2, <1>3, <1>4 DEF Somewhere, Evidence

\* Every step before an explicit deletion keeps every accepted event somewhere.
LEMMA SomewhereStep ==
    ASSUME VanishInv, [PipelineNext]_allVars, deletes' = 0
    PROVE  AcceptedSomewhere'
  <1>1. OriginInv /\ AgreeInv /\ Known
    BY DEF VanishInv, OriginInv
  <1>2. deletes = 0 /\ AcceptedSomewhere
    BY <1>1, KeepingKinds DEF VanishInv
  <1> SUFFICES ASSUME NEW e \in accepted', e \notin erased' PROVE Somewhere(e)'
    BY DEF AcceptedSomewhere
  <1>3. e \notin erased /\ e \in Envelopes
    BY <1>1, AcceptedFlow, StoredStep
  <1>4. Sent(e) => Sent(e)'
    BY <1>3, SentStays
  <1>5. CASE Quiet
    <2>1. /\ buffers' = buffers /\ decisions' = decisions
          /\ \A f \in acked' : f \in acked \/ keyTrace[KeyOf[f]] # NoTrace
      BY <1>5 DEF Quiet
    <2>2. e \in accepted
      BY <1>1, <1>3, <2>1, AcceptedFlow DEF Known
    <2> QED
      BY <1>2, <1>3, <1>4, <2>1, <2>2 DEF AcceptedSomewhere, Somewhere, Evidence
  <1> QED
    BY <1>1, <1>2, <1>3, <1>4, <1>5, KeepingKinds, StagedSomewhere, RecordedSomewhere,
       RetentionSomewhere DEF Somewhere

\* Initially nothing is accepted.
LEMMA VanishInit == PipelineInit => VanishInv
  <1> SUFFICES ASSUME PipelineInit PROVE VanishInv
    OBVIOUS
  <1>1. OriginInv /\ PublishInv /\ AgreeInv
    BY OriginInit, PublishInit, AgreeInit DEF PipelineInit
  <1>2. AcceptedSomewhere /\ HeldSent
    BY DEF AcceptedSomewhere, HeldSent, PipelineInit, Init
  <1> QED
    BY <1>1, <1>2 DEF VanishInv

\* The inductive step, with PublishInv and AgreeInv of the tail store.
LEMMA VanishStep ==
    ASSUME OwnersDistinct PROVE VanishInv /\ [PipelineNext]_allVars => VanishInv'
  <1> SUFFICES ASSUME VanishInv, [PipelineNext]_allVars PROVE VanishInv'
    OBVIOUS
  <1>1. OriginInv /\ PublishInv /\ AgreeInv
    BY DEF VanishInv
  <1>2. OriginInv' /\ AgreeInv'
    BY <1>1, OriginStep, PipelineAgree
  <1>3. PublishInv'
    <2>1. CASE JobFails
      <3>1. UNCHANGED <<tables, topic, workers>>
        BY <2>1 DEF JobFails
      <3> QED
        BY <1>1, <3>1, TailTypes DEF PublishInv, UniqueBuffers, OutboxEnvelope, ClaimedMessage,
           HoldsMessage, MarkAfterPublish, PublishedInTopic, tables, workers
    <2>2. CASE [Next]_vars
      BY <1>1, <2>2, PublishInvStep
    <2> QED
      BY <1>1, <2>1, <2>2, TailOrFails
  <1> QED
    BY <1>2, <1>3, SomewhereStep, HeldSentStep DEF VanishInv

\* A message the group has consumed is stored, unless its event was erased.
LEMMA ConsumedStored ==
    ASSUME OriginInv, NEW e \in topic, ~InFlight(e)
    PROVE  KeyOf[e] \in stored \/ e \in erased
  <1>1. e \in Envelopes /\ InTopic(e) /\ Group!TypeOK /\ Group!CommittedAccounted
        /\ erased \subseteq Envelopes
    BY DEF OriginInv, PipelineTypeOK, TypeOK, TopicIsLog, Group!ConsumerInv
  <1> PICK p \in Partitions : \E i \in 1..Len(log[p]) : log[p][i] = e
    BY <1>1 DEF InTopic
  <1> PICK i \in 1..Len(log[p]) : log[p][i] = e
    OBVIOUS
  <1>2. committed[p] \in Nat /\ Len(log[p]) \in Nat
    BY <1>1 DEF Group!TypeOK
  <1>3. i \notin (committed[p] + 1)..Len(log[p])
    BY DEF InFlight
  <1>4. i \in 1..committed[p]
    BY <1>2, <1>3
  <1>5. KeyOf[e] \in storedOrErased
    BY <1>1, <1>4 DEF Group!CommittedAccounted, Group!AccountedAt
  <1> QED
    BY <1>1, <1>5, KeyAssumption DEF storedOrErased, KeysOf

\* README: "accepted events are durably acknowledged or an explicit evidenced loss
\* state is reported".  Through every crash, lost answer, rebalance, eviction and
\* late mutation an accepted event that was not erased is on its way, stored, or
\* its trace's decision record names the loss, until the first explicit deletion.
THEOREM NothingAcceptedVanishes ==
    ASSUME OwnersDistinct PROVE PipelineSpec => []NothingVanishes
  <1>1. VanishInv => NothingVanishes
    <2> SUFFICES ASSUME VanishInv, deletes = 0, NEW e \in accepted, e \notin erased,
                        ~InFlight(e), ~Evidence(e)
                 PROVE  KeyOf[e] \in stored
      BY DEF NothingVanishes, Traceable
    <2>1. OriginInv /\ PublishInv /\ TypeOK /\ e \in Envelopes /\ KeyOf[e] \in Keys
      BY EventAssumption DEF VanishInv, OriginInv, PipelineTypeOK
    <2>2. Sent(e)
      BY DEF VanishInv, AcceptedSomewhere, Somewhere, InFlight
    <2>3. e \in topic
      <3>1. outbox[KeyOf[e]].state \in {"absent", "published"}
        BY <2>1 DEF InFlight, TypeOK, OutboxRow
      <3> QED
        BY <2>1, <2>2, <3>1, RowOfEvent DEF Sent
    <2> QED
      BY <2>1, <2>3, ConsumedStored
  <1> QED
    BY <1>1, VanishInit, VanishStep, PTL DEF PipelineSpec

-----------------------------------------------------------------------------
(* The pipeline implements Delivery.                                       *)

\* The loss of the event is on record and it is nowhere on its way.
Lost(e) ==
    /\ e \in accepted \ erased /\ KeyOf[e] \notin stored
    /\ Evidence(e) /\ ~InFlight(e)

\* An event lost is in no buffer, outbox row or topic, and no tailer holds it.
LEMMA LostIsGone ==
    ASSUME VanishInv, deletes = 0, NEW e \in Envelopes, Lost(e)
    PROVE  /\ e \notin buffers /\ ~Sent(e)
           /\ \A w \in Workers : e \notin messages[w]
  <1>1. OriginInv /\ PublishInv /\ HeldSent /\ TypeOK /\ KeyOf[e] \in Keys
    BY EventAssumption DEF VanishInv, OriginInv, PipelineTypeOK
  <1>2. e \notin buffers /\ outbox[KeyOf[e]].state # "pending"
    BY DEF Lost, InFlight
  <1>3. e \notin topic
    BY <1>1, ConsumedStored DEF Lost
  <1>4. outbox[KeyOf[e]].state = "absent"
    <2>1. outbox[KeyOf[e]].state \in {"absent", "published"}
      BY <1>1, <1>2 DEF TypeOK, OutboxRow
    <2> QED
      BY <1>1, <1>3, <2>1, RowOfEvent
  <1>5. ~Sent(e)
    BY <1>3, <1>4 DEF Sent
  <1> QED
    BY <1>1, <1>2, <1>5 DEF HeldSent

\* Its trace being decided for good, the event is never staged again, so it never
\* comes back on its way.
LEMMA LostStaysGone ==
    ASSUME VanishInv, [PipelineNext]_allVars, deletes' = 0, NEW e \in Envelopes, Lost(e)
    PROVE  /\ e \notin buffers' /\ outbox'[KeyOf[e]].state = "absent"
           /\ Evidence(e)' \/ e \in erased'
  <1>1. /\ OriginInv /\ AgreeInv /\ KeyOf[e] \in Keys /\ TraceOf[e] \in Traces
        /\ TypeOK
    BY EventAssumption DEF VanishInv, OriginInv, PipelineTypeOK
  <1>2. deletes = 0
    BY <1>1, KeepingKinds
  <1>3. e \notin buffers /\ outbox[KeyOf[e]].state = "absent"
    BY <1>2, LostIsGone DEF Sent
  <1>4. /\ decisions[TraceOf[e]] # NoDecision /\ Decided(TraceOf[e])
        /\ decisions[TraceOf[e]].reason \in NonRetained /\ e \in accepted
    <2>1. decisions[TraceOf[e]].reason \in NonRetained /\ e \in accepted
      BY DEF Lost, Evidence
    <2>2. decisions[TraceOf[e]] # NoDecision
      BY <2>1 DEF NonRetained, Reasons, TailerReasons, RetainedReasons, NoDecision
    <2> QED
      BY <1>1, <1>2, <2>1, <2>2 DEF AgreeInv, DecisionsAgree
  <1>5. ASSUME NEW t \in Traces, NEW B \in SUBSET {f \in Envelopes : TraceOf[f] = t},
               NEW victims \in Victims(t), Staged(t, B, victims)
        PROVE  /\ e \notin buffers' /\ outbox'[KeyOf[e]].state = "absent" /\ Evidence(e)'
    <2>1. /\ ~Decided(t) /\ Fresh(B) \subseteq B /\ outbox' = outbox
          /\ buffers' = {f \in buffers : TraceOf[f] \notin victims} \cup Fresh(B)
          /\ \A u \in Traces : u \notin victims => decisions'[u] = decisions[u]
      BY <1>5 DEF Staged
    <2>2. TraceOf[e] \notin victims
      <3>1. \A v \in victims : ~Decided(v)
        BY VictimsOpen DEF ShardActive, Open, Decided, Reasons, TailerReasons, RetainedReasons
      <3> QED
        BY <1>4, <3>1
    <2>3. e \notin Fresh(B)
      BY <1>4, <2>1
    <2>4. decisions'[TraceOf[e]] = decisions[TraceOf[e]]
      BY <1>1, <2>1, <2>2
    <2> QED
      BY <1>3, <1>4, <2>1, <2>3, <2>4 DEF Evidence
  <1>6. ASSUME NEW w \in Workers, Recorded(w)
        PROVE  /\ e \notin buffers' /\ outbox'[KeyOf[e]].state = "absent" /\ Evidence(e)'
    <2> DEFINE t == lease[w].trace
    <2>1. /\ decisions[t] = NoDecision /\ buffers' \subseteq buffers
          /\ \A u \in Traces \ {t} : decisions'[u] = decisions[u]
          /\ \A k \in Keys : outbox'[k] = outbox[k] \/ k \in KeysOf(Buffered(t))
      BY <1>6 DEF Recorded
    <2> HIDE DEF t
    <2>2. decisions'[TraceOf[e]] = decisions[TraceOf[e]]
      BY <1>1, <1>4, <2>1
    <2>3. KeyOf[e] \notin KeysOf(Buffered(t))
      BY <1>1, <1>3, KeyAssumption DEF KeysOf, Buffered, TypeOK
    <2> QED
      BY <1>1, <1>3, <1>4, <2>1, <2>2, <2>3 DEF Evidence
  <1>7. ASSUME DeleteTailBefore, DeleteTailDataBefore
        PROVE  /\ e \notin buffers' /\ outbox'[KeyOf[e]].state = "absent"
               /\ Evidence(e)' \/ e \in erased'
    <2>1. /\ buffers' = buffers /\ outbox'[KeyOf[e]] \in {outbox[KeyOf[e]], NoMessage}
          /\ decisions'[TraceOf[e]] \in {NoDecision, decisions[TraceOf[e]]}
      BY <1>1, <1>7 DEF DeleteTailDataBefore
    <2>2. decisions'[TraceOf[e]] = NoDecision => e \in erased'
      BY <1>4, <1>7 DEF DeleteTailBefore, Evidence
    <2> QED
      BY <1>3, <1>4, <2>1, <2>2 DEF Evidence, NoMessage
  <1>8. ASSUME Quiet
        PROVE  /\ e \notin buffers' /\ outbox'[KeyOf[e]].state = "absent" /\ Evidence(e)'
    BY <1>1, <1>3, <1>4, <1>8 DEF Quiet, Evidence
  <1> QED
    BY <1>1, <1>5, <1>6, <1>7, <1>8, KeepingKinds

\* A row is stored only for a message of the topic and deleted only for an event
\* erased before.
LEMMA StoredFlow ==
    ASSUME OriginInv, [PipelineNext]_allVars
    PROVE  stored' \subseteq stored \cup KeysOf(topic) /\ stored \subseteq stored' \cup KeysOf(erased)
  <1>0. doomed \subseteq KeysOf(erased)
    BY DEF OriginInv
  <1>1. CASE StageEvents \/ TailOnly \/ Produces \/ Consumes \/ Dooms \/ JobFails
                \/ DeleteTailBefore \/ DeleteTailCommits
    BY <1>1 DEF StageEvents, notTail, TailOnly, Produces, Consumer!Produce, Consumes, Dooms,
       JobFails, DeleteTailBefore, DeleteTailCommits, consumerVars
  <1>2. CASE MutationApplies
    BY <1>0, <1>2 DEF MutationApplies
  <1> QED
    BY <1>1, <1>2, PipelineKinds DEF OriginInv, PipelineTypeOK

\* An event lost stays lost, unless it is erased.
LEMMA LostStep ==
    ASSUME VanishInv, [PipelineNext]_allVars, deletes' = 0, NEW e \in Envelopes, Lost(e)
    PROVE  Lost(e)' \/ e \in erased'
  <1>1. OriginInv /\ OriginInv' /\ AgreeInv /\ deletes = 0
    BY OriginStep, KeepingKinds DEF VanishInv
  <1>2. /\ e \notin topic /\ \A w \in Workers : e \notin messages[w]
        /\ e \in accepted' /\ KeyOf[e] \notin stored
    BY <1>1, LostIsGone, AcceptedFlow DEF Sent, Lost
  <1>3. e \notin topic' /\ ~InTopic(e)'
    <2>1. e \notin topic'
      BY <1>1, <1>2, TopicFlow
    <2> QED
      BY <1>1, <2>1 DEF OriginInv, TopicIsLog
  <1>4. KeyOf[e] \notin stored'
    <2>1. topic \subseteq Envelopes
      BY <1>1 DEF OriginInv, PipelineTypeOK, TypeOK
    <2>2. KeyOf[e] \notin KeysOf(topic)
      BY <1>2, <2>1, KeyAssumption DEF KeysOf
    <2> QED
      BY <1>1, <1>2, <2>2, StoredFlow
  <1>5. ~InFlight(e)'
    <2>1. ~(\E p \in Partitions : \E i \in (committed'[p] + 1)..Len(log'[p]) : log'[p][i] = e)
      <3> SUFFICES ASSUME NEW p \in Partitions, NEW i \in (committed'[p] + 1)..Len(log'[p]),
                          log'[p][i] = e
                   PROVE  FALSE
        OBVIOUS
      <3>1. committed'[p] \in Nat /\ Len(log'[p]) \in Nat
        BY <1>1 DEF OriginInv, Group!ConsumerInv, Group!TypeOK
      <3>2. i \in 1..Len(log'[p])
        BY <3>1
      <3> QED
        BY <1>3, <3>2 DEF InTopic
    <2> QED
      BY <2>1, LostStaysGone DEF InFlight
  <1> QED
    BY <1>2, <1>4, <1>5, LostStaysGone DEF Lost

\* The status of an event moves as Delivery says.
LEMMA StatusStep ==
    ASSUME VanishInv, [PipelineNext]_allVars, NEW e \in Envelopes
    PROVE  \/ Status(e)' = Status(e)
           \/ Status(e) = "new" /\ Status(e)' = "accepted"
           \/ Status(e) = "accepted" /\ Status(e)' \in {"stored", "lost"}
           \/ Status(e)' = "erased"
  <1>1. OriginInv /\ OriginInv' /\ AgreeInv /\ Known /\ TypeOK
        /\ topic \subseteq Envelopes /\ erased \subseteq Envelopes
    BY OriginStep DEF VanishInv, OriginInv, PipelineTypeOK, TypeOK
  <1>2. CASE deletes' # 0 \/ e \in erased'
    <2>1. deletes' \in Nat
      BY <1>1, BoundAssumption DEF OriginInv, PipelineTypeOK, TypeOK
    <2> QED
      BY <1>2, <2>1 DEF Status
  <1>3. CASE deletes' = 0 /\ e \notin erased'
    <2>1. deletes = 0 /\ e \notin erased /\ accepted \subseteq accepted'
      BY <1>1, <1>3, KeepingKinds, AcceptedFlow
    <2>2. /\ Status(e) = IF KeyOf[e] \in stored THEN "stored"
                         ELSE IF e \in accepted /\ Evidence(e) /\ ~InFlight(e) THEN "lost"
                         ELSE IF e \in accepted THEN "accepted" ELSE "new"
          /\ Status(e)' = IF KeyOf[e] \in stored' THEN "stored"
                          ELSE IF e \in accepted' /\ Evidence(e)' /\ ~InFlight(e)' THEN "lost"
                          ELSE IF e \in accepted' THEN "accepted" ELSE "new"
      BY <1>3, <2>1 DEF Status
    <2>3. CASE KeyOf[e] \in stored
      <3>1. KeyOf[e] \notin KeysOf(erased)
        BY <1>1, <2>1, KeyAssumption DEF KeysOf
      <3>2. KeyOf[e] \in stored'
        BY <1>1, <2>3, <3>1, StoredFlow
      <3> QED
        BY <2>2, <2>3, <3>2
    <2>4. CASE KeyOf[e] \notin stored /\ e \in accepted /\ Evidence(e) /\ ~InFlight(e)
      <3>1. Lost(e)
        BY <2>1, <2>4 DEF Lost
      <3>2. Lost(e)'
        BY <1>3, <3>1, LostStep
      <3> QED
        BY <2>2, <2>4, <3>2 DEF Lost
    <2>5. CASE KeyOf[e] \notin stored /\ e \in accepted /\ ~(Evidence(e) /\ ~InFlight(e))
      BY <2>1, <2>2, <2>5
    <2>6. CASE KeyOf[e] \notin stored /\ e \notin accepted
      <3>1. KeyOf[e] \notin stored'
        <4>1. KeyOf[e] \notin KeysOf(topic)
          BY <1>1, <2>6, KeyAssumption DEF KeysOf, Known
        <4> QED
          BY <1>1, <2>6, <4>1, StoredFlow
      <3>2. e \in accepted' => e \in buffers'
        BY <1>1, <1>3, <2>1, <2>6, NewlyBuffered
      <3> QED
        BY <2>2, <2>6, <3>1, <3>2 DEF InFlight
    <2> QED
      BY <2>3, <2>4, <2>5, <2>6
  <1> QED
    BY <1>2, <1>3

\* docs/architecture.md, the state diagram: seen from outside an event is accepted,
\* then stored or lost with evidence, for good, unless it is erased for its owner;
\* no interleaving, crash or retry takes an event back or from one end to the other.
\* (That it reaches an end is Delivery's Settled, which is only model-checked.)
THEOREM ImplementsDelivery == ASSUME OwnersDistinct PROVE PipelineSpec => Promise!Safety
  <1>1. PipelineInit => VanishInv /\ Promise!Init
    <2> SUFFICES ASSUME PipelineInit PROVE Promise!Init
      BY VanishInit
    <2>1. \A e \in Envelopes : Status(e) = "new"
      BY DEF Status, PipelineInit, Init, Consumer!Init
    <2> QED
      BY <2>1 DEF Promise!Init
  <1>2. VanishInv /\ [PipelineNext]_allVars => [Promise!Next]_([e \in Envelopes |-> Status(e)])
    <2> SUFFICES ASSUME VanishInv, [PipelineNext]_allVars PROVE Promise!Next
      OBVIOUS
    <2>1. \A e \in Envelopes :
              \/ Status(e)' = Status(e)
              \/ Status(e) = "new" /\ Status(e)' = "accepted"
              \/ Status(e) = "accepted" /\ Status(e)' \in {"stored", "lost"}
              \/ Status(e)' = "erased"
      BY StatusStep
    <2>2. \A e \in Envelopes : Status(e)' \in Promise!States
      BY DEF Status, Promise!States
    <2> QED
      BY <2>1, <2>2 DEF Promise!Next, Promise!Accept, Promise!Store, Promise!Lose, Promise!Erase
  <1> QED
    BY <1>1, <1>2, VanishStep, PTL DEF PipelineSpec, Promise!Safety

=============================================================================
