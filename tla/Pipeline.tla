------------------------------ MODULE Pipeline ------------------------------
(***************************************************************************)
(* An event's whole way: the tail store and its tailers (TailStore), the   *)
(* topic they publish to, the persistence workers that consume it          *)
(* (DeliveryConsumer) into the delivery ledger and ClickHouse, and what    *)
(* erases data: the retention job (cmd/retention) and the deletion request *)
(* (internal/query/api.go), each of which visits PostgreSQL and ClickHouse *)
(* one after the other and leaves the ledger and the topic alone.          *)
(*                                                                         *)
(* A publish is one step of both components.  A ClickHouse deletion is a   *)
(* mutation: accepted at once, applied later to the rows there were when   *)
(* it was accepted.                                                        *)
(*                                                                         *)
(* An operator named Name_variant, placed before Name, is a wrong Name: it *)
(* is no part of the specification, and the runs must reject it.           *)
(***************************************************************************)
EXTENDS TailStore, Sequences

CONSTANTS
    Partitions, PartitionOf,   \* of the topic, as in DeliveryConsumer
    Consumers, NoConsumer, NoPlace,
    MaxLog,            \* bound: messages in one partition
    MaxRebalances,     \* bound: rebalances nothing forced
    MaxRemovals        \* bound: runs of the retention job and deletion requests

\* An event and its key are one here: TailStore's runs reuse event IDs.
ASSUME KeyAssumption == \A e, f \in Envelopes : KeyOf[e] = KeyOf[f] => e = f

VARIABLES
    log, committed, assigned, position, cpc, current,   \* the workers'
    ledger, stored, deadLetters, cfaults, rebalances,
    doomed,     \* stored keys all of whose rows an accepted mutation will delete
    job,        \* the retention job between its two calls
    request,    \* the deletion request after its PostgreSQL transaction
    audited,    \* a deletion request was answered "mutation_requested"
    accepted,   \* history: events ever acknowledged
    erased,     \* history: of those, the ones erased for their owner
    again       \* history: of those, the ones staged anew when no row was left

Consumer == INSTANCE DeliveryConsumer WITH
    Messages <- Envelopes, KindOf <- [e \in Envelopes |-> "valid"],
    NoMessage <- NoPlace, pc <- cpc, faults <- cfaults

\* DeliveryConsumer's assumptions, of the topic and the workers here.
ASSUME GroupAssumption ==
    /\ PartitionOf \in [Envelopes -> Partitions]
    /\ NoConsumer \notin Consumers /\ NoPlace \notin Consumer!Place
    /\ MaxLog \in Nat /\ MaxRebalances \in Nat

consumerVars == <<log, committed, assigned, position, cpc, current, ledger,
                  stored, deadLetters, cfaults, rebalances>>
removal == <<job, request, audited>>
promises == <<accepted, erased, again>>
allVars == <<vars, consumerVars, doomed, removal, promises>>

Job == [step : {"none", "tail"}, keys : SUBSET Keys]
NoJob == [step |-> "none", keys |-> {}]

\* Bounds: the components share MaxFaults, retention and deletion MaxRemovals,
\* and a deletion request meets no fault or rebalance (TailStore's runs combine them).
FaultsLeft == deletes = 0 /\ faults + cfaults < MaxFaults
RemovalsLeft == job = NoJob /\ retentions + deletes < MaxRemovals
DeletionLeft == RemovalsLeft /\ faults + cfaults + rebalances = 0

InTopic(e) == \E p \in Partitions : \E i \in 1..Len(log[p]) : log[p][i] = e

PipelineTypeOK ==
    /\ TypeOK /\ Consumer!TypeOK
    /\ doomed \subseteq stored
    /\ job \in Job /\ request \in {"none", "telemetry", "audit"}
    /\ audited \in BOOLEAN
    /\ accepted \subseteq Envelopes
    /\ erased \subseteq accepted /\ again \subseteq erased

PipelineInit ==
    /\ Init /\ Consumer!Init
    /\ doomed = {} /\ job = NoJob /\ request = "none" /\ audited = FALSE
    /\ accepted = {} /\ erased = {} /\ again = {}

-----------------------------------------------------------------------------
(* The gateway and the tailers.                                            *)

notTail == <<consumerVars, doomed, removal>>

StageEvents ==
    /\ Stage
    /\ accepted' = accepted \cup acked'
    /\ again' = again \cup
           {e \in erased \cap (buffers' \ buffers) : outbox[KeyOf[e]].state = "absent"}
    /\ UNCHANGED <<notTail, erased>>

TailStep(w) ==
    /\ \/ ClaimTailTraces(w) \/ LoadTailTrace(w)
       \/ RecordTailDecision(w) \/ SkipTailDecision(w) \/ FailTailDecision(w)
       \/ ClaimTailOutbox(w) \/ MarkTailOutboxPublished(w) \/ OutboxLeaseLost(w)
    /\ UNCHANGED <<notTail, promises>>

PublishMessage(w) ==
    /\ Publish(w)
    /\ \E e \in message'[w] : Consumer!Produce(e)
    /\ UNCHANGED <<doomed, removal, promises>>

\* The broker refused the record, or stored it and its acknowledgement is lost.
PublishMessageFails(w) ==
    /\ FaultsLeft /\ PublishFails(w)
    /\ \/ topic' = topic /\ UNCHANGED consumerVars
       \/ \E e \in messages[w] : topic' = topic \cup {e} /\ Consumer!Produce(e)
    /\ UNCHANGED <<doomed, removal, promises>>

TailerFault(w) == FaultsLeft /\ Crash(w) /\ UNCHANGED <<notTail, promises>>
TailerRestart(w) == Restart(w) /\ UNCHANGED <<notTail, promises>>

QuietTime(t) == QuietElapses(t) /\ UNCHANGED <<notTail, promises>>
LeaseTime == OrphanedLeaseExpires /\ UNCHANGED <<notTail, promises>>
SlowHolder == FaultsLeft /\ HeldLeaseExpires /\ UNCHANGED <<notTail, promises>>

-----------------------------------------------------------------------------
(* The persistence workers.                                                *)

notConsumer == <<vars, removal, promises>>

AssignPartitions == Consumer!Assign /\ UNCHANGED <<notConsumer, doomed>>
Rebalance == deletes = 0 /\ Consumer!Rebalance /\ UNCHANGED <<notConsumer, doomed>>

ConsumerStep(c) ==
    /\ \/ Consumer!FetchMessage(c) \/ Consumer!ClaimDelivery(c)
       \/ Consumer!MarkPersisted(c) \/ Consumer!MarkFails(c)
       \/ Consumer!CommitMessages(c) \/ Consumer!CommitFails(c)
    /\ UNCHANGED <<notConsumer, doomed>>

\* A mutation spares the rows inserted after it was accepted.
PersistRow(c) ==
    /\ Consumer!Persist(c)
    /\ doomed' = doomed \ {Consumer!Key(c)}
    /\ UNCHANGED notConsumer

PersistRowFails(c) ==
    /\ FaultsLeft /\ Consumer!PersistFails(c)
    /\ doomed' \in {doomed, doomed \ {Consumer!Key(c)}}
    /\ UNCHANGED notConsumer

ConsumerFault(c) ==
    FaultsLeft /\ Consumer!Crash(c) /\ UNCHANGED <<notConsumer, doomed>>
ConsumerRestart(c) == Consumer!Restart(c) /\ UNCHANGED <<notConsumer, doomed>>

-----------------------------------------------------------------------------
(* Retention and deletion.                                                 *)

notStore == <<log, committed, assigned, position, cpc, current, ledger,
              deadLetters, cfaults, rebalances>>

\* ClickHouse, some time after it accepted the mutation (external).
MutationApplies ==
    /\ doomed # {}
    /\ stored' = stored \ doomed
    /\ doomed' = {}
    /\ UNCHANGED <<vars, notStore, removal, promises>>

EventsOf(K) == {e \in Envelopes : KeyOf[e] \in K}

\* The retention job's first call, with rows S older than the cutoff.
DeleteOlderThan == \E S \in SUBSET stored :
    /\ RemovalsLeft /\ retentions < MaxRetention
    /\ doomed' = doomed \cup S
    /\ job' = [step |-> "tail", keys |-> S]
    /\ erased' = erased \cup EventsOf(S)
    /\ UNCHANGED <<vars, consumerVars, request, audited, accepted, again>>

NonRetained == Reasons \ RetainedReasons
Evidence(e) == decisions[TraceOf[e]].reason \in NonRetained

\* Its second call, for the same cutoff: an event key is older than the row
\* stored for it.  The loss records it removes are erased with it.
DeleteTailBefore ==
    /\ job.step = "tail"
    /\ DeleteTailDataBefore
    /\ \A k \in job.keys : keyTrace'[k] = NoTrace
    /\ job' = NoJob
    /\ erased' = erased \cup
           {e \in accepted : Evidence(e) /\ decisions'[TraceOf[e]] = NoDecision}
    /\ UNCHANGED <<consumerVars, doomed, request, audited, accepted, again>>

\* The second call failed and the job exits; its next run starts anew.
JobFails ==
    /\ job.step = "tail"
    /\ job' = NoJob
    /\ retentions' = retentions + 1
    /\ UNCHANGED <<tables, topic, workers, del, history, faults, deletes,
                   consumerVars, doomed, request, audited, promises>>

\* The deletion request: its transaction, statement by statement.
DeleteTail ==
    /\ request = "none"
    /\ (DeletionLeft /\ DeleteOutbox) \/ DeleteEventKeys \/ DeleteDecisions \/ DeleteRollback
    /\ UNCHANGED <<notTail, promises>>

DeleteTailCommits ==
    /\ DeleteTraces
    /\ request' = "telemetry"
    /\ job' = [job EXCEPT !.keys = {}]
    /\ erased' = erased \cup accepted
    /\ UNCHANGED <<consumerVars, doomed, audited, accepted, again>>

DeleteTenantTelemetry ==
    /\ request = "telemetry"
    /\ doomed' = stored
    /\ request' = "audit"
    /\ erased' = erased \cup EventsOf(stored)
    /\ UNCHANGED <<vars, consumerVars, job, audited, accepted, again>>

RecordAudit ==
    /\ request = "audit"
    /\ request' = "none" /\ audited' = TRUE
    /\ UNCHANGED <<vars, consumerVars, doomed, job, promises>>

\* The mutation or the audit record failed: the API answers 503.
RequestFails ==
    /\ request # "none"
    /\ request' = "none"
    /\ UNCHANGED <<vars, consumerVars, doomed, job, audited, promises>>

-----------------------------------------------------------------------------
Tailer(w) == TailStep(w) \/ PublishMessage(w)
Worker(c) == ConsumerStep(c) \/ PersistRow(c)

PipelineNext ==
    \/ StageEvents
    \/ \E w \in Workers : Tailer(w) \/ PublishMessageFails(w)
                          \/ TailerFault(w) \/ TailerRestart(w)
    \/ \E t \in Traces : QuietTime(t)
    \/ LeaseTime \/ SlowHolder
    \/ AssignPartitions \/ Rebalance
    \/ \E c \in Consumers : Worker(c) \/ PersistRowFails(c)
                            \/ ConsumerFault(c) \/ ConsumerRestart(c)
    \/ DeleteOlderThan \/ DeleteTailBefore \/ JobFails \/ MutationApplies
    \/ DeleteTail \/ DeleteTailCommits
    \/ DeleteTenantTelemetry \/ RecordAudit \/ RequestFails

PipelineSpec == PipelineInit /\ [][PipelineNext]_allVars

\* The fairness of the two components.
PipelineFairness ==
    /\ \A w \in Workers : WF_allVars(Tailer(w)) /\ WF_allVars(TailerRestart(w))
    /\ \A t \in Traces : WF_allVars(QuietTime(t))
    /\ WF_allVars(LeaseTime)
    /\ WF_allVars(AssignPartitions)
    /\ \A c \in Consumers : WF_allVars(Worker(c)) /\ WF_allVars(ConsumerRestart(c))
    /\ WF_allVars(del.step # "none" /\ (DeleteTail \/ DeleteTailCommits))

FairPipelineSpec == PipelineSpec /\ PipelineFairness

-----------------------------------------------------------------------------
(* Properties.                                                             *)

\* Still on its way: buffered, pending in the outbox, or in the topic at an
\* offset the group has not committed.
InFlight(e) ==
    \/ e \in buffers
    \/ outbox[KeyOf[e]].state = "pending"
    \/ \E p \in Partitions : \E i \in (committed[p] + 1)..Len(log[p]) : log[p][i] = e

Traceable(e) == KeyOf[e] \in stored \/ InFlight(e) \/ Evidence(e)

\* README: "accepted events are durably acknowledged or an explicit evidenced
\* loss state is reported".  Across every hand-over, crash and lost answer an
\* accepted event that was not erased is on its way, stored, or its trace has a
\* decision on record that names the loss (until the first explicit deletion).
NothingVanishes ==
    deletes = 0 => \A e \in accepted \ erased : Traceable(e)

\* Whatever retention and deletion remove in which order, the ledger calls an
\* event persisted only if ClickHouse has it or its owner's data was erased.
LedgerTrue ==
    \A e \in Envelopes : ledger[KeyOf[e]] = "persisted" =>
        KeyOf[e] \in stored \/ e \in erased

\* An event whose loss is on record is not delivered as well, and no event
\* delivered is called lost (until the retention job or a deletion runs).
NeverBoth ==
    retentions = 0 /\ deletes = 0 =>
        \A e \in Envelopes : Evidence(e) =>
            ~InTopic(e) /\ outbox[KeyOf[e]].state = "absent" /\ KeyOf[e] \notin stored

\* What an event's owner sees of it.  After an explicit deletion nothing is
\* promised: what goes wrong then has runs of its own.
Status(e) ==
    IF deletes > 0 \/ e \in erased THEN "erased"
    ELSE IF KeyOf[e] \in stored THEN "stored"
    ELSE IF e \in accepted /\ Evidence(e) /\ ~InFlight(e) THEN "lost"
    ELSE IF e \in accepted THEN "accepted" ELSE "new"

Promise == INSTANCE Delivery WITH
    Events <- Envelopes, status <- [e \in Envelopes |-> Status(e)]

\* docs/architecture.md, the state diagram: an accepted event is stored or lost
\* with evidence, for good, and in the end one of them.
Delivers == Promise!Spec

\* README, the same sentence, of an event sent again after its retention, when
\* the tail store has nothing of it left and the gateway takes it for a new one.
ResentKept == \A e \in again : Traceable(e)

\* docs/retention-model.md: a tenant "may also request deletion of all of its
\* sanitized telemetry".  After the answer "mutation_requested" an event accepted
\* before the deletion and not sent again is never written to ClickHouse.
NoResurfacing ==
    [][audited => \A e \in erased \ again :
          KeyOf[e] \notin stored => KeyOf[e] \notin stored']_allVars

=============================================================================
