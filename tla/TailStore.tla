----------------------------- MODULE TailStore -----------------------------
(***************************************************************************)
(* The durable tail-sampling boundary of one tenant: the PostgreSQL tail   *)
(* tables (internal/metadata/tail.go), the tailer processes that decide    *)
(* quiet traces and publish retained spans (internal/tail/runner.go), the  *)
(* retention job and the explicit tenant deletion.                         *)
(*                                                                         *)
(* A PostgreSQL transaction is one action unless its interleaving is       *)
(* visible.  StageBatch, ClaimTailTraces, RecordTailDecision, and the rest *)
(* lock every row they decide on before they read it (advisory lock per    *)
(* shard, FOR UPDATE), so each equals its commit point.                    *)
(* DeleteTenantTailData locks nothing ahead and each of its statements has *)
(* its own READ COMMITTED snapshot: it is one action per statement.        *)
(*                                                                         *)
(* Time is not a number: a trace is quiet or not, a lease expired or not,  *)
(* and the actions that stand for the clock set those flags.               *)
(*                                                                         *)
(* An operator named Name_variant, placed before Name, is a wrong Name: it *)
(* is no part of the specification, and the runs must reject it.           *)
(***************************************************************************)
EXTENDS Integers, FiniteSets

CONSTANTS
    Traces,       \* trace IDs of the tenant
    Envelopes,    \* sanitized events a client may send
    Keys,         \* event keys, "tenant:eventId"
    TraceOf,      \* [Envelopes -> Traces], the trace an event belongs to
    KeyOf,        \* [Envelopes -> Keys], its event key
    ShardOf,      \* [Traces -> shard], the trace ID's advisory lock shard
    ShardCap,     \* undecided traces a shard admits (MaxTraces / shards)
    MaxSpans,     \* defaultTailMaxSpans
    MaxBatch,     \* bound: events of one trace in one request
    ErrorSpans,   \* envelopes isError holds of
    SlowSpans,    \* envelopes isSlow holds of
    SampledTraces,\* traces the healthy-sample hash keeps
    Workers,      \* tailer processes
    OwnerOf,      \* [Workers -> owner], Config.Owner of each process
    BatchSize,    \* Config.BatchSize
    NoOwner, NoTrace, NoLease,
    MaxFaults,    \* bound: crashes, failed publishes and slow lease holders
    MaxRetention, \* bound: runs of the retention job
    MaxDeletes    \* bound: explicit deletion requests

Owners == {OwnerOf[w] : w \in Workers}

ASSUME EventAssumption ==
    /\ TraceOf \in [Envelopes -> Traces]
    /\ KeyOf \in [Envelopes -> Keys]
    /\ NoTrace \notin Traces

ASSUME BoundAssumption ==
    /\ ShardCap \in Nat \ {0}
    /\ MaxSpans \in Nat \ {0}
    /\ MaxBatch \in Nat \ {0}
    /\ BatchSize \in Nat \ {0}
    /\ MaxFaults \in Nat
    /\ MaxRetention \in Nat
    /\ MaxDeletes \in Nat

ASSUME OwnerAssumption ==
    /\ DOMAIN OwnerOf = Workers
    /\ NoOwner \notin Owners

ASSUME FiniteAssumption == IsFiniteSet(Envelopes)

\* Every tailer has its own owner name, as in the Helm chart (the pod's name).
OwnersDistinct == \A v, w \in Workers : OwnerOf[v] = OwnerOf[w] => v = w

VARIABLES
    traces,       \* tail_traces
    buffers,      \* tail_buffers: the buffered envelopes
    keyTrace,     \* tail_event_keys: the trace each known key was staged for
    decisions,    \* tail_decisions
    outbox,       \* tail_outbox
    topic,        \* envelopes the broker has acknowledged or stored
    pc,           \* where each tailer is in Runner.Process
    leases,       \* claimed traces a tailer has not finished with
    lease,        \* the one it loaded and is about to record
    reason,       \* the decision it computed
    messages,     \* claimed outbox messages it has not marked yet
    message,      \* the one it published
    del,          \* the running DeleteTenantTailData transaction
    acked,        \* history: events answered 202 and not deleted since
    faults, retentions, deletes   \* counters of the bounded actions

tables == <<traces, buffers, keyTrace, decisions, outbox>>
workers == <<pc, leases, lease, reason, messages, message>>
history == <<acked>>
bounds == <<faults, retentions, deletes>>
vars == <<tables, topic, workers, del, history, bounds>>

-----------------------------------------------------------------------------
(* Rows.                                                                   *)

RetainedReasons == {"retained_error", "retained_slow", "retained_healthy_sample"}
TailerReasons == RetainedReasons \cup {"dropped_healthy_sample"}
Reasons == TailerReasons \cup {"evicted_pressure", "evicted_span_limit"}

\* decision is "undecided" while decided_at is null, "absent" without a row.
TraceRow ==
    [decision : Reasons \cup {"absent", "undecided"}, generation : Nat,
     spanCount : Nat, owner : Owners \cup {NoOwner},
     leased : BOOLEAN, quiet : BOOLEAN]
AbsentTrace ==
    [decision |-> "absent", generation |-> 0, spanCount |-> 0,
     owner |-> NoOwner, leased |-> FALSE, quiet |-> FALSE]
NewTrace == [AbsentTrace EXCEPT !.decision = "undecided", !.generation = 1]

DecisionRow == [reason : Reasons \cup {"absent"}, spanCount : Nat]
NoDecision == [reason |-> "absent", spanCount |-> 0]

\* An outbox row keeps the envelope; with no row it is "absent".
OutboxRow ==
    [state : {"absent", "pending", "published"},
     envelope : SUBSET Envelopes,
     owner : Owners \cup {NoOwner}, leased : BOOLEAN]
NoMessage ==
    [state |-> "absent", envelope |-> {}, owner |-> NoOwner, leased |-> FALSE]

Lease == [trace : Traces, generation : Nat]
Deletion ==
    [step : {"none", "outbox", "keys", "decisions"}, outbox : SUBSET Keys,
     keys : SUBSET Keys, decisions : SUBSET Traces]
NoDeletion ==
    [step |-> "none", outbox |-> {}, keys |-> {}, decisions |-> {}]

Absent(t) == traces[t].decision = "absent"
Open(t) == traces[t].decision = "undecided"
Decided(t) == traces[t].decision \in Reasons
Buffered(t) == {e \in buffers : TraceOf[e] = t}
KeysOf(S) == {KeyOf[e] : e \in S}
Min2(a, b) == IF a < b THEN a ELSE b

Decide_noReason(t, spans) ==
    IF spans \cap ErrorSpans # {} THEN "retained_error"
    ELSE IF spans \cap SlowSpans # {} THEN "retained_slow"
    ELSE IF t \in SampledTraces THEN "retained_healthy_sample" ELSE "none"

\* sampling.Decide: errors, then slow spans, then the trace ID's hash.
Decide(t, spans) ==
    IF spans \cap ErrorSpans # {} THEN "retained_error"
    ELSE IF spans \cap SlowSpans # {} THEN "retained_slow"
    ELSE IF t \in SampledTraces THEN "retained_healthy_sample"
    ELSE "dropped_healthy_sample"

TypeOK ==
    /\ traces \in [Traces -> TraceRow]
    /\ buffers \subseteq Envelopes
    /\ keyTrace \in [Keys -> Traces \cup {NoTrace}]
    /\ decisions \in [Traces -> DecisionRow]
    /\ outbox \in [Keys -> OutboxRow]
    /\ topic \subseteq Envelopes
    /\ pc \in [Workers -> {"idle", "trace", "record", "publish", "mark", "down"}]
    /\ leases \in [Workers -> SUBSET Lease]
    /\ lease \in [Workers -> Lease \cup {NoLease}]
    /\ reason \in [Workers -> TailerReasons \cup {"none"}]
    /\ messages \in [Workers -> SUBSET Envelopes]
    /\ message \in [Workers -> SUBSET Envelopes]
    /\ del \in Deletion
    /\ acked \subseteq Envelopes
    /\ faults \in 0..MaxFaults
    /\ retentions \in 0..MaxRetention
    /\ deletes \in 0..MaxDeletes

Init ==
    /\ traces = [t \in Traces |-> AbsentTrace]
    /\ buffers = {}
    /\ keyTrace = [k \in Keys |-> NoTrace]
    /\ decisions = [t \in Traces |-> NoDecision]
    /\ outbox = [k \in Keys |-> NoMessage]
    /\ topic = {}
    /\ pc = [w \in Workers |-> "idle"]
    /\ leases = [w \in Workers |-> {}]
    /\ lease = [w \in Workers |-> NoLease]
    /\ reason = [w \in Workers |-> "none"]
    /\ messages = [w \in Workers |-> {}]
    /\ message = [w \in Workers |-> {}]
    /\ del = NoDeletion
    /\ acked = {}
    /\ faults = 0 /\ retentions = 0 /\ deletes = 0

-----------------------------------------------------------------------------
(* Gateway: StageBatch, for the events B of one request in trace t.        *)
(* A refused request changes no table: its transaction rolls back.         *)

notStaging == <<topic, workers, del, bounds>>

ShardActive(t) == {u \in Traces : Open(u) /\ ShardOf[u] = ShardOf[t]}

Fresh(B) == {e \in B : keyTrace[KeyOf[e]] = NoTrace}

Victims_anyTrace(t) ==
    LET rows == {u \in Traces : ~Absent(u) /\ ShardOf[u] = ShardOf[t]} IN
    IF Absent(t) /\ Cardinality(rows) >= ShardCap
    THEN {{v} : v \in rows}
    ELSE {{}}

Victims_offByOne(t) ==
    IF Absent(t) /\ Cardinality(ShardActive(t)) > ShardCap
    THEN {{v} : v \in ShardActive(t)}
    ELSE {{}}

\* The trace evicted to make room, if any.  It is the oldest one whose row is
\* not locked at that moment (SKIP LOCKED), so it may be any of the shard.
Victims(t) ==
    IF Absent(t) /\ Cardinality(ShardActive(t)) >= ShardCap
    THEN {{v} : v \in ShardActive(t)}
    ELSE {{}}

Evicted(t) ==
    [traces[t] EXCEPT !.decision = "evicted_pressure", !.owner = NoOwner,
                      !.leased = FALSE, !.spanCount = Cardinality(Buffered(t))]

EvictionRow_notRecorded(t) == decisions[t]

\* evictTailTrace: ON CONFLICT DO NOTHING keeps a decision already there.
EvictionRow(t) ==
    IF decisions[t] = NoDecision
    THEN [reason |-> "evicted_pressure", spanCount |-> Cardinality(Buffered(t))]
    ELSE decisions[t]

StagedRow_sameGeneration(t, n) ==
    LET row == IF Absent(t) THEN NewTrace ELSE traces[t] IN
    IF n = 0 THEN row
    ELSE [row EXCEPT !.spanCount = @ + n, !.quiet = FALSE]

StagedRow_countsRequests(t, n) ==
    LET row == IF Absent(t) THEN NewTrace ELSE traces[t] IN
    IF n = 0 THEN row
    ELSE [row EXCEPT !.generation = @ + 1, !.spanCount = @ + 1, !.quiet = FALSE]

\* The trace's row after n new spans: with none it is created or left alone.
StagedRow(t, n) ==
    LET row == IF Absent(t) THEN NewTrace ELSE traces[t] IN
    IF n = 0 THEN row
    ELSE [row EXCEPT !.generation = @ + 1, !.spanCount = @ + n, !.quiet = FALSE]

WithinSpanLimit(t, n) == traces[t].spanCount + n <= MaxSpans

\* An event key still in tail_buffers violates that table's primary key.
BufferKeysFree(fresh, remaining) ==
    /\ KeysOf(fresh) \cap KeysOf(remaining) = {}
    /\ \A e, f \in fresh : KeyOf[e] = KeyOf[f] => e = f

StageAccepted(t, B) == \E victims \in Victims(t) :
    LET fresh == Fresh(B)
        remaining == {e \in buffers : TraceOf[e] \notin victims}
    IN
    /\ ~Decided(t)
    /\ KeysOf(B) \cap del.keys = {}
    /\ victims \cap del.decisions = {}
    /\ fresh = {} \/ WithinSpanLimit(t, Cardinality(fresh))
    /\ BufferKeysFree(fresh, remaining)
    /\ traces' = [u \in Traces |->
           IF u = t THEN StagedRow(t, Cardinality(fresh))
           ELSE IF u \in victims THEN Evicted(u) ELSE traces[u]]
    /\ buffers' = remaining \cup fresh
    /\ keyTrace' = [k \in Keys |->
           IF k \in KeysOf(fresh) THEN t ELSE keyTrace[k]]
    /\ decisions' = [u \in Traces |->
           IF u \in victims THEN EvictionRow(u) ELSE decisions[u]]
    /\ acked' = acked \cup B
    /\ UNCHANGED <<outbox, notStaging>>

KnownTo_any(t, B) == \E e \in B : keyTrace[KeyOf[e]] = t

KnownTo(t, B) == \A e \in B : keyTrace[KeyOf[e]] = t

\* A retry of events the decided trace already knows is acknowledged again.
StageDuplicate(t, B) ==
    /\ Decided(t)
    /\ KnownTo(t, B)
    /\ acked' = acked \cup B
    /\ UNCHANGED <<tables, notStaging>>

\* The refusals (a closed trace and an unknown key, the span limit, a buffer
\* key conflict, every candidate victim locked) leave the state as it is.
Stage == \E t \in Traces : \E B \in SUBSET {e \in Envelopes : TraceOf[e] = t} :
    /\ Cardinality(B) \in 1..MaxBatch
    /\ StageAccepted(t, B) \/ StageDuplicate(t, B)

-----------------------------------------------------------------------------
(* Tailer: Runner.Process, one database call or publish per step.          *)

Goto(w, label) == pc' = [pc EXCEPT ![w] = label]

\* Process returned an error or the process died: all it held is forgotten.
Exit(w) ==
    /\ Goto(w, "down")
    /\ leases' = [leases EXCEPT ![w] = {}]
    /\ lease' = [lease EXCEPT ![w] = NoLease]
    /\ reason' = [reason EXCEPT ![w] = "none"]
    /\ messages' = [messages EXCEPT ![w] = {}]
    /\ message' = [message EXCEPT ![w] = {}]

Claimable_neverClaimed ==
    {t \in Traces : Open(t) /\ traces[t].quiet /\ traces[t].owner = NoOwner}

Claimable == {t \in Traces : Open(t) /\ traces[t].quiet /\ ~traces[t].leased}

ClaimTailTraces(w) == \E S \in SUBSET Claimable :
    /\ pc[w] = "idle"
    /\ Cardinality(S) = Min2(BatchSize, Cardinality(Claimable))
    /\ traces' = [t \in Traces |->
           IF t \in S THEN [traces[t] EXCEPT !.owner = OwnerOf[w], !.leased = TRUE]
           ELSE traces[t]]
    /\ leases' = [leases EXCEPT ![w] =
           {[trace |-> t, generation |-> traces[t].generation] : t \in S}]
    /\ Goto(w, "trace")
    /\ UNCHANGED <<buffers, keyTrace, decisions, outbox, topic, lease, reason,
                   messages, message, del, history, bounds>>

\* LoadTailTrace, and sampling.Decide on what it returned.
LoadTailTrace(w) == \E l \in leases[w] :
    /\ pc[w] = "trace"
    /\ lease' = [lease EXCEPT ![w] = l]
    /\ reason' = [reason EXCEPT ![w] = Decide(l.trace, Buffered(l.trace))]
    /\ Goto(w, "record")
    /\ UNCHANGED <<tables, topic, leases, messages, message, del, history, bounds>>

LeaseValid_anyGeneration(w) ==
    LET row == traces[lease[w].trace] IN
    /\ row.decision = "undecided"
    /\ row.owner = OwnerOf[w]

LeaseValid_anyOwner(w) ==
    LET row == traces[lease[w].trace] IN
    /\ row.decision = "undecided"
    /\ row.generation = lease[w].generation

\* What RecordTailDecision checks under the row lock.
LeaseValid(w) ==
    LET row == traces[lease[w].trace] IN
    /\ row.decision = "undecided"
    /\ row.owner = OwnerOf[w]
    /\ row.generation = lease[w].generation

NextLease(w) ==
    /\ Goto(w, "trace")
    /\ leases' = [leases EXCEPT ![w] = @ \ {lease[w]}]
    /\ lease' = [lease EXCEPT ![w] = NoLease]
    /\ reason' = [reason EXCEPT ![w] = "none"]

Kept_all(w) == Buffered(lease[w].trace)

\* The envelopes RecordTailDecision copies to the outbox.
Kept(w) ==
    IF reason[w] \in RetainedReasons THEN Buffered(lease[w].trace) ELSE {}

RecordTailDecision(w) ==
    LET t == lease[w].trace
        n == Cardinality(Buffered(t))
    IN
    /\ pc[w] = "record"
    /\ LeaseValid(w)
    /\ KeysOf(Kept(w)) \cap del.outbox = {}
    /\ decisions[t] = NoDecision
    /\ outbox' = [k \in Keys |->
           IF k \in KeysOf(Kept(w)) /\ outbox[k].state = "absent"
           THEN [NoMessage EXCEPT !.state = "pending",
                                  !.envelope = {e \in Kept(w) : KeyOf[e] = k}]
           ELSE outbox[k]]
    /\ buffers' = buffers \ Buffered(t)
    /\ traces' = [traces EXCEPT ![t] =
           [@ EXCEPT !.decision = reason[w], !.owner = NoOwner,
                     !.leased = FALSE, !.spanCount = n]]
    /\ decisions' = [decisions EXCEPT ![t] =
           [reason |-> reason[w], spanCount |-> n]]
    /\ NextLease(w)
    /\ UNCHANGED <<keyTrace, topic, messages, message, del, history, bounds>>

\* The trace changed, or the lease went to another worker: a no-op.
SkipTailDecision(w) ==
    /\ pc[w] = "record"
    /\ ~LeaseValid(w)
    /\ NextLease(w)
    /\ UNCHANGED <<tables, topic, messages, message, del, history, bounds>>

\* tail_decisions already has the trace: the insert fails, Process returns.
FailTailDecision(w) ==
    /\ pc[w] = "record"
    /\ LeaseValid(w)
    /\ KeysOf(Kept(w)) \cap del.outbox = {}
    /\ lease[w].trace \notin del.decisions
    /\ decisions[lease[w].trace] # NoDecision
    /\ Exit(w)
    /\ UNCHANGED <<tables, topic, del, history, bounds>>

Deliverable_neverClaimed ==
    {k \in Keys \ del.outbox : outbox[k].state = "pending" /\ outbox[k].owner = NoOwner}

Deliverable ==
    {k \in Keys \ del.outbox : outbox[k].state = "pending" /\ ~outbox[k].leased}

ClaimTailOutbox(w) == \E S \in SUBSET Deliverable :
    /\ pc[w] = "trace" /\ leases[w] = {}
    /\ Cardinality(S) = Min2(BatchSize, Cardinality(Deliverable))
    /\ outbox' = [k \in Keys |->
           IF k \in S THEN [outbox[k] EXCEPT !.owner = OwnerOf[w], !.leased = TRUE]
           ELSE outbox[k]]
    /\ messages' = [messages EXCEPT ![w] = UNION {outbox[k].envelope : k \in S}]
    /\ Goto(w, IF S = {} THEN "idle" ELSE "publish")
    /\ UNCHANGED <<traces, buffers, keyTrace, decisions, topic, leases, lease,
                   reason, message, del, history, bounds>>

Publish_unacknowledged(w) == \E e \in messages[w] :
    /\ pc[w] = "publish"
    /\ topic' \in {topic, topic \cup {e}}
    /\ message' = [message EXCEPT ![w] = {e}]
    /\ Goto(w, "mark")
    /\ UNCHANGED <<tables, leases, lease, reason, messages, del, history, bounds>>

Publish(w) == \E e \in messages[w] :
    /\ pc[w] = "publish"
    /\ topic' = topic \cup {e}
    /\ message' = [message EXCEPT ![w] = {e}]
    /\ Goto(w, "mark")
    /\ UNCHANGED <<tables, leases, lease, reason, messages, del, history, bounds>>

PublishFails_marks(w) == \E e \in messages[w] :
    /\ pc[w] = "publish"
    /\ faults < MaxFaults /\ faults' = faults + 1
    /\ topic' \in {topic, topic \cup {e}}
    /\ message' = [message EXCEPT ![w] = {e}]
    /\ Goto(w, "mark")
    /\ UNCHANGED <<tables, leases, lease, reason, messages, del, history,
                   retentions, deletes>>

\* The broker refused the record, or stored it and its acknowledgement is lost.
PublishFails(w) == \E e \in messages[w] :
    /\ pc[w] = "publish"
    /\ faults < MaxFaults /\ faults' = faults + 1
    /\ topic' \in {topic, topic \cup {e}}
    /\ Exit(w)
    /\ UNCHANGED <<tables, del, history, retentions, deletes>>

HoldsMessage(w, k) == outbox[k].state = "pending" /\ outbox[k].owner = OwnerOf[w]

MarkTailOutboxPublished(w) == \E e \in message[w] :
    /\ pc[w] = "mark"
    /\ KeyOf[e] \notin del.outbox
    /\ HoldsMessage(w, KeyOf[e])
    /\ outbox' = [outbox EXCEPT ![KeyOf[e]] =
           [@ EXCEPT !.state = "published", !.owner = NoOwner, !.leased = FALSE]]
    /\ messages' = [messages EXCEPT ![w] = @ \ {e}]
    /\ message' = [message EXCEPT ![w] = {}]
    /\ Goto(w, IF messages[w] = {e} THEN "idle" ELSE "publish")
    /\ UNCHANGED <<traces, buffers, keyTrace, decisions, topic, leases, lease,
                   reason, del, history, bounds>>

\* "tail outbox lease lost": Process returns the error.
OutboxLeaseLost(w) == \E e \in message[w] :
    /\ pc[w] = "mark"
    /\ KeyOf[e] \notin del.outbox
    /\ ~HoldsMessage(w, KeyOf[e])
    /\ Exit(w)
    /\ UNCHANGED <<tables, topic, del, history, bounds>>

Restart(w) ==
    /\ pc[w] = "down"
    /\ Goto(w, "idle")
    /\ UNCHANGED <<tables, topic, leases, lease, reason, messages, message, del,
                   history, bounds>>

Crash(w) ==
    /\ pc[w] # "down"
    /\ faults < MaxFaults /\ faults' = faults + 1
    /\ Exit(w)
    /\ UNCHANGED <<tables, topic, del, history, retentions, deletes>>

-----------------------------------------------------------------------------
(* Clock: now() passes last_seen + quiet, or a lease's expiry.  A lease     *)
(* that outlives its holder expires by itself; one that expires while its  *)
(* holder still works is a slow holder and counts as a fault.              *)

QuietElapses(t) ==
    /\ Open(t) /\ ~traces[t].quiet
    /\ traces' = [traces EXCEPT ![t].quiet = TRUE]
    /\ UNCHANGED <<buffers, keyTrace, decisions, outbox, topic, workers, del,
                   history, bounds>>

TraceHeld(t) ==
    \E w \in Workers : OwnerOf[w] = traces[t].owner /\ \E l \in leases[w] : l.trace = t

TraceLeaseExpires(t) ==
    /\ traces[t].leased
    /\ traces' = [traces EXCEPT ![t].leased = FALSE]
    /\ UNCHANGED <<buffers, keyTrace, decisions, outbox, topic, workers, del, history>>

MessageHeld(k) ==
    \E w \in Workers : OwnerOf[w] = outbox[k].owner /\ k \in KeysOf(messages[w])

MessageLeaseExpires(k) ==
    /\ outbox[k].leased
    /\ k \notin del.outbox
    /\ outbox' = [outbox EXCEPT ![k].leased = FALSE]
    /\ UNCHANGED <<traces, buffers, keyTrace, decisions, topic, workers, del, history>>

OrphanedLeaseExpires ==
    /\ \/ \E t \in Traces : ~TraceHeld(t) /\ TraceLeaseExpires(t)
       \/ \E k \in Keys : ~MessageHeld(k) /\ MessageLeaseExpires(k)
    /\ UNCHANGED bounds

HeldLeaseExpires ==
    /\ faults < MaxFaults /\ faults' = faults + 1
    /\ \/ \E t \in Traces : TraceHeld(t) /\ TraceLeaseExpires(t)
       \/ \E k \in Keys : MessageHeld(k) /\ MessageLeaseExpires(k)
    /\ UNCHANGED <<retentions, deletes>>

-----------------------------------------------------------------------------
(* Retention job: DeleteTailDataBefore, for a cutoff that the rows D, K and *)
(* O are older than.  A decided trace, its decision and its outbox rows     *)
(* carry the same transaction time, and its event keys an earlier one.      *)

DecidedTraces == {t \in Traces : Decided(t)}
KeysWithTraceIn(T) == {k \in Keys : keyTrace[k] \in T}
PublishedWithTraceIn_anyState(T) ==
    {k \in Keys : \E e \in outbox[k].envelope : TraceOf[e] \in T}

PublishedWithTraceIn(T) ==
    {k \in Keys : /\ outbox[k].state = "published"
                  /\ \E e \in outbox[k].envelope : TraceOf[e] \in T}

Between(lower, upper) == {S \in SUBSET upper : lower \subseteq S}

DeleteTailDataBefore == \E D \in SUBSET DecidedTraces :
    \E K \in Between(KeysWithTraceIn(D), KeysWithTraceIn(Traces)),
       O \in Between(PublishedWithTraceIn(D),
                     PublishedWithTraceIn(D \cup (Traces \ DecidedTraces))),
       X \in Between(D, D \cup (Traces \ DecidedTraces)) :
    /\ retentions < MaxRetention /\ retentions' = retentions + 1
    /\ O \cap del.outbox = {} /\ K \cap del.keys = {} /\ X \cap del.decisions = {}
    /\ outbox' = [k \in Keys |-> IF k \in O THEN NoMessage ELSE outbox[k]]
    /\ keyTrace' = [k \in Keys |-> IF k \in K THEN NoTrace ELSE keyTrace[k]]
    /\ decisions' = [t \in Traces |-> IF t \in X THEN NoDecision ELSE decisions[t]]
    /\ traces' = [t \in Traces |-> IF t \in D THEN AbsentTrace ELSE traces[t]]
    /\ acked' = {e \in acked : KeyOf[e] \notin K}
    /\ UNCHANGED <<buffers, topic, workers, del, faults, deletes>>

-----------------------------------------------------------------------------
(* Explicit deletion: DeleteTenantTailData.  A statement deletes the rows   *)
(* committed when it starts; until the commit others still read them and    *)
(* wait to change them.                                                     *)

notDeleting == <<topic, workers, faults, retentions>>

DeleteOutbox ==
    /\ del.step = "none"
    /\ deletes < MaxDeletes /\ deletes' = deletes + 1
    /\ del' = [NoDeletion EXCEPT !.step = "outbox",
                   !.outbox = {k \in Keys : outbox[k].state # "absent"}]
    /\ UNCHANGED <<tables, acked, notDeleting>>

DeleteEventKeys ==
    /\ del.step = "outbox"
    /\ del' = [del EXCEPT !.step = "keys", !.keys = {k \in Keys : keyTrace[k] # NoTrace}]
    /\ UNCHANGED <<tables, acked, deletes, notDeleting>>

DeleteDecisions ==
    /\ del.step = "keys"
    /\ del' = [del EXCEPT !.step = "decisions",
                          !.decisions = {t \in Traces : decisions[t] # NoDecision}]
    /\ UNCHANGED <<tables, acked, deletes, notDeleting>>

DeleteTraces_noCascade ==
    /\ del.step = "decisions"
    /\ outbox' = [k \in Keys |-> IF k \in del.outbox THEN NoMessage ELSE outbox[k]]
    /\ keyTrace' = [k \in Keys |-> IF k \in del.keys THEN NoTrace ELSE keyTrace[k]]
    /\ decisions' = [t \in Traces |->
           IF t \in del.decisions THEN NoDecision ELSE decisions[t]]
    /\ traces' = [t \in Traces |-> AbsentTrace]
    /\ acked' = {}
    /\ del' = NoDeletion
    /\ UNCHANGED <<buffers, deletes, notDeleting>>

\* The traces, their buffers by ON DELETE CASCADE, and the commit.
DeleteTraces ==
    /\ del.step = "decisions"
    /\ outbox' = [k \in Keys |-> IF k \in del.outbox THEN NoMessage ELSE outbox[k]]
    /\ keyTrace' = [k \in Keys |-> IF k \in del.keys THEN NoTrace ELSE keyTrace[k]]
    /\ decisions' = [t \in Traces |->
           IF t \in del.decisions THEN NoDecision ELSE decisions[t]]
    /\ traces' = [t \in Traces |-> AbsentTrace]
    /\ buffers' = {}
    /\ acked' = {}
    /\ del' = NoDeletion
    /\ UNCHANGED <<deletes, notDeleting>>

\* A statement or the commit failed: the API answers 503.
DeleteRollback ==
    /\ del.step # "none"
    /\ del' = NoDeletion
    /\ UNCHANGED <<tables, acked, deletes, notDeleting>>

DeleteTenantTailData ==
    DeleteOutbox \/ DeleteEventKeys \/ DeleteDecisions \/ DeleteTraces \/ DeleteRollback

-----------------------------------------------------------------------------
Process(w) ==
    \/ ClaimTailTraces(w) \/ LoadTailTrace(w)
    \/ RecordTailDecision(w) \/ SkipTailDecision(w) \/ FailTailDecision(w)
    \/ ClaimTailOutbox(w) \/ Publish(w)
    \/ MarkTailOutboxPublished(w) \/ OutboxLeaseLost(w)

Next ==
    \/ Stage
    \/ \E w \in Workers : Process(w) \/ PublishFails(w) \/ Crash(w) \/ Restart(w)
    \/ \E t \in Traces : QuietElapses(t)
    \/ OrphanedLeaseExpires \/ HeldLeaseExpires
    \/ DeleteTailDataBefore
    \/ DeleteTenantTailData

Spec == Init /\ [][Next]_vars

\* A running tailer keeps ticking, a dead one is restarted (Deployment), the
\* clock advances.  Requests, faults, retention and deletions need not happen.
Fairness ==
    /\ \A w \in Workers : WF_vars(Process(w)) /\ WF_vars(Restart(w))
    /\ \A t \in Traces : WF_vars(QuietElapses(t))
    /\ WF_vars(OrphanedLeaseExpires)
    /\ WF_vars(del.step # "none" /\ DeleteTenantTailData)

FairSpec == Spec /\ Fairness

-----------------------------------------------------------------------------
(* Properties.                                                             *)

\* Every buffered span belongs to an undecided trace, whose span_count, kept by
\* increments in stageTraceTx, is the number of its buffered spans and within
\* the span limit: a span that outlived its trace would never be decided.
BuffersCounted ==
    /\ \A e \in buffers : Open(TraceOf[e])
    /\ \A t \in Traces : Open(t) =>
           /\ traces[t].spanCount = Cardinality(Buffered(t))
           /\ traces[t].spanCount <= MaxSpans

\* No shard holds more undecided traces than its share of MaxTraces, whatever
\* the order of requests, evictions, decisions and deletions.
ActiveBound == \A t \in Traces : Cardinality(ShardActive(t)) <= ShardCap

\* While RecordTailDecision would accept a tailer's lease, the decision that
\* tailer computed earlier is still the decision for the spans buffered now,
\* however long it was slow and whoever staged, evicted or claimed meanwhile.
LeaseFresh ==
    \A w \in Workers : pc[w] = "record" /\ LeaseValid(w) =>
        reason[w] = Decide(lease[w].trace, Buffered(lease[w].trace))

\* LeaseFresh is inductive with two more facts: a tailer holds leases and
\* messages only at the steps of Process that use them, and an undecided trace
\* still owned by it has not fallen back behind the generation it leased.
WorkerShape ==
    \A w \in Workers :
        /\ pc[w] = "record" => lease[w] \in leases[w] /\ reason[w] \in TailerReasons
        /\ pc[w] \notin {"trace", "record"} => leases[w] = {}
        /\ pc[w] \notin {"publish", "mark"} => messages[w] = {}
        /\ pc[w] = "mark" => message[w] \subseteq messages[w]
GenerationBound ==
    \A w \in Workers : \A l \in leases[w] :
        Open(l.trace) /\ traces[l.trace].owner = OwnerOf[w] =>
            l.generation <= traces[l.trace].generation
LeaseInv == TypeOK /\ WorkerShape /\ GenerationBound /\ LeaseFresh

\* A trace leaves "undecided" through a tailer only with the decision for
\* exactly the spans it has at that moment, and if it is retained every one of
\* those spans has an outbox row afterwards.
DecisionExact ==
    \A t \in Traces : Open(t) /\ traces'[t].decision \in TailerReasons =>
        /\ traces'[t].decision = Decide(t, Buffered(t))
        /\ traces'[t].decision \in RetainedReasons =>
               \A e \in Buffered(t) : outbox'[KeyOf[e]].state # "absent"
TailDecisionExact == [][DecisionExact]_vars

\* An outbox row is marked published only when the broker has its envelope:
\* crashes, lost acknowledgements and stolen leases never lose the publish.
PublishedInTopic ==
    \A k \in Keys : outbox[k].state = "published" => outbox[k].envelope \subseteq topic

\* PublishedInTopic is inductive with four more facts: a buffered event key is
\* unique, an outbox row holds the one envelope of its key, a row a tailer still
\* owns holds the message that tailer claimed, and a message is marked only
\* after its publish.
UniqueBuffers == \A e, f \in buffers : KeyOf[e] = KeyOf[f] => e = f
OutboxEnvelope ==
    \A k \in Keys : outbox[k].state # "absent" =>
        \E e \in Envelopes : outbox[k].envelope = {e} /\ KeyOf[e] = k
ClaimedMessage ==
    \A w \in Workers : \A m \in messages[w] :
        HoldsMessage(w, KeyOf[m]) => outbox[KeyOf[m]].envelope = {m}
MarkAfterPublish == \A w \in Workers : pc[w] = "mark" => message[w] \subseteq topic
PublishInv ==
    /\ TypeOK /\ WorkerShape
    /\ UniqueBuffers /\ OutboxEnvelope /\ ClaimedMessage /\ MarkAfterPublish
    /\ PublishedInTopic

\* A trace is closed exactly when its decision record exists, and the two
\* agree: the investigation record is never missing (until an explicit deletion).
DecisionsAgree ==
    deletes = 0 => \A t \in Traces :
        /\ Decided(t) <=> decisions[t] # NoDecision
        /\ Decided(t) => /\ decisions[t].reason = traces[t].decision
                         /\ decisions[t].spanCount = traces[t].spanCount

\* Once a trace is decided its decision and span count stay as they are until
\* the row is removed: a late lease holder or a retry never reverses it.
DecidedFinal ==
    [][\A t \in Traces : Decided(t) /\ traces'[t].decision # "absent" =>
          /\ traces'[t].decision = traces[t].decision
          /\ traces'[t].spanCount = traces[t].spanCount]_vars

\* README: an accepted event is buffered, in the outbox or at the broker, or a
\* durable decision that does not retain its trace names the loss.
Accounted(e) ==
    LET k == KeyOf[e] IN
    \/ k \in KeysOf(buffers)
    \/ outbox[k].state # "absent"
    \/ k \in KeysOf(topic)
    \/ keyTrace[k] \in Traces /\ decisions[keyTrace[k]].reason \in Reasons \ RetainedReasons
AckedAccounted == deletes = 0 => \A e \in acked : Accounted(e)

\* Buffered spans go away only with the decision that closes their trace, and a
\* pending outbox row only by being published (until an explicit deletion): what
\* the comment on DeleteTailDataBefore promises of the retention job.
UndeliveredKept ==
    [][deletes = 0 =>
       /\ \A e \in buffers \ buffers' : traces'[TraceOf[e]].decision \in Reasons
       /\ \A k \in Keys : outbox[k].state = "pending" => outbox'[k].state # "absent"]_vars

\* Every undecided trace is decided in the end and every pending message
\* published, after finitely many crashes, slow workers and failed publishes.
TracesDecided == \A t \in Traces : Open(t) ~> ~Open(t)
MessagesPublished ==
    \A k \in Keys : outbox[k].state = "pending" ~> outbox[k].state # "pending"

=============================================================================
