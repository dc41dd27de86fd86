------------------------------ MODULE Gateway ------------------------------
(***************************************************************************)
(* The ingestion gateway of one tenant (internal/ingest/gateway.go and its *)
(* OTLP adapters) and the transaction it stages a request in (StageBatch,  *)
(* internal/metadata/tail.go): requests of several traces, each trace      *)
(* staged under its shard's advisory lock, in the random order Go gives a  *)
(* map, beside other requests and tailers.                                 *)
(*                                                                         *)
(* A transaction's writes are its own until it commits: tx[r] keeps them.  *)
(* The statements of stageTraceTx for one trace are one step, because the  *)
(* shard lock and the row lock keep out whoever could change what it reads *)
(* except another request's insert of the same event key, which it waits   *)
(* for.  What a tailer does to a trace is one step too.                    *)
(***************************************************************************)
EXTENDS Integers, FiniteSets

CONSTANTS
    Requests,      \* requests of the tenant's clients
    Events,        \* decoded spans, log records and single events
    Shards,
    Payload,       \* [Requests -> SUBSET Events], the events of a request
    ShardOf,       \* [Traces -> Shards]
    InvalidEvents, \* events valid() rejects
    UnknownCallers,\* requests whose API key belongs to no tenant
    MaxEvents,     \* maxSpans of ingest: events of one request
    ShardCap,      \* undecided traces a shard admits
    MaxSpans,      \* defaultTailMaxSpans
    NoRequest, NoTrace,
    MaxFaults,     \* bound: failed or abandoned transactions, lost answers
    MaxRetries     \* bound: requests sent again

\* An event has a signal ("span", "log", or "ingest" for a single event), the
\* trace it names or NoTrace, and an id: a span's ID, a log's span, time and
\* ordinal in its request, or the event ID the client of /v1/ingest chose.
EventID(e) ==
    CASE e.signal = "span" -> <<e.trace, e.id>>
      [] e.signal = "log" -> <<"log", e.trace, e.id>>
      [] e.signal = "ingest" -> e.id

\* The tenant is the same for all, so the event ID stands for the event key.
KeyOf(e) == EventID(e)

\* tailTraceID: a log with no trace is a trace of its own.
TraceOf(e) ==
    IF e.trace # NoTrace THEN e.trace ELSE <<"unlinked-log", EventID(e)>>

KeysOf(S) == {KeyOf(e) : e \in S}
TracesOf(S) == {TraceOf(e) : e \in S}
Keys == KeysOf(Events)
Traces == TracesOf(Events)

ASSUME PayloadAssumption ==
    /\ Payload \in [Requests -> SUBSET Events]
    /\ \A r \in Requests : IsFiniteSet(Payload[r])
    /\ IsFiniteSet(Events)
    /\ ShardOf \in [Traces -> Shards]

ASSUME NullAssumption == NoRequest \notin Requests /\ NoTrace \notin Traces

ASSUME BoundAssumption ==
    /\ MaxEvents \in Nat \ {0}
    /\ ShardCap \in Nat \ {0}
    /\ MaxSpans \in Nat \ {0}
    /\ MaxFaults \in Nat
    /\ MaxRetries \in Nat

VARIABLES
    traces,       \* tail_traces
    keyTrace,     \* tail_event_keys
    buffers,      \* tail_buffers
    pc,           \* where the handler of each request is
    todo,         \* traces of the request StageBatch has not staged yet
    current,      \* the trace it is staging
    tx,           \* the uncommitted writes of its transaction
    shardLock,    \* who holds each shard's advisory lock
    answer,       \* what the client was told
    staged,       \* history: events buffered by a committed transaction
    faults, retries

tables == <<traces, keyTrace, buffers>>
handler == <<pc, todo, current, tx>>
bounds == <<faults, retries>>
vars == <<tables, handler, shardLock, answer, staged, bounds>>

-----------------------------------------------------------------------------
(* Rows and the view a transaction has of them.                            *)

TraceRow == [state : {"absent", "open", "decided"}, spanCount : 0..MaxSpans]
AbsentTrace == [state |-> "absent", spanCount |-> 0]
Untouched == [state |-> "untouched", spanCount |-> 0]

Writes ==
    [rows : [Traces -> TraceRow \cup {Untouched}],
     keys : [Keys -> Traces \cup {NoTrace}],
     buffers : SUBSET Events,
     evicted : SUBSET Traces]
NoWrites ==
    [rows |-> [t \in Traces |-> Untouched],
     keys |-> [k \in Keys |-> NoTrace],
     buffers |-> {}, evicted |-> {}]

Touches(r, t) == tx[r].rows[t] # Untouched
Row(r, t) == IF Touches(r, t) THEN tx[r].rows[t] ELSE traces[t]
KnownTrace(r, k) == IF tx[r].keys[k] # NoTrace THEN tx[r].keys[k] ELSE keyTrace[k]
VisibleBuffers(r) == {e \in buffers : TraceOf(e) \notin tx[r].evicted} \cup tx[r].buffers
BufferedIn(S, t) == {e \in S : TraceOf(e) = t}

Staging == {"next", "lock", "stage"}

TypeOK ==
    /\ traces \in [Traces -> TraceRow]
    /\ keyTrace \in [Keys -> Traces \cup {NoTrace}]
    /\ buffers \subseteq Events
    /\ pc \in [Requests -> {"new", "done"} \cup Staging]
    /\ todo \in [Requests -> SUBSET Traces]
    /\ current \in [Requests -> Traces \cup {NoTrace}]
    /\ tx \in [Requests -> Writes]
    /\ shardLock \in [Shards -> Requests \cup {NoRequest}]
    /\ answer \in [Requests -> {"none", "accepted", "invalid", "unauthorized", "refused"}]
    /\ staged \subseteq Events
    /\ faults \in 0..MaxFaults
    /\ retries \in 0..MaxRetries

Init ==
    /\ traces = [t \in Traces |-> AbsentTrace]
    /\ keyTrace = [k \in Keys |-> NoTrace]
    /\ buffers = {}
    /\ pc = [r \in Requests |-> "new"]
    /\ todo = [r \in Requests |-> {}]
    /\ current = [r \in Requests |-> NoTrace]
    /\ tx = [r \in Requests |-> NoWrites]
    /\ shardLock = [s \in Shards |-> NoRequest]
    /\ answer = [r \in Requests |-> "none"]
    /\ staged = {}
    /\ faults = 0 /\ retries = 0

-----------------------------------------------------------------------------
(* ServeHTTP and the gRPC services: authenticate, decode, validate every   *)
(* event, fetch the policy, sanitize.  Nothing durable happens before the  *)
(* last event is valid.                                                    *)

Respond(r, a) ==
    /\ pc' = [pc EXCEPT ![r] = "done"]
    /\ answer' = [answer EXCEPT ![r] = a]

Decodes_unchecked(r) == Payload[r] # {} /\ Cardinality(Payload[r]) <= MaxEvents

\* acceptOTLPJSON, acceptOTLPLogsJSON, acceptTraceRequest, acceptLogsRequest.
Decodes(r) ==
    /\ Payload[r] # {} /\ Cardinality(Payload[r]) <= MaxEvents
    /\ Payload[r] \cap InvalidEvents = {}

\* The authenticator comes first, then the decoder.
Rejected(r) ==
    /\ pc[r] = "new"
    /\ r \in UnknownCallers \/ ~Decodes(r)
    /\ Respond(r, IF r \in UnknownCallers THEN "unauthorized" ELSE "invalid")
    /\ UNCHANGED <<tables, todo, current, tx, shardLock, staged, bounds>>

\* The authenticator, the policy resolver or a rule of the policy failed.
PolicyUnavailable(r) ==
    /\ pc[r] = "new"
    /\ faults < MaxFaults /\ faults' = faults + 1
    /\ Respond(r, "refused")
    /\ UNCHANGED <<tables, todo, current, tx, shardLock, staged, retries>>

AcceptEvents(r) ==
    /\ pc[r] = "new"
    /\ r \notin UnknownCallers
    /\ Decodes(r)
    /\ pc' = [pc EXCEPT ![r] = "next"]
    /\ todo' = [todo EXCEPT ![r] = TracesOf(Payload[r])]
    /\ UNCHANGED <<tables, current, tx, shardLock, answer, staged, bounds>>

-----------------------------------------------------------------------------
(* StageBatch.                                                             *)

\* Go ranges over byTrace in an order of its own.
NextTrace(r) == \E t \in todo[r] :
    /\ pc[r] = "next"
    /\ current' = [current EXCEPT ![r] = t]
    /\ pc' = [pc EXCEPT ![r] = "lock"]
    /\ UNCHANGED <<tables, todo, tx, shardLock, answer, staged, bounds>>

AcquireLock_shared(r) ==
    /\ pc[r] = "lock"
    /\ shardLock' = [shardLock EXCEPT ![ShardOf[current[r]]] = r]
    /\ pc' = [pc EXCEPT ![r] = "stage"]
    /\ UNCHANGED <<tables, todo, current, tx, answer, staged, bounds>>

\* pg_advisory_xact_lock: a lock the transaction holds is granted again.
AcquireLock(r) ==
    LET s == ShardOf[current[r]] IN
    /\ pc[r] = "lock"
    /\ shardLock[s] \in {NoRequest, r}
    /\ shardLock' = [shardLock EXCEPT ![s] = r]
    /\ pc' = [pc EXCEPT ![r] = "stage"]
    /\ UNCHANGED <<tables, todo, current, tx, answer, staged, bounds>>

Batch(r) == BufferedIn(Payload[r], current[r])
Fresh(r) == {e \in Batch(r) : KnownTrace(r, KeyOf(e)) = NoTrace}

\* Requests whose uncommitted event keys the insert has to wait for.
KeyHolders(r) ==
    {q \in Requests \ {r} : \E e \in Batch(r) : tx[q].keys[KeyOf(e)] # NoTrace}

ShardActive_committed(r) ==
    {u \in Traces : ShardOf[u] = ShardOf[current[r]] /\ traces[u].state = "open"}

ShardActive(r) ==
    {u \in Traces : ShardOf[u] = ShardOf[current[r]] /\ Row(r, u).state = "open"}

ShardFull(r) ==
    Row(r, current[r]).state = "absent" /\ Cardinality(ShardActive(r)) >= ShardCap

\* evictOldestTailTrace: any open trace of the shard, also one staged by this
\* very transaction, since tailers may hold the older rows (SKIP LOCKED).
Victims(r) == IF ShardFull(r) THEN {{v} : v \in ShardActive(r)} ELSE {{}}

WithinSpanLimit_offByOne(r) ==
    Row(r, current[r]).spanCount + Cardinality(Fresh(r)) <= MaxSpans + 1

WithinSpanLimit(r) ==
    Row(r, current[r]).spanCount + Cardinality(Fresh(r)) <= MaxSpans

StagedRow_countsBatch(r) ==
    [state |-> "open",
     spanCount |-> Row(r, current[r]).spanCount + Cardinality(Batch(r))]

\* The row of the trace the request adds its fresh events to.
StagedRow(r) ==
    [state |-> "open",
     spanCount |-> Row(r, current[r]).spanCount + Cardinality(Fresh(r))]

EvictedRow(r, v) ==
    [state |-> "decided",
     spanCount |-> Cardinality(BufferedIn(VisibleBuffers(r), v))]

\* The primary key of tail_buffers: an event twice in one request is refused.
DistinctKeys(S) == \A e, f \in S : KeyOf(e) = KeyOf(f) => e = f

Admissible(r) ==
    \/ Fresh(r) = {}
    \/ WithinSpanLimit(r) /\ DistinctKeys(Fresh(r))

NextOne(r) ==
    /\ pc' = [pc EXCEPT ![r] = "next"]
    /\ todo' = [todo EXCEPT ![r] = @ \ {current[r]}]
    /\ current' = [current EXCEPT ![r] = NoTrace]

\* A batch without fresh events leaves an existing trace as it is, but its
\* row stays locked; a trace it has just created stays, with no span.
StageAccepted(r) ==
    /\ pc[r] = "stage"
    /\ KeyHolders(r) = {}
    /\ Row(r, current[r]).state # "decided"
    /\ Admissible(r)
    /\ \E victims \in Victims(r) : tx' = [tx EXCEPT ![r] =
           [rows |-> [t \in Traces |->
                IF t = current[r] THEN StagedRow(r)
                ELSE IF t \in victims THEN EvictedRow(r, t) ELSE tx[r].rows[t]],
            keys |-> [k \in Keys |->
                IF k \in KeysOf(Fresh(r)) THEN current[r] ELSE tx[r].keys[k]],
            buffers |-> {e \in tx[r].buffers : TraceOf(e) \notin victims} \cup Fresh(r),
            evicted |-> tx[r].evicted \cup victims]]
    /\ NextOne(r)
    /\ UNCHANGED <<tables, shardLock, answer, staged, bounds>>

KnownToTrace(r) ==
    \A e \in Batch(r) : KnownTrace(r, KeyOf(e)) = current[r]

\* A retry of events the decided trace already knows.
StageDuplicate(r) ==
    /\ pc[r] = "stage"
    /\ Row(r, current[r]).state = "decided"
    /\ KnownToTrace(r)
    /\ tx' = [tx EXCEPT ![r].rows[current[r]] = Row(r, current[r])]
    /\ NextOne(r)
    /\ UNCHANGED <<tables, shardLock, answer, staged, bounds>>

-----------------------------------------------------------------------------
(* The end of a transaction: its locks go, its writes stay or are lost.    *)

Release_nothing(r) == UNCHANGED shardLock

\* Transaction-level advisory locks end with the transaction.
Release(r) ==
    shardLock' = [s \in Shards |->
        IF shardLock[s] = r THEN NoRequest ELSE shardLock[s]]

EndTransaction(r, a) ==
    /\ Respond(r, a)
    /\ todo' = [todo EXCEPT ![r] = {}]
    /\ current' = [current EXCEPT ![r] = NoTrace]
    /\ tx' = [tx EXCEPT ![r] = NoWrites]
    /\ Release(r)

Apply(r) ==
    /\ traces' = [t \in Traces |-> Row(r, t)]
    /\ keyTrace' = [k \in Keys |-> KnownTrace(r, k)]
    /\ buffers' = VisibleBuffers(r)
    /\ staged' = staged \cup
           {e \in Payload[r] : tx[r].keys[KeyOf(e)] = TraceOf(e)}

Abort_keepsStaged(r) ==
    /\ EndTransaction(r, "refused")
    /\ Apply(r)

\* The deferred Rollback; the caller answers 503 or codes.Unavailable.
Abort(r) ==
    /\ EndTransaction(r, "refused")
    /\ UNCHANGED <<tables, staged>>

\* ErrTailTraceClosed, a tail_buffers key conflict, or ErrTailBufferFull when
\* tailers hold every trace that could be evicted.
StageRefused(r) ==
    /\ pc[r] = "stage"
    /\ IF Row(r, current[r]).state = "decided"
       THEN ~KnownToTrace(r)
       ELSE /\ KeyHolders(r) = {}
            /\ \/ ~Admissible(r)
               \/ ShardFull(r) /\ \A u \in ShardActive(r) : ~Touches(r, u)
    /\ Abort(r)
    /\ UNCHANGED bounds

\* The commit may succeed and its acknowledgement be lost on the way.
Commit(r) == \E a \in {"accepted", "refused"} :
    /\ pc[r] = "next"
    /\ todo[r] = {}
    /\ a = "refused" => faults < MaxFaults
    /\ faults' = IF a = "refused" THEN faults + 1 ELSE faults
    /\ EndTransaction(r, a)
    /\ Apply(r)
    /\ UNCHANGED retries

\* A database error, or the client gone: its context ends the transaction.
Cancelled(r) ==
    /\ pc[r] \in Staging
    /\ faults < MaxFaults /\ faults' = faults + 1
    /\ Abort(r)
    /\ UNCHANGED retries

WaitsFor(r) ==
    IF pc[r] = "lock" THEN {shardLock[ShardOf[current[r]]]} \ {NoRequest, r}
    ELSE IF pc[r] = "stage" /\ Row(r, current[r]).state # "decided"
    THEN KeyHolders(r) ELSE {}

\* PostgreSQL aborts some transaction of a cycle of waiting ones.
DeadlockAbort(r) ==
    /\ \E S \in SUBSET {q \in Requests : WaitsFor(q) # {}} :
           /\ r \in S
           /\ \A q \in S : WaitsFor(q) \cap S # {}
           /\ \A q \in S : \E p \in S : q \in WaitsFor(p)
    /\ Abort(r)
    /\ UNCHANGED bounds

-----------------------------------------------------------------------------
(* The clients and the tailers.                                            *)

\* A refused client sends the same request again.
Retry(r) ==
    /\ answer[r] = "refused"
    /\ retries < MaxRetries /\ retries' = retries + 1
    /\ pc' = [pc EXCEPT ![r] = "new"]
    /\ answer' = [answer EXCEPT ![r] = "none"]
    /\ UNCHANGED <<tables, todo, current, tx, shardLock, staged, faults>>

\* RecordTailDecision waits for the row of a trace a request has touched.
TailerDecides(t) ==
    /\ traces[t].state = "open"
    /\ \A r \in Requests : ~Touches(r, t)
    /\ traces' = [traces EXCEPT ![t].state = "decided"]
    /\ buffers' = buffers \ BufferedIn(buffers, t)
    /\ UNCHANGED <<keyTrace, handler, shardLock, answer, staged, bounds>>

StageBatch(r) ==
    \/ NextTrace(r) \/ AcquireLock(r) \/ StageAccepted(r)
    \/ StageDuplicate(r) \/ StageRefused(r) \/ Commit(r)

ServeHTTP(r) == Rejected(r) \/ AcceptEvents(r) \/ StageBatch(r)

Next ==
    \/ \E r \in Requests :
           \/ ServeHTTP(r) \/ PolicyUnavailable(r) \/ Cancelled(r)
           \/ DeadlockAbort(r) \/ Retry(r)
    \/ \E t \in Traces : TailerDecides(t)

Spec == Init /\ [][Next]_vars

\* Handlers run to their end and PostgreSQL breaks deadlocks.
Fairness ==
    /\ \A r \in Requests : WF_vars(ServeHTTP(r))
    /\ WF_vars(\E r \in Requests : DeadlockAbort(r))

FairSpec == Spec /\ Fairness

-----------------------------------------------------------------------------
(* Properties.                                                             *)

\* Of the transactions of StageBatch under way, one at most has touched a
\* trace and it holds the trace's shard lock; no two insert the same key.
WritesExclusive ==
    /\ \A r \in Requests, t \in Traces :
           Touches(r, t) => shardLock[ShardOf[t]] = r
    /\ \A r, q \in Requests, k \in Keys :
           tx[r].keys[k] # NoTrace /\ tx[q].keys[k] # NoTrace => r = q

\* No commit leaves more undecided traces in a shard than its share: requests
\* of several traces count the ones they insert themselves (stageTraceTx).
ShardBound == \A s \in Shards :
    Cardinality({t \in Traces : ShardOf[t] = s /\ traces[t].state = "open"}) <= ShardCap

\* span_count of an undecided trace is the number of its buffered events, also
\* after partly duplicate batches, and a decided trace has none buffered.
SpansCounted == \A t \in Traces :
    IF traces[t].state = "open"
    THEN traces[t].spanCount = Cardinality(BufferedIn(buffers, t))
    ELSE BufferedIn(buffers, t) = {}

Acceptable ==
    {r \in Requests : r \notin UnknownCallers /\ Payload[r] \cap InvalidEvents = {}}

Boundary == INSTANCE RequestBoundary WITH
    durable <- {k \in Keys : keyTrace[k] # NoTrace},
    RequestKeys <- [r \in Requests |-> KeysOf(Payload[r])]

\* Requests are all-or-nothing: the event keys of a request of several traces
\* become durable in one step, with its acknowledgement, or none does, and a
\* request with one invalid event never does (BatchStager, acceptEvents).
AtomicRequests == Boundary!Spec

\* Every request is answered: requests that lock the shards of their traces in
\* opposite orders do not wait for each other for ever (StageBatch).
EventuallyAnswered == \A r \in Requests : pc[r] = "new" ~> pc[r] = "done"

\* docs/architecture.md, Ingestion: a request is acknowledged only after every
\* record's envelope has been durably written.
AcceptedStaged == \A r \in Requests :
    answer[r] = "accepted" => Payload[r] \subseteq staged
=============================================================================
