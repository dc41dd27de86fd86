# Verification of the privacy-aware observability platform

TLA+ modules, TLC runs and TLAPS proofs for the path an event takes from the
ingestion gateway to ClickHouse. Paths are relative to the repository's root.

## 1. The system

```
 client -> gateway --StageBatch--> PostgreSQL tail tables <--Process-- tailers
              |                          ^       ^                       |
        policy cache               retention   tenant                 Publish
              |                       job      deletion                  v
        redaction policies                                        Redpanda topic
                                                                         |
     ClickHouse <--Persist-- persistence workers <---- FetchMessage -----+
                                   |
                         delivery ledger, dead letters (PostgreSQL)
```

| Component | State it keeps | Operations | Interacts through | Hard behaviour |
|---|---|---|---|---|
| Tail store (`internal/metadata/tail.go`) | `tail_traces`, `tail_buffers`, `tail_event_keys`, `tail_decisions`, `tail_outbox` | `StageBatch`, `ClaimTailTraces`, `LoadTailTrace`, `RecordTailDecision`, `ClaimTailOutbox`, `MarkTailOutboxPublished`, `DeleteTailDataBefore`, `DeleteTenantTailData` | SQL transactions of gateways, tailers, retention job, query API | leases and generations, evictions of leased traces, statement snapshots |
| Tailer (`internal/tail/runner.go`, `cmd/tailer`) | nothing durable; claimed leases and messages | `Run`, `Process` | tail store, broker | crash between publish and mark, stolen leases |
| Sampling (`internal/sampling`) | none in `Decide`; `Sampler` buffers traces in memory | `Decide`; `Observe`, `Complete` | called by the tailer; `Sampler` only by tests | stale input |
| Persistence worker (`internal/telemetry/consumer.go`, `cmd/persist`) | nothing durable; one message | `Run`, `Process` | consumer group, ledger, ClickHouse | rebalances in the middle of a message, replays |
| Ledger, dead letters (`internal/metadata/store.go`) | `delivery_ledger`, `telemetry_dead_letters` | `ClaimDelivery`, `MarkPersisted`, `RecordDeadLetter`, `RecordLoss` (never called) | persistence workers | two claimers of one event |
| Policy cache (`internal/ingest/policy_cache.go`) | one entry per tenant | `RedactionPolicy` | concurrent gateway requests, PostgreSQL | refreshes with no lock held |
| Gateway (`internal/ingest`) | the requests being handled | authenticate, decode, validate, sanitize, stage, answer | policy cache, redaction, tail store | all-or-nothing requests of several traces, locks in random order, retries |
| Redaction (`internal/redaction`) | one event's attributes | `Sanitize` | called by the gateway with the composed patterns | each redactor works on what the ones before it left |
| Retention job (`cmd/retention`) | none | `DeleteOlderThan` (ClickHouse), then `DeleteTailDataBefore` | tail store, ClickHouse | two stores, four timestamps against one cutoff |
| Query API (`internal/query`) | none | queries, `POST /v1/retention/delete` | tail store, ClickHouse, audit | a deletion of three calls among running requests and workers |
| Broker, ClickHouse | topic, offsets; rows | external | | lost acknowledgements, lost answers |

What makes each correct: the tail store never loses an acknowledged event
without a decision that says so, closes a trace once, with the decision for
exactly its spans, and stays within its bounds; the tailer publishes every
retained span at least once and marks none that the broker lacks; the workers
commit no offset past a message that is not accounted for; the policy cache
serves nothing staler than its interval and nothing invalid; a sanitized value
has no match of a configured pattern left; and over all of them, an accepted event
is stored or lost with evidence, for good, until its retention or a deletion
erases it.

## 2. Modules

| Module | Models |
|---|---|
| `TailStore` | one tenant's tail tables, the tailers, the retention job, the deletion, and the clock |
| `TailStoreProofs` | theorems about `TailStore`: types, leases, publishing |
| `TailStoreLossProofs` | theorems about `TailStore`: counts, decision records, nothing accepted is lost |
| `DeliveryConsumer` | the persistence workers, their consumer group, the ledger, dead letters and ClickHouse |
| `DeliveryConsumerProofs` | theorems about `DeliveryConsumer` |
| `Gateway` | one tenant's requests from authentication to answer, and the transaction they are staged in |
| `RequestBoundary` | the abstract promise of a request, implemented by `Gateway` |
| `GatewayProofs` | theorems about `Gateway`: locks, all-or-nothing requests |
| `GatewayCountProofs` | theorems about `Gateway`: counts and bounds |
| `PolicyCache` | the cache of one tenant's redaction policy |
| `PolicyCacheProofs` | theorems about `PolicyCache` |
| `Pipeline` | `TailStore`, the topic, `DeliveryConsumer`, the retention job's and the deletion request's calls, composed |
| `Delivery` | the abstract promise of an event, implemented by `Pipeline` |
| `PipelineProofs` | theorems about `Pipeline`, and that it implements `Delivery` |
| `Redaction` | one event through `Gateway.policy` and `Sanitize` |
| `RedactionProofs` | theorems about `Redaction` |
| `MCTailStore`, `MCGateway`, `MCDeliveryConsumer`, `MCPolicyCache`, `MCPipeline`, `MCRedaction` | small instances for TLC |

An operator called `Name_variant`, placed before `Name`, is a deliberately wrong
`Name`: no specification uses it. Putting it in place of `Name` must make TLC
reject the property `PROJECT.json` names, which shows that the property
depends on that part of the code.

### TailStore

A row is a record: `traces[t]` has the columns of `tail_traces` (`decision` is
`"undecided"` while `decided_at` is null, `"absent"` without a row), `buffers` is
the set of buffered envelopes, `keyTrace[k]` the trace an event key was staged
for, `decisions[t]` and `outbox[k]` the rows of those tables. `topic` is what the
broker has. Per tailer, `pc`, `leases`, `lease`, `reason`, `messages` and `message`
are the local variables of `Process` between two calls.

A transaction is one action when it locks what it decides on before reading it:

| Action | Code |
|---|---|
| `Stage` (`StageAccepted`, `StageDuplicate`) | `StageBatch`, `stageTraceTx`, `evictOldestTailTrace`, for a request of one trace |
| `ClaimTailTraces`, `LoadTailTrace`, `RecordTailDecision` / `SkipTailDecision` / `FailTailDecision` | the first loop of `Process`; the three outcomes of `RecordTailDecision` |
| `ClaimTailOutbox`, `Publish` / `PublishFails`, `MarkTailOutboxPublished` / `OutboxLeaseLost` | its second loop |
| `Crash`, `Restart` | the process exits and its Deployment starts it again |
| `QuietElapses`, `OrphanedLeaseExpires`, `HeldLeaseExpires` | `now()` passes `last_seen + quiet` or `lease_expires_at` |
| `DeleteTailDataBefore` | the retention job, for any cutoff |
| `DeleteOutbox`, `DeleteEventKeys`, `DeleteDecisions`, `DeleteTraces`, `DeleteRollback` | the four statements of `DeleteTenantTailData` and its commit |

`DeleteTenantTailData` is split because nothing locks the tenant ahead of it and
PostgreSQL's default isolation gives each statement its own snapshot. Rows a
statement has deleted stay visible to others until the commit, and those that
want to change them wait (the guards on `del`).

Time is two flags, quiet and leased, instead of numbers: the code compares only
with `now()`. Which trace an eviction takes is any undecided one of the shard,
because the oldest may be locked and skipped. Envelopes are model values with a
trace and a key; what `Decide` tells apart in them is whether they are errors or
slow. Tenants share no row, so one is enough. Requests of several traces are
`Gateway`'s.

### Gateway

`TailStore` takes a staged request as one step. `Gateway` opens that step: `pc`,
`todo` and `current` are where `ServeHTTP` (or a gRPC `Export`) is and which traces
`StageBatch` has left, `shardLock` the advisory locks, and `tx[r]` the writes of
the request's transaction that nobody else sees: rows, event keys, buffered
events, evicted traces. `Row`, `KnownTrace` and `VisibleBuffers` are what the
transaction reads: its own writes over the committed tables.

| Action | Code |
|---|---|
| `Rejected`, `PolicyUnavailable`, `AcceptEvents` | `ServeHTTP`, the OTLP and gRPC adapters, `acceptEvents` up to the stager |
| `NextTrace`, `AcquireLock` | the loop of `StageBatch` over a Go map, the lock of `stageTraceTx` |
| `StageAccepted`, `StageDuplicate`, `StageRefused` | the ways through `stageTraceTx` |
| `Commit`, `Cancelled` | the commit, perhaps with its answer lost; an error or a client that has gone |
| `DeadlockAbort`, `Retry` | PostgreSQL's deadlock detector, a client that sends again (external) |
| `TailerDecides` | a tailer closes a trace between the steps of requests |

The statements of `stageTraceTx` for one trace are one step: the shard lock and
the row lock keep everyone out except a request that inserts the same event key in
another shard, for which it waits (`KeyHolders`). An event ID is built from the
fields the adapters build it from, since what they leave out matters
(`Gateway_logs`). What a trace goes through after its decision, and generations,
leases and quiet times, are left to `TailStore`. Transactions only add event
keys here: retention and deletion are `TailStore`'s.

### DeliveryConsumer

`log`, `committed`, `assigned` and `position` are the topic and the consumer group;
`pc` and `current` are where each worker is in `Run` and the message it holds.
`FetchMessage`, `RecordDeadLetter`, `ClaimDelivery`, `Persist`, `MarkPersisted`,
`CommitMessages` are the calls of `Run` and `Process` in order, `PersistFails`,
`MarkFails`, `CommitFails` and `Crash` the ways out. `Assign` and `Rebalance` start
a new generation of the group, at any moment: readers restart at the committed
offsets while a worker may still hold a message. A commit by a worker that lost
the partition may be refused or may be taken as it is: the Kafka client decides,
so both are modelled.

A message is valid, malformed, of an unknown version, or an orphan: malformed
with a tenant ID that does not exist, whose dead letter violates a foreign key
(`DeadLetterFails`). The worker exits and meets the orphan again, for ever: nothing
behind it in the partition is accounted for, so `EventuallyAccounted` speaks of the
messages with no orphan in front of them (`Passable`). The gateway writes no such
message; the safety properties hold with it.

### Pipeline

`Pipeline` EXTENDS `TailStore` and instantiates `DeliveryConsumer` with the envelopes
as its messages. Every action of either is an action here, with the other's variables
unchanged, except where they meet: `PublishMessage` is a publish and an append to
the partition's log in one step, and a failed publish appends or does not.

The rest is what only the composition has. ClickHouse rows go by mutations:
`DeleteOlderThan` and `DeleteTenantTelemetry` put stored keys into `doomed`,
`MutationApplies` removes them later, and a row inserted in between takes its key
out of `doomed`. `job` is the retention job between its ClickHouse and its PostgreSQL
call, for one cutoff: the second call removes the event keys of the rows the first
one asked to delete, since a key is older than its row, and anything else
as old. `request` is the deletion after its transaction, `audited` that one was answered
`mutation_requested`. `JobFails` and `RequestFails` are the errors between.
`accepted`, `erased` and `again` are histories: what was acknowledged, what of it
an owner's retention or deletion has erased, and what was sent anew after
nothing was left of it.

`Delivery` is the state diagram of `docs/architecture.md` seen by an event's owner:
new, accepted, stored or lost, erased. `Status` is the refinement mapping. What an event
may do is `Delivery`'s `Safety`, that it reaches an end its `Settled`.

### Redaction

`ResolvePolicy` composes the deployment's patterns with the tenant's, or
`RefusePolicy` refuses the request; `RedactSensitive`, `RedactEmail`,
`RedactPattern` and `FinishAttribute` are the body of `Sanitize`'s loop over a Go
map, one redactor a step. A value is a sequence of tokens (letters, `@`, a domain,
digits, `#`) and an expression the set of words it matches with what may not
follow (`\b`), leftmost and longest. Markers are tokens no pattern in the instance
matches. `Tokens` is what clients may send; `NoKey` stands for no attribute, since the
empty string is a key like any other. The version a receipt names is `PolicyCache`'s; the span's name is not an
attribute and `Sanitize` does not see it.

### PolicyCache

A request runs `Begin` (its `now`), `ReadCache` (under the read lock), `Query` or
`FailQuery` (no lock), `Store` (under the write lock). `Update` is an operator's
change of the tenant's policy in PostgreSQL, `Tick` the clock.

## 3. Runs

| Run | Instance | Shows |
|---|---|---|
| `TailStore_workers` | 2 traces of one shard with room for one, 3 events, 2 tailers, batches of 2, 2 faults | bookkeeping, bounds, exact decisions, publishing; decided and published in the end |
| `TailStore_removal` | the same traces with room for one span each, an event ID used in both, 1 tailer, 1 fault, 1 retention run, 1 deletion | the inductive invariants of the proofs; decision records, finality, acknowledged events until the deletion |
| `Gateway_batches` | 4 requests: two share events of three traces in two shards with room for one trace, one reuses an event ID in another shard, one has an invalid event; 1 fault, 1 retry | requests are all-or-nothing, locked apart, bounded, counted and answered |
| `DeliveryConsumer_rebalance` | 1 partition, up to 3 of 4 messages (two events, one malformed, one orphan), 2 workers, 2 faults, 1 rebalance | nothing committed is lost, every message accounted for in the end; the inductive invariant |
| `PolicyCache_refresh` | 2 requests, 4 policies, 5 clock values, interval 2 | bounded staleness, no invalid policy |
| `Pipeline_delivery` | 2 traces of one event each, one retained and one not, in a shard with room for one; 1 tailer, 1 worker; 1 fault anywhere, 1 rebalance, and a retention run or a deletion | no event vanishes, none is both delivered and lost, the ledger is right, `Delivery` is implemented with its liveness |
| `Redaction_values` | every value of up to 4 tokens, 3 tenant policies, none, or an invalid one, beside the deployment's pattern | nothing configured is left, the receipt is exact, redactors compose |

Two traces that compete for one place make pressure evictions happen next to
leases of either tailer; two events of one trace give it a generation a tailer
may have missed; two events of one trace against a span limit of 1 meet the
limit.
Two tailers suffice for every race of two lease holders and two faults for a
crash after a stolen lease. Two requests that need both
shards can deadlock on the locks, one more on an event key; three traces in a
shard with room for one make a request evict what it has staged itself. The run has
no caller without a tenant: such a request ends before it touches anything, like
the invalid one. Each counter that bounds a run is named in its
module (`MaxFaults`, `MaxRetries`, `MaxRetention`, `MaxDeletes`, `MaxBatch`, `MaxLog`,
`MaxRebalances`, `MaxRemovals`, `MaxUpdates`, `MaxTime`, `MaxLength`). A produced message may be appended
again, so that republished duplicates occur within `MaxLog`.

In `Pipeline_delivery` one tailer and one worker suffice: the races of two are
`TailStore_workers`' and `DeliveryConsumer_rebalance`'s, and after a rebalance or a
restart the one worker meets its own message again, as another would. The room for one
trace makes pressure evictions happen, and the log of 4 holds both events and their
republished copies. A deletion does not meet a fault or a rebalance there, only in
`TailStore_removal`. In `Redaction_values`, four tokens are enough for two matches with
something between them, for patterns that overlap (`#`, `#` with digits, digits) and for
e-mail addresses that run on at either side.

Deadlock is checked for `TailStore`, `PolicyCache` and `Pipeline`. The persistence workers
really wait when every message is consumed (`FetchMessage` blocks), and the log
is bounded, so `DeliveryConsumer` runs do not check it. The gateway idles when every
request is answered and every trace decided; that requests do not block each other
is `EventuallyAnswered`. `Redaction` ends with its one event.

### Disagreements between code and text

Each is a run TLC must find violated; `PROJECT.json` quotes the lines.

| Run | The text | The code |
|---|---|---|
| `TailStore_crash_loop` | `Process` is restart-safe | a decision record left by a deletion makes every tailer fail on that trace for ever |
| `Gateway_logs` | a request is acknowledged only when its envelopes are durably written | two logs with the same trace, span, time and place in their requests have one event ID: the second is acknowledged and dropped |
| `PolicyCache_revert` | the last valid policy is retained | an older refresh that stores last replaces a newer policy |
| `Pipeline_forgotten` | accepted events are stored or their loss is reported | an event sent again after its retention is acknowledged, published and skipped: the ledger, which nothing clears, still calls it persisted |
| `Pipeline_resurfaces` | a tenant may request deletion of all its telemetry | what is in the topic or at a worker at that moment is stored after the deletion was answered |

Three more follow from the same code and have no run of their own. A decision that
commits between two statements of `DeleteTenantTailData` moves spans into an
outbox whose rows have already been deleted, and they are published after it
(`docs/architecture.md:88` says outbox records are removed synchronously). A request
between the deletion's second and last statement leaves its event key without its
span, so that its retry is acknowledged and stores nothing: this is why
`AckedAccounted` ends at a deletion. Two workers that claim one pending event around a
rebalance may insert it after the other marked it persisted (`store.go:107` says a
persisted event is never sent to ClickHouse again); the table engine merges the rows.

Redactors compose only as far as matches do not overlap (`Composed`). Patterns run in
the order of their text, so of two where one's match is the beginning of the other's,
`customer-` and `customer-[0-9]+`, the first takes the beginning and leaves the
digits. `PatternsClean` holds all the same: nothing in the result matches.

Two comments are plainly out of date and need no run: a request over the span limit
is refused and rolled back, and records no `evicted_span_limit` decision
(`tail.go:52` calls such evictions durable decisions); a malformed message is
dead-lettered and committed (`consumer.go:39` says it stays unacknowledged).

The theorems that assume distinct owner names do so for a reason. With the
default owner name several tailers are all `"tailer"`, a trace deleted and staged again
starts from generation 1, and a late decision of one tailer then passes the check
under another's lease: with a shared owner and one deletion, TLC refutes
`TailDecisionExact`. The Helm chart sets the owner to the pod's name.

## 4. Fairness

`TailStore!Fairness`: `Run` ticks for ever, so a live tailer keeps taking steps of
`Process`; a Deployment restarts a dead one; the clock advances, so quiet times
and leases nobody works on run out; a started deletion ends. Requests, faults,
retention and deletions are not fair. New spans may keep a trace from being quiet
for ever only without a span limit; `MaxSpans` bounds it in the model as in the
code.

`Gateway!Fairness`: handlers run to their end (the server's timeouts are among the
faults) and PostgreSQL breaks a deadlock; failures, retries and tailers are not
fair.

`PipelineFairness` is that of the two components over the composed state. Mutations,
retention and the calls after a deletion's transaction are not fair: what `Settled`
promises does not depend on them.

`DeliveryConsumer!Fairness`: live workers run, dead ones are restarted, the group
assigns every partition. That is enough for one partition. With several, a worker
that exits takes all its partitions away, and an assignor that swapped the others
at each new generation would make the next worker's commit fail in turn, for
ever: `EventuallyAccounted` is claimed of one partition, the safety properties of
any number.

## 5. Proofs

All theorems hold for every value of the constants under the modules' named
assumptions: types of the constants, positive bounds, finitely many envelopes.

`TailStoreProofs`. `TypeCorrect` needs `WorkerShape`: a tailer holds leases and
messages only where `Process` uses them. `LeasesStayFresh` and `DecisionsAreExact`
follow from `LeaseInv`: `LeaseFresh` alone is not inductive, because staging could
bring the generation back to a lease's; `GenerationBound` excludes it, a leased
trace still owned by the tailer is never behind the lease, and `Stage` moves it
past. Between the check and the decision nothing else matters: only `Stage`
changes the spans of an undecided trace. They assume `OwnersDistinct`, which the
Helm chart ensures and the default owner name does not (see section
3). `PublishedAreInTopic` follows from `PublishInv`: a message is marked only
after its publish, and the row marked holds the envelope that was published,
because event keys are unique among buffered spans and a row's envelope does
not change under its owner. It assumes distinct owners as well: another tailer of
the same name could claim a row staged and retained anew under the same key.

`TailStoreLossProofs`. Its lemmas first say what each step does as far as these
theorems tell steps apart: a request is `Staged`, a decision `Recorded`, the two
removals, or the step is `Quiet`. `BuffersStayCounted` and `ShardsStayBounded` follow from
`CountsInv`, which adds that the undecided traces of a shard are finitely many:
staging a new trace in a full shard evicts one first, and only fresh events are
counted and buffered. `DecisionsStayAgreed` and `DecisionsAreFinal`: a decision
and its record are written by one transaction and only for an undecided trace, and
`AgreeInv` knows that no deletion runs before the first one is counted.
`AcceptedAreAccounted` rests on both and on `PublishInv` (`LossInv`): every known
event key is accounted for, where the key of a buffered event names the event's own
trace (`BufferedKeys`). That is what makes a victim's keys lead to the eviction
record, and what lets a retained trace's keys be found in the outbox; the retention
job removes the record of a trace only with its keys. Once an outbox row is marked
published, `PublishedInTopic` takes over. It assumes `OwnersDistinct`.

`DeliveryConsumerProofs`. `CommittedAreAccounted` follows from `ConsumerInv`. A
commit takes the offset of the held message whoever owns the partition, so the
invariant speaks of consumers rather than of owners: every message before the one a
consumer holds is accounted for (`HeldPrefix`). That is so at the fetch because
every message the reader has passed is accounted for or held by its consumer
(`ReadPrefix`), who holds nothing at a fetch. What was accounted for stays so
(`AccountedStays`), hence a late commit of a lower offset is harmless too.

`GatewayProofs`. `WritesStayExclusive`: a request stages a trace only under its
shard's lock (`LocksHeld`) and inserts a key only when no other transaction has it,
and both end with the transaction. `RequestsAreAtomic` is the refinement of
`RequestBoundary`. Its invariant is `BatchInv`: a transaction inserts only keys of
its own request, and the keys of every trace it has left behind are known to it,
inserted by itself or committed before. So at the commit, when no trace is left,
the known keys grow by exactly the request's, and every other step leaves them
alone; keys other transactions commit in between only help (`BatchEnd`). The
proofs need no bound and no assumption on the keys, so they hold for logs whose
event IDs collide as well: such requests are still all-or-nothing by event key.

`GatewayCountProofs`. `SpansStayCounted`, `ShardsStayBounded` and `TypeCorrect` follow from
`CountInv`: the counts are right in the committed tables (`TablesRight`) and in what
every transaction under way reads (`ViewRight`). A commit turns the view of its
request into the tables. For the others the tables change under their feet, but
`WritesExclusive` and `WritesTouch` keep what they wrote apart: a shard somebody
commits to is not one another has touched, so a view is either of its own writes
or of the new tables.

`PolicyCacheProofs`. `StalenessIsBounded`: an entry is stamped with the time its
request began, so it is at least as new as its stamp, and this survives stores in any
order (`StalenessInv`). `ServedAreValid`: whatever the cache, the copies requests
hold and the answers they fetched contain has passed `validatePolicy` (`ValidInv`).

`PipelineProofs` EXTENDS `TailStoreLossProofs` and takes over its invariants: an action
of the pipeline is one of the tail store, one of the workers, or neither, and each
component's invariant is kept because its variables take a step of its own or none.
For the workers that needs care: their promise is about rows ever stored, and here
mutations take rows away. So their proofs are instantiated with `storedOrErased` for
`stored`, the rows there are with those of erased events: to that a mutation is no step.
`LedgerStaysTrue` and `PipelineTypeCorrect` follow from `OriginInv`: every event known
anywhere (`Known`) was accepted, the topic is what the logs hold, and only rows of erased
events are doomed. `NeverDeliveredAndLost` adds to it that what was sent belongs to a
retained trace (`SentRetained`), until something is removed. `NothingAcceptedVanishes`
follows from `VanishInv`: until the first deletion every accepted event that is not
erased is buffered, sent, or recorded as lost (`AcceptedSomewhere`), and every message
a tailer holds is still in the outbox or already in the topic (`HeldSent`).
`ImplementsDelivery` takes the steps one by one: none makes `Status` go anywhere but from
new to accepted, from there to stored or lost, and to erased. Both assume
`OwnersDistinct`, like `AcceptedAreAccounted`. `GroupAssumption` states of `Pipeline`'s constants
what `DeliveryConsumer` assumes of its own.

`RedactionProofs`. `ReplaceAllString` is a recursive function over the positions of a
value. The library's induction theorems take a predicate as a parameter, which no
backend can instantiate; its well-founded minimum takes a set instead, and
`Downward` makes of it an induction from the last position of a value to the first, for
any set of positions. By it, `RestExists` shows that there is such a function,
`MarkerLeft` that a match leaves a marker, and `SliceCopied` that what holds no marker in
the result was copied, in one piece, from a place of the value where nothing was
replaced. Hence a replacement leaves no match of its pattern and brings about none of
another (`StaysClean`), and `PatternsStayClean` needs only that no pattern that has run
matches (`CleanInv`). That is where the shape of the expressions matters:
`PatternsPlain` assumes that none has a boundary condition and none matches a marker.
Both are needed. `\d{3}\b` matches nothing in `123x`, but once `x+` has run after it,
it matches what is left, `123` and a marker; and an expression that matches a
marker's text still matches after its replacement. The code refuses neither of an
operator. `ReceiptIsExact` assumes `MarkersForeign`: the text `[REDACTED_PATTERN]`, sent by
a client to a tenant with an expression that matches it, is replaced by itself and
named in the receipt. Without any assumption, `NothingUnreported` is the half of it that
privacy needs: what the receipt does not name is not sensitive and was returned as
received.

`AllReplacementsComposed` relates `Sanitize`, one redactor after the other, to another
recursive function over the received value, `AllAtOnce`. Its invariant, `ComposedInv`,
says that the value at work on is the received one with the hits of the redactors that
have run replaced at once (`ComposedTo`). The step is `ReplaceComposed`, by `Downward` over
the positions of the received value at which no hit is under way: what is left of it
there, with the earlier hits replaced, is what is left of the value at work on at some
position (`TailIs`). On a marker the next redactor matches nothing (`MarkerMatchless`), and
elsewhere it matches what it matches in the received value (`MatchBefore`, `MatchAfter`),
for nothing that it matches there reaches into an earlier hit. `PatternsBlind` is what that
takes of the expressions: no boundary condition, and neither of the two markers is
matched, or a redactor would find more or less than in the received value. The e-mail
pattern, whose top level has to end at a boundary, runs first and needs no assumption.

Model-checked only: liveness, `Delivery`'s `Settled` included: fairness and `ENABLED` are
out of the prover's reach.

## 6. Not modelled

Queries, HTTP metrics, the console, the demo traffic and load tools: read-only or
outside the pipeline. Attribute conversion and JSON: pure data. What `sensitiveKey` and a
regular expression match: strings, which `Redaction` takes as given. The gateway's
`Publisher` and single-event `Stager` paths: production installs the batch stager. API
keys and bootstrap: single statements nothing interacts with. Migrations run once,
before the services. `RecordLoss` is called by nothing. `Sampler` is used only by its
tests; the tailer calls `Decide`. The Kafka client, Redpanda, PostgreSQL and ClickHouse
are modelled by what the code expects of them. That a failure for one tenant ends the
retention job's loop over all of them is not modelled: there is one tenant.

## 7. Plan

Done in this order: `TailStore`, `DeliveryConsumer`, `PolicyCache`, `Gateway` with
`RequestBoundary`, each with its proofs; `Delivery` and `Pipeline`, `Redaction`, and
their proofs. What could follow:

1. That `Gateway` implements the staging actions of `TailStore`.
2. Workers of both envelope versions during a rollout, in `DeliveryConsumer`.
