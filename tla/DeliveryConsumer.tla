-------------------------- MODULE DeliveryConsumer --------------------------
(***************************************************************************)
(* The persistence workers (internal/telemetry/consumer.go, cmd/persist):   *)
(* a Kafka consumer group that records each event in the delivery ledger    *)
(* (PostgreSQL), writes it to ClickHouse and commits its offset, or records *)
(* a dead letter.  Partitions move between workers at any step, and a       *)
(* worker that lost one goes on with the message it holds.                  *)
(*                                                                          *)
(* The broker, the consumer group and ClickHouse are external: they are     *)
(* modelled by what consumer.go, kafka.go and clickhouse.go expect of them. *)
(*                                                                          *)
(* An operator named Name_variant, placed before Name, is a wrong Name: it  *)
(* is no part of the specification, and the runs must reject it.            *)
(***************************************************************************)
EXTENDS Integers, Sequences

CONSTANTS
    Partitions,
    Messages,      \* distinct broker messages
    Keys,          \* event keys
    KindOf,        \* [Messages -> Kinds]
    KeyOf,         \* [Messages -> Keys], the event key in a valid message
    PartitionOf,   \* [Messages -> Partitions], the hash of the message key
    Consumers,
    NoConsumer, NoMessage,
    MaxLog,        \* bound: messages in one partition
    MaxFaults,     \* bound: crashes and failed writes
    MaxRebalances  \* bound: rebalances nothing forced

\* An orphan is malformed and names a tenant that does not exist.
Kinds == {"valid", "malformed", "unknown_version", "orphan"}

ASSUME MessageAssumption ==
    /\ KindOf \in [Messages -> Kinds]
    /\ KeyOf \in [Messages -> Keys]
    /\ PartitionOf \in [Messages -> Partitions]

\* A message of the broker: its partition and its offset, counted from 1.
Place == [partition : Partitions, offset : Nat \ {0}]

ASSUME ConsumerAssumption == NoConsumer \notin Consumers /\ NoMessage \notin Place

ASSUME ConsumerBounds == MaxLog \in Nat /\ MaxFaults \in Nat /\ MaxRebalances \in Nat

VARIABLES
    log,           \* the messages of each partition
    committed,     \* the group's committed offset: messages consumed
    assigned,      \* the consumer each partition belongs to
    position,      \* the offset the partition's reader has fetched up to
    pc,            \* where each consumer is in Run
    current,       \* [partition, offset] of the message it holds
    ledger,        \* delivery_ledger: the status of each event key
    stored,        \* event keys with a row in ClickHouse
    deadLetters,   \* telemetry_dead_letters: partitions and offsets
    faults, rebalances   \* counters of the bounded actions

broker == <<log, committed, assigned, position>>
bounds == <<faults, rebalances>>
vars == <<broker, pc, current, ledger, stored, deadLetters, bounds>>

TypeOK ==
    /\ log \in [Partitions -> Seq(Messages)]
    /\ committed \in [Partitions -> Nat]
    /\ assigned \in [Partitions -> Consumers \cup {NoConsumer}]
    /\ position \in [Partitions -> Nat]
    /\ pc \in [Consumers -> {"fetch", "deadletter", "claim", "persist", "mark", "commit", "down"}]
    /\ current \in [Consumers -> Place \cup {NoMessage}]
    /\ ledger \in [Keys -> {"absent", "pending", "persisted"}]
    /\ stored \subseteq Keys
    /\ deadLetters \subseteq Place
    /\ faults \in 0..MaxFaults
    /\ rebalances \in 0..MaxRebalances

Init ==
    /\ log = [p \in Partitions |-> <<>>]
    /\ committed = [p \in Partitions |-> 0]
    /\ assigned = [p \in Partitions |-> NoConsumer]
    /\ position = [p \in Partitions |-> 0]
    /\ pc = [c \in Consumers |-> "fetch"]
    /\ current = [c \in Consumers |-> NoMessage]
    /\ ledger = [k \in Keys |-> "absent"]
    /\ stored = {}
    /\ deadLetters = {}
    /\ faults = 0 /\ rebalances = 0

MessageAt(place) == log[place.partition][place.offset]
Key(c) == KeyOf[MessageAt(current[c])]
Goto(c, label) == pc' = [pc EXCEPT ![c] = label]

-----------------------------------------------------------------------------
(* The broker: a publish or republish, and the group's membership.          *)

Produce(m) ==
    LET p == PartitionOf[m] IN
    /\ Len(log[p]) < MaxLog
    /\ log' = [log EXCEPT ![p] = Append(@, m)]
    /\ UNCHANGED <<committed, assigned, position, pc, current, ledger, stored,
                   deadLetters, bounds>>

Running == {c \in Consumers : pc[c] # "down"}

\* A new generation of the group: every reader restarts at the committed
\* offset, whoever it belongs to and whatever its consumer still holds.
NewGeneration ==
    /\ assigned' \in [Partitions -> Running]
    /\ position' = committed
    /\ UNCHANGED <<log, committed, pc, current, ledger, stored, deadLetters, faults>>

Assign ==
    /\ \E p \in Partitions : assigned[p] = NoConsumer
    /\ NewGeneration
    /\ UNCHANGED rebalances

Rebalance ==
    /\ \A p \in Partitions : assigned[p] # NoConsumer
    /\ rebalances < MaxRebalances /\ rebalances' = rebalances + 1
    /\ NewGeneration

-----------------------------------------------------------------------------
(* Consumer.Run.                                                           *)

\* Run returned an error or the process died: the group revokes its partitions.
Exit(c) ==
    /\ Goto(c, "down")
    /\ current' = [current EXCEPT ![c] = NoMessage]
    /\ assigned' = [p \in Partitions |->
           IF assigned[p] = c THEN NoConsumer ELSE assigned[p]]

FetchMessage_autoCommits(c) == \E p \in Partitions :
    LET offset == position[p] + 1 IN
    /\ pc[c] = "fetch"
    /\ assigned[p] = c
    /\ offset <= Len(log[p])
    /\ position' = [position EXCEPT ![p] = offset]
    /\ committed' = [committed EXCEPT ![p] = offset]
    /\ current' = [current EXCEPT ![c] = [partition |-> p, offset |-> offset]]
    /\ Goto(c, IF KindOf[log[p][offset]] = "valid" THEN "claim" ELSE "deadletter")
    /\ UNCHANGED <<log, assigned, ledger, stored, deadLetters, bounds>>

FetchMessage(c) == \E p \in Partitions :
    LET offset == position[p] + 1 IN
    /\ pc[c] = "fetch"
    /\ assigned[p] = c
    /\ offset <= Len(log[p])
    /\ position' = [position EXCEPT ![p] = offset]
    /\ current' = [current EXCEPT ![c] = [partition |-> p, offset |-> offset]]
    /\ Goto(c, IF KindOf[log[p][offset]] = "valid" THEN "claim" ELSE "deadletter")
    /\ UNCHANGED <<log, committed, assigned, ledger, stored, deadLetters, bounds>>

RecordDeadLetter_skipsOrphan(c) ==
    /\ pc[c] = "deadletter"
    /\ deadLetters' = deadLetters \cup
           {place \in {current[c]} : KindOf[MessageAt(place)] # "orphan"}
    /\ Goto(c, "commit")
    /\ UNCHANGED <<broker, current, ledger, stored, bounds>>

\* A malformed message or an unknown schema version.
RecordDeadLetter(c) ==
    /\ pc[c] = "deadletter"
    /\ KindOf[MessageAt(current[c])] # "orphan"
    /\ deadLetters' = deadLetters \cup {current[c]}
    /\ Goto(c, "commit")
    /\ UNCHANGED <<broker, current, ledger, stored, bounds>>

\* telemetry_dead_letters references tenants: the insert fails, Run returns.
DeadLetterFails(c) ==
    /\ pc[c] = "deadletter"
    /\ KindOf[MessageAt(current[c])] = "orphan"
    /\ Exit(c)
    /\ UNCHANGED <<log, committed, position, ledger, stored, deadLetters, bounds>>

ClaimDelivery_skipsPending(c) ==
    /\ pc[c] = "claim"
    /\ ledger' = [ledger EXCEPT ![Key(c)] = IF @ = "absent" THEN "pending" ELSE @]
    /\ Goto(c, IF ledger[Key(c)] # "absent" THEN "commit" ELSE "persist")
    /\ UNCHANGED <<broker, current, stored, deadLetters, bounds>>

ClaimDelivery(c) ==
    /\ pc[c] = "claim"
    /\ ledger' = [ledger EXCEPT ![Key(c)] = IF @ = "absent" THEN "pending" ELSE @]
    /\ Goto(c, IF ledger[Key(c)] = "persisted" THEN "commit" ELSE "persist")
    /\ UNCHANGED <<broker, current, stored, deadLetters, bounds>>

Persist(c) ==
    /\ pc[c] = "persist"
    /\ stored' = stored \cup {Key(c)}
    /\ Goto(c, "mark")
    /\ UNCHANGED <<broker, current, ledger, deadLetters, bounds>>

PersistFails_ignored(c) ==
    /\ pc[c] = "persist"
    /\ faults < MaxFaults /\ faults' = faults + 1
    /\ stored' \in {stored, stored \cup {Key(c)}}
    /\ Goto(c, "mark")
    /\ UNCHANGED <<broker, current, ledger, deadLetters, rebalances>>

PersistFails_recordsLoss(c) ==
    /\ pc[c] = "persist"
    /\ faults < MaxFaults /\ faults' = faults + 1
    /\ ledger' = [ledger EXCEPT ![Key(c)] = "loss_evidenced"]
    /\ Goto(c, "commit")
    /\ UNCHANGED <<broker, current, stored, deadLetters, rebalances>>

\* The insert failed, or was stored and its answer lost: Process returns.
PersistFails(c) ==
    /\ pc[c] = "persist"
    /\ faults < MaxFaults /\ faults' = faults + 1
    /\ stored' \in {stored, stored \cup {Key(c)}}
    /\ Exit(c)
    /\ UNCHANGED <<log, committed, position, ledger, deadLetters, rebalances>>

MarkPersisted(c) ==
    /\ pc[c] = "mark"
    /\ ledger[Key(c)] = "pending"
    /\ ledger' = [ledger EXCEPT ![Key(c)] = "persisted"]
    /\ Goto(c, "commit")
    /\ UNCHANGED <<broker, current, stored, deadLetters, bounds>>

\* "delivery ledger not pending": another consumer marked it first.
MarkFails(c) ==
    /\ pc[c] = "mark"
    /\ ledger[Key(c)] # "pending"
    /\ Exit(c)
    /\ UNCHANGED <<log, committed, position, ledger, stored, deadLetters, bounds>>

\* The offset is committed as it is, even behind a later commit by the
\* partition's new consumer.
CommitMessages(c) ==
    /\ pc[c] = "commit"
    /\ committed' = [committed EXCEPT ![current[c].partition] = current[c].offset]
    /\ current' = [current EXCEPT ![c] = NoMessage]
    /\ Goto(c, "fetch")
    /\ UNCHANGED <<log, assigned, position, ledger, stored, deadLetters, bounds>>

\* The broker refuses the commit of a consumer that lost the partition.
CommitFails(c) ==
    /\ pc[c] = "commit"
    /\ assigned[current[c].partition] # c
    /\ Exit(c)
    /\ UNCHANGED <<log, committed, position, ledger, stored, deadLetters, bounds>>

\* A crash, or a failed database call before it changed anything.
Crash(c) ==
    /\ pc[c] # "down"
    /\ faults < MaxFaults /\ faults' = faults + 1
    /\ Exit(c)
    /\ UNCHANGED <<log, committed, position, ledger, stored, deadLetters, rebalances>>

Restart(c) ==
    /\ pc[c] = "down"
    /\ Goto(c, "fetch")
    /\ UNCHANGED <<broker, current, ledger, stored, deadLetters, bounds>>

Run(c) ==
    \/ FetchMessage(c) \/ RecordDeadLetter(c) \/ DeadLetterFails(c)
    \/ ClaimDelivery(c) \/ Persist(c) \/ MarkPersisted(c) \/ MarkFails(c)
    \/ CommitMessages(c) \/ CommitFails(c)

Next ==
    \/ \E m \in Messages : Produce(m)
    \/ Assign \/ Rebalance
    \/ \E c \in Consumers : Run(c) \/ PersistFails(c) \/ Crash(c) \/ Restart(c)

Spec == Init /\ [][Next]_vars

\* Workers run and are restarted, and the group assigns every partition.
Fairness ==
    /\ WF_vars(Assign)
    /\ \A c \in Consumers : WF_vars(Run(c)) /\ WF_vars(Restart(c))

FairSpec == Spec /\ Fairness

-----------------------------------------------------------------------------
(* Properties.                                                             *)

\* What consuming a message must have left behind.
AccountedAt(p, i) ==
    IF KindOf[log[p][i]] = "valid"
    THEN /\ ledger[KeyOf[log[p][i]]] = "persisted"
         /\ KeyOf[log[p][i]] \in stored
    ELSE [partition |-> p, offset |-> i] \in deadLetters

\* "Run commits Kafka only after the ledger says the sanitized event was
\* persisted": no message below a committed offset is lost, whatever crashed,
\* moved or was retried between claim, insert, mark and commit.
CommittedAccounted ==
    \A p \in Partitions : \A i \in 1..committed[p] :
        i \in 1..Len(log[p]) /\ AccountedAt(p, i)

\* The ledger says "persisted" only of an event ClickHouse has a row of.
PersistedStored == \A k \in Keys : ledger[k] = "persisted" => k \in stored

\* CommittedAccounted is inductive with four more facts: a consumer holds a
\* message exactly while it works on one, at "mark" that event is stored and at
\* "commit" the message is accounted for, so is every message before the one it
\* holds, and every message its partitions' readers have passed is accounted
\* for unless the partition's consumer holds it.
Busy == {"deadletter", "claim", "persist", "mark", "commit"}
HeldShape ==
    \A c \in Consumers :
        /\ pc[c] \notin Busy => current[c] = NoMessage
        /\ pc[c] \in Busy =>
               /\ current[c] \in Place
               /\ current[c].offset <= Len(log[current[c].partition])
        /\ pc[c] = "deadletter" => KindOf[MessageAt(current[c])] # "valid"
        /\ pc[c] \in {"claim", "persist", "mark"} => KindOf[MessageAt(current[c])] = "valid"
HeldProgress ==
    \A c \in Consumers :
        /\ pc[c] = "mark" => Key(c) \in stored
        /\ pc[c] = "commit" => AccountedAt(current[c].partition, current[c].offset)
HeldPrefix ==
    \A c \in Consumers : pc[c] \in Busy =>
        \A i \in 1..(current[c].offset - 1) : AccountedAt(current[c].partition, i)
ReadPrefix ==
    \A p \in Partitions : assigned[p] # NoConsumer =>
        /\ position[p] <= Len(log[p])
        /\ \A i \in 1..position[p] :
               \/ AccountedAt(p, i)
               \/ current[assigned[p]] = [partition |-> p, offset |-> i]
ConsumerInv ==
    /\ TypeOK /\ PersistedStored
    /\ HeldShape /\ HeldProgress /\ HeldPrefix /\ ReadPrefix
    /\ CommittedAccounted

\* Every message produced is persisted or dead-lettered in the end, after
\* finitely many crashes, failed writes and rebalances: unless an orphan stands
\* at its place or before it, which stops its partition for good.
Passable(p, i) ==
    i \in 1..Len(log[p]) /\ \A j \in 1..i : KindOf[log[p][j]] # "orphan"
EventuallyAccounted ==
    \A p \in Partitions : \A i \in 1..MaxLog :
        Passable(p, i) ~> (i \in 1..Len(log[p]) /\ AccountedAt(p, i))

=============================================================================
