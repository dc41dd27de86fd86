----------------------- MODULE DeliveryConsumerProofs -----------------------
(***************************************************************************)
(* Theorems about DeliveryConsumer for every set of partitions, messages   *)
(* and consumers and every bound: committing an offset never loses a       *)
(* message.                                                                *)
(***************************************************************************)
EXTENDS DeliveryConsumer, TLAPS

\* Every variable has its type initially.
LEMMA TypeInit == Init => TypeOK
  BY ConsumerBounds DEF Init, TypeOK

\* The process variables after an exit have their types.
LEMMA ExitType ==
    ASSUME TypeOK, NEW c \in Consumers, Exit(c)
    PROVE  /\ pc' \in [Consumers -> {"fetch", "deadletter", "claim", "persist", "mark", "commit", "down"}]
           /\ current' \in [Consumers -> Place \cup {NoMessage}]
           /\ assigned' \in [Partitions -> Consumers \cup {NoConsumer}]
  BY DEF TypeOK, Exit, Goto

\* A consumer at work holds a message of the log, with its key.
LEMMA HeldType ==
    ASSUME TypeOK, HeldShape, NEW c \in Consumers, pc[c] \in Busy
    PROVE  /\ current[c] \in Place
           /\ current[c].partition \in Partitions
           /\ current[c].offset \in 1..Len(log[current[c].partition])
           /\ MessageAt(current[c]) \in Messages
           /\ Key(c) \in Keys
  <1>1. /\ current[c] \in Place
        /\ current[c].partition \in Partitions
        /\ current[c].offset \in 1..Len(log[current[c].partition])
    BY DEF HeldShape, Place, TypeOK
  <1>2. log[current[c].partition] \in Seq(Messages)
    BY <1>1 DEF TypeOK
  <1>3. MessageAt(current[c]) \in Messages
    BY <1>1, <1>2 DEF MessageAt
  <1> QED
    BY <1>1, <1>3, MessageAssumption DEF Key

\* A step of a consumer keeps the types.
LEMMA TypeConsumer ==
    ASSUME TypeOK, HeldShape, NEW c \in Consumers,
           Run(c) \/ PersistFails(c) \/ Crash(c) \/ Restart(c)
    PROVE  TypeOK'
  <1>1. CASE FetchMessage(c)
    <2> PICK p \in Partitions :
            /\ position' = [position EXCEPT ![p] = position[p] + 1]
            /\ current' = [current EXCEPT ![c] =
                   [partition |-> p, offset |-> position[p] + 1]]
            /\ \E l \in {"claim", "deadletter"} : pc' = [pc EXCEPT ![c] = l]
            /\ UNCHANGED <<log, committed, assigned, ledger, stored, deadLetters, bounds>>
      BY <1>1 DEF FetchMessage, Goto
    <2>1. position[p] + 1 \in Nat \ {0}
      BY DEF TypeOK
    <2>2. [partition |-> p, offset |-> position[p] + 1] \in Place
      BY <2>1 DEF Place
    <2> QED
      BY <2>1, <2>2 DEF TypeOK, bounds
  <1>2. CASE RecordDeadLetter(c)
    <2>1. current[c] \in Place
      BY <1>2, HeldType DEF RecordDeadLetter, Busy
    <2> QED
      BY <1>2, <2>1 DEF RecordDeadLetter, TypeOK, broker, bounds, Goto
  <1>3. CASE ClaimDelivery(c)
    BY <1>3 DEF ClaimDelivery, TypeOK, broker, bounds, Goto
  <1>4. CASE Persist(c)
    <2>1. Key(c) \in Keys
      BY <1>4, HeldType DEF Persist, Busy
    <2> QED
      BY <1>4, <2>1 DEF Persist, TypeOK, broker, bounds, Goto
  <1>5. CASE MarkPersisted(c)
    BY <1>5 DEF MarkPersisted, TypeOK, broker, bounds, Goto
  <1>6. CASE MarkFails(c)
    BY <1>6, ExitType DEF MarkFails, TypeOK, bounds
  <1>7. CASE CommitMessages(c)
    <2>1. current[c].offset \in Nat
      BY <1>7, HeldType DEF CommitMessages, Busy, Place
    <2> QED
      BY <1>7, <2>1 DEF CommitMessages, TypeOK, bounds, Goto
  <1>8. CASE CommitFails(c) \/ DeadLetterFails(c)
    BY <1>8, ExitType DEF CommitFails, DeadLetterFails, TypeOK, bounds
  <1>9. CASE PersistFails(c)
    <2>1. Key(c) \in Keys
      BY <1>9, HeldType DEF PersistFails, Busy
    <2> QED
      BY <1>9, <2>1, ExitType, ConsumerBounds DEF PersistFails, TypeOK
  <1>10. CASE Crash(c)
    BY <1>10, ExitType, ConsumerBounds DEF Crash, TypeOK
  <1>11. CASE Restart(c)
    BY <1>11 DEF Restart, TypeOK, broker, bounds, Goto
  <1> QED
    BY <1>1, <1>2, <1>3, <1>4, <1>5, <1>6, <1>7, <1>8, <1>9, <1>10, <1>11 DEF Run

\* A publish or a change of the group keeps the types.
LEMMA TypeBroker ==
    ASSUME TypeOK, (\E m \in Messages : Produce(m)) \/ Assign \/ Rebalance
    PROVE  TypeOK'
  <1>1. CASE \E m \in Messages : Produce(m)
    <2> PICK m \in Messages : Produce(m)
      BY <1>1
    <2>1. PartitionOf[m] \in Partitions
      BY MessageAssumption
    <2>2. Append(log[PartitionOf[m]], m) \in Seq(Messages)
      BY <2>1 DEF TypeOK
    <2> QED
      BY <2>1, <2>2 DEF Produce, TypeOK, bounds
  <1>2. CASE Assign
    BY <1>2 DEF Assign, NewGeneration, Running, TypeOK
  <1>3. CASE Rebalance
    BY <1>3, ConsumerBounds DEF Rebalance, NewGeneration, Running, TypeOK
  <1> QED
    BY <1>1, <1>2, <1>3

\* Every step keeps the types.
LEMMA TypeStep == TypeOK /\ HeldShape /\ [Next]_vars => TypeOK'
  <1> SUFFICES ASSUME TypeOK, HeldShape, [Next]_vars PROVE TypeOK'
    OBVIOUS
  <1>1. CASE UNCHANGED vars
    BY <1>1 DEF TypeOK, vars, broker, bounds
  <1>2. CASE Next
    BY <1>2, TypeConsumer, TypeBroker DEF Next
  <1> QED
    BY <1>1, <1>2

-----------------------------------------------------------------------------
(* What was recorded stays recorded.                                       *)

\* The log, the "persisted" entries, the stored rows and the dead letters of
\* one state are still there in the next.
Grows ==
    /\ \A p \in Partitions :
          /\ Len(log[p]) <= Len(log'[p])
          /\ \A i \in 1..Len(log[p]) : log'[p][i] = log[p][i]
    /\ \A k \in Keys : ledger[k] = "persisted" => ledger'[k] = "persisted"
    /\ stored \subseteq stored'
    /\ deadLetters \subseteq deadLetters'

\* A step that leaves the log alone.
LEMMA LogUnchanged == ASSUME TypeOK, UNCHANGED log
    PROVE \A p \in Partitions :
          /\ Len(log[p]) <= Len(log'[p])
          /\ \A i \in 1..Len(log[p]) : log'[p][i] = log[p][i]
  BY DEF TypeOK

\* Every step grows those four.
LEMMA StepGrows == TypeOK /\ [Next]_vars => Grows
  <1> SUFFICES ASSUME TypeOK, [Next]_vars PROVE Grows
    OBVIOUS
  <1>1. CASE UNCHANGED vars
    BY <1>1, LogUnchanged DEF Grows, vars, broker
  <1>2. CASE \E m \in Messages : Produce(m)
    <2> PICK m \in Messages : Produce(m)
      BY <1>2
    <2>1. PartitionOf[m] \in Partitions /\ log[PartitionOf[m]] \in Seq(Messages)
      BY MessageAssumption DEF TypeOK
    <2>2. ASSUME NEW p \in Partitions
          PROVE  /\ Len(log[p]) <= Len(log'[p])
                 /\ \A i \in 1..Len(log[p]) : log'[p][i] = log[p][i]
      BY <2>1 DEF Produce, TypeOK
    <2> QED
      BY <2>2 DEF Produce, Grows
  <1>3. CASE Assign \/ Rebalance
    BY <1>3, LogUnchanged DEF Assign, Rebalance, NewGeneration, Grows
  <1>4. ASSUME NEW c \in Consumers,
               Run(c) \/ PersistFails(c) \/ Crash(c) \/ Restart(c)
        PROVE  Grows
    <2>1. CASE FetchMessage(c) \/ MarkFails(c) \/ CommitMessages(c) \/ CommitFails(c) \/ DeadLetterFails(c)
      BY <2>1, LogUnchanged
         DEF FetchMessage, MarkFails, CommitMessages, CommitFails, DeadLetterFails, Grows
    <2>2. CASE RecordDeadLetter(c) \/ Persist(c) \/ PersistFails(c) \/ Crash(c) \/ Restart(c)
      BY <2>2, LogUnchanged
         DEF RecordDeadLetter, Persist, PersistFails, Crash, Restart, Grows, broker
    <2>3. CASE ClaimDelivery(c) \/ MarkPersisted(c)
      BY <2>3, LogUnchanged DEF ClaimDelivery, MarkPersisted, Grows, broker, TypeOK
    <2> QED
      BY <1>4, <2>1, <2>2, <2>3 DEF Run
  <1> QED
    BY <1>1, <1>2, <1>3, <1>4 DEF Next

\* A message accounted for once stays accounted for.
LEMMA AccountedStays ==
    ASSUME TypeOK, Grows, NEW p \in Partitions, NEW i \in 1..Len(log[p]),
           AccountedAt(p, i)
    PROVE  AccountedAt(p, i)'
  <1>1. log'[p][i] = log[p][i]
    BY DEF Grows
  <1>2. KeyOf[log[p][i]] \in Keys
    <2>1. log[p] \in Seq(Messages)
      BY DEF TypeOK
    <2>2. log[p][i] \in Messages
      BY <2>1
    <2> QED
      BY <2>2, MessageAssumption
  <1> QED
    BY <1>1, <1>2 DEF Grows, AccountedAt

-----------------------------------------------------------------------------
(* The inductive invariant.                                                *)

\* The invariant and its facts hold initially.
LEMMA InvInit == Init => ConsumerInv
  <1> SUFFICES ASSUME Init PROVE ConsumerInv
    OBVIOUS
  <1>1. TypeOK
    BY TypeInit
  <1>2. \A c \in Consumers : pc[c] \notin Busy /\ current[c] = NoMessage
    BY DEF Init, Busy
  <1>3. HeldShape /\ HeldProgress /\ HeldPrefix
    BY <1>2 DEF HeldShape, HeldProgress, HeldPrefix, Busy
  <1>4. ReadPrefix
    BY DEF Init, ReadPrefix
  <1>5. PersistedStored
    BY DEF Init, PersistedStored
  <1>6. CommittedAccounted
    BY DEF Init, CommittedAccounted
  <1> QED
    BY <1>1, <1>3, <1>4, <1>5, <1>6 DEF ConsumerInv

\* What a step of one consumer does to every other: it leaves them alone.
Others(c) ==
    \A d \in Consumers \ {c} : pc'[d] = pc[d] /\ current'[d] = current[d]

\* Every step of a consumer leaves the other consumers alone.
LEMMA OneConsumer ==
    ASSUME TypeOK, NEW c \in Consumers,
           Run(c) \/ PersistFails(c) \/ Crash(c) \/ Restart(c)
    PROVE  Others(c)
  <1>1. CASE MarkFails(c) \/ CommitFails(c) \/ DeadLetterFails(c) \/ PersistFails(c) \/ Crash(c)
    BY <1>1 DEF MarkFails, CommitFails, DeadLetterFails, PersistFails, Crash, Exit, Goto, Others, TypeOK
  <1>2. CASE FetchMessage(c)
    BY <1>2 DEF FetchMessage, Goto, Others, TypeOK
  <1>3. CASE RecordDeadLetter(c) \/ ClaimDelivery(c) \/ Persist(c) \/ MarkPersisted(c) \/ Restart(c)
    BY <1>3 DEF RecordDeadLetter, ClaimDelivery, Persist, MarkPersisted, Restart,
                Goto, Others, TypeOK, broker
  <1>4. CASE CommitMessages(c)
    BY <1>4 DEF CommitMessages, Goto, Others, TypeOK
  <1> QED
    BY <1>1, <1>2, <1>3, <1>4 DEF Run

\* A consumer that keeps its message keeps the facts about what it holds.
LEMMA HeldStays ==
    ASSUME ConsumerInv, TypeOK', Grows, NEW c \in Consumers,
           pc'[c] = pc[c], current'[c] = current[c]
    PROVE  /\ pc'[c] \notin Busy => current'[c] = NoMessage
           /\ pc'[c] \in Busy =>
                 /\ current'[c] \in Place
                 /\ current'[c].offset <= Len(log'[current'[c].partition])
           /\ pc'[c] = "deadletter" => KindOf[MessageAt(current[c])'] # "valid"
           /\ pc'[c] \in {"claim", "persist", "mark"} =>
                 KindOf[MessageAt(current[c])'] = "valid"
           /\ pc'[c] = "mark" => Key(c)' \in stored'
           /\ pc'[c] = "commit" => AccountedAt(current[c].partition, current[c].offset)'
           /\ pc'[c] \in Busy =>
                 \A i \in 1..(current'[c].offset - 1) : AccountedAt(current[c].partition, i)'
  <1>1. TypeOK /\ HeldShape /\ HeldProgress /\ HeldPrefix
    BY DEF ConsumerInv
  <1>2. CASE pc[c] \notin Busy
    BY <1>1, <1>2 DEF HeldShape, Busy
  <1>3. CASE pc[c] \in Busy
    <2> DEFINE p == current[c].partition
               o == current[c].offset
    <2>1. current[c] \in Place /\ p \in Partitions /\ o \in 1..Len(log[p])
      BY <1>1, <1>3, HeldType
    <2>2. o <= Len(log'[p]) /\ log'[p][o] = log[p][o]
      <3>1. Len(log[p]) \in Nat /\ Len(log'[p]) \in Nat
        BY <1>1, <2>1 DEF TypeOK
      <3> QED
        BY <2>1, <3>1 DEF Grows
    <2>3. MessageAt(current[c])' = MessageAt(current[c])
      BY <2>2 DEF MessageAt
    <2>4. pc[c] = "commit" => AccountedAt(p, o)'
      BY <1>1, <2>1, AccountedStays DEF HeldProgress
    <2>5. \A i \in 1..(o - 1) : AccountedAt(p, i)'
      <3> TAKE i \in 1..(o - 1)
      <3>1. i \in 1..Len(log[p])
        BY <1>1, <2>1 DEF TypeOK
      <3>2. AccountedAt(p, i)
        BY <1>1, <1>3 DEF HeldPrefix
      <3> QED
        BY <1>1, <2>1, <3>1, <3>2, AccountedStays
    <2>6. pc[c] = "mark" => Key(c)' \in stored'
      BY <1>1, <2>3 DEF HeldProgress, Key, Grows
    <2>7. pc[c] = "deadletter" => KindOf[MessageAt(current[c])'] # "valid"
      BY <1>1, <2>3 DEF HeldShape
    <2>8. pc[c] \in {"claim", "persist", "mark"} => KindOf[MessageAt(current[c])'] = "valid"
      BY <1>1, <2>3 DEF HeldShape
    <2> QED
      BY <1>3, <2>1, <2>2, <2>4, <2>5, <2>6, <2>7, <2>8
  <1> QED
    BY <1>2, <1>3

\* What each consumer holds, as one fact about that consumer.
Held(c) ==
    /\ pc[c] \notin Busy => current[c] = NoMessage
    /\ pc[c] \in Busy =>
           /\ current[c] \in Place
           /\ current[c].offset <= Len(log[current[c].partition])
           /\ \A i \in 1..(current[c].offset - 1) : AccountedAt(current[c].partition, i)
    /\ pc[c] = "deadletter" => KindOf[MessageAt(current[c])] # "valid"
    /\ pc[c] \in {"claim", "persist", "mark"} => KindOf[MessageAt(current[c])] = "valid"
    /\ pc[c] = "mark" => Key(c) \in stored
    /\ pc[c] = "commit" => AccountedAt(current[c].partition, current[c].offset)

\* A step of consumer c keeps what it holds in order.
LEMMA HeldConsumer ==
    ASSUME ConsumerInv, TypeOK', Grows, NEW c \in Consumers,
           Run(c) \/ PersistFails(c) \/ Crash(c) \/ Restart(c)
    PROVE  Held(c)'
  <1> USE DEF ConsumerInv
  <1> DEFINE p == current[c].partition
             o == current[c].offset
  <1>0. TypeOK /\ HeldShape
    OBVIOUS
  <1>1. CASE MarkFails(c) \/ CommitFails(c) \/ DeadLetterFails(c) \/ PersistFails(c) \/ Crash(c)
    <2>1. pc'[c] = "down" /\ current'[c] = NoMessage
      BY <1>1 DEF MarkFails, CommitFails, DeadLetterFails, PersistFails, Crash, Exit, Goto, TypeOK
    <2> QED
      BY <2>1 DEF Held, Busy
  <1>2. CASE Restart(c)
    <2>1. pc'[c] = "fetch" /\ current'[c] = NoMessage
      BY <1>2 DEF Restart, Goto, TypeOK, HeldShape, Busy
    <2> QED
      BY <2>1 DEF Held, Busy
  <1>3. CASE CommitMessages(c)
    <2>1. pc'[c] = "fetch" /\ current'[c] = NoMessage
      BY <1>3 DEF CommitMessages, Goto, TypeOK
    <2> QED
      BY <2>1 DEF Held, Busy
  <1>4. ASSUME current'[c] = current[c], log' = log, pc[c] \in Busy, pc'[c] \in Busy,
               pc'[c] \in {"deadletter"} => KindOf[MessageAt(current[c])] # "valid",
               pc'[c] \in {"claim", "persist", "mark"} => KindOf[MessageAt(current[c])] = "valid",
               pc'[c] = "mark" => Key(c) \in stored',
               pc'[c] = "commit" => AccountedAt(p, o)'
        PROVE  Held(c)'
    <2>1. current[c] \in Place /\ p \in Partitions /\ o \in 1..Len(log[p])
      BY <1>4, HeldType
    <2>2. \A i \in 1..(o - 1) : AccountedAt(p, i)'
      <3> TAKE i \in 1..(o - 1)
      <3>1. i \in 1..Len(log[p])
        BY <2>1 DEF TypeOK
      <3>2. AccountedAt(p, i)
        BY <1>4 DEF HeldPrefix
      <3> QED
        BY <1>0, <1>4, <2>1, <3>1, <3>2, AccountedStays
    <2>3. o <= Len(log'[p])
      BY <1>4, <2>1 DEF TypeOK
    <2>4. MessageAt(current[c])' = MessageAt(current[c]) /\ Key(c)' = Key(c)
      BY <1>4 DEF MessageAt, Key
    <2> QED
      BY <1>4, <2>1, <2>2, <2>3, <2>4 DEF Held, Busy
  <1>5. CASE RecordDeadLetter(c)
    <2>1. /\ pc[c] = "deadletter" /\ pc'[c] = "commit" /\ UNCHANGED <<log, current>>
          /\ current[c] \in deadLetters'
      BY <1>5 DEF RecordDeadLetter, Goto, broker, TypeOK
    <2>2. current[c] \in Place /\ KindOf[log[p][o]] # "valid"
      BY <2>1, HeldType DEF HeldShape, MessageAt, Busy
    <2>3. [partition |-> p, offset |-> o] = current[c]
      BY <2>2 DEF Place
    <2>4. AccountedAt(p, o)'
      BY <2>1, <2>2, <2>3 DEF AccountedAt
    <2> QED
      BY <1>4, <2>1, <2>4 DEF Busy
  <1>6. CASE ClaimDelivery(c)
    <2>1. /\ pc[c] = "claim" /\ UNCHANGED <<log, current, stored>>
          /\ pc'[c] = IF ledger[Key(c)] = "persisted" THEN "commit" ELSE "persist"
      BY <1>6 DEF ClaimDelivery, Goto, broker, TypeOK
    <2>2. KindOf[MessageAt(current[c])] = "valid" /\ Key(c) \in Keys
      BY <2>1, HeldType DEF HeldShape, Busy
    <2>3. ledger[Key(c)] = "persisted" => AccountedAt(p, o)'
      BY <2>1, <2>2 DEF AccountedAt, PersistedStored, Grows, Key, MessageAt
    <2> QED
      BY <1>4, <2>1, <2>2, <2>3 DEF Busy
  <1>7. CASE Persist(c)
    <2>1. /\ pc[c] = "persist" /\ pc'[c] = "mark" /\ UNCHANGED <<log, current>>
          /\ Key(c) \in stored'
      BY <1>7 DEF Persist, Goto, broker, TypeOK
    <2>2. KindOf[MessageAt(current[c])] = "valid"
      BY <2>1 DEF HeldShape
    <2> QED
      BY <1>4, <2>1, <2>2 DEF Busy
  <1>8. CASE MarkPersisted(c)
    <2>1. /\ pc[c] = "mark" /\ pc'[c] = "commit" /\ UNCHANGED <<log, current, stored>>
          /\ ledger' = [ledger EXCEPT ![Key(c)] = "persisted"]
      BY <1>8 DEF MarkPersisted, Goto, broker, TypeOK
    <2>2. KindOf[MessageAt(current[c])] = "valid" /\ Key(c) \in Keys /\ Key(c) \in stored
      BY <2>1, HeldType DEF HeldShape, HeldProgress, Busy
    <2>3. AccountedAt(p, o)'
      BY <2>1, <2>2 DEF AccountedAt, Key, MessageAt, TypeOK
    <2> QED
      BY <1>4, <2>1, <2>3 DEF Busy
  <1>9. CASE FetchMessage(c)
    <2> PICK q \in Partitions :
            /\ pc[c] = "fetch" /\ assigned[q] = c
            /\ position[q] + 1 <= Len(log[q])
            /\ current' = [current EXCEPT ![c] =
                   [partition |-> q, offset |-> position[q] + 1]]
            /\ pc' = [pc EXCEPT ![c] = IF KindOf[log[q][position[q] + 1]] = "valid"
                                       THEN "claim" ELSE "deadletter"]
            /\ UNCHANGED <<log, ledger, stored, deadLetters>>
      BY <1>9 DEF FetchMessage, Goto
    <2>1. position[q] \in Nat /\ position[q] + 1 \in 1..Len(log[q])
      BY DEF TypeOK
    <2>2. current'[c] = [partition |-> q, offset |-> position[q] + 1]
      BY DEF TypeOK
    <2>3. current'[c] \in Place
      BY <2>1, <2>2 DEF Place
    <2>4. current[c] = NoMessage /\ c # NoConsumer
      BY ConsumerAssumption DEF HeldShape, Busy
    <2>5. \A i \in 1..position[q] : AccountedAt(q, i)
      <3> TAKE i \in 1..position[q]
      <3>1. [partition |-> q, offset |-> i] \in Place
        BY <2>1 DEF Place
      <3>2. AccountedAt(q, i) \/ current[c] = [partition |-> q, offset |-> i]
        BY <2>4 DEF ReadPrefix
      <3> QED
        BY <2>4, <3>1, <3>2, ConsumerAssumption
    <2>6. \A i \in 1..(position[q] + 1 - 1) : AccountedAt(q, i)'
      <3> TAKE i \in 1..(position[q] + 1 - 1)
      <3>1. i \in 1..position[q] /\ i \in 1..Len(log[q])
        BY <2>1
      <3> QED
        BY <2>5, <3>1, AccountedStays
    <2>7. pc'[c] = IF KindOf[MessageAt(current[c])'] = "valid" THEN "claim" ELSE "deadletter"
      BY <2>2 DEF MessageAt, TypeOK
    <2> QED
      BY <2>1, <2>2, <2>3, <2>6, <2>7 DEF Held, Busy
  <1> QED
    BY <1>1, <1>2, <1>3, <1>5, <1>6, <1>7, <1>8, <1>9 DEF Run

\* Publishes and changes of the group leave the consumers as they are.
LEMMA BrokerKeepsConsumers ==
    (\E m \in Messages : Produce(m)) \/ Assign \/ Rebalance => UNCHANGED <<pc, current>>
  BY DEF Produce, Assign, Rebalance, NewGeneration

\* Every step keeps what the consumers hold in order.
LEMMA HeldStep ==
    ASSUME ConsumerInv, TypeOK', Grows, [Next]_vars
    PROVE  (HeldShape /\ HeldProgress /\ HeldPrefix)'
  <1> SUFFICES ASSUME NEW d \in Consumers PROVE Held(d)'
    BY DEF Held, HeldShape, HeldProgress, HeldPrefix, Busy
  <1>1. ASSUME pc'[d] = pc[d], current'[d] = current[d] PROVE Held(d)'
    BY <1>1, HeldStays DEF Held
  <1>2. CASE UNCHANGED vars
    BY <1>1, <1>2 DEF vars
  <1>3. CASE (\E m \in Messages : Produce(m)) \/ Assign \/ Rebalance
    BY <1>1, <1>3, BrokerKeepsConsumers
  <1>4. ASSUME NEW c \in Consumers,
               Run(c) \/ PersistFails(c) \/ Crash(c) \/ Restart(c)
        PROVE  Held(d)'
    <2>1. CASE d = c
      BY <1>4, <2>1, HeldConsumer
    <2>2. CASE d # c
      BY <1>1, <1>4, <2>2, OneConsumer DEF Others, ConsumerInv
    <2> QED
      BY <2>1, <2>2
  <1> QED
    BY <1>2, <1>3, <1>4 DEF Next

\* The ledger says "persisted" of an event only after its insert.
LEMMA PersistedStep ==
    ASSUME ConsumerInv, Grows, [Next]_vars PROVE PersistedStored'
  <1> USE DEF ConsumerInv
  <1>1. CASE UNCHANGED ledger
    BY <1>1 DEF PersistedStored, Grows
  <1>2. ASSUME NEW c \in Consumers, ClaimDelivery(c) PROVE PersistedStored'
    BY <1>2 DEF ClaimDelivery, PersistedStored, TypeOK
  <1>3. ASSUME NEW c \in Consumers, MarkPersisted(c) PROVE PersistedStored'
    <2>1. Key(c) \in stored
      BY <1>3 DEF MarkPersisted, HeldProgress
    <2> QED
      BY <1>3, <2>1 DEF MarkPersisted, PersistedStored, TypeOK
  <1>4. ASSUME NEW c \in Consumers, ~ClaimDelivery(c), ~MarkPersisted(c),
               Run(c) \/ PersistFails(c) \/ Crash(c) \/ Restart(c)
        PROVE  UNCHANGED ledger
    BY <1>4 DEF Run, FetchMessage, RecordDeadLetter, Persist, MarkFails, CommitMessages,
                CommitFails, DeadLetterFails, PersistFails, Crash, Restart
  <1>5. (\E m \in Messages : Produce(m)) \/ Assign \/ Rebalance \/ UNCHANGED vars
            => UNCHANGED ledger
    BY DEF Produce, Assign, Rebalance, NewGeneration, vars
  <1> QED
    BY <1>1, <1>2, <1>3, <1>4, <1>5 DEF Next

\* A commit moves the committed offset to an accounted prefix of the log.
LEMMA CommittedStep ==
    ASSUME ConsumerInv, Grows, TypeOK', [Next]_vars PROVE CommittedAccounted'
  <1> USE DEF ConsumerInv
  <1>1. ASSUME NEW p \in Partitions, NEW n \in Nat,
               \A i \in 1..n : i \in 1..Len(log[p]) /\ AccountedAt(p, i)
        PROVE  \A i \in 1..n : i \in 1..Len(log'[p]) /\ AccountedAt(p, i)'
    <2> TAKE i \in 1..n
    <2>1. i \in 1..Len(log[p]) /\ AccountedAt(p, i)
      BY <1>1
    <2>2. TypeOK /\ Len(log[p]) \in Nat /\ Len(log'[p]) \in Nat
      BY DEF TypeOK
    <2>3. i \in 1..Len(log'[p])
      BY <2>1, <2>2 DEF Grows
    <2> QED
      BY <2>1, <2>2, <2>3, AccountedStays
  <1>2. CASE UNCHANGED committed
    BY <1>1, <1>2 DEF CommittedAccounted, TypeOK
  <1>3. ASSUME NEW c \in Consumers, CommitMessages(c) PROVE CommittedAccounted'
    <2>0. current[c].partition \in Partitions /\ current[c].offset \in Nat
      BY <1>3, HeldType DEF CommitMessages, Busy, Place
    <2> PICK q \in Partitions, o \in Nat :
            q = current[c].partition /\ o = current[c].offset
      BY <2>0
    <2>1. pc[c] = "commit" /\ TypeOK /\ HeldShape /\ committed' = [committed EXCEPT ![q] = o]
      BY <1>3 DEF CommitMessages
    <2>2. q \in Partitions /\ o \in 1..Len(log[q]) /\ Len(log[q]) \in Nat
      BY <2>1, HeldType DEF Busy, TypeOK
    <2>3. \A i \in 1..o : i \in 1..Len(log[q]) /\ AccountedAt(q, i)
      <3> TAKE i \in 1..o
      <3>1. i \in 1..Len(log[q]) /\ (i = o \/ i \in 1..(o - 1))
        BY <2>2
      <3> QED
        BY <2>1, <3>1 DEF HeldProgress, HeldPrefix, Busy
    <2>4. \A i \in 1..o : i \in 1..Len(log'[q]) /\ AccountedAt(q, i)'
      BY <1>1, <2>2, <2>3
    <2>5. ASSUME NEW p \in Partitions, p # q
          PROVE  \A i \in 1..committed'[p] : i \in 1..Len(log'[p]) /\ AccountedAt(p, i)'
      <3>1. committed'[p] = committed[p] /\ committed[p] \in Nat
        BY <2>1, <2>5 DEF TypeOK
      <3> QED
        BY <1>1, <3>1 DEF CommittedAccounted
    <2>6. committed'[q] = o
      BY <2>1, <2>2 DEF TypeOK
    <2> QED
      BY <2>4, <2>5, <2>6 DEF CommittedAccounted
  <1>4. ASSUME NEW c \in Consumers, ~CommitMessages(c),
               Run(c) \/ PersistFails(c) \/ Crash(c) \/ Restart(c)
        PROVE  UNCHANGED committed
    BY <1>4 DEF Run, FetchMessage, RecordDeadLetter, ClaimDelivery, Persist, MarkPersisted,
                MarkFails, CommitFails, DeadLetterFails, PersistFails, Crash, Restart, broker
  <1>5. (\E m \in Messages : Produce(m)) \/ Assign \/ Rebalance \/ UNCHANGED vars
            => UNCHANGED committed
    BY DEF Produce, Assign, Rebalance, NewGeneration, vars, broker
  <1> QED
    BY <1>2, <1>3, <1>4, <1>5 DEF Next

\* What a partition's reader has passed, as one fact about that partition.
Read(p) ==
    assigned[p] # NoConsumer =>
        /\ position[p] <= Len(log[p])
        /\ \A i \in 1..position[p] :
               \/ AccountedAt(p, i)
               \/ current[assigned[p]] = [partition |-> p, offset |-> i]

\* A partition whose reader and consumer do not move keeps its fact, and so
\* does one whose consumer loses a message that is accounted for.
LEMMA ReadStays ==
    ASSUME ConsumerInv, TypeOK', Grows, NEW p \in Partitions,
           position'[p] = position[p],
           assigned'[p] # NoConsumer => assigned'[p] = assigned[p],
           \A i \in 1..position[p] :
               \/ assigned'[p] = NoConsumer
               \/ current'[assigned[p]] = current[assigned[p]]
               \/ current[assigned[p]] # [partition |-> p, offset |-> i]
               \/ AccountedAt(p, i)
    PROVE  Read(p)'
  <1> SUFFICES ASSUME assigned'[p] # NoConsumer PROVE Read(p)'
    BY DEF Read
  <1>1. /\ TypeOK /\ position[p] \in Nat
        /\ Len(log[p]) \in Nat /\ Len(log'[p]) \in Nat
    BY DEF ConsumerInv, TypeOK
  <1>2. position[p] <= Len(log[p])
    BY DEF ConsumerInv, ReadPrefix
  <1>3. position'[p] <= Len(log'[p])
    BY <1>1, <1>2 DEF Grows
  <1>4. ASSUME NEW i \in 1..position[p]
        PROVE  \/ AccountedAt(p, i)'
               \/ current'[assigned'[p]] = [partition |-> p, offset |-> i]
    <2>1. i \in 1..Len(log[p])
      BY <1>1, <1>2
    <2>2. \/ AccountedAt(p, i)
          \/ current[assigned[p]] = [partition |-> p, offset |-> i]
      BY DEF ConsumerInv, ReadPrefix
    <2>3. AccountedAt(p, i) => AccountedAt(p, i)'
      BY <1>1, <2>1, AccountedStays
    <2> QED
      BY <2>2, <2>3
  <1> QED
    BY <1>3, <1>4 DEF Read

\* A step of a consumer keeps every partition's fact.
LEMMA ReadConsumer ==
    ASSUME ConsumerInv, TypeOK', Grows, NEW p \in Partitions, NEW c \in Consumers,
           Run(c) \/ PersistFails(c) \/ Crash(c) \/ Restart(c)
    PROVE  Read(p)'
  <1> USE DEF ConsumerInv
  <1>0. TypeOK /\ HeldShape /\ HeldProgress /\ ReadPrefix
    OBVIOUS
  <1>1. CASE RecordDeadLetter(c) \/ ClaimDelivery(c) \/ Persist(c) \/ MarkPersisted(c) \/ Restart(c)
    <2>1. UNCHANGED <<position, assigned, current>>
      BY <1>1 DEF RecordDeadLetter, ClaimDelivery, Persist, MarkPersisted, Restart, broker
    <2> QED
      BY <2>1, ReadStays
  <1>2. CASE MarkFails(c) \/ CommitFails(c) \/ DeadLetterFails(c) \/ PersistFails(c) \/ Crash(c)
    <2>1. /\ UNCHANGED position
          /\ assigned'[p] # NoConsumer =>
                 /\ assigned'[p] = assigned[p] /\ assigned[p] \in Consumers
                 /\ assigned[p] # c
      BY <1>0, <1>2, ConsumerAssumption
         DEF MarkFails, CommitFails, DeadLetterFails, PersistFails, Crash, Exit, TypeOK
    <2>2. \A d \in Consumers \ {c} : current'[d] = current[d]
      BY <1>0, <1>2, OneConsumer DEF Others
    <2> QED
      BY <2>1, <2>2, ReadStays
  <1>3. CASE CommitMessages(c)
    <2>1. pc[c] = "commit" /\ UNCHANGED <<position, assigned>>
      BY <1>3 DEF CommitMessages
    <2>2. AccountedAt(current[c].partition, current[c].offset)
      BY <1>0, <2>1 DEF HeldProgress
    <2>3. ASSUME NEW i \in 1..position[p],
                 current[c] = [partition |-> p, offset |-> i]
          PROVE  AccountedAt(p, i)
      BY <2>2, <2>3
    <2>4. \A d \in Consumers \ {c} : current'[d] = current[d]
      BY <1>0, <1>3, OneConsumer DEF Others
    <2>5. assigned[p] \in Consumers \cup {NoConsumer}
      BY <1>0 DEF TypeOK
    <2> QED
      BY <2>1, <2>3, <2>4, <2>5, ReadStays
  <1>4. CASE FetchMessage(c)
    <2> PICK q \in Partitions :
            /\ pc[c] = "fetch" /\ assigned[q] = c
            /\ position[q] + 1 <= Len(log[q])
            /\ position' = [position EXCEPT ![q] = position[q] + 1]
            /\ current' = [current EXCEPT ![c] =
                   [partition |-> q, offset |-> position[q] + 1]]
            /\ UNCHANGED <<log, assigned, ledger, stored, deadLetters>>
      BY <1>4 DEF FetchMessage
    <2>1. current[c] = NoMessage
      BY <1>0 DEF HeldShape, Busy
    <2>2. ASSUME NEW i \in 1..position[p] PROVE current[c] # [partition |-> p, offset |-> i]
      <3>1. [partition |-> p, offset |-> i] \in Place
        BY <1>0, <2>2 DEF Place, TypeOK
      <3> QED
        BY <2>1, <3>1, ConsumerAssumption
    <2>3. CASE p = q
      <3>1. position[p] \in Nat /\ Len(log[p]) \in Nat /\ position'[p] = position[p] + 1
        BY <1>0, <2>3 DEF TypeOK
      <3>2. assigned[p] = c /\ c # NoConsumer
            /\ current'[assigned'[p]] = [partition |-> p, offset |-> position[p] + 1]
        BY <1>0, <2>3, ConsumerAssumption DEF TypeOK
      <3>3. ASSUME NEW i \in 1..position'[p]
            PROVE  \/ AccountedAt(p, i)'
                   \/ current'[assigned'[p]] = [partition |-> p, offset |-> i]
        <4>1. CASE i = position[p] + 1
          BY <3>2, <4>1
        <4>2. CASE i \in 1..position[p]
          <5>0. \/ AccountedAt(p, i)
                \/ current[assigned[p]] = [partition |-> p, offset |-> i]
            BY <1>0, <3>2, <4>2 DEF ReadPrefix
          <5>1. AccountedAt(p, i)
            BY <2>2, <3>2, <4>2, <5>0
          <5>2. i \in 1..Len(log[p])
            BY <2>3, <3>1, <4>2
          <5> QED
            BY <1>0, <5>1, <5>2, AccountedStays
        <4> QED
          BY <3>1, <4>1, <4>2
      <3>4. position'[p] <= Len(log'[p])
        BY <2>3, <3>1
      <3> QED
        BY <3>3, <3>4 DEF Read
    <2>4. CASE p # q
      <3>1. position'[p] = position[p] /\ assigned' = assigned
        BY <1>0, <2>4 DEF TypeOK
      <3>2. \A d \in Consumers \ {c} : current'[d] = current[d]
        BY <1>0, <1>4, OneConsumer DEF Others
      <3>3. assigned[p] \in Consumers \cup {NoConsumer}
        BY <1>0 DEF TypeOK
      <3> QED
        BY <2>2, <3>1, <3>2, <3>3, ReadStays
    <2> QED
      BY <2>3, <2>4
  <1> QED
    BY <1>1, <1>2, <1>3, <1>4 DEF Run

\* Every step keeps every partition's fact: a new generation restarts its
\* readers at committed offsets, behind which all messages are accounted for.
LEMMA ReadStep ==
    ASSUME ConsumerInv, TypeOK', Grows, [Next]_vars PROVE ReadPrefix'
  <1> SUFFICES ASSUME NEW p \in Partitions PROVE Read(p)'
    BY DEF Read, ReadPrefix
  <1>1. CASE UNCHANGED vars \/ \E m \in Messages : Produce(m)
    <2>1. UNCHANGED <<position, assigned, current>>
      BY <1>1 DEF vars, broker, Produce
    <2> QED
      BY <2>1, ReadStays
  <1>2. CASE Assign \/ Rebalance
    <2>1. position' = committed /\ log' = log
      BY <1>2 DEF Assign, Rebalance, NewGeneration
    <2>2. committed[p] \in Nat /\ Len(log[p]) \in Nat /\ TypeOK
      BY DEF ConsumerInv, TypeOK
    <2>3. \A i \in 1..committed[p] : i \in 1..Len(log[p]) /\ AccountedAt(p, i)
      BY DEF ConsumerInv, CommittedAccounted
    <2>4. committed[p] <= Len(log[p])
      <3>1. CASE committed[p] = 0
        BY <2>2, <3>1
      <3>2. CASE committed[p] # 0
        <4>1. committed[p] \in 1..committed[p]
          BY <2>2, <3>2
        <4> QED
          BY <2>2, <2>3, <4>1
      <3> QED
        BY <3>1, <3>2
    <2>5. \A i \in 1..committed[p] : AccountedAt(p, i)'
      BY <2>2, <2>3, AccountedStays
    <2> QED
      BY <2>1, <2>4, <2>5 DEF Read
  <1>3. ASSUME NEW c \in Consumers,
               Run(c) \/ PersistFails(c) \/ Crash(c) \/ Restart(c)
        PROVE  Read(p)'
    BY <1>3, ReadConsumer
  <1> QED
    BY <1>1, <1>2, <1>3 DEF Next

-----------------------------------------------------------------------------
(* Theorems.                                                               *)

\* Every step keeps the inductive invariant.
LEMMA InvStep == ConsumerInv /\ [Next]_vars => ConsumerInv'
  <1> SUFFICES ASSUME ConsumerInv, [Next]_vars PROVE ConsumerInv'
    OBVIOUS
  <1>1. TypeOK'
    BY TypeStep DEF ConsumerInv
  <1>2. Grows
    BY StepGrows DEF ConsumerInv
  <1>3. (HeldShape /\ HeldProgress /\ HeldPrefix)'
    BY <1>1, <1>2, HeldStep
  <1>4. PersistedStored' /\ CommittedAccounted' /\ ReadPrefix'
    BY <1>1, <1>2, PersistedStep, CommittedStep, ReadStep
  <1> QED
    BY <1>1, <1>3, <1>4 DEF ConsumerInv

\* More rows in ClickHouse, whoever wrote them, disturb none of its facts.
LEMMA StoredGrows ==
    ASSUME ConsumerInv, stored \subseteq stored', stored' \subseteq Keys,
           UNCHANGED <<broker, pc, current, ledger, deadLetters, bounds>>
    PROVE  ConsumerInv'
  <1>1. TypeOK /\ TypeOK' /\ Grows
    <2>1. TypeOK /\ TypeOK'
      BY DEF ConsumerInv, TypeOK, broker, bounds
    <2> QED
      BY <2>1, LogUnchanged DEF Grows, broker
  <1>2. ASSUME NEW c \in Consumers PROVE Held(c)'
    BY <1>1, HeldStays DEF Held
  <1>3. (HeldShape /\ HeldProgress /\ HeldPrefix)'
    BY <1>2 DEF Held, HeldShape, HeldProgress, HeldPrefix, Busy
  <1>4. \A p \in Partitions : Read(p)'
    BY <1>1, ReadStays DEF broker
  <1>5. ReadPrefix'
    BY <1>4 DEF Read, ReadPrefix
  <1>6. PersistedStored'
    BY DEF ConsumerInv, PersistedStored
  <1>7. CommittedAccounted'
    BY <1>1, AccountedStays DEF ConsumerInv, CommittedAccounted, broker
  <1> QED
    BY <1>1, <1>3, <1>5, <1>6, <1>7 DEF ConsumerInv

\* The inductive invariant of the persistence workers.
THEOREM ConsumerInvariant == Spec => []ConsumerInv
  BY InvInit, InvStep, PTL DEF Spec

\* Every variable of the workers keeps its type.
THEOREM TypeCorrect == Spec => []TypeOK
  <1>1. ConsumerInv => TypeOK
    BY DEF ConsumerInv
  <1> QED
    BY <1>1, ConsumerInvariant, PTL

\* However many workers share the group, crash, retry or lose partitions in the
\* middle of a message, no committed offset passes a message that is neither
\* persisted nor dead-lettered.
THEOREM CommittedAreAccounted == Spec => []CommittedAccounted
  <1>1. ConsumerInv => CommittedAccounted
    BY DEF ConsumerInv
  <1> QED
    BY <1>1, ConsumerInvariant, PTL

\* The delivery ledger never calls an event persisted that ClickHouse lacks.
THEOREM PersistedAreStored == Spec => []PersistedStored
  <1>1. ConsumerInv => PersistedStored
    BY DEF ConsumerInv
  <1> QED
    BY <1>1, ConsumerInvariant, PTL

=============================================================================
