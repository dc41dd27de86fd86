-------------------------- MODULE PolicyCacheProofs --------------------------
(***************************************************************************)
(* Theorems about PolicyCache for every number of requests, every interval *)
(* and every history of policies.                                          *)
(***************************************************************************)
EXTENDS PolicyCache, TLAPS

\* The invariant holds initially.
LEMMA StalenessInit == Init => StalenessInv
  BY PolicyAssumption, TimeAssumption
     DEF Init, StalenessInv, TypeOK, Policy, Entry, Labels, CacheCurrent, EntryCurrent,
         NextCurrent, BoundedStaleness

\* A policy that was current since t is so since any earlier time.
LEMMA CurrentEarlier ==
    ASSUME TypeOK, NEW p \in Policy, NEW t \in Int, NEW u \in Int, u <= t,
           CurrentSince(p, t)
    PROVE  CurrentSince(p, u)
  <1>1. replacedAt[p] \in Nat
    BY TimeAssumption DEF TypeOK
  <1> QED
    BY <1>1 DEF CurrentSince

\* An update does not end what was so at a time already past.
LEMMA CurrentStays ==
    ASSUME TypeOK, Update \/ UNCHANGED <<source, replacedAt>>,
           NEW p \in Policy, NEW t \in Int, t <= now, CurrentSince(p, t)
    PROVE  CurrentSince(p, t)'
  <1>1. CASE UNCHANGED <<source, replacedAt>>
    BY <1>1 DEF CurrentSince
  <1>2. CASE Update
    <2>1. /\ source \in Nat /\ source \in Policy /\ p \in Nat /\ now \in Nat
          /\ source' = source + 1
          /\ replacedAt' = [replacedAt EXCEPT ![source] = now]
      BY <1>2, PolicyAssumption, TimeAssumption DEF Update, TypeOK, Policy
    <2>2. CASE p = source
      BY <2>1, <2>2 DEF CurrentSince, TypeOK
    <2>3. CASE p # source
      BY <2>1, <2>3 DEF CurrentSince, TypeOK
    <2> QED
      BY <2>2, <2>3
  <1> QED
    BY <1>1, <1>2

\* Every step keeps the types.
LEMMA TypeStep == TypeOK /\ [Next]_vars => TypeOK'
  <1> SUFFICES ASSUME TypeOK, [Next]_vars PROVE TypeOK'
    OBVIOUS
  <1> USE PolicyAssumption, TimeAssumption
  <1>1. CASE UNCHANGED vars
    BY <1>1 DEF TypeOK, vars
  <1>2. CASE Tick
    BY <1>2 DEF Tick, TypeOK
  <1>3. CASE Update
    BY <1>3 DEF Update, TypeOK, Policy
  <1>4. ASSUME NEW r \in Requests, Begin(r) PROVE TypeOK'
    BY <1>4 DEF Begin, TypeOK, Goto, Labels, world
  <1>5. ASSUME NEW r \in Requests, ReadCache(r) PROVE TypeOK'
    <2>1. policies # NoEntry => policies.policy \in Policy
      BY DEF TypeOK, Entry
    <2> QED
      BY <1>5, <2>1 DEF ReadCache, IsFresh, TypeOK, Goto, Serve, Labels, world
  <1>6. ASSUME NEW r \in Requests, Query(r) PROVE TypeOK'
    BY <1>6 DEF Query, TypeOK, Goto, Labels, world
  <1>7. ASSUME NEW r \in Requests, FailQuery(r) PROVE TypeOK'
    <2>1. cached[r] # NoEntry => cached[r].policy \in Policy
      BY DEF TypeOK, Entry
    <2> QED
      BY <1>7, <2>1 DEF FailQuery, TypeOK, Goto, Serve, Labels, world
  <1>8. ASSUME NEW r \in Requests, Store(r) PROVE TypeOK'
    <2>1. Stored(r) \in Entry /\ next[r] \in Policy
      BY DEF Stored, Entry, TypeOK
    <2> QED
      BY <1>8, <2>1 DEF Store, TypeOK, Goto, Serve, Labels, world
  <1> QED
    BY <1>1, <1>2, <1>3, <1>4, <1>5, <1>6, <1>7, <1>8 DEF Next, RedactionPolicy

\* The clock and the tenant leave the cache and the requests as they are.
LEMMA WorldStep ==
    ASSUME StalenessInv, TypeOK', Tick \/ Update \/ UNCHANGED vars
    PROVE  (CacheCurrent /\ NextCurrent /\ BoundedStaleness)'
  <1>1. /\ TypeOK /\ CacheCurrent /\ NextCurrent /\ BoundedStaleness
        /\ Update \/ UNCHANGED <<source, replacedAt>>
        /\ now <= now' /\ now \in Nat /\ now' \in Nat
        /\ UNCHANGED <<policies, pc, started, cached, next, served>>
    BY TimeAssumption DEF StalenessInv, TypeOK, Tick, Update, vars
  <1>2. CacheCurrent'
    <2>1. ASSUME policies # NoEntry
          PROVE  /\ policies.refreshedAt <= now'
                 /\ CurrentSince(policies.policy, policies.refreshedAt)'
      <3>1. /\ policies.policy \in Policy /\ policies.refreshedAt \in Nat
            /\ policies.refreshedAt <= now
            /\ CurrentSince(policies.policy, policies.refreshedAt)
        BY <1>1, <2>1 DEF TypeOK, Entry, CacheCurrent, EntryCurrent
      <3> QED
        BY <1>1, <3>1, CurrentStays
    <2>2. \A r \in Requests : started[r] <= now'
      BY <1>1, TimeAssumption DEF CacheCurrent, TypeOK
    <2> QED
      BY <1>1, <2>1, <2>2 DEF CacheCurrent, EntryCurrent
  <1>3. NextCurrent'
    <2> SUFFICES ASSUME NEW r \in Requests, pc[r] = "store"
                 PROVE  CurrentSince(next[r], started[r])'
      BY <1>1 DEF NextCurrent
    <2>1. next[r] \in Policy /\ started[r] \in Int /\ started[r] <= now
          /\ CurrentSince(next[r], started[r])
      BY <1>1, TimeAssumption DEF TypeOK, CacheCurrent, NextCurrent
    <2> QED
      BY <1>1, <2>1, CurrentStays
  <1>4. BoundedStaleness'
    <2> SUFFICES ASSUME NEW r \in Requests, pc[r] = "fresh"
                 PROVE  CurrentSince(served[r], started[r] - Interval + 1)'
      BY <1>1 DEF BoundedStaleness
    <2>1. /\ served[r] \in Policy /\ started[r] - Interval + 1 \in Int
          /\ started[r] - Interval + 1 <= now
          /\ CurrentSince(served[r], started[r] - Interval + 1)
      BY <1>1, TimeAssumption DEF TypeOK, CacheCurrent, BoundedStaleness
    <2> QED
      BY <1>1, <2>1, CurrentStays
  <1> QED
    BY <1>2, <1>3, <1>4

\* A step of a request keeps the cache and every request current.
LEMMA RequestStep ==
    ASSUME StalenessInv, TypeOK', NEW r \in Requests, Begin(r) \/ RedactionPolicy(r)
    PROVE  (CacheCurrent /\ NextCurrent /\ BoundedStaleness)'
  <1>0. /\ TypeOK /\ CacheCurrent /\ NextCurrent /\ BoundedStaleness
        /\ UNCHANGED <<now, source, replacedAt>>
        /\ now \in Nat /\ Interval \in Nat \ {0} /\ started \in [Requests -> Nat]
    BY TimeAssumption
       DEF StalenessInv, TypeOK, world, Begin, RedactionPolicy, ReadCache, Query, FailQuery, Store
  <1>1. \A p, t : CurrentSince(p, t)' <=> CurrentSince(p, t)
    BY <1>0 DEF CurrentSince
  <1>2. CASE Begin(r)
    BY <1>0, <1>1, <1>2
       DEF Begin, Goto, CacheCurrent, EntryCurrent, NextCurrent, BoundedStaleness, TypeOK
  <1>3. CASE ReadCache(r)
    <2>1. ASSUME IsFresh(r)
          PROVE  CurrentSince(policies.policy, started[r] - Interval + 1)
      <3>1. /\ policies # NoEntry /\ policies.policy \in Policy /\ policies.refreshedAt \in Nat
            /\ started[r] - Interval + 1 <= policies.refreshedAt
        BY <1>0, <2>1 DEF IsFresh, TypeOK, Entry
      <3>2. CurrentSince(policies.policy, policies.refreshedAt)
        BY <1>0, <3>1 DEF CacheCurrent, EntryCurrent
      <3> QED
        BY <1>0, <3>1, <3>2, CurrentEarlier
    <2>2. CacheCurrent' /\ NextCurrent'
      BY <1>0, <1>1, <1>3
         DEF ReadCache, Goto, Serve, CacheCurrent, EntryCurrent, NextCurrent, TypeOK
    <2>3. BoundedStaleness'
      BY <1>0, <1>1, <1>3, <2>1 DEF ReadCache, Goto, Serve, BoundedStaleness, TypeOK
    <2> QED
      BY <2>2, <2>3
  <1>4. CASE Query(r)
    <2>1. CurrentSince(source, started[r])
      BY DEF CurrentSince
    <2> QED
      BY <1>0, <1>1, <1>4, <2>1
         DEF Query, Goto, CacheCurrent, EntryCurrent, NextCurrent, BoundedStaleness, TypeOK
  <1>5. CASE FailQuery(r)
    BY <1>0, <1>1, <1>5
       DEF FailQuery, Goto, Serve, CacheCurrent, EntryCurrent, NextCurrent, BoundedStaleness, TypeOK
  <1>6. CASE Store(r)
    <2>1. CurrentSince(next[r], started[r]) /\ started[r] <= now /\ next[r] \in Policy
      BY <1>0, <1>6 DEF Store, NextCurrent, CacheCurrent, TypeOK
    <2>2. CurrentSince(next[r], started[r] - Interval + 1)
      BY <1>0, <2>1, CurrentEarlier
    <2>3. policies'.policy = next[r] /\ policies'.refreshedAt = started[r]
      BY <1>6 DEF Store, Stored
    <2>4. CacheCurrent' /\ NextCurrent'
      BY <1>0, <1>1, <1>6, <2>1, <2>3
         DEF Store, Goto, Serve, CacheCurrent, EntryCurrent, NextCurrent, TypeOK
    <2>5. BoundedStaleness'
      BY <1>0, <1>1, <1>6, <2>2 DEF Store, Goto, Serve, BoundedStaleness, TypeOK
    <2> QED
      BY <2>4, <2>5
  <1> QED
    BY <1>2, <1>3, <1>4, <1>5, <1>6 DEF RedactionPolicy

\* Every step keeps the invariant.
LEMMA StalenessStep == StalenessInv /\ [Next]_vars => StalenessInv'
  <1> SUFFICES ASSUME StalenessInv, [Next]_vars PROVE StalenessInv'
    OBVIOUS
  <1>1. TypeOK'
    BY TypeStep DEF StalenessInv
  <1>2. (CacheCurrent /\ NextCurrent /\ BoundedStaleness)'
    BY <1>1, WorldStep, RequestStep DEF Next
  <1> QED
    BY <1>1, <1>2 DEF StalenessInv

\* What StalenessInv names holds of every state the gateway reaches: an entry,
\* a policy fetched and a policy served are as new as their times say.
THEOREM StalenessInvariant == Spec => []StalenessInv
  BY StalenessInit, StalenessStep, PTL DEF Spec

\* A request served from the cache or from a refresh is redacted by a policy
\* that was the tenant's within the last refresh interval, for any number of
\* overlapping refreshes.
THEOREM StalenessIsBounded == Spec => []BoundedStaleness
  <1>1. StalenessInv => BoundedStaleness
    BY DEF StalenessInv
  <1> QED
    BY <1>1, StalenessInvariant, PTL

-----------------------------------------------------------------------------
(* Validity: ServedValid needs it of every copy a request can serve.       *)

\* What Accepted lets through, and an entry made of it.
Valid(p) == KindOf[p] # "invalid"
ValidEntry(entry) == entry # NoEntry => Valid(entry.policy)

\* The entry, the copies of it that requests hold and the policies they have
\* fetched passed validatePolicy.
ValidInv ==
    /\ TypeOK
    /\ ValidEntry(policies)
    /\ \A r \in Requests : ValidEntry(cached[r])
    /\ \A r \in Requests : pc[r] = "store" => Valid(next[r])
    /\ ServedValid

\* It holds initially: the cache is empty and nothing has been served.
LEMMA ValidInit == Init => ValidInv
  BY StalenessInit DEF StalenessInv, Init, ValidInv, ValidEntry, ServedValid

\* Every step of a request keeps it: only Query fetches a policy, and it
\* fetches a valid one.
LEMMA ValidRequest ==
    ASSUME ValidInv, TypeOK', NEW r \in Requests, Begin(r) \/ RedactionPolicy(r)
    PROVE  ValidInv'
  <1>0. /\ TypeOK /\ pc \in [Requests -> Labels]
        /\ cached \in [Requests -> Entry \cup {NoEntry}]
        /\ next \in [Requests -> Policy] /\ served \in [Requests -> Policy]
    BY DEF ValidInv, TypeOK
  <1>1. CASE Begin(r)
    BY <1>0, <1>1 DEF Begin, Goto, ValidInv, ValidEntry, Valid, ServedValid
  <1>2. CASE ReadCache(r)
    <2>1. IsFresh(r) => Valid(policies.policy)
      BY DEF IsFresh, ValidInv, ValidEntry
    <2> QED
      BY <1>0, <1>2, <2>1
         DEF ReadCache, Goto, Serve, ValidInv, ValidEntry, Valid, ServedValid
  <1>3. CASE Query(r)
    BY <1>0, <1>3 DEF Query, Accepted, Goto, ValidInv, ValidEntry, Valid, ServedValid
  <1>4. CASE FailQuery(r)
    <2>1. cached[r] # NoEntry => Valid(cached[r].policy)
      BY DEF ValidInv, ValidEntry
    <2> QED
      BY <1>0, <1>4, <2>1
         DEF FailQuery, Goto, Serve, ValidInv, ValidEntry, Valid, ServedValid
  <1>5. CASE Store(r)
    <2>1. Valid(next[r]) /\ policies'.policy = next[r]
      BY <1>5 DEF Store, Stored, ValidInv
    <2> QED
      BY <1>0, <1>5, <2>1 DEF Store, Goto, Serve, ValidInv, ValidEntry, Valid, ServedValid
  <1> QED
    BY <1>1, <1>2, <1>3, <1>4, <1>5 DEF RedactionPolicy

\* Every step keeps it: what the tenant updates does not reach the cache.
LEMMA ValidStep == ValidInv /\ [Next]_vars => ValidInv'
  <1> SUFFICES ASSUME ValidInv, [Next]_vars PROVE ValidInv'
    OBVIOUS
  <1>1. TypeOK'
    BY TypeStep DEF ValidInv
  <1>2. CASE Tick \/ Update \/ UNCHANGED vars
    <2>1. UNCHANGED <<policies, pc, started, cached, next, served>>
      BY <1>2 DEF Tick, Update, vars
    <2> QED
      BY <1>1, <2>1 DEF ValidInv, ValidEntry, Valid, ServedValid
  <1>3. ASSUME NEW r \in Requests, Begin(r) \/ RedactionPolicy(r) PROVE ValidInv'
    BY <1>1, <1>3, ValidRequest
  <1> QED
    BY <1>2, <1>3 DEF Next

\* The README's "Invalid updates never replace the last compiled valid policy":
\* no request is given an invalid policy, whatever updates, refreshes, failures
\* and fallbacks overlap.
THEOREM ServedAreValid == Spec => []ServedValid
  <1>1. ValidInv => ServedValid
    BY DEF ValidInv
  <1> QED
    BY <1>1, ValidInit, ValidStep, PTL DEF Spec

=============================================================================
