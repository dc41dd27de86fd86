---------------------------- MODULE PolicyCache ----------------------------
(***************************************************************************)
(* The gateway's cache of one tenant's redaction policy                    *)
(* (internal/ingest/policy_cache.go): concurrent requests that serve the    *)
(* cached policy while it is fresh, refresh it from PostgreSQL with no lock *)
(* held, and fall back to the copy they read when the refresh fails.        *)
(*                                                                         *)
(* A policy is the number of the update that made it: 0 is the first one.  *)
(* Time is the gateway's clock in units of its own.                        *)
(*                                                                         *)
(* An operator named Name_variant, placed before Name, is a wrong Name: it *)
(* is no part of the specification, and the runs must reject it.           *)
(***************************************************************************)
EXTENDS Integers

CONSTANTS
    Requests,     \* requests in progress at once
    KindOf,       \* [0..MaxUpdates -> Kinds], what the tenant's policies are
    Interval,     \* refresh interval
    MaxUpdates,   \* bound: policy updates
    MaxTime,      \* bound: the clock
    NoEntry

\* "absent": no row, the gateway's own policy applies.  "invalid": no version,
\* or an expression that does not compile or is too long.
Kinds == {"valid", "absent", "invalid"}

ASSUME PolicyAssumption ==
    /\ MaxUpdates \in Nat
    /\ KindOf \in [0..MaxUpdates -> Kinds]

ASSUME TimeAssumption == Interval \in Nat \ {0} /\ MaxTime \in Nat

VARIABLES
    now,          \* the clock
    source,       \* the policy in PostgreSQL
    replacedAt,   \* history: when each earlier policy was replaced
    policies,     \* the tenant's entry of the cache, or NoEntry
    pc,           \* where each request is in RedactionPolicy
    started,      \* its "now", read before the cache
    cached,       \* the entry it read
    next,         \* the policy it got from the source
    served        \* the policy it returned

vars == <<now, source, replacedAt, policies, pc, started, cached, next, served>>

Policy == 0..MaxUpdates
Entry == [policy : Policy, refreshedAt : Nat]
Labels == {"idle", "read", "query", "store", "fresh", "fallback", "refused"}

ASSUME NoEntryAssumption == NoEntry \notin Entry

TypeOK ==
    /\ now \in 0..MaxTime
    /\ source \in Policy
    /\ replacedAt \in [Policy -> 0..MaxTime]
    /\ policies \in Entry \cup {NoEntry}
    /\ pc \in [Requests -> Labels]
    /\ started \in [Requests -> 0..MaxTime]
    /\ cached \in [Requests -> Entry \cup {NoEntry}]
    /\ next \in [Requests -> Policy]
    /\ served \in [Requests -> Policy]

Init ==
    /\ now = 0 /\ source = 0
    /\ replacedAt = [p \in Policy |-> 0]
    /\ policies = NoEntry
    /\ pc = [r \in Requests |-> "idle"]
    /\ started = [r \in Requests |-> 0]
    /\ cached = [r \in Requests |-> NoEntry]
    /\ next = [r \in Requests |-> 0]
    /\ served = [r \in Requests |-> 0]

world == <<now, source, replacedAt>>
Goto(r, label) == pc' = [pc EXCEPT ![r] = label]
Serve(r, label, p) == Goto(r, label) /\ served' = [served EXCEPT ![r] = p]

-----------------------------------------------------------------------------
(* The tenant, the clock, and the requests.                                *)

Tick ==
    /\ now < MaxTime /\ now' = now + 1
    /\ UNCHANGED <<source, replacedAt, policies, pc, started, cached, next, served>>

\* An operator replaces the policy in redaction_policies.
Update ==
    /\ source < MaxUpdates /\ source' = source + 1
    /\ replacedAt' = [replacedAt EXCEPT ![source] = now]
    /\ UNCHANGED <<now, policies, pc, started, cached, next, served>>

\* now := c.now(); a finished request's place is taken by the next one.
Begin(r) ==
    /\ pc[r] \in {"idle", "fresh", "fallback", "refused"}
    /\ started' = [started EXCEPT ![r] = now]
    /\ Goto(r, "read")
    /\ UNCHANGED <<world, policies, cached, next, served>>

\* exists && now.Sub(cached.refreshedAt) < c.interval
IsFresh(r) ==
    policies # NoEntry /\ started[r] - policies.refreshedAt < Interval

\* The read under RLock, and the return of a fresh entry.
ReadCache(r) ==
    /\ pc[r] = "read"
    /\ cached' = [cached EXCEPT ![r] = policies]
    /\ \/ /\ IsFresh(r)
          /\ Serve(r, "fresh", policies.policy)
       \/ /\ ~IsFresh(r)
          /\ Goto(r, "query") /\ UNCHANGED served
    /\ UNCHANGED <<world, policies, started, next>>

Accepted_unvalidated(p) == p \in Policy

\* validatePolicy
Accepted(p) == KindOf[p] # "invalid"

\* The source answers with the policy of that moment, which is valid.
Query(r) ==
    /\ pc[r] = "query"
    /\ Accepted(source)
    /\ next' = [next EXCEPT ![r] = source]
    /\ Goto(r, "store")
    /\ UNCHANGED <<world, policies, started, cached, served>>

FailQuery_keepsEntry(r) ==
    /\ pc[r] = "query"
    /\ \/ /\ cached[r] # NoEntry
          /\ Serve(r, "fallback", cached[r].policy)
          /\ policies' = [cached[r] EXCEPT !.refreshedAt = started[r]]
       \/ /\ cached[r] = NoEntry
          /\ Goto(r, "refused") /\ UNCHANGED <<served, policies>>
    /\ UNCHANGED <<world, started, cached, next>>

\* The query failed, at any time, or its answer is invalid.
FailQuery(r) ==
    /\ pc[r] = "query"
    /\ \/ /\ cached[r] # NoEntry
          /\ Serve(r, "fallback", cached[r].policy)
       \/ /\ cached[r] = NoEntry
          /\ Goto(r, "refused") /\ UNCHANGED served
    /\ UNCHANGED <<world, policies, started, cached, next>>

Stored_stampedLate(r) == [policy |-> next[r], refreshedAt |-> now]

Stored(r) == [policy |-> next[r], refreshedAt |-> started[r]]

\* The write under Lock, whatever another request has stored meanwhile.
Store(r) ==
    /\ pc[r] = "store"
    /\ policies' = Stored(r)
    /\ Serve(r, "fresh", next[r])
    /\ UNCHANGED <<world, started, cached, next>>

RedactionPolicy(r) == ReadCache(r) \/ Query(r) \/ FailQuery(r) \/ Store(r)

Next == Tick \/ Update \/ \E r \in Requests : Begin(r) \/ RedactionPolicy(r)

Spec == Init /\ [][Next]_vars

-----------------------------------------------------------------------------
(* Properties.                                                             *)

\* Policy p was the tenant's policy at time t or at some later time.
CurrentSince(p, t) == p = source \/ (p < source /\ replacedAt[p] >= t)

\* A request that found a fresh entry or refreshed it is redacted by a policy
\* that was the tenant's at some time within the last interval before that
\* request, although refreshes overlap and the older one may be stored last.
BoundedStaleness ==
    \A r \in Requests : pc[r] = "fresh" =>
        CurrentSince(served[r], started[r] - Interval + 1)

\* BoundedStaleness is inductive with the same fact for what has been stored,
\* read and fetched: an entry is at least as new as its refreshedAt.
EntryCurrent(entry) ==
    entry # NoEntry =>
        entry.refreshedAt <= now /\ CurrentSince(entry.policy, entry.refreshedAt)
CacheCurrent == EntryCurrent(policies) /\ \A r \in Requests : started[r] <= now
NextCurrent ==
    \A r \in Requests : pc[r] = "store" => CurrentSince(next[r], started[r])
StalenessInv == TypeOK /\ CacheCurrent /\ NextCurrent /\ BoundedStaleness

\* README: "Invalid updates never replace the last compiled valid policy": no
\* request, fresh, refreshing or falling back, is ever given an invalid one.
ServedValid ==
    \A r \in Requests : pc[r] \in {"fresh", "fallback"} => KindOf[served[r]] # "invalid"

\* CachedPolicyResolver's comment, a failure "retains the tenant's last valid
\* policy": the active policy never goes back to an earlier one.
NeverReverts ==
    [][policies # NoEntry /\ policies' # policies => policies'.policy >= policies.policy]_vars

=============================================================================
