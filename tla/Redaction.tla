------------------------------ MODULE Redaction ------------------------------
(***************************************************************************)
(* Sanitizing one event's attributes: Gateway.policy composes the          *)
(* deployment's patterns with the tenant's, and redaction.Sanitize         *)
(* (internal/redaction/redaction.go) runs the e-mail pattern and then each *)
(* of those over what the ones before it have left.                        *)
(*                                                                         *)
(* A value is a sequence of tokens.  A regular expression is the set of    *)
(* words it matches and the tokens that may not follow a match (\b); it    *)
(* matches leftmost and then longest, as the greedy ones in use do.        *)
(*                                                                         *)
(* An operator named Name_variant, placed before Name, is a wrong Name: it *)
(* is no part of the specification, and the runs must reject it.           *)
(***************************************************************************)
EXTENDS Integers, Sequences, Functions

CONSTANTS
    Tokens,           \* what values are made of
    Attributes,       \* keys of the event's attributes
    SensitiveKeys,    \* those sensitiveKey holds of
    Inputs,           \* bound: the attribute maps an event may carry
    Email,            \* emailPattern
    Deployment,       \* Gateway.Patterns, in order
    TenantPolicies,   \* what the resolver may answer: patterns by expression
    NoPolicy,         \* the tenant has none
    InvalidPolicy,    \* it is unavailable, or an expression does not compile
    NoKey

Expressions == Range(Deployment) \cup UNION {Range(p) : p \in TenantPolicies}

ASSUME InputAssumption ==
    /\ \A m \in Inputs : m \in [Attributes -> Seq(Tokens)]
    /\ NoKey \notin Attributes

ASSUME PolicyAssumption ==
    /\ Deployment \in Seq(Expressions)
    /\ \A p \in TenantPolicies : p \in Seq(Expressions)

Redacted == "[REDACTED]"
RedactedEmail == "[REDACTED_EMAIL]"
RedactedPattern == "[REDACTED_PATTERN]"

VARIABLES
    raw,        \* the attributes as received
    policy,     \* what the resolver answers for the tenant
    patterns,   \* what Gateway.policy composed
    pc,
    todo,       \* attributes the loop over the map has left
    key,        \* the one it works on
    step,       \* the patterns that have run over it
    value,      \* redactedValue
    redacted,
    out,        \* the sanitized attributes
    receipt     \* RedactedPaths

vars == <<raw, policy, patterns, pc, todo, key, step, value, redacted, out, receipt>>

-----------------------------------------------------------------------------
(* Matching.                                                               *)

Word(v, i, n) == SubSeq(v, i, i + n - 1)

\* r matches n tokens of v at i.
Matches(r, v, i, n) ==
    /\ i + n - 1 <= Len(v)
    /\ Word(v, i, n) \in r.words
    /\ i + n <= Len(v) => v[i + n] \notin r.notBefore

\* The length of r's match of v at i, 0 without one.
MatchLength(r, v, i) ==
    LET lengths == {n \in 1..Len(v) : Matches(r, v, i, n)} IN
    IF lengths = {} THEN 0 ELSE CHOOSE n \in lengths : \A m \in lengths : m <= n

MatchString(r, v) == \E i \in 1..Len(v) : MatchLength(r, v, i) > 0

ReplaceAllString(r, v, marker) ==
    LET rest[i \in 1..(Len(v) + 1)] ==
            IF i > Len(v) THEN <<>>
            ELSE IF MatchLength(r, v, i) > 0
                 THEN <<marker>> \o rest[i + MatchLength(r, v, i)]
                 ELSE <<v[i]>> \o rest[i + 1]
    IN rest[1]

-----------------------------------------------------------------------------
TypeOK ==
    /\ raw \in Inputs
    /\ policy \in TenantPolicies \cup {NoPolicy, InvalidPolicy}
    /\ pc \in {"policy", "attribute", "pattern", "done", "refused"}
    /\ todo \subseteq Attributes
    /\ key \in Attributes \cup {NoKey}
    /\ step \in 0..Len(patterns)
    /\ redacted \in BOOLEAN
    /\ DOMAIN out = Attributes \ (todo \cup {key})
    /\ receipt \subseteq DOMAIN out

Init ==
    /\ raw \in Inputs
    /\ policy \in TenantPolicies \cup {NoPolicy, InvalidPolicy}
    /\ patterns = <<>>
    /\ pc = "policy"
    /\ todo = Attributes /\ key = NoKey /\ step = 0
    /\ value = <<>> /\ redacted = FALSE
    /\ out = <<>>
    /\ receipt = {}

\* The deployment's patterns apply to every tenant, before its own.
Compose == IF policy = NoPolicy THEN Deployment ELSE Deployment \o policy

ResolvePolicy ==
    /\ pc = "policy"
    /\ policy # InvalidPolicy
    /\ patterns' = Compose
    /\ pc' = "attribute"
    /\ UNCHANGED <<raw, policy, todo, key, step, value, redacted, out, receipt>>

\* The request is refused before anything of it is sanitized or staged.
RefusePolicy ==
    /\ pc = "policy"
    /\ policy = InvalidPolicy
    /\ pc' = "refused"
    /\ UNCHANGED <<raw, policy, patterns, todo, key, step, value, redacted, out, receipt>>

Put(k, v) == [a \in DOMAIN out \cup {k} |-> IF a = k THEN v ELSE out[a]]

RedactSensitive_unreported == \E k \in todo \cap SensitiveKeys :
    /\ pc = "attribute"
    /\ out' = Put(k, <<Redacted>>)
    /\ todo' = todo \ {k}
    /\ UNCHANGED <<raw, policy, patterns, pc, key, step, value, redacted, receipt>>

\* Go's map order is random.
RedactSensitive == \E k \in todo \cap SensitiveKeys :
    /\ pc = "attribute"
    /\ out' = Put(k, <<Redacted>>)
    /\ receipt' = receipt \cup {k}
    /\ todo' = todo \ {k}
    /\ UNCHANGED <<raw, policy, patterns, pc, key, step, value, redacted>>

RedactEmail == \E k \in todo \ SensitiveKeys :
    /\ pc = "attribute"
    /\ key' = k /\ todo' = todo \ {k}
    /\ redacted' = MatchString(Email, raw[k])
    /\ value' = IF MatchString(Email, raw[k])
                THEN ReplaceAllString(Email, raw[k], RedactedEmail) ELSE raw[k]
    /\ step' = 0
    /\ pc' = "pattern"
    /\ UNCHANGED <<raw, policy, patterns, out, receipt>>

RedactPattern_onRaw ==
    LET r == patterns[step + 1] IN
    /\ pc = "pattern" /\ step < Len(patterns)
    /\ step' = step + 1
    /\ redacted' = (redacted \/ MatchString(r, raw[key]))
    /\ value' = IF MatchString(r, raw[key])
                THEN ReplaceAllString(r, raw[key], RedactedPattern) ELSE value
    /\ UNCHANGED <<raw, policy, patterns, pc, todo, key, out, receipt>>

RedactPattern_lastWins ==
    LET r == patterns[step + 1] IN
    /\ pc = "pattern" /\ step < Len(patterns)
    /\ step' = step + 1
    /\ redacted' = MatchString(r, value)
    /\ value' = IF MatchString(r, value)
                THEN ReplaceAllString(r, value, RedactedPattern) ELSE value
    /\ UNCHANGED <<raw, policy, patterns, pc, todo, key, out, receipt>>

RedactPattern ==
    LET r == patterns[step + 1] IN
    /\ pc = "pattern" /\ step < Len(patterns)
    /\ step' = step + 1
    /\ redacted' = (redacted \/ MatchString(r, value))
    /\ value' = IF MatchString(r, value)
                THEN ReplaceAllString(r, value, RedactedPattern) ELSE value
    /\ UNCHANGED <<raw, policy, patterns, pc, todo, key, out, receipt>>

FinishAttribute_onlyRedacted ==
    /\ pc = "pattern" /\ step = Len(patterns)
    /\ out' = IF redacted THEN Put(key, value) ELSE out
    /\ receipt' = IF redacted THEN receipt \cup {key} ELSE receipt
    /\ pc' = "attribute"
    /\ key' = NoKey /\ value' = <<>> /\ redacted' = FALSE /\ step' = 0
    /\ UNCHANGED <<raw, policy, patterns, todo>>

FinishAttribute ==
    /\ pc = "pattern" /\ step = Len(patterns)
    /\ out' = Put(key, IF redacted THEN value ELSE raw[key])
    /\ receipt' = IF redacted THEN receipt \cup {key} ELSE receipt
    /\ pc' = "attribute"
    /\ key' = NoKey /\ value' = <<>> /\ redacted' = FALSE /\ step' = 0
    /\ UNCHANGED <<raw, policy, patterns, todo>>

Return ==
    /\ pc = "attribute" /\ todo = {}
    /\ pc' = "done"
    /\ UNCHANGED <<raw, policy, patterns, todo, key, step, value, redacted, out, receipt>>

Next ==
    \/ ResolvePolicy \/ RefusePolicy
    \/ RedactSensitive \/ RedactEmail \/ RedactPattern \/ FinishAttribute
    \/ Return

Spec == Init /\ [][Next]_vars

-----------------------------------------------------------------------------
(* Properties, of what Sanitize returns.  Configured is what the operator   *)
(* configured for the tenant.                                              *)

Configured == Range(Deployment) \cup (IF policy = NoPolicy THEN {} ELSE Range(policy))
Plain == Attributes \ SensitiveKeys
PatternFree(v) == \A r \in Configured : ~MatchString(r, v)

\* No configured pattern matches anything in a sanitized value: no replacement
\* brings about a match of a pattern that ran before it, and none is missed.
PatternsClean == pc = "done" => \A k \in Plain : PatternFree(out[k])

\* RedactedPaths names exactly the attributes whose value was replaced, whichever
\* of the redactors replaced something in which order.
ReceiptExact ==
    pc = "done" =>
        receipt = {k \in Attributes : k \in SensitiveKeys \/ out[k] # raw[k]}

\* The marker token i of v is inside, when all redactors look at v at once.
Found(r, v) ==
    LET start[i \in 1..(Len(v) + 1)] ==
            IF i > Len(v) THEN {}
            ELSE IF MatchLength(r, v, i) > 0
                 THEN {<<i, MatchLength(r, v, i)>>} \cup start[i + MatchLength(r, v, i)]
                 ELSE start[i + 1]
    IN start[1]
Hits(v) ==
    {[at |-> m[1], size |-> m[2], marker |-> RedactedEmail] : m \in Found(Email, v)}
    \cup UNION {{[at |-> m[1], size |-> m[2], marker |-> RedactedPattern] : m \in Found(r, v)}
                  : r \in Configured}
Disjoint(hits) == \A g, h \in hits : g # h => g.at + g.size <= h.at \/ h.at + h.size <= g.at
AllAtOnce(v) ==
    LET rest[i \in 1..(Len(v) + 1)] ==
            IF i > Len(v) THEN <<>>
            ELSE IF \E h \in Hits(v) : h.at = i
                 THEN LET h == CHOOSE g \in Hits(v) : g.at = i
                      IN <<h.marker>> \o rest[i + h.size]
                 ELSE <<v[i]>> \o rest[i + 1]
    IN rest[1]

\* docs/privacy-model.md, "Redactors are composed: a log body containing an email
\* and a configured pattern receives both replacements", and everything else is
\* kept: where the matches in the received value do not overlap, the result is
\* that of replacing all of them at once.
Composed ==
    pc = "done" => \A k \in Plain : Disjoint(Hits(raw[k])) => out[k] = AllAtOnce(raw[k])

=============================================================================
