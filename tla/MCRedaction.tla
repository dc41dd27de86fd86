----------------------------- MODULE MCRedaction -----------------------------
(* A small instance of Redaction for TLC.  "name" stands for letters, "num"  *)
(* for digits, "host" for a domain, "hash" for a #; the configured patterns  *)
(* are #, #\d+ and \d+, sorted by expression within the tenant's policy.    *)
EXTENDS Redaction

CONSTANT MaxLength   \* bound: tokens in a value

MCTokens == {"name", "at", "host", "num", "hash"}
Strings(tokens, from) == UNION {[1..n -> tokens] : n \in from..MaxLength}

MCInputs ==
    {[body |-> v, path |-> <<"hash", "num">>, token |-> <<"name">>] : v \in Strings(MCTokens, 0)}

\* Those of at most four tokens.  The top level may run on in letters, and has
\* to end at a word boundary.
Local == {"name", "num", "host"}
MCEmail ==
    [words |-> {<<l, "at", "host">> : l \in Local}
               \cup {<<l, m, "at", "host">> : l \in Local, m \in Local}
               \cup {<<l, "at", d, "host">> : l \in Local, d \in Local}
               \cup {<<l, "at", "host", "name">> : l \in Local},
     notBefore |-> {"name", "num"}]
Hash == [words |-> {<<"hash">>}, notBefore |-> {}]
Number == [words |-> Strings({"num"}, 1), notBefore |-> {}]
HashNumber == [words |-> {<<"hash">> \o d : d \in Number.words}, notBefore |-> {}]
MCDeployment == <<HashNumber>>
MCTenantPolicies == {<<Number>>, <<Hash, HashNumber>>, <<Hash, Number>>}
=============================================================================
