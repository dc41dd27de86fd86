-------------------------- MODULE RequestBoundary --------------------------
(***************************************************************************)
(* What the gateway promises of a telemetry request: BatchStager "makes    *)
(* one accepted OTLP request an all-or-nothing durable boundary".  The     *)
(* event keys of a request become durable together or not at all, and it   *)
(* is acknowledged only when they are.                                     *)
(***************************************************************************)
CONSTANTS
    Requests,
    Acceptable,   \* requests of known callers with valid events only
    RequestKeys   \* [Requests -> event keys]

VARIABLES
    durable,      \* event keys known to the tail store
    answer        \* what each request's client was told

Answers == {"none", "accepted", "invalid", "unauthorized", "refused"}

Init ==
    /\ durable = {}
    /\ answer = [r \in Requests |-> "none"]

\* The answer may be lost: the client then sees a refusal.
Accept(r) ==
    /\ r \in Acceptable
    /\ answer[r] = "none"
    /\ durable' = durable \cup RequestKeys[r]
    /\ \E a \in {"accepted", "refused"} : answer' = [answer EXCEPT ![r] = a]

Refuse(r) ==
    /\ answer[r] = "none"
    /\ \E a \in {"invalid", "unauthorized", "refused"} :
           answer' = [answer EXCEPT ![r] = a]
    /\ UNCHANGED durable

\* The client sends a refused request again.
Retry(r) ==
    /\ answer[r] = "refused"
    /\ answer' = [answer EXCEPT ![r] = "none"]
    /\ UNCHANGED durable

Next == \E r \in Requests : Accept(r) \/ Refuse(r) \/ Retry(r)

Spec == Init /\ [][Next]_<<durable, answer>>

=============================================================================
