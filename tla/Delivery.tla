------------------------------ MODULE Delivery ------------------------------
(***************************************************************************)
(* What the platform promises of an accepted event, the state diagram of   *)
(* docs/architecture.md seen from outside: it is stored for queries, or    *)
(* lost with a recorded decision, never both, unless its owner's retention *)
(* or deletion erases it.  Pipeline implements it.                         *)
(***************************************************************************)
CONSTANT Events

VARIABLE status   \* the status of each event

States == {"new", "accepted", "stored", "lost", "erased"}

TypeOK == status \in [Events -> States]

Init == status = [e \in Events |-> "new"]

Accept(e) == status[e] = "new" /\ status'[e] = "accepted"
Store(e) == status[e] = "accepted" /\ status'[e] = "stored"
Lose(e) == status[e] = "accepted" /\ status'[e] = "lost"
Erase(e) == status'[e] = "erased"

\* One step of the system may move several events: a request, a decision.
Next ==
    /\ status' \in [Events -> States]
    /\ \A e \in Events :
           \/ status'[e] = status[e]
           \/ Accept(e) \/ Store(e) \/ Lose(e) \/ Erase(e)

Settled == \A e \in Events : status[e] = "accepted" ~> status[e] # "accepted"

\* What may happen, and what must happen in the end.
Safety == Init /\ [][Next]_status
Spec == Safety /\ Settled

=============================================================================
