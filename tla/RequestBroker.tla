--------------------------- MODULE RequestBroker ---------------------------
(* What a gateway promises to its clients: a request that was asked gets at *)
(* most one outcome, and its answer comes from a process that may answer    *)
(* it. A request may stay without an outcome: the process that has it can   *)
(* die.                                                                     *)
CONSTANTS
    Requests,
    Answerers,      \* [Requests -> sets of processes]
    NotAsked, Open, Refused

VARIABLE outcome

Init == outcome = [r \in Requests |-> NotAsked]

Ask(r) ==
    /\ outcome[r] = NotAsked
    /\ outcome' = [outcome EXCEPT ![r] = Open]

Refuse(r) ==
    /\ outcome[r] = Open
    /\ outcome' = [outcome EXCEPT ![r] = Refused]

Answer(r) ==
    /\ outcome[r] = Open
    /\ \E p \in Answerers[r] : outcome' = [outcome EXCEPT ![r] = p]

Next == \E r \in Requests : Ask(r) \/ Refuse(r) \/ Answer(r)

Spec == Init /\ [][Next]_outcome
=============================================================================
