-------------------------- MODULE AccountLifecycle --------------------------
(***************************************************************************)
(* What a table of accounts keyed by generated ids promises: an id is      *)
(* unused, then belongs to one account, then is closed for good.           *)
(***************************************************************************)
CONSTANT Users        \* the ids a UUID generator may hand out

VARIABLE phase        \* the phase of each id's life

Phases == {"unused", "open", "closed"}

Init == phase = [u \in Users |-> "unused"]

Open(u) == phase[u] = "unused" /\ phase' = [phase EXCEPT ![u] = "open"]

Close(u) == phase[u] = "open" /\ phase' = [phase EXCEPT ![u] = "closed"]

Next == \E u \in Users : Open(u) \/ Close(u)

Spec == Init /\ [][Next]_phase
=============================================================================
