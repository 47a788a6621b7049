-------------------------- MODULE HandoffContract --------------------------
(***************************************************************************)
(* What the verifier promises of brokered handoffs, without its stores,    *)
(* versions, leases, processes or clock (docs/ARCHITECTURE.md, "Brokered   *)
(* handoff"): a dependency has one open handoff at a time, a handoff ends  *)
(* once and stays ended, a dependency is satisfied by one signed result,   *)
(* and a handoff completes only with the result that its own dependency    *)
(* was given through it.  Module Verifier implements it.                   *)
(***************************************************************************)
CONSTANTS Deps, Handoffs, ResultIds, None

VARIABLES
    phase,       \* of each handoff
    owner,       \* the dependency that a handoff serves
    completion,  \* the result that a completed handoff delivers
    issued       \* triples <<result, dependency, handoff or None>>

vars == <<phase, owner, completion, issued>>

Outcomes == {"failed", "expired", "cancelled"}

Init ==
    /\ phase = [h \in Handoffs |-> "none"]
    /\ owner = [h \in Handoffs |-> None]
    /\ completion = [h \in Handoffs |-> None]
    /\ issued = {}

\* A handoff starts for a dependency that has no open one.
Open(h, d) ==
    /\ phase[h] = "none"
    /\ \A g \in Handoffs : phase[g] = "open" => owner[g] # d
    /\ phase' = [phase EXCEPT ![h] = "open"]
    /\ owner' = [owner EXCEPT ![h] = d]
    /\ UNCHANGED <<completion, issued>>

\* The one result of a dependency is signed, through a handoff that serves it
\* or for a proof that was submitted directly.
Issue(r, d, via) ==
    /\ \A i \in issued : i[1] # r /\ i[2] # d
    /\ via # None => phase[via] # "none" /\ owner[via] = d
    /\ issued' = issued \union {<<r, d, via>>}
    /\ UNCHANGED <<phase, owner, completion>>

\* A handoff completes with the result obtained through it.
Finish(h, r) ==
    /\ phase[h] = "open"
    /\ <<r, owner[h], h>> \in issued
    /\ phase' = [phase EXCEPT ![h] = "completed"]
    /\ completion' = [completion EXCEPT ![h] = r]
    /\ UNCHANGED <<owner, issued>>

\* A handoff ends without a result.
Close(h, outcome) ==
    /\ phase[h] = "open"
    /\ phase' = [phase EXCEPT ![h] = outcome]
    /\ UNCHANGED <<owner, completion, issued>>

\* Records lapse; their identifiers are never used again.
Forget(lapsed) ==
    /\ \A h \in lapsed : phase[h] # "none"
    /\ phase' = [h \in Handoffs |-> IF h \in lapsed THEN "gone" ELSE phase[h]]
    /\ UNCHANGED <<owner, completion, issued>>

Next ==
    \/ \E h \in Handoffs, d \in Deps : Open(h, d)
    \/ \E r \in ResultIds, d \in Deps, via \in Handoffs \union {None} : Issue(r, d, via)
    \/ \E h \in Handoffs, r \in ResultIds : Finish(h, r)
    \/ \E h \in Handoffs, outcome \in Outcomes : Close(h, outcome)
    \/ \E lapsed \in SUBSET Handoffs : Forget(lapsed)

Spec == Init /\ [][Next]_vars

=============================================================================
