--------------------------- MODULE ResultContract ---------------------------
(***************************************************************************)
(* What ResultReplayStore and ResultAcceptanceStore promise together        *)
(* (docs/PROTOCOL.md, section 9, item 4): a result is used by one operation *)
(* as long as it is valid, and that operation may repeat it.  A store that  *)
(* keeps its rows promises it for ever; a store that forgets, nothing.      *)
(***************************************************************************)
EXTENDS Integers

CONSTANTS Stores, Results, Operations

VARIABLES
    now,        \* the clock
    memory,     \* how long the stores remember, fixed
    expiresAt,  \* of each signed result, 0 before it is signed
    users       \* the operations that each store granted each result

vars == <<now, memory, expiresAt, users>>

Init ==
    /\ now = 0
    /\ memory \in {"for ever", "while valid", "forgetful"}
    /\ expiresAt = [r \in Results |-> 0]
    /\ users = [slot \in Stores \X Results |-> {}]

Tick == now' = now + 1 /\ UNCHANGED <<memory, expiresAt, users>>

Sign(r) ==
    /\ expiresAt[r] = 0
    /\ expiresAt' \in [Results -> Nat]
    /\ expiresAt'[r] > now
    /\ \A other \in Results \ {r} : expiresAt'[other] = expiresAt[other]
    /\ UNCHANGED <<now, memory, users>>

Free(store, r) ==
    \/ users[<<store, r>>] = {}
    \/ memory = "while valid" /\ expiresAt[r] <= now
    \/ memory = "forgetful"

\* A new operation; one that was granted the result before may repeat it,
\* which changes nothing here.
Grant(store, r) ==
    /\ Free(store, r)
    /\ expiresAt[r] # 0
    /\ UNCHANGED <<now, memory, expiresAt>>
    /\ \E operation \in Operations :
           users' = [users EXCEPT ![<<store, r>>] = @ \union {operation}]

Next ==
    \/ Tick
    \/ \E r \in Results : Sign(r)
    \/ \E store \in Stores, r \in Results : Grant(store, r)

Spec == Init /\ [][Next]_vars
=============================================================================
