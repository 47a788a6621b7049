------------------------ MODULE ResultContractProofs ------------------------
(***************************************************************************)
(* The result stores implement ResultContract: every step of ResourceServer *)
(* is a step of the contract or changes nothing that it speaks of.  Every   *)
(* step but Use leaves the grants alone; Use adds the one of an operation   *)
(* that the contract allows, or repeats one.                                *)
(***************************************************************************)
EXTENDS ResourceServerProofs

\* A step that grants nothing and takes no grant back.
Steady(q) ==
    \/ ~request[q].used /\ ~request'[q].used
    \/ /\ request[q].used /\ request'[q].used
       /\ request'[q].proof = request[q].proof
       /\ request'[q].target = request[q].target
       /\ request'[q].key = request[q].key

\* The users of a result stay who they are.
LEMMA SteadyUsers ==
    ASSUME config' = config, \A q \in Requests : Steady(q), NEW slot
    PROVE  Users(slot)' = Users(slot)
<1>1. ASSUME NEW q \in Requests, request[q].used
      PROVE  request'[q].proof = request[q].proof /\ Store(q)' = Store(q)
             /\ Operation(q)' = Operation(q)
  BY <1>1 DEF Steady, Store, Operation, UseAcceptance, Mutation
<1>2. \A q \in Requests : request'[q].used <=> request[q].used
  BY DEF Steady
<1>3. ASSUME NEW op
      PROVE  op \in Users(slot)' <=> op \in Users(slot)
  BY <1>1, <1>2 DEF Users
<1> QED
  BY <1>3 DEF Users

\* To the contract, such a step does nothing, or time passes.
LEMMA SteadyStep ==
    ASSUME config' = config, \A q \in Requests : Steady(q), token' = token,
           now' = now \/ now' = now + 1
    PROVE  [Contract!Next]_(Contract!vars)
<1>1. Volatile' = Volatile
  BY DEF Volatile
<1>2. [slot \in Stores \X Results |-> Users(slot)]'
        = [slot \in Stores \X Results |-> Users(slot)]
  BY SteadyUsers
<1> QED
  BY <1>1, <1>2 DEF Contract!Next, Contract!Tick, Contract!vars

\* A request that waits, or that a failure ends, is steady.
LEMMA SteadyCutOff ==
    ASSUME IndInv, NEW q \in Requests,
           request'[q] = request[q] \/ request'[q] = Abandoned(q)
    PROVE  Steady(q)
<1>1. request[q] \in Request
  BY DEF IndInv, TypeOK
<1>2. CASE request'[q] = request[q]
  BY <1>2 DEF Steady
<1>3. CASE /\ request[q].used
           /\ request'[q] = [request[q] EXCEPT !.pc = "refused", !.why = "failed"]
  BY <1>1, <1>3 DEF Steady, Request
<1>4. CASE ~request[q].used /\ request'[q] = Unsent
  BY <1>4 DEF Steady, Unsent
<1> QED
  BY <1>2, <1>3, <1>4 DEF Abandoned

\* The steps of a request before it is at its store are steady.
LEMMA SteadyMove ==
    ASSUME IndInv, NEW q \in Requests,
           \/ \E r \in Results, target \in Targets, key \in Keys \union {None} :
                  Receive(q, r, target, key)
           \/ Lookup(q) \/ Route(q) \/ Snapshot(q)
    PROVE  \A p \in Requests : Steady(p)
<1>1. /\ request \in [Requests -> Request] /\ request[q] \in Request /\ Timely(q)
      /\ request[q].used \in BOOLEAN
  BY DEF IndInv, TypeOK, RequestInv, Request
<1>2. request[q].used = FALSE
  BY <1>1 DEF Timely, Receive, Lookup, Route, Snapshot
<1>3. request'[q].used = FALSE /\ \A p \in Requests : p # q => request'[p] = request[p]
  <2>1. ASSUME NEW r \in Results, NEW target \in Targets, NEW key \in Keys \union {None},
               Receive(q, r, target, key)
        PROVE  <1>3
    BY <1>1, <2>1 DEF Receive, Unsent
  <2>2. CASE Lookup(q)
    <3>1. \/ request' = [request EXCEPT ![q] = Unsent]
          \/ \E step \in Steps : request' = [request EXCEPT ![q].pc = step]
      BY <2>2 DEF Lookup, Reject, Goto, StoreStep, Steps
    <3> QED
      BY <1>1, <1>2, <3>1 DEF Unsent, Request
  <2>3. CASE Route(q)
    <3>1. \/ request' = [request EXCEPT ![q] = Unsent]
          \/ request' = [request EXCEPT ![q].pc = StoreStep(q), ![q].at = now]
      BY <2>3 DEF Route, Reject
    <3> QED
      BY <1>1, <1>2, <3>1 DEF Unsent, Request
  <2>4. CASE Snapshot(q)
    BY <1>1, <1>2, <2>4 DEF Snapshot, Request
  <2> QED
    BY <2>1, <2>2, <2>3, <2>4
<1> QED
  BY <1>2, <1>3 DEF Steady

\* The cleanup is steady.
LEMMA SteadyDelete ==
    ASSUME IndInv, NEW q \in Requests, NEW answered \in BOOLEAN, Delete(q, answered)
    PROVE  \A p \in Requests : Steady(p)
<1>1. request \in [Requests -> Request] /\ request[q] \in Request
  BY DEF IndInv, TypeOK
<1>2. CASE answered
  <2>1. request' = [request EXCEPT ![q].pc = "admitted"]
    BY <1>2 DEF Delete, Goto
  <2> QED
    BY <1>1, <2>1 DEF Steady, Request
<1>3. CASE ~answered
  <2>1. \A p \in Requests : request'[p] = request[p] \/ request'[p] = Abandoned(p)
    BY <1>1, <1>3 DEF Delete, Abandon
  <2> QED
    BY <2>1, SteadyCutOff
<1> QED
  BY <1>2, <1>3

\* A grant adds its operation to the users of the result at its store.
LEMMA UseUsers ==
    ASSUME IndInv, NEW q \in Requests, NEW answered \in BOOLEAN, Use(q, answered),
           request'[q].used, NEW slot
    PROVE  Users(slot)' = IF slot = <<Store(q), request[q].proof>>
                            THEN Users(slot) \union {Operation(q)} ELSE Users(slot)
<1>1. /\ request[q].used = FALSE /\ config' = config
      /\ request'[q].proof = request[q].proof
      /\ Store(q)' = Store(q) /\ Operation(q)' = Operation(q)
  <2>1. /\ request'[q].proof = request[q].proof
        /\ request'[q].target = request[q].target /\ request'[q].key = request[q].key
    BY UseRequest
  <2>2. request[q].used = FALSE /\ config' = config
    BY UseFacts DEF Use
  <2> QED
    BY <2>1, <2>2 DEF Store, Operation, UseAcceptance, Mutation
<1>2. ASSUME NEW p \in Requests, p # q
      PROVE  /\ request'[p] = request[p]
             /\ Store(p)' = Store(p) /\ Operation(p)' = Operation(p)
  BY <1>1, <1>2, UseRequest DEF Store, Operation, UseAcceptance, Mutation
<1>3. ASSUME NEW op
      PROVE  op \in Users(slot)' <=>
               \/ op \in Users(slot)
               \/ slot = <<Store(q), request[q].proof>> /\ op = Operation(q)
  BY <1>1, <1>2 DEF Users
<1> QED
  BY <1>3 DEF Users

\* Only an operation that the contract allows is granted the result.
LEMMA UseFree ==
    ASSUME IndInv, NEW q \in Requests, request[q].pc = "use",
           Blocking(q) = {} \/ SameOperation(q),
           Operation(q) \notin Users(<<Store(q), request[q].proof>>)
    PROVE  Contract!Free(Store(q), request[q].proof)
<1> DEFINE slot == <<Store(q), request[q].proof>>
<1>1. slot \in Stores \X Results
  BY UseFacts DEF Store, Stores
<1>2. ASSUME ~Volatile, NEW op \in Users(slot)
      PROVE  config.results # "postgres" /\ token[request[q].proof] <= now
  <2>1. PICK p \in Requests : /\ request[p].used /\ op = Operation(p)
                              /\ slot = <<Store(p), request[p].proof>>
    BY DEF Users
  <2>2. op # Operation(q)
    OBVIOUS
  <2> QED
    BY <1>2, <2>1, <2>2, UseTwice
<1>3. \/ Users(slot) = {}
      \/ Volatile
      \/ config.results # "postgres" /\ token[request[q].proof] <= now
  BY <1>2
<1>4. [s \in Stores \X Results |-> Users(s)][<<Store(q), request[q].proof>>] = Users(slot)
  BY <1>1
<1> HIDE DEF slot
<1> QED
  BY <1>3, <1>4 DEF Contract!Free

\* A use is a grant of the contract, or repeats one, or was refused.
LEMMA UseContract ==
    ASSUME IndInv, NEW q \in Requests, NEW answered \in BOOLEAN, Use(q, answered)
    PROVE  [Contract!Next]_(Contract!vars)
<1>1. /\ request[q].pc = "use" /\ UNCHANGED <<now, config, release, requirement, token>>
      /\ request[q].used = FALSE
  BY UseFacts DEF Use
<1>2. CASE ~request'[q].used
  <2>1. \A p \in Requests : Steady(p)
    BY <1>1, <1>2, UseRequest DEF Steady
  <2> QED
    BY <1>1, <2>1, SteadyStep
<1>3. CASE request'[q].used
  <2>1. PICK store \in Stores, r \in Results, op \in Keys \union Requests :
            /\ store = Store(q) /\ r = request[q].proof /\ op = Operation(q)
            /\ token[r] # 0
    BY <1>1, UseFacts DEF Store, Stores
  <2>2. Blocking(q) = {} \/ SameOperation(q)
    BY <1>3, UseRequest
  <2>3. \A slot : Users(slot)' = IF slot = <<store, r>> THEN Users(slot) \union {op}
                                                        ELSE Users(slot)
    BY <1>3, <2>1, UseUsers
  <2>4. Volatile' = Volatile
    BY <1>1 DEF Volatile
  <2>5. CASE op \in Users(<<store, r>>)
    <3>1. \A slot : Users(slot)' = Users(slot)
      BY <2>3, <2>5
    <3>2. [slot \in Stores \X Results |-> Users(slot)]'
            = [slot \in Stores \X Results |-> Users(slot)]
      BY <3>1
    <3> QED
      BY <1>1, <2>4, <3>2 DEF Contract!vars
  <2>6. CASE op \notin Users(<<store, r>>)
    <3>1. Contract!Free(store, r)
      BY <1>1, <2>1, <2>2, <2>6, UseFree
    <3>2. [slot \in Stores \X Results |-> Users(slot)]'
            = [[slot \in Stores \X Results |-> Users(slot)]
                  EXCEPT ![<<store, r>>] = Users(<<store, r>>) \union {op}]
      BY <2>3
    <3>3. <<store, r>> \in Stores \X Results
      OBVIOUS
    <3>4. Contract!Grant(store, r)
      BY <1>1, <2>1, <2>4, <3>1, <3>2, <3>3 DEF Contract!Grant
    <3> QED
      BY <3>4 DEF Contract!Next
  <2> QED
    BY <2>5, <2>6
<1> QED
  BY <1>2, <1>3

\* The verifier's signature is the contract's.
LEMMA SignContract ==
    ASSUME IndInv, NEW r \in Results, Sign(r) PROVE [Contract!Next]_(Contract!vars)
<1>1. /\ token \in [Results -> Nat] /\ requirement[r] \in Requirement /\ now \in Nat
  BY DEF IndInv, TypeOK
<1>2. /\ token[r] = 0 /\ token' \in [Results -> Nat] /\ token'[r] > now
      /\ \A other \in Results \ {r} : token'[other] = token[other]
  BY <1>1 DEF Sign, Requirement
<1>3. /\ UNCHANGED <<now, config, request>> /\ \A q \in Requests : Steady(q)
  BY DEF Sign, Steady
<1>4. Volatile' = Volatile
      /\ [slot \in Stores \X Results |-> Users(slot)]'
           = [slot \in Stores \X Results |-> Users(slot)]
  BY <1>3, SteadyUsers DEF Volatile
<1> QED
  BY <1>2, <1>3, <1>4 DEF Contract!Next, Contract!Sign

-----------------------------------------------------------------------------
(* The theorem *)

\* Nothing is signed or granted at the start.
LEMMA ContractInit == Init => Contract!Init
<1> SUFFICES ASSUME Init PROVE Contract!Init
  OBVIOUS
<1>1. \A q \in Requests : request[q].used = FALSE
  BY DEF Init, Unsent
<1>2. \A slot : Users(slot) = {}
  BY <1>1 DEF Users
<1> QED
  BY <1>2 DEF Init, Contract!Init

\* Every step is one of the contract or changes nothing that it speaks of.
LEMMA ContractNext == IndInv /\ [Next]_vars => [Contract!Next]_(Contract!vars)
<1> SUFFICES ASSUME IndInv, [Next]_vars PROVE [Contract!Next]_(Contract!vars)
  OBVIOUS
<1>1. ASSUME NEW r \in Results, NEW target \in Targets, NEW ttl \in TTLs,
             Challenge(r, target, ttl)
      PROVE  [Contract!Next]_(Contract!vars)
  BY <1>1, SteadyStep DEF Challenge, Steady
<1>2. ASSUME NEW r \in Results, Sign(r) PROVE [Contract!Next]_(Contract!vars)
  BY <1>2, SignContract
<1>3. ASSUME NEW q \in Requests, Step(q) PROVE [Contract!Next]_(Contract!vars)
  <2>1. ASSUME NEW r \in Results, NEW target \in Targets,
               NEW key \in Keys \union {None}, Receive(q, r, target, key)
        PROVE  [Contract!Next]_(Contract!vars)
    <3>1. \A p \in Requests : Steady(p)
      BY <2>1, SteadyMove
    <3> QED
      BY <2>1, <3>1, SteadyStep DEF Receive
  <2>2. CASE Lookup(q) \/ Route(q) \/ Snapshot(q)
    <3>1. \A p \in Requests : Steady(p)
      BY <2>2, SteadyMove
    <3> QED
      BY <2>2, <3>1, SteadyStep DEF Lookup, Route, Snapshot
  <2>3. ASSUME NEW answered \in BOOLEAN, Use(q, answered)
        PROVE  [Contract!Next]_(Contract!vars)
    BY <2>3, UseContract
  <2>4. ASSUME NEW answered \in BOOLEAN, Delete(q, answered)
        PROVE  [Contract!Next]_(Contract!vars)
    BY <2>4, SteadyDelete, SteadyStep DEF Delete
  <2>5. CASE Fail(q)
    <3>1. \A p \in Requests : request'[p] = request[p] \/ request'[p] = Abandoned(p)
      BY <2>5 DEF Fail, Abandon, IndInv, TypeOK
    <3> QED
      BY <2>5, <3>1, SteadyCutOff, SteadyStep DEF Fail
  <2> QED
    BY <1>3, <2>1, <2>2, <2>3, <2>4, <2>5 DEF Step
<1>4. CASE RestartServer
  <2>1. \A p \in Requests : request'[p] = request[p] \/ request'[p] = Abandoned(p)
    BY <1>4 DEF RestartServer
  <2> QED
    BY <1>4, <2>1, SteadyCutOff, SteadyStep DEF RestartServer
<1>5. CASE RestartVerifier \/ Upgrade
  <2>1. /\ \A p \in Requests : request'[p] = request[p] \/ request'[p] = Abandoned(p)
        /\ UNCHANGED <<now, config, token>>
    BY <1>5 DEF RestartVerifier, Upgrade, StopVerifier
  <2> QED
    BY <2>1, SteadyCutOff, SteadyStep
<1>6. CASE Tick
  BY <1>6, SteadyStep DEF Tick, Steady
<1>7. CASE UNCHANGED vars
  BY <1>7, SteadyStep DEF vars, Steady
<1> QED
  BY <1>1, <1>2, <1>3, <1>4, <1>5, <1>6, <1>7 DEF Next

\* The two result stores together, with every answer lost, restart and upgrade,
\* implement ResultContract: one operation uses a result as long as the stores
\* remember, which is for ever on PostgreSQL.
THEOREM Implementation == Spec => ResultUsedOnce
<1> QED
  BY ContractInit, ContractNext, Invariant, PTL DEF Spec, ResultUsedOnce, Contract!Spec
=============================================================================
