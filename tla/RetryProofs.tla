----------------------------- MODULE RetryProofs -----------------------------
(***************************************************************************)
(* Proofs about the retries of ResourceServer: a request is refused as      *)
(* spent for a reason, and requirements are deleted after the use that they *)
(* were for.  Both follow from RetryInv, which is inductive once IndInv     *)
(* (module ResourceServerProofs) is known in both states of a step.         *)
(***************************************************************************)
EXTENDS ResourceServerProofs

-----------------------------------------------------------------------------
(* What every step does *)

\* Time, releases, tokens and requirements move in one direction.
Onward ==
    /\ config' = config
    /\ now \in Nat /\ now' \in Nat /\ now <= now'
    /\ release = "new" => release' = "new"
    /\ \A r \in Results : token[r] # 0 => token'[r] = token[r]
    /\ \A r \in Results : requirement[r].state # "absent" =>
         /\ requirement'[r].target = requirement[r].target
         /\ requirement'[r].owner = requirement[r].owner
         /\ requirement'[r].expiresAt = requirement[r].expiresAt
         /\ requirement[r].state # "stored" => requirement'[r].state # "stored"
    /\ \A r \in Results : requirement'[r].state = "deleted" =>
         requirement[r].state = "deleted" \/ Deletion(r)'

\* A grant stays, a new one is not backdated, and a request that moves answers for
\* its own part.
Proceeds(q) ==
    /\ request[q].used =>
         /\ request'[q].used
         /\ request'[q].proof = request[q].proof
         /\ request'[q].target = request[q].target
         /\ request'[q].key = request[q].key
         /\ request'[q].usedAt = request[q].usedAt
    /\ request'[q].used => request[q].used \/ now <= request'[q].usedAt
    /\ request'[q] = request[q] \/ Own(q)'

Rows ==
    \A slot \in Slots : entry'[slot] = entry[slot] \/ Writer(slot)'

\* The operation of a request that was granted its result stays what it is.
LEMMA SameOperationLater ==
    ASSUME NEW p \in Requests, config' = config,
           request'[p].target = request[p].target, request'[p].key = request[p].key
    PROVE  Store(p)' = Store(p) /\ Operation(p)' = Operation(p)
           /\ UseAcceptance(p)' = UseAcceptance(p)
BY DEF Store, Operation, UseAcceptance, Mutation

\* A requirement that is not to be had is not to be had later.
LEMMA GoneStays ==
    ASSUME TypeOK, Onward, NEW r \in Results, requirement[r].state # "absent",
           ~Stored(r, now)
    PROVE  ~Stored(r, now)'
<1> SUFFICES ASSUME Stored(r, now)' PROVE FALSE
  OBVIOUS
<1>1. requirement[r].state = "stored" /\ requirement[r].expiresAt \in Nat
  BY DEF Stored, Onward, TypeOK, Requirement
<1>2. Owned(r)
  BY DEF Stored, Owned, Onward
<1>3. now < requirement[r].expiresAt
  BY <1>1 DEF Stored, ReadAt, Onward
<1> QED
  BY <1>1, <1>2, <1>3 DEF Stored, ReadAt

\* A request that waits keeps its part.
LEMMA OwnStays ==
    ASSUME IndInv, IndInv', RetryInv, Onward, \A p \in Requests : Proceeds(p),
           NEW q \in Requests, request'[q] = request[q]
    PROVE  Own(q)'
<1> DEFINE r == request[q].proof
<1>1. /\ TypeOK /\ TokenInv /\ Taken(q) /\ Timely(q)
      /\ Cleaning(q) /\ Gone(q) /\ Overlooks(q) /\ Spent(q)
  BY DEF IndInv, RequestInv, RetryInv, Own
<1>2. request[q].pc \in InFlight \union {"admitted"} =>
         r \in Results /\ token[r] # 0 /\ requirement[r].state # "absent"
  BY <1>1 DEF Taken, TokenInv
<1>3. Cleaning(q)'
  BY <1>1, <1>2 DEF Cleaning, InFlight, Onward, Mutation
<1>4. Gone(q)'
  BY <1>1, <1>2, GoneStays DEF Gone, Mutation
<1>5. Store(q)' = Store(q) /\ Operation(q)' = Operation(q)
      /\ UseAcceptance(q)' = UseAcceptance(q) /\ config' = config
  BY SameOperationLater DEF Onward
<1>6. now \in Nat /\ now' \in Nat /\ now <= now'
      /\ request[q].at \in Nat /\ request[q].at <= now
  BY <1>1 DEF Onward, TypeOK, Request, Timely
<1>7. Overlooks(q)'
  <2> SUFFICES ASSUME config.results = "postgres", UseAcceptance(q), request[q].pc = "use",
                      NEW p \in Requests, SameUse(p, q)',
                      request'[p].usedAt < request[q].at, now' < token'[r]
               PROVE  Operation(q) \in request[q].seen
    BY <1>5 DEF Overlooks
  <2>1. request'[p].used /\ request'[p].proof = r
        /\ Store(p)' = Store(q) /\ Operation(p)' = Operation(q)
    BY <1>5 DEF SameUse
  <2>2. request[p].used
    <3>1. request[p].used \/ now <= request'[p].usedAt
      BY <2>1 DEF Proceeds
    <3>2. CASE now <= request'[p].usedAt
      <4>1. request'[p].usedAt \in Nat
        BY DEF IndInv, TypeOK, Request
      <4> QED
        BY <1>6, <3>2, <4>1
    <3> QED
      BY <3>1, <3>2
  <2>3. SameUse(p, q) /\ request'[p].usedAt = request[p].usedAt
    BY <1>5, <2>1, <2>2, SameOperationLater DEF SameUse, Proceeds
  <2>4. r \in Results /\ token[r] \in Nat /\ token'[r] = token[r]
    BY <1>1, <1>2 DEF InFlight, Onward, TypeOK
  <2>5. now < token[r]
    BY <1>6, <2>4
  <2> QED
    BY <1>1, <2>3, <2>5 DEF Overlooks
<1>8. Spent(q)'
  <2> SUFFICES ASSUME request[q].why = "spent" PROVE Spent(q)'
    BY DEF Spent
  <2>1. request[q].pc = "refused" /\ r \in Results /\ token[r] # 0
    BY <1>1 DEF Spent
  <2>2. PICK p \in Requests \ {q} :
            /\ request[p].used
            /\ request[p].proof = r
            /\ \/ Operation(p) # Operation(q)
               \/ /\ config.results = "postgres"
                  /\ \/ request[q].at <= request[p].usedAt
                     \/ token[r] <= now
    BY <1>1 DEF Spent
  <2>3. /\ request'[p].used /\ request'[p].proof = r
        /\ request'[p].usedAt = request[p].usedAt /\ Operation(p)' = Operation(p)
    BY <1>5, <2>2, SameOperationLater DEF Proceeds
  <2>4. token'[r] = token[r] /\ token[r] \in Nat
    BY <1>1, <2>1 DEF Onward, TypeOK
  <2>5. token[r] <= now => token'[r] <= now'
    BY <1>6, <2>4
  <2> QED
    BY <1>5, <2>1, <2>2, <2>3, <2>4, <2>5 DEF Spent
<1> QED
  BY <1>3, <1>4, <1>7, <1>8 DEF Own

\* A step keeps the whole if each of its requests answers for its own part.
LEMMA RetryKept ==
    ASSUME IndInv, IndInv', RetryInv, Onward, Rows, \A p \in Requests : Proceeds(p)
    PROVE  RetryInv'
<1>1. ASSUME NEW q \in Requests PROVE Own(q)'
  BY OwnStays DEF Proceeds
<1>2. ASSUME NEW slot \in Slots PROVE Writer(slot)'
  <2> SUFFICES ASSUME entry'[slot] = entry[slot], Present(slot) PROVE Writer(slot)'
    BY DEF Rows, Writer, Present
  <2>1. PICK p \in Requests :
            /\ request[p].used
            /\ slot[1] = Store(p) /\ slot[3] = request[p].proof
            /\ entry[slot].by = Operation(p)
    BY DEF RetryInv, Writer, Slots
  <2>2. /\ request'[p].used /\ request'[p].proof = request[p].proof
        /\ Store(p)' = Store(p) /\ Operation(p)' = Operation(p)
    BY <2>1, SameOperationLater DEF Proceeds, Onward
  <2> QED
    BY <2>1, <2>2 DEF Writer
<1>3. ASSUME NEW r \in Results PROVE Deletion(r)'
  <2> SUFFICES ASSUME requirement[r].state = "deleted" PROVE Deletion(r)'
    BY DEF Onward, Deletion
  <2>1. Deletion(r)
    BY DEF RetryInv
  <2>2. requirement'[r].target = requirement[r].target /\ config' = config
    BY DEF Onward
  <2>3. \A q \in Requests : request[q].used /\ request[q].proof = r =>
            request'[q].used /\ request'[q].proof = r
    BY DEF Proceeds
  <2> QED
    BY <2>1, <2>2, <2>3 DEF Deletion, Mutation
<1> QED
  BY <1>1, <1>2, <1>3 DEF RetryInv, Slots

-----------------------------------------------------------------------------
(* The steps that move no request, or cut requests off *)

\* Where a failure leaves a request nothing is expected of it.
LEMMA CutOff ==
    ASSUME IndInv, RetryInv, NEW q \in Requests,
           \/ request'[q] = request[q]
           \/ request'[q] = Unsent /\ ~request[q].used
           \/ request'[q] = Abandoned(q)
    PROVE  Proceeds(q)
<1>1. request[q] \in Request
  BY DEF IndInv, TypeOK
<1>2. CASE request'[q] = request[q]
  BY <1>2 DEF Proceeds
<1>3. CASE request'[q] = Unsent /\ ~request[q].used
  <2>1. request'[q].pc = "none" /\ request'[q].why = "none" /\ request'[q].used = FALSE
    BY <1>3 DEF Unsent
  <2> QED
    BY <1>3, <2>1 DEF Proceeds, Own, Cleaning, Gone, Overlooks, Spent
<1>4. CASE request[q].used /\ request'[q] = [request[q] EXCEPT !.pc = "refused", !.why = "failed"]
  <2> PICK old, new : /\ old = request[q] /\ old \in Request
                      /\ new = [old EXCEPT !.pc = "refused", !.why = "failed"]
    BY <1>1
  <2>0. /\ new.pc = "refused" /\ new.why = "failed"
        /\ new.used = old.used /\ new.usedAt = old.usedAt
        /\ new.proof = old.proof /\ new.target = old.target /\ new.key = old.key
    BY DEF Request
  <2>1. /\ request'[q].pc = "refused" /\ request'[q].why = "failed"
        /\ request'[q].used = request[q].used /\ request'[q].usedAt = request[q].usedAt
        /\ request'[q].proof = request[q].proof /\ request'[q].target = request[q].target
        /\ request'[q].key = request[q].key
    BY <1>4, <2>0
  <2> QED
    BY <1>4, <2>1 DEF Proceeds, Own, Cleaning, Gone, Overlooks, Spent
<1> QED
  BY <1>2, <1>3, <1>4 DEF Abandoned

\* What restarts leave of the requirements.
LEMMA Forgets ==
    ASSUME TypeOK, ForgetRequirements \/ UNCHANGED requirement,
           UNCHANGED <<now, config, token>>, release' = release \/ release' = "new"
    PROVE  Onward
<1>1. \A r \in Results : requirement[r] \in Requirement
  BY DEF TypeOK
<1>2. \A r \in Results :
         \/ requirement'[r] = requirement[r]
         \/ /\ requirement'[r].state = "lost"
            /\ requirement'[r].target = requirement[r].target
            /\ requirement'[r].owner = requirement[r].owner
            /\ requirement'[r].expiresAt = requirement[r].expiresAt
  BY <1>1 DEF ForgetRequirements, Requirement
<1> QED
  BY <1>2 DEF TypeOK, Onward

\* A lost row was written by nobody.
LEMMA NoRow ==
    ASSUME entry' = entry \/ ForgetEntries PROVE Rows
<1> SUFFICES ASSUME NEW slot \in Slots, ForgetEntries
             PROVE  entry'[slot] = entry[slot] \/ Writer(slot)'
  BY DEF Rows
<1>1. CASE config.results = "memory"
  <2>1. entry'[slot].by = None
    BY <1>1 DEF ForgetEntries, Slots, NoEntry
  <2> QED
    BY <2>1 DEF Writer, Present
<1> QED
  BY <1>1 DEF ForgetEntries

\* The resource server restarts.
LEMMA RestartServerRetry ==
    ASSUME IndInv, IndInv', RetryInv, RestartServer PROVE RetryInv'
<1>1. Onward
  BY Forgets DEF RestartServer, IndInv
<1>2. Rows
  BY NoRow DEF RestartServer
<1>3. \A q \in Requests : request'[q] = request[q] \/ request'[q] = Abandoned(q)
  BY DEF RestartServer
<1> QED
  BY <1>1, <1>2, <1>3, CutOff, RetryKept

\* The managed verifier restarts, or is upgraded.
LEMMA StopVerifierRetry ==
    ASSUME IndInv, IndInv', RetryInv, StopVerifier, UNCHANGED <<now, config, token>>,
           release' = release \/ release' = "new"
    PROVE  RetryInv'
<1>1. Onward
  BY Forgets DEF StopVerifier, IndInv
<1>2. Rows
  BY NoRow DEF StopVerifier
<1>3. \A q \in Requests : request'[q] = request[q] \/ request'[q] = Abandoned(q)
  BY DEF StopVerifier
<1> QED
  BY <1>1, <1>2, <1>3, CutOff, RetryKept

\* A call of a request fails.
LEMMA FailRetry ==
    ASSUME IndInv, IndInv', RetryInv, NEW q \in Requests, Fail(q) PROVE RetryInv'
<1>1. Onward
  BY DEF Fail, IndInv, TypeOK, Onward
<1>2. Rows
  BY DEF Fail, Rows
<1>3. \A p \in Requests : request'[p] = request[p] \/ request'[p] = Abandoned(p)
  BY DEF Fail, Abandon, IndInv, TypeOK
<1> QED
  BY <1>1, <1>2, <1>3, CutOff, RetryKept

\* The steps that leave the requests and the rows alone.
LEMMA IdleRetry ==
    ASSUME IndInv, IndInv', RetryInv, Onward, UNCHANGED <<request, entry>>
    PROVE  RetryInv'
BY RetryKept DEF Proceeds, Rows

\* issueChallenge registers a requirement.
LEMMA ChallengeRetry ==
    ASSUME IndInv, IndInv', RetryInv, NEW r \in Results, NEW target \in Targets,
           NEW ttl \in TTLs, Challenge(r, target, ttl)
    PROVE  RetryInv'
<1>1. requirement[r].state = "absent" /\ requirement'[r].state = "stored"
      /\ \A o \in Results : o # r => requirement'[o] = requirement[o]
  BY DEF Challenge, IndInv, TypeOK
<1>2. Onward
  BY <1>1 DEF Challenge, Onward, IndInv, TypeOK
<1> QED
  BY <1>2, IdleRetry DEF Challenge

\* The verifier signs the result.
LEMMA SignRetry ==
    ASSUME IndInv, IndInv', RetryInv, NEW r \in Results, Sign(r) PROVE RetryInv'
<1>1. token[r] = 0 /\ \A o \in Results : o # r => token'[o] = token[o]
  BY DEF Sign, IndInv, TypeOK
<1>2. Onward
  BY <1>1 DEF Sign, Onward, IndInv, TypeOK
<1> QED
  BY <1>2, IdleRetry DEF Sign

\* Time passes.
LEMMA TickRetry ==
    ASSUME IndInv, IndInv', RetryInv, Tick PROVE RetryInv'
<1>1. Onward
  BY DEF Tick, Onward, IndInv, TypeOK
<1> QED
  BY <1>1, IdleRetry DEF Tick

\* Nothing happens.
LEMMA StutterRetry ==
    ASSUME IndInv, IndInv', RetryInv, UNCHANGED vars PROVE RetryInv'
<1>1. Onward
  BY DEF vars, Onward, IndInv, TypeOK
<1> QED
  BY <1>1, IdleRetry DEF vars

-----------------------------------------------------------------------------
(* The steps of a request before it is at its store *)

\* A step of one request keeps the whole if that request answers for its part.
LEMMA MoverRetry ==
    ASSUME IndInv, IndInv', RetryInv, Onward, Rows, NEW q \in Requests,
           \A p \in Requests : p # q => request'[p] = request[p], Proceeds(q)
    PROVE  RetryInv'
BY CutOff, RetryKept

\* A requirement that is found expired stays what it was otherwise.
LEMMA Expires ==
    ASSUME IndInv, UNCHANGED <<now, config, release, token>>, NEW r \in Results,
           \/ requirement' = requirement
           \/ /\ requirement[r].state = "stored"
              /\ requirement' = [requirement EXCEPT ![r].state = "expired"]
    PROVE  Onward
<1>1. /\ now \in Nat /\ requirement \in [Results -> Requirement]
      /\ \A p \in Results : requirement[p] \in Requirement
  BY DEF IndInv, TypeOK
<1>2. CASE requirement' = requirement
  BY <1>1, <1>2 DEF Onward
<1>3. CASE /\ requirement[r].state = "stored"
           /\ requirement' = [requirement EXCEPT ![r].state = "expired"]
  <2>1. /\ requirement'[r].state = "expired"
        /\ requirement'[r].target = requirement[r].target
        /\ requirement'[r].owner = requirement[r].owner
        /\ requirement'[r].expiresAt = requirement[r].expiresAt
    BY <1>1, <1>3 DEF Requirement
  <2>2. \A p \in Results : p # r => requirement'[p] = requirement[p]
    BY <1>1, <1>3
  <2> QED
    BY <1>1, <1>3, <2>1, <2>2 DEF Onward
<1> QED
  BY <1>2, <1>3

\* A request that has not been to its store yet was neither granted its result
\* nor refused it.
LEMMA Undecided ==
    ASSUME IndInv, RetryInv, NEW q \in Requests,
           request[q].pc \in {"none", "lookup", "route", "snapshot", "use"}
    PROVE  request[q] \in Request /\ request[q].used = FALSE /\ request[q].why # "spent"
<1>1. request[q] \in Request /\ Timely(q) /\ Spent(q)
  BY DEF IndInv, RequestInv, TypeOK, RetryInv, Own
<1> QED
  BY <1>1 DEF Timely, Spent, Request

\* A request that moves on to its store, or begins, owes nothing yet.
LEMMA OnItsWay ==
    ASSUME NEW q \in Requests, request[q].used = FALSE, request'[q].used = FALSE,
           request'[q].why # "spent",
           \/ request'[q].pc \in {"lookup", "route", "snapshot"}
           \/ request'[q].pc = "use" /\ ~(config'.results = "postgres" /\ UseAcceptance(q)')
    PROVE  Proceeds(q)
BY DEF Proceeds, Own, Cleaning, Gone, Overlooks, Spent

\* A request arrives with its result.
LEMMA ReceiveRetry ==
    ASSUME IndInv, IndInv', RetryInv, NEW q \in Requests, NEW r \in Results,
           NEW target \in Targets, NEW key \in Keys \union {None},
           Receive(q, r, target, key)
    PROVE  RetryInv'
<1> DEFINE keyless == Mutation(target) /\ key = None
           fresh == [Unsent EXCEPT !.proof = r, !.target = target, !.at = now,
                                   !.key = IF Mutation(target) THEN key ELSE None,
                                   !.pc = "lookup"]
           next == IF keyless /\ (config.requireKey \/ config.profile # "dev")
                     THEN Unsent ELSE fresh
<1>1. /\ fresh.pc = "lookup" /\ fresh.why = "none" /\ fresh.used = FALSE
  BY DEF Unsent
<1>2. request' = [request EXCEPT ![q] = next] /\ request \in [Requests -> Request]
  BY DEF Receive, Unsent, IndInv, TypeOK
<1>3. request'[q] = next /\ \A p \in Requests : p # q => request'[p] = request[p]
  BY <1>2
<1>4. request[q].used = FALSE
  BY Undecided DEF Receive
<1>5. Proceeds(q)
  <2>1. CASE next = Unsent
    BY <1>3, <1>4, <2>1, CutOff
  <2>2. CASE next = fresh
    BY <1>1, <1>3, <1>4, <2>2, OnItsWay
  <2> QED
    BY <2>1, <2>2
<1> HIDE DEF next, fresh, keyless
<1>6. Onward /\ Rows
  BY Expires DEF Receive, Rows
<1> QED
  BY <1>3, <1>5, <1>6, MoverRetry

\* The requirement is read; only a deployment without a replay store skips
\* the store.
LEMMA LookupRetry ==
    ASSUME IndInv, IndInv', RetryInv, NEW q \in Requests, Lookup(q) PROVE RetryInv'
<1> DEFINE r == request[q].proof
           at == request[q].at
           refused == \/ ~Stored(r, at)
                      \/ ~Matches(q)
                      \/ ReplayStoreMissing(q) /\ Mutation(request[q].target)
                      \/ token[r] <= at
<1>1. /\ request[q] \in Request /\ request[q].used = FALSE /\ request[q].why # "spent"
      /\ request \in [Requests -> Request] /\ r \in Results
  <2>1. Taken(q) /\ request[q].pc = "lookup" /\ request \in [Requests -> Request]
    BY DEF IndInv, RequestInv, TypeOK, Lookup
  <2> QED
    BY <2>1, Undecided DEF Taken, InFlight
<1>2. Onward /\ Rows
  <2>1. \/ requirement' = requirement
        \/ /\ requirement[r].state = "stored"
           /\ requirement' = [requirement EXCEPT ![r].state = "expired"]
    BY DEF Lookup
  <2> QED
    BY <1>1, <2>1, Expires DEF Lookup, Rows
<1>3. CASE refused
  <2>1. request' = [request EXCEPT ![q] = Unsent]
    BY <1>3 DEF Lookup, Reject
  <2>2. request'[q] = Unsent /\ \A p \in Requests : p # q => request'[p] = request[p]
    BY <1>1, <2>1
  <2> QED
    BY <1>1, <1>2, <2>2, CutOff, MoverRetry
<1>4. CASE ~refused
  <2>1. PICK step \in {"delete", "route", "snapshot", "use"} :
           /\ request' = [request EXCEPT ![q].pc = step]
           /\ step = "delete" => ReplayStoreMissing(q)
           /\ step \in {"snapshot", "use"} => step = StoreStep(q)
    BY <1>4 DEF Lookup, Goto, StoreStep
  <2>2. /\ request'[q].pc = step /\ request'[q].proof = r
        /\ request'[q].used = FALSE /\ request'[q].why # "spent"
        /\ request'[q].target = request[q].target /\ request'[q].key = request[q].key
        /\ \A p \in Requests : p # q => request'[p] = request[p]
    BY <1>1, <2>1 DEF Request
  <2>3. UseAcceptance(q)' = UseAcceptance(q) /\ config' = config
    BY <2>2, SameOperationLater DEF Lookup
  <2>4. Proceeds(q)
    <3>1. CASE step = "delete"
      <4>1. /\ requirement' = requirement /\ ~Mutation(request[q].target)
            /\ requirement[r].target = request[q].target /\ ~config.replay
        BY <1>4, <2>1, <3>1 DEF Lookup, Matches, ReplayStoreMissing
      <4>2. Cleaning(q)'
        BY <2>2, <2>3, <4>1 DEF Cleaning, Mutation
      <4>3. Gone(q)' /\ Overlooks(q)' /\ Spent(q)'
        BY <2>2, <3>1 DEF Gone, Overlooks, Spent
      <4> QED
        BY <1>1, <2>2, <4>2, <4>3 DEF Proceeds, Own
    <3>2. CASE step = "use"
      BY <1>1, <2>1, <2>2, <2>3, <3>2, OnItsWay DEF StoreStep
    <3>3. CASE step \in {"route", "snapshot"}
      BY <1>1, <2>2, <3>3, OnItsWay
    <3> QED
      BY <3>1, <3>2, <3>3
  <2> QED
    BY <1>2, <2>2, <2>4, MoverRetry
<1> QED
  BY <1>3, <1>4

\* The managed verifier takes its own clock.
LEMMA RouteRetry ==
    ASSUME IndInv, IndInv', RetryInv, NEW q \in Requests, Route(q) PROVE RetryInv'
<1>1. /\ request[q] \in Request /\ request[q].used = FALSE /\ request[q].why # "spent"
      /\ request \in [Requests -> Request] /\ request[q].proof \in Results
  <2>1. Taken(q) /\ request[q].pc = "route" /\ request \in [Requests -> Request]
    BY DEF IndInv, RequestInv, TypeOK, Route
  <2> QED
    BY <2>1, Undecided DEF Taken, InFlight
<1>2. Onward /\ Rows
  BY <1>1, Expires DEF Route, Rows
<1>3. CASE token[request[q].proof] <= now
  <2>1. request' = [request EXCEPT ![q] = Unsent]
    BY <1>3 DEF Route, Reject
  <2>2. request'[q] = Unsent /\ \A p \in Requests : p # q => request'[p] = request[p]
    BY <1>1, <2>1
  <2> QED
    BY <1>1, <1>2, <2>2, CutOff, MoverRetry
<1>4. CASE ~(token[request[q].proof] <= now)
  <2> DEFINE next == [request[q] EXCEPT !.pc = StoreStep(q), !.at = now]
  <2>1. request' = [request EXCEPT ![q] = next]
    BY <1>1, <1>4 DEF Route
  <2>2. /\ next.pc = StoreStep(q) /\ next.used = FALSE /\ next.why # "spent"
        /\ next.target = request[q].target /\ next.key = request[q].key
    BY <1>1 DEF Request
  <2> HIDE DEF next
  <2>3. request'[q] = next /\ \A p \in Requests : p # q => request'[p] = request[p]
    BY <1>1, <2>1
  <2>4. UseAcceptance(q)' = UseAcceptance(q) /\ config' = config
    BY <2>2, <2>3, SameOperationLater DEF Route
  <2>5. Proceeds(q)
    BY <1>1, <2>2, <2>3, <2>4, OnItsWay DEF StoreStep
  <2> QED
    BY <1>2, <2>3, <2>5, MoverRetry
<1> QED
  BY <1>3, <1>4

\* What the snapshot overlooks came later than the request, or lapsed.
LEMMA SnapshotRetry ==
    ASSUME IndInv, IndInv', RetryInv, NEW q \in Requests, Snapshot(q) PROVE RetryInv'
<1> DEFINE r == request[q].proof
<1>1. /\ request[q] \in Request /\ request[q].used = FALSE /\ request[q].why # "spent"
      /\ request \in [Requests -> Request] /\ r \in Results /\ request[q].pc = "snapshot"
      /\ token[r] \in Nat /\ now \in Nat /\ request[q].at \in Nat /\ request[q].at <= now
      /\ GrantInv /\ EntryInv
  <2>1. /\ Taken(q) /\ Timely(q) /\ request[q].pc = "snapshot" /\ TypeOK
        /\ GrantInv /\ EntryInv
    BY DEF IndInv, RequestInv, Snapshot
  <2>2. request[q] \in Request /\ request[q].used = FALSE /\ request[q].why # "spent"
    BY <2>1, Undecided
  <2> QED
    BY <2>1, <2>2 DEF Taken, Timely, InFlight, TypeOK, Request
<1>2. Onward /\ Rows
  BY <1>1, Expires DEF Snapshot, Rows
<1> DEFINE next == [request[q] EXCEPT !.pc = "use", !.seen = Holders(q)]
<1>3. request' = [request EXCEPT ![q] = next]
  BY <1>1 DEF Snapshot
<1>4. /\ next.pc = "use" /\ next.used = FALSE /\ next.why # "spent"
      /\ next.seen = Holders(q) /\ next.at = request[q].at /\ next.proof = r
      /\ next.target = request[q].target /\ next.key = request[q].key
  BY <1>1 DEF Request
<1> HIDE DEF next
<1>5. request'[q] = next /\ \A p \in Requests : p # q => request'[p] = request[p]
  BY <1>1, <1>3
<1>6. UseAcceptance(q)' = UseAcceptance(q) /\ Operation(q)' = Operation(q)
      /\ Store(q)' = Store(q) /\ config' = config /\ token' = token /\ now' = now
  BY <1>4, <1>5, SameOperationLater DEF Snapshot
<1>7. Overlooks(q)'
  <2> SUFFICES ASSUME config.results = "postgres", NEW p \in Requests,
                      SameUse(p, q)', now < token[r]
               PROVE  Operation(q) \in Holders(q)
    BY <1>4, <1>5, <1>6 DEF Overlooks
  <2>1. p # q /\ request'[p] = request[p]
    BY <1>4, <1>5 DEF SameUse
  <2>2. Store(p)' = Store(p) /\ Operation(p)' = Operation(p)
    BY <1>6, <2>1, SameOperationLater
  <2>3. request[p].used /\ request[p].proof = r
        /\ Store(p) = Store(q) /\ Operation(p) = Operation(q)
    BY <1>4, <1>5, <1>6, <2>1, <2>2 DEF SameUse
  <2>4. Remembered(p)
    BY <1>1, <2>3 DEF GrantInv, Volatile, Lapsed, Stopped, Granting
  <2>5. PICK name \in Names : Row(q, name).by = Operation(q)
    BY <2>3, <2>4 DEF Remembered, Row
  <2>6. Operation(q) # None
    BY <1>1, ResourceAssumption DEF Operation, UseAcceptance
  <2>7. <<Store(q), name, r>> \in Slots
    BY <1>1 DEF Slots, Store, Stores
  <2>8. Row(q, name).expiresAt = token[r] /\ (name = "scoped" => Scoped)
    BY <1>1, <2>5, <2>6, <2>7 DEF EntryInv, Present, Row, Slots
  <2>9. StoreClock(q) < token[r]
    BY <1>1 DEF StoreClock
  <2>10. name \in Consulted
    BY <2>8 DEF Consulted, Names
  <2> QED
    BY <2>5, <2>6, <2>8, <2>9, <2>10 DEF Holders, Live
<1>8. Proceeds(q)
  BY <1>1, <1>4, <1>5, <1>7 DEF Proceeds, Own, Cleaning, Gone, Spent
<1> QED
  BY <1>2, <1>5, <1>8, MoverRetry

-----------------------------------------------------------------------------
(* The store's answer, and the cleanup *)

\* What the answer makes of the request.
LEMMA UseOutcome ==
    ASSUME IndInv, NEW q \in Requests, NEW answered \in BOOLEAN, Use(q, answered)
    PROVE  \/ /\ Blocking(q) = {} \/ SameOperation(q)
              /\ request'[q].used /\ request'[q].usedAt = now
              /\ request'[q].why # "spent" /\ request'[q].pc # "use"
              /\ request'[q].pc = "admitted" => Mutation(request[q].target)
              /\ request'[q].pc = "delete" => ~Mutation(request[q].target)
              /\ request'[q].proof = request[q].proof
              /\ request'[q].target = request[q].target
              /\ request'[q].key = request[q].key
           \/ /\ Blocking(q) # {} /\ ~SameOperation(q)
              /\ request'[q].pc = "refused" /\ request'[q].used = FALSE
              /\ request'[q].at = request[q].at
              /\ request'[q].proof = request[q].proof
              /\ request'[q].target = request[q].target
              /\ request'[q].key = request[q].key
           \/ Blocking(q) # {} /\ request'[q] = Unsent
<1>1. /\ request \in [Requests -> Request] /\ request[q] \in Request
      /\ request[q].used = FALSE
  BY UseFacts DEF IndInv, TypeOK, Use
<1>2. CASE Blocking(q) = {} \/ SameOperation(q)
  <2> DEFINE step == IF answered
                       THEN IF Mutation(request[q].target) THEN "admitted" ELSE "delete"
                       ELSE "refused"
             why == IF answered THEN "none" ELSE "failed"
             used == [request[q] EXCEPT !.pc = step, !.why = why, !.at = 0, !.seen = {},
                                        !.used = TRUE, !.usedAt = now]
  <2>1. request'[q] = used
    BY <1>1, <1>2 DEF Use
  <2>2. /\ step # "use" /\ why # "spent"
        /\ step = "admitted" => Mutation(request[q].target)
        /\ step = "delete" => ~Mutation(request[q].target)
    OBVIOUS
  <2> HIDE DEF step, why
  <2>3. /\ used.pc = step /\ used.why = why /\ used.used = TRUE /\ used.usedAt = now
        /\ used.proof = request[q].proof /\ used.target = request[q].target
        /\ used.key = request[q].key
    BY <1>1 DEF Request
  <2> HIDE DEF used
  <2> QED
    BY <1>2, <2>1, <2>2, <2>3
<1>3. CASE ~(Blocking(q) = {} \/ SameOperation(q)) /\ answered
  <2> DEFINE spent == [request[q] EXCEPT !.pc = "refused", !.why = "spent", !.seen = {}]
  <2>1. request'[q] = spent
    BY <1>1, <1>3 DEF Use
  <2>2. /\ spent.pc = "refused" /\ spent.used = FALSE /\ spent.at = request[q].at
        /\ spent.proof = request[q].proof /\ spent.target = request[q].target
        /\ spent.key = request[q].key
    BY <1>1 DEF Request
  <2> HIDE DEF spent
  <2> QED
    BY <1>3, <2>1, <2>2
<1>4. CASE ~(Blocking(q) = {} \/ SameOperation(q)) /\ ~answered
  <2>1. request'[q] = Unsent
    BY <1>1, <1>4 DEF Use
  <2> QED
    BY <1>4, <2>1
<1> QED
  BY <1>2, <1>3, <1>4

\* The store refuses a result only if there is a use to blame for it.
LEMMA Blamed ==
    ASSUME IndInv, RetryInv, NEW q \in Requests, request[q].pc = "use",
           Blocking(q) # {}, ~SameOperation(q)
    PROVE  \E p \in Requests \ {q} :
              /\ request[p].used
              /\ request[p].proof = request[q].proof
              /\ \/ Operation(p) # Operation(q)
                 \/ /\ config.results = "postgres"
                    /\ \/ request[q].at <= request[p].usedAt
                       \/ token[request[q].proof] <= now
<1> DEFINE r == request[q].proof
<1>1. /\ r \in Results /\ request[q].used = FALSE /\ Consulted \subseteq Names
      /\ token[r] \in Nat /\ now \in Nat /\ request[q].at \in Nat
  BY UseFacts
<1>2. PICK name \in Consulted :
          \/ Live(q, name)
          \/ config.results = "postgres" /\ name = Written /\ Row(q, name).by # None
  BY DEF Blocking
<1> DEFINE slot == <<Store(q), name, r>>
<1>3. slot \in Slots /\ Present(slot)
  BY <1>1, <1>2 DEF Slots, Store, Stores, Present, Live, Row
<1>4. PICK p \in Requests :
          /\ request[p].used
          /\ slot[1] = Store(p) /\ slot[3] = request[p].proof
          /\ entry[slot].by = Operation(p)
  BY <1>3 DEF RetryInv, Writer, Slots
<1>5. p \in Requests \ {q} /\ request[p].used /\ request[p].proof = r
      /\ Store(p) = Store(q) /\ Row(q, name).by = Operation(p)
      /\ request[p] \in Request /\ request[p].usedAt \in Nat
  <2>1. request[p] \in Request
    BY DEF IndInv, TypeOK
  <2> QED
    BY <1>1, <1>4, <2>1 DEF Row, Request
<1> SUFFICES ASSUME Operation(p) = Operation(q)
             PROVE  /\ config.results = "postgres"
                    /\ request[q].at <= request[p].usedAt \/ token[r] <= now
  BY <1>5
<1>6. UseAcceptance(q)
  <2> SUFFICES ASSUME ~UseAcceptance(q) PROVE FALSE
    OBVIOUS
  <2>1. Operation(q) = q
    BY DEF Operation
  <2> QED
    BY <1>5, <2>1, ResourceAssumption DEF Operation, UseAcceptance, Request
<1>7. config.results = "postgres"
  BY <1>2, <1>5, <1>6 DEF SameOperation, Holders
<1>8. ~(request[p].usedAt < request[q].at /\ now < token[r])
  <2>1. Overlooks(q) /\ SameUse(p, q)
    BY <1>5 DEF RetryInv, Own, SameUse
  <2>2. Operation(q) \notin request[q].seen
    BY <1>6, <1>7 DEF SameOperation
  <2> QED
    BY <1>6, <1>7, <2>1, <2>2 DEF Overlooks
<1> QED
  BY <1>1, <1>5, <1>7, <1>8

\* A result is granted, and leaves its writer, or refused, for a reason.
LEMMA UseRetry ==
    ASSUME IndInv, IndInv', RetryInv, NEW q \in Requests, NEW answered \in BOOLEAN,
           Use(q, answered)
    PROVE  RetryInv'
<1> DEFINE r == request[q].proof
<1>1. /\ request[q].pc = "use" /\ UNCHANGED <<now, config, release, requirement, token>>
      /\ \A p \in Requests : p # q => request'[p] = request[p]
  BY UseRequest DEF Use
<1>2. /\ r \in Results /\ token[r] # 0 /\ request[q].used = FALSE /\ now \in Nat
      /\ request[q].target = requirement[r].target
  BY <1>1, UseFacts
<1>3. Onward
  BY <1>1, <1>2, Expires
<1>4. ASSUME request'[q].target = request[q].target, request'[q].key = request[q].key
      PROVE  Store(q)' = Store(q) /\ Operation(q)' = Operation(q)
  BY <1>1, <1>4, SameOperationLater
<1>5. Proceeds(q)
  <2>1. CASE /\ request'[q].used /\ request'[q].usedAt = now
             /\ request'[q].why # "spent" /\ request'[q].pc # "use"
             /\ request'[q].pc = "admitted" => Mutation(request[q].target)
             /\ request'[q].pc = "delete" => ~Mutation(request[q].target)
             /\ request'[q].proof = r /\ request'[q].target = request[q].target
    <3>1. Cleaning(q)'
      BY <1>1, <1>2, <2>1 DEF Cleaning, Mutation
    <3>2. Gone(q)'
      BY <2>1 DEF Gone, Mutation
    <3>3. Overlooks(q)' /\ Spent(q)'
      BY <2>1 DEF Overlooks, Spent
    <3> QED
      BY <1>2, <2>1, <3>1, <3>2, <3>3 DEF Proceeds, Own
  <2>2. CASE /\ Blocking(q) # {} /\ ~SameOperation(q)
             /\ request'[q].pc = "refused" /\ request'[q].used = FALSE
             /\ request'[q].at = request[q].at /\ request'[q].proof = r
             /\ request'[q].target = request[q].target /\ request'[q].key = request[q].key
    <3>1. PICK p \in Requests \ {q} :
              /\ request[p].used
              /\ request[p].proof = r
              /\ \/ Operation(p) # Operation(q)
                 \/ /\ config.results = "postgres"
                    /\ \/ request[q].at <= request[p].usedAt
                       \/ token[r] <= now
      BY <1>1, <2>2, Blamed
    <3>2. request'[p] = request[p] /\ Operation(p)' = Operation(p)
          /\ Operation(q)' = Operation(q)
      BY <1>1, <1>4, <2>2, SameOperationLater
    <3>3. Spent(q)'
      BY <1>1, <1>2, <2>2, <3>1, <3>2 DEF Spent
    <3>4. Cleaning(q)' /\ Gone(q)' /\ Overlooks(q)'
      BY <2>2 DEF Cleaning, Gone, Overlooks
    <3> QED
      BY <1>2, <2>2, <3>3, <3>4 DEF Proceeds, Own
  <2>3. CASE request'[q] = Unsent
    BY <1>2, <2>3, CutOff
  <2> QED
    BY <2>1, <2>2, <2>3, UseOutcome
<1>6. Rows
  <2> SUFFICES ASSUME NEW slot \in Slots, entry'[slot] # entry[slot]
               PROVE  Writer(slot)'
    BY DEF Rows
  <2>1. CASE entry'[slot] = NoEntry
    BY <2>1 DEF Writer, Present, NoEntry
  <2>2. CASE /\ Blocking(q) = {} /\ slot = <<Store(q), Written, r>>
             /\ entry'[slot] = [by |-> Operation(q), expiresAt |-> token[r]]
    <3>1. /\ request'[q].used /\ request'[q].proof = r
          /\ request'[q].target = request[q].target /\ request'[q].key = request[q].key
      BY <2>2, UseOutcome
    <3>2. /\ slot[1] = Store(q)' /\ slot[3] = request'[q].proof
          /\ entry'[slot].by = Operation(q)'
      BY <1>4, <2>2, <3>1
    <3> QED
      BY <3>1, <3>2 DEF Writer
  <2> QED
    BY <2>1, <2>2, UseEntry
<1> QED
  BY <1>1, <1>3, <1>5, <1>6, MoverRetry

\* The requirement of a read is deleted, after its use.
LEMMA DeleteRetry ==
    ASSUME IndInv, IndInv', RetryInv, NEW q \in Requests, NEW answered \in BOOLEAN,
           Delete(q, answered)
    PROVE  RetryInv'
<1>0. /\ Taken(q) /\ Cleaning(q) /\ Spent(q) /\ TypeOK
      /\ request[q].pc = "delete" /\ request[q].proof \in Results
  <2>1. Taken(q) /\ Cleaning(q) /\ Spent(q) /\ TypeOK /\ request[q].pc = "delete"
    BY DEF IndInv, RequestInv, RetryInv, Own, Delete
  <2> QED
    BY <2>1 DEF Taken, InFlight
<1> PICK r \in Results : r = request[q].proof
  BY <1>0
<1>1. /\ request[q] \in Request /\ request \in [Requests -> Request]
      /\ request[q].pc = "delete" /\ r \in Results /\ now \in Nat
      /\ requirement \in [Results -> Requirement] /\ requirement[r] \in Requirement
      /\ ~Mutation(requirement[r].target) /\ (request[q].used \/ ~config.replay)
      /\ request[q].why # "spent"
  BY <1>0 DEF TypeOK, Cleaning, Spent
<1>2. UNCHANGED <<now, config, release, token, entry>>
  BY DEF Delete
<1>3. /\ \A p \in Requests : p # q => request'[p] = request[p]
      /\ \/ ~answered /\ request'[q] = Abandoned(q)
         \/ /\ request'[q].pc = "admitted" /\ request'[q].why = request[q].why
            /\ request'[q].used = request[q].used /\ request'[q].usedAt = request[q].usedAt
            /\ request'[q].proof = r /\ request'[q].target = request[q].target
            /\ request'[q].key = request[q].key
  BY <1>1 DEF Delete, Goto, Abandon, Request
<1>4. /\ \A p \in Results : p # r => requirement'[p] = requirement[p]
      /\ requirement'[r].target = requirement[r].target
      /\ requirement'[r].owner = requirement[r].owner
      /\ requirement'[r].expiresAt = requirement[r].expiresAt
      /\ \/ Deletable(r) /\ requirement'[r].state = "deleted"
         \/ ~Deletable(r) /\ requirement'[r].state = requirement[r].state
  BY <1>1 DEF Delete, Requirement
<1>5. Deletion(r)'
  <2>1. request[q].used => request'[q].used /\ request'[q].proof = r
    BY <1>1, <1>3 DEF Abandoned, Request
  <2> QED
    BY <1>1, <1>2, <1>4, <2>1 DEF Deletion, Mutation
<1>6. Onward
  BY <1>1, <1>2, <1>4, <1>5 DEF Onward, Deletable
<1>7. ~Stored(r, now)'
  BY <1>1, <1>2, <1>4 DEF Stored, Deletable, Owned, ReadAt
<1>8. Proceeds(q)
  <2>1. CASE request'[q] = Abandoned(q)
    BY <2>1, CutOff
  <2>2. CASE request'[q] # Abandoned(q)
    <3>1. Gone(q)'
      BY <1>3, <1>7, <2>2 DEF Gone
    <3>2. Cleaning(q)' /\ Overlooks(q)' /\ Spent(q)'
      BY <1>1, <1>3, <2>2 DEF Cleaning, Overlooks, Spent
    <3> QED
      BY <1>3, <2>2, <3>1, <3>2 DEF Proceeds, Own
  <2> QED
    BY <2>1, <2>2
<1>9. Rows
  BY <1>2 DEF Rows
<1> QED
  BY <1>3, <1>6, <1>8, <1>9, MoverRetry

-----------------------------------------------------------------------------
(* The theorems *)

\* Nothing was asked, granted or deleted at the start.
LEMMA InitRetry == Init => RetryInv
<1> SUFFICES ASSUME Init PROVE RetryInv
  OBVIOUS
<1>1. \A q \in Requests : request[q].pc = "none" /\ request[q].why = "none"
  BY DEF Init, Unsent
<1>2. \A slot \in Slots : ~Present(slot)
  BY DEF Init, Slots, Present, NoEntry
<1>3. \A r \in Results : requirement[r].state = "absent"
  BY DEF Init
<1> QED
  BY <1>1, <1>2, <1>3
     DEF RetryInv, Own, Cleaning, Gone, Overlooks, Spent, Writer, Deletion, Slots

\* Every step preserves the invariant of the retries.
LEMMA NextRetry == IndInv /\ IndInv' /\ RetryInv /\ [Next]_vars => RetryInv'
<1> SUFFICES ASSUME IndInv, IndInv', RetryInv, [Next]_vars PROVE RetryInv'
  OBVIOUS
<1>1. ASSUME NEW r \in Results, NEW target \in Targets, NEW ttl \in TTLs,
             Challenge(r, target, ttl)
      PROVE  RetryInv'
  BY <1>1, ChallengeRetry
<1>2. ASSUME NEW r \in Results, Sign(r) PROVE RetryInv'
  BY <1>2, SignRetry
<1>3. ASSUME NEW q \in Requests, Step(q) PROVE RetryInv'
  <2>1. ASSUME NEW r \in Results, NEW target \in Targets,
               NEW key \in Keys \union {None}, Receive(q, r, target, key)
        PROVE  RetryInv'
    BY <2>1, ReceiveRetry
  <2>2. CASE Lookup(q)
    BY <2>2, LookupRetry
  <2>3. CASE Route(q)
    BY <2>3, RouteRetry
  <2>4. CASE Snapshot(q)
    BY <2>4, SnapshotRetry
  <2>5. ASSUME NEW answered \in BOOLEAN, Use(q, answered) PROVE RetryInv'
    BY <2>5, UseRetry
  <2>6. ASSUME NEW answered \in BOOLEAN, Delete(q, answered) PROVE RetryInv'
    BY <2>6, DeleteRetry
  <2>7. CASE Fail(q)
    BY <2>7, FailRetry
  <2> QED
    BY <1>3, <2>1, <2>2, <2>3, <2>4, <2>5, <2>6, <2>7 DEF Step
<1>4. CASE RestartServer
  BY <1>4, RestartServerRetry
<1>5. CASE RestartVerifier
  BY <1>5, StopVerifierRetry DEF RestartVerifier
<1>6. CASE Upgrade
  BY <1>6, StopVerifierRetry DEF Upgrade
<1>7. CASE Tick
  BY <1>7, TickRetry
<1>8. CASE UNCHANGED vars
  BY <1>8, StutterRetry
<1> QED
  BY <1>1, <1>2, <1>3, <1>4, <1>5, <1>6, <1>7, <1>8 DEF Next

\* Every row of a result store has a request that was granted the result, a
\* snapshot overlooks only what came after the request's clock or lapsed, and
\* the cleanup follows the use, in every reachable state.
THEOREM Retries == Spec => []RetryInv
<1> QED
  BY InitRetry, NextRetry, Invariant, PTL DEF Spec

\* A matching request with a valid result is refused as spent only for what
\* SpentMeansSpent names, for any requests, keys and deployments.
THEOREM SpentForAReason == Spec => []SpentMeansSpent
<1>1. RetryInv => SpentMeansSpent
  BY DEF RetryInv, Own, Spent, SpentMeansSpent
<1> QED
  BY <1>1, Retries, PTL

\* The eager cleanup deletes only the requirement of a read whose result was
\* used, and has done so before the read is admitted.
THEOREM CleanupFollowsUse == Spec => []CleanupAfterUse
<1>1. RetryInv => CleanupAfterUse
  BY DEF RetryInv, Own, Gone, Deletion, CleanupAfterUse
<1> QED
  BY <1>1, Retries, PTL
=============================================================================
