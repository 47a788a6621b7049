------------------------ MODULE ResourceServerProofs ------------------------
(***************************************************************************)
(* The invariant of ResourceServer is inductive, and with it use-once holds *)
(* for every value of the constants: any requests, results, keys, targets,  *)
(* lifetimes and every deployment that assertProtectOptions accepts.        *)
(*                                                                         *)
(* Only Use writes a row, and it has lemmas of its own.  Every other step   *)
(* is an instance of one argument, StepInv: it grants nothing (Kept), brings *)
(* a request to a store only while its requirement is stored (Granted),     *)
(* keeps time, tokens and requirements moving one way (Frame), and leaves   *)
(* the rows as they were or loses them all (Forgotten).                     *)
(***************************************************************************)
EXTENDS ResourceServerInv, TLAPS

Slots == Stores \X Names \X Results

\* What a step does that takes no result: time, releases, tokens and
\* requirements move in one direction only.
Frame ==
    /\ config' = config
    /\ now \in Nat /\ now' \in Nat /\ now <= now'
    /\ release = "new" => release' = "new"
    /\ \A r \in Results : token[r] # 0 => token'[r] = token[r]
    /\ \A r \in Results : requirement[r].state # "absent" =>
         /\ requirement'[r].state # "absent"
         /\ requirement'[r].target = requirement[r].target
         /\ requirement[r].state # "stored" => requirement'[r].state # "stored"

Kept(q) ==
    request'[q].used =>
        /\ request[q].used
        /\ request'[q].proof = request[q].proof
        /\ request'[q].target = request[q].target
        /\ request'[q].key = request[q].key
        /\ request'[q].usedAt = request[q].usedAt

\* A request gets to a result store only while the requirement is stored.
Granted(q) ==
    request'[q].pc \in Granting =>
        /\ request'[q].proof = request[q].proof
        /\ \/ request[q].pc \in Granting
           \/ requirement[request[q].proof].state = "stored"

Advance(q) ==
    Kept(q) /\ Granted(q) /\ Taken(q)' /\ Looked(q)' /\ Timely(q)' /\ Backed(q)'

\* What the result stores kept, or that they lost all at once.
Forgotten ==
    /\ config.results = "memory"
    /\ entry' = [slot \in Slots |-> NoEntry]
    /\ \/ Volatile
       \/ /\ \A r \in Results : requirement'[r].state # "stored"
          /\ \A q \in Requests : request'[q].pc \notin Granting

\* A request that had used its result is the same operation at the same
\* store after the step.
LEMMA KeptFacts ==
    ASSUME NEW q \in Requests, config' = config, Kept(q), request'[q].used
    PROVE  /\ Store(q)' = Store(q) /\ Operation(q)' = Operation(q)
           /\ request[q].used /\ request'[q].proof = request[q].proof
           /\ request'[q].usedAt = request[q].usedAt
BY DEF Kept, Store, Operation, UseAcceptance, Mutation

\* A step that grants nothing brings no second operation to a result.
LEMMA StepOneOperation ==
    ASSUME IndInv, Frame, \A q \in Requests : Kept(q)
    PROVE  OneOperationPerResult'
<1> SUFFICES ASSUME NEW p \in Requests, NEW q \in Requests,
                    request'[p].used, request'[q].used,
                    request'[p].proof = request'[q].proof,
                    (Operation(p) # Operation(q))', Before(p, q)'
             PROVE  (\/ config.results # "postgres"
                        /\ token[request[p].proof] <= request[q].usedAt
                     \/ Volatile
                     \/ /\ config.profile = "dev" /\ ~config.requireKey
                        /\ Store(p) # Store(q))'
  BY DEF OneOperationPerResult
<1>1. config' = config /\ Volatile' = Volatile
  BY DEF Frame, Volatile
<1>2. /\ Store(p)' = Store(p) /\ Operation(p)' = Operation(p) /\ request[p].used
      /\ request'[p].proof = request[p].proof /\ request'[p].usedAt = request[p].usedAt
  BY <1>1, KeptFacts
<1>3. /\ Store(q)' = Store(q) /\ Operation(q)' = Operation(q) /\ request[q].used
      /\ request'[q].proof = request[q].proof /\ request'[q].usedAt = request[q].usedAt
  BY <1>1, KeptFacts
<1>4. Before(p, q) /\ Operation(p) # Operation(q) /\ request[p].proof = request[q].proof
  BY <1>2, <1>3 DEF Before
<1>5. \/ config.results # "postgres"
         /\ token[request[p].proof] <= request[q].usedAt
      \/ Volatile
      \/ /\ config.profile = "dev" /\ ~config.requireKey
         /\ Store(p) # Store(q)
  BY <1>2, <1>3, <1>4 DEF IndInv, OneOperationPerResult
<1>6. token'[request[p].proof] = token[request[p].proof]
  BY <1>2 DEF IndInv, RequestInv, Taken, Frame
<1> QED
  BY <1>1, <1>2, <1>3, <1>5, <1>6

\* Rows that stay, or that are all lost, still agree with the tokens.
LEMMA StepEntry ==
    ASSUME IndInv, Frame, entry' = entry \/ Forgotten
    PROVE  EntryInv'
<1>1. EntryInv /\ config' = config /\ now <= now' /\ now \in Nat /\ now' \in Nat
  BY DEF IndInv, Frame
<1>2. CASE entry' = entry
  <2>1. Scoped => Scoped'
    BY DEF Frame, Scoped
  <2>2. \A slot \in Slots : Present(slot)' <=> Present(slot)
    BY <1>2 DEF Present
  <2>3. ASSUME NEW slot \in Slots, Present(slot)'
        PROVE  /\ token'[slot[3]] # 0 /\ entry'[slot].expiresAt = token'[slot[3]]
               /\ slot[2] = "scoped" => Scoped'
    <3>1. slot[3] \in Results
      BY DEF Slots
    <3> QED
      BY <1>1, <1>2, <2>1, <2>2, <2>3, <3>1 DEF EntryInv, Frame, Slots
  <2>4. ASSUME NEW s \in Stores, NEW r \in Results, Present(<<s, "plain", r>>)',
               Present(<<s, "scoped", r>>)'
        PROVE  config'.results # "postgres" /\ token'[r] <= now'
    <3>1. <<s, "plain", r>> \in Slots /\ <<s, "scoped", r>> \in Slots
      BY DEF Slots, Names
    <3>2. config.results # "postgres" /\ token[r] <= now
      BY <1>1, <2>2, <2>4, <3>1 DEF EntryInv
    <3>3. token[r] # 0
      BY <1>1, <2>2, <2>4, <3>1 DEF EntryInv, Slots
    <3>4. token'[r] = token[r] /\ token[r] \in Nat
      BY <3>3 DEF Frame, IndInv, TypeOK
    <3> QED
      BY <1>1, <3>2, <3>4
  <2> QED
    BY <2>3, <2>4 DEF EntryInv, Slots
<1>3. CASE Forgotten
  <2>1. \A slot \in Slots : ~Present(slot)'
    BY <1>3 DEF Forgotten, Present, NoEntry
  <2>2. \A s \in Stores, r \in Results : <<s, "plain", r>> \in Slots
    BY DEF Slots, Names
  <2> QED
    BY <2>1, <2>2 DEF EntryInv, Slots
<1> QED
  BY <1>2, <1>3

\* A grant stays remembered, unless its row was lost with every request at
\* work on the result, or the deployment is Volatile.
LEMMA StepGrant ==
    ASSUME IndInv, Frame, \A q \in Requests : Kept(q) /\ Granted(q),
           entry' = entry \/ Forgotten
    PROVE  GrantInv'
<1> SUFFICES ASSUME ~Volatile', NEW q \in Requests, request'[q].used
             PROVE  (Remembered(q) \/ Lapsed(q) \/ Stopped(q))'
  BY DEF GrantInv
<1>1. config' = config /\ ~Volatile
  BY DEF Frame, Volatile
<1>2. /\ Store(q)' = Store(q) /\ Operation(q)' = Operation(q) /\ request[q].used
      /\ request'[q].proof = request[q].proof
  BY <1>1, KeptFacts
<1>3. request[q].proof \in Results /\ token[request[q].proof] # 0
  BY <1>2 DEF IndInv, RequestInv, Taken
<1>4. CASE Forgotten
  <2>1. Stopped(q)'
    BY <1>1, <1>2, <1>3, <1>4 DEF Forgotten, Stopped
  <2> QED
    BY <2>1
<1>5. CASE entry' = entry
  <2>1. CASE Remembered(q)
    <3>1. Remembered(q)'
      BY <1>2, <1>5, <2>1 DEF Remembered, Row
    <3> QED
      BY <3>1
  <2>2. CASE Lapsed(q)
    <3>1. token[request[q].proof] \in Nat
      BY <1>3 DEF IndInv, TypeOK
    <3>2. Lapsed(q)'
      BY <1>1, <1>2, <1>3, <2>2, <3>1 DEF Lapsed, Frame
    <3> QED
      BY <3>2
  <2>3. CASE Stopped(q)
    <3>1. requirement[request[q].proof].state # "absent"
      BY <1>3 DEF IndInv, TokenInv
    <3>2. requirement'[request[q].proof].state # "stored"
      BY <1>3, <2>3, <3>1 DEF Frame, Stopped
    <3>3. ASSUME NEW p \in Requests, request'[p].pc \in Granting
          PROVE  request'[p].proof # request[q].proof
      BY <2>3, <3>3 DEF Granted, Stopped
    <3>4. Stopped(q)'
      BY <1>2, <3>2, <3>3 DEF Stopped
    <3> QED
      BY <3>4
  <2> QED
    BY <1>1, <1>2, <2>1, <2>2, <2>3 DEF IndInv, GrantInv
<1> QED
  BY <1>4, <1>5

\* The invariant survives a step that takes no result.
LEMMA StepInv ==
    ASSUME IndInv, Frame, TypeOK', TokenInv', \A q \in Requests : Advance(q),
           entry' = entry \/ Forgotten
    PROVE  IndInv'
<1>1. \A q \in Requests : Kept(q) /\ Granted(q)
  BY DEF Advance
<1>2. RequestInv' /\ SeenInv'
  BY DEF Advance, RequestInv, SeenInv
<1> QED
  BY <1>1, <1>2, StepOneOperation, StepEntry, StepGrant DEF IndInv

\* A request that waits, or that a failure or a rejection ends, keeps its
\* part of the invariant.
LEMMA StayAdvance ==
    ASSUME IndInv, Frame, NEW q \in Requests, entry' = entry \/ Forgotten,
           request'[q] = request[q] \/ request'[q] = Unsent \/ request'[q] = Abandoned(q)
    PROVE  Advance(q)
<1> DEFINE r == request[q].proof
<1>1. Taken(q) /\ Looked(q) /\ Timely(q) /\ Backed(q) /\ TokenInv /\ TypeOK
  BY DEF IndInv, RequestInv, SeenInv
<1>2. /\ request \in [Requests -> Request] /\ config' = config
      /\ now \in Nat /\ now' \in Nat /\ now <= now'
  BY <1>1 DEF TypeOK, Frame
<1>3. CASE request'[q] = request[q]
  <2>1. Taken(q)'
    BY <1>1, <1>2, <1>3 DEF Taken, Frame, Mutation
  <2>2. request[q].pc \in Granting \/ request[q].used => token'[r] = token[r]
          /\ requirement'[r].target = requirement[r].target
    BY <1>1 DEF Taken, Frame, TokenInv, Granting, InFlight
  <2>3. Looked(q)'
    BY <1>1, <1>3, <2>2 DEF Looked
  <2>4. Timely(q)'
    BY <1>1, <1>2, <1>3 DEF Timely, Request
  <2>5. Backed(q)'
    BY <1>1, <1>2, <1>3 DEF Backed, Forgotten, Row, Store, UseAcceptance, Mutation
  <2> QED
    BY <1>3, <2>1, <2>3, <2>4, <2>5 DEF Advance, Kept, Granted
<1>4. CASE request'[q] = Unsent
  <2>1. request'[q].pc = "none" /\ request'[q].used = FALSE /\ request'[q].at = 0
    BY <1>4 DEF Unsent
  <2> QED
    BY <1>2, <2>1
       DEF Advance, Kept, Granted, Taken, Looked, Timely, Backed, Granting, InFlight
<1>5. CASE /\ request[q].used
           /\ request'[q] = [request[q] EXCEPT !.pc = "refused", !.why = "failed"]
  <2>1. /\ request'[q].pc = "refused" /\ request'[q].used = request[q].used
        /\ request'[q].at = request[q].at /\ request'[q].usedAt = request[q].usedAt
        /\ request'[q].proof = request[q].proof /\ request'[q].target = request[q].target
        /\ request'[q].key = request[q].key
    BY <1>2, <1>5 DEF Request
  <2>2. Taken(q)'
    BY <1>1, <1>2, <1>5, <2>1 DEF Taken, Frame, Mutation
  <2>3. requirement'[r].target = requirement[r].target
    BY <1>1, <1>5 DEF Taken, Frame, TokenInv
  <2>4. Looked(q)'
    BY <1>1, <1>5, <2>1, <2>3 DEF Looked, Granting
  <2>5. Timely(q)'
    BY <1>1, <1>2, <1>5, <2>1 DEF Timely, Request
  <2> QED
    BY <1>5, <2>1, <2>2, <2>4, <2>5 DEF Advance, Kept, Granted, Backed, Granting
<1> QED
  BY <1>3, <1>4, <1>5 DEF Abandoned

-----------------------------------------------------------------------------
(* Types *)

\* What a request becomes when it is refused or cut off.
LEMMA AbandonedType ==
    ASSUME TypeOK, NEW q \in Requests
    PROVE  Unsent \in Request /\ Abandoned(q) \in Request
<1>1. request[q] \in Request
  BY DEF TypeOK
<1>2. Unsent \in Request
  BY DEF Unsent, Request, Steps, Reasons
<1>3. [request[q] EXCEPT !.pc = "refused", !.why = "failed"] \in Request
  BY <1>1 DEF Request, Steps, Reasons
<1> QED
  BY <1>2, <1>3 DEF Abandoned

\* What a restart leaves is well-typed.
LEMMA ForgetTypes ==
    ASSUME TypeOK
    PROVE  /\ ForgetRequirements => requirement' \in [Results -> Requirement]
           /\ ForgetEntries => entry' \in [Stores \X Names \X Results -> Entry]
<1>1. \A r \in Results : requirement[r] \in Requirement
                         /\ [requirement[r] EXCEPT !.state = "lost"] \in Requirement
  BY DEF TypeOK, Requirement
<1>2. NoEntry \in Entry
  BY DEF NoEntry, Entry
<1>3. entry \in [Stores \X Names \X Results -> Entry]
  BY DEF TypeOK
<1>4. ForgetRequirements => requirement' \in [Results -> Requirement]
  BY <1>1 DEF ForgetRequirements
<1>5. ForgetEntries => entry' \in [Stores \X Names \X Results -> Entry]
  BY <1>2, <1>3 DEF ForgetEntries
<1> QED
  BY <1>4, <1>5

\* The operations that a store shows for a result.
LEMMA HoldersType ==
    ASSUME TypeOK, NEW q \in Requests, request[q].proof \in Results
    PROVE  Holders(q) \subseteq Keys \union Requests
<1> SUFFICES ASSUME NEW name \in Consulted, Live(q, name)
             PROVE  Row(q, name).by \in Keys \union Requests
  BY DEF Holders
<1>1. <<Store(q), name, request[q].proof>> \in Slots
  BY DEF Slots, Store, Stores, Consulted, Names
<1>2. Row(q, name) \in Entry
  BY <1>1 DEF Row, TypeOK, Slots
<1> QED
  BY <1>2 DEF Live, Entry

\* A requirement that expires or is deleted.
LEMMA RequirementState ==
    ASSUME TypeOK, NEW r \in Results, NEW s \in {"expired", "deleted"}
    PROVE  [requirement EXCEPT ![r].state = s] \in [Results -> Requirement]
BY DEF TypeOK, Requirement

\* The steps that only move a request.
LEMMA GotoType ==
    ASSUME TypeOK, NEW q \in Requests, NEW step \in Steps
    PROVE  /\ [request[q] EXCEPT !.pc = step] \in Request
           /\ [request EXCEPT ![q].pc = step] \in [Requests -> Request]
           /\ [request EXCEPT ![q].pc = step][q] = [request[q] EXCEPT !.pc = step]
<1>1. request \in [Requests -> Request] /\ request[q] \in Request
  BY DEF TypeOK
<1>2. [request[q] EXCEPT !.pc = step] \in Request
  BY <1>1 DEF Request
<1>3. [request EXCEPT ![q].pc = step]
        = [request EXCEPT ![q] = [request[q] EXCEPT !.pc = step]]
  BY <1>1
<1> QED
  BY <1>1, <1>2, <1>3

\* A request that is refused without a trace.
LEMMA RejectType ==
    ASSUME TypeOK, NEW q \in Requests
    PROVE  [request EXCEPT ![q] = Unsent] \in [Requests -> Request]
BY AbandonedType DEF TypeOK

\* A request that is cut off.
LEMMA AbandonType ==
    ASSUME TypeOK, NEW q \in Requests
    PROVE  [request EXCEPT ![q] = Abandoned(q)] \in [Requests -> Request]
BY AbandonedType DEF TypeOK

-----------------------------------------------------------------------------
(* One step *)

\* The steps that move requests only to where a failure leaves them.
LEMMA PassiveStep ==
    ASSUME IndInv, Frame, TypeOK', TokenInv', entry' = entry \/ Forgotten,
           \A q \in Requests : \/ request'[q] = request[q]
                               \/ request'[q] = Unsent
                               \/ request'[q] = Abandoned(q)
    PROVE  IndInv'
BY StayAdvance, StepInv

\* issueChallenge registers a requirement.
LEMMA ChallengeStep ==
    ASSUME IndInv, NEW r \in Results, NEW target \in Targets, NEW ttl \in TTLs,
           Challenge(r, target, ttl)
    PROVE  IndInv'
<1>1. TypeOK /\ TokenInv /\ now \in Nat /\ ttl \in Nat
  BY ResourceAssumption DEF IndInv, TypeOK
<1>2. TypeOK'
  BY <1>1 DEF TypeOK, Challenge, Requirement
<1>3. Frame /\ TokenInv'
  BY <1>1 DEF TypeOK, Challenge, Frame, TokenInv
<1> QED
  BY <1>2, <1>3, PassiveStep DEF Challenge

\* The verifier signs the result.
LEMMA SignStep ==
    ASSUME IndInv, NEW r \in Results, Sign(r)
    PROVE  IndInv'
<1>1. TypeOK /\ TokenInv /\ now \in Nat
  BY DEF IndInv, TypeOK
<1>2. PICK expiresAt \in now + 1 .. requirement[r].expiresAt :
          token' = [token EXCEPT ![r] = expiresAt]
  BY DEF Sign
<1>3. TypeOK'
  BY <1>1, <1>2 DEF TypeOK, Sign, Requirement
<1>4. Frame
  BY <1>1, <1>2 DEF TypeOK, Sign, Frame
<1>5. TokenInv'
  BY <1>1, <1>2 DEF TypeOK, Sign, TokenInv, Stored
<1> QED
  BY <1>3, <1>4, <1>5, PassiveStep DEF Sign

\* Time passes.
LEMMA TickStep == ASSUME IndInv, Tick PROVE IndInv'
<1>1. TypeOK /\ TokenInv /\ now \in Nat
  BY DEF IndInv, TypeOK
<1>2. TypeOK' /\ TokenInv'
  BY <1>1 DEF TypeOK, Tick, TokenInv
<1>3. Frame
  BY <1>1 DEF Tick, Frame
<1> QED
  BY <1>2, <1>3, PassiveStep DEF Tick

\* A restart moves requirements in one direction only.
LEMMA ForgetFrame ==
    ASSUME IndInv, config' = config, token' = token, now' = now,
           release' = release \/ release' = "new",
           ForgetRequirements \/ requirement' = requirement
    PROVE  Frame /\ TokenInv'
<1>1. now \in Nat /\ requirement \in [Results -> Requirement] /\ TokenInv
  BY DEF IndInv, TypeOK
<1>2. \A r \in Results : requirement[r].state # "absent" =>
         /\ requirement'[r].state # "absent"
         /\ requirement'[r].target = requirement[r].target
         /\ requirement[r].state # "stored" => requirement'[r].state # "stored"
  BY <1>1 DEF ForgetRequirements, Requirement
<1> QED
  BY <1>1, <1>2 DEF Frame, TokenInv

\* The resource server restarts.
LEMMA RestartServerStep == ASSUME IndInv, RestartServer PROVE IndInv'
<1>1. TypeOK
  BY DEF IndInv
<1>2. \A q \in Requests : request'[q] = request[q] \/ request'[q] = Abandoned(q)
  BY DEF RestartServer
<1>3. Frame /\ TokenInv'
  BY ForgetFrame DEF RestartServer
<1>4. request' \in [Requests -> Request]
  <2>1. request \in [Requests -> Request]
    BY <1>1 DEF TypeOK
  <2> QED
    BY <1>1, <2>1, AbandonedType DEF RestartServer
<1>5. TypeOK'
  BY <1>1, <1>4, ForgetTypes DEF TypeOK, RestartServer
<1>6. entry' = entry \/ Forgotten
  <2>1. CASE config.remoteResults \/ config.results # "memory"
    BY <2>1 DEF RestartServer, ForgetEntries
  <2>2. CASE ~config.remoteResults /\ config.results = "memory"
    <3>1. entry' = [slot \in Slots |-> NoEntry]
      BY <2>2 DEF RestartServer, ForgetEntries, Slots
    <3>2. ASSUME ~Volatile
          PROVE  /\ \A r \in Results : requirement'[r].state # "stored"
                 /\ \A q \in Requests : request'[q].pc \notin Granting
      <4>1. config.requirements = "memory" /\ ~config.remoteRequirements
        BY <2>2, <3>2 DEF Volatile
      <4>2. requirement \in [Results -> Requirement] /\ request \in [Requests -> Request]
        BY <1>1 DEF TypeOK
      <4>3. \A r \in Results : requirement'[r].state # "stored"
        BY <4>1, <4>2 DEF RestartServer, ForgetRequirements, Requirement
      <4>4. ASSUME NEW q \in Requests PROVE request'[q].pc \notin Granting
        <5>1. CASE request[q].pc \in InFlight
          <6>1. request'[q] = Abandoned(q)
            BY <5>1 DEF RestartServer
          <6>2. Abandoned(q).pc \in {"refused", "none"}
            BY <4>2 DEF Abandoned, Unsent, Request
          <6> QED
            BY <6>1, <6>2 DEF Granting
        <5>2. CASE request[q].pc \notin InFlight
          BY <5>2 DEF RestartServer, InFlight, Granting
        <5> QED
          BY <5>1, <5>2
      <4> QED
        BY <4>3, <4>4
    <3> QED
      BY <2>2, <3>1, <3>2 DEF Forgotten
  <2> QED
    BY <2>1, <2>2
<1> QED
  BY <1>2, <1>3, <1>5, <1>6, PassiveStep

\* The managed verifier restarts, or is upgraded.
LEMMA StopVerifierStep ==
    ASSUME IndInv, StopVerifier, config' = config, token' = token, now' = now,
           release' = release \/ release' = "new"
    PROVE  IndInv'
<1>1. TypeOK
  BY DEF IndInv
<1>2. \A q \in Requests : request'[q] = request[q] \/ request'[q] = Abandoned(q)
  BY DEF StopVerifier
<1>3. Frame /\ TokenInv'
  BY ForgetFrame DEF StopVerifier
<1>4. request' \in [Requests -> Request]
  <2>1. request \in [Requests -> Request]
    BY <1>1 DEF TypeOK
  <2> QED
    BY <1>1, <2>1, AbandonedType DEF StopVerifier
<1>5. TypeOK'
  <2>1. release' \in {"old", "new"}
    BY <1>1 DEF TypeOK
  <2>2. requirement' \in [Results -> Requirement]
    BY <1>1, ForgetTypes DEF TypeOK, StopVerifier
  <2>3. entry' \in [Stores \X Names \X Results -> Entry]
    BY <1>1, ForgetTypes DEF TypeOK, StopVerifier
  <2> QED
    BY <1>1, <1>4, <2>1, <2>2, <2>3 DEF TypeOK
<1>6. entry' = entry \/ Forgotten
  BY DEF StopVerifier, ForgetEntries, Forgotten, Volatile, Slots
<1> QED
  BY <1>2, <1>3, <1>5, <1>6, PassiveStep

\* A call of a request fails.
LEMMA FailStep == ASSUME IndInv, NEW q \in Requests, Fail(q) PROVE IndInv'
<1>1. TypeOK /\ TokenInv /\ now \in Nat
  BY DEF IndInv, TypeOK
<1>2. TypeOK' /\ TokenInv'
  BY <1>1, AbandonType DEF TypeOK, Fail, Abandon, TokenInv
<1>3. Frame
  BY <1>1 DEF Fail, Frame
<1>4. \A p \in Requests : request'[p] = request[p] \/ request'[p] = Abandoned(p)
  BY <1>1 DEF Fail, Abandon, TypeOK
<1> QED
  BY <1>2, <1>3, <1>4, PassiveStep DEF Fail

\* The steps of one request that leave the result stores alone.
LEMMA MoveStep ==
    ASSUME IndInv, NEW q \in Requests, NEW next \in Request, NEW r \in Results,
           request' = [request EXCEPT ![q] = next],
           \/ requirement' = requirement
           \/ \E s \in {"expired", "deleted"} :
                 /\ requirement[r].state = "stored"
                 /\ requirement' = [requirement EXCEPT ![r].state = s],
           UNCHANGED <<now, config, release, token, entry>>,
           Frame /\ request'[q] = next => Advance(q)
    PROVE  IndInv'
<1>1. TypeOK /\ TokenInv /\ now \in Nat /\ request \in [Requests -> Request]
      /\ requirement \in [Results -> Requirement]
  BY DEF IndInv, TypeOK
<1>2. /\ requirement' \in [Results -> Requirement]
      /\ \A p \in Results : requirement[p].state # "absent" =>
           /\ requirement'[p].state # "absent"
           /\ requirement'[p].target = requirement[p].target
           /\ requirement[p].state # "stored" => requirement'[p].state # "stored"
  <2>1. CASE requirement' = requirement
    BY <1>1, <2>1
  <2>2. ASSUME NEW s \in {"expired", "deleted"}, requirement[r].state = "stored",
               requirement' = [requirement EXCEPT ![r].state = s]
        PROVE  <1>2
    <3>1. requirement' \in [Results -> Requirement]
      BY <1>1, <2>2, RequirementState
    <3> QED
      BY <1>1, <2>2, <3>1 DEF Requirement
  <2> QED
    BY <2>1, <2>2
<1>3. Frame
  BY <1>1, <1>2 DEF Frame
<1>4. TypeOK'
  BY <1>1, <1>2 DEF TypeOK
<1>5. TokenInv'
  BY <1>1, <1>2 DEF TokenInv
<1>6. request'[q] = next /\ Advance(q)
  BY <1>1, <1>3
<1>7. ASSUME NEW p \in Requests PROVE Advance(p)
  <2>1. CASE p = q
    BY <1>6, <2>1
  <2>2. CASE p # q
    <3>1. request'[p] = request[p]
      BY <1>1, <2>2
    <3> QED
      BY <1>3, <3>1, StayAdvance
  <2> QED
    BY <2>1, <2>2
<1> QED
  BY <1>3, <1>4, <1>5, <1>7, StepInv

\* A request arrives with its result.
LEMMA ReceiveStep ==
    ASSUME IndInv, NEW q \in Requests, NEW r \in Results, NEW target \in Targets,
           NEW key \in Keys \union {None}, Receive(q, r, target, key)
    PROVE  IndInv'
<1> DEFINE keyless == Mutation(target) /\ key = None
           fresh == [Unsent EXCEPT !.proof = r, !.target = target, !.at = now,
                                   !.key = IF Mutation(target) THEN key ELSE None,
                                   !.pc = "lookup"]
           next == IF keyless /\ (config.requireKey \/ config.profile # "dev")
                     THEN Unsent ELSE fresh
<1>1. TypeOK /\ now \in Nat /\ config \in Config /\ token[r] # 0
  BY ResourceAssumption DEF IndInv, TypeOK, Receive
<1>2. /\ fresh.pc = "lookup" /\ fresh.proof = r /\ fresh.target = target
      /\ fresh.key = IF Mutation(target) THEN key ELSE None
      /\ fresh.at = now /\ fresh.seen = {} /\ fresh.used = FALSE
  BY DEF Unsent
<1>3. fresh \in Request
  BY <1>1 DEF Unsent, Request, Steps, Reasons
<1>4. next \in Request
  BY <1>1, <1>3, AbandonedType
<1>5. request' = [request EXCEPT ![q] = next]
  BY DEF Receive, Unsent
<1>6. ASSUME Frame, request'[q] = next PROVE Advance(q)
  <2>1. CASE next = Unsent
    BY <1>6, <2>1, StayAdvance DEF Receive
  <2>2. CASE next # Unsent
    <3>1. request'[q] = fresh /\ (keyless => config.profile = "dev" /\ ~config.requireKey)
      BY <1>1, <1>6, <2>2 DEF Config
    <3>2. Taken(q)'
      BY <1>1, <1>2, <3>1 DEF Taken, Mutation, Receive
    <3>3. Timely(q)' /\ Looked(q)' /\ Backed(q)'
      <4>1. now' = now /\ request'[q].at = now /\ request'[q].pc = "lookup"
            /\ request'[q].seen = {} /\ request'[q].used = FALSE
        BY <1>2, <3>1 DEF Receive
      <4>2. Timely(q)' /\ Looked(q)'
        BY <1>1, <4>1 DEF Timely, Looked, Granting
      <4>3. Backed(q)'
        BY <4>1 DEF Backed
      <4> QED
        BY <4>2, <4>3
    <3>4. Kept(q) /\ Granted(q)
      BY <1>2, <3>1 DEF Kept, Granted, Granting
    <3> QED
      BY <3>2, <3>3, <3>4 DEF Advance
  <2> QED
    BY <2>1, <2>2
<1> HIDE DEF next, fresh, keyless
<1> QED
  BY <1>4, <1>5, <1>6, MoveStep DEF Receive

\* The requirement is read and the result verified.
LEMMA LookupStep == ASSUME IndInv, NEW q \in Requests, Lookup(q) PROVE IndInv'
<1> DEFINE r == request[q].proof
           at == request[q].at
           refused == \/ ~Stored(r, at)
                      \/ ~Matches(q)
                      \/ ReplayStoreMissing(q) /\ Mutation(request[q].target)
                      \/ token[r] <= at
<1>1. TypeOK /\ now \in Nat /\ Taken(q) /\ Timely(q) /\ request[q] \in Request
      /\ token \in [Results -> Nat] /\ request[q].pc = "lookup" /\ r \in Results
      /\ token[r] # 0 /\ at \in Nat
  <2>1. TypeOK /\ Taken(q) /\ Timely(q) /\ request[q].pc = "lookup"
    BY DEF IndInv, RequestInv, Lookup
  <2>2. now \in Nat /\ request[q] \in Request /\ token \in [Results -> Nat]
    BY <2>1 DEF TypeOK
  <2>3. r \in Results /\ token[r] # 0
    BY <2>1 DEF Taken, InFlight
  <2> QED
    BY <2>1, <2>2, <2>3 DEF Request
<1>2. \/ requirement' = requirement
      \/ \E s \in {"expired", "deleted"} :
            /\ requirement[r].state = "stored"
            /\ requirement' = [requirement EXCEPT ![r].state = s]
  BY DEF Lookup
<1>3. UNCHANGED <<now, config, release, token, entry>>
  BY DEF Lookup
<1>4. CASE refused
  <2>1. request' = [request EXCEPT ![q] = Unsent]
    BY <1>4 DEF Lookup, Reject
  <2>2. Unsent \in Request
    BY <1>1, AbandonedType
  <2>3. Frame /\ request'[q] = Unsent => Advance(q)
    BY <1>3, StayAdvance
  <2> QED
    BY <1>1, <1>2, <1>3, <2>1, <2>2, <2>3, MoveStep
<1>5. CASE ~refused
  <2>1. PICK step \in {"delete", "route", "snapshot", "use"} :
           request' = [request EXCEPT ![q].pc = step]
    BY <1>5 DEF Lookup, Goto, StoreStep
  <2> DEFINE next == [request[q] EXCEPT !.pc = step]
  <2>2. next \in Request /\ request' = [request EXCEPT ![q] = next]
    <3>1. step \in Steps
      BY DEF Steps
    <3>2. request \in [Requests -> Request]
      BY <1>1 DEF TypeOK
    <3>3. request' = [request EXCEPT ![q] = next]
      BY <2>1, <3>2
    <3> QED
      BY <1>1, <3>1, <3>3, GotoType
  <2>3. /\ next.pc = step /\ next.proof = r /\ next.at = at /\ next.seen = {}
        /\ next.used = request[q].used /\ next.target = request[q].target
        /\ next.key = request[q].key /\ request[q].used = FALSE
    BY <1>1 DEF Request, Timely
  <2>4. requirement[r].state = "stored" /\ requirement' = requirement
        /\ requirement[r].target = request[q].target /\ at < token[r]
    BY <1>1, <1>5 DEF Stored, Matches, Lookup
  <2>5. ASSUME Frame, request'[q] = next PROVE Advance(q)
    <3>1. Taken(q)'
      BY <1>1, <1>3, <2>3, <2>5 DEF Taken, InFlight, Mutation
    <3>2. Looked(q)'
      BY <1>3, <2>3, <2>4, <2>5 DEF Looked
    <3>3. Timely(q)'
      BY <1>1, <1>3, <2>3, <2>5 DEF Timely
    <3>4. Backed(q)'
      BY <2>3, <2>5 DEF Backed
    <3>5. Kept(q) /\ Granted(q)
      BY <2>3, <2>4, <2>5 DEF Kept, Granted
    <3> QED
      BY <3>1, <3>2, <3>3, <3>4, <3>5 DEF Advance
  <2> HIDE DEF next
  <2> QED
    BY <1>1, <1>2, <1>3, <2>2, <2>5, MoveStep
<1> QED
  BY <1>4, <1>5

\* The managed verifier compares the result with its own clock.
LEMMA RouteStep == ASSUME IndInv, NEW q \in Requests, Route(q) PROVE IndInv'
<1> DEFINE r == request[q].proof
<1>1. TypeOK /\ now \in Nat /\ Taken(q) /\ Timely(q) /\ Looked(q)
      /\ request[q] \in Request /\ token \in [Results -> Nat]
      /\ request[q].pc = "route" /\ r \in Results /\ token[r] # 0
  <2>1. TypeOK /\ Taken(q) /\ Timely(q) /\ Looked(q) /\ request[q].pc = "route"
    BY DEF IndInv, RequestInv, Route
  <2>2. now \in Nat /\ request[q] \in Request /\ token \in [Results -> Nat]
    BY <2>1 DEF TypeOK
  <2>3. r \in Results /\ token[r] # 0
    BY <2>1 DEF Taken, InFlight
  <2> QED
    BY <2>1, <2>2, <2>3
<1>2. UNCHANGED <<now, config, release, requirement, token, entry>>
  BY DEF Route
<1>3. CASE token[r] <= now
  <2>1. request' = [request EXCEPT ![q] = Unsent]
    BY <1>3 DEF Route, Reject
  <2>2. Unsent \in Request
    BY <1>1, AbandonedType
  <2>3. Frame /\ request'[q] = Unsent => Advance(q)
    BY <1>2, StayAdvance
  <2> QED
    BY <1>1, <1>2, <2>1, <2>2, <2>3, MoveStep
<1>4. CASE ~(token[r] <= now)
  <2> DEFINE next == [request[q] EXCEPT !.pc = StoreStep(q), !.at = now]
  <2>1. next \in Request /\ request' = [request EXCEPT ![q] = next]
    <3>1. request \in [Requests -> Request] /\ StoreStep(q) \in Steps
      BY <1>1 DEF TypeOK, StoreStep, Steps
    <3>2. next \in Request
      BY <1>1, <3>1 DEF Request
    <3>3. request' = [request EXCEPT ![q] = next]
      BY <1>4, <3>1 DEF Route
    <3> QED
      BY <3>2, <3>3
  <2>2. /\ next.pc \in {"snapshot", "use"} /\ next.proof = r /\ next.at = now
        /\ next.seen = {} /\ next.used = FALSE /\ request[q].used = FALSE
        /\ next.target = request[q].target /\ next.key = request[q].key
    BY <1>1 DEF Request, Timely, StoreStep
  <2>3. ASSUME Frame, request'[q] = next PROVE Advance(q)
    <3>1. Taken(q)'
      BY <1>1, <1>2, <2>2, <2>3 DEF Taken, InFlight, Mutation
    <3>2. Looked(q)'
      BY <1>1, <1>2, <1>4, <2>2, <2>3 DEF Looked, Granting
    <3>3. Timely(q)'
      BY <1>1, <1>2, <2>2, <2>3 DEF Timely
    <3>4. Backed(q)'
      BY <2>2, <2>3 DEF Backed
    <3>5. Kept(q) /\ Granted(q)
      BY <1>1, <2>2, <2>3 DEF Kept, Granted, Granting
    <3> QED
      BY <3>1, <3>2, <3>3, <3>4, <3>5 DEF Advance
  <2> HIDE DEF next
  <2> QED
    BY <1>1, <1>2, <2>1, <2>3, MoveStep
<1> QED
  BY <1>3, <1>4

\* PostgreSQL's statement takes its snapshot.
LEMMA SnapshotStep == ASSUME IndInv, NEW q \in Requests, Snapshot(q) PROVE IndInv'
<1> DEFINE r == request[q].proof
           next == [request[q] EXCEPT !.pc = "use", !.seen = Holders(q)]
<1>1. TypeOK /\ now \in Nat /\ Taken(q) /\ Timely(q) /\ Looked(q)
      /\ request[q] \in Request
      /\ request[q].pc = "snapshot" /\ r \in Results /\ token[r] # 0
  <2>1. TypeOK /\ Taken(q) /\ Timely(q) /\ Looked(q) /\ request[q].pc = "snapshot"
    BY DEF IndInv, RequestInv, Snapshot
  <2>2. now \in Nat /\ request[q] \in Request
    BY <2>1 DEF TypeOK
  <2>3. r \in Results /\ token[r] # 0
    BY <2>1 DEF Taken, InFlight
  <2> QED
    BY <2>1, <2>2, <2>3
<1>2. UNCHANGED <<now, config, release, requirement, token, entry>>
  BY DEF Snapshot
<1>3. Holders(q) \in SUBSET (Keys \union Requests)
  BY <1>1, HoldersType
<1>4. next \in Request /\ request' = [request EXCEPT ![q] = next]
  <2>1. request \in [Requests -> Request]
    BY <1>1 DEF TypeOK
  <2>2. next \in Request
    BY <1>1, <1>3 DEF Request, Steps
  <2>3. request' = [request EXCEPT ![q] = next]
    BY <2>1 DEF Snapshot
  <2> QED
    BY <2>2, <2>3
<1>5. /\ next.pc = "use" /\ next.proof = r /\ next.at = request[q].at
      /\ next.seen = Holders(q) /\ next.used = FALSE /\ request[q].used = FALSE
      /\ next.target = request[q].target /\ next.key = request[q].key
  BY <1>1 DEF Request, Timely
<1>6. ASSUME Frame, request'[q] = next PROVE Advance(q)
  <2>1. Taken(q)'
    BY <1>1, <1>2, <1>5, <1>6 DEF Taken, InFlight, Mutation
  <2>2. Looked(q)'
    BY <1>1, <1>2, <1>5, <1>6 DEF Looked, Granting
  <2>3. Timely(q)'
    BY <1>1, <1>2, <1>5, <1>6 DEF Timely
  <2>4. Backed(q)'
    <3>1. \A name : Row(q, name)' = Row(q, name)
      BY <1>2, <1>5, <1>6 DEF Row, Store, UseAcceptance, Mutation
    <3>2. Consulted \subseteq Names
      BY DEF Consulted, Names
    <3>3. \A op \in Holders(q) : \E name \in Names : Row(q, name).by = op
      BY <3>2 DEF Holders
    <3> QED
      BY <1>5, <1>6, <3>1, <3>3 DEF Backed
  <2>5. Kept(q) /\ Granted(q)
    BY <1>1, <1>5, <1>6 DEF Kept, Granted, Granting
  <2> QED
    BY <2>1, <2>2, <2>3, <2>4, <2>5 DEF Advance
<1> HIDE DEF next
<1> QED
  BY <1>1, <1>2, <1>4, <1>6, MoveStep

\* The requirement of a read is deleted.
LEMMA DeleteStep ==
    ASSUME IndInv, NEW q \in Requests, NEW answered \in BOOLEAN, Delete(q, answered)
    PROVE  IndInv'
<1> DEFINE r == request[q].proof
           next == IF answered THEN [request[q] EXCEPT !.pc = "admitted"]
                               ELSE Abandoned(q)
<1>1. TypeOK /\ now \in Nat /\ Taken(q) /\ Timely(q) /\ Looked(q) /\ TokenInv
      /\ request[q] \in Request
      /\ request[q].pc = "delete" /\ r \in Results /\ token[r] # 0
  <2>1. TypeOK /\ Taken(q) /\ Timely(q) /\ Looked(q) /\ TokenInv
        /\ request[q].pc = "delete"
    BY DEF IndInv, RequestInv, Delete
  <2>2. now \in Nat /\ request[q] \in Request
    BY <2>1 DEF TypeOK
  <2>3. r \in Results /\ token[r] # 0
    BY <2>1 DEF Taken, InFlight
  <2> QED
    BY <2>1, <2>2, <2>3
<1>2. UNCHANGED <<now, config, release, token, entry>>
  BY DEF Delete
<1>3. \/ requirement' = requirement
      \/ \E s \in {"expired", "deleted"} :
            /\ requirement[r].state = "stored"
            /\ requirement' = [requirement EXCEPT ![r].state = s]
  BY DEF Delete, Deletable
<1>4. next \in Request /\ request' = [request EXCEPT ![q] = next]
  <2>1. request \in [Requests -> Request] /\ "admitted" \in Steps
    BY <1>1 DEF TypeOK, Steps
  <2>2. next \in Request
    BY <1>1, <2>1, AbandonedType, GotoType
  <2>3. request' = [request EXCEPT ![q] = next]
    BY <2>1 DEF Delete, Goto, Abandon
  <2> QED
    BY <2>2, <2>3
<1>5. ASSUME Frame, request'[q] = next PROVE Advance(q)
  <2>1. CASE ~answered
    BY <1>2, <1>5, <2>1, StayAdvance
  <2>2. CASE answered
    <3>1. /\ request'[q].pc = "admitted" /\ request'[q].proof = r
          /\ request'[q].at = request[q].at /\ request'[q].used = request[q].used
          /\ request'[q].usedAt = request[q].usedAt
          /\ request'[q].target = request[q].target /\ request'[q].key = request[q].key
      BY <1>1, <1>5, <2>2 DEF Request
    <3>2. Taken(q)'
      BY <1>1, <1>2, <3>1 DEF Taken, InFlight, Mutation
    <3>3. requirement'[r].target = requirement[r].target
      BY <1>1, <1>5 DEF Frame, TokenInv
    <3>4. Looked(q)'
      BY <1>1, <1>2, <3>1, <3>3 DEF Looked, Granting
    <3>5. Timely(q)'
      BY <1>1, <1>2, <3>1 DEF Timely
    <3>6. Backed(q)' /\ Kept(q) /\ Granted(q)
      BY <3>1 DEF Backed, Kept, Granted, Granting
    <3> QED
      BY <3>2, <3>4, <3>5, <3>6 DEF Advance
  <2> QED
    BY <2>1, <2>2
<1> HIDE DEF next
<1> QED
  BY <1>1, <1>2, <1>3, <1>4, <1>5, MoveStep

-----------------------------------------------------------------------------
(* A result is used *)

\* What the request at the store knows of its result.
LEMMA UseFacts ==
    ASSUME IndInv, NEW q \in Requests, request[q].pc = "use"
    PROVE  LET r == request[q].proof
           IN /\ r \in Results /\ token[r] \in Nat /\ token[r] # 0
              /\ request[q] \in Request /\ request[q].used = FALSE
              /\ request[q].at \in Nat /\ now \in Nat
              /\ request[q].at < token[r] /\ request[q].at <= now
              /\ request[q].target = requirement[r].target
              /\ Operation(q) \in Keys \union Requests
              /\ StoreClock(q) \in Nat /\ StoreClock(q) <= now
              /\ Written \in Consulted /\ Consulted \subseteq Names
              /\ <<Store(q), Written, r>> \in Slots
<1> DEFINE r == request[q].proof
<1>1. TypeOK /\ Taken(q) /\ Timely(q) /\ Looked(q)
  BY DEF IndInv, RequestInv
<1>2. request[q] \in Request /\ now \in Nat /\ token \in [Results -> Nat]
  BY <1>1 DEF TypeOK
<1>3. r \in Results /\ token[r] # 0
  BY <1>1 DEF Taken, InFlight
<1>4. request[q].used = FALSE /\ request[q].at <= now /\ request[q].at \in Nat
  BY <1>1, <1>2 DEF Timely, Request
<1>5. request[q].at < token[r] /\ request[q].target = requirement[r].target
  BY <1>1 DEF Looked, Granting
<1>6. Operation(q) \in Keys \union Requests
  BY <1>2 DEF Operation, UseAcceptance, Request
<1>7. StoreClock(q) \in Nat /\ StoreClock(q) <= now
  BY <1>2, <1>4 DEF StoreClock
<1>8. Written \in Consulted /\ Consulted \subseteq Names
  BY DEF Written, Consulted, Names
<1>9. <<Store(q), Written, r>> \in Slots
  BY <1>3, <1>8 DEF Slots, Store, Stores
<1> QED
  BY <1>2, <1>3, <1>4, <1>5, <1>6, <1>7, <1>8, <1>9

\* A row stays, or is pruned after its result lapsed, or is the one written.
LEMMA UseEntry ==
    ASSUME IndInv, NEW q \in Requests, NEW answered \in BOOLEAN, Use(q, answered),
           NEW slot \in Slots
    PROVE  LET r == request[q].proof
               row == [by |-> Operation(q), expiresAt |-> token[r]]
           IN \/ entry'[slot] = entry[slot]
              \/ /\ config.results = "memory" /\ entry'[slot] = NoEntry
                 /\ slot[1] = Store(q) /\ entry[slot].expiresAt <= request[q].at
              \/ /\ Blocking(q) = {} /\ slot = <<Store(q), Written, r>>
                 /\ entry'[slot] = row
<1> DEFINE r == request[q].proof
           row == [by |-> Operation(q), expiresAt |-> token[r]]
           w == <<Store(q), Written, r>>
<1>1. entry' = IF Blocking(q) # {} THEN Pruned(q) ELSE [Pruned(q) EXCEPT ![w] = row]
  BY DEF Use
<1>2. Pruned(q) = [s \in Slots |->
          IF config.results = "memory" /\ s[1] = Store(q)
             /\ entry[s].expiresAt <= request[q].at
            THEN NoEntry ELSE entry[s]]
  BY DEF Pruned, Slots
<1>3. \/ Pruned(q)[slot] = entry[slot]
      \/ /\ config.results = "memory" /\ Pruned(q)[slot] = NoEntry
         /\ slot[1] = Store(q) /\ entry[slot].expiresAt <= request[q].at
  BY <1>2
<1>4. CASE Blocking(q) # {} \/ slot # w
  <2>1. entry'[slot] = Pruned(q)[slot]
    BY <1>1, <1>2, <1>4
  <2> QED
    BY <1>3, <2>1
<1>5. CASE Blocking(q) = {} /\ slot = w
  <2>1. entry'[slot] = row
    BY <1>1, <1>2, <1>5
  <2> QED
    BY <1>5, <2>1
<1> QED
  BY <1>4, <1>5

\* A row that is there and does not block has lapsed, outside PostgreSQL.
LEMMA NotBlocking ==
    ASSUME IndInv, NEW q \in Requests, request[q].pc = "use", Blocking(q) = {},
           NEW name \in Names, Present(<<Store(q), name, request[q].proof>>)
    PROVE  config.results # "postgres" /\ token[request[q].proof] <= now
<1> DEFINE r == request[q].proof
           slot == <<Store(q), name, r>>
<1>1. /\ r \in Results /\ token[r] \in Nat /\ now \in Nat
      /\ request[q].at \in Nat /\ request[q].at < token[r]
      /\ StoreClock(q) \in Nat /\ StoreClock(q) <= now
  BY UseFacts
<1>2. slot \in Stores \X Names \X Results
  BY <1>1 DEF Store, Stores
<1>3. entry[slot].expiresAt = token[r] /\ (name = "scoped" => Scoped)
  BY <1>2 DEF IndInv, EntryInv
<1>4. name \in Consulted
  BY <1>3 DEF Consulted, Names
<1>5. ~Live(q, name) /\ ~(config.results = "postgres" /\ name = Written)
  BY <1>4 DEF Blocking, Present, Row
<1>6. ~(StoreClock(q) < token[r])
  BY <1>3, <1>5 DEF Live, Present, Row
<1>7. token[r] <= now
  BY <1>1, <1>6
<1>8. config.results # "postgres"
  BY <1>1, <1>3, <1>4, <1>5, <1>6 DEF StoreClock, Written, Consulted
<1> QED
  BY <1>7, <1>8

\* The same operation has its row already, and keeps it.
LEMMA SameRow ==
    ASSUME IndInv, NEW q \in Requests, request[q].pc = "use", SameOperation(q)
    PROVE  \E name \in Names :
              /\ Row(q, name).by = Operation(q)
              /\ config.results # "postgres" => Live(q, name)
<1>1. Consulted \subseteq Names
  BY DEF Consulted, Names
<1>2. CASE config.results = "postgres"
  <2>1. Operation(q) \in request[q].seen /\ Backed(q)
    BY <1>2 DEF SameOperation, IndInv, SeenInv
  <2> QED
    BY <1>2, <2>1 DEF Backed
<1>3. CASE config.results # "postgres"
  BY <1>1, <1>3 DEF SameOperation, Holders
<1> QED
  BY <1>2, <1>3

\* The rows that Use leaves are well-typed.
LEMMA UseType ==
    ASSUME IndInv, NEW q \in Requests, NEW answered \in BOOLEAN, Use(q, answered)
    PROVE  entry' \in [Stores \X Names \X Results -> Entry]
<1> DEFINE r == request[q].proof
           row == [by |-> Operation(q), expiresAt |-> token[r]]
<1>1. TypeOK /\ Operation(q) \in Keys \union Requests /\ token[r] \in Nat
  BY UseFacts DEF IndInv, Use
<1>2. row \in Entry /\ NoEntry \in Entry
  BY <1>1 DEF Entry, NoEntry
<1>3. entry \in [Stores \X Names \X Results -> Entry]
  BY <1>1 DEF TypeOK
<1>4. Pruned(q) \in [Stores \X Names \X Results -> Entry]
  BY <1>2, <1>3 DEF Pruned
<1> QED
  BY <1>2, <1>4 DEF Use

\* Two uses of one result by different operations, seen when the second is
\* granted: the first has no row left that the second had to find.
LEMMA UseTwice ==
    ASSUME IndInv, NEW q \in Requests, request[q].pc = "use",
           Blocking(q) = {} \/ SameOperation(q), ~Volatile,
           NEW p \in Requests, request[p].used,
           request[p].proof = request[q].proof, Operation(p) # Operation(q)
    PROVE  \/ config.results # "postgres" /\ token[request[q].proof] <= now
           \/ /\ config.profile = "dev" /\ ~config.requireKey
              /\ Store(p) # Store(q)
<1> DEFINE r == request[q].proof
<1>1. /\ r \in Results /\ request[q].target = requirement[r].target
      /\ request[q] \in Request /\ Operation(q) \in Keys \union Requests
  BY UseFacts
<1>2. TypeOK /\ EntryInv /\ Taken(q) /\ Taken(p) /\ Looked(p)
  BY DEF IndInv, RequestInv
<1>3. request[p].target = request[q].target /\ request[p] \in Request
  BY <1>1, <1>2 DEF Looked, TypeOK
<1>4. Operation(p) \in Keys \union Requests
  BY <1>3 DEF Operation, UseAcceptance, Request
<1>5. CASE Store(p) # Store(q)
  <2>1. Mutation(request[q].target) /\ (request[p].key = None \/ request[q].key = None)
    BY <1>3, <1>5 DEF Store, UseAcceptance
  <2>2. config.profile = "dev" /\ ~config.requireKey
    BY <1>2, <1>3, <2>1 DEF Taken, InFlight
  <2> QED
    BY <1>5, <2>2
<1>6. CASE Store(p) = Store(q)
  <2>1. Remembered(p) \/ Lapsed(p) \/ Stopped(p)
    BY DEF IndInv, GrantInv
  <2>2. ~Stopped(p)
    BY DEF Stopped, Granting
  <2>3. CASE Lapsed(p)
    BY <2>3 DEF Lapsed
  <2>4. CASE Remembered(p)
    <3>1. PICK name \in Names : Row(q, name).by = Operation(p)
      BY <1>6, <2>4 DEF Remembered, Row
    <3>2. Present(<<Store(q), name, r>>)
      BY <1>4, <3>1, ResourceAssumption DEF Present, Row
    <3>3. CASE Blocking(q) = {}
      BY <3>2, <3>3, NotBlocking
    <3>4. CASE SameOperation(q)
      <4>1. PICK other \in Names : Row(q, other).by = Operation(q)
        BY <3>4, SameRow
      <4>2. Present(<<Store(q), other, r>>) /\ other # name
        BY <1>1, <3>1, <4>1, ResourceAssumption DEF Present, Row
      <4>3. /\ Present(<<Store(q), "plain", r>>)
            /\ Present(<<Store(q), "scoped", r>>)
        BY <3>2, <4>2 DEF Names
      <4>4. Store(q) \in Stores
        BY DEF Store, Stores
      <4> QED
        BY <1>1, <1>2, <4>3, <4>4 DEF EntryInv
    <3> QED
      BY <3>3, <3>4
  <2> QED
    BY <2>1, <2>2, <2>3, <2>4
<1> QED
  BY <1>5, <1>6

\* What the answer does to the request.
LEMMA UseRequest ==
    ASSUME IndInv, NEW q \in Requests, NEW answered \in BOOLEAN, Use(q, answered)
    PROVE  /\ request' \in [Requests -> Request]
           /\ \A p \in Requests : p # q => request'[p] = request[p]
           /\ request'[q].pc \in {"none", "delete", "admitted", "refused"}
           /\ request'[q].at <= now
           /\ request'[q].used \/ request'[q].pc \in {"delete", "admitted"} =>
                /\ Blocking(q) = {} \/ SameOperation(q)
                /\ request'[q].used /\ request'[q].usedAt = now
                /\ request'[q].pc \in {"delete", "admitted", "refused"}
                /\ request'[q].proof = request[q].proof
                /\ request'[q].target = request[q].target
                /\ request'[q].key = request[q].key
<1> DEFINE granted == Blocking(q) = {} \/ SameOperation(q)
           step == IF answered
                     THEN IF Mutation(request[q].target) THEN "admitted" ELSE "delete"
                     ELSE "refused"
           why == IF answered THEN "none" ELSE "failed"
           used == [request[q] EXCEPT !.pc = step, !.why = why, !.at = 0, !.seen = {},
                                      !.used = TRUE, !.usedAt = now]
           spent == [request[q] EXCEPT !.pc = "refused", !.why = "spent", !.seen = {}]
           next == IF granted THEN used ELSE IF answered THEN spent ELSE Unsent
<1>1. request \in [Requests -> Request] /\ request[q] \in Request /\ now \in Nat
      /\ request[q].at <= now /\ request[q].at \in Nat /\ request[q].used = FALSE
  BY UseFacts DEF IndInv, TypeOK, Use
<1>2. request' = [request EXCEPT ![q] = next]
  BY <1>1 DEF Use
<1>3. step \in {"admitted", "delete", "refused"} /\ why \in Reasons
  BY DEF Reasons
<1> HIDE DEF step, why
<1>4. /\ used \in Request /\ used.pc = step /\ used.at = 0 /\ used.used = TRUE
      /\ used.usedAt = now /\ used.proof = request[q].proof
      /\ used.target = request[q].target /\ used.key = request[q].key
  BY <1>1, <1>3 DEF Request, Steps
<1>5. /\ spent \in Request /\ spent.pc = "refused" /\ spent.used = FALSE
      /\ spent.at = request[q].at
  BY <1>1 DEF Request, Steps, Reasons
<1>6. /\ Unsent \in Request /\ Unsent.pc = "none" /\ Unsent.used = FALSE
      /\ Unsent.at = 0
  <2>1. Unsent \in Request
    BY AbandonedType DEF IndInv
  <2> QED
    BY <2>1 DEF Unsent
<1> HIDE DEF used, spent, granted
<1>7. next \in Request /\ request'[q] = next
  BY <1>1, <1>2, <1>4, <1>5, <1>6
<1>8. request' \in [Requests -> Request]
      /\ \A p \in Requests : p # q => request'[p] = request[p]
  BY <1>1, <1>2, <1>7
<1>9. CASE granted
  BY <1>1, <1>3, <1>4, <1>7, <1>8, <1>9 DEF granted
<1>10. CASE ~granted
  BY <1>1, <1>5, <1>6, <1>7, <1>8, <1>10
<1> QED
  BY <1>9, <1>10

\* Use leaves every request with what it knows of its result.
LEMMA UseRequestInv ==
    ASSUME IndInv, NEW q \in Requests, NEW answered \in BOOLEAN, Use(q, answered)
    PROVE  RequestInv'
<1>1. UNCHANGED <<now, config, release, requirement, token>> /\ request[q].pc = "use"
  BY DEF Use
<1>2. Taken(q) /\ Looked(q) /\ Timely(q) /\ now \in Nat
  BY DEF IndInv, RequestInv, TypeOK
<1>3. ASSUME NEW p \in Requests, p # q PROVE (Taken(p) /\ Looked(p) /\ Timely(p))'
  <2>1. request'[p] = request[p]
    BY <1>3, UseRequest
  <2>2. Taken(p) /\ Looked(p) /\ Timely(p)
    BY DEF IndInv, RequestInv
  <2>3. Taken(p)'
    BY <1>1, <2>1, <2>2 DEF Taken, Mutation
  <2>4. Looked(p)' /\ Timely(p)'
    BY <1>1, <2>1, <2>2 DEF Looked, Timely
  <2> QED
    BY <2>3, <2>4
<1>4. Taken(q)'
  <2>1. SUFFICES ASSUME (\/ request[q].pc \in InFlight \union {"admitted"}
                         \/ request[q].used)'
                 PROVE  /\ request'[q].proof = request[q].proof
                        /\ request'[q].target = request[q].target
                        /\ request'[q].key = request[q].key
    BY <1>1, <1>2 DEF Taken, Mutation, InFlight
  <2> QED
    BY <2>1, UseRequest DEF InFlight
<1>5. Looked(q)'
  <2>1. request'[q].pc \notin Granting
    BY UseRequest DEF Granting
  <2>2. request'[q].used => /\ request'[q].proof = request[q].proof
                            /\ request'[q].target = request[q].target
    BY UseRequest
  <2> QED
    BY <1>1, <1>2, <2>1, <2>2 DEF Looked, Granting
<1>6. Timely(q)'
  <2>1. request'[q].at <= now /\ request'[q].pc \notin {"lookup", "route", "snapshot"}
    BY UseRequest
  <2>2. request'[q].used => request'[q].usedAt = now
                            /\ request'[q].pc \in {"delete", "admitted", "refused"}
    BY UseRequest
  <2> QED
    BY <1>1, <1>2, <2>1, <2>2 DEF Timely
<1> QED
  BY <1>3, <1>4, <1>5, <1>6 DEF RequestInv

\* Use writes a second row for a result only after the first lapsed.
LEMMA UseEntryInv ==
    ASSUME IndInv, NEW q \in Requests, NEW answered \in BOOLEAN, Use(q, answered)
    PROVE  EntryInv'
<1> DEFINE r == request[q].proof
           w == <<Store(q), Written, r>>
<1>1. UNCHANGED <<now, config, release, requirement, token>> /\ request[q].pc = "use"
  BY DEF Use
<1>2. Scoped' = Scoped /\ EntryInv
  BY <1>1 DEF Scoped, IndInv
<1>3. r \in Results /\ token[r] # 0
  BY <1>1, UseFacts
<1>4. ASSUME NEW slot \in Slots, Present(slot)'
      PROVE  \/ Present(slot) /\ entry'[slot] = entry[slot]
             \/ /\ slot = w /\ entry'[slot].expiresAt = token[r] /\ Blocking(q) = {}
  <2>1. entry'[slot] # NoEntry
    BY <1>4 DEF Present, NoEntry
  <2>2. entry'[slot] = entry[slot] => Present(slot)
    BY <1>4 DEF Present
  <2>3. \/ entry'[slot] = entry[slot]
        \/ /\ Blocking(q) = {} /\ slot = w
           /\ entry'[slot] = [by |-> Operation(q), expiresAt |-> token[r]]
    BY <2>1, UseEntry
  <2> QED
    BY <2>2, <2>3
<1>5. ASSUME NEW slot \in Slots, Present(slot)'
      PROVE  /\ token'[slot[3]] # 0 /\ entry'[slot].expiresAt = token'[slot[3]]
             /\ slot[2] = "scoped" => Scoped'
  <2>1. CASE Present(slot) /\ entry'[slot] = entry[slot]
    BY <1>1, <1>2, <2>1 DEF EntryInv, Slots
  <2>2. CASE slot = w /\ entry'[slot].expiresAt = token[r] /\ Blocking(q) = {}
    BY <1>1, <1>2, <1>3, <2>2 DEF Written
  <2> QED
    BY <1>4, <1>5, <2>1, <2>2
<1>6. ASSUME NEW s \in Stores, NEW p \in Results, Present(<<s, "plain", p>>)',
             Present(<<s, "scoped", p>>)'
      PROVE  config'.results # "postgres" /\ token'[p] <= now'
  <2> DEFINE plain == <<s, "plain", p>>
             scoped == <<s, "scoped", p>>
  <2>1. plain \in Slots /\ scoped \in Slots
    BY DEF Slots, Names
  <2>2. CASE Present(plain) /\ Present(scoped)
    BY <1>1, <1>2, <2>2 DEF EntryInv
  <2>3. CASE ~Present(plain)
    <3>1. plain = w
      BY <1>4, <1>6, <2>1, <2>3
    <3>2. ~Scoped
      BY <3>1 DEF Written
    <3>3. Scoped'
      BY <1>5, <1>6, <2>1
    <3> QED
      BY <1>2, <3>2, <3>3
  <2>4. CASE Present(plain) /\ ~Present(scoped)
    <3>1. scoped = w /\ Blocking(q) = {}
      BY <1>4, <1>6, <2>1, <2>4
    <3>2. s = Store(q) /\ p = r
      BY <3>1
    <3>3. config.results # "postgres" /\ token[r] <= now
      BY <1>1, <2>4, <3>1, <3>2, NotBlocking DEF Names
    <3> QED
      BY <1>1, <3>2, <3>3
  <2> QED
    BY <2>2, <2>3, <2>4
<1> QED
  BY <1>5, <1>6 DEF EntryInv, Slots

\* Use replaces no row that a snapshot showed on PostgreSQL.
LEMMA UseSeenInv ==
    ASSUME IndInv, NEW q \in Requests, NEW answered \in BOOLEAN, Use(q, answered)
    PROVE  SeenInv'
<1> SUFFICES ASSUME NEW p \in Requests PROVE Backed(p)'
  BY DEF SeenInv
<1>1. config' = config /\ request[q].pc = "use"
  BY DEF Use
<1>2. CASE p = q
  BY <1>2, UseRequest DEF Backed
<1>3. CASE p # q
  <2>1. request'[p] = request[p]
    BY <1>3, UseRequest
  <2>2. SUFFICES ASSUME config.results = "postgres", request[p].pc = "use",
                        NEW op \in request[p].seen
                 PROVE  \E name \in Names : Row(p, name)'.by = op
    BY <1>1, <2>1 DEF Backed
  <2>3. PICK name \in Names : Row(p, name).by = op
    BY <2>2 DEF IndInv, SeenInv, Backed
  <2> DEFINE slot == <<Store(p), name, request[p].proof>>
  <2>4. slot \in Slots /\ request[p] \in Request
    <3>1. Taken(p) /\ request[p] \in Request
      BY DEF IndInv, RequestInv, TypeOK
    <3> QED
      BY <2>2, <3>1 DEF Taken, InFlight, Slots, Store, Stores
  <2>5. entry[slot].by # None
    BY <2>2, <2>3, <2>4, ResourceAssumption DEF Row, Request
  <2>6. entry'[slot] = entry[slot]
    <3>1. ASSUME Blocking(q) = {}, slot = <<Store(q), Written, request[q].proof>>
          PROVE  FALSE
      <4>1. Present(<<Store(q), Written, request[q].proof>>) /\ Written \in Names
        BY <2>5, <3>1 DEF Present, Written, Names
      <4> QED
        BY <1>1, <2>2, <3>1, <4>1, NotBlocking
    <3> QED
      BY <2>2, <2>4, <3>1, UseEntry
  <2>7. Row(p, name)' = Row(p, name)
    BY <1>1, <2>1, <2>6 DEF Row, Store, UseAcceptance, Mutation
  <2> QED
    BY <2>3, <2>7
<1> QED
  BY <1>2, <1>3

\* Use leaves a row for its grant, and for every other grant that has not
\* lapsed.
LEMMA UseGrantInv ==
    ASSUME IndInv, NEW q \in Requests, NEW answered \in BOOLEAN, Use(q, answered)
    PROVE  GrantInv'
<1>1. UNCHANGED <<now, config, release, requirement, token>> /\ request[q].pc = "use"
  BY DEF Use
<1>2. now \in Nat /\ request[q].at \in Nat /\ request[q].at <= now
      /\ <<Store(q), Written, request[q].proof>> \in Slots /\ Written \in Names
  BY <1>1, UseFacts
<1> SUFFICES ASSUME ~Volatile, NEW p \in Requests, request'[p].used
             PROVE  (Remembered(p) \/ Lapsed(p) \/ Stopped(p))'
  BY <1>1 DEF GrantInv, Volatile
<1>3. CASE p = q
  <2>1. /\ request'[q].proof = request[q].proof /\ Store(q)' = Store(q)
        /\ Operation(q)' = Operation(q)
    <3>1. /\ request'[q].proof = request[q].proof
          /\ request'[q].target = request[q].target /\ request'[q].key = request[q].key
      BY <1>3, UseRequest
    <3> QED
      BY <1>1, <3>1 DEF Store, Operation, UseAcceptance, Mutation
  <2>2. Blocking(q) = {} \/ SameOperation(q)
    BY <1>3, UseRequest
  <2>3. CASE Blocking(q) = {}
    <3> DEFINE w == <<Store(q), Written, request[q].proof>>
               row == [by |-> Operation(q), expiresAt |-> token[request[q].proof]]
    <3>1. entry' = [Pruned(q) EXCEPT ![w] = row]
      BY <2>3 DEF Use
    <3>2. DOMAIN Pruned(q) = Slots
      BY DEF Pruned, Slots
    <3>3. entry'[w] = row
      BY <1>2, <3>1, <3>2
    <3>4. Row(q, Written)'.by = Operation(q)'
      <4>1. Written' = Written
        BY <1>1 DEF Written, Scoped
      <4> QED
        BY <2>1, <3>3, <4>1 DEF Row
    <3>5. Remembered(q)'
      <4>1. Written' \in Names
        BY DEF Written, Names
      <4> QED
        BY <3>4, <4>1 DEF Remembered
    <3> QED
      BY <1>3, <3>5
  <2>4. CASE Blocking(q) # {} /\ SameOperation(q)
    <3>1. PICK name \in Names : /\ Row(q, name).by = Operation(q)
                                /\ config.results # "postgres" => Live(q, name)
      BY <1>1, <2>4, SameRow
    <3> DEFINE slot == <<Store(q), name, request[q].proof>>
    <3>2. slot \in Slots
      BY <1>2 DEF Slots
    <3>3. entry'[slot] = entry[slot]
      <4>1. ASSUME config.results = "memory"
            PROVE  ~(entry[slot].expiresAt <= request[q].at)
        <5>1. Live(q, name) /\ StoreClock(q) = request[q].at
          BY <3>1, <4>1 DEF StoreClock
        <5>2. entry[slot] \in Entry
          BY <3>2 DEF IndInv, TypeOK, Slots
        <5> QED
          BY <1>2, <5>1, <5>2 DEF Live, Row, Entry
      <4> QED
        BY <2>4, <3>2, <4>1, UseEntry
    <3>4. Row(q, name)'.by = Operation(q)'
      BY <2>1, <3>1, <3>3 DEF Row
    <3> QED
      BY <1>3, <3>4 DEF Remembered
  <2> QED
    BY <2>2, <2>3, <2>4
<1>4. CASE p # q
  <2>1. request'[p] = request[p] /\ request[p].used
    BY <1>4, UseRequest
  <2>2. Store(p)' = Store(p) /\ Operation(p)' = Operation(p)
    BY <1>1, <2>1 DEF Store, Operation, UseAcceptance, Mutation
  <2>3. Taken(p) /\ request[p] \in Request /\ EntryInv /\ token \in [Results -> Nat]
    BY DEF IndInv, RequestInv, TypeOK
  <2>4. request[p].proof \in Results /\ token[request[p].proof] \in Nat
    BY <2>1, <2>3 DEF Taken
  <2>5. CASE Lapsed(p)
    <3>1. Lapsed(p)'
      BY <1>1, <2>1, <2>5 DEF Lapsed
    <3> QED
      BY <3>1
  <2>6. CASE Stopped(p)
    <3>1. request'[q].pc \notin Granting
      BY UseRequest DEF Granting
    <3>2. \A other \in Requests : other # q => request'[other] = request[other]
      BY UseRequest
    <3>3. Stopped(p)'
      BY <1>1, <2>1, <2>6, <3>1, <3>2 DEF Stopped
    <3> QED
      BY <3>3
  <2>7. CASE Remembered(p)
    <3>1. PICK name \in Names : Row(p, name).by = Operation(p)
      BY <2>7 DEF Remembered
    <3> DEFINE slot == <<Store(p), name, request[p].proof>>
    <3>2. slot \in Slots
      BY <2>4 DEF Slots, Store, Stores
    <3>3. Operation(p) # None
      BY <2>3, ResourceAssumption DEF Operation, UseAcceptance, Request
    <3>4. Present(slot)
      BY <3>1, <3>3 DEF Present, Row
    <3>5. entry[slot].expiresAt = token[request[p].proof]
      BY <2>3, <3>2, <3>4 DEF EntryInv, Slots
    <3>6. CASE entry'[slot] = entry[slot]
      <4>1. Remembered(p)'
        BY <2>1, <2>2, <3>1, <3>6 DEF Remembered, Row
      <4> QED
        BY <4>1
    <3>7. CASE config.results = "memory" /\ entry[slot].expiresAt <= request[q].at
      <4>1. Lapsed(p)'
        BY <1>1, <1>2, <2>1, <2>4, <3>5, <3>7 DEF Lapsed
      <4> QED
        BY <4>1
    <3>8. CASE Blocking(q) = {} /\ slot = <<Store(q), Written, request[q].proof>>
      <4>1. config.results # "postgres" /\ token[request[q].proof] <= now
        BY <1>1, <1>2, <3>4, <3>8, NotBlocking
      <4>2. request[q].proof = request[p].proof
        BY <3>8
      <4>3. Lapsed(p)'
        BY <1>1, <2>1, <4>1, <4>2 DEF Lapsed
      <4> QED
        BY <4>3
    <3> QED
      BY <3>2, <3>6, <3>7, <3>8, UseEntry
  <2> QED
    BY <2>1, <2>5, <2>6, <2>7 DEF IndInv, GrantInv
<1> QED
  BY <1>3, <1>4

\* Use brings no second operation to a result.
LEMMA UseOneOperation ==
    ASSUME IndInv, NEW q \in Requests, NEW answered \in BOOLEAN, Use(q, answered)
    PROVE  OneOperationPerResult'
<1>1. UNCHANGED <<now, config, release, requirement, token>> /\ request[q].pc = "use"
  BY DEF Use
<1>2. ASSUME NEW p \in Requests, request'[p].used
      PROVE  /\ Store(p)' = Store(p) /\ Operation(p)' = Operation(p)
             /\ request'[p].proof = request[p].proof
             /\ p # q => request[p].used /\ request'[p].usedAt = request[p].usedAt
             /\ p = q => /\ Blocking(q) = {} \/ SameOperation(q)
                         /\ request'[q].usedAt = now
  <2>1. CASE p = q
    <3>1. /\ request'[q].proof = request[q].proof
          /\ request'[q].target = request[q].target /\ request'[q].key = request[q].key
          /\ request'[q].usedAt = now
          /\ Blocking(q) = {} \/ SameOperation(q)
      BY <1>2, <2>1, UseRequest
    <3>2. Store(q)' = Store(q) /\ Operation(q)' = Operation(q)
      BY <1>1, <3>1 DEF Store, Operation, UseAcceptance, Mutation
    <3> QED
      BY <2>1, <3>1, <3>2
  <2>2. CASE p # q
    <3>1. request'[p] = request[p]
      BY <2>2, UseRequest
    <3> QED
      BY <1>1, <1>2, <2>2, <3>1 DEF Store, Operation, UseAcceptance, Mutation
  <2> QED
    BY <2>1, <2>2
<1> SUFFICES ASSUME NEW p \in Requests, NEW o \in Requests, ~Volatile,
                    request'[p].used, request'[o].used,
                    request'[p].proof = request'[o].proof,
                    Operation(p)' # Operation(o)', Before(p, o)'
             PROVE  \/ config.results # "postgres"
                       /\ token[request[p].proof] <= request'[o].usedAt
                    \/ /\ config.profile = "dev" /\ ~config.requireKey
                       /\ Store(p) # Store(o)
  <2>1. Volatile' = Volatile
    BY <1>1 DEF Volatile
  <2>2. ASSUME NEW p \in Requests, request'[p].used
        PROVE  Store(p)' = Store(p) /\ request'[p].proof = request[p].proof
    BY <1>2, <2>2
  <2> QED
    BY <1>1, <2>1, <2>2 DEF OneOperationPerResult
<1>3. Operation(p) # Operation(o) /\ request[p].proof = request[o].proof /\ p # o
  <2>1. Operation(p)' = Operation(p) /\ request'[p].proof = request[p].proof
    BY <1>2
  <2>2. Operation(o)' = Operation(o) /\ request'[o].proof = request[o].proof
    BY <1>2
  <2> QED
    BY <2>1, <2>2
<1>4. now \in Nat /\ \A x \in Requests : request[x].used => request[x].usedAt <= now
      /\ request[x].usedAt \in Nat
  BY DEF IndInv, TypeOK, RequestInv, Timely, Request
<1>5. CASE o = q
  <2>1. /\ request[p].used /\ request'[q].usedAt = now
        /\ Blocking(q) = {} \/ SameOperation(q)
    BY <1>2, <1>3, <1>5
  <2> QED
    BY <1>1, <1>3, <1>5, <2>1, UseTwice
<1>6. CASE p = q
  <2>1. /\ request[o].used /\ request'[o].usedAt = request[o].usedAt
        /\ Blocking(q) = {} \/ SameOperation(q)
        /\ request'[q].usedAt = now
    BY <1>2, <1>3, <1>6
  <2>2. now <= request[o].usedAt
    BY <1>6, <2>1 DEF Before
  <2>3. request[o].usedAt = now
    BY <1>4, <2>1, <2>2
  <2>4. \/ config.results # "postgres" /\ token[request[q].proof] <= now
        \/ config.profile = "dev" /\ ~config.requireKey /\ Store(o) # Store(q)
    BY <1>1, <1>3, <1>6, <2>1, UseTwice
  <2> QED
    BY <1>6, <2>1, <2>3, <2>4
<1>7. CASE p # q /\ o # q
  <2>1. /\ request[p].used /\ request'[p].usedAt = request[p].usedAt
        /\ request[o].used /\ request'[o].usedAt = request[o].usedAt
    BY <1>2, <1>7
  <2>2. Before(p, o)
    BY <2>1 DEF Before
  <2> QED
    BY <1>3, <2>1, <2>2 DEF IndInv, OneOperationPerResult
<1> QED
  BY <1>5, <1>6, <1>7

\* A result is consumed or accepted.
LEMMA UseStep ==
    ASSUME IndInv, NEW q \in Requests, NEW answered \in BOOLEAN, Use(q, answered)
    PROVE  IndInv'
<1>1. TypeOK'
  <2>1. entry' \in [Stores \X Names \X Results -> Entry]
    BY UseType
  <2>2. request' \in [Requests -> Request]
    BY UseRequest
  <2> QED
    BY <2>1, <2>2 DEF IndInv, TypeOK, Use
<1>2. TokenInv'
  BY DEF IndInv, TokenInv, Use
<1> QED
  BY <1>1, <1>2, UseRequestInv, UseEntryInv, UseSeenInv, UseGrantInv, UseOneOperation
     DEF IndInv

-----------------------------------------------------------------------------
(* The theorems *)

\* Nothing is stored and nothing was used at the start.
LEMMA InitInv == Init => IndInv
<1> SUFFICES ASSUME Init PROVE IndInv
  OBVIOUS
<1>1. /\ NoEntry \in Entry /\ Unsent \in Request
      /\ Unsent.pc = "none" /\ Unsent.used = FALSE /\ Unsent.at = 0
      /\ Unsent.seen = {} /\ NoEntry.by = None
  BY DEF NoEntry, Entry, Unsent, Request, Steps, Reasons
<1>2. /\ now = 0 /\ config \in Configs /\ release \in {"old", "new"}
      /\ token = [r \in Results |-> 0]
      /\ entry = [s \in Stores \X Names \X Results |-> NoEntry]
      /\ request = [q \in Requests |-> Unsent]
  BY DEF Init
<1>3. requirement \in [Results -> Requirement]
  BY DEF Init, Requirement
<1>4. TypeOK
  BY <1>1, <1>2, <1>3 DEF TypeOK
<1>5. TokenInv
  BY <1>2 DEF TokenInv
<1>6. \A q \in Requests : /\ request[q].pc = "none" /\ request[q].used = FALSE
                          /\ request[q].at = 0 /\ request[q].seen = {}
  BY <1>1, <1>2
<1>7. RequestInv
  <2> SUFFICES ASSUME NEW q \in Requests PROVE Taken(q) /\ Looked(q) /\ Timely(q)
    BY DEF RequestInv
  <2>1. request[q].pc = "none" /\ request[q].used = FALSE /\ request[q].at = 0
        /\ request[q].seen = {}
    BY <1>6
  <2>2. Taken(q) /\ Looked(q)
    BY <2>1 DEF Taken, Looked, InFlight, Granting
  <2>3. Timely(q)
    BY <1>2, <2>1 DEF Timely
  <2> QED
    BY <2>2, <2>3
<1>8. EntryInv
  <2>1. \A slot \in Stores \X Names \X Results : ~Present(slot)
    BY <1>1, <1>2 DEF Present
  <2>2. \A s \in Stores, r \in Results : <<s, "plain", r>> \in Stores \X Names \X Results
    BY DEF Names
  <2> QED
    BY <2>1, <2>2 DEF EntryInv
<1>9. SeenInv /\ GrantInv /\ OneOperationPerResult
  BY <1>6 DEF SeenInv, Backed, GrantInv, OneOperationPerResult
<1> QED
  BY <1>4, <1>5, <1>7, <1>8, <1>9 DEF IndInv

\* Every step preserves the invariant.
LEMMA NextInv == IndInv /\ [Next]_vars => IndInv'
<1> SUFFICES ASSUME IndInv, [Next]_vars PROVE IndInv'
  OBVIOUS
<1>1. ASSUME NEW r \in Results, NEW target \in Targets, NEW ttl \in TTLs,
             Challenge(r, target, ttl)
      PROVE  IndInv'
  BY <1>1, ChallengeStep
<1>2. ASSUME NEW r \in Results, Sign(r) PROVE IndInv'
  BY <1>2, SignStep
<1>3. ASSUME NEW q \in Requests, Step(q) PROVE IndInv'
  <2>1. ASSUME NEW r \in Results, NEW target \in Targets,
               NEW key \in Keys \union {None}, Receive(q, r, target, key)
        PROVE  IndInv'
    BY <2>1, ReceiveStep
  <2>2. CASE Lookup(q)
    BY <2>2, LookupStep
  <2>3. CASE Route(q)
    BY <2>3, RouteStep
  <2>4. CASE Snapshot(q)
    BY <2>4, SnapshotStep
  <2>5. ASSUME NEW answered \in BOOLEAN, Use(q, answered) PROVE IndInv'
    BY <2>5, UseStep
  <2>6. ASSUME NEW answered \in BOOLEAN, Delete(q, answered) PROVE IndInv'
    BY <2>6, DeleteStep
  <2>7. CASE Fail(q)
    BY <2>7, FailStep
  <2> QED
    BY <1>3, <2>1, <2>2, <2>3, <2>4, <2>5, <2>6, <2>7 DEF Step
<1>4. CASE RestartServer
  BY <1>4, RestartServerStep
<1>5. CASE RestartVerifier
  BY <1>5, StopVerifierStep DEF RestartVerifier
<1>6. CASE Upgrade
  BY <1>6, StopVerifierStep DEF Upgrade
<1>7. CASE Tick
  BY <1>7, TickStep
<1>8. CASE UNCHANGED vars
  <2>1. now \in Nat /\ TypeOK /\ TokenInv
    BY DEF IndInv, TypeOK
  <2>2. Frame
    BY <1>8, <2>1 DEF Frame, vars
  <2>3. TypeOK' /\ TokenInv'
    BY <1>8, <2>1 DEF TypeOK, TokenInv, vars
  <2> QED
    BY <1>8, <2>2, <2>3, PassiveStep DEF vars
<1> QED
  BY <1>1, <1>2, <1>3, <1>4, <1>5, <1>6, <1>7, <1>8 DEF Next

\* The requests, the requirements and the rows of the result stores agree in
\* every reachable state, for any number of requests, results and keys, any
\* lifetimes and any of the deployments that assertProtectOptions accepts.
THEOREM Invariant == Spec => []IndInv
<1> QED
  BY InitInv, NextInv, PTL DEF Spec

\* Use-once, with the three exceptions that OneOperationPerResult names: no
\* two operations use one result on PostgreSQL, whatever fails, restarts or is
\* upgraded in between.
THEOREM UseOnce == Spec => []OneOperationPerResult
<1>1. IndInv => OneOperationPerResult
  BY DEF IndInv
<1> QED
  BY <1>1, Invariant, PTL
=============================================================================
