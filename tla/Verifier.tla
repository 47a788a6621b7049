------------------------------ MODULE Verifier ------------------------------
(***************************************************************************)
(* The x424 verifier: the X424Service that turns a native proof into a     *)
(* signed result (src/src/service.ts), the HumanHandoffService that brokers *)
(* a proof for a remote agent (src/src/handoff.ts), the stores they share   *)
(* and the router handlers that call them (src/src/api/router.ts).          *)
(*                                                                         *)
(* A worker is one HTTP request being served by one verifier process.  A   *)
(* step of a worker runs from one await to the next: the code after a      *)
(* store, provider or signer answered, up to and including the next call   *)
(* that changes shared state.  Workers of several verifier processes share *)
(* the stores, so their steps interleave freely.                           *)
(*                                                                         *)
(* Backend selects the store implementation:                               *)
(*   "memory"   : one process, reads and writes are atomic;                *)
(*   "postgres" : lazy expiry is a read followed by a compare-and-swap;    *)
(*   "redis"    : as postgres, and keys disappear at their PXAT time.      *)
(***************************************************************************)
EXTENDS Integers, FiniteSets

CONSTANTS
    Deps,            \* dependency identifiers (random, one per requirement)
    Handoffs,        \* handoff identifiers (random, never reused)
    Workers,         \* concurrently served requests
    Subjects,        \* provider uniqueness subjects, one per human
    ResultIds,       \* result identifiers (random, never reused)
    None,            \* "undefined"
    Backend,         \* "memory", "postgres" or "redis"
    ReplayMode,      \* who rejects a reused subject: "verifier" or "provider"
    Ops,             \* the endpoints clients call
    MaxTime,         \* bound of the clock
    RequirementTTL,  \* requirement.expiresAt - createdAt
    HandoffTTLs,     \* lifetimes a provider may give its session
    ClaimTTL,        \* max(10s, 3 * pollAfterMs), the polling lease
    ResultTTL,       \* min(maximumResultTtlSeconds, the proof's own lifetime)
    Grace,           \* the least time that a Redis update gives a key
    MaxVersion       \* bound: clients stop polling a live handoff beyond it

ASSUME VerifierAssumption ==
    /\ None \notin Deps \union Handoffs \union Subjects \union ResultIds
    /\ Backend \in {"memory", "postgres", "redis"}
    /\ ReplayMode \in {"verifier", "provider"}
    /\ Ops \subseteq {"issue", "delete", "start", "poll", "cancel", "verify"}
    /\ MaxTime \in Nat
    /\ RequirementTTL \in Nat \ {0}
    /\ HandoffTTLs \subseteq Nat
    /\ ClaimTTL \in Nat
    /\ ResultTTL \in Nat \ {0}
    /\ Grace \in Nat \ {0}
    /\ MaxVersion \in Nat

VARIABLES
    now,           \* the clock the processes and the stores agree on
    requirement,   \* RequirementStore
    nonce,         \* NonceStore
    usedSubjects,  \* ProviderReplayStore
    record,        \* HandoffStore: the handoff documents
    active,        \* HandoffStore: the active handoff of a dependency
    result,        \* the signed results, by resultId
    task           \* where each worker is in its handler

stores == <<requirement, nonce, usedSubjects, record, active, result>>
vars == <<now, requirement, nonce, usedSubjects, record, active, result, task>>

-----------------------------------------------------------------------------
(* Types *)

Terminal == {"completed", "failed", "expired", "cancelled"}
Live == {"pending", "polling"}

\* "none": the identifier was not drawn yet; "gone": Redis dropped the key.
Status == Live \union Terminal \union {"none", "gone"}

Requirement == [state : {"absent", "stored", "deleted"}, expiresAt : Nat]

Record == [status : Status, dep : Deps \union {None}, version : Nat,
           claimUntil : Nat, expiresAt : Nat, keyTtl : Nat,
           completion : ResultIds \union {None}]

NoRecord == [status |-> "none", dep |-> None, version |-> 0, claimUntil |-> 0,
             expiresAt |-> 0, keyTtl |-> 0, completion |-> None]

\* via: the handoff whose poll obtained the result, None for a direct proof.
Result == [dep : Deps, via : Handoffs \union {None}, subject : Subjects,
           expiresAt : Nat]

NoResult == [dep |-> None, via |-> None, subject |-> None, expiresAt |-> 0]

PollSteps == {"claim", "reclaim", "provider", "release", "fail", "lookup"}
SatisfySteps == {"consume", "verify", "sign"}
ReadSteps == {"expire", "reread"}
Steps == PollSteps \union SatisfySteps \union ReadSteps
         \union {"idle", "register", "create", "complete", "cancel", "discard"}

\* version: the version of the snapshot the handler read or last wrote.
Task == [pc : Steps, op : {"issue", "start", "poll", "cancel", "verify", "none"},
         dep : Deps \union {None}, handoff : Handoffs \union {None},
         version : Nat, subject : Subjects \union {None}, expiresAt : Nat,
         result : ResultIds \union {None}]

Idle == [pc |-> "idle", op |-> "none", dep |-> None, handoff |-> None,
         version |-> 0, subject |-> None, expiresAt |-> 0, result |-> None]

TypeOK ==
    /\ now \in Nat
    /\ requirement \in [Deps -> Requirement]
    /\ nonce \in [Deps -> {"absent", "live", "used"}]
    /\ usedSubjects \subseteq Subjects
    /\ record \in [Handoffs -> Record]
    /\ active \in [Deps -> Handoffs \union {None}]
    /\ result \in [ResultIds -> Result \union {NoResult}]
    /\ task \in [Workers -> Task]

Init ==
    /\ now = 0
    /\ requirement = [d \in Deps |-> [state |-> "absent", expiresAt |-> 0]]
    /\ nonce = [d \in Deps |-> "absent"]
    /\ usedSubjects = {}
    /\ record = [h \in Handoffs |-> NoRecord]
    /\ active = [d \in Deps |-> None]
    /\ result = [r \in ResultIds |-> NoResult]
    /\ task = [w \in Workers |-> Idle]

Least(a, b) == IF a <= b THEN a ELSE b
Greatest(a, b) == IF a >= b THEN a ELSE b

-----------------------------------------------------------------------------
(* A worker's own steps *)

Goto(w, step) == task' = [task EXCEPT ![w].pc = step]
Reply(w) == task' = [task EXCEPT ![w] = Idle]

\* Mutant: a proof that was refused is stored as a completion.
ThrowCompletes(w) == Goto(w, IF task[w].op = "poll" THEN "complete" ELSE "discard")

\* satisfy() threw: a poll fails its claim, POST verify drops the requirement.
Throw(w) == Goto(w, IF task[w].op = "poll" THEN "fail" ELSE "discard")

-----------------------------------------------------------------------------
(* RequirementStore, NonceStore and ProviderReplayStore *)

\* RequirementStore.get: an expired entry reads as absent.
RequirementVisible(d) ==
    /\ requirement[d].state = "stored"
    /\ now < requirement[d].expiresAt

\* assertRequirementCurrent on the copy that the handler holds.
RequirementCurrent(d) == now < requirement[d].expiresAt

\* Mutant: consume() looks the nonce up and does not mark it.
NonceReusable(d) == nonce[d] # "absent" /\ now < requirement[d].expiresAt

\* The nonce expires with its requirement in every store.
NonceConsumable(d) == nonce[d] = "live" /\ now < requirement[d].expiresAt

-----------------------------------------------------------------------------
(* HandoffStore *)

Expired(h) == record[h].expiresAt <= now

\* Mutant: update() writes whatever version is stored.
MatchesAnyVersion(h, v) == record[h].status \notin {"none", "gone"}

\* The compare half of update(): the document is still the one at version v.
Matches(h, v) ==
    /\ record[h].status \notin {"none", "gone"}
    /\ record[h].version = v

\* Mutant: a handoff that ends keeps its dependency.
NeverReleased(h) == active

\* Redis releases the dependency key only if it names this handoff; the
\* in-memory map deletes it; the PostgreSQL row stops being active.
Released(h) ==
    LET d == record[h].dep IN
    IF Backend = "memory" \/ active[d] = h
    THEN [active EXCEPT ![d] = None]
    ELSE active

\* The PXAT time of a document's Redis key, 0 where keys stay.
KeyTtl(expiresAt) ==
    IF Backend = "redis" THEN Greatest(now + Grace, expiresAt) ELSE 0

\* The swap half of update(): the next document and the dependency index.
Swap(h, next) ==
    /\ record' = [record EXCEPT
            ![h] = [next EXCEPT !.version = record[h].version + 1,
                                !.keyTtl = KeyTtl(next.expiresAt)]]
    /\ active' = IF next.status \in Terminal THEN Released(h)
                 ELSE IF Backend = "memory" THEN active
                 ELSE [active EXCEPT ![next.dep] = h]

\* create() refuses a second active handoff of the same dependency.
Create(h, d, expiresAt) ==
    /\ active[d] = None
    /\ record' = [record EXCEPT
            ![h] = [NoRecord EXCEPT !.status = "pending", !.dep = d, !.version = 1,
                                    !.expiresAt = expiresAt,
                                    !.keyTtl = IF Backend = "redis" THEN expiresAt
                                               ELSE 0]]
    /\ active' = [active EXCEPT ![d] = h]

\* Mutant: the document's key lapses, the dependency's key stays.
EvictDocumentOnly(time) ==
    /\ record' = [h \in Handoffs |->
            IF /\ Backend = "redis"
               /\ record[h].status \notin {"none", "gone"}
               /\ record[h].keyTtl <= time
            THEN [record[h] EXCEPT !.status = "gone"]
            ELSE record[h]]
    /\ UNCHANGED active

\* Redis keys past their PXAT time no longer exist.
Evict(time) ==
    LET dropped == {h \in Handoffs : /\ Backend = "redis"
                                     /\ record[h].status \notin {"none", "gone"}
                                     /\ record[h].keyTtl <= time}
    IN  /\ record' = [h \in Handoffs |->
                IF h \in dropped THEN [record[h] EXCEPT !.status = "gone"]
                ELSE record[h]]
        /\ active' = [d \in Deps |->
                IF active[d] \in dropped THEN None ELSE active[d]]

-----------------------------------------------------------------------------
(* POST /v1/requirements and DELETE /v1/requirements/:dependencyId *)

\* createHumanRequirement and RequirementStore.put; register() comes next.
Issue(w, d) ==
    /\ "issue" \in Ops
    /\ task[w].pc = "idle"
    /\ requirement[d].state = "absent"
    /\ requirement' = [requirement EXCEPT
            ![d] = [state |-> "stored", expiresAt |-> now + RequirementTTL]]
    /\ task' = [task EXCEPT ![w] = [Idle EXCEPT !.pc = "register", !.op = "issue",
                                                !.dep = d]]
    /\ UNCHANGED <<now, nonce, usedSubjects, record, active, result>>

\* X424Service.register stores the nonce, or the handler drops the requirement
\* because the requirement lapsed or an adapter refused its request material.
Register(w) ==
    LET d == task[w].dep IN
    /\ task[w].pc = "register"
    /\ \/ /\ RequirementCurrent(d)
          /\ nonce' = [nonce EXCEPT ![d] = "live"]
          /\ Reply(w)
       \/ /\ Goto(w, "discard")
          /\ UNCHANGED nonce
    /\ UNCHANGED <<now, requirement, usedSubjects, record, active, result>>

\* requirementStore.delete after register() or satisfy() threw.
Discard(w) ==
    /\ task[w].pc = "discard"
    /\ requirement' = [requirement EXCEPT ![task[w].dep].state = "deleted"]
    /\ Reply(w)
    /\ UNCHANGED <<now, nonce, usedSubjects, record, active, result>>

\* A resource server deletes the requirement: a read was accepted, or the
\* tenant withdraws it.  The nonce and any handoff stay as they are.
DeleteRequirement(d) ==
    /\ "delete" \in Ops
    /\ nonce[d] # "absent"
    /\ requirement[d].state = "stored"
    /\ requirement' = [requirement EXCEPT ![d].state = "deleted"]
    /\ UNCHANGED <<now, nonce, usedSubjects, record, active, result, task>>

-----------------------------------------------------------------------------
(* POST /v1/requirements/:dependencyId/handoffs *)

\* An identifier that no record has and no pending start has drawn.
Fresh(h) ==
    /\ record[h].status = "none"
    /\ \A w \in Workers : task[w].handoff # h

\* start() up to the call of adapter.startHandoff.
Start(w, d, h) ==
    /\ "start" \in Ops
    /\ task[w].pc = "idle"
    /\ nonce[d] # "absent"
    /\ RequirementVisible(d)
    /\ Fresh(h)
    /\ task' = [task EXCEPT ![w] = [Idle EXCEPT !.pc = "create", !.op = "start",
                                                !.dep = d, !.handoff = h]]
    /\ UNCHANGED <<now, stores>>

\* The provider opened a session of lifetime ttl: store the record.  Or throw:
\* the provider failed, the handoff would be expired already, or create() was
\* refused because the dependency has an active handoff.
StoreHandoff(w) ==
    LET d == task[w].dep
        h == task[w].handoff
    IN
    /\ task[w].pc = "create"
    /\ \/ \E ttl \in HandoffTTLs :
            LET expiresAt == Least(requirement[d].expiresAt, now + ttl) IN
            /\ expiresAt > now
            /\ Create(h, d, expiresAt)
       \/ UNCHANGED <<record, active>>
    /\ Reply(w)
    /\ UNCHANGED <<now, requirement, nonce, usedSubjects, result>>

-----------------------------------------------------------------------------
(* GET and DELETE /v1/handoffs/:handoffId: reading the authorized record *)

\* Mutant: poll() waits for the owner of a claim, however old the lease.
ProceedWithoutReclaim(w, op, h) ==
    LET go(step) == task' = [task EXCEPT
            ![w] = [Idle EXCEPT !.pc = step, !.op = op, !.dep = record[h].dep,
                                !.handoff = h, !.version = record[h].version]]
    IN
    \/ op = "cancel" /\ go("cancel")
    \/ op = "poll" /\ record[h].status = "pending" /\ go("claim")
    \/ op = "poll" /\ record[h].status = "polling" /\ Reply(w)

\* What poll() or cancel() does with the live record that it read.
Proceed(w, op, h) ==
    LET go(step) == task' = [task EXCEPT
            ![w] = [Idle EXCEPT !.pc = step, !.op = op, !.dep = record[h].dep,
                                !.handoff = h, !.version = record[h].version]]
    IN
    \/ op = "cancel" /\ go("cancel")
    \/ op = "poll" /\ record[h].status = "pending" /\ go("claim")
    \/ /\ op = "poll"
       /\ record[h].status = "polling"
       /\ IF record[h].claimUntil > now THEN Reply(w) ELSE go("reclaim")

\* Mutant: the expired view is answered and the document is not written.
GetAuthorizedReadOnly(w, op, h) ==
    /\ IF record[h].status \in Live /\ ~Expired(h) THEN Proceed(w, op, h)
       ELSE Reply(w)
    /\ UNCHANGED <<record, active>>

\* getAuthorized: a live record past its expiry is expired first, atomically
\* in memory and with a compare-and-swap of its own in the shared stores.
GetAuthorized(w, op, h) ==
    \/ /\ record[h].status \in Live
       /\ ~Expired(h)
       /\ Proceed(w, op, h)
       /\ UNCHANGED <<record, active>>
    \/ /\ record[h].status \in Live
       /\ Expired(h)
       /\ Backend = "memory"
       /\ Swap(h, [record[h] EXCEPT !.status = "expired"])
       /\ Reply(w)
    \/ /\ record[h].status \in Live
       /\ Expired(h)
       /\ Backend # "memory"
       /\ task' = [task EXCEPT ![w] = [Idle EXCEPT !.pc = "expire", !.op = op,
                !.dep = record[h].dep, !.handoff = h, !.version = record[h].version]]
       /\ UNCHANGED <<record, active>>
    \/ /\ record[h].status \notin Live
       /\ Reply(w)
       /\ UNCHANGED <<record, active>>

\* A request with the handoff's capability arrives.  One for a record that
\* ended already only reads it.
Request(w, op, h) ==
    /\ op \in Ops
    /\ task[w].pc = "idle"
    /\ record[h].status \in Live
    /\ op = "poll" => record[h].version <= MaxVersion \/ Expired(h)
    /\ GetAuthorized(w, op, h)
    /\ UNCHANGED <<now, requirement, nonce, usedSubjects, result>>

\* getAuthorized recurses when its own compare-and-swap was lost.
Reread(w) ==
    /\ task[w].pc = "reread"
    /\ GetAuthorized(w, task[w].op, task[w].handoff)
    /\ UNCHANGED <<now, requirement, nonce, usedSubjects, result>>

-----------------------------------------------------------------------------
(* HandoffStore.update as each handler uses it *)

\* The compare-and-swap of the worker's snapshot against next: it wins and the
\* worker goes to won, holding the new version, or it loses and goes to lost.
Update(w, next, won, lost) ==
    LET h == task[w].handoff
        v == task[w].version
    IN
    /\ \/ /\ Matches(h, v)
          /\ Swap(h, next)
          /\ IF won = "idle" THEN Reply(w)
             ELSE task' = [task EXCEPT ![w].pc = won, ![w].version = v + 1]
       \/ /\ ~Matches(h, v)
          /\ IF lost = "idle" THEN Reply(w) ELSE Goto(w, lost)
          /\ UNCHANGED <<record, active>>
    /\ UNCHANGED <<now, requirement, nonce, usedSubjects, result>>

Current(w) == record[task[w].handoff]

\* Mutant: a lost swap is tried again without reading the document again.
ExpireWithoutReread(w) ==
    /\ task[w].pc = "expire"
    /\ Update(w, [Current(w) EXCEPT !.status = "expired"], "idle", "expire")

\* Lazy expiry in the shared stores.
Expire(w) ==
    /\ task[w].pc = "expire"
    /\ Update(w, [Current(w) EXCEPT !.status = "expired"], "idle", "reread")

\* poll(): the lease of another poll ran out, take the record back.
Reclaim(w) ==
    /\ task[w].pc = "reclaim"
    /\ Update(w, [Current(w) EXCEPT !.status = "pending", !.claimUntil = 0],
              "claim", "idle")

\* Mutant: the time left after the lease, instead of the end of the lease.
LeaseRemainder(expiresAt) == expiresAt - (now + ClaimTTL)

\* A lease ends with the handoff at the latest.
LeaseEnd(expiresAt) == Least(expiresAt, now + ClaimTTL)

\* poll(): claim the record for this poll, under a lease.
Claim(w) ==
    /\ task[w].pc = "claim"
    /\ Update(w, [Current(w) EXCEPT !.status = "polling",
                    !.claimUntil = LeaseEnd(Current(w).expiresAt)],
              "provider", "idle")

\* poll(): the human is not done, put the record back; a lost swap is ignored.
Release(w) ==
    /\ task[w].pc = "release"
    /\ Update(w, [Current(w) EXCEPT !.status = "pending", !.claimUntil = 0],
              "idle", "idle")

\* #failClaimed: a lost swap is ignored.
FailClaimed(w) ==
    /\ task[w].pc = "fail"
    /\ Update(w, [Current(w) EXCEPT !.status = "failed"], "idle", "idle")

\* poll(): store the result; a lost swap throws into the handler's catch.
Complete(w) ==
    /\ task[w].pc = "complete"
    /\ Update(w, [Current(w) EXCEPT !.status = "completed",
                                    !.completion = task[w].result],
              "idle", "fail")

\* cancel(), after adapter.cancelHandoff returned or threw.
Cancel(w) ==
    /\ task[w].pc = "cancel"
    /\ Update(w, [Current(w) EXCEPT !.status = "cancelled"], "idle", "idle")

-----------------------------------------------------------------------------
(* poll(): the provider's answer *)

\* adapter.pollHandoff: pending, completed, or failed; it may also throw.
AskProvider(w) ==
    /\ task[w].pc = "provider"
    /\ \E step \in {"release", "lookup", "fail"} : Goto(w, step)
    /\ UNCHANGED <<now, stores>>

\* The human completed: load the requirement for satisfy().
Lookup(w) ==
    /\ task[w].pc = "lookup"
    /\ Goto(w, IF RequirementVisible(task[w].dep) THEN "consume" ELSE "fail")
    /\ UNCHANGED <<now, stores>>

-----------------------------------------------------------------------------
(* X424Service.satisfy, reached by poll() and by POST .../verify *)

\* POST /v1/requirements/:dependencyId/verify loads the requirement.
Verify(w, d) ==
    /\ "verify" \in Ops
    /\ task[w].pc = "idle"
    /\ nonce[d] # "absent"
    /\ RequirementVisible(d)
    /\ task' = [task EXCEPT ![w] = [Idle EXCEPT !.pc = "consume", !.op = "verify",
                                                !.dep = d]]
    /\ UNCHANGED <<now, stores>>

\* The nonce is consumed before the external verifier is called.
ConsumeNonce(w) ==
    LET d == task[w].dep IN
    /\ task[w].pc = "consume"
    /\ IF RequirementCurrent(d) /\ NonceConsumable(d)
       THEN nonce' = [nonce EXCEPT ![d] = "used"] /\ Goto(w, "verify")
       ELSE UNCHANGED nonce /\ Throw(w)
    /\ UNCHANGED <<now, requirement, usedSubjects, record, active, result>>

\* Mutant: a subject is recorded and never looked up.
AnySubject == Subjects

\* The subjects that providerReplayStore.consume still takes.
FreshSubjects ==
    IF ReplayMode = "verifier" THEN Subjects \ usedSubjects ELSE Subjects

\* adapter.verify answered, or threw: the requirement must still be current,
\* the output acceptable and the subject unused; issuedAt is fixed here.
VerifyProof(w) ==
    LET d == task[w].dep IN
    /\ task[w].pc = "verify"
    /\ \/ \E s \in FreshSubjects :
            /\ RequirementCurrent(d)
            /\ usedSubjects' = IF ReplayMode = "verifier" THEN usedSubjects \union {s}
                               ELSE usedSubjects
            /\ task' = [task EXCEPT ![w].pc = "sign", ![w].subject = s,
                    ![w].expiresAt = Least(requirement[d].expiresAt, now + ResultTTL)]
       \/ Throw(w) /\ UNCHANGED usedSubjects
    /\ UNCHANGED <<now, requirement, nonce, record, active, result>>

\* The pairwise identifier is derived and the result signed, under a fresh
\* resultId; the deriver and the signer may be external and may throw.  A poll
\* then encrypts the token, which may throw as well; POST verify answers.
Sign(w) ==
    /\ task[w].pc = "sign"
    /\ \/ \E r \in ResultIds :
            /\ result[r] = NoResult
            /\ result' = [result EXCEPT
                    ![r] = [dep |-> task[w].dep, via |-> task[w].handoff,
                            subject |-> task[w].subject,
                            expiresAt |-> task[w].expiresAt]]
            /\ \/ /\ task[w].op = "poll"
                  /\ task' = [task EXCEPT ![w].pc = "complete", ![w].result = r]
               \/ task[w].op = "poll" /\ Goto(w, "fail")
               \/ task[w].op = "verify" /\ Reply(w)
       \/ Throw(w) /\ UNCHANGED result
    /\ UNCHANGED <<now, requirement, nonce, usedSubjects, record, active>>

-----------------------------------------------------------------------------
(* Time and process loss *)

Tick ==
    /\ now < MaxTime
    /\ now' = now + 1
    /\ Evict(now + 1)
    /\ UNCHANGED <<requirement, nonce, usedSubjects, result, task>>

\* A verifier process is lost with the request it serves; the shared stores
\* survive.  The in-memory stores are lost with their only process.
Crash(w) ==
    /\ Backend # "memory"
    /\ task[w].pc # "idle"
    /\ Reply(w)
    /\ UNCHANGED <<now, stores>>

\* The steps that a running handler takes by itself.
Step(w) ==
    \/ Register(w) \/ Discard(w) \/ StoreHandoff(w)
    \/ Reread(w) \/ Expire(w) \/ Reclaim(w) \/ Claim(w) \/ Release(w)
    \/ FailClaimed(w) \/ Complete(w) \/ Cancel(w)
    \/ AskProvider(w) \/ Lookup(w)
    \/ ConsumeNonce(w) \/ VerifyProof(w) \/ Sign(w)

\* The requests that clients make.
Arrive(w) ==
    \/ \E d \in Deps : Issue(w, d) \/ Verify(w, d)
    \/ \E d \in Deps, h \in Handoffs : Start(w, d, h)
    \/ \E h \in Handoffs : Request(w, "poll", h) \/ Request(w, "cancel", h)

Next ==
    \/ Tick
    \/ \E d \in Deps : DeleteRequirement(d)
    \/ \E w \in Workers : Step(w) \/ Arrive(w) \/ Crash(w)

Spec == Init /\ [][Next]_vars

\* Handlers run to their end: node's event loop resumes every await, provider
\* calls time out, and a lost process is replaced.  Time passes.  Clients owe
\* nothing.
Fairness ==
    /\ WF_vars(Tick)
    /\ \A w \in Workers : SF_vars(Step(w))

FairSpec == Spec /\ Fairness

\* As FairSpec, with agents that keep polling the handoffs they started.
PollingSpec ==
    /\ FairSpec
    /\ \A h \in Handoffs : SF_vars(\E w \in Workers : Request(w, "poll", h))

-----------------------------------------------------------------------------
(* Safety *)

Issued(r) == result[r] # NoResult

\* The dependency index names exactly the live handoffs: a dependency never has
\* two, one that ended or lapsed no longer blocks the next start, and a live one
\* is never orphaned by the release of another.
\* HandoffStore.create and update, ARCHITECTURE.md "one active handoff".
ActiveIndex ==
    \A h \in Handoffs, d \in Deps :
        active[d] = h <=> record[h].status \in Live /\ record[h].dep = d

\* However many polls and direct proofs race, retry or outlive their lease, a
\* dependency is satisfied once: satisfy() consumes the nonce before it calls
\* the provider, and every result carries a consumed nonce.
OneResultPerDependency ==
    \A r1, r2 \in ResultIds :
        /\ Issued(r1) => nonce[result[r1].dep] = "used"
        /\ Issued(r1) /\ Issued(r2) /\ r1 # r2 => result[r1].dep # result[r2].dep

\* One human, one result: two dependencies satisfied at the same time cannot
\* both be given a result for the same provider uniqueness subject.
OneResultPerSubject ==
    \A r1, r2 \in ResultIds :
        ReplayMode = "verifier" /\ Issued(r1) /\ Issued(r2) /\ r1 # r2
            => result[r1].subject # result[r2].subject

\* The steps that a poll takes on a record that it claimed.
ClaimSteps == {"provider", "release", "fail", "lookup", "consume", "verify",
               "sign", "complete"}

\* Two polls never both hold the current claim of a handoff: whoever lost the
\* lease holds a version that update() will refuse.
ExclusiveClaim ==
    \A w1, w2 \in Workers :
        (/\ w1 # w2
         /\ \A w \in {w1, w2} : task[w].op = "poll" /\ task[w].pc \in ClaimSteps
         /\ task[w1].handoff = task[w2].handoff)
            => \E w \in {w1, w2} : ~Matches(task[w].handoff, task[w].version)

\* A completed handoff delivers a result that its own poll obtained for its own
\* dependency, never one of another handoff or of a direct proof.
CompletionIsOwnResult ==
    \A h \in Handoffs : record[h].status = "completed" =>
        /\ record[h].completion \in ResultIds
        /\ result[record[h].completion].via = h
        /\ result[record[h].completion].dep = record[h].dep

\* The verifier implements the contract of brokered handoffs.
Contract == INSTANCE HandoffContract WITH
    phase <- [h \in Handoffs |->
                IF record[h].status \in Live THEN "open" ELSE record[h].status],
    owner <- [h \in Handoffs |-> record[h].dep],
    completion <- [h \in Handoffs |-> record[h].completion],
    issued <- {<<r, result[r].dep, result[r].via>> :
                    r \in {x \in ResultIds : Issued(x)}}

ImplementsContract == Contract!Spec

-----------------------------------------------------------------------------
(* Liveness *)

\* Every handler that started comes to its end, getAuthorized's retry included:
\* each lost compare-and-swap means that another worker moved the record on.
RequestsFinish ==
    \A w \in Workers : task[w].pc # "idle" ~> task[w].pc = "idle"

\* A claim whose process was lost does not pin its handoff: the lease runs out
\* and the next poll takes the record back, long before the handoff expires.
LeaseRecovered ==
    \A h \in Handoffs :
        (/\ record[h].status = "polling"
         /\ record[h].version <= MaxVersion
         /\ record[h].claimUntil <= MaxTime)
            ~> record[h].status # "polling"

\* A handoff that is being polled and whose expiry the clock reaches ends, so
\* that its dependency can be handed off again.
HandoffsEnd ==
    \A h \in Handoffs :
        record[h].status \in Live /\ record[h].expiresAt <= MaxTime
            ~> record[h].status \notin Live

\* A handoff past its expiry releases its dependency by itself, whether or not
\* its client ever comes back (unless the bounded clock stops before the PXAT
\* time of a key that a late update has put off).
ExpiryReleasesIndex ==
    \A h \in Handoffs, d \in Deps :
        active[d] = h /\ Expired(h)
            ~> active[d] # h \/ (now = MaxTime /\ record[h].keyTtl > now)

-----------------------------------------------------------------------------
(* What the documents say and the code does not do *)

\* docs/PROTOCOL.md 9.1: "Completion and dependency-nonce consumption are atomic
\* at the verifier boundary."  A handoff whose poll consumed the nonce and
\* obtained the signed result is not closed by anything else meanwhile.
CompletionAtomic ==
    \A r \in ResultIds, h \in Handoffs :
        Issued(r) /\ result[r].via = h
            => record[h].status \notin {"expired", "cancelled"}

\* router.ts, POST verify: "Retain the requirement until the authenticated
\* resource server has evaluated the signed result."  Without a DELETE from the
\* resource server, a result that is still valid finds its requirement.
RequirementRetained ==
    \A r \in ResultIds :
        Issued(r) /\ now < result[r].expiresAt
            => requirement[result[r].dep].state = "stored"

=============================================================================
