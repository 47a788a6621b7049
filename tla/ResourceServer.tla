--------------------------- MODULE ResourceServer ---------------------------
(***************************************************************************)
(* A protected resource: the middleware that answers 424 and accepts        *)
(* HUMAN-PROOF results (src/src/middleware/resource.ts, src/src/http.ts),   *)
(* the ResultReplayStore and ResultAcceptanceStore behind it (nonce-store,  *)
(* redis, postgres), and the managed verifier that may keep them remotely   *)
(* (src/src/managed.ts, the state endpoints of src/src/api/router.ts).      *)
(*                                                                         *)
(* A request is one HTTP attempt of a client that holds a signed result; a  *)
(* retry is another request.  A step of a request runs from one await to    *)
(* the next.  The requests of all server processes interleave freely, the   *)
(* clock moves while they wait, their calls fail before or after they took  *)
(* effect, and the processes that keep state in memory restart.             *)
(*                                                                         *)
(* A dependency and the one result signed for it (module Verifier shows     *)
(* that there is at most one) share the identifier r \in Results.           *)
(***************************************************************************)
EXTENDS Integers

CONSTANTS
    Requests,        \* attempts made with a HUMAN-PROOF header
    Results,         \* dependencies, each with its result
    Keys,            \* Idempotency-Key values
    Targets,         \* what a requirement is bound to: method, URI, body digest,
                     \* caller binding, purpose and audience
    Reads,           \* the targets whose method is GET, HEAD or OPTIONS
    None,            \* "undefined"
    Configs,         \* the deployments considered
    TTLs,            \* requirement lifetimes
    MaxTime          \* bound of the clock

Stores == {"replay", "acceptance"}
Names == {"plain", "scoped"}
Backends == {"memory", "redis", "postgres"}

\* profile: dev-local-0.1 or any other; requirements, results: the backends;
\* remote...: kept by a managed verifier; replay, acceptance: configured.
Config == [profile : {"dev", "prod"}, requirements : Backends, results : Backends,
           remoteRequirements : BOOLEAN, remoteResults : BOOLEAN,
           replay : BOOLEAN, acceptance : BOOLEAN, requireKey : BOOLEAN]

\* assertProtectOptions looks at local stores only; the verifier's router
\* looks at its requirement store, not at its result stores.
AssertProtectOptions(c) ==
    c.profile # "dev" =>
        /\ c.replay /\ c.acceptance
        /\ c.requirements # "memory"
        /\ ~c.remoteResults => c.results # "memory"

ASSUME ResourceAssumption ==
    /\ None \notin Requests \union Results \union Keys \union Targets
    /\ Requests \intersect Keys = {}
    /\ Configs \subseteq {c \in Config : AssertProtectOptions(c)}
    /\ Reads \subseteq Targets
    /\ TTLs \subseteq Nat \ {0}
    /\ MaxTime \in Nat

VARIABLES
    now,          \* the clock
    config,       \* the deployment, fixed at startup
    release,      \* the managed verifier's release: "old" is before 0.1.3
    requirement,  \* RequirementStore
    token,        \* expiresAt of the signed result, 0 before it is signed
    entry,        \* the rows or keys of the two result stores
    request       \* where each request is in its handler

vars == <<now, config, release, requirement, token, entry, request>>

-----------------------------------------------------------------------------
(* Types *)

Requirement == [state : {"absent", "stored", "expired", "deleted", "lost"},
                owner : {"none", "old", "new"},
                target : Targets \union {None}, expiresAt : Nat]

\* by: the operation that took the result, a request where there is no key.
Entry == [by : Keys \union Requests \union {None}, expiresAt : Nat]
NoEntry == [by |-> None, expiresAt |-> 0]

Steps == {"none", "lookup", "route", "snapshot", "use", "delete",
          "admitted", "refused"}
Reasons == {"none", "failed", "spent"}

\* why: the store said that the result is spent, or a call failed after the
\* result was granted; a request refused for anything else leaves no trace;
\* at: the `now` the code captured; seen: the operations PostgreSQL's snapshot
\* showed; used, usedAt: the store granted the result, and when.
Request == [pc : Steps, why : Reasons, proof : Results \union {None},
            target : Targets \union {None}, key : Keys \union {None}, at : Nat,
            seen : SUBSET (Keys \union Requests), used : BOOLEAN, usedAt : Nat]

Unsent == [pc |-> "none", why |-> "none", proof |-> None, target |-> None,
           key |-> None, at |-> 0, seen |-> {}, used |-> FALSE, usedAt |-> 0]

InFlight == {"lookup", "route", "snapshot", "use", "delete"}

TypeOK ==
    /\ now \in Nat
    /\ config \in Configs
    /\ release \in {"old", "new"}
    /\ requirement \in [Results -> Requirement]
    /\ token \in [Results -> Nat]
    /\ entry \in [Stores \X Names \X Results -> Entry]
    /\ request \in [Requests -> Request]

Init ==
    /\ now = 0
    /\ config \in Configs
    /\ release \in IF config.remoteRequirements \/ config.remoteResults
                     THEN {"old", "new"} ELSE {"new"}
    /\ requirement = [r \in Results |->
           [state |-> "absent", owner |-> "none", target |-> None, expiresAt |-> 0]]
    /\ token = [r \in Results |-> 0]
    /\ entry = [s \in Stores \X Names \X Results |-> NoEntry]
    /\ request = [q \in Requests |-> Unsent]

-----------------------------------------------------------------------------
(* The RequirementStore, local or behind the managed verifier *)

\* A managed verifier since 0.1.3 reads only what it stored for the tenant.
Owned(r) ==
    config.remoteRequirements /\ release = "new" => requirement[r].owner = "new"

\* A managed verifier reads its own clock, and a Redis key lapses by itself.
ReadAt(at) == IF config.remoteRequirements \/ config.requirements = "redis"
                THEN now ELSE at

\* get(dependencyId, now)
Stored(r, at) ==
    /\ requirement[r].state = "stored"
    /\ Owned(r)
    /\ ReadAt(at) < requirement[r].expiresAt

\* issueChallenge: a request without HUMAN-PROOF gets 424 and a requirement.
Challenge(r, target, ttl) ==
    /\ requirement[r].state = "absent"
    /\ requirement' = [requirement EXCEPT ![r] =
           [state |-> "stored",
            owner |-> IF config.remoteRequirements THEN release ELSE "none",
            target |-> target, expiresAt |-> now + ttl]]
    /\ UNCHANGED <<now, config, release, token, entry, request>>

\* The verifier signs the result; POST verify looks the requirement up, too.
Sign(r) ==
    /\ token[r] = 0
    /\ Stored(r, now)
    /\ \E expiresAt \in now + 1 .. requirement[r].expiresAt :
           token' = [token EXCEPT ![r] = expiresAt]
    /\ UNCHANGED <<now, config, release, requirement, entry, request>>

-----------------------------------------------------------------------------
(* A request's own steps *)

Goto(q, step) == request' = [request EXCEPT ![q].pc = step]

\* 400 or 401 and no trace: the same client, or another, may try again.
Reject(q) == request' = [request EXCEPT ![q] = Unsent]

Mutation(target) == target \notin Reads

UseAcceptance(q) ==
    /\ Mutation(request[q].target)
    /\ config.acceptance
    /\ request[q].key # None

Store(q) == IF UseAcceptance(q) THEN "acceptance" ELSE "replay"

\* What PROTOCOL.md calls the operation: a request without a key stands alone.
Operation(q) == IF UseAcceptance(q) THEN request[q].key ELSE q

\* The middleware checks the headers and the profile, and reads the clock
\* once; only a mutation's key is looked at.
Receive(q, r, target, key) ==
    /\ request[q].pc = "none"
    /\ token[r] # 0
    /\ LET keyless == Mutation(target) /\ key = None
           fresh == [Unsent EXCEPT !.proof = r, !.target = target, !.at = now,
                                   !.key = IF Mutation(target) THEN key ELSE None]
       IN request' = [request EXCEPT ![q] =
            IF keyless /\ (config.requireKey \/ config.profile # "dev")
              THEN Unsent ELSE [fresh EXCEPT !.pc = "lookup"]]
    /\ UNCHANGED <<now, config, release, requirement, token, entry>>

\* Mutant: the request is not compared with the requirement.
MatchesAlways(q) == TRUE

\* assertCurrentMatchesStored
Matches(q) == requirement[request[q].proof].target = request[q].target

\* Where the PostgreSQL acceptance statement takes its snapshot first.
StoreStep(q) ==
    IF config.results = "postgres" /\ UseAcceptance(q) THEN "snapshot" ELSE "use"

ReplayStoreMissing(q) ==
    /\ ~UseAcceptance(q)
    /\ ~config.replay

\* requirementStore.get, assertCurrentMatchesStored, verifyHumanProofHeader;
\* get() deletes a requirement that it finds expired.
Lookup(q) ==
    LET r == request[q].proof
        at == request[q].at
    IN /\ request[q].pc = "lookup"
       /\ IF \/ ~Stored(r, at)
             \/ ~Matches(q)
             \/ ReplayStoreMissing(q) /\ Mutation(request[q].target)
             \/ token[r] <= at
            THEN Reject(q)
          ELSE IF ReplayStoreMissing(q) THEN Goto(q, "delete")
          ELSE Goto(q, IF config.remoteResults THEN "route" ELSE StoreStep(q))
       /\ requirement' =
            IF requirement[r].state = "stored" /\ Owned(r) /\ ~Stored(r, at)
              THEN [requirement EXCEPT ![r].state = "expired"] ELSE requirement
       /\ UNCHANGED <<now, config, release, token, entry>>

\* The managed verifier's handler: its own clock decides about the expiry.
Route(q) ==
    /\ request[q].pc = "route"
    /\ IF token[request[q].proof] <= now THEN Reject(q)
       ELSE request' = [request EXCEPT ![q].pc = StoreStep(q), ![q].at = now]
    /\ UNCHANGED <<now, config, release, requirement, token, entry>>

-----------------------------------------------------------------------------
(* ResultReplayStore and ResultAcceptanceStore *)

\* Since 0.1.3 the verifier writes tenant-scoped identifiers and also looks
\* the plain one up, which an older release may have written.
Scoped == config.remoteResults /\ release = "new"
Written == IF Scoped THEN "scoped" ELSE "plain"

\* Mutant: the plain identifiers of the old release are not looked up.
ConsultedOwn == {Written}

Consulted == IF Scoped THEN {"plain", "scoped"} ELSE {"plain"}

Row(q, name) == entry[<<Store(q), name, request[q].proof>>]

\* Mutant: every statement compares with the time at which it runs.
StoreClockNow(q) == now

\* Redis keys lapse, and the plain PostgreSQL statement compares with NOW();
\* the other comparisons are with the clock that the caller captured.
StoreClock(q) ==
    IF config.results = "redis" \/ (config.results = "postgres" /\ ~Scoped)
      THEN now ELSE request[q].at

Live(q, name) ==
    /\ Row(q, name).by # None
    /\ StoreClock(q) < Row(q, name).expiresAt

\* ON CONFLICT (result_id) looks at no expiry: PostgreSQL rows stay.
Blocking(q) ==
    {name \in Consulted :
        \/ Live(q, name)
        \/ config.results = "postgres" /\ name = Written /\ Row(q, name).by # None}

\* The plain and the scoped entry are never both live: the scoped one is only
\* written where no plain one is, and no release writes both.
Holders(q) == {Row(q, name).by : name \in {n \in Consulted : Live(q, n)}}

\* The SELECT of the acceptance statement sees the table as it was before its
\* own INSERT waited for a concurrent one.
Snapshot(q) ==
    /\ request[q].pc = "snapshot"
    /\ request' = [request EXCEPT ![q].pc = "use", ![q].seen = Holders(q)]
    /\ UNCHANGED <<now, config, release, requirement, token, entry>>

\* Mutant: any operation may repeat an accepted result.
SameResult(q) == UseAcceptance(q) /\ Blocking(q) # {}

\* Mutant: a repeated operation is not told from another one.
NeverSame(q) == FALSE

\* "same_operation"; the request digest is fixed by the result.
SameOperation(q) ==
    /\ UseAcceptance(q)
    /\ Operation(q) \in IF config.results = "postgres" THEN request[q].seen
                                                       ELSE Holders(q)

\* The memory stores drop what has expired by the caller's clock.
Pruned(q) ==
    [slot \in Stores \X Names \X Results |->
        IF /\ config.results = "memory"
           /\ slot[1] = Store(q)
           /\ entry[slot].expiresAt <= request[q].at
          THEN NoEntry ELSE entry[slot]]

\* consume, accept and their legacy-aware forms; the answer may be lost.
Use(q, answered) ==
    LET r == request[q].proof
        granted == Blocking(q) = {} \/ SameOperation(q)
        next == IF Mutation(request[q].target) THEN "admitted" ELSE "delete"
    IN /\ request[q].pc = "use"
       /\ entry' = IF Blocking(q) # {} THEN Pruned(q)
                   ELSE [Pruned(q) EXCEPT ![<<Store(q), Written, r>>] =
                            [by |-> Operation(q), expiresAt |-> token[r]]]
       /\ request' = [request EXCEPT ![q] =
            IF granted
              THEN [@ EXCEPT !.pc = IF answered THEN next ELSE "refused",
                             !.why = IF answered THEN "none" ELSE "failed",
                             !.at = 0, !.seen = {}, !.used = TRUE, !.usedAt = now]
            ELSE IF answered
              THEN [@ EXCEPT !.pc = "refused", !.why = "spent", !.seen = {}]
            ELSE Unsent]
       /\ UNCHANGED <<now, config, release, requirement, token>>

\* The request ends without the store's answer, or after it (401).
Abandoned(q) == IF request[q].used
                  THEN [request[q] EXCEPT !.pc = "refused", !.why = "failed"]
                  ELSE Unsent
Abandon(q) == request' = [request EXCEPT ![q] = Abandoned(q)]

\* delete(dependencyId), which for a tenant passes over what has expired.
Deletable(r) ==
    /\ requirement[r].state = "stored"
    /\ Owned(r)
    /\ config.remoteRequirements /\ release = "new" => now < requirement[r].expiresAt

\* The eager cleanup after a read; a verifier answers 404 for what it lacks.
Delete(q, answered) ==
    LET r == request[q].proof
    IN /\ request[q].pc = "delete"
       /\ requirement' = IF Deletable(r)
                           THEN [requirement EXCEPT ![r].state = "deleted"]
                           ELSE requirement
       /\ IF answered THEN Goto(q, "admitted") ELSE Abandon(q)
       /\ UNCHANGED <<now, config, release, token, entry>>

-----------------------------------------------------------------------------
(* Failures, maintenance and time *)

\* A call is refused or fails before it took effect, or the process stops.
Fail(q) ==
    /\ request[q].pc \in InFlight
    /\ Abandon(q)
    /\ UNCHANGED <<now, config, release, requirement, token, entry>>

\* What a restart of the resource server, or of the verifier, empties.
ForgetRequirements ==
    requirement' = [r \in Results |->
        IF config.requirements = "memory" /\ requirement[r].state # "absent"
          THEN [requirement[r] EXCEPT !.state = "lost"] ELSE requirement[r]]

ForgetEntries ==
    entry' = IF config.results = "memory"
               THEN [slot \in Stores \X Names \X Results |-> NoEntry] ELSE entry

\* Every request that the resource server was serving is cut off.
RestartServer ==
    /\ request' = [q \in Requests |->
           IF request[q].pc \in InFlight THEN Abandoned(q) ELSE request[q]]
    /\ IF config.remoteRequirements THEN UNCHANGED requirement
                                    ELSE ForgetRequirements
    /\ IF config.remoteResults THEN UNCHANGED entry ELSE ForgetEntries
    /\ UNCHANGED <<now, config, release, token>>

\* The calls that the verifier was serving fail.
StopVerifier ==
    /\ config.remoteRequirements \/ config.remoteResults
    /\ request' = [q \in Requests |->
           IF config.remoteResults /\ request[q].pc \in {"snapshot", "use"}
             THEN Abandoned(q) ELSE request[q]]
    /\ IF config.remoteRequirements THEN ForgetRequirements
                                    ELSE UNCHANGED requirement
    /\ IF config.remoteResults THEN ForgetEntries ELSE UNCHANGED entry

RestartVerifier == StopVerifier /\ UNCHANGED <<now, config, release, token>>

\* The cutover of the 0.1.3 runbook: nothing is served while it happens.  Its
\* 900 s drain is not assumed: the legacy check is there for a shorter one.
Upgrade ==
    /\ release = "old"
    /\ \A q \in Requests : request[q].pc \notin InFlight
    /\ release' = "new"
    /\ StopVerifier
    /\ UNCHANGED <<now, config, token>>

Tick ==
    /\ now < MaxTime
    /\ now' = now + 1
    /\ UNCHANGED <<config, release, requirement, token, entry, request>>

Step(q) ==
    \/ \E r \in Results, target \in Targets, key \in Keys \union {None} :
           Receive(q, r, target, key)
    \/ Lookup(q)
    \/ Route(q)
    \/ Snapshot(q)
    \/ \E answered \in BOOLEAN : Use(q, answered) \/ Delete(q, answered)
    \/ Fail(q)

Next ==
    \/ \E r \in Results, target \in Targets, ttl \in TTLs :
           Challenge(r, target, ttl)
    \/ \E r \in Results : Sign(r)
    \/ \E q \in Requests : Step(q)
    \/ RestartServer
    \/ RestartVerifier
    \/ Upgrade
    \/ Tick

Spec == Init /\ [][Next]_vars

-----------------------------------------------------------------------------
(* Properties *)

\* A request past its lookup outlives result entries kept in memory, unless
\* they, the requirements and the middleware stop as one process.
Volatile == /\ config.results = "memory"
            /\ \/ config.requirements # "memory"
               \/ config.remoteRequirements
               \/ config.remoteResults

Before(p, q) == request[p].usedAt <= request[q].usedAt

\* Use-once.  Two different operations never use one result, even when an
\* answer was lost, a server crashed in between or the verifier was upgraded,
\* except: a store other than PostgreSQL asked with a clock that was read
\* before the result lapsed grants it once more afterwards; a store in memory
\* that forgot; and, in dev-local without required keys, a mutation without a
\* key, which goes to the other store than the mutation with one.
OneOperationPerResult ==
    \A p, q \in Requests :
        /\ request[p].used /\ request[q].used
        /\ request[p].proof = request[q].proof
        /\ Operation(p) # Operation(q)
        /\ Before(p, q)
        => \/ config.results # "postgres"
              /\ token[request[p].proof] <= request[q].usedAt
           \/ Volatile
           \/ /\ config.profile = "dev" /\ ~config.requireKey
              /\ Store(p) # Store(q)

\* Retries.  A matching request with a valid result is refused as spent only
\* because another operation used it, or, on PostgreSQL alone, because the
\* same operation's first acceptance came after the request had begun, or
\* because the row had lapsed when the statement ran.
SpentMeansSpent ==
    \A q \in Requests : request[q].why = "spent" =>
        \E p \in Requests \ {q} :
            /\ request[p].used
            /\ request[p].proof = request[q].proof
            /\ \/ Operation(p) # Operation(q)
               \/ /\ config.results = "postgres"
                  /\ \/ request[q].at <= request[p].usedAt
                     \/ token[request[q].proof] <= now

\* Cleanup.  A live requirement is deleted only for a read whose result was
\* used (or that has no replay store), so every mutation can be retried until
\* it expires; and a read was admitted only when its requirement is gone or
\* has expired.
CleanupAfterUse ==
    \A r \in Results :
        /\ requirement[r].state = "deleted" =>
             /\ ~Mutation(requirement[r].target)
             /\ \/ \E q \in Requests : request[q].used /\ request[q].proof = r
                \/ ~config.replay
        /\ (\E q \in Requests : /\ request[q].pc = "admitted"
                                /\ ~Mutation(request[q].target)
                                /\ request[q].proof = r)
             => ~Stored(r, now)

\* The stores implement ResultContract: every grant, whether or not its answer
\* arrived, is one that the abstract store may make.
Users(slot) ==
    {Operation(q) : q \in {p \in Requests :
        /\ request[p].used
        /\ slot = <<Store(p), request[p].proof>>}}

Contract == INSTANCE ResultContract WITH
    Operations <- Keys \union Requests,
    memory <- IF Volatile THEN "forgetful"
              ELSE IF config.results = "postgres" THEN "for ever" ELSE "while valid",
    expiresAt <- token,
    users <- [slot \in Stores \X Results |-> Users(slot)]

ResultUsedOnce == Contract!Spec
=============================================================================
