# A specification of x424

x424 answers one question for a resource server: has one explicitly accepted
unique human satisfied this exact dependency? This directory specifies the
program behind the answer in TLA+, checks it with TLC and proves it with TLAPS.

Paths below are relative to the repository, so `src/handoff.ts` is its brokered
handoff service; `PROJECT.json` and the modules' headers put `src/` before them.
`PROJECT.json` ties every definition to the lines it models.

## 1. The system

A resource server asks the verifier for a *requirement* (a dependency with a
nonce and a lifetime). A client either submits a native proof
(`POST .../verify`) or, for an agent, starts a *handoff* that a human completes
elsewhere while the agent polls. Either way `X424Service.satisfy` consumes the
nonce, calls the provider, retains the provider's subject and signs a *result*;
the client retries its request with the result, and the resource server's
middleware evaluates and consumes it.

| Component | State | Operations | Interacts with |
| --- | --- | --- | --- |
| Router (`src/api/router.ts`) | none | issue, read and delete a requirement; verify; start, poll and cancel a handoff; consume and accept a result | everything below |
| Handoff service (`src/handoff.ts`) | none; a snapshot per request | `start`, `poll`, `cancel` | handoff store, requirement store, provider, service |
| Handoff store (memory, `src/postgres/store.ts`, `src/redis.ts`) | versioned documents, one active handoff per dependency | `create`, `getAuthorized` (expires lazily), `update` (compare-and-swap) | shared by all verifier processes |
| World sessions (`src/providers/world-id-client.ts`) | open ceremonies, in one process's memory, at most `maximumActiveSessions` | `startHandoff`, `pollHandoff`, `cancelHandoff`, each of which but the last forgets what has expired | handoff service, World's bridge |
| Service (`src/service.ts`) | none | `register`, `satisfy` | nonce store, provider, provider replay store, signer |
| Requirement, nonce and provider replay stores | documents with expiry, used nonces, used subjects | `put`/`get`/`delete`, `put`/`consume`, `consume` | shared |
| Result replay and acceptance stores (`src/nonce-store.ts`, `src/postgres/store.ts`, `src/redis.ts`) | used results, operation of a result | `consume`, `accept`, and both with a legacy identifier | middleware, router |
| Resource middleware (`src/middleware/resource.ts`) | none; one `now` per request | challenge, evaluate, consume or accept, clean up | result stores, requirement store |
| Managed verifier client (`src/managed.ts`) | none | the same stores, over HTTP | router |
| Limits (`src/ops/limits.ts`, `src/redis.ts`) | hit lists, counters, circuit | `consume`, `assertClosed`, `recordSuccess`, `recordFailure` | router, provider adapters |
| Agent client (`src/agent.ts`, `src/client.ts`, `src/x402.ts`) | one call | fetch, hand off, wait, cancel, pay, retry | router, resource server |
| Policy (`src/policy.ts`, `src/requirements.ts`), issuance authentication (`src/auth/issuance.ts`), World ID adapter (`src/providers/world-id.ts`) | none | decisions on data | router, service, middleware |
| Metadata and managed keys (`src/metadata/verifier-metadata.ts`, `src/keys/managed.ts`) | the keys and their status | rotate, revoke, publish, select, trust | service, middleware |

What is hard. Every handler awaits between its reads and its writes, several
processes serve the same stores, a process can be lost at any await, handoffs
and leases and requirements expire by the clock while handlers hold copies of
them, Redis drops keys by itself, answers of remote stores are lost, a verifier
is upgraded under its clients, clients repeat and abort requests, and four
parties bring the parts of one proof. What must hold:

- *handoff store*: the dependency index names exactly the live handoffs, and an
  abandoned handoff lets go of it;
- *handoff service*: one polling claim counts at a time, a lost claim is
  recovered, a handoff ends once and only with its own result;
- *World sessions*: the map stays near its maximum and empties by itself, a
  session is lost only for a reason, none outlives its handoff, and the poll that
  ends an agent's call tells it the truth;
- *service and its stores*: one result per dependency and, when the verifier
  retains subjects, one per human, however many requests race;
- *result stores and middleware*: a result is used by one operation, whose
  retries succeed where the code can tell them, and cleanup follows use;
- *limits*: the window's bound, an honest `retry-after`, a bounded load on a
  failing provider, and a circuit that lets calls through again;
- *agent client*: payment follows humanity, no action is repeated, no handoff is
  left open by a client that gave up;
- *issuance*: what is issued was asked for by the agent that it binds and is
  within its issuer's grants;
- *policy and World ID*: what is signed is about this ceremony and this human,
  and is sufficient for the resource server that asked;
- *keys*: a revoked key is believed by nobody after a document's lifetime.

## 2. The modules

| Module | Contents |
| --- | --- |
| `Verifier` | the requirement, verify and handoff handlers over their stores |
| `HandoffContract` | what the verifier promises of handoffs: no versions, leases, processes or clock |
| `VerifierInv`, `VerifierProofs` | its inductive invariant, theorems |
| `WorldSessions` | World's sessions and the handoff handlers that open, poll and drop them |
| `WorldSessionsInv`, `WorldSessionsProofs` | its inductive invariant, theorems |
| `ResourceServer` | the middleware, the result stores and the managed verifier's state routes |
| `ResultContract` | what the result stores promise: who may use a result, until when |
| `ResourceServerInv`, `ResourceServerProofs` | its inductive invariants, use-once |
| `RetryProofs`, `ResultContractProofs` | retries and cleanup, the refinement |
| `AgentClient` | one call of each of the three clients, against a resource with a payment gate |
| `AgentClientProofs` | theorems |
| `Limits` | the two rate limiters and the circuit breaker around the provider call |
| `LimitsProofs` | theorems |
| `Issuance` | paths, grants, principals: who may have what issued |
| `Policy` | what may be required, which proof satisfies it, which result is sufficient |
| `WorldId` | the request material, the native proof and the remote answer of World ID |
| `Trust` | what an agent signs; which keys and metadata documents are believed |
| `Dependency` | composes the four decision modules along the life of one dependency |
| `DependencyProofs` | theorems |
| `MCVerifier`, `MCResource`, `MCDependency` | instances for TLC |

`Verifier`, `ResourceServer` and `AgentClient` meet at narrow places, where each
takes the others' promises: `ResourceServer` signs at most one result per
dependency (`OneResultPerDependency`), and in `AgentClient` a handoff ends once
(`HandoffContract`) and a result serves one operation (`ResultContract`).

### State and steps of `Verifier`

A *worker* is one request being served. Its `task` holds its program counter and
the locals it carries over an await: the dependency, the handoff, the version of
the snapshot it read or last wrote, and later the subject, the expiry and the
identifier of the result. A step is the code between two awaits together with
the store call that ends it, since store calls are atomic (a map operation, one
Redis script or command, one SQL statement).

| Variable | Code |
| --- | --- |
| `requirement`, `nonce`, `usedSubjects` | RequirementStore, NonceStore, ProviderReplayStore |
| `record` | the handoff documents; `keyTtl` is the PXAT time of the Redis key |
| `active` | `#activeDependencies`, the partial unique index, or the Redis dependency key |
| `result` | the signed results, and the poll each came through |
| `now` | the clock |

| Handler | Actions in order |
| --- | --- |
| `POST /v1/requirements` | `Issue`, `Register`, on a throw `Discard` |
| `DELETE /v1/requirements/:id` | `DeleteRequirement` |
| `POST .../handoffs` | `Start`, `StoreHandoff` |
| `GET /v1/handoffs/:id` | `Request`, maybe `Expire` and `Reread`, maybe `Reclaim`, `Claim`, `AskProvider`, then `Release`, `FailClaimed`, or `Lookup`, `ConsumeNonce`, `VerifyProof`, `Sign`, `Complete` |
| `DELETE /v1/handoffs/:id` | `Request`, maybe `Expire` and `Reread`, `Cancel` |
| `POST .../verify` | `Verify`, `ConsumeNonce`, `VerifyProof`, `Sign`, on a throw `Discard` |

`Backend` chooses how the stores behave. In memory a lazy expiry is atomic with
the read; over PostgreSQL and Redis it is a read and a compare-and-swap that may
be lost, after which `getAuthorized` calls itself. Over Redis a document and its
dependency key disappear at their PXAT time, which every update moves to at
least one second (`Grace`) after now. PostgreSQL compares the version where Redis
compares the whole document; a version determines its document, so `Matches` is
both. `ReplayMode` is the adapter's choice of who refuses a used subject.

### State and steps of `WorldSessions`

The same handlers as in `Verifier`, seen from the provider's side: here the
sessions, the failure codes, the answers and a store that throws are in the
state, and the requirement, the nonce and the result are not. A *starter* is a
`start`, a *request* a `poll` or a `cancel`; each step is the code between two
awaits.

| Step | Code |
| --- | --- |
| `StartHandoff`, `OpenSession` | the adapter's `startHandoff` before and after its await of the bridge |
| `CreateHandoff` | the rest of `start` |
| `Poll`, `Reclaim`, `Claim` | `poll` up to its claim |
| `Ask`, `Answer` | the adapter's `pollHandoff` before and after its await of the bridge |
| `Satisfy`, `Complete`, `Release`, `FailClaimed` | the rest of `poll` |
| `Cancel`, `Drop`, `CancelDocument` | `cancel`, with the adapter's `cancelHandoff` between |
| `StoreFails` | a call of `update` throws, having stored or not |
| `Restart`, `Tick` | the one process is replaced; time |

`session` is the adapter's map; of a session that has left it, what took it out,
and, where a poll did, when that poll's claim ends. `document` is the store. A
request that ends the agent's call keeps its answer until its slot is used again.

### State and steps of `ResourceServer`

A `request` is one HTTP attempt with a result; a client's retry is another one.
Its program counter is the await it stands at, and `at` is the `now` that the
middleware (or, once it has the call, the managed verifier's route) captured.

| Step | Code |
| --- | --- |
| `Challenge`, `Sign` | the 424 with a stored requirement; the verifier's signature |
| `Receive` | the header checks, and the one reading of the clock |
| `Lookup` | `requirementStore.get`, `assertCurrentMatchesStored`, `verifyHumanProofHeader` |
| `Route` | the managed verifier's handler, with its own clock |
| `Snapshot` | PostgreSQL's acceptance statement takes its snapshot, before its insert may wait |
| `Use` | `consume` or `accept` of the store at hand; its answer may be lost |
| `Delete` | the eager cleanup after a read |
| `Fail`, `RestartServer`, `RestartVerifier`, `Upgrade`, `Tick` | a failing call, lost processes, the 0.1.3 cutover, time |

`config` is the deployment, fixed at startup, among those that
`assertProtectOptions` admits: profile, backends, what is kept remotely, which
stores are configured. `entry` holds the rows of both result stores under their
plain and their tenant-scoped identifiers. `StoreClock` says whose clock each
store compares with: Redis and PostgreSQL's plain statement use their own, the
others the caller's captured `now`. `used`, `usedAt` and `why` record what the
store granted and why a request was refused, for the properties.

### State and steps of `AgentClient`

`setup` fixes the client, its request and the resource, all 384 of them.
`pc` walks `Copy`, `Send`, `Got1`, then `Resolve` (both plain clients) or
`Start`, `Present` and the loop `Check`, `Poll`, `Delay` up to `Report` or
`Cancel` (the agent), then `Send`, `Got2`, and with a payment `Pay`, `Send`,
`Got3`. Every awaited call may throw, before or after it took effect. `Serve` is
the resource: the human gate and the x402 gate in either order, of which the
first that does not pass answers. `SettleHandoff`, `Abort` and `ExpireResult` are
the rest of the world. `orphan` remembers why nobody cancels an open handoff.

### State and steps of `Limits`

`Consume` is either limiter's `consume` for one key; `SendCall`, `RefuseCall`,
`Succeed` and `FailCall` are `#verifyWithWorld` around `assertClosed`,
`recordSuccess` and `recordFailure`, with any number of calls on their way and
`AbortSignal.timeout` on each. Times are kept as ages that stop growing where the
code no longer tells them apart (a hit at a window, an open circuit at its
cool-down), so time never ends and the state space is finite. `granted`, `sent`
and `stale` are what the properties compare.

### State and steps of `Dependency`

An agent signs its request (`SignRequest`); a resource server, or whoever has
the message, has a requirement issued for it (`Issue`: agent signature,
`AuthorizeIssuance`, request material, `createHumanRequirement`, the checks of
`register`); a human's proof, any of those about, is submitted and answered by
World (`Satisfy`: `assertNativeProof`, the answer, `assertVerifiedOutput`, the
signed result); meanwhile the operator rotates, redeploys and revokes keys and
signs metadata documents (`Rotate`, `Redeploy`, `Revoke`, `Tick`). Each guard is an
operator of `Issuance`, `Policy`, `WorldId` or `Trust`, translated from the function
whose name it bears. The state is that of one dependency: `deploy`, `signed`, `issued`,
`requirement`, `result`, and `keys`, `signer`, `revokedAt`, `documents`.

### Abstractions

Of all modules:

- Identifiers are model values; fresh ones are never reused (they are random).
  Capabilities are left out: a request is one that presents the right one.
- Encryption and signing are choices between success and a throw; a signature is
  the record of what was signed, which nobody can make but its signer. A digest
  is the value itself, different for different requests.
- All processes read one clock. Clock skew between processes is not modelled
  (`Skew` in `Trust` is the tolerance that the agent-signature check grants).

Of `Verifier`:

- A provider's answer, the method catalog, the output checks are choices between
  success and a throw; `Dependency` looks into them. Wherever the code catches a
  throw, the catch is modelled. A store call that itself fails outside a `try`
  ends the request where it stands, which is what `Crash` does.
- `VerifyProof` merges the provider call, the replay digest and
  `providerReplayStore.consume`: nothing shared is written before the last, and
  a requirement that is current when the provider answered (when `issuedAt` is
  fixed) is not examined again.
- `ResultTTL` stands for the least of `maximumResultTtlSeconds` and the proof's
  own lifetime. `ClaimTTL` stands for `max(10 s, 3 * pollAfterMs)`.
- A dependency is issued once. A requirement can be deleted by its resource
  server only once its identifier has been answered to it.
- Requests on a handoff that has already ended only read; they are left out.
- Tenants, authentication, rate limits and the capacity of the in-memory
  requirement store are left out. They refuse requests before any state changes.

Of `WorldSessions`:

- One process serves all requests, as the chart enforces (one replica), and the
  documents outlive it, as in PostgreSQL. In Redis an overdue document would not
  block a start.
- `getAuthorized` with its lazy expiry is one step. `Verifier` takes it apart.
- A session may end at any time after now, whatever the maximal lifetime of
  a request to World; a handoff ends with its session or, with its requirement,
  before it.
- What follows World's confirmation (requirement, `satisfy`, encryption) succeeds
  or fails. IDKit's request object and World's bridge are external: `pollOnce`
  answers pending, confirmed or failed, or throws.
- Requests for a handoff that has ended only read; they are left out.

Of `ResourceServer`:

- A dependency and its one result share an identifier. What a requirement is
  bound to (method, URI, body digest, caller, purpose, audience) is one `target`.
- The managed verifier's caller is authenticated and keeps its tenant.
- The in-memory stores' `maximumEntries`, and the pruning of a result's entry
  that another result's request causes, are left out: an expired entry that is
  still there counts for nothing in memory.

Of `AgentClient`: the resource holds one result and what it was used for, and
headers and bodies are what the answers depend on (a readable challenge for this
request, a key, a proof). Of `Limits`: one limiter key, whose window is whole units
of time. Of `Dependency`: `AgentAuthentic` takes the resource server to call
`verifyX424AgentRequest`, as `docs/ADOPTION.md:119` and
`docs/ARCHITECTURE.md:139` ask of it; the middleware itself does not. App,
relying party, action and environment of World's messages are one field, the
adapter's own or another.

## 3. The runs

| Run | Instance | Shows |
| --- | --- | --- |
| `handoff_safety` | PostgreSQL, 2 requests, 2 handoffs of 1 dependency, 2 results, clock to 3 | types, the index, the claim, the completion, the contract and the inductive invariant |
| `handoff_redis` | Redis, 2 requests, 2 handoffs, `Grace` 2, clock to 3, fair | the inductive invariant under eviction (the index, lifetimes and leases among it), and the index's release with no client's help |
| `handoff_liveness` | PostgreSQL, 2 requests, 1 handoff, clock to 2, agents that poll | requests finish, leases are recovered, handoffs end |
| `service` | memory, 2 requests, 2 dependencies, 2 humans, 3 results, with a handoff | one result per dependency and per human |
| `sessions` | 2 starts, 2 polls or cancels, 1 ceremony, capacity 1, leases of 1, clock to 3, fair | the capacity and that it comes back, losses, answers and leftovers of sessions, the inductive invariant |
| `acceptance` | 3 requests, 1 result, 2 keys, a read and a mutation, 9 deployments, clock to 2 | use-once, retries, cleanup, the contract and the inductive invariant |
| `agent` | every client, request and resource, fair | payment order, no repeated action, handoff cleanup, keyed retries, the call's end |
| `limits` | 3 calls, window 3, 2 requests, threshold 2, cool-down 3, time-out 2, fair | rates, `retry-after`, the open circuit, the load on a failing provider, recovery |
| `dependency` | 2 agents, 5 messages, 4 principals, 6 lists of accepted methods, 3 deployments, 2 keys, clock to 2 | what the separate checks come to together |
| `completion_atomic` | PostgreSQL, 2 requests | violated, see section 6 |
| `requirement_retained` | memory, 2 requests | violated, see section 6 |
| `final_retry` | as `agent` | violated, see section 6 |

### Properties

*Verifier.* `ActiveIndex`: `active[d] = h` exactly when `h` is a live handoff
of `d`. `ExclusiveClaim`: of two polls that hold a claim of a handoff, one is
stale and cannot write. `OneResultPerDependency` and `OneResultPerSubject`: as
they say, across polls, direct proofs and lost processes.
`CompletionIsOwnResult`: a completed handoff delivers the result of its own poll
for its own dependency. `ImplementsContract`: the verifier refines
`HandoffContract` under the mapping that forgets versions and leases, so a
handoff opens only when its dependency has no other open one, ends once, and
completes only with a result issued through it. `RequestsFinish`,
`LeaseRecovered`, `HandoffsEnd` and `ExpiryReleasesIndex` are liveness.

*World sessions.* `SessionsBounded`: the capacity is compared before an await and
used after it, so concurrent starts overshoot it; the sessions and the starts
that may yet add one exceed it by at most one for each other start under way.
`CapacityReturns`: a full map makes room although nobody
polls or cancels. `LossExplained`: `WORLD_SESSION_LOST` is the end of a handoff
only if the process was replaced, a cancel dropped the session and lost the
document to a poll, the time of the handoff was up, or the poll that had taken the
session outlived its claim. `AnswerHonest`: the answer that ends the agent's call
is how the handoff ended; "failed" is untrue only of a poll that outlived its claim
or whose store threw after it had stored. `SessionReleased`: an open session
has an open handoff, or none because its start was refused, or one that expired
or was ended by a throw.

*Resource server.* `OneOperationPerResult`: two operations (an idempotency key,
or a request without one) never use one result. The property names what the code
does not exclude: a store other than PostgreSQL, asked with a clock that was read
before the result lapsed, grants it once more afterwards; a store in memory
that its process lost forgets; and in dev-local a mutation without a key goes to
the other store than one with a key. `SpentMeansSpent`: a request is refused as
spent because another operation used the result, or, on PostgreSQL alone, because
its own operation's first acceptance committed after it had begun or its row had
lapsed. `CleanupAfterUse`: a live requirement is deleted only for a read whose
result was used, and a read is admitted only when its requirement is gone.
`ResultUsedOnce`: the stores implement `ResultContract`, whose `memory` says how
long they promise to remember: for ever (PostgreSQL), while the result is valid,
or not at all.

*Agent client.* `PaidAfterHumanity`, `ExecutedOnce`, `HandoffReleased` (a call
ends with an open handoff only if the start's answer was lost, the presenter
threw when it was first shown the handoff, or the cancellation failed),
`KeyedRetryAccepted`, `CallEnds` (unless the handoff stays open for ever and
nobody aborts).

*Limits.* `RateBounded` (twice as many over Redis, whose window is fixed),
`RetryAfterHonest`, `OpenSendsNothing` (what flies while the circuit cools down
was sent before it opened), `ProviderLoadBounded` (the threshold less one, and
one for each concurrent call), `LimiterLapses` and `CircuitRecovers`: refused
requests and refused calls do not prolong the refusal.

*Dependency.* `AgentAuthentic`: a requirement binds the agent that signed this
very request, within the signature's lifetime. `Granted`: it lies within the
issuer's grants, its path under a granted prefix segment by segment (against a
definition by lists of segments). `ResultOfThisCeremony`: a result is about the
ceremony made for this requirement and caller and names the credential that the
human has. `IssuedSuffices`: what `satisfy` signs `evaluateHumanResult` accepts
until it expires or its proof is too old. `RevocationBounded`: a key revoked
one document lifetime ago is believed by no holder of any document.

### Bounds and why they are enough

*Verifier.* `MaxTime` bounds the clock. With lifetimes of one or two units,
leases of one and a clock to three, a lease ends before its handoff, with it, and
after the handoff has expired, and a second handoff can be started after the
first. Two workers give every race of two requests, and a third request can
follow either. Two handoffs let a late writer of the first meet the second in the
index. Three results and two subjects allow a second result for either dependency
and either human, if the code gave one. `MaxVersion` keeps clients from polling a
live handoff for ever; it bounds new requests only, never a request in progress.
In the Redis run `Grace` 2 outlasts the handoff, so that late updates really
prolong keys.

*World sessions.* A second poll or a cancel meets the first one at any of its
awaits, within its lease and after it; each of the causes that `LossExplained`
names and each exception of `AnswerHonest` and `SessionReleased` does happen. Two
starts pass the comparison of a map for one together. Ceremonies touch each other
only through the number of sessions, so one is enough for the rest; `MaxVersion`
bounds new polls only.

*Resource server.* Three requests are a first use, its retry and another
operation, in any order, on either side of a restart or the upgrade. Results are
independent of each other in this model, so one is enough; a lifetime of two and a
clock to two let it lapse at any await. The nine deployments have every backend,
both stores local and remote, both profiles and the dev-local variants.

*Agent client* has no bound but its own control flow. *Limits*: three calls exceed
both `Max` and `Threshold`; window, cool-down and time-out of different lengths
let a late answer meet a closed, an open and a recovered circuit; the counters
stop where they tell nothing more. *Dependency*: each set has a member for each
way its check can fail (a path beside the prefix, an ambiguous prefix, another
origin, a changed body, a principal without grants, material of another ceremony,
a proof of the other version, an answer about another human), lifetimes of one and
a clock to two let signature, result, key and document lapse, each before the
other.

The theorems do not depend on any of these numbers.

`CHECK_DEADLOCK FALSE` is set in all runs but `limits` and `sessions`:
clients may stop, a call ends, the bounded clocks stop, and then nothing is left to
do. Symmetry is used
only in runs without liveness.

### Fairness

*Verifier.* `Tick` is weakly fair: time passes. The steps of each worker are
strongly fair: node's event loop resumes every await, adapters bound their
provider calls with timeouts, and a lost process is replaced, so a request slot
that is lost again and again still serves one request to its end eventually.
Clients owe nothing, except in `PollingSpec`, used by `handoff_liveness`, where
agents keep polling the handoffs they started (`waitForHandoff` in
`src/agent.ts`). `LeaseRecovered` and `HandoffsEnd` are claimed only of leases
and expiries that the bounded clock can reach, and `ExpiryReleasesIndex` exempts
a key whose PXAT time lies beyond the end of the clock.

*World sessions.* `Tick` is weakly fair, and so are the starts:
clients go on asking for handoffs, and the bridge answers or its call fails.
Polls and cancels are not: an abandoned ceremony is the case in question.

*Agent client.* The client's own step is weakly fair: what it awaits settles.
Neither the human, the verifier nor the user who may abort owes anything.

*Limits.* `Tick` is weakly fair, and so is the failure of a call that has reached
its `AbortSignal.timeout`. Nothing makes the provider answer.

`ResourceServer` and `Dependency` are checked for safety only, without fairness.

### Mutants

Each property of a passing run has a mutant of a modelled definition that breaks
it: a swap that ignores the version, a nonce that is looked up and not marked,
an index that is never released, a legacy identifier that is not looked up, a
repeated operation that is not recognised, an abort that throws past the catch, a
key renewed by every request, a prefix that ends anywhere, a document that never
expires, and so on.

## 4. What is proved

Each theorem is proved from its module's assumption on the constants alone
(`VerifierAssumption`, `SessionsAssumption`, `ResourceAssumption`,
`LimitsAssumption`, `PolicyAssumption`, `TrustAssumption`, `DependencyAssumption`:
their ranges, that a message is the record of its six fields, and that paths and
prefixes are sequences of characters), for all sizes, lifetimes, bounds, backends
and deployments.

| Module | Theorem | Property |
| --- | --- | --- |
| `VerifierProofs` | `Handlers`, `Typing` | `HandlerInv`, `TypeOK` |
| | `ActiveIndexed` | `ActiveIndex` |
| | `ClaimsExclude` | `ExclusiveClaim` |
| | `Results`, `SatisfiedOnce`, `SubjectOnce` | `ResultInv`, `OneResultPerDependency`, `OneResultPerSubject` |
| | `CompletionOwned` | `CompletionIsOwnResult` |
| | `Inductive` | `IndInv` |
| | `EndedStays` | `EndsOnce` |
| | `Lifetimes` | `LifetimeInv /\ CurrentInv` |
| | `LeasesRespected` | `LeaseRespected` |
| | `Implementation` | `ImplementsContract` |
| `WorldSessionsProofs` | `Invariant` | `IndInv` |
| | `Bounded`, `Losses` | `SessionsBounded`, `LossExplained` |
| | `Honesty`, `Releases` | `AnswerHonest`, `SessionReleased` |
| `ResourceServerProofs` | `Invariant`, `UseOnce` | `IndInv`, `OneOperationPerResult` |
| `RetryProofs` | `Retries` | `RetryInv` |
| | `SpentForAReason`, `CleanupFollowsUse` | `SpentMeansSpent`, `CleanupAfterUse` |
| `ResultContractProofs` | `Implementation` | `ResultUsedOnce` |
| `AgentClientProofs` | `InvInvariant` | `Inv` |
| | `PaymentOrder`, `NoRepeatedAction`, `HandoffCleanup`, `KeyedRetry` | `PaidAfterHumanity`, `ExecutedOnce`, `HandoffReleased`, `KeyedRetryAccepted` |
| `LimitsProofs` | `CircuitInvariant` | `CircuitTypeOK /\ CircuitInv` |
| | `OpenCircuit`, `ProviderLoad` | `OpenSendsNothing`, `ProviderLoadBounded` |
| | `LimiterInvariant` | `LimiterTypeOK /\ LimiterInv` |
| | `Rate`, `RetryAfter` | `RateBounded`, `RetryAfterHonest` |
| | `Invariant` | `Inv` |
| `DependencyProofs` | `DependencyInvariant` | `DependencyInv` |
| | `AgentSigned`, `CeremonyBound` | `AgentAuthentic`, `ResultOfThisCeremony` |
| | `SufficientUntilOld`, `RevocationTakesEffect` | `IssuedSuffices`, `RevocationBounded` |
| | `IssuedWithinGrants` | `Granted` |
| | `PrefixRule` | of `Under` and `SegmentList` |

**Verifier.** None of the properties is inductive alone. `IndInv` adds what the
handlers know:

1. `HandlerInv` says what each step of a handler holds. Its heart is
   `SnapshotInv`: a worker's version is at most the document's, and while equal,
   the document has not ended. A stale worker is thereby recognised by its
   version alone, which is what makes compare-and-swap enough.
2. `DocumentStep` classifies every step by what it does to the documents:
   nothing, a creation, an advance of one live document, or an eviction. From
   this follow `ActiveIndex` (`ActiveAdvance`, `ActiveStep`) and the refinement.
   The in-memory store deletes the index entry without looking whom it names;
   that this is sound rests on `ActiveIndex` and on `SnapshotInv`.
3. `ClaimStep` shows that a worker enters the claimed steps only by the swap
   that made its version current, which makes every earlier claim stale
   (`StaleStep`), hence `ExclusiveClaim`.
4. `ResultStep` classifies every step by what it does to nonces, subjects and
   results. `NonceInv` says that between the nonce and the signature a worker is
   alone with its dependency, `SubjectInv` the same of its subject after the
   replay store, `RegisterInv` that a nonce is registered once, and
   `CompleteInv` that a worker about to complete carries its own result.
5. `EndedStays` reads off the same classes that only live documents advance: the
   first outcome of a handoff is its only one, until its record lapses
   (`EndsOnce`, stated in `VerifierProofs`). `AgentClient` relies on it.
6. `Lifetimes` proves the two parts of `IndInv` that time enters. `LifetimeInv`: a
   handoff is called expired, and its Redis record lapses, only at its expiry, and
   a claim lasts one lease at most and not beyond the handoff. `CurrentInv`: while a
   snapshot is the stored version, what its handler decided on it is still so (the
   handoff has expired, is free to claim, or its claim ran out), and a
   `getAuthorized` that calls itself holds a version that is no longer stored.
   Neither is inductive without the other: an expiry is due because the snapshot
   says so, and a snapshot keeps its meaning because a version that is stored before
   and after a step is of an unchanged document (`SameVersion`). `RenewalStep`
   classifies the writes again, by what they keep of expiry and claim.
7. `LeasesRespected` follows: until its lease ends, a claimed handoff changes only
   through the poll that holds the claim, or a cancel (`LeaseRespected`, stated in
   `VerifierProofs`). With the bound on leases this is the safety half of
   `LeaseRecovered`, and `CurrentInv` that of `RequestsFinish`.
8. `Implementation` maps each class of step to a step of the contract or a
   stutter.

**World sessions.** The capacity is bounded because a start at the bridge counts like
an open session. The rest turns on claims: `SnapshotInv` is that of
`Verifier`; a swap makes a claim's version larger than every other snapshot, so
two polls never hold current claims of one handoff (`ExclusiveInv`), and a claim
that is no longer current has run out, or the handoff has ended, or the poll's
store threw (`ClaimInv`). Hence the poll that takes a session out of the map is
the only one that may ask for it while its claim lasts (`TakerInv`), and whoever
misses it afterwards finds an explanation (`LostInv`). A step of one request
moves at most the document of its handoff (`Moving`), in a way that takes no
current claim from another (`Fits`), and only ever closes sessions (`Closing`);
the lemmas about others' knowledge need no more.

**Resource server.** `OneOperationPerResult` says nothing about rows, so it does
not survive a step by itself. `GrantInv` does: whoever was granted a result is
remembered by a row, unless the row lapsed with the result or the process that
kept it stopped together with every request at work on it. `EntryInv` says that
a row expires with its result, and that the plain and the scoped row of one
result are never both valid; `RequestInv` that a request past its lookup is for
the requirement's own target (which decides the store) and came before the
result's expiry; `SeenInv` that PostgreSQL's snapshot, however old, still names
the operation of a row. Every action but `Use` leaves what has been granted alone
and is disposed of by what it may change; `Use` needs that a free store has no
grant to remember, or that the same operation repeats its own.

`SpentMeansSpent` asks who is to blame for a refusal. `RetryInv`, inductive once
`IndInv` is known on both sides of a step, adds that every row has a writer that
was granted the result (`Writer`) and that PostgreSQL's snapshot overlooks a
use of the same operation only if it came after the request's clock or once the
row lapsed (`Overlooks`, which `GrantInv` gives when the snapshot is taken). A
store that refuses therefore shows a row of another request (`Blamed`), and the
refusal stays explained, since grants and tokens never change. For the cleanup,
`Cleaning` says that only a read that has used its result comes to it, and
`GoneStays` that a requirement that is not to be had is not to be had later.

For the refinement, every step but `Use` leaves all users as they are
(`Steady`); a grant adds its operation (`UseUsers`), and where another operation
used the result before, the proof of use-once (`UseTwice`) shows that the store
was free to forget it (`UseFree`).

**Agent client.** `PaymentInv`, `ResultInv` and `HandoffInv` say of each step of the
call what it holds: from the second request on a proof, before the answer of the
last one no execution, outside the waiting steps no open handoff that is
still to be cancelled.

**Limits.** While the circuit is closed, every call sent since it closed is on
its way or was counted as a failure: `sent <= failures + Cardinality(Flying)`. It
opens at the threshold, after which nothing is sent.

The limiters' `LimiterInv` says how what the code keeps relates to what it granted.
Both lists are in order of age (`Descending`), so a filter by age drops the first
ones only (`YoungerIs`). In memory the granted requests of the last window are
exactly the hits that still count. Over Redis, those the key has not counted are at
most `Max`, all of one earlier key, and each leaves the window before the key that
is counted in now expires (`Before`): hence twice the limit and no more. An honest
`retry-after` is the age of the oldest hit that counts, or the key's `ttl`; after
that wait the one is filtered out, or the other gone.

**Dependency.** For `AgentSigned`, `CoveredIsSigned` shows that a signature which
covers a message with exactly the required components, and whose digest is that
of the body, fixes every field of the message that was signed (the components
present say which fields are empty, the base gives the others). For
`SufficientUntilOld`, `SufficedWhenIssued` keeps that each part of
`EvaluateHumanResult` was empty at the moment of signing (`SatisfySuffices`: the
checks of `satisfy` imply those of the evaluation); only two of its codes depend
on the clock in a way that time can turn against the result (`SufficesLater`).
For `RevocationTakesEffect`, `Shows`: a document that does not show a revocation is
no younger than it, so one lifetime later it has run out.

For `Granted`, the code compares characters (`startsWith`, then a slash) where the
property compares lists of segments, `SegmentList`. `SegmentListIs` unfolds this
list character by character (`Extended`): a slash leaves it as it is, the first
character after one opens a segment, any other lengthens the last. So segments only grow, and a slash closes one for ever
(`ListsGrow`): a path that continues a prefix at a slash continues its segments
(`CoversSegments`). `PrefixRule` is the converse as well: a path without double
slashes is determined by its segments (`SegmentsDetermine`), so the code also grants
every unambiguous path below its prefix. `IssueGranted` puts this together with the
other parts of `AuthorizeIssuance`.

What a recursive function yields for every length (`Younger`, `SegmentList`) is
proved here by its least counterexample: `LeastNatural`, from the
well-foundedness of the naturals, names it without an operator parameter.

Only model-checked: the liveness properties (fairness and ENABLED are beyond this
prover), `ExpiryReleasesIndex`, `RequestsFinish`, `LeaseRecovered`, `HandoffsEnd`,
`CapacityReturns`, `CallEnds`, `LimiterLapses` and `CircuitRecovers`; and the
divergences of section 6, which are counterexamples. Every safety and action
property of the runs is a theorem.

## 5. The plan

Done: `Verifier`, `WorldSessions`, `ResourceServer`, `AgentClient`, `Limits`, the
decision modules and their composition, each with its proofs. Left, in order of importance:

1. The in-memory stores' capacity (`maximumEntries`) in `Verifier` and
   `ResourceServer`.
2. `ResourceServer` and `AgentClient` over the contracts of the components they
   use, in place of their own reading of them.

## 6. Where the code and its documents differ

- `docs/PROTOCOL.md` 9.1 calls completion and nonce consumption atomic. A cancel
  or an expiry between them spends the nonce and loses the signed result
  (`completion_atomic`).
- A comment in `POST .../verify` says that the requirement is retained until the
  resource server has evaluated the result. A repeat of the request deletes it
  (`requirement_retained`).
- `README.md` 302-306 has `fetchWithX424AndX402` pay with a final retry that
  carries both proofs, and asks for idempotency of mutations only. The
  middleware uses a read's result up at the retry before it, whatever the payment
  gate answers, and refuses the final one (`final_retry`). A keyed mutation gets
  through (`KeyedRetryAccepted`).

The following is what the code does and no document denies; the properties name
it as an exception, or the model shows it:

- The handoff runbook (`docs/runbooks/handoff-operations.md:38`) lets an orphaned
  handoff expire and so release its dependency. Redis releases it by itself
  (`ExpiryReleasesIndex` in `handoff_redis`); PostgreSQL and memory do so when
  the capability's holder reads it, and not before (`HandoffsEnd` in
  `handoff_liveness` needs agents that poll).
- Over PostgreSQL, two concurrent requests of one operation: the second is
  refused as a replay when its statement began before the first committed.
- A request that read its clock before its result lapsed and reaches the result
  store afterwards is granted a result that was used before, if the store is in
  memory or Redis and has dropped the lapsed entry.
- Outside dev-local the router asks for durable requirement and rate stores
  (`src/api/router.ts:337-357`), not for durable result stores: a managed
  verifier that restarts with result stores in memory forgets what was used.
- In dev-local without required keys, a mutation with a key and one without use
  different stores, so one result serves both.
- An agent that is told "failed" by a poll gives up, although the handoff may still
  complete: the poll outlived its claim and another one took over, or the store's
  `update` threw after it had stored.
- A single throw of World's `pollOnce`, of the decryption or of the store fails the
  handoff for good; its session stays in the map until it expires.
- `cancel` deletes the session first. If a poll then wins the document, the cancel
  is answered 404 (`src/api/router.ts:788`) and the handoff fails at its next poll.
- `retry-after` is constantly 1 on the issue and verify routes
  (`src/api/router.ts:482`, `932`); the limiters themselves report the honest
  time (`RetryAfterHonest`).

## 7. Not modelled

- *Byte formats*: canonical JSON, result and metadata token encodings, HTTP
  message signatures, AES protection of provider state, header encodings. They
  keep no protocol state; a step of theirs is a value, a success or a throw here.
- *IDKit and World's bridge*, behind `src/providers/world-id-client.ts`:
  third-party. A poll of a session is answered pending, confirmed or failed, or
  throws (`WorldSessions`); what a confirmed one brings is in `WorldId`.
- *MCP server and command lines*: input and output around the operators of
  `Policy` and the calls of `AgentClient`.
- *HTTP transport, facades, framework wrappers, CORS and response headers,
  bounded readers*: wrappers that pass a request on or refuse it. Redirects and
  foreign challenges, which clients decide on, are in `AgentClient`.
- *Schemas, the static metadata route, redaction, error texts, health routes,
  bearer-token tables and their entropy*: shape checks and wording.
- *Site, demo, deployment files, conformance vectors*: presentation and data.
