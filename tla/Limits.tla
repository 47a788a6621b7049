------------------------------- MODULE Limits -------------------------------
(***************************************************************************)
(* What stands between a request and the provider: the rate limiter         *)
(* (MemoryRateLimiter in src/src/ops/limits.ts or RedisRateLimiter in       *)
(* src/src/redis.ts), the CircuitBreaker, and the World ID call that uses   *)
(* it (#verifyWithWorld in src/src/providers/world-id.ts).                  *)
(*                                                                         *)
(* Time is kept as ages, which stop growing where the code no longer tells  *)
(* them apart, so that the model runs for ever in finitely many states.     *)
(***************************************************************************)
EXTENDS Integers, Sequences, FiniteSets

CONSTANTS
    Calls,      \* requests of one limiter key served at the same time
    Window,     \* windowMs
    Max,        \* maxRequests
    Threshold,  \* failureThreshold
    CoolDown,   \* coolDownMs
    Timeout     \* AbortSignal.timeout of the call to World

ASSUME LimitsAssumption ==
    /\ IsFiniteSet(Calls)
    /\ Window \in Nat \ {0}
    /\ Max \in Nat \ {0}
    /\ Threshold \in Nat \ {0}
    /\ CoolDown \in Nat \ {0}
    /\ Timeout \in Nat \ {0}

VARIABLES
    limiter,   \* "memory" or "redis", fixed
    hits,      \* MemoryRateLimiter: ages of the hits, oldest first
    count,     \* RedisRateLimiter: the counter of the key
    ttl,       \* RedisRateLimiter: its time to live, 0 if there is no key
    granted,   \* ages of the requests allowed in the last window, by either
    failures,  \* CircuitBreaker
    opened,    \* CircuitBreaker: openedAt is not null
    openFor,   \* CircuitBreaker: now - openedAt
    call,      \* where each request is
    sent       \* calls sent since the circuit last closed or saw a success

vars == <<limiter, hits, count, ttl, granted, failures, opened, openFor, call, sent>>
limits == <<limiter, hits, count, ttl, granted>>
circuit == <<failures, opened, openFor>>

-----------------------------------------------------------------------------
(* Types *)

\* stale: the circuit opened after the call was sent.
Call == [pc : {"idle", "allowed", "calling"}, age : 0 .. Timeout, stale : BOOLEAN]
Idle == [pc |-> "idle", age |-> 0, stale |-> FALSE]
Underway == [pc |-> "calling", age |-> 0, stale |-> FALSE]

LimiterTypeOK ==
    /\ limiter \in {"memory", "redis"}
    /\ hits \in Seq(0 .. Window)
    /\ count \in Nat
    /\ ttl \in 0 .. Window
    /\ granted \in Seq(0 .. Window)

CircuitTypeOK ==
    /\ failures \in Nat
    /\ opened \in BOOLEAN
    /\ openFor \in 0 .. CoolDown
    /\ call \in [Calls -> Call]
    /\ sent \in Nat

Init ==
    /\ limiter \in {"memory", "redis"}
    /\ hits = <<>> /\ count = 0 /\ ttl = 0 /\ granted = <<>>
    /\ failures = 0 /\ opened = FALSE /\ openFor = 0
    /\ call = [c \in Calls |-> Idle]
    /\ sent = 0

-----------------------------------------------------------------------------
(* The rate limiters *)

\* filter: the ages below a limit, in their order.
Younger(ages, limit) ==
    LET kept[n \in 0 .. Len(ages)] ==
            IF n = 0 THEN <<>>
            ELSE IF ages[n] < limit THEN Append(kept[n - 1], ages[n])
            ELSE kept[n - 1]
    IN kept[Len(ages)]

\* Mutants: a hit exactly one window old still counts; the oldest hits that
\* should count do not.
PriorClosed(ages) == Younger(ages, Window + 1)
PriorShort(ages) == Younger(ages, Window - 1)

Recent(ages) == Younger(ages, Window)

\* ts > now - windowMs
Prior(ages) == Younger(ages, Window)

Allows == IF limiter = "memory" THEN Len(Prior(hits)) < Max ELSE count < Max

\* resetAt - now of a refused request: when the oldest hit leaves the window,
\* or when the key expires.
ResetIn == IF limiter = "memory" THEN Window - Head(Prior(hits)) ELSE ttl

\* Mutant: every request renews the key, the refused ones too.
RenewAlways == Window

\* RATE_LIMIT_SCRIPT sets the expiry with the first hit only.
Renew == IF count = 0 THEN Window ELSE ttl

\* Bound: a counter above Max tells nothing more.
Increment == IF count <= Max THEN count + 1 ELSE count

Consume(c) ==
    /\ call[c].pc = "idle"
    /\ IF limiter = "memory"
         THEN /\ hits' = IF Allows THEN Append(Prior(hits), 0) ELSE Prior(hits)
              /\ UNCHANGED <<count, ttl>>
         ELSE /\ count' = Increment
              /\ ttl' = Renew
              /\ UNCHANGED hits
    /\ granted' = IF Allows THEN Append(granted, 0) ELSE granted
    /\ call' = IF Allows THEN [call EXCEPT ![c].pc = "allowed"] ELSE call
    /\ UNCHANGED <<limiter, sent>> /\ UNCHANGED circuit

-----------------------------------------------------------------------------
(* The circuit breaker around the call to World *)

Cooling == opened /\ openFor < CoolDown

Close == failures' = 0 /\ opened' = FALSE /\ openFor' = 0

\* Mutant: a refused call is recorded as a failure of the provider.
RefuseCounted ==
    /\ failures' = failures
    /\ opened' = TRUE
    /\ openFor' = 0

\* assertClosed throws before the try block: nothing is recorded.
Refuse == UNCHANGED circuit

\* Mutant: a call goes out although the circuit is open.
SendOpen(c) == call[c].pc = "allowed"

\* assertClosed: an elapsed cool-down closes the circuit for every caller.
MaySend(c) == call[c].pc = "allowed" /\ ~Cooling

SendCall(c) ==
    /\ MaySend(c)
    /\ call' = [call EXCEPT ![c] = Underway]
    /\ IF opened /\ openFor >= CoolDown
         THEN Close /\ sent' = 1
         ELSE UNCHANGED circuit /\ sent' = sent + 1
    /\ UNCHANGED limits

RefuseCall(c) ==
    /\ call[c].pc = "allowed" /\ Cooling
    /\ call' = [call EXCEPT ![c] = Idle]
    /\ Refuse
    /\ UNCHANGED sent /\ UNCHANGED limits

\* recordSuccess, however late: the circuit closes even while it cools down.
Succeed(c) ==
    /\ call[c].pc = "calling"
    /\ call' = [call EXCEPT ![c] = Idle]
    /\ Close
    /\ sent' = 0
    /\ UNCHANGED limits

\* Mutant: failures are counted but open nothing.
TripsLate == failures > Threshold

Trips == failures + 1 >= Threshold

\* recordFailure: not ok, not JSON, a network error or the time-out.  Bound:
\* the counter stops at Threshold, where it tells nothing more.
FailCall(c) ==
    /\ call[c].pc = "calling"
    /\ failures' = IF failures < Threshold THEN failures + 1 ELSE failures
    /\ IF Trips
         THEN /\ opened' = TRUE /\ openFor' = 0
              /\ call' = [d \in Calls |->
                    IF d = c THEN Idle
                    ELSE IF ~opened /\ call[d].pc = "calling"
                      THEN [call[d] EXCEPT !.stale = TRUE]
                    ELSE call[d]]
         ELSE /\ UNCHANGED <<opened, openFor>>
              /\ call' = [call EXCEPT ![c] = Idle]
    /\ UNCHANGED sent /\ UNCHANGED limits

\* A call that is due fails before time goes on.
Older(ages, limit) ==
    [i \in DOMAIN ages |-> IF ages[i] < limit THEN ages[i] + 1 ELSE ages[i]]

Tick ==
    /\ \A c \in Calls : call[c].age < Timeout
    /\ hits' = Older(hits, Window)
    /\ granted' = Recent(Older(granted, Window))
    /\ ttl' = IF ttl > 0 THEN ttl - 1 ELSE 0
    /\ count' = IF ttl = 1 THEN 0 ELSE count
    /\ openFor' = IF Cooling THEN openFor + 1 ELSE openFor
    /\ call' = [c \in Calls |-> IF call[c].pc = "calling"
                                  THEN [call[c] EXCEPT !.age = @ + 1] ELSE call[c]]
    /\ UNCHANGED <<limiter, failures, opened, sent>>

Next ==
    \/ \E c \in Calls : \/ Consume(c) \/ SendCall(c) \/ RefuseCall(c)
                        \/ Succeed(c) \/ FailCall(c)
    \/ Tick

\* Time passes, and AbortSignal.timeout ends a call that is due.
Spec == Init /\ [][Next]_vars /\ WF_vars(Tick)
        /\ \A c \in Calls : WF_vars(call[c].age = Timeout /\ FailCall(c))

-----------------------------------------------------------------------------
(* Properties *)

\* Rate.  In any window, MemoryRateLimiter allows at most maxRequests, at its
\* edge too; RedisRateLimiter, whose window is fixed, at most twice as many.
RateBounded ==
    Len(granted) <= IF limiter = "memory" THEN Max ELSE 2 * Max

\* Retry-After.  A refused client that waits as long as it is told is allowed,
\* if no other request of its key comes first, and is never told to wait for
\* nothing or longer than the window.
RetryAfterHonest ==
    ~Allows =>
        /\ ResetIn \in 1 .. Window
        /\ limiter = "memory" =>
             Len(Younger(hits, Window - ResetIn)) < Max

Descending(ages) == \A i, j \in DOMAIN ages : i <= j => ages[i] >= ages[j]

\* What the limiters keep true between requests.  MemoryRateLimiter knows just
\* the requests that it allowed in the last window.  Of those, RedisRateLimiter
\* counts all but the oldest, which came before the key it now counts in: they
\* are of one earlier key, and leave the window before this key expires.
LimiterInv ==
    /\ Descending(hits) /\ Descending(granted)
    /\ \A i \in DOMAIN granted : granted[i] < Window
    /\ limiter = "memory" => granted = Prior(hits) /\ Len(granted) <= Max
    /\ limiter = "redis" =>
         /\ count = 0 <=> ttl = 0
         /\ \E before \in 0 .. Len(granted) :
              /\ before <= Max
              /\ Len(granted) - before <= Max /\ Len(granted) - before <= count
              /\ ttl > 0 => \A i \in 1 .. before : granted[i] >= Window - ttl

\* Refusals do not feed on themselves: however many requests a limiter
\* refuses, it allows again and again.
LimiterLapses == []<>Allows

Flying == {c \in Calls : call[c].pc = "calling"}

\* What the circuit breaker keeps true between its calls.  It is open exactly
\* when the threshold is reached; what flies then was sent before; and until
\* then every call that was sent flies, or was counted as a failure.
CircuitInv ==
    /\ failures <= Threshold
    /\ opened <=> failures >= Threshold
    /\ opened => \A c \in Flying : call[c].stale
    /\ ~opened => sent <= failures + Cardinality(Flying)
    /\ sent <= Threshold - 1 + Cardinality(Calls)

\* The types, and what the limiters and the circuit breaker keep true: neither
\* a late answer nor an elapsed cool-down leaves its counter and its openedAt
\* apart.
Inv == LimiterTypeOK /\ CircuitTypeOK /\ LimiterInv /\ CircuitInv

\* While the circuit is open, the only calls on their way were sent before it
\* opened; so only their late success can close it before it has cooled down.
OpenSendsNothing ==
    Cooling => \A c \in Flying : call[c].stale

\* A failing provider gets at most failureThreshold - 1 calls and one for each
\* concurrent request until it answers or the circuit has cooled down: there
\* is no single probe.
ProviderLoadBounded == sent <= Threshold - 1 + Cardinality(Calls)

\* An open circuit does not stay open: refused calls do not prolong it.
CircuitRecovers == Cooling ~> ~Cooling
=============================================================================
