------------------------------- MODULE Policy -------------------------------
(***************************************************************************)
(* What a requirement may ask for, which verified proof satisfies it and    *)
(* which result is sufficient: src/src/requirements.ts, src/src/policy.ts,  *)
(* src/src/validation.ts, the checks of src/src/service.ts, and the tools   *)
(* of src/src/mcp/server.ts that expose them.  All are functions of their   *)
(* inputs, here operators.                                                  *)
(*                                                                         *)
(* The subject of a requirement is what its result repeats unchanged: the   *)
(* dependency, its purpose, the audience and the request digest.            *)
(***************************************************************************)
EXTENDS Integers, Sequences

CONSTANTS
    MinTtl, MaxTtl,  \* 30 and 900 seconds
    Unset            \* an optional field that is left out

ASSUME PolicyAssumption ==
    /\ MinTtl \in Nat \ {0}
    /\ MaxTtl \in Nat
    /\ MinTtl <= MaxTtl

\* The descriptor version of every method installed in this release.
Version == "1"

-----------------------------------------------------------------------------
(* Requirements *)

\* No method is named twice in accepts, a sequence of method requirements.
Distinct(accepts) ==
    \A i, j \in DOMAIN accepts : accepts[i].method = accepts[j].method => i = j

Named(accepts) == {accepts[i].method : i \in DOMAIN accepts}

\* createHumanRequirement does not throw; requests: keyed by method.
Creatable(accepts, requests, ttl) ==
    /\ accepts # <<>>
    /\ Distinct(accepts)
    /\ DOMAIN requests \subseteq Named(accepts)
    /\ ttl \in MinTtl .. MaxTtl

CreateHumanRequirement(subject, binding, accepts, requests, ttl, now) ==
    [subject |-> subject, binding |-> binding, requests |-> requests,
     accepts |-> [m \in Named(accepts) |->
                     accepts[CHOOSE i \in DOMAIN accepts : accepts[i].method = m]],
     createdAt |-> now, expiresAt |-> now + ttl]

Accepts(requirement, method) == method \in DOMAIN requirement.accepts

\* assertRequirementCurrent
Current(requirement, now) ==
    requirement.createdAt <= now /\ now < requirement.expiresAt

\* The catalog knows the method, enabled and in the accepted version.
Offers(catalog, accepted) ==
    /\ accepted.method \in DOMAIN catalog
    /\ catalog[accepted.method].enabled
    /\ catalog[accepted.method].version = accepted.version

-----------------------------------------------------------------------------
(* What the service lets a provider adapter return *)

Within(value, allowed) == allowed # Unset => value \in allowed

Fresh(verifiedAt, maximumAge, now) ==
    maximumAge # Unset => now - verifiedAt <= maximumAge

\* Mutant: the requirement's own assurance level is not looked at.
SatisfiesAnyAssurance(verified, accepted, now) ==
    /\ verified.scope \in accepted.scopes
    /\ Within(verified.mode, accepted.modes)
    /\ verified.verifiedAt <= now
    /\ Fresh(verified.verifiedAt, accepted.maximumAge, now)

\* assertVerifiedOutput, against the accepted method
Satisfies(verified, accepted, now) ==
    /\ verified.scope \in accepted.scopes
    /\ Within(verified.mode, accepted.modes)
    /\ accepted.assurance \in {Unset, verified.assurance}
    /\ verified.verifiedAt <= now
    /\ Fresh(verified.verifiedAt, accepted.maximumAge, now)

\* assertVerifiedOutput, against the catalog's descriptor
Describes(descriptor, verified) ==
    /\ verified.version = descriptor.version
    /\ verified.scope \in descriptor.scopes
    /\ verified.mode \in descriptor.modes
    /\ verified.assurance \in descriptor.assurances \union {Unset}

Least(times) == CHOOSE t \in times : \A other \in times : t <= other

\* The result that satisfy() signs.
Result(requirement, verified, descriptor, now, maximumTtl) ==
    [subject |-> requirement.subject, binding |-> requirement.binding,
     method |-> verified.method, version |-> verified.version,
     assurance |-> verified.assurance, scope |-> verified.scope,
     mode |-> verified.mode, claim |-> descriptor.claim,
     verifiedAt |-> verified.verifiedAt, issuedAt |-> now,
     expiresAt |-> Least({requirement.expiresAt, now + maximumTtl})]

-----------------------------------------------------------------------------
(* evaluateHumanResult *)

When(condition, code) == IF condition THEN {code} ELSE {}

SubjectFailures(requirement, result) ==
    When(result.subject.dependency # requirement.subject.dependency, "DEPENDENCY_MISMATCH")
    \union When(result.subject.purpose # requirement.subject.purpose, "PURPOSE_MISMATCH")
    \union When(result.subject.audience # requirement.subject.audience, "AUDIENCE_MISMATCH")
    \union When(result.subject.digest # requirement.subject.digest,
                "REQUEST_DIGEST_MISMATCH")
    \union When(result.binding # requirement.binding, "BINDING_MISMATCH")

AcceptedFailures(accepted, result, now) ==
    When(result.version # accepted.version, "DESCRIPTOR_VERSION_MISMATCH")
    \union When(result.scope \notin accepted.scopes, "SCOPE_NOT_ACCEPTED")
    \union When(~Within(result.mode, accepted.modes), "VERIFICATION_MODE_NOT_ACCEPTED")
    \union When(accepted.assurance \notin {Unset, result.assurance},
                "ASSURANCE_NOT_ACCEPTED")
    \union When(~Fresh(result.verifiedAt, accepted.maximumAge, now), "PROOF_STALE")

DescriptorFailures(descriptor, result) ==
    When(~descriptor.enabled, "METHOD_DISABLED")
    \union When(result.version # descriptor.version, "DESCRIPTOR_VERSION_MISMATCH")
    \union When(result.scope \notin descriptor.scopes, "SCOPE_NOT_ACCEPTED")
    \union When(result.mode \notin descriptor.modes, "VERIFICATION_MODE_NOT_ACCEPTED")
    \union When(result.assurance \notin descriptor.assurances \union {Unset},
                "ASSURANCE_NOT_ACCEPTED")
    \union When(result.claim # descriptor.claim, "CLAIM_MISMATCH")

TimeFailures(requirement, result, now) ==
    When(result.verifiedAt > now \/ result.issuedAt > now, "FUTURE_TIMESTAMP")
    \union When(result.expiresAt <= now, "EXPIRED")
    \union When(\/ result.verifiedAt > result.issuedAt
                \/ result.issuedAt < requirement.createdAt
                \/ result.issuedAt >= requirement.expiresAt
                \/ result.expiresAt <= result.issuedAt
                \/ result.expiresAt > requirement.expiresAt, "TIME_WINDOW_INVALID")

\* The codes of the failures; the result is sufficient if there is none.
EvaluateHumanResult(requirement, result, catalog, now) ==
    SubjectFailures(requirement, result)
    \union (IF Accepts(requirement, result.method)
              THEN AcceptedFailures(requirement.accepts[result.method], result, now)
              ELSE {"METHOD_NOT_ACCEPTED"})
    \union (IF result.method \in DOMAIN catalog
              THEN DescriptorFailures(catalog[result.method], result)
              ELSE {"METHOD_UNKNOWN"})
    \union TimeFailures(requirement, result, now)
=============================================================================
