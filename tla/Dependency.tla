----------------------------- MODULE Dependency -----------------------------
(***************************************************************************)
(* One human dependency through the decisions of all its components: an     *)
(* agent signs a request (module Trust), the resource server has a          *)
(* requirement issued for it (Issuance), a human completes a World ceremony *)
(* (WorldId), the service signs a result (Policy), and the resource server  *)
(* decides with the keys it knows (Trust) whether the result is sufficient. *)
(* Each component checks for itself what the one before has checked or      *)
(* should have; the properties say what the checks come to together.        *)
(*                                                                         *)
(* The handlers' awaits, stores and failures are in the modules Verifier    *)
(* and ResourceServer; a decision here is one step.                         *)
(***************************************************************************)
EXTENDS WorldId, Issuance, Trust

CONSTANTS
    Principals,     \* issuers that the authenticator knows
    Messages,       \* requests for the protected resource
    Purposes, Audiences,
    Methodologies,  \* the accepts lists that an issuer names
    Agents,         \* keys that sign requests
    Deployments,    \* how the verifier is configured
    TTLs,           \* requirement lifetimes asked for
    ResultTtl,      \* maximumResultTtlSeconds
    MetadataTtl,    \* lifetime of a metadata document
    KeyEnd,         \* notAfter of the first result key
    MaxTime         \* bound of the clock

\* profile, authenticator, allowUnauthenticated: of the router; own: it makes
\* the provider requests itself; legacy: allowLegacyProofs.
Deployment == [profile : Profiles, authenticator : BOOLEAN,
               allowUnauthenticated : BOOLEAN, own : BOOLEAN, legacy : BOOLEAN]

ASSUME DependencyAssumption ==
    /\ Deployments \subseteq {d \in Deployment :
           AssertIssuanceRouterConfig(d.profile, d.authenticator, d.allowUnauthenticated)}
    /\ \A m \in Messages : m = [method |-> m.method, uri |-> m.uri, body |-> m.body,
                               digest |-> m.digest, proof |-> m.proof,
                               payment |-> m.payment]
                           /\ m.uri.path \in Seq(STRING)
    /\ \A p \in Principals : \A grant \in p.resources : grant.prefix \in Seq(STRING)
    /\ ResultTtl \in Nat \ {0}
    /\ MetadataTtl \in Nat \ {0}
    /\ KeyEnd \in Nat
    /\ MaxTime \in Nat

VARIABLES
    now,          \* the clock
    deploy,       \* fixed
    signed,       \* what an agent signed: the request and the signature
    issued,       \* who was issued the requirement, and for what
    requirement,
    result,       \* the signed result, its kid, and the proof it is about
    keys,         \* the verifier's result keys
    signer,       \* the key of the running verifier
    revokedAt,    \* when a key was revoked, Unset if it was not
    documents     \* the metadata documents signed so far

vars == <<now, deploy, signed, issued, requirement, result, keys, signer,
          revokedAt, documents>>
verifier == <<signed, issued, requirement, result>>
trust == <<keys, signer, revokedAt, documents>>

-----------------------------------------------------------------------------
(* Issuance: the agent's request, and POST /v1/requirements for it *)

SignRequest(agent, message) ==
    /\ signed = Unset
    /\ signed' = [message |-> message, signature |-> Sign(agent, message, now, MaxLifetime)]
    /\ UNCHANGED <<now, deploy, issued, requirement, result>>
    /\ UNCHANGED trust

\* The message as it arrives: on its way anybody may have put another under the
\* same signature, with or without the digest of its body, or added a proof.
Altered(message) ==
    {[message EXCEPT !.proof = ""], [message EXCEPT !.proof = "foreign"],
     [message EXCEPT !.digest = message.body]}
Presented == UNION {Altered(message) : message \in Messages}

Catalog == [m \in Methods |-> Descriptor(m)]

\* Material that an issuer makes itself, when the verifier lets it: its own
\* ceremony, or one that is for another caller, too long, for another profile,
\* of the other legacy policy, or missing for a method.
IssuerMaterial(accepts, binding, ttl) ==
    LET right == ProviderRequests(accepts, binding, "issuer", now, ttl)
        one == right[Current4]
        wrong == {[one EXCEPT !.profile = "other"], [one EXCEPT !.legacy = ~one.legacy],
                  [one EXCEPT !.expiresAt = one.createdAt + MaxTtl + 1],
                  [one EXCEPT !.nonce = "other"]}
                 \union {[one EXCEPT !.signal = other] : other \in Agents}
                 \union {[one EXCEPT !.hash = other] : other \in Agents}
    IN {right, [m \in {Current4} |-> one]}
       \union {[m \in DOMAIN right |-> IF m \in which THEN change ELSE right[m]] :
                  which \in SUBSET DOMAIN right, change \in wrong}

Issue(principal, message, purpose, audience, accepts, ttl) ==
    LET binding == signed.signature.agent
        subject == [dependency |-> "d", purpose |-> purpose, audience |-> audience,
                    digest |-> message]
        ask == [purpose |-> purpose, audience |-> audience, httpMethod |-> message.method,
                uri |-> message.uri, accepts |-> Named(accepts)]
        blank == CreateHumanRequirement(subject, binding, accepts, <<>>, ttl, now)
    IN /\ signed # Unset /\ requirement = Unset
       /\ VerifyAgentRequest(signed.signature, message, now)
       /\ deploy.authenticator =>
            AuthorizeIssuance(principal, ask, deploy.profile) = "ok"
       /\ deploy.own => Provides(blank.accepts, deploy.legacy)
       /\ \E requests \in
             IF deploy.own
               THEN {ProviderRequests(blank.accepts, binding, "fresh", now, ttl)}
               ELSE IssuerMaterial(blank.accepts, binding, ttl) :
            /\ Creatable(accepts, requests, ttl)
            /\ requirement' = [blank EXCEPT !.requests = requests]
            /\ \A m \in DOMAIN requirement'.accepts :
                 /\ Offers(Catalog, requirement'.accepts[m])
                 /\ ValidateProviderRequest(requirement', m, deploy.legacy)
       /\ issued' = [ask |-> ask, message |-> message,
                     principal |-> IF deploy.authenticator THEN principal ELSE Unset]
       /\ UNCHANGED <<now, deploy, signed, result>> /\ UNCHANGED trust

-----------------------------------------------------------------------------
(* The ceremony and the proof *)

\* What wallets hold: proofs of this ceremony or another, by this caller or
\* another, of either version, for either credential or for both at once.
Proofs ==
    [version : {"3.0", "4.0"}, responses : (SUBSET Methods) \ {{}},
     profile : {"own"}, hash : Agents, nonce : {"other"} \union
         {requirement.requests[m].nonce : m \in DOMAIN requirement.requests},
     nullifier : {"human"}, complete : {TRUE}]

\* What a client submits: the resolver of createWorldIdProofResolver labels the
\* proof itself, any other client as it likes.
Labels(proof) == ({Resolved(requirement, proof)} \union Methods) \ {Unset}

\* What World answers about a proof, by its own clock: all is well, in either
\* form, or one thing is not.
Answers(proof) ==
    LET good == [success |-> TRUE, profile |-> "own", results |-> Unset,
                 nullifier |-> proof.nullifier, createdAt |-> Unset]
        Naming(method) == {[identifier |-> method, nullifier |-> proof.nullifier]}
    IN {[answer EXCEPT !.createdAt = at] : at \in {Unset} \union (0 .. now + 1),
        answer \in {good, [good EXCEPT !.success = FALSE], [good EXCEPT !.profile = "other"],
                    [good EXCEPT !.nullifier = "another"]}
                   \union {[good EXCEPT !.results = Naming(m)] : m \in Methods}}

\* The running signer was given its status when it started.
SignerKey == [keys[signer] EXCEPT !.status = "active"]

\* satisfy(): it throws, and no result comes of it, where a check fails.
Satisfy(method, proof) ==
    /\ result = Unset
    /\ Current(requirement, now)
    /\ Accepts(requirement, method)
    /\ Offers(Catalog, requirement.accepts[method])
    /\ Presentable(requirement, method, proof, deploy.legacy)
    /\ AssertKeyUsable(SignerKey, now)
    /\ \E answer \in Answers(proof) :
         LET verified == Verified(method, proof, answer, now)
         IN /\ AcceptedRemoteResult(answer, proof, requirement.requests[method])
            /\ Satisfies(verified, requirement.accepts[method], now)
            /\ Describes(Catalog[method], verified)
            /\ result' = [claims |-> Result(requirement, verified, Catalog[method], now,
                                            ResultTtl),
                          proof |-> proof, kid |-> signer]
    /\ UNCHANGED <<now, deploy, signed, issued, requirement>> /\ UNCHANGED trust

-----------------------------------------------------------------------------
(* Result keys: the operator rotates and revokes, and signs documents *)

Kids == {"k1", "k2"}

\* A document signed at this moment; a pending key is not published.
Published(at, ring) ==
    [signer |-> "publisher", issuedAt |-> at, expiresAt |-> at + MetadataTtl,
     keys |-> [kid \in {k \in Kids : ring[k].status # "pending"} |-> ring[kid]]]

Init ==
    /\ now = 0
    /\ deploy \in Deployments
    /\ signed = Unset /\ issued = Unset /\ requirement = Unset
    /\ result = Unset
    /\ keys = [kid \in Kids |->
           [status |-> IF kid = "k1" THEN "active" ELSE "pending", notBefore |-> 0,
            notAfter |-> IF kid = "k1" THEN KeyEnd ELSE MaxTime + 1]]
    /\ signer = "k1"
    /\ revokedAt = [kid \in Kids |-> Unset]
    /\ documents = {Published(now, keys)}

Ring(changed) ==
    /\ keys' = changed
    /\ documents' = documents \union {Published(now, changed)}

Rotate ==
    /\ keys["k2"].status = "pending"
    /\ Ring([kid \in Kids |->
           [keys[kid] EXCEPT !.status = IF kid = "k2" THEN "active"
                                        ELSE IF @ = "active" THEN "retired" ELSE @]])
    /\ UNCHANGED <<now, deploy, signer, revokedAt>> /\ UNCHANGED verifier

\* The verifier restarts with the new key.
Redeploy ==
    /\ signer = "k1" /\ keys["k2"].status = "active"
    /\ signer' = "k2"
    /\ UNCHANGED <<now, deploy, keys, revokedAt, documents>> /\ UNCHANGED verifier

Revoke(kid) ==
    /\ keys[kid].status \in {"active", "retired"}
    /\ Ring([keys EXCEPT ![kid].status = "revoked"])
    /\ revokedAt' = [revokedAt EXCEPT ![kid] = now]
    /\ UNCHANGED <<now, deploy, signer>> /\ UNCHANGED verifier

Tick ==
    /\ now < MaxTime
    /\ now' = now + 1
    /\ documents' = documents \union {Published(now', keys)}
    /\ UNCHANGED <<deploy, keys, signer, revokedAt>> /\ UNCHANGED verifier

Next ==
    \/ \E agent \in Agents, message \in Messages : SignRequest(agent, message)
    \/ \E principal \in Principals, message \in Presented, purpose \in Purposes,
          audience \in Audiences, accepts \in Methodologies, ttl \in TTLs :
           signed # Unset /\ Issue(principal, message, purpose, audience, accepts, ttl)
    \/ requirement # Unset /\ \E proof \in Proofs :
           \E method \in Labels(proof) : Satisfy(method, proof)
    \/ Rotate \/ Redeploy
    \/ \E kid \in Kids : Revoke(kid)
    \/ Tick

Spec == Init /\ [][Next]_vars

-----------------------------------------------------------------------------
(* Properties *)

\* The requirement that binds an agent was issued for the very request that
\* this agent signed, body included, and within the signature's lifetime
\* (verifyX424AgentRequest).
AgentAuthentic ==
    issued # Unset =>
        LET signature == signed.signature
        IN /\ requirement.binding = signature.agent
           /\ [issued.message EXCEPT !.digest = ""] = [signed.message EXCEPT !.digest = ""]
           /\ requirement.createdAt \in signature.created - Skew
                                        .. signature.created + MaxLifetime + Skew

\* The segments of a path, in order, and without the empty ones at its ends.
SegmentList(path) ==
    LET list[n \in 0 .. Len(path)] ==
            IF n = 0 THEN <<>>
            ELSE IF path[n] = "/" THEN list[n - 1]
            ELSE IF n > 1 /\ path[n - 1] # "/"
              THEN [list[n - 1] EXCEPT ![Len(list[n - 1])] = Append(@, path[n])]
            ELSE Append(list[n - 1], <<path[n]>>)
    IN list[Len(path)]

\* What was issued to an authenticated issuer is covered by what it was
\* granted, and its resource lies, segment by segment, under one of the granted
\* prefixes at the same origin (authorizeIssuance, resourceUriAuthorized);
\* without grants only a development verifier issues.
Granted ==
    issued # Unset =>
        LET principal == issued.principal
            ask == issued.ask
            path == SegmentList(ask.uri.path)
        IN IF ~deploy.authenticator \/ principal.wildcard THEN deploy.profile = "dev"
           ELSE /\ ask.purpose \in principal.purposes
                /\ ask.audience \in principal.audiences
                /\ ask.httpMethod \in principal.httpMethods
                /\ DOMAIN requirement.accepts \subseteq principal.methods
                /\ \E grant \in principal.resources :
                     /\ grant.https /\ ask.uri.https /\ grant.origin = ask.uri.origin
                     /\ StartsWith(path, SegmentList(grant.prefix))

\* A result is about a ceremony that was made for this requirement and this
\* caller, by a human with the credential that it names; a World ID 3
\* credential counts only where operator and requirement let it
\* (WorldIdAdapter.verify, assertNativeProof, validateProviderRequest).
ResultOfThisCeremony ==
    result # Unset =>
        LET proof == result.proof
            claims == result.claims
            material == requirement.requests[claims.method]
        IN /\ proof.nonce = material.nonce
           /\ proof.hash = requirement.binding /\ material.signal = requirement.binding
           /\ claims.method = MethodOf(proof) /\ claims.claim = claims.method
           /\ claims.method = Legacy3 =>
                deploy.legacy /\ material.legacy /\ Accepts(requirement, Legacy3)

\* What the service signs, the resource server's evaluation accepts: nothing but
\* the result's expiry and the proof's age ever speaks against it
\* (satisfy, evaluateHumanResult).
IssuedSuffices ==
    result # Unset =>
        LET claims == result.claims
            failures == EvaluateHumanResult(requirement, claims, Catalog, now)
        IN /\ failures \subseteq {"EXPIRED", "PROOF_STALE"}
           /\ now = claims.issuedAt => failures = {}
           /\ "EXPIRED" \in failures <=> now >= claims.expiresAt

\* However old the document that a resource server holds, a key that was revoked
\* one document lifetime ago signs for nothing
\* (verifyVerifierMetadataToken, selectActiveResultKey).
RevocationBounded ==
    \A kid \in Kids :
        revokedAt[kid] # Unset =>
            (now >= revokedAt[kid] + MetadataTtl =>
                \A document \in documents :
                    ~TokenTrusted(kid, document, {"publisher"}, now))
=============================================================================
