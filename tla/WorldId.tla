------------------------------ MODULE WorldId ------------------------------
(***************************************************************************)
(* The World ID provider: the request material that goes to the human, the  *)
(* proof that comes back and what the adapter makes of it                   *)
(* (src/src/providers/world-id.ts, src/src/providers/world-id-shared.ts).   *)
(*                                                                         *)
(* One ceremony may end with either of two methods, "proof-of-human" (World *)
(* ID 4) and "orb-legacy" (World ID 3), which x424 keeps apart.  The app,   *)
(* relying party, action and environment of a request, of a proof or of an  *)
(* answer count as one field: they are the adapter's own, or others.        *)
(***************************************************************************)
EXTENDS Policy

Current4 == "proof-of-human"
Legacy3 == "orb-legacy"
Methods == {Current4, Legacy3}

\* WORLD_ID_PROOF_OF_HUMAN_METHOD and WORLD_ID_LEGACY_ORB_METHOD.
Descriptor(method) ==
    [enabled |-> TRUE, version |-> Version, claim |-> method,
     assurances |-> {method}, scopes |-> {"action"}, modes |-> {"backend"}]

\* createWorldIdMethodRequirements
MethodRequirement(method, maximumAge) ==
    [method |-> method, version |-> Version, assurance |-> method,
     scopes |-> {"action"}, modes |-> {"backend"}, maximumAge |-> maximumAge]

MethodRequirements(allowLegacy, maximumAge) ==
    IF allowLegacy
      THEN <<MethodRequirement(Current4, maximumAge), MethodRequirement(Legacy3, maximumAge)>>
      ELSE <<MethodRequirement(Current4, maximumAge)>>

\* acceptedWorldMethod, exactRequirementAccepted: in the installed version.
AcceptsWorld(accepts, method) ==
    method \in DOMAIN accepts /\ accepts[method].version = Version

-----------------------------------------------------------------------------
(* Request material *)

\* createWorldIdProviderRequest; the World nonce is drawn afresh.
Material(binding, allowLegacy, nonce, now, ttl) ==
    [profile |-> "own", signal |-> binding, hash |-> binding, legacy |-> allowLegacy,
     nonce |-> nonce, createdAt |-> now, expiresAt |-> now + ttl]

\* The profile's providerRequests throws where this does not hold.
Provides(accepts, legacyEnabled) ==
    /\ AcceptsWorld(accepts, Current4)
    /\ AcceptsWorld(accepts, Legacy3) => legacyEnabled

\* createWorldIdProviderRequests
ProviderRequests(accepts, binding, nonce, now, ttl) ==
    LET legacy == AcceptsWorld(accepts, Legacy3)
    IN [m \in {Current4} \union (IF legacy THEN {Legacy3} ELSE {}) |->
           Material(binding, legacy, nonce, now, ttl)]

\* validateProviderRequest, of every accepted method at registration.
ValidateProviderRequest(requirement, method, legacyEnabled) ==
    /\ method \in DOMAIN requirement.requests
    /\ LET request == requirement.requests[method]
           legacy == AcceptsWorld(requirement.accepts, Legacy3)
       IN /\ request.profile = "own"
          /\ request.signal = requirement.binding
          /\ request.hash = requirement.binding
          /\ AcceptsWorld(requirement.accepts, Current4)
          /\ legacy = request.legacy
          /\ legacy \/ method = Legacy3 => legacyEnabled
          /\ request.expiresAt - request.createdAt \in MinTtl .. MaxTtl

\* providerRequestFromRequirement does not throw: there is material for the
\* method, and none, or the same, for the other one.
HasProviderRequest(requirement, method) ==
    /\ method \in DOMAIN requirement.requests
    /\ \A other \in DOMAIN requirement.requests :
           requirement.requests[other] = requirement.requests[method]

-----------------------------------------------------------------------------
(* Proofs *)

\* descriptorForNativeProof: the method that a proof is of, if any.
MethodOf(proof) ==
    IF proof.version = "4.0" /\ Current4 \in proof.responses THEN Current4
    ELSE IF proof.version = "3.0" /\ Legacy3 \in proof.responses THEN Legacy3
    ELSE Unset

\* createWorldIdProofResolver: the method the client submits, or it throws.
Resolved(requirement, proof) ==
    LET method == MethodOf(proof)
    IN IF /\ AcceptsWorld(requirement.accepts, Current4)
          /\ HasProviderRequest(requirement, Current4)
          /\ method # Unset
          /\ AcceptsWorld(requirement.accepts, method)
          /\ method = Legacy3 => requirement.requests[Current4].legacy
       THEN method ELSE Unset

\* Mutant: a proof of an older ceremony of the same caller will do.
AssertNativeProofAnyNonce(proof, request, binding) ==
    /\ proof.profile = request.profile
    /\ request.signal = binding /\ request.hash = binding
    /\ proof.version = "3.0" => request.legacy
    /\ MethodOf(proof) # Unset
    /\ proof.hash = request.hash
    /\ proof.complete

\* assertNativeProof
AssertNativeProof(proof, request, binding) ==
    /\ proof.profile = request.profile
    /\ proof.nonce = request.nonce
    /\ request.signal = binding /\ request.hash = binding
    /\ proof.version = "3.0" => request.legacy
    /\ MethodOf(proof) # Unset
    /\ proof.hash = request.hash
    /\ proof.complete

\* acceptedRemoteResult; results: of the array in the answer, or Unset.
AcceptedRemoteResult(answer, proof, request) ==
    /\ answer.success
    /\ answer.profile = request.profile
    /\ IF answer.results # Unset
         THEN [identifier |-> MethodOf(proof), nullifier |-> proof.nullifier]
                  \in answer.results
         ELSE answer.nullifier = proof.nullifier

\* WorldIdAdapter.verify up to the call to World.
Presentable(requirement, method, proof, legacyEnabled) ==
    /\ HasProviderRequest(requirement, method)
    /\ MethodOf(proof) = method
    /\ LET request == requirement.requests[method]
       IN /\ request.profile = "own"
          /\ requirement.accepts[method].version = Version
          /\ method = Legacy3 => legacyEnabled
          /\ AssertNativeProof(proof, request, requirement.binding)

\* WorldIdAdapter.verify: what it returns when World accepted the proof.
Verified(method, proof, answer, now) ==
    [method |-> method, version |-> Version, assurance |-> method,
     subject |-> proof.nullifier, scope |-> "action", mode |-> "backend",
     verifiedAt |-> IF answer.createdAt = Unset THEN now ELSE answer.createdAt]
=============================================================================
