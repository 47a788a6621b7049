------------------------------- MODULE Trust -------------------------------
(***************************************************************************)
(* Whose signature counts, and when: the verifier's result keys and the     *)
(* metadata document that publishes them (src/src/keys/managed.ts,          *)
(* src/src/metadata/verifier-metadata.ts, src/src/result-token.ts), and the *)
(* signature of an agent under an HTTP request (src/src/agent.ts).          *)
(*                                                                         *)
(* A signature is the record of what was signed and by whom: one verifies   *)
(* with the key that made it and with nothing else changed.                 *)
(***************************************************************************)
EXTENDS Integers

CONSTANTS
    MaxLifetime,  \* of an agent signature, 60 seconds
    Skew          \* clockSkewSeconds

ASSUME TrustAssumption == MaxLifetime \in Nat \ {0} /\ Skew \in Nat

-----------------------------------------------------------------------------
(* Result keys *)

InForce(key, now) == key.notBefore <= now /\ now < key.notAfter

\* assertKeyUsable: whether the external signer signs.
AssertKeyUsable(key, now) ==
    key.status \notin {"revoked", "pending"} /\ InForce(key, now)

\* Mutant: an expired document still counts.
MetadataNeverExpires(document, now) ==
    /\ document.issuedAt < document.expiresAt
    /\ document.issuedAt <= now
    /\ document.keys # <<>>

\* assertMetadataDocument; issuer and endpoints are the configured ones.
AssertMetadataDocument(document, now) ==
    /\ document.issuedAt < document.expiresAt
    /\ document.issuedAt <= now
    /\ now < document.expiresAt
    /\ document.keys # <<>>
    /\ \A kid \in DOMAIN document.keys :
           /\ document.keys[kid].status \in {"active", "retired", "revoked"}
           /\ document.keys[kid].notBefore < document.keys[kid].notAfter

\* verifyVerifierMetadataToken
VerifyMetadata(document, trusted, now) ==
    document.signer \in trusted /\ AssertMetadataDocument(document, now)

\* selectActiveResultKey
SelectResultKey(document, kid, now) ==
    /\ kid \in DOMAIN document.keys
    /\ document.keys[kid].status \in {"active", "retired"}
    /\ InForce(document.keys[kid], now)

\* verifyHumanResultToken, with the keys of a document
TokenTrusted(kid, document, trusted, now) ==
    VerifyMetadata(document, trusted, now) /\ SelectResultKey(document, kid, now)

-----------------------------------------------------------------------------
(* Agent signatures *)

\* An HTTP message, with "" for a body, header or payment it does not have.
\* signatureComponents: what a signature under it must cover.
Components(message) ==
    {"@method", "@target-uri"}
    \union (IF message.body # "" THEN {"content-digest"} ELSE {})
    \union (IF message.proof # "" THEN {"human-proof"} ELSE {})
    \union (IF message.payment # "" THEN {"payment-signature"} ELSE {})

\* componentValue
Value(message, component) ==
    CASE component = "@method" -> message.method
      [] component = "@target-uri" -> message.uri
      [] component = "content-digest" -> message.digest
      [] component = "human-proof" -> message.proof
      [] component = "payment-signature" -> message.payment

\* signatureBase
Base(message, components) == [c \in components |-> Value(message, c)]

\* signX424AgentRequest sets the digest and signs.
Sign(agent, message, created, lifetime) ==
    LET sent == IF message.body = "" THEN message
                ELSE [message EXCEPT !.digest = message.body]
    IN [agent |-> agent, created |-> created, expires |-> created + lifetime,
        base |-> Base(sent, Components(sent))]

\* Mutant: the signature covers whatever its signer chose.
CoversWhatItSays(signature, message) ==
    signature.base = Base(message, DOMAIN signature.base)

\* The required components, and a signature of their values.
CoversMessage(signature, message) ==
    /\ DOMAIN signature.base = Components(message)
    /\ signature.base = Base(message, Components(message))

\* verifyX424AgentRequest
VerifyAgentRequest(signature, message, now) ==
    /\ signature.created <= now + Skew
    /\ now - Skew <= signature.expires
    /\ signature.created < signature.expires
    /\ signature.expires - signature.created <= MaxLifetime
    /\ CoversMessage(signature, message)
    /\ message.body # "" => message.digest = message.body
=============================================================================
