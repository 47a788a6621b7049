-------------------------- MODULE DependencyProofs --------------------------
(***************************************************************************)
(* Proofs about Dependency, for any principals, messages, methodologies,    *)
(* agents, lifetimes and deployments: what the separate checks of the       *)
(* components come to together.  The last part is about the paths of        *)
(* requests and of grants, of any characters and length.                    *)
(***************************************************************************)
EXTENDS Dependency, FiniteSetTheorems, SequenceTheorems, TLAPS

-----------------------------------------------------------------------------
(* Result keys *)

Key == [status : {"pending", "active", "retired", "revoked"},
        notBefore : Int, notAfter : Int]

\* A document shows a key as it was when it was signed: what does not show the
\* revocation is no younger than it.
Shows(document) ==
    /\ document.issuedAt \in Nat /\ document.issuedAt <= now
    /\ document.expiresAt = document.issuedAt + MetadataTtl
    /\ \A kid \in DOMAIN document.keys :
           /\ kid \in Kids
           /\ revokedAt[kid] # Unset =>
                document.keys[kid].status = "revoked" \/ document.issuedAt <= revokedAt[kid]

KeysInv ==
    /\ now \in Nat
    /\ keys \in [Kids -> Key]
    /\ revokedAt \in [Kids -> Nat \union {Unset}]
    /\ \A kid \in Kids : revokedAt[kid] # Unset => keys[kid].status = "revoked"
    /\ \A document \in documents : Shows(document)

\* A document that is signed now shows every revocation.
LEMMA PublishedShows ==
    ASSUME NEW at \in Nat, NEW ring \in [Kids -> Key], now' = at,
           revokedAt' \in [Kids -> Nat \union {Unset}],
           \A kid \in Kids : revokedAt'[kid] # Unset => ring[kid].status = "revoked"
    PROVE  Shows(Published(at, ring))'
<1> DEFINE document == Published(at, ring)
<1>1. /\ document.issuedAt = at /\ document.expiresAt = at + MetadataTtl
      /\ DOMAIN document.keys \subseteq Kids
      /\ \A kid \in DOMAIN document.keys : document.keys[kid] = ring[kid]
  BY DEF Published
<1> HIDE DEF document
<1>2. Shows(document)'
  BY <1>1 DEF Shows
<1> QED
  BY <1>2 DEF document

\* A document still shows what it showed, and a key that is revoked now was not
\* before it was signed.
LEMMA ShowsLater ==
    ASSUME KeysInv, NEW document \in documents, now' \in Nat, now <= now',
           \A kid \in Kids : \/ revokedAt'[kid] = revokedAt[kid]
                             \/ revokedAt'[kid] = now
    PROVE  Shows(document)'
BY DEF KeysInv, Shows

\* The operator changes the ring, and publishes it.
LEMMA RingKeys ==
    ASSUME KeysInv, NEW changed \in [Kids -> Key], Ring(changed), now' = now,
           revokedAt' \in [Kids -> Nat \union {Unset}],
           \A kid \in Kids :
               /\ revokedAt'[kid] = revokedAt[kid] \/ revokedAt'[kid] = now
               /\ revokedAt'[kid] # Unset => changed[kid].status = "revoked"
    PROVE  KeysInv'
<1>1. now \in Nat /\ keys' = changed
      /\ documents' = documents \union {Published(now, changed)}
  BY DEF KeysInv, Ring
<1>2. Shows(Published(now, changed))'
  <2>1. PICK at \in Nat : at = now
    BY <1>1
  <2>2. Shows(Published(at, changed))'
    BY <2>1, PublishedShows
  <2> QED
    BY <1>1, <2>1, <2>2 DEF Published, Shows
<1>3. \A document \in documents : Shows(document)'
  BY <1>1, ShowsLater
<1>4. \A document \in documents' : Shows(document)'
  BY <1>1, <1>2, <1>3 DEF Published
<1> QED
  BY <1>1, <1>4 DEF KeysInv

\* A document of the moment joins those of before.
LEMMA TickKeys ==
    ASSUME KeysInv, Tick PROVE KeysInv'
<1>1. now \in Nat /\ now' = now + 1 /\ keys' = keys /\ revokedAt' = revokedAt
      /\ documents' = documents \union {Published(now', keys)}
  BY DEF KeysInv, Tick
<1> PICK at \in Nat, ring \in [Kids -> Key] : at = now' /\ ring = keys
  BY <1>1 DEF KeysInv
<1>2. Shows(Published(at, ring))'
  BY <1>1, PublishedShows DEF KeysInv
<1>3. \A document \in documents : Shows(document)'
  BY <1>1, ShowsLater DEF KeysInv
<1>4. documents' = documents \union {Published(at, ring)}
  BY <1>1 DEF Published
<1>5. \A document \in documents' : Shows(document)'
  BY <1>2, <1>3, <1>4
<1> QED
  BY <1>1, <1>5 DEF KeysInv

\* The new key takes over.
LEMMA RotateKeys ==
    ASSUME KeysInv, Rotate PROVE KeysInv'
<1>1. PICK changed :
         /\ Ring(changed)
         /\ changed = [kid \in Kids |->
               [keys[kid] EXCEPT !.status = IF kid = "k2" THEN "active"
                                            ELSE IF @ = "active" THEN "retired" ELSE @]]
  BY DEF Rotate
<1>2. \A kid \in Kids : keys[kid] \in Key
  BY DEF KeysInv
<1>3. ASSUME NEW kid \in Kids
      PROVE  /\ changed[kid] \in Key
             /\ keys[kid].status = "revoked" => changed[kid].status = "revoked"
  BY <1>1, <1>2 DEF Key, Rotate
<1>4. changed \in [Kids -> Key]
  BY <1>1, <1>3
<1> QED
  BY <1>1, <1>3, <1>4, RingKeys DEF Rotate, KeysInv

\* A key is revoked.
LEMMA RevokeKeys ==
    ASSUME KeysInv, NEW kid \in Kids, Revoke(kid) PROVE KeysInv'
<1>1. PICK changed : Ring(changed) /\ changed = [keys EXCEPT ![kid].status = "revoked"]
  BY DEF Revoke
<1>2. \A other \in Kids : keys[other] \in Key
  BY DEF KeysInv
<1>3. ASSUME NEW other \in Kids
      PROVE  /\ changed[other] \in Key
             /\ other = kid \/ keys[other].status = "revoked"
                  => changed[other].status = "revoked"
  BY <1>1, <1>2 DEF Key, KeysInv
<1>4. changed \in [Kids -> Key]
  BY <1>1, <1>3 DEF KeysInv
<1>5. /\ revokedAt' \in [Kids -> Nat \union {Unset}] /\ now' = now
      /\ revokedAt'[kid] = now
      /\ \A other \in Kids : other # kid => revokedAt'[other] = revokedAt[other]
  BY DEF Revoke, KeysInv
<1> QED
  BY <1>1, <1>3, <1>4, <1>5, RingKeys DEF KeysInv

\* The verifier's key, its ring and the documents agree in every reachable state.
LEMMA KeysInvariant == Spec => []KeysInv
<1>1. Init => KeysInv
  <2> SUFFICES ASSUME Init PROVE KeysInv
    OBVIOUS
  <2>1. now = 0 /\ documents = {Published(now, keys)} /\ revokedAt = [kid \in Kids |-> Unset]
    BY DEF Init
  <2>2. keys \in [Kids -> Key]
    BY DependencyAssumption DEF Init, Key
  <2>3. Shows(Published(now, keys))
    BY <2>1 DEF Shows, Published
  <2> QED
    BY <2>1, <2>2, <2>3 DEF KeysInv, Published
<1>2. KeysInv /\ [Next]_vars => KeysInv'
  <2> SUFFICES ASSUME KeysInv, [Next]_vars PROVE KeysInv'
    OBVIOUS
  <2>1. CASE UNCHANGED <<now, keys, revokedAt, documents>>
    BY <2>1 DEF KeysInv, Shows
  <2>2. CASE Tick
    BY <2>2, TickKeys
  <2>3. CASE Rotate
    BY <2>3, RotateKeys
  <2>4. ASSUME NEW kid \in Kids, Revoke(kid) PROVE KeysInv'
    BY <2>4, RevokeKeys
  <2>5. \/ UNCHANGED <<now, keys, revokedAt, documents>>
        \/ Tick \/ Rotate \/ \E kid \in Kids : Revoke(kid)
    <3>1. ASSUME NEW agent \in Agents, NEW message \in Messages,
                 SignRequest(agent, message)
          PROVE  UNCHANGED <<now, keys, revokedAt, documents>>
      BY <3>1 DEF SignRequest, trust
    <3>2. ASSUME NEW principal, NEW message, NEW purpose, NEW audience, NEW accepts,
                 NEW ttl, Issue(principal, message, purpose, audience, accepts, ttl)
          PROVE  UNCHANGED <<now, keys, revokedAt, documents>>
      BY <3>2 DEF Issue, trust
    <3>3. ASSUME NEW method, NEW proof, Satisfy(method, proof)
          PROVE  UNCHANGED <<now, keys, revokedAt, documents>>
      BY <3>3 DEF Satisfy, trust
    <3>4. Redeploy \/ UNCHANGED vars => UNCHANGED <<now, keys, revokedAt, documents>>
      BY DEF Redeploy, vars
    <3> QED
      BY <3>1, <3>2, <3>3, <3>4 DEF Next
  <2> QED
    BY <2>1, <2>2, <2>3, <2>4, <2>5
<1> QED
  BY <1>1, <1>2, PTL DEF Spec

\* A revocation takes effect within one document lifetime, for any rotation,
\* whichever document a resource server holds.
THEOREM RevocationTakesEffect == Spec => []RevocationBounded
<1>1. KeysInv => RevocationBounded
  <2> SUFFICES ASSUME KeysInv, NEW kid \in Kids, revokedAt[kid] # Unset,
                      now >= revokedAt[kid] + MetadataTtl, NEW document \in documents,
                      TokenTrusted(kid, document, {"publisher"}, now)
               PROVE  FALSE
    BY DEF RevocationBounded
  <2>1. Shows(document) /\ revokedAt[kid] \in Nat /\ now \in Nat /\ MetadataTtl \in Nat
    BY DependencyAssumption DEF KeysInv
  <2>2. /\ kid \in DOMAIN document.keys /\ document.keys[kid].status # "revoked"
        /\ now < document.expiresAt
    BY DEF TokenTrusted, VerifyMetadata, AssertMetadataDocument, SelectResultKey
  <2> QED
    BY <2>1, <2>2 DEF Shows
<1> QED
  BY <1>1, KeysInvariant, PTL

-----------------------------------------------------------------------------
(* Agent signatures *)

\* Nothing but the six fields makes a message.
Fields(method, uri, body, digest, proof, payment) ==
    [method |-> method, uri |-> uri, body |-> body, digest |-> digest,
     proof |-> proof, payment |-> payment]

Whole(m) == m = Fields(m.method, m.uri, m.body, m.digest, m.proof, m.payment)

\* A message of six fields has them, and is whole.
LEMMA FieldsWhole ==
    ASSUME NEW a, NEW b, NEW c, NEW d, NEW e, NEW f
    PROVE  Whole(Fields(a, b, c, d, e, f))
BY DEF Fields, Whole

\* A whole message with another digest, or another proof.
LEMMA WholeChanged ==
    ASSUME NEW m, Whole(m), NEW x, NEW y
    PROVE  /\ [m EXCEPT !.digest = x]
                = Fields(m.method, m.uri, m.body, x, m.proof, m.payment)
           /\ Whole([m EXCEPT !.digest = x])
           /\ Whole([m EXCEPT !.proof = x])
           /\ [m EXCEPT !.digest = x].digest = x
           /\ [m EXCEPT !.digest = x].body = m.body
           /\ [[m EXCEPT !.digest = x] EXCEPT !.digest = y] = [m EXCEPT !.digest = y]
<1> PICK a, b, c, d, e, f :
        /\ a = m.method /\ b = m.uri /\ c = m.body /\ d = m.digest
        /\ e = m.proof /\ f = m.payment
  OBVIOUS
<1>1. m = Fields(a, b, c, d, e, f)
  BY DEF Whole
<1>2. /\ [m EXCEPT !.digest = x] = Fields(a, b, c, x, e, f)
      /\ [m EXCEPT !.proof = x] = Fields(a, b, c, d, x, f)
      /\ [m EXCEPT !.digest = y] = Fields(a, b, c, y, e, f)
  BY <1>1 DEF Fields
<1>3. Whole(Fields(a, b, c, x, e, f)) /\ Whole(Fields(a, b, c, d, x, f))
  BY FieldsWhole
<1>4. /\ Fields(a, b, c, x, e, f).digest = x /\ Fields(a, b, c, x, e, f).body = c
      /\ [Fields(a, b, c, x, e, f) EXCEPT !.digest = y] = Fields(a, b, c, y, e, f)
  BY DEF Fields
<1>5. /\ [m EXCEPT !.digest = x]
            = Fields(m.method, m.uri, m.body, x, m.proof, m.payment)
      /\ Whole([m EXCEPT !.digest = x]) /\ Whole([m EXCEPT !.proof = x])
      /\ [m EXCEPT !.digest = x].digest = x /\ [m EXCEPT !.digest = x].body = m.body
  BY <1>2, <1>3, <1>4
<1>6. [[m EXCEPT !.digest = x] EXCEPT !.digest = y] = [m EXCEPT !.digest = y]
  BY <1>2, <1>4
<1> QED
  BY <1>5, <1>6

\* Two messages with the same required components, of equal values, differ at
\* most in a digest.
LEMMA SameComponents ==
    ASSUME NEW m, NEW n, Whole(m), Whole(n),
           Components(m) = Components(n),
           \A c \in Components(m) : Value(m, c) = Value(n, c),
           m.body # "" => m.digest = m.body, n.body # "" => n.digest = n.body
    PROVE  [m EXCEPT !.digest = ""] = [n EXCEPT !.digest = ""]
<1>1. m.method = n.method /\ m.uri = n.uri
  BY DEF Components, Value
<1>2. m.body = n.body
  <2>1. m.body # "" <=> "content-digest" \in Components(m)
    BY DEF Components
  <2>2. n.body # "" <=> "content-digest" \in Components(n)
    BY DEF Components
  <2>3. "content-digest" \in Components(m) => m.digest = n.digest
    BY DEF Value
  <2> QED
    BY <2>1, <2>2, <2>3
<1>3. m.proof = n.proof
  <2>1. m.proof # "" <=> "human-proof" \in Components(m)
    BY DEF Components
  <2>2. n.proof # "" <=> "human-proof" \in Components(n)
    BY DEF Components
  <2>3. "human-proof" \in Components(m) => m.proof = n.proof
    BY DEF Value
  <2> QED
    BY <2>1, <2>2, <2>3
<1>4. m.payment = n.payment
  <2>1. m.payment # "" <=> "payment-signature" \in Components(m)
    BY DEF Components
  <2>2. n.payment # "" <=> "payment-signature" \in Components(n)
    BY DEF Components
  <2>3. "payment-signature" \in Components(m) => m.payment = n.payment
    BY DEF Value
  <2> QED
    BY <2>1, <2>2, <2>3
<1>5. /\ [m EXCEPT !.digest = ""]
           = Fields(m.method, m.uri, m.body, "", m.proof, m.payment)
      /\ [n EXCEPT !.digest = ""]
           = Fields(n.method, n.uri, n.body, "", n.proof, n.payment)
  BY WholeChanged
<1> QED
  BY <1>1, <1>2, <1>3, <1>4, <1>5

\* A message that a signature covers is the one that was signed.
LEMMA CoveredIsSigned ==
    ASSUME NEW agent, NEW message \in Messages, NEW at, NEW m \in Presented,
           CoversMessage(Sign(agent, message, at, MaxLifetime), m),
           m.body # "" => m.digest = m.body
    PROVE  [m EXCEPT !.digest = ""] = [message EXCEPT !.digest = ""]
<1> DEFINE sent == IF message.body = "" THEN message
                   ELSE [message EXCEPT !.digest = message.body]
<1>1. \A other \in Messages : Whole(other)
  BY DependencyAssumption DEF Whole, Fields
<1>2. Whole(m)
  <2>1. ASSUME NEW other \in Messages, NEW x
        PROVE  Whole([other EXCEPT !.proof = x]) /\ Whole([other EXCEPT !.digest = x])
    BY <1>1, WholeChanged
  <2>2. PICK other \in Messages : m \in Altered(other)
    BY DEF Presented
  <2>3. \E x : m = [other EXCEPT !.proof = x] \/ m = [other EXCEPT !.digest = x]
    BY <2>2, Zenon DEF Altered
  <2> QED
    BY <2>1, <2>3
<1>3. /\ Whole(sent) /\ sent.body = message.body
      /\ sent.body # "" => sent.digest = sent.body
      /\ [sent EXCEPT !.digest = ""] = [message EXCEPT !.digest = ""]
  <2>1. Whole(message)
    BY <1>1
  <2>2. CASE message.body = ""
    BY <2>1, <2>2
  <2>3. CASE message.body # ""
    <3>1. sent = [message EXCEPT !.digest = message.body]
      BY <2>3
    <3>2. PICK x, y : x = message.body /\ y = ""
      OBVIOUS
    <3>3. sent = [message EXCEPT !.digest = x]
      BY <3>1, <3>2
    <3> HIDE DEF sent
    <3>4. /\ Whole(sent) /\ sent.digest = x /\ sent.body = message.body
          /\ [sent EXCEPT !.digest = y] = [message EXCEPT !.digest = y]
      BY <2>1, <3>3, WholeChanged
    <3> QED
      BY <3>2, <3>4
  <2> QED
    BY <2>2, <2>3
<1>4. Sign(agent, message, at, MaxLifetime).base = Base(sent, Components(sent))
  BY DEF Sign
<1> HIDE DEF sent
<1>5. Base(sent, Components(sent)) = Base(m, Components(m))
  BY <1>4 DEF CoversMessage
<1>6. Components(sent) = Components(m)
  BY <1>4 DEF CoversMessage, Base
<1>7. \A c \in Components(sent) : Value(sent, c) = Value(m, c)
  <2> SUFFICES ASSUME NEW c \in Components(sent)
               PROVE  Value(sent, c) = Value(m, c)
    OBVIOUS
  <2>1. Base(sent, Components(sent))[c] = Value(sent, c)
    BY DEF Base
  <2>2. Base(m, Components(m))[c] = Value(m, c)
    BY <1>6 DEF Base
  <2> QED
    BY <1>5, <2>1, <2>2
<1>8. [sent EXCEPT !.digest = ""] = [m EXCEPT !.digest = ""]
  BY <1>2, <1>3, <1>6, <1>7, SameComponents
<1> QED
  BY <1>3, <1>8

-----------------------------------------------------------------------------
(* The dependency *)

\* What an agent signed of a message, at some time.
SignedBy(agent, message, at) ==
    [message |-> message, signature |-> Sign(agent, message, at, MaxLifetime)]

\* The result, when it was signed, was sufficient.
SufficedWhenIssued ==
    LET claims == result.claims
    IN /\ claims.subject = requirement.subject /\ claims.binding = requirement.binding
       /\ claims.method \in Methods /\ Accepts(requirement, claims.method)
       /\ AcceptedFailures(requirement.accepts[claims.method], claims, claims.issuedAt) = {}
       /\ DescriptorFailures(Descriptor(claims.method), claims) = {}
       /\ TimeFailures(requirement, claims, claims.issuedAt) = {}
       /\ claims.verifiedAt \in Int /\ claims.issuedAt \in Int /\ claims.expiresAt \in Int
       /\ claims.issuedAt <= now

\* Nothing is issued before the agent signs, and no result comes before the
\* requirement; what the agent signed verifies as itself only.
DependencyInv ==
    /\ now \in Int
    /\ signed # Unset =>
         \E agent \in Agents, message \in Messages, at \in Int :
             signed = SignedBy(agent, message, at)
    /\ issued # Unset => signed # Unset
    /\ requirement # Unset => requirement.createdAt \in Int /\ requirement.expiresAt \in Int
    /\ result # Unset => requirement # Unset /\ SufficedWhenIssued
    /\ AgentAuthentic
    /\ ResultOfThisCeremony

\* What is left to speak against a result that once was sufficient is its age.
LEMMA SufficesLater ==
    ASSUME DependencyInv PROVE IssuedSuffices
<1> SUFFICES ASSUME result # Unset PROVE IssuedSuffices
  BY DEF IssuedSuffices
<1> DEFINE claims == result.claims
           accepted == requirement.accepts[claims.method]
<1>1. SufficedWhenIssued /\ now \in Int
  BY DEF DependencyInv
<1>2. SubjectFailures(requirement, claims) = {}
  BY <1>1 DEF SufficedWhenIssued, SubjectFailures, When
<1>3. AcceptedFailures(accepted, claims, now) \subseteq {"PROOF_STALE"}
  BY <1>1 DEF SufficedWhenIssued, AcceptedFailures, When
<1>4. /\ TimeFailures(requirement, claims, now) \subseteq {"EXPIRED"}
      /\ "EXPIRED" \in TimeFailures(requirement, claims, now) <=> now >= claims.expiresAt
  BY <1>1 DEF SufficedWhenIssued, TimeFailures, When
<1>5. claims.method \in DOMAIN Catalog /\ Catalog[claims.method] = Descriptor(claims.method)
  BY <1>1 DEF SufficedWhenIssued, Catalog
<1>6. EvaluateHumanResult(requirement, claims, Catalog, now)
        = AcceptedFailures(accepted, claims, now)
          \union TimeFailures(requirement, claims, now)
  BY <1>1, <1>2, <1>5 DEF SufficedWhenIssued, EvaluateHumanResult
<1>7. now = claims.issuedAt => EvaluateHumanResult(requirement, claims, Catalog, now) = {}
  BY <1>1, <1>6 DEF SufficedWhenIssued
<1> HIDE DEF claims, accepted
<1>8. /\ EvaluateHumanResult(requirement, claims, Catalog, now)
             \subseteq {"EXPIRED", "PROOF_STALE"}
      /\ "EXPIRED" \in EvaluateHumanResult(requirement, claims, Catalog, now)
             <=> now >= claims.expiresAt
  BY <1>3, <1>4, <1>6
<1> QED
  BY <1>7, <1>8 DEF IssuedSuffices, claims

\* An agent signs: nothing was issued yet.
LEMMA SignRequestDependency ==
    ASSUME DependencyInv, NEW agent \in Agents, NEW message \in Messages,
           SignRequest(agent, message)
    PROVE  DependencyInv'
<1>1. /\ issued = Unset /\ issued' = issued /\ now' = now
      /\ signed' = SignedBy(agent, message, now)
      /\ requirement' = requirement /\ result' = result /\ deploy' = deploy
  BY DEF SignRequest, DependencyInv, SignedBy
<1>2. AgentAuthentic'
  BY <1>1 DEF AgentAuthentic
<1>3. ResultOfThisCeremony'
  BY <1>1 DEF ResultOfThisCeremony, DependencyInv
<1>4. (result # Unset => requirement # Unset /\ SufficedWhenIssued)'
  BY <1>1 DEF DependencyInv, SufficedWhenIssued
<1>5. now \in Int /\ issued' = Unset
  BY <1>1 DEF DependencyInv
<1>6. (\E a \in Agents, m \in Messages, at \in Int : signed = SignedBy(a, m, at))'
  BY <1>1, <1>5 DEF SignedBy
<1>7. (requirement # Unset => requirement.createdAt \in Int /\ requirement.expiresAt \in Int)'
  BY <1>1 DEF DependencyInv
<1> QED
  BY <1>1, <1>2, <1>3, <1>4, <1>5, <1>6, <1>7 DEF DependencyInv

\* A requirement is issued for what the agent signed.
LEMMA IssueDependency ==
    ASSUME DependencyInv, NEW principal, NEW m \in Presented, NEW purpose, NEW audience,
           NEW accepts, NEW ttl, signed # Unset,
           Issue(principal, m, purpose, audience, accepts, ttl)
    PROVE  DependencyInv'
<1>1. PICK agent \in Agents, message \in Messages, at \in Int :
         signed = SignedBy(agent, message, at)
  BY DEF DependencyInv
<1>2. /\ signed.message = message
      /\ signed.signature = Sign(agent, message, at, MaxLifetime)
      /\ signed.signature.created = at /\ signed.signature.expires = at + MaxLifetime
  BY <1>1 DEF SignedBy, Sign
<1>3. /\ VerifyAgentRequest(signed.signature, m, now) /\ requirement = Unset
      /\ issued'.message = m
      /\ requirement'.binding = signed.signature.agent
      /\ requirement'.createdAt = now /\ requirement'.expiresAt = now + ttl
      /\ ttl \in MinTtl .. MaxTtl
      /\ now' = now /\ deploy' = deploy /\ signed' = signed /\ result' = result
  BY DEF Issue, CreateHumanRequirement, Creatable
<1>4. [m EXCEPT !.digest = ""] = [message EXCEPT !.digest = ""]
  <2>1. /\ CoversMessage(Sign(agent, message, at, MaxLifetime), m)
        /\ m.body # "" => m.digest = m.body
    BY <1>2, <1>3 DEF VerifyAgentRequest
  <2> QED
    BY <2>1, CoveredIsSigned
<1>5. now \in at - Skew .. at + MaxLifetime + Skew
  <2>1. at <= now + Skew /\ now - Skew <= at + MaxLifetime /\ now \in Int
    BY <1>2, <1>3 DEF VerifyAgentRequest, DependencyInv
  <2> QED
    BY <2>1, TrustAssumption
<1>6. AgentAuthentic'
  BY <1>2, <1>3, <1>4, <1>5 DEF AgentAuthentic
<1>7. result' = Unset
  BY <1>3 DEF DependencyInv
<1>8. ResultOfThisCeremony'
  BY <1>7 DEF ResultOfThisCeremony
<1>9. requirement'.createdAt \in Int /\ requirement'.expiresAt \in Int
  BY <1>3, PolicyAssumption DEF DependencyInv
<1>10. /\ now' \in Int /\ signed' # Unset
       /\ \E a \in Agents, n \in Messages, t \in Int : signed' = SignedBy(a, n, t)
  BY <1>1, <1>3 DEF DependencyInv
<1>11. (\E a \in Agents, n \in Messages, t \in Int : signed = SignedBy(a, n, t))'
  BY <1>10 DEF SignedBy
<1> QED
  BY <1>6, <1>7, <1>8, <1>9, <1>10, <1>11 DEF DependencyInv

\* What the service signs of a proof that the adapter accepted is sufficient.
LEMMA SatisfySuffices ==
    ASSUME DependencyInv, NEW method, NEW proof, requirement # Unset,
           Satisfy(method, proof)
    PROVE  SufficedWhenIssued'
<1> PICK answer \in Answers(proof) :
      /\ Satisfies(Verified(method, proof, answer, now), requirement.accepts[method], now)
      /\ Describes(Catalog[method], Verified(method, proof, answer, now))
      /\ result' = [claims |-> Result(requirement, Verified(method, proof, answer, now),
                                      Catalog[method], now, ResultTtl),
                    proof |-> proof, kid |-> signer]
  BY Zenon DEF Satisfy
<1> PICK verified : verified = Verified(method, proof, answer, now)
  OBVIOUS
<1>1. /\ verified = Verified(method, proof, answer, now)
      /\ Satisfies(verified, requirement.accepts[method], now)
      /\ Describes(Catalog[method], verified)
      /\ result'.claims = Result(requirement, verified, Catalog[method], now, ResultTtl)
  OBVIOUS
<1>2. /\ requirement' = requirement /\ now' = now /\ now \in Int
      /\ Accepts(requirement, method) /\ Current(requirement, now)
      /\ requirement.createdAt \in Int /\ requirement.expiresAt \in Int
      /\ requirement.accepts[method].version = Version
  BY DEF Satisfy, DependencyInv, Presentable
<1>3. method \in Methods /\ Catalog[method] = Descriptor(method)
  BY DEF Satisfy, Presentable, AssertNativeProof, MethodOf, Methods, Catalog
<1> DEFINE claims == Result(requirement, verified, Catalog[method], now, ResultTtl)
           until == Least({requirement.expiresAt, now + ResultTtl})
<1>4. /\ claims.subject = requirement.subject /\ claims.binding = requirement.binding
      /\ claims.method = method /\ claims.version = Version
      /\ claims.scope = verified.scope /\ claims.mode = verified.mode
      /\ claims.assurance = verified.assurance /\ claims.verifiedAt = verified.verifiedAt
      /\ claims.claim = Catalog[method].claim
      /\ claims.issuedAt = now /\ claims.expiresAt = until
  BY <1>1 DEF Result, Verified
<1>5. until \in Int /\ now < until /\ until <= requirement.expiresAt
  <2>1. ResultTtl \in Nat \ {0}
    BY DependencyAssumption
  <2>2. now < requirement.expiresAt
    BY <1>2 DEF Current
  <2> DEFINE times == {requirement.expiresAt, now + ResultTtl}
  <2>3. \E t \in times : \A other \in times : t <= other
    BY <1>2, <2>1
  <2>4. until \in times /\ \A other \in times : until <= other
    BY <2>3 DEF Least
  <2> HIDE DEF until
  <2> QED
    BY <1>2, <2>1, <2>2, <2>4
<1>6. verified.verifiedAt \in Int /\ verified.verifiedAt <= now
  <2>1. answer.createdAt = Unset \/ answer.createdAt \in Int
    BY <1>2 DEF Answers
  <2> QED
    BY <1>1, <1>2, <2>1 DEF Verified, Satisfies
<1> HIDE DEF claims, until
<1>7. AcceptedFailures(requirement.accepts[method], claims, now) = {}
  BY <1>1, <1>2, <1>4 DEF AcceptedFailures, When, Satisfies
<1>8. DescriptorFailures(Descriptor(method), claims) = {}
  BY <1>1, <1>3, <1>4 DEF DescriptorFailures, When, Describes, Descriptor
<1>9. TimeFailures(requirement, claims, now) = {}
  BY <1>2, <1>4, <1>5, <1>6 DEF TimeFailures, When, Current
<1>10. result'.claims = claims
  BY <1>1 DEF claims
<1> QED
  BY <1>2, <1>3, <1>4, <1>5, <1>6, <1>7, <1>8, <1>9, <1>10 DEF SufficedWhenIssued

\* A result is about the ceremony of its requirement.
LEMMA SatisfyDependency ==
    ASSUME DependencyInv, NEW method, NEW proof, requirement # Unset,
           Satisfy(method, proof)
    PROVE  DependencyInv'
<1>1. SufficedWhenIssued'
  BY SatisfySuffices
<1>2. /\ now' = now /\ deploy' = deploy /\ signed' = signed /\ issued' = issued
      /\ requirement' = requirement
  BY DEF Satisfy
<1>3. /\ Accepts(requirement, method) /\ Presentable(requirement, method, proof, deploy.legacy)
      /\ result'.proof = proof
      /\ result'.claims.method = method /\ result'.claims.claim = Catalog[method].claim
  BY DEF Satisfy, Result, Verified
<1>4. method \in Methods /\ Catalog[method].claim = method
  BY DEF Satisfy, Presentable, AssertNativeProof, MethodOf, Methods, Catalog, Descriptor
<1>5. /\ proof.nonce = requirement.requests[method].nonce
      /\ proof.hash = requirement.binding
      /\ requirement.requests[method].signal = requirement.binding
      /\ method = MethodOf(proof)
      /\ method = Legacy3 => /\ deploy.legacy /\ requirement.requests[method].legacy
  BY <1>3, <1>4 DEF Presentable, AssertNativeProof, MethodOf, Methods, Current4, Legacy3
<1>6. ResultOfThisCeremony'
  BY <1>2, <1>3, <1>4, <1>5 DEF ResultOfThisCeremony
<1>7. AgentAuthentic'
  BY <1>2 DEF AgentAuthentic, DependencyInv
<1>8. (\E a \in Agents, n \in Messages, t \in Int : signed = SignedBy(a, n, t))'
        \/ signed' = Unset
  BY <1>2 DEF DependencyInv, SignedBy
<1> QED
  BY <1>1, <1>2, <1>6, <1>7, <1>8 DEF DependencyInv

\* Time passes, keys change.
LEMMA OthersDependency ==
    ASSUME DependencyInv, now' \in Int, now <= now',
           UNCHANGED <<deploy, signed, issued, requirement, result>>
    PROVE  DependencyInv'
<1>1. AgentAuthentic' /\ ResultOfThisCeremony'
  BY DEF DependencyInv, AgentAuthentic, ResultOfThisCeremony
<1>2. (result # Unset => requirement # Unset /\ SufficedWhenIssued)'
  BY DEF DependencyInv, SufficedWhenIssued
<1>3. (signed # Unset => \E a \in Agents, n \in Messages, t \in Int :
                             signed = SignedBy(a, n, t))'
  BY DEF DependencyInv, SignedBy
<1> QED
  BY <1>1, <1>2, <1>3 DEF DependencyInv

\* The decisions of the components agree in every reachable state.
THEOREM DependencyInvariant == Spec => []DependencyInv
<1>1. Init => DependencyInv
  BY DEF Init, DependencyInv, AgentAuthentic, ResultOfThisCeremony
<1>2. DependencyInv /\ [Next]_vars => DependencyInv'
  <2> SUFFICES ASSUME DependencyInv, [Next]_vars PROVE DependencyInv'
    OBVIOUS
  <2>1. ASSUME NEW agent \in Agents, NEW message \in Messages, SignRequest(agent, message)
        PROVE  DependencyInv'
    BY <2>1, SignRequestDependency
  <2>2. ASSUME NEW principal \in Principals, NEW message \in Presented,
               NEW purpose \in Purposes, NEW audience \in Audiences,
               NEW accepts \in Methodologies, NEW ttl \in TTLs, signed # Unset,
               Issue(principal, message, purpose, audience, accepts, ttl)
        PROVE  DependencyInv'
    BY <2>2, IssueDependency
  <2>3. ASSUME requirement # Unset, NEW proof, NEW method, Satisfy(method, proof)
        PROVE  DependencyInv'
    BY <2>3, SatisfyDependency
  <2>4. CASE Rotate \/ Redeploy \/ (\E kid \in Kids : Revoke(kid)) \/ Tick \/ UNCHANGED vars
    <3>1. /\ UNCHANGED <<deploy, signed, issued, requirement, result>>
          /\ now' = now \/ now' = now + 1
      BY <2>4 DEF Rotate, Redeploy, Revoke, Tick, vars, verifier
    <3> QED
      BY <3>1, OthersDependency DEF DependencyInv
  <2> QED
    BY <2>1, <2>2, <2>3, <2>4 DEF Next
<1> QED
  BY <1>1, <1>2, PTL DEF Spec

\* The agent that a requirement names signed the request that it was issued
\* for, whatever came by the same way, for any messages and clock skew.
THEOREM AgentSigned == Spec => []AgentAuthentic
<1>1. DependencyInv => AgentAuthentic
  BY DEF DependencyInv
<1> QED
  BY <1>1, DependencyInvariant, PTL

\* A result is about the ceremony of its own requirement and caller, and of the
\* credential that it names, whichever methodologies are accepted.
THEOREM CeremonyBound == Spec => []ResultOfThisCeremony
<1>1. DependencyInv => ResultOfThisCeremony
  BY DEF DependencyInv
<1> QED
  BY <1>1, DependencyInvariant, PTL

\* What the verifier signs is sufficient to the resource server until it is too
\* old, for any requirement and lifetime.
THEOREM SufficientUntilOld == Spec => []IssuedSuffices
<1>1. DependencyInv => IssuedSuffices
  BY SufficesLater
<1> QED
  BY <1>1, DependencyInvariant, PTL

-----------------------------------------------------------------------------
(* Paths and grants *)

\* A set of natural numbers that is not empty has a least element.
LEMMA LeastNatural ==
    ASSUME NEW T, T \subseteq Nat, T # {}
    PROVE  \E n \in T : \A m \in T : n <= m
<1> DEFINE R == {pair \in Nat \X Nat : pair[1] < pair[2]}
<1>1. IsWellFoundedOn(R, Nat)
  BY NatLessThanWellFounded, Zenon DEF OpToRel
<1>2. \A m, n \in Nat : m < n => <<m, n>> \in R
  OBVIOUS
<1> HIDE DEF R
<1>3. \E n \in T : \A m \in T : ~(<<m, n>> \in R)
  BY <1>1, WFMin, Zenon
<1>4. PICK n \in T : \A m \in T : ~(<<m, n>> \in R)
  BY <1>3
<1>5. \A m \in T : n <= m
  <2> SUFFICES ASSUME NEW m \in T PROVE n <= m
    OBVIOUS
  <2>1. m \in Nat /\ n \in Nat
    OBVIOUS
  <2>2. ~(m < n)
    BY <1>2, <1>4, <2>1
  <2> QED
    BY <2>1, <2>2
<1> QED
  BY <1>5

Lists == Seq(Seq(STRING))

\* One more character of a path, after the segments of those before it.
Extended(path, n, list) ==
    IF path[n] = "/" THEN list
    ELSE IF n > 1 /\ path[n - 1] # "/"
      THEN [list EXCEPT ![Len(list)] = Append(@, path[n])]
    ELSE Append(list, <<path[n]>>)

\* f lists the segments of the first n characters of a path, for n up to last.
ListsUpTo(path, last, f) ==
    /\ f \in [0 .. last -> Lists]
    /\ f[0] = <<>>
    /\ \A n \in 1 .. last : f[n] = Extended(path, n, f[n - 1])

\* The function that SegmentList computes.
Segmenting(path, f) ==
    f = [n \in 0 .. Len(path) |->
            IF n = 0 THEN <<>>
            ELSE IF path[n] = "/" THEN f[n - 1]
            ELSE IF n > 1 /\ path[n - 1] # "/"
              THEN [f[n - 1] EXCEPT ![Len(f[n - 1])] = Append(@, path[n])]
            ELSE Append(f[n - 1], <<path[n]>>)]

\* A longer last segment, or one more.
LEMMA ExtendedLists ==
    ASSUME NEW path \in Seq(STRING), NEW n \in 1 .. Len(path), NEW list \in Lists
    PROVE  /\ Extended(path, n, list) \in Lists
           /\ Len(list) <= Len(Extended(path, n, list))
           /\ \A i \in 1 .. Len(list) - 1 : Extended(path, n, list)[i] = list[i]
           /\ path[n] # "/" =>
                \/ Extended(path, n, list) = Append(list, <<path[n]>>)
                \/ Len(Extended(path, n, list)) = Len(list) /\ n > 1 /\ path[n - 1] # "/"
<1>1. path[n] \in STRING /\ Len(list) \in Nat
  BY DEF Lists
<1>2. CASE path[n] = "/"
  BY <1>1, <1>2 DEF Extended
<1>3. CASE path[n] # "/" /\ n > 1 /\ path[n - 1] # "/"
  <2> DEFINE longer == [list EXCEPT ![Len(list)] = Append(@, path[n])]
  <2>1. list \in [1 .. Len(list) -> Seq(STRING)]
    BY DEF Lists
  <2>2. \A i \in 1 .. Len(list) : list[i] \in Seq(STRING) /\ Append(list[i], path[n]) \in Seq(STRING)
    BY <1>1, <2>1
  <2>3. longer \in [1 .. Len(list) -> Seq(STRING)]
    BY <1>1, <2>1, <2>2
  <2>4. longer \in Lists /\ Len(longer) = Len(list)
    BY <1>1, <2>3 DEF Lists
  <2>5. \A i \in 1 .. Len(list) - 1 : longer[i] = list[i]
    <3>1. \A i \in 1 .. Len(list) - 1 : i \in 1 .. Len(list) /\ i # Len(list)
      BY <1>1
    <3>2. DOMAIN list = 1 .. Len(list)
      BY <2>1
    <3> QED
      BY <3>1, <3>2
  <2>6. Extended(path, n, list) = longer
    BY <1>3 DEF Extended
  <2> HIDE DEF longer
  <2> QED
    BY <1>1, <1>3, <2>4, <2>5, <2>6
<1>4. CASE path[n] # "/" /\ ~(n > 1 /\ path[n - 1] # "/")
  <2>1. Extended(path, n, list) = Append(list, <<path[n]>>)
    BY <1>4 DEF Extended
  <2>2. <<path[n]>> \in Seq(STRING)
    BY <1>1
  <2>3. /\ Append(list, <<path[n]>>) \in Lists
        /\ Len(Append(list, <<path[n]>>)) = Len(list) + 1
        /\ \A i \in 1 .. Len(list) : Append(list, <<path[n]>>)[i] = list[i]
    BY <2>2, AppendProperties DEF Lists
  <2> QED
    BY <1>1, <2>1, <2>3
<1> QED
  BY <1>2, <1>3, <1>4

\* The segments can be listed, character by character.
LEMMA ListsExist ==
    ASSUME NEW path \in Seq(STRING)
    PROVE  \E f : ListsUpTo(path, Len(path), f)
<1> DEFINE Missing == {n \in 0 .. Len(path) : ~\E f : ListsUpTo(path, n, f)}
<1>1. Len(path) \in Nat /\ Missing \subseteq Nat
  OBVIOUS
<1>2. SUFFICES ASSUME Missing # {} PROVE FALSE
  BY <1>1
<1>3. PICK n \in Missing : \A m \in Missing : n <= m
  BY <1>1, <1>2, LeastNatural
<1>4. n \in 0 .. Len(path) /\ ~\E f : ListsUpTo(path, n, f)
  OBVIOUS
<1>5. n # 0
  <2> SUFFICES ASSUME n = 0 PROVE FALSE
    OBVIOUS
  <2> DEFINE g == [k \in 0 .. 0 |-> <<>>]
  <2>1. <<>> \in Lists /\ 1 .. 0 = {}
    BY DEF Lists
  <2>2. ListsUpTo(path, 0, g)
    BY <2>1 DEF ListsUpTo
  <2> QED
    BY <1>4, <2>2
<1>6. n - 1 \in 0 .. Len(path) /\ n - 1 \notin Missing
  BY <1>1, <1>3, <1>4, <1>5
<1>7. PICK f : ListsUpTo(path, n - 1, f)
  BY <1>6
<1> HIDE DEF Missing
<1> DEFINE g == [k \in 0 .. n |-> IF k = n THEN Extended(path, n, f[n - 1]) ELSE f[k]]
<1>8. f[n - 1] \in Lists /\ \A k \in 0 .. n - 1 : f[k] \in Lists
  BY <1>1, <1>4, <1>5, <1>7 DEF ListsUpTo
<1>9. Extended(path, n, f[n - 1]) \in Lists
  <2>1. n \in 1 .. Len(path)
    BY <1>4, <1>5
  <2> QED
    BY <1>8, <2>1, ExtendedLists
<1>10. \A k \in 0 .. n : g[k] \in Lists
  BY <1>4, <1>8, <1>9
<1>11. \A k \in 1 .. n : g[k] = Extended(path, k, g[k - 1])
  BY <1>4, <1>5, <1>7 DEF ListsUpTo
<1>12. g[0] = <<>>
  BY <1>4, <1>5, <1>7 DEF ListsUpTo
<1>13. ListsUpTo(path, n, g)
  <2>1. g \in [0 .. n -> Lists]
    BY <1>10
  <2> QED
    BY <1>11, <1>12, <2>1 DEF ListsUpTo
<1> QED
  BY <1>4, <1>13

\* SegmentList is the last of the lists.
LEMMA SegmentListIs ==
    ASSUME NEW path \in Seq(STRING)
    PROVE  \E f : ListsUpTo(path, Len(path), f) /\ SegmentList(path) = f[Len(path)]
<1> DEFINE list == CHOOSE g : Segmenting(path, g)
<1>1. SegmentList(path) = list[Len(path)]
  BY Zenon DEF SegmentList, Segmenting
<1>2. Len(path) \in Nat
  OBVIOUS
<1>3. PICK f : ListsUpTo(path, Len(path), f)
  BY ListsExist
<1>4. \A n \in 0 .. Len(path) :
         f[n] = IF n = 0 THEN <<>>
                ELSE IF path[n] = "/" THEN f[n - 1]
                ELSE IF n > 1 /\ path[n - 1] # "/"
                  THEN [f[n - 1] EXCEPT ![Len(f[n - 1])] = Append(@, path[n])]
                ELSE Append(f[n - 1], <<path[n]>>)
  <2>1. \A n \in 0 .. Len(path) : n = 0 \/ n \in 1 .. Len(path)
    BY <1>2
  <2>2. f[0] = <<>> /\ \A n \in 1 .. Len(path) : f[n] = Extended(path, n, f[n - 1])
    BY <1>3 DEF ListsUpTo
  <2>3. ~(0 \in 1 .. Len(path))
    BY <1>2
  <2> QED
    BY <2>1, <2>2, <2>3, Zenon DEF Extended
<1>5. Segmenting(path, f)
  BY <1>3, <1>4 DEF Segmenting, ListsUpTo
<1>6. Segmenting(path, list)
  BY <1>5, Zenon
<1> HIDE DEF list
<1>7. list[0] = <<>>
  BY <1>2, <1>6 DEF Segmenting
<1>8. ASSUME NEW n \in 1 .. Len(path)
      PROVE  list[n] = Extended(path, n, list[n - 1])
  <2>1. PICK g : /\ g = [k \in 0 .. Len(path) |->
                            IF k = 0 THEN <<>>
                            ELSE IF path[k] = "/" THEN list[k - 1]
                            ELSE IF k > 1 /\ path[k - 1] # "/"
                              THEN [list[k - 1] EXCEPT ![Len(list[k - 1])] = Append(@, path[k])]
                            ELSE Append(list[k - 1], <<path[k]>>)]
                 /\ g = list
    BY <1>6, Zenon DEF Segmenting
  <2>2. n \in 0 .. Len(path) /\ n # 0
    BY <1>2
  <2> QED
    BY <2>1, <2>2 DEF Extended
<1> DEFINE Wrong == {n \in 0 .. Len(path) : list[n] # f[n]}
<1>9. Wrong = {}
  <2> SUFFICES ASSUME Wrong # {} PROVE FALSE
    OBVIOUS
  <2>1. Wrong \subseteq Nat
    BY <1>2
  <2>2. PICK n \in Wrong : \A m \in Wrong : n <= m
    BY <2>1, LeastNatural
  <2>3. n # 0
    BY <1>3, <1>7 DEF ListsUpTo
  <2>4. n \in 1 .. Len(path) /\ n - 1 \in 0 .. Len(path)
    BY <1>2, <2>3
  <2>5. list[n - 1] = f[n - 1]
    BY <1>2, <2>2, <2>4
  <2> QED
    BY <1>3, <1>8, <2>4, <2>5 DEF ListsUpTo
<1> QED
  BY <1>1, <1>2, <1>3, <1>9

\* The segments of the first characters do not depend on the others.
LEMMA ListsAgree ==
    ASSUME NEW path \in Seq(STRING), NEW other \in Seq(STRING),
           NEW last \in Nat, last <= Len(path), last <= Len(other),
           \A i \in 1 .. last : path[i] = other[i],
           NEW f, ListsUpTo(path, Len(path), f),
           NEW g, ListsUpTo(other, Len(other), g)
    PROVE  f[last] = g[last]
<1> DEFINE Apart == {n \in 0 .. last : f[n] # g[n]}
<1>1. Len(path) \in Nat /\ Len(other) \in Nat /\ Apart \subseteq Nat
  OBVIOUS
<1>2. Apart = {}
  <2> SUFFICES ASSUME Apart # {} PROVE FALSE
    OBVIOUS
  <2>1. PICK n \in Apart : \A m \in Apart : n <= m
    BY <1>1, LeastNatural
  <2>2. n # 0
    BY DEF ListsUpTo
  <2>3. /\ n \in 1 .. last /\ n - 1 \in 0 .. last
        /\ n \in 1 .. Len(path) /\ n \in 1 .. Len(other)
    BY <1>1, <2>2
  <2>4. f[n - 1] = g[n - 1]
    BY <1>1, <2>1, <2>3
  <2>5. path[n] = other[n] /\ (n > 1 => path[n - 1] = other[n - 1])
    BY <2>3
  <2>6. Extended(path, n, f[n - 1]) = Extended(other, n, g[n - 1])
    BY <2>4, <2>5 DEF Extended
  <2>7. f[n] = g[n]
    BY <2>3, <2>6 DEF ListsUpTo
  <2> QED
    BY <2>7
<1> QED
  BY <1>2

\* A slash at the end of a path ends no further segment.
LEMMA NormalizedSegments ==
    ASSUME NEW path \in Seq(STRING)
    PROVE  /\ Normalized(path) \in Seq(STRING)
           /\ SegmentList(Normalized(path)) = SegmentList(path)
<1>1. CASE Len(path) > 1 /\ path[Len(path)] = "/"
  <2> DEFINE short == SubSeq(path, 1, Len(path) - 1)
  <2>1. Len(path) \in Nat /\ Normalized(path) = short
    BY <1>1 DEF Normalized
  <2>2. /\ short \in Seq(STRING) /\ Len(short) = Len(path) - 1
        /\ \A i \in 1 .. Len(path) - 1 : short[i] = path[i]
    BY <1>1, <2>1, SubSeqProperties
  <2> HIDE DEF short
  <2>3. PICK f : ListsUpTo(path, Len(path), f) /\ SegmentList(path) = f[Len(path)]
    BY SegmentListIs
  <2>4. PICK g : ListsUpTo(short, Len(short), g) /\ SegmentList(short) = g[Len(short)]
    BY <2>2, SegmentListIs
  <2>5. PICK last \in Nat : last = Len(path) - 1
    BY <1>1, <2>1
  <2>6. /\ last <= Len(path) /\ last <= Len(short)
        /\ \A i \in 1 .. last : path[i] = short[i]
    BY <2>1, <2>2, <2>5
  <2>7. f[last] = g[last]
    BY <2>2, <2>3, <2>4, <2>6, ListsAgree
  <2>8. f[Len(path)] = f[Len(path) - 1]
    <3>1. Len(path) \in 1 .. Len(path)
      BY <1>1, <2>1
    <3> QED
      BY <1>1, <2>3, <3>1 DEF ListsUpTo, Extended
  <2> QED
    BY <2>1, <2>2, <2>3, <2>4, <2>5, <2>7, <2>8
<1>2. CASE ~(Len(path) > 1 /\ path[Len(path)] = "/")
  BY <1>2 DEF Normalized
<1> QED
  BY <1>1, <1>2

\* What is listed before a slash stays, whatever follows.
LEMMA ListsGrow ==
    ASSUME NEW path \in Seq(STRING), NEW f, ListsUpTo(path, Len(path), f),
           NEW n \in Nat, n + 1 <= Len(path), path[n + 1] = "/"
    PROVE  StartsWith(f[Len(path)], f[n])
<1>1. Len(path) \in Nat /\ \A m \in 0 .. Len(path) : f[m] \in Lists /\ Len(f[m]) \in Nat
  BY DEF ListsUpTo, Lists
<1> DEFINE Keeps(m) == /\ Len(f[n]) <= Len(f[m])
                       /\ path[m] # "/" => Len(f[n]) < Len(f[m])
                       /\ \A i \in 1 .. Len(f[n]) : f[m][i] = f[n][i]
           Wrong == {m \in n + 1 .. Len(path) : ~Keeps(m)}
<1>2. n \in 0 .. Len(path) /\ n + 1 \in 1 .. Len(path)
  BY <1>1
<1>3. Wrong = {}
  <2> SUFFICES ASSUME Wrong # {} PROVE FALSE
    OBVIOUS
  <2>1. Wrong \subseteq Nat
    BY <1>1
  <2>2. PICK m \in Wrong : \A k \in Wrong : m <= k
    BY <2>1, LeastNatural
  <2>3. m \in n + 1 .. Len(path) /\ m \in 1 .. Len(path) /\ ~Keeps(m) /\ m \in 0 .. Len(path)
    BY <1>1
  <2>4. f[m] = Extended(path, m, f[m - 1])
    BY <2>3 DEF ListsUpTo
  <2>5. CASE m = n + 1
    <3>1. f[m] = f[n]
      BY <2>4, <2>5 DEF Extended
    <3> QED
      BY <1>1, <1>2, <2>3, <2>5, <3>1
  <2>6. CASE m > n + 1
    <3>1. m - 1 \in n + 1 .. Len(path) /\ m - 1 \notin Wrong /\ m - 1 \in 0 .. Len(path)
      BY <1>1, <2>2, <2>3, <2>6
    <3>2. Keeps(m - 1)
      BY <3>1
    <3> HIDE DEF Keeps, Wrong
    <3> PICK list \in Lists, next \in Lists, base \in Lists :
            list = f[m - 1] /\ next = f[m] /\ base = f[n]
      BY <1>1, <1>2, <2>3, <3>1
    <3>3. /\ Len(list) \in Nat /\ Len(next) \in Nat /\ Len(base) \in Nat
          /\ Len(base) <= Len(list) /\ (path[m - 1] # "/" => Len(base) < Len(list))
          /\ \A i \in 1 .. Len(base) : list[i] = base[i]
      BY <3>2 DEF Keeps, Lists
    <3>4. /\ next = Extended(path, m, list)
          /\ Len(list) <= Len(next)
          /\ \A i \in 1 .. Len(list) - 1 : next[i] = list[i]
          /\ path[m] # "/" =>
                \/ next = Append(list, <<path[m]>>)
                \/ Len(next) = Len(list) /\ m > 1 /\ path[m - 1] # "/"
      <4> PICK k \in 1 .. Len(path) : k = m
        BY <2>3
      <4>1. next = Extended(path, k, list)
        BY <2>4
      <4> QED
        BY <4>1, ExtendedLists
    <3>5. path[m] \in STRING /\ <<path[m]>> \in Seq(STRING)
      BY <2>3
    <3>6. CASE path[m] = "/"
      <4>1. next = list
        BY <3>4, <3>6 DEF Extended
      <4>2. Keeps(m)
        BY <3>3, <3>6, <4>1 DEF Keeps
      <4> QED
        BY <2>3, <4>2
    <3>7. CASE path[m] # "/" /\ next = Append(list, <<path[m]>>)
      <4>1. Len(next) = Len(list) + 1 /\ \A i \in 1 .. Len(list) : next[i] = list[i]
        BY <3>5, <3>7, AppendProperties DEF Lists
      <4>2. \A i \in 1 .. Len(base) : i \in 1 .. Len(list)
        BY <3>3
      <4>3. Keeps(m)
        BY <3>3, <4>1, <4>2 DEF Keeps
      <4> QED
        BY <2>3, <4>3
    <3>8. CASE path[m] # "/" /\ Len(next) = Len(list) /\ m > 1 /\ path[m - 1] # "/"
      <4>1. \A i \in 1 .. Len(base) : i \in 1 .. Len(list) - 1
        BY <3>3, <3>8
      <4>2. Keeps(m)
        BY <3>3, <3>4, <3>8, <4>1 DEF Keeps
      <4> QED
        BY <2>3, <4>2
    <3> QED
      BY <3>4, <3>6, <3>7, <3>8
  <2> QED
    BY <2>3, <2>5, <2>6
<1>4. Keeps(Len(path)) /\ Len(path) \in 0 .. Len(path)
  BY <1>1, <1>2, <1>3
<1>5. PICK last \in Lists, base \in Lists : last = f[Len(path)] /\ base = f[n]
  BY <1>1, <1>2, <1>4
<1>6. Len(base) <= Len(last) /\ \A i \in 1 .. Len(base) : last[i] = base[i]
  BY <1>4, <1>5
<1>7. SubSeq(last, 1, Len(base)) = base
  <2>1. last \in Seq(Seq(STRING)) /\ base \in Seq(Seq(STRING)) /\ Len(base) \in Nat
    BY <1>5 DEF Lists
  <2>2. /\ SubSeq(last, 1, Len(base)) \in Seq(Seq(STRING))
        /\ Len(SubSeq(last, 1, Len(base))) = Len(base)
        /\ \A i \in 1 .. Len(base) : SubSeq(last, 1, Len(base))[i] = last[i]
    BY <1>6, <2>1, SubSeqProperties
  <2> QED
    BY <1>6, <2>1, <2>2, SeqEqual
<1> QED
  BY <1>5, <1>6, <1>7 DEF StartsWith

\* A resource under a prefix, by the characters of both (the boundary of
\* resourceUriAuthorized), is under it segment by segment.
LEMMA UnderSegments ==
    ASSUME NEW path \in Seq(STRING), NEW prefix \in Seq(STRING), Under(path, prefix)
    PROVE  StartsWith(SegmentList(path), SegmentList(prefix))
<1>1. PICK f : ListsUpTo(path, Len(path), f) /\ SegmentList(path) = f[Len(path)]
  BY SegmentListIs
<1>2. PICK g : ListsUpTo(prefix, Len(prefix), g) /\ SegmentList(prefix) = g[Len(prefix)]
  BY SegmentListIs
<1>3. Len(path) \in Nat /\ Len(prefix) \in Nat
  OBVIOUS
<1>4. SegmentList(path) \in Lists /\ SegmentList(path) \in Seq(Seq(STRING))
  BY <1>1, <1>3 DEF ListsUpTo, Lists
<1>5. CASE prefix = <<"/">>
  <2>1. Len(prefix) = 1 /\ prefix[1] = "/"
    BY <1>5
  <2>2. g[1] = g[0] /\ g[0] = <<>>
    BY <1>2, <2>1 DEF ListsUpTo, Extended
  <2>3. SegmentList(prefix) = <<>>
    BY <1>2, <2>1, <2>2
  <2>4. SubSeq(SegmentList(path), 1, 0) = <<>>
    BY <1>4, SubSeqEmpty
  <2>5. Len(<<>>) = 0 /\ Len(SegmentList(path)) \in Nat
    BY <1>4
  <2> QED
    BY <2>3, <2>4, <2>5 DEF StartsWith
<1>6. CASE path = prefix
  <2>1. SubSeq(SegmentList(path), 1, Len(SegmentList(path))) = SegmentList(path)
    BY <1>4, SubSeqFull
  <2>2. Len(SegmentList(path)) \in Nat
    BY <1>4
  <2> QED
    BY <1>6, <2>1, <2>2 DEF StartsWith
<1>7. CASE StartsWith(path, Append(prefix, "/"))
  <2> DEFINE long == Append(prefix, "/")
  <2>1. /\ Len(long) = Len(prefix) + 1 /\ long[Len(prefix) + 1] = "/"
        /\ \A i \in 1 .. Len(prefix) : long[i] = prefix[i]
    <3> DEFINE S == STRING \union {"/"}
    <3>1. "/" \in S /\ STRING \subseteq S
      OBVIOUS
    <3> HIDE DEF S
    <3>2. prefix \in Seq(S)
      BY <3>1, SeqMonotonic
    <3> QED
      BY <3>1, <3>2, AppendProperties
  <2> HIDE DEF long
  <2>2. Len(long) <= Len(path) /\ SubSeq(path, 1, Len(long)) = long
    BY <1>7 DEF StartsWith, long
  <2>3. \A i \in 1 .. Len(long) : path[i] = long[i]
    <3>1. \A i \in 1 .. Len(long) : SubSeq(path, 1, Len(long))[i] = path[i]
      BY <1>3, <2>1, <2>2, SubSeqProperties
    <3> QED
      BY <2>2, <3>1
  <2>4. /\ \A i \in 1 .. Len(prefix) : path[i] = prefix[i]
        /\ path[Len(prefix) + 1] = "/" /\ Len(prefix) + 1 <= Len(path)
    BY <1>3, <2>1, <2>2, <2>3
  <2>5. f[Len(prefix)] = g[Len(prefix)]
    BY <1>1, <1>2, <1>3, <2>4, ListsAgree
  <2>6. StartsWith(f[Len(path)], f[Len(prefix)])
    BY <1>1, <1>3, <2>4, ListsGrow
  <2> QED
    BY <1>1, <1>2, <2>5, <2>6
<1> QED
  BY <1>5, <1>6, <1>7 DEF Under

\* The authenticator's grant covers a resource segment by segment.
LEMMA CoversSegments ==
    ASSUME NEW uri, NEW grant, uri.path \in Seq(STRING), grant.prefix \in Seq(STRING),
           Covers(grant, uri)
    PROVE  StartsWith(SegmentList(uri.path), SegmentList(grant.prefix))
<1> PICK path \in Seq(STRING), prefix \in Seq(STRING) :
        path = uri.path /\ prefix = grant.prefix
  OBVIOUS
<1>1. Under(Normalized(path), Normalized(prefix))
  BY DEF Covers
<1>2. /\ Normalized(path) \in Seq(STRING) /\ Normalized(prefix) \in Seq(STRING)
      /\ SegmentList(Normalized(path)) = SegmentList(path)
      /\ SegmentList(Normalized(prefix)) = SegmentList(prefix)
  BY NormalizedSegments
<1>3. StartsWith(SegmentList(Normalized(path)), SegmentList(Normalized(prefix)))
  BY <1>1, <1>2, UnderSegments
<1> QED
  BY <1>2, <1>3

\* What comes with a request on its way leaves its URL alone.
LEMMA PresentedPath ==
    ASSUME NEW m \in Presented PROVE m.uri.path \in Seq(STRING)
<1>1. PICK other \in Messages : m \in Altered(other)
  BY DEF Presented
<1>2. PICK x : m = [other EXCEPT !.proof = x] \/ m = [other EXCEPT !.digest = x]
  BY <1>1, Zenon DEF Altered
<1>3. /\ other = Fields(other.method, other.uri, other.body, other.digest, other.proof,
                        other.payment)
      /\ other.uri.path \in Seq(STRING)
  BY DependencyAssumption DEF Fields
<1>4. PICK a, b, c, d, e, f : other = Fields(a, b, c, d, e, f) /\ b = other.uri
  BY <1>3
<1>5. m = Fields(a, b, c, d, x, f) \/ m = Fields(a, b, c, x, e, f)
  BY <1>2, <1>4 DEF Fields
<1>6. m.uri = b
  BY <1>5 DEF Fields
<1> QED
  BY <1>3, <1>4, <1>6

\* What authorizeIssuance lets pass.
LEMMA Authorized ==
    ASSUME NEW principal, NEW ask, NEW profile,
           AuthorizeIssuance(principal, ask, profile) = "ok"
    PROVE  /\ principal.wildcard => profile = "dev"
           /\ ~principal.wildcard =>
                /\ ask.purpose \in principal.purposes
                /\ ask.audience \in principal.audiences
                /\ ask.httpMethod \in principal.httpMethods
                /\ ask.accepts \subseteq principal.methods
                /\ ResourceUriAuthorized(ask.uri, principal.resources)
BY DEF AuthorizeIssuance

\* A requirement is issued to one that was granted it.
LEMMA IssueGranted ==
    ASSUME deploy \in Deployments, NEW principal \in Principals, NEW m \in Presented,
           NEW purpose, NEW audience, NEW accepts, NEW ttl,
           Issue(principal, m, purpose, audience, accepts, ttl)
    PROVE  Granted'
<1> DEFINE ask == [purpose |-> purpose, audience |-> audience, httpMethod |-> m.method,
                   uri |-> m.uri, accepts |-> Named(accepts)]
<1>1. /\ issued'.ask = ask
      /\ issued'.principal = (IF deploy.authenticator THEN principal ELSE Unset)
      /\ deploy' = deploy
      /\ deploy.authenticator => AuthorizeIssuance(principal, ask, deploy.profile) = "ok"
  BY DEF Issue
<1>2. DOMAIN requirement'.accepts = Named(accepts)
  BY DEF Issue, CreateHumanRequirement
<1>3. CASE ~deploy.authenticator
  <2>1. AssertIssuanceRouterConfig(deploy.profile, deploy.authenticator,
                                   deploy.allowUnauthenticated)
    BY DependencyAssumption
  <2>2. deploy.profile = "dev"
    BY <1>3, <2>1 DEF AssertIssuanceRouterConfig
  <2> QED
    BY <1>1, <1>3, <2>2 DEF Granted
<1>4. CASE deploy.authenticator
  <2>1. /\ principal.wildcard => deploy.profile = "dev"
        /\ ~principal.wildcard =>
              /\ ask.purpose \in principal.purposes
              /\ ask.audience \in principal.audiences
              /\ ask.httpMethod \in principal.httpMethods
              /\ ask.accepts \subseteq principal.methods
              /\ ResourceUriAuthorized(ask.uri, principal.resources)
    BY <1>1, <1>4, Authorized
  <2>2. CASE principal.wildcard
    BY <1>1, <1>4, <2>1, <2>2 DEF Granted
  <2>3. CASE ~principal.wildcard
    <3>1. PICK grant \in principal.resources : m.uri.https /\ Covers(grant, m.uri)
      BY <2>1, <2>3 DEF ResourceUriAuthorized
    <3>2. m.uri.path \in Seq(STRING) /\ grant.prefix \in Seq(STRING)
      BY PresentedPath, DependencyAssumption
    <3>3. StartsWith(SegmentList(m.uri.path), SegmentList(grant.prefix))
      BY <3>1, <3>2, CoversSegments
    <3>4. grant.https /\ grant.origin = m.uri.origin
      BY <3>1 DEF Covers
    <3>5. ask.uri = m.uri /\ ask.accepts = Named(accepts)
      OBVIOUS
    <3> HIDE DEF ask
    <3> QED
      BY <1>1, <1>2, <1>4, <2>1, <2>3, <3>1, <3>3, <3>4, <3>5 DEF Granted
  <2> QED
    BY <2>2, <2>3
<1> QED
  BY <1>3, <1>4

\* Nothing is issued beyond what the authenticator granted, nor beside the
\* granted prefixes, for any principals, grants, paths and deployments.
THEOREM IssuedWithinGrants == Spec => []Granted
<1> DEFINE I == deploy \in Deployments /\ Granted
<1>1. Init => I
  BY DEF Init, Granted
<1>2. I /\ [Next]_vars => I'
  <2> SUFFICES ASSUME I, [Next]_vars PROVE I'
    OBVIOUS
  <2>1. ASSUME NEW principal \in Principals, NEW message \in Presented,
               NEW purpose, NEW audience, NEW accepts, NEW ttl,
               Issue(principal, message, purpose, audience, accepts, ttl)
        PROVE  I'
    <3>1. Granted' /\ deploy' = deploy
      BY <2>1, IssueGranted DEF Issue
    <3> QED
      BY <3>1
  <2>2. CASE UNCHANGED <<deploy, issued, requirement>>
    BY <2>2 DEF Granted
  <2>3. ASSUME \/ \E agent \in Agents, message \in Messages : SignRequest(agent, message)
               \/ \E proof, method : Satisfy(method, proof)
               \/ Rotate \/ Redeploy \/ (\E kid \in Kids : Revoke(kid)) \/ Tick
               \/ UNCHANGED vars
        PROVE  UNCHANGED <<deploy, issued, requirement>>
    BY <2>3 DEF SignRequest, Satisfy, Rotate, Redeploy, Revoke, Tick, vars, verifier
  <2> QED
    BY <2>1, <2>2, <2>3 DEF Next
<1>3. I => Granted
  OBVIOUS
<1> QED
  BY <1>1, <1>2, <1>3, PTL DEF Spec

\* Each segment of one list begins the same segment of another.
Begins(list, other) ==
    /\ Len(list) <= Len(other)
    /\ \A j \in 1 .. Len(list) :
          /\ Len(list[j]) <= Len(other[j])
          /\ \A c \in 1 .. Len(list[j]) : other[j][c] = list[j][c]

\* What Begins says of one character.
LEMMA BeginsAt ==
    ASSUME NEW list, NEW other, Begins(list, other),
           NEW j \in 1 .. Len(list), NEW c \in 1 .. Len(list[j])
    PROVE  Len(list[j]) <= Len(other[j]) /\ other[j][c] = list[j][c]
BY DEF Begins

\* What a further character does to the segments.
LEMMA ExtendedCases ==
    ASSUME NEW path \in Seq(STRING), NEW n \in 1 .. Len(path), NEW list \in Lists,
           NEW next, next = Extended(path, n, list)
    PROVE  /\ path[n] = "/" => next = list
           /\ path[n] # "/" /\ ~(n > 1 /\ path[n - 1] # "/") =>
                /\ Len(next) = Len(list) + 1
                /\ \A j \in 1 .. Len(list) : next[j] = list[j]
                /\ Len(next[Len(list) + 1]) = 1 /\ next[Len(list) + 1][1] = path[n]
           /\ path[n] # "/" /\ n > 1 /\ path[n - 1] # "/" /\ Len(list) > 0 =>
                /\ Len(next) = Len(list)
                /\ \A j \in 1 .. Len(list) - 1 : next[j] = list[j]
                /\ Len(next[Len(list)]) = Len(list[Len(list)]) + 1
                /\ \A c \in 1 .. Len(list[Len(list)]) :
                      next[Len(list)][c] = list[Len(list)][c]
                /\ next[Len(list)][Len(list[Len(list)]) + 1] = path[n]
<1>1. path[n] \in STRING /\ Len(list) \in Nat /\ list \in Seq(Seq(STRING))
  BY DEF Lists
<1>2. path[n] = "/" => next = list
  BY DEF Extended
<1>3. ASSUME path[n] # "/", ~(n > 1 /\ path[n - 1] # "/")
      PROVE  /\ Len(next) = Len(list) + 1
             /\ \A j \in 1 .. Len(list) : next[j] = list[j]
             /\ Len(next[Len(list) + 1]) = 1 /\ next[Len(list) + 1][1] = path[n]
  <2>1. next = Append(list, <<path[n]>>)
    BY <1>3 DEF Extended
  <2>2. <<path[n]>> \in Seq(STRING) /\ Len(<<path[n]>>) = 1 /\ <<path[n]>>[1] = path[n]
    BY <1>1
  <2>3. /\ Len(next) = Len(list) + 1 /\ next[Len(list) + 1] = <<path[n]>>
        /\ \A j \in 1 .. Len(list) : next[j] = list[j]
    BY <1>1, <2>1, <2>2, AppendProperties
  <2> QED
    BY <2>2, <2>3
<1>4. ASSUME path[n] # "/", n > 1, path[n - 1] # "/", Len(list) > 0
      PROVE  /\ Len(next) = Len(list)
             /\ \A j \in 1 .. Len(list) - 1 : next[j] = list[j]
             /\ Len(next[Len(list)]) = Len(list[Len(list)]) + 1
             /\ \A c \in 1 .. Len(list[Len(list)]) :
                   next[Len(list)][c] = list[Len(list)][c]
             /\ next[Len(list)][Len(list[Len(list)]) + 1] = path[n]
  <2> PICK k \in 1 .. Len(list), last \in Seq(STRING) : k = Len(list) /\ last = list[k]
    BY <1>1, <1>4
  <2>1. next = [list EXCEPT ![k] = Append(last, path[n])]
    BY <1>4 DEF Extended
  <2>2. list \in [1 .. Len(list) -> Seq(STRING)] /\ Append(last, path[n]) \in Seq(STRING)
    BY <1>1
  <2>3. /\ Len(Append(last, path[n])) = Len(last) + 1
        /\ \A c \in 1 .. Len(last) : Append(last, path[n])[c] = last[c]
        /\ Append(last, path[n])[Len(last) + 1] = path[n]
    BY <1>1, AppendProperties
  <2>4. next[k] = Append(last, path[n]) /\ \A j \in 1 .. Len(list) - 1 : next[j] = list[j]
    <3>1. DOMAIN list = 1 .. Len(list)
      BY <2>2
    <3>2. \A j \in 1 .. Len(list) - 1 : j \in 1 .. Len(list) /\ j # k
      BY <1>1
    <3> QED
      BY <2>1, <3>1, <3>2
  <2>5. Len(next) = Len(list)
    <3>1. next \in [1 .. Len(list) -> Seq(STRING)]
      BY <2>1, <2>2
    <3> QED
      BY <1>1, <3>1
  <2> QED
    BY <2>3, <2>4, <2>5
<1> QED
  BY <1>2, <1>3, <1>4

\* The lists that a path goes through.
LEMMA ListsOf ==
    ASSUME NEW path \in Seq(STRING), NEW f, ListsUpTo(path, Len(path), f)
    PROVE  /\ Len(path) \in Nat
           /\ \A n \in 0 .. Len(path) :
                 /\ f[n] \in Lists /\ Len(f[n]) \in Nat
                 /\ \A j \in 1 .. Len(f[n]) : f[n][j] \in Seq(STRING) /\ Len(f[n][j]) \in Nat
           /\ \A n \in 1 .. Len(path) : f[n] = Extended(path, n, f[n - 1])
           /\ f[0] = <<>>
<1>1. Len(path) \in Nat
  OBVIOUS
<1>2. ASSUME NEW n \in 0 .. Len(path)
      PROVE  /\ f[n] \in Lists /\ Len(f[n]) \in Nat
             /\ \A j \in 1 .. Len(f[n]) : f[n][j] \in Seq(STRING) /\ Len(f[n][j]) \in Nat
  <2>1. f[n] \in Lists
    BY DEF ListsUpTo
  <2> PICK list \in Lists : list = f[n]
    BY <2>1
  <2>2. Len(list) \in Nat /\ \A j \in 1 .. Len(list) : list[j] \in Seq(STRING)
    BY DEF Lists
  <2>3. \A j \in 1 .. Len(list) : Len(list[j]) \in Nat
    BY <2>2
  <2> QED
    BY <2>2, <2>3
<1> QED
  BY <1>1, <1>2 DEF ListsUpTo

\* The last segment, while the path is in it, has a character.
LEMMA InSegment ==
    ASSUME NEW path \in Seq(STRING), NEW f, ListsUpTo(path, Len(path), f),
           NEW n \in 1 .. Len(path), path[n] # "/"
    PROVE  Len(f[n]) > 0
<1> DEFINE Wrong == {m \in 1 .. Len(path) : path[m] # "/" /\ ~(Len(f[m]) > 0)}
<1>1. /\ Len(path) \in Nat
      /\ \A m \in 0 .. Len(path) : f[m] \in Lists /\ Len(f[m]) \in Nat
      /\ \A m \in 1 .. Len(path) : f[m] = Extended(path, m, f[m - 1])
  BY ListsOf
<1>2. Wrong = {}
  <2> SUFFICES ASSUME Wrong # {} PROVE FALSE
    OBVIOUS
  <2>1. Wrong \subseteq Nat
    BY <1>1
  <2>2. PICK m \in Wrong : \A k \in Wrong : m <= k
    BY <2>1, LeastNatural
  <2>3. m \in 1 .. Len(path) /\ m - 1 \in 0 .. Len(path) /\ path[m] # "/" /\ Len(f[m]) = 0
    BY <1>1
  <2> PICK list \in Lists, next \in Lists : list = f[m - 1] /\ next = f[m]
    BY <1>1, <2>3
  <2>4. Len(list) \in Nat /\ Len(next) = 0 /\ next = Extended(path, m, list)
    BY <1>1, <2>3
  <2>5. m > 1 /\ path[m - 1] # "/"
    BY <2>3, <2>4, ExtendedCases
  <2>6. m - 1 \in 1 .. Len(path) /\ m - 1 \notin Wrong
    BY <1>1, <2>2, <2>3, <2>5
  <2>7. Len(list) > 0
    BY <2>5, <2>6
  <2>8. Len(next) = Len(list)
    BY <2>3, <2>4, <2>5, <2>7, ExtendedCases
  <2> QED
    BY <2>4, <2>7, <2>8
<1> QED
  BY <1>1, <1>2

\* Segments only grow.
LEMMA ListsBegin ==
    ASSUME NEW path \in Seq(STRING), NEW f, ListsUpTo(path, Len(path), f),
           NEW n \in 0 .. Len(path)
    PROVE  Begins(f[n], f[Len(path)])
<1>1. /\ Len(path) \in Nat
      /\ \A m \in 0 .. Len(path) :
            /\ f[m] \in Lists /\ Len(f[m]) \in Nat
            /\ \A j \in 1 .. Len(f[m]) : f[m][j] \in Seq(STRING) /\ Len(f[m][j]) \in Nat
      /\ \A m \in 1 .. Len(path) : f[m] = Extended(path, m, f[m - 1])
  BY ListsOf
<1> DEFINE Wrong == {m \in n .. Len(path) : ~Begins(f[n], f[m])}
<1>2. Wrong = {}
  <2> SUFFICES ASSUME Wrong # {} PROVE FALSE
    OBVIOUS
  <2>1. Wrong \subseteq Nat
    BY <1>1
  <2>2. PICK m \in Wrong : \A k \in Wrong : m <= k
    BY <2>1, LeastNatural
  <2>3. m \in n .. Len(path) /\ ~Begins(f[n], f[m])
    BY <1>1
  <2>4. m # n
    BY <1>1, <2>3 DEF Begins
  <2>5. m \in 1 .. Len(path) /\ m - 1 \in n .. Len(path) /\ m - 1 \in 0 .. Len(path)
        /\ m - 1 \notin Wrong
    BY <1>1, <2>2, <2>3, <2>4
  <2>6. Begins(f[n], f[m - 1])
    BY <2>5
  <2> HIDE DEF Wrong
  <2> PICK base \in Lists, list \in Lists, next \in Lists :
          base = f[n] /\ list = f[m - 1] /\ next = f[m]
    BY <1>1, <2>5
  <2>7. /\ Len(base) \in Nat /\ Len(list) \in Nat /\ Len(next) \in Nat
        /\ \A j \in 1 .. Len(base) : Len(base[j]) \in Nat
        /\ \A j \in 1 .. Len(list) : Len(list[j]) \in Nat
        /\ next = Extended(path, m, list)
    <3>1. n \in 0 .. Len(path) /\ m - 1 \in 0 .. Len(path) /\ m \in 0 .. Len(path)
      BY <1>1, <2>5
    <3>2. next = Extended(path, m, list)
      BY <1>1, <2>5
    <3>3. ASSUME NEW i \in 0 .. Len(path)
          PROVE  Len(f[i]) \in Nat /\ \A j \in 1 .. Len(f[i]) : Len(f[i][j]) \in Nat
      BY <1>1
    <3> QED
      BY <3>1, <3>2, <3>3
  <2>8. Begins(base, next)
    <3>1. CASE path[m] = "/"
      <4>1. next = list
        BY <2>5, <2>7, <3>1 DEF Extended
      <4> QED
        BY <2>6, <4>1
    <3>2. CASE path[m] # "/" /\ ~(m > 1 /\ path[m - 1] # "/")
      <4> PICK k \in 1 .. Len(path) : k = m
        BY <2>5
      <4>0. next = Extended(path, k, list) /\ path[k] # "/" /\ ~(k > 1 /\ path[k - 1] # "/")
        BY <2>7, <3>2
      <4>1. Len(next) = Len(list) + 1 /\ \A j \in 1 .. Len(list) : next[j] = list[j]
        BY <4>0, ExtendedCases
      <4>2. Len(base) <= Len(list) /\ \A j \in 1 .. Len(base) : j \in 1 .. Len(list)
        BY <2>6, <2>7 DEF Begins
      <4>3. Len(base) <= Len(next)
        BY <2>7, <4>1, <4>2
      <4>4. \A j \in 1 .. Len(base) : next[j] = list[j]
        BY <4>1, <4>2
      <4>5. \A j \in 1 .. Len(base) :
               /\ Len(base[j]) <= Len(list[j])
               /\ \A c \in 1 .. Len(base[j]) : list[j][c] = base[j][c]
        BY <2>6 DEF Begins
      <4>6. \A j \in 1 .. Len(base) :
               /\ Len(base[j]) <= Len(next[j])
               /\ \A c \in 1 .. Len(base[j]) : next[j][c] = base[j][c]
        <5> TAKE j \in 1 .. Len(base)
        <5>1. next[j] = list[j]
          BY <4>4
        <5> QED
          BY <4>5, <5>1
      <4> QED
        BY <4>3, <4>6 DEF Begins
    <3>3. CASE path[m] # "/" /\ m > 1 /\ path[m - 1] # "/"
      <4>0. m - 1 \in 1 .. Len(path)
        BY <2>5, <3>3
      <4>1. Len(list) > 0
        BY <3>3, <4>0, InSegment
      <4>2. /\ Len(next) = Len(list)
            /\ \A j \in 1 .. Len(list) - 1 : next[j] = list[j]
            /\ Len(next[Len(list)]) = Len(list[Len(list)]) + 1
            /\ \A c \in 1 .. Len(list[Len(list)]) : next[Len(list)][c] = list[Len(list)][c]
        <5> PICK k \in 1 .. Len(path) : k = m
          BY <2>5
        <5>1. /\ next = Extended(path, k, list)
              /\ path[k] # "/" /\ k > 1 /\ path[k - 1] # "/"
          BY <2>7, <3>3
        <5> QED
          BY <4>1, <5>1, ExtendedCases
      <4>3. Len(base) <= Len(next)
        BY <2>6, <2>7, <4>2 DEF Begins
      <4>4. ASSUME NEW j \in 1 .. Len(base)
            PROVE  /\ Len(base[j]) <= Len(next[j])
                   /\ \A c \in 1 .. Len(base[j]) : next[j][c] = base[j][c]
        <5>1. /\ Len(base[j]) <= Len(list[j])
              /\ \A c \in 1 .. Len(base[j]) : list[j][c] = base[j][c]
              /\ j \in 1 .. Len(list) /\ Len(base[j]) \in Nat /\ Len(list[j]) \in Nat
          BY <2>6, <2>7 DEF Begins
        <5>2. CASE j = Len(list)
          <6>1. \A c \in 1 .. Len(base[j]) : c \in 1 .. Len(list[j])
            BY <5>1
          <6> QED
            BY <4>2, <5>1, <5>2, <6>1
        <5>3. CASE j # Len(list)
          <6>1. j \in 1 .. Len(list) - 1
            BY <2>7, <5>1, <5>3
          <6> QED
            BY <4>2, <5>1, <6>1
        <5> QED
          BY <5>2, <5>3
      <4> QED
        BY <4>3, <4>4 DEF Begins
    <3> QED
      BY <3>1, <3>2, <3>3
  <2> QED
    BY <2>3, <2>8
<1>3. Len(path) \in n .. Len(path)
  BY <1>1
<1> QED
  BY <1>2, <1>3

\* A path without empty segments, and with no slash at its end but the first.
Plain(path) ==
    /\ Len(path) > 0 /\ path[1] = "/"
    /\ \A i \in 1 .. Len(path) - 1 : ~(path[i] = "/" /\ path[i + 1] = "/")
    /\ Len(path) > 1 => path[Len(path)] # "/"

\* A path whose segments begin with those of another has its characters.
LEMMA SegmentsDetermine ==
    ASSUME NEW path \in Seq(STRING), NEW prefix \in Seq(STRING), Plain(path), Plain(prefix),
           Len(prefix) > 1, StartsWith(SegmentList(path), SegmentList(prefix))
    PROVE  Len(prefix) <= Len(path) /\ \A i \in 1 .. Len(prefix) : path[i] = prefix[i]
<1>1. PICK f : ListsUpTo(path, Len(path), f) /\ SegmentList(path) = f[Len(path)]
  BY SegmentListIs
<1>2. PICK g : ListsUpTo(prefix, Len(prefix), g) /\ SegmentList(prefix) = g[Len(prefix)]
  BY SegmentListIs
<1>3. Len(path) \in Nat /\ Len(prefix) \in Nat
  OBVIOUS
<1> PICK all \in Lists, few \in Lists : all = f[Len(path)] /\ few = g[Len(prefix)]
  BY <1>1, <1>2, <1>3, ListsOf
<1>4. /\ Len(all) \in Nat /\ Len(few) \in Nat /\ Len(few) <= Len(all)
      /\ \A j \in 1 .. Len(few) : all[j] = few[j]
      /\ \A j \in 1 .. Len(few) : few[j] \in Seq(STRING) /\ Len(few[j]) \in Nat
  <2>1. all \in Seq(Seq(STRING)) /\ few \in Seq(Seq(STRING))
    BY DEF Lists
  <2>2. Len(few) <= Len(all) /\ SubSeq(all, 1, Len(few)) = few
    BY <1>1, <1>2 DEF StartsWith
  <2>3. \A j \in 1 .. Len(few) : SubSeq(all, 1, Len(few))[j] = all[j]
    BY <2>1, <2>2, SubSeqProperties
  <2>4. \A j \in 1 .. Len(few) : few[j] \in Seq(STRING)
    BY <2>1
  <2> QED
    BY <2>1, <2>2, <2>3, <2>4
<1> DEFINE Apart == {i \in 1 .. Len(prefix) : i > Len(path) \/ path[i] # prefix[i]}
<1>5. SUFFICES ASSUME Apart # {} PROVE FALSE
  <2>1. Apart = {} => Len(prefix) \notin Apart /\ Len(prefix) \in 1 .. Len(prefix)
    BY <1>3
  <2> QED
    BY <1>3, <2>1
<1>6. PICK i \in Apart : \A k \in Apart : i <= k
  <2>1. Apart \subseteq Nat
    BY <1>3
  <2> QED
    BY <1>5, <2>1, LeastNatural
<1>7. /\ i \in 1 .. Len(prefix) /\ (i > Len(path) \/ path[i] # prefix[i])
      /\ \A k \in 1 .. i - 1 : k <= Len(path) /\ path[k] = prefix[k]
  <2>1. i \in 1 .. Len(prefix) /\ (i > Len(path) \/ path[i] # prefix[i])
    OBVIOUS
  <2>2. ASSUME NEW k \in 1 .. i - 1 PROVE k <= Len(path) /\ path[k] = prefix[k]
    <3>1. k \in 1 .. Len(prefix) /\ ~(i <= k)
      BY <1>3, <2>1
    <3>2. k \notin Apart
      BY <1>6, <3>1
    <3> QED
      BY <1>3, <3>1, <3>2
  <2> QED
    BY <2>1, <2>2
<1> HIDE DEF Apart
<1>8. i > 1 /\ i - 1 <= Len(path) /\ i - 1 \in Nat /\ i - 1 \in 0 .. Len(path)
      /\ i - 1 \in 1 .. Len(path) /\ i - 1 \in 0 .. Len(prefix) /\ i - 1 \in 1 .. Len(prefix)
  <2>1. i # 1
    BY <1>3, <1>7 DEF Plain
  <2>2. i - 1 \in 1 .. i - 1
    BY <1>3, <1>7, <2>1
  <2> QED
    BY <1>3, <1>7, <2>1, <2>2
<1>9. f[i - 1] = g[i - 1]
  <2>1. \A k \in 1 .. i - 1 : path[k] = prefix[k]
    BY <1>7
  <2>2. i - 1 <= Len(prefix)
    BY <1>3, <1>8
  <2> PICK last \in Nat : last = i - 1
    BY <1>8
  <2>3. f[last] = g[last]
    BY <1>1, <1>2, <1>8, <2>1, <2>2, ListsAgree
  <2> QED
    BY <2>3
<1> PICK list \in Lists : list = f[i - 1] /\ list = g[i - 1]
  BY <1>1, <1>8, <1>9, ListsOf
<1>10. /\ Len(list) \in Nat /\ \A j \in 1 .. Len(list) : Len(list[j]) \in Nat
       /\ path[i - 1] = prefix[i - 1]
       /\ path[i - 1] # "/" => Len(list) > 0
  <2>1. path[i - 1] # "/" => Len(list) > 0
    BY <1>1, <1>8, InSegment
  <2>2. Len(list) \in Nat /\ \A j \in 1 .. Len(list) : Len(list[j]) \in Nat
    BY <1>1, <1>8, ListsOf
  <2>3. i - 1 \in 1 .. i - 1
    BY <1>8
  <2> QED
    BY <1>7, <2>1, <2>2, <2>3
<1> PICK longer \in Lists : longer = g[i]
  <2>1. i \in 0 .. Len(prefix)
    BY <1>3, <1>7
  <2> QED
    BY <1>2, <2>1, ListsOf
<1>11. longer = Extended(prefix, i, list) /\ Begins(longer, few) /\ i \in 0 .. Len(prefix)
  <2>1. i \in 0 .. Len(prefix)
    BY <1>3, <1>7
  <2> QED
    BY <1>2, <1>7, <2>1, ListsBegin, ListsOf
<1>12. \A j \in 1 .. Len(longer) :
          /\ j \in 1 .. Len(few) /\ Len(longer[j]) <= Len(all[j])
          /\ \A c \in 1 .. Len(longer[j]) : all[j][c] = longer[j][c]
  <2>1. Len(longer) \in Nat /\ Len(longer) <= Len(few)
    BY <1>11 DEF Lists, Begins
  <2> SUFFICES ASSUME NEW j \in 1 .. Len(longer)
               PROVE  /\ j \in 1 .. Len(few) /\ Len(longer[j]) <= Len(all[j])
                      /\ \A c \in 1 .. Len(longer[j]) : all[j][c] = longer[j][c]
    OBVIOUS
  <2>2. j \in 1 .. Len(few)
    BY <1>4, <2>1
  <2>3. all[j] = few[j]
    BY <1>4, <2>2
  <2>4. Len(longer[j]) <= Len(few[j]) /\ \A c \in 1 .. Len(longer[j]) : few[j][c] = longer[j][c]
    BY <1>11 DEF Begins
  <2> QED
    BY <2>2, <2>3, <2>4
<1>13. CASE i > Len(path)
  <2>0. i - 1 = Len(path)
    BY <1>3, <1>7, <1>8, <1>13
  <2>1. list = all
    BY <2>0
  <2>2. Len(longer) <= Len(list) /\ \A j \in 1 .. Len(longer) : Len(longer[j]) <= Len(list[j])
    <3>1. Len(longer) <= Len(few)
      BY <1>11 DEF Begins
    <3>2. Len(longer) \in Nat
      BY DEF Lists
    <3> QED
      BY <1>4, <1>12, <2>1, <3>1, <3>2
  <2>3. CASE prefix[i] # "/" /\ prefix[i - 1] # "/"
    <3>1. Len(list) > 0 /\ Len(list) \in 1 .. Len(list)
      BY <1>10, <2>3
    <3>2. Len(longer) = Len(list) /\ Len(longer[Len(list)]) = Len(list[Len(list)]) + 1
      BY <1>7, <1>8, <1>11, <2>3, <3>1, ExtendedCases
    <3> QED
      BY <1>10, <2>2, <3>1, <3>2
  <2>4. CASE prefix[i] # "/" /\ prefix[i - 1] = "/"
    <3>1. Len(longer) = Len(list) + 1
      BY <1>7, <1>11, <2>4, ExtendedCases
    <3> QED
      BY <1>10, <2>2, <3>1
  <2>5. CASE prefix[i] = "/"
    <3>1. i < Len(prefix)
      BY <1>3, <1>7, <1>8, <2>5 DEF Plain
    <3>2. i + 1 \in 1 .. Len(prefix) /\ i + 1 \in 0 .. Len(prefix) /\ i \in 1 .. Len(prefix) - 1
          /\ (i + 1) - 1 = i
      BY <1>3, <1>7, <3>1
    <3>3. prefix[i + 1] # "/"
      BY <2>5, <3>2 DEF Plain
    <3>4. longer = list
      BY <1>7, <1>11, <2>5, ExtendedCases
    <3> PICK next \in Lists : next = g[i + 1]
      BY <1>2, <3>2, ListsOf
    <3>5. next = Extended(prefix, i + 1, list)
      <4> PICK n \in 1 .. Len(prefix) : n = i + 1
        BY <3>2
      <4>1. g[n] = Extended(prefix, n, g[n - 1])
        BY <1>2, ListsOf
      <4>2. n - 1 = i
        BY <3>2
      <4> QED
        BY <3>4, <4>1, <4>2
    <3>6. Len(next) = Len(list) + 1
      BY <2>5, <3>2, <3>3, <3>5, ExtendedCases
    <3>7. Len(next) <= Len(few)
      BY <1>2, <3>2, ListsBegin DEF Begins
    <3> QED
      BY <1>4, <1>10, <2>1, <3>6, <3>7
  <2> QED
    BY <2>3, <2>4, <2>5
<1>14. CASE i <= Len(path)
  <2>1. i \in 1 .. Len(path) /\ i \in 0 .. Len(path) /\ path[i] # prefix[i]
    BY <1>3, <1>7, <1>14
  <2> PICK other \in Lists : other = f[i]
    BY <1>1, <2>1, ListsOf
  <2>2. other = Extended(path, i, list) /\ Begins(other, all)
    BY <1>1, <2>1, ListsBegin, ListsOf
  <2>3. i - 1 \in 1 .. Len(prefix) - 1 /\ i - 1 \in 1 .. Len(path) - 1 /\ (i - 1) + 1 = i
    BY <1>3, <1>7, <1>8, <2>1
  <2>4. CASE prefix[i] = "/"
    <3>1. prefix[i - 1] # "/"
      BY <2>3, <2>4 DEF Plain
    <3>2. Len(list) > 0 /\ Len(list) \in 1 .. Len(list)
      BY <1>10, <3>1
    <3>3. Len(other) = Len(list) /\ Len(other[Len(list)]) = Len(list[Len(list)]) + 1
      <4>1. path[i] # "/" /\ i > 1 /\ path[i - 1] # "/" /\ Len(list) > 0
        BY <1>8, <1>10, <2>1, <2>4, <3>1, <3>2
      <4> QED
        BY <2>1, <2>2, <4>1, ExtendedCases
    <3>4. Len(all[Len(list)]) >= Len(list[Len(list)]) + 1
      <4>1. Len(other[Len(list)]) <= Len(all[Len(list)])
        BY <2>2, <3>2, <3>3 DEF Begins
      <4>2. Len(list) \in 1 .. Len(all) /\ Len(all[Len(list)]) \in Nat
        <5>1. Len(list) <= Len(all)
          BY <2>2, <3>3 DEF Begins
        <5>2. Len(list) \in 1 .. Len(all)
          BY <1>4, <3>2, <5>1
        <5> QED
          BY <1>1, <1>3, <5>2, ListsOf
      <4> QED
        BY <1>10, <3>2, <3>3, <4>1, <4>2
    <3>5. StartsWith(few, list)
      <4> PICK n \in Nat : n = i - 1
        BY <1>8
      <4>1. n + 1 <= Len(prefix) /\ prefix[n + 1] = "/"
        BY <1>3, <1>7, <2>4
      <4> QED
        BY <1>2, <4>1, ListsGrow
    <3>6. Len(list) \in 1 .. Len(few) /\ few[Len(list)] = list[Len(list)]
      <4>1. few \in Seq(Seq(STRING)) /\ list \in Seq(Seq(STRING))
        BY DEF Lists
      <4>2. Len(list) <= Len(few) /\ SubSeq(few, 1, Len(list)) = list
        BY <3>5 DEF StartsWith
      <4>3. SubSeq(few, 1, Len(list))[Len(list)] = few[Len(list)]
        BY <3>2, <4>1, <4>2, SubSeqProperties
      <4>4. Len(list) \in 1 .. Len(few)
        BY <1>4, <3>2, <4>2
      <4> QED
        BY <4>2, <4>3, <4>4
    <3>7. all[Len(list)] = list[Len(list)] /\ Len(list[Len(list)]) \in Nat
      BY <1>4, <1>10, <3>2, <3>6
    <3> QED
      BY <3>4, <3>7
  <2>5. CASE path[i] = "/"
    <3>0. prefix[i] # "/" /\ path[i - 1] # "/"
      BY <2>1, <2>3, <2>5 DEF Plain
    <3>2. Len(list) > 0 /\ Len(list) \in 1 .. Len(list)
      BY <1>10, <3>0
    <3>1. prefix[i - 1] # "/"
      BY <1>10, <3>0
    <3>3. Len(longer) = Len(list) /\ Len(longer[Len(list)]) = Len(list[Len(list)]) + 1
      BY <1>7, <1>8, <1>11, <3>0, <3>1, <3>2, ExtendedCases
    <3>4. Len(list[Len(list)]) + 1 <= Len(all[Len(list)])
      BY <1>12, <3>2, <3>3
    <3>5. StartsWith(all, list)
      <4> PICK n \in Nat : n = i - 1
        BY <1>8
      <4>1. n + 1 <= Len(path) /\ path[n + 1] = "/"
        BY <1>3, <1>7, <1>14, <2>5
      <4> QED
        BY <1>1, <4>1, ListsGrow
    <3>6. all[Len(list)] = list[Len(list)]
      <4>1. all \in Seq(Seq(STRING)) /\ list \in Seq(Seq(STRING))
        BY DEF Lists
      <4>2. Len(list) <= Len(all) /\ SubSeq(all, 1, Len(list)) = list
        BY <3>5 DEF StartsWith
      <4>3. SubSeq(all, 1, Len(list))[Len(list)] = all[Len(list)]
        BY <3>2, <4>1, <4>2, SubSeqProperties
      <4> QED
        BY <4>2, <4>3
    <3> QED
      BY <1>10, <3>2, <3>4, <3>6
  <2>6. CASE path[i] # "/" /\ prefix[i] # "/" /\ path[i - 1] # "/"
    <3>1. Len(list) > 0 /\ Len(list) \in 1 .. Len(list)
      BY <1>10, <2>6
    <3> PICK k \in 1 .. Len(list), c \in Nat : k = Len(list) /\ c = Len(list[k]) + 1
      BY <1>10, <3>1
    <3>2. Len(longer) = k /\ Len(longer[k]) = c /\ longer[k][c] = prefix[i]
      <4>1. prefix[i] # "/" /\ i > 1 /\ prefix[i - 1] # "/" /\ Len(list) > 0
        BY <1>8, <1>10, <2>6, <3>1
      <4>2. /\ Len(longer) = Len(list) /\ Len(longer[Len(list)]) = Len(list[Len(list)]) + 1
            /\ longer[Len(list)][Len(list[Len(list)]) + 1] = prefix[i]
        BY <1>7, <1>11, <4>1, ExtendedCases
      <4> QED
        BY <4>2
    <3>3. Len(other) = k /\ Len(other[k]) = c /\ other[k][c] = path[i]
      <4>1. i > 1 /\ Len(list) > 0
        BY <1>8, <3>1
      <4>2. /\ Len(other) = Len(list) /\ Len(other[Len(list)]) = Len(list[Len(list)]) + 1
            /\ other[Len(list)][Len(list[Len(list)]) + 1] = path[i]
        BY <2>1, <2>2, <2>6, <4>1, ExtendedCases
      <4> QED
        BY <4>2
    <3>4. /\ k \in 1 .. Len(longer) /\ c \in 1 .. Len(longer[k])
          /\ k \in 1 .. Len(other) /\ c \in 1 .. Len(other[k])
      <4>1. k \in 1 .. k /\ c \in 1 .. c
        BY <1>10
      <4> QED
        BY <3>2, <3>3, <4>1
    <3>5. all[k][c] = longer[k][c]
      BY <1>12, <3>4
    <3>6. all[k][c] = other[k][c]
      BY <2>2, <3>4, BeginsAt
    <3> QED
      BY <2>1, <3>2, <3>3, <3>5, <3>6
  <2>7. CASE path[i] # "/" /\ prefix[i] # "/" /\ path[i - 1] = "/"
    <3> PICK k \in Nat, c \in Nat : k = Len(list) + 1 /\ c = 1
      BY <1>10
    <3>0. prefix[i - 1] = "/" /\ prefix[i] # "/"
      BY <1>10, <2>7
    <3>1. Len(longer) = k /\ Len(longer[k]) = c /\ longer[k][c] = prefix[i]
      <4>1. /\ Len(longer) = Len(list) + 1
            /\ Len(longer[Len(list) + 1]) = 1 /\ longer[Len(list) + 1][1] = prefix[i]
        BY <1>7, <1>11, <3>0, ExtendedCases
      <4> QED
        BY <4>1
    <3>2. Len(other) = k /\ Len(other[k]) = c /\ other[k][c] = path[i]
      BY <2>1, <2>2, <2>7, ExtendedCases
    <3>3. /\ k \in 1 .. Len(longer) /\ c \in 1 .. Len(longer[k])
          /\ k \in 1 .. Len(other) /\ c \in 1 .. Len(other[k])
      <4>1. k \in 1 .. k /\ c \in 1 .. c
        BY <1>10
      <4> QED
        BY <3>1, <3>2, <4>1
    <3>4. all[k][c] = longer[k][c]
      BY <1>12, <3>3
    <3>5. all[k][c] = other[k][c]
      BY <2>2, <3>3, BeginsAt
    <3> QED
      BY <2>1, <3>1, <3>2, <3>4, <3>5
  <2> QED
    BY <2>4, <2>5, <2>6, <2>7
<1> QED
  BY <1>3, <1>7, <1>13, <1>14

\* The boundary rule of resourceUriAuthorized is the order of segments: nothing
\* beside a prefix is under it, and all that lies below it is.
LEMMA UnderExactly ==
    ASSUME NEW path \in Seq(STRING), NEW prefix \in Seq(STRING), Plain(path), Plain(prefix)
    PROVE  Under(path, prefix) <=> StartsWith(SegmentList(path), SegmentList(prefix))
<1>1. SUFFICES ASSUME StartsWith(SegmentList(path), SegmentList(prefix)) PROVE Under(path, prefix)
  BY UnderSegments
<1>2. Len(path) \in Nat /\ Len(prefix) \in Nat /\ Len(prefix) > 0
  BY DEF Plain
<1>3. CASE Len(prefix) = 1
  <2>1. prefix = <<"/">>
    BY <1>3 DEF Plain
  <2> QED
    BY <2>1 DEF Under
<1>4. CASE Len(prefix) > 1
  <2>1. Len(prefix) <= Len(path) /\ \A i \in 1 .. Len(prefix) : path[i] = prefix[i]
    BY <1>1, <1>4, SegmentsDetermine
  <2>2. CASE Len(path) = Len(prefix)
    <3>1. path = prefix
      BY <2>1, <2>2, SeqEqual
    <3> QED
      BY <3>1 DEF Under
  <2>3. CASE Len(path) > Len(prefix) /\ path[Len(prefix) + 1] = "/"
    <3> DEFINE long == Append(prefix, "/")
               S == STRING \union {"/"}
    <3>1. "/" \in S /\ STRING \subseteq S
      OBVIOUS
    <3> HIDE DEF S
    <3>2. prefix \in Seq(S) /\ path \in Seq(S)
      BY <3>1, SeqMonotonic
    <3>3. /\ long \in Seq(S) /\ Len(long) = Len(prefix) + 1 /\ long[Len(prefix) + 1] = "/"
          /\ \A i \in 1 .. Len(prefix) : long[i] = prefix[i]
      BY <3>1, <3>2, AppendProperties
    <3> HIDE DEF long
    <3>4. Len(long) <= Len(path)
      BY <1>2, <2>3, <3>3
    <3>5. /\ SubSeq(path, 1, Len(long)) \in Seq(S) /\ Len(SubSeq(path, 1, Len(long))) = Len(long)
          /\ \A i \in 1 .. Len(long) : SubSeq(path, 1, Len(long))[i] = path[i]
      BY <1>2, <3>2, <3>3, <3>4, SubSeqProperties
    <3>6. \A i \in 1 .. Len(long) : path[i] = long[i]
      <4>1. \A i \in 1 .. Len(long) : i \in 1 .. Len(prefix) \/ i = Len(prefix) + 1
        BY <1>2, <3>3
      <4> QED
        BY <2>1, <2>3, <3>3, <4>1
    <3>7. SubSeq(path, 1, Len(long)) = long
      BY <3>3, <3>5, <3>6, SeqEqual
    <3> QED
      BY <3>4, <3>7 DEF Under, StartsWith, long
  <2>4. CASE Len(path) > Len(prefix) /\ path[Len(prefix) + 1] # "/"
    <3>0. ASSUME NEW f, ListsUpTo(path, Len(path), f),
                 NEW g, ListsUpTo(prefix, Len(prefix), g)
          PROVE  f[Len(prefix)] = g[Len(prefix)]
      <4> PICK last \in Nat : last = Len(prefix)
        BY <1>2
      <4>1. last <= Len(path) /\ last <= Len(prefix) /\ \A i \in 1 .. last : path[i] = prefix[i]
        BY <2>1
      <4>2. f[last] = g[last]
        BY <3>0, <4>1, ListsAgree
      <4> QED
        BY <4>2
    <3> PICK f : ListsUpTo(path, Len(path), f) /\ SegmentList(path) = f[Len(path)]
      BY SegmentListIs
    <3> PICK g : ListsUpTo(prefix, Len(prefix), g) /\ SegmentList(prefix) = g[Len(prefix)]
      BY SegmentListIs
    <3> PICK n \in 1 .. Len(path) : n = Len(prefix) + 1
      BY <1>2, <2>4
    <3>1. /\ n - 1 = Len(prefix) /\ n - 1 \in 0 .. Len(path) /\ n - 1 \in 1 .. Len(prefix)
          /\ n > 1 /\ path[n - 1] # "/" /\ path[n] # "/" /\ n \in 0 .. Len(path)
          /\ n - 1 \in Nat
      BY <1>2, <1>4, <2>1, <2>4 DEF Plain
    <3>2. f[n - 1] = g[n - 1]
      BY <3>0, <3>1
    <3> PICK list \in Lists, next \in Lists, all \in Lists :
            list = g[n - 1] /\ list = f[n - 1] /\ next = f[n] /\ all = f[Len(path)]
      <4>1. Len(path) \in 0 .. Len(path)
        BY <1>2
      <4> QED
        BY <3>1, <3>2, <4>1, ListsOf
    <3>3. /\ Len(list) \in Nat /\ \A j \in 1 .. Len(list) : Len(list[j]) \in Nat
          /\ Len(list) > 0 /\ next = Extended(path, n, list) /\ Begins(next, all)
      <4>1. n - 1 \in 1 .. Len(path)
        BY <1>2, <3>1
      <4> QED
        BY <3>1, <4>1, ListsOf, ListsBegin, InSegment
    <3> PICK k \in 1 .. Len(list) : k = Len(list)
      BY <3>3
    <3>4. Len(next) = k /\ Len(next[k]) = Len(list[k]) + 1
      BY <3>1, <3>3, ExtendedCases
    <3>5. Len(list[k]) + 1 <= Len(all[k])
      BY <3>4 , <3>3 DEF Begins
    <3>6. all[k] = list[k]
      <4>1. Len(list) <= Len(all) /\ SubSeq(all, 1, Len(list)) = list
        BY <1>1, <3>1 DEF StartsWith
      <4>2. all \in Seq(Seq(STRING)) /\ list \in Seq(Seq(STRING))
        BY DEF Lists
      <4>3. SubSeq(all, 1, Len(list))[k] = all[k]
        BY <4>1, <4>2, SubSeqProperties
      <4> QED
        BY <4>1, <4>3
    <3> QED
      BY <3>3, <3>5, <3>6
  <2> QED
    BY <1>2, <2>1, <2>2, <2>3, <2>4
<1> QED
  BY <1>2, <1>3, <1>4

\* What is left of a path that is not ambiguous has just the slashes it needs.
LEMMA NormalizedPlain ==
    ASSUME NEW path \in Seq(STRING), ~Ambiguous(path)
    PROVE  Plain(Normalized(path))
<1>1. /\ Len(path) \in Nat /\ DOMAIN path = 1 .. Len(path)
      /\ path # <<>> /\ path[1] = "/"
      /\ \A i \in Slashes(path) : i + 1 \notin Slashes(path)
  BY DEF Ambiguous
<1>2. Len(path) > 0
  BY <1>1, EmptySeq
<1>3. \A i \in 1 .. Len(path) - 1 : ~(path[i] = "/" /\ path[i + 1] = "/")
  BY <1>1 DEF Slashes
<1>4. CASE Len(path) > 1 /\ path[Len(path)] = "/"
  <2> DEFINE short == SubSeq(path, 1, Len(path) - 1)
  <2>1. /\ Len(short) = Len(path) - 1 /\ \A i \in 1 .. Len(path) - 1 : short[i] = path[i]
    BY <1>1, <1>4, SubSeqProperties
  <2>2. Normalized(path) = short
    BY <1>4 DEF Normalized
  <2> HIDE DEF short
  <2>3. path[Len(path) - 1] # "/"
    <3>1. Len(path) - 1 \in 1 .. Len(path) - 1 /\ (Len(path) - 1) + 1 = Len(path)
      BY <1>1, <1>4
    <3> QED
      BY <1>3, <1>4, <3>1
  <2>4. 1 \in 1 .. Len(path) - 1 /\ Len(short) \in 1 .. Len(path) - 1
    BY <1>1, <1>4, <2>1
  <2>5. \A i \in 1 .. Len(short) - 1 :
           i \in 1 .. Len(path) - 1 /\ i + 1 \in 1 .. Len(path) - 1
    BY <1>1, <2>1
  <2> QED
    BY <1>1, <1>3, <2>1, <2>2, <2>3, <2>4, <2>5 DEF Plain
<1>5. CASE ~(Len(path) > 1 /\ path[Len(path)] = "/")
  BY <1>1, <1>2, <1>3, <1>5 DEF Plain, Normalized
<1> QED
  BY <1>4, <1>5

\* resourceUriAuthorized grants exactly what lies, segment by segment, under a
\* prefix: no path beside it, and every unambiguous one below it.
THEOREM PrefixRule ==
    ASSUME NEW path \in Seq(STRING), NEW prefix \in Seq(STRING),
           ~Ambiguous(path), ~Ambiguous(prefix)
    PROVE  Under(Normalized(path), Normalized(prefix))
             <=> StartsWith(SegmentList(path), SegmentList(prefix))
BY NormalizedSegments, NormalizedPlain, UnderExactly
=============================================================================
