----------------------------- MODULE AgentClient -----------------------------
(***************************************************************************)
(* One call of a client that resolves dependencies: fetchWithX424           *)
(* (src/src/client.ts), fetchWithX424AndX402 (src/src/x402.ts) or the agent *)
(* client's fetch (src/src/agent.ts), against a resource that requires a    *)
(* unique human and possibly a payment.  The call sends up to three         *)
(* requests: the first earns 424, the second carries HUMAN-PROOF, the third *)
(* carries the payment, too.  The agent gets its proof through a brokered   *)
(* handoff, the other clients through a resolver.                           *)
(*                                                                         *)
(* The resource is here only what its answers depend on; its stores are in  *)
(* module ResourceServer, the verifier's handoffs in module Verifier.       *)
(***************************************************************************)
EXTENDS Naturals

VARIABLES
    setup,     \* the client, the request and the resource, fixed
    pc,        \* where the call is
    key,       \* the request carries an Idempotency-Key
    proof,     \* the call holds a HUMAN-PROOF
    response,  \* what the last request was answered
    handoff,   \* the agent's handoff at the verifier
    aborted,   \* options.signal
    orphan,    \* why nobody cancels the handoff, if so
    result,    \* the signed result at the resource: valid, and who used it
    payment,   \* the x402 payment
    executed   \* how often the application acted

vars == <<setup, pc, key, proof, response, handoff, aborted, orphan, result,
          payment, executed>>

-----------------------------------------------------------------------------
(* Types *)

\* key, proof: what the caller's own request carries; payer: the agent has a
\* payment resolver; requireKey, paid, order: of the resource.
Setup == [client : {"x424", "x402", "agent"}, method : {"GET", "POST"},
          key : BOOLEAN, proof : BOOLEAN, payer : BOOLEAN,
          requireKey : BOOLEAN, paid : BOOLEAN, order : {"x424 x402", "x402 x424"}]

Sending == {"send1", "send2", "send3"}
Ended == {"returned", "threw"}
Waiting == {"check", "poll", "delay", "cancel"}
Steps == {"copy", "got1", "start", "present", "report", "resolve", "got2",
          "pay", "got3"} \union Sending \union Waiting \union Ended

\* 424 with a requirement that cannot be read, or that is for another request.
Challenges == {"424", "malformed", "mismatch"}
Responses == {"none", "200", "400", "401", "402", "redirect"} \union Challenges
Settled == {"completed", "failed", "expired", "cancelled"}

TypeOK ==
    /\ setup \in Setup
    /\ pc \in Steps
    /\ key \in BOOLEAN /\ proof \in BOOLEAN /\ aborted \in BOOLEAN
    /\ response \in Responses
    /\ handoff \in {"none", "pending"} \union Settled
    /\ orphan \in {"none", "start", "presenter", "cancel"}
    /\ result \in [valid : BOOLEAN, usedBy : {"nobody", "key", "request"}]
    /\ payment \in {"none", "prepared", "settled"}
    /\ executed \in Nat

Init ==
    /\ setup \in Setup
    /\ pc = "copy"
    /\ key = setup.key
    /\ proof = setup.proof
    /\ response = "none"
    /\ handoff = "none"
    /\ aborted = FALSE
    /\ orphan = "none"
    /\ result = [valid |-> setup.proof, usedBy |-> "nobody"]
    /\ payment = "none"
    /\ executed = 0

Mutation == setup.method = "POST"

-----------------------------------------------------------------------------
(* The protected resource, composed with an x402 gate *)

\* Mutant: a repeated operation is refused like any other.
AcceptsOnce(by) == proof /\ result.valid /\ result.usedBy = "nobody"

\* acceptHumanProof: a read, or a mutation without a key, uses a result once.
Accepts(by) ==
    /\ proof
    /\ result.valid
    /\ \/ result.usedBy = "nobody"
       \/ by = "key" /\ result.usedBy = "key"

\* The first gate that does not pass answers; behind both the action runs.
Serve(signed) ==
    LET by == IF Mutation /\ key THEN "key" ELSE "request"
        keyless == Mutation /\ setup.requireKey /\ ~key
        unpaid == setup.paid /\ ~signed
        settles == setup.paid /\ signed
        human == ~keyless /\ proof /\ Accepts(by)
        first == setup.order = "x402 x424"
        reached == ~(first /\ unpaid)
    IN /\ response' = IF ~reached THEN "402"
                      ELSE IF keyless THEN "400"
                      ELSE IF ~proof THEN "424"
                      ELSE IF ~human THEN "401"
                      ELSE IF unpaid THEN "402" ELSE "200"
       /\ result' = IF reached /\ human THEN [result EXCEPT !.usedBy = by]
                                        ELSE result
       /\ payment' = IF settles /\ (first \/ human) THEN "settled" ELSE payment
       /\ executed' = executed + (IF reached /\ human /\ ~unpaid THEN 1 ELSE 0)

\* A redirect, or a challenge that is not for this client.
Misbehave(answers) ==
    /\ response' \in answers
    /\ UNCHANGED <<result, payment, executed>>

-----------------------------------------------------------------------------
(* The steps of the call *)

call == <<key, proof, response, handoff, orphan, result, payment, executed>>

Throw == pc' = "threw"
Return == pc' = "returned"

\* requestCopies; the agent gives a mutation the key that it lacks.
Copy ==
    /\ pc = "copy"
    /\ \/ Throw /\ UNCHANGED key
       \/ /\ pc' = "send1"
          /\ key' = (key \/ (setup.client = "agent" /\ Mutation))
    /\ UNCHANGED <<setup, proof, response, handoff, aborted, orphan, result,
                   payment, executed>>

After(step) == CASE step = "send1" -> "got1" [] step = "send2" -> "got2"
                 [] step = "send3" -> "got3"

\* fetch: answered, or failed before or after the resource served it.
Send ==
    /\ pc \in Sending
    /\ \/ /\ Serve(pc = "send3")
          /\ pc' \in {After(pc), "threw"}
       \/ /\ Misbehave({"redirect"} \union
                       (IF pc = "send1" THEN {"malformed", "mismatch"} ELSE {}))
          /\ pc' = After(pc)
       \/ Throw /\ UNCHANGED <<response, result, payment, executed>>
    /\ UNCHANGED <<setup, key, proof, handoff, aborted, orphan>>

\* Mutant: the client pays whoever asks first.
First402Pays == pc' = "pay"

\* A 402 before any 424: fetchWithX424AndX402 goes on if the caller's request
\* carried a proof of its own.
First402 ==
    IF setup.client # "x402" THEN Return
    ELSE IF setup.proof THEN pc' = "pay" ELSE Throw

\* A challenge of a request that already carried a proof is not resolved.
Got1 ==
    /\ pc = "got1"
    /\ CASE response = "redirect" -> Throw
         [] response = "402" -> First402
         [] response = "424" /\ ~setup.proof ->
                pc' = IF setup.client = "agent" THEN "start" ELSE "resolve"
         [] response = "mismatch" /\ ~setup.proof /\ setup.client # "agent" -> Throw
         [] OTHER -> Return
    /\ UNCHANGED <<setup, aborted>> /\ UNCHANGED call

\* The verifier signed a result and the call holds it.
Obtain ==
    /\ proof' = TRUE
    /\ result' = [valid |-> TRUE, usedBy |-> "nobody"]

\* resolveHumanDependency: a provider ceremony, then POST verify.
Resolve ==
    /\ pc = "resolve"
    /\ \/ pc' = "send2" /\ Obtain
       \/ Throw /\ UNCHANGED <<proof, result>>
    /\ UNCHANGED <<setup, key, response, handoff, aborted, orphan, payment, executed>>

\* startHandoff; its answer may be lost after the verifier stored the handoff.
Start ==
    /\ pc = "start"
    /\ \/ pc' = "present" /\ handoff' = "pending" /\ UNCHANGED orphan
       \/ Throw /\ UNCHANGED <<handoff, orphan>>
       \/ Throw /\ handoff' = "pending" /\ orphan' = "start"
    /\ UNCHANGED <<setup, key, proof, response, aborted, result, payment, executed>>

\* presenter.present("human_action_required"), outside of the try block.
Present ==
    /\ pc = "present"
    /\ \/ pc' = "check" /\ UNCHANGED orphan
       \/ Throw /\ orphan' = "presenter"
    /\ UNCHANGED <<setup, key, proof, response, handoff, aborted, result, payment,
                   executed>>

\* Mutant: an abort throws past the catch block.
CheckThrows ==
    /\ pc = "check"
    /\ pc' = IF aborted THEN "threw" ELSE "poll"
    /\ UNCHANGED <<setup, aborted>> /\ UNCHANGED call

\* waitForHandoff: every throw in it is caught and cancels the handoff.
Check ==
    /\ pc = "check"
    /\ pc' = IF aborted THEN "cancel" ELSE "poll"
    /\ UNCHANGED <<setup, aborted>> /\ UNCHANGED call

\* getHandoff, and the presenter's "waiting" before the delay.
Poll ==
    /\ pc = "poll"
    /\ \/ pc' = IF handoff = "pending" THEN "delay" ELSE "report"
       \/ pc' = "cancel"
    /\ UNCHANGED <<setup, aborted>> /\ UNCHANGED call

\* Mutant: the delay does not listen to the signal, nor is it checked again.
DelayDeaf ==
    /\ pc = "delay"
    /\ pc' = "poll"
    /\ UNCHANGED <<setup, aborted>> /\ UNCHANGED call

\* The timer, or the abort event that rejects.  An abort before the delay
\* began is seen by the next check.
Delay ==
    /\ pc = "delay"
    /\ \/ pc' = "check"
       \/ aborted /\ pc' = "cancel"
    /\ UNCHANGED <<setup, aborted>> /\ UNCHANGED call

\* The presenter hears the outcome; where it throws, even a completed
\* handoff's proof is dropped.
Report ==
    /\ pc = "report"
    /\ \/ pc' = "cancel" /\ UNCHANGED <<proof, result>>
       \/ handoff = "completed" /\ pc' = "send2" /\ Obtain
       \/ handoff # "completed" /\ Throw /\ UNCHANGED <<proof, result>>
    /\ UNCHANGED <<setup, key, response, handoff, aborted, orphan, payment, executed>>

\* cancelHandoff(...).catch(() => undefined), then the error again.
Cancel ==
    /\ pc = "cancel"
    /\ Throw
    /\ \/ /\ handoff' = IF handoff = "pending" THEN "cancelled" ELSE handoff
          /\ UNCHANGED orphan
       \/ UNCHANGED handoff /\ orphan' = "cancel"
    /\ UNCHANGED <<setup, key, proof, response, aborted, result, payment, executed>>

\* Mutant: the payment flow goes on whatever the retry was answered.
Got2Pays ==
    /\ pc = "got2"
    /\ pc' = IF setup.client = "x424" THEN "returned" ELSE "pay"
    /\ UNCHANGED <<setup, aborted>> /\ UNCHANGED call

\* fetchWithX424 returns whatever the retry was answered.
Got2 ==
    /\ pc = "got2"
    /\ IF setup.client = "x424" THEN Return
       ELSE IF response = "redirect" THEN Throw
       ELSE IF response # "402" \/ (setup.client = "agent" /\ ~setup.payer) THEN Return
       ELSE pc' = "pay"
    /\ UNCHANGED <<setup, aborted>> /\ UNCHANGED call

\* resolvePaymentDependency
Pay ==
    /\ pc = "pay"
    /\ \/ pc' = "send3" /\ payment' = "prepared"
       \/ Throw /\ UNCHANGED payment
    /\ UNCHANGED <<setup, key, proof, response, handoff, aborted, orphan, result,
                   executed>>

\* payment.processResponse hears the final response and may throw.
Got3 ==
    /\ pc = "got3"
    /\ IF response = "redirect" THEN Throw ELSE pc' \in Ended
    /\ UNCHANGED <<setup, aborted>> /\ UNCHANGED call

-----------------------------------------------------------------------------
(* The human, the verifier, the user who aborts, and time *)

SettleHandoff ==
    /\ handoff = "pending"
    /\ handoff' \in Settled
    /\ UNCHANGED <<setup, pc, key, proof, response, aborted, orphan, result,
                   payment, executed>>

Abort ==
    /\ setup.client = "agent"
    /\ ~aborted
    /\ aborted' = TRUE
    /\ UNCHANGED <<setup, pc>> /\ UNCHANGED call

\* The result expires while the payment is prepared.
ExpireResult ==
    /\ result.valid
    /\ result' = [result EXCEPT !.valid = FALSE]
    /\ UNCHANGED <<setup, pc, key, proof, response, handoff, aborted, orphan,
                   payment, executed>>

ClientStep ==
    \/ Copy \/ Send \/ Got1 \/ Resolve \/ Start \/ Present \/ Check \/ Poll
    \/ Delay \/ Report \/ Cancel \/ Got2 \/ Pay \/ Got3

Next == ClientStep \/ SettleHandoff \/ Abort \/ ExpireResult

Spec == Init /\ [][Next]_vars

\* Every call that the client awaits settles; nobody promises that the human
\* acts, that the handoff ends or that the user aborts.
FairSpec == Spec /\ WF_vars(ClientStep)

-----------------------------------------------------------------------------
(* Properties *)

\* Payment order.  A client prepares a payment only for a 402 that answered a
\* request with a proof, and a payment is settled only if the human proof was
\* accepted, unless the caller brought a proof to a resource that asks for the
\* payment first: then fetchWithX424AndX402 cannot tell.
PaidAfterHumanity ==
    /\ payment # "none" => proof
    /\ payment = "settled" =>
         \/ result.usedBy # "nobody"
         \/ setup.proof /\ setup.order = "x402 x424"

\* No client sends a request again that the application may have acted on.
ExecutedOnce == executed <= 1

\* Handoff release.  The agent's call ends with an open handoff only if the
\* answer to the start was lost, the presenter threw when it was shown the
\* handoff, or the cancellation failed.
HandoffReleased ==
    pc \in Ended /\ handoff = "pending" => orphan # "none"

\* The three-request sequence.  The final retry of a mutation with a key is
\* refused for its human proof only if the result was no longer valid.
KeyedRetryAccepted ==
    /\ pc = "got3" /\ response = "401" /\ Mutation /\ key => ~result.valid

\* The inductive invariant of the four properties above.
BeforeAnswer == Steps \ ({"got1", "got2", "got3"} \union Ended)
Resolving == {"start", "present", "report", "resolve"} \union Waiting

PaysFirst == setup.paid /\ setup.order = "x402 x424"

PaymentInv ==
    /\ pc \in {"send2", "got2", "pay", "send3", "got3"} => proof
    /\ setup.proof => proof
    /\ pc \in Resolving \union {"copy", "send1", "got1", "send2", "got2", "pay"} =>
         payment = "none"
    /\ pc \notin {"copy", "send1", "got1"} \union Ended => setup.proof \/ ~PaysFirst
    /\ pc = "got1" /\ response = "424" => ~PaysFirst

ResultInv ==
    /\ pc \in BeforeAnswer => executed = 0
    /\ pc \in {"got1", "got2"} /\ response # "200" => executed = 0
    /\ pc = "copy" => result.usedBy = "nobody"
    /\ Mutation /\ key => result.usedBy # "request"

HandoffInv ==
    /\ pc \in {"copy", "send1", "got1", "start", "resolve"} =>
         handoff = "none" /\ orphan = "none"
    /\ handoff = "pending" => pc \in {"present"} \union Waiting \/ orphan # "none"
    /\ pc \in {"present", "report"} \union Waiting => orphan = "none" /\ handoff # "none"

Inv ==
    /\ TypeOK
    /\ PaymentInv
    /\ ResultInv
    /\ HandoffInv
    /\ PaidAfterHumanity
    /\ ExecutedOnce
    /\ HandoffReleased
    /\ KeyedRetryAccepted

\* Termination.  The call ends, unless its handoff stays open for ever and
\* nobody aborts it.
CallEnds == <>(pc \in Ended) \/ <>[](handoff = "pending" /\ ~aborted)

\* README.md 302-306: for endpoints that also use x402, the human retry may
\* receive 402 and a final retry carries both proofs; idempotency is asked of
\* mutations only.  So the final retry of a paid read is not refused (401)
\* while its result is valid.
FinalRetryAccepted ==
    /\ pc = "got3" /\ ~Mutation
    /\ ~setup.proof
    /\ setup.order = "x424 x402"
    /\ result.valid
    => response # "401"
=============================================================================
