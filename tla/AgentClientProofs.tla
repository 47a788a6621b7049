-------------------------- MODULE AgentClientProofs --------------------------
(***************************************************************************)
(* Proofs about AgentClient for calls of any length: the four safety        *)
(* properties follow from the inductive invariant Inv, which adds to them   *)
(* what a call knows of its payment, of the application's answer and of its *)
(* handoff at each of its steps.                                            *)
(***************************************************************************)
EXTENDS AgentClient, TLAPS

Results == [valid : BOOLEAN, usedBy : {"nobody", "key", "request"}]

\* What an answer of the resource tells (Serve): the application acted exactly
\* where it answered 200, and nothing was paid that it was not asked for.
LEMMA ServeFacts ==
    ASSUME NEW signed \in BOOLEAN, key \in BOOLEAN, proof \in BOOLEAN, executed \in Nat,
           result \in Results, setup \in Setup,
           Serve(signed)
    PROVE  /\ response' \in {"200", "400", "401", "402", "424"}
           /\ result' \in Results /\ result'.valid = result.valid
           /\ payment' \in {payment, "settled"}
           /\ executed' \in Nat
           /\ executed' = executed \/ (executed' = executed + 1 /\ response' = "200")
           /\ response' = "424" /\ ~signed => ~(setup.paid /\ setup.order = "x402 x424")
           /\ ~signed => payment' = payment
           /\ payment' # payment => \/ setup.paid /\ setup.order = "x402 x424"
                                    \/ result'.usedBy # "nobody"
           /\ Mutation /\ key => result'.usedBy \in {result.usedBy, "key"}
           /\ result.usedBy # "nobody" => result'.usedBy # "nobody"
           /\ response' = "401" /\ Mutation /\ key /\ result.usedBy # "request"
                => ~result.valid
<1> DEFINE by == IF Mutation /\ key THEN "key" ELSE "request"
           keyless == Mutation /\ setup.requireKey /\ ~key
           human == ~keyless /\ proof /\ Accepts(by)
           first == setup.order = "x402 x424"
           unpaid == setup.paid /\ ~signed
           reached == ~(first /\ unpaid)
<1>0. setup.paid \in BOOLEAN /\ setup.requireKey \in BOOLEAN
  BY DEF Setup
<1>1. /\ response' = IF ~reached THEN "402"
                     ELSE IF keyless THEN "400"
                     ELSE IF ~proof THEN "424"
                     ELSE IF ~human THEN "401"
                     ELSE IF unpaid THEN "402" ELSE "200"
      /\ result' = IF reached /\ human THEN [result EXCEPT !.usedBy = by] ELSE result
      /\ payment' = IF setup.paid /\ signed /\ (first \/ human) THEN "settled" ELSE payment
      /\ executed' = executed + (IF reached /\ human /\ ~unpaid THEN 1 ELSE 0)
  BY DEF Serve
<1>2. by \in {"key", "request"} /\ (Mutation /\ key => by = "key")
  OBVIOUS
<1>3. result' \in Results /\ result'.valid = result.valid
  BY <1>1, <1>2 DEF Results
<1>4. result'.usedBy = IF reached /\ human THEN by ELSE result.usedBy
  BY <1>1 DEF Results
<1>5. human => ~keyless /\ proof
  OBVIOUS
<1>6. Mutation /\ key /\ result.usedBy # "request" /\ result.valid /\ proof => human
  BY <1>2 DEF Accepts, Results
<1> HIDE DEF by, keyless, human, first, unpaid, reached
<1>7. /\ executed' \in Nat
      /\ \/ executed' = executed
         \/ executed' = executed + 1 /\ (reached /\ human /\ ~unpaid)
  BY <1>1
<1>8. reached /\ human /\ ~unpaid => response' = "200"
  BY <1>1, <1>5
<1>9. response' = "424" /\ ~signed => ~(setup.paid /\ setup.order = "x402 x424")
  BY <1>1 DEF reached, first, unpaid
<1>10. payment' # payment => (first /\ setup.paid) \/ (human /\ reached)
  BY <1>1 DEF reached, first, unpaid
<1>11. response' = "401" => proof /\ ~human
  BY <1>1
<1>12. /\ response' \in {"200", "400", "401", "402", "424"}
       /\ payment' \in {payment, "settled"}
       /\ ~signed => payment' = payment
  BY <1>1
<1> QED
  BY <1>2, <1>3, <1>4, <1>6, <1>7, <1>8, <1>9, <1>10, <1>11, <1>12 DEF first

\* Every step of the call, of the verifier and of the user keeps Inv: each
\* action, and each conjunct under it.
LEMMA InvStep == ASSUME Inv, [Next]_vars PROVE Inv'
<1>i1. TypeOK
  BY DEF Inv
<1>i2. PaymentInv
  BY DEF Inv
<1>i3. ResultInv
  BY DEF Inv
<1>i4. HandoffInv
  BY DEF Inv
<1>i5. PaidAfterHumanity
  BY DEF Inv
<1>i6. ExecutedOnce
  BY DEF Inv
<1>i7. HandoffReleased
  BY DEF Inv
<1>i8. KeyedRetryAccepted
  BY DEF Inv
<1>r. result \in Results
  BY <1>i1 DEF TypeOK, Results
<1>1. CASE Copy
  <2>1. TypeOK'
    <3>1. key' \in BOOLEAN
      BY <1>1, <1>i1 DEF Copy, Throw, TypeOK
    <3>2. pc' \in Steps
      BY <1>1 DEF Copy, Throw, Steps, Sending, Ended
    <3> QED
      BY <1>1, <1>i1, <3>1, <3>2 DEF Copy, TypeOK
  <2>2. PaymentInv'
    BY <1>1, <1>i1, <1>i2 DEF Copy, Throw, Return, call, PaymentInv, PaysFirst,
       Resolving, Ended, Waiting
  <2>3. ResultInv'
    BY <1>1, <1>i1, <1>i3 DEF Copy, Throw, Return, call, ResultInv, BeforeAnswer,
       Steps, Sending, Waiting, Ended, Mutation, TypeOK
  <2>4. HandoffInv'
    BY <1>1, <1>i1, <1>i4 DEF Copy, Throw, Return, call, HandoffInv, Waiting, Settled,
       Ended
  <2>5. PaidAfterHumanity'
    BY <1>1, <1>i2, <1>i5 DEF Copy, Throw, Return, call, PaidAfterHumanity,
       PaymentInv, Resolving, Ended, Waiting
  <2>6. ExecutedOnce'
    BY <1>1, <1>i3, <1>i6 DEF Copy, Throw, Return, call, ExecutedOnce
  <2>7. HandoffReleased'
    BY <1>1, <1>i4, <1>i7 DEF Copy, Throw, Return, call, HandoffReleased, HandoffInv,
       Ended, Waiting
  <2>8. KeyedRetryAccepted'
    BY <1>1, <1>i1, <1>i3, <1>i8 DEF Copy, Throw, Return, call, KeyedRetryAccepted,
       ResultInv, TypeOK, Mutation
  <2> QED
    BY <2>1, <2>2, <2>3, <2>4, <2>5, <2>6, <2>7, <2>8 DEF Inv
<1>2. CASE Send
  <2> DEFINE signed == pc = "send3"
  <2>0. /\ key \in BOOLEAN /\ proof \in BOOLEAN /\ executed \in Nat
        /\ result \in Results /\ setup \in Setup
    BY <1>i1 DEF TypeOK, Results
  <2>1. ASSUME pc \in Sending, Serve(signed), pc' \in {After(pc), "threw"},
               UNCHANGED <<setup, key, proof, handoff, aborted, orphan>>
        PROVE  Inv'
    <3>0. /\ pc \in Sending /\ pc' \in {After(pc), "threw"}
          /\ UNCHANGED <<setup, key, proof, handoff, aborted, orphan>>
      BY <2>1
    <3>1. /\ response' \in {"200", "400", "401", "402", "424"}
          /\ result' \in Results /\ result'.valid = result.valid
          /\ payment' \in {payment, "settled"}
          /\ executed' \in Nat
          /\ executed' = executed \/ (executed' = executed + 1 /\ response' = "200")
          /\ response' = "424" /\ ~signed => ~(setup.paid /\ setup.order = "x402 x424")
          /\ ~signed => payment' = payment
          /\ payment' # payment => \/ setup.paid /\ setup.order = "x402 x424"
                                   \/ result'.usedBy # "nobody"
          /\ Mutation /\ key => result'.usedBy \in {result.usedBy, "key"}
          /\ result.usedBy # "nobody" => result'.usedBy # "nobody"
          /\ response' = "401" /\ Mutation /\ key /\ result.usedBy # "request"
               => ~result.valid
      <4> signed \in BOOLEAN
        OBVIOUS
      <4> HIDE DEF signed
      <4> QED
        BY <2>0, <2>1, ServeFacts
    <3>2. /\ pc' \in {"got1", "got2", "got3", "threw"}
          /\ pc = "send1" /\ pc' # "threw" => pc' = "got1"
          /\ pc' = "got1" => pc = "send1"
          /\ pc' = "got2" => pc = "send2"
          /\ pc' = "got3" => pc = "send3"
      BY <3>0 DEF Sending, After
    <3>3. TypeOK'
      <4>1. response' \in Responses
        BY <3>1 DEF Responses, Challenges
      <4>2. pc' \in Steps
        BY <3>2 DEF Steps, Ended
      <4>3. payment' \in {"none", "prepared", "settled"}
        BY <1>i1, <3>1 DEF TypeOK
      <4> QED
        BY <3>0, <1>i1, <3>1, <4>1, <4>2, <4>3 DEF TypeOK, Results
    <3>4. PaymentInv'
      BY <3>0, <1>i2, <3>1, <3>2 DEF PaymentInv, PaysFirst, Resolving, Ended, Waiting,
         Sending
    <3>5. executed = 0
      BY <3>0, <1>i3 DEF ResultInv, BeforeAnswer, Steps, Sending, Ended
    <3>6. ResultInv'
      BY <3>0, <1>i3, <3>1, <3>2, <3>5 DEF ResultInv, BeforeAnswer, Ended, Mutation
    <3>7. HandoffInv'
      BY <3>0, <1>i4, <3>2 DEF HandoffInv, Waiting, Sending
    <3>8. PaidAfterHumanity'
      BY <3>0, <1>i2, <1>i5, <3>1, <3>2 DEF PaidAfterHumanity, PaymentInv, PaysFirst,
         Sending, Ended
    <3>9. ExecutedOnce'
      <4>0. executed' = executed \/ executed' = executed + 1
        BY <3>1
      <4>1. executed' \in {0, 1}
        BY <3>5, <4>0
      <4> QED
        BY <4>1 DEF ExecutedOnce
    <3>10. HandoffReleased'
      BY <3>0, <1>i4, <3>2 DEF HandoffInv, HandoffReleased, Waiting, Sending
    <3>11. KeyedRetryAccepted'
      BY <3>0, <1>i3, <3>1 DEF KeyedRetryAccepted, ResultInv, Mutation
    <3> QED
      BY <3>3, <3>4, <3>6, <3>7, <3>8, <3>9, <3>10, <3>11 DEF Inv
  <2>2. ASSUME pc \in Sending, pc' = After(pc), response' \in Responses,
               response' # "424", response' # "200", response' # "401",
               UNCHANGED <<setup, key, proof, handoff, aborted, orphan, result,
                           payment, executed>>
        PROVE  Inv'
    <3> USE <2>2
    <3>2. \/ pc = "send1" /\ pc' = "got1"
          \/ pc = "send2" /\ pc' = "got2"
          \/ pc = "send3" /\ pc' = "got3"
      BY DEF Sending, After
    <3>3. TypeOK'
      BY <1>i1, <3>2 DEF TypeOK, Steps
    <3>4. PaymentInv'
      BY <1>i2, <3>2 DEF PaymentInv, PaysFirst, Resolving, Ended, Waiting
    <3>5. executed = 0
      BY <1>i3 DEF ResultInv, BeforeAnswer, Steps, Sending, Ended
    <3>6. ResultInv'
      BY <1>i3, <3>2, <3>5 DEF ResultInv, BeforeAnswer, Ended, Mutation
    <3>7. HandoffInv' /\ HandoffReleased'
      BY <1>i4, <3>2 DEF HandoffInv, HandoffReleased, Waiting, Ended
    <3>8. PaidAfterHumanity' /\ ExecutedOnce'
      BY <1>i5, <1>i6 DEF PaidAfterHumanity, ExecutedOnce
    <3>9. KeyedRetryAccepted'
      BY DEF KeyedRetryAccepted
    <3> QED
      BY <3>3, <3>4, <3>6, <3>7, <3>8, <3>9 DEF Inv
  <2>3. ASSUME pc \in Sending, pc' = "threw",
               UNCHANGED <<setup, key, proof, handoff, aborted, orphan, response,
                           result, payment, executed>>
        PROVE  Inv'
    <3> USE <2>3
    <3>3. TypeOK'
      BY <1>i1 DEF TypeOK, Steps, Ended
    <3>4. PaymentInv'
      BY <1>i2 DEF PaymentInv, PaysFirst, Resolving, Ended, Waiting
    <3>6. ResultInv'
      BY <1>i3 DEF ResultInv, BeforeAnswer, Ended, Mutation
    <3>7. HandoffInv' /\ HandoffReleased'
      BY <1>i4 DEF HandoffInv, HandoffReleased, Waiting, Ended, Sending
    <3>8. PaidAfterHumanity' /\ ExecutedOnce' /\ KeyedRetryAccepted'
      BY <1>i5, <1>i6 DEF PaidAfterHumanity, ExecutedOnce, KeyedRetryAccepted
    <3> QED
      BY <3>3, <3>4, <3>6, <3>7, <3>8 DEF Inv
  <2> QED
    BY <1>2, <2>1, <2>2, <2>3 DEF Send, Misbehave, Throw, Responses, Challenges
<1>3. CASE Got1
  <2>1. TypeOK'
    BY <1>3, <1>i1 DEF Got1, First402, Throw, Return, call, TypeOK, Steps, Sending,
       Ended, Waiting, Challenges, Responses, Settled
  <2>2. PaymentInv'
    BY <1>3, <1>i1, <1>i2 DEF Got1, First402, Throw, Return, call, PaymentInv,
       PaysFirst, Resolving, Ended, Waiting
  <2>3. ResultInv'
    BY <1>3, <1>i1, <1>i3 DEF Got1, First402, Throw, Return, call, ResultInv,
       BeforeAnswer, Steps, Sending, Waiting, Ended, Mutation, TypeOK
  <2>4. HandoffInv'
    BY <1>3, <1>i1, <1>i4 DEF Got1, First402, Throw, Return, call, HandoffInv,
       Waiting, Settled, Ended
  <2>5. PaidAfterHumanity'
    BY <1>3, <1>i2, <1>i5 DEF Got1, First402, Throw, Return, call, PaidAfterHumanity,
       PaymentInv, Resolving, Ended, Waiting
  <2>6. ExecutedOnce'
    BY <1>3, <1>i3, <1>i6 DEF Got1, First402, Throw, Return, call, ExecutedOnce
  <2>7. HandoffReleased'
    BY <1>3, <1>i4, <1>i7 DEF Got1, First402, Throw, Return, call, HandoffReleased,
       HandoffInv, Ended, Waiting
  <2>8. KeyedRetryAccepted'
    BY <1>3, <1>i1, <1>i3, <1>i8 DEF Got1, First402, Throw, Return, call,
       KeyedRetryAccepted, ResultInv, TypeOK, Mutation
  <2> QED
    BY <2>1, <2>2, <2>3, <2>4, <2>5, <2>6, <2>7, <2>8 DEF Inv
<1>4. CASE Resolve
  <2>1. TypeOK'
    <3>0. proof' \in BOOLEAN
      BY <1>4, <1>i1 DEF Resolve, Obtain, TypeOK
    <3>1. result' \in Results
      <4>1. [valid |-> TRUE, usedBy |-> "nobody"] \in Results
        BY DEF Results
      <4> QED
        BY <1>4, <1>r, <4>1 DEF Resolve, Obtain
    <3>2. pc' \in Steps
      BY <1>4 DEF Resolve, Throw, Steps, Sending, Ended
    <3> QED
      BY <1>4, <1>i1, <3>0, <3>1, <3>2 DEF Resolve, TypeOK, Results
  <2>2. PaymentInv'
    BY <1>4, <1>i1, <1>i2 DEF Resolve, Obtain, Throw, Return, call, PaymentInv,
       PaysFirst, Resolving, Ended, Waiting
  <2>3. ResultInv'
    BY <1>4, <1>i1, <1>i3 DEF Resolve, Obtain, Throw, Return, call, ResultInv,
       BeforeAnswer, Steps, Sending, Waiting, Ended, Mutation, TypeOK
  <2>4. HandoffInv'
    BY <1>4, <1>i1, <1>i4 DEF Resolve, Obtain, Throw, Return, call, HandoffInv,
       Waiting, Settled, Ended
  <2>5. PaidAfterHumanity'
    BY <1>4, <1>i2, <1>i5 DEF Resolve, Obtain, Throw, Return, call, PaidAfterHumanity,
       PaymentInv, Resolving, Ended, Waiting
  <2>6. ExecutedOnce'
    BY <1>4, <1>i3, <1>i6 DEF Resolve, Obtain, Throw, Return, call, ExecutedOnce
  <2>7. HandoffReleased'
    BY <1>4, <1>i4, <1>i7 DEF Resolve, Obtain, Throw, Return, call, HandoffReleased,
       HandoffInv, Ended, Waiting
  <2>8. KeyedRetryAccepted'
    BY <1>4, <1>i1, <1>i3, <1>i8 DEF Resolve, Obtain, Throw, Return, call,
       KeyedRetryAccepted, ResultInv, TypeOK, Mutation
  <2> QED
    BY <2>1, <2>2, <2>3, <2>4, <2>5, <2>6, <2>7, <2>8 DEF Inv
<1>5. CASE Start
  <2>1. TypeOK'
    BY <1>5, <1>i1 DEF Start, Throw, Return, call, TypeOK, Steps, Sending, Ended,
       Waiting, Challenges, Responses, Settled
  <2>2. PaymentInv'
    BY <1>5, <1>i1, <1>i2 DEF Start, Throw, Return, call, PaymentInv, PaysFirst,
       Resolving, Ended, Waiting
  <2>3. ResultInv'
    BY <1>5, <1>i1, <1>i3 DEF Start, Throw, Return, call, ResultInv, BeforeAnswer,
       Steps, Sending, Waiting, Ended, Mutation, TypeOK
  <2>4. HandoffInv'
    BY <1>5, <1>i1, <1>i4 DEF Start, Throw, Return, call, HandoffInv, Waiting,
       Settled, Ended
  <2>5. PaidAfterHumanity'
    BY <1>5, <1>i2, <1>i5 DEF Start, Throw, Return, call, PaidAfterHumanity,
       PaymentInv, Resolving, Ended, Waiting
  <2>6. ExecutedOnce'
    BY <1>5, <1>i3, <1>i6 DEF Start, Throw, Return, call, ExecutedOnce
  <2>7. HandoffReleased'
    BY <1>5, <1>i4, <1>i7 DEF Start, Throw, Return, call, HandoffReleased, HandoffInv,
       Ended, Waiting
  <2>8. KeyedRetryAccepted'
    BY <1>5, <1>i1, <1>i3, <1>i8 DEF Start, Throw, Return, call, KeyedRetryAccepted,
       ResultInv, TypeOK, Mutation
  <2> QED
    BY <2>1, <2>2, <2>3, <2>4, <2>5, <2>6, <2>7, <2>8 DEF Inv
<1>6. CASE Present
  <2>1. TypeOK'
    BY <1>6, <1>i1 DEF Present, Throw, Return, call, TypeOK, Steps, Sending, Ended,
       Waiting, Challenges, Responses, Settled
  <2>2. PaymentInv'
    BY <1>6, <1>i1, <1>i2 DEF Present, Throw, Return, call, PaymentInv, PaysFirst,
       Resolving, Ended, Waiting
  <2>3. ResultInv'
    BY <1>6, <1>i1, <1>i3 DEF Present, Throw, Return, call, ResultInv, BeforeAnswer,
       Steps, Sending, Waiting, Ended, Mutation, TypeOK
  <2>4. HandoffInv'
    BY <1>6, <1>i1, <1>i4 DEF Present, Throw, Return, call, HandoffInv, Waiting,
       Settled, Ended
  <2>5. PaidAfterHumanity'
    BY <1>6, <1>i2, <1>i5 DEF Present, Throw, Return, call, PaidAfterHumanity,
       PaymentInv, Resolving, Ended, Waiting
  <2>6. ExecutedOnce'
    BY <1>6, <1>i3, <1>i6 DEF Present, Throw, Return, call, ExecutedOnce
  <2>7. HandoffReleased'
    BY <1>6, <1>i4, <1>i7 DEF Present, Throw, Return, call, HandoffReleased,
       HandoffInv, Ended, Waiting
  <2>8. KeyedRetryAccepted'
    BY <1>6, <1>i1, <1>i3, <1>i8 DEF Present, Throw, Return, call, KeyedRetryAccepted,
       ResultInv, TypeOK, Mutation
  <2> QED
    BY <2>1, <2>2, <2>3, <2>4, <2>5, <2>6, <2>7, <2>8 DEF Inv
<1>7. CASE Check
  <2>1. TypeOK'
    BY <1>7, <1>i1 DEF Check, Throw, Return, call, TypeOK, Steps, Sending, Ended,
       Waiting, Challenges, Responses, Settled
  <2>2. PaymentInv'
    BY <1>7, <1>i1, <1>i2 DEF Check, Throw, Return, call, PaymentInv, PaysFirst,
       Resolving, Ended, Waiting
  <2>3. ResultInv'
    BY <1>7, <1>i1, <1>i3 DEF Check, Throw, Return, call, ResultInv, BeforeAnswer,
       Steps, Sending, Waiting, Ended, Mutation, TypeOK
  <2>4. HandoffInv'
    BY <1>7, <1>i1, <1>i4 DEF Check, Throw, Return, call, HandoffInv, Waiting,
       Settled, Ended
  <2>5. PaidAfterHumanity'
    BY <1>7, <1>i2, <1>i5 DEF Check, Throw, Return, call, PaidAfterHumanity,
       PaymentInv, Resolving, Ended, Waiting
  <2>6. ExecutedOnce'
    BY <1>7, <1>i3, <1>i6 DEF Check, Throw, Return, call, ExecutedOnce
  <2>7. HandoffReleased'
    BY <1>7, <1>i4, <1>i7 DEF Check, Throw, Return, call, HandoffReleased, HandoffInv,
       Ended, Waiting
  <2>8. KeyedRetryAccepted'
    BY <1>7, <1>i1, <1>i3, <1>i8 DEF Check, Throw, Return, call, KeyedRetryAccepted,
       ResultInv, TypeOK, Mutation
  <2> QED
    BY <2>1, <2>2, <2>3, <2>4, <2>5, <2>6, <2>7, <2>8 DEF Inv
<1>8. CASE Poll
  <2>1. TypeOK'
    BY <1>8, <1>i1 DEF Poll, Throw, Return, call, TypeOK, Steps, Sending, Ended,
       Waiting, Challenges, Responses, Settled
  <2>2. PaymentInv'
    BY <1>8, <1>i1, <1>i2 DEF Poll, Throw, Return, call, PaymentInv, PaysFirst,
       Resolving, Ended, Waiting
  <2>3. ResultInv'
    BY <1>8, <1>i1, <1>i3 DEF Poll, Throw, Return, call, ResultInv, BeforeAnswer,
       Steps, Sending, Waiting, Ended, Mutation, TypeOK
  <2>4. HandoffInv'
    BY <1>8, <1>i1, <1>i4 DEF Poll, Throw, Return, call, HandoffInv, Waiting, Settled,
       Ended
  <2>5. PaidAfterHumanity'
    BY <1>8, <1>i2, <1>i5 DEF Poll, Throw, Return, call, PaidAfterHumanity,
       PaymentInv, Resolving, Ended, Waiting
  <2>6. ExecutedOnce'
    BY <1>8, <1>i3, <1>i6 DEF Poll, Throw, Return, call, ExecutedOnce
  <2>7. HandoffReleased'
    BY <1>8, <1>i4, <1>i7 DEF Poll, Throw, Return, call, HandoffReleased, HandoffInv,
       Ended, Waiting
  <2>8. KeyedRetryAccepted'
    BY <1>8, <1>i1, <1>i3, <1>i8 DEF Poll, Throw, Return, call, KeyedRetryAccepted,
       ResultInv, TypeOK, Mutation
  <2> QED
    BY <2>1, <2>2, <2>3, <2>4, <2>5, <2>6, <2>7, <2>8 DEF Inv
<1>9. CASE Delay
  <2>1. TypeOK'
    BY <1>9, <1>i1 DEF Delay, Throw, Return, call, TypeOK, Steps, Sending, Ended,
       Waiting, Challenges, Responses, Settled
  <2>2. PaymentInv'
    BY <1>9, <1>i1, <1>i2 DEF Delay, Throw, Return, call, PaymentInv, PaysFirst,
       Resolving, Ended, Waiting
  <2>3. ResultInv'
    BY <1>9, <1>i1, <1>i3 DEF Delay, Throw, Return, call, ResultInv, BeforeAnswer,
       Steps, Sending, Waiting, Ended, Mutation, TypeOK
  <2>4. HandoffInv'
    BY <1>9, <1>i1, <1>i4 DEF Delay, Throw, Return, call, HandoffInv, Waiting,
       Settled, Ended
  <2>5. PaidAfterHumanity'
    BY <1>9, <1>i2, <1>i5 DEF Delay, Throw, Return, call, PaidAfterHumanity,
       PaymentInv, Resolving, Ended, Waiting
  <2>6. ExecutedOnce'
    BY <1>9, <1>i3, <1>i6 DEF Delay, Throw, Return, call, ExecutedOnce
  <2>7. HandoffReleased'
    BY <1>9, <1>i4, <1>i7 DEF Delay, Throw, Return, call, HandoffReleased, HandoffInv,
       Ended, Waiting
  <2>8. KeyedRetryAccepted'
    BY <1>9, <1>i1, <1>i3, <1>i8 DEF Delay, Throw, Return, call, KeyedRetryAccepted,
       ResultInv, TypeOK, Mutation
  <2> QED
    BY <2>1, <2>2, <2>3, <2>4, <2>5, <2>6, <2>7, <2>8 DEF Inv
<1>10. CASE Report
  <2>1. TypeOK'
    <3>0. proof' \in BOOLEAN
      BY <1>10, <1>i1 DEF Report, Obtain, TypeOK
    <3>1. result' \in Results
      <4>1. [valid |-> TRUE, usedBy |-> "nobody"] \in Results
        BY DEF Results
      <4> QED
        BY <1>10, <1>r, <4>1 DEF Report, Obtain
    <3>2. pc' \in Steps
      BY <1>10 DEF Report, Throw, Steps, Sending, Waiting, Ended
    <3> QED
      BY <1>10, <1>i1, <3>0, <3>1, <3>2 DEF Report, TypeOK, Results
  <2>2. PaymentInv'
    BY <1>10, <1>i1, <1>i2 DEF Report, Obtain, Throw, Return, call, PaymentInv,
       PaysFirst, Resolving, Ended, Waiting
  <2>3. ResultInv'
    BY <1>10, <1>i1, <1>i3 DEF Report, Obtain, Throw, Return, call, ResultInv,
       BeforeAnswer, Steps, Sending, Waiting, Ended, Mutation, TypeOK
  <2>4. HandoffInv'
    BY <1>10, <1>i1, <1>i4 DEF Report, Obtain, Throw, Return, call, HandoffInv,
       Waiting, Settled, Ended
  <2>5. PaidAfterHumanity'
    BY <1>10, <1>i2, <1>i5 DEF Report, Obtain, Throw, Return, call, PaidAfterHumanity,
       PaymentInv, Resolving, Ended, Waiting
  <2>6. ExecutedOnce'
    BY <1>10, <1>i3, <1>i6 DEF Report, Obtain, Throw, Return, call, ExecutedOnce
  <2>7. HandoffReleased'
    BY <1>10, <1>i4, <1>i7 DEF Report, Obtain, Throw, Return, call, HandoffReleased,
       HandoffInv, Ended, Waiting
  <2>8. KeyedRetryAccepted'
    BY <1>10, <1>i1, <1>i3, <1>i8 DEF Report, Obtain, Throw, Return, call,
       KeyedRetryAccepted, ResultInv, TypeOK, Mutation
  <2> QED
    BY <2>1, <2>2, <2>3, <2>4, <2>5, <2>6, <2>7, <2>8 DEF Inv
<1>11. CASE Cancel
  <2>1. TypeOK'
    BY <1>11, <1>i1 DEF Cancel, Throw, Return, call, TypeOK, Steps, Sending, Ended,
       Waiting, Challenges, Responses, Settled
  <2>2. PaymentInv'
    BY <1>11, <1>i1, <1>i2 DEF Cancel, Throw, Return, call, PaymentInv, PaysFirst,
       Resolving, Ended, Waiting
  <2>3. ResultInv'
    BY <1>11, <1>i1, <1>i3 DEF Cancel, Throw, Return, call, ResultInv, BeforeAnswer,
       Steps, Sending, Waiting, Ended, Mutation, TypeOK
  <2>4. HandoffInv'
    BY <1>11, <1>i1, <1>i4 DEF Cancel, Throw, Return, call, HandoffInv, Waiting,
       Settled, Ended
  <2>5. PaidAfterHumanity'
    BY <1>11, <1>i2, <1>i5 DEF Cancel, Throw, Return, call, PaidAfterHumanity,
       PaymentInv, Resolving, Ended, Waiting
  <2>6. ExecutedOnce'
    BY <1>11, <1>i3, <1>i6 DEF Cancel, Throw, Return, call, ExecutedOnce
  <2>7. HandoffReleased'
    BY <1>11, <1>i4, <1>i7 DEF Cancel, Throw, Return, call, HandoffReleased,
       HandoffInv, Ended, Waiting
  <2>8. KeyedRetryAccepted'
    BY <1>11, <1>i1, <1>i3, <1>i8 DEF Cancel, Throw, Return, call, KeyedRetryAccepted,
       ResultInv, TypeOK, Mutation
  <2> QED
    BY <2>1, <2>2, <2>3, <2>4, <2>5, <2>6, <2>7, <2>8 DEF Inv
<1>12. CASE Got2
  <2>1. TypeOK'
    BY <1>12, <1>i1 DEF Got2, Throw, Return, call, TypeOK, Steps, Sending, Ended,
       Waiting, Challenges, Responses, Settled
  <2>2. PaymentInv'
    BY <1>12, <1>i1, <1>i2 DEF Got2, Throw, Return, call, PaymentInv, PaysFirst,
       Resolving, Ended, Waiting
  <2>3. ResultInv'
    BY <1>12, <1>i1, <1>i3 DEF Got2, Throw, Return, call, ResultInv, BeforeAnswer,
       Steps, Sending, Waiting, Ended, Mutation, TypeOK
  <2>4. HandoffInv'
    BY <1>12, <1>i1, <1>i4 DEF Got2, Throw, Return, call, HandoffInv, Waiting,
       Settled, Ended
  <2>5. PaidAfterHumanity'
    BY <1>12, <1>i2, <1>i5 DEF Got2, Throw, Return, call, PaidAfterHumanity,
       PaymentInv, Resolving, Ended, Waiting
  <2>6. ExecutedOnce'
    BY <1>12, <1>i3, <1>i6 DEF Got2, Throw, Return, call, ExecutedOnce
  <2>7. HandoffReleased'
    BY <1>12, <1>i4, <1>i7 DEF Got2, Throw, Return, call, HandoffReleased, HandoffInv,
       Ended, Waiting
  <2>8. KeyedRetryAccepted'
    BY <1>12, <1>i1, <1>i3, <1>i8 DEF Got2, Throw, Return, call, KeyedRetryAccepted,
       ResultInv, TypeOK, Mutation
  <2> QED
    BY <2>1, <2>2, <2>3, <2>4, <2>5, <2>6, <2>7, <2>8 DEF Inv
<1>13. CASE Pay
  <2>1. TypeOK'
    BY <1>13, <1>i1 DEF Pay, Throw, Return, call, TypeOK, Steps, Sending, Ended,
       Waiting, Challenges, Responses, Settled
  <2>2. PaymentInv'
    BY <1>13, <1>i1, <1>i2 DEF Pay, Throw, Return, call, PaymentInv, PaysFirst,
       Resolving, Ended, Waiting
  <2>3. ResultInv'
    BY <1>13, <1>i1, <1>i3 DEF Pay, Throw, Return, call, ResultInv, BeforeAnswer,
       Steps, Sending, Waiting, Ended, Mutation, TypeOK
  <2>4. HandoffInv'
    BY <1>13, <1>i1, <1>i4 DEF Pay, Throw, Return, call, HandoffInv, Waiting, Settled,
       Ended
  <2>5. PaidAfterHumanity'
    BY <1>13, <1>i2, <1>i5 DEF Pay, Throw, Return, call, PaidAfterHumanity,
       PaymentInv, Resolving, Ended, Waiting
  <2>6. ExecutedOnce'
    BY <1>13, <1>i3, <1>i6 DEF Pay, Throw, Return, call, ExecutedOnce
  <2>7. HandoffReleased'
    BY <1>13, <1>i4, <1>i7 DEF Pay, Throw, Return, call, HandoffReleased, HandoffInv,
       Ended, Waiting
  <2>8. KeyedRetryAccepted'
    BY <1>13, <1>i1, <1>i3, <1>i8 DEF Pay, Throw, Return, call, KeyedRetryAccepted,
       ResultInv, TypeOK, Mutation
  <2> QED
    BY <2>1, <2>2, <2>3, <2>4, <2>5, <2>6, <2>7, <2>8 DEF Inv
<1>14. CASE Got3
  <2>1. TypeOK'
    BY <1>14, <1>i1 DEF Got3, Throw, Return, call, TypeOK, Steps, Sending, Ended,
       Waiting, Challenges, Responses, Settled
  <2>2. PaymentInv'
    BY <1>14, <1>i1, <1>i2 DEF Got3, Throw, Return, call, PaymentInv, PaysFirst,
       Resolving, Ended, Waiting
  <2>3. ResultInv'
    BY <1>14, <1>i1, <1>i3 DEF Got3, Throw, Return, call, ResultInv, BeforeAnswer,
       Steps, Sending, Waiting, Ended, Mutation, TypeOK
  <2>4. HandoffInv'
    BY <1>14, <1>i1, <1>i4 DEF Got3, Throw, Return, call, HandoffInv, Waiting,
       Settled, Ended
  <2>5. PaidAfterHumanity'
    BY <1>14, <1>i2, <1>i5 DEF Got3, Throw, Return, call, PaidAfterHumanity,
       PaymentInv, Resolving, Ended, Waiting
  <2>6. ExecutedOnce'
    BY <1>14, <1>i3, <1>i6 DEF Got3, Throw, Return, call, ExecutedOnce
  <2>7. HandoffReleased'
    BY <1>14, <1>i4, <1>i7 DEF Got3, Throw, Return, call, HandoffReleased, HandoffInv,
       Ended, Waiting
  <2>8. KeyedRetryAccepted'
    BY <1>14, <1>i1, <1>i3, <1>i8 DEF Got3, Throw, Return, call, KeyedRetryAccepted,
       ResultInv, TypeOK, Mutation
  <2> QED
    BY <2>1, <2>2, <2>3, <2>4, <2>5, <2>6, <2>7, <2>8 DEF Inv
<1>15. CASE SettleHandoff
  <2>1. TypeOK'
    BY <1>15, <1>i1 DEF SettleHandoff, Throw, Return, call, TypeOK, Steps, Sending,
       Ended, Waiting, Challenges, Responses, Settled
  <2>2. PaymentInv'
    BY <1>15, <1>i1, <1>i2 DEF SettleHandoff, Throw, Return, call, PaymentInv,
       PaysFirst, Resolving, Ended, Waiting
  <2>3. ResultInv'
    BY <1>15, <1>i1, <1>i3 DEF SettleHandoff, Throw, Return, call, ResultInv,
       BeforeAnswer, Steps, Sending, Waiting, Ended, Mutation, TypeOK
  <2>4. HandoffInv'
    BY <1>15, <1>i1, <1>i4 DEF SettleHandoff, Throw, Return, call, HandoffInv,
       Waiting, Settled, Ended
  <2>5. PaidAfterHumanity'
    BY <1>15, <1>i2, <1>i5 DEF SettleHandoff, Throw, Return, call, PaidAfterHumanity,
       PaymentInv, Resolving, Ended, Waiting
  <2>6. ExecutedOnce'
    BY <1>15, <1>i3, <1>i6 DEF SettleHandoff, Throw, Return, call, ExecutedOnce
  <2>7. HandoffReleased'
    BY <1>15, <1>i4, <1>i7 DEF SettleHandoff, Throw, Return, call, HandoffReleased,
       HandoffInv, Ended, Waiting
  <2>8. KeyedRetryAccepted'
    BY <1>15, <1>i1, <1>i3, <1>i8 DEF SettleHandoff, Throw, Return, call,
       KeyedRetryAccepted, ResultInv, TypeOK, Mutation
  <2> QED
    BY <2>1, <2>2, <2>3, <2>4, <2>5, <2>6, <2>7, <2>8 DEF Inv
<1>16. CASE Abort
  <2>1. TypeOK'
    BY <1>16, <1>i1 DEF Abort, Throw, Return, call, TypeOK, Steps, Sending, Ended,
       Waiting, Challenges, Responses, Settled
  <2>2. PaymentInv'
    BY <1>16, <1>i1, <1>i2 DEF Abort, Throw, Return, call, PaymentInv, PaysFirst,
       Resolving, Ended, Waiting
  <2>3. ResultInv'
    BY <1>16, <1>i1, <1>i3 DEF Abort, Throw, Return, call, ResultInv, BeforeAnswer,
       Steps, Sending, Waiting, Ended, Mutation, TypeOK
  <2>4. HandoffInv'
    BY <1>16, <1>i1, <1>i4 DEF Abort, Throw, Return, call, HandoffInv, Waiting,
       Settled, Ended
  <2>5. PaidAfterHumanity'
    BY <1>16, <1>i2, <1>i5 DEF Abort, Throw, Return, call, PaidAfterHumanity,
       PaymentInv, Resolving, Ended, Waiting
  <2>6. ExecutedOnce'
    BY <1>16, <1>i3, <1>i6 DEF Abort, Throw, Return, call, ExecutedOnce
  <2>7. HandoffReleased'
    BY <1>16, <1>i4, <1>i7 DEF Abort, Throw, Return, call, HandoffReleased,
       HandoffInv, Ended, Waiting
  <2>8. KeyedRetryAccepted'
    BY <1>16, <1>i1, <1>i3, <1>i8 DEF Abort, Throw, Return, call, KeyedRetryAccepted,
       ResultInv, TypeOK, Mutation
  <2> QED
    BY <2>1, <2>2, <2>3, <2>4, <2>5, <2>6, <2>7, <2>8 DEF Inv
<1>17. CASE ExpireResult
  <2>1. TypeOK'
    <3>1. result' \in Results
      BY <1>17, <1>i1 DEF ExpireResult, TypeOK, Results
    <3> QED
      BY <1>17, <1>i1, <3>1 DEF ExpireResult, TypeOK, Results
  <2>2. PaymentInv'
    BY <1>17, <1>i1, <1>i2 DEF ExpireResult, Throw, Return, call, PaymentInv,
       PaysFirst, Resolving, Ended, Waiting
  <2>3. ResultInv'
    BY <1>17, <1>i1, <1>i3 DEF ExpireResult, Throw, Return, call, ResultInv,
       BeforeAnswer, Steps, Sending, Waiting, Ended, Mutation, TypeOK
  <2>4. HandoffInv'
    BY <1>17, <1>i1, <1>i4 DEF ExpireResult, Throw, Return, call, HandoffInv, Waiting,
       Settled, Ended
  <2>5. PaidAfterHumanity'
    BY <1>17, <1>i2, <1>i5, <1>i1 DEF ExpireResult, Throw, Return, call, TypeOK,
       PaidAfterHumanity, PaymentInv, Resolving, Ended, Waiting
  <2>6. ExecutedOnce'
    BY <1>17, <1>i3, <1>i6 DEF ExpireResult, Throw, Return, call, ExecutedOnce
  <2>7. HandoffReleased'
    BY <1>17, <1>i4, <1>i7 DEF ExpireResult, Throw, Return, call, HandoffReleased,
       HandoffInv, Ended, Waiting
  <2>8. KeyedRetryAccepted'
    BY <1>17, <1>i1, <1>i3, <1>i8 DEF ExpireResult, Throw, Return, call,
       KeyedRetryAccepted, ResultInv, TypeOK, Mutation
  <2> QED
    BY <2>1, <2>2, <2>3, <2>4, <2>5, <2>6, <2>7, <2>8 DEF Inv
<1>18. CASE UNCHANGED vars
  <2>1. TypeOK'
    BY <1>18, <1>i1 DEF vars, TypeOK, PaysFirst, Mutation
  <2>2. PaymentInv'
    BY <1>18, <1>i2 DEF vars, PaymentInv, PaysFirst, Mutation
  <2>3. ResultInv'
    BY <1>18, <1>i3 DEF vars, ResultInv, PaysFirst, Mutation
  <2>4. HandoffInv'
    BY <1>18, <1>i4 DEF vars, HandoffInv, PaysFirst, Mutation
  <2>5. PaidAfterHumanity'
    BY <1>18, <1>i5 DEF vars, PaidAfterHumanity, PaysFirst, Mutation
  <2>6. ExecutedOnce'
    BY <1>18, <1>i6 DEF vars, ExecutedOnce, PaysFirst, Mutation
  <2>7. HandoffReleased'
    BY <1>18, <1>i7 DEF vars, HandoffReleased, PaysFirst, Mutation
  <2>8. KeyedRetryAccepted'
    BY <1>18, <1>i8 DEF vars, KeyedRetryAccepted, PaysFirst, Mutation
  <2> QED
    BY <2>1, <2>2, <2>3, <2>4, <2>5, <2>6, <2>7, <2>8 DEF Inv
<1> QED
  BY <1>1, <1>2, <1>3, <1>4, <1>5, <1>6, <1>7, <1>8, <1>9, <1>10, <1>11, <1>12, <1>13,
     <1>14, <1>15, <1>16, <1>17, <1>18 DEF Next, ClientStep

\* Every reachable state satisfies Inv: the types, and the three parts of what
\* a call knows at each of its steps (fetchWithX424, fetchWithX424AndX402 and
\* the agent client's fetch).
THEOREM InvInvariant == Spec => []Inv
<1>1. Init => Inv
  <2> SUFFICES ASSUME Init PROVE Inv
    OBVIOUS
  <2>1. key \in BOOLEAN /\ proof \in BOOLEAN
    BY DEF Init, Setup
  <2>2. result \in Results
    BY <2>1 DEF Init, Results
  <2>3. TypeOK
    BY <2>1, <2>2 DEF Init, TypeOK, Steps, Responses, Results
  <2>4. PaymentInv /\ HandoffInv
    BY DEF Init, PaymentInv, HandoffInv, Waiting
  <2>5. result.usedBy = "nobody"
    BY DEF Init
  <2>6. ResultInv
    BY <2>5 DEF Init, ResultInv, Mutation
  <2>7. PaidAfterHumanity /\ ExecutedOnce /\ HandoffReleased /\ KeyedRetryAccepted
    BY DEF Init, PaidAfterHumanity, ExecutedOnce, HandoffReleased, KeyedRetryAccepted
  <2> QED
    BY <2>3, <2>4, <2>6, <2>7 DEF Inv
<1>2. Inv /\ [Next]_vars => Inv'
  BY InvStep
<1> QED
  BY <1>1, <1>2, PTL DEF Spec

\* A payment is prepared only with a human proof in hand, and settled only after
\* the proof was accepted, whatever fails on the way (composeX424BeforeX402).
THEOREM PaymentOrder == Spec => []PaidAfterHumanity
<1>1. Inv => PaidAfterHumanity
  BY DEF Inv
<1> QED
  BY <1>1, InvInvariant, PTL

\* The application acts at most once for one call: no client repeats a request
\* that may have been served.
THEOREM NoRepeatedAction == Spec => []ExecutedOnce
<1>1. Inv => ExecutedOnce
  BY DEF Inv
<1> QED
  BY <1>1, InvInvariant, PTL

\* No ended call leaves its handoff open but for the three named failures
\* (waitForHandoff's catch block).
THEOREM HandoffCleanup == Spec => []HandoffReleased
<1>1. Inv => HandoffReleased
  BY DEF Inv
<1> QED
  BY <1>1, InvInvariant, PTL

\* The final retry of a keyed mutation is never refused for a human proof that
\* is still valid (acceptHumanProof, accept's "same_operation").
THEOREM KeyedRetry == Spec => []KeyedRetryAccepted
<1>1. Inv => KeyedRetryAccepted
  BY DEF Inv
<1> QED
  BY <1>1, InvInvariant, PTL
=============================================================================
