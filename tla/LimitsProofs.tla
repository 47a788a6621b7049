---------------------------- MODULE LimitsProofs ----------------------------
(***************************************************************************)
(* Proofs about Limits, for any number of concurrent requests, any window   *)
(* and any limit, threshold, cool-down and time-out.  The first part is     *)
(* about the circuit breaker, the second about filtering ages, the third    *)
(* about the limiters' windows.                                             *)
(***************************************************************************)
EXTENDS Limits, FiniteSetTheorems, SequenceTheorems, TLAPS

-----------------------------------------------------------------------------
(* The circuit breaker *)

CircuitOK == CircuitTypeOK /\ CircuitInv

\* The calls on their way are finitely many, at most one for each request.
LEMMA FlyingCard ==
    /\ Cardinality(Calls) \in Nat
    /\ IsFiniteSet(Flying) /\ Cardinality(Flying) \in 0 .. Cardinality(Calls)
<1>1. IsFiniteSet(Calls) /\ Flying \subseteq Calls
  BY LimitsAssumption DEF Flying
<1>2. Cardinality(Calls) \in Nat
  BY <1>1, FS_CardinalityType
<1>3. IsFiniteSet(Flying) /\ Cardinality(Flying) \in Nat
      /\ Cardinality(Flying) <= Cardinality(Calls)
  BY <1>1, FS_Subset, FS_CardinalityType
<1> QED
  BY <1>2, <1>3

\* A step that sends no call and ends none keeps what is on its way.
LEMMA SameFlying ==
    ASSUME \A c \in Calls : call'[c].pc = "calling" <=> call[c].pc = "calling"
    PROVE  Flying' = Flying
BY DEF Flying

\* A step that does not touch the circuit, the calls on their way and their
\* count keeps CircuitInv.
LEMMA Quiet ==
    ASSUME CircuitInv, UNCHANGED <<failures, opened, sent>>, Flying' = Flying,
           \A c \in Flying : call'[c].stale = call[c].stale
    PROVE  CircuitInv'
BY DEF CircuitInv

\* Whatever a request, an answer or a time-out does, the breaker's counter and
\* its openedAt agree, and the calls sent since it closed are accounted for.
LEMMA CircuitStep == ASSUME CircuitOK, [Next]_vars PROVE CircuitOK'
<1>1. CircuitTypeOK /\ CircuitInv
  BY DEF CircuitOK
<1>2. /\ Threshold \in Nat \ {0} /\ CoolDown \in Nat \ {0} /\ Timeout \in Nat \ {0}
      /\ call \in [Calls -> Call]
  BY <1>1, LimitsAssumption DEF CircuitTypeOK
<1>3. Idle \in Call
  BY <1>2 DEF Idle, Call
<1>4. ASSUME NEW c \in Calls, Consume(c) PROVE CircuitOK'
  <2>1. call' \in [Calls -> Call]
    BY <1>2, <1>4 DEF Consume, Call
  <2>2. \A d \in Calls : /\ call'[d].pc = "calling" <=> call[d].pc = "calling"
                         /\ call'[d].stale = call[d].stale
    BY <1>2, <1>4 DEF Consume, Call
  <2>3. UNCHANGED <<failures, opened, openFor, sent>>
    BY <1>4 DEF Consume, circuit
  <2>4. CircuitTypeOK'
    BY <1>1, <2>1, <2>3 DEF CircuitTypeOK
  <2> QED
    BY <1>1, <2>2, <2>3, <2>4, SameFlying, Quiet DEF CircuitOK, Flying
<1>5. ASSUME NEW c \in Calls, SendCall(c) PROVE CircuitOK'
  <2>1. call' \in [Calls -> Call]
    <3>1. 0 \in 0 .. Timeout
      BY <1>2
    <3>2. Underway \in Call
      BY <3>1 DEF Underway, Call
    <3> QED
      BY <1>2, <1>5, <3>2 DEF SendCall
  <2>2. Flying' = Flying \union {c} /\ c \notin Flying
    BY <1>2, <1>5 DEF SendCall, MaySend, Flying, Underway
  <2>3. Cardinality(Flying') = Cardinality(Flying) + 1
    BY <2>2, FlyingCard, FS_AddElement
  <2>4. Cardinality(Flying') \in 1 .. Cardinality(Calls)
    <3>1. Flying' \subseteq Calls
      BY DEF Flying
    <3>2. Cardinality(Flying') <= Cardinality(Calls)
      BY <3>1, LimitsAssumption, FS_Subset
    <3> QED
      BY <2>3, <3>2, FlyingCard
  <2>5. CASE opened /\ openFor >= CoolDown
    <3>1. failures' = 0 /\ opened' = FALSE /\ openFor' = 0 /\ sent' = 1
      BY <1>5, <2>5 DEF SendCall, Close
    <3>2. CircuitTypeOK'
      <4>1. 0 \in 0 .. CoolDown
        BY <1>2
      <4>2. opened' \in BOOLEAN
        BY <3>1
      <4> QED
        BY <2>1, <3>1, <4>1, <4>2 DEF CircuitTypeOK
    <3>3. CircuitInv'
      BY <1>2, <2>4, <3>1, FlyingCard DEF CircuitInv
    <3> QED
      BY <3>2, <3>3 DEF CircuitOK
  <2>6. CASE ~(opened /\ openFor >= CoolDown)
    <3>1. UNCHANGED <<failures, opened, openFor>> /\ sent' = sent + 1
      BY <1>5, <2>6 DEF SendCall, circuit
    <3>2. ~opened
      BY <1>1, <1>2, <1>5, <2>6 DEF SendCall, MaySend, Cooling, CircuitTypeOK
    <3>3. CircuitTypeOK'
      BY <1>1, <2>1, <3>1 DEF CircuitTypeOK
    <3>4. CircuitInv'
      BY <1>1, <1>2, <2>3, <2>4, <3>1, <3>2, FlyingCard DEF CircuitInv, CircuitTypeOK
    <3> QED
      BY <3>3, <3>4 DEF CircuitOK
  <2> QED
    BY <2>5, <2>6
<1>6. ASSUME NEW c \in Calls, RefuseCall(c) PROVE CircuitOK'
  <2>1. call' \in [Calls -> Call]
    BY <1>2, <1>3, <1>6 DEF RefuseCall
  <2>2. \A d \in Calls : call'[d].pc = "calling" <=> call[d].pc = "calling"
    BY <1>2, <1>6 DEF RefuseCall, Idle
  <2>3. \A d \in Flying : call'[d].stale = call[d].stale
    BY <1>2, <1>6 DEF RefuseCall, Idle, Flying
  <2>4. UNCHANGED <<failures, opened, openFor, sent>>
    BY <1>6 DEF RefuseCall, Refuse, circuit
  <2>5. CircuitTypeOK'
    BY <1>1, <2>1, <2>4 DEF CircuitTypeOK
  <2> QED
    BY <1>1, <2>2, <2>3, <2>4, <2>5, SameFlying, Quiet DEF CircuitOK
<1>7. ASSUME NEW c \in Calls, Succeed(c) PROVE CircuitOK'
  <2>1. call' \in [Calls -> Call]
    BY <1>2, <1>3, <1>7 DEF Succeed
  <2>2. failures' = 0 /\ opened' = FALSE /\ openFor' = 0 /\ sent' = 0
    BY <1>7 DEF Succeed, Close
  <2>3. Flying' \subseteq Calls
    BY DEF Flying
  <2>4. Cardinality(Flying') \in Nat
    BY <2>3, LimitsAssumption, FS_Subset, FS_CardinalityType
  <2>5. CircuitTypeOK'
    <3>1. 0 \in 0 .. CoolDown
      BY <1>2
    <3>2. opened' \in BOOLEAN
      BY <2>2
    <3> QED
      BY <2>1, <2>2, <3>1, <3>2 DEF CircuitTypeOK
  <2>6. CircuitInv'
    BY <1>2, <2>2, <2>4, FlyingCard DEF CircuitInv
  <2> QED
    BY <2>5, <2>6 DEF CircuitOK
<1>8. ASSUME NEW c \in Calls, FailCall(c) PROVE CircuitOK'
  <2>1. c \in Flying /\ sent' = sent
    BY <1>8 DEF FailCall, Flying
  <2>2. CASE Trips
    <3>1. /\ opened' = TRUE /\ openFor' = 0
          /\ call' = [d \in Calls |-> IF d = c THEN Idle
                          ELSE IF ~opened /\ call[d].pc = "calling"
                            THEN [call[d] EXCEPT !.stale = TRUE]
                          ELSE call[d]]
          /\ failures' = IF failures < Threshold THEN failures + 1 ELSE failures
      BY <1>8, <2>2 DEF FailCall
    <3>2. call' \in [Calls -> Call]
      BY <1>2, <1>3, <3>1 DEF Call
    <3>3. failures' = Threshold
      BY <1>1, <1>2, <2>2, <3>1 DEF Trips, CircuitInv, CircuitTypeOK
    <3>4. \A d \in Flying' : call'[d].stale
      <4> SUFFICES ASSUME NEW d \in Flying' PROVE call'[d].stale
        OBVIOUS
      <4>1. d \in Calls /\ call'[d].pc = "calling" /\ d # c
        BY <3>1 DEF Flying, Idle
      <4>2. CASE opened
        <5>1. call'[d] = call[d]
          BY <3>1, <4>1, <4>2
        <5> QED
          BY <1>1, <4>1, <4>2, <5>1 DEF CircuitInv, Flying
      <4>3. CASE ~opened
        <5>1. call[d].pc = "calling"
          BY <1>2, <3>1, <4>1, <4>3 DEF Call
        <5> QED
          BY <1>2, <3>1, <4>1, <4>3, <5>1 DEF Call
      <4> QED
        BY <4>2, <4>3
    <3>5. CircuitTypeOK'
      BY <1>1, <1>2, <2>1, <3>1, <3>2, <3>3 DEF CircuitTypeOK
    <3>6. CircuitInv'
      BY <1>1, <1>2, <2>1, <3>1, <3>3, <3>4 DEF CircuitInv
    <3> QED
      BY <3>5, <3>6 DEF CircuitOK
  <2>3. CASE ~Trips
    <3>1. /\ UNCHANGED <<opened, openFor>> /\ call' = [call EXCEPT ![c] = Idle]
          /\ failures' = IF failures < Threshold THEN failures + 1 ELSE failures
      BY <1>8, <2>3 DEF FailCall
    <3>2. failures' = failures + 1 /\ failures + 1 < Threshold /\ ~opened
      BY <1>1, <1>2, <2>3, <3>1 DEF Trips, CircuitInv, CircuitTypeOK
    <3>3. Flying' = Flying \ {c}
      BY <1>2, <3>1 DEF Flying, Idle
    <3>4. Cardinality(Flying') = Cardinality(Flying) - 1
      BY <2>1, <3>3, FlyingCard, FS_RemoveElement
    <3>5. CircuitTypeOK'
      BY <1>1, <1>2, <1>3, <2>1, <3>1, <3>2 DEF CircuitTypeOK
    <3>6. CircuitInv'
      BY <1>1, <1>2, <2>1, <3>1, <3>2, <3>4, FlyingCard DEF CircuitInv, CircuitTypeOK
    <3> QED
      BY <3>5, <3>6 DEF CircuitOK
  <2> QED
    BY <2>2, <2>3
<1>9. ASSUME Tick PROVE CircuitOK'
  <2>1. call' = [c \in Calls |-> IF call[c].pc = "calling"
                                   THEN [call[c] EXCEPT !.age = @ + 1] ELSE call[c]]
    BY <1>9 DEF Tick
  <2>2. \A c \in Calls : call[c].age < Timeout
    BY <1>9 DEF Tick
  <2>3. call' \in [Calls -> Call]
    BY <1>2, <2>1, <2>2 DEF Call
  <2>4. \A c \in Calls : /\ call'[c].pc = "calling" <=> call[c].pc = "calling"
                         /\ call'[c].stale = call[c].stale
    BY <1>2, <2>1 DEF Call
  <2>5. UNCHANGED <<failures, opened, sent>>
        /\ openFor' = IF Cooling THEN openFor + 1 ELSE openFor
    BY <1>9 DEF Tick
  <2>6. CircuitTypeOK'
    BY <1>1, <1>2, <2>3, <2>5 DEF CircuitTypeOK, Cooling
  <2> QED
    BY <1>1, <2>4, <2>5, <2>6, SameFlying, Quiet DEF CircuitOK, Flying
<1>10. CASE UNCHANGED vars
  <2>1. Flying' = Flying /\ CircuitTypeOK'
    BY <1>1, <1>10 DEF vars, Flying, CircuitTypeOK
  <2> QED
    BY <1>1, <1>10, <2>1, Quiet DEF vars, CircuitOK
<1> QED
  BY <1>4, <1>5, <1>6, <1>7, <1>8, <1>9, <1>10 DEF Next

\* The circuit breaker's types and CircuitInv hold for any number of requests
\* (assertClosed, recordSuccess, recordFailure of CircuitBreaker).
THEOREM CircuitInvariant == Spec => []CircuitOK
<1>1. Init => CircuitOK
  <2> SUFFICES ASSUME Init PROVE CircuitOK
    OBVIOUS
  <2>1. /\ Threshold \in Nat \ {0} /\ CoolDown \in Nat \ {0} /\ Timeout \in Nat \ {0}
        /\ failures = 0 /\ opened = FALSE /\ openFor = 0 /\ sent = 0
        /\ call = [c \in Calls |-> Idle]
    BY LimitsAssumption DEF Init
  <2>2. CircuitTypeOK
    <3>1. Idle \in Call /\ 0 \in 0 .. CoolDown
      BY <2>1 DEF Idle, Call
    <3>2. opened \in BOOLEAN
      BY <2>1
    <3>3. call \in [Calls -> Call]
      BY <2>1, <3>1
    <3> QED
      BY <2>1, <3>1, <3>2, <3>3 DEF CircuitTypeOK
  <2>3. CircuitInv
    BY <2>1, FlyingCard DEF CircuitInv
  <2> QED
    BY <2>2, <2>3 DEF CircuitOK
<1>2. CircuitOK /\ [Next]_vars => CircuitOK'
  BY CircuitStep
<1> QED
  BY <1>1, <1>2, PTL DEF Spec

\* An open circuit sends nothing before it has cooled down (assertClosed).
THEOREM OpenCircuit == Spec => []OpenSendsNothing
<1>1. CircuitOK => OpenSendsNothing
  BY DEF CircuitOK, CircuitInv, OpenSendsNothing, Cooling
<1> QED
  BY <1>1, CircuitInvariant, PTL

\* What a failing provider gets is bounded by the threshold and the concurrency,
\* not by the demand (#verifyWithWorld).
THEOREM ProviderLoad == Spec => []ProviderLoadBounded
<1>1. CircuitOK => ProviderLoadBounded
  BY DEF CircuitOK, CircuitInv, ProviderLoadBounded
<1> QED
  BY <1>1, CircuitInvariant, PTL

-----------------------------------------------------------------------------
(* Filtering ages *)

\* A set of natural numbers that is not empty has a least element.
LEMMA LeastNatural ==
    ASSUME NEW T, T \subseteq Nat, T # {}
    PROVE  \E n \in T : \A m \in T : n <= m
<1> DEFINE R == {pair \in Nat \X Nat : pair[1] < pair[2]}
<1>1. IsWellFoundedOn(R, Nat)
  BY NatLessThanWellFounded, Zenon DEF OpToRel
<1>2. \A m, n \in Nat : m < n => <<m, n>> \in R
  OBVIOUS
<1> HIDE DEF R
<1>3. \E n \in T : \A m \in T : ~(<<m, n>> \in R)
  BY <1>1, WFMin, Zenon
<1>4. PICK n \in T : \A m \in T : ~(<<m, n>> \in R)
  BY <1>3
<1>5. \A m \in T : n <= m
  <2> SUFFICES ASSUME NEW m \in T PROVE n <= m
    OBVIOUS
  <2>1. m \in Nat /\ n \in Nat
    OBVIOUS
  <2>2. ~(m < n)
    BY <1>2, <1>4, <2>1
  <2> QED
    BY <2>1, <2>2
<1> QED
  BY <1>5

\* Where the ages of a sequence fall below a limit.
Cut(ages, limit, k) ==
    /\ k \in 0 .. Len(ages)
    /\ \A i \in 1 .. k : ages[i] >= limit
    /\ \A i \in k + 1 .. Len(ages) : ages[i] < limit

\* Ages that never grow fall below a limit once and for all.
LEMMA CutExists ==
    ASSUME NEW ages \in Seq(Int), Descending(ages), NEW limit \in Int
    PROVE  \E k \in 0 .. Len(ages) : Cut(ages, limit, k)
<1> DEFINE Ends == {k \in 0 .. Len(ages) : \A i \in k + 1 .. Len(ages) : ages[i] < limit}
<1>1. Len(ages) \in Nat /\ DOMAIN ages = 1 .. Len(ages) /\ \A i \in 1 .. Len(ages) : ages[i] \in Int
  OBVIOUS
<1>2. Len(ages) \in Ends /\ Ends \subseteq Nat
  BY <1>1
<1> HIDE DEF Ends
<1>3. PICK k \in Ends : \A other \in Ends : k <= other
  BY <1>2, LeastNatural
<1>4. k \in 0 .. Len(ages) /\ \A i \in k + 1 .. Len(ages) : ages[i] < limit
  BY DEF Ends
<1>5. ASSUME NEW i \in 1 .. k PROVE ages[i] >= limit
  <2>1. k - 1 \notin Ends /\ k - 1 \in 0 .. Len(ages)
    BY <1>1, <1>2, <1>3, <1>4
  <2>2. PICK j \in k .. Len(ages) : ~(ages[j] < limit)
    BY <2>1 DEF Ends
  <2>3. j = k
    BY <1>1, <1>4, <2>2
  <2>4. ages[i] >= ages[k]
    BY <1>1, <1>4 DEF Descending
  <2> QED
    BY <1>1, <1>4, <2>2, <2>3, <2>4
<1> QED
  BY <1>4, <1>5 DEF Cut

\* A function that filters ages from their start on.
Filters(ages, limit, f) ==
    f = [n \in 0 .. Len(ages) |->
            IF n = 0 THEN <<>>
            ELSE IF ages[n] < limit THEN Append(f[n - 1], ages[n]) ELSE f[n - 1]]

\* To filter ages that never grow is to drop the first ones.
LEMMA YoungerIs ==
    ASSUME NEW ages \in Seq(Int), NEW limit \in Int, NEW k \in 0 .. Len(ages),
           Cut(ages, limit, k)
    PROVE  Younger(ages, limit) = SubSeq(ages, k + 1, Len(ages))
<1> DEFINE Rest(n) == SubSeq(ages, k + 1, n)
           f == [n \in 0 .. Len(ages) |-> Rest(n)]
<1>1. Len(ages) \in Nat /\ \A i \in 1 .. Len(ages) : ages[i] \in Int
  OBVIOUS
<1>2. ASSUME NEW n \in 1 .. Len(ages)
      PROVE  Rest(n) = IF ages[n] < limit THEN Append(Rest(n - 1), ages[n]) ELSE Rest(n - 1)
  <2>1. CASE n <= k
    <3>1. ages[n] \in Int /\ ages[n] >= limit
      BY <1>1, <2>1 DEF Cut
    <3>2. Rest(n) = <<>> /\ Rest(n - 1) = <<>>
      BY <1>1, <2>1, SubSeqEmpty
    <3>3. ~(ages[n] < limit)
      BY <3>1
    <3> HIDE DEF Rest
    <3> QED
      BY <3>2, <3>3
  <2>2. CASE n > k
    <3>1. ages[n] < limit
      BY <1>1, <2>2 DEF Cut
    <3>2. Rest(n) = Append(Rest(n - 1), ages[n])
      BY <1>1, <2>2
    <3> QED
      BY <3>1, <3>2
  <2> QED
    BY <1>1, <2>1, <2>2
<1>3. Rest(0) = <<>>
  BY <1>1, SubSeqEmpty
<1> HIDE DEF Rest
<1>4. Filters(ages, limit, f)
  <2>1. \A n \in 0 .. Len(ages) : n # 0 => n \in 1 .. Len(ages) /\ f[n - 1] = Rest(n - 1)
    BY <1>1
  <2>2. \A n \in 0 .. Len(ages) :
           Rest(n) = IF n = 0 THEN <<>>
                     ELSE IF ages[n] < limit THEN Append(f[n - 1], ages[n]) ELSE f[n - 1]
    BY <1>2, <1>3, <2>1
  <2> QED
    BY <2>2, Zenon DEF Filters
<1> DEFINE kept == CHOOSE g : Filters(ages, limit, g)
<1>5. Younger(ages, limit) = kept[Len(ages)]
  BY Zenon DEF Younger, Filters
<1>6. Filters(ages, limit, kept)
  BY <1>4, Zenon
<1> HIDE DEF kept, f
<1> DEFINE Wrong == {n \in 0 .. Len(ages) : kept[n] # Rest(n)}
<1>7. Wrong = {}
  <2> SUFFICES ASSUME Wrong # {} PROVE FALSE
    OBVIOUS
  <2>1. Wrong \subseteq Nat
    BY <1>1
  <2>2. PICK n \in Wrong : \A m \in Wrong : n <= m
    BY <2>1, LeastNatural
  <2>3. n # 0
    BY <1>1, <1>3, <1>6 DEF Filters
  <2>4. n \in 1 .. Len(ages) /\ n - 1 \in 0 .. Len(ages)
    BY <1>1, <2>3
  <2>5. kept[n - 1] = Rest(n - 1)
    BY <1>1, <2>2, <2>4
  <2>6. kept[n] = IF ages[n] < limit THEN Append(kept[n - 1], ages[n]) ELSE kept[n - 1]
    <3>1. PICK g : /\ g = [i \in 0 .. Len(ages) |->
                           IF i = 0 THEN <<>>
                           ELSE IF ages[i] < limit THEN Append(kept[i - 1], ages[i])
                           ELSE kept[i - 1]]
                  /\ g = kept
      BY <1>6, Zenon DEF Filters
    <3>2. g[n] = IF ages[n] < limit THEN Append(kept[n - 1], ages[n]) ELSE kept[n - 1]
      BY <2>3, <2>4, <3>1
    <3> QED
      BY <3>1, <3>2
  <2> QED
    BY <1>2, <2>4, <2>5, <2>6
<1> QED
  BY <1>1, <1>5, <1>7 DEF Rest

-----------------------------------------------------------------------------
(* The rate limiters *)

Ages == 0 .. Window

\* What is left of ages when their first k are dropped for the limit.
Drops(ages, limit, k) ==
    LET rest == Younger(ages, limit)
    IN /\ Cut(ages, limit, k)
       /\ rest \in Seq(Ages) /\ Len(rest) = Len(ages) - k
       /\ \A i \in 1 .. Len(ages) - k : rest[i] = ages[i + k] /\ rest[i] < limit
       /\ Descending(rest)

\* A filter drops the first of ages that never grow.
LEMMA YoungerProperties ==
    ASSUME NEW ages \in Seq(Ages), Descending(ages), NEW limit \in Int
    PROVE  \E k \in 0 .. Len(ages) : Drops(ages, limit, k)
<1>1. /\ Len(ages) \in Nat /\ DOMAIN ages = 1 .. Len(ages)
      /\ \A i \in 1 .. Len(ages) : ages[i] \in Ages
  OBVIOUS
<1>2. Window \in Nat /\ Ages \subseteq Int
  BY LimitsAssumption DEF Ages
<1>3. ages \in Seq(Int)
  BY <1>2, SeqMonotonic
<1>4. PICK k \in 0 .. Len(ages) : Cut(ages, limit, k)
  BY <1>3, CutExists
<1> DEFINE rest == SubSeq(ages, k + 1, Len(ages))
<1>5. Younger(ages, limit) = rest
  BY <1>3, <1>4, YoungerIs
<1>6. rest \in Seq(Ages) /\ Len(rest) = Len(ages) - k
      /\ \A i \in 1 .. Len(ages) - k : rest[i] = ages[i + k]
  BY <1>1, SubSeqProperties
<1> HIDE DEF rest
<1>7. \A i \in 1 .. Len(ages) - k : rest[i] < limit
  <2> SUFFICES ASSUME NEW i \in 1 .. Len(ages) - k PROVE rest[i] < limit
    OBVIOUS
  <2>1. i + k \in k + 1 .. Len(ages)
    BY <1>1
  <2> QED
    BY <1>4, <1>6, <2>1 DEF Cut
<1>8. Descending(rest)
  <2> SUFFICES ASSUME NEW i \in DOMAIN rest, NEW j \in DOMAIN rest, i <= j
               PROVE  rest[i] >= rest[j]
    BY DEF Descending
  <2>1. i \in 1 .. Len(ages) - k /\ j \in 1 .. Len(ages) - k
    BY <1>6
  <2>2. i + k \in DOMAIN ages /\ j + k \in DOMAIN ages /\ i + k <= j + k
    BY <1>1, <2>1
  <2> QED
    BY <1>6, <2>1, <2>2 DEF Descending
<1> QED
  BY <1>4, <1>5, <1>6, <1>7, <1>8 DEF Drops

\* A filter leaves alone what is all below the limit.
LEMMA YoungerAll ==
    ASSUME NEW ages \in Seq(Ages), NEW limit \in Int, \A i \in 1 .. Len(ages) : ages[i] < limit
    PROVE  Younger(ages, limit) = ages
<1>1. ages \in Seq(Int) /\ Len(ages) \in Nat
  BY LimitsAssumption DEF Ages
<1>2. Cut(ages, limit, 0)
  BY <1>1 DEF Cut
<1>3. Younger(ages, limit) = SubSeq(ages, 0 + 1, Len(ages))
  BY <1>1, <1>2, YoungerIs
<1> QED
  BY <1>3, SubSeqFull

\* Ages of a time unit later.
LEMMA OlderProperties ==
    ASSUME NEW ages \in Seq(Ages), Descending(ages)
    PROVE  /\ Older(ages, Window) \in Seq(Ages) /\ Len(Older(ages, Window)) = Len(ages)
           /\ Descending(Older(ages, Window))
           /\ \A i \in 1 .. Len(ages) :
                 Older(ages, Window)[i] = IF ages[i] < Window THEN ages[i] + 1 ELSE ages[i]
<1>1. /\ Len(ages) \in Nat /\ DOMAIN ages = 1 .. Len(ages) /\ Window \in Nat
      /\ \A i \in 1 .. Len(ages) : ages[i] \in 0 .. Window
  BY LimitsAssumption DEF Ages
<1> DEFINE later == Older(ages, Window)
<1>2. later = [i \in 1 .. Len(ages) |-> IF ages[i] < Window THEN ages[i] + 1 ELSE ages[i]]
  BY <1>1 DEF Older
<1> HIDE DEF later
<1>3. \A i \in 1 .. Len(ages) : later[i] \in 0 .. Window
  BY <1>1, <1>2
<1>4. later \in [1 .. Len(ages) -> 0 .. Window]
  BY <1>2, <1>3
<1>5. later \in Seq(Ages) /\ Len(later) = Len(ages)
  BY <1>1, <1>4 DEF Ages
<1>6. Descending(later)
  BY <1>1, <1>2, <1>5 DEF Descending
<1> QED
  BY <1>2, <1>5, <1>6 DEF later

\* Ages with a fresh one.
LEMMA AppendFresh ==
    ASSUME NEW ages \in Seq(Ages), Descending(ages)
    PROVE  /\ Append(ages, 0) \in Seq(Ages) /\ Len(Append(ages, 0)) = Len(ages) + 1
           /\ Descending(Append(ages, 0))
           /\ \A i \in 1 .. Len(ages) : Append(ages, 0)[i] = ages[i]
           /\ Append(ages, 0)[Len(ages) + 1] = 0
<1>1. /\ Len(ages) \in Nat /\ DOMAIN ages = 1 .. Len(ages) /\ 0 \in Ages
      /\ \A i \in 1 .. Len(ages) : ages[i] \in 0 .. Window
  BY LimitsAssumption DEF Ages
<1>2. /\ Append(ages, 0) \in Seq(Ages) /\ Len(Append(ages, 0)) = Len(ages) + 1
      /\ \A i \in 1 .. Len(ages) : Append(ages, 0)[i] = ages[i]
      /\ Append(ages, 0)[Len(ages) + 1] = 0
  BY <1>1, AppendProperties
<1>3. DOMAIN Append(ages, 0) = 1 .. Len(ages) + 1
  BY <1>2
<1>4. Descending(Append(ages, 0))
  <2> SUFFICES ASSUME NEW i \in 1 .. Len(ages) + 1, NEW j \in 1 .. Len(ages) + 1, i <= j
               PROVE  Append(ages, 0)[i] >= Append(ages, 0)[j]
    BY <1>3 DEF Descending
  <2>1. CASE j \in 1 .. Len(ages)
    BY <1>1, <1>2, <2>1 DEF Descending
  <2>2. CASE j = Len(ages) + 1
    <3>1. i \in 1 .. Len(ages) \/ i = Len(ages) + 1
      BY <1>1
    <3> QED
      BY <1>1, <1>2, <2>2, <3>1
  <2> QED
    BY <1>1, <2>1, <2>2
<1> QED
  BY <1>2, <1>4

\* To age and filter the requests of the last window is to filter the aged hits.
LEMMA AgeThenFilter ==
    ASSUME NEW ages \in Seq(Ages), Descending(ages)
    PROVE  Recent(Older(Prior(ages), Window)) = Prior(Older(ages, Window))
<1>1. Window \in Nat
  BY LimitsAssumption
<1>2. PICK k \in 0 .. Len(ages) : Drops(ages, Window, k)
  BY <1>1, YoungerProperties
<1> PICK prior : prior = Prior(ages)
  OBVIOUS
<1>21. /\ Cut(ages, Window, k)
      /\ prior \in Seq(Ages) /\ Len(prior) = Len(ages) - k /\ Descending(prior)
      /\ \A i \in 1 .. Len(ages) - k : prior[i] = ages[i + k]
  BY <1>2 DEF Drops, Prior
<1> DEFINE older == Older(ages, Window)
           aged == Older(prior, Window)
<1>3. /\ older \in Seq(Ages) /\ Len(older) = Len(ages) /\ Descending(older)
      /\ \A i \in 1 .. Len(ages) :
            older[i] = IF ages[i] < Window THEN ages[i] + 1 ELSE ages[i]
  BY OlderProperties
<1>4. /\ aged \in Seq(Ages) /\ Len(aged) = Len(ages) - k /\ Descending(aged)
      /\ \A i \in 1 .. Len(ages) - k :
            aged[i] = IF ages[i + k] < Window THEN ages[i + k] + 1 ELSE ages[i + k]
  <2>1. /\ aged \in Seq(Ages) /\ Len(aged) = Len(prior) /\ Descending(aged)
        /\ \A i \in 1 .. Len(prior) :
              aged[i] = IF prior[i] < Window THEN prior[i] + 1 ELSE prior[i]
    BY <1>21, OlderProperties
  <2> HIDE DEF aged
  <2> QED
    BY <1>21, <2>1
<1> HIDE DEF older, aged
<1>5. Len(ages) \in Nat /\ \A i \in 1 .. Len(ages) : ages[i] \in 0 .. Window
  <2>1. \A i \in 1 .. Len(ages) : ages[i] \in Ages
    OBVIOUS
  <2> QED
    BY <2>1 DEF Ages
<1>6. \A i \in 1 .. Len(ages) - k : i + k \in 1 .. Len(ages) /\ aged[i] = older[i + k]
  BY <1>3, <1>4, <1>5
<1>7. PICK m \in 0 .. Len(older) : Drops(older, Window, m)
  BY <1>1, <1>3, YoungerProperties
<1>71. /\ Cut(older, Window, m) /\ m \in 0 .. Len(ages)
      /\ Younger(older, Window) \in Seq(Ages)
      /\ Len(Younger(older, Window)) = Len(ages) - m
      /\ \A i \in 1 .. Len(ages) - m : Younger(older, Window)[i] = older[i + m]
  BY <1>3, <1>7 DEF Drops
<1>8. PICK n \in 0 .. Len(aged) : Drops(aged, Window, n)
  <2>1. Window \in Int /\ aged \in Seq(Ages) /\ Descending(aged)
    BY <1>1, <1>4
  <2> QED
    BY <2>1, YoungerProperties
<1>81. /\ Cut(aged, Window, n) /\ n \in 0 .. Len(ages) - k
      /\ Younger(aged, Window) \in Seq(Ages)
      /\ Len(Younger(aged, Window)) = Len(ages) - k - n
      /\ \A i \in 1 .. Len(ages) - k - n : Younger(aged, Window)[i] = aged[i + n]
  BY <1>4, <1>8 DEF Drops
<1>9. k <= m
  <2> SUFFICES ASSUME m < k PROVE FALSE
    BY <1>5
  <2>1. k \in 1 .. k /\ k \in 1 .. Len(ages) /\ k \in m + 1 .. Len(ages)
    BY <1>5
  <2>2. ages[k] >= Window
    BY <1>21, <2>1 DEF Cut
  <2>3. older[k] < Window
    BY <1>3, <1>71, <2>1 DEF Cut
  <2> QED
    BY <1>1, <1>3, <1>5, <2>1, <2>2, <2>3
<1>10. m = k + n
  <2>1. CASE m < k + n
    <3>1. m + 1 - k \in 1 .. n /\ m + 1 - k \in 1 .. Len(ages) - k
          /\ m + 1 \in m + 1 .. Len(ages)
      BY <1>5, <1>71, <1>81, <1>9, <2>1
    <3>2. aged[m + 1 - k] >= Window /\ aged[m + 1 - k] = older[m + 1] /\ older[m + 1] < Window
      BY <1>3, <1>5, <1>6, <1>71, <1>81, <3>1 DEF Cut
    <3>3. older[m + 1] \in Int
      BY <1>1, <1>3, <1>5, <3>1
    <3> QED
      BY <1>1, <3>2, <3>3
  <2>2. CASE m > k + n
    <3>1. n + 1 \in n + 1 .. Len(ages) - k /\ n + 1 \in 1 .. Len(ages) - k
          /\ n + 1 + k \in 1 .. m /\ n + 1 + k \in 1 .. Len(ages)
      BY <1>5, <1>71, <1>81, <1>9, <2>2
    <3>2. aged[n + 1] < Window /\ aged[n + 1] = older[n + 1 + k] /\ older[n + 1 + k] >= Window
      BY <1>3, <1>4, <1>6, <1>71, <1>81, <3>1 DEF Cut
    <3>3. older[n + 1 + k] \in Int
      BY <1>1, <1>3, <1>5, <3>1
    <3> QED
      BY <1>1, <3>2, <3>3
  <2> QED
    BY <1>5, <2>1, <2>2
<1>11. \A i \in 1 .. Len(ages) - m : Younger(aged, Window)[i] = Younger(older, Window)[i]
  <2> SUFFICES ASSUME NEW i \in 1 .. Len(ages) - m
               PROVE  Younger(aged, Window)[i] = Younger(older, Window)[i]
    OBVIOUS
  <2>1. i \in 1 .. Len(ages) - k - n /\ i + n \in 1 .. Len(ages) - k
        /\ (i + n) + k = i + m
    BY <1>5, <1>10
  <2>2. Younger(aged, Window)[i] = aged[i + n] /\ aged[i + n] = older[(i + n) + k]
    BY <1>6, <1>81, <2>1
  <2> QED
    BY <1>71, <2>1, <2>2
<1>12. Len(Younger(aged, Window)) = Len(Younger(older, Window))
  BY <1>5, <1>71, <1>81, <1>10
<1>13. Younger(aged, Window) = Younger(older, Window)
  BY <1>71, <1>81, <1>11, <1>12, SeqEqual
<1> QED
  BY <1>13 DEF Recent, Prior, aged, older

\* RedisRateLimiter: the first k requests of the window came before the key.
Before(k) ==
    /\ k <= Len(granted) /\ k <= Max
    /\ Len(granted) - k <= Max /\ Len(granted) - k <= count
    /\ ttl > 0 => \A i \in 1 .. k : granted[i] >= Window - ttl

\* LimiterTypeOK and LimiterInv, over the indices of the sequences.
LimiterOK ==
    /\ limiter \in {"memory", "redis"}
    /\ count \in Nat /\ ttl \in 0 .. Window
    /\ hits \in Seq(Ages) /\ Descending(hits)
    /\ granted \in Seq(Ages) /\ Descending(granted)
    /\ \A i \in 1 .. Len(granted) : granted[i] < Window
    /\ limiter = "memory" => granted = Prior(hits) /\ Len(granted) <= Max
    /\ limiter = "redis" => (count = 0 <=> ttl = 0) /\ \E k \in Nat : Before(k)

\* What is known of the limiters' variables.
LEMMA LimiterFacts ==
    ASSUME LimiterOK
    PROVE  /\ Window \in Nat \ {0} /\ Max \in Nat \ {0}
           /\ hits \in Seq(Ages) /\ Descending(hits)
           /\ granted \in Seq(Ages) /\ Descending(granted) /\ Len(granted) \in Nat
           /\ \A i \in 1 .. Len(granted) : granted[i] \in 0 .. Window - 1
           /\ count \in Nat /\ ttl \in 0 .. Window
           /\ limiter = "memory" \/ limiter = "redis"
           /\ limiter = "memory" => granted = Prior(hits) /\ Len(granted) <= Max
           /\ limiter = "redis" => (count = 0 <=> ttl = 0) /\ \E k \in Nat : Before(k)
<1>1. Window \in Nat \ {0} /\ Max \in Nat \ {0}
  BY LimitsAssumption
<1>2. granted \in Seq(Ages)
  BY DEF LimiterOK
<1>3. \A i \in 1 .. Len(granted) : granted[i] \in Ages
  BY <1>2
<1>4. \A i \in 1 .. Len(granted) : granted[i] \in 0 .. Window - 1
  BY <1>1, <1>3 DEF LimiterOK, Ages
<1> QED
  BY <1>1, <1>2, <1>4 DEF LimiterOK

\* A request is allowed or refused.
LEMMA ConsumeLimiter ==
    ASSUME LimiterOK, NEW c \in Calls, Consume(c)
    PROVE  LimiterOK'
<1> USE LimiterFacts
<1>1. limiter' = limiter /\ granted' = IF Allows THEN Append(granted, 0) ELSE granted
  BY DEF Consume
<1>2. /\ Append(granted, 0) \in Seq(Ages) /\ Len(Append(granted, 0)) = Len(granted) + 1
      /\ Descending(Append(granted, 0))
      /\ \A i \in 1 .. Len(granted) : Append(granted, 0)[i] = granted[i]
      /\ Append(granted, 0)[Len(granted) + 1] = 0
  BY AppendFresh
<1>8. Len(granted') = Len(granted) \/ (Len(granted') = Len(granted) + 1 /\ Allows)
  <2>1. CASE Allows
    <3>1. granted' = Append(granted, 0)
      BY <1>1, <2>1
    <3> QED
      BY ONLY <1>2, <2>1, <3>1
  <2>2. CASE ~Allows
    <3>1. granted' = granted
      BY <1>1, <2>2
    <3> QED
      BY ONLY <3>1
  <2> QED
    BY <2>1, <2>2
<1>3. \A i \in 1 .. Len(granted) + 1 : Append(granted, 0)[i] < Window
  BY <1>2
<1>4. /\ granted' \in Seq(Ages) /\ Descending(granted)' /\ Descending(granted')
      /\ \A i \in 1 .. Len(granted') : granted'[i] < Window
  BY <1>1, <1>2, <1>3 DEF Descending
<1>5. CASE limiter = "memory"
  <2>1. hits' = granted' /\ count' = count /\ ttl' = ttl
    BY <1>1, <1>5 DEF Consume
  <2>2. Younger(granted', Window) = granted'
    BY <1>4, YoungerAll
  <2>3. Len(granted') <= Max
    BY <1>1, <1>2, <1>5 DEF Allows
  <2>4. (granted = Prior(hits))'
    BY <2>1, <2>2 DEF Prior
  <2>5. Descending(hits)'
    BY <1>4, <2>1 DEF Descending
  <2> QED
    BY <1>1, <1>4, <1>5, <2>1, <2>3, <2>4, <2>5 DEF LimiterOK
<1>6. CASE limiter = "redis"
  <2>1. hits' = hits /\ count' = Increment /\ ttl' = Renew
    BY <1>6 DEF Consume
  <2>2. /\ count' \in Nat /\ count' >= count /\ count' # 0
        /\ ttl' \in 1 .. Window /\ (ttl # 0 => ttl' = ttl) /\ (ttl = 0 => ttl' = Window)
        /\ Allows => count < Max /\ count' = count + 1
    BY <1>6, <2>1 DEF Increment, Renew, Allows
  <2>3. PICK k \in Nat : Before(k)
    BY <1>6
  <2>4. \A i \in 1 .. k : granted'[i] = granted[i]
    <3>1. k <= Len(granted)
      BY <2>3 DEF Before
    <3> QED
      BY <1>1, <1>2, <3>1
  <2>5. (\E j \in Nat : Before(j))'
    <3>1. CASE ttl # 0
      <4>1. Before(k)'
        <5>2. /\ k <= Len(granted) /\ k <= Max
              /\ Len(granted) - k <= Max /\ Len(granted) - k <= count
              /\ \A i \in 1 .. k : granted[i] >= Window - ttl
          BY <2>2, <2>3, <3>1 DEF Before
        <5>3. k <= Len(granted') /\ Len(granted') - k <= Max /\ Len(granted') - k <= count'
          BY <1>8, <2>2, <5>2
        <5>4. \A i \in 1 .. k : granted'[i] >= Window - ttl'
          BY <2>2, <2>4, <3>1, <5>2
        <5> QED
          BY <5>2, <5>3, <5>4 DEF Before
      <4> QED
        BY <4>1
    <3>2. CASE ttl = 0
      <4>1. count = 0
        BY <1>6, <3>2
      <4>2. Len(granted) <= k
        BY <2>3, <4>1 DEF Before
      <4>3. k = Len(granted) /\ Len(granted) <= Max
        BY <2>3, <4>2 DEF Before
      <4>4. \A i \in 1 .. k : granted'[i] >= Window - ttl'
        BY <2>2, <2>4, <3>2, <4>3
      <4>5. Len(granted') - k <= Max /\ Len(granted') - k <= count' /\ k <= Len(granted')
        BY <1>1, <1>2, <2>2, <4>1, <4>3
      <4>6. Before(k)'
        BY <4>3, <4>4, <4>5 DEF Before
      <4> QED
        BY <4>6
    <3> QED
      BY <3>1, <3>2
  <2>8. Descending(hits)'
    BY <2>1 DEF Descending
  <2> QED
    BY <1>1, <1>4, <1>6, <2>1, <2>2, <2>5, <2>8 DEF LimiterOK
<1> QED
  BY <1>5, <1>6

\* The window moves on.
LEMMA TickLimiter ==
    ASSUME LimiterOK, Tick PROVE LimiterOK'
<1> USE LimiterFacts
<1> DEFINE older == Older(granted, Window)
<1>1. /\ limiter' = limiter /\ hits' = Older(hits, Window)
      /\ granted' = Recent(older)
      /\ ttl' = (IF ttl > 0 THEN ttl - 1 ELSE 0) /\ count' = (IF ttl = 1 THEN 0 ELSE count)
  BY DEF Tick
<1>2. Older(hits, Window) \in Seq(Ages) /\ Descending(Older(hits, Window))
  BY OlderProperties
<1>3. /\ older \in Seq(Ages) /\ Descending(older) /\ Len(older) = Len(granted)
      /\ \A i \in 1 .. Len(granted) : older[i] = granted[i] + 1
  BY OlderProperties
<1> HIDE DEF older
<1>4. PICK m \in 0 .. Len(older) : Drops(older, Window, m)
  <2>1. Window \in Int /\ older \in Seq(Ages) /\ Descending(older)
    BY <1>3
  <2> QED
    BY <2>1, YoungerProperties
<1>5. /\ granted' \in Seq(Ages) /\ Descending(granted') /\ Len(granted') = Len(granted) - m
      /\ \A i \in 1 .. Len(granted) - m : granted'[i] = older[i + m] /\ granted'[i] < Window
      /\ \A i \in 1 .. m : older[i] >= Window
      /\ \A i \in m + 1 .. Len(granted) : older[i] < Window
  BY <1>1, <1>3, <1>4 DEF Drops, Recent, Cut
<1>6. /\ hits' \in Seq(Ages) /\ Descending(hits)' /\ Descending(granted)'
      /\ ttl' \in 0 .. Window /\ count' \in Nat
      /\ \A i \in 1 .. Len(granted') : granted'[i] < Window
  BY <1>1, <1>2, <1>5 DEF Descending
<1>7. CASE limiter = "memory"
  <2>1. granted' = Prior(Older(hits, Window))
    BY <1>1, <1>7, AgeThenFilter DEF older
  <2>2. (granted = Prior(hits))'
    BY <1>1, <2>1 DEF Prior
  <2>3. Len(granted') <= Max
    BY <1>3, <1>4, <1>5, <1>7
  <2> QED
    BY <1>1, <1>5, <1>6, <1>7, <2>2, <2>3 DEF LimiterOK
<1>8. CASE limiter = "redis"
  <2>1. PICK k \in Nat : Before(k)
    BY <1>8
  <2>2. (count = 0 <=> ttl = 0)'
    BY <1>1, <1>8
  <2>3. m \in 0 .. Len(granted)
    BY <1>3, <1>4
  <2>4. CASE ttl > 1
    <3>1. PICK j \in 0 .. Len(granted) - m : (m <= k /\ j = k - m) \/ (m > k /\ j = 0)
      <4>1. k <= Len(granted)
        BY <2>1 DEF Before
      <4>2. CASE m <= k
        <5>1. k - m \in 0 .. Len(granted) - m
          BY <2>3, <4>1, <4>2
        <5> QED
          BY <4>2, <5>1
      <4>3. CASE m > k
        <5>1. 0 \in 0 .. Len(granted) - m
          BY <2>3
        <5> QED
          BY <4>3, <5>1
      <4> QED
        BY <2>3, <4>2, <4>3
    <3>2. \A i \in 1 .. j : granted'[i] >= Window - ttl'
      <4> SUFFICES ASSUME NEW i \in 1 .. j PROVE granted'[i] >= Window - ttl'
        OBVIOUS
      <4>1. i + m \in 1 .. k /\ i \in 1 .. Len(granted) - m /\ i + m \in 1 .. Len(granted)
        <5>1. k <= Len(granted) /\ m <= k /\ j = k - m
          BY <2>1, <3>1 DEF Before
        <5>2. i \in Nat /\ i >= 1 /\ i <= k - m /\ m \in Nat
          BY <2>3, <5>1
        <5>3. i + m \in 1 .. k
          BY <5>2
        <5>4. i \in 1 .. Len(granted) - m
          BY <5>1, <5>2
        <5>5. i + m \in 1 .. Len(granted)
          BY <5>1, <5>2
        <5> QED
          BY ONLY <5>3, <5>4, <5>5
      <4>2. granted'[i] = granted[i + m] + 1
        BY <1>3, <1>5, <4>1
      <4>3. granted[i + m] >= Window - ttl
        BY <2>1, <2>4, <4>1 DEF Before
      <4>4. granted[i + m] \in Int /\ ttl' = ttl - 1 /\ ttl \in Int /\ Window \in Int
        BY <1>1, <2>4, <4>1
      <4> PICK age \in Int : age = granted[i + m]
        BY <4>4
      <4>5. age + 1 >= Window - (ttl - 1)
        BY <4>3, <4>4
      <4> QED
        BY <4>2, <4>4, <4>5
    <3>3. Before(j)'
      <4>1. count' = count /\ ttl' > 0 /\ Len(granted') = Len(granted) - m
        BY <1>1, <1>5, <2>4
      <4>2. k <= Len(granted) /\ k <= Max /\ Len(granted) - k <= Max /\ Len(granted) - k <= count
        BY <2>1 DEF Before
      <4>3. /\ j <= Len(granted) - m /\ j <= Max
            /\ Len(granted) - m - j <= Max /\ Len(granted) - m - j <= count
        BY <2>3, <3>1, <4>2
      <4> QED
        BY <3>2, <4>1, <4>3 DEF Before
    <3>4. (\E n \in Nat : Before(n))'
      BY <3>3
    <3> QED
      BY <1>1, <1>5, <1>6, <1>8, <2>2, <3>4 DEF LimiterOK
  <2>5. CASE ttl <= 1
    <3>1. ttl' = 0 /\ count' = 0
      BY <1>1, <1>8, <2>5
    <3>2. Len(granted) - m <= Max
      <4>1. CASE ttl = 0
        BY <1>8, <2>1, <2>3, <4>1 DEF Before
      <4>2. CASE ttl = 1
        <5>1. m >= k
          <6> SUFFICES ASSUME m < k PROVE FALSE
            BY <2>1, <2>3
          <6>0. k <= Len(granted)
            BY <2>1 DEF Before
          <6>1. m + 1 \in m + 1 .. Len(granted) /\ m + 1 \in 1 .. k /\ m + 1 \in 1 .. Len(granted)
            BY <2>1, <2>3, <6>0
          <6>2. older[m + 1] < Window /\ older[m + 1] = granted[m + 1] + 1
                /\ granted[m + 1] >= Window - ttl
            BY <1>3, <1>5, <2>1, <4>2, <6>1 DEF Before
          <6> QED
            BY <4>2, <6>1, <6>2
        <5> QED
          BY <2>1, <2>3, <5>1 DEF Before
      <4> QED
        BY <2>5, <4>1, <4>2
    <3>3. PICK j \in 0 .. Len(granted) - m : j = Len(granted) - m
      BY <2>3
    <3>4. Before(j)'
      BY <1>5, <2>3, <3>1, <3>2, <3>3 DEF Before
    <3>5. (\E n \in Nat : Before(n))'
      BY <3>4
    <3> QED
      BY <1>1, <1>5, <1>6, <1>8, <2>2, <3>5 DEF LimiterOK
  <2> QED
    BY <2>4, <2>5
<1> QED
  BY <1>7, <1>8

\* The limiters keep LimiterInv; the circuit breaker leaves them alone.
THEOREM LimiterInvariant == Spec => []LimiterOK
<1>1. Init => LimiterOK
  <2> SUFFICES ASSUME Init PROVE LimiterOK
    OBVIOUS
  <2>1. /\ limiter = "memory" \/ limiter = "redis"
        /\ hits = <<>> /\ granted = <<>> /\ count = 0 /\ ttl = 0
        /\ Window \in Nat /\ Max \in Nat
    BY LimitsAssumption DEF Init
  <2>2. /\ hits \in Seq(Ages) /\ granted \in Seq(Ages) /\ Len(hits) = 0 /\ Len(granted) = 0
    BY <2>1
  <2>3. Descending(hits) /\ Descending(granted)
    BY <2>2 DEF Descending
  <2>4. Younger(hits, Window) = hits
    <3>1. Window \in Int /\ \A i \in 1 .. Len(hits) : hits[i] < Window
      BY <2>1, <2>2
    <3> QED
      BY <2>2, <3>1, YoungerAll
  <2>5. Before(0)
    BY <2>1, <2>2 DEF Before
  <2>6. \E k \in Nat : Before(k)
    BY <2>5
  <2>7. ttl \in 0 .. Window /\ count \in Nat /\ Len(granted) <= Max
        /\ \A i \in 1 .. Len(granted) : granted[i] < Window
    BY <2>1, <2>2
  <2> QED
    BY <2>1, <2>2, <2>3, <2>4, <2>6, <2>7 DEF Prior, LimiterOK
<1>2. LimiterOK /\ [Next]_vars => LimiterOK'
  <2> SUFFICES ASSUME LimiterOK, [Next]_vars PROVE LimiterOK'
    OBVIOUS
  <2>1. ASSUME NEW c \in Calls, Consume(c) PROVE LimiterOK'
    BY <2>1, ConsumeLimiter
  <2>2. CASE Tick
    BY <2>2, TickLimiter
  <2>3. CASE UNCHANGED limits
    BY <2>3 DEF limits, LimiterOK, Descending, Prior, Before
  <2>4. ASSUME NEW c \in Calls, SendCall(c) \/ RefuseCall(c) \/ Succeed(c) \/ FailCall(c)
        PROVE  UNCHANGED limits
    BY <2>4 DEF SendCall, RefuseCall, Succeed, FailCall
  <2>5. UNCHANGED vars => UNCHANGED limits
    BY DEF vars, limits
  <2> QED
    BY <2>1, <2>2, <2>3, <2>4, <2>5 DEF Next
<1> QED
  BY <1>1, <1>2, PTL DEF Spec

\* No window holds more requests than promised, twice as many of the fixed
\* windows in Redis.
THEOREM Rate == Spec => []RateBounded
<1>1. LimiterOK => RateBounded
  <2> SUFFICES ASSUME LimiterOK PROVE RateBounded
    OBVIOUS
  <2> USE LimiterFacts
  <2>1. CASE limiter = "memory"
    BY <2>1 DEF RateBounded
  <2>2. CASE limiter = "redis"
    <3>1. PICK k \in Nat : Before(k)
      BY <2>2
    <3> QED
      BY <2>2, <3>1 DEF RateBounded, Before
  <2> QED
    BY <2>1, <2>2
<1> QED
  BY <1>1, LimiterInvariant, PTL

\* Who waits as long as Retry-After says is allowed.
THEOREM RetryAfter == Spec => []RetryAfterHonest
<1>1. LimiterOK => RetryAfterHonest
  <2> SUFFICES ASSUME LimiterOK, ~Allows PROVE RetryAfterHonest
    BY DEF RetryAfterHonest
  <2> USE LimiterFacts
  <2>1. CASE limiter = "memory"
    <3>1. granted = Prior(hits) /\ ~(Len(granted) < Max) /\ Len(granted) <= Max
      BY <2>1 DEF Allows
    <3>2. 1 \in 1 .. Len(granted) /\ granted[1] \in 0 .. Window - 1 /\ Head(granted) = granted[1]
      BY <3>1
    <3>3. ResetIn = Window - granted[1]
      BY <2>1, <3>1, <3>2 DEF ResetIn
    <3>4. PICK k \in 0 .. Len(hits) : Drops(hits, Window, k)
      BY YoungerProperties
    <3>5. Len(granted) = Len(hits) - k /\ granted[1] = hits[1 + k] /\ Len(hits) \in Nat
          /\ DOMAIN hits = 1 .. Len(hits) /\ 1 + k \in 1 .. Len(hits)
      BY <3>1, <3>2, <3>4 DEF Drops, Prior
    <3>6. PICK m \in 0 .. Len(hits) : Drops(hits, Window - ResetIn, m)
      <4>1. Window - ResetIn \in Int
        BY <3>2, <3>3
      <4> QED
        BY <4>1, YoungerProperties
    <3>7. m >= 1 + k
      <4> SUFFICES ASSUME m < 1 + k PROVE FALSE
        BY <3>4, <3>6
      <4>1. 1 + k \in m + 1 .. Len(hits)
        BY <3>4, <3>5, <3>6
      <4>2. hits[1 + k] < Window - ResetIn
        BY <3>6, <4>1 DEF Drops, Cut
      <4> QED
        BY <3>2, <3>3, <3>5, <4>2
    <3>8. Len(Younger(hits, Window - ResetIn)) < Max
      <4>1. Len(Younger(hits, Window - ResetIn)) = Len(hits) - m
        BY <3>6 DEF Drops
      <4>2. Len(hits) - k <= Max /\ k \in Nat /\ m \in Nat
        BY <3>1, <3>4, <3>5, <3>6
      <4> QED
        BY <3>5, <3>7, <4>1, <4>2
    <3>9. ResetIn \in 1 .. Window
      BY <3>2, <3>3
    <3> QED
      BY ONLY <3>8, <3>9 DEF RetryAfterHonest
  <2>2. CASE limiter = "redis"
    <3>1. ResetIn = ttl /\ count # 0
      BY <2>2 DEF Allows, ResetIn
    <3> QED
      BY <2>2, <3>1 DEF RetryAfterHonest
  <2> QED
    BY <2>1, <2>2
<1> QED
  BY <1>1, LimiterInvariant, PTL

\* The index form of the limiters' invariant is the one stated in Limits.
LEMMA LimiterOKImplies == LimiterOK => LimiterTypeOK /\ LimiterInv
<1> SUFFICES ASSUME LimiterOK PROVE LimiterTypeOK /\ LimiterInv
  OBVIOUS
<1> USE LimiterFacts
<1>1. LimiterTypeOK
  BY DEF LimiterTypeOK, LimiterOK, Ages
<1>2. DOMAIN granted = 1 .. Len(granted)
  OBVIOUS
<1>3. ASSUME limiter = "redis"
      PROVE  \E before \in 0 .. Len(granted) :
               /\ before <= Max
               /\ Len(granted) - before <= Max /\ Len(granted) - before <= count
               /\ ttl > 0 => \A i \in 1 .. before : granted[i] >= Window - ttl
  <2>1. PICK k \in Nat : Before(k)
    BY <1>3
  <2>2. k \in 0 .. Len(granted)
    BY <2>1 DEF Before
  <2> QED
    BY <2>1, <2>2 DEF Before
<1>4. LimiterInv
  BY <1>2, <1>3 DEF LimiterInv, LimiterOK
<1> QED
  BY <1>1, <1>4

\* The whole of what the limiters and the circuit breaker keep true.
THEOREM Invariant == Spec => []Inv
<1>1. LimiterOK /\ CircuitOK => Inv
  BY LimiterOKImplies DEF CircuitOK, Inv
<1> QED
  BY <1>1, LimiterInvariant, CircuitInvariant, PTL
=============================================================================
