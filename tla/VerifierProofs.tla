--------------------------- MODULE VerifierProofs ---------------------------
(***************************************************************************)
(* Proofs about module Verifier, for every number of dependencies,         *)
(* handoffs, workers, subjects and results, every backend, every set of    *)
(* endpoints, every lifetime and lease, and every bound.                   *)
(***************************************************************************)
EXTENDS VerifierInv, TLAPS

-----------------------------------------------------------------------------
(* What the building blocks of the actions write *)

\* A worker without a request is well typed.
LEMMA IdleType == Idle \in Task
BY DEF Idle, Task, Steps, PollSteps, SatisfySteps, ReadSteps

\* The two fields that every write of a document sets.
Written(next, v, k) == [next EXCEPT !.version = v, !.keyTtl = k]

LEMMA RecordWrite ==
    ASSUME NEW next \in Record, NEW v \in Nat, NEW k \in Nat
    PROVE  /\ Written(next, v, k) \in Record
           /\ Written(next, v, k).version = v
           /\ Written(next, v, k).status = next.status
           /\ Written(next, v, k).dep = next.dep
           /\ Written(next, v, k).completion = next.completion
BY DEF Record, Written

\* A compare-and-swap replaces one document by the next version of it.
LEMMA SwapEffect ==
    ASSUME TypeOK, NEW h \in Handoffs, NEW next \in Record, Swap(h, next)
    PROVE  /\ record' \in [Handoffs -> Record]
           /\ active' \in [Deps -> Handoffs \union {None}]
           /\ record'[h].version = record[h].version + 1
           /\ record'[h].status = next.status
           /\ record'[h].dep = next.dep
           /\ record'[h].completion = next.completion
           /\ \A g \in Handoffs \ {h} : record'[g] = record[g]
<1>1. record[h].version + 1 \in Nat /\ now \in Nat /\ next.expiresAt \in Nat
  BY DEF TypeOK, Record
<1>2. KeyTtl(next.expiresAt) \in Nat
  BY <1>1, VerifierAssumption DEF KeyTtl, Greatest
<1> DEFINE v == record[h].version + 1
           k == KeyTtl(next.expiresAt)
<1>3. v \in Nat /\ k \in Nat
  BY <1>1, <1>2
<1> DEFINE written == Written(next, v, k)
<1>4. record' = [record EXCEPT ![h] = written]
  BY DEF Swap, Written
<1>5. active' \in [Deps -> Handoffs \union {None}]
  BY DEF Swap, TypeOK, Released
<1>6. v = record[h].version + 1
  OBVIOUS
<1> HIDE DEF v, k
<1>7. /\ written \in Record
      /\ written.version = v
      /\ written.status = next.status
      /\ written.dep = next.dep
      /\ written.completion = next.completion
  BY <1>3, RecordWrite
<1> HIDE DEF written
<1>8. record \in [Handoffs -> Record]
  BY DEF TypeOK
<1>9. record' \in [Handoffs -> Record] /\ record'[h] = written
  BY <1>4, <1>7, <1>8
<1>10. \A g \in Handoffs \ {h} : record'[g] = record[g]
  BY <1>4, <1>8
<1> QED BY <1>5, <1>6, <1>7, <1>9, <1>10

\* Moving a worker on leaves what it holds and all other workers alone.
LEMMA GotoEffect ==
    ASSUME TypeOK, NEW w \in Workers, NEW step \in Steps, Goto(w, step)
    PROVE  /\ task' \in [Workers -> Task]
           /\ task'[w].pc = step
           /\ task'[w].op = task[w].op
           /\ task'[w].dep = task[w].dep
           /\ task'[w].handoff = task[w].handoff
           /\ task'[w].version = task[w].version
           /\ task'[w].subject = task[w].subject
           /\ task'[w].result = task[w].result
           /\ \A v \in Workers \ {w} : task'[v] = task[v]
<1>1. task[w] \in Task
  BY DEF TypeOK
<1>2. [task[w] EXCEPT !.pc = step] \in Task
  BY <1>1 DEF Task
<1> QED BY <1>1, <1>2 DEF Goto, TypeOK, Task

\* A worker that answers holds nothing any more.
LEMMA ReplyEffect ==
    ASSUME TypeOK, NEW w \in Workers, Reply(w)
    PROVE  /\ task' \in [Workers -> Task]
           /\ task'[w] = Idle
           /\ \A v \in Workers \ {w} : task'[v] = task[v]
BY IdleType DEF TypeOK, Reply

\* A worker that won a swap holds the new version.
WinsAt(w, step, v) == task' = [task EXCEPT ![w].pc = step, ![w].version = v]

LEMMA TaskWrite ==
    ASSUME TypeOK, NEW w \in Workers, NEW step \in Steps, NEW v \in Nat, WinsAt(w, step, v)
    PROVE  /\ task' \in [Workers -> Task]
           /\ task'[w].pc = step
           /\ task'[w].op = task[w].op
           /\ task'[w].dep = task[w].dep
           /\ task'[w].handoff = task[w].handoff
           /\ task'[w].version = v
           /\ \A u \in Workers \ {w} : task'[u] = task[u]
<1>1. task[w] \in Task
  BY DEF TypeOK
<1>2. [task[w] EXCEPT !.pc = step] \in Task
  BY <1>1 DEF Task
<1> DEFINE t == [[task[w] EXCEPT !.pc = step] EXCEPT !.version = v]
<1>3. /\ t \in Task /\ t.pc = step /\ t.version = v
      /\ t.op = task[w].op /\ t.dep = task[w].dep /\ t.handoff = task[w].handoff
  BY <1>1, <1>2 DEF Task
<1> HIDE DEF t
<1>4. task' = [task EXCEPT ![w] = t]
  BY DEF t, TypeOK, WinsAt
<1> QED BY <1>3, <1>4 DEF TypeOK

\* The two outcomes of update().
LEMMA UpdateEffect ==
    ASSUME TypeOK, NEW w \in Workers, task[w].handoff \in Handoffs,
           NEW next \in Record, NEW won \in Steps, NEW lost \in Steps,
           Update(w, next, won, lost)
    PROVE  /\ TypeOK'
           /\ UNCHANGED <<now, requirement, nonce, usedSubjects, result>>
           /\ \A v \in Workers \ {w} : task'[v] = task[v]
           /\ task'[w] # Idle =>
                /\ task'[w].op = task[w].op
                /\ task'[w].dep = task[w].dep
                /\ task'[w].handoff = task[w].handoff
           /\ \/ /\ Matches(task[w].handoff, task[w].version)
                 /\ Swap(task[w].handoff, next)
                 /\ IF won = "idle" THEN task'[w] = Idle
                    ELSE task'[w].pc = won /\ task'[w].version = task[w].version + 1
              \/ /\ ~Matches(task[w].handoff, task[w].version)
                 /\ UNCHANGED <<record, active>>
                 /\ IF lost = "idle" THEN task'[w] = Idle
                    ELSE task'[w].pc = lost /\ task'[w].version = task[w].version
<1>0. UNCHANGED <<now, requirement, nonce, usedSubjects, result>>
  BY DEF Update
<1>1. CASE Matches(task[w].handoff, task[w].version)
  <2>1. Swap(task[w].handoff, next)
    BY <1>1 DEF Update
  <2>2. /\ record' \in [Handoffs -> Record]
        /\ active' \in [Deps -> Handoffs \union {None}]
    BY <2>1, SwapEffect
  <2>3. task[w].version + 1 \in Nat
    BY DEF TypeOK, Task
  <2>4. CASE won = "idle"
    <3>1. Reply(w)
      BY <1>1, <2>4 DEF Update
    <3> QED BY <1>0, <1>1, <2>1, <2>2, <2>4, <3>1, ReplyEffect DEF TypeOK
  <2>5. CASE won # "idle"
    <3>1. task' = [task EXCEPT ![w].pc = won, ![w].version = task[w].version + 1]
      BY <1>1, <2>5 DEF Update
    <3>2. /\ task' \in [Workers -> Task]
          /\ task'[w].pc = won /\ task'[w].version = task[w].version + 1
          /\ task'[w].op = task[w].op /\ task'[w].dep = task[w].dep
          /\ task'[w].handoff = task[w].handoff
          /\ \A u \in Workers \ {w} : task'[u] = task[u]
      <4> PICK v \in Nat : v = task[w].version + 1
        BY <2>3
      <4>1. WinsAt(w, won, v)
        BY <3>1 DEF WinsAt
      <4> QED BY <4>1, TaskWrite
    <3>3. TypeOK'
      BY <1>0, <2>2, <3>2 DEF TypeOK
    <3> QED BY <1>0, <1>1, <2>1, <2>5, <3>2, <3>3
  <2> QED BY <2>4, <2>5
<1>2. CASE ~Matches(task[w].handoff, task[w].version)
  <2>1. UNCHANGED <<record, active>>
    BY <1>2 DEF Update
  <2>2. IF lost = "idle" THEN Reply(w) ELSE Goto(w, lost)
    BY <1>2 DEF Update
  <2> QED BY <1>0, <1>2, <2>1, <2>2, GotoEffect, ReplyEffect DEF TypeOK
<1> QED BY <1>1, <1>2

\* What reading a record does: answer, go on with a snapshot, or expire it.
LEMMA GetAuthorizedEffect ==
    ASSUME TypeOK, NEW w \in Workers, NEW op \in {"poll", "cancel"},
           NEW h \in Handoffs, GetAuthorized(w, op, h),
           UNCHANGED <<now, requirement, nonce, usedSubjects, result>>
    PROVE  /\ TypeOK'
           /\ \A v \in Workers \ {w} : task'[v] = task[v]
           /\ \/ UNCHANGED <<record, active>> /\ task'[w] = Idle
              \/ /\ record[h].status \in Live
                 /\ Swap(h, [record[h] EXCEPT !.status = "expired"])
                 /\ task'[w] = Idle
              \/ /\ UNCHANGED <<record, active>>
                 /\ record[h].status \in Live
                 /\ task'[w].op = op
                 /\ task'[w].dep = record[h].dep
                 /\ task'[w].handoff = h
                 /\ task'[w].version = record[h].version
                 /\ \/ op = "cancel" /\ task'[w].pc \in {"cancel", "expire"}
                    \/ op = "poll" /\ task'[w].pc \in {"claim", "reclaim", "expire"}
<1> DEFINE go(step) == [Idle EXCEPT !.pc = step, !.op = op, !.dep = record[h].dep,
                                    !.handoff = h, !.version = record[h].version]
           Went(step) == /\ task' \in [Workers -> Task]
                         /\ \A v \in Workers \ {w} : task'[v] = task[v]
                         /\ task'[w].pc = step
                         /\ task'[w].op = op
                         /\ task'[w].dep = record[h].dep
                         /\ task'[w].handoff = h
                         /\ task'[w].version = record[h].version
<1>1. ASSUME NEW step \in {"cancel", "claim", "reclaim", "expire"},
             task' = [task EXCEPT ![w] = go(step)]
      PROVE  Went(step)
  <2>1. step \in Steps
    BY DEF Steps, PollSteps, ReadSteps
  <2>2. /\ go(step) \in Task
        /\ go(step).pc = step
        /\ go(step).op = op
        /\ go(step).dep = record[h].dep
        /\ go(step).handoff = h
        /\ go(step).version = record[h].version
    BY <2>1 DEF TypeOK, Record, Idle, Task
  <2> HIDE DEF go
  <2> QED BY <1>1, <2>2 DEF TypeOK
<1>2. CASE /\ record[h].status \in Live
           /\ Proceed(w, op, h)
           /\ UNCHANGED <<record, active>>
  <2>1. CASE op = "cancel" /\ task' = [task EXCEPT ![w] = go("cancel")]
    BY <1>1, <1>2, <2>1 DEF TypeOK
  <2>2. CASE op = "poll" /\ task' = [task EXCEPT ![w] = go("claim")]
    BY <1>1, <1>2, <2>2 DEF TypeOK
  <2>3. CASE op = "poll" /\ task' = [task EXCEPT ![w] = go("reclaim")]
    BY <1>1, <1>2, <2>3 DEF TypeOK
  <2>4. CASE Reply(w)
    BY <1>2, <2>4, ReplyEffect DEF TypeOK
  <2> QED BY <1>2, <2>1, <2>2, <2>3, <2>4 DEF Proceed
<1>3. CASE /\ record[h].status \in Live
           /\ Swap(h, [record[h] EXCEPT !.status = "expired"])
           /\ Reply(w)
  <2>1. [record[h] EXCEPT !.status = "expired"] \in Record
    BY DEF TypeOK, Record, Status, Terminal
  <2> QED BY <1>3, <2>1, SwapEffect, ReplyEffect DEF TypeOK
<1>4. CASE /\ record[h].status \in Live
           /\ task' = [task EXCEPT ![w] = go("expire")]
           /\ UNCHANGED <<record, active>>
  BY <1>1, <1>4 DEF TypeOK
<1>5. CASE /\ Reply(w)
           /\ UNCHANGED <<record, active>>
  BY <1>5, ReplyEffect DEF TypeOK
<1> QED BY <1>2, <1>3, <1>4, <1>5 DEF GetAuthorized

-----------------------------------------------------------------------------
(* HandlerInv: where the handlers are and what they hold *)

\* A step that leaves the documents alone, and of the worker keeps what it holds.
LEMMA LocalStep ==
    ASSUME HandlerInv, TypeOK', NEW w \in Workers, UNCHANGED record,
           \A v \in Workers \ {w} : task'[v] = task[v],
           \/ task'[w] = Idle
           \/ /\ task[w].pc # "reread" /\ task'[w].pc # "create"
              /\ StepOfOp(task'[w])
              /\ task'[w].op = task[w].op
              /\ task'[w].dep = task[w].dep
              /\ task'[w].handoff = task[w].handoff
              /\ task'[w].version = task[w].version
    PROVE  HandlerInv'
<1> USE DEF HandlerInv
<1>1. RecordInv'
  BY DEF RecordInv
<1>2. Idle.pc = "idle" /\ Idle.op = "none" /\ Idle.handoff = None
  BY DEF Idle
<1>3. StepOfOp(Idle)
  BY <1>2 DEF StepOfOp, SatisfySteps, PollSteps, ReadSteps
<1>4. OpInv'
  BY <1>3 DEF OpInv
<1>5. StartInv'
  BY <1>2, VerifierAssumption DEF StartInv
<1>6. SnapshotInv'
  BY <1>2 DEF SnapshotInv
<1> QED BY <1>1, <1>4, <1>5, <1>6

\* What the handlers' calls of update() have in common: the next document is of
\* the same dependency, and only a poll that still holds it goes on from it.
HandlerUpdate(w, next, won, lost) ==
    /\ task[w].pc \notin {"idle", "reread"}
    /\ task[w].op \in {"poll", "cancel"}
    /\ task[w].handoff \in Handoffs
    /\ next \in Record
    /\ next.dep = record[task[w].handoff].dep
    /\ next.status \in Live \union Terminal
    /\ won \in {"idle", "claim", "provider"}
    /\ lost \in {"idle", "reread", "fail"}
    /\ won # "idle" => next.status \in Live /\ task[w].op = "poll"
    /\ lost = "fail" => task[w].op = "poll" /\ task[w].pc = "complete"
    /\ IF next.status = "completed"
       THEN task[w].pc = "complete" /\ next.completion = task[w].result
       ELSE next.completion = record[task[w].handoff].completion
    /\ Update(w, next, won, lost)

\* Each handler that calls update() is such a call.
LEMMA SwapActions ==
    ASSUME HandlerInv, NEW w \in Workers,
           \/ Expire(w) \/ Reclaim(w) \/ Claim(w) \/ Release(w)
           \/ FailClaimed(w) \/ Complete(w) \/ Cancel(w)
    PROVE  \E next \in Record, won \in {"idle", "claim", "provider"},
              lost \in {"idle", "reread", "fail"} : HandlerUpdate(w, next, won, lost)
<1> DEFINE old == Current(w)
<1>1. /\ task[w].pc \notin {"idle", "reread"}
      /\ task[w].op \in {"poll", "cancel"}
      /\ ~Expire(w) /\ ~Cancel(w) => task[w].op = "poll"
      /\ Complete(w) => task[w].pc = "complete"
  BY DEF HandlerInv, OpInv, StepOfOp, PollSteps, ReadSteps, Expire, Reclaim, Claim,
         Release, FailClaimed, Complete, Cancel
<1>2. task[w].handoff \in Handoffs
  BY <1>1 DEF HandlerInv, SnapshotInv
<1>3. old \in Record /\ now \in Nat /\ task[w].result \in ResultIds \union {None}
  BY <1>2 DEF HandlerInv, TypeOK, Current, Task
<1>4. old = record[task[w].handoff]
  BY DEF Current
<1>5. old.expiresAt \in Nat
  BY <1>3 DEF Record
<1>6. LeaseEnd(old.expiresAt) \in Nat
  BY <1>3, <1>5, VerifierAssumption DEF LeaseEnd, Least
<1> HIDE DEF old
<1>7. ASSUME NEW status \in (Live \union Terminal) \ {"completed"}, NEW next,
             NEW won \in {"idle", "claim", "provider"},
             NEW lost \in {"idle", "reread"},
             won # "idle" => status \in Live /\ task[w].op = "poll",
             \/ next = [old EXCEPT !.status = status]
             \/ \E until \in Nat :
                    next = [old EXCEPT !.status = status, !.claimUntil = until],
             Update(w, next, won, lost)
      PROVE  HandlerUpdate(w, next, won, lost) /\ next \in Record
  <2>1. /\ next \in Record
        /\ next.status = status
        /\ next.dep = old.dep
        /\ next.completion = old.completion
    BY <1>3, <1>7 DEF Record, Status
  <2> QED BY <1>1, <1>2, <1>4, <1>7, <2>1 DEF HandlerUpdate
<1>8. /\ {"pending", "polling"} \subseteq Live \ {"completed"}
      /\ {"expired", "failed", "cancelled"} \subseteq Terminal \ {"completed"}
  BY DEF Live, Terminal
<1>9. CASE Expire(w)
  <2>1. Update(w, [old EXCEPT !.status = "expired"], "idle", "reread")
    BY <1>9 DEF Expire, old
  <2> QED BY <1>7, <1>8, <2>1
<1>10. CASE Reclaim(w)
  <2>1. Update(w, [old EXCEPT !.status = "pending", !.claimUntil = 0], "claim", "idle")
    BY <1>10 DEF Reclaim, old
  <2>2. task[w].op = "poll"
    BY <1>10 DEF HandlerInv, OpInv, StepOfOp, PollSteps, Reclaim
  <2> QED BY <1>7, <1>8, <2>1, <2>2, 0 \in Nat
<1>11. CASE Claim(w)
  <2> DEFINE until == LeaseEnd(old.expiresAt)
  <2>1. Update(w, [old EXCEPT !.status = "polling", !.claimUntil = until],
               "provider", "idle")
    BY <1>11 DEF Claim, old
  <2>2. task[w].op = "poll"
    BY <1>11 DEF HandlerInv, OpInv, StepOfOp, PollSteps, Claim
  <2>3. until \in Nat
    BY <1>6
  <2> HIDE DEF until
  <2> QED BY <1>7, <1>8, <2>1, <2>2, <2>3
<1>12. CASE Release(w)
  <2>1. Update(w, [old EXCEPT !.status = "pending", !.claimUntil = 0], "idle", "idle")
    BY <1>12 DEF Release, old
  <2> QED BY <1>7, <1>8, <2>1, 0 \in Nat
<1>13. CASE FailClaimed(w)
  <2>1. Update(w, [old EXCEPT !.status = "failed"], "idle", "idle")
    BY <1>13 DEF FailClaimed, old
  <2> QED BY <1>7, <1>8, <2>1
<1>14. CASE Cancel(w)
  <2>1. Update(w, [old EXCEPT !.status = "cancelled"], "idle", "idle")
    BY <1>14 DEF Cancel, old
  <2> QED BY <1>7, <1>8, <2>1
<1>15. CASE Complete(w)
  <2> DEFINE next == [old EXCEPT !.status = "completed", !.completion = task[w].result]
  <2>1. Update(w, next, "idle", "fail")
    BY <1>15 DEF Complete, old
  <2>2. /\ next \in Record
        /\ next.status = "completed"
        /\ next.dep = old.dep
        /\ next.completion = task[w].result
    BY <1>3 DEF Record, Status, Terminal
  <2>3. task[w].pc = "complete" /\ task[w].op = "poll"
    BY <1>15 DEF HandlerInv, OpInv, StepOfOp, Complete
  <2> HIDE DEF next
  <2>4. HandlerUpdate(w, next, "idle", "fail")
    BY <1>1, <1>2, <1>4, <2>1, <2>2, <2>3 DEF HandlerUpdate, Terminal
  <2> QED BY <2>2, <2>4
<1> QED BY <1>9, <1>10, <1>11, <1>12, <1>13, <1>14, <1>15

\* A compare-and-swap of a poll or cancel: whoever held the version that it
\* replaces holds an old one from now on.
LEMMA UpdateHandlers ==
    ASSUME HandlerInv, NEW w \in Workers, NEW next \in Record,
           NEW won \in {"idle", "claim", "provider"},
           NEW lost \in {"idle", "reread", "fail"}, HandlerUpdate(w, next, won, lost)
    PROVE  HandlerInv'
<1> USE DEF HandlerInv, HandlerUpdate
<1> DEFINE h == task[w].handoff
<1>1. h \in Handoffs /\ record[h].status # "none" /\ record[h].dep = task[w].dep
  BY DEF SnapshotInv
<1>2. won \in Steps /\ lost \in Steps
  BY DEF Steps, PollSteps, ReadSteps
<1>3. /\ TypeOK'
      /\ \A v \in Workers \ {w} : task'[v] = task[v]
      /\ task'[w] # Idle => /\ task'[w].op = task[w].op
                            /\ task'[w].dep = task[w].dep
                            /\ task'[w].handoff = h
  BY <1>1, <1>2, UpdateEffect
<1>4. /\ Idle.pc = "idle" /\ Idle.op = "none" /\ Idle.handoff = None
      /\ StepOfOp(Idle)
  BY DEF Idle, StepOfOp, SatisfySteps, PollSteps, ReadSteps
<1>5. task[w].dep \in Deps /\ task[w].op # "verify"
  BY DEF OpInv, StepOfOp
<1>6. CASE /\ Matches(h, task[w].version)
           /\ Swap(h, next)
           /\ IF won = "idle" THEN task'[w] = Idle
              ELSE task'[w].pc = won /\ task'[w].version = task[w].version + 1
  <2>1. /\ record'[h].version = record[h].version + 1
        /\ record'[h].status = next.status
        /\ record'[h].dep = record[h].dep
        /\ \A g \in Handoffs \ {h} : record'[g] = record[g]
    BY <1>1, <1>6, SwapEffect
  <2>2. RecordInv'
    BY <1>1, <2>1 DEF RecordInv, Live, Terminal
  <2>3. StepOfOp(task'[w])
    BY <1>3, <1>4, <1>5, <1>6 DEF StepOfOp, SatisfySteps, PollSteps, ReadSteps
  <2>4. OpInv'
    BY <1>3, <2>3 DEF OpInv
  <2>5. StartInv'
    BY <1>1, <1>3, <1>4, <1>6, <2>1, VerifierAssumption DEF StartInv
  <2>6. next.status # "none"
    BY DEF Live, Terminal
  <2>7. ASSUME NEW v \in Workers, task'[v].op \in {"poll", "cancel"}
        PROVE  /\ task'[v].handoff \in Handoffs
               /\ record'[task'[v].handoff].status # "none"
               /\ record'[task'[v].handoff].dep = task'[v].dep
               /\ task'[v].version <= record'[task'[v].handoff].version
               /\ task'[v].pc # "reread" /\ task'[v].version = record'[task'[v].handoff].version
                    => record'[task'[v].handoff].status \in Live \union {"gone"}
    <3>1. CASE v = w
      <4>1. won # "idle"
        BY <1>4, <1>6, <2>7, <3>1
      <4>2. task'[w] # Idle
        BY <1>4, <2>7, <3>1
      <4>3. task[w].version = record[h].version
        BY <1>6 DEF Matches
      <4>4. record[h].version + 1 <= record[h].version + 1
        BY <1>1 DEF TypeOK, Record
      <4> QED BY <1>1, <1>3, <1>6, <2>1, <2>6, <3>1, <4>1, <4>2, <4>3, <4>4
    <3>2. CASE v # w
      <4>1. /\ task'[v] = task[v]
            /\ task[v].handoff \in Handoffs
            /\ record[task[v].handoff].status # "none"
            /\ record[task[v].handoff].dep = task[v].dep
            /\ task[v].version <= record[task[v].handoff].version
            /\ task[v].pc # "reread" /\ task[v].version = record[task[v].handoff].version
                    => record[task[v].handoff].status \in Live \union {"gone"}
        BY <1>3, <2>7, <3>2 DEF SnapshotInv
      <4>2. task[v].version \in Nat /\ record[h].version \in Nat
        BY <1>1 DEF TypeOK, Task, Record
      <4>3. CASE task[v].handoff = h
        BY <2>1, <2>6, <4>1, <4>2, <4>3
      <4>4. CASE task[v].handoff # h
        BY <2>1, <4>1, <4>4
      <4> QED BY <4>3, <4>4
    <3> QED BY <3>1, <3>2
  <2>8. SnapshotInv'
    BY <2>7 DEF SnapshotInv
  <2> QED BY <1>3, <2>2, <2>4, <2>5, <2>8
<1>7. CASE /\ ~Matches(h, task[w].version)
           /\ UNCHANGED <<record, active>>
           /\ IF lost = "idle" THEN task'[w] = Idle
              ELSE task'[w].pc = lost /\ task'[w].version = task[w].version
  <2>1. StepOfOp(task'[w])
    BY <1>3, <1>4, <1>5, <1>7 DEF StepOfOp, SatisfySteps, PollSteps, ReadSteps
  <2>2. RecordInv' /\ OpInv'
    BY <1>3, <1>7, <2>1 DEF RecordInv, OpInv
  <2>3. StartInv'
    BY <1>1, <1>3, <1>4, <1>7, VerifierAssumption DEF StartInv
  <2>4. SnapshotInv'
    BY <1>1, <1>3, <1>4, <1>7 DEF SnapshotInv, Matches
  <2> QED BY <1>3, <2>2, <2>3, <2>4
<1> QED BY <1>1, <1>2, <1>6, <1>7, UpdateEffect

\* Reading a document takes a snapshot of it, or expires it.
LEMMA GetAuthorizedHandlers ==
    ASSUME HandlerInv, NEW w \in Workers, NEW op \in {"poll", "cancel"},
           NEW h \in Handoffs, record[h].status # "none", GetAuthorized(w, op, h),
           UNCHANGED <<now, requirement, nonce, usedSubjects, result>>
    PROVE  HandlerInv'
<1> USE DEF HandlerInv
<1>1. /\ TypeOK'
      /\ \A v \in Workers \ {w} : task'[v] = task[v]
  BY GetAuthorizedEffect
<1>2. /\ Idle.pc = "idle" /\ Idle.op = "none" /\ Idle.handoff = None
      /\ StepOfOp(Idle)
  BY DEF Idle, StepOfOp, SatisfySteps, PollSteps, ReadSteps
<1>3. CASE UNCHANGED <<record, active>> /\ task'[w] = Idle
  BY <1>1, <1>3, LocalStep
<1>4. CASE /\ record[h].status \in Live
           /\ Swap(h, [record[h] EXCEPT !.status = "expired"])
           /\ task'[w] = Idle
  <2>1. /\ [record[h] EXCEPT !.status = "expired"] \in Record
        /\ [record[h] EXCEPT !.status = "expired"].dep = record[h].dep
        /\ [record[h] EXCEPT !.status = "expired"].status = "expired"
    BY DEF TypeOK, Record, Status, Terminal
  <2>2. /\ record'[h].version = record[h].version + 1
        /\ record'[h].status = "expired"
        /\ record'[h].dep = record[h].dep
        /\ \A g \in Handoffs \ {h} : record'[g] = record[g]
    BY <1>4, <2>1, SwapEffect
  <2>3. RecordInv' /\ OpInv'
    BY <1>1, <1>2, <1>4, <2>2 DEF RecordInv, OpInv
  <2>4. StartInv'
    BY <1>1, <1>2, <1>4, <2>2, VerifierAssumption DEF StartInv
  <2>5. record[h].version \in Nat /\ \A v \in Workers : task[v].version \in Nat
    BY DEF TypeOK, Task, Record
  <2>6. SnapshotInv'
    <3>1. SUFFICES ASSUME NEW v \in Workers \ {w}, task[v].op \in {"poll", "cancel"}
                   PROVE  LET g == task[v].handoff IN
                          /\ g \in Handoffs
                          /\ record'[g].status # "none"
                          /\ record'[g].dep = task[v].dep
                          /\ task[v].version <= record'[g].version
                          /\ task[v].pc # "reread" /\ task[v].version = record'[g].version
                                => record'[g].status \in Live \union {"gone"}
      BY <1>1, <1>2, <1>4 DEF SnapshotInv
    <3>2. CASE task[v].handoff = h
      BY <2>2, <2>5, <3>1, <3>2 DEF SnapshotInv
    <3>3. CASE task[v].handoff # h
      BY <2>2, <3>1, <3>3 DEF SnapshotInv
    <3> QED BY <3>2, <3>3
  <2> QED BY <1>1, <2>3, <2>4, <2>6
<1>5. CASE /\ UNCHANGED <<record, active>>
           /\ record[h].status \in Live
           /\ task'[w].op = op
           /\ task'[w].dep = record[h].dep
           /\ task'[w].handoff = h
           /\ task'[w].version = record[h].version
           /\ \/ op = "cancel" /\ task'[w].pc \in {"cancel", "expire"}
              \/ op = "poll" /\ task'[w].pc \in {"claim", "reclaim", "expire"}
  <2>1. record[h].dep \in Deps
    BY DEF RecordInv
  <2>2. StepOfOp(task'[w])
    BY <1>5, <2>1 DEF StepOfOp, SatisfySteps, PollSteps, ReadSteps
  <2>3. RecordInv' /\ OpInv'
    BY <1>1, <1>5, <2>2 DEF RecordInv, OpInv
  <2>4. StartInv'
    BY <1>1, <1>5 DEF StartInv
  <2>5. record[h].version \in Nat
    BY DEF TypeOK, Record
  <2>6. SnapshotInv'
    BY <1>1, <1>5, <2>5 DEF SnapshotInv
  <2> QED BY <1>1, <2>3, <2>4, <2>6
<1> QED BY <1>3, <1>4, <1>5, GetAuthorizedEffect

\* The steps that only move a handler on, of those that end in a Goto or a Reply.
LEMMA GotoHandlers ==
    ASSUME HandlerInv, TypeOK', NEW w \in Workers, UNCHANGED record,
           task[w].pc \notin {"idle", "reread"},
           \/ Reply(w)
           \/ \E step \in Steps \ {"create"} :
                /\ Goto(w, step)
                /\ StepOfOp([task[w] EXCEPT !.pc = step])
    PROVE  HandlerInv'
<1>1. TypeOK
  BY DEF HandlerInv
<1>2. CASE Reply(w)
  BY <1>1, <1>2, ReplyEffect, LocalStep
<1>3. ASSUME NEW step \in Steps \ {"create"}, Goto(w, step),
             StepOfOp([task[w] EXCEPT !.pc = step])
      PROVE  HandlerInv'
  <2>1. StepOfOp(task'[w])
    BY <1>1, <1>3 DEF Goto, TypeOK
  <2> QED BY <1>1, <1>3, <2>1, GotoEffect, LocalStep
<1> QED BY <1>2, <1>3

\* satisfy() may throw where it runs for a poll or for a direct proof.
LEMMA ThrowHandlers ==
    ASSUME HandlerInv, TypeOK', NEW w \in Workers, UNCHANGED record,
           task[w].pc \in SatisfySteps, Throw(w)
    PROVE  HandlerInv'
<1> DEFINE step == IF task[w].op = "poll" THEN "fail" ELSE "discard"
<1>1. StepOfOp(task[w])
  BY DEF HandlerInv, OpInv
<1>2. task[w] \in Task
  BY DEF HandlerInv, TypeOK
<1>3. step \in Steps \ {"create"} /\ task[w].pc \notin {"idle", "reread"}
  BY DEF Steps, PollSteps, SatisfySteps
<1>4. Goto(w, step)
  BY DEF Throw
<1>5. StepOfOp([task[w] EXCEPT !.pc = step])
  BY <1>1, <1>2 DEF StepOfOp, Task, SatisfySteps, PollSteps, ReadSteps
<1> HIDE DEF step
<1> QED BY <1>3, <1>4, <1>5, GotoHandlers

\* poll() after the provider answered, and after it looked the requirement up.
LEMMA PollAnswerHandlers ==
    ASSUME HandlerInv, NEW w \in Workers, AskProvider(w) \/ Lookup(w)
    PROVE  HandlerInv'
<1>1. TypeOK /\ StepOfOp(task[w]) /\ task[w] \in Task
  BY DEF HandlerInv, OpInv, TypeOK
<1>2. task[w].pc \in {"provider", "lookup"} /\ UNCHANGED <<now, stores>>
  BY DEF AskProvider, Lookup
<1>3. PICK step \in {"release", "lookup", "fail", "consume"} : Goto(w, step)
  BY DEF AskProvider, Lookup
<1>4. step \in Steps \ {"create"}
  BY DEF Steps, PollSteps, SatisfySteps
<1>5. TypeOK'
  BY <1>1, <1>2, <1>3, <1>4, GotoEffect DEF TypeOK, stores
<1>6. StepOfOp([task[w] EXCEPT !.pc = step])
  BY <1>1, <1>2 DEF StepOfOp, Task, SatisfySteps, PollSteps, ReadSteps
<1> QED BY <1>2, <1>3, <1>4, <1>5, <1>6, GotoHandlers DEF stores

\* Deleting a requirement keeps the type of the store.
LEMMA DeleteType ==
    ASSUME TypeOK, NEW d \in Deps
    PROVE  [requirement EXCEPT ![d].state = "deleted"] \in [Deps -> Requirement]
<1>1. [requirement[d] EXCEPT !.state = "deleted"] \in Requirement
  BY DEF TypeOK, Requirement
<1> QED BY <1>1 DEF TypeOK

\* The end of POST /v1/requirements.
LEMMA IssueHandlers ==
    ASSUME HandlerInv, NEW w \in Workers, Register(w) \/ Discard(w)
    PROVE  HandlerInv'
<1>1. TypeOK /\ StepOfOp(task[w]) /\ task[w] \in Task
  BY DEF HandlerInv, OpInv, TypeOK
<1>2. task[w].pc \in {"register", "discard"} /\ task[w].dep \in Deps
  BY <1>1 DEF Register, Discard, StepOfOp
<1>3. Reply(w) \/ (Register(w) /\ Goto(w, "discard"))
  BY DEF Register, Discard
<1>4. "discard" \in Steps \ {"create"}
  BY DEF Steps
<1>5. task' \in [Workers -> Task]
  BY <1>1, <1>3, <1>4, GotoEffect, ReplyEffect
<1>6. /\ requirement' \in [Deps -> Requirement]
      /\ nonce' \in [Deps -> {"absent", "live", "used"}]
  <2>1. CASE Register(w)
    <3>1. nonce' \in [Deps -> {"absent", "live", "used"}]
      BY <1>1, <2>1 DEF Register, TypeOK
    <3> QED BY <1>1, <2>1, <3>1 DEF Register, TypeOK
  <2>2. CASE Discard(w)
    BY <1>1, <1>2, <2>2, DeleteType DEF Discard, TypeOK
  <2> QED BY <2>1, <2>2
<1>7. TypeOK' /\ UNCHANGED record
  BY <1>1, <1>5, <1>6 DEF Register, Discard, TypeOK
<1>8. CASE Reply(w)
  BY <1>2, <1>7, <1>8, GotoHandlers
<1>9. CASE Register(w) /\ Goto(w, "discard")
  <2>1. StepOfOp([task[w] EXCEPT !.pc = "discard"])
    BY <1>1, <1>9 DEF Register, StepOfOp, Task, SatisfySteps, PollSteps, ReadSteps
  <2> QED BY <1>2, <1>4, <1>7, <1>9, <2>1, GotoHandlers
<1> QED BY <1>3, <1>8, <1>9

\* Consuming the nonce keeps the handlers in order.
LEMMA ConsumeHandlers ==
    ASSUME HandlerInv, NEW w \in Workers, ConsumeNonce(w)
    PROVE  HandlerInv'
<1>1. TypeOK /\ StepOfOp(task[w]) /\ task[w] \in Task
  BY DEF HandlerInv, OpInv, TypeOK
<1>2. task[w].pc = "consume" /\ task[w].pc \in SatisfySteps
  BY DEF ConsumeNonce, SatisfySteps
<1>3. Goto(w, "verify") \/ Throw(w)
  BY DEF ConsumeNonce
<1>4. {"verify", "fail", "discard"} \subseteq Steps \ {"create"}
  BY DEF Steps, PollSteps, SatisfySteps
<1>5. task' \in [Workers -> Task]
  BY <1>1, <1>3, <1>4, GotoEffect DEF Throw
<1>6. TypeOK' /\ UNCHANGED record
  BY <1>1, <1>5 DEF ConsumeNonce, TypeOK
<1>7. StepOfOp([task[w] EXCEPT !.pc = "verify"])
  BY <1>1, <1>2 DEF StepOfOp, Task, SatisfySteps, PollSteps, ReadSteps
<1> QED BY <1>2, <1>3, <1>4, <1>6, <1>7, GotoHandlers, ThrowHandlers

\* What a worker holds once its subject is consumed, and once its result is signed.
LEMMA SubjectWrite ==
    ASSUME TypeOK, NEW w \in Workers, NEW s \in Subjects, NEW e \in Nat,
           task' = [task EXCEPT ![w].pc = "sign", ![w].subject = s, ![w].expiresAt = e]
    PROVE  /\ task' \in [Workers -> Task]
           /\ task'[w] = [task[w] EXCEPT !.pc = "sign", !.subject = s, !.expiresAt = e]
           /\ task'[w].pc = "sign"
           /\ task'[w].subject = s
           /\ task'[w].op = task[w].op
           /\ task'[w].dep = task[w].dep
           /\ task'[w].handoff = task[w].handoff
           /\ task'[w].version = task[w].version
           /\ \A v \in Workers \ {w} : task'[v] = task[v]
<1>1. task[w] \in Task
  BY DEF TypeOK
<1>2. [task[w] EXCEPT !.pc = "sign"] \in Task
  BY <1>1 DEF Task, Steps, SatisfySteps
<1>3. [[task[w] EXCEPT !.pc = "sign"] EXCEPT !.subject = s] \in Task
  BY <1>2 DEF Task
<1> DEFINE t == [[[task[w] EXCEPT !.pc = "sign"] EXCEPT !.subject = s]
                    EXCEPT !.expiresAt = e]
<1>4. /\ t \in Task /\ t.pc = "sign" /\ t.subject = s
      /\ t.op = task[w].op /\ t.dep = task[w].dep
      /\ t.handoff = task[w].handoff /\ t.version = task[w].version
  BY <1>1, <1>3 DEF Task
<1>5. t = [task[w] EXCEPT !.pc = "sign", !.subject = s, !.expiresAt = e]
  OBVIOUS
<1> HIDE DEF t
<1>6. task' = [task EXCEPT ![w] = t]
  BY DEF t, TypeOK
<1> QED BY <1>4, <1>5, <1>6 DEF TypeOK

\* The worker of a poll carries the result that was signed for it.
LEMMA ResultWrite ==
    ASSUME TypeOK, NEW w \in Workers, NEW r \in ResultIds,
           task' = [task EXCEPT ![w].pc = "complete", ![w].result = r]
    PROVE  /\ task' \in [Workers -> Task]
           /\ task'[w].pc = "complete"
           /\ task'[w].result = r
           /\ task'[w].op = task[w].op
           /\ task'[w].dep = task[w].dep
           /\ task'[w].handoff = task[w].handoff
           /\ task'[w].version = task[w].version
           /\ \A v \in Workers \ {w} : task'[v] = task[v]
<1>1. task[w] \in Task
  BY DEF TypeOK
<1>2. [task[w] EXCEPT !.pc = "complete"] \in Task
  BY <1>1 DEF Task, Steps
<1> DEFINE t == [[task[w] EXCEPT !.pc = "complete"] EXCEPT !.result = r]
<1>3. /\ t \in Task /\ t.pc = "complete" /\ t.result = r
      /\ t.op = task[w].op /\ t.dep = task[w].dep
      /\ t.handoff = task[w].handoff /\ t.version = task[w].version
  BY <1>1, <1>2 DEF Task
<1> HIDE DEF t
<1>4. task' = [task EXCEPT ![w] = t]
  BY DEF t, TypeOK
<1> QED BY <1>3, <1>4 DEF TypeOK

\* The provider's verdict keeps the handlers in order.
LEMMA VerifyProofHandlers ==
    ASSUME HandlerInv, NEW w \in Workers, VerifyProof(w)
    PROVE  HandlerInv'
<1>1. TypeOK /\ StepOfOp(task[w]) /\ task[w] \in Task
  BY DEF HandlerInv, OpInv, TypeOK
<1>2. task[w].pc = "verify" /\ task[w].pc \in SatisfySteps
  BY DEF VerifyProof, SatisfySteps
<1>3. CASE Throw(w) /\ UNCHANGED usedSubjects
  <2>1. {"fail", "discard"} \subseteq Steps
    BY DEF Steps, PollSteps
  <2>2. TypeOK'
    BY <1>1, <1>3, <2>1, GotoEffect DEF Throw, VerifyProof, TypeOK
  <2>3. UNCHANGED record
    BY DEF VerifyProof
  <2> QED BY <1>2, <1>3, <2>2, <2>3, ThrowHandlers
<1>4. ASSUME NEW s \in FreshSubjects,
             usedSubjects' = IF ReplayMode = "verifier" THEN usedSubjects \union {s}
                             ELSE usedSubjects,
             task' = [task EXCEPT ![w].pc = "sign", ![w].subject = s,
                ![w].expiresAt = Least(requirement[task[w].dep].expiresAt, now + ResultTTL)]
      PROVE  HandlerInv'
  <2> DEFINE e == Least(requirement[task[w].dep].expiresAt, now + ResultTTL)
  <2>1. task[w].dep \in Deps /\ s \in Subjects
    BY <1>1, <1>2 DEF StepOfOp, FreshSubjects
  <2>2. e \in Nat
    BY <1>1, <2>1, VerifierAssumption DEF Least, TypeOK, Requirement
  <2> HIDE DEF e
  <2>3. task' = [task EXCEPT ![w].pc = "sign", ![w].subject = s, ![w].expiresAt = e]
    BY <1>4 DEF e
  <2>4. /\ task' \in [Workers -> Task]
        /\ task'[w].pc = "sign" /\ task'[w].subject = s
        /\ task'[w].op = task[w].op
        /\ task'[w].dep = task[w].dep
        /\ task'[w].handoff = task[w].handoff
        /\ task'[w].version = task[w].version
        /\ \A v \in Workers \ {w} : task'[v] = task[v]
    BY <1>1, <2>1, <2>2, <2>3, SubjectWrite
  <2>5. TypeOK' /\ UNCHANGED record
    BY <1>1, <1>4, <2>1, <2>4 DEF VerifyProof, TypeOK
  <2>6. StepOfOp(task'[w])
    BY <1>1, <1>2, <2>1, <2>4 DEF StepOfOp, SatisfySteps, PollSteps, ReadSteps
  <2> QED BY <1>2, <2>4, <2>5, <2>6, LocalStep
<1> QED BY <1>3, <1>4 DEF VerifyProof

\* Signing keeps the handlers in order.
LEMMA SignHandlers ==
    ASSUME HandlerInv, NEW w \in Workers, Sign(w)
    PROVE  HandlerInv'
<1>1. TypeOK /\ StepOfOp(task[w]) /\ task[w] \in Task
  BY DEF HandlerInv, OpInv, TypeOK
<1>2. task[w].pc = "sign" /\ task[w].pc \in SatisfySteps
  BY DEF Sign, SatisfySteps
<1>3. UNCHANGED <<now, requirement, nonce, usedSubjects, record, active>>
  BY DEF Sign
<1>4. task[w].dep \in Deps /\ task[w].subject \in Subjects
      /\ task[w].handoff \in Handoffs \union {None} /\ task[w].expiresAt \in Nat
  BY <1>1, <1>2 DEF StepOfOp, Task
<1>5. result' \in [ResultIds -> Result \union {NoResult}]
  <2>1. [dep |-> task[w].dep, via |-> task[w].handoff, subject |-> task[w].subject,
         expiresAt |-> task[w].expiresAt] \in Result
    BY <1>4 DEF Result
  <2> QED BY <1>1, <2>1 DEF Sign, TypeOK
<1>6. {"complete", "fail", "discard"} \subseteq Steps
  BY DEF Steps, PollSteps
<1>7. ASSUME task' \in [Workers -> Task] PROVE TypeOK' /\ UNCHANGED record
  BY <1>1, <1>3, <1>5, <1>7 DEF TypeOK
<1>8. CASE Throw(w)
  BY <1>1, <1>2, <1>6, <1>7, <1>8, GotoEffect, ThrowHandlers DEF Throw
<1>9. CASE Reply(w)
  <2>1. TypeOK' /\ UNCHANGED record
    BY <1>1, <1>7, <1>9, ReplyEffect
  <2> QED BY <1>2, <1>9, <2>1, GotoHandlers
<1>10. CASE task[w].op = "poll" /\ Goto(w, "fail")
  BY <1>2, <1>8, <1>10 DEF Throw
<1>11. ASSUME NEW r \in ResultIds, task[w].op = "poll",
              task' = [task EXCEPT ![w].pc = "complete", ![w].result = r]
       PROVE  HandlerInv'
  <2>1. /\ task' \in [Workers -> Task]
        /\ task'[w].pc = "complete"
        /\ task'[w].op = task[w].op
        /\ task'[w].dep = task[w].dep
        /\ task'[w].handoff = task[w].handoff
        /\ task'[w].version = task[w].version
        /\ \A v \in Workers \ {w} : task'[v] = task[v]
    BY <1>1, <1>11, ResultWrite
  <2>2. StepOfOp(task'[w])
    BY <1>4, <1>11, <2>1 DEF StepOfOp, SatisfySteps, PollSteps, ReadSteps
  <2>3. TypeOK' /\ UNCHANGED record
    BY <1>7, <2>1
  <2> QED BY <1>2, <2>1, <2>2, <2>3, LocalStep
<1> QED BY <1>8, <1>9, <1>10, <1>11 DEF Sign

\* The requests that begin without a handoff.
LEMMA ArriveHandlers ==
    ASSUME HandlerInv, NEW w \in Workers, NEW d \in Deps, Issue(w, d) \/ Verify(w, d)
    PROVE  HandlerInv'
<1>1. TypeOK /\ task \in [Workers -> Task]
  BY DEF HandlerInv, TypeOK
<1>2. PICK step \in {"register", "consume"}, op \in {"issue", "verify"} :
        /\ task' = [task EXCEPT ![w] = [Idle EXCEPT !.pc = step, !.op = op, !.dep = d]]
        /\ step = "register" => op = "issue"
        /\ step = "consume" => op = "verify"
  BY DEF Issue, Verify
<1> DEFINE t == [Idle EXCEPT !.pc = step, !.op = op, !.dep = d]
<1>3. /\ t \in Task
      /\ t.pc = step /\ t.op = op /\ t.dep = d /\ t.handoff = None
  BY DEF Idle, Task, Steps, SatisfySteps
<1> HIDE DEF t
<1>4. /\ task' \in [Workers -> Task]
      /\ task'[w] = t
      /\ \A v \in Workers \ {w} : task'[v] = task[v]
  BY <1>1, <1>2, <1>3 DEF t
<1>5. requirement' \in [Deps -> Requirement]
  BY <1>1, VerifierAssumption DEF Issue, Verify, TypeOK, Requirement, stores
<1>6. TypeOK' /\ UNCHANGED record
  BY <1>1, <1>4, <1>5 DEF Issue, Verify, TypeOK, stores
<1>7. StepOfOp(t)
  BY <1>2, <1>3 DEF StepOfOp, SatisfySteps, PollSteps, ReadSteps
<1>8. RecordInv' /\ OpInv'
  BY <1>4, <1>6, <1>7 DEF HandlerInv, RecordInv, OpInv
<1>9. StartInv'
  BY <1>3, <1>4, <1>6, VerifierAssumption DEF HandlerInv, StartInv
<1>10. SnapshotInv'
  BY <1>3, <1>4, <1>6 DEF HandlerInv, SnapshotInv
<1> QED BY <1>6, <1>8, <1>9, <1>10 DEF HandlerInv

\* A start() reserves an identifier that nobody else holds.
LEMMA StartHandlers ==
    ASSUME HandlerInv, NEW w \in Workers, NEW d \in Deps, NEW h \in Handoffs,
           Start(w, d, h)
    PROVE  HandlerInv'
<1>1. TypeOK /\ task \in [Workers -> Task]
  BY DEF HandlerInv, TypeOK
<1> DEFINE t == [Idle EXCEPT !.pc = "create", !.op = "start", !.dep = d, !.handoff = h]
<1>2. /\ t \in Task
      /\ t.pc = "create" /\ t.op = "start" /\ t.dep = d /\ t.handoff = h
  BY DEF Idle, Task, Steps
<1>3. task' = [task EXCEPT ![w] = t]
  BY DEF Start
<1> HIDE DEF t
<1>4. /\ task' \in [Workers -> Task]
      /\ task'[w] = t
      /\ \A v \in Workers \ {w} : task'[v] = task[v]
  BY <1>1, <1>2, <1>3
<1>5. TypeOK' /\ UNCHANGED record
  BY <1>1, <1>4 DEF Start, TypeOK, stores
<1>6. StepOfOp(t)
  BY <1>2 DEF StepOfOp, SatisfySteps, PollSteps, ReadSteps
<1>7. RecordInv' /\ OpInv'
  BY <1>4, <1>5, <1>6 DEF HandlerInv, RecordInv, OpInv
<1>8. record[h].status = "none" /\ \A v \in Workers : task[v].handoff # h
  BY DEF Start, Fresh
<1>9. StartInv'
  BY <1>2, <1>4, <1>5, <1>8 DEF HandlerInv, StartInv
<1>10. SnapshotInv'
  BY <1>2, <1>4, <1>5 DEF HandlerInv, SnapshotInv
<1> QED BY <1>5, <1>7, <1>9, <1>10 DEF HandlerInv

\* A new document: nobody holds a snapshot of it.
LEMMA CreateEffect ==
    ASSUME TypeOK, NEW h \in Handoffs, NEW d \in Deps, NEW e \in Nat, Create(h, d, e)
    PROVE  /\ record' \in [Handoffs -> Record]
           /\ active' \in [Deps -> Handoffs \union {None}]
           /\ record'[h].status = "pending"
           /\ record'[h].dep = d
           /\ record'[h].completion = None
           /\ \A g \in Handoffs \ {h} : record'[g] = record[g]
<1> DEFINE new == [NoRecord EXCEPT !.status = "pending", !.dep = d, !.version = 1,
                        !.expiresAt = e,
                        !.keyTtl = IF Backend = "redis" THEN e ELSE 0]
<1>1. /\ new \in Record
      /\ new.status = "pending"
      /\ new.dep = d
      /\ new.completion = None
  BY DEF NoRecord, Record, Status, Live
<1>2. record' = [record EXCEPT ![h] = new] /\ active' = [active EXCEPT ![d] = h]
  BY DEF Create
<1> HIDE DEF new
<1> QED BY <1>1, <1>2 DEF TypeOK

\* Storing the document of a start(), or being refused.
LEMMA StoreHandlers ==
    ASSUME HandlerInv, NEW w \in Workers, StoreHandoff(w)
    PROVE  HandlerInv'
<1> DEFINE h == task[w].handoff
           d == task[w].dep
<1>1. TypeOK /\ h \in Handoffs /\ d \in Deps /\ record[h].status = "none"
      /\ \A v \in Workers \ {w} : task[v].handoff # h
  BY DEF HandlerInv, StartInv, StoreHandoff
<1>2. Reply(w) /\ task[w].pc = "create"
      /\ UNCHANGED <<now, requirement, nonce, usedSubjects, result>>
  BY DEF StoreHandoff
<1>3. /\ task' \in [Workers -> Task]
      /\ task'[w] = Idle
      /\ \A v \in Workers \ {w} : task'[v] = task[v]
  BY <1>1, <1>2, ReplyEffect
<1>4. CASE UNCHANGED <<record, active>>
  BY <1>1, <1>2, <1>3, <1>4, LocalStep DEF TypeOK
<1>5. ASSUME NEW ttl \in HandoffTTLs,
             Create(h, d, Least(requirement[d].expiresAt, now + ttl))
      PROVE  HandlerInv'
  <2>1. Least(requirement[d].expiresAt, now + ttl) \in Nat
    BY <1>1, VerifierAssumption DEF Least, TypeOK, Requirement
  <2>2. /\ record' \in [Handoffs -> Record]
        /\ active' \in [Deps -> Handoffs \union {None}]
        /\ record'[h].status = "pending"
        /\ record'[h].dep = d
        /\ \A g \in Handoffs \ {h} : record'[g] = record[g]
    BY <1>1, <1>5, <2>1, CreateEffect
  <2>3. TypeOK'
    BY <1>1, <1>2, <1>3, <2>2 DEF TypeOK
  <2>4. Idle.pc = "idle" /\ Idle.op = "none" /\ Idle.handoff = None /\ StepOfOp(Idle)
    BY DEF Idle, StepOfOp, SatisfySteps, PollSteps, ReadSteps
  <2>5. RecordInv' /\ OpInv'
    BY <1>1, <1>3, <2>2, <2>4 DEF HandlerInv, RecordInv, OpInv
  <2>6. StartInv'
    BY <1>1, <1>3, <2>2, <2>4, VerifierAssumption DEF HandlerInv, StartInv
  <2>7. SnapshotInv'
    BY <1>1, <1>3, <2>2, <2>4 DEF HandlerInv, SnapshotInv
  <2> QED BY <2>3, <2>5, <2>6, <2>7 DEF HandlerInv
<1> QED BY <1>4, <1>5 DEF StoreHandoff

\* Keys that lapse turn documents to "gone" and nothing else.
LEMMA EvictEffect ==
    ASSUME TypeOK, NEW time, Evict(time)
    PROVE  /\ record' \in [Handoffs -> Record]
           /\ active' \in [Deps -> Handoffs \union {None}]
           /\ \A h \in Handoffs :
                \/ record'[h] = record[h]
                \/ /\ record[h].status \notin {"none", "gone"}
                   /\ record'[h].status = "gone"
                   /\ record'[h].dep = record[h].dep
                   /\ record'[h].version = record[h].version
                   /\ record'[h].completion = record[h].completion
<1>1. \A h \in Handoffs :
        /\ [record[h] EXCEPT !.status = "gone"] \in Record
        /\ [record[h] EXCEPT !.status = "gone"].status = "gone"
        /\ [record[h] EXCEPT !.status = "gone"].dep = record[h].dep
        /\ [record[h] EXCEPT !.status = "gone"].version = record[h].version
        /\ [record[h] EXCEPT !.status = "gone"].completion = record[h].completion
  BY DEF TypeOK, Record, Status
<1> QED BY <1>1 DEF Evict, TypeOK

\* Time, and the Redis keys that lapse with it.
LEMMA TickHandlers ==
    ASSUME HandlerInv, Tick
    PROVE  HandlerInv'
<1>1. TypeOK /\ UNCHANGED <<requirement, nonce, usedSubjects, result, task>>
  BY DEF HandlerInv, Tick
<1>2. Evict(now + 1)
  BY DEF Tick
<1>3. /\ record' \in [Handoffs -> Record]
      /\ active' \in [Deps -> Handoffs \union {None}]
      /\ \A h \in Handoffs :
            \/ record'[h] = record[h]
            \/ /\ record[h].status \notin {"none", "gone"}
               /\ record'[h].status = "gone"
               /\ record'[h].dep = record[h].dep
               /\ record'[h].version = record[h].version
  BY <1>1, <1>2, EvictEffect
<1>4. TypeOK'
  BY <1>1, <1>3 DEF Tick, TypeOK
<1>5. RecordInv' /\ OpInv'
  BY <1>1, <1>3 DEF HandlerInv, RecordInv, OpInv
<1>6. StartInv'
  BY <1>1, <1>3 DEF HandlerInv, StartInv
<1>7. SnapshotInv'
  BY <1>1, <1>3 DEF HandlerInv, SnapshotInv
<1> QED BY <1>4, <1>5, <1>6, <1>7 DEF HandlerInv

\* Deletion of a requirement, loss of a process, stuttering.
LEMMA OtherHandlers ==
    ASSUME HandlerInv,
           \/ \E d \in Deps : DeleteRequirement(d)
           \/ \E w \in Workers : Crash(w)
           \/ UNCHANGED vars
    PROVE  HandlerInv'
<1>1. TypeOK
  BY DEF HandlerInv
<1>2. CASE UNCHANGED vars
  BY <1>2 DEF vars, HandlerInv, TypeOK, RecordInv, StartInv, OpInv, SnapshotInv
<1>3. ASSUME NEW d \in Deps, DeleteRequirement(d)
      PROVE  HandlerInv'
  <2>1. TypeOK' /\ UNCHANGED <<record, task>>
    BY <1>1, <1>3, DeleteType DEF DeleteRequirement, TypeOK
  <2> QED BY <2>1 DEF HandlerInv, RecordInv, StartInv, OpInv, SnapshotInv
<1>4. ASSUME NEW w \in Workers, Crash(w)
      PROVE  HandlerInv'
  <2>1. TypeOK' /\ UNCHANGED record
    BY <1>1, <1>4, ReplyEffect DEF Crash, TypeOK, stores
  <2> QED BY <1>1, <1>4, <2>1, ReplyEffect, LocalStep DEF Crash
<1> QED BY <1>2, <1>3, <1>4

\* Requests that read a document, and reads that are retried.
LEMMA ReadHandlers ==
    ASSUME HandlerInv, NEW w \in Workers,
           \/ Reread(w)
           \/ \E h \in Handoffs : Request(w, "poll", h) \/ Request(w, "cancel", h)
    PROVE  HandlerInv'
<1>1. CASE Reread(w)
  <2>1. /\ task[w].op \in {"poll", "cancel"}
        /\ task[w].handoff \in Handoffs
        /\ record[task[w].handoff].status # "none"
    BY <1>1 DEF HandlerInv, OpInv, StepOfOp, SnapshotInv, ReadSteps, Reread
  <2> QED BY <1>1, <2>1, GetAuthorizedHandlers DEF Reread
<1>2. ASSUME NEW h \in Handoffs, NEW op \in {"poll", "cancel"}, Request(w, op, h)
      PROVE  HandlerInv'
  <2>1. record[h].status # "none"
    BY <1>2 DEF Request, Live
  <2> QED BY <1>2, <2>1, GetAuthorizedHandlers DEF Request
<1> QED BY <1>1, <1>2

\* HandlerInv is inductive.
LEMMA HandlerStep == HandlerInv /\ [Next]_vars => HandlerInv'
<1> SUFFICES ASSUME HandlerInv, [Next]_vars PROVE HandlerInv'
  OBVIOUS
<1>1. CASE Tick
  BY <1>1, TickHandlers
<1>2. CASE (\E d \in Deps : DeleteRequirement(d)) \/ UNCHANGED vars
  BY <1>2, OtherHandlers
<1>3. ASSUME NEW w \in Workers, Step(w)
      PROVE  HandlerInv'
  <2>1. ASSUME \/ Expire(w) \/ Reclaim(w) \/ Claim(w) \/ Release(w)
               \/ FailClaimed(w) \/ Complete(w) \/ Cancel(w)
        PROVE  HandlerInv'
    BY <2>1, SwapActions, UpdateHandlers
  <2> QED BY <1>3, <2>1, IssueHandlers, StoreHandlers, ReadHandlers, PollAnswerHandlers,
             ConsumeHandlers, VerifyProofHandlers, SignHandlers DEF Step
<1>4. ASSUME NEW w \in Workers, Arrive(w)
      PROVE  HandlerInv'
  BY <1>4, ArriveHandlers, StartHandlers, ReadHandlers DEF Arrive
<1>5. CASE \E w \in Workers : Crash(w)
  BY <1>5, OtherHandlers
<1> QED BY <1>1, <1>2, <1>3, <1>4, <1>5 DEF Next

\* HandlerInv holds initially.
LEMMA HandlerInit == Init => HandlerInv
<1> SUFFICES ASSUME Init PROVE HandlerInv
  OBVIOUS
<1>1. NoRecord \in Record /\ NoRecord.status = "none" /\ NoRecord.completion = None
  BY DEF NoRecord, Record, Status
<1>2. Idle \in Task /\ Idle.pc = "idle" /\ Idle.op = "none" /\ StepOfOp(Idle)
  BY IdleType DEF Idle, StepOfOp, SatisfySteps, PollSteps, ReadSteps
<1>3. TypeOK
  BY <1>1, <1>2 DEF Init, TypeOK, Requirement
<1>4. RecordInv /\ StartInv /\ OpInv /\ SnapshotInv
  BY <1>1, <1>2 DEF Init, RecordInv, StartInv, OpInv, SnapshotInv
<1> QED BY <1>3, <1>4 DEF HandlerInv

\* Every reachable state has the handlers where HandlerInv says.
THEOREM Handlers == Spec => []HandlerInv
BY HandlerInit, HandlerStep, PTL DEF Spec

\* The stores and the handlers always hold values of their types.
THEOREM Typing == Spec => []TypeOK
<1>1. HandlerInv => TypeOK
  BY DEF HandlerInv
<1> QED BY <1>1, Handlers, PTL

-----------------------------------------------------------------------------
(* What a step does to the handoff documents *)

\* A live document is replaced by its next version, which is completed only by
\* the poll that carries its result.
Advance(h, next) ==
    /\ record[h].status \in Live
    /\ next \in Record
    /\ next.dep = record[h].dep
    /\ next.status \in Live \union Terminal
    /\ IF next.status = "completed"
       THEN \E w \in Workers : /\ task[w].pc = "complete"
                              /\ task[w].handoff = h
                              /\ next.completion = task[w].result
       ELSE next.completion = record[h].completion
    /\ Swap(h, next)
    /\ UNCHANGED <<nonce, usedSubjects, result>>

Document(h, d, expiresAt) ==
    /\ record[h].status = "none"
    /\ Create(h, d, expiresAt)
    /\ UNCHANGED <<nonce, usedSubjects, result>>

\* A call of update() advances a live document or changes nothing.
LEMMA UpdateDocument ==
    ASSUME HandlerInv, NEW w \in Workers, NEW next \in Record,
           NEW won \in {"idle", "claim", "provider"},
           NEW lost \in {"idle", "reread", "fail"}, HandlerUpdate(w, next, won, lost)
    PROVE  \/ UNCHANGED <<record, active, result>>
           \/ Advance(task[w].handoff, next)
<1>1. TypeOK
  BY DEF HandlerInv
<1>2. won \in Steps /\ lost \in Steps
  BY DEF Steps, PollSteps, ReadSteps
<1>3. CASE Matches(task[w].handoff, task[w].version) /\ Swap(task[w].handoff, next)
  <2>1. task[w].pc # "reread"
    BY DEF HandlerUpdate
  <2>2. record[task[w].handoff].status \in Live
    BY <1>3, <2>1 DEF HandlerInv, SnapshotInv, HandlerUpdate, Matches
  <2> QED BY <1>1, <1>3, <2>2 DEF Advance, HandlerUpdate, Update
<1>4. CASE UNCHANGED <<record, active>>
  BY <1>4 DEF HandlerUpdate, Update
<1> QED BY <1>1, <1>2, <1>3, <1>4, UpdateEffect DEF HandlerUpdate

\* A read advances a document only to expire it.
LEMMA ReadDocument ==
    ASSUME HandlerInv, NEW w \in Workers, NEW op \in {"poll", "cancel"},
           NEW h \in Handoffs, GetAuthorized(w, op, h),
           UNCHANGED <<now, requirement, nonce, usedSubjects, result>>
    PROVE  \/ UNCHANGED <<record, active, result>>
           \/ Advance(h, [record[h] EXCEPT !.status = "expired"])
<1>1. TypeOK
  BY DEF HandlerInv
<1>2. CASE /\ record[h].status \in Live
           /\ Swap(h, [record[h] EXCEPT !.status = "expired"])
  <2> DEFINE next == [record[h] EXCEPT !.status = "expired"]
  <2>1. /\ next \in Record /\ next.dep = record[h].dep /\ next.status = "expired"
        /\ next.completion = record[h].completion
    BY <1>1 DEF TypeOK, Record, Status, Terminal
  <2> HIDE DEF next
  <2> QED BY <1>2, <2>1 DEF Advance, Terminal, next
<1> QED BY <1>1, <1>2, GetAuthorizedEffect

\* Every step leaves the documents alone, creates one, advances one or drops some.
LEMMA DocumentStep ==
    ASSUME HandlerInv, [Next]_vars
    PROVE  \/ UNCHANGED <<record, active>>
           \/ \E h \in Handoffs, d \in Deps, e \in Nat : Document(h, d, e)
           \/ \E h \in Handoffs, next \in Record : Advance(h, next)
           \/ Evict(now + 1) /\ UNCHANGED <<nonce, usedSubjects, result, task>>
<1>1. CASE Tick
  BY <1>1 DEF Tick
<1>2. CASE (\E d \in Deps : DeleteRequirement(d)) \/ UNCHANGED vars
  BY <1>2 DEF DeleteRequirement, vars
<1>3. ASSUME NEW w \in Workers, Step(w)
      PROVE  \/ UNCHANGED <<record, active>>
             \/ \E h \in Handoffs, d \in Deps, e \in Nat : Document(h, d, e)
             \/ \E h \in Handoffs, next \in Record : Advance(h, next)
  <2>1. CASE \/ Expire(w) \/ Reclaim(w) \/ Claim(w) \/ Release(w)
             \/ FailClaimed(w) \/ Complete(w) \/ Cancel(w)
    <3>1. PICK next \in Record, won \in {"idle", "claim", "provider"},
               lost \in {"idle", "reread", "fail"} : HandlerUpdate(w, next, won, lost)
      BY <2>1, SwapActions
    <3>2. task[w].handoff \in Handoffs
      BY <3>1 DEF HandlerUpdate
    <3> QED BY <3>1, <3>2, UpdateDocument
  <2>2. CASE Reread(w)
    <3>1. task[w].op \in {"poll", "cancel"} /\ task[w].handoff \in Handoffs
      BY <2>2 DEF HandlerInv, OpInv, StepOfOp, SnapshotInv, ReadSteps, Reread
    <3>2. GetAuthorized(w, task[w].op, task[w].handoff)
          /\ UNCHANGED <<now, requirement, nonce, usedSubjects, result>>
      BY <2>2 DEF Reread
    <3>3. \/ UNCHANGED <<record, active>>
          \/ \E h \in Handoffs : Advance(h, [record[h] EXCEPT !.status = "expired"])
      BY <3>1, <3>2, ReadDocument
    <3>4. ASSUME NEW h \in Handoffs, NEW next, Advance(h, next)
          PROVE  next \in Record
      BY <3>4 DEF Advance
    <3> QED BY <3>3, <3>4
  <2>3. CASE StoreHandoff(w)
    <3> DEFINE h == task[w].handoff
               d == task[w].dep
    <3>1. h \in Handoffs /\ d \in Deps /\ record[h].status = "none"
      BY <2>3 DEF HandlerInv, StartInv, StoreHandoff
    <3>2. ASSUME NEW ttl \in HandoffTTLs,
                 Create(h, d, Least(requirement[d].expiresAt, now + ttl))
          PROVE  \E e \in Nat : Document(h, d, e)
      <4>1. Least(requirement[d].expiresAt, now + ttl) \in Nat
        BY <3>1, VerifierAssumption DEF HandlerInv, Least, TypeOK, Requirement
      <4> QED BY <2>3, <3>1, <3>2, <4>1 DEF Document, StoreHandoff
    <3> QED BY <2>3, <3>1, <3>2 DEF StoreHandoff
  <2>4. CASE \/ Register(w) \/ Discard(w) \/ AskProvider(w) \/ Lookup(w)
             \/ ConsumeNonce(w) \/ VerifyProof(w) \/ Sign(w)
    BY <2>4 DEF Register, Discard, AskProvider, Lookup, ConsumeNonce, VerifyProof, Sign,
                stores
  <2> QED BY <1>3, <2>1, <2>2, <2>3, <2>4 DEF Step
<1>4. ASSUME NEW w \in Workers, NEW h \in Handoffs, NEW op \in {"poll", "cancel"},
             Request(w, op, h)
      PROVE  \/ UNCHANGED <<record, active>>
             \/ \E next \in Record : Advance(h, next)
  <2>1. GetAuthorized(w, op, h)
        /\ UNCHANGED <<now, requirement, nonce, usedSubjects, result>>
    BY <1>4 DEF Request
  <2> QED BY <2>1, ReadDocument DEF Advance
<1>5. ASSUME NEW w \in Workers, NEW d \in Deps,
             \/ Issue(w, d) \/ Verify(w, d)
             \/ \E h \in Handoffs : Start(w, d, h)
      PROVE  UNCHANGED <<record, active>>
  BY <1>5 DEF Issue, Verify, Start, stores
<1>6. CASE \E w \in Workers : Crash(w)
  BY <1>6 DEF Crash, stores
<1> QED BY <1>1, <1>2, <1>3, <1>4, <1>5, <1>6 DEF Next, Arrive

-----------------------------------------------------------------------------
(* One active handoff per dependency *)

\* Advancing a document keeps the dependency index exact.
LEMMA ActiveAdvance ==
    ASSUME HandlerInv, ActiveIndex, NEW h \in Handoffs, NEW next \in Record,
           Advance(h, next)
    PROVE  ActiveIndex'
<1> DEFINE d == record[h].dep
<1>1. TypeOK /\ record[h].status \in Live /\ next.dep = d
  BY DEF HandlerInv, Advance
<1>2. d \in Deps /\ active[d] = h
  BY <1>1 DEF HandlerInv, RecordInv, ActiveIndex, Live
<1>3. /\ record'[h].status = next.status
      /\ record'[h].dep = d
      /\ \A g \in Handoffs \ {h} : record'[g] = record[g]
  BY <1>1, SwapEffect DEF Advance
<1>4. None \notin Handoffs
  BY VerifierAssumption
<1>5. CASE next.status \in Terminal
  <2>1. active' = [active EXCEPT ![d] = None]
    BY <1>2, <1>5 DEF Advance, Swap, Released
  <2>2. next.status \notin Live
    BY <1>5 DEF Terminal, Live
  <2> QED BY <1>1, <1>2, <1>3, <1>4, <2>1, <2>2 DEF ActiveIndex, TypeOK
<1>6. CASE next.status \notin Terminal
  <2>1. active' = active
    BY <1>1, <1>2, <1>6 DEF Advance, Swap, TypeOK
  <2>2. next.status \in Live
    BY <1>6 DEF Advance
  <2> QED BY <1>1, <1>2, <1>3, <2>1, <2>2 DEF ActiveIndex
<1> QED BY <1>5, <1>6

\* Every step keeps the dependency index exact.
LEMMA ActiveStep ==
    ASSUME HandlerInv, ActiveIndex, [Next]_vars
    PROVE  ActiveIndex'
<1>1. TypeOK
  BY DEF HandlerInv
<1>2. None \notin Handoffs
  BY VerifierAssumption
<1>3. CASE UNCHANGED <<record, active>>
  BY <1>3 DEF ActiveIndex
<1>4. ASSUME NEW h \in Handoffs, NEW d \in Deps, NEW e \in Nat, Document(h, d, e)
      PROVE  ActiveIndex'
  <2>1. /\ record'[h].status \in Live
        /\ record'[h].dep = d
        /\ \A g \in Handoffs \ {h} : record'[g] = record[g]
    BY <1>1, <1>4, CreateEffect DEF Document, Live
  <2>2. active[d] = None /\ active' = [active EXCEPT ![d] = h]
    BY <1>4 DEF Document, Create
  <2>3. \A c \in Deps : active[c] # h
    BY <1>4 DEF ActiveIndex, Document, Live
  <2> QED BY <1>1, <1>2, <2>1, <2>2, <2>3 DEF ActiveIndex, TypeOK
<1>5. ASSUME NEW h \in Handoffs, NEW next \in Record, Advance(h, next)
      PROVE  ActiveIndex'
  BY <1>5, ActiveAdvance
<1>6. CASE Evict(now + 1)
  <2> DEFINE dropped == {h \in Handoffs : /\ Backend = "redis"
                                          /\ record[h].status \notin {"none", "gone"}
                                          /\ record[h].keyTtl <= now + 1}
  <2>1. /\ record' = [h \in Handoffs |-> IF h \in dropped
                                         THEN [record[h] EXCEPT !.status = "gone"]
                                         ELSE record[h]]
        /\ active' = [d \in Deps |-> IF active[d] \in dropped THEN None ELSE active[d]]
    BY <1>6 DEF Evict
  <2> HIDE DEF dropped
  <2>2. \A h \in Handoffs : [record[h] EXCEPT !.status = "gone"].status \notin Live
    BY <1>1 DEF TypeOK, Record, Live
  <2> QED BY <1>2, <2>1, <2>2 DEF ActiveIndex
<1> QED BY <1>3, <1>4, <1>5, <1>6, DocumentStep

\* In every backend the dependency index names exactly the live handoffs.
THEOREM ActiveIndexed == Spec => []ActiveIndex
<1>1. Init => ActiveIndex
  BY VerifierAssumption DEF Init, ActiveIndex, NoRecord, Live
<1>2. HandlerInv /\ ActiveIndex /\ [Next]_vars => ActiveIndex'
  BY ActiveStep
<1> QED BY <1>1, <1>2, Handlers, PTL DEF Spec

-----------------------------------------------------------------------------
(* One current claim per handoff *)

InClaim(t) == t.op = "poll" /\ t.pc \in ClaimSteps

\* A worker holds a claim because it did already, or because it just won one.
ClaimOrigin(v) ==
    \/ /\ InClaim(task[v])
       /\ task'[v].handoff = task[v].handoff
       /\ task'[v].version = task[v].version
    \/ /\ \A u \in Workers \ {v} : task'[u] = task[u]
       /\ record'[task'[v].handoff].version = record[task'[v].handoff].version + 1

\* A worker without a request holds no claim.
LEMMA IdleNoClaim == ~InClaim(Idle)
BY DEF InClaim, Idle

\* Every case of ClaimStep where the worker that moves is w.
LEMMA ClaimOther ==
    ASSUME NEW w \in Workers, NEW v \in Workers \ {w}, InClaim(task'[v]),
           \A u \in Workers \ {w} : task'[u] = task[u]
    PROVE  ClaimOrigin(v)
BY DEF ClaimOrigin, InClaim

\* A worker that moves on inside a claim keeps it.
LEMMA ClaimGoto ==
    ASSUME TypeOK, NEW w \in Workers, NEW v \in Workers, InClaim(task'[v]),
           \/ Reply(w)
           \/ /\ \E step \in Steps : Goto(w, step)
              /\ task[w].pc \in ClaimSteps
    PROVE  ClaimOrigin(v)
<1>1. \A u \in Workers \ {w} : task'[u] = task[u]
  BY GotoEffect, ReplyEffect
<1>2. CASE v # w
  BY <1>1, <1>2, ClaimOther
<1>3. CASE v = w
  BY <1>3, GotoEffect, ReplyEffect, IdleNoClaim DEF ClaimOrigin, InClaim
<1> QED BY <1>2, <1>3

\* A swap gives a claim, keeps the one it failed in, or ends it.
LEMMA ClaimUpdate ==
    ASSUME HandlerInv, NEW w \in Workers, NEW v \in Workers, InClaim(task'[v]),
           NEW next \in Record, NEW won \in {"idle", "claim", "provider"},
           NEW lost \in {"idle", "reread", "fail"}, HandlerUpdate(w, next, won, lost)
    PROVE  ClaimOrigin(v)
<1>1. TypeOK /\ won \in Steps /\ lost \in Steps
  BY DEF HandlerInv, Steps, PollSteps, ReadSteps
<1>2. /\ \A u \in Workers \ {w} : task'[u] = task[u]
      /\ task'[w] # Idle => task'[w].op = task[w].op /\ task'[w].handoff = task[w].handoff
  BY <1>1, UpdateEffect DEF HandlerUpdate
<1>3. CASE v # w
  BY <1>2, <1>3, ClaimOther
<1>4. CASE v = w
  <2>1. task'[w] # Idle
    BY <1>4, IdleNoClaim
  <2>2. CASE /\ Swap(task[w].handoff, next)
             /\ IF won = "idle" THEN task'[w] = Idle
                ELSE task'[w].pc = won /\ task'[w].version = task[w].version + 1
    <3>1. record'[task[w].handoff].version = record[task[w].handoff].version + 1
      BY <1>1, <2>2, SwapEffect DEF HandlerUpdate
    <3> QED BY <1>2, <1>4, <2>1, <3>1 DEF ClaimOrigin
  <2>3. CASE IF lost = "idle" THEN task'[w] = Idle
             ELSE task'[w].pc = lost /\ task'[w].version = task[w].version
    BY <1>2, <1>4, <2>1, <2>3 DEF HandlerUpdate, ClaimOrigin, InClaim, ClaimSteps
  <2> QED BY <1>1, <2>2, <2>3, UpdateEffect DEF HandlerUpdate
<1> QED BY <1>3, <1>4

\* Reading gives no claim.
LEMMA ClaimRead ==
    ASSUME TypeOK, NEW w \in Workers, NEW v \in Workers, InClaim(task'[v]),
           NEW op \in {"poll", "cancel"}, NEW h \in Handoffs, GetAuthorized(w, op, h),
           UNCHANGED <<now, requirement, nonce, usedSubjects, result>>
    PROVE  ClaimOrigin(v)
<1>1. /\ \A u \in Workers \ {w} : task'[u] = task[u]
      /\ task'[w] = Idle \/ task'[w].pc \in {"cancel", "expire", "claim", "reclaim"}
  BY GetAuthorizedEffect
<1>2. v # w
  BY <1>1, IdleNoClaim DEF InClaim, ClaimSteps
<1> QED BY <1>1, <1>2, ClaimOther

\* Every claim has such an origin.
LEMMA ClaimStep ==
    ASSUME HandlerInv, [Next]_vars, NEW v \in Workers, InClaim(task'[v])
    PROVE  ClaimOrigin(v)
<1>0. TypeOK
  BY DEF HandlerInv
<1>1. CASE UNCHANGED task
  BY <1>1 DEF ClaimOrigin, InClaim
<1>2. CASE Tick \/ (\E d \in Deps : DeleteRequirement(d)) \/ UNCHANGED vars
  BY <1>1, <1>2 DEF Tick, DeleteRequirement, vars
<1>3. ASSUME NEW w \in Workers, Step(w)
      PROVE  ClaimOrigin(v)
  <2>1. CASE \/ Expire(w) \/ Reclaim(w) \/ Claim(w) \/ Release(w)
             \/ FailClaimed(w) \/ Complete(w) \/ Cancel(w)
    BY <2>1, SwapActions, ClaimUpdate
  <2>2. CASE Reread(w)
    <3>1. task[w].op \in {"poll", "cancel"} /\ task[w].handoff \in Handoffs
      BY <2>2 DEF HandlerInv, OpInv, StepOfOp, SnapshotInv, ReadSteps, Reread
    <3>2. GetAuthorized(w, task[w].op, task[w].handoff)
          /\ UNCHANGED <<now, requirement, nonce, usedSubjects, result>>
      BY <2>2 DEF Reread
    <3> QED BY <1>0, <3>1, <3>2, ClaimRead
  <2>3. CASE StoreHandoff(w) \/ Discard(w)
    BY <1>0, <2>3, ClaimGoto DEF StoreHandoff, Discard
  <2>4. CASE Register(w)
    <3>1. task[w].op = "issue" /\ "discard" \in Steps
      BY <2>4 DEF HandlerInv, OpInv, StepOfOp, Register, Steps
    <3>2. CASE Reply(w)
      BY <1>0, <3>2, ClaimGoto
    <3>3. CASE Goto(w, "discard")
      BY <1>0, <3>1, <3>3, GotoEffect, ClaimOther DEF InClaim
    <3> QED BY <2>4, <3>2, <3>3 DEF Register
  <2>5. CASE AskProvider(w) \/ Lookup(w) \/ ConsumeNonce(w)
    <3>1. task[w].pc \in ClaimSteps
      BY <2>5 DEF AskProvider, Lookup, ConsumeNonce, ClaimSteps
    <3>2. \E step \in Steps : Goto(w, step)
      BY <2>5 DEF AskProvider, Lookup, ConsumeNonce, Throw, Steps, PollSteps, SatisfySteps
    <3> QED BY <1>0, <3>1, <3>2, ClaimGoto
  <2>6. CASE VerifyProof(w)
    <3>1. task[w].pc \in ClaimSteps
      BY <2>6 DEF VerifyProof, ClaimSteps
    <3>2. CASE Throw(w)
      <4>1. \E step \in Steps : Goto(w, step)
        BY <3>2 DEF Throw, Steps, PollSteps
      <4> QED BY <1>0, <3>1, <4>1, ClaimGoto
    <3>3. ASSUME NEW s \in FreshSubjects,
                 task' = [task EXCEPT ![w].pc = "sign", ![w].subject = s, ![w].expiresAt =
                            Least(requirement[task[w].dep].expiresAt, now + ResultTTL)]
          PROVE  ClaimOrigin(v)
      <4> DEFINE e == Least(requirement[task[w].dep].expiresAt, now + ResultTTL)
      <4>1. s \in Subjects /\ e \in Nat
        <5>1. task[w].dep \in Deps
          BY <2>6 DEF HandlerInv, OpInv, StepOfOp, VerifyProof
        <5> QED BY <1>0, <5>1, VerifierAssumption DEF FreshSubjects, Least, TypeOK, Requirement
      <4>2. task' = [task EXCEPT ![w].pc = "sign", ![w].subject = s, ![w].expiresAt = e]
        BY <3>3
      <4> HIDE DEF e
      <4>3. /\ task'[w].op = task[w].op
            /\ task'[w].handoff = task[w].handoff
            /\ task'[w].version = task[w].version
            /\ \A u \in Workers \ {w} : task'[u] = task[u]
        BY <1>0, <4>1, <4>2, SubjectWrite
      <4> QED BY <3>1, <4>3, ClaimOther DEF ClaimOrigin, InClaim
    <3> QED BY <2>6, <3>2, <3>3 DEF VerifyProof
  <2>7. CASE Sign(w)
    <3>1. task[w].pc \in ClaimSteps
      BY <2>7 DEF Sign, ClaimSteps
    <3>2. CASE \/ Throw(w) \/ Goto(w, "fail") \/ Reply(w)
      <4>1. Reply(w) \/ \E step \in Steps : Goto(w, step)
        BY <3>2 DEF Throw, Steps, PollSteps
      <4> QED BY <1>0, <3>1, <4>1, ClaimGoto
    <3>3. ASSUME NEW r \in ResultIds,
                 task' = [task EXCEPT ![w].pc = "complete", ![w].result = r]
          PROVE  ClaimOrigin(v)
      <4>1. /\ task'[w].op = task[w].op
            /\ task'[w].handoff = task[w].handoff
            /\ task'[w].version = task[w].version
            /\ \A u \in Workers \ {w} : task'[u] = task[u]
        BY <1>0, <3>3, ResultWrite
      <4> QED BY <3>1, <4>1, ClaimOther DEF ClaimOrigin, InClaim
    <3> QED BY <2>7, <3>2, <3>3 DEF Sign
  <2> QED BY <1>3, <2>1, <2>2, <2>3, <2>4, <2>5, <2>6, <2>7 DEF Step
<1>4. ASSUME NEW w \in Workers, NEW h \in Handoffs, NEW op \in {"poll", "cancel"},
             Request(w, op, h)
      PROVE  ClaimOrigin(v)
  BY <1>0, <1>4, ClaimRead DEF Request
<1>5. ASSUME NEW w \in Workers, NEW d \in Deps,
             \/ Issue(w, d) \/ Verify(w, d)
             \/ \E h \in Handoffs : Start(w, d, h)
      PROVE  ClaimOrigin(v)
  <2>1. PICK t : t.op # "poll" /\ task' = [task EXCEPT ![w] = t]
    <3>1. CASE Issue(w, d) \/ Verify(w, d)
      <4> DEFINE t == task'[w]
      <4>1. t.op # "poll" /\ task' = [task EXCEPT ![w] = t]
        BY <1>0, <3>1 DEF Issue, Verify, TypeOK, Idle
      <4> QED BY <4>1
    <3>2. CASE \E h \in Handoffs : Start(w, d, h)
      <4> DEFINE t == task'[w]
      <4>1. t.op # "poll" /\ task' = [task EXCEPT ![w] = t]
        BY <1>0, <3>2 DEF Start, TypeOK, Idle
      <4> QED BY <4>1
    <3> QED BY <1>5, <3>1, <3>2
  <2>2. /\ task'[w].op # "poll"
        /\ \A u \in Workers \ {w} : task'[u] = task[u]
    BY <1>0, <2>1 DEF TypeOK
  <2> QED BY <2>2, ClaimOther DEF InClaim
<1>6. ASSUME NEW w \in Workers, Crash(w)
      PROVE  ClaimOrigin(v)
  BY <1>0, <1>6, ClaimGoto DEF Crash
<1> QED BY <1>2, <1>3, <1>4, <1>5, <1>6 DEF Next, Arrive

\* What update() refused once it refuses for ever.
LEMMA StaleStep ==
    ASSUME HandlerInv, [Next]_vars, NEW h \in Handoffs, NEW n \in Nat,
           record[h].status # "none", n <= record[h].version, ~Matches(h, n)
    PROVE  record'[h].status \in {"none", "gone"} \/ record'[h].version # n
<1>1. TypeOK
  BY DEF HandlerInv
<1>2. CASE UNCHANGED <<record, active>>
  BY <1>2 DEF Matches
<1>3. ASSUME NEW g \in Handoffs, NEW d \in Deps, NEW e \in Nat, Document(g, d, e)
      PROVE  record'[h] = record[h]
  BY <1>1, <1>3, CreateEffect DEF Document
<1>4. ASSUME NEW g \in Handoffs, NEW next \in Record, Advance(g, next)
      PROVE  record'[h].version # n \/ record'[h] = record[h]
  <2>1. /\ record'[g].version = record[g].version + 1
        /\ \A f \in Handoffs \ {g} : record'[f] = record[f]
    BY <1>1, <1>4, SwapEffect DEF Advance
  <2>2. record[h].version \in Nat
    BY <1>1 DEF TypeOK, Record
  <2> QED BY <2>1, <2>2
<1>5. CASE Evict(now + 1)
  BY <1>1, <1>5, EvictEffect DEF Matches
<1> QED BY <1>2, <1>3, <1>4, <1>5, DocumentStep DEF Matches

\* Two claims of a handoff are never both current.
LEMMA ExclusiveStep ==
    ASSUME HandlerInv, ExclusiveClaim, [Next]_vars
    PROVE  ExclusiveClaim'
<1> DEFINE Stale(h, n) == record'[h].status \in {"none", "gone"} \/ record'[h].version # n
<1>1. TypeOK /\ HandlerInv'
  BY HandlerStep DEF HandlerInv
<1>2. ASSUME NEW v \in Workers, InClaim(task[v])
      PROVE  /\ task[v].handoff \in Handoffs
             /\ record[task[v].handoff].status # "none"
             /\ task[v].version \in Nat
             /\ record[task[v].handoff].version \in Nat
             /\ task[v].version <= record[task[v].handoff].version
  BY <1>1, <1>2 DEF HandlerInv, SnapshotInv, InClaim, TypeOK, Task, Record
<1>3. ASSUME NEW v \in Workers, NEW u \in Workers \ {v},
             InClaim(task'[v]), InClaim(task'[u]), task'[v].handoff = task'[u].handoff
      PROVE  Stale(task'[v].handoff, task'[v].version)
             \/ Stale(task'[u].handoff, task'[u].version)
  <2>1. ClaimOrigin(v) /\ ClaimOrigin(u)
    BY <1>3, ClaimStep
  <2>2. ASSUME NEW x \in Workers, NEW y \in Workers \ {x},
               InClaim(task'[y]), task'[x].handoff = task'[y].handoff,
               \A z \in Workers \ {x} : task'[z] = task[z],
               record'[task'[x].handoff].version = record[task'[x].handoff].version + 1
        PROVE  Stale(task'[y].handoff, task'[y].version)
    <3>1. task'[y] = task[y] /\ InClaim(task[y])
      BY <2>2
    <3> QED BY <1>2, <2>2, <3>1
  <2>3. CASE /\ InClaim(task[v]) /\ InClaim(task[u])
             /\ task'[v].handoff = task[v].handoff /\ task'[v].version = task[v].version
             /\ task'[u].handoff = task[u].handoff /\ task'[u].version = task[u].version
    <3>1. \E w \in {v, u} : ~Matches(task[w].handoff, task[w].version)
      BY <1>3, <2>3 DEF ExclusiveClaim, InClaim
    <3> QED BY <1>2, <2>3, <3>1, StaleStep
  <2> QED BY <1>3, <2>1, <2>2, <2>3 DEF ClaimOrigin
<1> QED BY <1>3 DEF ExclusiveClaim, InClaim, Matches

\* However polls, leases and crashes interleave, at most one poll holds the
\* current claim of a handoff.
THEOREM ClaimsExclude == Spec => []ExclusiveClaim
<1>1. Init => ExclusiveClaim
  BY DEF Init, ExclusiveClaim, Idle, ClaimSteps
<1>2. HandlerInv /\ ExclusiveClaim /\ [Next]_vars => ExclusiveClaim'
  BY ExclusiveStep
<1> QED BY <1>1, <1>2, Handlers, PTL DEF Spec

-----------------------------------------------------------------------------
(* One result per dependency and per subject *)

\* The steps of satisfy() and of issuing that count; all others are quiet.
Guarded == {"register", "verify", "sign", "complete"}

Quiet ==
    /\ UNCHANGED <<nonce, usedSubjects, result>>
    /\ \A d \in Deps : requirement[d].state # "absent" => requirement'[d].state # "absent"
    /\ \A v \in Workers : task'[v] = task[v] \/ task'[v].pc \notin Guarded

Registered(w) ==
    /\ task[w].pc = "register"
    /\ nonce' = [nonce EXCEPT ![task[w].dep] = "live"]
    /\ Reply(w)
    /\ UNCHANGED <<requirement, usedSubjects, result>>

Consumed(w) ==
    /\ task[w].pc = "consume"
    /\ NonceConsumable(task[w].dep)
    /\ nonce' = [nonce EXCEPT ![task[w].dep] = "used"]
    /\ Goto(w, "verify")
    /\ UNCHANGED <<requirement, usedSubjects, result>>

Accepted(w, s, e) ==
    /\ task[w].pc = "verify"
    /\ usedSubjects' = IF ReplayMode = "verifier" THEN usedSubjects \union {s}
                       ELSE usedSubjects
    /\ task' = [task EXCEPT ![w].pc = "sign", ![w].subject = s, ![w].expiresAt = e]
    /\ UNCHANGED <<requirement, nonce, result>>

Signed(w, r) ==
    /\ task[w].pc = "sign"
    /\ result[r] = NoResult
    /\ result' = [result EXCEPT
            ![r] = [dep |-> task[w].dep, via |-> task[w].handoff,
                    subject |-> task[w].subject, expiresAt |-> task[w].expiresAt]]
    /\ \/ task' = [task EXCEPT ![w].pc = "complete", ![w].result = r]
       \/ Goto(w, "fail")
       \/ Reply(w)
    /\ UNCHANGED <<requirement, nonce, usedSubjects>>

\* Moving to an unguarded step is quiet for all workers.
LEMMA QuietGoto ==
    ASSUME TypeOK, NEW w \in Workers,
           Reply(w) \/ \E step \in Steps \ Guarded : Goto(w, step)
    PROVE  \A v \in Workers : task'[v] = task[v] \/ task'[v].pc \notin Guarded
<1>1. Idle.pc \notin Guarded
  BY DEF Idle, Guarded
<1> QED BY <1>1, GotoEffect, ReplyEffect

\* The calls of update() are quiet.
LEMMA QuietUpdate ==
    ASSUME HandlerInv, NEW w \in Workers, NEW next \in Record,
           NEW won \in {"idle", "claim", "provider"},
           NEW lost \in {"idle", "reread", "fail"}, HandlerUpdate(w, next, won, lost)
    PROVE  Quiet
<1>1. TypeOK /\ won \in Steps /\ lost \in Steps
  BY DEF HandlerInv, Steps, PollSteps, ReadSteps
<1>2. Idle.pc \notin Guarded
  BY DEF Idle, Guarded
<1>3. \A v \in Workers : task'[v] = task[v] \/ task'[v].pc \notin Guarded
  BY <1>1, <1>2, UpdateEffect DEF HandlerUpdate, Guarded
<1> QED BY <1>3 DEF HandlerUpdate, Update, Quiet

\* Reading a document is quiet.
LEMMA QuietRead ==
    ASSUME TypeOK, NEW w \in Workers, NEW op \in {"poll", "cancel"},
           NEW h \in Handoffs, GetAuthorized(w, op, h),
           UNCHANGED <<now, requirement, nonce, usedSubjects, result>>
    PROVE  Quiet
<1>1. Idle.pc \notin Guarded
  BY DEF Idle, Guarded
<1> QED BY <1>1, GetAuthorizedEffect DEF Quiet, Guarded

\* satisfy() is quiet where it throws.
LEMMA SatisfyStep ==
    ASSUME HandlerInv, NEW w \in Workers, ConsumeNonce(w) \/ VerifyProof(w) \/ Sign(w)
    PROVE  \/ Quiet
           \/ Consumed(w)
           \/ \E s \in FreshSubjects, e \in Nat : Accepted(w, s, e)
           \/ \E r \in ResultIds : Signed(w, r)
<1>1. TypeOK /\ {"fail", "discard"} \subseteq Steps \ Guarded
  BY DEF HandlerInv, Steps, PollSteps, Guarded
<1>2. Throw(w) => \A v \in Workers : task'[v] = task[v] \/ task'[v].pc \notin Guarded
  BY <1>1, QuietGoto DEF Throw
<1>3. CASE ConsumeNonce(w)
  BY <1>2, <1>3 DEF ConsumeNonce, Quiet, Consumed
<1>4. CASE VerifyProof(w)
  <2>1. CASE Throw(w) /\ UNCHANGED usedSubjects
    BY <1>2, <1>4, <2>1 DEF VerifyProof, Quiet
  <2>2. ASSUME NEW s \in FreshSubjects,
               usedSubjects' = IF ReplayMode = "verifier" THEN usedSubjects \union {s}
                               ELSE usedSubjects,
               task' = [task EXCEPT ![w].pc = "sign", ![w].subject = s, ![w].expiresAt =
                            Least(requirement[task[w].dep].expiresAt, now + ResultTTL)]
        PROVE  \E e \in Nat : Accepted(w, s, e)
    <3> DEFINE e == Least(requirement[task[w].dep].expiresAt, now + ResultTTL)
    <3>1. task[w].dep \in Deps
      BY <1>4 DEF HandlerInv, OpInv, StepOfOp, VerifyProof
    <3>2. e \in Nat
      BY <1>1, <3>1, VerifierAssumption DEF Least, TypeOK, Requirement
    <3>3. Accepted(w, s, e)
      BY <1>4, <2>2 DEF VerifyProof, Accepted
    <3> HIDE DEF e
    <3> QED BY <3>2, <3>3
  <2> QED BY <1>4, <2>1, <2>2 DEF VerifyProof
<1>5. CASE Sign(w)
  BY <1>2, <1>5 DEF Sign, Quiet, Signed
<1> QED BY <1>3, <1>4, <1>5

\* Every step is quiet or one of the five that count.
LEMMA ResultStep ==
    ASSUME HandlerInv, [Next]_vars
    PROVE  \/ Quiet
           \/ \E w \in Workers :
                \/ \E d \in Deps : Issue(w, d)
                \/ Registered(w)
                \/ Consumed(w)
                \/ \E s \in FreshSubjects, e \in Nat : Accepted(w, s, e)
                \/ \E r \in ResultIds : Signed(w, r)
<1>0. TypeOK
  BY DEF HandlerInv
<1>1. CASE Tick \/ UNCHANGED vars
  BY <1>1 DEF Tick, vars, Quiet
<1>2. ASSUME NEW d \in Deps, DeleteRequirement(d)
      PROVE  Quiet
  <2>1. [requirement[d] EXCEPT !.state = "deleted"].state # "absent"
    BY <1>0 DEF TypeOK, Requirement
  <2> QED BY <1>0, <1>2, <2>1 DEF DeleteRequirement, Quiet, TypeOK
<1>3. ASSUME NEW w \in Workers, Step(w)
      PROVE  \/ Quiet \/ Registered(w) \/ Consumed(w)
             \/ \E s \in FreshSubjects, e \in Nat : Accepted(w, s, e)
             \/ \E r \in ResultIds : Signed(w, r)
  <2>1. CASE \/ Expire(w) \/ Reclaim(w) \/ Claim(w) \/ Release(w)
             \/ FailClaimed(w) \/ Complete(w) \/ Cancel(w)
    BY <2>1, SwapActions, QuietUpdate
  <2>2. CASE Reread(w)
    <3>1. task[w].op \in {"poll", "cancel"} /\ task[w].handoff \in Handoffs
      BY <2>2 DEF HandlerInv, OpInv, StepOfOp, SnapshotInv, ReadSteps, Reread
    <3>2. GetAuthorized(w, task[w].op, task[w].handoff)
          /\ UNCHANGED <<now, requirement, nonce, usedSubjects, result>>
      BY <2>2 DEF Reread
    <3> QED BY <1>0, <3>1, <3>2, QuietRead
  <2>3. CASE StoreHandoff(w)
    BY <1>0, <2>3, QuietGoto DEF StoreHandoff, Quiet
  <2>4. CASE Discard(w)
    <3>1. task[w].dep \in Deps
      BY <2>4 DEF HandlerInv, OpInv, StepOfOp, Discard
    <3>2. [requirement[task[w].dep] EXCEPT !.state = "deleted"].state # "absent"
      BY <1>0, <3>1 DEF TypeOK, Requirement
    <3> QED BY <1>0, <2>4, <3>1, <3>2, QuietGoto DEF Discard, Quiet, TypeOK
  <2>5. CASE Register(w)
    <3>1. "discard" \in Steps \ Guarded
      BY DEF Steps, Guarded
    <3> QED BY <1>0, <2>5, <3>1, QuietGoto DEF Register, Registered, Quiet
  <2>6. CASE AskProvider(w) \/ Lookup(w)
    <3>1. \E step \in Steps \ Guarded : Goto(w, step)
      BY <2>6 DEF AskProvider, Lookup, Steps, PollSteps, SatisfySteps, Guarded
    <3> QED BY <1>0, <2>6, <3>1, QuietGoto DEF AskProvider, Lookup, stores, Quiet
  <2> QED BY <1>3, <2>1, <2>2, <2>3, <2>4, <2>5, <2>6, SatisfyStep DEF Step
<1>4. ASSUME NEW w \in Workers, NEW h \in Handoffs, NEW op \in {"poll", "cancel"},
             Request(w, op, h)
      PROVE  Quiet
  BY <1>0, <1>4, QuietRead DEF Request
<1>5. ASSUME NEW w \in Workers, NEW d \in Deps,
             Verify(w, d) \/ \E h \in Handoffs : Start(w, d, h)
      PROVE  Quiet
  <2>1. /\ task'[w].pc \in {"consume", "create"}
        /\ \A u \in Workers \ {w} : task'[u] = task[u]
    <3>1. CASE Verify(w, d)
      BY <1>0, <3>1 DEF Verify, TypeOK, Idle
    <3>2. CASE \E h \in Handoffs : Start(w, d, h)
      BY <1>0, <3>2 DEF Start, TypeOK, Idle
    <3> QED BY <1>5, <3>1, <3>2
  <2> QED BY <1>5, <2>1 DEF Verify, Start, stores, Quiet, Guarded
<1>6. ASSUME NEW w \in Workers, Crash(w)
      PROVE  Quiet
  BY <1>0, <1>6, QuietGoto DEF Crash, stores, Quiet
<1> QED BY <1>1, <1>2, <1>3, <1>4, <1>5, <1>6 DEF Next, Arrive

\* What the results rest on: the nonce, the replay store, and who carries what.
ResultInv ==
    /\ RegisterInv
    /\ NonceInv
    /\ OneResultPerDependency
    /\ SubjectInv
    /\ OneResultPerSubject
    /\ CompleteInv

\* A quiet step keeps the invariants of the results.
LEMMA QuietResults ==
    ASSUME HandlerInv, ResultInv, Quiet
    PROVE  ResultInv'
<1>1. \A v \in Workers : task'[v].pc \in Guarded => task'[v] = task[v]
  BY DEF Quiet
<1>2. UNCHANGED <<nonce, usedSubjects, result>>
  BY DEF Quiet
<1>3. RegisterInv'
  <2>1. \A v \in Workers : task[v].pc = "register" => task[v].dep \in Deps
    BY DEF HandlerInv, OpInv, StepOfOp
  <2> QED BY <1>1, <1>2, <2>1 DEF ResultInv, RegisterInv, Quiet, Guarded
<1>4. NonceInv' /\ OneResultPerDependency'
  BY <1>1, <1>2 DEF ResultInv, NonceInv, OneResultPerDependency, Issued, Guarded
<1>5. SubjectInv' /\ OneResultPerSubject'
  BY <1>1, <1>2 DEF ResultInv, SubjectInv, OneResultPerSubject, Issued, Guarded
<1>6. CompleteInv'
  BY <1>1, <1>2 DEF ResultInv, CompleteInv, Guarded
<1> QED BY <1>3, <1>4, <1>5, <1>6 DEF ResultInv

\* A new requirement has no nonce yet, and no other request registers it.
LEMMA IssueResults ==
    ASSUME HandlerInv, ResultInv, NEW w \in Workers, NEW d \in Deps, Issue(w, d)
    PROVE  ResultInv'
<1>1. TypeOK
  BY DEF HandlerInv
<1>2. /\ task'[w].pc = "register" /\ task'[w].dep = d
      /\ \A v \in Workers \ {w} : task'[v] = task[v]
      /\ UNCHANGED <<nonce, usedSubjects, result>>
  BY <1>1 DEF Issue, TypeOK, Idle
<1>3. /\ requirement[d].state = "absent"
      /\ requirement'[d].state = "stored"
      /\ \A c \in Deps \ {d} : requirement'[c] = requirement[c]
  BY <1>1 DEF Issue, TypeOK
<1>4. nonce[d] = "absent"
  BY <1>3 DEF ResultInv, RegisterInv
<1>5. \A v \in Workers : task[v].pc = "register" => task[v].dep \in Deps
  BY DEF HandlerInv, OpInv, StepOfOp
<1>6. RegisterInv'
  BY <1>2, <1>3, <1>4, <1>5 DEF ResultInv, RegisterInv
<1>7. NonceInv' /\ OneResultPerDependency'
  BY <1>2 DEF ResultInv, NonceInv, OneResultPerDependency, Issued
<1>8. SubjectInv' /\ OneResultPerSubject' /\ CompleteInv'
  BY <1>2 DEF ResultInv, SubjectInv, OneResultPerSubject, CompleteInv, Issued
<1> QED BY <1>6, <1>7, <1>8 DEF ResultInv

\* A nonce is stored once, before anything could have consumed it.
LEMMA RegisterResults ==
    ASSUME HandlerInv, ResultInv, NEW w \in Workers, Registered(w)
    PROVE  ResultInv'
<1> DEFINE d == task[w].dep
<1>1. TypeOK /\ d \in Deps
  BY DEF HandlerInv, OpInv, StepOfOp, Registered
<1>2. /\ task'[w] = Idle /\ Idle.pc = "idle"
      /\ \A v \in Workers \ {w} : task'[v] = task[v]
      /\ UNCHANGED <<requirement, usedSubjects, result>>
  BY <1>1, ReplyEffect DEF Registered, Idle
<1>3. /\ nonce[d] = "absent" /\ nonce'[d] = "live" /\ requirement[d].state # "absent"
      /\ \A c \in Deps \ {d} : nonce'[c] = nonce[c]
      /\ \A v \in Workers \ {w} : task[v].pc = "register" => task[v].dep # d
  BY <1>1 DEF Registered, ResultInv, RegisterInv, TypeOK
<1>4. \A v \in Workers : task[v].pc \in {"register", "verify", "sign"} => task[v].dep \in Deps
  BY DEF HandlerInv, OpInv, StepOfOp
<1>5. \A r \in ResultIds : Issued(r) => result[r].dep \in Deps \ {d}
  BY <1>1, <1>3 DEF Issued, TypeOK, Result, ResultInv, OneResultPerDependency
<1>6. RegisterInv'
  BY <1>2, <1>3, <1>4 DEF ResultInv, RegisterInv
<1>7. NonceInv'
  BY <1>2, <1>3, <1>4 DEF ResultInv, NonceInv, Issued
<1>8. OneResultPerDependency'
  BY <1>2, <1>3, <1>5 DEF ResultInv, OneResultPerDependency, Issued
<1>9. SubjectInv' /\ OneResultPerSubject' /\ CompleteInv'
  BY <1>2 DEF ResultInv, SubjectInv, OneResultPerSubject, CompleteInv, Issued
<1> QED BY <1>6, <1>7, <1>8, <1>9 DEF ResultInv

\* Consuming the nonce: a dependency whose nonce is live has no result, and no
\* worker on its way to one.
LEMMA ConsumeResults ==
    ASSUME HandlerInv, ResultInv, NEW w \in Workers, Consumed(w)
    PROVE  ResultInv'
<1> DEFINE d == task[w].dep
<1>1. TypeOK /\ d \in Deps /\ "verify" \in Steps
  BY DEF HandlerInv, OpInv, StepOfOp, Consumed, SatisfySteps, Steps
<1>2. /\ task'[w].pc = "verify" /\ task'[w].dep = d
      /\ \A v \in Workers \ {w} : task'[v] = task[v]
      /\ UNCHANGED <<requirement, usedSubjects, result>>
  BY <1>1, GotoEffect DEF Consumed
<1>3. /\ nonce[d] = "live" /\ nonce'[d] = "used"
      /\ \A c \in Deps \ {d} : nonce'[c] = nonce[c]
  BY <1>1 DEF Consumed, NonceConsumable, TypeOK
<1>4. \A v \in Workers : task[v].pc \in {"register", "verify", "sign"} => task[v].dep \in Deps
  BY DEF HandlerInv, OpInv, StepOfOp
<1>5. /\ \A v \in Workers : task[v].pc \in {"register", "verify", "sign"} => task[v].dep # d
      /\ \A r \in ResultIds : Issued(r) => result[r].dep \in Deps \ {d}
  BY <1>1, <1>3 DEF ResultInv, RegisterInv, NonceInv, OneResultPerDependency, Issued,
                    TypeOK, Result
<1>6. RegisterInv'
  BY <1>2, <1>3, <1>4, <1>5 DEF ResultInv, RegisterInv
<1>7. NonceInv'
  BY <1>2, <1>3, <1>4, <1>5 DEF ResultInv, NonceInv, Issued
<1>8. OneResultPerDependency'
  BY <1>2, <1>3, <1>5 DEF ResultInv, OneResultPerDependency, Issued
<1>9. SubjectInv' /\ OneResultPerSubject' /\ CompleteInv'
  BY <1>2 DEF ResultInv, SubjectInv, OneResultPerSubject, CompleteInv, Issued
<1> QED BY <1>6, <1>7, <1>8, <1>9 DEF ResultInv

\* Consuming the subject: whoever signed, or is about to sign, for it recorded it.
LEMMA AcceptResults ==
    ASSUME HandlerInv, ResultInv, NEW w \in Workers, NEW s \in FreshSubjects,
           NEW e \in Nat, Accepted(w, s, e)
    PROVE  ResultInv'
<1>1. TypeOK /\ s \in Subjects
  BY DEF HandlerInv, FreshSubjects
<1>2. /\ task[w].pc = "verify"
      /\ task'[w].pc = "sign" /\ task'[w].dep = task[w].dep /\ task'[w].subject = s
      /\ \A v \in Workers \ {w} : task'[v] = task[v]
      /\ UNCHANGED <<requirement, nonce, result>>
  BY <1>1, SubjectWrite DEF Accepted
<1>3. RegisterInv' /\ CompleteInv'
  BY <1>2 DEF ResultInv, RegisterInv, CompleteInv
<1>4. NonceInv' /\ OneResultPerDependency'
  BY <1>2 DEF ResultInv, NonceInv, OneResultPerDependency, Issued
<1>5. OneResultPerSubject'
  BY <1>2 DEF ResultInv, OneResultPerSubject, Issued
<1>6. SubjectInv'
  <2>1. SUFFICES ASSUME ReplayMode = "verifier"
                 PROVE  SubjectInv'
    BY DEF SubjectInv
  <2>2. usedSubjects' = usedSubjects \union {s} /\ s \notin usedSubjects
    BY <2>1 DEF Accepted, FreshSubjects
  <2> QED BY <1>2, <2>1, <2>2 DEF ResultInv, SubjectInv, Issued
<1> QED BY <1>3, <1>4, <1>5, <1>6 DEF ResultInv

\* Signing: the worker is alone with its dependency and with its subject.
LEMMA SignResults ==
    ASSUME HandlerInv, ResultInv, NEW w \in Workers, NEW r \in ResultIds, Signed(w, r)
    PROVE  ResultInv'
<1> DEFINE new == [dep |-> task[w].dep, via |-> task[w].handoff,
                   subject |-> task[w].subject, expiresAt |-> task[w].expiresAt]
<1>1. TypeOK /\ "fail" \in Steps /\ task[w].pc = "sign" /\ task[w].dep \in Deps
  BY DEF HandlerInv, OpInv, StepOfOp, Signed, Steps, PollSteps
<1>2. /\ \A v \in Workers \ {w} : task'[v] = task[v]
      /\ \/ /\ task'[w].pc = "complete" /\ task'[w].result = r
            /\ task'[w].dep = task[w].dep /\ task'[w].handoff = task[w].handoff
         \/ task'[w].pc \in {"fail", "idle"}
      /\ UNCHANGED <<requirement, nonce, usedSubjects>>
  BY <1>1, ResultWrite, GotoEffect, ReplyEffect DEF Signed, Idle
<1>3. /\ result[r] = NoResult
      /\ result' = [result EXCEPT ![r] = new]
  BY DEF Signed
<1>4. new.dep = task[w].dep /\ new.via = task[w].handoff /\ new.subject = task[w].subject
  OBVIOUS
<1> HIDE DEF new
<1>5. /\ result'[r] = new
      /\ \A x \in ResultIds \ {r} : result'[x] = result[x]
  BY <1>1, <1>3 DEF TypeOK
<1>6. ~Issued(r)
  BY <1>3 DEF Issued
<1>7. RegisterInv'
  BY <1>2 DEF ResultInv, RegisterInv
<1>8. NonceInv'
  <2>1. \A v \in Workers \ {w} : task[v].pc \in {"verify", "sign"} => task[v].dep # task[w].dep
    BY <1>1 DEF ResultInv, NonceInv
  <2> QED BY <1>2, <1>4, <1>5, <2>1 DEF ResultInv, NonceInv, Issued
<1>9. OneResultPerDependency'
  <2>1. nonce[task[w].dep] = "used" /\ \A x \in ResultIds : Issued(x) => result[x].dep # task[w].dep
    BY <1>1 DEF ResultInv, NonceInv
  <2> QED BY <1>2, <1>4, <1>5, <2>1 DEF ResultInv, OneResultPerDependency, Issued
<1>10. SubjectInv' /\ OneResultPerSubject'
  <2>1. CASE ReplayMode = "verifier"
    <3>1. /\ task[w].subject \in usedSubjects
          /\ \A x \in ResultIds : Issued(x) => result[x].subject # task[w].subject
          /\ \A v \in Workers \ {w} : task[v].pc = "sign" => task[v].subject # task[w].subject
      BY <1>1, <2>1 DEF ResultInv, SubjectInv
    <3>2. SubjectInv'
      BY <1>2, <1>4, <1>5, <3>1 DEF ResultInv, SubjectInv, Issued
    <3>3. OneResultPerSubject'
      BY <1>4, <1>5, <3>1 DEF ResultInv, OneResultPerSubject, Issued
    <3> QED BY <3>2, <3>3
  <2>2. CASE ReplayMode # "verifier"
    BY <2>2 DEF SubjectInv, OneResultPerSubject
  <2> QED BY <2>1, <2>2
<1>11. CompleteInv'
  <2>1. ASSUME NEW v \in Workers, task[v].pc = "complete"
        PROVE  task[v].result # r
    <3>1. task[v].op = "poll" /\ task[v].handoff \in Handoffs
      BY <2>1 DEF HandlerInv, OpInv, StepOfOp, SnapshotInv
    <3>2. result[task[v].result].via \in Handoffs
      BY <2>1, <3>1 DEF ResultInv, CompleteInv
    <3> QED BY <1>3, <3>2, VerifierAssumption DEF NoResult
  <2> QED BY <1>2, <1>4, <1>5, <2>1 DEF ResultInv, CompleteInv
<1> QED BY <1>7, <1>8, <1>9, <1>10, <1>11 DEF ResultInv

\* ResultInv holds initially.
LEMMA ResultInit == Init => ResultInv
<1> SUFFICES ASSUME Init PROVE ResultInv
  OBVIOUS
<1>1. \A w \in Workers : task[w].pc = "idle"
  BY DEF Init, Idle
<1>2. \A r \in ResultIds : ~Issued(r)
  BY DEF Init, Issued
<1>3. \A d \in Deps : nonce[d] = "absent"
  BY DEF Init
<1> QED BY <1>1, <1>2, <1>3 DEF ResultInv, RegisterInv, NonceInv, OneResultPerDependency,
           SubjectInv, OneResultPerSubject, CompleteInv

\* In every reachable state the results rest on consumed nonces and subjects.
THEOREM Results == Spec => []ResultInv
<1>1. HandlerInv /\ ResultInv /\ [Next]_vars => ResultInv'
  BY ResultStep, QuietResults, IssueResults, RegisterResults, ConsumeResults,
     AcceptResults, SignResults
<1> QED BY <1>1, ResultInit, Handlers, PTL DEF Spec

\* A dependency is given at most one signed result, and only for a nonce that
\* satisfy() consumed.
THEOREM SatisfiedOnce == Spec => []OneResultPerDependency
<1>1. ResultInv => OneResultPerDependency
  BY DEF ResultInv
<1> QED BY <1>1, Results, PTL

\* Where the verifier rejects replays, a subject is given at most one result.
THEOREM SubjectOnce == Spec => []OneResultPerSubject
<1>1. ResultInv => OneResultPerSubject
  BY DEF ResultInv
<1> QED BY <1>1, Results, PTL

-----------------------------------------------------------------------------
(* What a completed handoff delivers *)

\* A signed result is never withdrawn or rewritten.
LEMMA ResultKept ==
    ASSUME HandlerInv, [Next]_vars, NEW r \in ResultIds, Issued(r)
    PROVE  result'[r] = result[r]
BY ResultStep DEF Quiet, Issue, Registered, Consumed, Accepted, Signed, Issued, HandlerInv, TypeOK

\* Every step keeps completed handoffs with the result of their own poll.
LEMMA CompletionStep ==
    ASSUME HandlerInv, ResultInv, CompletionIsOwnResult, [Next]_vars
    PROVE  CompletionIsOwnResult'
<1>1. TypeOK /\ None \notin Handoffs
  BY VerifierAssumption DEF HandlerInv
<1>2. \A h \in Handoffs : record[h].status = "completed" => Issued(record[h].completion)
  BY <1>1 DEF CompletionIsOwnResult, Issued, NoResult
<1>3. SUFFICES ASSUME NEW h \in Handoffs, record'[h].status = "completed"
               PROVE  /\ record'[h].completion \in ResultIds
                      /\ result'[record'[h].completion].via = h
                      /\ result'[record'[h].completion].dep = record'[h].dep
  BY DEF CompletionIsOwnResult
<1>4. CASE /\ record[h].status = "completed"
           /\ record'[h].completion = record[h].completion
           /\ record'[h].dep = record[h].dep
  BY <1>2, <1>4, ResultKept DEF CompletionIsOwnResult
<1>5. ASSUME NEW g \in Handoffs, NEW d \in Deps, NEW e \in Nat, Document(g, d, e)
      PROVE  record'[h] = record[h]
  BY <1>1, <1>3, <1>5, CreateEffect DEF Document
<1>6. ASSUME NEW g \in Handoffs, NEW next \in Record, Advance(g, next), g = h
      PROVE  /\ record'[h].completion \in ResultIds
             /\ result'[record'[h].completion].via = h
             /\ result'[record'[h].completion].dep = record'[h].dep
  <2>1. /\ next.status = "completed" /\ record'[h].completion = next.completion
        /\ record'[h].dep = record[h].dep /\ UNCHANGED result
    BY <1>1, <1>3, <1>6, SwapEffect DEF Advance
  <2>2. PICK w \in Workers : /\ task[w].pc = "complete"
                            /\ task[w].handoff = h
                            /\ next.completion = task[w].result
    BY <1>6, <2>1 DEF Advance
  <2>3. task[w].dep = record[h].dep
    BY <2>2 DEF HandlerInv, OpInv, StepOfOp, SnapshotInv
  <2> QED BY <2>1, <2>2, <2>3 DEF ResultInv, CompleteInv
<1>7. ASSUME NEW g \in Handoffs, NEW next \in Record, Advance(g, next), g # h
      PROVE  record'[h] = record[h]
  BY <1>1, <1>7, SwapEffect DEF Advance
<1>8. CASE Evict(now + 1)
  BY <1>1, <1>3, <1>4, <1>8, EvictEffect
<1> QED BY <1>3, <1>4, <1>5, <1>6, <1>7, <1>8, DocumentStep

\* A completed handoff delivers the result that its own poll obtained.
THEOREM CompletionOwned == Spec => []CompletionIsOwnResult
<1>1. Init => CompletionIsOwnResult
  BY DEF Init, CompletionIsOwnResult, NoRecord
<1>2. HandlerInv /\ ResultInv /\ CompletionIsOwnResult /\ [Next]_vars
        => CompletionIsOwnResult'
  BY CompletionStep
<1> QED BY <1>1, <1>2, Handlers, Results, PTL DEF Spec

-----------------------------------------------------------------------------
(* A handoff ends once *)

\* A handoff that ended keeps its outcome and its result until its record lapses.
KeepsOutcome(h) ==
    record[h].status \in Terminal =>
        /\ record'[h].status \in {record[h].status, "gone"}
        /\ record'[h].completion = record[h].completion

EndsOnce == [][\A h \in Handoffs : KeepsOutcome(h)]_vars

\* Documents are created where there is none, and only live ones advance.
LEMMA OutcomeStep ==
    ASSUME HandlerInv, [Next]_vars, NEW h \in Handoffs
    PROVE  KeepsOutcome(h)
<1>1. TypeOK
  BY DEF HandlerInv
<1>2. ASSUME NEW g \in Handoffs, NEW d \in Deps, NEW e \in Nat, Document(g, d, e)
      PROVE  KeepsOutcome(h)
  <2>1. record[g].status = "none" /\ active[d] = None
    BY <1>2 DEF Document, Create
  <2>2. \A x \in Handoffs \ {g} : record'[x] = record[x]
    BY <1>1, <1>2, <2>1, CreateEffect DEF Document
  <2> QED
    BY <2>1, <2>2 DEF KeepsOutcome, Terminal
<1>3. ASSUME NEW g \in Handoffs, NEW next \in Record, Advance(g, next)
      PROVE  KeepsOutcome(h)
  <2>1. /\ record[g].status \in Live
        /\ \A x \in Handoffs \ {g} : record'[x] = record[x]
    BY <1>1, <1>3, SwapEffect DEF Advance
  <2> QED
    BY <2>1 DEF KeepsOutcome, Live, Terminal
<1>4. CASE Evict(now + 1)
  BY <1>1, <1>4, EvictEffect DEF KeepsOutcome
<1>5. CASE UNCHANGED record
  BY <1>5 DEF KeepsOutcome
<1> QED
  BY <1>2, <1>3, <1>4, <1>5, DocumentStep

\* Whatever polls, cancels, expiries, late updates and lost processes do to a
\* handoff of src/handoff.ts, its first outcome is its only one.
THEOREM EndedStays == Spec => EndsOnce
<1>1. HandlerInv /\ [Next]_vars => [\A h \in Handoffs : KeepsOutcome(h)]_vars
  BY OutcomeStep
<1> QED
  BY <1>1, Handlers, PTL DEF Spec, EndsOnce

-----------------------------------------------------------------------------
(* Lifetimes, leases and what a snapshot still means *)

Held(h) ==
    \E w \in Workers : /\ InClaim(task[w])
                       /\ task[w].handoff = h
                       /\ Matches(h, task[w].version)

\* A write keeps the expiry of a live document; it expires one only when due,
\* and takes a running claim from the poll that holds it only to cancel.
Renewal(h, next) ==
    /\ record[h].status \in Live
    /\ next.status \in Live \union Terminal
    /\ next.expiresAt = record[h].expiresAt
    /\ next.status = "expired" => Expired(h)
    /\ next.status = "polling" => next.claimUntil = LeaseEnd(record[h].expiresAt)
    /\ record[h].status = "polling" =>
            record[h].claimUntil <= now \/ next.status = "cancelled" \/ Held(h)
    /\ Swap(h, next)
    /\ UNCHANGED now

\* The fields of a written document that say how long it and its claim last.
LEMMA SwapFields ==
    ASSUME TypeOK, NEW h \in Handoffs, NEW next \in Record, Swap(h, next)
    PROVE  /\ record'[h].status = next.status
           /\ record'[h].expiresAt = next.expiresAt
           /\ record'[h].claimUntil = next.claimUntil
           /\ record'[h].keyTtl = KeyTtl(next.expiresAt)
           /\ \A g \in Handoffs \ {h} : record'[g] = record[g]
<1> DEFINE v == record[h].version + 1
           k == KeyTtl(next.expiresAt)
           written == Written(next, v, k)
<1>1. record' = [record EXCEPT ![h] = written]
  BY DEF Swap, Written
<1>2. k = KeyTtl(next.expiresAt)
  OBVIOUS
<1> HIDE DEF v, k
<1>3. /\ written.status = next.status
      /\ written.expiresAt = next.expiresAt
      /\ written.claimUntil = next.claimUntil
      /\ written.keyTtl = k
  BY DEF Record, Written
<1> HIDE DEF written
<1>4. record'[h] = written /\ \A g \in Handoffs \ {h} : record'[g] = record[g]
  BY <1>1 DEF TypeOK
<1> QED
  BY <1>2, <1>3, <1>4

\* A new document's key lives as long as the handoff.
LEMMA CreateFields ==
    ASSUME TypeOK, NEW h \in Handoffs, NEW d \in Deps, NEW e \in Nat, Create(h, d, e)
    PROVE  /\ record'[h].status = "pending"
           /\ record'[h].expiresAt = e
           /\ Backend = "redis" => record'[h].keyTtl = e
           /\ \A g \in Handoffs \ {h} : record'[g] = record[g]
<1> DEFINE new == [NoRecord EXCEPT !.status = "pending", !.dep = d, !.version = 1,
                        !.expiresAt = e,
                        !.keyTtl = IF Backend = "redis" THEN e ELSE 0]
<1>1. /\ new.status = "pending"
      /\ new.expiresAt = e
      /\ Backend = "redis" => new.keyTtl = e
  BY DEF NoRecord
<1>2. record' = [record EXCEPT ![h] = new]
  BY DEF Create
<1> HIDE DEF new
<1> QED
  BY <1>1, <1>2 DEF TypeOK

\* Only Redis drops documents, and only those whose key is past its time.
LEMMA EvictFields ==
    ASSUME TypeOK, NEW time, Evict(time), NEW h \in Handoffs, record'[h] # record[h]
    PROVE  /\ Backend = "redis"
           /\ record[h].status \notin {"none", "gone"}
           /\ record[h].keyTtl <= time
           /\ record'[h].expiresAt = record[h].expiresAt
           /\ record'[h].status = "gone"
<1>1. record[h] \in Record
  BY DEF TypeOK
<1> QED
  BY <1>1 DEF Evict, Record

\* Every call of update() in a handler keeps the expiry and is such a renewal.
LEMMA UpdateRenews ==
    ASSUME HandlerInv, NEW w \in Workers, task[w].op \in {"poll", "cancel"},
           task[w].pc # "reread", NEW next \in Record,
           NEW won \in Steps, NEW lost \in Steps, Update(w, next, won, lost),
           Matches(task[w].handoff, task[w].version) =>
                /\ next.status \in Live \union Terminal
                /\ next.expiresAt = record[task[w].handoff].expiresAt
                /\ next.status = "expired" => Expired(task[w].handoff)
                /\ next.status = "polling" =>
                        next.claimUntil = LeaseEnd(record[task[w].handoff].expiresAt)
                /\ record[task[w].handoff].status = "polling" =>
                        \/ record[task[w].handoff].claimUntil <= now
                        \/ next.status = "cancelled"
                        \/ Held(task[w].handoff)
    PROVE  /\ UNCHANGED now
           /\ \/ UNCHANGED record
              \/ \E h \in Handoffs, n \in Record : Renewal(h, n)
<1> DEFINE h == task[w].handoff
<1>1. TypeOK /\ h \in Handoffs
  BY DEF HandlerInv, SnapshotInv
<1>2. /\ UNCHANGED now
      /\ \/ Matches(h, task[w].version) /\ Swap(h, next)
         \/ UNCHANGED record
  BY <1>1, UpdateEffect
<1>3. CASE Matches(h, task[w].version) /\ Swap(h, next)
  <2>1. record[h].status \in Live
    BY <1>1, <1>3 DEF HandlerInv, SnapshotInv, Matches
  <2>2. Renewal(h, next)
    BY <1>2, <1>3, <2>1 DEF Renewal
  <2> QED
    BY <1>1, <1>2, <2>2
<1> QED
  BY <1>2, <1>3

\* The handlers that write a document, one by one.
LEMMA SwapRenews ==
    ASSUME HandlerInv, LifetimeInv, CurrentInv, NEW w \in Workers,
           \/ Expire(w) \/ Reclaim(w) \/ Claim(w) \/ Release(w)
           \/ FailClaimed(w) \/ Complete(w) \/ Cancel(w)
    PROVE  /\ UNCHANGED now
           /\ \/ UNCHANGED record
              \/ \E h \in Handoffs, n \in Record : Renewal(h, n)
<1> DEFINE h == task[w].handoff
           old == record[h]
<1>1. /\ task[w].pc # "reread"
      /\ task[w].op \in {"poll", "cancel"}
      /\ ~Expire(w) /\ ~Cancel(w) => task[w].op = "poll"
  BY DEF HandlerInv, OpInv, StepOfOp, PollSteps, ReadSteps, Expire, Reclaim, Claim,
         Release, FailClaimed, Complete, Cancel
<1>2. TypeOK /\ h \in Handoffs
  BY <1>1 DEF HandlerInv, SnapshotInv
<1>3. /\ old \in Record /\ now \in Nat /\ old.expiresAt \in Nat /\ old.claimUntil \in Nat
      /\ task[w].result \in ResultIds \union {None}
      /\ Current(w) = old
  BY <1>2 DEF TypeOK, Current, Task, Record
<1>4. {"idle", "claim", "provider", "reread", "fail"} \subseteq Steps
  BY DEF Steps, PollSteps, ReadSteps
<1>5. LeaseEnd(old.expiresAt) \in Nat
  BY <1>3, VerifierAssumption DEF LeaseEnd, Least
<1> HIDE DEF old
<1>6. CASE Expire(w)
  <2> DEFINE next == [old EXCEPT !.status = "expired"]
  <2>1. /\ next \in Record /\ next.status = "expired" /\ next.expiresAt = old.expiresAt
        /\ "expired" \in Live \union Terminal
    BY <1>3 DEF Record, Status, Terminal
  <2>2. Update(w, next, "idle", "reread") /\ task[w].pc = "expire"
    BY <1>3, <1>6 DEF Expire
  <2>3. Matches(h, task[w].version) => Expired(h)
    BY <2>2 DEF CurrentInv, ReadingSteps
  <2>4. Expired(h) /\ old.status = "polling" => old.claimUntil <= now
    BY <1>2, <1>3, VerifierAssumption DEF LifetimeInv, Expired, LeaseEnd, Least, old
  <2> HIDE DEF next
  <2> QED
    BY <1>1, <1>4, <2>1, <2>2, <2>3, <2>4, UpdateRenews DEF old
<1>7. CASE Reclaim(w)
  <2> DEFINE next == [old EXCEPT !.status = "pending", !.claimUntil = 0]
  <2>1. /\ next \in Record /\ next.status = "pending" /\ next.expiresAt = old.expiresAt
        /\ "pending" \in Live \union Terminal
    BY <1>3 DEF Record, Status, Live
  <2>2. Update(w, next, "claim", "idle") /\ task[w].pc = "reclaim"
    BY <1>3, <1>7 DEF Reclaim
  <2>3. Matches(h, task[w].version) => old.claimUntil <= now
    BY <2>2 DEF CurrentInv, ReadingSteps, old
  <2> HIDE DEF next
  <2> QED
    BY <1>1, <1>4, <2>1, <2>2, <2>3, UpdateRenews DEF old
<1>8. CASE Claim(w)
  <2> DEFINE until == LeaseEnd(old.expiresAt)
             next == [old EXCEPT !.status = "polling", !.claimUntil = until]
  <2>1. Update(w, next, "provider", "idle") /\ task[w].pc = "claim"
    BY <1>3, <1>8 DEF Claim
  <2>2. until \in Nat /\ until = LeaseEnd(old.expiresAt)
    BY <1>5
  <2> HIDE DEF until
  <2>3. /\ next \in Record /\ next.status = "polling" /\ next.expiresAt = old.expiresAt
        /\ next.claimUntil = until /\ "polling" \in Live \union Terminal
    BY <1>3, <2>2 DEF Record, Status, Live
  <2>4. Matches(h, task[w].version) => old.status = "pending"
    BY <2>1 DEF CurrentInv, ReadingSteps, old
  <2> HIDE DEF next
  <2> QED
    BY <1>1, <1>4, <2>1, <2>2, <2>3, <2>4, UpdateRenews DEF old
<1>9. ASSUME NEW next \in Record, NEW lost \in {"idle", "fail"},
             task[w].op = "poll", task[w].pc \in ClaimSteps,
             next.status \in {"pending", "failed", "completed"},
             next.expiresAt = old.expiresAt, Update(w, next, "idle", lost)
      PROVE  /\ UNCHANGED now
             /\ \/ UNCHANGED record
                \/ \E g \in Handoffs, n \in Record : Renewal(g, n)
  <2>1. next.status \in Live \union Terminal
    BY <1>9 DEF Live, Terminal
  <2>2. Matches(h, task[w].version) => Held(h)
    BY <1>9 DEF Held, InClaim
  <2> QED
    BY <1>1, <1>4, <1>9, <2>1, <2>2, UpdateRenews DEF old
<1>10. CASE Release(w)
  <2> DEFINE next == [old EXCEPT !.status = "pending", !.claimUntil = 0]
  <2>1. next \in Record /\ next.status = "pending" /\ next.expiresAt = old.expiresAt
    BY <1>3 DEF Record, Status, Live
  <2>2. Update(w, next, "idle", "idle") /\ task[w].pc \in ClaimSteps /\ task[w].op = "poll"
    BY <1>3, <1>10 DEF Release, ClaimSteps, HandlerInv, OpInv, StepOfOp, PollSteps
  <2> HIDE DEF next
  <2> QED
    BY <1>9, <2>1, <2>2
<1>11. CASE FailClaimed(w)
  <2> DEFINE next == [old EXCEPT !.status = "failed"]
  <2>1. next \in Record /\ next.status = "failed" /\ next.expiresAt = old.expiresAt
    BY <1>3 DEF Record, Status, Terminal
  <2>2. Update(w, next, "idle", "idle") /\ task[w].pc \in ClaimSteps /\ task[w].op = "poll"
    BY <1>3, <1>11 DEF FailClaimed, ClaimSteps, HandlerInv, OpInv, StepOfOp, PollSteps
  <2> HIDE DEF next
  <2> QED
    BY <1>9, <2>1, <2>2
<1>12. CASE Complete(w)
  <2> DEFINE next == [old EXCEPT !.status = "completed", !.completion = task[w].result]
  <2>1. next \in Record /\ next.status = "completed" /\ next.expiresAt = old.expiresAt
    BY <1>3 DEF Record, Status, Terminal
  <2>2. Update(w, next, "idle", "fail") /\ task[w].pc \in ClaimSteps /\ task[w].op = "poll"
    BY <1>3, <1>12 DEF Complete, ClaimSteps, HandlerInv, OpInv, StepOfOp, PollSteps
  <2> HIDE DEF next
  <2> QED
    BY <1>9, <2>1, <2>2
<1>13. CASE Cancel(w)
  <2> DEFINE next == [old EXCEPT !.status = "cancelled"]
  <2>1. /\ next \in Record /\ next.status = "cancelled" /\ next.expiresAt = old.expiresAt
        /\ "cancelled" \in Live \union Terminal
    BY <1>3 DEF Record, Status, Terminal
  <2>2. Update(w, next, "idle", "idle")
    BY <1>3, <1>13 DEF Cancel
  <2> HIDE DEF next
  <2> QED
    BY <1>1, <1>4, <2>1, <2>2, UpdateRenews DEF old
<1> QED
  BY <1>6, <1>7, <1>8, <1>10, <1>11, <1>12, <1>13

\* A read writes a document only in memory, where it expires one that is due.
LEMMA ReadRenews ==
    ASSUME HandlerInv, LifetimeInv, NEW w \in Workers, NEW op \in {"poll", "cancel"},
           NEW h \in Handoffs, GetAuthorized(w, op, h),
           UNCHANGED <<now, requirement, nonce, usedSubjects, result>>
    PROVE  /\ UNCHANGED now
           /\ UNCHANGED record \/ \E n \in Record : Renewal(h, n)
<1> DEFINE old == record[h]
           next == [old EXCEPT !.status = "expired"]
<1>1. CASE /\ old.status \in Live
           /\ Expired(h)
           /\ Swap(h, next)
  <2>1. old \in Record /\ now \in Nat /\ old.expiresAt \in Nat /\ old.claimUntil \in Nat
    BY DEF HandlerInv, TypeOK, Record
  <2>2. old = record[h]
    OBVIOUS
  <2> HIDE DEF old
  <2>3. /\ next \in Record /\ next.status = "expired" /\ next.expiresAt = old.expiresAt
        /\ "expired" \in Live \union Terminal
    BY <2>1 DEF Record, Status, Terminal
  <2>4. old.status = "polling" => old.claimUntil <= now
    BY <1>1, <2>1, <2>2, VerifierAssumption DEF LifetimeInv, Expired, LeaseEnd, Least
  <2>5. old.status \in Live /\ Expired(h) /\ Swap(h, next)
    BY <1>1
  <2> HIDE DEF next
  <2> QED
    BY <2>2, <2>3, <2>4, <2>5 DEF Renewal
<1>2. CASE UNCHANGED record
  BY <1>2
<1> QED
  BY <1>1, <1>2 DEF GetAuthorized

\* Every step leaves the documents alone, creates one, renews one, or is a tick.
LEMMA RenewalStep ==
    ASSUME HandlerInv, LifetimeInv, CurrentInv, [Next]_vars
    PROVE  \/ UNCHANGED <<now, record>>
           \/ UNCHANGED now /\ \E h \in Handoffs, d \in Deps, e \in Nat : Document(h, d, e)
           \/ \E h \in Handoffs, n \in Record : Renewal(h, n)
           \/ Tick
<1>1. CASE (\E d \in Deps : DeleteRequirement(d)) \/ UNCHANGED vars
  BY <1>1 DEF DeleteRequirement, vars
<1>2. ASSUME NEW w \in Workers, Step(w)
      PROVE  \/ UNCHANGED <<now, record>>
             \/ UNCHANGED now /\ \E h \in Handoffs, d \in Deps, e \in Nat : Document(h, d, e)
             \/ \E h \in Handoffs, n \in Record : Renewal(h, n)
  <2>1. CASE \/ Expire(w) \/ Reclaim(w) \/ Claim(w) \/ Release(w)
             \/ FailClaimed(w) \/ Complete(w) \/ Cancel(w)
    BY <2>1, SwapRenews
  <2>2. CASE Reread(w)
    <3>1. task[w].op \in {"poll", "cancel"} /\ task[w].handoff \in Handoffs
      BY <2>2 DEF HandlerInv, OpInv, StepOfOp, SnapshotInv, ReadSteps, Reread
    <3>2. GetAuthorized(w, task[w].op, task[w].handoff)
          /\ UNCHANGED <<now, requirement, nonce, usedSubjects, result>>
      BY <2>2 DEF Reread
    <3> QED
      BY <3>1, <3>2, ReadRenews
  <2>3. CASE StoreHandoff(w)
    <3>1. UNCHANGED record \/ \E h \in Handoffs, d \in Deps, e \in Nat : Document(h, d, e)
      <4> DEFINE h == task[w].handoff
                 d == task[w].dep
      <4>1. h \in Handoffs /\ d \in Deps /\ record[h].status = "none"
        BY <2>3 DEF HandlerInv, StartInv, StoreHandoff
      <4>2. ASSUME NEW ttl \in HandoffTTLs,
                   Create(h, d, Least(requirement[d].expiresAt, now + ttl))
            PROVE  \E e \in Nat : Document(h, d, e)
        <5>1. Least(requirement[d].expiresAt, now + ttl) \in Nat
          BY <4>1, VerifierAssumption DEF HandlerInv, Least, TypeOK, Requirement
        <5> QED
          BY <2>3, <4>1, <4>2, <5>1 DEF Document, StoreHandoff
      <4> QED
        BY <2>3, <4>1, <4>2 DEF StoreHandoff
    <3> QED
      BY <2>3, <3>1 DEF StoreHandoff
  <2>4. CASE \/ Register(w) \/ Discard(w) \/ AskProvider(w) \/ Lookup(w)
             \/ ConsumeNonce(w) \/ VerifyProof(w) \/ Sign(w)
    BY <2>4 DEF Register, Discard, AskProvider, Lookup, ConsumeNonce, VerifyProof, Sign,
                stores
  <2> QED
    BY <1>2, <2>1, <2>2, <2>3, <2>4 DEF Step
<1>3. ASSUME NEW w \in Workers, Arrive(w)
      PROVE  UNCHANGED <<now, record>> \/ \E h \in Handoffs, n \in Record : Renewal(h, n)
  <2>1. ASSUME NEW h \in Handoffs, NEW op \in {"poll", "cancel"}, Request(w, op, h)
        PROVE  UNCHANGED <<now, record>> \/ \E n \in Record : Renewal(h, n)
    BY <2>1, ReadRenews DEF Request
  <2>2. ASSUME NEW d \in Deps, \/ Issue(w, d) \/ Verify(w, d)
                               \/ \E h \in Handoffs : Start(w, d, h)
        PROVE  UNCHANGED <<now, record>>
    BY <2>2 DEF Issue, Verify, Start, stores
  <2> QED
    BY <1>3, <2>1, <2>2 DEF Arrive
<1>4. CASE \E w \in Workers : Crash(w)
  BY <1>4 DEF Crash, stores
<1> QED
  BY <1>1, <1>2, <1>3, <1>4 DEF Next

\* Every step keeps the lifetimes: time only passes, and PXAT never precedes
\* the expiry of the handoff.
LEMMA LifetimeStep ==
    ASSUME HandlerInv, LifetimeInv, CurrentInv, [Next]_vars
    PROVE  LifetimeInv'
<1>1. TypeOK /\ now \in Nat
  BY DEF HandlerInv, TypeOK
<1> DEFINE Lasts(h) ==
        /\ record'[h].status \in {"expired", "gone"} => record'[h].expiresAt <= now'
        /\ record'[h].status = "polling" =>
                record'[h].claimUntil <= Least(record'[h].expiresAt, now' + ClaimTTL)
        /\ Backend = "redis" /\ record'[h].status \notin {"none", "gone"} =>
                record'[h].expiresAt <= record'[h].keyTtl
<1>2. SUFFICES ASSUME NEW h \in Handoffs PROVE Lasts(h)
  BY DEF LifetimeInv, Expired, LeaseEnd
<1>3. /\ record[h].expiresAt \in Nat /\ record[h].claimUntil \in Nat
      /\ record[h].keyTtl \in Nat /\ ClaimTTL \in Nat /\ Grace \in Nat
  BY <1>1, VerifierAssumption DEF TypeOK, Record
<1>4. ASSUME record'[h] = record[h], now' = now \/ now' = now + 1
      PROVE  Lasts(h)
  <2>1. record[h].status \in {"expired", "gone"} => record[h].expiresAt <= now'
    BY <1>1, <1>3, <1>4 DEF LifetimeInv, Expired
  <2>2. record[h].status = "polling" =>
            record[h].claimUntil <= Least(record[h].expiresAt, now' + ClaimTTL)
    BY <1>1, <1>3, <1>4 DEF LifetimeInv, LeaseEnd, Least
  <2>3. Backend = "redis" /\ record[h].status \notin {"none", "gone"} =>
            record[h].expiresAt <= record[h].keyTtl
    BY DEF LifetimeInv
  <2> QED
    BY <1>4, <2>1, <2>2, <2>3
<1>5. ASSUME UNCHANGED now, NEW g \in Handoffs, NEW d \in Deps, NEW e \in Nat, Document(g, d, e)
      PROVE  Lasts(h)
  <2>1. Create(g, d, e)
    BY <1>5 DEF Document
  <2>2. CASE h = g
    BY <1>1, <2>1, <2>2, CreateFields
  <2>3. CASE h # g
    BY <1>1, <1>4, <1>5, <2>1, <2>3, CreateFields
  <2> QED
    BY <2>2, <2>3
<1>6. ASSUME NEW g \in Handoffs, NEW n \in Record, Renewal(g, n)
      PROVE  Lasts(h)
  <2>1. now' = now /\ Swap(g, n)
    BY <1>6 DEF Renewal
  <2>2. CASE h = g
    <3>1. /\ record'[h].status = n.status /\ n.status \in Live \union Terminal
          /\ record'[h].expiresAt = record[h].expiresAt
          /\ record'[h].claimUntil = n.claimUntil
          /\ record'[h].keyTtl = KeyTtl(record[h].expiresAt)
      BY <1>1, <1>6, <2>1, <2>2, SwapFields DEF Renewal
    <3>2. n.status # "gone" /\ (n.status = "expired" => record[h].expiresAt <= now)
          /\ (n.status = "polling" => n.claimUntil = Least(record[h].expiresAt, now + ClaimTTL))
      BY <1>6, <2>2 DEF Renewal, Expired, LeaseEnd, Live, Terminal
    <3>3. n.status = "polling" =>
            Least(record[h].expiresAt, now + ClaimTTL) \in Nat
      BY <1>1, <1>3 DEF Least
    <3>4. Backend = "redis" => record[h].expiresAt <= KeyTtl(record[h].expiresAt)
      BY <1>1, <1>3 DEF KeyTtl, Greatest
    <3> QED
      BY <2>1, <3>1, <3>2, <3>3, <3>4
  <2>3. CASE h # g
    BY <1>1, <1>4, <2>1, <2>3, SwapFields
  <2> QED
    BY <2>2, <2>3
<1>7. CASE Tick
  <2>1. now' = now + 1 /\ Evict(now + 1)
    BY <1>7 DEF Tick
  <2>2. CASE record'[h] = record[h]
    BY <1>4, <2>1, <2>2
  <2>3. CASE record'[h] # record[h]
    <3>1. /\ Backend = "redis" /\ record[h].status \notin {"none", "gone"}
          /\ record[h].keyTtl <= now + 1 /\ record'[h].status = "gone"
          /\ record'[h].expiresAt = record[h].expiresAt
      BY <1>1, <2>1, <2>3, EvictFields
    <3>2. record[h].expiresAt <= record[h].keyTtl
      BY <3>1 DEF LifetimeInv
    <3> QED
      BY <1>1, <1>3, <2>1, <3>1, <3>2
  <2> QED
    BY <2>2, <2>3
<1>8. CASE UNCHANGED <<now, record>>
  BY <1>4, <1>8
<1> QED
  BY <1>5, <1>6, <1>7, <1>8, RenewalStep

\* A version that is stored before and after a step is of the same document.
LEMMA SameVersion ==
    ASSUME HandlerInv, LifetimeInv, CurrentInv, [Next]_vars, NEW h \in Handoffs, NEW n \in Nat,
           record[h].status # "none", n <= record[h].version, Matches(h, n)'
    PROVE  record'[h] = record[h] /\ Matches(h, n)
<1>1. TypeOK /\ now \in Nat
  BY DEF HandlerInv, TypeOK
<1>2. record'[h].version = n /\ record'[h].status \notin {"none", "gone"}
  BY DEF Matches
<1>3. Matches(h, n)
  BY <1>2, StaleStep
<1>4. record[h].version = n /\ n \in Nat
  BY <1>3 DEF Matches
<1>5. ASSUME NEW g \in Handoffs, NEW d \in Deps, NEW e \in Nat, Document(g, d, e)
      PROVE  record'[h] = record[h]
  BY <1>1, <1>5, CreateFields DEF Document
<1>6. ASSUME NEW g \in Handoffs, NEW next \in Record, Renewal(g, next)
      PROVE  record'[h] = record[h]
  <2>1. /\ record'[g].version = record[g].version + 1
        /\ \A f \in Handoffs \ {g} : record'[f] = record[f]
    BY <1>1, <1>6, SwapEffect DEF Renewal
  <2> QED
    BY <1>2, <1>4, <2>1
<1>7. CASE Tick
  <2>1. Evict(now + 1)
    BY <1>7 DEF Tick
  <2>2. record'[h] # record[h] => record'[h].status = "gone"
    BY <1>1, <2>1, EvictFields
  <2> QED
    BY <1>2, <1>3, <2>2
<1> QED
  BY <1>3, <1>5, <1>6, <1>7, RenewalStep

\* CurrentInv for one worker.
Relies(w) ==
    LET h == task[w].handoff IN
    task[w].pc \in ReadingSteps /\ Matches(h, task[w].version) =>
        /\ task[w].pc # "reread"
        /\ task[w].pc = "expire" => Expired(h)
        /\ task[w].pc = "claim" => record[h].status = "pending"
        /\ task[w].pc = "reclaim" => /\ record[h].status = "polling"
                                     /\ record[h].claimUntil <= now

\* A worker that stays where it is relies on the same document.
LEMMA ReliesOn ==
    ASSUME HandlerInv, LifetimeInv, CurrentInv, [Next]_vars, NEW v \in Workers,
           task'[v] = task[v]
    PROVE  Relies(v)'
<1> DEFINE h == task[v].handoff
           n == task[v].version
<1>1. SUFFICES ASSUME task[v].pc \in ReadingSteps, Matches(h, n)'
               PROVE  /\ task[v].pc # "reread"
                      /\ task[v].pc = "expire" => record'[h].expiresAt <= now'
                      /\ task[v].pc = "claim" => record'[h].status = "pending"
                      /\ task[v].pc = "reclaim" => /\ record'[h].status = "polling"
                                                   /\ record'[h].claimUntil <= now'
  BY DEF Relies, Expired, ReadingSteps
<1>2. task[v].op \in {"poll", "cancel"}
  BY <1>1 DEF HandlerInv, OpInv, StepOfOp, PollSteps, ReadSteps, ReadingSteps
<1>3. h \in Handoffs /\ record[h].status # "none" /\ n <= record[h].version
  BY <1>2 DEF HandlerInv, SnapshotInv
<1>4. n \in Nat /\ now \in Nat /\ record[h].expiresAt \in Nat /\ record[h].claimUntil \in Nat
  BY <1>3 DEF HandlerInv, TypeOK, Task, Record
<1>5. record'[h] = record[h] /\ Matches(h, n)
  BY <1>1, <1>3, <1>4, SameVersion
<1>6. now' = now \/ now' = now + 1
  BY RenewalStep DEF Tick, Renewal
<1>7. /\ task[v].pc # "reread"
      /\ task[v].pc = "expire" => record[h].expiresAt <= now
      /\ task[v].pc = "claim" => record[h].status = "pending"
      /\ task[v].pc = "reclaim" => record[h].status = "polling" /\ record[h].claimUntil <= now
  BY <1>1, <1>5 DEF CurrentInv, Expired
<1> QED
  BY <1>4, <1>5, <1>6, <1>7

\* A step of one worker leaves it with what it relies on, and the others alone.
Moves(w) ==
    /\ Relies(w)'
    /\ \A v \in Workers \ {w} : task'[v] = task[v]

\* A worker that answers, or goes on to a step that relies on no snapshot.
LEMMA LocalMoves ==
    ASSUME TypeOK, NEW w \in Workers,
           Reply(w) \/ \E step \in Steps \ ReadingSteps : Goto(w, step)
    PROVE  Moves(w)
<1>1. CASE Reply(w)
  BY <1>1, ReplyEffect DEF Moves, Relies, Idle, ReadingSteps
<1>2. ASSUME NEW step \in Steps \ ReadingSteps, Goto(w, step)
      PROVE  Moves(w)
  BY <1>2, GotoEffect DEF Moves, Relies
<1> QED
  BY <1>1, <1>2

\* A read goes on with what it has just seen.
LEMMA ReadMoves ==
    ASSUME TypeOK, NEW w \in Workers, NEW op \in {"poll", "cancel"},
           NEW h \in Handoffs, GetAuthorized(w, op, h),
           UNCHANGED <<now, requirement, nonce, usedSubjects, result>>
    PROVE  Moves(w)
<1> DEFINE go(step) == [Idle EXCEPT !.pc = step, !.op = op, !.dep = record[h].dep,
                                    !.handoff = h, !.version = record[h].version]
<1>1. ASSUME NEW step \in {"cancel", "claim", "reclaim", "expire"},
             task' = [task EXCEPT ![w] = go(step)]
      PROVE  /\ task'[w].pc = step
             /\ task'[w].handoff = h
             /\ \A v \in Workers \ {w} : task'[v] = task[v]
  <2>1. go(step).pc = step /\ go(step).handoff = h
    BY DEF Idle
  <2> HIDE DEF go
  <2> QED
    BY <1>1, <2>1 DEF TypeOK
<1> HIDE DEF go
<1>2. CASE Reply(w)
  BY <1>2, LocalMoves
<1>3. CASE task' = [task EXCEPT ![w] = go("cancel")]
  BY <1>1, <1>3 DEF Moves, Relies, ReadingSteps
<1>4. CASE /\ record[h].status = "pending" /\ UNCHANGED record
           /\ task' = [task EXCEPT ![w] = go("claim")]
  BY <1>1, <1>4 DEF Moves, Relies
<1>5. CASE /\ record[h].status = "polling" /\ record[h].claimUntil <= now
           /\ UNCHANGED record
           /\ task' = [task EXCEPT ![w] = go("reclaim")]
  BY <1>1, <1>5 DEF Moves, Relies
<1>6. CASE /\ Expired(h) /\ UNCHANGED record
           /\ task' = [task EXCEPT ![w] = go("expire")]
  BY <1>1, <1>6 DEF Moves, Relies, Expired
<1>7. record[h].claimUntil \in Nat /\ now \in Nat
  BY DEF TypeOK, Record
<1>8. Proceed(w, op, h) =>
        \/ Reply(w)
        \/ task' = [task EXCEPT ![w] = go("cancel")]
        \/ record[h].status = "pending" /\ task' = [task EXCEPT ![w] = go("claim")]
        \/ /\ record[h].status = "polling" /\ record[h].claimUntil <= now
           /\ task' = [task EXCEPT ![w] = go("reclaim")]
  BY <1>7 DEF Proceed, go
<1> QED
  BY <1>2, <1>3, <1>4, <1>5, <1>6, <1>8 DEF GetAuthorized, go

\* A call of update(): after a lost one the document has moved on, and one that
\* took a claim back left the document free.
LEMMA UpdateMoves ==
    ASSUME HandlerInv, NEW w \in Workers, task[w].op \in {"poll", "cancel"}, NEW next,
           NEW won \in {"idle", "claim", "provider"},
           NEW lost \in {"idle", "reread", "fail"},
           won = "claim" => next \in Record /\ next.status = "pending",
           Update(w, next, won, lost)
    PROVE  Moves(w)
<1> DEFINE h == task[w].handoff
           n == task[w].version
<1>1. TypeOK /\ h \in Handoffs /\ n \in Nat
  BY DEF HandlerInv, SnapshotInv, TypeOK, Task
<1>2. {"claim", "provider", "reread", "fail"} \subseteq Steps
  BY DEF Steps, PollSteps, ReadSteps
<1>3. CASE Reply(w)
  BY <1>1, <1>3, LocalMoves
<1>4. CASE won # "idle" /\ Swap(h, next) /\ WinsAt(w, won, n + 1)
  <2>1. n + 1 \in Nat
    BY <1>1
  <2>2. /\ task'[w].pc = won /\ task'[w].handoff = h
        /\ \A v \in Workers \ {w} : task'[v] = task[v]
    BY <1>1, <1>2, <1>4, <2>1, TaskWrite
  <2>3. won = "claim" => record'[h].status = "pending"
    BY <1>1, <1>4, SwapFields
  <2> QED
    BY <1>4, <2>2, <2>3 DEF Moves, Relies, ReadingSteps
<1>5. CASE lost # "idle" /\ ~Matches(h, n) /\ UNCHANGED record /\ Goto(w, lost)
  <2>1. /\ task'[w].pc = lost /\ task'[w].handoff = h /\ task'[w].version = n
        /\ \A v \in Workers \ {w} : task'[v] = task[v]
    BY <1>1, <1>2, <1>5, GotoEffect
  <2>2. ~Matches(h, n)'
    BY <1>5, <2>1 DEF Matches
  <2> QED
    BY <1>5, <2>1, <2>2 DEF Moves, Relies, Matches
<1> QED
  BY <1>3, <1>4, <1>5 DEF Update, WinsAt

\* Every step of a handler leaves each worker with what it relies on.
LEMMA StepMoves ==
    ASSUME HandlerInv, NEW w \in Workers, Step(w)
    PROVE  Moves(w)
<1>1. TypeOK
  BY DEF HandlerInv
<1>2. {"discard", "release", "lookup", "fail", "consume", "verify"} \subseteq Steps \ ReadingSteps
  BY DEF Steps, PollSteps, SatisfySteps, ReadingSteps
<1>3. Throw(w) => Moves(w)
  BY <1>1, <1>2, LocalMoves DEF Throw
<1>4. CASE Register(w) \/ Discard(w) \/ StoreHandoff(w) \/ AskProvider(w) \/ Lookup(w)
  BY <1>1, <1>2, <1>4, LocalMoves DEF Register, Discard, StoreHandoff, AskProvider, Lookup
<1>5. CASE ConsumeNonce(w)
  BY <1>1, <1>2, <1>3, <1>5, LocalMoves DEF ConsumeNonce
<1>6. CASE VerifyProof(w)
  <2> DEFINE e == Least(requirement[task[w].dep].expiresAt, now + ResultTTL)
  <2>1. ASSUME NEW s \in FreshSubjects,
               task' = [task EXCEPT ![w].pc = "sign", ![w].subject = s, ![w].expiresAt = e]
        PROVE  Moves(w)
    <3>1. s \in Subjects /\ e \in Nat
      <4>1. task[w].dep \in Deps
        BY <1>6 DEF HandlerInv, OpInv, StepOfOp, VerifyProof
      <4> QED
        BY <1>1, <4>1, VerifierAssumption DEF FreshSubjects, Least, TypeOK, Requirement
    <3> HIDE DEF e
    <3> QED
      BY <1>1, <2>1, <3>1, SubjectWrite DEF Moves, Relies, ReadingSteps
  <2> QED
    BY <1>3, <1>6, <2>1 DEF VerifyProof
<1>7. CASE Sign(w)
  <2>1. ASSUME NEW r \in ResultIds,
               task' = [task EXCEPT ![w].pc = "complete", ![w].result = r]
        PROVE  Moves(w)
    BY <1>1, <2>1, ResultWrite DEF Moves, Relies, ReadingSteps
  <2>2. Reply(w) \/ Goto(w, "fail") => Moves(w)
    BY <1>1, <1>2, LocalMoves
  <2> QED
    BY <1>3, <1>7, <2>1, <2>2 DEF Sign
<1>8. CASE Reread(w)
  <2>1. task[w].op \in {"poll", "cancel"} /\ task[w].handoff \in Handoffs
    BY <1>8 DEF HandlerInv, OpInv, StepOfOp, SnapshotInv, ReadSteps, Reread
  <2>2. GetAuthorized(w, task[w].op, task[w].handoff)
        /\ UNCHANGED <<now, requirement, nonce, usedSubjects, result>>
    BY <1>8 DEF Reread
  <2> QED
    BY <1>1, <2>1, <2>2, ReadMoves
<1>9. CASE Reclaim(w)
  <2> DEFINE old == Current(w)
             next == [old EXCEPT !.status = "pending", !.claimUntil = 0]
  <2>1. task[w].op = "poll" /\ Update(w, next, "claim", "idle")
    BY <1>9 DEF HandlerInv, OpInv, StepOfOp, PollSteps, Reclaim
  <2>2. old \in Record
    BY <1>1, <2>1 DEF HandlerInv, SnapshotInv, TypeOK, Current
  <2> HIDE DEF old
  <2>3. next \in Record /\ next.status = "pending"
    BY <2>2 DEF Record, Status, Live
  <2> HIDE DEF next
  <2> QED
    BY <2>1, <2>3, UpdateMoves
<1>10. CASE \/ Expire(w) \/ Claim(w) \/ Release(w) \/ FailClaimed(w) \/ Complete(w) \/ Cancel(w)
  <2>1. task[w].op \in {"poll", "cancel"}
    BY <1>10 DEF HandlerInv, OpInv, StepOfOp, PollSteps, ReadSteps, Expire, Claim, Release,
                FailClaimed, Complete, Cancel
  <2>2. ASSUME NEW next, NEW won \in {"idle", "provider"},
               NEW lost \in {"idle", "reread", "fail"}, Update(w, next, won, lost)
        PROVE  Moves(w)
    BY <2>1, <2>2, UpdateMoves
  <2>3. CASE Expire(w)
    BY <2>2, <2>3 DEF Expire
  <2>4. CASE Claim(w)
    BY <2>2, <2>4 DEF Claim
  <2>5. CASE Release(w) \/ FailClaimed(w) \/ Cancel(w)
    BY <2>2, <2>5 DEF Release, FailClaimed, Cancel
  <2>6. CASE Complete(w)
    BY <2>2, <2>6 DEF Complete
  <2> QED
    BY <1>10, <2>3, <2>4, <2>5, <2>6
<1> QED
  BY <1>4, <1>5, <1>6, <1>7, <1>8, <1>9, <1>10 DEF Step

\* So does every request that arrives and every process that is lost.
LEMMA ArrivalMoves ==
    ASSUME HandlerInv, NEW w \in Workers, Arrive(w) \/ Crash(w)
    PROVE  Moves(w)
<1>1. TypeOK
  BY DEF HandlerInv
<1>2. ASSUME NEW h \in Handoffs, NEW op \in {"poll", "cancel"}, Request(w, op, h)
      PROVE  Moves(w)
  BY <1>1, <1>2, ReadMoves DEF Request
<1>3. ASSUME NEW t, t.pc \notin ReadingSteps, task' = [task EXCEPT ![w] = t]
      PROVE  Moves(w)
  BY <1>1, <1>3 DEF TypeOK, Moves, Relies
<1> DEFINE at(step, op, d) == [Idle EXCEPT !.pc = step, !.op = op, !.dep = d]
           started(d, h) == [Idle EXCEPT !.pc = "create", !.op = "start", !.dep = d,
                                         !.handoff = h]
<1>4. /\ \A d \in Deps : at("register", "issue", d).pc = "register"
      /\ \A d \in Deps : at("consume", "verify", d).pc = "consume"
      /\ \A d \in Deps, h \in Handoffs : started(d, h).pc = "create"
      /\ {"register", "consume", "create"} \cap ReadingSteps = {}
  BY DEF Idle, ReadingSteps
<1>5. ASSUME NEW d \in Deps, \/ Issue(w, d) \/ Verify(w, d)
                             \/ \E h \in Handoffs : Start(w, d, h)
      PROVE  \/ task' = [task EXCEPT ![w] = at("register", "issue", d)]
             \/ task' = [task EXCEPT ![w] = at("consume", "verify", d)]
             \/ \E h \in Handoffs : task' = [task EXCEPT ![w] = started(d, h)]
  BY <1>5 DEF Issue, Verify, Start
<1> HIDE DEF at, started
<1>6. ASSUME NEW d \in Deps, \/ Issue(w, d) \/ Verify(w, d)
                             \/ \E h \in Handoffs : Start(w, d, h)
      PROVE  Moves(w)
  BY <1>3, <1>4, <1>5, <1>6
<1>7. CASE Crash(w)
  BY <1>1, <1>7, LocalMoves DEF Crash
<1> QED
  BY <1>2, <1>6, <1>7 DEF Arrive

\* Every step keeps what the snapshots mean.
LEMMA CurrentStep ==
    ASSUME HandlerInv, LifetimeInv, CurrentInv, [Next]_vars
    PROVE  CurrentInv'
<1>1. SUFFICES ASSUME NEW v \in Workers PROVE Relies(v)'
  BY DEF CurrentInv, Relies
<1>2. CASE task'[v] = task[v]
  BY <1>2, ReliesOn
<1>3. CASE UNCHANGED task
  BY <1>2, <1>3
<1>4. CASE Tick \/ (\E d \in Deps : DeleteRequirement(d)) \/ UNCHANGED vars
  BY <1>3, <1>4 DEF Tick, DeleteRequirement, vars
<1>5. ASSUME NEW w \in Workers, Moves(w)
      PROVE  Relies(v)'
  BY <1>2, <1>5 DEF Moves
<1> QED
  BY <1>4, <1>5, StepMoves, ArrivalMoves DEF Next

\* In every backend a handoff is called expired, and its record lapses, only at
\* its expiry, and a claim holds it for one lease at most: KeyTtl and LeaseEnd of
\* src/handoff.ts and src/redis.ts.  A handler expires, claims or reclaims only
\* what it may, and getAuthorized calls itself only after another request moved
\* the document on.
THEOREM Lifetimes == Spec => [](LifetimeInv /\ CurrentInv)
<1>1. Init => LifetimeInv /\ CurrentInv
  BY DEF Init, LifetimeInv, CurrentInv, NoRecord, Idle, ReadingSteps
<1>2. HandlerInv /\ LifetimeInv /\ CurrentInv /\ [Next]_vars
        => LifetimeInv' /\ CurrentInv'
  BY LifetimeStep, CurrentStep
<1> QED
  BY <1>1, <1>2, Handlers, PTL DEF Spec

\* A claimed handoff changes before its lease ends only by the poll that holds
\* the claim, unless it is cancelled.
KeepsClaim(h) ==
    (/\ record[h].status = "polling"
     /\ record[h].claimUntil > now'
     /\ record'[h] # record[h])
        => record'[h].status = "cancelled" \/ Held(h)

LeaseRespected == [][\A h \in Handoffs : KeepsClaim(h)]_vars

\* Renewals respect the lease, and no key lapses before it ends.
LEMMA LeaseStep ==
    ASSUME HandlerInv, LifetimeInv, CurrentInv, [Next]_vars, NEW h \in Handoffs
    PROVE  KeepsClaim(h)
<1>1. TypeOK /\ now \in Nat
  BY DEF HandlerInv, TypeOK
<1>2. /\ record[h].expiresAt \in Nat /\ record[h].claimUntil \in Nat
      /\ record[h].keyTtl \in Nat
  BY <1>1 DEF TypeOK, Record
<1>3. SUFFICES ASSUME record[h].status = "polling", record[h].claimUntil > now',
                      record'[h] # record[h]
               PROVE  record'[h].status = "cancelled" \/ Held(h)
  BY DEF KeepsClaim
<1>4. ASSUME NEW g \in Handoffs, NEW d \in Deps, NEW e \in Nat, Document(g, d, e)
      PROVE  FALSE
  <2>1. record[g].status = "none" /\ Create(g, d, e)
    BY <1>4 DEF Document
  <2> QED
    BY <1>1, <1>3, <2>1, CreateFields
<1>5. ASSUME NEW g \in Handoffs, NEW n \in Record, Renewal(g, n)
      PROVE  record'[h].status = "cancelled" \/ Held(h)
  <2>1. Swap(g, n) /\ now' = now
    BY <1>5 DEF Renewal
  <2>2. g = h /\ record'[h].status = n.status
    BY <1>1, <1>3, <2>1, SwapFields
  <2>3. record[h].claimUntil <= now \/ n.status = "cancelled" \/ Held(h)
    BY <1>3, <1>5, <2>2 DEF Renewal
  <2> QED
    BY <1>1, <1>2, <1>3, <2>1, <2>2, <2>3
<1>6. CASE Tick
  <2>1. now' = now + 1 /\ Evict(now + 1)
    BY <1>6 DEF Tick
  <2>2. Backend = "redis" /\ record[h].keyTtl <= now + 1
    BY <1>1, <1>3, <2>1, EvictFields
  <2>3. record[h].expiresAt <= record[h].keyTtl
    BY <1>3, <2>2 DEF LifetimeInv
  <2>4. record[h].claimUntil <= record[h].expiresAt
    BY <1>1, <1>2, <1>3, VerifierAssumption DEF LifetimeInv, LeaseEnd, Least
  <2> QED
    BY <1>1, <1>2, <1>3, <2>1, <2>2, <2>3, <2>4
<1> QED
  BY <1>3, <1>4, <1>5, <1>6, RenewalStep

\* Two polls never take a running claim from each other in src/handoff.ts: until
\* its lease ends a claimed handoff is released, failed or completed only by the
\* poll that holds the claim, and is not expired or dropped.  Only DELETE ends it.
THEOREM LeasesRespected == Spec => LeaseRespected
<1>1. HandlerInv /\ LifetimeInv /\ CurrentInv /\ [Next]_vars
        => [\A h \in Handoffs : KeepsClaim(h)]_vars
  BY LeaseStep
<1> QED
  BY <1>1, Handlers, Lifetimes, PTL DEF Spec, LeaseRespected

\* The whole inductive invariant that the runs check.
THEOREM Inductive == Spec => []IndInv
<1>1. (/\ HandlerInv /\ ResultInv /\ ActiveIndex /\ ExclusiveClaim
       /\ CompletionIsOwnResult /\ LifetimeInv /\ CurrentInv)
        => IndInv
  BY DEF IndInv, ResultInv
<1> QED BY <1>1, Handlers, Results, ActiveIndexed, ClaimsExclude, CompletionOwned, Lifetimes, PTL

-----------------------------------------------------------------------------
(* The verifier implements the contract of brokered handoffs *)

phaseOf == [h \in Handoffs |->
                IF record[h].status \in Live THEN "open" ELSE record[h].status]
ownerOf == [h \in Handoffs |-> record[h].dep]
completionOf == [h \in Handoffs |-> record[h].completion]
issuedOf == {<<r, result[r].dep, result[r].via>> : r \in {x \in ResultIds : Issued(x)}}

\* The initial state maps to an initial state of the contract.
LEMMA ContractInit == Init => Contract!Init
BY DEF Init, Contract!Init, NoRecord, Live, Issued

\* Storing a new document opens a handoff.
LEMMA ContractDocument ==
    ASSUME HandlerInv, ActiveIndex, NEW h \in Handoffs, NEW d \in Deps, NEW e \in Nat,
           Document(h, d, e)
    PROVE  Contract!Open(h, d)
<1>1. /\ TypeOK /\ record[h].status = "none" /\ record[h].completion = None
      /\ active[d] = None /\ UNCHANGED result
  BY DEF HandlerInv, RecordInv, Document, Create
<1>2. /\ record'[h].status = "pending"
      /\ record'[h].dep = d
      /\ record'[h].completion = None
      /\ \A g \in Handoffs \ {h} : record'[g] = record[g]
  BY <1>1, CreateEffect DEF Document
<1>3. phaseOf[h] = "none" /\ phaseOf' = [phaseOf EXCEPT ![h] = "open"]
  BY <1>1, <1>2 DEF phaseOf, Live
<1>4. ownerOf' = [ownerOf EXCEPT ![h] = d] /\ UNCHANGED completionOf
  BY <1>1, <1>2 DEF ownerOf, completionOf
<1>5. \A g \in Handoffs : phaseOf[g] = "open" => ownerOf[g] # d
  <2>1. \A g \in Handoffs : phaseOf[g] = "open" => record[g].status \in Live
    BY <1>1 DEF phaseOf, TypeOK, Record, Status, Live, Terminal
  <2>2. \A g \in Handoffs : active[d] # g
    BY <1>1, VerifierAssumption
  <2> QED BY <2>1, <2>2 DEF ownerOf, ActiveIndex
<1>6. UNCHANGED issuedOf
  BY <1>1 DEF issuedOf, Issued
<1> QED BY <1>3, <1>4, <1>5, <1>6
        DEF Contract!Open, phaseOf, ownerOf, completionOf, issuedOf

\* Only live documents map to open handoffs.
LEMMA PhaseOpen ==
    ASSUME TypeOK, NEW h \in Handoffs
    PROVE  phaseOf[h] = "open" <=> record[h].status \in Live
BY DEF phaseOf, TypeOK, Record, Status, Live, Terminal

\* Advancing a document finishes or closes its handoff, or is invisible.
LEMMA ContractAdvance ==
    ASSUME HandlerInv, ResultInv, NEW h \in Handoffs, NEW next \in Record, Advance(h, next)
    PROVE  Contract!Next \/ UNCHANGED Contract!vars
<1>1. /\ TypeOK /\ record[h].status \in Live /\ UNCHANGED result
      /\ phaseOf[h] = "open"
  BY PhaseOpen DEF HandlerInv, Advance
<1>2. /\ record'[h].status = next.status
      /\ record'[h].dep = record[h].dep
      /\ record'[h].completion = next.completion
      /\ \A g \in Handoffs \ {h} : record'[g] = record[g]
  BY <1>1, SwapEffect DEF Advance
<1>3. UNCHANGED ownerOf /\ UNCHANGED issuedOf
  BY <1>1, <1>2 DEF ownerOf, issuedOf, Issued
<1>4. CASE next.status = "completed"
  <2>1. PICK w \in Workers : /\ task[w].pc = "complete"
                            /\ task[w].handoff = h
                            /\ next.completion = task[w].result
    BY <1>4 DEF Advance
  <2>2. PICK r \in ResultIds : /\ r = task[w].result
                              /\ result[r].via = h
                              /\ result[r].dep = record[h].dep
    BY <2>1 DEF HandlerInv, OpInv, StepOfOp, SnapshotInv, ResultInv, CompleteInv
  <2>3. Issued(r)
    BY <2>2, VerifierAssumption DEF Issued, NoResult
  <2>4. <<r, ownerOf[h], h>> \in issuedOf
    BY <2>2, <2>3 DEF issuedOf, ownerOf
  <2>5. phaseOf' = [phaseOf EXCEPT ![h] = "completed"]
    BY <1>2, <1>4 DEF phaseOf, Live
  <2>6. completionOf' = [completionOf EXCEPT ![h] = r]
    BY <1>2, <2>1, <2>2 DEF completionOf
  <2>7. Contract!Finish(h, r)
    BY <1>1, <1>3, <2>4, <2>5, <2>6
       DEF Contract!Finish, phaseOf, ownerOf, completionOf, issuedOf
  <2> QED BY <2>2, <2>7 DEF Contract!Next
<1>5. CASE next.status \in Terminal \ {"completed"}
  <2>1. phaseOf' = [phaseOf EXCEPT ![h] = next.status]
    BY <1>2, <1>5 DEF phaseOf, Live, Terminal
  <2>2. UNCHANGED completionOf
    BY <1>2, <1>5 DEF completionOf, Advance
  <2>3. Contract!Close(h, next.status)
    BY <1>1, <1>3, <2>1, <2>2
       DEF Contract!Close, phaseOf, ownerOf, completionOf, issuedOf
  <2> QED BY <1>5, <2>3 DEF Contract!Next, Contract!Outcomes, Terminal
<1>6. CASE next.status \in Live
  <2>1. UNCHANGED phaseOf
    BY <1>1, <1>2, <1>6 DEF phaseOf
  <2>2. UNCHANGED completionOf
    BY <1>2, <1>6 DEF completionOf, Advance, Live
  <2> QED BY <1>3, <2>1, <2>2
          DEF Contract!vars, phaseOf, ownerOf, completionOf, issuedOf
<1> QED BY <1>4, <1>5, <1>6 DEF Advance

\* Lapsing keys forget handoffs.
LEMMA ContractEvict ==
    ASSUME HandlerInv, Evict(now + 1), UNCHANGED result
    PROVE  Contract!Next
<1>1. TypeOK
  BY DEF HandlerInv
<1>2. PICK lapsed \in SUBSET Handoffs : lapsed = {h \in Handoffs : record'[h] # record[h]}
  OBVIOUS
<1>3. \A h \in Handoffs :
        \/ record'[h] = record[h]
        \/ /\ record[h].status \notin {"none", "gone"}
           /\ record'[h].status = "gone"
           /\ record'[h].dep = record[h].dep
           /\ record'[h].completion = record[h].completion
  BY <1>1, EvictEffect
<1>4. UNCHANGED ownerOf /\ UNCHANGED completionOf /\ UNCHANGED issuedOf
  BY <1>3 DEF ownerOf, completionOf, issuedOf, Issued
<1>5. phaseOf' = [h \in Handoffs |-> IF h \in lapsed THEN "gone" ELSE phaseOf[h]]
  BY <1>3, <1>2 DEF phaseOf, Live
<1>6. \A h \in lapsed : phaseOf[h] # "none"
  BY <1>3, <1>2 DEF phaseOf
<1>7. Contract!Forget(lapsed)
  BY <1>4, <1>5, <1>6 DEF Contract!Forget, phaseOf, ownerOf, completionOf, issuedOf
<1> QED BY <1>2, <1>7 DEF Contract!Next

\* Signing issues the one result of a dependency.
LEMMA ContractSign ==
    ASSUME HandlerInv, ResultInv, NEW w \in Workers, NEW r \in ResultIds, Signed(w, r),
           UNCHANGED record
    PROVE  Contract!Next
<1>1. /\ TypeOK /\ task[w].pc = "sign" /\ task[w].op \in {"poll", "verify"}
      /\ task[w].dep \in Deps /\ task[w].handoff \in Handoffs \union {None}
  BY DEF HandlerInv, OpInv, StepOfOp, Signed, SatisfySteps, TypeOK, Task
<1>2. PICK d \in Deps, via \in Handoffs \union {None} :
        d = task[w].dep /\ via = task[w].handoff
  BY <1>1
<1> DEFINE new == [dep |-> d, via |-> via, subject |-> task[w].subject,
                   expiresAt |-> task[w].expiresAt]
<1>3. result[r] = NoResult /\ result' = [result EXCEPT ![r] = new]
  BY <1>2 DEF Signed
<1>4. new.dep = d /\ new.via = via /\ d # None
  BY <1>1, VerifierAssumption
<1> HIDE DEF new
<1>5. /\ result'[r] = new /\ ~Issued(r) /\ Issued(r)'
      /\ \A x \in ResultIds \ {r} : result'[x] = result[x]
  BY <1>1, <1>3, <1>4 DEF Issued, NoResult, TypeOK
<1>6. issuedOf' = issuedOf \union {<<r, d, via>>}
  BY <1>4, <1>5 DEF issuedOf, Issued
<1>7. \A i \in issuedOf : i[1] # r /\ i[2] # d
  BY <1>2, <1>1, <1>5 DEF issuedOf, ResultInv, NonceInv
<1>8. via # None => phaseOf[via] # "none" /\ ownerOf[via] = d
  BY <1>2, <1>1 DEF HandlerInv, OpInv, StepOfOp, SnapshotInv, phaseOf, ownerOf
<1>9. UNCHANGED phaseOf /\ UNCHANGED ownerOf /\ UNCHANGED completionOf
  BY DEF phaseOf, ownerOf, completionOf
<1>10. Contract!Issue(r, d, via)
  BY <1>6, <1>7, <1>8, <1>9
     DEF Contract!Issue, phaseOf, ownerOf, completionOf, issuedOf
<1> QED BY <1>10 DEF Contract!Next

\* Every step is a step of the contract or invisible to it.
LEMMA ContractStep ==
    ASSUME HandlerInv, ResultInv, ActiveIndex, [Next]_vars
    PROVE  Contract!Next \/ UNCHANGED Contract!vars
<1>1. ASSUME NEW h \in Handoffs, NEW d \in Deps, NEW e \in Nat, Document(h, d, e)
      PROVE  Contract!Next
  BY <1>1, ContractDocument DEF Contract!Next
<1>2. CASE UNCHANGED <<record, active>>
  <2>1. CASE UNCHANGED result
    BY <1>2, <2>1 DEF Contract!vars, Issued
  <2>2. ASSUME NEW w \in Workers, NEW r \in ResultIds, Signed(w, r)
        PROVE  Contract!Next
    BY <1>2, <2>2, ContractSign
  <2> QED BY <2>1, <2>2, ResultStep DEF Quiet, Issue, Registered, Consumed, Accepted
<1> QED BY <1>1, <1>2, DocumentStep, ContractAdvance, ContractEvict

\* The stores, leases, versions and processes of the verifier implement the
\* contract: one open handoff per dependency, each ends once, and completes only
\* with the one result that its dependency was given through it.
THEOREM Implementation == Spec => ImplementsContract
<1>1. HandlerInv /\ ResultInv /\ ActiveIndex /\ [Next]_vars
        => [Contract!Next]_(Contract!vars)
  BY ContractStep
<1> QED BY <1>1, ContractInit, Handlers, Results, ActiveIndexed, PTL
        DEF Spec, ImplementsContract, Contract!Spec

=============================================================================
