----------------------------- MODULE VerifierInv -----------------------------
(***************************************************************************)
(* The inductive invariant of module Verifier: why the compare-and-swap    *)
(* versions, the nonce and the provider replay store are enough.  TLC      *)
(* checks it on small instances and VerifierProofs proves it.              *)
(***************************************************************************)
EXTENDS Verifier

\* A document names its dependency, and one that was never stored delivers nothing.
RecordInv ==
    \A h \in Handoffs :
        IF record[h].status = "none" THEN record[h].completion = None
        ELSE record[h].dep \in Deps

\* A start() in progress owns its fresh identifier.
StartInv ==
    \A w \in Workers : task[w].pc = "create" =>
        /\ task[w].dep \in Deps
        /\ task[w].handoff \in Handoffs
        /\ record[task[w].handoff].status = "none"
        /\ \A v \in Workers \ {w} : task[v].handoff # task[w].handoff

\* The operation that each step of a handler belongs to, and what it holds.
StepOfOp(t) ==
    /\ t.pc = "register" => t.op = "issue"
    /\ t.pc = "discard" => t.op \in {"issue", "verify"}
    /\ t.pc = "create" => t.op = "start"
    /\ t.pc \in SatisfySteps => t.op \in {"poll", "verify"}
    /\ t.pc \in PollSteps \union {"complete"} => t.op = "poll"
    /\ t.pc = "cancel" => t.op = "cancel"
    /\ t.pc \in ReadSteps => t.op \in {"poll", "cancel"}
    /\ t.op = "verify" => t.handoff = None
    /\ t.pc # "idle" => t.dep \in Deps
    /\ t.pc = "sign" => t.subject \in Subjects

OpInv == \A w \in Workers : StepOfOp(task[w])

\* A poll or cancel holds a snapshot of an existing document that is at most as
\* new as the stored one, and while it is as new, the document has not ended.
SnapshotInv ==
    \A w \in Workers : task[w].op \in {"poll", "cancel"} =>
        LET h == task[w].handoff IN
        /\ h \in Handoffs
        /\ record[h].status # "none"
        /\ record[h].dep = task[w].dep
        /\ task[w].version <= record[h].version
        /\ task[w].pc # "reread" /\ task[w].version = record[h].version
                => record[h].status \in Live \union {"gone"}

\* A nonce is registered once, by the request that issued its requirement.
RegisterInv ==
    /\ \A d \in Deps : nonce[d] # "absent" => requirement[d].state # "absent"
    /\ \A w \in Workers : task[w].pc = "register" =>
        /\ requirement[task[w].dep].state # "absent"
        /\ nonce[task[w].dep] = "absent"
    /\ \A w, v \in Workers :
        w # v /\ task[w].pc = "register" /\ task[v].pc = "register"
            => task[w].dep # task[v].dep

\* Between the nonce and the signature a worker is alone with its dependency.
NonceInv ==
    /\ \A w \in Workers : task[w].pc \in {"verify", "sign"} =>
        /\ nonce[task[w].dep] = "used"
        /\ \A r \in ResultIds : Issued(r) => result[r].dep # task[w].dep
    /\ \A w, v \in Workers :
        (w # v /\ task[w].pc \in {"verify", "sign"} /\ task[v].pc \in {"verify", "sign"})
            => task[w].dep # task[v].dep

\* From providerReplayStore.consume on a worker is alone with its subject.
SubjectInv ==
    ReplayMode = "verifier" =>
        /\ \A r \in ResultIds : Issued(r) => result[r].subject \in usedSubjects
        /\ \A w \in Workers : task[w].pc = "sign" =>
            /\ task[w].subject \in usedSubjects
            /\ \A r \in ResultIds : Issued(r) => result[r].subject # task[w].subject
        /\ \A w, v \in Workers :
            w # v /\ task[w].pc = "sign" /\ task[v].pc = "sign"
                => task[w].subject # task[v].subject

\* A worker that is about to complete a handoff carries that handoff's result.
CompleteInv ==
    \A w \in Workers : task[w].pc = "complete" =>
        /\ task[w].result \in ResultIds
        /\ result[task[w].result].via = task[w].handoff
        /\ result[task[w].result].dep = task[w].dep

\* A document is not called expired and its key does not lapse before its expiry,
\* and a claim holds it for one lease at most.
LifetimeInv ==
    \A h \in Handoffs :
        /\ record[h].status \in {"expired", "gone"} => Expired(h)
        /\ record[h].status = "polling"
                => record[h].claimUntil <= LeaseEnd(record[h].expiresAt)
        /\ Backend = "redis" /\ record[h].status \notin {"none", "gone"}
                => record[h].expiresAt <= record[h].keyTtl

\* The steps that act on what a read returned, or read again.
ReadingSteps == {"reread", "expire", "claim", "reclaim"}

\* What a handler decided on its snapshot holds while update() would accept it:
\* the handoff has expired, is free to claim, or its claim ran out.  A handler
\* reads again only after another one moved the document on.
CurrentInv ==
    \A w \in Workers : task[w].pc \in ReadingSteps =>
        LET h == task[w].handoff IN
        Matches(h, task[w].version) =>
            /\ task[w].pc # "reread"
            /\ task[w].pc = "expire" => Expired(h)
            /\ task[w].pc = "claim" => record[h].status = "pending"
            /\ task[w].pc = "reclaim" => /\ record[h].status = "polling"
                                         /\ record[h].claimUntil <= now

\* Where the handlers are and what they hold.
HandlerInv ==
    /\ TypeOK
    /\ RecordInv
    /\ StartInv
    /\ OpInv
    /\ SnapshotInv

\* The whole: each part is preserved with the help of the others.
IndInv ==
    /\ HandlerInv
    /\ RegisterInv
    /\ NonceInv
    /\ SubjectInv
    /\ CompleteInv
    /\ ActiveIndex
    /\ OneResultPerDependency
    /\ OneResultPerSubject
    /\ ExclusiveClaim
    /\ CompletionIsOwnResult
    /\ LifetimeInv
    /\ CurrentInv

=============================================================================
