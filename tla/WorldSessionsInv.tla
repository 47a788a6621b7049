-------------------------- MODULE WorldSessionsInv --------------------------
(***************************************************************************)
(* The inductive invariant of WorldSessions: what the starts, the polls,    *)
(* the documents and the adapter's map know of each other.                  *)
(***************************************************************************)
EXTENDS WorldSessions

\* A ceremony has a session before it has a document, which ends first.
DocumentInv ==
    \A c \in Ceremonies :
        /\ session[c].state = "unused" => document[c].status = "none"
        /\ document[c].status # "none" => document[c].expiresAt <= session[c].expiresAt
        /\ session[c].state = "expired" => session[c].expiresAt <= now

\* A start that has a session is the only one to make a handoff of it.
StarterInv ==
    \A s \in Starters :
        /\ starter[s].pc # "create" => starter[s].ceremony = None
        /\ starter[s].pc = "create" =>
            /\ starter[s].ceremony \in Ceremonies
            /\ session[starter[s].ceremony].state # "unused"
            /\ document[starter[s].ceremony].status = "none"
            /\ \A t \in Starters \ {s} : starter[t].ceremony # starter[s].ceremony

Claimed == {"ask", "bridge", "satisfy", "complete", "release", "fail"}

\* A request works on a stored document and holds a snapshot no newer than it;
\* while the snapshot is current, the document is what it was when it was read.
SnapshotInv(p) ==
    /\ request[p].answer # "none" => request[p].handoff \in Ceremonies
    /\ request[p].pc # "idle" =>
        /\ request[p].handoff \in Ceremonies
        /\ Doc(p).status # "none"
        /\ request[p].version <= Doc(p).version
        /\ Wins(p) =>
             /\ Doc(p).status \in Live
             /\ request[p].pc = "claim" => Doc(p).status = "pending"
             /\ request[p].pc = "reclaim" => Doc(p).status = "polling" /\ LeaseOver(request[p].handoff)
             /\ request[p].pc \in Claimed =>
                  Doc(p).status = "polling" /\ Doc(p).lease = request[p].until

\* A claim that is no longer current has run out, or the handoff has ended, or
\* the poll has itself moved it on without knowing.
ClaimInv(p) ==
    request[p].pc \in Claimed =>
        \/ Wins(p) \/ request[p].until <= now
        \/ Doc(p).status \in {"failed", "expired", "cancelled"}
        \/ request[p].pc = "fail" /\ request[p].code = "store"

\* Two polls never hold current claims of one handoff.
ExclusiveInv ==
    \A p, q \in Polls :
        /\ request[p].pc \in Claimed /\ request[q].pc \in Claimed
        /\ request[p].handoff = request[q].handoff
        /\ request[p].version = request[q].version
        => p = q

\* What a request has done to its session, or found out about it.
SessionInv(p) ==
    LET h == request[p].handoff
    IN /\ request[p].pc \in {"satisfy", "complete"} => h \notin Open
       /\ request[p].pc = "fail" =>
            /\ request[p].code # "none"
            /\ request[p].code \in {"lost", "world"} => h \notin Open
       /\ request[p].pc = "cancel" => h \notin Open \/ request[p].code = "error"

LostInv(p) ==
    request[p].pc = "fail" /\ request[p].code = "lost" /\ Wins(p) => Explained(request[p].handoff)

\* A poll takes the session of its handoff; while its claim lasts, nobody else
\* has a current claim from which to ask for it.
TakerInv ==
    \A c \in Ceremonies :
        session[c].state \in {"confirmed", "failed"} =>
            /\ document[c].status # "none"
            /\ session[c].until > now =>
                 \/ document[c].status \notin Live
                 \/ /\ document[c].status = "polling"
                    /\ document[c].lease = session[c].until
                    /\ \A p \in Polls :
                         request[p].handoff = c /\ request[p].pc \in {"ask", "bridge", "release"}
                         => ~Wins(p)

RequestInv ==
    \A p \in Polls : SnapshotInv(p) /\ ClaimInv(p) /\ SessionInv(p) /\ LostInv(p)

IndInv ==
    /\ TypeOK
    /\ SessionsBounded
    /\ DocumentInv
    /\ StarterInv
    /\ RequestInv
    /\ ExclusiveInv
    /\ TakerInv
    /\ LossExplained
    /\ AnswerHonest
    /\ SessionReleased
=============================================================================
