---------------------------- MODULE WorldSessions ----------------------------
(***************************************************************************)
(* World ceremonies under the brokered handoff service: the sessions that   *)
(* createWorldIdHandoffAdapter keeps in the memory of its process           *)
(* (src/src/providers/world-id-client.ts) and the handoff handlers that     *)
(* open, poll and drop them (src/src/handoff.ts).  World's bridge cannot    *)
(* resume a session, so what the process forgets is lost.                   *)
(*                                                                         *)
(* One process serves all requests (the chart enforces one replica); the    *)
(* documents are in a shared store and outlive it.  A ceremony and the      *)
(* handoff that is started for it share an identifier.  getAuthorized and   *)
(* its lazy expiry are one step here; module Verifier takes them apart.     *)
(***************************************************************************)
EXTENDS Naturals, FiniteSets

CONSTANTS
    Starters,    \* requests that start handoffs at the same time
    Polls,       \* requests that poll or cancel them
    Ceremonies,  \* World requests, each with a requestId of its own
    Deps,        \* dependencies
    None,        \* "undefined"
    Maximum,     \* maximumActiveSessions
    ClaimTTL,    \* max(10 s, 3 * pollAfterMs)
    MaxTime,     \* bound of the clock
    MaxVersion   \* bound: no new poll of a document above this version

ASSUME SessionsAssumption ==
    /\ IsFiniteSet(Starters) /\ IsFiniteSet(Ceremonies)
    /\ None \notin Ceremonies \union Deps
    /\ Maximum \in Nat \ {0}
    /\ ClaimTTL \in Nat \ {0}
    /\ MaxTime \in Nat /\ MaxVersion \in Nat

VARIABLES
    now,       \* the clock
    starter,   \* where each start is
    session,   \* the adapter's map, and how a session left it
    document,  \* the stored handoffs
    request    \* where each poll or cancel is, and what it was answered

vars == <<now, starter, session, document, request>>

-----------------------------------------------------------------------------
(* Types *)

Live == {"pending", "polling"}
\* Why a poll failed: no session, World's own answer, a throw, or a throw of
\* the store, which may have stored all the same.
Codes == {"none", "lost", "world", "error", "store"}

Starter == [pc : {"idle", "bridge", "create"}, dep : Deps \union {None},
            ceremony : Ceremonies \union {None}]

\* state: in the map, or what took it out of the map; until: the end of the
\* claim of the poll that took it.
Session == [state : {"unused", "open", "expired", "confirmed", "failed",
                     "cancelled", "lost"},
            dep : Deps \union {None}, expiresAt : Nat, until : Nat]

\* code: failureCode; of a cancelled handoff, why its session stayed.
Document == [status : Live \union {"none", "completed", "failed", "expired", "cancelled"},
             code : Codes, version : Nat, expiresAt : Nat, lease : Nat]

Steps == {"idle", "reclaim", "claim", "ask", "bridge", "satisfy", "complete",
          "release", "fail", "drop", "cancel"}

\* version: of the snapshot; until: the end of this poll's claim; answer: what
\* ended the agent's call, when this poll has answered it.
Request == [pc : Steps, handoff : Ceremonies \union {None}, version : Nat,
            until : Nat, code : Codes, answer : {"none", "completed", "failed"}]

FreeStarter == [pc |-> "idle", dep |-> None, ceremony |-> None]
FreeRequest == [pc |-> "idle", handoff |-> None, version |-> 0, until |-> 0,
                code |-> "none", answer |-> "none"]

TypeOK ==
    /\ now \in Nat
    /\ starter \in [Starters -> Starter]
    /\ session \in [Ceremonies -> Session]
    /\ document \in [Ceremonies -> Document]
    /\ request \in [Polls -> Request]

Init ==
    /\ now = 0
    /\ starter = [s \in Starters |-> FreeStarter]
    /\ session = [c \in Ceremonies |->
           [state |-> "unused", dep |-> None, expiresAt |-> 0, until |-> 0]]
    /\ document = [c \in Ceremonies |->
           [status |-> "none", code |-> "none", version |-> 0, expiresAt |-> 0, lease |-> 0]]
    /\ request = [p \in Polls |-> FreeRequest]

-----------------------------------------------------------------------------
(* The adapter's map of sessions *)

Open == {c \in Ceremonies : session[c].state = "open"}

\* cleanupExpired
Swept == [c \in Ceremonies |->
    IF c \in Open /\ session[c].expiresAt <= now
      THEN [session[c] EXCEPT !.state = "expired"] ELSE session[c]]

\* sessions.delete(requestId)
Deleted(c, why, until) ==
    IF c \in Open THEN [session EXCEPT ![c].state = why, ![c].until = until]
                  ELSE session

-----------------------------------------------------------------------------
(* HumanHandoffService.start *)

\* Mutant: the comparison is off by one.
RoomForOneMore(sessions) ==
    Cardinality({c \in Ceremonies : sessions[c].state = "open"}) <= Maximum

\* sessions.size < maximum
Room(sessions) ==
    Cardinality({c \in Ceremonies : sessions[c].state = "open"}) < Maximum

\* Mutant: a full adapter throws before it cleans up.
SweptAtStartIfRoom == IF Room(session) THEN Swept ELSE session

SweptAtStart == Swept

\* startHandoff up to its await: clean up, compare, ask World's bridge.
StartHandoff(s, d) ==
    /\ starter[s].pc = "idle"
    /\ session' = SweptAtStart
    /\ starter' = IF Room(session')
                    THEN [starter EXCEPT ![s].pc = "bridge", ![s].dep = d] ELSE starter
    /\ UNCHANGED <<now, document, request>>

\* The bridge answers and the session is kept, until the request to World
\* expires; or the bridge fails, or answers too late.
OpenSession(s) ==
    /\ starter[s].pc = "bridge"
    /\ \/ \E c \in Ceremonies, expiresAt \in now + 1 .. MaxTime :
            /\ session[c].state = "unused"
            /\ session' = [session EXCEPT ![c] = [state |-> "open", until |-> 0,
                               dep |-> starter[s].dep, expiresAt |-> expiresAt]]
            /\ starter' = [starter EXCEPT ![s].pc = "create", ![s].ceremony = c]
       \/ starter' = [starter EXCEPT ![s] = FreeStarter] /\ UNCHANGED session
    /\ UNCHANGED <<now, document, request>>

Active(d) ==
    \E c \in Ceremonies : session[c].dep = d /\ document[c].status \in Live

\* The rest of start(): the handoff ends with the requirement or the session,
\* whichever is first.  Where create() refuses, or anything throws, nobody
\* tells the adapter.
CreateHandoff(s) ==
    LET c == starter[s].ceremony
    IN /\ starter[s].pc = "create"
       /\ \/ /\ ~Active(starter[s].dep)
             /\ \E expiresAt \in now + 1 .. session[c].expiresAt :
                  document' = [document EXCEPT ![c] =
                      [status |-> "pending", code |-> "none", version |-> 1,
                       expiresAt |-> expiresAt, lease |-> 0]]
          \/ UNCHANGED document
       /\ starter' = [starter EXCEPT ![s] = FreeStarter]
       /\ UNCHANGED <<now, session, request>>

-----------------------------------------------------------------------------
(* HumanHandoffService.poll *)

Doc(p) == document[request[p].handoff]

Goto(p, step) == request' = [request EXCEPT ![p].pc = step]
GiveUp(p, code) == request' = [request EXCEPT ![p].pc = "fail", ![p].code = code]

\* The request ends with an answer that the agent goes on from, or ends on.
Reply(p) == request' = [request EXCEPT ![p] = FreeRequest]
ReplyAtLast(p, answer) ==
    request' = [request EXCEPT ![p] = [FreeRequest EXCEPT
        !.handoff = request[p].handoff, !.answer = answer,
        !.until = request[p].until, !.code = request[p].code]]

\* A fresh request for handoff c goes on with its snapshot of the document.
GoOn(p, c, step) ==
    request' = [request EXCEPT ![p] = [FreeRequest EXCEPT
        !.handoff = c, !.pc = step, !.version = document[c].version]]

\* getAuthorized: a live document past its expiry is expired first.
Overdue(c) == document[c].status \in Live /\ document[c].expiresAt <= now

ExpireDocument(c) ==
    document' = [document EXCEPT ![c].status = "expired", ![c].version = @ + 1]

\* Mutant: any poll takes the claim of another one back.
AnyLease(c) == TRUE

LeaseOver(c) == document[c].lease <= now

\* A request for a handoff that has ended only reads, and is left out.
Poll(p, c) ==
    LET status == document[c].status
    IN /\ request[p].pc = "idle"
       /\ status \in Live /\ document[c].version <= MaxVersion
       /\ IF Overdue(c) THEN ExpireDocument(c) /\ Reply(p)
          ELSE /\ UNCHANGED document
               /\ CASE status = "pending" -> GoOn(p, c, "claim")
                    [] status = "polling" /\ LeaseOver(c) -> GoOn(p, c, "reclaim")
                    [] OTHER -> Reply(p)
       /\ UNCHANGED <<now, starter, session>>

\* update(): a compare-and-swap of the snapshot's version.
Wins(p) == Doc(p).version = request[p].version

Store(p, status, code, lease) ==
    document' = [document EXCEPT ![request[p].handoff] =
        [status |-> status, code |-> code, version |-> request[p].version + 1,
         expiresAt |-> Doc(p).expiresAt, lease |-> lease]]

LeaseEnd(p) ==
    IF Doc(p).expiresAt < now + ClaimTTL THEN Doc(p).expiresAt ELSE now + ClaimTTL

\* What each step that calls the store stores.
Update(p) ==
    CASE request[p].pc \in {"reclaim", "release"} -> Store(p, "pending", "none", 0)
      [] request[p].pc = "claim" -> Store(p, "polling", "none", LeaseEnd(p))
      [] request[p].pc = "complete" -> Store(p, "completed", "none", 0)
      [] request[p].pc = "fail" -> Store(p, "failed", request[p].code, 0)
      [] request[p].pc = "cancel" -> Store(p, "cancelled", request[p].code, 0)

Won(p, step, until) ==
    request' = [request EXCEPT ![p].pc = step, ![p].version = @ + 1, ![p].until = until]

Reclaim(p) ==
    /\ request[p].pc = "reclaim"
    /\ IF Wins(p) THEN Update(p) /\ Won(p, "claim", 0)
       ELSE UNCHANGED document /\ Reply(p)
    /\ UNCHANGED <<now, starter, session>>

Claim(p) ==
    /\ request[p].pc = "claim"
    /\ IF Wins(p) THEN Update(p) /\ Won(p, "ask", LeaseEnd(p))
       ELSE UNCHANGED document /\ Reply(p)
    /\ UNCHANGED <<now, starter, session>>

\* unprotect, then pollHandoff up to its await: clean up and look it up.
Ask(p) ==
    /\ request[p].pc = "ask"
    /\ \/ GiveUp(p, "error") /\ UNCHANGED session
       \/ /\ session' = Swept
          /\ IF session'[request[p].handoff].state = "open" THEN Goto(p, "bridge")
             ELSE GiveUp(p, "lost")
    /\ UNCHANGED <<now, starter, document>>

\* Mutant: the session is deleted whatever the bridge says.
TakesAlways(outcome) == TRUE

\* The bridge's final answers take the session out of the map, before anything
\* is stored.
Takes(outcome) == outcome \in {"confirmed", "failed"}

\* pollOnce answers, or throws: then the session stays.
Answer(p) ==
    /\ request[p].pc = "bridge"
    /\ \E outcome \in {"pending", "confirmed", "failed", "throws"} :
         /\ session' = IF Takes(outcome)
                         THEN Deleted(request[p].handoff, outcome, request[p].until)
                         ELSE session
         /\ CASE outcome = "pending" -> Goto(p, "release")
              [] outcome = "confirmed" -> Goto(p, "satisfy")
              [] outcome = "failed" -> GiveUp(p, "world")
              [] outcome = "throws" -> GiveUp(p, "error")
    /\ UNCHANGED <<now, starter, document>>

\* The requirement is looked up and satisfied; each may fail or throw.
Satisfy(p) ==
    /\ request[p].pc = "satisfy"
    /\ Goto(p, "complete") \/ GiveUp(p, "error")
    /\ UNCHANGED <<now, starter, session, document>>

\* A completion that lost its claim throws, into the catch of poll().
Complete(p) ==
    /\ request[p].pc = "complete"
    /\ IF Wins(p) THEN Update(p) /\ ReplyAtLast(p, "completed")
       ELSE UNCHANGED document /\ GiveUp(p, "error")
    /\ UNCHANGED <<now, starter, session>>

\* Neither looks whether its update was lost.
Release(p) ==
    /\ request[p].pc = "release"
    /\ IF Wins(p) THEN Update(p) ELSE UNCHANGED document
    /\ Reply(p)
    /\ UNCHANGED <<now, starter, session>>

FailClaimed(p) ==
    /\ request[p].pc = "fail"
    /\ IF Wins(p) THEN Update(p) ELSE UNCHANGED document
    /\ ReplyAtLast(p, "failed")
    /\ UNCHANGED <<now, starter, session>>

-----------------------------------------------------------------------------
(* HumanHandoffService.cancel *)

Cancel(p, c) ==
    /\ request[p].pc = "idle"
    /\ document[c].status \in Live
    /\ IF Overdue(c) THEN ExpireDocument(c) /\ Reply(p)
                     ELSE UNCHANGED document /\ GoOn(p, c, "drop")
    /\ UNCHANGED <<now, starter, session>>

\* Mutant: a cancelled ceremony is left to its expiry.
DroppedNot(p) == session

Dropped(p) == Deleted(request[p].handoff, "cancelled", 0)

\* cancelHandoff, before the document is cancelled; a throw is swallowed.
Drop(p) ==
    /\ request[p].pc = "drop"
    /\ \/ session' = Dropped(p) /\ Goto(p, "cancel")
       \/ /\ UNCHANGED session
          /\ request' = [request EXCEPT ![p].pc = "cancel", ![p].code = "error"]
    /\ UNCHANGED <<now, starter, document>>

CancelDocument(p) ==
    /\ request[p].pc = "cancel"
    /\ IF Wins(p) THEN Update(p) ELSE UNCHANGED document
    /\ Reply(p)
    /\ UNCHANGED <<now, starter, session>>

-----------------------------------------------------------------------------
(* The store, the process and time *)

\* The store's call throws, and may have swapped the document all the same.  In
\* the try block of poll() the request goes on to fail the handoff.
StoreFails(p) ==
    /\ \/ request[p].pc \in {"reclaim", "claim", "fail", "cancel"} /\ Reply(p)
       \/ request[p].pc \in {"complete", "release"} /\ GiveUp(p, "store")
    /\ UNCHANGED document \/ (Wins(p) /\ Update(p))
    /\ UNCHANGED <<now, starter, session>>

\* The process is replaced: what it served and its map are gone.
Restart ==
    /\ starter' = [s \in Starters |-> FreeStarter]
    /\ request' = [p \in Polls |-> FreeRequest]
    /\ session' = [c \in Ceremonies |-> IF c \in Open
                      THEN [session[c] EXCEPT !.state = "lost"] ELSE session[c]]
    /\ UNCHANGED <<now, document>>

Tick ==
    /\ now < MaxTime
    /\ now' = now + 1
    /\ UNCHANGED <<starter, session, document, request>>

Starting(s) ==
    \/ \E d \in Deps : StartHandoff(s, d)
    \/ OpenSession(s) \/ CreateHandoff(s)

Serving(p) ==
    \/ \E c \in Ceremonies : Poll(p, c) \/ Cancel(p, c)
    \/ Reclaim(p) \/ Claim(p) \/ Ask(p) \/ Answer(p) \/ Satisfy(p)
    \/ Complete(p) \/ Release(p) \/ FailClaimed(p)
    \/ Drop(p) \/ CancelDocument(p) \/ StoreFails(p)

Next ==
    \/ \E s \in Starters : Starting(s)
    \/ \E p \in Polls : Serving(p)
    \/ Restart
    \/ Tick

Spec == Init /\ [][Next]_vars

\* Time passes, and clients go on asking for handoffs; the bridge answers or
\* its call fails.  Nobody needs to poll or to cancel.
FairSpec == Spec /\ WF_vars(Tick) /\ \A s \in Starters : WF_vars(Starting(s))

-----------------------------------------------------------------------------
(* Properties *)

Bridging == {s \in Starters : starter[s].pc = "bridge"}

\* Capacity.  The map's size is compared before the await and the session is
\* added after it, so concurrent starts overshoot the maximum; but the sessions
\* and the starts that may yet add one are no more than the maximum less one and
\* one for each concurrent start (startHandoff).
SessionsBounded ==
    Cardinality(Open) + Cardinality(Bridging) <= Maximum - 1 + Cardinality(Starters)

\* Capacity comes back: a map that is full of abandoned ceremonies makes room
\* as soon as they have expired, with no poll and no cancel (startHandoff).
Full == Cardinality(Open) >= Maximum
CapacityReturns == Full ~> ~Full

\* Why a session may be missing at a poll.
Explained(c) ==
    \/ session[c].state \in {"lost", "cancelled"}
    \/ session[c].state = "expired" /\ document[c].expiresAt <= now
    \/ session[c].state \in {"confirmed", "failed"} /\ session[c].until <= now

\* A handoff fails with WORLD_SESSION_LOST only when the process was replaced, a
\* cancel dropped the session and lost the document to a poll, time was up, or
\* the poll that took the session outlived its claim (pollHandoff, cancel).
LossExplained ==
    \A c \in Ceremonies :
        document[c].status = "failed" /\ document[c].code = "lost" => Explained(c)

Honest(p) ==
    LET answer == request[p].answer
        status == Doc(p).status
    IN request[p].pc = "idle" =>
         /\ answer = "completed" => status = "completed"
         /\ answer = "failed" =>
              \/ status \in {"failed", "expired", "cancelled"}
              \/ request[p].until <= now \/ request[p].code = "store"

\* What a poll tells the agent, which ends its call on it, is how the handoff
\* ended; "failed" is untrue only of a poll that outlived its claim, or whose
\* store threw after it had stored (#failClaimed, poll).
AnswerHonest == \A p \in Polls : Honest(p)

\* No session outlives its handoff, but for the clock, for an ending by a throw
\* and for a start that was refused after it had opened the session; all of
\* these wait for their expiry (cancel, pollHandoff, start).
SessionReleased ==
    \A c \in Open :
        \/ document[c].status \in Live \union {"none"}
        \/ document[c].status = "expired" /\ document[c].expiresAt <= now
        \/ document[c].status \in {"failed", "cancelled"} /\ document[c].code \in {"error", "store"}
=============================================================================
