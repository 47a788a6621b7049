------------------------- MODULE WorldSessionsProofs -------------------------
(***************************************************************************)
(* Proofs about WorldSessions for any number of starts, polls, ceremonies   *)
(* and any capacity: the capacity, what explains a lost session, what a     *)
(* poll may answer and which sessions outlive their handoff all follow from *)
(* the inductive invariant of WorldSessionsInv.                             *)
(***************************************************************************)
EXTENDS WorldSessionsInv, FiniteSetTheorems, TLAPS

-----------------------------------------------------------------------------
(* What the steps have in common *)

\* Sessions only leave the map.
Closing ==
    /\ session' \in [Ceremonies -> Session]
    /\ \A c \in Ceremonies :
         \/ session'[c] = session[c]
         \/ /\ c \in Open
            /\ session'[c].state \notin {"open", "unused"}
            /\ session'[c].state = "expired" => session[c].expiresAt <= now
            /\ session'[c].expiresAt = session[c].expiresAt

\* At most the document of h moves on, from a live status.
Moving(h) ==
    /\ document' \in [Ceremonies -> Document]
    /\ \A c \in Ceremonies : c # h => document'[c] = document[c]
    /\ \/ document' = document
       \/ /\ h \in Ceremonies
          /\ document[h].status \in Live
          /\ document'[h].status # "none"
          /\ document'[h].version = document[h].version + 1
          /\ document'[h].expiresAt = document[h].expiresAt

\* Where it does, no current claim of another request is passed over, and what the
\* document becomes agrees with its session.
Fits(p, h) ==
    document' # document =>
        /\ \/ document'[h].status \in {"failed", "expired", "cancelled"}
           \/ document[h].status = "pending"
           \/ document[h].lease <= now
           \/ \A q \in Polls \ {p} :
                ~(request[q].pc \in Claimed /\ request[q].handoff = h /\ Wins(q))
        /\ \/ document'[h].status \notin Live
           \/ document[h].status = "pending"
           \/ document[h].lease <= now
           \/ request[p].pc = "release" /\ request[p].handoff = h /\ Wins(p)
        /\ document'[h].status = "failed" /\ document'[h].code = "lost" => Explained(h)
        /\ \/ h \notin Open
           \/ document'[h].status \in Live
           \/ document'[h].status = "expired" /\ document[h].expiresAt <= now
           \/ /\ document'[h].status \in {"failed", "cancelled"}
              /\ document'[h].code \in {"error", "store"}

Alone(p) ==
    /\ request' \in [Polls -> Request]
    /\ \A q \in Polls \ {p} : request'[q] = request[q]

\* Deleted and Swept, as operators on the map, only close sessions.
LEMMA SweptCloses ==
    ASSUME TypeOK, session' = Swept PROVE Closing
BY DEF TypeOK, Swept, Closing, Session, Open

LEMMA DeletedCloses ==
    ASSUME TypeOK, NEW h \in Ceremonies, NEW until \in Nat,
           NEW why \in {"confirmed", "failed", "cancelled"},
           session' = Deleted(h, why, until)
    PROVE  Closing
<1>1. session \in [Ceremonies -> Session]
  BY DEF TypeOK
<1>2. CASE h \in Open
  <2>1. session' = [session EXCEPT ![h].state = why, ![h].until = until]
    BY <1>2 DEF Deleted
  <2>2. /\ session' \in [Ceremonies -> Session]
        /\ session'[h].state = why /\ session'[h].expiresAt = session[h].expiresAt
        /\ \A c \in Ceremonies \ {h} : session'[c] = session[c]
    <3> DEFINE new == [session[h] EXCEPT !.state = why, !.until = until]
    <3>1. new \in Session /\ new.state = why /\ new.expiresAt = session[h].expiresAt
      BY <1>1 DEF Session
    <3>2. session' = [session EXCEPT ![h] = new]
      BY <2>1
    <3> HIDE DEF new
    <3> QED
      BY <1>1, <3>1, <3>2
  <2> QED
    BY <1>2, <2>2 DEF Closing
<1>3. CASE h \notin Open
  BY <1>1, <1>3 DEF Deleted, Closing
<1> QED
  BY <1>2, <1>3

LEMMA Same == ASSUME TypeOK, UNCHANGED session PROVE Closing
BY DEF TypeOK, Closing

LEMMA OpenFinite ==
    ASSUME TypeOK
    PROVE  /\ IsFiniteSet(Open) /\ IsFiniteSet(Bridging)
           /\ Cardinality(Open) \in Nat /\ Cardinality(Bridging) \in Nat
           /\ Cardinality(Starters) \in Nat
           /\ Cardinality(Bridging) <= Cardinality(Starters)
<1>1. IsFiniteSet(Open)
  BY SessionsAssumption, FS_Subset DEF SessionsAssumption, Open
<1>2. Bridging \subseteq Starters
  BY DEF Bridging
<1>3. IsFiniteSet(Bridging) /\ Cardinality(Bridging) <= Cardinality(Starters)
  BY <1>2, SessionsAssumption, FS_Subset DEF SessionsAssumption
<1> QED
  BY <1>1, <1>3, SessionsAssumption, FS_CardinalityType DEF SessionsAssumption

\* Where sessions only leave the map and no start passes its comparison, the
\* capacity is kept.
LEMMA CapacityKept ==
    ASSUME TypeOK, SessionsBounded, Closing,
           starter' = starter \/ \A s \in Starters :
               starter'[s].pc = "bridge" => starter[s].pc = "bridge"
    PROVE  SessionsBounded'
<1>1. Open' \subseteq Open
  BY DEF Closing, Open
<1>2. Bridging' \subseteq Bridging
  BY DEF Bridging
<1>3. IsFiniteSet(Open) /\ IsFiniteSet(Bridging)
  BY OpenFinite
<1>4. /\ Cardinality(Open') <= Cardinality(Open) /\ Cardinality(Open') \in Nat
      /\ Cardinality(Bridging') <= Cardinality(Bridging) /\ Cardinality(Bridging') \in Nat
  BY <1>1, <1>2, <1>3, FS_Subset, FS_CardinalityType
<1> QED
  BY <1>4, OpenFinite, SessionsAssumption DEF SessionsBounded, SessionsAssumption

\* Closing sessions and moving a document on keeps what starts and documents
\* know of each other.
LEMMA MapKept ==
    ASSUME TypeOK, DocumentInv, StarterInv, NEW h, Closing, Moving(h),
           UNCHANGED <<now, starter>>
    PROVE  DocumentInv' /\ StarterInv'
<1>1. DocumentInv'
  <2> SUFFICES ASSUME NEW c \in Ceremonies
               PROVE  /\ session'[c].state = "unused" => document'[c].status = "none"
                      /\ document'[c].status # "none" =>
                           document'[c].expiresAt <= session'[c].expiresAt
                      /\ session'[c].state = "expired" => session'[c].expiresAt <= now'
    BY DEF DocumentInv
  <2>1. session'[c].state = "unused" => session[c].state = "unused"
    BY DEF Closing
  <2>2. session'[c].expiresAt = session[c].expiresAt
    BY DEF Closing
  <2>3. /\ document'[c].status # "none" => document[c].status # "none"
        /\ document'[c].expiresAt = document[c].expiresAt
        /\ document[c].status = "none" => document'[c].status = "none"
    BY DEF Moving, Live
  <2>4. session'[c].state = "expired" => session[c].expiresAt <= now
    BY DEF Closing, DocumentInv
  <2> QED
    BY <2>1, <2>2, <2>3, <2>4 DEF DocumentInv
<1>2. StarterInv'
  BY DEF StarterInv, Closing, Moving, Live
<1> QED
  BY <1>1, <1>2

\* What explains a missing session goes on explaining it.
LEMMA ExplainedKept ==
    ASSUME NEW c \in Ceremonies, Closing, Explained(c), UNCHANGED now,
           document'[c].expiresAt = document[c].expiresAt
    PROVE  Explained(c)'
<1>1. c \notin Open
  BY DEF Explained, Open
<1>2. session'[c] = session[c]
  BY <1>1 DEF Closing
<1> QED
  BY <1>2 DEF Explained

\* The requests that a step of p leaves alone keep what they know: one whose
\* document moved on holds an older version now.
LEMMA OthersKept ==
    ASSUME TypeOK, DocumentInv, RequestInv, AnswerHonest, NEW p \in Polls, NEW h,
           Closing, Moving(h), Alone(p), Fits(p, h), UNCHANGED now
    PROVE  \A q \in Polls \ {p} :
               (SnapshotInv(q) /\ ClaimInv(q) /\ SessionInv(q) /\ LostInv(q) /\ Honest(q))'
<1> SUFFICES ASSUME NEW q \in Polls \ {p}
             PROVE  (SnapshotInv(q) /\ ClaimInv(q) /\ SessionInv(q) /\ LostInv(q) /\ Honest(q))'
  OBVIOUS
<1>1. request'[q] = request[q]
  BY DEF Alone
<1>2. /\ SnapshotInv(q) /\ ClaimInv(q) /\ SessionInv(q) /\ LostInv(q) /\ Honest(q)
      /\ request[q] \in Request
  BY DEF RequestInv, AnswerHonest, TypeOK
<1>3. CASE request[q].pc = "idle" /\ request[q].answer = "none"
  BY <1>1, <1>3 DEF SnapshotInv, ClaimInv, SessionInv, LostInv, Honest, Claimed
<1>4. CASE request[q].pc # "idle" \/ request[q].answer # "none"
  <2> DEFINE c == request[q].handoff
  <2>1. c \in Ceremonies
    BY <1>2, <1>4 DEF SnapshotInv
  <2>2. Doc(q) = document[c] /\ Doc(q)' = document'[c]
    BY <1>1 DEF Doc
  <2>3. document[c] \in Document /\ session[c] \in Session /\ now \in Nat
    BY <2>1 DEF TypeOK
  <2>4. c \in Open' => c \in Open
    BY <2>1 DEF Closing, Open
  <2>5. c \notin Open => session'[c] = session[c]
    BY <2>1 DEF Closing
  <2>6. SessionInv(q)'
    BY <1>1, <1>2, <2>1, <2>4 DEF SessionInv
  <2>7. CASE document'[c] = document[c]
    <3>1. Wins(q)' = Wins(q)
      BY <1>1, <2>2, <2>7 DEF Wins
    <3>2. SnapshotInv(q)'
      BY <1>1, <1>2, <2>2, <2>7, <3>1 DEF SnapshotInv, LeaseOver
    <3>3. ClaimInv(q)'
      BY <1>1, <1>2, <2>2, <2>7, <3>1 DEF ClaimInv
    <3>4. LostInv(q)'
      <4>1. request[q].pc = "fail" /\ request[q].code = "lost" /\ Wins(q)
            => Explained(request[q].handoff)
        BY <1>2 DEF LostInv
      <4>2. Explained(request[q].handoff) => Explained(request[q].handoff)'
        BY <1>1, <2>1, <2>7, ExplainedKept
      <4> QED
        BY <1>1, <3>1, <4>1, <4>2 DEF LostInv
    <3>5. Honest(q)'
      BY <1>1, <1>2, <2>2, <2>7 DEF Honest
    <3> QED
      BY <2>6, <3>2, <3>3, <3>4, <3>5
  <2>8. CASE document'[c] # document[c]
    <3>1. /\ c = h /\ document' # document
          /\ document[c].status \in Live
          /\ document'[c].status # "none"
          /\ document'[c].version = document[c].version + 1
      BY <2>1, <2>8 DEF Moving
    <3>2. Honest(q)'
      BY <1>1, <1>2, <2>2, <3>1 DEF Honest, Live
    <3>3. request[q].pc # "idle" => request[q].version <= document[c].version
      BY <1>2, <2>2 DEF SnapshotInv
    <3>4. request[q].pc # "idle" => ~Wins(q)'
      BY <1>1, <2>2, <2>3, <3>1, <3>3, <1>2 DEF Wins, Request, Document
    <3>5. SnapshotInv(q)'
      BY <1>1, <1>2, <2>1, <2>2, <2>3, <3>1, <3>3, <3>4 DEF SnapshotInv, Request, Document
    <3>6. LostInv(q)'
      BY <1>1, <3>4 DEF LostInv
    <3>7. ClaimInv(q)'
      <4> SUFFICES ASSUME request[q].pc \in Claimed
                   PROVE  \/ request[q].until <= now
                          \/ document'[c].status \in {"failed", "expired", "cancelled"}
                          \/ request[q].pc = "fail" /\ request[q].code = "store"
        BY <1>1, <2>2 DEF ClaimInv
      <4>1. CASE ~Wins(q)
        BY <1>2, <2>2, <3>1, <4>1 DEF ClaimInv, Live
      <4>2. CASE Wins(q)
        <5>1. document[c].status = "polling" /\ document[c].lease = request[q].until
          BY <1>2, <2>2, <4>2 DEF SnapshotInv, Claimed
        <5> QED
          BY <3>1, <4>2, <5>1 DEF Fits
      <4> QED
        BY <4>1, <4>2
    <3> QED
      BY <2>6, <3>2, <3>5, <3>6, <3>7
  <2> QED
    BY <2>7, <2>8
<1> QED
  BY <1>3, <1>4
-----------------------------------------------------------------------------
(* The steps of a request *)

\* What a step of request p has to show by itself.
Own(p) ==
    /\ SnapshotInv(p) /\ ClaimInv(p) /\ SessionInv(p) /\ LostInv(p) /\ Honest(p)
    /\ \A q \in Polls \ {p} :
         ~ /\ request[p].pc \in Claimed /\ request[q].pc \in Claimed
           /\ request[p].handoff = request[q].handoff
           /\ request[p].version = request[q].version

\* The claims of one handoff stay apart where a step keeps its snapshot.
LEMMA ApartKept ==
    ASSUME ExclusiveInv, NEW p \in Polls, Alone(p),
           request[p].pc \in Claimed,
           request'[p].handoff = request[p].handoff,
           request'[p].version = request[p].version
    PROVE  \A q \in Polls \ {p} :
               ~ /\ request'[q].pc \in Claimed
                 /\ request'[p].handoff = request'[q].handoff
                 /\ request'[p].version = request'[q].version
BY DEF ExclusiveInv, Alone

LEMMA RequestKept ==
    ASSUME IndInv, NEW p \in Polls, NEW h,
           Closing, Moving(h), Alone(p), Fits(p, h), UNCHANGED <<now, starter>>,
           Own(p)', TakerInv'
    PROVE  IndInv'
<1>1. /\ TypeOK /\ SessionsBounded /\ DocumentInv /\ StarterInv /\ RequestInv
      /\ ExclusiveInv /\ LossExplained /\ AnswerHonest /\ SessionReleased
  BY DEF IndInv
<1>2. TypeOK'
  BY <1>1 DEF TypeOK, Closing, Moving, Alone
<1>3. SessionsBounded'
  BY <1>1, CapacityKept
<1>4. DocumentInv' /\ StarterInv'
  BY <1>1, MapKept
<1>5. \A q \in Polls \ {p} :
          (SnapshotInv(q) /\ ClaimInv(q) /\ SessionInv(q) /\ LostInv(q) /\ Honest(q))'
  BY <1>1, OthersKept
<1>6. (SnapshotInv(p) /\ ClaimInv(p) /\ SessionInv(p) /\ LostInv(p) /\ Honest(p))'
  BY DEF Own
<1>7. RequestInv' /\ AnswerHonest'
  BY <1>5, <1>6 DEF RequestInv, AnswerHonest
<1>8. ExclusiveInv'
  <2> SUFFICES ASSUME NEW a \in Polls, NEW b \in Polls,
                      request'[a].pc \in Claimed, request'[b].pc \in Claimed,
                      request'[a].handoff = request'[b].handoff,
                      request'[a].version = request'[b].version
               PROVE  a = b
    BY DEF ExclusiveInv
  <2>1. CASE a = p \/ b = p
    BY <2>1 DEF Own
  <2>2. CASE a # p /\ b # p
    BY <1>1, <2>2 DEF Alone, ExclusiveInv
  <2> QED
    BY <2>1, <2>2
<1>9. LossExplained'
  <2> SUFFICES ASSUME NEW c \in Ceremonies,
                      document'[c].status = "failed", document'[c].code = "lost"
               PROVE  Explained(c)'
    BY DEF LossExplained
  <2>1. document'[c].expiresAt = document[c].expiresAt
    BY DEF Moving
  <2>2. CASE document'[c] = document[c]
    BY <1>1, <2>1, <2>2, ExplainedKept DEF LossExplained
  <2>3. CASE document'[c] # document[c]
    <3>1. c = h /\ document' # document
      BY <2>3 DEF Moving
    <3>2. Explained(c)
      BY <3>1 DEF Fits
    <3> QED
      BY <2>1, <3>2, ExplainedKept
  <2> QED
    BY <2>2, <2>3
<1>10. SessionReleased'
  <2> SUFFICES ASSUME NEW c \in Ceremonies, c \in Open'
               PROVE  \/ document'[c].status \in Live \union {"none"}
                      \/ document'[c].status = "expired" /\ document'[c].expiresAt <= now
                      \/ document'[c].status \in {"failed", "cancelled"}
                         /\ document'[c].code \in {"error", "store"}
    BY DEF SessionReleased, Open
  <2>1. c \in Open
    BY DEF Closing, Open
  <2>2. CASE document'[c] = document[c]
    BY <1>1, <2>1, <2>2 DEF SessionReleased
  <2>3. CASE document'[c] # document[c]
    BY <2>1, <2>3 DEF Moving, Fits
  <2> QED
    BY <2>2, <2>3
<1> QED
  BY <1>2, <1>3, <1>4, <1>7, <1>8, <1>9, <1>10 DEF IndInv
\* Of a session that is not taken in this step, nobody asks who did not before.
LEMMA TakerKept ==
    ASSUME TypeOK, TakerInv, NEW p \in Polls, NEW h,
           Closing, Moving(h), Alone(p), UNCHANGED now,
           \A c \in Ceremonies :
               session'[c].state \in {"confirmed", "failed"} => session'[c] = session[c],
           Fits(p, h),
           request'[p].pc \in {"ask", "bridge", "release"} =>
               \/ /\ request[p].pc \in {"ask", "bridge"}
                  /\ request'[p].handoff = request[p].handoff
                  /\ request'[p].version = request[p].version
                  /\ document' = document
               \/ /\ request'[p].handoff = h
                  /\ document[h].status = "pending"
    PROVE  TakerInv'
<1>0. ASSUME NEW c \in Ceremonies, session'[c].state \in {"confirmed", "failed"}
      PROVE  document'[c].status # "none"
  BY <1>0 DEF TakerInv, Moving
<1> SUFFICES ASSUME NEW c \in Ceremonies,
                    session'[c].state \in {"confirmed", "failed"}, session'[c].until > now,
                    document'[c].status \in Live
             PROVE  /\ document'[c].status = "polling"
                    /\ document'[c].lease = session'[c].until
                    /\ \A q \in Polls :
                         request'[q].handoff = c /\ request'[q].pc \in {"ask", "bridge", "release"}
                         => document'[c].version # request'[q].version
  BY <1>0 DEF TakerInv, Wins, Doc
<1>1. session'[c] = session[c]
  OBVIOUS
<1>2. \/ document[c].status \notin Live
      \/ /\ document[c].status = "polling"
         /\ document[c].lease = session[c].until
         /\ \A q \in Polls :
              request[q].handoff = c /\ request[q].pc \in {"ask", "bridge", "release"}
              => document[c].version # request[q].version
  BY <1>1 DEF TakerInv, Wins, Doc
<1>3. document'[c] = document[c]
  <2> SUFFICES ASSUME document'[c] # document[c] PROVE FALSE
    OBVIOUS
  <2>1. c = h /\ document' # document /\ document[c].status \in Live
    BY DEF Moving
  <2>2. document[c].lease > now /\ document[c].status # "pending"
    BY <1>1, <1>2, <2>1
  <2>3. request[p].pc = "release" /\ request[p].handoff = h /\ Wins(p)
    BY <2>1, <2>2 DEF TypeOK, Document, Fits
  <2> QED
    BY <1>2, <2>1, <2>3 DEF Wins, Doc
<1>4. ASSUME NEW q \in Polls, request'[q].handoff = c,
             request'[q].pc \in {"ask", "bridge", "release"}
      PROVE  document'[c].version # request'[q].version
  <2>1. CASE q # p
    BY <1>2, <1>3, <1>4, <2>1 DEF Alone
  <2>2. CASE q = p
    <3>1. ~(c = h /\ document[h].status = "pending")
      BY <1>2, <1>3
    <3>2. request'[p].handoff = c /\ request'[p].pc \in {"ask", "bridge", "release"}
      BY <1>4, <2>2
    <3>3. /\ request[p].pc \in {"ask", "bridge"} /\ request[p].handoff = c
          /\ request'[p].version = request[p].version
      BY <3>1, <3>2
    <3> QED
      BY <1>2, <1>3, <2>2, <3>3
  <2> QED
    BY <2>1, <2>2
<1> QED
  BY <1>1, <1>2, <1>3, <1>4

\* A request at work has a stored handoff.
LEMMA Working ==
    ASSUME IndInv, NEW p \in Polls, request[p].pc # "idle"
    PROVE  /\ request[p].handoff \in Ceremonies
           /\ request[p] \in Request
           /\ document[request[p].handoff] \in Document
           /\ Doc(p).status # "none"
           /\ Doc(p) = document[request[p].handoff]
BY DEF IndInv, RequestInv, SnapshotInv, TypeOK, Doc

LEMMA StoreMoves ==
    ASSUME IndInv, NEW p \in Polls, request[p].pc # "idle", Wins(p),
           NEW status \in Live \union {"completed", "failed", "cancelled"},
           NEW code \in Codes, NEW lease \in Nat,
           Store(p, status, code, lease)
    PROVE  /\ Moving(request[p].handoff)
           /\ document' # document
           /\ document'[request[p].handoff].status = status
           /\ document'[request[p].handoff].code = code
           /\ document'[request[p].handoff].lease = lease
           /\ document'[request[p].handoff].version = request[p].version + 1
           /\ document'[request[p].handoff].expiresAt = document[request[p].handoff].expiresAt
<1>1. /\ request[p].handoff \in Ceremonies /\ request[p] \in Request
      /\ document \in [Ceremonies -> Document]
      /\ Doc(p) = document[request[p].handoff]
  BY Working DEF IndInv, TypeOK
<1>2. Doc(p).status \in Live
  BY DEF IndInv, RequestInv, SnapshotInv
<1>3. Doc(p).version = request[p].version
  BY DEF Wins
<1> DEFINE next == [status |-> status, code |-> code, version |-> request[p].version + 1,
                    expiresAt |-> Doc(p).expiresAt, lease |-> lease]
<1>4. next \in Document
  BY <1>1, Working DEF Document, Request
<1>5. document' = [document EXCEPT ![request[p].handoff] = next]
  BY DEF Store
<1> HIDE DEF next
<1>6. /\ document' \in [Ceremonies -> Document]
      /\ \A c \in Ceremonies : c # request[p].handoff => document'[c] = document[c]
      /\ document'[request[p].handoff] = next
  BY <1>1, <1>4, <1>5
<1>7. document'[request[p].handoff].version # document[request[p].handoff].version
  BY <1>1, <1>3, <1>6, Working DEF Request, next
<1> QED
  BY <1>1, <1>2, <1>3, <1>6, <1>7 DEF Moving, Live, next

LEMMA Unmoved ==
    ASSUME TypeOK, NEW p, NEW h, UNCHANGED document PROVE Moving(h) /\ Fits(p, h)
BY DEF TypeOK, Moving, Fits
\* A request that ends with nothing to tell keeps nothing.
LEMMA ReplyOwn ==
    ASSUME TypeOK, NEW p \in Polls, Reply(p)
    PROVE  Alone(p) /\ Own(p)' /\ request'[p].pc = "idle"
<1>1. FreeRequest \in Request
  BY DEF FreeRequest, Request, Steps, Codes
<1>2. Alone(p) /\ request'[p] = FreeRequest
  BY <1>1 DEF Reply, Alone, TypeOK
<1>3. request'[p].pc = "idle" /\ request'[p].answer = "none"
  BY <1>2 DEF FreeRequest
<1> QED
  BY <1>2, <1>3 DEF Own, SnapshotInv, ClaimInv, SessionInv, LostInv, Honest, Claimed

\* The request goes to its next step with its snapshot, or gives up.
Walk(p, step, code) ==
    request' = [request EXCEPT ![p] = [request[p] EXCEPT !.pc = step, !.code = code]]

LEMMA Walks ==
    ASSUME TypeOK, NEW p \in Polls
    PROVE  /\ request[p].code \in Codes
           /\ \A step \in Steps : Goto(p, step) => Walk(p, step, request[p].code)
           /\ \A code \in Codes : GiveUp(p, code) => Walk(p, "fail", code)
<1>1. request[p] \in Request
  BY DEF TypeOK
<1>2. ASSUME NEW step \in Steps, Goto(p, step) PROVE Walk(p, step, request[p].code)
  BY <1>1, <1>2 DEF Goto, Walk, Request
<1>3. ASSUME NEW code \in Codes, GiveUp(p, code) PROVE Walk(p, "fail", code)
  BY <1>1, <1>3 DEF GiveUp, Walk
<1> QED
  BY <1>1, <1>2, <1>3 DEF Request

LEMMA WalkFacts ==
    ASSUME TypeOK, NEW p \in Polls, NEW step \in Steps, NEW code \in Codes,
           Walk(p, step, code)
    PROVE  /\ Alone(p)
           /\ request'[p].pc = step /\ request'[p].code = code
           /\ request'[p].handoff = request[p].handoff
           /\ request'[p].version = request[p].version
           /\ request'[p].until = request[p].until
           /\ request'[p].answer = request[p].answer
BY DEF TypeOK, Walk, Alone, Request

\* A step that moves no document and takes no session, and goes on from its claim
\* or from no claim, keeps all but what the next step has to know.
LEMMA WalkKept ==
    ASSUME IndInv, NEW p \in Polls, NEW step \in Steps, NEW code \in Codes,
           request[p].pc \notin {"idle", "fail"}, step # "idle",
           Walk(p, step, code),
           Closing, UNCHANGED <<now, starter, document>>,
           step \in Claimed <=> request[p].pc \in Claimed,
           step \notin {"claim", "reclaim"},
           step = "ask" => request[p].pc = "ask",
           SessionInv(p)', LostInv(p)', TakerInv'
    PROVE  IndInv'
<1> DEFINE h == request[p].handoff
<1>1. /\ h \in Ceremonies /\ request[p] \in Request /\ TypeOK /\ Moving(h) /\ Fits(p, h)
      /\ ExclusiveInv /\ SnapshotInv(p) /\ ClaimInv(p)
  BY Working, Unmoved DEF IndInv, RequestInv
<1>2. /\ request'[p].pc = step /\ request'[p].handoff = h
      /\ request'[p].version = request[p].version /\ request'[p].until = request[p].until
      /\ request'[p].answer = request[p].answer
      /\ Alone(p)
  BY <1>1, WalkFacts
<1>3. Wins(p)' = Wins(p) /\ Doc(p)' = Doc(p)
  BY <1>2 DEF Wins, Doc
<1>4. SnapshotInv(p)'
  BY <1>1, <1>2, <1>3 DEF SnapshotInv
<1>5. ClaimInv(p)' /\ Honest(p)'
  BY <1>1, <1>2, <1>3 DEF ClaimInv, Honest
<1>6. \A q \in Polls \ {p} :
         ~ /\ request'[p].pc \in Claimed /\ request'[q].pc \in Claimed
           /\ request'[p].handoff = request'[q].handoff
           /\ request'[p].version = request'[q].version
  BY <1>1, <1>2, ApartKept
<1>7. Own(p)'
  BY <1>4, <1>5, <1>6 DEF Own
<1> QED
  BY <1>1, <1>2, <1>7, RequestKept

LEMMA AskStep ==
    ASSUME IndInv, NEW p \in Polls, Ask(p) PROVE IndInv'
<1>0. PICK h \in Ceremonies : h = request[p].handoff
  BY Working DEF Ask
<1>1. /\ request[p].pc = "ask" /\ request[p] \in Request /\ request[p].handoff = h
      /\ TypeOK /\ TakerInv /\ DocumentInv /\ SnapshotInv(p) /\ Moving(h) /\ Fits(p, h)
      /\ UNCHANGED <<now, starter, document>>
      /\ request \in [Polls -> Request]
  BY <1>0, Working, Unmoved DEF IndInv, RequestInv, Ask, TypeOK
<1>2. CASE GiveUp(p, "error") /\ UNCHANGED session
  <2>1. Closing
    BY <1>1, <1>2, Same
  <2>2. Walk(p, "fail", "error")
    BY <1>1, <1>2, Walks DEF Codes
  <2>3. /\ request'[p].pc = "fail" /\ request'[p].code = "error" /\ Alone(p)
    BY <1>1, <2>2, Walks, WalkFacts DEF Steps, Codes
  <2>4. SessionInv(p)' /\ LostInv(p)'
    BY <2>3 DEF SessionInv, LostInv
  <2>5. TakerInv'
    BY <1>1, <1>2, <2>1, <2>3, TakerKept
  <2> QED
    BY <1>1, <2>1, <2>2, <2>4, <2>5, WalkKept DEF Steps, Codes, Claimed
<1>3. CASE session' = Swept /\ session'[h].state = "open" /\ Goto(p, "bridge")
  <2>1. Closing
    BY <1>1, <1>3, SweptCloses
  <2>2. Walk(p, "bridge", request[p].code)
    BY <1>1, <1>3, Walks DEF Steps
  <2>3. /\ request'[p].pc = "bridge" /\ request'[p].handoff = h
        /\ request'[p].version = request[p].version /\ Alone(p)
    <3>1. request[p].code \in Codes /\ "bridge" \in Steps
      BY <1>1, Walks DEF Steps
    <3> QED
      BY <1>1, <2>2, <3>1, WalkFacts
  <2>4. SessionInv(p)' /\ LostInv(p)'
    BY <2>3 DEF SessionInv, LostInv
  <2>5. TakerInv'
    <3>1. \A c \in Ceremonies :
              session'[c].state \in {"confirmed", "failed"} => session'[c] = session[c]
      BY <1>1, <1>3 DEF Swept, TypeOK, Session
    <3> QED
      BY <1>1, <2>1, <2>3, <3>1, TakerKept
  <2> QED
    BY <1>1, <2>1, <2>2, <2>4, <2>5, Walks, WalkKept DEF Steps, Codes, Claimed
<1>4. CASE session' = Swept /\ session'[h].state # "open" /\ GiveUp(p, "lost")
  <2>1. Closing
    BY <1>1, <1>4, SweptCloses
  <2>2. Walk(p, "fail", "lost")
    BY <1>1, <1>4, Walks DEF Codes
  <2>3. /\ request'[p].pc = "fail" /\ request'[p].code = "lost" /\ Alone(p)
        /\ request'[p].version = request[p].version /\ request'[p].handoff = h
    BY <1>1, <2>2, Walks, WalkFacts DEF Steps, Codes
  <2>4. SessionInv(p)'
    BY <1>4, <2>3 DEF SessionInv, Open
  <2>5. \A c \in Ceremonies :
            session'[c].state \in {"confirmed", "failed"} => session'[c] = session[c]
    BY <1>1, <1>4 DEF Swept, TypeOK, Session
  <2>6. TakerInv'
    BY <1>1, <2>1, <2>3, <2>5, TakerKept
  <2>7. Wins(p) => Explained(h)'
    <3> SUFFICES ASSUME Wins(p) PROVE Explained(h)'
      OBVIOUS
    <3>1. document[h].status \in Live /\ document[h].expiresAt <= session[h].expiresAt
      BY <1>1 DEF SnapshotInv, Doc, DocumentInv, Live
    <3>2. /\ session[h].expiresAt \in Nat /\ session[h].until \in Nat
          /\ document[h].expiresAt \in Nat /\ now \in Nat
          /\ session'[h] \in Session
      BY <1>1, <2>1 DEF Closing, TypeOK, Session, Document
    <3>3. session'[h].state # "unused"
      BY <1>1, <2>1, <3>1 DEF Closing, DocumentInv, Live
    <3>4. session'[h].state = "expired" => document[h].expiresAt <= now
      <4>1. session'[h].expiresAt = session[h].expiresAt
        BY <2>1 DEF Closing
      <4>2. session'[h].state = "expired" => session[h].expiresAt <= now
        BY <1>1, <2>1 DEF Closing, DocumentInv
      <4> QED
        BY <3>1, <3>2, <4>1, <4>2
    <3>5. session'[h].state \in {"confirmed", "failed"} => session'[h].until <= now
      <4> SUFFICES ASSUME session'[h].state \in {"confirmed", "failed"} PROVE session'[h].until <= now
        OBVIOUS
      <4>1. session'[h] = session[h]
        BY <2>5
      <4>2. ~(session[h].until > now)
        BY <1>1, <3>1, <4>1 DEF TakerInv
      <4> QED
        BY <3>2, <4>1, <4>2
    <3> QED
      BY <1>1, <1>4, <3>2, <3>3, <3>4, <3>5 DEF Explained, Session
  <2>8. LostInv(p)'
    BY <1>1, <2>3, <2>7 DEF LostInv, Wins, Doc
  <2> QED
    BY <1>1, <2>1, <2>2, <2>4, <2>6, <2>8, WalkKept DEF Steps, Codes, Claimed
<1> QED
  BY <1>1, <1>2, <1>3, <1>4 DEF Ask

LEMMA AnswerStep ==
    ASSUME IndInv, NEW p \in Polls, Answer(p) PROVE IndInv'
<1>0. PICK h \in Ceremonies : h = request[p].handoff
  BY Working DEF Answer
<1>1. /\ request[p].pc = "bridge" /\ request[p] \in Request /\ request[p].handoff = h
      /\ TypeOK /\ TakerInv /\ SnapshotInv(p) /\ ClaimInv(p) /\ ExclusiveInv /\ Moving(h) /\ Fits(p, h)
      /\ UNCHANGED <<now, starter, document>>
      /\ request \in [Polls -> Request]
  BY <1>0, Working, Unmoved DEF IndInv, RequestInv, Answer, TypeOK
<1>2. CASE session' = session /\ (Goto(p, "release") \/ GiveUp(p, "error"))
  <2>1. PICK step \in {"release", "fail"}, code \in Codes :
          /\ Walk(p, step, code)
          /\ step = "fail" => code = "error"
    BY <1>1, <1>2, Walks DEF Steps, Codes
  <2>2. Closing
    BY <1>1, <1>2, Same
  <2>3. /\ request'[p].pc = step /\ request'[p].handoff = h /\ Alone(p)
        /\ request'[p].version = request[p].version /\ request'[p].code = code
    BY <1>1, <2>1, WalkFacts DEF Steps
  <2>4. SessionInv(p)' /\ LostInv(p)'
    BY <2>1, <2>3 DEF SessionInv, LostInv
  <2>5. TakerInv'
    BY <1>1, <1>2, <2>2, <2>3, TakerKept
  <2> QED
    BY <1>1, <2>1, <2>2, <2>4, <2>5, WalkKept DEF Steps, Claimed
<1>3. ASSUME NEW outcome \in {"confirmed", "failed"},
             session' = Deleted(h, outcome, request[p].until),
             Goto(p, "satisfy") \/ GiveUp(p, "world")
      PROVE  IndInv'
  <2>1. PICK step \in {"satisfy", "fail"}, code \in Codes :
          /\ Walk(p, step, code)
          /\ step = "fail" => code = "world"
    BY <1>1, <1>3, Walks DEF Steps, Codes
  <2>2. Closing
    BY <1>1, <1>3, DeletedCloses DEF Request
  <2>3. /\ request'[p].pc = step /\ request'[p].handoff = h /\ Alone(p)
        /\ request'[p].version = request[p].version /\ request'[p].code = code
    BY <1>1, <2>1, WalkFacts DEF Steps
  <2>4. h \notin Open'
    BY <1>1, <1>3 DEF Deleted, Open, TypeOK, Session
  <2>5. SessionInv(p)' /\ LostInv(p)'
    BY <2>1, <2>3, <2>4 DEF SessionInv, LostInv
  <2>6. TakerInv'
    <3>0. ASSUME NEW c \in Ceremonies, session'[c].state \in {"confirmed", "failed"}
          PROVE  document[c].status # "none"
      <4>1. c = h \/ session'[c] = session[c]
        BY <1>1, <1>3 DEF Deleted, TypeOK
      <4>2. document[h].status # "none"
        BY <1>1 DEF SnapshotInv, Doc
      <4> QED
        BY <1>1, <3>0, <4>1, <4>2 DEF TakerInv
    <3> SUFFICES ASSUME NEW c \in Ceremonies,
                        session'[c].state \in {"confirmed", "failed"}, session'[c].until > now,
                        document[c].status \in Live
                 PROVE  /\ document[c].status = "polling"
                        /\ document[c].lease = session'[c].until
                        /\ \A q \in Polls :
                             request'[q].handoff = c /\ request'[q].pc \in {"ask", "bridge", "release"}
                             => document[c].version # request'[q].version
      BY <1>1, <3>0 DEF TakerInv, Wins, Doc
    <3>1. CASE session'[c] = session[c]
      BY <1>1, <2>1, <2>3, <3>1 DEF TakerInv, Wins, Doc, Alone
    <3>2. CASE session'[c] # session[c]
      <4>1. c = h /\ session'[h].until = request[p].until
        BY <1>1, <1>3, <3>2 DEF Deleted, TypeOK, Session
      <4>2. Wins(p)
        <5>1. Doc(p) = document[h]
          BY <1>1 DEF Doc
        <5>2. now \in Nat /\ request[p].until \in Nat
          BY <1>1 DEF TypeOK, Request
        <5> QED
          BY <1>1, <4>1, <5>1, <5>2 DEF ClaimInv, Claimed, Live
      <4>3. document[h].status = "polling" /\ document[h].lease = request[p].until
            /\ document[h].version = request[p].version
        BY <1>1, <4>2 DEF SnapshotInv, Claimed, Wins, Doc
      <4>4. ASSUME NEW q \in Polls, request'[q].handoff = h,
                   request'[q].pc \in {"ask", "bridge", "release"},
                   document[h].version = request'[q].version
            PROVE  FALSE
        <5>1. q # p
          BY <2>3, <4>4
        <5>2. request'[q] = request[q]
          BY <2>3, <5>1 DEF Alone
        <5> QED
          BY <1>1, <4>3, <4>4, <5>1, <5>2 DEF ExclusiveInv, Claimed
      <4> QED
        BY <4>1, <4>3, <4>4
    <3> QED
      BY <3>1, <3>2
  <2> QED
    BY <1>1, <2>1, <2>2, <2>5, <2>6, WalkKept DEF Steps, Claimed
<1> QED
  BY <1>1, <1>2, <1>3 DEF Answer, Takes

LEMMA SatisfyStep ==
    ASSUME IndInv, NEW p \in Polls, Satisfy(p) PROVE IndInv'
<1>0. PICK h \in Ceremonies : h = request[p].handoff
  BY Working DEF Satisfy
<1>1. /\ request[p].pc = "satisfy" /\ request[p] \in Request /\ request[p].handoff = h
      /\ TypeOK /\ TakerInv /\ SessionInv(p) /\ Moving(h) /\ Fits(p, h)
      /\ UNCHANGED <<now, starter, session, document>>
      /\ request \in [Polls -> Request]
  BY <1>0, Working, Unmoved DEF IndInv, RequestInv, Satisfy, TypeOK
<1>2. PICK step \in {"complete", "fail"}, code \in Codes :
        /\ Walk(p, step, code)
        /\ step = "fail" => code = "error"
  BY <1>1, Walks DEF Satisfy, Steps, Codes
<1>3. Closing
  BY <1>1, Same
<1>4. /\ request'[p].pc = step /\ request'[p].handoff = h /\ Alone(p)
      /\ request'[p].version = request[p].version /\ request'[p].code = code
  BY <1>1, <1>2, WalkFacts DEF Steps
<1>5. SessionInv(p)' /\ LostInv(p)'
  BY <1>1, <1>2, <1>4 DEF SessionInv, LostInv, Open
<1>6. TakerInv'
  BY <1>1, <1>2, <1>3, <1>4, TakerKept
<1> QED
  BY <1>1, <1>2, <1>3, <1>5, <1>6, WalkKept DEF Steps, Claimed

LEMMA DropStep ==
    ASSUME IndInv, NEW p \in Polls, Drop(p) PROVE IndInv'
<1>0. PICK h \in Ceremonies : h = request[p].handoff
  BY Working DEF Drop
<1>1. /\ request[p].pc = "drop" /\ request[p] \in Request /\ request[p].handoff = h
      /\ TypeOK /\ TakerInv /\ Moving(h) /\ Fits(p, h)
      /\ UNCHANGED <<now, starter, document>>
      /\ request \in [Polls -> Request]
  BY <1>0, Working, Unmoved DEF IndInv, RequestInv, Drop, TypeOK
<1>2. PICK code \in Codes :
        /\ Walk(p, "cancel", code)
        /\ \/ session' = Deleted(h, "cancelled", 0)
           \/ session' = session /\ code = "error"
  <2>1. CASE session' = Dropped(p) /\ Goto(p, "cancel")
    BY <1>1, <2>1, Walks DEF Dropped, Steps
  <2>2. CASE session' = session
             /\ request' = [request EXCEPT ![p].pc = "cancel", ![p].code = "error"]
    BY <1>1, <2>2 DEF Walk, Codes
  <2> QED
    BY <1>1, <2>1, <2>2 DEF Drop
<1>3. Closing
  BY <1>1, <1>2, Same, DeletedCloses
<1>4. /\ request'[p].pc = "cancel" /\ request'[p].handoff = h /\ Alone(p)
      /\ request'[p].version = request[p].version /\ request'[p].code = code
  BY <1>1, <1>2, WalkFacts DEF Steps
<1>5. SessionInv(p)' /\ LostInv(p)'
  <2>1. h \notin Open' \/ code = "error"
    BY <1>1, <1>2 DEF Deleted, Open, TypeOK, Session
  <2> QED
    BY <1>4, <2>1 DEF SessionInv, LostInv
<1>6. TakerInv'
  <2>1. \A c \in Ceremonies :
            session'[c].state \in {"confirmed", "failed"} => session'[c] = session[c]
    BY <1>1, <1>2 DEF Deleted, TypeOK, Session
  <2> QED
    BY <1>1, <1>3, <1>4, <2>1, TakerKept
<1> QED
  BY <1>1, <1>2, <1>3, <1>5, <1>6, WalkKept DEF Steps, Claimed

\* Nobody else has a current claim of a handoff whose current claim p has.
LEMMA OnlyClaim ==
    ASSUME ExclusiveInv, NEW p \in Polls, request[p].pc \in Claimed, Wins(p)
    PROVE  \A q \in Polls \ {p} :
               ~ /\ request[q].pc \in Claimed /\ request[q].handoff = request[p].handoff
                 /\ Wins(q)
BY DEF ExclusiveInv, Wins, Doc

\* What the store makes of a document fits what the other requests know.
LEMMA UpdateFacts ==
    ASSUME IndInv, NEW p \in Polls, NEW h \in Ceremonies, h = request[p].handoff,
           request[p].pc \in {"reclaim", "claim", "complete", "release", "fail", "cancel"},
           Wins(p), Update(p)
    PROVE  /\ Moving(h) /\ Fits(p, h)
           /\ document'[h].version = request[p].version + 1
           /\ request[p].pc = "reclaim" => document'[h].status = "pending"
           /\ request[p].pc = "claim" =>
                /\ document[h].status = "pending"
                /\ document'[h].status = "polling" /\ document'[h].lease = LeaseEnd(p)
           /\ request[p].pc = "complete" => document'[h].status = "completed"
           /\ request[p].pc = "fail" => document'[h].status = "failed"
           /\ LeaseEnd(p) \in Nat
<1>1. /\ TypeOK /\ ExclusiveInv /\ request[p] \in Request /\ Doc(p) = document[h]
      /\ SnapshotInv(p) /\ SessionInv(p) /\ LostInv(p) /\ document[h] \in Document
  BY Working DEF IndInv, RequestInv
<1>2. LeaseEnd(p) \in Nat
  BY <1>1, SessionsAssumption DEF LeaseEnd, TypeOK, Document, SessionsAssumption
<1>3. PICK status \in Live \union {"completed", "failed", "cancelled"},
           code \in Codes, lease \in Nat :
        /\ Store(p, status, code, lease)
        /\ request[p].pc \in {"reclaim", "release"} => status = "pending"
        /\ request[p].pc = "claim" => status = "polling" /\ lease = LeaseEnd(p)
        /\ request[p].pc = "complete" => status = "completed"
        /\ request[p].pc = "fail" => status = "failed" /\ code = request[p].code
        /\ request[p].pc = "cancel" => status = "cancelled" /\ code = request[p].code
  <2>1. CASE request[p].pc \in {"reclaim", "release"}
    <3>1. Store(p, "pending", "none", 0)
      BY <2>1 DEF Update
    <3> QED
      BY <2>1, <3>1 DEF Live, Codes
  <2>2. CASE request[p].pc = "claim"
    <3>1. Store(p, "polling", "none", LeaseEnd(p))
      BY <2>2 DEF Update
    <3> QED
      BY <1>2, <2>2, <3>1 DEF Live, Codes
  <2>3. CASE request[p].pc = "complete"
    <3>1. Store(p, "completed", "none", 0)
      BY <2>3 DEF Update
    <3> QED
      BY <2>3, <3>1 DEF Codes
  <2>4. CASE request[p].pc = "fail"
    <3>1. Store(p, "failed", request[p].code, 0) /\ request[p].code \in Codes
      BY <1>1, <2>4 DEF Update, Request
    <3> QED
      BY <2>4, <3>1
  <2>5. CASE request[p].pc = "cancel"
    <3>1. Store(p, "cancelled", request[p].code, 0) /\ request[p].code \in Codes
      BY <1>1, <2>5 DEF Update, Request
    <3> QED
      BY <2>5, <3>1
  <2> QED
    BY <2>1, <2>2, <2>3, <2>4, <2>5
<1>4. /\ Moving(h) /\ document'[h].status = status /\ document'[h].code = code
      /\ document'[h].lease = lease /\ document'[h].version = request[p].version + 1
  BY <1>3, StoreMoves
<1>5. request[p].pc = "claim" => document[h].status = "pending"
  BY <1>1 DEF SnapshotInv
<1>6. request[p].pc = "reclaim" => document[h].lease <= now
  BY <1>1 DEF SnapshotInv, LeaseOver
<1>7. request[p].pc \in {"complete", "release"} =>
          \A q \in Polls \ {p} :
              ~(request[q].pc \in Claimed /\ request[q].handoff = h /\ Wins(q))
  BY <1>1, OnlyClaim DEF Claimed
<1>8. \/ document'[h].status \in {"failed", "expired", "cancelled"}
      \/ document[h].status = "pending"
      \/ document[h].lease <= now
      \/ \A q \in Polls \ {p} :
           ~(request[q].pc \in Claimed /\ request[q].handoff = h /\ Wins(q))
  BY <1>3, <1>4, <1>5, <1>6, <1>7
<1>9. \/ document'[h].status \notin Live
      \/ document[h].status = "pending"
      \/ document[h].lease <= now
      \/ request[p].pc = "release" /\ request[p].handoff = h /\ Wins(p)
  BY <1>3, <1>4, <1>5, <1>6 DEF Live
<1>10. document'[h].status = "failed" /\ document'[h].code = "lost" => Explained(h)
  <2>1. status = "failed" => request[p].pc = "fail" /\ code = request[p].code
    BY <1>3
  <2>2. request[p].pc = "fail" /\ request[p].code = "lost" => Explained(h)
    BY <1>1 DEF LostInv
  <2> QED
    BY <1>4, <2>1, <2>2
<1>11. \/ h \notin Open
       \/ document'[h].status \in Live
       \/ /\ document'[h].status \in {"failed", "cancelled"}
          /\ document'[h].code \in {"error", "store"}
  BY <1>1, <1>3, <1>4 DEF SessionInv, Live, Request, Codes
<1> QED
  BY <1>2, <1>3, <1>4, <1>5, <1>8, <1>9, <1>10, <1>11 DEF Fits

\* A request that ends with nothing to tell, after what it stored.
LEMMA ReplyKept ==
    ASSUME IndInv, NEW p \in Polls, NEW h, Reply(p), Moving(h), Fits(p, h),
           UNCHANGED <<now, starter, session>>
    PROVE  IndInv'
<1>1. TypeOK /\ TakerInv
  BY DEF IndInv
<1>2. Alone(p) /\ Own(p)' /\ request'[p].pc = "idle"
  BY <1>1, ReplyOwn
<1>3. Closing
  BY <1>1, Same
<1>4. TakerInv'
  BY <1>1, <1>2, <1>3, TakerKept
<1> QED
  BY <1>2, <1>3, <1>4, RequestKept

LEMMA ReleaseStep ==
    ASSUME IndInv, NEW p \in Polls, Release(p) PROVE IndInv'
<1>0. PICK h \in Ceremonies : h = request[p].handoff
  BY Working DEF Release
<1>1. Moving(h) /\ Fits(p, h)
  BY <1>0, UpdateFacts, Unmoved DEF Release, IndInv
<1> QED
  BY <1>1, ReplyKept DEF Release

LEMMA CancelDocumentStep ==
    ASSUME IndInv, NEW p \in Polls, CancelDocument(p) PROVE IndInv'
<1>0. PICK h \in Ceremonies : h = request[p].handoff
  BY Working DEF CancelDocument
<1>1. Moving(h) /\ Fits(p, h)
  BY <1>0, UpdateFacts, Unmoved DEF CancelDocument, IndInv
<1> QED
  BY <1>1, ReplyKept DEF CancelDocument

\* A poll that ends with the answer that ends the agent's call.
LEMMA AtLastOwn ==
    ASSUME TypeOK, NEW p \in Polls, request[p].handoff \in Ceremonies,
           NEW answer \in {"completed", "failed"}, ReplyAtLast(p, answer)
    PROVE  /\ Alone(p) /\ request'[p].pc = "idle" /\ request'[p].answer = answer
           /\ request'[p].handoff = request[p].handoff
           /\ request'[p].until = request[p].until /\ request'[p].code = request[p].code
           /\ Honest(p)' => Own(p)'
<1>1. request[p].until \in Nat /\ request[p].code \in Codes
  BY DEF TypeOK, Request
<1>2. /\ Alone(p) /\ request'[p].pc = "idle" /\ request'[p].answer = answer
      /\ request'[p].handoff = request[p].handoff
      /\ request'[p].until = request[p].until /\ request'[p].code = request[p].code
  BY <1>1 DEF ReplyAtLast, FreeRequest, Request, Steps, Codes, Alone, TypeOK
<1> QED
  BY <1>2 DEF Own, SnapshotInv, ClaimInv, SessionInv, LostInv, Claimed

LEMMA FailClaimedStep ==
    ASSUME IndInv, NEW p \in Polls, FailClaimed(p) PROVE IndInv'
<1>0. PICK h \in Ceremonies : h = request[p].handoff
  BY Working DEF FailClaimed
<1>1. /\ request[p].pc = "fail" /\ request[p] \in Request /\ request[p].handoff = h
      /\ TypeOK /\ TakerInv /\ SessionInv(p) /\ LostInv(p) /\ ClaimInv(p)
      /\ ReplyAtLast(p, "failed")
      /\ UNCHANGED <<now, starter, session>> /\ Closing
  BY <1>0, Working, Same DEF IndInv, RequestInv, FailClaimed
<1>2. /\ Alone(p) /\ request'[p].pc = "idle" /\ request'[p].answer = "failed"
      /\ request'[p].handoff = h /\ request'[p].until = request[p].until
      /\ request'[p].code = request[p].code
      /\ Honest(p)' => Own(p)'
  BY <1>1, AtLastOwn
<1>3. CASE Wins(p) /\ Update(p)
  <2>1. Moving(h) /\ Fits(p, h) /\ document'[h].status = "failed"
    BY <1>1, <1>3, UpdateFacts
  <2>2. Own(p)'
    BY <1>2, <2>1 DEF Honest, Doc
  <2>3. TakerInv'
    BY <1>1, <1>2, <2>1, TakerKept
  <2> QED
    BY <1>1, <1>2, <2>1, <2>2, <2>3, RequestKept
<1>4. CASE ~Wins(p) /\ UNCHANGED document
  <2>1. Moving(h) /\ Fits(p, h)
    BY <1>1, <1>4, Unmoved
  <2>2. \/ request[p].until <= now \/ request[p].code = "store"
        \/ document[h].status \in {"failed", "expired", "cancelled"}
    BY <1>1, <1>4 DEF ClaimInv, Claimed, Doc
  <2>3. Own(p)'
    BY <1>1, <1>2, <1>4, <2>2 DEF Honest, Doc
  <2>4. TakerInv'
    BY <1>1, <1>2, <1>4, <2>1, TakerKept
  <2> QED
    BY <1>1, <1>2, <1>4, <2>1, <2>3, <2>4, RequestKept
<1> QED
  BY <1>3, <1>4 DEF FailClaimed

LEMMA CompleteStep ==
    ASSUME IndInv, NEW p \in Polls, Complete(p) PROVE IndInv'
<1>0. PICK h \in Ceremonies : h = request[p].handoff
  BY Working DEF Complete
<1>1. /\ request[p].pc = "complete" /\ request[p].handoff = h
      /\ TypeOK /\ TakerInv
      /\ UNCHANGED <<now, starter, session>> /\ Closing
  BY <1>0, Same DEF IndInv, Complete
<1>2. CASE Wins(p) /\ Update(p) /\ ReplyAtLast(p, "completed")
  <2>1. Moving(h) /\ Fits(p, h) /\ document'[h].status = "completed"
    BY <1>1, <1>2, UpdateFacts
  <2>2. /\ Alone(p) /\ request'[p].pc = "idle" /\ request'[p].answer = "completed"
        /\ request'[p].handoff = h
        /\ Honest(p)' => Own(p)'
    BY <1>1, <1>2, AtLastOwn
  <2>3. Own(p)'
    <3>1. Doc(p)'.status = "completed"
      BY <2>1, <2>2 DEF Doc
    <3>2. Honest(p)'
      BY <2>2, <3>1 DEF Honest
    <3> QED
      BY <2>2, <3>2
  <2>4. TakerInv'
    BY <1>1, <2>1, <2>2, TakerKept
  <2> QED
    BY <1>1, <2>1, <2>2, <2>3, <2>4, RequestKept
<1>3. CASE UNCHANGED document /\ GiveUp(p, "error")
  <2>1. Walk(p, "fail", "error")
    BY <1>1, <1>3, Walks DEF Codes
  <2>2. /\ request'[p].pc = "fail" /\ request'[p].code = "error" /\ Alone(p)
    BY <1>1, <2>1, WalkFacts DEF Steps, Codes
  <2>3. SessionInv(p)' /\ LostInv(p)'
    BY <2>2 DEF SessionInv, LostInv
  <2>4. TakerInv'
    BY <1>1, <1>3, <2>2, Unmoved, TakerKept
  <2> QED
    BY <1>1, <1>3, <2>1, <2>3, <2>4, WalkKept DEF Steps, Codes, Claimed
<1> QED
  BY <1>2, <1>3 DEF Complete

LEMMA WonFacts ==
    ASSUME TypeOK, NEW p \in Polls, NEW step \in Steps, NEW until \in Nat,
           Won(p, step, until)
    PROVE  /\ Alone(p)
           /\ request'[p].pc = step /\ request'[p].until = until
           /\ request'[p].handoff = request[p].handoff
           /\ request'[p].version = request[p].version + 1
           /\ request'[p].code = request[p].code
           /\ request'[p].answer = request[p].answer
<1>1. request[p] \in Request /\ request[p].version + 1 \in Nat
  BY DEF TypeOK, Request
<1> QED
  BY <1>1 DEF Won, Alone, TypeOK, Request

LEMMA ReclaimStep ==
    ASSUME IndInv, NEW p \in Polls, Reclaim(p) PROVE IndInv'
<1>0. PICK h \in Ceremonies : h = request[p].handoff
  BY Working DEF Reclaim
<1>1. /\ request[p].pc = "reclaim" /\ request[p].handoff = h /\ request[p] \in Request
      /\ TypeOK /\ TakerInv /\ SnapshotInv(p)
      /\ UNCHANGED <<now, starter, session>> /\ Closing
  BY <1>0, Working, Same DEF IndInv, RequestInv, Reclaim
<1>2. CASE Wins(p) /\ Update(p) /\ Won(p, "claim", 0)
  <2>1. /\ Moving(h) /\ Fits(p, h) /\ document'[h].status = "pending"
        /\ document'[h].version = request[p].version + 1
    BY <1>1, <1>2, UpdateFacts
  <2>2. /\ Alone(p) /\ request'[p].pc = "claim" /\ request'[p].handoff = h
        /\ request'[p].version = request[p].version + 1
    BY <1>1, <1>2, WonFacts DEF Steps
  <2>3. SnapshotInv(p)'
    BY <1>1, <2>1, <2>2 DEF SnapshotInv, Doc, Live, Claimed, Request
  <2>4. Own(p)'
    BY <2>2, <2>3 DEF Own, ClaimInv, SessionInv, LostInv, Honest, Claimed
  <2>5. TakerInv'
    BY <1>1, <2>1, <2>2, TakerKept
  <2> QED
    BY <1>1, <2>1, <2>2, <2>4, <2>5, RequestKept
<1>3. CASE UNCHANGED document /\ Reply(p)
  BY <1>1, <1>3, Unmoved, ReplyKept
<1> QED
  BY <1>2, <1>3 DEF Reclaim

LEMMA ClaimStep ==
    ASSUME IndInv, NEW p \in Polls, Claim(p) PROVE IndInv'
<1>0. PICK h \in Ceremonies : h = request[p].handoff
  BY Working DEF Claim
<1>1. /\ request[p].pc = "claim" /\ request[p].handoff = h /\ request[p] \in Request
      /\ TypeOK /\ TakerInv /\ SnapshotInv(p) /\ document[h] \in Document /\ Doc(p) = document[h]
      /\ UNCHANGED <<now, starter, session>> /\ Closing
  BY <1>0, Working, Same DEF IndInv, RequestInv, Claim
<1>2. ASSUME NEW until, until = LeaseEnd(p), Wins(p), Update(p), Won(p, "ask", until)
      PROVE  IndInv'
  <2>1. /\ Moving(h) /\ Fits(p, h) /\ until \in Nat
        /\ document'[h].status = "polling" /\ document'[h].lease = until
        /\ document'[h].version = request[p].version + 1
    BY <1>1, <1>2, UpdateFacts
  <2>2. /\ Alone(p) /\ request'[p].pc = "ask" /\ request'[p].handoff = h
        /\ request'[p].version = request[p].version + 1 /\ request'[p].until = until
    BY <1>1, <1>2, <2>1, WonFacts DEF Steps
  <2>3. document[h].status = "pending" /\ document[h].version = request[p].version
    BY <1>1, <1>2 DEF SnapshotInv, Wins
  <2>4. SnapshotInv(p)' /\ ClaimInv(p)'
    BY <1>1, <2>1, <2>2 DEF SnapshotInv, ClaimInv, Wins, Doc, Live, Claimed, Request
  <2>5. ASSUME NEW q \in Polls \ {p}, request'[q].pc \in Claimed, request'[q].handoff = h,
               request'[q].version = request'[p].version
        PROVE  FALSE
    <3>1. request[q] = request'[q] /\ request[q].pc # "idle"
      BY <2>2, <2>5 DEF Alone, Claimed
    <3>2. request[q] \in Request /\ Doc(q) = document[h]
      BY <2>5, <3>1 DEF Doc, IndInv, TypeOK
    <3>3. request[q].version <= document[h].version
      BY <3>1, <3>2 DEF IndInv, RequestInv, SnapshotInv
    <3> QED
      BY <1>1, <2>2, <2>3, <2>5, <3>1, <3>2, <3>3 DEF Request, Document
  <2>6. Own(p)'
    BY <2>2, <2>4, <2>5 DEF Own, SessionInv, LostInv, Honest
  <2>7. TakerInv'
    BY <1>1, <2>1, <2>2, <2>3, TakerKept
  <2> QED
    BY <1>1, <2>1, <2>2, <2>6, <2>7, RequestKept
<1>3. CASE UNCHANGED document /\ Reply(p)
  BY <1>1, <1>3, Unmoved, ReplyKept
<1> QED
  BY <1>2, <1>3 DEF Claim

\* The store throws: the document is as it was, or as the request wanted it.
LEMMA StoreFailsStep ==
    ASSUME IndInv, NEW p \in Polls, StoreFails(p) PROVE IndInv'
<1>0. PICK h \in Ceremonies : h = request[p].handoff
  BY Working DEF StoreFails
<1>1. /\ TypeOK /\ TakerInv /\ ExclusiveInv /\ SnapshotInv(p) /\ Closing
      /\ request[p] \in Request /\ request[p].handoff = h
      /\ document[h] \in Document /\ Doc(p) = document[h]
      /\ UNCHANGED <<now, starter, session>>
  BY <1>0, Working, Same DEF IndInv, RequestInv, StoreFails
<1>2. /\ Moving(h) /\ Fits(p, h)
      /\ \/ UNCHANGED document
         \/ document'[h].version = request[p].version + 1
  BY <1>0, <1>1, UpdateFacts, Unmoved DEF StoreFails
<1>3. CASE Reply(p)
  BY <1>1, <1>2, <1>3, ReplyKept
<1>4. CASE request[p].pc \in {"complete", "release"} /\ GiveUp(p, "store")
  <2>1. /\ Alone(p) /\ request'[p].pc = "fail" /\ request'[p].code = "store"
        /\ request'[p].handoff = h /\ request'[p].version = request[p].version
        /\ request'[p].until = request[p].until /\ request'[p].answer = request[p].answer
    BY <1>1, <1>4, Walks, WalkFacts DEF Steps, Codes
  <2>2. ClaimInv(p)' /\ SessionInv(p)' /\ LostInv(p)' /\ Honest(p)'
    BY <2>1 DEF ClaimInv, SessionInv, LostInv, Honest
  <2>3. document'[h].status # "none" /\ document'[h].expiresAt = document[h].expiresAt
    BY <1>1, <1>2, <1>4 DEF Moving, SnapshotInv
  <2>4. SnapshotInv(p)'
    <3>1. CASE UNCHANGED document
      BY <1>1, <1>4, <2>1, <3>1 DEF SnapshotInv, Wins, Doc, Claimed
    <3>2. CASE document'[h].version = request[p].version + 1
      <4>1. request[p].version < document'[h].version
        BY <1>1, <3>2 DEF Request
      <4>2. request'[p].version < Doc(p)'.version
        BY <2>1, <4>1 DEF Doc
      <4>3. request'[p].version \in Nat /\ Doc(p)'.version \in Nat
        BY <1>1, <2>1, <3>2 DEF Request, Doc
      <4>4. ~Wins(p)' /\ request'[p].version <= Doc(p)'.version
        BY <4>2, <4>3 DEF Wins
      <4>5. Doc(p)'.status # "none"
        BY <2>1, <2>3 DEF Doc
      <4> QED
        BY <1>0, <2>1, <4>4, <4>5 DEF SnapshotInv
    <3> QED
      BY <1>2, <3>1, <3>2
  <2>5. \A q \in Polls \ {p} :
            ~ /\ request'[q].pc \in Claimed
              /\ request'[p].handoff = request'[q].handoff
              /\ request'[p].version = request'[q].version
    BY <1>1, <1>4, <2>1, ApartKept DEF Claimed
  <2>6. Own(p)'
    BY <2>2, <2>4, <2>5 DEF Own
  <2>7. TakerInv'
    BY <1>1, <1>2, <2>1, TakerKept
  <2> QED
    BY <1>1, <1>2, <2>1, <2>6, <2>7, RequestKept
<1> QED
  BY <1>3, <1>4 DEF StoreFails

\* A fresh request holds the version that it has just read.
LEMMA GoOnFacts ==
    ASSUME TypeOK, NEW p \in Polls, NEW c \in Ceremonies, NEW step \in Steps,
           GoOn(p, c, step)
    PROVE  /\ Alone(p) /\ request'[p].pc = step /\ request'[p].handoff = c
           /\ request'[p].version = document[c].version
           /\ request'[p].answer = "none"
<1>1. document[c].version \in Nat
  BY DEF TypeOK, Document
<1> QED
  BY <1>1 DEF GoOn, FreeRequest, Request, Codes, Alone, TypeOK

LEMMA ArrivalKept ==
    ASSUME IndInv, NEW p \in Polls, NEW c \in Ceremonies,
           NEW step \in {"claim", "reclaim", "drop"}, GoOn(p, c, step),
           document[c].status \in Live,
           step = "claim" => document[c].status = "pending",
           step = "reclaim" => document[c].status = "polling" /\ LeaseOver(c),
           UNCHANGED <<now, starter, session, document>>
    PROVE  IndInv'
<1>1. TypeOK /\ TakerInv /\ Closing /\ Moving(c) /\ Fits(p, c) /\ document[c] \in Document
  BY Same, Unmoved DEF IndInv, TypeOK
<1>2. /\ Alone(p) /\ request'[p].pc = step /\ request'[p].handoff = c
      /\ request'[p].version = document[c].version /\ request'[p].answer = "none"
  BY <1>1, GoOnFacts DEF Steps
<1>3. SnapshotInv(p)'
  BY <1>1, <1>2 DEF SnapshotInv, LeaseOver, Doc, Live, Claimed, Document
<1>4. Own(p)'
  BY <1>2, <1>3 DEF Own, ClaimInv, SessionInv, LostInv, Honest, Claimed
<1>5. TakerInv'
  BY <1>1, <1>2, TakerKept
<1> QED
  BY <1>1, <1>2, <1>4, <1>5, RequestKept

LEMMA ExpireKept ==
    ASSUME IndInv, NEW p \in Polls, NEW c \in Ceremonies, Overdue(c),
           ExpireDocument(c), Reply(p), UNCHANGED <<now, starter, session>>
    PROVE  IndInv'
<1>1. TypeOK /\ document[c] \in Document /\ document[c].status \in Live
  BY DEF IndInv, TypeOK, Overdue
<1>2. Moving(c) /\ document'[c].status = "expired"
  BY <1>1 DEF ExpireDocument, Moving, TypeOK, Document, Live
<1> QED
  BY <1>1, <1>2, ReplyKept DEF Overdue, Fits, Live

LEMMA PollStep ==
    ASSUME IndInv, NEW p \in Polls, NEW c \in Ceremonies, Poll(p, c) PROVE IndInv'
<1>1. document[c].status \in Live /\ UNCHANGED <<now, starter, session>>
  BY DEF Poll
<1>2. CASE Overdue(c) /\ ExpireDocument(c) /\ Reply(p)
  BY <1>1, <1>2, ExpireKept
<1>3. CASE UNCHANGED document /\ document[c].status = "pending" /\ GoOn(p, c, "claim")
  BY <1>1, <1>3, ArrivalKept
<1>4. CASE UNCHANGED document /\ document[c].status = "polling" /\ LeaseOver(c)
           /\ GoOn(p, c, "reclaim")
  BY <1>1, <1>4, ArrivalKept
<1>5. CASE UNCHANGED document /\ Reply(p)
  BY <1>1, <1>5, Unmoved, ReplyKept DEF IndInv
<1> QED
  BY <1>2, <1>3, <1>4, <1>5 DEF Poll

LEMMA CancelStep ==
    ASSUME IndInv, NEW p \in Polls, NEW c \in Ceremonies, Cancel(p, c) PROVE IndInv'
<1>1. document[c].status \in Live /\ UNCHANGED <<now, starter, session>>
  BY DEF Cancel
<1>2. CASE Overdue(c) /\ ExpireDocument(c) /\ Reply(p)
  BY <1>1, <1>2, ExpireKept
<1>3. CASE UNCHANGED document /\ GoOn(p, c, "drop")
  BY <1>1, <1>3, ArrivalKept
<1> QED
  BY <1>2, <1>3 DEF Cancel
-----------------------------------------------------------------------------
(* The starts, the process and the clock *)

\* Requests and ended ceremonies do not notice what happens to the other ones.
LEMMA Undisturbed ==
    ASSUME IndInv, UNCHANGED request, now' \in Nat, now <= now',
           document' \in [Ceremonies -> Document],
           \A c \in Ceremonies :
               document[c].status # "none" =>
                   /\ document'[c] = document[c]
                   /\ c \notin Open => session'[c] = session[c],
           \A c \in Ceremonies : document'[c].status \in {document[c].status, "pending"}
    PROVE  RequestInv' /\ AnswerHonest' /\ ExclusiveInv' /\ LossExplained'
<1>1. TypeOK /\ RequestInv /\ AnswerHonest /\ ExclusiveInv /\ LossExplained
  BY DEF IndInv
<1>2. ASSUME NEW c \in Ceremonies, document[c].status # "none", Explained(c)
      PROVE  Explained(c)'
  <2>1. session'[c] = session[c] /\ document'[c] = document[c]
    BY <1>2 DEF Explained, Open
  <2>2. /\ session[c].until \in Nat /\ document[c].expiresAt \in Nat
        /\ now \in Nat
    BY <1>1 DEF TypeOK, Session, Document
  <2> QED
    BY <1>2, <2>1, <2>2 DEF Explained
<1>3. ASSUME NEW p \in Polls, request[p].pc # "idle"
      PROVE  (SnapshotInv(p) /\ ClaimInv(p) /\ SessionInv(p) /\ LostInv(p))'
  <2>0. PICK h \in Ceremonies : h = request[p].handoff
    BY <1>3, Working
  <2>1. /\ request'[p].handoff = h /\ request'[p] = request[p] /\ request[p].handoff = h
        /\ document[h].status # "none" /\ Doc(p) = document[h]
        /\ SnapshotInv(p) /\ ClaimInv(p) /\ SessionInv(p) /\ LostInv(p)
        /\ request[p] \in Request
    BY <1>1, <1>3, <2>0, Working DEF RequestInv
  <2>2. document'[h] = document[h] /\ Doc(p)' = document[h]
    BY <2>1 DEF Doc
  <2>3. Wins(p)' = Wins(p)
    BY <2>1, <2>2 DEF Wins
  <2>4. /\ document[h].lease \in Nat /\ request[p].until \in Nat /\ now \in Nat
    BY <1>1, <2>1 DEF TypeOK, Document, Request
  <2>5. SnapshotInv(p)'
    BY <2>1, <2>2, <2>3, <2>4 DEF SnapshotInv, LeaseOver
  <2>6. ClaimInv(p)'
    BY <2>1, <2>2, <2>3, <2>4 DEF ClaimInv
  <2>7. h \notin Open => h \notin Open'
    BY <2>1 DEF Open
  <2>8. SessionInv(p)'
    BY <2>1, <2>7 DEF SessionInv
  <2>9. LostInv(p)'
    BY <1>2, <2>1, <2>3 DEF LostInv
  <2> QED
    BY <2>5, <2>6, <2>8, <2>9
<1>4. ASSUME NEW p \in Polls, request[p].pc = "idle"
      PROVE  (SnapshotInv(p) /\ ClaimInv(p) /\ SessionInv(p) /\ LostInv(p))'
  <2>1. request'[p] = request[p] /\ SnapshotInv(p)
    BY <1>1 DEF RequestInv
  <2> QED
    BY <1>4, <2>1 DEF SnapshotInv, ClaimInv, SessionInv, LostInv, Claimed
<1>5. RequestInv'
  BY <1>3, <1>4 DEF RequestInv
<1>6. AnswerHonest'
  <2> SUFFICES ASSUME NEW p \in Polls, request[p].pc = "idle", request[p].answer # "none"
               PROVE  Honest(p)'
    BY DEF AnswerHonest, Honest
  <2>1. /\ request'[p] = request[p] /\ request[p].handoff \in Ceremonies
        /\ Honest(p) /\ request[p].until \in Nat /\ now \in Nat
        /\ request[p].answer \in {"none", "completed", "failed"}
    BY <1>1 DEF RequestInv, SnapshotInv, AnswerHonest, TypeOK, Request
  <2>2. document[request[p].handoff].status # "none" =>
            document'[request[p].handoff] = document[request[p].handoff]
    BY <2>1
  <2> QED
    BY <2>1, <2>2 DEF Honest, Doc
<1>7. ExclusiveInv'
  BY <1>1 DEF ExclusiveInv
<1>8. LossExplained'
  BY <1>1, <1>2 DEF LossExplained
<1> QED
  BY <1>5, <1>6, <1>7, <1>8
LEMMA StartHandoffStep ==
    ASSUME IndInv, NEW s \in Starters, NEW d \in Deps, StartHandoff(s, d) PROVE IndInv'
<1>1. /\ TypeOK /\ SessionsBounded /\ DocumentInv /\ StarterInv /\ TakerInv /\ SessionReleased
      /\ starter[s].pc = "idle" /\ session' = Swept /\ UNCHANGED <<now, document, request>>
  BY DEF IndInv, StartHandoff, SweptAtStart
<1>2. Closing /\ now \in Nat
  BY <1>1, SweptCloses DEF TypeOK
<1>3. \/ UNCHANGED starter
      \/ /\ Room(session')
         /\ starter' = [starter EXCEPT ![s].pc = "bridge", ![s].dep = d]
  BY DEF StartHandoff
<1>4. TypeOK'
  BY <1>1, <1>2, <1>3 DEF TypeOK, Closing, Starter
<1>5. SessionsBounded'
  <2>1. CASE UNCHANGED starter
    BY <1>1, <1>2, <2>1, CapacityKept
  <2>2. CASE Room(session')
    <3>1. Cardinality(Open') < Maximum
      BY <2>2 DEF Room, Open
    <3>2. /\ Cardinality(Open') \in Nat /\ Cardinality(Bridging') \in Nat
          /\ Cardinality(Starters) \in Nat /\ Cardinality(Bridging') <= Cardinality(Starters)
      <4>1. Open' \subseteq Ceremonies /\ Bridging' \subseteq Starters
        BY DEF Open, Bridging
      <4> QED
        BY <4>1, SessionsAssumption, FS_Subset, FS_CardinalityType DEF SessionsAssumption
    <3> QED
      BY <3>1, <3>2, SessionsAssumption DEF SessionsBounded, SessionsAssumption
  <2> QED
    BY <1>3, <2>1, <2>2
<1>6. DocumentInv'
  BY <1>1, <1>2 DEF DocumentInv, Closing
<1>7. StarterInv'
  <2>1. \A t \in Starters : starter'[t].ceremony = starter[t].ceremony
    BY <1>1, <1>3 DEF TypeOK, Starter
  <2>2. \A t \in Starters : starter'[t].pc = "create" <=> starter[t].pc = "create"
    BY <1>1, <1>3 DEF TypeOK, Starter
  <2>3. \A c \in Ceremonies : session[c].state # "unused" => session'[c].state # "unused"
    BY <1>2 DEF Closing
  <2> SUFFICES ASSUME NEW t \in Starters
               PROVE  /\ starter'[t].pc # "create" => starter'[t].ceremony = None
                      /\ starter'[t].pc = "create" =>
                           /\ starter'[t].ceremony \in Ceremonies
                           /\ session'[starter'[t].ceremony].state # "unused"
                           /\ document'[starter'[t].ceremony].status = "none"
                           /\ \A u \in Starters \ {t} :
                                starter'[u].ceremony # starter'[t].ceremony
    BY DEF StarterInv
  <2> QED
    BY <1>1, <2>1, <2>2, <2>3 DEF StarterInv
<1>8. RequestInv' /\ AnswerHonest' /\ ExclusiveInv' /\ LossExplained'
  BY <1>1, <1>2, Undisturbed DEF Closing, TypeOK
<1>9. TakerInv'
  <2>1. \A c \in Ceremonies :
            session'[c].state \in {"confirmed", "failed"} => session'[c] = session[c]
    BY <1>1 DEF Swept, TypeOK, Session
  <2> QED
    BY <1>1, <2>1 DEF TakerInv, Wins, Doc
<1>10. SessionReleased'
  BY <1>1, <1>2 DEF SessionReleased, Closing, Open
<1> QED
  BY <1>4, <1>5, <1>6, <1>7, <1>8, <1>9, <1>10 DEF IndInv

LEMMA OpenSessionStep ==
    ASSUME IndInv, NEW s \in Starters, OpenSession(s) PROVE IndInv'
<1>1. /\ TypeOK /\ SessionsBounded /\ DocumentInv /\ StarterInv /\ TakerInv /\ SessionReleased
      /\ starter[s].pc = "bridge" /\ UNCHANGED <<now, document, request>>
      /\ starter \in [Starters -> Starter] /\ session \in [Ceremonies -> Session]
      /\ document \in [Ceremonies -> Document] /\ now \in Nat
  BY DEF IndInv, OpenSession, TypeOK
<1>2. CASE starter' = [starter EXCEPT ![s] = FreeStarter] /\ UNCHANGED session
  <2>1. Closing
    BY <1>1, <1>2, Same
  <2>2. /\ starter' \in [Starters -> Starter]
        /\ starter'[s].pc = "idle" /\ starter'[s].ceremony = None
        /\ \A t \in Starters \ {s} : starter'[t] = starter[t]
    BY <1>1, <1>2 DEF FreeStarter, Starter
  <2>3. TypeOK'
    BY <1>1, <1>2, <2>2 DEF TypeOK
  <2>4. SessionsBounded'
    BY <1>1, <2>1, <2>2, CapacityKept
  <2>5. StarterInv'
    BY <1>1, <1>2, <2>2, SessionsAssumption DEF StarterInv, SessionsAssumption
  <2>6. RequestInv' /\ AnswerHonest' /\ ExclusiveInv' /\ LossExplained'
    BY <1>1, <1>2, Undisturbed
  <2> QED
    BY <1>1, <1>2, <2>3, <2>4, <2>5, <2>6 DEF IndInv, DocumentInv, TakerInv, SessionReleased,
       Open, Wins, Doc
<1>3. ASSUME NEW c \in Ceremonies, NEW expiresAt \in now + 1 .. MaxTime,
             session[c].state = "unused",
             session' = [session EXCEPT ![c] = [state |-> "open", until |-> 0,
                             dep |-> starter[s].dep, expiresAt |-> expiresAt]],
             starter' = [starter EXCEPT ![s].pc = "create", ![s].ceremony = c]
      PROVE  IndInv'
  <2>0. expiresAt \in Nat /\ starter[s].dep \in Deps \union {None}
    BY <1>1, <1>3, SessionsAssumption DEF Starter, SessionsAssumption
  <2>1. /\ session' \in [Ceremonies -> Session]
        /\ session'[c].state = "open" /\ session'[c].expiresAt = expiresAt
        /\ \A e \in Ceremonies \ {c} : session'[e] = session[e]
    BY <1>1, <1>3, <2>0 DEF Session
  <2>2. /\ starter' \in [Starters -> Starter]
        /\ starter'[s].pc = "create" /\ starter'[s].ceremony = c
        /\ \A t \in Starters \ {s} : starter'[t] = starter[t]
    BY <1>1, <1>3 DEF Starter
  <2>3. TypeOK'
    BY <1>1, <2>1, <2>2 DEF TypeOK
  <2>4. document[c].status = "none"
    BY <1>1, <1>3 DEF DocumentInv
  <2>5. SessionsBounded'
    <3>1. Open' = Open \union {c} /\ c \notin Open
      BY <1>3, <2>1 DEF Open
    <3>2. Bridging' = Bridging \ {s} /\ s \in Bridging
      BY <1>1, <2>2 DEF Bridging
    <3>3. Cardinality(Open') = Cardinality(Open) + 1
      BY <1>1, <3>1, OpenFinite, FS_AddElement
    <3>4. Cardinality(Bridging') = Cardinality(Bridging) - 1
      BY <1>1, <3>2, OpenFinite, FS_RemoveElement
    <3> QED
      BY <1>1, <3>3, <3>4, OpenFinite, SessionsAssumption DEF SessionsBounded, SessionsAssumption
  <2>6. DocumentInv'
    BY <1>1, <2>1, <2>4 DEF DocumentInv
  <2>7. StarterInv'
    <3>1. \A t \in Starters : starter[t].ceremony # c
      BY <1>1, <1>3, SessionsAssumption DEF StarterInv, SessionsAssumption
    <3> QED
      BY <1>1, <2>1, <2>2, <2>4, <3>1, SessionsAssumption DEF StarterInv, SessionsAssumption
  <2>8. RequestInv' /\ AnswerHonest' /\ ExclusiveInv' /\ LossExplained'
    BY <1>1, <2>1, <2>4, Undisturbed
  <2>9. TakerInv'
    BY <1>1, <2>1 DEF TakerInv, Wins, Doc
  <2>10. SessionReleased'
    BY <1>1, <2>1, <2>4 DEF SessionReleased, Open
  <2> QED
    BY <2>3, <2>5, <2>6, <2>7, <2>8, <2>9, <2>10 DEF IndInv
<1> QED
  BY <1>2, <1>3 DEF OpenSession

LEMMA CreateHandoffStep ==
    ASSUME IndInv, NEW s \in Starters, CreateHandoff(s) PROVE IndInv'
<1>0. PICK c \in Ceremonies : c = starter[s].ceremony
  BY DEF CreateHandoff, IndInv, StarterInv
<1>1. /\ TypeOK /\ SessionsBounded /\ DocumentInv /\ StarterInv /\ TakerInv /\ SessionReleased
      /\ starter[s].pc = "create" /\ document[c].status = "none"
      /\ session[c].state # "unused" /\ session[c].expiresAt \in Nat
      /\ UNCHANGED <<now, session, request>> /\ Closing
      /\ starter \in [Starters -> Starter] /\ document \in [Ceremonies -> Document]
      /\ now \in Nat
  BY <1>0, Same DEF IndInv, CreateHandoff, TypeOK, StarterInv, Session
<1>2. /\ starter' \in [Starters -> Starter]
      /\ starter'[s].pc = "idle" /\ starter'[s].ceremony = None
      /\ \A t \in Starters \ {s} : starter'[t] = starter[t]
  BY <1>1 DEF CreateHandoff, FreeStarter, Starter
<1>3. \/ UNCHANGED document
      \/ \E expiresAt \in now + 1 .. session[c].expiresAt :
            document' = [document EXCEPT ![c] =
                [status |-> "pending", code |-> "none", version |-> 1,
                 expiresAt |-> expiresAt, lease |-> 0]]
  BY <1>0 DEF CreateHandoff
<1>4. /\ document' \in [Ceremonies -> Document]
      /\ \A e \in Ceremonies \ {c} : document'[e] = document[e]
      /\ \/ document' = document
         \/ document'[c].status = "pending" /\ document'[c].expiresAt <= session[c].expiresAt
  BY <1>1, <1>3 DEF Document, Codes, Live
<1>5. TypeOK'
  BY <1>1, <1>2, <1>4 DEF TypeOK
<1>6. SessionsBounded'
  BY <1>1, <1>2, CapacityKept
<1>7. DocumentInv'
  BY <1>1, <1>4 DEF DocumentInv
<1>8. StarterInv'
  BY <1>0, <1>1, <1>2, <1>4, SessionsAssumption DEF StarterInv, SessionsAssumption
<1>9. RequestInv' /\ AnswerHonest' /\ ExclusiveInv' /\ LossExplained'
  <2>1. \A e \in Ceremonies : document[e].status # "none" =>
            document'[e] = document[e] /\ (e \notin Open => session'[e] = session[e])
    BY <1>1, <1>4
  <2>2. \A e \in Ceremonies : document'[e].status \in {document[e].status, "pending"}
    BY <1>4
  <2> QED
    BY <1>1, <1>4, <2>1, <2>2, Undisturbed
<1>10. TakerInv'
  BY <1>1, <1>4 DEF TakerInv, Wins, Doc
<1>11. SessionReleased'
  BY <1>1, <1>4 DEF SessionReleased, Open, Live
<1> QED
  BY <1>5, <1>6, <1>7, <1>8, <1>9, <1>10, <1>11 DEF IndInv
LEMMA RestartStep == ASSUME IndInv, Restart PROVE IndInv'
<1>1. /\ TypeOK /\ SessionsBounded /\ DocumentInv /\ TakerInv /\ LossExplained /\ SessionReleased
      /\ UNCHANGED <<now, document>>
  BY DEF IndInv, Restart
<1>2. Closing
  BY <1>1 DEF Restart, Closing, TypeOK, Session, Open
<1>3. /\ \A s \in Starters : starter'[s] = FreeStarter
      /\ starter' \in [Starters -> Starter]
  BY DEF Restart, FreeStarter, Starter
<1>4. /\ \A p \in Polls : request'[p].pc = "idle" /\ request'[p].answer = "none"
      /\ request' \in [Polls -> Request]
  BY DEF Restart, FreeRequest, Request, Steps, Codes
<1>5. TypeOK'
  BY <1>1, <1>2, <1>3, <1>4 DEF TypeOK, Closing
<1>6. SessionsBounded'
  BY <1>1, <1>2, <1>3, CapacityKept DEF FreeStarter
<1>7. DocumentInv'
  BY <1>1, <1>2 DEF DocumentInv, Closing
<1>8. StarterInv'
  BY <1>3 DEF StarterInv, FreeStarter
<1>9. RequestInv' /\ AnswerHonest' /\ ExclusiveInv'
  BY <1>4 DEF RequestInv, SnapshotInv, ClaimInv, SessionInv, LostInv, AnswerHonest,
     Honest, ExclusiveInv, Claimed
<1>10. TakerInv'
  <2>1. \A c \in Ceremonies :
            session'[c].state \in {"confirmed", "failed"} => session'[c] = session[c]
    BY <1>1 DEF Restart, TypeOK, Session
  <2> QED
    BY <1>1, <1>4, <2>1 DEF TakerInv
<1>11. LossExplained'
  BY <1>1, <1>2, ExplainedKept DEF LossExplained
<1>12. SessionReleased'
  BY <1>1, <1>2 DEF SessionReleased, Closing, Open
<1> QED
  BY <1>5, <1>6, <1>7, <1>8, <1>9, <1>10, <1>11, <1>12 DEF IndInv

LEMMA TickStep == ASSUME IndInv, Tick PROVE IndInv'
<1>1. /\ TypeOK /\ SessionsBounded /\ DocumentInv /\ StarterInv /\ TakerInv /\ SessionReleased
      /\ UNCHANGED <<starter, session, document, request>>
      /\ now' = now + 1 /\ now \in Nat
      /\ \A c \in Ceremonies : /\ session[c].until \in Nat /\ session[c].expiresAt \in Nat
                                /\ document[c].expiresAt \in Nat
  BY DEF IndInv, Tick, TypeOK, Session, Document
<1>2. TypeOK'
  BY <1>1 DEF TypeOK
<1>3. SessionsBounded' /\ StarterInv'
  BY <1>1 DEF SessionsBounded, StarterInv, Open, Bridging
<1>4. DocumentInv'
  BY <1>1 DEF DocumentInv
<1>5. RequestInv' /\ AnswerHonest' /\ ExclusiveInv' /\ LossExplained'
  BY <1>1, Undisturbed DEF TypeOK
<1>6. TakerInv'
  BY <1>1 DEF TakerInv, Wins, Doc
<1>7. SessionReleased'
  BY <1>1 DEF SessionReleased, Open
<1> QED
  BY <1>1, <1>2, <1>3, <1>4, <1>5, <1>6, <1>7 DEF IndInv

-----------------------------------------------------------------------------
(* The theorems *)

LEMMA InitInv == Init => IndInv
<1> SUFFICES ASSUME Init PROVE IndInv
  OBVIOUS
<1>1. TypeOK
  BY DEF Init, TypeOK, FreeStarter, Starter, Session, Document, FreeRequest, Request,
     Steps, Codes
<1>2. SessionsBounded
  <2>1. Open = {} /\ Bridging = {}
    BY DEF Init, Open, Bridging, FreeStarter
  <2>2. Cardinality(Open) = 0 /\ Cardinality(Bridging) = 0
    BY <2>1, FS_EmptySet
  <2> QED
    BY <1>1, <2>2, OpenFinite, SessionsAssumption DEF SessionsBounded, SessionsAssumption
<1>3. DocumentInv /\ StarterInv /\ TakerInv
  BY DEF Init, DocumentInv, StarterInv, TakerInv, FreeStarter
<1>4. RequestInv /\ ExclusiveInv /\ AnswerHonest
  BY DEF Init, RequestInv, SnapshotInv, ClaimInv, SessionInv, LostInv, ExclusiveInv,
     AnswerHonest, Honest, FreeRequest, Claimed
<1>5. LossExplained /\ SessionReleased
  BY DEF Init, LossExplained, SessionReleased, Open
<1> QED
  BY <1>1, <1>2, <1>3, <1>4, <1>5 DEF IndInv

\* Every step of a start, of a poll or cancel, of the process and of the clock
\* keeps the invariant.
LEMMA InvStep == ASSUME IndInv, [Next]_vars PROVE IndInv'
<1>1. CASE UNCHANGED vars
  <2>0. TypeOK' /\ SessionsBounded'
    BY <1>1 DEF vars, IndInv, TypeOK, SessionsBounded, Open, Bridging
  <2>1. DocumentInv' /\ StarterInv'
    <3>1. DocumentInv'
      BY <1>1 DEF vars, IndInv, DocumentInv
    <3>2. StarterInv'
      BY <1>1 DEF vars, IndInv, StarterInv
    <3> QED
      BY <3>1, <3>2
  <2>2. RequestInv'
    <3> SUFFICES ASSUME NEW p \in Polls
                 PROVE  SnapshotInv(p)' /\ ClaimInv(p)' /\ SessionInv(p)' /\ LostInv(p)'
      BY DEF RequestInv
    <3>1. SnapshotInv(p) /\ ClaimInv(p) /\ SessionInv(p) /\ LostInv(p)
      BY DEF IndInv, RequestInv
    <3>2. SnapshotInv(p)' /\ ClaimInv(p)'
      BY <1>1, <3>1 DEF vars, SnapshotInv, ClaimInv, Wins, Doc, LeaseOver
    <3>3. SessionInv(p)' /\ LostInv(p)'
      BY <1>1, <3>1 DEF vars, SessionInv, LostInv, Open, Explained, Wins, Doc
    <3> QED
      BY <3>2, <3>3
  <2>3. ExclusiveInv' /\ TakerInv'
    BY <1>1 DEF vars, IndInv, ExclusiveInv, TakerInv, Wins, Doc, LeaseOver
  <2>4. LossExplained' /\ AnswerHonest' /\ SessionReleased'
    BY <1>1 DEF vars, IndInv, LossExplained, Explained, AnswerHonest, Honest,
       SessionReleased, Open, Wins, Doc
  <2> QED
    BY <2>0, <2>1, <2>2, <2>3, <2>4 DEF IndInv
<1>2. ASSUME NEW s \in Starters, Starting(s) PROVE IndInv'
  BY <1>2, StartHandoffStep, OpenSessionStep, CreateHandoffStep DEF Starting
<1>3. ASSUME NEW p \in Polls, Serving(p) PROVE IndInv'
  BY <1>3, PollStep, CancelStep, ReclaimStep, ClaimStep, AskStep, AnswerStep, SatisfyStep,
     CompleteStep, ReleaseStep, FailClaimedStep, DropStep, CancelDocumentStep,
     StoreFailsStep DEF Serving
<1> QED
  BY <1>1, <1>2, <1>3, RestartStep, TickStep DEF Next

\* The inductive invariant holds: what the starts, the requests, the documents
\* and the adapter's map know of each other, for any number of each.
THEOREM Invariant == Spec => []IndInv
<1>1. Init => IndInv
  BY InitInv
<1>2. IndInv /\ [Next]_vars => IndInv'
  BY InvStep
<1> QED
  BY <1>1, <1>2, PTL DEF Spec

\* The sessions and the starts that may yet add one are never more than the
\* maximum less one and one for each concurrent start, however they interleave.
THEOREM Bounded == Spec => []SessionsBounded
<1>1. IndInv => SessionsBounded
  BY DEF IndInv
<1> QED
  BY <1>1, Invariant, PTL

\* A handoff that fails with WORLD_SESSION_LOST has lost its session to one of
\* the named causes.
THEOREM Losses == Spec => []LossExplained
<1>1. IndInv => LossExplained
  BY DEF IndInv
<1> QED
  BY <1>1, Invariant, PTL

\* What ends the agent's call is how the handoff ended, or will end, with the
\* named exceptions.
THEOREM Honesty == Spec => []AnswerHonest
<1>1. IndInv => AnswerHonest
  BY DEF IndInv
<1> QED
  BY <1>1, Invariant, PTL

\* Open sessions belong to open handoffs, with the named exceptions.
THEOREM Releases == Spec => []SessionReleased
<1>1. IndInv => SessionReleased
  BY DEF IndInv
<1> QED
  BY <1>1, Invariant, PTL
=============================================================================
