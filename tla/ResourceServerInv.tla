------------------------- MODULE ResourceServerInv -------------------------
(***************************************************************************)
(* The inductive invariants behind the properties of ResourceServer: what   *)
(* the requests, the requirements and the rows of the result stores know of *)
(* each other (IndInv), and what refusals and cleanup rest on (RetryInv).   *)
(***************************************************************************)
EXTENDS ResourceServer

Present(slot) == entry[slot].by # None

\* A signed result has a requirement, and a request past the lookup is
\* for its target, which never changes.
TokenInv ==
    \A r \in Results : token[r] # 0 => requirement[r].state # "absent"

Granting == {"route", "snapshot", "use"}

\* The request carries a signed result, and a key where it needs one.
Taken(q) ==
    request[q].pc \in InFlight \union {"admitted"} \/ request[q].used =>
        /\ request[q].proof \in Results
        /\ token[request[q].proof] # 0
        /\ Mutation(request[q].target) /\ request[q].key = None =>
             config.profile = "dev" /\ ~config.requireKey

\* What was true at the lookup: the clock was before the result's expiry, and
\* the request is what the requirement is for.
Looked(q) ==
    /\ request[q].pc \in Granting =>
         request[q].at < token[request[q].proof]
    /\ request[q].pc \in Granting \/ request[q].used =>
         request[q].target = requirement[request[q].proof].target

Timely(q) ==
    /\ request[q].at <= now
    /\ request[q].used =>
         request[q].usedAt <= now /\ request[q].pc \in {"delete", "admitted", "refused"}
    /\ request[q].pc \in {"lookup", "route", "snapshot"} => request[q].seen = {}

RequestInv == \A q \in Requests : Taken(q) /\ Looked(q) /\ Timely(q)

\* A row is of a signed result and expires with it; scoped rows are written by
\* the current release only, which finds a plain row as long as it is valid.
EntryInv ==
    /\ \A slot \in Stores \X Names \X Results :
           Present(slot) => /\ token[slot[3]] # 0
                            /\ entry[slot].expiresAt = token[slot[3]]
                            /\ slot[2] = "scoped" => Scoped
    /\ \A s \in Stores, r \in Results :
           Present(<<s, "plain", r>>) /\ Present(<<s, "scoped", r>>) =>
               config.results # "postgres" /\ token[r] <= now

\* What PostgreSQL's snapshot showed stays true: its rows are never replaced.
Backed(q) ==
    config.results = "postgres" /\ request[q].pc = "use" =>
        \A op \in request[q].seen : \E name \in Names : Row(q, name).by = op

SeenInv == \A q \in Requests : Backed(q)

\* A grant is remembered by a row, unless the row lapsed with the result or
\* the process that kept it, and every request at work on it, stopped.
Remembered(q) ==
    \E name \in Names : Row(q, name).by = Operation(q)

Lapsed(q) == config.results # "postgres" /\ token[request[q].proof] <= now

Stopped(q) ==
    /\ requirement[request[q].proof].state # "stored"
    /\ \A p \in Requests : request[p].pc \in Granting =>
           request[p].proof # request[q].proof

GrantInv ==
    ~Volatile => \A q \in Requests : request[q].used =>
        Remembered(q) \/ Lapsed(q) \/ Stopped(q)

IndInv ==
    /\ TypeOK
    /\ TokenInv
    /\ RequestInv
    /\ EntryInv
    /\ SeenInv
    /\ GrantInv
    /\ OneOperationPerResult

-----------------------------------------------------------------------------
(* The invariant behind SpentMeansSpent and CleanupAfterUse *)

\* The cleanup of a read for the requirement's own target, whose result was used
\* wherever there is a store for it.
Cleaning(q) ==
    request[q].pc = "delete" =>
        /\ ~Mutation(request[q].target)
        /\ request[q].target = requirement[request[q].proof].target
        /\ request[q].used \/ ~config.replay

\* After it the requirement is gone.
Gone(q) ==
    request[q].pc = "admitted" /\ ~Mutation(request[q].target) =>
        ~Stored(request[q].proof, now)

SameUse(p, q) ==
    /\ request[p].used
    /\ request[p].proof = request[q].proof
    /\ Store(p) = Store(q) /\ Operation(p) = Operation(q)

\* PostgreSQL's snapshot overlooks a use of the same operation only if it came
\* after the request's clock, or once the row lapses.
Overlooks(q) ==
    config.results = "postgres" /\ UseAcceptance(q) /\ request[q].pc = "use" =>
        \A p \in Requests :
            /\ SameUse(p, q)
            /\ request[p].usedAt < request[q].at
            /\ now < token[request[q].proof]
            => Operation(q) \in request[q].seen

\* What SpentMeansSpent says of one request, whose clock and result stay.
Spent(q) ==
    request[q].why = "spent" =>
        /\ request[q].pc = "refused"
        /\ request[q].proof \in Results /\ token[request[q].proof] # 0
        /\ \E p \in Requests \ {q} :
            /\ request[p].used
            /\ request[p].proof = request[q].proof
            /\ \/ Operation(p) # Operation(q)
               \/ /\ config.results = "postgres"
                  /\ \/ request[q].at <= request[p].usedAt
                     \/ token[request[q].proof] <= now

\* Every row has a request that wrote it and was granted the result.
Writer(slot) ==
    Present(slot) => \E p \in Requests :
        /\ request[p].used
        /\ slot[1] = Store(p) /\ slot[3] = request[p].proof
        /\ entry[slot].by = Operation(p)

Deletion(r) ==
    requirement[r].state = "deleted" =>
        /\ ~Mutation(requirement[r].target)
        /\ \/ \E q \in Requests : request[q].used /\ request[q].proof = r
           \/ ~config.replay

Own(q) == Cleaning(q) /\ Gone(q) /\ Overlooks(q) /\ Spent(q)

RetryInv ==
    /\ \A q \in Requests : Own(q)
    /\ \A slot \in Stores \X Names \X Results : Writer(slot)
    /\ \A r \in Results : Deletion(r)
=============================================================================
