----------------------------- MODULE MCResource -----------------------------
EXTENDS ResourceServerInv, TLC

Local(backend) ==
    [profile |-> "prod", requirements |-> backend, results |-> backend,
     remoteRequirements |-> FALSE, remoteResults |-> FALSE,
     replay |-> TRUE, acceptance |-> TRUE, requireKey |-> TRUE]

Dev == [Local("memory") EXCEPT !.profile = "dev", !.requireKey = FALSE]

Managed(backend) == [Local(backend) EXCEPT !.remoteRequirements = TRUE,
                                           !.remoteResults = TRUE]

Deployments ==
    {Local("redis"), Local("postgres"), Managed("redis"),
     [Local("redis") EXCEPT !.remoteResults = TRUE, !.requireKey = FALSE],
     [Local("postgres") EXCEPT !.remoteResults = TRUE],
     [Managed("redis") EXCEPT !.results = "memory"],
     Dev, [Dev EXCEPT !.replay = FALSE],
     [Dev EXCEPT !.remoteRequirements = TRUE]}

Symmetry == Permutations(Requests) \union Permutations(Keys)
=============================================================================
