---------------------------- MODULE MCDependency ----------------------------
EXTENDS Dependency, TLC

CONSTANTS alice, bob

SmallAgents == {alice, bob}
Symmetry == Permutations(SmallAgents)

Uri(origin, path) == [https |-> TRUE, credentials |-> FALSE, origin |-> origin, path |-> path]

Message(method, uri, body) ==
    [method |-> method, uri |-> uri, body |-> body, digest |-> "", proof |-> "",
     payment |-> ""]

\* Under the grant /a: itself and a child; beside it: a longer name, another
\* origin.
SmallMessages ==
    {Message("GET", Uri("o", <<"/", "a">>), ""),
     Message("GET", Uri("o", <<"/", "a">>), "b"),
     Message("POST", Uri("o", <<"/", "a", "/", "b">>), "b"),
     Message("POST", Uri("o", <<"/", "a", "b">>), "c"),
     Message("POST", Uri("p", <<"/", "a">>), "b")}

Home == [https |-> TRUE, credentials |-> FALSE]

Grant(prefix) == [https |-> TRUE, bare |-> TRUE, origin |-> "o", prefix |-> prefix]

Issuer(resources, methods) ==
    [wildcard |-> FALSE, keys |-> {"subject"} \union Grants, purposes |-> {"buy"},
     audiences |-> {Home}, httpMethods |-> {"GET", "POST"}, methods |-> methods,
     resources |-> resources]

\* Both methods under /a; one method, under "/" and under an ambiguous prefix;
\* the development wildcard; a principal without its resources.
SmallPrincipals ==
    {Issuer({Grant(<<"/", "a", "/">>)}, Methods),
     Issuer({Grant(<<"/", ".">>)}, {Current4}),
     [Issuer({}, {}) EXCEPT !.wildcard = TRUE, !.keys = {"subject"}],
     [Issuer({Grant(<<"/">>)}, Methods) EXCEPT !.keys = @ \ {"resources"}]}

SmallPurposes == {"buy", "vote"}
SmallAudiences == {Home}

\* As the helper makes them; one that asks the current method for the legacy
\* assurance, which only the proof's evaluation refuses; legacy alone; a
\* version that is not installed; one method twice.
SmallMethodologies ==
    LET current == MethodRequirement(Current4, Unset)
    IN {MethodRequirements(FALSE, Unset), MethodRequirements(TRUE, 1),
        <<[current EXCEPT !.assurance = Legacy3]>>,
        <<MethodRequirement(Legacy3, Unset)>>, <<[current EXCEPT !.version = "0"]>>,
        <<current, current>>}

\* Development without authentication; production and evaluation with it, one
\* where issuers bring their own material, one without World ID 3.
SmallDeployments ==
    {[profile |-> "dev", authenticator |-> FALSE, allowUnauthenticated |-> TRUE,
      own |-> TRUE, legacy |-> TRUE],
     [profile |-> "prod", authenticator |-> TRUE, allowUnauthenticated |-> FALSE,
      own |-> FALSE, legacy |-> TRUE],
     [profile |-> "eval", authenticator |-> TRUE, allowUnauthenticated |-> FALSE,
      own |-> TRUE, legacy |-> FALSE]}
=============================================================================
