------------------------------ MODULE Issuance ------------------------------
(***************************************************************************)
(* Who may have which requirement issued: the decisions of                  *)
(* src/src/auth/issuance.ts, as operators.                                  *)
(*                                                                         *)
(* A URL is taken apart as `new URL` does it; only the path keeps its       *)
(* characters, because the prefix rule is about them: a path is a sequence  *)
(* of "/", "." and other characters, where "%" stands for all that makes a  *)
(* path ambiguous after parsing (percent, backslash, NUL).                  *)
(***************************************************************************)
EXTENDS Integers, Sequences

Profiles == {"dev", "eval", "prod"}

-----------------------------------------------------------------------------
(* Paths *)

Slashes(path) == {i \in DOMAIN path : path[i] = "/"}

\* The parts of a path between slashes.
Segments(path) ==
    {SubSeq(path, ends[1] + 1, ends[2] - 1) :
        ends \in {e \in (Slashes(path) \union {0}) \X (Slashes(path) \union {Len(path) + 1}) :
                      /\ e[1] < e[2]
                      /\ \A k \in e[1] + 1 .. e[2] - 1 : path[k] # "/"}}

\* normalizeAuthorizedPath returns null
Ambiguous(path) ==
    \/ path = <<>> \/ path[1] # "/"
    \/ \E i \in DOMAIN path : path[i] = "%"
    \/ \E i \in Slashes(path) : i + 1 \in Slashes(path)
    \/ Segments(path) \intersect {<<".">>, <<".", ".">>} # {}

\* normalizeAuthorizedPath: the segments, joined again.
Normalized(path) ==
    IF Len(path) > 1 /\ path[Len(path)] = "/" THEN SubSeq(path, 1, Len(path) - 1)
                                              ELSE path

StartsWith(path, prefix) ==
    Len(prefix) <= Len(path) /\ SubSeq(path, 1, Len(prefix)) = prefix

\* Mutant: a prefix ends anywhere.
UnderAnywhere(path, prefix) == StartsWith(path, prefix)

\* path === prefix, or path.startsWith(boundary)
Under(path, prefix) ==
    prefix = <<"/">> \/ path = prefix \/ StartsWith(path, Append(prefix, "/"))

-----------------------------------------------------------------------------
(* Grants *)

\* A grant's origin is bare if its URL has no path, query, hash or credentials.
Covers(grant, uri) ==
    /\ grant.https /\ grant.bare
    /\ grant.origin = uri.origin
    /\ ~Ambiguous(grant.prefix)
    /\ Under(Normalized(uri.path), Normalized(grant.prefix))

ResourceUriAuthorized(uri, grants) ==
    /\ uri.https /\ ~uri.credentials
    /\ ~Ambiguous(uri.path)
    /\ \E grant \in grants : Covers(grant, uri)

Grants == {"purposes", "audiences", "httpMethods", "methods", "resources"}

\* validateIssuancePrincipal: own keys only, and all that are needed.
Valid(principal) ==
    IF principal.wildcard
      THEN principal.keys = {"subject"}
      ELSE /\ {"subject"} \union Grants \subseteq principal.keys
           /\ principal.keys \subseteq {"subject", "issuer"} \union Grants

\* authorizeIssuance: the code of the error it throws, or "ok".
AuthorizeIssuance(principal, ask, profile) ==
    CASE ~Valid(principal) -> "UNAUTHENTICATED"
      [] profile # "dev" /\ ~(ask.uri.https /\ ask.audience.https) ->
             "RESOURCE_NOT_AUTHORIZED"
      [] principal.wildcard ->
             IF profile = "dev" THEN "ok" ELSE "METHOD_NOT_AUTHORIZED"
      [] ask.purpose \notin principal.purposes -> "PURPOSE_NOT_AUTHORIZED"
      [] ask.audience \notin principal.audiences -> "AUDIENCE_NOT_AUTHORIZED"
      [] ask.httpMethod \notin principal.httpMethods -> "HTTP_METHOD_NOT_AUTHORIZED"
      [] ~ResourceUriAuthorized(ask.uri, principal.resources) ->
             "RESOURCE_NOT_AUTHORIZED"
      [] principal.methods = {} \/ ~(ask.accepts \subseteq principal.methods) ->
             "METHOD_NOT_AUTHORIZED"
      [] OTHER -> "ok"

-----------------------------------------------------------------------------
(* Router *)

\* assertIssuanceRouterConfig; profile: None if it was left out.
AssertIssuanceRouterConfig(profile, authenticator, allowUnauthenticated) ==
    /\ profile \in Profiles
    /\ IF profile = "dev" THEN authenticator \/ allowUnauthenticated
                          ELSE authenticator /\ ~allowUnauthenticated
=============================================================================
