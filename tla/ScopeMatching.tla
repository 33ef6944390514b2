---------------------------- MODULE ScopeMatching ----------------------------
(***************************************************************************)
(* Which requirement a granted scope satisfies (scope_match.rs), how roles *)
(* expand into scopes through a signed catalogue (role_scope.rs) and what  *)
(* the GraphQL guards answer (guards.rs).  A scope is the sequence of its  *)
(* characters over a small alphabet: matching is by raw prefix, so the     *)
(* characters are the data the result depends on.                          *)
(***************************************************************************)
EXTENDS Integers, SequencesExt

CONSTANT NoData    \* what a request context does not hold

Sep == "."
\* ExactScopeMatch is the hierarchical matcher with an empty wildcard.
HierarchicalScopeOptions(Scopes) ==
  [wildcard : {<<"*">>, <<>>}, multi : BOOLEAN, universal : BOOLEAN,
   super : SUBSET Scopes, superExact : BOOLEAN,
   exactOnly : SUBSET Scopes, patterns : SUBSET Scopes]

\* A bare wildcard may not select the exact-only requirements.
validate_options(o) == o.wildcard # <<>> => o.wildcard \notin o.patterns

\* The element of a set of numbers with n - 1 smaller ones.
Nth(S, n) == CHOOSE x \in S : Cardinality({y \in S : y < x}) = n - 1

\* str::split: the segments of a scope, empty ones included.  One starts
\* after each cut: the beginning and every separator.
Cuts(s, sep) == {0} \cup {i \in DOMAIN s : s[i] = sep}
Segment(s, sep, c) ==
  SubSeq(s, c + 1, Min({i \in Cuts(s, sep) : i > c} \cup {Len(s) + 1}) - 1)
split(s, sep) ==
  [n \in 1 .. Cardinality(Cuts(s, sep)) |->
     Segment(s, sep, Nth(Cuts(s, sep), n))]

\* Mutant: a wildcard in the requirement matches as well.
segments_match_Both(o, granted, required) ==
  LET G == split(granted, Sep)
      R == split(required, Sep)
  IN  /\ Len(G) = Len(R)
      /\ \A i \in DOMAIN G : o.wildcard \in {G[i], R[i]} \/ G[i] = R[i]

\* An interior wildcard stands for exactly one whole segment.
segments_match(o, granted, required) ==
  LET G == split(granted, Sep)
      R == split(required, Sep)
  IN  /\ Len(G) = Len(R)
      /\ \A i \in DOMAIN G : G[i] = o.wildcard \/ G[i] = R[i]

\* A trailing wildcard is a raw prefix, or one non-empty rest without a
\* separator when it may not run over several segments.
trailing_matches(o, granted, required) ==
  LET prefix == SubSeq(granted, 1, Len(granted) - Len(o.wildcard))
      rest   == SubSeq(required, Len(prefix) + 1, Len(required))
  IN  /\ IsPrefix(prefix, required)
      /\ o.multi \/ (rest # <<>> /\ ~Contains(rest, Sep))

matches_hierarchy(o, granted, required) ==
  \/ granted = required
  \/ /\ <<>> \notin {granted, required, o.wildcard}
     /\ IF granted = o.wildcard THEN o.universal
        ELSE IF IsSuffix(o.wildcard, granted)
             THEN trailing_matches(o, granted, required)
             ELSE segments_match(o, granted, required)

is_exact_only_requirement(o, required) ==
  \/ required \in o.exactOnly
  \/ \E p \in o.patterns : matches_hierarchy(o, p, required)

matches(o, granted, required) ==
  \/ granted = required
  \/ IF is_exact_only_requirement(o, required)
     THEN o.superExact /\ granted \in o.super
     ELSE granted \in o.super \/ matches_hierarchy(o, granted, required)

has_scope(o, granted, required) == \E g \in granted : matches(o, g, required)
has_any_scope(o, granted, required) ==
  \E r \in required : has_scope(o, granted, r)
has_all_scopes(o, granted, required) ==
  \A r \in required : has_scope(o, granted, r)

\* validate_session_bound_current_authority: roles as they are, scopes by
\* what the authority of the parent session satisfies at that moment.  The
\* bindings a parent token carries (actor, confirmation, resource) must be
\* repeated unchanged; the parents here carry none.
delegable(o, parent, request) ==
  /\ request.roles \subseteq parent.roles
  /\ has_all_scopes(o, parent.scopes, request.scopes)

(***************************************************************************)
(* Role expansion.  A catalogue is [version, scopes, roles] where roles is *)
(* a sequence of [id, scopes] with scopes a sequence, as on the wire: the  *)
(* duplicates validate() looks for are possible.  Its size limits, display *)
(* names and exact-only patterns do not reach the expansion.               *)
(***************************************************************************)
Distinct(seq) == Len(seq) = Cardinality(ToSet(seq))

catalogue_valid(c) ==
  /\ c.version # ""
  /\ Distinct(c.scopes) /\ "" \notin ToSet(c.scopes)
  /\ Distinct([i \in DOMAIN c.roles |-> c.roles[i].id])
  /\ \A i \in DOMAIN c.roles :
       /\ c.roles[i].id # ""
       /\ Distinct(c.roles[i].scopes)
       /\ ToSet(c.roles[i].scopes) \subseteq ToSet(c.scopes)

\* Mutant: the envelope is not compared with the signed catalogue.
binding_valid_Now(claims, envelope, issuer, audience, now, lifetime, leeway) ==
  /\ catalogue_valid(envelope) /\ catalogue_valid(claims.catalogue)
  /\ claims.purpose = "role_scope_catalogue"
  /\ claims.iss = issuer /\ claims.aud = audience
  /\ lifetime > 0 /\ leeway >= 0
  /\ claims.iat <= now + leeway /\ claims.exp > now - leeway
  /\ claims.exp > claims.iat /\ claims.exp - claims.iat <= lifetime

\* The claims inside the verified signature bind the envelope's catalogue,
\* the two parties and a bounded lifetime, with a symmetric leeway.
binding_valid(claims, envelope, issuer, audience, now, lifetime, leeway) ==
  /\ catalogue_valid(envelope) /\ catalogue_valid(claims.catalogue)
  /\ claims.purpose = "role_scope_catalogue"
  /\ claims.iss = issuer /\ claims.aud = audience
  /\ claims.catalogue = envelope
  /\ lifetime > 0 /\ leeway >= 0
  /\ claims.iat <= now + leeway /\ claims.exp > now - leeway
  /\ claims.exp > claims.iat /\ claims.exp - claims.iat <= lifetime

\* Every role must be known: one unknown role fails the whole expansion.
expand_roles(c, roles) ==
  IF \A r \in roles : \E i \in DOMAIN c.roles : c.roles[i].id = r
  THEN [ok |-> TRUE, scopes |-> UNION {ToSet(c.roles[i].scopes) :
                         i \in {j \in DOMAIN c.roles : c.roles[j].id \in roles}}]
  ELSE [ok |-> FALSE, scopes |-> {}]

effective_scopes(direct, expansion) == direct \cup expansion.scopes

(***************************************************************************)
(* Guards.  A request's data holds at most one of each: a principal, a     *)
(* user, an API token (each [roles, scopes]) and a matcher.                *)
(***************************************************************************)
ExactScopeMatch ==
  [wildcard |-> <<>>, multi |-> FALSE, universal |-> FALSE, super |-> {},
   superExact |-> FALSE, exactOnly |-> {}, patterns |-> {}]
matcher_from_ctx(ctx) ==
  IF ctx.runtime = NoData THEN ExactScopeMatch ELSE ctx.runtime
principal_from_ctx_opt(ctx) ==
  IF ctx.principal # NoData THEN ctx.principal
  ELSE IF ctx.user # NoData THEN ctx.user ELSE ctx.api

Answer(holder, Ok(_)) ==
  IF holder = NoData THEN "Unauthenticated"
  ELSE IF Ok(holder) THEN "Ok" ELSE "Forbidden"

RequireAuth(ctx) == Answer(ctx.user, LAMBDA u : TRUE)
RequireAnyRole(ctx, need) == Answer(ctx.user, LAMBDA u : u.roles \cap need # {})
RequireAllRoles(ctx, need) == Answer(ctx.user, LAMBDA u : need \subseteq u.roles)
RequireScope(ctx, r) ==
  Answer(ctx.user, LAMBDA u : has_scope(matcher_from_ctx(ctx), u.scopes, r))
RequireAnyScope(ctx, R) ==
  Answer(ctx.user, LAMBDA u : has_any_scope(matcher_from_ctx(ctx), u.scopes, R))
RequireAllScopes(ctx, R) ==
  Answer(ctx.user, LAMBDA u : has_all_scopes(matcher_from_ctx(ctx), u.scopes, R))
RequirePrincipal(ctx) == Answer(principal_from_ctx_opt(ctx), LAMBDA u : TRUE)
RequirePrincipalScope(ctx, r) ==
  Answer(principal_from_ctx_opt(ctx),
         LAMBDA u : has_scope(matcher_from_ctx(ctx), u.scopes, r))
RequireAnyPrincipalScope(ctx, R) ==
  Answer(principal_from_ctx_opt(ctx),
         LAMBDA u : has_any_scope(matcher_from_ctx(ctx), u.scopes, R))
RequireAllPrincipalScopes(ctx, R) ==
  Answer(principal_from_ctx_opt(ctx),
         LAMBDA u : has_all_scopes(matcher_from_ctx(ctx), u.scopes, R))
=============================================================================
