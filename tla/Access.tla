-------------------------------- MODULE Access -------------------------------
(***************************************************************************)
(* The decisions of a resource server, asked one at a time: each probe is  *)
(* one input of one decision, the verdict what the code answers.  Beside   *)
(* them runs the rotating key set of KeySet.                               *)
(***************************************************************************)
EXTENDS TokenKinds, OidcPolicy, ProviderConfig, KeySet

CONSTANTS Probes,   \* the inputs looked at: a sequence of sets of probes
          Chars,    \* the characters of a scope
          Texts     \* what a secret or a claim of a client JWT may say

(***************************************************************************)
(* What the types of the code say of an input.                             *)
(***************************************************************************)
Optional(S) == S \cup {None}

IsSequence(s) == s \in Seq(ToSet(s))

Claims(x) == [auth_time |-> x.auth_time, amr |-> x.amr, acr |-> x.acr]

Issues == {"session", "sessionless", "delegation", "fixed", "purpose", "reset"}

WellTyped(p) ==
  CASE p.kind = "scope" ->
         /\ p.parent.scopes \cup p.request.scopes \subseteq Seq(Chars)
         /\ p.required \cup {p.scope, p.o.wildcard} \subseteq Seq(Chars)
         /\ NoData \notin {p.o, p.parent, p.request}
    [] p.kind = "catalogue" ->
         {p.now, p.lifetime, p.leeway, p.claims.iat, p.claims.exp} \subseteq Int
    [] p.kind = "assurance" ->
         /\ {p.now, p.policy.maximum_age, p.policy.clock_skew} \subseteq Int
         /\ p.user # None =>
              /\ p.user.claims = Claims(p.user.claims)
              /\ p.user.claims.auth_time \in Optional(Int)
              /\ p.user.assurance # None => p.user.assurance.at \in Int
    [] p.kind = "token" ->
         /\ {p.now, p.issued, p.validator.leeway} \subseteq Int
         /\ {p.config.ttl, p.config.max_ttl, p.config.max_del} \subseteq Int
         /\ p.request.issue \in Issues
         /\ p.request.ttl \in Optional(Int)
         /\ p.request.issue \in {"purpose", "reset"} => p.request.ttl # None
         /\ p.request.scopes \in Seq(Seq(Chars))
         /\ "scopes" \in DOMAIN p.request
         /\ {"audiences", "leeway", "legacy"} \subseteq DOMAIN p.validator
    [] p.kind = "header" -> {"key_id", "algs"} \subseteq DOMAIN p.builder
    [] p.kind = "sign_in" ->
         /\ {p.now, p.conf.skew} \subseteq Int
         /\ p.options.max_age \in Optional(Int)
         /\ IsSequence(p.options.claims)
         /\ \A r \in ToSet(p.options.claims) :
              /\ r.claim \in {"auth_time", "acr", "acrs"}
              /\ IsSequence(r.values)
         /\ p.token.auth_time \in Optional(Int)
         /\ IsFiniteSet(p.token.aud)
         /\ \A iss \in p.conf.issuers \cup {p.conf.discovered} : "tenant" \in DOMAIN iss
    [] p.kind = "client" ->
         /\ p.now \in Int
         /\ p.conf.method \in {"ClientSecretPost", "ClientSecretBasic", "PrivateKeyJwt"}
         /\ p.conf.client_secret \in Optional(Texts)
         /\ p.conf.client_jwt # None =>
              /\ {p.conf.client_jwt.lifetime, p.conf.client_jwt.skew} \subseteq Int
              /\ {p.conf.client_jwt.issuer, p.conf.client_jwt.subject} \subseteq Texts
              /\ p.conf.client_jwt.audience \in Optional(Texts)
    [] p.kind = "profile" ->
         /\ p.conf.verification \in {"Unknown", "Pointer", "VerifiesAll"}
         /\ p.conf.list # None =>
              IsSequence(p.conf.list.entries)
    [] OTHER -> TRUE

\* What a token request carries: a secret, a JWT or nothing.
ClientJwt == [iss : Texts, sub : Texts, iat : Int, aud : Texts, exp : Int,
              jti : Optional(Texts)]
Secret == Optional(Texts \cup ClientJwt)

ASSUME ProbesAssumption ==
  /\ \A i \in DOMAIN Probes : \A p \in Probes[i] : WellTyped(p)
  /\ Refused \notin [basic : Secret, client_secret : Secret, assertion : Secret]
  /\ None \notin ClientJwt \cup Texts /\ {"fresh", "endpoint"} \subseteq Texts
  /\ None \notin {"access", "purpose", "password_reset", "Sessionless",
                   "SessionBoundDelegation"}
  /\ None \notin Seq(Seq(Chars)) /\ Space \in Chars

VARIABLES probe, verdict
vars == <<probe, verdict, keyVars>>

(***************************************************************************)
(* The answers.                                                            *)
(***************************************************************************)
\* Every guard that reads authority, for one request context.
Guards(ctx, p) ==
  [auth     |-> RequireAuth(ctx),
   anyRole  |-> RequireAnyRole(ctx, p.roles),
   allRoles |-> RequireAllRoles(ctx, p.roles),
   any      |-> RequireAnyScope(ctx, p.required),
   all      |-> RequireAllScopes(ctx, p.required),
   one      |-> RequireScope(ctx, p.scope),
   prin     |-> RequirePrincipal(ctx),
   onePrin  |-> RequirePrincipalScope(ctx, p.scope),
   anyPrin  |-> RequireAnyPrincipalScope(ctx, p.required),
   allPrin  |-> RequireAllPrincipalScopes(ctx, p.required)]

\* A validator and a service put the user they authenticated into the
\* request; a host may do so itself and leave the matcher out.
inject_http_auth(by, user, o) ==
  [principal |-> IF by = "validator" THEN user ELSE NoData, user |-> user,
   api |-> NoData, runtime |-> IF by = "host" THEN NoData ELSE o]

Verdict(p) ==
  CASE p.kind = "scope" ->
         IF validate_options(p.o) /\ delegable(p.o, p.parent, p.request)
         THEN Guards(inject_http_auth(p.by, p.request, p.o), p) ELSE Refused
    [] p.kind = "catalogue" ->
         LET e == expand_roles(p.envelope, p.roles)
         IN  IF binding_valid(p.claims, p.envelope, "issuer", "api", p.now,
                              p.lifetime, p.leeway) /\ e.ok
             THEN effective_scopes(p.direct, e) ELSE Refused
    [] p.kind = "assurance" ->
         evaluate([recent |-> p.policy], "recent", p.user, p.now)
    [] p.kind = "token" ->
         LET t == issue(p.request, p.config, p.issued)
             v == validator_decode([p.validator EXCEPT !.legacy = p.config.legacy])
         IN  IF ~config_valid(p.config) \/ ~fixed_valid(p.config) \/ t = Refused
             THEN Refused
             ELSE [token |-> t,
                   access |-> decode_access_token_claims(t, service_decode(p.config), p.now),
                   fixed |-> p.config.fixed # None
                             /\ decode_access_token_claims(t, fixed_decode(p.config), p.now),
                   remote |-> v # Refused /\ decode_access_token_claims(t, v, p.now),
                   purpose |-> authenticate_purpose_token(t, p.expected, p.now),
                   reset |-> authenticate_password_reset_token(t, p.config, p.now)]
    [] p.kind = "header" ->
         LET v == build(p.builder)
         IN  IF v = Refused THEN Refused ELSE decode_config_for_token(v, p.header)
    [] p.kind = "sign_in" ->
         LET policy == try_from(p.options)
         IN  IF policy = Refused \/ ~oidc_valid(p.conf) THEN Refused
             ELSE [stored |-> validate_stored(policy),
                   sent |-> claims_parameter(policy),
                   ok |-> /\ validate_stored(policy)
                          /\ validate_claims(p.conf, p.token, "nonce", p.now)
                          /\ enforce_authorization_policy(p.conf, policy, p.token, p.now)]
    [] p.kind = "client" ->
         IF /\ p.conf.client_jwt # None => client_jwt_valid(p.conf.client_jwt)
            /\ IF p.conf.kind = "OAuth2" THEN oauth2_valid(p.conf) ELSE oidc_valid(p.conf)
         THEN client_authentication(p.conf.method, p.conf.client_secret,
                                    p.conf.client_jwt, "endpoint", p.now)
         ELSE [basic |-> None, client_secret |-> None, assertion |-> None]
    [] p.kind = "profile" -> fetch_profile(p.conf, p.raw)

Init ==
  /\ \E i \in DOMAIN Probes : probe \in Probes[i]
  /\ verdict = None
  /\ KeyInit

Decide ==
  /\ probe.kind # "keys" /\ verdict = None
  /\ verdict' = Verdict(probe)
  /\ UNCHANGED <<probe, keyVars>>

Next ==
  \/ Decide
  \/ probe.kind = "keys" /\ KeyNext /\ UNCHANGED <<probe, verdict>>

Spec == Init /\ [][Next]_vars

(***************************************************************************)
(* Properties.                                                             *)
(***************************************************************************)
Answered(kind) == probe.kind = kind /\ verdict \notin {None, Refused}

\* What stands before a trailing wildcard holds no other wildcard.
LiteralPrefix(o, s) ==
  IsSuffix(o.wildcard, s) =>
    \A i \in 1 .. (Len(s) - Len(o.wildcard)) : s[i] \notin ToSet(o.wildcard)

\* The delegated scopes the matcher lets through although they open more than
\* the session does: a super-scope, when the session holds none, and what
\* the session has by a scope with a wildcard before its trailing one.  Such
\* a scope, `a.*.*`, matches what starts with the characters `a.*.`, hence
\* grants `a.*.c`, in which the same `*` stands for any segment.
Amplifies(o, session, d) ==
  \/ d \in o.super /\ session \cap o.super = {}
  \/ \E s \in session : s # d /\ ~LiteralPrefix(o, s) /\ matches_hierarchy(o, s, d)

OwnGuards == Guards(inject_http_auth("service", probe.parent, probe.o), probe)

\* No chain of matches but these two amplifies authority: a guard that opens
\* to a delegated token and not to the session it comes from does so for
\* such a scope, on a requirement that the session does not meet.  The scopes
\* are checked with the matcher by validate_session_bound_current_authority,
\* and the guards match what it let through a second time.
NoAmplification ==
  Answered("scope") =>
    \A g \in DOMAIN verdict : verdict[g] = "Ok" /\ OwnGuards[g] # "Ok" =>
      \E d \in probe.request.scopes, r \in probe.required \cup {probe.scope} :
        /\ Amplifies(probe.o, probe.parent.scopes, d)
        /\ matches(probe.o, d, r)
        /\ ~has_scope(probe.o, probe.parent.scopes, r)

\* A delegated token holds a subset of the session's authority
\* (docs/access-token-only.md): what it opens, the session opens.
DelegateWithinSession ==
  Answered("scope") =>
    \A g \in DOMAIN verdict : verdict[g] = "Ok" => OwnGuards[g] = "Ok"

\* Scopes that reach a resolver through a catalogue were signed for a role
\* the user has, by a catalogue that knows all of the user's roles and is
\* inside its lifetime (role_scope.rs).
CatalogueFailsClosed ==
  Answered("catalogue") =>
  LET signed == probe.claims.catalogue.roles
      held   == {i \in DOMAIN signed : signed[i].id \in probe.roles}
  IN  /\ verdict \subseteq probe.direct \cup UNION {ToSet(signed[i].scopes) : i \in held}
      /\ probe.roles = {signed[i].id : i \in held}
      /\ probe.claims.iat - probe.leeway <= probe.now
      /\ probe.now < probe.claims.exp + probe.leeway
      /\ probe.claims.exp <= probe.claims.iat + probe.lifetime

\* A satisfied recent-MFA evaluation is about an MFA that happened within
\* the maximum age, is shown as such to the client, and a later evaluation
\* agrees with satisfied_until at every instant, the boundary included, for
\* as long as the clock with the skew added is a time.
SatisfiedUntilIsExact ==
  Answered("assurance") /\ verdict.state = "SATISFIED" =>
    /\ from_user(probe.user).mfa_satisfied
    /\ probe.user.assurance.at >= probe.now - probe.policy.maximum_age
    /\ \A later \in probe.now .. (TimeLimit - probe.policy.clock_skew) :
         (evaluate_at(probe.policy, probe.user, later).ok <=> later <= verdict.until)

\* After a step-up, a policy without allowlists is satisfied for as long as
\* the step-up is recent enough (docs/session-assurance.md).
StepUpSatisfiesPolicy ==
  Answered("assurance") /\ probe.now - probe.stepped <= probe.policy.maximum_age =>
    verdict.state = "SATISFIED"

\* Each way to authenticate accepts only what its own issuer signed, with
\* the authority it was issued with and never past the requested lifetime;
\* and a validator verifies an algorithm it allows with a key of that
\* algorithm's family and of the key id it was configured for.
AcceptedAsIssued ==
  /\ Answered("token") =>
     LET lifetime == IF probe.request.issue = "session" THEN probe.config.ttl
                      ELSE Ttl(probe.request, probe.config)
     IN
       /\ verdict.access =>
            /\ probe.request.issue \in {"session", "sessionless", "delegation"}
            /\ ToSet(parse_access_token_scopes(verdict.token, probe.config.legacy))
                 = ToSet(probe.request.scopes)
            /\ probe.now < probe.issued + lifetime
            /\ require_session_management_eligible(verdict.token) =>
                 probe.request.issue = "session"
       /\ verdict.remote =>
            /\ probe.request.issue \in {"session", "sessionless", "delegation", "fixed"}
            /\ probe.now < probe.issued + lifetime + probe.validator.leeway * Second
       /\ verdict.fixed => /\ probe.request.issue = "fixed"
                           /\ probe.now < probe.issued + lifetime
       /\ verdict.purpose => /\ probe.request.issue = "purpose"
                             /\ probe.now < probe.issued + lifetime
                             /\ probe.request.purpose = probe.expected.purpose
                             /\ probe.request.aud = probe.expected.aud
       /\ verdict.reset => /\ probe.request.issue = "reset"
                           /\ probe.now < probe.issued + lifetime
  /\ Answered("header") =>
       /\ Family(verdict.alg) = Family(probe.header.alg)
       /\ probe.builder.algs # {} => probe.header.alg \in probe.builder.algs
       /\ probe.header.alg = "HS256" => probe.builder.accept_hs256
       /\ probe.builder.key_id # None => probe.header.kid = probe.builder.key_id

\* Options a host may ask for can be read back at the callback, reach the
\* provider as essential claims, and are met by every ID token that is
\* accepted; up to the clock skew and one second of truncation, max_age
\* bounds the real age.  The token is for this client and, with Entra, from
\* a tenant that is allowed; its issuer names that tenant, or is configured.
BoundPolicyEnforced ==
  Answered("sign_in") =>
  LET t == probe.token
      asked == ToSet(probe.options.claims)
  IN  /\ verdict.stored
      /\ verdict.sent = {r.claim : r \in asked}
      /\ verdict.ok =>
           /\ probe.options.max_age # None =>
                probe.now < (t.auth_time + probe.options.max_age + 1) * Second
                              + probe.conf.skew
           /\ \A r \in asked :
                CASE r.claim = "auth_time" -> t.auth_time # None
                  [] r.claim = "acr"  -> t.acr \in ToSet(r.values)
                  [] r.claim = "acrs" -> t.acrs # None /\ ToSet(r.values) \subseteq ToSet(t.acrs)
           /\ t.aud \subseteq {probe.conf.client_id} \cup probe.conf.extra
           /\ probe.conf.kind = "MicrosoftEntra" =>
                /\ probe.conf.tenants # {} => t.tid \in probe.conf.tenants
                /\ \/ t.iss.tenant = t.tid
                   \/ t.iss \in probe.conf.issuers \cup {probe.conf.discovered}
                /\ t.tid = "consumers" => probe.conf.consumers

\* A configuration that is accepted always yields a credential, and a JWT
\* credential is valid when it arrives, on a provider whose clock is right
\* or behind by the configured skew; only an assertion carries a jti
\* (client_auth.rs).
ClientJwtUsable ==
  probe.kind = "client" /\ verdict # None =>
    /\ verdict # Refused
    /\ probe.conf.client_jwt # None =>
         \A f \in DOMAIN verdict : verdict[f] # None =>
           LET jwt == verdict[f]
               behind == whole_seconds(probe.conf.client_jwt.skew) * Second
           IN  /\ jwt.iat * Second <= probe.now - behind
               /\ jwt.exp * Second > probe.now
               /\ jwt.exp - jwt.iat <= MaxLifetime
               /\ f = "assertion" <=> jwt.jti # None

\* An address called verified is one the provider vouched for itself: a
\* mark never travels from one address to another (oauth2.rs).
VerifiedEmailIsVouched ==
  Answered("profile") /\ verdict.verified = TRUE =>
  LET c == probe.conf
  IN  \/ /\ verdict.email = probe.raw.email /\ verdict.email # ""
         /\ \/ c.verification = "VerifiesAll"
            \/ c.verification = "Pointer" /\ probe.raw.verified # None
               /\ probe.raw.verified.text = "true"
      \/ /\ c.list # None
         /\ \E i \in DOMAIN c.list.entries :
              /\ c.list.entries[i].email = verdict.email /\ verdict.email # ""
              /\ c.list.entries[i].verified.text = "true"

\* Under the Reject policy a key the issuer withdrew verifies nothing once
\* the documents on their way have arrived and grown stale (keys.rs).
WithdrawnKeyDies ==
  StalePolicy = "Reject" /\ accepted # None /\ withdrawn[accepted.kid] # None =>
    accepted.at < withdrawn[accepted.kid] + FetchTime + CacheTtl
=============================================================================
