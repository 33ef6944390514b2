----------------------------- MODULE TokenKinds ------------------------------
(***************************************************************************)
(* The tokens one service signs with one key (service.rs,                  *)
(* service/password_reset.rs, service/fixed_audience.rs) and who accepts   *)
(* them (service.rs, token_decode.rs, claims.rs, validator.rs).  A token   *)
(* is the function from the names of its claims to their values: a claim   *)
(* that is not serialised is not in its domain.  The header and the        *)
(* signature are the same for all of them.  Scopes are character           *)
(* sequences, because a token holds them joined by a space; audiences are  *)
(* [name, upper], equal regardless of case when their names are.           *)
(***************************************************************************)
EXTENDS AssurancePolicy, ScopeMatching

CONSTANTS MaxScopes,      \* MAX_ACCESS_TOKEN_SCOPES
          MaxScopeClaim,  \* MAX_ACCESS_TOKEN_SCOPE_CLAIM_LENGTH
          MaxLeeway       \* DEFAULT_MAX_LEEWAY_SECONDS

ASSUME TokenAssumption ==
  MaxScopes \in Nat /\ MaxScopeClaim \in Nat /\ MaxLeeway \in Nat

Space == " "
eq_ignore_case(a, b) == a.name = b.name
\* serde's flatten: all claims of both, those of t where they share a name.
Merge(t, u) ==
  [claim \in DOMAIN t \cup DOMAIN u |-> IF claim \in DOMAIN t THEN t[claim] ELSE u[claim]]
Get(t, claim) == IF claim \in DOMAIN t THEN t[claim] ELSE None

(***************************************************************************)
(* Configuration: [audience, fixed, format, legacy, ttl, max_ttl, max_del] *)
(***************************************************************************)
config_valid(c) ==
  /\ c.audience.name # "" /\ c.ttl > 0 /\ c.max_ttl > 0
  /\ c.max_del > 0 /\ c.max_del <= c.max_ttl
  /\ c.format = "LegacyArray" => c.legacy # "Reject"

\* A service may also issue for one other audience.
fixed_valid(c) ==
  c.fixed # None => c.fixed.name # "" /\ ~eq_ignore_case(c.fixed, c.audience)

checked_jwt_expiry(now, ttl) ==
  IF ttl <= 0 \/ now + ttl > TimeLimit
     \/ (now + ttl) \div Second <= now \div Second
  THEN Refused ELSE now + ttl

(***************************************************************************)
(* The scope claims, written and read.                                     *)
(***************************************************************************)
\* What is refused besides (a scope of more than 512 characters, or with one
\* that RFC 6749 does not allow) the writer and the reader refuse alike.
valid_scope_set(scopes) ==
  /\ Len(scopes) <= MaxScopes
  /\ \A i \in DOMAIN scopes : scopes[i] # <<>> /\ ~Contains(scopes[i], Space)
  /\ FoldLeft(LAMBDA n, s : n + Len(s) + 1, -1, scopes) <= MaxScopeClaim

join(scopes) ==
  LET upto[n \in 1 .. Len(scopes)] ==
        IF n = 1 THEN scopes[1] ELSE upto[n - 1] \o <<Space>> \o scopes[n]
  IN  upto[Len(scopes)]

\* The first occurrences, in their order.
dedupe_stable(seq) ==
  LET first == {i \in DOMAIN seq : \A j \in 1 .. (i - 1) : seq[j] # seq[i]}
  IN  [n \in 1 .. Cardinality(first) |-> seq[Nth(first, n)]]

issued_scope_claims(scopes, format) ==
  IF ~valid_scope_set(scopes) THEN Refused
  ELSE IF format = "LegacyArray" THEN [scopes |-> scopes]
  ELSE IF scopes = <<>> THEN <<>> ELSE [scope |-> join(scopes)]

parse_standard_scope(value) ==
  IF value # <<>> /\ Len(value) <= MaxScopeClaim
     /\ valid_scope_set(split(value, Space))
  THEN dedupe_stable(split(value, Space)) ELSE Refused

parse_legacy_scopes(scopes) ==
  IF valid_scope_set(scopes) THEN dedupe_stable(scopes) ELSE Refused

parse_access_token_scopes(t, legacy_policy) ==
  LET standard == IF "scope" \in DOMAIN t
                  THEN parse_standard_scope(t["scope"]) ELSE None
      legacy   == IF "scopes" \notin DOMAIN t THEN None
                  ELSE IF legacy_policy = "Reject" THEN Refused
                  ELSE parse_legacy_scopes(t["scopes"])
  IN  IF Refused \in {standard, legacy} THEN Refused
      ELSE IF None \notin {standard, legacy} /\ ToSet(standard) # ToSet(legacy)
      THEN Refused
      ELSE IF standard # None THEN standard
      ELSE IF legacy # None THEN legacy ELSE <<>>

(***************************************************************************)
(* Issuing.  r = [issue, sub, roles, scopes, purpose, aud, ttl, custom],   *)
(* where custom holds the claims the host adds and ttl may be None for an  *)
(* access token.  The reserved claims are those the model knows; the code  *)
(* reserves more names, and access tokens' in any case.                    *)
(***************************************************************************)
RESERVED_PURPOSE_TOKEN_CLAIMS ==
  {"typ", "sub", "sid", "scopes", "purpose", "iss", "aud", "exp", "iat"}
Bindings == {"actor", "resource_type", "resource_id", "correlation_id",
             "operation"}
RESERVED_ACCESS_TOKEN_CLAIMS ==
  RESERVED_PURPOSE_TOKEN_CLAIMS \cup Bindings \cup
  {"roles", "scope", "nbf", "jti", "grant_kind", "session_version"}

Sealed(typ, purpose, sub, aud, now, exp) ==
  [typ |-> typ, purpose |-> purpose, sub |-> sub, iss |-> "issuer", aud |-> aud,
   iat |-> now \div Second, exp |-> exp \div Second]

\* issue_access_token_with_user_for_audience.  Authorization roles that the
\* same rules do not allow refuse the token as well; these have none.
access_token(r, grant_kind, extra, aud, c, now, exp) ==
  LET scope == issued_scope_claims(r.scopes, c.format)
  IN  IF scope = Refused THEN Refused
      ELSE Merge(Merge(scope, [sid |-> "session", roles |-> r.roles, jti |-> "fresh",
                               grant_kind |-> grant_kind]),
                 Merge(extra, Sealed("access", "access_token", r.sub, aud, now, exp)))

Ttl(r, c) == IF r.ttl = None THEN c.ttl ELSE r.ttl

validate_access_token_ttl_and_claims(r, c) ==
  /\ r.ttl # None => r.ttl > 0 /\ r.ttl <= c.max_ttl
  /\ DOMAIN r.custom \cap RESERVED_ACCESS_TOKEN_CLAIMS = {}

issue_session(r, c, now) ==
  LET exp == checked_jwt_expiry(now, c.ttl)
  IN  IF exp = Refused THEN Refused
      ELSE access_token(r, "UserSession", <<>>, c.audience, c, now, exp)

issue_access_token_only(r, c, now) ==
  LET exp == checked_jwt_expiry(now, Ttl(r, c))
  IN  IF \/ r.sub = "" \/ ~validate_access_token_ttl_and_claims(r, c)
         \/ Ttl(r, c) > c.max_ttl \/ exp = Refused
      THEN Refused
      ELSE access_token([r EXCEPT !.scopes = dedupe_stable(@)], "Sessionless", r.custom, c.audience, c, now, exp)

\* The parent session and its version are Delegation's subject; here every
\* binding is present, as its request validation demands.
issue_delegation(r, aud, c, now) ==
  LET exp == now + IF Ttl(r, c) < c.max_del THEN Ttl(r, c) ELSE c.max_del
  IN  IF ~validate_access_token_ttl_and_claims(r, c) \/ aud = None
         \/ exp \div Second <= now \div Second
      THEN Refused
      ELSE access_token(r, "SessionBoundDelegation",
             Merge(r.custom, [b \in Bindings \cup {"session_version"} |-> "bound"]),
             aud, c, now, exp)

validate_purpose_token_issue_request(r) ==
  /\ "" \notin {r.sub, r.purpose, r.aud.name} /\ r.ttl > 0
  /\ DOMAIN r.custom \cap RESERVED_PURPOSE_TOKEN_CLAIMS = {}

issue_purpose_token(r, c, now) ==
  LET exp == checked_jwt_expiry(now, r.ttl)
  IN  IF \/ ~validate_purpose_token_issue_request(r) \/ exp = Refused
         \/ c.fixed # None /\ eq_ignore_case(c.fixed, r.aud)
      THEN Refused
      ELSE Merge(Merge(r.custom, [scopes |-> r.scopes, sid |-> "session"]),
                 Sealed("purpose", r.purpose, r.sub, r.aud, now, exp))

issue_password_reset_token(r, c, now) ==
  LET exp == checked_jwt_expiry(now, r.ttl)
  IN  IF exp = Refused THEN Refused
      ELSE Merge([jti |-> "fresh"],
                 Sealed("password_reset", "password_reset", r.sub, c.audience, now, exp))

issue(r, c, now) ==
  CASE r.issue = "session"     -> issue_session(r, c, now)
    [] r.issue = "sessionless" -> issue_access_token_only(r, c, now)
    [] r.issue = "delegation"  -> issue_delegation(r, c.audience, c, now)
    [] r.issue = "fixed"       -> issue_delegation(r, c.fixed, c, now)
    [] r.issue = "purpose"     -> issue_purpose_token(r, c, now)
    [] r.issue = "reset"       -> issue_password_reset_token(r, c, now)

(***************************************************************************)
(* Accepting.  v = [audiences, leeway, policy, legacy, requires,           *)
(* grant_kind], a decode configuration.                                    *)
(***************************************************************************)
validate_time_claims(t, leeway, now) ==
  /\ \A claim \in {"exp", "iat", "nbf"} \cap DOMAIN t :
       from_unix_timestamp(t[claim]) \in (-TimeLimit) .. TimeLimit
  /\ t["exp"] + leeway > now \div Second
  /\ "nbf" \in DOMAIN t => t["nbf"] <= now \div Second + leeway

\* Mutant: only the purpose is compared.
validate_type_and_purpose_NoTyp(t, policy) ==
  Get(t, "purpose") \in
    IF policy = "AccessTokenOrLegacy" THEN {None, "access_token"}
    ELSE {"access_token"}

validate_type_and_purpose(t, policy) ==
  /\ Get(t, "typ") \in {None, "access"}
  /\ Get(t, "purpose") \in
       IF policy = "AccessTokenOrLegacy" THEN {None, "access_token"}
       ELSE {"access_token"}

\* ClaimRequirements::validate
claims_present(t, v) ==
  /\ \A claim \in v.requires : Get(t, claim) \notin {None, ""}
  /\ v.grant_kind # None => Get(t, "grant_kind") = v.grant_kind

decode_access_token_claims(t, v, now) ==
  /\ {"sub", "sid", "roles", "iss", "aud", "exp", "iat"} \subseteq DOMAIN t
  /\ t["aud"] \in v.audiences
  /\ validate_time_claims(t, v.leeway, now)
  /\ validate_type_and_purpose(t, v.policy)
  /\ parse_access_token_scopes(t, v.legacy) # Refused
  /\ claims_present(t, v)

service_decode(c) ==
  [audiences |-> {c.audience}, leeway |-> 0, policy |-> "AccessTokenOrLegacy",
   legacy |-> c.legacy, requires |-> {}, grant_kind |-> None]

fixed_decode(c) ==
  [service_decode(c) EXCEPT !.audiences = {c.fixed}, !.policy = "RequireAccessToken",
     !.requires = Bindings \cup {"jti", "purpose", "session_version"},
     !.grant_kind = "SessionBoundDelegation"]

\* A resource server of its own: b = [audiences, leeway, policy, legacy,
\* requires, grant_kind].
validator_decode(b) ==
  IF b.audiences = {} \/ (\E a \in b.audiences : a.name = "") \/ b.leeway > MaxLeeway
  THEN Refused
  ELSE [audiences |-> b.audiences, leeway |-> b.leeway, policy |-> b.policy,
        legacy |-> b.legacy, requires |-> b.requires, grant_kind |-> b.grant_kind]

require_session_management_eligible(t) ==
  Get(t, "grant_kind") \in {None, "UserSession"}

authenticate_purpose_token(t, expected, now) ==
  /\ "" \notin {expected.purpose, expected.aud.name}
  /\ {"typ", "sub", "purpose", "iss", "aud", "exp", "iat"} \subseteq DOMAIN t
  /\ t["exp"] > now \div Second
  /\ t["typ"] = "purpose" /\ t["purpose"] = expected.purpose
  /\ t["aud"] = expected.aud

authenticate_password_reset_token(t, c, now) ==
  /\ {"sub", "jti", "purpose", "iss", "aud", "exp", "iat"} \subseteq DOMAIN t
  /\ t["aud"] = c.audience
  /\ Get(t, "typ") \in {None, "password_reset"}
  /\ t["purpose"] = "password_reset"
  /\ t["exp"] * Second > now
=============================================================================
