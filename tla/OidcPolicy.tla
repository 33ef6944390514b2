----------------------------- MODULE OidcPolicy ------------------------------
(***************************************************************************)
(* What a host may ask of an OIDC sign-in (oidc_authorization.rs), how the *)
(* request is stored with the login state, and what an ID token must show  *)
(* when the callback returns (oidc.rs).  A value list is a sequence of     *)
(* words, "" being one that is blank or not canonical; an issuer is        *)
(* [host, tenant]; a pattern's tenant may be a placeholder.                *)
(* Sizes of values are abstracted to their number.                         *)
(***************************************************************************)
EXTENDS AssurancePolicy

CONSTANTS MaxValues,   \* MAX_OIDC_AUTHORIZATION_VALUES
          MaxMaxAge    \* MAX_OIDC_MAX_AGE_SECONDS

ASSUME OidcPolicyAssumption == MaxValues \in Nat /\ MaxMaxAge \in Nat

distinct(seq) == Len(seq) = Cardinality(ToSet(seq))
validate_values(values) ==
  Len(values) <= MaxValues /\ "" \notin ToSet(values) /\ distinct(values)
valid_prompt(prompt) ==
  /\ Len(prompt) <= MaxValues /\ distinct(prompt)
  /\ "none" \in ToSet(prompt) => Len(prompt) = 1

(***************************************************************************)
(* TryFrom<&OidcAuthorizationOptions>.  An option's claims are requests    *)
(* [claim, values]; no claim may be asked for twice.                       *)
(***************************************************************************)
Asked(options, claim) ==
  {i \in DOMAIN options.claims : options.claims[i].claim = claim}
ValuesOf(options, claim) ==
  IF Asked(options, claim) = {} THEN <<>>
  ELSE options.claims[Min(Asked(options, claim))].values

\* Mutant: every policy is stored as version 1.
version_One(acrs) == 1

version(acrs) == IF acrs = <<>> THEN 1 ELSE 2

try_from(options) ==
  LET acr  == ValuesOf(options, "acr")
      acrs == ValuesOf(options, "acrs")
  IN  IF /\ valid_prompt(options.prompt)
         /\ options.max_age # None => options.max_age \in 0 .. MaxMaxAge
         /\ validate_values(options.acr_values)
         /\ \A claim \in {"auth_time", "acr", "acrs"} :
              Cardinality(Asked(options, claim)) <= 1
         /\ Asked(options, "acr") # {} => acr # <<>> /\ validate_values(acr)
         /\ Asked(options, "acrs") # {} => Len(acrs) = 1 /\ validate_values(acrs)
         /\ options.acr_values = <<>> \/ acr = <<>>
      THEN [version |-> version(acrs), prompt |-> options.prompt,
            max_age |-> options.max_age, acr_values |-> options.acr_values,
            auth_time |-> Asked(options, "auth_time") # {},
            acr |-> acr, acrs |-> acrs]
      ELSE Refused

\* The claims parameter of the authorization request names what is essential.
claims_parameter(p) ==
  {claim \in {"auth_time", "acr", "acrs"} :
     CASE claim = "auth_time" -> p.auth_time
       [] claim = "acr"       -> p.acr # <<>>
       [] claim = "acrs"      -> p.acrs # <<>>}

\* The policy found with the login state is checked again.
validate_stored(p) ==
  /\ p.version \in {1, 2}
  /\ p.version = 2 <=> p.acrs # <<>>
  /\ p.max_age # None => p.max_age <= MaxMaxAge
  /\ valid_prompt(p.prompt)
  /\ validate_values(p.acr_values) /\ validate_values(p.acr)
  /\ validate_values(p.acrs)
  /\ p.acr_values = <<>> \/ p.acr = <<>>

(***************************************************************************)
(* The ID token: t = [iss, aud, azp, tid, oid, sub, nonce, iat, auth_time, *)
(* amr, acr, acrs]; conf = [kind, client_id, extra, issuers, discovered,   *)
(* tenants, consumers, skew].  Token times are whole seconds.              *)
(***************************************************************************)
validate_audiences(conf, t) ==
  /\ t.azp # None => t.azp = conf.client_id
  /\ \/ Cardinality(t.aud) <= 1
     \/ t.azp = conf.client_id /\ t.aud \subseteq {conf.client_id} \cup conf.extra

issuer_pattern_matches(pattern, iss, tid) ==
  \/ pattern = iss
  \/ /\ tid # None /\ pattern.tenant \in {"{tid}", "{tenantid}"}
     /\ [pattern EXCEPT !.tenant = tid] = iss

issuer_allowed(conf, t) ==
  \E p \in conf.issuers \cup {conf.discovered} :
    issuer_pattern_matches(p, t.iss, t.tid)

tenant_allowed(conf, t) ==
  conf.kind = "MicrosoftEntra" =>
    /\ t.tid # None
    /\ conf.tenants = {} \/ t.tid \in conf.tenants
    /\ t.tid = "consumers" => conf.consumers

\* jsonwebtoken checks the signature, exp, nbf and that the client is an
\* audience; the last alone is part of what is asked here.
validate_claims(conf, t, nonce, now) ==
  LET latest == (now + conf.skew) \div Second
  IN  /\ conf.client_id \in t.aud
      /\ t.nonce = nonce
      /\ validate_audiences(conf, t)
      /\ issuer_allowed(conf, t)
      /\ tenant_allowed(conf, t)
      /\ t.iat <= latest
      /\ t.auth_time # None => t.auth_time \in 0 .. latest
      /\ normalize_methods(t.amr) # Refused /\ validate_optional_value(t.acr)
      /\ t.acrs # None => t.acrs # <<>> /\ validate_values(t.acrs)

\* Voluntary acr_values and the prompt bind the provider only.  Nothing is
\* awaited between the two checks, so one instant serves both.  A state that
\* an older release stored has no policy, and nothing is asked of its token.
enforce_authorization_policy(conf, p, t, now) ==
  /\ p.max_age # None \/ p.auth_time =>
       /\ t.auth_time # None
       /\ t.auth_time <= now \div Second + conf.skew \div Second
  /\ p.max_age # None =>
       t.auth_time >= now \div Second - p.max_age - conf.skew \div Second
  /\ p.acr # <<>> => t.acr \in ToSet(p.acr)
  /\ p.acrs # <<>> => t.acrs # None /\ p.acrs[1] \in ToSet(t.acrs)
=============================================================================
