--------------------------- MODULE ProviderConfig ----------------------------
(***************************************************************************)
(* Configuration of an external provider and what is built from it: the    *)
(* JWT or secret the client authenticates with (client_auth.rs), the       *)
(* profile and the verified e-mail of an OAuth 2.0 user (oauth2.rs), and   *)
(* the OIDC settings (config.rs).  "" is a blank text.                      *)
(***************************************************************************)
EXTENDS AssurancePolicy

CONSTANTS MaxLifetime,  \* MAX_CLIENT_JWT_LIFETIME_SECONDS
          MaxSkew,      \* MAX_CLIENT_JWT_ISSUED_AT_SKEW_SECONDS
          MaxEntries    \* MAX_OAUTH2_VERIFIED_EMAIL_ENTRIES

ASSUME ProviderAssumption ==
  MaxLifetime \in Nat /\ MaxSkew \in Nat /\ MaxEntries \in Nat

whole_seconds(d) == d \div Second   \* of a non-negative duration

(***************************************************************************)
(* Client JWTs: j = [key_id, issuer, subject, audience, lifetime, skew]    *)
(***************************************************************************)
\* Mutant: the lifetime is compared with the skew before truncation.
client_jwt_valid_NoMargin(j) ==
  /\ "" \notin {j.issuer, j.subject, j.key_id, j.audience}
  /\ j.lifetime >= Second /\ whole_seconds(j.lifetime) <= MaxLifetime
  /\ j.skew >= 0 /\ j.skew <= MaxSkew * Second

client_jwt_valid(j) ==
  /\ "" \notin {j.issuer, j.subject, j.key_id, j.audience}
  /\ j.lifetime >= Second /\ whole_seconds(j.lifetime) <= MaxLifetime
  /\ j.skew >= 0 /\ j.skew <= MaxSkew * Second
  /\ whole_seconds(j.lifetime) - whole_seconds(j.skew) >= 1

sign(j, now, default_audience, include_jti) ==
  LET iat == now \div Second - whole_seconds(j.skew)
  IN  [iss |-> j.issuer, sub |-> j.subject, iat |-> iat,
       aud |-> IF j.audience = None THEN default_audience ELSE j.audience,
       exp |-> iat + whole_seconds(j.lifetime),
       jti |-> IF include_jti THEN "fresh" ELSE None]

validate_client_authentication(method, secret, jwt) ==
  /\ secret = None \/ jwt = None
  /\ method = "ClientSecretBasic" => secret # None \/ jwt # None
  /\ method = "PrivateKeyJwt" => jwt # None

\* What the token request carries: a header, or form fields.
client_authentication(method, secret, jwt, endpoint, now) ==
  LET key == IF method = "PrivateKeyJwt" THEN None
             ELSE IF secret # None THEN secret
             ELSE IF jwt # None THEN sign(jwt, now, endpoint, FALSE)
             ELSE None
  IN  CASE method = "ClientSecretPost" ->
             [basic |-> None, client_secret |-> key, assertion |-> None]
        [] method = "ClientSecretBasic" ->
             IF key = None THEN Refused
             ELSE [basic |-> key, client_secret |-> None, assertion |-> None]
        [] method = "PrivateKeyJwt" ->
             IF jwt = None THEN Refused
             ELSE [basic |-> None, client_secret |-> None,
                   assertion |-> sign(jwt, now, endpoint, TRUE)]

(***************************************************************************)
(* OAuth 2.0 profiles.  A provider's answer gives the values its pointers  *)
(* find: an address is a word, "" or None; a mark is None or [json, text]  *)
(* with the JSON type and spelling.  A list entry is [email, verified,     *)
(* primary].                                                               *)
(***************************************************************************)
\* A JSON Boolean or one of its two spellings.
parse_email_verified(mark) ==
  IF mark = None \/ mark.json \notin {"boolean", "string"} THEN None
  ELSE CASE mark.text = "true"  -> TRUE
         [] mark.text = "false" -> FALSE
         [] OTHER               -> None

pointer_string(value) == IF value = "" THEN None ELSE value

profile_subject(value) == IF value \in {None, ""} THEN Refused ELSE value

entry_fits(selection, e) ==
  /\ parse_email_verified(e.verified) = TRUE
  /\ selection = "FirstVerified" \/ parse_email_verified(e.primary) = TRUE
  /\ pointer_string(e.email) # None

\* The first entry that fits.
select_verified_email(selection, entries) ==
  LET fit == {i \in DOMAIN entries : entry_fits(selection, entries[i])}
  IN  IF fit = {} THEN None ELSE entries[Min(fit)].email

\* Mutant: the list's mark is taken, the profile's address kept.
Chosen_Mark(email, selected) == [email |-> email, verified |-> TRUE]

\* The list's address replaces the profile's, together with its mark.
Chosen(email, selected) == [email |-> selected, verified |-> TRUE]

\* conf = [verification, list], list None or [selection, entries]
fetch_profile(conf, raw) ==
  LET email    == pointer_string(raw.email)
      marked   == CASE conf.verification = "Unknown"    -> None
                    [] conf.verification = "Pointer"    -> parse_email_verified(raw.verified)
                    [] conf.verification = "VerifiesAll" -> TRUE
      verified == IF email = None THEN None ELSE marked
      selected == IF conf.list = None \/ verified = TRUE THEN None
                  ELSE select_verified_email(conf.list.selection, conf.list.entries)
  IN  IF profile_subject(raw.subject) = Refused THEN Refused
      ELSE IF /\ verified # TRUE /\ conf.list # None
              /\ Len(conf.list.entries) > MaxEntries
      THEN Refused
      ELSE IF selected # None THEN Chosen(email, selected)
      ELSE [email |-> email, verified |-> verified]

(***************************************************************************)
(* Settings.  An endpoint is [scheme, host, userinfo, reserved]: userinfo  *)
(* when it names a user, reserved when its query sets a parameter of the   *)
(* authorization request.                                                  *)
(***************************************************************************)
validate_endpoint(e) ==
  /\ ~e.userinfo /\ e.host # ""
  /\ e.scheme = "https" \/ (e.scheme = "http" /\ e.host = "loopback")

ensure_no_reserved_authorization_parameters(e) == ~e.reserved

oauth2_valid(c) ==
  /\ "" \notin {c.provider_name, c.client_id, c.redirect_uri, c.client_secret}
  /\ \A e \in {c.authorization, c.token, c.userinfo} : validate_endpoint(e)
  /\ ensure_no_reserved_authorization_parameters(c.authorization)
  /\ validate_client_authentication(c.method, c.client_secret, c.client_jwt)
  /\ "" \notin c.scopes /\ c.state_ttl > 0
  /\ "" \notin c.pointers
  /\ c.list # None =>
       /\ validate_endpoint(c.list.endpoint)
       /\ c.list.selection = "PrimaryVerified" => c.list.primary_pointer # None

oidc_valid(c) ==
  /\ "" \notin {c.provider_name, c.discovery_url, c.client_id, c.redirect_uri}
  /\ "openid" \in c.scopes /\ "" \notin c.extra /\ c.algs # {}
  /\ c.jwks_ttl > 0 /\ c.discovery_ttl > 0 /\ c.state_ttl > 0
  /\ c.cooldown >= 0 /\ c.skew >= 0
  /\ validate_client_authentication(c.method, c.client_secret, c.client_jwt)

\* A Microsoft configuration m = [tenant, tenants, issuers, consumers] on
\* the defaults; the tenant's discovery document names its issuer.
into_oidc_provider_config(m, defaults) ==
  IF (m.tenant = "consumers" /\ ~m.consumers) \/ ~oidc_valid(defaults)
  THEN Refused
  ELSE [defaults EXCEPT !.kind = "MicrosoftEntra", !.tenants = m.tenants,
          !.issuers = m.issuers, !.consumers = m.consumers,
          !.discovered.tenant = IF m.tenant \in {"common", "organizations"}
                                THEN "{tid}" ELSE m.tenant]
=============================================================================
