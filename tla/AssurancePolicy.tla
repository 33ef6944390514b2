--------------------------- MODULE AssurancePolicy ---------------------------
(***************************************************************************)
(* How a session's assurance is built and signed into its token            *)
(* (assurance.rs, service.rs) and how a recent-MFA policy judges it later. *)
(*                                                                         *)
(* A time is a number of ticks, Second of them to a second: a session      *)
(* keeps the clock's time, a JWT whole seconds.  A method as the host      *)
(* gives it is [word, plain]: plain when already trimmed and lower-cased,  *)
(* and word = "" when it is empty or too long.                              *)
(***************************************************************************)
EXTENDS Integers, SequencesExt

CONSTANTS Second,      \* ticks in a second
          MaxMethods,  \* MAX_ASSURANCE_METHODS
          TimeLimit,   \* OffsetDateTime::MAX; its MIN is -TimeLimit
          None,        \* an absent option
          Refused      \* an error returned instead of a value

ASSUME AssuranceAssumption ==
  /\ Second \in Nat \ {0} /\ MaxMethods \in Nat /\ TimeLimit \in Nat
  /\ None \notin Int \cup BOOLEAN

(***************************************************************************)
(* Building: SessionAssurance::new and validate.                           *)
(***************************************************************************)
plain(m) == [m EXCEPT !.plain = TRUE]

\* Stable order, first occurrence kept.
normalize_methods(methods) ==
  IF Len(methods) > MaxMethods \/ \E i \in DOMAIN methods : methods[i].word = ""
  THEN Refused
  ELSE FoldLeft(LAMBDA acc, m : IF Contains(acc, plain(m)) THEN acc
                                ELSE Append(acc, plain(m)),
                <<>>, methods)

validate_optional_value(value) == value # ""

new_assurance(at, methods, acr, context, mfa) ==
  LET normal == normalize_methods(methods)
  IN  IF normal # Refused /\ validate_optional_value(acr)
         /\ validate_optional_value(context)
      THEN [at |-> at, methods |-> normal, acr |-> acr,
            context |-> context, mfa |-> mfa]
      ELSE Refused

validate_assurance(a) ==
  /\ Len(a.methods) <= MaxMethods
  /\ normalize_methods(a.methods) = a.methods
  /\ validate_optional_value(a.acr) /\ validate_optional_value(a.context)

auth_time(a) == a.at \div Second
from_unix_timestamp(seconds) == seconds * Second

(***************************************************************************)
(* Issuing: the session keeps the assurance, the token its claims.  The    *)
(* session's own MFA flag follows the assurance it is given.               *)
(***************************************************************************)
NoClaims == [auth_time |-> None, amr |-> None, acr |-> None]
ClaimsOf(a) == [auth_time |-> auth_time(a), amr |-> a.methods, acr |-> a.acr]

session_assurance(assurance, mfa) ==
  IF assurance = None
  THEN [assurance |-> None, mfa |-> mfa, claims |-> NoClaims]
  ELSE IF validate_assurance(assurance)
       THEN [assurance |-> assurance, mfa |-> assurance.mfa,
             claims |-> ClaimsOf(assurance)]
       ELSE Refused

step_up_session(now, step) ==
  LET a == new_assurance(now, step.methods, step.acr, None, TRUE)
  IN  IF a = Refused THEN Refused ELSE session_assurance(a, TRUE)

\* A sessionless token carries what the host says, unrelated or not.
sessionless_assurance(assurance, mfa, claims) ==
  [assurance |-> assurance, mfa |-> mfa, claims |-> claims]

(***************************************************************************)
(* Judging.                                                                *)
(***************************************************************************)
allowlists_match(p, a) ==
  LET amr == \E i \in DOMAIN a.methods : a.methods[i] \in p.amr
      acr == a.acr # None /\ a.acr \in p.acr
  IN  IF p.mode = "all"
      THEN (p.amr # {} => amr) /\ (p.acr # {} => acr)
      ELSE (p.amr = {} /\ p.acr = {}) \/ (p.amr # {} /\ amr)
                                      \/ (p.acr # {} /\ acr)

Deny(code) == [ok |-> FALSE, code |-> code, at |-> None, until |-> None]

\* Mutant: the boundary is counted from the time of the evaluation.
evaluate_at_Sliding(p, user, now) ==
  IF /\ user.assurance # None /\ user.claims.auth_time # None
     /\ user.assurance.mfa /\ user.mfa /\ allowlists_match(p, user.assurance)
     /\ from_unix_timestamp(user.claims.auth_time) \in
          (now - p.maximum_age) .. (now + p.clock_skew)
  THEN [ok |-> TRUE, code |-> None,
        at |-> from_unix_timestamp(user.claims.auth_time),
        until |-> now + p.maximum_age]
  ELSE Deny("AUTHENTICATION_TOO_OLD")

\* The checks in the order of the code; both time bounds are inclusive.
evaluate_at(p, user, now) ==
  LET a  == user.assurance
      c  == user.claims
      at == from_unix_timestamp(c.auth_time)
  IN  CASE p.maximum_age < 0 \/ p.clock_skew < 0 -> Deny("ASSURANCE_POLICY_ERROR")
        [] OTHER ->
      IF a = None \/ ~validate_assurance(a) THEN Deny("ASSURANCE_REQUIRED")
      ELSE IF ~a.mfa \/ ~user.mfa THEN Deny("MFA_REQUIRED")
      ELSE IF ~allowlists_match(p, a) THEN Deny("ASSURANCE_METHOD_NOT_ALLOWED")
      ELSE IF c.auth_time = None THEN Deny("ASSURANCE_REQUIRED")
      ELSE IF at \notin (-TimeLimit) .. TimeLimit
           THEN Deny("INVALID_AUTHENTICATION_TIME")
      ELSE IF at # a.at \/ c.amr # a.methods \/ c.acr # a.acr
           THEN Deny("ASSURANCE_REQUIRED")
      ELSE IF now + p.clock_skew > TimeLimit THEN Deny("ASSURANCE_POLICY_ERROR")
      ELSE IF at > now + p.clock_skew THEN Deny("INVALID_AUTHENTICATION_TIME")
      ELSE IF now - p.maximum_age < -TimeLimit THEN Deny("ASSURANCE_POLICY_ERROR")
      ELSE IF at < now - p.maximum_age THEN Deny("AUTHENTICATION_TOO_OLD")
      ELSE IF at + p.maximum_age > TimeLimit THEN Deny("ASSURANCE_POLICY_ERROR")
      ELSE [ok |-> TRUE, code |-> None, at |-> at, until |-> at + p.maximum_age]

graphql_extension_code(code) ==
  IF code = "ASSURANCE_POLICY_ERROR" THEN "FORBIDDEN" ELSE "STEP_UP_REQUIRED"

\* AssurancePolicySet::evaluate: an unknown policy is refused.
evaluate(policies, id, user, now) ==
  IF id \notin DOMAIN policies
  THEN [state |-> "FORBIDDEN", until |-> None]
  ELSE IF user = None THEN [state |-> "UNAUTHENTICATED", until |-> None]
  ELSE LET e == evaluate_at(policies[id], user, now)
       IN  [state |-> IF e.ok THEN "SATISFIED" ELSE graphql_extension_code(e.code),
            until |-> e.until]

\* SessionAssuranceStatus::from_user compares whole seconds.
from_user(user) ==
  IF user = None
  THEN [authenticated |-> FALSE, at |-> None, mfa_satisfied |-> FALSE]
  ELSE LET a == user.assurance
           shown == a # None /\ validate_assurance(a) /\ user.claims = ClaimsOf(a)
       IN  [authenticated |-> TRUE, at |-> IF shown THEN a.at ELSE None,
            mfa_satisfied |-> shown /\ a.mfa /\ user.mfa]
=============================================================================
