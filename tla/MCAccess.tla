------------------------------- MODULE MCAccess ------------------------------
(* The inputs of Access for TLC. *)
EXTENDS Access

Opt(S) == {None} \cup S

\* Scopes: whole and partial segments, wildcards in every place.
a    == <<"a">>
ab   == <<"a", ".", "b">>
abc  == <<"a", ".", "b", ".", "a">>
xb   == <<"*", ".", "b">>
ax   == <<"a", ".", "*">>
axa  == <<"a", ".", "*", ".", "a">>
abx  == <<"a", ".", "b", "*">>
axx  == <<"a", ".", "*", ".", "*">>
star == <<"*">>
AllScopes == {a, ab, abc, xb, ax, axa, abx, axx, star}

Options ==
  {o \in HierarchicalScopeOptions({a, ab, ax, star}) :
     /\ o.super \in {{}, {a}, {ab}} /\ o.exactOnly \in {{}, {a}, {ab}}
     /\ o.patterns \in {{}, {ax}, {star}}
     /\ o.wildcard = <<>> => ~o.multi /\ ~o.universal}

\* The guards use the matcher, or the exact one when none is injected.
ScopeProbes ==
  [kind : {"scope"}, o : Options, by : {"service", "validator", "host"},
   parent : [roles : {{"r"}}, scopes : {{s} : s \in AllScopes} \cup {{a, ax}}],
   request : [roles : {{"r"}, {"q"}}, scopes : {{s} : s \in AllScopes}],
   roles : {{"r"}}, required : {{abc}, {axa}, {ab, abc}, {a, ab}}, scope : {ab}]

Catalogues ==
  [version : {"", "v1"}, scopes : {<<"s">>, <<"s", "t">>, <<"s", "s">>},
   roles : {<<>>, <<[id |-> "r", scopes |-> <<"s">>]>>,
            <<[id |-> "r", scopes |-> <<"t">>], [id |-> "q", scopes |-> <<"s">>]>>,
            <<[id |-> "r", scopes |-> <<"s">>], [id |-> "r", scopes |-> <<>>]>>}]

CatalogueProbes ==
  [kind : {"catalogue"},
   claims : [catalogue : Catalogues, purpose : {"role_scope_catalogue", "other"},
             iss : {"issuer"}, aud : {"api", "other"}, iat : {3}, exp : {3, 4, 6}],
   envelope : {c \in Catalogues : c.version = "v1"}, roles : SUBSET {"r", "q"},
   direct : {{"d"}}, now : {2, 5, 6, 7}, lifetime : {2}, leeway : {0, 1}]

\* Assurance: methods the host spells in two ways, every relation of times.
otp(p) == [word |-> "otp", plain |-> p]
Methods == {<<>>, <<otp(TRUE)>>, <<otp(FALSE), otp(TRUE)>>,
            <<[word |-> "", plain |-> TRUE]>>}
Policies ==
  [maximum_age : {-1, 0, 2, 3}, clock_skew : {0, 1}, amr : {{}, {otp(TRUE)}},
   acr : {{}, {"gold"}}, mode : {"all", "any"}]
Built == {new_assurance(at, m, acr, None, mfa) :
            at \in 0 .. 3, m \in Methods, acr \in {None, "gold", ""}, mfa \in BOOLEAN}
Raw == {[at |-> 2, methods |-> <<otp(FALSE)>>, acr |-> None, context |-> None,
         mfa |-> TRUE]}
Users ==
  ({None} \cup {session_assurance(x, mfa) : x \in {None} \cup Raw \cup (Built \ {Refused}),
                                       mfa \in BOOLEAN}
   \cup {sessionless_assurance(x, TRUE, [auth_time |-> t, amr |-> m, acr |-> None]) :
           x \in {None} \cup Raw \cup {y \in Built \ {Refused} : y.at = 2},
           t \in {None, 0, 1}, m \in {None, <<otp(TRUE)>>}})
  \ {Refused}
AssuranceProbes ==
  [kind : {"assurance"}, policy : Policies, user : Users, now : 0 .. 6,
   stepped : {None}]

StepUps ==
  {[kind |-> "assurance", user |-> step_up_session(at, [methods |-> m, acr |-> None]),
    policy |-> [maximum_age |-> age, clock_skew |-> 0, amr |-> {}, acr |-> {},
                mode |-> "all"],
    now |-> at + d, stepped |-> at] :
   at \in 0 .. 9, d \in 0 .. 9, age \in 2 .. 4, m \in {<<>>, <<otp(FALSE)>>}}

\* Tokens: every issuer, with custom claims that look like the others'.
api == [name |-> "api", upper |-> FALSE]
fix == [name |-> "fix", upper |-> FALSE]
Configs ==
  [audience : {api}, fixed : {None, fix, api}, format : {"Standard", "LegacyArray"},
   legacy : {"Accept", "Reject"}, ttl : {2, 4}, max_ttl : {3}, max_del : {2}]
Customs == {<<>>, "roles" :> {}, [roles |-> {}, jti |-> "x"], "typ" :> "access",
            [nbf |-> 2, grant_kind |-> "UserSession", roles |-> {}]}
Requests ==
  [issue : {"session", "sessionless", "delegation", "fixed", "purpose", "reset"},
   sub : {"u"}, roles : {{}}, ttl : Opt({1, 3, 4}),
   scopes : {<<>>, <<a>>, <<ab, a, ab>>, <<<<"a", " ", "b">>>>, <<<<>>>>},
   purpose : {"access_token", "password_reset", "mail"},
   aud : {api, fix, [fix EXCEPT !.upper = TRUE]}, custom : Customs]
Validators ==
  {v \in [audiences : {{api, fix}}, leeway : {1, 2}, legacy : {None},
          policy : {"AccessTokenOrLegacy", "RequireAccessToken"},
          requires : {{}, {"operation"}}, grant_kind : {None, "Sessionless"}] :
     \/ v.leeway = 1 /\ v.policy = "RequireAccessToken"
     \/ v.requires = {} /\ v.grant_kind = None}
TokenProbes ==
  [kind : {"token"}, config : Configs,
   request : {r \in Requests :
                /\ r.issue # "purpose" => r.purpose = "mail" /\ r.aud = api
                /\ r.issue \in {"purpose", "reset"} => r.ttl # None},
   issued : {0, 1}, now : {0, 2, 4},
   validator : Validators,
   expected : [purpose : {"mail"}, aud : {api, fix}]]

HeaderProbes ==
  [kind : {"header"},
   builder : [material : {None, "pem", "jwks", "hs256", "custom"}, key_id : Opt({"k1", "k2"}),
              doc : {{}, {"k1"}, {"k1", "k2"}}, accept_hs256 : BOOLEAN,
              long_secret : BOOLEAN, algs : SUBSET {"RS256", "RS384", "HS256"}],
   header : [alg : {"RS256", "RS384", "HS256"}, kid : Opt({"k1", "k2"})]]

\* Sign-ins: the options vary with an honest token, the token with a few
\* options.
ask(c, v) == [claim |-> c, values |-> v]
OidcOptions ==
  [prompt : {<<>>, <<"none">>, <<"none", "login">>, <<"login", "login">>},
   max_age : Opt({-1, 0, 2, 4}), acr_values : {<<>>, <<"gold">>, <<"">>},
   claims : {<<>>, <<ask("auth_time", <<>>)>>, <<ask("acr", <<"gold">>)>>,
             <<ask("acr", <<>>)>>, <<ask("acrs", <<"c1">>)>>,
             <<ask("acrs", <<"c1">>), ask("acr", <<"gold", "iron">>)>>,
             <<ask("acr", <<"gold">>), ask("acr", <<"iron">>)>>,
             <<ask("auth_time", <<>>), ask("acrs", <<"">>)>>}]
iss(t) == [host |-> "login", tenant |-> t]
Conf ==
  [kind |-> "Generic", provider_name |-> "p", discovery_url |-> "d", client_id |-> "me",
   redirect_uri |-> "r", scopes |-> {"openid"}, extra |-> {"also"}, algs |-> {"RS256"},
   jwks_ttl |-> 1, discovery_ttl |-> 1, state_ttl |-> 1, cooldown |-> 0, skew |-> 1,
   method |-> "ClientSecretPost", client_secret |-> None, client_jwt |-> None,
   issuers |-> {}, discovered |-> iss("none"), tenants |-> {}, consumers |-> FALSE]
Microsoft ==
  [tenant : {"common", "t1", "consumers"}, issuers : {{}, {iss("t2")}},
   tenants : {{}, {"t1"}}, consumers : BOOLEAN]
Entra == {into_oidc_provider_config(m, Conf) : m \in Microsoft} \ {Refused}
IdToken ==
  [iss |-> iss("none"), aud |-> {"me"}, azp |-> None, tid |-> None, oid |-> None,
   sub |-> "s", nonce |-> "nonce", iat |-> 1, auth_time |-> 1, amr |-> <<>>,
   acr |-> "gold", acrs |-> <<"c1">>]
TimedTokens ==
  {[IdToken EXCEPT !.auth_time = t, !.acr = x, !.acrs = y] :
     t \in Opt({-1, 0, 1, 2, 3}), x \in {None, "gold", "c1", ""},
     y \in {None, <<>>, <<"c1">>, <<"gold", "c1">>}}
PartyTokens ==
  {[IdToken EXCEPT !.iss = iss(i), !.aud = u, !.azp = z, !.tid = t, !.oid = o] :
     i \in {"none", "t1", "t2", "consumers"}, t \in Opt({"t1", "t2", "consumers"}),
     u \in {{"me"}, {"me", "also"}, {"me", "they"}, {"they"}},
     z \in Opt({"me", "they"}), o \in {None}}
SignInProbes ==
  [kind : {"sign_in"}, options : OidcOptions, conf : {Conf}, token : TimedTokens,
   now : {2, 5, 6, 7}]
PartyProbes ==
  [kind : {"sign_in"}, options : {o \in OidcOptions : o.prompt = <<>> /\ o.claims = <<>>},
   conf : Entra \cup {Conf}, token : PartyTokens, now : {3}]

Jwts == [key_id : {None, ""}, issuer : {"i"}, subject : {"s"},
         audience : Opt({"x"}), lifetime : -1 .. 7, skew : -1 .. 5]
endpoint(s, h) == [scheme |-> s, host |-> h, userinfo |-> FALSE, reserved |-> FALSE]
OAuth2 ==
  {[kind |-> "OAuth2", provider_name |-> "p", client_id |-> "me", redirect_uri |-> "r",
    authorization |-> a1, token |-> endpoint("https", "h"),
    userinfo |-> endpoint("http", h), method |-> None, client_secret |-> None,
    client_jwt |-> None, scopes |-> {"email"}, state_ttl |-> 1, pointers |-> {"/id"},
    list |-> None] :
   a1 \in {endpoint("https", "h"), [endpoint("https", "h") EXCEPT !.reserved = TRUE]},
   h \in {"loopback", "h"}}
ClientProbes ==
  [kind : {"client"},
   conf : {[c EXCEPT !.method = m, !.client_secret = s, !.client_jwt = j] :
             c \in {Conf, [Conf EXCEPT !.skew = -1]} \cup OAuth2,
             m \in {"ClientSecretPost", "ClientSecretBasic", "PrivateKeyJwt"},
             s \in Opt({"secret"}), j \in Opt(Jwts)},
   now : {0, 4, 5}]

mark(t) == [json |-> "boolean", text |-> t]
Marks == {None, mark("true"), mark("false"), [json |-> "string", text |-> "true"],
          [json |-> "number", text |-> "1"]}
Entry == [email : {"e1", "e2", ""}, verified : {mark("true"), mark("false")},
          primary : {mark("true"), mark("false")}]
ProfileProbes ==
  [kind : {"profile"},
   conf : [verification : {"Unknown", "Pointer", "VerifiesAll"},
           list : Opt([selection : {"FirstVerified", "PrimaryVerified"},
                       entries : {<<>>} \cup {<<x>> : x \in Entry}
                                 \cup {<<x, y>> : x, y \in Entry}
                                 \cup {<<x, x, x>> : x \in Entry}])],
   raw : [subject : {"s", "", None}, email : {"e1", "", None}, verified : Marks]]

MCProbes == <<{[kind |-> "keys"]}, ScopeProbes, CatalogueProbes, AssuranceProbes,
              TokenProbes, HeaderProbes, SignInProbes, PartyProbes, ClientProbes,
              ProfileProbes>>
MCStepUps == <<StepUps>>

\* The documented matcher: the defaults with one super-scope, `a.b` here for
\* platform.admin, and sessions that do not hold it.
SuperScope == [wildcard |-> star, multi |-> TRUE, universal |-> FALSE, super |-> {ab},
               superExact |-> FALSE, exactOnly |-> {}, patterns |-> {}]
MCDelegates ==
  <<[kind : {"scope"}, o : {SuperScope}, by : {"service", "validator"},
     parent : [roles : {{"r"}}, scopes : {{a}, {ax}, {axx}}],
     request : [roles : {{"r"}}, scopes : {{a}, {ab}, {ax}, {axa}}],
     roles : {{"r"}}, required : {{abc}, {<<"b">>}}, scope : {<<"b">>}]>>
=============================================================================
