----------------------------- MODULE Credentials -----------------------------
(***************************************************************************)
(* Credentials that a store can take away: password-reset tokens           *)
(* (password_reset.rs), TOTP time steps (totp.rs) and opaque API tokens    *)
(* (api_tokens.rs).  Each await of a call is a step; a gate of the abuse   *)
(* protection admits or refuses, its counters are the subject of RateLimit. *)
(***************************************************************************)
EXTENDS Integers, FiniteSetsExt

CONSTANTS
    Resets,     \* password-reset tokens
    Tokens,     \* API tokens
    Calls,
    None,
    Ttl,        \* lifetime of a token of either kind
    Period,     \* TotpOptions.period_seconds
    Skew,       \* TotpOptions.allowed_skew
    Codes,      \* number of different codes; the code of a step is a digest of it
    MaxClock    \* bound of the clock

ASSUME CredentialsAssumption ==
    /\ {Ttl, Period, Codes} \subseteq Nat \ {0}
    /\ {Skew, MaxClock} \subseteq Nat
    /\ None \notin Resets \cup Tokens \cup Calls \cup Int
    /\ \A t \in Resets : t \notin Tokens \cup Int    \* each kind has IDs of its own

VARIABLES
    clock,
    \* PasswordResetTokenStore, and the signed tokens themselves
    reset,          \* "new", "signed", "stored" or "spent"
    \* ApiTokenStore
    api,            \* "new", "stored"
    revoked_at,     \* a time or None
    last_used_at,   \* a time or None
    expires_at,     \* of reset tokens and of API tokens
    \* TotpReplayStore
    used,           \* consumed steps of the factor
    \* the calls
    pc,
    kind,           \* "reset", "totp", "plain" (no replay store) or "api"
    given,          \* the token or the code presented
    client,         \* its ClientMetadata has an ip_address
    step,           \* the step whose code was presented
    start,          \* history: when the call began; `now` of the TOTP calls
    charged,        \* history: the keys its failed attempt was recorded for
    spender         \* history: the call that spent each token and step

issued == <<reset, api, revoked_at, last_used_at, expires_at, used>>
locals == <<kind, given, client, step, start>>
history == <<charged, spender>>
vars == <<clock, issued, pc, locals, history>>

Steps == 0..(MaxClock \div Period + Skew)
Issuable == Resets \cup Tokens
Ended == {"ok", "invalid", "unusable", "expired", "revoked", "replayed", "failed"}

Init ==
    /\ clock = 0
    /\ reset = [t \in Resets |-> "new"]
    /\ api = [t \in Tokens |-> "new"]
    /\ revoked_at = [t \in Tokens |-> None]
    /\ last_used_at = [t \in Tokens |-> None]
    /\ expires_at = [t \in Issuable |-> 0]
    /\ used = {}
    /\ pc = [c \in Calls |-> "idle"]
    /\ kind = [c \in Calls |-> None]
    /\ given = [c \in Calls |-> None]
    /\ client = [c \in Calls |-> FALSE]
    /\ step = [c \in Calls |-> None]
    /\ start = [c \in Calls |-> 0]
    /\ charged = [c \in Calls |-> {}]
    /\ spender = [x \in Resets \cup Steps |-> None]

Tick ==
    /\ clock < MaxClock
    /\ clock' = clock + 1
    /\ UNCHANGED <<issued, pc, locals, history>>

Goto(c, l) == pc' = [pc EXCEPT ![c] = l]

----------------------------------------------------------------------------
(* Issue and revocation.                                                   *)

\* issue_password_reset_token_with_ttl: without a row it proves nothing.
SignReset(t) ==
    /\ reset[t] = "new"
    /\ reset' = [reset EXCEPT ![t] = "signed"]
    /\ expires_at' = [expires_at EXCEPT ![t] = clock + Ttl]
    /\ UNCHANGED <<clock, api, revoked_at, last_used_at, used, pc, locals, history>>

insert_password_reset_token(t) ==
    /\ reset[t] = "signed"
    /\ reset' = [reset EXCEPT ![t] = "stored"]
    /\ UNCHANGED <<clock, api, revoked_at, last_used_at, expires_at, used, pc, locals, history>>

issue_token(t) ==
    /\ api[t] = "new"
    /\ api' = [api EXCEPT ![t] = "stored"]
    /\ expires_at' = [expires_at EXCEPT ![t] = clock + Ttl]
    /\ UNCHANGED <<clock, reset, revoked_at, last_used_at, used, pc, locals, history>>

revoke_token(t) ==
    /\ api[t] = "stored" /\ revoked_at[t] = None
    /\ revoked_at' = [revoked_at EXCEPT ![t] = clock]
    /\ UNCHANGED <<clock, reset, api, last_used_at, expires_at, used, pc, locals, history>>

----------------------------------------------------------------------------
(* A call, up to the decision about what was presented.                    *)

\* The variants without metadata pass ClientMetadata::default(): no address.
Begin(c, k, x, ip) ==
    /\ pc[c] = "idle"
    /\ kind' = [kind EXCEPT ![c] = k]
    /\ given' = [given EXCEPT ![c] = x]
    /\ client' = [client EXCEPT ![c] = ip]
    /\ start' = [start EXCEPT ![c] = clock]
    /\ Goto(c, IF k = "api" THEN "find" ELSE "gate")
    /\ UNCHANGED <<clock, issued, step, history>>

\* authenticate_password_reset_token after the gate for the client alone: a
\* failure is charged to the client.  The second gate is for the principal.
AuthenticateReset(c) ==
    /\ pc[c] = "gate" /\ kind[c] = "reset"
    /\ Goto(c, IF reset[given[c]] # "new" /\ expires_at[given[c]] > clock
               THEN "consume" ELSE "record")
    /\ UNCHANGED <<clock, issued, locals, history>>

CodeOf(s) == s % Codes

totp_step(t) == t \div Period

\* Mutant: the window is one step longer in the past.
Window_Longer(t) == totp_step(t) - Skew - 1 .. totp_step(t) + Skew

Window(t) == totp_step(t) - Skew .. totp_step(t) + Skew

Matching(code, t) == {s \in Window(t) : s >= 0 /\ CodeOf(s) = code}

\* verify_totp_code_step: the earliest step of the window with this code.
VerifyTotp(c) ==
    /\ pc[c] = "gate" /\ kind[c] \in {"totp", "plain"}
    /\ LET found == Matching(given[c], start[c]) IN
       IF found = {} THEN Goto(c, "record") /\ UNCHANGED step
       ELSE /\ step' = [step EXCEPT ![c] = Min(found)]
            /\ Goto(c, IF kind[c] = "totp" THEN "consume" ELSE "clear")
    /\ UNCHANGED <<clock, issued, kind, given, client, start, history>>

\* An error other than InvalidTotpCode, of the options or of a secret that does
\* not decode: no guess was made, and none is recorded.
VerifyTotpUnusable(c) ==
    /\ pc[c] = "gate" /\ kind[c] \in {"totp", "plain"}
    /\ Goto(c, "unusable")
    /\ UNCHANGED <<clock, issued, locals, history>>

----------------------------------------------------------------------------
(* Consumption, and what it does to the counters.                          *)

\* What a call is about to spend.
Spends(c) == IF kind[c] = "reset" THEN given[c] ELSE step[c]

\* Mutant: the read of the row and its update are not one operation, so a call
\* that found it unspent may be late.
Unspent_Stale(c) ==
    IF kind[c] = "reset" THEN reset[given[c]] \in {"stored", "spent"}
    ELSE step[c] \notin used

\* The store's answer: true for the first call, and for recorded tokens only.
Unspent(c) ==
    IF kind[c] = "reset" THEN reset[given[c]] = "stored" ELSE step[c] \notin used

Consume(c) ==
    /\ pc[c] = "consume"
    /\ IF Unspent(c)
       THEN /\ Goto(c, "clear")
            /\ spender' = [spender EXCEPT ![Spends(c)] = c]
            /\ IF kind[c] = "reset"
               THEN reset' = [reset EXCEPT ![given[c]] = "spent"] /\ UNCHANGED used
               ELSE used' = used \cup {step[c]} /\ UNCHANGED reset
       ELSE Goto(c, "again") /\ UNCHANGED <<reset, used, spender>>
    /\ UNCHANGED <<clock, api, revoked_at, last_used_at, expires_at, locals, charged>>

Clear(c) ==
    /\ pc[c] = "clear"
    /\ Goto(c, "ok")
    /\ UNCHANGED <<clock, issued, locals, history>>

\* rate_limit_keys: of the client if its address is known, and of the principal
\* if there is one; a reset token names one once it was authenticated.
KeysOf(c) ==
    (IF client[c] THEN {"client"} ELSE {})
        \cup (IF kind[c] = "reset" /\ pc[c] = "record" THEN {} ELSE {"principal"})

\* Mutant: a replay costs nothing.
Record_InvalidOnly(c) ==
    /\ pc[c] \in {"record", "again"}
    /\ charged' = IF pc[c] = "record" THEN [charged EXCEPT ![c] = KeysOf(c)] ELSE charged
    /\ Goto(c, IF pc[c] = "record" THEN "invalid" ELSE "replayed")
    /\ UNCHANGED <<clock, issued, locals, spender>>

\* record_rate_limit_attempt, then the error.
Record(c) ==
    /\ pc[c] \in {"record", "again"}
    /\ charged' = [charged EXCEPT ![c] = KeysOf(c)]
    /\ Goto(c, IF pc[c] = "record" THEN "invalid" ELSE "replayed")
    /\ UNCHANGED <<clock, issued, locals, spender>>

----------------------------------------------------------------------------
(* ApiTokenService::authenticate_token.                                    *)

FindToken(c) ==
    /\ pc[c] = "find"
    /\ Goto(c, IF api[given[c]] = "new" THEN "invalid"
               ELSE IF revoked_at[given[c]] # None THEN "revoked"
               ELSE IF expires_at[given[c]] <= clock THEN "expired"
               ELSE "touch")
    /\ UNCHANGED <<clock, issued, locals, history>>

\* The token may have been revoked since; touching it does not undo that.
touch_api_token(c) ==
    /\ pc[c] = "touch"
    /\ last_used_at' = [last_used_at EXCEPT ![given[c]] = clock]
    /\ Goto(c, "ok")
    /\ UNCHANGED <<clock, reset, api, revoked_at, expires_at, used, locals, history>>

\* A gate refuses, a store fails, or the call is dropped.
Fail(c) ==
    /\ pc[c] \notin Ended \cup {"idle"}
    /\ Goto(c, "failed")
    /\ kind' = [kind EXCEPT ![c] = None]
    /\ given' = [given EXCEPT ![c] = None]
    /\ client' = [client EXCEPT ![c] = FALSE]
    /\ step' = [step EXCEPT ![c] = None]
    /\ start' = [start EXCEPT ![c] = 0]
    /\ UNCHANGED <<clock, issued, history>>

Next ==
    \/ Tick
    \/ \E t \in Resets : SignReset(t) \/ insert_password_reset_token(t)
    \/ \E t \in Tokens : issue_token(t) \/ revoke_token(t)
    \/ \E c \in Calls :
        \/ \E t \in Resets, ip \in BOOLEAN : Begin(c, "reset", t, ip)
        \/ \E t \in Tokens : Begin(c, "api", t, FALSE)
        \/ \E k \in {"totp", "plain"}, x \in 0..(Codes - 1), ip \in BOOLEAN :
             Begin(c, k, x, ip)
        \/ AuthenticateReset(c) \/ VerifyTotp(c) \/ VerifyTotpUnusable(c)
        \/ Consume(c) \/ Clear(c) \/ Record(c)
        \/ FindToken(c) \/ touch_api_token(c) \/ Fail(c)

Spec == Init /\ [][Next]_vars

----------------------------------------------------------------------------
(* Properties.                                                             *)

\* The values the variables can have.
TypeOK ==
    /\ clock \in 0..MaxClock
    /\ reset \in [Resets -> {"new", "signed", "stored", "spent"}]
    /\ api \in [Tokens -> {"new", "stored"}]
    /\ revoked_at \in [Tokens -> Nat \cup {None}]
    /\ last_used_at \in [Tokens -> Nat \cup {None}]
    /\ expires_at \in [Issuable -> Nat]
    /\ used \subseteq Steps
    /\ pc \in [Calls -> Ended \cup {"idle", "gate", "find", "consume", "clear",
                                    "record", "again", "touch"}]
    /\ kind \in [Calls -> {"reset", "totp", "plain", "api", None}]
    /\ given \in [Calls -> Resets \cup Tokens \cup (0..(Codes - 1)) \cup {None}]
    /\ client \in [Calls -> BOOLEAN]
    /\ step \in [Calls -> Steps \cup {None}]
    /\ start \in [Calls -> 0..MaxClock]
    /\ charged \in [Calls -> SUBSET {"client", "principal"}]
    /\ spender \in [Resets \cup Steps -> Calls \cup {None}]

\* Of all calls that present a reset token, or a code of one time step, one is
\* accepted; a token counts once its row is stored; and a call is told of a
\* replay only when another call spent the credential or nobody stored it
\* (consume_password_reset_token_with_metadata,
\* verify_totp_code_with_replay_store_and_metadata).
AcceptedOnce ==
    \A c \in Calls : kind[c] \in {"reset", "totp"} =>
        /\ pc[c] = "ok" => spender[Spends(c)] = c
        /\ pc[c] = "replayed" =>
            \/ spender[Spends(c)] \notin {None, c}
            \/ kind[c] = "reset" /\ spender[Spends(c)] = None

\* An accepted credential was in force when the call that presents it began: a
\* token not expired and not revoked, a code of a step within the allowed skew
\* (authenticate_token, authenticate_password_reset_token, verify_totp_code_step).
AcceptedWhileValid ==
    \A c \in Calls : pc[c] = "ok" =>
        CASE kind[c] = "reset" -> expires_at[given[c]] > start[c]
          [] kind[c] = "api" -> /\ expires_at[given[c]] > start[c]
                                /\ \/ revoked_at[given[c]] = None
                                   \/ revoked_at[given[c]] >= start[c]
          [] OTHER -> /\ CodeOf(step[c]) = given[c]
                      /\ start[c] < Period * (step[c] + Skew + 1)
                      /\ start[c] >= Period * (step[c] - Skew)

\* Who pays for a rejection.  A replay, and a wrong code, always cost their
\* principal an attempt, without an address too; an address pays whenever it is
\* known; a reset token that does not authenticate names nobody, so without an
\* address it costs nobody; success and an unusable factor cost nothing
\* (record_rate_limit_attempt in the three calls, rate_limit_keys).
RejectionsAreCharged ==
    \A c \in Calls :
        /\ pc[c] \in {"ok", "unusable"} => charged[c] = {}
        /\ pc[c] \in {"replayed", "invalid"} /\ kind[c] # "api" =>
            /\ "client" \in charged[c] <=> client[c]
            /\ "principal" \in charged[c] <=> pc[c] = "replayed" \/ kind[c] # "reset"
==============================================================================
