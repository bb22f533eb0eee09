--------------------------------- MODULE SignIn ---------------------------------
(***************************************************************************)
(* How one person signs in (api/auth.py, api/totp.py, api/passkeys.py,     *)
(* security/sessions.py, security/totp.py, security/ratelimit.py, cli.py): *)
(* password, authenticator app or recovery code, passkeys, sessions.       *)
(*                                                                         *)
(* A request that checks a password reads its rows, computes for a while   *)
(* (hashing runs in a thread) and commits; other requests come in between. *)
(* It writes the columns it has set.  A sign-in commits them before it     *)
(* opens the session if it finds an old session to touch in its cookie.    *)
(* Passwords and secrets are numbers, the code of a secret in a time step  *)
(* is the pair of the two; a unit of time is such a step.                  *)
(***************************************************************************)
EXTENDS Integers, FiniteSets

CONSTANTS
    Tabs, Sessions,     \* browsers; 1..n, the sessions in the order they begin
    Keys,               \* credentials of authenticators
    Codes,              \* RECOVERY_COUNT codes per set
    IdleTime, AbsoluteTime, TouchInterval,  \* of a session
    ShortTime,          \* of what Redis keeps
    Window, Limit,      \* of RateLimiter.enforce
    MaxPasskeys,        \* MAX_PASSKEYS
    OldHash,            \* at first the password is hashed with old parameters
    MaxClock, MaxOps, MaxFaults     \* bounds

ASSUME SignInAssumption ==
    /\ IsFiniteSet(Sessions) /\ Sessions \subseteq Nat \ {0}
    /\ {IdleTime, AbsoluteTime, TouchInterval, ShortTime, Window, Limit, MaxPasskeys} \subseteq Nat \ {0}
    /\ IsFiniteSet(Codes) /\ OldHash \in BOOLEAN
    /\ MaxClock \in Nat \ {0} /\ MaxOps \in Nat /\ MaxFaults \in Nat

VARIABLES
    clock, user, sessions, recovery, passkeys,     \* the database
    mfa, pending, challenge,    \* Redis: tokens, secrets to confirm, challenges
    limiter,                    \* Redis: the counter of sign-ins, and its end
    cookie, request,            \* of each tab
    made,                       \* secrets and sets of codes made so far
    used, twice, clash,         \* history: codes accepted, more than once; overlaps
    promised,                   \* history: what the last 429 said
    ops, faults

dataVars == <<user, sessions, recovery, passkeys>>
redisVars == <<mfa, pending, challenge>>
historyVars == <<used, twice, clash>>
limitVars == <<limiter, promised>>
vars == <<clock, dataVars, redisVars, limitVars, cookie, request, made, historyVars, ops, faults>>

(* password counts the changes (password_changed_at); hash is the password *)
(* that password_hash is of.                                               *)
User == [password: Nat, hash: Nat, outdated: BOOLEAN, secret: Nat, last: Nat]

Idle == [kind |-> "idle"]
NoSession == [method |-> "none", created |-> 0, seen |-> 0, revoked |-> TRUE]
NoLimit == [hits |-> 0, until |-> 0]

Init ==
    /\ clock = 1 /\ user = [password |-> 0, hash |-> 0, outdated |-> OldHash, secret |-> 0, last |-> 0]
    /\ sessions = [s \in Sessions |-> NoSession]
    /\ recovery = {} /\ passkeys = {}
    /\ mfa = [t \in Tabs |-> 0] /\ challenge = [s \in Sessions |-> 0]
    /\ pending = [s \in Sessions |-> [secret |-> 0, until |-> 0]]
    /\ limiter = NoLimit /\ promised = 0
    /\ cookie = [t \in Tabs |-> 0] /\ request = [t \in Tabs |-> Idle] /\ made = 0
    /\ used = {} /\ twice = {} /\ clash = {} /\ ops = 0 /\ faults = 0

Op == ops < MaxOps /\ ops' = ops + 1 /\ UNCHANGED <<clock, faults>>
Later == UNCHANGED <<clock, ops, faults>>

-----------------------------------------------------------------------------
(***************************************************************************)
(* Sessions.                                                               *)
(***************************************************************************)
Begun == {s \in Sessions : sessions[s].method # "none"}
Fresh == {s \in Sessions : s \notin Begun /\ \A x \in Sessions : x < s => x \in Begun}

(* is_session_valid                                                        *)
Valid(s) ==
    /\ ~sessions[s].revoked /\ clock < sessions[s].created + AbsoluteTime
    /\ clock < sessions[s].seen + IdleTime

Former(t) == {s \in Sessions : s = cookie[t]}
Own(t) == {s \in Former(t) : Valid(s)}
Stale(t) == {s \in Own(t) : clock - sessions[s].seen >= TouchInterval}

(* CurrentSession: a request of a session touches it first, see Touch.     *)
Signed(t) == Own(t) \ Stale(t)

Revoked(S, all) == [s \in Sessions |-> IF s \in S THEN [all[s] EXCEPT !.revoked = TRUE] ELSE all[s]]
NewSession(method) == [method |-> method, created |-> clock, seen |-> clock, revoked |-> FALSE]

(* create_session; the session the browser had is revoked.                 *)
StartSession(t, method, previous) ==
    \E s \in Fresh :
       /\ sessions' = [Revoked(previous, sessions) EXCEPT ![s] = NewSession(method)]
       /\ cookie' = [cookie EXCEPT ![t] = s]

(* resolve_session commits on its own.                                     *)
Touched(t) == \E s \in Stale(t) : sessions' = [sessions EXCEPT ![s].seen = clock]

Touch(t) ==
    /\ Touched(t)
    /\ UNCHANGED <<user, recovery, passkeys, redisVars, limitVars, cookie, request, made,
                   historyVars>> /\ Later

(* logout, logout_all, end_session                                         *)
EndSessions(S) ==
    /\ S # {} /\ sessions' = Revoked(S, sessions)
    /\ UNCHANGED <<user, recovery, passkeys, redisVars, limitVars, cookie, request, made,
                   historyVars>> /\ Op
Logout(t) == EndSessions(Signed(t))
LogoutAll(t) == Signed(t) # {} /\ EndSessions({s \in Sessions : ~sessions[s].revoked})
EndSession(t, s) == Signed(t) # {} /\ ~sessions[s].revoked /\ EndSessions({s})

-----------------------------------------------------------------------------
(***************************************************************************)
(* RateLimiter.hit                                                         *)
(***************************************************************************)
(* Mutant: a counter without an end keeps having none. *)
HitEndless(hits, until) ==
    [hits |-> hits, until |-> IF hits = 1 THEN clock + Window ELSE until]

(* INCR, then EXPIRE for the first one, and for a refused one if the       *)
(* counter has no end.                                                     *)
Hit(hits, until) ==
    [hits |-> hits,
     until |-> IF hits = 1 \/ (hits > Limit /\ until = 0) THEN clock + Window ELSE until]

Counted == Hit(limiter.hits + 1, limiter.until)
Allowed == Counted.hits <= Limit /\ limiter' = Counted /\ UNCHANGED promised

(* Another one that is refused then is told the same.                      *)
Refused ==
    /\ Counted.hits > Limit /\ promised = 0
    /\ limiter' = Counted /\ promised' = IF Counted.until = 0 THEN clock + Window ELSE Counted.until
    /\ UNCHANGED <<dataVars, redisVars, cookie, request, made, historyVars>> /\ Op

(* The process is stopped between INCR and EXPIRE.                         *)
CrashAfterIncr ==
    /\ faults < MaxFaults /\ faults' = faults + 1
    /\ limiter.hits <= Limit /\ limiter' = [limiter EXCEPT !.hits = @ + 1]
    /\ UNCHANGED <<clock, dataVars, redisVars, promised, cookie, request, made, historyVars, ops>>

Tick ==
    /\ clock < MaxClock /\ clock' = clock + 1
    /\ IF limiter.until # 0 /\ limiter.until <= clock' THEN limiter' = NoLimit /\ promised' = 0
       ELSE UNCHANGED limitVars
    /\ UNCHANGED <<dataVars, redisVars, cookie, request, made, historyVars, ops, faults>>

-----------------------------------------------------------------------------
(***************************************************************************)
(* Requests that take a while.                                             *)
(***************************************************************************)
Asks(t, r) ==
    /\ request[t] = Idle /\ request' = [request EXCEPT ![t] = r]
    /\ UNCHANGED <<dataVars, redisVars, cookie, made, historyVars>> /\ Op

Answered(t) == request' = [request EXCEPT ![t] = Idle]

(* The code is used; was it changed since, by another request.             *)
Uses(code, overlaps) ==
    /\ used' = used \cup {code}
    /\ twice' = IF code \in used THEN twice \cup {code} ELSE twice
    /\ clash' = IF overlaps THEN clash \cup {code} ELSE clash

(* totp.verify                                                             *)
Verified(secret, last) == {<<secret, n>> : n \in {m \in clock - 1..clock + 1 : m > last}}

(* check_second_factor: what would be accepted.                            *)
SecondFactors ==
    IF user.secret = 0 THEN {} ELSE Verified(user.secret, user.last) \cup recovery

IsRecovery(code) == code[1] < 0

(* The columns that the check sets.  A row of recovery_codes that is gone  *)
(* fails the request.                                                      *)
Spend(code, read) ==
    IF IsRecovery(code)
    THEN /\ code \in recovery \/ code \in used
         /\ recovery' = recovery \ {code} /\ UNCHANGED user
         /\ Uses(code, code \notin recovery)
    ELSE /\ user' = [user EXCEPT !.last = code[2]] /\ UNCHANGED recovery
         /\ Uses(code, read # user)

(* _start_session: what the request has written so far is committed with   *)
(* the touch of the session that the browser had, if that is due.          *)
Opens(t, method) ==
    \/ Stale(t) = {} /\ StartSession(t, method, Own(t)) /\ Answered(t)
    \/ /\ Touched(t) /\ UNCHANGED cookie
       /\ request' = [request EXCEPT ![t] = [kind |-> "opening", method |-> method]]

OpenSession(t) ==
    /\ request[t].kind = "opening" /\ Answered(t)
    /\ StartSession(t, request[t].method, Former(t))
    /\ UNCHANGED <<user, recovery, passkeys, redisVars, limitVars, made, historyVars>> /\ Later

(* needs_rehash: the password that was entered is hashed anew.             *)
Rehashed(read) ==
    IF read.outdated THEN [user EXCEPT !.hash = read.hash, !.outdated = FALSE] ELSE user

StartLogin(t) == Asks(t, [kind |-> "login", read |-> user]) /\ Allowed

CommitLogin(t) ==
    /\ request[t].kind = "login" /\ user' = Rehashed(request[t].read)
    /\ IF request[t].read.secret # 0
       THEN /\ mfa' = [mfa EXCEPT ![t] = clock + ShortTime] /\ Answered(t)
            /\ UNCHANGED <<sessions, cookie>>
       ELSE Opens(t, "password") /\ UNCHANGED mfa
    /\ UNCHANGED <<recovery, passkeys, pending, challenge, limitVars, made, historyVars>>
    /\ Later

StartSecond(t, code) ==
    /\ mfa[t] > clock /\ code \in SecondFactors
    /\ Asks(t, [kind |-> "second", read |-> user, code |-> code]) /\ UNCHANGED limitVars

CommitSecond(t) ==
    /\ request[t].kind = "second"
    /\ Spend(request[t].code, request[t].read)
    /\ mfa' = [mfa EXCEPT ![t] = 0] /\ Opens(t, "password+")
    /\ UNCHANGED <<passkeys, pending, challenge, limitVars, made>> /\ Later

NewPassword ==
    [user EXCEPT !.password = @ + 1, !.hash = user.password + 1, !.outdated = FALSE]

(* With the old password, or right after a sign-in with a passkey.         *)
StartPassword(t) ==
    /\ Signed(t) # {}
    /\ Asks(t, [kind |-> "password", read |-> user, session |-> cookie[t]]) /\ UNCHANGED limitVars

(* Mutant: the session of the request only is rotated. *)
CommitPasswordRotates(t) ==
    LET method == sessions[request[t].session].method IN
    /\ request[t].kind = "password" /\ Answered(t)
    /\ user' = NewPassword
    /\ \E s \in Fresh :
          /\ sessions' = [Revoked({request[t].session}, sessions) EXCEPT ![s] = NewSession(method)]
          /\ cookie' = [cookie EXCEPT ![t] = s]
    /\ UNCHANGED <<recovery, passkeys, redisVars, limitVars, made, historyVars>> /\ Later

CommitPassword(t) ==
    LET method == sessions[request[t].session].method IN
    /\ request[t].kind = "password" /\ Answered(t)
    /\ user' = NewPassword
    /\ \E s \in Fresh :
          /\ sessions' = [Revoked(Sessions, sessions) EXCEPT ![s] = NewSession(method)]
          /\ cookie' = [cookie EXCEPT ![t] = s]
    /\ UNCHANGED <<recovery, passkeys, redisVars, limitVars, made, historyVars>> /\ Later

(* todoch reset-password                                                   *)
ResetPassword ==
    /\ user' = NewPassword /\ sessions' = Revoked(Sessions, sessions)
    /\ UNCHANGED <<recovery, passkeys, redisVars, limitVars, cookie, request, made, historyVars>>
    /\ Op

-----------------------------------------------------------------------------
(***************************************************************************)
(* The second factor.                                                      *)
(***************************************************************************)
TotpSetup(t) ==
    /\ user.secret = 0 /\ \E s \in Signed(t) :
          pending' = [pending EXCEPT ![s] = [secret |-> made + 1, until |-> clock + ShortTime]]
    /\ made' = made + 1
    /\ UNCHANGED <<dataVars, mfa, challenge, limitVars, cookie, request, historyVars>> /\ Op

NewCodes(n) == {<<-n, c>> : c \in Codes}

(* Mutant: the step of the first code is not kept. *)
TotpConfirmForgets(t, code) ==
    /\ \E s \in Signed(t) : /\ pending[s].until > clock /\ code \in Verified(pending[s].secret, 0)
                         /\ pending' = [pending EXCEPT ![s].until = 0]
    /\ user' = [user EXCEPT !.secret = code[1], !.last = 0]
    /\ recovery' = NewCodes(made + 1) /\ made' = made + 1 /\ Uses(code, FALSE)
    /\ UNCHANGED <<sessions, passkeys, mfa, challenge, limitVars, cookie, request>> /\ Op

TotpConfirm(t, code) ==
    /\ \E s \in Signed(t) : /\ pending[s].until > clock /\ code \in Verified(pending[s].secret, 0)
                         /\ pending' = [pending EXCEPT ![s].until = 0]
    /\ user' = [user EXCEPT !.secret = code[1], !.last = code[2]]
    /\ recovery' = NewCodes(made + 1) /\ made' = made + 1 /\ Uses(code, FALSE)
    /\ UNCHANGED <<sessions, passkeys, mfa, challenge, limitVars, cookie, request>> /\ Op

StartDisable(t, code) ==
    /\ Signed(t) # {} /\ code \in SecondFactors
    /\ Asks(t, [kind |-> "disable", read |-> user, code |-> code]) /\ UNCHANGED limitVars

(* disable_totp                                                            *)
Disabled == user' = [user EXCEPT !.secret = 0, !.last = 0] /\ recovery' = {}

CommitDisable(t) ==
    LET r == request[t] IN
    /\ r.kind = "disable" /\ Answered(t)
    /\ IsRecovery(r.code) => r.code \in recovery \/ r.code \in used
    /\ Disabled /\ Uses(r.code, IF IsRecovery(r.code) THEN r.code \notin recovery ELSE r.read # user)
    /\ UNCHANGED <<sessions, passkeys, redisVars, limitVars, cookie, made>> /\ Later

(* todoch disable-2fa                                                      *)
DisableOnServer ==
    /\ user.secret # 0 /\ Disabled
    /\ UNCHANGED <<sessions, passkeys, redisVars, limitVars, cookie, request, made, historyVars>>
    /\ Op

StartCodes(t) ==
    /\ Signed(t) # {} /\ user.secret # 0
    /\ Asks(t, [kind |-> "codes", read |-> user]) /\ UNCHANGED limitVars

(* Mutant: the old codes stay. *)
CommitCodesKeeps(t) ==
    /\ request[t].kind = "codes" /\ Answered(t)
    /\ recovery' = recovery \cup NewCodes(made + 1) /\ made' = made + 1
    /\ UNCHANGED <<user, sessions, passkeys, redisVars, limitVars, cookie, historyVars>> /\ Later

(* _replace_recovery_codes                                                 *)
CommitCodes(t) ==
    /\ request[t].kind = "codes" /\ Answered(t)
    /\ recovery' = NewCodes(made + 1) /\ made' = made + 1
    /\ UNCHANGED <<user, sessions, passkeys, redisVars, limitVars, cookie, historyVars>> /\ Later

-----------------------------------------------------------------------------
(***************************************************************************)
(* Passkeys.  A challenge is deleted when it is read.                      *)
(***************************************************************************)
RegisterOptions(t) ==
    /\ Cardinality(passkeys) < MaxPasskeys
    /\ \E s \in Signed(t) : challenge' = [challenge EXCEPT ![s] = clock + ShortTime]
    /\ UNCHANGED <<dataVars, mfa, pending, limitVars, cookie, request, made, historyVars>> /\ Op

(* A row has its credential and a number of its own.                       *)
RegisterVerify(t, k) ==
    /\ \A p \in passkeys : p[1] # k
    /\ \E s \in Signed(t) : challenge[s] > clock /\ challenge' = [challenge EXCEPT ![s] = 0]
    /\ made' = made + 1 /\ passkeys' = passkeys \cup {<<k, made'>>}
    /\ UNCHANGED <<user, sessions, recovery, mfa, pending, limitVars, cookie, request,
                   historyVars>> /\ Op

DeletePasskey(t, p) ==
    /\ Signed(t) # {} /\ p \in passkeys /\ passkeys' = passkeys \ {p}
    /\ UNCHANGED <<user, sessions, recovery, redisVars, limitVars, cookie, request, made,
                   historyVars>> /\ Op

StartPasskey(t, p) ==
    p \in passkeys /\ Asks(t, [kind |-> "passkey", row |-> p]) /\ UNCHANGED limitVars

(* Mutant: the counter of the passkey is not written. *)
CommitPasskeyBlind(t) ==
    /\ request[t].kind = "passkey" /\ Opens(t, "passkey")
    /\ UNCHANGED <<user, recovery, passkeys, redisVars, limitVars, made, historyVars>> /\ Later

(* Its counter is written: a row that is gone fails the request.           *)
CommitPasskey(t) ==
    /\ request[t].kind = "passkey" /\ request[t].row \in passkeys
    /\ Opens(t, "passkey")
    /\ UNCHANGED <<user, recovery, passkeys, redisVars, limitVars, made, historyVars>> /\ Later

(* The request fails: nothing is written.                                  *)
Abort(t) ==
    /\ request[t] # Idle /\ Answered(t)
    /\ UNCHANGED <<dataVars, redisVars, limitVars, cookie, made, historyVars>> /\ Later

-----------------------------------------------------------------------------
TabNext(t) ==
    \/ Touch(t) \/ Logout(t) \/ LogoutAll(t) \/ \E s \in Sessions : EndSession(t, s)
    \/ StartLogin(t) \/ CommitLogin(t)
    \/ \E code \in SecondFactors : StartSecond(t, code) \/ StartDisable(t, code)
    \/ CommitSecond(t) \/ CommitDisable(t)
    \/ StartPassword(t) \/ CommitPassword(t)
    \/ TotpSetup(t) \/ \E s \in Signed(t) : \E code \in Verified(pending[s].secret, 0) : TotpConfirm(t, code)
    \/ StartCodes(t) \/ CommitCodes(t)
    \/ RegisterOptions(t)
    \/ \E k \in Keys : RegisterVerify(t, k)
    \/ \E p \in passkeys : DeletePasskey(t, p) \/ StartPasskey(t, p)
    \/ CommitPasskey(t) \/ OpenSession(t) \/ Abort(t)

Next ==
    \/ Tick \/ Refused \/ CrashAfterIncr \/ ResetPassword \/ DisableOnServer
    \/ \E t \in Tabs : TabNext(t)

Spec == Init /\ [][Next]_vars

-----------------------------------------------------------------------------
(***************************************************************************)
(* Properties.                                                             *)
(***************************************************************************)

(* Every variable keeps its shape; what Redis keeps belongs to a session   *)
(* that has begun.                                                         *)
TypeOK ==
    /\ clock \in 1..MaxClock
    /\ user \in User /\ user.secret <= made /\ user.last <= MaxClock + 1
    /\ \A s \in Sessions :
          /\ sessions[s].created <= sessions[s].seen /\ sessions[s].seen <= clock
          /\ pending[s].until # 0 \/ challenge[s] # 0 => s \in Begun
    /\ recovery \subseteq {<<-n, c>> : n \in 1..made, c \in Codes}
    /\ Cardinality(recovery) <= Cardinality(Codes)
    /\ passkeys \subseteq Keys \X (1..made) /\ used \subseteq Int \X (Int \cup Codes)
    /\ \A t \in Tabs : cookie[t] = 0 \/ cookie[t] \in Begun
    /\ ops \in 0..MaxOps /\ faults \in 0..MaxFaults

(* "Jeder Schritt gilt nur einmal", "je einmal gueltig": no code is        *)
(* accepted twice, at whichever of the three places it is asked for,       *)
(* unless two requests that overlap use the second factor.                 *)
EachCodeCountsOnce == twice = {} \/ clash # {}

(* Whoever has been told to come back later is let in then: the counter    *)
(* has gone by the time that the answer named, also when the process was   *)
(* stopped before it had set an end.                                       *)
RetryAfterIsHonest ==
    promised # 0 => limiter.until # 0 /\ limiter.until <= promised

(* A passkey that has been removed is accepted no more, not even in a      *)
(* sign-in that was under way, and not for one that took its place.  (What *)
(* is not promised: it may be removed after its use was committed with the *)
(* touch of an old session and before the session it opens, OpenSession.)  *)
RemovedPasskeyIsRefused ==
    [][\A t \in Tabs : request[t].kind = "passkey" /\ sessions' # sessions
                                                  /\ request'[t] # request[t]
                       => request[t].row \in passkeys]_vars

(* Sessions are what SessionLife promises.                                 *)
life == [s \in Sessions |-> IF s \notin Begun THEN "absent"
                            ELSE IF Valid(s) THEN "open" ELSE "ended"]
Life == INSTANCE SessionLife WITH password <- user.password
SessionsEndForGood == Life!Spec
================================================================================
