------------------------------ MODULE SignInProofs ------------------------------
(***************************************************************************)
(* Proofs about signing in, for any number of browsers, sessions, codes    *)
(* and passkeys, and any times: sessions live as SessionLife says (they    *)
(* open once, end for good, and all end with the password), no code is     *)
(* accepted twice, what a 429 says is kept, and a passkey that is removed  *)
(* is accepted no more.                                                    *)
(***************************************************************************)
EXTENDS SignIn, FiniteSetTheorems, TLAPS

Methods == {"none", "password", "password+", "passkey"}

(* A session that has not begun is as good as revoked, and a change of the *)
(* password was asked for in a session that has begun.                     *)
SessionsTyped ==
    /\ sessions \in [Sessions -> [method: Methods, created: Nat, seen: Nat, revoked: BOOLEAN]]
    /\ \A s \in Sessions : s \notin Begun => sessions[s].revoked

PasswordHasSession ==
    \A t \in Tabs : request[t].kind = "password" => request[t].session \in Begun

UserRow(u) == [password |-> u.password, hash |-> u.hash, outdated |-> u.outdated,
               secret |-> u.secret, last |-> u.last]

OpeningHasMethod ==
    \A t \in Tabs : request[t].kind = "opening" => request[t].method \in Methods \ {"none"}

IInv ==
    /\ clock \in Nat
    /\ user = UserRow(user)
    /\ request = [t \in Tabs |-> request[t]]
    /\ SessionsTyped /\ PasswordHasSession /\ OpeningHasMethod

-----------------------------------------------------------------------------
(* Times are positive numbers.                                             *)
LEMMA TimesArePositive ==
    /\ IdleTime \in Nat \ {0} /\ AbsoluteTime \in Nat \ {0} /\ TouchInterval \in Nat \ {0}
  BY SignInAssumption

(* No session has begun at first.                                          *)
LEMMA InitIInv == Init => IInv /\ Life!Init
  <1> SUFFICES ASSUME Init PROVE IInv /\ Life!Init
    OBVIOUS
  <1>1. \A s \in Sessions : sessions[s] = NoSession
    BY DEF Init
  <1>2. SessionsTyped
    BY DEF Init, SessionsTyped, NoSession, Methods
  <1>3. Begun = {}
    BY <1>1 DEF Begun, NoSession
  <1>4. Life!Init
    BY <1>3 DEF Init, life, Life!Init
  <1>5. PasswordHasSession /\ OpeningHasMethod
    BY DEF Init, PasswordHasSession, OpeningHasMethod, Idle
  <1> QED
    BY <1>2, <1>4, <1>5 DEF Init, IInv, UserRow

-----------------------------------------------------------------------------
(* What changes no session, no password and not the clock only has to be   *)
(* asked in a session when it will change the password.                    *)
LEMMA RestStep ==
    ASSUME IInv, UNCHANGED <<clock, sessions>>,
           user' = UserRow(user'), user'.password = user.password,
           request' = [t \in Tabs |-> request'[t]],
           \A t \in Tabs : request'[t].kind = "password" =>
               request'[t] = request[t] \/ request'[t].session \in Begun,
           \A t \in Tabs : request'[t].kind = "opening" => request'[t] = request[t]
    PROVE  IInv' /\ UNCHANGED Life!vars
  <1>1. Begun' = Begun /\ \A s \in Sessions : Valid(s)' <=> Valid(s)
    BY DEF Begun, Valid
  <1>2. life' = life
    BY <1>1 DEF life
  <1>3. SessionsTyped' /\ PasswordHasSession' /\ OpeningHasMethod'
    BY <1>1 DEF IInv, SessionsTyped, PasswordHasSession, OpeningHasMethod
  <1> QED
    BY <1>2, <1>3 DEF IInv, Life!vars, UserRow

(* The requests and commits of which that is true.                         *)
LEMMA RestOfNext ==
    ASSUME IInv,
           \/ Refused \/ CrashAfterIncr \/ DisableOnServer
           \/ \E t \in Tabs :
                 \/ StartLogin(t) \/ CommitDisable(t) \/ StartPassword(t) \/ TotpSetup(t)
                 \/ \E code \in SecondFactors : StartSecond(t, code) \/ StartDisable(t, code)
                 \/ \E s \in Signed(t) : \E code \in Verified(pending[s].secret, 0) :
                       TotpConfirm(t, code)
                 \/ StartCodes(t) \/ CommitCodes(t) \/ RegisterOptions(t)
                 \/ \E k \in Keys : RegisterVerify(t, k)
                 \/ \E p \in passkeys : DeletePasskey(t, p) \/ StartPasskey(t, p)
                 \/ Abort(t)
    PROVE  IInv' /\ UNCHANGED Life!vars
  <1>1. UNCHANGED <<clock, sessions>>
    BY DEF Refused, CrashAfterIncr, DisableOnServer, StartLogin, CommitDisable, StartPassword,
           TotpSetup, StartSecond, StartDisable, TotpConfirm, StartCodes, CommitCodes,
           RegisterOptions, RegisterVerify, DeletePasskey, StartPasskey, Abort,
           Asks, Op, Later, dataVars
  <1>2. user' = UserRow(user') /\ user'.password = user.password
    BY DEF IInv, UserRow, Refused, CrashAfterIncr, DisableOnServer, Disabled, StartLogin, CommitDisable,
           StartPassword, TotpSetup, StartSecond, StartDisable, TotpConfirm, StartCodes, CommitCodes,
           RegisterOptions, RegisterVerify, DeletePasskey, StartPasskey, Abort, Asks, dataVars
  <1>3. ASSUME NEW t \in Tabs, StartPassword(t)
        PROVE  cookie[t] \in Begun
    BY <1>3 DEF StartPassword, Signed, Own, Former, Valid, IInv, SessionsTyped
  <1> DEFINE Asked == /\ request' = [t \in Tabs |-> request'[t]]
                      /\ \A t \in Tabs : request'[t].kind = "password" =>
                            request'[t] = request[t] \/ request'[t].session \in Begun
                      /\ \A t \in Tabs : request'[t].kind = "opening" => request'[t] = request[t]
  <1>4. ASSUME NEW t \in Tabs, NEW r, request' = [request EXCEPT ![t] = r],
               r.kind = "password" => r.session \in Begun, r.kind # "opening"
        PROVE  Asked
    <2>1. request' = [x \in Tabs |-> IF x = t THEN r ELSE request[x]]
      BY <1>4 DEF IInv
    <2> QED
      BY <1>4, <2>1
  <1>5. Asked
    <2>1. CASE \E t \in Tabs : CommitDisable(t) \/ CommitCodes(t) \/ Abort(t)
      BY <2>1, <1>4 DEF CommitDisable, CommitCodes, Abort, Answered, Idle
    <2>2. CASE \E t \in Tabs : StartPassword(t)
      <3>1. PICK t \in Tabs : StartPassword(t)
        BY <2>2
      <3>2. request' = [request EXCEPT ![t] =
                            [kind |-> "password", read |-> user, session |-> cookie[t]]]
        BY <3>1 DEF StartPassword, Asks
      <3>3. /\ [kind |-> "password", read |-> user, session |-> cookie[t]].kind # "opening"
            /\ [kind |-> "password", read |-> user, session |-> cookie[t]].session \in Begun
        BY <3>1, <1>3
      <3> QED
        BY <3>2, <3>3, <1>4
    <2>3. CASE \E t \in Tabs : \/ StartLogin(t) \/ StartCodes(t)
                               \/ \E code \in SecondFactors : StartSecond(t, code) \/ StartDisable(t, code)
                               \/ \E p \in passkeys : StartPasskey(t, p)
      <3>1. PICK t \in Tabs : \/ StartLogin(t) \/ StartCodes(t)
                              \/ \E code \in SecondFactors : StartSecond(t, code) \/ StartDisable(t, code)
                              \/ \E p \in passkeys : StartPasskey(t, p)
        BY <2>3
      <3>2. ASSUME StartLogin(t) PROVE Asked
        <4>1. request' = [request EXCEPT ![t] = [kind |-> "login", read |-> user]]
          BY <3>2 DEF StartLogin, Asks
        <4>2. [kind |-> "login", read |-> user].kind \notin {"password", "opening"}
          OBVIOUS
        <4> QED
          BY <4>1, <4>2, <1>4
      <3>3. ASSUME StartCodes(t) PROVE Asked
        <4>1. request' = [request EXCEPT ![t] = [kind |-> "codes", read |-> user]]
          BY <3>3 DEF StartCodes, Asks
        <4>2. [kind |-> "codes", read |-> user].kind \notin {"password", "opening"}
          OBVIOUS
        <4> QED
          BY <4>1, <4>2, <1>4
      <3>4. ASSUME NEW code, StartSecond(t, code) PROVE Asked
        <4>1. request' = [request EXCEPT ![t] = [kind |-> "second", read |-> user, code |-> code]]
          BY <3>4 DEF StartSecond, Asks
        <4>2. [kind |-> "second", read |-> user, code |-> code].kind \notin {"password", "opening"}
          OBVIOUS
        <4> QED
          BY <4>1, <4>2, <1>4
      <3>5. ASSUME NEW code, StartDisable(t, code) PROVE Asked
        <4>1. request' = [request EXCEPT ![t] = [kind |-> "disable", read |-> user, code |-> code]]
          BY <3>5 DEF StartDisable, Asks
        <4>2. [kind |-> "disable", read |-> user, code |-> code].kind \notin {"password", "opening"}
          OBVIOUS
        <4> QED
          BY <4>1, <4>2, <1>4
      <3>6. ASSUME NEW p, StartPasskey(t, p) PROVE Asked
        <4>1. request' = [request EXCEPT ![t] = [kind |-> "passkey", row |-> p]]
          BY <3>6 DEF StartPasskey, Asks
        <4>2. [kind |-> "passkey", row |-> p].kind \notin {"password", "opening"}
          OBVIOUS
        <4> QED
          BY <4>1, <4>2, <1>4
      <3> QED
        BY <3>1, <3>2, <3>3, <3>4, <3>5, <3>6
    <2>4. CASE UNCHANGED request
      BY <2>4 DEF IInv
    <2>5. \/ UNCHANGED request
          \/ \E t \in Tabs :
                \/ CommitDisable(t) \/ CommitCodes(t) \/ Abort(t) \/ StartPassword(t)
                \/ StartLogin(t) \/ StartCodes(t)
                \/ \E code \in SecondFactors : StartSecond(t, code) \/ StartDisable(t, code)
                \/ \E p \in passkeys : StartPasskey(t, p)
      BY DEF Refused, CrashAfterIncr, DisableOnServer, TotpSetup, TotpConfirm, RegisterOptions,
             RegisterVerify, DeletePasskey
    <2> HIDE DEF Asked
    <2> QED
      BY <2>1, <2>2, <2>3, <2>4, <2>5
  <1> QED
    BY <1>1, <1>2, <1>5, RestStep

-----------------------------------------------------------------------------
(* What is revoked stays as begun as it was, and is not valid.             *)
LEMMA RevokedRows ==
    ASSUME IInv, NEW S
    PROVE  /\ Revoked(S, sessions) \in
                  [Sessions -> [method: Methods, created: Nat, seen: Nat, revoked: BOOLEAN]]
           /\ \A s \in Sessions :
                 /\ Revoked(S, sessions)[s].method = sessions[s].method
                 /\ s \in S => Revoked(S, sessions)[s].revoked
                 /\ s \notin S => Revoked(S, sessions)[s] = sessions[s]
  BY DEF Revoked, IInv, SessionsTyped

(* A session begins, and others end with it.                               *)
LEMMA BeginStep ==
    ASSUME IInv, NEW S, NEW s \in Fresh, NEW method \in Methods \ {"none"},
           sessions' = [Revoked(S, sessions) EXCEPT ![s] = NewSession(method)],
           UNCHANGED clock,
           user' = UserRow(user'),
           request' = [t \in Tabs |-> request'[t]],
           \A t \in Tabs : request'[t].kind \in {"password", "opening"} => request'[t] = request[t]
    PROVE  /\ IInv'
           /\ life[s] = "absent"
           /\ life' = [x \in Sessions |-> IF x = s THEN "open"
                                        ELSE IF x \in S \cap Life!Open THEN "ended" ELSE life[x]]
  <1>1. s \in Sessions \ Begun
    BY DEF Fresh
  <1>2. /\ sessions'[s] = NewSession(method)
        /\ \A x \in Sessions \ {s} :
              /\ sessions'[x].method = sessions[x].method
              /\ x \in S => sessions'[x].revoked
              /\ x \notin S => sessions'[x] = sessions[x]
        /\ sessions' \in [Sessions -> [method: Methods, created: Nat, seen: Nat, revoked: BOOLEAN]]
    BY <1>1, RevokedRows DEF NewSession, IInv
  <1>3. /\ s \in Begun' /\ Valid(s)'
        /\ \A x \in Sessions \ {s} : /\ x \in Begun' <=> x \in Begun
                                     /\ x \in S => ~Valid(x)'
                                     /\ x \notin S => (Valid(x)' <=> Valid(x))
    <2>1. Valid(s)'
      BY <1>1, <1>2, TimesArePositive DEF Valid, NewSession, IInv
    <2> QED
      BY <1>1, <1>2, <2>1 DEF Begun, Valid, NewSession
  <1>4. life[s] = "absent"
    BY <1>1 DEF life
  <1>5. life' = [x \in Sessions |-> IF x = s THEN "open"
                                 ELSE IF x \in S \cap Life!Open THEN "ended" ELSE life[x]]
    BY <1>1, <1>3 DEF life, Life!Open
  <1>6. SessionsTyped' /\ PasswordHasSession' /\ OpeningHasMethod'
    <2>1. \A x \in Sessions : x \notin Begun' => sessions'[x].revoked
      BY <1>2, <1>3 DEF IInv, SessionsTyped
    <2>2. Begun \subseteq Begun'
      BY <1>3 DEF Begun
    <2> QED
      BY <1>2, <2>1, <2>2 DEF SessionsTyped, IInv, PasswordHasSession, OpeningHasMethod
  <1> QED
    BY <1>4, <1>5, <1>6 DEF IInv, UserRow

(* Sessions only end: by being revoked, or as time goes on.                *)
LEMMA OnlyEndings ==
    ASSUME IInv, NEW S, sessions' = Revoked(S, sessions), UNCHANGED clock,
           user' = UserRow(user'),
           UNCHANGED request
    PROVE  /\ IInv'
           /\ life' = [x \in Sessions |-> IF x \in S \cap Life!Open THEN "ended" ELSE life[x]]
  <1>1. /\ \A x \in Sessions : /\ sessions'[x].method = sessions[x].method
                               /\ x \in S => sessions'[x].revoked
                               /\ x \notin S => sessions'[x] = sessions[x]
        /\ sessions' \in [Sessions -> [method: Methods, created: Nat, seen: Nat, revoked: BOOLEAN]]
    BY RevokedRows
  <1>2. \A x \in Sessions : /\ x \in Begun' <=> x \in Begun
                            /\ x \in S => ~Valid(x)'
                            /\ x \notin S => (Valid(x)' <=> Valid(x))
    BY <1>1 DEF Begun, Valid
  <1>3. life' = [x \in Sessions |-> IF x \in S \cap Life!Open THEN "ended" ELSE life[x]]
    BY <1>2 DEF life, Life!Open
  <1>4. Begun' = Begun
    BY <1>2 DEF Begun
  <1>5. SessionsTyped' /\ PasswordHasSession' /\ OpeningHasMethod'
    BY <1>1, <1>4 DEF IInv, SessionsTyped, PasswordHasSession, OpeningHasMethod
  <1> QED
    BY <1>3, <1>5 DEF IInv, UserRow

(* Ending some of the open sessions is a step of SessionLife, or none.     *)
LEMMA EndingIsAStep ==
    ASSUME NEW S, UNCHANGED user.password,
           life' = [x \in Sessions |-> IF x \in S \cap Life!Open THEN "ended" ELSE life[x]]
    PROVE  [Life!Next]_(Life!vars)
  <1> DEFINE ended == S \cap Life!Open
  <1>1. ended \in SUBSET Life!Open
    OBVIOUS
  <1>2. CASE ended = {}
    BY <1>2 DEF life, Life!vars
  <1>3. CASE ended # {}
    BY <1>1, <1>3 DEF Life!End, Life!Next
  <1> QED
    BY <1>2, <1>3

(* Using a session in time keeps it open.                                  *)
LEMMA TouchedStep ==
    ASSUME IInv, NEW t \in Tabs, Touched(t), UNCHANGED <<clock, user.password>>,
           user' = UserRow(user'),
           request' = [x \in Tabs |-> request'[x]],
           \A x \in Tabs : request'[x].kind = "password" => request'[x] = request[x],
           \A x \in Tabs : request'[x].kind = "opening" =>
               request'[x] = request[x] \/ request'[x].method \in Methods \ {"none"}
    PROVE  IInv' /\ UNCHANGED Life!vars
  <1>1. PICK s \in Own(t) : sessions' = [sessions EXCEPT ![s].seen = clock]
    BY DEF Touched, Stale
  <1>2. /\ sessions' \in [Sessions -> [method: Methods, created: Nat, seen: Nat, revoked: BOOLEAN]]
        /\ \A x \in Sessions : /\ sessions'[x].method = sessions[x].method
                               /\ sessions'[x].revoked = sessions[x].revoked
                               /\ sessions'[x].created = sessions[x].created
                               /\ x # s => sessions'[x].seen = sessions[x].seen
        /\ sessions'[s].seen = clock
    BY <1>1 DEF Own, Former, IInv, SessionsTyped
  <1>3. Valid(s) /\ Valid(s)'
    <2>1. Valid(s) /\ s \in Sessions
      BY DEF Own, Former
    <2>2. clock \in Nat /\ clock' = clock
      BY DEF IInv
    <2> QED
      BY <1>2, <2>1, <2>2, TimesArePositive DEF Valid
  <1>4. Begun' = Begun /\ \A x \in Sessions : Valid(x)' <=> Valid(x)
    BY <1>2, <1>3 DEF Begun, Valid
  <1>5. life' = life
    BY <1>4 DEF life
  <1>6. SessionsTyped' /\ PasswordHasSession' /\ OpeningHasMethod'
    BY <1>2, <1>4 DEF IInv, SessionsTyped, PasswordHasSession, OpeningHasMethod
  <1> QED
    BY <1>5, <1>6 DEF IInv, Life!vars, UserRow

LEMMA TouchStep ==
    ASSUME IInv, NEW t \in Tabs, Touch(t)
    PROVE  IInv' /\ UNCHANGED Life!vars
  <1>1. Touched(t) /\ UNCHANGED <<clock, user, request>>
    BY DEF Touch, Later
  <1> QED
    BY <1>1, TouchedStep DEF IInv, UserRow

(* A session begins in a browser, instead of some that it had.             *)
LEMMA StartStep ==
    ASSUME IInv, NEW t \in Tabs, NEW S, NEW method \in Methods \ {"none"},
           StartSession(t, method, S), Answered(t), UNCHANGED <<clock, user.password>>,
           user' = UserRow(user')
    PROVE  IInv' /\ [Life!Next]_(Life!vars)
  <1>1. PICK s \in Fresh : sessions' = [Revoked(S, sessions) EXCEPT ![s] = NewSession(method)]
    BY DEF StartSession
  <1>2. /\ request' = [x \in Tabs |-> request'[x]]
        /\ \A x \in Tabs : request'[x].kind \in {"password", "opening"} => request'[x] = request[x]
    <2>1. request' = [x \in Tabs |-> IF x = t THEN Idle ELSE request[x]]
      BY DEF IInv, Answered
    <2> QED
      BY <2>1 DEF Idle
  <1>3. /\ IInv' /\ life[s] = "absent"
        /\ life' = [x \in Sessions |-> IF x = s THEN "open"
                                     ELSE IF x \in S \cap Life!Open THEN "ended" ELSE life[x]]
    BY <1>1, <1>2, BeginStep
  <1>4. s \in Sessions /\ S \cap Life!Open \in SUBSET Life!Open
    BY DEF Fresh
  <1>5. Life!SignIn(s, S \cap Life!Open)
    BY <1>3, <1>4 DEF Life!SignIn
  <1> QED
    BY <1>3, <1>4, <1>5 DEF Life!Next

(* Or the one that it had is used before that.                             *)
LEMMA OpensStep ==
    ASSUME IInv, NEW t \in Tabs, NEW method \in Methods \ {"none"},
           Opens(t, method), UNCHANGED <<clock, user.password>>, user' = UserRow(user')
    PROVE  IInv' /\ [Life!Next]_(Life!vars)
  <1>1. CASE StartSession(t, method, Own(t)) /\ Answered(t)
    BY <1>1, StartStep
  <1> DEFINE r == [kind |-> "opening", method |-> method]
  <1>2. CASE Touched(t) /\ request' = [request EXCEPT ![t] = r]
    <2>1. request' = [x \in Tabs |-> IF x = t THEN r ELSE request[x]]
      BY <1>2 DEF IInv
    <2>2. r.kind = "opening" /\ r.method \in Methods \ {"none"}
      OBVIOUS
    <2> HIDE DEF r
    <2>3. /\ request' = [x \in Tabs |-> request'[x]]
          /\ \A x \in Tabs : request'[x].kind = "password" => request'[x] = request[x]
          /\ \A x \in Tabs : request'[x].kind = "opening" =>
                request'[x] = request[x] \/ request'[x].method \in Methods \ {"none"}
      BY <2>1, <2>2
    <2> QED
      BY <1>2, <2>3, TouchedStep
  <1> QED
    BY <1>1, <1>2 DEF Opens

(* Signing in with a password, a second factor or a passkey.               *)
LEMMA SignInStep ==
    ASSUME IInv, NEW t \in Tabs,
           CommitLogin(t) \/ CommitSecond(t) \/ CommitPasskey(t) \/ OpenSession(t)
    PROVE  IInv' /\ [Life!Next]_(Life!vars)
  <1>1. UNCHANGED <<clock, user.password>> /\ user' = UserRow(user')
    BY DEF CommitLogin, Rehashed, CommitSecond, CommitPasskey, OpenSession, Spend, Later, IInv, UserRow
  <1>2. CASE CommitLogin(t) /\ request[t].read.secret # 0
    <2>1. UNCHANGED <<clock, sessions>> /\ Answered(t)
      BY <1>2 DEF CommitLogin, Later
    <2>2. request' = [x \in Tabs |-> IF x = t THEN Idle ELSE request[x]]
      BY <2>1 DEF IInv, Answered
    <2>3. /\ request' = [x \in Tabs |-> request'[x]]
          /\ \A x \in Tabs : request'[x].kind \in {"password", "opening"} => request'[x] = request[x]
      BY <2>2 DEF Idle
    <2> QED
      BY <1>1, <2>1, <2>3, RestStep
  <1>3. CASE CommitLogin(t) /\ request[t].read.secret = 0
    BY <1>1, <1>3, OpensStep DEF CommitLogin, Methods
  <1>4. CASE CommitSecond(t)
    BY <1>1, <1>4, OpensStep DEF CommitSecond, Methods
  <1>5. CASE CommitPasskey(t)
    BY <1>1, <1>5, OpensStep DEF CommitPasskey, Methods
  <1>6. CASE OpenSession(t)
    BY <1>1, <1>6, StartStep DEF OpenSession, IInv, OpeningHasMethod
  <1> QED
    BY <1>2, <1>3, <1>4, <1>5, <1>6

(* A new password ends all sessions; the browser that asked gets a new one.*)
LEMMA PasswordStep ==
    ASSUME IInv, ResetPassword \/ \E t \in Tabs : CommitPassword(t)
    PROVE  IInv' /\ [Life!Next]_(Life!vars)
  <1>1. CASE ResetPassword
    <2>1. /\ sessions' = Revoked(Sessions, sessions) /\ UNCHANGED <<clock, request>>
          /\ user' = NewPassword
      BY <1>1 DEF ResetPassword, Op
    <2>2. user' = UserRow(user') /\ user'.password = user.password + 1
      BY <2>1 DEF IInv, UserRow, NewPassword
    <2>3. /\ IInv'
          /\ life' = [x \in Sessions |-> IF x \in Sessions \cap Life!Open THEN "ended" ELSE life[x]]
      BY <2>1, <2>2, OnlyEndings
    <2>4. Life!NewPassword({})
      BY <2>2, <2>3 DEF Life!NewPassword
    <2> QED
      BY <2>3, <2>4 DEF Life!Next
  <1>2. ASSUME NEW t \in Tabs, CommitPassword(t) PROVE IInv' /\ [Life!Next]_(Life!vars)
    <2> DEFINE method == sessions[request[t].session].method
    <2>1. method \in Methods \ {"none"}
      BY <1>2 DEF CommitPassword, IInv, PasswordHasSession, SessionsTyped, Begun
    <2>2. PICK s \in Fresh : sessions' = [Revoked(Sessions, sessions) EXCEPT ![s] = NewSession(method)]
      BY <1>2 DEF CommitPassword
    <2>3. /\ user' = UserRow(user')
          /\ user'.password = user.password + 1 /\ UNCHANGED clock
      BY <1>2 DEF CommitPassword, NewPassword, Later, IInv, UserRow
    <2>4. /\ request' = [x \in Tabs |-> request'[x]]
          /\ \A x \in Tabs : request'[x].kind \in {"password", "opening"} => request'[x] = request[x]
      <3>1. request' = [x \in Tabs |-> IF x = t THEN Idle ELSE request[x]]
        BY <1>2 DEF CommitPassword, Answered, IInv
      <3> QED
        BY <3>1 DEF Idle
    <2> HIDE DEF method
    <2>5. /\ IInv' /\ life[s] = "absent"
          /\ life' = [x \in Sessions |-> IF x = s THEN "open"
                                       ELSE IF x \in Sessions \cap Life!Open THEN "ended" ELSE life[x]]
      BY <2>1, <2>2, <2>3, <2>4, BeginStep
    <2>6. Life!NewPassword({s})
      BY <2>3, <2>5 DEF Life!NewPassword
    <2>7. {s} \in {{}} \cup {{x} : x \in Sessions}
      BY DEF Fresh
    <2> QED
      BY <2>5, <2>6, <2>7 DEF Life!Next
  <1> QED
    BY <1>1, <1>2

(* Signing out.                                                            *)
LEMMA EndStep ==
    ASSUME IInv, NEW t \in Tabs,
           Logout(t) \/ LogoutAll(t) \/ \E s \in Sessions : EndSession(t, s)
    PROVE  IInv' /\ [Life!Next]_(Life!vars)
  <1>1. PICK S : EndSessions(S)
    BY DEF Logout, LogoutAll, EndSession
  <1>2. sessions' = Revoked(S, sessions) /\ UNCHANGED <<clock, user, request>>
    BY <1>1 DEF EndSessions, Op
  <1>3. /\ IInv'
        /\ life' = [x \in Sessions |-> IF x \in S \cap Life!Open THEN "ended" ELSE life[x]]
    BY <1>2, OnlyEndings DEF IInv
  <1> QED
    BY <1>2, <1>3, EndingIsAStep

(* Time only ends sessions.                                                *)
LEMMA TickStep ==
    ASSUME IInv, Tick
    PROVE  IInv' /\ [Life!Next]_(Life!vars)
  <1>1. clock' = clock + 1 /\ UNCHANGED <<user, sessions, request>>
    BY DEF Tick, dataVars
  <1>2. Begun' = Begun
    BY <1>1 DEF Begun
  <1>3. \A s \in Sessions : Valid(s)' => Valid(s)
    BY <1>1, TimesArePositive DEF Valid, IInv, SessionsTyped
  <1> DEFINE S == {s \in Sessions : ~Valid(s)'}
  <1>4. life' = [x \in Sessions |-> IF x \in S \cap Life!Open THEN "ended" ELSE life[x]]
    BY <1>2, <1>3 DEF life, Life!Open
  <1>5. IInv'
    BY <1>1, <1>2 DEF IInv, SessionsTyped, PasswordHasSession, OpeningHasMethod, UserRow
  <1> QED
    BY <1>1, <1>4, <1>5, EndingIsAStep

-----------------------------------------------------------------------------
(* Every step keeps the inductive invariant and is one of SessionLife, or  *)
(* none.                                                                   *)
LEMMA StepIInv == IInv /\ [Next]_vars => IInv' /\ [Life!Next]_(Life!vars)
  <1> SUFFICES ASSUME IInv, [Next]_vars PROVE IInv' /\ [Life!Next]_(Life!vars)
    OBVIOUS
  <1>1. CASE Tick
    BY <1>1, TickStep
  <1>2. CASE Refused \/ CrashAfterIncr \/ DisableOnServer
    BY <1>2, RestOfNext
  <1>3. CASE ResetPassword
    BY <1>3, PasswordStep
  <1>4. ASSUME NEW t \in Tabs, TabNext(t) PROVE IInv' /\ [Life!Next]_(Life!vars)
    <2>1. CASE Touch(t)
      BY <2>1, TouchStep
    <2>2. CASE Logout(t) \/ LogoutAll(t) \/ \E s \in Sessions : EndSession(t, s)
      BY <2>2, EndStep
    <2>3. CASE CommitLogin(t) \/ CommitSecond(t) \/ CommitPasskey(t) \/ OpenSession(t)
      BY <2>3, SignInStep
    <2>4. CASE CommitPassword(t)
      BY <2>4, PasswordStep
    <2>5. CASE \/ StartLogin(t) \/ CommitDisable(t) \/ StartPassword(t) \/ TotpSetup(t)
               \/ \E code \in SecondFactors : StartSecond(t, code) \/ StartDisable(t, code)
               \/ \E s \in Signed(t) : \E code \in Verified(pending[s].secret, 0) :
                     TotpConfirm(t, code)
               \/ StartCodes(t) \/ CommitCodes(t) \/ RegisterOptions(t)
               \/ \E k \in Keys : RegisterVerify(t, k)
               \/ \E p \in passkeys : DeletePasskey(t, p) \/ StartPasskey(t, p)
               \/ Abort(t)
      BY <2>5, RestOfNext
    <2> QED
      BY <1>4, <2>1, <2>2, <2>3, <2>4, <2>5 DEF TabNext
  <1>5. CASE UNCHANGED vars
    <2>1. UNCHANGED <<clock, sessions, user, request>>
      BY <1>5 DEF vars, dataVars
    <2> QED
      BY <2>1, RestStep DEF IInv
  <1> QED
    BY <1>1, <1>2, <1>3, <1>4, <1>5 DEF Next

(* Sessions live as SessionLife says: they open once, end for good, and    *)
(* all end with the password.                                              *)
THEOREM SessionsLiveAsPromised == Spec => SessionsEndForGood
  <1> QED
    BY InitIInv, StepIInv, PTL DEF Spec, SessionsEndForGood, Life!Spec

-----------------------------------------------------------------------------
(***************************************************************************)
(* The counter of sign-ins.  Once an answer has named a time, the counter  *)
(* is over its limit, so no request that is let in moves its end.          *)
(***************************************************************************)
LInv ==
    /\ limiter \in [hits: Nat, until: Nat] /\ promised \in Nat
    /\ promised # 0 => limiter.hits > Limit
    /\ RetryAfterIsHonest

(* Counting keeps numbers, and an end that is set.                         *)
LEMMA HitCounts ==
    ASSUME IInv, LInv
    PROVE  /\ Counted \in [hits: Nat, until: Nat] /\ Counted.hits = limiter.hits + 1
           /\ Counted.hits > Limit => Counted.until # 0
  BY SignInAssumption DEF IInv, LInv, Counted, Hit

LEMMA LimitStep == IInv /\ LInv /\ [Next]_vars => LInv'
  <1> SUFFICES ASSUME IInv, LInv, [Next]_vars PROVE LInv'
    OBVIOUS
  <1> USE SignInAssumption
  <1>1. CASE UNCHANGED limitVars
    BY <1>1 DEF LInv, RetryAfterIsHonest, limitVars
  <1>2. CASE Allowed
    BY <1>2, HitCounts DEF Allowed, LInv, RetryAfterIsHonest
  <1>3. CASE Refused
    BY <1>3, HitCounts DEF Refused, LInv, RetryAfterIsHonest
  <1>4. CASE CrashAfterIncr
    <2>1. limiter' = [limiter EXCEPT !.hits = @ + 1] /\ promised' = promised /\ promised = 0
      BY <1>4 DEF CrashAfterIncr, LInv
    <2> QED
      BY <2>1 DEF LInv, RetryAfterIsHonest
  <1>5. CASE Tick
    BY <1>1, <1>5 DEF Tick, LInv, RetryAfterIsHonest, NoLimit
  <1>6. \/ UNCHANGED limitVars \/ Allowed \/ Refused \/ CrashAfterIncr \/ Tick
    BY DEF vars, Next, TabNext, Touch, Logout, LogoutAll, EndSession, EndSessions, StartLogin,
           CommitLogin, StartSecond, StartDisable, CommitSecond, CommitDisable, StartPassword,
           CommitPassword, TotpSetup, TotpConfirm, StartCodes, CommitCodes, RegisterOptions,
           RegisterVerify, DeletePasskey, StartPasskey, CommitPasskey, OpenSession, Abort, ResetPassword,
           DisableOnServer
  <1> QED
    BY <1>1, <1>2, <1>3, <1>4, <1>5, <1>6

(* Whoever has been told to come back later is let in then: the counter    *)
(* has gone by the time that the answer named.                             *)
THEOREM RetryAfterIsKept == Spec => []RetryAfterIsHonest
  <1>1. Init => LInv
    BY DEF Init, LInv, RetryAfterIsHonest, NoLimit
  <1>2. LInv => RetryAfterIsHonest
    BY DEF LInv
  <1> QED
    BY <1>1, <1>2, LimitStep, InitIInv, StepIInv, PTL DEF Spec

-----------------------------------------------------------------------------
(* Of the steps that bring a request for a passkey on, only its commit     *)
(* changes sessions, and that one finds the row.                           *)
LEMMA PasskeyStep ==
    ASSUME IInv, [Next]_vars, NEW t \in Tabs, request[t].kind = "passkey",
           sessions' # sessions, request'[t] # request[t]
    PROVE  request[t].row \in passkeys
  <1>1. ASSUME NEW x \in Tabs, Answered(x) \/ \E method : Opens(x, method) PROVE x = t
    BY <1>1 DEF Answered, Opens, IInv
  <1>2. \E x \in Tabs : CommitLogin(x) \/ CommitSecond(x) \/ CommitPassword(x) \/ CommitPasskey(x)
                       \/ OpenSession(x)
    BY DEF vars, dataVars, Next, TabNext, Touch, Logout, LogoutAll, EndSession, EndSessions,
           StartLogin, StartSecond, StartDisable, CommitDisable, StartPassword, TotpSetup,
           TotpConfirm, StartCodes, CommitCodes, RegisterOptions, RegisterVerify, DeletePasskey,
           StartPasskey, Abort, ResetPassword, DisableOnServer, Tick, Refused, CrashAfterIncr, Asks
  <1>3. CommitLogin(t) \/ CommitSecond(t) \/ CommitPassword(t) \/ CommitPasskey(t) \/ OpenSession(t)
    BY <1>1, <1>2 DEF CommitLogin, CommitSecond, CommitPassword, CommitPasskey, OpenSession
  <1> QED
    BY <1>3 DEF CommitLogin, CommitSecond, CommitPassword, CommitPasskey, OpenSession

(* A passkey that has been removed is accepted no more, not even in a      *)
(* sign-in that was under way, and not for one that took its place.        *)
THEOREM RemovedPasskeysStayOut == Spec => RemovedPasskeyIsRefused
  <1>1. IInv /\ [Next]_vars =>
            [\A t \in Tabs : request[t].kind = "passkey" /\ sessions' # sessions
                                                        /\ request'[t] # request[t]
                             => request[t].row \in passkeys]_vars
    BY PasskeyStep
  <1> QED
    BY <1>1, InitIInv, StepIInv, PTL DEF Spec, RemovedPasskeyIsRefused

-----------------------------------------------------------------------------
(***************************************************************************)
(* Codes.  A secret and a set of recovery codes have a number of their     *)
(* own, so what was used of an earlier one is never asked for again; what  *)
(* was used of the secret in use lies before the last time step.           *)
(***************************************************************************)
SecretCodes == (1..made) \X (1..MaxClock + 1)
RecoveryCodes == {<<-n, c>> : n \in 1..made, c \in Codes}

Numbered ==
    /\ clock \in 1..MaxClock /\ made \in Nat
    /\ user.secret \in 0..made /\ user.last \in 0..MaxClock + 1
    /\ pending \in [Sessions -> [secret: 0..made, until: Nat]]
    /\ recovery \subseteq RecoveryCodes /\ used \subseteq SecretCodes \cup RecoveryCodes

(* A code of the secret was new for what the request has read.             *)
AskedCode(r) ==
    /\ r.code \in SecretCodes \cup RecoveryCodes
    /\ r.code \in SecretCodes => r.code[1] = r.read.secret /\ r.code[2] > r.read.last

CodesAsked ==
    \A t \in Tabs : request[t].kind \in {"second", "disable"} => AskedCode(request[t])

(* A secret that waits for its first code is nowhere else.                 *)
Offered == {s \in Sessions : pending[s].until # 0}
OfferedIsUnused ==
    \A s \in Offered :
        /\ pending[s].secret \notin {0, user.secret}
        /\ \A x \in Offered : pending[x].secret = pending[s].secret => x = s
        /\ \A code \in used : code[1] # pending[s].secret
        /\ \A t \in Tabs : request[t].kind \in {"second", "disable"} =>
              request[t].code[1] # pending[s].secret

UsedUpToLast ==
    clash = {} => \A code \in used : code[1] = user.secret => code[2] <= user.last

CInv ==
    /\ Numbered /\ CodesAsked /\ OfferedIsUnused /\ recovery \cap used = {} /\ UsedUpToLast
    /\ EachCodeCountsOnce

codeVars == <<made, pending, recovery, used, twice, clash>>

(* The two kinds of codes are told apart by their number.                  *)
LEMMA KindsOfCodes ==
    ASSUME made \in Nat
    PROVE  /\ \A code \in SecretCodes : /\ code[1] \in 1..made /\ code[2] \in 1..MaxClock + 1
                                        /\ code = <<code[1], code[2]>> /\ ~IsRecovery(code)
           /\ \A code \in RecoveryCodes : /\ -code[1] \in 1..made /\ code[2] \in Codes
                                          /\ code = <<code[1], code[2]>> /\ IsRecovery(code)
           /\ NewCodes(made + 1) \cap (SecretCodes \cup RecoveryCodes) = {}
  <1>1. \A code \in RecoveryCodes : \E n \in 1..made, c \in Codes : code = <<-n, c>>
    BY DEF RecoveryCodes
  <1>2. \A code \in NewCodes(made + 1) : code[1] = -(made + 1)
    BY DEF NewCodes
  <1> QED
    BY <1>1, <1>2, SignInAssumption DEF SecretCodes, IsRecovery

(* What the check of the second factor accepts.                            *)
LEMMA AcceptedCodes ==
    ASSUME Numbered, NEW code \in SecondFactors
    PROVE  /\ AskedCode([kind |-> "second", read |-> user, code |-> code])
           /\ code[1] = user.secret \/ code \in recovery
           /\ user.secret # 0
  <1>1. CASE code \in recovery
    BY <1>1, KindsOfCodes DEF Numbered, AskedCode, SecondFactors
  <1>2. CASE code \in Verified(user.secret, user.last)
    <2>1. PICK m \in clock - 1..clock + 1 : m > user.last /\ code = <<user.secret, m>>
      BY <1>2 DEF Verified
    <2>2. user.secret \in 1..made /\ m \in 1..MaxClock + 1
      BY <2>1, SignInAssumption DEF Numbered, SecondFactors
    <2> QED
      BY <2>1, <2>2 DEF AskedCode, SecretCodes
  <1> QED
    BY <1>1, <1>2 DEF SecondFactors

(* Requests that name no code, or one that has just been accepted, are     *)
(* added to those under way, and others end.                               *)
LEMMA RestOfCodes ==
    ASSUME CInv, UNCHANGED codeVars, UNCHANGED <<user.secret, user.last>>, clock' \in 1..MaxClock,
           \A t \in Tabs : \/ request'[t] = request[t]
                           \/ request'[t].kind \notin {"second", "disable"}
                           \/ /\ AskedCode(request'[t])
                              /\ \A s \in Offered : request'[t].code[1] # pending[s].secret
    PROVE  CInv'
  <1>1. Numbered' /\ SecretCodes' = SecretCodes /\ RecoveryCodes' = RecoveryCodes /\ Offered' = Offered
    BY DEF CInv, Numbered, codeVars, SecretCodes, RecoveryCodes, Offered
  <1>2. CodesAsked'
    BY <1>1 DEF CInv, CodesAsked, AskedCode
  <1>3. OfferedIsUnused'
    BY <1>1 DEF CInv, OfferedIsUnused, codeVars
  <1> QED
    BY <1>1, <1>2, <1>3 DEF CInv, UsedUpToLast, EachCodeCountsOnce, codeVars

(* A code that was accepted is used in the time step, or the set, that it  *)
(* was accepted in, or two requests overlap.                               *)
LEMMA SpentOnce ==
    ASSUME CInv, NEW t \in Tabs, request[t].kind \in {"second", "disable"},
           NEW overlaps, overlaps <=> IF IsRecovery(request[t].code) THEN request[t].code \notin recovery
                                      ELSE request[t].read # user,
           Uses(request[t].code, overlaps)
    PROVE  /\ EachCodeCountsOnce'
           /\ used' = used \cup {request[t].code}
           /\ used' \subseteq SecretCodes \cup RecoveryCodes
           /\ clash' = {} => clash = {} /\ ~overlaps
  <1> DEFINE code == request[t].code
  <1>1. AskedCode(request[t])
    BY DEF CInv, CodesAsked
  <1>2. ASSUME clash = {}, ~overlaps PROVE code \notin used
    <2>1. CASE IsRecovery(code)
      BY <1>2, <2>1 DEF CInv
    <2>2. CASE ~IsRecovery(code)
      <3>1. code \in SecretCodes
        BY <1>1, <2>2, KindsOfCodes DEF AskedCode, CInv, Numbered
      <3>2. code[1] = user.secret /\ code[2] > user.last
        BY <1>1, <1>2, <2>2, <3>1 DEF AskedCode
      <3>3. code[2] \in Int /\ user.last \in Int
        BY <3>1, KindsOfCodes, SignInAssumption DEF CInv, Numbered
      <3> QED
        BY <1>2, <3>2, <3>3 DEF CInv, UsedUpToLast
    <2> QED
      BY <2>1, <2>2
  <1>3. clash' = {} => clash = {} /\ ~overlaps
    BY DEF Uses
  <1>4. ASSUME clash' = {} PROVE EachCodeCountsOnce'
    BY <1>2, <1>3, <1>4 DEF Uses, CInv, EachCodeCountsOnce
  <1>5. ASSUME clash' # {} PROVE EachCodeCountsOnce'
    BY <1>5 DEF EachCodeCountsOnce
  <1> QED
    BY <1>1, <1>3, <1>4, <1>5 DEF Uses, CInv, Numbered, AskedCode

(* Answering ends one request.                                             *)
LEMMA AnsweredRequest ==
    ASSUME IInv, NEW t \in Tabs, Answered(t)
    PROVE  \A x \in Tabs : request'[x] = request[x] \/ request'[x].kind = "idle"
  BY DEF IInv, Answered, Idle

LEMMA OpensRequest ==
    ASSUME IInv, NEW t \in Tabs, NEW method, Opens(t, method)
    PROVE  \A x \in Tabs : request'[x] = request[x] \/ request'[x].kind \in {"idle", "opening"}
  BY AnsweredRequest DEF IInv, Opens

(* Asking for the second factor, here or there.                            *)
LEMMA AskStep ==
    ASSUME IInv, CInv, NEW t \in Tabs, NEW code \in SecondFactors,
           StartSecond(t, code) \/ StartDisable(t, code)
    PROVE  CInv'
  <1>1. PICK kind \in {"second", "disable"} :
            request' = [request EXCEPT ![t] = [kind |-> kind, read |-> user, code |-> code]]
    BY DEF StartSecond, StartDisable, Asks
  <1>2. UNCHANGED codeVars /\ UNCHANGED <<user, clock>>
    BY DEF StartSecond, StartDisable, Asks, Op, codeVars, dataVars, redisVars, historyVars
  <1>3. AskedCode([kind |-> kind, read |-> user, code |-> code])
    BY AcceptedCodes DEF CInv, AskedCode
  <1>4. \A s \in Offered : code[1] # pending[s].secret
    <2>1. SUFFICES ASSUME NEW s \in Offered PROVE code[1] # pending[s].secret
      OBVIOUS
    <2>2. CASE code[1] = user.secret
      BY <2>2 DEF CInv, OfferedIsUnused
    <2>3. CASE code \in recovery
      BY <2>3, KindsOfCodes DEF CInv, Numbered, Offered
    <2> QED
      BY <2>2, <2>3, AcceptedCodes DEF CInv
  <1>5. \A x \in Tabs : \/ request'[x] = request[x]
                        \/ /\ AskedCode(request'[x])
                           /\ \A s \in Offered : request'[x].code[1] # pending[s].secret
    BY <1>1, <1>3, <1>4 DEF IInv
  <1> QED
    BY <1>2, <1>5, RestOfCodes DEF CInv, Numbered

(* A code is spent: nothing is offered by that, and nothing made.          *)
LEMMA SpendStep ==
    ASSUME IInv, CInv, NEW t \in Tabs, CommitSecond(t) \/ CommitDisable(t)
    PROVE  CInv'
  <1> DEFINE code == request[t].code
             overlaps == IF IsRecovery(code) THEN code \notin recovery ELSE request[t].read # user
  <1>1. request[t].kind \in {"second", "disable"}
    BY DEF CommitSecond, CommitDisable
  <1>2. Uses(code, overlaps)
    BY DEF CommitSecond, CommitDisable, Spend
  <1>3. /\ EachCodeCountsOnce' /\ used' = used \cup {code}
        /\ used' \subseteq SecretCodes \cup RecoveryCodes
        /\ clash' = {} => clash = {} /\ ~overlaps
    BY <1>1, <1>2, SpentOnce
  <1>4. UNCHANGED <<made, pending, clock>>
    BY DEF CommitSecond, CommitDisable, Later, redisVars
  <1>5. \A x \in Tabs : request'[x] = request[x] \/ request'[x].kind \in {"idle", "opening"}
    BY AnsweredRequest, OpensRequest DEF CommitSecond, CommitDisable
  <1>6. AskedCode(request[t]) /\ (~IsRecovery(code) => code \in SecretCodes)
    BY <1>1, KindsOfCodes DEF CInv, CodesAsked, AskedCode, Numbered
  <1>7. /\ recovery' \subseteq recovery /\ recovery' \cap used' = {}
        /\ user'.secret \in {0, user.secret} /\ user'.last \in 0..MaxClock + 1
    <2>1. CASE CommitSecond(t) /\ IsRecovery(code)
      BY <1>3, <2>1 DEF CommitSecond, Spend, CInv, Numbered
    <2>2. CASE CommitSecond(t) /\ ~IsRecovery(code)
      <3>1. code[2] \in 0..MaxClock + 1 /\ code \notin recovery
        BY <1>6, <2>2, KindsOfCodes, SignInAssumption DEF CInv, Numbered
      <3>2. user' = [user EXCEPT !.last = code[2]] /\ recovery' = recovery
        BY <2>2 DEF CommitSecond, Spend
      <3> QED
        BY <1>3, <3>1, <3>2 DEF CInv, IInv
    <2>3. CASE CommitDisable(t)
      BY <2>3, SignInAssumption DEF CommitDisable, Disabled, IInv, UserRow
    <2> QED
      BY <2>1, <2>2, <2>3
  <1>8. Numbered' /\ SecretCodes' = SecretCodes /\ RecoveryCodes' = RecoveryCodes /\ Offered' = Offered
    <2>1. SecretCodes' = SecretCodes /\ RecoveryCodes' = RecoveryCodes /\ Offered' = Offered
      BY <1>4 DEF SecretCodes, RecoveryCodes, Offered
    <2> QED
      BY <1>3, <1>4, <1>7, <2>1 DEF CInv, Numbered
  <1>9. CodesAsked'
    BY <1>5, <1>8 DEF CInv, CodesAsked, AskedCode
  <1>10. OfferedIsUnused'
    <2>1. \A s \in Offered : code[1] # pending[s].secret
      BY <1>1 DEF CInv, OfferedIsUnused
    <2> QED
      BY <1>3, <1>4, <1>5, <1>7, <1>8, <2>1 DEF CInv, OfferedIsUnused
  <1>11. UsedUpToLast'
    <2> SUFFICES ASSUME clash' = {}, NEW x \in used', x[1] = user'.secret PROVE x[2] <= user'.last
      BY DEF UsedUpToLast
    <2>1. clash = {} /\ ~overlaps
      BY <1>3
    <2>2. x[1] # 0
      BY <1>3, KindsOfCodes DEF CInv, Numbered
    <2>3. CommitSecond(t)
      BY <2>2 DEF CommitDisable, Disabled, IInv, UserRow
    <2>4. CASE IsRecovery(code)
      <3>1. UNCHANGED user
        BY <2>3, <2>4 DEF CommitSecond, Spend
      <3>2. code[1] # user.secret
        BY <2>4 DEF IsRecovery, CInv, Numbered
      <3> QED
        BY <1>3, <2>1, <3>1, <3>2 DEF CInv, UsedUpToLast
    <2>5. CASE ~IsRecovery(code)
      <3>1. user'.last = code[2] /\ user'.secret = user.secret
        BY <2>3, <2>5 DEF CommitSecond, Spend, IInv, UserRow
      <3>2. code[2] > user.last
        BY <1>6, <2>1, <2>5 DEF AskedCode
      <3>3. CASE x = code
        BY <1>6, <2>5, <3>1, <3>3, KindsOfCodes DEF CInv, Numbered
      <3>4. CASE x \in used
        <4>1. x[2] <= user.last
          BY <2>1, <3>1, <3>4 DEF CInv, UsedUpToLast
        <4>2. x \in SecretCodes
          BY <3>1, <3>4, KindsOfCodes DEF CInv, Numbered
        <4>3. x[2] \in Int /\ user.last \in Int /\ code[2] \in Int
          BY <1>6, <2>5, <4>2, KindsOfCodes, SignInAssumption DEF CInv, Numbered
        <4> QED
          BY <3>1, <3>2, <4>1, <4>3
      <3> QED
        BY <1>3, <3>3, <3>4
    <2> QED
      BY <2>4, <2>5
  <1> QED
    BY <1>3, <1>7, <1>8, <1>9, <1>10, <1>11 DEF CInv

(* Second authentication is ended on the server: no code is left of it.    *)
LEMMA DisableStep ==
    ASSUME IInv, CInv, DisableOnServer
    PROVE  CInv'
  <1>1. /\ UNCHANGED <<made, pending, clock, request, used, twice, clash>> /\ recovery' = {}
        /\ user'.secret = 0 /\ user'.last = 0
    BY DEF DisableOnServer, Disabled, Op, redisVars, historyVars, IInv, UserRow
  <1>2. SecretCodes' = SecretCodes /\ RecoveryCodes' = RecoveryCodes /\ Offered' = Offered
    BY <1>1 DEF SecretCodes, RecoveryCodes, Offered
  <1>3. Numbered'
    BY <1>1, <1>2, SignInAssumption DEF CInv, Numbered
  <1>4. CodesAsked' /\ OfferedIsUnused'
    BY <1>1, <1>2 DEF CInv, CodesAsked, AskedCode, OfferedIsUnused
  <1>5. UsedUpToLast'
    BY <1>1, KindsOfCodes DEF UsedUpToLast, CInv, Numbered
  <1> QED
    BY <1>1, <1>3, <1>4, <1>5 DEF CInv, EachCodeCountsOnce

(* With one more number all codes keep theirs.                             *)
LEMMA MoreNumbers ==
    ASSUME made \in Nat, made' = made + 1
    PROVE  SecretCodes \subseteq SecretCodes' /\ RecoveryCodes \subseteq RecoveryCodes'
           /\ NewCodes(made + 1) \subseteq RecoveryCodes'
  BY DEF SecretCodes, RecoveryCodes, NewCodes

(* What was asked for stays what it was.                                   *)
LEMMA AskedStays ==
    ASSUME CInv, made' = made + 1,
           \A t \in Tabs : request'[t] = request[t] \/ request'[t].kind = "idle"
    PROVE  CodesAsked'
  <1> SUFFICES ASSUME NEW t \in Tabs, request'[t].kind \in {"second", "disable"}
               PROVE  AskedCode(request[t])'
    BY DEF CodesAsked
  <1>1. request'[t] = request[t] /\ AskedCode(request[t])
    BY DEF CInv, CodesAsked
  <1>2. request[t].code \in SecretCodes' => request[t].code \in SecretCodes
    BY <1>1, KindsOfCodes DEF AskedCode, CInv, Numbered, SecretCodes
  <1> QED
    BY <1>1, <1>2, MoreNumbers DEF AskedCode, CInv, Numbered

(* A new secret waits for its first code.                                  *)
LEMMA SetupStep ==
    ASSUME IInv, CInv, NEW t \in Tabs, TotpSetup(t)
    PROVE  CInv'
  <1>1. PICK s \in Sessions :
            pending' = [pending EXCEPT ![s] = [secret |-> made + 1, until |-> clock + ShortTime]]
    BY DEF TotpSetup, Signed, Own, Former
  <1>2. /\ made' = made + 1
        /\ UNCHANGED <<user, recovery, clock, request, used, twice, clash>>
    BY DEF TotpSetup, Op, dataVars, historyVars
  <1>3. Numbered'
    BY <1>1, <1>2, MoreNumbers, SignInAssumption DEF CInv, Numbered
  <1>4. CodesAsked'
    BY <1>2, AskedStays
  <1>5. OfferedIsUnused'
    <2>1. /\ pending'[s].secret = made + 1
          /\ \A x \in Sessions \ {s} : pending'[x] = pending[x]
          /\ Offered' \subseteq Offered \cup {s}
      BY <1>1 DEF CInv, Numbered, Offered
    <2>2. \A x \in Offered : pending[x].secret # made + 1
      BY DEF CInv, Numbered, Offered
    <2>3. \A code \in SecretCodes \cup RecoveryCodes : code[1] # made + 1
      BY KindsOfCodes DEF CInv, Numbered
    <2>4. \A x \in Tabs : request[x].kind \in {"second", "disable"} => request[x].code[1] # made + 1
      BY <2>3 DEF CInv, CodesAsked, AskedCode
    <2>5. /\ made + 1 \notin {0, user.secret}
          /\ \A code \in used : code[1] # made + 1
      BY <2>3 DEF CInv, Numbered
    <2> SUFFICES ASSUME NEW x \in Offered'
                 PROVE  /\ pending'[x].secret \notin {0, user.secret}
                        /\ \A y \in Offered' : pending'[y].secret = pending'[x].secret => y = x
                        /\ \A code \in used : code[1] # pending'[x].secret
                        /\ \A y \in Tabs : request[y].kind \in {"second", "disable"} =>
                              request[y].code[1] # pending'[x].secret
      BY <1>2 DEF OfferedIsUnused
    <2>6. CASE x = s
      BY <2>1, <2>2, <2>4, <2>5, <2>6 DEF Offered
    <2>7. CASE x # s
      <3>1. x \in Offered /\ pending'[x] = pending[x]
        BY <2>1, <2>7 DEF Offered
      <3>2. ASSUME NEW y \in Offered', pending'[y].secret = pending'[x].secret PROVE y = x
        BY <2>1, <2>2, <3>1, <3>2 DEF CInv, OfferedIsUnused, Offered
      <3> QED
        BY <3>1, <3>2 DEF CInv, OfferedIsUnused
    <2> QED
      BY <2>6, <2>7
  <1> QED
    BY <1>2, <1>3, <1>4, <1>5 DEF CInv, UsedUpToLast, EachCodeCountsOnce

(* Its first code is the only one of it that was used.                     *)
LEMMA ConfirmStep ==
    ASSUME IInv, CInv, NEW t \in Tabs, NEW code, TotpConfirm(t, code)
    PROVE  CInv'
  <1>1. PICK s \in Sessions : /\ pending[s].until > clock
                              /\ code \in Verified(pending[s].secret, 0)
                              /\ pending' = [pending EXCEPT ![s].until = 0]
    BY DEF TotpConfirm, Signed, Own, Former
  <1>2. /\ made' = made + 1 /\ recovery' = NewCodes(made + 1)
        /\ user'.secret = code[1] /\ user'.last = code[2]
        /\ UNCHANGED <<clock, request>> /\ Uses(code, FALSE)
    BY DEF TotpConfirm, Op, IInv, UserRow
  <1>3. s \in Offered
    BY <1>1 DEF Offered, CInv, Numbered
  <1>4. code[1] = pending[s].secret /\ code \in SecretCodes
    <2>1. PICK m \in clock - 1..clock + 1 : m > 0 /\ code = <<pending[s].secret, m>>
      BY <1>1 DEF Verified
    <2>2. pending[s].secret \in 1..made /\ m \in 1..MaxClock + 1
      BY <1>3, <2>1, SignInAssumption DEF CInv, Numbered, OfferedIsUnused
    <2> QED
      BY <2>1, <2>2 DEF SecretCodes
  <1>5. used' = used \cup {code} /\ twice' = twice /\ clash' = clash /\ code \notin used
    BY <1>2, <1>3, <1>4 DEF Uses, CInv, OfferedIsUnused
  <1>6. /\ Offered' = Offered \ {s} /\ \A x \in Sessions : pending'[x].secret = pending[x].secret
        /\ pending' \in [Sessions -> [secret: 0..made + 1, until: Nat]]
    BY <1>1 DEF CInv, Numbered, Offered
  <1>7. Numbered'
    <2>1. code[1] \in 0..made + 1 /\ code[2] \in 0..MaxClock + 1
      BY <1>4, KindsOfCodes, SignInAssumption DEF CInv, Numbered
    <2> QED
      BY <1>2, <1>4, <1>5, <1>6, <2>1, MoreNumbers DEF CInv, Numbered
  <1>8. CodesAsked'
    BY <1>2, AskedStays
  <1>9. OfferedIsUnused'
    BY <1>2, <1>3, <1>4, <1>5, <1>6 DEF CInv, OfferedIsUnused, Offered
  <1>10. recovery' \cap used' = {}
    BY <1>2, <1>4, <1>5, KindsOfCodes DEF CInv, Numbered
  <1>11. UsedUpToLast'
    <2>1. \A x \in used' : x[1] = code[1] => x = code
      BY <1>3, <1>4, <1>5 DEF CInv, OfferedIsUnused
    <2>2. code[2] <= code[2]
      BY <1>4, KindsOfCodes, SignInAssumption DEF CInv, Numbered
    <2> QED
      BY <1>2, <2>1, <2>2 DEF UsedUpToLast
  <1> QED
    BY <1>5, <1>7, <1>8, <1>9, <1>10, <1>11 DEF CInv, EachCodeCountsOnce

(* New recovery codes are ones that nobody has used.                       *)
LEMMA CodesStep ==
    ASSUME IInv, CInv, NEW t \in Tabs, CommitCodes(t)
    PROVE  CInv'
  <1>1. /\ made' = made + 1 /\ recovery' = NewCodes(made + 1)
        /\ UNCHANGED <<user, pending, clock, used, twice, clash>>
    BY DEF CommitCodes, Later, redisVars, historyVars
  <1>2. \A x \in Tabs : request'[x] = request[x] \/ request'[x].kind = "idle"
    BY AnsweredRequest DEF CommitCodes
  <1>3. Numbered'
    BY <1>1, MoreNumbers DEF CInv, Numbered
  <1>4. CodesAsked'
    BY <1>1, <1>2, AskedStays
  <1>5. OfferedIsUnused'
    BY <1>1, <1>2 DEF CInv, OfferedIsUnused, Offered
  <1>6. recovery' \cap used' = {}
    BY <1>1, KindsOfCodes DEF CInv, Numbered
  <1> QED
    BY <1>1, <1>3, <1>4, <1>5, <1>6 DEF CInv, UsedUpToLast, EachCodeCountsOnce

(* A passkey takes a number.                                               *)
LEMMA RegisterStep ==
    ASSUME IInv, CInv, NEW t \in Tabs, NEW k, RegisterVerify(t, k)
    PROVE  CInv'
  <1>1. made' = made + 1 /\ UNCHANGED <<user, recovery, pending, clock, request, used, twice, clash>>
    BY DEF RegisterVerify, Op, historyVars
  <1>2. Numbered'
    BY <1>1, MoreNumbers DEF CInv, Numbered
  <1>3. CodesAsked'
    BY <1>1, AskedStays
  <1>4. OfferedIsUnused'
    BY <1>1 DEF CInv, OfferedIsUnused, Offered
  <1> QED
    BY <1>1, <1>2, <1>3, <1>4 DEF CInv, UsedUpToLast, EachCodeCountsOnce

(* What else a request does leaves the codes alone.                        *)
LEMMA QuietCodes ==
    ASSUME IInv, CInv,
           \/ Tick \/ Refused \/ CrashAfterIncr \/ ResetPassword \/ UNCHANGED vars
           \/ \E t \in Tabs :
                 \/ Touch(t) \/ Logout(t) \/ LogoutAll(t) \/ \E s \in Sessions : EndSession(t, s)
                 \/ StartLogin(t) \/ CommitLogin(t) \/ StartPassword(t) \/ CommitPassword(t)
                 \/ StartCodes(t) \/ RegisterOptions(t)
                 \/ \E p \in passkeys : DeletePasskey(t, p) \/ StartPasskey(t, p)
                 \/ CommitPasskey(t) \/ OpenSession(t) \/ Abort(t)
    PROVE  CInv'
  <1>1. UNCHANGED codeVars
    BY DEF codeVars, dataVars, redisVars, historyVars, vars, Tick, Refused, CrashAfterIncr,
           ResetPassword, Touch, Logout, LogoutAll, EndSession, EndSessions, StartLogin, CommitLogin,
           StartPassword, CommitPassword, StartCodes, RegisterOptions, DeletePasskey,
           StartPasskey, CommitPasskey, OpenSession, Abort, Asks
  <1>2. UNCHANGED <<user.secret, user.last>>
    BY DEF IInv, UserRow, Rehashed, NewPassword, dataVars, vars, Tick, Refused, CrashAfterIncr,
           ResetPassword, Touch, Logout, LogoutAll, EndSession, EndSessions, StartLogin, CommitLogin,
           StartPassword, CommitPassword, StartCodes, RegisterOptions, DeletePasskey,
           StartPasskey, CommitPasskey, OpenSession, Abort, Asks
  <1>3. clock' \in 1..MaxClock
    <2>1. CASE Tick
      BY <2>1, SignInAssumption DEF Tick, CInv, Numbered
    <2>2. CASE UNCHANGED clock
      BY <2>2 DEF CInv, Numbered
    <2> QED
      BY <2>1, <2>2 DEF vars, Refused, CrashAfterIncr,
           ResetPassword, Touch, Logout, LogoutAll, EndSession, EndSessions, StartLogin, CommitLogin,
           StartPassword, CommitPassword, StartCodes, RegisterOptions, DeletePasskey,
           StartPasskey, CommitPasskey, OpenSession, Abort, Asks, Op, Later
  <1>4. \A x \in Tabs : request'[x] = request[x] \/ request'[x].kind \notin {"second", "disable"}
    <2>1. CASE UNCHANGED request
      BY <2>1
    <2>2. CASE \E t \in Tabs : Answered(t) \/ \E method : Opens(t, method)
      BY <2>2, AnsweredRequest, OpensRequest
    <2>3. CASE \E t \in Tabs : \/ StartLogin(t) \/ StartPassword(t) \/ StartCodes(t)
                               \/ \E p \in passkeys : StartPasskey(t, p)
      <3>1. PICK t \in Tabs : \/ StartLogin(t) \/ StartPassword(t) \/ StartCodes(t)
                              \/ \E p \in passkeys : StartPasskey(t, p)
        BY <2>3
      <3>2. ASSUME NEW r, Asks(t, r), r.kind \notin {"second", "disable"}
            PROVE  \A x \in Tabs : request'[x] = request[x]
                                   \/ request'[x].kind \notin {"second", "disable"}
        BY <3>2 DEF Asks, IInv
      <3>3. CASE StartLogin(t)
        BY <3>2, <3>3 DEF StartLogin
      <3>4. CASE StartPassword(t)
        BY <3>2, <3>4 DEF StartPassword
      <3>5. CASE StartCodes(t)
        BY <3>2, <3>5 DEF StartCodes
      <3>6. ASSUME NEW p \in passkeys, StartPasskey(t, p)
            PROVE  \A x \in Tabs : request'[x] = request[x]
                                   \/ request'[x].kind \notin {"second", "disable"}
        BY <3>2, <3>6 DEF StartPasskey
      <3> QED
        BY <3>1, <3>3, <3>4, <3>5, <3>6
    <2> QED
      BY <2>1, <2>2, <2>3 DEF vars, dataVars, Tick, Refused, CrashAfterIncr,
           ResetPassword, Touch, Logout, LogoutAll, EndSession, EndSessions, CommitLogin,
           CommitPassword, RegisterOptions, DeletePasskey, CommitPasskey, OpenSession, Abort
  <1> QED
    BY <1>1, <1>2, <1>3, <1>4, RestOfCodes

LEMMA StepCInv == IInv /\ CInv /\ [Next]_vars => CInv'
  <1> SUFFICES ASSUME IInv, CInv, [Next]_vars PROVE CInv'
    OBVIOUS
  <1>1. CASE Tick \/ Refused \/ CrashAfterIncr \/ ResetPassword \/ UNCHANGED vars
    BY <1>1, QuietCodes
  <1>2. CASE DisableOnServer
    BY <1>2, DisableStep
  <1>3. ASSUME NEW t \in Tabs, TabNext(t) PROVE CInv'
    <2>1. CASE \E code \in SecondFactors : StartSecond(t, code) \/ StartDisable(t, code)
      BY <2>1, AskStep
    <2>2. CASE CommitSecond(t) \/ CommitDisable(t)
      BY <2>2, SpendStep
    <2>3. CASE TotpSetup(t)
      BY <2>3, SetupStep
    <2>4. CASE \E s \in Signed(t) : \E code \in Verified(pending[s].secret, 0) : TotpConfirm(t, code)
      BY <2>4, ConfirmStep
    <2>5. CASE CommitCodes(t)
      BY <2>5, CodesStep
    <2>6. CASE \/ Touch(t) \/ Logout(t) \/ LogoutAll(t) \/ \E s \in Sessions : EndSession(t, s)
               \/ StartLogin(t) \/ CommitLogin(t) \/ StartPassword(t) \/ CommitPassword(t)
               \/ StartCodes(t) \/ RegisterOptions(t)
               \/ \E p \in passkeys : DeletePasskey(t, p) \/ StartPasskey(t, p)
               \/ CommitPasskey(t) \/ OpenSession(t) \/ Abort(t)
      BY <2>6, QuietCodes
    <2>7. CASE \E k \in Keys : RegisterVerify(t, k)
      BY <2>7, RegisterStep
    <2> QED
      BY <1>3, <2>1, <2>2, <2>3, <2>4, <2>5, <2>6, <2>7 DEF TabNext
  <1> QED
    BY <1>1, <1>2, <1>3 DEF Next

LEMMA InitCInv == Init => CInv
  BY SignInAssumption
  DEF Init, CInv, Numbered, CodesAsked, OfferedIsUnused, Offered, UsedUpToLast, EachCodeCountsOnce, Idle

(* No code is accepted twice, at whichever of the three places it is asked *)
(* for, unless two requests that overlap use the second factor.            *)
THEOREM CodesCountOnce == Spec => []EachCodeCountsOnce
  <1>1. CInv => EachCodeCountsOnce
    BY DEF CInv
  <1> QED
    BY <1>1, InitCInv, StepCInv, InitIInv, StepIInv, PTL DEF Spec

-----------------------------------------------------------------------------
(***************************************************************************)
(* The shape of the variables.                                             *)
(***************************************************************************)
SessionTimes ==
    \A s \in Sessions : sessions[s].created <= sessions[s].seen /\ sessions[s].seen <= clock

RedisHasSession ==
    /\ challenge \in [Sessions -> Nat]
    /\ \A s \in Sessions : pending[s].until # 0 \/ challenge[s] # 0 => s \in Begun

CookiesHaveSession ==
    cookie \in [Tabs -> Nat] /\ \A t \in Tabs : cookie[t] = 0 \/ cookie[t] \in Begun

OneSetOfCodes == recovery = {} \/ \E n \in 1..made : recovery \subseteq NewCodes(n)

WithinBounds ==
    /\ user.password \in Nat /\ user.hash \in Nat /\ user.outdated \in BOOLEAN
    /\ \A t \in Tabs : request[t].kind = "login" => request[t].read.hash \in Nat
    /\ passkeys \subseteq Keys \X (1..made) /\ ops \in 0..MaxOps /\ faults \in 0..MaxFaults

TInv ==
    /\ SessionTimes /\ RedisHasSession /\ CookiesHaveSession /\ OneSetOfCodes /\ WithinBounds

(* A set of recovery codes is no larger than the set of its numbers.       *)
LEMMA FewCodes ==
    ASSUME NEW n, NEW S \in SUBSET NewCodes(n)
    PROVE  Cardinality(S) <= Cardinality(Codes)
  <1> DEFINE number == [code \in S |-> code[2]]
  <1>1. IsFiniteSet(Codes)
    BY SignInAssumption
  <1>2. number \in Injection(S, Codes)
    <2>1. \A code \in S : \E c \in Codes : code = <<-n, c>>
      BY DEF NewCodes
    <2>2. \A code \in S : number[code] \in Codes /\ code = <<-n, number[code]>>
      BY <2>1
    <2>3. number \in [S -> Codes]
      BY <2>2
    <2>4. \A x, y \in S : number[x] = number[y] => x = y
      BY <2>2
    <2> HIDE DEF number
    <2> QED
      BY <2>3, <2>4 DEF Injection, IsInjective
  <1> QED
    BY <1>1, <1>2, FS_Injection

(* A session begins in a browser, and others end with it.                  *)
Begins(t, s, S, method) ==
    /\ sessions' = [Revoked(S, sessions) EXCEPT ![s] = NewSession(method)]
    /\ cookie' = [cookie EXCEPT ![t] = s]

(* The ways in which sessions change: not at all, by being used, by being  *)
(* revoked, and by one that begins in a browser.                           *)
LEMMA HowSessionsChange ==
    ASSUME IInv, [Next]_vars
    PROVE  \/ UNCHANGED <<sessions, cookie>>
           \/ UNCHANGED cookie /\ \E S : sessions' = Revoked(S, sessions)
           \/ /\ UNCHANGED <<cookie, clock>>
              /\ \E s \in Sessions : sessions' = [sessions EXCEPT ![s].seen = clock]
           \/ /\ UNCHANGED clock
              /\ \E t \in Tabs, s \in Fresh, method \in Methods \ {"none"} :
                    \E S \in SUBSET Sessions : Begins(t, s, S, method)
  <1>6. ASSUME NEW t \in Tabs, Touched(t)
        PROVE  \E s \in Sessions : sessions' = [sessions EXCEPT ![s].seen = clock]
    BY <1>6 DEF Touched, Stale, Own, Former
  <1>1. CASE \E t \in Tabs : Touch(t)
    BY <1>1, <1>6 DEF Touch, Later
  <1>2. ASSUME NEW t \in Tabs,
               CommitLogin(t) \/ CommitSecond(t) \/ CommitPasskey(t) \/ OpenSession(t)
        PROVE  /\ UNCHANGED clock
               /\ \/ UNCHANGED <<sessions, cookie>>
                  \/ UNCHANGED cookie /\ Touched(t)
                  \/ \E s \in Fresh, method \in Methods \ {"none"} :
                        \E S \in SUBSET Sessions : Begins(t, s, S, method)
    <2>1. Own(t) \in SUBSET Sessions /\ Former(t) \in SUBSET Sessions
      BY DEF Own, Former
    <2>2. \/ UNCHANGED <<sessions, cookie>>
          \/ UNCHANGED cookie /\ Touched(t)
          \/ \E method \in Methods \ {"none"}, S \in SUBSET Sessions : StartSession(t, method, S)
      <3>1. ASSUME NEW method \in Methods \ {"none"}, Opens(t, method)
            PROVE  \/ UNCHANGED cookie /\ Touched(t)
                   \/ \E m \in Methods \ {"none"}, S \in SUBSET Sessions : StartSession(t, m, S)
        BY <2>1, <3>1 DEF Opens
      <3>2. CASE CommitLogin(t)
        <4>1. UNCHANGED <<sessions, cookie>> \/ Opens(t, "password")
          BY <3>2 DEF CommitLogin
        <4>2. "password" \in Methods \ {"none"}
          BY DEF Methods
        <4>3. ASSUME Opens(t, "password")
              PROVE  \/ UNCHANGED cookie /\ Touched(t)
                     \/ \E m \in Methods \ {"none"}, S \in SUBSET Sessions : StartSession(t, m, S)
          BY <3>1, <4>2, <4>3
        <4> QED
          BY <4>1, <4>2, <4>3
      <3>3. CASE CommitSecond(t) \/ CommitPasskey(t)
        BY <3>1, <3>3 DEF CommitSecond, CommitPasskey, Methods
      <3>4. CASE OpenSession(t)
        BY <2>1, <3>4 DEF OpenSession, IInv, OpeningHasMethod
      <3> QED
        BY <1>2, <3>2, <3>3, <3>4
    <2>3. ASSUME NEW method \in Methods \ {"none"}, NEW S \in SUBSET Sessions, StartSession(t, method, S)
          PROVE  \E s \in Fresh : Begins(t, s, S, method)
      BY <2>3 DEF StartSession, Begins
    <2>4. UNCHANGED clock
      BY <1>2 DEF CommitLogin, CommitSecond, CommitPasskey, OpenSession, Later
    <2> QED
      BY <2>2, <2>3, <2>4
  <1>3. ASSUME NEW t \in Tabs, CommitPassword(t)
        PROVE  UNCHANGED clock /\ \E s \in Fresh, method \in Methods \ {"none"} :
                  \E S \in SUBSET Sessions : Begins(t, s, S, method)
    <2> DEFINE method == sessions[request[t].session].method
    <2>1. method \in Methods \ {"none"}
      BY <1>3 DEF CommitPassword, IInv, PasswordHasSession, SessionsTyped, Begun
    <2>2. \E s \in Fresh : Begins(t, s, Sessions, method)
      BY <1>3 DEF CommitPassword, Begins
    <2>3. UNCHANGED clock
      BY <1>3 DEF CommitPassword, Later
    <2> HIDE DEF method
    <2> QED
      BY <2>1, <2>2, <2>3
  <1>4. CASE \/ ResetPassword
             \/ \E t \in Tabs : Logout(t) \/ LogoutAll(t) \/ \E s \in Sessions : EndSession(t, s)
    BY <1>4 DEF ResetPassword, Logout, LogoutAll, EndSession, EndSessions
  <1>5. CASE \/ Tick \/ Refused \/ CrashAfterIncr \/ DisableOnServer \/ UNCHANGED vars
             \/ \E t \in Tabs :
                   \/ StartLogin(t) \/ CommitDisable(t) \/ StartPassword(t) \/ TotpSetup(t)
                   \/ \E code \in SecondFactors : StartSecond(t, code) \/ StartDisable(t, code)
                   \/ \E s \in Signed(t) : \E code \in Verified(pending[s].secret, 0) :
                         TotpConfirm(t, code)
                   \/ StartCodes(t) \/ CommitCodes(t) \/ RegisterOptions(t)
                   \/ \E k \in Keys : RegisterVerify(t, k)
                   \/ \E p \in passkeys : DeletePasskey(t, p) \/ StartPasskey(t, p)
                   \/ Abort(t)
    BY <1>5 DEF Tick, Refused, CrashAfterIncr, DisableOnServer, vars, StartLogin, CommitDisable,
         StartPassword, TotpSetup, StartSecond, StartDisable, TotpConfirm, StartCodes, CommitCodes,
         RegisterOptions, RegisterVerify, DeletePasskey, StartPasskey, Abort, Asks, dataVars
  <1> QED
    BY <1>1, <1>2, <1>3, <1>4, <1>5, <1>6 DEF Next, TabNext

(* Time only goes on.                                                      *)
LEMMA ClockStep ==
    ASSUME IInv, [Next]_vars
    PROVE  clock' \in Nat /\ clock <= clock'
  <1>1. clock' = clock \/ clock' = clock + 1
    BY DEF vars, Next, TabNext, Tick, Refused, CrashAfterIncr, ResetPassword, DisableOnServer,
           Touch, Logout, LogoutAll, EndSession, EndSessions, StartLogin, CommitLogin, StartSecond,
           StartDisable, CommitSecond, CommitDisable, StartPassword, CommitPassword, TotpSetup,
           TotpConfirm, StartCodes, CommitCodes, RegisterOptions, RegisterVerify, DeletePasskey,
           StartPasskey, CommitPasskey, OpenSession, Abort, Asks, Op, Later
  <1> QED
    BY <1>1 DEF IInv

(* What has begun stays begun; a session is last seen when it begins, or   *)
(* later.                                                                  *)
LEMMA SessionStep ==
    ASSUME IInv, SessionTimes, CookiesHaveSession, [Next]_vars
    PROVE  Begun \subseteq Begun' /\ SessionTimes' /\ CookiesHaveSession'
  <1> USE SignInAssumption
  <1>1. clock' \in Nat /\ clock <= clock'
    BY ClockStep
  <1>2. CASE UNCHANGED <<sessions, cookie>>
    <2>1. Begun' = Begun
      BY <1>2 DEF Begun
    <2> QED
      BY <1>1, <1>2, <2>1 DEF SessionTimes, CookiesHaveSession, IInv, SessionsTyped
  <1>3. ASSUME UNCHANGED cookie, NEW S, sessions' = Revoked(S, sessions)
        PROVE  Begun \subseteq Begun' /\ SessionTimes' /\ CookiesHaveSession'
    <2>1. \A s \in Sessions : /\ sessions'[s].method = sessions[s].method
                              /\ sessions'[s].created = sessions[s].created
                              /\ sessions'[s].seen = sessions[s].seen
      BY <1>3 DEF Revoked, IInv, SessionsTyped
    <2>2. Begun' = Begun
      BY <2>1 DEF Begun
    <2> QED
      BY <1>1, <1>3, <2>1, <2>2 DEF SessionTimes, CookiesHaveSession, IInv, SessionsTyped
  <1>4. ASSUME UNCHANGED <<cookie, clock>>,
               NEW s \in Sessions, sessions' = [sessions EXCEPT ![s].seen = clock]
        PROVE  Begun \subseteq Begun' /\ SessionTimes' /\ CookiesHaveSession'
    <2>1. \A x \in Sessions : /\ sessions'[x].method = sessions[x].method
                              /\ sessions'[x].created = sessions[x].created
                              /\ sessions'[x].seen = IF x = s THEN clock ELSE sessions[x].seen
      BY <1>4 DEF IInv, SessionsTyped
    <2>2. Begun' = Begun
      BY <2>1 DEF Begun
    <2> QED
      BY <1>4, <2>1, <2>2 DEF SessionTimes, CookiesHaveSession, IInv, SessionsTyped
  <1>5. ASSUME UNCHANGED clock, NEW t \in Tabs, NEW s \in Fresh, NEW S \in SUBSET Sessions,
               NEW method \in Methods \ {"none"}, Begins(t, s, S, method)
        PROVE  Begun \subseteq Begun' /\ SessionTimes' /\ CookiesHaveSession'
    <2>1. /\ s \in Sessions /\ sessions'[s] = NewSession(method)
          /\ \A x \in Sessions \ {s} : /\ sessions'[x].method = sessions[x].method
                                       /\ sessions'[x].created = sessions[x].created
                                       /\ sessions'[x].seen = sessions[x].seen
      BY <1>5 DEF Begins, Revoked, IInv, SessionsTyped, Fresh
    <2>2. Begun \subseteq Begun' /\ s \in Begun'
      <3>1. sessions'[s].method # "none"
        BY <2>1 DEF NewSession
      <3> QED
        BY <2>1, <3>1 DEF Begun
    <2>3. SessionTimes'
      BY <1>5, <2>1 DEF SessionTimes, NewSession, IInv
    <2>4. CookiesHaveSession'
      BY <1>5, <2>1, <2>2 DEF Begins, CookiesHaveSession
    <2> QED
      BY <2>2, <2>3, <2>4
  <1> QED
    BY <1>2, <1>3, <1>4, <1>5, HowSessionsChange

(* What Redis keeps is written by requests of a session.                   *)
LEMMA RedisStep ==
    ASSUME IInv, CInv, RedisHasSession, Begun \subseteq Begun', [Next]_vars
    PROVE  RedisHasSession'
  <1> USE SignInAssumption
  <1>1. \A t \in Tabs : Signed(t) \subseteq Begun
    BY DEF Signed, Own, Former, Valid, IInv, SessionsTyped
  <1>2. CASE UNCHANGED <<pending, challenge>>
    BY <1>2 DEF RedisHasSession
  <1>3. ASSUME NEW t \in Tabs, TotpSetup(t) PROVE RedisHasSession'
    <2>1. PICK s \in Signed(t) :
              pending' = [pending EXCEPT ![s] = [secret |-> made + 1, until |-> clock + ShortTime]]
      BY <1>3 DEF TotpSetup
    <2>2. s \in Begun /\ challenge' = challenge
      BY <1>1, <1>3, <2>1 DEF TotpSetup
    <2> QED
      BY <2>1, <2>2 DEF RedisHasSession, CInv, Numbered
  <1>4. ASSUME NEW t \in Tabs, NEW code, TotpConfirm(t, code) PROVE RedisHasSession'
    BY <1>4 DEF TotpConfirm, RedisHasSession, CInv, Numbered, Signed, Own
  <1>5. ASSUME NEW t \in Tabs, RegisterOptions(t) PROVE RedisHasSession'
    <2>1. PICK s \in Signed(t) : challenge' = [challenge EXCEPT ![s] = clock + ShortTime]
      BY <1>5 DEF RegisterOptions
    <2>2. s \in Begun /\ pending' = pending /\ clock + ShortTime \in Nat
      BY <1>1, <1>5, <2>1 DEF RegisterOptions, IInv
    <2> QED
      BY <2>1, <2>2 DEF RedisHasSession
  <1>6. ASSUME NEW t \in Tabs, NEW k, RegisterVerify(t, k) PROVE RedisHasSession'
    <2>1. PICK s \in Signed(t) : challenge' = [challenge EXCEPT ![s] = 0]
      BY <1>6 DEF RegisterVerify
    <2>2. pending' = pending
      BY <1>6 DEF RegisterVerify
    <2> QED
      BY <2>1, <2>2 DEF RedisHasSession
  <1> QED
    BY <1>2, <1>3, <1>4, <1>5, <1>6 DEF vars, redisVars, Next, TabNext, Tick, Refused, CrashAfterIncr,
       ResetPassword, DisableOnServer, Touch, Logout, LogoutAll, EndSession, EndSessions, StartLogin,
       CommitLogin, StartSecond, StartDisable, CommitSecond, CommitDisable, StartPassword,
       CommitPassword, StartCodes, CommitCodes, DeletePasskey, StartPasskey, CommitPasskey, OpenSession, Abort, Asks

(* The recovery codes are those of the last set, or what is left of them.  *)
LEMMA SetStep ==
    ASSUME CInv, OneSetOfCodes, [Next]_vars
    PROVE  OneSetOfCodes'
  <1>1. /\ made' = made \/ made' = made + 1
        /\ \/ recovery' \subseteq recovery
           \/ recovery' = NewCodes(made + 1) /\ made' = made + 1
    BY DEF vars, dataVars, Next, TabNext, Tick, Refused, CrashAfterIncr, ResetPassword,
       DisableOnServer, Disabled, Spend, Touch, Logout, LogoutAll, EndSession, EndSessions, StartLogin,
       CommitLogin, StartSecond, StartDisable, CommitSecond, CommitDisable, StartPassword,
       CommitPassword, TotpSetup, TotpConfirm, StartCodes, CommitCodes, RegisterOptions, RegisterVerify,
       DeletePasskey, StartPasskey, CommitPasskey, OpenSession, Abort, Asks
  <1>2. made \in Nat
    BY DEF CInv, Numbered
  <1>3. CASE recovery' \subseteq recovery
    BY <1>1, <1>2, <1>3 DEF OneSetOfCodes
  <1>4. CASE recovery' = NewCodes(made + 1) /\ made' = made + 1
    BY <1>2, <1>4 DEF OneSetOfCodes
  <1> QED
    BY <1>1, <1>3, <1>4

(* The bounds.                                                             *)
LEMMA BoundsStep ==
    ASSUME IInv, CInv, WithinBounds, [Next]_vars
    PROVE  WithinBounds'
  <1> USE SignInAssumption
  <1>1. \/ ops' = ops
        \/ ops' = ops + 1 /\ ops < MaxOps
    <2>1. Op \/ Later \/ Tick \/ CrashAfterIncr \/ UNCHANGED vars
      BY DEF Next, TabNext, Refused, ResetPassword, DisableOnServer, Touch,
         Logout, LogoutAll, EndSession, EndSessions, StartLogin, CommitLogin, StartSecond, StartDisable,
         CommitSecond, CommitDisable, StartPassword, CommitPassword, TotpSetup, TotpConfirm, StartCodes,
         CommitCodes, RegisterOptions, RegisterVerify, DeletePasskey, StartPasskey, CommitPasskey,
         OpenSession, Abort, Asks
    <2> QED
      BY <2>1 DEF Op, Later, Tick, CrashAfterIncr, vars
  <1>2. \/ faults' = faults
        \/ faults' = faults + 1 /\ faults < MaxFaults
    BY DEF vars, Next, TabNext, Tick, Refused, CrashAfterIncr, ResetPassword, DisableOnServer, Touch,
       Logout, LogoutAll, EndSession, EndSessions, StartLogin, CommitLogin, StartSecond, StartDisable,
       CommitSecond, CommitDisable, StartPassword, CommitPassword, TotpSetup, TotpConfirm, StartCodes,
       CommitCodes, RegisterOptions, RegisterVerify, DeletePasskey, StartPasskey, CommitPasskey, OpenSession,
       Abort, Asks, Op, Later
  <1>3. /\ made' \in {made, made + 1}
        /\ \/ passkeys' \subseteq passkeys
           \/ made' = made + 1 /\ \E k \in Keys : passkeys' = passkeys \cup {<<k, made + 1>>}
    BY DEF vars, dataVars, Next, TabNext, Tick, Refused, CrashAfterIncr, ResetPassword, DisableOnServer,
       Touch, Logout, LogoutAll, EndSession, EndSessions, StartLogin, CommitLogin, StartSecond,
       StartDisable, CommitSecond, CommitDisable, StartPassword, CommitPassword, TotpSetup, TotpConfirm,
       StartCodes, CommitCodes, RegisterOptions, RegisterVerify, DeletePasskey, StartPasskey,
       CommitPasskey, OpenSession, Abort, Asks
  <1>4. passkeys' \subseteq Keys \X (1..made')
    BY <1>3 DEF WithinBounds, CInv, Numbered
  <1>5. \A t \in Tabs : request'[t].kind = "login" =>
            request'[t] = request[t] \/ request'[t].read = user
    <2> DEFINE Login == \A t \in Tabs : request'[t].kind = "login" =>
                            request'[t] = request[t] \/ request'[t].read = user
    <2>1. ASSUME NEW t \in Tabs, NEW r, request' = [request EXCEPT ![t] = r],
                 r.kind = "login" => r.read = user
          PROVE  Login
      BY <2>1 DEF IInv
    <2>2. ASSUME NEW t \in Tabs, Answered(t) \/ \E method : Opens(t, method) PROVE Login
      <3>1. \A x \in Tabs : request'[x] = request[x] \/ request'[x].kind \in {"idle", "opening"}
        BY <2>2, AnsweredRequest, OpensRequest
      <3> QED
        BY <3>1
    <2>3. ASSUME NEW t \in Tabs,
                 \/ StartLogin(t) \/ StartPassword(t) \/ StartCodes(t)
                 \/ \E code \in SecondFactors : StartSecond(t, code) \/ StartDisable(t, code)
                 \/ \E p \in passkeys : StartPasskey(t, p)
          PROVE  Login
      <3>1. ASSUME NEW r, Asks(t, r), r.kind = "login" => r.read = user PROVE Login
        BY <2>1, <3>1 DEF Asks
      <3> HIDE DEF Login
      <3>2. CASE StartLogin(t)
        BY <3>1, <3>2 DEF StartLogin
      <3>3. CASE StartPassword(t)
        BY <3>1, <3>3 DEF StartPassword
      <3>4. CASE StartCodes(t)
        BY <3>1, <3>4 DEF StartCodes
      <3>5. ASSUME NEW code, StartSecond(t, code) \/ StartDisable(t, code) PROVE Login
        BY <3>1, <3>5 DEF StartSecond, StartDisable
      <3>6. ASSUME NEW p, StartPasskey(t, p) PROVE Login
        BY <3>1, <3>6 DEF StartPasskey
      <3> QED
        BY <2>3, <3>2, <3>3, <3>4, <3>5, <3>6
    <2>4. ASSUME UNCHANGED request PROVE Login
      BY <2>4
    <2> HIDE DEF Login
    <2>5. Login
      <3>1. ASSUME NEW t \in Tabs, TabNext(t)
            PROVE  \/ UNCHANGED request \/ Answered(t) \/ \E method : Opens(t, method)
                   \/ StartLogin(t) \/ StartPassword(t) \/ StartCodes(t)
                   \/ \E code \in SecondFactors : StartSecond(t, code) \/ StartDisable(t, code)
                   \/ \E p \in passkeys : StartPasskey(t, p)
        <4>1. CASE CommitLogin(t) \/ CommitSecond(t) \/ CommitPasskey(t) \/ OpenSession(t)
          BY <4>1 DEF CommitLogin, CommitSecond, CommitPasskey, OpenSession
        <4>2. CASE CommitDisable(t) \/ CommitPassword(t) \/ CommitCodes(t) \/ Abort(t)
          BY <4>2 DEF CommitDisable, CommitPassword, CommitCodes, Abort
        <4>3. CASE \/ Touch(t) \/ Logout(t) \/ LogoutAll(t) \/ \E s \in Sessions : EndSession(t, s)
                   \/ TotpSetup(t) \/ RegisterOptions(t)
                   \/ \E k \in Keys : RegisterVerify(t, k)
                   \/ \E p \in passkeys : DeletePasskey(t, p)
                   \/ \E code : TotpConfirm(t, code)
          BY <4>3 DEF Touch, Logout, LogoutAll, EndSession, EndSessions, TotpSetup, RegisterOptions,
             RegisterVerify, DeletePasskey, TotpConfirm
        <4> QED
          BY <3>1, <4>1, <4>2, <4>3 DEF TabNext
      <3>2. CASE UNCHANGED vars \/ Tick \/ Refused \/ CrashAfterIncr \/ ResetPassword \/ DisableOnServer
        BY <2>4, <3>2 DEF vars, Tick, Refused, CrashAfterIncr, ResetPassword, DisableOnServer
      <3> QED
        BY <2>2, <2>3, <2>4, <3>1, <3>2 DEF Next
    <2> QED
      BY <2>5 DEF Login
  <1>6. /\ user'.password \in Nat /\ user'.hash \in Nat /\ user'.outdated \in BOOLEAN
    <2>1. CASE \E t \in Tabs : CommitLogin(t)
      BY <2>1 DEF CommitLogin, Rehashed, WithinBounds, IInv, UserRow
    <2>2. CASE ResetPassword \/ \E t \in Tabs : CommitPassword(t)
      <3>1. user' = NewPassword
        BY <2>2 DEF ResetPassword, CommitPassword
      <3>2. /\ user'.password = user.password + 1 /\ user'.hash = user.password + 1
            /\ user'.outdated = FALSE
        BY <3>1 DEF NewPassword, IInv, UserRow
      <3>3. user'.outdated \in BOOLEAN
        BY <3>2
      <3> QED
        BY <3>2, <3>3 DEF WithinBounds
    <2>3. CASE UNCHANGED <<user.password, user.hash, user.outdated>>
      BY <2>3 DEF WithinBounds
    <2>4. ASSUME NEW code, NEW read, Spend(code, read)
          PROVE  UNCHANGED <<user.password, user.hash, user.outdated>>
      BY <2>4 DEF Spend, IInv, UserRow
    <2>5. ASSUME Disabled PROVE UNCHANGED <<user.password, user.hash, user.outdated>>
      BY <2>5 DEF Disabled, IInv, UserRow
    <2>6. ASSUME NEW t \in Tabs, TabNext(t)
          PROVE  \/ CommitLogin(t) \/ CommitPassword(t)
                 \/ UNCHANGED <<user.password, user.hash, user.outdated>>
      <3>1. CASE CommitSecond(t) \/ CommitDisable(t)
        BY <2>4, <2>5, <3>1 DEF CommitSecond, CommitDisable
      <3>2. ASSUME NEW code, TotpConfirm(t, code)
            PROVE  UNCHANGED <<user.password, user.hash, user.outdated>>
        BY <3>2 DEF TotpConfirm, IInv, UserRow
      <3>3. CASE \/ Touch(t) \/ Logout(t) \/ LogoutAll(t) \/ \E s \in Sessions : EndSession(t, s)
                 \/ TotpSetup(t) \/ CommitCodes(t) \/ RegisterOptions(t)
                 \/ \E k \in Keys : RegisterVerify(t, k)
                 \/ \E p \in passkeys : DeletePasskey(t, p)
                 \/ CommitPasskey(t) \/ OpenSession(t) \/ Abort(t)
        BY <3>3 DEF Touch, Logout, LogoutAll, EndSession, EndSessions, TotpSetup, CommitCodes,
           RegisterOptions, RegisterVerify, DeletePasskey, CommitPasskey, OpenSession, Abort, dataVars
      <3>4. CASE \/ StartLogin(t) \/ StartPassword(t) \/ StartCodes(t)
                 \/ \E code \in SecondFactors : StartSecond(t, code) \/ StartDisable(t, code)
                 \/ \E p \in passkeys : StartPasskey(t, p)
        BY <3>4 DEF StartLogin, StartPassword, StartCodes, StartSecond, StartDisable, StartPasskey,
           Asks, dataVars
      <3> QED
        BY <2>6, <3>1, <3>2, <3>3, <3>4 DEF TabNext
    <2>7. CASE UNCHANGED vars \/ Tick \/ Refused \/ CrashAfterIncr \/ DisableOnServer
      BY <2>3, <2>5, <2>7 DEF vars, dataVars, Tick, Refused, CrashAfterIncr, DisableOnServer
    <2> QED
      BY <2>1, <2>2, <2>3, <2>6, <2>7 DEF Next
  <1>7. \A t \in Tabs : request'[t].kind = "login" => request'[t].read.hash \in Nat
    BY <1>5 DEF WithinBounds
  <1> QED
    BY <1>1, <1>2, <1>4, <1>6, <1>7 DEF WithinBounds

(* Every variable keeps its shape; what Redis keeps belongs to a session   *)
(* that has begun; and there are never more recovery codes than a set has. *)
THEOREM TypeCorrect == Spec => []TypeOK
  <1>1. Init => TInv
    BY SignInAssumption DEF Init, TInv, SessionTimes, RedisHasSession, CookiesHaveSession,
       OneSetOfCodes, WithinBounds, NoSession, Idle
  <1>2. IInv /\ CInv /\ TInv /\ [Next]_vars => TInv'
    BY SessionStep, RedisStep, SetStep, BoundsStep DEF TInv
  <1>3. IInv /\ CInv /\ TInv => TypeOK
    <2> SUFFICES ASSUME IInv, CInv, TInv PROVE TypeOK
      OBVIOUS
    <2>1. user \in User /\ user.secret <= made /\ user.last <= MaxClock + 1
      BY SignInAssumption DEF IInv, UserRow, User, CInv, Numbered, TInv, WithinBounds
    <2>2. Cardinality(recovery) <= Cardinality(Codes)
      <3>1. \E n \in Int : recovery \subseteq NewCodes(n)
        BY DEF TInv, OneSetOfCodes
      <3> QED
        BY <3>1, FewCodes
    <2>3. used \subseteq Int \X (Int \cup Codes)
      BY SignInAssumption DEF CInv, Numbered, SecretCodes, RecoveryCodes
    <2>4. recovery \subseteq {<<-n, c>> : n \in 1..made, c \in Codes}
      BY DEF CInv, Numbered, RecoveryCodes
    <2> QED
      BY <2>1, <2>2, <2>3, <2>4 DEF TypeOK, CInv, Numbered, TInv, SessionTimes, RedisHasSession,
         CookiesHaveSession, WithinBounds
  <1> QED
    BY <1>1, <1>2, <1>3, InitCInv, StepCInv, InitIInv, StepIInv, PTL DEF Spec
=============================================================================
