------------------------------ MODULE ConsentProofs ------------------------------
(***************************************************************************)
(* Proofs about Consent: a state is redeemed once, and an account that     *)
(* works stays connected.                                                  *)
(*                                                                         *)
(* The argument is about who holds a token.  A consent has one home: the   *)
(* row it was given for and the syncs that have read it, or the one        *)
(* request that has yet to store it.  A token that a sync has just been    *)
(* given is held by nobody else until it commits.                          *)
(***************************************************************************)
EXTENDS Consent, TLAPS, FiniteSetTheorems

Calls ==
    {Idle}
    \cup [kind: {"tokens"}, user: Users, purpose: Purposes, address: Addresses, token: Token]
    \cup [kind: {"sync", "connect", "connected", "done"}, account: Accounts,
          seen: Row \cup {New}, after: Row]

Types ==
    /\ started \subseteq [state: States, user: Users, purpose: Purposes]
    /\ codes \subseteq [state: States, address: Addresses, spent: BOOLEAN]
    /\ used \in [States -> {0, 1}] /\ grants \in [States -> SUBSET Numbers]
    /\ account \in [Accounts -> {New, Gone} \cup Row] /\ latest \in [Accounts -> SUBSET States]
    /\ call \in [Clients -> Calls]

(* A call that has read the row of an account, one that brings a new       *)
(* consent, and a sync that has been given a new token.                    *)
Reads(c, a) == Works(c) /\ call[c].seen # New /\ call[c].account = a
Connects(c) == Works(c) /\ (call[c].seen = New \/ call[c].after.token.grant # call[c].seen.token.grant)
Renewed(c) ==
    Works(c) /\ ~Connects(c) /\ call[c].kind = "done" /\ call[c].after.token # call[c].seen.token

Brings(c, s) ==
    \/ call[c].kind = "tokens" /\ call[c].token.grant = s
    \/ Connects(c) /\ call[c].after.token.grant = s
Home(a, s) ==
    \/ There(a) /\ account[a].token.grant = s
    \/ \E c \in Clients : Reads(c, a) /\ call[c].seen.token.grant = s

(* The tokens that rows and clients hold.                                  *)
HeldIn(a, t) == There(a) /\ account[a].token = t
HeldBy(c, t) ==
    Works(c) /\ (call[c].after.token = t \/ (call[c].seen # New /\ call[c].seen.token = t))

CallMade(c) ==
    /\ Works(c) /\ call[c].seen # New => account[call[c].account] # New
    /\ call[c].kind = "sync" => ~Connects(c) /\ call[c].after = call[c].seen
    /\ call[c].kind \in {"connect", "connected"} => Connects(c)
    /\ Works(c) /\ ~Connects(c) /\ call[c].after.token # call[c].seen.token => Renewed(c)

CallsMade == \A c \in Clients : CallMade(c)

StartedOnce ==
    /\ \A q, r \in started : q.state = r.state => q = r
    /\ \A r \in started : used[r.state] = 0
Untouched ==
    \A s \in States : used[s] = 0 =>
        /\ grants[s] = {} /\ (\A a \in Accounts : ~Home(a, s))
        /\ \A c \in Clients : ~Brings(c, s)

OneHome ==
    \A s \in States :
        /\ \A a, b \in Accounts : Home(a, s) /\ Home(b, s) => a = b
        /\ \A c \in Clients : Brings(c, s) =>
              (\A a \in Accounts : ~Home(a, s)) /\ (\A d \in Clients : Brings(d, s) => d = c)

NewIsUnheld ==
    \A c \in Clients : Renewed(c) =>
        /\ \A a \in Accounts : ~HeldIn(a, call[c].after.token)
        /\ \A d \in Clients \ {c} : ~HeldBy(d, call[c].after.token)

(* Good, or taken back by a person.                                        *)
Fit(token) == Good(token) \/ token.grant \in revoked

OneGood == Rotates /\ Revokes => \A s \in States : \A m, n \in grants[s] : m = n

NewFit(c) ==
    /\ call[c].kind = "tokens" => Fit(call[c].token)
    /\ Connects(c) /\ ~call[c].after.error => Fit(call[c].after.token)
    /\ call[c].kind = "connect" => ~call[c].after.error
    /\ Renewed(c) => Fit(call[c].after.token)

NewIsFit == \A c \in Clients : NewFit(c)

AllFit ==
    ~(Rotates /\ Revokes) =>
        \A t \in Token : (\E a \in Accounts : HeldIn(a, t)) \/ (\E c \in Clients : HeldBy(c, t))
                               => Fit(t)

RowConnected(a) ==
    There(a) /\ a \notin spoilt =>
        /\ account[a].token.grant \in latest[a]
        /\ \A c \in Clients : Reads(c, a) /\ ~Connects(c) =>
              call[c].seen.token.grant = account[a].token.grant
        /\ \/ Fit(account[a].token)
           \/ \E c \in Clients : /\ Renewed(c) /\ Reads(c, a) /\ Good(call[c].after.token)
                                 /\ call[c].after.token.grant = account[a].token.grant

RowsConnected == \A a \in Accounts : RowConnected(a)

HInv == Types /\ CallsMade /\ StartedOnce /\ Untouched /\ OneHome
CInv == HInv /\ NewIsUnheld /\ OneGood /\ NewIsFit /\ AllFit /\ RowsConnected

-----------------------------------------------------------------------------
(* Tokens can be numbered.                                                 *)
LEMMA ZeroIsNumber == 0 \in Numbers
  <1>1. IsFiniteSet(Clients)
    BY ConsentAssumption, FS_AddElement DEF Clients
  <1>2. Cardinality(Clients) \in Nat
    BY <1>1, FS_CardinalityType
  <1> QED
    BY <1>2 DEF Numbers

(* What a call that works holds.                                           *)
LEMMA WorkingCall ==
    ASSUME Types, NEW c \in Clients, Works(c)
    PROVE  /\ call[c].kind \in {"sync", "connect", "connected", "done"}
           /\ call[c].account \in Accounts /\ call[c].seen \in Row \cup {New} /\ call[c].after \in Row
           /\ call[c].after.token \in Token
           /\ call[c].seen # New => call[c].seen \in Row /\ call[c].seen.token \in Token
           /\ call[c] = [kind |-> call[c].kind, account |-> call[c].account,
                         seen |-> call[c].seen, after |-> call[c].after]
  <1>1. call[c] \in Calls /\ call[c].kind \in {"sync", "connect", "connected", "done"}
    BY DEF Types, Works
  <1>2. call[c] \in [kind: {"sync", "connect", "connected", "done"}, account: Accounts,
                     seen: Row \cup {New}, after: Row]
    BY <1>1 DEF Calls, Idle
  <1>3. \A r \in Row : r.token \in Token
    BY DEF Row
  <1> QED
    BY <1>2, <1>3

LEMMA WorkingCallNext ==
    ASSUME Types', NEW c \in Clients, Works(c)'
    PROVE  call'[c].after.token \in Token
  <1>1. call'[c] \in [kind: {"sync", "connect", "connected", "done"}, account: Accounts,
                     seen: Row \cup {New}, after: Row]
    BY DEF Types, Works, Calls, Idle
  <1>2. \A r \in Row : r.token \in Token
    BY DEF Row
  <1> QED
    BY <1>1, <1>2

LEMMA TokensCall ==
    ASSUME Types, NEW c \in Clients, call[c].kind = "tokens"
    PROVE  /\ call[c].user \in Users /\ call[c].purpose \in Purposes
           /\ call[c].address \in Addresses /\ call[c].token \in Token
           /\ ~Works(c)
  BY DEF Types, Calls, Idle, Works

(* A row that is there has all its columns.                                *)
LEMMA RowThere ==
    ASSUME Types, NEW a \in Accounts
    PROVE  /\ There(a) => account[a] \in Row /\ account[a].token \in Token /\ account[a] # New
           /\ account[a] \in Row => There(a)
  BY DEF Types, There, New, Gone, Row

(* Clients that have nothing under way hold no row.                        *)
LEMMA IdleHolds ==
    ASSUME NEW q, q = Idle PROVE q \in Calls /\ q.kind = "idle"
  BY DEF Idle, Calls

LEMMA NoneIsRow == New \notin Row /\ Gone \notin Row /\ New # Gone /\ New.is = "new" /\ Gone.is = "gone"
  BY DEF New, Gone, Row

(* What a call writes into a row is a row, column by column.               *)
LEMMA WrittenRow ==
    ASSUME NEW row \in Row, NEW seen \in Row, NEW after \in Row
    PROVE  /\ Written(row, seen, after) \in Row
           /\ Written(row, seen, after).token =
                 IF after.token = seen.token THEN row.token ELSE after.token
  <1>1. DOMAIN row = {"is", "owner", "purpose", "address", "token", "enabled", "error"}
    BY DEF Row
  <1>2. Written(row, seen, after) =
           [is |-> IF after.is = seen.is THEN row.is ELSE after.is,
            owner |-> IF after.owner = seen.owner THEN row.owner ELSE after.owner,
            purpose |-> IF after.purpose = seen.purpose THEN row.purpose ELSE after.purpose,
            address |-> IF after.address = seen.address THEN row.address ELSE after.address,
            token |-> IF after.token = seen.token THEN row.token ELSE after.token,
            enabled |-> IF after.enabled = seen.enabled THEN row.enabled ELSE after.enabled,
            error |-> IF after.error = seen.error THEN row.error ELSE after.error]
    BY <1>1 DEF Written
  <1> QED
    BY <1>2 DEF Row

(* A call goes on to something else.                                       *)
LEMMA DoesOne ==
    ASSUME Types, NEW c \in Clients, NEW q, Does(c, q)
    PROVE  /\ call'[c] = q /\ \A d \in Clients \ {c} : call'[d] = call[d]
           /\ q \in Calls => call' \in [Clients -> Calls]
  BY DEF Types, Does

(* The new token of a grant is nobody's yet.                               *)
LEMMA NewTokenIsNew ==
    ASSUME NEW token \in Token, \E n \in Numbers : Unheld(token, n)
    PROVE  /\ NewToken(token) \in Token /\ NewToken(token).grant = token.grant
           /\ NewToken(token) \notin Held
  <1> DEFINE n == CHOOSE k \in Numbers : Unheld(token, k)
  <1>1. n \in Numbers /\ Unheld(token, n)
    OBVIOUS
  <1>2. NewToken(token) = [token EXCEPT !.number = n]
    BY DEF NewToken
  <1> HIDE DEF n
  <1> QED
    BY <1>1, <1>2 DEF Token, Unheld

(* What a request for an access token does: it succeeds, finds the token   *)
(* bad, or loses the answer.                                               *)
Succeeds(c) ==
    /\ Good(call[c].after.token) /\ ~call'[c].after.error /\ spoilt' = spoilt
    /\ IF Rotates THEN RotatedAt(call[c].after.token)
                       /\ call'[c].after.token = NewToken(call[c].after.token)
                  ELSE call'[c].after.token = call[c].after.token /\ grants' = grants
FindsBad(c) ==
    /\ ~Good(call[c].after.token) /\ call'[c].after.error /\ spoilt' = spoilt /\ grants' = grants
    /\ call'[c].after.token = call[c].after.token
Loses(c) ==
    /\ Good(call[c].after.token) /\ call'[c].after.error
    /\ call'[c].after.token = call[c].after.token
    /\ IF Rotates THEN RotatedAt(call[c].after.token) ELSE grants' = grants
    /\ spoilt' = IF Rotates /\ Revokes THEN spoilt \cup {call[c].account} ELSE spoilt

LEMMA RefreshDoes ==
    ASSUME Types, NEW c \in Clients, Refresh(c)
    PROVE  /\ call[c].kind \in {"connect", "sync"} /\ Works(c) /\ call' \in [Clients -> Calls]
           /\ \A d \in Clients \ {c} : call'[d] = call[d]
           /\ call'[c].kind = (IF call[c].kind = "connect" THEN "connected" ELSE "done")
           /\ call'[c].account = call[c].account /\ call'[c].seen = call[c].seen
           /\ call'[c].after.token.grant = call[c].after.token.grant
           /\ UNCHANGED <<started, used, codes, revoked, account, latest>>
           /\ Succeeds(c) \/ FindsBad(c) \/ Loses(c)
  <1> DEFINE token == call[c].after.token
             then(new, failed) ==
               Does(c, [kind |-> IF call[c].kind = "connect" THEN "connected" ELSE "done",
                        account |-> call[c].account, seen |-> call[c].seen,
                        after |-> [call[c].after EXCEPT !.token = new, !.error = failed]])
  <1>1. /\ call[c].kind \in {"connect", "sync"} /\ Works(c)
        /\ UNCHANGED <<started, used, codes, revoked, account, latest>>
    BY DEF Refresh, Works
  <1>2. \/ ~Good(token) /\ then(token, TRUE) /\ UNCHANGED <<grants, spoilt>>
        \/ /\ Good(token) /\ UNCHANGED spoilt
           /\ IF Rotates THEN RotatedAt(token) /\ then(NewToken(token), FALSE)
                         ELSE then(token, FALSE) /\ UNCHANGED grants
        \/ /\ Good(token) /\ then(token, TRUE)
           /\ IF Rotates THEN RotatedAt(token) ELSE UNCHANGED grants
           /\ spoilt' = IF Rotates /\ Revokes THEN spoilt \cup {call[c].account} ELSE spoilt
    BY DEF Refresh
  <1>3. /\ token \in Token /\ call[c].account \in Accounts /\ call[c].after \in Row
        /\ call[c].seen \in Row \cup {New}
        /\ call[c] = [kind |-> call[c].kind, account |-> call[c].account,
                      seen |-> call[c].seen, after |-> call[c].after]
    BY <1>1, WorkingCall
  <1>4. ASSUME NEW new \in Token, NEW failed \in BOOLEAN, then(new, failed)
        PROVE  /\ call' \in [Clients -> Calls] /\ \A d \in Clients \ {c} : call'[d] = call[d]
               /\ call'[c].kind = (IF call[c].kind = "connect" THEN "connected" ELSE "done")
               /\ call'[c].account = call[c].account /\ call'[c].seen = call[c].seen
               /\ call'[c].after.token = new /\ call'[c].after.error = failed
    <2> DEFINE kind == IF call[c].kind = "connect" THEN "connected" ELSE "done"
               after == [call[c].after EXCEPT !.token = new, !.error = failed]
               q == [kind |-> kind, account |-> call[c].account, seen |-> call[c].seen,
                     after |-> after]
    <2>1. after \in Row /\ after.token = new /\ after.error = failed
      BY <1>3 DEF Row
    <2>2. Does(c, q)
      BY <1>4
    <2>3. q \in Calls
      <3> HIDE DEF after
      <3> QED
        BY <1>3, <2>1 DEF Calls
    <2> HIDE DEF q
    <2>4. call'[c] = q /\ call' \in [Clients -> Calls] /\ \A d \in Clients \ {c} : call'[d] = call[d]
      BY <2>2, <2>3, DoesOne
    <2>5. /\ q.kind = kind /\ q.account = call[c].account /\ q.seen = call[c].seen /\ q.after = after
      BY DEF q
    <2>6. kind = IF call[c].kind = "connect" THEN "connected" ELSE "done"
      OBVIOUS
    <2> HIDE DEF after, kind
    <2> QED
      BY <2>1, <2>4, <2>5, <2>6
  <1>5. Rotates /\ RotatedAt(token) => NewToken(token) \in Token /\ NewToken(token).grant = token.grant
    BY <1>3, NewTokenIsNew DEF RotatedAt
  <1>6. TRUE \in BOOLEAN /\ FALSE \in BOOLEAN
    OBVIOUS
  <1>7. ASSUME ~Good(token) /\ then(token, TRUE) /\ UNCHANGED <<grants, spoilt>>
        PROVE  FindsBad(c)
    BY <1>3, <1>4, <1>6, <1>7 DEF FindsBad
  <1> HIDE DEF then
  <1> QED
    BY <1>1, <1>2, <1>3, <1>4, <1>5, <1>6, <1>7 DEF Succeeds, Loses, FindsBad

-----------------------------------------------------------------------------
(* A client whose call stays the same does and holds what it did and held. *)
LEMMA OthersKeep ==
    ASSUME NEW d \in Clients, call'[d] = call[d]
    PROVE  /\ Works(d)' <=> Works(d)
           /\ Connects(d)' <=> Connects(d)
           /\ Renewed(d)' <=> Renewed(d)
           /\ \A a : Reads(d, a)' <=> Reads(d, a)
           /\ \A s : Brings(d, s)' <=> Brings(d, s)
           /\ \A t : HeldBy(d, t)' <=> HeldBy(d, t)
  BY DEF Works, Connects, Renewed, Reads, Brings, HeldBy

(* A client that has nothing under way brings, reads and holds nothing.    *)
LEMMA IdleDoes ==
    ASSUME NEW d \in Clients, call[d] = Idle
    PROVE  ~Works(d) /\ ~Connects(d) /\ ~Renewed(d) /\ (\A a : ~Reads(d, a))
           /\ (\A s : ~Brings(d, s)) /\ (\A t : ~HeldBy(d, t)) /\ CallMade(d) /\ NewFit(d)
  BY DEF Idle, Works, Connects, Renewed, Reads, Brings, HeldBy, CallMade, NewFit

LEMMA IdleDoesNext ==
    ASSUME NEW d \in Clients, call'[d] = Idle
    PROVE  ~Works(d)' /\ ~Connects(d)' /\ ~Renewed(d)' /\ (\A a : ~Reads(d, a)')
           /\ (\A s : ~Brings(d, s)') /\ (\A t : ~HeldBy(d, t)') /\ CallMade(d)' /\ NewFit(d)'
  BY DEF Idle, Works, Connects, Renewed, Reads, Brings, HeldBy, CallMade, NewFit

(* No consent finds a new home.                                            *)
LEMMA HomesShrink ==
    ASSUME Untouched, OneHome, used' = used,
           \A s \in States : grants[s] = {} => grants'[s] = {},
           \A a \in Accounts, s \in States : Home(a, s)' => Home(a, s),
           \A c \in Clients, s \in States : Brings(c, s)' => Brings(c, s)
    PROVE  Untouched' /\ OneHome'
  <1>1. Untouched'
    BY DEF Untouched
  <1>2. OneHome'
    BY DEF OneHome
  <1> QED
    BY <1>1, <1>2

(* What is made of the calls that stay the same.                           *)
LEMMA CallsKeep ==
    ASSUME Types, CallsMade, NEW D \in SUBSET Clients,
           \A d \in Clients \ D : call'[d] = call[d],
           \A d \in D : CallMade(d)',
           \A a \in Accounts : account[a] # New => account'[a] # New
    PROVE  CallsMade'
  <1> SUFFICES ASSUME NEW d \in Clients, d \notin D PROVE CallMade(d)'
    BY DEF CallsMade
  <1>1. CallMade(d) /\ call'[d] = call[d]
    BY DEF CallsMade
  <1> QED
    BY <1>1, OthersKeep, WorkingCall DEF CallMade

(* A token that is new stays unheld.                                       *)
LEMMA UnheldStays ==
    ASSUME Types, OneHome, NewIsUnheld,
           \A d \in Clients : Renewed(d)' => Renewed(d) /\ call'[d] = call[d],
           \A a \in Accounts, t \in Token : HeldIn(a, t)' =>
               HeldIn(a, t) \/ (\E e \in Clients : ~Renewed(e)' /\ HeldBy(e, t)),
           \A e \in Clients, t \in Token : HeldBy(e, t)' =>
               HeldBy(e, t) \/ (\E a \in Accounts : HeldIn(a, t)) \/ Brings(e, t.grant)
    PROVE  NewIsUnheld'
  <1> SUFFICES ASSUME NEW c \in Clients, Renewed(c)'
               PROVE  /\ \A a \in Accounts : ~HeldIn(a, call[c].after.token)'
                      /\ \A d \in Clients \ {c} : ~HeldBy(d, call[c].after.token)'
    BY DEF NewIsUnheld
  <1> DEFINE t == call[c].after.token
  <1>1. Renewed(c) /\ call'[c] = call[c] /\ Works(c) /\ ~Connects(c)
    BY DEF Renewed
  <1>2. t \in Token /\ call[c].account \in Accounts /\ call[c].seen # New /\ t.grant = call[c].seen.token.grant
    BY <1>1, WorkingCall DEF Connects
  <1>3. t.grant \in States
    BY <1>2 DEF Token
  <1>4. Home(call[c].account, t.grant)
    BY <1>1, <1>2 DEF Home, Reads
  <1>5. \A e \in Clients : ~Brings(e, t.grant)
    BY <1>2, <1>3, <1>4 DEF OneHome
  <1>6. /\ \A a \in Accounts : ~HeldIn(a, t)
        /\ \A d \in Clients \ {c} : ~HeldBy(d, t)
    BY <1>1 DEF NewIsUnheld
  <1>7. PICK k \in Token : k = call[c].after.token
    BY <1>2
  <1> HIDE DEF t
  <1>8. /\ \A a \in Accounts : ~HeldIn(a, k)
        /\ \A d \in Clients \ {c} : ~HeldBy(d, k)
        /\ \A e \in Clients : ~Brings(e, k.grant)
    BY <1>5, <1>6, <1>7 DEF t
  <1>9. \A a \in Accounts : ~HeldIn(a, k)'
    BY <1>8
  <1>10. \A d \in Clients \ {c} : ~HeldBy(d, k)'
    BY <1>8
  <1>11. k = call'[c].after.token
    BY <1>1, <1>7
  <1>12. \A a \in Accounts : HeldIn(a, call[c].after.token)' => HeldIn(a, k)'
    BY <1>11 DEF HeldIn
  <1>13. \A d \in Clients : HeldBy(d, call[c].after.token)' => HeldBy(d, k)'
    BY <1>11 DEF HeldBy
  <1> QED
    BY <1>9, <1>10, <1>12, <1>13

(* A token stays fit if only a person takes tokens back.                   *)
LEMMA FitStays ==
    ASSUME revoked \subseteq revoked', NEW t \in Token,
           t.grant \in revoked' \/ (\A n \in grants[t.grant] : n \in grants'[t.grant])
    PROVE  Fit(t) => Fit(t)'
  BY DEF Fit, Good

(* What a client holds is a token.                                         *)
LEMMA HeldTokens ==
    ASSUME Types, NEW c \in Clients
    PROVE  /\ Works(c) => call[c].after.token \in Token /\ HeldBy(c, call[c].after.token)
           /\ Works(c) /\ call[c].seen # New =>
                 call[c].seen.token \in Token /\ HeldBy(c, call[c].seen.token)
           /\ call[c].kind = "tokens" => call[c].token \in Token
  <1>1. Works(c) => call[c].after.token \in Token /\ (call[c].seen # New => call[c].seen.token \in Token)
    BY WorkingCall
  <1>2. call[c].kind = "tokens" => call[c].token \in Token
    BY TokensCall
  <1> QED
    BY <1>1, <1>2 DEF HeldBy

(* What a client has to be fit stays so.                                   *)
LEMMA NewFitStays ==
    ASSUME Types, NewIsFit, NEW d \in Clients, call'[d] = call[d],
           \A t \in Token : Fit(t) => Fit(t)'
    PROVE  NewFit(d)'
  <1> DEFINE q == call[d]
  <1>1. NewFit(d)
    BY DEF NewIsFit
  <1>2. (Connects(d)' <=> Connects(d)) /\ (Renewed(d)' <=> Renewed(d))
    BY OthersKeep
  <1>3. /\ (Connects(d) \/ Renewed(d)) => q.after.token \in Token
        /\ q.kind = "tokens" => q.token \in Token
    BY HeldTokens DEF Connects, Renewed
  <1>4. /\ (Connects(d) \/ Renewed(d)) => (Fit(q.after.token) => Fit(q.after.token)')
        /\ q.kind = "tokens" => (Fit(q.token) => Fit(q.token)')
    <2>1. ASSUME Connects(d) \/ Renewed(d), Fit(q.after.token) PROVE Fit(call[d].after.token)'
      <3>1. PICK k \in Token : k = q.after.token
        BY <1>3, <2>1
      <3>2. Fit(k)'
        BY <2>1, <3>1
      <3> QED
        BY <3>1, <3>2 DEF Fit, Good
    <2>2. ASSUME q.kind = "tokens", Fit(q.token) PROVE Fit(call[d].token)'
      <3>1. PICK k \in Token : k = q.token
        BY <1>3, <2>2
      <3>2. Fit(k)'
        BY <2>2, <3>1
      <3> QED
        BY <3>1, <3>2 DEF Fit, Good
    <2> QED
      BY <2>1, <2>2
  <1> QED
    BY <1>1, <1>2, <1>4 DEF NewFit

(* The same for what everybody holds.                                      *)
LEMMA AllFitStays ==
    ASSUME AllFit,
           ~(Rotates /\ Revokes) =>
              /\ \A t \in Token : Fit(t) => Fit(t)'
              /\ \A a \in Accounts, t \in Token : HeldIn(a, t)' =>
                    Fit(t)' \/ HeldIn(a, t) \/ (\E e \in Clients : HeldBy(e, t))
              /\ \A e \in Clients, t \in Token : HeldBy(e, t)' =>
                    Fit(t)' \/ HeldBy(e, t) \/ (\E a \in Accounts : HeldIn(a, t))
    PROVE  AllFit'
  BY DEF AllFit

(* A row that stays as it is stays connected.                              *)
LEMMA RowStays ==
    ASSUME Types, NEW a \in Accounts, RowConnected(a), a \notin spoilt' => a \notin spoilt,
           There(a)' => There(a) /\ account'[a].token = account[a].token,
           latest'[a] = latest[a],
           There(a) /\ a \notin spoilt' =>
              /\ Fit(account[a].token) => Fit(account[a].token)'
              /\ \A c \in Clients : Reads(c, a)' /\ ~Connects(c)' =>
                    \/ Reads(c, a) /\ ~Connects(c) /\ call'[c].seen = call[c].seen
                    \/ call'[c].seen.token.grant = account[a].token.grant
              /\ \A c \in Clients :
                    Renewed(c) /\ Reads(c, a) /\ Good(call[c].after.token)
                       /\ call[c].after.token.grant = account[a].token.grant
                    => \/ Renewed(c)' /\ Reads(c, a)' /\ Good(call[c].after.token)'
                          /\ call'[c].after.token.grant = account[a].token.grant
                       \/ Fit(account[a].token)'
    PROVE  RowConnected(a)'
  <1> SUFFICES ASSUME There(a)', a \notin spoilt' PROVE RowConnected(a)'
    BY DEF RowConnected
  <1>1. There(a) /\ a \notin spoilt /\ account'[a].token = account[a].token
    OBVIOUS
  <1>2. /\ account[a].token.grant \in latest[a]
        /\ \A c \in Clients : Reads(c, a) /\ ~Connects(c) =>
              call[c].seen.token.grant = account[a].token.grant
        /\ \/ Fit(account[a].token)
           \/ \E c \in Clients : /\ Renewed(c) /\ Reads(c, a) /\ Good(call[c].after.token)
                                 /\ call[c].after.token.grant = account[a].token.grant
    BY <1>1 DEF RowConnected
  <1>3. \A c \in Clients : Reads(c, a)' /\ ~Connects(c)' =>
              call'[c].seen.token.grant = account'[a].token.grant
    BY <1>1, <1>2
  <1>4. \/ Fit(account[a].token)'
        \/ \E c \in Clients : /\ Renewed(c)' /\ Reads(c, a)' /\ Good(call[c].after.token)'
                              /\ call'[c].after.token.grant = account'[a].token.grant
    BY <1>1, <1>2
  <1> QED
    BY <1>1, <1>2, <1>3, <1>4 DEF RowConnected

-----------------------------------------------------------------------------
(* The rest of the invariant, beside the types and what was started.       *)
Rest == CallsMade /\ Untouched /\ OneHome /\ NewIsUnheld /\ OneGood /\ NewIsFit /\ AllFit /\ RowsConnected

(* Actions that no call takes part in.                                     *)
LEMMA QuietKeeps ==
    ASSUME CInv, call' = call, latest' = latest, spoilt' = spoilt, used' = used,
           revoked \subseteq revoked',
           \A a \in Accounts : account[a] # New => account'[a] # New,
           \A a \in Accounts : There(a)' => There(a) /\ account'[a].token = account[a].token,
           \A s \in States : grants'[s] = grants[s] \/ (grants'[s] = {} /\ s \in revoked')
    PROVE  Rest'
  <1>1. Types /\ CallsMade /\ Untouched /\ OneHome /\ NewIsUnheld /\ OneGood /\ NewIsFit /\ AllFit /\ RowsConnected
    BY DEF CInv, HInv
  <1>2. ASSUME NEW d \in Clients
        PROVE  /\ Works(d)' <=> Works(d)
               /\ Connects(d)' <=> Connects(d)
               /\ Renewed(d)' <=> Renewed(d)
               /\ \A a : Reads(d, a)' <=> Reads(d, a)
               /\ \A s : Brings(d, s)' <=> Brings(d, s)
               /\ \A t : HeldBy(d, t)' <=> HeldBy(d, t)
    <2>1. call'[d] = call[d]
      OBVIOUS
    <2> QED
      BY <2>1, OthersKeep
  <1>3. ASSUME NEW t \in Token, Fit(t) PROVE Fit(t)'
    <2>1. t.grant \in States
      BY DEF Token
    <2> QED
      BY <1>3, <2>1 DEF Fit, Good
  <1>4. \A a \in Accounts, t \in Token : HeldIn(a, t)' => HeldIn(a, t)
    BY DEF HeldIn
  <1>5. CallsMade'
    <2>1. \A d \in Clients \ {} : call'[d] = call[d]
      OBVIOUS
    <2> QED
      BY <1>1, <2>1, CallsKeep
  <1>6. Untouched' /\ OneHome'
    <2>1. \A a \in Accounts, s \in States : Home(a, s)' => Home(a, s)
      BY <1>2 DEF Home
    <2> QED
      BY <1>1, <1>2, <2>1, HomesShrink
  <1>7. NewIsUnheld'
    BY <1>1, <1>2, <1>4, UnheldStays
  <1>8. OneGood'
    BY <1>1 DEF OneGood
  <1>9. NewIsFit'
    BY <1>1, <1>3, NewFitStays DEF NewIsFit
  <1>10. AllFit'
    BY <1>1, <1>2, <1>3, <1>4, AllFitStays
  <1>11. ASSUME NEW a \in Accounts PROVE RowConnected(a)'
    <2>1. RowConnected(a)
      BY <1>1 DEF RowsConnected
    <2> SUFFICES ASSUME There(a)', a \notin spoilt' PROVE RowConnected(a)'
      BY DEF RowConnected
    <2>2. There(a) /\ a \notin spoilt /\ account'[a].token = account[a].token
      OBVIOUS
    <2>3. PICK k \in Token : k = account[a].token
      BY <1>1, <2>2, RowThere
    <2>4. Fit(account[a].token) => Fit(account[a].token)'
      <3>1. Fit(k) => Fit(k)'
        BY <1>3
      <3> QED
        BY <2>2, <2>3, <3>1 DEF Fit, Good
    <2>5. ASSUME NEW c \in Clients, Renewed(c), Reads(c, a), Good(call[c].after.token),
                 call[c].after.token.grant = account[a].token.grant
          PROVE  \/ Renewed(c)' /\ Reads(c, a)' /\ Good(call[c].after.token)'
                    /\ call'[c].after.token.grant = account[a].token.grant
                 \/ Fit(account[a].token)'
      <3>1. k.grant \in States
        BY DEF Token
      <3>2. CASE grants'[k.grant] = grants[k.grant]
        <4>1. Good(call[c].after.token)'
          BY <2>3, <2>5, <3>2 DEF Good
        <4> QED
          BY <1>2, <2>5, <4>1
      <3>3. CASE k.grant \in revoked'
        BY <2>2, <2>3, <3>3 DEF Fit
      <3> QED
        BY <3>1, <3>2, <3>3
    <2>6. \A c \in Clients : Reads(c, a)' /\ ~Connects(c)' =>
             Reads(c, a) /\ ~Connects(c) /\ call'[c].seen = call[c].seen
      BY <1>2
    <2> QED
      BY <1>1, <2>1, <2>2, <2>4, <2>5, <2>6, RowStays
  <1> QED
    BY <1>5, <1>6, <1>7, <1>8, <1>9, <1>10, <1>11 DEF Rest, RowsConnected

(* A client stops: what it alone held is lost, if it was needed.           *)
LEMMA IdleKeeps ==
    ASSUME CInv, NEW c \in Clients, Does(c, Idle),
           UNCHANGED <<used, grants, revoked, account, latest>>, spoilt \subseteq spoilt',
           \A a \in Accounts : Renewed(c) /\ Reads(c, a) /\ There(a) =>
               Fit(account[a].token) \/ a \in spoilt'
    PROVE  Rest' /\ call' \in [Clients -> Calls]
  <1>1. Types /\ CallsMade /\ Untouched /\ OneHome /\ NewIsUnheld /\ OneGood /\ NewIsFit /\ AllFit /\ RowsConnected
    BY DEF CInv, HInv
  <1>2. call'[c] = Idle /\ (\A d \in Clients \ {c} : call'[d] = call[d]) /\ call' \in [Clients -> Calls]
    <2>1. PICK q : q = Idle
      OBVIOUS
    <2>2. q \in Calls /\ Does(c, q)
      BY <2>1, IdleHolds
    <2> QED
      BY <1>1, <2>1, <2>2, DoesOne
  <1>3. ~Works(c)' /\ ~Connects(c)' /\ ~Renewed(c)' /\ (\A a : ~Reads(c, a)')
        /\ (\A s : ~Brings(c, s)') /\ (\A t : ~HeldBy(c, t)') /\ CallMade(c)' /\ NewFit(c)'
    BY <1>2, IdleDoesNext
  <1>4. ASSUME NEW d \in Clients \ {c}
        PROVE  /\ Works(d)' <=> Works(d)
               /\ Connects(d)' <=> Connects(d)
               /\ Renewed(d)' <=> Renewed(d)
               /\ \A a : Reads(d, a)' <=> Reads(d, a)
               /\ \A s : Brings(d, s)' <=> Brings(d, s)
               /\ \A t : HeldBy(d, t)' <=> HeldBy(d, t)
    BY <1>2, OthersKeep
  <1>5. \A t \in Token : Fit(t) => Fit(t)'
    BY DEF Fit, Good
  <1>6. \A a \in Accounts : (There(a)' <=> There(a)) /\ \A t \in Token : HeldIn(a, t)' <=> HeldIn(a, t)
    BY DEF HeldIn, There
  <1>7. CallsMade'
    BY <1>1, <1>2, <1>3, CallsKeep, {c} \in SUBSET Clients
  <1>8. Untouched' /\ OneHome'
    <2>1. ASSUME NEW a \in Accounts, NEW s \in States, Home(a, s)' PROVE Home(a, s)
      BY <1>2, <1>3, <1>4, <1>6, <2>1 DEF Home
    <2>2. \A d \in Clients, s \in States : Brings(d, s)' => Brings(d, s)
      BY <1>3, <1>4
    <2> QED
      BY <1>1, <2>1, <2>2, HomesShrink
  <1>9. NewIsUnheld'
    <2>1. \A d \in Clients : Renewed(d)' => Renewed(d) /\ call'[d] = call[d]
      BY <1>2, <1>3, <1>4
    <2>2. \A d \in Clients, t \in Token : HeldBy(d, t)' => HeldBy(d, t)
      BY <1>3, <1>4
    <2> QED
      BY <1>1, <1>6, <2>1, <2>2, UnheldStays
  <1>10. OneGood'
    BY <1>1 DEF OneGood
  <1>11. NewIsFit'
    BY <1>1, <1>2, <1>3, <1>5, NewFitStays DEF NewIsFit
  <1>12. AllFit'
    <2>1. \A d \in Clients, t \in Token : HeldBy(d, t)' => HeldBy(d, t)
      BY <1>3, <1>4
    <2> QED
      BY <1>1, <1>5, <1>6, <2>1, AllFitStays
  <1>13. ASSUME NEW a \in Accounts PROVE RowConnected(a)'
    <2>1. RowConnected(a)
      BY <1>1 DEF RowsConnected
    <2>2. Fit(account[a].token)' <=> Fit(account[a].token)
      BY DEF Fit, Good
    <2>3. \A d \in Clients : Reads(d, a)' /\ ~Connects(d)' =>
             Reads(d, a) /\ ~Connects(d) /\ call'[d].seen = call[d].seen
      BY <1>2, <1>3, <1>4
    <2>4. ASSUME There(a), a \notin spoilt', NEW d \in Clients, Renewed(d), Reads(d, a),
                 Good(call[d].after.token), call[d].after.token.grant = account[a].token.grant
          PROVE  \/ Renewed(d)' /\ Reads(d, a)' /\ Good(call[d].after.token)'
                    /\ call'[d].after.token.grant = account[a].token.grant
                 \/ Fit(account[a].token)'
      <3>1. CASE d = c
        BY <2>2, <2>4, <3>1
      <3>2. CASE d # c
        <4>1. Good(call[d].after.token)'
          BY <1>2, <2>4, <3>2 DEF Good
        <4> QED
          BY <1>2, <1>4, <2>4, <3>2, <4>1
      <3> QED
        BY <3>1, <3>2
    <2> QED
      BY <1>1, <1>6, <2>1, <2>2, <2>3, <2>4, RowStays
  <1> QED
    BY <1>2, <1>7, <1>8, <1>9, <1>10, <1>11, <1>12, <1>13 DEF Rest, RowsConnected

(* A client begins with a row, or with a consent it brings already.        *)
LEMMA BeginKeeps ==
    ASSUME CInv, NEW c \in Clients, NEW q \in Calls, Does(c, q),
           UNCHANGED <<used, grants, revoked, account, latest, spoilt>>,
           ~Renewed(c), ~Renewed(c)', CallMade(c)', NewFit(c)',
           \A a \in Accounts : Reads(c, a)' => There(a) /\ call'[c].seen.token = account[a].token,
           \A s \in States : Brings(c, s)' => Brings(c, s),
           \A t \in Token : HeldBy(c, t)' =>
               (\E a \in Accounts : HeldIn(a, t)) \/ (Brings(c, t.grant) /\ Fit(t))
    PROVE  Rest' /\ call' \in [Clients -> Calls]
  <1>1. Types /\ CallsMade /\ Untouched /\ OneHome /\ NewIsUnheld /\ OneGood /\ NewIsFit /\ AllFit /\ RowsConnected
    BY DEF CInv, HInv
  <1>2. call'[c] = q /\ (\A d \in Clients \ {c} : call'[d] = call[d]) /\ call' \in [Clients -> Calls]
    BY <1>1, DoesOne
  <1>4. ASSUME NEW d \in Clients \ {c}
        PROVE  /\ Works(d)' <=> Works(d)
               /\ Connects(d)' <=> Connects(d)
               /\ Renewed(d)' <=> Renewed(d)
               /\ \A a : Reads(d, a)' <=> Reads(d, a)
               /\ \A s : Brings(d, s)' <=> Brings(d, s)
               /\ \A t : HeldBy(d, t)' <=> HeldBy(d, t)
    BY <1>2, OthersKeep
  <1>5. \A t \in Token : Fit(t) <=> Fit(t)'
    BY DEF Fit, Good
  <1>6. \A a \in Accounts : (There(a)' <=> There(a)) /\ \A t \in Token : HeldIn(a, t)' <=> HeldIn(a, t)
    BY DEF HeldIn, There
  <1>7. CallsMade'
    BY <1>1, <1>2, CallsKeep, {c} \in SUBSET Clients
  <1>8. Untouched' /\ OneHome'
    <2>1. ASSUME NEW a \in Accounts, NEW s \in States, Home(a, s)' PROVE Home(a, s)
      <3>1. CASE There(a)' /\ account'[a].token.grant = s
        BY <1>6, <3>1 DEF Home
      <3>2. ASSUME NEW d \in Clients, Reads(d, a)' /\ call'[d].seen.token.grant = s PROVE Home(a, s)
        <4>1. CASE d = c
          BY <3>2, <4>1 DEF Home
        <4>2. CASE d # c
          BY <1>2, <1>4, <3>2, <4>2 DEF Home
        <4> QED
          BY <4>1, <4>2
      <3> QED
        BY <2>1, <3>1, <3>2 DEF Home
    <2>2. \A d \in Clients, s \in States : Brings(d, s)' => Brings(d, s)
      BY <1>4
    <2> QED
      BY <1>1, <2>1, <2>2, HomesShrink
  <1>9. NewIsUnheld'
    <2>1. \A d \in Clients : Renewed(d)' => Renewed(d) /\ call'[d] = call[d]
      BY <1>2, <1>4
    <2>2. \A d \in Clients, t \in Token : HeldBy(d, t)' =>
             HeldBy(d, t) \/ (\E a \in Accounts : HeldIn(a, t)) \/ Brings(d, t.grant)
      BY <1>4
    <2> QED
      BY <1>1, <1>6, <2>1, <2>2, UnheldStays
  <1>10. OneGood'
    BY <1>1 DEF OneGood
  <1>11. NewIsFit'
    BY <1>1, <1>2, <1>5, NewFitStays DEF NewIsFit
  <1>12. AllFit'
    <2>1. \A d \in Clients, t \in Token : HeldBy(d, t)' =>
             Fit(t)' \/ HeldBy(d, t) \/ (\E a \in Accounts : HeldIn(a, t))
      BY <1>4, <1>5
    <2> QED
      BY <1>1, <1>5, <1>6, <2>1, AllFitStays
  <1>13. ASSUME NEW a \in Accounts PROVE RowConnected(a)'
    <2>1. RowConnected(a)
      BY <1>1 DEF RowsConnected
    <2>2. Fit(account[a].token)' <=> Fit(account[a].token)
      BY DEF Fit, Good
    <2>3. \A d \in Clients : Reads(d, a)' /\ ~Connects(d)' =>
             \/ Reads(d, a) /\ ~Connects(d) /\ call'[d].seen = call[d].seen
             \/ call'[d].seen.token.grant = account[a].token.grant
      BY <1>2, <1>4
    <2>4. ASSUME There(a), a \notin spoilt', NEW d \in Clients, Renewed(d), Reads(d, a),
                 Good(call[d].after.token), call[d].after.token.grant = account[a].token.grant
          PROVE  Renewed(d)' /\ Reads(d, a)' /\ Good(call[d].after.token)'
                    /\ call'[d].after.token.grant = account[a].token.grant
      <3>1. d # c
        BY <2>4
      <3>2. Good(call[d].after.token)'
        BY <1>2, <2>4, <3>1 DEF Good
      <3> QED
        BY <1>2, <1>4, <2>4, <3>1, <3>2
    <2> QED
      BY <1>1, <1>6, <2>1, <2>2, <2>3, <2>4, RowStays
  <1> QED
    BY <1>2, <1>7, <1>8, <1>9, <1>10, <1>11, <1>12, <1>13 DEF Rest, RowsConnected

(* A sync reads a row that is there.                                       *)
LEMMA StartSyncKeeps ==
    ASSUME CInv, NEW c \in Clients, NEW a \in Accounts, StartSync(c, a)
    PROVE  Rest' /\ call' \in [Clients -> Calls]
  <1> DEFINE q == [kind |-> "sync", account |-> a, seen |-> account[a], after |-> account[a]]
  <1>1. Types /\ CallsMade /\ call[c] = Idle /\ There(a) /\ Does(c, q)
        /\ UNCHANGED <<used, grants, revoked, account, latest, spoilt>>
    BY DEF CInv, HInv, StartSync, Same
  <1>2. account[a] \in Row /\ account[a] # New
    BY <1>1, RowThere
  <1>3. q \in Calls
    BY <1>2 DEF Calls
  <1>4. call'[c] = q
    BY <1>1, <1>3, DoesOne
  <1>5. /\ call'[c].kind = "sync" /\ call'[c].account = a
        /\ call'[c].seen = account[a] /\ call'[c].after = account[a]
    BY <1>4
  <1> HIDE DEF q
  <1>6. ~Renewed(c)' /\ ~Connects(c)' /\ Works(c)' /\ CallMade(c)' /\ NewFit(c)'
    BY <1>1, <1>2, <1>5 DEF Works, Connects, Renewed, CallMade, NewFit
  <1>7. \A b \in Accounts : Reads(c, b)' => There(b) /\ call'[c].seen.token = account[b].token
    BY <1>1, <1>5 DEF Reads
  <1>8. \A s \in States : ~Brings(c, s)'
    BY <1>5, <1>6 DEF Brings
  <1>9. \A t \in Token : HeldBy(c, t)' => HeldIn(a, t)
    BY <1>1, <1>5 DEF HeldBy, HeldIn
  <1>10. ~Renewed(c)
    BY <1>1, IdleDoes
  <1> QED
    BY <1>1, <1>3, <1>6, <1>7, <1>8, <1>9, <1>10, BeginKeeps

(* The consent that a request brings is of no account yet: what it makes   *)
(* of the account it finds is a connection.                                *)
LEMMA LookKeeps ==
    ASSUME CInv, NEW c \in Clients, Look(c)
    PROVE  Rest' /\ call' \in [Clients -> Calls]
  <1> DEFINE after == [is |-> "there", owner |-> call[c].user, purpose |-> call[c].purpose,
                       address |-> call[c].address, token |-> call[c].token,
                       enabled |-> TRUE, error |-> FALSE]
             q(a, seen) == [kind |-> IF call[c].purpose = "mail" THEN "done" ELSE "connect",
                            account |-> a, seen |-> seen, after |-> after]
  <1>1. /\ Types /\ CallsMade /\ OneHome /\ NewIsFit /\ call[c].kind = "tokens"
        /\ UNCHANGED <<used, grants, revoked, account, latest, spoilt>>
    BY DEF CInv, HInv, Look, Same
  <1>2. /\ call[c].user \in Users /\ call[c].purpose \in Purposes
        /\ call[c].address \in Addresses /\ call[c].token \in Token /\ ~Works(c)
    BY <1>1, TokensCall
  <1>3. after \in Row
    BY <1>2 DEF Row
  <1>4. Fit(call[c].token) /\ Brings(c, call[c].token.grant) /\ ~Renewed(c)
    BY <1>1, <1>2 DEF NewIsFit, NewFit, Brings, Renewed
  <1>5. ASSUME NEW a \in Accounts, NEW seen, seen = New \/ (There(a) /\ seen = account[a]),
               Does(c, q(a, seen))
        PROVE  Rest' /\ call' \in [Clients -> Calls]
    <2> DEFINE qq == q(a, seen)
    <2>1. seen \in Row \cup {New} /\ (seen # New => There(a) /\ seen = account[a] /\ account[a] # New)
      BY <1>1, <1>5, RowThere
    <2>2. qq \in Calls
      <3> HIDE DEF after
      <3> QED
        BY <1>3, <2>1 DEF Calls
    <2>3. call'[c] = qq
      BY <1>1, <1>5, <2>2, DoesOne
    <2>4. /\ call'[c].kind \in {"done", "connect"} /\ call'[c].account = a
          /\ call'[c].seen = seen /\ call'[c].after = after
      BY <2>3
    <2>5. after.token = call[c].token /\ after.error = FALSE
      OBVIOUS
    <2>6. Does(c, qq)
      BY <1>5
    <2> HIDE DEF after, qq
    <2>7. seen # New => seen.token.grant # call[c].token.grant
      <3>1. call[c].token.grant \in States
        BY <1>2 DEF Token
      <3>2. ~Home(a, call[c].token.grant)
        BY <1>1, <1>4, <3>1 DEF OneHome
      <3> QED
        BY <2>1, <3>2 DEF Home
    <2>8. Works(c)' /\ Connects(c)' /\ ~Renewed(c)' /\ CallMade(c)'
      BY <1>1, <2>1, <2>4, <2>5, <2>7 DEF Works, Connects, Renewed, CallMade
    <2>9. NewFit(c)'
      <3>1. Fit(call[c].after.token)'
        BY <1>1, <1>4, <2>4, <2>5 DEF Fit, Good
      <3> QED
        BY <2>4, <2>5, <2>8, <3>1 DEF NewFit
    <2>10. \A b \in Accounts : Reads(c, b)' => There(b) /\ call'[c].seen.token = account[b].token
      BY <2>1, <2>4 DEF Reads
    <2>11. \A s \in States : Brings(c, s)' => Brings(c, s)
      BY <1>4, <2>4, <2>5 DEF Brings
    <2>12. \A t \in Token : HeldBy(c, t)' =>
               (\E b \in Accounts : HeldIn(b, t)) \/ (Brings(c, t.grant) /\ Fit(t))
      BY <1>4, <2>1, <2>4, <2>5 DEF HeldBy, HeldIn
    <2> QED
      BY <1>1, <1>4, <2>2, <2>6, <2>8, <2>9, <2>10, <2>11, <2>12, BeginKeeps
  <1>6. CASE Does(c, Idle)
    <2>1. spoilt \subseteq spoilt'
      BY <1>1
    <2> QED
      BY <1>1, <1>4, <1>6, <2>1, IdleKeeps
  <1>7. \/ Does(c, Idle)
        \/ \E a \in Accounts : \E seen \in {New, account[a]} :
              (seen = New \/ (There(a) /\ seen = account[a])) /\ Does(c, q(a, seen))
    <2> HIDE DEF after
    <2> DEFINE old == Matching(call[c].user, call[c].purpose, call[c].address)
    <2>1. \/ \E a \in old : Does(c, q(a, account[a]))
          \/ \E a \in Accounts : Does(c, q(a, New))
          \/ Does(c, Idle)
      BY DEF Look, after
    <2>2. \A a \in old : a \in Accounts /\ There(a)
      BY DEF Matching
    <2> HIDE DEF old, q
    <2> QED
      BY <2>1, <2>2
  <1> HIDE DEF after, q
  <1> QED
    BY <1>5, <1>6, <1>7

(* A state is traded: a consent of which there was nothing before.         *)
LEMMA TradeKeeps ==
    ASSUME CInv, NEW c \in Clients, call[c] = Idle, NEW r \in started, NEW code \in codes,
           code.state = r.state, Traded(c, r, code), started' = started \ {r},
           UNCHANGED <<revoked, account, latest, spoilt>>
    PROVE  Rest' /\ Types' /\ StartedOnce'
  <1> DEFINE q == [kind |-> "tokens", user |-> r.user, purpose |-> r.purpose,
                   address |-> code.address, token |-> [grant |-> r.state, number |-> 0]]
  <1>1. Types /\ CallsMade /\ StartedOnce /\ Untouched /\ OneHome /\ NewIsUnheld /\ OneGood /\ NewIsFit
        /\ AllFit /\ RowsConnected
    BY DEF CInv, HInv
  <1>2. PICK s \in States : s = r.state
    BY <1>1 DEF Types
  <1>3. /\ used[s] = 0 /\ grants[s] = {} /\ (\A a \in Accounts : ~Home(a, s))
        /\ \A d \in Clients : ~Brings(d, s)
    BY <1>1, <1>2 DEF StartedOnce, Untouched
  <1>4. /\ used' = [used EXCEPT ![s] = 1] /\ grants' = [grants EXCEPT ![s] = {0}]
        /\ codes' = (codes \ {code}) \cup {[code EXCEPT !.spent = TRUE]} /\ Does(c, q)
    BY <1>1, <1>2, <1>3 DEF Traded, Types
  <1>5. /\ used'[s] = 1 /\ grants'[s] = {0}
        /\ \A x \in States \ {s} : used'[x] = used[x] /\ grants'[x] = grants[x]
        /\ used' \in [States -> {0, 1}] /\ grants' \in [States -> SUBSET Numbers]
    BY <1>1, <1>4, ZeroIsNumber DEF Types
  <1>6. r.user \in Users /\ r.purpose \in Purposes /\ code.address \in Addresses
    BY <1>1 DEF Types
  <1>7. q \in Calls
    <2>1. q.token \in Token
      BY <1>2, ZeroIsNumber DEF Token
    <2> QED
      BY <1>6, <2>1 DEF Calls
  <1>8. call'[c] = q /\ (\A d \in Clients \ {c} : call'[d] = call[d]) /\ call' \in [Clients -> Calls]
    BY <1>1, <1>4, <1>7, DoesOne
  <1>9. call'[c].kind = "tokens" /\ call'[c].token = [grant |-> s, number |-> 0]
    BY <1>2, <1>8
  <1> HIDE DEF q
  <1>10. /\ ~Works(c) /\ ~Connects(c) /\ ~Renewed(c) /\ (\A a : ~Reads(c, a))
    BY IdleDoes
  <1>11. /\ ~Works(c)' /\ ~Connects(c)' /\ ~Renewed(c)' /\ (\A a : ~Reads(c, a)')
         /\ (\A x : Brings(c, x)' <=> x = s) /\ (\A t : ~HeldBy(c, t)') /\ CallMade(c)'
    BY <1>9 DEF Works, Connects, Renewed, Reads, Brings, HeldBy, CallMade
  <1>12. NewFit(c)'
    <2>1. Good(call[c].token)'
      BY <1>5, <1>9 DEF Good
    <2> QED
      BY <1>9, <1>11, <2>1 DEF NewFit, Fit
  <1>13. ASSUME NEW d \in Clients \ {c}
         PROVE  /\ Works(d)' <=> Works(d)
                /\ Connects(d)' <=> Connects(d)
                /\ Renewed(d)' <=> Renewed(d)
                /\ \A a : Reads(d, a)' <=> Reads(d, a)
                /\ \A x : Brings(d, x)' <=> Brings(d, x)
                /\ \A t : HeldBy(d, t)' <=> HeldBy(d, t)
    BY <1>8, OthersKeep
  <1>14. ASSUME NEW t \in Token PROVE (Fit(t) => Fit(t)') /\ (Good(t) => Good(t)')
    <2>1. t.grant \in States
      BY DEF Token
    <2> QED
      BY <1>3, <1>5, <2>1 DEF Fit, Good
  <1>15. \A a \in Accounts : (There(a)' <=> There(a)) /\ \A t \in Token : HeldIn(a, t)' <=> HeldIn(a, t)
    BY DEF HeldIn, There
  <1>16. CallsMade'
    BY <1>1, <1>8, <1>11, CallsKeep, {c} \in SUBSET Clients
  <1>17. \A a \in Accounts, x \in States : Home(a, x)' <=> Home(a, x)
    BY <1>8, <1>10, <1>11, <1>13, <1>15 DEF Home
  <1>18. Untouched'
    <2> SUFFICES ASSUME NEW x \in States, used'[x] = 0
                 PROVE  /\ grants'[x] = {} /\ (\A a \in Accounts : ~Home(a, x)')
                        /\ \A d \in Clients : ~Brings(d, x)'
      BY DEF Untouched
    <2>1. x # s /\ used[x] = 0 /\ grants'[x] = grants[x]
      BY <1>5
    <2> QED
      BY <1>1, <1>11, <1>13, <1>17, <2>1 DEF Untouched
  <1>19. OneHome'
    BY <1>1, <1>3, <1>11, <1>13, <1>17 DEF OneHome
  <1>20. StartedOnce'
    <2>1. \A x \in started' : x \in started /\ x # r
      OBVIOUS
    <2>2. \A x \in started' : x.state \in States /\ x.state # s
      BY <1>1, <1>2, <2>1 DEF StartedOnce, Types
    <2> QED
      BY <1>1, <1>5, <2>1, <2>2 DEF StartedOnce
  <1>21. NewIsUnheld'
    <2>1. \A d \in Clients : Renewed(d)' => Renewed(d) /\ call'[d] = call[d]
      BY <1>8, <1>11, <1>13
    <2>2. \A d \in Clients, t \in Token : HeldBy(d, t)' => HeldBy(d, t)
      BY <1>11, <1>13
    <2> QED
      BY <1>1, <1>15, <2>1, <2>2, UnheldStays
  <1>22. OneGood'
    BY <1>1, <1>5 DEF OneGood
  <1>23. NewIsFit'
    BY <1>1, <1>8, <1>12, <1>14, NewFitStays DEF NewIsFit
  <1>24. AllFit'
    <2>1. \A d \in Clients, t \in Token : HeldBy(d, t)' => HeldBy(d, t)
      BY <1>11, <1>13
    <2> QED
      BY <1>1, <1>14, <1>15, <2>1, AllFitStays
  <1>25. ASSUME NEW a \in Accounts PROVE RowConnected(a)'
    <2>1. RowConnected(a)
      BY <1>1 DEF RowsConnected
    <2>2. There(a) => (Fit(account[a].token) => Fit(account[a].token)')
      <3> SUFFICES ASSUME There(a) PROVE Fit(account[a].token) => Fit(account[a].token)'
        OBVIOUS
      <3>1. PICK k \in Token : k = account[a].token
        BY <1>1, RowThere
      <3>2. Fit(k) => Fit(k)'
        BY <1>14
      <3> QED
        BY <3>1, <3>2 DEF Fit, Good
    <2>3. \A d \in Clients : Reads(d, a)' /\ ~Connects(d)' =>
             Reads(d, a) /\ ~Connects(d) /\ call'[d].seen = call[d].seen
      BY <1>8, <1>11, <1>13
    <2>4. ASSUME There(a), a \notin spoilt', NEW d \in Clients, Renewed(d), Reads(d, a),
                 Good(call[d].after.token), call[d].after.token.grant = account[a].token.grant
          PROVE  Renewed(d)' /\ Reads(d, a)' /\ Good(call[d].after.token)'
                    /\ call'[d].after.token.grant = account[a].token.grant
      <3>1. d # c /\ call'[d] = call[d]
        BY <1>8, <1>10, <2>4
      <3>2. PICK k \in Token : k = call[d].after.token
        BY <1>1, <2>4, HeldTokens DEF Renewed
      <3>3. Good(k)'
        BY <1>14, <2>4, <3>2
      <3>4. Good(call[d].after.token)'
        BY <3>1, <3>2, <3>3 DEF Good
      <3> QED
        BY <1>13, <2>4, <3>1, <3>4
    <2> QED
      BY <1>1, <1>15, <2>1, <2>2, <2>3, <2>4, RowStays
  <1>26. Types'
    <2>1. code \in [state: States, address: Addresses, spent: BOOLEAN]
      BY <1>1 DEF Types
    <2>2. [code EXCEPT !.spent = TRUE] \in [state: States, address: Addresses, spent: BOOLEAN]
      BY <2>1
    <2>3. codes' \subseteq [state: States, address: Addresses, spent: BOOLEAN]
      BY <1>1, <1>4, <2>2 DEF Types
    <2> QED
      BY <1>1, <1>5, <1>8, <2>3 DEF Types
  <1> QED
    BY <1>16, <1>18, <1>19, <1>20, <1>21, <1>22, <1>23, <1>24, <1>25, <1>26 DEF Rest, RowsConnected

(* What is held is in Held.                                                *)
LEMMA HeldAreHeld ==
    ASSUME NEW t
    PROVE  /\ \A a \in Accounts : HeldIn(a, t) => t \in Held
           /\ \A c \in Clients : HeldBy(c, t) => t \in Held
  BY DEF HeldIn, HeldBy, Held

(* What the provider does with a token that it is shown.                   *)
Kept(c) == grants' = grants /\ call'[c].after.token = call[c].after.token
Rotated(c, g, new) ==
    /\ Rotates /\ Good(call[c].after.token) /\ new \notin Held /\ new.grant = g
    /\ grants'[g] = (IF Revokes THEN {} ELSE grants[g]) \cup {new.number}
    /\ \A s \in States \ {g} : grants'[s] = grants[s]
    /\ grants' \in [States -> SUBSET Numbers]
    /\ \/ call'[c].after.token = new /\ ~call'[c].after.error /\ spoilt' = spoilt
       \/ /\ call'[c].after.token = call[c].after.token /\ call'[c].after.error
          /\ spoilt' = IF Rotates /\ Revokes THEN spoilt \cup {call[c].account} ELSE spoilt

LEMMA RefreshAnswers ==
    ASSUME Types, NEW c \in Clients, Refresh(c), NEW g \in States, g = call[c].after.token.grant
    PROVE  \/ Kept(c) /\ spoilt \subseteq spoilt' /\ (call'[c].after.error \/ Good(call[c].after.token))
           \/ \E new \in Token : Rotated(c, g, new)
  <1>1. Works(c) /\ (Succeeds(c) \/ FindsBad(c) \/ Loses(c))
    BY RefreshDoes
  <1>2. PICK old \in Token : old = call[c].after.token
    BY <1>1, WorkingCall
  <1>3. ASSUME RotatedAt(old)
        PROVE  /\ NewToken(old) \in Token /\ NewToken(old) \notin Held /\ NewToken(old).grant = g
               /\ grants'[g] = (IF Revokes THEN {} ELSE grants[g]) \cup {NewToken(old).number}
               /\ \A s \in States \ {g} : grants'[s] = grants[s]
               /\ grants' \in [States -> SUBSET Numbers]
    <2>1. NewToken(old) \in Token /\ NewToken(old) \notin Held /\ NewToken(old).grant = g
      BY <1>2, <1>3, NewTokenIsNew DEF RotatedAt
    <2>2. NewToken(old).number \in Numbers
      BY <2>1 DEF Token
    <2>3. grants' = [grants EXCEPT ![g] = (IF Revokes THEN {} ELSE grants[g]) \cup {NewToken(old).number}]
      BY <1>2, <1>3 DEF RotatedAt
    <2> QED
      BY <2>1, <2>2, <2>3 DEF Types
  <1>4. CASE Succeeds(c)
    <2>1. CASE Rotates
      <3>1. RotatedAt(old) /\ Good(old) /\ call'[c].after.token = NewToken(old) /\ ~call'[c].after.error
            /\ spoilt' = spoilt
        BY <1>2, <1>4, <2>1 DEF Succeeds
      <3>2. Rotated(c, g, NewToken(old)) /\ NewToken(old) \in Token
        BY <1>2, <1>3, <2>1, <3>1 DEF Rotated
      <3> QED
        BY <3>2
    <2>2. CASE ~Rotates
      BY <1>4, <2>2 DEF Succeeds, Kept
    <2> QED
      BY <2>1, <2>2
  <1>5. CASE FindsBad(c)
    BY <1>5 DEF FindsBad, Kept
  <1>6. CASE Loses(c)
    <2>1. CASE Rotates
      <3>1. RotatedAt(old) /\ Good(old) /\ call'[c].after.token = old /\ call'[c].after.error
            /\ spoilt' = IF Rotates /\ Revokes THEN spoilt \cup {call[c].account} ELSE spoilt
        BY <1>2, <1>6, <2>1 DEF Loses
      <3>2. Rotated(c, g, NewToken(old)) /\ NewToken(old) \in Token
        BY <1>2, <1>3, <2>1, <3>1 DEF Rotated
      <3> QED
        BY <3>2
    <2>2. CASE ~Rotates
      BY <1>6, <2>2 DEF Loses, Kept
    <2> QED
      BY <2>1, <2>2
  <1> QED
    BY <1>1, <1>4, <1>5, <1>6

(* A consent that is not the refreshed one keeps what it has, and so do    *)
(* the clients that hold another token: nobody else is given a token of    *)
(* this one.                                                               *)
LEMMA RefreshKeeps ==
    ASSUME CInv, NEW c \in Clients, Refresh(c)
    PROVE  Rest' /\ Types'
  <1>1. Types /\ CallsMade /\ StartedOnce /\ Untouched /\ OneHome /\ NewIsUnheld /\ OneGood /\ NewIsFit
        /\ AllFit /\ RowsConnected
    BY DEF CInv, HInv
  <1>2. /\ call[c].kind \in {"connect", "sync"} /\ Works(c) /\ call' \in [Clients -> Calls]
        /\ \A d \in Clients \ {c} : call'[d] = call[d]
        /\ call'[c].kind = (IF call[c].kind = "connect" THEN "connected" ELSE "done")
        /\ call'[c].account = call[c].account /\ call'[c].seen = call[c].seen
        /\ call'[c].after.token.grant = call[c].after.token.grant
        /\ UNCHANGED <<started, used, codes, revoked, account, latest>>
    BY <1>1, RefreshDoes
  <1>3. PICK old \in Token : old = call[c].after.token
    BY <1>1, <1>2, WorkingCall
  <1>4. PICK g \in States : g = old.grant
    BY DEF Token
  <1>5. PICK b \in Accounts : b = call[c].account
    BY <1>1, <1>2, WorkingCall
  <1>6. PICK new \in Token :
          \/ Kept(c) /\ spoilt \subseteq spoilt' /\ (call'[c].after.error \/ Good(old))
          \/ Rotated(c, g, new)
    BY <1>1, <1>2, <1>3, <1>4, RefreshAnswers
  <1>7. /\ call'[c].after.token = old \/ (Rotated(c, g, new) /\ call'[c].after.token = new)
        /\ spoilt \subseteq spoilt'
    BY <1>3, <1>6 DEF Kept, Rotated
  <1>8. /\ \A s \in States \ {g} : grants'[s] = grants[s]
        /\ ~(Rotates /\ Revokes) => \A s \in States : grants[s] \subseteq grants'[s]
        /\ grants[g] = {} => grants'[g] = {}
        /\ grants' \in [States -> SUBSET Numbers]
    <2>1. CASE grants' = grants
      BY <1>1, <2>1 DEF Types
    <2>2. CASE Rotated(c, g, new)
      BY <1>3, <1>4, <2>2 DEF Rotated, Good
    <2> QED
      BY <1>6, <2>1, <2>2 DEF Kept
  <1>9. Types'
    BY <1>1, <1>2, <1>8 DEF Types
  <1>10. /\ Works(c)' /\ (Connects(c)' <=> Connects(c)) /\ (\A a : Reads(c, a)' <=> Reads(c, a))
         /\ (\A s : Brings(c, s)' <=> Brings(c, s)) /\ ~Renewed(c)
         /\ HeldBy(c, old)
    <2>1. Works(c)' /\ ~Renewed(c)
      BY <1>2 DEF Works, Renewed
    <2>2. Connects(c)' <=> Connects(c)
      BY <1>2, <2>1 DEF Connects
    <2>3. \A s : Brings(c, s)' <=> Brings(c, s)
      BY <1>2, <2>2 DEF Brings
    <2>4. \A a : Reads(c, a)' <=> Reads(c, a)
      BY <1>2, <2>1 DEF Reads
    <2> QED
      BY <1>2, <1>3, <2>1, <2>2, <2>3, <2>4 DEF HeldBy
  <1>11. ASSUME NEW d \in Clients \ {c}
         PROVE  /\ Works(d)' <=> Works(d)
                /\ Connects(d)' <=> Connects(d)
                /\ Renewed(d)' <=> Renewed(d)
                /\ \A a : Reads(d, a)' <=> Reads(d, a)
                /\ \A s : Brings(d, s)' <=> Brings(d, s)
                /\ \A t : HeldBy(d, t)' <=> HeldBy(d, t)
    BY <1>2, OthersKeep
  <1>12. \A a \in Accounts : (There(a)' <=> There(a)) /\ \A t \in Token : HeldIn(a, t)' <=> HeldIn(a, t)
    BY <1>2 DEF HeldIn, There
  <1>13. call[c].kind = "sync" =>
           /\ ~Connects(c) /\ call[c].seen # New /\ call[c].seen.token = old /\ Home(b, g)
    <2> SUFFICES ASSUME call[c].kind = "sync"
                 PROVE  ~Connects(c) /\ call[c].seen # New /\ call[c].seen.token = old /\ Home(b, g)
      OBVIOUS
    <2>1. ~Connects(c) /\ call[c].after = call[c].seen
      BY <1>1 DEF CallsMade, CallMade
    <2>2. call[c].seen # New /\ call[c].seen.token = old
      BY <1>2, <1>3, <2>1 DEF Connects
    <2> QED
      BY <1>2, <1>4, <1>5, <2>1, <2>2 DEF Home, Reads
  <1>14. call[c].kind = "connect" => Connects(c) /\ Brings(c, g)
    BY <1>1, <1>3, <1>4 DEF CallsMade, CallMade, Brings
  <1>15. Renewed(c)' => call[c].kind = "sync" /\ Rotated(c, g, new) /\ call'[c].after.token = new
    BY <1>2, <1>7, <1>10, <1>13, <1>14 DEF Renewed
  <1>16. CallsMade'
    <2>1. CallMade(c)'
      <3>1. CallMade(c)
        BY <1>1 DEF CallsMade
      <3>2. Works(c)' /\ call'[c].seen # New => account'[call'[c].account] # New
        BY <1>2, <3>1 DEF CallMade
      <3>3. call'[c].kind # "sync" /\ (call'[c].kind \in {"connect", "connected"} => Connects(c)')
        BY <1>2, <1>10, <1>14
      <3>4. ~Connects(c)' /\ call'[c].after.token # call'[c].seen.token => Renewed(c)'
        BY <1>2, <1>10, <1>14 DEF Renewed
      <3> QED
        BY <3>2, <3>3, <3>4 DEF CallMade
    <2> QED
      BY <1>1, <1>2, <2>1, CallsKeep, {c} \in SUBSET Clients
  <1>17. Untouched' /\ OneHome'
    <2>1. ASSUME NEW a \in Accounts, NEW s \in States, Home(a, s)' PROVE Home(a, s)
      BY <1>2, <1>10, <1>11, <1>12, <2>1 DEF Home
    <2>2. \A d \in Clients, s \in States : Brings(d, s)' => Brings(d, s)
      BY <1>10, <1>11
    <2>3. \A s \in States : grants[s] = {} => grants'[s] = {}
      BY <1>8
    <2> QED
      BY <1>1, <1>2, <2>1, <2>2, <2>3, HomesShrink
  <1>18. ASSUME NEW t \in Token, HeldBy(c, t)'
         PROVE  HeldBy(c, t) \/ (Rotated(c, g, new) /\ t = new /\ call'[c].after.token = new)
    BY <1>2, <1>3, <1>7, <1>10, <1>18 DEF HeldBy
  <1>19. NewIsUnheld'
    <2> SUFFICES ASSUME NEW d \in Clients, Renewed(d)'
                 PROVE  /\ \A a \in Accounts : ~HeldIn(a, call[d].after.token)'
                        /\ \A e \in Clients \ {d} : ~HeldBy(e, call[d].after.token)'
      BY DEF NewIsUnheld
    <2>1. PICK k \in Token : k = call'[d].after.token
      BY <1>9, WorkingCallNext DEF Renewed
    <2>2. \A a \in Accounts : HeldIn(a, call[d].after.token)' <=> HeldIn(a, k)'
      BY <2>1 DEF HeldIn
    <2>3. \A e \in Clients : HeldBy(e, call[d].after.token)' <=> HeldBy(e, k)'
      BY <2>1 DEF HeldBy
    <2>4. CASE d = c
      <3>1. k = new /\ new \notin Held
        BY <1>15, <2>1, <2>4 DEF Rotated
      <3>2. \A a \in Accounts : ~HeldIn(a, k)'
        BY <1>12, <3>1, HeldAreHeld
      <3>3. \A e \in Clients \ {c} : ~HeldBy(e, k)'
        BY <1>11, <3>1, HeldAreHeld
      <3> QED
        BY <2>2, <2>3, <2>4, <3>2, <3>3
    <2>5. CASE d # c
      <3>1. Renewed(d) /\ call'[d] = call[d] /\ k = call[d].after.token
        BY <1>2, <1>11, <2>1, <2>5
      <3>2. /\ \A a \in Accounts : ~HeldIn(a, k)
            /\ \A e \in Clients \ {d} : ~HeldBy(e, k)
            /\ HeldBy(d, k)
        BY <1>1, <3>1 DEF NewIsUnheld, HeldBy, Renewed
      <3>3. k \in Held
        BY <3>2, HeldAreHeld
      <3>4. \A e \in Clients \ {d} : ~HeldBy(e, k)'
        BY <1>11, <1>18, <3>2, <3>3 DEF Rotated
      <3> QED
        BY <1>12, <2>2, <2>3, <3>2, <3>4
    <2> QED
      BY <2>4, <2>5
  <1>20. OneGood'
    <2>1. CASE grants' = grants
      BY <1>1, <2>1 DEF OneGood
    <2>2. CASE Rotated(c, g, new)
      BY <1>1, <2>2 DEF OneGood, Rotated
    <2>3. grants' = grants \/ Rotated(c, g, new)
      BY <1>6 DEF Kept
    <2> QED
      BY <2>1, <2>2, <2>3
  <1>21. ASSUME NEW t \in Token, Good(t),
                t.grant # g \/ grants' = grants \/ ~(Rotates /\ Revokes)
         PROVE  Good(t)'
    <2>1. t.grant \in States
      BY DEF Token
    <2> QED
      BY <1>8, <1>21, <2>1 DEF Good
  <1>22. ASSUME NEW t \in Token, Fit(t),
                t.grant # g \/ grants' = grants \/ ~(Rotates /\ Revokes)
         PROVE  Fit(t)'
    <2>1. CASE Good(t)
      BY <1>21, <1>22, <2>1 DEF Fit
    <2>2. CASE t.grant \in revoked
      BY <1>2, <2>2 DEF Fit
    <2> QED
      BY <1>22, <2>1, <2>2 DEF Fit
  <1>23. ASSUME grants' # grants, Rotates /\ Revokes PROVE grants[g] = {old.number}
    <2>1. Good(old)
      BY <1>3, <1>6, <1>23 DEF Kept, Rotated
    <2> QED
      BY <1>1, <1>4, <1>23, <2>1 DEF OneGood, Good
  <1>24. \A d \in Clients \ {c} : ~Brings(d, g)
    BY <1>1, <1>2, <1>13, <1>14 DEF OneHome
  <1>25. Rotated(c, g, new) => Good(new)'
    BY <1>4 DEF Rotated, Good
  <1>26. NewIsFit'
    <2> SUFFICES ASSUME NEW d \in Clients PROVE NewFit(d)'
      BY DEF NewIsFit
    <2>1. CASE d = c
      <3>1. ASSUME Connects(c)', ~call'[c].after.error PROVE Fit(call[c].after.token)'
        <4>1. CASE Rotated(c, g, new)
          BY <1>25, <3>1, <4>1 DEF Rotated, Fit, Good
        <4>2. CASE Kept(c) /\ Good(old)
          BY <1>3, <4>2 DEF Kept, Fit, Good
        <4> QED
          BY <1>6, <3>1, <4>1, <4>2
      <3>2. ASSUME Renewed(c)' PROVE Fit(call[c].after.token)'
        BY <1>15, <1>25, <3>2 DEF Fit, Good
      <3>3. call'[c].kind \notin {"tokens", "connect"}
        BY <1>2
      <3> QED
        BY <2>1, <3>1, <3>2, <3>3 DEF NewFit
    <2>2. CASE d # c
      <3>1. NewFit(d) /\ call'[d] = call[d]
        BY <1>1, <1>2, <2>2 DEF NewIsFit
      <3>2. ASSUME NEW t \in Token, Fit(t), Brings(d, t.grant) PROVE Fit(t)'
        BY <1>22, <1>24, <2>2, <3>2
      <3>3. ASSUME Renewed(d), Fit(call[d].after.token) PROVE Fit(call[d].after.token)'
        <4>1. PICK k \in Token : k = call[d].after.token
          BY <1>1, <3>3, HeldTokens DEF Renewed
        <4>2. CASE k.grant # g \/ grants' = grants \/ ~(Rotates /\ Revokes)
          <5>1. Fit(k)'
            BY <1>22, <3>3, <4>1, <4>2
          <5> QED
            BY <3>1, <4>1, <5>1 DEF Fit, Good
        <4>3. CASE k.grant \in revoked
          BY <1>2, <3>1, <4>1, <4>3 DEF Fit
        <4>4. CASE k.grant = g /\ grants' # grants /\ Rotates /\ Revokes /\ k.grant \notin revoked
          <5>1. k.number = old.number
            BY <1>23, <3>3, <4>1, <4>4 DEF Fit, Good
          <5>2. k = old
            BY <1>4, <4>4, <5>1 DEF Token
          <5> QED
            BY <1>1, <1>10, <2>2, <3>3, <4>1, <5>2 DEF NewIsUnheld
        <4> QED
          BY <4>2, <4>3, <4>4
      <3>4. ASSUME Connects(d), Fit(call[d].after.token) PROVE Fit(call[d].after.token)'
        <4>1. PICK k \in Token : k = call[d].after.token
          BY <1>1, <3>4, HeldTokens DEF Connects
        <4>2. Fit(k)'
          BY <3>2, <3>4, <4>1 DEF Brings
        <4> QED
          BY <3>1, <4>1, <4>2 DEF Fit, Good
      <3>5. ASSUME call[d].kind = "tokens", Fit(call[d].token) PROVE Fit(call[d].token)'
        <4>1. PICK k \in Token : k = call[d].token
          BY <1>1, <3>5, HeldTokens
        <4>2. Fit(k)'
          BY <3>2, <3>5, <4>1 DEF Brings
        <4> QED
          BY <3>1, <4>1, <4>2 DEF Fit, Good
      <3> QED
        BY <1>11, <2>2, <3>1, <3>3, <3>4, <3>5 DEF NewFit
    <2> QED
      BY <2>1, <2>2
  <1>27. AllFit'
    <2>1. ASSUME ~(Rotates /\ Revokes), NEW d \in Clients, NEW t \in Token, HeldBy(d, t)'
          PROVE  Fit(t)' \/ HeldBy(d, t)
      BY <1>11, <1>18, <1>25, <2>1 DEF Fit
    <2>2. ~(Rotates /\ Revokes) => \A t \in Token : Fit(t) => Fit(t)'
      BY <1>22
    <2>3. \A a \in Accounts, t \in Token : HeldIn(a, t)' => HeldIn(a, t)
      BY <1>12
    <2>4. ~(Rotates /\ Revokes) => \A e \in Clients, t \in Token : HeldBy(e, t)' => Fit(t)' \/ HeldBy(e, t)
      BY <2>1
    <2> QED
      BY <1>1, <2>2, <2>3, <2>4, AllFitStays
  <1>28. ASSUME NEW a \in Accounts PROVE RowConnected(a)'
    <2>1. RowConnected(a)
      BY <1>1 DEF RowsConnected
    <2> SUFFICES ASSUME There(a)', a \notin spoilt' PROVE RowConnected(a)'
      BY DEF RowConnected
    <2>2. There(a) /\ a \notin spoilt /\ account'[a] = account[a] /\ latest'[a] = latest[a]
      BY <1>2, <1>7, <1>12
    <2>3. PICK k \in Token : k = account[a].token
      BY <1>1, <2>2, RowThere
    <2>4. \A d \in Clients : Reads(d, a)' /\ ~Connects(d)' =>
             Reads(d, a) /\ ~Connects(d) /\ call'[d].seen = call[d].seen
      BY <1>2, <1>10, <1>11
    <2>5. CASE k.grant # g \/ grants' = grants \/ ~(Rotates /\ Revokes)
      <3>1. Fit(account[a].token) => Fit(account[a].token)'
        <4>1. Fit(k) => Fit(k)'
          BY <1>22, <2>5
        <4> QED
          BY <2>2, <2>3, <4>1 DEF Fit, Good
      <3>2. ASSUME NEW d \in Clients, Renewed(d), Reads(d, a), Good(call[d].after.token),
                   call[d].after.token.grant = account[a].token.grant
            PROVE  Renewed(d)' /\ Reads(d, a)' /\ Good(call[d].after.token)'
                    /\ call'[d].after.token.grant = account[a].token.grant
        <4>1. d # c /\ call'[d] = call[d]
          BY <1>2, <1>10, <3>2
        <4>2. PICK m \in Token : m = call[d].after.token
          BY <1>1, <3>2, HeldTokens DEF Renewed
        <4>3. Good(m)'
          BY <1>21, <2>3, <2>5, <3>2, <4>2
        <4>4. Good(call[d].after.token)'
          BY <4>1, <4>2, <4>3 DEF Good
        <4> QED
          BY <1>11, <3>2, <4>1, <4>4
      <3> QED
        BY <1>1, <2>1, <2>2, <2>4, <3>1, <3>2, RowStays
    <2>6. CASE k.grant = g /\ grants' # grants /\ Rotates /\ Revokes
      <3>1. Home(a, g)
        BY <2>2, <2>3, <2>6 DEF Home
      <3>2. call[c].kind = "sync"
        BY <1>1, <1>2, <1>14, <3>1 DEF OneHome
      <3>3. a = b
        BY <1>1, <1>13, <3>1, <3>2 DEF OneHome
      <3>4. Rotated(c, g, new)
        BY <1>6, <2>6 DEF Kept
      <3>5. call'[c].after.token = new
        BY <1>5, <2>6, <3>3, <3>4 DEF Rotated
      <3>6. new # old
        BY <1>10, <3>4, HeldAreHeld DEF Rotated
      <3>7. Renewed(c)'
        BY <1>2, <1>10, <1>13, <3>2, <3>5, <3>6 DEF Renewed
      <3>8. Reads(c, a)'
        BY <1>2, <1>5, <1>10, <1>13, <3>2, <3>3 DEF Reads
      <3>9. Good(call[c].after.token)' /\ call'[c].after.token.grant = account'[a].token.grant
        BY <1>25, <2>2, <2>3, <2>6, <3>4, <3>5 DEF Good, Rotated
      <3>10. account[a].token.grant \in latest[a]
             /\ \A d \in Clients : Reads(d, a) /\ ~Connects(d) =>
                    call[d].seen.token.grant = account[a].token.grant
        BY <2>1, <2>2 DEF RowConnected
      <3> QED
        BY <2>2, <2>4, <3>7, <3>8, <3>9, <3>10 DEF RowConnected
    <2> QED
      BY <2>5, <2>6
  <1> QED
    BY <1>9, <1>16, <1>17, <1>19, <1>20, <1>26, <1>27, <1>28 DEF Rest, RowsConnected

(* The row that a commit writes, and what becomes of it.                   *)
Writes(c, a) ==
    /\ account'[a] \in Row /\ \A x \in Accounts \ {a} : account'[x] = account[x]
    /\ account' \in [Accounts -> {New, Gone} \cup Row] /\ latest' \in [Accounts -> SUBSET States]
    /\ \/ call[c].seen = New /\ account[a] = New
       \/ call[c].seen # New /\ a = call[c].account /\ There(a)
    /\ \A x \in Accounts \ {a} : latest'[x] = latest[x] /\ (x \in spoilt <=> x \in spoilt')
    /\ Connects(c) => /\ account'[a].token = call[c].after.token
                      /\ latest'[a] = {call[c].after.token.grant}
                      /\ a \notin spoilt' => ~Overlapped(c, a) /\ ~call[c].after.error
    /\ ~Connects(c) => /\ account'[a].token = IF call[c].after.token = call[c].seen.token
                                              THEN account[a].token ELSE call[c].after.token
                       /\ latest' = latest /\ spoilt' = spoilt

LEMMA CommitDoes ==
    ASSUME Types, NEW c \in Clients, Commit(c)
    PROVE  /\ Works(c) /\ call[c].kind \in {"done", "connected"} /\ Does(c, Idle)
           /\ UNCHANGED <<started, used, codes, grants, revoked>>
           /\ \/ /\ call[c].seen # New /\ ~There(call[c].account)
                 /\ UNCHANGED <<account, latest, spoilt>>
              \/ \E a \in Accounts : Writes(c, a)
  <1> DEFINE seen == call[c].seen
             after == call[c].after
             a == IF seen = New THEN NextId ELSE call[c].account
             connects == seen = New \/ after.token.grant # seen.token.grant
  <1>1. /\ Works(c) /\ call[c].kind \in {"done", "connected"} /\ Does(c, Idle)
        /\ UNCHANGED <<started, used, codes, grants, revoked>>
    BY DEF Commit, Works
  <1>2. \/ seen # New /\ ~There(a) /\ UNCHANGED <<account, latest, spoilt>>
        \/ /\ seen # New => There(a)
           /\ seen = New => Unused # {}
           /\ account' = [account EXCEPT ![a] = IF seen = New THEN after ELSE Written(@, seen, after)]
           /\ latest' = IF connects THEN [latest EXCEPT ![a] = {after.token.grant}] ELSE latest
           /\ spoilt' = IF ~connects THEN spoilt
                        ELSE IF Overlapped(c, a) \/ after.error THEN spoilt \cup {a} ELSE spoilt \ {a}
    BY DEF Commit, Same
  <1>3. CASE seen # New /\ ~There(a) /\ UNCHANGED <<account, latest, spoilt>>
    BY <1>1, <1>3
  <1>4. CASE /\ seen # New => There(a)
             /\ seen = New => Unused # {}
             /\ account' = [account EXCEPT ![a] = IF seen = New THEN after ELSE Written(@, seen, after)]
             /\ latest' = IF connects THEN [latest EXCEPT ![a] = {after.token.grant}] ELSE latest
             /\ spoilt' = IF ~connects THEN spoilt
                        ELSE IF Overlapped(c, a) \/ after.error THEN spoilt \cup {a} ELSE spoilt \ {a}
    <2>1. after \in Row /\ after.token \in Token /\ (seen # New => seen \in Row) /\ call[c].account \in Accounts
      BY <1>1, WorkingCall
    <2>2. a \in Accounts /\ (seen = New => account[a] = New)
      <3>1. seen = New => NextId \in Unused
        BY <1>4 DEF NextId
      <3> QED
        BY <2>1, <3>1 DEF Unused
    <2>3. connects <=> Connects(c)
      BY <1>1 DEF Connects
    <2>4. seen # New => account[a] \in Row
      BY <1>4, <2>2, RowThere
    <2> DEFINE row == IF seen = New THEN after ELSE Written(account[a], seen, after)
    <2>5. row \in Row
      BY <2>1, <2>4, WrittenRow
    <2>6. row.token = IF seen = New \/ after.token # seen.token THEN after.token ELSE account[a].token
      BY <2>1, <2>4, WrittenRow
    <2>7. PICK b \in Accounts : b = a
      BY <2>2
    <2>8. account' = [account EXCEPT ![b] = row] /\ account'[b] = row
          /\ \A x \in Accounts \ {b} : account'[x] = account[x]
      BY <1>4, <2>7 DEF Types
    <2>9. account' \in [Accounts -> {New, Gone} \cup Row]
      <3> HIDE DEF row
      <3> QED
        BY <2>5, <2>8 DEF Types
    <2>10. after.token.grant \in States
      BY <2>1 DEF Token
    <2>11. /\ latest' \in [Accounts -> SUBSET States]
           /\ \A x \in Accounts \ {b} : latest'[x] = latest[x]
           /\ Connects(c) => latest'[b] = {after.token.grant}
           /\ ~Connects(c) => latest' = latest
      <3>1. CASE connects
        <4>1. latest' = [latest EXCEPT ![b] = {after.token.grant}]
          BY <1>4, <2>7, <3>1
        <4> QED
          BY <2>3, <2>10, <3>1, <4>1 DEF Types
      <3>2. CASE ~connects
        BY <1>4, <2>3, <3>2 DEF Types
      <3> QED
        BY <3>1, <3>2
    <2>12. /\ \A x \in Accounts \ {b} : x \in spoilt <=> x \in spoilt'
           /\ Connects(c) /\ b \notin spoilt' => ~Overlapped(c, b) /\ ~after.error
           /\ ~Connects(c) => spoilt' = spoilt
      BY <1>4, <2>3, <2>7
    <2>13. Connects(c) => row.token = after.token
      BY <2>6 DEF Connects
    <2>14. ~Connects(c) => row.token = IF after.token = seen.token THEN account[b].token ELSE after.token
      BY <1>1, <2>6, <2>7 DEF Connects
    <2>15. \/ seen = New /\ account[b] = New
           \/ seen # New /\ b = call[c].account /\ There(b)
      BY <1>4, <2>2, <2>7
    <2> HIDE DEF row, seen, after, a
    <2>16. Writes(c, b)
      BY <2>5, <2>8, <2>9, <2>11, <2>12, <2>13, <2>14, <2>15 DEF Writes, seen, after
    <2> QED
      BY <1>1, <2>16
  <1> QED
    BY <1>2, <1>3, <1>4

(* A commit takes a new consent to its row, or the next token to a row     *)
(* that has been this consent's home.                                      *)
LEMMA CommitKeeps ==
    ASSUME CInv, NEW c \in Clients, Commit(c)
    PROVE  Rest' /\ Types'
  <1>1. Types /\ CallsMade /\ StartedOnce /\ Untouched /\ OneHome /\ NewIsUnheld /\ OneGood /\ NewIsFit
        /\ AllFit /\ RowsConnected
    BY DEF CInv, HInv
  <1>2. /\ Works(c) /\ call[c].kind \in {"done", "connected"} /\ Does(c, Idle)
        /\ UNCHANGED <<started, used, codes, grants, revoked>>
        /\ \/ /\ call[c].seen # New /\ ~There(call[c].account)
              /\ UNCHANGED <<account, latest, spoilt>>
           \/ \E a \in Accounts : Writes(c, a)
    BY <1>1, CommitDoes
  <1>3. CASE call[c].seen # New /\ ~There(call[c].account) /\ UNCHANGED <<account, latest, spoilt>>
    <2>1. \A x \in Accounts : ~(Renewed(c) /\ Reads(c, x) /\ There(x))
      BY <1>3 DEF Reads
    <2>2. spoilt \subseteq spoilt'
      BY <1>3
    <2>3. Rest' /\ call' \in [Clients -> Calls]
      BY <1>2, <1>3, <2>1, <2>2, IdleKeeps
    <2> QED
      BY <1>1, <1>2, <1>3, <2>3 DEF Types
  <1>4. ASSUME NEW a \in Accounts, Writes(c, a) PROVE Rest' /\ Types'
    <2>1. call'[c] = Idle /\ (\A d \in Clients \ {c} : call'[d] = call[d]) /\ call' \in [Clients -> Calls]
      <3>1. PICK q : q = Idle
        OBVIOUS
      <3>2. q \in Calls /\ Does(c, q)
        BY <1>2, <3>1, IdleHolds
      <3> QED
        BY <1>1, <3>1, <3>2, DoesOne
    <2>2. Types'
      BY <1>1, <1>2, <1>4, <2>1 DEF Types, Writes
    <2>3. ~Works(c)' /\ ~Connects(c)' /\ ~Renewed(c)' /\ (\A x : ~Reads(c, x)')
          /\ (\A s : ~Brings(c, s)') /\ (\A t : ~HeldBy(c, t)') /\ CallMade(c)' /\ NewFit(c)'
      BY <2>1, IdleDoesNext
    <2>4. ASSUME NEW d \in Clients \ {c}
          PROVE  /\ Works(d)' <=> Works(d)
                 /\ Connects(d)' <=> Connects(d)
                 /\ Renewed(d)' <=> Renewed(d)
                 /\ \A x : Reads(d, x)' <=> Reads(d, x)
                 /\ \A s : Brings(d, s)' <=> Brings(d, s)
                 /\ \A t : HeldBy(d, t)' <=> HeldBy(d, t)
      BY <2>1, OthersKeep
    <2>5. PICK t0 \in Token : t0 = call[c].after.token
      BY <1>1, <1>2, WorkingCall
    <2>6. PICK s0 \in States : s0 = t0.grant
      BY DEF Token
    <2>7. \A t \in Token : Fit(t) <=> Fit(t)'
      BY <1>2 DEF Fit, Good
    <2>8. ~Connects(c) =>
            /\ call[c].seen # New /\ a = call[c].account /\ There(a) /\ Home(a, s0)
            /\ call[c].seen.token.grant = s0 /\ Reads(c, a)
      <3> SUFFICES ASSUME ~Connects(c)
                   PROVE  /\ call[c].seen # New /\ a = call[c].account /\ There(a) /\ Home(a, s0)
                          /\ call[c].seen.token.grant = s0 /\ Reads(c, a)
        OBVIOUS
      <3>1. call[c].seen # New /\ call[c].seen.token.grant = s0
        BY <1>2, <2>5, <2>6 DEF Connects
      <3>2. a = call[c].account /\ There(a)
        BY <1>4, <3>1 DEF Writes
      <3> QED
        BY <1>2, <3>1, <3>2 DEF Home, Reads
    <2>9. Connects(c) => Brings(c, s0)
      BY <2>5, <2>6 DEF Brings
    <2>10. \A x \in Accounts \ {a} : account'[x] = account[x] /\ (There(x)' <=> There(x))
                                     /\ \A t \in Token : HeldIn(x, t)' <=> HeldIn(x, t)
      BY <1>4 DEF Writes, There, HeldIn
    <2>11. account'[a] \in Row /\ There(a)'
      BY <1>4 DEF Writes, There, Row
    <2>12. /\ Connects(c) => account'[a].token = t0
           /\ ~Connects(c) => account'[a].token = IF t0 = call[c].seen.token
                                                  THEN account[a].token ELSE t0
      BY <1>4, <2>5 DEF Writes
    <2>13. HeldBy(c, t0)
      BY <1>2, <2>5 DEF HeldBy
    <2>14. ASSUME NEW t \in Token, HeldIn(a, t)' PROVE HeldIn(a, t) \/ HeldBy(c, t)
      BY <2>8, <2>12, <2>13, <2>14 DEF HeldIn
    <2>15. CallsMade'
      <3>1. \A x \in Accounts : account[x] # New => account'[x] # New
        BY <2>10, <2>11, NoneIsRow
      <3> QED
        BY <1>1, <2>1, <2>3, <3>1, CallsKeep, {c} \in SUBSET Clients
    <2>16. ASSUME NEW x \in Accounts, NEW s \in States, Home(x, s)'
           PROVE  Home(x, s) \/ (Connects(c) /\ x = a /\ s = s0)
      <3>1. ASSUME NEW d \in Clients, Reads(d, x)', call'[d].seen.token.grant = s PROVE Home(x, s)
        BY <2>1, <2>3, <2>4, <3>1 DEF Home
      <3>2. ASSUME There(x)', account'[x].token.grant = s, x # a PROVE Home(x, s)
        BY <2>10, <3>2 DEF Home
      <3>3. ASSUME account'[a].token.grant = s PROVE Home(a, s) \/ (Connects(c) /\ s = s0)
        BY <2>6, <2>8, <2>12, <3>3 DEF Home
      <3> QED
        BY <2>16, <3>1, <3>2, <3>3 DEF Home
    <2>17. \A d \in Clients, s \in States : Brings(d, s)' => d # c /\ Brings(d, s)
      BY <2>3, <2>4
    <2>18. Untouched'
      <3> SUFFICES ASSUME NEW s \in States, used'[s] = 0
                   PROVE  /\ grants'[s] = {} /\ (\A x \in Accounts : ~Home(x, s)')
                          /\ \A d \in Clients : ~Brings(d, s)'
        BY DEF Untouched
      <3>1. grants[s] = {} /\ (\A x \in Accounts : ~Home(x, s)) /\ \A d \in Clients : ~Brings(d, s)
        BY <1>1, <1>2 DEF Untouched
      <3>2. ~(Connects(c) /\ s = s0)
        BY <2>9, <3>1
      <3> QED
        BY <1>2, <2>16, <2>17, <3>1, <3>2
    <2>19. OneHome'
      <3> SUFFICES ASSUME NEW s \in States
                   PROVE  /\ \A x, y \in Accounts : Home(x, s)' /\ Home(y, s)' => x = y
                          /\ \A d \in Clients : Brings(d, s)' =>
                                (\A x \in Accounts : ~Home(x, s)')
                                /\ (\A e \in Clients : Brings(e, s)' => e = d)
        BY DEF OneHome
      <3>1. /\ \A x, y \in Accounts : Home(x, s) /\ Home(y, s) => x = y
            /\ \A d \in Clients : Brings(d, s) =>
                  (\A x \in Accounts : ~Home(x, s)) /\ (\A e \in Clients : Brings(e, s) => e = d)
        BY <1>1 DEF OneHome
      <3>2. CASE Connects(c) /\ s = s0
        <4>1. \A x \in Accounts : Home(x, s)' => x = a
          BY <2>9, <2>16, <3>1, <3>2
        <4>2. \A d \in Clients : ~Brings(d, s)'
          BY <2>9, <2>17, <3>1, <3>2
        <4> QED
          BY <4>1, <4>2
      <3>3. CASE ~(Connects(c) /\ s = s0)
        <4>1. \A x \in Accounts : Home(x, s)' => Home(x, s)
          BY <2>16, <3>3
        <4> QED
          BY <2>17, <3>1, <4>1
      <3> QED
        BY <3>2, <3>3
    <2>20. NewIsUnheld'
      <3>1. \A d \in Clients : Renewed(d)' => Renewed(d) /\ call'[d] = call[d]
        BY <2>1, <2>3, <2>4
      <3>2. \A d \in Clients, t \in Token : HeldBy(d, t)' => HeldBy(d, t)
        BY <2>3, <2>4
      <3>3. \A x \in Accounts, t \in Token : HeldIn(x, t)' =>
               HeldIn(x, t) \/ (\E e \in Clients : ~Renewed(e)' /\ HeldBy(e, t))
        BY <2>3, <2>10, <2>14
      <3> QED
        BY <1>1, <3>1, <3>2, <3>3, UnheldStays
    <2>21. OneGood'
      BY <1>1, <1>2 DEF OneGood
    <2>22. NewIsFit'
      BY <1>1, <2>1, <2>3, <2>7, NewFitStays DEF NewIsFit
    <2>23. AllFit'
      <3>1. \A d \in Clients, t \in Token : HeldBy(d, t)' => HeldBy(d, t)
        BY <2>3, <2>4
      <3>2. \A x \in Accounts, t \in Token : HeldIn(x, t)' =>
               HeldIn(x, t) \/ (\E e \in Clients : HeldBy(e, t))
        BY <2>10, <2>14
      <3> QED
        BY <1>1, <2>7, <3>1, <3>2, AllFitStays
    <2>24. ASSUME NEW x \in Accounts \ {a} PROVE RowConnected(x)'
      <3>1. RowConnected(x) /\ latest'[x] = latest[x] /\ (x \notin spoilt' => x \notin spoilt)
        BY <1>1, <1>4 DEF RowsConnected, Writes
      <3>2. Fit(account[x].token) => Fit(account[x].token)'
        BY <1>2, <2>10 DEF Fit, Good
      <3>3. \A d \in Clients : Reads(d, x)' /\ ~Connects(d)' =>
               Reads(d, x) /\ ~Connects(d) /\ call'[d].seen = call[d].seen
        BY <2>1, <2>3, <2>4
      <3>4. ASSUME NEW d \in Clients, Renewed(d), Reads(d, x), Good(call[d].after.token),
                   call[d].after.token.grant = account[x].token.grant
            PROVE  Renewed(d)' /\ Reads(d, x)' /\ Good(call[d].after.token)'
                    /\ call'[d].after.token.grant = account[x].token.grant
        <4>1. d # c
          BY <2>8, <3>4 DEF Renewed, Reads
        <4>2. Good(call[d].after.token)'
          BY <1>2, <2>1, <3>4, <4>1 DEF Good
        <4> QED
          BY <2>1, <2>4, <3>4, <4>1, <4>2
      <3> QED
        BY <1>1, <2>10, <3>1, <3>2, <3>3, <3>4, RowStays
    <2>25. RowConnected(a)'
      <3> SUFFICES ASSUME a \notin spoilt'
                   PROVE  /\ account'[a].token.grant \in latest'[a]
                          /\ \A d \in Clients : Reads(d, a)' /\ ~Connects(d)' =>
                                call'[d].seen.token.grant = account'[a].token.grant
                          /\ \/ Fit(account[a].token)'
                             \/ \E d \in Clients : /\ Renewed(d)' /\ Reads(d, a)' /\ Good(call[d].after.token)'
                                 /\ call'[d].after.token.grant = account'[a].token.grant
        BY DEF RowConnected
      <3>1. CASE Connects(c)
        <4>1. account'[a].token = t0 /\ latest'[a] = {s0} /\ ~Overlapped(c, a) /\ ~call[c].after.error
          BY <1>4, <2>5, <2>6, <3>1 DEF Writes
        <4>2. Fit(t0)'
          BY <1>1, <2>5, <2>7, <3>1, <4>1 DEF NewIsFit, NewFit
        <4>3. Fit(account[a].token)'
          BY <4>1, <4>2 DEF Fit, Good
        <4>4. ASSUME NEW d \in Clients, Reads(d, a)', ~Connects(d)' PROVE FALSE
          <5>1. d # c /\ Reads(d, a) /\ ~Connects(d)
            BY <2>3, <2>4, <4>4
          <5>2. call[d].kind \in {"sync", "done"}
            BY <1>1, <5>1 DEF CallsMade, CallMade, Reads, Works
          <5> QED
            BY <4>1, <5>1, <5>2 DEF Overlapped, Holds, Reads
        <4> QED
          BY <2>6, <4>1, <4>3, <4>4
      <3>2. CASE ~Connects(c)
        <4>1. a \notin spoilt /\ There(a) /\ Reads(c, a) /\ latest' = latest
              /\ call[c].seen # New /\ call[c].seen.token.grant = s0
          BY <1>4, <2>8, <3>2 DEF Writes
        <4>2. RowConnected(a)
          BY <1>1 DEF RowsConnected
        <4>3. account[a].token.grant = s0 /\ s0 \in latest[a]
              /\ \A d \in Clients : Reads(d, a) /\ ~Connects(d) => call[d].seen.token.grant = s0
          BY <3>2, <4>1, <4>2 DEF RowConnected
        <4>4. account'[a].token.grant = s0
          BY <2>6, <2>12, <3>2, <4>3
        <4>5. \A d \in Clients : Reads(d, a)' /\ ~Connects(d)' => call'[d].seen.token.grant = s0
          BY <2>1, <2>3, <2>4, <4>3
        <4>6. CASE t0 # call[c].seen.token
          <5>1. Renewed(c)
            BY <1>1, <1>2, <2>5, <3>2, <4>6 DEF CallsMade, CallMade
          <5>2. Fit(t0)'
            BY <1>1, <2>5, <2>7, <5>1 DEF NewIsFit, NewFit
          <5>3. Fit(account[a].token)'
            BY <2>12, <3>2, <4>6, <5>2 DEF Fit, Good
          <5> QED
            BY <4>1, <4>3, <4>4, <4>5, <5>3
        <4>7. CASE t0 = call[c].seen.token
          <5>1. account'[a].token = account[a].token /\ ~Renewed(c)
            BY <2>5, <2>12, <3>2, <4>7 DEF Renewed
          <5>2. Fit(account[a].token) => Fit(account[a].token)'
            BY <1>2, <5>1 DEF Fit, Good
          <5>3. ASSUME NEW d \in Clients, Renewed(d), Reads(d, a), Good(call[d].after.token),
                       call[d].after.token.grant = account[a].token.grant
                PROVE  Renewed(d)' /\ Reads(d, a)' /\ Good(call[d].after.token)'
                        /\ call'[d].after.token.grant = account'[a].token.grant
            <6>1. d # c
              BY <5>1, <5>3
            <6>2. Good(call[d].after.token)'
              BY <1>2, <2>1, <5>3, <6>1 DEF Good
            <6> QED
              BY <2>1, <2>4, <5>1, <5>3, <6>1, <6>2
          <5>4. \/ Fit(account[a].token)
                \/ \E d \in Clients : /\ Renewed(d) /\ Reads(d, a) /\ Good(call[d].after.token)
                                      /\ call[d].after.token.grant = account[a].token.grant
            BY <4>1, <4>2 DEF RowConnected
          <5> QED
            BY <4>1, <4>3, <4>4, <4>5, <5>2, <5>3, <5>4
        <4> QED
          BY <4>6, <4>7
      <3> QED
        BY <3>1, <3>2
    <2>26. RowsConnected'
      BY <2>24, <2>25 DEF RowsConnected
    <2> QED
      BY <2>2, <2>15, <2>18, <2>19, <2>20, <2>21, <2>22, <2>23, <2>26 DEF Rest
  <1> QED
    BY <1>2, <1>3, <1>4

(* A crash loses a token that the provider has exchanged the old one for.  *)
LEMMA CrashKeeps ==
    ASSUME CInv, NEW c \in Clients, Crash(c)
    PROVE  Rest' /\ call' \in [Clients -> Calls]
  <1>1. Types /\ AllFit
    BY DEF CInv, HInv
  <1>2. /\ Does(c, Idle) /\ UNCHANGED <<used, grants, revoked, account, latest>>
        /\ spoilt' = IF /\ call[c].kind = "done" /\ Rotates /\ Revokes
                        /\ call[c].seen # New /\ call[c].after.token # call[c].seen.token
                     THEN spoilt \cup {call[c].account} ELSE spoilt
    BY DEF Crash
  <1>3. ASSUME NEW a \in Accounts, Renewed(c), Reads(c, a), There(a)
        PROVE  Fit(account[a].token) \/ a \in spoilt'
    <2>1. CASE Rotates /\ Revokes
      BY <1>2, <1>3, <2>1 DEF Renewed, Reads
    <2>2. CASE ~(Rotates /\ Revokes)
      BY <1>1, <1>3, <2>2, RowThere DEF AllFit, HeldIn
    <2> QED
      BY <2>1, <2>2
  <1>4. spoilt \subseteq spoilt'
    BY <1>2
  <1> QED
    BY <1>2, <1>3, <1>4, IdleKeeps

LEMMA ConsentInit == Init => CInv
  <1> SUFFICES ASSUME Init PROVE CInv
    OBVIOUS
  <1>1. Types
    BY ZeroIsNumber DEF Init, Types, Calls
  <1>2. \A d \in Clients : /\ ~Works(d) /\ ~Connects(d) /\ ~Renewed(d) /\ (\A a : ~Reads(d, a))
                           /\ (\A s : ~Brings(d, s)) /\ (\A t : ~HeldBy(d, t)) /\ CallMade(d) /\ NewFit(d)
    BY IdleDoes DEF Init
  <1>3. \A a \in Accounts : ~There(a) /\ (\A t : ~HeldIn(a, t)) /\ (\A s : ~Home(a, s))
    BY <1>2 DEF Init, There, HeldIn, Home, New
  <1>4. CallsMade /\ NewIsFit /\ NewIsUnheld /\ OneHome /\ RowsConnected
    BY <1>2, <1>3 DEF CallsMade, NewIsFit, NewIsUnheld, OneHome, RowsConnected, RowConnected
  <1>5. StartedOnce /\ Untouched /\ OneGood
    BY <1>2, <1>3 DEF Init, StartedOnce, Untouched, OneGood
  <1>6. AllFit
    BY <1>2, <1>3 DEF AllFit
  <1> QED
    BY <1>1, <1>4, <1>5, <1>6 DEF CInv, HInv

(* What was started is redeemed or forgotten.                              *)
LEMMA StartedShrinks ==
    ASSUME StartedOnce, started' \subseteq started, used' = used
    PROVE  StartedOnce'
  BY DEF StartedOnce

LEMMA ConsentStep == CInv /\ [Next]_vars => CInv'
  <1> SUFFICES ASSUME CInv, [Next]_vars PROVE CInv'
    OBVIOUS
  <1>1. Types /\ StartedOnce
    BY DEF CInv, HInv
  <1> USE DEF Same
  <1>2. ASSUME NEW c \in Clients, Refresh(c) PROVE CInv'
    <2>1. started' = started /\ used' = used
      BY <1>1, <1>2, RefreshDoes
    <2> QED
      BY <1>1, <1>2, <2>1, RefreshKeeps, StartedShrinks DEF Rest, CInv, HInv
  <1>3. ASSUME NEW c \in Clients, Commit(c) PROVE CInv'
    <2>1. started' = started /\ used' = used
      BY <1>1, <1>3, CommitDoes
    <2> QED
      BY <1>1, <1>3, <2>1, CommitKeeps, StartedShrinks DEF Rest, CInv, HInv
  <1>4. ASSUME NEW c \in Clients, Look(c) PROVE CInv'
    <2>1. Rest' /\ call' \in [Clients -> Calls]
      BY <1>4, LookKeeps
    <2>2. UNCHANGED <<started, used, codes, grants, account, latest>>
      BY <1>4 DEF Look
    <2> QED
      BY <1>1, <2>1, <2>2, StartedShrinks DEF Types, Rest, CInv, HInv
  <1>5. ASSUME NEW c \in Clients, Crash(c) PROVE CInv'
    <2>1. Rest' /\ call' \in [Clients -> Calls]
      BY <1>5, CrashKeeps
    <2>2. UNCHANGED <<started, used, codes, grants, account, latest>>
      BY <1>5 DEF Crash
    <2> QED
      BY <1>1, <2>1, <2>2, StartedShrinks DEF Types, Rest, CInv, HInv
  <1>6. ASSUME NEW c \in Clients, NEW a \in Accounts, StartSync(c, a) PROVE CInv'
    <2>1. Rest' /\ call' \in [Clients -> Calls]
      BY <1>6, StartSyncKeeps
    <2>2. UNCHANGED <<started, used, codes, grants, account, latest>>
      BY <1>6 DEF StartSync
    <2> QED
      BY <1>1, <2>1, <2>2, StartedShrinks DEF Types, Rest, CInv, HInv
  <1>7. ASSUME NEW c \in Tabs, GiveUp(c) PROVE CInv'
    <2>1. /\ c \in Clients /\ call[c].kind = "tokens" /\ Does(c, Idle)
          /\ UNCHANGED <<started, used, codes, grants, revoked, account, latest, spoilt>>
      BY <1>7 DEF GiveUp, Clients
    <2>2. ~Renewed(c)
      BY <1>1, <2>1, TokensCall DEF Renewed
    <2>3. spoilt \subseteq spoilt'
      BY <2>1
    <2>4. Rest' /\ call' \in [Clients -> Calls]
      BY <2>1, <2>2, <2>3, IdleKeeps
    <2> QED
      BY <1>1, <2>1, <2>4, StartedShrinks DEF Types, Rest, CInv, HInv
  <1>8. ASSUME NEW c \in Tabs, NEW u \in Users, NEW code \in codes, Redeem(c, u, code) PROVE CInv'
    <2>1. c \in Clients /\ call[c] = Idle
      BY <1>8 DEF Redeem, Clients
    <2>2. PICK r \in started :
            /\ r.state = code.state /\ started' = started \ {r}
            /\ IF r.user = u /\ ~code.spent THEN Traded(c, r, code)
               ELSE UNCHANGED <<used, grants, codes, call>>
      BY <1>8 DEF Redeem
    <2>3. UNCHANGED <<revoked, account, latest, spoilt>>
      BY <1>8 DEF Redeem
    <2>4. CASE Traded(c, r, code)
      BY <2>1, <2>2, <2>3, <2>4, TradeKeeps DEF Rest, CInv, HInv
    <2>5. CASE UNCHANGED <<used, grants, codes, call>>
      <3>1. Rest'
        BY <2>3, <2>5, QuietKeeps DEF There
      <3> QED
        BY <1>1, <2>2, <2>3, <2>5, <3>1, StartedShrinks DEF Types, Rest, CInv, HInv
    <2> QED
      BY <2>2, <2>4, <2>5
  <1>9. ASSUME NEW u \in Users, NEW purpose \in Purposes, NEW s \in States, Start(u, purpose, s)
        PROVE  CInv'
    <2>1. /\ \A r \in started : r.state # s
          /\ used[s] = 0 /\ started' = started \cup {[state |-> s, user |-> u, purpose |-> purpose]}
          /\ UNCHANGED <<used, codes, grants, revoked, account, latest, spoilt, call>>
      BY <1>9 DEF Start
    <2>2. Rest'
      BY <2>1, QuietKeeps DEF There
    <2>3. StartedOnce'
      BY <1>1, <2>1 DEF StartedOnce
    <2>4. Types'
      BY <1>1, <2>1 DEF Types
    <2> QED
      BY <2>2, <2>3, <2>4 DEF Rest, CInv, HInv
  <1>10. ASSUME NEW r \in started, Expire(r) PROVE CInv'
    <2>1. /\ started' = started \ {r}
          /\ UNCHANGED <<used, codes, grants, revoked, account, latest, spoilt, call>>
      BY <1>10 DEF Expire
    <2>2. Rest'
      BY <2>1, QuietKeeps DEF There
    <2> QED
      BY <1>1, <2>1, <2>2, StartedShrinks DEF Types, Rest, CInv, HInv
  <1>11. ASSUME NEW r \in started, NEW b \in Addresses, Agree(r, b) PROVE CInv'
    <2>1. /\ codes' = codes \cup {[state |-> r.state, address |-> b, spent |-> FALSE]}
          /\ UNCHANGED <<started, used, grants, revoked, account, latest, spoilt, call>>
      BY <1>11 DEF Agree
    <2>2. Rest'
      BY <2>1, QuietKeeps DEF There
    <2>3. [state |-> r.state, address |-> b, spent |-> FALSE]
             \in [state: States, address: Addresses, spent: BOOLEAN]
      <3>1. r.state \in States
        BY <1>1 DEF Types
      <3> QED
        BY <3>1
    <2>4. Types'
      BY <1>1, <2>1, <2>3 DEF Types
    <2> QED
      BY <1>1, <2>1, <2>2, <2>4, StartedShrinks DEF Rest, CInv, HInv
  <1>12. ASSUME NEW a \in Accounts, Switch(a) PROVE CInv'
    <2>1. /\ There(a) /\ account' = [account EXCEPT ![a].enabled = ~@]
          /\ UNCHANGED <<started, used, codes, grants, revoked, latest, spoilt, call>>
      BY <1>12 DEF Switch
    <2>2. account[a] \in Row
      BY <1>1, <2>1, RowThere
    <2>3. /\ account'[a] \in Row /\ account'[a].token = account[a].token
          /\ \A x \in Accounts \ {a} : account'[x] = account[x]
          /\ account' \in [Accounts -> {New, Gone} \cup Row]
      <3> DEFINE row == [account[a] EXCEPT !.enabled = ~@]
      <3>1. row \in Row /\ row.token = account[a].token
        BY <2>2 DEF Row
      <3>2. account' = [account EXCEPT ![a] = row]
        BY <2>1
      <3> HIDE DEF row
      <3> QED
        BY <1>1, <3>1, <3>2 DEF Types
    <2>4. Rest'
      BY <2>1, <2>3, NoneIsRow, QuietKeeps DEF There
    <2> QED
      BY <1>1, <2>1, <2>3, <2>4, StartedShrinks DEF Types, Rest, CInv, HInv
  <1>13. ASSUME NEW a \in Accounts, Delete(a) PROVE CInv'
    <2>1. /\ There(a) /\ account' = [account EXCEPT ![a] = Gone]
          /\ UNCHANGED <<started, used, codes, grants, revoked, latest, spoilt, call>>
      BY <1>13 DEF Delete
    <2>2. /\ account'[a] = Gone /\ \A x \in Accounts \ {a} : account'[x] = account[x]
          /\ account' \in [Accounts -> {New, Gone} \cup Row]
      BY <1>1, <2>1 DEF Types
    <2>3. Rest'
      BY <2>1, <2>2, NoneIsRow, QuietKeeps DEF There
    <2> QED
      BY <1>1, <2>1, <2>2, <2>3, StartedShrinks DEF Types, Rest, CInv, HInv
  <1>14. ASSUME NEW s \in States, TakeBack(s) PROVE CInv'
    <2>1. /\ grants' = [grants EXCEPT ![s] = {}] /\ revoked' = revoked \cup {s}
          /\ UNCHANGED <<started, used, codes, account, latest, spoilt, call>>
      BY <1>14 DEF TakeBack
    <2>2. /\ \A x \in States : grants'[x] = grants[x] \/ (grants'[x] = {} /\ x \in revoked')
          /\ grants' \in [States -> SUBSET Numbers]
      BY <1>1, <2>1 DEF Types
    <2>3. Rest'
      BY <2>1, <2>2, QuietKeeps DEF There
    <2> QED
      BY <1>1, <2>1, <2>2, <2>3, StartedShrinks DEF Types, Rest, CInv, HInv
  <1>15. CASE UNCHANGED vars
    <2>1. UNCHANGED <<started, used, codes, grants, revoked, account, latest, spoilt, call>>
      BY <1>15 DEF vars
    <2>2. Rest'
      BY <2>1, QuietKeeps DEF There
    <2> QED
      BY <1>1, <2>1, <2>2, StartedShrinks DEF Types, Rest, CInv, HInv
  <1> QED
    BY <1>2, <1>3, <1>4, <1>5, <1>6, <1>7, <1>8, <1>9, <1>10, <1>11, <1>12, <1>13, <1>14, <1>15
    DEF Next, SyncNext

LEMMA ConsentInvariant == Spec => []CInv
  BY ConsentInit, ConsentStep, PTL DEF Spec

(* A state is redeemed once (consume_state), and rows and calls keep their *)
(* shape.                                                                  *)
THEOREM TypeCorrect == Spec => []TypeOK
  <1>1. CInv => TypeOK
    <2> SUFFICES ASSUME Types PROVE TypeOK
      BY DEF CInv, HInv
    <2>1. \A c \in Clients : call[c].kind \in {"idle", "tokens", "connect", "connected", "sync", "done"}
      BY DEF Types, Calls, Idle
    <2> QED
      BY <2>1 DEF Types, TypeOK
  <1> QED
    BY <1>1, ConsentInvariant, PTL

(* Rotation loses no token to a second sync, to a failure or to a          *)
(* connection made anew (_oauth_access, sync_connection, connect).         *)
THEOREM TokensAreKept == Spec => []StaysConnected
  <1>1. CInv => StaysConnected
    <2> SUFFICES ASSUME CInv, NEW a \in Accounts, There(a), a \notin spoilt
                 PROVE  /\ account[a].token.grant \in latest[a]
                        /\ \/ Good(account[a].token) \/ account[a].token.grant \in revoked
                           \/ \E c \in Clients : Holds(c, a) /\ Good(call[c].after.token)
      BY DEF StaysConnected
    <2>1. RowConnected(a)
      BY DEF CInv, RowsConnected
    <2>2. \A c \in Clients : Renewed(c) /\ Reads(c, a) => Holds(c, a)
      BY DEF Renewed, Reads, Holds
    <2> QED
      BY <2>1, <2>2 DEF RowConnected, Fit
  <1> QED
    BY <1>1, ConsentInvariant, PTL

-----------------------------------------------------------------------------
(* Who may hold a token of a consent: the one row that is its home, and    *)
(* each client two.                                                        *)
Holders == (Clients \X {1, 2}) \cup {<<Worker, 0>>}
HolderOf(h, t) ==
    \/ h = <<Worker, 0>> /\ \E a \in Accounts : HeldIn(a, t)
    \/ \E c \in Clients : h = <<c, 1>> /\ Works(c) /\ call[c].after.token = t
    \/ \E c \in Clients : h = <<c, 2>> /\ Works(c) /\ call[c].seen # New /\ call[c].seen.token = t

LEMMA FewerHolders ==
    /\ IsFiniteSet(Holders) /\ IsFiniteSet(Numbers)
    /\ Cardinality(Holders) < Cardinality(Numbers)
  <1>1. IsFiniteSet(Clients) /\ Cardinality(Clients) \in Nat
    BY ConsentAssumption, FS_AddElement, FS_CardinalityType DEF Clients
  <1>2. IsFiniteSet({1, 2}) /\ Cardinality({1, 2}) = 2
    <2>1. 1 .. 2 = {1, 2}
      OBVIOUS
    <2>2. IsFiniteSet(1 .. 2) /\ Cardinality(1 .. 2) = IF 1 > 2 THEN 0 ELSE 2 - 1 + 1
      BY FS_Interval, 1 \in Int, 2 \in Int
    <2> QED
      BY <2>1, <2>2
  <1>3. /\ IsFiniteSet(Clients \X {1, 2})
        /\ Cardinality(Clients \X {1, 2}) = Cardinality(Clients) * Cardinality({1, 2})
    BY <1>1, <1>2, FS_Product
  <1>4. Cardinality(Clients \X {1, 2}) = 2 * Cardinality(Clients)
    BY <1>1, <1>2, <1>3
  <1>5. IsFiniteSet((Clients \X {1, 2}) \cup {<<Worker, 0>>}) /\
        Cardinality((Clients \X {1, 2}) \cup {<<Worker, 0>>})
           \in {2 * Cardinality(Clients), 2 * Cardinality(Clients) + 1}
    BY <1>3, <1>4, FS_AddElement
  <1>6. Holders = (Clients \X {1, 2}) \cup {<<Worker, 0>>}
    BY DEF Holders
  <1>7. IsFiniteSet(Numbers) /\ Cardinality(Numbers) = 2 * Cardinality(Clients) + 2
    BY <1>1, FS_Interval DEF Numbers
  <1> QED
    BY <1>1, <1>5, <1>6, <1>7

(* A number is free for every new token, so the provider always answers:   *)
(* the numbers do not bound the behaviours.                                *)
LEMMA OneIsFree ==
    ASSUME CInv, NEW token \in Token PROVE \E n \in Numbers : Unheld(token, n)
  <1> SUFFICES ASSUME \A n \in Numbers : ~Unheld(token, n) PROVE FALSE
    OBVIOUS
  <1>1. Types /\ OneHome
    BY DEF CInv, HInv
  <1>2. PICK g \in States : g = token.grant
    BY DEF Token
  <1> DEFINE t(n) == [token EXCEPT !.number = n]
             f == [n \in Numbers |-> CHOOSE h \in Holders : HolderOf(h, t(n))]
  <1>3. \A n \in Numbers : t(n).grant = g /\ t(n).number = n
    BY <1>2 DEF Token
  <1>4. ASSUME NEW n \in Numbers PROVE f[n] \in Holders /\ HolderOf(f[n], t(n))
    <2>1. t(n) \in Held
      BY DEF Unheld
    <2> HIDE DEF t
    <2>2. \E h \in Holders : HolderOf(h, t(n))
      <3>1. CASE \E a \in Accounts : HeldIn(a, t(n))
        BY <3>1 DEF HolderOf, Holders
      <3>2. ASSUME NEW c \in Clients, Works(c), call[c].after.token = t(n)
            PROVE  \E h \in Holders : HolderOf(h, t(n))
        <4>1. <<c, 1>> \in Holders /\ HolderOf(<<c, 1>>, t(n))
          BY <3>2 DEF HolderOf, Holders
        <4> QED
          BY <4>1
      <3>3. ASSUME NEW c \in Clients, Works(c), call[c].seen # New, call[c].seen.token = t(n)
            PROVE  \E h \in Holders : HolderOf(h, t(n))
        <4>1. <<c, 2>> \in Holders /\ HolderOf(<<c, 2>>, t(n))
          BY <3>3 DEF HolderOf, Holders
        <4> QED
          BY <4>1
      <3> QED
        BY <2>1, <3>1, <3>2, <3>3 DEF Held, HeldIn
    <2> QED
      BY <2>2
  <1> HIDE DEF f
  <1>5. f \in [Numbers -> Holders]
    <2>1. f = [n \in Numbers |-> f[n]]
      BY DEF f
    <2> QED
      BY <1>4, <2>1
  <1>6. PICK m, n \in Numbers : m # n /\ f[m] = f[n]
    BY <1>5, FewerHolders, FS_PigeonHole
  <1>7. HolderOf(f[m], t(m)) /\ HolderOf(f[m], t(n)) /\ t(m) # t(n) /\ t(m).grant = g /\ t(n).grant = g
    BY <1>3, <1>4, <1>6
  <1> HIDE DEF t
  <1>8. CASE f[m] = <<Worker, 0>>
    <2>1. PICK a \in Accounts, b \in Accounts : HeldIn(a, t(m)) /\ HeldIn(b, t(n))
      BY <1>7, <1>8 DEF HolderOf
    <2>2. Home(a, g) /\ Home(b, g)
      BY <1>7, <2>1 DEF HeldIn, Home
    <2>3. a = b
      BY <1>1, <2>2 DEF OneHome
    <2> QED
      BY <1>7, <2>1, <2>3 DEF HeldIn
  <1>9. CASE f[m] # <<Worker, 0>>
    BY <1>7, <1>9 DEF HolderOf
  <1> QED
    BY <1>8, <1>9

(* The guard of RotatedAt never stands in the way: the provider can always *)
(* hand out a token that nobody holds.                                     *)
THEOREM ATokenIsFree == Spec => [](\A token \in Token : \E n \in Numbers : Unheld(token, n))
  <1>1. CInv => \A token \in Token : \E n \in Numbers : Unheld(token, n)
    BY OneIsFree
  <1> QED
    BY <1>1, ConsentInvariant, PTL
=============================================================================
