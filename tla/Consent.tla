------------------------------- MODULE Consent -------------------------------
(***************************************************************************)
(* Connecting a mailbox or a calendar by OAuth (services/mail_oauth.py,    *)
(* api/mail_oauth.py, api/calendar_sync.py) and living on the refresh token*)
(* that the consent gave: every sync trades it for an access token, and    *)
(* the provider may hand out a new refresh token each time.                *)
(*                                                                         *)
(* A request reads, asks the provider, and commits: the columns that       *)
(* differ from what it read.  Connecting a calendar keeps its row locked   *)
(* during the first sync.                                                  *)
(***************************************************************************)
EXTENDS Integers, FiniteSets

CONSTANTS
    Users, Tabs, Worker,
    States,         \* the random value that leads back from the provider
    Addresses,      \* accounts people have at the provider
    Accounts,       \* ids of mailboxes and calendar connections
    Rotates,        \* the provider hands out a new refresh token each time
    Revokes,        \* and takes back the old one
    MaxAccounts,    \* MAX_ACCOUNTS, MAX_CONNECTIONS
    MaxOps, MaxFaults   \* bounds

ASSUME ConsentAssumption ==
    /\ Worker \notin Tabs /\ IsFiniteSet(Tabs) /\ IsFiniteSet(Accounts) /\ IsFiniteSet(States)
    /\ Rotates \in BOOLEAN /\ Revokes \in BOOLEAN
    /\ MaxAccounts \in Nat \ {0} /\ MaxOps \in Nat /\ MaxFaults \in Nat

VARIABLES
    started,    \* Redis: who started which connection with each state
    used,       \* history: states given out, and how often each was redeemed
    codes,      \* provider: codes people have been sent back with
    grants,     \* provider: the refresh tokens that are good, by consent
    revoked,    \* history: consents that people have taken back
    account,    \* rows of mail_accounts and calendar_connections
    latest,     \* history: the consent each row was last connected with
    spoilt,     \* history: rows whose token a crash or an overlap may have lost
    call,       \* what each client has under way
    ops, faults

vars == <<started, used, codes, grants, revoked, account, latest, spoilt, call, ops, faults>>

Clients == Tabs \cup {Worker}
Purposes == {"mail", "calendar"}
Idle == [kind |-> "idle"]
New == [is |-> "new"]
Unused == {a \in Accounts : account[a] = New}
NextId == CHOOSE a \in Unused : TRUE
Gone == [is |-> "gone"]

(* A consent bears the name of the state it was given for; its tokens are  *)
(* numbered, and a number is used again when nobody holds the token: a row *)
(* holds one, a client two, so one is always free.                         *)
Numbers == 0 .. 2 * Cardinality(Clients) + 1
Token == [grant: States, number: Numbers]
Row == [is: {"there"}, owner: Users, purpose: Purposes, address: Addresses,
        token: Token, enabled: BOOLEAN, error: BOOLEAN]

There(a) == account[a].is = "there"
Good(token) == token.number \in grants[token.grant]

(* A sync that may write a row, and the first sync of a calendar, which    *)
(* keeps the row it writes locked.                                         *)
Holds(c, a) == /\ call[c].kind \in {"sync", "done"}
               /\ call[c].account = a /\ call[c].seen # New
Locked(a) == \E c \in Clients : /\ call[c].kind \in {"connect", "connected"}
                                /\ call[c].account = a /\ call[c].seen # New
Works(c) == call[c].kind \in {"sync", "connect", "connected", "done"}
Held == {account[a].token : a \in {x \in Accounts : There(x)}}
        \cup {call[c].after.token : c \in {x \in Clients : Works(x)}}
        \cup {call[c].seen.token : c \in {x \in Clients : Works(x) /\ call[x].seen # New}}

Init ==
    /\ started = {} /\ used = [s \in States |-> 0] /\ codes = {}
    /\ grants = [s \in States |-> {}] /\ revoked = {}
    /\ account = [a \in Accounts |-> New] /\ latest = [a \in Accounts |-> {}]
    /\ spoilt = {} /\ call = [c \in Clients |-> Idle]
    /\ ops = 0 /\ faults = 0

Op == ops < MaxOps /\ ops' = ops + 1 /\ UNCHANGED faults
Fault == faults < MaxFaults /\ faults' = faults + 1 /\ UNCHANGED ops
Free == UNCHANGED <<ops, faults>>
Does(c, what) == call' = [call EXCEPT ![c] = what]
Same == UNCHANGED <<account, latest, spoilt>>

(* The user is sent to the provider.                                       *)
Start(u, purpose, s) ==
    /\ \A r \in started : r.state # s
    /\ used[s] = 0 /\ s \notin {x.state : x \in codes}
    /\ started' = started \cup {[state |-> s, user |-> u, purpose |-> purpose]}
    /\ Op /\ Same /\ UNCHANGED <<used, codes, grants, revoked, call>>

(* STATE_TTL is over.                                                      *)
Expire(r) ==
    /\ started' = started \ {r}
    /\ Fault /\ Same /\ UNCHANGED <<used, codes, grants, revoked, call>>

(* A person agrees, and the browser comes back with a code.                *)
Agree(r, b) ==
    /\ \A x \in codes : x.state # r.state \/ x.address # b
    /\ codes' = codes \cup {[state |-> r.state, address |-> b, spent |-> FALSE]}
    /\ Op /\ Same /\ UNCHANGED <<started, used, grants, revoked, call>>

(* The state is taken out of Redis, whoever brings it; the code is traded  *)
(* for tokens if it is the user who started.                               *)
Traded(c, r, code) ==
    /\ used' = [used EXCEPT ![r.state] = @ + 1]
    /\ grants' = [grants EXCEPT ![r.state] = {0}]
    /\ codes' = (codes \ {code}) \cup {[code EXCEPT !.spent = TRUE]}
    /\ Does(c, [kind |-> "tokens", user |-> r.user, purpose |-> r.purpose,
                address |-> code.address, token |-> [grant |-> r.state, number |-> 0]])

(* Mutant: the state stays in Redis until its time is over. *)
RedeemKeepsState(c, u, code) ==
    /\ call[c] = Idle
    /\ \E r \in started : r.state = code.state /\ r.user = u /\ ~code.spent /\ Traded(c, r, code)
    /\ Op /\ Same /\ UNCHANGED <<started, revoked>>

Redeem(c, u, code) ==
    /\ call[c] = Idle
    /\ \E r \in started :
          /\ r.state = code.state /\ started' = started \ {r}
          /\ IF r.user = u /\ ~code.spent THEN Traded(c, r, code)
             ELSE UNCHANGED <<used, grants, codes, call>>
    /\ Op /\ Same /\ UNCHANGED revoked

(* The exchange, the first listing or the first fetch fails.               *)
GiveUp(c) ==
    /\ call[c].kind = "tokens" /\ Does(c, Idle)
    /\ Free /\ Same /\ UNCHANGED <<started, used, codes, grants, revoked>>

(* Is there a row for this address already, or room for another?           *)
Matching(u, purpose, b) ==
    {a \in Accounts : There(a) /\ account[a].owner = u /\ account[a].purpose = purpose
                               /\ account[a].address = b}
OwnedBy(u, purpose) ==
    {a \in Accounts : There(a) /\ account[a].owner = u /\ account[a].purpose = purpose}

Look(c) ==
    /\ call[c].kind = "tokens"
    /\ LET old == Matching(call[c].user, call[c].purpose, call[c].address)
           after == [is |-> "there", owner |-> call[c].user, purpose |-> call[c].purpose,
                     address |-> call[c].address, token |-> call[c].token,
                     enabled |-> TRUE, error |-> FALSE]
           save(a, seen) ==
              /\ call[c].purpose = "calendar" /\ seen # New => ~Locked(a)
              /\ Does(c, [kind |-> IF call[c].purpose = "mail" THEN "done" ELSE "connect",
                          account |-> a, seen |-> seen, after |-> after])
       IN  IF old # {} THEN \E a \in old : save(a, account[a])
           ELSE IF Cardinality(OwnedBy(call[c].user, call[c].purpose)) < MaxAccounts
                THEN \E a \in Accounts : a = NextId /\ save(a, New)
                ELSE Does(c, Idle)
    /\ Free /\ Same /\ UNCHANGED <<started, used, codes, grants, revoked>>

(* Mutant: an account that shows an error is left out. *)
StartSyncUnfailed(c, a) ==
    /\ call[c] = Idle /\ There(a) /\ ~account[a].error
    /\ IF c = Worker THEN account[a].enabled /\ Free ELSE Op
    /\ Does(c, [kind |-> "sync", account |-> a, seen |-> account[a], after |-> account[a]])
    /\ Same /\ UNCHANGED <<started, used, codes, grants, revoked>>

(* The worker, for every account that is enabled, or a person.             *)
StartSync(c, a) ==
    /\ call[c] = Idle /\ There(a)
    /\ IF c = Worker THEN account[a].enabled /\ Free ELSE Op
    /\ Does(c, [kind |-> "sync", account |-> a, seen |-> account[a], after |-> account[a]])
    /\ Same /\ UNCHANGED <<started, used, codes, grants, revoked>>

(* The refresh token is traded for an access token and perhaps for a new   *)
(* refresh token.  If the answer is lost the sync has failed.              *)
Unheld(token, n) == [token EXCEPT !.number = n] \notin Held
NewToken(token) == [token EXCEPT !.number = CHOOSE n \in Numbers : Unheld(token, n)]

RotatedAt(token) ==
    /\ \E n \in Numbers : Unheld(token, n)
    /\ grants' = [grants EXCEPT ![token.grant] =
                     (IF Revokes THEN {} ELSE @) \cup {NewToken(token).number}]

Refresh(c) ==
    /\ call[c].kind \in {"connect", "sync"}
    /\ LET token == call[c].after.token
           then(new, failed) ==
              Does(c, [kind |-> IF call[c].kind = "connect" THEN "connected" ELSE "done",
                       account |-> call[c].account, seen |-> call[c].seen,
                       after |-> [call[c].after EXCEPT !.token = new, !.error = failed]])
       IN  \/ ~Good(token) /\ then(token, TRUE) /\ Free /\ UNCHANGED <<grants, spoilt>>
           \/ /\ Good(token) /\ Free /\ UNCHANGED spoilt
              /\ IF Rotates THEN RotatedAt(token) /\ then(NewToken(token), FALSE)
                            ELSE then(token, FALSE) /\ UNCHANGED grants
           \/ /\ Good(token) /\ Fault /\ then(token, TRUE)
              /\ IF Rotates THEN RotatedAt(token) ELSE UNCHANGED grants
              /\ spoilt' = IF Rotates /\ Revokes THEN spoilt \cup {call[c].account} ELSE spoilt
    /\ UNCHANGED <<started, used, codes, revoked, account, latest>>

(* Mutant: the new refresh token is not stored. *)
WrittenWithoutToken(row, seen, after) ==
    [row EXCEPT !.error = after.error, !.enabled = after.enabled]

(* Only columns that differ from what was read are written.                *)
Written(row, seen, after) ==
    [column \in DOMAIN row |-> IF after[column] = seen[column] THEN row[column] ELSE after[column]]

(* The request commits.  A new row gets its id; a row that is gone makes   *)
(* the request fail.                                                       *)
Overlapped(c, a) == \E x \in Clients \ {c} : Holds(x, a)
Commit(c) ==
    /\ call[c].kind \in {"done", "connected"}
    /\ LET seen == call[c].seen
           after == call[c].after
           a == IF seen = New THEN NextId ELSE call[c].account
           connects == seen = New \/ after.token.grant # seen.token.grant
       IN  IF seen # New /\ ~There(a) THEN Same
           ELSE /\ seen = New => Unused # {}
                /\ call[c].kind = "done" /\ seen # New => ~Locked(a)
                /\ account' = [account EXCEPT ![a] =
                                 IF seen = New THEN after ELSE Written(@, seen, after)]
                /\ latest' = IF connects THEN [latest EXCEPT ![a] = {after.token.grant}] ELSE latest
                /\ spoilt' = IF ~connects THEN spoilt
                             ELSE IF Overlapped(c, a) \/ after.error THEN spoilt \cup {a} ELSE spoilt \ {a}
    /\ Does(c, Idle)
    /\ Free /\ UNCHANGED <<started, used, codes, grants, revoked>>

(* The server or the worker stops; what the provider did stays done.       *)
Crash(c) ==
    /\ call[c] # Idle /\ Does(c, Idle)
    /\ spoilt' = IF /\ call[c].kind = "done" /\ Rotates /\ Revokes
                    /\ call[c].seen # New /\ call[c].after.token # call[c].seen.token
                 THEN spoilt \cup {call[c].account} ELSE spoilt
    /\ Fault /\ UNCHANGED <<started, used, codes, grants, revoked, account, latest>>

(* People pause, delete, or take a consent back at the provider.           *)
Switch(a) ==
    /\ There(a) /\ ~Locked(a)
    /\ account' = [account EXCEPT ![a].enabled = ~@]
    /\ Op /\ UNCHANGED <<started, used, codes, grants, revoked, latest, spoilt, call>>

Delete(a) ==
    /\ There(a) /\ ~Locked(a)
    /\ account' = [account EXCEPT ![a] = Gone]
    /\ Op /\ UNCHANGED <<started, used, codes, grants, revoked, latest, spoilt, call>>

TakeBack(s) ==
    /\ grants[s] # {}
    /\ grants' = [grants EXCEPT ![s] = {}] /\ revoked' = revoked \cup {s}
    /\ Op /\ Same /\ UNCHANGED <<started, used, codes, call>>

SyncNext(c) == Refresh(c) \/ Commit(c) \/ Look(c)
Next ==
    \/ \E c \in Clients : SyncNext(c) \/ Crash(c)
    \/ \E c \in Clients, a \in Accounts : StartSync(c, a)
    \/ \E c \in Tabs : GiveUp(c) \/ (\E u \in Users, code \in codes : Redeem(c, u, code))
    \/ \E u \in Users, purpose \in Purposes, s \in States : Start(u, purpose, s)
    \/ \E r \in started : Expire(r) \/ (\E b \in Addresses : Agree(r, b))
    \/ \E a \in Accounts : Switch(a) \/ Delete(a)
    \/ \E s \in States : TakeBack(s)

Spec == Init /\ [][Next]_vars

(* Requests come to an end, and a round of the worker comes to every       *)
(* account that is due.                                                    *)
Fairness ==
    /\ \A c \in Clients : WF_vars(SyncNext(c))
    /\ \A a \in Accounts : SF_vars(StartSync(Worker, a))
FairSpec == Spec /\ Fairness

(* Rows and calls have their shape, and a state out of Redis is redeemed   *)
(* once, whatever the browser repeats and whichever codes it brings.       *)
TypeOK ==
    /\ \A a \in Accounts : account[a] \in {New, Gone} \cup Row
    /\ \A c \in Clients : call[c].kind \in {"idle", "tokens", "connect", "connected", "sync", "done"}
    /\ \A s \in States : used[s] <= 1
    /\ \A s \in States : grants[s] \subseteq Numbers

(* What is stored is a token of the latest consent and still good, unless  *)
(* the consent was taken back or a sync is about to store the next token:  *)
(* rotation (_oauth_access, sync_connection) loses no token to a second    *)
(* sync, a failure or a connection made anew.  Excepted are a crash or a   *)
(* lost answer after the provider took the old token back, and a           *)
(* connection made while an older sync was under way.                      *)
StaysConnected ==
    \A a \in Accounts : There(a) /\ a \notin spoilt =>
        LET token == account[a].token IN
        /\ token.grant \in latest[a]
        /\ \/ Good(token) \/ token.grant \in revoked
           \/ \E c \in Clients : Holds(c, a) /\ Good(call[c].after.token)

(* The same without the second exception: what is stored is a token of the *)
(* latest consent.                                                         *)
StaysConnectedEver == \A a \in Accounts : There(a) => account[a].token.grant \in latest[a]

(* An account whose token is good does not show an error for ever: one     *)
(* failure, one second sync that came too late, is made up for             *)
(* (last_error in sync_account and sync_connection).                       *)
ErrorsPass ==
    <>[](\A a \in Accounts : There(a) /\ account[a].enabled /\ Good(account[a].token) =>
                                 ~account[a].error)
================================================================================
