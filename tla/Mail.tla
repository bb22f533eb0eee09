---------------------------------- MODULE Mail ----------------------------------
(***************************************************************************)
(* Mailboxes (services/mail.py, api/mail.py, services/mail_rules.py): the  *)
(* worker and people fetch what is new over IMAP, rules and clicks make    *)
(* tasks and events of it.                                                 *)
(*                                                                         *)
(* A sync reads the row of the account, then the server, then applies the  *)
(* result in one transaction; nothing is locked in between, so two syncs   *)
(* of one account overlap.  The worker reads the rows of all accounts when *)
(* its round begins (the session keeps them over its commits).  Only       *)
(* columns that differ from what was read are written.                     *)
(*                                                                         *)
(* A mail is known by what it says and where it is delivered; its UID is a *)
(* number the server gives, under a UIDVALIDITY.  Names, bodies and flags  *)
(* are left out.                                                           *)
(***************************************************************************)
EXTENDS Integers, FiniteSets, FiniteSetsExt

CONSTANTS
    Accounts, Mails, Worker, Tabs,
    Mailbox,            \* where a mail is delivered
    Unreadable,         \* mails that cannot be parsed
    Ruled,              \* mails that meet the conditions of the owner's rule
    Invitations,        \* mails in which an appointment is found
    FirstBatch, Batch, MaxStored,   \* FIRST_BATCH, BATCH, MAX_STORED
    MaxOps, MaxFaults, MaxRounds    \* bounds

ASSUME MailAssumption ==
    /\ Worker \notin Tabs /\ IsFiniteSet(Mails) /\ IsFiniteSet(Accounts)
    /\ Mailbox \in [Mails -> Accounts]
    /\ Unreadable \subseteq Mails /\ Ruled \subseteq Mails /\ Invitations \subseteq Mails
    /\ FirstBatch \in Nat \ {0} /\ Batch \in Nat \ {0} /\ MaxStored \in Nat \ {0}
    /\ MaxOps \in Nat /\ MaxFaults \in Nat /\ MaxRounds \in Nat

VARIABLES
    validity, uid,      \* server: UIDVALIDITY, the UID of each mail (0: not there)
    recent,             \* server: mails not older than FIRST_SYNC_DAYS
    account,            \* rows of mail_accounts
    rule,               \* the owner's rule: "none", "on" or "off"
    stored,             \* rows of mail_messages
    due,                \* accounts whose refresh interval is over
    round,              \* the worker's round: accounts left, and the rows as read
    sync,               \* the sync a client has under way
    click,              \* the request a tab has under way
    tasks, events, made,    \* what has been made of mails
    excused,            \* history: numbers that need not be stored
    mixed,              \* history: accounts renumbered while two syncs ran
    clash, dropped,     \* history: mails with overlapping requests; no longer stored
    starved,            \* history: accounts left out because another one failed
    ops, faults, rounds

serverVars == <<validity, uid, recent>>
madeVars == <<tasks, events, made>>
historyVars == <<excused, mixed, clash, dropped, starved>>
boundVars == <<ops, faults, rounds>>
vars == <<serverVars, rule, account, stored, due, round, sync, click, madeVars, historyVars,
          boundVars>>

Clients == Tabs \cup {Worker}
Idle == [kind |-> "idle"]
NoAccount == [state |-> "new", enabled |-> TRUE, validity |-> 0, last |-> 0]
Row == [uid: Nat, mail: Mails, task: Nat,
        suggestion: {"none", "pending", "accepted", "dismissed"}]

Highest(S, n) == {x \in S : Cardinality({y \in S : y > x}) < n}
Lowest(S, n) == {x \in S : Cardinality({y \in S : y < x}) < n}
Top(S) == IF S = {} THEN 0 ELSE Max(S)

There(a) == account[a].state = "there"
Uids(a) == {uid[a][m] : m \in Mails} \ {0}
Uidsof(a, mails) == {uid[a][m] : m \in mails} \ {0}
MailOf(a, n) == CHOOSE m \in Mails : uid[a][m] = n

Init ==
    /\ validity = [a \in Accounts |-> 1]
    /\ uid = [a \in Accounts |-> [m \in Mails |-> 0]] /\ recent = Mails
    /\ account = [a \in Accounts |-> NoAccount] /\ rule \in {"none", "on"}
    /\ stored = [a \in Accounts |-> {}]
    /\ due = {} /\ round = [left |-> {}, rows |-> [a \in Accounts |-> NoAccount]]
    /\ sync = [c \in Clients |-> Idle] /\ click = [t \in Tabs |-> Idle]
    /\ tasks = {} /\ events = [m \in Mails |-> 0] /\ made = 0
    /\ excused = {} /\ mixed = {} /\ clash = {} /\ dropped = {} /\ starved = {}
    /\ ops = 0 /\ faults = 0 /\ rounds = 0

Op == ops < MaxOps /\ ops' = ops + 1 /\ UNCHANGED <<faults, rounds>>
Fault == faults < MaxFaults /\ faults' = faults + 1 /\ UNCHANGED <<ops, rounds>>

-----------------------------------------------------------------------------
(***************************************************************************)
(* The mail server.                                                        *)
(***************************************************************************)
ServerStep ==
    UNCHANGED <<rule, account, stored, due, round, sync, click, madeVars, historyVars>>

Arrive(a, m) ==
    /\ Mailbox[m] = a /\ uid[a][m] = 0 /\ m \in recent
    /\ uid' = [uid EXCEPT ![a][m] = Top(Uids(a)) + 1]
    /\ UNCHANGED <<validity, recent>> /\ ServerStep /\ Op

(* A mail becomes older than FIRST_SYNC_DAYS.                              *)
Age(m) ==
    /\ m \in recent /\ recent' = recent \ {m}
    /\ \E a \in Accounts : uid[a][m] # 0
    /\ UNCHANGED <<validity, uid>> /\ ServerStep /\ Op

(* The folder is made anew with some of its mails, in the order of before. *)
Renumber(a, mails) ==
    /\ mails # {} /\ \A m \in mails : uid[a][m] # 0
    /\ validity' = [validity EXCEPT ![a] = @ + 1]
    /\ uid' = [uid EXCEPT ![a] = [m \in Mails |->
                 IF m \in mails THEN Cardinality({n \in mails : uid[a][n] <= uid[a][m]}) ELSE 0]]
    /\ UNCHANGED recent /\ ServerStep /\ Op

-----------------------------------------------------------------------------
(***************************************************************************)
(* Fetching.                                                               *)
(***************************************************************************)
Syncing(a, row, limit, locks) ==
    [kind |-> "read", account |-> a, row |-> row, limit |-> limit, locks |-> locks]

(* A changed password is flushed before its sync, so that nobody else      *)
(* writes the row until that sync ends.                                    *)
Free(a, c) == \A d \in Clients \ {c} : sync[d] # Idle /\ sync[d].account = a => ~sync[d].locks

(* The first fetch comes before the row.                                   *)
AddAccount(c, a) ==
    /\ sync[c] = Idle /\ account[a].state = "new"
    /\ ~ \E d \in Clients : sync[d] # Idle /\ sync[d].account = a
    /\ sync' = [sync EXCEPT ![c] = Syncing(a, NoAccount, FirstBatch, FALSE)]
    /\ UNCHANGED <<serverVars, rule, account, stored, due, round, click, madeVars, historyVars>>
    /\ Op

SyncNow(c, a) ==
    /\ sync[c] = Idle /\ There(a)
    /\ sync' = [sync EXCEPT ![c] = Syncing(a, account[a], Batch, FALSE)]
    /\ UNCHANGED <<serverVars, rule, account, stored, due, round, click, madeVars, historyVars>>
    /\ Op

(* PATCH /mail/accounts/{id}                                               *)
ChangePassword(c, a) ==
    /\ sync[c] = Idle /\ There(a) /\ Free(a, c)
    /\ sync' = [sync EXCEPT ![c] = Syncing(a, account[a], Batch, TRUE)]
    /\ UNCHANGED <<serverVars, rule, account, stored, due, round, click, madeVars, historyVars>>
    /\ Op

Switch(a) ==
    /\ There(a) /\ \A c \in Clients : Free(a, c)
    /\ account' = [account EXCEPT ![a].enabled = ~@]
    /\ UNCHANGED <<serverVars, rule, stored, due, round, sync, click, madeVars, historyVars>>
    /\ Op

BecomeDue(a) ==
    /\ There(a) /\ a \notin due /\ due' = due \cup {a}
    /\ UNCHANGED <<serverVars, rule, account, stored, round, sync, click, madeVars, historyVars,
                   boundVars>>

(* sync_due_accounts: rows and due times are read once.                    *)
Overdue == {a \in due : account[a].enabled}

StartRound ==
    /\ round.left = {} /\ sync[Worker] = Idle /\ Overdue # {}
    /\ IF MaxRounds = 0 THEN UNCHANGED rounds
       ELSE rounds < MaxRounds /\ rounds' = rounds + 1
    /\ round' = [left |-> Overdue, rows |-> account]
    /\ UNCHANGED <<serverVars, rule, account, stored, due, sync, click, madeVars, historyVars, ops,
                   faults>>

WorkerSync(a) ==
    /\ a \in round.left /\ sync[Worker] = Idle
    /\ round' = [round EXCEPT !.left = @ \ {a}]
    /\ sync' = [sync EXCEPT ![Worker] = Syncing(a, round.rows[a], Batch, FALSE)]
    /\ UNCHANGED <<serverVars, rule, account, stored, due, click, madeVars, historyVars, boundVars>>

(* Mutant: only the newest are taken, as on the first sync. *)
ChosenNewest(found, last, limit) == Highest(found, limit)

(* In order, so that none is skipped; at first the newest.                 *)
Chosen(found, last, limit) ==
    IF last > 0 THEN Lowest(found, limit) ELSE Highest(found, limit)

(* A folder that is numbered anew is read from the start.                  *)
LastKnown(a, row) ==
    IF row.validity # 0 /\ row.validity # validity[a] THEN 0 ELSE row.last

(* Can parse_mail make something of it?                                    *)
Readable(m) == m \notin Unreadable

(* _fetch                                                                  *)
Result(a, row, limit) ==
    LET last == LastKnown(a, row)
        found == IF last > 0 THEN {n \in Uids(a) : n > last} ELSE Uidsof(a, recent)
        chosen == Chosen(found, last, limit)
        new == IF last = 0 THEN Top(found) ELSE IF chosen = {} THEN last ELSE Max(chosen)
        read == {n \in chosen : Readable(MailOf(a, n))}
    IN  [validity |-> validity[a], last |-> new,
         mails |-> {[uid |-> n, mail |-> MailOf(a, n)] : n \in read},
         rest |-> IF last > 0 THEN chosen \ read ELSE {n \in Uids(a) : n <= new} \ read]

(* Mutant: a mail that cannot be parsed stops the fetch. *)
FetchReadable(c) ==
    LET s == sync[c]  result == Result(s.account, s.row, s.limit) IN
    /\ s.kind = "read" /\ \A n \in Uids(s.account) :
          n = result.last => MailOf(s.account, n) \notin Unreadable
    /\ sync' = [sync EXCEPT ![c] = [kind |-> "apply", account |-> s.account, row |-> s.row,
                                    locks |-> s.locks, result |-> result]]
    /\ UNCHANGED <<serverVars, rule, account, stored, due, round, click, madeVars, historyVars,
                   boundVars>>

Fetch(c) ==
    LET s == sync[c] IN
    /\ s.kind = "read"
    /\ sync' = [sync EXCEPT ![c] = [kind |-> "apply", account |-> s.account, row |-> s.row,
                                    locks |-> s.locks,
                                    result |-> Result(s.account, s.row, s.limit)]]
    /\ UNCHANGED <<serverVars, rule, account, stored, due, round, click, madeVars, historyVars,
                   boundVars>>

(* MailError: the message is stored, and when it was tried.                *)
FetchFails(c) ==
    /\ sync[c].kind = "read" /\ There(sync[c].account) /\ Free(sync[c].account, c) /\ Fault
    /\ sync' = [sync EXCEPT ![c] = Idle] /\ due' = due \ {sync[c].account}
    /\ UNCHANGED <<serverVars, rule, account, stored, round, click, madeVars, historyVars>>

(* The row with the columns that the session has changed.                  *)
Updated(a, row, result) ==
    [state |-> "there", enabled |-> account[a].enabled,
     validity |-> IF result.validity = row.validity THEN account[a].validity
                  ELSE result.validity,
     last |-> IF result.last = row.last THEN account[a].last ELSE result.last]

Keyed(read) == {<<r[1], r[2].uid>> : r \in read}

(* Requests that have read a row which is deleted now fail.                *)
Losing(gone) ==
    click' = [t \in Tabs |->
                 IF click[t] # Idle /\ Keyed(click[t].read) \cap gone # {}
                 THEN [click[t] EXCEPT !.kind = "lost"] ELSE click[t]]

MailsOf(S) == {x.mail : x \in S}
Keys(a, S) == {<<a, x.uid>> : x \in S}

(* Mutant: what was stored under the old numbers stays. *)
KeptAll(a, s) == stored[a]

(* Other numbers: everything goes.                                         *)
Kept(a, s) ==
    IF s.row.validity # 0 /\ s.result.validity # s.row.validity THEN {} ELSE stored[a]

(* Mutant: one more than MAX_STORED stays. *)
TrimmedLate(all) == {x \in all : x.uid \in Highest({y.uid : y \in all}, MaxStored + 1)}

(* The oldest beyond MAX_STORED go.                                        *)
Trimmed(all) == {x \in all : x.uid \in Highest({y.uid : y \in all}, MaxStored)}

(* Another sync has ended since this one began, and one of them has seen   *)
(* that the folder is numbered anew.                                       *)
Mixes(a, s) ==
    /\ s.row.state = "there"
    /\ <<s.row.validity, s.row.last>> # <<account[a].validity, account[a].last>>
    /\ s.row.validity # s.result.validity \/ s.row.validity # account[a].validity

(* What detect() finds in a mail; rules that are switched on (for what is  *)
(* new), or the one asked for, and what run_rules makes of the mails.      *)
Detected(m) == IF m \in Invitations THEN "pending" ELSE "none"

Enabled == rule = "on"

Matching(S) == {x \in S : x.mail \in Ruled}

Numbered(S) ==
    CHOOSE f \in [S -> (made + 1)..(made + Cardinality(S))] : \A x, y \in S : f[x] = f[y] => x = y

TasksFor(number) == {[mail |-> x.mail, no |-> number[x]] : x \in DOMAIN number}

(* apply_result: what is new is inserted and the rules make their tasks.   *)
Apply(c) ==
    LET s == sync[c]  a == s.account
        kept == Kept(a, s)
        fresh == {x \in s.result.mails : \A y \in kept : y.uid # x.uid}
        ruled == IF Enabled THEN Matching(fresh) ELSE {}
        number == Numbered(ruled)
        added == {[uid |-> x.uid, mail |-> x.mail, task |-> IF x \in ruled THEN number[x] ELSE 0,
                   suggestion |-> Detected(x.mail)] : x \in fresh}
        all == kept \cup added
        last == Trimmed(all)
    IN
    /\ s.kind = "apply" /\ Free(a, c)
    /\ There(a) \/ (account[a].state = "new" /\ s.row = NoAccount)
    /\ stored' = [stored EXCEPT ![a] = last]
    /\ account' = [account EXCEPT ![a] = Updated(a, s.row, s.result)]
    /\ due' = due \ {a}
    /\ tasks' = tasks \cup TasksFor(number)
    /\ made' = made + Cardinality(ruled)
    /\ Losing(Keys(a, stored[a] \ last))
    /\ sync' = [sync EXCEPT ![c] = Idle]
    /\ excused' = excused \cup {<<a, s.result.validity, n>> : n \in s.result.rest}
                          \cup {<<a, account'[a].validity, x.uid>> : x \in all \ last}
    /\ mixed' = IF Mixes(a, s) THEN mixed \cup {a} ELSE mixed
    /\ dropped' = dropped \cup MailsOf(stored[a] \ last) \cup MailsOf(all \ last)
    /\ UNCHANGED <<serverVars, rule, round, events, clash, starved, boundVars>>

(* After the rollback every row of the session is expired: reading the     *)
(* next account raises outside of the handler, and the round is over.      *)
RestOfRound(c) == IF c = Worker THEN {} ELSE round.left

(* Any other exception: the account is gone, the database refuses a row.   *)
Break(c) ==
    /\ sync[c] # Idle
    /\ IF There(sync[c].account) THEN Fault ELSE UNCHANGED boundVars
    /\ sync' = [sync EXCEPT ![c] = Idle]
    /\ round' = [round EXCEPT !.left = RestOfRound(c)]
    /\ starved' = starved \cup (round.left \ RestOfRound(c))
    /\ UNCHANGED <<serverVars, rule, account, stored, due, click, madeVars, excused, mixed, clash,
                   dropped>>

DeleteAccount(a) ==
    /\ There(a) /\ \A c \in Clients : Free(a, c)
    /\ account' = [account EXCEPT ![a] = [NoAccount EXCEPT !.state = "gone"]]
    /\ Losing(Keys(a, stored[a]))
    /\ stored' = [stored EXCEPT ![a] = {}] /\ due' = due \ {a}
    /\ dropped' = dropped \cup MailsOf(stored[a])
    /\ UNCHANGED <<serverVars, rule, round, sync, madeVars, excused, mixed, clash, starved>> /\ Op

-----------------------------------------------------------------------------
(***************************************************************************)
(* Tasks and events.  A click reads the message and commits later.         *)
(***************************************************************************)
Click(t, kind, read) ==
    /\ click[t] = Idle
    /\ click' = [click EXCEPT ![t] = [kind |-> kind, read |-> read]]
    /\ UNCHANGED <<serverVars, rule, account, stored, due, round, sync, madeVars,
                   historyVars>> /\ Op

(* Mutant: a second click does not look for the task. *)
ClickTaskAgain(t, a, x) == Click(t, "task", {<<a, x>>})

(* A second click returns the task there is.                               *)
ClickTask(t, a, x) == x.task = 0 /\ Click(t, "task", {<<a, x>>})

(* POST /mail/rules, PATCH and DELETE /mail/rules/{id}                     *)
ChangeRule ==
    UNCHANGED <<serverVars, account, stored, due, round, sync, click, madeVars, historyVars>>

AddRule == rule = "none" /\ rule' = "on" /\ ChangeRule /\ Op

UpdateRule ==
    /\ rule # "none" /\ rule' = IF Enabled THEN "off" ELSE "on"
    /\ ChangeRule /\ Op

DeleteRule == rule # "none" /\ rule' = "none" /\ ChangeRule /\ Op

(* POST /mail/rules/{id}/apply, on or off, for all that have no task yet.  *)
ApplyRule(t) ==
    LET read == UNION {{<<a, x>> : x \in {y \in Matching(stored[a]) : y.task = 0}}
                         : a \in Accounts}
    IN  rule # "none" /\ read # {} /\ Click(t, "task", read)

AcceptSuggestion(t, a, x) == x.suggestion = "pending" /\ Click(t, "accepted", {<<a, x>>})
DismissSuggestion(t, a, x) == x.suggestion = "pending" /\ Click(t, "dismissed", {<<a, x>>})

Picked(t, a) == {x \in stored[a] : <<a, x.uid>> \in Keyed(click[t].read)}
AllPicked(t) == UNION {Picked(t, a) : a \in Accounts}
AsRead(t) == {r[2] : r \in click[t].read}

CommitTask(t) ==
    LET chosen == AllPicked(t)
        number == Numbered(chosen) IN
    /\ click[t].kind = "task"
    /\ stored' = [a \in Accounts |-> (stored[a] \ Picked(t, a)) \cup
                     {[x EXCEPT !.task = number[x]] : x \in Picked(t, a)}]
    /\ tasks' = tasks \cup TasksFor(number)
    /\ made' = made + Cardinality(chosen)
    /\ clash' = clash \cup MailsOf(chosen \ AsRead(t))
    /\ click' = [click EXCEPT ![t] = Idle]
    /\ UNCHANGED <<serverVars, rule, account, due, round, sync, events, excused, mixed, dropped,
                   starved, boundVars>>

(* Mutant: the suggestion stays open. *)
CommitSuggestionOpen(t) ==
    LET chosen == AllPicked(t) IN
    /\ click[t].kind \in {"accepted", "dismissed"}
    /\ events' = [m \in Mails |-> IF click[t].kind = "accepted" /\ m \in MailsOf(chosen)
                                  THEN events[m] + 1 ELSE events[m]]
    /\ clash' = clash \cup MailsOf(chosen \ AsRead(t))
    /\ click' = [click EXCEPT ![t] = Idle]
    /\ UNCHANGED <<serverVars, rule, account, stored, due, round, sync, tasks, made, excused, mixed,
                   dropped, starved, boundVars>>

CommitSuggestion(t) ==
    LET chosen == AllPicked(t) IN
    /\ click[t].kind \in {"accepted", "dismissed"}
    /\ stored' = [a \in Accounts |-> (stored[a] \ Picked(t, a)) \cup
                     {[x EXCEPT !.suggestion = click[t].kind] : x \in Picked(t, a)}]
    /\ events' = [m \in Mails |-> IF click[t].kind = "accepted" /\ m \in MailsOf(chosen)
                                  THEN events[m] + 1 ELSE events[m]]
    /\ clash' = clash \cup MailsOf(chosen \ AsRead(t))
    /\ click' = [click EXCEPT ![t] = Idle]
    /\ UNCHANGED <<serverVars, rule, account, due, round, sync, tasks, made, excused, mixed,
                   dropped, starved, boundVars>>

AbortClick(t) ==
    /\ click[t] # Idle /\ click' = [click EXCEPT ![t] = Idle]
    /\ UNCHANGED <<serverVars, rule, account, stored, due, round, sync, madeVars, historyVars,
                   boundVars>>

(* The message loses the link and may become a task again.                 *)
DeleteTask(k) ==
    /\ tasks' = tasks \ {k}
    /\ stored' = [a \in Accounts |->
                     {[x EXCEPT !.task = IF @ = k.no THEN 0 ELSE @] : x \in stored[a]}]
    /\ UNCHANGED <<serverVars, rule, account, due, round, sync, click, events, made, historyVars>>
    /\ Op

-----------------------------------------------------------------------------
ServerNext ==
    \/ \E a \in Accounts, m \in Mails : Arrive(a, m)
    \/ \E a \in Accounts, mails \in SUBSET Mails : Renumber(a, mails)
    \/ \E m \in Mails : Age(m)

WorkerNext == StartRound \/ \E a \in Accounts : WorkerSync(a)

SyncNext(c) == Fetch(c) \/ FetchFails(c) \/ Apply(c) \/ Break(c)

UserNext ==
    \/ \E t \in Tabs, a \in Accounts : AddAccount(t, a) \/ SyncNow(t, a) \/ ChangePassword(t, a)
    \/ \E a \in Accounts : Switch(a) \/ DeleteAccount(a)
    \/ AddRule \/ UpdateRule \/ DeleteRule
    \/ \E t \in Tabs :
          \/ \E a \in Accounts : \E x \in stored[a] :
                ClickTask(t, a, x) \/ AcceptSuggestion(t, a, x) \/ DismissSuggestion(t, a, x)
          \/ ApplyRule(t) \/ CommitTask(t) \/ CommitSuggestion(t) \/ AbortClick(t)
    \/ \E k \in tasks : DeleteTask(k)

Next ==
    \/ ServerNext \/ UserNext \/ WorkerNext
    \/ \E a \in Accounts : BecomeDue(a)
    \/ \E c \in Clients : SyncNext(c)

Spec == Init /\ [][Next]_vars

(* The worker goes on with its rounds, refresh intervals end, and a sync   *)
(* that was begun ends (every call has a timeout).                         *)
Fairness ==
    /\ WF_vars(StartRound)
    /\ \A a \in Accounts : WF_vars(BecomeDue(a)) /\ WF_vars(WorkerSync(a))
    /\ \A c \in Clients : WF_vars(Fetch(c)) /\ WF_vars(Apply(c) \/ Break(c))

FairSpec == Spec /\ Fairness

-----------------------------------------------------------------------------
(***************************************************************************)
(* Properties.                                                             *)
(***************************************************************************)

(* Every variable keeps its shape; no number is stored twice, and no more  *)
(* than MAX_STORED mails are.                                              *)
TypeOK ==
    /\ validity \in [Accounts -> Nat \ {0}] /\ uid \in [Accounts -> [Mails -> Nat]]
    /\ recent \subseteq Mails
    /\ account \in [Accounts -> [state: {"new", "there", "gone"}, enabled: BOOLEAN,
                               validity: Nat, last: Nat]]
    /\ rule \in {"none", "on", "off"}
    /\ \A a \in Accounts :
          /\ stored[a] \subseteq Row /\ Cardinality(stored[a]) <= MaxStored
          /\ \A x, y \in stored[a] : x.uid = y.uid => x = y
          /\ stored[a] # {} => There(a)
    /\ due \subseteq Accounts /\ round.left \subseteq Accounts
    /\ tasks \subseteq [mail: Mails, no: 1..made]
    /\ ops \in 0..MaxOps /\ faults \in 0..MaxFaults

(* "der Reihe nach, damit keine Mail uebersprungen wird": a mail that the  *)
(* next fetch will not ask for any more is stored, was trimmed, cannot be  *)
(* read, or is older than what the first sync takes, however syncs         *)
(* overlap, unless one of two that overlap has noticed that the folder is  *)
(* numbered anew.                                                          *)
Skips(a) ==
    {n \in Uids(a) : /\ There(a) /\ account[a].validity = validity[a] /\ n <= account[a].last
                     /\ \A x \in stored[a] : x.uid # n
                     /\ <<a, validity[a], n>> \notin excused}
NoMailIsSkipped == \A a \in Accounts : a \in mixed \/ Skips(a) = {}

(* The same without the exception.                                         *)
NoMailIsSkippedEver == \A a \in Accounts : Skips(a) = {}

(* What is stored under a number is the mail that has it, once ToDoch has  *)
(* seen the numbering (with the same exception).                           *)
StoredAsNumbered ==
    \A a \in Accounts : a \in mixed \/ account[a].validity # validity[a] \/
        \A x \in stored[a] : uid[a][x.mail] = x.uid

(* A mail becomes a task at most once, by clicks, by rules for what is new *)
(* or for what is there, as long as ToDoch keeps the mail, unless two      *)
(* requests make one at once or the numbering of its mailbox was mixed up. *)
OneTaskPerMail ==
    \A m \in Mails : Mailbox[m] \in mixed \/ m \in clash \cup dropped \/
        Cardinality({k \in tasks : k.mail = m}) <= 1

(* A suggestion is settled once: it becomes an event or is dismissed.      *)
SuggestionIsSettledOnce ==
    \A a \in Accounts \ mixed : \A x \in stored[a] : x.mail \in clash \cup dropped \/
        events[x.mail] = IF x.suggestion = "accepted" THEN 1 ELSE 0

(* "ein kaputtes Postfach darf die anderen nicht aufhalten"                *)
OthersGoOn == starved = {}

(* When people and the server leave it alone, every mail of a mailbox that *)
(* is switched on is fetched, batch by batch.                              *)
CatchesUp ==
    <>[](\A a \in Accounts : a \in mixed \/ ~There(a) \/ ~account[a].enabled \/
            \A n \in Uids(a) : \/ \E x \in stored[a] : x.uid = n
                               \/ <<a, validity[a], n>> \in excused
                               \/ account[a].last = 0)
================================================================================
