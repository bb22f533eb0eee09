----------------------------- MODULE Subscriptions -----------------------------
(***************************************************************************)
(* Subscribed calendars (services/external_calendars.py, api/calendars.py):*)
(* the worker and people download an ICS document and make the events of   *)
(* the calendar equal to it.                                               *)
(*                                                                         *)
(* A sync works with the row as it was read, by the worker when its round  *)
(* began, downloads, and then applies the document in a transaction that   *)
(* locks the row first.  Only columns that differ from what was read are   *)
(* written.  An edit of the address reads the row, has the name of the     *)
(* host looked up, locks the row and holds the lock while it downloads.    *)
(***************************************************************************)
EXTENDS Integers, FiniteSets

CONSTANTS
    Calendars, Urls, Areas, Worker, Tabs,
    Items,          \* VEVENTs that a document may hold
    Skipped,        \* those that parse_ics leaves out
    Same(_, _),     \* whether two of them have the same UID
    Tagless,        \* addresses whose server sends no ETag
    MaxEvents, MaxCalendars,    \* MAX_EVENTS, MAX_CALENDARS
    MaxOps, MaxFaults, MaxRounds    \* bounds

ASSUME SubscriptionsAssumption ==
    /\ Worker \notin Tabs /\ IsFiniteSet(Items) /\ IsFiniteSet(Calendars)
    /\ Skipped \subseteq Items /\ Tagless \subseteq Urls
    /\ \A i, j \in Items : Same(i, j) => Same(j, i)
    /\ \A i, j, k \in Items : Same(i, j) /\ Same(j, k) => Same(i, k)
    /\ Urls # {} /\ Areas # {}
    /\ MaxEvents \in Nat /\ MaxCalendars \in Nat \ {0}
    /\ MaxOps \in Nat /\ MaxFaults \in Nat /\ MaxRounds \in Nat

VARIABLES
    document,       \* server: what each address gives, and its ETag
    published,      \* server: the document of each ETag
    calendar,       \* rows of external_calendars
    events,         \* their events, with the area of each
    due,            \* calendars whose refresh interval is over
    round,          \* the worker's round: calendars left, and the rows as read
    sync,           \* the sync a client has under way
    lock,           \* calendars whose row an edit has locked
    strayed,        \* history: calendars edited while the last sync was under way
    crowded,        \* history: was a calendar added while another one was
    ops, faults, rounds

serverVars == <<document, published>>
boundVars == <<ops, faults, rounds>>
vars == <<serverVars, calendar, events, due, round, sync, lock, strayed, crowded, boundVars>>

Clients == Tabs \cup {Worker}
Idle == [kind |-> "idle"]
Row == [state: {"new", "there", "gone"}, url: Urls, etag: Nat, area: Areas, enabled: BOOLEAN]

There(c) == calendar[c].state = "there"
SomeUrl == CHOOSE u \in Urls : TRUE
SomeArea == CHOOSE a \in Areas : TRUE
NewRow == [state |-> "new", url |-> SomeUrl, etag |-> 0, area |-> SomeArea, enabled |-> TRUE]

Init ==
    /\ document = [u \in Urls |-> [etag |-> 0, items |-> {}, broken |-> TRUE]]
    /\ published = {}
    /\ calendar = [c \in Calendars |-> NewRow] /\ events = [c \in Calendars |-> {}]
    /\ due = {} /\ round = [left |-> {}, rows |-> calendar]
    /\ sync = [x \in Clients |-> Idle] /\ lock = {}
    /\ strayed = {} /\ crowded = FALSE
    /\ ops = 0 /\ faults = 0 /\ rounds = 0

Op == ops < MaxOps /\ ops' = ops + 1 /\ UNCHANGED <<faults, rounds>>
Fault == faults < MaxFaults /\ faults' = faults + 1 /\ UNCHANGED <<ops, rounds>>

(* A new document, with an ETag that no other one has, or with none.       *)
Publish(u, items, broken) ==
    LET etag == IF u \in Tagless THEN 0 ELSE Cardinality(published) + 1 IN
    /\ document[u].items # items \/ document[u].broken # broken
    /\ document' = [document EXCEPT ![u] = [etag |-> etag, items |-> items, broken |-> broken]]
    /\ published' = IF etag = 0 THEN published
                    ELSE published \cup {[etag |-> etag, url |-> u, items |-> items]}
    /\ UNCHANGED <<calendar, events, due, round, sync, lock, strayed, crowded>> /\ Op

-----------------------------------------------------------------------------
(***************************************************************************)
(* Downloading and parsing.                                                *)
(***************************************************************************)
(* A sync on its own ("none"), of a new calendar ("add"), or of an edit of *)
(* the address, which writes the ETag too ("url") unless it has read that  *)
(* there is none ("address").                                              *)
Fetching(c, row, edit) == [kind |-> "fetch", calendar |-> c, row |-> row, edit |-> edit]

(* Mutant: of events with the same UID all are taken. *)
ParsedAll(items) == items \ Skipped

(* parse_ics; apply_events takes the first one of a UID.                   *)
Parsed(items) ==
    {i \in items \ Skipped : i = CHOOSE j \in items \ Skipped : Same(i, j)}

Unusable(d) == d.broken \/ Cardinality(d.items \ Skipped) > MaxEvents

(* An edit of the address that has got the lock.                           *)
Holds(s) == s.kind \notin {"idle", "check"} /\ s.edit \in {"url", "address"}
EditsUrl(x) == Holds(sync[x])

Ended(x) ==
    /\ sync' = [sync EXCEPT ![x] = Idle]
    /\ lock' = IF EditsUrl(x) THEN lock \ {sync[x].calendar} ELSE lock

(* fetch_ics: 304 when the document is the one of the ETag.                *)
Download(x) ==
    LET s == sync[x]  d == document[s.row.url] IN
    /\ s.kind = "fetch"
    /\ sync' = [sync EXCEPT ![x] =
          [kind |-> IF d.etag # 0 /\ d.etag = s.row.etag THEN "unchanged"
                    ELSE IF Unusable(d) THEN "failed" ELSE "loaded",
           calendar |-> s.calendar, row |-> s.row, edit |-> s.edit,
           etag |-> d.etag, items |-> d.items]]
    /\ UNCHANGED <<serverVars, calendar, events, due, round, lock, strayed, crowded, boundVars>>

(* FeedError: the server does not answer.                                  *)
DownloadFails(x) ==
    LET s == sync[x] IN
    /\ s.kind = "fetch" /\ Fault
    /\ sync' = [sync EXCEPT ![x] =
          [kind |-> "failed", calendar |-> s.calendar, row |-> s.row, edit |-> s.edit]]
    /\ UNCHANGED <<serverVars, calendar, events, due, round, lock, strayed, crowded>>

-----------------------------------------------------------------------------
(***************************************************************************)
(* Applying.  The row is locked, by its new last_synced_at, before the     *)
(* events are read: syncs of one calendar apply one after the other.       *)
(***************************************************************************)
Waits(x) == ~EditsUrl(x) /\ sync[x].calendar \in lock

(* What an edit has set is written with the rest.                          *)
Edited(s, row) ==
    CASE s.edit = "add" -> [s.row EXCEPT !.state = "there"]
      [] s.edit = "url" -> [row EXCEPT !.url = s.row.url, !.etag = 0]
      [] s.edit = "address" -> [row EXCEPT !.url = s.row.url]
      [] OTHER -> row

(* The ETag, if it differs from what was read.                             *)
Tagged(s, row) == IF s.etag = s.row.etag THEN row ELSE [row EXCEPT !.etag = s.etag]

(* Mutant: what is missing from the document stays. *)
ShownStill(s) ==
    {[item |-> i, area |-> s.row.area] : i \in Parsed(s.items)} \cup
    {e \in events[s.calendar] : \A i \in Parsed(s.items) : ~Same(e.item, i)}

(* apply_events: new ones are added, changed ones updated, missing ones    *)
(* deleted; all are put into the area of the row as it was read.           *)
Shown(s) == {[item |-> i, area |-> s.row.area] : i \in Parsed(s.items)}

Exists(s) == There(s.calendar) \/ s.edit = "add"

(* The calendar was moved or given another address since the row was read. *)
Outdated(s) ==
    \/ s.edit # "add" /\ calendar[s.calendar].area # s.row.area
    \/ s.edit = "none" /\ calendar[s.calendar].url # s.row.url

(* An ETag that came to the row since then stays beside another address.   *)
KeepsTag(s) ==
    /\ s.edit = "address" /\ calendar[s.calendar].etag # 0
    /\ calendar[s.calendar].url # s.row.url

Apply(x) ==
    LET s == sync[x]  c == s.calendar IN
    /\ s.kind = "loaded" /\ Exists(s) /\ ~Waits(x)
    /\ calendar' = [calendar EXCEPT ![c] = Tagged(s, Edited(s, @))]
    /\ events' = [events EXCEPT ![c] = Shown(s)]
    /\ strayed' = IF Outdated(s) THEN strayed \cup {c} ELSE strayed \ {c}
    /\ due' = due \ {c} /\ Ended(x)
    /\ UNCHANGED <<serverVars, round, crowded, boundVars>>

(* Not changed, or an error: the events stay as they are.                  *)
Keep(x) ==
    LET s == sync[x]  c == s.calendar IN
    /\ s.kind \in {"unchanged", "failed"} /\ Exists(s) /\ ~Waits(x)
    /\ calendar' = [calendar EXCEPT ![c] = Edited(s, @)]
    /\ strayed' = IF KeepsTag(s) THEN strayed \cup {c} ELSE strayed
    /\ due' = due \ {c} /\ Ended(x)
    /\ UNCHANGED <<serverVars, events, round, crowded, boundVars>>

(* The rollback expires the rows of the session, and reading the next      *)
(* calendar raises outside of the handler: the round is over.              *)
RestOfRound(x) == IF x = Worker THEN {} ELSE round.left

(* Any other exception: the calendar is gone, the database does not answer.*)
Break(x) ==
    /\ sync[x] # Idle
    /\ IF Exists(sync[x]) THEN Fault ELSE UNCHANGED boundVars
    /\ Ended(x) /\ round' = [round EXCEPT !.left = RestOfRound(x)]
    /\ UNCHANGED <<serverVars, calendar, events, due, strayed, crowded>>

-----------------------------------------------------------------------------
(***************************************************************************)
(* The worker.                                                             *)
(***************************************************************************)
BecomeDue(c) ==
    /\ There(c) /\ c \notin due /\ due' = due \cup {c}
    /\ UNCHANGED <<serverVars, calendar, events, round, sync, lock, strayed, crowded, boundVars>>

(* Mutant: a calendar that has an ETag is taken for up to date. *)
StartRoundUntagged ==
    LET left == {c \in due : calendar[c].enabled /\ calendar[c].etag = 0} IN
    /\ round.left = {} /\ sync[Worker] = Idle /\ left # {}
    /\ round' = [left |-> left, rows |-> calendar]
    /\ UNCHANGED <<serverVars, calendar, events, due, sync, lock, strayed, crowded, boundVars>>

(* sync_due_calendars reads all that are switched on.                      *)
StartRound ==
    LET left == {c \in due : calendar[c].enabled} IN
    /\ round.left = {} /\ sync[Worker] = Idle /\ left # {}
    /\ IF MaxRounds = 0 THEN UNCHANGED rounds ELSE rounds < MaxRounds /\ rounds' = rounds + 1
    /\ round' = [left |-> left, rows |-> calendar]
    /\ UNCHANGED <<serverVars, calendar, events, due, sync, lock, strayed, crowded, ops, faults>>

WorkerSync(c) ==
    /\ c \in round.left /\ sync[Worker] = Idle
    /\ round' = [round EXCEPT !.left = @ \ {c}]
    /\ sync' = [sync EXCEPT ![Worker] = Fetching(c, round.rows[c], "none")]
    /\ UNCHANGED <<serverVars, calendar, events, due, lock, strayed, crowded, boundVars>>

-----------------------------------------------------------------------------
(***************************************************************************)
(* Requests.                                                               *)
(***************************************************************************)
Begins(x, s) ==
    /\ sync[x] = Idle /\ sync' = [sync EXCEPT ![x] = s]
    /\ UNCHANGED <<serverVars, calendar, events, due, round, strayed>> /\ Op

Count == Cardinality({c \in Calendars : There(c)})
Adding == {x \in Clients : sync[x] # Idle /\ sync[x].edit = "add"}

(* The limit is checked before the first download, the row is committed    *)
(* after it.                                                               *)
AddCalendar(x, c, u, a) ==
    /\ Count < MaxCalendars /\ calendar[c].state = "new"
    /\ \A y \in Adding : sync[y].calendar # c
    /\ Begins(x, Fetching(c, [NewRow EXCEPT !.url = u, !.area = a], "add"))
    /\ crowded' = (crowded \/ Adding # {}) /\ UNCHANGED lock

SyncNow(x, c) ==
    /\ There(c) /\ Begins(x, Fetching(c, calendar[c], "none")) /\ UNCHANGED <<lock, crowded>>

(* PATCH with an address: the row is read, the host is looked up.          *)
ChangeUrl(x, c, u) ==
    /\ There(c)
    /\ Begins(x, [kind |-> "check", calendar |-> c,
                  row |-> [calendar[c] EXCEPT !.url = u, !.etag = 0],
                  edit |-> IF calendar[c].etag = 0 THEN "address" ELSE "url"])
    /\ UNCHANGED <<lock, crowded>>

(* The flush locks the row until the document is loaded.                   *)
LockRow(x) ==
    LET s == sync[x] IN
    /\ s.kind = "check" /\ There(s.calendar) /\ s.calendar \notin lock
    /\ sync' = [sync EXCEPT ![x] = Fetching(s.calendar, s.row, s.edit)]
    /\ lock' = lock \cup {s.calendar}
    /\ UNCHANGED <<serverVars, calendar, events, due, round, strayed, crowded, boundVars>>

(* There is no such host, or it may not be asked.                          *)
RefuseHost(x) ==
    /\ sync[x].kind = "check" /\ Ended(x)
    /\ UNCHANGED <<serverVars, calendar, events, due, round, strayed, crowded, boundVars>>

Edit(c, row) ==
    /\ There(c) /\ c \notin lock /\ calendar' = [calendar EXCEPT ![c] = row]
    /\ UNCHANGED <<serverVars, due, round, sync, lock, strayed, crowded>> /\ Op

(* Mutant: only the calendar moves. *)
MoveRow(c, a) ==
    a # calendar[c].area /\ Edit(c, [calendar[c] EXCEPT !.area = a]) /\ UNCHANGED events

(* The events move along.                                                  *)
Move(c, a) ==
    /\ a # calendar[c].area /\ Edit(c, [calendar[c] EXCEPT !.area = a])
    /\ events' = [events EXCEPT ![c] = {[e EXCEPT !.area = a] : e \in @}]

Switch(c) ==
    Edit(c, [calendar[c] EXCEPT !.enabled = ~@]) /\ UNCHANGED events

Delete(c) ==
    /\ Edit(c, [calendar[c] EXCEPT !.state = "gone"])
    /\ events' = [events EXCEPT ![c] = {}]

-----------------------------------------------------------------------------
SyncNext(x) ==
    \/ LockRow(x) \/ RefuseHost(x) \/ Download(x) \/ DownloadFails(x)
    \/ Apply(x) \/ Keep(x) \/ Break(x)

UserNext ==
    \/ \E x \in Tabs, c \in Calendars :
          \/ \E u \in Urls, a \in Areas : AddCalendar(x, c, u, a)
          \/ SyncNow(x, c) \/ \E u \in Urls : ChangeUrl(x, c, u)
    \/ \E c \in Calendars : Switch(c) \/ Delete(c) \/ \E a \in Areas : Move(c, a)

Next ==
    \/ UserNext \/ StartRound
    \/ \E u \in Urls, items \in SUBSET Items, broken \in BOOLEAN : Publish(u, items, broken)
    \/ \E c \in Calendars : BecomeDue(c) \/ WorkerSync(c)
    \/ \E x \in Clients : SyncNext(x)

Spec == Init /\ [][Next]_vars

(* The worker goes on with its rounds, refresh intervals end, and a sync   *)
(* that was begun ends (every call has a timeout).                         *)
Fairness ==
    /\ WF_vars(StartRound)
    /\ \A c \in Calendars : WF_vars(BecomeDue(c)) /\ WF_vars(WorkerSync(c))
    /\ \A x \in Clients : WF_vars(LockRow(x)) /\ WF_vars(Download(x)) /\ WF_vars(Apply(x) \/ Keep(x) \/ Break(x))

FairSpec == Spec /\ Fairness

-----------------------------------------------------------------------------
(***************************************************************************)
(* Properties.                                                             *)
(***************************************************************************)
ItemsOf(c) == {e.item : e \in events[c]}

(* Every variable keeps its shape; an address is locked by one edit; a UID *)
(* is stored once; no more calendars than MAX_CALENDARS unless two were    *)
(* being added at once.                                                    *)
TypeOK ==
    /\ calendar \in [Calendars -> Row]
    /\ \A c \in Calendars :
          /\ events[c] \subseteq [item: Items \ Skipped, area: Areas]
          /\ \A e, f \in events[c] : Same(e.item, f.item) => e = f
          /\ events[c] # {} => There(c)
          /\ Cardinality({x \in Tabs : EditsUrl(x) /\ sync[x].calendar = c})
                 = IF c \in lock THEN 1 ELSE 0
    /\ due \subseteq Calendars /\ round.left \subseteq Calendars
    /\ crowded \/ Count <= MaxCalendars
    /\ ops \in 0..MaxOps /\ faults \in 0..MaxFaults

(* A 304 hides nothing: when a calendar keeps an ETag of its address, its  *)
(* events are those of the document that has it, however slow downloads,   *)
(* edits of the address and rounds of the worker with rows read earlier    *)
(* overlap.  Exceptions: the last sync applied a row from before a move or *)
(* another edit of the address, or an edit of the address did not know of  *)
(* an ETag that came to the row while its host was looked up.              *)
NoChangeIsHidden ==
    \A c \in Calendars \ strayed, d \in published :
        There(c) /\ calendar[c].etag = d.etag /\ calendar[c].url = d.url
        => ItemsOf(c) = Parsed(d.items)

(* "landen im gewaehlten Bereich" (models/calendar.py:15), except for one  *)
(* that was moved between the reading of its row by the last sync, on its  *)
(* own or of an edit of the address, and that sync's commit.               *)
EventsAreInTheirArea ==
    \A c \in Calendars \ strayed : \A e \in events[c] : e.area = calendar[c].area

(* The same without the exception, once people have stopped moving it.     *)
EventsComeToTheirArea ==
    <>[](\A c \in Calendars : There(c) /\ calendar[c].enabled =>
             \A e \in events[c] : e.area = calendar[c].area)

(* "Der Feed ist die Quelle": once people and servers leave a calendar     *)
(* that is switched on alone, it shows the document of its address, with   *)
(* the same exception.                                                     *)
Shows(c) ==
    LET d == document[calendar[c].url] IN
    There(c) /\ calendar[c].enabled => Unusable(d) \/ ItemsOf(c) = Parsed(d.items)
ShowsTheFeed == <>[](\A c \in Calendars : c \in strayed \/ Shows(c))

(* The same without the exception.                                         *)
ShowsTheFeedEver == <>[](\A c \in Calendars : Shows(c))
================================================================================
