--------------------------- MODULE SubscriptionsProofs ---------------------------
(***************************************************************************)
(* Proofs about Subscriptions: a 304 hides no change, and the events of a  *)
(* calendar are in its area, for any number of calendars, addresses, items *)
(* and tabs.                                                               *)
(***************************************************************************)
EXTENDS Subscriptions, FiniteSetTheorems, TLAPS

Documents == [etag: Nat, items: SUBSET Items, broken: BOOLEAN]
Edits == {"none", "add", "url", "address"}
Begun == [kind: {"check", "fetch", "failed"}, calendar: Calendars, row: Row, edit: Edits]
Answered == [kind: {"unchanged", "failed", "loaded"}, calendar: Calendars, row: Row,
             edit: Edits, etag: Nat, items: SUBSET Items]
Shapes ==
    /\ document \in [Urls -> Documents]
    /\ published \subseteq [etag: Nat, url: Urls, items: SUBSET Items]
    /\ calendar \in [Calendars -> Row]
    /\ events \in [Calendars -> SUBSET [item: Items, area: Areas]]
    /\ round \in [left: SUBSET Calendars, rows: [Calendars -> Row]]
    /\ sync \in [Clients -> {Idle} \cup Begun \cup Answered]
    /\ lock \subseteq Calendars /\ due \subseteq Calendars

(* ETags are numbered as they are given out, and never given out twice.    *)
Numbered ==
    /\ IsFiniteSet(published)
    /\ \A d \in published : d.etag \in 1..Cardinality(published) /\ d.url \notin Tagless
    /\ \A d, e \in published : d.etag = e.etag => d = e

(* An address gives a document that was published, or one without ETag.    *)
Served ==
    \A u \in Urls :
        IF document[u].etag = 0 THEN u \in Tagless \/ document[u].broken
        ELSE [etag |-> document[u].etag, url |-> u, items |-> document[u].items] \in published

TagsAreKnown == \A c \in Calendars : calendar[c].etag <= Cardinality(published)

(* What a sync has loaded is what its address gave when it was asked.      *)
Loaded ==
    \A x \in Clients : sync[x].kind = "loaded" =>
        IF sync[x].etag = 0 THEN sync[x].row.url \in Tagless
        ELSE /\ sync[x].etag # sync[x].row.etag
             /\ [etag |-> sync[x].etag, url |-> sync[x].row.url, items |-> sync[x].items]
                    \in published

(* An edit of the address that has got the lock has the row to itself; it  *)
(* and a new calendar start without an ETag.                               *)
EditsLock ==
    /\ \A x \in Clients : EditsUrl(x) => sync[x].calendar \in lock
    /\ \A x, y \in Clients : EditsUrl(x) /\ EditsUrl(y) /\ sync[x].calendar = sync[y].calendar
                             => x = y
    /\ \A x \in Clients : sync[x] # Idle /\ sync[x].edit # "none" => sync[x].row.etag = 0

Adds(x) == sync[x] # Idle /\ sync[x].edit = "add"

(* A calendar that is being added is not there yet, and has no events.     *)
AddsAreNew ==
    /\ \A x \in Clients : Adds(x) => calendar[sync[x].calendar].state = "new"
    /\ \A x, y \in Clients : Adds(x) /\ Adds(y) /\ sync[x].calendar = sync[y].calendar => x = y
    /\ \A c \in Calendars : ~There(c) => events[c] = {}

Tags == Numbered /\ Served /\ TagsAreKnown /\ Loaded

IInv ==
    /\ Shapes /\ Tags /\ EditsLock /\ AddsAreNew
    /\ NoChangeIsHidden /\ EventsAreInTheirArea

-----------------------------------------------------------------------------
(* A new row has the shape of a row.                                       *)
LEMMA NewRowIsRow == NewRow \in Row /\ NewRow.etag = 0
  <1>1. SomeUrl \in Urls /\ SomeArea \in Areas
    BY SubscriptionsAssumption DEF SomeUrl, SomeArea
  <1> QED
    BY <1>1 DEF NewRow, Row

(* What is taken of a document is part of it.                              *)
LEMMA ParsedIsPart == ASSUME NEW items PROVE Parsed(items) \subseteq items
  BY DEF Parsed

(* The initial states satisfy the inductive invariant: nothing has been    *)
(* published or added.                                                     *)
LEMMA InitIInv == Init => IInv
  <1> SUFFICES ASSUME Init PROVE IInv
    OBVIOUS
  <1>1. Shapes
    <2>1. document \in [Urls -> Documents] /\ published = {} /\ lock = {} /\ due = {}
      BY DEF Init, Documents
    <2>2. /\ calendar \in [Calendars -> Row] /\ events = [c \in Calendars |-> {}]
          /\ round = [left |-> {}, rows |-> calendar]
      BY NewRowIsRow DEF Init
    <2>3. sync \in [Clients -> {Idle} \cup Begun \cup Answered]
      BY DEF Init
    <2> QED
      BY <2>1, <2>2, <2>3 DEF Shapes
  <1>2. Numbered /\ Cardinality(published) = 0
    BY FS_EmptySet DEF Init, Numbered
  <1>3. Served
    BY DEF Init, Served
  <1>4. TagsAreKnown
    BY <1>2, NewRowIsRow DEF Init, TagsAreKnown
  <1>5. Loaded /\ EditsLock /\ AddsAreNew
    BY DEF Init, Loaded, EditsLock, EditsUrl, Holds, AddsAreNew, Adds, Idle
  <1>6. NoChangeIsHidden /\ EventsAreInTheirArea
    BY DEF Init, NoChangeIsHidden, EventsAreInTheirArea
  <1> QED
    BY <1>1, <1>2, <1>3, <1>4, <1>5, <1>6 DEF IInv, Tags

-----------------------------------------------------------------------------
(* A new document gets an ETag that nothing has yet: what is known of the  *)
(* older ones stays true.                                                  *)
LEMMA PublishStep ==
    ASSUME IInv, NEW u \in Urls, NEW items \in SUBSET Items, NEW broken \in BOOLEAN,
           Publish(u, items, broken)
    PROVE  IInv'
  <1> DEFINE n == Cardinality(published)
             etag == IF u \in Tagless THEN 0 ELSE n + 1
             new == [etag |-> etag, url |-> u, items |-> items]
  <1>1. n \in Nat
    BY FS_CardinalityType DEF IInv, Tags, Numbered
  <1>2. /\ document' = [document EXCEPT ![u] = [etag |-> etag, items |-> items, broken |-> broken]]
        /\ published' = IF etag = 0 THEN published ELSE published \cup {new}
        /\ UNCHANGED <<calendar, events, due, round, sync, lock, strayed>>
    BY DEF Publish
  <1>3. /\ IsFiniteSet(published') /\ n <= Cardinality(published')
        /\ etag # 0 => etag = Cardinality(published')
        /\ Cardinality(published') \in Nat
    <2>1. CASE etag = 0
      BY <1>1, <1>2, <2>1 DEF IInv, Tags, Numbered
    <2>2. CASE etag # 0
      <3>1. new \notin published
        BY <1>1, <2>2 DEF IInv, Tags, Numbered
      <3>2. Cardinality(published \cup {new}) = n + 1 /\ IsFiniteSet(published \cup {new})
        BY <3>1, FS_AddElement DEF IInv, Tags, Numbered
      <3> QED
        BY <1>1, <1>2, <2>2, <3>2
    <2> QED
      BY <2>1, <2>2
  <1> HIDE DEF n
  <1>4. Shapes'
    BY <1>1, <1>2 DEF IInv, Shapes, Documents
  <1>5. Numbered'
    <2>1. \A d \in published : d.etag \in 1..n
      BY DEF n, IInv, Tags, Numbered
    <2>2. \A d \in published' : d.etag \in 1..Cardinality(published') /\ d.url \notin Tagless
      <3>1. \A d \in published : d.etag \in 1..Cardinality(published') /\ d.url \notin Tagless
        BY <1>1, <1>3, <2>1 DEF IInv, Tags, Numbered
      <3>2. etag # 0 => new.etag \in 1..Cardinality(published') /\ new.url \notin Tagless
        BY <1>1, <1>3
      <3> QED
        BY <1>2, <3>1, <3>2
    <2>3. \A d, e \in published' : d.etag = e.etag => d = e
      BY <1>1, <1>2, <2>1 DEF IInv, Tags, Numbered
    <2> QED
      BY <1>3, <2>2, <2>3 DEF Numbered
  <1>6. Served'
    <2> SUFFICES ASSUME NEW v \in Urls
                 PROVE  IF document'[v].etag = 0 THEN v \in Tagless \/ document'[v].broken
                        ELSE [etag |-> document'[v].etag, url |-> v,
                              items |-> document'[v].items] \in published'
      BY DEF Served
    <2>1. CASE v = u
      BY <1>1, <1>2, <2>1 DEF IInv, Shapes
    <2>2. CASE v # u
      BY <1>2, <2>2 DEF IInv, Shapes, Tags, Served
    <2> QED
      BY <2>1, <2>2
  <1>7. TagsAreKnown'
    BY <1>1, <1>2, <1>3 DEF n, IInv, Shapes, Row, Tags, TagsAreKnown
  <1>8. Loaded'
    BY <1>2 DEF IInv, Tags, Loaded
  <1>9. EditsLock' /\ AddsAreNew' /\ EventsAreInTheirArea'
    BY <1>2 DEF IInv, EditsLock, EditsUrl, AddsAreNew, Adds, There, EventsAreInTheirArea
  <1>10. NoChangeIsHidden'
    <2> SUFFICES ASSUME NEW c \in Calendars \ strayed, NEW d \in published', There(c),
                        calendar[c].etag = d.etag, calendar[c].url = d.url
                 PROVE  ItemsOf(c) = Parsed(d.items)
      BY <1>2 DEF NoChangeIsHidden, There, ItemsOf
    <2>1. calendar[c].etag \in Nat /\ calendar[c].etag <= n
      BY DEF n, IInv, Shapes, Row, Tags, TagsAreKnown
    <2>2. d \in published
      BY <1>1, <1>2, <2>1
    <2> QED
      BY <2>2 DEF IInv, NoChangeIsHidden
  <1> QED
    BY <1>4, <1>5, <1>6, <1>7, <1>8, <1>9, <1>10 DEF IInv, Tags

-----------------------------------------------------------------------------
(* A client begins a sync of a row, with the lock if it edits the address. *)
LEMMA BeginStep ==
    ASSUME IInv, NEW x \in Clients, NEW s \in Begun, sync[x] = Idle,
           sync' = [sync EXCEPT ![x] = s], s.kind \in {"check", "fetch"},
           ~Holds(s), lock' = lock,
           s.edit = "add" => /\ calendar[s.calendar].state = "new"
                             /\ \A y \in Clients : Adds(y) => sync[y].calendar # s.calendar,
           s.edit # "none" => s.row.etag = 0,
           round' \in [left: SUBSET Calendars, rows: [Calendars -> Row]],
           UNCHANGED <<document, published, calendar, events, due, strayed>>
    PROVE  IInv'
  <1>1. sync'[x] = s /\ \A y \in Clients : y # x => sync'[y] = sync[y]
    BY DEF IInv, Shapes
  <1>2. Shapes'
    BY DEF IInv, Shapes, Begun
  <1>3. Tags'
    <2>1. Loaded'
      BY <1>1 DEF IInv, Tags, Loaded
    <2> QED
      BY <2>1 DEF IInv, Tags, Numbered, Served, TagsAreKnown
  <1>4. EditsLock'
    <2>1. \A y \in Clients : EditsUrl(y)' => sync'[y].calendar \in lock'
      BY <1>1 DEF IInv, EditsLock, EditsUrl
    <2>2. \A y, z \in Clients : EditsUrl(y)' /\ EditsUrl(z)' /\ sync'[y].calendar = sync'[z].calendar
                                => y = z
      BY <1>1 DEF IInv, EditsLock, EditsUrl
    <2>3. \A y \in Clients : sync'[y] # Idle /\ sync'[y].edit # "none" => sync'[y].row.etag = 0
      BY <1>1 DEF IInv, EditsLock
    <2> QED
      BY <2>1, <2>2, <2>3 DEF EditsLock
  <1>5. NoChangeIsHidden' /\ EventsAreInTheirArea'
    BY DEF IInv, NoChangeIsHidden, EventsAreInTheirArea, There, ItemsOf
  <1>6. AddsAreNew'
    <2>1. \A y \in Clients : Adds(y)' => calendar'[sync'[y].calendar].state = "new"
      BY <1>1 DEF IInv, AddsAreNew, Adds
    <2>2. \A y, z \in Clients : Adds(y)' /\ Adds(z)' /\ sync'[y].calendar = sync'[z].calendar => y = z
      BY <1>1 DEF IInv, AddsAreNew, Adds
    <2> QED
      BY <2>1, <2>2 DEF IInv, AddsAreNew, There
  <1> QED
    BY <1>2, <1>3, <1>4, <1>5, <1>6 DEF IInv

(* The four ways in which a sync begins.                                   *)
LEMMA SyncsBegin ==
    ASSUME IInv, NEW c \in Calendars,
           \/ \E x \in Tabs :
                 \/ \E u \in Urls, a \in Areas : AddCalendar(x, c, u, a)
                 \/ SyncNow(x, c) \/ \E u \in Urls : ChangeUrl(x, c, u)
           \/ WorkerSync(c)
    PROVE  IInv'
  <1> USE DEF Clients
  <1>1. ASSUME NEW x \in Tabs, NEW u \in Urls, NEW a \in Areas, AddCalendar(x, c, u, a) PROVE IInv'
    <2> DEFINE s == Fetching(c, [NewRow EXCEPT !.url = u, !.area = a], "add")
    <2>1. s \in Begun /\ s.kind = "fetch" /\ s.edit = "add" /\ s.row.etag = 0 /\ ~Holds(s)
      BY NewRowIsRow DEF Fetching, Begun, Row, Edits, NewRow, Holds
    <2>2. s.calendar = c /\ calendar[c].state = "new" /\ \A y \in Clients : Adds(y) => sync[y].calendar # c
      BY <1>1 DEF AddCalendar, Adding, Adds, Fetching
    <2> QED
      BY <1>1, <2>1, <2>2, BeginStep DEF AddCalendar, Begins, IInv, Shapes, serverVars
  <1>2. ASSUME NEW x \in Tabs, SyncNow(x, c) PROVE IInv'
    <2> DEFINE s == Fetching(c, calendar[c], "none")
    <2>1. s \in Begun /\ s.kind = "fetch" /\ s.edit = "none" /\ ~Holds(s)
      BY DEF Fetching, Begun, Edits, IInv, Shapes, Holds
    <2> QED
      BY <1>2, <2>1, BeginStep DEF SyncNow, Begins, IInv, Shapes, serverVars
  <1>3. ASSUME NEW x \in Tabs, NEW u \in Urls, ChangeUrl(x, c, u) PROVE IInv'
    <2> DEFINE s == [kind |-> "check", calendar |-> c,
                     row |-> [calendar[c] EXCEPT !.url = u, !.etag = 0],
                     edit |-> IF calendar[c].etag = 0 THEN "address" ELSE "url"]
    <2>1. calendar[c] \in Row
      BY DEF IInv, Shapes
    <2>2. /\ s \in Begun /\ s.kind = "check" /\ s.edit \in {"url", "address"} /\ s.row.etag = 0
          /\ s.calendar = c /\ ~Holds(s)
      BY <2>1 DEF Begun, Row, Edits, Holds
    <2>3. sync[x] = Idle /\ sync' = [sync EXCEPT ![x] = s]
      BY <1>3 DEF ChangeUrl, Begins
    <2> HIDE DEF s
    <2> QED
      BY <1>3, <2>2, <2>3, BeginStep DEF ChangeUrl, Begins, IInv, Shapes, serverVars
  <1>4. ASSUME WorkerSync(c) PROVE IInv'
    <2> DEFINE s == Fetching(c, round.rows[c], "none")
    <2>1. s \in Begun /\ s.kind = "fetch" /\ s.edit = "none" /\ ~Holds(s)
      BY DEF Fetching, Begun, Edits, IInv, Shapes, Holds
    <2>2. round' \in [left: SUBSET Calendars, rows: [Calendars -> Row]]
      BY <1>4 DEF WorkerSync, IInv, Shapes
    <2> QED
      BY <1>4, <2>1, <2>2, BeginStep DEF WorkerSync, serverVars
  <1> QED
    BY <1>1, <1>2, <1>3, <1>4

(* An edit of the address gets the lock that nobody has.                   *)
LEMMA LockStep ==
    ASSUME IInv, NEW x \in Clients, LockRow(x)
    PROVE  IInv'
  <1> DEFINE s == sync[x]
             t == Fetching(s.calendar, s.row, s.edit)
  <1>1. /\ s.kind = "check" /\ s \in Begun /\ s # Idle /\ s.calendar \notin lock
        /\ sync' = [sync EXCEPT ![x] = t] /\ lock' = lock \cup {s.calendar}
        /\ UNCHANGED <<document, published, calendar, events, due, round, strayed>>
    BY DEF LockRow, serverVars, IInv, Shapes, Answered, Idle
  <1>2. /\ t \in Begun /\ t.kind = "fetch" /\ t.calendar = s.calendar /\ t.row = s.row
        /\ t.edit = s.edit /\ s.calendar \in Calendars
    BY <1>1 DEF Fetching, Begun
  <1> HIDE DEF t
  <1>3. sync'[x] = t /\ \A y \in Clients : y # x => sync'[y] = sync[y]
    BY <1>1 DEF IInv, Shapes
  <1>4. Shapes'
    BY <1>1, <1>2 DEF IInv, Shapes
  <1>5. Tags'
    <2>1. Loaded'
      BY <1>1, <1>2, <1>3 DEF IInv, Tags, Loaded
    <2> QED
      BY <1>1, <2>1 DEF IInv, Tags, Numbered, Served, TagsAreKnown
  <1>6. EditsLock'
    <2>1. \A y \in Clients : EditsUrl(y)' => sync'[y].calendar \in lock'
      BY <1>1, <1>2, <1>3 DEF IInv, EditsLock, EditsUrl
    <2>2. \A y \in Clients : y # x /\ EditsUrl(y)' => sync'[y].calendar # s.calendar
      BY <1>1, <1>3 DEF IInv, EditsLock, EditsUrl
    <2>3. \A y, z \in Clients : EditsUrl(y)' /\ EditsUrl(z)' /\ sync'[y].calendar = sync'[z].calendar
                                => y = z
      BY <1>2, <1>3, <2>2 DEF IInv, EditsLock, EditsUrl
    <2>4. \A y \in Clients : sync'[y] # Idle /\ sync'[y].edit # "none" => sync'[y].row.etag = 0
      BY <1>1, <1>2, <1>3 DEF IInv, EditsLock
    <2> QED
      BY <2>1, <2>3, <2>4 DEF EditsLock
  <1>7. NoChangeIsHidden' /\ EventsAreInTheirArea'
    BY <1>1 DEF IInv, NoChangeIsHidden, EventsAreInTheirArea, There, ItemsOf
  <1>8. AddsAreNew'
    <2>1. \A y \in Clients : Adds(y)' => Adds(y) /\ sync'[y].calendar = sync[y].calendar
      BY <1>1, <1>2, <1>3 DEF Adds
    <2> QED
      BY <1>1, <2>1 DEF IInv, AddsAreNew, There
  <1> QED
    BY <1>4, <1>5, <1>6, <1>7, <1>8 DEF IInv

-----------------------------------------------------------------------------
(* The server answers: the document was published before, or has no ETag.  *)
LEMMA AnswerStep ==
    ASSUME IInv, NEW x \in Clients, Download(x) \/ DownloadFails(x)
    PROVE  IInv'
  <1> DEFINE s == sync[x]
             d == document[s.row.url]
             answer == sync'[x]
  <1>1. s \in Begun \cup Answered /\ s # Idle /\ s.kind \notin {"idle", "check"}
    BY DEF Download, DownloadFails, IInv, Shapes, Idle
  <1>2. d \in Documents /\ s.row \in Row /\ s.row.url \in Urls
    BY <1>1 DEF IInv, Shapes, Begun, Answered, Row
  <1>3. /\ answer \in Begun \cup Answered /\ answer # Idle
        /\ answer.calendar = s.calendar /\ answer.row = s.row /\ answer.edit = s.edit
        /\ answer.kind = "loaded" =>
              /\ answer.etag = d.etag /\ answer.items = d.items
              /\ d.etag = 0 \/ d.etag # s.row.etag
              /\ ~d.broken
    <2>1. CASE Download(x)
      <3>1. answer = [kind |-> IF d.etag # 0 /\ d.etag = s.row.etag THEN "unchanged"
                               ELSE IF Unusable(d) THEN "failed" ELSE "loaded",
                      calendar |-> s.calendar, row |-> s.row, edit |-> s.edit,
                      etag |-> d.etag, items |-> d.items]
        BY <2>1 DEF Download, IInv, Shapes
      <3> QED
        BY <1>1, <1>2, <3>1 DEF Begun, Answered, Documents, Idle, Unusable
    <2>2. CASE DownloadFails(x)
      <3>1. answer = [kind |-> "failed", calendar |-> s.calendar, row |-> s.row, edit |-> s.edit]
        BY <2>2 DEF DownloadFails, IInv, Shapes
      <3> QED
        BY <1>1, <1>2, <3>1 DEF Begun, Answered, Idle
    <2> QED
      BY <2>1, <2>2
  <1>4. /\ \A y \in Clients : y # x => sync'[y] = sync[y]
        /\ sync' \in [Clients -> {Idle} \cup Begun \cup Answered]
        /\ UNCHANGED <<document, published, calendar, events, due, round, lock, strayed>>
    BY <1>3 DEF Download, DownloadFails, IInv, Shapes, serverVars
  <1>11. answer.kind \notin {"idle", "check"} /\ sync'[x] = answer
    BY DEF Download, DownloadFails, IInv, Shapes
  <1> HIDE DEF answer
  <1>5. Shapes'
    BY <1>4 DEF IInv, Shapes
  <1>6. Loaded'
    <2>1. answer.kind = "loaded" =>
              IF answer.etag = 0 THEN answer.row.url \in Tagless
              ELSE /\ answer.etag # answer.row.etag
                   /\ [etag |-> answer.etag, url |-> answer.row.url, items |-> answer.items]
                          \in published
      BY <1>2, <1>3 DEF IInv, Tags, Served
    <2> QED
      BY <1>4, <2>1 DEF answer, IInv, Tags, Loaded
  <1>7. Tags'
    BY <1>4, <1>6 DEF IInv, Tags, Numbered, Served, TagsAreKnown
  <1>8. EditsLock'
    <2>1. \A y \in Clients : /\ sync'[y] # Idle <=> sync[y] # Idle
                             /\ sync[y] # Idle => /\ sync'[y].calendar = sync[y].calendar
                                                  /\ sync'[y].row = sync[y].row
                                                  /\ sync'[y].edit = sync[y].edit
      BY <1>1, <1>3, <1>4 DEF answer
    <2>5. \A y \in Clients : sync'[y].kind \in {"idle", "check"} <=> sync[y].kind \in {"idle", "check"}
      BY <1>1, <1>3, <1>4, <1>11
    <2>2. \A y \in Clients : EditsUrl(y)' <=> EditsUrl(y)
      BY <2>1, <2>5 DEF EditsUrl, Holds, Idle
    <2>3. \A y \in Clients : EditsUrl(y) => /\ sync'[y].calendar = sync[y].calendar
                                            /\ sync'[y].row = sync[y].row
      BY <2>1 DEF EditsUrl
    <2>4. \A y \in Clients : sync'[y] # Idle /\ sync'[y].edit # "none" => sync'[y].row.etag = 0
      BY <2>1 DEF IInv, EditsLock
    <2> QED
      BY <1>4, <2>2, <2>3, <2>4 DEF IInv, EditsLock
  <1>10. AddsAreNew'
    <2>1. \A y \in Clients : /\ Adds(y)' <=> Adds(y)
                             /\ Adds(y) => sync'[y].calendar = sync[y].calendar
      BY <1>1, <1>3, <1>4 DEF answer, Adds
    <2> QED
      BY <1>4, <2>1 DEF IInv, AddsAreNew, There
  <1>9. NoChangeIsHidden' /\ EventsAreInTheirArea'
    BY <1>4 DEF IInv, NoChangeIsHidden, EventsAreInTheirArea, There, ItemsOf
  <1> QED
    BY <1>5, <1>7, <1>8, <1>9, <1>10 DEF IInv

-----------------------------------------------------------------------------
(* The end of a sync gives back no lock but its own, and changes the row   *)
(* of no other client that edits an address.                               *)
LEMMA EndStep ==
    ASSUME IInv, NEW x \in Clients, sync[x] # Idle, Ended(x),
           calendar' \in [Calendars -> Row],
           \A c \in Calendars : c # sync[x].calendar \/ Waits(x) \/ ~Exists(sync[x])
                                => calendar'[c] = calendar[c]
    PROVE  /\ sync' \in [Clients -> {Idle} \cup Begun \cup Answered] /\ lock' \subseteq Calendars
           /\ EditsLock'
           /\ \A y \in Clients : Adds(y)' => calendar'[sync'[y].calendar].state = "new"
           /\ \A y, z \in Clients :
                 Adds(y)' /\ Adds(z)' /\ sync'[y].calendar = sync'[z].calendar => y = z
           /\ \A y \in Clients : y # x => sync'[y] = sync[y]
           /\ sync'[x] = Idle
  <1>1. /\ sync' \in [Clients -> {Idle} \cup Begun \cup Answered]
        /\ sync'[x] = Idle /\ \A y \in Clients : y # x => sync'[y] = sync[y]
        /\ lock' \subseteq lock
    BY DEF Ended, IInv, Shapes
  <1>2. \A y \in Clients : EditsUrl(y)' => y # x /\ EditsUrl(y) /\ sync'[y] = sync[y]
    BY <1>1 DEF EditsUrl, Holds, Idle
  <1>3. ASSUME NEW y \in Clients, EditsUrl(y)'
        PROVE  sync'[y].calendar \in lock'
    <2> DEFINE c == sync[y].calendar
    <2>1. c \in lock /\ sync'[y] = sync[y]
      BY <1>2, <1>3 DEF IInv, EditsLock
    <2>2. EditsUrl(x) => sync[x].calendar # c
      BY <1>2, <1>3 DEF IInv, EditsLock
    <2> QED
      BY <2>1, <2>2 DEF Ended
  <1>4. \A y, z \in Clients : EditsUrl(y)' /\ EditsUrl(z)' /\ sync'[y].calendar = sync'[z].calendar
                              => y = z
    BY <1>2 DEF IInv, EditsLock
  <1>5. \A y \in Clients : sync'[y] # Idle /\ sync'[y].edit # "none" => sync'[y].row.etag = 0
    BY <1>1 DEF IInv, EditsLock
  <1>6. \A y \in Clients : Adds(y)' => y # x /\ Adds(y) /\ sync'[y] = sync[y]
    BY <1>1 DEF Adds
  <1>7. ASSUME NEW y \in Clients, Adds(y)'
        PROVE  calendar'[sync'[y].calendar].state = "new"
    <2> DEFINE c == sync[y].calendar
    <2>1. calendar[c].state = "new" /\ c \in Calendars /\ sync'[y] = sync[y]
      BY <1>6, <1>7 DEF IInv, AddsAreNew, Adds, Shapes, Begun, Answered
    <2>2. c = sync[x].calendar => ~Exists(sync[x])
      BY <1>6, <1>7, <2>1 DEF IInv, AddsAreNew, Adds, Exists, There
    <2> QED
      BY <2>1, <2>2
  <1>8. \A y, z \in Clients :
           Adds(y)' /\ Adds(z)' /\ sync'[y].calendar = sync'[z].calendar => y = z
    BY <1>6 DEF IInv, AddsAreNew
  <1> QED
    BY <1>1, <1>3, <1>4, <1>5, <1>7, <1>8 DEF EditsLock, IInv, Shapes


(* The sync of a calendar that is there has written the row as edited.     *)
LEMMA EditedRow ==
    ASSUME NEW s \in Answered \cup Begun, NEW row \in Row
    PROVE  /\ Edited(s, row) \in Row
           /\ s.edit = "none" => Edited(s, row) = row
           /\ s.edit = "add" => /\ Edited(s, row).url = s.row.url
                                /\ Edited(s, row).area = s.row.area
                               /\ Edited(s, row).etag = s.row.etag
           /\ s.edit = "url" => /\ Edited(s, row).url = s.row.url
                                /\ Edited(s, row).area = row.area
                               /\ Edited(s, row).etag = 0
           /\ s.edit = "address" => /\ Edited(s, row).url = s.row.url
                                    /\ Edited(s, row).area = row.area
                                    /\ Edited(s, row).etag = row.etag
  <1>1. s.row \in Row /\ s.edit \in Edits
    BY DEF Answered, Begun
  <1>2. CASE s.edit = "none"
    BY <1>2 DEF Edited
  <1>3. CASE s.edit = "add"
    BY <1>1, <1>3 DEF Edited, Row
  <1>4. CASE s.edit = "url"
    BY <1>1, <1>4 DEF Edited, Row
  <1>5. CASE s.edit = "address"
    BY <1>1, <1>5 DEF Edited, Row
  <1> QED
    BY <1>1, <1>2, <1>3, <1>4, <1>5 DEF Edits

(* A document is applied: unless the row was moved meanwhile, the events   *)
(* are in its area, and they are those of the document whose ETag it keeps.*)
LEMMA ApplyStep ==
    ASSUME IInv, NEW x \in Clients, Apply(x)
    PROVE  IInv'
  <1> DEFINE s == sync[x]
             c == s.calendar
             row == calendar[c]
             edited == Edited(s, row)
             tagged == Tagged(s, edited)
  <1>1. /\ s \in Answered /\ s # Idle /\ s.kind = "loaded" /\ c \in Calendars /\ row \in Row
        /\ s.row \in Row /\ s.etag \in Nat /\ s.items \in SUBSET Items /\ s.edit \in Edits
        /\ Exists(s)
    BY DEF Apply, IInv, Shapes, Begun, Answered, Idle
  <1>2. /\ calendar' = [calendar EXCEPT ![c] = tagged]
        /\ events' = [events EXCEPT ![c] = Shown(s)]
        /\ Ended(x) /\ ~Waits(x)
        /\ UNCHANGED <<document, published, round>> /\ due' = due \ {c}
    BY DEF Apply, serverVars
  <1>3. /\ edited \in Row
        /\ s.edit = "none" => edited = row
        /\ s.edit = "add" => edited.url = s.row.url /\ edited.area = s.row.area /\ edited.etag = 0
        /\ s.edit = "url" => edited.url = s.row.url /\ edited.area = row.area /\ edited.etag = 0
        /\ s.edit = "address" => /\ edited.url = s.row.url /\ edited.area = row.area
                                 /\ edited.etag = row.etag
    BY <1>1, EditedRow DEF IInv, EditsLock
  <1>4. /\ tagged \in Row /\ tagged.url = edited.url /\ tagged.area = edited.area
        /\ tagged.etag = IF s.etag = s.row.etag THEN edited.etag ELSE s.etag
    BY <1>1, <1>3 DEF Tagged, Row
  <1>5. /\ s.etag = 0 => s.row.url \in Tagless
        /\ s.etag # 0 => /\ s.etag # s.row.etag
                         /\ [etag |-> s.etag, url |-> s.row.url, items |-> s.items] \in published
    BY <1>1 DEF IInv, Tags, Loaded
  <1>7. Shown(s) \in SUBSET [item: Items, area: Areas]
    BY <1>1, ParsedIsPart DEF Shown, Row
  <1>8. {e.item : e \in Shown(s)} = Parsed(s.items)
    <2>1. ASSUME NEW i \in Parsed(s.items) PROVE \E e \in Shown(s) : i = e.item
      <3>1. [item |-> i, area |-> s.row.area] \in Shown(s)
        BY <2>1 DEF Shown
      <3>2. [item |-> i, area |-> s.row.area].item = i
        OBVIOUS
      <3> QED
        BY <3>1, <3>2
    <2>2. \A e \in Shown(s) : e.item \in Parsed(s.items)
      BY DEF Shown
    <2> QED
      BY <2>1, <2>2
  <1>9. c \notin strayed' => /\ ~Outdated(s)
                             /\ \A e \in Calendars \ {c} : e \notin strayed' => e \notin strayed
    BY DEF Apply
  <1>10. \A e \in Calendars \ {c} : /\ e \notin strayed' => e \notin strayed
                                    /\ calendar'[e] = calendar[e] /\ events'[e] = events[e]
    BY <1>2 DEF Apply, IInv, Shapes
  <1>11. calendar'[c] = tagged /\ events'[c] = Shown(s)
    BY <1>1, <1>2 DEF IInv, Shapes
  <1>12. c \notin strayed' => tagged.area = s.row.area /\ tagged.url = s.row.url
    BY <1>1, <1>3, <1>4, <1>9 DEF Outdated, Edits
  <1> HIDE DEF s, c, row, edited, tagged
  <1>13. calendar' \in [Calendars -> Row]
    BY <1>1, <1>2, <1>4 DEF IInv, Shapes
  <1>14. EditsLock' /\ (\A y \in Clients : Adds(y)' => calendar'[sync'[y].calendar].state = "new")
         /\ (\A y, z \in Clients :
                Adds(y)' /\ Adds(z)' /\ sync'[y].calendar = sync'[z].calendar => y = z)
         /\ sync' \in [Clients -> {Idle} \cup Begun \cup Answered] /\ lock' \subseteq Calendars
         /\ sync'[x] = Idle /\ \A y \in Clients : y # x => sync'[y] = sync[y]
    BY <1>1, <1>2, <1>10, <1>13, EndStep DEF s, c, IInv, Shapes
  <1>19. AddsAreNew'
    <2>1. tagged.state = "there"
      BY <1>1 DEF tagged, edited, row, s, c, Tagged, Edited, Edits, Exists, There, Row, IInv, Shapes
    <2>2. \A k \in Calendars : ~There(k)' => events'[k] = {}
      BY <1>10, <1>11, <2>1 DEF IInv, AddsAreNew, There
    <2> QED
      BY <1>14, <2>2 DEF AddsAreNew
  <1>15. Shapes'
    BY <1>1, <1>2, <1>7, <1>13, <1>14 DEF IInv, Shapes
  <1>16. Tags'
    <2>1. Loaded'
      BY <1>2, <1>14 DEF IInv, Tags, Loaded, Idle
    <2>2. Cardinality(published) \in Nat
      BY FS_CardinalityType DEF IInv, Tags, Numbered
    <2>3. tagged.etag <= Cardinality(published)
      <3>1. s.etag # 0 => s.etag <= Cardinality(published)
        BY <1>5 DEF IInv, Tags, Numbered
      <3>2. row.etag <= Cardinality(published)
        BY <1>1 DEF row, IInv, Tags, TagsAreKnown
      <3> QED
        BY <1>1, <1>3, <1>4, <2>2, <3>1, <3>2 DEF Edits
    <2>4. TagsAreKnown'
      BY <1>2, <1>10, <1>11, <2>3 DEF IInv, Tags, TagsAreKnown
    <2> QED
      BY <1>2, <2>1, <2>4 DEF IInv, Tags, Numbered, Served
  <1>17. EventsAreInTheirArea'
    <2> SUFFICES ASSUME NEW k \in Calendars, k \notin strayed', NEW e \in events'[k]
                 PROVE  e.area = calendar'[k].area
      BY DEF EventsAreInTheirArea
    <2>1. CASE k = c
      BY <1>11, <1>12, <2>1 DEF Shown
    <2>2. CASE k # c
      BY <1>10, <2>2 DEF IInv, EventsAreInTheirArea
    <2> QED
      BY <2>1, <2>2
  <1>18. NoChangeIsHidden'
    <2> SUFFICES ASSUME NEW k \in Calendars, k \notin strayed', NEW d \in published,
                        There(k)', calendar'[k].etag = d.etag, calendar'[k].url = d.url
                 PROVE  {e.item : e \in events'[k]} = Parsed(d.items)
      BY <1>2 DEF NoChangeIsHidden, ItemsOf
    <2>1. CASE k = c
      <3>1. tagged.etag = d.etag /\ s.row.url = d.url /\ d.etag # 0 /\ d.url \notin Tagless
        BY <1>11, <1>12, <2>1 DEF IInv, Tags, Numbered
      <3>2. s.etag # 0 /\ tagged.etag = s.etag
        BY <1>4, <1>5, <3>1
      <3>3. d = [etag |-> s.etag, url |-> s.row.url, items |-> s.items]
        BY <1>5, <3>1, <3>2 DEF IInv, Tags, Numbered
      <3> QED
        BY <1>8, <1>11, <2>1, <3>3
    <2>2. CASE k # c
      <3>1. There(k) /\ calendar[k].etag = d.etag /\ calendar[k].url = d.url /\ k \notin strayed
        BY <1>10, <2>2 DEF There
      <3>2. ItemsOf(k) = Parsed(d.items)
        BY <3>1 DEF IInv, NoChangeIsHidden
      <3> QED
        BY <1>10, <2>2, <3>2 DEF ItemsOf
    <2> QED
      BY <2>1, <2>2
  <1> QED
    BY <1>14, <1>15, <1>16, <1>17, <1>18, <1>19 DEF IInv

(* Nothing new: an edit is written without touching the events.            *)
LEMMA KeepStep ==
    ASSUME IInv, NEW x \in Clients, Keep(x)
    PROVE  IInv'
  <1> DEFINE s == sync[x]
             c == s.calendar
             row == calendar[c]
             edited == Edited(s, row)
  <1>1. s \in Begun \cup Answered /\ s # Idle /\ c \in Calendars /\ row \in Row
        /\ s.row \in Row /\ s.edit \in Edits /\ Exists(s)
    BY DEF Keep, IInv, Shapes, Begun, Answered, Idle
  <1>2. /\ calendar' = [calendar EXCEPT ![c] = edited]
        /\ Ended(x) /\ ~Waits(x)
        /\ UNCHANGED <<document, published, events, round>> /\ due' = due \ {c}
        /\ strayed' = IF KeepsTag(s) THEN strayed \cup {c} ELSE strayed
    BY DEF Keep, serverVars
  <1>3. /\ edited \in Row
        /\ s.edit = "none" => edited = row
        /\ s.edit = "add" => edited.etag = 0
        /\ s.edit = "url" => edited.etag = 0 /\ edited.area = row.area
        /\ s.edit = "address" => /\ edited.url = s.row.url /\ edited.area = row.area
                                 /\ edited.etag = row.etag
    BY <1>1, EditedRow DEF IInv, EditsLock
  <1>4. s.edit = "add" => events[c] = {}
    BY <1>1 DEF IInv, AddsAreNew, Adds, There
  <1>5. edited.state = "there"
    BY <1>1 DEF Edited, Edits, Exists, There, Row, IInv, Shapes
  <1>6. /\ calendar'[c] = edited
        /\ \A k \in Calendars \ {c} : calendar'[k] = calendar[k]
    BY <1>1, <1>2 DEF IInv, Shapes
  <1>14. /\ strayed \subseteq strayed'
         /\ c \notin strayed' /\ s.edit = "address" => row.etag = 0 \/ row.url = s.row.url
    BY <1>1, <1>2 DEF KeepsTag
  <1> HIDE DEF s, c, row, edited
  <1>7. calendar' \in [Calendars -> Row]
    BY <1>1, <1>2, <1>3 DEF IInv, Shapes
  <1>8. /\ EditsLock' /\ sync' \in [Clients -> {Idle} \cup Begun \cup Answered]
        /\ lock' \subseteq Calendars
        /\ \A y \in Clients : Adds(y)' => calendar'[sync'[y].calendar].state = "new"
        /\ \A y, z \in Clients :
              Adds(y)' /\ Adds(z)' /\ sync'[y].calendar = sync'[z].calendar => y = z
        /\ sync'[x] = Idle /\ \A y \in Clients : y # x => sync'[y] = sync[y]
    BY <1>1, <1>2, <1>6, <1>7, EndStep DEF s, c
  <1>9. Shapes'
    BY <1>2, <1>7, <1>8 DEF IInv, Shapes
  <1>10. Tags'
    <2>1. Loaded'
      BY <1>2, <1>8 DEF IInv, Tags, Loaded, Idle
    <2>2. Cardinality(published) \in Nat
      BY FS_CardinalityType DEF IInv, Tags, Numbered
    <2>3. edited.etag <= Cardinality(published)
      BY <1>1, <1>3, <2>2 DEF row, Edits, IInv, Tags, TagsAreKnown
    <2>4. TagsAreKnown'
      BY <1>2, <1>6, <2>3 DEF IInv, Tags, TagsAreKnown
    <2> QED
      BY <1>2, <2>1, <2>4 DEF IInv, Tags, Numbered, Served
  <1>11. AddsAreNew'
    BY <1>2, <1>5, <1>6, <1>8 DEF IInv, AddsAreNew, There
  <1>12. EventsAreInTheirArea'
    <2> SUFFICES ASSUME NEW k \in Calendars, k \notin strayed, NEW e \in events[k]
                 PROVE  e.area = calendar'[k].area
      BY <1>2, <1>14 DEF EventsAreInTheirArea
    <2>1. e.area = calendar[k].area
      BY DEF IInv, EventsAreInTheirArea
    <2>2. k = c => edited.area = row.area
      BY <1>1, <1>3, <1>4 DEF Edits
    <2> QED
      BY <1>6, <2>1, <2>2 DEF row
  <1>13. NoChangeIsHidden'
    <2> SUFFICES ASSUME NEW k \in Calendars, k \notin strayed', NEW d \in published,
                        There(k)', calendar'[k].etag = d.etag, calendar'[k].url = d.url
                 PROVE  ItemsOf(k) = Parsed(d.items)
      BY <1>2 DEF NoChangeIsHidden, ItemsOf
    <2>1. d.etag # 0
      BY DEF IInv, Tags, Numbered
    <2>2. CASE k = c
      <3>1. edited.etag # 0 /\ s.edit # "add" /\ s.edit # "url"
        BY <1>3, <1>6, <2>1, <2>2
      <3>2. row.etag = edited.etag /\ row.url = edited.url
        BY <1>1, <1>3, <1>14, <2>2, <3>1 DEF Edits
      <3>3. There(c)
        BY <1>1, <3>1 DEF s, c, Exists
      <3>4. There(k) /\ calendar[k].etag = d.etag /\ calendar[k].url = d.url
        BY <1>6, <2>2, <3>2, <3>3 DEF row
      <3> QED
        BY <1>14, <3>4 DEF IInv, NoChangeIsHidden
    <2>3. CASE k # c
      <3>1. There(k) /\ calendar[k].etag = d.etag /\ calendar[k].url = d.url
        BY <1>6, <2>3 DEF There
      <3> QED
        BY <1>14, <3>1 DEF IInv, NoChangeIsHidden
    <2> QED
      BY <2>2, <2>3
  <1> QED
    BY <1>8, <1>9, <1>10, <1>11, <1>12, <1>13 DEF IInv

(* A sync that breaks off leaves rows and events as they are.              *)
LEMMA BreakStep ==
    ASSUME IInv, NEW x \in Clients, Break(x) \/ RefuseHost(x)
    PROVE  IInv'
  <1>1. /\ sync[x] # Idle /\ Ended(x)
        /\ round' \in [left: SUBSET Calendars, rows: [Calendars -> Row]]
        /\ UNCHANGED <<document, published, calendar, events, due, strayed>>
    BY DEF Break, RefuseHost, RestOfRound, serverVars, Idle, IInv, Shapes
  <1>2. /\ EditsLock' /\ sync' \in [Clients -> {Idle} \cup Begun \cup Answered]
        /\ lock' \subseteq Calendars
        /\ \A y \in Clients : Adds(y)' => calendar'[sync'[y].calendar].state = "new"
        /\ \A y, z \in Clients :
              Adds(y)' /\ Adds(z)' /\ sync'[y].calendar = sync'[z].calendar => y = z
        /\ sync'[x] = Idle /\ \A y \in Clients : y # x => sync'[y] = sync[y]
    BY <1>1, EndStep DEF IInv, Shapes
  <1>3. Shapes' /\ AddsAreNew'
    BY <1>1, <1>2 DEF IInv, Shapes, AddsAreNew, There
  <1>4. Tags'
    BY <1>1, <1>2 DEF IInv, Tags, Numbered, Served, TagsAreKnown, Loaded, Idle
  <1>5. NoChangeIsHidden' /\ EventsAreInTheirArea'
    BY <1>1 DEF IInv, NoChangeIsHidden, EventsAreInTheirArea, There, ItemsOf
  <1> QED
    BY <1>2, <1>3, <1>4, <1>5 DEF IInv

-----------------------------------------------------------------------------
(* A PATCH or DELETE of a calendar waits for an edit of its address, and   *)
(* takes the events along when it moves or ends it.                        *)
LEMMA EditStep ==
    ASSUME IInv, NEW c \in Calendars,
           Switch(c) \/ Delete(c) \/ \E a \in Areas : Move(c, a)
    PROVE  IInv'
  <1> DEFINE row == calendar'[c]
  <1>1. /\ There(c) /\ c \notin lock /\ calendar[c] \in Row
        /\ UNCHANGED <<document, published, due, round, sync, lock, strayed>>
    BY DEF Switch, Delete, Move, Edit, serverVars, IInv, Shapes
  <1> DEFINE Kept ==
               /\ calendar' = [calendar EXCEPT ![c] = row] /\ row \in Row
               /\ events' = [events EXCEPT ![c] = events'[c]]
               /\ events'[c] \in SUBSET [item: Items, area: Areas]
               /\ row.url = calendar[c].url /\ row.etag = calendar[c].etag
               /\ row.state = "there" \/ events'[c] = {}
               /\ row.state = "there" => {e.item : e \in events'[c]} = ItemsOf(c)
               /\ c \notin strayed => \A e \in events'[c] : e.area = row.area
               /\ row.state # "new"
  <1>2. Kept
    <2>1. CASE Switch(c)
      <3>1. calendar' = [calendar EXCEPT ![c] = [calendar[c] EXCEPT !.enabled = ~calendar[c].enabled]]
            /\ events' = events
        BY <2>1 DEF Switch, Edit
      <3>2. row = [calendar[c] EXCEPT !.enabled = ~calendar[c].enabled]
        BY <3>1 DEF IInv, Shapes
      <3>3. row \in Row /\ row.url = calendar[c].url /\ row.etag = calendar[c].etag
            /\ row.state = "there" /\ row.area = calendar[c].area
        BY <1>1, <3>2 DEF Row, There
      <3> QED
        BY <3>1, <3>2, <3>3 DEF IInv, Shapes, ItemsOf, EventsAreInTheirArea
    <2>2. CASE Delete(c)
      <3>1. calendar' = [calendar EXCEPT ![c] = [calendar[c] EXCEPT !.state = "gone"]]
            /\ events' = [events EXCEPT ![c] = {}]
        BY <2>2 DEF Delete, Edit
      <3>2. row = [calendar[c] EXCEPT !.state = "gone"] /\ events'[c] = {}
        BY <3>1 DEF IInv, Shapes
      <3>3. row \in Row /\ row.url = calendar[c].url /\ row.etag = calendar[c].etag
            /\ row.state = "gone"
        BY <1>1, <3>2 DEF Row
      <3> QED
        BY <3>1, <3>2, <3>3
    <2>3. ASSUME NEW a \in Areas, Move(c, a) PROVE Kept
      <3> DEFINE moved == {[e EXCEPT !.area = a] : e \in events[c]}
      <3>1. calendar' = [calendar EXCEPT ![c] = [calendar[c] EXCEPT !.area = a]]
            /\ events' = [events EXCEPT ![c] = moved]
        BY <2>3 DEF Move, Edit
      <3>2. row = [calendar[c] EXCEPT !.area = a] /\ events'[c] = moved
        BY <3>1 DEF IInv, Shapes
      <3>3. row \in Row /\ row.url = calendar[c].url /\ row.etag = calendar[c].etag
            /\ row.state = "there" /\ row.area = a
        BY <1>1, <3>2 DEF Row, There
      <3>4. \A e \in events[c] : e \in [item: Items, area: Areas]
        BY DEF IInv, Shapes
      <3>5. \A e \in events[c] : /\ [e EXCEPT !.area = a] \in [item: Items, area: Areas]
                                 /\ [e EXCEPT !.area = a].item = e.item
                                 /\ [e EXCEPT !.area = a].area = a
        BY <3>4
      <3>6. /\ moved \in SUBSET [item: Items, area: Areas]
            /\ \A e \in moved : e.area = a
            /\ {e.item : e \in moved} = {e.item : e \in events[c]}
        <4>1. \A e \in events[c] : [e EXCEPT !.area = a] \in moved
          OBVIOUS
        <4>2. \A f \in moved : \E e \in events[c] : f = [e EXCEPT !.area = a]
          OBVIOUS
        <4> HIDE DEF moved
        <4>3. \A f \in moved : f \in [item: Items, area: Areas] /\ f.area = a
          BY <3>5, <4>2
        <4>4. \A f \in moved : \E e \in events[c] : f.item = e.item
          BY <3>5, <4>2
        <4>5. \A e \in events[c] : \E f \in moved : f.item = e.item
          BY <3>5, <4>1
        <4> QED
          BY <4>3, <4>4, <4>5
      <3> HIDE DEF moved
      <3> QED
        BY <3>1, <3>2, <3>3, <3>6 DEF ItemsOf
    <2> QED
      BY <2>1, <2>2, <2>3
  <1>3. /\ \A k \in Calendars \ {c} : calendar'[k] = calendar[k] /\ events'[k] = events[k]
    BY <1>1, <1>2 DEF IInv, Shapes
  <1> HIDE DEF row
  <1>4. Shapes'
    BY <1>1, <1>2 DEF IInv, Shapes
  <1>5. Tags'
    <2>1. TagsAreKnown'
      BY <1>1, <1>2, <1>3 DEF row, IInv, Tags, TagsAreKnown
    <2> QED
      BY <1>1, <2>1 DEF IInv, Tags, Numbered, Served, Loaded
  <1>6. EditsLock'
    <2>1. \A x \in Clients : EditsUrl(x) => sync[x].calendar \in Calendars \ {c}
      BY <1>1 DEF IInv, EditsLock, Shapes
    <2> QED
      BY <1>1, <1>3, <2>1 DEF IInv, EditsLock, EditsUrl
  <1>7. AddsAreNew'
    <2>1. \A x \in Clients : Adds(x) => sync[x].calendar \in Calendars \ {c}
      BY <1>1 DEF IInv, AddsAreNew, Adds, There, Shapes, Begun, Answered
    <2>2. \A k \in Calendars : ~There(k)' => events'[k] = {}
      BY <1>2, <1>3 DEF row, IInv, AddsAreNew, There
    <2> QED
      BY <1>1, <1>3, <2>1, <2>2 DEF IInv, AddsAreNew, Adds
  <1>8. EventsAreInTheirArea'
    BY <1>1, <1>2, <1>3 DEF row, IInv, EventsAreInTheirArea
  <1>9. NoChangeIsHidden'
    <2> SUFFICES ASSUME NEW k \in Calendars, k \notin strayed, NEW d \in published,
                        There(k)', calendar'[k].etag = d.etag, calendar'[k].url = d.url
                 PROVE  {e.item : e \in events'[k]} = Parsed(d.items)
      BY <1>1 DEF NoChangeIsHidden, ItemsOf
    <2>1. There(k) /\ calendar[k].etag = d.etag /\ calendar[k].url = d.url
      BY <1>1, <1>2, <1>3 DEF row, There
    <2>2. ItemsOf(k) = Parsed(d.items)
      BY <2>1 DEF IInv, NoChangeIsHidden
    <2>3. {e.item : e \in events'[k]} = ItemsOf(k)
      BY <1>2, <1>3 DEF row, There, ItemsOf
    <2> QED
      BY <2>2, <2>3
  <1> QED
    BY <1>4, <1>5, <1>6, <1>7, <1>8, <1>9 DEF IInv

-----------------------------------------------------------------------------
(* Every step keeps the inductive invariant; refresh intervals and the     *)
(* start of a round touch nothing it speaks of but the round.              *)
LEMMA StepIInv == IInv /\ [Next]_vars => IInv'
  <1> SUFFICES ASSUME IInv, [Next]_vars PROVE IInv'
    OBVIOUS
  <1>1. CASE UserNext
    BY <1>1, SyncsBegin, EditStep DEF UserNext
  <1>2. CASE \E u \in Urls, items \in SUBSET Items, broken \in BOOLEAN : Publish(u, items, broken)
    BY <1>2, PublishStep
  <1>3. CASE \E c \in Calendars : WorkerSync(c)
    BY <1>3, SyncsBegin
  <1>4. CASE \E x \in Clients : SyncNext(x)
    BY <1>4, LockStep, AnswerStep, ApplyStep, KeepStep, BreakStep DEF SyncNext
  <1>5. CASE StartRound \/ (\E c \in Calendars : BecomeDue(c)) \/ UNCHANGED vars
    <2>1. /\ round' \in [left: SUBSET Calendars, rows: [Calendars -> Row]]
          /\ due' \subseteq Calendars
          /\ UNCHANGED <<document, published, calendar, events, sync, lock, strayed>>
      <3>1. CASE StartRound
        <4>1. {c \in due : calendar[c].enabled} \in SUBSET due
          OBVIOUS
        <4> QED
          BY <3>1, <4>1 DEF StartRound, serverVars, IInv, Shapes
      <3>2. CASE (\E c \in Calendars : BecomeDue(c)) \/ UNCHANGED vars
        BY <3>2 DEF BecomeDue, vars, serverVars, IInv, Shapes
      <3> QED
        BY <1>5, <3>1, <3>2
    <2>2. Shapes' /\ Tags'
      BY <2>1 DEF IInv, Shapes, Tags, Numbered, Served, TagsAreKnown, Loaded
    <2>3. EditsLock' /\ AddsAreNew'
      BY <2>1 DEF IInv, EditsLock, EditsUrl, AddsAreNew, Adds, There
    <2>4. NoChangeIsHidden' /\ EventsAreInTheirArea'
      BY <2>1 DEF IInv, NoChangeIsHidden, EventsAreInTheirArea, There, ItemsOf
    <2> QED
      BY <2>2, <2>3, <2>4 DEF IInv
  <1> QED
    BY <1>1, <1>2, <1>3, <1>4, <1>5 DEF Next

(* A 304 never hides a change.                                             *)
THEOREM NothingHidden == Spec => []NoChangeIsHidden
  <1>1. IInv => NoChangeIsHidden
    BY DEF IInv
  <1> QED
    BY <1>1, InitIInv, StepIInv, PTL DEF Spec

(* The events of a calendar are in its area.                               *)
THEOREM EventsAreWhereTheyBelong == Spec => []EventsAreInTheirArea
  <1>1. IInv => EventsAreInTheirArea
    BY DEF IInv
  <1> QED
    BY <1>1, InitIInv, StepIInv, PTL DEF Spec

-----------------------------------------------------------------------------
(***************************************************************************)
(* Types.  A UID is stored once, an address is locked by the one edit that *)
(* holds the lock, and room is kept for the calendar that is being added.  *)
(***************************************************************************)
UidsOnce ==
    \A c \in Calendars :
        /\ events[c] \subseteq [item: Items \ Skipped, area: Areas]
        /\ \A e, f \in events[c] : Same(e.item, f.item) => e = f
Checks(x) == x \in Tabs /\ sync[x].edit \in {"url", "address"}
LocksHeld ==
    /\ \A c \in lock : \E x \in Tabs : EditsUrl(x) /\ sync[x].calendar = c
    /\ \A x \in Clients : EditsUrl(x) => x \in Tabs
    /\ \A x \in Clients : sync[x].kind = "check" => Checks(x)
RoomKept ==
    ~crowded => /\ \A x, y \in Clients : Adds(x) /\ Adds(y) => x = y
                /\ Count <= MaxCalendars
                /\ \A x \in Clients : Adds(x) => Count < MaxCalendars
Bounded == ops \in 0..MaxOps /\ faults \in 0..MaxFaults /\ crowded \in BOOLEAN
TInv == UidsOnce /\ LocksHeld /\ RoomKept /\ Bounded

(* Two events that are taken of a document have different UIDs.            *)
LEMMA ParsedOnce ==
    ASSUME NEW items \in SUBSET Items, NEW i \in Parsed(items), NEW j \in Parsed(items), Same(i, j)
    PROVE  i = j
  <1>1. i \in Items /\ j \in Items /\ i = (CHOOSE k \in items \ Skipped : Same(i, k))
        /\ j = (CHOOSE k \in items \ Skipped : Same(j, k))
    BY DEF Parsed
  <1>2. \A k \in items \ Skipped : Same(i, k) <=> Same(j, k)
    BY <1>1, SubscriptionsAssumption
  <1> QED
    BY <1>1, <1>2

LEMMA ShownOnce ==
    ASSUME NEW s \in Answered
    PROVE  /\ Shown(s) \subseteq [item: Items \ Skipped, area: Areas]
           /\ \A e, f \in Shown(s) : Same(e.item, f.item) => e = f
  <1>1. s.items \in SUBSET Items /\ s.row.area \in Areas
    BY DEF Answered, Row
  <1>2. \A i \in Parsed(s.items) : i \in Items \ Skipped
    BY <1>1 DEF Parsed
  <1>3. \A e \in Shown(s) : e.item \in Parsed(s.items) /\ e = [item |-> e.item, area |-> s.row.area]
    BY DEF Shown
  <1>4. \A e, f \in Shown(s) : Same(e.item, f.item) => e.item = f.item
    BY <1>1, <1>3, ParsedOnce
  <1>5. \A e, f \in Shown(s) : Same(e.item, f.item) => e = f
    BY <1>3, <1>4
  <1>6. \A e \in Shown(s) : e \in [item: Items \ Skipped, area: Areas]
    BY <1>1, <1>2, <1>3
  <1> QED
    BY <1>5, <1>6

(* Only what is applied, moved or deleted changes the events.              *)
LEMMA UidsStep == ASSUME IInv, UidsOnce, [Next]_vars PROVE UidsOnce'
  <1>1. ASSUME NEW x \in Clients, Apply(x) PROVE UidsOnce'
    <2>1. sync[x].kind = "loaded" /\ sync[x] \in Answered
      BY <1>1 DEF Apply, IInv, Shapes, Begun, Idle
    <2>2. events' = [events EXCEPT ![sync[x].calendar] = Shown(sync[x])]
      BY <1>1 DEF Apply
    <2>3. \A c \in Calendars : events'[c] = events[c] \/ events'[c] = Shown(sync[x])
      BY <2>2 DEF IInv, Shapes
    <2> QED
      BY <2>1, <2>3, ShownOnce DEF UidsOnce
  <1>2. ASSUME NEW c \in Calendars, NEW a \in Areas, Move(c, a) PROVE UidsOnce'
    <2> DEFINE moved == {[e EXCEPT !.area = a] : e \in events[c]}
    <2>1. \A k \in Calendars : events'[k] = IF k = c THEN moved ELSE events[k]
      BY <1>2 DEF Move, IInv, Shapes
    <2>2. \A f \in moved : \E e \in events[c] :
             f.item = e.item /\ f = [item |-> e.item, area |-> a]
      <3> SUFFICES ASSUME NEW e \in events[c]
                   PROVE  [e EXCEPT !.area = a] = [item |-> e.item, area |-> a]
        OBVIOUS
      <3>1. e \in [item: Items, area: Areas]
        BY DEF IInv, Shapes
      <3> QED
        BY <3>1
    <2> HIDE DEF moved
    <2>3. \A f \in moved : f \in [item: Items \ Skipped, area: Areas]
      <3> SUFFICES ASSUME NEW f \in moved PROVE f \in [item: Items \ Skipped, area: Areas]
        OBVIOUS
      <3>1. PICK e \in events[c] : f = [item |-> e.item, area |-> a]
        BY <2>2
      <3>2. e.item \in Items \ Skipped
        BY DEF UidsOnce
      <3> QED
        BY <3>1, <3>2
    <2>4. \A f, g \in moved : Same(f.item, g.item) => f = g
      BY <2>2 DEF UidsOnce
    <2> QED
      BY <2>1, <2>3, <2>4 DEF UidsOnce
  <1>3. ASSUME NEW c \in Calendars, Delete(c) PROVE UidsOnce'
    <2>1. \A k \in Calendars : events'[k] = IF k = c THEN {} ELSE events[k]
      BY <1>3 DEF Delete, IInv, Shapes
    <2> QED
      BY <2>1 DEF UidsOnce
  <1>4. CASE UNCHANGED events
    BY <1>4 DEF UidsOnce
  <1>5. \/ UNCHANGED events \/ \E x \in Clients : Apply(x)
        \/ \E c \in Calendars : Delete(c) \/ \E a \in Areas : Move(c, a)
    BY DEF Next, UserNext, SyncNext, AddCalendar, SyncNow, ChangeUrl, Begins, Switch, StartRound, Publish,
           BecomeDue, WorkerSync, LockRow, RefuseHost, Download, DownloadFails, Keep, Break, vars
  <1> QED
    BY <1>1, <1>2, <1>3, <1>4, <1>5

(* How a step of one client changes what it has under way: it begins, gets *)
(* an answer, or ends; and nobody else's.                                  *)
Starts(x, s) == sync[x] = Idle /\ s \in Begun /\ sync' = [sync EXCEPT ![x] = s]
Answers(x) ==
    /\ sync[x] # Idle /\ sync'[x] # Idle /\ sync'[x].edit = sync[x].edit
    /\ sync'[x].calendar = sync[x].calendar
    /\ sync[x].kind \notin {"idle", "check"} /\ sync'[x].kind \notin {"idle", "check"}
    /\ \A y \in Clients \ {x} : sync'[y] = sync[y]

LEMMA AnswersOnly ==
    ASSUME IInv, NEW x \in Clients, Download(x) \/ DownloadFails(x)
    PROVE  Answers(x) /\ UNCHANGED <<calendar, lock, crowded>>
  <1> DEFINE s == sync[x]
             d == document[s.row.url]
  <1>1. s \in Begun \cup Answered /\ s # Idle /\ s.kind \notin {"idle", "check"}
    BY DEF Download, DownloadFails, IInv, Shapes, Idle
  <1>2. sync'[x].calendar = s.calendar /\ sync'[x].edit = s.edit /\ sync'[x].kind \notin {"idle", "check"}
        /\ \A y \in Clients \ {x} : sync'[y] = sync[y]
    <2>1. CASE Download(x)
      <3> DEFINE q == [kind |-> IF d.etag # 0 /\ d.etag = s.row.etag THEN "unchanged"
                                ELSE IF Unusable(d) THEN "failed" ELSE "loaded",
                       calendar |-> s.calendar, row |-> s.row, edit |-> s.edit,
                       etag |-> d.etag, items |-> d.items]
      <3>1. sync' = [sync EXCEPT ![x] = q]
        BY <2>1 DEF Download
      <3>2. q.calendar = s.calendar /\ q.edit = s.edit /\ q.kind \notin {"idle", "check"}
        OBVIOUS
      <3> HIDE DEF q
      <3> QED
        BY <3>1, <3>2 DEF IInv, Shapes
    <2>2. CASE DownloadFails(x)
      BY <2>2 DEF DownloadFails, IInv, Shapes
    <2> QED
      BY <2>1, <2>2
  <1> QED
    BY <1>1, <1>2 DEF Answers, Idle, Download, DownloadFails

(* The lock of an address is taken and given back with its edit.           *)
LEMMA LocksStep == ASSUME IInv, LocksHeld, [Next]_vars PROVE LocksHeld'
  <1>1. ASSUME NEW x \in Clients, NEW s \in Begun, Starts(x, s),
               ~Holds(s), s.kind = "check" => x \in Tabs /\ s.edit # "none" /\ s.edit # "add",
               lock' = lock
        PROVE  LocksHeld'
    <2>1. sync'[x] = s /\ (\A y \in Clients \ {x} : sync'[y] = sync[y]) /\ ~EditsUrl(x) /\ ~EditsUrl(x)'
      BY <1>1 DEF Starts, IInv, Shapes, Idle, EditsUrl, Holds
    <2>2. \A y \in Clients : /\ EditsUrl(y)' => y \in Tabs
                             /\ sync'[y].kind = "check" => Checks(y)'
      BY <1>1, <2>1 DEF LocksHeld, EditsUrl, Checks, Begun, Edits
    <2>3. ASSUME NEW c \in lock PROVE \E y \in Tabs : EditsUrl(y)' /\ sync'[y].calendar = c
      <3>1. PICK y \in Tabs : EditsUrl(y) /\ sync[y].calendar = c
        BY <2>3 DEF LocksHeld
      <3> QED
        BY <2>1, <3>1 DEF EditsUrl, Clients
    <2> QED
      BY <1>1, <2>2, <2>3 DEF LocksHeld
  <1>2. ASSUME NEW x \in Clients, Answers(x), lock' = lock PROVE LocksHeld'
    <2>1. \A y \in Clients : (EditsUrl(y)' <=> EditsUrl(y)) /\ (EditsUrl(y) => sync'[y].calendar = sync[y].calendar)
      BY <1>2 DEF Answers, EditsUrl, Holds
    <2>2. \A y \in Clients : sync'[y].kind = "check" => sync[y].kind = "check" /\ (Checks(y) => Checks(y)')
      BY <1>2 DEF Answers, Checks
    <2> QED
      BY <1>2, <2>1, <2>2 DEF LocksHeld, Clients
  <1>3. ASSUME NEW x \in Clients, sync[x] # Idle, Ended(x) PROVE LocksHeld'
    <2>1. sync'[x] = Idle /\ (\A y \in Clients \ {x} : sync'[y] = sync[y])
          /\ lock' = IF EditsUrl(x) THEN lock \ {sync[x].calendar} ELSE lock
      BY <1>3 DEF Ended, IInv, Shapes
    <2>2. \A y \in Clients : /\ EditsUrl(y)' => y \in Tabs
                             /\ sync'[y].kind = "check" => Checks(y)'
      BY <2>1 DEF LocksHeld, EditsUrl, Holds, Idle, Checks
    <2>3. ASSUME NEW c \in lock' PROVE \E y \in Tabs : EditsUrl(y)' /\ sync'[y].calendar = c
      <3>1. PICK y \in Tabs : EditsUrl(y) /\ sync[y].calendar = c
        BY <2>1 DEF LocksHeld
      <3>2. y # x
        BY <1>3, <2>1, <3>1
      <3> QED
        BY <2>1, <3>1, <3>2 DEF EditsUrl, Clients
    <2> QED
      BY <2>2, <2>3 DEF LocksHeld
  <1>4. CASE UNCHANGED <<sync, lock>>
    BY <1>4 DEF LocksHeld, EditsUrl, Checks
  <1>5. ASSUME NEW x \in Tabs, NEW c \in Calendars,
               \/ \E u \in Urls, a \in Areas : AddCalendar(x, c, u, a)
               \/ SyncNow(x, c) \/ \E u \in Urls : ChangeUrl(x, c, u)
        PROVE  \E s \in Begun : /\ Starts(x, s) /\ ~Holds(s) /\ lock' = lock
                                /\ s.kind = "check" => s.edit # "none" /\ s.edit # "add"
    <2>1. \A u \in Urls, a \in Areas : Fetching(c, [NewRow EXCEPT !.url = u, !.area = a], "add") \in Begun
      BY NewRowIsRow DEF Fetching, Begun, Row, Edits
    <2>2. Fetching(c, calendar[c], "none") \in Begun
      BY DEF Fetching, Begun, Edits, IInv, Shapes
    <2>3. calendar[c] \in Row
      BY DEF IInv, Shapes
    <2>4. \A row, edit : edit \in {"none", "add"} => /\ ~Holds(Fetching(c, row, edit))
                                                    /\ Fetching(c, row, edit).kind # "check"
      BY DEF Fetching, Holds
    <2>5. CASE SyncNow(x, c)
      BY <2>2, <2>4, <2>5 DEF SyncNow, Begins, Starts
    <2>6. ASSUME NEW u \in Urls, ChangeUrl(x, c, u)
          PROVE  \E s \in Begun : /\ Starts(x, s) /\ ~Holds(s) /\ lock' = lock
                                  /\ s.kind = "check" => s.edit # "none" /\ s.edit # "add"
      <3> DEFINE s == [kind |-> "check", calendar |-> c,
                       row |-> [calendar[c] EXCEPT !.url = u, !.etag = 0],
                       edit |-> IF calendar[c].etag = 0 THEN "address" ELSE "url"]
      <3>1. s \in Begun /\ ~Holds(s) /\ s.edit # "none" /\ s.edit # "add"
        BY <2>3 DEF Begun, Row, Edits, Holds
      <3>2. sync[x] = Idle /\ sync' = [sync EXCEPT ![x] = s] /\ lock' = lock
        BY <2>6 DEF ChangeUrl, Begins
      <3> HIDE DEF s
      <3> QED
        BY <3>1, <3>2 DEF Starts
    <2>7. ASSUME NEW u \in Urls, NEW a \in Areas, AddCalendar(x, c, u, a)
          PROVE  \E s \in Begun : /\ Starts(x, s) /\ ~Holds(s) /\ lock' = lock
                                  /\ s.kind = "check" => s.edit # "none" /\ s.edit # "add"
      BY <2>1, <2>4, <2>7 DEF AddCalendar, Begins, Starts
    <2> QED
      BY <1>5, <2>5, <2>6, <2>7
  <1>6. ASSUME NEW c \in Calendars, WorkerSync(c)
        PROVE  /\ Worker \in Clients
               /\ \E s \in Begun : Starts(Worker, s) /\ ~Holds(s) /\ s.kind = "fetch" /\ lock' = lock
    <2> DEFINE s == Fetching(c, round.rows[c], "none")
    <2>1. s \in Begun /\ s.kind = "fetch" /\ ~Holds(s)
      BY DEF Fetching, Begun, Edits, Holds, IInv, Shapes
    <2>2. sync[Worker] = Idle /\ sync' = [sync EXCEPT ![Worker] = s] /\ lock' = lock
      BY <1>6 DEF WorkerSync
    <2> HIDE DEF s
    <2> QED
      BY <2>1, <2>2 DEF Starts, Clients
  <1>7. \/ UNCHANGED <<sync, lock>>
        \/ \E x \in Clients : SyncNext(x)
        \/ \E c \in Calendars : WorkerSync(c)
        \/ \E x \in Tabs, c \in Calendars :
              \/ \E u \in Urls, a \in Areas : AddCalendar(x, c, u, a)
              \/ SyncNow(x, c) \/ \E u \in Urls : ChangeUrl(x, c, u)
    BY DEF Next, UserNext, Switch, Delete, Move, Edit, StartRound, Publish, BecomeDue, vars
  <1>8. ASSUME NEW x \in Clients, SyncNext(x) PROVE LocksHeld'
    <2>1. CASE Download(x) \/ DownloadFails(x)
      BY <1>2, <2>1, AnswersOnly
    <2>2. CASE Apply(x) \/ Keep(x) \/ Break(x) \/ RefuseHost(x)
      <3>1. sync[x] # Idle /\ Ended(x)
        BY <2>2 DEF Apply, Keep, Break, RefuseHost, Idle
      <3> QED
        BY <1>3, <3>1
    <2>3. CASE LockRow(x)
      <3>1. /\ x \in Tabs /\ ~EditsUrl(x) /\ lock' = lock \cup {sync[x].calendar}
            /\ sync'[x].calendar = sync[x].calendar /\ sync'[x].kind = "fetch"
            /\ sync'[x].edit = sync[x].edit /\ \A y \in Clients \ {x} : sync'[y] = sync[y]
        BY <2>3 DEF LockRow, Fetching, LocksHeld, EditsUrl, Holds, Checks, IInv, Shapes
      <3>2. EditsUrl(x)'
        BY <2>3, <3>1 DEF LockRow, LocksHeld, EditsUrl, Holds, Checks
      <3>3. \A y \in Clients : /\ EditsUrl(y)' => y \in Tabs
                               /\ sync'[y].kind = "check" => Checks(y)'
        BY <3>1 DEF LocksHeld, EditsUrl, Checks
      <3>4. ASSUME NEW c \in lock' PROVE \E y \in Tabs : EditsUrl(y)' /\ sync'[y].calendar = c
        <4>1. CASE c = sync[x].calendar
          BY <3>1, <3>2, <4>1
        <4>2. CASE c # sync[x].calendar
          <5>1. PICK y \in Tabs : EditsUrl(y) /\ sync[y].calendar = c
            BY <3>1, <3>4, <4>2 DEF LocksHeld
          <5> QED
            BY <3>1, <5>1 DEF EditsUrl, Clients
        <4> QED
          BY <4>1, <4>2
      <3> QED
        BY <3>3, <3>4 DEF LocksHeld
    <2> QED
      BY <1>8, <2>1, <2>2, <2>3 DEF SyncNext
  <1> QED
    BY <1>1, <1>4, <1>5, <1>6, <1>7, <1>8 DEF Clients

(* Nothing is added that was not being added.                              *)
LEMMA RoomShrinks ==
    ASSUME RoomKept, crowded' = crowded, \A x \in Clients : Adds(x)' => Adds(x),
           \A c \in Calendars : There(c)' => There(c)
    PROVE  RoomKept'
  <1> DEFINE S == {c \in Calendars : There(c)}
             T == {c \in Calendars : There(c)'}
  <1>1. T \subseteq S /\ IsFiniteSet(S)
    BY SubscriptionsAssumption, FS_Subset
  <1>2. Cardinality(T) <= Cardinality(S) /\ Cardinality(S) \in Nat /\ Cardinality(T) \in Nat
    BY <1>1, FS_Subset, FS_CardinalityType
  <1>3. Count = Cardinality(S) /\ Count' = Cardinality(T)
    BY DEF Count
  <1> HIDE DEF S, T
  <1> QED
    BY <1>2, <1>3, SubscriptionsAssumption DEF RoomKept

(* A client that ends a sync: its calendar is there now if it was added.   *)
LEMMA RoomFilled ==
    ASSUME IInv, RoomKept, NEW x \in Clients, sync[x] # Idle, Ended(x), crowded' = crowded,
           Exists(sync[x]), sync[x].calendar \in Calendars,
           \A c \in Calendars \ {sync[x].calendar} : There(c)' <=> There(c)
    PROVE  RoomKept'
  <1>1. sync'[x] = Idle /\ \A y \in Clients \ {x} : sync'[y] = sync[y]
    BY DEF Ended, IInv, Shapes
  <1>2. \A y \in Clients : Adds(y)' => y # x /\ Adds(y)
    BY <1>1 DEF Adds
  <1>3. CASE There(sync[x].calendar)
    BY <1>2, <1>3, RoomShrinks
  <1>4. CASE ~There(sync[x].calendar)
    <2>1. Adds(x)
      BY <1>4 DEF Exists, Adds
    <2> SUFFICES ASSUME ~crowded
                 PROVE  Count' <= MaxCalendars /\ \A y \in Clients : ~Adds(y)'
      BY DEF RoomKept
    <2>2. (\A y \in Clients : ~Adds(y)') /\ Count < MaxCalendars
      BY <1>2, <2>1 DEF RoomKept
    <2> DEFINE S == {c \in Calendars : There(c)}
               T == {c \in Calendars : There(c)'}
               U == S \cup {sync[x].calendar}
    <2>3. T \subseteq U /\ IsFiniteSet(S)
      BY SubscriptionsAssumption, FS_Subset
    <2>4. IsFiniteSet(U) /\ Cardinality(U) <= Cardinality(S) + 1 /\ Cardinality(S) \in Nat
          /\ Cardinality(U) \in Nat
      <3>1. Cardinality(S) \in Nat
        BY <2>3, FS_CardinalityType
      <3> HIDE DEF S
      <3>2. /\ IsFiniteSet(U)
            /\ Cardinality(U) = IF sync[x].calendar \in S THEN Cardinality(S) ELSE Cardinality(S) + 1
        BY <2>3, FS_AddElement
      <3> QED
        BY <3>1, <3>2
    <2>5. Cardinality(T) <= Cardinality(U) /\ Cardinality(T) \in Nat
      BY <2>3, <2>4, FS_Subset, FS_CardinalityType
    <2>6. Count = Cardinality(S) /\ Count' = Cardinality(T)
      BY DEF Count
    <2> HIDE DEF S, T, U
    <2> QED
      BY <2>2, <2>4, <2>5, <2>6, SubscriptionsAssumption
  <1> QED
    BY <1>3, <1>4

LEMMA RoomStep == ASSUME IInv, RoomKept, [Next]_vars PROVE RoomKept'
  <1>1. ASSUME NEW x \in Tabs, NEW c \in Calendars, NEW u \in Urls, NEW a \in Areas,
               AddCalendar(x, c, u, a)
        PROVE  RoomKept'
    <2> SUFFICES ASSUME ~crowded'
                 PROVE  /\ \A y, z \in Clients : Adds(y)' /\ Adds(z)' => y = z
                        /\ Count' < MaxCalendars /\ Count' <= MaxCalendars
      BY DEF RoomKept
    <2>1. Adding = {} /\ Count < MaxCalendars /\ calendar' = calendar
      BY <1>1 DEF AddCalendar, Begins
    <2>2. x \in Clients /\ \A y \in Clients \ {x} : sync'[y] = sync[y]
      BY <1>1 DEF AddCalendar, Begins, IInv, Shapes, Clients
    <2>3. \A y \in Clients : Adds(y)' => y = x
      BY <2>1, <2>2 DEF Adding, Adds
    <2>4. Count' = Count /\ Count \in Nat
      <3>1. IsFiniteSet({k \in Calendars : There(k)})
        BY SubscriptionsAssumption, FS_Subset
      <3> QED
        BY <2>1, <3>1, FS_CardinalityType DEF Count, There
    <2> QED
      BY <2>1, <2>3, <2>4, SubscriptionsAssumption
  <1>2. ASSUME NEW x \in Clients, NEW c, NEW row, NEW edit, edit # "add", sync[x] = Idle,
               sync' = [sync EXCEPT ![x] = Fetching(c, row, edit)],
               UNCHANGED <<calendar, crowded>>
        PROVE  RoomKept'
    <2>1. sync'[x].edit = edit /\ \A y \in Clients \ {x} : sync'[y] = sync[y]
      BY <1>2 DEF IInv, Shapes, Fetching
    <2>2. \A y \in Clients : Adds(y)' => Adds(y)
      BY <1>2, <2>1 DEF Adds
    <2> QED
      BY <1>2, <2>2, RoomShrinks DEF There
  <1>3. ASSUME NEW x \in Clients, SyncNext(x) PROVE RoomKept'
    <2>1. CASE Download(x) \/ DownloadFails(x)
      <3>1. Answers(x) /\ UNCHANGED <<calendar, crowded>>
        BY <2>1, AnswersOnly
      <3>2. \A y \in Clients : Adds(y)' => Adds(y)
        BY <3>1 DEF Answers, Adds
      <3> QED
        BY <3>1, <3>2, RoomShrinks DEF There
    <2>2. CASE Apply(x) \/ Keep(x)
      <3>1. /\ sync[x] # Idle /\ Ended(x) /\ crowded' = crowded /\ Exists(sync[x])
            /\ \A c \in Calendars \ {sync[x].calendar} : calendar'[c] = calendar[c]
        BY <2>2 DEF Apply, Keep, Idle, IInv, Shapes
      <3>2. sync[x].calendar \in Calendars
        BY <3>1 DEF IInv, Shapes, Begun, Answered
      <3>3. \A c \in Calendars \ {sync[x].calendar} : There(c)' <=> There(c)
        BY <3>1 DEF There
      <3> QED
        BY <3>1, <3>2, <3>3, RoomFilled
    <2>3. CASE Break(x) \/ RefuseHost(x)
      <3>1. Ended(x) /\ UNCHANGED <<calendar, crowded>>
        BY <2>3 DEF Break, RefuseHost
      <3>2. \A y \in Clients : Adds(y)' => Adds(y)
        BY <3>1 DEF Ended, Adds, IInv, Shapes
      <3> QED
        BY <3>1, <3>2, RoomShrinks DEF There
    <2>4. CASE LockRow(x)
      <3>1. /\ sync'[x].edit = sync[x].edit /\ UNCHANGED <<calendar, crowded>>
            /\ sync[x] # Idle /\ \A y \in Clients \ {x} : sync'[y] = sync[y]
        BY <2>4 DEF LockRow, Fetching, Idle, IInv, Shapes
      <3>2. \A y \in Clients : Adds(y)' => Adds(y)
        BY <3>1 DEF Adds
      <3> QED
        BY <3>1, <3>2, RoomShrinks DEF There
    <2> QED
      BY <1>3, <2>1, <2>2, <2>3, <2>4 DEF SyncNext
  <1>4. ASSUME NEW c \in Calendars, Switch(c) \/ Delete(c) \/ \E a \in Areas : Move(c, a) PROVE RoomKept'
    <2>1. There(c) /\ UNCHANGED <<sync, crowded>>
      BY <1>4 DEF Switch, Delete, Move, Edit
    <2>2. \A k \in Calendars \ {c} : calendar'[k] = calendar[k]
      BY <1>4 DEF Switch, Delete, Move, Edit, IInv, Shapes
    <2> QED
      BY <2>1, <2>2, RoomShrinks DEF There, Adds
  <1>5. CASE UNCHANGED <<sync, calendar, crowded>>
    BY <1>5, RoomShrinks DEF There, Adds
  <1>6. ASSUME NEW x \in Tabs, NEW c \in Calendars, SyncNow(x, c) PROVE RoomKept'
    BY <1>2, <1>6 DEF SyncNow, Begins, Clients
  <1>7. ASSUME NEW x \in Tabs, NEW c \in Calendars, NEW u \in Urls, ChangeUrl(x, c, u) PROVE RoomKept'
    <2> DEFINE s == [kind |-> "check", calendar |-> c,
                     row |-> [calendar[c] EXCEPT !.url = u, !.etag = 0],
                     edit |-> IF calendar[c].etag = 0 THEN "address" ELSE "url"]
    <2>1. s.edit # "add"
      OBVIOUS
    <2>2. sync' = [sync EXCEPT ![x] = s] /\ UNCHANGED <<calendar, crowded>> /\ x \in Clients
      BY <1>7 DEF ChangeUrl, Begins, Clients
    <2> HIDE DEF s
    <2>3. \A y \in Clients : Adds(y)' => Adds(y)
      BY <2>1, <2>2 DEF Adds, IInv, Shapes
    <2> QED
      BY <2>2, <2>3, RoomShrinks DEF There
  <1>8. ASSUME NEW c \in Calendars, WorkerSync(c) PROVE RoomKept'
    BY <1>2, <1>8 DEF WorkerSync, Clients
  <1>9. \/ UNCHANGED <<sync, calendar, crowded>>
        \/ \E x \in Clients : SyncNext(x)
        \/ \E c \in Calendars : WorkerSync(c) \/ Switch(c) \/ Delete(c) \/ \E a \in Areas : Move(c, a)
        \/ \E x \in Tabs, c \in Calendars :
              \/ \E u \in Urls, a \in Areas : AddCalendar(x, c, u, a)
              \/ SyncNow(x, c) \/ \E u \in Urls : ChangeUrl(x, c, u)
    BY DEF Next, UserNext, StartRound, Publish, BecomeDue, vars
  <1> QED
    BY <1>1, <1>3, <1>4, <1>5, <1>6, <1>7, <1>8, <1>9

LEMMA BoundsStep == ASSUME Bounded, [Next]_vars PROVE Bounded'
  <1>1. \/ Op \/ Fault \/ UNCHANGED <<ops, faults>>
    BY DEF Next, UserNext, SyncNext, AddCalendar, SyncNow, ChangeUrl, Begins, Switch, Delete, Move, Edit,
           StartRound, Publish, BecomeDue, WorkerSync, LockRow, RefuseHost, Download, DownloadFails, Apply, Keep, Break,
           vars, boundVars
  <1>2. ops' \in 0..MaxOps /\ faults' \in 0..MaxFaults
    BY <1>1, SubscriptionsAssumption DEF Bounded, Op, Fault
  <1>3. crowded' \in BOOLEAN
    <2>1. \/ crowded' = crowded
          \/ \E x \in Tabs, c \in Calendars, u \in Urls, a \in Areas : AddCalendar(x, c, u, a)
      BY DEF Next, UserNext, SyncNext, SyncNow, ChangeUrl, Switch, Delete, Move, Edit,
             StartRound, Publish, BecomeDue, WorkerSync, LockRow, RefuseHost, Download, DownloadFails, Apply, Keep, Break, vars
    <2>2. ASSUME NEW x \in Tabs, NEW c \in Calendars, NEW u \in Urls, NEW a \in Areas,
                 AddCalendar(x, c, u, a)
          PROVE  crowded' \in BOOLEAN
      BY <2>2 DEF AddCalendar, Bounded
    <2> QED
      BY <2>1, <2>2 DEF Bounded
  <1> QED
    BY <1>2, <1>3 DEF Bounded

LEMMA InitTInv == Init => TInv
  <1> SUFFICES ASSUME Init PROVE TInv
    OBVIOUS
  <1>1. UidsOnce /\ Bounded
    <2>1. \A c \in Calendars : events[c] = {}
      BY DEF Init
    <2>2. UidsOnce
      BY <2>1 DEF UidsOnce
    <2>3. ops = 0 /\ faults = 0 /\ crowded = FALSE
      BY DEF Init
    <2>4. ops \in 0..MaxOps /\ faults \in 0..MaxFaults
      BY <2>3, SubscriptionsAssumption
    <2>5. crowded \in BOOLEAN
      BY <2>3
    <2> QED
      BY <2>2, <2>4, <2>5 DEF Bounded
  <1>2. \A x \in Clients : ~EditsUrl(x) /\ ~Adds(x)
    BY DEF Init, EditsUrl, Holds, Adds, Idle
  <1>3. LocksHeld
    BY <1>2 DEF Init, LocksHeld, Idle
  <1>4. {c \in Calendars : There(c)} = {}
    BY DEF Init, There, NewRow
  <1>5. Count = 0
    BY <1>4, FS_EmptySet DEF Count
  <1> QED
    BY <1>1, <1>2, <1>3, <1>5, SubscriptionsAssumption DEF TInv, RoomKept

(* Every variable keeps its shape; in particular MAX_CALENDARS is kept     *)
(* unless two calendars were being added at once (create_calendar).        *)
THEOREM TypeCorrect == Spec => []TypeOK
  <1>1. IInv /\ TInv /\ [Next]_vars => TInv'
    BY UidsStep, LocksStep, RoomStep, BoundsStep DEF TInv
  <1>2. IInv /\ TInv => TypeOK
    <2> SUFFICES ASSUME IInv, TInv PROVE TypeOK
      OBVIOUS
    <2>1. ASSUME NEW c \in Calendars
          PROVE  Cardinality({x \in Tabs : EditsUrl(x) /\ sync[x].calendar = c}) = IF c \in lock THEN 1 ELSE 0
      <3> DEFINE S == {x \in Tabs : EditsUrl(x) /\ sync[x].calendar = c}
      <3>1. CASE c \in lock
        <4>1. PICK x \in Tabs : EditsUrl(x) /\ sync[x].calendar = c
          BY <3>1 DEF TInv, LocksHeld
        <4>2. S = {x}
          BY <4>1 DEF IInv, EditsLock, EditsUrl, Clients
        <4> QED
          BY <3>1, <4>2, FS_Singleton
      <3>2. CASE c \notin lock
        <4>1. S = {}
          BY <3>2 DEF IInv, EditsLock, EditsUrl, Clients
        <4> QED
          BY <3>2, <4>1, FS_EmptySet
      <3> QED
        BY <3>1, <3>2
    <2>2. \A c \in Calendars :
            /\ events[c] \subseteq [item: Items \ Skipped, area: Areas]
            /\ \A e, f \in events[c] : Same(e.item, f.item) => e = f
            /\ events[c] # {} => There(c)
      BY DEF TInv, UidsOnce, IInv, AddsAreNew
    <2>3. calendar \in [Calendars -> Row] /\ due \subseteq Calendars /\ round.left \subseteq Calendars
      BY DEF IInv, Shapes
    <2>4. (crowded \/ Count <= MaxCalendars) /\ ops \in 0..MaxOps /\ faults \in 0..MaxFaults
      BY DEF TInv, RoomKept, Bounded
    <2> QED
      BY <2>1, <2>2, <2>3, <2>4 DEF TypeOK
  <1> QED
    BY <1>1, <1>2, InitIInv, StepIInv, InitTInv, PTL DEF Spec
=============================================================================
