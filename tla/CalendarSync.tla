------------------------------ MODULE CalendarSync ------------------------------
(***************************************************************************)
(* Two-way sync of one area with one online calendar                       *)
(* (services/calendar_sync.py), interleaved with people who edit the area  *)
(* through the API, people who edit the provider's calendar, and faults.   *)
(*                                                                         *)
(* A sync reads the provider's changes before it touches the database.     *)
(* Its first statement after that flushes conn.last_synced_at, so it holds *)
(* the lock on the connection's row from there to the commit: syncs of one *)
(* connection list concurrently, then work one after the other.  The       *)
(* database is READ COMMITTED: what a transaction wrote is invisible, and  *)
(* its rows cannot be written, until it commits; everything else can       *)
(* change between two of its steps.  The steps of the push phase are one   *)
(* request to the provider each.                                           *)
(*                                                                         *)
(* Rows are the events that can be synced: overrides of a series and       *)
(* events of a subscribed calendar are never candidates.                   *)
(***************************************************************************)
EXTENDS CalendarFields, FiniteSets, Functions

CONSTANTS
    Events,          \* ids of event rows; an id is used again after a deletion
    Remotes,         \* ids the provider gives out, each one once
    Syncs,           \* processes that run sync_connection: worker, "sync now"
    NoRemote, NoHash,
    UserFields,      \* contents people write in ToDoch
    ProviderItems,   \* items people write at the provider
    MaxPush,         \* MAX_PUSH
    Environment,     \* which of the steps below marked "if allowed" may happen
    MaxUserOps, MaxProviderOps, MaxFaults    \* bounds on the environment

ASSUME SyncAssumption ==
    /\ Texts # {} /\ UserFields \subseteq Fields
    /\ ProviderItems \subseteq {i \in Items : ~i.mine}
    /\ NoRemote \notin Remotes /\ NoHash \notin Fields
    /\ Remotes \cap (Remotes \X Occurrences) = {}
    /\ MaxPush \in Nat \ {0}
    /\ MaxUserOps \in Nat /\ MaxProviderOps \in Nat /\ MaxFaults \in Nat
    /\ Environment \subseteq {"disconnect", "delete during push", "delete area",
                              "slow delete", "cancel occurrence", "expire token",
                              "refuse", "lose answer", "crash"}

VARIABLES
    connected,   \* the connection's row exists
    token,       \* it has a sync token
    since,       \* what changed at the provider since that token
    rows,        \* event rows that exist
    ev,          \* their columns
    stones,      \* remote ids with a tombstone
    issued,      \* remote ids the provider has given out
    live,        \* items the provider has
    item,        \* what they say
    gaps,        \* occurrences cancelled on their own at Google
    at,          \* where each sync is
    list,        \* the changes it fetched
    late,        \* what changed at the provider since it fetched them
    phase,       \* what the transaction that holds the connection's row does
    todo,        \* what the loop it is in has left
    pushed,      \* events sent so far
    draft,       \* its copies of rows
    locked,      \* rows it has written and flushed
    born,        \* rows it has inserted
    doomed,      \* rows it has deleted
    sent,        \* rows whose new link is not flushed yet
    erased,      \* tombstones it has deleted
    orphans,     \* history: copies the code is known to leave behind
    unsettled,   \* history: items that may come back with another fingerprint
                 \* than their rows have
    deleting,    \* DELETE requests at work, with the link they have read
    userOps, providerOps, faults

dbVars == <<provider, connected, token, rows, ev, stones>>
providerVars == <<issued, live, item, gaps>>
changeVars == <<since, late>>
txVars == <<phase, todo, pushed, draft, locked, born, doomed, sent, erased>>
opVars == <<deleting, userOps, providerOps, faults>>
vars == <<dbVars, providerVars, changeVars, at, list, txVars, orphans, unsettled, opVars>>

Areas == {"here", "elsewhere"}     \* the connection's area, or another one
Changes == Remotes \cup (Remotes \X Occurrences)

Row == [area: Areas, fields: Fields, remote: Remotes \cup {NoRemote},
        hash: Fields \cup {NoHash}]

BlankFields == [text |-> CHOOSE t \in Texts : TRUE, padded |-> FALSE, past |-> FALSE,
                zone |-> "own", rule |-> "none", exdates |-> {}, status |-> "confirmed",
                transparency |-> "opaque"]
BlankRow == [area |-> "here", fields |-> BlankFields, remote |-> NoRemote, hash |-> NoHash]
BlankItem == [AsItem(BlankFields, "none", {}, "confirmed") EXCEPT !.mine = FALSE]
NoList == [ids |-> {}, live |-> {}, item |-> [r \in Remotes |-> BlankItem], gaps |-> {}]

IsLinked(row) == row.remote # NoRemote

Init ==
    /\ provider \in Providers /\ connected = TRUE /\ token = FALSE /\ since = {}
    /\ rows = {} /\ ev = [e \in Events |-> BlankRow] /\ stones = {}
    /\ issued = {} /\ live = {} /\ item = [r \in Remotes |-> BlankItem] /\ gaps = {}
    /\ at = [p \in Syncs |-> "idle"]
    /\ list = [p \in Syncs |-> NoList] /\ late = [p \in Syncs |-> {}]
    /\ phase = "none" /\ todo = {} /\ pushed = 0
    /\ draft = [e \in Events |-> BlankRow]
    /\ locked = {} /\ born = {} /\ doomed = {} /\ sent = {} /\ erased = {}
    /\ orphans = {} /\ unsettled = {}
    /\ deleting = {} /\ userOps = 0 /\ providerOps = 0 /\ faults = 0

-----------------------------------------------------------------------------
(***************************************************************************)
(* People in ToDoch.  A write to a row that the sync has flushed waits for *)
(* its commit; a row that is only in the sync's memory can be written.     *)
(***************************************************************************)
InToDoch ==
    UNCHANGED <<providerVars, changeVars, at, list, txVars, unsettled, providerOps, faults>>
UserOp == userOps < MaxUserOps /\ userOps' = userOps + 1 /\ InToDoch

Writable(e) == e \in rows /\ e \notin locked

(* Copies at the provider of which the database does not know.             *)
Unknown(links) == links \ {ev[e].remote : e \in rows}

Leave(links) == orphans' = orphans \cup (links \cap live')

InUse == rows \cup locked \cup sent \cup (todo \cap Events) \cup {d[1] : d \in deleting}

CreateEvent(e, f, a) ==
    /\ UserOp /\ e \notin InUse
    /\ rows' = rows \cup {e}
    /\ ev' = [ev EXCEPT ![e] = [BlankRow EXCEPT !.area = a, !.fields = f]]
    /\ UNCHANGED <<provider, connected, token, stones, orphans, deleting>>

(* PATCH writes the columns it was given; exceptions are not among them.   *)
EditEvent(e, f) ==
    /\ UserOp /\ Writable(e)
    /\ LET new == [f EXCEPT !.exdates = ev[e].fields.exdates]
       IN  new # ev[e].fields /\ ev' = [ev EXCEPT ![e].fields = new]
    /\ UNCHANGED <<provider, connected, token, rows, stones, orphans, deleting>>

MoveEvent(e) ==
    /\ UserOp /\ Writable(e)
    /\ \E a \in Areas \ {ev[e].area} : ev' = [ev EXCEPT ![e].area = a]
    /\ UNCHANGED <<provider, connected, token, rows, stones, orphans, deleting>>

(* Deleting one occurrence makes it an exception of the series.            *)
DeleteOccurrence(e, o) ==
    /\ UserOp /\ Writable(e)
    /\ ev[e].fields.rule # "none" /\ o \notin ev[e].fields.exdates
    /\ ev' = [ev EXCEPT ![e].fields.exdates = @ \cup {o}]
    /\ UNCHANGED <<provider, connected, token, rows, stones, orphans, deleting>>

(* Mutant: no tombstone. *)
DeleteUntraced(e, link) ==
    /\ e \notin locked
    /\ phase = "none" \/ "delete during push" \in Environment
    /\ rows' = rows \ {e} /\ ev' = [ev EXCEPT ![e] = BlankRow]
    /\ UNCHANGED <<provider, connected, token, stones, orphans>>

(* A DELETE that has read this link leaves a tombstone for it, also when   *)
(* the row has gone or got another link meanwhile.  If allowed also while  *)
(* a sync is at work.                                                      *)
Delete(e, link) ==
    /\ e \notin locked
    /\ phase = "none" \/ "delete during push" \in Environment
    /\ rows' = rows \ {e}
    /\ ev' = [ev EXCEPT ![e] = BlankRow]
    /\ stones' = stones \cup ({link} \cap Remotes)
    /\ Leave(({ev[e].remote} \cup Unknown({draft[d].remote : d \in sent \cap {e}})) \ {link})
    /\ UNCHANGED <<provider, connected, token>>

DeleteEvent(e) ==
    /\ UserOp /\ e \in rows /\ Delete(e, ev[e].remote)
    /\ UNCHANGED deleting

(* A request that reads the row and deletes it later: it has been waiting  *)
(* for a sync that has written the row, or was slow.  If allowed.          *)
BeginDelete(e) ==
    /\ "slow delete" \in Environment /\ UserOp /\ e \in rows
    /\ deleting' = deleting \cup {<<e, ev[e].remote>>}
    /\ UNCHANGED <<dbVars, orphans>>

FinishDelete(e, link) ==
    /\ <<e, link>> \in deleting /\ deleting' = deleting \ {<<e, link>>}
    /\ InToDoch /\ UNCHANGED userOps
    /\ Delete(e, link)

(* Deleting another area deletes its events, and the database does it:     *)
(* nothing leaves a tombstone.  If allowed.                                *)
DeleteArea ==
    LET gone == {e \in rows : ev[e].area = "elsewhere"} IN
    /\ "delete area" \in Environment
    /\ UserOp /\ gone # {} /\ gone \cap locked = {}
    /\ phase = "none" \/ "delete during push" \in Environment
    /\ rows' = rows \ gone
    /\ ev' = [e \in Events |-> IF e \in gone THEN BlankRow ELSE ev[e]]
    /\ Leave({ev[e].remote : e \in gone} \cup {draft[e].remote : e \in sent \cap gone})
    /\ UNCHANGED <<provider, connected, token, stones, deleting>>

(* Disconnecting, an expired token and the failures below.                *)
Fault(kind) ==
    /\ kind \in Environment /\ faults < MaxFaults /\ faults' = faults + 1
    /\ UNCHANGED <<userOps, providerOps>>

(* Mutant: the rows keep their links. *)
DisconnectKeepsLinks ==
    /\ Fault("disconnect") /\ connected /\ phase = "none"
    /\ connected' = FALSE /\ token' = FALSE /\ since' = {} /\ stones' = {}
    /\ at' = [p \in Syncs |-> "idle"]
    /\ list' = [p \in Syncs |-> NoList] /\ late' = [p \in Syncs |-> {}]
    /\ UNCHANGED <<provider, rows, ev, providerVars, txVars, orphans, unsettled, deleting>>

(* Disconnecting keeps the events on both sides.  A sync that has listed   *)
(* fails at its first flush, since the row is gone; one that works holds   *)
(* the row, and the request waits.  A DELETE that has read a link fails,   *)
(* since its tombstone has no connection, and the event stays.             *)
Disconnect ==
    /\ Fault("disconnect") /\ connected /\ phase = "none"
    /\ connected' = FALSE /\ token' = FALSE /\ since' = {} /\ stones' = {}
    /\ ev' = [e \in Events |-> [ev[e] EXCEPT !.remote = NoRemote, !.hash = NoHash]]
    /\ at' = [p \in Syncs |-> "idle"]
    /\ list' = [p \in Syncs |-> NoList] /\ late' = [p \in Syncs |-> {}]
    /\ deleting' = {d \in deleting : d[2] = NoRemote}
    /\ UNCHANGED <<provider, rows, providerVars, txVars, unsettled>>
    /\ Leave(stones \cup {ev[e].remote : e \in rows})

(* A connection is stored once it has been consented to, or once the       *)
(* server has let itself be listed.  Its first sync is the next one here.  *)
NewConnection ==
    /\ ~connected /\ connected' = TRUE
    /\ UNCHANGED <<provider, token, rows, ev, stones, providerVars, changeVars, at, list, txVars,
                   orphans, unsettled, opVars>>

FinishConsent == provider # "caldav" /\ NewConnection
CaldavConnect == provider = "caldav" /\ NewConnection
Connect == FinishConsent \/ CaldavConnect

-----------------------------------------------------------------------------
(***************************************************************************)
(* The provider.  Notice(X) is how X gets into the changes that a token,   *)
(* stored or about to be stored, does not cover.                           *)
(***************************************************************************)
Notice(X) ==
    /\ since' = IF token THEN since \cup X ELSE since
    /\ late' = [p \in Syncs |-> IF at[p] = "idle" \/ Complete THEN late[p] ELSE late[p] \cup X]

Put(r, i) ==
    /\ live' = live \cup {r} /\ issued' = issued \cup {r}
    /\ item' = [item EXCEPT ![r] = i]
    /\ UNCHANGED gaps
    /\ Notice({r})

Remove(r) ==
    /\ live' = live \ {r}
    /\ item' = [item EXCEPT ![r] = BlankItem]
    /\ gaps' = {g \in gaps : g[1] # r}
    /\ UNCHANGED issued
    /\ Notice({r} \cap live)

ProviderOp ==
    /\ providerOps < MaxProviderOps /\ providerOps' = providerOps + 1
    /\ UNCHANGED <<dbVars, at, list, txVars, orphans, unsettled, deleting, userOps, faults>>

ProviderAdds(r, i) == ProviderOp /\ r \notin issued /\ Put(r, i)

ProviderEdits(r, i) == ProviderOp /\ r \in live /\ i # item[r] /\ Put(r, i)

ProviderDeletes(r) == ProviderOp /\ r \in live /\ Remove(r)

(* Google keeps a cancelled occurrence as an item of its own; the rule and *)
(* the exceptions of its series stay as they are.                          *)
ProviderCancels(r, o) ==
    /\ ProviderOp /\ "cancel occurrence" \in Environment /\ provider = "google"
    /\ r \in live /\ item[r].rule # "none" /\ <<r, o>> \notin gaps
    /\ gaps' = gaps \cup {<<r, o>>}
    /\ UNCHANGED <<issued, live, item>>
    /\ Notice({<<r, o>>})

-----------------------------------------------------------------------------
(***************************************************************************)
(* Fetching.  An expired token (410) makes the sync forget it and list     *)
(* everything.  Failing here changes nothing but last_error.               *)
(***************************************************************************)
ListOf(ids, cancelled) ==
    [ids |-> ids, live |-> ids \cap live,
     item |-> [r \in Remotes |-> IF r \in ids \cap live THEN item[r] ELSE BlankItem],
     gaps |-> cancelled]

(* Google since a token; everything, as Outlook and CalDAV always answer.  *)
ListSince == ListOf(since \cap Remotes, gaps \cap since)
WholeList == ListOf(live, gaps)

Listing(full) == IF full THEN WholeList ELSE ListSince

(* A fingerprint that one sync writes while another one has its list, or   *)
(* fetches it, may be newer or older than what that list says.             *)
Overlap(p) == \E q \in Syncs \ {p} : at[q] = "listed"
Written == {draft[e].remote : e \in locked \cup sent}

Fetch(p, full) ==
    /\ connected /\ at[p] = "idle"
    /\ at' = [at EXCEPT ![p] = "listed"]
    /\ list' = [list EXCEPT ![p] = Listing(full)]
    /\ unsettled' = unsettled \cup Written
    /\ UNCHANGED <<dbVars, providerVars, changeVars, txVars, orphans, deleting, userOps>>
    /\ UNCHANGED providerOps

List(p) == Fetch(p, ~token) /\ UNCHANGED faults

ListAfterGone(p) == token /\ Fault("expire token") /\ Fetch(p, TRUE)

-----------------------------------------------------------------------------
(***************************************************************************)
(* _pull: what a list does to a linked row.  An item equal to the stored   *)
(* fingerprint is skipped; cancelled occurrences come last.                *)
(***************************************************************************)
Changed(L, row) ==
    /\ row.remote \in L.live /\ L.item[row.remote].readable
    /\ row.hash # Digest(Received(L.item[row.remote]))

AfterItem(L, row) ==
    IF Changed(L, row)
    THEN LET f == Adopted(row.fields, L.item[row.remote])
         IN  [row EXCEPT !.fields = f, !.hash = Digest(f)]
    ELSE row

Cancelled(L, row) ==
    IF row.fields.rule = "none" THEN {} ELSE {o \in Occurrences : <<row.remote, o>> \in L.gaps}

AfterGaps(L, row) ==
    IF Cancelled(L, row) \subseteq row.fields.exdates THEN row
    ELSE LET f == [row.fields EXCEPT !.exdates = @ \cup Cancelled(L, row)]
         IN  [row EXCEPT !.fields = f, !.hash = Digest(f)]

Pulled(L, row) == AfterGaps(L, AfterItem(L, row))

(* Mutant: every list is taken for complete. *)
ForgetsUnlisted(L, r) == r \notin L.ids \cap L.live

(* Deleted at the provider - or missing from a complete list.              *)
Forgets(L, r) == r \in L.ids \ L.live \/ (Complete /\ r \notin L.ids)

Forgotten(L) == {e \in rows : IsLinked(ev[e]) /\ Forgets(L, ev[e].remote)}

Touched(L) == {e \in rows \ Forgotten(L) : IsLinked(ev[e]) /\ Pulled(L, ev[e]) # ev[e]}

(* Mutant: rows that are linked already are not looked up. *)
ArrivalsUnmatched(L) ==
    {r \in L.live : L.item[r].readable /\ ~Old(Received(L.item[r]))}

Arrivals(L) ==
    {r \in L.live \ {ev[e].remote : e \in rows} :
        L.item[r].readable /\ ~Old(Received(L.item[r]))}

NewRow(r) == [BlankRow EXCEPT !.remote = r]

(* The pull, its flush, and the read of the first MAX_PUSH tombstones.     *)
Pull(p) ==
    /\ at[p] = "listed" /\ phase = "none"
    /\ at' = [at EXCEPT ![p] = "working"]
    /\ LET L == list[p] IN
       \E id \in Injection(Arrivals(L), Events \ InUse) :
          /\ born' = {id[r] : r \in Arrivals(L)}
          /\ draft' = [e \in Events |->
                          IF e \in born'
                          THEN Pulled(L, NewRow(CHOOSE r \in Arrivals(L) : id[r] = e))
                          ELSE IF e \in Touched(L) THEN Pulled(L, ev[e]) ELSE BlankRow]
          /\ doomed' = Forgotten(L)
          /\ locked' = born' \cup doomed' \cup Touched(L)
    /\ phase' = "stones"
    /\ \E batch \in SUBSET stones :
          /\ Cardinality(batch) <= MaxPush
          /\ batch = stones \/ Cardinality(batch) = MaxPush
          /\ todo' = batch
    /\ list' = [list EXCEPT ![p] = NoList]
    /\ unsettled' = IF Overlap(p) THEN unsettled \cup {draft'[e].remote : e \in locked'}
                    ELSE unsettled
    /\ UNCHANGED <<dbVars, providerVars, changeVars, pushed, sent, erased, orphans, opVars>>

-----------------------------------------------------------------------------
(***************************************************************************)
(* _push: tombstones, then events that left the area, then the candidates. *)
(* Work(p, ph) is the guard of every step: p's transaction is in phase ph. *)
(***************************************************************************)
Work(p, ph) ==
    /\ at[p] = "working" /\ phase = ph
    /\ UNCHANGED <<dbVars, at, list, deleting, userOps, providerOps>>

(* What a query of the transaction finds.                                  *)
SeenRows == (rows \ doomed) \cup born
Seen(e) == IF e \in locked THEN draft[e] ELSE ev[e]

Unlinked(row) == [row EXCEPT !.remote = NoRemote, !.hash = NoHash]

DeleteStone(p) ==
    /\ Work(p, "stones")
    /\ \E r \in todo :
          /\ Remove(r)
          /\ erased' = erased \cup {r} /\ todo' = todo \ {r}
    /\ UNCHANGED <<phase, pushed, draft, locked, born, doomed, sent, orphans, unsettled, faults>>

SelectMoved(p) ==
    /\ Work(p, "stones") /\ todo = {}
    /\ phase' = "moved"
    /\ todo' = {e \in SeenRows : IsLinked(Seen(e)) /\ Seen(e).area = "elsewhere"}
    /\ draft' = [e \in Events |-> IF e \in todo' THEN Seen(e) ELSE draft[e]]
    /\ UNCHANGED <<providerVars, changeVars, pushed, locked, born, doomed, sent, erased,
                   orphans, unsettled, faults>>

DropMoved(p) ==
    /\ Work(p, "moved")
    /\ \E e \in todo :
          /\ Remove(draft[e].remote)
          /\ draft' = [draft EXCEPT ![e] = Unlinked(@)]
          /\ sent' = sent \cup {e} /\ todo' = todo \ {e}
    /\ UNCHANGED <<phase, pushed, locked, born, doomed, erased, orphans, unsettled, faults>>

Candidate(row) ==
    /\ row.area = "here"
    /\ IF IsLinked(row) THEN row.hash # Digest(row.fields) ELSE ~Old(row.fields)

(* An UPDATE of a row that is no longer there: of a single row it always   *)
(* fails the flush, of several in a batch the driver may not notice.       *)
FlushMayPass == sent \subseteq rows \/ Cardinality(sent) > 1

(* The query flushes the unlinked rows before it reads the candidates.     *)
SelectCandidates(p) ==
    /\ Work(p, "moved") /\ todo = {} /\ FlushMayPass
    /\ locked' = locked \cup (sent \cap rows) /\ sent' = {}
    /\ LET seen(e) == IF e \in locked THEN draft[e]
                      ELSE IF e \in sent THEN Unlinked(ev[e]) ELSE ev[e]
       IN  /\ todo' = {e \in SeenRows : Candidate(seen(e))}
           /\ draft' = [e \in Events |->
                           IF e \in SeenRows \cap (locked' \cup todo') THEN seen(e) ELSE BlankRow]
    /\ phase' = "push"
    /\ UNCHANGED <<providerVars, changeVars, pushed, born, doomed, erased, orphans, unsettled,
                   faults>>

(* update(), or insert() when there is no item (any more).                 *)
Sends(e, r) ==
    /\ IF IsLinked(draft[e]) /\ draft[e].remote \in live
       THEN r = draft[e].remote ELSE r \notin issued
    /\ Put(r, Sent(draft[e].fields))

(* Does what was sent come back with the fingerprint that the row gets?    *)
Settles(p, f) == Expressible(f) /\ ~Overlap(p)

(* Mutant: no limit. *)
PushEventUncapped(p) ==
    /\ Work(p, "push")
    /\ \E e \in todo, r \in Remotes :
          /\ Sends(e, r)
          /\ draft' = [draft EXCEPT ![e].remote = r, ![e].hash = Digest(draft[e].fields)]
          /\ sent' = sent \cup {e} /\ todo' = todo \ {e}
          /\ Leave(IF e \in SeenRows THEN {} ELSE {r} \ stones)
          /\ unsettled' = IF Settles(p, draft[e].fields) THEN unsettled \ {r}
                                                         ELSE unsettled \cup {r}
    /\ pushed' = pushed + 1
    /\ UNCHANGED <<phase, locked, born, doomed, erased, faults>>

PushEvent(p) ==
    /\ Work(p, "push") /\ pushed < MaxPush
    /\ \E e \in todo, r \in Remotes :
          /\ Sends(e, r)
          /\ draft' = [draft EXCEPT ![e].remote = r, ![e].hash = Digest(draft[e].fields)]
          /\ sent' = sent \cup {e} /\ todo' = todo \ {e}
          /\ Leave(IF e \in SeenRows THEN {} ELSE {r} \ stones)
          /\ unsettled' = IF Settles(p, draft[e].fields) THEN unsettled \ {r}
                                                         ELSE unsettled \cup {r}
    /\ pushed' = pushed + 1
    /\ UNCHANGED <<phase, locked, born, doomed, erased, faults>>

-----------------------------------------------------------------------------
(***************************************************************************)
(* The end of a sync.                                                      *)
(***************************************************************************)
EndSync(p) ==
    /\ at' = [at EXCEPT ![p] = "idle"]
    /\ list' = [list EXCEPT ![p] = NoList] /\ late' = [late EXCEPT ![p] = {}]

EndTransaction ==
    /\ phase' = "none" /\ todo' = {} /\ pushed' = 0
    /\ draft' = [e \in Events |-> BlankRow]
    /\ locked' = {} /\ born' = {} /\ doomed' = {} /\ sent' = {} /\ erased' = {}

(* A row that is flushed only now gets its link, not the copy's contents.  *)
Committed(e) ==
    IF e \in doomed THEN BlankRow
    ELSE IF e \in locked THEN draft[e]
    ELSE IF e \in sent \cap rows
         THEN [ev[e] EXCEPT !.remote = draft[e].remote, !.hash = draft[e].hash]
    ELSE ev[e]

(* Mutant: the token of the end of the sync. *)
UncoveredNothing(p) == {}

(* The token stored is the one of the list, so what changed since then     *)
(* comes again: that is what late[p] holds.                                *)
Uncovered(p) == late[p]

PushIsOver == phase = "failed" \/ (phase = "push" /\ (todo = {} \/ pushed = MaxPush))

(* A SyncError commits what was done up to it.                             *)
Commit(p) ==
    /\ at[p] = "working" /\ PushIsOver /\ FlushMayPass
    /\ rows' = SeenRows
    /\ ev' = [e \in Events |-> Committed(e)]
    /\ stones' = stones \ erased
    /\ token' = (provider = "google")
    /\ since' = Uncovered(p)
    /\ EndSync(p) /\ EndTransaction
    /\ UNCHANGED <<provider, connected, providerVars, orphans, unsettled, opVars>>

Rollback(p) ==
    /\ UNCHANGED <<dbVars, providerVars, since, deleting, userOps, providerOps>>
    /\ EndSync(p)
    /\ IF at[p] = "working"
       THEN /\ EndTransaction /\ Leave(Unknown({draft[e].remote : e \in sent}))
            /\ unsettled' = unsettled \cup {draft[e].remote : e \in sent}
       ELSE UNCHANGED <<txVars, orphans, unsettled>>

(* StaleDataError is no SyncError: the transaction is rolled back.         *)
FlushFails(p) ==
    /\ at[p] = "working" /\ ~(sent \subseteq rows)
    /\ PushIsOver \/ (phase = "moved" /\ todo = {})
    /\ Rollback(p) /\ UNCHANGED faults

(* A restart, or the worker's time limit.  If allowed.                     *)
Crash(p) == at[p] # "idle" /\ Rollback(p) /\ Fault("crash")

Requesting == todo # {} /\ pushed < MaxPush

(* The provider refuses a request.  If allowed.                            *)
Refuse(p) ==
    /\ \E ph \in {"stones", "moved", "push"} : Work(p, ph)
    /\ Requesting /\ Fault("refuse")
    /\ phase' = "failed"
    /\ UNCHANGED <<providerVars, changeVars, todo, pushed, draft, locked, born, doomed, sent>>
    /\ UNCHANGED <<erased, orphans, unsettled>>

(* The provider does what it is asked but the answer is lost.  If allowed. *)
LoseAnswer(p) ==
    /\ Requesting /\ Fault("lose answer")
    /\ \/ /\ UNCHANGED <<orphans, unsettled>>
          /\ \/ Work(p, "stones") /\ \E r \in todo : Remove(r)
             \/ Work(p, "moved") /\ \E e \in todo : Remove(draft[e].remote)
       \/ /\ Work(p, "push")
          /\ \E e \in todo, r \in Remotes :
                /\ Sends(e, r) /\ Leave(Unknown({r}) \ stones)
                /\ unsettled' = unsettled \cup {r}
    /\ phase' = "failed"
    /\ UNCHANGED <<todo, pushed, draft, locked, born, doomed, sent, erased>>

-----------------------------------------------------------------------------
UserStep ==
    \/ \E e \in Events :
          \/ \E f \in UserFields, a \in Areas : CreateEvent(e, f, a)
          \/ \E f \in UserFields : EditEvent(e, f)
          \/ MoveEvent(e)
          \/ \E o \in Occurrences : DeleteOccurrence(e, o)
          \/ DeleteEvent(e) \/ BeginDelete(e)
          \/ \E link \in Remotes \cup {NoRemote} : FinishDelete(e, link)
    \/ DeleteArea \/ Disconnect

ProviderStep ==
    \E r \in Remotes :
       \/ \E i \in ProviderItems : ProviderAdds(r, i) \/ ProviderEdits(r, i)
       \/ ProviderDeletes(r)
       \/ \E o \in Occurrences : ProviderCancels(r, o)

SyncStep(p) ==
    \/ List(p) \/ Pull(p) \/ DeleteStone(p) \/ SelectMoved(p) \/ DropMoved(p)
    \/ SelectCandidates(p) \/ PushEvent(p) \/ Commit(p) \/ FlushFails(p)

FaultStep(p) == ListAfterGone(p) \/ Refuse(p) \/ LoseAnswer(p) \/ Crash(p)

Next ==
    \/ UserStep \/ ProviderStep \/ Connect
    \/ \E p \in Syncs : SyncStep(p) \/ FaultStep(p)

Spec == Init /\ [][Next]_vars

(* The worker's cron job lists and works again every five minutes whatever *)
(* happened before; nobody has to press "sync now".                        *)
FairSpec == Spec /\ WF_vars(\E p \in Syncs : SyncStep(p))

-----------------------------------------------------------------------------
(***************************************************************************)
(* Properties.                                                             *)
(***************************************************************************)

(* Every variable keeps its shape, and the loop of each phase runs over    *)
(* what it is for: tombstones first, events after that.                    *)
DatabaseOK ==
    /\ provider \in Providers /\ connected \in BOOLEAN /\ token \in BOOLEAN
    /\ rows \subseteq Events /\ ev \in [Events -> Row] /\ stones \subseteq Remotes

ProviderOK ==
    /\ issued \subseteq Remotes /\ live \subseteq issued
    /\ item \in [Remotes -> Items] /\ gaps \subseteq Remotes \X Occurrences

Lists == [ids: SUBSET Remotes, live: SUBSET Remotes, item: [Remotes -> Items],
          gaps: SUBSET (Remotes \X Occurrences)]

SyncsOK ==
    /\ at \in [Syncs -> {"idle", "listed", "working"}]
    /\ list \in [Syncs -> Lists]
    /\ since \subseteq Changes /\ late \in [Syncs -> SUBSET Changes]

TransactionOK ==
    /\ phase \in {"none", "stones", "moved", "push", "failed"}
    /\ phase = "stones" => todo \subseteq Remotes
    /\ phase \in {"moved", "push"} => todo \subseteq Events
    /\ pushed \in 0..MaxPush
    /\ draft \in [Events -> Row]
    /\ locked \subseteq Events /\ born \subseteq Events /\ doomed \subseteq Events
    /\ sent \subseteq Events /\ erased \subseteq Remotes

RequestsOK == deleting \subseteq Events \X (Remotes \cup {NoRemote})

BoundsOK ==
    /\ userOps \in 0..MaxUserOps /\ providerOps \in 0..MaxProviderOps
    /\ faults \in 0..MaxFaults

TypeOK == DatabaseOK /\ ProviderOK /\ SyncsOK /\ TransactionOK /\ RequestsOK /\ BoundsOK

(* Two rows never stand for the same item of the provider: the constraint  *)
(* uq_events_connection_remote is never what stops a sync.                 *)
LinksAreInjective ==
    \A d, e \in rows : IsLinked(ev[d]) /\ ev[d].remote = ev[e].remote => d = e

(* What the provider shows for r, cancelled occurrences included.          *)
Shown(r) ==
    LET f == Received(item[r])
    IN  IF f.rule = "none" THEN f
        ELSE [f EXCEPT !.exdates = @ \cup {o \in Occurrences : <<r, o>> \in gaps}]

InStep(e) ==
    LET r == ev[e].remote
    IN  r \in live /\ (item[r].readable => Digest(Shown(r)) = Digest(ev[e].fields))

(* The row differs from its fingerprint or left the area: it will be sent. *)
LocalNews(e) == ev[e].hash # Digest(ev[e].fields) \/ ev[e].area # "here"

(* The next list reports the item.                                         *)
RemoteNews(r) == ~token \/ r \in since \/ \E o \in Occurrences : <<r, o>> \in since

(* No change is forgotten: when a linked row and its item differ, one side *)
(* still knows that it has something to tell - through every interleaving  *)
(* of edits with a running sync and through failed, repeated and rolled    *)
(* back syncs.  The fingerprint and the sync token carry this.  The code   *)
(* breaks it where the token expires, and where an occurrence is cancelled *)
(* at Google while the series has an edit that is not sent yet.            *)
NoDifferenceIsForgotten ==
    \A e \in rows : connected /\ IsLinked(ev[e]) =>
        InStep(e) \/ LocalNews(e) \/ RemoteNews(ev[e].remote)

(* A sync applies its list.                                                *)
PullStep == phase = "none" /\ phase' = "stones"

(* p pulls the item r into the row e, which has other contents then.       *)
Overwrites(p, e) ==
    /\ at[p] = "listed" /\ at'[p] = "working"
    /\ e \in locked' \cap rows /\ e \notin doomed'

(* A pull overwrites a row in ToDoch only with contents that someone wrote *)
(* at the provider, never with the echo of what ToDoch sent: "so gehen     *)
(* Änderungen in ToDoch nicht verloren".  Excepted is an item that         *)
(* - was sent with contents for which the provider has no room             *)
(*   (Expressible), or with an answer that was lost or rolled back, or     *)
(*   while two syncs overlapped, as long as it is not sent again, or       *)
(* - is reported together with an occurrence that was cancelled there.     *)
OwnEchoIsNeverTaken ==
    [][PullStep =>
          \A p \in Syncs, e \in Events :
             Overwrites(p, e) /\ draft'[e].fields # ev[e].fields
             => \/ ~list[p].item[ev[e].remote].mine
                \/ ev[e].remote \in unsettled
                \/ \E o \in Occurrences : <<ev[e].remote, o>> \in list[p].gaps]_vars

(* The same without exceptions, for what the user writes into a text.      *)
EditsOutliveTheEcho ==
    [][PullStep =>
          \A p \in Syncs, e \in Events :
             Overwrites(p, e) /\ draft'[e].fields.text # ev[e].fields.text
             => ~list[p].item[ev[e].remote].mine]_vars

(* A row is forgotten only when its item is gone at the provider: "was     *)
(* darin fehlt, wurde dort gelöscht", with one sync at a time or a         *)
(* provider whose lists name what is gone; of two whole lists at once the  *)
(* older one lacks what has been inserted since.                           *)
OnlyDeletedIsForgotten ==
    [][PullStep => \A e \in doomed' : ev[e].remote \notin live]_vars

(* Every copy that ToDoch put into the online calendar has a row, or a     *)
(* tombstone, or a place in the running transaction: none is left behind,  *)
(* except by an event whose deletion began before its link was stored, an  *)
(* area deleted with its events, a disconnection, and an insert whose      *)
(* answer is lost or whose transaction is rolled back.                     *)
NoCopyIsLeftBehind ==
    \A r \in live \ orphans : item[r].mine =>
        \/ \E e \in rows : ev[e].remote = r
        \/ r \in stones
        \/ \E e \in sent \cup locked : draft[e].remote = r

(* Both sides agree.                                                       *)
InSync ==
    /\ stones = {}
    /\ \A e \in rows :
          IF ev[e].area = "here"
          THEN IF IsLinked(ev[e]) THEN InStep(e) /\ ~LocalNews(e) ELSE Old(ev[e].fields)
          ELSE ~IsLinked(ev[e])
    /\ \A r \in live : \/ \E e \in rows : ev[e].remote = r
                       \/ ~item[r].readable \/ Old(Received(item[r]))

(* Once people and faults leave the two calendars alone, the syncs bring   *)
(* them together for good.                                                 *)
Converges == <>[](connected => InSync)
=============================================================================
