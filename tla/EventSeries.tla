------------------------------ MODULE EventSeries ------------------------------
(***************************************************************************)
(* Recurring events (api/events.py, services/events.py): a series is a row *)
(* with a rule and the slots that were cancelled; an occurrence that was   *)
(* changed is a row of its own that names the series and its slot.  People *)
(* edit and delete this occurrence, this and the following, or all.        *)
(*                                                                         *)
(* Instants are half days: even ones are midnight, where all-day events    *)
(* start.  A rule is daily or every few days.  A request reads the row of  *)
(* the series, and writes the columns it changed when it commits.          *)
(***************************************************************************)
EXTENDS Integers, FiniteSets

CONSTANTS
    SeriesIds, Clients,
    Rules,          \* that people choose from: [every, count, until]
    Slots,          \* instants people choose from
    Far, Near,      \* the instants shown, see Agenda
    MaxOps          \* bound

ASSUME SeriesAssumption ==
    /\ Far \in Nat /\ Near \in 0 .. Far
    /\ Slots \subseteq 0 .. Far /\ \A t \in Slots : 2 * Near <= Far + t
    /\ MaxOps \in Nat
    /\ Rules \subseteq [every: Nat \ {0}, count: Nat, until: 0 .. Far]

VARIABLES
    series,     \* rows with a rule or alone: "new", a row or "gone"
    changed,    \* rows of changed occurrences
    made,       \* how many of these have been made, as their ids
    request,    \* what each client has under way
    torn,       \* history: series that overlapping requests have written, or
                \* one that does not take all along, see LeavesBehind
    ops

vars == <<series, changed, made, request, torn, ops>>

Day == 2
Endless == Far      \* the UNTIL of a rule that has none
Once == [every |-> 0, count |-> 0, until |-> Endless]
New == [start |-> -1]
Gone == [start |-> -2]
Idle == [kind |-> "idle"]

Rule == [every: Nat, count: Nat, until: 0 .. Far]
(* given is history: how often people have given the series a rule.        *)
Row == [start: Nat, day: BOOLEAN, rule: Rule, given: Nat, exdates: SUBSET Int]
ChangedRow == [row: Nat, of: SeriesIds, at: Int, start: Int, cancelled: BOOLEAN]
There(id) == series[id].start >= 0
Recurs(row) == row.rule # Once

(* Starts of a row by its rule alone.                                      *)
Occurrences(row) ==
    IF ~Recurs(row) THEN {row.start}
    ELSE LET nth == {k \in 0 .. Far : row.rule.count = 0 \/ k < row.rule.count}
         IN  {t \in {row.start + k * row.rule.every * Day : k \in nth} :
                t <= row.rule.until /\ t <= Far}

ChangedOf(id) == {o \in changed : o.of = id}
ChangedAt(id, slot) == {o \in ChangedOf(id) : o.at = slot}

(* What the calendar lists of a series with these changed occurrences.     *)
Entries(id, row, rows) ==
    LET skip == row.exdates \cup {o.at : o \in rows}
    IN  IF ~Recurs(row) THEN {[of |-> id, at |-> row.start, start |-> row.start]}
        ELSE {[of |-> id, at |-> t, start |-> t] : t \in Occurrences(row) \ skip}
             \cup {[of |-> id, at |-> o.at, start |-> o.start] : o \in {x \in rows : ~x.cancelled}}

Expanded(id) == IF There(id) THEN Entries(id, series[id], ChangedOf(id)) ELSE {}
Shown == UNION {Expanded(id) : id \in SeriesIds}

(* Only columns that differ from what was read are written.                *)
Written(row, seen, after) ==
    [column \in DOMAIN row |-> IF after[column] = seen[column] THEN row[column] ELSE after[column]]

Init ==
    /\ series = [id \in SeriesIds |-> New] /\ changed = {} /\ made = 0
    /\ request = [c \in Clients |-> Idle] /\ torn = {} /\ ops = 0

Unused == {id \in SeriesIds : series[id] = New}
NextId == CHOOSE id \in Unused : TRUE

Create ==
    /\ ops < MaxOps /\ Unused # {}
    /\ \E t \in Slots, day \in BOOLEAN, rule \in Rules \cup {Once} :
          /\ day => t % Day = 0
          /\ series' = [series EXCEPT ![NextId] =
                          [start |-> t, day |-> day, rule |-> rule, given |-> 0, exdates |-> {}]]
    /\ ops' = ops + 1 /\ UNCHANGED <<changed, made, request, torn>>

(* The changed occurrences a request reads.                                *)
ReadRows(scope, e) == IF scope = "this" THEN ChangedAt(e.of, e.at) ELSE ChangedOf(e.of)

(* A client opens an occurrence it was shown and asks for a change.  An    *)
(* event that does not recur has one scope.                                *)
Ask(c, kind, scope) ==
    /\ ops < MaxOps /\ request[c] = Idle
    /\ \E e \in {x \in Shown : x.at < Near} :
          /\ Recurs(series[e.of]) \/ scope = "all"
          /\ request' = [request EXCEPT ![c] =
                           [kind |-> kind, scope |-> scope, entry |-> e,
                            seen |-> series[e.of], rows |-> ReadRows(scope, e)]]
    /\ ops' = ops + 1 /\ UNCHANGED <<series, changed, made, torn>>

Answered(c) == request' = [request EXCEPT ![c] = Idle] /\ UNCHANGED ops
Failed(c) == Answered(c) /\ UNCHANGED <<series, changed, made, torn>>

Asked(c, kind, scope) ==
    /\ request[c] # Idle /\ request[c].kind = kind /\ request[c].scope = scope

(* Somebody else has written what a request read; the series it then       *)
(* writes, and those its rows have come to, are torn.                      *)
Overlapped(q) ==
    series[q.entry.of] # q.seen \/ ReadRows(q.scope, q.entry) # q.rows
Same(o, x) == o.row = x.row
Touched(q) == {q.entry.of} \cup {x.of : x \in {y \in changed : \E o \in q.rows : Same(o, y)}}
Tear(q, new, left) ==
    torn' = torn \cup (IF Overlapped(q) THEN Touched(q) \cup new ELSE {})
                 \cup (IF q.entry.of \in torn THEN new ELSE {}) \cup left

(* Rows that were read are written by their ids, wherever they are by now; *)
(* an update that finds none of them is noticed, in a batch perhaps not.   *)
Kept(rows) == {x \in changed : \A o \in rows : ~Same(o, x)}
Updated(after) ==
    Kept(DOMAIN after) \cup {Written(p[1], p[2], after[p[2]]) :
                               p \in {p \in changed \X DOMAIN after : Same(p[2], p[1])}}
Missing(rows) == \E o \in rows : \A x \in changed : ~Same(o, x)
Noticed(rows) == Missing(rows) /\ Cardinality(rows) = 1

(* One row for a slot of a series (uq_events_uid_recurrence).              *)
Distinct(rows) == \A o, x \in rows : o.of = x.of /\ o.at = x.at => o = x

(* Mutant: every change of an occurrence makes a row of its own. *)
EditThisAnew(c) ==
    /\ Asked(c, "edit", "this")
    /\ LET e == request[c].entry
       IN  \E t \in Slots : changed' = changed \cup
             {[row |-> made + 1, of |-> e.of, at |-> e.at, start |-> t, cancelled |-> FALSE]}
    /\ made' = made + 1 /\ Answered(c) /\ UNCHANGED <<series, torn>>

(* The row of a changed occurrence is written or made.                     *)
EditThis(c) ==
    /\ Asked(c, "edit", "this")
    /\ LET q == request[c]
           e == q.entry
       IN  IF IF q.rows = {} THEN ~There(e.of) \/ ChangedAt(e.of, e.at) # {} ELSE Missing(q.rows)
           THEN Failed(c)
           ELSE \E t \in Slots, cancelled \in BOOLEAN :
                  /\ IF q.rows = {}
                     THEN /\ changed' = changed \cup {[row |-> made + 1, of |-> e.of, at |-> e.at,
                                                       start |-> t, cancelled |-> cancelled]}
                          /\ made' = made + 1 /\ Tear(q, {}, {})
                     ELSE LET after == [o \in q.rows |-> [o EXCEPT !.start = t, !.cancelled = cancelled]]
                          IN  changed' = Updated(after) /\ UNCHANGED <<made, torn>>
                  /\ Answered(c) /\ UNCHANGED series

(* Occurrences before a slot, and the rule cut off there.                  *)
Before(row, slot) == Cardinality({t \in Occurrences(row) : t < slot})
MayCut(row, slot) ==
    row.rule.count = 0 \/ Before(row, slot) \in 1 .. (row.rule.count - 1)
CutRule(row, slot) ==
    IF row.rule.count = 0 THEN [row.rule EXCEPT !.until = slot - 1]
    ELSE [row.rule EXCEPT !.count = Before(row, slot)]
RestRule(row, slot) ==
    IF row.rule.count = 0 THEN row.rule
    ELSE [row.rule EXCEPT !.count = @ - Before(row, slot)]

(* Mutants: the cancelled slots stay where they are, or are left behind. *)
CutRuleOnly(row, slot) == [row EXCEPT !.rule = CutRule(row, slot)]
RestRegular(row, slot) == [row EXCEPT !.start = slot, !.rule = RestRule(row, slot), !.exdates = {}]

(* The earlier part and the later part of a series (split_series,          *)
(* truncate_series), each with the cancelled slots that are its own.       *)
Cut(row, slot) ==
    [row EXCEPT !.rule = CutRule(row, slot), !.exdates = {d \in @ : d < slot}]
Rest(row, slot) ==
    [row EXCEPT !.start = slot, !.rule = RestRule(row, slot), !.exdates = {d \in @ : d >= slot}]

Later(rows, slot) == {o \in rows : o.at >= slot}

(* A request commits, unless a row that it updates is gone, or two changed *)
(* occurrences get in each other's way, at the end or while one is updated *)
(* after the other.                                                        *)
InTheWay(rows) == \E o \in rows, x \in changed : ~Same(o, x) /\ o.of = x.of /\ o.at = x.at

Store(c, id, rest, updated, rows, new, left) ==
    \/ /\ There(id) /\ ~Noticed(updated) /\ Distinct(rows)
       /\ series' = rest /\ changed' = rows /\ UNCHANGED made
       /\ Tear(request[c], new, left) /\ Answered(c)
    \/ /\ ~There(id) \/ Missing(updated) \/ ~Distinct(rows) \/ InTheWay(rows)
       /\ Failed(c)

(* The new times and rule that a request brings, for the row it is about.  *)
Bodies(row) ==
    {body \in [start: Slots, day: BOOLEAN, rule: Rules \cup {Once, row.rule}] :
        body.day => body.start % Day = 0}

Given(row, rule) == IF rule = row.rule THEN row.given ELSE row.given + 1

(* What is known not to come along: cancelled and changed slots where the  *)
(* rule is a new one, or timed becomes all-day or back; an UNTIL where the *)
(* series moves; and all-day or timed events start anew at the occurrence  *)
(* that was opened.                                                        *)
Plain(row, exceptions) == row.exdates = {} /\ exceptions = {}
LeavesBehind(row, exceptions, slot, body) ==
    \/ (body.rule # row.rule \/ body.day # row.day) /\ ~Plain(row, exceptions)
    \/ body.rule = row.rule /\ body.day # row.day /\ slot # row.start
    \/ body.rule = row.rule /\ row.rule.until # Endless /\ body.start # slot

(* The later occurrences become a series of their own, which then gets the *)
(* rule and the times of the request; if it moves, its exceptions stay.    *)
Split(c, body) ==
    LET id == request[c].entry.of
        slot == request[c].entry.at
        seen == request[c].seen
        rest == Rest(seen, slot)
        rule == IF body.rule = seen.rule THEN rest.rule ELSE body.rule
        later == Later(request[c].rows, slot)
        new == NextId
        moved == [o \in later |-> [o EXCEPT !.of = new]]
        leaves == \/ LeavesBehind(rest, later, slot, [body EXCEPT !.rule = rule])
                  \/ body.start # slot /\ ~Plain(rest, later)
    IN  Store(c, id,
              [series EXCEPT ![id] = Written(@, seen, Cut(seen, slot)),
                             ![new] = [rest EXCEPT !.start = body.start, !.day = body.day,
                                                   !.rule = rule, !.given = Given(rest, rule)]],
              later, Updated(moved), {new}, IF leaves THEN {new} ELSE {})

(* All occurrences move by the same difference, and with them the          *)
(* exceptions; a changed occurrence that has a time of its own keeps it.   *)
Shift(c, body) ==
    LET id == request[c].entry.of
        slot == request[c].entry.at
        seen == request[c].seen
        rows == request[c].rows
        follows == Recurs(seen) /\ body.rule # Once /\ body.day = seen.day
        by == IF follows THEN body.start - slot ELSE 0
        start == IF follows THEN seen.start + by ELSE body.start
        after == [seen EXCEPT !.start = start, !.day = body.day, !.rule = body.rule,
                              !.given = Given(seen, body.rule), !.exdates = {d + by : d \in @}]
        moved == [o \in rows |->
                     [o EXCEPT !.at = @ + by, !.start = IF @ = o.at THEN @ + by ELSE @]]
    IN  /\ start >= 0                     \* bound: instants begin at 0
        /\ Store(c, id, [series EXCEPT ![id] = Written(@, seen, after)],
                 IF by = 0 THEN {} ELSE rows, Updated(moved), {},
                 IF LeavesBehind(seen, rows, slot, body) THEN {id} ELSE {})

EditFollowing(c) ==
    /\ Asked(c, "edit", "following")
    /\ LET e == request[c].entry
           seen == request[c].seen
       IN  IF e.at > seen.start
           THEN IF ~MayCut(seen, e.at) THEN Failed(c)
                ELSE Unused # {} /\ \E body \in Bodies(seen) : Split(c, body)
           ELSE \E body \in Bodies(seen) : Shift(c, body)

EditAll(c) ==
    /\ Asked(c, "edit", "all")
    /\ \E body \in Bodies(request[c].seen) : Shift(c, body)

(* The slot is cancelled, and what was changed there is dropped.           *)
DeleteThis(c) ==
    /\ Asked(c, "delete", "this")
    /\ LET e == request[c].entry
           seen == request[c].seen
       IN  Store(c, e.of,
                 [series EXCEPT ![e.of] = Written(@, seen, [seen EXCEPT !.exdates = @ \cup {e.at}])],
                 {}, Kept(request[c].rows), {}, {})

Dropped(id) ==
    /\ series' = [series EXCEPT ![id] = Gone]
    /\ changed' = changed \ ChangedOf(id)
    /\ UNCHANGED <<made, torn>>

DeleteFollowing(c) ==
    /\ Asked(c, "delete", "following")
    /\ LET e == request[c].entry
           seen == request[c].seen
       IN  IF e.at <= seen.start THEN Dropped(e.of) /\ Answered(c)
           ELSE IF ~MayCut(seen, e.at) THEN Failed(c)
           ELSE Store(c, e.of, [series EXCEPT ![e.of] = Written(@, seen, Cut(seen, e.at))],
                      {}, Kept(Later(request[c].rows, e.at)), {}, {})

DeleteAll(c) ==
    /\ Asked(c, "delete", "all")
    /\ Dropped(request[c].entry.of) /\ Answered(c)

Next ==
    \/ Create
    \/ \E c \in Clients :
          \/ \E kind \in {"edit", "delete"}, scope \in {"this", "following", "all"} :
                Ask(c, kind, scope)
          \/ EditThis(c) \/ EditFollowing(c) \/ EditAll(c)
          \/ DeleteThis(c) \/ DeleteFollowing(c) \/ DeleteAll(c)

Spec == Init /\ [][Next]_vars

(* Rows have their shape; those of changed occurrences belong to a series  *)
(* that exists, one for a slot (uq_events_uid_recurrence, ON DELETE        *)
(* CASCADE).                                                               *)
TypeOK ==
    /\ \A id \in SeriesIds : series[id] \in {New, Gone} \cup Row
    /\ changed \subseteq ChangedRow /\ torn \subseteq SeriesIds
    /\ \A o \in changed : There(o.of)
    /\ Distinct(changed)

(* What was changed or cancelled was an occurrence and still is one by the *)
(* rule: a changed one would otherwise be shown beside the regular one, a  *)
(* cancelled one would be back.  Edits rewrite rule, slots and cancelled   *)
(* slots together (split_series, truncate_series, _shift_series).  Not so, *)
(* and excepted, are series that two overlapping requests have written,    *)
(* and those left behind by one request: a new rule, or a change between   *)
(* timed and all-day, for a series with exceptions; "following" to another *)
(* time where there are exceptions; a series moved that has an UNTIL.      *)
ExceptionsStandForOccurrences ==
    \A id \in SeriesIds \ torn : There(id) /\ Recurs(series[id]) =>
        /\ \A d \in series[id].exdates : d < Near => d \in Occurrences(series[id])
        /\ \A o \in ChangedOf(id) : o.at < Near =>
               o.at \in Occurrences(series[id]) \ series[id].exdates

(* What is shown changes as "this", "this and following" or "all" say      *)
(* (update_event, delete_event): nothing else moves, vanishes or comes     *)
(* back, whichever edits came before and whichever overlap.  Excepted are  *)
(* the same series as above, from the request on that loses something, and *)
(* one whose change between timed and all-day was asked for at a later     *)
(* occurrence, where it then starts; of every other series, and of the     *)
(* earlier part of one that is split, the promise holds in that step too.  *)
View == {e \in Shown : e.of \notin torn}
RulesGiven == [id \in SeriesIds |->
                 IF There(id) /\ id \notin torn THEN series[id].given ELSE 0]
AsAsked == INSTANCE Agenda WITH
    agenda <- View, given <- RulesGiven,
    Shifts <- {t - slot : t \in Slots, slot \in 0 .. Near}
OnlyAsAsked == AsAsked!Spec

(* The first of the two without the exception: a changed occurrence of any *)
(* series has the "ursprünglicher Beginn" of an occurrence, as             *)
(* RECURRENCE-ID (models/event.py).                                        *)
ChangedStandForOccurrences ==
    \A o \in changed : Recurs(series[o.of]) /\ o.at < Near =>
        o.at \in Occurrences(series[o.of])

(* _shift_series, "alle Vorkommen verschieben", also of series with an     *)
(* end: one that gets another start, and nothing else, has them all there. *)
MovesAll(id) ==
    LET was == series[id]
        by == series'[id].start - was.start
    IN  series'[id] = [was EXCEPT !.start = @ + by, !.exdates = {d + by : d \in @}]
          => Occurrences(series'[id]) = {t + by : t \in Occurrences(was)}
ShiftMovesAll ==
    [][\A id \in SeriesIds : There(id) /\ series[id].rule.until # Endless => MovesAll(id)]_vars
================================================================================
