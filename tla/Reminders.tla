------------------------------- MODULE Reminders -------------------------------
(***************************************************************************)
(* Reminders of events (services/reminders.py, services/push.py): a job    *)
(* that runs every minute looks for what is due, notes each reminder in a  *)
(* log, commits, and pushes it to the devices of a person, while people    *)
(* edit events and register devices, and while the worker may stop.        *)
(*                                                                         *)
(* Time is counted in minutes.  The job starts at second 0 and has 50      *)
(* seconds, so it never sees the next minute.  Devices are browsers        *)
(* (endpoints); a device's row gets a new id when another account          *)
(* registers it.                                                           *)
(***************************************************************************)
EXTENDS Integers, FiniteSets

CONSTANTS
    People, NoOne,
    Audiences,          \* sets of people who can share an area
    Devices, Events,
    Starts,             \* minutes at which occurrences can begin
    Leads,              \* minutes a reminder can come earlier
    Lookback, KeepLog,  \* LOOKBACK, KEEP_LOG
    MaxFailures,        \* MAX_FAILURES
    MaxSubscriptions,   \* MAX_SUBSCRIPTIONS
    LastMinute, MaxOps, MaxFaults    \* bounds on the environment

ASSUME RemindersAssumption ==
    /\ NoOne \notin People /\ Audiences \subseteq SUBSET People
    /\ Starts \subseteq Int /\ Leads \subseteq Int
    /\ Lookback \in Nat /\ KeepLog \in Nat /\ KeepLog >= Lookback
    /\ MaxFailures \in Nat \ {0} /\ MaxSubscriptions \in Nat
    /\ LastMinute \in Nat /\ MaxOps \in Nat /\ MaxFaults \in Nat

VARIABLES
    now,        \* the minute
    ran,        \* this minute's job has started
    event,      \* events: their occurrences, reminders and audience
    owner, failures, row,   \* devices: account, failures in a row, id of the row
    log,        \* the reminder log
    stage,      \* what the job does
    due,        \* what it has found and not looked at yet
    cur,        \* the reminder it is sending
    seen,       \* what it has read of the devices
    verdict,    \* how the push service has answered for each device
    shown,      \* history: how often a device has shown a reminder
    tried,      \* history: whose devices have all been tried for a reminder
    owed,       \* history: reminders that fell due and that nobody has called off
    lost,       \* history: minutes whose job was missed or did not get to its end
    ops, faults

deviceVars == <<owner, failures, row>>
jobVars == <<stage, due, cur, seen, verdict>>
historyVars == <<shown, tried, owed, lost>>
vars == <<now, ran, event, deviceVars, log, jobVars, historyVars, ops, faults>>

(* What the log knows a reminder by.                                       *)
Keys == [event: Events, start: Starts, lead: Leads]
Fire(k) == k.start - k.lead

(* An event's occurrences and reminders; a cancelled event asks for none.  *)
EventRow == [state: {"new", "there", "gone"}, starts: SUBSET Starts,
             leads: SUBSET Leads, audience: SUBSET People]
Asked(e) == {k \in Keys : /\ k.event = e /\ event[e].state = "there"
                          /\ k.start \in event[e].starts /\ k.lead \in event[e].leads}

DevicesOf(u) == {d \in Devices : owner[d] = u}

(* Person x[1] is to be told of reminder x[2].                             *)
Entitled(x) ==
    /\ x[2] \in Asked(x[2].event) /\ x[1] \in event[x[2].event].audience
    /\ DevicesOf(x[1]) # {}

Logged(k) == \E l \in log : l.key = k

NoVerdict == [d \in Devices |-> "skip"]

Init ==
    /\ now = 0 /\ ran = FALSE
    /\ event = [e \in Events |->
                   [state |-> "new", starts |-> {}, leads |-> {}, audience |-> {}]]
    /\ owner = [d \in Devices |-> NoOne]
    /\ failures = [d \in Devices |-> 0] /\ row = [d \in Devices |-> 0]
    /\ log = {}
    /\ stage = "idle" /\ due = {} /\ cur = NoOne
    /\ seen = [d \in Devices |-> [row |-> 0, failures |-> 0]] /\ verdict = NoVerdict
    /\ shown = [d \in Devices |-> [k \in Keys |-> 0]] /\ tried = {}
    /\ owed = {} /\ lost = {}
    /\ ops = 0 /\ faults = 0

-----------------------------------------------------------------------------
(***************************************************************************)
(* People.                                                                 *)
(***************************************************************************)
Op ==
    /\ ops < MaxOps /\ ops' = ops + 1
    /\ owed' = {x \in owed : Entitled(x)'}
    /\ UNCHANGED <<now, ran, jobVars, shown, tried, lost, faults>>

CreateEvent(e, starts, leads, audience) ==
    /\ event[e].state = "new"
    /\ event' = [event EXCEPT ![e] = [state |-> "there", starts |-> starts,
                                      leads |-> leads, audience |-> audience]]
    /\ UNCHANGED <<deviceVars, log>> /\ Op

(* Moving it, changing or cancelling its reminders, or who shares its area. *)
EditEvent(e, starts, leads, audience) ==
    /\ event[e].state = "there"
    /\ event' = [event EXCEPT ![e] = [state |-> "there", starts |-> starts,
                                      leads |-> leads, audience |-> audience]]
    /\ UNCHANGED <<deviceVars, log>> /\ Op

(* Its entries in the log go with it.                                      *)
DeleteEvent(e) ==
    /\ event[e].state = "there"
    /\ event' = [event EXCEPT ![e] = [state |-> "gone", starts |-> {}, leads |-> {},
                                      audience |-> {}]]
    /\ log' = {l \in log : l.key.event # e}
    /\ UNCHANGED deviceVars /\ Op

(* A browser that belonged to another account gets a new row.              *)
Subscribe(u, d) ==
    /\ owner[d] = u \/ Cardinality(DevicesOf(u)) < MaxSubscriptions
    /\ owner' = [owner EXCEPT ![d] = u]
    /\ failures' = [failures EXCEPT ![d] = 0]
    /\ row' = [row EXCEPT ![d] = IF owner[d] = u THEN @ ELSE @ + 1]
    /\ UNCHANGED <<event, log>> /\ Op

Unsubscribe(d) ==
    /\ owner[d] # NoOne
    /\ owner' = [owner EXCEPT ![d] = NoOne]
    /\ UNCHANGED <<failures, row, event, log>> /\ Op

-----------------------------------------------------------------------------
(***************************************************************************)
(* The job.                                                                *)
(***************************************************************************)
(* Mutant: nothing is made up for. *)
InWindowAtOnce(k) == Fire(k) = now

(* Missed reminders are made up for as long as LOOKBACK.                   *)
InWindow(k) == now - Lookback < Fire(k) /\ Fire(k) <= now

DueReminders ==
    {x \in People \X UNION {Asked(e) : e \in Events} : Entitled(x) /\ InWindow(x[2])}

StartJob ==
    /\ stage = "idle" /\ ~ran /\ ran' = TRUE
    /\ due' = DueReminders
    /\ stage' = IF due' = {} THEN "idle" ELSE "log"
    /\ UNCHANGED <<now, event, deviceVars, log, cur, seen, verdict, historyVars, ops, faults>>

StopJob ==
    /\ stage' = "idle" /\ due' = {} /\ cur' = NoOne /\ verdict' = NoVerdict
    /\ lost' = lost \cup {now}
    /\ UNCHANGED seen

(* Somebody has been told already.                                         *)
SkipLogged(x) ==
    /\ stage = "log" /\ x \in due /\ Logged(x[2])
    /\ due' = due \ {x} /\ stage' = IF due' = {} THEN "idle" ELSE "log"
    /\ UNCHANGED <<now, ran, event, deviceVars, log, cur, seen, verdict, historyVars, ops, faults>>

(* The entry is inserted and committed; then the devices are read.         *)
NoteReminder(x) ==
    /\ stage = "log" /\ x \in due /\ ~Logged(x[2]) /\ event[x[2].event].state = "there"
    /\ log' = log \cup {[key |-> x[2], at |-> now]}
    /\ due' = due \ {x} /\ cur' = x /\ stage' = "send"
    /\ seen' = [d \in Devices |-> [row |-> row[d], failures |-> failures[d]]]
    /\ verdict' = [d \in Devices |-> IF owner[d] = x[1] THEN "left" ELSE "skip"]
    /\ UNCHANGED <<now, ran, event, deviceVars, historyVars, ops, faults>>

(* The event is gone: the foreign key stops the job.                       *)
NoteFails(x) ==
    /\ stage = "log" /\ x \in due /\ event[x[2].event].state = "gone"
    /\ StopJob
    /\ UNCHANGED <<now, ran, event, deviceVars, log, shown, tried, owed, ops, faults>>

(* One device.  A push that seems to fail may have been shown all the same. *)
Send(d) ==
    /\ stage = "send" /\ verdict[d] = "left"
    /\ \E answer \in {"ok", "failed", "gone"}, showing \in {0, 1} :
          /\ answer = "ok" => showing = 1
          /\ answer = "gone" => showing = 0
          /\ verdict' = [verdict EXCEPT ![d] = answer]
          /\ shown' = [shown EXCEPT ![d][cur[2]] = @ + showing]
    /\ UNCHANGED <<now, ran, event, deviceVars, log, stage, due, cur, seen, tried, owed,
                   lost, ops, faults>>

(* Mutant: one failure more. *)
DropsLater(d) ==
    verdict[d] = "gone" \/ (verdict[d] = "failed" /\ seen[d].failures + 1 > MaxFailures)

Drops(d) ==
    verdict[d] = "gone" \/ (verdict[d] = "failed" /\ seen[d].failures + 1 >= MaxFailures)

(* The job is telling somebody of this reminder.                           *)
Sends(k) == stage = "send" /\ cur[2] = k

AllTried == stage = "send" /\ \A d \in Devices : verdict[d] # "left"
Kept == {d \in Devices : verdict[d] \in {"ok", "failed"} /\ ~Drops(d)}
StillThere(d) == owner[d] # NoOne /\ row[d] = seen[d].row

(* All answers are stored in one commit, by the rows that were read.  Of   *)
(* several updates in one batch the driver may not notice a missing row.   *)
FinishPush ==
    /\ AllTried
    /\ (\A d \in Kept : StillThere(d)) \/ Cardinality(Kept) > 1
    /\ owner' = [d \in Devices |-> IF Drops(d) /\ StillThere(d) THEN NoOne ELSE owner[d]]
    /\ failures' = [d \in Devices |->
                       IF d \in Kept /\ StillThere(d)
                       THEN IF verdict[d] = "ok" THEN 0 ELSE seen[d].failures + 1
                       ELSE failures[d]]
    /\ stage' = IF due = {} THEN "idle" ELSE "log"
    /\ cur' = NoOne /\ verdict' = NoVerdict
    /\ tried' = tried \cup {cur}
    /\ UNCHANGED <<now, ran, event, row, log, due, seen, shown, lost, ops, faults>>
    /\ owed' = {x \in owed : Entitled(x)'}

(* A device that answered is gone: the update finds no row, the job stops. *)
FinishFails ==
    /\ AllTried /\ \E d \in Kept : ~StillThere(d)
    /\ StopJob
    /\ tried' = tried \cup {cur}
    /\ UNCHANGED <<now, ran, event, deviceVars, log, shown, owed, ops, faults>>

-----------------------------------------------------------------------------
Fault == faults < MaxFaults /\ faults' = faults + 1

(* The worker is stopped, or the job's 50 seconds are over.  What was      *)
(* being sent is in the log and lost.                                      *)
Stop ==
    /\ stage # "idle" /\ Fault
    /\ StopJob
    /\ owed' = {x \in owed : ~Sends(x[2])}
    /\ UNCHANGED <<now, ran, event, deviceVars, log, shown, tried, ops>>

(* The next minute, and what falls due in it.                              *)
Tick ==
    /\ stage = "idle" /\ now < LastMinute
    /\ IF ran THEN UNCHANGED <<lost, faults>>
              ELSE Fault /\ lost' = lost \cup {now}    \* the worker was down
    /\ now' = now + 1 /\ ran' = FALSE
    /\ owed' = owed \cup {x \in People \X UNION {Asked(e) : e \in Events} :
                             Entitled(x) /\ Fire(x[2]) = now'}
    /\ UNCHANGED <<event, deviceVars, log, jobVars, shown, tried, ops>>

(* Mutant: entries go after a minute. *)
OutdatedAtOnce(l) == l.at < now

Outdated(l) == l.at < now - KeepLog

(* cleanup_reminder_log, once an hour.                                     *)
Cleanup ==
    /\ log' = {l \in log : ~Outdated(l)}
    /\ UNCHANGED <<now, ran, event, deviceVars, jobVars, historyVars, ops, faults>>

Next ==
    \/ \E e \in Events :
          \/ \E starts \in SUBSET Starts, leads \in SUBSET Leads, audience \in Audiences :
                CreateEvent(e, starts, leads, audience) \/ EditEvent(e, starts, leads, audience)
          \/ DeleteEvent(e)
    \/ \E d \in Devices : (\E u \in People : Subscribe(u, d)) \/ Unsubscribe(d) \/ Send(d)
    \/ StartJob
    \/ \E x \in due : SkipLogged(x) \/ NoteReminder(x) \/ NoteFails(x)
    \/ FinishPush \/ FinishFails
    \/ Stop \/ Tick \/ Cleanup

Spec == Init /\ [][Next]_vars

-----------------------------------------------------------------------------
(***************************************************************************)
(* Properties.                                                             *)
(***************************************************************************)

(* Every variable keeps its shape; a device that is still registered has   *)
(* failed less than MAX_FAILURES times in a row.                           *)
TypeOK ==
    /\ now \in Nat /\ ran \in BOOLEAN
    /\ event \in [Events -> EventRow]
    /\ owner \in [Devices -> People \cup {NoOne}]
    /\ failures \in [Devices -> 0..(MaxFailures - 1)]
    /\ row \in [Devices -> Nat]
    /\ log \subseteq [key: Keys, at: Nat]
    /\ stage \in {"idle", "log", "send"}
    /\ due \subseteq People \X Keys
    /\ cur \in (People \X Keys) \cup {NoOne}
    /\ seen \in [Devices -> [row: Nat, failures: 0..(MaxFailures - 1)]]
    /\ verdict \in [Devices -> {"skip", "left", "ok", "failed", "gone"}]
    /\ shown \in [Devices -> [Keys -> Nat]]
    /\ tried \subseteq People \X Keys /\ owed \subseteq People \X Keys /\ lost \subseteq Nat
    /\ ops \in 0..MaxOps /\ faults \in 0..MaxFaults

(* No device shows the same reminder twice: "damit jede nur einmal kommt", *)
(* however often the job is stopped, made up for, or the log cleaned up,   *)
(* and wherever the event is moved in the meantime.                        *)
NeverTwice == \A d \in Devices, k \in Keys : shown[d][k] <= 1

(* Somebody has been pushed the reminder, or every minute since it fell    *)
(* due, as long as LOOKBACK, has lost its job.                             *)
Told(k) == \E x \in tried : x[2] = k
Missed(k) == \A m \in Fire(k)..(now - 1) : m < Fire(k) + Lookback => m \in lost

(* A reminder that fell due, and that nobody has called off, is pushed as  *)
(* soon as a job gets to its end, in shared areas as in private ones.  A   *)
(* job that stops loses the one it is sending (it is not owed any more),   *)
(* never the others.  Exception: the log does not say whom an entry stands *)
(* for (reminders.py:86-93), so where several people share the area this   *)
(* says that one of them is told, not each; EveryoneIsReminded says more,  *)
(* and the code does not keep it.                                          *)
SomebodyIsReminded == \A x \in owed : Told(x[2]) \/ Missed(x[2])

(* Each person who sees the event and has a device is told: "Jede          *)
(* Erinnerung kommt genau einmal" (CHANGELOG.md:300), and the events of a  *)
(* shared area are everybody's (CHANGELOG.md:98).  The code keeps this for *)
(* an event only one person ever sees.                                     *)
EveryoneIsReminded == \A x \in owed : x \in tried \/ Missed(x[2])
=============================================================================
