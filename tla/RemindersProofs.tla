---------------------------- MODULE RemindersProofs ----------------------------
(***************************************************************************)
(* Proofs about Reminders: every variable keeps its shape, no device shows *)
(* a reminder twice, and what is owed is pushed.                           *)
(***************************************************************************)
EXTENDS Reminders, TLAPS

(* A reminder the job will not send again: it is in the log, its event is  *)
(* gone, or it is too late to make up for it.                              *)
Past(k) ==
    Logged(k) \/ event[k.event].state = "gone" \/ Fire(k) <= now - Lookback

LogIsOld == \A l \in log : Fire(l.key) <= l.at

DueInWindow ==
    /\ \A x \in due : InWindow(x[2])
    /\ stage = "idle" => due = {}

ShownIsPast == \A d \in Devices, k \in Keys : shown[d][k] > 0 => Past(k)

Sending ==
    stage = "send" =>
        /\ cur \in People \X Keys /\ Past(cur[2])
        /\ \A d \in Devices : verdict[d] = "left" => shown[d][cur[2]] = 0

IInv ==
    TypeOK /\ LogIsOld /\ DueInWindow /\ ShownIsPast /\ Sending /\ NeverTwice

-----------------------------------------------------------------------------
(* The moment a reminder falls due is a number of minutes.                 *)
LEMMA FireIsInt ==
    ASSUME NEW k \in Keys PROVE Fire(k) \in Int
  <1>1. k.start \in Int /\ k.lead \in Int
    BY RemindersAssumption DEF Keys
  <1> QED
    BY <1>1 DEF Fire

(* The initial states satisfy the inductive invariant: nothing is logged,  *)
(* due or shown.                                                           *)
LEMMA InitIInv ==
    Init => IInv
  <1> SUFFICES ASSUME Init PROVE IInv
    OBVIOUS
  <1>1. TypeOK
    <2>1. event \in [Events -> EventRow]
      BY DEF Init, EventRow
    <2>2. /\ failures \in [Devices -> 0..(MaxFailures - 1)]
          /\ seen \in [Devices -> [row : Nat, failures : 0..(MaxFailures - 1)]]
      BY RemindersAssumption DEF Init
    <2>3. shown \in [Devices -> [Keys -> Nat]]
      BY DEF Init
    <2>4. ops \in 0..MaxOps /\ faults \in 0..MaxFaults
      BY RemindersAssumption DEF Init
    <2>5. verdict \in [Devices -> {"skip", "left", "ok", "failed", "gone"}]
      BY DEF Init, NoVerdict
    <2> QED
      BY <2>1, <2>2, <2>3, <2>4, <2>5 DEF Init, TypeOK
  <1>2. LogIsOld /\ DueInWindow /\ Sending
    BY DEF Init, LogIsOld, DueInWindow, Sending
  <1>3. \A d \in Devices, k \in Keys : shown[d][k] = 0
    BY DEF Init
  <1>4. ShownIsPast /\ NeverTwice
    BY <1>3 DEF ShownIsPast, NeverTwice
  <1> QED
    BY <1>1, <1>2, <1>4 DEF IInv

-----------------------------------------------------------------------------
(* What people do with events keeps every shape.                           *)
LEMMA EventTypes ==
    ASSUME TypeOK, NEW e \in Events,
           \/ \E starts \in SUBSET Starts, leads \in SUBSET Leads, audience \in Audiences :
                 CreateEvent(e, starts, leads, audience) \/ EditEvent(e, starts, leads, audience)
           \/ DeleteEvent(e)
    PROVE  TypeOK'
  <1>1. ops' \in 0..MaxOps /\ owed' \subseteq People \X Keys
    BY RemindersAssumption DEF TypeOK, Op, CreateEvent, EditEvent, DeleteEvent
  <1>2. event' \in [Events -> EventRow]
    <2>1. ASSUME NEW starts \in SUBSET Starts, NEW leads \in SUBSET Leads, NEW audience \in Audiences
          PROVE  [state |-> "there", starts |-> starts, leads |-> leads,
                  audience |-> audience] \in EventRow
      BY RemindersAssumption DEF EventRow
    <2>2. [state |-> "gone", starts |-> {}, leads |-> {}, audience |-> {}] \in EventRow
      BY DEF EventRow
    <2>3. \E r \in EventRow : event' = [event EXCEPT ![e] = r]
      BY <2>1, <2>2 DEF CreateEvent, EditEvent, DeleteEvent
    <2> QED
      BY <2>3 DEF TypeOK
  <1>3. log' \subseteq [key : Keys, at : Nat]
    BY DEF TypeOK, CreateEvent, EditEvent, DeleteEvent
  <1>4. UNCHANGED <<now, ran, deviceVars, jobVars, shown, tried, lost, faults>>
    BY DEF Op, CreateEvent, EditEvent, DeleteEvent
  <1> QED
    BY <1>1, <1>2, <1>3, <1>4 DEF TypeOK, deviceVars, jobVars

(* So does what people do with their devices.                              *)
LEMMA DeviceTypes ==
    ASSUME TypeOK, NEW d \in Devices, (\E u \in People : Subscribe(u, d)) \/ Unsubscribe(d)
    PROVE  TypeOK'
  <1>1. ops' \in 0..MaxOps /\ owed' \subseteq People \X Keys
    BY RemindersAssumption DEF TypeOK, Op, Subscribe, Unsubscribe
  <1>2. /\ owner' \in [Devices -> People \cup {NoOne}]
        /\ failures' \in [Devices -> 0..(MaxFailures - 1)]
        /\ row' \in [Devices -> Nat]
    <2>1. ASSUME NEW u \in People, Subscribe(u, d)
          PROVE  /\ owner' \in [Devices -> People \cup {NoOne}]
                 /\ failures' \in [Devices -> 0..(MaxFailures - 1)]
                 /\ row' \in [Devices -> Nat]
      BY <2>1, RemindersAssumption DEF TypeOK, Subscribe
    <2>2. CASE Unsubscribe(d)
      BY <2>2 DEF TypeOK, Unsubscribe
    <2> QED
      BY <2>1, <2>2
  <1>3. UNCHANGED <<now, ran, event, log, jobVars, shown, tried, lost, faults>>
    BY DEF Op, Subscribe, Unsubscribe
  <1> QED
    BY <1>1, <1>2, <1>3 DEF TypeOK, jobVars

(* The job, its interruptions, the clock and the cleanup keep every shape. *)
(* A device that has failed too often is dropped, so the count of the      *)
(* others stays below MAX_FAILURES.                                        *)
LEMMA JobTypes ==
    ASSUME TypeOK, Sending,
           \/ StartJob \/ \E x \in due : SkipLogged(x) \/ NoteReminder(x) \/ NoteFails(x)
           \/ \E d \in Devices : Send(d)
           \/ FinishPush \/ FinishFails \/ Stop \/ Tick \/ Cleanup
    PROVE  TypeOK'
  <1>1. CASE StartJob
    <2>1. due' \subseteq People \X Keys
      BY <1>1 DEF StartJob, DueReminders, Asked
    <2> QED
      BY <1>1, <2>1 DEF StartJob, TypeOK, deviceVars, historyVars
  <1>2. CASE \E x \in due : SkipLogged(x)
    BY <1>2 DEF SkipLogged, TypeOK, deviceVars, historyVars
  <1>3. ASSUME NEW x \in due, NoteReminder(x) PROVE TypeOK'
    <2>1. x \in People \X Keys /\ x[2] \in Keys
      BY DEF TypeOK
    <2>2. log' \subseteq [key : Keys, at : Nat]
      BY <1>3, <2>1 DEF NoteReminder, TypeOK
    <2>3. seen' \in [Devices -> [row : Nat, failures : 0..(MaxFailures - 1)]]
      BY <1>3 DEF NoteReminder, TypeOK
    <2>4. verdict' \in [Devices -> {"skip", "left", "ok", "failed", "gone"}]
      BY <1>3 DEF NoteReminder
    <2> QED
      BY <1>3, <2>1, <2>2, <2>3, <2>4 DEF NoteReminder, TypeOK, deviceVars, historyVars
  <1>4. CASE \E x \in due : NoteFails(x)
    BY <1>4 DEF NoteFails, StopJob, NoVerdict, TypeOK, deviceVars, historyVars
  <1>5. ASSUME NEW d \in Devices, Send(d) PROVE TypeOK'
    <2>1. cur[2] \in Keys
      BY <1>5 DEF Send, Sending
    <2>2. verdict' \in [Devices -> {"skip", "left", "ok", "failed", "gone"}]
      BY <1>5 DEF Send, TypeOK
    <2>3. shown' \in [Devices -> [Keys -> Nat]]
      <3>1. PICK showing \in {0, 1} : shown' = [shown EXCEPT ![d][cur[2]] = @ + showing]
        BY <1>5 DEF Send
      <3> QED
        BY <2>1, <3>1 DEF TypeOK
    <2> QED
      BY <1>5, <2>2, <2>3 DEF Send, TypeOK, deviceVars
  <1>6. CASE FinishPush
    <2>1. cur \in People \X Keys
      BY <1>6 DEF FinishPush, AllTried, Sending
    <2>2. failures' \in [Devices -> 0..(MaxFailures - 1)]
      <3>1. ASSUME NEW d \in Devices, d \in Kept, verdict[d] # "ok"
            PROVE  seen[d].failures + 1 \in 0..(MaxFailures - 1)
        <4>1. seen[d].failures \in 0..(MaxFailures - 1)
          BY DEF TypeOK
        <4>2. verdict[d] = "failed" /\ ~(seen[d].failures + 1 >= MaxFailures)
          BY <3>1 DEF Kept, Drops
        <4> QED
          BY <4>1, <4>2, RemindersAssumption
      <3>2. ASSUME NEW d \in Devices
            PROVE  failures'[d] \in 0..(MaxFailures - 1)
        <4>1. failures'[d] = IF d \in Kept /\ StillThere(d)
                             THEN IF verdict[d] = "ok" THEN 0 ELSE seen[d].failures + 1
                             ELSE failures[d]
          BY <1>6 DEF FinishPush
        <4>2. failures[d] \in 0..(MaxFailures - 1)
          BY DEF TypeOK
        <4> QED
          BY <4>1, <4>2, <3>1, RemindersAssumption
      <3>3. failures' = [d \in Devices |-> failures'[d]]
        BY <1>6 DEF FinishPush
      <3> QED
        BY <3>2, <3>3
    <2>3. owner' \in [Devices -> People \cup {NoOne}]
      BY <1>6 DEF FinishPush, TypeOK
    <2>4. owed' \subseteq People \X Keys
      BY <1>6 DEF FinishPush, TypeOK
    <2> QED
      BY <1>6, <2>1, <2>2, <2>3, <2>4 DEF FinishPush, TypeOK, NoVerdict
  <1>7. CASE FinishFails
    <2>1. cur \in People \X Keys
      BY <1>7 DEF FinishFails, AllTried, Sending
    <2> QED
      BY <1>7, <2>1 DEF FinishFails, StopJob, NoVerdict, TypeOK, deviceVars
  <1>8. CASE Stop
    <2>1. lost' \subseteq Nat /\ faults' \in 0..MaxFaults
      BY <1>8, RemindersAssumption DEF Stop, StopJob, Fault, TypeOK
    <2>2. verdict' \in [Devices -> {"skip", "left", "ok", "failed", "gone"}]
      BY <1>8 DEF Stop, StopJob, NoVerdict
    <2>3. owed' \subseteq People \X Keys
      BY <1>8 DEF Stop, TypeOK
    <2> QED
      BY <1>8, <2>1, <2>2, <2>3 DEF Stop, StopJob, TypeOK, deviceVars
  <1>9. CASE Tick
    <2>1. owed' \subseteq People \X Keys
      <3>1. UNION {Asked(e) : e \in Events} \subseteq Keys
        BY DEF Asked
      <3>2. owed \subseteq People \X Keys
        BY DEF TypeOK
      <3>3. \A x \in owed' : x \in owed \/ x \in People \X UNION {Asked(e) : e \in Events}
        BY <1>9 DEF Tick
      <3> QED
        BY <3>1, <3>2, <3>3
    <2>2. now' = now + 1 /\ ran' = FALSE
      BY <1>9 DEF Tick
    <2>3. now' \in Nat
      BY <2>2 DEF TypeOK
    <2>5. ran' \in BOOLEAN
      BY <2>2, Zenon
    <2>4. faults' \in 0..MaxFaults
      <3>1. CASE ran
        BY <1>9, <3>1 DEF Tick, TypeOK
      <3>2. CASE ~ran
        BY <1>9, <3>2, RemindersAssumption DEF Tick, Fault, TypeOK
      <3> QED
        BY <3>1, <3>2
    <2> QED
      BY <1>9, <2>1, <2>3, <2>4, <2>5 DEF Tick, TypeOK, deviceVars, jobVars
  <1>10. CASE Cleanup
    BY <1>10 DEF Cleanup, TypeOK, deviceVars, jobVars, historyVars
  <1> QED
    BY <1>1, <1>2, <1>3, <1>4, <1>5, <1>6, <1>7, <1>8, <1>9, <1>10

-----------------------------------------------------------------------------
(* A reminder that is past stays past: entries leave the log only when the *)
(* event goes, or when they are older than KEEP_LOG and so the reminder is *)
(* older than LOOKBACK; a deleted event does not come back.                *)
LEMMA PastStays ==
    ASSUME TypeOK, LogIsOld, [Next]_vars, NEW k \in Keys, Past(k)
    PROVE  Past(k)'
  <1> USE DEF Past, Logged
  <1>0. /\ k.event \in Events /\ now \in Nat /\ Fire(k) \in Int
        /\ event \in [Events -> EventRow] /\ log \subseteq [key : Keys, at : Nat]
    BY FireIsInt DEF TypeOK, Keys
  <1>1. ASSUME NEW e \in Events, NEW starts, NEW leads, NEW audience,
               CreateEvent(e, starts, leads, audience) \/ EditEvent(e, starts, leads, audience)
        PROVE  Past(k)'
    BY <1>0, <1>1 DEF CreateEvent, EditEvent, Op, Fire
  <1>2. ASSUME NEW e \in Events, DeleteEvent(e) PROVE Past(k)'
    BY <1>0, <1>2 DEF DeleteEvent, Op, Fire
  <1>3. CASE Cleanup
    <2>1. CASE \E l \in log : l.key = k
      <3>1. PICK l \in log : l.key = k
        BY <2>1
      <3>2. CASE Outdated(l)
        <4>1. Fire(k) <= l.at /\ l.at < now - KeepLog /\ l.at \in Nat
          BY <1>0, <3>1, <3>2 DEF LogIsOld, Outdated
        <4>2. Fire(k) <= now - Lookback
          BY <1>0, <4>1, RemindersAssumption
        <4> QED
          BY <1>3, <4>2 DEF Cleanup, Fire
      <3>3. CASE ~Outdated(l)
        BY <1>3, <3>1, <3>3 DEF Cleanup
      <3> QED
        BY <3>2, <3>3
    <2>2. CASE ~Logged(k)
      BY <1>3, <2>2 DEF Cleanup, Fire
    <2> QED
      BY <2>1, <2>2
  <1>4. CASE Tick
    <2>1. now' = now + 1 /\ log' = log /\ event' = event
      BY <1>4 DEF Tick
    <2>2. Fire(k) <= now - Lookback => Fire(k) <= now' - Lookback
      BY <1>0, <2>1, RemindersAssumption
    <2> QED
      BY <2>1, <2>2 DEF Fire
  <1>5. CASE \E x \in due : NoteReminder(x)
    BY <1>5 DEF NoteReminder, Fire
  <1>6. CASE UNCHANGED <<now, event, log>>
    BY <1>6 DEF Fire
  <1> QED
    BY <1>1, <1>2, <1>3, <1>4, <1>5, <1>6
       DEF Next, vars, Op, Subscribe, Unsubscribe, Send, StartJob, SkipLogged, NoteFails,
           FinishPush, FinishFails, Stop

-----------------------------------------------------------------------------
(* Every step keeps the log's entries no younger than their reminders.     *)
LEMMA LogStaysOld ==
    ASSUME IInv, [Next]_vars PROVE LogIsOld'
  <1>1. ASSUME NEW x \in due, NoteReminder(x) PROVE LogIsOld'
    <2>1. Fire(x[2]) <= now
      BY DEF IInv, DueInWindow, InWindow
    <2>2. \A l \in log' : l \in log \/ l = [key |-> x[2], at |-> now]
      BY <1>1 DEF NoteReminder
    <2> QED
      BY <2>1, <2>2 DEF IInv, LogIsOld, Fire
  <1>2. CASE log' \subseteq log
    BY <1>2 DEF IInv, LogIsOld, Fire
  <1> QED
    BY <1>1, <1>2
       DEF Next, vars, CreateEvent, EditEvent, DeleteEvent, Subscribe, Unsubscribe, Send, StartJob,
           SkipLogged, NoteFails, FinishPush, FinishFails, Stop, Tick, Cleanup

(* The clock stands still while the job has reminders to send, so they     *)
(* stay within LOOKBACK.                                                   *)
LEMMA DueStaysInWindow ==
    ASSUME IInv, [Next]_vars PROVE DueInWindow'
  <1> USE DEF DueInWindow, InWindow, Fire
  <1>1. CASE StartJob
    BY <1>1 DEF StartJob, DueReminders
  <1>2. ASSUME NEW x \in due, SkipLogged(x) \/ NoteReminder(x) PROVE DueInWindow'
    BY <1>2 DEF SkipLogged, NoteReminder, IInv
  <1>3. CASE StopJob /\ UNCHANGED now
    BY <1>3 DEF StopJob
  <1>4. CASE FinishPush
    BY <1>4 DEF FinishPush, IInv
  <1>5. CASE Tick
    BY <1>5 DEF Tick, IInv, jobVars
  <1>6. CASE UNCHANGED <<now, stage, due>>
    BY <1>6 DEF IInv
  <1> QED
    BY <1>1, <1>2, <1>3, <1>4, <1>5, <1>6
       DEF Next, vars, jobVars, Op, CreateEvent, EditEvent, DeleteEvent, Subscribe, Unsubscribe, Send,
           NoteFails, FinishFails, Stop, Cleanup

(* A reminder is noted only when it is not past, so nobody has seen it;    *)
(* each device is sent it once, and from then on it is past.               *)
LEMMA ShownOnce ==
    ASSUME IInv, TypeOK', [Next]_vars PROVE ShownIsPast' /\ Sending' /\ NeverTwice'
  <1>0. /\ TypeOK /\ LogIsOld
        /\ \A k \in Keys : Past(k) => Past(k)'
    BY PastStays DEF IInv
  <1>1. ASSUME NEW x \in due, NoteReminder(x)
        PROVE  ShownIsPast' /\ Sending' /\ NeverTwice'
    <2>1. x \in People \X Keys /\ x[2] \in Keys
      BY <1>0 DEF TypeOK
    <2>2. ~Past(x[2])
      <3>1. ~Logged(x[2]) /\ event[x[2].event].state # "gone"
        BY <1>1 DEF NoteReminder
      <3>2. now - Lookback < Fire(x[2])
        BY DEF IInv, DueInWindow, InWindow
      <3>3. now \in Nat /\ Fire(x[2]) \in Int
        BY <1>0, <2>1, FireIsInt DEF TypeOK
      <3> QED
        BY <3>1, <3>2, <3>3, RemindersAssumption DEF Past
    <2>3. \A d \in Devices : shown[d][x[2]] = 0
      <3>1. \A d \in Devices : shown[d][x[2]] \in Nat /\ ~(shown[d][x[2]] > 0)
        BY <1>0, <2>1, <2>2 DEF TypeOK, IInv, ShownIsPast
      <3> QED
        BY <3>1
    <2>4. cur' = x /\ shown' = shown
      BY <1>1 DEF NoteReminder, historyVars
    <2>5. Past(x[2])'
      <3>1. [key |-> x[2], at |-> now] \in log' /\ [key |-> x[2], at |-> now].key = x[2]
        BY <1>1 DEF NoteReminder
      <3>2. \E l \in log' : l.key = x[2]
        BY <3>1, Zenon
      <3> QED
        BY <3>2 DEF Past, Logged
    <2>6. Sending'
      BY <2>1, <2>3, <2>4, <2>5 DEF Sending, Past, Logged, Fire
    <2>7. ShownIsPast' /\ NeverTwice'
      BY <1>0, <2>4 DEF IInv, ShownIsPast, NeverTwice
    <2> QED
      BY <2>6, <2>7
  <1>2. ASSUME NEW d \in Devices, Send(d)
        PROVE  ShownIsPast' /\ Sending' /\ NeverTwice'
    <2>1. /\ cur[2] \in Keys /\ cur \in People \X Keys /\ Past(cur[2]) /\ shown[d][cur[2]] = 0
          /\ stage = "send"
      BY <1>2 DEF Send, IInv, Sending
    <2>2. PICK showing \in {0, 1} : shown' = [shown EXCEPT ![d][cur[2]] = @ + showing]
      BY <1>2 DEF Send
    <2>3. cur' = cur /\ stage' = stage
      BY <1>2 DEF Send
    <2>4. /\ shown'[d][cur[2]] \in {0, 1}
          /\ \A c \in Devices, k \in Keys :
                c # d \/ k # cur[2] => shown'[c][k] = shown[c][k]
      BY <1>0, <2>1, <2>2 DEF TypeOK
    <2>5. NeverTwice'
      BY <2>1, <2>4 DEF IInv, NeverTwice
    <2>6. ShownIsPast'
      <3>1. ASSUME NEW c \in Devices, NEW k \in Keys, shown'[c][k] > 0 PROVE Past(k)
        BY <2>1, <2>4, <3>1 DEF IInv, ShownIsPast
      <3> QED
        BY <1>0, <3>1 DEF ShownIsPast
    <2>7. Sending'
      <3>1. ASSUME NEW c \in Devices, verdict'[c] = "left" PROVE shown'[c][cur[2]] = 0
        <4>1. c # d /\ verdict[c] = "left"
          BY <1>0, <1>2, <3>1 DEF Send, TypeOK
        <4> QED
          BY <2>1, <2>4, <4>1 DEF IInv, Sending
      <3>2. Past(cur[2])'
        BY <1>0, <2>1, <2>3
      <3> QED
        BY <2>1, <2>3, <3>1, <3>2 DEF Sending, Past, Logged, Fire
    <2> QED
      BY <2>5, <2>6, <2>7
  <1>3. ASSUME UNCHANGED shown, stage' # "send" \/ UNCHANGED <<stage, cur, verdict>>
        PROVE  ShownIsPast' /\ Sending' /\ NeverTwice'
    <2>1. ShownIsPast' /\ NeverTwice'
      BY <1>0, <1>3 DEF IInv, ShownIsPast, NeverTwice
    <2>2. Sending'
      BY <1>0, <1>3 DEF IInv, Sending
    <2> QED
      BY <2>1, <2>2
  <1> QED
    BY <1>1, <1>2, <1>3
       DEF Next, vars, jobVars, historyVars, Op, CreateEvent, EditEvent, DeleteEvent, Subscribe,
           Unsubscribe, StartJob, SkipLogged, NoteFails, StopJob, FinishPush, FinishFails, Stop,
           Tick, Cleanup

-----------------------------------------------------------------------------
(* The invariant is inductive: what is shown is past, what is being sent   *)
(* has not been shown on the devices that are left.                        *)
LEMMA StepIInv ==
    ASSUME IInv, [Next]_vars PROVE IInv'
  <1>1. TypeOK'
    <2>1. CASE Next
      <3>1. ASSUME NEW e \in Events,
                   \/ \E starts \in SUBSET Starts, leads \in SUBSET Leads, audience \in Audiences :
                         \/ CreateEvent(e, starts, leads, audience)
                         \/ EditEvent(e, starts, leads, audience)
                   \/ DeleteEvent(e)
            PROVE  TypeOK'
        BY <3>1, EventTypes DEF IInv
      <3>2. ASSUME NEW d \in Devices, (\E u \in People : Subscribe(u, d)) \/ Unsubscribe(d)
            PROVE  TypeOK'
        BY <3>2, DeviceTypes DEF IInv
      <3>3. CASE \/ StartJob \/ \E x \in due : SkipLogged(x) \/ NoteReminder(x) \/ NoteFails(x)
                 \/ \E d \in Devices : Send(d)
                 \/ FinishPush \/ FinishFails \/ Stop \/ Tick \/ Cleanup
        BY <3>3, JobTypes DEF IInv
      <3> QED
        BY <2>1, <3>1, <3>2, <3>3 DEF Next
    <2>2. CASE UNCHANGED vars
      BY <2>2 DEF IInv, TypeOK, vars, deviceVars, jobVars, historyVars
    <2> QED
      BY <2>1, <2>2
  <1> QED
    BY <1>1, LogStaysOld, DueStaysInWindow, ShownOnce DEF IInv

(* Every variable keeps its shape; a registered device has failed less     *)
(* than MAX_FAILURES times in a row.                                       *)
THEOREM TypeCorrect == Spec => []TypeOK
  <1>1. IInv => TypeOK
    BY DEF IInv
  <1> QED
    BY <1>1, InitIInv, StepIInv, PTL DEF Spec

(* No device shows a reminder twice, for any number of people, devices,    *)
(* events and minutes, as long as the log is kept for LOOKBACK.            *)
THEOREM RemindedOnce == Spec => []NeverTwice
  <1>1. IInv => NeverTwice
    BY DEF IInv
  <1> QED
    BY <1>1, InitIInv, StepIInv, PTL DEF Spec
-----------------------------------------------------------------------------
(***************************************************************************)
(* Somebody is reminded of everything that is owed.                        *)
(***************************************************************************)
LogNotAhead == \A l \in log : l.at <= now

OwedWanted == \A x \in owed : Entitled(x) /\ Fire(x[2]) <= now

(* An entry of the log stands for a push that was tried, or is going on.   *)
OwedLogged == \A x \in owed : Logged(x[2]) => Told(x[2]) \/ Sends(x[2])

(* What a job that has not been lost leaves behind has been told.          *)
OwedToday ==
    \A x \in owed :
        ran /\ now \notin lost /\ InWindow(x[2]) => Told(x[2]) \/ x \in due \/ Sends(x[2])

OInv == LogNotAhead /\ OwedWanted /\ OwedLogged /\ OwedToday /\ SomebodyIsReminded

(* At first nothing is owed.                                               *)
LEMMA InitOInv == Init => OInv
  BY DEF Init, OInv, LogNotAhead, OwedWanted, OwedLogged, OwedToday, SomebodyIsReminded

(* Nobody is forgotten who has been told, and no minute is found again.    *)
LEMMA ToldStays ==
    ASSUME tried \subseteq tried', lost \subseteq lost', now' = now, owed' \subseteq owed,
           SomebodyIsReminded
    PROVE  SomebodyIsReminded' /\ \A k \in Keys : Told(k) => Told(k)'
  BY DEF SomebodyIsReminded, Told, Missed, Fire

(* What people do calls reminders off, or leaves them as they are.         *)
LEMMA OpKeepsOwed ==
    ASSUME TypeOK, OInv, Op, log' \subseteq log
    PROVE  OInv'
  <1>1. /\ UNCHANGED <<now, ran, stage, due, cur, tried, lost>>
        /\ owed' \subseteq owed /\ \A x \in owed' : Entitled(x)'
    BY DEF Op, jobVars
  <1>2. LogNotAhead' /\ OwedWanted'
    BY <1>1 DEF OInv, LogNotAhead, OwedWanted, Fire
  <1>3. OwedToday' /\ OwedLogged'
    BY <1>1 DEF OInv, OwedToday, OwedLogged, Logged, Told, Sends, InWindow, Fire
  <1>4. SomebodyIsReminded'
    BY <1>1, ToldStays DEF OInv
  <1> QED
    BY <1>2, <1>3, <1>4 DEF OInv

(* A job that starts takes up all that is owed in its window.              *)
LEMMA StartTakesOwed == ASSUME IInv, OInv, StartJob PROVE OInv'
  <1>1. /\ UNCHANGED <<now, event, owner, log, tried, owed, lost, cur>> /\ due' = DueReminders
        /\ stage = "idle" /\ stage' \in {"idle", "log"}
    BY DEF StartJob, deviceVars, historyVars
  <1>2. owed \subseteq People \X Keys
    BY DEF IInv, TypeOK
  <1>3. ASSUME NEW x \in owed, InWindow(x[2])
        PROVE  x \in due'
    <2>1. x \in People \X Keys /\ x[2] \in Keys /\ Entitled(x)
      BY <1>2 DEF OInv, OwedWanted
    <2>2. x[2].event \in Events /\ x[2] \in Asked(x[2].event)
      BY <2>1 DEF Keys, Entitled
    <2>3. x \in People \X UNION {Asked(e) : e \in Events}
      BY <2>1, <2>2
    <2> QED
      BY <1>1, <1>3, <2>1, <2>3 DEF DueReminders
  <1>4. LogNotAhead' /\ OwedWanted'
    BY <1>1 DEF OInv, LogNotAhead, OwedWanted, Entitled, Asked, DevicesOf, Fire
  <1>5. OwedToday'
    BY <1>1, <1>3 DEF OwedToday, InWindow, Fire
  <1>6. OwedLogged'
    BY <1>1 DEF OInv, OwedLogged, Logged, Told, Sends
  <1>7. SomebodyIsReminded'
    BY <1>1, ToldStays DEF OInv
  <1> QED
    BY <1>4, <1>5, <1>6, <1>7 DEF OInv

(* A job that stops has lost its minute and what it was sending; one that  *)
(* was sending has told.                                                   *)
LEMMA StopLosesMinute ==
    ASSUME IInv, OInv, StopJob, UNCHANGED <<now, event, deviceVars, log>>,
           \/ stage # "send" /\ UNCHANGED <<tried, owed>>
           \/ owed' = {x \in owed : ~Sends(x[2])} /\ tried' = tried
           \/ tried' = tried \cup {cur} /\ owed' = owed
    PROVE  OInv'
  <1>1. owed' \subseteq owed /\ tried \subseteq tried' /\ lost' = lost \cup {now} /\ stage' = "idle"
    BY DEF StopJob
  <1>2. LogNotAhead' /\ OwedWanted'
    BY <1>1 DEF OInv, LogNotAhead, OwedWanted, Entitled, Asked, DevicesOf, Fire,
            deviceVars
  <1>3. OwedToday'
    BY <1>1 DEF OwedToday
  <1>4. OwedLogged'
    BY <1>1 DEF OInv, OwedLogged, Logged, Told, Sends
  <1>5. SomebodyIsReminded'
    BY <1>1, ToldStays DEF OInv
  <1> QED
    BY <1>2, <1>3, <1>4, <1>5 DEF OInv

(* One reminder is looked at.                                              *)
LEMMA LookKeepsOwed ==
    ASSUME IInv, OInv, NEW x \in due, SkipLogged(x) \/ NoteReminder(x) PROVE OInv'
  <1>1. /\ UNCHANGED <<now, ran, event, owner, tried, owed, lost>> /\ due' = due \ {x}
        /\ stage = "log" /\ now \in Nat
    BY DEF SkipLogged, NoteReminder, deviceVars, historyVars, IInv, TypeOK
  <1>2. LogNotAhead' /\ OwedWanted'
    <2>1. \A l \in log' : l \in log \/ l = [key |-> x[2], at |-> now]
      BY DEF SkipLogged, NoteReminder
    <2>2. LogNotAhead'
      BY <1>1, <2>1 DEF OInv, LogNotAhead
    <2> QED
      BY <1>1, <2>2 DEF OInv, OwedWanted, Entitled, Asked, DevicesOf, Fire
  <1>3. ASSUME SkipLogged(x) PROVE OwedToday' /\ OwedLogged'
    <2>1. log' = log /\ stage' # "send" /\ Logged(x[2])
      BY <1>3 DEF SkipLogged
    <2>2. x \in owed => Told(x[2])
      BY <1>1, <2>1 DEF OInv, OwedLogged, Sends
    <2> QED
      BY <1>1, <2>1, <2>2 DEF OInv, OwedToday, OwedLogged, Logged, Told, Sends, InWindow, Fire
  <1>4. ASSUME NoteReminder(x) PROVE OwedToday' /\ OwedLogged'
    <2>1. log' = log \cup {[key |-> x[2], at |-> now]} /\ stage' = "send" /\ cur' = x
      BY <1>4 DEF NoteReminder
    <2>2. OwedToday'
      BY <1>1, <2>1 DEF OInv, OwedToday, Told, Sends, InWindow, Fire
    <2>3. ASSUME NEW z \in owed, Logged(z[2])' PROVE Told(z[2]) \/ z[2] = x[2]
      <3>1. PICK l \in log' : l.key = z[2]
        BY <2>3 DEF Logged
      <3>2. CASE l \in log
        BY <1>1, <3>1, <3>2 DEF OInv, OwedLogged, Logged, Sends
      <3>3. CASE l = [key |-> x[2], at |-> now]
        BY <3>1, <3>3
      <3> QED
        BY <2>1, <3>2, <3>3
    <2>4. OwedLogged'
      BY <1>1, <2>1, <2>3 DEF OwedLogged, Told, Sends
    <2> QED
      BY <2>2, <2>4
  <1>5. SomebodyIsReminded'
    BY <1>1, ToldStays DEF OInv
  <1> QED
    BY <1>2, <1>3, <1>4, <1>5 DEF OInv

(* The answers are stored; who is left without a device is owed nothing.   *)
LEMMA FinishKeepsOwed == ASSUME IInv, OInv, FinishPush PROVE OInv'
  <1>1. /\ UNCHANGED <<now, ran, event, log, lost, due>> /\ stage = "send"
        /\ stage' \in {"idle", "log"} /\ tried' = tried \cup {cur}
        /\ owed' \subseteq owed /\ \A x \in owed' : Entitled(x)'
    BY DEF FinishPush, AllTried
  <1>2. LogNotAhead' /\ OwedWanted'
    BY <1>1 DEF OInv, LogNotAhead, OwedWanted, Fire
  <1>3. OwedToday'
    BY <1>1 DEF OInv, OwedToday, Told, Sends, InWindow, Fire
  <1>4. OwedLogged'
    BY <1>1 DEF OInv, OwedLogged, Logged, Told, Sends
  <1>5. SomebodyIsReminded'
    BY <1>1, ToldStays DEF OInv
  <1> QED
    BY <1>2, <1>3, <1>4, <1>5 DEF OInv

(* A minute ends with its job done or lost.                                *)
LEMMA TickKeepsOwed == ASSUME IInv, OInv, Tick PROVE OInv'
  <1>1. /\ UNCHANGED <<event, owner, log, tried, due, cur, stage>> /\ stage = "idle" /\ due = {}
        /\ now' = now + 1 /\ ran' = FALSE /\ now \in Nat
        /\ lost \subseteq lost' /\ (ran \/ now \in lost')
    BY DEF Tick, deviceVars, jobVars, IInv, DueInWindow, TypeOK
  <1>2. \A x \in owed' : x \in People \X Keys /\ Fire(x[2]) \in Int
    <2>1. owed' \subseteq People \X Keys
      BY JobTypes DEF TypeOK, IInv
    <2> QED
      BY <2>1, FireIsInt
  <1>3. \A x \in owed' : x \in owed \/ (Entitled(x) /\ Fire(x[2]) = now')
    BY DEF Tick
  <1>4. LogNotAhead' /\ OwedWanted'
    <2>1. LogNotAhead'
      BY <1>1 DEF OInv, LogNotAhead, IInv, TypeOK
    <2>2. \A x \in owed' : Entitled(x) /\ Fire(x[2]) <= now'
      BY <1>1, <1>2, <1>3 DEF OInv, OwedWanted
    <2> QED
      BY <1>1, <2>1, <2>2 DEF OInv, OwedWanted, Entitled, Asked, DevicesOf, Fire
  <1>5. OwedToday'
    BY <1>1 DEF OwedToday
  <1>6. OwedLogged'
    <2>1. ASSUME NEW x \in owed', Logged(x[2]), x \notin owed PROVE FALSE
      <3>1. PICK l \in log : l.key = x[2]
        BY <2>1 DEF Logged
      <3>2. Fire(x[2]) <= l.at /\ l.at <= now /\ l.at \in Nat
        BY <3>1 DEF IInv, LogIsOld, TypeOK, OInv, LogNotAhead
      <3> QED
        BY <1>1, <1>2, <1>3, <2>1, <3>2
    <2> QED
      BY <1>1, <2>1 DEF OInv, OwedLogged, Logged, Told, Sends
  <1>7. SomebodyIsReminded'
    <2>1. ASSUME NEW x \in owed', ~Told(x[2]), NEW m \in Fire(x[2])..now, m < Fire(x[2]) + Lookback
          PROVE  m \in lost'
      <3>1. CASE m < now
        <4>1. m \in Fire(x[2])..(now - 1) /\ x \in owed
          BY <1>1, <1>2, <1>3, <2>1, <3>1
        <4>2. \A k \in Fire(x[2])..(now - 1) : k < Fire(x[2]) + Lookback => k \in lost
          BY <2>1, <4>1 DEF OInv, SomebodyIsReminded, Missed
        <4> QED
          BY <1>1, <2>1, <4>1, <4>2
      <3>2. CASE m = now
        <4>1. InWindow(x[2]) /\ x \in owed
          BY <1>1, <1>2, <1>3, <2>1, <3>2, RemindersAssumption DEF InWindow
        <4>2. ran => now \in lost
          BY <1>1, <2>1, <4>1 DEF OInv, OwedToday, Sends
        <4> QED
          BY <1>1, <3>2, <4>2
      <3> QED
        BY <1>1, <1>2, <2>1, <3>1, <3>2
    <2>2. now' - 1 = now
      BY <1>1
    <2> QED
      BY <1>1, <2>1, <2>2 DEF SomebodyIsReminded, Told, Missed, Fire
  <1> QED
    BY <1>4, <1>5, <1>6, <1>7 DEF OInv

(* Every step keeps what is owed within reach of the next job.             *)
LEMMA StepOInv == ASSUME IInv, OInv, [Next]_vars PROVE OInv'
  <1>1. CASE Op /\ log' \subseteq log
    BY <1>1, OpKeepsOwed DEF IInv
  <1>2. CASE UNCHANGED <<now, ran, event, owner, log, stage, due, cur, tried, owed, lost>>
    <2>1. LogNotAhead' /\ OwedWanted'
      BY <1>2 DEF OInv, LogNotAhead, OwedWanted, Entitled, Asked, DevicesOf, Fire
    <2>2. OwedToday' /\ OwedLogged' /\ SomebodyIsReminded'
      BY <1>2 DEF OInv, OwedToday, OwedLogged, SomebodyIsReminded, Logged, Told, Missed, Sends,
                  InWindow, Fire
    <2> QED
      BY <2>1, <2>2 DEF OInv
  <1>3. CASE Cleanup
    <2>1. /\ UNCHANGED <<now, ran, event, owner, stage, due, cur, tried, owed, lost>>
          /\ log' \subseteq log
      BY <1>3 DEF Cleanup, deviceVars, jobVars, historyVars
    <2>2. LogNotAhead' /\ OwedWanted'
      BY <2>1 DEF OInv, LogNotAhead, OwedWanted, Entitled, Asked, DevicesOf, Fire
    <2>3. OwedToday' /\ OwedLogged' /\ SomebodyIsReminded'
      BY <2>1 DEF OInv, OwedToday, OwedLogged, SomebodyIsReminded, Logged, Told, Missed, Sends,
                  InWindow, Fire
    <2> QED
      BY <2>2, <2>3 DEF OInv
  <1>4. ASSUME NEW d \in Devices, Send(d) PROVE OInv'
    BY <1>2, <1>4 DEF Send, deviceVars
  <1>5. ASSUME NEW x \in due, NoteFails(x) PROVE OInv'
    BY <1>5, StopLosesMinute DEF NoteFails
  <1>6. CASE FinishFails \/ Stop
    BY <1>6, StopLosesMinute DEF FinishFails, Stop
  <1>7. CASE UNCHANGED vars
    BY <1>2, <1>7 DEF vars, deviceVars, jobVars, historyVars
  <1> QED
    BY <1>1, <1>3, <1>4, <1>5, <1>6, <1>7, StartTakesOwed, LookKeepsOwed, FinishKeepsOwed,
       TickKeepsOwed
       DEF Next, CreateEvent, EditEvent, DeleteEvent, Subscribe, Unsubscribe

(* A reminder that is owed is pushed to somebody by the first job since,   *)
(* within LOOKBACK, that gets to its end, for any number of people,        *)
(* shared areas, devices, events and minutes.                              *)
THEOREM OwedIsPushed == Spec => []SomebodyIsReminded
  <1>1. Spec => [](IInv /\ OInv)
    BY InitIInv, StepIInv, InitOInv, StepOInv, PTL DEF Spec
  <1>2. OInv => SomebodyIsReminded
    BY DEF OInv
  <1> QED
    BY <1>1, <1>2, PTL
=============================================================================
