------------------------------- MODULE Workspace -------------------------------
(***************************************************************************)
(* Areas, their members and invitations, and the tasks in them             *)
(* (api/areas.py, api/area_members.py, api/tasks.py, api/account.py), as   *)
(* several requests use them at once.                                      *)
(*                                                                         *)
(* A request is two steps.  The first signs the user in, loads the roles   *)
(* and the rows and makes all checks; the second is the commit.  The       *)
(* database is PostgreSQL at READ COMMITTED: a commit writes the columns   *)
(* the request has changed (SQLAlchemy compares with what it has read)     *)
(* into whatever the row is by then, and fails on a row that is gone, a    *)
(* foreign key, a unique or a check constraint.  A commit that fails, or   *)
(* a request that is broken off, leaves nothing: Abort.                    *)
(*                                                                         *)
(* What an overlap can break in this code is said, not hidden: clash       *)
(* notes what two overlapping requests have both written, and a property   *)
(* that needs a check to be still true at the commit excepts exactly that. *)
(***************************************************************************)
EXTENDS Integers, FiniteSets

CONSTANTS
    Users, NoOne,
    Clients,                        \* how many requests are under way at once
    Kinds,                          \* the requests that are made
    Days, NoDate,
    NewTasks, Changes,              \* what POST and PATCH of tasks carry
    StartOwner, StartRole, StartTasks,
    AreaLimit, MemberLimit, InviteLimit,  \* MAX_AREAS, MAX_MEMBERS, MAX_INVITES
    MaxAreas, MaxTasks, MaxLinks, MaxOps  \* bounds

Areas == 1..MaxAreas
TaskIds == 1..MaxTasks
LinkIds == 1..MaxLinks

Roles == {"admin", "member", "viewer"}
Statuses == {"open", "done", "archived"}

(* A task.  A rule of recurrence is known by a number that stays with its  *)
(* series (0: none); what the rule says is in Recurrence.                  *)
Row == [area: Areas, due: Days \cup {NoDate}, time: BOOLEAN, status: Statuses,
        completed: BOOLEAN, rule: Int, assignee: Users \cup {NoOne}]
Fields == {"area", "due", "time", "status", "completed", "rule", "assignee"}
NoTask == [area |-> 0]
NoArea == 0
Link == [area: Areas, role: Roles, by: Users]
NoLink == [area |-> 0]
Idle == [kind |-> "idle"]

ASSUME WorkspaceAssumption ==
    /\ Users # {} /\ NoOne \notin Users /\ NoDate \notin Days
    /\ MaxAreas \in Nat /\ MaxTasks \in Nat /\ MaxLinks \in Nat /\ MaxOps \in Nat
    /\ AreaLimit \in Nat /\ MemberLimit \in Nat /\ InviteLimit \in Nat
    /\ NewTasks \subseteq [due: Days \cup {NoDate}, time: BOOLEAN, recurring: BOOLEAN,
                           assignee: Users \cup {NoOne}]
    /\ \A f \in NewTasks : f.time => f.due # NoDate
    /\ \A ch \in Changes :
          /\ DOMAIN ch \subseteq Fields \ {"completed"}
          /\ "area" \in DOMAIN ch => ch.area \in Areas
          /\ "due" \in DOMAIN ch => ch.due \in Days \cup {NoDate}
          /\ "time" \in DOMAIN ch => ch.time \in BOOLEAN
          /\ "status" \in DOMAIN ch => ch.status \in Statuses
          /\ "rule" \in DOMAIN ch => ch.rule \in BOOLEAN
          /\ "assignee" \in DOMAIN ch => ch.assignee \in Users \cup {NoOne}
    /\ StartOwner \in [Areas -> Users \cup {NoOne}]
    /\ \A u \in Users : \E a \in Areas : StartOwner[a] = u
    /\ \E n \in 0..MaxAreas : \A a \in Areas : StartOwner[a] # NoOne <=> a <= n
    /\ StartRole \in [Areas -> [Users -> Roles \cup {"none"}]]
    /\ \A a \in Areas, u \in Users :
          StartRole[a][u] # "none" => StartOwner[a] \notin {u, NoOne}
    /\ StartTasks \in [TaskIds -> Row \cup {NoTask}]
    /\ \E n \in 0..MaxTasks : \A t \in TaskIds : StartTasks[t] # NoTask <=> t <= n
    /\ \A t \in TaskIds : StartTasks[t] # NoTask =>
          /\ StartOwner[StartTasks[t].area] # NoOne
          /\ StartTasks[t].time => StartTasks[t].due # NoDate
          /\ StartTasks[t].completed <=> StartTasks[t].status = "done"
          /\ StartTasks[t].rule \in {0, -t}

VARIABLES
    users, admins,
    owner,              \* whose an area is; NoOne: it is not there
    role,               \* in areas shared with somebody
    link,               \* invitations
    task,
    areaCount, taskCount, linkCount,    \* ids given away
    req,                \* the request a client has under way
    clash,              \* history: what overlapping requests have both written
    joined,             \* history: how many have joined by a link
    begun, ended, torn, \* history: series, those that are over, and those that two
                        \* overlapping requests have both moved
    ops

peopleVars == <<users, admins>>
areaVars == <<owner, role, link, areaCount, linkCount>>
taskVars == <<task, taskCount>>
historyVars == <<joined, begun, ended, torn>>
vars == <<peopleVars, areaVars, taskVars, req, clash, historyVars, ops>>

There(t) == task[t] # NoTask
TasksIn(a) == {t \in TaskIds : There(t) /\ task[t].area = a}
Owned(u) == {a \in Areas : owner[a] = u}

(* policy.py *)
RoleOf(u, a) ==
    IF owner[a] = NoOne THEN "none" ELSE IF owner[a] = u THEN "owner" ELSE role[a][u]
Actions == {"view", "create", "edit", "delete", "manage"}
Permissions == [owner |-> Actions, admin |-> Actions, member |-> Actions \ {"manage"},
                viewer |-> {"view"}, none |-> {}]
May(u, action, a) == action \in Permissions[RoleOf(u, a)]

Visible(u) == {a \in Areas : May(u, "view", a)}
Writable(u) == {a \in Areas : May(u, "edit", a)}
Managed(u) == {a \in Areas : May(u, "manage", a)}

(* Without an area: the first one that is visible.  A quick entry names an *)
(* area; a name that fits none of the visible ones is passed over.         *)
DefaultArea(u) == {a \in Visible(u) : \A b \in Visible(u) : a <= b}
AreaForNewItem(u, a) == IF a = NoArea THEN DefaultArea(u) ELSE {a}
QuickArea(u, named, a) == IF named \in Visible(u) THEN {named} ELSE AreaForNewItem(u, a)

(* What is counted as started with: ids at the front are taken.            *)
Init ==
    /\ users = Users /\ admins = Users
    /\ owner = StartOwner /\ role = StartRole /\ link = [l \in LinkIds |-> NoLink]
    /\ areaCount = Cardinality({a \in Areas : StartOwner[a] # NoOne})
    /\ task = StartTasks
    /\ taskCount = Cardinality({t \in TaskIds : StartTasks[t] # NoTask})
    /\ linkCount = 0
    /\ req = [c \in Clients |-> Idle]
    /\ clash = {} /\ joined = [l \in LinkIds |-> 0]
    /\ begun = {StartTasks[t].rule : t \in {x \in TaskIds : StartTasks[x] # NoTask}}
    /\ ended = {} /\ torn = {}
    /\ ops = 0

-----------------------------------------------------------------------------
(***************************************************************************)
(* The two steps of a request.                                             *)
(***************************************************************************)
(* It has passed its checks and knows what it will write.                  *)
Start(c, kind, u, what, read, arg) ==
    /\ kind \in Kinds /\ req[c] = Idle /\ u \in users /\ ops < MaxOps
    /\ ops' = ops + 1
    /\ req' = [req EXCEPT ![c] = [kind |-> kind, by |-> u, what |-> what, read |-> read,
                                  arg |-> arg, missed |-> {}]]
    /\ UNCHANGED <<peopleVars, areaVars, taskVars, clash, historyVars>>

(* It has written things; the others under way have not seen that.         *)
Finish(c, things) ==
    /\ req' = [d \in Clients |-> IF d = c THEN Idle ELSE
                  IF req[d] = Idle THEN Idle
                  ELSE [req[d] EXCEPT !.missed = @ \cup things]]
    /\ clash' = clash \cup (req[c].missed \cap things)
    /\ UNCHANGED ops

Under(c, kinds) == req[c].kind \in kinds

Abort(c) ==
    /\ req[c] # Idle /\ req' = [req EXCEPT ![c] = Idle]
    /\ UNCHANGED <<peopleVars, areaVars, taskVars, clash, historyVars, ops>>

-----------------------------------------------------------------------------
(***************************************************************************)
(* Tasks.                                                                  *)
(***************************************************************************)
MayTakeOn(v, a) == v = NoOne \/ (v \in users /\ a \in Writable(v))

NewTask(c, u, areas, f) ==
    \E a \in areas :
        /\ May(u, "create", a) /\ MayTakeOn(f.assignee, a)
        /\ Start(c, "create", u, a, NoTask,
                 [area |-> a, due |-> f.due, time |-> f.time, status |-> "open",
                  completed |-> FALSE, rule |-> IF f.recurring THEN ops + 1 ELSE 0,
                  assignee |-> f.assignee])

(* POST /tasks and /tasks/quick; nobody is responsible for a quick entry.  *)
CreateTask(c, u, a, f) == NewTask(c, u, AreaForNewItem(u, a), f)

QuickAdd(c, u, named, f) ==
    f.assignee = NoOne /\ \E a \in Areas \cup {NoArea} : NewTask(c, u, QuickArea(u, named, a), f)

(* Mutant: no foreign key. *)
CommitCreateAnywhere(c) ==
    /\ Under(c, {"create"}) /\ taskCount < MaxTasks
    /\ taskCount' = taskCount + 1
    /\ task' = [task EXCEPT ![taskCount + 1] = req[c].arg]
    /\ begun' = begun \cup {req[c].arg.rule}
    /\ Finish(c, {<<"in", taskCount + 1>>})
    /\ UNCHANGED <<peopleVars, areaVars, joined, ended, torn>>

CommitCreate(c) ==
    /\ Under(c, {"create"}) /\ taskCount < MaxTasks
    /\ req[c].by \in users /\ owner[req[c].what] # NoOne
    /\ req[c].arg.assignee \in users \cup {NoOne}
    /\ taskCount' = taskCount + 1
    /\ task' = [task EXCEPT ![taskCount + 1] = req[c].arg]
    /\ begun' = begun \cup {req[c].arg.rule}
    /\ Finish(c, {<<"in", taskCount + 1>>})
    /\ UNCHANGED <<peopleVars, areaVars, joined, ended, torn>>

(* The row as the PATCH leaves it in the session.  Who cannot work in the  *)
(* new area is not responsible any more.  A rule starts a new series.      *)
Patched(row, ch, series) ==
    LET Get(f) == IF f \in DOMAIN ch THEN ch[f] ELSE row[f]
        area == Get("area")
        status == Get("status")
    IN  [area |-> area, due |-> Get("due"), time |-> Get("time"), status |-> status,
         completed |-> IF status = row.status THEN row.completed ELSE status = "done",
         rule |-> IF "rule" \notin DOMAIN ch THEN row.rule
                  ELSE IF ch.rule THEN series ELSE 0,
         assignee |-> IF /\ "assignee" \notin DOMAIN ch /\ "area" \in DOMAIN ch
                         /\ ~MayTakeOn(row.assignee, area)
                      THEN NoOne ELSE Get("assignee")]

PatchTask(c, u, t, ch) ==
    LET row == task[t]  new == Patched(row, ch, ops + 1) IN
    /\ There(t) /\ row.area \in Writable(u)
    /\ new.area # row.area => new.area \in Writable(u)
    /\ "assignee" \in DOMAIN ch => MayTakeOn(ch.assignee, new.area)
    /\ new.time => new.due # NoDate
    /\ Start(c, "patch", u, t, row, [row |-> new, next |-> NoDate])

(* Mutant: a task that is done already is completed again. *)
CompleteTaskAgain(c, u, t) ==
    LET row == task[t] IN
    /\ There(t) /\ row.area \in Writable(u)
    /\ \E next \in IF row.rule = 0 THEN {NoDate} ELSE Days \cup {NoDate} :
          Start(c, "complete", u, t, row,
                [row |-> [row EXCEPT !.status = "done", !.completed = TRUE],
                 next |-> next])

(* The next date comes from the rule (Recurrence); NoDate: it is over.     *)
CompleteTask(c, u, t) ==
    LET row == task[t] IN
    /\ There(t) /\ row.area \in Writable(u) /\ row.status # "done"
    /\ \E next \in IF row.rule = 0 THEN {NoDate} ELSE Days \cup {NoDate} :
          Start(c, "complete", u, t, row,
                [row |-> [row EXCEPT !.status = "done", !.completed = TRUE, !.rule = 0],
                 next |-> next])

(* Mutant: the time of completion stays. *)
ReopenKeepsTime(c, u, t) ==
    LET row == task[t] IN
    /\ There(t) /\ row.area \in Writable(u)
    /\ Start(c, "reopen", u, t, row, [row |-> [row EXCEPT !.status = "open"], next |-> NoDate])

ReopenTask(c, u, t) ==
    LET row == task[t] IN
    /\ There(t) /\ row.area \in Writable(u)
    /\ Start(c, "reopen", u, t, row,
             [row |-> [row EXCEPT !.status = "open", !.completed = FALSE], next |-> NoDate])

(* The columns that go into the UPDATE.  A new time of completion differs  *)
(* from every earlier one.                                                 *)
Written(q) ==
    {f \in Fields : q.arg.row[f] # q.read[f]} \cup
    IF q.arg.row.status = "done" /\ q.read.status # "done" THEN {"completed"} ELSE {}

Merged(q) ==
    [f \in Fields |-> IF f \in Written(q) THEN q.arg.row[f] ELSE task[q.what][f]]

(* models/task.py: time_needs_date *)
Checks(row) == row.time => row.due # NoDate

Follower(q) ==
    [q.read EXCEPT !.due = q.arg.next, !.status = "open", !.completed = FALSE,
                   !.assignee = NoOne]

(* Columns that belong together are one thing; so is being put in an area. *)
Touches(q) ==
    {<<"in", q.what>> : f \in Written(q) \cap {"area"}} \cup
    {<<"progress", q.what>> : f \in Written(q) \cap {"status", "completed"}} \cup
    {<<"rule", q.what>> : f \in Written(q) \cap {"rule"}}

CommitWrite(c) ==
    LET q == req[c]  row == Merged(q)  follows == q.arg.next # NoDate IN
    /\ Under(c, {"patch", "complete", "reopen"})
    /\ Written(q) # {} /\ There(q.what)
    /\ Checks(row)
    /\ "area" \in Written(q) => owner[row.area] # NoOne
    /\ "assignee" \in Written(q) => row.assignee \in users \cup {NoOne}
    /\ follows => taskCount < MaxTasks /\ q.by \in users /\ owner[q.read.area] # NoOne
    /\ taskCount' = IF follows THEN taskCount + 1 ELSE taskCount
    /\ task' = [t \in TaskIds |->
                   IF t = q.what THEN row
                   ELSE IF follows /\ t = taskCount + 1 THEN Follower(q) ELSE task[t]]
    /\ IF "rule" \notin Written(q) THEN UNCHANGED <<begun, ended, torn>> ELSE
          LET series == {task[q.what].rule, q.read.rule} IN
          /\ begun' = begun \cup {row.rule}
          /\ ended' = IF follows THEN ended ELSE ended \cup series
          /\ torn' = IF <<"rule", q.what>> \in q.missed THEN torn \cup series ELSE torn
    /\ Finish(c, Touches(q) \cup IF follows THEN {<<"in", taskCount + 1>>} ELSE {})
    /\ UNCHANGED <<peopleVars, areaVars, joined>>

DeleteTask(c, u, t) ==
    /\ There(t) /\ task[t].area \in Writable(u)
    /\ Start(c, "delete", u, t, task[t], NoTask)

(* A row that is gone by now is only warned of.                            *)
CommitDelete(c) ==
    LET t == req[c].what IN
    /\ Under(c, {"delete"})
    /\ task' = [task EXCEPT ![t] = NoTask]
    /\ ended' = IF There(t) THEN ended \cup {task[t].rule} ELSE ended
    /\ Finish(c, {})
    /\ UNCHANGED <<peopleVars, areaVars, taskCount, joined, begun, torn>>

-----------------------------------------------------------------------------
(***************************************************************************)
(* Areas.                                                                  *)
(***************************************************************************)
CreateArea(c, u) ==
    /\ Cardinality(Owned(u)) < AreaLimit
    /\ Start(c, "area", u, 0, {}, 0)

CommitArea(c) ==
    /\ Under(c, {"area"}) /\ req[c].by \in users /\ areaCount < MaxAreas
    /\ areaCount' = areaCount + 1
    /\ owner' = [owner EXCEPT ![areaCount + 1] = req[c].by]
    /\ Finish(c, {})
    /\ UNCHANGED <<peopleVars, role, link, linkCount, taskVars, historyVars>>

(* Mutant: only the open tasks count. *)
DeleteAreaWithDone(c, u, a, to) ==
    LET tasks == {t \in TasksIn(a) : task[t].status = "open"} IN
    /\ a \in Managed(u) /\ owner[a] = u
    /\ Owned(u) \ {a} # {}
    /\ tasks # {} => to \in Writable(u) \ {a}
    /\ Start(c, "drop", u, a, tasks, to)

(* Mutant: any other area that is left will do. *)
DeleteAnyArea(c, u, a, to) ==
    /\ a \in Managed(u) /\ owner[a] = u
    /\ Visible(u) \ {a} # {}
    /\ TasksIn(a) # {} => to \in Writable(u) \ {a}
    /\ Start(c, "drop", u, a, TasksIn(a), to)

(* DELETE /areas/a?move_to=to, by the owner.                               *)
DeleteArea(c, u, a, to) ==
    /\ a \in Managed(u) /\ owner[a] = u
    /\ Owned(u) \ {a} # {}
    /\ TasksIn(a) # {} => to \in Writable(u) \ {a}
    /\ Start(c, "drop", u, a, TasksIn(a), to)

(* Areas go with their members, invitations and tasks.                     *)
Drop(areas, moved) ==
    /\ owner' = [a \in Areas |-> IF a \in areas THEN NoOne ELSE owner[a]]
    /\ role' = [a \in Areas |-> IF a \in areas THEN [u \in Users |-> "none"] ELSE role[a]]
    /\ link' = [l \in LinkIds |-> IF link[l].area \in areas THEN NoLink ELSE link[l]]
    /\ task' = [t \in TaskIds |-> IF moved[t].area \in areas THEN NoTask ELSE moved[t]]
    /\ ended' = ended \cup {task[t].rule : t \in {x \in TaskIds :
                                 There(x) /\ moved[x].area \in areas}}

(* One UPDATE moves what is in the area by now, if there was anything when *)
(* it was counted.                                                         *)
CommitDrop(c) ==
    LET q == req[c]  a == q.what
        moving == IF q.read = {} THEN {} ELSE TasksIn(a) IN
    /\ Under(c, {"drop"})
    /\ moving # {} => owner[q.arg] # NoOne
    /\ Drop({a}, [t \in TaskIds |->
                     IF t \in moving THEN [task[t] EXCEPT !.area = q.arg] ELSE task[t]])
    /\ Finish(c, {<<"in", t>> : t \in moving} \cup
                 IF owner[a] = NoOne THEN {} ELSE {<<"areas", owner[a]>>})
    /\ UNCHANGED <<peopleVars, areaCount, linkCount, taskCount, joined, begun, torn>>

-----------------------------------------------------------------------------
(***************************************************************************)
(* Members and invitations.                                                *)
(***************************************************************************)
LinksTo(a) == {l \in LinkIds : link[l].area = a}
Members(a) == {u \in Users : role[a][u] # "none"}

CreateInvite(c, u, a, r) ==
    /\ a \in Managed(u) /\ Cardinality(LinksTo(a)) < InviteLimit
    /\ Start(c, "invite", u, a, {}, r)

CommitInvite(c) ==
    LET q == req[c] IN
    /\ Under(c, {"invite"}) /\ linkCount < MaxLinks
    /\ owner[q.what] # NoOne /\ q.by \in users
    /\ linkCount' = linkCount + 1
    /\ link' = [link EXCEPT ![linkCount + 1] = [area |-> q.what, role |-> q.arg, by |-> q.by]]
    /\ Finish(c, {})
    /\ UNCHANGED <<peopleVars, owner, role, areaCount, taskVars, historyVars>>

RevokeInvite(c, u, l) ==
    /\ link[l] # NoLink /\ link[l].area \in Managed(u)
    /\ Start(c, "revoke", u, l, {}, 0)

CommitRevoke(c) ==
    /\ Under(c, {"revoke"})
    /\ link' = [link EXCEPT ![req[c].what] = NoLink]
    /\ Finish(c, {})
    /\ UNCHANGED <<peopleVars, owner, role, areaCount, linkCount, taskVars, historyVars>>

(* INVITE_DAYS are over.                                                   *)
Expire(l) ==
    /\ link[l] # NoLink /\ link' = [link EXCEPT ![l] = NoLink]
    /\ UNCHANGED <<peopleVars, owner, role, areaCount, linkCount, taskVars, req, clash,
                   historyVars, ops>>

AcceptInvite(c, u, l) ==
    LET a == link[l].area IN
    /\ link[l] # NoLink /\ owner[a] # u
    /\ u \in Members(a) \/ Cardinality(Members(a)) < MemberLimit
    /\ Start(c, "accept", u, l, link[l], u \in Members(a))

(* Mutant: the link stays. *)
CommitAcceptKeeps(c) ==
    LET q == req[c]  a == q.read.area IN
    /\ Under(c, {"accept"})
    /\ ~q.arg => owner[a] # NoOne /\ q.by \in users /\ role[a][q.by] = "none"
    /\ role' = IF q.arg THEN role ELSE [role EXCEPT ![a][q.by] = q.read.role]
    /\ joined' = IF q.arg THEN joined ELSE [joined EXCEPT ![q.what] = @ + 1]
    /\ Finish(c, {<<"link", q.what>>})
    /\ UNCHANGED <<peopleVars, owner, link, areaCount, linkCount, taskVars, begun, ended, torn>>

(* Whoever is a member already uses the link up as well.                   *)
CommitAccept(c) ==
    LET q == req[c]  a == q.read.area IN
    /\ Under(c, {"accept"})
    /\ ~q.arg => owner[a] # NoOne /\ q.by \in users /\ role[a][q.by] = "none"
    /\ role' = IF q.arg THEN role ELSE [role EXCEPT ![a][q.by] = q.read.role]
    /\ link' = [link EXCEPT ![q.what] = NoLink]
    /\ joined' = IF q.arg THEN joined ELSE [joined EXCEPT ![q.what] = @ + 1]
    /\ Finish(c, {<<"link", q.what>>})
    /\ UNCHANGED <<peopleVars, owner, areaCount, linkCount, taskVars, begun, ended, torn>>

ChangeRole(c, u, a, v, r) ==
    /\ a \in Managed(u) /\ v \in Members(a) /\ r # role[a][v]
    /\ Start(c, "role", u, <<a, v>>, {}, r)

(* Others are removed by who manages the area; one can always leave.       *)
RemoveMember(c, u, a, v) ==
    /\ v \in Members(a) /\ (v = u \/ a \in Managed(u))
    /\ Start(c, "role", u, <<a, v>>, {}, "none")

(* A role is written into a row that is there; removing may find none.     *)
CommitRole(c) ==
    LET q == req[c]  a == q.what[1]  v == q.what[2] IN
    /\ Under(c, {"role"}) /\ (q.arg # "none" => role[a][v] # "none")
    /\ role' = [role EXCEPT ![a][v] = q.arg]
    /\ Finish(c, {})
    /\ UNCHANGED <<peopleVars, owner, link, areaCount, linkCount, taskVars, historyVars>>

-----------------------------------------------------------------------------
(***************************************************************************)
(* Accounts.                                                               *)
(***************************************************************************)
(* Mutant: the administrator counts as one of the others. *)
DeleteLastAdmin(c, u) ==
    /\ u \in admins => admins # {}
    /\ Start(c, "account", u, 0, {}, 0)

DeleteAccount(c, u) ==
    /\ u \in admins => admins \ {u} # {}
    /\ Start(c, "account", u, 0, {}, 0)

(* All that belongs to the account goes; tasks of others lose the name.    *)
CommitAccount(c) ==
    LET u == req[c].by  areas == Owned(u) IN
    /\ Under(c, {"account"})
    /\ users' = users \ {u} /\ admins' = admins \ {u}
    /\ owner' = [a \in Areas |-> IF a \in areas THEN NoOne ELSE owner[a]]
    /\ role' = [a \in Areas |-> [v \in Users |->
                   IF v = u \/ a \in areas THEN "none" ELSE role[a][v]]]
    /\ link' = [l \in LinkIds |->
                   IF link[l] # NoLink /\ (link[l].by = u \/ link[l].area \in areas)
                   THEN NoLink ELSE link[l]]
    /\ task' = [t \in TaskIds |->
                   IF ~There(t) \/ task[t].area \in areas THEN NoTask
                   ELSE [task[t] EXCEPT !.assignee = IF @ = u THEN NoOne ELSE @]]
    /\ ended' = ended \cup {task[t].rule : t \in {x \in TaskIds :
                                 There(x) /\ task[x].area \in areas}}
    /\ Finish(c, IF u \in admins THEN {<<"admins">>} ELSE {})
    /\ UNCHANGED <<areaCount, linkCount, taskCount, joined, begun, torn>>

-----------------------------------------------------------------------------
StartTask(c, u) ==
    \/ \E a \in Areas \cup {NoArea}, f \in NewTasks :
          CreateTask(c, u, a, f) \/ QuickAdd(c, u, a, f)
    \/ \E t \in TaskIds :
          \/ \E ch \in Changes : PatchTask(c, u, t, ch)
          \/ CompleteTask(c, u, t)
          \/ ReopenTask(c, u, t)
          \/ DeleteTask(c, u, t)

StartSharing(c, u) ==
    \/ CreateArea(c, u)
    \/ \E a, to \in Areas : DeleteArea(c, u, a, to)
    \/ \E a \in Areas, r \in Roles : CreateInvite(c, u, a, r)
    \/ \E l \in LinkIds : RevokeInvite(c, u, l) \/ AcceptInvite(c, u, l)
    \/ \E a \in Areas, v \in Users :
          RemoveMember(c, u, a, v) \/ \E r \in Roles : ChangeRole(c, u, a, v, r)
    \/ DeleteAccount(c, u)

CommitAny(c) ==
    \/ CommitCreate(c) \/ CommitWrite(c) \/ CommitDelete(c)
    \/ CommitArea(c) \/ CommitDrop(c)
    \/ CommitInvite(c) \/ CommitRevoke(c) \/ CommitAccept(c) \/ CommitRole(c)
    \/ CommitAccount(c)

Next ==
    \/ \E c \in Clients :
          \/ /\ req[c] = Idle /\ ops < MaxOps
             /\ \E u \in users : StartTask(c, u) \/ StartSharing(c, u)
          \/ CommitAny(c)
          \/ Abort(c)
    \/ \E l \in LinkIds : Expire(l)

Spec == Init /\ [][Next]_vars

-----------------------------------------------------------------------------
(***************************************************************************)
(* Properties.                                                             *)
(***************************************************************************)

(* Every variable keeps its shape, and every task is in an area that is    *)
(* there; an owner is never a member of his own area.                      *)
TypeOK ==
    /\ users \subseteq Users /\ admins \subseteq users
    /\ owner \in [Areas -> users \cup {NoOne}]
    /\ role \in [Areas -> [Users -> Roles \cup {"none"}]]
    /\ \A a \in Areas, u \in Users : role[a][u] # "none" => owner[a] \notin {u, NoOne}
    /\ link \in [LinkIds -> Link \cup {NoLink}]
    /\ \A l \in LinkIds : link[l] # NoLink => owner[link[l].area] # NoOne
    /\ task \in [TaskIds -> Row \cup {NoTask}]
    /\ \A t \in TaskIds : There(t) => /\ owner[task[t].area] # NoOne
                                     /\ task[t].assignee \in users \cup {NoOne}
    /\ areaCount \in 0..MaxAreas /\ taskCount \in 0..MaxTasks /\ linkCount \in 0..MaxLinks
    /\ joined \in [LinkIds -> Nat] /\ ops \in 0..MaxOps

(* A task is done exactly when it has a time of completion, unless two     *)
(* overlapping requests have both written its progress.                    *)
CompletionIsConsistent ==
    \A t \in TaskIds : There(t) /\ <<"progress", t>> \notin clash =>
        (task[t].completed <=> task[t].status = "done")

(* "Die Wiederholung wandert zur naechsten Aufgabe - so entsteht nie ein   *)
(* Duplikat": a series that nobody has ended is carried on by exactly one  *)
(* task, unless two overlapping requests have both written its rule.       *)
Carriers(s) == {t \in TaskIds : There(t) /\ task[t].rule = s}
SeriesGoesOn ==
    \A s \in begun \ (ended \cup torn \cup {0}) : Cardinality(Carriers(s)) = 1

(* The same without the exception, as the comment in tasks.py has it.      *)
NeverTwoFollowers == \A s \in begun \ {0} : Cardinality(Carriers(s)) <= 1

(* A task goes only because somebody deletes it, or the account its area   *)
(* belongs to, or because it was put into an area while that was being     *)
(* deleted: deleting an area takes no task along that it could have seen.  *)
NoTaskIsLost ==
    [][\A t \in TaskIds : There(t) /\ task'[t] = NoTask =>
          \E c \in Clients : /\ req[c] # Idle /\ req'[c] = Idle
                             /\ \/ req[c].kind = "delete" /\ req[c].what = t
                                \/ req[c].kind = "account" /\ owner[task[t].area] = req[c].by
                                \/ /\ req[c].kind = "drop" /\ task[t].area = req[c].what
                                   /\ <<"in", t>> \in req[c].missed]_vars

(* "jeder Link gilt genau einmal", unless two have opened it at once.      *)
LinkWorksOnce == \A l \in LinkIds : joined[l] <= 1 \/ <<"link", l>> \in clash

(* The same without the exception.                                         *)
LinkWorksOnceEver == \A l \in LinkIds : joined[l] <= 1

(* "Der letzte Bereich kann nicht geloescht werden": every account keeps an *)
(* area of its own, unless two of its areas are deleted at once.           *)
EveryoneKeepsAnArea == \A u \in users : Owned(u) # {} \/ <<"areas", u>> \in clash

(* "Das letzte Admin-Konto kann nicht geloescht werden", unless two of     *)
(* them are deleted at once.                                               *)
SomebodyIsAdmin == admins # {} \/ <<"admins">> \in clash

(* Who is responsible for a task may write in its area.                    *)
AssigneeMayWrite ==
    \A t \in TaskIds : There(t) => MayTakeOn(task[t].assignee, task[t].area)
=============================================================================
