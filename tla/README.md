# ToDoch: specifications

ToDoch is a self-hosted organiser: tasks, calendars and mail in areas that can
be shared. A FastAPI server (`src/backend/app/api`) answers the web app, an ARQ
worker (`src/backend/app/worker.py`) runs the periodic jobs, PostgreSQL keeps
the state, Redis the sessions' limits and the job queue. The server and the
worker share nothing but the database (READ COMMITTED) and Redis; both keep
their ORM session open across the awaits of HTTP requests. That is where the
difficult behaviour of this program is, and what these modules are about.

Paths below are relative to `src/backend/app/` unless they say otherwise.

## 1. Inventory

| Component | State | Operations | Hard part | Module |
|---|---|---|---|---|
| Two-way calendar sync: `services/calendar_sync.py`, `api/calendar_sync.py`, `models/calendar_connection.py` | connection with sync token; per event `connection_id`, `remote_id`, `remote_hash`; tombstones | pull, push, connect, disconnect, sync now | two replicas edited independently; requests in the middle of a transaction; crash, refusal, lost answer; two syncs at once | `CalendarSync`, `Consent` |
| CalDAV client: `services/caldav.py` | none of its own | discovery, list, put, delete, iCalendar in and out | conversions that do not come back as they went | `CalendarFields` |
| Events and series: `api/events.py`, `services/events.py`, `services/event_recurrence.py` | events, changed and cancelled occurrences, rules | create, edit and delete with scope this / following / all, expand | split and truncate a series with its exceptions | `EventSeries`, `Agenda` |
| Tasks: `api/tasks.py` | tasks | create, edit, complete (adds a follower), reopen, delete | two requests complete the same recurring task | `Workspace` |
| Areas and sharing: `api/areas.py`, `api/area_members.py`, `policy.py` | areas, members, invitations | create, delete, invite, revoke, accept, change role, remove, leave | an invitation counts once; the last area stays; tasks move out of an area that goes | `Workspace` |
| Account: `api/account.py` | users | export, delete | the last administrator stays | `Workspace` |
| Reminders and push: `services/reminders.py`, `services/push.py` | reminder log, devices and their failures | send what is due, push, drop dead devices, clean up | at most once over restarts; devices that come and go | `Reminders` |
| Mail: `services/mail.py`, `api/mail.py` | accounts with UIDVALIDITY and last UID, stored messages | fetch, apply, trim, make a task or event | a fetch result applied to a state that has moved on | `Mail` |
| Mail rules and suggestions: `services/mail_rules.py`, `services/mail_suggestions.py` | rules, suggestions | run rules, accept, dismiss | once per message | `Mail` |
| Consent: `services/mail_oauth.py`, `api/mail_oauth.py` | states in Redis, refresh tokens | start, come back, connect, trade the token | tokens that are replaced while another sync or a new consent is under way | `Consent` |
| Sessions and limits: `security/sessions.py`, `security/ratelimit.py` | sessions, counters in Redis | begin, touch, end, count | increment and expiry are two steps | `SignIn`, `SessionLife` |
| Sign-in: `api/auth.py`, `api/totp.py`, `api/passkeys.py`, `cli.py` | password, authenticator app, recovery codes, passkeys | sign in, set up, change, remove | a factor checked in one step and used up in another | `SignIn` |
| Subscribed calendars: `services/external_calendars.py`, `api/calendars.py` | subscriptions with ETag, their events | download, replace, edit | downloads that overtake each other and edits | `Subscriptions` |
| Worker: `worker.py` | none of its own | cron jobs with time limits | rows read when a round begins | in each of them |
| Feeds, ICS export, contacts, comments, audit log, quick add, encryption, configuration, frontend, deployment | - | - | pure functions, single transactions or glue | not modelled |

How they interact: the API and the worker write the same event rows; deleting
an event through the ORM fires a listener that writes a tombstone for the sync
(`models/calendar_connection.py:68`); deleting an area deletes its events in
the database, past that listener; reminders read the events of every area a
user can see; mail creates tasks and events; tasks hang on events and mails. A
refresh token is read, traded and stored by mail and by calendars in the same
way, so `Consent` has both and `CalendarSync` and `Mail` leave it out.

What makes each component correct, and which hazard stands against it, is
listed under `hazards` in `PROJECT.json` with the line where it bites.

## 2. Plan

The order is by what a mistake costs (data of the user lost or doubled) and by
how little a unit test reaches of it.

| | Module | State |
|---|---|---|
| 1 | `CalendarSync` with `CalendarFields` | modelled, all its safety properties proved |
| 2 | `Reminders` | modelled, all its properties proved |
| 3 | `Workspace`: tasks, areas, members, accounts | modelled, all its properties proved |
| 4 | `Mail`: fetching, rules, suggestions | modelled, all its safety properties proved |
| 5 | `SignIn`, refining `SessionLife` | modelled, all its properties proved |
| 6 | `Subscriptions` | modelled, all its safety properties proved |
| 7 | `EventSeries`, refining `Agenda` | modelled, all its properties proved |
| 8 | `Consent` | modelled, all its safety properties proved |

Runs are kept few: every component gets one or two, each with several
properties, instead of one per property.

### How the modules are alike

The server and the worker work on PostgreSQL at READ COMMITTED through
SQLAlchemy. So a request is two steps or more: one that reads and checks, one
that commits, and between them whatever it awaits (a provider, a download, the
hash of a password). A commit writes the columns that differ from what was
*read*, into the row as it is *then* (`Written`, `Merged`, `Updated`), which is
neither "last writer wins" nor "first writer wins". Where the code holds a row
lock across an await, the module says which and others wait for it.

Several checks of this program (the last area, the last administrator, one task
per mail, one follower per task) are made in the first step and not repeated in
the second. Two requests that overlap can then break them. Properties about
them except exactly that, by a history variable (`clash`, `torn`, `mixed`,
`strayed`, `spoilt`, ...) that notes that the *same thing* was written by two
overlapping requests, and say everything about all other behaviours, however
many requests overlap on other things. Section 11 says what happens in the
exceptions; where the code contradicts its own comment a run shows it.

## 3. The two-way calendar sync

### Modules

- `CalendarFields` - what an event says and the conversions of the three
  providers: `to_google`, `to_graph`, `event_ics` and back, the fingerprint,
  the 90-day line. Text fields and times are one field `text`; the fields a
  conversion can change (rule, exceptions, status, transparency, zone) are kept.
  A rule is one of `none`, `dated` (it says all that a pattern of Outlook says:
  `FREQ=WEEKLY;BYDAY=MO`), `short` (it leaves something to the start, as the
  `FREQ=WEEKLY` of the web app does, or has an `UNTIL` with a time; Outlook
  returns it as `dated`), `odd` (Outlook has no pattern for it:
  `graph_recurrence` returns `None`), and at the provider `foreign`
  (`normalize_event_rule` refuses it). `padded` says that the description
  begins or ends with white space, which Outlook and CalDAV do not give back.
  `Expressible` are the contents that come back as they went
  (`WhatFitsComesBack` proves that it is exactly these).
- `CalendarSync` - the connection, event rows, tombstones, the provider's
  calendar and the syncs.
- `MCCalendarSync` - contents for the small instances, and symmetry.
- `CalendarSyncProofs` - the theorems.

### State and code

| Variables | Code |
|---|---|
| `provider`, `connected`, `token` | row of `calendar_connections`; `sync_token` only as present or absent |
| `rows`, `ev` | event rows with `area_id`, contents, `remote_id`, `remote_hash` (`connection_id` is set exactly when `remote_id` is) |
| `stones` | `calendar_tombstones` |
| `issued`, `live`, `item`, `gaps` | external: ids given out, the items, occurrences cancelled on their own |
| `since` | external: what the stored token does not cover yet |
| `at`, `list`, `late` | the syncs: idle, listed, working; the `Changes` they fetched; what happened at the provider since |
| `phase`, `todo`, `pushed`, `draft`, `locked`, `born`, `doomed`, `sent`, `erased` | the transaction that holds the connection's row: where it is, the identity map of its ORM session, what it has flushed, inserted, deleted, and what is still dirty |
| `deleting` | `DELETE` requests that have read the row and its link and not yet deleted it |
| `orphans` | history: copies at the provider of which the code is known to lose track |
| `unsettled` | history: items that may come back with another fingerprint than the row has |

### Actions and code

| Action | Code |
|---|---|
| `CreateEvent`, `EditEvent`, `MoveEvent`, `DeleteOccurrence`, `DeleteEvent` | `api/events.py`: one committed request each |
| `BeginDelete`, `FinishDelete` | the same `DELETE` when it is slow, or waits for a sync that has written the row: the link is the one it has read (`Delete` with the listener `_remember_deletion`) |
| `DeleteArea` | `api/areas.py:108` with `ON DELETE CASCADE` |
| `Disconnect`, `Connect` | `api/calendar_sync.py` |
| `ProviderAdds/Edits/Deletes/Cancels` | people at the provider |
| `List`, `ListAfterGone` | `api.changes()` and the 410 branch |
| `Pull` | the rest of `_pull`, its flush and the read of the tombstones |
| `DeleteStone`, `SelectMoved`, `DropMoved`, `SelectCandidates`, `PushEvent` | `_push`, one request to the provider per step |
| `Commit`, `FlushFails`, `Refuse`, `LoseAnswer`, `Crash` | how `sync_connection` ends |

Isolation. `sync_connection` sets `conn.last_synced_at` before anything else and
the first flush after the listing writes it, so a sync holds the lock on the
connection's row from there to its commit. Two syncs therefore list at the same
time and then work one after the other (`phase = "none"` guards `Pull`). Rows a
transaction has flushed cannot be written by others (`locked`); rows it only
holds in memory can, and its commit then writes just the columns it changed
(`Committed`). An `UPDATE` that finds no row makes the flush fail; of several
rows in one batch the driver may not notice (`FlushMayPass`).

### Abstractions

- The fingerprint is the contents themselves: SHA-256 taken as injective.
- The token a worker holds may be older than the one in the database when
  another sync commits in between; the list then only reports more. The model
  lists with the stored one.
- `Pull` is one step: between the listing and its flush it makes no request, and
  reads and writes within one short transaction.
- The 90-day line does not move during a behaviour.
- A failed listing changes nothing but `last_error`, so it is no action.
- Not modelled: pausing a connection, several connections of one user, overrides
  of single occurrences (never candidates), events of subscribed calendars, the
  event count. Refresh tokens are in `Consent`.
- Connecting again means the same calendar, and the first sync of a connection
  is a sync like the others; in the code it runs in the request that connects.
- An event row's id is used again after its deletion; that is only a matter of
  the size of the instance.

### Properties

| Property | Says |
|---|---|
| `TypeOK` | shapes; each phase loops over what it is for; no sync sends more than `MAX_PUSH` |
| `LinksAreInjective` | two rows never share an item (the unique constraint never stops a sync) |
| `NoDifferenceIsForgotten` | a linked row differs from its item only while one side still has it to tell: the fingerprint differs or the next list will report the item |
| `NoCopyIsLeftBehind` | every copy ToDoch put into the calendar has a row, a tombstone, or a place in the running transaction, or is one of `orphans`: of an event whose deletion began before its link was stored, of an area deleted with its events, of a disconnected calendar, of an insert whose answer is lost or whose transaction is rolled back |
| `OwnEchoIsNeverTaken` | a pull never overwrites a row with contents ToDoch itself sent, unless the item is `unsettled` (it was sent with contents that are not `Expressible`, its answer was lost or rolled back, or two syncs overlapped) or reported together with a cancelled occurrence |
| `OnlyDeletedIsForgotten` | a pull deletes a row only when its item is gone (one sync at a time, or a provider whose lists name what is gone) |
| `Converges` | once people and faults stop, both calendars agree for good |

They do not all hold in all circumstances; `Environment` names the circumstances
a run allows, and the runs say where each property holds and where it does not.

### Runs

| Run | Instance | Shows |
|---|---|---|
| `calendar_edits` | Google, CalDAV and Outlook; series with a rule that comes back and one that does not; one event per sync; 2 edits on each side; slow `DELETE`s, cancelled occurrences, an expired token, a deleted area (211 635 states) | `TypeOK`, `LinksAreInjective`, `NoCopyIsLeftBehind`, `OwnEchoIsNeverTaken`, `OnlyDeletedIsForgotten` |
| `calendars_converge` | Google and CalDAV, one edit on each side, one of: refusal, lost answer, crash, disconnecting, a row deleted during the push (353 852 states) | `NoDifferenceIsForgotten`, `NoCopyIsLeftBehind`, `Converges` |
| `expired_token` | Google, one event, a 410 | `NoDifferenceIsForgotten` fails, see section 11 |

Bounds. `MaxUserOps`, `MaxProviderOps` and `MaxFaults` (which counts disconnecting
and expired tokens, too) bound what people and faults do, never what the syncs
do: they run as often as they like. Two edits on each side are enough for an
edit, its echo and a second edit during the echo, and for both sides changing
the same event; one fault can fall into any phase. `MaxPush` is 1 in
`calendar_edits`, so a second event has to wait for the next sync, and 2
elsewhere (the code's is larger; the properties do not depend on it). `Events`
and `Remotes` are as large as the other bounds need: deadlock is checked in
every run of this module and would show an exhausted pool. `SYMMETRY` is used in
the safety runs only; ids are compared, never ordered. Both passing runs have
one sync at a time. Two that overlap are covered by the theorems, which hold for
any number (`LinksStayInjective`, `OwnEchoStaysOut`, and for Google
`NoCopyIsLeft` and `ForgetsOnlyDeleted`).

Fairness. `FairSpec` is weak fairness of the steps of any sync: the cron job
starts a sync every five minutes, whatever happened to the last one
(`worker.py`, `sync_online_calendars`). Nothing is assumed of people, of "sync
now", of connecting again, or of any fault.

## 4. Reminders

Every minute the worker looks up what has fallen due within the last ten
minutes (`LOOKBACK`), notes each reminder in a log, commits, and pushes it to the
person's devices one after the other. The log is what keeps a reminder from
going out again; the window is what brings back the ones a stopped job left.

| Variables | Code |
|---|---|
| `now`, `ran` | the minute the cron job runs in, and whether it has run in it |
| `event` | event rows: the starts of their occurrences, `reminders`, and who sees their area |
| `owner`, `failures`, `row` | `push_subscriptions` by endpoint; `row` counts the rows an endpoint has had, since a new one has a new id |
| `log` | `reminder_log` |
| `stage`, `due`, `cur`, `seen`, `verdict` | `send_due_reminders` and `push_to_user`: what is due and not looked at, what is being sent, the devices as read, their answers |
| `shown`, `tried`, `owed`, `lost` | history; `lost` has the minutes whose job did not run or did not get to its end |

| Action | Code |
|---|---|
| `CreateEvent`, `EditEvent`, `DeleteEvent` | `api/events.py`; a deleted event takes its log entries along; `EditEvent` also stands for a cancelled status and for members who come and go |
| `Subscribe`, `Unsubscribe` | `api/push.py` |
| `StartJob`, `SkipLogged`, `NoteReminder`, `NoteFails` | `services/reminders.py`: the query, an entry that exists, a new one and its commit, the foreign key of a deleted event |
| `Send`, `FinishPush`, `FinishFails` | `services/push.py:push_to_user`: one request per device, then one commit for all answers |
| `Stop`, `Tick` | a restart or the 50 seconds of the job; the next minute, with the job run in the last one or not |
| `Cleanup` | `cleanup_reminder_log`, at any time |

Abstractions. The devices are read in the step that commits the log entry; they
are read again by the code right after it, with nothing awaited but the database.
A push that fails may have been shown, one the service calls gone was not.
Deactivated users, the test notification and the VAPID keys are left out. The
order of `due` is any order.

| Property | Says |
|---|---|
| `TypeOK` | shapes; a registered device has failed less than `MAX_FAILURES` times in a row, although the count is taken from what was read before the pushes |
| `NeverTwice` | no device shows the same reminder twice |
| `SomebodyIsReminded` | a reminder that fell due, and was neither called off nor lost with the job that was sending it, is pushed to somebody by the first job that gets to its end; it stays untold only while every minute of its window was lost |
| `EveryoneIsReminded` | the same of each person who sees the event; the code keeps it in private areas only (section 11) |

| Run | Instance | Shows |
|---|---|---|
| `reminders` | two people with areas of their own and a shared one, two devices, one event that can occur at two minutes, four operations, a stop or a missed minute | `TypeOK`, `NeverTwice`, `SomebodyIsReminded` |
| `shared_reminders` | the same | `EveryoneIsReminded` fails, see section 11 |

Where one person sees the event the two properties say the same; where several
do, the log entry of the first stands for all, and `SomebodyIsReminded` says
that there is a first.

Bounds. `LOOKBACK` is 2 minutes instead of 10 and `KEEP_LOG` as long as that, the
shortest for which `NeverTwice` can hold; the clock stops at minute 4, when the
last reminder can no longer be made up for. `MAX_FAILURES` is 2, reached by two
reminders. An outage as long as `LOOKBACK` loses a reminder, in the code as in
the model; `SomebodyIsReminded` says so by `lost` instead of by a bound on
faults. A job that stops because a row it writes has gone counts as lost, too.

## 5. Tasks, areas and accounts: `Workspace`

| Variables | Code |
|---|---|
| `users`, `admins` | `users` |
| `owner`, `role`, `link` | `areas`, `area_members`, `area_invites` |
| `task` | `tasks`: area, due date, whether there is a time, status, whether `completed_at` is set, the rule, who is responsible |
| `req` | the request each client has under way: what it read and what it will write |
| `areaCount`, `taskCount`, `linkCount` | ids given away |
| `clash`, `joined`, `begun`, `ended`, `torn` | history |

| Actions | Code |
|---|---|
| `CreateTask`, `QuickAdd`, `PatchTask`, `CompleteTask`, `ReopenTask`, `DeleteTask` with `CommitCreate`, `CommitWrite`, `CommitDelete` | `api/tasks.py` |
| `CreateArea`, `DeleteArea` with `CommitArea`, `CommitDrop` | `api/areas.py`; deleting moves the tasks to another area or takes none |
| `CreateInvite`, `RevokeInvite`, `AcceptInvite`, `Expire`, `ChangeRole`, `RemoveMember` with their commits | `api/area_members.py` |
| `DeleteAccount` with `CommitAccount` | `api/account.py` and the cascades of the database |
| `Abort` | a request that is broken off or whose commit fails |

`RoleOf`, `May` and `Permissions` are `policy.py`. The constraints of the
database (foreign keys, the unique membership, `time_needs_date`) are guards of
the commits: a commit they refuse can only be aborted.

| Property | Says |
|---|---|
| `TypeOK` | shapes; a task is always in an area that exists and its assignee is a user that exists; an owner is never a member of his own area |
| `CompletionIsConsistent` | a task has a time of completion exactly while it is done, whatever PATCHes, completions and reopenings overlap |
| `SeriesGoesOn` | a recurring task is carried on by exactly one task until somebody ends the series |
| `NoTaskIsLost` | a task goes only because it, or the account of its area, is deleted, never with an area whose deletion could have seen it |
| `LinkWorksOnce`, `EveryoneKeepsAnArea`, `SomebodyIsAdmin` | an invitation is used once, the last area and the last administrator stay |

| Run | Instance | Shows |
|---|---|---|
| `workspace` | two people, two requests at a time, two areas and room for a third, one recurring task in a shared area, all requests, four of them (1 197 823 states) | all of them |
| `double_followers` | the requests on tasks only | `NeverTwoFollowers` fails, see section 11 |

Bounds. Two requests overlap in every way with two clients; a hazard that needs
a third one is made of two pairs. Four requests are enough to invite, accept and
then delete the area, or to complete, reopen and complete again. One invitation is open
at a time, and `PATCH` sets the status to "done", gives or takes the rule, or moves
the task: other statuses write what reopening writes, and dates matter to no
property of the run. Nothing in it is
fair: `Workspace` promises no progress.

Abstractions. The reads of a request are one step, and the `UPDATE` and the
`DELETE` of deleting an area another. The date of the next task of a series is
any date. Checklists, comments, contacts, names, colours, order, the hours of a
day, limits on requests (they are in `SignIn`) and the audit log are left out. A
person who leaves an area and joins again counts as the same member.

## 6. Mail: `Mail`

| Variables | Code |
|---|---|
| `validity`, `uid`, `recent` | the IMAP server: UIDVALIDITY, the UID of each mail, which are younger than `FIRST_SYNC_DAYS` |
| `account`, `stored`, `rule` | `mail_accounts`, `mail_messages`, `mail_rules` |
| `due`, `round`, `sync` | whose interval is over, the worker's round with the rows it read, the syncs under way |
| `click`, `tasks`, `events` | requests on one mail, and what has been made of mails |
| `excused`, `mixed`, `clash`, `dropped`, `starved` | history |

| Actions | Code |
|---|---|
| `Arrive`, `Age`, `Renumber` | the server |
| `AddAccount`, `SyncNow`, `ChangePassword`, `Switch`, `DeleteAccount` | `api/mail.py` |
| `BecomeDue`, `StartRound`, `WorkerSync`, `Fetch`, `FetchFails`, `Apply`, `Break` | `services/mail.py`: `sync_due_accounts`, the IMAP session, `_apply` with the rules, the suggestions and the limit, and how a sync ends |
| `ClickTask`, `AcceptSuggestion`, `DismissSuggestion`, `CommitTask`, `CommitSuggestion`, `AbortClick`, `DeleteTask` | `api/mail.py` |
| `AddRule`, `UpdateRule`, `DeleteRule`, `ApplyRule` | `services/mail_rules.py`, `api/mail.py` |

| Property | Says |
|---|---|
| `TypeOK` | shapes; no UID twice, at most `MAX_STORED` mails, none without its account |
| `NoMailIsSkipped` | a mail the next fetch will not ask for is stored, was trimmed, is unreadable or was too old at first |
| `StoredAsNumbered` | what is stored under a UID is the mail that has it |
| `OneTaskPerMail`, `SuggestionIsSettledOnce` | a mail becomes a task at most once, by clicks and by rules; a suggestion becomes an event or is dismissed, not both |
| `CatchesUp` | once the server and people rest, every mail of an account that is switched on is fetched |

Run `mail`: one account, one tab and the worker, three mails (one unreadable, one
the rule is about, two with an appointment), `FIRST_BATCH`, `BATCH` and
`MAX_STORED` of one, five operations, one fault (443 551 states). With batches
of one, three mails take three fetches, and each stored mail pushes out another.

Fairness. A round of the worker starts again and again, intervals end, and a
sync that was begun ends, since every call has a timeout. Fetching is fair in
itself, or the server could refuse for ever; failures are faults and run out.

Abstractions. There is one rule for all accounts; marking as read and
`APPLY_LIMIT` are left out; the text of a mail is a member of `Ruled`,
`Invitations` or `Unreadable`. A mail keeps what it says when the folder is
numbered anew.

## 7. Sign-in and sessions: `SignIn`, `SessionLife`

| Variables | Code |
|---|---|
| `user`, `sessions`, `recovery`, `passkeys` | `users` (the password, the one that `password_hash` is of and whether that has old parameters, secret and last step of the app), `sessions`, `recovery_codes`, `passkeys` (a row has a number besides its credential, since a removed passkey can be registered again) |
| `mfa`, `pending`, `challenge`, `limiter` | Redis: the token between password and code, a secret to confirm, a challenge, the counter of sign-ins |
| `cookie`, `request`, `clock` | the browsers, what each has under way, time in steps of the app |

| Actions | Code |
|---|---|
| `StartLogin`, `CommitLogin`, `StartSecond`, `CommitSecond`, `OpenSession`, `Logout`, `LogoutAll`, `EndSession`, `StartPassword`, `CommitPassword` | `api/auth.py`, `security/sessions.py` |
| `Touch`, `Tick` | `security/sessions.py`: the last use, idle and absolute time |
| `TotpSetup`, `TotpConfirm`, `StartDisable`, `StartCodes` and their commits | `api/totp.py` |
| `RegisterOptions`, `RegisterVerify`, `DeletePasskey`, `StartPasskey`, `CommitPasskey` | `api/passkeys.py` |
| `Refused`, `CrashAfterIncr` | `security/ratelimit.py` |
| `ResetPassword`, `DisableOnServer` | `cli.py` |

Opening a session takes one commit or two. `resolve_session` looks at the session
the browser still has, and when that is due for its touch, it commits on its own
(`security/sessions.py:75-77`), with everything the sign-in has written so far:
the new hash (`Rehashed`), the spent code, the counter of the passkey. The
session is then inserted and committed by `OpenSession`, and other requests come
in between (`Opens`). A `Touch` does the same for every other request.

`SessionLife` is what a session promises: absent, open, ended, in this order,
and a new password ends all there are. `SignIn` implements it under
`life`, which calls a session open while `is_session_valid` would.

| Property | Says |
|---|---|
| `TypeOK` | shapes; what Redis keeps belongs to a session that has begun |
| `EachCodeCountsOnce` | no code of the app and no recovery code is accepted twice, at sign-in, when it is set up or when it is switched off |
| `RetryAfterIsHonest` | the counter of a limit is gone by the time a 429 has named, also after a crash between `INCR` and `EXPIRE` |
| `RemovedPasskeyIsRefused` | a sign-in that is accepted by a passkey, with the first of its commits, finds the row of that passkey still there; what is not promised is that it is still there when the session opens |
| `SessionsEndForGood` | `SignIn` implements `SessionLife` |

Run `sign_in`: one person, two browsers, three sessions, one passkey, one
recovery code per set, times of one to three steps, five operations, one fault
(547 346 states). Five operations set up the app, sign in with a code and try it
again. Nothing is fair: `SignIn` promises no progress.

Abstractions. Passwords and secrets are numbers, a code is the pair of secret
and step; cryptography and the rules for passwords stay outside. The lock after
failed attempts and the clean-up of old sessions are left out.

## 8. Subscribed calendars: `Subscriptions`

| Variables | Code |
|---|---|
| `document`, `published` | the servers: what an address gives now, and what it gave under each ETag |
| `calendar`, `events` | `external_calendars`, and the events of each with their area |
| `due`, `round`, `sync`, `lock` | whose interval is over, the worker's round with the rows it read, the syncs under way, rows an edit has locked |
| `strayed`, `crowded` | history |

| Actions | Code |
|---|---|
| `AddCalendar`, `SyncNow`, `ChangeUrl`, `LockRow`, `RefuseHost`, `Move`, `Switch`, `Delete` | `api/calendars.py` |
| `StartRound`, `WorkerSync`, `Download`, `DownloadFails`, `Apply`, `Keep`, `Break` | `services/external_calendars.py`: the round of the worker, the request with `If-None-Match`, replacing the events, a 304 or a failure, and what stops a sync |
| `Publish`, `BecomeDue` | the servers and the clock |

Locks. `sync_calendar` sets `last_synced_at` before it downloads; the query for
the rows to replace flushes that, so from there to the commit a sync holds the
row, and replacing is one step. A `PATCH` of the address reads the row
(`ChangeUrl`), then awaits the DNS look-up of the new host (`RefuseHost` if there
is none), and only its flush locks the row (`LockRow`); from there it holds it
through its own download to the commit (`lock`). A move or another edit of the
address can be committed between the two.

| Property | Says |
|---|---|
| `TypeOK` | shapes; a UID is stored once; `MAX_CALENDARS` is kept unless two are added at once |
| `NoChangeIsHidden` | a calendar that keeps an ETag shows the document of that ETag, so that a 304 hides nothing |
| `EventsAreInTheirArea` | events are in the area of their calendar |
| `ShowsTheFeed` | once people and servers rest, a calendar that is switched on shows its document |

The last three except calendars that are `strayed`: the last sync applied a row it had
read before a move, or before another edit of the address, or an edit of the
address kept an ETag that came to the row while its host was looked up. The next
sync that applies ends this.

Run `subscriptions`: one calendar, two addresses (one without ETags), two areas,
one tab and the worker, two items with the same UID, four operations, one fault
(334 544 states). Fairness as in `Mail`.

Abstractions. Parsing ICS and guarding the download (addresses that must not be
asked, sizes) are the sets `Skipped` and the flag `broken`. A `PATCH` changes the
address or the area, not both at once.

## 9. Recurring events: `EventSeries`, `Agenda`

| Variables | Code |
|---|---|
| `series` | rows of `events` with a rule, or alone: start, all-day, rule, `exdates`; `given` counts how often people gave it a rule (history) |
| `changed` | rows with a `series_id`: their id, the slot (`recurrence_id`), the start, the status |
| `made` | the ids given to such rows so far |
| `request` | what a client has opened and asks for, and the rows the request has read |
| `torn` | history: the series that two overlapping requests have written, or that one request has left something of behind |

| Actions | Code |
|---|---|
| `Create`, `Ask`, `EditThis`, `EditFollowing`, `EditAll`, `DeleteThis`, `DeleteFollowing`, `DeleteAll` | `api/events.py` |
| `Split`, `Cut`, `Rest`, `CutRule`, `RestRule`, `Before` | `services/events.py`: `split_series`, `truncate_rule`; `services/event_recurrence.py` |
| `Shift` | `_shift_series` and the times of `update_event` |
| `Expanded`, `Entries`, `Occurrences` | `expand` and `services/event_recurrence.py` |
| `Store` | the commit of a request: it succeeds, or a row it updates is gone, or the unique constraint stops it |

`Ask` is the part of a request up to the rows it reads, the others are the rest
of it. Several clients may have read before one writes. `Store` then writes the
columns that differ from what was read (`Written`), finds the rows of changed
occurrences by their ids, wherever another request has put them meanwhile
(`Updated`), fails for certain if it updates one row and that is gone
(`Noticed`), perhaps if it is one of several (`Missing`), and fails if two rows
come to be at one slot of a series.

`Agenda` is the abstract specification: the calendar is a set of entries (series,
slot, time), and a request changes those it is about. `EventSeries` implements
it with the entries that `Expanded` gives, `View`, of the series that are not
torn. A series is torn from the moment a request writes it after another one has
written what it had read; a later part split off a torn series is torn as well.
It is also torn by a single request of which the code is known not to take all
along (`LeavesBehind`, section 11): such requests are in the model and in the run
like all others, the promise holds for them in every other series, and for the
earlier part of one that they split. A new rule says anew when the series takes
place (`NewRule`), so the agenda promises only what it leaves alone.

| Property | Says |
|---|---|
| `TypeOK` | shapes; a changed occurrence has a series that exists and its slot to itself, also in torn series |
| `ExceptionsStandForOccurrences` | what was changed or cancelled is an occurrence by the rule, whatever edits follow: else it would be shown twice, or be back |
| `OnlyAsAsked` | `EventSeries` implements `Agenda` |

Run `series`: two series, a rule of daily without an end and one of every second
day three times, two clients, two instants to choose from, four steps that
create or ask (156 190 states): create, change or cancel one occurrence, then
split, move or cut, each possibly while the other client's request is open.

Bounds and abstractions. Instants are half days, so that timed and all-day
events differ. `Far` is the end of the calendar and `Near` how far shifted series
are compared: what comes in at the end of a shifted series lies between the two.
`MaxOps` bounds creations and requests together; the answers are not bounded.
`SYMMETRY` is over clients. Durations, contents and areas are left out; a request
brings new times and a rule, as the dialogue of the web app does, for an
occurrence the client was shown.

## 10. Consent and refresh tokens: `Consent`

| Variables | Code |
|---|---|
| `started` | Redis: the states that lead back from a provider |
| `codes`, `grants` | the provider: codes given out, the refresh tokens that are good, by consent |
| `account` | `mail_accounts` and `calendar_connections` with their tokens |
| `call` | what each client has under way |
| `used`, `revoked`, `latest`, `spoilt` | history |

Tokens of a consent bear the numbers `0..2 * |Clients| + 1`; one that nobody
holds is given out again, and there always is one (`ATokenIsFree`).

| Actions | Code |
|---|---|
| `Start`, `Expire`, `Redeem`, `GiveUp`, `Look`, `Commit` | `api/mail_oauth.py`, `api/calendar_sync.py`: sent away, come back, the code traded, a row looked for or made |
| `StartSync`, `Refresh`, `Commit`, `Crash` | `services/mail.py` (`_oauth_access`), `services/calendar_sync.py`: a sync trades the token and stores the new one at its end |
| `Agree`, `TakeBack` | people at the provider |
| `Switch`, `Delete` | people here |

| Property | Says |
|---|---|
| `TypeOK` | shapes; a state is redeemed once, whoever brings it |
| `StaysConnected` | what is stored is a good token of the latest consent, or a sync is about to store one |
| `ErrorsPass` | an account whose token is good does not show an error for ever |

Run `consent`: one user, one tab and the worker, two states, two addresses, two
ids, a provider that replaces tokens at each use and takes the old one back,
seven operations, one fault (558 404 states). Seven operations connect, connect
again, and have a sync in each.

Fairness. A call that was begun goes on (weak), and a round of the worker comes
to every account (strong: an account that is switched off and on again, or for
which the worker is busy, is not due all the time).

## 11. Known deviations

What the code does and its documentation says otherwise, or what a property
excepts. Three have a run that shows the violation:

- `expired_token`: the full list after a 410 does not mention what was deleted,
  and only complete lists are searched for what is missing
  (`services/calendar_sync.py:659`).
- `double_followers`: two requests that complete a recurring task at once each
  add the next one (`api/tasks.py:359`), although the comment above says that no
  duplicate can arise.
- `shared_reminders`: the log knows no person (`services/reminders.py:86-93`), so
  of several people who see a shared area only the first is reminded.

The others are seen by changing the constants named here in the run named here;
no run is spent on them. Where a property is named that no run checks, it is the
checked one without its exceptions, and stands beside it in the module.

Calendar sync:

- What a conversion loses or says in other words comes back as news, and if the
  user has edited the event before the next list, the echo overwrites the edit
  (`EditsOutliveTheEcho` in `calendar_edits` with Outlook alone). At Outlook that
  is every weekly series from the web app: `FREQ=WEEKLY` goes out with the day of
  its start (`services/calendar_sync.py:369-372`) and comes back as
  `FREQ=WEEKLY;BYDAY=..` (`325-326`); so do monthly and yearly ones, an `UNTIL`
  with a time, a rule without a pattern (it comes back as a single event), and
  "free" and tentative at once. A description with white space around it comes
  back stripped from Outlook and CalDAV, "cancelled" from Google and Outlook as
  confirmed, a foreign zone from CalDAV as the owner's, and exceptions that an
  edit has left behind with its rule removed not at all. `Expressible` is the
  rest.
- The fingerprint of a sent event is committed only at the end. When the worker
  stops after the request, when the answer is lost, or when deleting another
  event fails the commit, the next list reports ToDoch's own earlier contents as
  news, and they overwrite what the user wrote since; so they do with a list from
  before another sync's commit. `OwnEchoIsNeverTaken` excepts such items
  (`unsettled`) until they are sent again.
- A list fetched before another sync's insert lacks the new event, and the pull
  deletes it (`OnlyDeletedIsForgotten` in `calendar_edits` with CalDAV alone and
  two `Syncs`; for Google it is proved with any number of them).
- A `DELETE` that has read the row before a sync stored its link leaves no
  tombstone, wherever it waits or is slow, and deleting an area removes events
  past the listener that writes them: the copies stay in the online calendar.
  `NoCopyIsLeftBehind` excepts both (`orphans`), with what a disconnection leaves
  on purpose and with an insert that a crash or a lost answer makes ToDoch repeat
  under another id. (`Converges` in `calendars_converge` with `"slow delete"`.)
- Taking over a cancelled occurrence refreshes the fingerprint of the whole row
  and so hides an unsent edit (`NoDifferenceIsForgotten` in `calendar_edits` with
  Google alone).
- A deleted event comes back for one sync from a complete list, since the list is
  applied before the tombstones are sent; and a `PATCH` carries no condition on the version it replaces, so an edit
  at the provider between listing and sending is lost although the provider is
  said to win.

Workspace:

- Without the exceptions: two people who open an invitation at once both join
  (`LinkWorksOnceEver` in `workspace`), two areas or two administrators deleted at
  once are both gone.
- Deleting an area moves its tasks with whoever is responsible for them, who may
  have no access to the other area, and neither leaving an area nor being removed
  takes the responsibility away (`AssigneeMayWrite` in `workspace` with one
  client, `Kinds` of `"patch"` and `"role"`, and `Changes` that set the assignee).

Mail:

- When two syncs of one account overlap and both notice that the folder is
  numbered anew, each drops what is stored. The second drops what the first has
  fetched by then, and does not write the last UID if it is what it has read: the
  mail is never fetched again (`NoMailIsSkippedEver` in `mail` with
  `MaxStored = 3` and six operations).
- After one account has made a round fail the transaction is rolled back and the
  rows of the other accounts are expired; the next one that is touched raises
  outside of what catches it, and the round is over (`OthersGoOn` with two
  accounts; `services/mail.py:529`, the same in
  `services/calendar_sync.py:853` and `services/external_calendars.py:461`).

Sign-in:

- A passkey that is removed after the first commit of a sign-in with it and
  before the second still opens its session (`OpenSession`), when the browser
  has an old session that is due for its touch.
- A sign-in with the old password that hashes it anew (`api/auth.py:102-103`)
  writes `password_hash` after whatever another request has made of it
  meanwhile, a new password included: then the old one is good again.
- Two requests with the same code that overlap are both accepted (`clash`).

Subscriptions: a sync, or an edit of the address that waits for the look-up of
its host, that has read the row before another edit applies its document after
it. Events it adds are in the old area until the document changes
(`EventsComeToTheirArea` in `subscriptions`). The events of an old address
replace those of the new one, whose ETag stays, and every 304 from then on keeps
them (`ShowsTheFeedEver` with one area and four operations).

Series. One request is enough for each of the first three; the series is `torn`
from then on, and excepted:

- "This and following" to another time splits off the exceptions but does not
  move them with it (`ChangedStandForOccurrences` in `series` with one client).
- Moving a series that has an `UNTIL`, or the later part of one, leaves the
  `UNTIL` where it was, which may drop the last occurrences (`ShiftMovesAll` with
  `Rules <- RulesWithEnd` and one client).
- A new rule, or the change between timed and all-day, keeps exceptions at slots
  that are none any more; and if that change is asked for at a later occurrence
  and for all of them, the series starts there.
- Two requests that cancel different occurrences at once both write the whole
  list: one of the cancellations is lost.
- Moving a series by one period makes changed occurrences collide at
  `uq_events_uid_recurrence`, depending on the order of the updates
  (`InTheWay`): the request fails. Changed occurrences stay in their area when
  the series gets another one (areas are not modelled).

Consent: connecting again while a sync is under way lets the sync store the token
of the old consent over that of the new one (`StaysConnectedEver`). Not
modelled: two ways back at once for one new address make two rows for a mailbox,
and `caldav_connect` makes a second connection to a calendar that is connected.

## 12. Proofs

`tlapm` checks every theorem for all values of the constants that satisfy the
assumptions named here. Each safety property of the runs has one; so has each
refinement. All proofs have the same
shape: an inductive invariant that contains the property, or implies it, and one
step per action; "calm" steps, which leave what the invariant speaks of alone or
only make it easier, are settled together.

| Module | Assumes, besides the module's own assumption | Theorems |
|---|---|---|
| `CalendarSyncProofs` | for `NoCopyIsLeft` and `ForgetsOnlyDeleted` `NoOldWholeLists`; for `NothingIsForgotten` `OneSync`, `TokensLast`, `SeriesStayWhole` | `TypeCorrect`, `LinksStayInjective`, `NoCopyIsLeft`, `ForgetsOnlyDeleted`, `NothingIsForgotten`, `WhatFitsComesBack`, `OwnEchoStaysOut` |
| `RemindersProofs` | - | `TypeCorrect`, `RemindedOnce`, `OwedIsPushed` |
| `WorkspaceProofs` | - | `TypeCorrect`, `LastAdminStays`, `LastAreaStays`, `InvitationWorksOnce`, `DoneMeansCompleted`, `OneTaskCarriesOn`, `NoTaskGoesUnasked` |
| `MailProofs` | - | `TypeCorrect`, `StoredUnderItsNumber`, `NoneIsSkipped`, `OneTaskAtMost`, `SettledOnce` |
| `SignInProofs` | - | `TypeCorrect`, `SessionsLiveAsPromised`, `CodesCountOnce`, `RetryAfterIsKept`, `RemovedPasskeysStayOut` |
| `SubscriptionsProofs` | - | `TypeCorrect`, `NothingHidden`, `EventsAreWhereTheyBelong` |
| `EventSeriesProofs` | - | `TypeCorrect`, `ExceptionsKeepTheirPlaces`, `RequestsDoAsAsked` |
| `ConsentProofs` | - | `TypeCorrect`, `TokensAreKept`, `ATokenIsFree` |

The extra assumptions are circumstances, not conveniences: without each of them
the code breaks the property, which section 11 shows. `NoOldWholeLists`: one sync
of a connection at a time, or Google (whose lists say what was deleted, so an old
one cannot take a new event for a deleted one). `TokensLast` and
`SeriesStayWhole`: no token expires and no occurrence is cancelled at the
provider. `OneSync`: a sync that lists while another one works may hold a list
from before that one's changes. All other theorems hold for everything the
modules let happen; what they except is in the properties themselves, with the
history variables that section 11 explains.

### The calendar sync

`LinksAreInjective` speaks of committed rows and is not inductive: a commit
could write a link that another row has got in the meantime. `LinkInv` adds what
the code relies on, and of `TypeOK` all but the requests (`Typed`):

- `LinksAreIssued`: rows, copies and lists only name ids the provider has given
  out, so the id of an insert is new to all of them;
- `WriteSets`: how the sets of the running transaction relate (what it has born,
  doomed and flushed, and that they are empty when none runs);
- `PendingLinks`: the links the transaction will write are distinct from each
  other and from those of the rows it does not touch.

`CopyInv` adds where each copy is accounted for. `Places` says how the sync's
drafts and work lists name the links that were there before, `BornLinks` that a
row the pull has just made of one of ToDoch's own copies is not all there is of
it, `ListedGone` that a list takes nothing for deleted that lives, and
`CopiesKept` is `NoCopyIsLeftBehind` for the rows as the running transaction
sees them. The difficult step is `Pull`, which deletes rows, links others and
collects tombstones at once. `ReadLinks` says that what a slow `DELETE` has read
is a link that was given out, so that its late tombstone names nothing new.
`SyncInv` adds that ids which are gone never come back (`Noticed`,
`ListedDead`), which is what makes a deletion in an old list true.

`NewsInv` is about `NoDifferenceIsForgotten`, which says nothing of what a
running sync is about to commit. It follows a change from one place to the next: `RowNews` for committed
rows (the item is noted by `since` or agrees with the fingerprint), `ListNews`
for a list that has been fetched and not applied, `WorkNews` for what a working
sync will commit. A crash makes the first one count again, so all three are
kept at once. Lists that are complete need none of them, since they report
everything.

`EchoInv` is about `OwnEchoIsNeverTaken`, and follows a fingerprint the same way:
`RowEcho`, `ListEcho` and `WorkEcho` say of a copy of ToDoch's that is not
`unsettled` that the committed row, the row as a list will meet it, and the row
as the running transaction will leave it have the fingerprint of what comes back
(`Told`). One case spoils this: a cancelled occurrence at Google is an item of its
own, so a row that has taken it over has another fingerprint than the item of the
series. `HeldApart` is that case, and the invariant then says that a list which
reports the item reports the occurrence with it. `Transacts` is what the
transaction must be for this: one sync works at a time (`SyncsInPhase`), what is
still to be sent goes to items that no other row will have (`TodoApart`), and what
is written while another sync holds a list is unsettled (`WrittenNoted`). A
row whose item is just being sent (`BeingSent`) is settled by the transaction
alone. Which contents come back is settled once, by `WhatFitsComesBack`:
those that are `Expressible`, and no others.

### Reminders

`NeverTwice` is not inductive: nothing in it says why a reminder that was shown
is not noted again. `IInv` calls a reminder past when it is in the log, its event
is gone, or it is too late for it, and says that whatever was shown is past
(`ShownIsPast`), that what is due is within the window (`DueInWindow`), that an
entry is no younger than its reminder (`LogIsOld`), and that what is being sent
is past and unseen on the devices that are left (`Sending`). `PastStays` is the
heart of it: a past reminder stays past, and the one step that could undo it,
the clean-up, only removes entries older than `KEEP_LOG >= LOOKBACK`.

`OInv` is the other direction. What is owed and in the log has been tried with
somebody or is being sent (`OwedLogged`), and a minute whose job started and was
not lost has everything in its window tried, or still in `due` (`OwedToday`); so a
reminder that is still untold at the end of a minute has lost that minute. It
holds in shared areas as well, since it says of a reminder, not of each person,
that it was told.

### Tasks, areas, accounts

The properties speak of what is committed, while the checks were made when the
request started. The invariants carry it over: a request that has missed nothing
is still right, where `missed` is what others have written since it read.
`IInv` says so for administrators, areas and links (`AdminsStay`, `AreasStay`,
`LinksAreSpent`), `KInv` for the columns of a task (`ProgressSeen`, `RulesSeen`,
`EmptySeen`). `FinishAges` is the heart of it: a commit leaves every other
request idle, or as it was and having missed what was written. `Unused` and
`SeriesAreNew` say that ids which were not given away are not in use.
`OneCarrier` is `SeriesGoesOn` with the witness instead of the number. `TInv`
holds the foreign keys and what a request plans about people and areas.

### Mail

`NInv` gives numbers their meaning: under a UIDVALIDITY that ToDoch has seen,
what is stored and what a sync has fetched bear the numbers that the server gave
(`NumOK`, per account). `CInv` adds `CoverOK`: each UID below the last one is
stored or need not be, for the row, for what the round has read and for what each
sync will write, so that it does not matter which of them is written last. `MInv` says that a mail's row
remembers its task and what became of its suggestion (`Remembered`) as long as
ToDoch keeps it.

### Sign-in

Sign-in implements the life of a session with `life` and the number of passwords
as the refinement mapping. Most steps leave both alone (`RestStep`); the others
map to one step of `SessionLife` each. Time is the difficult one: a `Tick` can
end any number of sessions at once. `IInv` is small: sessions have their shape,
those that have not begun are revoked, and whoever is changing the password does
so in a session that has begun (so that the new session is not the old one).

`CInv`: every secret and set of recovery codes has a number of its own, so what
was used of an earlier one is never asked for again (`Numbered`, `CodesAsked`),
and what was used of the secret in use lies before its last step
(`UsedUpToLast`). `LInv`: once an answer has named a time, the counter is over
its limit, so no request that is let in moves its end.

### Subscribed calendars

What a sync holds decides what the row will be when it is done. `Tags` says that
an ETag names one document (`Numbered`), that servers answer with documents they
have published (`Served`), and that what a sync has downloaded is one of its
address, under an ETag it did not have (`Loaded`). `EditsLock` says that an edit
of an address that has got the lock is the only one, and with a new calendar
starts without an ETag; nothing is said of an edit before its lock, which is why
`Outdated` and `KeepsTag` compare with the row as it then is. `AddsAreNew` says that a calendar that is being added has
no row and no events yet. `TInv` has the counting: a locked row has exactly one
edit (`LocksHeld`), and calendars and those being added stay within
`MAX_CALENDARS` (`RoomKept`).

### Recurring events

`ShapeInv` is `TypeOK` with what keeps it: ids are given once (`Unique`, `made`),
a rule that recurs has a positive interval (`Proper`), and a request has read
rows of the series it is about (`WellAsked`). It holds for all kinds of requests
and any number that overlap, torn series included.

What `ExceptionsStandForOccurrences` says depends on `Far` and `Near` and on how
often a series has moved, so it is not inductive. `Good` says it of the slots of a
rule however far away (`Regular`: the start and a multiple of the interval, within
COUNT and UNTIL), and `Fits` that a request is about an entry of what it has read.
`SoundInv` is both, of everything that is not torn. `OccurrencesAreRegular` ties
the two notions of a slot together, so that no step needs an induction.

Invariant and refinement are proved together (`AsPromised`), since a step of the
agenda needs the invariant before it and gives it after it. A request either
finds what it has read unchanged (`Current`) and takes all along, or tears what it
writes (`StoreTearsOrSettles`); a step that tears is a step of the agenda because
the entries of other series stay (`Tearing`, `Untouched`). For those that do not,
one lemma each says what the entries of a series are once a slot is cancelled
(`CancelledSlot`), it is cut (`CutEntries`), is the later part (`RestEntries`), or
has moved with its exceptions (`SeriesMoved`, `EntriesMoved`, `ShiftedEntries`):
up to `Near`, since at the end new ones come in. `CutAndRest` is the arithmetic
beneath: COUNT and UNTIL are divided so that each slot of the series is one of
exactly one part.

### Consent

A consent has one home, a row and the syncs that read it, or one request that
brings it (`OneHome`); the proof that no token is lost rests on this. A token
just handed out is held by nobody else (`NewIsUnheld`) and is good or taken back
by a person (`NewIsFit`), and a provider that replaces tokens and takes the old
one back keeps at most one good per consent (`OneGood`); one that does either
only leaves all that are held good (`AllFit`). `RowsConnected` is
`StaysConnected` with the sync that will store the token named. `ATokenIsFree`
is about the model: the numbers `0..2 * |Clients| + 1` always suffice for a new
token, so the bound cuts off nothing.

### Only model-checked

- `Converges`, `CatchesUp`, `ShowsTheFeed`, `ErrorsPass`: they need fairness, and
  ENABLED is out of the prover's reach.

The inductive invariants were checked with TLC on small instances before they
were proved, apart from a few shapes and counts in the `TInv`s, which are parts
or plain consequences of the `TypeOK` a run checks.

## 13. Not modelled

- The lock after failed sign-ins, making somebody administrator, the first
  set-up, the clean-up of old sessions and of addresses in the audit log: single
  statements without a second actor.
- Quick add (a parser of German phrases), feeds and the export of ICS, the data
  export: pure functions from rows or strings.
- Contacts, comments, the audit log, checklists: rows that are added, changed and
  deleted in one transaction each.
- The test notification, VAPID keys, encryption at rest, middleware,
  configuration, the frontend and deployment: libraries, glue and display.
- The rule language of recurrences: rules are daily or every few days in
  `EventSeries` and a name in `CalendarFields`.
