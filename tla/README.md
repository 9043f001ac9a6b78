# Verification of the attendance system

TLA+ models of the attendance system's backend (Go, gin, GORM, PostgreSQL, Redis, S3 storage), TLC
configurations that check them on small instances, and proofs that TLAPS checks for every value of
the constants. Paths below are relative to `src/`; `modules/` stands for
`src/internal/api/server/modules/`.

## 1. The system and its parts

One process serves HTTP. Every request is a goroutine of its own whose context lives at most 30 seconds
(`internal/middleware/middleware.go`, `Timeout`); several instances may run against one database.
Goroutines share nothing in memory but the pool of database connections: all state that matters is rows of
PostgreSQL, counters in Redis and objects in storage. A service method usually reads with statements of
its own, checks in Go, and writes in a later statement or transaction at READ COMMITTED. What goes wrong,
if anything does, goes wrong between the read and the write, so the models make that gap explicit
everywhere.

| Component | State | Operations that change it | Hard behaviour | What makes it correct |
| --- | --- | --- | --- | --- |
| leave (`modules/leave`) | `leave_types`, `leave_balances`, `leave_requests` | file, cancel, decide, set a quota, create / replace / delete a type | balances are summed from the requests, never stored; filings, decisions and quota changes overlap; midnight passes | a quota is never overdrawn; a request is decided once, by someone else; leave begun is not taken back |
| attendance (`modules/attendance`) | `attendances`, `attendance_corrections` | check-in, check-out, daily report, request / cancel / decide a correction | a mark and an approval write the same row; roster and hours change between them; night shifts | minutes are those of the times; a time on record changes only by an approved correction that keeps what it replaced |
| geofence (`attendance/geofence.go`) | none | none | ties, circles that overlap | the office a mark is given is the one the comment names |
| schedules (`modules/schedule`) | `work_schedules`, `shift_assignments`, `holidays`, `office_locations` | bulk roster writes, edits of holidays, schedules and offices | rule A (assignment, holiday, default) is evaluated in several reads; audit entries describe the row before; midnight passes | a past day's answer changes only where the audit log says so |
| who's in, daily statuses (`modules/attendance/whosin.go`) | none | none | rule B over rows read at different moments | an answer no mixture of old and new rows makes absurd |
| reports (`modules/report`) | none | none | totals over statuses | totals count what is listed |
| user directory (`modules/user`) | `users`, `departments`, `audit_logs` | create, replace, remove, change role | the loop check walks the hierarchy before the write; a removal moves reports up | the hierarchy stays a forest of live accounts; the audit log is complete |
| auth (`modules/auth`, `internal/middleware/auth.go`) | `refresh_tokens`, Redis attempt counters, access tokens | login, refresh, logout, seed admin | rotation with a grace for lost answers, reuse ends every session; counters shared by concurrent logins | one live token per login, an expiry that never moves, bounded password attempts |
| uploads, storage (`modules/upload`, `internal/pkg/storage`) | objects in storage, no table | presign, verify, commit | the client may put the object again while it is checked | what is committed is what was checked |
| server lifecycle (`cmd/api`, `internal/container`) | connection pool, requests in flight | start, drain, stop | timeouts, the pool as a bounded resource, a shutdown shorter than a request | nobody waits for a connection that never comes; drained before closed |
| health (`modules/health`) | none | none | a goroutine for each dependency, on the same pool | every probe is answered |
| router, generated contracts | none | none | each operation's statuses are told in three places | no status outside the contract |
| configuration, logging, migrations | none of their own | | | not modelled |

How they meet: leave and attendance ask the user directory who is above whom (`user.SubtreeQuery`),
ask schedules for rule A and working days, ask uploads to verify an attachment or a selfie, and take
their caller from an access token. They call each other by reading each other's tables; there are no
messages, callbacks or background jobs. All of them share the pool of connections, and all answer through
the contracts.

`PROJECT.json` lists under `hazards`, line by line, what a test of this code would hardly reach.

## 2. What is modelled

### Shared conventions

* **A concurrent call** is an element of a set such as `FilingCalls`; a variable such as
  `filing[c]` holds what the call has read and checked so far, `None` when no call is there. One
  action per statement or transaction that other calls can get in between of.
* **A refused call** changes nothing, so it has no action. A call that fails later (a constraint, a
  conflict, an upload check, a 30 second timeout, a lost connection) is a `...Fails` action that
  may happen at any time; since every call may be sent again, this is also the retry.
* **A row lock** (`FOR UPDATE`, or a row an open transaction has updated) is held from the action that
  takes it to the one that ends the call, and is a guard of the others that need the row. A transaction
  that takes its lock first and does all the rest under it is one action.
* **Reads merged into one action.** Reads that a later change cannot contradict are taken with the
  first one: attachment and photo keys are never freed once used, owners, dates and proposals of a
  row never change, and time only goes on. `Cancel` and `Reject` of a correction are one action
  each, because before their conditional update they read such columns only.
* **Constraints of the tables** (unique keys, the exclusion constraint on overlapping leave, checks)
  are guards of the action that inserts or updates; the call they refuse ends in `...Fails`.
* **The hierarchy** is the constant `Above` in LeaveRequests and Attendance; Directory is where it
  changes.
* **A deadlock between two transactions** is broken by PostgreSQL: one of them fails, which is `...Fails`.
* Every bound on calendar, clock or rows ends a behaviour, so most runs say `CHECK_DEADLOCK FALSE`; a
  process that has exited does nothing more. In Roster there is always a schedule to edit, so that run
  checks for deadlock.

### Modules

| Module | Models | Variables and what they stand for |
| --- | --- | --- |
| `ApprovalFlow` | the abstract specification of anything filed by one person and decided by another | `request` |
| `LeaveRequests` | `modules/leave`, whole | `types`, `quotas`, `leaves` are `leave_types`, `leave_balances`, `leave_requests`; `filing`, `settling`, `quoting` the calls; `today` the date; `lowered` a history |
| `ShiftRules` | `attendance/shift.go`: hours placed on a date, lateness, early leave, which shift a check-in belongs to | none, operators only |
| `Attendance` | `modules/attendance` but for the listings, and the edits of hours and roster it reads | `rows`, `corrections` are `attendances`, `attendance_corrections`; `hours` is `work_schedules`, `plan` rule A's answer; `marks`, `proposing`, `approving` the calls; `now` the clock; `rewritten` a history |
| `Geofence` | `attendance/geofence.go`: which office a place belongs to, given its distance to each | none |
| `DayRules` | rule A (`schedule/resolve.go`), rule B (`attendance/whosin.go`), a report's filter and totals | none |
| `Roster` | `modules/schedule` but for offices, and the calls that answer where a person stands | `schedules`, `roster`, `holidays` are the tables, `defaults` is `users.default_schedule_id`; `calls`; `today`; `written` and `told`: what the last step added to the audit log and what it answered |
| `Directory` | `modules/user` but for departments, names and default schedules | `users`, `audit` are `users`, `audit_logs`; `claims` the access tokens that are out; `writing`, `removing`, `granting` the calls; `crossed` a history |
| `SessionLife` | the abstract specification of a login: one credential that works at a time and a moment when it ends | `clock`, `until`, `usable` |
| `Sessions` | `modules/auth` and the token check of `middleware/auth.go` | `rows` is `refresh_tokens`; `ipAttempts`, `emailAttempts` the counters in Redis; `logins`, `refreshes` the calls; `access` the tokens that are out; `users`; `now`; `lease`, `held`, `admitted` histories |
| `Uploads` | `modules/upload`, the keys and signed URLs of `pkg/storage`, and the bucket | `urls`, `objects`; `calls` the checks; `committed` what a row names; `puts`, `spoiled` histories |
| `Contracts` | what every operation's generated contract lists, its handler passes on, its service refuses with, and its route turns away | none |
| `Serving` | `cmd/api`, `internal/container`, the middleware chain, `modules/health`, and requests of any operation of Contracts on one pool | `process`, `opened`, `failed`, `signalled`; `requests`, `probes` |
| `MC...` | values for TLC, and operators checked against reference definitions as assumptions | |
| `...Proofs` | theorems and proofs about LeaveRequests, Attendance, Directory, Sessions, Uploads, Roster and Serving | |

Serving composes the lifecycle, the pool, the probes and the contracts of every operation. Roster extends
DayRules, which extends ShiftRules, so that rule B measures with the clock arithmetic Attendance uses.
LeaveRequests and Attendance both implement ApprovalFlow, Sessions implements SessionLife.

**LeaveRequests.** `Service.Request` is `StartFiling` (read the type, check its rules in the current
year, count working days, look at the attachment), `HoldBalance` (inside the transaction: lock the
user's row, compare with the balance) and `InsertLeave` (insert, commit, lock released); a type
without a quota skips the lock. Which of the days asked for are working days belongs to the schedule
module, so any number from 1 to the days spanned is taken. Balances are never stored: `Spent` sums the
working days of pending and approved requests that start in the year, `Allowance` is the person's own row or
the type's quota.
`Cancel` and `Decide` read the row (`StartCancel`, `StartDecide`) and update it on condition of its
status (`Settle`). `SetQuota` reads its row `FOR UPDATE` (`ReadQuota`: an absent row locks nothing) and
upserts it (`WriteQuota`). Types are edited in single statements or under one lock.

**Attendance.** `CheckIn` and `CheckOut` compute everything from one moment and one set of reads
(`StartCheckIn`, `StartCheckOut`) and write later (`FinishCheckIn`, an insert; `FinishCheckOut`, an
update that asks for a row still open and writes its own columns only). `DecideCorrection` locks the
correction and the row it is about (`StartApprove`, which also lays the correction over the row and
measures it anew), and writes both (`FinishApprove`). Where there was no row there is nothing to lock,
and a row that has appeared makes the approval a conflict. Evidence (place, photo, office) is
abstracted to the selfie key that the table keeps unique; a mark refused for its evidence is
`MarkFails`. A tick of the clock in the runs is four hours and a mark sees at most one tick, since a
request lives 30 seconds. A day is `DayLength` ticks: daylight saving is left out.

**Directory.** `Replace` and `Create` read the account, then whether the manager exists
(`CheckExists`), then whether the manager is below the account (`CheckLoop`), then write. `Delete`
checks, then locks the leaver, moves the leaver's reports up, marks the row and writes the audit
entry. That transaction is one action: with the leaver locked `FOR UPDATE`, a write that newly reports
to them waits in its foreign-key check until the commit, and the deadlocks two such transactions may
run into end in `RemoveFails` or `WriteFails`. The caller is a token with the role of the moment it was
handed out; tokens outlive the behaviours considered (15 minutes against 30 seconds), so they do not
expire here.

**Sessions.** `Login` counts an attempt for the address and the email (`CountAddress`, `CountEmail`: SETNX
and INCR run as one transaction of Redis, and a count over the limit refuses), checks the password with the account
it read (`CheckPassword`), forgets the address's attempts (`ResetAddress`) and stores a new token
(`Issue`, which purges the user's expired rows in the same transaction). `Refresh` takes the row by a
conditional update and reads its owner (`TakeToken`), then inserts the successor and commits (`Rotate`) or
leaves the token revoked (`RefuseOwner`); when no row could be taken it looks for a reuse (`FindReuse`) and
revokes what its statement saw (`RevokeAll`). The two steps of each transaction are separate actions with
the row locked in between. PostgreSQL's `now()` is the start of the transaction, so each call compares and
writes with its own start. The module that changes accounts is one action, `ChangeAccount`. The request
timeout and the reuse grace are both 30 seconds in the code, which is one tick here.

**Uploads.** `Intent` signs a URL for one key, size and purpose; a client may `Put` any type of that size
as long as the key holds nothing; `Verify` checks the key's prefix, then reads the size (`Size`), then the
first bytes (`ContentType`), and deletes what it refuses (`Reject`) or hands over to the caller, who
commits (`Commit`). Between any two of them a client may put and other checks may delete.

**Roster.** A bulk write reads and locks the rows it replaces when it touches a past date
(`lockAssignments`) and upserts (`UpsertAssignments`); `Unassign` and the edits of a holiday read outside
the transaction that writes, so reading and writing are two actions; a schedule is deleted after two counts
(`CountUsers`, `CountAssignments`). The call that answers where a person stands reads roster, holidays and
schedules one statement after another, then the clock (`FinishDaily`). Attendance and approved leave are
read before these and belong to the other modules, so they are any value.

**Serving.** `run()` opens its hooks in order, serves, drains at a signal for less time than a request may
take, and closes in reverse. A request calls an operation of Contracts and asks its script of statements and
transactions of the pool; it may be turned away, refused, fail, panic, lose the answer of a commit or pass
its deadline at any of its steps. Its answer is in three parts, as in the code: `handled` is the status its
handler, `internalError` or `Recovery` set, `Written` whether a body went out with it, and `status` what
`Timeout` makes of that, which past the deadline replaces a status nothing was written with by 504.
Durations are not counted. Access log, CORS and security headers change no
state and no status.

## 3. What the runs check

| Run | Asks | Instance | States |
| --- | --- | --- | --- |
| `leave_quota` | no interleaving of filings, quota changes and type edits overdraws a quota (`NeverOverdrawn`); a balance that was read still covers its request at the insert (`ReservedDaysStand`); a quota row that was locked stands (`LockedQuotaStands`) | two filings beside two `SetQuota` calls, a type whose quota moves between 1 and 2 days, a type without quota, a two-day year and the first day of the next | 1.4 M |
| `leave_decisions` | requests follow `ApprovalFlow`; an owner never takes back leave that had begun (`OwnerNeverReclaims`) | three people, cancellations and decisions of the same rows, midnight, a type that comes to approve itself | 1.3 M |
| `leave_carried_over` | **violated**: `SetQuota` keeps carried-over days | two `SetQuota` calls and no row yet | |
| `attendance_marks` | minutes lie within a day (`AttendanceTypeOK`) and agree with times (`MeasuresAgree`); times change only by correction (`EditedOnlyByCorrection`) | two marks of one person, a night and a day that overlap, a correction, a roster change | 0.4 M |
| `attendance_corrections` | corrections follow `ApprovalFlow`; `MeasuresAgree` and `EditedOnlyByCorrection` where decisions cross | two corrections, two approvals at a time, a cancellation, a rejection, a mark, a daily report, hours edited in place | 0.5 M |
| `attendance_photo_reuse` | **violated**: a selfie backs one mark | a check-in and a check-out sent together | |
| `directory` | the hierarchy is a forest of live accounts unless a manager was written after the hierarchy it was checked in had changed (`HierarchySound`); a removal takes nobody out of reach (`RemovalKeepsReach`); roles are what the audit log says (`RolesAudited`); removed rows stay (`RemovedStays`) | four people, two edits, a removal, two role changes, tokens out of date | 1.1 M |
| `directory_loop` | **violated**: nobody is their own supervisor | two edits | |
| `sessions` | one usable token per login and an end that never moves (`SessionSpec`); sessions end only for a cause (`SessionsEndForCause`); a reuse ends what worked when it was found (`ReuseEndsSessions`); access tokens speak of the recent past (`AccessIsRecent`); two windows bound the attempts let through to a password in the time of one (`BudgetHolds`) | one person who is signed in or has used up the tokens, a login, two refreshes, a logout, a removal, tokens replayed on either side of the grace | 0.6 M |
| `serving` | answers tell what became of the transaction (`AnswersTell`) and are in the contract (`AnswersDeclared`); exit 0 cut nobody off (`CleanExit`); everyone whose queries are answered is answered (`AllAnswered`); a signal ends the process (`Stops`) | a decision of a statement and a transaction, a creation whose query may hang, a probe, two connections | 0.5 M |
| `roster` | what a past date says changes only as the audit log tells, but for named exceptions (`PastExplained`); entries name the row they replaced (`EntriesTell`); a day read in pieces is never absurd (`DailyTells`) | one person, a Sunday and a Monday, two calls of any kind, a schedule edited and retired, a holiday, midnight | 1.1 M |
| `uploads` | what a row names was allowed (`CommittedIsAllowed`) and stays (`VerifiedStays`); deletions hit refused keys only (`OnlyRefusedIsDeleted`) | one key, three checks by its owner or another, three puts | 4 K |

Pure operators are checked against reference definitions, as assumptions of the MC modules: a report's
totals against counts over all reports of three days (`MCRoster`), the office of a mark against the
comment of `locate` over all lists of three offices, the shift a check-in is put to and how long it stays
closable over every calendar of three days (`MCAttendance`), and which refusals reach
the client for every operation of the API (`MCServing`, `RefusalsReach`).

**Why the bounds are enough.** Every conflict in this code is between two calls about the same row,
key or person, so two calls of a kind that conflicts with itself, beside one or two of each kind they
conflict with, reach it; a third party would only repeat it. A two-day year gives a request that fits
and one that does not; a third day in `leave_quota` is the turn of the year, across which one request lies
and after which the old year's days are refused. Ticks of four hours put marks before, within, on the ends
of and after each shift, with a night and the next day's shift both open at one moment. In `sessions` two
ticks let a token be replayed within the grace, past it and past its expiry, and let an email's window turn
over once; three tokens are a login, its rotation, and the rotation of that or a second login. That run has
one login at a time, as two with their tokens are too many states: that concurrent logins keep the budget is
said by the proof (`EmailBudget`) alone. A rejected object, its replacement and a third one put beside three checks is the longest story about one key, and keys
do not meet. Two connections are one that hangs and one everyone else needs. Rows are bounded by what the
calls can create. What the bounds cannot say, the proofs of section 5 do.

**Mutants.** Each property is paired, in `PROJECT.json`, with a mutated definition that stands beside
the one it mutates (a lock not taken, a status not asked for, the wrong roster) and that breaks it.

**Fairness.** Only `serving` assumes any (`Serving!Fairness`), each conjunct weak: the start and the stop
of the process go on; the Go scheduler runs a goroutine that can run and hands a free connection to who waits
for one; PostgreSQL answers every query but those of the requests in `Hangs`; a query past its deadline is
cancelled by its context; a probe's checks end by their own timeout. No request is owed its deadline, for
the timeout may be configured away, and nobody is owed a signal. So `AllAnswered` says that nobody waits for
the connection a hanging request holds, and `Stops` that the drain's own deadline suffices. Elsewhere every
call may fail or be cut off and no client must retry, so the code promises nothing of the form "eventually".

## 4. Where code and text disagree

* **Carried-over days can be lost** (`leave_carried_over`, `modules/leave/repository.go:195`).
  `leavetype.go:65-66`: a nil `carriedOver` "keeps the carried-over days the person already has". Two
  first `SetQuota` calls for a slot both find no row to lock; the second overwrites on conflict with 0.
* **A selfie can back two marks** (`attendance_photo_reuse`, `modules/attendance/service.go:175`).
  `repository.go:111-112`: the check exists because "each column's UNIQUE cannot see the other column";
  a check-in and a check-out sent together both pass it.
* **The hierarchy can become a loop** (`directory_loop`, `modules/user/service.go:327`).
  `service.go:308-310` refuses a manager who reports to the user since "a loop would make someone their
  own supervisor"; two concurrent edits pass that check before either is written.

Others, seen while modelling and not made into runs:

* **A removed account does not stop working at once.** `modules/user/service.go:178-179` says it does, "because
  auth reads the same column", and `api/server/specs/user.yaml:155-156` promises it to clients. Login and refresh
  read the column; `middleware/auth.go:43-60` (`Auth`) only parses the access token, so one that is out keeps
  working, with the role it names, until it expires: 15 minutes, and as long as a request runs for one signed
  from what was read before the removal. `AccessIsRecent` is that bound and not the promise. A demotion or a
  deactivation takes as long.
* **A commit may be answered 504.** `CancelCorrection`, `CancelLeave`, `Logout` and the deletions answer a 204, the
  two that lead to a file a 302, by `WriteHeader` alone (`attendance_gen.go:936-939`). gin counts nothing as
  written, so when the deadline passes before the handler returns, `Timeout` (`middleware.go:164`) puts a 504 in
  its place although everything committed. A success with a body keeps its status however late. So a 504 of one
  of these twelve operations does not say that nothing happened, and whoever repeats the removal or cancellation
  is told 404 or 409. `AnswersTell` says that no other request that ended well is told 504.
* `attendances.schedule_id` is described as the hours in force at check-in (`00005_attendance.sql:8`), but
  a schedule's hours are edited in place; `MeasuresAgree` therefore leaves rewritten schedules out. The
  same edit, and a change of someone's default schedule, rewrite what rule A says of the past without an
  audit entry.
* A name of a schedule or an office that is taken is an `ErrConflict` "the handler maps"
  (`modules/schedule/repository.go:382`), but the four handlers have no case for it and their contracts no
  409: the client is told 500. `RefusalsReach` names the four.
* Contracts leave out a 400 that ten routes with an id in their path answer, the 400 and 413 of the bodies of
  login, logout and refresh, and 413, 500 and 504 everywhere.
* An edit of a holiday judges by the date read before its transaction (`modules/schedule/service.go:198`): if
  another call has moved the holiday into the past meanwhile, the edit of the past is not audited. Midnight
  between the start of a call and its write does the same. `PastExplained` names both. An audit entry
  that says nothing was there before may miss a row inserted since.
* `modules/schedule/service.go:137` says that retiring a schedule in use "would leave their days
  unresolvable". The counts before the deletion race with an assignment, and `Assign` takes a deleted
  schedule, but the days do resolve, since resolution reads deleted schedules too; `DailyTells` shows it.
* The list of who is in reads the clock after the rows, so a person who checks in between may be told absent.
* "Up to 8 hours past its shift's end" (`api/server/specs/attendance.yaml:56`,
  `modules/attendance/service.go:86`) holds for shifts of up to 12 hours: `OpenCheckIn` looks back 24 hours
  whatever the shift, so a check-in for a longer one may close sooner, as `constant.go:49` says of any check-in
  (`ClosesAsTold`).
* A logout that crosses a refresh finds its token already replaced and answers 204 with the session still open.
  A token logged out and replayed past the grace counts as reuse and ends the user's other sessions too.
* A rejection deletes by key: one that comes late may delete a good object put in place of the refused one,
  even one a row names already. A refused object stays when its deletion fails. An object never verified is
  never deleted. A key whose object vanishes between the two reads of a check is an error 500.

## 5. What is proved

All theorems hold for any sets of people, types, schedules, keys, requests and calls, any calendar and any
bounds, from the assumptions the modules name. They say that the constants have their types (the names end in
`Assumption`), that `None` and `Absent` are no value of any other kind, that what is in the tables at first is
well formed (`OutsetAssumption`, `FirstAssumption`) and that what callers ask is what validation lets in
(`InputsAssumption`, `ScriptsAssumption`, `BulksAssumption`). TLC evaluates the same assumptions in the runs.

**LeaveRequestsProofs.**

* `TypeCorrect`: `Spec => []TypeOK`.
* `QuotaSafety`, `ReservationSafety`: `NeverOverdrawn` and `ReservedDaysStand`, from `QuotaInv`.
  Neither is inductive. That a filing's days fit is known when it reads the balance and used when it
  inserts; in between, nothing else may spend them. So the invariant says that filings of a steady type
  are held to the quota (`SteadyIsLimited`), that a person has one filing past its balance check at
  a time, which is the lock (`OneHolder`), that the days it asked for still fit what it was told
  (`ReservedDaysStand`), and that what it was told is still allowed unless hr_admin reduced it
  (`AllowanceStands`). The counting is by sets: one pair for each charged day, so an insert adds exactly
  `working` of them and a settled request can only remove some.
* `LockedQuotaSafety`: `LockedQuotaStands`, which is inductive beside `TypeOK`: a call that read a row holds its
  lock until it ends, and every write asks that nobody else holds the row. From it `FoundDaysAreKept`: a
  `SetQuota` that found a row and names no carried-over days keeps those of the row it replaces. That is
  as much of `KeepsCarriedOver` as is true: one that found none locks nothing, which is the finding of section 4.
* `OwnerCannotReclaim`, `LeaveImplementsFlow`: from `SettleInv`. What a settling call found of its
  row's start and owner cannot change (`CancelChecked`, `DecideChecked`), and its update asks for the
  status it went by; so each `Settle` is a `Decide` or a `Withdraw` of ApprovalFlow, each insert
  a `File`, and every other step a stutter.

**AttendanceProofs.**

* `AttendanceTypes`: `Spec => []AttendanceTypeOK`; it needs that lateness and early leave lie
  between 0 and a whole day, which is a lemma about `ShiftRules`.
* `MeasuresSafety`, `OnlyCorrectionsEdit`, `CorrectionsImplementFlow`: from `CorrectionInv`. A mark
  under way has measured against the hours its row keeps (`MarksMeasured`); an approval under way has
  measured what it will write (`ApprovalsMeasured`), and the correction and the row it locked are still as
  it read them (`ApprovalsStand`), which holds because no two approvals hold the same one (`OneApproval`)
  and every other write waits for the lock.

* `CheckInGoesToNearest`, `ShortShiftsCloseAsTold`, `OpenShiftsCanBeClosed`: what `MCAttendance` checks
  of `pickShift` and `Closable` over every calendar of a six-tick day, for any length of day. The `CHOOSE` of `pickShift`
  has a value because of at most three shifts one is first by distance and date (`OneIsNearest`). A check-in
  stays closable as long as the API says when `MaxOpen` covers `OpensBefore`, the shift and `ClosesAfter`; by
  the constants of the code, a shift of at most 12 hours.

**DirectoryProofs.**

* `DirectoryTypes`, `RemovedAccountsStay`: `TypeOK`, `RemovedStays`.
* `RolesStayAudited`: `RolesAudited`, from `RInv`: entries name accounts that exist, and the last one about
  an account's role is the role on record; a step that changes roles appends exactly one.
* `HierarchyStaysSound`, `RemovalsKeepReach`: `HierarchySound` and `RemovalKeepsReach`, for a directory that is
  sound at first (`Spec /\ NoLoop /\ ManagersLive`), as the code has no way to repair one that is not. `Below` is the least
  set closed under direct reports, so closure and leastness (`BelowIsClosed`, `BelowIsLeast`) take the place
  of an induction over the hierarchy. Three lemmas about tables carry the argument: moving an account under
  somebody not below it (`MovedStaysForest`), adding one (`NewcomerStaysForest`) and removing one whose reports
  move up (`RemovedStaysForest`) each leave a forest. What a step needs of them was found earlier, by the
  call's checks, so `HInv` says that what a call checked still holds as long as nothing marked it stale
  (`StillChecked`), and that the hierarchy is a forest until a stale write.

**SessionsProofs.**

* `SessionTypes`: `TypeOK`.
* `SessionsImplementLife`: the refinement of SessionLife. `IInv` says that every row of a login expires with
  it and one at most is not revoked (`OneSession`), and that a refresh holding a row holds one that was not revoked
  and that no other refresh holds (`CallsHold`). So a rotation trades the one usable token for another, or does nothing to
  a session that ran out meanwhile (`Renew`, `TooLate`); a revocation only takes tokens away.
* `SessionsEndOnlyForCause`, `ReuseEndsAll`: `SessionsEndForCause` and `ReuseEndsSessions`, from the same
  invariant: a rotation passes the session on, so only a logout, an owner who does not work here and a
  revocation can leave it without a token; a call that revokes has seen a token revoked longer ago than the grace.
* `AccessStaysRecent`: `AccessIsRecent`, from `RolesHeld`: a role a call carries was held when the call read
  it, and no call outlives its limit.

* `EmailBudget`: `BudgetHolds`, from `WindowsKept`. Each attempt let through carries the end of its window and its
  number in it. Windows end at least their own length apart, no two attempts share window and number
  (`Apart`), and the counter that stands knows every number given in its window and is younger than every other
  window (`AttemptKept`). So of three attempts in the time of one window two are of one window (`TwoWindows`), and
  numbering those of both windows one after the other maps them one to one into `1..2 * MaxPerEmail`. The budget is one of
  attempts let through and not of passwords compared: a request that was let through late in one window may
  compare its password within the next, so within the time of one window passwords of three windows may be compared.

**UploadsProofs.**

* `UploadTypes`, `UploadsCommitAllowed`, `VerifiedObjectsStay`, `OnlyRefusedDeleted`: from `IInv`. A size is
  fixed by the URL, so no later read finds another (`SizesSigned`); a type is known only by reading, so an object
  that is not allowed marks its key (`RefusedSpoils`), and a check about to commit holds what the bucket
  holds unless its key is marked (`ChecksHold`).

**RosterProofs.**

* `RosterTypes`, `DaysStayResolvable`, `EntriesTellWhatWas`, `PastStaysExplained`: `TypeOK`, `DailyTells`,
  `EntriesTell`, `PastExplained`, from `IInv`. Schedules are only deleted softly, so whatever once named one
  still finds its row (`SchedulesFound`), also in a report that has read a name and not yet the row, and the rows
  a bulk write has read are still what it read (`CallKept`), because every writer of a row waits for
  its lock. `PastExplained` then goes by step: one that changes what rule A says of a past date writes the
  roster, a holiday, a schedule or a default, and each is told by its entry or is one of the exceptions.

**ServingProofs.**

* The tables of Contracts are joined of parts, so a fact about every operation is a fact about every part
  (`JoinedAt`, `JoinedDomain`); `ContractsTell` says that what a route turns away, a handler passes on and a service
  refuses with is declared, or is one of the answers the contracts leave out, for every operation of the API.
* `ServingTypes`, `AnswersTellTheTruth`, `AnswersAreDeclared`, `ExitsClean`: `TypeOK`, `AnswersTell`,
  `AnswersDeclared`, `CleanExit`, from `IInv`, for any scripts of statements and transactions, any pool and any
  probes. `AnswerTells` keeps, beside what a status says, whether its request was late and ended well: a late
  success without a body is told 504 after its commit. What is left of a request ends as its script does, and
  one that was to end in a transaction and has
  nothing left committed it (`ScriptFollowed`); how it fails is known from the moment it does, and only a
  refusal leaves nothing committed (`OutcomeKept`). Nobody is served before the dependencies are open nor, unless
  the process is to exit with 1, after them (`ServedWhileOpen`).

**Only model-checked**: liveness under fairness (`AllAnswered`, `Stops`) and what the MC modules check of folds
against their reference definitions (`DayRules!totals`, `Geofence!locate`). Both are out of the provers' reach: the first
needs ENABLED, the second induction over data. `RefusalsReach` of `MCServing` speaks of a fixed table, which TLC
evaluates whole. Every invariant and every action property of a passing run is proved. No module declares a RECURSIVE
operator.

## 6. What is not modelled, and the plan

Configuration is read once at the start; logging, rendering of CSV and PDF, and the schema migrations have no
behaviour of their own (the constraints migrations declare are guards of the actions they stop). Parsing and
formatting of payloads and the embedded API documents in the generated code, departments, the names and places
of offices, and the text of reasons and notes are data no property tells apart. The seeding of the first
account happens once before anything is served and is part of `Serving!Build`. The haversine formula, time
zones and daylight saving are left out: distances and ticks stand for them. The addresses a login comes from are
taken as given by the proxy.

What would come next:

1. **Composition**: Attendance's `plan` as rule A over Roster's tables, so that its `Replan` is implemented by
   Roster's actions; Sessions' `ChangeAccount` implemented by Directory's writes.
2. **Offices and departments**, the last tables whose edits are left out, and the races of `modules/schedule`
   and `modules/user` that no property covers yet.
