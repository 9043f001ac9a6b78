------------------------------ MODULE Attendance ------------------------------
(***************************************************************************)
(* The attendance module: attendances and attendance_corrections, and the  *)
(* calls of attendance.Service that change them, together with the edits   *)
(* of schedules and roster they read.  A check-in, a check-out, a request  *)
(* for a correction and an approval read in one action and write in a      *)
(* later one; everything another call does may land between the two.  An   *)
(* approval holds the rows it read locked until it writes.                 *)
(*                                                                         *)
(* Cancelling and rejecting a correction are one action each: all they     *)
(* read before the conditional update is columns that never change.  A     *)
(* call that is refused changes nothing, so it takes no action.            *)
(***************************************************************************)
EXTENDS ShiftRules, Sequences

CONSTANTS
    Users, Supervisors, Admins,  \* everyone; role at least supervisor; at least hr_admin
    Above,                 \* Above[u]: who has u in their subtree (user.SubtreeQuery)
    Schedules, Edits,      \* work schedules; Edits[s]: the hours hr_admin may give s
    Roster, Replans,       \* rule A's answer at first; changes of it <<user, date, schedule>>
    Keys, Owner,           \* uploaded selfies; whose upload each is
    Reports,               \* contents of daily reports
    Proposals,             \* what corrections may ask for
    MarkCalls, ProposeCalls, ApproveCalls,  \* concurrent requests of each kind
    FirstTick, LastTick, MaxCorrections     \* bounds: clock and rows

Dates == (dateIn(FirstTick) - 1)..(dateIn(LastTick) + 1)
Times == Int
Minutes == 0..DayLength

Proposal == [user : Users, by : Users, date : Dates,
             in : Times \cup {None}, out : Times \cup {None}]

ASSUME RolesAssumption ==
    /\ Admins \subseteq Supervisors /\ Supervisors \subseteq Users
    /\ Above \in [Users -> SUBSET Users]
    /\ Owner \in [Keys -> Users]
ASSUME BoundsAssumption ==
    /\ FirstTick \in Nat /\ LastTick \in Nat /\ FirstTick =< LastTick
    /\ MaxCorrections \in Nat
ASSUME InputsAssumption ==
    /\ Edits \in [Schedules -> SUBSET Hours]
    /\ Roster \in [Users \X Dates -> Schedules \cup {None}]
    /\ Replans \subseteq Users \X Dates \X (Schedules \cup {None})
    /\ Proposals \subseteq Proposal
    (* checkProposal and rule D's own-or-hr_admin. *)
    /\ \A p \in Proposals :
         /\ p.in # None \/ p.out # None
         /\ p.by = p.user \/ p.by \in Admins

VARIABLES
    now,          \* the clock
    hours,        \* work_schedules
    plan,         \* rule A: the schedule that applies to a person on a date
    rows,         \* attendances, by user and work date
    corrections,  \* attendance_corrections, in order of filing
    marks,        \* CheckIn and CheckOut calls under way
    proposing,    \* RequestCorrection calls under way
    approving,    \* approvals that hold their rows
    rewritten     \* history: schedules whose hours were ever edited

vars == <<now, hours, plan, rows, corrections, marks, proposing, approving, rewritten>>

-----------------------------------------------------------------------------
(* Types of the state. *)

Statuses == {"pending", "approved", "rejected", "cancelled"}

Row == [schedule : Schedules \cup {None}, in : Times, out : Times \cup {None},
        late : Minutes, early : Minutes,
        inPhoto : Keys \cup {None}, outPhoto : Keys \cup {None},
        report : Reports \cup {None}]

Correction == [asked : Proposal, status : Statuses, reviewer : Users \cup {None},
               oldIn : Times \cup {None}, oldOut : Times \cup {None}]

Mark == [side : {"in", "out"}, user : Users, date : Dates, at : Times, key : Keys,
         schedule : Schedules \cup {None}, minutes : Minutes]

Approval == [id : 1..MaxCorrections, by : Users, was : Row \cup {None}, next : Row]

(* NULL is no moment, no row and nobody. *)
ASSUME NoneAssumption ==
    /\ None \notin Int /\ None \notin Users /\ None \notin Proposal
    /\ None \notin Row /\ None \notin Mark /\ None \notin Approval
    /\ None \notin [owner : Users, status : Statuses, reviewer : Users \cup {None}]

AttendanceTypeOK ==
    /\ now \in FirstTick..LastTick
    /\ hours \in [Schedules -> Hours] /\ \A s \in Schedules : hours[s] \in Edits[s]
    /\ plan \in [Users \X Dates -> Schedules \cup {None}]
    /\ rows \in [Users \X Dates -> Row \cup {None}]
    /\ corrections \in Seq(Correction) /\ Len(corrections) =< MaxCorrections
    /\ marks \in [MarkCalls -> Mark \cup {None}]
    /\ proposing \in [ProposeCalls -> Proposals \cup {None}]
    /\ approving \in [ApproveCalls -> Approval \cup {None}]
    /\ \A c \in ApproveCalls : approving[c] # None => approving[c].id \in DOMAIN corrections
    /\ rewritten \subseteq Schedules

Init ==
    /\ now = FirstTick
    /\ hours \in [Schedules -> UNION {Edits[s] : s \in Schedules}]
    /\ \A s \in Schedules : hours[s] \in Edits[s]
    /\ plan = Roster
    /\ rows = [slot \in Users \X Dates |-> None]
    /\ corrections = <<>>
    /\ marks = [c \in MarkCalls |-> None]
    /\ proposing = [c \in ProposeCalls |-> None]
    /\ approving = [c \in ApproveCalls |-> None]
    /\ rewritten = {}

-----------------------------------------------------------------------------
(* What calls read. *)

hoursOf(s) == IF s = None THEN None ELSE hours[s]

(* Rule A for one person, as pickShift reads it. *)
Days(u) == [d \in Dates |-> hoursOf(plan[<<u, d>>])]

PhotoKeyUsed(key) ==
    \E slot \in Users \X Dates :
        rows[slot] # None /\ key \in {rows[slot].inPhoto, rows[slot].outPhoto}

(* What approvals under way hold locked: the correction... *)
CorrectionLocked(i) == \E c \in ApproveCalls : approving[c] # None /\ approving[c].id = i

Slot(asked) == <<asked.user, asked.date>>

(* Mutant: the row is read without FOR UPDATE. *)
RowNotLocked(slot) == FALSE

(* ...and the row it is about, if there is one. *)
RowLocked(slot) ==
    \E c \in ApproveCalls :
        /\ approving[c] # None /\ approving[c].was # None
        /\ Slot(corrections[approving[c].id].asked) = slot

(* Rule D: whose attendance someone may decide about. *)
reach(by, u) == by = u \/ by \in Admins \/ (by \in Supervisors /\ by \in Above[u])

-----------------------------------------------------------------------------
(* CheckIn and CheckOut. *)

(* The moment of the call decides its shift; its photo backs nothing yet.  *)
StartCheckIn(c, u, key, date) ==
    LET planned == plan[<<u, date>>]
    IN  /\ marks[c] = None
        /\ Owner[key] = u
        /\ ~TooEarly(now, Days(u))
        /\ date = pickShift(now, Days(u))
        /\ ~PhotoKeyUsed(key)
        /\ marks' = [marks EXCEPT ![c] =
              [side |-> "in", user |-> u, date |-> date, at |-> now, key |-> key,
               schedule |-> planned, minutes |-> lateMinutes(date, hoursOf(planned), now)]]
        /\ UNCHANGED <<now, hours, plan, rows, corrections, proposing, approving, rewritten>>

(* One row for a person and work date, one row for a check-in photo. *)
FinishCheckIn(c) ==
    LET m == marks[c]
        slot == <<m.user, m.date>>
    IN  /\ m # None /\ m.side = "in"
        /\ rows[slot] = None
        /\ \A other \in Users \X Dates : rows[other] # None => rows[other].inPhoto # m.key
        /\ rows' = [rows EXCEPT ![slot] =
              [schedule |-> m.schedule, in |-> m.at, out |-> None,
               late |-> m.minutes, early |-> 0,
               inPhoto |-> m.key, outPhoto |-> None, report |-> None]]
        /\ marks' = [marks EXCEPT ![c] = None]
        /\ UNCHANGED <<now, hours, plan, corrections, proposing, approving, rewritten>>

(* OpenCheckIn: work dates with an open check-in, none of them later. *)
LatestOpen(u) ==
    LET open == {d \in Dates : /\ rows[<<u, d>>] # None /\ rows[<<u, d>>].out = None
                               /\ rows[<<u, d>>].in >= now - MaxOpen}
    IN  {d \in open : \A e \in open : rows[<<u, e>>].in =< rows[<<u, d>>].in}

(* Mutant: measured against the roster of the day, not the hours kept. *)
StartCheckOutByRoster(c, u, key, date) ==
    LET kept == hoursOf(plan[<<u, date>>])
    IN  /\ marks[c] = None
        /\ Owner[key] = u
        /\ date \in LatestOpen(u)
        /\ Closable(date, kept, rows[<<u, date>>].in, now)
        /\ ~PhotoKeyUsed(key)
        /\ marks' = [marks EXCEPT ![c] =
              [side |-> "out", user |-> u, date |-> date, at |-> now, key |-> key,
               schedule |-> rows[<<u, date>>].schedule,
               minutes |-> earlyLeaveMinutes(date, kept, now)]]
        /\ UNCHANGED <<now, hours, plan, rows, corrections, proposing, approving, rewritten>>

(* The hours the row kept say whether it may still be closed and how early. *)
StartCheckOut(c, u, key, date) ==
    LET row == rows[<<u, date>>]
        kept == hoursOf(row.schedule)
    IN  /\ marks[c] = None
        /\ Owner[key] = u
        /\ date \in LatestOpen(u)
        /\ Closable(date, kept, row.in, now)
        /\ ~PhotoKeyUsed(key)
        /\ marks' = [marks EXCEPT ![c] =
              [side |-> "out", user |-> u, date |-> date, at |-> now, key |-> key,
               schedule |-> row.schedule,
               minutes |-> earlyLeaveMinutes(date, kept, now)]]
        /\ UNCHANGED <<now, hours, plan, rows, corrections, proposing, approving, rewritten>>

(* The constraints of the table: a check-out photo backs one row, and a     *)
(* check-out is after the check-in, wherever a correction has moved it.     *)
OutAllowed(slot, m) ==
    /\ rows[slot].in < m.at
    /\ \A other \in Users \X Dates : rows[other] # None => rows[other].outPhoto # m.key

(* Mutant: the update does not ask for a row that is still open. *)
FinishCheckOutAnyway(c) ==
    LET m == marks[c]
        slot == <<m.user, m.date>>
    IN  /\ m # None /\ m.side = "out"
        /\ ~RowLocked(slot)
        /\ OutAllowed(slot, m)
        /\ rows' = [rows EXCEPT ![slot].out = m.at, ![slot].outPhoto = m.key,
                                ![slot].early = m.minutes]
        /\ marks' = [marks EXCEPT ![c] = None]
        /\ UNCHANGED <<now, hours, plan, corrections, proposing, approving, rewritten>>

(* The update finds the row still open; it writes its own columns only. *)
FinishCheckOut(c) ==
    LET m == marks[c]
        slot == <<m.user, m.date>>
    IN  /\ m # None /\ m.side = "out"
        /\ ~RowLocked(slot)
        /\ rows[slot].out = None
        /\ OutAllowed(slot, m)
        /\ rows' = [rows EXCEPT ![slot].out = m.at, ![slot].outPhoto = m.key,
                                ![slot].early = m.minutes]
        /\ marks' = [marks EXCEPT ![c] = None]
        /\ UNCHANGED <<now, hours, plan, corrections, proposing, approving, rewritten>>

(* The upload check, a geofence, a constraint, a conflict or a timeout. *)
MarkFails(c) ==
    /\ marks[c] # None
    /\ marks' = [marks EXCEPT ![c] = None]
    /\ UNCHANGED <<now, hours, plan, rows, corrections, proposing, approving, rewritten>>

SaveDailyReport(slot, content) ==
    /\ rows[slot] # None
    /\ ~RowLocked(slot)
    /\ rows' = [rows EXCEPT ![slot].report = content]
    /\ UNCHANGED <<now, hours, plan, corrections, marks, proposing, approving, rewritten>>

-----------------------------------------------------------------------------
(* RequestCorrection. *)

(* Every time asked for has passed and lies within Slack of the work date. *)
checkProposal(asked) ==
    /\ asked.date =< dateIn(now)
    /\ \A at \in {asked.in, asked.out} \ {None} :
         /\ at =< now
         /\ asked.date * DayLength - Slack =< at
         /\ at =< (asked.date + 1) * DayLength + Slack

(* What a correction is laid over: the row held, or a blank one under rule A. *)
Current(slot) ==
    IF rows[slot] # None THEN rows[slot]
    ELSE [schedule |-> plan[slot], in |-> None, out |-> None, late |-> 0, early |-> 0,
          inPhoto |-> None, outPhoto |-> None, report |-> None]

(* Its times, where the correction asks for others. *)
correctedIn(asked) == IF asked.in # None THEN asked.in ELSE Current(Slot(asked)).in
correctedOut(asked) == IF asked.out # None THEN asked.out ELSE Current(Slot(asked)).out

(* Refused otherwise: no check-in, or a check-out that is not after it. *)
Applies(asked) ==
    /\ correctedIn(asked) # None
    /\ correctedOut(asked) # None => correctedIn(asked) < correctedOut(asked)

StartRequest(c, asked) ==
    /\ proposing[c] = None
    /\ checkProposal(asked)
    /\ Applies(asked)
    /\ proposing' = [proposing EXCEPT ![c] = asked]
    /\ UNCHANGED <<now, hours, plan, rows, corrections, marks, approving, rewritten>>

(* One open correction for a person and work date. *)
FinishRequest(c) ==
    LET asked == proposing[c]
    IN  /\ asked # None
        /\ Len(corrections) < MaxCorrections
        /\ \A i \in DOMAIN corrections :
             corrections[i].status = "pending" => Slot(corrections[i].asked) # Slot(asked)
        /\ corrections' = Append(corrections,
              [asked |-> asked, status |-> "pending", reviewer |-> None,
               oldIn |-> None, oldOut |-> None])
        /\ proposing' = [proposing EXCEPT ![c] = None]
        /\ UNCHANGED <<now, hours, plan, rows, marks, approving, rewritten>>

RequestFails(c) ==
    /\ proposing[c] # None
    /\ proposing' = [proposing EXCEPT ![c] = None]
    /\ UNCHANGED <<now, hours, plan, rows, corrections, marks, approving, rewritten>>

-----------------------------------------------------------------------------
(* CancelCorrection and DecideCorrection. *)

(* Mutant: the update does not ask for a pending correction. *)
CancelAnyStatus(by, i) ==
    /\ ~CorrectionLocked(i)
    /\ by \in {corrections[i].asked.user, corrections[i].asked.by}
    /\ corrections' = [corrections EXCEPT ![i].status = "cancelled"]
    /\ UNCHANGED <<now, hours, plan, rows, marks, proposing, approving, rewritten>>

(* The employee it is about, or whoever filed it. *)
Cancel(by, i) ==
    /\ ~CorrectionLocked(i)
    /\ corrections[i].status = "pending"
    /\ by \in {corrections[i].asked.user, corrections[i].asked.by}
    /\ corrections' = [corrections EXCEPT ![i].status = "cancelled"]
    /\ UNCHANGED <<now, hours, plan, rows, marks, proposing, approving, rewritten>>

(* Someone above the employee or hr_admin, never the employee. *)
MayDecide(by, i) ==
    /\ by \in Supervisors
    /\ by # corrections[i].asked.user
    /\ reach(by, corrections[i].asked.user)

Reject(by, i) ==
    /\ ~CorrectionLocked(i)
    /\ corrections[i].status = "pending"
    /\ MayDecide(by, i)
    /\ corrections' = [corrections EXCEPT ![i].status = "rejected", ![i].reviewer = by]
    /\ UNCHANGED <<now, hours, plan, rows, marks, proposing, approving, rewritten>>

(* Mutant: the lateness on record stays. *)
correctedTimesOnly(asked) ==
    [Current(Slot(asked)) EXCEPT !.in = correctedIn(asked), !.out = correctedOut(asked)]

(* Both minutes measured anew, under the hours the row kept. *)
corrected(asked) ==
    LET current == Current(Slot(asked))
        kept == hoursOf(current.schedule)
        in == correctedIn(asked)
        out == correctedOut(asked)
    IN  [current EXCEPT !.in = in, !.out = out,
            !.late = lateMinutes(asked.date, kept, in),
            !.early = IF out = None THEN @ ELSE earlyLeaveMinutes(asked.date, kept, out)]

(* Approve: lock the correction and the row it is about, if there is one.  *)
StartApprove(c, by, i) ==
    LET asked == corrections[i].asked
    IN  /\ approving[c] = None
        /\ MayDecide(by, i)
        /\ ~CorrectionLocked(i) /\ ~RowLocked(Slot(asked))
        /\ corrections[i].status = "pending"
        /\ Applies(asked)
        /\ approving' = [approving EXCEPT ![c] =
              [id |-> i, by |-> by, was |-> rows[Slot(asked)], next |-> corrected(asked)]]
        /\ UNCHANGED <<now, hours, plan, rows, corrections, marks, proposing, rewritten>>

(* Write the times, the measures and the times they replace, and settle.   *)
(* A row that appeared where there was none is a conflict.                 *)
FinishApprove(c) ==
    LET a == approving[c]
        slot == Slot(corrections[a.id].asked)
        replaced == a.was # None
    IN  /\ a # None
        /\ ~replaced => rows[slot] = None
        /\ rows' = IF replaced
                   THEN [rows EXCEPT ![slot].in = a.next.in, ![slot].out = a.next.out,
                                     ![slot].late = a.next.late, ![slot].early = a.next.early]
                   ELSE [rows EXCEPT ![slot] = a.next]
        /\ corrections' = [corrections EXCEPT
              ![a.id].status = "approved", ![a.id].reviewer = a.by,
              ![a.id].oldIn = IF replaced THEN a.was.in ELSE None,
              ![a.id].oldOut = IF replaced THEN a.was.out ELSE None]
        /\ approving' = [approving EXCEPT ![c] = None]
        /\ UNCHANGED <<now, hours, plan, marks, proposing, rewritten>>

ApproveFails(c) ==
    /\ approving[c] # None
    /\ approving' = [approving EXCEPT ![c] = None]
    /\ UNCHANGED <<now, hours, plan, rows, corrections, marks, proposing, rewritten>>

-----------------------------------------------------------------------------
(* What others change meanwhile. *)

(* ReplaceSchedule edits a schedule's hours in place. *)
ReplaceSchedule(s, h) ==
    /\ hours[s] # h
    /\ hours' = [hours EXCEPT ![s] = h]
    /\ rewritten' = rewritten \cup {s}
    /\ UNCHANGED <<now, plan, rows, corrections, marks, proposing, approving>>

(* Another answer of rule A: the roster, a holiday or a default schedule. *)
Replan(u, d, s) ==
    /\ plan[<<u, d>>] # s
    /\ plan' = [plan EXCEPT ![<<u, d>>] = s]
    /\ UNCHANGED <<now, hours, rows, corrections, marks, proposing, approving, rewritten>>

(* A request lives 30 seconds (middleware.Timeout): a mark under way sees   *)
(* the clock move once at most.                                             *)
Tick ==
    /\ now < LastTick
    /\ \A c \in MarkCalls : marks[c] # None => marks[c].at = now
    /\ now' = now + 1
    /\ UNCHANGED <<hours, plan, rows, corrections, marks, proposing, approving, rewritten>>

-----------------------------------------------------------------------------
MarkStep(c) ==
    \/ \E u \in Users, key \in Keys, date \in Dates :
         StartCheckIn(c, u, key, date) \/ StartCheckOut(c, u, key, date)
    \/ FinishCheckIn(c)
    \/ FinishCheckOut(c)
    \/ MarkFails(c)

RequestStep(c) ==
    \/ \E asked \in Proposals : StartRequest(c, asked)
    \/ FinishRequest(c)
    \/ RequestFails(c)

DecideStep ==
    \E by \in Users, i \in DOMAIN corrections :
        Cancel(by, i) \/ Reject(by, i) \/ \E c \in ApproveCalls : StartApprove(c, by, i)

ApproveStep(c) == FinishApprove(c) \/ ApproveFails(c)

PlanStep ==
    \/ \E s \in Schedules : \E h \in Edits[s] : ReplaceSchedule(s, h)
    \/ \E change \in Replans : Replan(change[1], change[2], change[3])

Next ==
    \/ \E c \in MarkCalls : MarkStep(c)
    \/ \E slot \in Users \X Dates, content \in Reports : SaveDailyReport(slot, content)
    \/ \E c \in ProposeCalls : RequestStep(c)
    \/ DecideStep
    \/ \E c \in ApproveCalls : ApproveStep(c)
    \/ PlanStep
    \/ Tick

Spec == Init /\ [][Next]_vars

-----------------------------------------------------------------------------
(* Properties. *)

(* A row's lateness and early leave are those of its times under the hours  *)
(* it kept, whatever the roster says by now and however check-outs and      *)
(* approvals interleave; only hours edited in place can break that.         *)
MeasuresAgree ==
    \A slot \in Users \X Dates :
        LET row == rows[slot]
            kept == hoursOf(row.schedule)
        IN  row # None /\ row.schedule \notin rewritten =>
              /\ row.late = lateMinutes(slot[2], kept, row.in)
              /\ row.early = IF row.out = None THEN 0
                             ELSE earlyLeaveMinutes(slot[2], kept, row.out)

(* Attendance is never edited directly: a time on record changes only with  *)
(* the approval, by someone else, of a pending correction that asked for    *)
(* it and that keeps both times as they stood (README.md:107-108).          *)
ApprovedBy(i, slot) ==
    LET before == corrections[i]
        after == corrections'[i]
        row == rows[slot]
    IN  /\ Slot(before.asked) = slot
        /\ before.status = "pending" /\ after.status = "approved"
        /\ after.reviewer # before.asked.user
        /\ after.oldIn = row.in /\ after.oldOut = row.out
        /\ rows'[slot].in \in {before.asked.in, row.in}
        /\ rows'[slot].out \in {before.asked.out, row.out}

EditedOnlyByCorrection ==
    [][\A slot \in Users \X Dates :
          rows[slot] # None =>
             /\ rows'[slot] # None
             /\ \/ rows'[slot].in # rows[slot].in
                \/ rows[slot].out # None /\ rows'[slot].out # rows[slot].out
                => \E i \in DOMAIN corrections : ApprovedBy(i, slot)]_vars

(* Why both hold.  What a mark under way measured is what its row keeps;    *)
(* what an approval read stands until it writes, since nobody else holds    *)
(* its correction or its row.                                               *)
MarksMeasured ==
    \A c \in MarkCalls :
        LET m == marks[c]
            slot == <<m.user, m.date>>
            kept == hoursOf(m.schedule)
        IN  m # None =>
              /\ m.side = "out" => rows[slot] # None /\ rows[slot].schedule = m.schedule
              /\ m.schedule \notin rewritten =>
                   m.minutes = IF m.side = "in" THEN lateMinutes(m.date, kept, m.at)
                               ELSE earlyLeaveMinutes(m.date, kept, m.at)

ApprovalsMeasured ==
    \A c \in ApproveCalls :
        LET a == approving[c]
            asked == corrections[a.id].asked
            kept == hoursOf(a.next.schedule)
        IN  a # None /\ a.next.schedule \notin rewritten =>
              /\ a.next.late = lateMinutes(asked.date, kept, a.next.in)
              /\ a.next.early = IF a.next.out = None THEN 0
                                ELSE earlyLeaveMinutes(asked.date, kept, a.next.out)

ApprovalsStand ==
    \A c \in ApproveCalls :
        LET a == approving[c]
            asked == corrections[a.id].asked
        IN  a # None =>
              /\ corrections[a.id].status = "pending"
              /\ a.by # asked.user
              /\ a.was # None =>
                   /\ rows[Slot(asked)] = a.was
                   /\ a.next.schedule = a.was.schedule
                   /\ a.next.in \in {asked.in, a.was.in}
                   /\ a.next.out \in {asked.out, a.was.out}

OneApproval ==
    \A c, d \in ApproveCalls :
        approving[c] # None /\ approving[d] # None /\ c # d =>
          /\ approving[c].id # approving[d].id
          /\ approving[c].was # None /\ approving[d].was # None =>
               Slot(corrections[approving[c].id].asked) # Slot(corrections[approving[d].id].asked)

CorrectionInv ==
    /\ AttendanceTypeOK
    /\ MeasuresAgree
    /\ MarksMeasured
    /\ ApprovalsMeasured
    /\ ApprovalsStand
    /\ OneApproval

(* A correction is decided at most once and never by the employee it is     *)
(* about, and only a pending one is withdrawn (constant.go:39).             *)
Filed == [i \in 1..MaxCorrections |->
            IF i \in DOMAIN corrections
            THEN [owner |-> corrections[i].asked.user, status |-> corrections[i].status,
                  reviewer |-> corrections[i].reviewer]
            ELSE None]

Flow == INSTANCE ApprovalFlow WITH
            Requests <- 1..MaxCorrections, People <- Users,
            Withdrawable <- {"pending"}, Unreviewed <- {"pending"}, request <- Filed

FlowSpec == Flow!Spec

(* A selfie backs one mark: PhotoKeyUsed looks at both columns, because     *)
(* each column's UNIQUE cannot see the other (repository.go:111-112).       *)
PhotoBacksOneMark ==
    \A slot, other \in Users \X Dates :
        rows[slot] # None /\ rows[other] # None /\ rows[slot].inPhoto # None
            => rows[slot].inPhoto # rows[other].outPhoto
=============================================================================
