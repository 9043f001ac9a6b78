------------------------------ MODULE Roster ------------------------------
(***************************************************************************)
(* The schedule module: work schedules, holidays and the roster, the       *)
(* audit entries an edit of the past leaves, and the calls that answer     *)
(* where a person stands from what they read in several statements.        *)
(*                                                                         *)
(* Each statement sees what is committed when it starts (READ COMMITTED).  *)
(* A call decides what is past by the date at its start.  audit_logs only  *)
(* grows, so the model keeps what the last step added to it.               *)
(***************************************************************************)
EXTENDS DayRules, FiniteSets

CONSTANTS
    People,
    Dates,         \* bound: calendar dates, numbered
    ScheduleIds, HolidayIds,   \* bound: rows ever created
    Contents,      \* what a schedule may say
    Bulks,         \* what a bulk write may ask: slots and what each is given
    FirstSchedules, FirstDefaults, FirstToday,
    Calls,         \* concurrent requests
    Off            \* a roster row that names no schedule

Slots == People \X Dates

(* "deleted" is soft: the row stays. *)
ScheduleRow == [content : Schedule, deleted : BOOLEAN]

Entry == [kind : {"shift"}, slot : Slots, was : ScheduleIds \cup {Off, None}, is : ScheduleIds \cup {Off, None}]
         \cup [kind : {"holiday"}, was : Dates \cup {None}, is : Dates \cup {None}]

(* "before" is what the rows to replace held, once they were read and locked. *)
AssignCall == UNION {
    [kind : {"assign"}, rows : {rows}, today : Dates,
     before : {None} \cup [DOMAIN rows -> ScheduleIds \cup {Off, None}]] : rows \in Bulks}
UnassignCall == [kind : {"unassign"}, slot : Slots, row : ScheduleIds \cup {Off}, today : Dates, gone : BOOLEAN]
HolidayCall == [kind : {"holiday"}, id : HolidayIds \cup {None}, was : Dates \cup {None}, is : Dates \cup {None},
                today : Dates]
RetireCall == [kind : {"retire"}, schedule : ScheduleIds, today : Dates, counted : {"none", "users", "both"}]
DailyCall == [kind : {"daily"}, step : {"roster", "holidays", "schedules"}, slot : Slots,
              default : ScheduleIds \cup {None}, row : ScheduleIds \cup {Off, None}, holiday : BOOLEAN]
Call == AssignCall \cup UnassignCall \cup HolidayCall \cup RetireCall \cup DailyCall

Told == [slot : Slots, status : Statuses, row : ScheduleIds \cup {Off, None}, holiday : BOOLEAN]

ASSUME DatesAssumption == Dates \subseteq Nat /\ FirstToday \in Dates
ASSUME ContentsAssumption == Contents \subseteq Schedule
ASSUME BulksAssumption ==
    \A rows \in Bulks : DOMAIN rows # {} /\ DOMAIN rows \subseteq Slots
                        /\ \A slot \in DOMAIN rows : rows[slot] \in ScheduleIds \cup {Off}
ASSUME FirstAssumption ==
    /\ FirstSchedules \in [ScheduleIds -> Contents \cup {None}]
    /\ FirstDefaults \in [People -> ScheduleIds \cup {None}]
    /\ \A p \in People : FirstDefaults[p] # None => FirstSchedules[FirstDefaults[p]] # None
ASSUME AbsentAssumption ==
    /\ None \notin ScheduleIds \cup Schedule \cup Dates \cup HolidayIds \cup ScheduleRow
    /\ Off \notin ScheduleIds /\ Off # None

VARIABLES
    schedules,  \* work_schedules
    defaults,   \* users.default_schedule_id
    roster,     \* shift_assignments: one row for a person and a date
    holidays,   \* holidays
    dropped,    \* holiday rows that were deleted: their ids never return
    today,      \* in the company's zone
    calls,      \* requests under way
    written,    \* what the last step added to audit_logs
    told        \* what the last step answered about a day

tables == <<schedules, defaults, roster, holidays, dropped>>
vars == <<schedules, defaults, roster, holidays, dropped, today, calls, written, told>>

Init ==
    /\ schedules = [s \in ScheduleIds |->
           IF FirstSchedules[s] = None THEN None ELSE [content |-> FirstSchedules[s], deleted |-> FALSE]]
    /\ defaults = FirstDefaults
    /\ roster = [slot \in Slots |-> None]
    /\ holidays = [h \in HolidayIds |-> None]
    /\ dropped = {}
    /\ today = FirstToday
    /\ calls = [c \in Calls |-> None]
    /\ written = {}
    /\ told = None

isPast(date, day) == date < day

Quiet == written' = {} /\ told' = None

Is(c, kind) == calls[c] # None /\ calls[c].kind = kind

Starts(c, call) ==
    /\ calls[c] = None
    /\ calls' = [calls EXCEPT ![c] = call]
    /\ UNCHANGED <<tables, today>> /\ Quiet

Ends(c) == calls' = [calls EXCEPT ![c] = None]

(* A bug the code avoids: the rows are read without FOR UPDATE. *)
HeldByNobody(c, slot) == FALSE

(* A slot whose row another open transaction has locked. *)
Held(c, slot) ==
    \E other \in Calls \ {c} :
        /\ Is(other, "assign") /\ calls[other].before # None
        /\ slot \in DOMAIN calls[other].before /\ calls[other].before[slot] # None

-----------------------------------------------------------------------------
(* Bulk roster writes. *)

StartAssign(c, rows) ==
    Starts(c, [kind |-> "assign", rows |-> rows, today |-> today, before |-> None])

(* Only a write to a past date is audited, and only then are the rows it replaces read. *)
Audits(call) == \E slot \in DOMAIN call.rows : isPast(slot[2], call.today)

(* Rows that are there are locked; a row that is not there cannot be. *)
lockAssignments(c) ==
    /\ Is(c, "assign") /\ Audits(calls[c]) /\ calls[c].before = None
    /\ \A slot \in DOMAIN calls[c].rows : roster[slot] # None => ~Held(c, slot)
    /\ calls' = [calls EXCEPT ![c].before = [slot \in DOMAIN calls[c].rows |-> roster[slot]]]
    /\ UNCHANGED <<tables, today>> /\ Quiet

(* A bug the code avoids: only what a past date held is compared with today, not what it is given. *)
auditOverwritten(call) ==
    {[kind |-> "shift", slot |-> slot, was |-> call.before[slot], is |-> call.rows[slot]] :
        slot \in {s \in DOMAIN call.rows : isPast(s[2], call.today) /\ call.before[s] # None}}

auditAssigned(call) ==
    {[kind |-> "shift", slot |-> slot, was |-> call.before[slot], is |-> call.rows[slot]] :
        slot \in {s \in DOMAIN call.rows : isPast(s[2], call.today)}}

(* Every row of the request is written, or none; the foreign key accepts a schedule that was deleted. *)
UpsertAssignments(c) ==
    /\ Is(c, "assign")
    /\ Audits(calls[c]) => calls[c].before # None
    /\ \A slot \in DOMAIN calls[c].rows :
           /\ ~Held(c, slot)
           /\ calls[c].rows[slot] # Off => schedules[calls[c].rows[slot]] # None
    /\ roster' = [slot \in Slots |->
           IF slot \in DOMAIN calls[c].rows THEN calls[c].rows[slot] ELSE roster[slot]]
    /\ written' = IF Audits(calls[c]) THEN auditAssigned(calls[c]) ELSE {}
    /\ told' = None
    /\ Ends(c)
    /\ UNCHANGED <<schedules, defaults, holidays, dropped, today>>

(* The row is read by its id, outside the transaction that deletes it. *)
StartUnassign(c, slot) ==
    /\ roster[slot] # None
    /\ Starts(c, [kind |-> "unassign", slot |-> slot, row |-> roster[slot], today |-> today, gone |-> FALSE])

(* An upsert keeps the row and its id; after a deletion the id finds nothing. *)
DeleteAssignment(c) ==
    /\ Is(c, "unassign") /\ ~calls[c].gone
    /\ ~Held(c, calls[c].slot)
    /\ LET slot == calls[c].slot
       IN  /\ roster' = [roster EXCEPT ![slot] = None]
           /\ written' = IF isPast(slot[2], calls[c].today)
                         THEN {[kind |-> "shift", slot |-> slot, was |-> calls[c].row, is |-> None]} ELSE {}
           /\ calls' = [other \in Calls |->
                  IF other = c THEN None
                  ELSE IF Is(other, "unassign") /\ calls[other].slot = slot THEN [calls[other] EXCEPT !.gone = TRUE]
                  ELSE calls[other]]
    /\ told' = None
    /\ UNCHANGED <<schedules, defaults, holidays, dropped, today>>

-----------------------------------------------------------------------------
(* Holidays. *)

Live(h) == holidays[h] # None

StartCreateHoliday(c, date) ==
    Starts(c, [kind |-> "holiday", id |-> None, was |-> None, is |-> date, today |-> today])

StartReplaceHoliday(c, h, date) ==
    /\ Live(h)
    /\ Starts(c, [kind |-> "holiday", id |-> h, was |-> holidays[h], is |-> date, today |-> today])

StartDeleteHoliday(c, h) ==
    /\ Live(h)
    /\ Starts(c, [kind |-> "holiday", id |-> h, was |-> holidays[h], is |-> None, today |-> today])

(* A bug the code avoids: a holiday moved into the past is judged by the date it leaves. *)
auditHolidayBefore(call) ==
    IF call.was # None /\ isPast(call.was, call.today)
    THEN {[kind |-> "holiday", was |-> call.was, is |-> call.is]} ELSE {}

auditHoliday(call) ==
    IF \E date \in {call.was, call.is} \ {None} : isPast(date, call.today)
    THEN {[kind |-> "holiday", was |-> call.was, is |-> call.is]} ELSE {}

(* date is unique. *)
Takes(h, date) == \A other \in HolidayIds \ {h} : holidays[other] # date

(* A bug the code avoids: an edit that finds no row writes one. *)
FinishHolidayAnyway(c, h) ==
    /\ Is(c, "holiday")
    /\ IF calls[c].id = None THEN ~Live(h) /\ h \notin dropped ELSE h = calls[c].id
    /\ calls[c].is # None => Takes(h, calls[c].is)
    /\ holidays' = [holidays EXCEPT ![h] = calls[c].is]
    /\ dropped' = IF calls[c].is = None THEN dropped \cup {h} ELSE dropped
    /\ written' = auditHoliday(calls[c])
    /\ told' = None
    /\ Ends(c)
    /\ UNCHANGED <<schedules, defaults, roster, today>>

FinishHoliday(c, h) ==
    /\ Is(c, "holiday")
    /\ IF calls[c].id = None THEN ~Live(h) /\ h \notin dropped ELSE h = calls[c].id /\ Live(h)
    /\ calls[c].is # None => Takes(h, calls[c].is)
    /\ holidays' = [holidays EXCEPT ![h] = calls[c].is]
    /\ dropped' = IF calls[c].is = None THEN dropped \cup {h} ELSE dropped
    /\ written' = auditHoliday(calls[c])
    /\ told' = None
    /\ Ends(c)
    /\ UNCHANGED <<schedules, defaults, roster, today>>

-----------------------------------------------------------------------------
(* Work schedules. *)

CreateSchedule(s, content) ==
    /\ schedules[s] = None
    /\ schedules' = [schedules EXCEPT ![s] = [content |-> content, deleted |-> FALSE]]
    /\ UNCHANGED <<defaults, roster, holidays, dropped, today, calls>> /\ Quiet

(* Edited in place: the past it was used in reads differently from now on, and no entry says so. *)
ReplaceSchedule(s, content) ==
    /\ schedules[s] # None /\ ~schedules[s].deleted
    /\ schedules' = [schedules EXCEPT ![s].content = content]
    /\ UNCHANGED <<defaults, roster, holidays, dropped, today, calls>> /\ Quiet

StartRetire(c, s) ==
    /\ schedules[s] # None
    /\ Starts(c, [kind |-> "retire", schedule |-> s, today |-> today, counted |-> "none"])

(* The two counts of ScheduleInUse, then the deletion: three statements. *)
CountUsers(c) ==
    /\ Is(c, "retire") /\ calls[c].counted = "none"
    /\ \A p \in People : defaults[p] # calls[c].schedule
    /\ calls' = [calls EXCEPT ![c].counted = "users"]
    /\ UNCHANGED <<tables, today>> /\ Quiet

CountAssignments(c) ==
    /\ Is(c, "retire") /\ calls[c].counted = "users"
    /\ \A slot \in Slots : roster[slot] = calls[c].schedule => isPast(slot[2], calls[c].today)
    /\ calls' = [calls EXCEPT ![c].counted = "both"]
    /\ UNCHANGED <<tables, today>> /\ Quiet

DeleteSchedule(c) ==
    /\ Is(c, "retire") /\ calls[c].counted = "both"
    /\ ~schedules[calls[c].schedule].deleted
    /\ schedules' = [schedules EXCEPT ![calls[c].schedule].deleted = TRUE]
    /\ Ends(c)
    /\ UNCHANGED <<defaults, roster, holidays, dropped, today>> /\ Quiet

(* The user module checks that the schedule is not deleted before it writes: it may be by then. *)
SetDefault(p, s) ==
    /\ s # None => schedules[s] # None
    /\ defaults' = [defaults EXCEPT ![p] = s]
    /\ UNCHANGED <<schedules, roster, holidays, dropped, today, calls>> /\ Quiet

-----------------------------------------------------------------------------
(* Where a person stands on a date: rule B, and rule A below it. *)

(* The person is read first, with their default schedule. *)
StartDaily(c, slot) ==
    Starts(c, [kind |-> "daily", step |-> "roster", slot |-> slot,
               default |-> defaults[slot[1]], row |-> None, holiday |-> FALSE])

ListAssignments(c) ==
    /\ Is(c, "daily") /\ calls[c].step = "roster"
    /\ calls' = [calls EXCEPT ![c].step = "holidays", ![c].row = roster[calls[c].slot]]
    /\ UNCHANGED <<tables, today>> /\ Quiet

ListHolidays(c) ==
    /\ Is(c, "daily") /\ calls[c].step = "holidays"
    /\ calls' = [calls EXCEPT ![c].step = "schedules",
                              ![c].holiday = \E h \in HolidayIds : holidays[h] = calls[c].slot[2]]
    /\ UNCHANGED <<tables, today>> /\ Quiet

(* A bug the code avoids: a schedule that was deleted is not found. *)
liveOnly(s) ==
    IF s \in ScheduleIds /\ ~schedules[s].deleted THEN schedules[s].content ELSE None

(* Unscoped: a schedule that was deleted is found like any other. *)
scheduleByID(s) ==
    IF s \in ScheduleIds THEN schedules[s].content ELSE None

inputs(default, row, holiday) ==
    [rostered |-> row # None, assigned |-> scheduleByID(row), default |-> scheduleByID(default),
     holiday |-> holiday]

(* The schedules are read last, and the clock after them; attendance and approved leave, which were read
   before the roster, belong to other modules. *)
FinishDaily(c, attended, away, at) ==
    /\ Is(c, "daily") /\ calls[c].step = "schedules"
    /\ dateIn(at) = today
    /\ LET call == calls[c]
       IN  told' = [slot |-> call.slot, row |-> call.row, holiday |-> call.holiday,
                    status |-> dailyStatus(call.slot[2], attended, away,
                                           inputs(call.default, call.row, call.holiday), at)]
    /\ written' = {}
    /\ Ends(c)
    /\ UNCHANGED <<tables, today>>

-----------------------------------------------------------------------------

(* A refusal, a conflict, a row that is gone, a deadlock or a timeout: nothing is written. *)
CallFails(c) ==
    /\ calls[c] # None
    /\ Ends(c)
    /\ UNCHANGED <<tables, today>> /\ Quiet

Midnight ==
    /\ today + 1 \in Dates
    /\ today' = today + 1
    /\ UNCHANGED <<tables, calls>> /\ Quiet

AssignStep(c) == (\E rows \in Bulks : StartAssign(c, rows)) \/ lockAssignments(c) \/ UpsertAssignments(c)
UnassignStep(c) == (\E slot \in Slots : StartUnassign(c, slot)) \/ DeleteAssignment(c)
HolidayStep(c) ==
    \/ \E date \in Dates : StartCreateHoliday(c, date)
    \/ \E h \in HolidayIds :
           \/ \E date \in Dates : StartReplaceHoliday(c, h, date)
           \/ StartDeleteHoliday(c, h)
           \/ FinishHoliday(c, h)
ScheduleStep == \E s \in ScheduleIds, content \in Contents : CreateSchedule(s, content) \/ ReplaceSchedule(s, content)
RetireStep(c) ==
    \/ \E s \in ScheduleIds : StartRetire(c, s)
    \/ CountUsers(c) \/ CountAssignments(c) \/ DeleteSchedule(c)
DailyStep(c) ==
    \/ \E slot \in Slots : StartDaily(c, slot)
    \/ ListAssignments(c) \/ ListHolidays(c)
    \/ \E attended \in {"present", "late", None}, away \in BOOLEAN,
          at \in today * DayLength .. (today + 1) * DayLength - 1 : FinishDaily(c, attended, away, at)
DefaultStep == \E p \in People, s \in ScheduleIds \cup {None} : SetDefault(p, s)

Next ==
    \/ \E c \in Calls : AssignStep(c) \/ UnassignStep(c) \/ HolidayStep(c) \/ RetireStep(c) \/ DailyStep(c) \/ CallFails(c)
    \/ ScheduleStep \/ DefaultStep \/ Midnight

Spec == Init /\ [][Next]_vars

-----------------------------------------------------------------------------
(* Properties. *)

(* The state's shape; a holiday that was deleted is not there. *)
TypeOK ==
    /\ schedules \in [ScheduleIds -> ScheduleRow \cup {None}]
    /\ defaults \in [People -> ScheduleIds \cup {None}]
    /\ roster \in [Slots -> ScheduleIds \cup {Off, None}]
    /\ holidays \in [HolidayIds -> Dates \cup {None}]
    /\ dropped \subseteq HolidayIds
    /\ \A h \in dropped : holidays[h] = None
    /\ today \in Dates
    /\ calls \in [Calls -> Call \cup {None}]
    /\ written \subseteq Entry
    /\ told \in Told \cup {None}

(* What the tables say of a person's date, apart from attendance and leave. *)
Ruled(slot) ==
    Resolve(slot[2], inputs(defaults[slot[1]], roster[slot], \E h \in HolidayIds : holidays[h] = slot[2]))

Explains(entry, slot) ==
    \/ entry.kind = "shift" /\ entry.slot = slot
    \/ entry.kind = "holiday" /\ slot[2] \in {entry.was, entry.is}

(* The call that ends with this step: it began when the date was not past yet, or the holiday was moved
   after the call read it, outside the transaction. *)
ReadTooEarly(c, slot) ==
    /\ calls[c] # None /\ calls'[c] = None
    /\ \/ calls[c].kind \in {"assign", "unassign", "holiday"} /\ ~isPast(slot[2], calls[c].today)
       \/ calls[c].kind = "holiday" /\ calls[c].id # None /\ holidays[calls[c].id] # calls[c].was

(* constant.go:14, "editing the past changes what the reports already said": what rule A says of a past
   date changes only with an audit entry that names the date, or when a schedule is edited in place or a
   person is given another default schedule, or by a call that judged by what it read too early. *)
PastExplained ==
    [][\A slot \in Slots : isPast(slot[2], today) /\ Ruled(slot)' # Ruled(slot) =>
           \/ \E entry \in written' : Explains(entry, slot)
           \/ \E s \in ScheduleIds, content \in Contents : ReplaceSchedule(s, content)
           \/ defaults' # defaults
           \/ \E c \in Calls : ReadTooEarly(c, slot)]_vars

(* repository.go:257, "an audit entry cannot describe a state that something else changed in between": an
   entry of a bulk write that names a former row names the row it replaced. *)
EntriesTell ==
    [][\A entry \in written' : entry.kind = "shift" /\ entry.is # None /\ entry.was # None =>
           roster[entry.slot] = entry.was /\ roster'[entry.slot] = entry.is]_vars

(* service.go:137, "would leave their days unresolvable": a date the roster gives a schedule to is never
   answered as off, whatever was deleted between the statements of the call; a holiday is only answered
   where there is one, and nobody is absent before the date has begun. *)
DailyTells ==
    told # None =>
        /\ told.row \in ScheduleIds => told.status # "off"
        /\ told.row = Off => told.status \notin {"not_yet", "absent"}
        /\ told.status = "holiday" => told.holiday
        /\ told.status = "absent" => told.slot[2] <= today
=============================================================================
