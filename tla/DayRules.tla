------------------------------ MODULE DayRules ------------------------------
(***************************************************************************)
(* Rule A, which decides whether a person works on a date (schedule/       *)
(* resolve.go), rule B, which says where they stand on it (attendance/     *)
(* whosin.go), and a report's totals over such days (report/service.go).   *)
(* Date 0 is a Sunday.                                                     *)
(***************************************************************************)
EXTENDS ShiftRules, Sequences, SequencesExt

Reasons == {"shift", "default", "assigned_off", "holiday", "not_a_workday"}
Statuses == {"present", "late", "on_leave", "holiday", "off", "not_yet", "absent"}

(* A work_schedules row, with the name and the break left out. *)
Schedule == [hours : Hours, workdays : SUBSET (1..7) \ {{}}, observes : BOOLEAN]

(* What rule A is given: "assigned" is None for a roster row that names no schedule. *)
Inputs == [rostered : BOOLEAN, assigned : Schedule \cup {None},
           default : Schedule \cup {None}, holiday : BOOLEAN]

(* ISO numbers the weekdays from 1 on Monday to 7 on Sunday, which Go counts as 0. *)
weekday(date) == IF date % 7 = 0 THEN 7 ELSE date % 7

worksOn(schedule, date) == weekday(date) \in schedule.workdays

off(reason) == [working |-> FALSE, reason |-> reason, schedule |-> None]

Resolve(date, in) ==
    LET observed(schedule, reason) ==
            IF in.holiday /\ schedule.observes THEN off("holiday")
            ELSE [working |-> TRUE, reason |-> reason, schedule |-> schedule]
    IN  CASE in.rostered /\ in.assigned = None -> off("assigned_off")
          [] in.rostered /\ in.assigned # None -> observed(in.assigned, "shift")
          [] ~in.rostered /\ in.default # None /\ worksOn(in.default, date) -> observed(in.default, "default")
          [] OTHER -> off("not_a_workday")

(* A day with neither attendance nor approved leave. *)
standing(date, in, at) ==
    LET day == Resolve(date, in)
    IN  IF day.working
        THEN LET hours == day.schedule.hours
             IN  IF at < shiftStart(date, hours) + hours.grace THEN "not_yet" ELSE "absent"
        ELSE IF in.holiday THEN "holiday" ELSE "off"

(* Attendance is "present" or "late" when there is any. *)
dailyStatus(date, attended, away, in, at) ==
    IF attended # None THEN attended
    ELSE IF away THEN "on_leave"
    ELSE standing(date, in, at)

-----------------------------------------------------------------------------
(* A report's days come grouped by person; each total follows the last one. *)

countedAs(status) == [present |-> IF status = "present" THEN 1 ELSE 0, late |-> IF status = "late" THEN 1 ELSE 0,
                      on_leave |-> IF status = "on_leave" THEN 1 ELSE 0, absent |-> IF status = "absent" THEN 1 ELSE 0]

addDay(people, day) ==
    LET known == people # <<>> /\ people[Len(people)].user = day.user
        one == countedAs(day.status)
        last == people[Len(people)]
        sum == [status \in DOMAIN one |-> (IF known THEN last.days[status] ELSE 0) + one[status]]
        total == [user |-> day.user, days |-> sum, worked |-> (IF known THEN last.worked ELSE 0) + day.worked]
    IN  IF known THEN [people EXCEPT ![Len(people)] = total] ELSE Append(people, total)

totals(days) == FoldLeft(addDay, <<>>, days)

(* A report with a status shows those days only, and totals only what it shows. *)
filtered(days, status) == IF status = None THEN days ELSE SelectSeq(days, LAMBDA day : day.status = status)
=============================================================================
