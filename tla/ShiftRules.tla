------------------------------ MODULE ShiftRules ------------------------------
(***************************************************************************)
(* The clock arithmetic of attendance (attendance/shift.go): a schedule's  *)
(* hours placed on a work date, the shift a check-in belongs to, and how   *)
(* many minutes late or early a mark is.  A moment counts units of time    *)
(* from midnight of work date 0 in the company's zone; a day is DayLength  *)
(* units long, so daylight saving is left out.                             *)
(***************************************************************************)
EXTENDS Integers

CONSTANTS
    DayLength,
    OpensBefore,   \* checkInOpensBefore, 4 hours
    MaxOpen,       \* maxOpenCheckIn, 24 hours
    ClosesAfter,   \* checkOutClosesAfter, 8 hours
    Slack,         \* correctionSlack, 12 hours
    None           \* no hours, NULL

ASSUME ClockAssumption ==
    /\ DayLength \in Nat \ {0}
    /\ OpensBefore \in Nat /\ MaxOpen \in Nat /\ ClosesAfter \in Nat /\ Slack \in Nat

(* A work_schedules row, what validation.go lets in: never equal times.    *)
Hours == {h \in [start : 0..(DayLength - 1), end : 0..(DayLength - 1), grace : Nat] :
            h.start # h.end}

CrossesMidnight(h) == h.end =< h.start

dateIn(at) == at \div DayLength
shiftStart(date, h) == date * DayLength + h.start
shiftEnd(date, h) == (IF CrossesMidnight(h) THEN date + 1 ELSE date) * DayLength + h.end
minutes(date, h) == shiftEnd(date, h) - shiftStart(date, h)

(* Mutant: a mark on the right side of its limit counts below zero. *)
WithinShift(n, most) == IF n > most THEN most ELSE n

(* Never negative, never more than the whole shift. *)
Within(n, most) == IF n < 0 THEN 0 ELSE IF n > most THEN most ELSE n

lateMinutes(date, h, at) ==
    IF h = None THEN 0 ELSE Within(at - shiftStart(date, h) - h.grace, minutes(date, h))

earlyLeaveMinutes(date, h, at) ==
    IF h = None THEN 0 ELSE Within(shiftEnd(date, h) - at, minutes(date, h))

-----------------------------------------------------------------------------
(* pickShift: day[d] is the hours of work date d, None when it is off.     *)

Distance(m, n) == IF m < n THEN n - m ELSE m - n

(* Shifts of yesterday, today and tomorrow a check-in may belong to. *)
OpenShifts(at, day) ==
    {d \in (dateIn(at) - 1)..(dateIn(at) + 1) :
        /\ day[d] # None
        /\ shiftStart(d, day[d]) - OpensBefore =< at
        /\ at =< shiftEnd(d, day[d])}

(* The nearest start wins, the earlier day of two as near. *)
Nearest(at, day, d) ==
    \A e \in OpenShifts(at, day) \ {d} :
        LET near == Distance(at, shiftStart(d, day[d]))
            other == Distance(at, shiftStart(e, day[e]))
        IN  near < other \/ (near = other /\ d < e)

(* Refused: no shift is open and today's has not opened yet. *)
TooEarly(at, day) ==
    LET today == dateIn(at)
    IN  /\ OpenShifts(at, day) = {}
        /\ day[today] # None
        /\ at < shiftStart(today, day[today]) - OpensBefore

pickShift(at, day) ==
    IF OpenShifts(at, day) = {} THEN dateIn(at)
    ELSE CHOOSE d \in OpenShifts(at, day) : Nearest(at, day, d)

(* How long a check-in made at that moment stays open to a check-out. *)
Closable(date, h, checkedIn, at) ==
    /\ checkedIn >= at - MaxOpen
    /\ h # None => at =< shiftEnd(date, h) + ClosesAfter
=============================================================================
