---------------------------- MODULE MCAttendance ----------------------------
(* A tick of four hours, so a day of six.  ana marks her attendance with    *)
(* the selfies she uploaded; ben, above her, and hana, hr_admin, decide.    *)
EXTENDS Attendance, Geofence, TLC

CONSTANTS done, ana, ben, hana, day, night, selfie1, selfie2, selfie3

Symmetry == Permutations(Keys) \cup Permutations(MarkCalls) \cup Permutations(ApproveCalls)

MCAbove == [u \in Users |-> IF u = ana THEN {ben} \cap Users ELSE {}]
MCOwner == [k \in Keys |-> ana]

Shift(start, end, grace) == [start |-> start, end |-> end, grace |-> grace]

\* 08:00-16:00, which may come to start with an hour of grace more; 20:00-04:00.
\* ana works the night of date 0 and the day of date 1, at 05:00 of which both are
\* open to her; she may be moved to its night instead.
MCEdits == [s \in {day, night} |->
    IF s = day THEN {Shift(2, 4, 0), Shift(2, 4, 1)} ELSE {Shift(5, 1, 0)}]
FixedEdits == [s \in {day, night} |->
    IF s = day THEN {Shift(2, 4, 0)} ELSE {Shift(5, 1, 0)}]
MCRoster == [slot \in Users \X Dates |->
    IF slot = <<ana, 0>> THEN night ELSE IF slot = <<ana, 1>> THEN day ELSE None]
MCReplans == {<<ana, 1, night>>}

Ask(by, date, in, out) == [user |-> ana, by |-> by, date |-> date, in |-> in, out |-> out]
MCProposals == {Ask(ana, 0, 5, None), Ask(ana, 1, None, 9), Ask(hana, 1, 8, 9)}

\* Up to three offices, at every distance from inside to far off.
ASSUME \A n \in 0..3 : \A offices \in [1..n -> Offices] : LocateMeans(offices)

\* Every calendar of yesterday, today and tomorrow, grace left out: pickShift never asks for it.
AnyHours == {h \in [start : 0..DayLength - 1, end : 0..DayLength - 1, grace : {0}] : h.start # h.end}
Calendars == [-1..1 -> AnyHours \cup {None}]

\* A check-in is put to a shift that is open, the nearest by start, or to today; and one that could not even be
\* checked out at once is on a today whose shift closed before it.
PickMeans(at, calendar) ==
    LET date == pickShift(at, calendar)
    IN  IF OpenShifts(at, calendar) # {}
        THEN date \in OpenShifts(at, calendar) /\ \A d \in OpenShifts(at, calendar) :
                 Distance(at, shiftStart(date, calendar[date])) <= Distance(at, shiftStart(d, calendar[d]))
        ELSE date = dateIn(at) /\ (~TooEarly(at, calendar) /\ ~Closable(date, calendar[date], at, at)
                                      => shiftEnd(date, calendar[date]) + ClosesAfter < at)
ASSUME \A calendar \in Calendars, at \in 0..DayLength - 1 : PickMeans(at, calendar)

\* Within its shift a check-in stays closable as long as told, ClosesAfter past the end, where the shift leaves room
\* for that in MaxOpen; the check-in of a longer one closes sooner.
ClosesAsTold(h, in) ==
    \A out \in in..shiftEnd(0, h) + ClosesAfter :
        Closable(0, h, in, out) \/ minutes(0, h) + OpensBefore + ClosesAfter > MaxOpen
ASSUME \A h \in AnyHours : \A in \in shiftStart(0, h) - OpensBefore .. shiftEnd(0, h) : ClosesAsTold(h, in)
ASSUME \E h \in AnyHours : ~Closable(0, h, shiftStart(0, h), shiftEnd(0, h) + ClosesAfter)
==============================================================================
