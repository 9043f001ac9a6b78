-------------------------- MODULE AttendanceProofs --------------------------
(***************************************************************************)
(* Theorems about Attendance, for any hours, roster, number of people and  *)
(* number of concurrent calls.                                             *)
(***************************************************************************)
EXTENDS Attendance, TLAPS

-----------------------------------------------------------------------------
(* What the clock arithmetic and the tables return. *)

(* Lateness and early leave are never negative and never exceed a day. *)
LEMMA MinutesType ==
  ASSUME NEW date \in Int, NEW h \in Hours \cup {None}, NEW at \in Int
  PROVE  lateMinutes(date, h, at) \in Minutes /\ earlyLeaveMinutes(date, h, at) \in Minutes
<1>1. DayLength \in Nat /\ DayLength > 0
  BY ClockAssumption
<1>2. CASE h = None
  BY <1>1, <1>2 DEF lateMinutes, earlyLeaveMinutes, Minutes
<1>3. CASE h # None
  <2>1. h \in Hours
    BY <1>3
  <2>2. h.start \in 0..(DayLength - 1) /\ h.end \in 0..(DayLength - 1) /\ h.grace \in Nat
        /\ h.start # h.end
    BY <2>1 DEF Hours
  <2>3. (date + 1) * DayLength = date * DayLength + DayLength /\ date * DayLength \in Int
    BY <1>1
  <2>4. shiftStart(date, h) \in Int /\ shiftEnd(date, h) \in Int
    BY <1>1, <2>2, <2>3 DEF shiftStart, shiftEnd
  <2>5. minutes(date, h) \in Minutes
    BY <1>1, <2>2, <2>3 DEF minutes, shiftStart, shiftEnd, CrossesMidnight, Minutes
  <2>6. \A n \in Int : Within(n, minutes(date, h)) \in Minutes
    BY <1>1, <2>5 DEF Within, Minutes
  <2>7. /\ at - shiftStart(date, h) - h.grace \in Int
        /\ shiftEnd(date, h) - at \in Int
    BY <2>2, <2>4
  <2> QED BY <1>3, <2>6, <2>7 DEF lateMinutes, earlyLeaveMinutes
<1> QED BY <1>2, <1>3

LEMMA DatesAreInt == Dates \subseteq Int
<1>1. DayLength \in Nat /\ DayLength > 0 /\ FirstTick \in Nat /\ LastTick \in Nat
  BY ClockAssumption, BoundsAssumption
<1>2. dateIn(FirstTick) \in Int /\ dateIn(LastTick) \in Int
  BY <1>1 DEF dateIn
<1> QED BY <1>2 DEF Dates

LEMMA HoursType ==
  ASSUME AttendanceTypeOK, NEW s \in Schedules \cup {None}
  PROVE  hoursOf(s) \in Hours \cup {None}
  BY DEF AttendanceTypeOK, hoursOf

(* The columns that updates of a row write. *)
LEMMA UpdatedRow ==
  ASSUME NEW row \in Row
  PROVE  /\ \A at \in Int, key \in Keys, early \in Minutes :
              [row EXCEPT !.out = at, !.outPhoto = key, !.early = early] \in Row
         /\ \A content \in Reports : [row EXCEPT !.report = content] \in Row
         /\ \A in \in Int, out \in Int \cup {None}, late, early \in Minutes :
              [row EXCEPT !.in = in, !.out = out, !.late = late, !.early = early] \in Row
  BY DEF Row, Times

(* Appending a correction, or settling one, keeps what each asked for. *)
LEMMA AppendCorrection ==
  ASSUME corrections \in Seq(Correction), NEW row \in Correction,
         corrections' = Append(corrections, row)
  PROVE  /\ corrections' \in Seq(Correction)
         /\ Len(corrections') = Len(corrections) + 1
         /\ DOMAIN corrections' = DOMAIN corrections \cup {Len(corrections) + 1}
         /\ Len(corrections) + 1 \notin DOMAIN corrections
         /\ \A i \in DOMAIN corrections : corrections'[i] = corrections[i]
         /\ corrections'[Len(corrections) + 1] = row
  OBVIOUS

LEMMA SettleCorrection ==
  ASSUME corrections \in Seq(Correction), NEW i \in DOMAIN corrections, NEW row \in Correction,
         row.asked = corrections[i].asked, corrections' = [corrections EXCEPT ![i] = row]
  PROVE  /\ corrections' \in Seq(Correction)
         /\ Len(corrections') = Len(corrections)
         /\ DOMAIN corrections' = DOMAIN corrections
         /\ \A j \in DOMAIN corrections : corrections'[j].asked = corrections[j].asked
         /\ \A j \in DOMAIN corrections : j # i => corrections'[j] = corrections[j]
         /\ corrections'[i] = row
  OBVIOUS

-----------------------------------------------------------------------------
(* The shift a check-in is put to. *)

(* Of shifts on up to three days in a row one is first by distance, then by *)
(* date: what the CHOOSE of pickShift asks for exists.                      *)
LEMMA OneIsNearest ==
  ASSUME NEW today \in Int, NEW S \in SUBSET ((today - 1)..(today + 1)), S # {},
         NEW far \in [S -> Int]
  PROVE  \E d \in S : \A e \in S \ {d} : far[d] < far[e] \/ (far[d] = far[e] /\ d < e)
<1> DEFINE Before(d, e) == far[d] < far[e] \/ (far[d] = far[e] /\ d < e)
<1>1. \A d \in S : d \in Int /\ far[d] \in Int /\ d \in {today - 1, today, today + 1}
  OBVIOUS
<1>2. \A d, e \in S : d # e => Before(d, e) \/ Before(e, d)
  BY <1>1
<1>3. \A d, e, f \in S : Before(d, e) /\ Before(e, f) => Before(d, f)
  BY <1>1
<1> HIDE DEF Before
<1>4. \A d, e \in S : \E f \in S : \A g \in {d, e} \ {f} : Before(f, g)
  BY <1>2
<1>5. \A d, e, f \in S : \E g \in S : \A x \in {d, e, f} \ {g} : Before(g, x)
  <2> SUFFICES ASSUME NEW d \in S, NEW e \in S, NEW f \in S
               PROVE  \E g \in S : \A x \in {d, e, f} \ {g} : Before(g, x)
    OBVIOUS
  <2>1. PICK m \in S : \A x \in {d, e} \ {m} : Before(m, x)
    BY <1>4
  <2>2. PICK g \in S : \A x \in {m, f} \ {g} : Before(g, x)
    BY <1>4
  <2>3. \A x \in {d, e, f} \ {g} : Before(g, x)
    BY <1>3, <2>1, <2>2
  <2> QED BY <2>3
<1>6. \E d, e, f \in S : S \subseteq {d, e, f}
  <2>1. PICK d \in S : TRUE
    OBVIOUS
  <2>2. PICK e \in S : S = {d} \/ e # d
    BY <2>1
  <2>3. PICK f \in S : S \subseteq {d, e} \/ (f # d /\ f # e)
    BY <2>1, <2>2
  <2>4. ASSUME NEW x \in S
        PROVE  x \in {d, e, f}
    <3>1. /\ x \in {today - 1, today, today + 1} /\ d \in {today - 1, today, today + 1}
          /\ e \in {today - 1, today, today + 1} /\ f \in {today - 1, today, today + 1}
      BY <1>1, <2>4
    <3> QED BY <2>2, <2>3, <3>1
  <2> QED BY <2>4
<1> QED BY <1>5, <1>6 DEF Before

(* attendance/shift.go, pickShift: when a shift is open a check-in belongs  *)
(* to an open one, and no open one starts nearer to it, whatever the hours. *)
THEOREM CheckInGoesToNearest ==
  ASSUME NEW at \in Int, NEW day,
         \A d \in (dateIn(at) - 1)..(dateIn(at) + 1) : day[d] \in Hours \cup {None},
         OpenShifts(at, day) # {}
  PROVE  /\ pickShift(at, day) \in OpenShifts(at, day)
         /\ \A d \in OpenShifts(at, day) :
               Distance(at, shiftStart(pickShift(at, day), day[pickShift(at, day)]))
                 =< Distance(at, shiftStart(d, day[d]))
<1> DEFINE S == OpenShifts(at, day)
           far == [d \in S |-> Distance(at, shiftStart(d, day[d]))]
<1>1. DayLength \in Nat \ {0} /\ dateIn(at) \in Int
  BY ClockAssumption DEF dateIn
<1>2. S \subseteq (dateIn(at) - 1)..(dateIn(at) + 1) /\ \A d \in S : d \in Int /\ day[d] \in Hours
  BY <1>1 DEF OpenShifts
<1>3. \A d \in S : shiftStart(d, day[d]) \in Int
  BY <1>1, <1>2 DEF shiftStart, Hours
<1>4. \A d \in S : Distance(at, shiftStart(d, day[d])) \in Int
  BY <1>3 DEF Distance
<1>5. far \in [S -> Int] /\ \A d \in S : far[d] = Distance(at, shiftStart(d, day[d]))
  BY <1>4
<1> HIDE DEF S, far
<1>6. \E d \in S : \A e \in S \ {d} : far[d] < far[e] \/ (far[d] = far[e] /\ d < e)
  BY <1>1, <1>2, <1>5, OneIsNearest DEF S
<1>7. \A d \in S : Nearest(at, day, d) <=>
          \A e \in S \ {d} : far[d] < far[e] \/ (far[d] = far[e] /\ d < e)
  BY <1>5 DEF Nearest, S
<1>8. pickShift(at, day) = CHOOSE d \in S : Nearest(at, day, d)
  BY DEF pickShift, S
<1>9. pickShift(at, day) \in S /\ Nearest(at, day, pickShift(at, day))
  BY <1>6, <1>7, <1>8
<1>10. \A e \in S : far[pickShift(at, day)] =< far[e]
  BY <1>5, <1>7, <1>9
<1> QED BY <1>5, <1>9, <1>10 DEF S

(* Service.CheckOut: a check-in within its shift stays closable as long as  *)
(* the API says, ClosesAfter past the end, provided that MaxOpen is as long *)
(* as the shift with the time before and after it, 12 hours by constant.go. *)
THEOREM ShortShiftsCloseAsTold ==
  ASSUME NEW date \in Int, NEW h \in Hours, NEW in \in Int, NEW at \in Int,
         shiftStart(date, h) - OpensBefore =< in,
         at =< shiftEnd(date, h) + ClosesAfter,
         OpensBefore + minutes(date, h) + ClosesAfter =< MaxOpen
  PROVE  Closable(date, h, in, at)
<1>1. shiftStart(date, h) \in Int /\ shiftEnd(date, h) \in Int
  BY ClockAssumption DEF Hours, shiftStart, shiftEnd
<1>2. minutes(date, h) = shiftEnd(date, h) - shiftStart(date, h)
  BY DEF minutes
<1>3. OpensBefore \in Int /\ MaxOpen \in Int /\ ClosesAfter \in Int
  BY ClockAssumption
<1> QED BY <1>1, <1>2, <1>3 DEF Closable

(* And whatever its length, the one that was picked because it is open can  *)
(* be closed at once.                                                       *)
THEOREM OpenShiftsCanBeClosed ==
  ASSUME NEW at \in Int, NEW day, NEW date \in OpenShifts(at, day),
         \A d \in (dateIn(at) - 1)..(dateIn(at) + 1) : day[d] \in Hours \cup {None}
  PROVE  Closable(date, day[date], at, at)
<1>1. dateIn(at) \in Int /\ ClosesAfter \in Nat /\ MaxOpen \in Nat
  BY ClockAssumption DEF dateIn
<1>2. date \in Int /\ day[date] \in Hours /\ at =< shiftEnd(date, day[date])
  BY <1>1 DEF OpenShifts
<1>3. shiftEnd(date, day[date]) \in Int
  BY <1>2, ClockAssumption DEF Hours, shiftEnd
<1> QED BY <1>1, <1>2, <1>3 DEF Closable

-----------------------------------------------------------------------------
(* Type correctness. *)

(* The initial tables are well typed. *)
LEMMA InitType == Init => AttendanceTypeOK
<1> SUFFICES ASSUME Init PROVE AttendanceTypeOK
  OBVIOUS
<1>1. now \in FirstTick..LastTick
  BY BoundsAssumption DEF Init
<1>2. hours \in [Schedules -> Hours] /\ \A s \in Schedules : hours[s] \in Edits[s]
  BY InputsAssumption DEF Init
<1>3. plan \in [Users \X Dates -> Schedules \cup {None}]
  BY InputsAssumption DEF Init
<1>4. corrections \in Seq(Correction) /\ Len(corrections) =< MaxCorrections
  BY BoundsAssumption DEF Init
<1> QED BY <1>1, <1>2, <1>3, <1>4 DEF Init, AttendanceTypeOK

(* Every step of a CheckIn or CheckOut keeps the tables well typed. *)
LEMMA MarkType ==
  ASSUME CorrectionInv, NEW c \in MarkCalls, MarkStep(c)
  PROVE  AttendanceTypeOK'
<1> AttendanceTypeOK
  BY DEF CorrectionInv
<1> USE NoneAssumption, DatesAreInt DEF AttendanceTypeOK
<1>0. now \in Int
  BY BoundsAssumption
<1>1. ASSUME NEW u \in Users, NEW key \in Keys, NEW date \in Dates, StartCheckIn(c, u, key, date)
      PROVE  AttendanceTypeOK'
  <2>1. plan[<<u, date>>] \in Schedules \cup {None}
    OBVIOUS
  <2>2. lateMinutes(date, hoursOf(plan[<<u, date>>]), now) \in Minutes
    BY <1>0, <2>1, HoursType, MinutesType
  <2>3. marks'[c] \in Mark
    BY <1>0, <1>1, <2>1, <2>2 DEF StartCheckIn, Mark, Times
  <2> QED BY <1>1, <2>3 DEF StartCheckIn
<1>2. ASSUME NEW u \in Users, NEW key \in Keys, NEW date \in Dates, StartCheckOut(c, u, key, date)
      PROVE  AttendanceTypeOK'
  <2>1. rows[<<u, date>>] \in Row
    BY <1>2 DEF StartCheckOut, LatestOpen
  <2>2. rows[<<u, date>>].schedule \in Schedules \cup {None}
    BY <2>1 DEF Row
  <2>3. earlyLeaveMinutes(date, hoursOf(rows[<<u, date>>].schedule), now) \in Minutes
    BY <1>0, <2>2, HoursType, MinutesType
  <2>4. marks'[c] \in Mark
    BY <1>0, <1>2, <2>2, <2>3 DEF StartCheckOut, Mark, Times
  <2> QED BY <1>2, <2>4 DEF StartCheckOut
<1>3. CASE FinishCheckIn(c)
  <2>1. marks[c] \in Mark
    BY <1>3 DEF FinishCheckIn
  <2>2. 0 \in Minutes
    BY ClockAssumption DEF Minutes
  <2>3. [schedule |-> marks[c].schedule, in |-> marks[c].at, out |-> None,
         late |-> marks[c].minutes, early |-> 0, inPhoto |-> marks[c].key,
         outPhoto |-> None, report |-> None] \in Row
    BY <2>1, <2>2 DEF Mark, Row
  <2> QED BY <1>3, <2>3 DEF FinishCheckIn
<1>4. CASE FinishCheckOut(c)
  <2> DEFINE m == marks[c]
             slot == <<m.user, m.date>>
             row == [rows[slot] EXCEPT !.out = m.at, !.outPhoto = m.key, !.early = m.minutes]
  <2>1. m \in Mark
    BY <1>4 DEF FinishCheckOut
  <2>2. slot \in Users \X Dates
    BY <2>1 DEF Mark
  <2>3. rows[slot] # None
    BY <1>4 DEF FinishCheckOut, CorrectionInv, MarksMeasured
  <2>4. row \in Row
    BY <2>1, <2>2, <2>3, UpdatedRow DEF Mark, Times
  <2>5. rows' = [rows EXCEPT ![slot] = row]
    BY <1>4, <2>2 DEF FinishCheckOut
  <2> QED BY <1>4, <2>2, <2>3, <2>4, <2>5 DEF FinishCheckOut
<1>5. CASE MarkFails(c)
  BY <1>5 DEF MarkFails
<1> QED BY <1>1, <1>2, <1>3, <1>4, <1>5 DEF MarkStep

(* Saving a daily report, or the clock, the roster or a schedule moving on. *)
LEMMA OtherType ==
  ASSUME AttendanceTypeOK,
         \/ \E slot \in Users \X Dates, content \in Reports : SaveDailyReport(slot, content)
         \/ PlanStep
         \/ Tick
  PROVE  AttendanceTypeOK'
<1> USE DEF AttendanceTypeOK
<1>1. ASSUME NEW slot \in Users \X Dates, NEW content \in Reports,
             SaveDailyReport(slot, content)
      PROVE  AttendanceTypeOK'
  <2>1. rows[slot] \in Row
    BY <1>1 DEF SaveDailyReport
  <2>2. [rows[slot] EXCEPT !.report = content] \in Row
    BY <2>1, UpdatedRow
  <2>3. rows' = [rows EXCEPT ![slot] = [rows[slot] EXCEPT !.report = content]]
    BY <1>1 DEF SaveDailyReport
  <2> QED BY <1>1, <2>2, <2>3 DEF SaveDailyReport
<1>2. ASSUME NEW s \in Schedules, NEW h \in Edits[s], ReplaceSchedule(s, h)
      PROVE  AttendanceTypeOK'
  <2>1. h \in Hours
    BY InputsAssumption
  <2> QED BY <1>2, <2>1 DEF ReplaceSchedule
<1>3. ASSUME NEW change \in Replans, Replan(change[1], change[2], change[3])
      PROVE  AttendanceTypeOK'
  <2>1. change[3] \in Schedules \cup {None} /\ <<change[1], change[2]>> \in Users \X Dates
    BY InputsAssumption
  <2> QED BY <1>3, <2>1 DEF Replan
<1>4. CASE Tick
  BY <1>4, BoundsAssumption DEF Tick
<1> QED BY <1>1, <1>2, <1>3, <1>4 DEF PlanStep

(* Every step of a RequestCorrection call does. *)
LEMMA RequestType ==
  ASSUME AttendanceTypeOK, NEW c \in ProposeCalls, RequestStep(c)
  PROVE  AttendanceTypeOK'
<1> USE DEF AttendanceTypeOK
<1>1. ASSUME NEW asked \in Proposals, StartRequest(c, asked)
      PROVE  AttendanceTypeOK'
  BY <1>1 DEF StartRequest
<1>2. CASE FinishRequest(c)
  <2> DEFINE row == [asked |-> proposing[c], status |-> "pending", reviewer |-> None,
                     oldIn |-> None, oldOut |-> None]
  <2>1. proposing[c] \in Proposal
    BY <1>2, InputsAssumption DEF FinishRequest
  <2>2. row \in Correction
    BY <2>1 DEF Correction, Statuses
  <2>3. corrections' = Append(corrections, row)
    BY <1>2 DEF FinishRequest
  <2> HIDE DEF row
  <2>4. /\ corrections' \in Seq(Correction) /\ Len(corrections') = Len(corrections) + 1
        /\ DOMAIN corrections \subseteq DOMAIN corrections'
    BY <2>2, <2>3, AppendCorrection
  <2>5. Len(corrections') =< MaxCorrections
    BY <1>2, <2>4, BoundsAssumption DEF FinishRequest
  <2> QED BY <1>2, <2>4, <2>5 DEF FinishRequest
<1>3. CASE RequestFails(c)
  BY <1>3 DEF RequestFails
<1> QED BY <1>1, <1>2, <1>3 DEF RequestStep

(* What an approval lays over the row it read is a row. *)
LEMMA CorrectedType ==
  ASSUME AttendanceTypeOK, NEW asked \in Proposal, Applies(asked)
  PROVE  corrected(asked) \in Row
<1> DEFINE slot == Slot(asked)
           current == Current(slot)
           in == correctedIn(asked)
           out == correctedOut(asked)
           kept == hoursOf(current.schedule)
<1>1. /\ slot \in Users \X Dates /\ asked.date \in Int
      /\ asked.in \in Int \cup {None} /\ asked.out \in Int \cup {None}
  BY DatesAreInt DEF Slot, Proposal, Times
<1>2. 0 \in Minutes
  BY ClockAssumption DEF Minutes
<1>3. /\ current = [schedule |-> current.schedule, in |-> current.in, out |-> current.out,
                    late |-> current.late, early |-> current.early,
                    inPhoto |-> current.inPhoto, outPhoto |-> current.outPhoto,
                    report |-> current.report]
      /\ current.schedule \in Schedules \cup {None}
      /\ current.in \in Int \cup {None} /\ current.out \in Int \cup {None}
      /\ current.late \in Minutes /\ current.early \in Minutes
      /\ current.inPhoto \in Keys \cup {None} /\ current.outPhoto \in Keys \cup {None}
      /\ current.report \in Reports \cup {None}
  <2>1. CASE rows[slot] # None
    <3>1. rows[slot] \in Row /\ current = rows[slot]
      BY <1>1, <2>1 DEF AttendanceTypeOK, Current
    <3> HIDE DEF current
    <3> QED BY <3>1 DEF Row, Times
  <2>2. CASE rows[slot] = None
    <3>1. plan[slot] \in Schedules \cup {None}
      BY <1>1 DEF AttendanceTypeOK
    <3> QED BY <1>2, <2>2, <3>1 DEF Current
  <2> QED BY <2>1, <2>2
<1>4. in \in Int /\ out \in Int \cup {None}
  <2>1. in \in Int \cup {None} /\ out \in Int \cup {None}
    BY <1>1, <1>3 DEF correctedIn, correctedOut
  <2> QED BY <2>1 DEF Applies
<1>5. /\ lateMinutes(asked.date, kept, in) \in Minutes
      /\ out # None => earlyLeaveMinutes(asked.date, kept, out) \in Minutes
  BY <1>1, <1>3, <1>4, HoursType, MinutesType
<1>6. corrected(asked) = [current EXCEPT !.in = in, !.out = out,
            !.late = lateMinutes(asked.date, kept, in),
            !.early = IF out = None THEN current.early
                      ELSE earlyLeaveMinutes(asked.date, kept, out)]
  BY <1>3 DEF corrected
<1> HIDE DEF current, in, out, kept
<1> QED BY <1>3, <1>4, <1>5, <1>6 DEF Row, Times

(* A correction that is settled stays where it is and what it asked for. *)
LEMMA SettledType ==
  ASSUME corrections \in Seq(Correction), NEW i \in DOMAIN corrections
  PROVE  /\ \A status \in Statuses :
              [corrections[i] EXCEPT !.status = status] \in Correction
         /\ \A status \in Statuses, by \in Users :
              [corrections[i] EXCEPT !.status = status, !.reviewer = by] \in Correction
         /\ \A by \in Users, oldIn, oldOut \in Int \cup {None} :
              [corrections[i] EXCEPT !.status = "approved", !.reviewer = by,
                                     !.oldIn = oldIn, !.oldOut = oldOut] \in Correction
<1>1. corrections[i] \in Correction
  OBVIOUS
<1> QED BY <1>1 DEF Correction, Statuses, Times

(* Cancel and Reject settle one correction; so does an approval that ends. *)
LEMMA SettleSteps ==
  ASSUME CorrectionInv, NEW i \in DOMAIN corrections, NEW by \in Users,
         Cancel(by, i) \/ Reject(by, i)
  PROVE  \E row \in Correction :
           /\ corrections' = [corrections EXCEPT ![i] = row]
           /\ row.asked = corrections[i].asked
           /\ row.status \in {"cancelled", "rejected"}
           /\ row.status = "cancelled" => row.reviewer = corrections[i].reviewer
           /\ row.status = "rejected" => row.reviewer = by /\ by # row.asked.user
<1>1. corrections \in Seq(Correction) /\ corrections[i] \in Correction
  BY DEF CorrectionInv, AttendanceTypeOK
<1>2. CASE Cancel(by, i)
  <2> DEFINE row == [corrections[i] EXCEPT !.status = "cancelled"]
  <2>1. row \in Correction
    BY <1>1, SettledType DEF Statuses
  <2>2. /\ row.asked = corrections[i].asked /\ row.status = "cancelled"
        /\ row.reviewer = corrections[i].reviewer
    BY <1>1 DEF Correction
  <2>3. corrections' = [corrections EXCEPT ![i] = row]
    BY <1>2 DEF Cancel
  <2> HIDE DEF row
  <2> QED BY <2>1, <2>2, <2>3
<1>3. CASE Reject(by, i)
  <2> DEFINE row == [corrections[i] EXCEPT !.status = "rejected", !.reviewer = by]
  <2>1. row \in Correction
    BY <1>1, SettledType DEF Statuses
  <2>2. /\ row.asked = corrections[i].asked /\ row.status = "rejected"
        /\ row.reviewer = by /\ by # corrections[i].asked.user
    BY <1>1, <1>3 DEF Correction, Reject, MayDecide
  <2>3. corrections' = [corrections EXCEPT ![i] = row]
    BY <1>3 DEF Reject
  <2> HIDE DEF row
  <2> QED BY <2>1, <2>2, <2>3
<1> QED BY <1>2, <1>3

(* What FinishApprove writes, in the terms of the row it replaces. *)
LEMMA FinishWrites ==
  ASSUME CorrectionInv, NEW c \in ApproveCalls, FinishApprove(c),
         NEW a, a = approving[c], NEW slot, slot = Slot(corrections[a.id].asked)
  PROVE  /\ a \in Approval /\ a.id \in DOMAIN corrections /\ slot \in Users \X Dates
         /\ slot[2] = corrections[a.id].asked.date
         /\ a.was = None <=> rows[slot] = None
         /\ \E row \in Row :
              /\ rows' = [rows EXCEPT ![slot] = row]
              /\ row.schedule = a.next.schedule /\ row.in = a.next.in /\ row.out = a.next.out
              /\ row.late = a.next.late /\ row.early = a.next.early
              /\ rows[slot] # None =>
                   /\ row.schedule = rows[slot].schedule
                   /\ row.in \in {corrections[a.id].asked.in, rows[slot].in}
                   /\ row.out \in {corrections[a.id].asked.out, rows[slot].out}
         /\ \E row \in Correction :
              /\ corrections' = [corrections EXCEPT ![a.id] = row]
              /\ row.asked = corrections[a.id].asked
              /\ row.status = "approved" /\ row.reviewer = a.by
              /\ a.by # corrections[a.id].asked.user /\ a.by \in Users
              /\ rows[slot] # None => row.oldIn = rows[slot].in /\ row.oldOut = rows[slot].out
<1>1. /\ AttendanceTypeOK /\ a \in Approval /\ a.id \in DOMAIN corrections
      /\ corrections \in Seq(Correction) /\ corrections[a.id] \in Correction
  <2>1. a \in Approval /\ a.id \in DOMAIN corrections /\ corrections \in Seq(Correction)
    BY DEF CorrectionInv, AttendanceTypeOK, FinishApprove
  <2> QED BY <2>1 DEF CorrectionInv
<1>2. slot \in Users \X Dates /\ slot[2] = corrections[a.id].asked.date
  BY <1>1 DEF Slot, Correction, Proposal
<1>3. /\ a.was \in Row \cup {None} /\ a.next \in Row /\ a.by \in Users
      /\ a.was # None => rows[slot] = a.was
      /\ a.by # corrections[a.id].asked.user
  BY <1>1, NoneAssumption DEF Approval, CorrectionInv, ApprovalsStand, FinishApprove
<1>4. a.was = None <=> rows[slot] = None
  BY <1>3 DEF FinishApprove
<1>5. \E row \in Row :
        /\ rows' = [rows EXCEPT ![slot] = row]
        /\ row.schedule = a.next.schedule /\ row.in = a.next.in /\ row.out = a.next.out
        /\ row.late = a.next.late /\ row.early = a.next.early
        /\ rows[slot] # None =>
             /\ row.schedule = rows[slot].schedule
             /\ row.in \in {corrections[a.id].asked.in, rows[slot].in}
             /\ row.out \in {corrections[a.id].asked.out, rows[slot].out}
  <2>1. CASE a.was = None
    BY <1>3, <1>4, <2>1 DEF FinishApprove
  <2>2. CASE a.was # None
    <3> DEFINE row == [a.was EXCEPT !.in = a.next.in, !.out = a.next.out,
                                    !.late = a.next.late, !.early = a.next.early]
    <3>1. rows[slot] = a.was /\ a.was \in Row
      BY <1>3, <2>2
    <3>2. /\ a.next.in \in Int /\ a.next.out \in Int \cup {None}
          /\ a.next.late \in Minutes /\ a.next.early \in Minutes
      BY <1>3 DEF Row, Times
    <3>3. row \in Row
      BY <3>1, <3>2, UpdatedRow
    <3>4. /\ row.schedule = a.was.schedule /\ row.in = a.next.in /\ row.out = a.next.out
          /\ row.late = a.next.late /\ row.early = a.next.early
      BY <3>1 DEF Row
    <3>5. rows' = [rows EXCEPT ![slot] = row]
      BY <1>2, <2>2, <3>1 DEF FinishApprove
    <3>6. /\ a.next.schedule = a.was.schedule
          /\ a.next.in \in {corrections[a.id].asked.in, a.was.in}
          /\ a.next.out \in {corrections[a.id].asked.out, a.was.out}
      BY <1>1, <2>2 DEF CorrectionInv, ApprovalsStand, FinishApprove
    <3> HIDE DEF row
    <3> QED BY <3>1, <3>3, <3>4, <3>5, <3>6
  <2> QED BY <2>1, <2>2
<1>6. \E row \in Correction :
        /\ corrections' = [corrections EXCEPT ![a.id] = row]
        /\ row.asked = corrections[a.id].asked
        /\ row.status = "approved" /\ row.reviewer = a.by
        /\ rows[slot] # None => row.oldIn = rows[slot].in /\ row.oldOut = rows[slot].out
  <2> DEFINE oldIn == IF a.was # None THEN a.was.in ELSE None
             oldOut == IF a.was # None THEN a.was.out ELSE None
             row == [corrections[a.id] EXCEPT !.status = "approved", !.reviewer = a.by,
                                              !.oldIn = oldIn, !.oldOut = oldOut]
  <2>1. oldIn \in Int \cup {None} /\ oldOut \in Int \cup {None}
    BY <1>3 DEF Row, Times
  <2>2. corrections' = [corrections EXCEPT ![a.id] = row]
    BY <1>1 DEF FinishApprove
  <2>3. rows[slot] # None => oldIn = rows[slot].in /\ oldOut = rows[slot].out
    BY <1>3, <1>4
  <2> HIDE DEF oldIn, oldOut
  <2>4. row \in Correction
    BY <1>1, <1>3, <2>1, SettledType
  <2>5. /\ row.asked = corrections[a.id].asked /\ row.status = "approved"
        /\ row.reviewer = a.by /\ row.oldIn = oldIn /\ row.oldOut = oldOut
    BY <1>1 DEF Correction
  <2> HIDE DEF row
  <2> QED BY <2>2, <2>3, <2>4, <2>5
<1> QED BY <1>1, <1>2, <1>3, <1>4, <1>5, <1>6

(* Every step that decides a correction keeps the tables well typed. *)
LEMMA DecideType ==
  ASSUME CorrectionInv, DecideStep
  PROVE  AttendanceTypeOK'
<1> AttendanceTypeOK
  BY DEF CorrectionInv
<1>1. PICK by \in Users, i \in DOMAIN corrections :
        Cancel(by, i) \/ Reject(by, i) \/ \E c \in ApproveCalls : StartApprove(c, by, i)
  BY DEF DecideStep
<1>2. i \in 1..MaxCorrections /\ corrections[i] \in Correction
  BY BoundsAssumption DEF AttendanceTypeOK
<1>3. CASE Cancel(by, i) \/ Reject(by, i)
  <2>1. PICK row \in Correction : /\ corrections' = [corrections EXCEPT ![i] = row]
                                  /\ row.asked = corrections[i].asked
    BY <1>3, SettleSteps
  <2>2. /\ corrections' \in Seq(Correction) /\ Len(corrections') = Len(corrections)
        /\ DOMAIN corrections' = DOMAIN corrections
    BY <2>1, SettleCorrection DEF AttendanceTypeOK
  <2>3. UNCHANGED <<now, hours, plan, rows, marks, proposing, approving, rewritten>>
    BY <1>3 DEF Cancel, Reject
  <2> QED BY <2>2, <2>3 DEF AttendanceTypeOK
<1>4. ASSUME NEW c \in ApproveCalls, StartApprove(c, by, i)
      PROVE  AttendanceTypeOK'
  <2> DEFINE asked == corrections[i].asked
             a == [id |-> i, by |-> by, was |-> rows[Slot(asked)], next |-> corrected(asked)]
  <2>1. asked \in Proposal
    BY <1>2 DEF Correction
  <2>2. rows[Slot(asked)] \in Row \cup {None}
    BY <2>1 DEF AttendanceTypeOK, Slot, Proposal
  <2>3. corrected(asked) \in Row
    BY <1>4, <2>1, CorrectedType DEF StartApprove
  <2>4. a \in Approval /\ a.id \in DOMAIN corrections
    BY <1>2, <2>2, <2>3 DEF Approval
  <2>5. approving' = [approving EXCEPT ![c] = a]
    BY <1>4 DEF StartApprove
  <2>6. UNCHANGED <<now, hours, plan, rows, corrections, marks, proposing, rewritten>>
    BY <1>4 DEF StartApprove
  <2> HIDE DEF a
  <2> QED BY <2>4, <2>5, <2>6 DEF AttendanceTypeOK
<1> QED BY <1>1, <1>3, <1>4

(* The end of an approval does too. *)
LEMMA ApproveType ==
  ASSUME CorrectionInv, NEW c \in ApproveCalls, ApproveStep(c)
  PROVE  AttendanceTypeOK'
<1> AttendanceTypeOK
  BY DEF CorrectionInv
<1>1. CASE FinishApprove(c)
  <2> DEFINE a == approving[c]
             slot == Slot(corrections[a.id].asked)
  <2>1. PICK row \in Row : rows' = [rows EXCEPT ![slot] = row]
    BY <1>1, FinishWrites
  <2>2. PICK settled \in Correction :
          /\ corrections' = [corrections EXCEPT ![a.id] = settled]
          /\ settled.asked = corrections[a.id].asked
    BY <1>1, FinishWrites
  <2>3. a.id \in DOMAIN corrections
    BY <1>1, FinishWrites
  <2>4. /\ corrections' \in Seq(Correction) /\ Len(corrections') = Len(corrections)
        /\ DOMAIN corrections' = DOMAIN corrections
    BY <2>2, <2>3, SettleCorrection DEF AttendanceTypeOK
  <2>5. UNCHANGED <<now, hours, plan, marks, proposing, rewritten>>
    BY <1>1 DEF FinishApprove
  <2>6. approving' = [approving EXCEPT ![c] = None]
    BY <1>1 DEF FinishApprove
  <2> HIDE DEF a, slot
  <2> QED BY <2>1, <2>4, <2>5, <2>6 DEF AttendanceTypeOK
<1>2. CASE ApproveFails(c)
  BY <1>2 DEF ApproveFails, AttendanceTypeOK
<1> QED BY <1>1, <1>2 DEF ApproveStep

LEMMA NextType == CorrectionInv /\ [Next]_vars => AttendanceTypeOK'
<1>1. CorrectionInv /\ UNCHANGED vars => AttendanceTypeOK'
  BY DEF CorrectionInv, AttendanceTypeOK, vars
<1> QED BY <1>1, MarkType, RequestType, DecideType, ApproveType, OtherType
        DEF Next, CorrectionInv

-----------------------------------------------------------------------------
(* What every step leaves as it was. *)

LEMMA MarkFrame ==
  ASSUME NEW c \in MarkCalls, MarkStep(c)
  PROVE  UNCHANGED <<now, hours, plan, corrections, proposing, approving, rewritten>>
<1>1. ASSUME NEW u \in Users, NEW key \in Keys, NEW date \in Dates,
             StartCheckIn(c, u, key, date)
      PROVE  UNCHANGED <<now, hours, plan, corrections, proposing, approving, rewritten>>
  BY <1>1 DEF StartCheckIn
<1>2. ASSUME NEW u \in Users, NEW key \in Keys, NEW date \in Dates,
             StartCheckOut(c, u, key, date)
      PROVE  UNCHANGED <<now, hours, plan, corrections, proposing, approving, rewritten>>
  BY <1>2 DEF StartCheckOut
<1>3. CASE FinishCheckIn(c) \/ FinishCheckOut(c) \/ MarkFails(c)
  BY <1>3 DEF FinishCheckIn, FinishCheckOut, MarkFails
<1> QED BY <1>1, <1>2, <1>3 DEF MarkStep

LEMMA RequestFrame ==
  ASSUME NEW c \in ProposeCalls, RequestStep(c)
  PROVE  /\ UNCHANGED <<now, hours, plan, rows, marks, approving, rewritten>>
         /\ FinishRequest(c) \/ UNCHANGED corrections
  BY DEF RequestStep, StartRequest, FinishRequest, RequestFails

LEMMA DecideFrame ==
  ASSUME DecideStep
  PROVE  /\ UNCHANGED <<now, hours, plan, rows, marks, proposing, rewritten>>
         /\ \/ \E by \in Users, i \in DOMAIN corrections : Cancel(by, i) \/ Reject(by, i)
            \/ UNCHANGED corrections
<1>1. PICK by \in Users, i \in DOMAIN corrections :
        Cancel(by, i) \/ Reject(by, i) \/ \E c \in ApproveCalls : StartApprove(c, by, i)
  BY DEF DecideStep
<1>2. CASE Cancel(by, i) \/ Reject(by, i)
  BY <1>2 DEF Cancel, Reject
<1>3. ASSUME NEW c \in ApproveCalls, StartApprove(c, by, i)
      PROVE  UNCHANGED <<now, hours, plan, rows, corrections, marks, proposing, rewritten>>
  BY <1>3 DEF StartApprove
<1> QED BY <1>1, <1>2, <1>3

LEMMA ApproveFrame ==
  ASSUME NEW c \in ApproveCalls, ApproveStep(c)
  PROVE  /\ UNCHANGED <<now, hours, plan, marks, proposing, rewritten>>
         /\ FinishApprove(c) \/ UNCHANGED <<rows, corrections>>
<1>1. CASE FinishApprove(c)
  <2>1. UNCHANGED <<now, hours, plan, marks, proposing, rewritten>>
    BY <1>1 DEF FinishApprove
  <2> QED BY <1>1, <2>1
<1>2. CASE ApproveFails(c)
  BY <1>2 DEF ApproveFails
<1> QED BY <1>1, <1>2 DEF ApproveStep

LEMMA PlanFrame ==
  ASSUME PlanStep
  PROVE  /\ UNCHANGED <<now, rows, corrections, marks, proposing, approving>>
         /\ \/ \E s \in Schedules : \E h \in Edits[s] : ReplaceSchedule(s, h)
            \/ UNCHANGED <<hours, rewritten>>
  BY DEF PlanStep, ReplaceSchedule, Replan

(* Corrections are only appended and settled: what one asks for stays. *)
LEMMA AskedStays ==
  ASSUME CorrectionInv, [Next]_vars
  PROVE  /\ DOMAIN corrections \subseteq DOMAIN corrections'
         /\ \A i \in DOMAIN corrections : corrections'[i].asked = corrections[i].asked
<1> AttendanceTypeOK
  BY DEF CorrectionInv
<1>1. ASSUME NEW c \in ProposeCalls, FinishRequest(c)
      PROVE  /\ DOMAIN corrections \subseteq DOMAIN corrections'
             /\ \A i \in DOMAIN corrections : corrections'[i] = corrections[i]
  BY <1>1 DEF FinishRequest, AttendanceTypeOK
<1>2. ASSUME NEW by \in Users, NEW i \in DOMAIN corrections, Cancel(by, i) \/ Reject(by, i)
      PROVE  /\ DOMAIN corrections' = DOMAIN corrections
             /\ \A j \in DOMAIN corrections : corrections'[j].asked = corrections[j].asked
  <2>1. PICK row \in Correction : /\ corrections' = [corrections EXCEPT ![i] = row]
                                  /\ row.asked = corrections[i].asked
    BY <1>2, SettleSteps
  <2> QED BY <2>1, SettleCorrection DEF AttendanceTypeOK
<1>3. ASSUME NEW c \in ApproveCalls, FinishApprove(c)
      PROVE  /\ DOMAIN corrections' = DOMAIN corrections
             /\ \A j \in DOMAIN corrections : corrections'[j].asked = corrections[j].asked
  <2>1. PICK row \in Correction :
          /\ corrections' = [corrections EXCEPT ![approving[c].id] = row]
          /\ row.asked = corrections[approving[c].id].asked
    BY <1>3, FinishWrites
  <2>2. approving[c].id \in DOMAIN corrections
    BY <1>3 DEF FinishApprove, AttendanceTypeOK
  <2> QED BY <2>1, <2>2, SettleCorrection DEF AttendanceTypeOK
<1>4. \/ \E c \in ProposeCalls : FinishRequest(c)
      \/ \E by \in Users, i \in DOMAIN corrections : Cancel(by, i) \/ Reject(by, i)
      \/ \E c \in ApproveCalls : FinishApprove(c)
      \/ UNCHANGED corrections
  BY MarkFrame, RequestFrame, DecideFrame, ApproveFrame, PlanFrame
     DEF Next, vars, SaveDailyReport, Tick
<1> QED BY <1>1, <1>2, <1>3, <1>4

(* A schedule nobody edited still has the hours it had. *)
LEMMA HoursStay ==
  ASSUME CorrectionInv, [Next]_vars
  PROVE  /\ rewritten \subseteq rewritten'
         /\ \A s \in Schedules \cup {None} : s \notin rewritten' =>
              (IF s = None THEN None ELSE hours'[s]) = (IF s = None THEN None ELSE hours[s])
<1>1. ASSUME NEW s \in Schedules, NEW h \in Edits[s], ReplaceSchedule(s, h)
      PROVE  /\ rewritten \subseteq rewritten'
             /\ \A t \in Schedules \cup {None} : t \notin rewritten' =>
                  (IF t = None THEN None ELSE hours'[t]) = (IF t = None THEN None ELSE hours[t])
  BY <1>1 DEF ReplaceSchedule, CorrectionInv, AttendanceTypeOK
<1>2. \/ \E s \in Schedules : \E h \in Edits[s] : ReplaceSchedule(s, h)
      \/ UNCHANGED <<hours, rewritten>>
  BY MarkFrame, RequestFrame, DecideFrame, ApproveFrame, PlanFrame
     DEF Next, vars, SaveDailyReport, Tick
<1> QED BY <1>1, <1>2

(* What the one row a check-out, a report or an approval updates becomes. *)
LEMMA CheckOutWrites ==
  ASSUME CorrectionInv, NEW c \in MarkCalls, FinishCheckOut(c),
         NEW m, m = marks[c], NEW slot, slot = <<m.user, m.date>>
  PROVE  /\ m \in Mark /\ slot \in Users \X Dates /\ rows[slot] \in Row
         /\ rows[slot].out = None /\ ~RowLocked(slot)
         /\ \E row \in Row :
              /\ rows' = [rows EXCEPT ![slot] = row]
              /\ row.schedule = rows[slot].schedule /\ row.in = rows[slot].in
              /\ row.late = rows[slot].late
              /\ row.out = m.at /\ row.early = m.minutes
<1>1. m \in Mark /\ slot \in Users \X Dates
  <2>1. m \in Mark
    BY DEF FinishCheckOut, CorrectionInv, AttendanceTypeOK
  <2> QED BY <2>1 DEF Mark
<1>2. rows[slot] \in Row
  BY <1>1 DEF FinishCheckOut, CorrectionInv, MarksMeasured, AttendanceTypeOK
<1>3. rows[slot].out = None /\ ~RowLocked(slot)
  BY DEF FinishCheckOut
<1> DEFINE row == [rows[slot] EXCEPT !.out = m.at, !.outPhoto = m.key, !.early = m.minutes]
<1>4. row \in Row
  BY <1>1, <1>2, UpdatedRow DEF Mark, Times
<1>5. /\ row.schedule = rows[slot].schedule /\ row.in = rows[slot].in
      /\ row.late = rows[slot].late /\ row.out = m.at /\ row.early = m.minutes
  BY <1>2 DEF Row
<1>6. rows' = [rows EXCEPT ![slot] = row]
  BY <1>1 DEF FinishCheckOut
<1> HIDE DEF row
<1> QED BY <1>1, <1>2, <1>3, <1>4, <1>5, <1>6

LEMMA ReportWrites ==
  ASSUME CorrectionInv, NEW slot \in Users \X Dates, NEW content \in Reports,
         SaveDailyReport(slot, content)
  PROVE  /\ rows[slot] \in Row /\ ~RowLocked(slot)
         /\ \E row \in Row :
              /\ rows' = [rows EXCEPT ![slot] = row]
              /\ row.schedule = rows[slot].schedule /\ row.in = rows[slot].in
              /\ row.out = rows[slot].out /\ row.late = rows[slot].late
              /\ row.early = rows[slot].early
<1> DEFINE row == [rows[slot] EXCEPT !.report = content]
<1>1. rows[slot] \in Row
  BY DEF SaveDailyReport, CorrectionInv, AttendanceTypeOK
<1>2. row \in Row
  BY <1>1, UpdatedRow
<1>3. /\ row.schedule = rows[slot].schedule /\ row.in = rows[slot].in
      /\ row.out = rows[slot].out /\ row.late = rows[slot].late
      /\ row.early = rows[slot].early
  BY <1>1 DEF Row
<1>4. rows' = [rows EXCEPT ![slot] = row]
  BY DEF SaveDailyReport
<1> HIDE DEF row
<1> QED BY <1>1, <1>2, <1>3, <1>4 DEF SaveDailyReport

LEMMA RowSteps ==
  ASSUME [Next]_vars
  PROVE  \/ \E c \in MarkCalls : FinishCheckIn(c) \/ FinishCheckOut(c)
         \/ \E slot \in Users \X Dates, content \in Reports : SaveDailyReport(slot, content)
         \/ \E c \in ApproveCalls : FinishApprove(c)
         \/ UNCHANGED rows
<1>1. ASSUME NEW c \in MarkCalls, MarkStep(c)
      PROVE  FinishCheckIn(c) \/ FinishCheckOut(c) \/ UNCHANGED rows
  <2>1. ASSUME NEW u \in Users, NEW key \in Keys, NEW date \in Dates,
               StartCheckIn(c, u, key, date)
        PROVE  UNCHANGED rows
    BY <2>1 DEF StartCheckIn
  <2>2. ASSUME NEW u \in Users, NEW key \in Keys, NEW date \in Dates,
               StartCheckOut(c, u, key, date)
        PROVE  UNCHANGED rows
    BY <2>2 DEF StartCheckOut
  <2>3. CASE MarkFails(c)
    BY <2>3 DEF MarkFails
  <2> QED BY <1>1, <2>1, <2>2, <2>3 DEF MarkStep
<1> QED BY <1>1, RequestFrame, DecideFrame, ApproveFrame, PlanFrame DEF Next, vars, Tick

(* A row never disappears and keeps its schedule.  While an approval holds  *)
(* it only that approval changes it, and nothing but an approval changes a  *)
(* time that was on record.                                                 *)
LEMMA RowsStay ==
  ASSUME CorrectionInv, [Next]_vars, NEW slot \in Users \X Dates, rows[slot] # None
  PROVE  /\ rows'[slot] \in Row /\ rows'[slot].schedule = rows[slot].schedule
         /\ \/ rows'[slot] = rows[slot]
            \/ /\ ~RowLocked(slot)
               /\ rows'[slot].in = rows[slot].in
               /\ rows[slot].out = None \/ rows'[slot].out = rows[slot].out
            \/ \E c \in ApproveCalls :
                 FinishApprove(c) /\ Slot(corrections[approving[c].id].asked) = slot
<1>1. rows[slot] \in Row /\ rows \in [Users \X Dates -> Row \cup {None}]
  BY DEF CorrectionInv, AttendanceTypeOK
<1>2. ASSUME NEW c \in MarkCalls, FinishCheckIn(c)
      PROVE  rows'[slot] = rows[slot]
  <2>1. PICK row : rows' = [rows EXCEPT ![<<marks[c].user, marks[c].date>>] = row]
    BY <1>2 DEF FinishCheckIn
  <2>2. rows[<<marks[c].user, marks[c].date>>] = None
    BY <1>2 DEF FinishCheckIn
  <2> QED BY <1>1, <2>1, <2>2
<1>3. ASSUME NEW c \in MarkCalls, FinishCheckOut(c)
      PROVE  /\ rows'[slot] \in Row /\ rows'[slot].schedule = rows[slot].schedule
             /\ \/ rows'[slot] = rows[slot]
                \/ /\ ~RowLocked(slot)
                   /\ rows'[slot].in = rows[slot].in
                   /\ rows[slot].out = None
  <2> DEFINE at == <<marks[c].user, marks[c].date>>
  <2>1. /\ rows[at].out = None /\ ~RowLocked(at)
        /\ \E row \in Row :
             /\ rows' = [rows EXCEPT ![at] = row]
             /\ row.schedule = rows[at].schedule /\ row.in = rows[at].in
    BY <1>3, CheckOutWrites
  <2> HIDE DEF at
  <2> QED BY <1>1, <2>1
<1>4. ASSUME NEW at \in Users \X Dates, NEW content \in Reports, SaveDailyReport(at, content)
      PROVE  /\ rows'[slot] \in Row /\ rows'[slot].schedule = rows[slot].schedule
             /\ \/ rows'[slot] = rows[slot]
                \/ /\ ~RowLocked(slot)
                   /\ rows'[slot].in = rows[slot].in
                   /\ rows'[slot].out = rows[slot].out
  BY <1>1, <1>4, ReportWrites
<1>5. ASSUME NEW c \in ApproveCalls, FinishApprove(c)
      PROVE  /\ rows'[slot] \in Row /\ rows'[slot].schedule = rows[slot].schedule
             /\ rows'[slot] = rows[slot] \/ Slot(corrections[approving[c].id].asked) = slot
  <2> DEFINE at == Slot(corrections[approving[c].id].asked)
  <2>1. \E row \in Row : /\ rows' = [rows EXCEPT ![at] = row]
                         /\ rows[at] # None => row.schedule = rows[at].schedule
    BY <1>5, FinishWrites
  <2> HIDE DEF at
  <2>2. /\ rows'[slot] \in Row /\ rows'[slot].schedule = rows[slot].schedule
        /\ rows'[slot] = rows[slot] \/ at = slot
    BY <1>1, <2>1
  <2> QED BY <2>2 DEF at
<1> QED BY <1>1, <1>2, <1>3, <1>4, <1>5, RowSteps

-----------------------------------------------------------------------------
(* The measures of a row. *)

(* Lateness and early leave, as they follow from times and hours. *)
Measured(row, date, h) ==
    /\ row.late = lateMinutes(date, h, row.in)
    /\ row.early = IF row.out = None THEN 0 ELSE earlyLeaveMinutes(date, h, row.out)

(* MeasuresAgree and HoursStay without hoursOf, which reads the state. *)
LEMMA Agree ==
  ASSUME CorrectionInv, NEW slot \in Users \X Dates, rows[slot] # None,
         rows[slot].schedule \notin rewritten
  PROVE  Measured(rows[slot], slot[2],
           IF rows[slot].schedule = None THEN None ELSE hours[rows[slot].schedule])
  BY DEF CorrectionInv, MeasuresAgree, Measured, hoursOf

(* What an approval would write measures what it writes. *)
LEMMA CorrectedMeasured ==
  ASSUME CorrectionInv, NEW asked \in Proposal, NEW next, next = corrected(asked),
         next.schedule \notin rewritten
  PROVE  Measured(next, asked.date,
                  IF next.schedule = None THEN None ELSE hours[next.schedule])
<1> DEFINE slot == Slot(asked)
           current == Current(slot)
           in == correctedIn(asked)
           out == correctedOut(asked)
           kept == hoursOf(current.schedule)
           early == IF out = None THEN current.early
                    ELSE earlyLeaveMinutes(asked.date, kept, out)
<1>1. slot \in Users \X Dates /\ slot[2] = asked.date
  BY DEF Slot, Proposal
<1>2. current = [schedule |-> current.schedule, in |-> current.in, out |-> current.out,
                 late |-> current.late, early |-> current.early,
                 inPhoto |-> current.inPhoto, outPhoto |-> current.outPhoto,
                 report |-> current.report]
  <2>1. CASE rows[slot] # None
    <3>1. rows[slot] \in Row /\ current = rows[slot]
      BY <1>1, <2>1 DEF CorrectionInv, AttendanceTypeOK, Current
    <3> HIDE DEF current
    <3> QED BY <3>1 DEF Row
  <2>2. CASE rows[slot] = None
    BY <2>2 DEF Current
  <2> QED BY <2>1, <2>2
<1>3. next = [current EXCEPT !.in = in, !.out = out,
                             !.late = lateMinutes(asked.date, kept, in), !.early = early]
  BY <1>2 DEF corrected
<1>4. out = None => current.out = None
  BY DEF correctedOut
<1>5. current.out = None /\ current.schedule \notin rewritten => current.early = 0
  <2>1. CASE rows[slot] # None
    BY <1>1, <2>1, Agree DEF Measured, Current
  <2>2. CASE rows[slot] = None
    BY <2>2 DEF Current
  <2> QED BY <2>1, <2>2
<1>6. kept = IF current.schedule = None THEN None ELSE hours[current.schedule]
  BY DEF hoursOf
<1> HIDE DEF current, in, out, kept, early
<1>7. /\ next.schedule = current.schedule /\ next.in = in /\ next.out = out
      /\ next.late = lateMinutes(asked.date, kept, in) /\ next.early = early
  BY <1>2, <1>3
<1>8. next.early = IF out = None THEN 0 ELSE earlyLeaveMinutes(asked.date, kept, out)
  BY <1>4, <1>5, <1>7 DEF early
<1> QED BY <1>6, <1>7, <1>8 DEF Measured

(* Every step leaves the rows measured as their times say. *)
LEMMA NextMeasures == CorrectionInv /\ [Next]_vars => MeasuresAgree'
<1> SUFFICES ASSUME CorrectionInv, [Next]_vars,
                    NEW slot \in Users \X Dates,
                    rows'[slot] # None, rows'[slot].schedule \notin rewritten'
             PROVE  Measured(rows'[slot], slot[2],
                      IF rows'[slot].schedule = None THEN None ELSE hours'[rows'[slot].schedule])
  BY DEF MeasuresAgree, Measured, hoursOf
<1>0. /\ rewritten \subseteq rewritten' /\ AttendanceTypeOK
      /\ \A s \in Schedules \cup {None} : s \notin rewritten' =>
           (IF s = None THEN None ELSE hours'[s]) = (IF s = None THEN None ELSE hours[s])
  BY HoursStay DEF CorrectionInv
<1>1. rows'[slot] \in Row
  BY NextType DEF AttendanceTypeOK
<1>2. rows'[slot].schedule \in Schedules \cup {None}
  BY <1>1 DEF Row
<1> DEFINE s == rows'[slot].schedule
           kept == IF s = None THEN None ELSE hours[s]
<1>3. (IF s = None THEN None ELSE hours'[s]) = kept /\ s \notin rewritten
  BY <1>0, <1>2
<1>4. SUFFICES Measured(rows'[slot], slot[2], kept)
  BY <1>3
<1>5. CASE rows'[slot] = rows[slot]
  BY <1>3, <1>5, Agree
<1>6. ASSUME NEW c \in MarkCalls, FinishCheckIn(c), rows'[slot] # rows[slot]
      PROVE  Measured(rows'[slot], slot[2], kept)
  <2> DEFINE m == marks[c]
  <2>1. m \in Mark /\ m.side = "in"
    BY <1>6 DEF FinishCheckIn, CorrectionInv, AttendanceTypeOK
  <2>2. slot = <<m.user, m.date>>
    BY <1>6 DEF FinishCheckIn, CorrectionInv, AttendanceTypeOK
  <2>3. rows'[slot] = [schedule |-> m.schedule, in |-> m.at, out |-> None,
               late |-> m.minutes, early |-> 0,
               inPhoto |-> m.key, outPhoto |-> None, report |-> None]
    BY <1>0, <1>6, <2>2 DEF FinishCheckIn, AttendanceTypeOK
  <2>4. m.minutes = lateMinutes(m.date, IF m.schedule = None THEN None ELSE hours[m.schedule], m.at)
    BY <1>3, <1>6, <2>1, <2>3 DEF FinishCheckIn, CorrectionInv, MarksMeasured, hoursOf
  <2> QED BY <2>2, <2>3, <2>4 DEF Measured
<1>7. ASSUME NEW c \in MarkCalls, FinishCheckOut(c), rows'[slot] # rows[slot]
      PROVE  Measured(rows'[slot], slot[2], kept)
  <2> DEFINE m == marks[c]
             at == <<m.user, m.date>>
  <2>1. /\ m \in Mark /\ at \in Users \X Dates /\ rows[at] \in Row
        /\ \E row \in Row :
             /\ rows' = [rows EXCEPT ![at] = row]
             /\ row.schedule = rows[at].schedule /\ row.in = rows[at].in
             /\ row.late = rows[at].late
             /\ row.out = m.at /\ row.early = m.minutes
    BY <1>7, CheckOutWrites
  <2>2. at[2] = m.date /\ m.at # None
    BY <2>1, NoneAssumption DEF Mark, Times
  <2>3. m # None /\ m.side = "out" /\ rows[at] # None /\ rows[at].schedule = m.schedule
    BY <1>7 DEF FinishCheckOut, CorrectionInv, MarksMeasured
  <2>4. m.schedule \notin rewritten =>
          m.minutes = earlyLeaveMinutes(m.date, IF m.schedule = None THEN None ELSE hours[m.schedule], m.at)
    BY <2>3 DEF CorrectionInv, MarksMeasured, hoursOf
  <2>5. m.schedule \notin rewritten =>
          Measured(rows[at], at[2], IF m.schedule = None THEN None ELSE hours[m.schedule])
    BY <2>1, <2>3, Agree
  <2> HIDE DEF m, at
  <2>6. slot = at /\ rows'[slot].schedule = m.schedule /\ rows'[slot].in = rows[at].in
        /\ rows'[slot].late = rows[at].late /\ rows'[slot].out = m.at
        /\ rows'[slot].early = m.minutes
    BY <1>0, <1>7, <2>1, <2>3 DEF AttendanceTypeOK
  <2> QED BY <1>3, <2>2, <2>4, <2>5, <2>6 DEF Measured
<1>8. ASSUME NEW at \in Users \X Dates, NEW content \in Reports, SaveDailyReport(at, content),
             rows'[slot] # rows[slot]
      PROVE  Measured(rows'[slot], slot[2], kept)
  <2>1. /\ rows[at] \in Row
        /\ \E row \in Row :
             /\ rows' = [rows EXCEPT ![at] = row]
             /\ row.schedule = rows[at].schedule /\ row.in = rows[at].in
             /\ row.out = rows[at].out /\ row.late = rows[at].late
             /\ row.early = rows[at].early
    BY <1>8, ReportWrites
  <2>2. /\ slot = at /\ rows[slot] # None /\ rows'[slot].schedule = rows[slot].schedule
        /\ rows'[slot].in = rows[slot].in
        /\ rows'[slot].out = rows[slot].out /\ rows'[slot].late = rows[slot].late
        /\ rows'[slot].early = rows[slot].early
    BY <1>0, <1>8, <2>1 DEF AttendanceTypeOK, SaveDailyReport
  <2>3. Measured(rows[slot], slot[2], kept)
    BY <1>3, <2>2, Agree
  <2> QED BY <2>2, <2>3 DEF Measured
<1>9. ASSUME NEW c \in ApproveCalls, FinishApprove(c), rows'[slot] # rows[slot]
      PROVE  Measured(rows'[slot], slot[2], kept)
  <2> DEFINE a == approving[c]
             at == Slot(corrections[a.id].asked)
  <2>1. /\ at \in Users \X Dates /\ at[2] = corrections[a.id].asked.date
        /\ \E row \in Row :
             /\ rows' = [rows EXCEPT ![at] = row]
             /\ row.schedule = a.next.schedule /\ row.in = a.next.in /\ row.out = a.next.out
             /\ row.late = a.next.late /\ row.early = a.next.early
    BY <1>9, FinishWrites
  <2>2. a.next.schedule \notin rewritten =>
          Measured(a.next, corrections[a.id].asked.date,
                   IF a.next.schedule = None THEN None ELSE hours[a.next.schedule])
    BY <1>9 DEF FinishApprove, CorrectionInv, ApprovalsMeasured, Measured, hoursOf
  <2> HIDE DEF a, at
  <2>3. /\ slot = at /\ rows'[slot].schedule = a.next.schedule /\ rows'[slot].in = a.next.in
        /\ rows'[slot].out = a.next.out /\ rows'[slot].late = a.next.late
        /\ rows'[slot].early = a.next.early
    BY <1>0, <1>9, <2>1 DEF AttendanceTypeOK
  <2> QED BY <1>3, <2>1, <2>2, <2>3 DEF Measured
<1> QED BY <1>5, <1>6, <1>7, <1>8, <1>9, RowSteps

-----------------------------------------------------------------------------
(* The calls under way. *)

(* A mark under way goes on measuring what its row keeps. *)
LEMMA NextMarks == CorrectionInv /\ [Next]_vars => MarksMeasured'
<1> DEFINE Sound(m) ==
      /\ m.side = "out" => /\ rows'[<<m.user, m.date>>] # None
                           /\ rows'[<<m.user, m.date>>].schedule = m.schedule
      /\ m.schedule \notin rewritten' =>
           m.minutes = IF m.side = "in"
                       THEN lateMinutes(m.date,
                              IF m.schedule = None THEN None ELSE hours'[m.schedule], m.at)
                       ELSE earlyLeaveMinutes(m.date,
                              IF m.schedule = None THEN None ELSE hours'[m.schedule], m.at)
<1> SUFFICES ASSUME CorrectionInv, [Next]_vars, NEW c \in MarkCalls, marks'[c] # None
             PROVE  Sound(marks'[c])
  BY DEF MarksMeasured, hoursOf
<1>0. /\ rewritten \subseteq rewritten' /\ AttendanceTypeOK /\ AttendanceTypeOK'
      /\ \A s \in Schedules \cup {None} : s \notin rewritten' =>
           (IF s = None THEN None ELSE hours'[s]) = (IF s = None THEN None ELSE hours[s])
  BY HoursStay, NextType DEF CorrectionInv
<1>1. marks'[c] \in Mark
  BY <1>0 DEF AttendanceTypeOK
<1>2. CASE marks'[c] = marks[c]
  <2> DEFINE m == marks[c]
             slot == <<m.user, m.date>>
  <2>1. m \in Mark /\ m # None
    BY <1>1, <1>2
  <2>2. slot \in Users \X Dates /\ m.schedule \in Schedules \cup {None}
    BY <2>1 DEF Mark
  <2>3. /\ m.side = "out" => rows[slot] # None /\ rows[slot].schedule = m.schedule
        /\ m.schedule \notin rewritten =>
             m.minutes = IF m.side = "in"
                         THEN lateMinutes(m.date,
                                IF m.schedule = None THEN None ELSE hours[m.schedule], m.at)
                         ELSE earlyLeaveMinutes(m.date,
                                IF m.schedule = None THEN None ELSE hours[m.schedule], m.at)
    BY <2>1 DEF CorrectionInv, MarksMeasured, hoursOf
  <2>4. rows[slot] # None => rows'[slot] # None /\ rows'[slot].schedule = rows[slot].schedule
    BY <2>2, RowsStay, NoneAssumption
  <2> HIDE DEF m
  <2>5. Sound(m)
    BY <1>0, <2>2, <2>3, <2>4
  <2> QED BY <1>2, <2>5 DEF m
<1>3. ASSUME NEW u \in Users, NEW key \in Keys, NEW date \in Dates, StartCheckIn(c, u, key, date)
      PROVE  Sound(marks'[c])
  <2>1. marks'[c] = [side |-> "in", user |-> u, date |-> date, at |-> now, key |-> key,
           schedule |-> plan[<<u, date>>],
           minutes |-> lateMinutes(date, hoursOf(plan[<<u, date>>]), now)]
    BY <1>0, <1>3 DEF StartCheckIn, AttendanceTypeOK
  <2>2. UNCHANGED <<hours, rewritten>>
    BY <1>3 DEF StartCheckIn
  <2>3. hoursOf(plan[<<u, date>>])
          = IF plan[<<u, date>>] = None THEN None ELSE hours'[plan[<<u, date>>]]
    BY <2>2 DEF hoursOf
  <2> QED BY <2>1, <2>3
<1>4. ASSUME NEW u \in Users, NEW key \in Keys, NEW date \in Dates, StartCheckOut(c, u, key, date)
      PROVE  Sound(marks'[c])
  <2> DEFINE slot == <<u, date>>
  <2>1. marks'[c] = [side |-> "out", user |-> u, date |-> date, at |-> now, key |-> key,
           schedule |-> rows[slot].schedule,
           minutes |-> earlyLeaveMinutes(date, hoursOf(rows[slot].schedule), now)]
    BY <1>0, <1>4 DEF StartCheckOut, AttendanceTypeOK
  <2>2. UNCHANGED <<hours, rewritten, rows>>
    BY <1>4 DEF StartCheckOut
  <2>3. hoursOf(rows[slot].schedule)
          = IF rows[slot].schedule = None THEN None ELSE hours'[rows[slot].schedule]
    BY <2>2 DEF hoursOf
  <2>4. rows[slot] # None
    BY <1>0, <1>4 DEF StartCheckOut, LatestOpen, AttendanceTypeOK
  <2> QED BY <2>1, <2>2, <2>3, <2>4
<1>5. \/ marks'[c] = marks[c]
      \/ \E u \in Users, key \in Keys, date \in Dates :
           StartCheckIn(c, u, key, date) \/ StartCheckOut(c, u, key, date)
  <2>1. ASSUME NEW d \in MarkCalls, MarkStep(d), c # d
        PROVE  marks'[c] = marks[c]
    <3>1. marks' = [marks EXCEPT ![d] = marks'[d]]
      <4>1. ASSUME NEW u \in Users, NEW key \in Keys, NEW date \in Dates,
                   StartCheckIn(d, u, key, date)
            PROVE  marks' = [marks EXCEPT ![d] = marks'[d]]
        BY <1>0, <4>1 DEF StartCheckIn, AttendanceTypeOK
      <4>2. ASSUME NEW u \in Users, NEW key \in Keys, NEW date \in Dates,
                   StartCheckOut(d, u, key, date)
            PROVE  marks' = [marks EXCEPT ![d] = marks'[d]]
        BY <1>0, <4>2 DEF StartCheckOut, AttendanceTypeOK
      <4>3. CASE FinishCheckIn(d) \/ FinishCheckOut(d) \/ MarkFails(d)
        BY <1>0, <4>3 DEF FinishCheckIn, FinishCheckOut, MarkFails, AttendanceTypeOK
      <4> QED BY <2>1, <4>1, <4>2, <4>3 DEF MarkStep
    <3> QED BY <1>0, <2>1, <3>1 DEF AttendanceTypeOK
  <2>2. CASE MarkStep(c)
    <3>1. CASE FinishCheckIn(c) \/ FinishCheckOut(c) \/ MarkFails(c)
      <4>1. marks' = [marks EXCEPT ![c] = None]
        BY <3>1 DEF FinishCheckIn, FinishCheckOut, MarkFails
      <4> QED BY <1>0, <4>1 DEF AttendanceTypeOK
    <3> QED BY <2>2, <3>1 DEF MarkStep
  <2>3. CASE UNCHANGED marks
    BY <2>3
  <2>4. (\E d \in MarkCalls : MarkStep(d)) \/ UNCHANGED marks
    BY RequestFrame, DecideFrame, ApproveFrame, PlanFrame DEF Next, vars, SaveDailyReport, Tick
  <2> QED BY <2>1, <2>2, <2>3, <2>4
<1> QED BY <1>2, <1>3, <1>4, <1>5

(* An approval under way was just started, or was there before. *)
LEMMA ApprovingSteps ==
  ASSUME CorrectionInv, [Next]_vars, NEW c \in ApproveCalls, approving'[c] # None
  PROVE  /\ ~FinishApprove(c)
         /\ \/ approving'[c] = approving[c]
            \/ \E by \in Users, i \in DOMAIN corrections : StartApprove(c, by, i)
<1>0. approving \in [ApproveCalls -> Approval \cup {None}]
  BY DEF CorrectionInv, AttendanceTypeOK
<1>1. ASSUME NEW d \in ApproveCalls, ApproveStep(d)
      PROVE  approving' = [approving EXCEPT ![d] = None]
  <2>1. CASE FinishApprove(d)
    BY <2>1 DEF FinishApprove
  <2>2. CASE ApproveFails(d)
    BY <2>2 DEF ApproveFails
  <2> QED BY <1>1, <2>1, <2>2 DEF ApproveStep
<1>2. ASSUME NEW by \in Users, NEW i \in DOMAIN corrections, NEW d \in ApproveCalls,
             StartApprove(d, by, i), c # d
      PROVE  approving'[c] = approving[c]
  BY <1>0, <1>2 DEF StartApprove
<1>3. DecideStep => \/ \E by \in Users, i \in DOMAIN corrections, d \in ApproveCalls :
                         StartApprove(d, by, i)
                    \/ UNCHANGED approving
  BY DEF DecideStep, Cancel, Reject
<1>4. ~FinishApprove(c)
  BY <1>0, <1>1 DEF ApproveStep
<1>5. \/ \E d \in ApproveCalls : ApproveStep(d)
      \/ DecideStep
      \/ UNCHANGED approving
  BY MarkFrame, RequestFrame, PlanFrame DEF Next, vars, SaveDailyReport, Tick
<1> QED BY <1>0, <1>1, <1>2, <1>3, <1>4, <1>5

(* While an approval holds a correction only that approval settles it. *)
LEMMA StatusStays ==
  ASSUME CorrectionInv, [Next]_vars, NEW i \in DOMAIN corrections, CorrectionLocked(i)
  PROVE  \/ corrections'[i] = corrections[i]
         \/ \E c \in ApproveCalls : FinishApprove(c) /\ approving[c].id = i
<1>0. AttendanceTypeOK /\ corrections \in Seq(Correction)
  BY DEF CorrectionInv, AttendanceTypeOK
<1>1. ASSUME NEW c \in ProposeCalls, FinishRequest(c)
      PROVE  corrections'[i] = corrections[i]
  BY <1>0, <1>1 DEF FinishRequest
<1>2. ASSUME NEW by \in Users, NEW j \in DOMAIN corrections, Cancel(by, j) \/ Reject(by, j)
      PROVE  corrections'[i] = corrections[i]
  <2>1. i # j
    BY <1>2 DEF Cancel, Reject
  <2>2. PICK row \in Correction : /\ corrections' = [corrections EXCEPT ![j] = row]
                                  /\ row.asked = corrections[j].asked
    BY <1>2, SettleSteps
  <2> QED BY <1>0, <2>1, <2>2, SettleCorrection
<1>3. ASSUME NEW c \in ApproveCalls, FinishApprove(c), approving[c].id # i
      PROVE  corrections'[i] = corrections[i]
  <2>1. PICK row \in Correction :
          /\ corrections' = [corrections EXCEPT ![approving[c].id] = row]
          /\ row.asked = corrections[approving[c].id].asked
    BY <1>3, FinishWrites
  <2> QED BY <1>0, <1>3, <2>1
<1>4. \/ \E c \in ProposeCalls : FinishRequest(c)
      \/ \E by \in Users, j \in DOMAIN corrections : Cancel(by, j) \/ Reject(by, j)
      \/ \E c \in ApproveCalls : FinishApprove(c)
      \/ UNCHANGED corrections
  BY MarkFrame, RequestFrame, DecideFrame, ApproveFrame, PlanFrame
     DEF Next, vars, SaveDailyReport, Tick
<1> QED BY <1>1, <1>2, <1>3, <1>4

(* What StartApprove holds from then on. *)
LEMMA StartHolds ==
  ASSUME CorrectionInv, NEW c \in ApproveCalls, NEW by \in Users, NEW i \in DOMAIN corrections,
         StartApprove(c, by, i), NEW asked, asked = corrections[i].asked
  PROVE  /\ asked \in Proposal
         /\ approving' = [approving EXCEPT ![c] = approving'[c]]
         /\ approving'[c].id = i /\ approving'[c].by = by
         /\ approving'[c].was = rows[Slot(asked)] /\ approving'[c].next = corrected(asked)
         /\ by # asked.user /\ corrections[i].status = "pending"
         /\ ~CorrectionLocked(i) /\ ~RowLocked(Slot(asked))
         /\ UNCHANGED <<hours, rows, corrections, rewritten>>
<1>1. asked \in Proposal
  <2>1. corrections[i] \in Correction
    BY DEF CorrectionInv, AttendanceTypeOK
  <2> QED BY <2>1 DEF Correction
<1>2. approving \in [ApproveCalls -> Approval \cup {None}]
  BY DEF CorrectionInv, AttendanceTypeOK
<1> DEFINE a == [id |-> i, by |-> by, was |-> rows[Slot(asked)], next |-> corrected(asked)]
<1>3. approving' = [approving EXCEPT ![c] = a]
  BY DEF StartApprove
<1>4. approving'[c] = a /\ approving' = [approving EXCEPT ![c] = approving'[c]]
  BY <1>2, <1>3
<1>5. by # asked.user /\ corrections[i].status = "pending"
      /\ ~CorrectionLocked(i) /\ ~RowLocked(Slot(asked))
      /\ UNCHANGED <<hours, rows, corrections, rewritten>>
  BY DEF StartApprove, MayDecide
<1> QED BY <1>1, <1>4, <1>5

(* What an approval lays over the row keeps its schedule and, of each time, *)
(* the one asked for or the one on record.                                  *)
LEMMA CorrectedTimes ==
  ASSUME CorrectionInv, NEW asked \in Proposal, rows[Slot(asked)] # None
  PROVE  LET row == rows[Slot(asked)]
             next == corrected(asked)
         IN  /\ next.schedule = row.schedule
             /\ next.in \in {asked.in, row.in} /\ next.out \in {asked.out, row.out}
<1> DEFINE row == rows[Slot(asked)]
           in == correctedIn(asked)
           out == correctedOut(asked)
           late == lateMinutes(asked.date, hoursOf(row.schedule), in)
           early == IF out = None THEN row.early
                    ELSE earlyLeaveMinutes(asked.date, hoursOf(row.schedule), out)
<1>1. row \in Row /\ Current(Slot(asked)) = row
  <2>1. Slot(asked) \in Users \X Dates
    BY DEF Slot, Proposal
  <2> QED BY <2>1 DEF CorrectionInv, AttendanceTypeOK, Current
<1>2. in \in {asked.in, row.in} /\ out \in {asked.out, row.out}
  BY <1>1 DEF correctedIn, correctedOut
<1>3. corrected(asked) = [row EXCEPT !.in = in, !.out = out, !.late = late, !.early = early]
  <2> HIDE DEF row
  <2> QED BY <1>1 DEF corrected, Row
<1> HIDE DEF row, in, out, late, early
<1>4. /\ corrected(asked).schedule = row.schedule
      /\ corrected(asked).in = in /\ corrected(asked).out = out
  BY <1>1, <1>3 DEF Row
<1> QED BY <1>2, <1>4 DEF row

(* What an approval read stands until it writes. *)
LEMMA NextStand == CorrectionInv /\ [Next]_vars => ApprovalsStand'
<1> DEFINE Stands(a) ==
      LET before == corrections'[a.id]
          asked == before.asked
      IN  /\ before.status = "pending"
          /\ a.by # asked.user
          /\ a.was # None =>
               /\ rows'[Slot(asked)] = a.was
               /\ a.next.schedule = a.was.schedule
               /\ a.next.in \in {asked.in, a.was.in}
               /\ a.next.out \in {asked.out, a.was.out}
<1> SUFFICES ASSUME CorrectionInv, [Next]_vars, NEW c \in ApproveCalls, approving'[c] # None
             PROVE  Stands(approving'[c])
  BY DEF ApprovalsStand
<1>1. CASE approving'[c] = approving[c]
  <2> DEFINE a == approving[c]
             asked == corrections[a.id].asked
             slot == Slot(asked)
  <2>1. a \in Approval /\ a # None /\ a.id \in DOMAIN corrections
    BY <1>1 DEF CorrectionInv, AttendanceTypeOK
  <2>2. slot \in Users \X Dates
    <3>1. corrections[a.id] \in Correction
      BY <2>1 DEF CorrectionInv, AttendanceTypeOK
    <3> QED BY <3>1 DEF Correction, Proposal, Slot
  <2>3. corrections'[a.id].asked = asked
    BY <2>1, AskedStays
  <2>4. /\ corrections[a.id].status = "pending"
        /\ a.by # asked.user
        /\ a.was # None =>
             /\ rows[slot] = a.was
             /\ a.next.schedule = a.was.schedule
             /\ a.next.in \in {asked.in, a.was.in}
             /\ a.next.out \in {asked.out, a.was.out}
    BY <2>1 DEF CorrectionInv, ApprovalsStand
  <2>5. ASSUME NEW d \in ApproveCalls, FinishApprove(d)
        PROVE  /\ approving[d].id # a.id
               /\ a.was # None => Slot(corrections[approving[d].id].asked) # slot
    <3>1. d # c /\ approving[d] # None
      BY <1>1, <2>1, <2>5, ApprovingSteps DEF FinishApprove
    <3>2. approving[d].was = None <=> rows[Slot(corrections[approving[d].id].asked)] = None
      BY <2>5, FinishWrites
    <3> QED BY <2>1, <2>4, <3>1, <3>2 DEF CorrectionInv, OneApproval
  <2>6. corrections'[a.id].status = "pending"
    <3>1. CorrectionLocked(a.id)
      BY <2>1 DEF CorrectionLocked
    <3> QED BY <2>1, <2>4, <2>5, <3>1, StatusStays
  <2>7. a.was # None => rows'[slot] = a.was
    <3> SUFFICES ASSUME a.was # None PROVE rows'[slot] = rows[slot]
      BY <2>4
    <3>1. RowLocked(slot)
      BY <2>1 DEF RowLocked
    <3> QED BY <2>2, <2>4, <2>5, <3>1, RowsStay
  <2> QED BY <1>1, <2>3, <2>4, <2>6, <2>7
<1>2. ASSUME NEW by \in Users, NEW i \in DOMAIN corrections, StartApprove(c, by, i)
      PROVE  Stands(approving'[c])
  <2> DEFINE asked == corrections[i].asked
             a == approving'[c]
  <2>1. /\ asked \in Proposal
        /\ a.id = i /\ a.by = by /\ a.was = rows[Slot(asked)] /\ a.next = corrected(asked)
        /\ by # asked.user /\ corrections[i].status = "pending"
        /\ UNCHANGED <<rows, corrections>>
    BY <1>2, StartHolds
  <2>2. rows[Slot(asked)] # None =>
          /\ corrected(asked).schedule = rows[Slot(asked)].schedule
          /\ corrected(asked).in \in {asked.in, rows[Slot(asked)].in}
          /\ corrected(asked).out \in {asked.out, rows[Slot(asked)].out}
    BY <2>1, CorrectedTimes
  <2> QED BY <2>1, <2>2
<1> QED BY <1>1, <1>2, ApprovingSteps

(* What an approval would write stays measured as it should be. *)
LEMMA NextMeasured == CorrectionInv /\ [Next]_vars => ApprovalsMeasured'
<1> DEFINE Sound(a) ==
      a.next.schedule \notin rewritten' =>
        Measured(a.next, corrections'[a.id].asked.date,
                 IF a.next.schedule = None THEN None ELSE hours'[a.next.schedule])
<1> SUFFICES ASSUME CorrectionInv, [Next]_vars, NEW c \in ApproveCalls, approving'[c] # None
             PROVE  Sound(approving'[c])
  BY DEF ApprovalsMeasured, Measured, hoursOf
<1>1. CASE approving'[c] = approving[c]
  <2> DEFINE a == approving[c]
  <2>1. a \in Approval /\ a # None /\ a.id \in DOMAIN corrections
    BY <1>1 DEF CorrectionInv, AttendanceTypeOK
  <2>2. a.next.schedule \in Schedules \cup {None}
    BY <2>1 DEF Approval, Row
  <2>3. a.next.schedule \notin rewritten =>
          Measured(a.next, corrections[a.id].asked.date,
                   IF a.next.schedule = None THEN None ELSE hours[a.next.schedule])
    BY <2>1 DEF CorrectionInv, ApprovalsMeasured, Measured, hoursOf
  <2>4. /\ rewritten \subseteq rewritten'
        /\ \A s \in Schedules \cup {None} : s \notin rewritten' =>
             (IF s = None THEN None ELSE hours'[s]) = (IF s = None THEN None ELSE hours[s])
    BY HoursStay
  <2>5. corrections'[a.id].asked = corrections[a.id].asked
    BY <2>1, AskedStays
  <2> HIDE DEF a
  <2>6. Sound(a)
    BY <2>2, <2>3, <2>4, <2>5
  <2> QED BY <1>1, <2>6 DEF a
<1>2. ASSUME NEW by \in Users, NEW i \in DOMAIN corrections, StartApprove(c, by, i)
      PROVE  Sound(approving'[c])
  <2> DEFINE asked == corrections[i].asked
             a == approving'[c]
  <2>1. /\ asked \in Proposal /\ a.id = i /\ a.next = corrected(asked)
        /\ UNCHANGED <<hours, corrections, rewritten>>
    BY <1>2, StartHolds
  <2>2. a.next.schedule \notin rewritten =>
          Measured(a.next, asked.date,
                   IF a.next.schedule = None THEN None ELSE hours[a.next.schedule])
    BY <2>1, CorrectedMeasured
  <2> HIDE DEF a
  <2>3. Sound(a)
    BY <2>1, <2>2
  <2> QED BY <2>3 DEF a
<1> QED BY <1>1, <1>2, ApprovingSteps

(* No two approvals hold the same correction or the same row. *)
LEMMA NextOne == CorrectionInv /\ [Next]_vars => OneApproval'
<1> DEFINE Apart(a, b) ==
      /\ a.id # b.id
      /\ a.was # None /\ b.was # None =>
           Slot(corrections'[a.id].asked) # Slot(corrections'[b.id].asked)
<1> SUFFICES ASSUME CorrectionInv, [Next]_vars,
                    NEW c \in ApproveCalls, NEW d \in ApproveCalls, c # d,
                    approving'[c] # None, approving'[d] # None
             PROVE  Apart(approving'[c], approving'[d])
  BY DEF OneApproval
<1>1. CASE approving'[c] = approving[c] /\ approving'[d] = approving[d]
  <2>1. approving[c].id \in DOMAIN corrections /\ approving[d].id \in DOMAIN corrections
    BY <1>1 DEF CorrectionInv, AttendanceTypeOK
  <2> QED BY <1>1, <2>1, AskedStays DEF CorrectionInv, OneApproval
<1>2. ASSUME NEW new \in ApproveCalls, NEW old \in ApproveCalls, new # old,
             approving'[new] # None, approving'[old] # None,
             NEW by \in Users, NEW i \in DOMAIN corrections, StartApprove(new, by, i)
      PROVE  Apart(approving'[new], approving'[old])
  <2> DEFINE asked == corrections[i].asked
  <2>1. /\ approving' = [approving EXCEPT ![new] = approving'[new]]
        /\ approving'[new].id = i /\ approving'[new].was = rows[Slot(asked)]
        /\ ~CorrectionLocked(i) /\ ~RowLocked(Slot(asked))
        /\ UNCHANGED corrections
    BY <1>2, StartHolds
  <2>2. approving'[old] = approving[old] /\ approving[old] # None
    BY <1>2, <2>1 DEF CorrectionInv, AttendanceTypeOK
  <2>3. approving[old].id # i
    BY <2>1, <2>2 DEF CorrectionLocked
  <2>4. approving[old].was # None => Slot(corrections[approving[old].id].asked) # Slot(asked)
    BY <2>1, <2>2 DEF RowLocked
  <2> QED BY <2>1, <2>2, <2>3, <2>4
<1>3. Apart(approving'[d], approving'[c]) => Apart(approving'[c], approving'[d])
  OBVIOUS
<1> HIDE DEF Apart
<1> QED BY <1>1, <1>2, <1>3, ApprovingSteps

-----------------------------------------------------------------------------
(* The theorems. *)

LEMMA CorrectionInvariant == Spec => []CorrectionInv
<1>1. Init => CorrectionInv
  BY InitType DEF Init, CorrectionInv, MeasuresAgree, MarksMeasured, ApprovalsMeasured,
                  ApprovalsStand, OneApproval
<1>2. CorrectionInv /\ [Next]_vars => CorrectionInv'
  BY NextType, NextMeasures, NextMarks, NextMeasured, NextStand, NextOne DEF CorrectionInv
<1> QED BY <1>1, <1>2, PTL DEF Spec

(* The tables of the attendance module hold rows of their types, whatever   *)
(* calls run together (migrations/000005 and 000009).                       *)
THEOREM AttendanceTypes == Spec => []AttendanceTypeOK
  BY CorrectionInvariant, PTL DEF CorrectionInv

(* A row's lateness and early leave always are those of its times under the *)
(* hours it kept: a check-out, a report and an approval that overlap never  *)
(* leave a measure of other times behind (service.go:476, repository.go:184). *)
THEOREM MeasuresSafety == Spec => []MeasuresAgree
  BY CorrectionInvariant, PTL DEF CorrectionInv

(* A time on record changes only with the approval, by someone else, of a   *)
(* correction that asked for it and keeps the times it replaced.            *)
THEOREM OnlyCorrectionsEdit == Spec => EditedOnlyByCorrection
<1> DEFINE Kept ==
      \A slot \in Users \X Dates :
          rows[slot] # None =>
             /\ rows'[slot] # None
             /\ \/ rows'[slot].in # rows[slot].in
                \/ rows[slot].out # None /\ rows'[slot].out # rows[slot].out
                => \E i \in DOMAIN corrections : ApprovedBy(i, slot)
<1>1. CorrectionInv /\ [Next]_vars => Kept
  <2> SUFFICES ASSUME CorrectionInv, [Next]_vars, NEW slot \in Users \X Dates, rows[slot] # None
               PROVE  /\ rows'[slot] # None
                      /\ \/ rows'[slot].in # rows[slot].in
                         \/ rows[slot].out # None /\ rows'[slot].out # rows[slot].out
                         => \E i \in DOMAIN corrections : ApprovedBy(i, slot)
    OBVIOUS
  <2>1. rows'[slot] # None
    BY RowsStay, NoneAssumption
  <2>2. ASSUME NEW c \in ApproveCalls, FinishApprove(c),
               Slot(corrections[approving[c].id].asked) = slot
        PROVE  \E i \in DOMAIN corrections : ApprovedBy(i, slot)
    <3> DEFINE a == approving[c]
               before == corrections[a.id]
    <3>1. /\ a.id \in DOMAIN corrections
          /\ \E row \in Row :
               /\ rows' = [rows EXCEPT ![slot] = row]
               /\ row.in \in {before.asked.in, rows[slot].in}
               /\ row.out \in {before.asked.out, rows[slot].out}
          /\ \E row \in Correction :
               /\ corrections' = [corrections EXCEPT ![a.id] = row]
               /\ row.status = "approved" /\ row.reviewer = a.by
               /\ a.by # before.asked.user
               /\ row.oldIn = rows[slot].in /\ row.oldOut = rows[slot].out
      BY <2>2, FinishWrites
    <3>2. before.status = "pending"
      BY <2>2 DEF FinishApprove, CorrectionInv, ApprovalsStand
    <3>3. /\ rows \in [Users \X Dates -> Row \cup {None}]
          /\ corrections \in Seq(Correction)
      BY DEF CorrectionInv, AttendanceTypeOK
    <3>4. /\ rows'[slot].in \in {before.asked.in, rows[slot].in}
          /\ rows'[slot].out \in {before.asked.out, rows[slot].out}
          /\ corrections'[a.id].status = "approved"
          /\ corrections'[a.id].reviewer # before.asked.user
          /\ corrections'[a.id].oldIn = rows[slot].in /\ corrections'[a.id].oldOut = rows[slot].out
      BY <3>1, <3>3
    <3>5. ApprovedBy(a.id, slot)
      BY <2>2, <3>2, <3>4 DEF ApprovedBy
    <3> QED BY <3>1, <3>5
  <2> QED BY <2>1, <2>2, RowsStay
<1>2. CorrectionInv /\ [Next]_vars => [Kept]_vars
  BY <1>1
<1> QED BY <1>2, CorrectionInvariant, PTL DEF Spec, EditedOnlyByCorrection

(* The rows of attendance_corrections, seen as requests somebody decides,   *)
(* move as ApprovalFlow says they may.                                      *)
LEMMA RequestFlows ==
  ASSUME CorrectionInv, NEW c \in ProposeCalls, FinishRequest(c)
  PROVE  Flow!Next
<1> DEFINE n == Len(corrections) + 1
           row == [asked |-> proposing[c], status |-> "pending", reviewer |-> None,
                   oldIn |-> None, oldOut |-> None]
<1>1. proposing[c] \in Proposal /\ corrections \in Seq(Correction) /\ n \in 1..MaxCorrections
  BY InputsAssumption, BoundsAssumption DEF CorrectionInv, AttendanceTypeOK, FinishRequest
<1>2. row \in Correction /\ row.asked.user \in Users /\ row.status = "pending"
      /\ row.reviewer = None
  BY <1>1 DEF Correction, Statuses, Proposal
<1>3. corrections' = Append(corrections, row)
  BY DEF FinishRequest
<1> HIDE DEF row
<1>4. /\ DOMAIN corrections' = DOMAIN corrections \cup {n} /\ corrections'[n] = row
      /\ n \notin DOMAIN corrections
      /\ \A i \in DOMAIN corrections : corrections'[i] = corrections[i]
  BY <1>1, <1>2, <1>3, AppendCorrection
<1>5. Filed[n] = None
  BY <1>1, <1>4 DEF Filed
<1>6. Filed' = [Filed EXCEPT ![n] =
                  [owner |-> row.asked.user, status |-> "pending", reviewer |-> None]]
  BY <1>1, <1>2, <1>4 DEF Filed
<1>7. Flow!File(n)
  BY <1>2, <1>5, <1>6 DEF Flow!File
<1> QED BY <1>1, <1>7 DEF Flow!Next

LEMMA SettleFlows ==
  ASSUME CorrectionInv, NEW i \in DOMAIN corrections, corrections[i].status = "pending",
         NEW row \in Correction, corrections' = [corrections EXCEPT ![i] = row],
         row.asked = corrections[i].asked,
         \/ row.status = "cancelled" /\ row.reviewer = corrections[i].reviewer
         \/ /\ row.status \in {"approved", "rejected"}
            /\ row.reviewer \in Users /\ row.reviewer # row.asked.user
  PROVE  Flow!Next
<1>1. corrections \in Seq(Correction) /\ corrections[i] \in Correction /\ i \in 1..MaxCorrections
  BY BoundsAssumption DEF CorrectionInv, AttendanceTypeOK
<1>2. corrections[i].asked.user \in Users /\ corrections[i].reviewer \in Users \cup {None}
  BY <1>1 DEF Correction, Proposal
<1>3. Filed[i] = [owner |-> corrections[i].asked.user, status |-> "pending",
                  reviewer |-> corrections[i].reviewer]
  BY <1>1 DEF Filed
<1>4. Filed[i] # None
  <2>1. Filed[i] \in [owner : Users, status : Statuses, reviewer : Users \cup {None}]
    BY <1>2, <1>3 DEF Statuses
  <2> QED BY <2>1, NoneAssumption
<1>5. /\ DOMAIN corrections' = DOMAIN corrections /\ corrections'[i] = row
      /\ \A j \in DOMAIN corrections : j # i => corrections'[j] = corrections[j]
  BY <1>1, SettleCorrection
<1>6. Filed' = [Filed EXCEPT ![i] = [owner |-> corrections[i].asked.user,
                                     status |-> row.status, reviewer |-> row.reviewer]]
  BY <1>1, <1>5 DEF Filed
<1>7. CASE row.status = "cancelled" /\ row.reviewer = corrections[i].reviewer
  <2>1. [Filed[i] EXCEPT !.status = "cancelled"]
          = [owner |-> corrections[i].asked.user, status |-> row.status, reviewer |-> row.reviewer]
    BY <1>3, <1>7
  <2>2. Filed' = [Filed EXCEPT ![i].status = "cancelled"]
    BY <1>6, <2>1
  <2>3. Flow!Withdraw(i)
    BY <1>3, <1>4, <2>2 DEF Flow!Withdraw
  <2> QED BY <1>1, <2>3 DEF Flow!Next
<1>8. CASE /\ row.status \in {"approved", "rejected"}
           /\ row.reviewer \in Users /\ row.reviewer # row.asked.user
  <2>1. Filed' = [Filed EXCEPT ![i].status = row.status, ![i].reviewer = row.reviewer]
    BY <1>1, <1>3, <1>5 DEF Filed
  <2>2. /\ Filed[i].status = "pending" /\ Filed[i].owner = row.asked.user
        /\ row.reviewer \in Users \ {Filed[i].owner}
    BY <1>3, <1>8
  <2>3. Flow!Decide(i)
    BY <1>4, <1>8, <2>1, <2>2 DEF Flow!Decide
  <2> QED BY <1>1, <2>3 DEF Flow!Next
<1> QED BY <1>7, <1>8

(* The attendance module implements the approval flow: whatever calls run   *)
(* together, a correction is decided once, by someone other than the        *)
(* employee, and withdrawn only while it is pending.                        *)
THEOREM CorrectionsImplementFlow == Spec => FlowSpec
<1>1. Init => Flow!Init
  BY DEF Init, Flow!Init, Filed
<1>2. CorrectionInv /\ [Next]_vars => [Flow!Next]_Filed
  <2> SUFFICES ASSUME CorrectionInv, [Next]_vars PROVE Flow!Next \/ UNCHANGED Filed
    OBVIOUS
  <2>1. ASSUME NEW by \in Users, NEW i \in DOMAIN corrections, Cancel(by, i) \/ Reject(by, i)
        PROVE  Flow!Next
    <3>1. corrections[i].status = "pending"
      BY <2>1 DEF Cancel, Reject
    <3>2. PICK row \in Correction :
           /\ corrections' = [corrections EXCEPT ![i] = row]
           /\ row.asked = corrections[i].asked
           /\ row.status \in {"cancelled", "rejected"}
           /\ row.status = "cancelled" => row.reviewer = corrections[i].reviewer
           /\ row.status = "rejected" => row.reviewer = by /\ by # row.asked.user
      BY <2>1, SettleSteps
    <3> QED BY <3>1, <3>2, SettleFlows
  <2>2. ASSUME NEW c \in ApproveCalls, FinishApprove(c)
        PROVE  Flow!Next
    <3> DEFINE i == approving[c].id
    <3>1. i \in DOMAIN corrections /\ corrections[i].status = "pending"
      BY <2>2 DEF CorrectionInv, AttendanceTypeOK, ApprovalsStand, FinishApprove
    <3>2. PICK row \in Correction :
           /\ corrections' = [corrections EXCEPT ![i] = row]
           /\ row.asked = corrections[i].asked
           /\ row.status = "approved" /\ row.reviewer = approving[c].by
           /\ approving[c].by # corrections[i].asked.user /\ approving[c].by \in Users
      BY <2>2, FinishWrites
    <3> QED BY <3>1, <3>2, SettleFlows
  <2>3. CASE UNCHANGED corrections
    BY <2>3 DEF Filed
  <2>4. \/ \E c \in ProposeCalls : FinishRequest(c)
        \/ \E by \in Users, i \in DOMAIN corrections : Cancel(by, i) \/ Reject(by, i)
        \/ \E c \in ApproveCalls : FinishApprove(c)
        \/ UNCHANGED corrections
    BY MarkFrame, RequestFrame, DecideFrame, ApproveFrame, PlanFrame
       DEF Next, vars, SaveDailyReport, Tick
  <2> QED BY <2>1, <2>2, <2>3, <2>4, RequestFlows
<1> QED BY <1>1, <1>2, CorrectionInvariant, PTL DEF Spec, FlowSpec, Flow!Spec

=============================================================================
