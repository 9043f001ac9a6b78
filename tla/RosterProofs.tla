---------------------------- MODULE RosterProofs ----------------------------
(***************************************************************************)
(* Proofs about Roster, for any people, dates, schedules, holidays, bulk   *)
(* writes and numbers of concurrent calls, and any length of a day.        *)
(***************************************************************************)
EXTENDS Roster, TLAPS

(* The inductive invariant.  A schedule is only ever deleted softly, so whatever once named one still finds
   its row: the roster, a default, a report that has not read the schedules yet, a retirement... *)
SchedulesFound ==
    /\ \A slot \in Slots : roster[slot] \in ScheduleIds => schedules[roster[slot]] # None
    /\ \A p \in People : defaults[p] # None => schedules[defaults[p]] # None

(* ...and the rows a bulk write has read and locked are still what it read. *)
CallKept(call) ==
    call # None =>
        /\ call.kind = "daily" =>
               /\ call.default # None => schedules[call.default] # None
               /\ call.row \in ScheduleIds => schedules[call.row] # None
        /\ call.kind = "retire" => schedules[call.schedule] # None
        /\ call.kind = "assign" /\ call.before # None =>
               \A slot \in DOMAIN call.before : call.before[slot] # None => roster[slot] = call.before[slot]

IInv == TypeOK /\ SchedulesFound /\ (\A c \in Calls : CallKept(calls[c])) /\ DailyTells

-----------------------------------------------------------------------------
(* Nothing is rostered, under way or told at first. *)
LEMMA InitIInv == Init => IInv
<1> SUFFICES ASSUME Init PROVE IInv
  OBVIOUS
<1>1. schedules \in [ScheduleIds -> ScheduleRow \cup {None}]
  <2>1. \A s \in ScheduleIds : FirstSchedules[s] # None => FirstSchedules[s] \in Schedule
    BY FirstAssumption, ContentsAssumption
  <2> QED
    BY <2>1 DEF Init, ScheduleRow
<1>2. TypeOK
  BY <1>1, DatesAssumption, FirstAssumption DEF Init, TypeOK
<1>3. SchedulesFound
  <2>1. \A s \in ScheduleIds : FirstSchedules[s] # None => schedules[s] # None
    <3> TAKE s \in ScheduleIds
    <3>1. CASE FirstSchedules[s] # None
      <4>1. schedules[s] = [content |-> FirstSchedules[s], deleted |-> FALSE] /\ FirstSchedules[s] \in Schedule
        BY <3>1, FirstAssumption, ContentsAssumption DEF Init
      <4>2. schedules[s] \in ScheduleRow
        BY <4>1 DEF ScheduleRow
      <4> QED
        BY <4>2, AbsentAssumption
    <3> QED
      BY <3>1
  <2> QED
    BY <2>1, FirstAssumption, AbsentAssumption DEF Init, SchedulesFound
<1>4. (\A c \in Calls : CallKept(calls[c])) /\ DailyTells
  BY DEF Init, CallKept, DailyTells
<1> QED
  BY <1>2, <1>3, <1>4 DEF IInv

(* What a call looks like follows from its kind. *)
LEMMA CallShapes ==
    ASSUME TypeOK, NEW c \in Calls, calls[c] # None
    PROVE  /\ calls[c].kind = "unassign" => calls[c] \in UnassignCall
           /\ calls[c].kind = "holiday" => calls[c] \in HolidayCall
           /\ calls[c].kind = "retire" => calls[c] \in RetireCall
           /\ calls[c].kind = "daily" => calls[c] \in DailyCall
           /\ calls[c].kind = "assign" =>
                  \E rows \in Bulks :
                      calls[c] \in [kind : {"assign"}, rows : {rows}, today : Dates,
                                    before : {None} \cup [DOMAIN rows -> ScheduleIds \cup {Off, None}]]
<1>1. calls[c] \in AssignCall \cup UnassignCall \cup HolidayCall \cup RetireCall \cup DailyCall
  BY DEF TypeOK, Call
<1>2. CASE calls[c] \in AssignCall
  <2>1. PICK rows \in Bulks :
            calls[c] \in [kind : {"assign"}, rows : {rows}, today : Dates,
                          before : {None} \cup [DOMAIN rows -> ScheduleIds \cup {Off, None}]]
    BY <1>2, Zenon DEF AssignCall
  <2>2. calls[c].kind = "assign"
    BY <2>1
  <2> QED
    BY <2>1, <2>2
<1>3. CASE calls[c] \in UnassignCall
  BY <1>3 DEF UnassignCall
<1>4. CASE calls[c] \in HolidayCall
  BY <1>4 DEF HolidayCall
<1>5. CASE calls[c] \in RetireCall
  BY <1>5 DEF RetireCall
<1>6. CASE calls[c] \in DailyCall
  BY <1>6 DEF DailyCall
<1> QED
  BY <1>1, <1>2, <1>3, <1>4, <1>5, <1>6

-----------------------------------------------------------------------------
(* A call that only starts, reads or gives up changes what it holds and nothing else. *)
LEMMA CallStep ==
    ASSUME IInv, NEW c \in Calls, NEW call \in Call \cup {None}, CallKept(call),
           calls' = [calls EXCEPT ![c] = call], UNCHANGED <<tables, today>>, Quiet
    PROVE  IInv'
<1>1. UNCHANGED <<schedules, defaults, roster, holidays, dropped, today>> /\ written' = {} /\ told' = None
  BY DEF tables, Quiet
<1>2. TypeOK'
  BY <1>1 DEF IInv, TypeOK
<1>3. SchedulesFound' /\ DailyTells'
  BY <1>1 DEF IInv, SchedulesFound, DailyTells
<1>4. \A d \in Calls : CallKept(calls[d])'
  BY <1>1 DEF IInv, TypeOK, CallKept
<1> QED
  BY <1>2, <1>3, <1>4 DEF IInv

LEMMA StartStep ==
    ASSUME IInv, NEW c \in Calls,
           \/ \E rows \in Bulks : StartAssign(c, rows)
           \/ \E slot \in Slots : StartUnassign(c, slot)
           \/ \E date \in Dates : StartCreateHoliday(c, date)
           \/ \E h \in HolidayIds, date \in Dates : StartReplaceHoliday(c, h, date)
           \/ \E h \in HolidayIds : StartDeleteHoliday(c, h)
           \/ \E s \in ScheduleIds : StartRetire(c, s)
           \/ \E slot \in Slots : StartDaily(c, slot)
    PROVE  IInv'
<1> USE DEF Starts
<1>1. TypeOK
  BY DEF IInv
<1>2. CASE \E rows \in Bulks : StartAssign(c, rows)
  <2>1. PICK rows \in Bulks : StartAssign(c, rows)
    BY <1>2
  <2>2. PICK call : call = [kind |-> "assign", rows |-> rows, today |-> today, before |-> None]
    OBVIOUS
  <2>3. call \in [kind : {"assign"}, rows : {rows}, today : Dates,
                  before : {None} \cup [DOMAIN rows -> ScheduleIds \cup {Off, None}]]
    BY <1>1, <2>2 DEF TypeOK
  <2>4. call \in Call
    BY <2>3, Zenon DEF Call, AssignCall
  <2>5. CallKept(call)
    BY <2>2 DEF CallKept
  <2> QED
    BY <2>1, <2>2, <2>4, <2>5, CallStep DEF StartAssign
<1>3. CASE \E slot \in Slots : StartUnassign(c, slot)
  <2>1. PICK slot \in Slots : StartUnassign(c, slot)
    BY <1>3
  <2>2. PICK call : call = [kind |-> "unassign", slot |-> slot, row |-> roster[slot], today |-> today, gone |-> FALSE]
    OBVIOUS
  <2>3. call \in UnassignCall /\ CallKept(call)
    BY <1>1, <2>1, <2>2 DEF StartUnassign, TypeOK, UnassignCall, CallKept
  <2> QED
    BY <2>1, <2>2, <2>3, CallStep DEF StartUnassign, Call
<1>4. CASE \E date \in Dates : StartCreateHoliday(c, date)
  <2>1. PICK date \in Dates : StartCreateHoliday(c, date)
    BY <1>4
  <2>2. PICK call : call = [kind |-> "holiday", id |-> None, was |-> None, is |-> date, today |-> today]
    OBVIOUS
  <2>3. call \in HolidayCall /\ CallKept(call)
    BY <1>1, <2>2 DEF TypeOK, HolidayCall, CallKept
  <2> QED
    BY <2>1, <2>2, <2>3, CallStep DEF StartCreateHoliday, Call
<1>5. CASE \/ \E h \in HolidayIds, date \in Dates : StartReplaceHoliday(c, h, date)
           \/ \E h \in HolidayIds : StartDeleteHoliday(c, h)
  <2>1. PICK h \in HolidayIds, date \in Dates \cup {None} :
            Starts(c, [kind |-> "holiday", id |-> h, was |-> holidays[h], is |-> date, today |-> today])
    BY <1>5 DEF StartReplaceHoliday, StartDeleteHoliday
  <2>2. PICK call : call = [kind |-> "holiday", id |-> h, was |-> holidays[h], is |-> date, today |-> today]
    OBVIOUS
  <2>3. call \in HolidayCall /\ CallKept(call)
    BY <1>1, <2>2 DEF TypeOK, HolidayCall, CallKept
  <2> QED
    BY <2>1, <2>2, <2>3, CallStep DEF Call
<1>6. CASE \E s \in ScheduleIds : StartRetire(c, s)
  <2>1. PICK s \in ScheduleIds : StartRetire(c, s)
    BY <1>6
  <2>2. PICK call : call = [kind |-> "retire", schedule |-> s, today |-> today, counted |-> "none"]
    OBVIOUS
  <2>3. call \in RetireCall /\ CallKept(call)
    BY <1>1, <2>1, <2>2 DEF StartRetire, TypeOK, RetireCall, CallKept
  <2> QED
    BY <2>1, <2>2, <2>3, CallStep DEF StartRetire, Call
<1>7. CASE \E slot \in Slots : StartDaily(c, slot)
  <2>1. PICK slot \in Slots : StartDaily(c, slot)
    BY <1>7
  <2>2. PICK call : call = [kind |-> "daily", step |-> "roster", slot |-> slot,
                            default |-> defaults[slot[1]], row |-> None, holiday |-> FALSE]
    OBVIOUS
  <2>3. slot[1] \in People
    BY DEF Slots
  <2>4. call \in DailyCall /\ CallKept(call)
    BY <1>1, <2>2, <2>3, AbsentAssumption DEF IInv, SchedulesFound, TypeOK, DailyCall, CallKept
  <2> QED
    BY <2>1, <2>2, <2>4, CallStep DEF StartDaily, Call
<1> QED
  BY <1>2, <1>3, <1>4, <1>5, <1>6, <1>7

(* What a call reads and locks is what the tables hold now. *)
LEMMA ReadStep ==
    ASSUME IInv, NEW c \in Calls,
           lockAssignments(c) \/ CountUsers(c) \/ CountAssignments(c) \/ ListAssignments(c) \/ ListHolidays(c)
           \/ CallFails(c)
    PROVE  IInv'
<1>1. TypeOK /\ CallKept(calls[c])
  BY DEF IInv
<1>2. CASE lockAssignments(c)
  <2>1. PICK rows \in Bulks :
            calls[c] \in [kind : {"assign"}, rows : {rows}, today : Dates,
                          before : {None} \cup [DOMAIN rows -> ScheduleIds \cup {Off, None}]]
    BY <1>1, <1>2, CallShapes DEF lockAssignments, Is
  <2>2. PICK before : before = [slot \in DOMAIN rows |-> roster[slot]]
    OBVIOUS
  <2>3. before \in [DOMAIN rows -> ScheduleIds \cup {Off, None}]
    BY <1>1, <2>2, BulksAssumption DEF TypeOK
  <2>4. PICK call : call = [calls[c] EXCEPT !.before = before]
    OBVIOUS
  <2>5. call \in [kind : {"assign"}, rows : {rows}, today : Dates,
                  before : {None} \cup [DOMAIN rows -> ScheduleIds \cup {Off, None}]]
        /\ call.before = before /\ call.kind = "assign"
    BY <2>1, <2>3, <2>4
  <2>6. call \in Call
    BY <2>5, Zenon DEF Call, AssignCall
  <2>7. CallKept(call)
    BY <2>2, <2>5 DEF CallKept
  <2>8. calls' = [calls EXCEPT ![c] = call]
    BY <1>1, <1>2, <2>1, <2>2, <2>4 DEF lockAssignments, TypeOK
  <2> QED
    BY <1>2, <2>6, <2>7, <2>8, CallStep DEF lockAssignments
<1>3. CASE CountUsers(c) \/ CountAssignments(c)
  <2>1. PICK counted \in {"users", "both"} :
            Is(c, "retire") /\ calls' = [calls EXCEPT ![c].counted = counted]
            /\ UNCHANGED <<tables, today>> /\ Quiet
    BY <1>3 DEF CountUsers, CountAssignments
  <2>2. PICK call : call = [calls[c] EXCEPT !.counted = counted]
    OBVIOUS
  <2>3. calls[c] \in RetireCall
    BY <1>1, <2>1, CallShapes DEF Is
  <2>4. call \in RetireCall /\ call.schedule = calls[c].schedule /\ call.kind = "retire" /\ calls[c].kind = "retire"
    BY <2>2, <2>3 DEF RetireCall
  <2>5. CallKept(call)
    BY <1>1, <2>1, <2>4 DEF CallKept, Is
  <2>6. calls' = [calls EXCEPT ![c] = call]
    BY <1>1, <2>1, <2>2 DEF TypeOK
  <2> QED
    BY <2>1, <2>4, <2>5, <2>6, CallStep DEF Call
<1>4. CASE ListAssignments(c)
  <2>1. PICK call : call = [calls[c] EXCEPT !.step = "holidays", !.row = roster[calls[c].slot]]
    OBVIOUS
  <2>2. calls[c] \in DailyCall /\ calls[c] # None
    BY <1>1, <1>4, CallShapes DEF Is, ListAssignments
  <2>3. roster[calls[c].slot] \in ScheduleIds \cup {Off, None} /\ calls[c].slot \in Slots
    BY <1>1, <2>2 DEF TypeOK, DailyCall
  <2>4. call \in DailyCall /\ call.default = calls[c].default /\ call.row = roster[calls[c].slot] /\ call.kind = "daily"
        /\ calls[c].kind = "daily"
    BY <2>1, <2>2, <2>3 DEF DailyCall
  <2>5. CallKept(call)
    BY <1>1, <2>2, <2>3, <2>4 DEF CallKept, IInv, SchedulesFound
  <2>6. calls' = [calls EXCEPT ![c] = call]
    BY <1>1, <1>4, <2>1 DEF ListAssignments, TypeOK
  <2> QED
    BY <1>4, <2>4, <2>5, <2>6, CallStep DEF ListAssignments, Call
<1>5. CASE ListHolidays(c)
  <2>1. PICK holiday \in BOOLEAN : holiday = (\E h \in HolidayIds : holidays[h] = calls[c].slot[2])
    OBVIOUS
  <2>2. PICK call : call = [calls[c] EXCEPT !.step = "schedules", !.holiday = holiday]
    OBVIOUS
  <2>3. calls[c] \in DailyCall /\ calls[c] # None
    BY <1>1, <1>5, CallShapes DEF Is, ListHolidays
  <2>4. call \in DailyCall /\ call.default = calls[c].default /\ call.row = calls[c].row /\ call.kind = "daily"
        /\ calls[c].kind = "daily"
    BY <2>1, <2>2, <2>3 DEF DailyCall
  <2>5. CallKept(call)
    BY <1>1, <2>3, <2>4 DEF CallKept
  <2>6. calls' = [calls EXCEPT ![c] = call]
    BY <1>1, <1>5, <2>1, <2>2 DEF ListHolidays, TypeOK
  <2> QED
    BY <1>5, <2>4, <2>5, <2>6, CallStep DEF ListHolidays, Call
<1>6. CASE CallFails(c)
  <2>1. CallKept(None)
    BY DEF CallKept
  <2> QED
    BY <1>6, <2>1, CallStep DEF CallFails, Ends
<1> QED
  BY <1>2, <1>3, <1>4, <1>5, <1>6

-----------------------------------------------------------------------------
(* A write of the roster ends its call and moves no row that another call has locked. *)
LEMMA RosterWriteKept ==
    ASSUME IInv, NEW c \in Calls, UNCHANGED schedules,
           \A d \in Calls \ {c} : calls'[d] = calls[d] \/ (calls'[d] # None => calls'[d].kind = "unassign"),
           calls'[c] = None,
           \A slot \in Slots : roster'[slot] # roster[slot] => ~Held(c, slot)
    PROVE  \A d \in Calls : CallKept(calls[d])'
<1> SUFFICES ASSUME NEW d \in Calls, d # c, calls'[d] = calls[d], calls[d] # None
             PROVE  CallKept(calls[d])'
  BY DEF CallKept
<1>1. CallKept(calls[d]) /\ TypeOK
  BY DEF IInv
<1>2. CASE calls[d].kind = "assign" /\ calls[d].before # None
  <2>1. PICK rows \in Bulks : calls[d].before \in [DOMAIN rows -> ScheduleIds \cup {Off, None}]
    BY <1>1, <1>2, CallShapes
  <2>2. \A slot \in DOMAIN calls[d].before : calls[d].before[slot] # None => slot \in Slots /\ Held(c, slot)
    BY <1>2, <2>1, BulksAssumption DEF Held, Is
  <2> QED
    BY <1>1, <1>2, <2>2 DEF CallKept
<1>3. CASE ~(calls[d].kind = "assign" /\ calls[d].before # None)
  BY <1>1, <1>3 DEF CallKept
<1> QED
  BY <1>2, <1>3

LEMMA UpsertStep ==
    ASSUME IInv, NEW c \in Calls, UpsertAssignments(c)
    PROVE  IInv'
<1>1. TypeOK /\ calls[c] # None
  BY DEF IInv, UpsertAssignments, Is
<1>2. PICK rows \in Bulks :
          calls[c] \in [kind : {"assign"}, rows : {rows}, today : Dates,
                        before : {None} \cup [DOMAIN rows -> ScheduleIds \cup {Off, None}]]
  BY <1>1, CallShapes DEF UpsertAssignments, Is
<1>3. /\ calls[c].rows = rows /\ DOMAIN rows \subseteq Slots
      /\ \A slot \in DOMAIN rows : rows[slot] \in ScheduleIds \cup {Off}
  BY <1>2, BulksAssumption
<1>4. /\ roster' = [slot \in Slots |-> IF slot \in DOMAIN rows THEN rows[slot] ELSE roster[slot]]
      /\ UNCHANGED <<schedules, defaults, holidays, dropped, today>> /\ told' = None
      /\ calls' = [calls EXCEPT ![c] = None]
  BY <1>3 DEF UpsertAssignments, Ends
<1>5. written' \subseteq Entry
  <2>1. CASE Audits(calls[c])
    <3>1. calls[c].before \in [DOMAIN rows -> ScheduleIds \cup {Off, None}]
      BY <1>2, <2>1 DEF UpsertAssignments
    <3>2. \A slot \in DOMAIN rows :
              [kind |-> "shift", slot |-> slot, was |-> calls[c].before[slot], is |-> rows[slot]] \in Entry
      BY <1>3, <3>1 DEF Entry
    <3> QED
      BY <1>3, <2>1, <3>2 DEF UpsertAssignments, auditAssigned
  <2> QED
    BY <2>1 DEF UpsertAssignments
<1>6. TypeOK'
  BY <1>1, <1>3, <1>4, <1>5 DEF TypeOK
<1>7. SchedulesFound'
  <2>1. \A slot \in DOMAIN rows : rows[slot] \in ScheduleIds => schedules[rows[slot]] # None
    BY <1>3, AbsentAssumption DEF UpsertAssignments
  <2> QED
    BY <1>1, <1>3, <1>4, <2>1 DEF IInv, SchedulesFound, TypeOK
<1>8. \A d \in Calls : CallKept(calls[d])'
  <2>1. \A slot \in Slots : roster'[slot] # roster[slot] => ~Held(c, slot)
    BY <1>3, <1>4 DEF UpsertAssignments
  <2> QED
    BY <1>1, <1>4, <2>1, RosterWriteKept DEF TypeOK
<1> QED
  BY <1>4, <1>6, <1>7, <1>8 DEF IInv, DailyTells

LEMMA DeleteStep ==
    ASSUME IInv, NEW c \in Calls, DeleteAssignment(c)
    PROVE  IInv'
<1>1. TypeOK /\ calls[c] # None /\ calls[c] \in UnassignCall
  BY CallShapes DEF IInv, DeleteAssignment, Is
<1>2. PICK slot \in Slots : slot = calls[c].slot
  BY <1>1 DEF UnassignCall
<1>3. /\ roster' = [roster EXCEPT ![slot] = None]
      /\ UNCHANGED <<schedules, defaults, holidays, dropped, today>> /\ told' = None
  BY <1>2 DEF DeleteAssignment
<1>4. written' \subseteq Entry
  <2>1. [kind |-> "shift", slot |-> slot, was |-> calls[c].row, is |-> None] \in Entry
    BY <1>1 DEF Entry, UnassignCall
  <2> QED
    BY <1>2, <2>1 DEF DeleteAssignment
<1>5. \A other \in Calls : Is(other, "unassign") => [calls[other] EXCEPT !.gone = TRUE] \in UnassignCall
  BY <1>1, CallShapes DEF Is, UnassignCall
<1>6. calls' \in [Calls -> Call \cup {None}]
  BY <1>1, <1>5 DEF DeleteAssignment, TypeOK, Call
<1>7. TypeOK'
  BY <1>1, <1>3, <1>4, <1>6 DEF TypeOK
<1>8. SchedulesFound'
  BY <1>1, <1>3, AbsentAssumption DEF IInv, SchedulesFound, TypeOK
<1>9. \A d \in Calls : CallKept(calls[d])'
  <2>1. \A other \in Calls \ {c} : calls'[other] = calls[other] \/ (calls'[other] # None => calls'[other].kind = "unassign")
    BY <1>5 DEF DeleteAssignment, UnassignCall
  <2>2. calls'[c] = None
    BY DEF DeleteAssignment
  <2>3. \A s \in Slots : roster'[s] # roster[s] => ~Held(c, s)
    BY <1>1, <1>2, <1>3 DEF DeleteAssignment, TypeOK
  <2> QED
    BY <1>3, <2>1, <2>2, <2>3, RosterWriteKept
<1> QED
  BY <1>3, <1>7, <1>8, <1>9 DEF IInv, DailyTells

-----------------------------------------------------------------------------
(* A holiday's row comes once and goes once. *)
LEMMA HolidayWriteStep ==
    ASSUME IInv, NEW c \in Calls, NEW h \in HolidayIds, FinishHoliday(c, h)
    PROVE  IInv'
<1>1. TypeOK /\ calls[c] # None /\ calls[c] \in HolidayCall
  BY CallShapes DEF IInv, FinishHoliday, Is
<1>2. PICK date \in Dates \cup {None} : date = calls[c].is
  BY <1>1 DEF HolidayCall
<1>3. /\ holidays' = [holidays EXCEPT ![h] = date]
      /\ dropped' = IF date = None THEN dropped \cup {h} ELSE dropped
      /\ UNCHANGED <<schedules, defaults, roster, today>> /\ told' = None
      /\ calls' = [calls EXCEPT ![c] = None]
  BY <1>2 DEF FinishHoliday, Ends
<1>4. written' \subseteq Entry
  <2>1. [kind |-> "holiday", was |-> calls[c].was, is |-> calls[c].is] \in Entry
    BY <1>1 DEF Entry, HolidayCall
  <2> QED
    BY <2>1 DEF FinishHoliday, auditHoliday
<1>5. h \notin dropped
  BY <1>1 DEF FinishHoliday, Live, TypeOK
<1>6. TypeOK'
  BY <1>1, <1>3, <1>4, <1>5 DEF TypeOK
<1>7. SchedulesFound' /\ \A d \in Calls : CallKept(calls[d])'
  BY <1>1, <1>3 DEF IInv, SchedulesFound, CallKept, TypeOK
<1> QED
  BY <1>3, <1>6, <1>7 DEF IInv, DailyTells

-----------------------------------------------------------------------------
(* No step takes a schedule's row away. *)
LEMMA ScheduleWriteKept ==
    ASSUME IInv, UNCHANGED <<defaults, roster, holidays, dropped, today>>, Quiet,
           schedules' \in [ScheduleIds -> ScheduleRow \cup {None}],
           \A s \in ScheduleIds : schedules[s] # None => schedules'[s] # None,
           calls' \in [Calls -> Call \cup {None}],
           \A c \in Calls : calls'[c] = calls[c] \/ calls'[c] = None
    PROVE  IInv'
<1>1. TypeOK /\ written' = {} /\ told' = None
  BY DEF IInv, Quiet
<1>2. TypeOK'
  BY <1>1 DEF TypeOK
<1>3. SchedulesFound'
  BY <1>1 DEF IInv, SchedulesFound, TypeOK
<1>4. ASSUME NEW c \in Calls PROVE CallKept(calls[c])'
  <2>1. CASE calls'[c] = None
    BY <2>1 DEF CallKept
  <2>2. CASE calls'[c] = calls[c] /\ calls[c] # None
    <3>1. CallKept(calls[c])
      BY DEF IInv
    <3>2. calls[c].kind = "daily" => calls[c].default \in ScheduleIds \cup {None}
      BY <1>1, <2>2, CallShapes DEF DailyCall
    <3>3. calls[c].kind = "retire" => calls[c].schedule \in ScheduleIds
      BY <1>1, <2>2, CallShapes DEF RetireCall
    <3> QED
      BY <2>2, <3>1, <3>2, <3>3 DEF CallKept
  <2> QED
    BY <2>1, <2>2
<1> QED
  BY <1>1, <1>2, <1>3, <1>4 DEF IInv, DailyTells

LEMMA ScheduleWriteStep ==
    ASSUME IInv,
           ScheduleStep \/ \E c \in Calls : DeleteSchedule(c)
    PROVE  IInv'
<1>1. TypeOK
  BY DEF IInv
<1>2. CASE \E s \in ScheduleIds, content \in Contents : CreateSchedule(s, content)
  <2>1. PICK s \in ScheduleIds, content \in Contents : CreateSchedule(s, content)
    BY <1>2
  <2>2. PICK row : row = [content |-> content, deleted |-> FALSE]
    OBVIOUS
  <2>3. row \in ScheduleRow
    BY <2>2, ContentsAssumption DEF ScheduleRow
  <2>4. row # None
    BY <2>3, AbsentAssumption
  <2> QED
    BY <1>1, <2>1, <2>2, <2>3, <2>4, ScheduleWriteKept DEF CreateSchedule, TypeOK
<1>3. CASE \E s \in ScheduleIds, content \in Contents : ReplaceSchedule(s, content)
  <2>1. PICK s \in ScheduleIds, content \in Contents : ReplaceSchedule(s, content)
    BY <1>3
  <2>2. PICK row : row = [schedules[s] EXCEPT !.content = content]
    OBVIOUS
  <2>3. row \in ScheduleRow /\ row # None
    <3>1. schedules[s] \in ScheduleRow /\ content \in Schedule
      BY <1>1, <2>1, ContentsAssumption DEF ReplaceSchedule, TypeOK
    <3>2. row \in ScheduleRow
      BY <2>2, <3>1 DEF ScheduleRow
    <3> QED
      BY <3>2, AbsentAssumption
  <2>4. schedules' = [schedules EXCEPT ![s] = row]
    BY <1>1, <2>1, <2>2 DEF ReplaceSchedule, TypeOK
  <2> QED
    BY <1>1, <2>1, <2>3, <2>4, ScheduleWriteKept DEF ReplaceSchedule, TypeOK
<1>4. CASE \E c \in Calls : DeleteSchedule(c)
  <2>1. PICK c \in Calls : DeleteSchedule(c)
    BY <1>4
  <2>2. calls[c] # None /\ calls[c] \in RetireCall /\ CallKept(calls[c])
    BY <1>1, <2>1, CallShapes DEF DeleteSchedule, Is, IInv
  <2>3. PICK s \in ScheduleIds : s = calls[c].schedule /\ schedules[s] \in ScheduleRow
    BY <1>1, <2>1, <2>2 DEF RetireCall, CallKept, TypeOK, DeleteSchedule, Is
  <2>4. PICK row : row = [schedules[s] EXCEPT !.deleted = TRUE]
    OBVIOUS
  <2>5. row \in ScheduleRow /\ row # None
    BY <2>3, <2>4, AbsentAssumption DEF ScheduleRow
  <2>6. schedules' = [schedules EXCEPT ![s] = row]
    BY <1>1, <2>1, <2>3, <2>4 DEF DeleteSchedule, TypeOK
  <2>7. calls' = [calls EXCEPT ![c] = None]
    BY <2>1 DEF DeleteSchedule, Ends
  <2> QED
    BY <1>1, <2>1, <2>5, <2>6, <2>7, ScheduleWriteKept DEF DeleteSchedule, TypeOK
<1> QED
  BY <1>2, <1>3, <1>4 DEF ScheduleStep

LEMMA DefaultWriteStep ==
    ASSUME IInv, DefaultStep
    PROVE  IInv'
<1>1. PICK p \in People, s \in ScheduleIds \cup {None} : SetDefault(p, s)
  BY DEF DefaultStep
<1>2. UNCHANGED <<schedules, roster, holidays, dropped, today, calls>> /\ written' = {} /\ told' = None
  BY <1>1 DEF SetDefault, Quiet
<1>3. TypeOK' /\ SchedulesFound'
  BY <1>1, <1>2 DEF SetDefault, IInv, TypeOK, SchedulesFound
<1>4. \A c \in Calls : CallKept(calls[c])'
  BY <1>2 DEF IInv, CallKept
<1> QED
  BY <1>2, <1>3, <1>4 DEF IInv, DailyTells

LEMMA MidnightStep ==
    ASSUME IInv, Midnight
    PROVE  IInv'
<1>1. UNCHANGED <<schedules, defaults, roster, holidays, dropped, calls>> /\ written' = {} /\ told' = None
      /\ today' \in Dates
  BY DEF Midnight, tables, Quiet
<1> QED
  BY <1>1 DEF IInv, TypeOK, SchedulesFound, CallKept, DailyTells

-----------------------------------------------------------------------------
(* Where a person stands is one of the statuses a report knows. *)
LEMMA StatusKnown ==
    ASSUME NEW date, NEW attended \in {"present", "late", None}, NEW away, NEW in, NEW at
    PROVE  dailyStatus(date, attended, away, in, at) \in Statuses
BY DEF dailyStatus, standing, Statuses

(* A moment of today is not before the days that are past, and no shift starts before its day. *)
LEMMA NotBegun ==
    ASSUME NEW date \in Nat, NEW day \in Nat, NEW h \in Hours, NEW at \in Int,
           at < (day + 1) * DayLength, at >= shiftStart(date, h) + h.grace
    PROVE  date <= day
<1>1. DayLength \in Nat \ {0} /\ h.start \in Nat /\ h.grace \in Nat
  BY ClockAssumption DEF Hours
<1>2. date * DayLength < (day + 1) * DayLength
  BY <1>1 DEF shiftStart
<1>3. ASSUME day + 1 <= date PROVE FALSE
  <2>1. (day + 1) * DayLength <= date * DayLength
    BY <1>1, <1>3
  <2> QED
    BY <1>1, <1>2, <2>1
<1> QED
  BY <1>3

(* Rule B over rule A, for a day with neither attendance nor leave: a date the roster gives a schedule to is
   a holiday or a working day, one it gives none to never is, and nobody is absent before it has begun. *)
LEMMA StandingTells ==
    ASSUME NEW date \in Nat, NEW day \in Nat, NEW in \in Inputs, NEW at \in Int, at < (day + 1) * DayLength
    PROVE  /\ in.rostered /\ in.assigned # None => standing(date, in, at) # "off"
           /\ in.rostered /\ in.assigned = None => standing(date, in, at) \notin {"not_yet", "absent"}
           /\ standing(date, in, at) = "holiday" => in.holiday
           /\ standing(date, in, at) = "absent" => date <= day
           /\ standing(date, in, at) \notin {"present", "late", "on_leave"}
<1>1. PICK rule : rule = Resolve(date, in)
  OBVIOUS
<1>2. /\ in.rostered /\ in.assigned # None => rule.working \/ in.holiday
      /\ in.rostered /\ in.assigned = None => ~rule.working
      /\ rule.working \in BOOLEAN
      /\ rule.working => rule.schedule \in Schedule
  BY <1>1 DEF Resolve, off, Inputs
<1>3. CASE rule.working
  <2>1. rule.schedule.hours \in Hours
    BY <1>2, <1>3 DEF Schedule
  <2>2. standing(date, in, at) = IF at < shiftStart(date, rule.schedule.hours) + rule.schedule.hours.grace
                                 THEN "not_yet" ELSE "absent"
    BY <1>1, <1>3 DEF standing
  <2>3. standing(date, in, at) = "absent" => at >= shiftStart(date, rule.schedule.hours) + rule.schedule.hours.grace
    BY <2>1, <2>2, ClockAssumption DEF Hours, shiftStart
  <2>4. standing(date, in, at) = "absent" => date <= day
    BY <2>1, <2>3, NotBegun
  <2> QED
    BY <1>2, <1>3, <2>2, <2>4
<1>4. CASE ~rule.working
  BY <1>1, <1>2, <1>4 DEF standing
<1> QED
  BY <1>2, <1>3, <1>4

LEMMA DailyAnswerStep ==
    ASSUME IInv, NEW c \in Calls, NEW attended \in {"present", "late", None}, NEW away \in BOOLEAN,
           NEW at \in today * DayLength .. (today + 1) * DayLength - 1, FinishDaily(c, attended, away, at)
    PROVE  IInv'
<1>1. TypeOK /\ calls[c] # None /\ calls[c] \in DailyCall /\ CallKept(calls[c])
  BY CallShapes DEF IInv, FinishDaily, Is
<1>2. PICK call \in DailyCall : call = calls[c]
  BY <1>1
<1>3. /\ call.slot \in Slots /\ call.default \in ScheduleIds \cup {None} /\ call.holiday \in BOOLEAN
      /\ call.row \in ScheduleIds \cup {Off, None} /\ call.kind = "daily" /\ call # None
  BY <1>1, <1>2 DEF DailyCall
<1>4. call.slot[2] \in Nat /\ today \in Nat /\ today' \in Nat
  BY <1>1, <1>3, DatesAssumption DEF Slots, TypeOK, FinishDaily
<1>5. PICK in : in = inputs(call.default, call.row, call.holiday)
  OBVIOUS
<1>6. /\ in \in Inputs /\ in.holiday = call.holiday
      /\ call.row \in ScheduleIds => in.rostered /\ in.assigned # None
      /\ call.row = Off => in.rostered /\ in.assigned = None
  <2>1. \A s \in ScheduleIds : schedules[s] # None => schedules[s].content \in Schedule /\ schedules[s].content # None
    BY <1>1, AbsentAssumption DEF TypeOK, ScheduleRow
  <2>2. /\ call.default # None => schedules[call.default] # None
        /\ call.row \in ScheduleIds => schedules[call.row] # None
    BY <1>1, <1>2, <1>3 DEF CallKept
  <2>3. scheduleByID(call.row) \in Schedule \cup {None} /\ scheduleByID(call.default) \in Schedule \cup {None}
    BY <1>3, <2>1, <2>2, AbsentAssumption DEF scheduleByID
  <2>4. /\ call.row \in ScheduleIds => call.row # None /\ scheduleByID(call.row) # None
        /\ call.row = Off => call.row # None /\ scheduleByID(call.row) = None
    BY <2>1, <2>2, AbsentAssumption DEF scheduleByID
  <2> QED
    BY <1>3, <1>5, <2>3, <2>4 DEF inputs, Inputs
<1>7. PICK status : status = dailyStatus(call.slot[2], attended, away, in, at)
  OBVIOUS
<1>8. status \in Statuses
  BY <1>7, StatusKnown
<1>9. /\ call.row \in ScheduleIds => status # "off"
      /\ call.row = Off => status \notin {"not_yet", "absent"}
      /\ status = "holiday" => call.holiday
      /\ status = "absent" => call.slot[2] <= today
  <2>1. at \in Int /\ at < (today + 1) * DayLength
    BY <1>4, ClockAssumption
  <2>2. CASE attended # None \/ away
    BY <1>7, <2>2 DEF dailyStatus
  <2>3. CASE attended = None /\ ~away
    <3>1. status = standing(call.slot[2], in, at)
      BY <1>7, <2>3 DEF dailyStatus
    <3> QED
      BY <1>4, <1>6, <2>1, <3>1, StandingTells
  <2> QED
    BY <2>2, <2>3
<1>10. told' = [slot |-> call.slot, row |-> call.row, holiday |-> call.holiday, status |-> status]
  BY <1>2, <1>5, <1>7 DEF FinishDaily
<1>11. told' \in Told
  BY <1>3, <1>8, <1>10 DEF Told
<1>12. UNCHANGED <<schedules, defaults, roster, holidays, dropped, today>> /\ written' = {}
       /\ calls' = [calls EXCEPT ![c] = None]
  BY DEF FinishDaily, tables, Ends
<1>13. TypeOK'
  BY <1>1, <1>11, <1>12 DEF TypeOK
<1>14. SchedulesFound' /\ \A d \in Calls : CallKept(calls[d])'
  BY <1>1, <1>12 DEF IInv, SchedulesFound, CallKept, TypeOK
<1>15. DailyTells'
  BY <1>9, <1>10, <1>12 DEF DailyTells
<1> QED
  BY <1>13, <1>14, <1>15 DEF IInv

-----------------------------------------------------------------------------
LEMMA StepIInv ==
    ASSUME IInv, [Next]_vars
    PROVE  IInv'
<1>1. CASE UNCHANGED vars
  BY <1>1 DEF vars, IInv, TypeOK, SchedulesFound, CallKept, DailyTells
<1>2. CASE \E c \in Calls : AssignStep(c) \/ UnassignStep(c) \/ HolidayStep(c)
  BY <1>2, StartStep, ReadStep, UpsertStep, DeleteStep, HolidayWriteStep DEF AssignStep, UnassignStep, HolidayStep
<1>3. CASE \E c \in Calls : RetireStep(c)
  BY <1>3, StartStep, ReadStep, ScheduleWriteStep DEF RetireStep
<1>4. CASE \E c \in Calls : DailyStep(c)
  BY <1>4, StartStep, ReadStep, DailyAnswerStep DEF DailyStep
<1>5. CASE \E c \in Calls : CallFails(c)
  BY <1>5, ReadStep
<1> QED
  BY <1>1, <1>2, <1>3, <1>4, <1>5, ScheduleWriteStep, DefaultWriteStep, MidnightStep DEF Next

-----------------------------------------------------------------------------
(* The steps that write the roster, a holiday or an audit entry; the rest write none of them. *)
LEMMA Writers ==
    ASSUME Next
    PROVE  \/ \E c \in Calls : UpsertAssignments(c) \/ DeleteAssignment(c)
           \/ \E c \in Calls, h \in HolidayIds : FinishHoliday(c, h)
           \/ written' = {} /\ UNCHANGED <<roster, holidays>>
<1>1. CASE \E c \in Calls : AssignStep(c) \/ UnassignStep(c) \/ CallFails(c)
  BY <1>1 DEF AssignStep, UnassignStep, CallFails, StartAssign, StartUnassign, Starts, lockAssignments, Quiet, tables
<1>2. CASE \E c \in Calls : HolidayStep(c)
  BY <1>2 DEF HolidayStep, StartCreateHoliday, StartReplaceHoliday, StartDeleteHoliday, Starts, Quiet, tables
<1>3. CASE \E c \in Calls : RetireStep(c) \/ DailyStep(c)
  BY <1>3 DEF RetireStep, DailyStep, StartRetire, CountUsers, CountAssignments, DeleteSchedule, StartDaily,
              ListAssignments, ListHolidays, FinishDaily, Starts, Quiet, tables
<1>4. CASE ScheduleStep \/ DefaultStep \/ Midnight
  BY <1>4 DEF ScheduleStep, DefaultStep, CreateSchedule, ReplaceSchedule, SetDefault, Midnight, Quiet, tables
<1> QED
  BY <1>1, <1>2, <1>3, <1>4 DEF Next

(* A bulk write's entry names the row it locked, which is the row it replaces. *)
LEMMA EntryStep ==
    ASSUME IInv, Next, NEW entry \in written', entry.kind = "shift", entry.is # None, entry.was # None
    PROVE  roster[entry.slot] = entry.was /\ roster'[entry.slot] = entry.is
<1>1. CASE \E c \in Calls : UpsertAssignments(c)
  <2>1. PICK c \in Calls : UpsertAssignments(c)
    BY <1>1
  <2>2. TypeOK /\ CallKept(calls[c]) /\ calls[c] # None /\ calls[c].kind = "assign"
    BY <2>1 DEF IInv, UpsertAssignments, Is
  <2>3. PICK rows \in Bulks :
            calls[c] \in [kind : {"assign"}, rows : {rows}, today : Dates,
                          before : {None} \cup [DOMAIN rows -> ScheduleIds \cup {Off, None}]]
    BY <2>2, CallShapes
  <2>4. Audits(calls[c]) /\ entry \in auditAssigned(calls[c])
    BY <2>1 DEF UpsertAssignments
  <2>5. calls[c].rows = rows /\ DOMAIN rows \subseteq Slots /\ calls[c].before \in [DOMAIN rows -> ScheduleIds \cup {Off, None}]
    BY <2>1, <2>3, <2>4, BulksAssumption DEF UpsertAssignments
  <2>6. PICK slot \in DOMAIN rows :
            entry = [kind |-> "shift", slot |-> slot, was |-> calls[c].before[slot], is |-> rows[slot]]
    BY <2>4, <2>5 DEF auditAssigned
  <2>7. entry.slot = slot /\ entry.was = calls[c].before[slot] /\ entry.is = rows[slot]
    BY <2>6
  <2>8. calls[c].before # None
    BY <2>1, <2>4 DEF UpsertAssignments
  <2>9. roster[slot] = calls[c].before[slot]
    BY <2>2, <2>5, <2>7, <2>8 DEF CallKept
  <2>10. roster'[slot] = rows[slot]
    BY <2>1, <2>5 DEF UpsertAssignments
  <2> QED
    BY <2>7, <2>9, <2>10
<1>2. CASE \E c \in Calls : DeleteAssignment(c)
  BY <1>2 DEF DeleteAssignment
<1>3. CASE \E c \in Calls, h \in HolidayIds : FinishHoliday(c, h)
  BY <1>3 DEF FinishHoliday, auditHoliday
<1> QED
  BY <1>1, <1>2, <1>3, Writers

(* Rule A gives the same answer where it is given the same. *)
LEMMA RuledStays ==
    ASSUME IInv, NEW slot \in Slots, UNCHANGED <<defaults, holidays>>, roster'[slot] = roster[slot],
           \A s \in ScheduleIds : schedules[s] # None => schedules'[s].content = schedules[s].content
    PROVE  Ruled(slot)' = Ruled(slot)
<1>1. slot[1] \in People
  BY DEF Slots
<1>2. scheduleByID(roster[slot])' = scheduleByID(roster[slot])
  BY DEF IInv, SchedulesFound, scheduleByID
<1>3. scheduleByID(defaults[slot[1]])' = scheduleByID(defaults[slot[1]])
  BY <1>1, AbsentAssumption DEF IInv, TypeOK, SchedulesFound, scheduleByID
<1>4. inputs(defaults[slot[1]], roster[slot], \E h \in HolidayIds : holidays[h] = slot[2])'
      = inputs(defaults[slot[1]], roster[slot], \E h \in HolidayIds : holidays[h] = slot[2])
  BY <1>2, <1>3 DEF inputs
<1> QED
  BY <1>4 DEF Ruled

(* What changes a past day and is not an edit of a schedule or of a default: a roster write... *)
LEMMA RosterExplained ==
    ASSUME IInv, NEW c \in Calls, UpsertAssignments(c) \/ DeleteAssignment(c),
           NEW slot \in Slots, Ruled(slot)' # Ruled(slot)
    PROVE  (\E entry \in written' : Explains(entry, slot)) \/ ReadTooEarly(c, slot)
<1>1. UNCHANGED <<schedules, defaults, holidays>> /\ calls[c] # None /\ calls'[c] = None /\ TypeOK
  BY DEF UpsertAssignments, DeleteAssignment, Ends, Is, IInv, TypeOK
<1>2. roster'[slot] # roster[slot]
  BY <1>1, RuledStays
<1>3. CASE UpsertAssignments(c)
  <2>1. slot \in DOMAIN calls[c].rows
    BY <1>2, <1>3 DEF UpsertAssignments
  <2>2. CASE isPast(slot[2], calls[c].today)
    <3>1. [kind |-> "shift", slot |-> slot, was |-> calls[c].before[slot], is |-> calls[c].rows[slot]] \in written'
      BY <1>3, <2>1, <2>2 DEF UpsertAssignments, Audits, auditAssigned
    <3> QED
      BY <3>1 DEF Explains
  <2>3. CASE ~isPast(slot[2], calls[c].today)
    BY <1>1, <1>3, <2>3 DEF ReadTooEarly, UpsertAssignments, Is
  <2> QED
    BY <2>2, <2>3
<1>4. CASE DeleteAssignment(c)
  <2>1. slot = calls[c].slot
    BY <1>1, <1>2, <1>4 DEF DeleteAssignment, TypeOK
  <2>2. CASE isPast(slot[2], calls[c].today)
    <3>1. [kind |-> "shift", slot |-> slot, was |-> calls[c].row, is |-> None] \in written'
      BY <1>4, <2>1, <2>2 DEF DeleteAssignment
    <3> QED
      BY <3>1 DEF Explains
  <2>3. CASE ~isPast(slot[2], calls[c].today)
    BY <1>1, <1>4, <2>3 DEF ReadTooEarly, DeleteAssignment, Is
  <2> QED
    BY <2>2, <2>3
<1> QED
  BY <1>3, <1>4

(* ...or a holiday's, whose row may have moved since the call read it. *)
LEMMA HolidayExplained ==
    ASSUME IInv, NEW c \in Calls, NEW h \in HolidayIds, FinishHoliday(c, h),
           NEW slot \in Slots, Ruled(slot)' # Ruled(slot)
    PROVE  (\E entry \in written' : Explains(entry, slot)) \/ ReadTooEarly(c, slot)
<1>1. /\ UNCHANGED <<schedules, defaults, roster>> /\ calls[c] # None /\ calls'[c] = None /\ TypeOK
      /\ calls[c].kind = "holiday"
      /\ holidays' = [holidays EXCEPT ![h] = calls[c].is]
  BY DEF FinishHoliday, Ends, Is, IInv, TypeOK
<1>2. slot[2] \in Dates /\ slot[2] # None
  BY AbsentAssumption DEF Slots
<1>3. slot[2] \in {holidays[h], calls[c].is}
  <2>1. SUFFICES ASSUME slot[2] # holidays[h], slot[2] # calls[c].is PROVE FALSE
    OBVIOUS
  <2>2. (\E g \in HolidayIds : holidays'[g] = slot[2]) <=> (\E g \in HolidayIds : holidays[g] = slot[2])
    BY <1>1, <2>1 DEF TypeOK
  <2>3. slot[1] \in People
    BY DEF Slots
  <2>4. scheduleByID(roster[slot])' = scheduleByID(roster[slot])
        /\ scheduleByID(defaults[slot[1]])' = scheduleByID(defaults[slot[1]])
    BY <1>1 DEF scheduleByID
  <2>5. Ruled(slot)' = Ruled(slot)
    BY <1>1, <2>2, <2>4 DEF Ruled, inputs
  <2> QED
    BY <2>5
<1>4. CASE ~isPast(slot[2], calls[c].today)
  BY <1>1, <1>4 DEF ReadTooEarly
<1>5. CASE isPast(slot[2], calls[c].today) /\ slot[2] \in {calls[c].was, calls[c].is}
  <2>1. [kind |-> "holiday", was |-> calls[c].was, is |-> calls[c].is] \in written'
    BY <1>2, <1>5 DEF FinishHoliday, auditHoliday
  <2> QED
    BY <1>5, <2>1 DEF Explains
<1>6. CASE slot[2] \notin {calls[c].was, calls[c].is}
  <2>1. calls[c].id = h /\ holidays[h] # None
    BY <1>2, <1>3, <1>6 DEF FinishHoliday, Live
  <2>2. calls[c].id # None
    BY <2>1, AbsentAssumption
  <2> QED
    BY <1>1, <1>3, <1>6, <2>1, <2>2 DEF ReadTooEarly
<1> QED
  BY <1>4, <1>5, <1>6

LEMMA PastStep ==
    ASSUME IInv, Next, NEW slot \in Slots, Ruled(slot)' # Ruled(slot)
    PROVE  \/ \E entry \in written' : Explains(entry, slot)
           \/ \E s \in ScheduleIds, content \in Contents : ReplaceSchedule(s, content)
           \/ defaults' # defaults
           \/ \E c \in Calls : ReadTooEarly(c, slot)
<1>1. SUFFICES ASSUME defaults' = defaults,
                      ~\E s \in ScheduleIds, content \in Contents : ReplaceSchedule(s, content),
                      UNCHANGED <<roster, holidays>>
               PROVE  FALSE
  BY Writers, RosterExplained, HolidayExplained
<1>2. \A s \in ScheduleIds : schedules[s] # None => schedules'[s].content = schedules[s].content
  <2>1. CASE UNCHANGED schedules
    BY <2>1
  <2>2. CASE \E s \in ScheduleIds, content \in Contents : CreateSchedule(s, content)
    BY <2>2 DEF CreateSchedule, IInv, TypeOK
  <2>3. CASE \E c \in Calls : DeleteSchedule(c)
    BY <2>3 DEF DeleteSchedule, IInv, TypeOK, ScheduleRow
  <2>4. schedules' = schedules \/ ScheduleStep \/ \E c \in Calls : DeleteSchedule(c)
    <3>1. CASE \E c \in Calls : AssignStep(c) \/ UnassignStep(c) \/ HolidayStep(c) \/ CallFails(c)
      BY <3>1 DEF AssignStep, UnassignStep, HolidayStep, CallFails, StartAssign, StartUnassign, StartCreateHoliday,
                  StartReplaceHoliday, StartDeleteHoliday, Starts, lockAssignments, UpsertAssignments,
                  DeleteAssignment, FinishHoliday, tables
    <3>2. CASE \E c \in Calls : RetireStep(c) \/ DailyStep(c)
      BY <3>2 DEF RetireStep, DailyStep, StartRetire, CountUsers, CountAssignments, StartDaily,
                  ListAssignments, ListHolidays, FinishDaily, Starts, tables
    <3>3. CASE DefaultStep \/ Midnight
      BY <3>3 DEF DefaultStep, SetDefault, Midnight, tables
    <3> QED
      BY <3>1, <3>2, <3>3 DEF Next
  <2> QED
    BY <1>1, <2>1, <2>2, <2>3, <2>4 DEF ScheduleStep
<1> QED
  BY <1>1, <1>2, RuledStays

-----------------------------------------------------------------------------
(* IInv holds however the calls interleave and whenever midnight passes. *)
THEOREM Invariance == Spec => []IInv
<1>1. IInv /\ [Next]_vars => IInv'
  BY StepIInv
<1> QED
  BY InitIInv, <1>1, PTL DEF Spec

(* The state's shape; a holiday that was deleted stays away, for any number of calls that still name it. *)
THEOREM RosterTypes == Spec => []TypeOK
<1>1. IInv => TypeOK
  BY DEF IInv
<1> QED
  BY Invariance, <1>1, PTL

(* service.go:137: a day the roster gives a schedule to never reads as off, whatever was deleted meanwhile. *)
THEOREM DaysStayResolvable == Spec => []DailyTells
<1>1. IInv => DailyTells
  BY DEF IInv
<1> QED
  BY Invariance, <1>1, PTL

(* repository.go:257: an entry that names a former row names the one that was replaced. *)
THEOREM EntriesTellWhatWas == Spec => EntriesTell
<1>1. IInv /\ [Next]_vars =>
          [\A entry \in written' : entry.kind = "shift" /\ entry.is # None /\ entry.was # None =>
               roster[entry.slot] = entry.was /\ roster'[entry.slot] = entry.is]_vars
  BY EntryStep
<1> QED
  BY Invariance, <1>1, PTL DEF Spec, EntriesTell

(* constant.go:14: every change to what rule A says of a past day is explained. *)
THEOREM PastStaysExplained == Spec => PastExplained
<1>1. IInv /\ [Next]_vars =>
          [\A slot \in Slots : isPast(slot[2], today) /\ Ruled(slot)' # Ruled(slot) =>
               \/ \E entry \in written' : Explains(entry, slot)
               \/ \E s \in ScheduleIds, content \in Contents : ReplaceSchedule(s, content)
               \/ defaults' # defaults
               \/ \E c \in Calls : ReadTooEarly(c, slot)]_vars
  BY PastStep
<1> QED
  BY Invariance, <1>1, PTL DEF Spec, PastExplained
=============================================================================
