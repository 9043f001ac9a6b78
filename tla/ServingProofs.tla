--------------------------- MODULE ServingProofs ---------------------------
(***************************************************************************)
(* Proofs about Contracts, whose tables are fixed, and about Serving, for  *)
(* any requests, operations, scripts, probes, dependencies and pool.       *)
(***************************************************************************)
EXTENDS Serving, SequenceTheorems, TLAPS

(* The inductive invariant.  The dependencies are opened in order and closed in the reverse order... *)
OpenedInOrder ==
    /\ Len(opened) <= Len(Hooks)
    /\ \A i \in 1..Len(opened) : opened[i] = Hooks[i]
    /\ process \in {"building", "serving", "draining"} => Len(opened) = Len(Hooks)

(* ...nobody is served before they are open, nor after them unless the process is to exit with 1... *)
ServedWhileOpen ==
    /\ process \in {"opening", "building"} => ~Active
    /\ process \in {"closing", "exited"} /\ ~failed => ~Active
    /\ ~failed => \A r \in Requests : ~requests[r].cut

(* ...what is left of a request ends as its script does, and one that was to end in a transaction and has
   nothing left committed it; how it fails is known from the moment it does, and only what is refused leaves
   nothing committed; what it was answered is told by its transaction and listed by its contract. *)
EndsInTransaction(r) == Scripts[r] # <<>> /\ Scripts[r][Len(Scripts[r])] = "transaction"

ScriptFollowed(r, q) ==
    /\ q.phase \in {"waiting", "inside", "ending"} => q.todo # <<>>
    /\ q.phase = "ending" => Head(q.todo) = "transaction"
    /\ q.outcome = "ok" =>
           \/ q.todo # <<>> /\ q.todo[Len(q.todo)] = Scripts[r][Len(Scripts[r])]
           \/ q.todo = <<>> /\ (EndsInTransaction(r) => q.committed)

OutcomeKept(r, q) ==
    /\ q.phase = "idle" => ~q.committed
    /\ q.phase \notin {"failing", "answered"} => q.outcome = "ok"
    /\ q.phase = "failing" => q.outcome # "ok"
    /\ q.phase = "failing" /\ q.outcome = "refused" => q.refusal \in Refused[Operation[r]] /\ ~q.committed

AnswerTells(r, q) ==
    /\ q.answer = None <=> q.phase # "answered"
    /\ q.answer = Success(Operation[r]) => q.outcome = "ok" /\ ~(q.late /\ Success(Operation[r]) \in Bodyless)
    /\ q.answer # None /\ q.outcome = "ok" /\ EndsInTransaction(r) => q.committed
    /\ q.answer \in 400..499 => ~q.committed
    /\ q.answer = 504 => q.late /\ (q.outcome = "ok" => Success(Operation[r]) \in Bodyless)
    /\ q.answer = 500 /\ q.late => q.outcome = "panic"
    /\ q.answer # None => q.answer \in Declared[Operation[r]] \cup {500, 504} \cup invalidParam \cup badRequest

RequestKept(r, q) == q \in Request /\ ScriptFollowed(r, q) /\ OutcomeKept(r, q) /\ AnswerTells(r, q)

ProbeKept(p) == p \in Probe /\ (p.answer = None <=> p.phase # "answered")

IInv ==
    /\ process \in {"opening", "building", "serving", "draining", "closing", "exited"}
    /\ opened \in Seq({"log", "postgres", "redis"})
    /\ failed \in BOOLEAN /\ signalled \in BOOLEAN
    /\ OpenedInOrder /\ ServedWhileOpen
    /\ requests \in [Requests -> Request] /\ \A r \in Requests : RequestKept(r, requests[r])
    /\ probes \in [Probes -> Probe] /\ \A p \in Probes : ProbeKept(probes[p])

-----------------------------------------------------------------------------
(* The tables of Contracts.  A table is joined of parts: what it says of an operation one of them says. *)
LEMMA JoinedAt ==
    ASSUME NEW parts, NEW op \in DOMAIN Joined(parts)
    PROVE  \E part \in parts : op \in DOMAIN part /\ Joined(parts)[op] = part[op]
BY Zenon DEF Joined

LEMMA JoinedDomain ==
    ASSUME NEW parts, NEW part \in parts
    PROVE  DOMAIN part \subseteq DOMAIN Joined(parts)
BY Zenon DEF Joined

(* Every status the contracts, the handlers and the services know. *)
Refusals == {400, 401, 403, 404, 409, 429, 503}
Codes == {200, 201, 204, 302, 413} \cup Refusals

ContractParts ==
    {declaredAuth, declaredHealth, declaredMarks, declaredCorrections, declaredDecisions, declaredAttendance,
     declaredWhosIn, declaredQuotas, declaredLeaveTypes, declaredLeaveTypeEdits, declaredFilings,
     declaredBalances, declaredLeaves, declaredLeaveDecisions, declaredReports, declaredPdf,
     declaredHolidays, declaredHolidayEdits, declaredMySchedule, declaredOffices, declaredOfficeEdits,
     declaredShifts, declaredSchedules, declaredNewSchedules, declaredScheduleEdits, declaredUploads,
     declaredDepartments, declaredDepartmentEdits, declaredPeople, declaredHires, declaredPersonEdits,
     declaredRoles}

LEMMA DeclaredAt ==
    ASSUME NEW op \in Operations
    PROVE  \E part \in ContractParts : op \in DOMAIN part /\ Declared[op] = part[op]
<1>1. PICK public \in {Public, Protected} : op \in DOMAIN public /\ Declared[op] = public[op]
  BY JoinedAt, Zenon DEF Operations, Declared
<1>2. CASE public = Public
  <2>1. PICK part \in {declaredAuth, declaredHealth} : op \in DOMAIN part /\ Public[op] = part[op]
    BY <1>1, <1>2, JoinedAt, Zenon DEF Public
  <2> QED
    BY <1>1, <1>2, <2>1, Zenon DEF ContractParts
<1>3. CASE public = Protected
  <2>1. PICK part \in ContractParts : op \in DOMAIN part /\ Protected[op] = part[op]
    BY <1>1, <1>3, JoinedAt, SMT DEF Protected, ContractParts
  <2> QED
    BY <1>1, <1>3, <2>1, Zenon
<1> QED
  BY <1>1, <1>2, <1>3, Zenon

(* A contract has a success, and neither 500 nor 504. *)
LEMMA ContractsTell ==
    ASSUME NEW op \in Operations
    PROVE  Declared[op] \subseteq Codes /\ Success(op) \in Declared[op] /\ Success(op) < 400
<1>1. PICK part \in ContractParts : op \in DOMAIN part /\ Declared[op] = part[op]
  BY DeclaredAt
<1>2. part[op] \subseteq Codes /\ \E code \in part[op] : code < 400
  BY <1>1, SMTT(60)
     DEF ContractParts, Codes, Refusals, declaredAuth, declaredHealth, declaredMarks, declaredCorrections, declaredDecisions,
         declaredAttendance, declaredWhosIn, declaredQuotas, declaredLeaveTypes, declaredLeaveTypeEdits,
         declaredFilings, declaredBalances, declaredLeaves, declaredLeaveDecisions, declaredReports,
         declaredPdf, declaredHolidays, declaredHolidayEdits, declaredMySchedule, declaredOffices,
         declaredOfficeEdits, declaredShifts, declaredSchedules, declaredNewSchedules, declaredScheduleEdits,
         declaredUploads, declaredDepartments, declaredDepartmentEdits, declaredPeople, declaredHires,
         declaredPersonEdits, declaredRoles
<1> QED
  BY <1>1, <1>2, Zenon DEF Success

(* Whoever is turned away for want of a token called an operation whose contract has the 401. *)
LEMMA TurnedAwayDeclared ==
    ASSUME NEW op \in Operations, NEW code \in TurnedAway(op)
    PROVE  code \in Codes /\ code \in Declared[op] \cup invalidParam \cup badRequest
<1>1. CASE code \in invalidParam \cup badRequest
  BY <1>1 DEF Codes, Refusals, invalidParam, badRequest
<1>2. CASE code = 401 /\ op \in DOMAIN Protected
  <2>1. PICK part \in ContractParts \ {declaredAuth, declaredHealth} : op \in DOMAIN part
    BY <1>2, JoinedAt, SMT
       DEF Protected, ContractParts, declaredAuth, declaredHealth, declaredMarks, declaredCorrections, declaredDecisions,
           declaredAttendance, declaredWhosIn, declaredQuotas, declaredLeaveTypes, declaredLeaveTypeEdits,
           declaredFilings, declaredBalances, declaredLeaves, declaredLeaveDecisions, declaredReports,
           declaredPdf, declaredHolidays, declaredHolidayEdits, declaredMySchedule, declaredOffices,
           declaredOfficeEdits, declaredShifts, declaredSchedules, declaredNewSchedules,
           declaredScheduleEdits, declaredUploads, declaredDepartments, declaredDepartmentEdits,
           declaredPeople, declaredHires, declaredPersonEdits, declaredRoles
  <2>2. PICK other \in ContractParts : op \in DOMAIN other /\ Declared[op] = other[op]
    BY DeclaredAt
  <2>3. 401 \in other[op]
    BY <2>1, <2>2, SMTT(60)
       DEF ContractParts, declaredAuth, declaredHealth, declaredMarks, declaredCorrections, declaredDecisions,
           declaredAttendance, declaredWhosIn, declaredQuotas, declaredLeaveTypes, declaredLeaveTypeEdits,
           declaredFilings, declaredBalances, declaredLeaves, declaredLeaveDecisions, declaredReports,
           declaredPdf, declaredHolidays, declaredHolidayEdits, declaredMySchedule, declaredOffices,
           declaredOfficeEdits, declaredShifts, declaredSchedules, declaredNewSchedules,
           declaredScheduleEdits, declaredUploads, declaredDepartments, declaredDepartmentEdits,
           declaredPeople, declaredHires, declaredPersonEdits, declaredRoles
  <2> QED
    BY <1>2, <2>2, <2>3 DEF Codes, Refusals
<1> QED
  BY <1>1, <1>2, Zenon DEF TurnedAway

(* Every operation's handler is in its table, and so is its service. *)
LEMMA PassedOnTold ==
    ASSUME NEW op \in Operations
    PROVE  op \in DOMAIN PassedOn /\ PassedOn[op] \subseteq Refusals
<1>1. PICK part \in ContractParts : op \in DOMAIN part
  BY DeclaredAt
<1>2. \A told \in {handlesMarks, handlesAttendance, handlesCorrections, handlesLeaves, handlesLeaveTypes,
                  handlesReports, handlesSchedules, handlesHolidays, handlesShifts, handlesUploads,
                  handlesPeople, handlesRemovals, handlesAuth, handlesHealth} :
          DOMAIN told \subseteq DOMAIN PassedOn
  BY JoinedDomain, Zenon DEF PassedOn
<1>3. op \in DOMAIN PassedOn
  BY <1>1, <1>2, SMTT(60)
     DEF ContractParts, declaredAuth, declaredHealth, declaredMarks, declaredCorrections, declaredDecisions,
         declaredAttendance, declaredWhosIn, declaredQuotas, declaredLeaveTypes, declaredLeaveTypeEdits,
         declaredFilings, declaredBalances, declaredLeaves, declaredLeaveDecisions, declaredReports,
         declaredPdf, declaredHolidays, declaredHolidayEdits, declaredMySchedule, declaredOffices,
         declaredOfficeEdits, declaredShifts, declaredSchedules, declaredNewSchedules, declaredScheduleEdits,
         declaredUploads, declaredDepartments, declaredDepartmentEdits, declaredPeople, declaredHires,
         declaredPersonEdits, declaredRoles, handlesMarks, handlesAttendance, handlesCorrections,
         handlesLeaves, handlesLeaveTypes, handlesReports, handlesSchedules, handlesHolidays, handlesShifts,
         handlesUploads, handlesPeople, handlesRemovals, handlesAuth, handlesHealth
<1>4. PICK told \in {handlesMarks, handlesAttendance, handlesCorrections, handlesLeaves, handlesLeaveTypes,
                  handlesReports, handlesSchedules, handlesHolidays, handlesShifts, handlesUploads,
                  handlesPeople, handlesRemovals, handlesAuth, handlesHealth} :
          op \in DOMAIN told /\ PassedOn[op] = told[op]
  BY <1>3, JoinedAt, SMTT(60) DEF PassedOn
<1>5. told[op] \subseteq Refusals
  BY <1>4, SMTT(60)
     DEF Refusals, handlesMarks, handlesAttendance, handlesCorrections, handlesLeaves, handlesLeaveTypes,
         handlesReports, handlesSchedules, handlesHolidays, handlesShifts, handlesUploads, handlesPeople,
         handlesRemovals, handlesAuth, handlesHealth
<1> QED
  BY <1>3, <1>4, <1>5, Zenon

(* The services' refusals of every operation. *)
LEMMA RefusedTold ==
    ASSUME NEW op \in Operations
    PROVE  op \in DOMAIN Refused /\ Refused[op] \subseteq Refusals
<1>1. PICK part \in ContractParts : op \in DOMAIN part
  BY DeclaredAt
<1>2. \A told \in {refusedMarks, refusedCorrections, refusedWhosIn, refusedLeaves, refusedLeaveTypes,
                  refusedReports, refusedSchedules, refusedOffices, refusedUploads, refusedPeople,
                  refusedDepartments, refusedAuth, handlesHealth} :
          DOMAIN told \subseteq DOMAIN Refused
  BY JoinedDomain, Zenon DEF Refused
<1>3. op \in DOMAIN Refused
  BY <1>1, <1>2, SMTT(60)
     DEF ContractParts, declaredAuth, declaredHealth, declaredMarks, declaredCorrections, declaredDecisions,
         declaredAttendance, declaredWhosIn, declaredQuotas, declaredLeaveTypes, declaredLeaveTypeEdits,
         declaredFilings, declaredBalances, declaredLeaves, declaredLeaveDecisions, declaredReports,
         declaredPdf, declaredHolidays, declaredHolidayEdits, declaredMySchedule, declaredOffices,
         declaredOfficeEdits, declaredShifts, declaredSchedules, declaredNewSchedules, declaredScheduleEdits,
         declaredUploads, declaredDepartments, declaredDepartmentEdits, declaredPeople, declaredHires,
         declaredPersonEdits, declaredRoles, refusedMarks, refusedCorrections, refusedWhosIn, refusedLeaves,
         refusedLeaveTypes, refusedReports, refusedSchedules, refusedOffices, refusedUploads, refusedPeople,
         refusedDepartments, refusedAuth, handlesHealth, handlesReports
<1>4. PICK told \in {refusedMarks, refusedCorrections, refusedWhosIn, refusedLeaves, refusedLeaveTypes,
                  refusedReports, refusedSchedules, refusedOffices, refusedUploads, refusedPeople,
                  refusedDepartments, refusedAuth, handlesHealth} :
          op \in DOMAIN told /\ Refused[op] = told[op]
  BY <1>3, JoinedAt, SMTT(60) DEF Refused
<1>5. told[op] \subseteq Refusals
  BY <1>4, SMTT(60)
     DEF Refusals, refusedMarks, refusedCorrections, refusedWhosIn, refusedLeaves, refusedLeaveTypes, refusedReports,
         refusedSchedules, refusedOffices, refusedUploads, refusedPeople, refusedDepartments, refusedAuth,
         handlesHealth, handlesReports
<1> QED
  BY <1>3, <1>4, <1>5, Zenon

(* What a handler passes on, its operation's contract lists. *)
LEMMA PassedOnDeclared ==
    ASSUME NEW op \in Operations
    PROVE  PassedOn[op] \subseteq Declared[op]
<1>1. PICK part \in ContractParts : op \in DOMAIN part /\ Declared[op] = part[op]
  BY DeclaredAt
<1>2. PICK told \in {handlesMarks, handlesAttendance, handlesCorrections, handlesLeaves, handlesLeaveTypes,
                  handlesReports, handlesSchedules, handlesHolidays, handlesShifts, handlesUploads,
                  handlesPeople, handlesRemovals, handlesAuth, handlesHealth} :
          op \in DOMAIN told /\ PassedOn[op] = told[op]
  BY PassedOnTold, JoinedAt, Zenon DEF PassedOn
<1> USE <1>1, <1>2
       DEF ContractParts, declaredAuth, declaredHealth, declaredMarks, declaredCorrections, declaredDecisions,
           declaredAttendance, declaredWhosIn, declaredQuotas, declaredLeaveTypes, declaredLeaveTypeEdits,
           declaredFilings, declaredBalances, declaredLeaves, declaredLeaveDecisions, declaredReports,
           declaredPdf, declaredHolidays, declaredHolidayEdits, declaredMySchedule, declaredOffices,
           declaredOfficeEdits, declaredShifts, declaredSchedules, declaredNewSchedules,
           declaredScheduleEdits, declaredUploads, declaredDepartments, declaredDepartmentEdits,
           declaredPeople, declaredHires, declaredPersonEdits, declaredRoles
<1>3. CASE told = handlesMarks
  BY <1>3, SMTT(60) DEF handlesMarks
<1>4. CASE told = handlesAttendance
  BY <1>4, SMTT(60) DEF handlesAttendance
<1>5. CASE told = handlesCorrections
  BY <1>5, SMTT(60) DEF handlesCorrections
<1>6. CASE told = handlesLeaves
  BY <1>6, SMTT(60) DEF handlesLeaves
<1>7. CASE told = handlesLeaveTypes
  BY <1>7, SMTT(60) DEF handlesLeaveTypes
<1>8. CASE told = handlesReports
  BY <1>8, SMTT(60) DEF handlesReports
<1>9. CASE told = handlesSchedules
  BY <1>9, SMTT(60) DEF handlesSchedules
<1>10. CASE told = handlesHolidays
  BY <1>10, SMTT(60) DEF handlesHolidays
<1>11. CASE told = handlesShifts
  BY <1>11, SMTT(60) DEF handlesShifts
<1>12. CASE told = handlesUploads
  BY <1>12, SMTT(60) DEF handlesUploads
<1>13. CASE told = handlesPeople
  BY <1>13, SMTT(60) DEF handlesPeople
<1>14. CASE told = handlesRemovals
  BY <1>14, SMTT(60) DEF handlesRemovals
<1>15. CASE told = handlesAuth
  BY <1>15, SMTT(60) DEF handlesAuth
<1>16. CASE told = handlesHealth
  BY <1>16, SMTT(60) DEF handlesHealth
<1> QED
  BY <1>3, <1>4, <1>5, <1>6, <1>7, <1>8, <1>9, <1>10, <1>11, <1>12, <1>13, <1>14, <1>15, <1>16, SMTT(60)

-----------------------------------------------------------------------------
(* The process starts with nothing open and nobody served. *)
LEMMA InitIInv == Init => IInv
<1> SUFFICES ASSUME Init PROVE IInv
  OBVIOUS
<1>1. /\ process \in {"opening", "building", "serving", "draining", "closing", "exited"}
      /\ opened \in Seq({"log", "postgres", "redis"})
      /\ failed \in BOOLEAN /\ signalled \in BOOLEAN
      /\ OpenedInOrder
  <2>1. process = "opening" /\ opened = <<>> /\ failed = FALSE /\ signalled = FALSE
    BY DEF Init
  <2>2. opened \in Seq({"log", "postgres", "redis"}) /\ Len(opened) = 0 /\ Len(Hooks) = 3
    BY <2>1, EmptySeq DEF Hooks
  <2>3. OpenedInOrder
    BY <2>1, <2>2 DEF OpenedInOrder
  <2> QED
    BY <2>1, <2>2, <2>3
<1>2. ~Active /\ ServedWhileOpen
  BY DEF Init, Active, ServedWhileOpen
<1>3. \A r \in Requests : requests[r] \in Request /\ RequestKept(r, requests[r])
  <2> TAKE r \in Requests
  <2>1. Operation[r] \in Operations /\ Scripts[r] \in Seq({"statement", "transaction"})
    BY ScriptsAssumption
  <2>2. Success(Operation[r]) \in Nat
    BY <2>1, ContractsTell DEF Codes, Refusals
  <2>3. requests[r] = [phase |-> "idle", todo |-> Scripts[r], outcome |-> "ok", refusal |-> None, late |-> FALSE,
                       committed |-> FALSE, cut |-> FALSE, answer |-> None]
    BY DEF Init
  <2>4. requests[r] \in Request
    BY <2>1, <2>3 DEF Request, Phases
  <2>5. ScriptFollowed(r, requests[r]) /\ OutcomeKept(r, requests[r])
    BY <2>1, <2>3 DEF ScriptFollowed, OutcomeKept, EndsInTransaction
  <2>6. AnswerTells(r, requests[r])
    BY <2>2, <2>3, NoneAssumption DEF AnswerTells
  <2> QED
    BY <2>4, <2>5, <2>6 DEF RequestKept
<1>4. \A p \in Probes : probes[p] \in Probe /\ ProbeKept(probes[p])
  BY DEF Init, Probe, ProbeKept
<1>5. requests \in [Requests -> Request] /\ probes \in [Probes -> Probe]
  BY <1>3, <1>4 DEF Init
<1> QED
  BY <1>1, <1>2, <1>3, <1>4, <1>5 DEF IInv

-----------------------------------------------------------------------------
(* Start, signal, drain, close.  Steps of the process leave requests and probes alone. *)

(* While the process builds, serves or drains, its pool is open. *)
LEMMA ServingIsOpen ==
    ASSUME IInv, process \in {"building", "serving", "draining"}
    PROVE  Open("postgres")
<1>1. Len(opened) = 3 /\ opened[2] = "postgres" /\ DOMAIN opened = 1..3
  BY DEF IInv, OpenedInOrder, Hooks
<1> QED
  BY <1>1 DEF Open

LEMMA LifecycleStep ==
    ASSUME IInv, Start \/ Fails \/ Signal \/ Stop
    PROVE  IInv'
<1> USE DEF IInv
<1>1. UNCHANGED <<requests, probes>>
  BY DEF Start, OpenHook, OpenStorage, Build, Fails, Signal, Stop, Shutdown, Drained, DrainTimesOut, CloseLast, Exit
<1>2. Active' = Active
  BY <1>1 DEF Active
<1>3. CASE OpenHook
  <2>1. Len(Hooks) = 3 /\ \A i \in 1..3 : Hooks[i] \in {"log", "postgres", "redis"}
    BY DEF Hooks
  <2>2. opened \in Seq({"log", "postgres", "redis"}) /\ Len(opened) \in Nat /\ Len(opened) < 3
    BY <1>3, <2>1, LenProperties DEF OpenHook
  <2>3. /\ opened' \in Seq({"log", "postgres", "redis"})
        /\ Len(opened') = Len(opened) + 1
        /\ \A i \in 1..Len(opened) : opened'[i] = opened[i]
        /\ opened'[Len(opened) + 1] = Hooks[Len(opened) + 1]
    BY <1>3, <2>1, <2>2, AppendProperties DEF OpenHook
  <2>4. OpenedInOrder'
    BY <1>3, <2>1, <2>2, <2>3 DEF OpenHook, OpenedInOrder
  <2> QED
    BY <1>1, <1>2, <1>3, <2>3, <2>4 DEF OpenHook, ServedWhileOpen, RequestKept, ProbeKept
<1>4. CASE OpenStorage \/ Build
  BY <1>1, <1>2, <1>4 DEF OpenStorage, Build, OpenedInOrder, ServedWhileOpen, Hooks
<1>5. CASE Fails \/ Signal
  BY <1>1, <1>2, <1>5 DEF Fails, Signal, OpenedInOrder, ServedWhileOpen
<1>6. CASE Shutdown \/ Drained \/ DrainTimesOut \/ Exit
  BY <1>1, <1>2, <1>6 DEF Shutdown, Drained, DrainTimesOut, Exit, OpenedInOrder, ServedWhileOpen
<1>7. CASE \E ok \in BOOLEAN : CloseLast(ok)
  <2>1. PICK ok \in BOOLEAN : CloseLast(ok)
    BY <1>7
  <2>2. /\ opened' \in Seq({"log", "postgres", "redis"}) /\ Len(opened') = Len(opened) - 1
        /\ \A i \in 1..Len(opened') : opened'[i] = opened[i]
    <3>1. opened \in Seq({"log", "postgres", "redis"}) /\ Len(opened) \in Nat /\ Len(opened) # 0
      BY <2>1, LenProperties, EmptySeq DEF CloseLast
    <3>2. \A i \in 1..(Len(opened) - 1) : opened[i] \in {"log", "postgres", "redis"}
      BY <3>1, ElementOfSeq
    <3>3. opened' = SubSeq(opened, 1, Len(opened) - 1) /\ Len(opened) - 1 \in Nat
      BY <2>1, <3>1 DEF CloseLast
    <3>4. opened' \in Seq({"log", "postgres", "redis"}) /\ \A i \in 1..(Len(opened) - 1 - 1 + 1) : opened'[i] = opened[1 + i - 1]
      BY <3>2, <3>3, SubSeqProperties
    <3>5. \A i \in 1..(Len(opened) - 1) : opened'[i] = opened[i]
      BY <3>1, <3>4
    <3>6. Len(opened') = IF 1 <= Len(opened) - 1 THEN Len(opened) - 1 - 1 + 1 ELSE 0
      BY <3>2, <3>3, SubSeqProperties
    <3>7. PICK n \in Nat : n = Len(opened)
      BY <3>1
    <3>8. Len(opened') = Len(opened) - 1
      BY <3>1, <3>6, <3>7
    <3> QED
      BY <3>4, <3>5, <3>8
  <2>3. OpenedInOrder'
    BY <2>1, <2>2 DEF CloseLast, OpenedInOrder, Hooks
  <2>4. ServedWhileOpen' /\ failed' \in BOOLEAN
    BY <1>1, <1>2, <2>1 DEF CloseLast, ServedWhileOpen
  <2> QED
    BY <1>1, <2>1, <2>2, <2>3, <2>4 DEF CloseLast
<1> QED
  BY <1>3, <1>4, <1>5, <1>6, <1>7 DEF Start, Stop

-----------------------------------------------------------------------------
(* A request's steps.  Each takes one that is not done, while the process lives, to one that is kept. *)
LEMMA BecomesStep ==
    ASSUME IInv, NEW r \in Requests, NEW q, RequestKept(r, q), Becomes(r, q),
           \/ process = "serving"
           \/ requests[r].phase \notin {"idle", "answered"},
           q.cut => requests[r].cut \/ failed
    PROVE  IInv'
<1>1. requests' = [requests EXCEPT ![r] = q] /\ UNCHANGED <<process, opened, failed, signalled, probes>>
  BY DEF Becomes, lifecycle
<1>2. q \in Request
  BY DEF RequestKept
<1>3. requests' \in [Requests -> Request] /\ \A s \in Requests : RequestKept(s, requests'[s])
  BY <1>1, <1>2 DEF IInv
<1>4. OpenedInOrder'
  BY <1>1 DEF IInv, OpenedInOrder
<1>5. process = "serving" \/ (process \in {"draining", "closing", "exited"} /\ Active)
  BY DEF Active, IInv, ServedWhileOpen
<1>6. ServedWhileOpen'
  BY <1>1, <1>5 DEF IInv, ServedWhileOpen, Active
<1> QED
  BY <1>1, <1>3, <1>4, <1>6 DEF IInv

(* Whose type every step's lemma needs. *)
LEMMA RequestFacts ==
    ASSUME IInv, NEW r \in Requests
    PROVE  /\ requests[r] \in Request /\ RequestKept(r, requests[r])
           /\ Operation[r] \in Operations
           /\ Success(Operation[r]) \in Nat /\ Success(Operation[r]) < 400
           /\ None # 500 /\ None # 504 /\ None \notin 400..499 /\ None # Success(Operation[r])
<1>1. Operation[r] \in Operations
  BY ScriptsAssumption
<1>2. Success(Operation[r]) \in Nat /\ Success(Operation[r]) < 400
  BY <1>1, ContractsTell DEF Codes, Refusals
<1>3. None # 500 /\ None # 504 /\ None \notin 400..499 /\ None # Success(Operation[r])
  BY <1>2, NoneAssumption
<1>4. requests[r] \in Request /\ RequestKept(r, requests[r])
  BY DEF IInv
<1> QED
  BY <1>1, <1>2, <1>3, <1>4

(* What is left after the first item ends as the whole does. *)
LEMMA TailEnds ==
    ASSUME NEW S, NEW todo \in Seq(S), todo # <<>>
    PROVE  /\ Tail(todo) \in Seq(S)
           /\ \/ Tail(todo) = <<>> /\ Head(todo) = todo[Len(todo)]
              \/ Tail(todo) # <<>> /\ Tail(todo)[Len(Tail(todo))] = todo[Len(todo)]
<1>1. Len(todo) \in Nat \ {0}
  BY EmptySeq
<1>2. Tail(todo) \in Seq(S) /\ Len(Tail(todo)) = Len(todo) - 1
  BY HeadTailProperties
<1>3. CASE Tail(todo) = <<>>
  <2>1. Len(Tail(todo)) = 0
    BY <1>3, EmptySeq
  <2>2. PICK n \in Nat \ {0} : n = Len(todo) /\ n - 1 = Len(Tail(todo))
    BY <1>1, <1>2
  <2>3. Len(todo) = 1
    BY <2>1, <2>2
  <2> QED
    BY <1>2, <1>3, <2>3
<1>4. CASE Tail(todo) # <<>>
  <2>1. Len(Tail(todo)) \in Nat \ {0}
    BY <1>2, <1>4, EmptySeq
  <2>2. \A i \in 1..Len(Tail(todo)) : Tail(todo)[i] = todo[i + 1]
    BY HeadTailProperties
  <2> QED
    BY <1>1, <1>2, <1>4, <2>1, <2>2
<1> QED
  BY <1>3, <1>4

(* It arrives, is turned away, asks, is let in, or runs out of time. *)
LEMMA ArriveStep ==
    ASSUME IInv, NEW r \in Requests, Arrive(r)
    PROVE  IInv'
<1>1. PICK q : q = [requests[r] EXCEPT !.phase = "handling"]
  OBVIOUS
<1>2. requests[r] \in Request /\ RequestKept(r, requests[r]) /\ requests[r].phase = "idle"
  BY RequestFacts DEF Arrive
<1>3. q \in Request /\ ScriptFollowed(r, q) /\ OutcomeKept(r, q)
  BY <1>1, <1>2 DEF RequestKept, Request, Phases, ScriptFollowed, OutcomeKept
<1>4. q.answer = None /\ q.phase # "answered"
  BY <1>1, <1>2 DEF RequestKept, Request, AnswerTells
<1>5. RequestKept(r, q)
  BY <1>3, <1>4, RequestFacts DEF RequestKept, AnswerTells
<1> QED
  BY <1>1, <1>2, <1>5, BecomesStep DEF Arrive, Request

LEMMA TurnAwayStep ==
    ASSUME IInv, NEW r \in Requests, NEW code \in TurnedAway(Operation[r]), TurnAway(r, code)
    PROVE  IInv'
<1>1. PICK q : q = [requests[r] EXCEPT !.phase = "answered", !.outcome = "refused", !.answer = code]
  OBVIOUS
<1>2. /\ code \in Nat /\ code >= 400 /\ code # 500 /\ code # 504
      /\ code \in Declared[Operation[r]] \cup invalidParam \cup badRequest
  BY RequestFacts, TurnedAwayDeclared DEF TurnedAway, invalidParam, badRequest
<1>3. requests[r] \in Request /\ RequestKept(r, requests[r]) /\ requests[r].phase = "idle"
  BY RequestFacts DEF TurnAway
<1>4. q \in Request /\ ScriptFollowed(r, q) /\ OutcomeKept(r, q)
  BY <1>1, <1>2, <1>3 DEF RequestKept, Request, Phases, ScriptFollowed, OutcomeKept
<1>5. /\ q.committed = FALSE /\ q.answer = code /\ q.phase = "answered" /\ q.outcome = "refused"
      /\ q.cut = requests[r].cut
  BY <1>1, <1>3 DEF RequestKept, Request, OutcomeKept
<1>6. AnswerTells(r, q)
  BY <1>2, <1>5, RequestFacts, NoneAssumption DEF AnswerTells
<1> QED
  BY <1>1, <1>4, <1>5, <1>6, BecomesStep DEF TurnAway, RequestKept

(* Nothing is told while it is not answered. *)
LEMMA Untold ==
    ASSUME IInv, NEW r \in Requests, NEW q, q.phase # "answered", q.answer = None
    PROVE  AnswerTells(r, q)
BY RequestFacts DEF AnswerTells

LEMMA GoOnStep ==
    ASSUME IInv, NEW r \in Requests, Ask(r) \/ Acquire(r) \/ ReadInside(r) \/ Expire(r)
    PROVE  IInv'
<1>1. requests[r] \in Request /\ RequestKept(r, requests[r])
  BY RequestFacts
<1>2. requests[r].phase \notin {"idle", "answered"}
  BY DEF Ask, Acquire, ReadInside, Expire, At
<1>3. PICK q : q = IF Ask(r) THEN [requests[r] EXCEPT !.phase = "waiting"]
                   ELSE IF Acquire(r) THEN [requests[r] EXCEPT !.phase = "inside"]
                   ELSE IF ReadInside(r) THEN [requests[r] EXCEPT !.phase = "ending"]
                   ELSE [requests[r] EXCEPT !.late = TRUE]
  OBVIOUS
<1>4. Becomes(r, q)
  BY <1>3 DEF Ask, Acquire, ReadInside, Expire
<1>5. /\ q \in Request /\ q.answer = None
      /\ q.phase \in {"waiting", "inside", "ending"} \/ q.phase = requests[r].phase
  <2>1. requests[r].answer = None
    BY <1>1, <1>2 DEF RequestKept, AnswerTells
  <2> QED
    BY <1>1, <1>3, <2>1 DEF Request, Phases
<1>6. /\ q.todo = requests[r].todo /\ q.outcome = requests[r].outcome /\ q.refusal = requests[r].refusal
      /\ q.committed = requests[r].committed /\ q.cut = requests[r].cut
  BY <1>1, <1>3 DEF Request
<1>7. ScriptFollowed(r, q)
  BY <1>1, <1>3, <1>6 DEF RequestKept, Request, ScriptFollowed, Ask, Acquire, ReadInside, Expire, At
<1>8. OutcomeKept(r, q)
  BY <1>1, <1>2, <1>3, <1>5, <1>6 DEF RequestKept, Request, OutcomeKept, Ask, Acquire, ReadInside, Expire, At
<1> QED
  BY <1>2, <1>4, <1>5, <1>6, <1>7, <1>8, Untold, BecomesStep DEF RequestKept

(* One item of the script is done; a transaction is the only one that leaves it committed. *)
LEMMA DoneStep ==
    ASSUME IInv, NEW r \in Requests, Statement(r) \/ Commit(r)
    PROVE  IInv'
<1>1. requests[r] \in Request /\ RequestKept(r, requests[r])
  BY RequestFacts
<1>2. requests[r].phase \in {"inside", "ending"}
  BY DEF Statement, Commit, At
<1>3. PICK todo : todo = requests[r].todo
  OBVIOUS
<1>4. todo \in Seq({"statement", "transaction"}) /\ todo # <<>>
  BY <1>1, <1>2, <1>3 DEF RequestKept, Request, ScriptFollowed
<1>5. /\ Tail(todo) \in Seq({"statement", "transaction"})
      /\ \/ Tail(todo) = <<>> /\ Head(todo) = todo[Len(todo)]
         \/ Tail(todo) # <<>> /\ Tail(todo)[Len(Tail(todo))] = todo[Len(todo)]
  BY <1>4, TailEnds
<1>6. PICK rest : rest = Tail(todo)
  OBVIOUS
<1>7. requests[r].outcome = "ok" /\ todo[Len(todo)] = Scripts[r][Len(Scripts[r])] /\ requests[r].answer = None
  BY <1>1, <1>2, <1>3, <1>4 DEF RequestKept, ScriptFollowed, OutcomeKept, AnswerTells
<1>8. CASE Statement(r)
  <2>1. PICK q : q = [requests[r] EXCEPT !.phase = "handling", !.todo = rest]
    OBVIOUS
  <2>2. Becomes(r, q) /\ Head(todo) = "statement"
    BY <1>3, <1>6, <1>8, <2>1 DEF Statement
  <2>3. /\ q \in Request /\ q.phase = "handling" /\ q.todo = rest /\ q.outcome = "ok" /\ q.answer = None
        /\ q.cut = requests[r].cut /\ q.committed = requests[r].committed
    BY <1>1, <1>5, <1>6, <1>7, <2>1 DEF Request, Phases
  <2>4. ScriptFollowed(r, q)
    BY <1>5, <1>6, <1>7, <2>2, <2>3 DEF ScriptFollowed, EndsInTransaction
  <2>5. OutcomeKept(r, q)
    BY <2>3 DEF OutcomeKept
  <2> QED
    BY <1>2, <2>2, <2>3, <2>4, <2>5, Untold, BecomesStep DEF RequestKept
<1>9. CASE Commit(r)
  <2>1. PICK q : q = [requests[r] EXCEPT !.phase = "handling", !.todo = rest, !.committed = TRUE]
    OBVIOUS
  <2>2. Becomes(r, q)
    BY <1>3, <1>6, <1>9, <2>1 DEF Commit
  <2>3. /\ q \in Request /\ q.phase = "handling" /\ q.todo = rest /\ q.outcome = "ok" /\ q.answer = None
        /\ q.cut = requests[r].cut /\ q.committed = TRUE
    BY <1>1, <1>5, <1>6, <1>7, <2>1 DEF Request, Phases
  <2>4. ScriptFollowed(r, q)
    BY <1>5, <1>6, <1>7, <2>3 DEF ScriptFollowed
  <2>5. OutcomeKept(r, q)
    BY <2>3 DEF OutcomeKept
  <2> QED
    BY <1>2, <2>2, <2>3, <2>4, <2>5, Untold, BecomesStep DEF RequestKept
<1> QED
  BY <1>8, <1>9

(* However it fails it is answered next, and none but a refusal may say that nothing happened. *)
LEMMA FailingStep ==
    ASSUME IInv, NEW r \in Requests, requests[r].phase \notin {"idle", "answered"},
           NEW q \in Request, q.phase = "failing", q.todo = <<>>, q.outcome # "ok",
           q.answer = requests[r].answer,
           q.outcome = "refused" => q.refusal \in Refused[Operation[r]] /\ ~q.committed,
           Becomes(r, q), q.cut => requests[r].cut \/ failed
    PROVE  IInv'
<1>1. RequestKept(r, requests[r])
  BY RequestFacts
<1>2. q.answer = None
  BY <1>1 DEF RequestKept, AnswerTells
<1>3. ScriptFollowed(r, q) /\ OutcomeKept(r, q)
  BY DEF ScriptFollowed, OutcomeKept
<1> QED
  BY <1>2, <1>3, Untold, BecomesStep DEF RequestKept

(* The pool is closed under a request only by a process that gave it up, and that exits with 1. *)
LEMMA MeetClosedStep ==
    ASSUME IInv, NEW r \in Requests, MeetClosed(r)
    PROVE  IInv'
<1>1. requests[r] \in Request /\ requests[r].phase = "waiting" /\ ~Open("postgres")
  BY RequestFacts DEF MeetClosed, At
<1>2. Active
  BY <1>1 DEF Active
<1>3. failed
  BY <1>1, <1>2, ServingIsOpen DEF IInv, ServedWhileOpen, MeetClosed, At
<1>4. PICK q : q = [Failing(r, "error") EXCEPT !.cut = TRUE]
  OBVIOUS
<1>5. /\ q \in Request /\ q.phase = "failing" /\ q.todo = <<>> /\ q.outcome = "error"
      /\ q.answer = requests[r].answer
  BY <1>1, <1>4, EmptySeq DEF Failing, Request, Phases
<1> QED
  BY <1>1, <1>3, <1>4, <1>5, FailingStep DEF MeetClosed

LEMMA FailsStep ==
    ASSUME IInv, NEW r \in Requests, CommitLost(r) \/ QueryFails(r) \/ Panic(r)
    PROVE  IInv'
<1>1. requests[r] \in Request /\ requests[r].phase \notin {"idle", "answered"}
  BY RequestFacts DEF CommitLost, QueryFails, Panic, At
<1>2. PICK q : q = IF CommitLost(r) THEN [Failing(r, "error") EXCEPT !.committed = TRUE]
                   ELSE IF QueryFails(r) THEN Failing(r, "error") ELSE Failing(r, "panic")
  OBVIOUS
<1>3. Becomes(r, q)
  BY <1>2 DEF CommitLost, QueryFails, Panic
<1>4. /\ q \in Request /\ q.phase = "failing" /\ q.todo = <<>> /\ q.outcome \in {"error", "panic"}
      /\ q.answer = requests[r].answer /\ q.cut = requests[r].cut
  BY <1>1, <1>2, EmptySeq DEF Failing, Request, Phases
<1> QED
  BY <1>1, <1>3, <1>4, FailingStep

LEMMA RefuseStep ==
    ASSUME IInv, NEW r \in Requests, NEW code \in Refused[Operation[r]], Refuse(r, code)
    PROVE  IInv'
<1>1. requests[r] \in Request /\ requests[r].phase \notin {"idle", "answered"} /\ ~requests[r].committed
  BY RequestFacts DEF Refuse, At
<1>2. code \in Nat
  BY RequestFacts, RefusedTold DEF Refusals
<1>3. PICK q : q = [Failing(r, "refused") EXCEPT !.refusal = code]
  OBVIOUS
<1>4. /\ q \in Request /\ q.phase = "failing" /\ q.todo = <<>> /\ q.outcome = "refused" /\ q.refusal = code
      /\ q.answer = requests[r].answer /\ q.cut = requests[r].cut /\ ~q.committed
  BY <1>1, <1>2, <1>3, EmptySeq DEF Failing, Request, Phases
<1> QED
  BY <1>1, <1>3, <1>4, FailingStep DEF Refuse

(* What it is answered: a success for what was followed to its end, but past the deadline for one without a
   body; a refusal the handler passes on; or the 500 or 504 of internalError, Timeout and Recovery. *)
LEMMA AnswerStep ==
    ASSUME IInv, NEW r \in Requests, Answer(r)
    PROVE  IInv'
<1>1. requests[r] \in Request /\ RequestKept(r, requests[r]) /\ requests[r].phase \in {"failing", "handling"}
  BY RequestFacts DEF Answer, At
<1>2. PICK code : code = status(r)
  OBVIOUS
<1>3. PICK q : q = [requests[r] EXCEPT !.phase = "answered", !.answer = code]
  OBVIOUS
<1>4. Becomes(r, q)
  BY <1>2, <1>3 DEF Answer
<1>5. CASE requests[r].outcome = "ok"
  <2>1. requests[r].phase = "handling" /\ requests[r].todo = <<>>
    BY <1>1, <1>5 DEF RequestKept, OutcomeKept, Answer, At
  <2>2. PICK success \in Nat : success = Success(Operation[r]) /\ success < 400 /\ success \in Declared[Operation[r]]
    BY RequestFacts, ContractsTell
  <2>3. code = IF requests[r].late /\ success \in Bodyless THEN 504 ELSE success
    BY <1>2, <1>5, <2>2 DEF status, handled, Written
  <2>4. EndsInTransaction(r) => requests[r].committed
    BY <1>1, <1>5, <2>1 DEF RequestKept, ScriptFollowed
  <2>5. /\ q \in Request /\ q.phase = "answered" /\ q.answer = code /\ q.committed = requests[r].committed
        /\ q.outcome = "ok" /\ q.todo = <<>> /\ q.late = requests[r].late /\ q.cut = requests[r].cut
    <3>1. requests[r] \in Request /\ code \in Nat
      BY <1>1, <2>2, <2>3
    <3>2. q \in Request
      BY <1>3, <3>1 DEF Request, Phases
    <3> QED
      BY <1>3, <1>5, <2>1, <3>1, <3>2 DEF Request
  <2>6. ScriptFollowed(r, q) /\ OutcomeKept(r, q)
    BY <2>4, <2>5 DEF ScriptFollowed, OutcomeKept
  <2>7. code # None /\ code # 500 /\ code \notin 400..499
    BY <2>2, <2>3, NoneAssumption
  <2>8. AnswerTells(r, q)
    BY <2>2, <2>3, <2>4, <2>5, <2>7 DEF AnswerTells
  <2> QED
    BY <1>1, <1>4, <2>5, <2>6, <2>8, BecomesStep DEF RequestKept
<1>6. CASE requests[r].outcome # "ok"
  <2>1. requests[r].phase = "failing"
    BY <1>1, <1>6 DEF RequestKept, OutcomeKept
  <2>2. \/ /\ requests[r].outcome = "refused" /\ ~requests[r].committed
           /\ code \in PassedOn[Operation[r]] /\ code \in Refused[Operation[r]]
        \/ code = 504 /\ requests[r].late
        \/ code = 500 /\ (requests[r].late => requests[r].outcome = "panic")
    BY <1>1, <1>2, <1>6, <2>1 DEF RequestKept, OutcomeKept, Request, status, handled, Written, Refusal
  <2>3. Operation[r] \in Operations /\ Success(Operation[r]) \in Nat /\ Success(Operation[r]) < 400
    BY RequestFacts
  <2>4. /\ code \in Nat /\ code >= 400 /\ code \in Declared[Operation[r]] \cup {500, 504}
        /\ code \in {500, 504} \/ (requests[r].outcome = "refused" /\ ~requests[r].committed)
        /\ code = 504 => requests[r].late
        /\ code = 500 => (requests[r].late => requests[r].outcome = "panic")
        /\ code # Success(Operation[r])
    BY <2>2, <2>3, RefusedTold, PassedOnDeclared DEF Refusals
  <2>5. /\ q \in Request /\ q.phase = "answered" /\ q.answer = code /\ q.committed = requests[r].committed
        /\ q.outcome = requests[r].outcome /\ q.late = requests[r].late /\ q.cut = requests[r].cut
    BY <1>1, <1>3, <2>4 DEF Request, Phases
  <2>6. ScriptFollowed(r, q) /\ OutcomeKept(r, q)
    BY <1>6, <2>5 DEF ScriptFollowed, OutcomeKept
  <2>7. AnswerTells(r, q)
    BY <1>6, <2>4, <2>5, NoneAssumption DEF AnswerTells
  <2> QED
    BY <1>1, <1>4, <2>5, <2>6, <2>7, BecomesStep DEF RequestKept
<1> QED
  BY <1>5, <1>6

-----------------------------------------------------------------------------
(* A probe's steps: what a check finds changes nothing else. *)
LEMMA ProbeBecomesStep ==
    ASSUME IInv, NEW p \in Probes, NEW q \in Probe, ProbeKept(q), ProbeBecomes(p, q),
           process = "serving" \/ probes[p].phase = "checking"
    PROVE  IInv'
<1>1. probes' = [probes EXCEPT ![p] = q] /\ UNCHANGED <<process, opened, failed, signalled, requests>>
  BY DEF ProbeBecomes, lifecycle
<1>2. probes' \in [Probes -> Probe] /\ \A o \in Probes : ProbeKept(probes'[o])
  BY <1>1 DEF IInv
<1>3. OpenedInOrder'
  BY <1>1 DEF IInv, OpenedInOrder
<1>4. process = "serving" \/ (process \in {"draining", "closing", "exited"} /\ Active)
  BY DEF Active, IInv, ServedWhileOpen
<1>5. ServedWhileOpen'
  BY <1>1, <1>4 DEF IInv, ServedWhileOpen, Active
<1> QED
  BY <1>1, <1>2, <1>3, <1>5 DEF IInv

LEMMA ProbeStepIInv ==
    ASSUME IInv, ProbeStep
    PROVE  IInv'
<1>1. PICK p \in Probes :
          \/ ArriveProbe(p) \/ AnswerProbe(p) \/ StartCheck(p)
          \/ \E d \in Dependencies : CheckAnswers(p, d) \/ CheckEnds(p, d)
  BY DEF ProbeStep
<1>2. probes[p] \in Probe /\ ProbeKept(probes[p])
  BY DEF IInv
<1>3. CASE ArriveProbe(p)
  <2>1. PICK checks : checks = [d \in Dependencies |-> IF d = "postgres" THEN "waiting" ELSE "running"]
    OBVIOUS
  <2>2. checks \in [Dependencies -> {"waiting", "running", "up", "down"}]
    BY <2>1
  <2>3. PICK q : q = [probes[p] EXCEPT !.phase = "checking", !.checks = checks]
    OBVIOUS
  <2>4. q \in Probe /\ ProbeKept(q)
    BY <1>2, <1>3, <2>2, <2>3 DEF ArriveProbe, Probe, ProbeKept
  <2> QED
    BY <1>3, <2>1, <2>3, <2>4, ProbeBecomesStep DEF ArriveProbe
<1>4. CASE AnswerProbe(p)
  <2>1. PICK code \in {200, 503} :
            code = IF \A d \in Dependencies : probes[p].checks[d] = "up" THEN 200 ELSE 503
    OBVIOUS
  <2>2. PICK q : q = [probes[p] EXCEPT !.phase = "answered", !.answer = code]
    OBVIOUS
  <2>3. q \in Probe /\ q.phase = "answered" /\ q.answer = code
    BY <1>2, <2>2 DEF Probe
  <2>4. code # None
    BY NoneAssumption
  <2>5. ProbeKept(q)
    BY <2>3, <2>4 DEF ProbeKept
  <2> QED
    BY <1>4, <2>1, <2>2, <2>3, <2>5, ProbeBecomesStep DEF AnswerProbe, Checking
<1>5. CASE StartCheck(p) \/ \E d \in Dependencies : CheckAnswers(p, d) \/ CheckEnds(p, d)
  <2>1. PICK d \in Dependencies, result \in {"running", "up", "down"} :
            /\ Checking(p)
            /\ ProbeBecomes(p, [probes[p] EXCEPT !.checks[d] = result])
    BY <1>5, PoolAssumption DEF StartCheck, CheckAnswers, CheckEnds
  <2>2. PICK q : q = [probes[p] EXCEPT !.checks[d] = result]
    OBVIOUS
  <2>3. PICK checks \in [Dependencies -> {"waiting", "running", "up", "down"}] :
            checks = [probes[p].checks EXCEPT ![d] = result]
    BY <1>2 DEF Probe
  <2>4. q = [probes[p] EXCEPT !.checks = checks]
    BY <2>2, <2>3
  <2>5. q \in Probe /\ q.answer = probes[p].answer /\ q.phase = probes[p].phase
    BY <1>2, <2>4 DEF Probe
  <2>6. ProbeKept(q)
    BY <1>2, <2>5 DEF ProbeKept
  <2> QED
    BY <2>1, <2>2, <2>5, <2>6, ProbeBecomesStep DEF Checking
<1> QED
  BY <1>1, <1>3, <1>4, <1>5

-----------------------------------------------------------------------------
LEMMA StepIInv ==
    ASSUME IInv, [Next]_vars
    PROVE  IInv'
<1>1. CASE RequestStep
  BY <1>1, ArriveStep, TurnAwayStep, GoOnStep, DoneStep, MeetClosedStep, FailsStep, RefuseStep, AnswerStep
     DEF RequestStep, GoStep, DatabaseStep
<1>2. CASE UNCHANGED vars
  BY <1>2 DEF vars, IInv, OpenedInOrder, ServedWhileOpen, Active
<1> QED
  BY <1>1, <1>2, LifecycleStep, ProbeStepIInv DEF Next

(* IInv holds in every behaviour of the process, whatever the scheduler does. *)
THEOREM Invariance == Spec => []IInv
<1>1. IInv /\ [Next]_vars => IInv'
  BY StepIInv
<1> QED
  BY InitIInv, <1>1, PTL DEF Spec

(* router.go, Recovery and Timeout: whoever is done was answered, and nobody before; for any load. *)
THEOREM ServingTypes == Spec => []TypeOK
<1>1. IInv => TypeOK
  BY DEF IInv, TypeOK, RequestKept, AnswerTells, ProbeKept
<1> QED
  BY Invariance, <1>1, PTL

(* router.go, internalError and middleware.go, Timeout: what a client is told is what became of its transaction,
   whatever its operation, what its handler asks, wherever it fails and however late it is; what ended well is told
   504 past the deadline where its success has no body, and nowhere else. *)
THEOREM AnswersTellTheTruth == Spec => []AnswersTell
<1>1. ASSUME IInv PROVE AnswersTell
  <2>1. ASSUME NEW r \in Requests, requests[r].answer # None, requests[r].outcome = "ok"
        PROVE  EndedWell(r)
    BY <1>1, <2>1 DEF IInv, RequestKept, AnswerTells, EndsInTransaction, EndedWell
  <2>2. ASSUME NEW r \in Requests
        PROVE  None # 504 /\ None # Success(Operation[r]) /\ AnswerTells(r, requests[r])
    BY <1>1, RequestFacts DEF RequestKept
  <2> QED
    BY <2>1, <2>2 DEF AnswersTell, AnswerTells
<1> QED
  BY Invariance, <1>1, PTL

(* The handlers' switches: no operation answers a status its contract does not list, but 500, 504 and what
   badRequest and invalidParam answer before it is called. *)
THEOREM AnswersAreDeclared == Spec => []AnswersDeclared
<1>1. IInv => AnswersDeclared
  BY DEF IInv, AnswersDeclared, RequestKept, AnswerTells
<1> QED
  BY Invariance, <1>1, PTL

(* main.go, run and Close: a process that exits with 0 answered everyone it took. *)
THEOREM ExitsClean == Spec => []CleanExit
<1>1. ASSUME IInv PROVE CleanExit
  <2>1. opened # <<>> => opened[1] = "log"
    <3>1. opened # <<>> => Len(opened) \in Nat \ {0}
      BY <1>1, EmptySeq DEF IInv
    <3> QED
      BY <1>1, <3>1 DEF IInv, OpenedInOrder, Hooks
  <2> QED
    BY <1>1, <2>1 DEF IInv, ServedWhileOpen, CleanExit
<1> QED
  BY Invariance, <1>1, PTL
=============================================================================
