----------------------------- MODULE Contracts -----------------------------
(***************************************************************************)
(* What each operation of the API may be answered with, told three times   *)
(* in the code: by the contract generated from its OpenAPI document (one   *)
(* response type for each status), by its handler (the refusals it turns   *)
(* into one of those types) and by its service (the refusals there are).   *)
(* The middleware and the generated wrappers answer before any of them.    *)
(* A refusal is the status package apperr stands for: 400 Validation, 403  *)
(* ErrForbidden, 404 ErrNotFound, 409 ErrConflict.                         *)
(***************************************************************************)
EXTENDS Naturals

(* One table of several; no operation is in two of them. *)
Joined(parts) ==
    [op \in UNION {DOMAIN part : part \in parts} |-> (CHOOSE part \in parts : op \in DOMAIN part)[op]]

(* The contracts. *)

declaredMarks == [CheckIn |-> {201, 400, 401, 403, 404, 409}, CheckOut |-> {200, 400, 401, 403}]

declaredCorrections ==
    [RequestCorrection |-> {201, 400, 401, 403, 409},
     ListMyCorrections |-> {200, 401}, ListPendingCorrections |-> {200, 401, 403}]

declaredDecisions ==
    [CancelCorrection |-> {204, 401, 403, 404, 409}, DecideCorrection |-> {200, 400, 401, 403, 404, 409}]

declaredAttendance == [ListMyAttendance |-> {200, 400, 401}, SaveDailyReport |-> {200, 400, 401, 404}]

declaredWhosIn == [GetWhosIn |-> {200, 400, 401, 403}, GetAttendancePhoto |-> {302, 400, 401, 403, 404}]

declaredQuotas == [SetLeaveQuota |-> {200, 400, 401, 403}, ListLeaveTypes |-> {200, 401}]

declaredLeaveTypes == [CreateLeaveType |-> {201, 400, 401, 403, 409}, DeleteLeaveType |-> {204, 401, 403, 404}]

declaredLeaveTypeEdits == [UpdateLeaveType |-> {200, 400, 401, 403, 404, 409}]

declaredFilings == [RequestLeave |-> {201, 400, 401, 403, 404, 409}, ListMyLeaves |-> {200, 401}]

declaredBalances == [GetMyLeaveBalance |-> {200, 400, 401}, ListPendingLeaves |-> {200, 401, 403}]

declaredLeaves == [CancelLeave |-> {204, 401, 403, 404, 409}, GetLeaveAttachment |-> {302, 401, 403, 404}]

declaredLeaveDecisions == [DecideLeave |-> {200, 400, 401, 403, 404, 409}]

declaredReports ==
    [GetAttendanceReport |-> {200, 400, 401, 403}, GetAttendanceReportCsv |-> {200, 400, 401, 403}]

declaredPdf == [GetAttendanceReportPdf |-> {200, 400, 401, 403}]

declaredHolidays == [ListHolidays |-> {200, 400, 401, 403}, CreateHoliday |-> {201, 400, 401, 403, 409}]

declaredHolidayEdits == [DeleteHoliday |-> {204, 401, 403, 404}, UpdateHoliday |-> {200, 400, 401, 403, 404, 409}]

declaredMySchedule == [GetMySchedule |-> {200, 400, 401, 404}]

declaredOffices == [ListOfficeLocations |-> {200, 401, 403}, CreateOfficeLocation |-> {201, 400, 401, 403}]

declaredOfficeEdits ==
    [DeleteOfficeLocation |-> {204, 401, 403, 404}, UpdateOfficeLocation |-> {200, 400, 401, 403, 404}]

declaredShifts == [ListShiftAssignments |-> {200, 400, 401, 403}, AssignShifts |-> {200, 400, 401, 403}]

declaredSchedules ==
    [DeleteShiftAssignment |-> {204, 401, 403, 404}, ListWorkSchedules |-> {200, 401, 403}]

declaredNewSchedules == [CreateWorkSchedule |-> {201, 400, 401, 403}]

declaredScheduleEdits ==
    [DeleteWorkSchedule |-> {204, 401, 403, 404, 409}, UpdateWorkSchedule |-> {200, 400, 401, 403, 404}]

declaredUploads == [CreateUploadIntent |-> {201, 400, 401}]

declaredDepartments == [ListDepartments |-> {200, 401, 403}, CreateDepartment |-> {201, 400, 401, 403, 409}]

declaredDepartmentEdits ==
    [DeleteDepartment |-> {204, 401, 403, 404}, UpdateDepartment |-> {200, 400, 401, 403, 404, 409}]

declaredPeople == [GetMe |-> {200, 401, 404}, ListUsers |-> {200, 400, 401, 403}]

declaredHires == [CreateUser |-> {201, 400, 401, 403, 409}, DeleteUser |-> {204, 400, 401, 403, 404}]

declaredPersonEdits == [GetUser |-> {200, 401, 403, 404}, UpdateUser |-> {200, 400, 401, 403, 404}]

declaredRoles == [UpdateUserRole |-> {200, 400, 401, 403, 404}]

declaredAuth == [Login |-> {200, 401, 429}, Logout |-> {204}, Refresh |-> {200, 401}]

declaredHealth == [GetHealth |-> {200}, GetReady |-> {200, 503}]

Public == Joined({declaredAuth, declaredHealth})

(* Every other route is registered behind middleware.Auth. *)
Protected ==
    Joined({declaredMarks, declaredCorrections, declaredDecisions, declaredAttendance, declaredWhosIn,
            declaredQuotas, declaredLeaveTypes, declaredLeaveTypeEdits, declaredFilings, declaredBalances,
            declaredLeaves, declaredLeaveDecisions, declaredReports, declaredPdf,
            declaredHolidays, declaredHolidayEdits, declaredMySchedule, declaredOffices, declaredOfficeEdits,
            declaredShifts, declaredSchedules, declaredNewSchedules, declaredScheduleEdits, declaredUploads,
            declaredDepartments, declaredDepartmentEdits, declaredPeople, declaredHires, declaredPersonEdits,
            declaredRoles})

Declared == Joined({Public, Protected})

Operations == DOMAIN Declared

-----------------------------------------------------------------------------
(* The refusals each handler answers; it hands any other error to internalError. *)

handlesMarks == [CheckIn |-> {400, 403, 404, 409}, CheckOut |-> {400, 403}]

handlesAttendance ==
    [ListMyAttendance |-> {400}, SaveDailyReport |-> {400, 404},
     GetAttendancePhoto |-> {400, 403, 404}, GetWhosIn |-> {403}]

handlesCorrections ==
    [RequestCorrection |-> {400, 403, 409}, ListMyCorrections |-> {}, ListPendingCorrections |-> {403},
     CancelCorrection |-> {403, 404, 409}, DecideCorrection |-> {400, 403, 404, 409}]

handlesLeaves ==
    [RequestLeave |-> {400, 403, 404, 409}, ListMyLeaves |-> {}, GetMyLeaveBalance |-> {400},
     ListPendingLeaves |-> {403}, CancelLeave |-> {403, 404, 409}, DecideLeave |-> {400, 403, 404, 409}]

handlesLeaveTypes ==
    [GetLeaveAttachment |-> {403, 404}, ListLeaveTypes |-> {}, CreateLeaveType |-> {400, 403, 409},
     UpdateLeaveType |-> {400, 403, 404, 409}, DeleteLeaveType |-> {403, 404}, SetLeaveQuota |-> {400, 403}]

handlesReports ==
    [GetAttendanceReport |-> {400, 403}, GetAttendanceReportCsv |-> {400, 403}, GetAttendanceReportPdf |-> {400, 403}]

handlesSchedules ==
    [GetMySchedule |-> {400, 404}, ListWorkSchedules |-> {403}, CreateWorkSchedule |-> {400, 403},
     UpdateWorkSchedule |-> {400, 403, 404}, DeleteWorkSchedule |-> {403, 404, 409}, ListHolidays |-> {400, 403}]

handlesHolidays ==
    [CreateHoliday |-> {400, 403, 409}, UpdateHoliday |-> {400, 403, 404, 409}, DeleteHoliday |-> {403, 404},
     ListOfficeLocations |-> {403}, CreateOfficeLocation |-> {400, 403}, UpdateOfficeLocation |-> {400, 403, 404}]

handlesShifts ==
    [DeleteOfficeLocation |-> {403, 404}, ListShiftAssignments |-> {400, 403},
     AssignShifts |-> {400, 403}, DeleteShiftAssignment |-> {403, 404}]

handlesUploads == [CreateUploadIntent |-> {400}]

handlesPeople ==
    [GetMe |-> {404}, ListUsers |-> {400, 403}, CreateUser |-> {400, 403, 409}, GetUser |-> {403, 404},
     UpdateUser |-> {400, 403, 404}]

handlesRemovals ==
    [DeleteUser |-> {400, 403, 404}, UpdateUserRole |-> {400, 403, 404}, ListDepartments |-> {403},
     CreateDepartment |-> {400, 403, 409}, UpdateDepartment |-> {400, 403, 404, 409}, DeleteDepartment |-> {403, 404}]

handlesAuth == [Login |-> {401, 429}, Refresh |-> {401}, Logout |-> {}]

handlesHealth == [GetHealth |-> {}, GetReady |-> {503}]

PassedOn ==
    Joined({handlesMarks, handlesAttendance, handlesCorrections, handlesLeaves, handlesLeaveTypes, handlesReports,
            handlesSchedules, handlesHolidays, handlesShifts, handlesUploads, handlesPeople, handlesRemovals,
            handlesAuth, handlesHealth})

-----------------------------------------------------------------------------
(* What each service may refuse with, its own checks and what translate makes of a violated constraint. *)

refusedMarks ==
    [CheckIn |-> {400, 403, 404, 409}, CheckOut |-> {400, 403}, ListMyAttendance |-> {400},
     SaveDailyReport |-> {400, 404}, GetAttendancePhoto |-> {400, 403, 404}]

refusedCorrections ==
    [RequestCorrection |-> {400, 403, 409}, ListMyCorrections |-> {}, ListPendingCorrections |-> {403},
     CancelCorrection |-> {403, 404, 409}, DecideCorrection |-> {400, 403, 404, 409}]

refusedWhosIn == [GetWhosIn |-> {403}]

refusedLeaves ==
    [RequestLeave |-> {400, 403, 404, 409}, ListMyLeaves |-> {}, GetMyLeaveBalance |-> {400},
     ListPendingLeaves |-> {403}, CancelLeave |-> {403, 404, 409}, DecideLeave |-> {400, 403, 404, 409},
     GetLeaveAttachment |-> {403, 404}]

refusedLeaveTypes ==
    [ListLeaveTypes |-> {}, CreateLeaveType |-> {400, 403, 409}, UpdateLeaveType |-> {400, 403, 404, 409},
     DeleteLeaveType |-> {403, 404}, SetLeaveQuota |-> {400, 403}]

refusedReports == [op \in DOMAIN handlesReports |-> {400, 403}]

(* The names of live schedules and offices are unique too, and a second one is an ErrConflict. *)
refusedSchedules ==
    [GetMySchedule |-> {400, 404}, ListWorkSchedules |-> {403}, CreateWorkSchedule |-> {400, 403, 409},
     UpdateWorkSchedule |-> {400, 403, 404, 409}, DeleteWorkSchedule |-> {403, 404, 409},
     ListHolidays |-> {400, 403}, CreateHoliday |-> {400, 403, 409}, UpdateHoliday |-> {400, 403, 404, 409},
     DeleteHoliday |-> {403, 404}]

refusedOffices ==
    [ListOfficeLocations |-> {403}, CreateOfficeLocation |-> {400, 403, 409},
     UpdateOfficeLocation |-> {400, 403, 404, 409}, DeleteOfficeLocation |-> {403, 404},
     ListShiftAssignments |-> {400, 403}, AssignShifts |-> {400, 403}, DeleteShiftAssignment |-> {403, 404}]

refusedUploads == [CreateUploadIntent |-> {400}]

refusedPeople ==
    [GetMe |-> {404}, ListUsers |-> {400, 403}, CreateUser |-> {400, 403, 409}, GetUser |-> {403, 404},
     UpdateUser |-> {400, 403, 404}, DeleteUser |-> {400, 403, 404}, UpdateUserRole |-> {400, 403, 404}]

refusedDepartments ==
    [ListDepartments |-> {403}, CreateDepartment |-> {400, 403, 409},
     UpdateDepartment |-> {400, 403, 404, 409}, DeleteDepartment |-> {403, 404}]

refusedAuth == [Login |-> {401, 429}, Refresh |-> {401}, Logout |-> {}]

Refused ==
    Joined({refusedMarks, refusedCorrections, refusedWhosIn, refusedLeaves, refusedLeaveTypes, refusedReports,
            refusedSchedules, refusedOffices, refusedUploads, refusedPeople, refusedDepartments, refusedAuth,
            handlesHealth})

-----------------------------------------------------------------------------
(* What a request is turned away with before its handler is called. *)

invalidParam == {400}
badRequest == {400, 413}

(* The wrappers that parse a path or a query parameter... *)
paramsAttendance == {"CancelCorrection", "DecideCorrection", "ListMyAttendance", "GetWhosIn", "GetAttendancePhoto"}
paramsLeave ==
    {"DeleteLeaveType", "UpdateLeaveType", "GetMyLeaveBalance", "CancelLeave", "GetLeaveAttachment", "DecideLeave"}
paramsReport == DOMAIN handlesReports
paramsSchedule ==
    {"ListHolidays", "DeleteHoliday", "UpdateHoliday", "GetMySchedule", "DeleteOfficeLocation", "UpdateOfficeLocation",
     "ListShiftAssignments", "DeleteShiftAssignment", "DeleteWorkSchedule", "UpdateWorkSchedule"}
paramsUser ==
    {"DeleteDepartment", "UpdateDepartment", "ListUsers", "DeleteUser", "GetUser", "UpdateUser", "UpdateUserRole"}

(* ...and the strict handlers that decode a body. *)
bodiesAttendance == {"CheckIn", "CheckOut", "RequestCorrection", "DecideCorrection", "SaveDailyReport"}
bodiesLeave == {"SetLeaveQuota", "CreateLeaveType", "UpdateLeaveType", "RequestLeave", "DecideLeave"}
bodiesSchedule ==
    {"CreateHoliday", "UpdateHoliday", "CreateOfficeLocation", "UpdateOfficeLocation", "AssignShifts",
     "CreateWorkSchedule", "UpdateWorkSchedule"}
bodiesUser == {"CreateDepartment", "UpdateDepartment", "CreateUser", "UpdateUser", "UpdateUserRole"}
bodiesAuth == {"Login", "Logout", "Refresh"}
bodiesUpload == {"CreateUploadIntent"}

TurnedAway(op) ==
    (IF op \in DOMAIN Protected THEN {401} ELSE {})
    \cup (IF op \in paramsAttendance \cup paramsLeave \cup paramsReport \cup paramsSchedule \cup paramsUser
          THEN invalidParam ELSE {})
    \cup (IF op \in bodiesAttendance \cup bodiesLeave \cup bodiesSchedule \cup bodiesUser \cup bodiesAuth \cup bodiesUpload
          THEN badRequest ELSE {})

-----------------------------------------------------------------------------

(* The successes that send no body; every other response of a contract sends one. *)
Bodyless == {204, 302}

Success(op) == CHOOSE code \in Declared[op] : code < 400

(* What a client is told short of 500 and 504, and the refusals that reach it as a 500. *)
Told(op) == {Success(op)} \cup TurnedAway(op) \cup (Refused[op] \cap PassedOn[op])
Swallowed(op) == Refused[op] \ PassedOn[op]
=============================================================================
