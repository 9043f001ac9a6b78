------------------------------ MODULE Directory ------------------------------
(***************************************************************************)
(* The user module: accounts, roles and the reporting hierarchy, with the  *)
(* audit log of what takes access away or hands it out.  Every call checks *)
(* with reads of its own and writes in a transaction of its own; what      *)
(* other calls do may land between any two of them.                        *)
(*                                                                         *)
(* Who acts is what an access token says, whatever became of its user      *)
(* since: tokens live 15 minutes (middleware/auth.go), longer than the     *)
(* behaviours considered here.  Names, departments and schedules of an     *)
(* account are left out.                                                   *)
(***************************************************************************)
EXTENDS Naturals, Sequences

CONSTANTS
    Users,      \* everyone who has or may come to have an account
    Staff,      \* the accounts there are at first: Staff[u] is a row, or None
    Newcomers,  \* <<user, manager>>: accounts hr_admin may add
    Edits,      \* <<user, manager, active>>: details hr_admin may write
    Leavers,    \* whose removal may be asked for
    Grants,     \* <<user, role>>: what super_admin may ask for, sound or not
    WriteCalls, RemoveCalls, GrantCalls,  \* concurrent requests of each kind
    MaxAudit,   \* bound: entries of the audit log
    None        \* no account, no manager

Roles == {"employee", "supervisor", "hr_admin", "super_admin"}

roleRank == [employee |-> 1, supervisor |-> 2, hr_admin |-> 3, super_admin |-> 4]
AtLeast(role, least) == roleRank[role] >= roleRank[least]

Account == [role : Roles, active : BOOLEAN, manager : Users \cup {None}, removed : BOOLEAN]

Claims == [id : Users, role : Roles]

Write == [step : {"exists", "loop", "write"}, new : BOOLEAN, by : Users, id : Users,
          manager : Users \cup {None}, active : BOOLEAN, wasActive : BOOLEAN, stale : BOOLEAN]
Removal == [by : Users, id : Users]
Grant == [by : Users, id : Users, from : Roles, to : Roles]

Entry == [by : Users, action : {"role_changed", "deactivated", "deleted"}, id : Users,
          from : Roles \cup {None}, to : Roles \cup {None}]

ASSUME StaffAssumption == Staff \in [Users -> Account \cup {None}]
ASSUME InputsAssumption ==
    /\ Newcomers \subseteq Users \X (Users \cup {None})
    /\ Edits \subseteq Users \X (Users \cup {None}) \X BOOLEAN
    /\ Leavers \subseteq Users
    /\ Grants \subseteq Users \X STRING
    /\ MaxAudit \in Nat
ASSUME NoneAssumption ==
    /\ None \notin Users /\ None \notin Account
    /\ None \notin Write /\ None \notin Removal /\ None \notin Grant

VARIABLES
    users,     \* the table, None until an account is added
    audit,     \* audit_logs, in order
    claims,    \* access tokens that are out
    writing,   \* Create and Replace calls under way
    removing,  \* Delete calls under way
    granting,  \* ChangeRole calls under way
    crossed    \* history: a manager was written after the hierarchy it was checked in changed

vars == <<users, audit, claims, writing, removing, granting, crossed>>

Init ==
    /\ users = Staff
    /\ audit = <<>>
    /\ claims = {}
    /\ writing = [c \in WriteCalls |-> None]
    /\ removing = [c \in RemoveCalls |-> None]
    /\ granting = [c \in GrantCalls |-> None]
    /\ crossed = FALSE

-----------------------------------------------------------------------------
(* What calls read. *)

(* Soft-deleted rows are out of every query. *)
Live(u) == users[u] # None /\ ~users[u].removed

Children(m) == {u \in Users : Live(u) /\ users[u].manager = m}

(* SubtreeQuery: the least set that has m's reports and the reports of its  *)
(* members.                                                                 *)
Below(m) ==
    {u \in Users : \A S \in SUBSET Users :
        Children(m) \subseteq S /\ (\A v \in S : Children(v) \subseteq S) => u \in S}

Audited(by, action, id, from, to) ==
    /\ Len(audit) < MaxAudit
    /\ audit' = Append(audit, [by |-> by, action |-> action, id |-> id, from |-> from, to |-> to])

(* Calls that checked a manager in a hierarchy that is about to change. *)
Outdated ==
    [c \in WriteCalls |->
        IF writing[c] = None THEN None ELSE [writing[c] EXCEPT !.stale = TRUE]]

-----------------------------------------------------------------------------
(* A login or a refresh hands out a token with the role of that moment; a  *)
(* token below hr_admin passes none of the guards below and is left out.    *)
SignIn(u) ==
    /\ Live(u) /\ users[u].active
    /\ AtLeast(users[u].role, "hr_admin")
    /\ claims' = claims \cup {[id |-> u, role |-> users[u].role]}
    /\ UNCHANGED <<users, audit, writing, removing, granting, crossed>>

(* Create and Replace: a manager must exist and must not report to the user. *)
StartCreate(c, claim, id, manager) ==
    /\ writing[c] = None
    /\ AtLeast(claim.role, "hr_admin")
    /\ users[id] = None
    /\ writing' = [writing EXCEPT ![c] =
          [step |-> IF manager = None THEN "write" ELSE "exists", new |-> TRUE,
           by |-> claim.id, id |-> id, manager |-> manager, active |-> TRUE,
           wasActive |-> FALSE, stale |-> FALSE]]
    /\ UNCHANGED <<users, audit, claims, removing, granting, crossed>>

StartReplace(c, claim, id, manager, active) ==
    /\ writing[c] = None
    /\ AtLeast(claim.role, "hr_admin")
    /\ ~(id = claim.id /\ ~active)
    /\ Live(id)
    /\ AtLeast(claim.role, users[id].role)
    /\ manager # id
    /\ writing' = [writing EXCEPT ![c] =
          [step |-> IF manager = None THEN "write" ELSE "exists", new |-> FALSE,
           by |-> claim.id, id |-> id, manager |-> manager, active |-> active,
           wasActive |-> users[id].active, stale |-> FALSE]]
    /\ UNCHANGED <<users, audit, claims, removing, granting, crossed>>

(* checkManagerFor, its first query: somebody new has nobody below them.   *)
CheckExists(c) ==
    LET w == writing[c]
    IN  /\ w # None /\ w.step = "exists"
        /\ Live(w.manager)
        /\ writing' = [writing EXCEPT ![c].step = IF w.new THEN "write" ELSE "loop",
                                      ![c].stale = FALSE]
        /\ UNCHANGED <<users, audit, claims, removing, granting, crossed>>

(* Mutant: only a direct report is refused as a manager. *)
CheckLoopOfChildren(c) ==
    LET w == writing[c]
    IN  /\ w # None /\ w.step = "loop"
        /\ w.manager \notin Children(w.id)
        /\ writing' = [writing EXCEPT ![c].step = "write"]
        /\ UNCHANGED <<users, audit, claims, removing, granting, crossed>>

(* ...and its second. *)
CheckLoop(c) ==
    LET w == writing[c]
    IN  /\ w # None /\ w.step = "loop"
        /\ w.manager \notin Below(w.id)
        /\ writing' = [writing EXCEPT ![c].step = "write"]
        /\ UNCHANGED <<users, audit, claims, removing, granting, crossed>>

FinishCreate(c) ==
    LET w == writing[c]
    IN  /\ w # None /\ w.step = "write" /\ w.new
        /\ users[w.id] = None
        /\ users' = [users EXCEPT ![w.id] =
              [role |-> "employee", active |-> TRUE, manager |-> w.manager, removed |-> FALSE]]
        /\ writing' = [writing EXCEPT ![c] = None]
        /\ crossed' = (crossed \/ (w.stale /\ w.manager # None))
        /\ UNCHANGED <<audit, claims, removing, granting>>

(* Mutant: the update does not leave out removed accounts. *)
FinishReplaceAnyway(c) ==
    LET w == writing[c]
    IN  /\ w # None /\ w.step = "write" /\ ~w.new
        /\ users' = [users EXCEPT ![w.id].active = w.active, ![w.id].manager = w.manager]
        /\ IF w.wasActive /\ ~w.active
           THEN Audited(w.by, "deactivated", w.id, None, None)
           ELSE UNCHANGED audit
        /\ writing' = [Outdated EXCEPT ![c] = None]
        /\ crossed' = (crossed \/ (w.stale /\ w.manager # None))
        /\ UNCHANGED <<claims, removing, granting>>

(* Whether it deactivates was read with the account, before the checks. *)
FinishReplace(c) ==
    LET w == writing[c]
    IN  /\ w # None /\ w.step = "write" /\ ~w.new
        /\ Live(w.id)
        /\ users' = [users EXCEPT ![w.id].active = w.active, ![w.id].manager = w.manager]
        /\ IF w.wasActive /\ ~w.active
           THEN Audited(w.by, "deactivated", w.id, None, None)
           ELSE UNCHANGED audit
        /\ writing' = [Outdated EXCEPT ![c] = None]
        /\ crossed' = (crossed \/ (w.stale /\ w.manager # None))
        /\ UNCHANGED <<claims, removing, granting>>

(* A manager who does not pass, a taken email, a conflict or a timeout. *)
WriteFails(c) ==
    /\ writing[c] # None
    /\ writing' = [writing EXCEPT ![c] = None]
    /\ UNCHANGED <<users, audit, claims, removing, granting, crossed>>

-----------------------------------------------------------------------------
(* Delete: not oneself, and nobody above one's own role. *)
StartRemove(c, claim, id) ==
    /\ removing[c] = None
    /\ AtLeast(claim.role, "hr_admin")
    /\ id # claim.id
    /\ Live(id)
    /\ AtLeast(claim.role, users[id].role)
    /\ removing' = [removing EXCEPT ![c] = [by |-> claim.id, id |-> id]]
    /\ UNCHANGED <<users, audit, claims, writing, granting, crossed>>

(* Mutant: whoever reported to the leaver reports to nobody. *)
FinishRemoveOrphaning(c) ==
    LET r == removing[c]
    IN  /\ r # None
        /\ Live(r.id)
        /\ users' = [u \in Users |->
              IF u = r.id THEN [users[u] EXCEPT !.removed = TRUE]
              ELSE IF u \in Children(r.id) THEN [users[u] EXCEPT !.manager = None]
              ELSE users[u]]
        /\ Audited(r.by, "deleted", r.id, None, None)
        /\ removing' = [removing EXCEPT ![c] = None]
        /\ writing' = Outdated
        /\ UNCHANGED <<claims, granting, crossed>>

(* SoftDelete locks the leaver, so nobody can come to report to them until  *)
(* it commits, and moves whoever does up to the leaver's manager.           *)
FinishRemove(c) ==
    LET r == removing[c]
    IN  /\ r # None
        /\ Live(r.id)
        /\ users' = [u \in Users |->
              IF u = r.id THEN [users[u] EXCEPT !.removed = TRUE]
              ELSE IF u \in Children(r.id) THEN [users[u] EXCEPT !.manager = users[r.id].manager]
              ELSE users[u]]
        /\ Audited(r.by, "deleted", r.id, None, None)
        /\ removing' = [removing EXCEPT ![c] = None]
        /\ writing' = Outdated
        /\ UNCHANGED <<claims, granting, crossed>>

(* Removed meanwhile, a deadlock the database breaks, or a timeout. *)
RemoveFails(c) ==
    /\ removing[c] # None
    /\ removing' = [removing EXCEPT ![c] = None]
    /\ UNCHANGED <<users, audit, claims, writing, granting, crossed>>

-----------------------------------------------------------------------------
(* Mutant: an unknown role is not refused. *)
StartGrantUnchecked(c, claim, id, role) ==
    /\ granting[c] = None
    /\ AtLeast(claim.role, "super_admin")
    /\ id # claim.id
    /\ Live(id) /\ users[id].role # role
    /\ granting' = [granting EXCEPT ![c] =
          [by |-> claim.id, id |-> id, from |-> users[id].role, to |-> role]]
    /\ UNCHANGED <<users, audit, claims, writing, removing, crossed>>

(* Mutant: the entry is written with the check, not with the role. *)
StartGrantRecording(c, claim, id, role) ==
    /\ granting[c] = None
    /\ AtLeast(claim.role, "super_admin")
    /\ role \in Roles
    /\ id # claim.id
    /\ Live(id) /\ users[id].role # role
    /\ granting' = [granting EXCEPT ![c] =
          [by |-> claim.id, id |-> id, from |-> users[id].role, to |-> role]]
    /\ Audited(claim.id, "role_changed", id, users[id].role, role)
    /\ UNCHANGED <<users, claims, writing, removing, crossed>>

(* ChangeRole: super_admin, never one's own. *)
StartGrant(c, claim, id, role) ==
    /\ granting[c] = None
    /\ AtLeast(claim.role, "super_admin")
    /\ role \in Roles
    /\ id # claim.id
    /\ Live(id) /\ users[id].role # role
    /\ granting' = [granting EXCEPT ![c] =
          [by |-> claim.id, id |-> id, from |-> users[id].role, to |-> role]]
    /\ UNCHANGED <<users, audit, claims, writing, removing, crossed>>

(* The role and its audit entry are written together. *)
FinishGrant(c) ==
    LET g == granting[c]
    IN  /\ g # None
        /\ Live(g.id)
        /\ users' = [users EXCEPT ![g.id].role = g.to]
        /\ Audited(g.by, "role_changed", g.id, g.from, g.to)
        /\ granting' = [granting EXCEPT ![c] = None]
        /\ UNCHANGED <<claims, writing, removing, crossed>>

GrantFails(c) ==
    /\ granting[c] # None
    /\ granting' = [granting EXCEPT ![c] = None]
    /\ UNCHANGED <<users, audit, claims, writing, removing, crossed>>

-----------------------------------------------------------------------------
WriteStep(c) ==
    \/ \E claim \in claims :
         \/ \E n \in Newcomers : StartCreate(c, claim, n[1], n[2])
         \/ \E e \in Edits : StartReplace(c, claim, e[1], e[2], e[3])
    \/ CheckExists(c)
    \/ CheckLoop(c)
    \/ FinishCreate(c)
    \/ FinishReplace(c)
    \/ WriteFails(c)

RemoveStep(c) ==
    \/ \E claim \in claims, id \in Leavers : StartRemove(c, claim, id)
    \/ FinishRemove(c)
    \/ RemoveFails(c)

GrantStep(c) ==
    \/ \E claim \in claims, g \in Grants : StartGrant(c, claim, g[1], g[2])
    \/ FinishGrant(c)
    \/ GrantFails(c)

Next ==
    \/ \E u \in Users : SignIn(u)
    \/ \E c \in WriteCalls : WriteStep(c)
    \/ \E c \in RemoveCalls : RemoveStep(c)
    \/ \E c \in GrantCalls : GrantStep(c)

Spec == Init /\ [][Next]_vars

-----------------------------------------------------------------------------
(* Properties. *)

TypeOK ==
    /\ users \in [Users -> Account \cup {None}]
    /\ audit \in Seq(Entry) /\ Len(audit) =< MaxAudit
    /\ claims \subseteq Claims
    /\ writing \in [WriteCalls -> Write \cup {None}]
    /\ removing \in [RemoveCalls -> Removal \cup {None}]
    /\ granting \in [GrantCalls -> Grant \cup {None}]
    /\ crossed \in BOOLEAN

(* Nobody is their own supervisor, near or far (service.go:308-310).        *)
NoLoop == \A u \in Users : u \notin Below(u)

(* Nobody reports to somebody who was removed.                              *)
ManagersLive == \A u \in Users : Live(u) /\ users[u].manager # None => Live(users[u].manager)

(* Edits, removals and role changes may overlap in any way: as long as no   *)
(* manager was written after the hierarchy it was checked in had changed,   *)
(* it stays a forest of live accounts.                                      *)
HierarchySound == ~crossed => NoLoop /\ ManagersLive

(* Removing somebody takes nobody else out of a supervisor's reach, nor     *)
(* into one (repository.go:180-182).                                        *)
RemovalKeepsReach ==
    [][\A c \in RemoveCalls :
          FinishRemove(c) /\ ~crossed =>
             \A u \in Users \ {removing[c].id} :
                Live(u) => Below(u)' = Below(u) \ {removing[c].id}]_vars

(* A role is what the last entry of the audit log about it says: no         *)
(* interleaving of role changes and removals loses or reorders one          *)
(* (repository.go:160-161).                                                 *)
RolesAudited ==
    \A u \in Users :
        LET entries == {i \in DOMAIN audit : audit[i].id = u /\ audit[i].action = "role_changed"}
        IN  users[u] # None =>
              IF entries = {}
              THEN users[u].role = IF Staff[u] = None THEN "employee" ELSE Staff[u].role
              ELSE \A i \in entries :
                     (\A j \in entries : j =< i) => users[u].role = audit[i].to

(* A removed account stays as it was when it was removed, for the reports   *)
(* that still read it: calls that read it before write nothing.             *)
RemovedStays ==
    [][\A u \in Users : users[u] # None /\ users[u].removed => users'[u] = users[u]]_vars
=============================================================================
