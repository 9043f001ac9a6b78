---------------------------- MODULE LeaveRequests ----------------------------
(***************************************************************************)
(* The leave module: leave_types, leave_balances and leave_requests, and   *)
(* the calls of leave.Service that change them.  Every call is a goroutine *)
(* of its own.  A call that reads, checks and then writes in a later       *)
(* statement takes one action for each, and what it read travels with it   *)
(* in filing, settling or quoting; what one transaction does under a row   *)
(* lock it took first is one action.  A lock is held from the action that  *)
(* takes it to the one that ends the call.                                 *)
(*                                                                         *)
(* A call that is refused changes nothing, so it takes no action.          *)
(***************************************************************************)
EXTENDS Integers, Sequences, FiniteSets

CONSTANTS
    Users, Supervisors, Admins,  \* everyone; role at least supervisor; at least hr_admin
    Above,          \* Above[u]: who has u in their subtree (user.SubtreeQuery)
    Types, Seeded,  \* identities of leave types; those the migration creates
    Variants,       \* Variants[t]: the rules hr_admin may give type t
    Keys,           \* uploaded attachments
    Filings,        \* what employees may ask for
    QuotaSettings,  \* what hr_admin may set
    FilingCalls, SettleCalls, QuotaCalls,  \* concurrent requests of each kind
    LastDay, DaysPerYear, MaxLeaves,       \* bounds: calendar and rows
    None            \* NULL

Days  == 0..LastDay
Year(d) == d \div DaysPerYear
Years == {Year(d) : d \in Days}
Slots == Users \X Types \X Years   \* primary key of leave_balances

Rules == [quota : Nat \cup {None}, most : Nat \cup {None},
          attachFrom : Nat \cup {None}, auto : BOOLEAN]
Filing == [user : Users, type : Types, start : Days, end : Days, key : Keys \cup {None}]
QuotaSetting == [user : Users, type : Types, year : Years, quota : Nat,
                 carried : Nat \cup {None}]
QuotaRow == [quota : Nat, carried : Nat]

ASSUME CalendarAssumption ==
    LastDay \in Nat /\ DaysPerYear \in Nat \ {0} /\ MaxLeaves \in Nat
ASSUME RolesAssumption ==
    /\ Admins \subseteq Supervisors /\ Supervisors \subseteq Users
    /\ Above \in [Users -> SUBSET Users]
ASSUME InputsAssumption ==
    /\ Variants \in [Types -> SUBSET Rules]
    /\ Filings \subseteq Filing
    /\ \A f \in Filings : f.start =< f.end
    /\ QuotaSettings \subseteq QuotaSetting
VARIABLES
    today,     \* the date in the company's zone
    types,     \* leave_types
    quotas,    \* leave_balances, by slot
    leaves,    \* leave_requests, in order of filing
    filing,    \* Request calls under way
    settling,  \* Cancel and Decide calls that have read their row
    quoting,   \* SetQuota calls under way
    lowered    \* history: slots whose allowance was ever reduced by hr_admin

vars == <<today, types, quotas, leaves, filing, settling, quoting, lowered>>

-----------------------------------------------------------------------------
(* Types of the state. *)

Statuses == {"pending", "approved", "rejected", "cancelled"}

Leave == [user : Users, type : Types, start : Days, end : Days,
          working : 1..(LastDay + 1), key : Keys \cup {None},
          status : Statuses, reviewer : Users \cup {None}, withdrawer : Users \cup {None}]

FilingCall == [step : {"checked", "held"}, asked : Filing, working : 1..(LastDay + 1),
               limited : BOOLEAN, auto : BOOLEAN, allowance : Int]

SettleCall == [id : 1..MaxLeaves, from : {"pending", "approved"},
               to : {"approved", "rejected", "cancelled"}, by : Users, started : BOOLEAN]

QuotaCall == [step : {"checked", "read"}, asked : QuotaSetting,
              before : QuotaRow \cup {None}]

(* NULL is no number, no row and nobody. *)
ASSUME NoneAssumption ==
    /\ None \notin Nat /\ None \notin Users /\ None \notin Keys
    /\ None \notin FilingCall /\ None \notin SettleCall
    /\ None \notin QuotaCall /\ None \notin QuotaRow
    /\ None \notin [owner : Users, status : Statuses, reviewer : Users \cup {None}]

TypeOK ==
    /\ today \in Days
    /\ types \in [Types -> [state : {"absent", "live", "retired"}, rules : Rules]]
    /\ \A t \in Types : types[t].rules \in Variants[t]
    /\ quotas \in [Slots -> QuotaRow \cup {None}]
    /\ leaves \in Seq(Leave) /\ Len(leaves) =< MaxLeaves
    /\ filing \in [FilingCalls -> FilingCall \cup {None}]
    /\ settling \in [SettleCalls -> SettleCall \cup {None}]
    /\ \A c \in SettleCalls : settling[c] # None => settling[c].id \in DOMAIN leaves
    /\ quoting \in [QuotaCalls -> QuotaCall \cup {None}]
    /\ lowered \subseteq Slots

Init ==
    /\ today = 0
    /\ \E rules \in [Types -> UNION {Variants[t] : t \in Types}] :
         /\ \A t \in Types : rules[t] \in Variants[t]
         /\ types = [t \in Types |-> [state |-> IF t \in Seeded THEN "live" ELSE "absent",
                                     rules |-> rules[t]]]
    /\ quotas = [s \in Slots |-> None]
    /\ leaves = <<>>
    /\ filing = [c \in FilingCalls |-> None]
    /\ settling = [c \in SettleCalls |-> None]
    /\ quoting = [c \in QuotaCalls |-> None]
    /\ lowered = {}

-----------------------------------------------------------------------------
(* Rule C: what a person may take of a type in a year, and what is spent.  *)

(* Rows whose working days the balance query sums. *)
ChargedStatuses == {"pending", "approved"}

(* One pair for each working day charged to a slot: days are charged to the *)
(* year the leave starts in, whether approved or still waiting.             *)
ChargedDays(slot) ==
    {p \in (1..MaxLeaves) \X (1..(LastDay + 1)) :
        /\ p[1] \in DOMAIN leaves
        /\ p[2] =< leaves[p[1]].working
        /\ leaves[p[1]].status \in ChargedStatuses
        /\ <<leaves[p[1]].user, leaves[p[1]].type, Year(leaves[p[1]].start)>> = slot}

Spent(slot) == Cardinality(ChargedDays(slot))

(* A person without a row of their own has the type's quota; a type without *)
(* a quota allows nothing.                                                   *)
Allowance(slot) ==
    LET type == types[slot[2]]
    IN  IF quotas[slot] # None THEN quotas[slot].quota + quotas[slot].carried
        ELSE IF type.state # "absent" /\ type.rules.quota # None THEN type.rules.quota
        ELSE 0

(* Slots a step leaves with less than before. *)
Lowers == {s \in Slots : Allowance(s)' < Allowance(s)}

-----------------------------------------------------------------------------
(* Request: file leave. *)

SlotOf(f) == <<f.user, f.type, Year(f.start)>>

Holds(c) == filing[c] # None /\ filing[c].step = "held"

(* The type's own limits, in the current year. *)
checkRules(rules, f, working) ==
    /\ working > 0
    /\ rules.quota # None => /\ Year(f.start) = Year(f.end)
                             /\ Year(f.start) >= Year(today)
    /\ rules.most # None => working =< rules.most
    /\ rules.attachFrom # None /\ working >= rules.attachFrom => f.key # None

AttachmentUsed(key) == \E i \in DOMAIN leaves : leaves[i].key = key

(* The call has read its type, counted its working days under the schedule *)
(* (any number of the days it spans) and found its attachment unused.      *)
StartFiling(c, f, working) ==
    LET type == types[f.type]
    IN  /\ filing[c] = None
        /\ type.state = "live"
        /\ checkRules(type.rules, f, working)
        /\ f.key # None => ~AttachmentUsed(f.key)
        /\ filing' = [filing EXCEPT ![c] =
              [step |-> "checked", asked |-> f, working |-> working,
               limited |-> type.rules.quota # None, auto |-> type.rules.auto,
               allowance |-> 0]]
        /\ UNCHANGED <<today, types, quotas, leaves, settling, quoting, lowered>>

(* Mutants: the user row is not locked; waiting requests do not count as spent. *)
HoldBalanceUnlocked(c) ==
    LET f == filing[c].asked
        slot == SlotOf(f)
    IN  /\ filing[c] # None /\ filing[c].step = "checked" /\ filing[c].limited
        /\ filing[c].working =< Allowance(slot) - Spent(slot)
        /\ filing' = [filing EXCEPT ![c].step = "held", ![c].allowance = Allowance(slot)]
        /\ UNCHANGED <<today, types, quotas, leaves, settling, quoting, lowered>>

HoldBalanceOfApproved(c) ==
    LET f == filing[c].asked
        slot == SlotOf(f)
    IN  /\ filing[c] # None /\ filing[c].step = "checked" /\ filing[c].limited
        /\ \A d \in FilingCalls : Holds(d) => filing[d].asked.user # f.user
        /\ filing[c].working =< Allowance(slot)
             - Cardinality({p \in ChargedDays(slot) : leaves[p[1]].status = "approved"})
        /\ filing' = [filing EXCEPT ![c].step = "held", ![c].allowance = Allowance(slot)]
        /\ UNCHANGED <<today, types, quotas, leaves, settling, quoting, lowered>>

(* A type with a quota: lock the person's row, read the balance, and go on *)
(* only when the request fits in what remains.  One that does not fit ends *)
(* in FilingFails.                                                         *)
HoldBalance(c) ==
    LET f == filing[c].asked
        slot == SlotOf(f)
    IN  /\ filing[c] # None /\ filing[c].step = "checked" /\ filing[c].limited
        /\ \A d \in FilingCalls : Holds(d) => filing[d].asked.user # f.user
        /\ filing[c].working =< Allowance(slot) - Spent(slot)
        /\ filing' = [filing EXCEPT ![c].step = "held", ![c].allowance = Allowance(slot)]
        /\ UNCHANGED <<today, types, quotas, leaves, settling, quoting, lowered>>

(* The constraints of leave_requests: no overlap with a live leave of the   *)
(* same person, and an attachment backs one request only.                   *)
Insertable(f) ==
    /\ \A i \in DOMAIN leaves :
         leaves[i].user = f.user /\ leaves[i].status \in {"pending", "approved"}
           => leaves[i].end < f.start \/ f.end < leaves[i].start
    /\ f.key # None => ~AttachmentUsed(f.key)

(* Insert the row and commit, which lets the person's row go. *)
InsertLeave(c) ==
    LET f == filing[c].asked
    IN  /\ filing[c] # None
        /\ filing[c].step = (IF filing[c].limited THEN "held" ELSE "checked")
        /\ Len(leaves) < MaxLeaves
        /\ Insertable(f)
        /\ leaves' = Append(leaves,
              [user |-> f.user, type |-> f.type, start |-> f.start, end |-> f.end,
               working |-> filing[c].working, key |-> f.key,
               status |-> IF filing[c].auto THEN "approved" ELSE "pending",
               reviewer |-> None, withdrawer |-> None])
        /\ filing' = [filing EXCEPT ![c] = None]
        /\ UNCHANGED <<today, types, quotas, settling, quoting, lowered>>

(* Not enough days left, a constraint of the table, the upload check, a     *)
(* timeout or a lost connection: the transaction rolls back.                *)
FilingFails(c) ==
    /\ filing[c] # None
    /\ filing' = [filing EXCEPT ![c] = None]
    /\ UNCHANGED <<today, types, quotas, leaves, settling, quoting, lowered>>

-----------------------------------------------------------------------------
(* Cancel and Decide: read the row, check, settle. *)

(* Someone may act on u's requests: below them, or as hr_admin. *)
reach(by, u) ==
    \/ by = u
    \/ by \in Admins
    \/ by \in Supervisors /\ by \in Above[u]

(* The owner withdraws what has not started, hr_admin anything of others'. *)
StartCancel(c, by, i) ==
    LET row == leaves[i]
        override == by \in Admins /\ row.user # by
    IN  /\ settling[c] = None
        /\ row.user = by \/ override
        /\ row.status \in {"pending", "approved"}
        /\ row.status = "approved" /\ ~override => row.start > today
        /\ settling' = [settling EXCEPT ![c] =
              [id |-> i, from |-> row.status, to |-> "cancelled", by |-> by, started |-> row.start =< today]]
        /\ UNCHANGED <<today, types, quotas, leaves, filing, quoting, lowered>>

(* Mutant: reach alone, which everyone has over themselves. *)
StartDecideAnyone(c, by, i, to) ==
    /\ settling[c] = None
    /\ by \in Supervisors
    /\ reach(by, leaves[i].user)
    /\ settling' = [settling EXCEPT ![c] =
          [id |-> i, from |-> "pending", to |-> to, by |-> by, started |-> leaves[i].start =< today]]
    /\ UNCHANGED <<today, types, quotas, leaves, filing, quoting, lowered>>

(* Someone in reach, never the owner; the status is left to the update. *)
StartDecide(c, by, i, to) ==
    /\ settling[c] = None
    /\ by \in Supervisors
    /\ leaves[i].user # by
    /\ reach(by, leaves[i].user)
    /\ settling' = [settling EXCEPT ![c] =
          [id |-> i, from |-> "pending", to |-> to, by |-> by, started |-> leaves[i].start =< today]]
    /\ UNCHANGED <<today, types, quotas, leaves, filing, quoting, lowered>>

(* Mutant: the update does not ask which status the row is in. *)
SettleUnconditionally(c) ==
    LET s == settling[c]
    IN  /\ s # None
        /\ leaves' = IF s.to = "cancelled"
                     THEN [leaves EXCEPT ![s.id].status = s.to, ![s.id].withdrawer = s.by]
                     ELSE [leaves EXCEPT ![s.id].status = s.to, ![s.id].reviewer = s.by]
        /\ settling' = [settling EXCEPT ![c] = None]
        /\ UNCHANGED <<today, types, quotas, filing, quoting, lowered>>

(* The row moves on only out of the status the call goes by: the one Cancel *)
(* read, pending for Decide.                                                *)
Settle(c) ==
    LET s == settling[c]
    IN  /\ s # None
        /\ leaves[s.id].status = s.from
        /\ leaves' = IF s.to = "cancelled"
                     THEN [leaves EXCEPT ![s.id].status = s.to, ![s.id].withdrawer = s.by]
                     ELSE [leaves EXCEPT ![s.id].status = s.to, ![s.id].reviewer = s.by]
        /\ settling' = [settling EXCEPT ![c] = None]
        /\ UNCHANGED <<today, types, quotas, filing, quoting, lowered>>

(* The row has left that status: a conflict.  Or the call is cut off. *)
SettleFails(c) ==
    /\ settling[c] # None
    /\ settling' = [settling EXCEPT ![c] = None]
    /\ UNCHANGED <<today, types, quotas, leaves, filing, quoting, lowered>>

-----------------------------------------------------------------------------
(* hr_admin: one person's quota for a year. *)

QuotaSlot(q) == <<q.user, q.type, q.year>>

(* Mutant: the row is read without FOR UPDATE. *)
LocksNothing(c, slot) == FALSE

(* A call that locked the row it read; one that found none locks nothing. *)
LocksQuota(c, slot) ==
    /\ quoting[c] # None /\ quoting[c].before # None
    /\ QuotaSlot(quoting[c].asked) = slot

StartSetQuota(c, q) ==
    /\ quoting[c] = None
    /\ Admins \ {q.user} # {}
    /\ types[q.type].state = "live" /\ types[q.type].rules.quota # None
    /\ quoting' = [quoting EXCEPT ![c] = [step |-> "checked", asked |-> q, before |-> None]]
    /\ UNCHANGED <<today, types, quotas, leaves, filing, settling, lowered>>

ReadQuota(c) ==
    /\ quoting[c] # None /\ quoting[c].step = "checked"
    /\ \A d \in QuotaCalls : ~LocksQuota(d, QuotaSlot(quoting[c].asked))
    /\ quoting' = [quoting EXCEPT ![c].step = "read",
                                  ![c].before = quotas[QuotaSlot(quoting[c].asked)]]
    /\ UNCHANGED <<today, types, quotas, leaves, filing, settling, lowered>>

(* Mutant: carried-over days left out are written as NULL. *)
WriteQuotaAsAsked(c) ==
    LET q == quoting[c].asked
    IN  /\ quoting[c] # None /\ quoting[c].step = "read"
        /\ \A d \in QuotaCalls \ {c} : ~LocksQuota(d, QuotaSlot(q))
        /\ quotas' = [quotas EXCEPT ![QuotaSlot(q)] = [quota |-> q.quota, carried |-> q.carried]]
        /\ quoting' = [quoting EXCEPT ![c] = None]
        /\ UNCHANGED <<today, types, leaves, filing, settling, lowered>>

(* Insert the row, or on conflict overwrite the one that stands, and audit. *)
WriteQuota(c) ==
    LET q == quoting[c].asked
        before == quoting[c].before
        carried == IF q.carried # None THEN q.carried
                   ELSE IF before # None THEN before.carried ELSE 0
    IN  /\ quoting[c] # None /\ quoting[c].step = "read"
        /\ \A d \in QuotaCalls \ {c} : ~LocksQuota(d, QuotaSlot(q))
        /\ quotas' = [quotas EXCEPT ![QuotaSlot(q)] = [quota |-> q.quota, carried |-> carried]]
        /\ quoting' = [quoting EXCEPT ![c] = None]
        /\ UNCHANGED <<today, types, leaves, filing, settling>>
        /\ lowered' = lowered \cup Lowers

SetQuotaFails(c) ==
    /\ quoting[c] # None
    /\ quoting' = [quoting EXCEPT ![c] = None]
    /\ UNCHANGED <<today, types, quotas, leaves, filing, settling, lowered>>

-----------------------------------------------------------------------------
(* hr_admin: the kinds of leave.  Each is one statement or one transaction *)
(* under the lock of the row it rewrites.                                  *)

CreateType(t, rules) ==
    /\ types[t].state = "absent"
    /\ types' = [types EXCEPT ![t] = [state |-> "live", rules |-> rules]]
    /\ UNCHANGED <<today, quotas, leaves, filing, settling, quoting>>
    /\ lowered' = lowered \cup Lowers

ReplaceType(t, rules) ==
    /\ types[t].state = "live"
    /\ types' = [types EXCEPT ![t].rules = rules]
    /\ UNCHANGED <<today, quotas, leaves, filing, settling, quoting>>
    /\ lowered' = lowered \cup Lowers

DeleteType(t) ==
    /\ types[t].state = "live"
    /\ types' = [types EXCEPT ![t].state = "retired"]
    /\ UNCHANGED <<today, quotas, leaves, filing, settling, quoting, lowered>>

(* Midnight in the company's zone. *)
Midnight ==
    /\ today < LastDay
    /\ today' = today + 1
    /\ UNCHANGED <<types, quotas, leaves, filing, settling, quoting, lowered>>

-----------------------------------------------------------------------------
FilingStep(c) ==
    \/ \E f \in Filings : \E working \in 1..(f.end - f.start + 1) : StartFiling(c, f, working)
    \/ HoldBalance(c)
    \/ InsertLeave(c)
    \/ FilingFails(c)

SettleStep(c) ==
    \/ \E by \in Users, i \in DOMAIN leaves : StartCancel(c, by, i)
    \/ \E by \in Users, i \in DOMAIN leaves, to \in {"approved", "rejected"} :
         StartDecide(c, by, i, to)
    \/ Settle(c)
    \/ SettleFails(c)

QuotaStep(c) ==
    \/ \E q \in QuotaSettings : StartSetQuota(c, q)
    \/ ReadQuota(c)
    \/ WriteQuota(c)
    \/ SetQuotaFails(c)

TypeStep(t) ==
    \/ \E rules \in Variants[t] : CreateType(t, rules)
    \/ \E rules \in Variants[t] : ReplaceType(t, rules)
    \/ DeleteType(t)

Next ==
    \/ \E c \in FilingCalls : FilingStep(c)
    \/ \E c \in SettleCalls : SettleStep(c)
    \/ \E c \in QuotaCalls : QuotaStep(c)
    \/ \E t \in Types : TypeStep(t)
    \/ Midnight

Spec == Init /\ [][Next]_vars

-----------------------------------------------------------------------------
(* Properties. *)

(* A type that has a yearly quota under every rule hr_admin may give it. *)
Steady(t) == \A rules \in Variants[t] : rules.quota # None

(* While a Request call holds the balance it read, the days it asks for     *)
(* still fit in the allowance it was told: nothing else spends them between *)
(* the reading and the insert (Repository.Create).                          *)
ReservedDaysStand ==
    \A c \in FilingCalls :
        Holds(c) /\ Steady(filing[c].asked.type) =>
            Spent(SlotOf(filing[c].asked)) + filing[c].working =< filing[c].allowance

(* Nobody is charged more days of a type with a quota than they have in a   *)
(* year, unless hr_admin reduced what they had: Request calls that run      *)
(* together, or beside cancellations and decisions, never overdraw it.      *)
NeverOverdrawn ==
    \A slot \in Slots : Steady(slot[2]) /\ slot \notin lowered => Spent(slot) =< Allowance(slot)

(* Why NeverOverdrawn holds.  A filing of a steady type is held to its quota; *)
(* a person has one filing past its balance check at a time; what it read is *)
(* still allowed unless hr_admin took some of it away.                       *)
SteadyIsLimited ==
    \A c \in FilingCalls :
        filing[c] # None /\ Steady(filing[c].asked.type) => filing[c].limited

OneHolder ==
    \A c, d \in FilingCalls :
        Holds(c) /\ Holds(d) /\ filing[c].asked.user = filing[d].asked.user => c = d

AllowanceStands ==
    \A c \in FilingCalls :
        Holds(c) /\ SlotOf(filing[c].asked) \notin lowered
            => filing[c].allowance =< Allowance(SlotOf(filing[c].asked))

QuotaInv ==
    /\ TypeOK
    /\ SteadyIsLimited
    /\ OneHolder
    /\ ReservedDaysStand
    /\ AllowanceStands
    /\ NeverOverdrawn

(* The row a SetQuota call locked stands until it writes, so the audit      *)
(* entry describes what was replaced and no carried-over days are lost.     *)
LockedQuotaStands ==
    \A c \in QuotaCalls :
        quoting[c] # None /\ quoting[c].before # None
            => quotas[QuotaSlot(quoting[c].asked)] = quoting[c].before

(* The owner never takes back approved leave that had started when they     *)
(* asked, whichever order the cancellation and the approval land in.        *)
OwnerNeverReclaims ==
    [][\A c \in SettleCalls :
          Settle(c) /\ settling[c].to = "cancelled" =>
             LET row == leaves[settling[c].id]
             IN  row.user = settling[c].by /\ row.status = "approved"
                    => ~settling[c].started]_vars

(* A leave request is decided at most once and by someone else, withdrawn    *)
(* only while it is pending or approved, and never comes back.               *)
Filed == [i \in 1..MaxLeaves |->
            IF i \in DOMAIN leaves
            THEN [owner |-> leaves[i].user, status |-> leaves[i].status,
                  reviewer |-> leaves[i].reviewer]
            ELSE None]

Flow == INSTANCE ApprovalFlow WITH
            Requests <- 1..MaxLeaves, People <- Users,
            Withdrawable <- {"pending", "approved"},
            Unreviewed <- {"pending", "approved"}, request <- Filed

FlowSpec == Flow!Spec

(* Why both hold: what a settling call found out about its row does not     *)
(* change under it.                                                         *)
CancelChecked ==
    \A c \in SettleCalls :
        LET s == settling[c]
        IN  s # None /\ s.to = "cancelled" /\ s.from = "approved"
              /\ leaves[s.id].user = s.by => ~s.started

DecideChecked ==
    \A c \in SettleCalls :
        LET s == settling[c]
        IN  s # None /\ s.to # "cancelled" => s.from = "pending" /\ leaves[s.id].user # s.by

SettleInv == TypeOK /\ CancelChecked /\ DecideChecked

(* A SetQuota that names no carried-over days keeps those the person has    *)
(* (leavetype.go:65-66).                                                    *)
KeepsCarriedOver ==
    [][\A c \in QuotaCalls :
          WriteQuota(c) /\ quoting[c].asked.carried = None =>
             LET slot == QuotaSlot(quoting[c].asked)
             IN  quotas[slot] # None => quotas'[slot].carried = quotas[slot].carried]_vars
=============================================================================
