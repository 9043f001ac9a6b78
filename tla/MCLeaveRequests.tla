--------------------------- MODULE MCLeaveRequests ---------------------------
(* Three people and a calendar of two-day years, for two questions: what    *)
(* filings and quota changes that run together do to the balance (Quota),   *)
(* and what cancellations and decisions that run together do to a request   *)
(* (Decision).                                                              *)
EXTENDS LeaveRequests, TLC

CONSTANTS ana, ben, hana, annual, sick, letter

\* ana is an employee, ben their supervisor, hana hr_admin.
MCAbove == [u \in Users |-> IF u = ana THEN {ben} \cap Users ELSE {}]
Symmetry == Permutations(FilingCalls) \cup Permutations(SettleCalls) \cup Permutations(QuotaCalls)

Limited(days) == [quota |-> days, most |-> None, attachFrom |-> None, auto |-> FALSE]
Unlimited == [quota |-> None, most |-> 2, attachFrom |-> 2, auto |-> FALSE]
SelfApproved == [quota |-> 1, most |-> 1, attachFrom |-> 1, auto |-> TRUE]

Ask(u, t, start, end, key) == [user |-> u, type |-> t, start |-> start, end |-> end, key |-> key]
Grant(u, days, carried) == [user |-> u, type |-> annual, year |-> 0,
                            quota |-> days, carried |-> carried]

\* Quota: one person asks for two days of a type whose quota may change, one by
\* one, and over the turn of the year for two of a type without quota; then no day of
\* the old year is to be had any more.  Their own quota may change too.
QuotaVariants == [t \in {annual, sick} |->
    IF t = annual THEN {Limited(1), Limited(2)} ELSE {Unlimited}]
QuotaFilings == {Ask(ana, annual, 0, 0, None), Ask(ana, annual, 1, 1, None),
                 Ask(ana, sick, 1, 2, letter)}
QuotaGrants == {Grant(ana, 0, None), Grant(ana, 1, 1)}

\* Decision: two days asked of a type with one, and one by hr_admin; the type may
\* come to approve itself and to need a letter.
DecisionVariants == [t \in {annual} |-> {Limited(1), SelfApproved}]
DecisionFilings == {Ask(ana, annual, 0, 0, None), Ask(ana, annual, 1, 1, letter),
                    Ask(hana, annual, 0, 0, None)}
==============================================================================
