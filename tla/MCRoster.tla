----------------------------- MODULE MCRoster -----------------------------
(* One person from Sunday to Monday; a schedule with Sunday off or on, edited and deleted beside roster
   writes, holidays and a report of the same days. *)
EXTENDS Roster

CONSTANTS ann, rota, c1, c2

sunday == 7
monday == 8
MCDates == {sunday, monday}

weekly == [hours |-> [start |-> 1, end |-> 3, grace |-> 1], workdays |-> 1..5, observes |-> TRUE]
guards == [hours |-> [start |-> 3, end |-> 1, grace |-> 0], workdays |-> {7}, observes |-> FALSE]
MCContents == {weekly, guards}

(* A single past or present date, and both at once. *)
MCBulks == {<<ann, sunday>> :> rota, <<ann, sunday>> :> Off @@ <<ann, monday>> :> rota}

MCFirstSchedules == [s \in {rota} |-> None]
MCFirstDefaults == [p \in {ann} |-> None]

Interchangeable == Permutations(Calls)

(* Every seventh day is a Sunday, and a Sunday is a 7. *)
ASSUME \A date \in 0..21 : weekday(date) \in 1..7 /\ weekday(date + 1) = (weekday(date) % 7) + 1
ASSUME weekday(0) = 7

(* totals against what it counts, over reports of two people. *)
Shown(user, status) == [user |-> user, status |-> status, worked |-> IF status \in {"present", "late"} THEN 2 ELSE 0]
Reports ==
    {[i \in 1..3 |-> Shown(IF i <= first THEN "a" ELSE "b", statuses[i])] :
        first \in 0..3, statuses \in [1..3 -> Statuses]}
TotalsAgree(days) ==
    LET counted(user, status) == Cardinality({i \in DOMAIN days : days[i].user = user /\ days[i].status = status})
        users == {days[i].user : i \in DOMAIN days}
    IN  /\ Len(totals(days)) = Cardinality(users)
        /\ \A i \in DOMAIN totals(days) :
               LET total == totals(days)[i]
               IN  /\ total.user \in users
                   /\ \A status \in DOMAIN total.days : total.days[status] = counted(total.user, status)
                   /\ total.worked = 2 * (counted(total.user, "present") + counted(total.user, "late"))
ASSUME \A days \in Reports : TotalsAgree(days)
ASSUME \A days \in Reports, status \in Statuses : TotalsAgree(filtered(days, status))
=============================================================================
