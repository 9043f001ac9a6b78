----------------------------- MODULE Geofence ------------------------------
(* Which office a mark belongs to.  A place is known by its distance to each office, in the order offices are listed. *)
EXTENDS Integers, Sequences, SequencesExt

Distances == 0..3
Offices == [distance : Distances, radius : 1..3]

inside(office) == office.distance <= office.radius

(* An office holding the point beats any that does not; among equals the nearer, and the first of those. *)
Beats(office, best) ==
    \/ inside(office) /\ ~best.within
    \/ inside(office) = best.within /\ office.distance < best.nearest

(* The number of the office picked, 0 when there is none, and whether it holds the point. *)
locate(offices) ==
    FoldLeft(LAMBDA best, i :
                 IF best.office = 0 \/ Beats(offices[i], best)
                 THEN [office |-> i, within |-> inside(offices[i]), nearest |-> offices[i].distance]
                 ELSE best,
             [office |-> 0, within |-> FALSE, nearest |-> 0],
             [i \in 1..Len(offices) |-> i])

(* What the comment of locate says: the nearest office whose circle holds the point, else the nearest of all. *)
LocateMeans(offices) ==
    LET holding == {i \in DOMAIN offices : inside(offices[i])}
        pool == IF holding # {} THEN holding ELSE DOMAIN offices
        picked == locate(offices)
    IN  IF offices = <<>> THEN picked.office = 0 /\ ~picked.within
        ELSE /\ picked.office \in pool
             /\ picked.within = (holding # {})
             /\ \A i \in pool : offices[picked.office].distance <= offices[i].distance
=============================================================================
