----------------------------- MODULE MCServing -----------------------------
(* A decision that checks and then writes, an office added while the database hangs, and a probe. *)
EXTENDS Serving, TLC

CONSTANTS decision, stuck

MCOperation == (decision :> "CancelCorrection") @@ (stuck :> "CreateOfficeLocation")

MCScripts == [r \in {decision, stuck} |->
    IF r = decision THEN <<"statement", "transaction">> ELSE <<"transaction">>]

(* Of all operations: a refusal reaches the client as itself, but for a name that is taken, and whatever a
   contract lists can be answered. *)
ASSUME RefusalsReach ==
    /\ DOMAIN Refused = Operations /\ DOMAIN PassedOn = Operations
    /\ \A op \in Operations : Swallowed(op) =
           IF op \in {"CreateWorkSchedule", "UpdateWorkSchedule", "CreateOfficeLocation", "UpdateOfficeLocation"}
           THEN {409} ELSE {}
    /\ \A op \in Operations : Declared[op] \subseteq Told(op)
    /\ \A op \in Operations : PassedOn[op] \subseteq Refused[op] \cap Declared[op]
    /\ \A op \in Operations : (401 \in Declared[op]) = (op \in DOMAIN Protected \cup {"Login", "Refresh"})
=============================================================================
