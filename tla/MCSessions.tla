----------------------------- MODULE MCSessions -----------------------------
(* One person signed in on a phone and a laptop, who refreshes, retries, signs in again and out. *)
EXTENDS Sessions, TLC

CONSTANTS alice, phone, fresh1, fresh2

MCStaff == [u \in {alice} |-> [role |-> "employee", active |-> TRUE, removed |-> FALSE]]
MCAccounts == {[role |-> "employee", active |-> TRUE, removed |-> TRUE]}

(* Either she is signed in, or every token the bound allows has
   come and gone and only the attempts count. *)
SignedIn == [rows |-> [t \in Tokens |->
                 IF t = phone THEN [user |-> alice, login |-> phone, expires |-> 2, revoked |-> None] ELSE None],
             lease |-> [t \in Tokens |-> IF t = phone THEN 2 ELSE None]]
SignedOut == [rows |-> [t \in Tokens |-> None], lease |-> [t \in Tokens |-> 0]]
MCOutsets == {SignedIn, SignedOut}

Interchangeable == Permutations({fresh1, fresh2}) \cup Permutations(RefreshCalls)
=============================================================================
