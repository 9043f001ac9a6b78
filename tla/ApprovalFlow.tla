---------------------------- MODULE ApprovalFlow ----------------------------
(***************************************************************************)
(* What the system promises of anything an employee asks for and somebody  *)
(* else decides: a leave request, or a correction of an attendance row.    *)
(* A request is filed once, decided at most once and never by the person   *)
(* who filed it, and withdrawn only out of the statuses its kind allows.   *)
(* How a request is stored, read and settled is the business of the        *)
(* modules that implement this one.                                        *)
(***************************************************************************)

CONSTANTS
    Requests,      \* identities of the requests that may be filed
    People,        \* who files and who decides
    Withdrawable,  \* statuses out of which a request may still be withdrawn
    Unreviewed,    \* statuses a request may be filed in, before any review
    None           \* no request, or nobody

VARIABLE request   \* request[r]: None until filed, then its owner, status and reviewer

Init == request = [r \in Requests |-> None]

(* Someone files r, to wait for a decision or approved outright. *)
File(r) ==
    /\ request[r] = None
    /\ \E owner \in People, status \in Unreviewed :
         request' = [request EXCEPT ![r] =
                       [owner |-> owner, status |-> status, reviewer |-> None]]

(* Someone other than its owner decides r, which nobody has decided yet. *)
Decide(r) ==
    /\ request[r] # None
    /\ request[r].status = "pending"
    /\ \E by \in People \ {request[r].owner}, status \in {"approved", "rejected"} :
         request' = [request EXCEPT ![r].status = status, ![r].reviewer = by]

(* r is withdrawn; who reviewed it stays on record. *)
Withdraw(r) ==
    /\ request[r] # None
    /\ request[r].status \in Withdrawable
    /\ request' = [request EXCEPT ![r].status = "cancelled"]

Next == \E r \in Requests : File(r) \/ Decide(r) \/ Withdraw(r)

Spec == Init /\ [][Next]_request
=============================================================================
