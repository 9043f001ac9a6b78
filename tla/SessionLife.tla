---------------------------- MODULE SessionLife ----------------------------
(***************************************************************************)
(* What the auth module promises of a login: a session with one credential *)
(* that works at a time, which is traded for a new one, never comes back,  *)
(* and ends at the latest at the moment set when the session was opened.   *)
(* A session goes by the credential it was opened with.                    *)
(***************************************************************************)
EXTENDS Naturals

CONSTANTS Tokens, None

VARIABLES
    clock,
    until,   \* when what a token was handed out for ends, None until it is
    usable   \* usable[s]: the tokens that carry session s on, one or none

vars == <<clock, until, usable>>

Init ==
    /\ clock \in Nat
    /\ until \in [Tokens -> Nat \cup {None}]
    /\ usable \in [Tokens -> {{}} \cup {{t} : t \in Tokens}]
    /\ \A s \in Tokens : \A t \in usable[s] :
           /\ until[s] # None /\ until[t] = until[s] /\ clock < until[s]
           /\ \A other \in Tokens : t \in usable[other] => other = s

Open(s) ==
    /\ until[s] = None
    /\ until'[s] \in Nat /\ clock < until'[s]
    /\ until' = [until EXCEPT ![s] = until'[s]]
    /\ usable' = [usable EXCEPT ![s] = {s}]
    /\ UNCHANGED clock

(* The old token stops working at the moment the new one starts. *)
Renew(s, t) ==
    /\ usable[s] # {}
    /\ until[t] = None
    /\ until' = [until EXCEPT ![t] = until[s]]
    /\ usable' = [usable EXCEPT ![s] = {t}]
    /\ UNCHANGED clock

(* A token handed out for a session that was over when it came. *)
TooLate(s, t) ==
    /\ until[s] # None /\ until[s] <= clock
    /\ until[t] = None
    /\ until' = [until EXCEPT ![t] = until[s]]
    /\ UNCHANGED <<clock, usable>>

End ==
    /\ usable' \in [Tokens -> SUBSET Tokens]
    /\ \A s \in Tokens : usable'[s] \in {{}, usable[s]}
    /\ UNCHANGED <<clock, until>>

Tick ==
    /\ clock' = clock + 1
    /\ usable' = [s \in Tokens |-> IF until[s] # None /\ until[s] <= clock' THEN {} ELSE usable[s]]
    /\ UNCHANGED until

Next ==
    \/ \E s \in Tokens : Open(s)
    \/ \E s, t \in Tokens : Renew(s, t) \/ TooLate(s, t)
    \/ End
    \/ Tick

Spec == Init /\ [][Next]_vars
=============================================================================
