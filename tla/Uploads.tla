------------------------------ MODULE Uploads ------------------------------
(***************************************************************************)
(* The upload module and the object storage behind it: a signed URL for    *)
(* one object, the client's PUT, and the check of what was uploaded before *)
(* attendance or leave commits a row that names it.                        *)
(*                                                                         *)
(* A key holds its owner and its purpose in its prefix and is otherwise    *)
(* unique.  Content is told apart by its size, by the type its first bytes *)
(* have, and by which PUT brought it.                                      *)
(***************************************************************************)
EXTENDS Naturals

CONSTANTS
    Users,
    Purposes,
    maxBytes, types,   \* rules: the largest size and the allowed types of a purpose
    Sizes, Types,      \* bound: sizes and types that occur
    Keys,              \* bound: keys ever signed
    MaxPuts,           \* bound: PUTs of one key that succeed
    Calls,             \* concurrent checks
    None

Content == [size : Sizes, type : Types, put : 1..MaxPuts]

SignedURL == [user : Users, purpose : Purposes, size : Sizes, expired : BOOLEAN]

Check == [step : {"size", "type", "reject", "commit"}, user : Users, purpose : Purposes, key : Keys, found : Content \cup {None}]

ASSUME RulesAssumption ==
    /\ maxBytes \in [Purposes -> Nat] /\ types \in [Purposes -> SUBSET Types]
    /\ Sizes \subseteq Nat /\ MaxPuts \in Nat
ASSUME NoneAssumption == None \notin Content /\ None \notin SignedURL /\ None \notin Check

VARIABLES
    urls,       \* URLs signed, by key
    objects,    \* the bucket
    calls,      \* checks under way
    committed,  \* what was found under a key that a row names
    puts,       \* history: PUTs that succeeded, by key
    spoiled     \* history: keys that held what their purpose refuses

vars == <<urls, objects, calls, committed, puts, spoiled>>

Init ==
    /\ urls = [k \in Keys |-> None]
    /\ objects = [k \in Keys |-> None]
    /\ calls = [c \in Calls |-> None]
    /\ committed = [k \in Keys |-> None]
    /\ puts = [k \in Keys |-> 0]
    /\ spoiled = {}

allowedSize(purpose, size) == size \in 1..maxBytes[purpose]
allowedType(purpose, type) == type \in types[purpose]
Allowed(purpose, content) == allowedSize(purpose, content.size) /\ allowedType(purpose, content.type)

-----------------------------------------------------------------------------
(* The type a client declares is checked and not kept: what it uploads may be of any. *)
Intent(k, u, purpose, type, size) ==
    /\ urls[k] = None
    /\ allowedType(purpose, type) /\ allowedSize(purpose, size)
    /\ urls' = [urls EXCEPT ![k] = [user |-> u, purpose |-> purpose, size |-> size, expired |-> FALSE]]
    /\ UNCHANGED <<objects, calls, committed, puts, spoiled>>

Expire(k) ==
    /\ urls[k] # None /\ ~urls[k].expired
    /\ urls' = [urls EXCEPT ![k].expired = TRUE]
    /\ UNCHANGED <<objects, calls, committed, puts, spoiled>>

(* A bug the code avoids: the URL is signed without If-None-Match. *)
AcceptsAny(k, size) == urls[k].size = size

(* A bug the code avoids: the URL is signed without the size. *)
AcceptsAnySize(k, size) == objects[k] = None

(* What was signed is what storage lets through: a first object under the key, of just that size. *)
Accepts(k, size) == objects[k] = None /\ urls[k].size = size

Put(k, size, type) ==
    /\ urls[k] # None /\ ~urls[k].expired
    /\ Accepts(k, size)
    /\ puts[k] < MaxPuts
    /\ LET content == [size |-> size, type |-> type, put |-> puts[k] + 1]
       IN  /\ objects' = [objects EXCEPT ![k] = content]
           /\ spoiled' = IF Allowed(urls[k].purpose, content) THEN spoiled ELSE spoiled \cup {k}
    /\ puts' = [puts EXCEPT ![k] = @ + 1]
    /\ UNCHANGED <<urls, calls, committed>>

-----------------------------------------------------------------------------
(* A bug the code avoids: any key of the purpose will do. *)
checkPurpose(k, u, purpose) == urls[k].purpose = purpose

checkKey(k, u, purpose) == urls[k].purpose = purpose /\ urls[k].user = u

Begins(c, k, u, purpose) ==
    calls' = [calls EXCEPT ![c] = [step |-> "size", user |-> u, purpose |-> purpose, key |-> k, found |-> None]]

(* The caller finds no row that names the key, then asks for its check. *)
Verify(c, k, u, purpose) ==
    /\ calls[c] = None
    /\ urls[k] # None /\ checkKey(k, u, purpose)
    /\ committed[k] = None
    /\ Begins(c, k, u, purpose)
    /\ UNCHANGED <<urls, objects, committed, puts, spoiled>>

At(c, step) == calls[c] # None /\ calls[c].step = step

Goes(c, step) == calls' = [calls EXCEPT ![c].step = step]

Size(c) ==
    /\ At(c, "size") /\ objects[calls[c].key] # None
    /\ Goes(c, IF allowedSize(calls[c].purpose, objects[calls[c].key].size) THEN "type" ELSE "reject")
    /\ UNCHANGED <<urls, objects, committed, puts, spoiled>>

(* The bytes are read anew: between the two another check may have deleted the object, and a client may
   have put another. *)
ContentType(c) ==
    /\ At(c, "type") /\ objects[calls[c].key] # None
    /\ LET found == objects[calls[c].key]
       IN  calls' = [calls EXCEPT
               ![c].step = IF allowedType(calls[c].purpose, found.type) THEN "commit" ELSE "reject",
               ![c].found = IF allowedType(calls[c].purpose, found.type) THEN found ELSE None]
    /\ UNCHANGED <<urls, objects, committed, puts, spoiled>>

(* By key, whatever is there by then. *)
Reject(c) ==
    /\ At(c, "reject")
    /\ objects' = [objects EXCEPT ![calls[c].key] = None]
    /\ calls' = [calls EXCEPT ![c] = None]
    /\ UNCHANGED <<urls, committed, puts, spoiled>>

(* The row of the caller; keys are unique in it. *)
Commit(c) ==
    /\ At(c, "commit") /\ committed[calls[c].key] = None
    /\ committed' = [committed EXCEPT ![calls[c].key] = calls[c].found]
    /\ calls' = [calls EXCEPT ![c] = None]
    /\ UNCHANGED <<urls, objects, puts, spoiled>>

(* A bug the code avoids: storage that does not answer counts as a refusal. *)
CheckFailsDeleting(c) ==
    /\ calls[c] # None
    /\ objects' = [objects EXCEPT ![calls[c].key] = None]
    /\ calls' = [calls EXCEPT ![c] = None]
    /\ UNCHANGED <<urls, committed, puts, spoiled>>

(* Nothing there, storage that does not answer, a caller that refuses or a timeout: a refused object stays
   where it is if its deletion fails. *)
CheckFails(c) ==
    /\ calls[c] # None
    /\ calls' = [calls EXCEPT ![c] = None]
    /\ UNCHANGED <<urls, objects, committed, puts, spoiled>>

Next ==
    \/ \E k \in Keys :
           \/ \E u \in Users, purpose \in Purposes, type \in Types, size \in Sizes : Intent(k, u, purpose, type, size)
           \/ Expire(k)
           \/ \E size \in Sizes, type \in Types : Put(k, size, type)
           \/ \E c \in Calls, u \in Users, purpose \in Purposes : Verify(c, k, u, purpose)
    \/ \E c \in Calls : Size(c) \/ ContentType(c) \/ Reject(c) \/ Commit(c) \/ CheckFails(c)

Spec == Init /\ [][Next]_vars

-----------------------------------------------------------------------------
(* Properties. *)

(* The state's shape; a check is of a key that was signed for its user and its purpose. *)
TypeOK ==
    /\ urls \in [Keys -> SignedURL \cup {None}]
    /\ objects \in [Keys -> Content \cup {None}]
    /\ calls \in [Calls -> Check \cup {None}]
    /\ \A c \in Calls : calls[c] # None =>
           LET url == urls[calls[c].key]
           IN  url # None /\ url.user = calls[c].user /\ url.purpose = calls[c].purpose
    /\ committed \in [Keys -> Content \cup {None}]
    /\ puts \in [Keys -> 0..MaxPuts]
    /\ spoiled \subseteq Keys

(* service.go:51, "Verify checks an uploaded key before it is committed": what a row names was of an
   allowed size and an allowed type, though the two were read at different times. *)
CommittedIsAllowed ==
    \A k \in Keys : committed[k] # None => Allowed(urls[k].purpose, committed[k])

(* storage.go:85, "a verified object cannot be replaced through it": an object a row names stays what was
   checked, unless its key held refused content once; then a late rejection may delete it. *)
VerifiedStays ==
    \A k \in Keys : committed[k] # None /\ k \notin spoiled => objects[k] = committed[k]

(* service.go:52, "Refused content is deleted, so the bucket never keeps it": nobody's allowed object is
   deleted under a key that never held anything else, and none is ever exchanged in one step. *)
OnlyRefusedIsDeleted ==
    [][\A k \in Keys : objects[k] # None /\ objects'[k] # objects[k] =>
           objects'[k] = None /\ k \in spoiled]_vars
=============================================================================
