--------------------------- MODULE UploadsProofs ---------------------------
(* Proofs about Uploads, for any rules, users, sizes, types, keys and numbers of PUTs and concurrent checks. *)
EXTENDS Uploads, TLAPS

(* The inductive invariant.  A size is allowed from the URL on, so no later read can find another; a type
   is only known by reading, and from then on a check that goes to commit holds what the bucket holds,
   unless refused content was under the key once. *)
SizesSigned ==
    \A k \in Keys :
        /\ urls[k] # None => allowedSize(urls[k].purpose, urls[k].size)
        /\ objects[k] # None => urls[k] # None /\ objects[k].size = urls[k].size
        /\ committed[k] # None => urls[k] # None

RefusedSpoils ==
    \A k \in Keys : objects[k] # None /\ k \notin spoiled => Allowed(urls[k].purpose, objects[k])

ChecksHold ==
    \A c \in Calls :
        LET call == calls[c]
        IN  call # None =>
                /\ call.step = "reject" => call.key \in spoiled
                /\ call.step = "commit" =>
                       /\ call.found # None /\ Allowed(call.purpose, call.found)
                       /\ call.key \notin spoiled => objects[call.key] = call.found

IInv == TypeOK /\ SizesSigned /\ RefusedSpoils /\ ChecksHold /\ CommittedIsAllowed /\ VerifiedStays

-----------------------------------------------------------------------------
(* Nothing is signed, stored or checked at first. *)
LEMMA InitIInv == Init => IInv
BY RulesAssumption
   DEF Init, IInv, TypeOK, SizesSigned, RefusedSpoils, ChecksHold, CommittedIsAllowed, VerifiedStays

(* Every step keeps the types, and a check's key signed for its user and its purpose. *)
LEMMA TypeStep ==
    ASSUME TypeOK, [Next]_vars
    PROVE  TypeOK'
<1> USE RulesAssumption, NoneAssumption
<1> USE DEF TypeOK
<1>1. CASE \E k \in Keys, u \in Users, purpose \in Purposes, type \in Types, size \in Sizes :
               Intent(k, u, purpose, type, size)
  BY <1>1 DEF Intent, SignedURL
<1>2. CASE \E k \in Keys : Expire(k)
  <2>1. PICK k \in Keys : Expire(k)
    BY <1>2
  <2>2. [urls[k] EXCEPT !.expired = TRUE] \in SignedURL
    BY <2>1 DEF Expire, SignedURL
  <2>3. /\ urls' = [urls EXCEPT ![k] = [urls[k] EXCEPT !.expired = TRUE]]
        /\ [urls[k] EXCEPT !.expired = TRUE].user = urls[k].user
        /\ [urls[k] EXCEPT !.expired = TRUE].purpose = urls[k].purpose
    BY <2>1 DEF Expire, SignedURL
  <2>4. urls' \in [Keys -> SignedURL \cup {None}]
    BY <2>2, <2>3
  <2>5. \A c \in Calls : calls[c] # None =>
            urls'[calls[c].key] # None /\ urls'[calls[c].key].user = calls[c].user
            /\ urls'[calls[c].key].purpose = calls[c].purpose
    BY <2>2, <2>3 DEF Check
  <2> QED
    BY <2>1, <2>4, <2>5 DEF Expire
<1>3. CASE \E k \in Keys, size \in Sizes, type \in Types : Put(k, size, type)
  <2>1. PICK k \in Keys, size \in Sizes, type \in Types : Put(k, size, type)
    BY <1>3
  <2>2. [size |-> size, type |-> type, put |-> puts[k] + 1] \in Content
    BY <2>1 DEF Put, Content
  <2> QED
    BY <2>1, <2>2 DEF Put
<1>4. CASE \E c \in Calls, k \in Keys, u \in Users, purpose \in Purposes : Verify(c, k, u, purpose)
  <2>1. PICK c \in Calls, k \in Keys, u \in Users, purpose \in Purposes : Verify(c, k, u, purpose)
    BY <1>4
  <2>2. [step |-> "size", user |-> u, purpose |-> purpose, key |-> k, found |-> None] \in Check
    BY DEF Check
  <2> QED
    BY <2>1, <2>2 DEF Verify, Begins, checkKey
<1>5. CASE \E c \in Calls : Size(c)
  BY <1>5 DEF Size, At, Goes, Check
<1>6. CASE \E c \in Calls : ContentType(c)
  <2>1. PICK c \in Calls : ContentType(c)
    BY <1>6
  <2> DEFINE found == objects[calls[c].key]
             checked == [calls[c] EXCEPT
                 !.step = IF allowedType(calls[c].purpose, found.type) THEN "commit" ELSE "reject",
                 !.found = IF allowedType(calls[c].purpose, found.type) THEN found ELSE None]
  <2>2. calls[c] \in Check /\ found \in Content
    BY <2>1 DEF ContentType, At, Check
  <2>3. calls' = [calls EXCEPT ![c] = checked]
    BY <2>1, <2>2 DEF ContentType
  <2>4. checked \in Check /\ checked.key = calls[c].key /\ checked.user = calls[c].user
        /\ checked.purpose = calls[c].purpose
    BY <2>2 DEF Check
  <2>5. UNCHANGED <<urls, objects, committed, puts, spoiled>> /\ calls[c] # None
    BY <2>1 DEF ContentType, At
  <2> HIDE DEF found, checked
  <2>6. calls' \in [Calls -> Check \cup {None}]
    BY <2>3, <2>4
  <2>7. \A d \in Calls : calls'[d] # None =>
            urls[calls'[d].key] # None /\ urls[calls'[d].key].user = calls'[d].user
            /\ urls[calls'[d].key].purpose = calls'[d].purpose
    <3>1. TAKE d \in Calls
    <3>2. CASE d = c
      BY <2>3, <2>4, <2>5, <3>2
    <3>3. CASE d # c
      BY <2>3, <3>3
    <3> QED
      BY <3>2, <3>3
  <2> QED
    BY <2>5, <2>6, <2>7
<1>7. CASE \E c \in Calls : Reject(c)
  BY <1>7 DEF Reject, At, Check
<1>8. CASE \E c \in Calls : Commit(c)
  BY <1>8 DEF Commit, At, Check
<1>9. CASE \E c \in Calls : CheckFails(c)
  BY <1>9 DEF CheckFails, Check
<1>10. CASE UNCHANGED vars
  BY <1>10 DEF vars
<1> QED
  BY <1>1, <1>2, <1>3, <1>4, <1>5, <1>6, <1>7, <1>8, <1>9, <1>10 DEF Next

-----------------------------------------------------------------------------
(* A URL is signed for a key nobody used: no object, row or check is there to be touched. *)
LEMMA IntentStep ==
    ASSUME IInv, TypeOK', NEW k \in Keys, NEW u \in Users, NEW purpose \in Purposes,
           NEW type \in Types, NEW size \in Sizes, Intent(k, u, purpose, type, size)
    PROVE  IInv'
<1> USE NoneAssumption
<1>1. /\ urls' = [urls EXCEPT ![k] = [user |-> u, purpose |-> purpose, size |-> size, expired |-> FALSE]]
      /\ UNCHANGED <<objects, calls, committed, spoiled>> /\ allowedSize(purpose, size)
      /\ objects[k] = None /\ committed[k] = None
  BY DEF Intent, IInv, SizesSigned
<1>2. \A j \in Keys : j # k => urls'[j] = urls[j]
  BY <1>1 DEF IInv, TypeOK
<1>3. urls'[k].purpose = purpose /\ urls'[k].size = size
  BY <1>1 DEF IInv, TypeOK
<1>4. SizesSigned'
  BY <1>1, <1>2, <1>3 DEF IInv, SizesSigned, allowedSize
<1>5. RefusedSpoils'
  BY <1>1, <1>2 DEF IInv, RefusedSpoils, Allowed, allowedSize, allowedType
<1>6. ChecksHold'
  BY <1>1 DEF IInv, ChecksHold, Allowed, allowedSize, allowedType
<1>7. CommittedIsAllowed' /\ VerifiedStays'
  BY <1>1, <1>2 DEF IInv, CommittedIsAllowed, VerifiedStays, Allowed, allowedSize, allowedType
<1> QED
  BY <1>4, <1>5, <1>6, <1>7 DEF IInv

(* Only a URL's time runs out. *)
LEMMA ExpireStep ==
    ASSUME IInv, TypeOK', NEW k \in Keys, Expire(k)
    PROVE  IInv'
<1> USE NoneAssumption
<1>1. UNCHANGED <<objects, calls, committed, spoiled>>
  BY DEF Expire
<1>2. urls[k] \in SignedURL
  BY DEF Expire, IInv, TypeOK
<1>3. \A j \in Keys : /\ urls'[j] = None <=> urls[j] = None
                      /\ urls[j] # None => urls'[j].purpose = urls[j].purpose /\ urls'[j].size = urls[j].size
  <2>1. urls' = [urls EXCEPT ![k] = [urls[k] EXCEPT !.expired = TRUE]] /\ urls[k] # None
    BY DEF Expire
  <2>2. [urls[k] EXCEPT !.expired = TRUE] \in SignedURL
    BY <1>2 DEF SignedURL
  <2>3. /\ [urls[k] EXCEPT !.expired = TRUE].purpose = urls[k].purpose
        /\ [urls[k] EXCEPT !.expired = TRUE].size = urls[k].size
    BY <1>2 DEF SignedURL
  <2> QED
    BY <2>1, <2>2, <2>3 DEF IInv, TypeOK
<1>4. SizesSigned'
  BY <1>1, <1>3 DEF IInv, SizesSigned, allowedSize
<1>5. RefusedSpoils'
  BY <1>1, <1>3 DEF IInv, SizesSigned, RefusedSpoils, Allowed, allowedSize, allowedType
<1>6. ChecksHold'
  BY <1>1 DEF IInv, ChecksHold, Allowed, allowedSize, allowedType
<1>7. CommittedIsAllowed' /\ VerifiedStays'
  BY <1>1, <1>3 DEF IInv, SizesSigned, CommittedIsAllowed, VerifiedStays, Allowed, allowedSize, allowedType
<1> QED
  BY <1>4, <1>5, <1>6, <1>7 DEF IInv

(* Storage takes an object only under a free key and of the signed size, so no committed or checked object
   is replaced, unless the key was spoiled before. *)
LEMMA PutStep ==
    ASSUME IInv, TypeOK', NEW k \in Keys, NEW size \in Sizes, NEW type \in Types, Put(k, size, type)
    PROVE  IInv'
<1> USE NoneAssumption
<1> DEFINE content == [size |-> size, type |-> type, put |-> puts[k] + 1]
<1>1. /\ UNCHANGED <<urls, calls, committed>> /\ urls[k] # None /\ objects[k] = None /\ urls[k].size = size
      /\ objects' = [objects EXCEPT ![k] = content]
      /\ spoiled' = IF Allowed(urls[k].purpose, content) THEN spoiled ELSE spoiled \cup {k}
  BY DEF Put, Accepts
<1>2. content \in Content /\ content.size = size
  <2>1. puts[k] + 1 \in 1..MaxPuts
    BY RulesAssumption DEF Put, IInv, TypeOK
  <2> QED
    BY <2>1 DEF Content
<1> HIDE DEF content
<1>3. objects'[k] = content /\ \A j \in Keys : j # k => objects'[j] = objects[j]
  BY <1>1 DEF IInv, TypeOK
<1>4. spoiled \subseteq spoiled' /\ (k \notin spoiled' => Allowed(urls[k].purpose, content))
  BY <1>1
<1>5. SizesSigned'
  BY <1>1, <1>2, <1>3 DEF IInv, SizesSigned, allowedSize
<1>6. RefusedSpoils'
  BY <1>1, <1>3, <1>4 DEF IInv, RefusedSpoils, Allowed, allowedSize, allowedType
<1>7. ChecksHold'
  <2> SUFFICES ASSUME NEW c \in Calls, calls[c] # None
               PROVE  /\ calls[c].step = "reject" => calls[c].key \in spoiled'
                      /\ calls[c].step = "commit" =>
                             /\ calls[c].found # None /\ Allowed(calls[c].purpose, calls[c].found)
                             /\ calls[c].key \notin spoiled' => objects'[calls[c].key] = calls[c].found
    BY <1>1 DEF ChecksHold, Allowed, allowedSize, allowedType
  <2>1. calls[c].key \in Keys
    BY DEF IInv, TypeOK, Check
  <2>2. /\ calls[c].step = "reject" => calls[c].key \in spoiled
        /\ calls[c].step = "commit" =>
               /\ calls[c].found # None /\ Allowed(calls[c].purpose, calls[c].found)
               /\ calls[c].key \notin spoiled => objects[calls[c].key] = calls[c].found
    BY DEF IInv, ChecksHold
  <2> QED
    BY <1>1, <1>3, <1>4, <2>1, <2>2
<1>8. CommittedIsAllowed' /\ VerifiedStays'
  BY <1>1, <1>3, <1>4 DEF IInv, CommittedIsAllowed, VerifiedStays, Allowed, allowedSize, allowedType
<1> QED
  BY <1>5, <1>6, <1>7, <1>8 DEF IInv

-----------------------------------------------------------------------------
(* What a step of one check has to show when the URLs and the bucket stay as they are: its own record. *)
LEMMA CheckStep ==
    ASSUME IInv, TypeOK', NEW c \in Calls, UNCHANGED <<urls, objects, spoiled, committed>>,
           \A d \in Calls : d # c => calls'[d] = calls[d],
           calls'[c] # None =>
               /\ calls'[c].step = "reject" => calls'[c].key \in spoiled
               /\ calls'[c].step = "commit" =>
                      /\ calls'[c].found # None /\ Allowed(calls'[c].purpose, calls'[c].found)
                      /\ calls'[c].key \notin spoiled => objects[calls'[c].key] = calls'[c].found
    PROVE  IInv'
<1>1. SizesSigned' /\ RefusedSpoils' /\ CommittedIsAllowed' /\ VerifiedStays'
  BY DEF IInv, SizesSigned, RefusedSpoils, CommittedIsAllowed, VerifiedStays, Allowed, allowedSize, allowedType
<1>2. ChecksHold'
  BY DEF IInv, ChecksHold, Allowed, allowedSize, allowedType
<1> QED
  BY <1>1, <1>2 DEF IInv

(* The object read is the one the URL was signed for, so its size never refuses it. *)
LEMMA SizeStep ==
    ASSUME IInv, TypeOK', NEW c \in Calls, Size(c)
    PROVE  IInv'
<1> USE NoneAssumption
<1>1. /\ UNCHANGED <<urls, objects, spoiled, committed>> /\ calls[c] # None
      /\ objects[calls[c].key] # None
  BY DEF Size, At
<1>2. calls[c] \in Check /\ calls[c].key \in Keys
  BY <1>1 DEF IInv, TypeOK, Check
<1>3. allowedSize(calls[c].purpose, objects[calls[c].key].size)
  BY <1>1, <1>2 DEF IInv, TypeOK, SizesSigned
<1>4. calls' = [calls EXCEPT ![c] = [calls[c] EXCEPT !.step = "type"]]
  BY <1>3 DEF Size, Goes
<1>5. calls'[c].step = "type" /\ \A d \in Calls : d # c => calls'[d] = calls[d]
  BY <1>2, <1>4 DEF IInv, TypeOK, Check
<1> QED
  BY <1>1, <1>5, CheckStep

(* The bytes read are the object's: of an allowed type it goes to commit as found, of a refused one its key
   was spoiled. *)
LEMMA ContentTypeStep ==
    ASSUME IInv, TypeOK', NEW c \in Calls, ContentType(c)
    PROVE  IInv'
<1> USE NoneAssumption
<1> DEFINE key == calls[c].key
           found == objects[key]
           ok == allowedType(calls[c].purpose, found.type)
           checked == [calls[c] EXCEPT !.step = IF ok THEN "commit" ELSE "reject",
                                       !.found = IF ok THEN found ELSE None]
<1>1. /\ UNCHANGED <<urls, objects, spoiled, committed>> /\ calls[c] # None /\ found # None
      /\ calls' = [calls EXCEPT ![c] = checked]
  BY DEF ContentType, At
<1>2. calls[c] \in Check /\ key \in Keys /\ urls[key] # None /\ urls[key].purpose = calls[c].purpose
  BY <1>1 DEF IInv, TypeOK, Check
<1>3. allowedSize(calls[c].purpose, found.size)
  BY <1>1, <1>2 DEF IInv, SizesSigned
<1>4. ~ok => key \in spoiled
  BY <1>1, <1>2 DEF IInv, RefusedSpoils, Allowed
<1>5. /\ checked.step = IF ok THEN "commit" ELSE "reject"
      /\ checked.found = IF ok THEN found ELSE None
      /\ checked.key = key /\ checked.purpose = calls[c].purpose
  BY <1>2 DEF Check
<1> HIDE DEF checked
<1>6. calls'[c] = checked /\ \A d \in Calls : d # c => calls'[d] = calls[d]
  BY <1>1 DEF IInv, TypeOK
<1>7. ok => Allowed(checked.purpose, found)
  BY <1>3, <1>5 DEF Allowed
<1> HIDE DEF ok, found
<1>8. /\ checked.step = "reject" => checked.key \in spoiled
      /\ checked.step = "commit" =>
             /\ checked.found # None /\ Allowed(checked.purpose, checked.found)
             /\ objects[checked.key] = checked.found
  BY <1>1, <1>4, <1>5, <1>7 DEF found
<1> QED
  BY <1>1, <1>6, <1>8, CheckStep

(* What is deleted was under a spoiled key: no invariant speaks of what such a key holds. *)
LEMMA RejectStep ==
    ASSUME IInv, TypeOK', NEW c \in Calls, Reject(c)
    PROVE  IInv' /\ calls[c].key \in spoiled
<1> USE NoneAssumption
<1> DEFINE key == calls[c].key
<1>1. /\ UNCHANGED <<urls, committed, spoiled>> /\ calls[c] # None /\ calls[c].step = "reject"
      /\ objects' = [objects EXCEPT ![key] = None] /\ calls' = [calls EXCEPT ![c] = None]
  BY DEF Reject, At
<1>2. key \in Keys /\ key \in spoiled
  BY <1>1 DEF IInv, TypeOK, Check, ChecksHold
<1> HIDE DEF key
<1>3. objects'[key] = None /\ \A j \in Keys : j # key => objects'[j] = objects[j]
  BY <1>1, <1>2 DEF IInv, TypeOK
<1>4. calls'[c] = None /\ \A d \in Calls : d # c => calls'[d] = calls[d]
  BY <1>1 DEF IInv, TypeOK
<1>5. SizesSigned'
  BY <1>1, <1>3 DEF IInv, SizesSigned, allowedSize
<1>6. RefusedSpoils'
  BY <1>1, <1>3 DEF IInv, RefusedSpoils, Allowed, allowedSize, allowedType
<1>7. ChecksHold'
  <2> SUFFICES ASSUME NEW d \in Calls, d # c, calls[d] # None
               PROVE  /\ calls[d].step = "reject" => calls[d].key \in spoiled
                      /\ calls[d].step = "commit" =>
                             /\ calls[d].found # None /\ Allowed(calls[d].purpose, calls[d].found)
                             /\ calls[d].key \notin spoiled => objects'[calls[d].key] = calls[d].found
    BY <1>1, <1>4 DEF ChecksHold, Allowed, allowedSize, allowedType
  <2>1. calls[d].key \in Keys
    BY DEF IInv, TypeOK, Check
  <2> QED
    BY <1>2, <1>3, <2>1 DEF IInv, ChecksHold
<1>8. CommittedIsAllowed' /\ VerifiedStays'
  BY <1>1, <1>2, <1>3 DEF IInv, CommittedIsAllowed, VerifiedStays, Allowed, allowedSize, allowedType
<1> QED
  BY <1>2, <1>5, <1>6, <1>7, <1>8 DEF IInv, key

(* A row names what its check found, which the bucket still holds, or held until its key was spoiled. *)
LEMMA CommitStep ==
    ASSUME IInv, TypeOK', NEW c \in Calls, Commit(c)
    PROVE  IInv'
<1> USE NoneAssumption
<1> DEFINE key == calls[c].key
           found == calls[c].found
<1>1. /\ UNCHANGED <<urls, objects, spoiled>> /\ calls[c] # None /\ calls[c].step = "commit"
      /\ committed' = [committed EXCEPT ![key] = found] /\ calls' = [calls EXCEPT ![c] = None]
  BY DEF Commit, At
<1>2. key \in Keys /\ urls[key] # None /\ urls[key].purpose = calls[c].purpose
  BY <1>1 DEF IInv, TypeOK, Check
<1>3. Allowed(calls[c].purpose, found) /\ (key \notin spoiled => objects[key] = found)
  BY <1>1 DEF IInv, ChecksHold
<1> HIDE DEF key, found
<1>4. committed'[key] = found /\ \A j \in Keys : j # key => committed'[j] = committed[j]
  BY <1>1, <1>2 DEF IInv, TypeOK
<1>5. calls'[c] = None /\ \A d \in Calls : d # c => calls'[d] = calls[d]
  BY <1>1 DEF IInv, TypeOK
<1>6. SizesSigned'
  BY <1>1, <1>2, <1>4 DEF IInv, SizesSigned, allowedSize
<1>7. RefusedSpoils'
  BY <1>1 DEF IInv, RefusedSpoils, Allowed, allowedSize, allowedType
<1>8. ChecksHold'
  BY <1>1, <1>5 DEF IInv, ChecksHold, Allowed, allowedSize, allowedType
<1>9. CommittedIsAllowed'
  BY <1>1, <1>2, <1>3, <1>4 DEF IInv, CommittedIsAllowed, Allowed, allowedSize, allowedType
<1>10. VerifiedStays'
  BY <1>1, <1>2, <1>3, <1>4 DEF IInv, VerifiedStays
<1> QED
  BY <1>6, <1>7, <1>8, <1>9, <1>10 DEF IInv

(* A check that fails leaves everything but itself. *)
LEMMA CheckFailsStep ==
    ASSUME IInv, TypeOK', NEW c \in Calls, CheckFails(c)
    PROVE  IInv'
<1>1. UNCHANGED <<urls, objects, spoiled, committed>> /\ calls' = [calls EXCEPT ![c] = None]
  BY DEF CheckFails
<1>2. calls'[c] = None /\ \A d \in Calls : d # c => calls'[d] = calls[d]
  BY <1>1 DEF IInv, TypeOK
<1> QED
  BY <1>1, <1>2, CheckStep

(* Every step keeps the invariant. *)
LEMMA StepIInv ==
    ASSUME IInv, [Next]_vars
    PROVE  IInv'
<1>1. TypeOK'
  BY TypeStep DEF IInv
<1>2. CASE \E k \in Keys, u \in Users, purpose \in Purposes, type \in Types, size \in Sizes :
               Intent(k, u, purpose, type, size)
  BY <1>1, <1>2, IntentStep
<1>3. CASE \E k \in Keys : Expire(k)
  BY <1>1, <1>3, ExpireStep
<1>4. CASE \E k \in Keys, size \in Sizes, type \in Types : Put(k, size, type)
  BY <1>1, <1>4, PutStep
<1>5. CASE \E c \in Calls, k \in Keys, u \in Users, purpose \in Purposes : Verify(c, k, u, purpose)
  <2>1. PICK c \in Calls, k \in Keys, u \in Users, purpose \in Purposes : Verify(c, k, u, purpose)
    BY <1>5
  <2>2. UNCHANGED <<urls, objects, spoiled, committed>> /\ calls'[c].step = "size"
        /\ \A d \in Calls : d # c => calls'[d] = calls[d]
    BY <2>1 DEF Verify, Begins, IInv, TypeOK
  <2> QED
    BY <1>1, <2>2, CheckStep
<1>6. CASE \E c \in Calls : Size(c)
  BY <1>1, <1>6, SizeStep
<1>7. CASE \E c \in Calls : ContentType(c)
  BY <1>1, <1>7, ContentTypeStep
<1>8. CASE \E c \in Calls : Reject(c)
  BY <1>1, <1>8, RejectStep
<1>9. CASE \E c \in Calls : Commit(c)
  BY <1>1, <1>9, CommitStep
<1>10. CASE \E c \in Calls : CheckFails(c)
  BY <1>1, <1>10, CheckFailsStep
<1>11. CASE UNCHANGED vars
  BY <1>1, <1>11 DEF vars, IInv, SizesSigned, RefusedSpoils, ChecksHold, CommittedIsAllowed, VerifiedStays,
                     Allowed, allowedSize, allowedType
<1> QED
  BY <1>2, <1>3, <1>4, <1>5, <1>6, <1>7, <1>8, <1>9, <1>10, <1>11 DEF Next

(* An object goes, or comes, only as the property says: storage takes none over another, and only a
   rejection deletes. *)
LEMMA DeletionStep ==
    ASSUME IInv, [Next]_vars, NEW k \in Keys, objects[k] # None, objects'[k] # objects[k]
    PROVE  objects'[k] = None /\ k \in spoiled
<1>1. CASE \E j \in Keys, size \in Sizes, type \in Types : Put(j, size, type)
  BY <1>1 DEF Put, Accepts, IInv, TypeOK
<1>2. CASE \E c \in Calls : Reject(c)
  <2>1. PICK c \in Calls : Reject(c)
    BY <1>2
  <2>2. calls[c].key = k
    BY <2>1 DEF Reject, IInv, TypeOK
  <2> QED
    BY <2>1, <2>2, RejectStep, TypeStep DEF Reject, IInv, TypeOK
<1>3. CASE UNCHANGED objects
  BY <1>3
<1> QED
  BY <1>1, <1>2, <1>3 DEF Next, vars, Intent, Expire, Verify, Size, ContentType, Commit, CheckFails

-----------------------------------------------------------------------------
(* IInv holds in every behaviour of the code. *)
THEOREM Invariance == Spec => []IInv
<1>1. IInv /\ [Next]_vars => IInv'
  BY StepIInv
<1> QED
  BY InitIInv, <1>1, PTL DEF Spec

(* The state's shape, for any number of keys and concurrent checks. *)
THEOREM UploadTypes == Spec => []TypeOK
<1>1. IInv => TypeOK
  BY DEF IInv
<1> QED
  BY Invariance, <1>1, PTL

(* service.go:51: what a row names was of an allowed size and type, for any interleaving of checks. *)
THEOREM UploadsCommitAllowed == Spec => []CommittedIsAllowed
<1>1. IInv => CommittedIsAllowed
  BY DEF IInv
<1> QED
  BY Invariance, <1>1, PTL

(* storage.go:85: an object a row names stays what was checked, unless its key was spoiled. *)
THEOREM VerifiedObjectsStay == Spec => []VerifiedStays
<1>1. IInv => VerifiedStays
  BY DEF IInv
<1> QED
  BY Invariance, <1>1, PTL

(* service.go:52: only what was refused, or came after it under the same key, is deleted. *)
THEOREM OnlyRefusedDeleted == Spec => OnlyRefusedIsDeleted
<1>1. IInv /\ [Next]_vars =>
          [\A k \in Keys : objects[k] # None /\ objects'[k] # objects[k] =>
               objects'[k] = None /\ k \in spoiled]_vars
  BY DeletionStep
<1> QED
  BY Invariance, <1>1, PTL DEF Spec, OnlyRefusedIsDeleted
=============================================================================
