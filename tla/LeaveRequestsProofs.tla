------------------------ MODULE LeaveRequestsProofs ------------------------
(***************************************************************************)
(* Theorems about LeaveRequests, for any number of people, leave types,    *)
(* requests and concurrent calls.                                          *)
(***************************************************************************)
EXTENDS LeaveRequests, FiniteSetTheorems, TLAPS

-----------------------------------------------------------------------------
(* Type correctness. *)

(* The initial tables are well typed. *)
LEMMA InitType == Init => TypeOK
<1> SUFFICES ASSUME Init PROVE TypeOK
  OBVIOUS
<1> USE CalendarAssumption, InputsAssumption
<1>1. today \in Days /\ lowered \subseteq Slots
  BY DEF Init, Days
<1>2. /\ types \in [Types -> [state : {"absent", "live", "retired"}, rules : Rules]]
      /\ \A t \in Types : types[t].rules \in Variants[t]
  <2>1. PICK rules \in [Types -> UNION {Variants[t] : t \in Types}] :
           /\ \A t \in Types : rules[t] \in Variants[t]
           /\ types = [t \in Types |-> [state |-> IF t \in Seeded THEN "live" ELSE "absent",
                                        rules |-> rules[t]]]
    BY DEF Init
  <2>2. \A t \in Types : rules[t] \in Rules
    BY <2>1
  <2> QED BY <2>1, <2>2
<1>3. quotas \in [Slots -> QuotaRow \cup {None}]
  BY DEF Init
<1>4. leaves \in Seq(Leave) /\ Len(leaves) =< MaxLeaves
  BY DEF Init
<1>5. /\ filing \in [FilingCalls -> FilingCall \cup {None}]
      /\ settling \in [SettleCalls -> SettleCall \cup {None}]
      /\ \A c \in SettleCalls : settling[c] # None => settling[c].id \in DOMAIN leaves
      /\ quoting \in [QuotaCalls -> QuotaCall \cup {None}]
  BY DEF Init
<1> QED BY <1>1, <1>2, <1>3, <1>4, <1>5 DEF TypeOK

(* Appending a row, or changing the status and the people of one, keeps the *)
(* table well typed and every row where it was.                             *)
LEMMA AppendLeave ==
  ASSUME leaves \in Seq(Leave), NEW row \in Leave, leaves' = Append(leaves, row)
  PROVE  /\ leaves' \in Seq(Leave)
         /\ Len(leaves') = Len(leaves) + 1
         /\ DOMAIN leaves \subseteq DOMAIN leaves'
         /\ \A i \in DOMAIN leaves : leaves'[i] = leaves[i]
         /\ leaves'[Len(leaves) + 1] = row
         /\ DOMAIN leaves' = DOMAIN leaves \cup {Len(leaves) + 1}
  OBVIOUS

LEMMA SettledRow ==
  ASSUME leaves \in Seq(Leave), NEW i \in DOMAIN leaves, NEW to \in Statuses, NEW by \in Users
  PROVE  /\ [leaves EXCEPT ![i].status = to, ![i].withdrawer = by] \in Seq(Leave)
         /\ [leaves EXCEPT ![i].status = to, ![i].reviewer = by] \in Seq(Leave)
         /\ Len([leaves EXCEPT ![i].status = to, ![i].withdrawer = by]) = Len(leaves)
         /\ Len([leaves EXCEPT ![i].status = to, ![i].reviewer = by]) = Len(leaves)
         /\ DOMAIN [leaves EXCEPT ![i].status = to, ![i].withdrawer = by] = DOMAIN leaves
         /\ DOMAIN [leaves EXCEPT ![i].status = to, ![i].reviewer = by] = DOMAIN leaves
<1>1. leaves[i] \in Leave
  OBVIOUS
<1>2. /\ [leaves[i] EXCEPT !.status = to, !.withdrawer = by] \in Leave
      /\ [leaves[i] EXCEPT !.status = to, !.reviewer = by] \in Leave
  BY <1>1 DEF Leave
<1>3. \A row \in Leave : /\ [leaves EXCEPT ![i] = row] \in Seq(Leave)
                         /\ Len([leaves EXCEPT ![i] = row]) = Len(leaves)
                         /\ DOMAIN [leaves EXCEPT ![i] = row] = DOMAIN leaves
  OBVIOUS
<1>4. /\ [leaves EXCEPT ![i].status = to, ![i].withdrawer = by]
           = [leaves EXCEPT ![i] = [leaves[i] EXCEPT !.status = to, !.withdrawer = by]]
      /\ [leaves EXCEPT ![i].status = to, ![i].reviewer = by]
           = [leaves EXCEPT ![i] = [leaves[i] EXCEPT !.status = to, !.reviewer = by]]
  OBVIOUS
<1> QED BY <1>2, <1>3, <1>4

(* Every step of a Request call keeps the tables and the calls well typed. *)
LEMMA FilingType ==
  ASSUME TypeOK, NEW c \in FilingCalls, FilingStep(c)
  PROVE  TypeOK'
<1> USE NoneAssumption DEF TypeOK
<1>1. ASSUME NEW f \in Filings, NEW working \in 1..(f.end - f.start + 1),
             StartFiling(c, f, working)
      PROVE  TypeOK'
  <2>1. f \in Filing /\ working \in 1..(LastDay + 1)
    BY InputsAssumption, CalendarAssumption DEF Filing, Days
  <2>2. types[f.type].rules \in Rules
    BY <2>1 DEF Filing
  <2>3. [step |-> "checked", asked |-> f, working |-> working,
         limited |-> types[f.type].rules.quota # None, auto |-> types[f.type].rules.auto,
         allowance |-> 0] \in FilingCall
    BY <2>1, <2>2 DEF FilingCall, Rules
  <2> QED BY <1>1, <2>3 DEF StartFiling
<1>2. CASE HoldBalance(c)
  <2>1. filing[c] \in FilingCall
    BY <1>2 DEF HoldBalance
  <2>2. SlotOf(filing[c].asked) \in Slots
    BY <2>1 DEF FilingCall, Filing, SlotOf, Slots, Years
  <2>3. Allowance(SlotOf(filing[c].asked)) \in Int
    BY <2>2 DEF Allowance, Slots, QuotaRow, Rules
  <2>4. filing'[c] \in FilingCall
    BY <1>2, <2>1, <2>3 DEF HoldBalance, FilingCall
  <2> QED BY <1>2, <2>4 DEF HoldBalance
<1>3. CASE InsertLeave(c)
  <2> DEFINE f == filing[c].asked
             row == [user |-> f.user, type |-> f.type, start |-> f.start, end |-> f.end,
                     working |-> filing[c].working, key |-> f.key,
                     status |-> IF filing[c].auto THEN "approved" ELSE "pending",
                     reviewer |-> None, withdrawer |-> None]
  <2>1. filing[c] \in FilingCall
    BY <1>3 DEF InsertLeave
  <2>2. row \in Leave
    BY <2>1 DEF FilingCall, Filing, Leave, Statuses
  <2>3. leaves' = Append(leaves, row)
    BY <1>3 DEF InsertLeave
  <2>4. /\ leaves' \in Seq(Leave) /\ Len(leaves') = Len(leaves) + 1
        /\ DOMAIN leaves \subseteq DOMAIN leaves'
    BY <2>2, <2>3, AppendLeave
  <2>5. Len(leaves') =< MaxLeaves
    BY <1>3, <2>4, CalendarAssumption DEF InsertLeave
  <2>6. filing' \in [FilingCalls -> FilingCall \cup {None}]
    BY <1>3 DEF InsertLeave
  <2>7. UNCHANGED <<today, types, quotas, settling, quoting, lowered>>
    BY <1>3 DEF InsertLeave
  <2> QED BY <2>4, <2>5, <2>6, <2>7
<1>4. CASE FilingFails(c)
  BY <1>4 DEF FilingFails
<1> QED BY <1>1, <1>2, <1>3, <1>4 DEF FilingStep

(* Every step of a Cancel or Decide call does. *)
LEMMA SettleType ==
  ASSUME TypeOK, NEW c \in SettleCalls, SettleStep(c)
  PROVE  TypeOK'
<1> USE NoneAssumption DEF TypeOK
<1>1. DOMAIN leaves \subseteq 1..MaxLeaves
  BY CalendarAssumption
<1>2. ASSUME NEW by \in Users, NEW i \in DOMAIN leaves, StartCancel(c, by, i)
      PROVE  TypeOK'
  <2>1. settling'[c] \in SettleCall /\ settling'[c].id \in DOMAIN leaves
    BY <1>1, <1>2 DEF StartCancel, SettleCall
  <2> QED BY <1>2, <2>1 DEF StartCancel
<1>3. ASSUME NEW by \in Users, NEW i \in DOMAIN leaves, NEW to \in {"approved", "rejected"},
             StartDecide(c, by, i, to)
      PROVE  TypeOK'
  <2>1. settling'[c] \in SettleCall /\ settling'[c].id \in DOMAIN leaves
    BY <1>1, <1>3 DEF StartDecide, SettleCall
  <2> QED BY <1>3, <2>1 DEF StartDecide
<1>4. CASE Settle(c)
  <2>1. settling[c] \in SettleCall /\ settling[c].id \in DOMAIN leaves
    BY <1>4 DEF Settle
  <2>2. settling[c].to \in Statuses /\ settling[c].by \in Users
    BY <2>1 DEF SettleCall, Statuses
  <2>3. leaves' \in Seq(Leave) /\ Len(leaves') = Len(leaves) /\ DOMAIN leaves' = DOMAIN leaves
    BY <1>4, <2>1, <2>2, SettledRow DEF Settle
  <2>4. /\ settling' \in [SettleCalls -> SettleCall \cup {None}]
        /\ \A d \in SettleCalls : settling'[d] # None => settling'[d].id \in DOMAIN leaves'
        /\ UNCHANGED <<today, types, quotas, filing, quoting, lowered>>
    BY <1>4, <2>3 DEF Settle
  <2> QED BY <2>3, <2>4
<1>5. CASE SettleFails(c)
  BY <1>5 DEF SettleFails
<1> QED BY <1>2, <1>3, <1>4, <1>5 DEF SettleStep

(* Every step of a SetQuota call does. *)
LEMMA QuotaType ==
  ASSUME TypeOK, NEW c \in QuotaCalls, QuotaStep(c)
  PROVE  TypeOK'
<1> USE NoneAssumption DEF TypeOK
<1>1. ASSUME NEW q \in QuotaSettings, StartSetQuota(c, q)
      PROVE  TypeOK'
  <2>1. [step |-> "checked", asked |-> q, before |-> None] \in QuotaCall
    BY InputsAssumption DEF QuotaCall
  <2> QED BY <1>1, <2>1 DEF StartSetQuota
<1>2. CASE ReadQuota(c)
  <2>1. quoting[c] \in QuotaCall
    BY <1>2 DEF ReadQuota
  <2>2. QuotaSlot(quoting[c].asked) \in Slots
    BY <2>1 DEF QuotaCall, QuotaSetting, QuotaSlot, Slots
  <2>3. quoting'[c] \in QuotaCall
    BY <1>2, <2>1, <2>2 DEF ReadQuota, QuotaCall
  <2> QED BY <1>2, <2>3 DEF ReadQuota
<1>3. CASE WriteQuota(c)
  <2>1. quoting[c] \in QuotaCall
    BY <1>3 DEF WriteQuota
  <2>2. /\ QuotaSlot(quoting[c].asked) \in Slots
        /\ quoting[c].asked.quota \in Nat
        /\ quoting[c].asked.carried \in Nat \cup {None}
        /\ quoting[c].before # None => quoting[c].before.carried \in Nat
    BY <2>1 DEF QuotaCall, QuotaSetting, QuotaSlot, Slots, QuotaRow
  <2>3. quotas' \in [Slots -> QuotaRow \cup {None}]
    BY <1>3, <2>2 DEF WriteQuota, QuotaRow
  <2>4. lowered' \subseteq Slots
    BY <1>3 DEF WriteQuota, Lowers
  <2> QED BY <1>3, <2>3, <2>4 DEF WriteQuota
<1>4. CASE SetQuotaFails(c)
  BY <1>4 DEF SetQuotaFails
<1> QED BY <1>1, <1>2, <1>3, <1>4 DEF QuotaStep

(* So does every change of a leave type. *)
LEMMA TypeStepType ==
  ASSUME TypeOK, NEW t \in Types, TypeStep(t)
  PROVE  TypeOK'
<1> USE DEF TypeOK
<1>1. \A rules \in Variants[t] : rules \in Rules
  BY InputsAssumption
<1>2. ASSUME NEW rules \in Variants[t], CreateType(t, rules)
      PROVE  TypeOK'
  <2>1. lowered' \subseteq Slots
    BY <1>2 DEF CreateType, Lowers
  <2> QED BY <1>1, <1>2, <2>1 DEF CreateType
<1>3. ASSUME NEW rules \in Variants[t], ReplaceType(t, rules)
      PROVE  TypeOK'
  <2>1. lowered' \subseteq Slots
    BY <1>3 DEF ReplaceType, Lowers
  <2> QED BY <1>1, <1>3, <2>1 DEF ReplaceType
<1>4. CASE DeleteType(t)
  BY <1>4 DEF DeleteType
<1> QED BY <1>2, <1>3, <1>4 DEF TypeStep

LEMMA NextType == TypeOK /\ [Next]_vars => TypeOK'
<1> SUFFICES ASSUME TypeOK, [Next]_vars PROVE TypeOK'
  OBVIOUS
<1>1. CASE Midnight
  BY <1>1, CalendarAssumption DEF Midnight, TypeOK, Days
<1>2. CASE UNCHANGED vars
  BY <1>2 DEF vars, TypeOK
<1> QED BY <1>1, <1>2, FilingType, SettleType, QuotaType, TypeStepType DEF Next

(* The tables and the calls under way are always well typed, whatever runs  *)
(* together: leave_types, leave_balances and leave_requests keep the shape  *)
(* their migration declares, and a call settles only a row that exists.     *)
THEOREM TypeCorrect == Spec => []TypeOK
  BY InitType, NextType, PTL DEF Spec

-----------------------------------------------------------------------------
(* Counting charged days. *)

LEMMA UpTo ==
  ASSUME NEW n \in Nat
  PROVE  IsFiniteSet(1..n) /\ Cardinality(1..n) = n
<1>1. 1 \in Int /\ n \in Int
  OBVIOUS
<1>2. IsFiniteSet(1..n) /\ Cardinality(1..n) = IF 1 > n THEN 0 ELSE n - 1 + 1
  BY <1>1, FS_Interval
<1> QED BY <1>2

(* The pairs counted by Spent lie in a finite rectangle. *)
LEMMA SpentType ==
  ASSUME NEW slot
  PROVE  /\ IsFiniteSet(ChargedDays(slot)) /\ Spent(slot) \in Nat
         /\ IsFiniteSet(ChargedDays(slot)') /\ Spent(slot)' \in Nat
<1> DEFINE box == (1..MaxLeaves) \X (1..(LastDay + 1))
<1>1. IsFiniteSet(box)
  <2>1. IsFiniteSet(1..MaxLeaves) /\ IsFiniteSet(1..(LastDay + 1))
    BY UpTo, CalendarAssumption
  <2> QED BY ONLY <2>1, FS_Product
<1>2. ChargedDays(slot) \subseteq box /\ ChargedDays(slot)' \subseteq box
  BY DEF ChargedDays
<1>3. IsFiniteSet(ChargedDays(slot)) /\ IsFiniteSet(ChargedDays(slot)')
  BY <1>1, <1>2, FS_Subset
<1> QED BY <1>3, FS_CardinalityType DEF Spent

(* A step that leaves the table alone changes nobody's spending. *)
LEMMA SpentUnchanged ==
  ASSUME UNCHANGED leaves, NEW slot
  PROVE  Spent(slot)' = Spent(slot)
BY DEF Spent, ChargedDays

(* Settling a request never adds a charged day: a row is pending or approved *)
(* when it moves on, so whatever it becomes it was charged before.           *)
LEMMA SpentAfterSettle ==
  ASSUME TypeOK, NEW c \in SettleCalls, Settle(c), NEW slot
  PROVE  Spent(slot)' =< Spent(slot)
<1> DEFINE s == settling[c]
<1>1. s \in SettleCall /\ s.id \in DOMAIN leaves
  BY NoneAssumption DEF TypeOK, Settle
<1>2. leaves[s.id].status \in {"pending", "approved"} /\ leaves \in Seq(Leave)
  BY <1>1 DEF Settle, SettleCall, TypeOK
<1>3. /\ DOMAIN leaves' = DOMAIN leaves
      /\ \A i \in DOMAIN leaves :
           /\ leaves'[i].user = leaves[i].user /\ leaves'[i].type = leaves[i].type
           /\ leaves'[i].start = leaves[i].start /\ leaves'[i].working = leaves[i].working
           /\ i # s.id => leaves'[i].status = leaves[i].status
  BY <1>1, <1>2 DEF Settle, Leave
<1>4. ChargedDays(slot)' \subseteq ChargedDays(slot)
  BY <1>2, <1>3 DEF ChargedDays, ChargedStatuses
<1> QED BY <1>4, SpentType, FS_Subset DEF Spent

(* Filing adds a request's working days to its own slot and to no other. *)
LEMMA SpentAfterInsert ==
  ASSUME TypeOK, NEW c \in FilingCalls, InsertLeave(c), NEW slot
  PROVE  /\ slot # SlotOf(filing[c].asked) => Spent(slot)' = Spent(slot)
         /\ slot = SlotOf(filing[c].asked) => Spent(slot)' =< Spent(slot) + filing[c].working
<1> DEFINE f == filing[c].asked
           n == Len(leaves) + 1
           row == [user |-> f.user, type |-> f.type, start |-> f.start, end |-> f.end,
                   working |-> filing[c].working, key |-> f.key,
                   status |-> IF filing[c].auto THEN "approved" ELSE "pending",
                   reviewer |-> None, withdrawer |-> None]
           new == {n} \X (1..filing[c].working)
<1>1. filing[c] \in FilingCall /\ leaves \in Seq(Leave)
  BY NoneAssumption DEF TypeOK, InsertLeave
<1>2. row \in Leave /\ row.user = f.user /\ row.type = f.type /\ row.start = f.start
      /\ row.working = filing[c].working
  BY <1>1 DEF FilingCall, Filing, Leave, Statuses
<1>3. leaves' = Append(leaves, row)
  BY DEF InsertLeave
<1> HIDE DEF row
<1>4. /\ DOMAIN leaves' = DOMAIN leaves \cup {n} /\ leaves'[n] = row
      /\ \A i \in DOMAIN leaves : leaves'[i] = leaves[i]
  BY <1>1, <1>2, <1>3, AppendLeave
<1>5. n \notin DOMAIN leaves
  BY <1>1
<1>6. ASSUME slot # SlotOf(f) PROVE ChargedDays(slot)' = ChargedDays(slot)
  BY <1>2, <1>4, <1>5, <1>6 DEF ChargedDays, SlotOf
<1>7. ASSUME slot = SlotOf(f) PROVE ChargedDays(slot)' \subseteq ChargedDays(slot) \cup new
  <2>1. ASSUME NEW p \in ChargedDays(slot)', p[1] # n PROVE p \in ChargedDays(slot)
    BY <2>1, <1>4 DEF ChargedDays
  <2>2. ASSUME NEW p \in ChargedDays(slot)', p[1] = n PROVE p \in new
    BY <2>2, <1>1, <1>2, <1>4 DEF ChargedDays, FilingCall
  <2> QED BY <2>1, <2>2
<1>8. IsFiniteSet(new) /\ Cardinality(new) = filing[c].working
  <2>1. filing[c].working \in Nat
    BY <1>1, CalendarAssumption DEF FilingCall
  <2>2. IsFiniteSet({n}) /\ Cardinality({n}) = 1
    BY FS_Singleton
  <2>3. IsFiniteSet(1..filing[c].working) /\ Cardinality(1..filing[c].working) = filing[c].working
    BY <2>1, UpTo
  <2>4. IsFiniteSet(new) /\ Cardinality(new) = Cardinality({n}) * Cardinality(1..filing[c].working)
    BY ONLY <2>2, <2>3, FS_Product
  <2> QED BY <2>1, <2>2, <2>3, <2>4
<1>9. /\ IsFiniteSet(ChargedDays(slot) \cup new)
      /\ Cardinality(ChargedDays(slot) \cup new) =< Spent(slot) + filing[c].working
  <2>1. /\ IsFiniteSet(ChargedDays(slot) \cup new)
        /\ Cardinality(ChargedDays(slot) \cup new)
             = Cardinality(ChargedDays(slot)) + Cardinality(new)
                 - Cardinality(ChargedDays(slot) \cap new)
    BY <1>8, SpentType, FS_Union
  <2>2. Cardinality(ChargedDays(slot) \cap new) \in Nat
    BY <1>8, SpentType, FS_Intersection, FS_CardinalityType
  <2>3. filing[c].working \in Nat /\ Spent(slot) \in Nat
    BY <1>1, CalendarAssumption, SpentType DEF FilingCall
  <2> QED BY <2>1, <2>2, <2>3, <1>8 DEF Spent
<1>10. ASSUME slot = SlotOf(f)
       PROVE  Cardinality(ChargedDays(slot)') =< Cardinality(ChargedDays(slot) \cup new)
  BY <1>7, <1>9, <1>10, FS_Subset
<1>11. slot = SlotOf(f) => Spent(slot)' =< Spent(slot) + filing[c].working
  <2> SUFFICES ASSUME slot = SlotOf(f) PROVE Spent(slot)' =< Spent(slot) + filing[c].working
    OBVIOUS
  <2>1. Cardinality(ChargedDays(slot) \cup new) \in Nat /\ Spent(slot)' \in Nat
        /\ Spent(slot) \in Nat /\ filing[c].working \in Nat
    BY <1>1, <1>9, SpentType, FS_CardinalityType, CalendarAssumption DEF FilingCall
  <2> QED BY <1>9, <1>10, <2>1 DEF Spent
<1> QED BY <1>6, <1>11 DEF Spent

-----------------------------------------------------------------------------
(* Nobody overdraws their quota. *)

LEMMA AllowanceType ==
  ASSUME TypeOK, NEW slot \in Slots
  PROVE  Allowance(slot) \in Nat
BY DEF TypeOK, Allowance, Slots, QuotaRow, Rules

LEMMA AllowanceUnchanged ==
  ASSUME UNCHANGED <<types, quotas>>, NEW slot
  PROVE  Allowance(slot)' = Allowance(slot)
BY DEF Allowance

(* A slot not recorded as lowered has at least what it had. *)
LEMMA LowersSound ==
  ASSUME TypeOK, TypeOK', lowered' = lowered \cup Lowers,
         NEW slot \in Slots, slot \notin lowered'
  PROVE  slot \notin lowered /\ Allowance(slot) =< Allowance(slot)'
<1>1. Allowance(slot) \in Nat
  BY AllowanceType
<1>2. Allowance(slot)' \in Nat
  BY AllowanceType DEF TypeOK, Allowance, Slots, QuotaRow, Rules
<1> QED BY <1>1, <1>2 DEF Lowers

LEMMA FilingSlot ==
  ASSUME TypeOK, NEW c \in FilingCalls, filing[c] # None
  PROVE  /\ filing[c] \in FilingCall /\ filing[c].asked \in Filing
         /\ SlotOf(filing[c].asked) \in Slots
         /\ SlotOf(filing[c].asked)[1] = filing[c].asked.user
         /\ SlotOf(filing[c].asked)[2] = filing[c].asked.type
         /\ filing[c].working \in Nat /\ filing[c].allowance \in Int
BY CalendarAssumption DEF TypeOK, FilingCall, Filing, SlotOf, Slots, Years

LEMMA InitQuota == Init => QuotaInv
<1> SUFFICES ASSUME Init PROVE QuotaInv
  OBVIOUS
<1>1. TypeOK
  BY InitType
<1>2. ASSUME NEW slot \in Slots PROVE Spent(slot) =< Allowance(slot)
  <2>1. ChargedDays(slot) = {}
    BY DEF Init, ChargedDays
  <2>2. Spent(slot) = 0
    BY <2>1, FS_EmptySet DEF Spent
  <2> QED BY <1>1, <2>2, AllowanceType
<1>3. SteadyIsLimited /\ OneHolder /\ ReservedDaysStand /\ AllowanceStands
  BY DEF Init, SteadyIsLimited, OneHolder, ReservedDaysStand, AllowanceStands, Holds
<1> QED BY <1>1, <1>2, <1>3 DEF QuotaInv, NeverOverdrawn

(* Steps that leave the Request calls and what they counted alone: only what *)
(* is allowed may change, and then what was lowered is on record.            *)
LEMMA OtherStepQuota ==
  ASSUME QuotaInv, TypeOK', UNCHANGED <<leaves, filing>>,
         \/ UNCHANGED <<types, quotas, lowered>>
         \/ lowered' = lowered \cup Lowers
  PROVE  QuotaInv'
<1> USE DEF QuotaInv
<1>1. \A slot : Spent(slot)' = Spent(slot)
  BY SpentUnchanged
<1>2. ASSUME NEW slot \in Slots, slot \notin lowered'
      PROVE  slot \notin lowered /\ Allowance(slot) =< Allowance(slot)'
  <2>1. CASE UNCHANGED <<types, quotas, lowered>>
    BY <1>2, <2>1, AllowanceUnchanged, AllowanceType
  <2>2. CASE lowered' = lowered \cup Lowers
    BY <1>2, <2>2, LowersSound
  <2> QED BY <2>1, <2>2
<1>3. SteadyIsLimited' /\ OneHolder'
  BY DEF SteadyIsLimited, OneHolder, Holds
<1>4. ReservedDaysStand'
  BY <1>1 DEF ReservedDaysStand, Holds
<1>5. AllowanceStands'
  <2> SUFFICES ASSUME NEW c \in FilingCalls, Holds(c), SlotOf(filing[c].asked) \notin lowered'
               PROVE  filing[c].allowance =< Allowance(SlotOf(filing[c].asked))'
    BY DEF AllowanceStands, Holds
  <2> DEFINE slot == SlotOf(filing[c].asked)
  <2>1. slot \in Slots /\ filing[c].allowance \in Int
    BY FilingSlot DEF Holds
  <2>2. slot \notin lowered /\ Allowance(slot) =< Allowance(slot)'
    BY <1>2, <2>1
  <2>3. filing[c].allowance =< Allowance(slot)
    BY <2>2 DEF AllowanceStands
  <2>4. Allowance(slot) \in Nat
    BY <2>1, AllowanceType
  <2>5. Allowance(slot)' \in Nat
    BY <2>1 DEF TypeOK, Allowance, Slots, QuotaRow, Rules
  <2> QED BY <2>1, <2>2, <2>3, <2>4, <2>5
<1>6. NeverOverdrawn'
  <2> SUFFICES ASSUME NEW slot \in Slots, Steady(slot[2]), slot \notin lowered'
               PROVE  Spent(slot)' =< Allowance(slot)'
    BY DEF NeverOverdrawn
  <2>1. slot \notin lowered /\ Allowance(slot) =< Allowance(slot)'
    BY <1>2
  <2>2. Spent(slot) =< Allowance(slot)
    BY <2>1 DEF NeverOverdrawn
  <2>3. Spent(slot) \in Nat /\ Allowance(slot) \in Nat
    BY SpentType, AllowanceType
  <2>4. Allowance(slot)' \in Nat
    BY DEF TypeOK, Allowance, Slots, QuotaRow, Rules
  <2> QED BY <1>1, <2>1, <2>2, <2>3, <2>4
<1> QED BY <1>3, <1>4, <1>5, <1>6

(* A Request call that starts, takes the lock with the balance, or gives up. *)
LEMMA StartQuota ==
  ASSUME QuotaInv, TypeOK', NEW c \in FilingCalls, NEW f \in Filings, NEW working,
         StartFiling(c, f, working)
  PROVE  QuotaInv'
<1> USE DEF QuotaInv
<1>1. /\ UNCHANGED <<types, quotas, leaves, lowered>>
      /\ filing'[c].step = "checked" /\ filing'[c].asked = f
      /\ filing'[c].limited = (types[f.type].rules.quota # None)
      /\ \A d \in FilingCalls \ {c} : filing'[d] = filing[d]
  BY DEF StartFiling, TypeOK
<1>2. Steady(f.type) => filing'[c].limited
  BY <1>1, InputsAssumption DEF Steady, TypeOK, Filing
<1>3. SteadyIsLimited'
  BY <1>1, <1>2 DEF SteadyIsLimited, Steady
<1>4. OneHolder' /\ \A d \in FilingCalls : Holds(d)' => d # c /\ Holds(d)
  BY <1>1 DEF OneHolder, Holds
<1>5. ReservedDaysStand'
  BY <1>1, <1>4, SpentUnchanged DEF ReservedDaysStand, Steady
<1>6. AllowanceStands'
  BY <1>1, <1>4, AllowanceUnchanged DEF AllowanceStands
<1>7. NeverOverdrawn'
  BY <1>1, SpentUnchanged, AllowanceUnchanged DEF NeverOverdrawn, Steady
<1> QED BY <1>3, <1>4, <1>5, <1>6, <1>7

LEMMA HoldQuota ==
  ASSUME QuotaInv, TypeOK', NEW c \in FilingCalls, HoldBalance(c)
  PROVE  QuotaInv'
<1> DEFINE slot == SlotOf(filing[c].asked)
<1> USE DEF QuotaInv
<1>1. filing[c] \in FilingCall /\ slot \in Slots /\ filing[c].working \in Nat
  BY FilingSlot DEF HoldBalance
<1>2. /\ UNCHANGED <<types, quotas, leaves, lowered>>
      /\ filing' = [filing EXCEPT ![c].step = "held", ![c].allowance = Allowance(slot)]
      /\ filing[c].working =< Allowance(slot) - Spent(slot)
      /\ filing[c].limited
  BY DEF HoldBalance
<1>3. /\ filing'[c].asked = filing[c].asked /\ filing'[c].working = filing[c].working
      /\ filing'[c].limited = filing[c].limited /\ filing'[c].allowance = Allowance(slot)
      /\ \A d \in FilingCalls \ {c} : filing'[d] = filing[d]
  BY <1>1, <1>2 DEF FilingCall, TypeOK
<1>4. SteadyIsLimited'
  BY <1>2, <1>3 DEF SteadyIsLimited, Steady
<1>5. \A d \in FilingCalls \ {c} :
         Holds(d)' => Holds(d) /\ filing[d].asked.user # filing[c].asked.user
  BY <1>3 DEF Holds, HoldBalance
<1>6. OneHolder'
  <2> SUFFICES ASSUME NEW d \in FilingCalls, NEW e \in FilingCalls, Holds(d)', Holds(e)',
                      filing'[d].asked.user = filing'[e].asked.user
               PROVE  d = e
    BY DEF OneHolder
  <2>1. CASE d = c \/ e = c
    BY <1>3, <1>5, <2>1
  <2>2. CASE d # c /\ e # c
    BY <1>3, <1>5, <2>2 DEF OneHolder
  <2> QED BY <2>1, <2>2
<1>7. ReservedDaysStand'
  <2>1. Allowance(slot) \in Nat /\ Spent(slot) \in Nat
    BY <1>1, AllowanceType, SpentType
  <2>2. Spent(slot) + filing[c].working =< Allowance(slot)
    BY <1>1, <1>2, <2>1
  <2>3. \A s : Spent(s)' = Spent(s)
    BY <1>2, SpentUnchanged
  <2> SUFFICES ASSUME NEW d \in FilingCalls, Holds(d)', Steady(filing'[d].asked.type),
                      NEW s, s = SlotOf(filing'[d].asked)
               PROVE  Spent(s)' + filing'[d].working =< filing'[d].allowance
    BY DEF ReservedDaysStand, Steady
  <2>4. CASE d = c
    BY <1>3, <2>2, <2>3, <2>4 DEF SlotOf
  <2>5. CASE d # c
    BY <1>3, <1>5, <2>3, <2>5 DEF ReservedDaysStand
  <2> QED BY <2>4, <2>5
<1>8. AllowanceStands'
  <2>1. Allowance(slot) \in Nat
    BY <1>1, AllowanceType
  <2>2. \A s : Allowance(s)' = Allowance(s)
    BY <1>2, AllowanceUnchanged
  <2> SUFFICES ASSUME NEW d \in FilingCalls, Holds(d)',
                      NEW s, s = SlotOf(filing'[d].asked), s \notin lowered
               PROVE  filing'[d].allowance =< Allowance(s)'
    BY <1>2 DEF AllowanceStands
  <2>3. CASE d = c
    BY <1>3, <2>1, <2>2, <2>3 DEF SlotOf
  <2>4. CASE d # c
    BY <1>3, <1>5, <2>2, <2>4 DEF AllowanceStands
  <2> QED BY <2>3, <2>4
<1>9. NeverOverdrawn'
  BY <1>2, SpentUnchanged, AllowanceUnchanged DEF NeverOverdrawn, Steady
<1> QED BY <1>4, <1>6, <1>7, <1>8, <1>9

LEMMA FilingFailsQuota ==
  ASSUME QuotaInv, TypeOK', NEW c \in FilingCalls, FilingFails(c)
  PROVE  QuotaInv'
<1> USE DEF QuotaInv
<1>1. /\ UNCHANGED <<types, quotas, leaves, lowered>>
      /\ filing'[c] = None
      /\ \A d \in FilingCalls \ {c} : filing'[d] = filing[d]
  BY DEF FilingFails, TypeOK
<1>2. SteadyIsLimited' /\ OneHolder'
  BY <1>1 DEF SteadyIsLimited, OneHolder, Holds, Steady
<1>3. \A d \in FilingCalls : Holds(d)' => d # c /\ Holds(d)
  BY <1>1 DEF Holds
<1>4. ReservedDaysStand' /\ AllowanceStands'
  BY <1>1, <1>3, SpentUnchanged, AllowanceUnchanged DEF ReservedDaysStand, AllowanceStands, Steady
<1>5. NeverOverdrawn'
  BY <1>1, SpentUnchanged, AllowanceUnchanged DEF NeverOverdrawn, Steady
<1> QED BY <1>2, <1>4, <1>5

(* Committing a request spends only what was reserved for it; no other call *)
(* holds a balance of the same person.                                      *)
LEMMA InsertQuota ==
  ASSUME QuotaInv, TypeOK', NEW c \in FilingCalls, InsertLeave(c)
  PROVE  QuotaInv'
<1> DEFINE own == SlotOf(filing[c].asked)
<1> USE DEF QuotaInv
<1>1. /\ UNCHANGED <<types, quotas, lowered>>
      /\ filing[c] # None /\ filing'[c] = None
      /\ \A d \in FilingCalls \ {c} : filing'[d] = filing[d]
      /\ filing[c].limited => Holds(c)
  BY DEF InsertLeave, TypeOK, Holds
<1>2. /\ own \in Slots /\ own[1] = filing[c].asked.user /\ own[2] = filing[c].asked.type
      /\ filing[c].working \in Nat /\ filing[c].allowance \in Int
  BY <1>1, FilingSlot
<1>3. Steady(own[2]) => Holds(c)
  BY <1>1, <1>2 DEF SteadyIsLimited
<1>4. SteadyIsLimited' /\ OneHolder' /\ \A d \in FilingCalls : Holds(d)' => d # c /\ Holds(d)
  BY <1>1 DEF SteadyIsLimited, OneHolder, Holds, Steady
<1>5. ReservedDaysStand'
  <2> SUFFICES ASSUME NEW d \in FilingCalls, d # c, Holds(d), Steady(filing[d].asked.type),
                      NEW slot, slot = SlotOf(filing[d].asked)
               PROVE  Spent(slot)' + filing[d].working =< filing[d].allowance
    BY <1>1, <1>4 DEF ReservedDaysStand, Steady
  <2>1. slot[1] = filing[d].asked.user /\ slot[2] = filing[d].asked.type
    BY FilingSlot DEF Holds
  <2>2. slot # own
    BY <1>2, <1>3, <2>1 DEF OneHolder
  <2>3. Spent(slot)' = Spent(slot)
    BY <2>2, SpentAfterInsert
  <2> QED BY <2>3 DEF ReservedDaysStand
<1>6. AllowanceStands'
  BY <1>1, <1>4, AllowanceUnchanged DEF AllowanceStands
<1>7. NeverOverdrawn'
  <2> SUFFICES ASSUME NEW slot \in Slots, Steady(slot[2]), slot \notin lowered
               PROVE  Spent(slot)' =< Allowance(slot)
    BY <1>1, AllowanceUnchanged DEF NeverOverdrawn, Steady
  <2>1. CASE slot # own
    BY <2>1, SpentAfterInsert DEF NeverOverdrawn
  <2>2. CASE slot = own
    <3>1. Holds(c)
      BY <1>3, <2>2
    <3>2. Spent(slot)' =< Spent(slot) + filing[c].working
      BY <2>2, SpentAfterInsert
    <3>3. Spent(slot) + filing[c].working =< filing[c].allowance
      BY <1>2, <2>2, <3>1 DEF ReservedDaysStand
    <3>4. filing[c].allowance =< Allowance(slot)
      BY <2>2, <3>1 DEF AllowanceStands
    <3>5. Spent(slot) \in Nat /\ Spent(slot)' \in Nat /\ Allowance(slot) \in Nat
      BY SpentType, AllowanceType
    <3> QED BY <1>2, <3>2, <3>3, <3>4, <3>5
  <2> QED BY <2>1, <2>2
<1> QED BY <1>4, <1>5, <1>6, <1>7

(* Settling only gives days back. *)
LEMMA SettleQuota ==
  ASSUME QuotaInv, TypeOK', NEW c \in SettleCalls, Settle(c)
  PROVE  QuotaInv'
<1> USE DEF QuotaInv
<1>1. UNCHANGED <<types, quotas, filing, lowered>>
  BY DEF Settle
<1>2. SteadyIsLimited' /\ OneHolder'
  BY <1>1 DEF SteadyIsLimited, OneHolder, Holds, Steady
<1>3. ReservedDaysStand'
  <2> SUFFICES ASSUME NEW d \in FilingCalls, Holds(d), Steady(filing[d].asked.type),
                      NEW slot, slot = SlotOf(filing[d].asked)
               PROVE  Spent(slot)' + filing[d].working =< filing[d].allowance
    BY <1>1 DEF ReservedDaysStand, Holds, Steady
  <2>1. Spent(slot)' =< Spent(slot)
    BY SpentAfterSettle
  <2>2. Spent(slot) + filing[d].working =< filing[d].allowance
    BY DEF ReservedDaysStand
  <2>3. Spent(slot) \in Nat /\ Spent(slot)' \in Nat
    BY SpentType
  <2>4. filing[d].working \in Nat /\ filing[d].allowance \in Int
    BY FilingSlot DEF Holds
  <2> QED BY <2>1, <2>2, <2>3, <2>4
<1>4. AllowanceStands'
  BY <1>1, AllowanceUnchanged DEF AllowanceStands, Holds
<1>5. NeverOverdrawn'
  <2> SUFFICES ASSUME NEW slot \in Slots, Steady(slot[2]), slot \notin lowered
               PROVE  Spent(slot)' =< Allowance(slot)
    BY <1>1, AllowanceUnchanged DEF NeverOverdrawn, Steady
  <2>1. Spent(slot)' =< Spent(slot) /\ Spent(slot) =< Allowance(slot)
    BY SpentAfterSettle DEF NeverOverdrawn
  <2>2. Spent(slot) \in Nat /\ Spent(slot)' \in Nat /\ Allowance(slot) \in Nat
    BY SpentType, AllowanceType
  <2> QED BY <2>1, <2>2
<1> QED BY <1>2, <1>3, <1>4, <1>5

LEMMA NextQuota == QuotaInv /\ [Next]_vars => QuotaInv'
<1> SUFFICES ASSUME QuotaInv, [Next]_vars PROVE QuotaInv'
  OBVIOUS
<1>1. TypeOK'
  BY NextType DEF QuotaInv
<1>2. ASSUME NEW c \in FilingCalls, FilingStep(c) PROVE QuotaInv'
  BY <1>1, <1>2, StartQuota, HoldQuota, InsertQuota, FilingFailsQuota DEF FilingStep
<1>3. ASSUME NEW c \in SettleCalls, SettleStep(c) PROVE QuotaInv'
  <2>1. CASE Settle(c)
    BY <1>1, <2>1, SettleQuota
  <2>2. CASE ~Settle(c)
    BY <1>1, <1>3, <2>2, OtherStepQuota DEF SettleStep, StartCancel, StartDecide, SettleFails
  <2> QED BY <2>1, <2>2
<1>4. ASSUME NEW c \in QuotaCalls, QuotaStep(c) PROVE QuotaInv'
  BY <1>1, <1>4, OtherStepQuota
     DEF QuotaStep, StartSetQuota, ReadQuota, WriteQuota, SetQuotaFails
<1>5. ASSUME NEW t \in Types, TypeStep(t) PROVE QuotaInv'
  <2>1. UNCHANGED <<leaves, filing>>
    BY <1>5 DEF TypeStep, CreateType, ReplaceType, DeleteType
  <2>2. CASE DeleteType(t)
    <3>1. \A s \in Slots : Allowance(s)' = Allowance(s)
      BY <2>2 DEF DeleteType, Allowance, Slots, QuotaInv, TypeOK
    <3>2. Lowers = {}
      BY <3>1, AllowanceType DEF Lowers, QuotaInv
    <3>3. lowered' = lowered \cup Lowers
      BY <2>2, <3>2 DEF DeleteType
    <3> QED BY <1>1, <2>1, <3>3, OtherStepQuota
  <2>3. CASE ~DeleteType(t)
    BY <1>1, <1>5, <2>1, <2>3, OtherStepQuota DEF TypeStep, CreateType, ReplaceType
  <2> QED BY <2>2, <2>3
<1>6. CASE Midnight
  BY <1>1, <1>6, OtherStepQuota DEF Midnight
<1>7. CASE UNCHANGED vars
  BY <1>1, <1>7, OtherStepQuota DEF vars
<1> QED BY <1>2, <1>3, <1>4, <1>5, <1>6, <1>7 DEF Next

LEMMA QuotaInvariant == Spec => []QuotaInv
  BY InitQuota, NextQuota, PTL DEF Spec

(* However many requests one person files at once, nobody is ever charged   *)
(* more days of a type with a yearly quota than they have, unless hr_admin  *)
(* took some away (service.go:100 under the lock of repository.go:241).     *)
THEOREM QuotaSafety == Spec => []NeverOverdrawn
  BY QuotaInvariant, PTL DEF QuotaInv

(* The balance a Request call was told stays good until it commits.         *)
THEOREM ReservationSafety == Spec => []ReservedDaysStand
  BY QuotaInvariant, PTL DEF QuotaInv

-----------------------------------------------------------------------------
(* SetQuota: the row a call locked stands until the call ends. *)

(* A call without a row in hand locks nothing. *)
LEMMA StartSetQuotaLocks ==
    ASSUME TypeOK, LockedQuotaStands, NEW c \in QuotaCalls, NEW q \in QuotaSettings,
           StartSetQuota(c, q)
    PROVE  LockedQuotaStands'
<1> SUFFICES ASSUME NEW d \in QuotaCalls, quoting'[d] # None, quoting'[d].before # None
             PROVE  quotas'[QuotaSlot(quoting'[d].asked)] = quoting'[d].before
  BY DEF LockedQuotaStands, QuotaSlot
<1>1. PICK call : call = [step |-> "checked", asked |-> q, before |-> None]
  OBVIOUS
<1>2. quoting' = [quoting EXCEPT ![c] = call] /\ quotas' = quotas
  BY <1>1 DEF StartSetQuota
<1>3. DOMAIN quoting = QuotaCalls /\ call.before = None
  BY <1>1 DEF TypeOK
<1>4. d # c /\ quoting'[d] = quoting[d]
  BY <1>2, <1>3
<1> QED BY <1>2, <1>4 DEF LockedQuotaStands

(* The row a call locks is the one that stands. *)
LEMMA ReadQuotaLocks ==
    ASSUME TypeOK, LockedQuotaStands, NEW c \in QuotaCalls, ReadQuota(c)
    PROVE  LockedQuotaStands'
<1> SUFFICES ASSUME NEW d \in QuotaCalls, quoting'[d] # None, quoting'[d].before # None
             PROVE  quotas'[QuotaSlot(quoting'[d].asked)] = quoting'[d].before
  BY DEF LockedQuotaStands, QuotaSlot
<1>1. quoting[c] \in QuotaCall /\ DOMAIN quoting = QuotaCalls /\ quotas' = quotas
  BY DEF TypeOK, ReadQuota
<1>2. PICK row : row = quotas[QuotaSlot(quoting[c].asked)]
  OBVIOUS
<1>3. quoting' = [quoting EXCEPT ![c].step = "read", ![c].before = row]
  BY <1>2 DEF ReadQuota
<1>4. quoting'[c].asked = quoting[c].asked /\ quoting'[c].before = row
  BY <1>1, <1>3 DEF QuotaCall
<1>5. CASE d = c
  BY <1>1, <1>2, <1>4, <1>5
<1>6. CASE d # c
  <2>1. quoting'[d] = quoting[d]
    BY <1>1, <1>3, <1>6
  <2> QED BY <1>1, <2>1 DEF LockedQuotaStands
<1> QED BY <1>5, <1>6

(* A call writes a row nobody else has locked, and lets its own go. *)
LEMMA WriteQuotaLocks ==
    ASSUME TypeOK, LockedQuotaStands, NEW c \in QuotaCalls, WriteQuota(c)
    PROVE  LockedQuotaStands'
<1> SUFFICES ASSUME NEW d \in QuotaCalls, quoting'[d] # None, quoting'[d].before # None
             PROVE  quotas'[QuotaSlot(quoting'[d].asked)] = quoting'[d].before
  BY DEF LockedQuotaStands, QuotaSlot
<1>1. DOMAIN quoting = QuotaCalls /\ quoting' = [quoting EXCEPT ![c] = None]
  BY DEF TypeOK, WriteQuota
<1>2. d # c /\ quoting'[d] = quoting[d]
  BY <1>1
<1>3. QuotaSlot(quoting[d].asked) # QuotaSlot(quoting[c].asked)
  BY <1>2 DEF WriteQuota, LocksQuota
<1>4. PICK row : quotas' = [quotas EXCEPT ![QuotaSlot(quoting[c].asked)] = row]
  BY DEF WriteQuota
<1>5. quotas'[QuotaSlot(quoting[d].asked)] = quotas[QuotaSlot(quoting[d].asked)]
  BY <1>3, <1>4
<1> QED BY <1>2, <1>5 DEF LockedQuotaStands

(* A call that fails writes nothing and lets its row go. *)
LEMMA SetQuotaFailsLocks ==
    ASSUME TypeOK, LockedQuotaStands, NEW c \in QuotaCalls, SetQuotaFails(c)
    PROVE  LockedQuotaStands'
<1> SUFFICES ASSUME NEW d \in QuotaCalls, quoting'[d] # None, quoting'[d].before # None
             PROVE  quotas'[QuotaSlot(quoting'[d].asked)] = quoting'[d].before
  BY DEF LockedQuotaStands, QuotaSlot
<1>1. DOMAIN quoting = QuotaCalls /\ quoting' = [quoting EXCEPT ![c] = None] /\ quotas' = quotas
  BY DEF TypeOK, SetQuotaFails
<1>2. d # c /\ quoting'[d] = quoting[d]
  BY <1>1
<1> QED BY <1>1, <1>2 DEF LockedQuotaStands

(* No other step touches the rows or the calls that lock them. *)
LEMMA NextLocks == TypeOK /\ LockedQuotaStands /\ [Next]_vars => LockedQuotaStands'
<1> SUFFICES ASSUME TypeOK, LockedQuotaStands, [Next]_vars PROVE LockedQuotaStands'
  OBVIOUS
<1>1. CASE \E c \in QuotaCalls : QuotaStep(c)
  BY <1>1, StartSetQuotaLocks, ReadQuotaLocks, WriteQuotaLocks, SetQuotaFailsLocks DEF QuotaStep
<1>2. CASE UNCHANGED <<quotas, quoting>>
  BY <1>2 DEF LockedQuotaStands, QuotaSlot
<1>3. \/ \E c \in QuotaCalls : QuotaStep(c)
      \/ UNCHANGED <<quotas, quoting>>
  <2>1. CASE \E c \in FilingCalls : FilingStep(c)
    BY <2>1 DEF FilingStep, StartFiling, HoldBalance, InsertLeave, FilingFails
  <2>2. CASE \E c \in SettleCalls : SettleStep(c)
    BY <2>2 DEF SettleStep, StartCancel, StartDecide, Settle, SettleFails
  <2>3. CASE \E t \in Types : TypeStep(t)
    BY <2>3 DEF TypeStep, CreateType, ReplaceType, DeleteType
  <2>4. CASE Midnight \/ UNCHANGED vars
    BY <2>4 DEF Midnight, vars
  <2> QED BY <2>1, <2>2, <2>3, <2>4 DEF Next
<1> QED BY <1>1, <1>2, <1>3

(* The row a SetQuota call locked is the one it read until it writes,       *)
(* whoever else sets the same person's quota: its audit entry tells what    *)
(* was replaced (Repository.UpsertBalance).                                 *)
THEOREM LockedQuotaSafety == Spec => []LockedQuotaStands
<1>1. Init => LockedQuotaStands
  BY DEF Init, LockedQuotaStands
<1> QED BY <1>1, NextLocks, TypeCorrect, PTL DEF Spec

(* So a SetQuota that names no carried-over days keeps those of the row it  *)
(* found.  One that found no row locked nothing, and two of those lose each *)
(* other's: KeepsCarriedOver says more and fails.                           *)
THEOREM FoundDaysAreKept ==
    Spec => [][\A c \in QuotaCalls :
                 WriteQuota(c) /\ quoting[c].before # None /\ quoting[c].asked.carried = None =>
                    LET slot == QuotaSlot(quoting[c].asked)
                    IN  quotas[slot] # None /\ quotas'[slot].carried = quotas[slot].carried]_vars
<1> DEFINE Kept(c) ==
        WriteQuota(c) /\ quoting[c].before # None /\ quoting[c].asked.carried = None =>
           LET slot == QuotaSlot(quoting[c].asked)
           IN  quotas[slot] # None /\ quotas'[slot].carried = quotas[slot].carried
<1>1. ASSUME TypeOK, LockedQuotaStands, NEW c \in QuotaCalls
      PROVE  Kept(c)
  <2> SUFFICES ASSUME WriteQuota(c), quoting[c].before # None, quoting[c].asked.carried = None
               PROVE  LET slot == QuotaSlot(quoting[c].asked)
                      IN  quotas[slot] # None /\ quotas'[slot].carried = quotas[slot].carried
    OBVIOUS
  <2> DEFINE slot == QuotaSlot(quoting[c].asked)
  <2>1. quotas[slot] = quoting[c].before
    BY <1>1 DEF WriteQuota, LockedQuotaStands
  <2>2. slot \in Slots /\ DOMAIN quotas = Slots
    BY <1>1 DEF WriteQuota, TypeOK, QuotaCall, QuotaSetting, QuotaSlot, Slots
  <2>3. PICK row : row = [quota |-> quoting[c].asked.quota, carried |-> quoting[c].before.carried]
    OBVIOUS
  <2>4. quotas' = [quotas EXCEPT ![slot] = row]
    BY <2>3 DEF WriteQuota
  <2>5. quotas'[slot].carried = quoting[c].before.carried
    BY <2>2, <2>3, <2>4
  <2> QED BY <2>1, <2>5
<1>2. TypeOK /\ LockedQuotaStands => \A c \in QuotaCalls : Kept(c)
  BY <1>1
<1> QED BY <1>2, LockedQuotaSafety, TypeCorrect, PTL DEF Spec

-----------------------------------------------------------------------------
(* What becomes of a request. *)

(* Rows are only appended and settled: who filed a row never changes. *)
LEMMA OwnersStay ==
  ASSUME TypeOK, [Next]_vars
  PROVE  /\ DOMAIN leaves \subseteq DOMAIN leaves'
         /\ \A i \in DOMAIN leaves : leaves'[i].user = leaves[i].user
<1>1. ASSUME NEW c \in FilingCalls, InsertLeave(c)
      PROVE  /\ DOMAIN leaves \subseteq DOMAIN leaves'
             /\ \A i \in DOMAIN leaves : leaves'[i].user = leaves[i].user
  BY <1>1 DEF InsertLeave, TypeOK
<1>2. ASSUME NEW c \in SettleCalls, Settle(c)
      PROVE  /\ DOMAIN leaves \subseteq DOMAIN leaves'
             /\ \A i \in DOMAIN leaves : leaves'[i].user = leaves[i].user
  BY <1>2 DEF Settle, TypeOK, Leave
<1>3. \/ \E c \in FilingCalls : InsertLeave(c)
      \/ \E c \in SettleCalls : Settle(c)
      \/ UNCHANGED leaves
  BY DEF Next, vars, FilingStep, StartFiling, HoldBalance, FilingFails, SettleStep,
         StartCancel, StartDecide, SettleFails, QuotaStep, StartSetQuota, ReadQuota,
         WriteQuota, SetQuotaFails, TypeStep, CreateType, ReplaceType, DeleteType, Midnight
<1> QED BY <1>1, <1>2, <1>3

(* A call in settling was just started, or was there before. *)
LEMMA SettlingSteps ==
  ASSUME TypeOK, [Next]_vars, NEW c \in SettleCalls, settling'[c] # None
  PROVE  \/ settling'[c] = settling[c]
         \/ \E by \in Users, i \in DOMAIN leaves : StartCancel(c, by, i)
         \/ \E by \in Users, i \in DOMAIN leaves, to \in {"approved", "rejected"} :
              StartDecide(c, by, i, to)
<1>1. ASSUME NEW d \in SettleCalls, SettleStep(d), d # c
      PROVE  settling'[c] = settling[c]
  BY <1>1 DEF SettleStep, StartCancel, StartDecide, Settle, SettleFails, TypeOK
<1>2. CASE SettleStep(c)
  BY <1>2 DEF SettleStep, Settle, SettleFails, TypeOK
<1>3. CASE UNCHANGED settling
  BY <1>3
<1>4. (\E d \in SettleCalls : SettleStep(d)) \/ UNCHANGED settling
  BY DEF Next, vars, FilingStep, StartFiling, HoldBalance, InsertLeave, FilingFails, QuotaStep,
         StartSetQuota, ReadQuota, WriteQuota, SetQuotaFails, TypeStep, CreateType,
         ReplaceType, DeleteType, Midnight
<1> QED BY <1>1, <1>2, <1>3, <1>4

LEMMA SettleInvariant == Spec => []SettleInv
<1>1. Init => SettleInv
  BY InitType DEF Init, SettleInv, CancelChecked, DecideChecked
<1>2. SettleInv /\ [Next]_vars => SettleInv'
  <2> SUFFICES ASSUME SettleInv, [Next]_vars PROVE SettleInv'
    OBVIOUS
  <2> USE DEF SettleInv
  <2>1. TypeOK'
    BY NextType
  <2>2. ASSUME NEW c \in SettleCalls, settling'[c] # None
        PROVE  LET s == settling'[c]
               IN  /\ s.to = "cancelled" /\ s.from = "approved" /\ leaves'[s.id].user = s.by
                        => ~s.started
                   /\ s.to # "cancelled" => s.from = "pending" /\ leaves'[s.id].user # s.by
    <3>1. CASE settling'[c] = settling[c]
      <4>1. settling[c].id \in DOMAIN leaves
        BY <2>2, <3>1 DEF TypeOK
      <4> QED BY <2>2, <3>1, <4>1, OwnersStay DEF CancelChecked, DecideChecked
    <3>2. ASSUME NEW by \in Users, NEW i \in DOMAIN leaves, StartCancel(c, by, i)
          PROVE  /\ settling'[c].to = "cancelled"
                 /\ settling'[c].from = "approved" /\ leaves'[settling'[c].id].user = settling'[c].by
                        => ~settling'[c].started
      <4>1. /\ settling'[c] = [id |-> i, from |-> leaves[i].status, to |-> "cancelled", by |-> by,
                               started |-> leaves[i].start =< today]
            /\ leaves[i].status = "approved" /\ leaves[i].user = by => leaves[i].start > today
            /\ UNCHANGED leaves
        BY <3>2 DEF StartCancel, TypeOK
      <4>2. leaves[i].start \in Int /\ today \in Int
        <5>1. leaves[i] \in Leave /\ Days \subseteq Int
          BY CalendarAssumption DEF TypeOK, Days
        <5> QED BY <5>1 DEF TypeOK, Leave
      <4>3. leaves[i].start > today => ~(leaves[i].start =< today)
        BY <4>2
      <4>4. settling'[c].from = "approved" /\ leaves'[settling'[c].id].user = settling'[c].by
              => leaves[i].start > today
        BY <4>1
      <4>5. settling'[c].to = "cancelled" /\ settling'[c].started = (leaves[i].start =< today)
        BY <4>1
      <4> QED BY <4>3, <4>4, <4>5, Zenon
    <3>3. ASSUME NEW by \in Users, NEW i \in DOMAIN leaves,
                 NEW to \in {"approved", "rejected"}, StartDecide(c, by, i, to)
          PROVE  /\ settling'[c].to # "cancelled" /\ settling'[c].from = "pending"
                 /\ leaves'[settling'[c].id].user # settling'[c].by
      BY <3>3 DEF StartDecide, TypeOK
    <3> QED BY <2>2, <3>1, <3>2, <3>3, SettlingSteps
  <2> QED BY <2>1, <2>2 DEF CancelChecked, DecideChecked
<1> QED BY <1>1, <1>2, PTL DEF Spec

(* An owner never takes back approved leave that had started when they      *)
(* asked (service.go:152, settled by repository.go:296).                    *)
THEOREM OwnerCannotReclaim == Spec => OwnerNeverReclaims
<1> DEFINE Honest(c) ==
      Settle(c) /\ settling[c].to = "cancelled" =>
         LET row == leaves[settling[c].id]
         IN  row.user = settling[c].by /\ row.status = "approved" => ~settling[c].started
<1>1. SettleInv => \A c \in SettleCalls : Honest(c)
  BY DEF SettleInv, CancelChecked, Settle
<1>2. SettleInv /\ [Next]_vars => [\A c \in SettleCalls : Honest(c)]_vars
  BY <1>1
<1> QED BY <1>2, SettleInvariant, PTL DEF Spec, OwnerNeverReclaims

(* The rows of leave_requests, seen as requests somebody decides, move as   *)
(* ApprovalFlow says they may.                                              *)
LEMMA FiledRow ==
  ASSUME TypeOK
  PROVE  /\ DOMAIN leaves \subseteq 1..MaxLeaves
         /\ \A i \in DOMAIN leaves : Filed[i] # None
  <1>1. DOMAIN leaves \subseteq 1..MaxLeaves
    BY CalendarAssumption DEF TypeOK
  <1>2. \A i \in DOMAIN leaves :
          [owner |-> leaves[i].user, status |-> leaves[i].status, reviewer |-> leaves[i].reviewer]
            \in [owner : Users, status : Statuses, reviewer : Users \cup {None}]
    <2>1. \A i \in DOMAIN leaves : leaves[i] \in Leave
      BY DEF TypeOK
    <2> QED BY <2>1 DEF Leave
  <1> QED BY <1>1, <1>2, NoneAssumption DEF Filed

LEMMA InsertFlows ==
  ASSUME SettleInv, NEW c \in FilingCalls, InsertLeave(c)
  PROVE  Flow!Next
<1> DEFINE n == Len(leaves) + 1
           f == filing[c].asked
           row == [user |-> f.user, type |-> f.type, start |-> f.start, end |-> f.end,
                   working |-> filing[c].working, key |-> f.key,
                   status |-> IF filing[c].auto THEN "approved" ELSE "pending",
                   reviewer |-> None, withdrawer |-> None]
<1>1. TypeOK /\ filing[c] \in FilingCall /\ leaves \in Seq(Leave)
  BY NoneAssumption DEF SettleInv, TypeOK, InsertLeave
<1>2. row \in Leave /\ row.user \in Users /\ row.status \in {"pending", "approved"}
      /\ row.reviewer = None
  BY <1>1 DEF FilingCall, Filing, Leave, Statuses
<1>3. leaves' = Append(leaves, row) /\ Len(leaves) < MaxLeaves
  BY DEF InsertLeave
<1> HIDE DEF row
<1>4. /\ DOMAIN leaves' = DOMAIN leaves \cup {n} /\ leaves'[n] = row /\ n \notin DOMAIN leaves
      /\ \A i \in DOMAIN leaves : leaves'[i] = leaves[i]
  BY <1>1, <1>2, <1>3, AppendLeave
<1>5. n \in 1..MaxLeaves
  BY <1>1, <1>3, CalendarAssumption
<1>6. Filed[n] = None
  BY <1>4, <1>5 DEF Filed
<1>7. Filed' = [Filed EXCEPT ![n] = [owner |-> row.user, status |-> row.status, reviewer |-> None]]
  BY <1>2, <1>4, <1>5 DEF Filed
<1>8. Flow!File(n)
  BY <1>2, <1>6, <1>7 DEF Flow!File
<1> QED BY <1>5, <1>8 DEF Flow!Next

LEMMA SettleFlows ==
  ASSUME SettleInv, NEW c \in SettleCalls, Settle(c)
  PROVE  Flow!Next
<1> DEFINE s == settling[c]
<1>1. TypeOK /\ s \in SettleCall /\ s.id \in DOMAIN leaves /\ leaves[s.id].status = s.from
  BY NoneAssumption DEF SettleInv, TypeOK, Settle
<1>2. s.id \in 1..MaxLeaves /\ Filed[s.id] # None
  BY <1>1, FiledRow
<1>3. Filed[s.id] = [owner |-> leaves[s.id].user, status |-> s.from, reviewer |-> leaves[s.id].reviewer]
  BY <1>1, <1>2 DEF Filed
<1>4. leaves[s.id] \in Leave /\ s.to \in Statuses /\ s.by \in Users
      /\ s.from \in {"pending", "approved"} /\ s.to \in {"approved", "rejected", "cancelled"}
  BY <1>1 DEF TypeOK, SettleCall, Statuses
<1>5. CASE s.to = "cancelled"
  <2>1. /\ DOMAIN leaves' = DOMAIN leaves
        /\ \A i \in DOMAIN leaves : i # s.id => leaves'[i] = leaves[i]
        /\ leaves'[s.id].user = leaves[s.id].user /\ leaves'[s.id].status = "cancelled"
        /\ leaves'[s.id].reviewer = leaves[s.id].reviewer
    BY <1>1, <1>4, <1>5 DEF Settle, TypeOK, Leave
  <2>2. Filed' = [Filed EXCEPT ![s.id].status = "cancelled"]
    BY <1>2, <1>3, <2>1 DEF Filed
  <2>3. Flow!Withdraw(s.id)
    BY <1>2, <1>3, <1>4, <2>2 DEF Flow!Withdraw
  <2> QED BY <1>2, <2>3 DEF Flow!Next
<1>6. CASE s.to # "cancelled"
  <2>1. /\ DOMAIN leaves' = DOMAIN leaves
        /\ \A i \in DOMAIN leaves : i # s.id => leaves'[i] = leaves[i]
        /\ leaves'[s.id].user = leaves[s.id].user /\ leaves'[s.id].status = s.to
        /\ leaves'[s.id].reviewer = s.by
    BY <1>1, <1>4, <1>6 DEF Settle, TypeOK, Leave
  <2>2. Filed' = [Filed EXCEPT ![s.id].status = s.to, ![s.id].reviewer = s.by]
    BY <1>2, <1>3, <2>1 DEF Filed
  <2>3. s.from = "pending" /\ leaves[s.id].user # s.by
    BY <1>1, <1>6, NoneAssumption DEF SettleInv, DecideChecked, Settle
  <2>4. Filed[s.id].status = "pending" /\ s.by \in Users \ {Filed[s.id].owner}
        /\ s.to \in {"approved", "rejected"}
    BY <1>3, <1>4, <1>6, <2>3
  <2>5. Flow!Decide(s.id)
    BY <1>2, <2>2, <2>4 DEF Flow!Decide
  <2> QED BY <1>2, <2>5 DEF Flow!Next
<1> QED BY <1>5, <1>6

(* The leave module implements the approval flow: whatever calls run        *)
(* together, a request is decided once, by someone else, out of pending,    *)
(* and withdrawn only out of pending or approved.                           *)
THEOREM LeaveImplementsFlow == Spec => FlowSpec
<1>1. Init => Flow!Init
  BY DEF Init, Flow!Init, Filed
<1>2. SettleInv /\ [Next]_vars => [Flow!Next]_Filed
  <2> SUFFICES ASSUME SettleInv, [Next]_vars PROVE Flow!Next \/ UNCHANGED Filed
    OBVIOUS
  <2>1. \/ \E c \in FilingCalls : InsertLeave(c)
        \/ \E c \in SettleCalls : Settle(c)
        \/ UNCHANGED leaves
    BY DEF Next, vars, FilingStep, StartFiling, HoldBalance, FilingFails, SettleStep,
           StartCancel, StartDecide, SettleFails, QuotaStep, StartSetQuota, ReadQuota,
           WriteQuota, SetQuotaFails, TypeStep, CreateType, ReplaceType, DeleteType, Midnight
  <2>2. CASE UNCHANGED leaves
    BY <2>2 DEF Filed
  <2> QED BY <2>1, <2>2, InsertFlows, SettleFlows
<1> QED BY <1>1, <1>2, SettleInvariant, PTL DEF Spec, FlowSpec, Flow!Spec

=============================================================================
