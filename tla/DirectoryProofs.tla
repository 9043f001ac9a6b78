-------------------------- MODULE DirectoryProofs --------------------------
(* Proofs about Directory, for any accounts, requests and numbers of concurrent calls: the types, the audit
   log of roles, and the hierarchy, which stays a forest of live accounts from one that is. *)
EXTENDS Directory, TLAPS

-----------------------------------------------------------------------------
(* The hierarchy as a function of a table, so that what is shown of it speaks of the table before a step
   and of the one after. *)
LiveIn(t, u) == t[u] # None /\ ~t[u].removed

ChildrenIn(t, m) == {u \in Users : LiveIn(t, u) /\ t[u].manager = m}

Closed(t, m, S) == ChildrenIn(t, m) \subseteq S /\ (\A v \in S : ChildrenIn(t, v) \subseteq S)

BelowIn(t, m) == {u \in Users : \A S \in SUBSET Users : Closed(t, m, S) => u \in S}

Forest(t) ==
    /\ \A u \in Users : u \notin BelowIn(t, u)
    /\ \A u \in Users : LiveIn(t, u) /\ t[u].manager # None => LiveIn(t, t[u].manager)

Rows == [Users -> Account \cup {None}]

LEMMA BelowIsClosed ==
    ASSUME NEW t, NEW m
    PROVE  BelowIn(t, m) \subseteq Users /\ Closed(t, m, BelowIn(t, m))
BY DEF BelowIn, Closed, ChildrenIn

LEMMA BelowIsLeast ==
    ASSUME NEW t, NEW m, NEW S \in SUBSET Users, Closed(t, m, S)
    PROVE  BelowIn(t, m) \subseteq S
BY DEF BelowIn

(* Whoever is below somebody below m is below m. *)
LEMMA BelowIsTransitive ==
    ASSUME NEW t, NEW m, NEW u, u \in BelowIn(t, m)
    PROVE  BelowIn(t, u) \subseteq BelowIn(t, m)
BY BelowIsClosed, BelowIsLeast DEF Closed

(* What was checked in a table with the same live accounts and managers holds in the other. *)
LEMMA SameHierarchy ==
    ASSUME NEW t, NEW s,
           \A u \in Users : LiveIn(s, u) <=> LiveIn(t, u),
           \A u \in Users : LiveIn(t, u) => s[u].manager = t[u].manager
    PROVE  /\ \A m : BelowIn(s, m) = BelowIn(t, m)
           /\ t \in Rows /\ Forest(t) => Forest(s)
<1>1. \A m : ChildrenIn(s, m) = ChildrenIn(t, m)
  BY DEF ChildrenIn
<1>2. \A m : BelowIn(s, m) = BelowIn(t, m)
  BY <1>1 DEF BelowIn, Closed
<1>3. ASSUME t \in Rows, Forest(t), NEW u \in Users, LiveIn(s, u), s[u].manager # None
      PROVE  LiveIn(s, s[u].manager)
  <2>1. s[u].manager = t[u].manager /\ LiveIn(t, t[u].manager)
    BY <1>3 DEF Forest
  <2>2. t[u].manager \in Users
    BY <1>3, <2>1 DEF LiveIn, Rows, Account
  <2> QED
    BY <2>1, <2>2
<1> QED
  BY <1>2, <1>3 DEF Forest

(* Moving id under a live m that is not below id leaves a forest, and changes who is below whom for
   nobody but those id left or joined. *)
LEMMA MovedStaysForest ==
    ASSUME NEW t \in Rows, NEW s \in Rows, Forest(t), NEW id \in Users, NEW m \in Users \cup {None},
           \A u \in Users : LiveIn(s, u) <=> LiveIn(t, u),
           \A u \in Users : u # id /\ LiveIn(t, u) => s[u].manager = t[u].manager,
           LiveIn(t, id), s[id].manager = m,
           m # None => LiveIn(t, m) /\ m # id /\ m \notin BelowIn(t, id)
    PROVE  Forest(s)
<1> DEFINE D == BelowIn(t, id) \cup {id}
<1>1. \A v \in Users : /\ ChildrenIn(s, v) \subseteq ChildrenIn(t, v) \cup {id}
                       /\ v # m => ChildrenIn(s, v) \subseteq ChildrenIn(t, v)
  BY DEF ChildrenIn
<1>2. D \subseteq Users /\ (m # None => m \notin D)
  BY BelowIsClosed
<1>3. ASSUME NEW u \in Users
      PROVE  u \notin BelowIn(s, u)
  <2>1. u \notin BelowIn(t, u) /\ Closed(t, u, BelowIn(t, u)) /\ BelowIn(t, u) \subseteq Users
    BY BelowIsClosed DEF Forest
  <2>2. CASE u \in D
    <3>1. BelowIn(t, u) \subseteq D
      BY <2>2, BelowIsTransitive
    <3>2. \A v \in BelowIn(t, u) \cup {u} : v # m
      BY <1>2, <2>1, <2>2, <3>1, NoneAssumption
    <3>3. Closed(s, u, BelowIn(t, u))
      BY <1>1, <2>1, <3>2 DEF Closed
    <3> QED
      BY <2>1, <3>3, BelowIsLeast
  <2>3. CASE u \notin D
    <3>1. Closed(t, id, BelowIn(t, id)) /\ BelowIn(t, id) \subseteq Users
      BY BelowIsClosed
    <3>2. Closed(s, u, BelowIn(t, u) \cup D)
      BY <1>1, <2>1, <3>1 DEF Closed
    <3>3. BelowIn(s, u) \subseteq BelowIn(t, u) \cup D
      BY <2>1, <3>1, <3>2, BelowIsLeast
    <3> QED
      BY <2>1, <2>3, <3>3
  <2> QED
    BY <2>2, <2>3
<1>4. ASSUME NEW u \in Users, LiveIn(s, u), s[u].manager # None
      PROVE  LiveIn(s, s[u].manager)
  <2>1. CASE u = id
    BY <1>4, <2>1
  <2>2. CASE u # id
    <3>1. LiveIn(t, u) /\ s[u].manager = t[u].manager /\ LiveIn(t, t[u].manager)
      BY <1>4, <2>2 DEF Forest
    <3>2. t[u].manager \in Users
      BY <1>4, <3>1 DEF LiveIn, Rows, Account
    <3> QED
      BY <3>1, <3>2
  <2> QED
    BY <2>1, <2>2
<1> QED
  BY <1>3, <1>4 DEF Forest

(* Somebody new, whom nobody reports to, below a live m: a leaf. *)
LEMMA NewcomerStaysForest ==
    ASSUME NEW t \in Rows, NEW s \in Rows, Forest(t), NEW id \in Users, NEW m \in Users \cup {None},
           \A u \in Users \ {id} : s[u] = t[u],
           t[id] = None, LiveIn(s, id), s[id].manager = m,
           m # None => LiveIn(t, m)
    PROVE  /\ Forest(s)
           /\ \A u \in Users : BelowIn(s, u) \subseteq BelowIn(t, u) \cup {id}
<1>1. ChildrenIn(t, id) = {}
  <2>1. ASSUME NEW u \in Users, LiveIn(t, u), t[u].manager = id
        PROVE  FALSE
    BY <2>1, NoneAssumption DEF Forest, LiveIn
  <2> QED
    BY <2>1 DEF ChildrenIn
<1>2. ~LiveIn(t, id) /\ id # m
  BY NoneAssumption DEF LiveIn
<1>3. \A v \in Users : /\ ChildrenIn(s, v) \subseteq ChildrenIn(t, v) \cup {id}
                       /\ v # m => ChildrenIn(s, v) \subseteq ChildrenIn(t, v)
  BY DEF ChildrenIn, LiveIn
<1>4. \A u \in Users : BelowIn(s, u) \subseteq BelowIn(t, u) \cup {id}
  <2> TAKE u \in Users
  <2>1. Closed(t, u, BelowIn(t, u)) /\ BelowIn(t, u) \subseteq Users
    BY BelowIsClosed
  <2>2. Closed(s, u, BelowIn(t, u) \cup {id})
    BY <1>1, <1>2, <1>3, <2>1 DEF Closed
  <2> QED
    BY <2>1, <2>2, BelowIsLeast
<1>5. ASSUME NEW u \in Users
      PROVE  u \notin BelowIn(s, u)
  <2>1. CASE u # id
    BY <1>4, <2>1 DEF Forest
  <2>2. CASE u = id
    <3>1. Closed(s, id, {})
      BY <1>1, <1>2, <1>3 DEF Closed
    <3> QED
      BY <2>2, <3>1, BelowIsLeast
  <2> QED
    BY <2>1, <2>2
<1>6. ASSUME NEW u \in Users, LiveIn(s, u), s[u].manager # None
      PROVE  LiveIn(s, s[u].manager)
  <2>1. CASE u = id
    BY <1>2, <1>6, <2>1 DEF LiveIn
  <2>2. CASE u # id
    <3>1. LiveIn(t, u) /\ s[u].manager = t[u].manager /\ LiveIn(t, t[u].manager)
      BY <1>6, <2>2 DEF Forest, LiveIn
    <3>2. t[u].manager \in Users
      BY <1>6, <3>1 DEF LiveIn, Rows, Account
    <3> QED
      BY <1>2, <3>1, <3>2 DEF LiveIn
  <2> QED
    BY <2>1, <2>2
<1> QED
  BY <1>4, <1>5, <1>6 DEF Forest

(* Removing r, whose reports move up to r's manager, leaves a forest, and everyone else above and below
   the ones they were. *)
LEMMA RemovedStaysForest ==
    ASSUME NEW t \in Rows, NEW s \in Rows, Forest(t), NEW r \in Users, LiveIn(t, r),
           \A u \in Users : LiveIn(s, u) <=> LiveIn(t, u) /\ u # r,
           \A u \in Users : u # r /\ LiveIn(t, u) =>
               s[u].manager = IF t[u].manager = r THEN t[r].manager ELSE t[u].manager
    PROVE  /\ Forest(s)
           /\ \A u \in Users : u # r => BelowIn(s, u) = BelowIn(t, u) \ {r}
<1> DEFINE p == t[r].manager
<1>1. p # r /\ p \in Users \cup {None}
  <2>1. r \notin BelowIn(t, r) /\ ChildrenIn(t, r) \subseteq BelowIn(t, r)
    BY BelowIsClosed DEF Forest, Closed
  <2> QED
    BY <2>1 DEF ChildrenIn, LiveIn, Rows, Account
<1> HIDE DEF p
<1>2. \A v \in Users : /\ ChildrenIn(s, v) \subseteq (ChildrenIn(t, v) \cup ChildrenIn(t, r)) \ {r}
                       /\ v # p => ChildrenIn(s, v) \subseteq ChildrenIn(t, v) \ {r}
                       /\ v # r => ChildrenIn(t, v) \ {r} \subseteq ChildrenIn(s, v)
                       /\ v = p => r \in ChildrenIn(t, v) /\ ChildrenIn(t, r) \subseteq ChildrenIn(s, v)
                       /\ r \in ChildrenIn(t, v) => v = p
  BY <1>1 DEF ChildrenIn, p
<1>3. ASSUME NEW u \in Users
      PROVE  BelowIn(s, u) \subseteq BelowIn(t, u) \ {r}
  <2> DEFINE B == BelowIn(t, u)
  <2>1. Closed(t, u, B) /\ B \subseteq Users
    BY BelowIsClosed
  <2> HIDE DEF B
  <2>2. ASSUME NEW v \in B \cup {u}
        PROVE  ChildrenIn(s, v) \subseteq B \ {r}
    <3>1. v \in Users /\ ChildrenIn(t, v) \subseteq B
      BY <2>1, <2>2 DEF Closed
    <3>2. CASE v = p
      <4>1. r \in B /\ ChildrenIn(t, r) \subseteq B
        BY <1>2, <2>1, <3>1, <3>2 DEF Closed
      <4> QED
        BY <1>2, <3>1, <4>1
    <3>3. CASE v # p
      BY <1>2, <3>1, <3>3
    <3> QED
      BY <3>2, <3>3
  <2>3. Closed(s, u, B \ {r})
    BY <2>2 DEF Closed
  <2> QED
    BY <2>1, <2>3, BelowIsLeast DEF B
<1>4. ASSUME NEW u \in Users, u # r
      PROVE  BelowIn(t, u) \ {r} \subseteq BelowIn(s, u)
  <2> DEFINE S == BelowIn(s, u)
             T == IF p \in S \cup {u} THEN S \cup {r} ELSE S
  <2>1. Closed(s, u, S) /\ S \subseteq Users
    BY BelowIsClosed
  <2>2. r \notin S
    BY <1>3
  <2> HIDE DEF S
  <2>3. ASSUME NEW v \in S \cup {u}
        PROVE  ChildrenIn(t, v) \subseteq T
    <3>1. v \in Users /\ v # r /\ ChildrenIn(s, v) \subseteq S
      BY <1>4, <2>1, <2>2, <2>3 DEF Closed
    <3>2. ChildrenIn(t, v) \ {r} \subseteq S
      BY <1>2, <3>1
    <3>3. r \in ChildrenIn(t, v) => r \in T
      BY <1>2, <3>1
    <3> QED
      BY <3>2, <3>3
  <2>4. r \in T => ChildrenIn(t, r) \subseteq T
    <3>1. SUFFICES ASSUME p \in S \cup {u}
                   PROVE  ChildrenIn(t, r) \subseteq S
      BY <2>2
    <3>2. p \in Users /\ ChildrenIn(s, p) \subseteq S
      BY <2>1, <3>1 DEF Closed
    <3> QED
      BY <1>2, <3>2
  <2>5. Closed(t, u, T) /\ T \in SUBSET Users
    BY <2>1, <2>3, <2>4 DEF Closed
  <2>6. BelowIn(t, u) \subseteq T
    BY <2>5, BelowIsLeast
  <2> QED
    BY <2>6 DEF S
<1>5. \A u \in Users : u \notin BelowIn(s, u)
  BY <1>3 DEF Forest
<1>6. ASSUME NEW u \in Users, LiveIn(s, u), s[u].manager # None
      PROVE  LiveIn(s, s[u].manager)
  <2>1. LiveIn(t, u) /\ u # r /\ t[u].manager \in Users \cup {None}
    BY <1>6 DEF LiveIn, Rows, Account
  <2>2. CASE t[u].manager = r
    BY <1>1, <1>6, <2>1, <2>2 DEF Forest, p
  <2>3. CASE t[u].manager # r
    BY <1>6, <2>1, <2>3 DEF Forest
  <2> QED
    BY <2>2, <2>3
<1> QED
  BY <1>3, <1>4, <1>5, <1>6 DEF Forest

-----------------------------------------------------------------------------
(* Types. *)

LEMMA InitTypes == Init => TypeOK
<1>1. <<>> \in Seq(Entry) /\ Len(<<>>) =< MaxAudit
  BY InputsAssumption
<1> QED
  BY <1>1, StaffAssumption DEF Init, TypeOK

(* An entry of the right shape keeps the log well typed and within its bound. *)
LEMMA AuditedTypes ==
    ASSUME TypeOK, NEW by \in Users, NEW action \in {"role_changed", "deactivated", "deleted"}, NEW id \in Users,
           NEW from \in Roles \cup {None}, NEW to \in Roles \cup {None}, Audited(by, action, id, from, to)
    PROVE  audit' \in Seq(Entry) /\ Len(audit') =< MaxAudit
<1>1. [by |-> by, action |-> action, id |-> id, from |-> from, to |-> to] \in Entry
  BY DEF Entry
<1> QED
  BY <1>1, InputsAssumption DEF Audited, TypeOK

(* Marking checks as outdated keeps what they are of. *)
LEMMA OutdatedTypes ==
    ASSUME TypeOK
    PROVE  /\ Outdated \in [WriteCalls -> Write \cup {None}]
           /\ \A c \in WriteCalls : /\ writing[c] = None => Outdated[c] = None
                                    /\ writing[c] # None =>
                                           /\ Outdated[c] \in Write
                                           /\ Outdated[c] = [writing[c] EXCEPT !.stale = TRUE]
<1>1. ASSUME NEW c \in WriteCalls, writing[c] # None
      PROVE  [writing[c] EXCEPT !.stale = TRUE] \in Write
  <2>1. writing[c] \in Write
    BY <1>1 DEF TypeOK
  <2> QED
    BY <2>1 DEF Write
<1> QED
  BY <1>1 DEF Outdated

LEMMA WriteTypes ==
    ASSUME TypeOK, NEW c \in WriteCalls, WriteStep(c)
    PROVE  TypeOK'
<1> USE NoneAssumption
<1>1. CASE \E claim \in claims, n \in Newcomers : StartCreate(c, claim, n[1], n[2])
  <2>1. PICK claim \in claims, n \in Newcomers : StartCreate(c, claim, n[1], n[2])
    BY <1>1
  <2>2. n[1] \in Users /\ n[2] \in Users \cup {None} /\ claim.id \in Users
    BY InputsAssumption DEF TypeOK, Claims
  <2>3. [step |-> IF n[2] = None THEN "write" ELSE "exists", new |-> TRUE, by |-> claim.id, id |-> n[1],
         manager |-> n[2], active |-> TRUE, wasActive |-> FALSE, stale |-> FALSE] \in Write
    BY <2>2 DEF Write
  <2> QED
    BY <2>1, <2>3 DEF StartCreate, TypeOK
<1>2. CASE \E claim \in claims, e \in Edits : StartReplace(c, claim, e[1], e[2], e[3])
  <2>1. PICK claim \in claims, e \in Edits : StartReplace(c, claim, e[1], e[2], e[3])
    BY <1>2
  <2>2. e[1] \in Users /\ e[2] \in Users \cup {None} /\ e[3] \in BOOLEAN /\ claim.id \in Users
    BY InputsAssumption DEF TypeOK, Claims
  <2>3. users[e[1]].active \in BOOLEAN
    BY <2>1, <2>2 DEF StartReplace, Live, TypeOK, Account
  <2>4. [step |-> IF e[2] = None THEN "write" ELSE "exists", new |-> FALSE, by |-> claim.id, id |-> e[1],
         manager |-> e[2], active |-> e[3], wasActive |-> users[e[1]].active, stale |-> FALSE] \in Write
    BY <2>2, <2>3 DEF Write
  <2> QED
    BY <2>1, <2>4 DEF StartReplace, TypeOK
<1>3. CASE CheckExists(c)
  <2>1. writing[c] \in Write
    BY <1>3 DEF CheckExists, TypeOK
  <2>2. writing' = [writing EXCEPT ![c] =
            [writing[c] EXCEPT !.step = IF writing[c].new THEN "write" ELSE "loop", !.stale = FALSE]]
    BY <1>3, <2>1 DEF CheckExists, TypeOK
  <2>3. [writing[c] EXCEPT !.step = IF writing[c].new THEN "write" ELSE "loop", !.stale = FALSE] \in Write
    BY <2>1 DEF Write
  <2> QED
    BY <1>3, <2>2, <2>3 DEF CheckExists, TypeOK
<1>4. CASE CheckLoop(c)
  <2>1. writing[c] \in Write /\ writing' = [writing EXCEPT ![c] = [writing[c] EXCEPT !.step = "write"]]
    BY <1>4 DEF CheckLoop, TypeOK
  <2>2. [writing[c] EXCEPT !.step = "write"] \in Write
    BY <2>1 DEF Write
  <2> QED
    BY <1>4, <2>1, <2>2 DEF CheckLoop, TypeOK
<1>5. CASE FinishCreate(c)
  <2>1. writing[c] \in Write
    BY <1>5 DEF FinishCreate, TypeOK
  <2>2. [role |-> "employee", active |-> TRUE, manager |-> writing[c].manager, removed |-> FALSE] \in Account
    BY <2>1 DEF Write, Account, Roles
  <2> QED
    BY <1>5, <2>1, <2>2 DEF FinishCreate, TypeOK, Write
<1>6. CASE FinishReplace(c)
  <2> DEFINE w == writing[c]
             row == [users[w.id] EXCEPT !.active = w.active, !.manager = w.manager]
  <2>1. w \in Write /\ w # None /\ users[w.id] \in Account
    BY <1>6 DEF FinishReplace, Live, TypeOK, Write
  <2>2. users' = [users EXCEPT ![w.id] = row]
    BY <1>6, <2>1 DEF FinishReplace, TypeOK
  <2>3. row \in Account
    BY <2>1 DEF Account, Write
  <2>4. users' \in [Users -> Account \cup {None}]
    BY <2>2, <2>3 DEF TypeOK
  <2>5. audit' \in Seq(Entry) /\ Len(audit') =< MaxAudit
    <3>1. w.by \in Users /\ w.id \in Users
      BY <2>1 DEF Write
    <3>2. CASE Audited(w.by, "deactivated", w.id, None, None)
      BY <3>1, <3>2, AuditedTypes
    <3>3. CASE UNCHANGED audit
      BY <3>3 DEF TypeOK
    <3> QED
      BY <1>6, <3>2, <3>3 DEF FinishReplace
  <2>6. writing' \in [WriteCalls -> Write \cup {None}]
    BY <1>6, OutdatedTypes DEF FinishReplace
  <2>7. crossed' \in BOOLEAN
    BY <1>6, <2>1 DEF FinishReplace, TypeOK, Write
  <2> QED
    BY <1>6, <2>4, <2>5, <2>6, <2>7 DEF FinishReplace, TypeOK
<1>7. CASE WriteFails(c)
  BY <1>7 DEF WriteFails, TypeOK
<1> QED
  BY <1>1, <1>2, <1>3, <1>4, <1>5, <1>6, <1>7 DEF WriteStep

LEMMA RemoveTypes ==
    ASSUME TypeOK, NEW c \in RemoveCalls, RemoveStep(c)
    PROVE  TypeOK'
<1> USE NoneAssumption
<1>1. CASE \E claim \in claims, id \in Leavers : StartRemove(c, claim, id)
  BY <1>1, InputsAssumption DEF StartRemove, TypeOK, Claims, Removal
<1>2. CASE FinishRemove(c)
  <2> DEFINE r == removing[c]
  <2>1. r \in Removal /\ r.id \in Users /\ r.by \in Users /\ users[r.id] \in Account
    BY <1>2 DEF FinishRemove, Live, TypeOK, Removal
  <2>2. ASSUME NEW u \in Users, users[u] # None
        PROVE  /\ [users[u] EXCEPT !.removed = TRUE] \in Account
               /\ [users[u] EXCEPT !.manager = users[r.id].manager] \in Account
    <3>1. users[u] \in Account /\ users[r.id].manager \in Users \cup {None}
      BY <2>1, <2>2 DEF TypeOK, Account
    <3> QED
      BY <3>1 DEF Account
  <2>3. users' \in [Users -> Account \cup {None}]
    <3>1. ASSUME NEW u \in Users
          PROVE  users'[u] \in Account \cup {None}
      <4>1. users'[u] = IF u = r.id THEN [users[u] EXCEPT !.removed = TRUE]
                        ELSE IF u \in Children(r.id) THEN [users[u] EXCEPT !.manager = users[r.id].manager]
                        ELSE users[u]
        BY <1>2 DEF FinishRemove
      <4>2. u = r.id \/ u \in Children(r.id) => users[u] # None
        BY <1>2 DEF FinishRemove, Live, Children
      <4>3. users[u] \in Account \cup {None}
        BY DEF TypeOK
      <4> QED
        BY <2>2, <4>1, <4>2, <4>3
    <3> QED
      BY <1>2, <3>1 DEF FinishRemove
  <2>4. audit' \in Seq(Entry) /\ Len(audit') =< MaxAudit
    BY <1>2, <2>1, AuditedTypes DEF FinishRemove
  <2> QED
    BY <1>2, <2>3, <2>4, OutdatedTypes DEF FinishRemove, TypeOK
<1>3. CASE RemoveFails(c)
  BY <1>3 DEF RemoveFails, TypeOK
<1> QED
  BY <1>1, <1>2, <1>3 DEF RemoveStep

LEMMA GrantTypes ==
    ASSUME TypeOK, NEW c \in GrantCalls, GrantStep(c)
    PROVE  TypeOK'
<1> USE NoneAssumption
<1>1. CASE \E claim \in claims, g \in Grants : StartGrant(c, claim, g[1], g[2])
  <2>1. PICK claim \in claims, g \in Grants : StartGrant(c, claim, g[1], g[2])
    BY <1>1
  <2>2. g[1] \in Users /\ claim.id \in Users /\ g[2] \in Roles
    BY <2>1, InputsAssumption DEF StartGrant, TypeOK, Claims
  <2>3. users[g[1]].role \in Roles
    BY <2>1, <2>2 DEF StartGrant, Live, TypeOK, Account
  <2>4. [by |-> claim.id, id |-> g[1], from |-> users[g[1]].role, to |-> g[2]] \in Grant
    BY <2>2, <2>3 DEF Grant
  <2> QED
    BY <2>1, <2>4 DEF StartGrant, TypeOK
<1>2. CASE FinishGrant(c)
  <2> DEFINE g == granting[c]
  <2>1. g \in Grant /\ users[g.id] \in Account
    BY <1>2 DEF FinishGrant, Live, TypeOK, Grant
  <2>2. g.by \in Users /\ g.id \in Users /\ g.from \in Roles /\ g.to \in Roles
    BY <2>1 DEF Grant
  <2>3. users' = [users EXCEPT ![g.id] = [users[g.id] EXCEPT !.role = g.to]]
    BY <1>2 DEF FinishGrant
  <2>4. [users[g.id] EXCEPT !.role = g.to] \in Account
    BY <2>1, <2>2 DEF Account
  <2>5. audit' \in Seq(Entry) /\ Len(audit') =< MaxAudit
    BY <1>2, <2>2, AuditedTypes DEF FinishGrant
  <2> QED
    BY <1>2, <2>3, <2>4, <2>5 DEF FinishGrant, TypeOK
<1>3. CASE GrantFails(c)
  BY <1>3 DEF GrantFails, TypeOK
<1> QED
  BY <1>1, <1>2, <1>3 DEF GrantStep

LEMMA StepTypes ==
    ASSUME TypeOK, [Next]_vars
    PROVE  TypeOK'
<1>1. CASE \E u \in Users : SignIn(u)
  <2>1. PICK u \in Users : SignIn(u)
    BY <1>1
  <2>2. users[u] \in Account
    BY <2>1 DEF SignIn, Live, TypeOK
  <2>3. [id |-> u, role |-> users[u].role] \in Claims
    BY <2>2 DEF Account, Claims
  <2> QED
    BY <2>1, <2>3 DEF SignIn, TypeOK
<1>2. CASE UNCHANGED vars
  BY <1>2 DEF vars, TypeOK
<1> QED
  BY <1>1, <1>2, WriteTypes, RemoveTypes, GrantTypes DEF Next

-----------------------------------------------------------------------------
(* The hierarchy.  Forest alone is not inductive: a write trusts what its call checked some steps ago, so
   what was checked must still hold while the call is not outdated. *)
StillChecked(c) ==
    LET w == writing[c]
    IN  w # None /\ w.manager # None =>
            /\ ~w.new => w.manager # w.id
            /\ ~crossed /\ ~w.stale =>
                   /\ w.step # "exists" => LiveIn(users, w.manager)
                   /\ w.step = "write" /\ ~w.new => w.manager \notin BelowIn(users, w.id)

HInv ==
    /\ ~crossed => Forest(users)
    /\ \A c \in WriteCalls : StillChecked(c)

(* Steps of one call's checks. *)
LEMMA CheckingKeepsHInv ==
    ASSUME TypeOK, HInv, NEW c \in WriteCalls, UNCHANGED <<users, crossed>>,
           writing' = [writing EXCEPT ![c] = writing'[c]], StillChecked(c)'
    PROVE  HInv'
<1>1. ASSUME NEW d \in WriteCalls, d # c
      PROVE  StillChecked(d)'
  <2>1. writing'[d] = writing[d]
    BY <1>1 DEF TypeOK
  <2> QED
    BY <2>1 DEF HInv, StillChecked, LiveIn, BelowIn, Closed, ChildrenIn
<1> QED
  BY <1>1 DEF HInv, Forest, LiveIn, BelowIn, Closed, ChildrenIn

LEMMA ChecksKeepHInv ==
    ASSUME TypeOK, HInv, NEW c \in WriteCalls,
           \/ \E claim \in claims, n \in Newcomers : StartCreate(c, claim, n[1], n[2])
           \/ \E claim \in claims, e \in Edits : StartReplace(c, claim, e[1], e[2], e[3])
           \/ CheckExists(c) \/ CheckLoop(c) \/ WriteFails(c)
    PROVE  HInv'
<1> USE NoneAssumption
<1> DEFINE w == writing[c]
<1>1. UNCHANGED <<users, crossed>> /\ writing' = [writing EXCEPT ![c] = writing'[c]]
  BY DEF StartCreate, StartReplace, CheckExists, CheckLoop, WriteFails, TypeOK
<1>2. CASE \E claim \in claims, n \in Newcomers : StartCreate(c, claim, n[1], n[2])
  <2>1. writing'[c].new /\ (writing'[c].manager # None => writing'[c].step = "exists")
    BY <1>2 DEF StartCreate, TypeOK
  <2> QED
    BY <1>1, <2>1, CheckingKeepsHInv DEF StillChecked
<1>3. CASE \E claim \in claims, e \in Edits : StartReplace(c, claim, e[1], e[2], e[3])
  <2>1. writing'[c].manager # writing'[c].id /\ (writing'[c].manager # None => writing'[c].step = "exists")
    BY <1>3 DEF StartReplace, TypeOK
  <2> QED
    BY <1>1, <2>1, CheckingKeepsHInv DEF StillChecked
<1>4. CASE CheckExists(c)
  <2>1. w \in Write /\ w # None /\ LiveIn(users, w.manager)
    BY <1>4 DEF CheckExists, TypeOK, Live, LiveIn
  <2>2. writing' = [writing EXCEPT ![c] =
            [w EXCEPT !.step = IF w.new THEN "write" ELSE "loop", !.stale = FALSE]]
    BY <1>4, <2>1 DEF CheckExists, TypeOK
  <2>3. LET v == [w EXCEPT !.step = IF w.new THEN "write" ELSE "loop", !.stale = FALSE]
        IN  v.manager = w.manager /\ v.id = w.id /\ v.new = w.new /\ (~w.new => v.step = "loop")
    BY <2>1 DEF Write
  <2>4. writing'[c].manager = w.manager /\ writing'[c].id = w.id /\ writing'[c].new = w.new
        /\ (~w.new => writing'[c].step = "loop")
    BY <2>2, <2>3 DEF TypeOK
  <2>5. StillChecked(c)'
    BY <1>1, <2>1, <2>4 DEF StillChecked, HInv, LiveIn
  <2> QED
    BY <1>1, <2>5, CheckingKeepsHInv
<1>5. CASE CheckLoop(c)
  <2>1. w \in Write /\ w # None /\ w.step = "loop" /\ w.manager \notin BelowIn(users, w.id)
        /\ writing' = [writing EXCEPT ![c] = [w EXCEPT !.step = "write"]]
    BY <1>5 DEF CheckLoop, TypeOK, Below, Children, Live, BelowIn, Closed, ChildrenIn, LiveIn
  <2>2. LET v == [w EXCEPT !.step = "write"]
        IN  v.manager = w.manager /\ v.id = w.id /\ v.new = w.new /\ v.stale = w.stale
    BY <2>1 DEF Write
  <2>3. writing'[c].manager = w.manager /\ writing'[c].id = w.id /\ writing'[c].new = w.new
        /\ writing'[c].stale = w.stale
    BY <2>1, <2>2 DEF TypeOK
  <2>4. StillChecked(c)'
    BY <1>1, <2>1, <2>3 DEF StillChecked, HInv, LiveIn, BelowIn, Closed, ChildrenIn
  <2> QED
    BY <1>1, <2>4, CheckingKeepsHInv
<1>6. CASE WriteFails(c)
  <2>1. writing'[c] = None
    BY <1>6 DEF WriteFails, TypeOK
  <2> QED
    BY <1>1, <2>1, CheckingKeepsHInv DEF StillChecked
<1> QED
  BY <1>2, <1>3, <1>4, <1>5, <1>6

(* A check of a hierarchy that changes is outdated and says nothing any more. *)
LEMMA OutdatedAreChecked ==
    ASSUME TypeOK, HInv, NEW d \in WriteCalls, writing'[d] \in {Outdated[d], None}
    PROVE  StillChecked(d)'
<1> USE NoneAssumption
<1>1. CASE writing'[d] # None
  <2>1. writing[d] # None /\ writing[d] \in Write /\ writing'[d] = [writing[d] EXCEPT !.stale = TRUE]
    BY <1>1, OutdatedTypes DEF TypeOK
  <2>2. LET v == [writing[d] EXCEPT !.stale = TRUE]
        IN  v.manager = writing[d].manager /\ v.id = writing[d].id /\ v.new = writing[d].new /\ v.stale = TRUE
    BY <2>1 DEF Write
  <2> QED
    BY <2>1, <2>2 DEF StillChecked, HInv
<1> QED
  BY <1>1 DEF StillChecked

LEMMA CreateKeepsHInv ==
    ASSUME TypeOK, TypeOK', HInv, NEW c \in WriteCalls, FinishCreate(c)
    PROVE  HInv'
<1> USE NoneAssumption
<1> DEFINE w == writing[c]
<1>1. /\ w \in Write /\ w # None /\ w.step = "write" /\ w.new /\ users[w.id] = None
      /\ users' = [users EXCEPT ![w.id] =
             [role |-> "employee", active |-> TRUE, manager |-> w.manager, removed |-> FALSE]]
      /\ writing' = [writing EXCEPT ![c] = None]
      /\ ~crossed' => ~crossed /\ (w.manager # None => ~w.stale)
  BY DEF FinishCreate, TypeOK
<1>2. w.id \in Users /\ w.manager \in Users \cup {None}
  BY <1>1 DEF Write
<1> HIDE DEF w
<1>3. ASSUME ~crossed'
      PROVE  /\ Forest(users')
             /\ \A u \in Users : BelowIn(users', u) \subseteq BelowIn(users, u) \cup {w.id}
  <2>1. users \in Rows /\ users' \in Rows
    BY DEF TypeOK, Rows
  <2>2. \A u \in Users \ {w.id} : users'[u] = users[u]
    BY <1>1 DEF TypeOK
  <2>3. LiveIn(users', w.id) /\ users'[w.id].manager = w.manager
    <3>1. [role |-> "employee", active |-> TRUE, manager |-> w.manager, removed |-> FALSE] \in Account
      BY <1>2 DEF Account, Roles
    <3> QED
      BY <1>1, <1>2, <3>1 DEF LiveIn, TypeOK
  <2>4. w.manager # None => LiveIn(users, w.manager)
    BY <1>1, <1>3 DEF HInv, StillChecked, w
  <2>5. Forest(users)
    BY <1>1, <1>3 DEF HInv
  <2>6. users[w.id] = None
    BY <1>1
  <2> QED
    BY <1>2, <2>1, <2>2, <2>3, <2>4, <2>5, <2>6, NewcomerStaysForest, Zenon
<1>4. ASSUME NEW d \in WriteCalls
      PROVE  StillChecked(d)'
  <2>1. CASE d = c
    BY <1>1, <2>1 DEF StillChecked, TypeOK
  <2>2. CASE d # c
    <3>1. writing'[d] = writing[d]
      BY <1>1, <2>2 DEF TypeOK
    <3>2. writing[d] # None => writing[d].manager \in Users \cup {None} /\ writing[d].id \in Users
      BY DEF TypeOK, Write
    <3>3. ASSUME NEW m \in Users, LiveIn(users, m)
          PROVE  LiveIn(users', m) /\ m # w.id
      BY <1>1, <3>3 DEF LiveIn, TypeOK
    <3> QED
      BY <1>1, <1>3, <3>1, <3>2, <3>3 DEF StillChecked, HInv
  <2> QED
    BY <2>1, <2>2
<1> QED
  BY <1>3, <1>4 DEF HInv

LEMMA ReplaceKeepsHInv ==
    ASSUME TypeOK, TypeOK', HInv, NEW c \in WriteCalls, FinishReplace(c)
    PROVE  HInv'
<1> USE NoneAssumption
<1> DEFINE w == writing[c]
           row == [users[w.id] EXCEPT !.active = w.active, !.manager = w.manager]
<1>1. /\ w \in Write /\ w # None /\ w.step = "write" /\ ~w.new
      /\ LiveIn(users, w.id) /\ users[w.id] \in Account
      /\ users' = [users EXCEPT ![w.id] = row]
      /\ writing' = [Outdated EXCEPT ![c] = None]
      /\ ~crossed' => ~crossed /\ (w.manager # None => ~w.stale)
  BY DEF FinishReplace, TypeOK, Live, LiveIn, Write
<1>2. w.id \in Users /\ w.manager \in Users \cup {None}
  BY <1>1 DEF Write
<1>3. row \in Account /\ row.manager = w.manager /\ row.removed = users[w.id].removed
  BY <1>1, <1>2 DEF Account, Write
<1> HIDE DEF row
<1>4. users'[w.id] = row /\ \A u \in Users : u # w.id => users'[u] = users[u]
  BY <1>1, <1>2 DEF TypeOK
<1>5. ASSUME NEW d \in WriteCalls
      PROVE  StillChecked(d)'
  <2>1. writing'[d] \in {Outdated[d], None}
    BY <1>1, OutdatedTypes
  <2> QED
    BY <2>1, OutdatedAreChecked
<1>6. ASSUME ~crossed'
      PROVE  Forest(users')
  <2>1. users \in Rows /\ users' \in Rows
    BY DEF TypeOK, Rows
  <2>2. w.manager # None => LiveIn(users, w.manager) /\ w.manager # w.id /\ w.manager \notin BelowIn(users, w.id)
    BY <1>1, <1>6 DEF HInv, StillChecked
  <2>3. Forest(users)
    BY <1>1, <1>6 DEF HInv
  <2>4. users'[w.id].manager = w.manager
    BY <1>3, <1>4
  <2>5. \A u \in Users : LiveIn(users', u) <=> LiveIn(users, u)
    BY <1>1, <1>3, <1>4 DEF LiveIn
  <2>6. \A u \in Users : u # w.id /\ LiveIn(users, u) => users'[u].manager = users[u].manager
    BY <1>4
  <2>7. LiveIn(users, w.id)
    BY <1>1
  <2> HIDE DEF w
  <2> QED
    BY <1>2, <2>1, <2>2, <2>3, <2>4, <2>5, <2>6, <2>7, MovedStaysForest, Zenon
<1> QED
  BY <1>5, <1>6 DEF HInv

(* What a removal leaves of the table and of the hierarchy. *)
LEMMA RemovalMoves ==
    ASSUME TypeOK, TypeOK', Forest(users), NEW c \in RemoveCalls, FinishRemove(c)
    PROVE  /\ removing[c].id \in Users
           /\ Forest(users')
           /\ \A u \in Users : u # removing[c].id =>
                  BelowIn(users', u) = BelowIn(users, u) \ {removing[c].id}
<1> USE NoneAssumption
<1> DEFINE r == removing[c].id
<1>1. r \in Users /\ LiveIn(users, r) /\ users[r] \in Account
  BY DEF FinishRemove, TypeOK, Removal, Live, LiveIn
<1>2. ASSUME NEW u \in Users
      PROVE  users'[u] = IF u = r THEN [users[u] EXCEPT !.removed = TRUE]
                         ELSE IF u \in ChildrenIn(users, r) THEN [users[u] EXCEPT !.manager = users[r].manager]
                         ELSE users[u]
  BY DEF FinishRemove, Children, Live, ChildrenIn, LiveIn
<1> HIDE DEF r
<1>3. users \in Rows /\ users' \in Rows
  BY DEF TypeOK, Rows
<1>4. ~LiveIn(users', r)
  <2>1. users'[r] = [users[r] EXCEPT !.removed = TRUE]
    BY <1>1, <1>2
  <2>2. [users[r] EXCEPT !.removed = TRUE].removed
    BY <1>1 DEF Account
  <2> QED
    BY <2>1, <2>2 DEF LiveIn
<1>5. ASSUME NEW u \in Users, u # r, LiveIn(users, u)
      PROVE  /\ LiveIn(users', u)
             /\ users'[u].manager = IF users[u].manager = r THEN users[r].manager ELSE users[u].manager
  <2>1. users[u] \in Account
    BY <1>3, <1>5 DEF Rows, LiveIn
  <2>2. CASE users[u].manager = r
    <3>1. users'[u] = [users[u] EXCEPT !.manager = users[r].manager]
      BY <1>2, <1>5, <2>2 DEF ChildrenIn
    <3>2. [users[u] EXCEPT !.manager = users[r].manager].removed = users[u].removed
          /\ [users[u] EXCEPT !.manager = users[r].manager].manager = users[r].manager
      BY <2>1 DEF Account
    <3>3. users'[u] \in Account
      BY <1>1, <2>1, <3>1 DEF Account
    <3> QED
      BY <1>5, <2>2, <3>1, <3>2, <3>3 DEF LiveIn
  <2>3. CASE users[u].manager # r
    <3>1. users'[u] = users[u]
      BY <1>2, <1>5, <2>3 DEF ChildrenIn
    <3> QED
      BY <1>5, <2>3, <3>1 DEF LiveIn
  <2> QED
    BY <2>2, <2>3
<1>6. ASSUME NEW u \in Users, u # r, ~LiveIn(users, u)
      PROVE  ~LiveIn(users', u)
  <2>1. users'[u] = users[u]
    BY <1>2, <1>6 DEF ChildrenIn
  <2> QED
    BY <1>6, <2>1 DEF LiveIn
<1>7. \A u \in Users : LiveIn(users', u) <=> LiveIn(users, u) /\ u # r
  BY <1>4, <1>5, <1>6
<1>8. \A u \in Users : u # r /\ LiveIn(users, u) =>
          users'[u].manager = IF users[u].manager = r THEN users[r].manager ELSE users[u].manager
  BY <1>5
<1>9. Forest(users') /\ \A u \in Users : u # r => BelowIn(users', u) = BelowIn(users, u) \ {r}
  <2>1. LiveIn(users, r)
    BY <1>1
  <2> QED
    BY <1>1, <1>3, <1>7, <1>8, <2>1, RemovedStaysForest
<1> QED
  BY <1>1, <1>9 DEF r

LEMMA RemoveKeepsHInv ==
    ASSUME TypeOK, TypeOK', HInv, NEW c \in RemoveCalls, FinishRemove(c)
    PROVE  HInv'
<1>1. ASSUME NEW d \in WriteCalls
      PROVE  StillChecked(d)'
  BY OutdatedAreChecked DEF FinishRemove
<1>2. ~crossed' => Forest(users')
  BY RemovalMoves DEF HInv, FinishRemove
<1> QED
  BY <1>1, <1>2 DEF HInv

(* A role says nothing of the hierarchy. *)
LEMMA GrantKeepsHInv ==
    ASSUME TypeOK, TypeOK', HInv, NEW c \in GrantCalls, FinishGrant(c)
    PROVE  HInv'
<1> USE NoneAssumption
<1> DEFINE g == granting[c]
           row == [users[g.id] EXCEPT !.role = g.to]
<1>1. /\ g.id \in Users /\ users[g.id] \in Account
      /\ users' = [users EXCEPT ![g.id] = row]
      /\ UNCHANGED <<writing, crossed>>
  BY DEF FinishGrant, TypeOK, Grant, Live
<1>2. row \in Account /\ row.manager = users[g.id].manager /\ row.removed = users[g.id].removed
  <2>1. g.to \in Roles
    BY DEF FinishGrant, TypeOK, Grant
  <2> QED
    BY <1>1, <2>1 DEF Account
<1> HIDE DEF g, row
<1>3. users'[g.id] = row /\ \A u \in Users : u # g.id => users'[u] = users[u]
  BY <1>1 DEF TypeOK
<1>4. \A u \in Users : LiveIn(users', u) <=> LiveIn(users, u)
  BY <1>1, <1>2, <1>3 DEF LiveIn
<1>5. \A u \in Users : LiveIn(users, u) => users'[u].manager = users[u].manager
  BY <1>2, <1>3
<1>6. \A m : BelowIn(users', m) = BelowIn(users, m)
  BY <1>4, <1>5, SameHierarchy, Zenon
<1>7. Forest(users) => Forest(users')
  <2>1. users \in Rows
    BY DEF TypeOK, Rows
  <2> QED
    BY <1>4, <1>5, <2>1, SameHierarchy, Zenon
<1>8. ASSUME NEW d \in WriteCalls
      PROVE  StillChecked(d)'
  <2>1. writing'[d] = writing[d] /\ StillChecked(d) /\ (writing[d] # None => writing[d].manager \in Users \cup {None})
    BY <1>1 DEF HInv, TypeOK, Write
  <2> QED
    BY <1>1, <1>4, <1>6, <2>1 DEF StillChecked
<1> QED
  BY <1>1, <1>7, <1>8 DEF HInv

LEMMA StepHInv ==
    ASSUME TypeOK, HInv, [Next]_vars
    PROVE  HInv'
<1>1. TypeOK'
  BY StepTypes
<1>2. CASE \E c \in WriteCalls : WriteStep(c)
  BY <1>1, <1>2, ChecksKeepHInv, CreateKeepsHInv, ReplaceKeepsHInv DEF WriteStep
<1>3. CASE \E c \in RemoveCalls : FinishRemove(c)
  BY <1>1, <1>3, RemoveKeepsHInv
<1>4. CASE \E c \in GrantCalls : FinishGrant(c)
  BY <1>1, <1>4, GrantKeepsHInv
<1>5. CASE UNCHANGED <<users, writing, crossed>>
  BY <1>5 DEF HInv, StillChecked, Forest, LiveIn, BelowIn, Closed, ChildrenIn
<1>6. (\E u \in Users : SignIn(u)) \/ UNCHANGED vars => UNCHANGED <<users, writing, crossed>>
  BY DEF SignIn, vars
<1>7. ASSUME NEW c \in RemoveCalls, RemoveStep(c), ~FinishRemove(c)
      PROVE  UNCHANGED <<users, writing, crossed>>
  BY <1>7 DEF RemoveStep, StartRemove, RemoveFails
<1>8. ASSUME NEW c \in GrantCalls, GrantStep(c), ~FinishGrant(c)
      PROVE  UNCHANGED <<users, writing, crossed>>
  BY <1>8 DEF GrantStep, StartGrant, GrantFails
<1> QED
  BY <1>2, <1>3, <1>4, <1>5, <1>6, <1>7, <1>8 DEF Next

-----------------------------------------------------------------------------
(* The audit log.  What it says of a role stays true because an entry names an account there is, and an
   account never ceases to be. *)
RoleEntries(u) == {i \in DOMAIN audit : audit[i].id = u /\ audit[i].action = "role_changed"}

RoleAudited(u) ==
    users[u] # None =>
        IF RoleEntries(u) = {}
        THEN users[u].role = IF Staff[u] = None THEN "employee" ELSE Staff[u].role
        ELSE \A i \in RoleEntries(u) : (\A j \in RoleEntries(u) : j =< i) => users[u].role = audit[i].to

RInv ==
    /\ \A i \in DOMAIN audit : users[audit[i].id] # None
    /\ \A u \in Users : Staff[u] # None => users[u] # None
    /\ \A u \in Users : RoleAudited(u)

LEMMA InitRInv == Init => RInv
BY DEF Init, RInv, RoleAudited, RoleEntries

(* The log with one entry more. *)
LEMMA AuditedAppends ==
    ASSUME TypeOK, NEW by \in Users, NEW action \in {"role_changed", "deactivated", "deleted"}, NEW id \in Users,
           NEW from \in Roles \cup {None}, NEW to \in Roles \cup {None}, Audited(by, action, id, from, to)
    PROVE  /\ Len(audit) \in Nat /\ DOMAIN audit = 1..Len(audit) /\ DOMAIN audit' = 1..(Len(audit) + 1)
           /\ \A i \in DOMAIN audit : audit'[i] = audit[i]
           /\ audit'[Len(audit) + 1].id = id /\ audit'[Len(audit) + 1].action = action
           /\ audit'[Len(audit) + 1].to = to
<1>1. [by |-> by, action |-> action, id |-> id, from |-> from, to |-> to] \in Entry
  BY DEF Entry
<1> DEFINE entry == [by |-> by, action |-> action, id |-> id, from |-> from, to |-> to]
<1>2. entry.id = id /\ entry.action = action /\ entry.to = to
  OBVIOUS
<1>3. entry \in Entry
  BY <1>1
<1>4. audit' = Append(audit, entry)
  BY DEF Audited
<1> HIDE DEF entry
<1>5. audit \in Seq(Entry)
  BY DEF TypeOK
<1> QED
  BY <1>2, <1>3, <1>4, <1>5

LEMMA EntryIds ==
    ASSUME TypeOK, NEW i \in DOMAIN audit
    PROVE  audit[i].id \in Users
<1>1. audit[i] \in Entry
  BY DEF TypeOK
<1> QED
  BY <1>1 DEF Entry

(* Steps that change no role. *)
LEMMA OtherStepKeepsRInv ==
    ASSUME TypeOK, RInv,
           \A u \in Users : users[u] # None => users'[u] # None /\ users'[u].role = users[u].role,
           \A u \in Users : users[u] = None /\ users'[u] # None => users'[u].role = "employee",
           \/ UNCHANGED audit
           \/ \E by \in Users, id \in Users, action \in {"deactivated", "deleted"} :
                  users[id] # None /\ Audited(by, action, id, None, None)
    PROVE  RInv'
<1>1. /\ \A i \in DOMAIN audit' : users'[audit'[i].id] # None
      /\ \A u \in Users : RoleEntries(u)' = RoleEntries(u)
      /\ \A i \in DOMAIN audit : i \in DOMAIN audit' /\ audit'[i] = audit[i]
  <2>1. \A i \in DOMAIN audit : audit[i].id \in Users
    BY EntryIds
  <2>2. CASE UNCHANGED audit
    BY <2>1, <2>2 DEF RInv, RoleEntries
  <2>3. CASE \E by \in Users, id \in Users, action \in {"deactivated", "deleted"} :
                 users[id] # None /\ Audited(by, action, id, None, None)
    <3>1. PICK by \in Users, id \in Users, action \in {"deactivated", "deleted"} :
              users[id] # None /\ Audited(by, action, id, None, None)
      BY <2>3
    <3>2. /\ Len(audit) \in Nat /\ DOMAIN audit = 1..Len(audit) /\ DOMAIN audit' = 1..(Len(audit) + 1)
          /\ \A i \in DOMAIN audit : audit'[i] = audit[i]
          /\ audit'[Len(audit) + 1].id = id /\ audit'[Len(audit) + 1].action = action
      BY <3>1, AuditedAppends
    <3>3. action # "role_changed"
      BY <3>1
    <3>4. \A i \in DOMAIN audit' : i \in DOMAIN audit \/ i = Len(audit) + 1
      BY <3>2
    <3>5. \A i \in DOMAIN audit : i \in DOMAIN audit'
      BY <3>2
    <3> QED
      BY <2>1, <3>1, <3>2, <3>3, <3>4, <3>5 DEF RInv, RoleEntries
  <2> QED
    BY <2>2, <2>3
<1>2. ASSUME NEW u \in Users
      PROVE  RoleAudited(u)'
  <2>1. CASE users[u] # None
    BY <1>1, <2>1 DEF RInv, RoleAudited, RoleEntries
  <2>2. CASE users[u] = None
    <3>1. Staff[u] = None /\ RoleEntries(u) = {}
      BY <2>2 DEF RInv, RoleEntries
    <3> QED
      BY <1>1, <2>2, <3>1 DEF RoleAudited
  <2> QED
    BY <2>1, <2>2
<1> QED
  BY <1>1, <1>2 DEF RInv

(* A role and its entry are written together, after all entries there are. *)
LEMMA GrantKeepsRInv ==
    ASSUME TypeOK, RInv, NEW c \in GrantCalls, FinishGrant(c)
    PROVE  RInv'
<1> USE NoneAssumption
<1> DEFINE g == granting[c]
           row == [users[g.id] EXCEPT !.role = g.to]
           last == Len(audit) + 1
<1>1. /\ g \in Grant /\ g.by \in Users /\ g.id \in Users /\ g.from \in Roles /\ g.to \in Roles
      /\ users[g.id] \in Account /\ users[g.id] # None
  BY DEF FinishGrant, TypeOK, Grant, Live
<1>2. row \in Account /\ row.role = g.to
  BY <1>1 DEF Account
<1>3. users' = [users EXCEPT ![g.id] = row] /\ Audited(g.by, "role_changed", g.id, g.from, g.to)
  BY DEF FinishGrant
<1>4. /\ Len(audit) \in Nat /\ DOMAIN audit = 1..Len(audit) /\ DOMAIN audit' = 1..last
      /\ \A i \in DOMAIN audit : audit'[i] = audit[i]
      /\ audit'[last].id = g.id /\ audit'[last].action = "role_changed" /\ audit'[last].to = g.to
  BY <1>1, <1>3, AuditedAppends
<1>5. \A i \in DOMAIN audit : audit[i].id \in Users
  BY EntryIds
<1> HIDE DEF g, row
<1>6. users'[g.id] = row /\ users'[g.id] # None /\ \A u \in Users : u # g.id => users'[u] = users[u]
  BY <1>1, <1>2, <1>3 DEF TypeOK
<1>7. /\ \A i \in DOMAIN audit' : i \in DOMAIN audit \/ i = last
      /\ \A i \in DOMAIN audit : i \in DOMAIN audit' /\ i < last /\ i \in Nat
      /\ last \in DOMAIN audit' /\ last \in Nat
  BY <1>4
<1> HIDE DEF last
<1>8. ASSUME NEW u \in Users, u = g.id
      PROVE  RoleEntries(u)' = RoleEntries(u) \cup {last}
  <2>1. last \in RoleEntries(u)'
    BY <1>4, <1>7, <1>8 DEF RoleEntries
  <2>2. \A i \in DOMAIN audit : i \in RoleEntries(u)' <=> i \in RoleEntries(u)
    BY <1>4, <1>7 DEF RoleEntries
  <2>3. RoleEntries(u) \subseteq DOMAIN audit /\ RoleEntries(u)' \subseteq DOMAIN audit \cup {last}
    BY <1>7 DEF RoleEntries
  <2> QED
    BY <2>1, <2>2, <2>3
<1>9. \A u \in Users : u # g.id => RoleEntries(u)' = RoleEntries(u)
  BY <1>4, <1>7 DEF RoleEntries
<1>10. ASSUME NEW u \in Users
       PROVE  RoleAudited(u)'
  <2>1. CASE u = g.id
    <3>1. ASSUME NEW i \in RoleEntries(u)', \A j \in RoleEntries(u)' : j =< i
          PROVE  i = last
      <4>1. last =< i
        BY <1>8, <2>1, <3>1
      <4>2. i \in DOMAIN audit \/ i = last
        BY <1>8, <2>1, <3>1 DEF RoleEntries
      <4> QED
        BY <1>7, <4>1, <4>2
    <3>2. users'[u].role = audit'[last].to
      BY <1>2, <1>4, <1>6, <2>1
    <3>3. RoleEntries(u)' # {}
      BY <1>8, <2>1
    <3> QED
      BY <3>1, <3>2, <3>3 DEF RoleAudited
  <2>2. CASE u # g.id
    <3>1. \A i \in RoleEntries(u) : audit'[i] = audit[i]
      BY <1>4 DEF RoleEntries
    <3> QED
      BY <1>6, <1>9, <2>2, <3>1 DEF RInv, RoleAudited
  <2> QED
    BY <2>1, <2>2
<1>11. \A i \in DOMAIN audit' : users'[audit'[i].id] # None
  <2>1. \A u \in Users : users[u] # None => users'[u] # None
    BY <1>6
  <2> QED
    BY <1>1, <1>4, <1>5, <1>6, <1>7, <2>1 DEF RInv
<1>12. \A u \in Users : Staff[u] # None => users'[u] # None
  BY <1>6 DEF RInv
<1> QED
  BY <1>10, <1>11, <1>12 DEF RInv

LEMMA StepRInv ==
    ASSUME TypeOK, RInv, [Next]_vars
    PROVE  RInv'
<1> USE NoneAssumption
<1>1. CASE \E c \in WriteCalls : FinishCreate(c)
  <2>1. PICK c \in WriteCalls : FinishCreate(c)
    BY <1>1
  <2> DEFINE w == writing[c]
             row == [role |-> "employee", active |-> TRUE, manager |-> w.manager, removed |-> FALSE]
  <2>2. w.id \in Users /\ users[w.id] = None /\ users' = [users EXCEPT ![w.id] = row] /\ UNCHANGED audit
    BY <2>1 DEF FinishCreate, TypeOK, Write
  <2>3. row.role = "employee"
    OBVIOUS
  <2> HIDE DEF w, row
  <2>4. users'[w.id] = row /\ \A u \in Users : u # w.id => users'[u] = users[u]
    BY <2>2 DEF TypeOK
  <2> QED
    BY <2>2, <2>3, <2>4, OtherStepKeepsRInv
<1>2. CASE \E c \in WriteCalls : FinishReplace(c)
  <2>1. PICK c \in WriteCalls : FinishReplace(c)
    BY <1>2
  <2> DEFINE w == writing[c]
             row == [users[w.id] EXCEPT !.active = w.active, !.manager = w.manager]
  <2>2. /\ w.id \in Users /\ w.by \in Users /\ users[w.id] \in Account /\ users[w.id] # None
        /\ users' = [users EXCEPT ![w.id] = row]
        /\ UNCHANGED audit \/ Audited(w.by, "deactivated", w.id, None, None)
    BY <2>1 DEF FinishReplace, TypeOK, Write, Live
  <2>3. row \in Account /\ row.role = users[w.id].role
    <3>1. w.active \in BOOLEAN /\ w.manager \in Users \cup {None}
      BY <2>1 DEF FinishReplace, TypeOK, Write
    <3> QED
      BY <2>2, <3>1 DEF Account
  <2> HIDE DEF w, row
  <2>4. users'[w.id] = row /\ row # None /\ \A u \in Users : u # w.id => users'[u] = users[u]
    BY <2>2, <2>3 DEF TypeOK
  <2> QED
    BY <2>2, <2>3, <2>4, OtherStepKeepsRInv
<1>3. CASE \E c \in RemoveCalls : FinishRemove(c)
  <2>1. PICK c \in RemoveCalls : FinishRemove(c)
    BY <1>3
  <2> DEFINE r == removing[c]
  <2>2. r.id \in Users /\ r.by \in Users /\ users[r.id] # None /\ Audited(r.by, "deleted", r.id, None, None)
    BY <2>1 DEF FinishRemove, TypeOK, Removal, Live
  <2>3. ASSUME NEW u \in Users, users[u] # None
        PROVE  users'[u] # None /\ users'[u].role = users[u].role
    <3>1. users'[u] \in {users[u], [users[u] EXCEPT !.removed = TRUE],
                         [users[u] EXCEPT !.manager = users[r.id].manager]}
      BY <2>1, <2>3 DEF FinishRemove
    <3>2. users[u] \in Account /\ users[r.id].manager \in Users \cup {None}
      BY <2>2, <2>3 DEF TypeOK, Account
    <3>3. /\ [users[u] EXCEPT !.removed = TRUE] \in Account
          /\ [users[u] EXCEPT !.manager = users[r.id].manager] \in Account
          /\ [users[u] EXCEPT !.removed = TRUE].role = users[u].role
          /\ [users[u] EXCEPT !.manager = users[r.id].manager].role = users[u].role
      BY <3>2 DEF Account
    <3> QED
      BY <2>3, <3>1, <3>3
  <2>4. ASSUME NEW u \in Users, users[u] = None
        PROVE  users'[u] = None
    <3>1. u # r.id /\ u \notin Children(r.id)
      BY <2>2, <2>4 DEF Children, Live
    <3> QED
      BY <2>1, <2>4, <3>1 DEF FinishRemove
  <2> HIDE DEF r
  <2> QED
    BY <2>2, <2>3, <2>4, OtherStepKeepsRInv
<1>4. CASE \E c \in GrantCalls : FinishGrant(c)
  BY <1>4, GrantKeepsRInv
<1>5. CASE UNCHANGED <<users, audit>>
  BY <1>5 DEF RInv, RoleAudited, RoleEntries
<1>6. (\E u \in Users : SignIn(u)) \/ UNCHANGED vars => UNCHANGED <<users, audit>>
  BY DEF SignIn, vars
<1>7. ASSUME NEW c \in WriteCalls, WriteStep(c), ~FinishCreate(c), ~FinishReplace(c)
      PROVE  UNCHANGED <<users, audit>>
  BY <1>7 DEF WriteStep, StartCreate, StartReplace, CheckExists, CheckLoop, WriteFails
<1>8. ASSUME NEW c \in RemoveCalls, RemoveStep(c), ~FinishRemove(c)
      PROVE  UNCHANGED <<users, audit>>
  BY <1>8 DEF RemoveStep, StartRemove, RemoveFails
<1>9. ASSUME NEW c \in GrantCalls, GrantStep(c), ~FinishGrant(c)
      PROVE  UNCHANGED <<users, audit>>
  BY <1>9 DEF GrantStep, StartGrant, GrantFails
<1> QED
  BY <1>1, <1>2, <1>3, <1>4, <1>5, <1>6, <1>7, <1>8, <1>9 DEF Next

(* Removed accounts are out of what every write touches. *)
LEMMA RemovedStep ==
    ASSUME TypeOK, [Next]_vars, NEW u \in Users, users[u] # None, users[u].removed
    PROVE  users'[u] = users[u]
<1> USE NoneAssumption
<1>1. CASE \E c \in WriteCalls : FinishCreate(c)
  BY <1>1 DEF FinishCreate, TypeOK
<1>2. CASE \E c \in WriteCalls : FinishReplace(c)
  <2>1. PICK c \in WriteCalls : FinishReplace(c)
    BY <1>2
  <2>2. writing[c].id # u
    BY <2>1 DEF FinishReplace, Live
  <2> QED
    BY <2>1, <2>2 DEF FinishReplace, TypeOK
<1>3. CASE \E c \in RemoveCalls : FinishRemove(c)
  <2>1. PICK c \in RemoveCalls : FinishRemove(c)
    BY <1>3
  <2>2. removing[c].id # u /\ u \notin Children(removing[c].id)
    BY <2>1 DEF FinishRemove, Live, Children
  <2> QED
    BY <2>1, <2>2 DEF FinishRemove
<1>4. CASE \E c \in GrantCalls : FinishGrant(c)
  <2>1. PICK c \in GrantCalls : FinishGrant(c)
    BY <1>4
  <2>2. granting[c].id # u
    BY <2>1 DEF FinishGrant, Live
  <2> QED
    BY <2>1, <2>2 DEF FinishGrant, TypeOK
<1>5. CASE UNCHANGED users
  BY <1>5
<1> QED
  BY <1>1, <1>2, <1>3, <1>4, <1>5 DEF Next, vars, SignIn, WriteStep, RemoveStep, GrantStep, StartCreate,
     StartReplace, CheckExists, CheckLoop, WriteFails, StartRemove, RemoveFails, StartGrant, GrantFails

-----------------------------------------------------------------------------
(* The state's shape, for any accounts, requests and numbers of concurrent calls. *)
THEOREM DirectoryTypes == Spec => []TypeOK
<1>1. TypeOK /\ [Next]_vars => TypeOK'
  BY StepTypes
<1> QED
  BY InitTypes, <1>1, PTL DEF Spec

(* A role is what the last entry about it says (repository.go:160-161), however calls overlap. *)
THEOREM RolesStayAudited == Spec => []RolesAudited
<1>1. TypeOK /\ RInv /\ [Next]_vars => RInv'
  BY StepRInv
<1>2. RInv => RolesAudited
  BY DEF RInv, RoleAudited, RoleEntries, RolesAudited
<1> QED
  BY InitRInv, DirectoryTypes, <1>1, <1>2, PTL DEF Spec

(* No call writes to an account that is removed, whatever it read before. *)
THEOREM RemovedAccountsStay == Spec => RemovedStays
<1>1. TypeOK /\ [Next]_vars =>
          [\A u \in Users : users[u] # None /\ users[u].removed => users'[u] = users[u]]_vars
  BY RemovedStep
<1> QED
  BY DirectoryTypes, <1>1, PTL DEF Spec, RemovedStays

LEMMA ForestMeans == Forest(users) <=> NoLoop /\ ManagersLive
BY DEF Forest, NoLoop, ManagersLive, Below, BelowIn, Closed, Children, ChildrenIn, Live, LiveIn

LEMMA InitHInv == Init /\ NoLoop /\ ManagersLive => HInv
BY ForestMeans DEF Init, HInv, StillChecked

(* Checks and writes that interleave hold, and every step keeps, a hierarchy that was sound. *)
THEOREM HierarchyInvariance == Spec /\ NoLoop /\ ManagersLive => []HInv
<1>1. TypeOK /\ HInv /\ [Next]_vars => HInv'
  BY StepHInv
<1> QED
  BY InitHInv, DirectoryTypes, <1>1, PTL DEF Spec

(* service.go:308-310: from a forest of live accounts, the hierarchy stays one as long as no manager is
   written after the hierarchy it was checked in changed. *)
THEOREM HierarchyStaysSound == Spec /\ NoLoop /\ ManagersLive => []HierarchySound
<1>1. HInv => HierarchySound
  BY ForestMeans DEF HInv, HierarchySound
<1> QED
  BY HierarchyInvariance, <1>1, PTL

(* repository.go:180-182: a removal takes the leaver, and nobody else, out of every reach. *)
THEOREM RemovalsKeepReach == Spec /\ NoLoop /\ ManagersLive => RemovalKeepsReach
<1> DEFINE Kept == \A c \in RemoveCalls :
               FinishRemove(c) /\ ~crossed =>
                   \A u \in Users \ {removing[c].id} :
                       Live(u) => Below(u)' = Below(u) \ {removing[c].id}
<1>1. TypeOK /\ TypeOK' /\ HInv /\ [Next]_vars => [Kept]_vars
  <2>1. \A u : Below(u) = BelowIn(users, u) /\ Below(u)' = BelowIn(users', u)
    BY DEF Below, BelowIn, Closed, Children, ChildrenIn, Live, LiveIn
  <2>2. ASSUME TypeOK, TypeOK', HInv, NEW c \in RemoveCalls, FinishRemove(c), ~crossed,
               NEW u \in Users \ {removing[c].id}
        PROVE  BelowIn(users', u) = BelowIn(users, u) \ {removing[c].id}
    BY <2>2, RemovalMoves DEF HInv
  <2> QED
    BY <2>1, <2>2
<1> QED
  BY HierarchyInvariance, DirectoryTypes, <1>1, PTL DEF Spec, RemovalKeepsReach
=============================================================================
