--------------------------- MODULE SessionsProofs ---------------------------
(* Proofs about Sessions, for any people, tokens, limits, times and numbers of concurrent calls: an access
   token names a recent role, a session ends for a reason, and logins implement SessionLife. *)
EXTENDS Sessions, FiniteSetTheorems, TLAPS

-----------------------------------------------------------------------------
(* The inductive invariant.  A session is one login: every row of it ends with the login, and one row at
   most is unrevoked. *)
OneSession ==
    /\ \A t \in Tokens : rows[t] # None =>
           lease[t] = rows[t].expires /\ lease[rows[t].login] = rows[t].expires
    /\ \A t1, t2 \in Tokens :
           /\ rows[t1] # None /\ rows[t1].revoked = None
           /\ rows[t2] # None /\ rows[t2].revoked = None
           /\ rows[t1].login = rows[t2].login
           => t1 = t2

(* Somebody had a role, with an account that worked, at some moment not before "at". *)
HeldSince(u, role, at) == held[<<u, role>>] # None /\ at <= held[<<u, role>>]

LoginHolds(c) ==
    logins[c] # None =>
        /\ logins[c].start <= now /\ now <= logins[c].start + CallLimit
        /\ logins[c].step \in {"reset", "issue"} => logins[c].role # None
        /\ logins[c].role # None => HeldSince(logins[c].user, logins[c].role, logins[c].start)

(* A rotation has its row for itself, and what it read of the owner was true after it began. *)
RefreshHolds(c) ==
    refreshes[c] # None =>
        /\ refreshes[c].start <= now /\ now <= refreshes[c].start + CallLimit
        /\ refreshes[c].step = "swap" =>
               /\ Live(refreshes[c].token, refreshes[c].start)
               /\ refreshes[c].role # None =>
                      HeldSince(rows[refreshes[c].token].user, refreshes[c].role, refreshes[c].start)
        /\ refreshes[c].step = "revoke" =>
               refreshes[c].since # None /\ refreshes[c].since + Grace < refreshes[c].start

Swapping(c) == refreshes[c] # None /\ refreshes[c].step = "swap"

CallsHold ==
    /\ \A c \in LoginCalls : LoginHolds(c)
    /\ \A c \in RefreshCalls : RefreshHolds(c)
    /\ \A c, d \in RefreshCalls : Swapping(c) /\ Swapping(d) /\ refreshes[c].token = refreshes[d].token => c = d

RolesHeld ==
    /\ \A u \in Users : Serves(users[u]) => held[<<u, users[u].role>>] = now
    /\ \A k \in Users \X Roles : held[k] # None => held[k] <= now
    /\ \A a \in access :
           /\ now < a.expires
           /\ held[<<a.user, a.role>>] # None
           /\ a.expires <= held[<<a.user, a.role>>] + AccessTTL + CallLimit

IInv == TypeOK /\ OneSession /\ CallsHold /\ RolesHeld

-----------------------------------------------------------------------------
(* Whatever was in the table at first, each token in it was a login of its own. *)
LEMMA InitIInv == Init => IInv
<1> SUFFICES ASSUME Init
             PROVE  IInv
  OBVIOUS
<1> USE TimesAssumption, AccountsAssumption, OutsetAssumption, NoneAssumption
<1>1. PICK o \in Outsets : rows = o.rows /\ lease = o.lease
  BY DEF Init
<1>2. \A u \in Users : Staff[u] \in Account /\ Staff[u].role \in Roles
  BY DEF Account
<1>3. held \in [Users \X Roles -> Nat \cup {None}]
  BY DEF Init
<1>4. admitted \in [Users -> SUBSET Attempt]
  BY DEF Init
<1>5. TypeOK
  BY <1>1, <1>3, <1>4 DEF Init, TypeOK, Outset
<1>6. OneSession
  BY <1>1 DEF OneSession, Outset
<1>7. CallsHold
  BY DEF Init, CallsHold, LoginHolds, RefreshHolds, Swapping
<1>8. ASSUME NEW u \in Users, Serves(users[u])
      PROVE  held[<<u, users[u].role>>] = now
  <2>1. <<u, users[u].role>> \in Users \X Roles
    BY <1>2 DEF Init
  <2> QED
    BY <1>8, <2>1 DEF Init
<1>9. ASSUME NEW k \in Users \X Roles, held[k] # None
      PROVE  held[k] <= now
  BY <1>9 DEF Init
<1> QED
  BY <1>5, <1>6, <1>7, <1>8, <1>9 DEF IInv, RolesHeld, Init

-----------------------------------------------------------------------------
(* Steps that leave the table of tokens, the accounts and the clock as they are. *)

(* What one call of either kind does to its own record, with attempts counted or not. *)
LEMMA LoginCallStep ==
    ASSUME IInv, NEW c \in LoginCalls, LoginHolds(c)',
           UNCHANGED <<users, rows, refreshes, access, now, lease, held>>,
           logins' \in [LoginCalls -> Login \cup {None}],
           \A d \in LoginCalls : d # c => logins'[d] = logins[d],
           ipAttempts' \in [Users \X Addresses -> Counter \cup {None}],
           emailAttempts' \in [Users -> Counter \cup {None}],
           admitted' \in [Users -> SUBSET Attempt]
    PROVE  IInv'
<1>1. TypeOK'
  BY DEF IInv, TypeOK
<1>2. OneSession' /\ RolesHeld'
  BY DEF IInv, OneSession, RolesHeld
<1>3. CallsHold'
  BY DEF IInv, CallsHold, LoginHolds, RefreshHolds, Swapping, Live, HeldSince
<1> QED
  BY <1>1, <1>2, <1>3 DEF IInv

LEMMA RefreshCallStep ==
    ASSUME IInv, NEW c \in RefreshCalls, RefreshHolds(c)',
           UNCHANGED <<users, rows, attempts, logins, access, now, lease, held>>,
           refreshes' \in [RefreshCalls -> Refresh \cup {None}],
           \A d \in RefreshCalls : d # c => refreshes'[d] = refreshes[d],
           Swapping(c)' => ~Locked(refreshes'[c].token)
    PROVE  IInv'
<1>1. TypeOK'
  BY DEF IInv, TypeOK, attempts
<1>2. OneSession' /\ RolesHeld'
  BY DEF IInv, OneSession, RolesHeld
<1>3. \A d \in RefreshCalls : RefreshHolds(d)'
  BY DEF IInv, CallsHold, RefreshHolds, Live, HeldSince
<1>4. \A d, e \in RefreshCalls :
          Swapping(d)' /\ Swapping(e)' /\ refreshes'[d].token = refreshes'[e].token => d = e
  BY DEF IInv, CallsHold, Swapping, Locked
<1>5. \A d \in LoginCalls : LoginHolds(d)'
  BY DEF IInv, CallsHold, LoginHolds, HeldSince
<1> QED
  BY <1>1, <1>2, <1>3, <1>4, <1>5 DEF IInv, CallsHold

(* A counter stays one. *)
LEMMA CountingTypes ==
    ASSUME now \in Nat, NEW counter \in Counter \cup {None}, NEW max \in Nat, NEW window \in Nat
    PROVE  countAttempt(counter, max, window) \in Counter
<1> USE NoneAssumption
<1>1. CASE counter = None
  BY <1>1 DEF countAttempt, Counter
<1>2. CASE counter # None
  <2>1. counter.count \in Nat /\ counter \in Counter
    BY <1>2 DEF Counter
  <2>2. countAttempt(counter, max, window) =
            [counter EXCEPT !.count = IF counter.count > max THEN counter.count ELSE counter.count + 1]
    BY <1>2 DEF countAttempt
  <2> QED
    BY <2>1, <2>2 DEF Counter
<1> QED
  BY <1>1, <1>2

LEMMA CountAddressStep ==
    ASSUME IInv, NEW c \in LoginCalls, NEW u \in Users, NEW a \in Addresses, CountAddress(c, u, a)
    PROVE  IInv'
<1> USE NoneAssumption, TimesAssumption
<1> DEFINE counted == countAttempt(ipAttempts[<<u, a>>], MaxPerIP, IPWindow)
           call == [step |-> "email", user |-> u, address |-> a, start |-> now, role |-> None]
<1>1. <<u, a>> \in Users \X Addresses /\ now \in Nat
  BY DEF IInv, TypeOK
<1>2. counted \in Counter
  BY <1>1, CountingTypes DEF IInv, TypeOK
<1>3. call \in Login
  BY <1>1 DEF Login
<1>4. /\ ipAttempts' = [ipAttempts EXCEPT ![<<u, a>>] = counted]
      /\ logins' = [logins EXCEPT ![c] = IF counted.count > MaxPerIP THEN None ELSE call]
      /\ UNCHANGED <<users, rows, emailAttempts, refreshes, access, now, lease, held, admitted>>
  BY DEF CountAddress
<1> HIDE DEF counted
<1>5. /\ ipAttempts' \in [Users \X Addresses -> Counter \cup {None}]
      /\ emailAttempts' \in [Users -> Counter \cup {None}]
      /\ admitted' \in [Users -> SUBSET Attempt]
  BY <1>2, <1>4 DEF IInv, TypeOK
<1>6. logins' \in [LoginCalls -> Login \cup {None}] /\ logins'[c] \in {None, call}
      /\ \A d \in LoginCalls : d # c => logins'[d] = logins[d]
  BY <1>3, <1>4 DEF IInv, TypeOK
<1>7. LoginHolds(c)'
  BY <1>1, <1>4, <1>6 DEF LoginHolds
<1> QED
  BY <1>4, <1>5, <1>6, <1>7, LoginCallStep

(* A call that goes on keeps who it is for and when it began. *)
LEMMA LoginGoesOn ==
    ASSUME IInv, NEW c \in LoginCalls, logins[c] # None, NEW call \in Login \cup {None},
           logins' = [logins EXCEPT ![c] = call],
           call # None =>
               /\ call.user = logins[c].user /\ call.start = logins[c].start
               /\ call.step \in {"reset", "issue"} => call.role # None
               /\ call.role # None => call.role = logins[c].role \/ HeldSince(call.user, call.role, call.start),
           UNCHANGED <<users, rows, refreshes, access, now, lease, held>>,
           ipAttempts' \in [Users \X Addresses -> Counter \cup {None}],
           emailAttempts' \in [Users -> Counter \cup {None}],
           admitted' \in [Users -> SUBSET Attempt]
    PROVE  IInv'
<1>1. logins' \in [LoginCalls -> Login \cup {None}] /\ logins'[c] = call
      /\ \A d \in LoginCalls : d # c => logins'[d] = logins[d]
  BY DEF IInv, TypeOK
<1>2. LoginHolds(c)'
  BY <1>1 DEF IInv, CallsHold, LoginHolds, HeldSince
<1> QED
  BY <1>1, <1>2, LoginCallStep

LEMMA CountEmailStep ==
    ASSUME IInv, NEW c \in LoginCalls, CountEmail(c)
    PROVE  IInv'
<1> USE NoneAssumption, TimesAssumption
<1> DEFINE u == logins[c].user
           counted == countAttempt(emailAttempts[u], MaxPerEmail, EmailWindow)
           next == [logins[c] EXCEPT !.step = "password"]
           attempt == [until |-> counted.until, number |-> counted.count, at |-> now]
           call == IF counted.count > MaxPerEmail THEN None ELSE next
<1>1. logins[c] \in Login /\ logins[c] # None /\ u \in Users /\ now \in Nat
  BY DEF CountEmail, IInv, TypeOK, Login
<1>2. counted \in Counter
  BY <1>1, CountingTypes DEF IInv, TypeOK
<1>3. next \in Login /\ next.user = u /\ next.start = logins[c].start /\ next.role = logins[c].role
      /\ next.step = "password"
  BY <1>1 DEF Login
<1>4. emailAttempts' = [emailAttempts EXCEPT ![u] = counted] /\ logins' = [logins EXCEPT ![c] = call]
      /\ UNCHANGED <<users, rows, ipAttempts, refreshes, access, now, lease, held>>
  BY DEF CountEmail
<1>5. admitted' = [admitted EXCEPT ![u] = IF counted.count > MaxPerEmail THEN @ ELSE @ \cup {attempt}]
  BY DEF CountEmail
<1>6. attempt \in Attempt
  BY <1>1, <1>2 DEF Attempt, Counter
<1> HIDE DEF counted, next, attempt
<1>7. /\ ipAttempts' \in [Users \X Addresses -> Counter \cup {None}]
      /\ emailAttempts' \in [Users -> Counter \cup {None}]
      /\ admitted' \in [Users -> SUBSET Attempt]
  BY <1>2, <1>4, <1>5, <1>6 DEF IInv, TypeOK
<1>8. call \in Login \cup {None} /\ (call # None => call = next)
  BY <1>3
<1> HIDE DEF call
<1> QED
  BY <1>1, <1>3, <1>4, <1>7, <1>8, LoginGoesOn

(* The role is the account's at this moment, and the account works. *)
LEMMA CheckPasswordStep ==
    ASSUME IInv, NEW c \in LoginCalls, NEW right \in BOOLEAN, CheckPassword(c, right)
    PROVE  IInv'
<1> USE NoneAssumption, TimesAssumption
<1> DEFINE u == logins[c].user
           next == [logins[c] EXCEPT !.step = "reset", !.role = users[u].role]
           call == IF right /\ Serves(users[u]) THEN next ELSE None
<1>1. logins[c] \in Login /\ logins[c] # None /\ u \in Users /\ users[u] \in Account
  BY DEF CheckPassword, IInv, TypeOK, Login
<1>2. next \in Login /\ next.user = u /\ next.start = logins[c].start /\ next.role = users[u].role
      /\ next.role # None
  BY <1>1 DEF Login, Account
<1>3. logins' = [logins EXCEPT ![c] = call]
      /\ UNCHANGED <<users, rows, attempts, refreshes, access, now, lease, held>>
  BY DEF CheckPassword
<1>4. /\ ipAttempts' \in [Users \X Addresses -> Counter \cup {None}]
      /\ emailAttempts' \in [Users -> Counter \cup {None}]
      /\ admitted' \in [Users -> SUBSET Attempt]
  BY <1>3 DEF IInv, TypeOK, attempts
<1>5. Serves(users[u]) => HeldSince(u, users[u].role, logins[c].start)
  <2>1. logins[c].start <= now
    BY <1>1 DEF IInv, CallsHold, LoginHolds
  <2>2. now # None
    BY DEF IInv, TypeOK
  <2> QED
    BY <1>1, <2>1, <2>2 DEF IInv, RolesHeld, HeldSince
<1>6. call \in Login \cup {None} /\ (call # None => call = next /\ Serves(users[u]))
  BY <1>2
<1> HIDE DEF call, next
<1> QED
  BY <1>1, <1>2, <1>3, <1>4, <1>5, <1>6, LoginGoesOn

LEMMA OtherLoginSteps ==
    ASSUME IInv, NEW c \in LoginCalls, ResetAddress(c) \/ LoginFails(c)
    PROVE  IInv'
<1> USE NoneAssumption, TimesAssumption
<1> DEFINE next == [logins[c] EXCEPT !.step = "issue"]
<1>1. logins[c] \in Login /\ logins[c] # None
  BY DEF ResetAddress, LoginFails, IInv, TypeOK
<1>2. next \in Login /\ next.user = logins[c].user /\ next.start = logins[c].start /\ next.role = logins[c].role
  BY <1>1 DEF Login
<1>3. /\ ipAttempts' \in [Users \X Addresses -> Counter \cup {None}]
      /\ emailAttempts' \in [Users -> Counter \cup {None}]
      /\ admitted' \in [Users -> SUBSET Attempt]
      /\ UNCHANGED <<users, rows, refreshes, access, now, lease, held>>
  BY DEF ResetAddress, LoginFails, IInv, TypeOK, attempts
<1>4. CASE ResetAddress(c)
  <2>1. logins' = [logins EXCEPT ![c] = next] /\ logins[c].role # None
    BY <1>4 DEF ResetAddress, IInv, CallsHold, LoginHolds
  <2> HIDE DEF next
  <2> QED
    BY <1>1, <1>2, <1>3, <2>1, LoginGoesOn
<1>5. CASE LoginFails(c)
  <2>1. logins' = [logins EXCEPT ![c] = None]
    BY <1>5 DEF LoginFails
  <2> QED
    BY <1>1, <1>3, <2>1, LoginGoesOn
<1> QED
  BY <1>4, <1>5

-----------------------------------------------------------------------------
(* Refreshes, up to where they write. *)

LEMMA StartRefreshStep ==
    ASSUME IInv, NEW c \in RefreshCalls, NEW t \in Tokens, StartRefresh(c, t)
    PROVE  IInv'
<1> USE NoneAssumption, TimesAssumption
<1> DEFINE call == [step |-> "rotate", token |-> t, start |-> now, role |-> None, doomed |-> {}, since |-> None]
<1>1. call \in Refresh /\ now \in Nat
  BY DEF Refresh, IInv, TypeOK
<1>2. /\ refreshes' = [refreshes EXCEPT ![c] = call]
      /\ UNCHANGED <<users, rows, attempts, logins, access, now, lease, held>>
  BY DEF StartRefresh
<1>3. refreshes' \in [RefreshCalls -> Refresh \cup {None}] /\ refreshes'[c] = call
      /\ \A d \in RefreshCalls : d # c => refreshes'[d] = refreshes[d]
  BY <1>1, <1>2 DEF IInv, TypeOK
<1>4. RefreshHolds(c)' /\ ~Swapping(c)'
  BY <1>1, <1>2, <1>3 DEF RefreshHolds, Swapping
<1> QED
  BY <1>2, <1>3, <1>4, RefreshCallStep

LEMMA TakeTokenStep ==
    ASSUME IInv, NEW c \in RefreshCalls, TakeToken(c)
    PROVE  IInv'
<1> USE NoneAssumption, TimesAssumption
<1> DEFINE t == refreshes[c].token
           owner == users[rows[t].user]
           role == IF Serves(owner) THEN owner.role ELSE None
           call == [refreshes[c] EXCEPT !.step = "swap", !.role = role]
<1>1. refreshes[c] \in Refresh /\ refreshes[c] # None /\ ~Locked(t) /\ Live(t, refreshes[c].start)
      /\ refreshes' = [refreshes EXCEPT ![c] = call]
      /\ UNCHANGED <<users, rows, attempts, logins, access, now, lease, held>>
  BY DEF TakeToken, IInv, TypeOK
<1>2. t \in Tokens /\ rows[t] \in Row /\ rows[t].user \in Users
  BY <1>1 DEF IInv, TypeOK, Refresh, Live, Row
<1>3. owner \in Account /\ owner.role \in Roles
  BY <1>2 DEF IInv, TypeOK, Account
<1>4. call \in Refresh /\ call.step = "swap" /\ call.role = role /\ call.token = t /\ call.start = refreshes[c].start
  BY <1>1, <1>3 DEF Refresh
<1>5. role # None => HeldSince(rows[t].user, role, refreshes[c].start)
  <2>1. refreshes[c].start <= now /\ now # None
    BY <1>1 DEF IInv, CallsHold, RefreshHolds, TypeOK
  <2> QED
    BY <1>2, <1>3, <2>1 DEF IInv, RolesHeld, HeldSince
<1> HIDE DEF call, role
<1>6. refreshes' \in [RefreshCalls -> Refresh \cup {None}] /\ refreshes'[c] = call
      /\ \A d \in RefreshCalls : d # c => refreshes'[d] = refreshes[d]
  BY <1>1, <1>4 DEF IInv, TypeOK
<1>7. RefreshHolds(c)'
  <2>1. refreshes[c].start <= now /\ now <= refreshes[c].start + CallLimit
    BY <1>1 DEF IInv, CallsHold, RefreshHolds
  <2> QED
    BY <1>1, <1>4, <1>5, <1>6, <2>1 DEF RefreshHolds, Live, HeldSince
<1>8. ~Locked(refreshes'[c].token)
  BY <1>1, <1>4, <1>6
<1> QED
  BY <1>1, <1>6, <1>7, <1>8, RefreshCallStep

LEMMA FindReuseStep ==
    ASSUME IInv, NEW c \in RefreshCalls, FindReuse(c)
    PROVE  IInv'
<1> USE NoneAssumption, TimesAssumption
<1> DEFINE t == refreshes[c].token
           reused == rows[t] # None /\ rows[t].revoked # None /\ rows[t].revoked + Grace < refreshes[c].start
           next == [refreshes[c] EXCEPT !.step = "revoke", !.doomed = SessionsOf(rows[t].user),
                                        !.since = rows[t].revoked]
           call == IF reused THEN next ELSE None
<1>1. refreshes[c] \in Refresh /\ refreshes[c] # None
      /\ refreshes' = [refreshes EXCEPT ![c] = call]
      /\ UNCHANGED <<users, rows, attempts, logins, access, now, lease, held>>
  BY DEF FindReuse, IInv, TypeOK
<1>2. reused => rows[t] \in Row /\ rows[t].revoked \in Nat
  BY <1>1 DEF IInv, TypeOK, Refresh, Row
<1>3. reused => next \in Refresh /\ next.step = "revoke" /\ next.since = rows[t].revoked
                /\ next.start = refreshes[c].start
  BY <1>1, <1>2 DEF Refresh, SessionsOf
<1>4. call # None => reused /\ call = next
  OBVIOUS
<1> HIDE DEF next
<1>5. call \in Refresh \cup {None}
  BY <1>3
<1> HIDE DEF call
<1>6. refreshes' \in [RefreshCalls -> Refresh \cup {None}] /\ refreshes'[c] = call
      /\ \A d \in RefreshCalls : d # c => refreshes'[d] = refreshes[d]
  BY <1>1, <1>5 DEF IInv, TypeOK
<1>7. RefreshHolds(c)' /\ ~Swapping(c)'
  <2>1. refreshes[c].start <= now /\ now <= refreshes[c].start + CallLimit
    BY <1>1 DEF IInv, CallsHold, RefreshHolds
  <2> QED
    BY <1>1, <1>2, <1>3, <1>4, <1>6, <2>1 DEF RefreshHolds, Swapping
<1> QED
  BY <1>1, <1>6, <1>7, RefreshCallStep

LEMMA RefreshFailsStep ==
    ASSUME IInv, NEW c \in RefreshCalls, RefreshFails(c)
    PROVE  IInv'
<1>1. refreshes' = [refreshes EXCEPT ![c] = None]
      /\ UNCHANGED <<users, rows, attempts, logins, access, now, lease, held>>
  BY DEF RefreshFails
<1>2. refreshes' \in [RefreshCalls -> Refresh \cup {None}] /\ refreshes'[c] = None
      /\ \A d \in RefreshCalls : d # c => refreshes'[d] = refreshes[d]
  BY <1>1 DEF IInv, TypeOK
<1>3. RefreshHolds(c)' /\ ~Swapping(c)'
  BY <1>2 DEF RefreshHolds, Swapping
<1> QED
  BY <1>1, <1>2, <1>3, RefreshCallStep

-----------------------------------------------------------------------------
(* Steps that write the table of tokens. *)

(* What such a step has to show: the rows some rotation holds stay as they are. *)
LEMMA RowsStep ==
    ASSUME IInv, UNCHANGED <<users, ipAttempts, emailAttempts, admitted, now, held>>,
           rows' \in [Tokens -> Row \cup {None}], lease' \in [Tokens -> Nat \cup {None}],
           access' \subseteq AccessToken,
           logins' \in [LoginCalls -> Login \cup {None}],
           \A d \in LoginCalls : logins'[d] \in {None, logins[d]},
           refreshes' \in [RefreshCalls -> Refresh \cup {None}],
           \A d \in RefreshCalls : refreshes'[d] \in {None, refreshes[d]},
           \A d \in RefreshCalls : Swapping(d)' => rows'[refreshes[d].token] = rows[refreshes[d].token],
           OneSession',
           \A a \in access' \ access :
               /\ now < a.expires
               /\ held[<<a.user, a.role>>] # None
               /\ a.expires <= held[<<a.user, a.role>>] + AccessTTL + CallLimit
    PROVE  IInv'
<1>1. TypeOK'
  BY DEF IInv, TypeOK
<1>2. RolesHeld'
  BY DEF IInv, RolesHeld
<1>3. \A d \in LoginCalls : LoginHolds(d)'
  BY DEF IInv, CallsHold, LoginHolds, HeldSince
<1>4. ASSUME NEW d \in RefreshCalls
      PROVE  RefreshHolds(d)'
  <2>1. CASE refreshes'[d] = None
    BY <2>1 DEF RefreshHolds
  <2>2. CASE refreshes'[d] # None
    <3>1. refreshes'[d] = refreshes[d] /\ RefreshHolds(d)
      BY <2>2 DEF IInv, CallsHold
    <3>2. CASE refreshes[d].step = "swap"
      <4>1. rows'[refreshes[d].token] = rows[refreshes[d].token]
        BY <2>2, <3>1, <3>2 DEF Swapping
      <4> QED
        BY <2>2, <3>1, <4>1 DEF RefreshHolds, HeldSince, Live
    <3>3. CASE refreshes[d].step # "swap"
      BY <2>2, <3>1, <3>3 DEF RefreshHolds
    <3> QED
      BY <3>2, <3>3
  <2> QED
    BY <2>1, <2>2
<1>5. \A d, e \in RefreshCalls :
          Swapping(d)' /\ Swapping(e)' /\ refreshes'[d].token = refreshes'[e].token => d = e
  BY DEF IInv, CallsHold, Swapping
<1> QED
  BY <1>1, <1>2, <1>3, <1>4, <1>5 DEF IInv, CallsHold

LEMMA RevokedRow ==
    ASSUME TypeOK, NEW t \in Tokens, rows[t] # None, NEW at \in Nat
    PROVE  /\ Revoked(t, at) \in Row /\ Revoked(t, at) # None /\ Revoked(t, at).revoked = at
           /\ Revoked(t, at).login = rows[t].login /\ Revoked(t, at).expires = rows[t].expires
           /\ Revoked(t, at).user = rows[t].user
<1>1. rows[t] \in Row
  BY DEF TypeOK
<1> QED
  BY <1>1, NoneAssumption DEF Revoked, Row

(* Revoking takes rows out of their sessions and puts none in. *)
LEMMA RevokingStep ==
    ASSUME IInv, NEW at \in Nat, NEW S \in SUBSET Tokens,
           \A t \in S : rows[t] # None,
           rows' = [t \in Tokens |-> IF t \in S THEN Revoked(t, at) ELSE rows[t]],
           UNCHANGED <<users, attempts, logins, access, now, lease, held>>,
           refreshes' \in [RefreshCalls -> Refresh \cup {None}],
           \A d \in RefreshCalls : refreshes'[d] \in {None, refreshes[d]},
           \A d \in RefreshCalls : Swapping(d)' => refreshes[d].token \notin S
    PROVE  IInv'
<1> USE NoneAssumption
<1>1. \A t \in Tokens : /\ rows'[t] \in Row \cup {None}
                        /\ rows'[t] = None <=> rows[t] = None
                        /\ rows[t] # None => rows'[t].login = rows[t].login /\ rows'[t].expires = rows[t].expires
                        /\ rows[t] # None /\ rows'[t].revoked = None => rows[t].revoked = None
  BY RevokedRow DEF IInv, TypeOK
<1>2. OneSession'
  <2>1. \A t \in Tokens : rows'[t] # None =>
            lease'[t] = rows'[t].expires /\ lease'[rows'[t].login] = rows'[t].expires
    BY <1>1 DEF IInv, OneSession
  <2> QED
    BY <1>1, <2>1 DEF IInv, OneSession
<1>3. \A d \in RefreshCalls : Swapping(d)' => rows'[refreshes[d].token] = rows[refreshes[d].token]
  <2>1. \A d \in RefreshCalls : Swapping(d)' => refreshes[d].token \in Tokens
    BY DEF Swapping, IInv, TypeOK, Refresh
  <2> QED
    BY <2>1
<1>4. rows' \in [Tokens -> Row \cup {None}]
  BY <1>1
<1> QED
  BY <1>2, <1>3, <1>4, RowsStep DEF attempts, IInv, TypeOK

LEMMA LogoutStep ==
    ASSUME IInv, NEW t \in Tokens, Logout(t)
    PROVE  IInv'
<1>1. rows' = [other \in Tokens |-> IF other \in {t} THEN Revoked(other, now) ELSE rows[other]]
      /\ rows[t] # None /\ ~Locked(t) /\ UNCHANGED <<users, attempts, logins, refreshes, access, now, lease, held>>
  BY DEF Logout, IInv, TypeOK
<1>2. \A d \in RefreshCalls : Swapping(d)' => refreshes[d].token \notin {t}
  BY <1>1 DEF Swapping, Locked
<1>3. now \in Nat /\ refreshes' \in [RefreshCalls -> Refresh \cup {None}]
  BY <1>1 DEF IInv, TypeOK
<1> QED
  BY <1>1, <1>2, <1>3, RevokingStep

(* Nobody but its own call has the row of a rotation. *)
LEMMA EndedCall ==
    ASSUME IInv, NEW c \in RefreshCalls, refreshes[c] # None, refreshes' = [refreshes EXCEPT ![c] = None]
    PROVE  /\ refreshes' \in [RefreshCalls -> Refresh \cup {None}]
           /\ \A d \in RefreshCalls : refreshes'[d] \in {None, refreshes[d]}
           /\ refreshes[c].start \in Nat /\ refreshes[c].token \in Tokens
           /\ Swapping(c) => \A d \in RefreshCalls : Swapping(d)' => refreshes[d].token # refreshes[c].token
<1>1. refreshes' \in [RefreshCalls -> Refresh \cup {None}]
      /\ refreshes'[c] = None /\ \A d \in RefreshCalls : d # c => refreshes'[d] = refreshes[d]
  BY DEF IInv, TypeOK
<1>2. refreshes[c] \in Refresh
  BY DEF IInv, TypeOK
<1>3. ASSUME Swapping(c), NEW d \in RefreshCalls, Swapping(d)'
      PROVE  refreshes[d].token # refreshes[c].token
  <2>1. d # c /\ Swapping(d)
    BY <1>1, <1>3 DEF Swapping
  <2> QED
    BY <1>3, <2>1 DEF IInv, CallsHold
<1> QED
  BY <1>1, <1>2, <1>3 DEF Refresh

LEMMA RefuseOwnerStep ==
    ASSUME IInv, NEW c \in RefreshCalls, RefuseOwner(c)
    PROVE  IInv'
<1> DEFINE old == refreshes[c].token
           at == refreshes[c].start
<1>1. refreshes[c] # None /\ Swapping(c) /\ refreshes' = [refreshes EXCEPT ![c] = None]
      /\ rows' = [rows EXCEPT ![old] = Revoked(old, at)]
      /\ UNCHANGED <<users, attempts, logins, access, now, lease, held>>
  BY DEF RefuseOwner, Swapping
<1>2. rows[old] # None
  BY <1>1 DEF IInv, CallsHold, RefreshHolds, Swapping, Live
<1>3. rows' = [t \in Tokens |-> IF t \in {old} THEN Revoked(t, at) ELSE rows[t]]
  BY <1>1, EndedCall DEF IInv, TypeOK
<1>4. at \in Nat /\ {old} \in SUBSET Tokens /\ refreshes' \in [RefreshCalls -> Refresh \cup {None}]
      /\ (\A d \in RefreshCalls : refreshes'[d] \in {None, refreshes[d]})
      /\ \A d \in RefreshCalls : Swapping(d)' => refreshes[d].token \notin {old}
  BY <1>1, EndedCall
<1> HIDE DEF old, at
<1> QED
  BY <1>1, <1>2, <1>3, <1>4, RevokingStep

LEMMA RevokeAllStep ==
    ASSUME IInv, NEW c \in RefreshCalls, RevokeAll(c)
    PROVE  IInv'
<1> DEFINE at == refreshes[c].start
           S == {t \in Tokens : t \in refreshes[c].doomed /\ rows[t] # None /\ rows[t].revoked = None}
<1>1. refreshes[c] # None /\ refreshes' = [refreshes EXCEPT ![c] = None]
      /\ rows' = [t \in Tokens |-> IF t \in S THEN Revoked(t, at) ELSE rows[t]]
      /\ (\A t \in S : rows[t] # None /\ ~Locked(t))
      /\ UNCHANGED <<users, attempts, logins, access, now, lease, held>>
  BY DEF RevokeAll
<1>2. at \in Nat /\ S \in SUBSET Tokens /\ refreshes' \in [RefreshCalls -> Refresh \cup {None}]
      /\ (\A d \in RefreshCalls : refreshes'[d] \in {None, refreshes[d]})
  BY <1>1, EndedCall
<1> HIDE DEF at, S
<1>3. ASSUME NEW d \in RefreshCalls, Swapping(d)'
      PROVE  refreshes[d].token \notin S
  <2>1. refreshes'[d] = refreshes[d] /\ Swapping(d)
    BY <1>2, <1>3 DEF Swapping
  <2> QED
    BY <1>1, <2>1 DEF Swapping, Locked
<1> QED
  BY <1>1, <1>2, <1>3, RevokingStep

(* A token that was never handed out is in no row, as token or as login. *)
LEMMA FreshIsNew ==
    ASSUME IInv, NEW t \in Tokens, Fresh(t)
    PROVE  rows[t] = None /\ \A x \in Tokens : rows[x] # None => rows[x].login # t /\ rows[x] \in Row
BY NoneAssumption DEF IInv, OneSession, Fresh, TypeOK, Row

(* An access token signed for what was held since a call began, while the call may run. *)
LEMMA SignedIsRecent ==
    ASSUME IInv, NEW u \in Users, NEW role \in Roles, NEW start \in Nat,
           HeldSince(u, role, start), now <= start + CallLimit
    PROVE  /\ signed(u, role) \in AccessToken
           /\ now < signed(u, role).expires
           /\ held[<<signed(u, role).user, signed(u, role).role>>] # None
           /\ signed(u, role).expires <= held[<<signed(u, role).user, signed(u, role).role>>] + AccessTTL + CallLimit
<1>1. now \in Nat /\ AccessTTL \in Nat \ {0} /\ CallLimit \in Nat
  BY TimesAssumption DEF IInv, TypeOK
<1>2. <<u, role>> \in Users \X Roles
  OBVIOUS
<1>3. held[<<u, role>>] \in Nat /\ start <= held[<<u, role>>]
  BY <1>2 DEF HeldSince, IInv, TypeOK
<1>4. signed(u, role).user = u /\ signed(u, role).role = role /\ signed(u, role).expires = now + AccessTTL
  BY DEF signed
<1>5. signed(u, role) \in AccessToken
  BY <1>1 DEF signed, AccessToken
<1>6. now + AccessTTL <= held[<<u, role>>] + AccessTTL + CallLimit
  BY <1>1, <1>3
<1> QED
  BY <1>1, <1>3, <1>4, <1>5, <1>6, NoneAssumption

LEMMA IssueStep ==
    ASSUME IInv, NEW c \in LoginCalls, NEW t \in Tokens, Issue(c, t)
    PROVE  IInv'
<1> USE NoneAssumption, TimesAssumption
<1> DEFINE u == logins[c].user
           role == logins[c].role
           start == logins[c].start
           row == [user |-> u, login |-> t, expires |-> now + RefreshTTL, revoked |-> None]
           gone == ExpiredOf(u)
<1>1. /\ logins[c] # None /\ Fresh(t) /\ role # None
      /\ \A old \in gone : ~Locked(old)
      /\ rows' = [other \in Tokens |-> IF other = t THEN row ELSE IF other \in gone THEN None ELSE rows[other]]
      /\ access' = access \cup {signed(u, role)}
      /\ lease' = [lease EXCEPT ![t] = now + RefreshTTL]
      /\ logins' = [logins EXCEPT ![c] = None]
      /\ UNCHANGED <<users, attempts, refreshes, now, held>>
  BY DEF Issue, IInv, CallsHold, LoginHolds
<1>2. u \in Users /\ role \in Roles /\ start \in Nat /\ now \in Nat
  BY <1>1 DEF IInv, TypeOK, Login
<1>3. HeldSince(u, role, start) /\ now <= start + CallLimit
  BY <1>1 DEF IInv, CallsHold, LoginHolds
<1>4. row \in Row /\ row.login = t /\ row.expires = now + RefreshTTL /\ row.expires \in Nat
  BY <1>2 DEF Row
<1>5. rows[t] = None /\ \A x \in Tokens : rows[x] # None => rows[x].login # t /\ rows[x] \in Row
  BY <1>1, FreshIsNew
<1> HIDE DEF u, role, start, row, gone
<1>6. \A x \in Tokens : x # t => rows'[x] \in {None, rows[x]} /\ lease'[x] = lease[x]
  BY <1>1 DEF IInv, TypeOK
<1>7. rows'[t] = row /\ lease'[t] = row.expires
  BY <1>1, <1>4 DEF IInv, TypeOK
<1>8. rows' \in [Tokens -> Row \cup {None}]
  <2>1. \A x \in Tokens : rows'[x] \in Row \cup {None}
    BY <1>4, <1>6, <1>7 DEF IInv, TypeOK
  <2> QED
    BY <1>1, <2>1
<1>9. OneSession'
  <2>1. ASSUME NEW x \in Tokens, rows'[x] # None
        PROVE  lease'[x] = rows'[x].expires /\ lease'[rows'[x].login] = rows'[x].expires
    <3>1. CASE x = t
      BY <1>4, <1>7, <3>1
    <3>2. CASE x # t
      <4>1. rows'[x] = rows[x] /\ rows[x].login # t /\ rows[x].login \in Tokens
        BY <1>5, <1>6, <2>1, <3>2 DEF Row
      <4> QED
        BY <1>6, <2>1, <3>2, <4>1 DEF IInv, OneSession
    <3> QED
      BY <3>1, <3>2
  <2>2. ASSUME NEW x \in Tokens, NEW y \in Tokens, x # y, rows'[x] # None, rows'[x].revoked = None,
               rows'[y] # None, rows'[y].revoked = None, rows'[x].login = rows'[y].login
        PROVE  FALSE
    <3>1. x # t /\ y # t
      BY <1>4, <1>5, <1>6, <1>7, <2>2
    <3> QED
      BY <1>6, <2>2, <3>1 DEF IInv, OneSession
  <2> QED
    BY <2>1, <2>2 DEF OneSession
<1>10. ASSUME NEW d \in RefreshCalls, Swapping(d)'
       PROVE  rows'[refreshes[d].token] = rows[refreshes[d].token]
  <2>1. Swapping(d) /\ refreshes[d].token \in Tokens
    BY <1>1, <1>10 DEF Swapping, IInv, TypeOK, Refresh
  <2>2. rows[refreshes[d].token] # None /\ Locked(refreshes[d].token)
    BY <2>1 DEF Swapping, Locked, IInv, CallsHold, RefreshHolds, Live
  <2> QED
    BY <1>1, <1>5, <2>1, <2>2
<1>11. access' \subseteq AccessToken
       /\ \A a \in access' \ access : /\ now < a.expires
                                      /\ held[<<a.user, a.role>>] # None
                                      /\ a.expires <= held[<<a.user, a.role>>] + AccessTTL + CallLimit
  <2>1. \A a \in access' \ access : a = signed(u, role)
    BY <1>1
  <2> QED
    BY <1>1, <1>2, <1>3, <2>1, SignedIsRecent DEF IInv, TypeOK
<1>12. lease' \in [Tokens -> Nat \cup {None}] /\ logins' \in [LoginCalls -> Login \cup {None}]
       /\ \A d \in LoginCalls : logins'[d] \in {None, logins[d]}
  BY <1>1, <1>2 DEF IInv, TypeOK
<1>13. refreshes' \in [RefreshCalls -> Refresh \cup {None}]
       /\ \A d \in RefreshCalls : refreshes'[d] \in {None, refreshes[d]}
  BY <1>1 DEF IInv, TypeOK
<1>14. UNCHANGED <<users, ipAttempts, emailAttempts, admitted, now, held>>
  BY <1>1 DEF attempts
<1> QED
  BY <1>8, <1>9, <1>10, <1>11, <1>12, <1>13, <1>14, RowsStep

(* The new token takes the place of the old one in its session, to the same end. *)
LEMMA RotateStep ==
    ASSUME IInv, NEW c \in RefreshCalls, NEW t \in Tokens, Rotate(c, t)
    PROVE  IInv'
<1> USE NoneAssumption, TimesAssumption
<1> DEFINE old == refreshes[c].token
           start == refreshes[c].start
           role == refreshes[c].role
<1>1. /\ refreshes[c] # None /\ Swapping(c) /\ role # None /\ Fresh(t)
      /\ rows' = [rows EXCEPT ![old] = Revoked(old, start), ![t] = rows[old]]
      /\ access' = access \cup {signed(rows[old].user, role)}
      /\ lease' = [lease EXCEPT ![t] = rows[old].expires]
      /\ refreshes' = [refreshes EXCEPT ![c] = None]
      /\ UNCHANGED <<users, attempts, logins, now, held>>
  BY DEF Rotate, Swapping
<1>2. old \in Tokens /\ start \in Nat /\ role \in Roles
  BY <1>1 DEF IInv, TypeOK, Refresh
<1>3. /\ rows[old] # None /\ rows[old].revoked = None /\ now <= start + CallLimit
      /\ HeldSince(rows[old].user, role, start)
  BY <1>1 DEF IInv, CallsHold, RefreshHolds, Swapping, Live
<1>4. rows[old] \in Row /\ rows[old].user \in Users /\ rows[old].expires \in Nat
  BY <1>2, <1>3 DEF IInv, TypeOK, Row
<1>5. rows[t] = None /\ t # old /\ \A x \in Tokens : rows[x] # None => rows[x].login # t /\ rows[x] \in Row
  BY <1>1, <1>3, FreshIsNew
<1>6. /\ refreshes' \in [RefreshCalls -> Refresh \cup {None}]
      /\ \A d \in RefreshCalls : refreshes'[d] \in {None, refreshes[d]}
      /\ \A d \in RefreshCalls : Swapping(d)' => refreshes[d].token # old
  BY <1>1, EndedCall
<1> HIDE DEF old, start, role
<1>7. /\ rows'[t] = rows[old] /\ lease'[t] = rows[old].expires
      /\ rows'[old] \in Row /\ rows'[old] # None /\ rows'[old].revoked # None
      /\ rows'[old].login = rows[old].login /\ rows'[old].expires = rows[old].expires
      /\ \A x \in Tokens : x # t /\ x # old => rows'[x] = rows[x]
      /\ \A x \in Tokens : x # t => lease'[x] = lease[x]
  <2>1. rows'[old] = Revoked(old, start)
    BY <1>1, <1>2, <1>5 DEF IInv, TypeOK
  <2>2. /\ Revoked(old, start) \in Row /\ Revoked(old, start) # None /\ Revoked(old, start).revoked = start
        /\ Revoked(old, start).login = rows[old].login /\ Revoked(old, start).expires = rows[old].expires
    BY <1>2, <1>3, RevokedRow DEF IInv
  <2> QED
    BY <1>1, <1>2, <1>5, <2>1, <2>2 DEF IInv, TypeOK
<1>8. rows' \in [Tokens -> Row \cup {None}] /\ lease' \in [Tokens -> Nat \cup {None}]
  <2>1. \A x \in Tokens : rows'[x] \in Row \cup {None}
    BY <1>4, <1>7 DEF IInv, TypeOK
  <2> QED
    BY <1>1, <1>4, <2>1 DEF IInv, TypeOK
<1>9. OneSession'
  <2>1. ASSUME NEW x \in Tokens, rows'[x] # None
        PROVE  lease'[x] = rows'[x].expires /\ lease'[rows'[x].login] = rows'[x].expires
    <3> DEFINE y == IF x = t THEN old ELSE x
    <3>1. y \in Tokens /\ rows[y] # None /\ rows'[x].login = rows[y].login /\ rows'[x].expires = rows[y].expires
      BY <1>2, <1>3, <1>7, <2>1
    <3>2. rows[y].login # t /\ rows[y].login \in Tokens
      BY <1>5, <3>1 DEF Row
    <3>3. lease[y] = rows[y].expires /\ lease[rows[y].login] = rows[y].expires
      BY <3>1 DEF IInv, OneSession
    <3> QED
      BY <1>7, <3>1, <3>2, <3>3
  <2>2. ASSUME NEW x \in Tokens, NEW y \in Tokens, x # y, rows'[x] # None, rows'[x].revoked = None,
               rows'[y] # None, rows'[y].revoked = None, rows'[x].login = rows'[y].login
        PROVE  FALSE
    <3>1. x # old /\ y # old
      BY <1>7, <2>2
    <3>2. x = t => rows[y].login = rows[old].login
      BY <1>7, <2>2, <3>1
    <3>3. y = t => rows[x].login = rows[old].login
      BY <1>7, <2>2, <3>1
    <3> QED
      BY <1>2, <1>3, <1>7, <2>2, <3>1, <3>2, <3>3 DEF IInv, OneSession
  <2> QED
    BY <2>1, <2>2 DEF OneSession
<1>10. ASSUME NEW d \in RefreshCalls, Swapping(d)'
       PROVE  rows'[refreshes[d].token] = rows[refreshes[d].token]
  <2>1. Swapping(d) /\ refreshes[d].token \in Tokens /\ refreshes[d].token # old
    BY <1>6, <1>10 DEF Swapping, IInv, TypeOK, Refresh
  <2>2. rows[refreshes[d].token] # None
    BY <2>1 DEF Swapping, IInv, CallsHold, RefreshHolds, Live
  <2> QED
    BY <1>5, <1>7, <2>1, <2>2
<1>11. access' \subseteq AccessToken
       /\ \A a \in access' \ access : /\ now < a.expires
                                      /\ held[<<a.user, a.role>>] # None
                                      /\ a.expires <= held[<<a.user, a.role>>] + AccessTTL + CallLimit
  <2> DEFINE u == rows[old].user
  <2>1. access' = access \cup {signed(u, role)}
    BY <1>1
  <2>2. u \in Users /\ HeldSince(u, role, start)
    BY <1>3, <1>4
  <2> HIDE DEF u
  <2>3. /\ signed(u, role) \in AccessToken
        /\ now < signed(u, role).expires
        /\ held[<<signed(u, role).user, signed(u, role).role>>] # None
        /\ signed(u, role).expires <=
               held[<<signed(u, role).user, signed(u, role).role>>] + AccessTTL + CallLimit
    BY <1>2, <1>3, <2>2, SignedIsRecent
  <2> HIDE DEF signed
  <2> QED
    BY <2>1, <2>3 DEF IInv, TypeOK
<1>12. logins' \in [LoginCalls -> Login \cup {None}] /\ \A d \in LoginCalls : logins'[d] \in {None, logins[d]}
  BY <1>1 DEF IInv, TypeOK
<1>13. UNCHANGED <<users, ipAttempts, emailAttempts, admitted, now, held>>
  BY <1>1 DEF attempts
<1> QED
  BY <1>6, <1>8, <1>9, <1>10, <1>11, <1>12, <1>13, RowsStep

-----------------------------------------------------------------------------
(* Accounts and time. *)

LEMMA ChangeAccountStep ==
    ASSUME IInv, NEW u \in Users, NEW account \in Accounts, ChangeAccount(u, account)
    PROVE  IInv'
<1> USE NoneAssumption, TimesAssumption
<1>1. /\ users' = [users EXCEPT ![u] = account]
      /\ held' = [held EXCEPT ![<<u, account.role>>] =
             IF Serves(account) THEN now ELSE held[<<u, account.role>>]]
      /\ UNCHANGED <<rows, attempts, logins, refreshes, access, now, lease>>
  BY DEF ChangeAccount
<1>2. account \in Account /\ account.role \in Roles /\ now \in Nat
  BY AccountsAssumption DEF Account, IInv, TypeOK
<1>3. <<u, account.role>> \in Users \X Roles
  BY <1>2
<1>4. /\ \A k \in Users \X Roles : held'[k] = held[k] \/ (held'[k] = now /\ k = <<u, account.role>>)
      /\ Serves(account) => held'[<<u, account.role>>] = now
      /\ users'[u] = account /\ \A v \in Users : v # u => users'[v] = users[v]
  BY <1>1, <1>3 DEF IInv, TypeOK
<1>5. TypeOK'
  <2>1. users' \in [Users -> Account]
    BY <1>1, <1>2 DEF IInv, TypeOK
  <2>2. held' \in [Users \X Roles -> Nat \cup {None}]
    BY <1>1, <1>2, <1>3 DEF IInv, TypeOK
  <2> QED
    BY <1>1, <2>1, <2>2 DEF IInv, TypeOK, attempts
<1>6. OneSession'
  BY <1>1 DEF IInv, OneSession
<1>7. ASSUME NEW v \in Users, NEW role \in Roles, NEW at \in Nat, HeldSince(v, role, at), at <= now
      PROVE  HeldSince(v, role, at)'
  <2>1. <<v, role>> \in Users \X Roles
    OBVIOUS
  <2> QED
    BY <1>2, <1>4, <1>7, <2>1 DEF HeldSince
<1>8. CallsHold'
  <2>1. ASSUME NEW d \in LoginCalls
        PROVE  LoginHolds(d)'
    <3>1. logins[d] # None => logins[d].user \in Users /\ logins[d].role \in Roles \cup {None} /\ logins[d].start \in Nat
      BY DEF IInv, TypeOK, Login
    <3> QED
      BY <1>1, <1>7, <3>1 DEF IInv, CallsHold, LoginHolds
  <2>2. ASSUME NEW d \in RefreshCalls
        PROVE  RefreshHolds(d)'
    <3>1. refreshes[d] # None =>
              refreshes[d].token \in Tokens /\ refreshes[d].role \in Roles \cup {None} /\ refreshes[d].start \in Nat
      BY DEF IInv, TypeOK, Refresh
    <3>2. Swapping(d) => rows[refreshes[d].token].user \in Users
      BY <3>1 DEF IInv, CallsHold, RefreshHolds, Swapping, Live, TypeOK, Row
    <3> QED
      BY <1>1, <1>7, <3>1, <3>2 DEF IInv, CallsHold, RefreshHolds, Swapping, Live
  <2> QED
    BY <1>1, <2>1, <2>2 DEF IInv, CallsHold, Swapping
<1>9. RolesHeld'
  <2>1. ASSUME NEW v \in Users, Serves(users'[v])
        PROVE  held'[<<v, users'[v].role>>] = now'
    <3>1. CASE v = u
      BY <1>1, <1>4, <2>1, <3>1
    <3>2. CASE v # u
      <4>1. users'[v] = users[v] /\ users[v].role \in Roles /\ <<v, users[v].role>> \in Users \X Roles
        BY <1>4, <3>2 DEF IInv, TypeOK, Account
      <4> QED
        BY <1>1, <1>4, <2>1, <4>1 DEF IInv, RolesHeld
    <3> QED
      BY <3>1, <3>2
  <2>2. ASSUME NEW k \in Users \X Roles, held'[k] # None
        PROVE  held'[k] <= now'
    BY <1>1, <1>2, <1>4, <2>2 DEF IInv, RolesHeld
  <2>3. ASSUME NEW a \in access
        PROVE  /\ now' < a.expires
               /\ held'[<<a.user, a.role>>] # None
               /\ a.expires <= held'[<<a.user, a.role>>] + AccessTTL + CallLimit
    <3>1. a.user \in Users /\ a.role \in Roles /\ a.expires \in Nat
      BY DEF IInv, TypeOK, AccessToken
    <3>2. <<a.user, a.role>> \in Users \X Roles
      BY <3>1
    <3>3. /\ now < a.expires /\ held[<<a.user, a.role>>] # None
          /\ a.expires <= held[<<a.user, a.role>>] + AccessTTL + CallLimit
      BY DEF IInv, RolesHeld
    <3>4. held[<<a.user, a.role>>] \in Nat /\ held[<<a.user, a.role>>] <= now
      BY <3>2, <3>3 DEF IInv, RolesHeld, TypeOK
    <3>5. held'[<<a.user, a.role>>] \in {held[<<a.user, a.role>>], now}
      BY <1>4, <3>2
    <3> QED
      BY <1>1, <1>2, <3>1, <3>3, <3>4, <3>5
  <2> QED
    BY <1>1, <2>1, <2>2, <2>3 DEF RolesHeld
<1> QED
  BY <1>5, <1>6, <1>8, <1>9 DEF IInv

LEMMA TickStep ==
    ASSUME IInv, Tick
    PROVE  IInv'
<1> USE NoneAssumption, TimesAssumption
<1>1. /\ now' = now + 1 /\ now \in Nat
      /\ \A d \in LoginCalls : logins[d] # None => now < logins[d].start + CallLimit
      /\ \A d \in RefreshCalls : refreshes[d] # None => now < refreshes[d].start + CallLimit
      /\ access' = {a \in access : now' < a.expires}
      /\ UNCHANGED <<users, rows, logins, refreshes, lease>>
  BY DEF Tick, IInv, TypeOK
<1>2. ASSUME NEW k \in Users \X Roles
      PROVE  held'[k] = IF Serves(users[k[1]]) /\ users[k[1]].role = k[2] THEN now' ELSE held[k]
  BY DEF Tick
<1>3. \A k \in Users \X Roles : /\ held'[k] \in {held[k], now'}
                                /\ held[k] # None => held[k] <= now
  BY <1>2 DEF IInv, RolesHeld
<1>4. TypeOK'
  <2>1. held' \in [Users \X Roles -> Nat \cup {None}]
    <3>1. \A k \in Users \X Roles : held'[k] \in Nat \cup {None}
      BY <1>1, <1>3 DEF IInv, TypeOK
    <3> QED
      BY <3>1 DEF Tick
  <2>2. admitted' \in [Users -> SUBSET Attempt]
    BY DEF Tick, IInv, TypeOK
  <2>3. /\ ipAttempts' \in [Users \X Addresses -> Counter \cup {None}]
        /\ emailAttempts' \in [Users -> Counter \cup {None}]
    BY DEF Tick, IInv, TypeOK
  <2>4. access' \subseteq AccessToken
    BY <1>1 DEF IInv, TypeOK
  <2> QED
    BY <1>1, <2>1, <2>2, <2>3, <2>4 DEF IInv, TypeOK
<1>5. OneSession'
  BY <1>1 DEF IInv, OneSession
<1>6. ASSUME NEW v \in Users, NEW role \in Roles, NEW at \in Nat, HeldSince(v, role, at), at <= now
      PROVE  HeldSince(v, role, at)'
  <2>1. <<v, role>> \in Users \X Roles
    OBVIOUS
  <2> QED
    BY <1>1, <1>3, <1>6, <2>1 DEF HeldSince
<1>7. CallsHold'
  <2>1. ASSUME NEW d \in LoginCalls
        PROVE  LoginHolds(d)'
    <3>1. logins[d] # None => logins[d].user \in Users /\ logins[d].role \in Roles \cup {None} /\ logins[d].start \in Nat
      BY DEF IInv, TypeOK, Login
    <3>2. CASE logins[d] # None
      <4>1. now' <= logins[d].start + CallLimit /\ logins[d].start <= now'
        BY <1>1, <3>1, <3>2 DEF IInv, CallsHold, LoginHolds
      <4> QED
        BY <1>1, <1>6, <3>1, <3>2, <4>1 DEF IInv, CallsHold, LoginHolds
    <3> QED
      BY <1>1, <3>2 DEF LoginHolds
  <2>2. ASSUME NEW d \in RefreshCalls
        PROVE  RefreshHolds(d)'
    <3>1. refreshes[d] # None =>
              refreshes[d].token \in Tokens /\ refreshes[d].role \in Roles \cup {None} /\ refreshes[d].start \in Nat
      BY DEF IInv, TypeOK, Refresh
    <3>2. Swapping(d) => rows[refreshes[d].token].user \in Users
      BY <3>1 DEF IInv, CallsHold, RefreshHolds, Swapping, Live, TypeOK, Row
    <3>3. CASE refreshes[d] # None
      <4>1. now' <= refreshes[d].start + CallLimit /\ refreshes[d].start <= now' /\ refreshes[d].start <= now
        BY <1>1, <3>1, <3>3 DEF IInv, CallsHold, RefreshHolds
      <4> QED
        BY <1>1, <1>6, <3>1, <3>2, <3>3, <4>1 DEF IInv, CallsHold, RefreshHolds, Swapping, Live
    <3> QED
      BY <1>1, <3>3 DEF RefreshHolds
  <2> QED
    BY <1>1, <2>1, <2>2 DEF IInv, CallsHold, Swapping
<1>8. RolesHeld'
  <2>1. ASSUME NEW v \in Users, Serves(users'[v])
        PROVE  held'[<<v, users'[v].role>>] = now'
    <3>1. users[v].role \in Roles /\ <<v, users[v].role>> \in Users \X Roles
      BY DEF IInv, TypeOK, Account
    <3> QED
      BY <1>1, <1>2, <2>1, <3>1
  <2>2. ASSUME NEW k \in Users \X Roles, held'[k] # None
        PROVE  held'[k] <= now'
    <3>1. held[k] \in Nat \cup {None}
      BY DEF IInv, TypeOK
    <3> QED
      BY <1>1, <1>3, <2>2, <3>1
  <2>3. ASSUME NEW a \in access'
        PROVE  /\ now' < a.expires
               /\ held'[<<a.user, a.role>>] # None
               /\ a.expires <= held'[<<a.user, a.role>>] + AccessTTL + CallLimit
    <3>1. a \in access /\ now' < a.expires /\ a.user \in Users /\ a.role \in Roles /\ a.expires \in Nat
      BY <1>1 DEF IInv, TypeOK, AccessToken
    <3>2. <<a.user, a.role>> \in Users \X Roles
      BY <3>1
    <3>3. held[<<a.user, a.role>>] # None /\ a.expires <= held[<<a.user, a.role>>] + AccessTTL + CallLimit
      BY <3>1 DEF IInv, RolesHeld
    <3>4. held[<<a.user, a.role>>] \in Nat /\ held[<<a.user, a.role>>] <= now
      BY <3>2, <3>3 DEF IInv, RolesHeld, TypeOK
    <3>5. held'[<<a.user, a.role>>] \in {held[<<a.user, a.role>>], now'}
      BY <1>3, <3>2
    <3> QED
      BY <1>1, <3>1, <3>3, <3>4, <3>5
  <2> QED
    BY <2>1, <2>2, <2>3 DEF RolesHeld
<1> QED
  BY <1>4, <1>5, <1>7, <1>8 DEF IInv

-----------------------------------------------------------------------------
(* Every step keeps the invariant. *)
LEMMA StepIInv ==
    ASSUME IInv, [Next]_vars
    PROVE  IInv'
<1>1. CASE LoginStep
  BY <1>1, CountAddressStep, CountEmailStep, CheckPasswordStep, OtherLoginSteps, IssueStep DEF LoginStep
<1>2. CASE RefreshStep
  BY <1>2, StartRefreshStep, RotateStep, TakeTokenStep, RefuseOwnerStep, FindReuseStep, RevokeAllStep,
     RefreshFailsStep DEF RefreshStep
<1>3. CASE \E t \in Tokens : Logout(t)
  BY <1>3, LogoutStep
<1>4. CASE \E u \in Users, account \in Accounts : ChangeAccount(u, account)
  BY <1>4, ChangeAccountStep
<1>5. CASE Tick
  BY <1>5, TickStep
<1>6. CASE UNCHANGED vars
  BY <1>6 DEF vars, IInv, TypeOK, OneSession, CallsHold, RolesHeld, LoginHolds, RefreshHolds, Swapping,
              Live, HeldSince
<1> QED
  BY <1>1, <1>2, <1>3, <1>4, <1>5, <1>6 DEF Next

(* What is left of a table whose rows were revoked. *)
LEMMA Revoking ==
    ASSUME IInv,
           \/ \E t \in Tokens : Logout(t)
           \/ \E c \in RefreshCalls : RefuseOwner(c) \/ RevokeAll(c)
    PROVE  /\ UNCHANGED <<now, lease>>
           /\ \A x \in Tokens :
                  \/ rows'[x] = rows[x]
                  \/ rows'[x] # None /\ rows'[x].revoked # None /\ rows'[x].login = rows[x].login
<1> USE NoneAssumption
<1>1. CASE \E t \in Tokens : Logout(t)
  <2>1. PICK t \in Tokens : Logout(t)
    BY <1>1
  <2>2. rows'[t] = Revoked(t, now) /\ rows[t] # None /\ now \in Nat /\ \A x \in Tokens : x # t => rows'[x] = rows[x]
    BY <2>1 DEF Logout, IInv, TypeOK
  <2> QED
    BY <2>1, <2>2, RevokedRow DEF Logout, IInv
<1>2. CASE \E c \in RefreshCalls : RefuseOwner(c)
  <2>1. PICK c \in RefreshCalls : RefuseOwner(c)
    BY <1>2
  <2> DEFINE old == refreshes[c].token
             at == refreshes[c].start
  <2>2. old \in Tokens /\ at \in Nat /\ rows[old] # None
    BY <2>1 DEF RefuseOwner, IInv, TypeOK, Refresh, CallsHold, RefreshHolds, Live
  <2>3. rows'[old] = Revoked(old, at) /\ \A x \in Tokens : x # old => rows'[x] = rows[x]
    BY <2>1, <2>2 DEF RefuseOwner, IInv, TypeOK
  <2>4. rows'[old] # None /\ rows'[old].revoked = at /\ rows'[old].login = rows[old].login
    BY <2>2, <2>3, RevokedRow DEF IInv
  <2> QED
    BY <2>1, <2>2, <2>3, <2>4 DEF RefuseOwner
<1>3. CASE \E c \in RefreshCalls : RevokeAll(c)
  <2>1. PICK c \in RefreshCalls : RevokeAll(c)
    BY <1>3
  <2> DEFINE at == refreshes[c].start
  <2>2. at \in Nat
    BY <2>1 DEF RevokeAll, IInv, TypeOK, Refresh
  <2>3. \A x \in Tokens : rows'[x] = rows[x] \/ (rows[x] # None /\ rows'[x] = Revoked(x, at))
    BY <2>1 DEF RevokeAll
  <2> HIDE DEF at
  <2> QED
    BY <2>1, <2>2, <2>3, RevokedRow DEF RevokeAll, IInv
<1> QED
  BY <1>1, <1>2, <1>3

-----------------------------------------------------------------------------
(* Why a session ends. *)

LEMMA EndStep ==
    ASSUME IInv, [Next]_vars, NEW s \in Tokens, Working(s), ~Working(s)', now' = now
    PROVE  EndsForCause(s)
<1> USE NoneAssumption, TimesAssumption
<1>1. PICK x \in Tokens : Live(x, now) /\ rows[x].login = s
  BY DEF Working
<1>2. ~(Live(x, now)' /\ rows'[x].login = s)
  BY DEF Working
<1>3. rows'[x] # rows[x]
  BY <1>1, <1>2 DEF Live
<1>4. CASE \E t \in Tokens : Logout(t)
  <2>1. PICK t \in Tokens : Logout(t)
    BY <1>4
  <2>2. t = x
    BY <1>3, <2>1 DEF Logout, IInv, TypeOK
  <2> QED
    BY <1>1, <2>1, <2>2 DEF EndsForCause
<1>5. CASE \E c \in RefreshCalls : RefuseOwner(c)
  <2>1. PICK c \in RefreshCalls : RefuseOwner(c)
    BY <1>5
  <2>2. refreshes[c].token = x
    BY <1>3, <2>1 DEF RefuseOwner, IInv, TypeOK
  <2>3. refreshes[c] # None /\ refreshes'[c] = None /\ refreshes[c].step = "swap" /\ refreshes[c].role = None
    BY <2>1 DEF RefuseOwner, IInv, TypeOK
  <2> QED
    BY <1>1, <2>2, <2>3 DEF EndsForCause
<1>6. CASE \E c \in RefreshCalls : RevokeAll(c)
  <2>1. PICK c \in RefreshCalls : RevokeAll(c)
    BY <1>6
  <2>2. refreshes[c] # None /\ refreshes'[c] = None /\ refreshes[c].step = "revoke"
    BY <2>1 DEF RevokeAll, IInv, TypeOK
  <2>3. refreshes[c].since + Grace < refreshes[c].start
    BY <2>2 DEF IInv, CallsHold, RefreshHolds
  <2> QED
    BY <2>2, <2>3 DEF EndsForCause
<1>7. CASE \E c \in LoginCalls, t \in Tokens : Issue(c, t)
  <2>1. PICK c \in LoginCalls, t \in Tokens : Issue(c, t)
    BY <1>7
  <2>2. x # t
    BY <1>1, <2>1, FreshIsNew DEF Issue, Live
  <2>3. rows'[x] = IF x \in ExpiredOf(logins[c].user) THEN None ELSE rows[x]
    BY <2>1, <2>2 DEF Issue
  <2>4. now \in Nat /\ rows[x] \in Row /\ rows[x].expires \in Nat
    BY <1>1 DEF IInv, TypeOK, Live, Row
  <2>5. x \notin ExpiredOf(logins[c].user)
    BY <1>1, <2>4 DEF ExpiredOf, Live
  <2> QED
    BY <1>3, <2>3, <2>5
<1>8. CASE \E c \in RefreshCalls, t \in Tokens : Rotate(c, t)
  <2>1. PICK c \in RefreshCalls, t \in Tokens : Rotate(c, t)
    BY <1>8
  <2>2. t # x /\ rows'[t] = rows[refreshes[c].token] /\ \A y \in Tokens : y # t /\ y # refreshes[c].token => rows'[y] = rows[y]
    BY <1>1, <2>1, FreshIsNew DEF Rotate, IInv, TypeOK, Live
  <2>3. refreshes[c].token = x
    BY <1>3, <2>2
  <2>4. Live(t, now)' /\ rows'[t].login = s
    BY <1>1, <2>2, <2>3 DEF Live
  <2> QED
    BY <2>4 DEF Working
<1>9. CASE UNCHANGED rows
  BY <1>3, <1>9
<1> QED
  BY <1>4, <1>5, <1>6, <1>7, <1>8, <1>9 DEF Next, vars, LoginStep, RefreshStep, CountAddress, CountEmail,
     CheckPassword, ResetAddress, LoginFails, StartRefresh, TakeToken, FindReuse, RefreshFails, ChangeAccount, Tick

(* A revocation that writes leaves none of what it set out to revoke. *)
LEMMA ReuseStep ==
    ASSUME IInv, [Next]_vars, NEW c \in RefreshCalls, refreshes[c] # None, refreshes[c].step = "revoke",
           refreshes'[c] = None, rows' # rows, NEW t \in refreshes[c].doomed
    PROVE  ~Live(t, now)'
<1> USE NoneAssumption
<1>1. refreshes[c] \in Refresh /\ t \in Tokens /\ refreshes[c].start \in Nat
  BY DEF IInv, TypeOK, Refresh
<1>2. RevokeAll(c)
  <2>1. refreshes'[c] # refreshes[c]
    OBVIOUS
  <2>2. ASSUME NEW d \in RefreshCalls, NEW x \in Tokens,
               StartRefresh(d, x) \/ Rotate(d, x) \/ TakeToken(d) \/ RefuseOwner(d) \/ FindReuse(d)
        PROVE  FALSE
    <3>1. d = c
      BY <2>1, <2>2 DEF StartRefresh, Rotate, TakeToken, RefuseOwner, FindReuse, IInv, TypeOK
    <3> QED
      BY <2>2, <3>1 DEF StartRefresh, Rotate, TakeToken, RefuseOwner, FindReuse
  <2>3. ASSUME NEW d \in RefreshCalls, RevokeAll(d)
        PROVE  d = c
    BY <2>1, <2>3 DEF RevokeAll, IInv, TypeOK
  <2> QED
    BY <1>1, <2>1, <2>2, <2>3 DEF Next, vars, LoginStep, RefreshStep, CountAddress, CountEmail, CheckPassword,
       ResetAddress, Issue, LoginFails, RefreshFails, Logout, ChangeAccount, Tick
<1>3. rows'[t] = IF rows[t] # None /\ rows[t].revoked = None THEN Revoked(t, refreshes[c].start) ELSE rows[t]
  BY <1>1, <1>2 DEF RevokeAll
<1>4. rows[t] # None => Revoked(t, refreshes[c].start) # None /\ Revoked(t, refreshes[c].start).revoked # None
  BY <1>1, RevokedRow DEF IInv
<1> QED
  BY <1>3, <1>4 DEF Live

-----------------------------------------------------------------------------
(* Logins implement SessionLife. *)

usable == [s \in Tokens |-> {t \in Tokens : Live(t, now) /\ rows[t].login = s}]

(* One token at most works in a session. *)
LEMMA OneUsable ==
    ASSUME IInv, NEW s \in Tokens, NEW t \in usable[s]
    PROVE  usable[s] = {t} /\ t \in Tokens /\ lease[t] = lease[s] /\ lease[s] # None
           /\ lease[s] = rows[t].expires /\ rows[t].expires \in Nat /\ now < rows[t].expires
<1>1. t \in Tokens /\ Live(t, now) /\ rows[t].login = s
  BY DEF usable
<1>2. rows[t] \in Row /\ rows[t].expires \in Nat
  BY <1>1 DEF Live, IInv, TypeOK, Row
<1>3. \A x \in usable[s] : x = t
  BY <1>1 DEF usable, Live, IInv, OneSession
<1> QED
  BY <1>1, <1>2, <1>3, NoneAssumption DEF IInv, OneSession, Live

LEMMA InitLife == Init => Life!Init
<1> SUFFICES ASSUME Init, IInv
             PROVE  Life!Init
  BY InitIInv
<1>1. now \in Nat /\ lease \in [Tokens -> Nat \cup {None}]
  BY DEF IInv, TypeOK
<1>2. \A s \in Tokens : \A t \in usable[s] :
          /\ lease[s] # None /\ lease[t] = lease[s] /\ now < lease[s]
          /\ \A other \in Tokens : t \in usable[other] => other = s
  BY OneUsable DEF usable
<1>3. usable \in [Tokens -> {{}} \cup {{t} : t \in Tokens}]
  <2>1. ASSUME NEW s \in Tokens
        PROVE  usable[s] \in {{}} \cup {{t} : t \in Tokens}
    BY OneUsable
  <2> QED
    BY <2>1 DEF usable
<1> QED
  BY <1>1, <1>2, <1>3 DEF Life!Init, usable

LEMMA EndLife ==
    ASSUME IInv,
           \/ \E t \in Tokens : Logout(t)
           \/ \E c \in RefreshCalls : RefuseOwner(c) \/ RevokeAll(c)
    PROVE  Life!End
<1>1. /\ UNCHANGED <<now, lease>>
      /\ \A x \in Tokens : \/ rows'[x] = rows[x]
                           \/ rows'[x] # None /\ rows'[x].revoked # None /\ rows'[x].login = rows[x].login
  BY Revoking
<1>2. ASSUME NEW s \in Tokens
      PROVE  usable'[s] \in {{}, usable[s]}
  <2>1. usable'[s] \subseteq usable[s]
    BY <1>1 DEF usable, Live
  <2>2. usable[s] = {} \/ \E t \in Tokens : usable[s] = {t}
    BY OneUsable
  <2> HIDE DEF usable
  <2> QED
    BY <2>1, <2>2
<1>3. usable' \in [Tokens -> SUBSET Tokens]
  BY DEF usable
<1> QED
  BY <1>1, <1>2, <1>3 DEF Life!End, usable

LEMMA OpenLife ==
    ASSUME IInv, NEW c \in LoginCalls, NEW t \in Tokens, Issue(c, t)
    PROVE  Life!Open(t)
<1> USE NoneAssumption, TimesAssumption
<1> DEFINE gone == ExpiredOf(logins[c].user)
           row == [user |-> logins[c].user, login |-> t, expires |-> now + RefreshTTL, revoked |-> None]
<1>1. /\ Fresh(t) /\ now \in Nat /\ UNCHANGED now
      /\ rows' = [other \in Tokens |-> IF other = t THEN row ELSE IF other \in gone THEN None ELSE rows[other]]
      /\ lease' = [lease EXCEPT ![t] = now + RefreshTTL]
  BY DEF Issue, IInv, TypeOK
<1>2. rows[t] = None /\ \A x \in Tokens : rows[x] # None => rows[x].login # t /\ rows[x] \in Row
  BY <1>1, FreshIsNew
<1>3. \A x \in gone : ~Live(x, now)
  BY <1>1, <1>2 DEF ExpiredOf, Live, Row
<1>4. lease[t] = None /\ lease'[t] = now + RefreshTTL /\ lease' = [lease EXCEPT ![t] = lease'[t]]
      /\ lease'[t] \in Nat /\ now < lease'[t]
  BY <1>1 DEF Fresh, IInv, TypeOK
<1>5. row # None /\ row.login = t /\ row.revoked = None /\ row.expires = now + RefreshTTL
  <2>1. row.expires \in Nat
    BY <1>1
  <2> QED
    BY <1>1, <2>1 DEF Issue, IInv, TypeOK, Login, Row
<1> HIDE DEF gone, row
<1>6. \A x \in Tokens : Live(x, now)' <=> Live(x, now) \/ x = t
  BY <1>1, <1>2, <1>3, <1>5 DEF Live
<1>7. \A x \in Tokens : Live(x, now) => x # t /\ rows'[x] = rows[x] /\ rows[x].login # t
  BY <1>1, <1>2, <1>3 DEF Live
<1>8. usable' = [usable EXCEPT ![t] = {t}]
  <2>1. ASSUME NEW s \in Tokens
        PROVE  usable'[s] = IF s = t THEN {t} ELSE usable[s]
    <3>1. rows'[t].login = t
      BY <1>1, <1>5
    <3> QED
      BY <1>6, <1>7, <3>1 DEF usable
  <2> QED
    BY <2>1 DEF usable
<1> QED
  BY <1>1, <1>4, <1>8 DEF Life!Open, usable

LEMMA RenewLife ==
    ASSUME IInv, NEW c \in RefreshCalls, NEW t \in Tokens, Rotate(c, t)
    PROVE  \E s \in Tokens : Life!Renew(s, t) \/ Life!TooLate(s, t)
<1> USE NoneAssumption, TimesAssumption
<1> DEFINE old == refreshes[c].token
           login == rows[old].login
<1>1. /\ refreshes[c] # None /\ Swapping(c) /\ Fresh(t) /\ now \in Nat /\ UNCHANGED now
      /\ rows' = [rows EXCEPT ![old] = Revoked(old, refreshes[c].start), ![t] = rows[old]]
      /\ lease' = [lease EXCEPT ![t] = rows[old].expires]
  BY DEF Rotate, Swapping, IInv, TypeOK
<1>2. old \in Tokens /\ refreshes[c].start \in Nat /\ rows[old] # None /\ rows[old].revoked = None
  BY <1>1 DEF IInv, TypeOK, Refresh, CallsHold, RefreshHolds, Swapping, Live
<1>3. rows[t] = None /\ t # old /\ \A x \in Tokens : rows[x] # None => rows[x].login # t /\ rows[x] \in Row
  BY <1>1, <1>2, FreshIsNew
<1>4. login \in Tokens /\ rows[old].expires \in Nat /\ lease[login] = rows[old].expires /\ lease[login] # None
  BY <1>2, <1>3 DEF Row, IInv, OneSession
<1>5. rows'[old] = Revoked(old, refreshes[c].start)
  BY <1>1, <1>2, <1>3 DEF IInv, TypeOK
<1>6. rows'[old] # None /\ rows'[old].revoked # None
  BY <1>2, <1>5, RevokedRow DEF IInv
<1>7. rows'[t] = rows[old] /\ \A x \in Tokens : x # t /\ x # old => rows'[x] = rows[x]
  BY <1>1, <1>2, <1>3 DEF IInv, TypeOK
<1>8. lease[t] = None /\ lease' = [lease EXCEPT ![t] = lease[login]]
  BY <1>1, <1>4 DEF Fresh
<1> HIDE DEF old, login
<1>9. ASSUME NEW x \in Tokens
      PROVE  Live(x, now)' <=> IF x = t THEN now < rows[old].expires ELSE Live(x, now) /\ x # old
  BY <1>1, <1>2, <1>6, <1>7 DEF Live
<1>10. \A x \in Tokens : Live(x, now) /\ rows[x].login = login => x = old
  BY <1>2 DEF Live, IInv, OneSession, login
<1>11. rows'[t].login = login /\ rows[old].login = login /\ ~Live(t, now)
  BY <1>3, <1>7 DEF login, Live
<1>12. CASE now < rows[old].expires
  <2>1. old \in usable[login]
    BY <1>2, <1>11, <1>12, <1>4 DEF usable, Live
  <2>2. usable' = [usable EXCEPT ![login] = {t}]
    <3>1. ASSUME NEW z \in Tokens
          PROVE  usable'[z] = IF z = login THEN {t} ELSE usable[z]
      BY <1>7, <1>9, <1>10, <1>11, <1>12 DEF usable
    <3> QED
      BY <1>4, <3>1 DEF usable
  <2>3. PICK s \in Tokens : s = login
    BY <1>4
  <2>4. Life!Renew(s, t)
    BY <1>1, <1>8, <2>1, <2>2, <2>3 DEF Life!Renew, usable
  <2> QED
    BY <2>4
<1>13. CASE ~(now < rows[old].expires)
  <2>1. ~Live(old, now)
    BY <1>13 DEF Live
  <2>2. usable' = usable
    <3>1. ASSUME NEW z \in Tokens
          PROVE  usable'[z] = usable[z]
      BY <1>7, <1>9, <1>11, <1>13, <2>1 DEF usable
    <3> QED
      BY <3>1 DEF usable
  <2>3. lease[login] <= now
    BY <1>1, <1>4, <1>13
  <2>4. Life!TooLate(login, t)
    BY <1>1, <1>4, <1>8, <2>2, <2>3 DEF Life!TooLate, usable
  <2> QED
    BY <1>4, <2>4
<1> QED
  BY <1>12, <1>13

LEMMA TickLife ==
    ASSUME IInv, Tick
    PROVE  Life!Tick
<1>1. now' = now + 1 /\ now \in Nat /\ UNCHANGED <<rows, lease>>
  BY DEF Tick, IInv, TypeOK
<1>2. ASSUME NEW s \in Tokens
      PROVE  usable'[s] = IF lease[s] # None /\ lease[s] <= now' THEN {} ELSE usable[s]
  <2>1. \A x \in Tokens : rows[x] # None => rows[x].expires \in Nat /\ lease[rows[x].login] = rows[x].expires
    BY DEF IInv, TypeOK, OneSession, Row
  <2>2. \A x \in Tokens : Live(x, now)' <=> Live(x, now) /\ now' < rows[x].expires
    BY <1>1, <2>1 DEF Live
  <2>3. \A x \in Tokens : Live(x, now) => rows[x] # None
    BY DEF Live
  <2>4. CASE lease[s] # None /\ lease[s] <= now'
    <3>1. \A x \in Tokens : Live(x, now) /\ rows[x].login = s => ~(now' < rows[x].expires)
      BY <1>1, <2>1, <2>3, <2>4
    <3> QED
      BY <1>1, <2>2, <2>4, <3>1 DEF usable
  <2>5. CASE ~(lease[s] # None /\ lease[s] <= now')
    <3>1. \A x \in Tokens : Live(x, now) /\ rows[x].login = s => now' < rows[x].expires
      BY <1>1, <2>1, <2>3, <2>5, NoneAssumption
    <3> QED
      BY <1>1, <2>2, <2>5, <3>1 DEF usable
  <2> QED
    BY <2>4, <2>5
<1>3. usable' = [s \in Tokens |-> IF lease[s] # None /\ lease[s] <= now' THEN {} ELSE usable[s]]
  BY <1>2 DEF usable
<1> QED
  BY <1>1, <1>3 DEF Life!Tick, usable

LEMMA StepLife ==
    ASSUME IInv, [Next]_vars
    PROVE  Life!Next \/ UNCHANGED <<now, lease, usable>>
<1>1. CASE \E c \in LoginCalls, t \in Tokens : Issue(c, t)
  BY <1>1, OpenLife DEF Life!Next
<1>2. CASE \E c \in RefreshCalls, t \in Tokens : Rotate(c, t)
  BY <1>2, RenewLife DEF Life!Next
<1>3. CASE \/ \E t \in Tokens : Logout(t)
           \/ \E c \in RefreshCalls : RefuseOwner(c) \/ RevokeAll(c)
  BY <1>3, EndLife DEF Life!Next
<1>4. CASE Tick
  BY <1>4, TickLife DEF Life!Next
<1>5. CASE UNCHANGED <<rows, now, lease>>
  BY <1>5 DEF usable, Live
<1> QED
  BY <1>1, <1>2, <1>3, <1>4, <1>5 DEF Next, vars, LoginStep, RefreshStep, CountAddress, CountEmail,
     CheckPassword, ResetAddress, LoginFails, StartRefresh, TakeToken, FindReuse, RefreshFails, ChangeAccount

-----------------------------------------------------------------------------
(* The budget of an email.  What was let through lies in windows at least their own length apart, each
   attempt has a number of its own in its window, and the counter that stands knows them all. *)
AttemptKept(u, a) ==
    /\ a.number \in 1..MaxPerEmail
    /\ a.at <= now /\ now <= a.at + EmailWindow
    /\ a.at < a.until /\ a.until <= a.at + EmailWindow
    /\ emailAttempts[u] = None => a.until <= now
    /\ emailAttempts[u] # None =>
           \/ a.until = emailAttempts[u].until /\ a.number <= emailAttempts[u].count
           \/ a.until + EmailWindow <= emailAttempts[u].until

Apart(a, b) ==
    /\ a.until < b.until => a.until + EmailWindow <= b.until
    /\ a.until = b.until /\ a.number = b.number => a = b

WindowKept(u) ==
    emailAttempts[u] # None =>
        now < emailAttempts[u].until /\ emailAttempts[u].until <= now + EmailWindow

WindowsKept ==
    \A u \in Users :
        /\ WindowKept(u)
        /\ \A a \in admitted[u] : AttemptKept(u, a)
        /\ \A a, b \in admitted[u] : Apart(a, b)

LEMMA InitWindows == Init => WindowsKept
BY DEF Init, WindowsKept, WindowKept

(* What counting does when it lets the attempt through. *)
LEMMA CountingLetsThrough ==
    ASSUME TypeOK, NEW u \in Users, NEW counted,
           counted = countAttempt(emailAttempts[u], MaxPerEmail, EmailWindow)
    PROVE  /\ counted \in Counter
           /\ emailAttempts[u] = None => counted.count = 1 /\ counted.until = now + EmailWindow
           /\ emailAttempts[u] # None =>
                  /\ counted.until = emailAttempts[u].until
                  /\ emailAttempts[u].count <= counted.count
                  /\ counted.count <= MaxPerEmail => counted.count = emailAttempts[u].count + 1
<1> USE NoneAssumption, TimesAssumption
<1>1. now \in Nat /\ emailAttempts[u] \in Counter \cup {None}
  BY DEF TypeOK
<1>2. counted \in Counter
  BY <1>1, CountingTypes
<1>3. CASE emailAttempts[u] = None
  BY <1>1, <1>2, <1>3 DEF countAttempt
<1>4. CASE emailAttempts[u] # None
  <2>1. PICK counter \in Counter : counter = emailAttempts[u]
    BY <1>1, <1>4
  <2>2. counter.count \in Nat /\ counter.until \in Nat
    BY DEF Counter
  <2>3. counted = [counter EXCEPT !.count =
                       IF counter.count > MaxPerEmail THEN counter.count ELSE counter.count + 1]
    BY <1>4, <2>1 DEF countAttempt
  <2>4. counted.until = counter.until
        /\ counted.count = IF counter.count > MaxPerEmail THEN counter.count ELSE counter.count + 1
    BY <2>3 DEF Counter
  <2> QED
    BY <1>2, <1>4, <2>1, <2>2, <2>4
<1> QED
  BY <1>3, <1>4

(* An attempt is let through in the window that stands, with the next number, or opens a window. *)
LEMMA CountEmailWindows ==
    ASSUME TypeOK, WindowsKept, NEW c \in LoginCalls, CountEmail(c)
    PROVE  WindowsKept'
<1> USE NoneAssumption, TimesAssumption
<1>1. PICK u \in Users : u = logins[c].user
  BY DEF CountEmail, TypeOK, Login
<1>2. PICK counted : counted = countAttempt(emailAttempts[u], MaxPerEmail, EmailWindow)
  OBVIOUS
<1>3. PICK new : new = [until |-> counted.until, number |-> counted.count, at |-> now]
  OBVIOUS
<1>4. /\ counted \in Counter /\ counted # None
      /\ counted.count \in Nat /\ counted.until \in Nat /\ now \in Nat
      /\ new.until = counted.until /\ new.number = counted.count /\ new.at = now
  BY <1>2, <1>3, CountingLetsThrough DEF TypeOK, Counter
<1>5. /\ emailAttempts' = [emailAttempts EXCEPT ![u] = counted]
      /\ admitted' = [admitted EXCEPT ![u] = IF counted.count > MaxPerEmail THEN @ ELSE @ \cup {new}]
      /\ now' = now
  BY <1>1, <1>2, <1>3 DEF CountEmail
<1>6. /\ emailAttempts'[u] = counted
      /\ admitted'[u] = IF counted.count > MaxPerEmail THEN admitted[u] ELSE admitted[u] \cup {new}
      /\ \A v \in Users : v # u => emailAttempts'[v] = emailAttempts[v] /\ admitted'[v] = admitted[v]
  BY <1>5 DEF TypeOK
<1>7. /\ \A a \in admitted[u] : a.until \in Nat /\ a.number \in Nat /\ a.at \in Nat
      /\ emailAttempts[u] # None => emailAttempts[u].until \in Nat /\ emailAttempts[u].count \in Nat
  BY DEF TypeOK, Attempt, Counter
<1>8. ASSUME NEW v \in Users, v # u
      PROVE  /\ WindowKept(v)'
             /\ \A a \in admitted'[v] : AttemptKept(v, a)'
             /\ \A a, b \in admitted'[v] : Apart(a, b)'
  BY <1>5, <1>6, <1>8 DEF WindowsKept, WindowKept, AttemptKept, Apart
<1>9. WindowKept(u)'
  BY <1>2, <1>4, <1>5, <1>6, <1>7, CountingLetsThrough DEF WindowsKept, WindowKept
<1>10. ASSUME NEW a \in admitted[u]
       PROVE  AttemptKept(u, a)'
  <2>1. AttemptKept(u, a) /\ a.until \in Nat /\ a.number \in Nat /\ a.at \in Nat
    BY <1>7 DEF WindowsKept
  <2>2. CASE emailAttempts[u] = None
    <3>1. a.until + EmailWindow <= counted.until
      BY <1>2, <1>4, <2>1, <2>2, CountingLetsThrough DEF AttemptKept
    <3> QED
      BY <1>4, <1>5, <1>6, <2>1, <3>1 DEF AttemptKept
  <2>3. CASE emailAttempts[u] # None
    <3>1. counted.until = emailAttempts[u].until /\ emailAttempts[u].count <= counted.count
      BY <1>2, <2>3, CountingLetsThrough
    <3> QED
      BY <1>4, <1>5, <1>6, <1>7, <2>1, <2>3, <3>1 DEF AttemptKept
  <2> QED
    BY <2>2, <2>3
<1>11. ASSUME counted.count <= MaxPerEmail
       PROVE  AttemptKept(u, new)'
  <2>1. counted.count \in 1..MaxPerEmail
    BY <1>2, <1>4, <1>7, <1>11, CountingLetsThrough
  <2>2. now < counted.until /\ counted.until <= now + EmailWindow
    BY <1>5, <1>6, <1>9, <1>4 DEF WindowKept
  <2> QED
    BY <1>4, <1>5, <1>6, <2>1, <2>2 DEF AttemptKept
<1>12. ASSUME NEW a \in admitted[u], counted.count <= MaxPerEmail
       PROVE  Apart(a, new)' /\ Apart(new, a)'
  <2>1. AttemptKept(u, a) /\ a.until \in Nat /\ a.number \in Nat
    BY <1>7 DEF WindowsKept
  <2>2. a.until + EmailWindow <= new.until \/ (a.until = new.until /\ a.number < new.number)
    BY <1>2, <1>4, <1>7, <1>12, <2>1, CountingLetsThrough DEF AttemptKept
  <2> QED
    BY <1>4, <2>1, <2>2 DEF Apart
<1>13. Apart(new, new)' /\ \A a, b \in admitted[u] : Apart(a, b)'
  BY <1>4 DEF WindowsKept, Apart
<1>14. /\ \A a \in admitted'[u] : AttemptKept(u, a)'
       /\ \A a, b \in admitted'[u] : Apart(a, b)'
  <2>1. CASE counted.count > MaxPerEmail
    BY <1>6, <1>10, <1>13, <2>1
  <2>2. CASE counted.count <= MaxPerEmail
    BY <1>4, <1>6, <1>10, <1>11, <1>12, <1>13, <2>2
  <2> QED
    BY <1>4, <2>1, <2>2
<1> QED
  BY <1>8, <1>9, <1>14 DEF WindowsKept

(* Redis drops a counter when its window ends; time takes attempts out of sight, in no other way. *)
LEMMA TickWindows ==
    ASSUME TypeOK, WindowsKept, Tick
    PROVE  WindowsKept'
<1> USE NoneAssumption, TimesAssumption
<1>1. now \in Nat /\ now' = now + 1
  BY DEF TypeOK, Tick
<1> SUFFICES ASSUME NEW u \in Users
             PROVE  /\ WindowKept(u)'
                    /\ \A a \in admitted'[u] : AttemptKept(u, a)'
                    /\ \A a, b \in admitted'[u] : Apart(a, b)'
  BY DEF WindowsKept
<1>2. /\ emailAttempts'[u] = IF emailAttempts[u] # None /\ emailAttempts[u].until <= now'
                             THEN None ELSE emailAttempts[u]
      /\ admitted'[u] = {a \in admitted[u] : now' <= a.at + EmailWindow}
  BY DEF Tick
<1>3. emailAttempts[u] # None => emailAttempts[u].until \in Nat /\ emailAttempts[u].count \in Nat
  BY DEF TypeOK, Counter
<1>4. WindowKept(u)'
  BY <1>1, <1>2, <1>3 DEF WindowsKept, WindowKept
<1>5. ASSUME NEW a \in admitted'[u]
      PROVE  AttemptKept(u, a)'
  <2>1. AttemptKept(u, a) /\ a.until \in Nat /\ a.number \in Nat /\ a.at \in Nat
        /\ now' <= a.at + EmailWindow
    BY <1>2 DEF WindowsKept, TypeOK, Attempt
  <2>2. emailAttempts'[u] = None => a.until <= now'
    BY <1>1, <1>2, <1>3, <2>1 DEF AttemptKept
  <2>3. emailAttempts'[u] # None => emailAttempts'[u] = emailAttempts[u]
    BY <1>2
  <2> QED
    BY <1>1, <1>3, <2>1, <2>2, <2>3 DEF AttemptKept
<1>6. \A a, b \in admitted'[u] : Apart(a, b)'
  BY <1>2 DEF WindowsKept, Apart
<1> QED
  BY <1>4, <1>5, <1>6

(* Nothing else counts attempts on an email, or clears them. *)
LEMMA StepWindows == TypeOK /\ WindowsKept /\ [Next]_vars => WindowsKept'
<1> SUFFICES ASSUME TypeOK, WindowsKept, [Next]_vars
             PROVE  WindowsKept'
  OBVIOUS
<1>1. \/ \E c \in LoginCalls : CountEmail(c)
      \/ Tick
      \/ UNCHANGED <<emailAttempts, admitted, now>>
  <2>1. CASE LoginStep
    BY <2>1 DEF LoginStep, CountAddress, CheckPassword, ResetAddress, Issue, LoginFails, attempts
  <2>2. CASE RefreshStep
    BY <2>2 DEF RefreshStep, StartRefresh, TakeToken, Rotate, RefuseOwner, FindReuse, RevokeAll,
                RefreshFails, attempts
  <2>3. CASE (\E t \in Tokens : Logout(t)) \/ (\E u \in Users, account \in Accounts : ChangeAccount(u, account))
    BY <2>3 DEF Logout, ChangeAccount, attempts
  <2> QED
    BY <2>1, <2>2, <2>3 DEF Next, vars
<1>2. CASE UNCHANGED <<emailAttempts, admitted, now>>
  BY <1>2 DEF WindowsKept, WindowKept, AttemptKept, Apart
<1> QED
  BY <1>1, <1>2, CountEmailWindows, TickWindows

(* Of three attempts two are of one window: three windows take longer than one. *)
LEMMA TwoWindows ==
    ASSUME TypeOK, WindowsKept, NEW u \in Users,
           NEW a \in admitted[u], NEW b \in admitted[u], NEW c \in admitted[u]
    PROVE  a.until = b.until \/ b.until = c.until \/ a.until = c.until
<1>1. /\ \A d \in admitted[u] : d.until \in Nat /\ d.at \in Nat
      /\ now \in Nat /\ EmailWindow \in Nat \ {0}
  BY TimesAssumption DEF TypeOK, Attempt
<1>2. \A d \in admitted[u] : /\ d.at <= now /\ now <= d.at + EmailWindow
                             /\ d.at < d.until /\ d.until <= d.at + EmailWindow
  BY DEF WindowsKept, AttemptKept
<1>3. \A d, e \in admitted[u] : d.until < e.until => d.until + EmailWindow <= e.until
  BY DEF WindowsKept, Apart
<1>4. ASSUME NEW d \in admitted[u], NEW e \in admitted[u], NEW f \in admitted[u],
             d.until < e.until, e.until < f.until
      PROVE  FALSE
  <2>1. d.until + EmailWindow <= e.until /\ e.until + EmailWindow <= f.until
    BY <1>3, <1>4
  <2>2. now <= d.at + EmailWindow /\ d.at < d.until /\ f.until <= f.at + EmailWindow /\ f.at <= now
    BY <1>2
  <2> QED
    BY <1>1, <2>1, <2>2
<1>5. \A d, e \in admitted[u] : d.until < e.until \/ d.until = e.until \/ e.until < d.until
  BY <1>1
<1> QED
  BY <1>4, <1>5

(* Numbering the attempts of both windows one after the other tells them apart. *)
LEMMA AtMostTwoWindows ==
    ASSUME TypeOK, WindowsKept, NEW u \in Users
    PROVE  Cardinality(admitted[u]) <= 2 * MaxPerEmail
<1> DEFINE S == admitted[u]
           first == (CHOOSE a \in S : TRUE).until
           place(a) == IF a.until = first THEN a.number ELSE MaxPerEmail + a.number
           places == [a \in S |-> place(a)]
           all == 1..(2 * MaxPerEmail)
<1>1. MaxPerEmail \in Nat
  BY TimesAssumption
<1>2. \A a \in S : a.number \in 1..MaxPerEmail
  BY DEF WindowsKept, AttemptKept
<1>3. \A a \in S : place(a) \in all
  BY <1>1, <1>2
<1>4. ASSUME NEW a \in S, NEW b \in S, place(a) = place(b)
      PROVE  a = b
  <2>1. PICK f \in S : f.until = first
    OBVIOUS
  <2>2. (a.until = first <=> b.until = first) /\ a.number = b.number
    BY <1>1, <1>2, <1>4
  <2>3. a.until = b.until
    BY <2>1, <2>2, TwoWindows
  <2> QED
    BY <2>2, <2>3 DEF WindowsKept, Apart
<1> HIDE DEF S, place, all
<1>5. places \in Injection(S, all)
  BY <1>3, <1>4 DEF Injection, IsInjective
<1>6. IsFiniteSet(all) /\ Cardinality(all) = 2 * MaxPerEmail
  BY <1>1, FS_Interval DEF all
<1>7. Cardinality(S) <= Cardinality(all)
  BY <1>5, <1>6, FS_Injection
<1> QED
  BY <1>6, <1>7 DEF S

-----------------------------------------------------------------------------
(* IInv holds in every behaviour of the code. *)
THEOREM Invariance == Spec => []IInv
<1>1. IInv /\ [Next]_vars => IInv'
  BY StepIInv
<1> QED
  BY InitIInv, <1>1, PTL DEF Spec

(* The state's shape, for any people, tokens and numbers of concurrent calls. *)
THEOREM SessionTypes == Spec => []TypeOK
<1>1. IInv => TypeOK
  BY DEF IInv
<1> QED
  BY Invariance, <1>1, PTL

(* auth/service.go, Refresh: whoever an access token names had that role, and an account that worked, no
   longer ago than a token lives and a request runs. *)
THEOREM AccessStaysRecent == Spec => []AccessIsRecent
<1>1. IInv => AccessIsRecent
  <2> SUFFICES ASSUME IInv, NEW a \in access
               PROVE  /\ held[<<a.user, a.role>>] # None
                      /\ now < held[<<a.user, a.role>>] + AccessTTL + CallLimit
    BY DEF AccessIsRecent
  <2>1. a.user \in Users /\ a.role \in Roles /\ a.expires \in Nat /\ now \in Nat
    BY DEF IInv, TypeOK, AccessToken
  <2>2. <<a.user, a.role>> \in Users \X Roles
    BY <2>1
  <2>3. held[<<a.user, a.role>>] \in Nat /\ now < a.expires
        /\ a.expires <= held[<<a.user, a.role>>] + AccessTTL + CallLimit
    BY <2>2 DEF IInv, RolesHeld, TypeOK
  <2> QED
    BY <2>1, <2>3, NoneAssumption, TimesAssumption
<1> QED
  BY Invariance, <1>1, PTL

(* A session ends before its time only by a logout, an owner who does not work here, or a late reuse. *)
THEOREM SessionsEndOnlyForCause == Spec => SessionsEndForCause
<1>1. IInv /\ [Next]_vars =>
          [\A s \in Tokens : Working(s) /\ ~Working(s)' /\ now' = now => EndsForCause(s)]_vars
  BY EndStep
<1> QED
  BY Invariance, <1>1, PTL DEF Spec, SessionsEndForCause

(* constant.go, "every session of its user revoked": no token works that did when the revocation began. *)
THEOREM ReuseEndsAll == Spec => ReuseEndsSessions
<1>1. IInv /\ [Next]_vars =>
          [\A c \in RefreshCalls :
               refreshes[c] # None /\ refreshes[c].step = "revoke" /\ refreshes'[c] = None /\ rows' # rows
               => \A t \in refreshes[c].doomed : ~Live(t, now)']_vars
  BY ReuseStep
<1> QED
  BY Invariance, <1>1, PTL DEF Spec, ReuseEndsSessions

(* Logins, rotations, revocations and time implement the life of a session. *)
THEOREM SessionsImplementLife == Spec => SessionSpec
<1>1. IInv /\ [Next]_vars => [Life!Next]_(Life!vars)
  BY StepLife DEF Life!vars, usable
<1> QED
  BY InitLife, Invariance, <1>1, PTL DEF Spec, SessionSpec, Life!Spec
(* auth/service.go, Login and countAttempt: within the time of one window no more attempts on an email get as far
   as its password than two windows allow, however many logins run together, fail or succeed. *)
THEOREM EmailBudget == Spec => []BudgetHolds
<1>1. TypeOK /\ WindowsKept => BudgetHolds
  BY AtMostTwoWindows DEF BudgetHolds
<1> QED
  BY <1>1, InitWindows, StepWindows, SessionTypes, PTL DEF Spec
=============================================================================
