------------------------------ MODULE Sessions ------------------------------
(***************************************************************************)
(* The auth module: logins under their attempt limits, refresh tokens that *)
(* are traded in for new ones, and the access tokens both hand out.        *)
(*                                                                         *)
(* A refresh token is told apart by its hash.  PostgreSQL's now() is the   *)
(* moment a transaction began, so a call compares and writes with its own  *)
(* start.  A token row that a transaction has updated is held until it     *)
(* commits.  Redis runs the two commands of an attempt as one.             *)
(***************************************************************************)
EXTENDS Naturals, FiniteSets

CONSTANTS
    Users,
    Staff,        \* Staff[u]: the account of u at first
    Accounts,     \* what an account may become
    Tokens,       \* bound: refresh tokens ever handed out
    Outsets,      \* what may be in the table at first
    Addresses,    \* client IPs
    LoginCalls, RefreshCalls,  \* concurrent requests of each kind
    AccessTTL, RefreshTTL, Grace,
    CallLimit,    \* how long a request may run
    MaxPerIP, IPWindow, MaxPerEmail, EmailWindow,
    MaxNow,       \* bound: the clock
    None

Roles == {"employee", "supervisor", "hr_admin", "super_admin"}

Account == [role : Roles, active : BOOLEAN, removed : BOOLEAN]

(* "login" is the first token of the chain a token belongs to. *)
Row == [user : Users, login : Tokens, expires : Nat, revoked : Nat \cup {None}]

Counter == [count : Nat, until : Nat]

(* An attempt on an email that was let through: the end of its window, its number in it, when. *)
Attempt == [until : Nat, number : Nat, at : Nat]

Login == [step : {"email", "password", "reset", "issue"}, user : Users, address : Addresses,
          start : Nat, role : Roles \cup {None}]

(* "since" is when the token presented had been revoked, for a call that found a reuse. *)
Refresh == [step : {"rotate", "swap", "revoke"}, token : Tokens, start : Nat,
            role : Roles \cup {None}, doomed : SUBSET Tokens, since : Nat \cup {None}]

Outset == [rows : [Tokens -> Row \cup {None}], lease : [Tokens -> Nat \cup {None}]]

AccessToken == [user : Users, role : Roles, expires : Nat]

ASSUME TimesAssumption ==
    /\ {AccessTTL, RefreshTTL, EmailWindow, IPWindow} \subseteq Nat \ {0}
    /\ {Grace, CallLimit, MaxPerIP, MaxPerEmail, MaxNow} \subseteq Nat
ASSUME AccountsAssumption == Staff \in [Users -> Account] /\ Accounts \subseteq Account
ASSUME OutsetAssumption ==
    \A o \in Outsets :
        /\ o \in Outset
        /\ \A t \in Tokens : o.rows[t] # None =>
               /\ o.rows[t].login = t /\ o.rows[t].revoked = None
               /\ o.rows[t].expires > 0 /\ o.lease[t] = o.rows[t].expires
ASSUME NoneAssumption ==
    /\ None \notin Nat /\ None \notin Row /\ None \notin Counter /\ None \notin Roles
    /\ None \notin Login /\ None \notin Refresh

VARIABLES
    users,       \* the table, what auth reads of it
    rows,        \* refresh_tokens by hash, None when there is none or none any more
    ipAttempts, emailAttempts,  \* the counters in Redis
    logins, refreshes,          \* calls under way
    access,      \* access tokens that have not expired
    now,
    lease,       \* history: when the session a token was handed out for ends
    held,        \* history: when a user last had a role and a working account
    admitted     \* history: attempts on an email let through within the last window's time

vars == <<users, rows, ipAttempts, emailAttempts, logins, refreshes, access, now, lease, held, admitted>>
attempts == <<ipAttempts, emailAttempts, admitted>>

Serves(account) == account.active /\ ~account.removed

Init ==
    /\ users = Staff
    /\ \E o \in Outsets : rows = o.rows /\ lease = o.lease
    /\ ipAttempts = [k \in Users \X Addresses |-> None]
    /\ emailAttempts = [u \in Users |-> None]
    /\ logins = [c \in LoginCalls |-> None]
    /\ refreshes = [c \in RefreshCalls |-> None]
    /\ access = {}
    /\ now = 0
    /\ held = [k \in Users \X Roles |->
                  IF Serves(Staff[k[1]]) /\ Staff[k[1]].role = k[2] THEN 0 ELSE None]
    /\ admitted = [u \in Users |-> {}]

-----------------------------------------------------------------------------
(* Login. *)

(* SETNX starts the window and INCR counts; a count past the limit stays there. *)
countAttempt(counter, max, window) ==
    IF counter = None THEN [count |-> 1, until |-> now + window]
    ELSE [counter EXCEPT !.count = IF @ > max THEN @ ELSE @ + 1]

CountAddress(c, u, a) ==
    /\ logins[c] = None
    /\ LET counted == countAttempt(ipAttempts[<<u, a>>], MaxPerIP, IPWindow)
       IN  /\ ipAttempts' = [ipAttempts EXCEPT ![<<u, a>>] = counted]
           /\ logins' = [logins EXCEPT ![c] =
                  IF counted.count > MaxPerIP THEN None
                  ELSE [step |-> "email", user |-> u, address |-> a, start |-> now, role |-> None]]
    /\ UNCHANGED <<users, rows, emailAttempts, refreshes, access, now, lease, held, admitted>>

CountEmail(c) ==
    /\ logins[c] # None /\ logins[c].step = "email"
    /\ LET u == logins[c].user
           counted == countAttempt(emailAttempts[u], MaxPerEmail, EmailWindow)
       IN  /\ emailAttempts' = [emailAttempts EXCEPT ![u] = counted]
           /\ logins' = [logins EXCEPT ![c] =
                  IF counted.count > MaxPerEmail THEN None
                  ELSE [logins[c] EXCEPT !.step = "password"]]
           /\ admitted' = [admitted EXCEPT ![u] =
                  IF counted.count > MaxPerEmail THEN @
                  ELSE @ \cup {[until |-> counted.until, number |-> counted.count, at |-> now]}]
    /\ UNCHANGED <<users, rows, ipAttempts, refreshes, access, now, lease, held>>

(* The account and its hash are one row, read once; the password may be wrong. *)
CheckPassword(c, right) ==
    /\ logins[c] # None /\ logins[c].step = "password"
    /\ LET u == logins[c].user
       IN  logins' = [logins EXCEPT ![c] =
               IF right /\ Serves(users[u])
               THEN [logins[c] EXCEPT !.step = "reset", !.role = users[u].role]
               ELSE None]
    /\ UNCHANGED <<users, rows, attempts, refreshes, access, now, lease, held>>

(* A bug the code avoids: a login that succeeds clears the email's budget as well. *)
ResetBoth(c) ==
    /\ logins[c] # None /\ logins[c].step = "reset"
    /\ ipAttempts' = [ipAttempts EXCEPT ![<<logins[c].user, logins[c].address>>] = None]
    /\ emailAttempts' = [emailAttempts EXCEPT ![logins[c].user] = None]
    /\ logins' = [logins EXCEPT ![c] = [logins[c] EXCEPT !.step = "issue"]]
    /\ UNCHANGED <<users, rows, refreshes, access, now, lease, held, admitted>>

ResetAddress(c) ==
    /\ logins[c] # None /\ logins[c].step = "reset"
    /\ ipAttempts' = [ipAttempts EXCEPT ![<<logins[c].user, logins[c].address>>] = None]
    /\ logins' = [logins EXCEPT ![c] = [logins[c] EXCEPT !.step = "issue"]]
    /\ UNCHANGED <<users, rows, emailAttempts, refreshes, access, now, lease, held, admitted>>

-----------------------------------------------------------------------------
(* Refresh tokens in the table. *)

Live(t, at) == rows[t] # None /\ rows[t].revoked = None /\ at < rows[t].expires

Revoked(t, at) == [rows[t] EXCEPT !.revoked = at]

(* The row a rotation has updated and not committed yet. *)
Locked(t) == \E c \in RefreshCalls :
    refreshes[c] # None /\ refreshes[c].step = "swap" /\ refreshes[c].token = t

Fresh(t) == lease[t] = None

ExpiredOf(u) == {t \in Tokens : rows[t] # None /\ rows[t].user = u /\ rows[t].expires <= now}

signed(u, role) == [user |-> u, role |-> role, expires |-> now + AccessTTL]

(* CreateRefreshToken drops the user's expired rows in the same transaction. *)
Issue(c, t) ==
    /\ logins[c] # None /\ logins[c].step = "issue"
    /\ Fresh(t)
    /\ LET u == logins[c].user
       IN  /\ \A old \in ExpiredOf(u) : ~Locked(old)
           /\ rows' = [other \in Tokens |->
                  IF other = t THEN [user |-> u, login |-> t, expires |-> now + RefreshTTL, revoked |-> None]
                  ELSE IF other \in ExpiredOf(u) THEN None ELSE rows[other]]
           /\ access' = access \cup {signed(u, logins[c].role)}
    /\ lease' = [lease EXCEPT ![t] = now + RefreshTTL]
    /\ logins' = [logins EXCEPT ![c] = None]
    /\ UNCHANGED <<users, attempts, refreshes, now, held>>

LoginFails(c) ==
    /\ logins[c] # None
    /\ logins' = [logins EXCEPT ![c] = None]
    /\ UNCHANGED <<users, rows, attempts, refreshes, access, now, lease, held>>

-----------------------------------------------------------------------------
(* Refresh. *)

(* A client presents a token it was given, at any time and as often as it likes. *)
StartRefresh(c, t) ==
    /\ refreshes[c] = None
    /\ ~Fresh(t)
    /\ refreshes' = [refreshes EXCEPT ![c] =
           [step |-> "rotate", token |-> t, start |-> now, role |-> None,
            doomed |-> {}, since |-> None]]
    /\ UNCHANGED <<users, rows, attempts, logins, access, now, lease, held>>

(* A bug the code avoids: the owner's role is read, whether the account works is not asked. *)
TakeTokenOfAnyone(c) ==
    /\ refreshes[c] # None /\ refreshes[c].step = "rotate"
    /\ LET t == refreshes[c].token
       IN  /\ ~Locked(t)
           /\ Live(t, refreshes[c].start)
           /\ refreshes' = [refreshes EXCEPT ![c] = [refreshes[c] EXCEPT !.step = "swap",
                  !.role = users[rows[t].user].role]]
    /\ UNCHANGED <<users, rows, attempts, logins, access, now, lease, held>>

(* The conditional UPDATE finds a row, then the transaction reads its owner. *)
TakeToken(c) ==
    /\ refreshes[c] # None /\ refreshes[c].step = "rotate"
    /\ LET t == refreshes[c].token
       IN  /\ ~Locked(t)
           /\ Live(t, refreshes[c].start)
           /\ refreshes' = [refreshes EXCEPT ![c] = [refreshes[c] EXCEPT !.step = "swap",
                  !.role = IF Serves(users[rows[t].user]) THEN users[rows[t].user].role ELSE None]]
    /\ UNCHANGED <<users, rows, attempts, logins, access, now, lease, held>>

(* A bug the code avoids: each rotation starts the session's time anew. *)
RotateExtending(c, t) ==
    /\ refreshes[c] # None /\ refreshes[c].step = "swap" /\ refreshes[c].role # None
    /\ Fresh(t)
    /\ LET old == refreshes[c].token
       IN  /\ rows' = [rows EXCEPT ![old] = Revoked(old, refreshes[c].start),
                                   ![t] = [rows[old] EXCEPT !.expires = now + RefreshTTL]]
           /\ access' = access \cup {signed(rows[old].user, refreshes[c].role)}
           /\ lease' = [lease EXCEPT ![t] = now + RefreshTTL]
    /\ refreshes' = [refreshes EXCEPT ![c] = None]
    /\ UNCHANGED <<users, attempts, logins, now, held>>

Rotate(c, t) ==
    /\ refreshes[c] # None /\ refreshes[c].step = "swap" /\ refreshes[c].role # None
    /\ Fresh(t)
    /\ LET old == refreshes[c].token
       IN  /\ rows' = [rows EXCEPT ![old] = Revoked(old, refreshes[c].start), ![t] = rows[old]]
           /\ access' = access \cup {signed(rows[old].user, refreshes[c].role)}
           /\ lease' = [lease EXCEPT ![t] = rows[old].expires]
    /\ refreshes' = [refreshes EXCEPT ![c] = None]
    /\ UNCHANGED <<users, attempts, logins, now, held>>

(* A bug the code avoids: a pair is signed for an owner that was not found. *)
RefuseOwnerSigning(c) ==
    /\ refreshes[c] # None /\ refreshes[c].step = "swap" /\ refreshes[c].role = None
    /\ LET old == refreshes[c].token
       IN  /\ rows' = [rows EXCEPT ![old] = Revoked(old, refreshes[c].start)]
           /\ access' = access \cup {signed(rows[old].user, refreshes[c].role)}
    /\ refreshes' = [refreshes EXCEPT ![c] = None]
    /\ UNCHANGED <<users, attempts, logins, now, lease, held>>

(* The owner was removed or is inactive: the token stays revoked, none replaces it. *)
RefuseOwner(c) ==
    /\ refreshes[c] # None /\ refreshes[c].step = "swap" /\ refreshes[c].role = None
    /\ LET old == refreshes[c].token
       IN  rows' = [rows EXCEPT ![old] = Revoked(old, refreshes[c].start)]
    /\ refreshes' = [refreshes EXCEPT ![c] = None]
    /\ UNCHANGED <<users, attempts, logins, access, now, lease, held>>

(* What the UPDATE of revokeAllIfReused sees when it starts. *)
SessionsOf(u) == {t \in Tokens : rows[t] # None /\ rows[t].user = u /\ rows[t].revoked = None}

(* A bug the code avoids: a retry is taken for a theft whenever it comes. *)
FindReuseAtOnce(c) ==
    /\ refreshes[c] # None /\ refreshes[c].step = "rotate"
    /\ LET t == refreshes[c].token
       IN  /\ ~Locked(t)
           /\ ~Live(t, refreshes[c].start)
           /\ refreshes' = [refreshes EXCEPT ![c] =
                  IF rows[t] # None /\ rows[t].revoked # None
                  THEN [refreshes[c] EXCEPT !.step = "revoke",
                                          !.doomed = SessionsOf(rows[t].user), !.since = rows[t].revoked]
                  ELSE None]
    /\ UNCHANGED <<users, rows, attempts, logins, access, now, lease, held>>

(* No row to trade in: refused, unless it was revoked longer ago than a retry comes. *)
FindReuse(c) ==
    /\ refreshes[c] # None /\ refreshes[c].step = "rotate"
    /\ LET t == refreshes[c].token
       IN  /\ ~Locked(t)
           /\ ~Live(t, refreshes[c].start)
           /\ refreshes' = [refreshes EXCEPT ![c] =
                  IF rows[t] # None /\ rows[t].revoked # None /\ rows[t].revoked + Grace < refreshes[c].start
                  THEN [refreshes[c] EXCEPT !.step = "revoke",
                                          !.doomed = SessionsOf(rows[t].user), !.since = rows[t].revoked]
                  ELSE None]
    /\ UNCHANGED <<users, rows, attempts, logins, access, now, lease, held>>

(* A bug the code avoids: only the session of the token presented is revoked. *)
RevokeItsOwn(c) ==
    /\ refreshes[c] # None /\ refreshes[c].step = "revoke"
    /\ \A t \in refreshes[c].doomed : ~Locked(t)
    /\ rows' = [t \in Tokens |->
           IF /\ t \in refreshes[c].doomed /\ rows[t] # None /\ rows[t].revoked = None
              /\ rows[refreshes[c].token] # None /\ rows[t].login = rows[refreshes[c].token].login
           THEN Revoked(t, refreshes[c].start) ELSE rows[t]]
    /\ refreshes' = [refreshes EXCEPT ![c] = None]
    /\ UNCHANGED <<users, attempts, logins, access, now, lease, held>>

(* The UPDATE waits for rotations that hold its rows, and leaves what they revoked alone. *)
RevokeAll(c) ==
    /\ refreshes[c] # None /\ refreshes[c].step = "revoke"
    /\ \A t \in refreshes[c].doomed : ~Locked(t)
    /\ rows' = [t \in Tokens |->
           IF t \in refreshes[c].doomed /\ rows[t] # None /\ rows[t].revoked = None
           THEN Revoked(t, refreshes[c].start) ELSE rows[t]]
    /\ refreshes' = [refreshes EXCEPT ![c] = None]
    /\ UNCHANGED <<users, attempts, logins, access, now, lease, held>>

RefreshFails(c) ==
    /\ refreshes[c] # None
    /\ refreshes' = [refreshes EXCEPT ![c] = None]
    /\ UNCHANGED <<users, rows, attempts, logins, access, now, lease, held>>

Logout(t) ==
    /\ rows[t] # None /\ rows[t].revoked = None
    /\ ~Locked(t)
    /\ rows' = [rows EXCEPT ![t] = Revoked(t, now)]
    /\ UNCHANGED <<users, attempts, logins, refreshes, access, now, lease, held>>

-----------------------------------------------------------------------------
(* What happens around auth. *)

(* The user module changes an account; a removal is for good. *)
ChangeAccount(u, account) ==
    /\ ~users[u].removed
    /\ users[u] # account
    /\ users' = [users EXCEPT ![u] = account]
    /\ held' = [held EXCEPT ![<<u, account.role>>] = IF Serves(account) THEN now ELSE @]
    /\ UNCHANGED <<rows, attempts, logins, refreshes, access, now, lease>>

(* No request runs past its limit; what has expired by then is gone. *)
Tick ==
    /\ now < MaxNow
    /\ \A c \in LoginCalls : logins[c] # None => now < logins[c].start + CallLimit
    /\ \A c \in RefreshCalls : refreshes[c] # None => now < refreshes[c].start + CallLimit
    /\ now' = now + 1
    /\ ipAttempts' = [k \in Users \X Addresses |->
           IF ipAttempts[k] # None /\ ipAttempts[k].until <= now' THEN None ELSE ipAttempts[k]]
    /\ emailAttempts' = [u \in Users |->
           IF emailAttempts[u] # None /\ emailAttempts[u].until <= now' THEN None ELSE emailAttempts[u]]
    /\ access' = {a \in access : now' < a.expires}
    /\ held' = [k \in Users \X Roles |->
           IF Serves(users[k[1]]) /\ users[k[1]].role = k[2] THEN now' ELSE held[k]]
    /\ admitted' = [u \in Users |-> {a \in admitted[u] : now' <= a.at + EmailWindow}]
    /\ UNCHANGED <<users, rows, logins, refreshes, lease>>

LoginStep ==
    \E c \in LoginCalls :
        \/ \E u \in Users, a \in Addresses : CountAddress(c, u, a)
        \/ CountEmail(c)
        \/ \E right \in BOOLEAN : CheckPassword(c, right)
        \/ ResetAddress(c)
        \/ \E t \in Tokens : Issue(c, t)
        \/ LoginFails(c)

RefreshStep ==
    \E c \in RefreshCalls :
        \/ \E t \in Tokens : StartRefresh(c, t) \/ Rotate(c, t)
        \/ TakeToken(c) \/ RefuseOwner(c) \/ FindReuse(c) \/ RevokeAll(c) \/ RefreshFails(c)

Next ==
    \/ LoginStep
    \/ RefreshStep
    \/ \E t \in Tokens : Logout(t)
    \/ \E u \in Users, account \in Accounts : ChangeAccount(u, account)
    \/ Tick

Spec == Init /\ [][Next]_vars

-----------------------------------------------------------------------------
(* Properties. *)

TypeOK ==
    /\ users \in [Users -> Account]
    /\ rows \in [Tokens -> Row \cup {None}]
    /\ ipAttempts \in [Users \X Addresses -> Counter \cup {None}]
    /\ emailAttempts \in [Users -> Counter \cup {None}]
    /\ logins \in [LoginCalls -> Login \cup {None}]
    /\ refreshes \in [RefreshCalls -> Refresh \cup {None}]
    /\ access \subseteq AccessToken
    /\ now \in Nat
    /\ lease \in [Tokens -> Nat \cup {None}]
    /\ held \in [Users \X Roles -> Nat \cup {None}]
    /\ admitted \in [Users -> SUBSET Attempt]

(* A login is a session: one token at most works at a time, a token that was traded in or revoked never
   works again, and no rotation moves the end (RotateRefreshToken, "keeping the login's expiry"). *)
Life == INSTANCE SessionLife WITH
    clock <- now, until <- lease,
    usable <- [s \in Tokens |-> {t \in Tokens : Live(t, now) /\ rows[t].login = s}]
SessionSpec == Life!Spec

(* A session ends before its time for a reason: a logout with its token, an owner who was found not to
   work here, or a token of the same user presented later after it was revoked than a retry comes.  Two
   refreshes of one token and a retry of one whose answer was lost do not end it. *)
EndsForCause(s) ==
    \/ \E t \in Tokens : Logout(t) /\ rows[t].login = s
    \/ \E c \in RefreshCalls :
           /\ refreshes[c] # None /\ refreshes'[c] = None
           /\ \/ refreshes[c].step = "swap" /\ refreshes[c].role = None /\ rows[refreshes[c].token].login = s
              \/ refreshes[c].step = "revoke" /\ refreshes[c].since + Grace < refreshes[c].start
Working(s) == \E t \in Tokens : Live(t, now) /\ rows[t].login = s
SessionsEndForCause ==
    [][\A s \in Tokens : Working(s) /\ ~Working(s)' /\ now' = now => EndsForCause(s)]_vars

(* After a reuse was found, no token works that worked when the revocation began: only a rotation that
   was already under way leaves one ("every session of its user revoked", constant.go). *)
ReuseEndsSessions ==
    [][\A c \in RefreshCalls :
           refreshes[c] # None /\ refreshes[c].step = "revoke" /\ refreshes'[c] = None /\ rows' # rows
           => \A t \in refreshes[c].doomed : ~Live(t, now)']_vars

(* Whoever an access token names had that role, and an account that worked, no longer ago than tokens
   live and a request runs; a refresh reads both anew.  That long a token outlives a removal, though
   user/service.go:178-179 has the account stop at once: Auth reads the token and no row. *)
AccessIsRecent ==
    \A a \in access :
        /\ held[<<a.user, a.role>>] # None
        /\ now < held[<<a.user, a.role>>] + AccessTTL + CallLimit

(* However many logins run together, fail or succeed, within the time of one window no more attempts on
   an email get as far as its password than two windows allow: a window starts at its first attempt, is
   not extended, and a login that succeeds does not clear it. *)
BudgetHolds == \A u \in Users : Cardinality(admitted[u]) <= 2 * MaxPerEmail
=============================================================================
