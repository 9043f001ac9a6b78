------------------------------ MODULE Serving ------------------------------
(***************************************************************************)
(* One process from start to exit: it opens what it depends on, serves     *)
(* requests that share a bounded pool of database connections, and at a    *)
(* signal drains them and closes its dependencies.                         *)
(*                                                                         *)
(* A request calls an operation of Contracts.  It is turned away at once   *)
(* or handled; what its handler asks of the database is a script of        *)
(* statements and transactions, and a refusal, a failed query, a panic,    *)
(* its deadline and the loss of a commit's answer may end it anywhere.     *)
(* Durations are not counted: a deadline may pass at any moment.           *)
(***************************************************************************)
EXTENDS Sequences, FiniteSets, Contracts

CONSTANTS
    Requests,
    Operation,    \* Operation[r]: which operation r calls
    Scripts,      \* Scripts[r]: what the handler of r asks of the database, in order
    Hangs,        \* requests whose queries may never be answered
    Probes,       \* readiness probes
    Dependencies, \* what a probe pings
    PoolSize,     \* MaxOpenConns
    None

(* The hooks that Close unwinds, in the order they are added; storage adds none. *)
Hooks == <<"log", "postgres", "redis">>

Phases == {"idle", "handling", "waiting", "inside", "ending", "failing", "answered"}

Request == [phase : Phases, todo : Seq({"statement", "transaction"}),
            outcome : {"ok", "refused", "error", "panic"}, refusal : Nat \cup {None}, late : BOOLEAN,
            committed : BOOLEAN, cut : BOOLEAN, answer : Nat \cup {None}]

Probe == [phase : {"idle", "checking", "answered"}, checks : [Dependencies -> {"waiting", "running", "up", "down"}],
          answer : {None, 200, 503}]

ASSUME ScriptsAssumption ==
    /\ Operation \in [Requests -> Operations]
    /\ Scripts \in [Requests -> Seq({"statement", "transaction"})]
ASSUME PoolAssumption ==
    PoolSize \in Nat \ {0} /\ Hangs \subseteq Requests /\ "postgres" \in Dependencies
ASSUME NoneAssumption == None \notin Nat

VARIABLES
    process,    \* how far run() has come
    opened,     \* Container.shutdowns
    failed,     \* run() returns an error: the process exits with 1
    signalled,
    requests, probes

vars == <<process, opened, failed, signalled, requests, probes>>
lifecycle == <<process, opened, failed, signalled>>

Init ==
    /\ process = "opening"
    /\ opened = <<>>
    /\ failed = FALSE
    /\ signalled = FALSE
    /\ requests = [r \in Requests |->
           [phase |-> "idle", todo |-> Scripts[r], outcome |-> "ok", refusal |-> None, late |-> FALSE,
            committed |-> FALSE, cut |-> FALSE, answer |-> None]]
    /\ probes = [p \in Probes |->
           [phase |-> "idle", checks |-> [d \in Dependencies |-> "waiting"], answer |-> None]]

Open(hook) == \E i \in DOMAIN opened : opened[i] = hook

Active ==
    \/ \E r \in Requests : requests[r].phase \notin {"idle", "answered"}
    \/ \E p \in Probes : probes[p].phase = "checking"

(* Whoever holds a connection of the pool. *)
Holding == {r \in Requests : requests[r].phase \in {"inside", "ending"}}
           \cup {p \in Probes : probes[p].phase = "checking" /\ probes[p].checks["postgres"] = "running"}

Available == Open("postgres") /\ Cardinality(Holding) < PoolSize

-----------------------------------------------------------------------------
(* Start, signal, drain, close. *)

OpenHook ==
    /\ process = "opening" /\ Len(opened) < Len(Hooks)
    /\ opened' = Append(opened, Hooks[Len(opened) + 1])
    /\ UNCHANGED <<process, failed, signalled, requests, probes>>

OpenStorage ==
    /\ process = "opening" /\ Len(opened) = Len(Hooks)
    /\ process' = "building"
    /\ UNCHANGED <<opened, failed, signalled, requests, probes>>

(* The router is built, the admin seeded and the port taken. *)
Build ==
    /\ process = "building"
    /\ process' = "serving"
    /\ UNCHANGED <<opened, failed, signalled, requests, probes>>

(* Whatever fails on the way up, or in Serve, closes what was opened so far. *)
Fails ==
    /\ process \in {"opening", "building", "serving"}
    /\ process' = "closing"
    /\ failed' = TRUE
    /\ UNCHANGED <<opened, signalled, requests, probes>>

(* A signal that comes during the start is found when run() asks. *)
Signal ==
    /\ ~signalled
    /\ signalled' = TRUE
    /\ UNCHANGED <<process, opened, failed, requests, probes>>

(* A bug the code avoids: the signal lets run() return, and its deferred Close goes to work at once. *)
ShutdownUndrained ==
    /\ process = "serving" /\ signalled
    /\ process' = "closing"
    /\ UNCHANGED <<opened, failed, signalled, requests, probes>>

(* Shutdown closes the listener and waits for the requests in flight. *)
Shutdown ==
    /\ process = "serving" /\ signalled
    /\ process' = "draining"
    /\ UNCHANGED <<opened, failed, signalled, requests, probes>>

Drained ==
    /\ process = "draining" /\ ~Active
    /\ process' = "closing"
    /\ UNCHANGED <<opened, failed, signalled, requests, probes>>

(* A bug the code avoids: Shutdown given a context without a deadline. *)
DrainForever ==
    /\ process = "draining" /\ ~Active
    /\ process' = "closing"
    /\ failed' = TRUE
    /\ UNCHANGED <<opened, signalled, requests, probes>>

(* The shutdown timeout is shorter than a request's own: what still runs is given up. *)
DrainTimesOut ==
    /\ process = "draining" /\ Active
    /\ process' = "closing"
    /\ failed' = TRUE
    /\ UNCHANGED <<opened, signalled, requests, probes>>

(* Close runs the hooks in reverse, past failures. *)
CloseLast(ok) ==
    /\ process = "closing" /\ opened # <<>>
    /\ opened' = SubSeq(opened, 1, Len(opened) - 1)
    /\ failed' = (failed \/ ~ok)
    /\ UNCHANGED <<process, signalled, requests, probes>>

Exit ==
    /\ process = "closing" /\ opened = <<>>
    /\ process' = "exited"
    /\ UNCHANGED <<opened, failed, signalled, requests, probes>>

-----------------------------------------------------------------------------
(* A request. *)

At(r, phase) == process # "exited" /\ requests[r].phase = phase

Becomes(r, next) ==
    /\ requests' = [requests EXCEPT ![r] = next]
    /\ UNCHANGED <<lifecycle, probes>>

(* What is left of r when its handler returns early. *)
Failing(r, outcome) == [requests[r] EXCEPT !.phase = "failing", !.todo = <<>>, !.outcome = outcome]

Arrive(r) ==
    /\ process = "serving" /\ requests[r].phase = "idle"
    /\ Becomes(r, [requests[r] EXCEPT !.phase = "handling"])

(* No token, a parameter or a body that does not parse: the handler is not called. *)
TurnAway(r, code) ==
    /\ process = "serving" /\ requests[r].phase = "idle"
    /\ code \in TurnedAway(Operation[r])
    /\ Becomes(r, [requests[r] EXCEPT !.phase = "answered", !.outcome = "refused", !.answer = code])

Ask(r) ==
    /\ At(r, "handling") /\ requests[r].todo # <<>>
    /\ Becomes(r, [requests[r] EXCEPT !.phase = "waiting"])

Acquire(r) ==
    /\ At(r, "waiting") /\ Available
    /\ Becomes(r, [requests[r] EXCEPT !.phase = "inside"])

(* A pool that was closed answers at once that it is. *)
MeetClosed(r) ==
    /\ At(r, "waiting") /\ ~Open("postgres")
    /\ Becomes(r, [Failing(r, "error") EXCEPT !.cut = TRUE])

Statement(r) ==
    /\ At(r, "inside") /\ Head(requests[r].todo) = "statement"
    /\ Becomes(r, [requests[r] EXCEPT !.phase = "handling", !.todo = Tail(@)])

(* A bug the code avoids: what a transaction reads is asked of the pool, for a second connection. *)
ReadOutside(r) ==
    /\ At(r, "inside") /\ Head(requests[r].todo) = "transaction"
    /\ Available
    /\ Becomes(r, [requests[r] EXCEPT !.phase = "ending"])

(* A transaction reads and writes on the connection it holds. *)
ReadInside(r) ==
    /\ At(r, "inside") /\ Head(requests[r].todo) = "transaction"
    /\ Becomes(r, [requests[r] EXCEPT !.phase = "ending"])

(* Past the deadline the transaction is rolled back instead. *)
Commit(r) ==
    /\ At(r, "ending") /\ ~requests[r].late
    /\ Becomes(r, [requests[r] EXCEPT !.phase = "handling", !.todo = Tail(@), !.committed = TRUE])

(* The commit went through, its answer did not come back. *)
CommitLost(r) ==
    /\ At(r, "ending")
    /\ Becomes(r, [Failing(r, "error") EXCEPT !.committed = TRUE])

QueryFails(r) ==
    /\ At(r, "waiting") \/ At(r, "inside") \/ At(r, "ending")
    /\ Becomes(r, Failing(r, "error"))

(* What is refused inside a transaction is returned from it, which rolls it back. *)
Refuse(r, code) ==
    /\ At(r, "handling") \/ At(r, "ending")
    /\ ~requests[r].committed
    /\ code \in Refused[Operation[r]]
    /\ Becomes(r, [Failing(r, "refused") EXCEPT !.refusal = code])

Panic(r) ==
    /\ At(r, "handling")
    /\ Becomes(r, Failing(r, "panic"))

Expire(r) ==
    /\ process # "exited" /\ requests[r].phase \notin {"idle", "answered"}
    /\ ~requests[r].late
    /\ Becomes(r, [requests[r] EXCEPT !.late = TRUE])

(* A refusal the handler knows is answered as itself; any other error goes to internalError. *)
Refusal(r) == requests[r].outcome = "refused" /\ requests[r].refusal \in PassedOn[Operation[r]]

(* A bug the code avoids: what the service refuses with is the status, whether the contract has it or not. *)
handledAsRefused(r) ==
    IF requests[r].outcome = "ok" THEN Success(Operation[r])
    ELSE IF requests[r].outcome = "refused" THEN requests[r].refusal ELSE 500

(* The status that the handler, internalError or Recovery sets. *)
handled(r) ==
    IF requests[r].outcome = "ok" THEN Success(Operation[r])
    ELSE IF Refusal(r) THEN requests[r].refusal ELSE 500

(* A bug the code avoids: internalError always writes a body, which leaves Timeout nothing to say. *)
WrittenAlways(r) == requests[r].outcome = "ok" => Success(Operation[r]) \notin Bodyless

(* Whether a body went out with it: a success may have none, and past the deadline internalError writes none. *)
Written(r) ==
    /\ requests[r].outcome = "ok" => Success(Operation[r]) \notin Bodyless
    /\ requests[r].outcome \in {"refused", "error"} /\ ~Refusal(r) => ~requests[r].late

(* A bug the code avoids: nothing recovers a panic, and the connection is dropped. *)
statusUnrecovered(r) ==
    IF requests[r].outcome = "panic" THEN None
    ELSE IF requests[r].late /\ ~Written(r) THEN 504 ELSE handled(r)

(* Timeout replaces a status nothing was written with, a success too; a panic goes past it to Recovery. *)
status(r) == IF requests[r].late /\ ~Written(r) THEN 504 ELSE handled(r)

Answer(r) ==
    /\ At(r, "failing") \/ (At(r, "handling") /\ requests[r].todo = <<>>)
    /\ Becomes(r, [requests[r] EXCEPT !.phase = "answered", !.answer = status(r)])

-----------------------------------------------------------------------------
(* A readiness probe: one goroutine for each dependency. *)

ProbeBecomes(p, next) ==
    /\ probes' = [probes EXCEPT ![p] = next]
    /\ UNCHANGED <<lifecycle, requests>>

Checking(p) == process # "exited" /\ probes[p].phase = "checking"

ArriveProbe(p) ==
    /\ process = "serving" /\ probes[p].phase = "idle"
    /\ ProbeBecomes(p, [probes[p] EXCEPT !.phase = "checking",
           !.checks = [d \in Dependencies |-> IF d = "postgres" THEN "waiting" ELSE "running"]])

(* A ping of PostgreSQL takes a connection of the pool like any query. *)
StartCheck(p) ==
    /\ Checking(p) /\ probes[p].checks["postgres"] = "waiting"
    /\ Available
    /\ ProbeBecomes(p, [probes[p] EXCEPT !.checks["postgres"] = "running"])

CheckAnswers(p, d) ==
    /\ Checking(p) /\ probes[p].checks[d] = "running"
    /\ ProbeBecomes(p, [probes[p] EXCEPT !.checks[d] = "up"])

(* Its deadline, an error or a panic: each is sent as a result. *)
CheckEnds(p, d) ==
    /\ Checking(p) /\ probes[p].checks[d] \in {"waiting", "running"}
    /\ ProbeBecomes(p, [probes[p] EXCEPT !.checks[d] = "down"])

AnswerProbe(p) ==
    /\ Checking(p)
    /\ \A d \in Dependencies : probes[p].checks[d] \in {"up", "down"}
    /\ ProbeBecomes(p, [probes[p] EXCEPT !.phase = "answered",
           !.answer = IF \A d \in Dependencies : probes[p].checks[d] = "up" THEN 200 ELSE 503])

-----------------------------------------------------------------------------

Start == OpenHook \/ OpenStorage \/ Build
Stop == Shutdown \/ Drained \/ DrainTimesOut \/ (\E ok \in BOOLEAN : CloseLast(ok)) \/ Exit

(* What the process itself does next for r, and what PostgreSQL does. *)
GoStep(r) == Ask(r) \/ Acquire(r) \/ MeetClosed(r) \/ Answer(r)
DatabaseStep(r) == Statement(r) \/ ReadInside(r) \/ Commit(r)

RequestStep ==
    \E r \in Requests :
        \/ Arrive(r) \/ GoStep(r) \/ DatabaseStep(r)
        \/ CommitLost(r) \/ QueryFails(r) \/ Panic(r) \/ Expire(r)
        \/ \E code \in TurnedAway(Operation[r]) : TurnAway(r, code)
        \/ \E code \in Refused[Operation[r]] : Refuse(r, code)

ProbeStep ==
    \E p \in Probes :
        \/ ArriveProbe(p) \/ AnswerProbe(p)
        \/ StartCheck(p)
        \/ \E d \in Dependencies : CheckAnswers(p, d) \/ CheckEnds(p, d)

Next == Start \/ Fails \/ Signal \/ Stop \/ RequestStep \/ ProbeStep

(* The Go scheduler runs every goroutine that can run and hands a free connection on; PostgreSQL answers,
   but for the requests in Hangs; a query past its deadline is cancelled; timers fire where something
   waits for nothing else.  No request is owed its deadline: the timeout may be switched off. *)
Fairness ==
    /\ WF_vars(Start) /\ WF_vars(Stop)
    /\ \A r \in Requests : WF_vars(GoStep(r)) /\ WF_vars(requests[r].late /\ QueryFails(r))
    /\ \A r \in Requests \ Hangs : WF_vars(DatabaseStep(r))
    /\ \A p \in Probes : WF_vars(AnswerProbe(p)) /\ \A d \in Dependencies : WF_vars(CheckEnds(p, d))

Spec == Init /\ [][Next]_vars /\ Fairness

-----------------------------------------------------------------------------
(* Properties. *)

(* Every request and every probe that is done was given an answer, a panic included, and no other was. *)
TypeOK ==
    /\ process \in {"opening", "building", "serving", "draining", "closing", "exited"}
    /\ opened \in Seq({"log", "postgres", "redis"})
    /\ failed \in BOOLEAN /\ signalled \in BOOLEAN
    /\ requests \in [Requests -> Request]
    /\ \A r \in Requests : requests[r].answer = None <=> requests[r].phase # "answered"
    /\ probes \in [Probes -> Probe]
    /\ \A p \in Probes : probes[p].answer = None <=> probes[p].phase # "answered"

(* What a client is told is what became of its transaction: a success means that its handler ended well and
   committed, a refusal that nothing changed, and only an answer of 500 or 504 leaves it open; 504 is for
   those past their deadline, of whom nobody but a panic is answered 500 (router.go, internalError).  One
   that ended well is told 504 only where a success has no body, and then it has committed all the same
   (middleware.go, Timeout). *)
EndedWell(r) ==
    /\ requests[r].outcome = "ok"
    /\ Scripts[r] # <<>> /\ Scripts[r][Len(Scripts[r])] = "transaction" => requests[r].committed

AnswersTell ==
    \A r \in Requests :
        LET q == requests[r]
            bodyless == Success(Operation[r]) \in Bodyless
        IN  /\ q.answer = Success(Operation[r]) => EndedWell(r) /\ ~(q.late /\ bodyless)
            /\ q.answer \in 400..499 => ~q.committed
            /\ q.answer = 504 => q.late /\ (q.outcome = "ok" => EndedWell(r) /\ bodyless)
            /\ q.answer = 500 /\ q.late => q.outcome = "panic"

(* Whatever a request meets, its status is one the contract of its operation lists, or 500 or 504; the
   contracts leave out what badRequest and invalidParam answer.  A refusal without a response type of its
   own is an error, never an answer no client was told of (the handlers' switches, internalError). *)
AnswersDeclared ==
    \A r \in Requests :
        requests[r].answer # None =>
            requests[r].answer \in Declared[Operation[r]] \cup {500, 504} \cup invalidParam \cup badRequest

(* A process that exits with 0 cut nobody off: every request it took was answered, and none met a closed
   pool.  The log is closed last, whatever closes and however far the start came. *)
CleanExit ==
    /\ process = "exited" /\ ~failed =>
           ~Active /\ \A r \in Requests : ~requests[r].cut
    /\ opened # <<>> => opened[1] = "log"

(* Nobody waits for a connection that is never given back: a request whose queries are answered is
   answered without its deadline, and a probe whatever its checks do, unless the process exits first. *)
AllAnswered ==
    /\ \A r \in Requests \ Hangs :
           (requests[r].phase = "handling") ~> (requests[r].phase = "answered" \/ process = "exited")
    /\ \A p \in Probes :
           (probes[p].phase = "checking") ~> (probes[p].phase = "answered" \/ process = "exited")

(* Once signalled the process ends, even with a request that never does. *)
Stops == signalled ~> (process = "exited")
=============================================================================
