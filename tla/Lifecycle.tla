----------------------------- MODULE Lifecycle ------------------------------
(***************************************************************************)
(* One process of the API from boot to exit (server.ts), as the load       *)
(* balancer sees it (readiness in app.ts), with its background retention   *)
(* sweep (services/maintenance.ts) and the database beside it.             *)
(*                                                                         *)
(* The platform starts the process again when it has exited; the load      *)
(* balancer and the platform are modelled from how the code relies on them.*)
(* Time passes in units of the grace period and of the probes; faults      *)
(* (signals, exceptions, failed statements, database outages) are bounded  *)
(* in number.                                                              *)
(***************************************************************************)
EXTENDS Integers, Sequences, FiniteSets

CONSTANTS Requests,
          Tables,           \* the tables the sweep trims, in its order
          Chunk,            \* CHUNK
          MaxChunks,        \* MAX_CHUNKS_PER_TABLE
          MaxRows,          \* bound: expired rows waiting in a table
          DrainGrace,       \* DRAIN_GRACE_MS
          Deadline,         \* SHUTDOWN_DEADLINE_MS
          ReadyCache,       \* READY_CACHE_MS
          PollEvery,        \* the load balancer probes at least this often
          MaxFaults         \* bound

ASSUME LifecycleAssumption ==
    /\ Chunk \in Nat \ {0} /\ MaxChunks \in Nat \ {0} /\ MaxRows \in Nat
    /\ DrainGrace \in Nat /\ Deadline \in Nat /\ DrainGrace < Deadline
    /\ ReadyCache \in Nat /\ PollEvery \in Nat \ {0} /\ MaxFaults \in Nat
    /\ Tables \in Seq(STRING)

VARIABLES
    phase,      \* up, grace, closing, closed, exited
    exitCode,   \* what process.exit will be given
    elapsed,    \* since shutdown() began
    open,       \* requests being handled
    routed,     \* the load balancer sends requests here
    polled,     \* since its last probe
    database,   \* it answers
    outage,     \* for how long it has not
    lastReady,  \* readiness cache: age and answer
    firstSweep, \* the timer of the first sweep has not fired
    job,        \* where a retention sweep is: table and chunks done
    left,       \* expired rows of each table
    promoDue,   \* a promo past discountExpiresAt still discounts
    faults
shutdownVars == <<phase, exitCode, elapsed>>
balancer == <<open, routed, polled>>
readiness == <<database, outage, lastReady>>
retention == <<firstSweep, job, left, promoDue>>
vars == <<shutdownVars, balancer, readiness, retention, faults>>

NoJob == [table |-> 0, chunks |-> 0]
Stopping == phase \in {"grace", "closing", "closed"}
OutageCap == PollEvery + ReadyCache + 1

Init ==
    /\ phase = "up" /\ exitCode = 0 /\ elapsed = 0
    /\ open = {} /\ routed = TRUE /\ polled = 0
    /\ database = TRUE /\ outage = 0
    /\ lastReady = [age |-> ReadyCache, ok |-> FALSE]
    /\ firstSweep = TRUE /\ job = NoJob
    /\ left = [t \in 1..Len(Tables) |-> 0]
    /\ promoDue = FALSE
    /\ faults = 0

Fault == faults < MaxFaults /\ faults' = faults + 1

-----------------------------------------------------------------------------
(* Requests and probes                                                     *)

\* A request reaches the process it is routed to; once the socket is closed it
\* would be refused.
Route(r) ==
    /\ routed /\ r \notin open
    /\ phase \in {"up", "grace"}
    /\ open' = open \cup {r}
    /\ UNCHANGED <<shutdownVars, routed, polled, readiness, retention, faults>>

\* A handler answers.  Nothing bounds how long it takes.
Finish(r) ==
    /\ r \in open
    /\ open' = open \ {r}
    /\ UNCHANGED <<shutdownVars, routed, polled, readiness, retention, faults>>

\* Mutant of databaseReady: every probe renews the cached answer.
databaseReadyRenewed ==
    IF lastReady.age < ReadyCache THEN [lastReady EXCEPT !.age = 0]
    ELSE [age |-> 0, ok |-> database]

\* The cached answer while it is fresh, else a ping.
databaseReady ==
    IF lastReady.age < ReadyCache THEN lastReady ELSE [age |-> 0, ok |-> database]

\* Mutant of Ready: the drain is not reported.
ReadyWhileDraining == phase \in {"up", "grace"} /\ databaseReady.ok

\* GET /api/health/ready answers 200.  The socket must be open to answer at all.
Ready == phase = "up" /\ databaseReady.ok

\* A probe of the load balancer.
Probe ==
    /\ routed' = Ready
    /\ polled' = 0
    /\ lastReady' = IF phase = "up" THEN databaseReady ELSE lastReady
    /\ UNCHANGED <<shutdownVars, open, database, outage, retention, faults>>

DatabaseFails ==
    /\ database /\ Fault
    /\ database' = FALSE
    /\ UNCHANGED <<shutdownVars, balancer, outage, lastReady, retention>>

DatabaseRecovers ==
    /\ ~database
    /\ database' = TRUE /\ outage' = 0
    /\ UNCHANGED <<shutdownVars, balancer, lastReady, retention, faults>>

-----------------------------------------------------------------------------
(* Shutdown                                                                *)

\* shutdown(signal, code) of SIGTERM, SIGINT, an uncaught exception or an
\* unhandled rejection: readiness fails, the timers stop (but not the one of the
\* first sweep).  A second call returns at once.
Shutdown(code) ==
    /\ phase # "exited" /\ Fault
    /\ IF phase = "up" THEN phase' = "grace" /\ exitCode' = code
                       ELSE UNCHANGED <<phase, exitCode>>
    /\ UNCHANGED <<elapsed, balancer, readiness, retention>>

\* The grace period is over: server.close.
StopAccepting ==
    /\ phase = "grace" /\ elapsed >= DrainGrace
    /\ phase' = "closing"
    /\ UNCHANGED <<exitCode, elapsed, balancer, readiness, retention, faults>>

\* Mutant of Drained: the callback of server.close is not awaited.
DrainedAtOnce ==
    /\ phase = "closing"
    /\ phase' = "closed"
    /\ UNCHANGED <<exitCode, elapsed, balancer, readiness, retention, faults>>

\* The last request has been answered; the pool is disconnected.
Drained ==
    /\ phase = "closing" /\ open = {}
    /\ phase' = "closed"
    /\ UNCHANGED <<exitCode, elapsed, balancer, readiness, retention, faults>>

\* The process is gone with everything that ran in it.
Leave(code) ==
    /\ phase' = "exited" /\ exitCode' = code
    /\ open' = {} /\ job' = NoJob /\ firstSweep' = FALSE
    /\ UNCHANGED <<elapsed, routed, polled, readiness, left, promoDue, faults>>

Exit == phase = "closed" /\ Leave(exitCode)

\* Mutant of ForceExit: the deadline only watches the wait for the database.
ForceExitLate ==
    /\ phase = "closed" /\ elapsed >= Deadline
    /\ Leave(IF exitCode = 0 THEN 1 ELSE exitCode)

\* The deadline timer.
ForceExit ==
    /\ Stopping /\ elapsed >= Deadline
    /\ Leave(IF exitCode = 0 THEN 1 ELSE exitCode)

\* The platform starts the next process.
Boot ==
    /\ phase = "exited"
    /\ phase' = "up" /\ exitCode' = 0 /\ elapsed' = 0
    /\ lastReady' = [age |-> ReadyCache, ok |-> FALSE]
    /\ firstSweep' = TRUE
    /\ UNCHANGED <<balancer, database, outage, job, left, promoDue, faults>>

-----------------------------------------------------------------------------
(* The retention sweep                                                     *)

\* The first sweep's setTimeout is not kept, so nothing clears it; the interval
\* is cleared by the shutdown.
StartSweep ==
    /\ job = NoJob /\ phase # "exited"
    /\ firstSweep \/ phase = "up"
    /\ firstSweep' = FALSE
    /\ job' = [table |-> 1, chunks |-> 0]
    /\ UNCHANGED <<shutdownVars, balancer, readiness, left, promoDue, faults>>

Least(a, b) == IF a < b THEN a ELSE b

\* Mutant of DeleteChunk: a table is cleaned until it is clean.
DeleteChunkUncapped ==
    /\ database /\ job.table \in DOMAIN left
    /\ LET t == job.table  removed == Least(left[t], Chunk) IN
       /\ left' = [left EXCEPT ![t] = @ - removed]
       /\ job' = IF removed < Chunk THEN [table |-> t + 1, chunks |-> 0] ELSE job
    /\ UNCHANGED <<shutdownVars, balancer, readiness, firstSweep, promoDue, faults>>

\* One statement of deleteInChunks: a full chunk is followed by another, up to
\* the cap; then comes the next table.
DeleteChunk ==
    /\ database /\ job.table \in DOMAIN left
    /\ LET t == job.table  removed == Least(left[t], Chunk) IN
       /\ left' = [left EXCEPT ![t] = @ - removed]
       /\ job' = IF removed < Chunk \/ job.chunks + 1 = MaxChunks
                 THEN [table |-> t + 1, chunks |-> 0]
                 ELSE [job EXCEPT !.chunks = @ + 1]
    /\ UNCHANGED <<shutdownVars, balancer, readiness, firstSweep, promoDue, faults>>

\* expireDiscounts, after the last table.
ExpireDiscounts ==
    /\ database /\ job.table = Len(Tables) + 1
    /\ promoDue' = FALSE
    /\ job' = NoJob
    /\ UNCHANGED <<shutdownVars, balancer, readiness, firstSweep, left, faults>>

\* A statement that rejects ends the sweep; what it deleted stays deleted.
SweepEnds ==
    /\ job # NoJob
    /\ job' = NoJob
    /\ UNCHANGED <<shutdownVars, balancer, readiness, firstSweep, left, promoDue>>

\* Every statement rejects while the database is down ...
SweepRejected == ~database /\ SweepEnds /\ UNCHANGED faults

\* ... and any may fail by itself, on a lock or the statement timeout.
SweepFails == Fault /\ SweepEnds

\* Rows expire, promos end.
RowExpires(t) ==
    /\ left[t] < MaxRows
    /\ left' = [left EXCEPT ![t] = @ + 1]
    /\ UNCHANGED <<shutdownVars, balancer, readiness, firstSweep, job, promoDue, faults>>

PromoEnds ==
    /\ ~promoDue /\ promoDue' = TRUE
    /\ UNCHANGED <<shutdownVars, balancer, readiness, firstSweep, job, left, faults>>

-----------------------------------------------------------------------------

\* Time passes, but not beyond the next probe; a shutdown's clock and an
\* outage's stop where the code and the properties no longer look.
Tick ==
    /\ polled < PollEvery
    /\ polled' = polled + 1
    /\ elapsed' = IF Stopping THEN Least(elapsed + 1, Deadline) ELSE elapsed
    /\ outage' = IF database THEN 0 ELSE Least(outage + 1, OutageCap)
    /\ lastReady' = [lastReady EXCEPT !.age = Least(@ + 1, ReadyCache)]
    /\ UNCHANGED <<phase, exitCode, open, routed, database, retention, faults>>

Sweep == StartSweep \/ DeleteChunk \/ ExpireDiscounts \/ SweepRejected

Next ==
    \/ \E r \in Requests : Route(r) \/ Finish(r)
    \/ Probe \/ DatabaseFails \/ DatabaseRecovers
    \/ \E code \in {0, 1} : Shutdown(code)
    \/ StopAccepting \/ Drained \/ Exit \/ ForceExit \/ Boot
    \/ Sweep \/ SweepFails \/ PromoEnds
    \/ \E t \in DOMAIN left : RowExpires(t)
    \/ Tick

Spec == Init /\ [][Next]_vars

\* The clock runs, the balancer probes, timers and callbacks of the event loop
\* fire, the platform restarts the process.  Handlers need not answer, and the
\* database need not recover.
FairSpec ==
    /\ Spec
    /\ WF_vars(Tick) /\ WF_vars(Probe)
    /\ WF_vars(StopAccepting) /\ WF_vars(Drained) /\ WF_vars(Exit)
    /\ WF_vars(ForceExit) /\ WF_vars(Boot)
    /\ WF_vars(Sweep)

-----------------------------------------------------------------------------
(* Properties                                                              *)

\* Every variable keeps its type.
TypeOK ==
    /\ phase \in {"up", "grace", "closing", "closed", "exited"}
    /\ exitCode \in {0, 1} /\ elapsed \in 0..Deadline
    /\ open \subseteq Requests /\ routed \in BOOLEAN /\ polled \in 0..PollEvery
    /\ database \in BOOLEAN /\ outage \in 0..OutageCap
    /\ lastReady \in [age: 0..ReadyCache, ok: BOOLEAN]
    /\ firstSweep \in BOOLEAN
    /\ job \in [table: 0..(Len(Tables) + 1), chunks: 0..(MaxChunks - 1)]
    /\ left \in [1..Len(Tables) -> 0..MaxRows]
    /\ promoDue \in BOOLEAN /\ faults \in 0..MaxFaults

\* "Without this, every redeploy drops a handful of requests into a socket that
\* is already closing": by the time the socket closes the load balancer has seen
\* the failing probe and sends nothing more, if it probes more often than the grace
\* period lasts.
NoRequestRefused ==
    PollEvery < DrainGrace => (phase \in {"closing", "closed"} => ~routed)

\* A request accepted is answered before the process exits, however the
\* shutdown began, unless it is still open at the deadline.
NoRequestCutOff ==
    [][phase' = "exited" /\ open # {} => elapsed >= Deadline]_vars

\* The instance leaves the rotation once its database has been gone for a probe
\* interval and the life of a cached answer.
OutageNoticed == phase = "up" /\ outage >= OutageCap => ~routed

\* A shutdown ends, whatever connections stay open.
ShutdownEnds == Stopping ~> phase = "exited"

\* A promo past its end stops discounting, although rows keep expiring in the
\* tables trimmed before it and sweeps are cut short by errors, outages and
\* redeploys, provided that the database keeps coming back.
PromosExpire == []<>database => (promoDue ~> ~promoDue)
=============================================================================
