-------------------------- MODULE LifecycleProofs ---------------------------
(***************************************************************************)
(* Proofs about Lifecycle, for any periods, requests, tables and faults:   *)
(* the process leaves the rotation before its socket closes and when its   *)
(* database is gone, and cuts off no request before the deadline.          *)
(***************************************************************************)
EXTENDS Lifecycle, TLAPS

LEMMA Numbers ==
    /\ Len(Tables) \in Nat
    /\ {MaxRows, DrainGrace, Deadline, ReadyCache, PollEvery, MaxFaults, Chunk, MaxChunks}
          \subseteq Nat
    /\ DrainGrace < Deadline /\ PollEvery # 0 /\ Chunk # 0 /\ MaxChunks # 0
    /\ OutageCap \in Nat /\ OutageCap = PollEvery + ReadyCache + 1
<1>1. Len(Tables) \in Nat
  BY LifecycleAssumption
<1>2. OutageCap \in Nat
  BY LifecycleAssumption DEF OutageCap
<1>3. {MaxRows, DrainGrace, Deadline, ReadyCache, PollEvery, MaxFaults, Chunk, MaxChunks}
         \subseteq Nat
  BY LifecycleAssumption
<1>4. DrainGrace < Deadline /\ PollEvery # 0 /\ Chunk # 0 /\ MaxChunks # 0
  BY LifecycleAssumption
<1> QED BY <1>1, <1>2, <1>3, <1>4 DEF OutageCap

-----------------------------------------------------------------------------
(* Types, part by part                                                     *)

ServingOK ==
    /\ phase \in {"up", "grace", "closing", "closed", "exited"}
    /\ exitCode \in {0, 1} /\ elapsed \in 0..Deadline
    /\ open \subseteq Requests /\ routed \in BOOLEAN /\ polled \in 0..PollEvery

ReadinessOK ==
    /\ database \in BOOLEAN /\ outage \in 0..OutageCap
    /\ lastReady \in [age: 0..ReadyCache, ok: BOOLEAN]

RetentionOK ==
    /\ firstSweep \in BOOLEAN
    /\ job \in [table: 0..(Len(Tables) + 1), chunks: 0..(MaxChunks - 1)]
    /\ left \in [1..Len(Tables) -> 0..MaxRows]
    /\ promoDue \in BOOLEAN

\* An answer of readiness is a record like the cached one.
LEMMA Answers ==
    ASSUME ReadinessOK
    PROVE  databaseReady \in [age: 0..ReadyCache, ok: BOOLEAN] /\ Ready \in BOOLEAN
<1>1. databaseReady \in [age: 0..ReadyCache, ok: BOOLEAN]
  BY Numbers DEF ReadinessOK, databaseReady
<1> QED BY <1>1 DEF Ready

LEMMA ServingTyped == ASSUME ServingOK, ReadinessOK, [Next]_vars PROVE ServingOK'
<1> USE DEF ServingOK, shutdownVars, balancer
<1>1. CASE UNCHANGED <<shutdownVars, balancer>>
  BY <1>1
<1>2. ASSUME NEW r \in Requests, Route(r) \/ Finish(r) PROVE ServingOK'
  BY <1>2 DEF Route, Finish
<1>3. CASE Probe
  BY <1>3, Answers, Numbers DEF Probe
<1>4. ASSUME NEW code \in {0, 1}, Shutdown(code) PROVE ServingOK'
  BY <1>4 DEF Shutdown
<1>5. CASE StopAccepting \/ Drained \/ Exit \/ ForceExit
  BY <1>5 DEF StopAccepting, Drained, Exit, ForceExit, Leave
<1>6. CASE Boot
  BY <1>6, Numbers DEF Boot
<1>7. CASE Tick
  <2>1. elapsed \in 0..Deadline /\ polled \in 0..PollEvery
    OBVIOUS
  <2>2. elapsed' \in 0..Deadline
    BY <1>7, <2>1, Numbers DEF Tick, Least
  <2>3. polled' \in 0..PollEvery
    BY <1>7, <2>1, Numbers DEF Tick
  <2> QED BY <1>7, <2>2, <2>3 DEF Tick
<1> QED
  BY <1>1, <1>2, <1>3, <1>4, <1>5, <1>6, <1>7
  DEF Next, vars, DatabaseFails, DatabaseRecovers, Sweep, StartSweep, DeleteChunk,
      ExpireDiscounts, SweepRejected, SweepFails, SweepEnds, RowExpires, PromoEnds

LEMMA ReadinessTyped == ASSUME ReadinessOK, [Next]_vars PROVE ReadinessOK'
<1> USE DEF ReadinessOK, readiness
<1>1. CASE UNCHANGED readiness
  BY <1>1
<1>2. CASE Probe
  BY <1>2, Answers DEF Probe
<1>3. CASE DatabaseFails \/ DatabaseRecovers
  <2>1. database' \in BOOLEAN /\ lastReady' = lastReady /\ outage' \in {outage, 0}
    BY <1>3 DEF DatabaseFails, DatabaseRecovers
  <2>2. 0 \in 0..OutageCap
    BY Numbers
  <2> QED BY <2>1, <2>2
<1>4. CASE Boot
  BY <1>4, Numbers DEF Boot
<1>5. CASE Tick
  <2>1. /\ outage' = IF database THEN 0 ELSE Least(outage + 1, OutageCap)
        /\ lastReady' = [lastReady EXCEPT !.age = Least(lastReady.age + 1, ReadyCache)]
        /\ database' = database /\ outage \in 0..OutageCap /\ lastReady.age \in 0..ReadyCache
    BY <1>5 DEF Tick
  <2>2. outage' \in 0..OutageCap
    BY <2>1, Numbers DEF Least
  <2>3. Least(lastReady.age + 1, ReadyCache) \in 0..ReadyCache
    BY <2>1, Numbers DEF Least
  <2> QED BY <2>1, <2>2, <2>3
<1> QED
  BY <1>1, <1>2, <1>3, <1>4, <1>5
  DEF Next, vars, Route, Finish, Shutdown, StopAccepting, Drained, Exit, ForceExit, Leave,
      Sweep, StartSweep, DeleteChunk, ExpireDiscounts, SweepRejected, SweepFails, SweepEnds,
      RowExpires, PromoEnds

LEMMA RetentionTyped == ASSUME RetentionOK, [Next]_vars PROVE RetentionOK'
<1> USE DEF RetentionOK, retention
<1>1. NoJob \in [table: 0..(Len(Tables) + 1), chunks: 0..(MaxChunks - 1)]
  BY Numbers DEF NoJob
<1>2. CASE UNCHANGED retention
  BY <1>2
<1>3. CASE Exit \/ ForceExit \/ SweepRejected \/ SweepFails \/ ExpireDiscounts
  BY <1>1, <1>3 DEF Exit, ForceExit, Leave, SweepRejected, SweepFails, SweepEnds, ExpireDiscounts
<1>4. CASE Boot \/ PromoEnds
  BY <1>4 DEF Boot, PromoEnds
<1>5. CASE StartSweep
  <2>1. [table |-> 1, chunks |-> 0] \in [table: 0..(Len(Tables) + 1), chunks: 0..(MaxChunks - 1)]
    BY Numbers
  <2> QED BY <1>5, <2>1 DEF StartSweep
<1>6. CASE DeleteChunk
  <2> DEFINE t == job.table
             removed == Least(left[t], Chunk)
  <2>1. t \in 1..Len(Tables) /\ left[t] \in 0..MaxRows
    BY <1>6 DEF DeleteChunk
  <2>2. removed \in Nat /\ removed <= left[t]
    BY <2>1, Numbers DEF Least
  <2>3. left' = [left EXCEPT ![t] = left[t] - removed]
    BY <1>6 DEF DeleteChunk
  <2>4. \/ job' = [table |-> t + 1, chunks |-> 0]
        \/ job' = [job EXCEPT !.chunks = job.chunks + 1] /\ job.chunks + 1 # MaxChunks
    BY <1>6 DEF DeleteChunk
  <2>5. left' \in [1..Len(Tables) -> 0..MaxRows]
    <3> HIDE DEF removed, t
    <3>1. left[t] - removed \in 0..MaxRows
      BY <2>1, <2>2, Numbers
    <3> QED BY <2>3, <3>1
  <2>6. job.chunks \in 0..(MaxChunks - 1)
    OBVIOUS
  <2>7. job' \in [table: 0..(Len(Tables) + 1), chunks: 0..(MaxChunks - 1)]
    <3>1. t + 1 \in 0..(Len(Tables) + 1) /\ 0 \in 0..(MaxChunks - 1)
      BY <2>1, Numbers
    <3>2. job.chunks + 1 # MaxChunks => job.chunks + 1 \in 0..(MaxChunks - 1)
      BY <2>6, Numbers
    <3> QED BY <2>4, <3>1, <3>2
  <2> QED BY <1>6, <2>5, <2>7 DEF DeleteChunk
<1>7. ASSUME NEW t \in DOMAIN left, RowExpires(t) PROVE RetentionOK'
  <2>1. left[t] \in 0..MaxRows /\ left[t] < MaxRows
    BY <1>7 DEF RowExpires
  <2>2. left[t] + 1 \in 0..MaxRows
    BY <2>1, Numbers
  <2> QED BY <1>7, <2>2 DEF RowExpires
<1> QED
  BY <1>2, <1>3, <1>4, <1>5, <1>6, <1>7
  DEF Next, vars, Route, Finish, Probe, DatabaseFails, DatabaseRecovers, Shutdown,
      StopAccepting, Drained, Sweep, Tick

LEMMA FaultsTyped ==
    ASSUME faults \in 0..MaxFaults, [Next]_vars PROVE faults' \in 0..MaxFaults
<1>1. Fault => faults' \in 0..MaxFaults
  BY Numbers DEF Fault
<1> QED
  BY <1>1
  DEF Next, vars, Route, Finish, Probe, DatabaseFails, DatabaseRecovers, Shutdown,
      StopAccepting, Drained, Exit, ForceExit, Leave, Boot, Sweep, StartSweep, DeleteChunk,
      ExpireDiscounts, SweepRejected, SweepFails, SweepEnds, RowExpires, PromoEnds, Tick

Typed == ServingOK /\ ReadinessOK /\ RetentionOK /\ faults \in 0..MaxFaults

\* Every variable keeps its type.
THEOREM Types == Spec => []TypeOK
<1>1. Typed => TypeOK
  BY DEF Typed, TypeOK, ServingOK, ReadinessOK, RetentionOK
<1>2. Init => Typed
  <2> SUFFICES ASSUME Init PROVE Typed
    OBVIOUS
  <2>1. ServingOK
    BY Numbers DEF Init, ServingOK
  <2>2. ReadinessOK
    BY Numbers DEF Init, ReadinessOK
  <2>3. job \in [table: 0..(Len(Tables) + 1), chunks: 0..(MaxChunks - 1)]
    BY Numbers DEF Init, NoJob
  <2>4. left \in [1..Len(Tables) -> 0..MaxRows]
    BY Numbers DEF Init
  <2>5. RetentionOK
    BY <2>3, <2>4 DEF Init, RetentionOK
  <2> QED BY <2>1, <2>2, <2>5, Numbers DEF Init, Typed
<1>3. Typed /\ [Next]_vars => Typed'
  BY ServingTyped, ReadinessTyped, RetentionTyped, FaultsTyped DEF Typed
<1> QED BY <1>1, <1>2, <1>3, PTL DEF Spec
-----------------------------------------------------------------------------
(* Leaving the rotation                                                    *)

\* While requests still come, the drain is no older than the last probe: the
\* first probe after it began ends them.
DrainInv ==
    /\ phase = "up" => elapsed = 0
    /\ phase = "grace" /\ routed => elapsed <= polled
    /\ phase \in {"closing", "closed"} /\ PollEvery < DrainGrace => ~routed

\* A cached success is no younger than the outage, and a balancer that
\* still sends requests was told so at its last probe.
OutageInv ==
    /\ database => outage = 0
    /\ lastReady.ok /\ lastReady.age < ReadyCache => outage <= lastReady.age
    /\ routed => outage <= ReadyCache + polled

\* A closed process has no request open, and neither has one that is gone.
DrainedInv == phase \in {"closed", "exited"} => open = {}

RotationInv == DrainInv /\ OutageInv /\ DrainedInv

LEMMA RotationStep ==
    ASSUME TypeOK, RotationInv, [Next]_vars
    PROVE  RotationInv'
<1> USE DEF shutdownVars, balancer, readiness, retention
<1>1. /\ elapsed \in Nat /\ polled \in Nat /\ polled <= PollEvery /\ outage \in Nat
      /\ lastReady.age \in 0..ReadyCache /\ lastReady.ok \in BOOLEAN
      /\ lastReady \in [age: 0..ReadyCache, ok: BOOLEAN]
  BY Numbers DEF TypeOK
<1>2. CASE UNCHANGED <<phase, elapsed, open, routed, polled, database, outage, lastReady>>
  BY <1>2 DEF RotationInv, DrainInv, OutageInv, DrainedInv
<1>3. ASSUME NEW r \in Requests, Route(r) \/ Finish(r) PROVE RotationInv'
  BY <1>3 DEF Route, Finish, RotationInv, DrainInv, OutageInv, DrainedInv
<1>4. CASE Probe
  <2>1. DrainInv'
    BY <1>1, <1>4 DEF Probe, Ready, RotationInv, DrainInv
  <2>2. databaseReady.ok => outage <= ReadyCache
    BY <1>1, Numbers DEF databaseReady, RotationInv, OutageInv
  <2>3. /\ databaseReady.ok /\ databaseReady.age < ReadyCache => outage <= databaseReady.age
    BY <1>1, Numbers DEF databaseReady, RotationInv, OutageInv
  <2>4. OutageInv'
    <3>1. /\ routed' => databaseReady.ok
          /\ polled' = 0 /\ database' = database /\ outage' = outage
          /\ lastReady' = databaseReady \/ lastReady' = lastReady
      BY <1>4 DEF Probe, Ready
    <3>2. outage <= ReadyCache => outage <= ReadyCache + 0
      BY <1>1, Numbers
    <3>3. routed' => outage' <= ReadyCache + polled'
      BY <2>2, <3>1, <3>2
    <3>4. lastReady'.ok /\ lastReady'.age < ReadyCache => outage' <= lastReady'.age
      BY <2>3, <3>1 DEF RotationInv, OutageInv
    <3> QED BY <3>1, <3>3, <3>4 DEF RotationInv, OutageInv
  <2>5. DrainedInv'
    BY <1>4 DEF Probe, RotationInv, DrainedInv
  <2> QED BY <2>1, <2>4, <2>5 DEF RotationInv
<1>5. CASE DatabaseFails \/ DatabaseRecovers
  BY <1>1, <1>5, Numbers
  DEF DatabaseFails, DatabaseRecovers, RotationInv, DrainInv, OutageInv, DrainedInv
<1>6. ASSUME NEW code \in {0, 1}, Shutdown(code) PROVE RotationInv'
  BY <1>1, <1>6 DEF Shutdown, RotationInv, DrainInv, OutageInv, DrainedInv
<1>7. CASE StopAccepting
  <2>1. PollEvery < DrainGrace => ~routed
    BY <1>1, <1>7, Numbers DEF StopAccepting, RotationInv, DrainInv
  <2> QED BY <1>7, <2>1 DEF StopAccepting, RotationInv, DrainInv, OutageInv, DrainedInv
<1>8. CASE Drained
  BY <1>8 DEF Drained, RotationInv, DrainInv, OutageInv, DrainedInv
<1>9. CASE Exit \/ ForceExit
  BY <1>9 DEF Exit, ForceExit, Leave, RotationInv, DrainInv, OutageInv, DrainedInv
<1>10. CASE Boot
  BY <1>1, <1>10 DEF Boot, RotationInv, DrainInv, OutageInv, DrainedInv
<1>11. CASE Tick
  <2>1. /\ polled' = polled + 1 /\ UNCHANGED <<phase, open, routed, database>>
        /\ elapsed' = IF Stopping THEN Least(elapsed + 1, Deadline) ELSE elapsed
        /\ outage' = IF database THEN 0 ELSE Least(outage + 1, OutageCap)
        /\ lastReady' = [lastReady EXCEPT !.age = Least(lastReady.age + 1, ReadyCache)]
    BY <1>11 DEF Tick
  <2>2. elapsed' \in Nat /\ elapsed' <= elapsed + 1
    BY <1>1, <2>1, Numbers DEF Least
  <2>3. DrainInv'
    BY <1>1, <2>1, <2>2 DEF RotationInv, DrainInv, Stopping
  <2>4. outage' \in Nat /\ outage' <= outage + 1 /\ (database => outage' = 0)
    BY <1>1, <2>1, Numbers DEF Least
  <2>5. /\ lastReady'.ok = lastReady.ok
        /\ lastReady'.age < ReadyCache => lastReady'.age = lastReady.age + 1
    BY <1>1, <2>1, Numbers DEF Least
  <2>6. OutageInv'
    <3>1. routed' => outage' <= ReadyCache + polled'
      <4>1. ReadyCache \in Nat /\ (routed => outage <= ReadyCache + polled)
        BY Numbers DEF RotationInv, OutageInv
      <4>2. outage + 1 <= ReadyCache + (polled + 1) <=> outage <= ReadyCache + polled
        BY <1>1, <4>1
      <4>3. outage' \in Nat /\ outage' <= outage + 1
            /\ ReadyCache + polled' = ReadyCache + (polled + 1) /\ routed' = routed
        BY <2>1, <2>4
      <4> QED BY <1>1, <4>1, <4>2, <4>3
    <3>2. lastReady'.ok /\ lastReady'.age < ReadyCache => outage' <= lastReady'.age
      <4> SUFFICES ASSUME lastReady'.ok, lastReady'.age < ReadyCache
                   PROVE  outage' <= lastReady'.age
        OBVIOUS
      <4>1. lastReady.ok /\ lastReady'.age = lastReady.age + 1 /\ lastReady.age < ReadyCache
        BY <1>1, <2>5, Numbers
      <4>2. outage <= lastReady.age
        BY <4>1 DEF RotationInv, OutageInv
      <4> QED BY <1>1, <2>4, <4>1, <4>2
    <3>3. database' => outage' = 0
      BY <2>1, <2>4
    <3> QED BY <3>1, <3>2, <3>3 DEF OutageInv
  <2>7. DrainedInv'
    BY <2>1 DEF RotationInv, DrainedInv
  <2> QED BY <2>3, <2>6, <2>7 DEF RotationInv
<1> QED
  BY <1>2, <1>3, <1>4, <1>5, <1>6, <1>7, <1>8, <1>9, <1>10, <1>11
  DEF Next, vars, Sweep, StartSweep, DeleteChunk, ExpireDiscounts, SweepRejected, SweepFails,
      SweepEnds, RowExpires, PromoEnds

LEMMA Rotates == Spec => []RotationInv
<1>1. Init => RotationInv
  BY Numbers DEF Init, RotationInv, DrainInv, OutageInv, DrainedInv
<1> QED BY <1>1, RotationStep, Types, PTL DEF Spec

\* By the time the socket closes the load balancer sends nothing more, for any
\* periods with a probe more often than the grace period lasts.
THEOREM NothingRefused == Spec => []NoRequestRefused
<1>1. RotationInv => NoRequestRefused
  BY DEF RotationInv, DrainInv, NoRequestRefused
<1> QED BY <1>1, Rotates, PTL

\* The process is out of the rotation once its database has been gone for a probe
\* interval and the life of a cached answer.
THEOREM OutagesNoticed == Spec => []OutageNoticed
<1>1. TypeOK /\ RotationInv => OutageNoticed
  BY Numbers DEF TypeOK, RotationInv, OutageInv, OutageNoticed
<1> QED BY <1>1, Rotates, Types, PTL

\* A request accepted is answered before the process exits, unless it is still
\* open at the deadline.
THEOREM NothingCutOff == Spec => NoRequestCutOff
<1>1. RotationInv /\ [Next]_vars => [phase' = "exited" /\ open # {} => elapsed >= Deadline]_vars
  <2> SUFFICES ASSUME RotationInv, Next, phase' = "exited", open # {}
               PROVE  elapsed >= Deadline
    OBVIOUS
  <2>1. phase \notin {"closed", "exited"}
    BY DEF RotationInv, DrainedInv
  <2>2. phase' # phase
    BY <2>1
  <2>3. CASE Exit \/ ForceExit
    BY <2>1, <2>3 DEF Exit, ForceExit
  <2>4. CASE Shutdown(0) \/ Shutdown(1) \/ StopAccepting \/ Drained \/ Boot
    BY <2>1, <2>4 DEF Shutdown, StopAccepting, Drained, Boot
  <2> QED
    BY <2>2, <2>3, <2>4
    DEF Next, shutdownVars, Route, Finish, Probe, DatabaseFails, DatabaseRecovers, Sweep,
        StartSweep, DeleteChunk, ExpireDiscounts, SweepRejected, SweepFails, SweepEnds,
        RowExpires, PromoEnds, Tick
<1> QED BY <1>1, Rotates, PTL DEF Spec, NoRequestCutOff
=============================================================================
