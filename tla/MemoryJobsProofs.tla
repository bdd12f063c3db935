-------------------------- MODULE MemoryJobsProofs --------------------------
(***************************************************************************)
(* Proofs about MemoryJobs, for any sessions, threads, leases and bounds:  *)
(* the type invariant, that no version of a thread is extracted twice, and *)
(* that the workspace has one writer.                                      *)
(***************************************************************************)
EXTENDS MemoryJobs, TLAPS

(* A statement that sets one column of a job leaves a job.                  *)
LEMMA JobColumns ==
    ASSUME NEW j \in Job
    PROVE  /\ \A x \in {"absent", "running", "done", "error"} : [j EXCEPT !.status = x] \in Job
           /\ \A x \in Tokens : [j EXCEPT !.owner = x] \in Job
           /\ \A x \in 0 .. ExtractLease : [j EXCEPT !.lease = x] \in Job
           /\ \A x \in 0 .. RetryDelay : [j EXCEPT !.retry = x] \in Job
           /\ \A x \in 0 .. Retries : [j EXCEPT !.retries = x] \in Job
           /\ \A x \in Versions : [j EXCEPT !.input = x] \in Job
           /\ \A x \in Versions : [j EXCEPT !.success = x] \in Job
<1> USE DEF Job
<1>1. \A x \in {"absent", "running", "done", "error"} : [j EXCEPT !.status = x] \in Job
  OBVIOUS
<1>2. \A x \in Tokens : [j EXCEPT !.owner = x] \in Job
  OBVIOUS
<1>3. \A x \in 0 .. ExtractLease : [j EXCEPT !.lease = x] \in Job
  OBVIOUS
<1>4. \A x \in 0 .. RetryDelay : [j EXCEPT !.retry = x] \in Job
  OBVIOUS
<1>5. \A x \in 0 .. Retries : [j EXCEPT !.retries = x] \in Job
  OBVIOUS
<1>6. \A x \in Versions : [j EXCEPT !.input = x] \in Job
  OBVIOUS
<1>7. \A x \in Versions : [j EXCEPT !.success = x] \in Job
  OBVIOUS
<1> QED
  BY <1>1, <1>2, <1>3, <1>4, <1>5, <1>6, <1>7

(* The same for the row of the global job.                                  *)
LEMMA GlobalColumns ==
    ASSUME NEW g \in GlobalJob
    PROVE  /\ \A x \in {"absent", "pending", "running", "done", "error"} :
                 [g EXCEPT !.status = x] \in GlobalJob
           /\ \A x \in Tokens : [g EXCEPT !.owner = x] \in GlobalJob
           /\ \A x \in 0 .. GlobalLease : [g EXCEPT !.lease = x] \in GlobalJob
           /\ \A x \in 0 .. RetryDelay : [g EXCEPT !.retry = x] \in GlobalJob
           /\ \A x \in 0 .. Cooldown : [g EXCEPT !.rest = x] \in GlobalJob
<1> USE DEF GlobalJob
<1>1. \A x \in {"absent", "pending", "running", "done", "error"} : [g EXCEPT !.status = x] \in GlobalJob
  OBVIOUS
<1>2. \A x \in Tokens : [g EXCEPT !.owner = x] \in GlobalJob
  OBVIOUS
<1>3. \A x \in 0 .. GlobalLease : [g EXCEPT !.lease = x] \in GlobalJob
  OBVIOUS
<1>4. \A x \in 0 .. RetryDelay : [g EXCEPT !.retry = x] \in GlobalJob
  OBVIOUS
<1>5. \A x \in 0 .. Cooldown : [g EXCEPT !.rest = x] \in GlobalJob
  OBVIOUS
<1> QED
  BY <1>1, <1>2, <1>3, <1>4, <1>5

(* Values the statements put into the columns.                              *)
LEMMA Values ==
    /\ 0 \in Versions /\ Nothing \in [Threads -> Versions]
    /\ Nobody \in Tokens /\ Workers \subseteq Tokens
    /\ 0 \in 0 .. ExtractLease /\ ExtractLease \in 0 .. ExtractLease
    /\ 0 \in 0 .. GlobalLease /\ GlobalLease \in 0 .. GlobalLease
    /\ 0 \in 0 .. RetryDelay /\ RetryDelay \in 0 .. RetryDelay
    /\ 0 \in 0 .. Cooldown /\ Cooldown \in 0 .. Cooldown
    /\ 0 \in 0 .. Retries /\ Retries \in 0 .. Retries
    /\ NoJob \in Job /\ NoGlobal \in GlobalJob
    /\ \A n \in Nat : \A k \in 0 .. n : Down(k) \in 0 .. n
BY MemoryAssumption
   DEF Nothing, Versions, Tokens, NoJob, Job, NoGlobal, GlobalJob, Down

(* The rows that the operations on one job write.                           *)
LEMMA JobRows ==
    ASSUME NEW j \in Job
    PROVE  /\ Done(j) \in Job
           /\ [j EXCEPT !.owner = Nobody] \in Job
           /\ [j EXCEPT !.lease = Down(@), !.retry = Down(@)] \in Job
           /\ \A w \in Workers, v \in Versions : Claimed(j, w, v) \in Job
           /\ j.retries > 0 => Failed(j) \in Job
<1> DEFINE S == {"absent", "running", "done", "error"}
<1>0. "running" \in S /\ "done" \in S /\ "error" \in S
  OBVIOUS
<1>1. Done(j) \in Job
  <2>1. j.input \in Versions
    BY DEF Job
  <2> QED
    BY <1>0, <2>1, JobColumns, Values, Zenon DEF Done
<1>2. [j EXCEPT !.owner = Nobody] \in Job
  BY JobColumns, Values
<1>3. [j EXCEPT !.lease = Down(@), !.retry = Down(@)] \in Job
  <2>1. Down(j.lease) \in 0 .. ExtractLease /\ Down(j.retry) \in 0 .. RetryDelay
    BY MemoryAssumption, Values DEF Job
  <2> QED
    BY <2>1, JobColumns
<1>4. ASSUME NEW w \in Workers, NEW v \in Versions
      PROVE  Claimed(j, w, v) \in Job
  <2>1. w \in Tokens
    BY Values
  <2>2. ASSUME NEW r \in 0 .. Retries
        PROVE  [j EXCEPT !.status = "running", !.owner = w, !.lease = ExtractLease,
                         !.retry = 0, !.retries = r, !.input = v] \in Job
    BY <1>0, <2>1, JobColumns, Values, Zenon
  <2>3. (IF v > j.input THEN Retries ELSE j.retries) \in 0 .. Retries
    BY Values DEF Job
  <2> QED
    BY <2>2, <2>3, Zenon DEF Claimed
<1>5. ASSUME j.retries > 0
      PROVE  Failed(j) \in Job
  <2>1. j.retries - 1 \in 0 .. Retries
    BY <1>5, MemoryAssumption DEF Job
  <2> QED
    BY <1>0, <2>1, JobColumns, Values, Zenon DEF Failed
<1> QED
  BY <1>1, <1>2, <1>3, <1>4, <1>5

(* The rows that the operations on the global job write.                    *)
LEMMA GlobalRows ==
    ASSUME global \in GlobalJob
    PROVE  /\ Enqueued \in GlobalJob
           /\ [global EXCEPT !.owner = Nobody] \in GlobalJob
           /\ [global EXCEPT !.lease = GlobalLease] \in GlobalJob
           /\ [global EXCEPT !.lease = Down(@), !.retry = Down(@), !.rest = Down(@)] \in GlobalJob
           /\ [global EXCEPT !.status = "done", !.owner = Nobody, !.lease = 0, !.rest = Cooldown]
                 \in GlobalJob
           /\ [global EXCEPT !.status = "error", !.owner = Nobody, !.lease = 0, !.retry = RetryDelay]
                 \in GlobalJob
           /\ \A w \in Workers : [status |-> "running", owner |-> w, lease |-> GlobalLease,
                                  retry |-> 0, rest |-> 0] \in GlobalJob
<1> DEFINE S == {"absent", "pending", "running", "done", "error"}
<1>0. "pending" \in S /\ "done" \in S /\ "error" \in S
  OBVIOUS
<1>1. Enqueued \in GlobalJob
  BY <1>0, GlobalColumns, Values, Zenon DEF Enqueued
<1>2. /\ [global EXCEPT !.owner = Nobody] \in GlobalJob
      /\ [global EXCEPT !.lease = GlobalLease] \in GlobalJob
  BY GlobalColumns, Values
<1>3. [global EXCEPT !.lease = Down(@), !.retry = Down(@), !.rest = Down(@)] \in GlobalJob
  <2>1. /\ Down(global.lease) \in 0 .. GlobalLease /\ Down(global.retry) \in 0 .. RetryDelay
        /\ Down(global.rest) \in 0 .. Cooldown
    BY MemoryAssumption, Values DEF GlobalJob
  <2> QED
    BY <2>1, GlobalColumns
<1>4. /\ [global EXCEPT !.status = "done", !.owner = Nobody, !.lease = 0, !.rest = Cooldown]
            \in GlobalJob
      /\ [global EXCEPT !.status = "error", !.owner = Nobody, !.lease = 0, !.retry = RetryDelay]
            \in GlobalJob
  BY <1>0, GlobalColumns, Values, Zenon
<1>5. \A w \in Workers : [status |-> "running", owner |-> w, lease |-> GlobalLease,
                          retry |-> 0, rest |-> 0] \in GlobalJob
  BY Values DEF GlobalJob
<1> QED
  BY <1>1, <1>2, <1>3, <1>4, <1>5

(* A table with one entry written is a table; two levels, for the workers.  *)
LEMMA Written ==
    ASSUME NEW D, NEW R, NEW f \in [D -> R], NEW d \in D, NEW r \in R
    PROVE  [f EXCEPT ![d] = r] \in [D -> R]
OBVIOUS

LEMMA WrittenTwo ==
    ASSUME NEW D, NEW E, NEW R, NEW f \in [D -> [E -> R]], NEW d \in D, NEW e \in E, NEW r \in R
    PROVE  [f EXCEPT ![d][e] = r] \in [D -> [E -> R]]
OBVIOUS

(* Empty tables, and nobody at work.                                        *)
LEMMA InitMemory == Init => MemoryInv
<1> SUFFICES ASSUME Init PROVE MemoryInv
  OBVIOUS
<1>1. TypeOK
  <2>1. faults \in 0 .. MaxFaults /\ extracted \in [Threads -> [Versions -> Nat]]
    BY MemoryAssumption DEF Init
  <2> QED
    BY <2>1, Values DEF Init, TypeOK, Modes, PCs
<1>2. \A t \in Threads : JobSound(t)
  BY DEF Init, JobSound, Owns, NoJob, Versions
<1>3. \A w \in Workers : GlobalSound(w)
  BY DEF Init, GlobalSound, Consolidating
<1> QED
  BY <1>1, <1>2, <1>3 DEF MemoryInv

(* Every statement keeps the tables and the locals of the workers typed.    *)
LEMMA NextTypes ==
    ASSUME MemoryInv, [Next]_vars
    PROVE  TypeOK'
<1> USE DEF MemoryInv
<1>1. CASE UNCHANGED vars
  BY <1>1 DEF vars, ThreadRows, Database, Workspace, Locals, Rest, History, TypeOK
<1>2. \A t \in Threads : job[t] \in Job
  BY DEF TypeOK
<1>3. \A t \in Threads :
         /\ Done(job[t]) \in Job /\ [job[t] EXCEPT !.owner = Nobody] \in Job
         /\ [job[t] EXCEPT !.lease = Down(@), !.retry = Down(@)] \in Job
  BY <1>2, JobRows
<1>4. /\ Enqueued \in GlobalJob
      /\ [global EXCEPT !.owner = Nobody] \in GlobalJob
      /\ [global EXCEPT !.lease = GlobalLease] \in GlobalJob
      /\ [global EXCEPT !.lease = Down(@), !.retry = Down(@), !.rest = Down(@)] \in GlobalJob
  BY GlobalRows DEF TypeOK
<1>5. CASE Tick
  BY <1>3, <1>4, <1>5 DEF Tick, Workspace, Locals, Rest, History, TypeOK
<1>6. CASE ClearMemoryData
  <2>1. faults' \in 0 .. MaxFaults
    BY <1>6, MemoryAssumption DEF ClearMemoryData, Fault, TypeOK
  <2>2. extracted' \in [Threads -> [Versions -> Nat]]
    BY <1>6 DEF ClearMemoryData
  <2> QED
    BY <1>6, <2>1, <2>2, Values DEF ClearMemoryData, ThreadRows, Workspace, Locals, TypeOK
<1>7. CASE ClearFiles
  BY <1>7, Values DEF ClearFiles, ThreadRows, Database, Locals, History, TypeOK
<1>8. ASSUME NEW t \in Threads, ThreadStep(t) PROVE TypeOK'
  <2> USE DEF Database, Workspace, Locals, Rest, History, TypeOK, Modes
  <2>1. CASE Touch(t)
    <3>1. version' \in [Threads -> Versions]
      BY <2>1, MemoryAssumption DEF Touch, Versions
    <3> QED
      BY <2>1, <3>1 DEF Touch
  <2>2. CASE Pollute(t)
    BY <2>2 DEF Pollute
  <2>3. CASE EnqueueForgetting(t)
    BY <1>4, <2>3 DEF EnqueueForgetting, ThreadRows
  <2>4. CASE DeleteMemory(t)
    <3>1. extracted' \in [Threads -> [Versions -> Nat]]
      BY <2>4 DEF DeleteMemory
    <3> QED
      BY <1>4, <2>4, <3>1, Values DEF DeleteMemory
  <2>5. CASE DeleteThread(t)
    BY <2>5 DEF DeleteThread
  <2>6. CASE GoStale(t)
    BY <2>6 DEF GoStale, ThreadRows
  <2> QED
    BY <1>8, <2>1, <2>2, <2>3, <2>4, <2>5, <2>6 DEF ThreadStep
<1>9. ASSUME Fault PROVE faults' \in 0 .. MaxFaults
  BY <1>9, MemoryAssumption DEF Fault, TypeOK
<1>10. /\ job \in [Threads -> Job] /\ output \in [Threads -> Versions]
       /\ version \in [Threads -> Versions] /\ pc \in [Workers -> PCs]
  BY DEF TypeOK
<1>11. /\ scan \in [Workers -> [Threads -> Versions]] /\ held \in [Workers -> [Threads -> Versions]]
       /\ picked \in [Workers -> [Threads -> Versions]]
       /\ extracted \in [Threads -> [Versions -> Nat]]
  BY DEF TypeOK
<1>12. ASSUME NEW w \in Workers, NEW p \in PCs, GoTo(w, p) PROVE pc' \in [Workers -> PCs]
  BY <1>10, <1>12 DEF GoTo
<1>13. ASSUME NEW w \in Workers
       PROVE  /\ [scan EXCEPT ![w] = Nothing] \in [Workers -> [Threads -> Versions]]
              /\ [held EXCEPT ![w] = Nothing] \in [Workers -> [Threads -> Versions]]
              /\ [picked EXCEPT ![w] = Nothing] \in [Workers -> [Threads -> Versions]]
  BY <1>11, Values, Written
<1>14. ASSUME NEW w \in Workers, Start(w) PROVE TypeOK'
  <2>1. pc' \in [Workers -> PCs]
    BY <1>10, <1>12, <1>14 DEF Start, PCs
  <2>2. scan' \in [Workers -> [Threads -> Versions]]
    <3>1. [t \in Threads |-> IF Listed(t) THEN version[t] ELSE 0] \in [Threads -> Versions]
      BY <1>10, Values
    <3> DEFINE listed == [t \in Threads |-> IF Listed(t) THEN version[t] ELSE 0]
    <3>2. scan' = scan \/ scan' = [scan EXCEPT ![w] = listed]
      BY <1>14, Zenon DEF Start
    <3> HIDE DEF listed
    <3>3. [scan EXCEPT ![w] = listed] \in [Workers -> [Threads -> Versions]]
      BY <1>11, <3>1 DEF listed
    <3> QED
      BY <1>11, <3>2, <3>3
  <2>3. output' \in [Threads -> Versions] /\ stale' \subseteq Threads
    BY <1>14, Values DEF Start, TypeOK
  <2>4. faults' \in 0 .. MaxFaults
    BY <1>9, <1>14 DEF Start, TypeOK
  <2> QED
    BY <1>14, <2>1, <2>2, <2>3, <2>4 DEF Start, ThreadRows, Workspace, Rest, History, TypeOK
<1>15. ASSUME NEW w \in Workers, NEW t \in Threads, ClaimJob(w, t) PROVE TypeOK'
  <2>1. scan[w][t] \in Versions /\ scan' \in [Workers -> [Threads -> Versions]]
    <3>1. [scan EXCEPT ![w][t] = 0] \in [Workers -> [Threads -> Versions]]
      BY <1>11, Values, WrittenTwo
    <3> QED
      BY <1>11, <1>15, <3>1 DEF ClaimJob
  <2>2. CASE UNCHANGED <<job, held>>
    BY <1>15, <2>1, <2>2 DEF ClaimJob, ThreadRows, Workspace, Rest, History, TypeOK
  <2>3. ASSUME job' = [job EXCEPT ![t] = Claimed(@, w, scan[w][t])],
               held' = [held EXCEPT ![w][t] = scan[w][t]]
        PROVE  TypeOK'
    <3>1. job' \in [Threads -> Job]
      <4>1. Claimed(job[t], w, scan[w][t]) \in Job
        BY <1>2, <2>1, JobRows
      <4> QED
        BY <1>10, <2>3, <4>1, Written
    <3>2. held' \in [Workers -> [Threads -> Versions]]
      BY <1>11, <2>1, <2>3, WrittenTwo
    <3> QED
      BY <1>15, <2>1, <3>1, <3>2 DEF ClaimJob, ThreadRows, Workspace, Rest, History, TypeOK
  <2> QED
    BY <1>15, <2>2, <2>3 DEF ClaimJob
<1>16. ASSUME NEW w \in Workers
       PROVE  [t \in Threads |-> IF job[t].owner = w THEN [job[t] EXCEPT !.owner = Nobody] ELSE job[t]]
                 \in [Threads -> Job]
  BY <1>2, <1>3
<1>17. ASSUME NEW w \in Workers, ClaimFails(w) PROVE TypeOK'
  BY <1>9, <1>13, <1>16, <1>17 DEF ClaimFails, ThreadRows, Workspace, Rest, History, TypeOK
<1>18. ASSUME NEW w \in Workers, NEW t \in Threads,
              Extract(w, t) \/ ExtractNothing(w, t) \/ ExtractFails(w, t)
       PROVE  TypeOK'
  <2>1. held' \in [Workers -> [Threads -> Versions]]
    <3>1. [held EXCEPT ![w][t] = 0] \in [Workers -> [Threads -> Versions]]
      BY <1>11, Values, WrittenTwo
    <3> QED
      BY <1>18, <3>1 DEF Extract, ExtractNothing, ExtractFails, Release
  <2>2. held[w][t] \in Versions
    BY <1>11
  <2>3. [extracted EXCEPT ![t][held[w][t]] = @ + 1] \in [Threads -> [Versions -> Nat]]
    BY <1>11, <2>2
  <2>4. [job EXCEPT ![t] = Done(@)] \in [Threads -> Job]
    BY <1>3, <1>10, Written
  <2>5. [output EXCEPT ![t] = 0] \in [Threads -> Versions]
    BY <1>10, Values, Written
  <2>6. CASE Extract(w, t)
    <3>1. output' \in [Threads -> Versions]
      <4>1. [output EXCEPT ![t] = IF held[w][t] > @ THEN held[w][t] ELSE @] \in [Threads -> Versions]
        BY <1>10, <2>2
      <4> QED
        BY <1>10, <2>6, <4>1 DEF Extract
    <3>2. job' \in [Threads -> Job]
      BY <1>10, <2>4, <2>6 DEF Extract
    <3>3. global' \in GlobalJob
      BY <1>4, <2>6 DEF Extract, TypeOK
    <3>4. extracted' \in [Threads -> [Versions -> Nat]]
      BY <1>11, <2>3, <2>6 DEF Extract
    <3>5. stale' \subseteq Threads
      BY <2>6 DEF Extract, TypeOK
    <3> QED
      BY <2>1, <2>6, <3>1, <3>2, <3>3, <3>4, <3>5 DEF Extract, ThreadRows, Workspace, Rest, TypeOK
  <2>7. CASE ExtractNothing(w, t)
    <3>1. output' \in [Threads -> Versions]
      BY <1>10, <2>5, <2>7 DEF ExtractNothing
    <3>2. job' \in [Threads -> Job]
      BY <1>10, <2>4, <2>7 DEF ExtractNothing
    <3>3. global' \in GlobalJob
      BY <1>4, <2>7 DEF ExtractNothing, TypeOK
    <3>4. extracted' \in [Threads -> [Versions -> Nat]]
      BY <1>11, <2>3, <2>7 DEF ExtractNothing
    <3>5. stale' \subseteq Threads /\ selected' \subseteq Threads
      BY <2>7 DEF ExtractNothing, TypeOK
    <3> QED
      BY <2>1, <2>7, <3>1, <3>2, <3>3, <3>4, <3>5 DEF ExtractNothing, ThreadRows, Workspace, Rest, TypeOK
  <2>8. CASE ExtractFails(w, t)
    <3>1. job' \in [Threads -> Job]
      <4>1. CASE Owns(w, t)
        <5>1. job[t].retries > 0
          BY <4>1 DEF JobSound, Owns
        <5>2. Failed(job[t]) \in Job
          BY <1>2, <5>1, JobRows
        <5> QED
          BY <1>10, <2>8, <4>1, <5>2, Written DEF ExtractFails
      <4>2. CASE ~Owns(w, t)
        BY <1>10, <2>8, <4>2 DEF ExtractFails
      <4> QED
        BY <4>1, <4>2
    <3> QED
      BY <1>9, <2>1, <2>8, <3>1 DEF ExtractFails, ThreadRows, Workspace, Rest, History, TypeOK
  <2> QED
    BY <1>18, <2>6, <2>7, <2>8
<1>19. ASSUME NEW w \in Workers, Leave(w)
       PROVE  /\ pc' \in [Workers -> PCs] /\ scan' \in [Workers -> [Threads -> Versions]]
              /\ held' \in [Workers -> [Threads -> Versions]]
              /\ picked' \in [Workers -> [Threads -> Versions]] /\ stray' \subseteq Workers
  <2>1. pc' \in [Workers -> PCs]
    BY <1>12, <1>19 DEF Leave, PCs
  <2> QED
    BY <1>11, <1>13, <1>19, <2>1 DEF Leave, TypeOK
<1>20. ASSUME NEW w \in Workers, ClaimGlobal(w) PROVE TypeOK'
  <2>1. /\ pc' \in [Workers -> PCs] /\ scan' \in [Workers -> [Threads -> Versions]]
        /\ held' \in [Workers -> [Threads -> Versions]]
        /\ picked' \in [Workers -> [Threads -> Versions]] /\ stray' \subseteq Workers
    <3>1. CASE Leave(w)
      BY <1>19, <3>1
    <3>2. CASE ~Leave(w)
      <4>1. GoTo(w, "claimed") /\ scan' = [scan EXCEPT ![w] = Nothing] /\ UNCHANGED <<held, picked, stray>>
        BY <1>20, <3>2 DEF ClaimGlobal
      <4>2. pc' \in [Workers -> PCs]
        BY <1>12, <4>1 DEF PCs
      <4> QED
        BY <1>11, <1>13, <4>1, <4>2 DEF TypeOK
    <3> QED
      BY <3>1, <3>2
  <2>2. global' \in GlobalJob
    BY <1>20, GlobalRows DEF ClaimGlobal, TypeOK
  <2> QED
    BY <1>20, <2>1, <2>2 DEF ClaimGlobal, ThreadRows, Workspace, Rest, TypeOK
<1>21. ASSUME NEW w \in Workers, Sync(w) PROVE TypeOK'
  <2> DEFINE selection == [t \in Threads |-> IF Eligible(t) THEN output[t] ELSE 0]
  <2>1. selection \in [Threads -> Versions]
    BY <1>10, Values
  <2>2. picked' = [picked EXCEPT ![w] = selection] /\ inputs' = selection
    BY <1>21, Zenon DEF Sync
  <2>3. picked' \in [Workers -> [Threads -> Versions]] /\ inputs' \in [Threads -> Versions]
    <3> HIDE DEF selection
    <3> QED
      BY <1>11, <2>1, <2>2, Written
  <2>4. pc' \in [Workers -> PCs] /\ messy' \in BOOLEAN
    <3>1. GoTo(w, "agent") \/ GoTo(w, "unchanged")
      BY <1>21 DEF Sync
    <3>2. messy' \in BOOLEAN
      BY <1>21, Zenon DEF Sync, TypeOK
    <3> QED
      BY <1>12, <3>1, <3>2 DEF PCs
  <2> QED
    BY <1>21, <2>3, <2>4 DEF Sync, ThreadRows, Database, Rest, History, TypeOK
<1>22. ASSUME NEW w \in Workers, Succeed(w) PROVE TypeOK'
  <2>1. global' \in GlobalJob /\ selected' \subseteq Threads
    BY <1>22, GlobalRows DEF Succeed, TypeOK
  <2>2. Leave(w)
    BY <1>22 DEF Succeed
  <2> QED
    BY <1>19, <1>22, <2>1, <2>2 DEF Succeed, ThreadRows, Workspace, Rest, TypeOK
<1>23. ASSUME NEW w \in Workers, Heartbeat(w) PROVE TypeOK'
  BY <1>4, <1>23 DEF Heartbeat, ThreadRows, Workspace, Locals, Rest, History, TypeOK
<1>24. ASSUME NEW w \in Workers, Confirm(w) PROVE TypeOK'
  <2>1. /\ pc' \in [Workers -> PCs] /\ scan' \in [Workers -> [Threads -> Versions]]
        /\ held' \in [Workers -> [Threads -> Versions]]
        /\ picked' \in [Workers -> [Threads -> Versions]] /\ stray' \subseteq Workers
    <3>1. CASE Leave(w)
      BY <1>19, <3>1
    <3>2. CASE ~Leave(w)
      <4>1. GoTo(w, "confirmed") /\ UNCHANGED <<scan, held, picked, stray>>
        BY <1>24, <3>2 DEF Confirm
      <4>2. pc' \in [Workers -> PCs]
        BY <1>12, <4>1 DEF PCs
      <4> QED
        BY <1>11, <4>1, <4>2 DEF TypeOK
    <3> QED
      BY <3>1, <3>2
  <2>2. global' \in GlobalJob
    BY <1>4, <1>24 DEF Confirm, TypeOK
  <2> QED
    BY <1>24, <2>1, <2>2 DEF Confirm, ThreadRows, Workspace, Rest, TypeOK
<1>25. ASSUME NEW w \in Workers, ResetBaseline(w) PROVE TypeOK'
  <2>1. pc' \in [Workers -> PCs]
    BY <1>12, <1>25 DEF ResetBaseline, PCs
  <2> QED
    BY <1>25, <2>1 DEF ResetBaseline, ThreadRows, Database, Rest, History, TypeOK
<1>26. ASSUME NEW w \in Workers, Phase2Fails(w) PROVE TypeOK'
  <2>1. global' \in GlobalJob
    BY <1>26, GlobalRows DEF Phase2Fails, TypeOK
  <2>2. Leave(w) /\ faults' \in 0 .. MaxFaults
    BY <1>9, <1>26 DEF Phase2Fails
  <2> QED
    BY <1>19, <1>26, <2>1, <2>2 DEF Phase2Fails, ThreadRows, Workspace, Rest, TypeOK
<1>27. ASSUME NEW w \in Workers, Crash(w) PROVE TypeOK'
  <2>1. pc' \in [Workers -> PCs] /\ faults' \in 0 .. MaxFaults
    BY <1>9, <1>12, <1>27 DEF Crash, PCs
  <2>2. global' \in GlobalJob
    BY <1>4, <1>27 DEF Crash, TypeOK
  <2>3. job' \in [Threads -> Job]
    BY <1>16, <1>27 DEF Crash
  <2> QED
    BY <1>13, <1>27, <2>1, <2>2, <2>3 DEF Crash, ThreadRows, Workspace, Rest, TypeOK
<1> QED
  BY <1>1, <1>5, <1>6, <1>7, <1>8, <1>14, <1>15, <1>17, <1>18, <1>20, <1>21, <1>22, <1>23, <1>24,
     <1>25, <1>26, <1>27 DEF Next, Work

(* What the invariant of a job looks at.                                    *)
LEMMA JobSame ==
    ASSUME NEW t \in Threads, JobSound(t),
           job'[t] = job[t], extracted'[t] = extracted[t],
           \A w \in Workers : held'[w][t] = held[w][t]
    PROVE  JobSound(t)'
BY DEF JobSound, Owns

(* No statement breaks the invariant of a job: a claim takes a version      *)
(* newer than the last success, only the owner records a success, and then  *)
(* the row has no owner.                                                    *)
LEMMA NextJobs ==
    ASSUME MemoryInv, [Next]_vars, NEW t \in Threads
    PROVE  JobSound(t)'
<1>1. /\ JobSound(t) /\ job \in [Threads -> Job] /\ job[t] \in Job
      /\ held \in [Workers -> [Threads -> Versions]] /\ scan \in [Workers -> [Threads -> Versions]]
      /\ extracted \in [Threads -> [Versions -> Nat]] /\ extracted[t] \in [Versions -> Nat]
  BY DEF MemoryInv, TypeOK
<1>2. Nobody \notin Workers /\ Retries > 0 /\ Retries \in Nat
  BY MemoryAssumption
<1>3. /\ job[t].retries \in Nat /\ job[t].input \in Versions /\ job[t].success \in Versions
      /\ job[t].input \in Nat /\ job[t].success \in Nat /\ \A v \in Versions : v \in Nat
  BY <1>1, MemoryAssumption DEF Job, Versions
<1>4. CASE UNCHANGED <<job, held, extracted>>
  BY <1>1, <1>4, JobSame
<1>5. CASE Tick
  <2>1. /\ job'[t].status = job[t].status /\ job'[t].owner = job[t].owner
        /\ job'[t].retries = job[t].retries /\ job'[t].input = job[t].input
        /\ job'[t].success = job[t].success /\ held' = held /\ extracted' = extracted
    BY <1>1, <1>5 DEF Tick, Job, Locals, History
  <2> QED
    BY <1>1, <2>1 DEF JobSound, Owns
<1>6. ASSUME job'[t] = NoJob, \A v \in Versions : extracted'[t][v] = 0
      PROVE  JobSound(t)'
  BY <1>3, <1>6 DEF JobSound, Owns, NoJob
<1>7. CASE ClearMemoryData
  BY <1>6, <1>7 DEF ClearMemoryData
<1>8. ASSUME NEW u \in Threads, ThreadStep(u) PROVE JobSound(t)'
  <2>1. CASE DeleteMemory(u)
    <3>1. CASE u = t
      BY <1>1, <1>6, <2>1, <3>1 DEF DeleteMemory
    <3>2. CASE u # t
      <4>1. job'[t] = job[t] /\ extracted'[t] = extracted[t] /\ held' = held
        BY <1>1, <2>1, <3>2 DEF DeleteMemory, Locals
      <4> QED
        BY <1>1, <4>1, JobSame
    <3> QED
      BY <3>1, <3>2
  <2>2. CASE ~DeleteMemory(u)
    BY <1>4, <1>8, <2>2
       DEF ThreadStep, Touch, Pollute, EnqueueForgetting, DeleteThread, GoStale, Database, Locals, History
  <2> QED
    BY <2>1, <2>2
<1>9. ASSUME NEW w \in Workers, NEW u \in Threads, ClaimJob(w, u) PROVE JobSound(t)'
  <2>1. extracted' = extracted
    BY <1>9 DEF ClaimJob, History
  <2>2. CASE u # t
    <3>1. job'[t] = job[t] /\ \A x \in Workers : held'[x][t] = held[x][t]
      <4>1. job' = job \/ job' = [job EXCEPT ![u] = Claimed(@, w, scan[w][u])]
        BY <1>9, Zenon DEF ClaimJob
      <4>2. held' = held \/ held' = [held EXCEPT ![w][u] = scan[w][u]]
        BY <1>9, Zenon DEF ClaimJob
      <4>3. job'[t] = job[t]
        BY <1>1, <2>2, <4>1
      <4>4. ASSUME NEW x \in Workers PROVE held'[x][t] = held[x][t]
        <5>1. [held EXCEPT ![w][u] = scan[w][u]][x][t] = held[x][t]
          BY <1>1, <2>2
        <5> QED
          BY <4>2, <5>1
      <4> QED
        BY <4>3, <4>4
    <3> QED
      BY <1>1, <2>1, <3>1, JobSame
  <2>3. CASE u = t
    <3> DEFINE v == scan[w][t]
    <3>0. v \in Versions
      BY <1>1
    <3>1. v \in Versions /\ v \in Nat
      BY <1>3, <3>0
    <3>2. CASE ~Claimable(t, v)
      BY <1>4, <1>9, <2>1, <2>3, <3>2 DEF ClaimJob
    <3>3. CASE Claimable(t, v)
      <4>1. job'[t] = Claimed(job[t], w, v) /\ held' = [held EXCEPT ![w][t] = v]
        BY <1>1, <1>9, <2>3, <3>3 DEF ClaimJob
      <4>2. /\ job'[t].status = "running" /\ job'[t].owner = w /\ job'[t].input = v
            /\ job'[t].success = job[t].success
            /\ job'[t].retries = IF v > job[t].input THEN Retries ELSE job[t].retries
        BY <1>1, <4>1 DEF Claimed, Job
      <4>3. held'[w][t] = v
        BY <1>1, <4>1
      <4>4. job[t].success < v /\ (v <= job[t].input => job[t].retries > 0)
        BY <3>3 DEF Claimable, NeedsUpdate
      <4> HIDE DEF v
      <4>5. job'[t].retries > 0
        BY <1>2, <1>3, <3>1, <4>2, <4>4
      <4> QED
        BY <1>1, <2>1, <4>2, <4>3, <4>4, <4>5 DEF JobSound, Owns
    <3> QED
      BY <3>2, <3>3
  <2> QED
    BY <2>2, <2>3
<1>10. ASSUME NEW w \in Workers, ClaimFails(w) \/ Crash(w) PROVE JobSound(t)'
  <2>1. /\ job'[t] = IF job[t].owner = w THEN [job[t] EXCEPT !.owner = Nobody] ELSE job[t]
        /\ held' = [held EXCEPT ![w] = Nothing] /\ extracted' = extracted
    BY <1>10 DEF ClaimFails, Crash, History
  <2>2. /\ job'[t].status = job[t].status /\ job'[t].retries = job[t].retries
        /\ job'[t].input = job[t].input /\ job'[t].success = job[t].success
        /\ job'[t].owner = IF job[t].owner = w THEN Nobody ELSE job[t].owner
    BY <1>1, <2>1 DEF Job
  <2>3. \A x \in Workers \ {w} : held'[x] = held[x]
    BY <1>1, <2>1
  <2> QED
    BY <1>1, <1>2, <2>1, <2>2, <2>3 DEF JobSound, Owns
<1>11. ASSUME NEW w \in Workers, NEW u \in Threads,
              Extract(w, u) \/ ExtractNothing(w, u) \/ ExtractFails(w, u)
       PROVE  JobSound(t)'
  <2>1. held' = [held EXCEPT ![w][u] = 0]
    BY <1>11 DEF Extract, ExtractNothing, ExtractFails, Release
  <2>2. CASE u # t
    <3>1. \A x \in Workers : held'[x][t] = held[x][t]
      BY <1>1, <2>1, <2>2
    <3>2. job'[t] = job[t] /\ extracted'[t] = extracted[t]
      BY <1>1, <1>11, <2>2 DEF Extract, ExtractNothing, ExtractFails, History
    <3> QED
      BY <1>1, <3>1, <3>2, JobSame
  <2>3. CASE u = t /\ ~Owns(w, t)
    <3>1. job' = job /\ extracted' = extracted
      BY <1>11, <2>3 DEF Extract, ExtractNothing, ExtractFails, History
    <3>2. \A x \in Workers \ {w} : held'[x][t] = held[x][t]
      BY <1>1, <2>1
    <3> QED
      BY <1>1, <2>3, <3>1, <3>2 DEF JobSound, Owns
  <2>4. CASE u = t /\ Owns(w, t)
    <3>1. /\ held[w][t] = job[t].input /\ job[t].success < job[t].input
      BY <1>1, <2>4 DEF JobSound
    <3>2. CASE ExtractFails(w, t)
      <4>1. job'[t] = Failed(job[t]) /\ extracted' = extracted
        BY <1>1, <2>4, <3>2 DEF ExtractFails, History
      <4>2. job'[t].status = "error" /\ job'[t].success = job[t].success
        BY <1>1, <4>1 DEF Failed, Job
      <4> QED
        BY <1>1, <4>1, <4>2 DEF JobSound, Owns
    <3>3. CASE ~ExtractFails(w, t)
      <4>1. job'[t] = Done(job[t]) /\ extracted' = [extracted EXCEPT ![t][held[w][t]] = @ + 1]
        BY <1>1, <1>11, <2>4, <3>3 DEF Extract, ExtractNothing
      <4>2. job'[t].status = "done" /\ job'[t].success = job[t].input
        BY <1>1, <4>1 DEF Done, Job
      <4>3. \A v \in Versions : extracted'[t][v] = IF v = job[t].input THEN extracted[t][v] + 1
                                                                     ELSE extracted[t][v]
        BY <1>1, <1>3, <3>1, <4>1
      <4>4. \A v \in Versions : extracted[t][v] \in Nat /\ v \in Nat
        BY <1>1, <1>3
      <4>5. \A v \in Versions : /\ extracted'[t][v] <= 1
                                /\ extracted'[t][v] = 1 => v <= job[t].input
        <5> TAKE v \in Versions
        <5>1. extracted[t][v] <= 1 /\ (extracted[t][v] = 1 => v <= job[t].success)
          BY <1>1 DEF JobSound
        <5>2. v \in Nat /\ extracted[t][v] \in Nat
          BY <4>4
        <5> QED
          BY <1>3, <3>1, <4>3, <5>1, <5>2
      <4> QED
        BY <4>2, <4>5 DEF JobSound, Owns
    <3> QED
      BY <3>2, <3>3
  <2> QED
    BY <2>2, <2>3, <2>4
<1>12. ASSUME NEW w \in Workers,
              \/ Start(w) \/ ClaimGlobal(w) \/ Sync(w) \/ Succeed(w) \/ Confirm(w) \/ ResetBaseline(w)
              \/ Heartbeat(w) \/ Phase2Fails(w)
       PROVE  JobSound(t)'
  <2>1. UNCHANGED <<job, held, extracted>>
    BY <1>12 DEF Start, ClaimGlobal, Sync, Succeed, Confirm, ResetBaseline, Heartbeat, Phase2Fails,
                 Leave, Database, Locals, History
  <2> QED
    BY <1>4, <2>1
<1>13. CASE UNCHANGED vars \/ ClearFiles
  BY <1>4, <1>13 DEF vars, ClearFiles, Database, Locals, History
<1> QED
  BY <1>5, <1>7, <1>8, <1>9, <1>10, <1>11, <1>12, <1>13 DEF Next, Work

(* A worker in phase 2 keeps the global job until it leaves: nobody else    *)
(* may claim, fail or finish it, its lease is renewed in time, and a memory *)
(* reset makes every worker it takes the job from a stray one.              *)
LEMMA NextGlobal ==
    ASSUME MemoryInv, [Next]_vars, NEW w \in Workers
    PROVE  GlobalSound(w)'
<1>1. /\ \A x \in Workers : GlobalSound(x)
      /\ global \in GlobalJob /\ pc \in [Workers -> PCs] /\ stray \subseteq Workers
  BY DEF MemoryInv, TypeOK
<1>2. /\ Nobody \notin Workers /\ GlobalLease \in Nat /\ GlobalLease > 1
      /\ global.lease \in Nat
  BY <1>1, MemoryAssumption DEF GlobalJob
<1>3. CASE UNCHANGED <<global, pc, stray>>
  BY <1>1, <1>3 DEF GlobalSound, OwnsGlobal, Running
<1>4. CASE Tick
  <2>1. /\ global'.status = global.status /\ global'.owner = global.owner
        /\ global'.lease = Down(global.lease) /\ pc' = pc /\ stray' = stray
    BY <1>1, <1>4 DEF Tick, GlobalJob, Locals, History
  <2>2. OwnsGlobal(w) /\ Running(global) => Down(global.lease) > 0
    <3>1. OwnsGlobal(w) /\ Running(global) => global.lease # 1 /\ global.lease > 0
      BY <1>4 DEF Tick, OwnsGlobal, Running
    <3>2. global.lease # 1 /\ global.lease > 0 => Down(global.lease) > 0
      BY <1>2 DEF Down
    <3> QED
      BY <3>1, <3>2
  <2> QED
    BY <1>1, <2>1, <2>2 DEF GlobalSound, OwnsGlobal, Running
<1>5. CASE ClearMemoryData
  BY <1>1, <1>5 DEF ClearMemoryData, Locals, GlobalSound
<1>6. ASSUME global' = global \/ global' = Enqueued, UNCHANGED <<pc, stray>>
      PROVE  GlobalSound(w)'
  <2>1. OwnsGlobal(w) /\ Running(global) => OwnsGlobal(w)' /\ Running(global)'
    BY <1>6 DEF OwnsGlobal, Running, Enqueued
  <2> QED
    BY <1>1, <1>6, <2>1 DEF GlobalSound
<1>7. ASSUME NEW t \in Threads, ThreadStep(t) PROVE GlobalSound(w)'
  <2>1. (global' = global \/ global' = Enqueued) /\ UNCHANGED <<pc, stray>>
    BY <1>7 DEF ThreadStep, Touch, Pollute, EnqueueForgetting, DeleteMemory, DeleteThread, GoStale,
                Database, Locals, History
  <2> QED
    BY <1>6, <2>1
<1>8. ASSUME NEW x \in Workers, NEW t \in Threads,
             Extract(x, t) \/ ExtractNothing(x, t) \/ ExtractFails(x, t) \/ ClaimJob(x, t)
      PROVE  GlobalSound(w)'
  <2>1. (global' = global \/ global' = Enqueued) /\ UNCHANGED <<pc, stray>>
    BY <1>8 DEF Extract, ExtractNothing, ExtractFails, ClaimJob, History
  <2> QED
    BY <1>6, <2>1
<1>9. ASSUME NEW x \in Workers, pc[x] \notin Consolidating, pc'[x] \notin Consolidating,
             \A y \in Workers \ {x} : pc'[y] = pc[y], stray' = stray \ {x} \/ stray' = stray,
             global' = global
      PROVE  GlobalSound(w)'
  <2>1. x \notin stray
    BY <1>1, <1>9 DEF GlobalSound
  <2> QED
    BY <1>1, <1>9, <2>1 DEF GlobalSound, OwnsGlobal, Running
<1>10. ASSUME NEW x \in Workers, Start(x) PROVE GlobalSound(w)'
  <2>1. /\ pc[x] \notin Consolidating /\ pc'[x] \notin Consolidating
        /\ \A y \in Workers \ {x} : pc'[y] = pc[y]
    BY <1>1, <1>10 DEF Start, GoTo, Consolidating
  <2>2. stray' = stray /\ global' = global
    BY <1>10 DEF Start, History
  <2> QED
    BY <1>9, <2>1, <2>2
<1>11. ASSUME NEW x \in Workers, ClaimFails(x) PROVE GlobalSound(w)'
  BY <1>3, <1>11 DEF ClaimFails, History
<1>12. ASSUME NEW x \in Workers, Leave(x), ~OwnsGlobal(x) => global' = global
       PROVE  GlobalSound(w)'
  <2>1. pc'[x] = "off" /\ \A y \in Workers \ {x} : pc'[y] = pc[y]
    BY <1>1, <1>12 DEF Leave, GoTo
  <2>2. stray' = stray \ {x}
    BY <1>12 DEF Leave
  <2>3. CASE w = x
    BY <2>1, <2>2, <2>3 DEF GlobalSound, Consolidating
  <2>4. CASE w # x
    <3>1. OwnsGlobal(w) => global' = global
      BY <1>12, <2>4 DEF OwnsGlobal
    <3> QED
      BY <1>1, <2>1, <2>2, <2>4, <3>1 DEF GlobalSound, OwnsGlobal, Running
  <2> QED
    BY <2>3, <2>4
<1>13. ASSUME NEW x \in Workers, ClaimGlobal(x) PROVE GlobalSound(w)'
  <2>1. CASE UNCHANGED global /\ Leave(x)
    BY <1>12, <2>1
  <2>2. CASE ~(UNCHANGED global /\ Leave(x))
    <3>1. /\ ~Running(global) /\ GoTo(x, "claimed") /\ stray' = stray
          /\ global' = [status |-> "running", owner |-> x, lease |-> GlobalLease, retry |-> 0, rest |-> 0]
      BY <1>13, <2>2, Zenon DEF ClaimGlobal
    <3>2. pc[x] = "phase1" /\ pc'[x] = "claimed" /\ \A y \in Workers \ {x} : pc'[y] = pc[y]
      BY <1>1, <1>13, <3>1 DEF ClaimGlobal, Phase1Over, GoTo
    <3>3. x \notin stray
      BY <1>1, <3>2 DEF GlobalSound, Consolidating
    <3>4. CASE w = x
      BY <1>2, <3>1, <3>2, <3>3, <3>4 DEF GlobalSound, OwnsGlobal, Running
    <3>5. CASE w # x
      BY <1>1, <3>1, <3>2, <3>5 DEF GlobalSound
    <3> QED
      BY <3>4, <3>5
  <2> QED
    BY <2>1, <2>2
<1>14. ASSUME NEW x \in Workers, pc[x] \in Consolidating, pc'[x] \in Consolidating,
              \A y \in Workers \ {x} : pc'[y] = pc[y], stray' = stray,
              global' = global \/ global' = [global EXCEPT !.lease = GlobalLease]
       PROVE  GlobalSound(w)'
  <2>1. global'.status = global.status /\ global'.owner = global.owner
    BY <1>1, <1>14 DEF GlobalJob
  <2>2. global.lease > 0 => global'.lease > 0
    BY <1>1, <1>2, <1>14 DEF GlobalJob
  <2> QED
    BY <1>1, <1>14, <2>1, <2>2 DEF GlobalSound, OwnsGlobal, Running
<1>15. ASSUME NEW x \in Workers, Sync(x) PROVE GlobalSound(w)'
  <2>1. stray' = stray /\ global' = global /\ pc[x] = "claimed"
    BY <1>15 DEF Sync, Database, History
  <2>2. pc' = [pc EXCEPT ![x] = "agent"] \/ pc' = [pc EXCEPT ![x] = "unchanged"]
    BY <1>15 DEF Sync, GoTo
  <2>3. pc'[x] \in Consolidating /\ \A y \in Workers \ {x} : pc'[y] = pc[y]
    BY <1>1, <2>2 DEF Consolidating
  <2> QED
    BY <1>14, <2>1, <2>3 DEF Consolidating
<1>16. ASSUME NEW x \in Workers, Succeed(x) PROVE GlobalSound(w)'
  BY <1>12, <1>16 DEF Succeed
<1>17. ASSUME NEW x \in Workers, Heartbeat(x) PROVE GlobalSound(w)'
  BY <1>14, <1>17 DEF Heartbeat, Locals, History, Consolidating
<1>18. ASSUME NEW x \in Workers, Confirm(x) PROVE GlobalSound(w)'
  <2>1. CASE UNCHANGED global /\ Leave(x)
    BY <1>12, <2>1
  <2>2. CASE ~(UNCHANGED global /\ Leave(x))
    <3>1. /\ global' = [global EXCEPT !.lease = GlobalLease] /\ GoTo(x, "confirmed")
          /\ stray' = stray /\ pc[x] = "agent"
      BY <1>18, <2>2, Zenon DEF Confirm
    <3>2. pc'[x] = "confirmed" /\ \A y \in Workers \ {x} : pc'[y] = pc[y]
      BY <1>1, <3>1 DEF GoTo
    <3> QED
      BY <1>14, <3>1, <3>2 DEF Consolidating
  <2> QED
    BY <2>1, <2>2
<1>19. ASSUME NEW x \in Workers, ResetBaseline(x) PROVE GlobalSound(w)'
  <2>1. stray' = stray /\ global' = global /\ pc[x] = "confirmed"
    BY <1>19 DEF ResetBaseline, Database, History
  <2>2. pc'[x] = "reset" /\ \A y \in Workers \ {x} : pc'[y] = pc[y]
    BY <1>1, <1>19 DEF ResetBaseline, GoTo
  <2> QED
    BY <1>14, <2>1, <2>2 DEF Consolidating
<1>20. ASSUME NEW x \in Workers, Phase2Fails(x) PROVE GlobalSound(w)'
  BY <1>12, <1>20 DEF Phase2Fails
<1>21. ASSUME NEW x \in Workers, Crash(x) PROVE GlobalSound(w)'
  <2>1. pc'[x] = "off" /\ \A y \in Workers \ {x} : pc'[y] = pc[y]
    BY <1>1, <1>21 DEF Crash, GoTo
  <2>2. stray' = stray \ {x}
    BY <1>21 DEF Crash
  <2>3. CASE w = x
    BY <2>1, <2>2, <2>3 DEF GlobalSound, Consolidating
  <2>4. CASE w # x
    <3>1. OwnsGlobal(w) => global' = global
      BY <1>21, <2>4 DEF Crash, OwnsGlobal
    <3> QED
      BY <1>1, <2>1, <2>2, <2>4, <3>1 DEF GlobalSound, OwnsGlobal, Running
  <2> QED
    BY <2>3, <2>4
<1>22. CASE UNCHANGED vars \/ ClearFiles
  BY <1>3, <1>22 DEF vars, ClearFiles, Database, Locals, History
<1> QED
  BY <1>4, <1>5, <1>7, <1>8, <1>10, <1>11, <1>13, <1>15, <1>16, <1>17, <1>18, <1>19, <1>20, <1>21,
     <1>22 DEF Next, Work

(* The invariant, of every behaviour.                                       *)
LEMMA MemoryInvAlways == Spec => []MemoryInv
<1>1. MemoryInv /\ [Next]_vars => MemoryInv'
  BY NextTypes, NextJobs, NextGlobal DEF MemoryInv
<1> QED
  BY <1>1, InitMemory, PTL DEF Spec

(* The rows, the workspace and the locals of the workers keep their types   *)
(* (jobs and stage1_outputs in memories.rs): no lease, retry counter or     *)
(* backoff leaves its range, so a failing job never has fewer than no       *)
(* attempts left.                                                           *)
THEOREM MemoryTypes == Spec => []TypeOK
<1>1. MemoryInv => TypeOK
  BY DEF MemoryInv
<1> QED
  BY <1>1, MemoryInvAlways, PTL

(* However many sessions run the pipeline, and however their leases run     *)
(* out, no version of a thread is extracted twice (try_claim_stage1_job,    *)
(* mark_stage1_job_succeeded).                                              *)
THEOREM ExtractsOnce == Spec => []ExtractedOnce
<1>1. MemoryInv => ExtractedOnce
  BY DEF MemoryInv, JobSound, ExtractedOnce
<1> QED
  BY <1>1, MemoryInvAlways, PTL

(* Any number of sessions: no two of them consolidate at the same time,     *)
(* unless a memory reset came between (try_claim_global_phase2_job,         *)
(* heartbeat_global_phase2_job).                                            *)
THEOREM SingleWriter == Spec => []OneWriter
<1>1. MemoryInv => OneWriter
  BY DEF MemoryInv, GlobalSound, OwnsGlobal, OneWriter
<1> QED
  BY <1>1, MemoryInvAlways, PTL
=============================================================================
