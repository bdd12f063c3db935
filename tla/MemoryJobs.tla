----------------------------- MODULE MemoryJobs -----------------------------
(***************************************************************************)
(* The memory pipeline of codex-rs (state/src/runtime/memories.rs and      *)
(* memories/write/src/phase1.rs, phase2.rs, start.rs).  Every root session *)
(* starts a worker: phase 1 claims threads that need a memory and extracts *)
(* one from each; phase 2 claims the one global job, copies the selected   *)
(* memories into a git workspace and lets an agent consolidate them.       *)
(*                                                                         *)
(* The workers meet in a database whose statements and transactions are    *)
(* serialised, and in the workspace, which only the lease of the global    *)
(* job protects.  Times are counted down.  An ownership token is fresh for *)
(* every claim and known to its claimer only, so it is the claimer here,   *)
(* and Nobody once the claimer has forgotten it.  The watermarks of the    *)
(* global job, and its retry count, are read by no condition and left out. *)
(***************************************************************************)
EXTENDS Integers, FiniteSets

CONSTANTS
    Threads,      \* threads whose conversations become memories
    Workers,      \* sessions that run the pipeline, in any processes
    Nobody,       \* a token its claimer has forgotten
    MaxVersion,   \* bound: updates of a thread (updated_at)
    MaxClaimed,   \* max_rollouts_per_startup
    Retries,      \* DEFAULT_RETRY_REMAINING
    ExtractLease, \* stage_one::JOB_LEASE_SECONDS, in ticks
    GlobalLease,  \* stage_two::JOB_LEASE_SECONDS
    RetryDelay,   \* JOB_RETRY_DELAY_SECONDS
    Cooldown,     \* PHASE2_SUCCESS_COOLDOWN_SECONDS
    MaxFaults     \* bound: crashes, failures and resets

ASSUME MemoryAssumption ==
    /\ IsFiniteSet(Threads) /\ IsFiniteSet(Workers)
    /\ Nobody \notin Workers
    /\ MaxVersion \in Nat \ {0} /\ MaxClaimed \in Nat \ {0} /\ Retries \in Nat \ {0}
    /\ ExtractLease \in Nat \ {0} /\ GlobalLease \in Nat /\ GlobalLease >= 2
    /\ RetryDelay \in Nat /\ Cooldown \in Nat /\ MaxFaults \in Nat

VARIABLES
    version,   \* threads.updated_at, 0 before the first turn
    idle,      \* enabled threads untouched for min_rollout_idle_hours
    mode,      \* threads.memory_mode; "deleted": no row
    output,    \* stage1_outputs.source_updated_at, 0: no row
    selected,  \* stage1_outputs.selected_for_phase2
    stale,     \* outputs unused for max_unused_days
    job,       \* the stage-1 row of each thread in table jobs
    global,    \* the row of the global job
    inputs,    \* the raw memories in the workspace
    baseline,  \* the raw memories at the last reset of the git baseline
    messy,     \* an agent has edited the workspace since
    pc,        \* where each worker is
    scan,      \* the threads it has yet to claim, with their updated_at
    held,      \* the jobs it has claimed, with their updated_at
    picked,    \* the memories it consolidates
    forget,    \* threads polluted, and not yet enqueued for forgetting
    wiping,    \* a memory reset between the database and the files
    faults,    \* crashes, failures and resets so far
    extracted, \* history: successes recorded per thread and version
    stray      \* history: workers whose global job was reset under them

Database == <<output, selected, stale, job, global>>
Workspace == <<inputs, baseline, messy>>
ThreadRows == <<version, idle, mode>>
Locals == <<pc, scan, held, picked>>
Rest == <<forget, wiping>>
History == <<extracted, stray>>
vars == <<ThreadRows, Database, Workspace, Locals, Rest, faults, History>>

Versions == 0 .. MaxVersion
Nothing == [t \in Threads |-> 0]
Modes == {"enabled", "polluted", "leaving", "deleted"}
Tokens == Workers \cup {Nobody}

Job == [status : {"absent", "running", "done", "error"}, owner : Tokens, lease : 0 .. ExtractLease,
        retry : 0 .. RetryDelay, retries : 0 .. Retries, input : Versions, success : Versions]
GlobalJob == [status : {"absent", "pending", "running", "done", "error"}, owner : Tokens,
              lease : 0 .. GlobalLease, retry : 0 .. RetryDelay, rest : 0 .. Cooldown]

NoJob == [status |-> "absent", owner |-> Nobody, lease |-> 0, retry |-> 0,
          retries |-> 0, input |-> 0, success |-> 0]
NoGlobal == [status |-> "absent", owner |-> Nobody, lease |-> 0, retry |-> 0, rest |-> 0]

(* "claimed" to "reset": the steps of phase 2 that need the global job.     *)
PCs == {"off", "phase1", "claimed", "unchanged", "agent", "confirmed", "reset"}
Consolidating == {"claimed", "unchanged", "agent", "confirmed", "reset"}

Init ==
    /\ version = Nothing /\ idle = {} /\ mode = [t \in Threads |-> "enabled"]
    /\ output = Nothing /\ selected = {} /\ stale = {}
    /\ job = [t \in Threads |-> NoJob] /\ global = NoGlobal
    /\ inputs = Nothing /\ baseline = Nothing /\ messy = FALSE
    /\ pc = [w \in Workers |-> "off"]
    /\ scan = [w \in Workers |-> Nothing]
    /\ held = [w \in Workers |-> Nothing]
    /\ picked = [w \in Workers |-> Nothing]
    /\ forget = {} /\ wiping = FALSE /\ faults = 0
    /\ extracted = [t \in Threads |-> [v \in Versions |-> 0]] /\ stray = {}

Fault == faults < MaxFaults /\ faults' = faults + 1
GoTo(w, p) == pc' = [pc EXCEPT ![w] = p]

-----------------------------------------------------------------------------
(* The threads.                                                             *)

(* A turn updates the thread.  Only an enabled one is ever looked at again. *)
Touch(t) ==
    /\ mode[t] = "enabled" /\ version[t] < MaxVersion
    /\ version' = [version EXCEPT ![t] = @ + 1]
    /\ idle' = idle \ {t}
    /\ UNCHANGED <<mode, Database, Workspace, Locals, Rest, faults, History>>

(* enqueue_global_consolidation_with_executor.                              *)
Enqueued ==
    IF global.status = "running" THEN global
    ELSE [global EXCEPT !.status = "pending", !.retry = 0]

(* mark_thread_memory_mode_polluted: the flag and the mode ...              *)
Pollute(t) ==
    /\ mode[t] = "enabled"
    /\ mode' = [mode EXCEPT ![t] = "polluted"]
    /\ idle' = idle \ {t}
    /\ forget' = IF t \in selected THEN forget \cup {t} ELSE forget
    /\ UNCHANGED <<version, Database, Workspace, Locals, wiping, faults, History>>

(* ... and the enqueue, in another database.                                *)
EnqueueForgetting(t) ==
    /\ t \in forget
    /\ forget' = forget \ {t}
    /\ global' = Enqueued
    /\ UNCHANGED <<ThreadRows, output, selected, stale, job, Workspace, Locals, wiping, faults,
                   History>>

(* delete_threads_strict: delete_thread_memory first ...                    *)
DeleteMemory(t) ==
    /\ mode[t] \in {"enabled", "polluted"}
    /\ mode' = [mode EXCEPT ![t] = IF @ = "enabled" THEN "leaving" ELSE "deleted"]
    /\ output' = [output EXCEPT ![t] = 0]
    /\ selected' = selected \ {t}
    /\ stale' = stale \ {t}
    /\ job' = [job EXCEPT ![t] = NoJob]
    /\ global' = IF t \in selected THEN Enqueued ELSE global
    /\ extracted' = [extracted EXCEPT ![t] = [v \in Versions |-> 0]]
    /\ UNCHANGED <<version, idle, Workspace, Locals, Rest, faults, stray>>

(* ... and the row of the thread last, which matters if it is still listed. *)
DeleteThread(t) ==
    /\ mode[t] = "leaving"
    /\ mode' = [mode EXCEPT ![t] = "deleted"]
    /\ idle' = idle \ {t}
    /\ UNCHANGED <<version, Database, Workspace, Locals, Rest, faults, History>>

(* A memory has not been used for max_unused_days.                          *)
GoStale(t) ==
    /\ mode[t] = "enabled" /\ output[t] # 0 /\ t \notin stale
    /\ stale' = stale \cup {t}
    /\ UNCHANGED <<ThreadRows, output, selected, job, global, Workspace, Locals, Rest, faults,
                   History>>

(* memory/reset: clear_memory_data, then clear_memory_roots_contents.       *)
ClearMemoryData ==
    /\ Fault /\ ~wiping
    /\ wiping' = TRUE
    /\ output' = Nothing /\ selected' = {} /\ stale' = {}
    /\ job' = [t \in Threads |-> NoJob] /\ global' = NoGlobal
    /\ extracted' = [t \in Threads |-> [v \in Versions |-> 0]]
    /\ stray' = {w \in Workers : pc[w] \in Consolidating}
    /\ UNCHANGED <<ThreadRows, Workspace, Locals, forget>>

ClearFiles ==
    /\ wiping
    /\ wiping' = FALSE
    /\ inputs' = Nothing /\ baseline' = Nothing /\ messy' = FALSE
    /\ UNCHANGED <<ThreadRows, Database, Locals, forget, faults, History>>

-----------------------------------------------------------------------------
(* Phase 1.                                                                 *)

Listed(t) == mode[t] \in {"enabled", "leaving"} /\ t \in idle

(* start_memories_startup_task: prune, give up if the account is near its   *)
(* rate limit, and read the candidates of claim_stage1_jobs_for_startup.    *)
Start(w) ==
    /\ pc[w] = "off"
    /\ LET pruned == stale \ selected IN
          /\ output' = [t \in Threads |-> IF t \in pruned THEN 0 ELSE output[t]]
          /\ stale' = stale \ pruned
    /\ \/ /\ GoTo(w, "phase1")
          /\ scan' = [scan EXCEPT ![w] = [t \in Threads |-> IF Listed(t) THEN version[t] ELSE 0]]
          /\ UNCHANGED faults
       \/ Fault /\ UNCHANGED <<pc, scan>>
    /\ UNCHANGED <<ThreadRows, selected, job, global, Workspace, held, picked, Rest, History>>

Running(j) == j.status = "running" /\ j.lease > 0

(* Mutant: the last success of the job is not looked at.                    *)
IgnoreSuccess(t, v) == output[t] < v

(* stage1_source_needs_update, and the same check in try_claim_stage1_job.  *)
NeedsUpdate(t, v) == output[t] < v /\ job[t].success < v

(* Mutant: a newer version does not give a failed job another chance.       *)
ClaimableOnce(t, v) ==
    /\ NeedsUpdate(t, v)
    /\ Cardinality({u \in Threads \ {t} : Running(job[u])}) < MaxClaimed
    /\ ~Running(job[t])
    /\ job[t].status # "absent" => job[t].retry = 0 /\ job[t].retries > 0

(* The conditions of the upsert in try_claim_stage1_job.                    *)
Claimable(t, v) ==
    /\ NeedsUpdate(t, v)
    /\ Cardinality({u \in Threads \ {t} : Running(job[u])}) < MaxClaimed
    /\ ~Running(job[t])
    /\ v <= job[t].input => job[t].retry = 0 /\ job[t].retries > 0

HeldBy(w) == {t \in Threads : held[w][t] # 0}
ToClaim(w) == IF Cardinality(HeldBy(w)) < MaxClaimed THEN {t \in Threads : scan[w][t] # 0} ELSE {}

(* The row after the upsert: a newer version has all its attempts again.    *)
Claimed(j, w, v) ==
    [j EXCEPT !.status = "running", !.owner = w, !.lease = ExtractLease, !.retry = 0,
              !.retries = IF v > j.input THEN Retries ELSE j.retries, !.input = v]

(* try_claim_stage1_job for one candidate.                                  *)
ClaimJob(w, t) ==
    /\ pc[w] = "phase1" /\ t \in ToClaim(w)
    /\ LET v == scan[w][t] IN
       \/ /\ Claimable(t, v)
          /\ job' = [job EXCEPT ![t] = Claimed(@, w, v)]
          /\ held' = [held EXCEPT ![w][t] = v]
       \/ ~Claimable(t, v) /\ UNCHANGED <<job, held>>
    /\ scan' = [scan EXCEPT ![w][t] = 0]
    /\ UNCHANGED <<ThreadRows, output, selected, stale, global, Workspace, pc, picked, Rest, faults,
                   History>>

(* A claim fails with a database error: the claims made so far are dropped. *)
ClaimFails(w) ==
    /\ Fault
    /\ pc[w] = "phase1" /\ ToClaim(w) # {}
    /\ job' = [t \in Threads |-> IF job[t].owner = w THEN [job[t] EXCEPT !.owner = Nobody] ELSE job[t]]
    /\ scan' = [scan EXCEPT ![w] = Nothing]
    /\ held' = [held EXCEPT ![w] = Nothing]
    /\ UNCHANGED <<ThreadRows, output, selected, stale, global, Workspace, pc, picked, Rest, History>>

(* WHERE status = 'running' AND ownership_token = ?                         *)
Owns(w, t) == job[t].status = "running" /\ job[t].owner = w

(* A job the worker claimed, once run_jobs has begun.                       *)
Extracting(w, t) == pc[w] = "phase1" /\ ToClaim(w) = {} /\ t \in HeldBy(w)
Release(w, t) == held' = [held EXCEPT ![w][t] = 0]

Done(j) == [j EXCEPT !.status = "done", !.owner = Nobody, !.lease = 0, !.success = j.input]

(* One attempt less, and a pause before the next.                           *)
Failed(j) == [j EXCEPT !.status = "error", !.owner = Nobody, !.lease = 0, !.retry = RetryDelay,
                       !.retries = j.retries - 1]

(* mark_stage1_job_succeeded.  A row that has been used before keeps its    *)
(* last_usage, so it may stay stale.                                        *)
Extract(w, t) ==
    /\ Extracting(w, t) /\ Release(w, t)
    /\ \/ /\ Owns(w, t)
          /\ job' = [job EXCEPT ![t] = Done(@)]
          /\ output' = [output EXCEPT ![t] = IF held[w][t] > @ THEN held[w][t] ELSE @]
          /\ stale' \in {stale, stale \ {t}}
          /\ global' = Enqueued
          /\ extracted' = [extracted EXCEPT ![t][held[w][t]] = @ + 1]
       \/ ~Owns(w, t) /\ UNCHANGED <<job, output, stale, global, extracted>>
    /\ UNCHANGED <<ThreadRows, selected, Workspace, pc, scan, picked, Rest, faults, stray>>

(* mark_stage1_job_succeeded_no_output.                                     *)
ExtractNothing(w, t) ==
    /\ Extracting(w, t) /\ Release(w, t)
    /\ \/ /\ Owns(w, t)
          /\ job' = [job EXCEPT ![t] = Done(@)]
          /\ output' = [output EXCEPT ![t] = 0]
          /\ selected' = selected \ {t}
          /\ stale' = stale \ {t}
          /\ global' = IF output[t] # 0 THEN Enqueued ELSE global
          /\ extracted' = [extracted EXCEPT ![t][held[w][t]] = @ + 1]
       \/ ~Owns(w, t) /\ UNCHANGED <<job, output, selected, stale, global, extracted>>
    /\ UNCHANGED <<ThreadRows, Workspace, pc, scan, picked, Rest, faults, stray>>

(* mark_stage1_job_failed.                                                  *)
ExtractFails(w, t) ==
    /\ Fault
    /\ Extracting(w, t) /\ Release(w, t)
    /\ job' = IF Owns(w, t) THEN [job EXCEPT ![t] = Failed(@)] ELSE job
    /\ UNCHANGED <<ThreadRows, output, selected, stale, global, Workspace, pc, scan, picked, Rest,
                   History>>

-----------------------------------------------------------------------------
(* Phase 2.                                                                 *)

Leave(w) ==
    /\ GoTo(w, "off")
    /\ picked' = [picked EXCEPT ![w] = Nothing]
    /\ stray' = stray \ {w}
    /\ scan' = [scan EXCEPT ![w] = Nothing]
    /\ UNCHANGED held

(* Phase 1 is over when every job has ended.                                *)
Phase1Over(w) == pc[w] = "phase1" /\ ToClaim(w) = {} /\ HeldBy(w) = {}

(* Mutant: a running job may be claimed whatever its lease.                 *)
StealGlobal(w) ==
    /\ Phase1Over(w)
    /\ \/ /\ global.retry = 0 /\ global.rest = 0
          /\ global' = [status |-> "running", owner |-> w, lease |-> GlobalLease, retry |-> 0,
                        rest |-> 0]
          /\ GoTo(w, "claimed")
          /\ scan' = [scan EXCEPT ![w] = Nothing]
          /\ UNCHANGED <<held, picked, stray>>
       \/ (global.retry > 0 \/ global.rest > 0) /\ UNCHANGED global /\ Leave(w)
    /\ UNCHANGED <<ThreadRows, output, selected, stale, job, Workspace, Rest, faults, extracted>>

(* try_claim_global_phase2_job.                                             *)
ClaimGlobal(w) ==
    /\ Phase1Over(w)
    /\ LET taken == global.retry > 0 \/ Running(global) \/ global.rest > 0 IN
       \/ /\ ~taken
          /\ global' = [status |-> "running", owner |-> w, lease |-> GlobalLease, retry |-> 0,
                        rest |-> 0]
          /\ GoTo(w, "claimed")
          /\ scan' = [scan EXCEPT ![w] = Nothing]
          /\ UNCHANGED <<held, picked, stray>>
       \/ taken /\ UNCHANGED global /\ Leave(w)
    /\ UNCHANGED <<ThreadRows, output, selected, stale, job, Workspace, Rest, faults, extracted>>

OwnsGlobal(w) == global.status = "running" /\ global.owner = w

(* Mutant: threads that are no longer enabled are not filtered out.         *)
EligibleAnyMode(t) == output[t] # 0 /\ t \notin stale /\ mode[t] # "deleted"

(* enabled_thread_metadata: the thread is there and its memory enabled.     *)
Eligible(t) == output[t] # 0 /\ t \notin stale /\ mode[t] \in {"enabled", "leaving"}

(* get_phase2_input_selection, with a limit above the number of threads,    *)
(* sync_phase2_workspace_inputs, and the diff: an agent is spawned if the   *)
(* workspace differs from its baseline, or an agent left it half done.      *)
Sync(w) ==
    /\ pc[w] = "claimed"
    /\ LET selection == [t \in Threads |-> IF Eligible(t) THEN output[t] ELSE 0] IN
          /\ picked' = [picked EXCEPT ![w] = selection]
          /\ inputs' = selection
          /\ \/ (messy \/ selection # baseline) /\ messy' = TRUE /\ GoTo(w, "agent")
             \/ ~messy /\ selection = baseline /\ UNCHANGED messy /\ GoTo(w, "unchanged")
    /\ UNCHANGED <<ThreadRows, Database, baseline, scan, held, Rest, faults, History>>

(* mark_global_phase2_job_succeeded: an output that was extracted again     *)
(* since the selection loses its flag.                                      *)
Succeed(w) ==
    /\ pc[w] \in {"unchanged", "reset"}
    /\ \/ /\ OwnsGlobal(w)
          /\ global' = [global EXCEPT !.status = "done", !.owner = Nobody, !.lease = 0,
                                      !.rest = Cooldown]
          /\ selected' = {t \in Threads : output[t] # 0 /\ output[t] = picked[w][t]}
       \/ ~OwnsGlobal(w) /\ UNCHANGED <<global, selected>>
    /\ Leave(w)
    /\ UNCHANGED <<ThreadRows, output, stale, job, Workspace, Rest, faults, extracted>>

(* loop_agent: a heartbeat every 90 s.                                      *)
Heartbeat(w) ==
    /\ pc[w] = "agent" /\ OwnsGlobal(w)
    /\ global' = [global EXCEPT !.lease = GlobalLease]
    /\ UNCHANGED <<ThreadRows, output, selected, stale, job, Workspace, Locals, Rest, faults,
                   History>>

(* The agent has completed: ownership is confirmed before the reset.        *)
Confirm(w) ==
    /\ pc[w] = "agent"
    /\ \/ /\ OwnsGlobal(w)
          /\ global' = [global EXCEPT !.lease = GlobalLease]
          /\ GoTo(w, "confirmed")
          /\ UNCHANGED <<scan, held, picked, stray>>
       \/ ~OwnsGlobal(w) /\ UNCHANGED global /\ Leave(w)
    /\ UNCHANGED <<ThreadRows, output, selected, stale, job, Workspace, Rest, faults, extracted>>

(* reset_memory_workspace_baseline.                                         *)
ResetBaseline(w) ==
    /\ pc[w] = "confirmed"
    /\ baseline' = inputs
    /\ messy' = FALSE
    /\ GoTo(w, "reset")
    /\ UNCHANGED <<ThreadRows, Database, inputs, scan, held, picked, Rest, faults, History>>

(* job::failed, at any step before the success is recorded.                 *)
Phase2Fails(w) ==
    /\ Fault
    /\ pc[w] \in Consolidating \ {"reset"}
    /\ global' = IF OwnsGlobal(w)
                 THEN [global EXCEPT !.status = "error", !.owner = Nobody, !.lease = 0,
                                     !.retry = RetryDelay]
                 ELSE global
    /\ Leave(w)
    /\ UNCHANGED <<ThreadRows, output, selected, stale, job, Workspace, Rest, extracted>>

(* The process dies; or the consolidation agent cannot be shut down, and    *)
(* the lease is left to expire.  Whatever it claimed stays claimed.         *)
Crash(w) ==
    /\ Fault
    /\ pc[w] # "off"
    /\ GoTo(w, "off")
    /\ job' = [t \in Threads |-> IF job[t].owner = w THEN [job[t] EXCEPT !.owner = Nobody] ELSE job[t]]
    /\ global' = IF global.owner = w THEN [global EXCEPT !.owner = Nobody] ELSE global
    /\ scan' = [scan EXCEPT ![w] = Nothing]
    /\ held' = [held EXCEPT ![w] = Nothing]
    /\ picked' = [picked EXCEPT ![w] = Nothing]
    /\ stray' = stray \ {w}
    /\ UNCHANGED <<ThreadRows, output, selected, stale, Workspace, Rest, extracted>>

-----------------------------------------------------------------------------
(* Mutant: a time that has come is counted on.                              *)
DownPast(n) == n - 1

Down(n) == IF n = 0 THEN 0 ELSE n - 1

(* Time passes, and idle threads become old enough.  The steps of phase 2   *)
(* take less than a lease, and its heartbeats are 40 times as frequent: the *)
(* lease of a live worker does not run out.                                 *)
Tick ==
    /\ ~(Running(global) /\ global.owner \in Workers /\ global.lease = 1)
    /\ job' = [t \in Threads |-> [job[t] EXCEPT !.lease = Down(@), !.retry = Down(@)]]
    /\ global' = [global EXCEPT !.lease = Down(@), !.retry = Down(@), !.rest = Down(@)]
    /\ idle' = {t \in Threads : version[t] # 0 /\ mode[t] \in {"enabled", "leaving"}}
    /\ UNCHANGED <<version, mode, output, selected, stale, Workspace, Locals, Rest, faults, History>>

ThreadStep(t) ==
    \/ Touch(t) \/ Pollute(t) \/ EnqueueForgetting(t) \/ DeleteMemory(t) \/ DeleteThread(t)
    \/ GoStale(t)

(* What a worker does without a fault.                                      *)
Work(w) ==
    \/ Start(w)
    \/ \E t \in Threads : ClaimJob(w, t) \/ Extract(w, t) \/ ExtractNothing(w, t)
    \/ ClaimGlobal(w) \/ Sync(w) \/ Succeed(w) \/ Confirm(w)
    \/ ResetBaseline(w)

Next ==
    \/ Tick \/ ClearMemoryData \/ ClearFiles
    \/ \E t \in Threads : ThreadStep(t)
    \/ \E w \in Workers :
          \/ Work(w) \/ Heartbeat(w) \/ ClaimFails(w) \/ Phase2Fails(w) \/ Crash(w)
          \/ \E t \in Threads : ExtractFails(w, t)

(* An extraction that ends while its lease is still the worker's.           *)
EndsInTime(w) == \E t \in Threads : Owns(w, t) /\ (Extract(w, t) \/ ExtractNothing(w, t))

(* Sessions keep being started and run their pipeline, a memory reset goes  *)
(* through, and time passes; nothing has to fail.  A lease is an hour and a *)
(* sampling request some minutes: not every extraction takes longer than    *)
(* its lease.                                                               *)
Fairness ==
    /\ WF_vars(Tick) /\ WF_vars(ClearFiles)
    /\ \A w \in Workers : WF_vars(Work(w)) /\ SF_vars(EndsInTime(w))

Spec == Init /\ [][Next]_vars /\ Fairness

-----------------------------------------------------------------------------
TypeOK ==
    /\ version \in [Threads -> Versions] /\ idle \subseteq Threads /\ mode \in [Threads -> Modes]
    /\ output \in [Threads -> Versions] /\ selected \subseteq Threads /\ stale \subseteq Threads
    /\ job \in [Threads -> Job] /\ global \in GlobalJob
    /\ inputs \in [Threads -> Versions] /\ baseline \in [Threads -> Versions] /\ messy \in BOOLEAN
    /\ pc \in [Workers -> PCs]
    /\ scan \in [Workers -> [Threads -> Versions]]
    /\ held \in [Workers -> [Threads -> Versions]]
    /\ picked \in [Workers -> [Threads -> Versions]]
    /\ forget \subseteq Threads /\ wiping \in BOOLEAN /\ faults \in 0 .. MaxFaults
    /\ extracted \in [Threads -> [Versions -> Nat]] /\ stray \subseteq Workers

(* One version of a thread is turned into a memory at most once, although   *)
(* a job may be claimed from a stale scan, its lease may run out while its  *)
(* worker still samples, and it may then be claimed again                   *)
(* (try_claim_stage1_job, mark_stage1_job_succeeded).                       *)
ExtractedOnce == \A t \in Threads, v \in Versions : extracted[t][v] <= 1

(* The memory workspace has one writer: no two workers are between their    *)
(* claim of the global job and the end of their run, except for one that a  *)
(* memory reset took the job from (try_claim_global_phase2_job, the         *)
(* heartbeats of loop_agent, and the lease that is kept when an agent       *)
(* cannot be shut down).                                                    *)
OneWriter ==
    \A u, v \in Workers \ stray : pc[u] \in Consolidating /\ pc[v] \in Consolidating => u = v

(* Why: a job that runs has a retry left, and its owner holds the version   *)
(* the row names, which is newer than the last success; successes recorded  *)
(* are not newer than that.                                                 *)
JobSound(t) ==
    /\ job[t].status = "running" => job[t].retries > 0
    /\ \A w \in Workers : Owns(w, t) => held[w][t] = job[t].input /\ job[t].success < job[t].input
    /\ \A v \in Versions : /\ extracted[t][v] <= 1
                           /\ extracted[t][v] = 1 => v <= job[t].success

(* Why: a worker in phase 2 has the global job, and its lease is not over,  *)
(* unless the job was reset under it.                                       *)
GlobalSound(w) ==
    /\ w \in stray => pc[w] \in Consolidating
    /\ pc[w] \in Consolidating /\ w \notin stray => OwnsGlobal(w) /\ Running(global)

(* The inductive invariant.                                                 *)
MemoryInv ==
    /\ TypeOK
    /\ \A t \in Threads : JobSound(t)
    /\ \A w \in Workers : GlobalSound(w)

(* Whatever fails on the way, the workspace comes to hold exactly the       *)
(* memories that are in use: a polluted or deleted thread is forgotten, and *)
(* every other memory is there in its latest version.  No lease, backoff or *)
(* cooldown blocks phase 2 for ever.                                        *)
InUse(t) == output[t] # 0 /\ t \notin stale /\ mode[t] \notin {"polluted", "deleted"}
WorkspaceSettles ==
    \A t \in Threads : <>[](baseline[t] = IF InUse(t) THEN output[t] ELSE 0)

(* Every enabled thread that has come to rest is extracted in its latest    *)
(* version, unless its attempts are used up (claim_stage1_jobs_for_startup).*)
ThreadsSettle ==
    \A t \in Threads :
        <>[](mode[t] = "enabled" /\ version[t] # 0 =>
                \/ output[t] = version[t] \/ job[t].success = version[t]
                \/ job[t].input = version[t] /\ job[t].retries = 0)
=============================================================================
