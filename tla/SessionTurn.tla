----------------------------- MODULE SessionTurn -----------------------------
(***************************************************************************)
(* The turns of one Codex session (codex-rs/core/src/tasks and session).   *)
(*                                                                         *)
(* A session has at most one active turn.  The submission loop handles the *)
(* client's operations one after the other; a task runs in a tokio task of *)
(* its own, finishes the turn itself and, when mail that asks for a turn   *)
(* is waiting, starts the next one; extensions and the guardian act on the *)
(* turn from tasks of their own.  The only things they share are the       *)
(* active turn, its turn state and the mailbox, each behind a lock that is *)
(* given up between the steps below.                                       *)
(*                                                                         *)
(* An operation is one entry of a script.  The entry's position identifies *)
(* the input it carries:                                                   *)
(*   loop   "user" a user prompt, "compact" a manual compaction,           *)
(*          "interrupt", "mail" mail of another agent, "trigger" mail that *)
(*          asks for a turn                                                *)
(*   ext    "idle" try_start_turn_if_idle, "inject" inject_no_new_turn,    *)
(*          "abort" abort_turn_if_active                                   *)
(* Hooks accept every input, no durable sleep is outstanding and the       *)
(* session is not in plan mode.                                            *)
(***************************************************************************)
EXTENDS Naturals, Sequences

CONSTANTS
    Scripts,     \* records with the operations of the loop and of ext
    MaxOps,      \* the longest script
    MaxTasks,    \* tasks that may be spawned
    MaxCalls,    \* tool calls of the model per task
    MaxFaults    \* failed model requests and compactions

ASSUME SessionAssumption ==
    /\ {MaxOps, MaxTasks, MaxCalls, MaxFaults} \subseteq Nat
    /\ \A s \in Scripts : Len(s.loop) \in 0 .. MaxOps /\ Len(s.ext) \in 0 .. MaxOps

Tasks == 1 .. MaxTasks
Loop == MaxTasks + 1
Ext == MaxTasks + 2
Callers == {Loop, Ext}
Workers == Callers \cup Tasks
Items == Callers \X (1 .. MaxOps)

VARIABLES
    script,      \* what the client, the other agents and the extensions do
    at,          \* the next operation of each caller
    active,      \* Session.active_turn: its turn state and its running task
    turns,       \* every TurnState allocated: pending input, mailbox phase
    mailbox,     \* InputQueue.mailbox_pending_mails
    w,           \* the workers: where they are and what they hold
    recorded,    \* input in the conversation history
    seen,        \* input that was in the history of a model request
    dropped,     \* input an abort discarded, or refused with an error
    ends,        \* TurnComplete and TurnAborted events of each task
    faults       \* failures so far

vars == <<script, at, active, turns, mailbox, w, recorded, seen, dropped, ends,
          faults>>

Script(c) == IF c = Loop THEN script.loop ELSE script.ext
Op(i) == Script(i[1])[i[2]]

NoActive == [turn |-> 0, task |-> 0]
NewTurn == [pending |-> {}, next |-> FALSE]
Resting == [pc |-> "idle", turn |-> 0, hand |-> {}, input |-> {},
            kind |-> "regular", why |-> "start", victim |-> 0,
            cancelled |-> FALSE, calls |-> 0, follow |-> FALSE]

Init ==
    /\ script \in Scripts
    /\ at = [c \in Callers |-> 1]
    /\ active = NoActive
    /\ turns = <<>>
    /\ mailbox = {}
    /\ w = [p \in Workers |-> [Resting EXCEPT !.pc = IF p \in Tasks
                                                     THEN "unused" ELSE "idle"]]
    /\ recorded = {} /\ seen = {} /\ dropped = {}
    /\ ends = [t \in Tasks |-> 0]
    /\ faults = 0

Go(p, pc) == w' = [w EXCEPT ![p].pc = pc]
\* A worker is through with what it was asked to do.
Rest(p) == IF p \in Tasks THEN "over" ELSE "idle"

NextOp(c, op) ==
    /\ w[c].pc = "idle"
    /\ at[c] <= Len(Script(c))
    /\ Op(<<c, at[c]>>) = op
    /\ at' = [at EXCEPT ![c] = @ + 1]
Item(c) == <<c, at[c]>>

Pending == IF active.turn = 0 THEN {} ELSE turns[active.turn].pending
Accepts == active.turn # 0 => ~turns[active.turn].next
HasPendingInput == Accepts /\ (Pending # {} \/ mailbox # {})
HasTrigger == \E i \in mailbox : Op(i) = "trigger"

(***************************************************************************)
(* The submission loop.                                                    *)
(***************************************************************************)

\* extend_pending_input_and_accept_mailbox_delivery_for_turn_state
Deliver(turn, item) ==
    turns' = [turns EXCEPT ![turn] = [pending |-> @.pending \cup {item},
                                      next |-> FALSE]]

\* A user prompt joins the running turn, is refused by a compaction, or
\* replaces whatever is active by a turn of its own.
UserInput ==
    /\ NextOp(Loop, "user")
    /\ LET task == active.task  item == Item(Loop) IN
       \/ /\ task # 0 /\ w[task].kind = "regular"
          /\ Deliver(active.turn, item)
          /\ UNCHANGED <<w, dropped>>
       \/ /\ task # 0 /\ w[task].kind = "compact"
          /\ dropped' = dropped \cup {item}
          /\ UNCHANGED <<turns, w>>
       \/ /\ task = 0
          /\ w' = [w EXCEPT ![Loop] = [Resting EXCEPT !.pc = "take",
                                                        !.input = {item}]]
          /\ UNCHANGED <<turns, dropped>>
    /\ UNCHANGED <<script, active, mailbox, recorded, seen, ends, faults>>

Compact ==
    /\ NextOp(Loop, "compact")
    /\ w' = [w EXCEPT ![Loop] = [Resting EXCEPT !.pc = "take",
                                                  !.kind = "compact"]]
    /\ UNCHANGED <<script, active, turns, mailbox, recorded, seen, dropped, ends,
                   faults>>

Interrupt ==
    /\ NextOp(Loop, "interrupt")
    /\ w' = [w EXCEPT ![Loop] = [Resting EXCEPT !.pc = "take", !.why = "stop"]]
    /\ UNCHANGED <<script, active, turns, mailbox, recorded, seen, dropped, ends,
                   faults>>

InterAgentCommunication ==
    /\ \E op \in {"mail", "trigger"} :
          /\ NextOp(Loop, op)
          /\ w' = [w EXCEPT ![Loop].pc = IF op = "trigger" THEN "wake" ELSE "idle"]
    /\ mailbox' = mailbox \cup {Item(Loop)}
    /\ UNCHANGED <<script, active, turns, recorded, seen, dropped, ends, faults>>

(***************************************************************************)
(* Starting a turn: spawn_task, maybe_start_turn_for_pending_work and      *)
(* start_task.  Every step is one critical section.                        *)
(***************************************************************************)

ReserveAnyway(p, pc, hand) ==
    /\ active' = [turn |-> Len(turns) + 1, task |-> 0]
    /\ turns' = Append(turns, NewTurn)
    /\ w' = [w EXCEPT ![p] = [Resting EXCEPT !.pc = pc, !.turn = Len(turns) + 1,
                                             !.hand = hand]]
\* An idle session is reserved for the turn that is about to start.
Reserve(p, pc, hand) ==
    /\ active = NoActive
    /\ active' = [turn |-> Len(turns) + 1, task |-> 0]
    /\ turns' = Append(turns, NewTurn)
    /\ w' = [w EXCEPT ![p] = [Resting EXCEPT !.pc = pc, !.turn = Len(turns) + 1,
                                             !.hand = hand]]

MaybeStartTurn(p) ==
    /\ w[p].pc = "wake"
    /\ \/ HasTrigger /\ Reserve(p, "gather", {})
       \/ /\ ~HasTrigger \/ active # NoActive
          /\ Go(p, Rest(p))
          /\ UNCHANGED <<active, turns>>
    /\ UNCHANGED <<script, at, mailbox, recorded, seen, dropped, ends, faults>>

\* get_pending_input: what the active turn and the mailbox hold, unless the
\* turn has put off its mail.
GetPendingInput(p, pc) ==
    /\ w' = [w EXCEPT ![p].pc = pc,
                      ![p].hand = IF Accepts THEN Pending \cup mailbox ELSE {}]
    /\ mailbox' = IF Accepts THEN {} ELSE mailbox
    /\ turns' = IF active.turn # 0 /\ Accepts
                THEN [turns EXCEPT ![active.turn].pending = {}] ELSE turns

Gather(p) ==
    /\ w[p].pc = "gather"
    /\ GetPendingInput(p, "claim")
    /\ UNCHANGED <<script, at, active, recorded, seen, dropped, ends, faults>>

\* active.get_or_insert_with(ActiveTurn::default)
GetOrInsert ==
    IF active.turn # 0
    THEN UNCHANGED <<active, turns>>
    ELSE /\ active' = [turn |-> Len(turns) + 1, task |-> 0]
         /\ turns' = Append(turns, NewTurn)

Claim(p) ==
    /\ w[p].pc = "claim"
    /\ GetOrInsert
    /\ w' = [w EXCEPT ![p].pc = "place", ![p].turn = active'.turn]
    /\ UNCHANGED <<script, at, mailbox, recorded, seen, dropped, ends, faults>>

Place(p) ==
    /\ w[p].pc = "place"
    /\ turns' = [turns EXCEPT ![w[p].turn].pending = @ \cup w[p].hand]
    /\ w' = [w EXCEPT ![p].pc = "install", ![p].hand = {}]
    /\ UNCHANGED <<script, at, active, mailbox, recorded, seen, dropped, ends, faults>>

\* The task is spawned and put into the active turn; a task that is there
\* already is dropped, and killed by its handle.
Install(p) ==
    /\ w[p].pc = "install"
    /\ \E t \in Tasks :
          /\ w[t].pc = "unused" /\ \A u \in 1 .. t - 1 : w[u].pc # "unused"
          /\ \/ /\ active.turn # 0
                /\ active' = [active EXCEPT !.task = t]
                /\ UNCHANGED turns
             \/ /\ active.turn = 0
                /\ active' = [turn |-> Len(turns) + 1, task |-> t]
                /\ turns' = Append(turns, NewTurn)
          /\ w' = [x \in Workers |->
                     CASE x = t -> [Resting EXCEPT !.pc = "begin",
                                                   !.input = w[p].input,
                                                   !.kind = w[p].kind]
                       [] x = p -> [Resting EXCEPT !.pc = Rest(p)]
                       [] x = active.task /\ x # 0 ->
                            [Resting EXCEPT !.pc = "killed"]
                       [] OTHER -> w[x]]
    /\ UNCHANGED <<script, at, mailbox, recorded, seen, dropped, ends, faults>>

(***************************************************************************)
(* Aborting: abort_all_tasks, abort_turn_if_active and handle_task_abort.  *)
(***************************************************************************)

CancelInPlace(p, why) ==
    /\ active' = active
    /\ IF active.task # 0
       THEN w' = [w EXCEPT ![p].pc = "grace", ![p].turn = active.turn,
                           ![p].victim = active.task, ![p].why = why,
                           ![active.task].cancelled = TRUE]
       ELSE Go(p, IF why = "start" THEN "gather" ELSE Rest(p))
\* A reservation without a task is dropped; a task is cancelled and given
\* 100 ms to end.
TakeActive(p, why) ==
    /\ active' = NoActive
    /\ IF active.task # 0
       THEN w' = [w EXCEPT ![p].pc = "grace", ![p].turn = active.turn,
                           ![p].victim = active.task, ![p].why = why,
                           ![active.task].cancelled = TRUE]
       ELSE Go(p, IF why = "start" THEN "gather" ELSE Rest(p))

AbortAllTasks(p) ==
    /\ w[p].pc = "take"
    /\ TakeActive(p, w[p].why)
    /\ UNCHANGED <<script, at, turns, mailbox, recorded, seen, dropped, ends, faults>>

\* The task ended in time or its handle is aborted, with what it holds; then
\* TurnAborted is sent.
Grace(p) ==
    /\ w[p].pc = "grace"
    /\ LET t == w[p].victim IN
       /\ w' = [w EXCEPT ![p].pc = "clear",
                         ![t] = [Resting EXCEPT
                                    !.pc = IF w[t].pc = "over" THEN "over"
                                                               ELSE "killed",
                                    !.cancelled = TRUE]]
       /\ dropped' = dropped \cup w[t].hand \cup w[t].input
       /\ ends' = [ends EXCEPT ![t] = @ + 1]
    /\ UNCHANGED <<script, at, active, turns, mailbox, recorded, seen, faults>>

ClearPending(p) ==
    /\ w[p].pc = "clear"
    /\ dropped' = dropped \cup turns[w[p].turn].pending
    /\ turns' = [turns EXCEPT ![w[p].turn].pending = {}]
    /\ Go(p, IF w[p].why = "start" THEN "gather" ELSE "wake")
    /\ UNCHANGED <<script, at, active, mailbox, recorded, seen, ends, faults>>

(***************************************************************************)
(* Extensions and the guardian.                                            *)
(***************************************************************************)

\* try_start_turn_if_idle: refused when mail asks for a turn or a turn is
\* active, and given up when mail asks for one after the reservation.
TryStartTurnIfIdle ==
    /\ NextOp(Ext, "idle")
    /\ \/ /\ ~HasTrigger
          /\ Reserve(Ext, "recheck", {Item(Ext)})
          /\ UNCHANGED dropped
       \/ /\ HasTrigger \/ active # NoActive
          /\ dropped' = dropped \cup {Item(Ext)}
          /\ UNCHANGED <<active, turns, w>>
    /\ UNCHANGED <<script, mailbox, recorded, seen, ends, faults>>

StillReserved(p) == active.task = 0 /\ active.turn = w[p].turn

Recheck ==
    /\ w[Ext].pc = "recheck"
    /\ \/ /\ HasTrigger
          /\ active' = IF StillReserved(Ext) THEN NoActive ELSE active
          /\ dropped' = dropped \cup w[Ext].hand
          /\ w' = [w EXCEPT ![Ext].pc = "wake", ![Ext].hand = {}]
       \/ /\ ~HasTrigger
          /\ Go(Ext, "offer")
          /\ UNCHANGED <<active, dropped>>
    /\ UNCHANGED <<script, at, turns, mailbox, recorded, seen, ends, faults>>

Offer ==
    /\ w[Ext].pc = "offer"
    /\ w' = [w EXCEPT ![Ext].pc = IF StillReserved(Ext) THEN "gather" ELSE "idle",
                      ![Ext].hand = {}]
    /\ \/ /\ StillReserved(Ext)
          /\ turns' = [turns EXCEPT ![w[Ext].turn].pending = @ \cup w[Ext].hand]
          /\ UNCHANGED dropped
       \/ /\ ~StillReserved(Ext)
          /\ dropped' = dropped \cup w[Ext].hand
          /\ UNCHANGED turns
    /\ UNCHANGED <<script, at, active, mailbox, recorded, seen, ends, faults>>

InjectNoNewTurn ==
    /\ NextOp(Ext, "inject")
    /\ \/ /\ active.turn # 0
          /\ Deliver(active.turn, Item(Ext))
          /\ UNCHANGED recorded
       \/ /\ active.turn = 0
          /\ recorded' = recorded \cup {Item(Ext)}
          /\ UNCHANGED turns
    /\ UNCHANGED <<script, active, mailbox, w, seen, dropped, ends, faults>>

AbortTurnIfActive ==
    /\ NextOp(Ext, "abort")
    /\ IF active.task # 0 THEN TakeActive(Ext, "stop") ELSE UNCHANGED <<active, w>>
    /\ UNCHANGED <<script, turns, mailbox, recorded, seen, dropped, ends, faults>>

(***************************************************************************)
(* A task: RegularTask.run with run_turn, or a compaction.                 *)
(***************************************************************************)

\* TurnStarted; the input is recorded and goes to the model first, a turn
\* without input takes what is pending.  A compaction reads neither.
Begin(t) ==
    /\ w[t].pc = "begin"
    /\ recorded' = recorded \cup w[t].input
    /\ w' = [w EXCEPT ![t].input = {},
                      ![t].pc = CASE w[t].kind = "compact" -> "ended"
                                  [] w[t].input # {} -> "sample"
                                  [] OTHER -> "drain"]
    /\ UNCHANGED <<script, at, active, turns, mailbox, seen, dropped, ends, faults>>

\* The compaction before the first request fails: run_turn returns without
\* the input.
PreSamplingFails(t) ==
    /\ w[t].pc = "begin" /\ w[t].kind = "regular"
    /\ faults < MaxFaults
    /\ faults' = faults + 1
    /\ dropped' = dropped \cup w[t].input
    /\ w' = [w EXCEPT ![t].input = {}, ![t].pc = "last"]
    /\ UNCHANGED <<script, at, active, turns, mailbox, recorded, seen, ends>>

Drain(t) ==
    /\ w[t].pc = "drain"
    /\ GetPendingInput(t, "record")
    /\ UNCHANGED <<script, at, active, recorded, seen, dropped, ends, faults>>

RecordInputs(t) ==
    /\ w[t].pc = "record"
    /\ recorded' = recorded \cup w[t].hand
    /\ w' = [w EXCEPT ![t].hand = {}, ![t].pc = "sample"]
    /\ UNCHANGED <<script, at, active, turns, mailbox, seen, dropped, ends, faults>>

\* The task's turn, while it is the active one.
OwnTurn(t) == {n \in 1 .. Len(turns) : active.task = t /\ active.turn = n}

DefersAll(n) == n \in 1 .. Len(turns)
\* Final text puts mail off to the next turn, unless the turn has more than
\* mail that can wait.
DefersMailbox(n) == \A i \in turns[n].pending : Op(i) = "mail"

SampleToolCall(t) ==
    /\ w[t].pc = "sample" /\ ~w[t].cancelled
    /\ w[t].calls < MaxCalls
    /\ seen' = seen \cup recorded
    /\ turns' = [n \in 1 .. Len(turns) |->
                   IF n \in OwnTurn(t) THEN [turns[n] EXCEPT !.next = FALSE]
                                       ELSE turns[n]]
    /\ w' = [w EXCEPT ![t].pc = "check", ![t].calls = @ + 1, ![t].follow = TRUE]
    /\ UNCHANGED <<script, at, active, mailbox, recorded, dropped, ends, faults>>

SampleAnswer(t) ==
    /\ w[t].pc = "sample" /\ ~w[t].cancelled
    /\ seen' = seen \cup recorded
    /\ turns' = [n \in 1 .. Len(turns) |->
                   IF n \in OwnTurn(t) /\ DefersMailbox(n)
                   THEN [turns[n] EXCEPT !.next = TRUE] ELSE turns[n]]
    /\ w' = [w EXCEPT ![t].pc = "check", ![t].follow = FALSE]
    /\ UNCHANGED <<script, at, active, mailbox, recorded, dropped, ends, faults>>

\* The request fails, or the task sees that it is cancelled.
SampleFails(t) ==
    /\ w[t].pc = "sample"
    /\ \/ /\ ~w[t].cancelled /\ faults < MaxFaults
          /\ faults' = faults + 1
          /\ seen' = seen \cup recorded
          /\ Go(t, "last")
       \/ /\ w[t].cancelled
          /\ Go(t, "ended")
          /\ UNCHANGED <<seen, faults>>
    /\ UNCHANGED <<script, at, active, turns, mailbox, recorded, dropped, ends>>

\* needs_follow_up in run_turn, then the loop of RegularTask.run.
Check(t) ==
    /\ w[t].pc \in {"check", "last"}
    /\ LET again == HasPendingInput \/ (w[t].pc = "check" /\ w[t].follow) IN
       Go(t, CASE w[t].pc = "check" -> IF again THEN "drain" ELSE "last"
               [] w[t].pc = "last" -> IF again THEN "begin" ELSE "ended")
    /\ UNCHANGED <<script, at, active, turns, mailbox, recorded, seen, dropped, ends,
                   faults>>

(***************************************************************************)
(* The end of a turn: on_task_finished, unless the task was cancelled.     *)
(***************************************************************************)

Ended(t) ==
    /\ w[t].pc = "ended"
    /\ Go(t, IF w[t].cancelled THEN "over" ELSE "finish")
    /\ UNCHANGED <<script, at, active, turns, mailbox, recorded, seen, dropped, ends,
                   faults>>

LeaveTask(t) ==
    /\ w[t].pc = "finish"
    /\ active' = active
    /\ w' = [w EXCEPT ![t].pc = IF active.task # 0 THEN "collect" ELSE "over",
                      ![t].turn = active.turn]
    /\ UNCHANGED <<script, at, turns, mailbox, recorded, seen, dropped, ends, faults>>
\* The task of the active turn is taken; without one the turn was aborted.
FinishTask(t) ==
    /\ w[t].pc = "finish"
    /\ active' = [active EXCEPT !.task = 0]
    /\ w' = [w EXCEPT ![t].pc = IF active.task # 0 THEN "collect" ELSE "over",
                      ![t].turn = active.turn]
    /\ UNCHANGED <<script, at, turns, mailbox, recorded, seen, dropped, ends, faults>>

CollectNothing(t) ==
    /\ w[t].pc = "collect"
    /\ turns' = [turns EXCEPT ![w[t].turn].pending = {}]
    /\ Go(t, "event")
    /\ UNCHANGED <<script, at, active, recorded, mailbox, seen, dropped, ends, faults>>
\* Input that came too late for the model is recorded for the next turn.
Collect(t) ==
    /\ w[t].pc = "collect"
    /\ recorded' = recorded \cup turns[w[t].turn].pending
    /\ turns' = [turns EXCEPT ![w[t].turn].pending = {}]
    /\ Go(t, "event")
    /\ UNCHANGED <<script, at, active, mailbox, seen, dropped, ends, faults>>

SendTerminalEvent(t) ==
    /\ w[t].pc = "event"
    /\ ends' = [ends EXCEPT ![t] = @ + 1]
    /\ Go(t, "release")
    /\ UNCHANGED <<script, at, active, turns, mailbox, recorded, seen, dropped, faults>>

ClearAnyTurn(t) ==
    /\ w[t].pc = "release"
    /\ active' = NoActive
    /\ Go(t, "wake")
    /\ UNCHANGED <<script, at, turns, mailbox, recorded, seen, dropped, ends, faults>>
ReleaseQuietly(t) ==
    /\ w[t].pc = "release"
    /\ active' = IF StillReserved(t) THEN NoActive ELSE active
    /\ Go(t, "over")
    /\ UNCHANGED <<script, at, turns, mailbox, recorded, seen, dropped, ends, faults>>
\* The active turn is cleared if it is still this one; mail may be waiting.
ClearActiveTurn(t) ==
    /\ w[t].pc = "release"
    /\ \/ StillReserved(t) /\ active' = NoActive /\ Go(t, "wake")
       \/ ~StillReserved(t) /\ Go(t, "over") /\ UNCHANGED active
    /\ UNCHANGED <<script, at, turns, mailbox, recorded, seen, dropped, ends, faults>>

(***************************************************************************)
(* The specification.  Work that is under way goes on: the runtime polls   *)
(* its tasks, model requests end or fail, and the grace period is a timer. *)
(* Fairness asks of no client that it submits anything.                    *)
(***************************************************************************)

Submit == UserInput \/ Compact \/ Interrupt \/ InterAgentCommunication
ExtCalls == TryStartTurnIfIdle \/ InjectNoNewTurn \/ AbortTurnIfActive

Switches(p) ==
    \/ MaybeStartTurn(p) \/ Gather(p) \/ Claim(p) \/ Place(p) \/ Install(p)
    \/ AbortAllTasks(p) \/ Grace(p) \/ ClearPending(p)

Runs(t) ==
    \/ Begin(t) \/ PreSamplingFails(t) \/ Drain(t) \/ RecordInputs(t)
    \/ SampleToolCall(t) \/ SampleAnswer(t) \/ SampleFails(t) \/ Check(t)
    \/ Ended(t) \/ FinishTask(t) \/ Collect(t) \/ SendTerminalEvent(t)
    \/ ClearActiveTurn(t)

Work ==
    \/ \E p \in Workers : Switches(p)
    \/ \E t \in Tasks : Runs(t)
    \/ Recheck
    \/ Offer

Next == Submit \/ ExtCalls \/ Work

Spec == Init /\ [][Next]_vars /\ WF_vars(Work)

(***************************************************************************)
(* Properties.                                                             *)
(***************************************************************************)

Steps == {"unused", "idle", "over", "killed", "take", "grace", "clear", "wake",
          "gather", "claim", "place", "install", "recheck", "offer", "begin",
          "drain", "record", "sample", "check", "last", "ended", "finish",
          "collect", "event", "release"}

TurnState == [pending : SUBSET Items, next : BOOLEAN]
Worker == [pc : Steps, turn : Nat, hand : SUBSET Items, input : SUBSET Items,
           kind : {"regular", "compact"}, why : {"start", "stop"}, victim : {0} \cup Tasks,
           cancelled : BOOLEAN, calls : Nat, follow : BOOLEAN]

\* The active turn has a turn state that was allocated and a task that is not
\* over, and workers hold turn states that exist.
TypeOK ==
    /\ script \in Scripts
    /\ at \in [Callers -> 1 .. MaxOps + 1]
    /\ active \in [turn : Nat, task : {0} \cup Tasks]
    /\ turns \in Seq(TurnState)
    /\ w \in [Workers -> Worker]
    /\ active.turn <= Len(turns) /\ \A p \in Workers : w[p].turn <= Len(turns)
    /\ active.turn = 0 => active.task = 0
    /\ active.task # 0 => w[active.task].pc \notin {"unused", "over"}
    /\ mailbox \subseteq Items
    /\ recorded \cup seen \cup dropped \subseteq Items
    /\ ends \in [Tasks -> Nat]
    /\ faults \in 0 .. MaxFaults

\* The assertion of start_task: whoever is about to put its task into the
\* active turn finds no other task there.
StartsIdle ==
    \A p \in Workers : w[p].pc \in {"claim", "install"} => active.task = 0

\* A client never sees a turn end twice, however abort and completion race.
EndsOnce == \A t \in Tasks : ends[t] <= 1

\* Input that was submitted stays somewhere it will be read from: in the
\* mailbox, in the input of the active turn or of one that is being finished
\* or aborted, in the hands of a worker, or in the history; only an abort or
\* an error takes it away.  (Injected items are another matter: one that
\* arrives after Collect is lost.)
InputKept ==
    LET held == UNION {w[p].hand \cup w[p].input : p \in Workers}
        closing == UNION {turns[w[p].turn].pending : p \in
                            {q \in Workers : w[q].pc \in {"grace", "clear", "collect"}}}
    IN \A i \in Items :
          (i[2] < at[i[1]] /\ Op(i) \in {"user", "mail", "trigger", "idle"}) =>
             i \in recorded \cup dropped \cup mailbox \cup Pending \cup held \cup closing

\* The steps of a task that has not left the active turn of its own accord.
Running == {"begin", "drain", "record", "sample", "check", "last", "ended", "finish"}

\* Why the types hold, for all scripts: the active task runs and nobody has
\* cancelled it, and whoever closes a turn knows the turn and a task that is
\* not the active one.
TurnsSound ==
    /\ active.task # 0 => w[active.task].pc \in Running /\ ~w[active.task].cancelled
    /\ \A p \in Workers :
          /\ w[p].pc \in {"grace", "clear", "collect", "place"} => w[p].turn # 0
          /\ w[p].pc = "grace" => /\ w[p].victim \notin {0, active.task}
                                 /\ w[w[p].victim].pc # "unused"

\* A session that its client alone drives: no mail asks for a turn, and no
\* extension starts or ends one.
OnlyClient ==
    \A s \in Scripts :
       /\ \A i \in 1 .. Len(s.loop) : s.loop[i] \in {"user", "compact", "interrupt", "mail"}
       /\ \A i \in 1 .. Len(s.ext) : s.ext[i] = "inject"

\* In such a session only the submission loop starts turns, and it has taken
\* the active turn away before.
LoopStarts ==
    /\ \A i \in mailbox : Op(i) = "mail"
    /\ w[Ext] = Resting
    /\ \A t \in Tasks : w[t].pc \in Running \cup {"unused", "over", "killed", "collect", "event",
                                                  "release", "wake"}
    /\ w[Loop].pc \in {"idle", "take", "grace", "clear", "gather", "claim", "place", "install", "wake"}
    /\ w[Loop].pc \in {"grace", "clear", "gather", "claim"} => active = NoActive
    /\ w[Loop].pc \in {"place", "install"} => active.task = 0 /\ active.turn = w[Loop].turn

\* A task that runs is the active one or the one the loop has cancelled, and
\* its turn has not ended.
TasksOwned ==
    /\ \A t \in Tasks :
          /\ w[t].pc \in Running =>
                active.task = t \/ (w[t].cancelled /\ w[Loop].pc = "grace" /\ w[Loop].victim = t)
          /\ w[t].pc \in Running \cup {"unused", "collect", "event"} => ends[t] = 0
          /\ ends[t] <= 1
    /\ w[Loop].pc = "grace" =>
          w[w[Loop].victim].pc \in Running \cup {"over"} /\ ends[w[Loop].victim] = 0

\* What a worker holds is not overwritten.
HandsFree ==
    /\ \A p \in Workers : w[p].pc \notin {"claim", "place", "record"} => w[p].hand = {}
    /\ \A t \in Tasks : w[t].pc = "unused" => w[t].input = {}
    /\ w[Loop].pc \in {"idle", "wake"} \/ w[Loop].why = "stop" => w[Loop].input = {}

Closing == {"collect", "event", "release"}
Injected(S) == \A i \in S : Op(i) = "inject"

\* A turn that a task finishes is not the turn of another, and keeps nothing
\* but what was injected after its input was collected.
TurnsApart ==
    /\ \A t \in Tasks : w[t].pc \in Closing =>
          /\ active.task # 0 \/ w[Loop].pc \in {"place", "install"} => w[t].turn # active.turn
          /\ active.turn = w[t].turn /\ w[t].pc # "collect" => Injected(Pending)
    /\ active.task = 0 /\ active.turn # 0 /\ w[Loop].pc \notin {"place", "install"} =>
          \E t \in Tasks : w[t].pc \in Closing /\ w[t].turn = active.turn

\* The inductive invariant of such a session.
ClientInv ==
    /\ TypeOK /\ TurnsSound /\ LoopStarts /\ TasksOwned /\ HandsFree /\ TurnsApart /\ InputKept

\* Every turn that was started ends with an event, whoever ends it.
TurnsEnd == \A t \in Tasks : (w[t].pc = "begin") ~> (ends[t] = 1)

\* Mail that asks for a turn is read by the model: by the turn it arrived in,
\* or by one that is started for it; it is never just recorded.
TriggerAnswered ==
    \A i \in {Loop} \X (1 .. MaxOps) :
       (i \in mailbox /\ Op(i) = "trigger") ~> (i \in seen \cup dropped)

\* A prompt that joins a turn before the turn's last look at its input is read
\* by the model, also when the final answer is already there, unless the turn
\* is aborted.
SteerAnswered ==
    \A t \in Tasks, i \in {Loop} \X (1 .. MaxOps) :
       (/\ i \in Pending /\ Op(i) = "user" /\ active.task = t
        /\ w[t].pc \in {"begin", "drain", "record", "sample", "check", "last"})
       ~> (i \in seen \/ w[t].cancelled)

=============================================================================
