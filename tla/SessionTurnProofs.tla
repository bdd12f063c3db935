-------------------------- MODULE SessionTurnProofs --------------------------
(***************************************************************************)
(* Proofs about SessionTurn: the type invariant for all scripts, and, for  *)
(* a session that its client alone drives, that the assertion of           *)
(* start_task holds, that no turn ends twice, and that no input is lost.   *)
(***************************************************************************)
EXTENDS SessionTurn, TLAPS

-----------------------------------------------------------------------------
(* The workers.                                                             *)

LEMMA Ids ==
    /\ Loop \in Workers /\ Ext \in Workers /\ Loop # Ext /\ Tasks \subseteq Workers
    /\ Loop \in Callers /\ Ext \in Callers /\ Callers \subseteq Workers
    /\ Loop \notin Tasks /\ Ext \notin Tasks /\ 0 \notin Tasks /\ 0 \notin Workers
    /\ \A p \in Workers : p \in Callers <=> p \notin Tasks
BY SessionAssumption DEF Loop, Ext, Callers, Workers, Tasks

LEMMA WorkerFields ==
    ASSUME NEW r \in Worker
    PROVE  /\ r.pc \in Steps /\ r.turn \in Nat /\ r.hand \subseteq Items /\ r.input \subseteq Items
           /\ r.kind \in {"regular", "compact"} /\ r.why \in {"start", "stop"}
           /\ r.victim \in {0} \cup Tasks /\ r.cancelled \in BOOLEAN /\ r.calls \in Nat
           /\ r.follow \in BOOLEAN
BY DEF Worker

(* Writing one field of a worker leaves a worker.                           *)
LEMMA WorkerColumns ==
    ASSUME NEW r \in Worker
    PROVE  /\ \A x \in Steps : [r EXCEPT !.pc = x] \in Worker
           /\ \A x \in Nat : [r EXCEPT !.turn = x] \in Worker
           /\ \A x \in SUBSET Items : [r EXCEPT !.hand = x] \in Worker
           /\ \A x \in SUBSET Items : [r EXCEPT !.input = x] \in Worker
           /\ \A x \in {"regular", "compact"} : [r EXCEPT !.kind = x] \in Worker
           /\ \A x \in {"start", "stop"} : [r EXCEPT !.why = x] \in Worker
           /\ \A x \in {0} \cup Tasks : [r EXCEPT !.victim = x] \in Worker
           /\ \A x \in BOOLEAN : [r EXCEPT !.cancelled = x] \in Worker
           /\ \A x \in Nat : [r EXCEPT !.calls = x] \in Worker
           /\ \A x \in BOOLEAN : [r EXCEPT !.follow = x] \in Worker
<1> USE DEF Worker
<1>1. \A x \in Steps : [r EXCEPT !.pc = x] \in Worker
  OBVIOUS
<1>2. \A x \in Nat : [r EXCEPT !.turn = x] \in Worker
  OBVIOUS
<1>3. \A x \in SUBSET Items : [r EXCEPT !.hand = x] \in Worker
  OBVIOUS
<1>4. \A x \in SUBSET Items : [r EXCEPT !.input = x] \in Worker
  OBVIOUS
<1>5. \A x \in {"regular", "compact"} : [r EXCEPT !.kind = x] \in Worker
  OBVIOUS
<1>6. \A x \in {"start", "stop"} : [r EXCEPT !.why = x] \in Worker
  OBVIOUS
<1>7. \A x \in {0} \cup Tasks : [r EXCEPT !.victim = x] \in Worker
  OBVIOUS
<1>8. \A x \in BOOLEAN : [r EXCEPT !.cancelled = x] \in Worker
  OBVIOUS
<1>9. \A x \in Nat : [r EXCEPT !.calls = x] \in Worker
  OBVIOUS
<1>10. \A x \in BOOLEAN : [r EXCEPT !.follow = x] \in Worker
  OBVIOUS
<1> QED
  BY <1>1, <1>2, <1>3, <1>4, <1>5, <1>6, <1>7, <1>8, <1>9, <1>10

(* The same within the table of workers.                                    *)
LEMMA TableColumns ==
    ASSUME NEW f \in [Workers -> Worker], NEW p \in Workers
    PROVE  /\ \A x \in Worker : [f EXCEPT ![p] = x] \in [Workers -> Worker]
           /\ \A x \in Steps : [f EXCEPT ![p].pc = x] \in [Workers -> Worker]
           /\ \A x \in Nat : [f EXCEPT ![p].turn = x] \in [Workers -> Worker]
           /\ \A x \in SUBSET Items : [f EXCEPT ![p].hand = x] \in [Workers -> Worker]
           /\ \A x \in SUBSET Items : [f EXCEPT ![p].input = x] \in [Workers -> Worker]
           /\ \A x \in {"start", "stop"} : [f EXCEPT ![p].why = x] \in [Workers -> Worker]
           /\ \A x \in {0} \cup Tasks : [f EXCEPT ![p].victim = x] \in [Workers -> Worker]
           /\ \A x \in BOOLEAN : [f EXCEPT ![p].cancelled = x] \in [Workers -> Worker]
           /\ \A x \in Nat : [f EXCEPT ![p].calls = x] \in [Workers -> Worker]
           /\ \A x \in BOOLEAN : [f EXCEPT ![p].follow = x] \in [Workers -> Worker]
<1>1. f[p] \in Worker
  OBVIOUS
<1>2. \A x \in Worker : [f EXCEPT ![p] = x] \in [Workers -> Worker]
  OBVIOUS
<1> QED
  BY <1>1, <1>2, WorkerColumns, Zenon

LEMMA RestingFields ==
    /\ Resting \in Worker
    /\ Resting.pc = "idle" /\ Resting.turn = 0 /\ Resting.hand = {} /\ Resting.input = {}
    /\ Resting.why = "start" /\ Resting.kind = "regular" /\ Resting.victim = 0
    /\ Resting.cancelled = FALSE
BY DEF Resting, Worker, Steps

-----------------------------------------------------------------------------
(* What a step does to the workers.  Row: only worker p changes, and these  *)
(* are its fields afterwards.  Keeps: the fields most steps leave alone.    *)

Others(S) == w' \in [Workers -> Worker] /\ \A q \in Workers \ S : w'[q] = w[q]
Row(p, pc, turn, hand, input) ==
    /\ Others({p})
    /\ w'[p].pc = pc /\ w'[p].turn = turn /\ w'[p].hand = hand /\ w'[p].input = input
Keeps(p) ==
    /\ w'[p].kind = w[p].kind /\ w'[p].why = w[p].why /\ w'[p].victim = w[p].victim
    /\ w'[p].cancelled = w[p].cancelled

LEMMA GoRow ==
    ASSUME w \in [Workers -> Worker], NEW p \in Workers, NEW x \in Steps, Go(p, x)
    PROVE  Row(p, x, w[p].turn, w[p].hand, w[p].input) /\ Keeps(p)
<1>1. w' \in [Workers -> Worker]
  BY TableColumns, Zenon DEF Go
<1>2. w[p] \in Worker
  OBVIOUS
<1>3. w'[p] = [w[p] EXCEPT !.pc = x] /\ \A q \in Workers \ {p} : w'[q] = w[q]
  BY DEF Go
<1> QED
  BY <1>1, <1>2, <1>3 DEF Row, Keeps, Others, Worker

LEMMA HandRow ==
    ASSUME w \in [Workers -> Worker], NEW p \in Workers, NEW x \in Steps, NEW h \in SUBSET Items,
           \/ w' = [w EXCEPT ![p].pc = x, ![p].hand = h]
           \/ w' = [w EXCEPT ![p].hand = h, ![p].pc = x]
    PROVE  Row(p, x, w[p].turn, h, w[p].input) /\ Keeps(p)
<1>1. /\ [w EXCEPT ![p].pc = x] \in [Workers -> Worker]
      /\ [w EXCEPT ![p].hand = h] \in [Workers -> Worker]
  BY TableColumns, Zenon
<1>2. w' \in [Workers -> Worker]
  <2>1. /\ [w EXCEPT ![p].pc = x, ![p].hand = h] \in [Workers -> Worker]
        /\ [w EXCEPT ![p].hand = h, ![p].pc = x] \in [Workers -> Worker]
    BY <1>1, TableColumns, Zenon
  <2> QED
    BY <2>1, Zenon
<1>3. w[p] \in Worker
  OBVIOUS
<1>4. /\ \/ w'[p] = [w[p] EXCEPT !.pc = x, !.hand = h]
         \/ w'[p] = [w[p] EXCEPT !.hand = h, !.pc = x]
      /\ \A q \in Workers \ {p} : w'[q] = w[q]
  <2>1. CASE w' = [w EXCEPT ![p].pc = x, ![p].hand = h]
    BY <2>1
  <2>2. CASE w' = [w EXCEPT ![p].hand = h, ![p].pc = x]
    BY <2>2
  <2> QED
    BY <2>1, <2>2
<1> QED
  BY <1>2, <1>3, <1>4 DEF Row, Keeps, Others, Worker

LEMMA TurnRow ==
    ASSUME w \in [Workers -> Worker], NEW p \in Workers, NEW x \in Steps, NEW n \in Nat,
           w' = [w EXCEPT ![p].pc = x, ![p].turn = n]
    PROVE  Row(p, x, n, w[p].hand, w[p].input) /\ Keeps(p)
<1>1. [w EXCEPT ![p].pc = x] \in [Workers -> Worker]
  BY TableColumns, Zenon
<1>2. w' \in [Workers -> Worker]
  BY <1>1, TableColumns, Zenon
<1>3. w[p] \in Worker
  OBVIOUS
<1>4. /\ w'[p] = [w[p] EXCEPT !.pc = x, !.turn = n]
      /\ \A q \in Workers \ {p} : w'[q] = w[q]
  OBVIOUS
<1> QED
  BY <1>2, <1>3, <1>4 DEF Row, Keeps, Others, Worker

LEMMA InputRow ==
    ASSUME w \in [Workers -> Worker], NEW p \in Workers, NEW x \in Steps,
           w' = [w EXCEPT ![p].input = {}, ![p].pc = x]
    PROVE  Row(p, x, w[p].turn, w[p].hand, {}) /\ Keeps(p)
<1>1. [w EXCEPT ![p].input = {}] \in [Workers -> Worker]
  BY TableColumns, Zenon
<1>2. w' \in [Workers -> Worker]
  BY <1>1, TableColumns, Zenon
<1>3. w[p] \in Worker
  OBVIOUS
<1>4. /\ w'[p] = [w[p] EXCEPT !.input = {}, !.pc = x]
      /\ \A q \in Workers \ {p} : w'[q] = w[q]
  OBVIOUS
<1> QED
  BY <1>2, <1>3, <1>4 DEF Row, Keeps, Others, Worker

LEMMA CallRow ==
    ASSUME w \in [Workers -> Worker], NEW p \in Workers, NEW x \in Steps, NEW f \in BOOLEAN,
           \/ w' = [w EXCEPT ![p].pc = x, ![p].calls = @ + 1, ![p].follow = f]
           \/ w' = [w EXCEPT ![p].pc = x, ![p].follow = f]
    PROVE  Row(p, x, w[p].turn, w[p].hand, w[p].input) /\ Keeps(p)
<1>1. w[p] \in Worker /\ w[p].calls + 1 \in Nat
  BY DEF Worker
<1>2. [w EXCEPT ![p].pc = x] \in [Workers -> Worker]
  BY TableColumns, Zenon
<1>3. [w EXCEPT ![p].pc = x, ![p].calls = w[p].calls + 1] \in [Workers -> Worker]
  BY <1>1, <1>2, TableColumns, Zenon
<1>4. /\ [w EXCEPT ![p].pc = x, ![p].calls = w[p].calls + 1, ![p].follow = f]
            \in [Workers -> Worker]
      /\ [w EXCEPT ![p].pc = x, ![p].follow = f] \in [Workers -> Worker]
  BY <1>2, <1>3, TableColumns, Zenon
<1>5. /\ \/ w'[p] = [w[p] EXCEPT !.pc = x, !.calls = w[p].calls + 1, !.follow = f]
         \/ w'[p] = [w[p] EXCEPT !.pc = x, !.follow = f]
      /\ \A q \in Workers \ {p} : w'[q] = w[q]
  BY <1>1 DEF Worker
<1>6. \/ w' = [w EXCEPT ![p].pc = x, ![p].calls = w[p].calls + 1, ![p].follow = f]
      \/ w' = [w EXCEPT ![p].pc = x, ![p].follow = f]
  BY <1>1 DEF Worker
<1>7. w' \in [Workers -> Worker]
  BY <1>4, <1>6
<1> QED
  BY <1>1, <1>5, <1>7 DEF Row, Keeps, Others, Worker

(* A worker that takes up something else starts from a clean row.           *)
LEMMA FreshRow ==
    ASSUME w \in [Workers -> Worker], NEW p \in Workers, NEW r \in Worker, w' = [w EXCEPT ![p] = r]
    PROVE  Row(p, r.pc, r.turn, r.hand, r.input) /\ w'[p] = r
BY DEF Row, Others

LEMMA FreshCancelled ==
    ASSUME NEW x \in Steps, NEW b \in BOOLEAN, NEW r, r = [Resting EXCEPT !.pc = x, !.cancelled = b]
    PROVE  r \in Worker /\ r.pc = x /\ r.turn = 0 /\ r.hand = {} /\ r.input = {}
BY RestingFields DEF Resting, Worker

LEMMA FreshStep ==
    ASSUME NEW x \in Steps, NEW r, r = [Resting EXCEPT !.pc = x]
    PROVE  /\ r \in Worker /\ r.pc = x /\ r.turn = 0 /\ r.hand = {} /\ r.input = {}
           /\ r.why = "start"
BY RestingFields DEF Resting, Worker

Reserved(x, n, h) == [Resting EXCEPT !.pc = x, !.turn = n, !.hand = h]
Spawned(i, k) == [Resting EXCEPT !.pc = "begin", !.input = i, !.kind = k]

LEMMA FreshTurn ==
    ASSUME NEW x \in Steps, NEW n \in Nat, NEW h \in SUBSET Items
    PROVE  LET r == Reserved(x, n, h) IN
           /\ r \in Worker /\ r.pc = x /\ r.turn = n /\ r.hand = h /\ r.input = {}
           /\ r.why = "start"
<1>1. [Resting EXCEPT !.pc = x] \in Worker
  BY RestingFields, WorkerColumns, Zenon
<1>2. [Resting EXCEPT !.pc = x, !.turn = n] \in Worker
  BY <1>1, WorkerColumns, Zenon
<1>3. Reserved(x, n, h) \in Worker
  BY <1>2, WorkerColumns, Zenon DEF Reserved
<1> QED
  BY <1>3 DEF Resting, Reserved

LEMMA FreshTask ==
    ASSUME NEW i \in SUBSET Items, NEW k \in {"regular", "compact"}
    PROVE  LET r == Spawned(i, k) IN
           /\ r \in Worker /\ r.pc = "begin" /\ r.turn = 0 /\ r.hand = {} /\ r.input = i
           /\ ~r.cancelled
<1>1. "begin" \in Steps
  BY DEF Steps
<1>2. [Resting EXCEPT !.pc = "begin"] \in Worker
  BY <1>1, RestingFields, WorkerColumns, Zenon
<1>3. [Resting EXCEPT !.pc = "begin", !.input = i] \in Worker
  BY <1>2, WorkerColumns, Zenon
<1>4. Spawned(i, k) \in Worker
  BY <1>3, WorkerColumns, Zenon DEF Spawned
<1> QED
  BY <1>4 DEF Resting, Spawned

(* A worker that cancels a task, and the grace period it gives.             *)
Cancels(p, t, n, y) ==
    w' = [w EXCEPT ![p].pc = "grace", ![p].turn = n, ![p].victim = t, ![p].why = y,
                   ![t].cancelled = TRUE]

(* The task is cancelled, and the worker waits for its end.                 *)
WaitsFor(p, t, n, y) ==
    /\ Others({p, t})
    /\ w'[p].pc = "grace" /\ w'[p].turn = n /\ w'[p].victim = t /\ w'[p].why = y
    /\ w'[p].hand = w[p].hand /\ w'[p].input = w[p].input
    /\ w'[t].pc = w[t].pc /\ w'[t].turn = w[t].turn /\ w'[t].hand = w[t].hand
    /\ w'[t].input = w[t].input /\ w'[t].why = w[t].why /\ w'[t].victim = w[t].victim
    /\ w'[t].cancelled

LEMMA CancelRow ==
    ASSUME w \in [Workers -> Worker], NEW p \in Workers, NEW t \in Tasks, p # t,
           NEW n \in Nat, NEW y \in {"start", "stop"}, Cancels(p, t, n, y)
    PROVE  WaitsFor(p, t, n, y)
<1>1. t \in Workers /\ "grace" \in Steps /\ t \in {0} \cup Tasks /\ TRUE \in BOOLEAN
  BY Ids DEF Steps
<1> DEFINE w1 == [w EXCEPT ![p].pc = "grace"]
           w2 == [w1 EXCEPT ![p].turn = n]
           w3 == [w2 EXCEPT ![p].victim = t]
           w4 == [w3 EXCEPT ![p].why = y]
<1>2. w1 \in [Workers -> Worker]
  BY <1>1, TableColumns, Zenon
<1>3. w2 \in [Workers -> Worker]
  BY <1>2, TableColumns, Zenon
<1>4. w3 \in [Workers -> Worker]
  BY <1>1, <1>3, TableColumns, Zenon
<1>5. w4 \in [Workers -> Worker]
  BY <1>4, TableColumns, Zenon
<1>6. w' = [w4 EXCEPT ![t].cancelled = TRUE]
  BY DEF Cancels
<1>7. w' \in [Workers -> Worker]
  <2> HIDE DEF w4
  <2>1. [w4 EXCEPT ![t].cancelled = TRUE] \in [Workers -> Worker]
    BY <1>1, <1>5, TableColumns, Zenon
  <2> QED
    BY <1>6, <2>1, Zenon
<1>8. w[p] \in Worker /\ w[t] \in Worker
  BY <1>1
<1>9. w'[p] = [w[p] EXCEPT !.pc = "grace", !.turn = n, !.victim = t, !.why = y]
  BY <1>1, <1>8 DEF Cancels
<1>10. w'[t] = [w[t] EXCEPT !.cancelled = TRUE]
  BY <1>1, <1>8 DEF Cancels
<1>11. \A q \in Workers \ {p, t} : w'[q] = w[q]
  BY <1>1 DEF Cancels
<1>12. /\ w'[p].pc = "grace" /\ w'[p].turn = n /\ w'[p].victim = t /\ w'[p].why = y
       /\ w'[p].hand = w[p].hand /\ w'[p].input = w[p].input
  BY <1>8, <1>9 DEF Worker
<1>13. /\ w'[t].pc = w[t].pc /\ w'[t].turn = w[t].turn /\ w'[t].hand = w[t].hand
       /\ w'[t].input = w[t].input /\ w'[t].why = w[t].why /\ w'[t].victim = w[t].victim
       /\ w'[t].cancelled
  BY <1>8, <1>10 DEF Worker
<1> QED
  BY <1>7, <1>11, <1>12, <1>13 DEF Others, WaitsFor

(* The grace period is over: the task's row is r.                           *)
Buries(p, t, r) == w' = [w EXCEPT ![p].pc = "clear", ![t] = r]
Buried(p, t, r) ==
    /\ Others({p, t}) /\ w'[t] = r
    /\ p # t => /\ w'[p].pc = "clear" /\ w'[p].turn = w[p].turn /\ w'[p].hand = w[p].hand
                /\ w'[p].input = w[p].input /\ Keeps(p)

LEMMA GraceRow ==
    ASSUME w \in [Workers -> Worker], NEW p \in Workers, NEW t \in Tasks, NEW r \in Worker,
           Buries(p, t, r)
    PROVE  Buried(p, t, r)
<1> USE DEF Buries
<1>1. t \in Workers /\ "clear" \in Steps
  BY Ids DEF Steps
<1>2. [w EXCEPT ![p].pc = "clear"] \in [Workers -> Worker]
  BY <1>1, TableColumns, Zenon
<1>3. w' \in [Workers -> Worker]
  BY <1>1, <1>2, TableColumns, Zenon
<1>4. w[p] \in Worker
  OBVIOUS
<1>5. /\ w'[t] = r
      /\ p # t => w'[p] = [w[p] EXCEPT !.pc = "clear"]
      /\ \A q \in Workers \ {p, t} : w'[q] = w[q]
  BY <1>1
<1> QED
  BY <1>3, <1>4, <1>5 DEF Buried, Others, Keeps, Worker

-----------------------------------------------------------------------------
(* The turn states.                                                         *)

LEMMA TurnAppended ==
    ASSUME turns \in Seq(TurnState), turns' = Append(turns, NewTurn)
    PROVE  /\ turns' \in Seq(TurnState) /\ Len(turns') = Len(turns) + 1
           /\ \A n \in 1 .. Len(turns) : turns'[n] = turns[n]
           /\ turns'[Len(turns) + 1] = NewTurn
<1>1. NewTurn \in TurnState
  BY DEF NewTurn, TurnState
<1> QED
  BY <1>1

LEMMA TurnWritten ==
    ASSUME turns \in Seq(TurnState), NEW n \in 1 .. Len(turns), NEW S \in SUBSET Items,
           turns' = [turns EXCEPT ![n].pending = S]
    PROVE  /\ turns' \in Seq(TurnState) /\ Len(turns') = Len(turns)
           /\ turns'[n].pending = S
           /\ \A m \in 1 .. Len(turns) : m # n => turns'[m] = turns[m]
<1>1. turns[n] \in TurnState
  OBVIOUS
<1>2. [turns[n] EXCEPT !.pending = S] \in TurnState
  BY <1>1 DEF TurnState
<1>3. turns' = [turns EXCEPT ![n] = [turns[n] EXCEPT !.pending = S]]
  OBVIOUS
<1>4. turns' \in Seq(TurnState) /\ Len(turns') = Len(turns)
  BY <1>2, <1>3
<1>5. turns'[n] = [turns[n] EXCEPT !.pending = S]
  BY <1>3
<1> QED
  BY <1>1, <1>3, <1>4, <1>5 DEF TurnState

Writes(n, S) == turns' = [turns EXCEPT ![n].pending = S]

LEMMA TurnWrites ==
    ASSUME turns \in Seq(TurnState), NEW n \in 1 .. Len(turns), NEW S \in SUBSET Items, Writes(n, S)
    PROVE  /\ turns' \in Seq(TurnState) /\ Len(turns') = Len(turns)
           /\ turns'[n].pending = S
           /\ \A m \in 1 .. Len(turns) : m # n => turns'[m] = turns[m]
BY TurnWritten, Zenon DEF Writes

LEMMA TurnDelivered ==
    ASSUME turns \in Seq(TurnState), NEW n \in 1 .. Len(turns), NEW i \in Items, Deliver(n, i)
    PROVE  /\ turns' \in Seq(TurnState) /\ Len(turns') = Len(turns)
           /\ turns'[n].pending = turns[n].pending \cup {i}
           /\ \A m \in 1 .. Len(turns) : m # n => turns'[m] = turns[m]
<1>1. turns[n] \in TurnState
  OBVIOUS
<1> DEFINE r == [pending |-> turns[n].pending \cup {i}, next |-> FALSE]
<1>2. r \in TurnState
  BY <1>1 DEF TurnState
<1>3. turns' = [turns EXCEPT ![n] = r]
  BY DEF Deliver
<1> QED
  BY <1>2, <1>3

(* A sampled answer changes no pending input.                               *)
LEMMA TurnsMarked ==
    ASSUME turns \in Seq(TurnState), NEW F, NEW b \in BOOLEAN,
           turns' = [n \in 1 .. Len(turns) |->
                       IF n \in F THEN [turns[n] EXCEPT !.next = b] ELSE turns[n]]
    PROVE  /\ turns' \in Seq(TurnState) /\ Len(turns') = Len(turns)
           /\ \A n \in 1 .. Len(turns) : turns'[n].pending = turns[n].pending
<1>1. Len(turns) \in Nat /\ \A n \in 1 .. Len(turns) : turns[n] \in TurnState
  OBVIOUS
<1>2. \A n \in 1 .. Len(turns) : /\ turns'[n] \in TurnState
                                 /\ turns'[n].pending = turns[n].pending
  BY <1>1 DEF TurnState
<1>3. turns' \in [1 .. Len(turns) -> TurnState]
  BY <1>2
<1>4. turns' \in Seq(TurnState) /\ Len(turns') = Len(turns)
  BY <1>1, <1>3
<1> QED
  BY <1>2, <1>4

-----------------------------------------------------------------------------
(* Types and TurnsSound, for every script.                                  *)

Ledger ==
    /\ script \in Scripts /\ at \in [Callers -> 1 .. MaxOps + 1]
    /\ mailbox \subseteq Items /\ recorded \cup seen \cup dropped \subseteq Items
    /\ ends \in [Tasks -> Nat] /\ faults \in 0 .. MaxFaults
TurnsGrow == turns' \in Seq(TurnState) /\ Len(turns) <= Len(turns')
Sound == TypeOK /\ TurnsSound

(* What the new row of a worker owes to the invariant.                      *)
RowSound(p) ==
    /\ w'[p].turn <= Len(turns')
    /\ p = active'.task => w'[p].pc \in Running /\ ~w'[p].cancelled
    /\ w'[p].pc \in {"grace", "clear", "collect", "place"} => w'[p].turn # 0
    /\ w'[p].pc = "grace" => /\ w'[p].victim \notin {0, active'.task}
                            /\ w'[w'[p].victim].pc # "unused"
    /\ w'[p].pc = "unused" => w[p].pc = "unused"

(* What the new active turn owes to it.                                     *)
ActiveSound(S) ==
    /\ active' \in [turn : Nat, task : {0} \cup Tasks]
    /\ active'.turn <= Len(turns')
    /\ active'.turn = 0 => active'.task = 0
    /\ active'.task \in {0, active.task}
          \/ (active'.task \in S /\ w[active'.task].pc = "unused")

LEMMA StepSound ==
    ASSUME Sound, NEW S \in SUBSET Workers, Others(S), TurnsGrow, ActiveSound(S),
           \A p \in S : RowSound(p), Ledger'
    PROVE  Sound'
<1> USE Ids DEF Others
<1>1. \A p \in Workers \ S : w'[p] = w[p] /\ w[p].turn <= Len(turns)
  BY DEF Sound, TypeOK
<1>2. \A p \in Workers : w'[p].turn <= Len(turns')
  <2> TAKE p \in Workers
  <2>1. Len(turns) \in Nat /\ Len(turns') \in Nat /\ w[p].turn \in Nat
    BY WorkerFields DEF TurnsGrow, Sound, TypeOK
  <2> QED
    BY <1>1, <2>1 DEF RowSound, TurnsGrow
<1>3. active'.task # 0 => w'[active'.task].pc \in Running /\ ~w'[active'.task].cancelled
  <2> SUFFICES ASSUME active'.task # 0
               PROVE  w'[active'.task].pc \in Running /\ ~w'[active'.task].cancelled
    OBVIOUS
  <2>1. active'.task \in Workers
    BY DEF ActiveSound
  <2>2. CASE active'.task \in S
    BY <2>2 DEF RowSound
  <2>3. CASE active'.task \notin S
    BY <1>1, <2>1, <2>3 DEF ActiveSound, Sound, TurnsSound
  <2> QED
    BY <2>2, <2>3
<1>4. \A p \in Workers : w'[p].pc \in {"grace", "clear", "collect", "place"} => w'[p].turn # 0
  BY <1>1 DEF RowSound, Sound, TurnsSound
<1>5. ASSUME NEW p \in Workers, w'[p].pc = "grace"
      PROVE  w'[p].victim \notin {0, active'.task} /\ w'[w'[p].victim].pc # "unused"
  <2>1. CASE p \in S
    BY <1>5, <2>1 DEF RowSound
  <2>2. CASE p \notin S
    <3>1. /\ w'[p] = w[p] /\ w[p].victim \notin {0, active.task} /\ w[w[p].victim].pc # "unused"
          /\ w[p].victim \in Workers
      BY <1>1, <1>5, <2>2, WorkerFields DEF Sound, TurnsSound, TypeOK
    <3>2. w[p].victim # active'.task
      BY <3>1 DEF ActiveSound
    <3>3. w'[w[p].victim].pc # "unused"
      BY <1>1, <3>1 DEF RowSound
    <3> QED
      BY <3>1, <3>2, <3>3
  <2> QED
    BY <2>1, <2>2
<1>6. TurnsSound'
  BY <1>3, <1>4, <1>5 DEF TurnsSound
<1>7. active'.task # 0 => w'[active'.task].pc \notin {"unused", "over"}
  BY <1>3 DEF Running
<1>8. TypeOK'
  <2>1. /\ w' \in [Workers -> Worker] /\ turns' \in Seq(TurnState)
        /\ active' \in [turn : Nat, task : {0} \cup Tasks] /\ active'.turn <= Len(turns')
        /\ active'.turn = 0 => active'.task = 0
    BY DEF ActiveSound, TurnsGrow
  <2>2. /\ script' \in Scripts /\ at' \in [Callers -> 1 .. MaxOps + 1]
        /\ mailbox' \subseteq Items /\ recorded' \cup seen' \cup dropped' \subseteq Items
        /\ ends' \in [Tasks -> Nat] /\ faults' \in 0 .. MaxFaults
    BY DEF Ledger
  <2> QED
    BY <1>2, <1>7, <2>1, <2>2, Zenon DEF TypeOK
<1> QED
  BY <1>6, <1>8 DEF Sound

(* Steps that leave the active turn or the turn states alone.               *)
LEMMA ActiveStays ==
    ASSUME Sound, TurnsGrow, UNCHANGED active, NEW S
    PROVE  ActiveSound(S)
BY DEF ActiveSound, Sound, TypeOK, TurnsGrow

LEMMA ActiveGone ==
    ASSUME Sound, TurnsGrow, active' = NoActive, NEW S
    PROVE  ActiveSound(S)
BY DEF ActiveSound, Sound, TypeOK, TurnsGrow, NoActive

LEMMA TurnsStay ==
    ASSUME Sound, UNCHANGED turns
    PROVE  TurnsGrow /\ Len(turns') = Len(turns) /\ Len(turns) \in Nat
BY DEF Sound, TypeOK, TurnsGrow

LEMMA OpTaken ==
    ASSUME TypeOK, NEW c \in Callers, NEW op, NextOp(c, op)
    PROVE  /\ Item(c) \in Items /\ at' \in [Callers -> 1 .. MaxOps + 1]
           /\ w[c].pc = "idle" /\ Op(Item(c)) = op
           /\ at'[c] = at[c] + 1 /\ \A d \in Callers : d # c => at'[d] = at[d]
<1>1. at[c] \in 1 .. MaxOps + 1 /\ at[c] <= Len(Script(c)) /\ MaxOps \in Nat
  BY SessionAssumption DEF TypeOK, NextOp
<1>2. Len(Script(c)) \in 0 .. MaxOps
  BY SessionAssumption DEF TypeOK, Script
<1>3. at[c] \in 1 .. MaxOps
  BY <1>1, <1>2
<1>4. Item(c) \in Items
  BY <1>3 DEF Item, Items
<1>5. at' = [at EXCEPT ![c] = at[c] + 1] /\ at \in [Callers -> 1 .. MaxOps + 1]
  BY DEF NextOp, TypeOK
<1> QED
  BY <1>1, <1>3, <1>4, <1>5 DEF NextOp, Item

(* The facts most steps need.                                               *)
LEMMA SoundFacts ==
    ASSUME Sound
    PROVE  /\ w \in [Workers -> Worker] /\ turns \in Seq(TurnState) /\ Len(turns) \in Nat
           /\ active.task \in {0} \cup Tasks /\ active.turn \in Nat /\ active.turn <= Len(turns)
           /\ \A p \in Workers : /\ w[p] \in Worker /\ w[p].turn \in Nat /\ w[p].turn <= Len(turns)
                                 /\ w[p].hand \subseteq Items /\ w[p].input \subseteq Items
                                 /\ p = active.task => w[p].pc \in Running
                                 /\ p = active.task => ~w[p].cancelled
           /\ \A n \in 1 .. Len(turns) : turns[n].pending \subseteq Items
<1>1. /\ w \in [Workers -> Worker] /\ turns \in Seq(TurnState) /\ Len(turns) \in Nat
      /\ active.task \in {0} \cup Tasks /\ active.turn \in Nat /\ active.turn <= Len(turns)
  BY DEF Sound, TypeOK
<1>2. \A n \in 1 .. Len(turns) : turns[n].pending \subseteq Items
  <2>1. \A n \in 1 .. Len(turns) : turns[n] \in TurnState
    BY <1>1
  <2> QED
    BY <2>1 DEF TurnState
<1>3. ASSUME NEW p \in Workers
      PROVE  /\ w[p] \in Worker /\ w[p].turn \in Nat /\ w[p].turn <= Len(turns)
             /\ w[p].hand \subseteq Items /\ w[p].input \subseteq Items
  <2>1. w[p] \in Worker /\ w[p].turn <= Len(turns)
    BY DEF Sound, TypeOK
  <2> QED
    BY <2>1, WorkerFields
<1>4. ASSUME NEW p \in Workers, p = active.task
      PROVE  w[p].pc \in Running /\ ~w[p].cancelled
  BY <1>4, Ids DEF Sound, TurnsSound
<1> QED
  BY <1>1, <1>2, <1>3, <1>4

(* A worker moves on within what it was doing, and the active turn stays.   *)
LEMMA PlainStep ==
    ASSUME Sound, NEW p \in Workers, TurnsGrow, UNCHANGED active, Ledger', NEW pc \in Steps,
           NEW h, NEW i, Row(p, pc, w[p].turn, h, i), Keeps(p),
           p = active.task => pc \in Running,
           pc \notin {"grace", "clear", "collect", "place", "unused"}
    PROVE  Sound'
<1>1. ActiveSound({p})
  BY ActiveStays
<1>2. w[p].turn \in Nat /\ w[p].turn <= Len(turns) /\ Len(turns) \in Nat /\ Len(turns') \in Nat
  BY WorkerFields DEF Sound, TypeOK, TurnsGrow
<1>3. p = active'.task => w'[p].pc \in Running /\ ~w'[p].cancelled
  BY SoundFacts DEF Row, Keeps
<1>4. w'[p].turn <= Len(turns')
  BY <1>2 DEF Row, TurnsGrow
<1>5. w'[p].pc \notin {"grace", "clear", "collect", "place", "unused"}
  BY DEF Row
<1>6. RowSound(p)
  BY <1>3, <1>4, <1>5 DEF RowSound
<1> QED
  BY <1>1, <1>6, StepSound DEF Row

(* What a worker may take from the active turn and the mailbox.             *)
LEMMA PendingItems ==
    ASSUME Sound
    PROVE  /\ Pending \subseteq Items /\ active.turn \in Nat
           /\ active.turn # 0 => active.turn \in 1 .. Len(turns)
<1>1. active.turn \in Nat /\ active.turn <= Len(turns) /\ Len(turns) \in Nat
  BY DEF Sound, TypeOK
<1>2. active.turn # 0 => turns[active.turn] \in TurnState
  BY <1>1 DEF Sound, TypeOK
<1> QED
  BY <1>1, <1>2 DEF Pending, TurnState

LEMMA TakesPending ==
    ASSUME Sound, NEW p \in Workers, NEW x \in Steps, GetPendingInput(p, x)
    PROVE  /\ TurnsGrow /\ Len(turns') = Len(turns) /\ mailbox' \subseteq Items
           /\ Row(p, x, w[p].turn, IF Accepts THEN Pending \cup mailbox ELSE {}, w[p].input)
           /\ Keeps(p)
           /\ \A n \in 1 .. Len(turns) :
              turns'[n].pending = IF n = active.turn /\ Accepts THEN {} ELSE turns[n].pending
<1> DEFINE h == IF Accepts THEN Pending \cup mailbox ELSE {}
<1>1. h \in SUBSET Items /\ mailbox' \subseteq Items
  BY PendingItems DEF Sound, TypeOK, GetPendingInput
<1>2. w' = [w EXCEPT ![p].pc = x, ![p].hand = h] /\ w \in [Workers -> Worker]
  BY DEF GetPendingInput, Sound, TypeOK
<1>3. Row(p, x, w[p].turn, h, w[p].input) /\ Keeps(p)
  <2> HIDE DEF h
  <2> QED
    BY <1>1, <1>2, HandRow
<1>4. /\ TurnsGrow /\ Len(turns') = Len(turns)
      /\ \A n \in 1 .. Len(turns) :
         turns'[n].pending = IF n = active.turn /\ Accepts THEN {} ELSE turns[n].pending
  <2>1. CASE active.turn # 0 /\ Accepts
    <3>1. active.turn \in 1 .. Len(turns) /\ turns' = [turns EXCEPT ![active.turn].pending = {}]
      BY <2>1, PendingItems DEF GetPendingInput
    <3>2. /\ turns' \in Seq(TurnState) /\ Len(turns') = Len(turns) /\ Len(turns) \in Nat
          /\ turns'[active.turn].pending = {}
          /\ \A m \in 1 .. Len(turns) : m # active.turn => turns'[m] = turns[m]
      <4>1. {} \in SUBSET Items
        OBVIOUS
      <4> QED
        BY <3>1, <4>1, SoundFacts, TurnWritten, Zenon
    <3>3. ASSUME NEW n \in 1 .. Len(turns)
          PROVE  turns'[n].pending = IF n = active.turn /\ Accepts THEN {} ELSE turns[n].pending
      BY <2>1, <3>2
    <3>4. TurnsGrow
      BY <3>2 DEF TurnsGrow
    <3> QED
      BY <3>2, <3>3, <3>4
  <2>2. CASE ~(active.turn # 0 /\ Accepts)
    BY <2>2, Ids DEF GetPendingInput, Sound, TypeOK, TurnsGrow
  <2> QED
    BY <2>1, <2>2
<1> QED
  BY <1>1, <1>3, <1>4

LEMMA GatherSound ==
    ASSUME Sound, NEW p \in Workers, Gather(p)
    PROVE  Sound'
<1>1. GetPendingInput(p, "claim") /\ "claim" \in Steps /\ UNCHANGED active
  BY DEF Gather, Steps
<1>2. p # active.task
  BY SoundFacts, Ids DEF Gather, Running
<1>3. Ledger'
  BY <1>1, TakesPending DEF Gather, Ledger, Sound, TypeOK
<1> QED
  BY <1>1, <1>2, <1>3, TakesPending, PlainStep

LEMMA DrainSound ==
    ASSUME Sound, NEW t \in Tasks, Drain(t)
    PROVE  Sound'
<1>1. GetPendingInput(t, "record") /\ "record" \in Steps \cap Running /\ UNCHANGED active
  BY DEF Drain, Steps, Running
<1>2. /\ t \in Workers /\ mailbox' \subseteq Items /\ TurnsGrow /\ Keeps(t)
      /\ \E h : Row(t, "record", w[t].turn, h, w[t].input)
  BY <1>1, TakesPending, Ids
<1>3. Ledger'
  BY <1>2 DEF Drain, Ledger, Sound, TypeOK
<1> QED
  BY <1>1, <1>2, <1>3, PlainStep

LEMMA PlaceSound ==
    ASSUME Sound, NEW p \in Workers, Place(p)
    PROVE  /\ Sound'
           /\ Row(p, "install", w[p].turn, {}, w[p].input) /\ Keeps(p)
           /\ w[p].turn \in 1 .. Len(turns)
           /\ turns'[w[p].turn].pending = turns[w[p].turn].pending \cup w[p].hand
           /\ \A m \in 1 .. Len(turns) : m # w[p].turn => turns'[m] = turns[m]
<1>1. /\ w[p] \in Worker /\ w[p].turn \in 1 .. Len(turns) /\ turns \in Seq(TurnState)
      /\ w[p].hand \subseteq Items
  BY WorkerFields DEF Place, Sound, TypeOK, TurnsSound
<1>2. turns[w[p].turn].pending \cup w[p].hand \in SUBSET Items
  BY <1>1, SoundFacts
<1>3. /\ TurnsGrow
      /\ turns'[w[p].turn].pending = turns[w[p].turn].pending \cup w[p].hand
      /\ \A m \in 1 .. Len(turns) : m # w[p].turn => turns'[m] = turns[m]
  <2> PICK n \in 1 .. Len(turns), S \in SUBSET Items :
          n = w[p].turn /\ S = turns[w[p].turn].pending \cup w[p].hand
    BY <1>1, <1>2
  <2>1. Writes(n, S)
    BY DEF Place, Writes
  <2>2. /\ turns' \in Seq(TurnState) /\ Len(turns') = Len(turns) /\ Len(turns) \in Nat
        /\ turns'[n].pending = S
        /\ \A m \in 1 .. Len(turns) : m # n => turns'[m] = turns[m]
    <3>1. turns \in Seq(TurnState) /\ Len(turns) \in Nat
      BY SoundFacts
    <3> QED
      BY <2>1, <3>1, TurnWrites
  <2> QED
    BY <2>2 DEF TurnsGrow
<1>4. Row(p, "install", w[p].turn, {}, w[p].input) /\ Keeps(p) /\ "install" \in Steps
  <2>1. "install" \in Steps /\ {} \in SUBSET Items
    BY DEF Steps
  <2>2. w' = [w EXCEPT ![p].pc = "install", ![p].hand = {}]
    BY DEF Place
  <2> QED
    BY <2>1, <2>2, HandRow, SoundFacts
<1>5. UNCHANGED active /\ p # active.task
  BY SoundFacts, Ids DEF Place, Running
<1>6. Ledger'
  BY DEF Place, Ledger, Sound, TypeOK
<1>a. Sound'
  BY <1>3, <1>4, <1>5, <1>6, PlainStep
<1> QED
  BY <1>a, <1>1, <1>3, <1>4

(* A turn state that is written by the worker that closes the turn.         *)
LEMMA Cleared ==
    ASSUME Sound, NEW p \in Workers, w[p].pc \in {"clear", "collect"},
           turns' = [turns EXCEPT ![w[p].turn].pending = {}]
    PROVE  /\ TurnsGrow /\ w[p].turn \in 1 .. Len(turns)
           /\ turns[w[p].turn].pending \subseteq Items
           /\ Len(turns') = Len(turns) /\ turns'[w[p].turn].pending = {}
           /\ \A m \in 1 .. Len(turns) : m # w[p].turn => turns'[m] = turns[m]
<1>1. w[p] \in Worker /\ w[p].turn \in 1 .. Len(turns) /\ turns \in Seq(TurnState)
  BY WorkerFields DEF Sound, TypeOK, TurnsSound
<1>2. turns[w[p].turn].pending \subseteq Items
  BY <1>1, SoundFacts
<1>3. /\ turns' \in Seq(TurnState) /\ Len(turns') = Len(turns) /\ Len(turns) \in Nat
      /\ turns'[w[p].turn].pending = {}
      /\ \A m \in 1 .. Len(turns) : m # w[p].turn => turns'[m] = turns[m]
  <2>1. {} \in SUBSET Items
    OBVIOUS
  <2> QED
    BY <1>1, <2>1, SoundFacts, TurnWritten, Zenon
<1> QED
  BY <1>1, <1>2, <1>3 DEF TurnsGrow

LEMMA ClearPendingSound ==
    ASSUME Sound, NEW p \in Workers, ClearPending(p)
    PROVE  Sound'
<1> DEFINE x == IF w[p].why = "start" THEN "gather" ELSE "wake"
<1>1. x \in Steps /\ Go(p, x) /\ x \notin {"grace", "clear", "collect", "place", "unused"}
  BY DEF ClearPending, Steps
<1>2. Row(p, x, w[p].turn, w[p].hand, w[p].input) /\ Keeps(p)
  <2> HIDE DEF x
  <2> QED
    BY <1>1, GoRow DEF Sound, TypeOK
<1>3. UNCHANGED active /\ p # active.task
  BY SoundFacts, Ids DEF ClearPending, Running
<1>4. TurnsGrow /\ Ledger'
  BY Cleared DEF ClearPending, Ledger, Sound, TypeOK
<1> HIDE DEF x
<1> QED
  BY <1>1, <1>2, <1>3, <1>4, PlainStep

LEMMA CollectSound ==
    ASSUME Sound, NEW t \in Tasks, Collect(t)
    PROVE  Sound'
<1>1. t \in Workers /\ "event" \in Steps /\ Go(t, "event")
  BY Ids DEF Collect, Steps
<1>2. Row(t, "event", w[t].turn, w[t].hand, w[t].input) /\ Keeps(t)
  BY <1>1, GoRow DEF Sound, TypeOK
<1>3. UNCHANGED active /\ t # active.task
  BY SoundFacts, Ids DEF Collect, Running
<1>4. TurnsGrow /\ Ledger'
  BY <1>1, Cleared DEF Collect, Ledger, Sound, TypeOK
<1> QED
  BY <1>1, <1>2, <1>3, <1>4, PlainStep

(* The steps of a task.                                                     *)
LEMMA BeginSound ==
    ASSUME Sound, NEW t \in Tasks, Begin(t)
    PROVE  /\ Sound'
           /\ \E x \in {"ended", "sample", "drain"} : Row(t, x, w[t].turn, w[t].hand, {}) /\ Keeps(t)
<1> DEFINE x == CASE w[t].kind = "compact" -> "ended"
                  [] w[t].input # {} -> "sample"
                  [] OTHER -> "drain"
<1>1. t \in Workers /\ x \in Steps \cap Running
      /\ x \notin {"grace", "clear", "collect", "place", "unused"}
  BY Ids DEF Steps, Running
<1>2. w' = [w EXCEPT ![t].input = {}, ![t].pc = x]
  BY DEF Begin
<1>b. x \in {"ended", "sample", "drain"}
  OBVIOUS
<1> HIDE DEF x
<1>3. Row(t, x, w[t].turn, w[t].hand, {}) /\ Keeps(t)
  BY <1>1, <1>2, SoundFacts, InputRow
<1>4. Ledger'
  BY <1>1, SoundFacts DEF Begin, Ledger, Sound, TypeOK
<1>5. TurnsGrow /\ UNCHANGED active
  BY TurnsStay DEF Begin
<1>a. Sound'
  BY <1>1, <1>3, <1>4, <1>5, PlainStep
<1> QED
  BY <1>a, <1>b, <1>3

LEMMA PreSamplingFailsSound ==
    ASSUME Sound, NEW t \in Tasks, PreSamplingFails(t)
    PROVE  /\ Sound'
           /\ Row(t, "last", w[t].turn, w[t].hand, {}) /\ Keeps(t)
<1>1. t \in Workers /\ "last" \in Steps \cap Running
  BY Ids DEF Steps, Running
<1>2. w' = [w EXCEPT ![t].input = {}, ![t].pc = "last"]
  BY DEF PreSamplingFails
<1>3. Row(t, "last", w[t].turn, w[t].hand, {}) /\ Keeps(t)
  BY <1>1, <1>2, SoundFacts, InputRow
<1>4. Ledger'
  BY <1>1, SoundFacts, SessionAssumption DEF PreSamplingFails, Ledger, Sound, TypeOK
<1>5. TurnsGrow /\ UNCHANGED active
  BY TurnsStay DEF PreSamplingFails
<1>a. Sound'
  BY <1>1, <1>3, <1>4, <1>5, PlainStep
<1> QED
  BY <1>a, <1>3

LEMMA RecordInputsSound ==
    ASSUME Sound, NEW t \in Tasks, RecordInputs(t)
    PROVE  /\ Sound'
           /\ Row(t, "sample", w[t].turn, {}, w[t].input) /\ Keeps(t)
<1>1. t \in Workers /\ "sample" \in Steps \cap Running /\ {} \in SUBSET Items
  BY Ids DEF Steps, Running
<1>2. w' = [w EXCEPT ![t].hand = {}, ![t].pc = "sample"]
  BY DEF RecordInputs
<1>3. Row(t, "sample", w[t].turn, {}, w[t].input) /\ Keeps(t)
  BY <1>1, <1>2, SoundFacts, HandRow
<1>4. Ledger'
  BY <1>1, SoundFacts DEF RecordInputs, Ledger, Sound, TypeOK
<1>5. TurnsGrow /\ UNCHANGED active
  BY TurnsStay DEF RecordInputs
<1>a. Sound'
  BY <1>1, <1>3, <1>4, <1>5, PlainStep
<1> QED
  BY <1>a, <1>3

LEMMA SampleToolCallSound ==
    ASSUME Sound, NEW t \in Tasks, SampleToolCall(t)
    PROVE  /\ Sound'
           /\ Row(t, "check", w[t].turn, w[t].hand, w[t].input) /\ Keeps(t)
           /\ \A n \in 1 .. Len(turns) : turns'[n].pending = turns[n].pending
<1>1. t \in Workers /\ "check" \in Steps \cap Running /\ TRUE \in BOOLEAN
  BY Ids DEF Steps, Running
<1>2. w' = [w EXCEPT ![t].pc = "check", ![t].calls = @ + 1, ![t].follow = TRUE]
  BY DEF SampleToolCall
<1>3. Row(t, "check", w[t].turn, w[t].hand, w[t].input) /\ Keeps(t)
  BY <1>1, <1>2, SoundFacts, CallRow, Zenon
<1>4. Ledger'
  BY DEF SampleToolCall, Ledger, Sound, TypeOK
<1>5. /\ TurnsGrow /\ UNCHANGED active
      /\ \A n \in 1 .. Len(turns) : turns'[n].pending = turns[n].pending
  <2>1. turns' = [n \in 1 .. Len(turns) |->
                    IF n \in OwnTurn(t) THEN [turns[n] EXCEPT !.next = FALSE] ELSE turns[n]]
    BY DEF SampleToolCall
  <2>2. /\ turns' \in Seq(TurnState) /\ Len(turns') = Len(turns)
        /\ \A n \in 1 .. Len(turns) : turns'[n].pending = turns[n].pending
    <3>1. FALSE \in BOOLEAN
      OBVIOUS
    <3> QED
      BY <2>1, <3>1, SoundFacts, TurnsMarked, Zenon
  <2> QED
    BY <2>2, SoundFacts DEF TurnsGrow, SampleToolCall
<1>a. Sound'
  BY <1>1, <1>3, <1>4, <1>5, PlainStep
<1> QED
  BY <1>a, <1>3, <1>5

LEMMA SampleAnswerSound ==
    ASSUME Sound, NEW t \in Tasks, SampleAnswer(t)
    PROVE  /\ Sound'
           /\ Row(t, "check", w[t].turn, w[t].hand, w[t].input) /\ Keeps(t)
           /\ \A n \in 1 .. Len(turns) : turns'[n].pending = turns[n].pending
<1>1. t \in Workers /\ "check" \in Steps \cap Running /\ FALSE \in BOOLEAN
  BY Ids DEF Steps, Running
<1>2. w' = [w EXCEPT ![t].pc = "check", ![t].follow = FALSE]
  BY DEF SampleAnswer
<1>3. Row(t, "check", w[t].turn, w[t].hand, w[t].input) /\ Keeps(t)
  BY <1>1, <1>2, SoundFacts, CallRow, Zenon
<1>4. Ledger'
  BY DEF SampleAnswer, Ledger, Sound, TypeOK
<1>5. /\ TurnsGrow /\ UNCHANGED active
      /\ \A n \in 1 .. Len(turns) : turns'[n].pending = turns[n].pending
  <2> DEFINE F == {n \in OwnTurn(t) : DefersMailbox(n)}
  <2>1. turns' = [n \in 1 .. Len(turns) |->
                    IF n \in F THEN [turns[n] EXCEPT !.next = TRUE] ELSE turns[n]]
    BY DEF SampleAnswer
  <2>2. /\ turns' \in Seq(TurnState) /\ Len(turns') = Len(turns)
        /\ \A n \in 1 .. Len(turns) : turns'[n].pending = turns[n].pending
    <3> HIDE DEF F
    <3>1. TRUE \in BOOLEAN
      OBVIOUS
    <3> QED
      BY <2>1, <3>1, SoundFacts, TurnsMarked, Zenon
  <2> QED
    BY <2>2, SoundFacts DEF TurnsGrow, SampleAnswer
<1>a. Sound'
  BY <1>1, <1>3, <1>4, <1>5, PlainStep
<1> QED
  BY <1>a, <1>3, <1>5

(* Steps that move a task on and touch neither the turns nor its input.     *)
LEMMA TaskGoes ==
    ASSUME Sound, NEW t \in Tasks, NEW x \in Steps, Go(t, x), UNCHANGED <<active, turns>>, Ledger',
           t = active.task => x \in Running,
           x \notin {"grace", "clear", "collect", "place", "unused"}
    PROVE  Sound'
BY Ids, SoundFacts, GoRow, TurnsStay, PlainStep

LEMMA SampleFailsSound ==
    ASSUME Sound, NEW t \in Tasks, SampleFails(t)
    PROVE  Sound'
<1>1. {"last", "ended"} \subseteq Steps \cap Running
  BY DEF Steps, Running
<1>2. Ledger'
  BY SessionAssumption DEF SampleFails, Ledger, Sound, TypeOK
<1>3. Go(t, "last") \/ Go(t, "ended")
  BY DEF SampleFails
<1>4. UNCHANGED <<active, turns>>
  BY DEF SampleFails
<1> QED
  BY <1>1, <1>2, <1>3, <1>4, TaskGoes

LEMMA CheckSound ==
    ASSUME Sound, NEW t \in Tasks, Check(t)
    PROVE  Sound'
<1>1. {"drain", "begin", "last", "ended"} \subseteq Steps \cap Running
  BY DEF Steps, Running
<1>2. Ledger'
  BY DEF Check, Ledger, Sound, TypeOK
<1>3. PICK x \in {"drain", "begin", "last", "ended"} : Go(t, x)
  BY DEF Check
<1>4. UNCHANGED <<active, turns>>
  BY DEF Check
<1> QED
  BY <1>1, <1>2, <1>3, <1>4, TaskGoes

LEMMA EndedSound ==
    ASSUME Sound, NEW t \in Tasks, Ended(t)
    PROVE  Sound'
<1> DEFINE x == IF w[t].cancelled THEN "over" ELSE "finish"
<1>1. x \in Steps /\ x \notin {"grace", "clear", "collect", "place", "unused"}
      /\ (t = active.task => x \in Running)
  BY Ids, SoundFacts DEF Steps, Running
<1>2. Ledger'
  BY DEF Ended, Ledger, Sound, TypeOK
<1>3. Go(t, x) /\ UNCHANGED <<active, turns>>
  BY DEF Ended
<1> HIDE DEF x
<1> QED
  BY <1>1, <1>2, <1>3, TaskGoes

LEMMA SendTerminalEventSound ==
    ASSUME Sound, NEW t \in Tasks, SendTerminalEvent(t)
    PROVE  Sound'
<1>1. "release" \in Steps /\ t # active.task
  BY Ids, SoundFacts DEF Steps, Running, SendTerminalEvent
<1>2. Ledger'
  BY DEF SendTerminalEvent, Ledger, Sound, TypeOK
<1>3. Go(t, "release") /\ UNCHANGED <<active, turns>>
  BY DEF SendTerminalEvent
<1> QED
  BY <1>1, <1>2, <1>3, TaskGoes

(* The steps that change the active turn.                                   *)
LEMMA FinishTaskSound ==
    ASSUME Sound, NEW t \in Tasks, FinishTask(t)
    PROVE  /\ Sound'
           /\ Row(t, IF active.task # 0 THEN "collect" ELSE "over", active.turn, w[t].hand, w[t].input)
           /\ Keeps(t)
<1> DEFINE x == IF active.task # 0 THEN "collect" ELSE "over"
<1>1. t \in Workers /\ x \in Steps /\ active.turn \in Nat
  BY Ids, SoundFacts DEF Steps
<1>2. w' = [w EXCEPT ![t].pc = x, ![t].turn = active.turn]
  BY DEF FinishTask
<1>3. Row(t, x, active.turn, w[t].hand, w[t].input) /\ Keeps(t)
  <2> HIDE DEF x
  <2> QED
    BY <1>1, <1>2, SoundFacts, TurnRow
<1>4. TurnsGrow /\ Len(turns') = Len(turns)
  BY TurnsStay DEF FinishTask
<1>5. /\ active' \in [turn : Nat, task : {0} \cup Tasks]
      /\ active'.turn = active.turn /\ active'.task = 0
  BY DEF FinishTask, Sound, TypeOK
<1>6. ActiveSound({t})
  BY <1>4, <1>5, SoundFacts DEF ActiveSound
<1>7. active.task # 0 => active.turn # 0
  BY DEF Sound, TypeOK
<1>8. RowSound(t)
  BY <1>1, <1>3, <1>4, <1>5, <1>7, SoundFacts, Ids DEF RowSound, Row
<1>9. Ledger'
  BY DEF FinishTask, Ledger, Sound, TypeOK
<1>a. Sound'
  BY <1>1, <1>3, <1>4, <1>6, <1>8, <1>9, StepSound DEF Row
<1> QED
  BY <1>a, <1>3

LEMMA ClearActiveTurnSound ==
    ASSUME Sound, NEW t \in Tasks, ClearActiveTurn(t)
    PROVE  Sound'
<1>1. t \in Workers /\ {"wake", "over"} \subseteq Steps /\ t # active.task
  BY Ids, SoundFacts DEF Steps, ClearActiveTurn, Running
<1>2. TurnsGrow /\ Ledger'
  BY TurnsStay DEF ClearActiveTurn, Ledger, Sound, TypeOK
<1>3. PICK x \in {"wake", "over"} : Go(t, x)
  BY DEF ClearActiveTurn
<1>4. Row(t, x, w[t].turn, w[t].hand, w[t].input)
  BY <1>1, <1>3, SoundFacts, GoRow
<1>5. ActiveSound({t})
  BY <1>2, ActiveStays, ActiveGone DEF ClearActiveTurn
<1>6. t # active'.task
  BY <1>1, Ids DEF ClearActiveTurn, NoActive
<1>7. w'[t].turn <= Len(turns')
  BY <1>1, <1>4, SoundFacts DEF Row, ClearActiveTurn
<1>8. RowSound(t)
  BY <1>4, <1>6, <1>7 DEF RowSound, Row
<1> QED
  BY <1>1, <1>2, <1>4, <1>5, <1>8, StepSound DEF Row

(* A worker reserves a turn of its own.                                     *)
LEMMA ReserveSound ==
    ASSUME Sound, NEW p \in Workers, NEW x \in Steps, NEW h \in SUBSET Items, Reserve(p, x, h),
           x \notin {"grace", "unused"}, Ledger'
    PROVE  Sound'
<1> DEFINE n == Len(turns) + 1
           r == Reserved(x, n, h)
<1>1. n \in Nat /\ n # 0 /\ w' = [w EXCEPT ![p] = r]
  BY SoundFacts DEF Reserve, Reserved
<1>2. r \in Worker /\ r.pc = x /\ r.turn = n
  <2> HIDE DEF n
  <2> QED
    BY <1>1, FreshTurn
<1>3. Others({p}) /\ w'[p].pc = x /\ w'[p].turn = n
  <2> HIDE DEF r, n
  <2>1. Row(p, r.pc, r.turn, r.hand, r.input)
    BY <1>1, <1>2, SoundFacts, FreshRow
  <2> QED
    BY <1>2, <2>1 DEF Row
<1>4. TurnsGrow /\ Len(turns') = n
  BY SoundFacts, TurnAppended DEF Reserve, TurnsGrow
<1>5. /\ active' \in [turn : Nat, task : {0} \cup Tasks]
      /\ active'.turn = n /\ active'.task = 0
  BY <1>1 DEF Reserve
<1>6. ActiveSound({p})
  BY <1>1, <1>4, <1>5 DEF ActiveSound
<1>7. RowSound(p)
  BY <1>1, <1>3, <1>4, <1>5, Ids DEF RowSound
<1> QED
  BY <1>3, <1>4, <1>6, <1>7, StepSound

LEMMA MaybeStartTurnSound ==
    ASSUME Sound, NEW p \in Workers, MaybeStartTurn(p)
    PROVE  Sound'
<1>1. Ledger' /\ {"gather", "over", "idle"} \subseteq Steps
  BY DEF MaybeStartTurn, Ledger, Sound, TypeOK, Steps
<1>2. CASE Reserve(p, "gather", {})
  BY <1>1, <1>2, ReserveSound
<1>3. CASE Go(p, Rest(p)) /\ UNCHANGED <<active, turns>>
  <2>1. Rest(p) \in {"over", "idle"} /\ p # active.task
    BY SoundFacts, Ids DEF MaybeStartTurn, Rest, Running
  <2>2. Row(p, Rest(p), w[p].turn, w[p].hand, w[p].input) /\ Keeps(p) /\ TurnsGrow
    BY <1>1, <1>3, <2>1, GoRow, TurnsStay, SoundFacts
  <2> QED
    BY <1>1, <1>3, <2>1, <2>2, PlainStep
<1> QED
  BY <1>2, <1>3 DEF MaybeStartTurn

LEMMA ClaimSound ==
    ASSUME Sound, NEW p \in Workers, Claim(p)
    PROVE  /\ Sound'
           /\ Row(p, "place", active'.turn, w[p].hand, w[p].input) /\ Keeps(p)
<1>1. /\ TurnsGrow /\ active' \in [turn : Nat, task : {0} \cup Tasks]
      /\ active'.turn \in 1 .. Len(turns') /\ active'.task = active.task
  <2>1. CASE active.turn # 0
    BY <2>1, TurnsStay, SoundFacts DEF Claim, GetOrInsert, Sound, TypeOK
  <2>2. CASE active.turn = 0
    <3>1. active' = [turn |-> Len(turns) + 1, task |-> 0] /\ turns' = Append(turns, NewTurn)
      BY <2>2 DEF Claim, GetOrInsert
    <3>2. TurnsGrow /\ Len(turns') = Len(turns) + 1
      BY <3>1, SoundFacts, TurnAppended DEF TurnsGrow
    <3>3. active.task = 0
      BY <2>2 DEF Sound, TypeOK
    <3> QED
      BY <3>1, <3>2, <3>3, SoundFacts
  <2> QED
    BY <2>1, <2>2
<1>2. ActiveSound({p})
  BY <1>1 DEF ActiveSound
<1>3. Row(p, "place", active'.turn, w[p].hand, w[p].input) /\ Keeps(p)
  <2>1. w' = [w EXCEPT ![p].pc = "place", ![p].turn = active'.turn] /\ "place" \in Steps
    BY DEF Claim, Steps
  <2>2. active'.turn \in Nat
    BY <1>1
  <2> QED
    BY <2>1, <2>2, SoundFacts, TurnRow
<1>4. p # active'.task
  BY <1>1, SoundFacts, Ids DEF Claim, Running
<1>5. RowSound(p)
  BY <1>1, <1>3, <1>4 DEF RowSound, Row
<1>6. Ledger'
  BY DEF Claim, Ledger, Sound, TypeOK
<1>a. Sound'
  BY <1>1, <1>2, <1>3, <1>5, <1>6, StepSound DEF Row
<1> QED
  BY <1>a, <1>3

LEMMA InstallSound ==
    ASSUME Sound, NEW p \in Workers, Install(p)
    PROVE  Sound'
<1>1. PICK t \in Tasks :
          /\ w[t].pc = "unused"
          /\ \/ active.turn # 0 /\ active' = [active EXCEPT !.task = t] /\ UNCHANGED turns
             \/ /\ active.turn = 0 /\ active' = [turn |-> Len(turns) + 1, task |-> t]
                /\ turns' = Append(turns, NewTurn)
          /\ w' = [x \in Workers |->
                     CASE x = t -> [Resting EXCEPT !.pc = "begin", !.input = w[p].input,
                                                   !.kind = w[p].kind]
                       [] x = p -> [Resting EXCEPT !.pc = Rest(p)]
                       [] x = active.task /\ x # 0 -> [Resting EXCEPT !.pc = "killed"]
                       [] OTHER -> w[x]]
  BY DEF Install
<1> DEFINE S == {t, p} \cup {q \in Workers : q = active.task}
           b == Spawned(w[p].input, w[p].kind)
           r == [Resting EXCEPT !.pc = Rest(p)]
           k == [Resting EXCEPT !.pc = "killed"]
<1>2. /\ t \in Workers /\ t # p /\ S \subseteq Workers /\ w[p].pc = "install"
      /\ active.task \notin {t, p}
  <2>1. t \in Workers /\ w[p].pc = "install" /\ w[t].pc = "unused" /\ t # p
    BY <1>1, Ids DEF Install
  <2>2. \A q \in Workers : q = active.task => w[q].pc \in Running
    BY SoundFacts
  <2>3. active.task \notin {t, p}
    BY <2>1, <2>2 DEF Running
  <2> QED
    BY <2>1, <2>3
<1>3. b \in Worker /\ b.pc = "begin" /\ b.turn = 0 /\ ~b.cancelled
  <2>1. w[p].input \in SUBSET Items /\ w[p].kind \in {"regular", "compact"}
    BY SoundFacts, WorkerFields
  <2> QED
    BY <2>1, FreshTask
<1>4. /\ r \in Worker /\ r.pc \in {"over", "idle"} /\ r.turn = 0
      /\ k \in Worker /\ k.pc = "killed" /\ k.turn = 0
  <2>1. Rest(p) \in {"over", "idle"} /\ "over" \in Steps /\ "idle" \in Steps /\ "killed" \in Steps
    BY DEF Rest, Steps
  <2>2. Rest(p) \in Steps
    BY <2>1
  <2>3. r \in Worker /\ r.pc = Rest(p) /\ r.turn = 0
    BY <2>2, FreshStep, Zenon
  <2>4. k \in Worker /\ k.pc = "killed" /\ k.turn = 0
    BY <2>1, FreshStep, Zenon
  <2> QED
    BY <2>1, <2>3, <2>4
<1> HIDE DEF b, r, k
<1>5. w' = [x \in Workers |-> CASE x = t -> b [] x = p -> r
                                [] x = active.task /\ x # 0 -> k [] OTHER -> w[x]]
  BY <1>1 DEF b, r, k, Spawned
<1>6. /\ w'[t] = b /\ w'[p] = r
      /\ \A q \in Workers \ {t, p} : w'[q] = IF q = active.task THEN k ELSE w[q]
  <2>1. w'[t] = b
    BY <1>2, <1>5
  <2>2. w'[p] = r
    BY <1>2, <1>5
  <2>3. ASSUME NEW q \in Workers, q \notin {t, p}
        PROVE  w'[q] = IF q = active.task THEN k ELSE w[q]
    BY <1>5, <2>3, Ids
  <2> QED
    BY <2>1, <2>2, <2>3
<1>7. Others(S)
  <2>1. w' \in [Workers -> Worker]
    BY <1>3, <1>4, <1>5, SoundFacts
  <2> QED
    BY <1>6, <2>1 DEF Others
<1>8. /\ TurnsGrow /\ active' \in [turn : Nat, task : {0} \cup Tasks]
      /\ active'.turn \in 1 .. Len(turns') /\ active'.task = t
  <2>1. CASE active.turn # 0
    <3>1. UNCHANGED turns /\ active' = [active EXCEPT !.task = t] /\ active.turn \in 1 .. Len(turns)
      BY <1>1, <2>1, SoundFacts
    <3>2. active \in [turn : Nat, task : {0} \cup Tasks]
      BY DEF Sound, TypeOK
    <3> QED
      BY <3>1, <3>2, TurnsStay
  <2>2. CASE active.turn = 0
    <3>1. TurnsGrow /\ Len(turns') = Len(turns) + 1
      BY <1>1, <2>2, SoundFacts, TurnAppended DEF TurnsGrow
    <3> QED
      BY <1>1, <2>2, <3>1, SoundFacts
  <2> QED
    BY <2>1, <2>2
<1>9. ActiveSound(S)
  BY <1>1, <1>2, <1>8 DEF ActiveSound
<1>10. ASSUME NEW q \in S PROVE RowSound(q)
  <2>1. Len(turns') \in Nat
    BY <1>8 DEF TurnsGrow
  <2>2. CASE q = t
    <3>1. w'[q].pc = "begin" /\ w'[q].turn = 0 /\ ~w'[q].cancelled
      BY <1>3, <1>6, <2>2
    <3> QED
      BY <2>1, <3>1 DEF RowSound, Running
  <2>3. CASE q = p
    BY <1>2, <1>4, <1>6, <1>8, <2>1, <2>3 DEF RowSound
  <2>4. CASE q \notin {t, p}
    BY <1>2, <1>4, <1>6, <1>8, <2>1, <2>4, Ids DEF RowSound
  <2> QED
    BY <2>2, <2>3, <2>4
<1>11. Ledger'
  BY DEF Install, Ledger, Sound, TypeOK
<1> HIDE DEF S
<1> QED
  BY <1>2, <1>7, <1>8, <1>9, <1>10, <1>11, StepSound

(* Aborting.                                                                *)
LEMMA TakeActiveSound ==
    ASSUME Sound, NEW p \in Workers, NEW y \in {"start", "stop"}, TakeActive(p, y),
           w[p].pc \in {"take", "idle"}, UNCHANGED turns, Ledger'
    PROVE  Sound'
<1>1. TurnsGrow /\ Len(turns') = Len(turns)
  BY TurnsStay
<1>2. active' = NoActive /\ active'.task = 0 /\ p # active.task
  BY SoundFacts DEF TakeActive, NoActive, Running
<1>3. CASE active.task # 0
  <2> PICK t \in Tasks, n \in Nat : t = active.task /\ n = active.turn
    BY <1>3, SoundFacts
  <2>1. t \in Workers /\ p # t /\ n # 0 /\ n <= Len(turns) /\ w[t].pc \in Running
    BY <1>2, <1>3, SoundFacts, Ids DEF Sound, TypeOK
  <2>2. Cancels(p, t, n, y)
    BY <1>3 DEF TakeActive, Cancels
  <2>3. /\ Others({p, t}) /\ w'[p].pc = "grace" /\ w'[p].turn = n /\ w'[p].victim = t
        /\ w'[t].pc = w[t].pc /\ w'[t].turn = w[t].turn
    <3>1. w \in [Workers -> Worker] /\ t \in Tasks /\ n \in Nat /\ p # t
      BY <2>1, SoundFacts
    <3>2. WaitsFor(p, t, n, y)
      BY <2>2, <3>1, CancelRow, Zenon
    <3> QED
      BY <3>2 DEF WaitsFor
  <2>4. ActiveSound({p, t})
    BY <1>1, <1>2, ActiveGone
  <2>5. RowSound(p)
    BY <1>1, <1>2, <2>1, <2>3, SoundFacts, Ids DEF RowSound, Running
  <2>6. RowSound(t)
    BY <1>1, <1>2, <2>1, <2>3, SoundFacts, Ids DEF RowSound, Running
  <2> QED
    BY <1>1, <2>1, <2>3, <2>4, <2>5, <2>6, StepSound
<1>4. CASE active.task = 0
  <2>1. PICK x \in {"gather", "over", "idle"} : Go(p, x)
    BY <1>4 DEF TakeActive, Rest
  <2>2. x \in Steps
    BY DEF Steps
  <2>3. Row(p, x, w[p].turn, w[p].hand, w[p].input)
    BY <2>1, <2>2, SoundFacts, GoRow
  <2>4. RowSound(p)
    BY <1>1, <1>2, <2>3, SoundFacts, Ids DEF RowSound, Row
  <2>5. ActiveSound({p})
    BY <1>1, <1>2, ActiveGone
  <2> QED
    BY <1>1, <2>3, <2>4, <2>5, StepSound DEF Row
<1> QED
  BY <1>3, <1>4

LEMMA AbortAllTasksSound ==
    ASSUME Sound, NEW p \in Workers, AbortAllTasks(p)
    PROVE  Sound'
<1>1. TakeActive(p, w[p].why) /\ w[p].pc = "take" /\ UNCHANGED turns
  BY DEF AbortAllTasks
<1>2. w[p].why \in {"start", "stop"}
  BY SoundFacts, WorkerFields
<1>3. Ledger'
  BY DEF AbortAllTasks, Ledger, Sound, TypeOK
<1> QED
  BY <1>1, <1>2, <1>3, TakeActiveSound

LEMMA GraceSound ==
    ASSUME Sound, NEW p \in Workers, Grace(p)
    PROVE  Sound'
<1> PICK t \in Tasks : t = w[p].victim
  BY SoundFacts, WorkerFields, Ids DEF Grace, Sound, TurnsSound
<1> DEFINE x == IF w[t].pc = "over" THEN "over" ELSE "killed"
           y == [Resting EXCEPT !.pc = x, !.cancelled = TRUE]
<1>1. /\ t \in Tasks /\ t \in Workers /\ t # active.task /\ w[p].turn # 0 /\ p # active.task
      /\ w[p].pc = "grace"
  BY SoundFacts, WorkerFields, Ids DEF Grace, Sound, TurnsSound, Running
<1>2. y \in Worker /\ y.pc = x /\ y.turn = 0
  <2>1. x \in Steps /\ TRUE \in BOOLEAN
    BY DEF Steps
  <2> HIDE DEF x
  <2> QED
    BY <2>1, FreshCancelled, Zenon
<1>3. Buries(p, t, y)
  BY DEF Grace, Buries
<1>4. x \in {"over", "killed"}
  OBVIOUS
<1> HIDE DEF x, y
<1> PICK r \in Worker : r = y
  BY <1>2
<1>5. /\ Others({p, t}) /\ w'[t] = r
      /\ p # t => w'[p].pc = "clear" /\ w'[p].turn = w[p].turn
  <2>1. w \in [Workers -> Worker] /\ Buries(p, t, r)
    BY <1>3, SoundFacts DEF Buries
  <2>2. Buried(p, t, r)
    BY <2>1, GraceRow, Zenon
  <2> QED
    BY <2>2 DEF Buried
<1>6. TurnsGrow /\ Len(turns') = Len(turns) /\ Len(turns) \in Nat /\ UNCHANGED active
  BY TurnsStay DEF Grace
<1>7. ActiveSound({p, t})
  BY <1>6, ActiveStays
<1>8. RowSound(t)
  BY <1>1, <1>2, <1>4, <1>5, <1>6 DEF RowSound
<1>9. p # t => RowSound(p)
  BY <1>1, <1>5, <1>6, SoundFacts DEF RowSound
<1>10. Ledger'
  <2>1. dropped' \subseteq Items
    BY <1>1, SoundFacts DEF Grace, Sound, TypeOK
  <2>2. ends' \in [Tasks -> Nat]
    BY <1>1 DEF Grace, Sound, TypeOK
  <2> QED
    BY <2>1, <2>2 DEF Grace, Ledger, Sound, TypeOK
<1> QED
  BY <1>1, <1>5, <1>6, <1>7, <1>8, <1>9, <1>10, StepSound

(* The submission loop and the extensions.                                  *)
LEMMA StartsClean ==
    ASSUME Sound, NEW c \in Callers, w[c].pc = "idle", NEW r \in Worker, w' = [w EXCEPT ![c] = r],
           r.pc = "take", r.turn = 0, UNCHANGED <<active, turns>>, Ledger'
    PROVE  Sound'
<1>1. c \in Workers /\ c # active.task
  BY SoundFacts, Ids DEF Running
<1>2. TurnsGrow /\ ActiveSound({c}) /\ Len(turns') \in Nat
  BY TurnsStay, ActiveStays
<1>3. Others({c}) /\ w'[c] = r
  BY <1>1, SoundFacts, FreshRow DEF Row
<1>4. RowSound(c)
  BY <1>1, <1>2, <1>3 DEF RowSound
<1> QED
  BY <1>1, <1>2, <1>3, <1>4, StepSound

LEMMA TurnsOnly ==
    ASSUME Sound, TurnsGrow, UNCHANGED <<active, w>>, Ledger'
    PROVE  Sound'
<1>1. Others({}) /\ ActiveSound({})
  BY ActiveStays, SoundFacts DEF Others
<1>2. \A p \in {} : RowSound(p)
  OBVIOUS
<1> QED
  BY <1>1, <1>2, StepSound

LEMMA DeliversToActive ==
    ASSUME Sound, active.turn # 0, NEW i \in Items, Deliver(active.turn, i)
    PROVE  TurnsGrow
<1>1. active.turn \in 1 .. Len(turns)
  BY PendingItems
<1>2. turns' \in Seq(TurnState) /\ Len(turns') = Len(turns)
  BY <1>1, SoundFacts, TurnDelivered
<1> QED
  BY <1>2, SoundFacts DEF TurnsGrow

LEMMA UserInputSound ==
    ASSUME Sound, UserInput
    PROVE  Sound'
<1> DEFINE i == Item(Loop)
<1>1. /\ i \in Items /\ at' \in [Callers -> 1 .. MaxOps + 1] /\ w[Loop].pc = "idle"
      /\ Loop \in Callers
  BY OpTaken, Ids DEF UserInput, Sound
<1>2. Ledger'
  BY <1>1 DEF UserInput, Ledger, Sound, TypeOK
<1>3. CASE active.task # 0 /\ Deliver(active.turn, i) /\ UNCHANGED w
  <2>1. active.turn # 0 /\ UNCHANGED active
    BY <1>3 DEF UserInput, Sound, TypeOK
  <2> QED
    BY <1>1, <1>2, <1>3, <2>1, DeliversToActive, TurnsOnly
<1>4. CASE UNCHANGED <<turns, w>>
  BY <1>2, <1>4, TurnsStay, TurnsOnly DEF UserInput
<1>5. CASE /\ w' = [w EXCEPT ![Loop] = [Resting EXCEPT !.pc = "take", !.input = {i}]]
           /\ UNCHANGED turns
  <2> DEFINE r == [Resting EXCEPT !.pc = "take", !.input = {i}]
  <2>1. r \in Worker /\ r.pc = "take" /\ r.turn = 0
    <3>1. "take" \in Steps /\ {i} \in SUBSET Items
      BY <1>1 DEF Steps
    <3> QED
      BY <3>1, RestingFields DEF Resting, Worker
  <2>2. w' = [w EXCEPT ![Loop] = r] /\ UNCHANGED <<active, turns>>
    BY <1>5 DEF UserInput
  <2> HIDE DEF r
  <2> QED
    BY <1>1, <1>2, <2>1, <2>2, StartsClean
<1> QED
  BY <1>3, <1>4, <1>5 DEF UserInput

LEMMA CompactSound ==
    ASSUME Sound, Compact
    PROVE  Sound'
<1> DEFINE r == [Resting EXCEPT !.pc = "take", !.kind = "compact"]
<1>1. /\ at' \in [Callers -> 1 .. MaxOps + 1] /\ w[Loop].pc = "idle" /\ Loop \in Callers
  BY OpTaken, Ids DEF Compact, Sound
<1>2. Ledger'
  BY <1>1 DEF Compact, Ledger, Sound, TypeOK
<1>3. r \in Worker /\ r.pc = "take" /\ r.turn = 0
  <2>1. "take" \in Steps /\ "compact" \in {"regular", "compact"}
    BY DEF Steps
  <2> QED
    BY <2>1, RestingFields DEF Resting, Worker
<1>4. w' = [w EXCEPT ![Loop] = r] /\ UNCHANGED <<active, turns>>
  BY DEF Compact
<1> HIDE DEF r
<1> QED
  BY <1>1, <1>2, <1>3, <1>4, StartsClean

LEMMA InterruptSound ==
    ASSUME Sound, Interrupt
    PROVE  Sound'
<1> DEFINE r == [Resting EXCEPT !.pc = "take", !.why = "stop"]
<1>1. /\ at' \in [Callers -> 1 .. MaxOps + 1] /\ w[Loop].pc = "idle" /\ Loop \in Callers
  BY OpTaken, Ids DEF Interrupt, Sound
<1>2. Ledger'
  BY <1>1 DEF Interrupt, Ledger, Sound, TypeOK
<1>3. r \in Worker /\ r.pc = "take" /\ r.turn = 0
  <2>1. "take" \in Steps /\ "stop" \in {"start", "stop"}
    BY DEF Steps
  <2> QED
    BY <2>1, RestingFields DEF Resting, Worker
<1>4. w' = [w EXCEPT ![Loop] = r] /\ UNCHANGED <<active, turns>>
  BY DEF Interrupt
<1> HIDE DEF r
<1> QED
  BY <1>1, <1>2, <1>3, <1>4, StartsClean

LEMMA InterAgentSound ==
    ASSUME Sound, InterAgentCommunication
    PROVE  Sound'
<1>1. PICK op \in {"mail", "trigger"} :
          NextOp(Loop, op) /\ Go(Loop, IF op = "trigger" THEN "wake" ELSE "idle")
  BY DEF InterAgentCommunication, Go
<1>2. /\ at' \in [Callers -> 1 .. MaxOps + 1] /\ w[Loop].pc = "idle" /\ Loop \in Workers
      /\ Item(Loop) \in Items
  BY <1>1, OpTaken, Ids DEF Sound
<1>3. Ledger' /\ UNCHANGED <<active, turns>>
  BY <1>2 DEF InterAgentCommunication, Ledger, Sound, TypeOK
<1>4. PICK x \in {"wake", "idle"} : Go(Loop, x)
  BY <1>1
<1>5. x \in Steps /\ Loop # active.task /\ x \notin {"grace", "clear", "collect", "place", "unused"}
  BY <1>2, SoundFacts DEF Steps, Running
<1>6. Row(Loop, x, w[Loop].turn, w[Loop].hand, w[Loop].input) /\ Keeps(Loop) /\ TurnsGrow
  BY <1>2, <1>3, <1>4, <1>5, GoRow, TurnsStay, SoundFacts
<1> QED
  BY <1>2, <1>3, <1>5, <1>6, PlainStep

LEMMA TryStartSound ==
    ASSUME Sound, TryStartTurnIfIdle
    PROVE  Sound'
<1>1. /\ at' \in [Callers -> 1 .. MaxOps + 1] /\ Ext \in Workers /\ Item(Ext) \in Items
  BY OpTaken, Ids DEF TryStartTurnIfIdle, Sound
<1>2. Ledger'
  BY <1>1 DEF TryStartTurnIfIdle, Ledger, Sound, TypeOK
<1>3. CASE Reserve(Ext, "recheck", {Item(Ext)})
  <2>1. "recheck" \in Steps /\ {Item(Ext)} \in SUBSET Items
    BY <1>1 DEF Steps
  <2>2. PICK h \in SUBSET Items : Reserve(Ext, "recheck", h)
    BY <1>3, <2>1
  <2> QED
    BY <1>1, <1>2, <2>1, <2>2, ReserveSound
<1>4. CASE UNCHANGED <<active, turns, w>>
  BY <1>2, <1>4, TurnsStay, TurnsOnly
<1> QED
  BY <1>3, <1>4 DEF TryStartTurnIfIdle

LEMMA RecheckSound ==
    ASSUME Sound, Recheck
    PROVE  Sound'
<1>1. Ext \in Workers /\ Ext # active.task /\ w[Ext].pc = "recheck" /\ {"wake", "offer"} \subseteq Steps
  BY Ids, SoundFacts DEF Recheck, Running, Steps
<1>2. Ledger' /\ TurnsGrow
  BY <1>1, SoundFacts, TurnsStay DEF Recheck, Ledger, Sound, TypeOK
<1>3. ActiveSound({Ext}) /\ active'.task \in {0, active.task}
  BY <1>2, ActiveStays, ActiveGone DEF Recheck, NoActive
<1>4. PICK x \in {"wake", "offer"}, h \in SUBSET Items : Row(Ext, x, w[Ext].turn, h, w[Ext].input)
  <2>1. CASE w' = [w EXCEPT ![Ext].pc = "wake", ![Ext].hand = {}]
    <3>1. {} \in SUBSET Items /\ "wake" \in Steps
      BY <1>1
    <3>2. Row(Ext, "wake", w[Ext].turn, {}, w[Ext].input)
      BY <1>1, <2>1, <3>1, HandRow, SoundFacts, Zenon
    <3> QED
      BY <3>1, <3>2
  <2>2. CASE Go(Ext, "offer")
    BY <1>1, <2>2, GoRow, SoundFacts
  <2> QED
    BY <2>1, <2>2 DEF Recheck
<1>5. w'[Ext].turn <= Len(turns')
  BY <1>1, <1>4, SoundFacts DEF Row, Recheck
<1>6. RowSound(Ext)
  BY <1>1, <1>3, <1>4, <1>5, Ids DEF RowSound, Row
<1> QED
  BY <1>1, <1>2, <1>3, <1>4, <1>6, StepSound DEF Row

LEMMA OfferSound ==
    ASSUME Sound, Offer
    PROVE  Sound'
<1>1. Ext \in Workers /\ Ext # active.task /\ w[Ext].pc = "offer" /\ {"gather", "idle"} \subseteq Steps
  BY Ids, SoundFacts DEF Offer, Running, Steps
<1>2. Ledger' /\ UNCHANGED active
  BY <1>1, SoundFacts DEF Offer, Ledger, Sound, TypeOK
<1>3. PICK x \in {"gather", "idle"} : /\ w' = [w EXCEPT ![Ext].pc = x, ![Ext].hand = {}]
                                      /\ StillReserved(Ext) => x = "gather"
  BY DEF Offer
<1>4. Row(Ext, x, w[Ext].turn, {}, w[Ext].input) /\ Keeps(Ext)
  <2>1. {} \in SUBSET Items /\ x \in Steps
    BY <1>1
  <2> QED
    BY <1>1, <1>3, <2>1, HandRow, SoundFacts
<1>5. TurnsGrow
  <2>1. CASE UNCHANGED turns
    BY <2>1, TurnsStay
  <2>2. CASE turns' = [turns EXCEPT ![w[Ext].turn].pending = @ \cup w[Ext].hand]
    <3>1. CASE w[Ext].turn = 0
      <4>1. turns \in [1 .. Len(turns) -> TurnState] /\ 0 \notin 1 .. Len(turns)
        BY SoundFacts
      <4>2. turns' = [n \in 1 .. Len(turns) |-> turns[n]]
        BY <2>2, <3>1, <4>1
      <4> QED
        BY <4>1, <4>2, TurnsStay
    <3>2. CASE w[Ext].turn # 0
      <4>1. PICK n \in 1 .. Len(turns) : n = w[Ext].turn
        BY <1>1, <3>2, SoundFacts
      <4>2. PICK S \in SUBSET Items : S = turns[n].pending \cup w[Ext].hand
        BY <1>1, SoundFacts
      <4>3. turns' = [turns EXCEPT ![n].pending = S]
        BY <2>2, <4>1, <4>2
      <4>4. turns' \in Seq(TurnState) /\ Len(turns') = Len(turns)
        BY <4>3, SoundFacts, TurnWritten, Zenon
      <4> QED
        BY <4>4, SoundFacts DEF TurnsGrow
    <3> QED
      BY <3>1, <3>2
  <2> QED
    BY <2>1, <2>2 DEF Offer
<1> QED
  BY <1>1, <1>2, <1>4, <1>5, PlainStep

LEMMA InjectSound ==
    ASSUME Sound, InjectNoNewTurn
    PROVE  Sound'
<1>1. /\ at' \in [Callers -> 1 .. MaxOps + 1] /\ Item(Ext) \in Items
  BY OpTaken, Ids DEF InjectNoNewTurn, Sound
<1>2. Ledger' /\ UNCHANGED <<active, w>>
  BY <1>1 DEF InjectNoNewTurn, Ledger, Sound, TypeOK
<1>3. PICK i \in Items : i = Item(Ext)
  BY <1>1
<1>4. CASE active.turn # 0 /\ Deliver(active.turn, Item(Ext))
  <2>1. TurnsGrow
    BY <1>1, <1>4, DeliversToActive DEF Deliver
  <2> QED
    BY <1>2, <2>1, TurnsOnly
<1>5. CASE UNCHANGED turns
  BY <1>2, <1>5, TurnsStay, TurnsOnly
<1> QED
  BY <1>4, <1>5 DEF InjectNoNewTurn

LEMMA AbortTurnSound ==
    ASSUME Sound, AbortTurnIfActive
    PROVE  Sound'
<1>1. at' \in [Callers -> 1 .. MaxOps + 1] /\ w[Ext].pc = "idle" /\ Ext \in Workers
  BY OpTaken, Ids DEF AbortTurnIfActive, Sound
<1>2. Ledger' /\ UNCHANGED turns
  BY <1>1 DEF AbortTurnIfActive, Ledger, Sound, TypeOK
<1>3. CASE TakeActive(Ext, "stop")
  BY <1>1, <1>2, <1>3, TakeActiveSound
<1>4. CASE UNCHANGED <<active, w>>
  BY <1>2, <1>4, TurnsStay, TurnsOnly
<1> QED
  BY <1>3, <1>4 DEF AbortTurnIfActive

LEMMA InitSound == Init => Sound
<1> SUFFICES ASSUME Init PROVE Sound
  OBVIOUS
<1> USE DEF Init
<1>1. \A p \in Workers : /\ w[p] \in Worker /\ w[p].turn = 0 /\ w[p].pc \in {"unused", "idle"}
  <2> TAKE p \in Workers
  <2> DEFINE x == IF p \in Tasks THEN "unused" ELSE "idle"
  <2>1. w[p] = [Resting EXCEPT !.pc = x] /\ x \in Steps /\ x \in {"unused", "idle"}
    BY DEF Steps
  <2> HIDE DEF x
  <2> QED
    BY <2>1, RestingFields DEF Resting, Worker
<1>2. w \in [Workers -> Worker]
  BY <1>1
<1>3. active.turn = 0 /\ active.task = 0 /\ active \in [turn : Nat, task : {0} \cup Tasks]
  BY DEF NoActive
<1>4. turns \in Seq(TurnState) /\ Len(turns) = 0
  OBVIOUS
<1>5. TurnsSound
  BY <1>1, <1>3 DEF TurnsSound
<1>6. at \in [Callers -> 1 .. MaxOps + 1] /\ faults \in 0 .. MaxFaults /\ ends \in [Tasks -> Nat]
  BY SessionAssumption
<1>7. TypeOK
  BY <1>1, <1>2, <1>3, <1>4, <1>6 DEF TypeOK
<1> QED
  BY <1>5, <1>7 DEF Sound

LEMMA NextSound == Sound /\ [Next]_vars => Sound'
<1> SUFFICES ASSUME Sound, [Next]_vars PROVE Sound'
  OBVIOUS
<1>1. CASE Submit
  BY <1>1, UserInputSound, CompactSound, InterruptSound, InterAgentSound DEF Submit
<1>2. CASE ExtCalls
  BY <1>2, TryStartSound, InjectSound, AbortTurnSound DEF ExtCalls
<1>3. ASSUME NEW p \in Workers, Switches(p) PROVE Sound'
  BY <1>3, MaybeStartTurnSound, GatherSound, ClaimSound, PlaceSound, InstallSound,
     AbortAllTasksSound, GraceSound, ClearPendingSound DEF Switches
<1>4. ASSUME NEW t \in Tasks, Runs(t) PROVE Sound'
  BY <1>4, BeginSound, PreSamplingFailsSound, DrainSound, RecordInputsSound, SampleToolCallSound,
     SampleAnswerSound, SampleFailsSound, CheckSound, EndedSound, FinishTaskSound, CollectSound,
     SendTerminalEventSound, ClearActiveTurnSound DEF Runs
<1>5. CASE UNCHANGED vars
  BY <1>5 DEF Sound, TypeOK, TurnsSound, vars
<1> QED
  BY <1>1, <1>2, <1>3, <1>4, <1>5, RecheckSound, OfferSound DEF Next, Work

(* Whatever the clients, the other agents and the extensions submit, and    *)
(* however their operations meet the tasks: the active turn is one that was *)
(* allocated, its task is running, and turn states that workers still write *)
(* to exist.                                                                *)
THEOREM SessionTypes == Spec => []TypeOK
<1>1. Spec => []Sound
  BY InitSound, NextSound, PTL DEF Spec
<1>2. Sound => TypeOK
  BY DEF Sound
<1> QED
  BY <1>1, <1>2, PTL

-----------------------------------------------------------------------------
(* A session that its client alone drives.                                  *)

(* Where an item that was submitted may be.                                 *)
InHands(i) == \E p \in Workers : i \in w[p].hand \/ i \in w[p].input
InClosing(i) ==
    \E p \in Workers : w[p].pc \in {"grace", "clear", "collect"} /\ i \in turns[w[p].turn].pending
Somewhere(i) ==
    i \in recorded \/ i \in dropped \/ i \in mailbox \/ i \in Pending \/ InHands(i) \/ InClosing(i)
Submitted(i) == i[2] < at[i[1]] /\ Op(i) \in {"user", "mail", "trigger", "idle"}

LEMMA KeptMeans == InputKept <=> \A i \in Items : Submitted(i) => Somewhere(i)
BY DEF InputKept, Submitted, Somewhere, InHands, InClosing

LEMMA KeptMeansNext == InputKept' <=> \A i \in Items : Submitted(i)' => Somewhere(i)'
BY DEF InputKept, Submitted, Somewhere, InHands, InClosing

(* A step that submits nothing and takes no input away but what was         *)
(* injected.                                                                *)
LEMMA KeptStep ==
    ASSUME InputKept, UNCHANGED <<script, at>>,
           \A i \in Items : Somewhere(i) => Somewhere(i)' \/ Op(i) = "inject"
    PROVE  InputKept'
<1> SUFFICES ASSUME NEW i \in Items, Submitted(i)' PROVE Somewhere(i)'
  BY KeptMeansNext
<1>1. Op(i)' = Op(i)
  BY DEF Op, Script
<1>2. Submitted(i) /\ Op(i) # "inject"
  BY <1>1 DEF Submitted
<1> QED
  BY <1>2, KeptMeans

(* What the rows that do not change hold stays.                             *)
LEMMA HandsKept ==
    ASSUME NEW S, Others(S), NEW i, InHands(i)
    PROVE  \/ InHands(i)'
           \/ \E p \in S : p \in Workers /\ (i \in w[p].hand \/ i \in w[p].input)
<1> PICK p \in Workers : i \in w[p].hand \/ i \in w[p].input
  BY DEF InHands
<1>1. CASE p \in S
  BY <1>1
<1>2. CASE p \notin S
  BY <1>2 DEF Others, InHands
<1> QED
  BY <1>1, <1>2

LEMMA ClosingKept ==
    ASSUME NEW S, Others(S), NEW i, InClosing(i), Sound
    PROVE  \/ InClosing(i)'
           \/ \E p \in S : /\ p \in Workers /\ w[p].pc \in {"grace", "clear", "collect"}
                           /\ i \in turns[w[p].turn].pending
           \/ \E n \in 1 .. Len(turns) : i \in turns[n].pending /\ i \notin turns'[n].pending
<1> PICK p \in Workers : /\ w[p].pc \in {"grace", "clear", "collect"}
                         /\ i \in turns[w[p].turn].pending
  BY DEF InClosing
<1>1. CASE p \in S
  BY <1>1
<1>2. CASE p \notin S
  <2>1. w'[p] = w[p] /\ w[p].turn \in 1 .. Len(turns)
    BY <1>2, SoundFacts DEF Others, Sound, TurnsSound
  <2>2. CASE i \in turns'[w[p].turn].pending
    BY <2>1, <2>2 DEF InClosing
  <2>3. CASE i \notin turns'[w[p].turn].pending
    BY <2>1, <2>3
  <2> QED
    BY <2>2, <2>3
<1> QED
  BY <1>1, <1>2

(* No mail asks for a turn, and the operations are the client's.            *)
LEMMA ClientFacts ==
    ASSUME OnlyClient, ClientInv
    PROVE  /\ Sound /\ ~HasTrigger
           /\ \A op : NextOp(Loop, op) => op \in {"user", "compact", "interrupt", "mail"}
           /\ \A op : NextOp(Ext, op) => op = "inject"
           /\ w[Ext] = Resting /\ w[Ext].pc = "idle"
<1>1. Sound
  BY DEF ClientInv, Sound
<1>2. ~HasTrigger
  BY DEF ClientInv, LoopStarts, HasTrigger
<1>3. at[Loop] \in 1 .. MaxOps + 1 /\ at[Ext] \in 1 .. MaxOps + 1 /\ script \in Scripts /\ MaxOps \in Nat
  BY <1>1, Ids, SessionAssumption DEF Sound, TypeOK
<1>4. ASSUME NEW op, NextOp(Loop, op) PROVE op \in {"user", "compact", "interrupt", "mail"}
  <2>1. at[Loop] <= Len(script.loop) /\ op = script.loop[at[Loop]] /\ Len(script.loop) \in 0 .. MaxOps
    BY <1>3, <1>4, SessionAssumption DEF NextOp, Op, Script
  <2>2. at[Loop] \in 1 .. Len(script.loop)
    BY <1>3, <2>1
  <2> QED
    BY <1>3, <2>1, <2>2 DEF OnlyClient
<1>5. ASSUME NEW op, NextOp(Ext, op) PROVE op = "inject"
  <2>1. at[Ext] <= Len(script.ext) /\ op = script.ext[at[Ext]] /\ Len(script.ext) \in 0 .. MaxOps
    BY <1>3, <1>5, Ids, SessionAssumption DEF NextOp, Op, Script
  <2>2. at[Ext] \in 1 .. Len(script.ext)
    BY <1>3, <2>1
  <2> QED
    BY <1>3, <2>1, <2>2 DEF OnlyClient
<1>6. w[Ext] = Resting /\ w[Ext].pc = "idle"
  BY RestingFields DEF ClientInv, LoopStarts
<1> QED
  BY <1>1, <1>2, <1>4, <1>5, <1>6

(* What a task may do next, and how it may leave the active turn.           *)
TaskMoves(t) ==
    /\ Others({t}) /\ w'[t].cancelled = w[t].cancelled /\ UNCHANGED <<script, at>>
    /\ mailbox' \subseteq mailbox
    /\ w'[t].pc \in Running \cup {"over", "collect", "event", "release", "wake"}
    /\ w[t].pc \in Running \cup {"collect", "event", "release", "wake"}
    /\ w'[t].pc # "record" => w'[t].hand = {}
LeavesActive(t) ==
    /\ active = NoActive => active' = NoActive
    /\ w[Loop].pc \in {"place", "install"} => active'.task = 0 /\ active'.turn = active.turn
    /\ active'.task = active.task \/ (active'.task = 0 /\ active.task \in {0, t})
    /\ w'[t].pc \in Running => w[t].pc \in Running /\ active'.task = active.task
    /\ w[t].pc \in Running \cup {"over"} => w'[t].pc \in Running \cup {"over"} \/ active.task = t
Counts(t) ==
    /\ w'[t].pc \in {"collect", "event"} => w[t].pc \in Running \cup {"collect"}
    /\ \/ UNCHANGED ends
       \/ ends' = [ends EXCEPT ![t] = @ + 1] /\ w[t].pc = "event" /\ w'[t].pc = "release"

LEMMA TaskMovesKeep ==
    ASSUME ClientInv, NEW t \in Tasks, TaskMoves(t), LeavesActive(t), Counts(t)
    PROVE  LoopStarts' /\ TasksOwned' /\ HandsFree'
<1>1. /\ w'[Loop] = w[Loop] /\ w'[Ext] = w[Ext] /\ t \in Workers
      /\ \A u \in Tasks : u # t => w'[u] = w[u]
  BY Ids DEF TaskMoves, Others
<1>2. /\ TypeOK /\ LoopStarts /\ TasksOwned /\ HandsFree /\ TurnsSound
  BY DEF ClientInv
<1>3. LoopStarts'
  <2>1. \A i \in mailbox' : Op(i)' = "mail"
    BY <1>2 DEF LoopStarts, TaskMoves, Op, Script
  <2>2. \A u \in Tasks : w'[u].pc \in Running \cup {"unused", "over", "killed", "collect", "event",
                                                    "release", "wake"}
    <3> TAKE u \in Tasks
    <3>1. CASE u = t
      BY <3>1 DEF TaskMoves
    <3>2. CASE u # t
      BY <1>1, <1>2, <3>2 DEF LoopStarts
    <3> QED
      BY <3>1, <3>2
  <2>3. w[Loop].pc \in {"grace", "clear", "gather", "claim"} => active' = NoActive
    BY <1>2 DEF LoopStarts, LeavesActive
  <2>4. w[Loop].pc \in {"place", "install"} => active'.task = 0 /\ active'.turn = w[Loop].turn
    BY <1>2 DEF LoopStarts, LeavesActive
  <2>5. w[Ext] = Resting /\ w[Loop].pc \in {"idle", "take", "grace", "clear", "gather", "claim",
                                             "place", "install", "wake"}
    BY <1>2 DEF LoopStarts
  <2> QED
    BY <1>1, <2>1, <2>2, <2>3, <2>4, <2>5 DEF LoopStarts, Resting
<1>4. ends \in [Tasks -> Nat]
  BY <1>2 DEF TypeOK
<1>5. \A u \in Tasks : u # t => ends'[u] = ends[u]
  BY <1>4 DEF Counts
<1>6. ASSUME NEW u \in Tasks, w'[u].pc \in Running
      PROVE  \/ active'.task = u
             \/ w'[u].cancelled /\ w'[Loop].pc = "grace" /\ w'[Loop].victim = u
  <2>1. w[u].pc \in Running /\ w'[u].cancelled = w[u].cancelled
    BY <1>1, <1>6 DEF TaskMoves, LeavesActive
  <2>2. CASE active.task = u
    BY <1>6, <2>2, Ids DEF LeavesActive
  <2>3. CASE w[u].cancelled /\ w[Loop].pc = "grace" /\ w[Loop].victim = u
    BY <1>1, <2>1, <2>3
  <2> QED
    BY <1>2, <2>1, <2>2, <2>3 DEF TasksOwned
<1>7. ASSUME NEW u \in Tasks
      PROVE  /\ w'[u].pc \in Running \cup {"unused", "collect", "event"} => ends'[u] = 0
             /\ ends'[u] <= 1
  <2>1. CASE u # t
    BY <1>1, <1>2, <1>5, <2>1 DEF TasksOwned
  <2>2. CASE u = t
    <3>1. CASE UNCHANGED ends
      <4>1. w'[t].pc \in Running \cup {"unused", "collect", "event"} =>
                w[t].pc \in Running \cup {"collect"}
        BY DEF Counts, LeavesActive, TaskMoves, Running
      <4> QED
        BY <1>2, <2>2, <3>1, <4>1 DEF TasksOwned
    <3>2. CASE ends' = [ends EXCEPT ![t] = @ + 1] /\ w[t].pc = "event" /\ w'[t].pc = "release"
      <4>1. ends[t] = 0 /\ ends'[t] = 1
        BY <1>2, <1>4, <3>2 DEF TasksOwned
      <4> QED
        BY <2>2, <3>2, <4>1 DEF Running
    <3> QED
      BY <3>1, <3>2 DEF Counts
  <2> QED
    BY <2>1, <2>2
<1>8. ASSUME w[Loop].pc = "grace"
      PROVE  w'[w[Loop].victim].pc \in Running \cup {"over"} /\ ends'[w[Loop].victim] = 0
  <2> DEFINE v == w[Loop].victim
  <2>1. w[v].pc \in Running \cup {"over"} /\ ends[v] = 0 /\ v \in Tasks /\ active.task # v
    BY <1>2, <1>8, WorkerFields, Ids DEF TasksOwned, TypeOK, TurnsSound
  <2>2. CASE v # t
    BY <1>1, <1>5, <2>1, <2>2
  <2>3. CASE v = t
    BY <2>1, <2>3 DEF LeavesActive, Counts, Running
  <2> QED
    BY <2>2, <2>3
<1>9. TasksOwned'
  BY <1>1, <1>6, <1>7, <1>8 DEF TasksOwned
<1>10. HandsFree'
  <2>1. \A p \in Workers : w'[p].pc \notin {"claim", "place", "record"} => w'[p].hand = {}
    BY <1>2 DEF HandsFree, TaskMoves, Others
  <2>2. \A u \in Tasks : w'[u].pc = "unused" => w'[u].input = {}
    BY <1>1, <1>2 DEF HandsFree, TaskMoves, Running
  <2> QED
    BY <1>1, <1>2, <2>1, <2>2 DEF HandsFree
<1> QED
  BY <1>3, <1>9, <1>10

(* While the turns that are being closed, the active turn and the loop stay *)
(* as they are, and pending input only shrinks.                             *)
LEMMA ApartStays ==
    ASSUME ClientInv, Sound', UNCHANGED active, script' = script, w'[Loop].pc = w[Loop].pc,
           \A t \in Tasks : /\ w'[t].pc \in Closing <=> w[t].pc \in Closing
                            /\ w'[t].pc \in Closing => /\ w'[t].turn = w[t].turn
                                                       /\ w'[t].pc = w[t].pc,
           Pending' \subseteq Pending
    PROVE  TurnsApart'
<1>1. TurnsApart
  BY DEF ClientInv
<1>2. Injected(Pending) => Injected(Pending)'
  BY DEF Injected, Op, Script
<1>3. ASSUME NEW t \in Tasks, w'[t].pc \in Closing
      PROVE  /\ active'.task # 0 \/ w'[Loop].pc \in {"place", "install"} => w'[t].turn # active'.turn
             /\ active'.turn = w'[t].turn /\ w'[t].pc # "collect" => Injected(Pending)'
  BY <1>1, <1>2, <1>3 DEF TurnsApart
<1>4. active'.task = 0 /\ active'.turn # 0 /\ w'[Loop].pc \notin {"place", "install"} =>
          \E t \in Tasks : w'[t].pc \in Closing /\ w'[t].turn = active'.turn
  BY <1>1 DEF TurnsApart
<1> QED
  BY <1>3, <1>4 DEF TurnsApart

LEMMA RunStep ==
    ASSUME ClientInv, Sound', NEW t \in Tasks, Others({t}), Keeps(t),
           w[t].pc \in Running, w'[t].pc \in Running, w'[t].pc # "record" => w'[t].hand = {},
           UNCHANGED <<script, at, active, ends>>, mailbox' \subseteq mailbox,
           Pending' \subseteq Pending,
           \A i \in Items : Somewhere(i) => Somewhere(i)' \/ Op(i) = "inject"
    PROVE  ClientInv'
<1>1. TaskMoves(t) /\ LeavesActive(t) /\ Counts(t)
  <2>1. TaskMoves(t)
    BY DEF TaskMoves, Keeps
  <2>2. LeavesActive(t)
    BY DEF LeavesActive, ClientInv, LoopStarts
  <2>3. Counts(t)
    BY DEF Counts, Running
  <2> QED
    BY <2>1, <2>2, <2>3
<1>2. LoopStarts' /\ TasksOwned' /\ HandsFree'
  BY <1>1, TaskMovesKeep
<1>3. /\ \A u \in Tasks : /\ w'[u].pc \in Closing <=> w[u].pc \in Closing
                          /\ w'[u].pc \in Closing => w'[u].turn = w[u].turn /\ w'[u].pc = w[u].pc
      /\ w'[Loop].pc = w[Loop].pc
  BY Ids DEF Others, Running, Closing
<1>4. TurnsApart'
  BY <1>3, ApartStays
<1>5. InputKept'
  BY KeptStep DEF ClientInv
<1> QED
  BY <1>2, <1>4, <1>5 DEF ClientInv, Sound

(* The item is held by a worker whose row does not change, or by this one.  *)
LEMMA SameTurns ==
    ASSUME Sound, NEW p \in Workers, Others({p}), UNCHANGED <<active, mailbox>>, Len(turns') = Len(turns),
           \A n \in 1 .. Len(turns) : turns'[n].pending = turns[n].pending,
           w[p].pc \in {"grace", "clear", "collect"} => w'[p].pc \in {"grace", "clear", "collect"}
                                                        /\ w'[p].turn = w[p].turn,
           recorded \subseteq recorded', dropped \subseteq dropped',
           NEW i, Somewhere(i)
    PROVE  \/ Somewhere(i)'
           \/ i \in w[p].hand \/ i \in w[p].input
<1>1. Pending' = Pending
  BY PendingItems DEF Pending
<1>2. CASE i \in recorded \/ i \in dropped \/ i \in mailbox \/ i \in Pending
  BY <1>1, <1>2 DEF Somewhere
<1>3. CASE InHands(i)
  BY <1>3, HandsKept DEF Somewhere
<1>4. CASE InClosing(i)
  <2>1. CASE InClosing(i)'
    BY <2>1 DEF Somewhere
  <2>2. CASE w[p].pc \in {"grace", "clear", "collect"} /\ i \in turns[w[p].turn].pending
    <3>1. w[p].turn \in 1 .. Len(turns)
      BY <2>2, SoundFacts DEF Sound, TurnsSound
    <3> QED
      BY <2>2, <3>1 DEF Somewhere, InClosing
  <2> QED
    BY <1>4, <2>1, <2>2, ClosingKept
<1> QED
  BY <1>2, <1>3, <1>4 DEF Somewhere

LEMMA BeginClient ==
    ASSUME OnlyClient, ClientInv, NEW t \in Tasks, Begin(t)
    PROVE  ClientInv'
<1>1. Sound /\ t \in Workers
  BY ClientFacts, Ids
<1>2. PICK x \in {"ended", "sample", "drain"} : Row(t, x, w[t].turn, w[t].hand, {}) /\ Keeps(t)
  BY <1>1, BeginSound
<1>3. Sound'
  BY <1>1, BeginSound
<1>4. w[t].pc = "begin" /\ w[t].hand = {}
  BY <1>1 DEF Begin, ClientInv, HandsFree
<1>5. Others({t}) /\ w[t].pc \in Running /\ w'[t].pc \in Running /\ w'[t].hand = {}
  BY <1>2, <1>4 DEF Row, Running
<1>6. UNCHANGED <<script, at, active, ends, turns, mailbox, dropped>> /\ recorded' = recorded \cup w[t].input
  BY DEF Begin
<1>7. Pending' = Pending
  BY <1>6 DEF Pending
<1>8. ASSUME NEW i \in Items, Somewhere(i) PROVE Somewhere(i)'
  <2>1. Somewhere(i)' \/ i \in w[t].hand \/ i \in w[t].input
    BY <1>1, <1>4, <1>5, <1>6, <1>8, SameTurns
  <2> QED
    BY <1>4, <1>6, <2>1 DEF Somewhere
<1> QED
  BY <1>2, <1>3, <1>5, <1>6, <1>7, <1>8, RunStep

LEMMA PreSamplingFailsClient ==
    ASSUME OnlyClient, ClientInv, NEW t \in Tasks, PreSamplingFails(t)
    PROVE  ClientInv'
<1>1. Sound /\ t \in Workers
  BY ClientFacts, Ids
<1>2. Row(t, "last", w[t].turn, w[t].hand, {}) /\ Keeps(t) /\ Sound'
  BY <1>1, PreSamplingFailsSound
<1>3. w[t].pc = "begin" /\ w[t].hand = {}
  BY <1>1 DEF PreSamplingFails, ClientInv, HandsFree
<1>4. Others({t}) /\ w[t].pc \in Running /\ w'[t].pc \in Running /\ w'[t].hand = {}
  BY <1>2, <1>3 DEF Row, Running
<1>5. /\ UNCHANGED <<script, at, active, ends, turns, mailbox, recorded>>
      /\ dropped' = dropped \cup w[t].input
  BY DEF PreSamplingFails
<1>6. Pending' = Pending
  BY <1>5 DEF Pending
<1>7. ASSUME NEW i \in Items, Somewhere(i) PROVE Somewhere(i)'
  <2>1. Somewhere(i)' \/ i \in w[t].hand \/ i \in w[t].input
    BY <1>1, <1>3, <1>4, <1>5, <1>7, SameTurns
  <2> QED
    BY <1>3, <1>5, <2>1 DEF Somewhere
<1> QED
  BY <1>2, <1>4, <1>5, <1>6, <1>7, RunStep

LEMMA RecordInputsClient ==
    ASSUME OnlyClient, ClientInv, NEW t \in Tasks, RecordInputs(t)
    PROVE  ClientInv'
<1>1. Sound /\ t \in Workers
  BY ClientFacts, Ids
<1>2. Row(t, "sample", w[t].turn, {}, w[t].input) /\ Keeps(t) /\ Sound'
  BY <1>1, RecordInputsSound
<1>3. w[t].pc = "record"
  BY DEF RecordInputs
<1>4. /\ Others({t}) /\ w[t].pc \in Running /\ w'[t].pc \in Running /\ w'[t].hand = {}
      /\ w'[t].input = w[t].input
  BY <1>2, <1>3 DEF Row, Running
<1>5. /\ UNCHANGED <<script, at, active, ends, turns, mailbox, dropped>>
      /\ recorded' = recorded \cup w[t].hand
  BY DEF RecordInputs
<1>6. Pending' = Pending
  BY <1>5 DEF Pending
<1>7. ASSUME NEW i \in Items, Somewhere(i) PROVE Somewhere(i)'
  <2>1. Somewhere(i)' \/ i \in w[t].hand \/ i \in w[t].input
    BY <1>1, <1>3, <1>4, <1>5, <1>7, SameTurns
  <2> QED
    BY <1>1, <1>4, <1>5, <2>1 DEF Somewhere, InHands
<1> QED
  BY <1>2, <1>4, <1>5, <1>6, <1>7, RunStep

(* Steps of the model that leave what the task holds alone.                 *)
LEMMA RunOn ==
    ASSUME ClientInv, Sound, Sound', NEW t \in Tasks, NEW x \in Running,
           Row(t, x, w[t].turn, w[t].hand, w[t].input), Keeps(t), x # "record",
           w[t].pc \in Running, w[t].pc # "record",
           UNCHANGED <<script, at, active, ends, mailbox, recorded, dropped>>, Len(turns') = Len(turns),
           \A n \in 1 .. Len(turns) : turns'[n].pending = turns[n].pending
    PROVE  ClientInv'
<1>1. /\ Others({t}) /\ t \in Workers /\ w'[t].pc \in Running /\ w'[t].hand = {}
      /\ w'[t].hand = w[t].hand /\ w'[t].input = w[t].input
  BY Ids DEF Row, ClientInv, HandsFree, Running
<1>2. Pending' = Pending
  BY PendingItems DEF Pending
<1>3. ASSUME NEW i \in Items, Somewhere(i) PROVE Somewhere(i)'
  <2>1. Somewhere(i)' \/ i \in w[t].hand \/ i \in w[t].input
    BY <1>1, <1>3, SameTurns DEF Running
  <2> QED
    BY <1>1, <2>1 DEF Somewhere, InHands
<1> QED
  BY <1>1, <1>2, <1>3, RunStep

LEMMA SampleClient ==
    ASSUME OnlyClient, ClientInv, NEW t \in Tasks, SampleToolCall(t) \/ SampleAnswer(t)
    PROVE  ClientInv'
<1>1. Sound
  BY ClientFacts
<1>2. /\ Row(t, "check", w[t].turn, w[t].hand, w[t].input) /\ Keeps(t) /\ Sound'
      /\ \A n \in 1 .. Len(turns) : turns'[n].pending = turns[n].pending
  BY <1>1, SampleToolCallSound, SampleAnswerSound
<1>3. /\ w[t].pc = "sample" /\ {"check", "sample"} \subseteq Running
      /\ UNCHANGED <<script, at, active, ends, mailbox, recorded, dropped>>
  BY DEF SampleToolCall, SampleAnswer, Running
<1>4. Len(turns') = Len(turns)
  BY <1>1, SoundFacts DEF SampleToolCall, SampleAnswer
<1> QED
  BY <1>1, <1>2, <1>3, <1>4, RunOn

LEMMA GoOn ==
    ASSUME OnlyClient, ClientInv, Sound', NEW t \in Tasks, NEW x \in Running, Go(t, x), x # "record",
           w[t].pc \in Running, w[t].pc # "record",
           UNCHANGED <<script, at, active, ends, mailbox, recorded, dropped, turns>>
    PROVE  ClientInv'
<1>1. Sound /\ x \in Steps /\ t \in Workers
  BY ClientFacts, Ids DEF Running, Steps
<1>2. Row(t, x, w[t].turn, w[t].hand, w[t].input) /\ Keeps(t)
  BY <1>1, GoRow, SoundFacts
<1> QED
  BY <1>1, <1>2, RunOn

LEMMA SampleFailsClient ==
    ASSUME OnlyClient, ClientInv, NEW t \in Tasks, SampleFails(t)
    PROVE  ClientInv'
<1>1. Sound'
  BY ClientFacts, SampleFailsSound
<1>2. PICK x \in {"last", "ended"} : Go(t, x)
  BY DEF SampleFails
<1>3. /\ {"last", "ended", "sample"} \subseteq Running /\ w[t].pc = "sample"
      /\ UNCHANGED <<script, at, active, ends, mailbox, recorded, dropped, turns>>
  BY DEF SampleFails, Running
<1> QED
  BY <1>1, <1>2, <1>3, GoOn

LEMMA CheckClient ==
    ASSUME OnlyClient, ClientInv, NEW t \in Tasks, Check(t)
    PROVE  ClientInv'
<1>1. Sound'
  BY ClientFacts, CheckSound
<1>2. PICK x \in {"drain", "begin", "last", "ended"} : Go(t, x)
  BY DEF Check
<1>3. /\ {"drain", "begin", "last", "ended", "check"} \subseteq Running /\ w[t].pc \in {"check", "last"}
      /\ UNCHANGED <<script, at, active, ends, mailbox, recorded, dropped, turns>>
  BY DEF Check, Running
<1> QED
  BY <1>1, <1>2, <1>3, GoOn

LEMMA DrainClient ==
    ASSUME OnlyClient, ClientInv, NEW t \in Tasks, Drain(t)
    PROVE  ClientInv'
<1>1. Sound /\ Sound' /\ t \in Workers
  BY ClientFacts, DrainSound, Ids
<1>2. /\ w[t].pc = "drain" /\ GetPendingInput(t, "record") /\ "record" \in Steps
      /\ UNCHANGED <<script, at, active, ends, recorded, dropped>> /\ {"drain", "record"} \subseteq Running
  BY DEF Drain, Steps, Running
<1>3. /\ Len(turns') = Len(turns) /\ Keeps(t)
      /\ Row(t, "record", w[t].turn, IF Accepts THEN Pending \cup mailbox ELSE {}, w[t].input)
      /\ \A n \in 1 .. Len(turns) :
            turns'[n].pending = IF n = active.turn /\ Accepts THEN {} ELSE turns[n].pending
  BY <1>1, <1>2, TakesPending
<1>4. /\ Others({t}) /\ w'[t].pc = "record" /\ w'[t].input = w[t].input
      /\ w'[t].hand = IF Accepts THEN Pending \cup mailbox ELSE {}
  BY <1>3 DEF Row
<1>5. w[t].hand = {}
  BY <1>1, <1>2 DEF ClientInv, HandsFree
<1>6. mailbox' = IF Accepts THEN {} ELSE mailbox
  BY <1>2 DEF GetPendingInput
<1>7. Pending' = IF Accepts THEN {} ELSE Pending
  BY <1>1, <1>2, <1>3, PendingItems DEF Pending
<1>8. ASSUME NEW i \in Items, Somewhere(i) PROVE Somewhere(i)'
  <2>1. CASE i \in recorded \/ i \in dropped
    BY <1>2, <2>1 DEF Somewhere
  <2>2. CASE i \in mailbox \/ i \in Pending
    BY <1>1, <1>4, <1>6, <1>7, <2>2 DEF Somewhere, InHands
  <2>3. CASE InHands(i)
    BY <1>1, <1>4, <1>5, <2>3, HandsKept DEF Somewhere, InHands
  <2>4. CASE InClosing(i)
    <3>1. CASE InClosing(i)'
      BY <3>1 DEF Somewhere
    <3>2. ASSUME NEW n \in 1 .. Len(turns), i \in turns[n].pending, i \notin turns'[n].pending
          PROVE  Somewhere(i)'
      <4>1. n = active.turn /\ Accepts /\ active.turn # 0
        BY <1>3, <3>2
      <4>2. i \in Pending
        BY <3>2, <4>1 DEF Pending
      <4> QED
        BY <2>2, <4>2
    <3> QED
      BY <1>1, <1>2, <1>4, <2>4, <3>1, <3>2, ClosingKept
  <2> QED
    BY <1>8, <2>1, <2>2, <2>3, <2>4 DEF Somewhere
<1>9. mailbox' \subseteq mailbox /\ Pending' \subseteq Pending
  BY <1>6, <1>7
<1> QED
  BY <1>1, <1>2, <1>3, <1>4, <1>8, <1>9, RunStep

(* A task that leaves the turn, step by step.                               *)
LEMMA GoneStep ==
    ASSUME ClientInv, Sound', NEW t \in Tasks, TaskMoves(t), LeavesActive(t), Counts(t), TurnsApart',
           \A i \in Items : Somewhere(i) => Somewhere(i)' \/ Op(i) = "inject"
    PROVE  ClientInv'
<1>1. LoopStarts' /\ TasksOwned' /\ HandsFree'
  BY TaskMovesKeep
<1>2. InputKept'
  BY KeptStep DEF ClientInv, TaskMoves
<1> QED
  BY <1>1, <1>2 DEF ClientInv, Sound

LEMMA EndedClient ==
    ASSUME OnlyClient, ClientInv, NEW t \in Tasks, Ended(t)
    PROVE  ClientInv'
<1>1. Sound /\ Sound' /\ t \in Workers
  BY ClientFacts, EndedSound, Ids
<1>2. PICK x \in {"over", "finish"} : Go(t, x) /\ (x = "over" => w[t].cancelled)
  BY DEF Ended
<1>3. x \in Steps
  BY DEF Steps
<1>4. Row(t, x, w[t].turn, w[t].hand, w[t].input) /\ Keeps(t)
  BY <1>1, <1>2, <1>3, GoRow, SoundFacts
<1>5. /\ w[t].pc = "ended" /\ w[t].hand = {}
      /\ UNCHANGED <<script, at, active, turns, mailbox, recorded, dropped, ends>>
  BY <1>1 DEF Ended, ClientInv, HandsFree
<1>6. TaskMoves(t)
  BY <1>4, <1>5 DEF TaskMoves, Row, Keeps, Running
<1>7. LeavesActive(t)
  BY <1>1, <1>2, <1>4, <1>5 DEF LeavesActive, Row, Running, ClientInv, LoopStarts
<1>8. Counts(t)
  BY <1>4, <1>5 DEF Counts, Row
<1>9. TurnsApart'
  <2>1. /\ \A u \in Tasks : /\ w'[u].pc \in Closing <=> w[u].pc \in Closing
                            /\ w'[u].pc \in Closing => w'[u].turn = w[u].turn /\ w'[u].pc = w[u].pc
        /\ w'[Loop].pc = w[Loop].pc
    BY <1>4, <1>5, Ids DEF Row, Others, Closing
  <2>2. Pending' = Pending
    BY <1>5 DEF Pending
  <2> QED
    BY <1>1, <1>5, <2>1, <2>2, ApartStays
<1>10. ASSUME NEW i \in Items, Somewhere(i) PROVE Somewhere(i)'
  <2>1. Somewhere(i)' \/ i \in w[t].hand \/ i \in w[t].input
    BY <1>1, <1>4, <1>5, <1>10, SameTurns DEF Row
  <2> QED
    BY <1>1, <1>4, <2>1 DEF Somewhere, InHands, Row
<1> QED
  BY <1>1, <1>6, <1>7, <1>8, <1>9, <1>10, GoneStep

LEMMA FinishTaskClient ==
    ASSUME OnlyClient, ClientInv, NEW t \in Tasks, FinishTask(t)
    PROVE  ClientInv'
<1>1. Sound /\ Sound' /\ t \in Workers
  BY ClientFacts, FinishTaskSound, Ids
<1>2. /\ Row(t, IF active.task # 0 THEN "collect" ELSE "over", active.turn, w[t].hand, w[t].input)
      /\ Keeps(t)
  BY <1>1, FinishTaskSound
<1>3. /\ Others({t}) /\ w'[t].turn = active.turn /\ w'[t].hand = w[t].hand /\ w'[t].input = w[t].input
      /\ w'[t].pc = IF active.task # 0 THEN "collect" ELSE "over"
  BY <1>2 DEF Row
<1>4. /\ w[t].pc = "finish" /\ w[t].hand = {}
      /\ UNCHANGED <<script, at, turns, mailbox, recorded, dropped, ends>>
  BY <1>1 DEF FinishTask, ClientInv, HandsFree
<1>5. active'.turn = active.turn /\ active'.task = 0 /\ (active.task = 0 => active' = active)
  BY DEF FinishTask, ClientInv, TypeOK
<1>6. active.task \in {0, t}
  BY <1>4 DEF ClientInv, TasksOwned, LoopStarts, NoActive, Running
<1>7. TaskMoves(t)
  BY <1>2, <1>3, <1>4 DEF TaskMoves, Keeps, Running
<1>8. LeavesActive(t)
  BY <1>3, <1>4, <1>5, <1>6 DEF LeavesActive, Running, ClientInv, LoopStarts, NoActive
<1>9. Counts(t)
  BY <1>3, <1>4 DEF Counts, Running
<1>10. Pending' = Pending
  BY <1>4, <1>5 DEF Pending
<1>11. w'[Loop] = w[Loop] /\ \A u \in Tasks : u # t => w'[u] = w[u]
  BY <1>3, Ids DEF Others
<1>12. TurnsApart'
  <2>1. TurnsApart /\ LoopStarts
    BY DEF ClientInv
  <2>2. Injected(Pending) => Injected(Pending)'
    BY <1>4, <1>10 DEF Injected, Op, Script
  <2>3. ASSUME NEW u \in Tasks, w'[u].pc \in Closing
        PROVE  /\ active'.task # 0 \/ w'[Loop].pc \in {"place", "install"} =>
                     w'[u].turn # active'.turn
               /\ active'.turn = w'[u].turn /\ w'[u].pc # "collect" => Injected(Pending)'
    <3>1. CASE u = t
      BY <1>3, <1>5, <1>11, <2>1, <2>3, <3>1 DEF LoopStarts, Closing
    <3>2. CASE u # t
      BY <1>5, <1>11, <2>1, <2>2, <2>3, <3>2 DEF TurnsApart
    <3> QED
      BY <3>1, <3>2
  <2>4. ASSUME active'.task = 0, active'.turn # 0, w'[Loop].pc \notin {"place", "install"}
        PROVE  \E u \in Tasks : w'[u].pc \in Closing /\ w'[u].turn = active'.turn
    <3>1. CASE active.task # 0
      BY <1>3, <1>5, <3>1 DEF Closing
    <3>2. CASE active.task = 0
      <4>1. PICK u \in Tasks : w[u].pc \in Closing /\ w[u].turn = active.turn
        BY <1>5, <1>11, <2>1, <2>4, <3>2 DEF TurnsApart
      <4>2. u # t
        BY <1>4, <4>1 DEF Closing
      <4> QED
        BY <1>5, <1>11, <4>1, <4>2
    <3> QED
      BY <3>1, <3>2
  <2> QED
    BY <2>3, <2>4 DEF TurnsApart
<1>13. ASSUME NEW i \in Items, Somewhere(i) PROVE Somewhere(i)'
  <2>1. CASE i \in recorded \/ i \in dropped \/ i \in mailbox \/ i \in Pending
    BY <1>4, <1>10, <2>1 DEF Somewhere
  <2>2. CASE InHands(i)
    BY <1>1, <1>3, <2>2, HandsKept DEF Somewhere, InHands
  <2>3. CASE InClosing(i)
    BY <1>1, <1>3, <1>4, <2>3, ClosingKept DEF Somewhere
  <2> QED
    BY <1>13, <2>1, <2>2, <2>3 DEF Somewhere
<1> QED
  BY <1>1, <1>7, <1>8, <1>9, <1>12, <1>13, GoneStep

LEMMA CollectClient ==
    ASSUME OnlyClient, ClientInv, NEW t \in Tasks, Collect(t)
    PROVE  ClientInv'
<1>1. Sound /\ Sound' /\ t \in Workers
  BY ClientFacts, CollectSound, Ids
<1>2. /\ Go(t, "event") /\ "event" \in Steps /\ w[t].pc = "collect" /\ w[t].hand = {}
      /\ turns' = [turns EXCEPT ![w[t].turn].pending = {}]
      /\ recorded' = recorded \cup turns[w[t].turn].pending
      /\ UNCHANGED <<script, at, active, mailbox, dropped, ends>>
  BY <1>1 DEF Collect, Steps, ClientInv, HandsFree
<1>3. Row(t, "event", w[t].turn, w[t].hand, w[t].input) /\ Keeps(t)
  BY <1>1, <1>2, GoRow, SoundFacts
<1>4. /\ Others({t}) /\ w'[t].turn = w[t].turn /\ w'[t].hand = w[t].hand /\ w'[t].input = w[t].input
      /\ w'[t].pc = "event"
  BY <1>3 DEF Row
<1>5. /\ w[t].turn \in 1 .. Len(turns) /\ Len(turns') = Len(turns) /\ turns'[w[t].turn].pending = {}
      /\ \A m \in 1 .. Len(turns) : m # w[t].turn => turns'[m] = turns[m]
  BY <1>1, <1>2, Cleared
<1>6. TaskMoves(t)
  BY <1>2, <1>3, <1>4 DEF TaskMoves, Keeps
<1>7. LeavesActive(t)
  BY <1>2, <1>4 DEF LeavesActive, Running, ClientInv, LoopStarts
<1>8. Counts(t)
  BY <1>2, <1>4 DEF Counts
<1>9. /\ Pending' \subseteq Pending
      /\ active.turn = w[t].turn => Pending' = {}
  BY <1>1, <1>2, <1>5, PendingItems DEF Pending
<1>10. w'[Loop] = w[Loop] /\ \A u \in Tasks : u # t => w'[u] = w[u]
  BY <1>4, Ids DEF Others
<1>11. TurnsApart'
  <2>1. TurnsApart
    BY DEF ClientInv
  <2>2. Injected(Pending) => Injected(Pending)'
    BY <1>2, <1>9 DEF Injected, Op, Script
  <2>3. ASSUME NEW u \in Tasks, w'[u].pc \in Closing
        PROVE  /\ active'.task # 0 \/ w'[Loop].pc \in {"place", "install"} =>
                     w'[u].turn # active'.turn
               /\ active'.turn = w'[u].turn /\ w'[u].pc # "collect" => Injected(Pending)'
    <3>1. CASE u = t
      <4>1. w[t].pc \in Closing
        BY <1>2 DEF Closing
      <4>2. active'.turn = w'[t].turn => Injected(Pending)'
        BY <1>2, <1>4, <1>9 DEF Injected
      <4> QED
        BY <1>2, <1>4, <1>10, <2>1, <3>1, <4>1, <4>2 DEF TurnsApart
    <3>2. CASE u # t
      BY <1>2, <1>10, <2>1, <2>2, <2>3, <3>2 DEF TurnsApart
    <3> QED
      BY <3>1, <3>2
  <2>4. ASSUME active'.task = 0, active'.turn # 0, w'[Loop].pc \notin {"place", "install"}
        PROVE  \E u \in Tasks : w'[u].pc \in Closing /\ w'[u].turn = active'.turn
    <3>1. PICK u \in Tasks : w[u].pc \in Closing /\ w[u].turn = active.turn
      BY <1>2, <1>10, <2>1, <2>4 DEF TurnsApart
    <3> QED
      BY <1>2, <1>4, <1>10, <3>1 DEF Closing
  <2> QED
    BY <2>3, <2>4 DEF TurnsApart
<1>12. ASSUME NEW i \in Items, Somewhere(i) PROVE Somewhere(i)'
  <2>1. CASE i \in recorded \/ i \in dropped \/ i \in mailbox \/ i \in turns[w[t].turn].pending
    BY <1>2, <2>1 DEF Somewhere
  <2>2. CASE i \in Pending /\ i \notin turns[w[t].turn].pending
    <3>1. active.turn # 0 /\ i \in turns[active.turn].pending /\ active.turn # w[t].turn
      BY <2>2 DEF Pending
    <3>2. i \in Pending'
      BY <1>1, <1>2, <1>5, <3>1, PendingItems DEF Pending
    <3> QED
      BY <3>2 DEF Somewhere
  <2>3. CASE InHands(i)
    BY <1>1, <1>4, <2>3, HandsKept DEF Somewhere, InHands
  <2>4. CASE InClosing(i) /\ i \notin turns[w[t].turn].pending
    BY <1>1, <1>4, <1>5, <2>4, ClosingKept DEF Somewhere
  <2> QED
    BY <1>12, <2>1, <2>2, <2>3, <2>4 DEF Somewhere
<1> QED
  BY <1>1, <1>6, <1>7, <1>8, <1>11, <1>12, GoneStep

LEMMA SendTerminalEventClient ==
    ASSUME OnlyClient, ClientInv, NEW t \in Tasks, SendTerminalEvent(t)
    PROVE  ClientInv'
<1>1. Sound /\ Sound' /\ t \in Workers
  BY ClientFacts, SendTerminalEventSound, Ids
<1>2. /\ Go(t, "release") /\ "release" \in Steps /\ w[t].pc = "event" /\ w[t].hand = {}
      /\ ends' = [ends EXCEPT ![t] = @ + 1]
      /\ UNCHANGED <<script, at, active, turns, mailbox, recorded, dropped>>
  BY <1>1 DEF SendTerminalEvent, Steps, ClientInv, HandsFree
<1>3. Row(t, "release", w[t].turn, w[t].hand, w[t].input) /\ Keeps(t)
  BY <1>1, <1>2, GoRow, SoundFacts
<1>4. /\ Others({t}) /\ w'[t].turn = w[t].turn /\ w'[t].hand = w[t].hand /\ w'[t].input = w[t].input
      /\ w'[t].pc = "release"
  BY <1>3 DEF Row
<1>5. TaskMoves(t)
  BY <1>2, <1>3, <1>4 DEF TaskMoves, Keeps
<1>6. LeavesActive(t)
  BY <1>2, <1>4 DEF LeavesActive, Running, ClientInv, LoopStarts
<1>7. Counts(t)
  BY <1>2, <1>4 DEF Counts
<1>8. w'[Loop] = w[Loop] /\ (\A u \in Tasks : u # t => w'[u] = w[u]) /\ Pending' = Pending
  BY <1>2, <1>4, Ids DEF Others, Pending
<1>9. TurnsApart'
  <2>1. TurnsApart /\ w[t].pc \in Closing /\ w[t].pc # "collect"
    BY <1>2 DEF ClientInv, Closing
  <2>2. Injected(Pending) => Injected(Pending)'
    BY <1>2, <1>8 DEF Injected, Op, Script
  <2>3. ASSUME NEW u \in Tasks, w'[u].pc \in Closing
        PROVE  /\ active'.task # 0 \/ w'[Loop].pc \in {"place", "install"} =>
                     w'[u].turn # active'.turn
               /\ active'.turn = w'[u].turn /\ w'[u].pc # "collect" => Injected(Pending)'
    BY <1>2, <1>4, <1>8, <2>1, <2>2, <2>3 DEF TurnsApart
  <2>4. ASSUME active'.task = 0, active'.turn # 0, w'[Loop].pc \notin {"place", "install"}
        PROVE  \E u \in Tasks : w'[u].pc \in Closing /\ w'[u].turn = active'.turn
    <3>1. PICK u \in Tasks : w[u].pc \in Closing /\ w[u].turn = active.turn
      BY <1>2, <1>8, <2>1, <2>4 DEF TurnsApart
    <3> QED
      BY <1>2, <1>4, <1>8, <3>1 DEF Closing
  <2> QED
    BY <2>3, <2>4 DEF TurnsApart
<1>10. ASSUME NEW i \in Items, Somewhere(i) PROVE Somewhere(i)'
  <2>1. Somewhere(i)' \/ i \in w[t].hand \/ i \in w[t].input
    BY <1>1, <1>2, <1>4, <1>10, SameTurns
  <2> QED
    BY <1>1, <1>4, <2>1 DEF Somewhere, InHands
<1> QED
  BY <1>1, <1>5, <1>6, <1>7, <1>9, <1>10, GoneStep

LEMMA ClearActiveTurnClient ==
    ASSUME OnlyClient, ClientInv, NEW t \in Tasks, ClearActiveTurn(t)
    PROVE  ClientInv'
<1>1. Sound /\ Sound' /\ t \in Workers
  BY ClientFacts, ClearActiveTurnSound, Ids
<1>2. /\ w[t].pc = "release" /\ w[t].hand = {} /\ {"wake", "over"} \subseteq Steps
      /\ UNCHANGED <<script, at, turns, mailbox, recorded, dropped, ends>>
  BY <1>1 DEF ClearActiveTurn, Steps, ClientInv, HandsFree
<1>3. PICK x \in {"wake", "over"} :
          /\ Go(t, x)
          /\ \/ StillReserved(t) /\ active' = NoActive
             \/ ~StillReserved(t) /\ active' = active
  BY DEF ClearActiveTurn
<1>4. Row(t, x, w[t].turn, w[t].hand, w[t].input) /\ Keeps(t)
  BY <1>1, <1>2, <1>3, GoRow, SoundFacts
<1>5. /\ Others({t}) /\ w'[t].turn = w[t].turn /\ w'[t].hand = w[t].hand /\ w'[t].input = w[t].input
      /\ w'[t].pc = x
  BY <1>4 DEF Row
<1>6. TurnsApart /\ LoopStarts /\ w[t].pc \in Closing
  BY <1>2 DEF ClientInv, Closing
<1>7. StillReserved(t) => /\ active.task = 0 /\ active.turn = w[t].turn /\ Injected(Pending)
                          /\ w[Loop].pc \notin {"place", "install"}
  BY <1>2, <1>6 DEF TurnsApart, StillReserved
<1>8. TaskMoves(t)
  BY <1>2, <1>4, <1>5 DEF TaskMoves, Keeps
<1>9. LeavesActive(t)
  BY <1>2, <1>3, <1>5, <1>6, <1>7 DEF LeavesActive, Running, LoopStarts, NoActive
<1>10. Counts(t)
  BY <1>2, <1>5 DEF Counts
<1>11. w'[Loop] = w[Loop] /\ (\A u \in Tasks : u # t => w'[u] = w[u])
  BY <1>5, Ids DEF Others
<1>12. TurnsApart'
  <2>1. CASE StillReserved(t) /\ active' = NoActive
    <3>1. active'.task = 0 /\ active'.turn = 0 /\ Pending' = {} /\ Injected(Pending)'
      BY <2>1 DEF NoActive, Pending, Injected
    <3>2. w'[Loop].pc \notin {"place", "install"}
      BY <1>7, <1>11, <2>1
    <3> QED
      BY <3>1, <3>2 DEF TurnsApart
  <2>2. CASE active' = active /\ ~StillReserved(t)
    <3>1. Pending' = Pending /\ (Injected(Pending) => Injected(Pending)')
      BY <1>2, <2>2 DEF Pending, Injected, Op, Script
    <3>2. ASSUME NEW u \in Tasks, w'[u].pc \in Closing
          PROVE  /\ active'.task # 0 \/ w'[Loop].pc \in {"place", "install"} =>
                       w'[u].turn # active'.turn
                 /\ active'.turn = w'[u].turn /\ w'[u].pc # "collect" => Injected(Pending)'
      <4>1. u # t
        BY <1>5, <3>2 DEF Closing
      <4> QED
        BY <1>6, <1>11, <2>2, <3>1, <3>2, <4>1 DEF TurnsApart
    <3>3. ASSUME active'.task = 0, active'.turn # 0, w'[Loop].pc \notin {"place", "install"}
          PROVE  \E u \in Tasks : w'[u].pc \in Closing /\ w'[u].turn = active'.turn
      <4>1. PICK u \in Tasks : w[u].pc \in Closing /\ w[u].turn = active.turn
        BY <1>6, <1>11, <2>2, <3>3 DEF TurnsApart
      <4>2. u # t
        BY <2>2, <3>3, <4>1 DEF StillReserved
      <4> QED
        BY <1>11, <2>2, <4>1, <4>2
    <3> QED
      BY <3>2, <3>3 DEF TurnsApart
  <2> QED
    BY <1>3, <2>1, <2>2
<1>13. ASSUME NEW i \in Items, Somewhere(i) PROVE Somewhere(i)' \/ Op(i) = "inject"
  <2>1. CASE i \in recorded \/ i \in dropped \/ i \in mailbox
    BY <1>2, <2>1 DEF Somewhere
  <2>2. CASE i \in Pending
    BY <1>2, <1>3, <1>7, <2>2 DEF Somewhere, Pending, Injected
  <2>3. CASE InHands(i)
    BY <1>1, <1>5, <2>3, HandsKept DEF Somewhere, InHands
  <2>4. CASE InClosing(i)
    BY <1>1, <1>2, <1>5, <2>4, ClosingKept DEF Somewhere
  <2> QED
    BY <1>13, <2>1, <2>2, <2>3, <2>4 DEF Somewhere
<1> QED
  BY <1>1, <1>8, <1>9, <1>10, <1>12, <1>13, GoneStep

LEMMA TaskWakesClient ==
    ASSUME OnlyClient, ClientInv, NEW t \in Tasks, MaybeStartTurn(t)
    PROVE  ClientInv'
<1>1. Sound /\ Sound' /\ t \in Workers /\ ~HasTrigger
  BY ClientFacts, MaybeStartTurnSound, Ids
<1>2. /\ Go(t, "over") /\ "over" \in Steps /\ w[t].pc = "wake" /\ w[t].hand = {}
      /\ UNCHANGED <<script, at, active, turns, mailbox, recorded, dropped, ends>>
  BY <1>1 DEF MaybeStartTurn, Rest, Steps, ClientInv, HandsFree
<1>3. Row(t, "over", w[t].turn, w[t].hand, w[t].input) /\ Keeps(t)
  BY <1>1, <1>2, GoRow, SoundFacts
<1>4. /\ Others({t}) /\ w'[t].hand = w[t].hand /\ w'[t].input = w[t].input /\ w'[t].pc = "over"
  BY <1>3 DEF Row
<1>5. TaskMoves(t) /\ LeavesActive(t) /\ Counts(t)
  <2>1. TaskMoves(t)
    BY <1>2, <1>3, <1>4 DEF TaskMoves, Keeps
  <2>2. LeavesActive(t)
    BY <1>2, <1>4 DEF LeavesActive, Running, ClientInv, LoopStarts
  <2>3. Counts(t)
    BY <1>2, <1>4 DEF Counts
  <2> QED
    BY <2>1, <2>2, <2>3
<1>6. TurnsApart'
  <2>1. /\ \A u \in Tasks : /\ w'[u].pc \in Closing <=> w[u].pc \in Closing
                            /\ w'[u].pc \in Closing => w'[u].turn = w[u].turn /\ w'[u].pc = w[u].pc
        /\ w'[Loop].pc = w[Loop].pc /\ Pending' = Pending
    BY <1>2, <1>4, Ids DEF Others, Closing, Pending
  <2> QED
    BY <1>1, <1>2, <2>1, ApartStays
<1>7. ASSUME NEW i \in Items, Somewhere(i) PROVE Somewhere(i)'
  <2>1. Somewhere(i)' \/ i \in w[t].hand \/ i \in w[t].input
    BY <1>1, <1>2, <1>4, <1>7, SameTurns
  <2> QED
    BY <1>1, <1>4, <2>1 DEF Somewhere, InHands
<1> QED
  BY <1>1, <1>5, <1>6, <1>7, GoneStep

(* The steps of the submission loop.                                        *)
LEMMA LoopAlone ==
    ASSUME OnlyClient, ClientInv, NEW p \in Workers,
           w[p].pc \in {"take", "grace", "clear", "gather", "claim", "place", "install"}
    PROVE  p = Loop
<1>1. p # Ext
  BY ClientFacts
<1>2. p \notin Tasks
  BY DEF ClientInv, LoopStarts, Running
<1> QED
  BY <1>1, <1>2, Ids DEF Workers, Callers

LoopMoves ==
    /\ Others({Loop}) /\ UNCHANGED <<script, ends>>
    /\ w[Loop].pc # "grace" /\ w'[Loop].pc # "grace" /\ active'.task = active.task
    /\ w'[Loop].pc \in {"idle", "take", "clear", "gather", "claim", "place", "install", "wake"}
    /\ \A i \in mailbox' : Op(i) = "mail"
    /\ w'[Loop].pc \in {"clear", "gather", "claim"} => active' = NoActive
    /\ w'[Loop].pc \in {"place", "install"} => active'.task = 0 /\ active'.turn = w'[Loop].turn
    /\ w'[Loop].pc \notin {"claim", "place"} => w'[Loop].hand = {}
    /\ w'[Loop].pc \in {"idle", "wake"} \/ w'[Loop].why = "stop" => w'[Loop].input = {}

LEMMA LoopMovesKeep ==
    ASSUME ClientInv, LoopMoves
    PROVE  LoopStarts' /\ TasksOwned' /\ HandsFree'
<1>1. w'[Ext] = w[Ext] /\ \A t \in Tasks : w'[t] = w[t]
  BY Ids DEF LoopMoves, Others
<1>2. LoopStarts'
  <2>1. \A i \in mailbox' : Op(i)' = "mail"
    BY DEF LoopMoves, Op, Script
  <2>2. w'[Ext] = Resting /\ \A t \in Tasks : w'[t].pc \in Running \cup {"unused", "over", "killed",
                                                  "collect", "event", "release", "wake"}
    BY <1>1 DEF ClientInv, LoopStarts
  <2> QED
    BY <2>1, <2>2 DEF LoopStarts, LoopMoves, Resting
<1>3. TasksOwned'
  BY <1>1 DEF ClientInv, TasksOwned, LoopMoves
<1>4. HandsFree'
  <2>1. \A p \in Workers : w'[p].pc \notin {"claim", "place", "record"} => w'[p].hand = {}
    BY DEF ClientInv, HandsFree, LoopMoves, Others
  <2>2. \A t \in Tasks : w'[t].pc = "unused" => w'[t].input = {}
    BY <1>1 DEF ClientInv, HandsFree
  <2> QED
    BY <2>1, <2>2 DEF HandsFree, LoopMoves
<1> QED
  BY <1>2, <1>3, <1>4

(* No task is in the active turn, and no turn that is being closed is.      *)
LEMMA ApartIdle ==
    ASSUME active' = NoActive, w'[Loop].pc \notin {"place", "install"}
    PROVE  TurnsApart'
<1>1. active'.task = 0 /\ active'.turn = 0 /\ Pending' = {} /\ Injected(Pending)'
  BY DEF NoActive, Pending, Injected
<1> QED
  BY <1>1 DEF TurnsApart

LEMMA LoopStep ==
    ASSUME ClientInv, Sound', LoopMoves, TurnsApart', at' = at,
           \A i \in Items : Somewhere(i) => Somewhere(i)' \/ Op(i) = "inject"
    PROVE  ClientInv'
<1>1. LoopStarts' /\ TasksOwned' /\ HandsFree'
  BY LoopMovesKeep
<1>2. InputKept'
  BY KeptStep DEF ClientInv, LoopMoves
<1> QED
  BY <1>1, <1>2 DEF ClientInv, Sound

LEMMA LoopWakesClient ==
    ASSUME OnlyClient, ClientInv, MaybeStartTurn(Loop)
    PROVE  ClientInv'
<1>1. Sound /\ Sound' /\ Loop \in Workers /\ ~HasTrigger
  BY ClientFacts, MaybeStartTurnSound, Ids
<1>2. /\ Go(Loop, "idle") /\ "idle" \in Steps /\ w[Loop].pc = "wake"
      /\ w[Loop].hand = {} /\ w[Loop].input = {} /\ \A i \in mailbox : Op(i) = "mail"
      /\ UNCHANGED <<script, at, active, turns, mailbox, recorded, dropped, ends>>
  BY <1>1, Ids DEF MaybeStartTurn, Rest, Steps, ClientInv, HandsFree, LoopStarts
<1>3. Row(Loop, "idle", w[Loop].turn, w[Loop].hand, w[Loop].input) /\ Keeps(Loop)
  BY <1>1, <1>2, GoRow, SoundFacts
<1>4. Others({Loop}) /\ w'[Loop].pc = "idle" /\ w'[Loop].hand = {} /\ w'[Loop].input = {}
  BY <1>2, <1>3 DEF Row
<1>5. LoopMoves
  BY <1>2, <1>4 DEF LoopMoves
<1>6. TurnsApart'
  <2>1. \A u \in Tasks : w'[u] = w[u]
    BY <1>4, Ids DEF Others
  <2>2. Pending' = Pending /\ (Injected(Pending) => Injected(Pending)') /\ TurnsApart
    BY <1>2 DEF Pending, Injected, Op, Script, ClientInv
  <2> QED
    BY <1>2, <1>4, <2>1, <2>2 DEF TurnsApart
<1>7. ASSUME NEW i \in Items, Somewhere(i) PROVE Somewhere(i)'
  BY <1>1, <1>2, <1>4, <1>7, SameTurns
<1> QED
  BY <1>1, <1>2, <1>5, <1>6, <1>7, LoopStep

LEMMA GatherClient ==
    ASSUME OnlyClient, ClientInv, Gather(Loop)
    PROVE  ClientInv'
<1>1. Sound /\ Sound' /\ Loop \in Workers
  BY ClientFacts, GatherSound, Ids
<1>2. /\ w[Loop].pc = "gather" /\ GetPendingInput(Loop, "claim") /\ "claim" \in Steps
      /\ w[Loop].hand = {} /\ active = NoActive /\ (w[Loop].why = "stop" => w[Loop].input = {})
      /\ UNCHANGED <<script, at, active, ends, recorded, dropped>> /\ \A i \in mailbox : Op(i) = "mail"
  BY <1>1 DEF Gather, Steps, ClientInv, HandsFree, LoopStarts
<1>3. Accepts /\ Pending = {} /\ active.turn = 0
  BY <1>2 DEF Accepts, Pending, NoActive
<1>4. /\ Len(turns') = Len(turns) /\ Keeps(Loop)
      /\ Row(Loop, "claim", w[Loop].turn, IF Accepts THEN Pending \cup mailbox ELSE {}, w[Loop].input)
      /\ \A n \in 1 .. Len(turns) :
            turns'[n].pending = IF n = active.turn /\ Accepts THEN {} ELSE turns[n].pending
  BY <1>1, <1>2, TakesPending
<1>5. /\ Others({Loop}) /\ w'[Loop].pc = "claim" /\ w'[Loop].input = w[Loop].input
      /\ w'[Loop].hand = mailbox /\ w'[Loop].why = w[Loop].why
  BY <1>3, <1>4 DEF Row, Keeps
<1>6. mailbox' = {}
  BY <1>2, <1>3 DEF GetPendingInput
<1>7. LoopMoves
  BY <1>2, <1>5, <1>6 DEF LoopMoves
<1>8. TurnsApart'
  BY <1>2, <1>5, ApartIdle
<1>9. \A n \in 1 .. Len(turns) : turns'[n].pending = turns[n].pending
  BY <1>3, <1>4
<1>10. ASSUME NEW i \in Items, Somewhere(i) PROVE Somewhere(i)'
  <2>1. CASE i \in recorded \/ i \in dropped
    BY <1>2, <2>1 DEF Somewhere
  <2>2. CASE i \in mailbox
    BY <1>1, <1>5, <2>2 DEF Somewhere, InHands
  <2>3. CASE InHands(i)
    BY <1>1, <1>2, <1>5, <2>3, HandsKept DEF Somewhere, InHands
  <2>4. CASE InClosing(i)
    BY <1>1, <1>2, <1>5, <1>9, <2>4, ClosingKept DEF Somewhere
  <2> QED
    BY <1>3, <1>10, <2>1, <2>2, <2>3, <2>4 DEF Somewhere
<1> QED
  BY <1>1, <1>2, <1>7, <1>8, <1>10, LoopStep

LEMMA ClaimClient ==
    ASSUME OnlyClient, ClientInv, Claim(Loop)
    PROVE  ClientInv'
<1>1. Sound /\ Sound' /\ Loop \in Workers
  BY ClientFacts, ClaimSound, Ids
<1>2. /\ w[Loop].pc = "claim" /\ active = NoActive /\ active.turn = 0
      /\ (w[Loop].why = "stop" => w[Loop].input = {}) /\ \A i \in mailbox : Op(i) = "mail"
      /\ UNCHANGED <<script, at, mailbox, ends, recorded, dropped>>
      /\ active' = [turn |-> Len(turns) + 1, task |-> 0] /\ turns' = Append(turns, NewTurn)
  BY DEF Claim, GetOrInsert, ClientInv, HandsFree, LoopStarts, NoActive
<1>3. Row(Loop, "place", active'.turn, w[Loop].hand, w[Loop].input) /\ Keeps(Loop)
  BY <1>1, ClaimSound
<1>4. /\ Others({Loop}) /\ w'[Loop].pc = "place" /\ w'[Loop].turn = active'.turn
      /\ w'[Loop].hand = w[Loop].hand /\ w'[Loop].input = w[Loop].input
      /\ w'[Loop].why = w[Loop].why
  BY <1>3 DEF Row, Keeps
<1>5. /\ Len(turns') = Len(turns) + 1 /\ Len(turns) \in Nat
      /\ \A n \in 1 .. Len(turns) : turns'[n] = turns[n]
      /\ turns'[Len(turns) + 1] = NewTurn
  BY <1>1, <1>2, SoundFacts, TurnAppended
<1>6. LoopMoves
  BY <1>2, <1>4 DEF LoopMoves, NoActive
<1>7. TurnsApart'
  <2>1. \A u \in Tasks : w'[u] = w[u] /\ w[u].turn # active'.turn
    BY <1>1, <1>2, <1>4, <1>5, Ids, SoundFacts DEF Others
  <2> QED
    BY <1>4, <2>1 DEF TurnsApart
<1>8. ASSUME NEW i \in Items, Somewhere(i) PROVE Somewhere(i)'
  <2>1. CASE i \in recorded \/ i \in dropped \/ i \in mailbox
    BY <1>2, <2>1 DEF Somewhere
  <2>2. CASE InHands(i)
    BY <1>1, <1>4, <2>2, HandsKept DEF Somewhere, InHands
  <2>3. CASE InClosing(i)
    BY <1>1, <1>2, <1>4, <1>5, <2>3, ClosingKept DEF Somewhere
  <2> QED
    BY <1>2, <1>8, <2>1, <2>2, <2>3 DEF Somewhere, Pending
<1> QED
  BY <1>1, <1>2, <1>6, <1>7, <1>8, LoopStep

LEMMA PlaceClient ==
    ASSUME OnlyClient, ClientInv, Place(Loop)
    PROVE  ClientInv'
<1>1. Sound /\ Sound' /\ Loop \in Workers
  BY ClientFacts, PlaceSound, Ids
<1>2. /\ w[Loop].pc = "place" /\ active.task = 0 /\ active.turn = w[Loop].turn
      /\ (w[Loop].why = "stop" => w[Loop].input = {}) /\ \A i \in mailbox : Op(i) = "mail"
      /\ UNCHANGED <<script, at, active, mailbox, ends, recorded, dropped>>
  BY DEF Place, ClientInv, HandsFree, LoopStarts
<1>3. /\ Row(Loop, "install", w[Loop].turn, {}, w[Loop].input) /\ Keeps(Loop)
      /\ w[Loop].turn \in 1 .. Len(turns)
      /\ turns'[w[Loop].turn].pending = turns[w[Loop].turn].pending \cup w[Loop].hand
      /\ \A m \in 1 .. Len(turns) : m # w[Loop].turn => turns'[m] = turns[m]
  BY <1>1, PlaceSound
<1>4. /\ Others({Loop}) /\ w'[Loop].pc = "install" /\ w'[Loop].turn = w[Loop].turn
      /\ w'[Loop].hand = {} /\ w'[Loop].input = w[Loop].input /\ w'[Loop].why = w[Loop].why
  BY <1>3 DEF Row, Keeps
<1>5. LoopMoves
  BY <1>2, <1>4 DEF LoopMoves
<1>6. TurnsApart'
  <2>1. \A u \in Tasks : w'[u] = w[u] /\ (w[u].pc \in Closing => w[u].turn # active.turn)
    BY <1>2, <1>4, Ids DEF Others, ClientInv, TurnsApart
  <2> QED
    BY <1>2, <1>4, <2>1 DEF TurnsApart
<1>7. Pending' = Pending \cup w[Loop].hand
  BY <1>2, <1>3 DEF Pending
<1>8. ASSUME NEW i \in Items, Somewhere(i) PROVE Somewhere(i)'
  <2>1. CASE i \in recorded \/ i \in dropped \/ i \in mailbox \/ i \in Pending
    BY <1>2, <1>7, <2>1 DEF Somewhere
  <2>2. CASE InHands(i)
    BY <1>1, <1>4, <1>7, <2>2, HandsKept DEF Somewhere, InHands
  <2>3. CASE InClosing(i)
    BY <1>1, <1>2, <1>3, <1>4, <2>3, ClosingKept DEF Somewhere
  <2> QED
    BY <1>8, <2>1, <2>2, <2>3 DEF Somewhere
<1> QED
  BY <1>1, <1>2, <1>5, <1>6, <1>8, LoopStep

LEMMA ClearPendingClient ==
    ASSUME OnlyClient, ClientInv, ClearPending(Loop)
    PROVE  ClientInv'
<1>1. Sound /\ Sound' /\ Loop \in Workers
  BY ClientFacts, ClearPendingSound, Ids
<1>2. /\ w[Loop].pc = "clear" /\ active = NoActive /\ w[Loop].hand = {}
      /\ (w[Loop].why = "stop" => w[Loop].input = {}) /\ \A i \in mailbox : Op(i) = "mail"
      /\ UNCHANGED <<script, at, active, mailbox, ends, recorded>>
      /\ turns' = [turns EXCEPT ![w[Loop].turn].pending = {}]
      /\ dropped' = dropped \cup turns[w[Loop].turn].pending
  BY <1>1 DEF ClearPending, ClientInv, HandsFree, LoopStarts
<1>3. PICK x \in {"gather", "wake"} : Go(Loop, x) /\ (x = "wake" => w[Loop].why = "stop")
  <2>1. w[Loop].why \in {"start", "stop"}
    BY <1>1, SoundFacts, WorkerFields
  <2> QED
    BY <2>1 DEF ClearPending
<1>4. Row(Loop, x, w[Loop].turn, w[Loop].hand, w[Loop].input) /\ Keeps(Loop)
  <2>1. x \in Steps
    BY DEF Steps
  <2> QED
    BY <1>1, <1>3, <2>1, GoRow, SoundFacts
<1>5. /\ Others({Loop}) /\ w'[Loop].pc = x /\ w'[Loop].hand = {} /\ w'[Loop].input = w[Loop].input
      /\ w'[Loop].why = w[Loop].why
  BY <1>2, <1>4 DEF Row, Keeps
<1>6. /\ w[Loop].turn \in 1 .. Len(turns) /\ Len(turns') = Len(turns)
      /\ \A m \in 1 .. Len(turns) : m # w[Loop].turn => turns'[m] = turns[m]
  BY <1>1, <1>2, Cleared
<1>7. LoopMoves
  BY <1>2, <1>3, <1>5 DEF LoopMoves
<1>8. TurnsApart'
  BY <1>2, <1>5, ApartIdle
<1>9. ASSUME NEW i \in Items, Somewhere(i) PROVE Somewhere(i)'
  <2>1. CASE i \in recorded \/ i \in dropped \/ i \in mailbox \/ i \in turns[w[Loop].turn].pending
    BY <1>2, <2>1 DEF Somewhere
  <2>2. CASE InHands(i)
    BY <1>1, <1>2, <1>5, <2>2, HandsKept DEF Somewhere, InHands
  <2>3. CASE InClosing(i) /\ i \notin turns[w[Loop].turn].pending
    BY <1>1, <1>2, <1>5, <1>6, <2>3, ClosingKept DEF Somewhere
  <2>4. i \notin Pending
    BY <1>2 DEF Pending, NoActive
  <2> QED
    BY <1>9, <2>1, <2>2, <2>3, <2>4 DEF Somewhere
<1> QED
  BY <1>1, <1>2, <1>7, <1>8, <1>9, LoopStep

LEMMA InstallClient ==
    ASSUME OnlyClient, ClientInv, Install(Loop)
    PROVE  ClientInv'
<1>1. Sound /\ Sound' /\ Loop \in Workers
  BY ClientFacts, InstallSound, Ids
<1>2. PICK t \in Tasks :
          /\ w[t].pc = "unused"
          /\ \/ active.turn # 0 /\ active' = [active EXCEPT !.task = t] /\ UNCHANGED turns
             \/ /\ active.turn = 0 /\ active' = [turn |-> Len(turns) + 1, task |-> t]
                /\ turns' = Append(turns, NewTurn)
          /\ w' = [x \in Workers |->
                     CASE x = t -> [Resting EXCEPT !.pc = "begin", !.input = w[Loop].input,
                                                   !.kind = w[Loop].kind]
                       [] x = Loop -> [Resting EXCEPT !.pc = Rest(Loop)]
                       [] x = active.task /\ x # 0 -> [Resting EXCEPT !.pc = "killed"]
                       [] OTHER -> w[x]]
  BY DEF Install
<1>3. /\ w[Loop].pc = "install" /\ active.task = 0 /\ active.turn = w[Loop].turn
      /\ w[Loop].hand = {} /\ w[t].hand = {} /\ w[t].input = {} /\ ends[t] = 0
      /\ (\A i \in mailbox : Op(i) = "mail") /\ t \in Workers /\ t # Loop
      /\ UNCHANGED <<script, at, mailbox, ends, recorded, dropped>>
  BY <1>1, <1>2, Ids DEF Install, ClientInv, HandsFree, LoopStarts, TasksOwned
<1> DEFINE b == Spawned(w[Loop].input, w[Loop].kind)
           r == [Resting EXCEPT !.pc = Rest(Loop)]
<1>4. b \in Worker /\ b.pc = "begin" /\ b.hand = {} /\ b.input = w[Loop].input
  <2>1. w[Loop].input \in SUBSET Items /\ w[Loop].kind \in {"regular", "compact"}
    BY <1>1, SoundFacts, WorkerFields
  <2> QED
    BY <2>1, FreshTask
<1>5. r \in Worker /\ r.pc = "idle" /\ r.hand = {} /\ r.input = {}
  <2>1. Rest(Loop) = "idle" /\ "idle" \in Steps
    BY Ids DEF Rest, Steps
  <2>2. r = [Resting EXCEPT !.pc = "idle"]
    BY <2>1
  <2> HIDE DEF r
  <2> QED
    BY <2>1, <2>2, FreshStep, Zenon
<1> HIDE DEF b, r
<1>6. w' = [x \in Workers |-> CASE x = t -> b [] x = Loop -> r [] x = active.task /\ x # 0 ->
                                   [Resting EXCEPT !.pc = "killed"]
                                [] OTHER -> w[x]]
  BY <1>2 DEF b, r, Spawned
<1>7. w'[t] = b /\ w'[Loop] = r /\ \A q \in Workers \ {t, Loop} : w'[q] = w[q]
  <2>1. w'[t] = b
    BY <1>1, <1>3, <1>6
  <2>2. w'[Loop] = r
    BY <1>1, <1>3, <1>6
  <2>3. ASSUME NEW q \in Workers, q \notin {t, Loop} PROVE w'[q] = w[q]
    BY <1>3, <1>6, <2>3
  <2> QED
    BY <2>1, <2>2, <2>3
<1>8. w' \in [Workers -> Worker]
  BY <1>1 DEF Sound, TypeOK
<1>9. Others({t, Loop}) /\ w'[Ext] = w[Ext] /\ \A u \in Tasks : u # t => w'[u] = w[u]
  BY <1>7, <1>8, Ids DEF Others
<1>10. active'.task = t /\ active'.task # 0
  BY <1>1, <1>2, Ids DEF Sound, TypeOK
<1>11. LoopStarts'
  <2>1. \A i \in mailbox' : Op(i)' = "mail"
    BY <1>3 DEF Op, Script
  <2>2. \A u \in Tasks : w'[u].pc \in Running \cup {"unused", "over", "killed", "collect", "event",
                                                    "release", "wake"}
    BY <1>4, <1>7, <1>9 DEF ClientInv, LoopStarts, Running
  <2>3. w'[Ext] = Resting
    BY <1>9, ClientFacts
  <2> QED
    BY <1>5, <1>7, <2>1, <2>2, <2>3 DEF LoopStarts, Resting
<1>12. TasksOwned'
  <2>1. ASSUME NEW u \in Tasks, w'[u].pc \in Running PROVE active'.task = u
    BY <1>3, <1>9, <1>10, <2>1, Ids DEF ClientInv, TasksOwned
  <2>2. ASSUME NEW u \in Tasks
        PROVE  /\ w'[u].pc \in Running \cup {"unused", "collect", "event"} => ends'[u] = 0
               /\ ends'[u] <= 1
    BY <1>3, <1>9 DEF ClientInv, TasksOwned
  <2> QED
    BY <1>5, <1>7, <2>1, <2>2 DEF TasksOwned
<1>13. HandsFree'
  <2>1. \A p \in Workers : w'[p].pc \notin {"claim", "place", "record"} => w'[p].hand = {}
    BY <1>4, <1>5, <1>7 DEF ClientInv, HandsFree
  <2>2. \A u \in Tasks : w'[u].pc = "unused" => w'[u].input = {}
    BY <1>4, <1>7, <1>9 DEF ClientInv, HandsFree
  <2> QED
    BY <1>5, <1>7, <2>1, <2>2 DEF HandsFree
<1>14. TurnsApart'
  <2>1. ASSUME NEW u \in Tasks, w'[u].pc \in Closing PROVE w'[u].turn # active'.turn
    <3>1. u # t /\ w'[u] = w[u] /\ w[u].turn <= Len(turns) /\ Len(turns) \in Nat /\ w[u].turn \in Nat
      BY <1>1, <1>4, <1>7, <1>9, <2>1, SoundFacts, Ids DEF Closing
    <3>2. w[u].turn # active.turn
      BY <1>3, <2>1, <3>1 DEF ClientInv, TurnsApart
    <3>3. active'.turn \in {active.turn, Len(turns) + 1}
      BY <1>1, <1>2 DEF Sound, TypeOK
    <3> QED
      BY <3>1, <3>2, <3>3
  <2> QED
    BY <1>10, <2>1 DEF TurnsApart
<1>15. ASSUME NEW i \in Items, Somewhere(i) PROVE Somewhere(i)'
  <2>1. CASE i \in recorded \/ i \in dropped \/ i \in mailbox
    BY <1>3, <2>1 DEF Somewhere
  <2>2. CASE i \in Pending
    <3>1. active.turn # 0 /\ active' = [active EXCEPT !.task = t] /\ UNCHANGED turns
      BY <1>2, <2>2 DEF Pending
    <3>2. active'.turn = active.turn
      BY <1>1, <3>1 DEF Sound, TypeOK
    <3> QED
      BY <2>2, <3>1, <3>2 DEF Pending, Somewhere
  <2>3. CASE InHands(i)
    BY <1>1, <1>3, <1>4, <1>7, <1>9, <2>3, HandsKept DEF Somewhere, InHands
  <2>4. CASE InClosing(i)
    <3>1. \A n \in 1 .. Len(turns) : turns'[n] = turns[n]
      BY <1>1, <1>2, SoundFacts, TurnAppended
    <3> QED
      BY <1>1, <1>2, <1>3, <1>9, <2>4, <3>1, ClosingKept DEF Somewhere
  <2> QED
    BY <1>15, <2>1, <2>2, <2>3, <2>4 DEF Somewhere
<1>16. InputKept'
  BY <1>3, <1>15, KeptStep DEF ClientInv
<1> QED
  BY <1>1, <1>11, <1>12, <1>13, <1>14, <1>16 DEF ClientInv, Sound

(* The loop takes the active turn: its task is now the loop's, and its      *)
(* input is closed with it.                                                 *)
LEMMA AbortAllTasksClient ==
    ASSUME OnlyClient, ClientInv, AbortAllTasks(Loop)
    PROVE  ClientInv'
<1>1. Sound /\ Sound' /\ Loop \in Workers
  BY ClientFacts, AbortAllTasksSound, Ids
<1>2. /\ w[Loop].pc = "take" /\ TakeActive(Loop, w[Loop].why) /\ active' = NoActive
      /\ w[Loop].hand = {} /\ (w[Loop].why = "stop" => w[Loop].input = {})
      /\ (\A i \in mailbox : Op(i) = "mail")
      /\ UNCHANGED <<script, at, turns, mailbox, ends, recorded, dropped>>
      /\ w[Loop].why \in {"start", "stop"}
  BY <1>1, SoundFacts, WorkerFields DEF AbortAllTasks, TakeActive, ClientInv, HandsFree, LoopStarts
<1>3. active'.task = 0 /\ active'.turn = 0
  BY <1>2 DEF NoActive
<1>4. CASE active.task = 0
  <2>1. PICK x \in {"gather", "idle"} : Go(Loop, x) /\ (x = "idle" => w[Loop].why = "stop")
    BY <1>2, <1>4, Ids DEF TakeActive, Rest
  <2>2. Row(Loop, x, w[Loop].turn, w[Loop].hand, w[Loop].input) /\ Keeps(Loop)
    <3>1. x \in Steps
      BY DEF Steps
    <3> QED
      BY <1>1, <2>1, <3>1, GoRow, SoundFacts
  <2>3. /\ Others({Loop}) /\ w'[Loop].pc = x /\ w'[Loop].hand = {} /\ w'[Loop].input = w[Loop].input
        /\ w'[Loop].why = w[Loop].why
    BY <1>2, <2>2 DEF Row, Keeps
  <2>4. LoopMoves
    BY <1>2, <1>3, <1>4, <2>1, <2>3 DEF LoopMoves
  <2>5. TurnsApart'
    BY <1>2, <2>3, ApartIdle
  <2>6. ASSUME NEW i \in Items, Somewhere(i) PROVE Somewhere(i)' \/ Op(i) = "inject"
    <3>1. CASE i \in recorded \/ i \in dropped \/ i \in mailbox
      BY <1>2, <3>1 DEF Somewhere
    <3>2. CASE InHands(i)
      BY <1>1, <1>2, <2>3, <3>2, HandsKept DEF Somewhere, InHands
    <3>3. CASE InClosing(i)
      BY <1>1, <1>2, <2>3, <3>3, ClosingKept DEF Somewhere
    <3>4. CASE i \in Pending
      <4>1. active.turn # 0 /\ i \in turns[active.turn].pending
        BY <3>4 DEF Pending
      <4>2. PICK u \in Tasks : w[u].pc \in Closing /\ w[u].turn = active.turn
        BY <1>2, <1>4, <4>1 DEF ClientInv, TurnsApart
      <4>3. CASE w[u].pc = "collect"
        BY <4>1, <4>2, <4>3, <3>3, Ids DEF InClosing
      <4>4. CASE w[u].pc # "collect"
        BY <3>4, <4>2, <4>4 DEF ClientInv, TurnsApart, Injected
      <4> QED
        BY <4>3, <4>4
    <3> QED
      BY <2>6, <3>1, <3>2, <3>3, <3>4 DEF Somewhere
  <2> QED
    BY <1>1, <1>2, <2>4, <2>5, <2>6, LoopStep
<1>5. CASE active.task # 0
  <2> PICK t \in Tasks, n \in Nat, y \in {"start", "stop"} :
          t = active.task /\ n = active.turn /\ y = w[Loop].why
    BY <1>1, <1>2, <1>5, SoundFacts
  <2>1. /\ t \in Workers /\ Loop # t /\ n # 0 /\ n <= Len(turns) /\ w[t].pc \in Running /\ ends[t] = 0
        /\ \A u \in Tasks : w[u].pc \in Running => u = t
    BY <1>1, <1>2, <1>5, SoundFacts, Ids DEF Sound, TypeOK, ClientInv, TasksOwned
  <2>2. Cancels(Loop, t, n, y)
    BY <1>2, <1>5 DEF TakeActive, Cancels
  <2>3. /\ Others({Loop, t}) /\ w'[Loop].pc = "grace" /\ w'[Loop].turn = n /\ w'[Loop].victim = t
        /\ w'[Loop].why = y /\ w'[Loop].hand = w[Loop].hand /\ w'[Loop].input = w[Loop].input
        /\ w'[t].pc = w[t].pc /\ w'[t].turn = w[t].turn /\ w'[t].hand = w[t].hand
        /\ w'[t].input = w[t].input /\ w'[t].cancelled
    <3>1. w \in [Workers -> Worker] /\ Loop \in Workers /\ Loop # t
      BY <1>1, <2>1, SoundFacts
    <3>2. WaitsFor(Loop, t, n, y)
      BY <2>2, <3>1, CancelRow, Zenon
    <3> QED
      BY <3>2 DEF WaitsFor
  <2>4. w'[Ext] = w[Ext] /\ \A u \in Tasks : u # t => w'[u] = w[u]
    BY <2>3, Ids DEF Others
  <2>5. LoopStarts'
    <3>1. \A i \in mailbox' : Op(i)' = "mail"
      BY <1>2 DEF Op, Script
    <3>2. \A u \in Tasks : w'[u].pc \in Running \cup {"unused", "over", "killed", "collect", "event",
                                                      "release", "wake"}
      BY <2>3, <2>4 DEF ClientInv, LoopStarts
    <3>3. w'[Ext] = Resting
      BY <2>4, ClientFacts
    <3> QED
      BY <1>2, <2>3, <3>1, <3>2, <3>3 DEF LoopStarts, Resting
  <2>6. TasksOwned'
    <3>1. ASSUME NEW u \in Tasks
          PROVE  /\ w'[u].pc \in Running => u = t
                 /\ w'[u].pc \in Running \cup {"unused", "collect", "event"} => ends'[u] = 0
                 /\ ends'[u] <= 1
      BY <1>2, <2>1, <2>3, <2>4 DEF ClientInv, TasksOwned
    <3> QED
      BY <1>2, <2>1, <2>3, <3>1 DEF TasksOwned
  <2>7. HandsFree'
    <3>1. \A p \in Workers : w'[p].pc \notin {"claim", "place", "record"} => w'[p].hand = {}
      BY <1>2, <2>1, <2>3 DEF ClientInv, HandsFree, Others
    <3>2. \A u \in Tasks : w'[u].pc = "unused" => w'[u].input = {}
      BY <2>3, <2>4 DEF ClientInv, HandsFree
    <3> QED
      BY <1>2, <2>3, <3>1, <3>2 DEF HandsFree
  <2>8. TurnsApart'
    BY <1>2, <2>3, ApartIdle
  <2>9. ASSUME NEW i \in Items, Somewhere(i) PROVE Somewhere(i)'
    <3>1. CASE i \in recorded \/ i \in dropped \/ i \in mailbox
      BY <1>2, <3>1 DEF Somewhere
    <3>2. CASE InHands(i)
      BY <1>1, <2>1, <2>3, <3>2, HandsKept DEF Somewhere, InHands
    <3>3. CASE InClosing(i)
      BY <1>1, <1>2, <2>1, <2>3, <3>3, ClosingKept DEF Somewhere, Running
    <3>4. CASE i \in Pending
      BY <1>1, <1>2, <2>1, <2>3, <3>4 DEF Somewhere, InClosing, Pending
    <3> QED
      BY <2>9, <3>1, <3>2, <3>3, <3>4 DEF Somewhere
  <2>10. InputKept'
    BY <1>2, <2>9, KeptStep DEF ClientInv
  <2> QED
    BY <1>1, <2>5, <2>6, <2>7, <2>8, <2>10 DEF ClientInv, Sound
<1> QED
  BY <1>4, <1>5

(* The cancelled task is over, and what it held is dropped.                 *)
LEMMA GraceClient ==
    ASSUME OnlyClient, ClientInv, Grace(Loop)
    PROVE  ClientInv'
<1>1. Sound /\ Sound' /\ Loop \in Workers
  BY ClientFacts, GraceSound, Ids
<1> PICK t \in Tasks : t = w[Loop].victim
  BY <1>1, SoundFacts, WorkerFields, Ids DEF Grace, Sound, TurnsSound
<1>2. /\ w[Loop].pc = "grace" /\ active = NoActive /\ t \in Workers /\ t # Loop /\ ends[t] = 0
      /\ w[Loop].hand = {} /\ (w[Loop].why = "stop" => w[Loop].input = {})
      /\ (\A i \in mailbox : Op(i) = "mail") /\ w[t].pc \in Running \cup {"over"}
      /\ UNCHANGED <<script, at, active, turns, mailbox, recorded>>
      /\ dropped' = dropped \cup w[t].hand \cup w[t].input
      /\ ends' = [ends EXCEPT ![t] = @ + 1] /\ ends \in [Tasks -> Nat]
  BY <1>1, Ids DEF Grace, ClientInv, HandsFree, LoopStarts, TasksOwned, TypeOK
<1> DEFINE x == IF w[t].pc = "over" THEN "over" ELSE "killed"
           r == [Resting EXCEPT !.pc = x, !.cancelled = TRUE]
<1>3. r \in Worker /\ r.pc = x /\ r.hand = {} /\ r.input = {}
  <2>1. x \in Steps /\ TRUE \in BOOLEAN
    BY DEF Steps
  <2> HIDE DEF x
  <2> QED
    BY <2>1, FreshCancelled, Zenon
<1>4. Buries(Loop, t, r) /\ x \in {"over", "killed"}
  BY DEF Grace, Buries
<1> HIDE DEF x, r
<1>5. /\ Others({Loop, t}) /\ w'[t] = r /\ w'[Loop].pc = "clear" /\ w'[Loop].turn = w[Loop].turn
      /\ w'[Loop].hand = w[Loop].hand /\ w'[Loop].input = w[Loop].input
      /\ w'[Loop].why = w[Loop].why
  <2> PICK y \in Worker : y = r
    BY <1>3
  <2>1. w \in [Workers -> Worker] /\ Loop \in Workers /\ Buries(Loop, t, y)
    BY <1>1, <1>4, SoundFacts DEF Buries
  <2>2. Buried(Loop, t, y)
    BY <2>1, GraceRow, Zenon
  <2> QED
    BY <1>2, <2>2 DEF Buried, Keeps
<1>6. w'[Ext] = w[Ext] /\ \A u \in Tasks : u # t => w'[u] = w[u]
  BY <1>5, Ids DEF Others
<1>7. LoopStarts'
  <2>1. \A i \in mailbox' : Op(i)' = "mail"
    BY <1>2 DEF Op, Script
  <2>2. \A u \in Tasks : w'[u].pc \in Running \cup {"unused", "over", "killed", "collect", "event",
                                                    "release", "wake"}
    BY <1>3, <1>4, <1>5, <1>6 DEF ClientInv, LoopStarts
  <2>3. w'[Ext] = Resting
    BY <1>6, ClientFacts
  <2> QED
    BY <1>2, <1>5, <2>1, <2>2, <2>3 DEF LoopStarts, Resting
<1>8. TasksOwned'
  <2>1. ASSUME NEW u \in Tasks
        PROVE  /\ w'[u].pc \notin Running
               /\ w'[u].pc \in {"unused", "collect", "event"} => ends'[u] = 0
               /\ ends'[u] <= 1
    <3>1. CASE u = t
      BY <1>2, <1>3, <1>4, <1>5, <3>1 DEF Running
    <3>2. CASE u # t
      <4>1. w'[u] = w[u] /\ ends'[u] = ends[u]
        BY <1>2, <1>6, <3>2
      <4> QED
        BY <1>2, <3>2, <4>1, Ids DEF ClientInv, TasksOwned, NoActive
    <3> QED
      BY <3>1, <3>2
  <2> QED
    BY <1>5, <2>1 DEF TasksOwned
<1>9. HandsFree'
  <2>1. \A p \in Workers : w'[p].pc \notin {"claim", "place", "record"} => w'[p].hand = {}
    BY <1>2, <1>3, <1>5 DEF ClientInv, HandsFree, Others
  <2>2. \A u \in Tasks : w'[u].pc = "unused" => w'[u].input = {}
    BY <1>3, <1>5, <1>6 DEF ClientInv, HandsFree
  <2> QED
    BY <1>2, <1>5, <2>1, <2>2 DEF HandsFree
<1>10. TurnsApart'
  BY <1>2, <1>5, ApartIdle
<1>11. ASSUME NEW i \in Items, Somewhere(i) PROVE Somewhere(i)'
  <2>1. CASE i \in recorded \/ i \in dropped \/ i \in mailbox \/ i \in w[t].hand \/ i \in w[t].input
    BY <1>2, <2>1 DEF Somewhere
  <2>2. CASE InHands(i)
    BY <1>1, <1>5, <2>1, <2>2, HandsKept DEF Somewhere, InHands
  <2>3. CASE InClosing(i)
    <3>1. CASE i \in turns[w[Loop].turn].pending
      BY <1>1, <1>2, <1>5, <3>1 DEF Somewhere, InClosing
    <3>2. CASE i \notin turns[w[Loop].turn].pending
      BY <1>1, <1>2, <1>5, <2>3, <3>2, ClosingKept DEF Somewhere, Running
    <3> QED
      BY <3>1, <3>2
  <2>4. i \notin Pending
    BY <1>2 DEF Pending, NoActive
  <2> QED
    BY <1>11, <2>1, <2>2, <2>3, <2>4 DEF Somewhere
<1>12. InputKept'
  BY <1>2, <1>11, KeptStep DEF ClientInv
<1> QED
  BY <1>1, <1>7, <1>8, <1>9, <1>10, <1>12 DEF ClientInv, Sound

(* The operations of the client.  One submits its own item and no other.    *)
LEMMA SubmitKept ==
    ASSUME Sound, InputKept, NEW c \in Callers, NEW op, NextOp(c, op), script' = script,
           NEW it \in Items, it = Item(c),
           \A i \in Items : Somewhere(i) => Somewhere(i)',
           op = "inject" \/ op \in {"compact", "interrupt"} \/ Somewhere(it)'
    PROVE  InputKept'
<1> SUFFICES ASSUME NEW i \in Items, Submitted(i)' PROVE Somewhere(i)'
  BY KeptMeansNext
<1>1. Op(i)' = Op(i)
  BY DEF Op, Script
<1>2. at'[c] = at[c] + 1 /\ (\A d \in Callers : d # c => at'[d] = at[d]) /\ Op(it) = op
  BY OpTaken DEF Sound
<1>3. i[1] \in Callers /\ i[2] \in Nat /\ i = <<i[1], i[2]>> /\ at \in [Callers -> 1 .. MaxOps + 1]
  BY SessionAssumption DEF Items, Sound, TypeOK
<1>4. CASE i[2] < at[i[1]]
  BY <1>1, <1>4, KeptMeans DEF Submitted
<1>5. CASE ~(i[2] < at[i[1]])
  <2>1. i[2] < at'[i[1]]
    BY DEF Submitted
  <2>2. i[1] = c /\ i[2] = at[c]
    BY <1>2, <1>3, <1>5, <2>1, SessionAssumption
  <2>3. i = it
    BY <1>3, <2>2 DEF Item
  <2> QED
    BY <1>1, <1>2, <2>3 DEF Submitted
<1> QED
  BY <1>4, <1>5

LEMMA DeliveredKept ==
    ASSUME Sound, active.turn # 0, NEW i \in Items, Deliver(active.turn, i),
           UNCHANGED <<active, w, mailbox, recorded, dropped>>
    PROVE  /\ Pending' = Pending \cup {i}
           /\ \A j \in Items : Somewhere(j) => Somewhere(j)'
           /\ Somewhere(i)'
<1> PICK n \in 1 .. Len(turns) : n = active.turn
  BY PendingItems
<1>1. Deliver(n, i)
  BY DEF Deliver
<1>2. /\ Len(turns') = Len(turns) /\ turns'[n].pending = turns[n].pending \cup {i}
      /\ \A m \in 1 .. Len(turns) : m # n => turns'[m] = turns[m]
  BY <1>1, SoundFacts, TurnDelivered
<1>3. Pending' = Pending \cup {i}
  BY <1>2 DEF Pending
<1>4. ASSUME NEW j \in Items, Somewhere(j) PROVE Somewhere(j)'
  <2>1. CASE j \in recorded \/ j \in dropped \/ j \in mailbox \/ j \in Pending \/ InHands(j)
    BY <1>3, <2>1 DEF Somewhere, InHands
  <2>2. CASE InClosing(j)
    <3>1. Others({})
      BY SoundFacts DEF Others
    <3>2. \A m \in 1 .. Len(turns) : turns[m].pending \subseteq turns'[m].pending
      BY <1>2
    <3> QED
      BY <2>2, <3>1, <3>2, ClosingKept DEF Somewhere
  <2> QED
    BY <1>4, <2>1, <2>2 DEF Somewhere
<1>5. Somewhere(i)'
  BY <1>3 DEF Somewhere
<1> QED
  BY <1>3, <1>4, <1>5

LEMMA ApartLoop ==
    ASSUME ClientInv, UNCHANGED <<script, active, turns>>, Others({Loop}),
           w[Loop].pc = "idle", w'[Loop].pc \in {"idle", "take"}
    PROVE  TurnsApart'
<1>1. \A u \in Tasks : w'[u] = w[u]
  BY Ids DEF Others
<1>2. Pending' = Pending /\ (Injected(Pending) => Injected(Pending)') /\ TurnsApart
  BY DEF Pending, Injected, Op, Script, ClientInv
<1> QED
  BY <1>1, <1>2 DEF TurnsApart

(* The loop is about to take the active turn.                               *)
LEMMA TakesClient ==
    ASSUME OnlyClient, ClientInv, Sound', NEW op, NextOp(Loop, op), NEW it \in Items, it = Item(Loop),
           NEW r \in Worker, w' = [w EXCEPT ![Loop] = r], r.pc = "take", r.hand = {},
           r.why = "stop" => r.input = {},
           op \in {"compact", "interrupt"} \/ it \in r.input,
           UNCHANGED <<script, active, turns, mailbox, recorded, dropped, ends>>
    PROVE  ClientInv'
<1>1. Sound /\ Loop \in Workers /\ Loop \in Callers
  BY ClientFacts, Ids
<1>2. /\ w[Loop].pc = "idle" /\ w[Loop].hand = {} /\ w[Loop].input = {}
      /\ \A i \in mailbox : Op(i) = "mail"
  BY <1>1 DEF NextOp, ClientInv, HandsFree, LoopStarts
<1>3. Others({Loop}) /\ w'[Loop] = r
  BY <1>1, SoundFacts, FreshRow DEF Row
<1>4. LoopMoves
  BY <1>2, <1>3 DEF LoopMoves
<1>5. LoopStarts' /\ TasksOwned' /\ HandsFree'
  BY <1>4, LoopMovesKeep
<1>6. TurnsApart'
  BY <1>2, <1>3, ApartLoop
<1>7. ASSUME NEW i \in Items, Somewhere(i) PROVE Somewhere(i)'
  BY <1>1, <1>2, <1>3, <1>7, SameTurns
<1>8. it \in r.input => Somewhere(it)'
  BY <1>1, <1>3 DEF Somewhere, InHands
<1>9. InputKept'
  <2>1. InputKept
    BY DEF ClientInv
  <2> QED
    BY <1>1, <1>7, <1>8, <2>1, SubmitKept
<1> QED
  BY <1>5, <1>6, <1>9 DEF ClientInv, Sound

LEMMA CompactClient ==
    ASSUME OnlyClient, ClientInv, Compact
    PROVE  ClientInv'
<1> DEFINE r == [Resting EXCEPT !.pc = "take", !.kind = "compact"]
<1>1. Sound /\ Sound' /\ Loop \in Callers
  BY ClientFacts, CompactSound, Ids
<1>2. Item(Loop) \in Items
  BY <1>1, OpTaken DEF Compact, Sound
<1>3. r \in Worker /\ r.pc = "take" /\ r.hand = {} /\ r.input = {}
  <2>1. "take" \in Steps /\ "compact" \in {"regular", "compact"}
    BY DEF Steps
  <2> QED
    BY <2>1, RestingFields DEF Resting, Worker
<1>4. /\ NextOp(Loop, "compact") /\ w' = [w EXCEPT ![Loop] = r]
      /\ UNCHANGED <<script, active, turns, mailbox, recorded, dropped, ends>>
  BY DEF Compact
<1> HIDE DEF r
<1> QED
  BY <1>1, <1>2, <1>3, <1>4, TakesClient

LEMMA InterruptClient ==
    ASSUME OnlyClient, ClientInv, Interrupt
    PROVE  ClientInv'
<1> DEFINE r == [Resting EXCEPT !.pc = "take", !.why = "stop"]
<1>1. Sound /\ Sound' /\ Loop \in Callers
  BY ClientFacts, InterruptSound, Ids
<1>2. Item(Loop) \in Items
  BY <1>1, OpTaken DEF Interrupt, Sound
<1>3. r \in Worker /\ r.pc = "take" /\ r.hand = {} /\ r.input = {}
  <2>1. "take" \in Steps /\ "stop" \in {"start", "stop"}
    BY DEF Steps
  <2> QED
    BY <2>1, RestingFields DEF Resting, Worker
<1>4. /\ NextOp(Loop, "interrupt") /\ w' = [w EXCEPT ![Loop] = r]
      /\ UNCHANGED <<script, active, turns, mailbox, recorded, dropped, ends>>
  BY DEF Interrupt
<1> HIDE DEF r
<1> QED
  BY <1>1, <1>2, <1>3, <1>4, TakesClient

(* A caller that changes nobody's row: only its item is new.                *)
LEMMA QuietCall ==
    ASSUME OnlyClient, ClientInv, Sound', UNCHANGED <<script, active, w, mailbox, ends>>
    PROVE  LoopStarts' /\ TasksOwned' /\ HandsFree'
<1>1. LoopStarts'
  <2>1. \A i \in mailbox' : Op(i)' = "mail"
    BY DEF ClientInv, LoopStarts, Op, Script
  <2> QED
    BY <2>1 DEF ClientInv, LoopStarts, Resting
<1>2. TasksOwned' /\ HandsFree'
  BY DEF ClientInv, TasksOwned, HandsFree
<1> QED
  BY <1>1, <1>2

LEMMA UserInputClient ==
    ASSUME OnlyClient, ClientInv, UserInput
    PROVE  ClientInv'
<1>1. Sound /\ Sound' /\ Loop \in Callers /\ InputKept /\ NextOp(Loop, "user")
  BY ClientFacts, UserInputSound, Ids DEF UserInput, ClientInv
<1>2. Item(Loop) \in Items
  BY <1>1, OpTaken DEF Sound
<1> PICK it \in Items : it = Item(Loop)
  BY <1>2
<1>3. UNCHANGED <<script, active, mailbox, recorded, ends>>
  BY DEF UserInput
<1>4. CASE active.task # 0 /\ Deliver(active.turn, it) /\ UNCHANGED <<w, dropped>>
  <2>1. active.turn # 0
    BY <1>1, <1>4 DEF Sound, TypeOK
  <2>2. /\ \A j \in Items : Somewhere(j) => Somewhere(j)'
        /\ Somewhere(it)'
    BY <1>1, <1>3, <1>4, <2>1, DeliveredKept
  <2>3. InputKept'
    BY <1>1, <1>3, <2>2, SubmitKept
  <2>4. TurnsApart'
    BY <1>3, <1>4 DEF ClientInv, TurnsApart
  <2> QED
    BY <1>1, <1>3, <1>4, <2>3, <2>4, QuietCall DEF ClientInv, Sound
<1>5. CASE dropped' = dropped \cup {it} /\ UNCHANGED <<turns, w>>
  <2>1. ASSUME NEW j \in Items, Somewhere(j) PROVE Somewhere(j)'
    BY <1>3, <1>5, <2>1 DEF Somewhere, InHands, InClosing, Pending
  <2>2. Somewhere(it)'
    BY <1>5 DEF Somewhere
  <2>3. InputKept'
    BY <1>1, <1>3, <2>1, <2>2, SubmitKept
  <2>4. TurnsApart'
    BY <1>1, <1>3, <1>5, ApartStays DEF Pending
  <2> QED
    BY <1>1, <1>3, <1>5, <2>3, <2>4, QuietCall DEF ClientInv, Sound
<1>6. CASE /\ w' = [w EXCEPT ![Loop] = [Resting EXCEPT !.pc = "take", !.input = {it}]]
           /\ UNCHANGED <<turns, dropped>>
  <2> DEFINE r == [Resting EXCEPT !.pc = "take", !.input = {it}]
  <2>1. r \in Worker /\ r.pc = "take" /\ r.hand = {} /\ r.input = {it} /\ r.why = "start"
    <3>1. "take" \in Steps /\ {it} \in SUBSET Items
      BY DEF Steps
    <3> QED
      BY <3>1, RestingFields DEF Resting, Worker
  <2>2. w' = [w EXCEPT ![Loop] = r]
    BY <1>6
  <2> HIDE DEF r
  <2> QED
    BY <1>1, <1>3, <1>6, <2>1, <2>2, TakesClient
<1> QED
  BY <1>4, <1>5, <1>6 DEF UserInput

LEMMA InterAgentClient ==
    ASSUME OnlyClient, ClientInv, InterAgentCommunication
    PROVE  ClientInv'
<1>1. Sound /\ Sound' /\ Loop \in Workers /\ Loop \in Callers /\ InputKept
  BY ClientFacts, InterAgentSound, Ids DEF ClientInv
<1>2. NextOp(Loop, "mail") /\ Go(Loop, "idle") /\ "idle" \in Steps
  <2>1. PICK op \in {"mail", "trigger"} :
            NextOp(Loop, op) /\ Go(Loop, IF op = "trigger" THEN "wake" ELSE "idle")
    BY DEF InterAgentCommunication, Go
  <2>2. op = "mail"
    BY <2>1, ClientFacts
  <2> QED
    BY <2>1, <2>2 DEF Steps
<1>3. Item(Loop) \in Items /\ Op(Item(Loop)) = "mail"
  BY <1>1, <1>2, OpTaken DEF Sound
<1> PICK it \in Items : it = Item(Loop)
  BY <1>3
<1>4. /\ w[Loop].pc = "idle" /\ w[Loop].hand = {} /\ w[Loop].input = {}
      /\ \A i \in mailbox : Op(i) = "mail"
  BY <1>1, <1>2 DEF NextOp, ClientInv, HandsFree, LoopStarts
<1>5. /\ mailbox' = mailbox \cup {it}
      /\ UNCHANGED <<script, active, turns, recorded, dropped, ends>>
  BY DEF InterAgentCommunication
<1>6. Row(Loop, "idle", w[Loop].turn, w[Loop].hand, w[Loop].input) /\ Keeps(Loop)
  BY <1>1, <1>2, GoRow, SoundFacts
<1>7. Others({Loop}) /\ w'[Loop].pc = "idle" /\ w'[Loop].hand = {} /\ w'[Loop].input = {}
  BY <1>4, <1>6 DEF Row
<1>8. LoopMoves
  BY <1>3, <1>4, <1>5, <1>7 DEF LoopMoves
<1>9. LoopStarts' /\ TasksOwned' /\ HandsFree'
  BY <1>8, LoopMovesKeep
<1>10. TurnsApart'
  BY <1>4, <1>5, <1>7, ApartLoop
<1>11. ASSUME NEW i \in Items, Somewhere(i) PROVE Somewhere(i)'
  <2>1. CASE i \in recorded \/ i \in dropped \/ i \in mailbox \/ i \in Pending
    BY <1>5, <2>1 DEF Somewhere, Pending
  <2>2. CASE InHands(i)
    BY <1>4, <1>7, <2>2, HandsKept DEF Somewhere
  <2>3. CASE InClosing(i)
    BY <1>1, <1>4, <1>5, <1>7, <2>3, ClosingKept DEF Somewhere
  <2> QED
    BY <1>11, <2>1, <2>2, <2>3 DEF Somewhere
<1>12. Somewhere(it)'
  BY <1>5 DEF Somewhere
<1>13. InputKept'
  BY <1>1, <1>2, <1>5, <1>11, <1>12, SubmitKept
<1> QED
  BY <1>1, <1>9, <1>10, <1>13 DEF ClientInv, Sound

LEMMA InjectClient ==
    ASSUME OnlyClient, ClientInv, InjectNoNewTurn
    PROVE  ClientInv'
<1>1. Sound /\ Sound' /\ Ext \in Callers /\ InputKept /\ NextOp(Ext, "inject")
  BY ClientFacts, InjectSound, Ids DEF InjectNoNewTurn, ClientInv
<1>2. Item(Ext) \in Items /\ Op(Item(Ext)) = "inject"
  BY <1>1, OpTaken DEF Sound
<1> PICK it \in Items : it = Item(Ext)
  BY <1>2
<1>3. UNCHANGED <<script, active, w, mailbox, dropped, ends>>
  BY DEF InjectNoNewTurn
<1>4. LoopStarts' /\ TasksOwned' /\ HandsFree'
  BY <1>1, <1>3, QuietCall
<1>5. CASE active.turn # 0 /\ Deliver(active.turn, it) /\ UNCHANGED recorded
  <2>1. /\ Pending' = Pending \cup {it}
        /\ \A j \in Items : Somewhere(j) => Somewhere(j)'
    BY <1>1, <1>3, <1>5, DeliveredKept
  <2>2. InputKept'
    BY <1>1, <1>3, <2>1, SubmitKept
  <2>3. Injected(Pending) => Injected(Pending)'
    BY <1>2, <1>3, <2>1 DEF Injected, Op, Script
  <2>4. TurnsApart'
    BY <1>3, <2>3 DEF ClientInv, TurnsApart
  <2> QED
    BY <1>1, <1>4, <2>2, <2>4 DEF ClientInv, Sound
<1>6. CASE recorded' = recorded \cup {it} /\ UNCHANGED turns
  <2>1. ASSUME NEW j \in Items, Somewhere(j) PROVE Somewhere(j)'
    BY <1>3, <1>6, <2>1 DEF Somewhere, InHands, InClosing, Pending
  <2>2. InputKept'
    BY <1>1, <1>3, <2>1, SubmitKept
  <2>3. TurnsApart'
    BY <1>1, <1>3, <1>6, ApartStays DEF Pending
  <2> QED
    BY <1>1, <1>4, <2>2, <2>3 DEF ClientInv, Sound
<1> QED
  BY <1>5, <1>6 DEF InjectNoNewTurn

LEMMA InitClient == Init => ClientInv
<1> SUFFICES ASSUME Init PROVE ClientInv
  OBVIOUS
<1>1. Sound
  BY InitSound
<1>2. /\ active.turn = 0 /\ active.task = 0 /\ mailbox = {} /\ at = [c \in Callers |-> 1]
      /\ ends = [t \in Tasks |-> 0]
  BY DEF Init, NoActive
<1>3. ASSUME NEW t \in Tasks PROVE w[t].pc = "unused" /\ w[t].hand = {} /\ w[t].input = {}
  <2>1. w[t] = [Resting EXCEPT !.pc = "unused"] /\ "unused" \in Steps
    BY Ids DEF Init, Steps
  <2> QED
    BY <2>1, FreshStep
<1>4. ASSUME NEW c \in Callers PROVE w[c] = Resting
  <2>1. w[c] = [Resting EXCEPT !.pc = "idle"]
    BY <1>4, Ids DEF Init
  <2> QED
    BY <2>1 DEF Resting
<1>5. w[Loop] = Resting /\ w[Ext] = Resting
  BY <1>4, Ids
<1>6. LoopStarts
  BY <1>2, <1>3, <1>5, RestingFields DEF LoopStarts
<1>7. TasksOwned
  BY <1>2, <1>3, <1>5, RestingFields DEF TasksOwned, Running
<1>8. HandsFree
  <2>1. \A p \in Workers : w[p].hand = {}
    BY <1>3, <1>4, Ids, RestingFields
  <2> QED
    BY <1>3, <1>5, <2>1, RestingFields DEF HandsFree
<1>9. TurnsApart
  BY <1>2, <1>3 DEF TurnsApart, Closing
<1>10. InputKept
  <2> SUFFICES ASSUME NEW i \in Items, Submitted(i) PROVE Somewhere(i)
    BY KeptMeans
  <2>1. i[1] \in Callers /\ i[2] \in 1 .. MaxOps /\ MaxOps \in Nat
    BY SessionAssumption DEF Items
  <2> QED
    BY <1>2, <2>1 DEF Submitted
<1> QED
  BY <1>1, <1>6, <1>7, <1>8, <1>9, <1>10 DEF ClientInv, Sound

LEMMA SwitchesClient ==
    ASSUME OnlyClient, ClientInv, NEW p \in Workers, Switches(p)
    PROVE  ClientInv'
<1>1. CASE MaybeStartTurn(p)
  <2>1. p \in Tasks \/ p = Loop
    BY <1>1, ClientFacts, Ids DEF MaybeStartTurn, Workers, Callers
  <2> QED
    BY <1>1, <2>1, TaskWakesClient, LoopWakesClient
<1>2. CASE \/ Gather(p) \/ Claim(p) \/ Place(p) \/ Install(p)
           \/ AbortAllTasks(p) \/ Grace(p) \/ ClearPending(p)
  <2>1. p = Loop
    BY <1>2, LoopAlone DEF Gather, Claim, Place, Install, AbortAllTasks, Grace, ClearPending
  <2>2. \/ Gather(Loop) \/ Claim(Loop) \/ Place(Loop) \/ Install(Loop)
        \/ AbortAllTasks(Loop) \/ Grace(Loop) \/ ClearPending(Loop)
    BY <1>2, <2>1
  <2> QED
    BY <2>2, GatherClient, ClaimClient, PlaceClient, InstallClient, AbortAllTasksClient,
       GraceClient, ClearPendingClient
<1> QED
  BY <1>1, <1>2 DEF Switches

LEMMA NextClient ==
    ASSUME OnlyClient, ClientInv, [Next]_vars
    PROVE  ClientInv'
<1>1. CASE Submit
  BY <1>1, UserInputClient, CompactClient, InterruptClient, InterAgentClient DEF Submit
<1>2. CASE ExtCalls
  <2>1. ~TryStartTurnIfIdle /\ ~AbortTurnIfActive
    BY ClientFacts DEF TryStartTurnIfIdle, AbortTurnIfActive
  <2> QED
    BY <1>2, <2>1, InjectClient DEF ExtCalls
<1>3. ASSUME NEW p \in Workers, Switches(p) PROVE ClientInv'
  BY <1>3, SwitchesClient
<1>4. ASSUME NEW t \in Tasks, Runs(t) PROVE ClientInv'
  BY <1>4, BeginClient, PreSamplingFailsClient, DrainClient, RecordInputsClient, SampleClient,
     SampleFailsClient, CheckClient, EndedClient, FinishTaskClient, CollectClient,
     SendTerminalEventClient, ClearActiveTurnClient DEF Runs
<1>5. ~Recheck /\ ~Offer
  BY ClientFacts DEF Recheck, Offer
<1>6. CASE UNCHANGED vars
  <2>1. Sound' /\ Sound
    BY <1>6, NextSound, ClientFacts
  <2>2. UNCHANGED <<script, at, active, turns, mailbox, w, recorded, dropped, ends>>
    BY <1>6 DEF vars
  <2>3. LoopStarts' /\ TasksOwned' /\ HandsFree'
    BY <2>1, <2>2, QuietCall
  <2>4. TurnsApart'
    BY <2>1, <2>2, ApartStays DEF Pending
  <2>5. ASSUME NEW j \in Items, Somewhere(j) PROVE Somewhere(j)'
    BY <2>2, <2>5 DEF Somewhere, InHands, InClosing, Pending
  <2>6. InputKept'
    BY <2>2, <2>5, KeptStep DEF ClientInv
  <2> QED
    BY <2>1, <2>3, <2>4, <2>6 DEF ClientInv, Sound
<1> QED
  BY <1>1, <1>2, <1>3, <1>4, <1>5, <1>6 DEF Next, Work

LEMMA ClientInvariant == ASSUME OnlyClient PROVE Spec => []ClientInv
<1>1. ClientInv /\ [Next]_vars => ClientInv'
  BY NextClient
<1> QED
  BY <1>1, InitClient, PTL DEF Spec

(* In a session that its client alone drives, the submission loop never     *)
(* finds a task where it is about to put one: the assertion of start_task   *)
(* holds, since every start has taken the active turn before and nobody     *)
(* else installs a task.                                                    *)
THEOREM ClientStartsIdle == ASSUME OnlyClient PROVE Spec => []StartsIdle
<1>1. ASSUME ClientInv PROVE StartsIdle
  <2> SUFFICES ASSUME NEW p \in Workers, w[p].pc \in {"claim", "install"} PROVE active.task = 0
    BY DEF StartsIdle
  <2>1. p = Loop
    BY LoopAlone, <1>1
  <2> QED
    BY <1>1, <2>1 DEF ClientInv, LoopStarts, NoActive
<1> QED
  BY <1>1, ClientInvariant, PTL

(* In such a session no client sees a turn end twice, however an interrupt  *)
(* or a new prompt races the completion of the running turn: the task is    *)
(* either still the active one or the loop has taken it, never both.        *)
THEOREM ClientEndsOnce == ASSUME OnlyClient PROVE Spec => []EndsOnce
<1>1. ClientInv => EndsOnce
  BY DEF ClientInv, TasksOwned, EndsOnce
<1> QED
  BY <1>1, ClientInvariant, PTL

(* In such a session a prompt or a mail is never lost between the mailbox,  *)
(* the turn states and the workers that carry it: it is in one of them or   *)
(* in the history, unless an abort or an error has dropped it.              *)
THEOREM ClientInputKept == ASSUME OnlyClient PROVE Spec => []InputKept
<1>1. ClientInv => InputKept
  BY DEF ClientInv
<1> QED
  BY <1>1, ClientInvariant, PTL
=============================================================================
