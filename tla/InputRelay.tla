----------------------------- MODULE InputRelay ------------------------------
(***************************************************************************)
(* The user's input on its way from the Control Client to the page, during *)
(* a takeover (omni_takeover/cross_process.py, browser_worker.py).         *)
(*                                                                         *)
(* The Control Service writes one file per event; the MCP sidecar, another *)
(* process, collects the files in relay ticks, applies the events to the   *)
(* page and writes one result file each, for which the service waits.      *)
(* Ticks come from the thread that owns the browser and, while a tool      *)
(* waits for the user to release control, from the sidecar's main thread   *)
(* as well, which reaches the page through the owner's call queue.         *)
(*                                                                         *)
(* Events are numbered in the order of their names, which begin with the   *)
(* time they were queued at.  Frames are left out: an event may be refused *)
(* as stale when it arrives, and is not looked at again.                   *)
(***************************************************************************)
EXTENDS Naturals, Sequences, SequencesExt, FiniteSets

CONSTANTS
    MaxEvents,    \* events the client sends
    MaxCrashes    \* times the sidecar dies

ASSUME RelayAssumption == {MaxEvents, MaxCrashes} \subseteq Nat

Events == 1 .. MaxEvents
Tickers == {"owner", "main"}

VARIABLES
    waits,       \* a tool waits for the release: the main thread ticks too
    control,     \* who has control of the browser: "user", then "agent"
    sent,        \* the client's POST of each event
    inputs,      \* files in inputs/
    results,     \* files in input_results/
    ticker,      \* the relay ticks that are under way
    calls,       \* the owner's queue: events the main thread wants applied
    page,        \* what was applied to the page, in order
    late,        \* events applied after control was released
    lost,        \* events in memory when the sidecar died
    crashes

vars == <<waits, control, sent, inputs, results, ticker, calls, page, late, lost,
          crashes>>

NoTick == [pc |-> "idle", paths |-> <<>>, batch |-> <<>>, event |-> 0]

Init ==
    /\ waits \in BOOLEAN
    /\ control = "user"
    /\ sent = [e \in Events |-> "new"]
    /\ inputs = {}
    /\ results = [e \in Events |-> "none"]
    /\ ticker = [p \in Tickers |-> NoTick]
    /\ calls = <<>> /\ page = <<>>
    /\ late = 0 /\ lost = {} /\ crashes = 0

(***************************************************************************)
(* The Control Service: POST .../input and GET .../input-results.          *)
(***************************************************************************)

\* Events are sent one after the other and may be under way together.
Validate(e) ==
    /\ sent[e] = "new" /\ \A d \in 1 .. e - 1 : sent[d] # "new"
    /\ \/ control = "user" /\ sent' = [sent EXCEPT ![e] = "valid"]
       \/ sent' = [sent EXCEPT ![e] = "refused"]
    /\ UNCHANGED <<waits, control, inputs, results, ticker, calls, page, late, lost,
                   crashes>>

Enqueue(e) ==
    /\ sent[e] = "valid" /\ \A d \in 1 .. e - 1 : sent[d] # "valid"
    /\ inputs' = inputs \cup {e}
    /\ sent' = [sent EXCEPT ![e] = "waiting"]
    /\ UNCHANGED <<waits, control, results, ticker, calls, page, late, lost, crashes>>

\* The result is read and its file deleted: by the POST that still waits, or
\* by a later GET.
ReadResult(e) ==
    /\ sent[e] \in {"waiting", "pending"}
    /\ results[e] # "none"
    /\ sent' = [sent EXCEPT ![e] = results[e]]
    /\ results' = [results EXCEPT ![e] = "none"]
    /\ UNCHANGED <<waits, control, inputs, ticker, calls, page, late, lost, crashes>>

\* After 1.5 s the client is told that the event is queued.
StopWaiting(e) ==
    /\ sent[e] = "waiting"
    /\ sent' = [sent EXCEPT ![e] = "pending"]
    /\ UNCHANGED <<waits, control, inputs, results, ticker, calls, page, late, lost,
                   crashes>>

ReleaseControl ==
    /\ control = "user"
    /\ control' = "agent"
    /\ UNCHANGED <<waits, sent, inputs, results, ticker, calls, page, late, lost,
                   crashes>>

(***************************************************************************)
(* A relay tick: publish_browser_relay_tick.                               *)
(***************************************************************************)

MayTick(p) == p = "main" => waits

Sorted(s) == \A i, j \in DOMAIN s : i < j => s[i] < s[j]

\* sorted(directory.glob(...)): the files of a directory, by name.
Listings(S) == {s \in [1 .. Cardinality(S) -> S] : ToSet(s) = S /\ Sorted(s)}

\* Old results are deleted (one that a POST waits for is not old), and the
\* input files are listed by name.
StartTick(p) ==
    /\ MayTick(p) /\ ticker[p].pc = "idle" /\ inputs # {}
    /\ \E old \in SUBSET {e \in Events : sent[e] # "waiting"} :
          results' = [e \in Events |-> IF e \in old THEN "none" ELSE results[e]]
    /\ \E listing \in Listings(inputs) :
          ticker' = [ticker EXCEPT ![p] = [NoTick EXCEPT !.pc = "read", !.paths = listing]]
    /\ UNCHANGED <<waits, control, sent, inputs, calls, page, late, lost, crashes>>

\* consume_input_events: a file is read, then deleted.  One that is gone is
\* skipped.
ReadFile(p) ==
    /\ ticker[p].pc = "read" /\ ticker[p].paths # <<>>
    /\ LET e == Head(ticker[p].paths) IN
       ticker' = [ticker EXCEPT ![p].pc = "unlink",
                                ![p].batch = IF e \in inputs THEN Append(@, e) ELSE @]
    /\ UNCHANGED <<waits, control, sent, inputs, results, calls, page, late, lost,
                   crashes>>

KeepFile(p) ==
    /\ ticker[p].pc = "unlink"
    /\ ticker' = [ticker EXCEPT ![p].pc = "read", ![p].paths = Tail(@)]
    /\ UNCHANGED <<waits, control, sent, inputs, results, calls, page, late, lost,
                   crashes>>
Unlink(p) ==
    /\ ticker[p].pc = "unlink"
    /\ inputs' = inputs \ {Head(ticker[p].paths)}
    /\ ticker' = [ticker EXCEPT ![p].pc = "read", ![p].paths = Tail(@)]
    /\ UNCHANGED <<waits, control, sent, results, calls, page, late, lost, crashes>>

\* The next event of the batch; the tick ends with the last one.
NextEvent(p) ==
    /\ ticker[p].pc \in {"read", "next"} /\ ticker[p].paths = <<>>
    /\ ticker' = IF ticker[p].batch = <<>>
                 THEN [ticker EXCEPT ![p] = NoTick]
                 ELSE [ticker EXCEPT ![p].pc = "check", ![p].batch = Tail(@),
                                     ![p].event = Head(ticker[p].batch)]
    /\ UNCHANGED <<waits, control, sent, inputs, results, calls, page, late, lost,
                   crashes>>

WriteAndStay(p, e, result) ==
    /\ results' = [results EXCEPT ![e] = result]
    /\ ticker' = [ticker EXCEPT ![p].pc = "next"]
WriteResult(p, e, result) ==
    /\ results' = [results EXCEPT ![e] = result]
    /\ ticker' = [ticker EXCEPT ![p].pc = "next", ![p].event = 0]

SkipResult(p) ==
    /\ ticker[p].pc = "check"
    /\ \/ control = "user" /\ ticker' = [ticker EXCEPT ![p].pc = "apply"]
       \/ control # "user" /\ ticker' = [ticker EXCEPT ![p].pc = "next", ![p].event = 0]
    /\ UNCHANGED <<waits, control, sent, inputs, results, calls, page, late, lost, crashes>>
CheckNothing(p) ==
    /\ ticker[p].pc = "check"
    /\ ticker' = [ticker EXCEPT ![p].pc = "apply"]
    /\ UNCHANGED <<waits, control, sent, inputs, results, calls, page, late, lost, crashes>>
\* apply_input_event looks at the request before every event; "user is not in
\* control" is reported as a failed event.
CheckControl(p) ==
    /\ ticker[p].pc = "check"
    /\ \/ /\ control = "user"
          /\ ticker' = [ticker EXCEPT ![p].pc = "apply"]
          /\ UNCHANGED results
       \/ control # "user" /\ WriteResult(p, ticker[p].event, "failed")
    /\ UNCHANGED <<waits, control, sent, inputs, calls, page, late, lost, crashes>>

\* The page takes the event.
Applied(e) ==
    /\ page' = Append(page, e)
    /\ late' = IF control = "user" THEN late ELSE late + 1

ApplyByOwner ==
    /\ ticker["owner"].pc = "apply"
    /\ Applied(ticker["owner"].event)
    /\ ticker' = [ticker EXCEPT !["owner"].pc = "applied"]
    /\ UNCHANGED <<waits, control, sent, inputs, results, calls, lost, crashes>>

FailsSilently(p) ==
    /\ ticker[p].pc = "apply"
    /\ WriteResult(p, ticker[p].event, "applied")
    /\ UNCHANGED <<waits, control, sent, inputs, calls, page, late, lost, crashes>>
\* The page refuses the event, or the controller raises.
ApplyFails(p) ==
    /\ ticker[p].pc = "apply"
    /\ WriteResult(p, ticker[p].event, "failed")
    /\ UNCHANGED <<waits, control, sent, inputs, calls, page, late, lost, crashes>>

ReportApplied(p) ==
    /\ ticker[p].pc = "applied"
    /\ WriteResult(p, ticker[p].event, "applied")
    /\ UNCHANGED <<waits, control, sent, inputs, calls, page, late, lost, crashes>>

(***************************************************************************)
(* The owner's call queue: BrowserContextWorker._call and _run.            *)
(***************************************************************************)

ApplyByCall ==
    /\ ticker["main"].pc = "apply"
    /\ calls' = Append(calls, ticker["main"].event)
    /\ ticker' = [ticker EXCEPT !["main"].pc = "called"]
    /\ UNCHANGED <<waits, control, sent, inputs, results, page, late, lost, crashes>>

\* Calls run between the owner's own ticks.  A caller that has given up is not
\* there for the answer, and the call is made all the same.
RunCall ==
    /\ ticker["owner"].pc = "idle" /\ calls # <<>>
    /\ Applied(Head(calls))
    /\ calls' = Tail(calls)
    /\ ticker' = IF ticker["main"].pc = "called" /\ Len(calls) = 1
                 THEN [ticker EXCEPT !["main"].pc = "applied"] ELSE ticker
    /\ UNCHANGED <<waits, control, sent, inputs, results, lost, crashes>>

\* No answer within 20 s: queue.Empty is reported as a failed event.
CallTimesOut ==
    /\ ticker["main"].pc = "called"
    /\ WriteResult("main", ticker["main"].event, "failed")
    /\ UNCHANGED <<waits, control, sent, inputs, calls, page, late, lost, crashes>>

\* The sidecar dies and is started again; the files stay.
InMemory(p) == ToSet(ticker[p].batch) \cup ({ticker[p].event} \ {0})
Crash ==
    /\ crashes < MaxCrashes
    /\ crashes' = crashes + 1
    /\ lost' = lost \cup ToSet(calls) \cup UNION {InMemory(p) : p \in Tickers}
    /\ ticker' = [p \in Tickers |-> NoTick]
    /\ calls' = <<>>
    /\ UNCHANGED <<waits, control, sent, inputs, results, page, late>>

(***************************************************************************)
(* The specification.  Both threads of the sidecar run in endless loops;   *)
(* nothing obliges the client, the user or a crash.                        *)
(***************************************************************************)

Service(e) == Validate(e) \/ Enqueue(e) \/ ReadResult(e) \/ StopWaiting(e)

Tick(p) ==
    \/ StartTick(p) \/ ReadFile(p) \/ Unlink(p) \/ NextEvent(p) \/ CheckControl(p)
    \/ ApplyFails(p) \/ ReportApplied(p)

OwnerSteps == Tick("owner") \/ ApplyByOwner \/ RunCall
MainSteps == Tick("main") \/ ApplyByCall \/ CallTimesOut

Next ==
    \/ \E e \in Events : Service(e)
    \/ ReleaseControl
    \/ OwnerSteps
    \/ MainSteps
    \/ Crash

Spec == Init /\ [][Next]_vars /\ WF_vars(OwnerSteps) /\ WF_vars(MainSteps)

(***************************************************************************)
(* Properties.                                                             *)
(***************************************************************************)

TickSteps == {"idle", "read", "unlink", "next", "check", "apply", "applied", "called"}
TickRecord == [pc : TickSteps, paths : Seq(Events), batch : Seq(Events), event : Events \cup {0}]

\* Ticks work on events that were queued, and an event is named exactly while
\* it is being applied.
TypeOK ==
    /\ waits \in BOOLEAN /\ control \in {"user", "agent"}
    /\ sent \in [Events -> {"new", "valid", "refused", "waiting", "pending",
                            "applied", "failed"}]
    /\ inputs \subseteq Events
    /\ results \in [Events -> {"none", "applied", "failed"}]
    /\ ticker \in [Tickers -> TickRecord]
    /\ \A p \in Tickers :
          ticker[p].event # 0 <=> ticker[p].pc \in {"check", "apply", "applied", "called"}
    /\ calls \in Seq(Events) /\ page \in Seq(Events)
    /\ late \in Nat /\ lost \subseteq Events /\ crashes \in 0 .. MaxCrashes

\* With one ticking thread, the page gets every event at most once and in the
\* order the user made them, also across a crash and restart of the sidecar.
\* (With a waiting tool two ticks may both read a file before it is deleted.)
OnceInOrder == ~waits => \A i, j \in 1 .. Len(page) : i < j => page[i] < page[j]

\* With one ticking thread, at most the one event that was being applied
\* reaches the page after the user released control, whatever is queued.  (A
\* call that timed out stays in the owner's queue and may come later.)
ReleaseStopsInput == ~waits => late <= 1

\* A client that is told its event was applied can rely on it: it is on the
\* page, however ticks, timeouts, crashes and cleanups interleave.
SuccessIsTrue == \A e \in Events : sent[e] = "applied" => e \in ToSet(page)

\* A tick has files left to read only while it reads.
TicksSound ==
    \A p \in Tickers : /\ ticker[p].pc = "idle" => ticker[p] = NoTick
                       /\ ticker[p].pc = "unlink" => ticker[p].paths # <<>>
                       /\ ticker[p].pc \notin {"read", "unlink"} => ticker[p].paths = <<>>

\* Why a success is true: it is reported after the event reached the page,
\* and the main thread waits for the last call of the queue.
SuccessSound ==
    /\ \A e \in Events : results[e] = "applied" \/ sent[e] = "applied" => e \in ToSet(page)
    /\ \A p \in Tickers : ticker[p].pc = "applied" => ticker[p].event \in ToSet(page)
    /\ ticker["main"].pc = "called" =>
          calls # <<>> /\ calls[Len(calls)] = ticker["main"].event

\* Why the release stops the input: one thread is past its check at most, and
\* none passes it afterwards.
ReleaseSound ==
    /\ control = "user" => late = 0
    /\ ~waits => /\ ticker["main"] = NoTick /\ calls = <<>>
                 /\ late <= 1 /\ (late = 1 => ticker["owner"].pc # "apply")

\* Events are validated and queued in their order.
SentInOrder ==
    \A d, e \in Events : d < e => /\ sent[d] = "new" => sent[e] = "new"
                                  /\ sent[d] = "valid" => sent[e] \in {"new", "valid", "refused"}

Queued == {e \in Events : sent[e] \in {"waiting", "pending", "applied", "failed"}}
Below(S, T) == \A x \in S, y \in T : x < y

\* What the owner has applied or is applying, and what it has not read yet:
\* a file that was read and not yet deleted is in the batch already.
Past == ToSet(page) \cup ({ticker["owner"].event} \ {0})
Unread ==
    IF ticker["owner"].pc = "unlink"
    THEN ToSet(Tail(ticker["owner"].paths)) \cup (inputs \ {Head(ticker["owner"].paths)})
    ELSE ToSet(ticker["owner"].paths) \cup inputs

\* Why the order is kept: what is on the page comes before the event at hand,
\* that before the batch, and the batch before the files that are not read
\* yet; a file that was not listed comes after the listed ones.
Pipeline ==
    LET batch == ToSet(ticker["owner"].batch)
        listed == ToSet(ticker["owner"].paths)
    IN  /\ Sorted(page) /\ Sorted(ticker["owner"].batch) /\ Sorted(ticker["owner"].paths)
        /\ Past \cup batch \cup listed \cup inputs \subseteq Queued
        /\ ticker["owner"].pc \in {"check", "apply"} => Below(ToSet(page), {ticker["owner"].event})
        /\ Below(Past, batch \cup listed \cup inputs)
        /\ Below(batch, Unread)
        /\ Below(listed, inputs \ listed)

\* The inductive invariant.
RelayInv ==
    /\ TypeOK /\ TicksSound /\ SuccessSound /\ ReleaseSound /\ SentInOrder
    /\ ~waits => Pipeline

\* Every event that was queued gets a result, unless the sidecar died with it;
\* events behind one that failed are not forgotten.
EventsSettle == \A e \in Events : (e \in inputs) ~> (results[e] # "none" \/ e \in lost)
=============================================================================
