-------------------------- MODULE InputRelayProofs ---------------------------
(***************************************************************************)
(* Proofs about InputRelay, for any number of events and crashes: the type *)
(* invariant, that a reported success is true, and, with one ticking       *)
(* thread, that events reach the page once and in order and that the       *)
(* release of control stops all but one.                                   *)
(***************************************************************************)
EXTENDS InputRelay, FiniteSetTheorems, TLAPS

-----------------------------------------------------------------------------
(* Sequences.                                                               *)

(* What is taken from the front of a sequence, and what is left.            *)
LEMMA TakenFromFront ==
    ASSUME NEW S, NEW s \in Seq(S), s # <<>>
    PROVE  /\ Head(s) \in S /\ Head(s) \in ToSet(s)
           /\ Tail(s) \in Seq(S) /\ ToSet(Tail(s)) \subseteq ToSet(s)
           /\ ToSet(s) \subseteq ToSet(Tail(s)) \cup {Head(s)}
<1>1. /\ Head(s) = s[1] /\ 1 \in DOMAIN s /\ Tail(s) \in Seq(S) /\ Len(s) \in Nat
      /\ DOMAIN s = 1 .. Len(s) /\ DOMAIN Tail(s) = 1 .. Len(s) - 1
      /\ \A i \in 1 .. Len(s) - 1 : Tail(s)[i] = s[i + 1]
  OBVIOUS
<1>2. \A x \in ToSet(Tail(s)) : x \in ToSet(s)
  BY <1>1 DEF ToSet
<1>3. ASSUME NEW i \in DOMAIN s, i # 1 PROVE s[i] \in ToSet(Tail(s))
  <2>1. i - 1 \in DOMAIN Tail(s) /\ Tail(s)[i - 1] = s[i]
    BY <1>1, <1>3
  <2> QED
    BY <2>1 DEF ToSet
<1>4. \A x \in ToSet(s) : x \in ToSet(Tail(s)) \cup {Head(s)}
  BY <1>1, <1>3 DEF ToSet
<1> QED
  BY <1>1, <1>2, <1>4 DEF ToSet

(* The last element stays last.                                             *)
LEMMA LastOfTail ==
    ASSUME NEW S, NEW s \in Seq(S), s # <<>>, Len(s) # 1
    PROVE  Tail(s) # <<>> /\ Tail(s)[Len(Tail(s))] = s[Len(s)]
<1>1. PICK n \in Nat : n = Len(s)
  OBVIOUS
<1>2. n # 0 /\ n # 1
  BY <1>1
<1>3. n - 1 \in 1 .. n - 1 /\ (n - 1) + 1 = n /\ n - 1 > 0
  BY <1>2
<1>4. Len(Tail(s)) = n - 1 /\ \A i \in 1 .. n - 1 : Tail(s)[i] = s[i + 1]
  BY <1>1
<1>5. Tail(s)[n - 1] = s[n]
  BY <1>3, <1>4
<1>6. Tail(s) # <<>>
  <2>1. Len(<<>>) = 0 /\ n - 1 # 0
    BY <1>3
  <2> QED
    BY <1>4, <2>1, Zenon
<1> QED
  BY <1>1, <1>4, <1>5, <1>6

(* What an appended element adds.                                           *)
LEMMA Added ==
    ASSUME NEW S, NEW s \in Seq(S), NEW e \in S
    PROVE  /\ Append(s, e) \in Seq(S) /\ ToSet(Append(s, e)) = ToSet(s) \cup {e}
           /\ Append(s, e) # <<>> /\ Append(s, e)[Len(Append(s, e))] = e
<1>1. /\ Append(s, e) \in Seq(S) /\ Len(s) \in Nat
      /\ DOMAIN s = 1 .. Len(s) /\ DOMAIN Append(s, e) = 1 .. Len(s) + 1
      /\ \A i \in 1 .. Len(s) : Append(s, e)[i] = s[i]
      /\ Append(s, e)[Len(s) + 1] = e /\ Len(Append(s, e)) = Len(s) + 1
  OBVIOUS
<1>2. \A x \in ToSet(Append(s, e)) : x \in ToSet(s) \cup {e}
  <2> SUFFICES ASSUME NEW i \in 1 .. Len(s) + 1 PROVE Append(s, e)[i] \in ToSet(s) \cup {e}
    BY <1>1 DEF ToSet
  <2>1. CASE i = Len(s) + 1
    BY <1>1, <2>1
  <2>2. CASE i # Len(s) + 1
    BY <1>1, <2>2 DEF ToSet
  <2> QED
    BY <2>1, <2>2
<1>3. \A x \in ToSet(s) \cup {e} : x \in ToSet(Append(s, e))
  <2>1. e \in ToSet(Append(s, e))
    BY <1>1 DEF ToSet
  <2>2. \A i \in 1 .. Len(s) : s[i] \in ToSet(Append(s, e))
    BY <1>1 DEF ToSet
  <2> QED
    BY <1>1, <2>1, <2>2 DEF ToSet
<1> QED
  BY <1>1, <1>2, <1>3

(* The rest of a sorted sequence is sorted and comes after its head.        *)
LEMMA SortedTail ==
    ASSUME NEW s \in Seq(Events), s # <<>>, Sorted(s)
    PROVE  Sorted(Tail(s)) /\ Below({Head(s)}, ToSet(Tail(s)))
<1>1. /\ Head(s) = s[1] /\ 1 \in DOMAIN s /\ Len(s) \in Nat
      /\ DOMAIN s = 1 .. Len(s) /\ DOMAIN Tail(s) = 1 .. Len(s) - 1
      /\ \A i \in 1 .. Len(s) - 1 : Tail(s)[i] = s[i + 1] /\ i + 1 \in DOMAIN s /\ i \in Nat /\ i > 0
  OBVIOUS
<1>2. Sorted(Tail(s))
  <2> SUFFICES ASSUME NEW i \in DOMAIN Tail(s), NEW j \in DOMAIN Tail(s), i < j
               PROVE  Tail(s)[i] < Tail(s)[j]
    BY DEF Sorted
  <2>1. i + 1 \in DOMAIN s /\ j + 1 \in DOMAIN s /\ i + 1 < j + 1
    BY <1>1
  <2> QED
    BY <1>1, <2>1 DEF Sorted
<1>3. ASSUME NEW i \in 1 .. Len(s) - 1 PROVE s[1] < s[i + 1]
  <2>1. i + 1 \in DOMAIN s /\ 1 < i + 1
    BY <1>1
  <2> QED
    BY <1>1, <2>1 DEF Sorted
<1> QED
  BY <1>1, <1>2, <1>3 DEF Below, ToSet

(* A later event keeps a sequence sorted.                                   *)
LEMMA SortedAppend ==
    ASSUME NEW s \in Seq(Events), NEW e \in Events, Sorted(s), Below(ToSet(s), {e})
    PROVE  Sorted(Append(s, e))
<1>1. /\ Len(s) \in Nat /\ DOMAIN s = 1 .. Len(s) /\ DOMAIN Append(s, e) = 1 .. Len(s) + 1
      /\ \A i \in 1 .. Len(s) : Append(s, e)[i] = s[i]
      /\ Append(s, e)[Len(s) + 1] = e
  OBVIOUS
<1> SUFFICES ASSUME NEW i \in 1 .. Len(s) + 1, NEW j \in 1 .. Len(s) + 1, i < j
             PROVE  Append(s, e)[i] < Append(s, e)[j]
  BY <1>1 DEF Sorted
<1>2. i \in 1 .. Len(s)
  BY <1>1
<1>3. CASE j = Len(s) + 1
  BY <1>1, <1>2, <1>3 DEF Below, ToSet
<1>4. CASE j # Len(s) + 1
  <2>1. j \in 1 .. Len(s)
    BY <1>1, <1>4
  <2> QED
    BY <1>1, <1>2, <2>1 DEF Sorted
<1> QED
  BY <1>3, <1>4

(* The empty sequence.                                                      *)
LEMMA Empty == Sorted(<<>>) /\ ToSet(<<>>) = {} /\ <<>> \in Seq(Events)
BY DEF Sorted, ToSet

(* A listing of files is a sorted sequence of all of them.                  *)
LEMMA ListingIsSequence ==
    ASSUME NEW S \in SUBSET Events, NEW s \in Listings(S)
    PROVE  s \in Seq(Events) /\ ToSet(s) = S /\ Sorted(s)
<1>1. IsFiniteSet(S)
  <2>1. MaxEvents \in Int /\ 1 \in Int
    BY RelayAssumption
  <2>2. IsFiniteSet(Events)
    BY <2>1, FS_Interval DEF Events
  <2> QED
    BY <2>2, FS_Subset
<1>2. Cardinality(S) \in Nat
  BY <1>1, FS_CardinalityType
<1>3. s \in [1 .. Cardinality(S) -> S]
  BY Zenon DEF Listings
<1>4. s \in [1 .. Cardinality(S) -> Events]
  BY <1>3
<1>5. s \in Seq(Events)
  BY <1>2, <1>4
<1> QED
  BY <1>5 DEF Listings

-----------------------------------------------------------------------------
(* The ticks.                                                               *)

(* Writing the fields of one tick leaves a record for every tick, and the   *)
(* other ticks alone.                                                       *)
LEMMA TickColumns ==
    ASSUME NEW t \in [Tickers -> TickRecord], NEW p \in Tickers
    PROVE  /\ \A x \in TickSteps : [t EXCEPT ![p].pc = x] \in [Tickers -> TickRecord]
           /\ \A x \in Seq(Events) : [t EXCEPT ![p].paths = x] \in [Tickers -> TickRecord]
           /\ \A x \in Seq(Events) : [t EXCEPT ![p].batch = x] \in [Tickers -> TickRecord]
           /\ \A x \in Events \cup {0} : [t EXCEPT ![p].event = x] \in [Tickers -> TickRecord]
BY DEF TickRecord

(* A step sets the fields of one tick and leaves the other alone.           *)
Sets(p, pc, paths, batch, event) ==
    /\ ticker' \in [Tickers -> TickRecord]
    /\ ticker'[p].pc = pc /\ ticker'[p].paths = paths
    /\ ticker'[p].batch = batch /\ ticker'[p].event = event
    /\ \A q \in Tickers \ {p} : ticker'[q] = ticker[q]

LEMMA TickFields ==
    ASSUME TypeOK, NEW p \in Tickers
    PROVE  /\ ticker \in [Tickers -> TickRecord]
           /\ ticker[p].pc \in TickSteps /\ ticker[p].paths \in Seq(Events)
           /\ ticker[p].batch \in Seq(Events) /\ ticker[p].event \in Events \cup {0}
           /\ 0 \notin Events /\ NoTick \in TickRecord
BY RelayAssumption DEF TypeOK, TickRecord, NoTick, TickSteps, Events

LEMMA StartTickSets ==
    ASSUME TypeOK, NEW p \in Tickers, StartTick(p)
    PROVE  \E listing \in Listings(inputs) : Sets(p, "read", listing, <<>>, 0)
<1>1. PICK listing \in Listings(inputs) :
         ticker' = [ticker EXCEPT ![p] = [NoTick EXCEPT !.pc = "read", !.paths = listing]]
  BY Zenon DEF StartTick
<1>2. listing \in Seq(Events)
  BY ListingIsSequence DEF TypeOK
<1>3. [NoTick EXCEPT !.pc = "read", !.paths = listing] \in TickRecord
  BY <1>2, TickFields DEF TickRecord, NoTick, TickSteps
<1>4. ticker'[p] = [NoTick EXCEPT !.pc = "read", !.paths = listing]
  BY <1>1, TickFields
<1> QED
  BY <1>1, <1>3, <1>4, TickFields DEF Sets, NoTick

LEMMA ReadFileSets ==
    ASSUME TypeOK, NEW p \in Tickers, ReadFile(p)
    PROVE  LET e == Head(ticker[p].paths)
           IN  Sets(p, "unlink", ticker[p].paths,
                    IF e \in inputs THEN Append(ticker[p].batch, e) ELSE ticker[p].batch, ticker[p].event)
<1> DEFINE b == IF Head(ticker[p].paths) \in inputs
                THEN Append(ticker[p].batch, Head(ticker[p].paths)) ELSE ticker[p].batch
<1>1. b \in Seq(Events) /\ "unlink" \in TickSteps
  BY TickFields, TakenFromFront, Added DEF ReadFile, TickSteps
<1>2. ticker' = [ticker EXCEPT ![p].pc = "unlink", ![p].batch = b]
  BY TickFields DEF ReadFile, TickRecord
<1> HIDE DEF b
<1>3. ticker' \in [Tickers -> TickRecord]
  BY <1>1, <1>2, TickFields, TickColumns
<1>4. /\ ticker'[p].pc = "unlink" /\ ticker'[p].paths = ticker[p].paths
      /\ ticker'[p].batch = b /\ ticker'[p].event = ticker[p].event
      /\ \A q \in Tickers \ {p} : ticker'[q] = ticker[q]
  BY <1>2, TickFields DEF TickRecord
<1> QED
  BY <1>3, <1>4 DEF Sets, b

LEMMA UnlinkSets ==
    ASSUME TypeOK, TicksSound, NEW p \in Tickers, Unlink(p)
    PROVE  Sets(p, "read", Tail(ticker[p].paths), ticker[p].batch, ticker[p].event)
<1>1. ticker[p].paths # <<>>
  BY DEF Unlink, TicksSound
<1>2. Tail(ticker[p].paths) \in Seq(Events) /\ "read" \in TickSteps
  BY <1>1, TickFields, TakenFromFront DEF TickSteps
<1>3. ticker' = [ticker EXCEPT ![p].pc = "read", ![p].paths = Tail(ticker[p].paths)]
  BY TickFields DEF Unlink, TickRecord
<1>4. ticker' \in [Tickers -> TickRecord]
  BY <1>2, <1>3, TickFields, TickColumns
<1> QED
  BY <1>3, <1>4, TickFields DEF Sets, TickRecord

LEMMA NextEventSets ==
    ASSUME TypeOK, NEW p \in Tickers, NextEvent(p)
    PROVE  \/ Sets(p, "idle", <<>>, <<>>, 0) /\ ticker'[p] = NoTick /\ ticker[p].batch = <<>>
           \/ /\ Sets(p, "check", <<>>, Tail(ticker[p].batch), Head(ticker[p].batch))
              /\ ticker[p].batch # <<>>
<1>1. CASE ticker[p].batch = <<>>
  BY <1>1, TickFields DEF NextEvent, Sets, NoTick
<1>2. CASE ticker[p].batch # <<>>
  <2>1. /\ Tail(ticker[p].batch) \in Seq(Events) /\ "check" \in TickSteps
        /\ Head(ticker[p].batch) \in Events \cup {0}
    BY <1>2, TickFields, TakenFromFront DEF TickSteps
  <2>2. ticker' = [ticker EXCEPT ![p].pc = "check", ![p].batch = Tail(ticker[p].batch),
                                 ![p].event = Head(ticker[p].batch)]
    BY <1>2, TickFields DEF NextEvent, TickRecord
  <2>3. ticker' \in [Tickers -> TickRecord]
    BY <2>1, <2>2, TickFields, TickColumns
  <2>4. ticker[p].paths = <<>>
    BY DEF NextEvent
  <2> QED
    BY <1>2, <2>2, <2>3, <2>4, TickFields DEF Sets, TickRecord
<1> QED
  BY <1>1, <1>2

LEMMA WriteResultSets ==
    ASSUME TypeOK, NEW p \in Tickers, NEW e, NEW r, WriteResult(p, e, r)
    PROVE  Sets(p, "next", ticker[p].paths, ticker[p].batch, 0)
<1>1. ticker' = [ticker EXCEPT ![p].pc = "next", ![p].event = 0] /\ "next" \in TickSteps
  BY DEF WriteResult, TickSteps
<1>2. ticker' \in [Tickers -> TickRecord]
  BY <1>1, TickFields, TickColumns
<1> QED
  BY <1>1, <1>2, TickFields DEF Sets, TickRecord

LEMMA PcSets ==
    ASSUME TypeOK, NEW p \in Tickers, NEW x \in TickSteps, ticker' = [ticker EXCEPT ![p].pc = x]
    PROVE  Sets(p, x, ticker[p].paths, ticker[p].batch, ticker[p].event)
<1>1. ticker' \in [Tickers -> TickRecord]
  BY TickFields, TickColumns
<1> QED
  BY <1>1, TickFields DEF Sets, TickRecord

(* The part of the type invariant about the ticks, with TicksSound.         *)
Ticks ==
    /\ ticker \in [Tickers -> TickRecord]
    /\ \A p \in Tickers :
          ticker[p].event # 0 <=> ticker[p].pc \in {"check", "apply", "applied", "called"}
    /\ TicksSound

LEMMA TicksKept ==
    ASSUME Ticks, NEW p \in Tickers, NEW pc, NEW paths, NEW batch, NEW event,
           Sets(p, pc, paths, batch, event),
           event # 0 <=> pc \in {"check", "apply", "applied", "called"},
           pc = "idle" => ticker'[p] = NoTick,
           pc = "unlink" => paths # <<>>,
           pc \notin {"read", "unlink"} => paths = <<>>
    PROVE  Ticks'
<1> SUFFICES ASSUME NEW q \in Tickers
             PROVE  /\ ticker'[q].event # 0 <=> ticker'[q].pc \in {"check", "apply", "applied", "called"}
                    /\ ticker'[q].pc = "idle" => ticker'[q] = NoTick
                    /\ ticker'[q].pc = "unlink" => ticker'[q].paths # <<>>
                    /\ ticker'[q].pc \notin {"read", "unlink"} => ticker'[q].paths = <<>>
  BY DEF Ticks, TicksSound, Sets
<1>1. CASE q = p
  BY <1>1 DEF Sets
<1>2. CASE q # p
  <2>1. ticker'[q] = ticker[q]
    BY <1>2 DEF Sets
  <2> QED
    BY <2>1 DEF Ticks, TicksSound
<1> QED
  BY <1>1, <1>2

(* The steps of a tick follow each other as in the code.                    *)
LEMMA NextTicks ==
    ASSUME TypeOK, TicksSound, [Next]_vars
    PROVE  Ticks'
<1>1. Ticks /\ 0 \notin Events /\ Tickers = {"owner", "main"}
  BY RelayAssumption DEF Ticks, TypeOK, Events, Tickers
<1>2. CASE UNCHANGED ticker
  BY <1>1, <1>2 DEF Ticks, TicksSound
<1>3. ASSUME NEW p \in Tickers, StartTick(p) PROVE Ticks'
  <2>1. PICK listing \in Listings(inputs) : Sets(p, "read", listing, <<>>, 0)
    BY <1>3, StartTickSets
  <2> QED
    BY <1>1, <2>1, TicksKept
<1>4. ASSUME NEW p \in Tickers, ReadFile(p) PROVE Ticks'
  <2>1. ticker[p].pc = "read" /\ ticker[p].event = 0 /\ ticker[p].paths # <<>>
    BY <1>1, <1>4 DEF ReadFile, Ticks
  <2>2. PICK b : Sets(p, "unlink", ticker[p].paths, b, ticker[p].event)
    BY <1>4, ReadFileSets
  <2> QED
    BY <1>1, <2>1, <2>2, TicksKept
<1>5. ASSUME NEW p \in Tickers, Unlink(p) PROVE Ticks'
  <2>1. ticker[p].event = 0
    BY <1>1, <1>5 DEF Unlink, Ticks
  <2> QED
    BY <1>1, <1>5, <2>1, UnlinkSets, TicksKept
<1>6. ASSUME NEW p \in Tickers, NextEvent(p) PROVE Ticks'
  <2>1. CASE Sets(p, "idle", <<>>, <<>>, 0) /\ ticker'[p] = NoTick
    BY <1>1, <2>1, TicksKept
  <2>2. CASE /\ Sets(p, "check", <<>>, Tail(ticker[p].batch), Head(ticker[p].batch))
             /\ ticker[p].batch # <<>>
    <3>1. Head(ticker[p].batch) \in Events
      BY <2>2, TickFields, TakenFromFront
    <3>2. Head(ticker[p].batch) # 0
      BY <1>1, <3>1
    <3> QED
      BY <1>1, <2>2, <3>2, TicksKept
  <2> QED
    BY <1>6, <2>1, <2>2, NextEventSets
<1>7. ASSUME NEW p \in Tickers, NEW e, NEW r, WriteResult(p, e, r),
             ticker[p].pc \in {"check", "apply", "applied", "called"}
      PROVE  Ticks'
  <2>1. ticker[p].paths = <<>>
    BY <1>1, <1>7 DEF Ticks, TicksSound
  <2> QED
    BY <1>1, <1>7, <2>1, WriteResultSets, TicksKept
<1>8. ASSUME NEW p \in Tickers, NEW x \in {"apply", "applied", "called"},
             ticker[p].pc \in {"check", "apply", "called"},
             ticker' = [ticker EXCEPT ![p].pc = x]
      PROVE  Ticks'
  <2>1. ticker[p].paths = <<>> /\ ticker[p].event # 0 /\ x \in TickSteps
    BY <1>1, <1>8 DEF Ticks, TicksSound, TickSteps
  <2>2. Sets(p, x, ticker[p].paths, ticker[p].batch, ticker[p].event)
    BY <1>8, <2>1, PcSets
  <2> QED
    BY <1>1, <1>8, <2>1, <2>2, TicksKept
<1>9. ASSUME NEW p \in Tickers, CheckControl(p) PROVE Ticks'
  BY <1>7, <1>8, <1>9 DEF CheckControl
<1>10. ASSUME NEW p \in Tickers, ApplyFails(p) \/ ReportApplied(p) PROVE Ticks'
  BY <1>7, <1>10 DEF ApplyFails, ReportApplied
<1>11. CASE ApplyByOwner \/ ApplyByCall
  BY <1>1, <1>8, <1>11 DEF ApplyByOwner, ApplyByCall
<1>12. CASE RunCall
  BY <1>1, <1>2, <1>8, <1>12 DEF RunCall
<1>13. CASE CallTimesOut
  BY <1>1, <1>7, <1>13 DEF CallTimesOut
<1>14. CASE Crash
  <2>1. \A p \in Tickers : ticker'[p] = NoTick
    BY <1>14 DEF Crash
  <2>2. ticker' \in [Tickers -> TickRecord]
    BY <1>1, <1>14, TickFields DEF Crash
  <2> QED
    BY <2>1, <2>2 DEF Ticks, TicksSound, NoTick
<1>15. CASE (\E e \in Events : Service(e)) \/ ReleaseControl \/ UNCHANGED vars
  BY <1>2, <1>15 DEF Service, Validate, Enqueue, ReadResult, StopWaiting, ReleaseControl, vars
<1> QED
  BY <1>1, <1>3, <1>4, <1>5, <1>6, <1>9, <1>10, <1>11, <1>12, <1>13, <1>14, <1>15
     DEF Next, OwnerSteps, MainSteps, Tick

(* The event of a tick, while it has one.                                   *)
LEMMA NamedEvent ==
    ASSUME TypeOK, NEW p \in Tickers, ticker[p].pc \in {"check", "apply", "applied", "called"}
    PROVE  ticker[p].event \in Events
BY TickFields DEF TypeOK

LEMMA NextTypes ==
    ASSUME TypeOK, TicksSound, [Next]_vars
    PROVE  TypeOK'
<1> DEFINE Sent == {"new", "valid", "refused", "waiting", "pending", "applied", "failed"}
           Result == {"none", "applied", "failed"}
<1>1. /\ waits \in BOOLEAN /\ control \in {"user", "agent"} /\ sent \in [Events -> Sent]
      /\ inputs \subseteq Events /\ results \in [Events -> Result]
      /\ calls \in Seq(Events) /\ page \in Seq(Events)
      /\ late \in Nat /\ lost \subseteq Events /\ crashes \in 0 .. MaxCrashes
  BY DEF TypeOK
<1>2. \A e \in Events : \A x \in Sent : [sent EXCEPT ![e] = x] \in [Events -> Sent]
  BY <1>1
<1>3. \A e \in Events : \A x \in Result : [results EXCEPT ![e] = x] \in [Events -> Result]
  BY <1>1
<1>4. ASSUME NEW p \in Tickers, NEW e \in Events, NEW x \in Result, WriteResult(p, e, x)
      PROVE  results' \in [Events -> Result]
  BY <1>3, <1>4 DEF WriteResult
<1>5. ASSUME NEW e \in Events, Applied(e) PROVE page' \in Seq(Events) /\ late' \in Nat
  BY <1>1, <1>5 DEF Applied
<1>6. ASSUME NEW p \in Tickers, CheckControl(p) \/ ApplyFails(p) \/ ReportApplied(p)
      PROVE  results' \in [Events -> Result]
  <2>1. ticker[p].event \in Events
    BY <1>6, NamedEvent DEF CheckControl, ApplyFails, ReportApplied
  <2> QED
    BY <1>1, <1>4, <1>6, <2>1 DEF CheckControl, ApplyFails, ReportApplied
<1>7. CallTimesOut => results' \in [Events -> Result]
  BY <1>4, NamedEvent DEF CallTimesOut, Tickers
<1>8. waits' = waits /\ control' \in {"user", "agent"}
  BY <1>1, Zenon DEF Next, Service, OwnerSteps, MainSteps, Tick, Validate, Enqueue, ReadResult, StopWaiting,
          ReleaseControl, StartTick, ReadFile, Unlink, NextEvent, CheckControl, ApplyFails,
          ReportApplied, ApplyByOwner, RunCall, ApplyByCall, CallTimesOut, Crash, vars
<1>9. Ticks'
  BY NextTicks
<1>10. ASSUME sent' \in [Events -> Sent], inputs' \subseteq Events, results' \in [Events -> Result],
              calls' \in Seq(Events), page' \in Seq(Events),
              late' \in Nat, lost' \subseteq Events, crashes' \in 0 .. MaxCrashes
       PROVE  TypeOK'
  BY <1>1, <1>8, <1>9, <1>10 DEF Ticks, TypeOK
<1> HIDE DEF Sent, Result
<1>11. ASSUME NEW e \in Events, Service(e) PROVE TypeOK'
  <2>1. sent' \in [Events -> Sent]
    <3>1. results[e] # "none" => results[e] \in Sent
      BY <1>1 DEF Sent, Result
    <3> QED
      BY <1>2, <1>11, <3>1 DEF Service, Validate, Enqueue, ReadResult, StopWaiting, Sent
  <2>2. inputs' \subseteq Events
    BY <1>1, <1>11 DEF Service, Validate, Enqueue, ReadResult, StopWaiting
  <2>3. results' \in [Events -> Result]
    BY <1>1, <1>3, <1>11 DEF Service, Validate, Enqueue, ReadResult, StopWaiting, Result
  <2>4. UNCHANGED <<calls, page, late, lost, crashes>>
    BY <1>11 DEF Service, Validate, Enqueue, ReadResult, StopWaiting
  <2> QED
    BY <1>1, <1>10, <2>1, <2>2, <2>3, <2>4
<1>12. ASSUME NEW p \in Tickers, Tick(p) PROVE TypeOK'
  <2>1. results' \in [Events -> Result]
    <3>1. CASE StartTick(p)
      BY <1>1, <3>1 DEF StartTick, Result
    <3>2. CASE ~StartTick(p)
      BY <1>1, <1>6, <1>12, <3>2 DEF Tick, ReadFile, Unlink, NextEvent
    <3> QED
      BY <3>1, <3>2
  <2>2. inputs' \subseteq Events /\ UNCHANGED <<sent, calls, page, late, lost, crashes>>
    BY <1>1, <1>12 DEF Tick, StartTick, ReadFile, Unlink, NextEvent, CheckControl, ApplyFails, ReportApplied
  <2> QED
    BY <1>1, <1>10, <2>1, <2>2
<1>13. CASE ApplyByOwner
  <2>1. ticker["owner"].event \in Events
    BY <1>13, NamedEvent DEF ApplyByOwner, Tickers
  <2> QED
    BY <1>1, <1>5, <1>10, <1>13, <2>1 DEF ApplyByOwner
<1>14. CASE RunCall
  <2>1. Head(calls) \in Events /\ Tail(calls) \in Seq(Events)
    BY <1>1, <1>14, TakenFromFront DEF RunCall
  <2> QED
    BY <1>1, <1>5, <1>10, <1>14, <2>1 DEF RunCall
<1>15. CASE ApplyByCall
  <2>1. ticker["main"].event \in Events
    BY <1>15, NamedEvent DEF ApplyByCall, Tickers
  <2>2. calls' \in Seq(Events)
    BY <1>1, <1>15, <2>1 DEF ApplyByCall
  <2> QED
    BY <1>1, <1>10, <1>15, <2>2 DEF ApplyByCall
<1>16. CASE CallTimesOut
  BY <1>1, <1>7, <1>10, <1>16 DEF CallTimesOut
<1>17. CASE Crash
  <2>1. crashes' \in 0 .. MaxCrashes
    BY <1>1, <1>17, RelayAssumption DEF Crash
  <2>2. \A p \in Tickers : InMemory(p) \subseteq Events
    BY TickFields DEF InMemory, ToSet
  <2>3. ToSet(calls) \subseteq Events
    BY <1>1 DEF ToSet
  <2>4. lost' \subseteq Events
    BY <1>1, <1>17, <2>2, <2>3 DEF Crash
  <2> QED
    BY <1>1, <1>10, <1>17, <2>1, <2>4 DEF Crash
<1>18. CASE ReleaseControl \/ UNCHANGED vars
  BY <1>1, <1>10, <1>18 DEF ReleaseControl, vars
<1> QED
  BY <1>11, <1>12, <1>13, <1>14, <1>15, <1>16, <1>17, <1>18 DEF Next, OwnerSteps, MainSteps, Tickers

(* What is on the page stays on it.                                         *)
LEMMA PageGrows ==
    ASSUME TypeOK, TicksSound, [Next]_vars
    PROVE  /\ ToSet(page) \subseteq ToSet(page')
           /\ ApplyByOwner => ticker["owner"].event \in ToSet(page')
           /\ RunCall => Head(calls) \in ToSet(page')
<1>1. ASSUME NEW e \in Events, Applied(e)
      PROVE  ToSet(page) \subseteq ToSet(page') /\ e \in ToSet(page')
  BY <1>1, Added DEF Applied, TypeOK
<1>2. ApplyByOwner => ticker["owner"].event \in Events
  BY NamedEvent DEF ApplyByOwner, Tickers
<1>3. RunCall => Head(calls) \in Events
  BY TakenFromFront DEF RunCall, TypeOK
<1>4. ~ApplyByOwner /\ ~RunCall => page' = page
  BY Zenon DEF Next, Service, OwnerSteps, MainSteps, Tick, Validate, Enqueue, ReadResult, StopWaiting,
         ReleaseControl, StartTick, ReadFile, Unlink, NextEvent, CheckControl, ApplyFails,
         ReportApplied, ApplyByCall, CallTimesOut, Crash, vars
<1> QED
  BY <1>1, <1>2, <1>3, <1>4 DEF ApplyByOwner, RunCall

-----------------------------------------------------------------------------
(* Reported successes.                                                      *)

(* A result is "applied" only if the tick that writes it has applied the    *)
(* event, and a POST answers what a result file says.                       *)
LEMMA ResultsTrue ==
    ASSUME TypeOK, TicksSound, SuccessSound, [Next]_vars, NEW e \in Events,
           results'[e] = "applied" \/ sent'[e] = "applied"
    PROVE  e \in ToSet(page')
<1>1. results \in [Events -> {"none", "applied", "failed"}] /\ DOMAIN sent = Events
  BY DEF TypeOK
<1>2. SUFFICES \/ results[e] = "applied" \/ sent[e] = "applied"
               \/ \E p \in Tickers : ReportApplied(p) /\ ticker[p].event = e
  BY <1>2, PageGrows DEF SuccessSound, ReportApplied
<1>3. ASSUME NEW d \in Events, Service(d) PROVE results[e] = "applied" \/ sent[e] = "applied"
  BY <1>1, <1>3 DEF Service, Validate, Enqueue, ReadResult, StopWaiting
<1>4. ASSUME NEW p \in Tickers, Tick(p), ~ReportApplied(p)
      PROVE  results[e] = "applied" \/ sent[e] = "applied"
  <2>1. sent' = sent
    BY <1>4, Zenon DEF Tick, StartTick, ReadFile, Unlink, NextEvent, CheckControl, ApplyFails
  <2>2. results'[e] = "applied" => results[e] = "applied"
    BY <1>1, <1>4
       DEF Tick, StartTick, ReadFile, Unlink, NextEvent, CheckControl, ApplyFails, WriteResult
  <2> QED
    BY <2>1, <2>2
<1>5. ASSUME NEW p \in Tickers, ReportApplied(p)
      PROVE  ticker[p].event = e \/ results[e] = "applied" \/ sent[e] = "applied"
  BY <1>1, <1>5 DEF ReportApplied, WriteResult
<1>6. CASE ApplyByOwner \/ RunCall \/ ApplyByCall \/ CallTimesOut \/ Crash \/ ReleaseControl \/ UNCHANGED vars
  BY <1>1, <1>6 DEF ApplyByOwner, RunCall, ApplyByCall, CallTimesOut, Crash, ReleaseControl, WriteResult, vars
<1> QED
  BY <1>3, <1>4, <1>5, <1>6 DEF Next, OwnerSteps, MainSteps, Tickers

(* A tick that is past the page has its event on it.                        *)
LEMMA TicksTrue ==
    ASSUME TypeOK, TicksSound, SuccessSound, [Next]_vars, NEW p \in Tickers, ticker'[p].pc = "applied"
    PROVE  ticker'[p].event \in ToSet(page')
<1>1. ASSUME ticker'[p] = ticker[p] PROVE ticker'[p].event \in ToSet(page')
  BY <1>1, PageGrows DEF SuccessSound
<1>2. ASSUME NEW q \in Tickers, NEW pc, NEW a, NEW b, NEW c, Sets(q, pc, a, b, c), pc # "applied"
      PROVE  ticker'[p].event \in ToSet(page')
  BY <1>1, <1>2 DEF Sets
<1>3. ASSUME NEW q \in Tickers, Tick(q) PROVE ticker'[p].event \in ToSet(page')
  <2>1. CASE StartTick(q)
    BY <1>2, <2>1, StartTickSets
  <2>2. CASE ReadFile(q)
    BY <1>2, <2>2, ReadFileSets
  <2>3. CASE Unlink(q)
    BY <1>2, <2>3, UnlinkSets
  <2>4. CASE NextEvent(q)
    BY <1>2, <2>4, NextEventSets
  <2>5. CASE CheckControl(q)
    <3>1. CASE ticker' = [ticker EXCEPT ![q].pc = "apply"]
      <4>1. "apply" \in TickSteps
        BY DEF TickSteps
      <4>2. Sets(q, "apply", ticker[q].paths, ticker[q].batch, ticker[q].event)
        BY <3>1, <4>1, PcSets
      <4> QED
        BY <1>2, <4>2
    <3>2. CASE WriteResult(q, ticker[q].event, "failed")
      BY <1>2, <3>2, WriteResultSets
    <3> QED
      BY <2>5, <3>1, <3>2 DEF CheckControl
  <2>6. CASE ApplyFails(q) \/ ReportApplied(q)
    BY <1>2, <2>6, WriteResultSets DEF ApplyFails, ReportApplied
  <2> QED
    BY <1>3, <2>1, <2>2, <2>3, <2>4, <2>5, <2>6 DEF Tick
<1>4. CASE ApplyByOwner
  <2>1. Sets("owner", "applied", ticker["owner"].paths, ticker["owner"].batch, ticker["owner"].event)
    BY <1>4, PcSets DEF ApplyByOwner, Tickers, TickSteps
  <2>2. CASE p = "owner"
    BY <1>4, <2>1, <2>2, PageGrows DEF Sets
  <2>3. CASE p # "owner"
    BY <1>1, <2>1, <2>3 DEF Sets
  <2> QED
    BY <2>2, <2>3
<1>5. CASE RunCall
  <2>1. CASE ticker' = ticker
    BY <1>1, <2>1
  <2>2. CASE ticker' # ticker
    <3>1. /\ ticker["main"].pc = "called" /\ Len(calls) = 1
          /\ ticker' = [ticker EXCEPT !["main"].pc = "applied"]
      BY <1>5, <2>2 DEF RunCall
    <3>2. Sets("main", "applied", ticker["main"].paths, ticker["main"].batch, ticker["main"].event)
      BY <3>1, PcSets DEF Tickers, TickSteps
    <3>3. Head(calls) = ticker["main"].event
      BY <3>1 DEF SuccessSound, TypeOK
    <3>4. CASE p = "main"
      BY <1>5, <3>2, <3>3, <3>4, PageGrows DEF Sets
    <3>5. CASE p # "main"
      BY <1>1, <3>2, <3>5 DEF Sets
    <3> QED
      BY <3>4, <3>5
  <2> QED
    BY <2>1, <2>2
<1>6. CASE ApplyByCall
  BY <1>2, <1>6, PcSets DEF ApplyByCall, Tickers, TickSteps
<1>7. CASE CallTimesOut
  BY <1>2, <1>7, WriteResultSets DEF CallTimesOut, Tickers
<1>8. CASE Crash
  BY <1>8 DEF Crash, NoTick
<1>9. CASE (\E e \in Events : Service(e)) \/ ReleaseControl \/ UNCHANGED vars
  BY <1>1, <1>9 DEF Service, Validate, Enqueue, ReadResult, StopWaiting, ReleaseControl, vars
<1> QED
  BY <1>3, <1>4, <1>5, <1>6, <1>7, <1>8, <1>9 DEF Next, OwnerSteps, MainSteps, Tickers

(* The main thread waits for the last call of the queue.                    *)
LEMMA CallsTrue ==
    ASSUME TypeOK, TicksSound, SuccessSound, [Next]_vars, ticker'["main"].pc = "called"
    PROVE  calls' # <<>> /\ calls'[Len(calls')] = ticker'["main"].event
<1> DEFINE Goal == calls' # <<>> /\ calls'[Len(calls')] = ticker'["main"].event
<1>0. "main" \in Tickers /\ "owner" \in Tickers /\ calls \in Seq(Events)
  BY DEF Tickers, TypeOK
<1>1. ASSUME ticker'["main"] = ticker["main"], calls' = calls PROVE Goal
  BY <1>1 DEF SuccessSound
<1>2. ASSUME NEW q \in Tickers, NEW pc, NEW a, NEW b, NEW c, Sets(q, pc, a, b, c), pc # "called",
             calls' = calls
      PROVE  Goal
  BY <1>0, <1>1, <1>2 DEF Sets
<1>3. ASSUME NEW q \in Tickers, Tick(q) PROVE Goal
  <2>0. calls' = calls
    BY <1>3 DEF Tick, StartTick, ReadFile, Unlink, NextEvent, CheckControl, ApplyFails, ReportApplied
  <2>1. CASE StartTick(q)
    BY <1>2, <2>0, <2>1, StartTickSets
  <2>2. CASE ReadFile(q)
    BY <1>2, <2>0, <2>2, ReadFileSets
  <2>3. CASE Unlink(q)
    BY <1>2, <2>0, <2>3, UnlinkSets
  <2>4. CASE NextEvent(q)
    BY <1>2, <2>0, <2>4, NextEventSets
  <2>5. CASE CheckControl(q)
    <3>1. CASE ticker' = [ticker EXCEPT ![q].pc = "apply"]
      <4>1. "apply" \in TickSteps
        BY DEF TickSteps
      <4>2. Sets(q, "apply", ticker[q].paths, ticker[q].batch, ticker[q].event)
        BY <3>1, <4>1, PcSets
      <4> QED
        BY <1>2, <2>0, <4>2
    <3>2. CASE WriteResult(q, ticker[q].event, "failed")
      BY <1>2, <2>0, <3>2, WriteResultSets
    <3> QED
      BY <2>5, <3>1, <3>2 DEF CheckControl
  <2>6. CASE ApplyFails(q) \/ ReportApplied(q)
    BY <1>2, <2>0, <2>6, WriteResultSets DEF ApplyFails, ReportApplied
  <2> QED
    BY <1>3, <2>1, <2>2, <2>3, <2>4, <2>5, <2>6 DEF Tick
<1>4. CASE ApplyByOwner
  <2>1. Sets("owner", "applied", ticker["owner"].paths, ticker["owner"].batch, ticker["owner"].event)
    BY <1>4, PcSets DEF ApplyByOwner, Tickers, TickSteps
  <2> QED
    BY <1>0, <1>2, <1>4, <2>1 DEF ApplyByOwner
<1>5. CASE RunCall
  <2>1. CASE ticker' # ticker
    <3>1. ticker' = [ticker EXCEPT !["main"].pc = "applied"] /\ "applied" \in TickSteps
      BY <1>5, <2>1 DEF RunCall, TickSteps
    <3>2. ticker'["main"].pc = "applied"
      BY <1>0, <3>1, TickFields DEF TickRecord
    <3> QED
      BY <3>2
  <2>2. CASE ticker' = ticker
    <3>1. calls # <<>> /\ Len(calls) # 1 /\ calls[Len(calls)] = ticker["main"].event /\ calls' = Tail(calls)
      BY <1>0, <1>5, <2>2, TickFields DEF RunCall, SuccessSound, TickRecord
    <3> QED
      BY <1>0, <2>2, <3>1, LastOfTail
  <2> QED
    BY <2>1, <2>2
<1>6. CASE ApplyByCall
  <2>1. Sets("main", "called", ticker["main"].paths, ticker["main"].batch, ticker["main"].event)
    BY <1>6, PcSets DEF ApplyByCall, Tickers, TickSteps
  <2>2. ticker["main"].event \in Events
    BY <1>0, <1>6, NamedEvent DEF ApplyByCall
  <2> QED
    BY <1>0, <1>6, <2>1, <2>2, Added DEF ApplyByCall, Sets
<1>7. CASE CallTimesOut
  BY <1>0, <1>2, <1>7, WriteResultSets DEF CallTimesOut
<1>8. CASE Crash
  BY <1>8 DEF Crash, NoTick, Tickers
<1>9. CASE (\E e \in Events : Service(e)) \/ ReleaseControl \/ UNCHANGED vars
  BY <1>1, <1>9 DEF Service, Validate, Enqueue, ReadResult, StopWaiting, ReleaseControl, vars
<1> QED
  BY <1>3, <1>4, <1>5, <1>6, <1>7, <1>8, <1>9 DEF Next, OwnerSteps, MainSteps, Tickers

-----------------------------------------------------------------------------
(* The release, and the order in which events are queued.                   *)

(* Without a waiting tool only the owner's thread ticks.                    *)
LEMMA OneTicker ==
    ASSUME ReleaseSound, ~waits
    PROVE  ~MainSteps /\ ~RunCall
<1>1. ticker["main"].pc = "idle" /\ calls = <<>>
  BY DEF ReleaseSound, NoTick
<1> QED
  BY <1>1 DEF MainSteps, Tick, StartTick, MayTick, ReadFile, Unlink, NextEvent, CheckControl,
              ApplyFails, ReportApplied, ApplyByCall, CallTimesOut, RunCall

LEMMA NextRelease ==
    ASSUME TypeOK, TicksSound, ReleaseSound, [Next]_vars
    PROVE  ReleaseSound'
<1>0. /\ "main" \in Tickers /\ "owner" \in Tickers /\ late \in Nat /\ waits \in BOOLEAN
      /\ control \in {"user", "agent"}
  BY DEF Tickers, TypeOK
<1>1. ASSUME waits' = waits, control' = control \/ control' = "agent", late' = late,
             ~waits => ticker'["main"] = NoTick /\ calls' = <<>>,
             ticker'["owner"].pc # "apply" \/ ticker'["owner"] = ticker["owner"] \/ control = "user"
      PROVE  ReleaseSound'
  BY <1>0, <1>1 DEF ReleaseSound
<1>2. CASE (\E e \in Events : Service(e)) \/ ReleaseControl \/ UNCHANGED vars
  <2>1. /\ waits' = waits /\ late' = late /\ ticker' = ticker /\ calls' = calls
        /\ control' = control \/ control' = "agent"
    BY <1>2 DEF Service, Validate, Enqueue, ReadResult, StopWaiting, ReleaseControl, vars
  <2> QED
    BY <1>1, <2>1 DEF ReleaseSound
<1>3. CASE Tick("owner")
  <2>1. UNCHANGED <<waits, control, late, calls>>
    BY <1>3 DEF Tick, StartTick, ReadFile, Unlink, NextEvent, CheckControl, ApplyFails, ReportApplied
  <2>2. ASSUME NEW pc, NEW a, NEW b, NEW c, Sets("owner", pc, a, b, c), pc # "apply" \/ control = "user"
        PROVE  ReleaseSound'
    <3>1. ticker'["main"] = ticker["main"] /\ ticker'["owner"].pc = pc
      BY <1>0, <2>2 DEF Sets
    <3> QED
      BY <1>1, <2>1, <2>2, <3>1 DEF ReleaseSound
  <2>3. CASE StartTick("owner")
    BY <1>0, <2>2, <2>3, StartTickSets
  <2>4. CASE ReadFile("owner")
    BY <1>0, <2>2, <2>4, ReadFileSets
  <2>5. CASE Unlink("owner")
    BY <1>0, <2>2, <2>5, UnlinkSets
  <2>6. CASE NextEvent("owner")
    BY <1>0, <2>2, <2>6, NextEventSets
  <2>7. CASE CheckControl("owner")
    <3>1. CASE ticker' = [ticker EXCEPT !["owner"].pc = "apply"] /\ control = "user"
      <4>1. "apply" \in TickSteps
        BY DEF TickSteps
      <4>2. Sets("owner", "apply", ticker["owner"].paths, ticker["owner"].batch, ticker["owner"].event)
        BY <1>0, <3>1, <4>1, PcSets
      <4> QED
        BY <2>2, <3>1, <4>2
    <3>2. CASE WriteResult("owner", ticker["owner"].event, "failed")
      BY <1>0, <2>2, <3>2, WriteResultSets
    <3> QED
      BY <2>7, <3>1, <3>2 DEF CheckControl
  <2>8. CASE ApplyFails("owner") \/ ReportApplied("owner")
    BY <1>0, <2>2, <2>8, WriteResultSets DEF ApplyFails, ReportApplied
  <2> QED
    BY <1>3, <2>3, <2>4, <2>5, <2>6, <2>7, <2>8 DEF Tick
<1>4. CASE MainSteps
  <2>1. waits
    BY <1>4, OneTicker
  <2>2. UNCHANGED <<waits, control, late>>
    BY <1>4 DEF MainSteps, Tick, StartTick, ReadFile, Unlink, NextEvent, CheckControl, ApplyFails,
                ReportApplied, ApplyByCall, CallTimesOut
  <2> QED
    BY <2>1, <2>2 DEF ReleaseSound
<1>5. CASE ApplyByOwner
  <2>1. ticker'["main"] = ticker["main"] /\ ticker'["owner"].pc = "applied"
    <3>1. "applied" \in TickSteps
      BY DEF TickSteps
    <3> QED
      BY <1>0, <1>5, <3>1, PcSets DEF ApplyByOwner, Sets
  <2>2. UNCHANGED <<waits, control, calls>> /\ late' = IF control = "user" THEN late ELSE late + 1
    BY <1>5 DEF ApplyByOwner, Applied
  <2>3. ticker["owner"].pc = "apply"
    BY <1>5 DEF ApplyByOwner
  <2> QED
    BY <1>0, <2>1, <2>2, <2>3 DEF ReleaseSound
<1>6. CASE RunCall
  BY <1>0, <1>6 DEF RunCall, Applied, ReleaseSound
<1>7. CASE Crash
  BY <1>0, <1>1, <1>7 DEF Crash, NoTick
<1> QED
  BY <1>2, <1>3, <1>4, <1>5, <1>6, <1>7 DEF Next, OwnerSteps

LEMMA NextSent ==
    ASSUME TypeOK, SentInOrder, [Next]_vars
    PROVE  SentInOrder'
<1>1. sent \in [Events -> {"new", "valid", "refused", "waiting", "pending", "applied", "failed"}]
  BY DEF TypeOK
<1>2. CASE UNCHANGED sent
  BY <1>2 DEF SentInOrder
<1>3. ASSUME NEW e \in Events, Service(e) PROVE SentInOrder'
  <2>1. \A d \in Events \ {e} : sent'[d] = sent[d]
    BY <1>1, <1>3 DEF Service, Validate, Enqueue, ReadResult, StopWaiting
  <2>2. CASE Validate(e)
    <3>1. sent[e] = "new" /\ sent'[e] \in {"valid", "refused"}
      BY <1>1, <2>2 DEF Validate
    <3>2. \A d \in Events : d < e => sent[d] # "new"
      BY <2>2, RelayAssumption DEF Validate, Events
    <3> QED
      BY <2>1, <3>1, <3>2 DEF SentInOrder
  <2>3. CASE ~Validate(e)
    <3>1. /\ sent[e] \in {"valid", "waiting", "pending"}
          /\ sent'[e] \notin {"new", "valid"}
      BY <1>1, <1>3, <2>3 DEF Service, Enqueue, ReadResult, StopWaiting, TypeOK
    <3>2. \A d \in Events : d < e /\ sent[d] = "valid" => sent[e] # "valid"
      <4>1. CASE Enqueue(e)
        BY <4>1, RelayAssumption DEF Enqueue, Events
      <4>2. CASE ~Enqueue(e)
        BY <1>3, <2>3, <4>2 DEF Service, ReadResult, StopWaiting
      <4> QED
        BY <4>1, <4>2
    <3> QED
      BY <2>1, <3>1, <3>2 DEF SentInOrder
  <2> QED
    BY <2>2, <2>3
<1>4. ASSUME NEW p \in Tickers, Tick(p) PROVE SentInOrder'
  BY <1>2, <1>4 DEF Tick, StartTick, ReadFile, Unlink, NextEvent, CheckControl, ApplyFails, ReportApplied
<1>5. CASE ReleaseControl \/ ApplyByOwner \/ RunCall \/ ApplyByCall \/ CallTimesOut \/ Crash \/ UNCHANGED vars
  BY <1>2, <1>5 DEF ReleaseControl, ApplyByOwner, RunCall, ApplyByCall, CallTimesOut, Crash, vars
<1> QED
  BY <1>3, <1>4, <1>5 DEF Next, OwnerSteps, MainSteps, Tickers

-----------------------------------------------------------------------------
(* The order.                                                               *)

(* A step that only drops events keeps the order.                           *)
LEMMA PipelineShrinks ==
    ASSUME Pipeline, UNCHANGED <<page, inputs, sent>>,
           NEW o, o = ticker["owner"], NEW n, n = ticker'["owner"],
           n.paths = o.paths \/ n.paths = <<>>, n.batch = o.batch \/ n.batch = <<>>,
           n.event = o.event \/ n.event = 0,
           n.pc # "unlink", o.pc # "unlink" \/ n.batch = <<>>,
           n.pc \in {"check", "apply"} => o.pc \in {"check", "apply"} /\ n.event = o.event,
           n.paths # <<>> => n.batch = o.batch
    PROVE  Pipeline'
<1>1. /\ ToSet(n.paths) \subseteq ToSet(o.paths) /\ ToSet(n.batch) \subseteq ToSet(o.batch)
      /\ Sorted(n.paths) /\ Sorted(n.batch)
  BY Empty DEF Pipeline
<1>2. Past' \subseteq Past /\ Queued' = Queued
  BY DEF Past, Queued
<1>3. Below(ToSet(n.batch), ToSet(n.paths) \cup inputs)
  <2>1. CASE n.batch = <<>>
    BY <2>1, Empty DEF Below
  <2>2. CASE o.pc # "unlink"
    BY <1>1, <2>2 DEF Pipeline, Below, Unread
  <2> QED
    BY <2>1, <2>2
<1>4. Below(ToSet(n.batch), Unread')
  BY <1>3 DEF Unread
<1>5. Below(ToSet(n.paths), inputs \ ToSet(n.paths))
  BY Empty DEF Pipeline, Below
<1>6. n.pc \in {"check", "apply"} => Below(ToSet(page), {n.event})
  BY DEF Pipeline
<1>7. Below(Past', ToSet(n.batch) \cup ToSet(n.paths) \cup inputs)
  BY <1>1, <1>2 DEF Pipeline, Below
<1>8. Past' \cup ToSet(n.batch) \cup ToSet(n.paths) \cup inputs \subseteq Queued
  BY <1>1, <1>2 DEF Pipeline
<1>9. Sorted(page)
  BY DEF Pipeline
<1> QED
  BY <1>1, <1>2, <1>4, <1>5, <1>6, <1>7, <1>8, <1>9 DEF Pipeline

(* The service queues an event behind all others.                           *)
LEMMA ServicePipeline ==
    ASSUME TypeOK, SentInOrder, Pipeline, NEW e \in Events, Service(e)
    PROVE  Pipeline'
<1>1. UNCHANGED <<ticker, page>>
  BY DEF Service, Validate, Enqueue, ReadResult, StopWaiting
<1>2. sent \in [Events -> {"new", "valid", "refused", "waiting", "pending", "applied", "failed"}]
  BY DEF TypeOK
<1>3. \A x \in Queued : x \in Queued'
  BY <1>2 DEF Service, Validate, Enqueue, ReadResult, StopWaiting, Queued, TypeOK
<1>4. CASE inputs' = inputs
  <2>1. Past' = Past /\ Unread' = Unread
    BY <1>1, <1>4 DEF Past, Unread
  <2> QED
    BY <1>1, <1>3, <1>4, <2>1 DEF Pipeline
<1>5. CASE inputs' # inputs
  <2>1. Enqueue(e)
    BY <1>5 DEF Service, Validate, ReadResult, StopWaiting
  <2>2. inputs' = inputs \cup {e} /\ sent[e] = "valid" /\ sent'[e] = "waiting"
    BY <1>2, <2>1 DEF Enqueue
  <2>3. e \in Queued'
    BY <2>2 DEF Queued
  <2>4. \A x \in Queued : x < e
    <3> SUFFICES ASSUME NEW x \in Queued PROVE x < e
      OBVIOUS
    <3>1. x \in Events /\ sent[x] \in {"waiting", "pending", "applied", "failed"}
      BY DEF Queued
    <3>2. ~(e < x) /\ x # e
      BY <2>2, <3>1 DEF SentInOrder
    <3> QED
      BY <3>1, <3>2, RelayAssumption DEF Events
  <2>5. Past' = Past /\ Unread' \subseteq Unread \cup {e}
    BY <1>1, <2>2 DEF Past, Unread
  <2> DEFINE batch == ToSet(ticker["owner"].batch)
             listed == ToSet(ticker["owner"].paths)
  <2>6. Past \cup batch \cup listed \cup inputs \subseteq Queued
    BY DEF Pipeline
  <2> HIDE DEF batch, listed
  <2>7. Past \cup batch \cup listed \cup inputs' \subseteq Queued'
    BY <1>3, <2>2, <2>3, <2>6
  <2>8. Below(Past, batch \cup listed \cup inputs')
    BY <2>2, <2>4, <2>6 DEF Pipeline, Below, batch, listed
  <2>9. Below(batch, Unread')
    BY <2>4, <2>5, <2>6 DEF Pipeline, Below, batch
  <2>10. Below(listed, inputs' \ listed)
    BY <2>2, <2>4, <2>6 DEF Pipeline, Below, listed
  <2> QED
    BY <1>1, <2>5, <2>7, <2>8, <2>9, <2>10 DEF Pipeline, batch, listed
<1> QED
  BY <1>4, <1>5

(* A new listing has every file.                                            *)
LEMMA StartTickPipeline ==
    ASSUME TypeOK, TicksSound, Pipeline, StartTick("owner")
    PROVE  Pipeline'
<1>1. PICK listing \in Listings(inputs) : Sets("owner", "read", listing, <<>>, 0)
  BY StartTickSets DEF Tickers
<1> DEFINE n == ticker'["owner"]
<1>2. n.pc = "read" /\ n.paths = listing /\ n.batch = <<>> /\ n.event = 0
  BY <1>1 DEF Sets
<1>3. ToSet(listing) = inputs /\ Sorted(listing)
  BY ListingIsSequence DEF TypeOK
<1>4. UNCHANGED <<sent, inputs, page>>
  BY DEF StartTick
<1>5. Past' = ToSet(page) /\ Past' \subseteq Past /\ Queued' = Queued
  BY <1>2, <1>4 DEF Past, Queued
<1> HIDE DEF n
<1>6. Below(ToSet(n.batch), Unread') /\ Sorted(n.batch) /\ ToSet(n.batch) = {}
  BY <1>2, Empty DEF Below
<1>7. Below(ToSet(n.paths), inputs \ ToSet(n.paths))
  BY <1>2, <1>3 DEF Below
<1>8. Below(Past', ToSet(n.batch) \cup ToSet(n.paths) \cup inputs)
  BY <1>2, <1>3, <1>5, <1>6 DEF Pipeline, Below
<1>9. Past' \cup ToSet(n.batch) \cup ToSet(n.paths) \cup inputs \subseteq Queued
  BY <1>2, <1>3, <1>5, <1>6 DEF Pipeline
<1> QED
  BY <1>2, <1>3, <1>4, <1>5, <1>6, <1>7, <1>8, <1>9 DEF Pipeline, n

(* The next file comes after the batch and before all other files.          *)
LEMMA ReadFilePipeline ==
    ASSUME TypeOK, TicksSound, Pipeline, ReadFile("owner")
    PROVE  Pipeline'
<1> DEFINE o == ticker["owner"]
           n == ticker'["owner"]
           h == Head(o.paths)
<1>1. /\ n.pc = "unlink" /\ n.paths = o.paths /\ n.event = o.event
      /\ n.batch = IF h \in inputs THEN Append(o.batch, h) ELSE o.batch
  BY ReadFileSets DEF Sets, Tickers
<1>2. UNCHANGED <<sent, inputs, page>> /\ o.pc = "read" /\ o.paths # <<>>
  BY DEF ReadFile
<1>3. o.paths \in Seq(Events) /\ o.batch \in Seq(Events)
  BY TickFields DEF Tickers
<1>4. Past' = Past /\ Queued' = Queued
  BY <1>1, <1>2 DEF Past, Queued
<1>5. /\ Sorted(o.batch) /\ Sorted(o.paths) /\ Sorted(page)
      /\ Past \cup ToSet(o.batch) \cup ToSet(o.paths) \cup inputs \subseteq Queued
      /\ Below(Past, ToSet(o.batch) \cup ToSet(o.paths) \cup inputs)
      /\ Below(ToSet(o.batch), ToSet(o.paths) \cup inputs)
      /\ Below(ToSet(o.paths), inputs \ ToSet(o.paths))
  BY <1>2 DEF Pipeline, Unread
<1>6. Unread' = ToSet(Tail(o.paths)) \cup (inputs \ {h})
  BY <1>1, <1>2 DEF Unread
<1> HIDE DEF o, n, h
<1>7. /\ h \in ToSet(o.paths) /\ h \in Events
      /\ ToSet(Tail(o.paths)) \subseteq ToSet(o.paths)
      /\ ToSet(o.paths) \subseteq ToSet(Tail(o.paths)) \cup {h}
  BY <1>2, <1>3, TakenFromFront DEF h
<1>8. Below({h}, ToSet(Tail(o.paths)))
  BY <1>2, <1>3, <1>5, SortedTail DEF h
<1>9. Below({h}, Unread')
  BY <1>5, <1>6, <1>7, <1>8 DEF Below
<1>10. Below(ToSet(o.batch), Unread')
  BY <1>5, <1>6, <1>7 DEF Below
<1>11. Below(ToSet(o.batch), {h})
  BY <1>5, <1>7 DEF Below
<1>12. ToSet(n.batch) \subseteq ToSet(o.batch) \cup {h} /\ Sorted(n.batch)
  <2>1. CASE h \in inputs
    BY <1>1, <1>3, <1>5, <1>7, <1>11, <2>1, Added, SortedAppend
  <2>2. CASE h \notin inputs
    BY <1>1, <1>5, <2>2
  <2> QED
    BY <2>1, <2>2
<1>13. Below(ToSet(n.batch), Unread')
  BY <1>9, <1>10, <1>12 DEF Below
<1>14. Below(Past, ToSet(n.batch) \cup ToSet(n.paths) \cup inputs)
  BY <1>1, <1>5, <1>7, <1>12 DEF Below
<1>15. Past \cup ToSet(n.batch) \cup ToSet(n.paths) \cup inputs \subseteq Queued
  BY <1>1, <1>5, <1>7, <1>12
<1> QED
  BY <1>1, <1>2, <1>4, <1>5, <1>12, <1>13, <1>14, <1>15 DEF Pipeline, n

(* A file that was read is deleted before the next is read.                 *)
LEMMA UnlinkPipeline ==
    ASSUME TypeOK, TicksSound, Pipeline, Unlink("owner")
    PROVE  Pipeline'
<1> DEFINE o == ticker["owner"]
           n == ticker'["owner"]
           h == Head(o.paths)
<1>1. n.pc = "read" /\ n.paths = Tail(o.paths) /\ n.batch = o.batch /\ n.event = o.event
  BY UnlinkSets DEF Sets, Tickers
<1>2. UNCHANGED <<sent, page>> /\ o.pc = "unlink" /\ inputs' = inputs \ {h} /\ o.paths # <<>>
  BY DEF Unlink, TicksSound, Tickers
<1>3. o.paths \in Seq(Events)
  BY TickFields DEF Tickers
<1>4. Past' = Past /\ Queued' = Queued /\ Unread' = Unread
  BY <1>1, <1>2 DEF Past, Queued, Unread
<1> HIDE DEF o, n, h
<1>5. /\ ToSet(Tail(o.paths)) \subseteq ToSet(o.paths)
      /\ ToSet(o.paths) \subseteq ToSet(Tail(o.paths)) \cup {h}
  BY <1>2, <1>3, TakenFromFront DEF h
<1>6. Sorted(Tail(o.paths))
  BY <1>2, <1>3, SortedTail DEF Pipeline, o
<1>7. Below(ToSet(n.paths), inputs' \ ToSet(n.paths))
  BY <1>1, <1>2, <1>5 DEF Pipeline, Below, o
<1>8. Below(Past, ToSet(n.batch) \cup ToSet(n.paths) \cup inputs')
  BY <1>1, <1>2, <1>5 DEF Pipeline, Below, o
<1>9. Past \cup ToSet(n.batch) \cup ToSet(n.paths) \cup inputs' \subseteq Queued
  BY <1>1, <1>2, <1>5 DEF Pipeline, o
<1>10. Sorted(page) /\ Sorted(o.batch) /\ Below(ToSet(o.batch), Unread)
  BY DEF Pipeline, o
<1> QED
  BY <1>1, <1>2, <1>4, <1>6, <1>7, <1>8, <1>9, <1>10 DEF Pipeline, n

(* The batch is applied from its front.                                     *)
LEMMA NextEventPipeline ==
    ASSUME TypeOK, TicksSound, Pipeline, NextEvent("owner")
    PROVE  Pipeline'
<1> DEFINE o == ticker["owner"]
           n == ticker'["owner"]
           h == Head(o.batch)
<1>1. /\ UNCHANGED <<sent, page, inputs>> /\ o.pc \in {"read", "next"} /\ o.paths = <<>>
      /\ o.batch \in Seq(Events) /\ 0 \notin Events
  BY TickFields DEF NextEvent, Tickers
<1>2. CASE Sets("owner", "idle", <<>>, <<>>, 0)
  <2>1. n.pc = "idle" /\ n.paths = <<>> /\ n.batch = <<>> /\ n.event = 0
    BY <1>2 DEF Sets
  <2> QED
    BY <1>1, <2>1, PipelineShrinks
<1>3. CASE Sets("owner", "check", <<>>, Tail(o.batch), h) /\ o.batch # <<>>
  <2>1. n.pc = "check" /\ n.paths = <<>> /\ n.batch = Tail(o.batch) /\ n.event = h
    BY <1>3 DEF Sets
  <2>2. /\ Sorted(o.batch) /\ Sorted(page) /\ ToSet(page) \subseteq Past
        /\ Past \cup ToSet(o.batch) \cup inputs \subseteq Queued
        /\ Below(Past, ToSet(o.batch) \cup inputs)
        /\ Below(ToSet(o.batch), inputs)
    BY <1>1 DEF Pipeline, Unread, Past, Below
  <2>3. Past' \subseteq ToSet(page) \cup {h} /\ Queued' = Queued /\ Unread' = ToSet(<<>>) \cup inputs
    BY <1>1, <2>1 DEF Past, Queued, Unread
  <2> HIDE DEF o, n, h
  <2>4. h \in ToSet(o.batch) /\ ToSet(Tail(o.batch)) \subseteq ToSet(o.batch)
    BY <1>1, <1>3, TakenFromFront DEF h
  <2>5. Sorted(Tail(o.batch)) /\ Below({h}, ToSet(Tail(o.batch)))
    BY <1>1, <1>3, <2>2, SortedTail DEF h
  <2>6. Unread' = inputs /\ ToSet(n.paths) = {} /\ Sorted(n.paths)
    BY <2>1, <2>3, Empty
  <2>7. Below(ToSet(page), {h})
    BY <2>2, <2>4 DEF Below
  <2>8. Below(Past', ToSet(n.batch) \cup ToSet(n.paths) \cup inputs)
    BY <2>1, <2>2, <2>3, <2>4, <2>5, <2>6 DEF Below
  <2>9. Past' \cup ToSet(n.batch) \cup ToSet(n.paths) \cup inputs \subseteq Queued
    BY <2>1, <2>2, <2>3, <2>4, <2>6
  <2>10. Below(ToSet(n.batch), Unread') /\ Below(ToSet(n.paths), inputs \ ToSet(n.paths))
    BY <2>1, <2>2, <2>4, <2>6 DEF Below
  <2> QED
    BY <1>1, <2>1, <2>2, <2>3, <2>5, <2>6, <2>7, <2>8, <2>9, <2>10 DEF Pipeline, n
<1> QED
  BY <1>2, <1>3, NextEventSets DEF Tickers

(* The event at hand is applied after all that are on the page.             *)
LEMMA ApplyPipeline ==
    ASSUME TypeOK, TicksSound, Pipeline, ApplyByOwner
    PROVE  Pipeline'
<1> DEFINE o == ticker["owner"]
           n == ticker'["owner"]
<1>1. Sets("owner", "applied", o.paths, o.batch, o.event)
  BY PcSets DEF ApplyByOwner, Tickers, TickSteps
<1>2. n.pc = "applied" /\ n.paths = o.paths /\ n.batch = o.batch /\ n.event = o.event
  BY <1>1 DEF Sets
<1>3. /\ UNCHANGED <<sent, inputs>> /\ o.pc = "apply" /\ page' = Append(page, o.event)
      /\ page \in Seq(Events) /\ o.event \in Events
  BY NamedEvent DEF ApplyByOwner, Applied, TypeOK, Tickers
<1>4. ToSet(page') = ToSet(page) \cup {o.event}
  BY <1>3, Added
<1>5. 0 \notin Events
  BY TickFields DEF Tickers
<1>6. Past' = Past /\ Queued' = Queued /\ Unread' = Unread
  BY <1>2, <1>3, <1>4, <1>5 DEF Past, Queued, Unread
<1>7. Sorted(page')
  BY <1>3, SortedAppend DEF Pipeline
<1> QED
  BY <1>2, <1>3, <1>6, <1>7 DEF Pipeline

LEMMA NextPipeline ==
    ASSUME RelayInv, ~waits, [Next]_vars
    PROVE  Pipeline'
<1> USE DEF RelayInv
<1>1. "owner" \in Tickers /\ ~MainSteps /\ ~RunCall
  BY OneTicker DEF Tickers
<1>2. ASSUME NEW e, NEW r, WriteResult("owner", e, r), UNCHANGED <<page, inputs, sent>>,
             ticker["owner"].pc # "unlink"
      PROVE  Pipeline'
  <2>1. Sets("owner", "next", ticker["owner"].paths, ticker["owner"].batch, 0)
    BY <1>1, <1>2, WriteResultSets
  <2> QED
    BY <1>2, <2>1, PipelineShrinks DEF Sets
<1>3. CASE CheckControl("owner")
  <2>1. CASE ticker' = [ticker EXCEPT !["owner"].pc = "apply"]
    <3>1. Sets("owner", "apply", ticker["owner"].paths, ticker["owner"].batch, ticker["owner"].event)
      BY <1>1, <2>1, PcSets DEF TickSteps
    <3> QED
      BY <1>3, <3>1, PipelineShrinks DEF CheckControl, Sets
  <2>2. CASE WriteResult("owner", ticker["owner"].event, "failed")
    BY <1>2, <1>3, <2>2 DEF CheckControl
  <2> QED
    BY <1>3, <2>1, <2>2 DEF CheckControl
<1>4. CASE ApplyFails("owner") \/ ReportApplied("owner")
  BY <1>2, <1>4 DEF ApplyFails, ReportApplied
<1>5. CASE Crash
  <2>1. ticker'["owner"] = NoTick /\ UNCHANGED <<page, inputs, sent>>
    BY <1>1, <1>5 DEF Crash
  <2> QED
    BY <2>1, PipelineShrinks DEF NoTick
<1>6. CASE ReleaseControl \/ UNCHANGED vars
  <2>1. UNCHANGED <<page, inputs, sent, ticker>>
    BY <1>6 DEF ReleaseControl, vars
  <2>2. Past' = Past /\ Unread' = Unread /\ Queued' = Queued
    BY <2>1 DEF Past, Unread, Queued
  <2> QED
    BY <2>1, <2>2 DEF Pipeline
<1>7. CASE \E e \in Events : Service(e)
  BY <1>7, ServicePipeline
<1>8. CASE Tick("owner")
  BY <1>3, <1>4, <1>8, StartTickPipeline, ReadFilePipeline, UnlinkPipeline, NextEventPipeline DEF Tick
<1>9. CASE ApplyByOwner
  BY <1>9, ApplyPipeline
<1> QED
  BY <1>1, <1>5, <1>6, <1>7, <1>8, <1>9 DEF Next, OwnerSteps

-----------------------------------------------------------------------------
(* The theorems.                                                            *)

LEMMA InitRelay == Init => RelayInv
<1> SUFFICES ASSUME Init PROVE RelayInv
  OBVIOUS
<1>1. ticker = [p \in Tickers |-> NoTick] /\ "owner" \in Tickers /\ "main" \in Tickers
  BY DEF Init, Tickers
<1>2. NoTick \in TickRecord
  BY DEF NoTick, TickRecord, TickSteps
<1>3. TypeOK
  <2>1. crashes \in 0 .. MaxCrashes
    BY RelayAssumption DEF Init
  <2> QED
    BY <1>1, <1>2, <2>1 DEF Init, TypeOK, NoTick
<1>4. TicksSound
  BY <1>1 DEF TicksSound, NoTick
<1>5. SuccessSound
  BY <1>1 DEF Init, SuccessSound, NoTick
<1>6. ReleaseSound
  BY <1>1 DEF Init, ReleaseSound
<1>7. SentInOrder
  BY DEF Init, SentInOrder
<1>8. Pipeline
  <2>1. /\ ticker["owner"].pc = "idle" /\ ticker["owner"].paths = <<>>
        /\ ticker["owner"].batch = <<>> /\ ticker["owner"].event = 0 /\ page = <<>> /\ inputs = {}
    BY <1>1 DEF Init, NoTick
  <2>2. Past = {} /\ Unread = {}
    BY <2>1, Empty DEF Past, Unread
  <2> QED
    BY <2>1, <2>2, Empty DEF Pipeline, Below
<1> QED
  BY <1>3, <1>4, <1>5, <1>6, <1>7, <1>8 DEF RelayInv

LEMMA RelayInvAlways == Spec => []RelayInv
<1>1. ASSUME RelayInv, [Next]_vars PROVE RelayInv'
  <2> USE <1>1 DEF RelayInv
  <2>1. TypeOK' /\ TicksSound'
    BY NextTypes, NextTicks DEF Ticks
  <2>2. SuccessSound'
    BY ResultsTrue, TicksTrue, CallsTrue DEF SuccessSound
  <2>3. ReleaseSound' /\ SentInOrder'
    BY NextRelease, NextSent
  <2>4. waits' = waits
    BY Zenon DEF Next, Service, OwnerSteps, MainSteps, Tick, Validate, Enqueue, ReadResult, StopWaiting,
           ReleaseControl, StartTick, ReadFile, Unlink, NextEvent, CheckControl, ApplyFails,
           ReportApplied, ApplyByOwner, RunCall, ApplyByCall, CallTimesOut, Crash, vars
  <2> QED
    BY <2>1, <2>2, <2>3, <2>4, NextPipeline
<1> QED
  BY <1>1, InitRelay, PTL DEF Spec

(* For any number of events and crashes the files, the ticks and the call   *)
(* queue keep their types, and a tick names an event exactly while it       *)
(* applies it (publish_browser_relay_tick).                                 *)
THEOREM RelayTypes == Spec => []TypeOK
<1>1. RelayInv => TypeOK
  BY DEF RelayInv
<1> QED
  BY <1>1, RelayInvAlways, PTL

(* Whatever the interleaving of both ticking threads, timeouts, crashes and *)
(* cleanups, an event reported as applied is on the page                    *)
(* (write_input_event_result, BrowserContextWorker._call).                  *)
THEOREM SuccessesTrue == Spec => []SuccessIsTrue
<1>1. RelayInv => SuccessIsTrue
  BY DEF RelayInv, SuccessSound, SuccessIsTrue
<1> QED
  BY <1>1, RelayInvAlways, PTL

(* With one ticking thread, any number of events reach the page at most     *)
(* once and in order, across any number of crashes (consume_input_events    *)
(* deletes a file before its event is applied).                             *)
THEOREM AppliedOnceInOrder == Spec => []OnceInOrder
<1>1. RelayInv => OnceInOrder
  BY DEF RelayInv, TypeOK, Pipeline, Sorted, OnceInOrder
<1> QED
  BY <1>1, RelayInvAlways, PTL

(* With one ticking thread, at most one event reaches the page after the    *)
(* user released control, however many are queued (apply_input_event).      *)
THEOREM ReleaseStops == Spec => []ReleaseStopsInput
<1>1. RelayInv => ReleaseStopsInput
  BY DEF RelayInv, ReleaseSound, ReleaseStopsInput
<1> QED
  BY <1>1, RelayInvAlways, PTL
=============================================================================
