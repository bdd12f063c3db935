------------------------- MODULE TakeoverGateProofs -------------------------
(***************************************************************************)
(* The takeover gate, for any number of requests and clients: at most one  *)
(* action after the user took control, a bound on takeovers that exist at  *)
(* once, and a guard that goes on only after a release.                    *)
(***************************************************************************)
EXTENDS TakeoverGate, FiniteSetTheorems, TLAPS

(* Each step of a tool call names the step it starts from.                  *)
LEMMA FirstSteps ==
    ASSUME NEW tool \in Tools
    PROVE  /\ FirstStep(tool) \in {"gate", "probe", "fill", "ensure", "route"}
           /\ FirstStep(tool) = "fill" => tool = "fill"
           /\ FirstStep(tool) = "route" => tool = "guard"
  BY TakeoverAssumption DEF FirstStep, ToolClasses

(* What list() stores is well typed.                                        *)
LEMMA SeenType == ASSUME TypeOK PROVE Seen \in [Takeovers -> Status]
  BY DEF TypeOK, Seen, Status

(* The types hold at the start.                                             *)
LEMMA InitType == Init => TypeOK
  BY DEF Init, TypeOK, Status, PCs, Replies

(* Every step keeps the types.                                              *)
LEMMA NextType == TypeOK /\ [Next]_vars => TypeOK'
<1> SUFFICES ASSUME TypeOK, [Next]_vars PROVE TypeOK'
  OBVIOUS
<1> USE TakeoverAssumption DEF PCs, Replies
<1>1. \A n \in Nat : Touch(n) => touched' \in Nat
  BY DEF Touch, TypeOK
<1>2. ASSUME NEW answer \in Replies, NEW carried \in Status, Return(answer, carried),
             status' \in [Takeovers -> Status], left' \in [Takeovers -> Nat],
             asking' = asking, Touch(0) \/ Touch(1)
      PROVE  TypeOK'
  BY <1>1, <1>2 DEF TypeOK, Return
<1>3. ASSUME NEW p \in PCs, GoOn(p), p \in {"wait", "report", "stream", "guard"} => handoff \in Takeovers,
             status' \in [Takeovers -> Status], left' \in [Takeovers -> Nat],
             asking' = asking, Touch(0) \/ Touch(1)
      PROVE  TypeOK'
  BY <1>1, <1>3 DEF TypeOK, GoOn
<1>4. CASE UNCHANGED vars
  BY <1>4 DEF vars, TypeOK
<1>5. CASE Tick
  BY <1>1, <1>5 DEF Tick, TypeOK
<1>6. CASE CallTool
  <2>1. PICK tool \in Tools : pc' = FirstStep(tool) /\ patience' \in Nat
    BY <1>6 DEF CallTool
  <2> QED
    BY <1>1, <1>6, <2>1, FirstSteps DEF CallTool, TypeOK, Status
<1>7. CASE PauseForUserTakeover
  BY <1>2, <1>3, <1>7, SeenType DEF PauseForUserTakeover, TypeOK, Status
<1>8. CASE BrowserAction \/ FillCredential \/ Detect
  BY <1>2, <1>3, <1>8 DEF BrowserAction, FillCredential, Detect, TypeOK, Status
<1>9. ASSUME NEW t \in Takeovers, Settle(t), asking' = asking, Touch(0),
             status' \in [Takeovers -> Status], left' \in [Takeovers -> Nat]
      PROVE  TypeOK'
  <2>1. CASE Return("paused", "user_control")
    BY <1>2, <1>9, <2>1 DEF Status
  <2>2. CASE pc' = "wait" /\ handoff' = t /\ patience' = Patience /\ UNCHANGED <<reply, outcome>>
    BY <1>1, <1>9, <2>2 DEF TypeOK
  <2> QED
    BY <1>9, <2>1, <2>2 DEF Settle
<1>10. CASE EnsureTakeover
  <2>1. status' \in [Takeovers -> Status] /\ left' \in [Takeovers -> Nat] /\ asking' = asking /\ Touch(0)
    BY <1>10, SeenType DEF EnsureTakeover, TypeOK
  <2> QED
    BY <1>3, <1>9, <1>10, <2>1 DEF EnsureTakeover
<1>11. ASSUME NEW t \in Takeovers, Create(t)
       PROVE  status' \in [Takeovers -> Status] /\ left' \in [Takeovers -> Nat]
  BY <1>11 DEF Create, TypeOK, Status
<1>12. OutOfIds => status' \in [Takeovers -> Status] /\ left' \in [Takeovers -> Nat]
  BY DEF OutOfIds, TypeOK
<1>13. CASE OpenTakeover
  <2>1. CASE \E t \in Takeovers : Create(t) /\ Settle(t)
    BY <1>9, <1>11, <1>13, <2>1 DEF OpenTakeover
  <2>2. CASE Return("refused", "absent") /\ UNCHANGED <<status, left>>
    BY <1>2, <1>13, <2>2 DEF OpenTakeover, TypeOK, Status
  <2> QED
    BY <1>13, <2>1, <2>2 DEF OpenTakeover
<1>14. CASE WaitForRelease
  BY <1>2, <1>3, <1>14, SeenType DEF WaitForRelease, TypeOK, Status
<1>15. pc \in {"report", "stream", "guard"} =>
          /\ Seen[handoff] \in Status
          /\ [status EXCEPT ![handoff] = Seen[handoff]] \in [Takeovers -> Status]
  BY SeenType DEF TypeOK
<1>16. CASE ReportRelease
  BY <1>2, <1>15, <1>16 DEF ReportRelease, TypeOK
<1>17. CASE RouteTakeover
  <2>1. CASE OutOfIds /\ Return("aborted", "absent")
    BY <1>2, <1>12, <1>17, <2>1 DEF RouteTakeover, Status
  <2>2. ASSUME NEW t \in Takeovers, Create(t), handoff' = t, pc' = "stream",
               UNCHANGED <<patience, reply, outcome>>
        PROVE  TypeOK'
    BY <1>1, <1>11, <1>17, <2>2 DEF RouteTakeover, TypeOK
  <2> QED
    BY <1>17, <2>1, <2>2 DEF RouteTakeover
<1>18. CASE StartStream
  <2>1. CASE Return("aborted", Seen[handoff])
    BY <1>2, <1>15, <1>18, <2>1 DEF StartStream, TypeOK
  <2>2. CASE pc' = "guard" /\ patience' = Patience /\ UNCHANGED <<handoff, reply, outcome>>
    BY <1>1, <1>15, <1>18, <2>2 DEF StartStream, TypeOK
  <2> QED
    BY <1>18, <2>1, <2>2 DEF StartStream
<1>19. CASE GuardWait
  BY <1>2, <1>3, <1>15, <1>19 DEF GuardWait, TypeOK, Status
<1>20. ASSUME NEW c \in Clients, LookForTakeover(c) PROVE TypeOK'
  BY <1>1, <1>20, SeenType DEF LookForTakeover, Agent, TypeOK
<1>21. ASSUME NEW c \in Clients, TakeControl(c) PROVE TypeOK'
  <2>1. status' \in [Takeovers -> Status] /\ left' \in [Takeovers -> Nat]
    BY <1>11, <1>12, <1>21 DEF TakeControl
  <2> QED
    BY <1>1, <1>21, <2>1 DEF TakeControl, Agent, TypeOK
<1>22. ASSUME NEW t \in Takeovers, Decide(t) PROVE TypeOK'
  <2>1. status' \in [Takeovers -> Status]
    BY <1>22 DEF Decide, TypeOK, Status
  <2> QED
    BY <1>1, <1>22, <2>1 DEF Decide, Agent, TypeOK
<1> QED
  BY <1>4, <1>5, <1>6, <1>7, <1>8, <1>10, <1>13, <1>14, <1>16, <1>17, <1>18, <1>19, <1>20,
     <1>21, <1>22 DEF Next, AgentStep

(* Every variable keeps its type, and a waiting call has a request to wait  *)
(* for, whatever clients do meanwhile.                                      *)
THEOREM TakeoverTypes == Spec => []TypeOK
  BY InitType, NextType, PTL DEF Spec

-----------------------------------------------------------------------------
(* The gate opens only on a store without active takeovers.                 *)
LEMMA NextOverrun ==
    ASSUME "fill" \notin Tools, OverrunInv, [Next]_vars
    PROVE  OverrunInv'
<1>1. TypeOK'
  BY NextType DEF OverrunInv
<1>2. touched \in Nat /\ touched < MaxTouched /\ touched <= 1
  BY TakeoverAssumption DEF OverrunInv, TypeOK
<1>3. Touch(0) => touched' = (IF InControl' THEN touched ELSE 0)
  BY <1>2 DEF Touch
<1>4. Touch(1) => touched' = (IF InControl' THEN touched + 1 ELSE 0)
  BY <1>2 DEF Touch
<1>5. ASSUME Touch(0), pc' \in {pc} \cup (PCs \ {"act", "fill"}) PROVE OverrunInv'
  BY <1>1, <1>2, <1>3, <1>5 DEF OverrunInv
<1>6. ASSUME NEW answer, NEW carried, Return(answer, carried) PROVE pc' = "idle"
  BY <1>6 DEF Return
<1>7. ASSUME NEW p, GoOn(p) PROVE pc' = p
  BY <1>7 DEF GoOn
<1>8. CASE UNCHANGED vars
  <2>1. InControl' <=> InControl
    BY <1>8 DEF vars, InControl, Active
  <2> QED
    BY <1>1, <1>8, <2>1 DEF vars, OverrunInv
<1>9. CASE Tick \/ \E c \in Clients : LookForTakeover(c) \/ TakeControl(c)
  BY <1>5, <1>9 DEF Tick, LookForTakeover, TakeControl, Agent
<1>10. CASE \E t \in Takeovers : Decide(t)
  BY <1>5, <1>10 DEF Decide, Agent
<1>11. CASE CallTool
  <2>1. PICK tool \in Tools : pc' = FirstStep(tool)
    BY <1>11 DEF CallTool
  <2> QED
    BY <1>5, <1>11, <2>1, FirstSteps DEF CallTool, PCs
<1>12. CASE PauseForUserTakeover
  <2>1. CASE ~InControl
    <3>1. ~InControl'
      BY <1>12, <2>1, TakeoverAssumption
         DEF PauseForUserTakeover, InControl, Active, Seen, OverrunInv, TypeOK
    <3>2. pc' # "fill"
      BY <1>6, <1>7, <1>12, <2>1 DEF PauseForUserTakeover
    <3> QED
      BY <1>1, <1>3, <1>12, <3>1, <3>2 DEF PauseForUserTakeover, OverrunInv
  <2>2. CASE InControl
    BY <1>5, <1>6, <1>7, <1>12, <2>2 DEF PauseForUserTakeover, PCs
  <2> QED
    BY <2>1, <2>2
<1>13. CASE BrowserAction
  <2>1. pc' \in {"ensure", "idle"} /\ touched = 0
    BY <1>6, <1>7, <1>13 DEF BrowserAction, OverrunInv
  <2>2. CASE Touch(1)
    BY <1>1, <1>4, <2>1, <2>2 DEF OverrunInv
  <2>3. CASE Touch(0)
    BY <1>5, <2>1, <2>3 DEF PCs
  <2> QED
    BY <1>13, <2>2, <2>3 DEF BrowserAction
<1>14. ~FillCredential
  BY DEF FillCredential, OverrunInv
<1>15. CASE Detect \/ WaitForRelease \/ ReportRelease \/ GuardWait
  BY <1>5, <1>6, <1>7, <1>15 DEF Detect, WaitForRelease, ReportRelease, GuardWait, PCs
<1>16. ASSUME NEW t, Settle(t) PROVE pc' \in {"wait", "idle"}
  BY <1>6, <1>16 DEF Settle
<1>17. CASE EnsureTakeover \/ OpenTakeover
  BY <1>5, <1>6, <1>7, <1>16, <1>17 DEF EnsureTakeover, OpenTakeover, PCs
<1>18. CASE RouteTakeover \/ StartStream
  BY <1>5, <1>6, <1>18 DEF RouteTakeover, StartStream, PCs
<1> QED
  BY <1>8, <1>9, <1>10, <1>11, <1>12, <1>13, <1>14, <1>15, <1>17, <1>18 DEF Next, AgentStep

(* An agent without credential fills touches the browser at most once after *)
(* the user took control: the action that was past the gate at the time.    *)
THEOREM AtMostOneOverrun ==
    ASSUME "fill" \notin Tools
    PROVE  Spec => []NoOverrun
<1>1. Init => OverrunInv
  BY InitType DEF Init, OverrunInv
<1>2. OverrunInv /\ [Next]_vars => OverrunInv'
  BY NextOverrun
<1>3. OverrunInv => NoOverrun
  BY DEF OverrunInv, NoOverrun
<1> QED
  BY <1>1, <1>2, <1>3, PTL DEF Spec

-----------------------------------------------------------------------------
(* The takeovers that are active now.                                       *)
ActiveSet == {t \in Takeovers : Active(t)}

(* The counted sets are finite.                                             *)
LEMMA Counts ==
    ASSUME TypeOK
    PROVE  /\ IsFiniteSet(ActiveSet) /\ Cardinality(ActiveSet) \in Nat
           /\ IsFiniteSet(asking) /\ Cardinality(asking) \in Nat
           /\ Cardinality(asking) <= Cardinality(Clients)
           /\ Cardinality(Clients) \in Nat
<1>1. IsFiniteSet(ActiveSet)
  BY FS_Subset, TakeoverAssumption DEF ActiveSet
<1>2. IsFiniteSet(asking) /\ Cardinality(asking) <= Cardinality(Clients)
  BY FS_Subset, TakeoverAssumption DEF TypeOK
<1> QED
  BY <1>1, <1>2, FS_CardinalityType, TakeoverAssumption

(* When no takeover becomes active the bound can only get looser.           *)
LEMMA Shrinks ==
    ASSUME TypeOK, TypeOK', DuplicatesBounded, ActiveSet' \subseteq ActiveSet,
           asking' \subseteq asking, pc' = "open" => pc = "open"
    PROVE  DuplicatesBounded'
<1>1. Cardinality(ActiveSet') <= Cardinality(ActiveSet) /\ Cardinality(ActiveSet') \in Nat
  BY Counts, FS_Subset, FS_CardinalityType
<1>2. Cardinality(asking') <= Cardinality(asking) /\ Cardinality(asking') \in Nat
  BY Counts, FS_Subset, FS_CardinalityType
<1>3. AboutToOpen' <= AboutToOpen /\ AboutToOpen \in Nat /\ AboutToOpen' \in Nat
  BY DEF AboutToOpen
<1>4. Cardinality(ActiveSet) + Cardinality(asking) + AboutToOpen <= Cardinality(Clients) + 1
  BY DEF DuplicatesBounded, ActiveSet
<1>5. Cardinality(ActiveSet') + Cardinality(asking') + AboutToOpen' <= Cardinality(Clients) + 1
  BY <1>1, <1>2, <1>3, <1>4, Counts
<1> QED
  BY <1>5 DEF DuplicatesBounded, ActiveSet

(* When none is active after the step there is room for everybody.          *)
LEMMA NoneActive ==
    ASSUME TypeOK, TypeOK', ActiveSet' = {}
    PROVE  DuplicatesBounded'
<1>1. Cardinality(ActiveSet') = 0
  BY FS_EmptySet
<1>2. Cardinality(asking') \in Nat /\ Cardinality(asking') <= Cardinality(Clients)
  BY FS_Subset, FS_CardinalityType, TakeoverAssumption DEF TypeOK
<1>3. Cardinality(Clients) \in Nat
  BY Counts
<1>4. AboutToOpen' <= 1 /\ AboutToOpen' \in Nat
  BY DEF AboutToOpen
<1>5. Cardinality(ActiveSet') + Cardinality(asking') + AboutToOpen' <= Cardinality(Clients) + 1
  BY <1>1, <1>2, <1>3, <1>4
<1> QED
  BY <1>5 DEF DuplicatesBounded, ActiveSet

(* create() adds one active takeover.                                       *)
LEMMA OneMore ==
    ASSUME TypeOK, NEW t \in Takeovers, Create(t)
    PROVE  /\ Cardinality(ActiveSet') = Cardinality(ActiveSet) + 1
           /\ Cardinality(ActiveSet) \in Nat
<1>1. ActiveSet' = ActiveSet \cup {t}
  BY TakeoverAssumption DEF ActiveSet, Active, Create, TypeOK
<1>2. t \notin ActiveSet
  BY DEF ActiveSet, Active, Create
<1> QED
  BY <1>1, <1>2, Counts, FS_AddElement

(* Every step keeps the bound.                                              *)
LEMMA NextDuplicates ==
    ASSUME "guard" \notin Tools, TypeOK, pc # "route", DuplicatesBounded, [Next]_vars
    PROVE  DuplicatesBounded' /\ pc' # "route"
<1>1. TypeOK'
  BY NextType
<1>2. ASSUME status' = Seen, left' = left PROVE ActiveSet' = ActiveSet
  BY <1>2 DEF ActiveSet, Active, Seen, TypeOK, Expirable
<1>3. ASSUME NEW t \in Takeovers, status' = [status EXCEPT ![t] = Seen[t]], left' = left
      PROVE  ActiveSet' = ActiveSet
  BY <1>3 DEF ActiveSet, Active, Seen, TypeOK, Expirable
<1>4. ASSUME UNCHANGED <<status, left>> PROVE ActiveSet' = ActiveSet
  BY <1>4 DEF ActiveSet, Active
<1>5. ASSUME NEW answer, NEW carried, Return(answer, carried) PROVE pc' = "idle"
  BY <1>5 DEF Return
<1>6. ASSUME NEW p, GoOn(p) PROVE pc' = p
  BY <1>6 DEF GoOn
<1>7. CASE UNCHANGED vars
  BY <1>1, <1>4, <1>7, Shrinks DEF vars
<1>8. CASE Tick
  <2>1. ActiveSet' \subseteq ActiveSet
    BY <1>8 DEF Tick, ActiveSet, Active, TypeOK
  <2> QED
    BY <1>1, <1>8, <2>1, Shrinks DEF Tick
<1>9. CASE CallTool
  <2>1. PICK tool \in Tools : pc' = FirstStep(tool)
    BY <1>9 DEF CallTool
  <2>2. pc' \notin {"open", "route"}
    BY <2>1, FirstSteps
  <2> QED
    BY <1>1, <1>4, <1>9, <2>2, Shrinks DEF CallTool
<1>10. CASE PauseForUserTakeover \/ WaitForRelease
  <2>1. pc' \in {"act", "gate", "wait", "report", "idle"}
    BY <1>5, <1>6, <1>10 DEF PauseForUserTakeover, WaitForRelease
  <2> QED
    BY <1>1, <1>2, <1>10, <2>1, Shrinks DEF PauseForUserTakeover, WaitForRelease
<1>11. CASE BrowserAction \/ FillCredential \/ Detect
  <2>1. pc' \in {"ensure", "idle"}
    BY <1>5, <1>6, <1>11 DEF BrowserAction, FillCredential, Detect
  <2> QED
    BY <1>1, <1>4, <1>11, <2>1, Shrinks DEF BrowserAction, FillCredential, Detect
<1>12. ASSUME NEW t, Settle(t) PROVE pc' \in {"wait", "idle"}
  BY <1>5, <1>12 DEF Settle
<1>13. CASE EnsureTakeover
  <2>1. ActiveSet' = ActiveSet
    BY <1>2, <1>13 DEF EnsureTakeover
  <2>2. CASE InControl
    <3>1. pc' \in {"wait", "idle"}
      BY <1>12, <1>13, <2>2 DEF EnsureTakeover
    <3> QED
      BY <1>1, <1>13, <2>1, <3>1, Shrinks DEF EnsureTakeover
  <2>3. CASE ~InControl
    <3>1. ActiveSet' = {} /\ pc' = "open"
      BY <1>6, <1>13, <2>1, <2>3 DEF EnsureTakeover, ActiveSet, InControl
    <3> QED
      BY <1>1, <3>1, NoneActive
  <2> QED
    BY <2>2, <2>3
<1>14. CASE OpenTakeover
  <2>1. CASE Return("refused", "absent") /\ UNCHANGED <<status, left>>
    <3>1. pc' = "idle" /\ ActiveSet' = ActiveSet /\ asking' = asking
      BY <1>4, <1>5, <1>14, <2>1 DEF OpenTakeover
    <3> QED
      BY <1>1, <3>1, Shrinks
  <2>2. ASSUME NEW t \in Takeovers, Create(t), Settle(t)
        PROVE  DuplicatesBounded' /\ pc' # "route"
    <3>1. Cardinality(ActiveSet') = Cardinality(ActiveSet) + 1 /\ Cardinality(ActiveSet) \in Nat
      BY <2>2, OneMore
    <3>2. asking' = asking /\ pc' \in {"wait", "idle"} /\ pc = "open"
      BY <1>12, <1>14, <2>2 DEF OpenTakeover
    <3>3. AboutToOpen = 1 /\ AboutToOpen' = 0
      BY <3>2 DEF AboutToOpen
    <3>4. Cardinality(ActiveSet) + Cardinality(asking) + AboutToOpen <= Cardinality(Clients) + 1
      BY DEF DuplicatesBounded, ActiveSet
    <3>5. Cardinality(ActiveSet') + Cardinality(asking') + AboutToOpen' <= Cardinality(Clients) + 1
      BY <3>1, <3>2, <3>3, <3>4, Counts
    <3> QED
      BY <3>2, <3>5 DEF DuplicatesBounded, ActiveSet
  <2> QED
    BY <1>14, <2>1, <2>2 DEF OpenTakeover
<1>15. CASE ReportRelease \/ StartStream \/ GuardWait
  <2>1. pc' \in {"idle", "guard"} /\ asking' = asking
    BY <1>5, <1>6, <1>15 DEF ReportRelease, StartStream, GuardWait
  <2>2. ActiveSet' = ActiveSet
    BY <1>3, <1>4, <1>15 DEF ReportRelease, StartStream, GuardWait, TypeOK
  <2> QED
    BY <1>1, <2>1, <2>2, Shrinks
<1>16. ~RouteTakeover
  BY DEF RouteTakeover
<1>17. ASSUME NEW c \in Clients, LookForTakeover(c) PROVE DuplicatesBounded' /\ pc' # "route"
  <2>1. ActiveSet' = ActiveSet /\ pc' = pc
    BY <1>2, <1>17 DEF LookForTakeover, Agent
  <2>2. CASE InControl
    BY <1>1, <1>17, <2>1, <2>2, Shrinks DEF LookForTakeover
  <2>3. CASE ~InControl
    <3>1. ActiveSet' = {}
      BY <2>1, <2>3 DEF ActiveSet, InControl
    <3> QED
      BY <1>1, <2>1, <3>1, NoneActive
  <2> QED
    BY <2>2, <2>3
<1>18. ASSUME NEW c \in Clients, TakeControl(c) PROVE DuplicatesBounded' /\ pc' # "route"
  <2>1. pc' = pc /\ asking' = asking \ {c} /\ c \in asking
    BY <1>18 DEF TakeControl, Agent
  <2>2. CASE OutOfIds
    <3>1. ActiveSet' = ActiveSet
      BY <1>4, <2>2 DEF OutOfIds
    <3> QED
      BY <1>1, <2>1, <3>1, Shrinks
  <2>3. ASSUME NEW t \in Takeovers, Create(t) PROVE DuplicatesBounded' /\ pc' # "route"
    <3>1. Cardinality(ActiveSet') = Cardinality(ActiveSet) + 1 /\ Cardinality(ActiveSet) \in Nat
      BY <2>3, OneMore
    <3>2. Cardinality(asking') = Cardinality(asking) - 1
      BY <2>1, Counts, FS_RemoveElement
    <3>3. AboutToOpen' = AboutToOpen /\ AboutToOpen \in Nat
      BY <2>1 DEF AboutToOpen
    <3>4. Cardinality(ActiveSet) + Cardinality(asking) + AboutToOpen <= Cardinality(Clients) + 1
      BY DEF DuplicatesBounded, ActiveSet
    <3>5. Cardinality(ActiveSet') + Cardinality(asking') + AboutToOpen' <= Cardinality(Clients) + 1
      BY <3>1, <3>2, <3>3, <3>4, Counts
    <3> QED
      BY <2>1, <3>5 DEF DuplicatesBounded, ActiveSet
  <2> QED
    BY <1>18, <2>2, <2>3 DEF TakeControl
<1>19. ASSUME NEW t \in Takeovers, Decide(t) PROVE DuplicatesBounded' /\ pc' # "route"
  <2>1. ActiveSet' \subseteq ActiveSet
    BY <1>19, TakeoverAssumption DEF Decide, ActiveSet, Active, TypeOK, Outcomes
  <2> QED
    BY <1>1, <1>19, <2>1, Shrinks DEF Decide, Agent
<1> QED
  BY <1>7, <1>8, <1>9, <1>10, <1>11, <1>13, <1>14, <1>15, <1>16, <1>17, <1>18, <1>19
     DEF Next, AgentStep

(* With only the sidecar's tools, active takeovers of one context never     *)
(* outnumber the parties that can ask for one, though each of them looks    *)
(* and creates in separate steps.                                           *)
THEOREM BoundedDuplicates ==
    ASSUME "guard" \notin Tools
    PROVE  Spec => []DuplicatesBounded
<1> DEFINE Inv == TypeOK /\ pc # "route" /\ DuplicatesBounded
<1>1. Init => Inv
  <2> SUFFICES ASSUME Init PROVE Inv
    OBVIOUS
  <2>1. TypeOK /\ pc # "route" /\ asking = {} /\ AboutToOpen = 0
    BY InitType DEF Init, AboutToOpen
  <2>2. {t \in Takeovers : Active(t)} = {}
    BY DEF Init, Active
  <2> QED
    BY <2>1, <2>2, Counts, FS_EmptySet DEF DuplicatesBounded
<1>2. Inv /\ [Next]_vars => Inv'
  BY NextType, NextDuplicates
<1> QED
  BY <1>1, <1>2, PTL DEF Spec

-----------------------------------------------------------------------------
(* Reading a request or listing them sends nobody a ciphertext.             *)
LEMMA SeenPlain ==
    ASSUME ResumeInv
    PROVE  /\ \A t \in Takeovers : Seen[t] \notin {"fulfilled", "sealed_completed"}
           /\ \A h \in Takeovers :
                 /\ [status EXCEPT ![h] = Seen[h]] \in [Takeovers -> Status]
                 /\ \A t \in Takeovers :
                       [status EXCEPT ![h] = Seen[h]][t] \notin {"fulfilled", "sealed_completed"}
<1>1. status \in [Takeovers -> Status] /\ Seen \in [Takeovers -> Status]
  BY SeenType DEF ResumeInv, TypeOK
<1>2. \A t \in Takeovers : status[t] \notin {"fulfilled", "sealed_completed"}
  BY DEF ResumeInv
<1>3. \A t \in Takeovers : Seen[t] \in {status[t], "expired"}
  BY DEF Seen
<1> QED
  BY <1>1, <1>2, <1>3

LEMMA NextResume ==
    ASSUME Tools \subseteq {"guard", "fill"}, "fulfilled" \notin Decisions,
           ResumeInv, [Next]_vars
    PROVE  ResumeInv'
<1> DEFINE Plain(f) == \A t \in Takeovers : f[t] \notin {"fulfilled", "sealed_completed"}
<1>1. TypeOK' /\ TypeOK /\ Plain(status)
  BY NextType DEF ResumeInv
<1>2. ASSUME Plain(status'), pc' \in {"idle", "fill", "route", "stream", "guard"},
             UNCHANGED <<reply, outcome>> \/ reply' = "none"
      PROVE  ResumeInv'
  BY <1>1, <1>2 DEF ResumeInv, ResumesAfterRelease
<1>3. ASSUME Plain(status'), NEW answer, NEW carried, Return(answer, carried),
             answer \in {"takeover_released", "resumed"} => carried = "released"
      PROVE  ResumeInv'
  BY <1>1, <1>3 DEF ResumeInv, ResumesAfterRelease, Return
<1>4. ASSUME NEW t \in Takeovers, Create(t) PROVE Plain(status')
  BY <1>1, <1>4 DEF Create, TypeOK
<1>5. CASE UNCHANGED vars \/ Tick
  BY <1>1, <1>2, <1>5 DEF vars, Tick, ResumeInv
<1>6. CASE CallTool
  <2>1. PICK tool \in Tools : pc' = FirstStep(tool) /\ reply' = "none" /\ status' = status
    BY <1>6 DEF CallTool
  <2>2. pc' \in {"fill", "route"}
    BY <2>1 DEF FirstStep
  <2> QED
    BY <1>1, <1>2, <2>1, <2>2
<1>7. CASE FillCredential
  BY <1>1, <1>3, <1>7 DEF FillCredential
<1>8. CASE RouteTakeover
  <2>1. CASE \E t \in Takeovers : Create(t)
    <3>1. Plain(status')
      BY <1>4, <2>1
    <3>2. \/ pc' = "stream" /\ UNCHANGED <<reply, outcome>>
          \/ Return("aborted", "absent")
      BY <1>8 DEF RouteTakeover
    <3> QED
      BY <1>2, <1>3, <3>1, <3>2
  <2>2. CASE OutOfIds /\ Return("aborted", "absent")
    BY <1>1, <1>3, <2>2 DEF OutOfIds
  <2> QED
    BY <1>8, <2>1, <2>2 DEF RouteTakeover
<1>9. ASSUME pc \in {"stream", "guard"}
      PROVE  /\ handoff \in Takeovers /\ Seen[handoff] \notin {"fulfilled", "sealed_completed"}
             /\ Plain([status EXCEPT ![handoff] = Seen[handoff]])
  BY <1>1, <1>9, SeenPlain DEF TypeOK
<1>10. CASE StartStream
  <2>1. Plain(status')
    BY <1>9, <1>10 DEF StartStream
  <2>2. \/ pc' = "guard" /\ UNCHANGED <<reply, outcome>>
        \/ Return("aborted", Seen[handoff])
    BY <1>10 DEF StartStream
  <2> QED
    BY <1>2, <1>3, <2>1, <2>2
<1>11. CASE GuardWait
  <2>1. Plain(status')
    BY <1>1, <1>9, <1>11 DEF GuardWait
  <2>2. \/ Return("aborted", "absent") \/ Return("aborted", Seen[handoff])
        \/ Seen[handoff] \in Released /\ Return("resumed", Seen[handoff])
        \/ GoOn("guard")
    BY <1>11 DEF GuardWait
  <2>3. Seen[handoff] \in Released => Seen[handoff] = "released"
    BY <1>9, <1>11 DEF GuardWait, Released
  <2>4. GoOn("guard") => pc' = "guard" /\ UNCHANGED <<reply, outcome>>
    BY DEF GoOn
  <2> QED
    BY <1>2, <1>3, <2>1, <2>2, <2>3, <2>4
<1>12. ~PauseForUserTakeover /\ ~BrowserAction /\ ~Detect /\ ~EnsureTakeover /\ ~OpenTakeover
       /\ ~WaitForRelease /\ ~ReportRelease
  BY DEF ResumeInv, PauseForUserTakeover, BrowserAction, Detect, EnsureTakeover, OpenTakeover,
         WaitForRelease, ReportRelease
<1>13. ASSUME NEW c \in Clients, LookForTakeover(c) \/ TakeControl(c) PROVE ResumeInv'
  <2>1. Plain(status')
    BY <1>1, <1>4, <1>13, SeenPlain DEF LookForTakeover, TakeControl, OutOfIds
  <2> QED
    BY <1>2, <1>13, <2>1 DEF LookForTakeover, TakeControl, Agent, ResumeInv
<1>14. ASSUME NEW t \in Takeovers, Decide(t) PROVE ResumeInv'
  <2>1. PICK s \in Status \ {"fulfilled", "sealed_completed"} : status' = [status EXCEPT ![t] = s]
    <3>1. CASE status' = [status EXCEPT ![t] = "expired"]
      BY <3>1 DEF Status
    <3>2. CASE \E d \in Decisions :
                 status' = [status EXCEPT ![t] = IF @ = "fulfilled" THEN "sealed_completed" ELSE d]
      <4>1. PICK d \in Decisions :
               status' = [status EXCEPT ![t] = IF @ = "fulfilled" THEN "sealed_completed" ELSE d]
        BY <3>2
      <4>2. status[t] # "fulfilled" /\ d # "fulfilled"
        BY <1>1
      <4>3. d \in Status \ {"fulfilled", "sealed_completed"}
        BY <4>2, TakeoverAssumption DEF Status, Outcomes
      <4> QED
        BY <4>1, <4>2, <4>3
    <3> QED
      BY <1>14, <3>1, <3>2 DEF Decide
  <2>2. Plain(status')
    BY <1>1, <2>1 DEF TypeOK
  <2> QED
    BY <1>2, <1>14, <2>2 DEF Decide, Agent, ResumeInv
<1> QED
  BY <1>5, <1>6, <1>7, <1>8, <1>10, <1>11, <1>12, <1>13, <1>14 DEF Next, AgentStep

(* The resolver of challenge_guard goes on only when the user released      *)
(* control, whenever requests expire and however many are made: without a   *)
(* ciphertext sent to a takeover request, which the client does not offer.  *)
THEOREM GuardResumesAfterRelease ==
    ASSUME Tools \subseteq {"guard", "fill"}, "fulfilled" \notin Decisions
    PROVE  Spec => []ResumesAfterRelease
<1>1. Init => ResumeInv
  BY InitType DEF Init, ResumeInv, ResumesAfterRelease
<1>2. ResumeInv /\ [Next]_vars => ResumeInv'
  BY NextResume
<1>3. ResumeInv => ResumesAfterRelease
  BY DEF ResumeInv
<1> QED
  BY <1>1, <1>2, <1>3, PTL DEF Spec
=============================================================================
