---------------------------- MODULE TakeoverGate ----------------------------
(***************************************************************************)
(* Who drives the browser.  The agent reaches it through the tools of the  *)
(* MCP sidecar (omni_mcp/tools.py), one call at a time; a paired client    *)
(* takes it over, or ends a takeover, through the Control Service          *)
(* (omni_control/server.py).  They meet only in the takeover requests of   *)
(* the request store, which both poll.                                     *)
(*                                                                         *)
(* One browser context.  A call of the store is one step here; how the     *)
(* sections of such calls overlap is the subject of RequestStore.  Time is *)
(* counted down: a request has "left" ticks to live and a waiting call has *)
(* "patience" ticks until its deadline.                                    *)
(***************************************************************************)
EXTENDS Naturals, FiniteSets

CONSTANTS
    Takeovers,   \* ids of takeover and registration-handoff requests
    Clients,     \* handler threads of the Control Service
    Tools,       \* the classes of tools the agent calls
    Decisions,   \* what clients do to a request
    TTL,         \* ttl_seconds of a request, in ticks
    Patience,    \* takeover_wait_timeout_seconds, in ticks
    MaxTouched,  \* bound: the history of agent actions saturates here
    None         \* no takeover

(* "act": the browser tools behind the gate; "detect": detect_challenge and *)
(* detect_antibot; "fill": the credential fills; "ask": request_user_control *)
(* and request_user_handoff; "guard": resolve_current_browser_challenge.    *)
ToolClasses == {"act", "detect", "fill", "ask", "guard"}

(* What a decision of the client leaves in the request.                     *)
Outcomes == {"released", "denied", "approved", "challenge_completed", "fulfilled"}
Expirable == {"user_control", "approved", "fulfilled"}
(* "sealed_completed": challenge_completed, over a ciphertext sent earlier.  *)
Status == Outcomes \cup {"absent", "user_control", "expired", "sealed_completed"}

ASSUME TakeoverAssumption ==
    /\ IsFiniteSet(Takeovers) /\ IsFiniteSet(Clients)
    /\ None \notin Takeovers
    /\ Tools \subseteq ToolClasses
    /\ Decisions \subseteq Outcomes
    /\ TTL \in Nat \ {0} /\ Patience \in Nat
    /\ MaxTouched \in Nat /\ MaxTouched >= 2

VARIABLES
    status,    \* status of each request
    left,      \* ticks until it is overdue
    pc,        \* where the agent's tool call is
    handoff,   \* the request the call made or found
    patience,  \* ticks until the call's deadline
    reply,     \* what the last call returned
    outcome,   \* the request status that reply carries
    asking,    \* clients between their look at the store and their create()
    touched    \* history: agent actions since the user took control

vars == <<status, left, pc, handoff, patience, reply, outcome, asking, touched>>

PCs == {"idle", "gate", "act", "fill", "probe", "ensure", "open", "wait", "report",
        "route", "stream", "guard"}
Replies == {"none", "ok", "refused", "paused", "takeover_released", "resumed", "aborted"}

Active(t) == status[t] = "user_control" /\ left[t] > 0
InControl == \E t \in Takeovers : Active(t)

(* list() expires whatever is overdue, and stores that.                     *)
Seen ==
    [t \in Takeovers |->
       IF status[t] \in Expirable /\ left[t] = 0 THEN "expired" ELSE status[t]]

(* The user is in control for as long as some takeover is active.           *)
Touch(n) ==
    touched' = IF ~InControl' THEN 0
               ELSE IF touched < MaxTouched THEN touched + n ELSE touched

Init ==
    /\ status = [t \in Takeovers |-> "absent"]
    /\ left = [t \in Takeovers |-> 0]
    /\ pc = "idle"
    /\ handoff = None
    /\ patience = 0
    /\ reply = "none"
    /\ outcome = "absent"
    /\ asking = {}
    /\ touched = 0

-----------------------------------------------------------------------------
(* The agent's tool call.                                                   *)

Return(answer, carried) ==
    /\ pc' = "idle"
    /\ handoff' = None
    /\ patience' = 0
    /\ reply' = answer
    /\ outcome' = carried

GoOn(p) ==
    /\ pc' = p
    /\ UNCHANGED <<handoff, patience, reply, outcome>>

FirstStep(tool) ==
    CASE tool = "act"    -> "gate"
      [] tool = "detect" -> "probe"
      [] tool = "fill"   -> "fill"
      [] tool = "ask"    -> "ensure"
      [] tool = "guard"  -> "route"

CallTool ==
    /\ pc = "idle"
    /\ \E tool \in Tools :
          /\ pc' = FirstStep(tool)
          /\ handoff' = None
          /\ patience' = IF tool = "act" THEN Patience ELSE 0
    /\ reply' = "none"
    /\ outcome' = "absent"
    /\ UNCHANGED <<status, left, asking>>
    /\ Touch(0)

(* Mutant: the deadline breaks the loop, and the action goes ahead.         *)
PauseForgotten ==
    /\ pc = "gate"
    /\ status' = Seen
    /\ GoOn(IF InControl /\ patience > 0 THEN "gate" ELSE "act")
    /\ UNCHANGED <<left, asking>>
    /\ Touch(0)

(* _pause_for_user_takeover_if_needed: one poll of the loop.  With no       *)
(* active takeover the action goes ahead; at the deadline the call returns. *)
PauseForUserTakeover ==
    /\ pc = "gate"
    /\ status' = Seen
    /\ \/ ~InControl /\ GoOn("act")
       \/ InControl /\ patience > 0 /\ GoOn("gate")
       \/ InControl /\ patience = 0 /\ Return("paused", "user_control")
    /\ UNCHANGED <<left, asking>>
    /\ Touch(0)

(* open, click, type_text, select, upload_file, download: a missing         *)
(* argument or approval ends the call; else the browser is touched, and the *)
(* page it leads to may call for a human.                                   *)
BrowserAction ==
    /\ pc = "act"
    /\ UNCHANGED <<status, left, asking>>
    /\ \/ (GoOn("ensure") \/ Return("ok", "absent")) /\ Touch(1)
       \/ Return("refused", "absent") /\ Touch(0)

(* credential.fill_current_origin_login and _totp: no gate.                 *)
FillCredential ==
    /\ pc = "fill"
    /\ UNCHANGED <<status, left, asking>>
    /\ \/ Return("ok", "absent") /\ Touch(1)
       \/ Return("refused", "absent") /\ Touch(0)

Detect ==
    /\ pc = "probe"
    /\ GoOn("ensure") \/ Return("ok", "absent")
    /\ UNCHANGED <<status, left, asking>>
    /\ Touch(0)

(* Mutant: the waiting call forgets which request it found.                 *)
SettleUnnamed(t) ==
    \/ /\ pc' = "wait"
       /\ patience' = Patience
       /\ UNCHANGED <<handoff, reply, outcome>>
    \/ Return("paused", "user_control")

(* The call waits for the release if it was asked to, else it returns.      *)
Settle(t) ==
    \/ /\ pc' = "wait"
       /\ handoff' = t
       /\ patience' = Patience
       /\ UNCHANGED <<reply, outcome>>
    \/ Return("paused", "user_control")

(* Mutant: a takeover is made even if one is active.                        *)
EnsureAlwaysOpens ==
    /\ pc = "ensure"
    /\ status' = Seen
    /\ GoOn("open")
    /\ UNCHANGED <<left, asking>>
    /\ Touch(0)

(* _ensure_browser_takeover_request: an active takeover is reused.          *)
EnsureTakeover ==
    /\ pc = "ensure"
    /\ status' = Seen
    /\ \/ \E t \in Takeovers : Active(t) /\ Settle(t)
       \/ ~InControl /\ GoOn("open")
    /\ UNCHANGED <<left, asking>>
    /\ Touch(0)

Create(t) ==
    /\ status[t] = "absent"
    /\ status' = [status EXCEPT ![t] = "user_control"]
    /\ left' = [left EXCEPT ![t] = TTL]

(* The model has no id left for another request.                            *)
OutOfIds ==
    /\ \A t \in Takeovers : status[t] # "absent"
    /\ UNCHANGED <<status, left>>

(* request_user_control of the sidecar, and the end of the call; without an *)
(* origin or a browser the call is refused.                                 *)
OpenTakeover ==
    /\ pc = "open"
    /\ \/ \E t \in Takeovers : Create(t) /\ Settle(t)
       \/ Return("refused", "absent") /\ UNCHANGED <<status, left>>
    /\ UNCHANGED asking
    /\ Touch(0)

(* Mutant: the loop waits for "released" and has no deadline.               *)
WaitUntilReleased ==
    /\ pc = "wait"
    /\ status' = Seen
    /\ GoOn(IF Seen[handoff] = "released" THEN "report" ELSE "wait")
    /\ UNCHANGED <<left, asking>>
    /\ Touch(0)

(* One poll of _wait_for_takeover_release_result.                           *)
WaitForRelease ==
    /\ pc = "wait"
    /\ status' = Seen
    /\ \/ ~InControl /\ GoOn("report")
       \/ InControl /\ patience > 0 /\ GoOn("wait")
       \/ InControl /\ patience = 0 /\ Return("paused", "user_control")
    /\ UNCHANGED <<left, asking>>
    /\ Touch(0)

(* The same function after the loop: the request is read again.             *)
ReportRelease ==
    /\ pc = "report"
    /\ status' = [status EXCEPT ![handoff] = Seen[handoff]]
    /\ Return("takeover_released", Seen[handoff])
    /\ UNCHANGED <<left, asking>>
    /\ Touch(0)

(* challenge_guard._route_takeover: a request of its own, always.           *)
RouteTakeover ==
    /\ pc = "route"
    /\ \/ /\ \E t \in Takeovers : Create(t) /\ handoff' = t
          /\ pc' = "stream"
          /\ UNCHANGED <<patience, reply, outcome>>
       \/ OutOfIds /\ Return("aborted", "absent")
    /\ UNCHANGED asking
    /\ Touch(0)

(* start_stream raises unless the request still is in user control; then    *)
(* the wait begins.                                                         *)
StartStream ==
    /\ pc = "stream"
    /\ status' = [status EXCEPT ![handoff] = Seen[handoff]]
    /\ \/ /\ Seen[handoff] = "user_control"
          /\ pc' = "guard"
          /\ patience' = Patience
          /\ UNCHANGED <<handoff, reply, outcome>>
       \/ Seen[handoff] # "user_control" /\ Return("aborted", Seen[handoff])
    /\ UNCHANGED <<left, asking>>
    /\ Touch(0)

(* Where challenge_guard._wait_for_release stops and goes on: a ciphertext   *)
(* counts as completion whatever the status, "approved" and                 *)
(* "challenge_completed" do not.                                            *)
Released == {"released", "fulfilled", "sealed_completed"}

(* Mutant: an ended request is taken for a released one.                    *)
GuardAnyEnd ==
    /\ pc = "guard"
    /\ \/ /\ patience = 0
          /\ Return("aborted", "absent")
          /\ UNCHANGED status
       \/ /\ patience > 0
          /\ status' = [status EXCEPT ![handoff] = Seen[handoff]]
          /\ \/ Seen[handoff] # "user_control" /\ Return("resumed", Seen[handoff])
             \/ Seen[handoff] = "user_control" /\ GoOn("guard")
    /\ UNCHANGED <<left, asking>>
    /\ Touch(0)

(* Mutant: the loop has no deadline.                                        *)
GuardNoDeadline ==
    /\ pc = "guard"
    /\ status' = [status EXCEPT ![handoff] = Seen[handoff]]
    /\ \/ Seen[handoff] \in Released /\ Return("resumed", Seen[handoff])
       \/ Seen[handoff] \in {"denied", "expired"} /\ Return("aborted", Seen[handoff])
       \/ /\ Seen[handoff] \in {"user_control", "approved", "challenge_completed"}
          /\ GoOn("guard")
    /\ UNCHANGED <<left, asking>>
    /\ Touch(0)

(* One poll of challenge_guard._wait_for_release.                           *)
GuardWait ==
    /\ pc = "guard"
    /\ \/ /\ patience = 0
          /\ Return("aborted", "absent")
          /\ UNCHANGED status
       \/ /\ patience > 0
          /\ status' = [status EXCEPT ![handoff] = Seen[handoff]]
          /\ \/ Seen[handoff] \in Released /\ Return("resumed", Seen[handoff])
             \/ Seen[handoff] \in {"denied", "expired"} /\ Return("aborted", Seen[handoff])
             \/ /\ Seen[handoff] \in {"user_control", "approved", "challenge_completed"}
                /\ GoOn("guard")
    /\ UNCHANGED <<left, asking>>
    /\ Touch(0)

-----------------------------------------------------------------------------
(* The Control Service.                                                     *)

Agent == <<pc, handoff, patience, reply, outcome>>

(* POST .../takeover, first half: the handler looks for an active takeover, *)
(* and answers with it if there is one.                                     *)
LookForTakeover(c) ==
    /\ c \notin asking
    /\ status' = Seen
    /\ asking' = IF InControl THEN asking ELSE asking \cup {c}
    /\ UNCHANGED <<left, Agent>>
    /\ Touch(0)

(* Second half: request_user_control of the service.                        *)
TakeControl(c) ==
    /\ c \in asking
    /\ asking' = asking \ {c}
    /\ (\E t \in Takeovers : Create(t)) \/ OutOfIds
    /\ UNCHANGED Agent
    /\ Touch(0)

(* _ensure_actionable for a request that is not overdue: only an unused one *)
(* is changed, except that a fulfilled one can still be completed.          *)
Changeable(s, d) ==
    \/ s \in {"user_control", "approved"}
    \/ s = "fulfilled" /\ d = "challenge_completed"

(* POST /api/requests/<id>/<action>.  An overdue request becomes expired,   *)
(* whatever its status was.                                                 *)
Decide(t) ==
    /\ status[t] # "absent"
    /\ \/ /\ left[t] = 0
          /\ status' = [status EXCEPT ![t] = "expired"]
       \/ /\ left[t] > 0
          /\ \E d \in Decisions :
                /\ Changeable(status[t], d)
                /\ status' = [status EXCEPT ![t] = IF @ = "fulfilled" THEN "sealed_completed" ELSE d]
    /\ UNCHANGED <<left, asking, Agent>>
    /\ Touch(0)

(* Time passes.                                                             *)
Tick ==
    /\ left' = [t \in Takeovers |-> IF left[t] = 0 THEN 0 ELSE left[t] - 1]
    /\ patience' = IF patience = 0 THEN 0 ELSE patience - 1
    /\ UNCHANGED <<status, pc, handoff, reply, outcome, asking>>
    /\ Touch(0)

AgentStep ==
    \/ PauseForUserTakeover \/ BrowserAction \/ FillCredential \/ Detect
    \/ EnsureTakeover \/ OpenTakeover \/ WaitForRelease \/ ReportRelease
    \/ RouteTakeover \/ StartStream \/ GuardWait

Next ==
    \/ CallTool \/ AgentStep \/ Tick
    \/ \E c \in Clients : LookForTakeover(c) \/ TakeControl(c)
    \/ \E t \in Takeovers : Decide(t)

(* The sidecar runs a call it has read from stdin to its end, and time      *)
(* passes; nobody has to call a tool or to decide anything.                 *)
Fairness == WF_vars(AgentStep) /\ WF_vars(Tick)

Spec == Init /\ [][Next]_vars /\ Fairness

-----------------------------------------------------------------------------
TypeOK ==
    /\ status \in [Takeovers -> Status]
    /\ left \in [Takeovers -> Nat]
    /\ pc \in PCs
    /\ handoff \in Takeovers \cup {None}
    /\ pc \in {"wait", "report", "stream", "guard"} => handoff \in Takeovers
    /\ patience \in Nat
    /\ reply \in Replies
    /\ outcome \in Status
    /\ asking \subseteq Clients
    /\ touched \in Nat

(* Once the user has taken control, at most one more action of the agent    *)
(* reaches the browser before control is given back: the one whose call was *)
(* past the gate of _pause_for_user_takeover_if_needed at that moment.      *)
NoOverrun == touched <= 1

(* The inductive invariant behind NoOverrun: nothing is counted while the   *)
(* user is not in control, and a call past the gate has not acted yet.      *)
OverrunInv ==
    /\ TypeOK
    /\ touched <= 1
    /\ ~InControl => touched = 0
    /\ pc = "act" => touched = 0
    /\ pc # "fill"

(* Takeovers of one context that are active at once, with those about to be *)
(* created by someone who saw none, are no more than the parties that can   *)
(* create one: the check in _ensure_browser_takeover_request and in the     *)
(* takeover handler is not atomic with create(), but its harm is bounded.   *)
AboutToOpen == IF pc = "open" THEN 1 ELSE 0
DuplicatesBounded ==
    Cardinality({t \in Takeovers : Active(t)}) + Cardinality(asking) + AboutToOpen
        <= Cardinality(Clients) + 1

(* The agent is told to go on only when the user has released control: the  *)
(* request behind a "takeover_released" reply, or behind a resumption of    *)
(* the challenge guard, is in state released.                               *)
ResumesAfterRelease ==
    reply \in {"takeover_released", "resumed"} => outcome = "released"

(* The inductive invariant behind it, for the resolver of challenge_guard:  *)
(* no call waits as the sidecar's tools do, and no ciphertext has been sent *)
(* for a request, which the resolver would take for its release.            *)
ResumeInv ==
    /\ TypeOK
    /\ pc \in {"idle", "fill", "route", "stream", "guard"}
    /\ \A t \in Takeovers : status[t] \notin {"fulfilled", "sealed_completed"}
    /\ ResumesAfterRelease

(* A tool call always comes to an end: no takeover, however it ends or if   *)
(* it never does, leaves the sidecar's only thread waiting for ever.        *)
CallReturns == pc # "idle" ~> pc = "idle"
=============================================================================
