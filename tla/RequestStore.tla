---------------------------- MODULE RequestStore ----------------------------
(***************************************************************************)
(* The store of Control Requests (omni_control/requests.py) and the        *)
(* handlers that drive it: the Control Service's HTTP threads, its         *)
(* current-session-sync maintainer, and the MCP sidecar process.           *)
(*                                                                         *)
(* All of them share one JSON file.  A locked section of the store loads   *)
(* the whole file and writes the whole file back; the lock is a            *)
(* threading.RLock, so it excludes only workers of the same process.  An   *)
(* operation such as approve() is a get() section, a check on the local    *)
(* copy, and an update() section that stores the whole local copy; the     *)
(* lock is free between the two sections.                                  *)
(***************************************************************************)
EXTENDS Naturals, FiniteSets

CONSTANTS
    Requests,      \* request ids
    Workers,       \* threads that call the store
    ProcessOf,     \* the operating-system process of each worker
    Allowed,       \* the operations each worker performs
    Crashable,     \* the processes that may die
    TypeOf,        \* request_type of each request, by class
    TTL,           \* ttl_seconds of a request, in ticks
    RenewWindow,   \* CONSOLE_RESTART_REQUEST_RENEW_WINDOW_SECONDS, in ticks
    MaxRequests,   \* bound: requests in existence
    MaxTime,       \* bound: the clock stops here
    MaxApprovals,  \* bound: approve() calls begun per request
    MaxEffects,    \* bound: sensitive actions attempted per request
    NoReq          \* no request: a key the file lacks, a worker's idle local

(* The classes of REQUEST_TYPES the code treats differently: "provider" is  *)
(* a credential request whose secret_target is the model provider.          *)
Types == {"secret", "provider", "approval", "takeover", "restart"}

Operations ==
    {"create", "list", "get", "submit", "approve", "deny", "cancel",
     "complete", "release", "frame", "click", "renew", "obsolete"}

(* What a worker is in the middle of: an operation, or the second half of   *)
(* one that calls the store twice.                                          *)
Calls == Operations \cup {"consume", "apply", "expire", "none"}

Status ==
    {"pending", "user_control", "fulfilled", "approved", "consumed", "denied",
     "released", "challenge_completed", "expired", "cancelled"}

Expirable == {"pending", "user_control", "fulfilled", "approved"}
Completed == {"fulfilled", "approved", "consumed", "denied", "released",
              "challenge_completed"}
Aborted   == {"denied", "expired", "cancelled"}

(* The fields of ControlRequest that guards read.  "sealed" says that       *)
(* response_ciphertext is present.                                          *)
Record ==
    [status    : Status,
     used      : BOOLEAN,
     sealed    : BOOLEAN,
     decision  : {"none", "approved", "denied"},
     owner     : {"agent", "user"},
     completed : BOOLEAN,
     expires   : Nat]

ASSUME ConstantsAssumption ==
    /\ NoReq \notin Record /\ NoReq \notin Requests
    /\ TypeOf \in [Requests -> Types]
    /\ Allowed \in [Workers -> SUBSET Operations]
    /\ TTL \in Nat /\ RenewWindow \in Nat
    /\ MaxRequests \in Nat /\ MaxTime \in Nat
    /\ MaxApprovals \in Nat /\ MaxEffects \in Nat

VARIABLES
    file,       \* control_requests.json
    now,        \* time.time()
    pc,         \* where each worker is
    call,       \* the call each worker is making
    target,     \* the request that call is about
    copy,       \* the worker's local ControlRequest
    snap,       \* the file content the worker is about to write
    approvals,  \* history: approve() calls that returned, per request
    effects,    \* history: sensitive actions carried out, per request
    audited     \* status in the last control_request_completed event

vars == <<file, now, pc, call, target, copy, snap, approvals, effects, audited>>

(* "...save": inside a locked section, file loaded and not yet written.      *)
(* "updatesave" will be followed by an audit event, "quietsave" will not.   *)
(* "effect": the handler is about to carry out what the request was for.    *)
PCs == {"idle", "get", "getsave", "check", "update", "updatesave", "quietsave",
        "listsave", "create", "createsave", "audit", "return", "effect"}
Saving == {"getsave", "updatesave", "quietsave", "listsave", "createsave"}

(* Mutant: the lock excludes nobody.                                        *)
LockAlwaysFree(w) == TRUE

(* locked_state_file: excludes the other workers of the same process only.  *)
LockFree(w) ==
    \A v \in Workers : ProcessOf[v] = ProcessOf[w] => pc[v] \notin Saving

IsExpired(rec) == now > rec.expires

ExpireIfNeeded(rec) ==
    IF rec # NoReq /\ rec.status \in Expirable /\ IsExpired(rec)
    THEN [rec EXCEPT !.status = "expired"] ELSE rec

NewRequest(r) ==
    [status    |-> IF TypeOf[r] = "takeover" THEN "user_control" ELSE "pending",
     used      |-> FALSE,
     sealed    |-> FALSE,
     decision  |-> "none",
     owner     |-> IF TypeOf[r] = "takeover" THEN "user" ELSE "agent",
     completed |-> FALSE,
     expires   |-> now + TTL]

(* control_requests.json before the first request.                          *)
Empty == [r \in Requests |-> NoReq]

Init ==
    /\ file = Empty
    /\ now = 0
    /\ pc = [w \in Workers |-> "idle"]
    /\ call = [w \in Workers |-> "none"]
    /\ target = [w \in Workers |-> NoReq]
    /\ copy = [w \in Workers |-> NoReq]
    /\ snap = [w \in Workers |-> Empty]
    /\ approvals = [r \in Requests |-> 0]
    /\ effects = [r \in Requests |-> 0]
    /\ audited = [r \in Requests |-> "none"]

-----------------------------------------------------------------------------
(* Worker bookkeeping shared by the operations.                             *)

Set(var, w, value) == [var EXCEPT ![w] = value]

(* The operation returns or raises: the worker's locals are gone.           *)
Finish(w) ==
    /\ pc' = Set(pc, w, "idle")
    /\ call' = Set(call, w, "none")
    /\ target' = Set(target, w, NoReq)
    /\ copy' = Set(copy, w, NoReq)
    /\ snap' = Set(snap, w, Empty)

(* get(): one locked section that loads the file, expires the request if it *)
(* is overdue (then it also writes the file), and hands out a copy.         *)
GetSection(w, c, r) ==
    /\ LockFree(w)
    /\ file[r] # NoReq
    /\ call' = Set(call, w, c)
    /\ target' = Set(target, w, r)
    /\ copy' = Set(copy, w, ExpireIfNeeded(file[r]))
    /\ \/ /\ ExpireIfNeeded(file[r]) = file[r]
          /\ pc' = Set(pc, w, "check")
          /\ snap' = snap
       \/ /\ ExpireIfNeeded(file[r]) # file[r]
          /\ pc' = Set(pc, w, "getsave")
          /\ snap' = Set(snap, w, [file EXCEPT ![r] = ExpireIfNeeded(file[r])])

(* The handler acts on the returned request: the sidecar clicks once        *)
(* consume_approval() returned, the Control Service restarts the console    *)
(* after approve() and stores the model provider key after submit.          *)
HasEffect(c, r) ==
    \/ c = "consume" /\ TypeOf[r] = "approval"
    \/ c = "approve" /\ TypeOf[r] = "restart"
    \/ c = "submit" /\ TypeOf[r] = "provider"

(* A worker starts one of the operations that begin with get().             *)
Start(w) ==
    /\ pc[w] = "idle"
    /\ \E c \in Allowed[w] \ {"create", "list", "renew", "obsolete"}, r \in Requests :
          /\ c = "approve" => approvals[r] < MaxApprovals
          /\ c = "click" => TypeOf[r] = "approval"
          /\ HasEffect(c, r) \/ c = "click" => effects[r] < MaxEffects
          /\ GetSection(w, c, r)
    /\ UNCHANGED <<file, now, approvals, effects, audited>>

(* The second get() of a handler that calls the store twice; the request    *)
(* may have vanished from the file (KeyError).                              *)
GetAgain(w) ==
    /\ pc[w] = "get"
    /\ \/ GetSection(w, call[w], target[w])
       \/ LockFree(w) /\ file[target[w]] = NoReq /\ Finish(w)
    /\ UNCHANGED <<file, now, approvals, effects, audited>>

(* create(): a fresh id enters the file.  The request object, and with it   *)
(* expires_at, is made before the lock is taken.                            *)
CreateSection(w, r) ==
    /\ LockFree(w)
    /\ file[r] = NoReq
    /\ pc' = Set(pc, w, "createsave")
    /\ call' = Set(call, w, "create")
    /\ target' = Set(target, w, r)
    /\ snap' = Set(snap, w, [file EXCEPT ![r] = NewRequest(r)])
    /\ copy' = copy

(* An id is taken as long as the file or a worker has it (uuid4).           *)
Taken(r) ==
    \/ file[r] # NoReq
    \/ \E v \in Workers : target[v] = r \/ snap[v][r] # NoReq

Fresh(r) ==
    /\ ~Taken(r)
    /\ Cardinality({q \in Requests : Taken(q)}) < MaxRequests

Create(w) ==
    /\ pc[w] = "idle"
    /\ "create" \in Allowed[w]
    /\ \E r \in Requests : Fresh(r) /\ CreateSection(w, r)
    /\ UNCHANGED <<file, now, approvals, effects, audited>>

(* list() expires every overdue request and always writes the file back.    *)
Listed == [r \in Requests |-> ExpireIfNeeded(file[r])]

ListSection(w, c, r, rec) ==
    /\ pc[w] = "idle"
    /\ LockFree(w)
    /\ pc' = Set(pc, w, "listsave")
    /\ call' = Set(call, w, c)
    /\ target' = Set(target, w, r)
    /\ copy' = Set(copy, w, rec)
    /\ snap' = Set(snap, w, Listed)
    /\ UNCHANGED <<file, now, approvals, effects, audited>>

List(w) == "list" \in Allowed[w] /\ ListSection(w, "list", NoReq, NoReq)

RestartPending(r) ==
    /\ TypeOf[r] = "restart"
    /\ file[r] # NoReq
    /\ Listed[r].status = "pending"

(* create_or_renew_console_restart_request: a pending restart request found *)
(* by list() is kept; it is written back when its expiry is near (and       *)
(* pushed out) or its details changed.  Without one, a request is created.  *)
Renew(w) ==
    /\ "renew" \in Allowed[w]
    /\ \/ \E r \in Requests :
             /\ RestartPending(r)
             /\ Listed[r].expires < now + RenewWindow
             /\ ListSection(w, "renew", r, [Listed[r] EXCEPT !.expires = now + TTL])
       \/ \E r \in Requests :
             /\ RestartPending(r)
             /\ Listed[r].expires >= now + RenewWindow
             /\ \/ ListSection(w, "renew", r, Listed[r])
                \/ ListSection(w, "list", NoReq, NoReq)
       \/ /\ \A r \in Requests : ~RestartPending(r)
          /\ ListSection(w, "renew", NoReq, NoReq)

(* cancel_obsolete_console_restart_requests: list(), then cancel() on a     *)
(* request that was pending in the listing.                                 *)
CancelObsolete(w) ==
    /\ "obsolete" \in Allowed[w]
    /\ \E r \in Requests :
          RestartPending(r) /\ ListSection(w, "obsolete", r, NoReq)

(* The create() of create_or_renew_console_restart_request.  Giving up when *)
(* no id is left is a bound of the model: ids are unlimited in the code.    *)
CreateRestart(w) ==
    /\ pc[w] = "create"
    /\ \/ \E r \in Requests :
             TypeOf[r] = "restart" /\ Fresh(r) /\ CreateSection(w, r)
       \/ /\ \A r \in Requests : TypeOf[r] = "restart" => ~Fresh(r)
          /\ Finish(w)
    /\ UNCHANGED <<file, now, approvals, effects, audited>>

-----------------------------------------------------------------------------
(* What each operation does with its local copy between get() and update(). *)

(* The operations that call _ensure_actionable (release_takeover and        *)
(* record_takeover_frame check the request type first).                     *)
EnsuresActionable(c, r) ==
    \/ c \in {"submit", "approve", "deny", "complete", "consume"}
    \/ c \in {"release", "frame"} /\ TypeOf[r] = "takeover"

(* Mutant: approve() and deny() forget the one-time-use check.              *)
AcceptsUsed(c, r, rec) ==
    \/ c = "submit" /\ ~rec.used /\ ~rec.sealed
    \/ c \in {"approve", "deny"}
    \/ c = "complete" /\ (rec.used => rec.status = "fulfilled")
    \/ c \in {"release", "frame"} /\ TypeOf[r] = "takeover" /\ ~rec.used
    \/ c = "consume" /\ ~rec.used /\ rec.status = "approved" /\ rec.decision = "approved"
    \/ c = "cancel" /\ rec.status \notin Completed \cup Aborted

(* The conditions under which an operation goes on to change the request.   *)
Accepts(c, r, rec) ==
    \/ c = "submit" /\ ~rec.used /\ ~rec.sealed
    \/ c \in {"approve", "deny"} /\ ~rec.used
    \/ c = "complete" /\ (rec.used => rec.status = "fulfilled")
    \/ c \in {"release", "frame"} /\ TypeOf[r] = "takeover" /\ ~rec.used
    \/ c = "consume" /\ ~rec.used /\ rec.status = "approved" /\ rec.decision = "approved"
    \/ c = "cancel" /\ rec.status \notin Completed \cup Aborted

(* The operation accepts; rec is the copy it will store.                    *)
Accept(w, c, rec) ==
    /\ pc[w] = "check"
    /\ call[w] = c
    /\ EnsuresActionable(c, target[w]) => ~IsExpired(copy[w])
    /\ Accepts(c, target[w], copy[w])
    /\ copy' = Set(copy, w, rec)
    /\ pc' = Set(pc, w, "update")
    /\ UNCHANGED <<file, now, call, target, snap, approvals, effects, audited>>

SubmitCiphertext(w) ==
    Accept(w, "submit", [copy[w] EXCEPT !.sealed = TRUE, !.status = "fulfilled",
                                        !.used = TRUE, !.completed = TRUE])
(* Mutant: the decision is recorded under the word the user guide uses.     *)
ApproveOnce(w) ==
    Accept(w, "approve", [copy[w] EXCEPT !.decision = "approve_once", !.status = "approved",
                                         !.used = FALSE, !.completed = TRUE])
Approve(w) ==
    Accept(w, "approve", [copy[w] EXCEPT !.decision = "approved", !.status = "approved",
                                         !.used = FALSE, !.completed = TRUE])
(* Mutant: a denied request is left usable.                                 *)
DenyUnused(w) ==
    Accept(w, "deny", [copy[w] EXCEPT !.decision = "denied", !.status = "denied",
                                      !.completed = TRUE])
Deny(w) ==
    Accept(w, "deny", [copy[w] EXCEPT !.decision = "denied", !.status = "denied",
                                      !.used = TRUE, !.completed = TRUE])
Cancel(w) ==
    Accept(w, "cancel", [copy[w] EXCEPT !.status = "cancelled", !.used = TRUE,
                                        !.completed = FALSE])
MarkChallengeCompleted(w) ==
    Accept(w, "complete", [copy[w] EXCEPT !.status = "challenge_completed",
                                          !.completed = TRUE, !.used = TRUE])
ReleaseTakeover(w) ==
    Accept(w, "release", [copy[w] EXCEPT !.status = "released", !.owner = "agent",
                                         !.completed = TRUE, !.used = TRUE])
(* Only the takeover_frame_* fields change; the whole record is rewritten.  *)
RecordTakeoverFrame(w) ==
    Accept(w, "frame", copy[w])
(* Mutant: consume_approval() checks but does not mark the request.         *)
ConsumeUnmarked(w) ==
    Accept(w, "consume", copy[w])
ConsumeApproval(w) ==
    Accept(w, "consume", [copy[w] EXCEPT !.status = "consumed", !.used = TRUE])

(* _ensure_actionable on an overdue request stores status expired, whatever *)
(* the status was, and then raises.                                         *)
RefuseExpired(w) ==
    /\ pc[w] = "check"
    /\ EnsuresActionable(call[w], target[w])
    /\ IsExpired(copy[w])
    /\ copy' = Set(copy, w, [copy[w] EXCEPT !.status = "expired"])
    /\ call' = Set(call, w, "expire")
    /\ pc' = Set(pc, w, "update")
    /\ UNCHANGED <<file, now, target, snap, approvals, effects, audited>>

(* verify_approval_scope: status, used and the review fingerprint are       *)
(* checked on one copy, then consume_approval() reads the request again.    *)
(* The fingerprint may differ from the reviewed one.                        *)
VerifyApprovalScope(w) ==
    /\ pc[w] = "check"
    /\ call[w] = "click"
    /\ \/ /\ copy[w].status = "approved"
          /\ ~copy[w].used
          /\ pc' = Set(pc, w, "get")
          /\ call' = Set(call, w, "consume")
          /\ UNCHANGED <<target, copy, snap>>
       \/ Finish(w)
    /\ UNCHANGED <<file, now, approvals, effects, audited>>

(* get() returns its copy to the caller; any other operation that does not  *)
(* accept raises (or, for cancel, returns) without storing anything.        *)
Decline(w) ==
    /\ pc[w] = "check"
    /\ call[w] # "click"
    /\ EnsuresActionable(call[w], target[w]) => ~IsExpired(copy[w])
    /\ ~Accepts(call[w], target[w], copy[w])
    /\ Finish(w)
    /\ UNCHANGED <<file, now, approvals, effects, audited>>

-----------------------------------------------------------------------------
(* Mutant: only completed statuses count as terminal.                       *)
EventDueCompleted(old, rec) ==
    \/ /\ old = NoReq \/ old.status # rec.status
       /\ rec.status \in Completed
    \/ (old # NoReq => ~old.sealed) /\ rec.sealed

(* update(): load the file, put the local copy in it, write it back.  The   *)
(* event is due when the stored status changes to a terminal one, or when   *)
(* the ciphertext arrives.                                                  *)
EventDue(old, rec) ==
    \/ /\ old = NoReq \/ old.status # rec.status
       /\ rec.status \in Completed \cup Aborted
    \/ (old # NoReq => ~old.sealed) /\ rec.sealed

UpdateSection(w) ==
    /\ pc[w] = "update"
    /\ LockFree(w)
    /\ snap' = Set(snap, w, [file EXCEPT ![target[w]] = copy[w]])
    /\ pc' = Set(pc, w, IF EventDue(file[target[w]], copy[w]) THEN "updatesave" ELSE "quietsave")
    /\ UNCHANGED <<file, now, call, target, copy, approvals, effects, audited>>

(* Where a worker goes when its locked section ends.                        *)
AfterSave(w) ==
    CASE pc[w] = "getsave"    -> "check"
      [] pc[w] = "updatesave" -> "audit"
      [] pc[w] = "quietsave"  -> "return"
      [] pc[w] = "createsave" -> "return"
      [] pc[w] = "listsave"   ->
            CASE call[w] = "renew"    -> IF target[w] = NoReq THEN "create" ELSE "update"
              [] call[w] = "obsolete" -> "get"
              [] call[w] = "list"     -> "return"

(* atomic_write_json: the file becomes the worker's content in one step.    *)
Save(w) ==
    /\ pc[w] \in Saving
    /\ file' = snap[w]
    /\ snap' = Set(snap, w, Empty)
    /\ pc' = Set(pc, w, AfterSave(w))
    /\ call' = IF call[w] = "obsolete" THEN Set(call, w, "cancel") ELSE call
    /\ approvals' = IF call[w] = "approve" /\ pc[w] \in {"updatesave", "quietsave"}
                    THEN [approvals EXCEPT ![target[w]] = @ + 1] ELSE approvals
    /\ UNCHANGED <<now, target, copy, effects, audited>>

Return(w) ==
    /\ pc[w] \in {"audit", "return"}
    /\ audited' = IF pc[w] = "audit"
                  THEN [audited EXCEPT ![target[w]] = copy[w].status] ELSE audited
    /\ \/ /\ HasEffect(call[w], target[w])
          /\ pc' = Set(pc, w, "effect")
          /\ UNCHANGED <<call, target, copy, snap>>
       \/ ~HasEffect(call[w], target[w]) /\ Finish(w)
    /\ UNCHANGED <<file, now, approvals, effects>>

(* The sensitive action is carried out.  A restarted console's request is   *)
(* consumed afterwards; an applied provider key's request is stored as      *)
(* consumed, its ciphertext removed.                                        *)
CarryOut(w) ==
    /\ pc[w] = "effect"
    /\ effects' = [effects EXCEPT ![target[w]] = @ + 1]
    /\ \/ /\ call[w] = "consume"
          /\ Finish(w)
       \/ /\ call[w] = "approve"
          /\ call' = Set(call, w, "consume")
          /\ pc' = Set(pc, w, "get")
          /\ UNCHANGED <<target, copy, snap>>
       \/ /\ call[w] = "submit"
          /\ call' = Set(call, w, "apply")
          /\ copy' = Set(copy, w, [copy[w] EXCEPT !.sealed = FALSE, !.used = TRUE,
                                                  !.status = "consumed"])
          /\ pc' = Set(pc, w, "update")
          /\ UNCHANGED <<target, snap>>
    /\ UNCHANGED <<file, now, approvals, audited>>

(* The action raises: the request stays as the store call left it.          *)
EffectFails(w) ==
    /\ pc[w] = "effect"
    /\ Finish(w)
    /\ UNCHANGED <<file, now, approvals, effects, audited>>

-----------------------------------------------------------------------------
(* A process dies with all its threads; the file is whole, because it is    *)
(* replaced by rename.                                                      *)
Crash(w) ==
    LET dead == {v \in Workers : ProcessOf[v] = ProcessOf[w]} IN
    /\ ProcessOf[w] \in Crashable
    /\ pc[w] # "idle"
    /\ pc' = [v \in Workers |-> IF v \in dead THEN "idle" ELSE pc[v]]
    /\ call' = [v \in Workers |-> IF v \in dead THEN "none" ELSE call[v]]
    /\ target' = [v \in Workers |-> IF v \in dead THEN NoReq ELSE target[v]]
    /\ copy' = [v \in Workers |-> IF v \in dead THEN NoReq ELSE copy[v]]
    /\ snap' = [v \in Workers |-> IF v \in dead THEN Empty ELSE snap[v]]
    /\ UNCHANGED <<file, now, approvals, effects, audited>>

Tick ==
    /\ now < MaxTime
    /\ now' = now + 1
    /\ UNCHANGED <<file, pc, call, target, copy, snap, approvals, effects, audited>>

Step(w) ==
    \/ Start(w) \/ GetAgain(w) \/ Create(w) \/ List(w)
    \/ Renew(w) \/ CancelObsolete(w) \/ CreateRestart(w)
    \/ SubmitCiphertext(w) \/ Approve(w) \/ Deny(w) \/ Cancel(w)
    \/ MarkChallengeCompleted(w) \/ ReleaseTakeover(w) \/ RecordTakeoverFrame(w)
    \/ ConsumeApproval(w) \/ RefuseExpired(w) \/ VerifyApprovalScope(w) \/ Decline(w)
    \/ UpdateSection(w) \/ Save(w) \/ Return(w) \/ CarryOut(w) \/ EffectFails(w)
    \/ Crash(w)

Next == Tick \/ \E w \in Workers : Step(w)

Spec == Init /\ [][Next]_vars

-----------------------------------------------------------------------------
TypeOK ==
    /\ file \in [Requests -> Record \cup {NoReq}]
    /\ now \in Nat
    /\ pc \in [Workers -> PCs]
    /\ call \in [Workers -> Calls]
    /\ target \in [Workers -> Requests \cup {NoReq}]
    /\ copy \in [Workers -> Record \cup {NoReq}]
    /\ snap \in [Workers -> [Requests -> Record \cup {NoReq}]]
    /\ approvals \in [Requests -> Nat]
    /\ effects \in [Requests -> Nat]
    /\ audited \in [Requests -> Status \cup {"none"}]

(* What the fields of one request say about each other: status agrees with  *)
(* used, with the decision, with the ciphertext and with who holds the      *)
(* browser.                                                                 *)
CoherentRecord(r, rec) ==
    /\ rec.status \in {"pending", "user_control", "approved"} => ~rec.used /\ ~rec.sealed
    /\ rec.status \in {"fulfilled", "consumed", "denied", "released", "cancelled",
                       "challenge_completed"} => rec.used
    /\ rec.sealed => rec.used
    /\ rec.status = "fulfilled" => rec.sealed
    /\ rec.status \in {"approved", "consumed"} =>
          rec.decision = "approved" \/ TypeOf[r] = "provider"
    /\ rec.status = "denied" => rec.decision = "denied"
    /\ rec.status = "user_control" => rec.owner = "user"
    /\ rec.status = "released" => rec.owner = "agent"
    /\ rec.owner = "user" => TypeOf[r] = "takeover"
    /\ rec.status # "expired" /\ rec.completed => rec.status \in Completed

CoherentFile(f) == \A r \in Requests : f[r] # NoReq => CoherentRecord(r, f[r])

(* However operations of the Control Service, the sidecar and the CLI       *)
(* overlap, and whichever of them dies, no stored request mixes two         *)
(* outcomes: an approved request is unused, a denied one carries the        *)
(* denial, a ciphertext sits only in a used request, only a takeover is in  *)
(* the user's hands (whole-record writes of RequestStore.update).           *)
Coherent == CoherentFile(file)

(* The copy a worker holds, and the request it belongs to.                  *)
Holding(w) ==
    /\ target[w] \in Requests
    /\ copy[w] \in Record
    /\ CoherentRecord(target[w], copy[w])

(* What a worker has in hand at each point of an operation.                 *)
InHand(w) ==
    /\ pc[w] \in {"getsave", "check", "update", "updatesave", "quietsave", "audit", "effect"}
          => Holding(w)
    /\ pc[w] \in {"get", "createsave"} => target[w] \in Requests
    /\ pc[w] = "createsave" => call[w] = "create"
    /\ pc[w] = "listsave" => call[w] \in {"list", "renew", "obsolete"}
    /\ pc[w] = "listsave" /\ call[w] = "renew" => target[w] = NoReq \/ Holding(w)
    /\ pc[w] = "listsave" /\ call[w] = "obsolete" => target[w] \in Requests
    /\ pc[w] = "return" => call[w] \in {"list", "create"} \/ Holding(w)
    /\ pc[w] = "effect" => HasEffect(call[w], target[w])

(* The inductive invariant behind Coherent: coherence survives a stale      *)
(* write because everything in flight is coherent too.                      *)
CoherentInv ==
    /\ TypeOK
    /\ CoherentFile(file)
    /\ \A w \in Workers : CoherentFile(snap[w])
    /\ \A w \in Workers : InHand(w)

(* Every approved click is paid for by an approve() of its own: the same    *)
(* approval never releases two clicks unless the user approved twice.       *)
EffectsPaid ==
    \A r \in Requests : TypeOf[r] = "approval" => effects[r] <= approvals[r]

(* The conditions of EffectsPaid and NeverForgotten: every worker is in the *)
(* process that holds the lock, and one worker at most releases clicks.     *)
SingleProcess == \A u, v \in Workers : ProcessOf[u] = ProcessOf[v]
SingleClicker ==
    \A u, v \in Workers : "click" \in Allowed[u] /\ "click" \in Allowed[v] => u = v

Has(f, r, status) == f[r] # NoReq /\ f[r].status = status

(* A click that has been paid with a stored "consumed" and not yet done.    *)
Released(w, r) ==
    pc[w] \in {"audit", "return", "effect"} /\ call[w] = "consume" /\ target[w] = r

(* A worker that found the request approved and will consume it.            *)
Consuming(w, r) ==
    /\ call[w] = "consume" /\ target[w] = r
    /\ \/ pc[w] \in {"update", "updatesave", "quietsave"}
       \/ pc[w] = "check" /\ copy[w].status = "approved"

(* The inductive invariant behind EffectsPaid: the clicks done, plus the    *)
(* one that is released, never exceed the approvals; and while the file     *)
(* says approved, or a worker has seen it, one approval is left.  The lock  *)
(* makes a pending write agree with the file it will replace.               *)
PaidRequest(r) ==
    /\ effects[r] <= approvals[r]
    /\ Has(file, r, "approved") => effects[r] < approvals[r]
    /\ \A w \in Workers :
          /\ Released(w, r) => effects[r] < approvals[r]
          /\ Released(w, r) /\ Has(file, r, "approved") => effects[r] + 1 < approvals[r]
          /\ Consuming(w, r) => effects[r] < approvals[r]

PendingWrite(w) ==
    pc[w] \in Saving =>
        /\ \A v \in Workers : pc[v] \in Saving => v = w
        /\ \A r \in Requests :
              /\ file[r] # NoReq => snap[w][r] # NoReq
              /\ Has(snap[w], r, "approved") =>
                    Has(file, r, "approved") \/ (pc[w] \in {"updatesave", "quietsave"} /\ target[w] = r)
        /\ pc[w] \in {"updatesave", "quietsave"} => snap[w][target[w]] = copy[w]

(* Which calls can have an approval request in hand, and with what copy.    *)
ClickCalls(w) ==
    target[w] \in Requests /\ TypeOf[target[w]] = "approval" /\ pc[w] # "idle" =>
        /\ call[w] \in {"click", "consume"} => "click" \in Allowed[w]
        /\ call[w] # "renew"
        /\ pc[w] = "getsave" => copy[w].status = "expired"
        /\ pc[w] \in {"update", "updatesave", "quietsave"} /\ copy[w].status = "approved" =>
              call[w] = "approve"

PaidInv ==
    /\ \A r \in Requests : TypeOf[r] = "approval" => PaidRequest(r)
    /\ \A w \in Workers : PendingWrite(w)
    /\ \A w \in Workers : ClickCalls(w)

(* The same approval id releases at most one click or upload.               *)
AtMostOneEffect ==
    \A r \in Requests : TypeOf[r] = "approval" => effects[r] <= 1

(* A request that was written to the file stays in it: no create(), update() *)
(* or list() of another thread of the same process drops it.                *)
NeverForgotten ==
    [][\A r \in Requests : file[r] # NoReq => file'[r] # NoReq]_file

(* When no call is under way, the last control_request_completed event of   *)
(* the audit log names the stored status (expiry by get() and list() is not *)
(* audited).                                                                *)
AuditAgrees ==
    (\A w \in Workers : pc[w] = "idle") =>
        \A r \in Requests :
           file[r] # NoReq /\ file[r].status \in (Completed \cup Aborted) \ {"expired"} =>
              audited[r] = file[r].status

(* RequestStore implements the lifecycle a request promises.                *)
Lifecycle ==
    INSTANCE RequestLifecycle
    WITH state <- [r \in Requests |-> IF file[r] = NoReq THEN "absent" ELSE file[r].status],
         done  <- effects
ImplementsLifecycle == Lifecycle!Spec

-----------------------------------------------------------------------------
(* The inductive invariant behind AtMostOneEffect, AuditAgrees and          *)
(* ImplementsLifecycle: what holds when calls of the store do not overlap.  *)

SingleWorker == \A u, v \in Workers : u = v
NeverDies == \A w \in Workers : ProcessOf[w] \notin Crashable

Used(f, r) == f[r] # NoReq /\ f[r].used
Moves(r, a, b) == a = b \/ b = "expired" \/ Lifecycle!Edge(r, a, b)
Overdue(rec) == rec # NoReq /\ rec.status = "expired" => IsExpired(rec)

(* What a locked section is about to write: the file with overdue requests  *)
(* expired, with one created, or with one replaced by the worker's copy;    *)
(* without an event only if none is due.                                    *)
SectionWrite(w) ==
    /\ pc[w] \in {"getsave", "listsave"} =>
          \A r \in Requests :
             \/ snap[w][r] = file[r]
             \/ file[r] # NoReq /\ snap[w][r] = [file[r] EXCEPT !.status = "expired"]
    /\ pc[w] = "createsave" =>
          /\ file[target[w]] = NoReq
          /\ snap[w] = [file EXCEPT ![target[w]] = snap[w][target[w]]]
          /\ snap[w][target[w]].status = NewRequest(target[w]).status
    /\ pc[w] \in {"updatesave", "quietsave"} => snap[w] = [file EXCEPT ![target[w]] = copy[w]]
    /\ pc[w] = "quietsave" => ~EventDue(file[target[w]], copy[w])
    /\ \A r \in Requests : Overdue(snap[w][r])

(* How the local copy stands to the stored request at each point of a call: *)
(* it is the stored request, or one move of the lifecycle ahead of it, and  *)
(* it never takes the mark of use away.                                     *)
InStep(w) ==
    /\ pc[w] = "check" => copy[w] = file[target[w]]
    /\ pc[w] = "getsave" => copy[w] = snap[w][target[w]]
    /\ pc[w] = "listsave" /\ call[w] = "renew" /\ target[w] # NoReq =>
          /\ snap[w][target[w]] # NoReq
          /\ copy[w].status = snap[w][target[w]].status
          /\ copy[w].used = snap[w][target[w]].used
    /\ pc[w] \in {"update", "updatesave", "quietsave"} =>
          /\ file[target[w]] # NoReq
          /\ Moves(target[w], file[target[w]].status, copy[w].status)
          /\ file[target[w]].used => copy[w].used
    /\ pc[w] = "audit" \/ (pc[w] \in {"return", "effect"} /\ HasEffect(call[w], target[w])) =>
          file[target[w]] = copy[w]
    /\ pc[w] \in {"update", "updatesave", "quietsave", "audit", "return", "effect"} =>
          /\ call[w] = "submit" => copy[w].status = "fulfilled"
          /\ call[w] = "approve" => copy[w].status = "approved"
          /\ call[w] = "consume" => copy[w].status = "consumed"
    /\ call[w] = "click" => TypeOf[target[w]] = "approval"
    /\ call[w] = "consume" => TypeOf[target[w]] \in {"approval", "restart"}
    /\ Overdue(copy[w])

(* The sensitive action of a call that is past its checks is still to come, *)
(* and the mark of use precedes it.                                         *)
StillToCome(w, r) ==
    target[w] = r /\ HasEffect(call[w], r) =>
        /\ pc[w] \in {"update", "updatesave", "quietsave"} => effects[r] = 0 /\ copy[w].used
        /\ pc[w] \in {"audit", "return", "effect"} => effects[r] = 0 /\ Used(file, r)

OnceRequest(r) ==
    /\ effects[r] = 0 \/ (effects[r] = 1 /\ Used(file, r))
    /\ \A w \in Workers : StillToCome(w, r)

SequentialInv ==
    /\ \A w \in Workers : SectionWrite(w) /\ InStep(w)
    /\ \A r \in Requests : Overdue(file[r])
    /\ \A r \in Requests : TypeOf[r] \in {"approval", "provider"} => OnceRequest(r)

(* A stored terminal status has been audited, or the worker that stored it  *)
(* is about to.                                                             *)
AuditInv ==
    \A r \in Requests :
        file[r] # NoReq /\ file[r].status \in (Completed \cup Aborted) \ {"expired"} =>
            \/ audited[r] = file[r].status
            \/ \E w \in Workers : pc[w] = "audit" /\ target[w] = r
=============================================================================
