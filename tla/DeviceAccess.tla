---------------------------- MODULE DeviceAccess ----------------------------
(***************************************************************************)
(* Who may talk to the Control Service: pairing codes, devices and         *)
(* sessions (omni_control/pairing.py, devices.py, sessions.py, auth.py),   *)
(* and the handlers and commands that use them.                            *)
(*                                                                         *)
(* Three JSON files, each with a lock of its own that excludes only the    *)
(* workers of one process.  A locked section loads a file, checks, and     *)
(* writes the whole file back; a handler strings several sections          *)
(* together.  A device and the one session that is made with it share an   *)
(* id.                                                                     *)
(***************************************************************************)
EXTENDS Naturals, FiniteSets

CONSTANTS
    Codes,          \* pairing codes
    Devices,        \* devices, each with its session
    Workers,        \* handler threads, and commands of the CLI
    ProcessOf,      \* the operating-system process of each worker
    Allowed,        \* the operations each worker performs
    MaxUses,        \* max_uses of a pairing code
    PairingTTL,     \* ttl_seconds of a pairing code, in ticks
    SessionTTL,     \* CONTROL_SESSION_TTL_SECONDS, in ticks
    RefreshWindow,  \* CONTROL_SESSION_REFRESH_WINDOW_SECONDS, in ticks
    MaxSnapshots,   \* ..._STREAM_MAX_SNAPSHOTS
    MaxTime,        \* bound: the clock stops here
    None            \* an entry a file lacks, a worker's idle local

(* "revoke" is a request of a paired client, "admin" a command of the CLI.  *)
Operations ==
    {"invite", "lookup", "pair", "login", "access", "stream", "revoke", "admin"}

Pairing == [uses : Nat, expires : Nat]
Session == [revoked : BOOLEAN, expires : Nat]
DeviceState == {"absent", "active", "revoked"}

ASSUME AccessAssumption ==
    /\ None \notin Codes /\ None \notin Devices
    /\ None \notin Pairing /\ None \notin Session
    /\ Allowed \in [Workers -> SUBSET Operations]
    /\ MaxUses \in Nat \ {0} /\ PairingTTL \in Nat
    /\ SessionTTL \in Nat /\ RefreshWindow \in Nat /\ RefreshWindow <= SessionTTL
    /\ MaxSnapshots \in Nat \ {0} /\ MaxTime \in Nat

VARIABLES
    pairings,    \* control_pairing.json
    devices,     \* control_devices.json
    sessions,    \* control_sessions.json
    now,         \* time.time()
    pc,          \* where each worker is
    next,        \* where it goes after the write it is about to do
    code, who,   \* the code and the device it handles
    pairingsTo, devicesTo, sessionsTo,   \* the content it is about to write
    began,       \* "now" of authenticate()
    left,        \* snapshots a stream has sent so far
    late,        \* history: the access began when its device was barred
    redeemed,    \* history: consume() calls that returned, per code
    barred       \* history: devices whose revocation has returned

vars == <<pairings, devices, sessions, now, pc, next, code, who,
          pairingsTo, devicesTo, sessionsTo, began, left, late, redeemed, barred>>

(* "...save": the file is loaded and not yet written; "looksave" is the     *)
(* write of PairingStore.get, which holds no lock.                          *)
PCs == {"idle", "pairsave", "looksave", "devsave", "sessave", "register", "session",
        "touch", "granted", "asleep", "bar"}

NoPairings == [c \in Codes |-> None]
NoDevices  == [d \in Devices |-> "absent"]
NoSessions == [d \in Devices |-> None]

Init ==
    /\ pairings = NoPairings /\ devices = NoDevices /\ sessions = NoSessions
    /\ now = 0
    /\ pc = [w \in Workers |-> "idle"]
    /\ next = [w \in Workers |-> "idle"]
    /\ code = [w \in Workers |-> None]
    /\ who = [w \in Workers |-> None]
    /\ pairingsTo = [w \in Workers |-> NoPairings]
    /\ devicesTo = [w \in Workers |-> NoDevices]
    /\ sessionsTo = [w \in Workers |-> NoSessions]
    /\ began = [w \in Workers |-> 0]
    /\ left = [w \in Workers |-> 0]
    /\ late = [w \in Workers |-> FALSE]
    /\ redeemed = [c \in Codes |-> 0]
    /\ barred = {}

Files == <<pairings, devices, sessions>>
History == <<redeemed, barred>>
Writes == <<pairingsTo, devicesTo, sessionsTo>>

(* Mutant: the lock excludes nobody.                                        *)
NoLock(w, save) == TRUE

(* locked_state_file: excludes the other workers of the same process only.  *)
LockFree(w, save) ==
    \A v \in Workers : ProcessOf[v] = ProcessOf[w] => pc[v] # save

(* A worker in state p, or an idle one that performs operation op.          *)
At(w, p) == pc[w] = p
Begins(w, op) == pc[w] = "idle" /\ op \in Allowed[w]

(* The locked sections: what is to be written, and where to go then.        *)
WritePairings(w, c, content, then) ==
    /\ LockFree(w, "pairsave")
    /\ pc' = [pc EXCEPT ![w] = "pairsave"]
    /\ next' = [next EXCEPT ![w] = then]
    /\ code' = [code EXCEPT ![w] = c]
    /\ pairingsTo' = [pairingsTo EXCEPT ![w] = content]
    /\ UNCHANGED <<Files, now, who, devicesTo, sessionsTo, began, left, late, History>>

WriteDevices(w, d, content, then) ==
    /\ LockFree(w, "devsave")
    /\ pc' = [pc EXCEPT ![w] = "devsave"]
    /\ next' = [next EXCEPT ![w] = then]
    /\ who' = [who EXCEPT ![w] = d]
    /\ devicesTo' = [devicesTo EXCEPT ![w] = content]
    /\ UNCHANGED <<Files, now, code, pairingsTo, sessionsTo, began, left, late, History>>

WriteSessions(w, d, content, then) ==
    /\ LockFree(w, "sessave")
    /\ pc' = [pc EXCEPT ![w] = "sessave"]
    /\ next' = [next EXCEPT ![w] = then]
    /\ who' = [who EXCEPT ![w] = d]
    /\ sessionsTo' = [sessionsTo EXCEPT ![w] = content]
    /\ UNCHANGED <<Files, now, code, pairingsTo, devicesTo, left, History>>

Finish(w) ==
    /\ pc' = [pc EXCEPT ![w] = "idle"]
    /\ next' = [next EXCEPT ![w] = "idle"]
    /\ code' = [code EXCEPT ![w] = None]
    /\ who' = [who EXCEPT ![w] = None]
    /\ began' = [began EXCEPT ![w] = 0]
    /\ left' = [left EXCEPT ![w] = 0]
    /\ late' = [late EXCEPT ![w] = FALSE]

-----------------------------------------------------------------------------
(* Pairing.                                                                 *)

(* A code is not generated again while anyone knows it.                     *)
FreshCode(c) ==
    /\ pairings[c] = None /\ redeemed[c] = 0
    /\ \A v \in Workers : pairingsTo[v][c] = None

(* PairingStore.create, from the CLI or the sidecar.                        *)
Invite(w) ==
    /\ Begins(w, "invite")
    /\ \E c \in Codes :
          /\ FreshCode(c)
          /\ WritePairings(w, None,
                [pairings EXCEPT ![c] = [uses |-> 0, expires |-> now + PairingTTL]], "idle")

(* PairingStore.get (GET /api/pairing/<id>): no lock.  An expired code is   *)
(* marked used, which the next load undoes; the whole file is rewritten.    *)
Lookup(w) ==
    /\ Begins(w, "lookup")
    /\ \E c \in Codes :
          /\ pairings[c] # None
          /\ now > pairings[c].expires /\ pairings[c].uses < MaxUses
    /\ pc' = [pc EXCEPT ![w] = "looksave"]
    /\ pairingsTo' = [pairingsTo EXCEPT ![w] = pairings]
    /\ UNCHANGED <<Files, now, next, code, who, devicesTo, sessionsTo, began, left, late, History>>

(* Mutant: a code is good for one more use.                                 *)
ConsumeOneMore(w) ==
    /\ Begins(w, "pair")
    /\ \E c \in Codes :
          /\ pairings[c] # None
          /\ pairings[c].uses <= MaxUses
          /\ now <= pairings[c].expires
          /\ WritePairings(w, c, [pairings EXCEPT ![c].uses = @ + 1], "register")

(* PairingStore.consume, the first section of pair_device.                  *)
ConsumeCode(w) ==
    /\ Begins(w, "pair")
    /\ \E c \in Codes :
          /\ pairings[c] # None
          /\ pairings[c].uses < MaxUses
          /\ now <= pairings[c].expires
          /\ WritePairings(w, c, [pairings EXCEPT ![c].uses = @ + 1], "register")

FreshDevice(d) ==
    /\ devices[d] = "absent" /\ sessions[d] = None /\ d \notin barred
    /\ \A v \in Workers : who[v] # d /\ devicesTo[v][d] = "absent" /\ sessionsTo[v][d] = None

(* DeviceStore.register, of pair_device or of a password login.             *)
Register(w) ==
    /\ At(w, "register") \/ Begins(w, "login")
    /\ \E d \in Devices :
          /\ FreshDevice(d)
          /\ WriteDevices(w, d, [devices EXCEPT ![d] = "active"], "session")

(* SessionStore.create, the last section of both.                           *)
OpenSession(w) ==
    /\ At(w, "session")
    /\ WriteSessions(w, who[w],
          [sessions EXCEPT ![who[w]] = [revoked |-> FALSE, expires |-> now + SessionTTL]], "paired")
    /\ UNCHANGED <<began, late>>

-----------------------------------------------------------------------------
(* Access.                                                                  *)

Valid(d) == sessions[d] # None /\ ~sessions[d].revoked /\ now <= sessions[d].expires

(* Mutant: the expiry is pushed out only once it has passed.                *)
SlideLate(expires) == IF expires < now THEN now + SessionTTL ELSE expires

(* The sliding expiry of authenticate() and touch().                        *)
Slide(expires) == IF expires < now + RefreshWindow THEN now + SessionTTL ELSE expires

(* SessionStore.authenticate, or touch() for a request that is only signed. *)
Authenticate(w) ==
    /\ Begins(w, "access")
    /\ \E d \in Devices :
          /\ Valid(d)
          /\ WriteSessions(w, d, [sessions EXCEPT ![d].expires = Slide(@)], "touch")
          /\ late' = [late EXCEPT ![w] = d \in barred]
          /\ began' = [began EXCEPT ![w] = now]

(* Mutant: authenticate_session looks at the session only.                  *)
TouchAny(w) ==
    /\ At(w, "touch")
    /\ WriteDevices(w, who[w], devices, "granted")

(* DeviceStore.touch: a revoked device, or one that is gone, raises.        *)
TouchDevice(w) ==
    /\ At(w, "touch")
    /\ \/ /\ devices[who[w]] = "active"
          /\ WriteDevices(w, who[w], devices, "granted")
       \/ /\ devices[who[w]] # "active"
          /\ LockFree(w, "devsave")
          /\ Finish(w)
          /\ UNCHANGED <<Files, now, Writes, History>>

(* The handler answers.  A stream sends a snapshot, sleeps, and sends the   *)
(* next one; the session was checked when the stream was opened.            *)
Serve(w) ==
    /\ At(w, "granted")
    /\ Finish(w)
    /\ UNCHANGED <<Files, now, Writes, History>>

Sleep(w) ==
    /\ At(w, "granted")
    /\ "stream" \in Allowed[w]
    /\ left[w] + 1 < MaxSnapshots
    /\ left' = [left EXCEPT ![w] = @ + 1]
    /\ pc' = [pc EXCEPT ![w] = "asleep"]
    /\ UNCHANGED <<Files, now, next, code, who, Writes, began, late, History>>

NextSnapshot(w) ==
    /\ At(w, "asleep")
    /\ pc' = [pc EXCEPT ![w] = "granted"]
    /\ UNCHANGED <<Files, now, next, code, who, Writes, began, left, late, History>>

-----------------------------------------------------------------------------
(* Revocation, by a paired client or from the CLI.                          *)

MayRevoke(w) == Begins(w, "admin") \/ (At(w, "granted") /\ "revoke" \in Allowed[w])

(* DeviceStore.revoke ...                                                   *)
RevokeDevice(w) ==
    /\ MayRevoke(w)
    /\ \E d \in Devices :
          /\ devices[d] # "absent"
          /\ WriteDevices(w, d, [devices EXCEPT ![d] = "revoked"], "bar")

Revoked(d) ==
    IF sessions[d] = None THEN sessions ELSE [sessions EXCEPT ![d].revoked = TRUE]

(* ... and SessionStore.revoke_for_device.                                  *)
RevokeForDevice(w) ==
    /\ At(w, "bar")
    /\ WriteSessions(w, who[w], Revoked(who[w]), "barred")
    /\ UNCHANGED <<began, late>>

(* SessionStore.revoke.                                                     *)
RevokeSession(w) ==
    /\ MayRevoke(w)
    /\ \E d \in Devices :
          /\ sessions[d] # None
          /\ WriteSessions(w, d, Revoked(d), "barred")
    /\ UNCHANGED <<began, late>>

-----------------------------------------------------------------------------
(* atomic_write_json at the end of a section.                               *)

SavePairings(w) ==
    /\ pc[w] \in {"pairsave", "looksave"}
    /\ pairings' = pairingsTo[w]
    /\ pairingsTo' = [pairingsTo EXCEPT ![w] = NoPairings]
    /\ pc' = [pc EXCEPT ![w] = next[w]]
    /\ next' = [next EXCEPT ![w] = "idle"]
    /\ code' = [code EXCEPT ![w] = None]
    /\ redeemed' = IF next[w] = "register"
                   THEN [redeemed EXCEPT ![code[w]] = @ + 1] ELSE redeemed
    /\ UNCHANGED <<devices, sessions, now, who, devicesTo, sessionsTo, began, left, late, barred>>

SaveDevices(w) ==
    /\ At(w, "devsave")
    /\ devices' = devicesTo[w]
    /\ devicesTo' = [devicesTo EXCEPT ![w] = NoDevices]
    /\ pc' = [pc EXCEPT ![w] = next[w]]
    /\ next' = [next EXCEPT ![w] = "idle"]
    /\ UNCHANGED <<pairings, sessions, now, code, who, pairingsTo, sessionsTo, began, left, late, History>>

(* Mutant: every handler has something left to do.                          *)
SaveAndGoOn(w) ==
    /\ At(w, "sessave")
    /\ sessions' = sessionsTo[w]
    /\ sessionsTo' = [sessionsTo EXCEPT ![w] = NoSessions]
    /\ pc' = [pc EXCEPT ![w] = next[w]]
    /\ UNCHANGED <<pairings, devices, now, next, code, who, pairingsTo, devicesTo, began, left, late, History>>

(* A call that ends with this write returns; the device may now be barred.  *)
SaveSessions(w) ==
    /\ At(w, "sessave")
    /\ sessions' = sessionsTo[w]
    /\ sessionsTo' = [sessionsTo EXCEPT ![w] = NoSessions]
    /\ barred' = IF next[w] = "barred" THEN barred \cup {who[w]} ELSE barred
    /\ \/ /\ next[w] = "touch"
          /\ pc' = [pc EXCEPT ![w] = "touch"]
          /\ next' = [next EXCEPT ![w] = "idle"]
          /\ UNCHANGED <<code, who, began, left, late>>
       \/ next[w] # "touch" /\ Finish(w)
    /\ UNCHANGED <<pairings, devices, now, pairingsTo, devicesTo, redeemed>>

(* A section raises, or the process dies: the call is over, and what it     *)
(* wrote so far stays.                                                      *)
Abandon(w) ==
    /\ pc[w] # "idle"
    /\ Finish(w)
    /\ pairingsTo' = [pairingsTo EXCEPT ![w] = NoPairings]
    /\ devicesTo' = [devicesTo EXCEPT ![w] = NoDevices]
    /\ sessionsTo' = [sessionsTo EXCEPT ![w] = NoSessions]
    /\ UNCHANGED <<Files, now, History>>

Tick ==
    /\ now < MaxTime
    /\ now' = now + 1
    /\ UNCHANGED <<Files, pc, next, code, who, Writes, began, left, late, History>>

Step(w) ==
    \/ Invite(w) \/ Lookup(w) \/ ConsumeCode(w) \/ Register(w) \/ OpenSession(w)
    \/ Authenticate(w) \/ TouchDevice(w) \/ Serve(w) \/ Sleep(w) \/ NextSnapshot(w)
    \/ RevokeDevice(w) \/ RevokeForDevice(w) \/ RevokeSession(w)
    \/ SavePairings(w) \/ SaveDevices(w) \/ SaveSessions(w) \/ Abandon(w)

Next == Tick \/ \E w \in Workers : Step(w)

Spec == Init /\ [][Next]_vars

-----------------------------------------------------------------------------
TypeOK ==
    /\ pairings \in [Codes -> Pairing \cup {None}]
    /\ devices \in [Devices -> DeviceState]
    /\ sessions \in [Devices -> Session \cup {None}]
    /\ now \in Nat
    /\ pc \in [Workers -> PCs]
    /\ next \in [Workers -> PCs \cup {"paired", "barred"}]
    /\ code \in [Workers -> Codes \cup {None}]
    /\ who \in [Workers -> Devices \cup {None}]
    /\ pairingsTo \in [Workers -> [Codes -> Pairing \cup {None}]]
    /\ devicesTo \in [Workers -> [Devices -> DeviceState]]
    /\ sessionsTo \in [Workers -> [Devices -> Session \cup {None}]]
    /\ began \in [Workers -> Nat]
    /\ left \in [Workers -> Nat]
    /\ late \in [Workers -> BOOLEAN]
    /\ redeemed \in [Codes -> Nat]
    /\ barred \subseteq Devices

(* Revocation is effective: no request or stream that authenticates after   *)
(* revoke_for_device or revoke has returned reaches a handler's body on     *)
(* behalf of the revoked device.  A stream that is open already goes on to  *)
(* its last snapshot (_send_sse_stream checks the session once).            *)
RevokedStaysOut == \A w \in Workers : pc[w] = "granted" => ~late[w]

(* A pairing code is redeemed at most max_uses times (PairingStore.consume, *)
(* the first step of pair_device), however many clients try it at once.     *)
CapRespected == \A c \in Codes : redeemed[c] <= MaxUses

(* Every session belongs to a registered device, or DeviceStore.touch would *)
(* fail for a paired client: register() precedes SessionStore.create, and   *)
(* no other write of the devices file undoes it.                            *)
SessionsHaveDevices == \A d \in Devices : sessions[d] # None => devices[d] # "absent"

(* A session in use keeps the refresh window ahead of it: once a request is *)
(* authenticated, its session lives at least that long from then on.        *)
SlidingExpiry ==
    \A w \in Workers : pc[w] \in {"touch", "granted"} =>
        sessions[who[w]] # None /\ sessions[who[w]].expires >= began[w] + RefreshWindow

-----------------------------------------------------------------------------
(* What the proofs need.                                                    *)

SingleProcess == \A u, v \in Workers : ProcessOf[u] = ProcessOf[v]
NoLookups == \A w \in Workers : "lookup" \notin Allowed[w]

(* Where a worker goes after each write, and what it has in hand.           *)
InHand(w) ==
    /\ pc[w] = "pairsave" => next[w] \in {"idle", "register"}
    /\ pc[w] = "pairsave" /\ next[w] = "register" => code[w] \in Codes
    /\ pc[w] = "devsave" => next[w] \in {"session", "granted", "bar"}
    /\ pc[w] = "sessave" => next[w] \in {"touch", "paired", "barred"}
    /\ pc[w] \notin {"pairsave", "devsave", "sessave"} => next[w] = "idle"
    /\ pc[w] \in {"devsave", "sessave", "session", "touch", "granted", "asleep", "bar"} =>
          who[w] \in Devices

TypeInv == TypeOK /\ \A w \in Workers : InHand(w)

(* The lock: one worker at a time writes a file.                            *)
Alone(save) == \A u, v \in Workers : pc[u] = save /\ pc[v] = save => u = v

HasRevoked(content, d) == content[d] # None /\ content[d].revoked

(* A barred device fails one of the two checks of an access.                *)
Out(d) == devices[d] = "revoked" \/ HasRevoked(sessions, d)

(* A worker between the registration of a device and its session.           *)
Registering(w) == pc[w] = "session" \/ (pc[w] = "devsave" /\ next[w] = "session")

(* An access that began too late has the device check still ahead of it;    *)
(* a revoked flag survives every pending write.                             *)
BarWorker(w) ==
    /\ late[w] => /\ pc[w] = "touch" \/ (pc[w] = "sessave" /\ next[w] = "touch")
                  /\ devices[who[w]] = "revoked"
    /\ pc[w] = "devsave" =>
          \A d \in Devices : devices[d] = "revoked" => devicesTo[w][d] = "revoked"
    /\ pc[w] = "sessave" =>
          \A d \in Devices : HasRevoked(sessions, d) => HasRevoked(sessionsTo[w], d)
    /\ pc[w] = "devsave" /\ next[w] = "bar" => devicesTo[w][who[w]] = "revoked"
    /\ pc[w] = "bar" => devices[who[w]] = "revoked"
    /\ pc[w] = "sessave" /\ next[w] = "barred" =>
          devices[who[w]] = "revoked" \/ HasRevoked(sessionsTo[w], who[w])

(* A new device has no session yet, and only one worker will give it one.   *)
RegisterWorker(w) ==
    Registering(w) =>
        /\ sessions[who[w]] = None
        /\ \A v \in Workers : pc[v] = "sessave" => sessionsTo[v][who[w]] = None
        /\ \A v \in Workers : Registering(v) /\ who[v] = who[w] => v = w

(* The inductive invariant behind RevokedStaysOut.                          *)
BarInv ==
    /\ Alone("devsave") /\ Alone("sessave")
    /\ \A d \in barred : Out(d)
    /\ \A w \in Workers : BarWorker(w) /\ RegisterWorker(w)

(* The inductive invariant behind CapRespected: the file, and the write     *)
(* that will replace it, count every redemption.                            *)
Counts(content, c, n) ==
    /\ content[c] = None => n = 0
    /\ content[c] # None => n <= content[c].uses /\ content[c].uses <= MaxUses

CapInv ==
    /\ Alone("pairsave")
    /\ \A c \in Codes : Counts(pairings, c, redeemed[c])
    /\ \A w \in Workers :
          /\ pc[w] # "looksave"
          /\ pc[w] = "pairsave" =>
                \A c \in Codes :
                   Counts(pairingsTo[w], c,
                          redeemed[c] + IF next[w] = "register" /\ code[w] = c THEN 1 ELSE 0)
(* The inductive invariant behind SessionsHaveDevices: no pending write     *)
(* takes a device away, and one that is being given a session is there.     *)
RegisteredWorker(w) ==
    /\ pc[w] = "devsave" =>
          \A d \in Devices :
             devices[d] # "absent" \/ d = who[w] => devicesTo[w][d] # "absent"
    /\ pc[w] = "session" => devices[who[w]] # "absent"
    /\ pc[w] = "sessave" =>
          \A d \in Devices : sessionsTo[w][d] # None => devices[d] # "absent"

RegisteredInv == SessionsHaveDevices /\ \A w \in Workers : RegisteredWorker(w)

(* The inductive invariant behind SlidingExpiry: no pending write takes a   *)
(* session away or brings its end nearer, and the refresh window stays      *)
(* ahead of a session from the moment it is authenticated.                  *)
LivesUntil(content, d, t) == content[d] # None /\ content[d].expires >= t

SlidingWorker(w) ==
    /\ pc[w] = "sessave" =>
          \A d \in Devices :
             sessions[d] # None => LivesUntil(sessionsTo[w], d, sessions[d].expires)
    /\ pc[w] = "sessave" /\ next[w] = "touch" =>
          LivesUntil(sessionsTo[w], who[w], began[w] + RefreshWindow)
    /\ pc[w] \in {"touch", "granted", "asleep"} \/ (pc[w] = "devsave" /\ next[w] = "granted") =>
          LivesUntil(sessions, who[w], began[w] + RefreshWindow)

SlidingInv == \A w \in Workers : SlidingWorker(w)
=============================================================================
