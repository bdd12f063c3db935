------------------------- MODULE DeviceAccessProofs -------------------------
(***************************************************************************)
(* Proofs about DeviceAccess: the type invariant for any set of workers,   *)
(* and, for workers of one process, that a revoked device stays out, that  *)
(* a pairing code is not redeemed more often than its cap, that no session *)
(* is without a device and that a session in use does not run out.         *)
(***************************************************************************)
EXTENDS DeviceAccess, TLAPS

(* No worker is in the middle of anything at the start.                     *)
LEMMA InitTypeInv == Init => TypeInv
BY AccessAssumption
   DEF Init, TypeInv, TypeOK, InHand, NoPairings, NoDevices, NoSessions, PCs, DeviceState

(* The files keep their types under what the sections put into them.        *)
LEMMA Contents ==
    ASSUME TypeOK
    PROVE  /\ \A c \in Codes : [pairings EXCEPT ![c] = [uses |-> 0, expires |-> now + PairingTTL]]
                                  \in [Codes -> Pairing \cup {None}]
           /\ \A c \in Codes : pairings[c] # None =>
                 [pairings EXCEPT ![c].uses = @ + 1] \in [Codes -> Pairing \cup {None}]
           /\ \A d \in Devices :
                 /\ [devices EXCEPT ![d] = "active"] \in [Devices -> DeviceState]
                 /\ [devices EXCEPT ![d] = "revoked"] \in [Devices -> DeviceState]
                 /\ [sessions EXCEPT ![d] = [revoked |-> FALSE, expires |-> now + SessionTTL]]
                       \in [Devices -> Session \cup {None}]
                 /\ sessions[d] # None =>
                       [sessions EXCEPT ![d].expires = Slide(@)] \in [Devices -> Session \cup {None}]
                 /\ Revoked(d) \in [Devices -> Session \cup {None}]
<1>1. \A c \in Codes : pairings[c] # None =>
         [pairings EXCEPT ![c].uses = @ + 1] \in [Codes -> Pairing \cup {None}]
  BY DEF TypeOK, Pairing
<1>2. \A c \in Codes : [pairings EXCEPT ![c] = [uses |-> 0, expires |-> now + PairingTTL]]
                          \in [Codes -> Pairing \cup {None}]
  BY AccessAssumption DEF TypeOK, Pairing
<1>3. \A d \in Devices :
         /\ [devices EXCEPT ![d] = "active"] \in [Devices -> DeviceState]
         /\ [devices EXCEPT ![d] = "revoked"] \in [Devices -> DeviceState]
  BY DEF TypeOK, DeviceState
<1>4. \A d \in Devices : sessions[d] # None =>
         [sessions EXCEPT ![d].expires = Slide(@)] \in [Devices -> Session \cup {None}]
  <2>1. \A e \in Nat : Slide(e) \in Nat
    BY AccessAssumption DEF TypeOK, Slide
  <2> QED
    BY <2>1 DEF TypeOK, Session
<1>5. \A d \in Devices : Revoked(d) \in [Devices -> Session \cup {None}]
  BY DEF TypeOK, Session, Revoked
<1>6. \A d \in Devices : [sessions EXCEPT ![d] = [revoked |-> FALSE, expires |-> now + SessionTTL]]
                            \in [Devices -> Session \cup {None}]
  BY AccessAssumption DEF TypeOK, Session
<1> QED
  BY <1>1, <1>2, <1>3, <1>4, <1>5, <1>6

(* Every write a worker prepares is typed and names its continuation, so    *)
(* every step keeps the types.                                              *)
LEMMA NextTypeInv ==
    ASSUME TypeInv, [Next]_vars
    PROVE  TypeInv'
<1> USE DEF TypeInv
<1>1. CASE UNCHANGED vars
  BY <1>1 DEF vars, TypeOK, InHand
<1>2. CASE Tick
  BY <1>2 DEF Tick, Files, Writes, History, TypeOK, InHand
<1>3. ASSUME NEW w \in Workers, NEW c \in Codes \cup {None}, NEW then \in {"idle", "register"},
             then = "register" => c \in Codes,
             NEW content \in [Codes -> Pairing \cup {None}], WritePairings(w, c, content, then)
      PROVE  TypeInv'
  BY <1>3 DEF WritePairings, Files, History, TypeOK, InHand, PCs
<1>4. ASSUME NEW w \in Workers, NEW d \in Devices, NEW then \in {"session", "granted", "bar"},
             NEW content \in [Devices -> DeviceState], WriteDevices(w, d, content, then)
      PROVE  TypeInv'
  BY <1>4 DEF WriteDevices, Files, History, TypeOK, InHand, PCs
<1>5. ASSUME NEW w \in Workers, NEW d \in Devices, NEW then \in {"touch", "paired", "barred"},
             NEW content \in [Devices -> Session \cup {None}],
             WriteSessions(w, d, content, then),
             began' \in [Workers -> Nat], late' \in [Workers -> BOOLEAN]
      PROVE  TypeInv'
  BY <1>5 DEF WriteSessions, Files, History, TypeOK, InHand, PCs
<1>6. ASSUME NEW w \in Workers, Finish(w), UNCHANGED <<pairings, devices, now>>,
             sessions' \in [Devices -> Session \cup {None}],
             pairingsTo' \in [Workers -> [Codes -> Pairing \cup {None}]],
             devicesTo' \in [Workers -> [Devices -> DeviceState]],
             sessionsTo' \in [Workers -> [Devices -> Session \cup {None}]],
             redeemed' = redeemed, barred' \subseteq Devices
      PROVE  TypeInv'
  BY <1>6 DEF Finish, TypeOK, InHand, PCs
<1>7. ASSUME NEW w \in Workers, Invite(w) \/ ConsumeCode(w) PROVE TypeInv'
  BY <1>3, <1>7, Contents DEF Invite, ConsumeCode
<1>8. ASSUME NEW w \in Workers, Register(w) \/ RevokeDevice(w) PROVE TypeInv'
  BY <1>4, <1>8, Contents DEF Register, RevokeDevice
<1>9. ASSUME NEW w \in Workers, Lookup(w) PROVE TypeInv'
  BY <1>9 DEF Lookup, Begins, Files, History, TypeOK, InHand, PCs
<1>10. ASSUME NEW w \in Workers, OpenSession(w) \/ RevokeForDevice(w) PROVE TypeInv'
  <2>1. who[w] \in Devices /\ began' \in [Workers -> Nat] /\ late' \in [Workers -> BOOLEAN]
    BY <1>10 DEF OpenSession, RevokeForDevice, At, InHand, TypeOK
  <2> QED
    BY <1>5, <1>10, <2>1, Contents DEF OpenSession, RevokeForDevice
<1>11. ASSUME NEW w \in Workers, RevokeSession(w) PROVE TypeInv'
  <2>1. began' \in [Workers -> Nat] /\ late' \in [Workers -> BOOLEAN]
    BY <1>11 DEF RevokeSession, TypeOK
  <2> QED
    BY <1>5, <1>11, <2>1, Contents DEF RevokeSession
<1>12. ASSUME NEW w \in Workers, Authenticate(w) PROVE TypeInv'
  <2>1. PICK d \in Devices :
           /\ Valid(d)
           /\ WriteSessions(w, d, [sessions EXCEPT ![d].expires = Slide(@)], "touch")
           /\ late' = [late EXCEPT ![w] = d \in barred]
           /\ began' = [began EXCEPT ![w] = now]
    BY <1>12 DEF Authenticate
  <2>2. began' \in [Workers -> Nat] /\ late' \in [Workers -> BOOLEAN]
    BY <2>1 DEF TypeOK
  <2> QED
    BY <1>5, <2>1, <2>2, Contents DEF Valid
<1>13. ASSUME NEW w \in Workers, TouchDevice(w) PROVE TypeInv'
  <2>1. who[w] \in Devices
    BY <1>13 DEF TouchDevice, At, InHand
  <2>2. CASE WriteDevices(w, who[w], devices, "granted")
    BY <1>4, <2>1, <2>2 DEF TypeOK
  <2>3. CASE Finish(w) /\ UNCHANGED <<Files, now, Writes, History>>
    BY <1>6, <2>3 DEF Files, Writes, History, TypeOK
  <2> QED
    BY <1>13, <2>2, <2>3 DEF TouchDevice
<1>14. ASSUME NEW w \in Workers, Serve(w) PROVE TypeInv'
  BY <1>6, <1>14 DEF Serve, Files, Writes, History, TypeOK
<1>15. ASSUME NEW w \in Workers, Sleep(w) PROVE TypeInv'
  BY <1>15 DEF Sleep, At, Files, Writes, History, TypeOK, InHand, PCs
<1>16. ASSUME NEW w \in Workers, NextSnapshot(w) PROVE TypeInv'
  BY <1>16 DEF NextSnapshot, At, Files, Writes, History, TypeOK, InHand, PCs
<1>17. ASSUME NEW w \in Workers, SavePairings(w) PROVE TypeInv'
  <2>1. /\ pc[w] = "pairsave" \/ next[w] = "idle"
        /\ next[w] \in {"idle", "register"}
        /\ next[w] = "register" => code[w] \in Codes
    BY <1>17 DEF SavePairings, InHand
  <2> QED
    BY <1>17, <2>1 DEF SavePairings, History, TypeOK, InHand, PCs, NoPairings
<1>18. ASSUME NEW w \in Workers, SaveDevices(w) PROVE TypeInv'
  <2>1. next[w] \in {"session", "granted", "bar"} /\ who[w] \in Devices
    BY <1>18 DEF SaveDevices, At, InHand
  <2> QED
    BY <1>18, <2>1 DEF SaveDevices, History, TypeOK, InHand, PCs, NoDevices, DeviceState
<1>19. ASSUME NEW w \in Workers, SaveSessions(w) PROVE TypeInv'
  <2>1. next[w] \in {"touch", "paired", "barred"} /\ who[w] \in Devices
    BY <1>19 DEF SaveSessions, At, InHand
  <2>2. CASE next[w] = "touch"
    BY <1>19, <2>1, <2>2 DEF SaveSessions, History, TypeOK, InHand, PCs, NoSessions
  <2>3. CASE next[w] # "touch"
    BY <1>6, <1>19, <2>1, <2>3 DEF SaveSessions, History, TypeOK, NoSessions
  <2> QED
    BY <2>2, <2>3
<1>20. ASSUME NEW w \in Workers, Abandon(w) PROVE TypeInv'
  BY <1>6, <1>20 DEF Abandon, Files, History, TypeOK, NoPairings, NoDevices, NoSessions, DeviceState
<1> QED
  BY <1>1, <1>2, <1>7, <1>8, <1>9, <1>10, <1>11, <1>12, <1>13, <1>14, <1>15, <1>16, <1>17,
     <1>18, <1>19, <1>20 DEF Next, Step

(* Every variable keeps its type, however sections of any number of         *)
(* processes overlap and wherever they are cut short.                       *)
THEOREM AccessTypes == Spec => []TypeOK
<1>1. Spec => []TypeInv
  BY InitTypeInv, NextTypeInv, PTL DEF Spec
<1> QED
  BY <1>1, PTL DEF TypeInv

-----------------------------------------------------------------------------
(* A redemption is counted by the write that makes it.                      *)
LEMMA NextCap ==
    ASSUME SingleProcess, NoLookups, TypeInv, CapInv, [Next]_vars
    PROVE  CapInv'
<1>1. ASSUME UNCHANGED <<pairings, pairingsTo, redeemed>>,
             \A v \in Workers : pc'[v] # "looksave",
             \A v \in Workers : pc'[v] = "pairsave" =>
                pc[v] = "pairsave" /\ next'[v] = next[v] /\ code'[v] = code[v]
      PROVE  CapInv'
  BY <1>1 DEF CapInv, Alone, Counts
<1>2. CASE UNCHANGED vars \/ Tick
  BY <1>1, <1>2 DEF vars, Tick, Files, Writes, History, CapInv
<1>3. ASSUME NEW w \in Workers, NEW c \in Codes \cup {None}, NEW then, NEW content,
             WritePairings(w, c, content, then),
             \A q \in Codes :
                Counts(content, q, redeemed[q] + IF then = "register" /\ c = q THEN 1 ELSE 0)
      PROVE  CapInv'
  BY <1>3 DEF WritePairings, LockFree, SingleProcess, Files, History, CapInv, Alone, Counts,
              TypeInv, TypeOK
<1>4. ASSUME NEW w \in Workers, Invite(w) PROVE CapInv'
  <2>1. PICK c \in Codes :
           /\ FreshCode(c)
           /\ WritePairings(w, None,
                 [pairings EXCEPT ![c] = [uses |-> 0, expires |-> now + PairingTTL]], "idle")
    BY <1>4 DEF Invite
  <2> DEFINE content == [pairings EXCEPT ![c] = [uses |-> 0, expires |-> now + PairingTTL]]
  <2>2. content[c] # None /\ content[c].uses = 0 /\ redeemed[c] = 0
    BY <2>1, AccessAssumption DEF FreshCode, TypeInv, TypeOK, Pairing
  <2>3. \A q \in Codes \ {c} : content[q] = pairings[q]
    BY DEF TypeInv, TypeOK
  <2>4. \A q \in Codes : Counts(content, q, redeemed[q])
    BY <2>2, <2>3, AccessAssumption DEF CapInv, Counts
  <2>5. \A q \in Codes : redeemed[q] + (IF "idle" = "register" /\ None = q THEN 1 ELSE 0) = redeemed[q]
    BY DEF TypeInv, TypeOK
  <2> HIDE DEF content
  <2>6. \A q \in Codes :
           Counts(content, q, redeemed[q] + IF "idle" = "register" /\ None = q THEN 1 ELSE 0)
    BY <2>4, <2>5
  <2>7. WritePairings(w, None, content, "idle")
    BY <2>1 DEF content
  <2> QED
    BY <1>3, <2>6, <2>7
<1>5. ASSUME NEW w \in Workers, ConsumeCode(w) PROVE CapInv'
  <2>1. PICK c \in Codes :
           /\ pairings[c] # None
           /\ pairings[c].uses < MaxUses
           /\ WritePairings(w, c, [pairings EXCEPT ![c].uses = @ + 1], "register")
    BY <1>5 DEF ConsumeCode
  <2> DEFINE content == [pairings EXCEPT ![c].uses = @ + 1]
  <2>2. pairings[c] \in Pairing /\ content[c] = [pairings[c] EXCEPT !.uses = @ + 1]
    BY <2>1 DEF TypeInv, TypeOK
  <2>3. /\ content[c] \in Pairing
        /\ content[c].uses = pairings[c].uses + 1
        /\ pairings[c].uses \in Nat
    <3> HIDE DEF content
    <3> QED
      BY <2>2 DEF Pairing
  <2>4. redeemed[c] \in Nat /\ redeemed[c] <= pairings[c].uses
    BY <2>1 DEF CapInv, Counts, TypeInv, TypeOK
  <2>5. content[c] # None /\ redeemed[c] + 1 <= content[c].uses /\ content[c].uses <= MaxUses
    BY <2>1, <2>3, <2>4, AccessAssumption
  <2>6. \A q \in Codes \ {c} : content[q] = pairings[q] /\ redeemed[q] + 0 = redeemed[q]
    BY DEF TypeInv, TypeOK
  <2> HIDE DEF content
  <2>7. \A q \in Codes :
           Counts(content, q, redeemed[q] + IF "register" = "register" /\ c = q THEN 1 ELSE 0)
    <3>1. Counts(content, c, redeemed[c] + 1)
      BY <2>5, <2>4 DEF Counts
    <3>2. \A q \in Codes \ {c} : Counts(content, q, redeemed[q] + 0)
      BY <2>6 DEF CapInv, Counts
    <3> QED
      BY <3>1, <3>2
  <2>8. WritePairings(w, c, content, "register")
    BY <2>1 DEF content
  <2> QED
    BY <1>3, <2>7, <2>8
<1>6. ASSUME NEW w \in Workers, SavePairings(w) PROVE CapInv'
  <2>1. pc[w] = "pairsave" /\ next[w] \in {"idle", "register"} /\ (next[w] = "register" => code[w] \in Codes)
    BY <1>6 DEF SavePairings, CapInv, TypeInv, InHand
  <2>2. \A c \in Codes : redeemed'[c] = redeemed[c] + IF next[w] = "register" /\ code[w] = c THEN 1 ELSE 0
    BY <1>6, <2>1 DEF SavePairings, TypeInv, TypeOK
  <2>3. \A c \in Codes : Counts(pairings', c, redeemed'[c])
    BY <1>6, <2>1, <2>2 DEF SavePairings, CapInv, Counts
  <2>4. \A v \in Workers : pc'[v] # "pairsave" /\ pc'[v] # "looksave"
    BY <1>6, <2>1 DEF SavePairings, CapInv, Alone, TypeInv, TypeOK
  <2> QED
    BY <2>3, <2>4 DEF CapInv, Alone
<1>7. ASSUME NEW w \in Workers, Lookup(w) PROVE FALSE
  BY <1>7 DEF Lookup, Begins, NoLookups
<1>8. ASSUME NEW w \in Workers, Abandon(w) PROVE CapInv'
  <2>1. \A v \in Workers : v # w => pc'[v] = pc[v] /\ next'[v] = next[v] /\ code'[v] = code[v]
                                     /\ pairingsTo'[v] = pairingsTo[v]
    BY <1>8 DEF Abandon, Finish, TypeInv, TypeOK
  <2>2. pc'[w] = "idle" /\ pairings' = pairings /\ redeemed' = redeemed
    BY <1>8 DEF Abandon, Finish, Files, History, TypeInv, TypeOK
  <2> QED
    BY <2>1, <2>2 DEF CapInv, Alone, Counts
<1>9. ASSUME NEW w \in Workers, UNCHANGED <<pairings, pairingsTo, redeemed>>,
             \A v \in Workers : v # w => pc'[v] = pc[v] /\ next'[v] = next[v] /\ code'[v] = code[v],
             pc'[w] \notin {"pairsave", "looksave"}
      PROVE  CapInv'
  BY <1>1, <1>9 DEF CapInv
<1>10. ASSUME NEW w \in Workers,
              \/ Register(w) \/ OpenSession(w) \/ Authenticate(w) \/ RevokeDevice(w)
              \/ RevokeForDevice(w) \/ RevokeSession(w)
       PROVE  CapInv'
  BY <1>9, <1>10 DEF Register, OpenSession, Authenticate, RevokeDevice, RevokeForDevice,
     RevokeSession, WriteDevices, WriteSessions, Files, History, TypeInv, TypeOK
<1>11. ASSUME NEW w \in Workers, TouchDevice(w) \/ Serve(w) \/ Sleep(w) \/ NextSnapshot(w)
       PROVE  CapInv'
  BY <1>9, <1>11 DEF TouchDevice, Serve, Sleep, NextSnapshot, WriteDevices, Finish, Files, Writes,
     History, TypeInv, TypeOK
<1>12. ASSUME NEW w \in Workers, SaveDevices(w) \/ SaveSessions(w) PROVE CapInv'
  <2>1. next[w] \notin {"pairsave", "looksave"}
    BY <1>12 DEF SaveDevices, SaveSessions, At, TypeInv, InHand
  <2> QED
    BY <1>9, <1>12, <2>1 DEF SaveDevices, SaveSessions, Finish, History, TypeInv, TypeOK
<1> QED
  BY <1>2, <1>4, <1>5, <1>6, <1>7, <1>8, <1>10, <1>11, <1>12 DEF Next, Step

(* In one process, and without the unlocked write of PairingStore.get, no   *)
(* code is redeemed more often than max_uses: for any number of clients.    *)
THEOREM CodesCapped ==
    ASSUME SingleProcess, NoLookups
    PROVE  Spec => []CapRespected
<1>1. Init => CapInv
  BY AccessAssumption DEF Init, CapInv, Alone, Counts, NoPairings
<1>2. TypeInv /\ CapInv /\ [Next]_vars => TypeInv' /\ CapInv'
  BY NextTypeInv, NextCap
<1>3. TypeInv /\ CapInv => CapRespected
  <2> SUFFICES ASSUME TypeInv, CapInv, NEW c \in Codes PROVE redeemed[c] <= MaxUses
    BY DEF CapRespected
  <2>1. CASE pairings[c] = None
    BY <2>1, AccessAssumption DEF CapInv, Counts
  <2>2. CASE pairings[c] # None
    <3>1. pairings[c].uses \in Nat /\ redeemed[c] \in Nat
      BY <2>2 DEF TypeInv, TypeOK, Pairing
    <3> QED
      BY <2>2, <3>1, AccessAssumption DEF CapInv, Counts
  <2> QED
    BY <2>1, <2>2
<1> QED
  BY <1>1, <1>2, <1>3, InitTypeInv, PTL DEF Spec

-----------------------------------------------------------------------------
(* A worker that is not about to write devices or sessions, nor on its way  *)
(* to, has no part in BarInv.                                               *)
LEMMA BarAside ==
    ASSUME TypeInv, BarInv, NEW w \in Workers,
           UNCHANGED <<devices, sessions, barred>>,
           \A v \in Workers \ {w} :
              /\ pc'[v] = pc[v] /\ next'[v] = next[v] /\ who'[v] = who[v] /\ late'[v] = late[v]
              /\ devicesTo'[v] = devicesTo[v] /\ sessionsTo'[v] = sessionsTo[v],
           pc'[w] \in {"idle", "pairsave", "looksave", "register", "granted", "asleep"},
           ~late'[w]
    PROVE  BarInv'
<1>1. Alone("devsave")' /\ Alone("sessave")'
  BY DEF BarInv, Alone
<1>2. \A d \in barred' : Out(d)'
  BY DEF BarInv, Out, HasRevoked
<1>3. \A v \in Workers : BarWorker(v)'
  BY DEF BarInv, BarWorker, HasRevoked
<1>4. \A v \in Workers : RegisterWorker(v)'
  BY DEF BarInv, RegisterWorker, Registering
<1> QED
  BY <1>1, <1>2, <1>3, <1>4 DEF BarInv

(* The sections on the devices file.                                        *)
LEMMA BarWriteDevices ==
    ASSUME SingleProcess, TypeInv, BarInv, NEW w \in Workers, NEW d \in Devices,
           NEW then \in {"session", "granted", "bar"}, NEW content \in [Devices -> DeviceState],
           WriteDevices(w, d, content, then), ~late[w],
           \A e \in Devices : devices[e] = "revoked" => content[e] = "revoked",
           then = "bar" => content[d] = "revoked",
           then = "session" =>
              /\ sessions[d] = None
              /\ \A v \in Workers : sessionsTo[v][d] = None
              /\ \A v \in Workers : who[v] # d
    PROVE  BarInv'
<1>1. /\ pc'[w] = "devsave" /\ next'[w] = then /\ who'[w] = d /\ devicesTo'[w] = content
      /\ UNCHANGED <<devices, sessions, barred, sessionsTo, late>>
      /\ \A v \in Workers \ {w} : /\ pc'[v] = pc[v] /\ next'[v] = next[v] /\ who'[v] = who[v]
                                    /\ devicesTo'[v] = devicesTo[v]
      /\ \A v \in Workers : pc[v] # "devsave"
  BY DEF WriteDevices, LockFree, SingleProcess, Files, History, TypeInv, TypeOK
<1>2. Alone("devsave")' /\ Alone("sessave")'
  BY <1>1 DEF BarInv, Alone
<1>3. \A e \in barred' : Out(e)'
  BY <1>1 DEF BarInv, Out, HasRevoked
<1>4. \A v \in Workers : BarWorker(v)'
  BY <1>1 DEF BarInv, BarWorker, HasRevoked
<1>5. \A v \in Workers : RegisterWorker(v)'
  BY <1>1 DEF BarInv, RegisterWorker, Registering
<1> QED
  BY <1>2, <1>3, <1>4, <1>5 DEF BarInv

(* The sections on the sessions file.                                       *)
LEMMA BarWriteSessions ==
    ASSUME SingleProcess, TypeInv, BarInv, NEW w \in Workers, NEW d \in Devices,
           NEW then \in {"touch", "paired", "barred"},
           NEW content \in [Devices -> Session \cup {None}],
           WriteSessions(w, d, content, then),
           \A v \in Workers \ {w} : late'[v] = late[v],
           late'[w] => then = "touch" /\ devices[d] = "revoked",
           \A e \in Devices : HasRevoked(sessions, e) => HasRevoked(content, e),
           then = "barred" => devices[d] = "revoked" \/ HasRevoked(content, d),
           \A v \in Workers \ {w} : Registering(v) => content[who[v]] = None
    PROVE  BarInv'
<1>1. /\ pc'[w] = "sessave" /\ next'[w] = then /\ who'[w] = d /\ sessionsTo'[w] = content
      /\ UNCHANGED <<devices, sessions, barred, devicesTo>>
      /\ \A v \in Workers \ {w} : /\ pc'[v] = pc[v] /\ next'[v] = next[v] /\ who'[v] = who[v]
                                    /\ sessionsTo'[v] = sessionsTo[v]
      /\ \A v \in Workers : pc[v] # "sessave"
  BY DEF WriteSessions, LockFree, SingleProcess, Files, History, TypeInv, TypeOK
<1>2. Alone("devsave")' /\ Alone("sessave")'
  BY <1>1 DEF BarInv, Alone
<1>3. \A e \in barred' : Out(e)'
  BY <1>1 DEF BarInv, Out, HasRevoked
<1>4. \A v \in Workers : BarWorker(v)'
  BY <1>1 DEF BarInv, BarWorker, HasRevoked
<1>5. \A v \in Workers : RegisterWorker(v)'
  BY <1>1 DEF BarInv, RegisterWorker, Registering
<1> QED
  BY <1>2, <1>3, <1>4, <1>5 DEF BarInv

(* What a section puts into the sessions file keeps revoked sessions, and   *)
(* leaves every other device as it is.                                      *)
LEMMA SessionContents ==
    ASSUME TypeInv, NEW d \in Devices
    PROVE  /\ \A e \in Devices : HasRevoked(sessions, e) => HasRevoked(Revoked(d), e)
           /\ \A e \in Devices : sessions[e] = None => Revoked(d)[e] = None
           /\ sessions[d] # None => HasRevoked(Revoked(d), d)
           /\ sessions[d] # None =>
                 \A e \in Devices :
                    /\ HasRevoked(sessions, e) =>
                          HasRevoked([sessions EXCEPT ![d].expires = Slide(@)], e)
                    /\ sessions[e] = None =>
                          [sessions EXCEPT ![d].expires = Slide(@)][e] = None
<1>1. ASSUME sessions[d] # None
      PROVE  [sessions[d] EXCEPT !.revoked = TRUE] # None /\ [sessions[d] EXCEPT !.revoked = TRUE].revoked
  <2>1. sessions[d] \in Session
    BY <1>1 DEF TypeInv, TypeOK
  <2> QED
    BY <2>1, AccessAssumption DEF Session
<1>2. ASSUME sessions[d] # None
      PROVE  /\ [sessions[d] EXCEPT !.expires = Slide(@)] # None
             /\ [sessions[d] EXCEPT !.expires = Slide(@)].revoked = sessions[d].revoked
  <2>1. sessions[d] \in Session /\ Slide(sessions[d].expires) \in Nat
    BY <1>2, AccessAssumption DEF TypeInv, TypeOK, Session, Slide
  <2> QED
    BY <2>1, AccessAssumption DEF Session
<1>3. sessions[d] # None =>
         /\ [sessions EXCEPT ![d].expires = Slide(@)][d] = [sessions[d] EXCEPT !.expires = Slide(@)]
         /\ \A e \in Devices \ {d} : [sessions EXCEPT ![d].expires = Slide(@)][e] = sessions[e]
  BY DEF TypeInv, TypeOK
<1>4. sessions[d] # None =>
         /\ Revoked(d)[d] = [sessions[d] EXCEPT !.revoked = TRUE]
         /\ \A e \in Devices \ {d} : Revoked(d)[e] = sessions[e]
  BY DEF Revoked, TypeInv, TypeOK
<1>5. sessions[d] = None => Revoked(d) = sessions
  BY DEF Revoked
<1> QED
  BY <1>1, <1>2, <1>3, <1>4, <1>5 DEF HasRevoked

(* One step per operation: what it writes keeps the revocations.            *)
LEMMA NextBar ==
    ASSUME SingleProcess, TypeInv, BarInv, [Next]_vars
    PROVE  BarInv'
<1>1. \A v \in Workers : late[v] => pc[v] = "touch" \/ pc[v] = "sessave"
  BY DEF BarInv, BarWorker
<1>2. CASE UNCHANGED vars \/ Tick
  BY <1>2 DEF vars, Tick, Files, Writes, History, BarInv, Alone, Out, HasRevoked, BarWorker,
     RegisterWorker, Registering
<1>3. ASSUME NEW w \in Workers, Invite(w) \/ Lookup(w) \/ ConsumeCode(w) PROVE BarInv'
  <2>1. ~late[w]
    BY <1>1, <1>3 DEF Invite, Lookup, ConsumeCode, Begins
  <2>2. UNCHANGED <<devices, sessions, barred, who, late, devicesTo, sessionsTo>>
    BY <1>3 DEF Invite, Lookup, ConsumeCode, WritePairings, Files, History
  <2>3. pc'[w] \in {"pairsave", "looksave"}
    BY <1>3 DEF Invite, Lookup, ConsumeCode, WritePairings, TypeInv, TypeOK
  <2>4. \A v \in Workers \ {w} : pc'[v] = pc[v] /\ next'[v] = next[v]
    BY <1>3 DEF Invite, Lookup, ConsumeCode, WritePairings, TypeInv, TypeOK
  <2> QED
    BY <2>1, <2>2, <2>3, <2>4, BarAside
<1>4. ASSUME NEW w \in Workers, SavePairings(w) PROVE BarInv'
  <2>1. next[w] \in {"idle", "register"} /\ ~late[w]
    BY <1>1, <1>4 DEF SavePairings, TypeInv, InHand
  <2> QED
    BY <1>4, <2>1, BarAside DEF SavePairings, TypeInv, TypeOK
<1>5. ASSUME NEW w \in Workers, Serve(w) \/ Abandon(w) PROVE BarInv'
  BY <1>5, BarAside DEF Serve, Abandon, Finish, Files, Writes, History, TypeInv, TypeOK
<1>6. ASSUME NEW w \in Workers, Sleep(w) \/ NextSnapshot(w) PROVE BarInv'
  <2>1. ~late[w]
    BY <1>1, <1>6 DEF Sleep, NextSnapshot, At
  <2> QED
    BY <1>6, <2>1, BarAside DEF Sleep, NextSnapshot, Files, Writes, History, TypeInv, TypeOK
<1>7. ASSUME NEW w \in Workers, Register(w) PROVE BarInv'
  <2>1. PICK d \in Devices :
           FreshDevice(d) /\ WriteDevices(w, d, [devices EXCEPT ![d] = "active"], "session")
    BY <1>7 DEF Register
  <2>2. ~late[w]
    BY <1>1, <1>7 DEF Register, At, Begins
  <2> DEFINE content == [devices EXCEPT ![d] = "active"]
  <2>3. \A e \in Devices : devices[e] = "revoked" => content[e] = "revoked"
    BY <2>1 DEF FreshDevice, TypeInv, TypeOK
  <2>4. content \in [Devices -> DeviceState]
    BY Contents DEF TypeInv
  <2>5. WriteDevices(w, d, content, "session")
    BY <2>1
  <2>6. /\ sessions[d] = None
        /\ \A v \in Workers : sessionsTo[v][d] = None
        /\ \A v \in Workers : who[v] # d
    BY <2>1 DEF FreshDevice
  <2> HIDE DEF content
  <2> QED
    BY <2>2, <2>3, <2>4, <2>5, <2>6, BarWriteDevices
<1>8. ASSUME NEW w \in Workers, RevokeDevice(w) PROVE BarInv'
  <2>1. PICK d \in Devices : WriteDevices(w, d, [devices EXCEPT ![d] = "revoked"], "bar")
    BY <1>8 DEF RevokeDevice
  <2>2. ~late[w]
    BY <1>1, <1>8 DEF RevokeDevice, MayRevoke, At, Begins
  <2>3. /\ \A e \in Devices : devices[e] = "revoked" => [devices EXCEPT ![d] = "revoked"][e] = "revoked"
        /\ [devices EXCEPT ![d] = "revoked"][d] = "revoked"
    BY DEF TypeInv, TypeOK
  <2> QED
    BY <2>1, <2>2, <2>3, BarWriteDevices, Contents DEF TypeInv
<1>9. ASSUME NEW w \in Workers, TouchDevice(w) PROVE BarInv'
  <2>1. CASE devices[who[w]] = "active" /\ WriteDevices(w, who[w], devices, "granted")
    <3>1. ~late[w] /\ who[w] \in Devices /\ devices \in [Devices -> DeviceState]
      BY <1>9, <2>1 DEF TouchDevice, At, BarInv, BarWorker, TypeInv, InHand, TypeOK
    <3> QED
      BY <2>1, <3>1, BarWriteDevices
  <2>2. CASE Finish(w) /\ UNCHANGED <<Files, now, Writes, History>>
    BY <2>2, BarAside DEF Finish, Files, Writes, History, TypeInv, TypeOK
  <2> QED
    BY <1>9, <2>1, <2>2 DEF TouchDevice
<1>10. ASSUME NEW w \in Workers, NEW d \in Devices, WriteSessions(w, d, Revoked(d), "barred"),
              late' = late, ~late[w], sessions[d] # None \/ devices[d] = "revoked"
       PROVE  BarInv'
  <2>1. Revoked(d) \in [Devices -> Session \cup {None}]
    BY Contents DEF TypeInv
  <2>2. \A v \in Workers : Registering(v) => who[v] \in Devices /\ sessions[who[v]] = None
    BY DEF BarInv, RegisterWorker, Registering, TypeInv, InHand
  <2>3. /\ \A e \in Devices : HasRevoked(sessions, e) => HasRevoked(Revoked(d), e)
        /\ devices[d] = "revoked" \/ HasRevoked(Revoked(d), d)
    BY <1>10, SessionContents
  <2>4. \A v \in Workers \ {w} : Registering(v) => Revoked(d)[who[v]] = None
    BY <2>2, SessionContents
  <2>5. /\ \A v \in Workers \ {w} : late'[v] = late[v]
        /\ ~late'[w]
    BY <1>10
  <2> QED
    BY <1>10, <2>1, <2>3, <2>4, <2>5, BarWriteSessions
<1>11. ASSUME NEW w \in Workers, RevokeForDevice(w) PROVE BarInv'
  <2>1. ~late[w] /\ who[w] \in Devices /\ devices[who[w]] = "revoked"
    BY <1>1, <1>11 DEF RevokeForDevice, At, BarInv, BarWorker, TypeInv, InHand
  <2> QED
    BY <1>10, <1>11, <2>1 DEF RevokeForDevice
<1>12. ASSUME NEW w \in Workers, RevokeSession(w) PROVE BarInv'
  <2>1. ~late[w]
    BY <1>1, <1>12 DEF RevokeSession, MayRevoke, At, Begins
  <2> QED
    BY <1>10, <1>12, <2>1 DEF RevokeSession
<1>13. ASSUME NEW w \in Workers, OpenSession(w) PROVE BarInv'
  <2> DEFINE content == [sessions EXCEPT ![who[w]] = [revoked |-> FALSE, expires |-> now + SessionTTL]]
  <2>1. who[w] \in Devices /\ ~late[w] /\ Registering(w) /\ sessions[who[w]] = None
    BY <1>1, <1>13 DEF OpenSession, At, TypeInv, InHand, BarInv, RegisterWorker, Registering
  <2>2. \A e \in Devices \ {who[w]} : content[e] = sessions[e]
    BY DEF TypeInv, TypeOK
  <2>3. content \in [Devices -> Session \cup {None}]
    BY <2>1, Contents DEF TypeInv
  <2>4. \A v \in Workers \ {w} : Registering(v) =>
           who[v] \in Devices /\ who[v] # who[w] /\ sessions[who[v]] = None
    BY <2>1 DEF BarInv, RegisterWorker, Registering, TypeInv, InHand
  <2>5. WriteSessions(w, who[w], content, "paired") /\ late' = late
    BY <1>13 DEF OpenSession
  <2> HIDE DEF content
  <2>6. \A e \in Devices : HasRevoked(sessions, e) => HasRevoked(content, e)
    BY <2>1, <2>2 DEF HasRevoked
  <2>7. \A v \in Workers \ {w} : Registering(v) => content[who[v]] = None
    BY <2>2, <2>4
  <2> QED
    BY <2>1, <2>3, <2>5, <2>6, <2>7, BarWriteSessions
<1>14. ASSUME NEW w \in Workers, Authenticate(w) PROVE BarInv'
  <2>1. PICK d \in Devices :
           /\ Valid(d)
           /\ WriteSessions(w, d, [sessions EXCEPT ![d].expires = Slide(@)], "touch")
           /\ late' = [late EXCEPT ![w] = d \in barred]
    BY <1>14 DEF Authenticate
  <2> DEFINE content == [sessions EXCEPT ![d].expires = Slide(@)]
  <2>2. /\ content \in [Devices -> Session \cup {None}]
        /\ \A e \in Devices : HasRevoked(sessions, e) => HasRevoked(content, e)
        /\ \A e \in Devices : sessions[e] = None => content[e] = None
    BY <2>1, Contents, SessionContents DEF Valid, TypeInv
  <2>3. \A v \in Workers \ {w} : late'[v] = late[v]
    BY <2>1 DEF TypeInv, TypeOK
  <2>4. late'[w] => devices[d] = "revoked"
    BY <2>1 DEF Valid, BarInv, Out, HasRevoked, TypeInv, TypeOK
  <2>5. \A v \in Workers : Registering(v) => who[v] \in Devices /\ sessions[who[v]] = None
    BY DEF BarInv, RegisterWorker, Registering, TypeInv, InHand
  <2>6. WriteSessions(w, d, content, "touch")
    BY <2>1
  <2> HIDE DEF content
  <2> QED
    BY <2>2, <2>3, <2>4, <2>5, <2>6, BarWriteSessions
<1>15. ASSUME NEW w \in Workers, SaveDevices(w) PROVE BarInv'
  <2>1. /\ pc[w] = "devsave" /\ next[w] \in {"session", "granted", "bar"} /\ pc'[w] = next[w]
        /\ devices' = devicesTo[w] /\ who[w] \in Devices
        /\ UNCHANGED <<sessions, barred, sessionsTo, late, who>>
        /\ \A v \in Workers \ {w} : /\ pc'[v] = pc[v] /\ next'[v] = next[v] /\ pc[v] # "devsave"
    BY <1>15 DEF SaveDevices, At, History, BarInv, Alone, TypeInv, InHand, TypeOK
  <2>2. \A d \in Devices : devices[d] = "revoked" => devices'[d] = "revoked"
    BY <2>1 DEF BarInv, BarWorker
  <2>3. Alone("devsave")' /\ Alone("sessave")'
    BY <2>1 DEF BarInv, Alone
  <2>4. \A d \in barred' : Out(d)'
    BY <2>1, <2>2 DEF BarInv, Out, HasRevoked, TypeInv, TypeOK
  <2>5. \A v \in Workers : BarWorker(v)'
    BY <2>1, <2>2 DEF BarInv, BarWorker, HasRevoked, TypeInv, InHand
  <2>6. \A v \in Workers : RegisterWorker(v)'
    BY <2>1 DEF BarInv, RegisterWorker, Registering
  <2> QED
    BY <2>3, <2>4, <2>5, <2>6 DEF BarInv
<1>16. ASSUME NEW w \in Workers, SaveSessions(w) PROVE BarInv'
  <2>1. /\ pc[w] = "sessave" /\ sessions' = sessionsTo[w]
        /\ UNCHANGED <<devices, devicesTo>>
        /\ \A v \in Workers \ {w} : /\ pc'[v] = pc[v] /\ next'[v] = next[v] /\ who'[v] = who[v]
                                      /\ late'[v] = late[v] /\ pc[v] # "sessave"
    BY <1>16 DEF SaveSessions, At, Finish, History, BarInv, Alone, TypeInv, InHand, TypeOK
  <2>2. \/ pc'[w] = "touch" /\ who'[w] = who[w] /\ late'[w] = late[w]
        \/ pc'[w] = "idle" /\ ~late'[w]
    BY <1>16 DEF SaveSessions, Finish, TypeInv, TypeOK
  <2>3. \A d \in Devices : HasRevoked(sessions, d) => HasRevoked(sessions', d)
    BY <2>1 DEF BarInv, BarWorker
  <2>4. Alone("devsave")' /\ Alone("sessave")'
    BY <2>1, <2>2 DEF BarInv, Alone
  <2>5. \A d \in barred' : Out(d)'
    <3>1. \A d \in barred : Out(d)'
      BY <2>1, <2>3 DEF BarInv, Out, HasRevoked, TypeInv, TypeOK
    <3>2. ASSUME NEW d \in Devices, next[w] = "barred", d = who[w] PROVE Out(d)'
      BY <2>1, <3>2 DEF BarInv, BarWorker, Out, HasRevoked
    <3>3. barred' \subseteq Devices
      BY NextTypeInv DEF TypeInv, TypeOK
    <3>4. \A d \in barred' : d \in barred \/ (next[w] = "barred" /\ d = who[w])
      BY <1>16 DEF SaveSessions
    <3> QED
      BY <3>1, <3>2, <3>3, <3>4
  <2>6. \A v \in Workers : BarWorker(v)'
    BY <2>1, <2>2 DEF BarInv, BarWorker, HasRevoked
  <2>7. \A v \in Workers : RegisterWorker(v)'
    BY <2>1, <2>2 DEF BarInv, RegisterWorker, Registering
  <2> QED
    BY <2>4, <2>5, <2>6, <2>7 DEF BarInv
<1> QED
  BY <1>2, <1>3, <1>4, <1>5, <1>6, <1>7, <1>8, <1>9, <1>11, <1>12, <1>13, <1>14, <1>15, <1>16
     DEF Next, Step

(* In one process, a revoked device or session gets no further access from  *)
(* the moment the revocation returns, even if the device was still being    *)
(* paired when it was revoked.                                              *)
THEOREM RevocationHolds ==
    ASSUME SingleProcess
    PROVE  Spec => []RevokedStaysOut
<1>1. Init => BarInv
  BY DEF Init, BarInv, Alone, BarWorker, RegisterWorker, Registering
<1>2. TypeInv /\ BarInv /\ [Next]_vars => TypeInv' /\ BarInv'
  BY NextTypeInv, NextBar
<1>3. BarInv => RevokedStaysOut
  BY DEF BarInv, BarWorker, RevokedStaysOut
<1> QED
  BY <1>1, <1>2, <1>3, InitTypeInv, PTL DEF Spec
-----------------------------------------------------------------------------
(* A step that leaves the two files alone, by a worker that has none of     *)
(* them in hand afterwards.                                                 *)
LEMMA RegisteredAside ==
    ASSUME RegisteredInv, NEW w \in Workers, UNCHANGED <<devices, sessions>>,
           \A v \in Workers \ {w} :
              /\ pc'[v] = pc[v] /\ who'[v] = who[v]
              /\ devicesTo'[v] = devicesTo[v] /\ sessionsTo'[v] = sessionsTo[v],
           pc'[w] \notin {"devsave", "session", "sessave"}
    PROVE  RegisteredInv'
BY DEF RegisteredInv, RegisteredWorker, SessionsHaveDevices

(* The sections on the devices file keep every device there is.             *)
LEMMA RegisteredWriteDevices ==
    ASSUME TypeInv, RegisteredInv, NEW w \in Workers, NEW d \in Devices, NEW then,
           NEW content \in [Devices -> DeviceState], WriteDevices(w, d, content, then),
           \A e \in Devices : devices[e] # "absent" \/ e = d => content[e] # "absent"
    PROVE  RegisteredInv'
<1>1. /\ pc'[w] = "devsave" /\ who'[w] = d /\ devicesTo'[w] = content
      /\ UNCHANGED <<devices, sessions, sessionsTo>>
      /\ \A v \in Workers \ {w} : /\ pc'[v] = pc[v] /\ who'[v] = who[v]
                                    /\ devicesTo'[v] = devicesTo[v]
  BY DEF WriteDevices, Files, TypeInv, TypeOK
<1>2. \A v \in Workers : RegisteredWorker(v)'
  BY <1>1 DEF RegisteredInv, RegisteredWorker
<1> QED
  BY <1>1, <1>2 DEF RegisteredInv, SessionsHaveDevices

(* The sections on the sessions file add a session for a registered device  *)
(* only.                                                                    *)
LEMMA RegisteredWriteSessions ==
    ASSUME TypeInv, RegisteredInv, NEW w \in Workers, NEW d \in Devices, NEW then,
           NEW content \in [Devices -> Session \cup {None}], WriteSessions(w, d, content, then),
           \A e \in Devices : content[e] # None => devices[e] # "absent"
    PROVE  RegisteredInv'
<1>1. /\ pc'[w] = "sessave" /\ sessionsTo'[w] = content
      /\ UNCHANGED <<devices, sessions, devicesTo>>
      /\ \A v \in Workers \ {w} : /\ pc'[v] = pc[v] /\ who'[v] = who[v]
                                    /\ sessionsTo'[v] = sessionsTo[v]
  BY DEF WriteSessions, Files, TypeInv, TypeOK
<1>2. \A v \in Workers : RegisteredWorker(v)'
  BY <1>1 DEF RegisteredInv, RegisteredWorker
<1> QED
  BY <1>1, <1>2 DEF RegisteredInv, SessionsHaveDevices

(* One step per operation: no write takes away the device of a session.     *)
LEMMA NextRegistered ==
    ASSUME TypeInv, BarInv, RegisteredInv, [Next]_vars
    PROVE  RegisteredInv'
<1>1. CASE UNCHANGED vars \/ Tick
  BY <1>1 DEF vars, Tick, Files, Writes, History, RegisteredInv, RegisteredWorker,
     SessionsHaveDevices
<1>2. ASSUME NEW w \in Workers, Invite(w) \/ Lookup(w) \/ ConsumeCode(w) PROVE RegisteredInv'
  BY <1>2, RegisteredAside DEF Invite, Lookup, ConsumeCode, WritePairings, Files, TypeInv, TypeOK
<1>3. ASSUME NEW w \in Workers, SavePairings(w) PROVE RegisteredInv'
  <2>1. next[w] \in {"idle", "register"}
    BY <1>3 DEF SavePairings, TypeInv, InHand
  <2> QED
    BY <1>3, <2>1, RegisteredAside DEF SavePairings, TypeInv, TypeOK
<1>4. ASSUME NEW w \in Workers, Serve(w) \/ Abandon(w) \/ Sleep(w) \/ NextSnapshot(w)
      PROVE  RegisteredInv'
  BY <1>4, RegisteredAside
     DEF Serve, Abandon, Sleep, NextSnapshot, Finish, Files, Writes, TypeInv, TypeOK
<1>5. ASSUME NEW w \in Workers, Register(w) PROVE RegisteredInv'
  <2>1. PICK d \in Devices : WriteDevices(w, d, [devices EXCEPT ![d] = "active"], "session")
    BY <1>5 DEF Register
  <2>2. \A e \in Devices : devices[e] # "absent" \/ e = d =>
           [devices EXCEPT ![d] = "active"][e] # "absent"
    BY DEF TypeInv, TypeOK
  <2> QED
    BY <2>1, <2>2, RegisteredWriteDevices, Contents DEF TypeInv
<1>6. ASSUME NEW w \in Workers, RevokeDevice(w) PROVE RegisteredInv'
  <2>1. PICK d \in Devices : WriteDevices(w, d, [devices EXCEPT ![d] = "revoked"], "bar")
    BY <1>6 DEF RevokeDevice
  <2>2. \A e \in Devices : devices[e] # "absent" \/ e = d =>
           [devices EXCEPT ![d] = "revoked"][e] # "absent"
    BY DEF TypeInv, TypeOK
  <2> QED
    BY <2>1, <2>2, RegisteredWriteDevices, Contents DEF TypeInv
<1>7. ASSUME NEW w \in Workers, TouchDevice(w) PROVE RegisteredInv'
  <2>1. CASE devices[who[w]] = "active" /\ WriteDevices(w, who[w], devices, "granted")
    <3>1. who[w] \in Devices /\ devices \in [Devices -> DeviceState]
      BY <1>7 DEF TouchDevice, At, TypeInv, InHand, TypeOK
    <3> QED
      BY <2>1, <3>1, RegisteredWriteDevices
  <2>2. CASE Finish(w) /\ UNCHANGED <<Files, now, Writes, History>>
    BY <2>2, RegisteredAside DEF Finish, Files, Writes, TypeInv, TypeOK
  <2> QED
    BY <1>7, <2>1, <2>2 DEF TouchDevice
<1>8. ASSUME NEW w \in Workers, NEW d \in Devices, WriteSessions(w, d, Revoked(d), "barred")
      PROVE  RegisteredInv'
  <2>1. \A e \in Devices : Revoked(d)[e] # None => devices[e] # "absent"
    BY SessionContents DEF RegisteredInv, SessionsHaveDevices
  <2> QED
    BY <1>8, <2>1, RegisteredWriteSessions, Contents DEF TypeInv
<1>9. ASSUME NEW w \in Workers, RevokeForDevice(w) \/ RevokeSession(w) PROVE RegisteredInv'
  BY <1>8, <1>9 DEF RevokeForDevice, RevokeSession, At, TypeInv, InHand
<1>10. ASSUME NEW w \in Workers, OpenSession(w) PROVE RegisteredInv'
  <2> DEFINE content == [sessions EXCEPT ![who[w]] = [revoked |-> FALSE, expires |-> now + SessionTTL]]
  <2>1. who[w] \in Devices /\ devices[who[w]] # "absent"
    BY <1>10 DEF OpenSession, At, TypeInv, InHand, RegisteredInv, RegisteredWorker
  <2>2. \A e \in Devices \ {who[w]} : content[e] = sessions[e]
    BY DEF TypeInv, TypeOK
  <2>3. content \in [Devices -> Session \cup {None}] /\ WriteSessions(w, who[w], content, "paired")
    BY <1>10, <2>1, Contents DEF OpenSession, TypeInv
  <2> HIDE DEF content
  <2>4. \A e \in Devices : content[e] # None => devices[e] # "absent"
    BY <2>1, <2>2 DEF RegisteredInv, SessionsHaveDevices
  <2> QED
    BY <2>1, <2>3, <2>4, RegisteredWriteSessions
<1>11. ASSUME NEW w \in Workers, Authenticate(w) PROVE RegisteredInv'
  <2>1. PICK d \in Devices :
           Valid(d) /\ WriteSessions(w, d, [sessions EXCEPT ![d].expires = Slide(@)], "touch")
    BY <1>11 DEF Authenticate
  <2> DEFINE content == [sessions EXCEPT ![d].expires = Slide(@)]
  <2>2. /\ content \in [Devices -> Session \cup {None}]
        /\ \A e \in Devices : sessions[e] = None => content[e] = None
        /\ WriteSessions(w, d, content, "touch")
    BY <2>1, Contents, SessionContents DEF Valid, TypeInv
  <2> HIDE DEF content
  <2>3. \A e \in Devices : content[e] # None => devices[e] # "absent"
    BY <2>2 DEF RegisteredInv, SessionsHaveDevices
  <2> QED
    BY <2>2, <2>3, RegisteredWriteSessions
<1>12. ASSUME NEW w \in Workers, SaveDevices(w) PROVE RegisteredInv'
  <2>1. /\ pc[w] = "devsave" /\ who[w] \in Devices /\ pc'[w] \in {"session", "granted", "bar"}
        /\ devices' = devicesTo[w] /\ UNCHANGED <<sessions, sessionsTo, who>>
        /\ \A v \in Workers \ {w} : pc'[v] = pc[v] /\ pc[v] # "devsave"
    BY <1>12 DEF SaveDevices, At, BarInv, Alone, TypeInv, InHand, TypeOK
  <2>2. \A d \in Devices : devices[d] # "absent" \/ d = who[w] => devices'[d] # "absent"
    BY <2>1 DEF RegisteredInv, RegisteredWorker
  <2>3. \A v \in Workers : pc'[v] = "session" => who[v] \in Devices
    BY <2>1 DEF TypeInv, InHand
  <2>4. \A v \in Workers : RegisteredWorker(v)'
    BY <2>1, <2>2, <2>3 DEF RegisteredInv, RegisteredWorker
  <2> QED
    BY <2>1, <2>2, <2>4 DEF RegisteredInv, SessionsHaveDevices
<1>13. ASSUME NEW w \in Workers, SaveSessions(w) PROVE RegisteredInv'
  <2>1. /\ pc[w] = "sessave" /\ pc'[w] \in {"touch", "idle"}
        /\ sessions' = sessionsTo[w] /\ UNCHANGED <<devices, devicesTo>>
        /\ \A v \in Workers \ {w} : /\ pc'[v] = pc[v] /\ pc[v] # "sessave" /\ who'[v] = who[v]
    BY <1>13 DEF SaveSessions, At, Finish, BarInv, Alone, TypeInv, TypeOK
  <2>2. \A v \in Workers : RegisteredWorker(v)'
    BY <2>1 DEF RegisteredInv, RegisteredWorker
  <2> QED
    BY <2>1, <2>2 DEF RegisteredInv, RegisteredWorker, SessionsHaveDevices
<1> QED
  BY <1>1, <1>2, <1>3, <1>4, <1>5, <1>6, <1>7, <1>9, <1>10, <1>11, <1>12, <1>13 DEF Next, Step

(* In one process, no session is without its device, wherever pairing,      *)
(* login, access and revocation overlap or are cut short: DeviceStore.touch *)
(* never fails for want of a device.                                        *)
THEOREM SessionsRegistered ==
    ASSUME SingleProcess
    PROVE  Spec => []SessionsHaveDevices
<1>1. Init => BarInv /\ RegisteredInv
  BY DEF Init, BarInv, Alone, BarWorker, RegisterWorker, Registering, RegisteredInv,
     RegisteredWorker, SessionsHaveDevices, NoSessions
<1>2. TypeInv /\ BarInv /\ RegisteredInv /\ [Next]_vars => TypeInv' /\ BarInv' /\ RegisteredInv'
  BY NextTypeInv, NextBar, NextRegistered
<1>3. RegisteredInv => SessionsHaveDevices
  BY DEF RegisteredInv
<1> QED
  BY <1>1, <1>2, <1>3, InitTypeInv, PTL DEF Spec
-----------------------------------------------------------------------------
(* A step that leaves the sessions file alone, by a worker that is not      *)
(* between the authentication and the end of an access afterwards, or is    *)
(* where it was.                                                            *)
LEMMA SlidingAside ==
    ASSUME SlidingInv, NEW w \in Workers, UNCHANGED sessions,
           \A v \in Workers \ {w} :
              /\ pc'[v] = pc[v] /\ next'[v] = next[v] /\ who'[v] = who[v] /\ began'[v] = began[v]
              /\ sessionsTo'[v] = sessionsTo[v],
           \/ /\ pc'[w] \notin {"sessave", "touch", "granted", "asleep"}
              /\ ~ (pc'[w] = "devsave" /\ next'[w] = "granted")
           \/ /\ pc[w] \in {"touch", "granted", "asleep"} \/ (pc[w] = "devsave" /\ next[w] = "granted")
              /\ pc'[w] # "sessave" /\ who'[w] = who[w] /\ began'[w] = began[w]
    PROVE  SlidingInv'
<1>1. \A v \in Workers \ {w} : SlidingWorker(v)'
  BY DEF SlidingInv, SlidingWorker, LivesUntil
<1>2. SlidingWorker(w)'
  BY DEF SlidingInv, SlidingWorker, LivesUntil
<1> QED
  BY <1>1, <1>2 DEF SlidingInv

(* The sections on the sessions file shorten no session.                    *)
LEMMA SlidingWriteSessions ==
    ASSUME TypeInv, SlidingInv, NEW w \in Workers, NEW d \in Devices, NEW then,
           NEW content \in [Devices -> Session \cup {None}], WriteSessions(w, d, content, then),
           \A v \in Workers \ {w} : began'[v] = began[v],
           \A e \in Devices : sessions[e] # None => LivesUntil(content, e, sessions[e].expires),
           then = "touch" => LivesUntil(content, d, began'[w] + RefreshWindow)
    PROVE  SlidingInv'
<1>1. /\ pc'[w] = "sessave" /\ next'[w] = then /\ who'[w] = d /\ sessionsTo'[w] = content
      /\ UNCHANGED sessions
      /\ \A v \in Workers \ {w} : /\ pc'[v] = pc[v] /\ next'[v] = next[v] /\ who'[v] = who[v]
                                    /\ sessionsTo'[v] = sessionsTo[v]
  BY DEF WriteSessions, Files, TypeInv, TypeOK
<1>2. \A v \in Workers \ {w} : SlidingWorker(v)'
  BY <1>1 DEF SlidingInv, SlidingWorker, LivesUntil
<1>3. SlidingWorker(w)'
  BY <1>1 DEF SlidingWorker, LivesUntil
<1> QED
  BY <1>2, <1>3 DEF SlidingInv

(* What a section puts into the sessions file lives as long as before, and  *)
(* an authenticated session at least for the refresh window.                *)
LEMMA SessionLives ==
    ASSUME TypeInv, NEW d \in Devices
    PROVE  /\ \A e \in Devices : sessions[e] # None =>
                 LivesUntil(sessions, e, sessions[e].expires)
                 /\ LivesUntil(Revoked(d), e, sessions[e].expires)
           /\ sessions[d] # None =>
                 LET content == [sessions EXCEPT ![d].expires = Slide(@)]
                 IN /\ LivesUntil(content, d, now + RefreshWindow)
                    /\ \A e \in Devices : sessions[e] # None =>
                          LivesUntil(content, e, sessions[e].expires)
<1>1. \A e \in Devices : sessions[e] # None => sessions[e] \in Session /\ sessions[e].expires \in Nat
  BY DEF TypeInv, TypeOK, Session
<1>2. \A e \in Devices : sessions[e] # None =>
         LivesUntil(sessions, e, sessions[e].expires)
         /\ LivesUntil(Revoked(d), e, sessions[e].expires)
  <2> SUFFICES ASSUME NEW e \in Devices, sessions[e] # None
               PROVE  LivesUntil(sessions, e, sessions[e].expires)
                      /\ LivesUntil(Revoked(d), e, sessions[e].expires)
    OBVIOUS
  <2>1. Revoked(d)[e] # None
    <3>1. CASE e = d
      BY <3>1, SessionContents DEF HasRevoked
    <3>2. CASE e # d
      BY <3>2 DEF Revoked, TypeInv, TypeOK
    <3> QED
      BY <3>1, <3>2
  <2>2. Revoked(d)[e].expires = sessions[e].expires
    BY <1>1 DEF Revoked, Session, TypeInv, TypeOK
  <2> QED
    BY <1>1, <2>1, <2>2 DEF LivesUntil
<1>3. ASSUME sessions[d] # None
      PROVE  LET content == [sessions EXCEPT ![d].expires = Slide(@)]
             IN /\ LivesUntil(content, d, now + RefreshWindow)
                /\ \A e \in Devices : sessions[e] # None =>
                      LivesUntil(content, e, sessions[e].expires)
  <2> DEFINE content == [sessions EXCEPT ![d].expires = Slide(@)]
  <2>1. /\ Slide(sessions[d].expires) \in Nat
        /\ Slide(sessions[d].expires) >= sessions[d].expires
        /\ Slide(sessions[d].expires) >= now + RefreshWindow
    BY <1>1, <1>3, AccessAssumption DEF Slide, TypeInv, TypeOK
  <2>2. content[d] = [sessions[d] EXCEPT !.expires = Slide(@)]
    BY DEF TypeInv, TypeOK
  <2>3. \A e \in Devices \ {d} : content[e] = sessions[e]
    BY DEF TypeInv, TypeOK
  <2>4. content[d] \in Session /\ content[d].expires = Slide(sessions[d].expires)
    <3> HIDE DEF content
    <3> QED
      BY <1>1, <1>3, <2>1, <2>2 DEF Session
  <2> HIDE DEF content
  <2>5. content[d] # None
    BY <2>4, AccessAssumption
  <2>6. LivesUntil(content, d, now + RefreshWindow)
    BY <2>1, <2>4, <2>5 DEF LivesUntil
  <2>7. \A e \in Devices : sessions[e] # None => LivesUntil(content, e, sessions[e].expires)
    BY <1>1, <2>1, <2>3, <2>4, <2>5 DEF LivesUntil
  <2> QED
    BY <2>6, <2>7 DEF content
<1> QED
  BY <1>2, <1>3

(* One step per operation: no write shortens a session that is in use.      *)
LEMMA NextSliding ==
    ASSUME TypeInv, BarInv, SlidingInv, [Next]_vars
    PROVE  SlidingInv'
<1>1. CASE UNCHANGED vars \/ Tick
  BY <1>1 DEF vars, Tick, Files, Writes, History, SlidingInv, SlidingWorker, LivesUntil
<1>2. ASSUME NEW w \in Workers, Invite(w) \/ Lookup(w) \/ ConsumeCode(w) PROVE SlidingInv'
  BY <1>2, SlidingAside DEF Invite, Lookup, ConsumeCode, WritePairings, Files, TypeInv, TypeOK
<1>3. ASSUME NEW w \in Workers, SavePairings(w) PROVE SlidingInv'
  <2>1. next[w] \in {"idle", "register"}
    BY <1>3 DEF SavePairings, TypeInv, InHand
  <2> QED
    BY <1>3, <2>1, SlidingAside DEF SavePairings, TypeInv, TypeOK
<1>4. ASSUME NEW w \in Workers, Serve(w) \/ Abandon(w) PROVE SlidingInv'
  BY <1>4, SlidingAside DEF Serve, Abandon, Finish, Files, Writes, TypeInv, TypeOK
<1>5. ASSUME NEW w \in Workers, Sleep(w) \/ NextSnapshot(w) PROVE SlidingInv'
  BY <1>5, SlidingAside DEF Sleep, NextSnapshot, At, Files, Writes, TypeInv, TypeOK
<1>6. ASSUME NEW w \in Workers, Register(w) \/ RevokeDevice(w) PROVE SlidingInv'
  BY <1>6, SlidingAside DEF Register, RevokeDevice, WriteDevices, Files, TypeInv, TypeOK
<1>7. ASSUME NEW w \in Workers, TouchDevice(w) PROVE SlidingInv'
  <2>1. CASE WriteDevices(w, who[w], devices, "granted")
    BY <1>7, <2>1, SlidingAside DEF TouchDevice, At, WriteDevices, Files, TypeInv, TypeOK
  <2>2. CASE Finish(w) /\ UNCHANGED <<Files, now, Writes, History>>
    BY <2>2, SlidingAside DEF Finish, Files, Writes, TypeInv, TypeOK
  <2> QED
    BY <1>7, <2>1, <2>2 DEF TouchDevice
<1>8. ASSUME NEW w \in Workers, NEW d \in Devices, WriteSessions(w, d, Revoked(d), "barred"),
             UNCHANGED began
      PROVE  SlidingInv'
  <2>1. Revoked(d) \in [Devices -> Session \cup {None}]
    BY Contents DEF TypeInv
  <2> QED
    BY <1>8, <2>1, SessionLives, SlidingWriteSessions
<1>9. ASSUME NEW w \in Workers, RevokeForDevice(w) \/ RevokeSession(w) PROVE SlidingInv'
  BY <1>8, <1>9 DEF RevokeForDevice, RevokeSession, At, TypeInv, InHand
<1>10. ASSUME NEW w \in Workers, OpenSession(w) PROVE SlidingInv'
  <2> DEFINE content == [sessions EXCEPT ![who[w]] = [revoked |-> FALSE, expires |-> now + SessionTTL]]
  <2>1. who[w] \in Devices /\ sessions[who[w]] = None /\ UNCHANGED began
    BY <1>10 DEF OpenSession, At, TypeInv, InHand, BarInv, RegisterWorker, Registering
  <2>2. \A e \in Devices \ {who[w]} : content[e] = sessions[e]
    BY DEF TypeInv, TypeOK
  <2>3. content \in [Devices -> Session \cup {None}] /\ WriteSessions(w, who[w], content, "paired")
    BY <1>10, <2>1, Contents DEF OpenSession, TypeInv
  <2> HIDE DEF content
  <2>4. \A e \in Devices : sessions[e] # None => LivesUntil(content, e, sessions[e].expires)
    BY <2>1, <2>2, SessionLives DEF LivesUntil
  <2> QED
    BY <2>1, <2>3, <2>4, SlidingWriteSessions
<1>11. ASSUME NEW w \in Workers, Authenticate(w) PROVE SlidingInv'
  <2>1. PICK d \in Devices :
           /\ Valid(d)
           /\ WriteSessions(w, d, [sessions EXCEPT ![d].expires = Slide(@)], "touch")
           /\ began' = [began EXCEPT ![w] = now]
    BY <1>11 DEF Authenticate
  <2> DEFINE content == [sessions EXCEPT ![d].expires = Slide(@)]
  <2>2. /\ content \in [Devices -> Session \cup {None}]
        /\ WriteSessions(w, d, content, "touch")
        /\ LivesUntil(content, d, now + RefreshWindow)
        /\ \A e \in Devices : sessions[e] # None => LivesUntil(content, e, sessions[e].expires)
    BY <2>1, Contents, SessionLives DEF Valid, TypeInv
  <2>3. began'[w] = now /\ \A v \in Workers \ {w} : began'[v] = began[v]
    BY <2>1 DEF TypeInv, TypeOK
  <2> HIDE DEF content
  <2> QED
    BY <2>2, <2>3, SlidingWriteSessions
<1>12. ASSUME NEW w \in Workers, SaveDevices(w) PROVE SlidingInv'
  <2>1. /\ pc[w] = "devsave" /\ next[w] \in {"session", "granted", "bar"} /\ pc'[w] = next[w]
        /\ UNCHANGED <<sessions, sessionsTo, who, began>>
        /\ \A v \in Workers \ {w} : pc'[v] = pc[v] /\ next'[v] = next[v]
    BY <1>12 DEF SaveDevices, At, TypeInv, InHand, TypeOK
  <2> QED
    BY <2>1, SlidingAside
<1>13. ASSUME NEW w \in Workers, SaveSessions(w) PROVE SlidingInv'
  <2>1. /\ pc[w] = "sessave" /\ sessions' = sessionsTo[w]
        /\ \/ next[w] = "touch" /\ pc'[w] = "touch" /\ who'[w] = who[w] /\ began'[w] = began[w]
           \/ pc'[w] = "idle"
        /\ \A v \in Workers \ {w} : /\ pc'[v] = pc[v] /\ next'[v] = next[v] /\ who'[v] = who[v]
                                      /\ began'[v] = began[v] /\ pc[v] # "sessave"
    BY <1>13 DEF SaveSessions, At, Finish, BarInv, Alone, TypeInv, TypeOK
  <2>2. SlidingWorker(w)'
    BY <2>1 DEF SlidingInv, SlidingWorker, LivesUntil
  <2>3. ASSUME NEW v \in Workers \ {w} PROVE SlidingWorker(v)'
    <3>1. CASE \/ pc[v] \in {"touch", "granted", "asleep"}
               \/ pc[v] = "devsave" /\ next[v] = "granted"
      <4>1. who[v] \in Devices /\ LivesUntil(sessions, who[v], began[v] + RefreshWindow)
        BY <3>1 DEF SlidingInv, SlidingWorker, TypeInv, InHand
      <4>2. LivesUntil(sessions', who[v], sessions[who[v]].expires)
        BY <2>1, <4>1 DEF SlidingInv, SlidingWorker, LivesUntil
      <4>3. /\ sessions[who[v]].expires \in Nat /\ sessions'[who[v]].expires \in Nat
            /\ began[v] + RefreshWindow \in Nat
        BY <2>1, <4>1, <4>2, AccessAssumption DEF LivesUntil, TypeInv, TypeOK, Session
      <4>4. LivesUntil(sessions', who[v], began[v] + RefreshWindow)
        BY <4>1, <4>2, <4>3 DEF LivesUntil
      <4> QED
        BY <2>1, <3>1, <4>4 DEF SlidingWorker, LivesUntil
    <3>2. CASE ~ (\/ pc[v] \in {"touch", "granted", "asleep"}
                  \/ pc[v] = "devsave" /\ next[v] = "granted")
      BY <2>1, <3>2 DEF SlidingWorker
    <3> QED
      BY <3>1, <3>2
  <2> QED
    BY <2>2, <2>3 DEF SlidingInv
<1> QED
  BY <1>1, <1>2, <1>3, <1>4, <1>5, <1>6, <1>7, <1>9, <1>10, <1>11, <1>12, <1>13 DEF Next, Step

(* In one process, a session that a request was authenticated with lives    *)
(* for the refresh window from then on, whatever other requests,            *)
(* revocations and pairings write to the file while it is in use.           *)
THEOREM ExpirySlides ==
    ASSUME SingleProcess
    PROVE  Spec => []SlidingExpiry
<1>1. Init => BarInv /\ SlidingInv
  BY DEF Init, BarInv, Alone, BarWorker, RegisterWorker, Registering, SlidingInv, SlidingWorker
<1>2. TypeInv /\ BarInv /\ SlidingInv /\ [Next]_vars => TypeInv' /\ BarInv' /\ SlidingInv'
  BY NextTypeInv, NextBar, NextSliding
<1>3. SlidingInv => SlidingExpiry
  BY DEF SlidingInv, SlidingWorker, LivesUntil, SlidingExpiry
<1> QED
  BY <1>1, <1>2, <1>3, InitTypeInv, PTL DEF Spec
=============================================================================
