------------------------- MODULE RequestStoreProofs -------------------------
(***************************************************************************)
(* Theorems about RequestStore, for every set of requests and workers,     *)
(* every assignment of workers to processes and every clock bound.         *)
(***************************************************************************)
EXTENDS RequestStore, TLAPS

-----------------------------------------------------------------------------
(* The records the operations build.                                        *)

(* A new request is a well-typed, coherent record (RequestStore.create).    *)
LEMMA NewRequestGood ==
    ASSUME NEW r \in Requests, now \in Nat
    PROVE  NewRequest(r) \in Record /\ CoherentRecord(r, NewRequest(r))
  BY ConstantsAssumption DEF NewRequest, Record, Status, CoherentRecord, Types

(* _expire_if_needed keeps a record well typed and coherent.                *)
LEMMA ExpireGood ==
    ASSUME NEW r \in Requests, NEW rec \in Record, CoherentRecord(r, rec)
    PROVE  /\ ExpireIfNeeded(rec) \in Record
           /\ CoherentRecord(r, ExpireIfNeeded(rec))
           /\ [rec EXCEPT !.status = "expired"] \in Record
           /\ CoherentRecord(r, [rec EXCEPT !.status = "expired"])
  BY DEF ExpireIfNeeded, IsExpired, Record, Status, CoherentRecord

(* A missing request stays missing.                                         *)
LEMMA ExpireNothing == ExpireIfNeeded(NoReq) = NoReq
  BY DEF ExpireIfNeeded

(* What the accepting operations store is again well typed and coherent.    *)
LEMMA EditsGood ==
    ASSUME NEW r \in Requests, NEW rec \in Record, CoherentRecord(r, rec)
    PROVE  /\ Accepts("submit", r, rec) =>
                LET new == [rec EXCEPT !.sealed = TRUE, !.status = "fulfilled",
                                       !.used = TRUE, !.completed = TRUE]
                IN  new \in Record /\ CoherentRecord(r, new)
           /\ Accepts("approve", r, rec) =>
                LET new == [rec EXCEPT !.decision = "approved", !.status = "approved",
                                       !.used = FALSE, !.completed = TRUE]
                IN  new \in Record /\ CoherentRecord(r, new)
           /\ Accepts("deny", r, rec) =>
                LET new == [rec EXCEPT !.decision = "denied", !.status = "denied",
                                       !.used = TRUE, !.completed = TRUE]
                IN  new \in Record /\ CoherentRecord(r, new)
           /\ Accepts("cancel", r, rec) =>
                LET new == [rec EXCEPT !.status = "cancelled", !.used = TRUE,
                                       !.completed = FALSE]
                IN  new \in Record /\ CoherentRecord(r, new)
           /\ Accepts("complete", r, rec) =>
                LET new == [rec EXCEPT !.status = "challenge_completed",
                                       !.completed = TRUE, !.used = TRUE]
                IN  new \in Record /\ CoherentRecord(r, new)
           /\ Accepts("release", r, rec) =>
                LET new == [rec EXCEPT !.status = "released", !.owner = "agent",
                                       !.completed = TRUE, !.used = TRUE]
                IN  new \in Record /\ CoherentRecord(r, new)
           /\ Accepts("consume", r, rec) =>
                LET new == [rec EXCEPT !.status = "consumed", !.used = TRUE]
                IN  new \in Record /\ CoherentRecord(r, new)
           /\ TypeOf[r] = "provider" =>
                LET new == [rec EXCEPT !.sealed = FALSE, !.used = TRUE, !.status = "consumed"]
                IN  new \in Record /\ CoherentRecord(r, new)
  BY DEF Accepts, Record, Status, Completed, Aborted, CoherentRecord

-----------------------------------------------------------------------------
(* Steps of one worker.                                                     *)

(* A step that changes only the locals of worker w keeps the invariant when *)
(* w's new locals satisfy their part of it.                                 *)
LEMMA LocalStep ==
    ASSUME CoherentInv, NEW w \in Workers,
           NEW p \in PCs, NEW c \in Calls, NEW t \in Requests \cup {NoReq},
           NEW d \in Record \cup {NoReq}, NEW f \in [Requests -> Record \cup {NoReq}],
           pc' = Set(pc, w, p), call' = Set(call, w, c), target' = Set(target, w, t),
           copy' = Set(copy, w, d), snap' = Set(snap, w, f),
           CoherentFile(f), InHand(w)',
           file' \in [Requests -> Record \cup {NoReq}], CoherentFile(file'),
           now' \in Nat, approvals' \in [Requests -> Nat], effects' \in [Requests -> Nat],
           audited' \in [Requests -> Status \cup {"none"}]
    PROVE  CoherentInv'
<1>1. TypeOK'
  BY DEF CoherentInv, TypeOK, Set
<1>2. \A v \in Workers : CoherentFile(snap'[v])
  BY DEF CoherentInv, TypeOK, Set
<1>3. ASSUME NEW v \in Workers, v # w PROVE InHand(v)'
  <2>1. /\ pc'[v] = pc[v] /\ call'[v] = call[v]
        /\ target'[v] = target[v] /\ copy'[v] = copy[v]
    BY <1>3 DEF CoherentInv, TypeOK, Set
  <2>2. InHand(v)
    BY DEF CoherentInv
  <2> QED
    BY <2>1, <2>2 DEF InHand, Holding, HasEffect
<1> QED
  BY <1>1, <1>2, <1>3 DEF CoherentInv

(* A call that returns or raises leaves its worker with nothing in hand.    *)
LEMMA FinishStep ==
    ASSUME CoherentInv, NEW w \in Workers, Finish(w),
           file' \in [Requests -> Record \cup {NoReq}], CoherentFile(file'),
           now' \in Nat, approvals' \in [Requests -> Nat], effects' \in [Requests -> Nat],
           audited' \in [Requests -> Status \cup {"none"}]
    PROVE  CoherentInv'
<1>1. Empty \in [Requests -> Record \cup {NoReq}] /\ CoherentFile(Empty)
  BY DEF Empty, CoherentFile
<1>2. InHand(w)'
  BY DEF InHand, Finish, Set, CoherentInv, TypeOK
<1> QED
  BY <1>1, <1>2, LocalStep DEF Finish, PCs, Calls

(* The variables a step of one worker leaves alone keep their part.         *)
LEMMA Frame ==
    ASSUME CoherentInv
    PROVE  /\ file \in [Requests -> Record \cup {NoReq}] /\ CoherentFile(file)
           /\ now \in Nat /\ approvals \in [Requests -> Nat] /\ effects \in [Requests -> Nat]
           /\ audited \in [Requests -> Status \cup {"none"}]
  BY DEF CoherentInv, TypeOK

(* get() hands out a coherent copy, whether or not it had to expire it.     *)
LEMMA GetStep ==
    ASSUME CoherentInv, NEW w \in Workers, NEW c \in Calls, NEW r \in Requests,
           GetSection(w, c, r),
           UNCHANGED <<file, now, approvals, effects, audited>>
    PROVE  CoherentInv'
<1> DEFINE rec == ExpireIfNeeded(file[r])
<1>1. /\ file[r] \in Record /\ CoherentRecord(r, file[r])
      /\ rec \in Record /\ CoherentRecord(r, rec)
  BY Frame, ExpireGood DEF GetSection, CoherentFile
<1>2. /\ [file EXCEPT ![r] = rec] \in [Requests -> Record \cup {NoReq}]
      /\ CoherentFile([file EXCEPT ![r] = rec])
  BY <1>1, Frame DEF CoherentFile
<1>3. snap[w] \in [Requests -> Record \cup {NoReq}] /\ CoherentFile(snap[w])
      /\ snap = Set(snap, w, snap[w])
  BY DEF CoherentInv, TypeOK, Set
<1> HIDE DEF rec
<1>4. \E p \in {"check", "getsave"}, f \in {snap[w], [file EXCEPT ![r] = rec]} :
         pc' = Set(pc, w, p) /\ snap' = Set(snap, w, f)
  BY <1>3 DEF GetSection, rec
<1>5. PICK p \in {"check", "getsave"}, f \in {snap[w], [file EXCEPT ![r] = rec]} :
         pc' = Set(pc, w, p) /\ snap' = Set(snap, w, f)
  BY <1>4
<1>6. call' = Set(call, w, c) /\ target' = Set(target, w, r) /\ copy' = Set(copy, w, rec)
  BY DEF GetSection, rec
<1>7. InHand(w)'
  BY <1>1, <1>5, <1>6 DEF InHand, Holding, Set, CoherentInv, TypeOK
<1> QED
  BY <1>1, <1>2, <1>3, <1>5, <1>6, <1>7, Frame, LocalStep DEF PCs

(* create() and list() prepare a coherent file content.                     *)
LEMMA CreateStep ==
    ASSUME CoherentInv, NEW w \in Workers, NEW r \in Requests, CreateSection(w, r),
           UNCHANGED <<file, now, approvals, effects, audited>>
    PROVE  CoherentInv'
<1> DEFINE f == [file EXCEPT ![r] = NewRequest(r)]
<1>1. f \in [Requests -> Record \cup {NoReq}] /\ CoherentFile(f)
  BY Frame, NewRequestGood DEF CoherentFile
<1> HIDE DEF f
<1>2. copy[w] \in Record \cup {NoReq} /\ copy' = Set(copy, w, copy[w])
  BY DEF CreateSection, CoherentInv, TypeOK, Set
<1>3. /\ pc' = Set(pc, w, "createsave") /\ call' = Set(call, w, "create")
      /\ target' = Set(target, w, r) /\ snap' = Set(snap, w, f)
  BY DEF CreateSection, f
<1>4. InHand(w)'
  BY <1>3 DEF InHand, Set, CoherentInv, TypeOK
<1> QED
  BY <1>1, <1>2, <1>3, <1>4, Frame, LocalStep DEF PCs, Calls, Operations

(* What list() is about to write is well typed and coherent.                *)
LEMMA ListedGood ==
    ASSUME CoherentInv
    PROVE  Listed \in [Requests -> Record \cup {NoReq}] /\ CoherentFile(Listed)
<1>1. ASSUME NEW r \in Requests
      PROVE  /\ Listed[r] \in Record \cup {NoReq}
             /\ Listed[r] # NoReq => CoherentRecord(r, Listed[r])
  <2>1. CASE file[r] = NoReq
    BY <2>1, ExpireNothing DEF Listed
  <2>2. CASE file[r] # NoReq
    BY <2>2, Frame, ExpireGood DEF Listed, CoherentFile
  <2> QED
    BY <2>1, <2>2
<1> QED
  BY <1>1 DEF Listed, CoherentFile

(* list() and the operations that begin with it enter the locked section.   *)
LEMMA ListStep ==
    ASSUME CoherentInv, NEW w \in Workers, NEW c \in {"list", "renew", "obsolete"},
           NEW r \in Requests \cup {NoReq}, NEW rec \in Record \cup {NoReq},
           c = "obsolete" => r \in Requests,
           c = "renew" /\ r # NoReq => rec \in Record /\ CoherentRecord(r, rec),
           ListSection(w, c, r, rec)
    PROVE  CoherentInv'
<1>1. /\ pc' = Set(pc, w, "listsave") /\ call' = Set(call, w, c)
      /\ target' = Set(target, w, r) /\ copy' = Set(copy, w, rec)
      /\ snap' = Set(snap, w, Listed)
      /\ UNCHANGED <<file, now, approvals, effects, audited>>
  BY DEF ListSection
<1>2. InHand(w)'
  BY <1>1 DEF InHand, Holding, Set, CoherentInv, TypeOK
<1> QED
  BY <1>1, <1>2, ListedGood, Frame, LocalStep DEF PCs, Calls, Operations

(* An accepting operation holds a coherent new copy.                        *)
LEMMA AcceptStep ==
    ASSUME CoherentInv, NEW w \in Workers, NEW c, NEW rec, Accept(w, c, rec),
           Holding(w) /\ Accepts(c, target[w], copy[w]) =>
              rec \in Record /\ CoherentRecord(target[w], rec)
    PROVE  CoherentInv'
<1>1. Holding(w) /\ Accepts(c, target[w], copy[w])
  BY DEF Accept, CoherentInv, InHand
<1>2. rec \in Record /\ CoherentRecord(target[w], rec) /\ target[w] \in Requests
  BY <1>1 DEF Holding
<1>3. /\ pc' = Set(pc, w, "update") /\ copy' = Set(copy, w, rec)
      /\ call' = Set(call, w, call[w]) /\ target' = Set(target, w, target[w])
      /\ snap' = Set(snap, w, snap[w])
      /\ UNCHANGED <<file, now, approvals, effects, audited>>
  BY DEF Accept, Set, CoherentInv, TypeOK
<1>4. call[w] \in Calls /\ snap[w] \in [Requests -> Record \cup {NoReq}] /\ CoherentFile(snap[w])
  BY DEF CoherentInv, TypeOK
<1>5. InHand(w)'
  BY <1>2, <1>3 DEF InHand, Holding, Set, CoherentInv, TypeOK
<1> QED
  BY <1>2, <1>3, <1>4, <1>5, Frame, LocalStep DEF PCs

(* The eight operations that change their local copy.                       *)
LEMMA AcceptsStep ==
    ASSUME CoherentInv, NEW w \in Workers,
           \/ SubmitCiphertext(w) \/ Approve(w) \/ Deny(w) \/ Cancel(w)
           \/ MarkChallengeCompleted(w) \/ ReleaseTakeover(w) \/ RecordTakeoverFrame(w)
           \/ ConsumeApproval(w)
    PROVE  CoherentInv'
<1>1. CASE SubmitCiphertext(w)
  BY <1>1, AcceptStep, EditsGood DEF SubmitCiphertext, Holding
<1>2. CASE Approve(w)
  BY <1>2, AcceptStep, EditsGood DEF Approve, Holding
<1>3. CASE Deny(w)
  BY <1>3, AcceptStep, EditsGood DEF Deny, Holding
<1>4. CASE Cancel(w)
  BY <1>4, AcceptStep, EditsGood DEF Cancel, Holding
<1>5. CASE MarkChallengeCompleted(w)
  BY <1>5, AcceptStep, EditsGood DEF MarkChallengeCompleted, Holding
<1>6. CASE ReleaseTakeover(w)
  BY <1>6, AcceptStep, EditsGood DEF ReleaseTakeover, Holding
<1>7. CASE RecordTakeoverFrame(w)
  BY <1>7, AcceptStep DEF RecordTakeoverFrame, Holding
<1>8. CASE ConsumeApproval(w)
  BY <1>8, AcceptStep, EditsGood DEF ConsumeApproval, Holding
<1> QED
  BY <1>1, <1>2, <1>3, <1>4, <1>5, <1>6, <1>7, <1>8

(* The maintainer's listing: what it will store is coherent.                *)
LEMMA RenewStep ==
    ASSUME CoherentInv, NEW w \in Workers, Renew(w) \/ CancelObsolete(w) \/ List(w)
    PROVE  CoherentInv'
<1>1. CASE List(w)
  BY <1>1, ListStep DEF List
<1>2. CASE CancelObsolete(w)
  BY <1>2, ListStep DEF CancelObsolete
<1>3. ASSUME NEW r \in Requests, RestartPending(r)
      PROVE  LET rec == [Listed[r] EXCEPT !.expires = now + TTL] IN
             /\ Listed[r] \in Record /\ CoherentRecord(r, Listed[r])
             /\ rec \in Record /\ CoherentRecord(r, rec)
  <2>1. Listed[r] \in Record /\ CoherentRecord(r, Listed[r])
    <3>1. file[r] \in Record /\ CoherentRecord(r, file[r])
      BY <1>3, Frame DEF RestartPending, CoherentFile
    <3> QED
      BY <3>1, ExpireGood DEF Listed
  <2>2. now + TTL \in Nat
    BY Frame, ConstantsAssumption
  <2> QED
    BY <2>1, <2>2 DEF Record, CoherentRecord
<1>4. CASE Renew(w)
  <2>1. CASE \E r \in Requests :
                /\ RestartPending(r)
                /\ ListSection(w, "renew", r, [Listed[r] EXCEPT !.expires = now + TTL])
    BY <2>1, <1>3, ListStep
  <2>2. CASE \E r \in Requests : RestartPending(r) /\ ListSection(w, "renew", r, Listed[r])
    BY <2>2, <1>3, ListStep
  <2>3. CASE ListSection(w, "list", NoReq, NoReq)
    BY <2>3, ListStep
  <2>4. CASE ListSection(w, "renew", NoReq, NoReq)
    BY <2>4, ListStep
  <2> QED
    BY <1>4, <2>1, <2>2, <2>3, <2>4 DEF Renew
<1> QED
  BY <1>1, <1>2, <1>4

(* update(): the content to be written is the file with a coherent copy in  *)
(* it, stale or not.                                                        *)
LEMMA UpdateStep ==
    ASSUME CoherentInv, NEW w \in Workers, UpdateSection(w)
    PROVE  CoherentInv'
<1>1. Holding(w)
  BY DEF UpdateSection, CoherentInv, InHand
<1> DEFINE f == [file EXCEPT ![target[w]] = copy[w]]
<1>2. f \in [Requests -> Record \cup {NoReq}] /\ CoherentFile(f)
  BY <1>1, Frame DEF Holding, CoherentFile
<1> HIDE DEF f
<1>3. PICK p \in {"updatesave", "quietsave"} : pc' = Set(pc, w, p)
  BY DEF UpdateSection
<1>4. /\ snap' = Set(snap, w, f) /\ call' = Set(call, w, call[w])
      /\ target' = Set(target, w, target[w]) /\ copy' = Set(copy, w, copy[w])
      /\ UNCHANGED <<file, now, approvals, effects, audited>>
  BY DEF UpdateSection, Set, CoherentInv, TypeOK, f
<1>5. call[w] \in Calls /\ target[w] \in Requests /\ copy[w] \in Record
  BY <1>1 DEF CoherentInv, TypeOK, Holding
<1>6. InHand(w)'
  BY <1>1, <1>3, <1>4 DEF InHand, Holding, Set, CoherentInv, TypeOK
<1> QED
  BY <1>2, <1>3, <1>4, <1>5, <1>6, Frame, LocalStep DEF PCs

(* The write itself: a coherent content replaces the file.                  *)
LEMMA SaveStep ==
    ASSUME CoherentInv, NEW w \in Workers, Save(w)
    PROVE  CoherentInv'
<1>1. file' \in [Requests -> Record \cup {NoReq}] /\ CoherentFile(file')
  BY DEF Save, CoherentInv, TypeOK
<1>2. Empty \in [Requests -> Record \cup {NoReq}] /\ CoherentFile(Empty)
  BY DEF Empty, CoherentFile
<1>3. AfterSave(w) \in {"check", "audit", "return", "create", "update", "get"}
  BY DEF AfterSave, Save, Saving, CoherentInv, InHand
<1>4. PICK c \in {call[w], "cancel"} :
         /\ call' = Set(call, w, c)
         /\ c # call[w] => pc[w] \in Saving /\ call[w] = "obsolete"
         /\ call[w] = "obsolete" => c = "cancel"
  BY DEF Save, Set, CoherentInv, TypeOK
<1>5. /\ pc' = Set(pc, w, AfterSave(w)) /\ snap' = Set(snap, w, Empty)
      /\ target' = Set(target, w, target[w]) /\ copy' = Set(copy, w, copy[w])
      /\ UNCHANGED <<now, effects, audited>>
  BY DEF Save, Set, CoherentInv, TypeOK
<1>6. approvals' \in [Requests -> Nat]
  <2>1. CASE call[w] = "approve" /\ pc[w] \in {"updatesave", "quietsave"}
    <3>1. target[w] \in Requests
      BY <2>1 DEF CoherentInv, InHand, Holding
    <3> QED
      BY <2>1, <3>1, Frame DEF Save
  <2>2. CASE ~(call[w] = "approve" /\ pc[w] \in {"updatesave", "quietsave"})
    BY <2>2, Frame DEF Save
  <2> QED
    BY <2>1, <2>2
<1>7. /\ call[w] \in Calls /\ "cancel" \in Calls
      /\ target[w] \in Requests \cup {NoReq} /\ copy[w] \in Record \cup {NoReq}
  BY DEF CoherentInv, TypeOK, Calls, Operations
<1>8. InHand(w)'
  <2>1. /\ pc'[w] = AfterSave(w) /\ call'[w] = c
        /\ target'[w] = target[w] /\ copy'[w] = copy[w]
    BY <1>4, <1>5 DEF Set, CoherentInv, TypeOK
  <2>2. InHand(w) /\ pc[w] \in Saving
    BY DEF CoherentInv, Save
  <2>3. AfterSave(w) \in {"check", "audit", "update"} => Holding(w)
    BY <2>2, ConstantsAssumption DEF AfterSave, InHand, Saving
  <2>4. AfterSave(w) = "get" => target[w] \in Requests
    BY <2>2 DEF AfterSave, InHand, Saving
  <2>5. AfterSave(w) = "return" => c \in {"list", "create"} \/ Holding(w)
    BY <1>4, <2>2 DEF AfterSave, InHand, Saving
  <2> QED
    BY <1>3, <2>1, <2>3, <2>4, <2>5 DEF InHand, Holding
<1>9. AfterSave(w) \in PCs
  BY <1>3 DEF PCs
<1> QED
  BY <1>1, <1>2, <1>4, <1>5, <1>6, <1>7, <1>8, <1>9, Frame, LocalStep

(* The remaining steps of a worker: refusals, returns and effects.          *)
LEMMA ReturnStep ==
    ASSUME CoherentInv, NEW w \in Workers, Return(w)
    PROVE  CoherentInv'
<1>1. InHand(w) /\ pc[w] \in {"audit", "return"}
  BY DEF CoherentInv, Return
<1>2. audited' \in [Requests -> Status \cup {"none"}]
  BY <1>1, Frame DEF Return, InHand, Holding, Record
<1>3. UNCHANGED <<file, now, approvals, effects>>
  BY DEF Return
<1>4. CASE Finish(w)
  BY <1>2, <1>3, <1>4, Frame, FinishStep
<1>5. CASE HasEffect(call[w], target[w]) /\ pc' = Set(pc, w, "effect")
           /\ UNCHANGED <<call, target, copy, snap>>
  <2>1. Holding(w)
    BY <1>1, <1>5 DEF InHand, HasEffect
  <2>2. /\ call' = Set(call, w, call[w]) /\ target' = Set(target, w, target[w])
        /\ copy' = Set(copy, w, copy[w]) /\ snap' = Set(snap, w, snap[w])
    BY <1>5 DEF Set, CoherentInv, TypeOK
  <2>3. /\ call[w] \in Calls /\ target[w] \in Requests /\ copy[w] \in Record
        /\ snap[w] \in [Requests -> Record \cup {NoReq}] /\ CoherentFile(snap[w])
    BY <2>1 DEF CoherentInv, TypeOK, Holding
  <2>4. InHand(w)'
    BY <1>5, <2>1 DEF InHand, Holding, HasEffect, Set, CoherentInv, TypeOK
  <2> QED
    BY <1>2, <1>3, <1>5, <2>2, <2>3, <2>4, Frame, LocalStep DEF PCs
<1> QED
  BY <1>4, <1>5 DEF Return

(* The sensitive action, and what the handler goes on to store.             *)
LEMMA CarryOutStep ==
    ASSUME CoherentInv, NEW w \in Workers, CarryOut(w)
    PROVE  CoherentInv'
<1>1. Holding(w) /\ HasEffect(call[w], target[w])
  BY DEF CarryOut, CoherentInv, InHand
<1>2. /\ effects' \in [Requests -> Nat]
      /\ UNCHANGED <<file, now, approvals, audited>>
  BY <1>1, Frame DEF CarryOut, Holding
<1>3. CASE Finish(w)
  BY <1>2, <1>3, Frame, FinishStep
<1>4. snap[w] \in [Requests -> Record \cup {NoReq}] /\ CoherentFile(snap[w])
      /\ target[w] \in Requests /\ copy[w] \in Record
  BY <1>1 DEF CoherentInv, TypeOK, Holding
<1>5. CASE /\ call' = Set(call, w, "consume") /\ pc' = Set(pc, w, "get")
           /\ UNCHANGED <<target, copy, snap>>
  <2>1. /\ target' = Set(target, w, target[w]) /\ copy' = Set(copy, w, copy[w])
        /\ snap' = Set(snap, w, snap[w])
    BY <1>5 DEF Set, CoherentInv, TypeOK
  <2>2. InHand(w)'
    BY <1>4, <1>5 DEF InHand, Set, CoherentInv, TypeOK
  <2> QED
    BY <1>2, <1>4, <1>5, <2>1, <2>2, Frame, LocalStep DEF PCs, Calls
<1>6. CASE call[w] = "submit"
  <2> DEFINE rec == [copy[w] EXCEPT !.sealed = FALSE, !.used = TRUE, !.status = "consumed"]
  <2>1. rec \in Record /\ CoherentRecord(target[w], rec)
    BY <1>1, <1>6, EditsGood DEF Holding, HasEffect
  <2>2. /\ call' = Set(call, w, "apply") /\ copy' = Set(copy, w, rec)
        /\ pc' = Set(pc, w, "update") /\ target' = Set(target, w, target[w])
        /\ snap' = Set(snap, w, snap[w])
    BY <1>6 DEF CarryOut, Set, CoherentInv, TypeOK
  <2> HIDE DEF rec
  <2>3. InHand(w)'
    BY <1>4, <2>1, <2>2 DEF InHand, Holding, Set, CoherentInv, TypeOK
  <2> QED
    BY <1>2, <1>4, <2>1, <2>2, <2>3, Frame, LocalStep DEF PCs, Calls
<1> QED
  BY <1>3, <1>5, <1>6 DEF CarryOut

(* The operations that refuse, and the first half of a click.               *)
LEMMA RefuseStep ==
    ASSUME CoherentInv, NEW w \in Workers,
           RefuseExpired(w) \/ VerifyApprovalScope(w) \/ Decline(w) \/ EffectFails(w)
    PROVE  CoherentInv'
<1>1. CASE Decline(w) \/ EffectFails(w)
  BY <1>1, Frame, FinishStep DEF Decline, EffectFails
<1>2. snap[w] \in [Requests -> Record \cup {NoReq}] /\ CoherentFile(snap[w])
  BY DEF CoherentInv, TypeOK
<1>3. CASE RefuseExpired(w)
  <2>1. Holding(w)
    BY <1>3 DEF RefuseExpired, CoherentInv, InHand
  <2> DEFINE rec == [copy[w] EXCEPT !.status = "expired"]
  <2>2. rec \in Record /\ CoherentRecord(target[w], rec) /\ target[w] \in Requests
    BY <2>1, ExpireGood DEF Holding
  <2>3. /\ call' = Set(call, w, "expire") /\ copy' = Set(copy, w, rec)
        /\ pc' = Set(pc, w, "update") /\ target' = Set(target, w, target[w])
        /\ snap' = Set(snap, w, snap[w])
        /\ UNCHANGED <<file, now, approvals, effects, audited>>
    BY <1>3 DEF RefuseExpired, Set, CoherentInv, TypeOK
  <2> HIDE DEF rec
  <2>4. InHand(w)'
    BY <2>2, <2>3 DEF InHand, Holding, Set, CoherentInv, TypeOK
  <2> QED
    BY <1>2, <2>2, <2>3, <2>4, Frame, LocalStep DEF PCs, Calls
<1>4. CASE VerifyApprovalScope(w)
  <2>1. Holding(w)
    BY <1>4 DEF VerifyApprovalScope, CoherentInv, InHand
  <2>2. CASE Finish(w)
    BY <1>4, <2>2, Frame, FinishStep DEF VerifyApprovalScope
  <2>3. CASE /\ pc' = Set(pc, w, "get") /\ call' = Set(call, w, "consume")
             /\ UNCHANGED <<target, copy, snap>>
    <3>1. /\ target' = Set(target, w, target[w]) /\ copy' = Set(copy, w, copy[w])
          /\ snap' = Set(snap, w, snap[w])
          /\ UNCHANGED <<file, now, approvals, effects, audited>>
      BY <1>4, <2>3 DEF VerifyApprovalScope, Set, CoherentInv, TypeOK
    <3>2. InHand(w)'
      BY <2>1, <2>3 DEF InHand, Holding, Set, CoherentInv, TypeOK
    <3> QED
      BY <1>2, <2>1, <2>3, <3>1, <3>2, Frame, LocalStep DEF PCs, Calls, Holding
  <2> QED
    BY <1>4, <2>2, <2>3 DEF VerifyApprovalScope
<1> QED
  BY <1>1, <1>3, <1>4

(* A dying process leaves the file and every other process alone.           *)
LEMMA CrashStep ==
    ASSUME CoherentInv, NEW w \in Workers, Crash(w)
    PROVE  CoherentInv'
<1>1. TypeOK'
  BY DEF Crash, CoherentInv, TypeOK, PCs, Calls, Empty
<1>2. CoherentFile(file')
  BY DEF Crash, CoherentInv
<1>3. ASSUME NEW v \in Workers PROVE CoherentFile(snap'[v]) /\ InHand(v)'
  <2>1. CASE ProcessOf[v] = ProcessOf[w]
    <3>1. pc'[v] = "idle" /\ snap'[v] = Empty
      BY <2>1 DEF Crash, CoherentInv, TypeOK
    <3> QED
      BY <3>1 DEF InHand, CoherentFile, Empty
  <2>2. CASE ProcessOf[v] # ProcessOf[w]
    <3>1. /\ pc'[v] = pc[v] /\ call'[v] = call[v] /\ target'[v] = target[v]
          /\ copy'[v] = copy[v] /\ snap'[v] = snap[v]
      BY <2>2 DEF Crash, CoherentInv, TypeOK
    <3>2. InHand(v) /\ CoherentFile(snap[v])
      BY DEF CoherentInv
    <3> QED
      BY <3>1, <3>2 DEF InHand, Holding, HasEffect
  <2> QED
    BY <2>1, <2>2
<1> QED
  BY <1>1, <1>2, <1>3 DEF CoherentInv

-----------------------------------------------------------------------------
(* An empty file and idle workers.                                          *)
LEMMA InitCoherent == Init => CoherentInv
  BY DEF Init, CoherentInv, TypeOK, CoherentFile, InHand, Empty, PCs, Calls

(* One case per action of Next.                                             *)
LEMMA NextCoherent == CoherentInv /\ [Next]_vars => CoherentInv'
<1> SUFFICES ASSUME CoherentInv, [Next]_vars PROVE CoherentInv'
  OBVIOUS
<1>1. CASE UNCHANGED vars
  BY <1>1 DEF vars, CoherentInv, TypeOK, CoherentFile, InHand, Holding, HasEffect
<1>2. CASE Tick
  BY <1>2 DEF Tick, CoherentInv, TypeOK, CoherentFile, InHand, Holding, HasEffect
<1>3. ASSUME NEW w \in Workers, Step(w) PROVE CoherentInv'
  <2>1. CASE Start(w)
    BY <2>1, GetStep, ConstantsAssumption DEF Start, Calls
  <2>2. CASE GetAgain(w)
    <3>1. target[w] \in Requests /\ call[w] \in Calls
      BY <2>2 DEF GetAgain, CoherentInv, InHand, TypeOK
    <3>2. CASE GetSection(w, call[w], target[w])
      BY <2>2, <3>1, <3>2, GetStep DEF GetAgain
    <3>3. CASE Finish(w)
      BY <2>2, <3>3, Frame, FinishStep DEF GetAgain
    <3> QED
      BY <2>2, <3>2, <3>3 DEF GetAgain
  <2>3. CASE Create(w)
    BY <2>3, CreateStep DEF Create
  <2>4. CASE CreateRestart(w)
    <3>1. CASE Finish(w)
      BY <2>4, <3>1, Frame, FinishStep DEF CreateRestart
    <3>2. CASE \E r \in Requests : CreateSection(w, r)
      BY <2>4, <3>2, CreateStep DEF CreateRestart
    <3> QED
      BY <2>4, <3>1, <3>2 DEF CreateRestart
  <2>5. CASE List(w) \/ Renew(w) \/ CancelObsolete(w)
    BY <2>5, RenewStep
  <2>6. CASE \/ SubmitCiphertext(w) \/ Approve(w) \/ Deny(w) \/ Cancel(w)
             \/ MarkChallengeCompleted(w) \/ ReleaseTakeover(w) \/ RecordTakeoverFrame(w)
             \/ ConsumeApproval(w)
    BY <2>6, AcceptsStep
  <2>7. CASE RefuseExpired(w) \/ VerifyApprovalScope(w) \/ Decline(w) \/ EffectFails(w)
    BY <2>7, RefuseStep
  <2>8. CASE UpdateSection(w)
    BY <2>8, UpdateStep
  <2>9. CASE Save(w)
    BY <2>9, SaveStep
  <2>10. CASE Return(w)
    BY <2>10, ReturnStep
  <2>11. CASE CarryOut(w)
    BY <2>11, CarryOutStep
  <2>12. CASE Crash(w)
    BY <2>12, CrashStep
  <2> QED
    BY <1>3, <2>1, <2>2, <2>3, <2>4, <2>5, <2>6, <2>7, <2>8, <2>9, <2>10, <2>11, <2>12
       DEF Step
<1> QED
  BY <1>1, <1>2, <1>3 DEF Next

(* The inductive invariant is an invariant.                                 *)
LEMMA CoherentInvariant == Spec => []CoherentInv
<1>1. Init => CoherentInv
  BY InitCoherent
<1>2. CoherentInv /\ [Next]_vars => CoherentInv'
  BY NextCoherent
<1> QED
  BY <1>1, <1>2, PTL DEF Spec

(* Every variable keeps its type: a worker never stores or audits a request *)
(* it does not hold, in any interleaving of any number of workers.          *)
THEOREM TypeCorrect == Spec => []TypeOK
<1>1. CoherentInv => TypeOK
  BY DEF CoherentInv
<1> QED
  BY <1>1, CoherentInvariant, PTL

(* No stored request ever mixes two outcomes (Coherent), for any number of  *)
(* workers in any number of processes, with stale writes and crashes.       *)
THEOREM RequestsCoherent == Spec => []Coherent
<1>1. CoherentInv => Coherent
  BY DEF CoherentInv, Coherent
<1> QED
  BY <1>1, CoherentInvariant, PTL
=============================================================================
