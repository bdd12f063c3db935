------------------------ MODULE RequestPaymentProofs ------------------------
(***************************************************************************)
(* What approvals pay for.  When the callers of the store share one        *)
(* process and one of them clicks, every click is paid for by an approval  *)
(* of its own.  When calls do not overlap, an approval releases one click, *)
(* the audit log names the stored outcome, and the store implements        *)
(* RequestLifecycle.                                                       *)
(***************************************************************************)
EXTENDS RequestStoreProofs

(* A step that changes the locals of one worker only.                       *)
OnlyLocals(w, p, c, t, d, f) ==
    /\ pc' = Set(pc, w, p) /\ call' = Set(call, w, c) /\ target' = Set(target, w, t)
    /\ copy' = Set(copy, w, d) /\ snap' = Set(snap, w, f)
    /\ UNCHANGED <<file, approvals, effects>>

(* Such a step keeps the invariant when the worker's new locals agree with  *)
(* the file, and when it enters a locked section only with the lock free.   *)
LEMMA LocalPaid ==
    ASSUME SingleProcess, CoherentInv, PaidInv, NEW w \in Workers,
           NEW p, NEW c, NEW t, NEW d, NEW f, OnlyLocals(w, p, c, t, d, f),
           p \in Saving => LockFree(w),
           PendingWrite(w)', ClickCalls(w)',
           \A r \in Requests : TypeOf[r] = "approval" =>
              /\ Released(w, r)' => Released(w, r)
              /\ Consuming(w, r)' => Consuming(w, r) \/ effects[r] < approvals[r]
    PROVE  PaidInv'
<1>1. ASSUME NEW v \in Workers, v # w
      PROVE  /\ pc'[v] = pc[v] /\ call'[v] = call[v] /\ target'[v] = target[v]
             /\ copy'[v] = copy[v] /\ snap'[v] = snap[v]
  BY <1>1 DEF OnlyLocals, Set, CoherentInv, TypeOK
<1>2. file' = file /\ approvals' = approvals /\ effects' = effects
  BY DEF OnlyLocals
<1>3. ASSUME NEW v \in Workers PROVE ClickCalls(v)'
  <2>1. CASE v = w
    BY <2>1
  <2>2. CASE v # w
    BY <2>2, <1>1 DEF PaidInv, ClickCalls
  <2> QED
    BY <2>1, <2>2
<1>4. ASSUME NEW v \in Workers PROVE PendingWrite(v)'
  <2>1. CASE v = w
    BY <2>1
  <2>2. CASE v # w
    <3>1. PendingWrite(v)
      BY DEF PaidInv
    <3>2. pc[v] \in Saving => p \notin Saving
      BY DEF LockFree, SingleProcess
    <3>3. pc'[w] = p
      BY DEF OnlyLocals, Set, CoherentInv, TypeOK
    <3>4. ASSUME pc[v] \in Saving, NEW u \in Workers, pc'[u] \in Saving PROVE u = v
      BY <1>1, <3>1, <3>2, <3>3, <3>4 DEF PendingWrite
    <3> QED
      BY <1>1, <1>2, <2>2, <3>1, <3>4 DEF PendingWrite, Has
  <2> QED
    BY <2>1, <2>2
<1>5. ASSUME NEW r \in Requests, TypeOf[r] = "approval" PROVE PaidRequest(r)'
  <2>1. PaidRequest(r)
    BY <1>5 DEF PaidInv
  <2>2. ASSUME NEW v \in Workers
        PROVE  /\ Released(v, r)' => Released(v, r)
               /\ Consuming(v, r)' => Consuming(v, r) \/ effects[r] < approvals[r]
    <3>1. CASE v = w
      BY <3>1, <1>5
    <3>2. CASE v # w
      BY <3>2, <1>1 DEF Released, Consuming
    <3> QED
      BY <3>1, <3>2
  <2> QED
    BY <1>2, <2>1, <2>2 DEF PaidRequest, Has
<1> QED
  BY <1>3, <1>4, <1>5 DEF PaidInv

(* A worker whose call ends has no part in the invariant any more.          *)
LEMMA FinishPaid ==
    ASSUME SingleProcess, CoherentInv, PaidInv, NEW w \in Workers, Finish(w),
           UNCHANGED <<file, approvals, effects>>
    PROVE  PaidInv'
<1>1. OnlyLocals(w, "idle", "none", NoReq, NoReq, Empty)
  BY DEF OnlyLocals, Finish
<1>2. pc'[w] = "idle" /\ "idle" \notin Saving
  BY DEF Finish, Set, CoherentInv, TypeOK, Saving
<1>3. /\ PendingWrite(w)' /\ ClickCalls(w)'
      /\ \A r \in Requests : ~Released(w, r)' /\ ~Consuming(w, r)'
  BY <1>2 DEF PendingWrite, ClickCalls, Released, Consuming
<1> QED
  BY <1>1, <1>2, <1>3, LocalPaid

(* A copy handed out by get() is approved only if the file says so.         *)
LEMMA ExpiredOrSame ==
    ASSUME NEW rec \in Record, ExpireIfNeeded(rec) # rec
    PROVE  ExpireIfNeeded(rec).status = "expired"
  BY DEF ExpireIfNeeded, Record

(* list() neither drops a request nor approves one.                         *)
LEMMA ListedStatus ==
    ASSUME CoherentInv, NEW r \in Requests
    PROVE  /\ file[r] # NoReq <=> Listed[r] # NoReq
           /\ Has(Listed, r, "approved") => Has(file, r, "approved")
<1>1. Listed[r] = ExpireIfNeeded(file[r])
  BY DEF Listed
<1>2. CASE file[r] = NoReq
  BY <1>1, <1>2, ExpireNothing DEF Has
<1>3. CASE file[r] # NoReq
  <2>1. file[r] \in Record /\ Listed[r] \in Record
    BY <1>1, <1>3, Frame, ExpireGood DEF CoherentFile
  <2>2. Listed[r] # NoReq
    BY <2>1, ConstantsAssumption
  <2>3. Listed[r].status = "approved" => Listed[r] = file[r]
    BY <1>1, <2>1, ExpiredOrSame
  <2> QED
    BY <1>3, <2>2, <2>3 DEF Has
<1> QED
  BY <1>2, <1>3

(* get() hands out what the file says, or expires it.                       *)
LEMMA GetPaid ==
    ASSUME SingleProcess, CoherentInv, PaidInv, NEW w \in Workers, pc[w] \in {"idle", "get"},
           NEW c \in Calls, NEW r \in Requests,
           TypeOf[r] = "approval" => c # "renew",
           TypeOf[r] = "approval" /\ c \in {"click", "consume"} => "click" \in Allowed[w],
           GetSection(w, c, r), UNCHANGED <<file, approvals, effects>>
    PROVE  PaidInv'
<1> DEFINE rec == ExpireIfNeeded(file[r])
           g == [file EXCEPT ![r] = rec]
<1>1. file[r] \in Record /\ rec \in Record /\ rec # NoReq
  <2>1. file[r] \in Record /\ CoherentRecord(r, file[r])
    BY Frame DEF GetSection, CoherentFile
  <2>2. rec \in Record
    BY <2>1, ExpireGood
  <2> QED
    BY <2>1, <2>2, ConstantsAssumption
<1>2. rec # file[r] => rec.status = "expired"
  BY <1>1, ExpiredOrSame
<1>3. PICK p \in {"check", "getsave"}, f \in {snap[w], g} :
         /\ pc' = Set(pc, w, p) /\ snap' = Set(snap, w, f)
         /\ p = "check" => rec = file[r]
         /\ p = "getsave" => f = g /\ rec # file[r]
  BY DEF GetSection, Set, CoherentInv, TypeOK
<1>4. OnlyLocals(w, p, c, r, rec, f) /\ LockFree(w)
  BY <1>3 DEF OnlyLocals, GetSection
<1> HIDE DEF rec
<1>5. /\ pc'[w] = p /\ call'[w] = c /\ target'[w] = r /\ copy'[w] = rec /\ snap'[w] = f
      /\ file' = file /\ approvals' = approvals /\ effects' = effects
  BY <1>4 DEF OnlyLocals, Set, CoherentInv, TypeOK
<1>6. \A v \in Workers : pc'[v] \in Saving => v = w
  BY <1>3, <1>4 DEF LockFree, SingleProcess, Set, CoherentInv, TypeOK
<1>7. PendingWrite(w)'
  <2>1. CASE p = "check"
    BY <2>1, <1>5 DEF PendingWrite, Saving
  <2>2. CASE p = "getsave"
    <3>1. f = g /\ rec.status = "expired"
      BY <2>2, <1>2, <1>3
    <3>2. ASSUME NEW q \in Requests
          PROVE  /\ file[q] # NoReq => f[q] # NoReq
                 /\ Has(f, q, "approved") => Has(file, q, "approved")
      BY <3>1, <1>1, Frame DEF Has
    <3> QED
      BY <2>2, <1>5, <1>6, <3>2 DEF PendingWrite, Has
  <2> QED
    BY <2>1, <2>2
<1>8. ClickCalls(w)'
  BY <1>2, <1>3, <1>5 DEF ClickCalls
<1>9. ASSUME NEW q \in Requests, TypeOf[q] = "approval"
      PROVE  /\ ~Released(w, q)'
             /\ Consuming(w, q)' => effects[q] < approvals[q]
  <2>1. ~Released(w, q)'
    BY <1>5 DEF Released
  <2>2. ASSUME Consuming(w, q)' PROVE effects[q] < approvals[q]
    <3>1. q = r /\ p = "check" /\ rec.status = "approved"
      BY <2>2, <1>5 DEF Consuming
    <3>2. Has(file, q, "approved")
      BY <3>1, <1>1, <1>3, ConstantsAssumption DEF Has
    <3> QED
      BY <3>2, <1>9 DEF PaidInv, PaidRequest
  <2> QED
    BY <2>1, <2>2
<1> QED
  BY <1>4, <1>7, <1>8, <1>9, LocalPaid

(* create() adds a request that is not approved.                            *)
LEMMA CreatePaid ==
    ASSUME SingleProcess, CoherentInv, PaidInv, NEW w \in Workers, NEW r \in Requests,
           CreateSection(w, r), UNCHANGED <<file, approvals, effects>>
    PROVE  PaidInv'
<1> DEFINE f == [file EXCEPT ![r] = NewRequest(r)]
<1>1. OnlyLocals(w, "createsave", "create", r, copy[w], f) /\ LockFree(w)
  BY DEF CreateSection, OnlyLocals, Set, CoherentInv, TypeOK
<1>2. NewRequest(r) \in Record /\ NewRequest(r).status # "approved" /\ NewRequest(r) # NoReq
  BY Frame, NewRequestGood, ConstantsAssumption DEF NewRequest
<1>3. \A q \in Requests : /\ file[q] # NoReq => f[q] # NoReq
                          /\ Has(f, q, "approved") => Has(file, q, "approved")
  BY <1>2, Frame DEF Has
<1> HIDE DEF f
<1>4. /\ pc'[w] = "createsave" /\ call'[w] = "create" /\ target'[w] = r /\ snap'[w] = f
      /\ file' = file
  BY <1>1 DEF OnlyLocals, Set, CoherentInv, TypeOK
<1>5. \A v \in Workers : pc'[v] \in Saving => v = w
  BY <1>1 DEF OnlyLocals, LockFree, SingleProcess, Set, CoherentInv, TypeOK
<1>6. PendingWrite(w)' /\ ClickCalls(w)'
  BY <1>3, <1>4, <1>5 DEF PendingWrite, ClickCalls, Has
<1>7. \A q \in Requests : ~Released(w, q)' /\ ~Consuming(w, q)'
  BY <1>4 DEF Released, Consuming
<1> QED
  BY <1>1, <1>6, <1>7, LocalPaid

(* list() enters its locked section with the listing as pending write.      *)
LEMMA ListPaid ==
    ASSUME SingleProcess, CoherentInv, PaidInv, NEW w \in Workers,
           NEW c \in {"list", "renew", "obsolete"}, NEW r, NEW rec, ListSection(w, c, r, rec),
           r = NoReq \/ TypeOf[r] = "restart"
    PROVE  PaidInv'
<1>1. OnlyLocals(w, "listsave", c, r, rec, Listed) /\ LockFree(w)
  BY DEF ListSection, OnlyLocals
<1>2. /\ pc'[w] = "listsave" /\ call'[w] = c /\ target'[w] = r /\ snap'[w] = Listed
      /\ file' = file
  BY <1>1 DEF OnlyLocals, Set, CoherentInv, TypeOK
<1>3. \A v \in Workers : pc'[v] \in Saving => v = w
  BY <1>1 DEF OnlyLocals, LockFree, SingleProcess, Set, CoherentInv, TypeOK
<1>4. PendingWrite(w)'
  BY <1>2, <1>3, ListedStatus DEF PendingWrite, Has
<1>5. ClickCalls(w)'
  BY <1>2, ConstantsAssumption DEF ClickCalls
<1>6. \A q \in Requests : ~Released(w, q)' /\ ~Consuming(w, q)'
  BY <1>2 DEF Released, Consuming
<1> QED
  BY <1>1, <1>4, <1>5, <1>6, LocalPaid

(* An accepting operation puts "approved" in its copy only if it approves.  *)
LEMMA AcceptPaid ==
    ASSUME SingleProcess, CoherentInv, PaidInv, NEW w \in Workers, NEW c, NEW rec,
           Accept(w, c, rec),
           TypeOf[target[w]] = "approval" /\ c # "approve" => rec.status # "approved"
    PROVE  PaidInv'
<1>1. OnlyLocals(w, "update", c, target[w], rec, snap[w])
  BY DEF Accept, OnlyLocals, Set, CoherentInv, TypeOK
<1>2. /\ pc'[w] = "update" /\ call'[w] = c /\ target'[w] = target[w] /\ copy'[w] = rec
  BY <1>1 DEF OnlyLocals, Set, CoherentInv, TypeOK
<1>3. PendingWrite(w)' /\ "update" \notin Saving
  BY <1>2 DEF PendingWrite, Saving
<1>4. ClickCalls(w)'
  BY <1>2 DEF ClickCalls, PaidInv, Accept, Accepts
<1>5. ASSUME NEW r \in Requests
      PROVE  /\ Released(w, r)' => Released(w, r)
             /\ Consuming(w, r)' => Consuming(w, r)
  BY <1>2 DEF Released, Consuming, Accept, Accepts
<1> QED
  BY <1>1, <1>3, <1>4, <1>5, LocalPaid

(* The eight operations that accept.                                        *)
LEMMA AcceptsPaid ==
    ASSUME SingleProcess, CoherentInv, PaidInv, NEW w \in Workers,
           \/ SubmitCiphertext(w) \/ Approve(w) \/ Deny(w) \/ Cancel(w)
           \/ MarkChallengeCompleted(w) \/ ReleaseTakeover(w) \/ RecordTakeoverFrame(w)
           \/ ConsumeApproval(w)
    PROVE  PaidInv'
<1>1. pc[w] = "check" => copy[w] \in Record
  BY DEF CoherentInv, InHand, Holding
<1>2. CASE SubmitCiphertext(w)
  BY <1>1, <1>2, AcceptPaid DEF SubmitCiphertext, Accept, Record
<1>3. CASE Approve(w)
  BY <1>3, AcceptPaid DEF Approve
<1>4. CASE Deny(w)
  BY <1>1, <1>4, AcceptPaid DEF Deny, Accept, Record
<1>5. CASE Cancel(w)
  BY <1>1, <1>5, AcceptPaid DEF Cancel, Accept, Record
<1>6. CASE MarkChallengeCompleted(w)
  BY <1>1, <1>6, AcceptPaid DEF MarkChallengeCompleted, Accept, Record
<1>7. CASE ReleaseTakeover(w)
  BY <1>1, <1>7, AcceptPaid DEF ReleaseTakeover, Accept, Record
<1>8. CASE RecordTakeoverFrame(w)
  BY <1>8, AcceptPaid DEF RecordTakeoverFrame, Accept, Accepts
<1>9. CASE ConsumeApproval(w)
  BY <1>1, <1>9, AcceptPaid DEF ConsumeApproval, Accept, Record
<1> QED
  BY <1>2, <1>3, <1>4, <1>5, <1>6, <1>7, <1>8, <1>9

(* Refusals end the call, store "expired", or go on to consume.             *)
LEMMA RefusePaid ==
    ASSUME SingleProcess, CoherentInv, PaidInv, NEW w \in Workers,
           RefuseExpired(w) \/ VerifyApprovalScope(w) \/ Decline(w) \/ EffectFails(w)
    PROVE  PaidInv'
<1>1. CASE Finish(w) /\ UNCHANGED <<file, approvals, effects>>
  BY <1>1, FinishPaid
<1>2. CASE RefuseExpired(w)
  <2> DEFINE rec == [copy[w] EXCEPT !.status = "expired"]
  <2>1. copy[w] \in Record /\ rec.status = "expired"
    BY <1>2 DEF RefuseExpired, CoherentInv, InHand, Holding, Record
  <2> HIDE DEF rec
  <2>2. OnlyLocals(w, "update", "expire", target[w], rec, snap[w])
    BY <1>2 DEF RefuseExpired, OnlyLocals, Set, CoherentInv, TypeOK, rec
  <2>3. pc'[w] = "update" /\ call'[w] = "expire" /\ target'[w] = target[w] /\ copy'[w] = rec
    BY <2>2 DEF OnlyLocals, Set, CoherentInv, TypeOK
  <2>4. PendingWrite(w)' /\ ClickCalls(w)' /\ "update" \notin Saving
    BY <2>1, <2>3 DEF PendingWrite, ClickCalls, Saving
  <2>5. \A r \in Requests : ~Released(w, r)' /\ ~Consuming(w, r)'
    BY <2>3 DEF Released, Consuming
  <2> QED
    BY <2>2, <2>4, <2>5, LocalPaid
<1>3. CASE VerifyApprovalScope(w) /\ ~Finish(w)
  <2>1. OnlyLocals(w, "get", "consume", target[w], copy[w], snap[w]) /\ pc[w] = "check" /\ call[w] = "click"
    BY <1>3 DEF VerifyApprovalScope, OnlyLocals, Set, CoherentInv, TypeOK
  <2>2. pc'[w] = "get" /\ call'[w] = "consume" /\ target'[w] = target[w]
    BY <2>1 DEF OnlyLocals, Set, CoherentInv, TypeOK
  <2>3. PendingWrite(w)' /\ ClickCalls(w)' /\ "get" \notin Saving
    BY <2>1, <2>2 DEF PendingWrite, ClickCalls, Saving, PaidInv
  <2>4. \A r \in Requests : ~Released(w, r)' /\ ~Consuming(w, r)'
    BY <2>2 DEF Released, Consuming
  <2> QED
    BY <2>1, <2>3, <2>4, LocalPaid
<1> QED
  BY <1>1, <1>2, <1>3 DEF VerifyApprovalScope, Decline, EffectFails

(* update() enters its locked section with its copy in the pending write.   *)
LEMMA UpdatePaid ==
    ASSUME SingleProcess, CoherentInv, PaidInv, NEW w \in Workers, UpdateSection(w)
    PROVE  PaidInv'
<1> DEFINE f == [file EXCEPT ![target[w]] = copy[w]]
<1>1. target[w] \in Requests /\ copy[w] \in Record /\ copy[w] # NoReq
  BY ConstantsAssumption DEF UpdateSection, CoherentInv, InHand, Holding
<1>2. /\ f[target[w]] = copy[w]
      /\ \A r \in Requests : r # target[w] => f[r] = file[r]
  BY <1>1, Frame
<1>3. PICK p \in {"updatesave", "quietsave"} : pc' = Set(pc, w, p)
  BY DEF UpdateSection
<1>4. OnlyLocals(w, p, call[w], target[w], copy[w], f) /\ LockFree(w)
  BY <1>3 DEF UpdateSection, OnlyLocals, Set, CoherentInv, TypeOK
<1> HIDE DEF f
<1>5. /\ pc'[w] = p /\ call'[w] = call[w] /\ target'[w] = target[w] /\ copy'[w] = copy[w]
      /\ snap'[w] = f /\ file' = file
  BY <1>4 DEF OnlyLocals, Set, CoherentInv, TypeOK
<1>6. \A v \in Workers : pc'[v] \in Saving => v = w
  BY <1>4 DEF OnlyLocals, LockFree, SingleProcess, Set, CoherentInv, TypeOK
<1>7. PendingWrite(w)'
  BY <1>1, <1>2, <1>5, <1>6 DEF PendingWrite, Has
<1>8. ClickCalls(w)'
  BY <1>5 DEF ClickCalls, PaidInv, UpdateSection
<1>9. ASSUME NEW r \in Requests
      PROVE  /\ Released(w, r)' => Released(w, r)
             /\ Consuming(w, r)' => Consuming(w, r)
  BY <1>5 DEF Released, Consuming, UpdateSection
<1> QED
  BY <1>4, <1>7, <1>8, <1>9, LocalPaid

(* The write takes effect: it approves a request only in approve(), which   *)
(* counts, and it releases a click only for a worker that was consuming.    *)
LEMMA SavePaid ==
    ASSUME SingleProcess, CoherentInv, PaidInv, NEW w \in Workers, Save(w)
    PROVE  PaidInv'
<1>1. /\ PendingWrite(w) /\ pc[w] \in Saving /\ file' = snap[w] /\ effects' = effects
      /\ target' = target /\ copy' = copy
  BY DEF PaidInv, Save
<1>2. ASSUME NEW v \in Workers, v # w
      PROVE  pc'[v] = pc[v] /\ call'[v] = call[v] /\ pc[v] \notin Saving
  BY <1>1, <1>2 DEF PendingWrite, Save, Set, CoherentInv, TypeOK
<1>3. InHand(w) /\ pc'[w] = AfterSave(w)
  BY DEF CoherentInv, Save, Set, TypeOK
<1>4. /\ pc[w] = "getsave" => pc'[w] = "check"
      /\ pc[w] = "updatesave" => pc'[w] = "audit"
      /\ pc[w] = "quietsave" => pc'[w] = "return"
      /\ pc[w] = "createsave" => pc'[w] = "return" /\ call[w] = "create"
      /\ pc[w] = "listsave" => \/ call[w] = "renew" /\ pc'[w] \in {"create", "update"}
                               \/ call[w] = "obsolete" /\ pc'[w] = "get"
                               \/ call[w] = "list" /\ pc'[w] = "return"
  BY <1>3 DEF AfterSave, InHand
<1>5. call'[w] = call[w] \/ call'[w] = "cancel"
  BY DEF Save, Set, CoherentInv, TypeOK
<1>6. pc'[w] \notin Saving
  BY <1>1, <1>4 DEF Saving
<1>7. ASSUME NEW v \in Workers PROVE PendingWrite(v)'
  BY <1>2, <1>6 DEF PendingWrite
<1>8. ASSUME NEW v \in Workers PROVE ClickCalls(v)'
  <2>1. ClickCalls(v) /\ target'[v] = target[v] /\ copy'[v] = copy[v]
    BY <1>1 DEF PaidInv
  <2>2. CASE v # w
    BY <2>1, <2>2, <1>2 DEF ClickCalls
  <2>3. CASE v = w
    BY <2>1, <2>3, <1>1, <1>4, <1>5 DEF ClickCalls, Saving
  <2> QED
    BY <2>2, <2>3
<1>9. ASSUME NEW r \in Requests, TypeOf[r] = "approval" PROVE PaidRequest(r)'
  <2>1. PaidRequest(r) /\ ClickCalls(w)
    BY <1>9 DEF PaidInv
  <2>2. ASSUME NEW v \in Workers, v # w
        PROVE  /\ Released(v, r)' <=> Released(v, r)
               /\ Consuming(v, r)' <=> Consuming(v, r)
    BY <1>1, <1>2, <2>2 DEF Released, Consuming
  <2>3. Consuming(w, r)' => FALSE
    BY <1>1, <1>4, <1>5, <1>9, <2>1 DEF Consuming, ClickCalls, Saving
  <2>4. Released(w, r)' => Consuming(w, r) /\ pc[w] \in {"updatesave", "quietsave"}
    BY <1>1, <1>4, <1>5 DEF Released, Consuming, Saving
  <2>5. approvals[r] \in Nat /\ effects[r] \in Nat
    BY Frame
  <2>6. CASE call[w] = "approve" /\ pc[w] \in {"updatesave", "quietsave"} /\ target[w] = r
    <3>1. approvals'[r] = approvals[r] + 1
      BY <2>6, Frame DEF Save
    <3>2. ~Released(w, r)'
      BY <2>4, <2>6 DEF Consuming
    <3>3. effects[r] <= approvals[r] /\ \A v \in Workers : Released(v, r) => effects[r] < approvals[r]
      BY <2>1 DEF PaidRequest
    <3>4. effects'[r] < approvals'[r]
      BY <1>1, <2>5, <3>1, <3>3
    <3>5. ASSUME NEW v \in Workers, Released(v, r)' PROVE effects'[r] + 1 < approvals'[r]
      BY <1>1, <2>2, <2>5, <3>1, <3>2, <3>3, <3>5
    <3> QED
      BY <2>5, <3>1, <3>4, <3>5, <1>1 DEF PaidRequest
  <2>7. CASE ~(call[w] = "approve" /\ pc[w] \in {"updatesave", "quietsave"} /\ target[w] = r)
    <3>1. approvals'[r] = approvals[r] /\ effects'[r] = effects[r]
      BY <1>1, <2>7, Frame DEF Save
    <3>2. Has(file', r, "approved") =>
             /\ Has(file, r, "approved")
             /\ ~(pc[w] \in {"updatesave", "quietsave"} /\ target[w] = r)
      BY <1>1, <1>9, <2>1, <2>7 DEF PendingWrite, ClickCalls, Has
    <3>3. ASSUME NEW v \in Workers
          PROVE  /\ Released(v, r)' => effects[r] < approvals[r]
                 /\ Consuming(v, r)' => effects[r] < approvals[r]
                 /\ Released(v, r)' /\ Has(file', r, "approved") => effects[r] + 1 < approvals[r]
      <4>1. CASE v # w
        BY <4>1, <2>1, <2>2, <3>2 DEF PaidRequest
      <4>2. CASE v = w
        BY <4>2, <2>1, <2>3, <2>4, <3>2 DEF PaidRequest, Consuming
      <4> QED
        BY <4>1, <4>2
    <3> QED
      BY <2>1, <3>1, <3>2, <3>3 DEF PaidRequest, Has
  <2> QED
    BY <2>6, <2>7
<1> QED
  BY <1>7, <1>8, <1>9 DEF PaidInv

(* A released click stays released until it is carried out.                 *)
LEMMA ReturnPaid ==
    ASSUME SingleProcess, CoherentInv, PaidInv, NEW w \in Workers, Return(w)
    PROVE  PaidInv'
<1>1. CASE Finish(w)
  BY <1>1, FinishPaid DEF Return
<1>2. CASE pc' = Set(pc, w, "effect") /\ UNCHANGED <<call, target, copy, snap>>
  <2>1. OnlyLocals(w, "effect", call[w], target[w], copy[w], snap[w])
    BY <1>2 DEF Return, OnlyLocals, Set, CoherentInv, TypeOK
  <2>2. pc'[w] = "effect" /\ call'[w] = call[w] /\ target'[w] = target[w]
    BY <2>1 DEF OnlyLocals, Set, CoherentInv, TypeOK
  <2>3. PendingWrite(w)' /\ ClickCalls(w)' /\ "effect" \notin Saving
    BY <2>2 DEF PendingWrite, ClickCalls, Saving, PaidInv, Return
  <2>4. \A r \in Requests : (Released(w, r)' => Released(w, r)) /\ ~Consuming(w, r)'
    BY <2>2 DEF Released, Consuming, Return
  <2> QED
    BY <2>1, <2>3, <2>4, LocalPaid
<1> QED
  BY <1>1, <1>2 DEF Return

(* A click spends the approval that paid for it; no other worker can have a *)
(* click on the same request under way, because only one worker clicks.     *)
LEMMA CarryOutPaid ==
    ASSUME SingleProcess, SingleClicker, CoherentInv, PaidInv, NEW w \in Workers, CarryOut(w)
    PROVE  PaidInv'
<1>1. /\ target[w] \in Requests /\ HasEffect(call[w], target[w]) /\ pc[w] = "effect"
      /\ file' = file /\ approvals' = approvals
      /\ effects' = [effects EXCEPT ![target[w]] = @ + 1]
  BY DEF CarryOut, CoherentInv, InHand, Holding
<1>2. ASSUME NEW v \in Workers, v # w
      PROVE  /\ pc'[v] = pc[v] /\ call'[v] = call[v] /\ target'[v] = target[v]
             /\ copy'[v] = copy[v] /\ snap'[v] = snap[v]
  BY <1>2 DEF CarryOut, Finish, Set, CoherentInv, TypeOK
<1>3. pc'[w] \in {"idle", "get", "update"} /\ pc'[w] \notin Saving
  BY DEF CarryOut, Finish, Set, CoherentInv, TypeOK, Saving
<1>4. TypeOf[target[w]] = "approval" => call[w] = "consume" /\ pc'[w] = "idle"
  BY <1>1 DEF HasEffect, CarryOut, Finish, Set, CoherentInv, TypeOK
<1>5. TypeOf[target[w]] # "approval" => target'[w] = target[w] \/ pc'[w] = "idle"
  BY DEF CarryOut, Finish, Set, CoherentInv, TypeOK
<1>6. ASSUME NEW v \in Workers PROVE PendingWrite(v)' /\ ClickCalls(v)'
  <2>1. CASE v = w
    BY <2>1, <1>3, <1>4, <1>5 DEF PendingWrite, ClickCalls
  <2>2. CASE v # w
    <3>1. PendingWrite(v) /\ ClickCalls(v)
      BY DEF PaidInv
    <3>2. ASSUME pc[v] \in Saving, NEW u \in Workers, pc'[u] \in Saving PROVE u = v
      BY <3>1, <3>2, <1>2, <1>3 DEF PendingWrite
    <3> QED
      BY <2>2, <1>1, <1>2, <3>1, <3>2 DEF PendingWrite, ClickCalls, Has
  <2> QED
    BY <2>1, <2>2
<1>7. ASSUME NEW r \in Requests, TypeOf[r] = "approval" PROVE PaidRequest(r)'
  <2>1. PaidRequest(r) /\ effects[r] \in Nat /\ approvals[r] \in Nat
    BY <1>7, Frame DEF PaidInv
  <2>2. ~Released(w, r)' /\ ~Consuming(w, r)'
    BY <1>3, <1>4, <1>5, <1>7 DEF Released, Consuming
  <2>3. ASSUME NEW v \in Workers, v # w
        PROVE  /\ Released(v, r)' => Released(v, r)
               /\ Consuming(v, r)' => Consuming(v, r)
    BY <1>2, <2>3 DEF Released, Consuming
  <2>4. CASE target[w] = r
    <3>1. Released(w, r) /\ "click" \in Allowed[w]
      BY <1>1, <1>4, <1>7, <2>4 DEF Released, PaidInv, ClickCalls
    <3>2. ASSUME NEW v \in Workers, Released(v, r) \/ Consuming(v, r) PROVE v = w
      BY <3>1, <3>2, <1>7 DEF Released, Consuming, PaidInv, ClickCalls, SingleClicker
    <3>3. effects'[r] = effects[r] + 1
      BY <1>1, <2>4, Frame
    <3>4. /\ effects[r] < approvals[r]
          /\ Has(file, r, "approved") => effects[r] + 1 < approvals[r]
      BY <2>1, <3>1 DEF PaidRequest
    <3>5. \A v \in Workers : ~Released(v, r)' /\ ~Consuming(v, r)'
      BY <2>2, <2>3, <3>2
    <3>6. effects'[r] <= approvals'[r]
      BY <1>1, <2>1, <3>3, <3>4
    <3> QED
      BY <1>1, <3>3, <3>4, <3>5, <3>6 DEF PaidRequest, Has
  <2>5. CASE target[w] # r
    <3>1. effects'[r] = effects[r] /\ approvals'[r] = approvals[r] /\ file' = file
      BY <1>1, <2>5, Frame
    <3>2. ASSUME NEW v \in Workers
          PROVE  /\ Released(v, r)' => Released(v, r)
                 /\ Consuming(v, r)' => Consuming(v, r)
      BY <2>2, <2>3
    <3> QED
      BY <2>1, <3>1, <3>2 DEF PaidRequest, Has
  <2> QED
    BY <2>4, <2>5
<1> QED
  BY <1>6, <1>7 DEF PaidInv

(* The process that dies is the only one: every worker is idle again.       *)
LEMMA CrashPaid ==
    ASSUME SingleProcess, CoherentInv, PaidInv, NEW w \in Workers, Crash(w)
    PROVE  PaidInv'
<1>1. \A v \in Workers : pc'[v] = "idle"
  BY DEF Crash, SingleProcess, CoherentInv, TypeOK
<1>2. file' = file /\ approvals' = approvals /\ effects' = effects
  BY DEF Crash
<1>3. \A v \in Workers : PendingWrite(v)' /\ ClickCalls(v)'
  BY <1>1 DEF PendingWrite, ClickCalls, Saving
<1>4. ASSUME NEW r \in Requests, TypeOf[r] = "approval" PROVE PaidRequest(r)'
  BY <1>1, <1>2, <1>4 DEF PaidInv, PaidRequest, Released, Consuming, Has
<1> QED
  BY <1>3, <1>4 DEF PaidInv

-----------------------------------------------------------------------------
(* The invariant holds at the start.                                        *)
LEMMA InitPaid == Init => PaidInv
<1> SUFFICES ASSUME Init PROVE PaidInv
  OBVIOUS
<1>1. \A w \in Workers : PendingWrite(w) /\ ClickCalls(w)
  BY DEF Init, PendingWrite, ClickCalls, Saving
<1>2. \A r \in Requests : PaidRequest(r)
  BY DEF Init, PaidRequest, Has, Empty, Released, Consuming
<1> QED
  BY <1>1, <1>2 DEF PaidInv

(* Every step keeps it.                                                     *)
LEMMA NextPaid ==
    ASSUME SingleProcess, SingleClicker, CoherentInv, PaidInv, [Next]_vars
    PROVE  PaidInv'
<1>1. CASE UNCHANGED <<file, pc, call, target, copy, snap, approvals, effects>>
  BY <1>1 DEF PaidInv, PaidRequest, PendingWrite, ClickCalls, Has, Released, Consuming
<1>2. ASSUME NEW w \in Workers, Step(w) PROVE PaidInv'
  <2>1. CASE Start(w)
    <3>1. PICK c \in Allowed[w] \ {"create", "list", "renew", "obsolete"}, r \in Requests :
             (c = "click" => TypeOf[r] = "approval") /\ GetSection(w, c, r)
      BY <2>1 DEF Start
    <3>2. c \in Calls /\ c # "renew" /\ (c \in {"click", "consume"} => "click" \in Allowed[w])
      BY ConstantsAssumption DEF Calls, Operations
    <3>3. pc[w] \in {"idle", "get"} /\ UNCHANGED <<file, approvals, effects>>
      BY <2>1 DEF Start
    <3> QED
      BY <3>1, <3>2, <3>3, GetPaid
  <2>2. CASE GetAgain(w)
    <3>1. target[w] \in Requests /\ call[w] \in Calls /\ pc[w] = "get"
      BY <2>2 DEF GetAgain, CoherentInv, InHand, TypeOK
    <3>2. CASE GetSection(w, call[w], target[w])
      BY <2>2, <3>1, <3>2, GetPaid DEF GetAgain, PaidInv, ClickCalls
    <3>3. CASE Finish(w)
      BY <2>2, <3>3, FinishPaid DEF GetAgain
    <3> QED
      BY <2>2, <3>2, <3>3 DEF GetAgain
  <2>3. CASE Create(w)
    BY <2>3, CreatePaid DEF Create
  <2>4. CASE CreateRestart(w)
    <3>1. CASE Finish(w)
      BY <2>4, <3>1, FinishPaid DEF CreateRestart
    <3>2. CASE \E r \in Requests : CreateSection(w, r)
      BY <2>4, <3>2, CreatePaid DEF CreateRestart
    <3> QED
      BY <2>4, <3>1, <3>2 DEF CreateRestart
  <2>5. CASE List(w)
    BY <2>5, ListPaid DEF List
  <2>6. CASE Renew(w)
    BY <2>6, ListPaid DEF Renew, RestartPending
  <2>7. CASE CancelObsolete(w)
    BY <2>7, ListPaid DEF CancelObsolete, RestartPending
  <2>8. CASE \/ SubmitCiphertext(w) \/ Approve(w) \/ Deny(w) \/ Cancel(w)
             \/ MarkChallengeCompleted(w) \/ ReleaseTakeover(w) \/ RecordTakeoverFrame(w)
             \/ ConsumeApproval(w)
    BY <2>8, AcceptsPaid
  <2>9. CASE RefuseExpired(w) \/ VerifyApprovalScope(w) \/ Decline(w) \/ EffectFails(w)
    BY <2>9, RefusePaid
  <2>10. CASE UpdateSection(w)
    BY <2>10, UpdatePaid
  <2>11. CASE Save(w)
    BY <2>11, SavePaid
  <2>12. CASE Return(w)
    BY <2>12, ReturnPaid
  <2>13. CASE CarryOut(w)
    BY <2>13, CarryOutPaid
  <2>14. CASE Crash(w)
    BY <2>14, CrashPaid
  <2> QED
    BY <1>2, <2>1, <2>2, <2>3, <2>4, <2>5, <2>6, <2>7, <2>8, <2>9, <2>10, <2>11, <2>12,
       <2>13, <2>14 DEF Step
<1> QED
  BY <1>1, <1>2 DEF Next, Tick, vars

(* Both inductive invariants together.                                      *)
LEMMA PaidInvariant ==
    ASSUME SingleProcess, SingleClicker
    PROVE  Spec => [](CoherentInv /\ PaidInv)
<1>1. Init => CoherentInv /\ PaidInv
  BY InitCoherent, InitPaid
<1>2. CoherentInv /\ PaidInv /\ [Next]_vars => (CoherentInv /\ PaidInv)'
  BY NextCoherent, NextPaid
<1> QED
  BY <1>1, <1>2, PTL DEF Spec

(* When all callers of the store live in one process and one of them        *)
(* clicks, the clicks carried out for an approval never outnumber the       *)
(* approve() calls of the user, for any number of threads and requests and  *)
(* with crashes: verify_approval_scope and consume_approval suffice, though *)
(* approve() itself may overwrite a consumed request.                       *)
THEOREM ClicksPaid ==
    ASSUME SingleProcess, SingleClicker
    PROVE  Spec => []EffectsPaid
<1>1. PaidInv => EffectsPaid
  BY DEF PaidInv, PaidRequest, EffectsPaid
<1> QED
  BY <1>1, PaidInvariant, PTL

(* In one process no write of a thread drops a request another thread has   *)
(* stored: the locked section covers the load and the save.                 *)
THEOREM NothingForgotten ==
    ASSUME SingleProcess, SingleClicker
    PROVE  Spec => NeverForgotten
<1>1. ASSUME CoherentInv, PaidInv, [Next]_vars
      PROVE  [\A r \in Requests : file[r] # NoReq => file'[r] # NoReq]_file
  <2>1. CASE file' = file
    BY <2>1
  <2>2. ASSUME NEW w \in Workers, Save(w)
        PROVE  \A r \in Requests : file[r] # NoReq => file'[r] # NoReq
    BY <1>1, <2>2 DEF Save, PaidInv, PendingWrite
  <2>3. ASSUME NEW w \in Workers, Step(w), ~Save(w) PROVE file' = file
    BY <2>3 DEF Step, Start, GetAgain, Create, List, Renew, CancelObsolete, CreateRestart,
       ListSection, SubmitCiphertext, Approve, Deny, Cancel, MarkChallengeCompleted,
       ReleaseTakeover, RecordTakeoverFrame, ConsumeApproval, Accept, RefuseExpired,
       VerifyApprovalScope, Decline, UpdateSection, Return, CarryOut, EffectFails, Crash
  <2> QED
    BY <1>1, <2>1, <2>2, <2>3 DEF Next, Tick, vars
<1> QED
  BY <1>1, PaidInvariant, PTL DEF NeverForgotten, Spec


-----------------------------------------------------------------------------
(* One worker: calls of the store do not overlap.                           *)

(* A step that changes the worker's locals only keeps both invariants, when *)
(* the new locals agree with the file; it must not skip an audit event.     *)
LEMMA LocalSequential ==
    ASSUME SingleWorker, CoherentInv, SequentialInv, NEW w \in Workers,
           UNCHANGED <<file, now, effects, audited>>, pc[w] # "audit",
           SectionWrite(w)', InStep(w)',
           \A r \in Requests : TypeOf[r] \in {"approval", "provider"} => StillToCome(w, r)'
    PROVE  SequentialInv' /\ (AuditInv => AuditInv')
<1>1. \A v \in Workers : v = w
  BY DEF SingleWorker
<1>2. ASSUME NEW r \in Requests, TypeOf[r] \in {"approval", "provider"} PROVE OnceRequest(r)'
  <2>1. effects[r] = 0 \/ (effects[r] = 1 /\ Used(file, r))
    BY <1>2 DEF SequentialInv, OnceRequest
  <2>2. StillToCome(w, r)'
    BY <1>2
  <2> QED
    BY <1>1, <2>1, <2>2 DEF OnceRequest, Used
<1>3. \A r \in Requests : Overdue(file[r])'
  BY DEF SequentialInv, Overdue, IsExpired
<1>4. AuditInv => AuditInv'
  BY <1>1 DEF AuditInv
<1> QED
  BY <1>1, <1>2, <1>3, <1>4 DEF SequentialInv

(* A call that ends leaves nothing behind.                                  *)
LEMMA FinishSequential ==
    ASSUME SingleWorker, CoherentInv, SequentialInv, NEW w \in Workers, Finish(w),
           pc[w] # "audit", UNCHANGED <<file, now, effects, audited>>
    PROVE  SequentialInv' /\ (AuditInv => AuditInv')
<1>1. /\ pc'[w] = "idle" /\ call'[w] = "none" /\ copy'[w] = NoReq
      /\ \A r \in Requests : snap'[w][r] = NoReq
  BY DEF Finish, Set, CoherentInv, TypeOK, Empty
<1>2. SectionWrite(w)' /\ InStep(w)' /\ \A r \in Requests : StillToCome(w, r)'
  BY <1>1 DEF SectionWrite, InStep, StillToCome, Overdue
<1> QED
  BY <1>2, LocalSequential

(* Expiry touches the status alone, and only of an overdue request.         *)
LEMMA ExpireStatus ==
    ASSUME NEW rec \in Record, Overdue(rec)
    PROVE  /\ ExpireIfNeeded(rec) = rec \/ ExpireIfNeeded(rec) = [rec EXCEPT !.status = "expired"]
           /\ ExpireIfNeeded(rec).used = rec.used
           /\ Overdue(ExpireIfNeeded(rec))
  BY DEF ExpireIfNeeded, Record, Overdue, IsExpired

(* get() hands out what the file says, or will say.                         *)
LEMMA GetSequential ==
    ASSUME SingleWorker, CoherentInv, SequentialInv, NEW w \in Workers, pc[w] \in {"idle", "get"},
           NEW c, NEW r \in Requests, GetSection(w, c, r),
           UNCHANGED <<file, now, effects, audited>>,
           c = "click" => TypeOf[r] = "approval",
           c = "consume" => TypeOf[r] \in {"approval", "restart"}
    PROVE  SequentialInv' /\ (AuditInv => AuditInv')
<1> DEFINE rec == ExpireIfNeeded(file[r])
           g == [file EXCEPT ![r] = rec]
<1>1. file[r] \in Record /\ file[r] # NoReq /\ Overdue(file[r])
  BY Frame DEF GetSection, CoherentFile, SequentialInv
<1>2. /\ rec = file[r] \/ rec = [file[r] EXCEPT !.status = "expired"]
      /\ Overdue(rec)
  BY <1>1, ExpireStatus
<1>3. /\ g[r] = rec
      /\ \A q \in Requests : /\ g[q] = file[q] \/ (file[q] # NoReq /\ g[q] = [file[q] EXCEPT !.status = "expired"])
                             /\ Overdue(g[q])
  BY <1>1, <1>2, Frame DEF SequentialInv
<1>4. PICK p \in {"check", "getsave"}, f \in {snap[w], g} :
         /\ pc' = Set(pc, w, p) /\ snap' = Set(snap, w, f)
         /\ p = "getsave" => f = g
         /\ p = "check" => rec = file[r] /\ f = snap[w]
  BY DEF GetSection, Set, CoherentInv, TypeOK
<1> HIDE DEF rec, g
<1>5. call'[w] = c /\ target'[w] = r /\ copy'[w] = rec
  BY DEF GetSection, Set, CoherentInv, TypeOK, rec
<1>6. pc'[w] = p /\ snap'[w] = f
  BY <1>4 DEF Set, CoherentInv, TypeOK
<1>7. \A q \in Requests : Overdue(f[q])
  BY <1>3, <1>4 DEF SequentialInv, SectionWrite
<1>8. SectionWrite(w)'
  BY <1>3, <1>4, <1>6, <1>7 DEF SectionWrite, Overdue, IsExpired
<1>9. InStep(w)'
  BY <1>2, <1>3, <1>4, <1>5, <1>6 DEF InStep, Overdue, IsExpired
<1>10. \A q \in Requests : StillToCome(w, q)'
  BY <1>4, <1>6 DEF StillToCome
<1> QED
  BY <1>8, <1>9, <1>10, LocalSequential

(* create() puts a new request next to the others.                          *)
LEMMA CreateSequential ==
    ASSUME SingleWorker, CoherentInv, SequentialInv, NEW w \in Workers, NEW r \in Requests,
           pc[w] # "audit", CreateSection(w, r), UNCHANGED <<file, now, effects, audited>>
    PROVE  SequentialInv' /\ (AuditInv => AuditInv')
<1> DEFINE f == [file EXCEPT ![r] = NewRequest(r)]
<1>1. f = [file EXCEPT ![r] = f[r]] /\ f[r] = NewRequest(r)
  BY Frame
<1>2. NewRequest(r).status # "expired" /\ NewRequest(r)' = NewRequest(r)
  BY DEF NewRequest
<1>3. \A q \in Requests : Overdue(f[q])
  BY <1>1, <1>2, Frame DEF SequentialInv, Overdue
<1>4. /\ pc'[w] = "createsave" /\ call'[w] = "create" /\ target'[w] = r
      /\ snap'[w] = f /\ copy'[w] = copy[w] /\ file[r] = NoReq
  BY DEF CreateSection, Set, CoherentInv, TypeOK
<1> HIDE DEF f
<1>5. SectionWrite(w)'
  BY <1>1, <1>2, <1>3, <1>4 DEF SectionWrite, Overdue, IsExpired, NewRequest
<1>6. Overdue(copy[w])
  BY DEF SequentialInv, InStep
<1>7. InStep(w)' /\ \A q \in Requests : StillToCome(w, q)'
  BY <1>4, <1>6 DEF InStep, StillToCome, Overdue, IsExpired
<1> QED
  BY <1>5, <1>7, LocalSequential

(* list() writes the file back with the overdue requests expired; a renewed *)
(* restart request is one of them, and pending.                             *)
LEMMA ListSequential ==
    ASSUME SingleWorker, CoherentInv, SequentialInv, NEW w \in Workers,
           NEW c \in {"list", "renew", "obsolete"}, NEW r, NEW rec, ListSection(w, c, r, rec),
           Overdue(rec),
           c = "renew" /\ r # NoReq =>
              /\ Listed[r] # NoReq
              /\ rec.status = Listed[r].status /\ rec.used = Listed[r].used
    PROVE  SequentialInv' /\ (AuditInv => AuditInv')
<1>1. /\ pc'[w] = "listsave" /\ call'[w] = c /\ target'[w] = r /\ copy'[w] = rec
      /\ snap'[w] = Listed /\ pc[w] = "idle" /\ UNCHANGED <<file, now, effects, audited>>
  BY DEF ListSection, Set, CoherentInv, TypeOK
<1>2. ASSUME NEW q \in Requests
      PROVE  /\ \/ Listed[q] = file[q]
                \/ file[q] # NoReq /\ Listed[q] = [file[q] EXCEPT !.status = "expired"]
             /\ Overdue(Listed[q])
  <2>1. Listed[q] = ExpireIfNeeded(file[q])
    BY DEF Listed
  <2>2. CASE file[q] = NoReq
    BY <2>1, <2>2, ExpireNothing DEF Overdue
  <2>3. CASE file[q] # NoReq
    <3>1. file[q] \in Record /\ Overdue(file[q])
      BY <2>3, Frame DEF CoherentFile, SequentialInv
    <3> QED
      BY <2>1, <2>3, <3>1, ExpireStatus
  <2> QED
    BY <2>2, <2>3
<1>3. SectionWrite(w)'
  <2>1. \A q \in Requests : Overdue(snap[w][q])'
    BY <1>1, <1>2 DEF Overdue, IsExpired
  <2>2. \A q \in Requests :
           \/ snap'[w][q] = file'[q]
           \/ file'[q] # NoReq /\ snap'[w][q] = [file'[q] EXCEPT !.status = "expired"]
    BY <1>1, <1>2
  <2> QED
    BY <1>1, <2>1, <2>2 DEF SectionWrite
<1>4. InStep(w)' /\ \A q \in Requests : StillToCome(w, q)'
  BY <1>1 DEF InStep, StillToCome, Overdue, IsExpired
<1> QED
  BY <1>1, <1>3, <1>4, LocalSequential

(* create_or_renew_console_restart_request keeps the status of the listing. *)
LEMMA RenewSequential ==
    ASSUME SingleWorker, CoherentInv, SequentialInv, NEW w \in Workers, Renew(w)
    PROVE  SequentialInv' /\ (AuditInv => AuditInv')
<1>1. ASSUME NEW r \in Requests, RestartPending(r),
             NEW rec \in {Listed[r], [Listed[r] EXCEPT !.expires = now + TTL]},
             ListSection(w, "renew", r, rec)
      PROVE  SequentialInv' /\ (AuditInv => AuditInv')
  <2>1. Listed[r] # NoReq /\ Listed[r] \in Record /\ Listed[r].status = "pending"
    BY <1>1, Frame, ListedStatus, ListedGood DEF RestartPending
  <2>2. rec.status = "pending" /\ rec.used = Listed[r].used
    BY <1>1, <2>1 DEF Record
  <2> QED
    BY <1>1, <2>1, <2>2, ListSequential DEF Overdue
<1>2. ASSUME NEW c \in {"list", "renew"}, ListSection(w, c, NoReq, NoReq)
      PROVE  SequentialInv' /\ (AuditInv => AuditInv')
  BY <1>2, ListSequential DEF Overdue
<1> QED
  BY <1>1, <1>2 DEF Renew

(* An unused request that is not overdue is live.                           *)
LEMMA UnusedLive ==
    ASSUME NEW r \in Requests, NEW rec \in Record, CoherentRecord(r, rec), Overdue(rec),
           rec # NoReq, ~rec.used, ~IsExpired(rec)
    PROVE  rec.status \in {"pending", "user_control", "approved"}
  BY DEF CoherentRecord, Overdue, Record, Status

(* An accepting operation puts its copy one move ahead of the file.         *)
LEMMA AcceptSequential ==
    ASSUME SingleWorker, CoherentInv, SequentialInv, NEW w \in Workers, NEW c, NEW rec,
           Accept(w, c, rec), Overdue(rec),
           Moves(target[w], copy[w].status, rec.status),
           copy[w].used => rec.used,
           c \in {"submit", "consume"} => rec.used,
           c = "submit" => rec.status = "fulfilled",
           c = "approve" => rec.status = "approved",
           c = "consume" => rec.status = "consumed"
    PROVE  SequentialInv' /\ (AuditInv => AuditInv')
<1>1. /\ pc[w] = "check" /\ call[w] = c /\ pc'[w] = "update" /\ call'[w] = c
      /\ target'[w] = target[w] /\ copy'[w] = rec /\ snap' = snap
      /\ UNCHANGED <<file, now, effects, audited>>
  BY DEF Accept, Set, CoherentInv, TypeOK
<1>2. target[w] \in Requests /\ copy[w] \in Record /\ copy[w] = file[target[w]] /\ copy[w] # NoReq
  BY <1>1, ConstantsAssumption DEF CoherentInv, InHand, Holding, SequentialInv, InStep
<1>3. SectionWrite(w)'
  BY <1>1 DEF SequentialInv, SectionWrite, Overdue, IsExpired
<1>4. Moves(target[w], file[target[w]].status, rec.status)'
  BY <1>1, <1>2 DEF Moves, Lifecycle!Edge, Lifecycle!Live
<1>5. InStep(w)'
  <2>1. InStep(w)
    BY DEF SequentialInv
  <2> QED
    BY <1>1, <1>2, <1>4, <2>1 DEF InStep, Overdue, IsExpired
<1>6. ASSUME NEW r \in Requests, TypeOf[r] \in {"approval", "provider"} PROVE StillToCome(w, r)'
  <2>1. OnceRequest(r)
    BY <1>6 DEF SequentialInv
  <2>2. ASSUME target[w] = r, HasEffect(c, r) PROVE effects[r] = 0 /\ rec.used
    <3>1. c \in {"submit", "consume"}
      BY <1>6, <2>2 DEF HasEffect
    <3>2. ~Used(file, r)
      BY <1>2, <2>2, <3>1 DEF Accept, Accepts, Used
    <3> QED
      BY <2>1, <3>1, <3>2 DEF OnceRequest
  <2> QED
    BY <1>1, <2>2 DEF StillToCome, HasEffect
<1> QED
  BY <1>1, <1>3, <1>5, <1>6, LocalSequential

(* The eight operations that accept, each along an edge of the lifecycle.   *)
LEMMA AcceptsSequential ==
    ASSUME SingleWorker, CoherentInv, SequentialInv, NEW w \in Workers,
           \/ SubmitCiphertext(w) \/ Approve(w) \/ Deny(w) \/ Cancel(w)
           \/ MarkChallengeCompleted(w) \/ ReleaseTakeover(w) \/ RecordTakeoverFrame(w)
           \/ ConsumeApproval(w)
    PROVE  SequentialInv' /\ (AuditInv => AuditInv')
<1> DEFINE r == target[w]
           d == copy[w]
<1>1. pc[w] = "check"
  BY DEF SubmitCiphertext, Approve, Deny, Cancel, MarkChallengeCompleted, ReleaseTakeover,
     RecordTakeoverFrame, ConsumeApproval, Accept
<1>2. r \in Requests /\ d \in Record /\ d # NoReq /\ CoherentRecord(r, d) /\ Overdue(d)
  BY <1>1, ConstantsAssumption DEF CoherentInv, InHand, Holding, SequentialInv, InStep
<1>3. ~d.used /\ ~IsExpired(d) => d.status \in {"pending", "user_control", "approved"}
  BY <1>2, UnusedLive
<1>4. CASE SubmitCiphertext(w)
  <2> DEFINE rec == [d EXCEPT !.sealed = TRUE, !.status = "fulfilled", !.used = TRUE, !.completed = TRUE]
  <2>1. rec.status = "fulfilled" /\ rec.used /\ Accept(w, "submit", rec)
    BY <1>2, <1>4 DEF SubmitCiphertext, Record
  <2>2. d.status \in {"pending", "user_control", "approved"}
    BY <1>3, <2>1 DEF Accept, Accepts, EnsuresActionable
  <2>3. Moves(r, d.status, rec.status)
    BY <2>1, <2>2 DEF Moves, Lifecycle!Edge, Lifecycle!Live
  <2> HIDE DEF rec
  <2> QED
    BY <2>1, <2>3, AcceptSequential DEF Overdue
<1>5. CASE Approve(w)
  <2> DEFINE rec == [d EXCEPT !.decision = "approved", !.status = "approved", !.used = FALSE, !.completed = TRUE]
  <2>1. rec.status = "approved" /\ Accept(w, "approve", rec) /\ ~d.used
    BY <1>2, <1>5 DEF Approve, Accept, Accepts, Record
  <2>2. d.status \in {"pending", "user_control", "approved"}
    BY <1>3, <2>1 DEF Accept, EnsuresActionable
  <2>3. Moves(r, d.status, rec.status)
    BY <2>1, <2>2 DEF Moves, Lifecycle!Edge, Lifecycle!Live
  <2> HIDE DEF rec
  <2> QED
    BY <2>1, <2>3, AcceptSequential DEF Overdue
<1>6. CASE Deny(w)
  <2> DEFINE rec == [d EXCEPT !.decision = "denied", !.status = "denied", !.used = TRUE, !.completed = TRUE]
  <2>1. rec.status = "denied" /\ rec.used /\ Accept(w, "deny", rec)
    BY <1>2, <1>6 DEF Deny, Record
  <2>2. d.status \in {"pending", "user_control", "approved"}
    BY <1>3, <2>1 DEF Accept, Accepts, EnsuresActionable
  <2>3. Moves(r, d.status, rec.status)
    BY <2>1, <2>2 DEF Moves, Lifecycle!Edge, Lifecycle!Live
  <2> HIDE DEF rec
  <2> QED
    BY <2>1, <2>3, AcceptSequential DEF Overdue
<1>7. CASE Cancel(w)
  <2> DEFINE rec == [d EXCEPT !.status = "cancelled", !.used = TRUE, !.completed = FALSE]
  <2>1. rec.status = "cancelled" /\ rec.used /\ Accept(w, "cancel", rec)
    BY <1>2, <1>7 DEF Cancel, Record
  <2>2. d.status \in {"pending", "user_control"}
    BY <1>2, <2>1 DEF Accept, Accepts, Completed, Aborted, Record, Status
  <2>3. Moves(r, d.status, rec.status)
    BY <2>1, <2>2 DEF Moves, Lifecycle!Edge, Lifecycle!Live
  <2> HIDE DEF rec
  <2> QED
    BY <2>1, <2>3, AcceptSequential DEF Overdue
<1>8. CASE MarkChallengeCompleted(w)
  <2> DEFINE rec == [d EXCEPT !.status = "challenge_completed", !.completed = TRUE, !.used = TRUE]
  <2>1. rec.status = "challenge_completed" /\ rec.used /\ Accept(w, "complete", rec)
    BY <1>2, <1>8 DEF MarkChallengeCompleted, Record
  <2>2. d.status \in {"pending", "user_control", "approved", "fulfilled"}
    BY <1>3, <2>1 DEF Accept, Accepts, EnsuresActionable
  <2>3. Moves(r, d.status, rec.status)
    BY <2>1, <2>2 DEF Moves, Lifecycle!Edge, Lifecycle!Live
  <2> HIDE DEF rec
  <2> QED
    BY <2>1, <2>3, AcceptSequential DEF Overdue
<1>9. CASE ReleaseTakeover(w)
  <2> DEFINE rec == [d EXCEPT !.status = "released", !.owner = "agent", !.completed = TRUE, !.used = TRUE]
  <2>1. rec.status = "released" /\ rec.used /\ Accept(w, "release", rec)
    BY <1>2, <1>9 DEF ReleaseTakeover, Record
  <2>2. d.status \in {"pending", "user_control", "approved"} /\ TypeOf[r] = "takeover"
    BY <1>3, <2>1 DEF Accept, Accepts, EnsuresActionable
  <2>3. Moves(r, d.status, rec.status)
    BY <2>1, <2>2 DEF Moves, Lifecycle!Edge, Lifecycle!Live
  <2> HIDE DEF rec
  <2> QED
    BY <2>1, <2>3, AcceptSequential DEF Overdue
<1>10. CASE RecordTakeoverFrame(w)
  BY <1>2, <1>10, AcceptSequential DEF RecordTakeoverFrame, Moves
<1>11. CASE ConsumeApproval(w)
  <2> DEFINE rec == [d EXCEPT !.status = "consumed", !.used = TRUE]
  <2>1. rec.status = "consumed" /\ rec.used /\ Accept(w, "consume", rec)
    BY <1>2, <1>11 DEF ConsumeApproval, Record
  <2>2. d.status = "approved" /\ TypeOf[r] \in {"approval", "restart"}
    BY <2>1 DEF Accept, Accepts, SequentialInv, InStep
  <2>3. Moves(r, d.status, rec.status)
    BY <2>1, <2>2 DEF Moves, Lifecycle!Edge, Lifecycle!Live
  <2> HIDE DEF rec
  <2> QED
    BY <2>1, <2>3, AcceptSequential DEF Overdue
<1> QED
  BY <1>4, <1>5, <1>6, <1>7, <1>8, <1>9, <1>10, <1>11

(* Refusals end the call, store "expired", or go on to consume.             *)
LEMMA RefuseSequential ==
    ASSUME SingleWorker, CoherentInv, SequentialInv, NEW w \in Workers,
           RefuseExpired(w) \/ VerifyApprovalScope(w) \/ Decline(w) \/ EffectFails(w)
    PROVE  SequentialInv' /\ (AuditInv => AuditInv')
<1>1. CASE Finish(w)
  BY <1>1, FinishSequential DEF RefuseExpired, VerifyApprovalScope, Decline, EffectFails
<1>2. CASE RefuseExpired(w)
  <2> DEFINE rec == [copy[w] EXCEPT !.status = "expired"]
  <2>1. /\ pc[w] = "check" /\ copy[w] \in Record /\ copy[w] = file[target[w]] /\ copy[w] # NoReq
        /\ rec.used = copy[w].used /\ rec.status = "expired" /\ rec.expires = copy[w].expires
    BY <1>2, ConstantsAssumption DEF RefuseExpired, CoherentInv, InHand, Holding, SequentialInv, InStep, Record
  <2>2. /\ pc'[w] = "update" /\ call'[w] = "expire" /\ target'[w] = target[w] /\ copy'[w] = rec
        /\ snap' = snap /\ UNCHANGED <<file, now, effects, audited>> /\ IsExpired(copy[w])
    BY <1>2 DEF RefuseExpired, Set, CoherentInv, TypeOK
  <2> HIDE DEF rec
  <2>3. SectionWrite(w)'
    BY <2>2 DEF SequentialInv, SectionWrite, Overdue, IsExpired
  <2>4. InStep(w)'
    BY <2>1, <2>2 DEF InStep, Moves, Overdue, IsExpired
  <2>5. \A r \in Requests : StillToCome(w, r)'
    BY <2>2 DEF StillToCome, HasEffect
  <2> QED
    BY <2>1, <2>2, <2>3, <2>4, <2>5, LocalSequential
<1>3. CASE VerifyApprovalScope(w) /\ ~Finish(w)
  <2>1. /\ pc[w] = "check" /\ call[w] = "click" /\ pc'[w] = "get" /\ call'[w] = "consume"
        /\ UNCHANGED <<file, now, effects, audited, target, copy, snap>>
    BY <1>3 DEF VerifyApprovalScope, Set, CoherentInv, TypeOK
  <2>2. SectionWrite(w)'
    BY <2>1 DEF SequentialInv, SectionWrite, Overdue, IsExpired
  <2>3. InStep(w)'
    BY <2>1 DEF SequentialInv, InStep, Overdue, IsExpired
  <2>4. \A r \in Requests : StillToCome(w, r)'
    BY <2>1 DEF StillToCome
  <2> QED
    BY <2>1, <2>2, <2>3, <2>4, LocalSequential
<1> QED
  BY <1>1, <1>2, <1>3 DEF VerifyApprovalScope, Decline, EffectFails

(* update() keeps the copy it is about to write, and knows whether an event *)
(* is due.                                                                  *)
LEMMA UpdateSequential ==
    ASSUME SingleWorker, CoherentInv, SequentialInv, NEW w \in Workers, UpdateSection(w)
    PROVE  SequentialInv' /\ (AuditInv => AuditInv')
<1> DEFINE f == [file EXCEPT ![target[w]] = copy[w]]
<1>1. /\ target[w] \in Requests /\ pc[w] = "update" /\ InStep(w)
      /\ UNCHANGED <<file, now, effects, audited, call, target, copy>>
  BY DEF UpdateSection, CoherentInv, InHand, Holding, SequentialInv
<1>2. \A r \in Requests : Overdue(f[r])
  BY <1>1, Frame DEF SequentialInv, InStep
<1>3. snap'[w] = f
  BY DEF UpdateSection, Set, CoherentInv, TypeOK
<1>4. /\ pc'[w] \in {"updatesave", "quietsave"}
      /\ pc'[w] = "quietsave" => ~EventDue(file[target[w]], copy[w])
  BY DEF UpdateSection, Set, CoherentInv, TypeOK
<1>5. SectionWrite(w)'
  <2>1. \A r \in Requests : Overdue(snap[w][r])'
    BY <1>1, <1>2, <1>3 DEF Overdue, IsExpired
  <2>2. (~EventDue(file[target[w]], copy[w]))' <=> ~EventDue(file[target[w]], copy[w])
    BY <1>1 DEF EventDue
  <2> QED
    BY <1>1, <1>3, <1>4, <2>1, <2>2 DEF SectionWrite
<1>6. InStep(w)'
  BY <1>1, <1>4 DEF InStep, Moves, Lifecycle!Edge, Lifecycle!Live, Overdue, IsExpired
<1>7. ASSUME NEW r \in Requests, TypeOf[r] \in {"approval", "provider"} PROVE StillToCome(w, r)'
  BY <1>1, <1>4, <1>7 DEF SequentialInv, OnceRequest, StillToCome, HasEffect
<1> QED
  BY <1>1, <1>5, <1>6, <1>7, LocalSequential

(* What each kind of locked section makes of the file.                      *)
LEMMA SaveShape ==
    ASSUME CoherentInv, SequentialInv, NEW w \in Workers, Save(w)
    PROVE  /\ file' = snap[w] /\ UNCHANGED <<now, effects, audited, target, copy>>
           /\ \/ /\ pc[w] \in {"getsave", "listsave"}
                 /\ \A r \in Requests :
                       \/ snap[w][r] = file[r]
                       \/ /\ file[r] # NoReq /\ snap[w][r] # NoReq
                          /\ snap[w][r].status = "expired" /\ snap[w][r].used = file[r].used
              \/ /\ pc[w] = "createsave" /\ target[w] \in Requests /\ file[target[w]] = NoReq
                 /\ \A r \in Requests \ {target[w]} : snap[w][r] = file[r]
                 /\ snap[w][target[w]].status = NewRequest(target[w]).status
              \/ /\ pc[w] \in {"updatesave", "quietsave"} /\ target[w] \in Requests
                 /\ file[target[w]] # NoReq /\ copy[w] # NoReq /\ copy[w] \in Record
                 /\ \A r \in Requests \ {target[w]} : snap[w][r] = file[r]
                 /\ snap[w][target[w]] = copy[w]
<1>1. /\ SectionWrite(w) /\ InStep(w) /\ InHand(w) /\ pc[w] \in Saving /\ file' = snap[w]
      /\ UNCHANGED <<now, effects, audited, target, copy>>
  BY DEF SequentialInv, CoherentInv, Save
<1>2. CASE pc[w] \in {"getsave", "listsave"}
  <2>1. ASSUME NEW r \in Requests, file[r] # NoReq,
               snap[w][r] = [file[r] EXCEPT !.status = "expired"]
        PROVE  /\ snap[w][r] # NoReq /\ snap[w][r].status = "expired"
               /\ snap[w][r].used = file[r].used
    <3>1. file[r] \in Record
      BY <2>1, Frame
    <3>2. snap[w][r] \in Record /\ snap[w][r].status = "expired" /\ snap[w][r].used = file[r].used
      BY <2>1, <3>1 DEF Record, Status
    <3> QED
      BY <3>2, ConstantsAssumption
  <2> QED
    BY <1>1, <1>2, <2>1 DEF SectionWrite
<1>3. CASE pc[w] = "createsave"
  <2>1. target[w] \in Requests /\ file[target[w]] = NoReq
    BY <1>1, <1>3 DEF SectionWrite, InHand
  <2>2. \A r \in Requests \ {target[w]} : snap[w][r] = file[r]
    <3>1. snap[w] = [file EXCEPT ![target[w]] = snap[w][target[w]]]
      BY <1>1, <1>3 DEF SectionWrite
    <3> QED
      BY <3>1, Frame
  <2> QED
    BY <1>1, <1>3, <2>1, <2>2 DEF SectionWrite
<1>4. CASE pc[w] \in {"updatesave", "quietsave"}
  <2>1. /\ target[w] \in Requests /\ copy[w] \in Record /\ file[target[w]] # NoReq
        /\ snap[w] = [file EXCEPT ![target[w]] = copy[w]]
    BY <1>1, <1>4 DEF SectionWrite, InHand, Holding, InStep
  <2> QED
    BY <1>1, <1>4, <2>1, Frame, ConstantsAssumption
<1> QED
  BY <1>1, <1>2, <1>3, <1>4 DEF Saving

(* The write takes effect: it takes no mark of use away, and a terminal     *)
(* status it brings is about to be audited.                                 *)
LEMMA SaveSequential ==
    ASSUME SingleWorker, CoherentInv, SequentialInv, NEW w \in Workers, Save(w)
    PROVE  SequentialInv' /\ (AuditInv => AuditInv')
<1>1. \A v \in Workers : v = w
  BY DEF SingleWorker
<1>2. /\ SectionWrite(w) /\ InStep(w) /\ InHand(w) /\ pc[w] \in Saving
      /\ file' = snap[w] /\ UNCHANGED <<now, effects, audited, target, copy>>
  BY DEF SequentialInv, CoherentInv, Save
<1>3. pc'[w] = AfterSave(w) /\ snap'[w] = Empty
  BY DEF CoherentInv, Save, Set, TypeOK
<1>4. /\ pc[w] = "getsave" => pc'[w] = "check"
      /\ pc[w] = "updatesave" => pc'[w] = "audit"
      /\ pc[w] = "quietsave" => pc'[w] = "return"
      /\ pc[w] = "createsave" => pc'[w] = "return" /\ call[w] = "create"
      /\ pc[w] = "listsave" => \/ /\ call[w] = "renew"
                                  /\ pc'[w] = IF target[w] = NoReq THEN "create" ELSE "update"
                               \/ call[w] = "obsolete" /\ pc'[w] = "get"
                               \/ call[w] = "list" /\ pc'[w] = "return"
  BY <1>2, <1>3 DEF AfterSave, InHand
<1>5. call'[w] = call[w] \/ (call[w] = "obsolete" /\ call'[w] = "cancel")
  BY DEF Save, Set, CoherentInv, TypeOK
<1>6. pc'[w] \notin Saving
  BY <1>2, <1>4 DEF Saving
<1>7. SectionWrite(w)'
  <2>1. \A r \in Requests : Overdue(snap[w][r])'
    BY <1>3 DEF Overdue, Empty
  <2> QED
    BY <1>6, <2>1 DEF SectionWrite, Saving
<1>8. InStep(w)'
  <2>1. CASE pc[w] = "getsave"
    BY <1>2, <1>4, <1>5, <2>1 DEF InStep, Overdue, IsExpired
  <2>2. CASE pc[w] \in {"updatesave", "quietsave"}
    <3>1. target[w] \in Requests /\ snap[w][target[w]] = copy[w]
      BY <2>2, SaveShape
    <3> QED
      BY <1>2, <1>4, <1>5, <2>2, <3>1 DEF InStep, Overdue, IsExpired
  <2>3. CASE pc[w] = "createsave"
    BY <1>2, <1>4, <1>5, <2>3 DEF InStep, Overdue, IsExpired, HasEffect
  <2>4. CASE pc[w] = "listsave"
    BY <1>2, <1>4, <1>5, <2>4 DEF InStep, Moves, Overdue, IsExpired, HasEffect
  <2> QED
    BY <1>2, <2>1, <2>2, <2>3, <2>4 DEF Saving
<1>9. \A r \in Requests : Overdue(file[r])'
  BY <1>2 DEF SectionWrite, Overdue, IsExpired
<1>10. ASSUME NEW r \in Requests, TypeOf[r] \in {"approval", "provider"} PROVE OnceRequest(r)'
  <2>1. OnceRequest(r) /\ StillToCome(w, r)
    BY <1>10 DEF SequentialInv, OnceRequest
  <2>2. Used(file, r) => Used(snap[w], r)
    <3>1. CASE pc[w] \in {"getsave", "listsave"}
      BY <3>1, SaveShape DEF Used
    <3>2. CASE pc[w] = "createsave"
      BY <3>2, SaveShape DEF Used
    <3>3. CASE pc[w] \in {"updatesave", "quietsave"}
      BY <1>2, <3>3, SaveShape DEF Used, InStep
    <3> QED
      BY <1>2, <3>1, <3>2, <3>3 DEF Saving
  <2>3. Used(file, r)' <=> Used(snap[w], r)
    BY <1>2 DEF Used
  <2>4. StillToCome(w, r)'
    <3>1. SUFFICES ASSUME target[w] = r, HasEffect(call'[w], r)
                   PROVE  /\ pc'[w] \in {"update", "updatesave", "quietsave"} =>
                                effects[r] = 0 /\ copy[w].used
                          /\ pc'[w] \in {"audit", "return", "effect"} =>
                                effects[r] = 0 /\ Used(snap[w], r)
      BY <1>2, <2>3 DEF StillToCome, HasEffect
    <3>2. call'[w] = call[w] /\ call[w] \in {"submit", "approve", "consume"}
      BY <1>5, <3>1 DEF HasEffect
    <3>3. CASE pc[w] = "getsave"
      BY <1>4, <3>3
    <3>4. CASE pc[w] \in {"updatesave", "quietsave"}
      <4>1. effects[r] = 0 /\ copy[w].used
        BY <2>1, <3>1, <3>2, <3>4 DEF StillToCome
      <4>2. Used(snap[w], r)
        BY <3>1, <3>4, <4>1, SaveShape DEF Used
      <4> QED
        BY <4>1, <4>2
    <3>5. pc[w] \notin {"createsave", "listsave"}
      BY <1>4, <3>2
    <3> QED
      BY <1>2, <3>3, <3>4, <3>5 DEF Saving
  <2> QED
    BY <1>1, <1>2, <2>1, <2>2, <2>3, <2>4 DEF OnceRequest
<1>11. ASSUME AuditInv PROVE AuditInv'
  <2>1. SUFFICES ASSUME NEW r \in Requests, snap[w][r] # NoReq,
                        snap[w][r].status \in (Completed \cup Aborted) \ {"expired"}
                 PROVE  \/ audited[r] = snap[w][r].status
                        \/ pc'[w] = "audit" /\ target[w] = r
    BY <1>2 DEF AuditInv
  <2>2. ASSUME file[r] # NoReq, file[r].status = snap[w][r].status
        PROVE  audited[r] = snap[w][r].status
    BY <1>1, <1>2, <1>11, <2>1, <2>2 DEF AuditInv, Saving
  <2>3. CASE pc[w] \in {"getsave", "listsave"}
    BY <2>1, <2>2, <2>3, SaveShape
  <2>4. CASE pc[w] = "createsave"
    BY <2>1, <2>2, <2>4, SaveShape DEF NewRequest, Completed, Aborted
  <2>5. CASE pc[w] \in {"updatesave", "quietsave"} /\ target[w] # r
    BY <2>1, <2>2, <2>5, SaveShape
  <2>6. CASE pc[w] = "updatesave" /\ target[w] = r
    BY <1>4, <2>6
  <2>7. CASE pc[w] = "quietsave" /\ target[w] = r
    <3>1. ~EventDue(file[r], snap[w][r]) /\ file[r] # NoReq
      BY <1>2, <2>7, SaveShape DEF SectionWrite
    <3> QED
      BY <2>1, <2>2, <3>1 DEF EventDue
  <2> QED
    BY <1>2, <2>3, <2>4, <2>5, <2>6, <2>7 DEF Saving
<1> QED
  BY <1>1, <1>7, <1>8, <1>9, <1>10, <1>11 DEF SequentialInv

(* The event that update() owes is written before the call goes on.         *)
LEMMA ReturnSequential ==
    ASSUME SingleWorker, CoherentInv, SequentialInv, NEW w \in Workers, Return(w)
    PROVE  SequentialInv' /\ (AuditInv => AuditInv')
<1>1. \A v \in Workers : v = w
  BY DEF SingleWorker
<1>2. /\ pc[w] \in {"audit", "return"} /\ UNCHANGED <<file, now, effects>>
      /\ SectionWrite(w) /\ InStep(w)
  BY DEF Return, SequentialInv
<1>3. \/ /\ pc'[w] = "idle" /\ call'[w] = "none" /\ copy'[w] = NoReq
         /\ \A r \in Requests : snap'[w][r] = NoReq
      \/ /\ pc'[w] = "effect" /\ HasEffect(call[w], target[w])
         /\ UNCHANGED <<call, target, copy, snap>>
  BY DEF Return, Finish, Set, CoherentInv, TypeOK, Empty
<1>4. SectionWrite(w)'
  BY <1>2, <1>3 DEF SectionWrite, Overdue, IsExpired
<1>5. InStep(w)'
  BY <1>2, <1>3 DEF InStep, Overdue, IsExpired
<1>6. \A r \in Requests : Overdue(file[r])'
  BY <1>2 DEF SequentialInv, Overdue, IsExpired
<1>7. ASSUME NEW r \in Requests, TypeOf[r] \in {"approval", "provider"} PROVE OnceRequest(r)'
  <2>1. OnceRequest(r) /\ StillToCome(w, r)
    BY <1>7 DEF SequentialInv, OnceRequest
  <2>2. StillToCome(w, r)'
    BY <1>2, <1>3, <2>1 DEF StillToCome, HasEffect, Used
  <2> QED
    BY <1>1, <1>2, <2>1, <2>2 DEF OnceRequest, Used
<1>8. ASSUME AuditInv PROVE AuditInv'
  <2>1. SUFFICES ASSUME NEW r \in Requests, file[r] # NoReq,
                        file[r].status \in (Completed \cup Aborted) \ {"expired"}
                 PROVE  audited'[r] = file[r].status
    BY <1>2 DEF AuditInv
  <2>2. CASE pc[w] = "audit" /\ target[w] = r
    BY <1>2, <2>2, Frame DEF Return, InStep
  <2>3. CASE ~(pc[w] = "audit" /\ target[w] = r)
    <3>1. audited'[r] = audited[r]
      BY <2>3, Frame DEF Return
    <3> QED
      BY <1>1, <1>8, <2>1, <2>3, <3>1 DEF AuditInv
  <2> QED
    BY <2>2, <2>3
<1> QED
  BY <1>1, <1>4, <1>5, <1>6, <1>7, <1>8 DEF SequentialInv

(* The sensitive action is the first of its request, and the request is     *)
(* stored as used.                                                          *)
LEMMA CarryOutSequential ==
    ASSUME SingleWorker, CoherentInv, SequentialInv, NEW w \in Workers, CarryOut(w)
    PROVE  SequentialInv' /\ (AuditInv => AuditInv')
<1>1. \A v \in Workers : v = w
  BY DEF SingleWorker
<1>2. /\ target[w] \in Requests /\ copy[w] \in Record /\ HasEffect(call[w], target[w])
      /\ pc[w] = "effect" /\ SectionWrite(w) /\ InStep(w)
      /\ UNCHANGED <<file, now, audited>>
      /\ effects' = [effects EXCEPT ![target[w]] = @ + 1]
  BY DEF CarryOut, CoherentInv, InHand, Holding, SequentialInv
<1>3. \/ /\ call[w] = "consume" /\ pc'[w] = "idle" /\ call'[w] = "none" /\ copy'[w] = NoReq
         /\ \A r \in Requests : snap'[w][r] = NoReq
      \/ /\ call[w] = "approve" /\ pc'[w] = "get" /\ call'[w] = "consume"
         /\ UNCHANGED <<target, copy, snap>>
      \/ /\ call[w] = "submit" /\ pc'[w] = "update" /\ call'[w] = "apply"
         /\ UNCHANGED <<target, snap>>
         /\ copy'[w] = [copy[w] EXCEPT !.sealed = FALSE, !.used = TRUE, !.status = "consumed"]
  BY DEF CarryOut, Finish, Set, CoherentInv, TypeOK, Empty
<1>4. call[w] = "submit" => copy'[w].status = "consumed" /\ copy'[w].used
  BY <1>2, <1>3 DEF Record
<1>5. SectionWrite(w)'
  BY <1>2, <1>3 DEF SectionWrite, Overdue, IsExpired
<1>6. InStep(w)'
  <2>1. CASE call[w] = "consume"
    BY <1>3, <2>1 DEF InStep, Overdue
  <2>2. CASE call[w] = "approve"
    <3>1. TypeOf[target[w]] = "restart"
      BY <1>2, <2>2 DEF HasEffect
    <3> QED
      BY <1>2, <1>3, <2>2, <3>1 DEF InStep, Overdue, IsExpired
  <2>3. CASE call[w] = "submit"
    <3>1. TypeOf[target[w]] = "provider" /\ file[target[w]] = copy[w] /\ copy[w].status = "fulfilled"
      BY <1>2, <2>3 DEF HasEffect, InStep
    <3>2. Moves(target[w], "fulfilled", "consumed")
      BY <3>1 DEF Moves, Lifecycle!Edge
    <3>3. file[target[w]] # NoReq
      BY <1>2, <3>1, ConstantsAssumption
    <3>4. pc'[w] = "update" /\ call'[w] = "apply" /\ target'[w] = target[w] /\ file' = file
      BY <1>2, <1>3, <2>3
    <3>5. Moves(target[w], file[target[w]].status, copy[w].status)'
      BY <1>4, <2>3, <3>1, <3>2, <3>4 DEF Moves, Lifecycle!Edge, Lifecycle!Live
    <3> QED
      BY <1>4, <2>3, <3>3, <3>4, <3>5 DEF InStep, Overdue
  <2> QED
    BY <1>3, <2>1, <2>2, <2>3
<1>7. \A r \in Requests : Overdue(file[r])'
  BY <1>2 DEF SequentialInv, Overdue, IsExpired
<1>8. ASSUME NEW r \in Requests, TypeOf[r] \in {"approval", "provider"} PROVE OnceRequest(r)'
  <2>1. OnceRequest(r) /\ StillToCome(w, r)
    BY <1>8 DEF SequentialInv, OnceRequest
  <2>2. StillToCome(w, r)'
    BY <1>2, <1>3 DEF StillToCome, HasEffect
  <2>3. CASE target[w] = r
    <3>1. effects[r] = 0 /\ Used(file, r)
      BY <1>2, <2>1, <2>3 DEF StillToCome
    <3>2. effects'[r] = 1
      BY <1>2, <2>3, <3>1, Frame
    <3> QED
      BY <1>1, <1>2, <2>2, <3>1, <3>2 DEF OnceRequest, Used
  <2>4. CASE target[w] # r
    <3>1. effects'[r] = effects[r]
      BY <1>2, <2>4, Frame
    <3> QED
      BY <1>1, <1>2, <2>1, <2>2, <3>1 DEF OnceRequest, Used
  <2> QED
    BY <2>3, <2>4
<1>9. AuditInv => AuditInv'
  BY <1>1, <1>2 DEF AuditInv
<1> QED
  BY <1>1, <1>5, <1>6, <1>7, <1>8, <1>9 DEF SequentialInv

(* The worker dies: the file keeps the mark of use.                         *)
LEMMA CrashSequential ==
    ASSUME SingleWorker, CoherentInv, SequentialInv, NEW w \in Workers, Crash(w)
    PROVE  SequentialInv'
<1>1. \A v \in Workers : /\ pc'[v] = "idle" /\ call'[v] = "none" /\ copy'[v] = NoReq
                         /\ \A r \in Requests : snap'[v][r] = NoReq
  BY DEF Crash, SingleWorker, CoherentInv, TypeOK, Empty
<1>2. UNCHANGED <<file, now, effects>>
  BY DEF Crash
<1>3. \A v \in Workers : SectionWrite(v)' /\ InStep(v)'
  BY <1>1 DEF SectionWrite, InStep, Overdue
<1>4. \A r \in Requests : Overdue(file[r])'
  BY <1>2 DEF SequentialInv, Overdue, IsExpired
<1>5. ASSUME NEW r \in Requests, TypeOf[r] \in {"approval", "provider"} PROVE OnceRequest(r)'
  BY <1>1, <1>2, <1>5 DEF SequentialInv, OnceRequest, Used, StillToCome
<1> QED
  BY <1>3, <1>4, <1>5 DEF SequentialInv

(* Time may pass and nothing else: what is overdue stays overdue.           *)
LEMMA TickSequential ==
    ASSUME CoherentInv, SequentialInv, Tick \/ UNCHANGED vars
    PROVE  SequentialInv' /\ (AuditInv => AuditInv')
<1>1. /\ now' \in {now, now + 1} /\ now \in Nat
      /\ UNCHANGED <<file, pc, call, target, copy, snap, effects, audited>>
  BY Frame DEF Tick, vars
<1>2. ASSUME NEW rec, rec \in Record \cup {NoReq}, Overdue(rec)
      PROVE  rec # NoReq /\ rec.status = "expired" => now' > rec.expires
  BY <1>1, <1>2 DEF Overdue, IsExpired, Record
<1>3. ASSUME NEW w \in Workers PROVE SectionWrite(w)' /\ InStep(w)'
  <2>1. SectionWrite(w) /\ InStep(w)
    BY DEF SequentialInv
  <2>2. \A r \in Requests : Overdue(snap[w][r])'
    BY <1>1, <1>2, <2>1 DEF SectionWrite, Overdue, IsExpired, CoherentInv, TypeOK
  <2>3. Overdue(copy[w])'
    BY <1>1, <1>2, <2>1 DEF InStep, Overdue, IsExpired, CoherentInv, TypeOK
  <2>4. SectionWrite(w)'
    <3>1. NewRequest(target[w])'.status = NewRequest(target[w]).status
      BY <1>1 DEF NewRequest
    <3> QED
      BY <1>1, <2>1, <2>2, <3>1 DEF SectionWrite, EventDue
  <2>5. InStep(w)'
    BY <1>1, <2>1, <2>3 DEF InStep, Moves, Lifecycle!Edge, Lifecycle!Live, HasEffect
  <2> QED
    BY <2>4, <2>5
<1>4. \A r \in Requests : Overdue(file[r])'
  BY <1>1, <1>2, Frame DEF SequentialInv, Overdue, IsExpired
<1>5. \A r \in Requests : TypeOf[r] \in {"approval", "provider"} => OnceRequest(r)'
  BY <1>1 DEF SequentialInv, OnceRequest, StillToCome, HasEffect, Used
<1>6. AuditInv => AuditInv'
  BY <1>1 DEF AuditInv
<1> QED
  BY <1>3, <1>4, <1>5, <1>6 DEF SequentialInv

(* Every step keeps both invariants; a crash may lose an audit event.       *)
LEMMA NextSequential ==
    ASSUME SingleWorker, CoherentInv, SequentialInv, [Next]_vars
    PROVE  SequentialInv' /\ (NeverDies /\ AuditInv => AuditInv')
<1>1. ASSUME NEW w \in Workers, Step(w)
      PROVE  SequentialInv' /\ (NeverDies /\ AuditInv => AuditInv')
  <2>1. CASE Start(w)
    <3>1. PICK c \in Allowed[w] \ {"create", "list", "renew", "obsolete"}, r \in Requests :
             (c = "click" => TypeOf[r] = "approval") /\ GetSection(w, c, r)
      BY <2>1 DEF Start
    <3>2. c # "consume"
      BY ConstantsAssumption DEF Operations
    <3> QED
      BY <2>1, <3>1, <3>2, GetSequential DEF Start
  <2>2. CASE GetAgain(w)
    <3>1. target[w] \in Requests /\ pc[w] = "get" /\ InStep(w)
      BY <2>2 DEF GetAgain, CoherentInv, InHand, SequentialInv
    <3>2. CASE GetSection(w, call[w], target[w])
      BY <2>2, <3>1, <3>2, GetSequential DEF GetAgain, InStep
    <3>3. CASE Finish(w)
      BY <2>2, <3>3, FinishSequential DEF GetAgain
    <3> QED
      BY <2>2, <3>2, <3>3 DEF GetAgain
  <2>3. CASE Create(w)
    BY <2>3, CreateSequential DEF Create
  <2>4. CASE CreateRestart(w)
    <3>1. CASE Finish(w)
      BY <2>4, <3>1, FinishSequential DEF CreateRestart
    <3>2. CASE \E r \in Requests : CreateSection(w, r)
      BY <2>4, <3>2, CreateSequential DEF CreateRestart
    <3> QED
      BY <2>4, <3>1, <3>2 DEF CreateRestart
  <2>5. CASE List(w) \/ CancelObsolete(w)
    BY <2>5, ListSequential DEF List, CancelObsolete, Overdue
  <2>6. CASE Renew(w)
    BY <2>6, RenewSequential
  <2>7. CASE \/ SubmitCiphertext(w) \/ Approve(w) \/ Deny(w) \/ Cancel(w)
             \/ MarkChallengeCompleted(w) \/ ReleaseTakeover(w) \/ RecordTakeoverFrame(w)
             \/ ConsumeApproval(w)
    BY <2>7, AcceptsSequential
  <2>8. CASE RefuseExpired(w) \/ VerifyApprovalScope(w) \/ Decline(w) \/ EffectFails(w)
    BY <2>8, RefuseSequential
  <2>9. CASE UpdateSection(w)
    BY <2>9, UpdateSequential
  <2>10. CASE Save(w)
    BY <2>10, SaveSequential
  <2>11. CASE Return(w)
    BY <2>11, ReturnSequential
  <2>12. CASE CarryOut(w)
    BY <2>12, CarryOutSequential
  <2>13. CASE Crash(w)
    BY <2>13, CrashSequential DEF NeverDies, Crash
  <2> QED
    BY <1>1, <2>1, <2>2, <2>3, <2>4, <2>5, <2>6, <2>7, <2>8, <2>9, <2>10, <2>11, <2>12,
       <2>13 DEF Step
<1> QED
  BY <1>1, TickSequential DEF Next

(* Both hold at the start.                                                  *)
LEMMA InitSequential == Init => SequentialInv /\ AuditInv
<1> SUFFICES ASSUME Init PROVE SequentialInv /\ AuditInv
  OBVIOUS
<1>1. \A w \in Workers : SectionWrite(w) /\ InStep(w)
  BY DEF Init, SectionWrite, InStep, Overdue, Empty
<1>2. \A r \in Requests : Overdue(file[r]) /\ OnceRequest(r)
  BY DEF Init, OnceRequest, StillToCome, Overdue, Empty
<1>3. AuditInv
  BY DEF Init, AuditInv, Empty
<1> QED
  BY <1>1, <1>2, <1>3 DEF SequentialInv

(* The invariant of one worker, with coherence.                             *)
LEMMA SequentialInvariant ==
    ASSUME SingleWorker
    PROVE  Spec => [](CoherentInv /\ SequentialInv)
<1>1. Init => CoherentInv /\ SequentialInv
  BY InitCoherent, InitSequential
<1>2. CoherentInv /\ SequentialInv /\ [Next]_vars => (CoherentInv /\ SequentialInv)'
  BY NextCoherent, NextSequential
<1> QED
  BY <1>1, <1>2, PTL DEF Spec

(* When calls of the store do not overlap, the same approval id releases at *)
(* most one click, whatever the user approves again, whenever the clock     *)
(* runs out and wherever the worker dies: consume_approval() stores the     *)
(* mark of use before the sidecar clicks, and no later write removes it.    *)
THEOREM OneEffect ==
    ASSUME SingleWorker
    PROVE  Spec => []AtMostOneEffect
<1>1. SequentialInv => AtMostOneEffect
  BY DEF SequentialInv, OnceRequest, AtMostOneEffect
<1> QED
  BY <1>1, SequentialInvariant, PTL

(* When calls do not overlap and the worker never dies, the audit log names *)
(* the stored outcome of every request between calls: update() notices each *)
(* terminal status it stores for the first time.                            *)
THEOREM AuditTrail ==
    ASSUME SingleWorker, NeverDies
    PROVE  Spec => []AuditAgrees
<1>1. Init => AuditInv
  BY InitSequential
<1>2. CoherentInv /\ SequentialInv /\ AuditInv /\ [Next]_vars => AuditInv'
  BY NextSequential
<1>3. AuditInv => AuditAgrees
  BY DEF AuditInv, AuditAgrees
<1> QED
  BY <1>1, <1>2, <1>3, SequentialInvariant, PTL DEF Spec

-----------------------------------------------------------------------------
(* RequestStore implements RequestLifecycle, step by step.                  *)

(* The status of every request, as the lifecycle sees it.                   *)
Abstract(f) == [r \in Requests |-> IF f[r] = NoReq THEN "absent" ELSE f[r].status]

(* A step that touches neither the file nor the effects is a stutter.       *)
LEMMA StutterRefines ==
    ASSUME UNCHANGED <<file, effects>>
    PROVE  UNCHANGED Lifecycle!vars
  BY DEF Lifecycle!vars

(* Requests that expire together.                                           *)
LEMMA ExpireRefines ==
    ASSUME UNCHANGED effects,
           \A r \in Requests :
              \/ Abstract(file')[r] = Abstract(file)[r]
              \/ Abstract(file)[r] # "absent" /\ Abstract(file')[r] = "expired"
    PROVE  Lifecycle!Next
<1> DEFINE S == {r \in Requests : Abstract(file')[r] # Abstract(file)[r]}
<1>1. S \in SUBSET {r \in Requests : Abstract(file)[r] # "absent"}
  OBVIOUS
<1>2. Abstract(file') = [r \in Requests |-> IF r \in S THEN "expired" ELSE Abstract(file)[r]]
  BY DEF Abstract
<1>3. Lifecycle!Expire
  BY <1>1, <1>2 DEF Lifecycle!Expire, Abstract
<1> QED
  BY <1>3 DEF Lifecycle!Next

(* One request changes its status.                                          *)
LEMMA OneChanges ==
    ASSUME NEW r \in Requests, NEW g, \A q \in Requests \ {r} : g[q] = file[q]
    PROVE  Abstract(g) = [Abstract(file) EXCEPT ![r] = Abstract(g)[r]]
  BY DEF Abstract

(* A write of the file is one or more expiries, the opening of a request,   *)
(* or one move of one request.                                              *)
LEMMA SaveRefines ==
    ASSUME CoherentInv, SequentialInv, NEW w \in Workers, Save(w)
    PROVE  [Lifecycle!Next]_(Lifecycle!vars)
<1>1. file' = snap[w] /\ effects' = effects
  BY SaveShape
<1>2. CASE pc[w] \in {"getsave", "listsave"}
  <2>1. \A r \in Requests :
           \/ Abstract(file')[r] = Abstract(file)[r]
           \/ Abstract(file)[r] # "absent" /\ Abstract(file')[r] = "expired"
    <3> SUFFICES ASSUME NEW r \in Requests
                 PROVE  \/ Abstract(file')[r] = Abstract(file)[r]
                        \/ Abstract(file)[r] # "absent" /\ Abstract(file')[r] = "expired"
      OBVIOUS
    <3>1. CASE snap[w][r] = file[r]
      BY <1>1, <3>1 DEF Abstract
    <3>2. CASE file[r] # NoReq /\ snap[w][r] # NoReq /\ snap[w][r].status = "expired"
      <4>1. file[r] \in Record
        BY <3>2, Frame
      <4> QED
        BY <1>1, <3>2, <4>1 DEF Abstract, Record, Status
    <3> QED
      BY <1>2, <3>1, <3>2, SaveShape
  <2> QED
    BY <1>1, <2>1, ExpireRefines
<1>3. CASE pc[w] = "createsave"
  <2>1. PICK r \in Requests :
        /\ file[r] = NoReq
        /\ \A q \in Requests \ {r} : snap[w][q] = file[q]
        /\ snap[w][r].status = NewRequest(r).status
    BY <1>3, SaveShape
  <2>2. Abstract(snap[w]) = [Abstract(file) EXCEPT ![r] = Abstract(snap[w])[r]]
    BY <2>1, OneChanges
  <2>3. CASE snap[w][r] = NoReq
    <3>1. Abstract(file') = Abstract(file)
      BY <1>1, <2>1, <2>3 DEF Abstract
    <3> QED
      BY <1>1, <3>1, ExpireRefines
  <2>4. CASE snap[w][r] # NoReq
    <3>1. Abstract(snap[w])[r] = IF TypeOf[r] = "takeover" THEN "user_control" ELSE "pending"
      BY <2>1, <2>4 DEF Abstract, NewRequest
    <3>2. Abstract(file)[r] = "absent"
      BY <2>1 DEF Abstract
    <3>3. Abstract(file') = [Abstract(file) EXCEPT ![r] =
                                IF TypeOf[r] = "takeover" THEN "user_control" ELSE "pending"]
      BY <1>1, <2>2, <3>1, Zenon
    <3>4. Lifecycle!Open(r)
      BY <1>1, <3>2, <3>3, Zenon DEF Lifecycle!Open, Abstract
    <3> QED
      BY <2>1, <3>4 DEF Lifecycle!Next
  <2> QED
    BY <2>3, <2>4
<1>4. CASE pc[w] \in {"updatesave", "quietsave"}
  <2>1. PICK r \in Requests :
        /\ r = target[w] /\ file[r] # NoReq /\ copy[w] # NoReq /\ snap[w][r] = copy[w]
        /\ \A q \in Requests \ {r} : snap[w][q] = file[q]
    BY <1>4, SaveShape
  <2>2. Moves(r, file[r].status, copy[w].status) /\ file[r] \in Record
    BY <1>4, <2>1, Frame DEF SequentialInv, InStep
  <2>3. Abstract(snap[w]) = [Abstract(file) EXCEPT ![r] = Abstract(snap[w])[r]]
    BY <2>1, OneChanges
  <2>4. Abstract(snap[w])[r] = copy[w].status /\ Abstract(file)[r] = file[r].status
    BY <2>1 DEF Abstract
  <2>5. CASE copy[w].status \in {file[r].status, "expired"}
    <3>1. \A q \in Requests :
             \/ Abstract(file')[q] = Abstract(file)[q]
             \/ Abstract(file)[q] # "absent" /\ Abstract(file')[q] = "expired"
      BY <1>1, <2>1, <2>2, <2>4, <2>5 DEF Abstract, Record, Status
    <3> QED
      BY <1>1, <3>1, ExpireRefines
  <2>6. CASE Lifecycle!Edge(r, file[r].status, copy[w].status)
    <3>1. copy[w].status \in {"fulfilled", "approved", "denied", "challenge_completed",
                              "released", "cancelled", "consumed"}
      BY <2>6 DEF Lifecycle!Edge
    <3>2. Abstract(file') = [Abstract(file) EXCEPT ![r] = copy[w].status]
      BY <1>1, <2>3, <2>4, Zenon
    <3>3. Lifecycle!Edge(r, Abstract(file)[r], copy[w].status)
      BY <2>4, <2>6 DEF Lifecycle!Edge, Lifecycle!Live
    <3>4. Lifecycle!Move(r)
      BY <1>1, <3>1, <3>2, <3>3, Zenon DEF Lifecycle!Move, Abstract
    <3> QED
      BY <2>1, <3>4 DEF Lifecycle!Next
  <2> QED
    BY <2>2, <2>5, <2>6 DEF Moves
<1> QED
  BY <1>2, <1>3, <1>4 DEF Save, Saving

(* A sensitive action is one the lifecycle allows.                          *)
LEMMA CarryOutRefines ==
    ASSUME CoherentInv, SequentialInv, NEW w \in Workers, CarryOut(w)
    PROVE  Lifecycle!Next
<1>1. PICK r \in Requests :
      /\ r = target[w] /\ copy[w] \in Record /\ HasEffect(call[w], r) /\ pc[w] = "effect"
      /\ InStep(w) /\ file' = file /\ effects' = [effects EXCEPT ![r] = @ + 1]
  BY DEF CarryOut, CoherentInv, InHand, Holding, SequentialInv
<1>2. file[r] = copy[w] /\ file[r] # NoReq
  BY <1>1, ConstantsAssumption DEF InStep
<1>3. TypeOf[r] \in {"approval", "provider"} => effects[r] = 0
  BY <1>1 DEF SequentialInv, OnceRequest, StillToCome
<1>4. \/ TypeOf[r] = "approval" /\ file[r].status = "consumed"
      \/ TypeOf[r] = "provider" /\ file[r].status = "fulfilled"
      \/ TypeOf[r] = "restart" /\ file[r].status = "approved"
  BY <1>1, <1>2 DEF HasEffect, InStep
<1>5. Lifecycle!CarryOut(r)
  BY <1>1, <1>2, <1>3, <1>4 DEF Lifecycle!CarryOut
<1> QED
  BY <1>1, <1>5 DEF Lifecycle!Next

(* Every step of the store is a step of the lifecycle or a stutter.         *)
LEMMA NextRefines ==
    ASSUME CoherentInv, SequentialInv, [Next]_vars
    PROVE  [Lifecycle!Next]_(Lifecycle!vars)
<1>1. CASE UNCHANGED <<file, effects>>
  BY <1>1, StutterRefines
<1>2. ASSUME NEW w \in Workers, Step(w), ~Save(w), ~CarryOut(w) PROVE UNCHANGED <<file, effects>>
  BY <1>2 DEF Step, Start, GetAgain, Create, List, Renew, CancelObsolete, CreateRestart,
     ListSection, SubmitCiphertext, Approve, Deny, Cancel, MarkChallengeCompleted,
     ReleaseTakeover, RecordTakeoverFrame, ConsumeApproval, Accept, RefuseExpired,
     VerifyApprovalScope, Decline, UpdateSection, Return, EffectFails, Crash
<1>3. ASSUME NEW w \in Workers, Step(w) PROVE [Lifecycle!Next]_(Lifecycle!vars)
  BY <1>1, <1>2, <1>3, SaveRefines, CarryOutRefines
<1> QED
  BY <1>1, <1>3 DEF Next, Tick, vars

(* When calls do not overlap, the store is an implementation of the         *)
(* lifecycle a request promises, for any number of requests and with        *)
(* crashes: every stored status follows an edge of the graph or expires,    *)
(* and a click, a provider key or a restart is carried out only in the      *)
(* status that allows it, the first two at most once.                       *)
THEOREM StoreImplementsLifecycle ==
    ASSUME SingleWorker
    PROVE  Spec => ImplementsLifecycle
<1>1. Init => Lifecycle!Init
  BY DEF Init, Lifecycle!Init, Empty
<1>2. CoherentInv /\ SequentialInv /\ [Next]_vars => [Lifecycle!Next]_(Lifecycle!vars)
  BY NextRefines
<1> QED
  BY <1>1, <1>2, SequentialInvariant, PTL DEF Spec, ImplementsLifecycle, Lifecycle!Spec
=============================================================================
