-------------------------- MODULE ChatQueueProofs --------------------------
(* Proofs about ChatQueue, for every number of messages, channels and        *)
(* workers and every duration that satisfies the assumptions.                *)
EXTENDS ChatQueueInv, TLAPS

USE DEF NoToken, NoMessage, Unsent

LEMMA ConstantTypes ==
    /\ MaxAge \in Nat /\ Slack \in Nat /\ MinLease \in Nat
    /\ PendingRetention \in Nat /\ DedupeDuration \in Nat /\ FailedRetention \in Nat
    /\ CleanupBatchSize \in Nat /\ HandleTimeout \in Nat
    /\ Skew \in Nat /\ TxLag \in Nat /\ PrepBound \in Nat
    /\ LeaseDuration \in Nat
    /\ LeaseDuration >= MaxAge + Slack
BY DurationAssumption DEF LeaseDuration

------------------------------------------------------------------------------
(* The steps of a worker keep the types of its variables. *)

LEMMA InitType == Init => TypeOK
BY DataAssumption DEF Init, TypeOK, States, PCs, Engaged

LEMMA IterationType ==
    ASSUME TypeOK, NEW w \in Workers, NEW next \in {"idle", "down"},
           EndIteration(w, next)
    PROVE  /\ pc' \in [Workers -> PCs]
           /\ txNow' \in [Workers -> Nat]
           /\ token' \in [Workers -> Tokens \union {NoToken}]
           /\ job' \in [Workers -> Messages \union {NoMessage}]
           /\ \A v \in Workers : pc'[v] \in Engaged => job'[v] \in Messages
           /\ cand' \in [Workers -> SUBSET Messages]
           /\ rowLocks' \in [Workers -> SUBSET Messages]
           /\ keyLocks' \in [Workers -> SUBSET Channels]
           /\ deadline' \in [Workers -> Nat]
           /\ outcome' \in [Workers -> {"none", "completed", "failed"}]
           /\ \A v \in Workers : pc'[v] = "finishing" => outcome'[v] # "none"
BY DEF TypeOK, EndIteration, EndClaim, PCs, Engaged

LEMMA ProducerType ==
    ASSUME TypeOK, NEW m \in Messages, Producer(m) \/ DropDelivery(m)
    PROVE  TypeOK'
<1>. USE ConstantTypes
<1>1. CASE Receive(m)
  BY <1>1 DEF Receive, TypeOK, Clock, rowVars, keyVars, workerVars, claimVars, lockVars,
              workVars
<1>2. CASE EnqueueDuplicate(m)
  BY <1>2 DEF EnqueueDuplicate, EndDelivery, TypeOK, rowVars, keyVars, workerVars,
              claimVars, lockVars, workVars
<1>3. CASE EnqueueInsert(m)
  BY <1>3 DEF EnqueueInsert, TypeOK, rowVars, keyVars, workerVars,
              claimVars, lockVars, workVars
<1>4. CASE EnqueueCommit(m)
  <2>1. /\ delivery' \in [Messages -> {"none", "received", "inserting"}]
        /\ stamp' \in [Messages -> Nat]
    <3>1. CASE EndDelivery(m)
      BY <3>1 DEF EndDelivery, TypeOK
    <3>2. CASE delivery' = [delivery EXCEPT ![m] = "received"] /\ UNCHANGED stamp
      BY <3>2 DEF TypeOK
    <3>. QED
      BY <1>4, <3>1, <3>2 DEF EnqueueCommit
  <2>2. rowState' \in [Messages -> States] /\ rowEnq' \in [Messages -> Nat]
    BY <1>4 DEF EnqueueCommit, TypeOK, States
  <2>. QED
    BY <1>4, <2>1, <2>2 DEF EnqueueCommit, TypeOK, keyVars, workerVars, claimVars,
                            lockVars, workVars
<1>5. CASE DropDelivery(m)
  BY <1>5 DEF DropDelivery, EndDelivery, TypeOK, rowVars, keyVars, workerVars,
              claimVars, lockVars, workVars
<1>. QED
  BY <1>1, <1>2, <1>3, <1>4, <1>5 DEF Producer

LEMMA ClaimType ==
    ASSUME TypeOK, NEW w \in Workers, Claim(w) \/ ClaimAbort(w)
    PROVE  TypeOK'
<1>. USE ConstantTypes
<1>. USE DEF wireVars, rowVars, keyVars, workerVars, claimVars, lockVars, workVars, PCs, Engaged
<1>1. CASE ClaimBegin(w)
  <2>1. (CHOOSE t \in FreshTokens : TRUE) \in Tokens
    BY <1>1 DEF ClaimBegin, FreshTokens
  <2>. QED
    BY <1>1, <2>1 DEF ClaimBegin, TypeOK
<1>2. CASE ClaimSnapshot(w)
  BY <1>2 DEF ClaimSnapshot, TypeOK
<1>3. CASE SkipRow(w)
  BY <1>3 DEF SkipRow, TypeOK
<1>4. CASE LockRow(w)
  BY <1>4 DEF LockRow, TypeOK
<1>5. CASE SkipKey(w)
  BY <1>5 DEF SkipKey, TypeOK
<1>6. CASE LockKey(w)
  <2>1. keyLocks' \in [Workers -> SUBSET Channels]
    <3>1. ChannelOf[job[w]] \in Channels
      BY <1>6, DataAssumption DEF LockKey, TypeOK
    <3>. QED
      BY <1>6, <3>1 DEF LockKey, TypeOK
  <2>2. pc' \in [Workers -> PCs] /\ cand' \in [Workers -> SUBSET Messages]
    <3>1. CASE pc' = [pc EXCEPT ![w] = "leasing"] /\ UNCHANGED cand
      BY <3>1 DEF TypeOK
    <3>2. CASE /\ pc' = [pc EXCEPT ![w] = "scanning"]
               /\ cand' = [cand EXCEPT ![w] = @ \ {job[w]}]
      BY <3>2 DEF TypeOK
    <3>. QED
      BY <1>6, <3>1, <3>2 DEF LockKey
  <2>3. /\ \A v \in Workers : pc'[v] \in Engaged => job'[v] \in Messages
        /\ \A v \in Workers : pc'[v] = "finishing" => outcome'[v] # "none"
    BY <1>6 DEF LockKey, TypeOK
  <2>. QED
    BY <1>6, <2>1, <2>2, <2>3 DEF LockKey, TypeOK
<1>7. CASE ClaimNothing(w)
  BY <1>7, IterationType DEF ClaimNothing, TypeOK
<1>8. CASE ClaimCommit(w)
  <2>1. /\ job[w] \in Messages
        /\ token[w] \in Tokens \union {NoToken}
        /\ txNow[w] + LeaseDuration \in Nat
    BY <1>8 DEF ClaimCommit, TypeOK
  <2>2. /\ keyToken' \in [Channels -> Tokens \union {NoToken}]
        /\ keyUntil' \in [Channels -> Nat]
        /\ rowToken' \in [Messages -> Tokens \union {NoToken}]
        /\ rowUntil' \in [Messages -> Nat]
    BY <1>8, <2>1 DEF ClaimCommit, TypeOK
  <2>3. CASE pc' = [pc EXCEPT ![w] = "claimed"] /\ EndClaim(w)
             /\ UNCHANGED <<job, claimVars, workVars>>
    BY <1>8, <2>1, <2>2, <2>3 DEF ClaimCommit, EndClaim, TypeOK
  <2>4. CASE EndIteration(w, "idle")
    BY <1>8, <2>2, <2>4, IterationType DEF ClaimCommit, TypeOK
  <2>. QED
    BY <1>8, <2>3, <2>4 DEF ClaimCommit
<1>9. CASE ClaimAbort(w)
  BY <1>9, IterationType DEF ClaimAbort, TypeOK
<1>. QED
  BY <1>1, <1>2, <1>3, <1>4, <1>5, <1>6, <1>7, <1>8, <1>9 DEF Claim

LEMMA WorkType ==
    ASSUME TypeOK, NEW w \in Workers, Work(w) \/ Crash(w) \/ Restart(w)
    PROVE  TypeOK'
<1>. USE ConstantTypes
<1>. USE DEF wireVars, rowVars, keyVars, workerVars, claimVars, lockVars, workVars, PCs, Engaged
<1>1. CASE DiscardStale(w)
  BY <1>1 DEF DiscardStale, Finishing, TypeOK
<1>2. CASE RejectPayload(w)
  BY <1>2 DEF RejectPayload, Finishing, TypeOK
<1>3. CASE Accept(w)
  BY <1>3 DEF Accept, TypeOK
<1>4. CASE Handle(w)
  BY <1>4 DEF Handle, TypeOK
<1>5. CASE HandlerReturns(w)
  BY <1>5 DEF HandlerReturns, Finishing, TypeOK
<1>6. CASE Finish(w)
  <2>1. /\ job[w] \in Messages
        /\ outcome[w] \in {"completed", "failed"}
    BY <1>6 DEF Finish, TypeOK
  <2>2. /\ rowState' \in [Messages -> States]
        /\ rowDone' \in [Messages -> Nat]
        /\ rowToken' \in [Messages -> Tokens \union {NoToken}]
        /\ rowUntil' \in [Messages -> Nat]
    BY <1>6, <2>1 DEF Finish, TypeOK, States
  <2>3. /\ keyToken' \in [Channels -> Tokens \union {NoToken}]
        /\ keyUntil' \in [Channels -> Nat]
    <3>1. CASE keyToken[ChannelOf[job[w]]] = token[w]
      <4>1. /\ keyToken' = [keyToken EXCEPT ![ChannelOf[job[w]]] = NoToken]
            /\ keyUntil' = [keyUntil EXCEPT ![ChannelOf[job[w]]] = 0]
        BY <1>6, <3>1 DEF Finish, ReleaseKey
      <4>. QED
        BY <4>1 DEF TypeOK
    <3>2. CASE keyToken[ChannelOf[job[w]]] # token[w]
      BY <1>6, <3>2 DEF Finish, ReleaseKey, keyVars, TypeOK
    <3>. QED
      BY <3>1, <3>2
  <2>4. CASE EndIteration(w, "idle")
    BY <1>6, <2>2, <2>3, <2>4, IterationType DEF Finish, TypeOK
  <2>5. CASE UNCHANGED workerVars
    BY <1>6, <2>2, <2>3, <2>5 DEF Finish, TypeOK
  <2>. QED
    BY <1>6, <2>4, <2>5 DEF Finish
<1>7. CASE FinishLeaseLost(w)
  BY <1>7, IterationType DEF FinishLeaseLost, TypeOK
<1>8. CASE Crash(w)
  BY <1>8, IterationType DEF Crash, TypeOK
<1>9. CASE Restart(w)
  BY <1>9 DEF Restart, TypeOK
<1>. QED
  BY <1>1, <1>2, <1>3, <1>4, <1>5, <1>6, <1>7, <1>8, <1>9 DEF Work

LEMMA CleanupType == TypeOK /\ Cleanup => TypeOK'
BY DEF Cleanup, DeleteRows, TypeOK, States, wireVars, keyVars, claimVars, workVars

LEMMA TickType == TypeOK /\ Tick => TypeOK'
BY DEF Tick, TypeOK, wireVars, rowVars, keyVars, workerVars, claimVars, lockVars, workVars

LEMMA StutterType == TypeOK /\ UNCHANGED vars => TypeOK'
BY DEF vars, TypeOK, wireVars, rowVars, keyVars, workerVars, claimVars, lockVars, workVars

LEMMA NextType == TypeOK /\ [Next]_vars => TypeOK'
BY ProducerType, ClaimType, WorkType, CleanupType, TickType, StutterType DEF Next

(* Every variable keeps its type. *)
THEOREM TypeCorrect == Spec => []TypeOK
BY InitType, NextType, PTL DEF Spec

------------------------------------------------------------------------------
(* What the steps of a worker leave alone. *)

WorkerStep(w) == Claim(w) \/ ClaimAbort(w) \/ Work(w) \/ Crash(w) \/ Restart(w)

(* The steps that only change the worker's own state. *)
Quiet(w) ==
    \/ ClaimBegin(w) \/ ClaimSnapshot(w) \/ SkipRow(w) \/ LockRow(w) \/ SkipKey(w)
    \/ LockKey(w) \/ ClaimNothing(w) \/ ClaimAbort(w)
    \/ DiscardStale(w) \/ RejectPayload(w) \/ Accept(w) \/ HandlerReturns(w)
    \/ FinishLeaseLost(w) \/ Crash(w) \/ Restart(w)

(* The local state of v is as it was. *)
SameWorker(v) ==
    /\ pc'[v] = pc[v] /\ txNow'[v] = txNow[v] /\ token'[v] = token[v] /\ job'[v] = job[v]
    /\ cand'[v] = cand[v] /\ rowLocks'[v] = rowLocks[v] /\ keyLocks'[v] = keyLocks[v]
    /\ deadline'[v] = deadline[v]
    /\ deadline'[v] = deadline[v] /\ outcome'[v] = outcome[v]

LEMMA WorkerSteps ==
    ASSUME NEW w \in Workers, WorkerStep(w)
    PROVE  Quiet(w) \/ ClaimCommit(w) \/ Handle(w) \/ Finish(w)
BY DEF WorkerStep, Claim, Work, Quiet

LEMMA QuietFrame ==
    ASSUME NEW w \in Workers, Quiet(w)
    PROVE  UNCHANGED <<now, wireVars, rowVars, keyVars, handled>>
BY DEF Quiet, ClaimBegin, ClaimSnapshot, SkipRow, LockRow, SkipKey, LockKey, ClaimNothing,
       ClaimAbort, DiscardStale, RejectPayload, Accept, HandlerReturns, FinishLeaseLost,
       Crash, Restart

LEMMA IterationFrame ==
    ASSUME TypeOK, NEW w \in Workers, NEW v \in Workers \ {w}, NEW next,
           EndIteration(w, next)
    PROVE  SameWorker(v)
BY DEF TypeOK, EndIteration, EndClaim, SameWorker

LEMMA OtherFrame ==
    ASSUME TypeOK, NEW w \in Workers, WorkerStep(w), NEW v \in Workers \ {w}
    PROVE  SameWorker(v)
<1>. USE DEF claimVars, lockVars, workVars, TypeOK
<1>1. CASE ClaimBegin(w)        BY <1>1 DEF ClaimBegin, SameWorker
<1>2. CASE ClaimSnapshot(w)     BY <1>2 DEF ClaimSnapshot, SameWorker
<1>3. CASE SkipRow(w)           BY <1>3 DEF SkipRow, SameWorker
<1>4. CASE LockRow(w)           BY <1>4 DEF LockRow, SameWorker
<1>5. CASE SkipKey(w)           BY <1>5 DEF SkipKey, SameWorker
<1>6. CASE LockKey(w)           BY <1>6 DEF LockKey, SameWorker
<1>7. CASE ClaimNothing(w)      BY <1>7, IterationFrame DEF ClaimNothing
<1>8. CASE ClaimCommit(w)
  <2>1. CASE pc' = [pc EXCEPT ![w] = "claimed"] /\ EndClaim(w)
             /\ UNCHANGED <<job, claimVars, workVars>>
    BY <2>1 DEF EndClaim, SameWorker
  <2>2. CASE EndIteration(w, "idle")
    BY <2>2, IterationFrame
  <2>. QED
    BY <1>8, <2>1, <2>2 DEF ClaimCommit
<1>9. CASE ClaimAbort(w)        BY <1>9, IterationFrame DEF ClaimAbort
<1>10. CASE DiscardStale(w)     BY <1>10 DEF DiscardStale, Finishing, SameWorker
<1>11. CASE RejectPayload(w)    BY <1>11 DEF RejectPayload, Finishing, SameWorker
<1>12. CASE Accept(w)           BY <1>12 DEF Accept, SameWorker
<1>13. CASE Handle(w)           BY <1>13 DEF Handle, SameWorker
<1>14. CASE HandlerReturns(w)   BY <1>14 DEF HandlerReturns, Finishing, SameWorker
<1>15. CASE Finish(w)
  <2>1. CASE EndIteration(w, "idle")
    BY <2>1, IterationFrame
  <2>2. CASE UNCHANGED workerVars
    BY <2>2 DEF workerVars, SameWorker
  <2>. QED
    BY <1>15, <2>1, <2>2 DEF Finish
<1>16. CASE FinishLeaseLost(w)  BY <1>16, IterationFrame DEF FinishLeaseLost
<1>17. CASE Crash(w)            BY <1>17, IterationFrame DEF Crash
<1>18. CASE Restart(w)          BY <1>18 DEF Restart, SameWorker
<1>. QED
  BY <1>1, <1>2, <1>3, <1>4, <1>5, <1>6, <1>7, <1>8, <1>9, <1>10, <1>11, <1>12, <1>13,
     <1>14, <1>15, <1>16, <1>17, <1>18 DEF WorkerStep, Claim, Work

------------------------------------------------------------------------------
(* SentInv *)

LEMMA SentStep ==
    ASSUME TypeOK, SentInv, ClaimInv, [Next]_vars
    PROVE  SentInv'
<1>. USE ConstantTypes
<1>1. ASSUME NEW n \in Messages, Producer(n) \/ DropDelivery(n)
      PROVE  SentInv'
  <2>1. CASE Receive(n)
    BY <2>1 DEF Receive, SentInv, TypeOK, rowVars
  <2>2. CASE EnqueueDuplicate(n)
    BY <2>2 DEF EnqueueDuplicate, EndDelivery, SentInv, TypeOK, rowVars
  <2>3. CASE EnqueueInsert(n)
    BY <2>3 DEF EnqueueInsert, SentInv, TypeOK, rowVars
  <2>4. CASE EnqueueCommit(n)
    <3>1. delivery'[n] \in {"none", "received"}
      BY <2>4 DEF EnqueueCommit, EndDelivery, TypeOK
    <3>2. \A m \in Messages \ {n} : delivery'[m] = delivery[m]
      BY <2>4 DEF EnqueueCommit, EndDelivery, TypeOK
    <3>. QED
      BY <2>4, <3>1, <3>2 DEF EnqueueCommit, SentInv, TypeOK
  <2>5. CASE DropDelivery(n)
    BY <2>5 DEF DropDelivery, EndDelivery, SentInv, TypeOK, rowVars
  <2>. QED
    BY <1>1, <2>1, <2>2, <2>3, <2>4, <2>5 DEF Producer
<1>2. ASSUME NEW w \in Workers, WorkerStep(w)
      PROVE  SentInv'
  <2>1. CASE Quiet(w)
    BY <2>1, QuietFrame DEF SentInv, wireVars, rowVars
  <2>2. CASE ClaimCommit(w)
    BY <2>2 DEF ClaimCommit, SentInv, wireVars
  <2>3. CASE Handle(w)
    <3>1. job[w] \in Messages /\ sent[job[w]] # Unsent
      BY <2>3 DEF Handle, ClaimInv, TypeOK, Engaged
    <3>. QED
      BY <2>3, <3>1 DEF Handle, SentInv, TypeOK, wireVars, rowVars
  <2>4. CASE Finish(w)
    <3>1. job[w] \in Messages /\ sent[job[w]] # Unsent
      BY <2>4 DEF Finish, ClaimInv, TypeOK, Engaged
    <3>2. rowState[job[w]] # "absent"
      BY <2>4 DEF Finish, HoldsLease
    <3>. QED
      BY <2>4, <3>1, <3>2 DEF Finish, SentInv, TypeOK, wireVars
  <2>. QED
    BY <1>2, <2>1, <2>2, <2>3, <2>4, WorkerSteps
<1>3. CASE Cleanup
  BY <1>3 DEF Cleanup, DeleteRows, SentInv, TypeOK, wireVars
<1>4. CASE Tick
  BY <1>4 DEF Tick, SentInv, TypeOK, wireVars, rowVars
<1>5. CASE UNCHANGED vars
  BY <1>5 DEF vars, SentInv, wireVars, rowVars
<1>. QED
  BY <1>1, <1>2, <1>3, <1>4, <1>5 DEF Next, WorkerStep

------------------------------------------------------------------------------
(* ClaimInv *)

(* What ClaimInv says of one worker. *)
ClaimOK(w) ==
    /\ txNow[w] <= now
    /\ pc[w] \notin {"idle", "down"} => token[w] \in Tokens
    /\ pc[w] = "begun" => now <= txNow[w] + TxLag
    /\ \A m \in cand[w] : rowState[m] # "absent" /\ sent[m] <= txNow[w] + TxLag + Skew
    /\ pc[w] \in Engaged
          => sent[job[w]] # Unsent /\ sent[job[w]] <= txNow[w] + TxLag + Skew

LEMMA IterationClaim ==
    ASSUME TypeOK, NEW w \in Workers, NEW next \in {"idle", "down"},
           EndIteration(w, next), now' = now
    PROVE  ClaimOK(w)'
BY DEF TypeOK, EndIteration, EndClaim, ClaimOK, Engaged

LEMMA ClaimStep ==
    ASSUME TypeOK, SentInv, ClaimInv, LockInv, [Next]_vars
    PROVE  ClaimInv'
<1>. USE ConstantTypes
<1>. SUFFICES ASSUME NEW v \in Workers PROVE ClaimOK(v)'
  BY DEF ClaimInv, ClaimOK
<1>0. ClaimOK(v)
  BY DEF ClaimInv, ClaimOK
<1>1. ASSUME NEW n \in Messages, Producer(n) \/ DropDelivery(n)
      PROVE  ClaimOK(v)'
  <2>1. CASE Receive(n)
    <3>1. \A m \in Messages : sent[m] # Unsent => sent'[m] = sent[m]
      BY <2>1 DEF Receive, TypeOK
    <3>2. \A m \in cand[v] : m \in Messages /\ sent[m] # Unsent
      BY <1>0 DEF SentInv, TypeOK, ClaimOK
    <3>3. pc[v] \in Engaged => job[v] \in Messages
      BY DEF TypeOK
    <3>. QED
      BY <1>0, <2>1, <3>1, <3>2, <3>3
         DEF Receive, ClaimOK, rowVars, workerVars, claimVars, lockVars
  <2>2. CASE EnqueueDuplicate(n)
    BY <1>0, <2>2 DEF EnqueueDuplicate, ClaimOK, rowVars, workerVars, claimVars, lockVars
  <2>3. CASE EnqueueInsert(n)
    BY <1>0, <2>3 DEF EnqueueInsert, ClaimOK, rowVars, workerVars, claimVars, lockVars
  <2>4. CASE EnqueueCommit(n)
    BY <1>0, <2>4 DEF EnqueueCommit, ClaimOK, TypeOK, workerVars, claimVars, lockVars
  <2>5. CASE DropDelivery(n)
    BY <1>0, <2>5 DEF DropDelivery, ClaimOK, rowVars, workerVars, claimVars, lockVars
  <2>. QED
    BY <1>1, <2>1, <2>2, <2>3, <2>4, <2>5 DEF Producer
<1>2. ASSUME NEW w \in Workers, WorkerStep(w), v # w
      PROVE  ClaimOK(v)'
  <2>1. SameWorker(v)
    BY <1>2, OtherFrame
  <2>2. now' = now /\ sent' = sent
    BY <1>2, WorkerSteps, QuietFrame DEF ClaimCommit, Handle, Finish, wireVars
  <2>3. \A m \in Messages : rowState[m] # "absent" => rowState'[m] # "absent"
    <3>1. CASE Finish(w)
      BY <3>1 DEF Finish, TypeOK
    <3>. QED
      BY <1>2, <3>1, WorkerSteps, QuietFrame DEF ClaimCommit, Handle, rowVars
  <2>. QED
    BY <1>0, <2>1, <2>2, <2>3 DEF SameWorker, ClaimOK, TypeOK
<1>3. ASSUME WorkerStep(v)
      PROVE  ClaimOK(v)'
  <2>. USE DEF wireVars, rowVars, claimVars, lockVars, Engaged
  <2>1. CASE ClaimBegin(v)
    <3>1. cand[v] = {} /\ (CHOOSE t \in FreshTokens : TRUE) \in Tokens
      BY <2>1 DEF ClaimBegin, LockInv, Locking, FreshTokens
    <3>2. token'[v] \in Tokens
      BY <2>1, <3>1 DEF ClaimBegin, TypeOK
    <3>3. cand' = cand /\ now' = now /\ txNow'[v] = now /\ pc'[v] = "begun"
      BY <2>1 DEF ClaimBegin, TypeOK
    <3>. QED
      BY <3>1, <3>2, <3>3 DEF ClaimOK, TypeOK
  <2>2. CASE ClaimSnapshot(v)
    <3>1. \A m \in Messages : Claimable(m, txNow[v]) => rowState[m] # "absent"
      BY DEF Claimable, RowFree
    <3>2. \A m \in Messages : sent[m] <= txNow[v] + TxLag + Skew
      BY <1>0, <2>2 DEF ClaimSnapshot, ClaimOK, SentInv, TypeOK
    <3>. QED
      BY <1>0, <2>2, <3>1, <3>2 DEF ClaimSnapshot, ClaimOK, TypeOK
  <2>3. CASE SkipRow(v)
    BY <1>0, <2>3 DEF SkipRow, ClaimOK, TypeOK
  <2>4. CASE LockRow(v)
    <3>1. PICK m \in Messages : IsNext(v, m) /\ job' = [job EXCEPT ![v] = m]
      BY <2>4 DEF LockRow
    <3>2. sent[m] # Unsent /\ sent[m] <= txNow[v] + TxLag + Skew
      BY <1>0, <3>1 DEF IsNext, ClaimOK, SentInv
    <3>. QED
      BY <1>0, <2>4, <3>1, <3>2 DEF LockRow, ClaimOK, TypeOK
  <2>5. CASE SkipKey(v)
    BY <1>0, <2>5 DEF SkipKey, ClaimOK, TypeOK
  <2>6. CASE LockKey(v)
    <3>1. CASE /\ pc' = [pc EXCEPT ![v] = "leasing"]
               /\ UNCHANGED cand
      BY <1>0, <2>6, <3>1 DEF LockKey, ClaimOK, TypeOK
    <3>2. CASE /\ pc' = [pc EXCEPT ![v] = "scanning"]
               /\ cand' = [cand EXCEPT ![v] = @ \ {job[v]}]
      BY <1>0, <2>6, <3>2 DEF LockKey, ClaimOK, TypeOK
    <3>. QED
      BY <2>6, <3>1, <3>2 DEF LockKey
  <2>7. CASE ClaimNothing(v)
    BY <2>7, IterationClaim DEF ClaimNothing
  <2>8. CASE ClaimCommit(v)
    <3>1. CASE pc' = [pc EXCEPT ![v] = "claimed"] /\ EndClaim(v)
               /\ UNCHANGED <<job, claimVars, workVars>>
      BY <1>0, <2>8, <3>1 DEF ClaimCommit, EndClaim, ClaimOK, TypeOK
    <3>2. CASE EndIteration(v, "idle")
      BY <2>8, <3>2, IterationClaim DEF ClaimCommit
    <3>. QED
      BY <2>8, <3>1, <3>2 DEF ClaimCommit
  <2>9. CASE ClaimAbort(v)
    BY <2>9, IterationClaim DEF ClaimAbort
  <2>10. CASE DiscardStale(v)
    BY <1>0, <2>10 DEF DiscardStale, Finishing, ClaimOK, TypeOK
  <2>11. CASE RejectPayload(v)
    BY <1>0, <2>11 DEF RejectPayload, Finishing, ClaimOK, TypeOK
  <2>12. CASE Accept(v)
    BY <1>0, <2>12 DEF Accept, ClaimOK, TypeOK
  <2>13. CASE Handle(v)
    BY <1>0, <2>13 DEF Handle, ClaimOK, TypeOK
  <2>14. CASE HandlerReturns(v)
    BY <1>0, <2>14 DEF HandlerReturns, Finishing, ClaimOK, TypeOK
  <2>15. CASE Finish(v)
    <3>1. CASE EndIteration(v, "idle")
      BY <2>15, <3>1, IterationClaim DEF Finish
    <3>2. CASE UNCHANGED workerVars
      <4>1. \A m \in Messages : rowState[m] # "absent" => rowState'[m] # "absent"
        BY <2>15 DEF Finish, TypeOK
      <4>. QED
        BY <1>0, <2>15, <3>2, <4>1 DEF Finish, ClaimOK, TypeOK, workerVars
    <3>. QED
      BY <2>15, <3>1, <3>2 DEF Finish
  <2>16. CASE FinishLeaseLost(v)
    BY <2>16, IterationClaim DEF FinishLeaseLost
  <2>17. CASE Crash(v)
    BY <2>17, IterationClaim DEF Crash
  <2>18. CASE Restart(v)
    BY <1>0, <2>18 DEF Restart, ClaimOK, TypeOK
  <2>. QED
    BY <1>3, <2>1, <2>2, <2>3, <2>4, <2>5, <2>6, <2>7, <2>8, <2>9, <2>10, <2>11, <2>12,
       <2>13, <2>14, <2>15, <2>16, <2>17, <2>18 DEF WorkerStep, Claim, Work
<1>4. CASE Cleanup
  BY <1>0, <1>4 DEF Cleanup, DeleteRows, ClaimOK, TypeOK, wireVars, claimVars
<1>5. CASE Tick
  BY <1>0, <1>5 DEF Tick, ClaimOK, TypeOK, wireVars, rowVars, workerVars, claimVars, lockVars
<1>6. CASE UNCHANGED vars
  BY <1>0, <1>6 DEF vars, ClaimOK, wireVars, rowVars, workerVars, claimVars, lockVars
<1>. QED
  BY <1>1, <1>2, <1>3, <1>4, <1>5, <1>6 DEF Next, WorkerStep

------------------------------------------------------------------------------
(* LockInv *)

(* What LockInv says of one worker, and of two. *)
LocksOK(w) ==
    /\ pc[w] \notin Locking => rowLocks[w] = {} /\ keyLocks[w] = {} /\ cand[w] = {}
    /\ pc[w] \in {"keying", "leasing"} => job[w] \in rowLocks[w]
    /\ pc[w] = "leasing"
          => ChannelOf[job[w]] \in keyLocks[w] /\ Claimable(job[w], txNow[w])
    /\ \A m \in rowLocks[w] : rowState[m] # "absent"
LocksDiffer(v, w) ==
    rowLocks[v] \intersect rowLocks[w] = {} /\ keyLocks[v] \intersect keyLocks[w] = {}

LEMMA LockInvParts ==
    LockInv <=> /\ \A w \in Workers : LocksOK(w)
                /\ \A v, w \in Workers : v # w => LocksDiffer(v, w)
BY DEF LockInv, LocksOK, LocksDiffer

LEMMA IterationLocks ==
    ASSUME TypeOK, NEW w \in Workers, NEW next \in {"idle", "down"}, EndIteration(w, next)
    PROVE  LocksOK(w)'
BY DEF TypeOK, EndIteration, EndClaim, LocksOK, Locking

(* The rows that other claims have locked stay as they are. *)
LEMMA LockedRowsStay ==
    ASSUME TypeOK, SentInv, LockInv, NEW w \in Workers, WorkerStep(w),
           NEW v \in Workers \ {w}
    PROVE  /\ \A m \in rowLocks[v] :
                 rowState'[m] = rowState[m] /\ rowToken'[m] = rowToken[m]
                 /\ rowUntil'[m] = rowUntil[m]
           /\ \A c \in keyLocks[v] :
                 keyToken'[c] = keyToken[c] /\ keyUntil'[c] = keyUntil[c]
<1>. rowLocks[v] \subseteq Messages /\ keyLocks[v] \subseteq Channels
  BY DEF TypeOK
<1>1. CASE Quiet(w) \/ Handle(w)
  BY <1>1, QuietFrame DEF Handle, rowVars, keyVars
<1>2. CASE ClaimCommit(w)
  <2>1. job[w] \in rowLocks[w] /\ ChannelOf[job[w]] \in keyLocks[w]
    BY <1>2 DEF ClaimCommit, LockInv
  <2>2. job[w] \notin rowLocks[v] /\ ChannelOf[job[w]] \notin keyLocks[v]
    BY <2>1 DEF LockInv
  <2>. QED
    BY <1>2, <2>2 DEF ClaimCommit, TypeOK
<1>3. CASE Finish(w)
  <2>1. job[w] \notin rowLocks[v] /\ ChannelOf[job[w]] \notin keyLocks[v]
    BY <1>3 DEF Finish, Unobstructed, RowLocked, KeyClaimed
  <2>2. \A c \in keyLocks[v] : keyToken'[c] = keyToken[c] /\ keyUntil'[c] = keyUntil[c]
    BY <1>3, <2>1 DEF Finish, ReleaseKey, TypeOK, keyVars
  <2>. QED
    BY <1>3, <2>1, <2>2 DEF Finish, TypeOK
<1>. QED
  BY <1>1, <1>2, <1>3, WorkerSteps

LEMMA LockStep ==
    ASSUME TypeOK, SentInv, ClaimInv, LockInv, [Next]_vars
    PROVE  LockInv'
<1>. USE ConstantTypes
<1>1. ASSUME NEW n \in Messages, Producer(n) \/ DropDelivery(n)
      PROVE  LockInv'
  <2>1. CASE EnqueueCommit(n)
    <3>1. rowState[n] = "absent"
      BY <2>1 DEF EnqueueCommit, SentInv
    <3>2. UNCHANGED <<pc, txNow, job, rowLocks, keyLocks, cand, rowToken, rowUntil,
                      keyToken, keyUntil>>
      BY <2>1 DEF EnqueueCommit, keyVars, workerVars, claimVars, lockVars
    <3>3. \A m \in Messages \ {n} : rowState'[m] = rowState[m]
      BY <2>1 DEF EnqueueCommit, TypeOK
    <3>4. ASSUME NEW v \in Workers
          PROVE  LocksOK(v)'
      <4>1. LocksOK(v) /\ n \notin rowLocks[v] /\ rowLocks[v] \subseteq Messages
        BY <3>1, LockInvParts DEF LocksOK, TypeOK
      <4>2. pc[v] = "leasing" => job[v] # n /\ job[v] \in Messages
        BY <4>1 DEF LocksOK
      <4>. QED
        BY <3>2, <3>3, <4>1, <4>2 DEF LocksOK, Claimable, RowFree, KeyFree
    <3>5. ASSUME NEW v \in Workers, NEW w \in Workers, v # w
          PROVE  LocksDiffer(v, w)'
      BY <3>2, <3>5, LockInvParts DEF LocksDiffer
    <3>. QED
      BY <3>4, <3>5, LockInvParts DEF LockInv, LocksOK, LocksDiffer
  <2>2. CASE Receive(n) \/ EnqueueDuplicate(n) \/ EnqueueInsert(n) \/ DropDelivery(n)
    <3>1. UNCHANGED <<pc, txNow, job, rowLocks, keyLocks, cand, rowState, rowToken,
                      rowUntil, keyToken, keyUntil>>
      BY <2>2 DEF Receive, EnqueueDuplicate, EnqueueInsert, DropDelivery,
                  rowVars, keyVars, workerVars, claimVars, lockVars
    <3>. QED
      BY <3>1 DEF LockInv, Claimable, RowFree, KeyFree
  <2>. QED
    BY <1>1, <2>1, <2>2 DEF Producer
<1>2. ASSUME NEW w \in Workers, WorkerStep(w)
      PROVE  LockInv'
  <2>1. ASSUME NEW v \in Workers \ {w}
        PROVE  LocksOK(v)'
    <3>1. SameWorker(v) /\ LocksOK(v)
      BY <1>2, OtherFrame, LockInvParts
    <3>2. pc[v] = "leasing" => job[v] \in rowLocks[v] /\ ChannelOf[job[v]] \in keyLocks[v]
      BY <3>1 DEF LocksOK
    <3>. QED
      BY <1>2, <3>1, <3>2, LockedRowsStay
         DEF SameWorker, LocksOK, Claimable, RowFree, KeyFree
  <2>2. LocksOK(w) /\ \A v \in Workers \ {w} : LocksDiffer(v, w) /\ SameWorker(v)
    BY <1>2, OtherFrame, LockInvParts
  <2>3. ASSUME UNCHANGED <<rowLocks, keyLocks>> \/ (rowLocks'[w] = {} /\ keyLocks'[w] = {})
        PROVE  \A v \in Workers \ {w} : LocksDiffer(v, w)'
    BY <2>2, <2>3 DEF LocksDiffer, SameWorker
  <2>4. ASSUME NEW next \in {"idle", "down"}, EndIteration(w, next)
        PROVE  LocksOK(w)' /\ rowLocks'[w] = {} /\ keyLocks'[w] = {}
    BY <2>4, IterationLocks DEF EndIteration, EndClaim, TypeOK
  <2>5. LocksOK(w)' /\ \A v \in Workers \ {w} : LocksDiffer(v, w)'
    <3>. USE DEF wireVars, rowVars, keyVars, claimVars, lockVars, Locking
    <3>1. CASE ClaimBegin(w)
      <4>1. UNCHANGED <<cand, rowLocks, keyLocks, rowState>> /\ pc'[w] = "begun"
            /\ pc[w] = "idle"
        BY <3>1 DEF ClaimBegin, TypeOK
      <4>. QED
        BY <2>2, <2>3, <4>1 DEF LocksOK
    <3>2. CASE ClaimSnapshot(w)
      BY <2>2, <2>3, <3>2 DEF ClaimSnapshot, LocksOK, TypeOK
    <3>3. CASE SkipRow(w)
      BY <2>2, <2>3, <3>3 DEF SkipRow, LocksOK, TypeOK
    <3>4. CASE LockRow(w)
      <4>1. PICK m \in Messages : /\ IsNext(w, m) /\ ~RowLocked(w, m)
                                  /\ rowLocks' = [rowLocks EXCEPT ![w] = @ \union {m}]
                                  /\ job' = [job EXCEPT ![w] = m]
        BY <3>4 DEF LockRow
      <4>2. rowState[m] # "absent"
        BY <4>1 DEF IsNext, ClaimInv
      <4>3. rowLocks'[w] = rowLocks[w] \union {m} /\ job'[w] = m /\ pc'[w] = "keying"
            /\ UNCHANGED <<rowState, keyLocks>>
        BY <3>4, <4>1 DEF LockRow, TypeOK
      <4>4. LocksOK(w)'
        BY <2>2, <4>2, <4>3 DEF LocksOK
      <4>5. \A v \in Workers \ {w} : m \notin rowLocks[v]
        BY <4>1 DEF RowLocked
      <4>. QED
        BY <2>2, <4>3, <4>4, <4>5 DEF LocksDiffer, SameWorker
    <3>5. CASE SkipKey(w)
      BY <2>2, <2>3, <3>5 DEF SkipKey, LocksOK, TypeOK
    <3>6. CASE LockKey(w)
      <4>1. keyLocks'[w] = keyLocks[w] \union {ChannelOf[job[w]]}
            /\ UNCHANGED <<rowVars, keyVars, job, txNow, rowLocks>>
            /\ pc[w] = "keying"
        BY <3>6 DEF LockKey, TypeOK
      <4>2. \/ pc'[w] = "leasing" /\ Claimable(job[w], txNow[w])
            \/ pc'[w] = "scanning"
        BY <3>6 DEF LockKey, TypeOK
      <4>3. LocksOK(w)'
        BY <2>2, <4>1, <4>2 DEF LocksOK, Claimable, RowFree, KeyFree
      <4>4. \A v \in Workers \ {w} : ChannelOf[job[w]] \notin keyLocks[v]
        BY <3>6 DEF LockKey, KeyLocked, KeyClaimed
      <4>. QED
        BY <2>2, <4>1, <4>3, <4>4 DEF LocksDiffer, SameWorker
    <3>7. CASE ClaimNothing(w) \/ ClaimAbort(w) \/ FinishLeaseLost(w) \/ Crash(w)
      BY <2>3, <2>4, <3>7 DEF ClaimNothing, ClaimAbort, FinishLeaseLost, Crash
    <3>8. CASE ClaimCommit(w)
      <4>1. CASE pc' = [pc EXCEPT ![w] = "claimed"] /\ EndClaim(w)
                 /\ UNCHANGED <<job, claimVars, workVars>>
        BY <2>3, <4>1 DEF EndClaim, LocksOK, TypeOK
      <4>2. CASE EndIteration(w, "idle")
        BY <2>3, <2>4, <4>2
      <4>. QED
        BY <3>8, <4>1, <4>2 DEF ClaimCommit
    <3>9. CASE DiscardStale(w) \/ RejectPayload(w) \/ Accept(w) \/ Handle(w)
               \/ HandlerReturns(w) \/ Restart(w)
      <4>1. UNCHANGED <<cand, rowLocks, keyLocks, rowState>>
            /\ pc[w] \notin Locking /\ pc'[w] \notin Locking
        BY <3>9 DEF DiscardStale, RejectPayload, Accept, Handle, HandlerReturns, Restart,
                    Finishing, TypeOK
      <4>. QED
        BY <2>2, <2>3, <4>1 DEF LocksOK
    <3>10. CASE Finish(w)
      <4>1. CASE EndIteration(w, "idle")
        BY <2>3, <2>4, <4>1
      <4>2. CASE UNCHANGED workerVars
        BY <2>2, <2>3, <3>10, <4>2 DEF Finish, LocksOK, workerVars
      <4>. QED
        BY <3>10, <4>1, <4>2 DEF Finish
    <3>. QED
      BY <1>2, <3>1, <3>2, <3>3, <3>4, <3>5, <3>6, <3>7, <3>8, <3>9, <3>10
         DEF WorkerStep, Claim, Work
  <2>6. ASSUME NEW u \in Workers, NEW v \in Workers, u # v
        PROVE  LocksDiffer(u, v)'
    <3>1. CASE u = w \/ v = w
      BY <2>5, <2>6, <3>1 DEF LocksDiffer
    <3>2. CASE u # w /\ v # w
      BY <2>2, <2>6, <3>2, LockInvParts DEF LocksDiffer, SameWorker
    <3>. QED
      BY <3>1, <3>2
  <2>7. \A v \in Workers : LocksOK(v)'
    BY <2>1, <2>5
  <2>. QED
    BY <2>6, <2>7 DEF LockInv, LocksOK, LocksDiffer
<1>3. CASE Cleanup
  <2>1. PICK D \in SUBSET Messages :
           /\ DeleteRows(D)
           /\ \A m \in D : Unlocked(m)
    BY <1>3 DEF Cleanup, Batches, StaleRows, DoneRows
  <2>2. UNCHANGED <<pc, txNow, job, rowLocks, keyLocks, keyToken, keyUntil>>
    BY <1>3 DEF Cleanup, keyVars, claimVars
  <2>3. \A v \in Workers : \A m \in rowLocks[v] :
           rowState'[m] = rowState[m] /\ rowToken'[m] = rowToken[m]
           /\ rowUntil'[m] = rowUntil[m]
    BY <2>1 DEF DeleteRows, Unlocked, TypeOK
  <2>4. ASSUME NEW v \in Workers
        PROVE  LocksOK(v)'
    <3>1. LocksOK(v) /\ cand'[v] \subseteq cand[v]
      BY <2>1, LockInvParts DEF DeleteRows
    <3>. QED
      BY <2>2, <2>3, <3>1 DEF LocksOK, Claimable, RowFree, KeyFree
  <2>. QED
    BY <2>2, <2>4 DEF LockInv, LocksOK
<1>4. CASE Tick \/ UNCHANGED vars
  <2>1. UNCHANGED <<pc, txNow, job, rowLocks, keyLocks, cand, rowState, rowToken,
                    rowUntil, keyToken, keyUntil>>
    BY <1>4 DEF Tick, vars, rowVars, keyVars, workerVars, claimVars, lockVars
  <2>. QED
    BY <2>1 DEF LockInv, Claimable, RowFree, KeyFree
<1>. QED
  BY <1>1, <1>2, <1>3, <1>4 DEF Next, WorkerStep

------------------------------------------------------------------------------
(* OnceInv *)

(* Time does not go back. *)
LEMMA TimePasses ==
    ASSUME TypeOK, [Next]_vars
    PROVE  now' \in Nat /\ now' >= now
<1>1. ASSUME NEW n \in Messages, Producer(n) \/ DropDelivery(n)
      PROVE  now' = now
  BY <1>1 DEF Producer, Receive, EnqueueDuplicate, EnqueueInsert, EnqueueCommit,
              DropDelivery
<1>2. ASSUME NEW w \in Workers, WorkerStep(w)
      PROVE  now' = now
  BY <1>2, WorkerSteps, QuietFrame DEF ClaimCommit, Handle, Finish
<1>3. CASE Cleanup \/ UNCHANGED vars
  <2>1. now' = now
    BY <1>3 DEF Cleanup, vars
  <2>. QED
    BY <2>1 DEF TypeOK
<1>4. CASE Tick
  BY <1>4 DEF Tick, TypeOK
<1>. QED
  BY <1>1, <1>2, <1>3, <1>4 DEF Next, WorkerStep, TypeOK

(* Timestamps do not change, and so what is too old stays too old. *)
LEMMA SentStays ==
    ASSUME TypeOK, [Next]_vars, NEW m \in Messages, sent[m] # Unsent
    PROVE  sent'[m] = sent[m] /\ now' >= now /\ (Expired(m) => Expired(m)')
<1>1. sent'[m] = sent[m]
  <2>1. ASSUME NEW n \in Messages, Producer(n) \/ DropDelivery(n)
        PROVE  sent'[m] = sent[m]
    <3>1. CASE Receive(n)
      <4>1. CASE UNCHANGED sent
        BY <4>1
      <4>2. CASE sent[n] = Unsent /\ \E t \in 0 .. (now + Skew) : sent' = [sent EXCEPT ![n] = t]
        BY <4>2 DEF TypeOK
      <4>. QED
        BY <3>1, <4>1, <4>2 DEF Receive
    <3>2. CASE ~Receive(n)
      BY <2>1, <3>2 DEF Producer, EnqueueDuplicate, EnqueueInsert, EnqueueCommit,
                        DropDelivery
    <3>. QED
      BY <3>1, <3>2
  <2>2. ASSUME NEW w \in Workers, WorkerStep(w)
        PROVE  sent'[m] = sent[m]
    BY <2>2, WorkerSteps, QuietFrame DEF ClaimCommit, Handle, Finish, wireVars
  <2>3. CASE Cleanup \/ Tick \/ UNCHANGED vars
    BY <2>3 DEF Cleanup, Tick, vars, wireVars
  <2>. QED
    BY <2>1, <2>2, <2>3 DEF Next, WorkerStep
<1>2. now' \in Nat /\ now' >= now
  BY TimePasses
<1>. QED
  BY <1>1, <1>2, ConstantTypes DEF Expired, Horizon, TypeOK

(* A message that is closed and yet may be claimed or deleted as pending is *)
(* too old.                                                                 *)
LEMMA FreeIsExpired ==
    ASSUME TypeOK, NEW m \in Messages, NEW n \in Nat, n <= now, RowFree(m, n), Closed(m)
    PROVE  Expired(m)
BY ConstantTypes DEF RowFree, LeaseFree, Closed, Expired, Horizon, TypeOK

LEMMA ClosedStays ==
    ASSUME TypeOK, SentInv, ClaimInv, LockInv, [Next]_vars,
           NEW m \in Messages, sent[m] # Unsent, Closed(m)
    PROVE  Closed(m)'
<1>. USE ConstantTypes
<1>0. sent'[m] = sent[m] /\ now' >= now /\ (Expired(m) => Expired(m)')
  BY SentStays
<1>1. CASE UNCHANGED <<rowState, rowToken, rowUntil, rowDone>>
  BY <1>0, <1>1 DEF Closed, Horizon
<1>2. ASSUME NEW n \in Messages, EnqueueCommit(n)
      PROVE  Closed(m)'
  <2>1. CASE n = m
    BY <1>0, <1>2, <2>1 DEF EnqueueCommit, SentInv, Closed
  <2>2. CASE n # m
    <3>1. rowState'[m] = rowState[m] /\ UNCHANGED <<rowToken, rowUntil, rowDone>>
      BY <1>2, <2>2 DEF EnqueueCommit, TypeOK
    <3>. QED
      BY <1>0, <3>1 DEF Closed, Horizon
  <2>. QED
    BY <2>1, <2>2
<1>3. ASSUME NEW w \in Workers, ClaimCommit(w)
      PROVE  Closed(m)'
  <2>1. CASE job[w] = m
    <3>1. RowFree(m, txNow[w]) /\ txNow[w] \in Nat /\ txNow[w] <= now
      BY <1>3, <2>1 DEF ClaimCommit, LockInv, ClaimInv, Claimable, TypeOK
    <3>. QED
      BY <1>0, <3>1, FreeIsExpired DEF Closed
  <2>2. CASE job[w] # m
    <3>1. /\ rowToken'[m] = rowToken[m] /\ rowUntil'[m] = rowUntil[m]
          /\ UNCHANGED <<rowState, rowDone>>
      BY <1>3, <2>2 DEF ClaimCommit, TypeOK
    <3>. QED
      BY <1>0, <3>1 DEF Closed, Horizon
  <2>. QED
    BY <2>1, <2>2
<1>4. ASSUME NEW w \in Workers, Finish(w)
      PROVE  Closed(m)'
  <2>1. CASE job[w] = m
    <3>1. /\ rowState'[m] \in {"completed", "failed"}
          /\ rowDone'[m] = now
      BY <1>4, <2>1 DEF Finish, TypeOK
    <3>2. sent[m] <= now + Skew
      BY DEF SentInv
    <3>. QED
      BY <1>0, <3>1, <3>2 DEF Closed
  <2>2. CASE job[w] # m
    <3>1. /\ rowToken'[m] = rowToken[m] /\ rowUntil'[m] = rowUntil[m]
          /\ rowState'[m] = rowState[m] /\ rowDone'[m] = rowDone[m]
      BY <1>4, <2>2 DEF Finish, TypeOK
    <3>. QED
      BY <1>0, <3>1 DEF Closed, Horizon
  <2>. QED
    BY <2>1, <2>2
<1>5. CASE Cleanup
  <2>1. PICK a \in 0 .. (now + Skew) :
           \E S \in Batches(StaleRows(a - PendingRetention), sent),
              C \in Batches(DoneRows("completed", a - DedupeDuration), rowDone),
              F \in Batches(DoneRows("failed", a - FailedRetention), rowDone) :
                 DeleteRows(S \union C \union F)
    BY <1>5 DEF Cleanup
  <2>2. PICK S \in SUBSET StaleRows(a - PendingRetention),
             C \in SUBSET DoneRows("completed", a - DedupeDuration),
             F \in SUBSET DoneRows("failed", a - FailedRetention) :
                DeleteRows(S \union C \union F)
    BY <2>1 DEF Batches
  <2>3. CASE m \in S
    <3>1. RowFree(m, now)
      BY <2>3 DEF StaleRows
    <3>. QED
      BY <1>0, <3>1, FreeIsExpired DEF Closed, TypeOK
  <2>4. CASE m \in C \union F
    <3>1. /\ rowState[m] \in {"completed", "failed"}
          /\ rowDone[m] <= a - DedupeDuration \/ rowDone[m] <= a - FailedRetention
      BY <2>4 DEF DoneRows
    <3>2. Expired(m) \/ rowDone[m] + Skew >= sent[m]
      BY <3>1 DEF Closed
    <3>3. a <= now + Skew /\ a \in Nat /\ now \in Nat /\ rowDone[m] \in Nat /\ sent[m] \in Int
      BY DEF TypeOK
    <3>4. Expired(m)
      BY <3>1, <3>2, <3>3, TimingAssumption DEF Expired, Horizon
    <3>. QED
      BY <1>0, <3>4 DEF Closed
  <2>5. CASE m \notin S \union C \union F
    <3>1. /\ rowToken'[m] = rowToken[m] /\ rowUntil'[m] = rowUntil[m]
          /\ rowState'[m] = rowState[m] /\ rowDone'[m] = rowDone[m]
      BY <2>2, <2>5 DEF DeleteRows, TypeOK
    <3>. QED
      BY <1>0, <3>1 DEF Closed, Horizon
  <2>. QED
    BY <2>3, <2>4, <2>5
<1>6. ASSUME NEW n \in Messages, Producer(n) \/ DropDelivery(n)
      PROVE  Closed(m)'
  BY <1>1, <1>2, <1>6 DEF Producer, Receive, EnqueueDuplicate, EnqueueInsert, DropDelivery,
                          rowVars
<1>7. ASSUME NEW w \in Workers, WorkerStep(w)
      PROVE  Closed(m)'
  BY <1>1, <1>3, <1>4, <1>7, WorkerSteps, QuietFrame DEF Handle, rowVars
<1>8. CASE Tick \/ UNCHANGED vars
  BY <1>1, <1>8 DEF Tick, vars, rowVars
<1>. QED
  BY <1>5, <1>6, <1>7, <1>8 DEF Next, WorkerStep

(* A fresh lease ends when the message is too old. *)
LEMMA FreshLease ==
    ASSUME TypeOK, ClaimInv, LockInv, NEW w \in Workers, ClaimCommit(w),
           NEW m \in Messages, m = job[w]
    PROVE  Closed(m)'
<1>. USE ConstantTypes
<1>1. /\ sent[m] <= txNow[w] + TxLag + Skew
      /\ rowState[m] = "pending"
      /\ token[w] \in Tokens
  BY DEF ClaimCommit, ClaimInv, LockInv, Claimable, RowFree, TypeOK, Engaged
<1>2. /\ rowState'[m] = "pending"
      /\ rowToken'[m] = token[w]
      /\ rowUntil'[m] = txNow[w] + LeaseDuration
      /\ sent' = sent
  BY <1>1 DEF ClaimCommit, TypeOK, wireVars
<1>3. txNow[w] + LeaseDuration > sent[m] + MaxAge + Skew
  BY <1>1, TimingAssumption DEF TypeOK
<1>4. rowToken'[m] # NoToken
  BY <1>1, <1>2, DataAssumption DEF NoToken
<1>5. rowUntil'[m] > Horizon(m)'
  BY <1>2, <1>3 DEF Horizon
<1>. QED
  BY <1>1, <1>2, <1>4, <1>5 DEF Closed

LEMMA TakenSent ==
    ASSUME TypeOK, SentInv, ClaimInv, NEW m \in Messages, Taken(m)
    PROVE  sent[m] # Unsent
BY DEF Taken, SentInv, ClaimInv, Undecided, Engaged

(* A step after which nobody is newly undecided keeps OnceInv. *)
LEMMA OnceFrame ==
    ASSUME TypeOK, SentInv, ClaimInv, LockInv, OnceInv, [Next]_vars,
           handled' = handled,
           \A v \in Workers : pc'[v] \in Undecided => pc'[v] = pc[v] /\ job'[v] = job[v]
    PROVE  OnceInv'
<1>1. ASSUME NEW m \in Messages
      PROVE  handled'[m] <= 1 /\ (Taken(m)' => Closed(m)')
  <2>1. Taken(m)' => Taken(m)
    BY DEF Taken
  <2>. QED
    BY <2>1, TakenSent, ClosedStays DEF OnceInv
<1>2. ASSUME NEW v \in Workers, pc'[v] \in Undecided
      PROVE  job[v] \in Messages /\ (Expired(job[v]) => Expired(job[v])')
  <2>1. /\ job'[v] = job[v]
        /\ job[v] \in Messages
        /\ sent[job[v]] # Unsent
    BY <1>2 DEF Undecided, Engaged, ClaimInv, TypeOK
  <2>2. PICK m \in Messages : m = job[v] /\ m = job'[v]
    BY <2>1
  <2>3. Expired(m) => Expired(m)'
    BY <2>1, <2>2, SentStays
  <2>. QED
    BY <2>1, <2>2, <2>3 DEF Expired, Horizon
<1>. QED
  BY <1>1, <1>2 DEF OnceInv, Undecided, Expired, Horizon

LEMMA OnceStep ==
    ASSUME TypeOK, SentInv, ClaimInv, LockInv, OnceInv, [Next]_vars
    PROVE  OnceInv'
<1>. USE ConstantTypes
<1>1. ASSUME NEW n \in Messages, Producer(n) \/ DropDelivery(n)
      PROVE  OnceInv'
  <2>1. UNCHANGED <<pc, job, handled>>
    BY <1>1 DEF Producer, Receive, EnqueueDuplicate, EnqueueInsert, EnqueueCommit,
                DropDelivery, workerVars
  <2>. QED
    BY <2>1, OnceFrame
<1>2. CASE Cleanup \/ Tick \/ UNCHANGED vars
  <2>1. UNCHANGED <<pc, job, handled>>
    BY <1>2 DEF Cleanup, Tick, vars, workerVars
  <2>. QED
    BY <2>1, OnceFrame
<1>3. ASSUME NEW w \in Workers, WorkerStep(w)
      PROVE  OnceInv'
  <2>1. \A v \in Workers \ {w} : pc'[v] = pc[v] /\ job'[v] = job[v]
    BY <1>3, OtherFrame DEF SameWorker
  <2>2. ASSUME handled' = handled, pc'[w] \notin Undecided
        PROVE  OnceInv'
    BY <2>1, <2>2, OnceFrame
  <2>3. ASSUME handled' = handled, UNCHANGED <<pc, job>>
        PROVE  OnceInv'
    BY <2>3, OnceFrame
  <2>4. ASSUME NEW next \in {"idle", "down"}, EndIteration(w, next)
        PROVE  pc'[w] \notin Undecided
    BY <2>4 DEF EndIteration, Undecided, TypeOK
  <2>5. CASE ClaimCommit(w)
    <3>0. PICK m \in Messages : m = job[w]
      BY <2>5 DEF ClaimCommit, Engaged, TypeOK
    <3>. USE <3>0
    <3>1. /\ m \in Messages /\ handled' = handled /\ pc[w] \notin Undecided
          /\ RowFree(m, txNow[w]) /\ txNow[w] \in Nat /\ txNow[w] <= now
          /\ UNCHANGED <<now, sent>>
      BY <2>5, <3>0 DEF ClaimCommit, LockInv, ClaimInv, Claimable, TypeOK, Engaged, Undecided,
                  wireVars
    <3>2. CASE EndIteration(w, "idle")
      BY <2>2, <2>4, <3>1, <3>2
    <3>3. CASE pc' = [pc EXCEPT ![w] = "claimed"] /\ UNCHANGED job
      <4>1. pc'[w] = "claimed" /\ job' = job
        BY <3>3 DEF TypeOK
      <4>2. Taken(m) => Expired(m)
        BY <3>1, FreeIsExpired DEF OnceInv
      <4>3. Closed(m)'
        BY <2>5, <3>1, FreshLease
      <4>4. ASSUME NEW n \in Messages
            PROVE  handled'[n] <= 1 /\ (Taken(n)' => Closed(n)')
        <5>1. CASE n = m
          BY <3>1, <4>3, <5>1 DEF OnceInv
        <5>2. CASE n # m
          <6>1. Taken(n)' => Taken(n)
            BY <2>1, <3>1, <4>1, <5>2 DEF Taken
          <6>. QED
            BY <3>1, <6>1, TakenSent, ClosedStays DEF OnceInv
        <5>. QED
          BY <5>1, <5>2
      <4>5. \A n \in Messages : Expired(n)' <=> Expired(n)
        BY <3>1 DEF Expired, Horizon
      <4>6. ASSUME NEW v \in Workers, pc'[v] \in Undecided
            PROVE  v # w => pc[v] \in Undecided /\ pc'[v] = pc[v]
        BY <2>1, <4>6
      <4>7. \A v \in Workers :
               /\ pc'[v] = "accepted" => handled'[job'[v]] = 0
               /\ pc'[v] = "claimed" /\ ~Expired(job[v]) => handled'[job'[v]] = 0
        <5>1. ~Expired(m) => handled[m] = 0
          BY <3>1, <4>2 DEF Taken, TypeOK
        <5>. QED
          BY <2>1, <3>1, <4>1, <5>1 DEF OnceInv, Undecided
      <4>8. ASSUME NEW u \in Workers, NEW v \in Workers, u # v,
                   pc'[u] \in Undecided, pc'[v] \in Undecided, job[u] = job[v]
            PROVE  Expired(job[u]) /\ (pc'[u] = "claimed" \/ pc'[v] = "claimed")
        <5>1. CASE u # w /\ v # w
          BY <4>6, <4>8, <5>1 DEF OnceInv
        <5>2. CASE u = w \/ v = w
          BY <3>1, <4>1, <4>2, <4>6, <4>8, <5>2 DEF Taken
        <5>. QED
          BY <5>1, <5>2
      <4>9. \A v \in Workers : pc'[v] \in Undecided => job[v] \in Messages
        BY <3>1, <4>6 DEF Undecided, Engaged, TypeOK
      <4>10. \A v \in Workers :
                pc'[v] \in Undecided => (Expired(job[v])' <=> Expired(job[v]))
        BY <3>1, <4>1 DEF Expired, Horizon
      <4>. QED
        BY <4>1, <4>4, <4>7, <4>8, <4>10 DEF OnceInv, Undecided
    <3>. QED
      BY <2>5, <3>2, <3>3 DEF ClaimCommit
  <2>6. CASE Accept(w)
    <3>0. PICK m \in Messages : m = job[w]
      BY <2>6 DEF Accept, Engaged, TypeOK
    <3>. USE <3>0
    <3>1. /\ m \in Messages /\ pc[w] = "claimed" /\ pc'[w] = "accepted"
          /\ UNCHANGED <<now, sent, job, handled>>
          /\ \E a \in Clock : a - sent[m] <= MaxAge
      BY <2>6, <3>0 DEF Accept, Engaged, TypeOK, wireVars
    <3>2. ~Expired(m)
      BY <3>1 DEF Clock, Expired, Horizon, TypeOK
    <3>3. /\ handled[m] = 0
          /\ \A v \in Workers \ {w} : pc[v] \in Undecided => job[v] # m
      BY <3>1, <3>2 DEF OnceInv, Undecided
    <3>4. ASSUME NEW n \in Messages
          PROVE  handled'[n] <= 1 /\ (Taken(n)' => Closed(n)')
      <4>1. Taken(n)' => Taken(n)
        BY <2>1, <3>1 DEF Taken, Undecided
      <4>. QED
        BY <3>1, <4>1, TakenSent, ClosedStays DEF OnceInv
    <3>5. \A v \in Workers : Expired(job[v])' <=> Expired(job[v])
      BY <3>1 DEF Expired, Horizon
    <3>. QED
      BY <2>1, <3>1, <3>3, <3>4, <3>5 DEF OnceInv, Undecided
  <2>7. CASE Handle(w)
    <3>0. PICK m \in Messages : m = job[w]
      BY <2>7 DEF Handle, Engaged, TypeOK
    <3>. USE <3>0
    <3>1. /\ m \in Messages /\ pc[w] = "accepted" /\ pc'[w] = "handling"
          /\ UNCHANGED <<now, sent, job>>
          /\ handled[m] = 0 /\ handled' = [handled EXCEPT ![m] = 1]
      <4>1. pc[w] = "accepted" /\ handled[m] = 0
        BY <2>7 DEF Handle, OnceInv
      <4>2. pc'[w] = "handling" /\ UNCHANGED <<now, sent, job>>
        BY <2>7 DEF Handle, wireVars, TypeOK
      <4>3. handled' = [handled EXCEPT ![m] = handled[m] + 1]
        BY <2>7 DEF Handle
      <4>. QED
        BY <4>1, <4>2, <4>3
    <3>2. ASSUME NEW v \in Workers \ {w}, pc[v] \in Undecided, job[v] = m
          PROVE  Expired(m) /\ pc[v] = "claimed"
      BY <3>1, <3>2 DEF OnceInv, Undecided
    <3>3. ASSUME NEW n \in Messages
          PROVE  handled'[n] <= 1 /\ (Taken(n)' => Closed(n)')
      <4>1. Taken(n)' => Taken(n)
        BY <2>1, <3>1 DEF Taken, Undecided, TypeOK
      <4>2. handled'[n] <= 1
        BY <3>1 DEF OnceInv, TypeOK
      <4>. QED
        BY <4>1, <4>2, TakenSent, ClosedStays DEF OnceInv
    <3>4. \A v \in Workers : Expired(job[v])' <=> Expired(job[v])
      BY <3>1 DEF Expired, Horizon
    <3>5. ASSUME NEW v \in Workers, pc'[v] \in Undecided
          PROVE  /\ v # w /\ pc'[v] = pc[v] /\ job[v] \in Messages
                 /\ job[v] # m => handled'[job[v]] = handled[job[v]]
      BY <2>1, <3>1, <3>5 DEF Undecided, Engaged, TypeOK
    <3>6. ASSUME NEW v \in Workers, pc'[v] \in Undecided
          PROVE  /\ pc'[v] = "accepted" => handled'[job'[v]] = 0
                 /\ pc'[v] = "claimed" /\ ~Expired(job[v])' => handled'[job'[v]] = 0
      BY <3>1, <3>2, <3>4, <3>5, <3>6 DEF OnceInv, Undecided
    <3>7. ASSUME NEW u \in Workers, NEW v \in Workers, u # v,
                 pc'[u] \in Undecided, pc'[v] \in Undecided, job'[u] = job'[v]
          PROVE  Expired(job[u])' /\ (pc'[u] = "claimed" \/ pc'[v] = "claimed")
      BY <3>1, <3>4, <3>5, <3>7 DEF OnceInv, Undecided
    <3>. QED
      BY <3>3, <3>6, <3>7 DEF OnceInv, Undecided
  <2>8. CASE Finish(w)
    <3>1. handled' = handled
      BY <2>8 DEF Finish
    <3>2. CASE EndIteration(w, "idle")
      BY <2>2, <2>4, <3>1, <3>2
    <3>3. CASE UNCHANGED workerVars
      BY <2>3, <3>1, <3>3 DEF workerVars
    <3>. QED
      BY <2>8, <3>2, <3>3 DEF Finish
  <2>9. CASE Quiet(w) /\ ~Accept(w)
    <3>1. handled' = handled
      BY <2>9, QuietFrame
    <3>2. pc'[w] \notin Undecided
      <4>1. CASE ClaimNothing(w) \/ ClaimAbort(w) \/ FinishLeaseLost(w) \/ Crash(w)
        BY <2>4, <4>1 DEF ClaimNothing, ClaimAbort, FinishLeaseLost, Crash
      <4>2. CASE ~(ClaimNothing(w) \/ ClaimAbort(w) \/ FinishLeaseLost(w) \/ Crash(w))
        BY <2>9, <4>2
           DEF Quiet, ClaimBegin, ClaimSnapshot, SkipRow, LockRow, SkipKey, LockKey,
               DiscardStale, RejectPayload, HandlerReturns, Restart, Finishing, Undecided,
               TypeOK
      <4>. QED
        BY <4>1, <4>2
    <3>. QED
      BY <2>2, <3>1, <3>2
  <2>. QED
    BY <1>3, <2>5, <2>6, <2>7, <2>8, <2>9, WorkerSteps
<1>. QED
  BY <1>1, <1>2, <1>3 DEF Next, WorkerStep

(* The inductive invariant. *)
THEOREM AtMostOnceInvariant == Spec => []AtMostOnceInv
<1>1. Init => AtMostOnceInv
  <2>1. ASSUME Init
        PROVE  AtMostOnceInv
    <3>1. TypeOK
      BY <2>1, InitType
    <3>2. SentInv /\ ClaimInv /\ LockInv /\ OnceInv
      BY <2>1, ConstantTypes
         DEF Init, SentInv, ClaimInv, LockInv, OnceInv, Taken, Locking, Undecided, Engaged
    <3>. QED
      BY <3>1, <3>2 DEF AtMostOnceInv
  <2>. QED
    BY <2>1
<1>2. AtMostOnceInv /\ [Next]_vars => AtMostOnceInv'
  BY NextType, SentStep, ClaimStep, LockStep, OnceStep DEF AtMostOnceInv
<1>. QED
  BY <1>1, <1>2, PTL DEF Spec

(* No message is handled twice, for any number of workers, messages and      *)
(* crashes, and whatever a worker's speed.                                   *)
THEOREM HandledOnce == Spec => []HandledAtMostOnce
<1>1. AtMostOnceInv => HandledAtMostOnce
  BY DEF AtMostOnceInv, OnceInv, HandledAtMostOnce
<1>. QED
  BY <1>1, AtMostOnceInvariant, PTL

------------------------------------------------------------------------------
(* TokenInv *)

TokenOK(v) ==
    /\ pc[v] \in {"idle", "down"} => token[v] = NoToken
    /\ token[v] # NoToken =>
          /\ \A m \in Messages : rowToken[m] = token[v] => job[v] = m /\ pc[v] \in Holding
          /\ \A c \in Channels :
                keyToken[c] = token[v] => pc[v] \in Holding /\ ChannelOf[job[v]] = c

TokenDiffers(u, v) == token[u] # NoToken => token[u] # token[v]

(* A claim's token is new. *)
LEMMA FreshToken ==
    ASSUME TypeOK, NEW w \in Workers, ClaimBegin(w)
    PROVE  /\ token'[w] \in Tokens
           /\ \A m \in Messages : rowToken[m] # token'[w]
           /\ \A c \in Channels : keyToken[c] # token'[w]
           /\ \A v \in Workers : token[v] # token'[w]
<1>1. token'[w] \in FreshTokens
  BY DEF ClaimBegin, TypeOK
<1>. QED
  BY <1>1 DEF FreshTokens, UsedTokens

(* Only a claim's commit writes tokens into rows, its own into the two rows  *)
(* that it has locked; the rows lose them by a finish or with the cleanup.   *)
LEMMA RowTokens ==
    ASSUME TypeOK, TokenInv, SentInv, [Next]_vars
    PROVE  \/ /\ \A m \in Messages : rowToken'[m] \in {rowToken[m], NoToken}
              /\ \A c \in Channels : keyToken'[c] \in {keyToken[c], NoToken}
           \/ \E w \in Workers : ClaimCommit(w)
<1>1. ASSUME NEW n \in Messages, Producer(n) \/ DropDelivery(n)
      PROVE  rowToken' = rowToken /\ keyToken' = keyToken
  BY <1>1 DEF Producer, Receive, EnqueueDuplicate, EnqueueInsert, EnqueueCommit,
              DropDelivery, rowVars, keyVars
<1>2. ASSUME NEW w \in Workers, WorkerStep(w), ~ClaimCommit(w)
      PROVE  /\ \A m \in Messages : rowToken'[m] \in {rowToken[m], NoToken}
             /\ \A c \in Channels : keyToken'[c] \in {keyToken[c], NoToken}
  <2>1. CASE Finish(w)
    BY <2>1 DEF Finish, ReleaseKey, keyVars, TypeOK
  <2>2. CASE Quiet(w) \/ Handle(w)
    BY <2>2, QuietFrame DEF Handle, rowVars, keyVars
  <2>. QED
    BY <1>2, <2>1, <2>2, WorkerSteps
<1>3. CASE Cleanup
  BY <1>3 DEF Cleanup, DeleteRows, keyVars
<1>4. CASE Tick \/ UNCHANGED vars
  BY <1>4 DEF Tick, vars, rowVars, keyVars
<1>. QED
  BY <1>1, <1>2, <1>3, <1>4 DEF Next, WorkerStep

LEMMA TokenStep ==
    ASSUME TypeOK, SentInv, ClaimInv, LockInv, TokenInv, [Next]_vars
    PROVE  TokenInv'
<1>1. /\ \A v \in Workers : TokenOK(v)
      /\ \A u, v \in Workers : u # v => TokenDiffers(u, v)
      /\ \A m \in Messages : rowState[m] # "pending" => rowToken[m] = NoToken
  BY DEF TokenInv, TokenOK, TokenDiffers
<1>2. SUFFICES /\ \A v \in Workers : TokenOK(v)'
               /\ \A u, v \in Workers : u # v => TokenDiffers(u, v)'
               /\ \A m \in Messages : rowState'[m] # "pending" => rowToken'[m] = NoToken
  BY DEF TokenInv, TokenOK, TokenDiffers
<1>3. ASSUME NEW m \in Messages, rowState'[m] # "pending"
      PROVE  rowToken'[m] = NoToken
  <2>1. ASSUME NEW n \in Messages, Producer(n) \/ DropDelivery(n)
        PROVE  rowToken'[m] = NoToken
    BY <1>1, <1>3, <2>1 DEF Producer, Receive, EnqueueDuplicate, EnqueueInsert, EnqueueCommit,
                DropDelivery, rowVars, TypeOK
  <2>2. ASSUME NEW w \in Workers, WorkerStep(w)
        PROVE  rowToken'[m] = NoToken
    <3>1. CASE ClaimCommit(w)
      <4>1. rowState[job[w]] = "pending" /\ rowState' = rowState
        BY <3>1 DEF ClaimCommit, LockInv, Claimable, RowFree
      <4>. QED
        BY <1>1, <1>3, <3>1, <4>1 DEF ClaimCommit, TypeOK
    <3>2. CASE Finish(w)
      BY <1>1, <1>3, <3>2 DEF Finish, TypeOK
    <3>3. CASE Quiet(w) \/ Handle(w)
      BY <1>1, <1>3, <3>3, QuietFrame DEF Handle, rowVars
    <3>. QED
      BY <2>2, <3>1, <3>2, <3>3, WorkerSteps
  <2>3. CASE Cleanup
    BY <1>1, <1>3, <2>3 DEF Cleanup, DeleteRows
  <2>4. CASE Tick \/ UNCHANGED vars
    BY <1>1, <1>3, <2>4 DEF Tick, vars, rowVars
  <2>. QED
    BY <2>1, <2>2, <2>3, <2>4 DEF Next, WorkerStep
<1>4. ASSUME UNCHANGED <<pc, token, job>>, ~\E w \in Workers : ClaimCommit(w)
      PROVE  /\ \A v \in Workers : TokenOK(v)'
             /\ \A u, v \in Workers : u # v => TokenDiffers(u, v)'
  BY <1>1, <1>4, RowTokens DEF TokenOK, TokenDiffers, TypeOK
<1>5. ASSUME NEW w \in Workers, ClaimCommit(w)
      PROVE  /\ \A v \in Workers : TokenOK(v)'
             /\ \A u, v \in Workers : u # v => TokenDiffers(u, v)'
  <2>1. /\ \A v \in Workers \ {w} : SameWorker(v)
        /\ pc[w] = "leasing" /\ token[w] \in Tokens /\ token[w] # NoToken
        /\ job[w] \in Messages /\ ChannelOf[job[w]] \in Channels
    <3>1. \A v \in Workers \ {w} : SameWorker(v)
      BY <1>5, OtherFrame DEF WorkerStep, Claim
    <3>2. pc[w] = "leasing" /\ token[w] \in Tokens /\ job[w] \in Messages
      BY <1>5 DEF ClaimCommit, ClaimInv, TypeOK, Engaged
    <3>3. token[w] # NoToken
      BY <3>2, DataAssumption DEF NoToken
    <3>4. ChannelOf[job[w]] \in Channels
      BY <3>2, DataAssumption
    <3>. QED
      BY <3>1, <3>2, <3>3, <3>4
  <2>2. /\ rowToken' = [rowToken EXCEPT ![job[w]] = token[w]]
        /\ keyToken' = [keyToken EXCEPT ![ChannelOf[job[w]]] = token[w]]
    BY <1>5 DEF ClaimCommit
  <2>3. ASSUME NEW v \in Workers \ {w}
        PROVE  TokenOK(v)'
    <3>1. TokenOK(v) /\ TokenDiffers(w, v) /\ SameWorker(v)
      BY <1>1, <2>1
    <3>. QED
      BY <2>1, <2>2, <3>1 DEF TokenOK, TokenDiffers, SameWorker, TypeOK
  <2>4. \/ token'[w] = NoToken
        \/ pc'[w] = "claimed" /\ token'[w] = token[w] /\ job'[w] = job[w]
    BY <1>5 DEF ClaimCommit, EndIteration, claimVars, TypeOK
  <2>5. TokenOK(w)'
    <3>1. CASE token'[w] = NoToken
      BY <3>1 DEF TokenOK
    <3>2. CASE pc'[w] = "claimed" /\ token'[w] = token[w] /\ job'[w] = job[w]
      BY <1>1, <2>1, <2>2, <3>2 DEF TokenOK, Holding, TypeOK
    <3>. QED
      BY <2>4, <3>1, <3>2
  <2>. QED
    BY <1>1, <2>1, <2>3, <2>4, <2>5 DEF TokenDiffers, SameWorker
<1>6. ASSUME NEW w \in Workers, WorkerStep(w), ~\E v \in Workers : ClaimCommit(v)
      PROVE  /\ \A v \in Workers : TokenOK(v)'
             /\ \A u, v \in Workers : u # v => TokenDiffers(u, v)'
  <2>1. \A v \in Workers \ {w} : SameWorker(v)
    BY <1>6, OtherFrame
  <2>2. /\ \A m \in Messages : rowToken'[m] \in {rowToken[m], NoToken}
        /\ \A c \in Channels : keyToken'[c] \in {keyToken[c], NoToken}
    BY <1>6, RowTokens
  <2>3. \A v \in Workers \ {w} : TokenOK(v)'
    BY <1>1, <2>1, <2>2 DEF TokenOK, SameWorker
  <2>4. CASE ClaimBegin(w)
    <3>1. UNCHANGED <<rowToken, keyToken>> /\ pc'[w] = "begun"
      BY <2>4 DEF ClaimBegin, rowVars, keyVars, TypeOK
    <3>2. TokenOK(w)'
      BY <2>4, <3>1, FreshToken DEF TokenOK
    <3>. QED
      BY <1>1, <2>1, <2>3, <2>4, <3>2, FreshToken DEF TokenDiffers, SameWorker
  <2>5. CASE ~ClaimBegin(w)
    <3>. DEFINE Stays == /\ token'[w] = token[w]
                         /\ pc'[w] \notin {"idle", "down"}
                         /\ pc[w] \in Holding => pc'[w] \in Holding /\ job'[w] = job[w]
    <3>1. ASSUME NEW next, EndIteration(w, next)
          PROVE  token'[w] = NoToken
      BY <3>1 DEF EndIteration, TypeOK
    <3>2. token'[w] = NoToken \/ Stays
      <4>. USE DEF Holding, TypeOK, claimVars
      <4>1. CASE ClaimNothing(w) \/ ClaimAbort(w) \/ FinishLeaseLost(w) \/ Crash(w)
        BY <3>1, <4>1 DEF ClaimNothing, ClaimAbort, FinishLeaseLost, Crash
      <4>2. CASE ClaimSnapshot(w) \/ SkipRow(w) \/ LockRow(w)
        BY <4>2 DEF ClaimSnapshot, SkipRow, LockRow
      <4>3. CASE SkipKey(w) \/ LockKey(w)
        BY <4>3 DEF SkipKey, LockKey
      <4>4. CASE DiscardStale(w) \/ RejectPayload(w) \/ Accept(w)
        BY <4>4 DEF DiscardStale, RejectPayload, Accept, Finishing
      <4>5. CASE Handle(w) \/ HandlerReturns(w)
        BY <4>5 DEF Handle, HandlerReturns, Finishing
      <4>6. CASE Finish(w)
        <5>1. CASE EndIteration(w, "idle")
          BY <3>1, <5>1
        <5>2. CASE UNCHANGED workerVars
          BY <4>6, <5>2 DEF Finish, workerVars
        <5>. QED
          BY <4>6, <5>1, <5>2 DEF Finish
      <4>7. CASE Restart(w)
        BY <1>1, <4>7 DEF Restart, TokenOK
      <4>. QED
        BY <1>6, <2>5, <4>1, <4>2, <4>3, <4>4, <4>5, <4>6, <4>7, WorkerSteps DEF Quiet
    <3>3. TokenOK(w)'
      BY <1>1, <2>2, <3>2 DEF TokenOK
    <3>. QED
      BY <1>1, <2>1, <2>3, <3>2, <3>3 DEF TokenDiffers, SameWorker
  <2>. QED
    BY <2>4, <2>5
<1>7. CASE (\E n \in Messages : Producer(n) \/ DropDelivery(n)) \/ Cleanup \/ Tick
           \/ UNCHANGED vars
  <2>1. UNCHANGED <<pc, token, job>>
    BY <1>7 DEF Producer, Receive, EnqueueDuplicate, EnqueueInsert, EnqueueCommit,
                DropDelivery, Cleanup, Tick, vars, workerVars, claimVars
  <2>. QED
    BY <1>3, <1>4, <1>5, <2>1
<1>. QED
  BY <1>3, <1>5, <1>6, <1>7 DEF Next, WorkerStep

------------------------------------------------------------------------------
(* LeasesAgree *)

Live(m) == rowState[m] = "pending" /\ ~LeaseFree(rowToken[m], rowUntil[m], now)
Agrees(m) ==
    Live(m) => /\ keyToken[ChannelOf[m]] = rowToken[m]
               /\ keyUntil[ChannelOf[m]] = rowUntil[m]

LEMMA AgreeStep ==
    ASSUME TypeOK, SentInv, ClaimInv, LockInv, TokenInv, LeasesAgree, [Next]_vars
    PROVE  LeasesAgree'
<1>. USE ConstantTypes
<1>. SUFFICES ASSUME NEW m \in Messages PROVE Agrees(m)'
  BY DEF LeasesAgree, Agrees, Live
<1>0. Agrees(m) /\ ChannelOf[m] \in Channels
  BY DataAssumption DEF LeasesAgree, Agrees, Live
<1>1. ASSUME UNCHANGED <<rowState, rowToken, rowUntil, keyToken, keyUntil>>,
             now' \in Nat, now' >= now
      PROVE  Agrees(m)'
  BY <1>0, <1>1 DEF Agrees, Live, LeaseFree, TypeOK
<1>2. ASSUME NEW n \in Messages, Producer(n) \/ DropDelivery(n)
      PROVE  Agrees(m)'
  <2>1. CASE EnqueueCommit(n)
    <3>1. rowToken' = rowToken /\ now' = now /\ UNCHANGED <<rowUntil, keyToken, keyUntil>>
      BY <2>1 DEF EnqueueCommit, keyVars
    <3>2. CASE n = m
      BY <2>1, <3>1, <3>2 DEF EnqueueCommit, SentInv, TokenInv, Agrees, Live, LeaseFree
    <3>3. CASE n # m
      <4>1. rowState'[m] = rowState[m]
        BY <2>1, <3>3 DEF EnqueueCommit, TypeOK
      <4>. QED
        BY <1>0, <3>1, <4>1 DEF Agrees, Live, LeaseFree
    <3>. QED
      BY <3>2, <3>3
  <2>2. CASE ~EnqueueCommit(n)
    <3>1. UNCHANGED <<rowVars, keyVars, now>>
      BY <1>2, <2>2 DEF Producer, Receive, EnqueueDuplicate, EnqueueInsert, DropDelivery
    <3>. QED
      BY <1>1, <3>1 DEF rowVars, keyVars, TypeOK
  <2>. QED
    BY <2>1, <2>2
<1>3. ASSUME NEW w \in Workers, ClaimCommit(w)
      PROVE  Agrees(m)'
  <2>1. /\ job[w] \in Messages /\ txNow[w] \in Nat /\ txNow[w] <= now
        /\ KeyFree(ChannelOf[job[w]], txNow[w]) /\ ChannelOf[job[w]] \in Channels
    BY <1>3, DataAssumption DEF ClaimCommit, ClaimInv, LockInv, Claimable, TypeOK, Engaged
  <2>2. /\ keyToken' = [keyToken EXCEPT ![ChannelOf[job[w]]] = token[w]]
        /\ keyUntil' = [keyUntil EXCEPT ![ChannelOf[job[w]]] = txNow[w] + LeaseDuration]
        /\ rowToken' = [rowToken EXCEPT ![job[w]] = token[w]]
        /\ rowUntil' = [rowUntil EXCEPT ![job[w]] = txNow[w] + LeaseDuration]
        /\ UNCHANGED <<now, rowState>>
    BY <1>3 DEF ClaimCommit
  <2>3. CASE m = job[w]
    BY <1>0, <2>2, <2>3 DEF Agrees, TypeOK
  <2>4. CASE m # job[w] /\ ChannelOf[m] = ChannelOf[job[w]]
    <3>1. ~Live(m)
      BY <1>0, <2>1, <2>4 DEF Agrees, Live, KeyFree, LeaseFree, TypeOK
    <3>. QED
      BY <2>2, <2>4, <3>1 DEF Agrees, Live, TypeOK
  <2>5. CASE ChannelOf[m] # ChannelOf[job[w]]
    BY <1>0, <2>2, <2>5 DEF Agrees, Live, TypeOK
  <2>. QED
    BY <2>3, <2>4, <2>5
<1>4. ASSUME NEW w \in Workers, Finish(w)
      PROVE  Agrees(m)'
  <2>1. /\ rowState' = [rowState EXCEPT ![job[w]] = outcome[w]]
        /\ rowToken' = [rowToken EXCEPT ![job[w]] = NoToken]
        /\ rowUntil' = [rowUntil EXCEPT ![job[w]] = 0]
        /\ now' = now /\ pc[w] = "finishing" /\ job[w] \in Messages
    BY <1>4 DEF Finish, TypeOK, Engaged
  <2>2. CASE m = job[w]
    BY <2>1, <2>2 DEF Agrees, Live, LeaseFree, TypeOK
  <2>3. CASE m # job[w]
    <3>1. /\ rowState'[m] = rowState[m] /\ rowToken'[m] = rowToken[m]
          /\ rowUntil'[m] = rowUntil[m]
      BY <2>1, <2>3 DEF TypeOK
    <3>2. CASE /\ keyToken'[ChannelOf[m]] = keyToken[ChannelOf[m]]
               /\ keyUntil'[ChannelOf[m]] = keyUntil[ChannelOf[m]]
      BY <1>0, <2>1, <3>1, <3>2 DEF Agrees, Live
    <3>3. CASE keyToken[ChannelOf[m]] = token[w]
      <4>1. token[w] # NoToken => rowToken[m] # token[w]
        BY <2>3 DEF TokenInv
      <4>2. ~Live(m)
        BY <1>0, <3>3, <4>1 DEF Agrees, Live, LeaseFree
      <4>. QED
        BY <2>1, <3>1, <4>2 DEF Agrees, Live
    <3>. QED
      BY <1>0, <1>4, <3>2, <3>3 DEF Finish, ReleaseKey, keyVars, TypeOK
  <2>. QED
    BY <2>2, <2>3
<1>5. ASSUME NEW w \in Workers, Quiet(w) \/ Handle(w)
      PROVE  Agrees(m)'
  <2>1. UNCHANGED <<rowVars, keyVars, now>>
    BY <1>5, QuietFrame DEF Handle
  <2>. QED
    BY <1>1, <2>1 DEF rowVars, keyVars, TypeOK
<1>6. CASE Cleanup
  <2>1. PICK D : DeleteRows(D)
    BY <1>6 DEF Cleanup
  <2>2. UNCHANGED <<now, keyVars>>
    BY <1>6 DEF Cleanup
  <2>. QED
    BY <1>0, <2>1, <2>2 DEF DeleteRows, Agrees, Live, keyVars
<1>7. CASE Tick \/ UNCHANGED vars
  <2>1. now' \in Nat /\ now' >= now
    <3>1. CASE Tick
      BY <3>1 DEF Tick, TypeOK
    <3>2. CASE UNCHANGED vars
      BY <3>2 DEF vars, TypeOK
    <3>. QED
      BY <1>7, <3>1, <3>2
  <2>. QED
    BY <1>1, <1>7, <2>1 DEF Tick, vars, rowVars, keyVars
<1>. QED
  BY <1>2, <1>3, <1>4, <1>5, <1>6, <1>7, WorkerSteps DEF Next, WorkerStep

------------------------------------------------------------------------------
(* HolderInv *)

Handling == {"claimed", "accepted", "handling"}
HoldsKey(v) ==
    \/ now >= txNow[v] + LeaseDuration
    \/ /\ keyToken[ChannelOf[job[v]]] = token[v]
       /\ keyUntil[ChannelOf[job[v]]] = txNow[v] + LeaseDuration
InTime(v) ==
    /\ pc[v] \in {"begun", "claimed", "accepted"} \union Locking
          => now <= txNow[v] + PrepBound
    /\ pc[v] = "handling"
          => now <= deadline[v] /\ deadline[v] <= txNow[v] + PrepBound + HandleTimeout
HolderOK(v) == (pc[v] \in Handling => HoldsKey(v)) /\ (Punctual => InTime(v))

(* The lease of a channel that a worker holds stays while it lasts. *)
LEMMA KeyStays ==
    ASSUME TypeOK, ClaimInv, LockInv, TokenInv, [Next]_vars,
           NEW v \in Workers, pc[v] \in Handling, HoldsKey(v),
           NEW c \in Channels, c = ChannelOf[job[v]],
           \A w \in Workers : ClaimCommit(w) \/ Finish(w) => w # v
    PROVE  \/ now' >= txNow[v] + LeaseDuration
           \/ keyToken'[c] = token[v] /\ keyUntil'[c] = txNow[v] + LeaseDuration
<1>. USE ConstantTypes
<1>1. now' \in Nat /\ now' >= now
  BY TimePasses
<1>2. CASE now >= txNow[v] + LeaseDuration
  BY <1>1, <1>2 DEF TypeOK
<1>3. CASE /\ now < txNow[v] + LeaseDuration
           /\ keyToken[c] = token[v] /\ keyUntil[c] = txNow[v] + LeaseDuration
  <2>1. token[v] \in Tokens /\ token[v] # NoToken
    <3>1. token[v] \in Tokens
      BY DEF ClaimInv, Handling
    <3>. QED
      BY <3>1, DataAssumption DEF NoToken
  <2>2. ASSUME keyToken'[c] = keyToken[c], keyUntil'[c] = keyUntil[c]
        PROVE  keyToken'[c] = token[v] /\ keyUntil'[c] = txNow[v] + LeaseDuration
    BY <1>3, <2>2
  <2>3. ASSUME NEW w \in Workers, ClaimCommit(w)
        PROVE  keyToken'[c] = token[v] /\ keyUntil'[c] = txNow[v] + LeaseDuration
    <3>1. /\ KeyFree(ChannelOf[job[w]], txNow[w])
          /\ txNow[w] <= now /\ txNow[w] \in Nat
      BY <2>3 DEF ClaimCommit, LockInv, ClaimInv, Claimable, TypeOK
    <3>2. ChannelOf[job[w]] # c
      BY <1>3, <2>1, <3>1 DEF KeyFree, LeaseFree, TypeOK
    <3>. QED
      BY <2>2, <2>3, <3>2 DEF ClaimCommit, TypeOK
  <2>4. ASSUME NEW w \in Workers, Finish(w)
        PROVE  keyToken'[c] = token[v] /\ keyUntil'[c] = txNow[v] + LeaseDuration
    <3>1. token[w] # token[v]
      BY <2>1, <2>4 DEF TokenInv
    <3>. QED
      BY <1>3, <2>2, <2>4, <3>1 DEF Finish, ReleaseKey, keyVars, TypeOK
  <2>5. ASSUME NEW w \in Workers, Quiet(w) \/ Handle(w)
        PROVE  UNCHANGED keyVars
    BY <2>5, QuietFrame DEF Handle
  <2>6. CASE UNCHANGED keyVars
    BY <2>2, <2>6 DEF keyVars
  <2>7. ASSUME NEW n \in Messages, Producer(n) \/ DropDelivery(n)
        PROVE  UNCHANGED keyVars
    BY <2>7 DEF Producer, Receive, EnqueueDuplicate, EnqueueInsert, EnqueueCommit, DropDelivery
  <2>8. CASE Cleanup \/ Tick \/ UNCHANGED vars
    BY <2>6, <2>8 DEF Cleanup, Tick, vars, keyVars
  <2>. QED
    BY <2>3, <2>4, <2>5, <2>6, <2>7, <2>8, WorkerSteps DEF Next, WorkerStep
<1>. QED
  BY <1>2, <1>3 DEF HoldsKey, TypeOK

LEMMA HolderStep ==
    ASSUME TypeOK, SentInv, ClaimInv, LockInv, TokenInv, HolderInv, [Next]_vars
    PROVE  HolderInv'
<1>. USE ConstantTypes
<1>. SUFFICES ASSUME NEW v \in Workers PROVE HolderOK(v)'
  BY DEF HolderInv, HolderOK, HoldsKey, InTime, Handling
<1>0. HolderOK(v)
  BY DEF HolderInv, HolderOK, HoldsKey, InTime, Handling
<1>1. ASSUME pc'[v] = pc[v], txNow'[v] = txNow[v], token'[v] = token[v], job'[v] = job[v],
             deadline'[v] = deadline[v],
             \A w \in Workers : ClaimCommit(w) \/ Finish(w) => w # v,
             now' = now \/ Tick
      PROVE  HolderOK(v)'
  <2>1. pc[v] \in Handling => HoldsKey(v)'
    <3>1. SUFFICES ASSUME pc[v] \in Handling PROVE HoldsKey(v)'
      OBVIOUS
    <3>2. PICK c \in Channels : c = ChannelOf[job[v]]
      BY <3>1, DataAssumption DEF Handling, Engaged, TypeOK
    <3>. QED
      BY <1>0, <1>1, <3>1, <3>2, KeyStays DEF HolderOK, HoldsKey
  <2>2. Punctual => InTime(v)'
    <3>1. CASE now' = now
      BY <1>0, <1>1, <3>1 DEF HolderOK, InTime
    <3>2. CASE Tick
      BY <1>0, <1>1, <3>2 DEF HolderOK, InTime, Tick, Locking, TypeOK
    <3>. QED
      BY <1>1, <3>1, <3>2
  <2>. QED
    BY <1>1, <2>1, <2>2 DEF HolderOK
<1>2. ASSUME NEW n \in Messages, Producer(n) \/ DropDelivery(n)
      PROVE  HolderOK(v)'
  <2>1. UNCHANGED <<now, workerVars>>
    BY <1>2 DEF Producer, Receive, EnqueueDuplicate, EnqueueInsert, EnqueueCommit, DropDelivery
  <2>2. UNCHANGED keyVars
    BY <1>2 DEF Producer, Receive, EnqueueDuplicate, EnqueueInsert, EnqueueCommit, DropDelivery
  <2>. QED
    BY <1>0, <2>1, <2>2 DEF HolderOK, HoldsKey, InTime, workerVars, claimVars, workVars, keyVars
<1>3. CASE Cleanup \/ UNCHANGED vars
  <2>1. UNCHANGED <<now, pc, txNow, token, job, deadline, keyVars>>
    BY <1>3 DEF Cleanup, vars, workerVars, claimVars, workVars, keyVars
  <2>. QED
    BY <1>0, <2>1 DEF HolderOK, HoldsKey, InTime, keyVars
<1>4. CASE Tick
  <2>1. UNCHANGED <<pc, txNow, token, job, deadline, keyVars>>
    BY <1>4 DEF Tick, workerVars, claimVars, workVars, keyVars
  <2>2. pc[v] \in Handling => HoldsKey(v)'
    BY <1>0, <1>4, <2>1 DEF Tick, HolderOK, HoldsKey, keyVars, TypeOK
  <2>3. Punctual => InTime(v)'
    BY <1>0, <1>4, <2>1 DEF Tick, HolderOK, InTime, Locking, TypeOK
  <2>. QED
    BY <2>1, <2>2, <2>3 DEF HolderOK
<1>5. ASSUME NEW w \in Workers \ {v}, WorkerStep(w), ~WorkerStep(v)
      PROVE  HolderOK(v)'
  <2>1. SameWorker(v)
    BY <1>5, OtherFrame
  <2>2. now' = now
    BY <1>5, WorkerSteps, QuietFrame DEF ClaimCommit, Handle, Finish
  <2>3. \A u \in Workers : ClaimCommit(u) \/ Finish(u) => u # v
    BY <1>5 DEF WorkerStep, Claim, Work
  <2>. QED
    BY <1>1, <2>1, <2>2, <2>3 DEF SameWorker
<1>6. CASE WorkerStep(v)
  <2>. USE DEF Handling, Locking
  <2>1. ASSUME pc'[v] \in {"idle", "down", "finishing"}
        PROVE  HolderOK(v)'
    BY <2>1 DEF HolderOK, InTime
  <2>2. ASSUME NEW next \in {"idle", "down"}, EndIteration(v, next)
        PROVE  HolderOK(v)'
    BY <2>1, <2>2 DEF EndIteration, TypeOK
  <2>3. CASE ClaimNothing(v) \/ ClaimAbort(v) \/ FinishLeaseLost(v) \/ Crash(v)
    BY <2>2, <2>3 DEF ClaimNothing, ClaimAbort, FinishLeaseLost, Crash
  <2>4. CASE DiscardStale(v) \/ RejectPayload(v) \/ HandlerReturns(v) \/ Restart(v)
    BY <2>1, <2>4 DEF DiscardStale, RejectPayload, HandlerReturns, Finishing, Restart, TypeOK
  <2>5. CASE ClaimBegin(v)
    <3>1. pc'[v] = "begun" /\ txNow'[v] = now /\ now' = now
      BY <2>5 DEF ClaimBegin, TypeOK
    <3>. QED
      BY <3>1 DEF HolderOK, InTime, TypeOK
  <2>6. CASE ClaimSnapshot(v) \/ SkipRow(v) \/ LockRow(v) \/ SkipKey(v) \/ LockKey(v)
    <3>1. /\ pc[v] \in {"begun"} \union Locking /\ pc'[v] \in Locking
          /\ txNow'[v] = txNow[v] /\ now' = now
      BY <2>6 DEF ClaimSnapshot, SkipRow, LockRow, SkipKey, LockKey, claimVars, TypeOK
    <3>. QED
      BY <1>0, <3>1 DEF HolderOK, InTime
  <2>7. CASE ClaimCommit(v)
    <3>1. CASE EndIteration(v, "idle")
      BY <2>2, <3>1
    <3>2. CASE pc' = [pc EXCEPT ![v] = "claimed"] /\ UNCHANGED <<job, claimVars>>
      <4>1. PICK c \in Channels : c = ChannelOf[job[v]]
        BY <2>7, DataAssumption DEF ClaimCommit, Engaged, TypeOK
      <4>2. keyToken'[c] = token[v] /\ keyUntil'[c] = txNow[v] + LeaseDuration
        BY <2>7, <4>1 DEF ClaimCommit, TypeOK
      <4>3. HoldsKey(v)'
        BY <3>2, <4>1, <4>2 DEF HoldsKey, claimVars
      <4>4. pc[v] = "leasing" /\ pc'[v] = "claimed" /\ now' = now /\ txNow' = txNow
        BY <2>7, <3>2 DEF ClaimCommit, claimVars, TypeOK
      <4>. QED
        BY <1>0, <4>3, <4>4 DEF HolderOK, InTime
    <3>. QED
      BY <2>7, <3>1, <3>2 DEF ClaimCommit
  <2>8. CASE Accept(v)
    <3>1. /\ pc[v] = "claimed" /\ pc'[v] = "accepted"
          /\ UNCHANGED <<now, keyToken, keyUntil, job, txNow, token>>
      BY <2>8 DEF Accept, keyVars, claimVars, TypeOK
    <3>. QED
      BY <1>0, <3>1 DEF HolderOK, HoldsKey, InTime
  <2>9. CASE Handle(v)
    <3>1. /\ pc[v] = "accepted" /\ pc'[v] = "handling" /\ deadline'[v] = now + HandleTimeout
          /\ UNCHANGED <<now, keyToken, keyUntil, job, txNow, token>>
      BY <2>9 DEF Handle, keyVars, claimVars, TypeOK
    <3>. QED
      BY <1>0, <3>1 DEF HolderOK, HoldsKey, InTime, TypeOK
  <2>10. CASE Finish(v)
    <3>1. CASE EndIteration(v, "idle")
      BY <2>2, <3>1
    <3>2. CASE UNCHANGED workerVars
      BY <2>1, <2>10, <3>2 DEF Finish, workerVars
    <3>. QED
      BY <2>10, <3>1, <3>2 DEF Finish
  <2>. QED
    BY <1>6, <2>3, <2>4, <2>5, <2>6, <2>7, <2>8, <2>9, <2>10, WorkerSteps DEF Quiet
<1>. QED
  BY <1>2, <1>3, <1>4, <1>5, <1>6 DEF Next, WorkerStep

------------------------------------------------------------------------------
(* The inductive invariant of the leases. *)
THEOREM LeaseInvariant == Spec => []LeaseInv
<1>1. Init => TokenInv /\ HolderInv /\ LeasesAgree
  BY ConstantTypes DEF Init, TokenInv, HolderInv, LeasesAgree, LeaseFree, Locking
<1>2. AtMostOnceInv /\ TokenInv /\ HolderInv /\ LeasesAgree /\ [Next]_vars
         => TokenInv' /\ HolderInv' /\ LeasesAgree'
  BY TokenStep, HolderStep, AgreeStep DEF AtMostOnceInv
<1>. QED
  BY <1>1, <1>2, AtMostOnceInvariant, PTL DEF Spec, LeaseInv

(* The lease of a message and the lease of its channel agree. *)
THEOREM LeasesAlwaysAgree == Spec => []LeasesAgree
BY LeaseInvariant, PTL DEF LeaseInv

(* If the workers are punctual, no two messages of a channel are in the      *)
(* handler at the same time.                                                 *)
THEOREM ExclusiveChannels == ASSUME Punctual PROVE Spec => []ChannelExclusive
<1>1. LeaseInv => ChannelExclusive
  <2>. SUFFICES ASSUME LeaseInv, NEW v \in Workers, NEW w \in Workers, v # w,
                       pc[v] = "handling", pc[w] = "handling",
                       ChannelOf[job[v]] = ChannelOf[job[w]]
                PROVE  FALSE
    BY DEF ChannelExclusive
  <2>1. ASSUME NEW u \in Workers, pc[u] = "handling"
        PROVE  keyToken[ChannelOf[job[u]]] = token[u]
    <3>1. now <= txNow[u] + PrepBound + HandleTimeout
      BY <2>1, ConstantTypes DEF LeaseInv, HolderInv, AtMostOnceInv, TypeOK
    <3>2. now < txNow[u] + LeaseDuration
      BY <3>1, ConstantTypes, PunctualAssumption DEF LeaseInv, AtMostOnceInv, TypeOK
    <3>. QED
      BY <2>1, <3>2, ConstantTypes DEF LeaseInv, HolderInv, AtMostOnceInv, TypeOK
  <2>2. token[v] \in Tokens
    BY DEF LeaseInv, AtMostOnceInv, ClaimInv
  <2>3. token[v] # NoToken
    BY <2>2, DataAssumption DEF NoToken
  <2>. QED
    BY <2>1, <2>3 DEF LeaseInv, TokenInv
<1>. QED
  BY <1>1, LeaseInvariant, PTL

------------------------------------------------------------------------------
(* Action properties *)

(* The rows that a step changes, and how. *)
LEMMA RowSteps ==
    ASSUME TypeOK, SentInv, ClaimInv, LockInv, TokenInv, [Next]_vars, NEW m \in Messages
    PROVE  \/ rowState'[m] = rowState[m] /\ rowToken'[m] = rowToken[m]
              /\ rowDone'[m] = rowDone[m]
           \/ rowState[m] = "absent"
           \/ rowState[m] = "pending" /\ rowState'[m] = "pending"
              /\ LeaseFree(rowToken[m], rowUntil[m], now)
           \/ rowState[m] = "pending" /\ rowState'[m] # "absent"
              /\ \E w \in Workers :
                    pc[w] = "finishing" /\ job[w] = m /\ token[w] = rowToken[m]
           \/ rowState'[m] = "absent"
              /\ (rowState[m] = "pending" => LeaseFree(rowToken[m], rowUntil[m], now))
<1>1. ASSUME NEW n \in Messages, Producer(n) \/ DropDelivery(n)
      PROVE  rowState[m] = "absent"
             \/ (rowState'[m] = rowState[m] /\ rowToken'[m] = rowToken[m]
                 /\ rowDone'[m] = rowDone[m])
  BY <1>1 DEF Producer, Receive, EnqueueDuplicate, EnqueueInsert, EnqueueCommit,
              DropDelivery, rowVars, SentInv, TypeOK
<1>2. ASSUME NEW w \in Workers, ClaimCommit(w), job[w] = m
      PROVE  rowState[m] = "pending" /\ rowState'[m] = "pending"
             /\ LeaseFree(rowToken[m], rowUntil[m], now)
  <2>1. RowFree(m, txNow[w]) /\ txNow[w] \in Nat /\ txNow[w] <= now /\ now \in Nat
        /\ rowUntil[m] \in Nat /\ rowState' = rowState
    BY <1>2 DEF ClaimCommit, LockInv, ClaimInv, Claimable, TypeOK
  <2>. QED
    BY <2>1 DEF RowFree, LeaseFree
<1>3. ASSUME NEW w \in Workers, Finish(w), job[w] = m
      PROVE  rowState[m] = "pending" /\ rowState'[m] # "absent"
             /\ pc[w] = "finishing" /\ token[w] = rowToken[m]
  <2>1. /\ pc[w] = "finishing" /\ token[w] = rowToken[m]
        /\ token[w] \in Tokens /\ rowState'[m] = outcome[w] /\ outcome[w] # "absent"
    BY <1>3 DEF Finish, HoldsLease, ClaimInv, TypeOK
  <2>2. token[w] # NoToken
    BY <2>1, DataAssumption DEF NoToken
  <2>. QED
    BY <2>1, <2>2 DEF TokenInv
<1>4. ASSUME NEW w \in Workers, WorkerStep(w), job[w] # m \/ Quiet(w) \/ Handle(w)
      PROVE  rowState'[m] = rowState[m] /\ rowToken'[m] = rowToken[m]
             /\ rowDone'[m] = rowDone[m]
  <2>1. CASE Quiet(w) \/ Handle(w)
    BY <2>1, QuietFrame DEF Handle, rowVars
  <2>2. CASE job[w] # m /\ (ClaimCommit(w) \/ Finish(w))
    BY <2>2 DEF ClaimCommit, Finish, TypeOK
  <2>. QED
    BY <1>4, <2>1, <2>2, WorkerSteps
<1>5. CASE Cleanup
  <2>1. PICK a \in 0 .. (now + Skew) :
           \E S \in SUBSET StaleRows(a - PendingRetention),
              C \in SUBSET DoneRows("completed", a - DedupeDuration),
              F \in SUBSET DoneRows("failed", a - FailedRetention) :
                 DeleteRows(S \union C \union F)
    BY <1>5 DEF Cleanup, Batches
  <2>2. PICK S \in SUBSET StaleRows(a - PendingRetention),
             C \in SUBSET DoneRows("completed", a - DedupeDuration),
             F \in SUBSET DoneRows("failed", a - FailedRetention) :
                DeleteRows(S \union C \union F)
    BY <2>1
  <2>3. CASE m \in S \union C \union F
    BY <2>2, <2>3 DEF DeleteRows, StaleRows, DoneRows, RowFree
  <2>4. CASE m \notin S \union C \union F
    BY <2>2, <2>4 DEF DeleteRows
  <2>. QED
    BY <2>3, <2>4
<1>6. CASE Tick \/ UNCHANGED vars
  BY <1>6 DEF Tick, vars, rowVars
<1>7. ASSUME NEW w \in Workers, WorkerStep(w)
      PROVE  \/ ClaimCommit(w) /\ job[w] = m
             \/ Finish(w) /\ job[w] = m
             \/ job[w] # m \/ Quiet(w) \/ Handle(w)
  BY <1>7, WorkerSteps
<1>. QED
  BY <1>1, <1>2, <1>3, <1>4, <1>5, <1>6, <1>7 DEF Next, WorkerStep

(* No claim and no cleanup takes a message from a worker whose lease lasts.  *)
THEOREM LiveLeases == Spec => LiveLeaseRespected
<1>1. LeaseInv /\ [Next]_vars => LiveLeaseStep
  BY RowSteps DEF LeaseInv, AtMostOnceInv, LiveLeaseStep
<1>2. LeaseInv /\ [Next]_vars => [LiveLeaseStep]_vars
  BY <1>1
<1>. QED
  BY <1>2, LeaseInvariant, PTL DEF Spec, LiveLeaseRespected

(* Completed and failed messages stay as they are until they are deleted.    *)
THEOREM FinishedStays == Spec => FinishedIsFinal
<1>1. LeaseInv /\ [Next]_vars => FinishedStep
  BY RowSteps DEF LeaseInv, AtMostOnceInv, FinishedStep
<1>2. LeaseInv /\ [Next]_vars => [FinishedStep]_vars
  BY <1>1
<1>. QED
  BY <1>2, LeaseInvariant, PTL DEF Spec, FinishedIsFinal

------------------------------------------------------------------------------
(* OnlyStaleDropped *)

(* What DropInv says of one worker. *)
DropOK(w) ==
    /\ pc[w] = "handling" => handled[job[w]] > 0
    /\ pc[w] = "finishing" /\ outcome[w] = "completed" /\ handled[job[w]] = 0
          => Late(job[w], now)

(* A message that was handled remains so. *)
LEMMA HandledStays ==
    ASSUME TypeOK, [Next]_vars, NEW m \in Messages
    PROVE  handled'[m] >= handled[m]
<1>. handled[m] \in Nat
  BY DEF TypeOK
<1>1. ASSUME NEW n \in Messages, Producer(n) \/ DropDelivery(n)
      PROVE  handled' = handled
  BY <1>1 DEF Producer, Receive, EnqueueDuplicate, EnqueueInsert, EnqueueCommit,
              DropDelivery
<1>2. ASSUME NEW w \in Workers, WorkerStep(w)
      PROVE  handled'[m] >= handled[m]
  <2>1. CASE Handle(w)
    BY <2>1 DEF Handle, TypeOK
  <2>2. CASE ~Handle(w)
    <3>1. handled' = handled
      BY <1>2, <2>2, WorkerSteps, QuietFrame DEF ClaimCommit, Finish
    <3>. QED
      BY <3>1
  <2>. QED
    BY <2>1, <2>2
<1>3. CASE Cleanup \/ Tick \/ UNCHANGED vars
  <2>1. handled' = handled
    BY <1>3 DEF Cleanup, Tick, vars
  <2>. QED
    BY <2>1
<1>4. CASE \E n \in Messages : Producer(n) \/ DropDelivery(n)
  <2>1. handled' = handled
    BY <1>1, <1>4
  <2>. QED
    BY <2>1
<1>. QED
  BY <1>2, <1>3, <1>4 DEF Next, WorkerStep

(* What is too old stays so. *)
LEMMA LateStays ==
    ASSUME TypeOK, [Next]_vars, NEW m \in Messages, sent[m] # Unsent, Late(m, now)
    PROVE  Late(m, now)'
<1>1. sent'[m] = sent[m] /\ now' >= now
  BY SentStays
<1>2. now \in Nat /\ now' \in Nat /\ sent[m] \in Int
  BY TimePasses DEF TypeOK, Unsent
<1>. QED
  BY <1>1, <1>2, ConstantTypes DEF Late

(* A worker that does nothing keeps its part of DropInv. *)
LEMMA DropFrame ==
    ASSUME TypeOK, ClaimInv, [Next]_vars, NEW v \in Workers, DropOK(v),
           pc'[v] = pc[v], job'[v] = job[v], outcome'[v] = outcome[v]
    PROVE  DropOK(v)'
<1>1. SUFFICES ASSUME pc[v] \in {"handling", "finishing"}
               PROVE  DropOK(v)'
  BY <1>1 DEF DropOK
<1>2. job[v] \in Messages /\ sent[job[v]] # Unsent
  BY <1>1 DEF TypeOK, ClaimInv, Engaged
<1>3. handled'[job[v]] >= handled[job[v]] /\ handled[job[v]] \in Nat
  BY <1>2, HandledStays DEF TypeOK
<1>4. handled'[job[v]] \in Nat
  BY <1>2, NextType DEF TypeOK
<1>5. handled'[job[v]] = 0 => handled[job[v]] = 0
  BY <1>3, <1>4
<1>6. Late(job[v], now) => Late(job[v], now)'
  <2>1. ASSUME Late(job[v], now)
        PROVE  Late(job[v], now)'
    <3>. DEFINE m == job[v]
    <3>1. m \in Messages /\ sent[m] # Unsent /\ Late(m, now) /\ m' = m
      BY <1>2, <2>1
    <3>2. sent'[m] = sent[m] /\ now' >= now
      BY <3>1, SentStays
    <3>3. now \in Nat /\ now' \in Nat /\ sent[m] \in Int
      BY <3>1, TimePasses DEF TypeOK, Unsent
    <3>. QED
      BY <3>1, <3>2, <3>3, ConstantTypes DEF Late
  <2>. QED
    BY <2>1
<1>. QED
  BY <1>3, <1>4, <1>5, <1>6 DEF DropOK

(* The step of a worker keeps its own part of DropInv. *)
LEMMA DropOwn ==
    ASSUME TypeOK, TypeOK', ClaimInv, [Next]_vars, NEW w \in Workers, WorkerStep(w), DropOK(w)
    PROVE  DropOK(w)'
<1>1. CASE DiscardStale(w)
  <2>1. /\ job'[w] = job[w] /\ sent' = sent /\ now' = now
        /\ pc'[w] = "finishing"
        /\ job[w] \in Messages /\ sent[job[w]] # Unsent
    BY <1>1 DEF DiscardStale, Finishing, wireVars, TypeOK, ClaimInv, Engaged
  <2>2. PICK a \in Clock : a - sent[job[w]] > MaxAge
    BY <1>1 DEF DiscardStale
  <2>3. a \in Nat /\ a <= now + Skew /\ sent[job[w]] \in Int /\ now \in Nat
    BY <2>1, <2>2, ConstantTypes DEF Clock, TypeOK, Unsent
  <2>4. now' + Skew > sent'[job'[w]] + MaxAge
    BY <2>1, <2>2, <2>3, ConstantTypes
  <2>. QED
    BY <2>1, <2>4 DEF DropOK, Late
<1>2. CASE Handle(w)
  <2>1. pc'[w] = "handling" /\ job'[w] = job[w] /\ job[w] \in Messages
    BY <1>2 DEF Handle, TypeOK, Engaged
  <2>2. handled'[job[w]] = handled[job[w]] + 1 /\ handled[job[w]] \in Nat
    BY <1>2, <2>1 DEF Handle, TypeOK
  <2>. QED
    BY <2>1, <2>2 DEF DropOK
<1>3. CASE HandlerReturns(w)
  <2>1. /\ pc[w] = "handling" /\ pc'[w] = "finishing"
        /\ job'[w] = job[w] /\ handled' = handled
    BY <1>3 DEF HandlerReturns, Finishing, TypeOK
  <2>2. job[w] \in Messages /\ handled[job[w]] \in Nat
    BY <2>1 DEF TypeOK, Engaged
  <2>. QED
    BY <2>1, <2>2 DEF DropOK
<1>4. CASE RejectPayload(w)
  <2>1. pc'[w] = "finishing" /\ outcome'[w] = "failed"
    BY <1>4 DEF RejectPayload, Finishing, TypeOK
  <2>. QED
    BY <2>1 DEF DropOK
<1>5. CASE Finish(w) /\ UNCHANGED workerVars
  BY <1>5, DropFrame DEF workerVars, workVars
<1>6. CASE ClaimCommit(w) \/ (Finish(w) /\ EndIteration(w, "idle"))
  <2>1. pc'[w] \in {"claimed", "idle"}
    BY <1>6 DEF ClaimCommit, EndIteration, TypeOK
  <2>. QED
    BY <2>1 DEF DropOK
<1>7. CASE ClaimBegin(w) \/ ClaimSnapshot(w) \/ SkipRow(w) \/ LockRow(w) \/ SkipKey(w)
           \/ LockKey(w) \/ ClaimNothing(w) \/ ClaimAbort(w) \/ Accept(w)
           \/ FinishLeaseLost(w) \/ Crash(w) \/ Restart(w)
  <2>1. pc'[w] \notin {"handling", "finishing"}
    BY <1>7 DEF ClaimBegin, ClaimSnapshot, SkipRow, LockRow, SkipKey, LockKey, ClaimNothing,
                ClaimAbort, Accept, FinishLeaseLost, Crash, Restart, EndIteration, TypeOK
  <2>. QED
    BY <2>1 DEF DropOK
<1>8. Finish(w) => (UNCHANGED workerVars \/ EndIteration(w, "idle"))
  BY DEF Finish
<1>. QED
  BY <1>1, <1>2, <1>3, <1>4, <1>5, <1>6, <1>7, <1>8, WorkerSteps DEF Quiet

LEMMA DropStep ==
    ASSUME TypeOK, ClaimInv, DropInv, [Next]_vars
    PROVE  DropInv'
<1>1. TypeOK'
  BY NextType
<1>2. \A v \in Workers : DropOK(v)
  BY DEF DropInv, DropOK
<1>3. ASSUME NEW v \in Workers
      PROVE  DropOK(v)'
  <2>1. CASE WorkerStep(v)
    BY <1>1, <1>2, <2>1, DropOwn
  <2>2. ASSUME NEW w \in Workers \ {v}, WorkerStep(w)
        PROVE  DropOK(v)'
    <3>1. pc'[v] = pc[v] /\ job'[v] = job[v] /\ outcome'[v] = outcome[v]
      BY <2>2, OtherFrame DEF SameWorker
    <3>. QED
      BY <1>2, <3>1, DropFrame
  <2>3. CASE ~\E w \in Workers : WorkerStep(w)
    <3>1. UNCHANGED <<pc, job, outcome>>
      BY <2>3 DEF Next, WorkerStep, Producer, Receive, EnqueueDuplicate, EnqueueInsert,
                  EnqueueCommit, DropDelivery, Cleanup, Tick, vars, workerVars, workVars
    <3>. QED
      BY <1>2, <3>1, DropFrame
  <2>. QED
    BY <2>1, <2>2, <2>3
<1>. QED
  BY <1>3 DEF DropInv, DropOK

(* A row becomes completed only when a worker finishes it so, and the time   *)
(* of that is the row's.                                                     *)
LEMMA CompletedBy ==
    ASSUME LeaseInv, [Next]_vars, NEW m \in Messages, rowState'[m] = "completed"
    PROVE  \/ rowState[m] = "completed" /\ rowDone'[m] = rowDone[m]
           \/ /\ rowDone'[m] = now
              /\ \E w \in Workers :
                    pc[w] = "finishing" /\ job[w] = m /\ outcome[w] = "completed"
<1>. USE DEF LeaseInv, AtMostOnceInv
<1>1. ASSUME NEW n \in Messages, Producer(n) \/ DropDelivery(n)
      PROVE  rowState[m] = "completed" /\ rowDone'[m] = rowDone[m]
  BY <1>1 DEF Producer, Receive, EnqueueDuplicate, EnqueueInsert, EnqueueCommit,
              DropDelivery, rowVars, TypeOK
<1>2. ASSUME NEW w \in Workers, Finish(w), job[w] = m
      PROVE  pc[w] = "finishing" /\ outcome[w] = "completed" /\ rowDone'[m] = now
  BY <1>2 DEF Finish, TypeOK
<1>3. ASSUME NEW w \in Workers, WorkerStep(w), job[w] # m \/ ~Finish(w)
      PROVE  rowState'[m] = rowState[m] /\ rowDone'[m] = rowDone[m]
  <2>1. CASE Quiet(w) \/ Handle(w) \/ ClaimCommit(w)
    BY <2>1, QuietFrame DEF Handle, ClaimCommit, rowVars
  <2>2. CASE job[w] # m /\ Finish(w)
    BY <2>2 DEF Finish, TypeOK
  <2>. QED
    BY <1>3, <2>1, <2>2, WorkerSteps
<1>4. CASE Cleanup
  BY <1>4 DEF Cleanup, DeleteRows
<1>5. CASE Tick \/ UNCHANGED vars
  BY <1>5 DEF Tick, vars, rowVars
<1>. QED
  BY <1>1, <1>2, <1>3, <1>4, <1>5 DEF Next, WorkerStep

LEMMA DroppedStep ==
    ASSUME StaleInv, [Next]_vars
    PROVE  OnlyStaleDropped'
<1>. USE DEF StaleInv, LeaseInv, AtMostOnceInv
<1>1. SUFFICES ASSUME NEW m \in Messages, rowState'[m] = "completed", handled'[m] = 0
               PROVE  rowDone'[m] + Skew > sent'[m] + MaxAge
  BY DEF OnlyStaleDropped
<1>2. handled[m] = 0
  <2>1. handled[m] \in Nat /\ handled'[m] >= handled[m]
    BY HandledStays DEF TypeOK
  <2>. QED
    BY <1>1, <2>1
<1>3. CASE rowState[m] = "completed" /\ rowDone'[m] = rowDone[m]
  <2>1. sent[m] # Unsent
    BY <1>3 DEF SentInv
  <2>2. sent'[m] = sent[m]
    BY <2>1, SentStays
  <2>. QED
    BY <1>2, <1>3, <2>2 DEF OnlyStaleDropped
<1>4. ASSUME rowDone'[m] = now,
             NEW w \in Workers, pc[w] = "finishing", job[w] = m, outcome[w] = "completed"
      PROVE  rowDone'[m] + Skew > sent'[m] + MaxAge
  <2>1. sent[m] # Unsent
    BY <1>4 DEF ClaimInv, Engaged
  <2>2. sent'[m] = sent[m]
    BY <2>1, SentStays
  <2>3. Late(m, now)
    BY <1>2, <1>4 DEF DropInv
  <2>. QED
    BY <1>4, <2>2, <2>3 DEF Late
<1>. QED
  BY <1>1, <1>3, <1>4, CompletedBy

(* A message completed without a call of the handler was too old then.       *)
THEOREM StaleOnlyDropped == Spec => []OnlyStaleDropped
<1>1. Init => DropInv /\ OnlyStaleDropped
  BY DEF Init, DropInv, OnlyStaleDropped
<1>2. StaleInv /\ [Next]_vars => DropInv' /\ OnlyStaleDropped'
  BY DropStep, DroppedStep DEF StaleInv, LeaseInv, AtMostOnceInv
<1>3. LeaseInv /\ DropInv /\ OnlyStaleDropped /\ [Next]_vars => DropInv' /\ OnlyStaleDropped'
  BY <1>2 DEF StaleInv
<1>. QED
  BY <1>1, <1>3, LeaseInvariant, PTL DEF Spec
=============================================================================
