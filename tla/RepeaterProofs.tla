--------------------------- MODULE RepeaterProofs ---------------------------
(* Proofs about Repeater, for any number of identities, schedules and        *)
(* goroutines.                                                               *)
EXTENDS Repeater, FiniteSetTheorems, TLAPS

Plans == {p \in [Idents -> Items \union {NoItem}] :
            \A i \in Idents : p[i] # NoItem => p[i].id = i}

------------------------------------------------------------------------------
(* Schedules *)

LEMMA Division ==
    ASSUME NEW a \in Nat, NEW k \in Nat \ {0}
    PROVE  /\ a \div k \in Nat
           /\ (a \div k) * k <= a
           /\ a < (a \div k) * k + k
<1>1. a \div k \in Int /\ a = k * (a \div k) + (a % k) /\ a % k \in 0 .. k - 1
  BY SMT
<1>. QED
  BY <1>1, SMT

LEMMA NextIsLater ==
    ASSUME NEW s \in Repeats, NEW t \in Nat
    PROVE  RepeatNext(s, t) \in Nat /\ RepeatNext(s, t) > t
<1>1. s.start \in Int /\ s.interval \in Nat \ {0}
  BY ScheduleAssumption DEF Repeats
<1>2. CASE t - s.start >= 0
  <2>1. PICK a \in Nat : a = t - s.start
    BY <1>1, <1>2
  <2>2. PICK q \in Nat : q = a \div s.interval
    BY <1>1, Division
  <2>3. a < q * s.interval + s.interval
    BY <1>1, <2>2, Division
  <2>4. RepeatNext(s, t) = s.start + (q + 1) * s.interval
    BY <1>1, <1>2, <2>1, <2>2 DEF RepeatNext, Quotient
  <2>5. (q + 1) * s.interval = q * s.interval + s.interval
    BY <1>1, <2>2
  <2>. QED
    BY <1>1, <2>1, <2>2, <2>3, <2>4, <2>5
<1>3. CASE t - s.start < 0
  <2>1. PICK a \in Nat : a = -(t - s.start)
    BY <1>1, <1>3
  <2>2. PICK q \in Nat : q = a \div s.interval
    BY <1>1, Division
  <2>3. q * s.interval <= a
    BY <1>1, <2>2, Division
  <2>4. RepeatNext(s, t) = s.start + (-q + 1) * s.interval
    BY <1>1, <1>3, <2>1, <2>2 DEF RepeatNext, Quotient
  <2>5. (-q + 1) * s.interval = s.interval - q * s.interval
    BY <1>1, <2>2
  <2>. QED
    BY <1>1, <1>3, <2>1, <2>2, <2>3, <2>4, <2>5
<1>. QED
  BY <1>1, <1>2, <1>3

LEMMA DeadlineIsLater ==
    ASSUME NEW id \in Idents, NEW s \in SchedulesOf(id), NEW t \in Nat,
           NEW d \in Deadlines(id, s, t)
    PROVE  d \in Nat /\ d > t
<1>1. CASE id \in CronIdents
  <2>1. s.times \subseteq Nat
    BY <1>1, ScheduleAssumption DEF SchedulesOf, CronTabs
  <2>. QED
    BY <1>1, <2>1 DEF Deadlines, CronNext
<1>2. CASE id \notin CronIdents
  BY <1>2, NextIsLater DEF Deadlines, SchedulesOf
<1>. QED
  BY <1>1, <1>2

LEMMA ItemIsSome ==
    ASSUME NEW item \in Items
    PROVE  item # NoItem
BY DEF Items, NoItem

LEMMA NoPlan == [i \in Idents |-> NoItem] \in Plans
BY DEF Plans

------------------------------------------------------------------------------
(* Counting *)

HeldIn(p, ids) == {i \in ids : p[i] # NoItem}

Tally(p) == [reps  |-> Cardinality(HeldIn(p, Idents \ CronIdents)),
             crons |-> Cardinality(HeldIn(p, CronIdents))]

CountOf(item) == IF item = NoItem THEN Zero ELSE One(item.id)

LEMMA HeldFinite ==
    ASSUME NEW p, NEW ids \in SUBSET Idents
    PROVE  IsFiniteSet(HeldIn(p, ids)) /\ Cardinality(HeldIn(p, ids)) \in Nat
<1>1. IsFiniteSet(ids)
  BY ScheduleAssumption, FS_Subset
<1>. QED
  BY <1>1, FS_Subset, FS_CardinalityType DEF HeldIn

LEMMA TallyType ==
    ASSUME NEW p
    PROVE  Tally(p) \in [reps : Nat, crons : Nat]
BY HeldFinite, ScheduleAssumption DEF Tally

(* Planning an identity that was not planned adds one to the right count. *)
LEMMA TallyAdd ==
    ASSUME NEW p \in Plans, NEW id \in Idents, NEW item \in Items, p[id] = NoItem
    PROVE  Tally([p EXCEPT ![id] = item]) = Plus(Tally(p), One(id))
<1>. DEFINE q == [p EXCEPT ![id] = item]
<1>0. /\ \A i \in Idents : q[i] # NoItem <=> p[i] # NoItem \/ i = id
      /\ CronIdents \subseteq Idents
  BY ItemIsSome, ScheduleAssumption DEF Plans
<1>1. ASSUME NEW ids \in SUBSET Idents, id \notin ids
      PROVE  HeldIn(q, ids) = HeldIn(p, ids)
  BY <1>0, <1>1 DEF HeldIn
<1>2. ASSUME NEW ids \in SUBSET Idents, id \in ids
      PROVE  Cardinality(HeldIn(q, ids)) = Cardinality(HeldIn(p, ids)) + 1
  <2>1. HeldIn(q, ids) = HeldIn(p, ids) \union {id} /\ id \notin HeldIn(p, ids)
    BY <1>0, <1>2 DEF HeldIn
  <2>. QED
    BY <2>1, HeldFinite, FS_AddElement
<1>3. /\ Cardinality(HeldIn(p, CronIdents)) \in Nat
      /\ Cardinality(HeldIn(p, Idents \ CronIdents)) \in Nat
  BY <1>0, HeldFinite
<1>4. CASE id \in CronIdents
  <2>1. HeldIn(q, Idents \ CronIdents) = HeldIn(p, Idents \ CronIdents)
    BY <1>1, <1>4
  <2>2. Cardinality(HeldIn(q, CronIdents)) = Cardinality(HeldIn(p, CronIdents)) + 1
    BY <1>0, <1>2, <1>4
  <2>. QED
    BY <1>3, <1>4, <2>1, <2>2 DEF Tally, Plus, One
<1>5. CASE id \notin CronIdents
  <2>1. HeldIn(q, CronIdents) = HeldIn(p, CronIdents)
    BY <1>0, <1>1, <1>5
  <2>2. Cardinality(HeldIn(q, Idents \ CronIdents))
            = Cardinality(HeldIn(p, Idents \ CronIdents)) + 1
    BY <1>2, <1>5
  <2>. QED
    BY <1>3, <1>5, <2>1, <2>2 DEF Tally, Plus, One
<1>. QED
  BY <1>4, <1>5

LEMMA TallyReplace ==
    ASSUME NEW p \in Plans, NEW id \in Idents, NEW item \in Items, p[id] # NoItem
    PROVE  Tally([p EXCEPT ![id] = item]) = Tally(p)
<1>. DEFINE q == [p EXCEPT ![id] = item]
<1>1. /\ \A i \in Idents : q[i] # NoItem <=> p[i] # NoItem
      /\ CronIdents \subseteq Idents
  BY ItemIsSome, ScheduleAssumption DEF Plans
<1>2. \A ids \in SUBSET Idents : HeldIn(q, ids) = HeldIn(p, ids)
  BY <1>1 DEF HeldIn
<1>. QED
  BY <1>1, <1>2 DEF Tally

LEMMA TallyTake ==
    ASSUME NEW p \in Plans, NEW id \in Idents, p[id] # NoItem
    PROVE  Tally([p EXCEPT ![id] = NoItem]) = Minus(Tally(p), One(id))
<1>. DEFINE q == [p EXCEPT ![id] = NoItem]
<1>1. q \in Plans /\ q[id] = NoItem /\ p[id] \in Items /\ p = [q EXCEPT ![id] = p[id]]
  BY DEF Plans
<1>2. Tally(p) = Plus(Tally(q), One(id))
  <2>1. Tally([q EXCEPT ![id] = p[id]]) = Plus(Tally(q), One(id))
    BY <1>1, TallyAdd
  <2>. QED
    BY <1>1, <2>1
<1>3. Tally(q) \in [reps : Nat, crons : Nat]
  BY TallyType
<1>4. ASSUME NEW c \in [reps : Nat, crons : Nat]
      PROVE  c = Minus(Plus(c, One(id)), One(id))
  BY DEF Minus, Plus, One
<1>. QED
  BY <1>2, <1>3, <1>4

LEMMA TallyNone == Tally([i \in Idents |-> NoItem]) = Zero
<1>1. \A ids \in SUBSET Idents : HeldIn([i \in Idents |-> NoItem], ids) = {}
  BY DEF HeldIn
<1>. QED
  BY <1>1, FS_EmptySet, ScheduleAssumption DEF Tally, Zero

------------------------------------------------------------------------------
(* The heap and the current item *)

Heap ==
    /\ queue \in Plans
    /\ counts = Tally(queue)
    /\ curr \in Items \union {NoItem}
    /\ curr # NoItem => curr.id \in Idents
    /\ currCount = CountOf(curr)
    /\ PlannedOnce
    /\ CurrentIsFirst

LEMMA InitHeap == Init => Heap /\ Plan = [i \in Idents |-> NoItem]
<1>. SUFFICES ASSUME Init PROVE Heap /\ Plan = [i \in Idents |-> NoItem]
  OBVIOUS
<1>1. queue \in Plans /\ counts = Tally(queue)
  BY NoPlan, TallyNone DEF Init
<1>2. curr = NoItem /\ currCount = CountOf(curr)
  BY DEF Init, CountOf
<1>3. \A i \in Idents : queue[i] = NoItem
  BY DEF Init
<1>. QED
  BY <1>1, <1>2, <1>3 DEF Heap, PlannedOnce, CurrentIsFirst, Plan, ItemOf, IsCurr

(* The tail of the loop takes the first item out, and the plan stays.  *)
LEMMA FindNewEffect ==
    ASSUME NEW q \in Plans, FindNew(q, Tally(q))
    PROVE  Heap' /\ Plan' = q
<1>1. CASE /\ \A i \in Idents : q[i] = NoItem
           /\ queue' = q
           /\ counts' = Tally(q)
           /\ curr' = NoItem
           /\ currCount' = Zero
  <2>1. q = [i \in Idents |-> q[i]]
    BY DEF Plans
  <2>2. Heap'
    BY <1>1 DEF Heap, CountOf, PlannedOnce, CurrentIsFirst, IsCurr
  <2>. QED
    BY <1>1, <2>1, <2>2 DEF Plan, ItemOf, IsCurr
<1>2. ASSUME NEW id \in Idents,
             IsTop(q, id),
             queue' = [q EXCEPT ![id] = NoItem],
             counts' = Minus(Tally(q), One(id)),
             curr' = q[id],
             currCount' = One(id)
      PROVE  Heap' /\ Plan' = q
  <2>1. curr' \in Items /\ curr' # NoItem /\ curr'.id = id
    BY <1>2 DEF IsTop, Plans
  <2>2. queue' \in Plans
    BY <1>2 DEF Plans
  <2>3. counts' = Tally(queue')
    BY <1>2, TallyTake DEF IsTop
  <2>4. currCount' = CountOf(curr')
    BY <1>2, <2>1 DEF CountOf
  <2>5. PlannedOnce'
    BY <1>2, <2>1 DEF PlannedOnce, IsCurr, Plans
  <2>6. CurrentIsFirst'
    BY <1>2, <2>1 DEF CurrentIsFirst, IsTop, Plans
  <2>7. Plan' = q
    <3>1. \A i \in Idents : ItemOf(i)' = q[i]
      BY <1>2, <2>1 DEF ItemOf, IsCurr, Plans
    <3>2. q = [i \in Idents |-> q[i]]
      BY DEF Plans
    <3>. QED
      BY <3>1, <3>2 DEF Plan
  <2>. QED
    BY <2>1, <2>2, <2>3, <2>4, <2>5, <2>6, <2>7 DEF Heap
<1>. QED
  BY <1>1, <1>2 DEF FindNew

(* A plan is the queue with the current item put back. *)
LEMMA PlanIs ==
    ASSUME Heap
    PROVE  /\ Plan \in Plans
           /\ curr = NoItem => Plan = queue
           /\ curr # NoItem => /\ curr \in Items
                              /\ curr.id \in Idents
                              /\ queue[curr.id] = NoItem
                              /\ Plan = [queue EXCEPT ![curr.id] = curr]
                              /\ queue = [Plan EXCEPT ![curr.id] = NoItem]
<1>1. CASE curr = NoItem
  BY <1>1 DEF Heap, Plan, ItemOf, IsCurr, Plans
<1>2. CASE curr # NoItem
  <2>1. curr \in Items /\ curr.id \in Idents /\ queue[curr.id] = NoItem
    BY <1>2 DEF Heap, PlannedOnce, IsCurr
  <2>2. \A i \in Idents : ItemOf(i) = IF i = curr.id THEN curr ELSE queue[i]
    BY <1>2 DEF ItemOf, IsCurr
  <2>3. Plan = [queue EXCEPT ![curr.id] = curr]
    BY <2>1, <2>2 DEF Plan, Heap, Plans
  <2>4. queue = [Plan EXCEPT ![curr.id] = NoItem]
    BY <2>1, <2>3 DEF Heap, Plans
  <2>5. Plan \in Plans
    BY <2>1, <2>3 DEF Heap, Plans
  <2>. QED
    BY <1>2, <2>1, <2>3, <2>4, <2>5
<1>. QED
  BY <1>1, <1>2

(* The three ways to place a new item come to the same: the plan gets it. *)
LEMMA PlaceEffect ==
    ASSUME Heap, NEW item \in Items,
           Place(item, [queue EXCEPT ![item.id] = item],
                 Tally([queue EXCEPT ![item.id] = item]))
    PROVE  Heap' /\ Plan' = [Plan EXCEPT ![item.id] = item]
<1>. DEFINE q == [queue EXCEPT ![item.id] = item]
<1>1. item.id \in Idents /\ item # NoItem /\ item.deadline \in Nat
  BY ItemIsSome DEF Items
<1>2. q \in Plans
  BY <1>1 DEF Heap, Plans
<1>3. CASE (curr # NoItem => curr.id = item.id) /\ FindNew(q, Tally(q))
  <2>1. Heap' /\ Plan' = q
    BY <1>2, <1>3, FindNewEffect
  <2>2. [Plan EXCEPT ![item.id] = item] = q
    BY <1>1, <1>3, PlanIs DEF Heap, Plans
  <2>. QED
    BY <2>1, <2>2
<1>4. CASE /\ curr # NoItem
           /\ curr.id # item.id
           /\ curr.deadline < item.deadline
           /\ queue' = q
           /\ counts' = Tally(q)
           /\ UNCHANGED <<curr, currCount>>
  <2>0. curr.id \in Idents /\ queue[curr.id] = NoItem
    BY <1>4, PlanIs
  <2>1. PlannedOnce'
    BY <1>1, <1>4, <2>0 DEF Heap, PlannedOnce, IsCurr, Plans
  <2>2. CurrentIsFirst'
    <3>. SUFFICES ASSUME NEW i \in Idents, q[i] # NoItem
                  PROVE  curr.deadline <= q[i].deadline
      BY <1>4 DEF CurrentIsFirst
    <3>1. CASE i = item.id
      <4>1. curr.deadline \in Nat
        BY <1>4, PlanIs DEF Items
      <4>2. q[i] = item
        BY <1>1, <3>1 DEF Heap, Plans
      <4>. QED
        BY <1>1, <1>4, <4>1, <4>2
    <3>2. CASE i # item.id
      BY <1>1, <3>2 DEF Heap, CurrentIsFirst, Plans
    <3>. QED
      BY <3>1, <3>2
  <2>3. Heap'
    BY <1>2, <1>4, <2>1, <2>2 DEF Heap
  <2>4. Plan' = [q EXCEPT ![curr.id] = curr]
    <3>1. \A i \in Idents : ItemOf(i)' = IF i = curr.id THEN curr ELSE q[i]
      BY <1>4 DEF ItemOf, IsCurr
    <3>. QED
      BY <1>2, <2>0, <3>1 DEF Plan, Plans
  <2>5. [q EXCEPT ![curr.id] = curr] = [[queue EXCEPT ![curr.id] = curr] EXCEPT ![item.id] = item]
    BY <1>1, <1>4, <2>0 DEF Heap, Plans
  <2>. QED
    BY <1>4, <2>3, <2>4, <2>5, PlanIs
<1>5. CASE /\ curr # NoItem
           /\ curr.id # item.id
           /\ curr.deadline >= item.deadline
           /\ FindNew([q EXCEPT ![curr.id] = curr], Plus(Tally(q), One(curr.id)))
  <2>. DEFINE r == [q EXCEPT ![curr.id] = curr]
  <2>1. /\ curr \in Items /\ curr.id \in Idents
        /\ queue[curr.id] = NoItem
        /\ Plan = [queue EXCEPT ![curr.id] = curr]
    BY <1>5, PlanIs
  <2>2. r \in Plans /\ q[curr.id] = NoItem
    BY <1>1, <1>2, <1>5, <2>1 DEF Plans, Heap
  <2>3. Tally(r) = Plus(Tally(q), One(curr.id))
    BY <1>2, <2>1, <2>2, TallyAdd
  <2>4. r = [Plan EXCEPT ![item.id] = item]
    BY <1>1, <1>5, <2>1 DEF Plans, Heap
  <2>. HIDE DEF r
  <2>5. Heap' /\ Plan' = r
    BY <1>5, <2>2, <2>3, FindNewEffect DEF r
  <2>. QED
    BY <2>4, <2>5
<1>. QED
  BY <1>3, <1>4, <1>5 DEF Place

LEMMA InsertEffect ==
    ASSUME Heap, NEW item \in Items, Insert(item)
    PROVE  Heap' /\ Plan' = [Plan EXCEPT ![item.id] = item]
<1>1. item.id \in Idents
  BY DEF Items
<1>2. CASE /\ queue[item.id] # NoItem
           /\ Place(item, [queue EXCEPT ![item.id] = item], counts)
  <2>1. counts = Tally([queue EXCEPT ![item.id] = item])
    BY <1>1, <1>2, TallyReplace DEF Heap
  <2>. QED
    BY <1>2, <2>1, PlaceEffect
<1>3. CASE /\ queue[item.id] = NoItem
           /\ Place(item, [queue EXCEPT ![item.id] = item], Plus(counts, One(item.id)))
  <2>1. Plus(counts, One(item.id)) = Tally([queue EXCEPT ![item.id] = item])
    BY <1>1, <1>3, TallyAdd DEF Heap
  <2>. QED
    BY <1>3, <2>1, PlaceEffect
<1>. QED
  BY <1>2, <1>3 DEF Insert

------------------------------------------------------------------------------
(* The inductive invariant *)

Types ==
    /\ now \in Nat
    /\ up \in BOOLEAN
    /\ stage \in [Slots -> {"free", "running", "readding"}]
    /\ work \in [Slots -> Jobs \union {NoJob}]
    /\ \A g \in Slots : stage[g] # "free" =>
          work[g] \in Jobs /\ work[g].sched \in SchedulesOf(work[g].id)
    /\ last \in [Idents -> Nat \union {Never}]
    /\ status \in [Idents -> {"none", "added", "removed", "done"}]

(* Every planned item has a schedule of its kind and a deadline for which it *)
(* has not run; what has run was due.                                        *)
Unserved ==
    /\ \A i \in Idents : last[i] <= now
    /\ \A i \in Idents : Plan[i] # NoItem => /\ Plan[i].sched \in SchedulesOf(i)
                                          /\ last[i] < Plan[i].deadline

Kept == up => \A i \in Idents : status[i] = "added" => Plan[i] # NoItem \/ InFlight(i)

RepeaterInv == Heap /\ Types /\ Unserved /\ Kept

LEMMA InitInv == Init => RepeaterInv
<1>. SUFFICES ASSUME Init PROVE RepeaterInv
  OBVIOUS
<1>1. Heap /\ Plan = [i \in Idents |-> NoItem]
  BY InitHeap
<1>2. Types
  BY DEF Init, Types, Never
<1>3. Unserved
  BY <1>1 DEF Init, Unserved, Never
<1>4. Kept
  BY DEF Init, Kept
<1>. QED
  BY <1>1, <1>2, <1>3, <1>4 DEF RepeaterInv

(* What the actions do to the plan.  *)
PlanPut(id, s) ==
    \/ Deadlines(id, s, now) = {} /\ Plan' = Plan
    \/ \E d \in Deadlines(id, s, now) :
          Plan' = [Plan EXCEPT ![id] = [id |-> id, sched |-> s, deadline |-> d]]

LEMMA PutEffect ==
    ASSUME RepeaterInv, NEW id \in Idents, NEW s \in SchedulesOf(id), Put(id, s)
    PROVE  Heap' /\ PlanPut(id, s)
<1>1. CASE Deadlines(id, s, now) = {} /\ UNCHANGED <<heap, curr, currCount>>
  <2>1. Heap' /\ Plan' = Plan
    BY <1>1 DEF RepeaterInv, Heap, PlannedOnce, CurrentIsFirst, Plan, ItemOf, IsCurr, heap
  <2>. QED
    BY <1>1, <2>1 DEF PlanPut
<1>2. ASSUME NEW d \in Deadlines(id, s, now),
             Insert([id |-> id, sched |-> s, deadline |-> d])
      PROVE  Heap' /\ PlanPut(id, s)
  <2>. DEFINE item == [id |-> id, sched |-> s, deadline |-> d]
  <2>1. item \in Items
    BY DeadlineIsLater DEF RepeaterInv, Types, Items, Schedules, SchedulesOf
  <2>2. item.id = id
    OBVIOUS
  <2>. HIDE DEF item
  <2>3. Heap' /\ Plan' = [Plan EXCEPT ![item.id] = item]
    BY <1>2, <2>1, InsertEffect DEF RepeaterInv, item
  <2>. QED
    BY <2>2, <2>3 DEF PlanPut, item
<1>. QED
  BY <1>1, <1>2 DEF Put

(* Nothing of the loop changes. *)
LEMMA LoopUnchanged ==
    ASSUME Heap, UNCHANGED <<heap, curr, currCount>>
    PROVE  Heap' /\ Plan' = Plan
BY DEF Heap, PlannedOnce, CurrentIsFirst, Plan, ItemOf, IsCurr, heap

LEMMA FireEffect ==
    ASSUME Heap, NEW g \in Slots, Fire(g)
    PROVE  /\ Heap'
           /\ curr \in Items /\ curr.id \in Idents
           /\ Plan[curr.id] = curr
           /\ \A i \in Idents : Plan[i] # NoItem => curr.deadline <= Plan[i].deadline
           /\ Plan' = [Plan EXCEPT ![curr.id] = NoItem]
<1>1. FindNew(queue, Tally(queue)) /\ curr # NoItem
  BY DEF Fire, Heap
<1>2. Heap' /\ Plan' = queue
  BY <1>1, FindNewEffect DEF Heap
<1>3. /\ curr \in Items /\ curr.id \in Idents
      /\ Plan = [queue EXCEPT ![curr.id] = curr]
      /\ queue = [Plan EXCEPT ![curr.id] = NoItem]
  BY <1>1, PlanIs
<1>4. \A i \in Idents : Plan[i] # NoItem => curr.deadline <= Plan[i].deadline
  BY <1>3 DEF Heap, CurrentIsFirst, Items, Plans
<1>5. Plan[curr.id] = curr
  BY <1>3 DEF Heap, Plans
<1>. QED
  BY <1>2, <1>3, <1>4, <1>5

LEMMA RemoveEffect ==
    ASSUME Heap, NEW id \in Idents, Remove(id)
    PROVE  Heap' /\ Plan' = [Plan EXCEPT ![id] = NoItem]
<1>1. CASE IsCurr(id) /\ FindNew(queue, counts)
  BY <1>1, FindNewEffect, PlanIs DEF Heap, IsCurr
<1>2. CASE ~IsCurr(id) /\ QueueRemove(id) /\ UNCHANGED <<curr, currCount>>
  <2>1. queue' \in Plans /\ queue' = [queue EXCEPT ![id] = NoItem]
    BY <1>2 DEF QueueRemove, Heap, Plans
  <2>2. counts' = Tally(queue')
    <3>1. CASE queue[id] = NoItem
      <4>1. queue' = queue
        BY <2>1, <3>1 DEF Heap, Plans
      <4>. QED
        BY <1>2, <3>1, <4>1 DEF QueueRemove, Heap
    <3>2. CASE queue[id] # NoItem
      BY <1>2, <2>1, <3>2, TallyTake DEF QueueRemove, Heap
    <3>. QED
      BY <3>1, <3>2
  <2>3. PlannedOnce' /\ CurrentIsFirst'
    BY <1>2, <2>1 DEF Heap, PlannedOnce, CurrentIsFirst, IsCurr, Plans
  <2>4. Heap'
    BY <1>2, <2>1, <2>2, <2>3 DEF Heap
  <2>5. Plan' = [Plan EXCEPT ![id] = NoItem]
    <3>1. \A i \in Idents : ItemOf(i)' = IF i = id THEN NoItem ELSE ItemOf(i)
      BY <1>2, <2>1 DEF ItemOf, IsCurr, Heap, Plans
    <3>. QED
      BY <3>1 DEF Plan
  <2>. QED
    BY <2>4, <2>5
<1>. QED
  BY <1>1, <1>2 DEF Remove

LEMMA ResetEffect ==
    ASSUME Heap, Reset
    PROVE  Heap' /\ Plan' = [i \in Idents |-> NoItem]
<1>. DEFINE q == [i \in Idents |-> NoItem]
<1>1. q \in Plans /\ Tally(q) = Zero
  BY NoPlan, TallyNone
<1>. HIDE DEF q
<1>2. FindNew(q, Tally(q))
  BY <1>1 DEF Reset, q
<1>3. Heap' /\ Plan' = q
  BY <1>1, <1>2, FindNewEffect
<1>. QED
  BY <1>3 DEF q

------------------------------------------------------------------------------
(* Each action preserves the invariant. *)

LEMMA PutUnserved ==
    ASSUME RepeaterInv, NEW id \in Idents, NEW s \in SchedulesOf(id),
           PlanPut(id, s), UNCHANGED <<now, last>>
    PROVE  /\ Unserved'
           /\ \A i \in Idents : Plan[i] # NoItem => Plan'[i] # NoItem
           /\ Deadlines(id, s, now) # {} => Plan'[id] # NoItem
<1>1. Plan \in Plans
  BY PlanIs DEF RepeaterInv
<1>2. CASE Deadlines(id, s, now) = {} /\ Plan' = Plan
  BY <1>2 DEF RepeaterInv, Unserved
<1>3. ASSUME NEW d \in Deadlines(id, s, now),
             Plan' = [Plan EXCEPT ![id] = [id |-> id, sched |-> s, deadline |-> d]]
      PROVE  /\ Unserved'
             /\ \A i \in Idents : Plan[i] # NoItem => Plan'[i] # NoItem
             /\ Plan'[id] # NoItem
  <2>. DEFINE item == [id |-> id, sched |-> s, deadline |-> d]
  <2>1. d \in Nat /\ d > now
    BY DeadlineIsLater DEF RepeaterInv, Types
  <2>2. item \in Items /\ item.sched = s /\ item.deadline = d
    BY <2>1 DEF Items, Schedules, SchedulesOf
  <2>3. item # NoItem
    BY <2>2, ItemIsSome
  <2>. HIDE DEF item
  <2>4. Plan' = [Plan EXCEPT ![id] = item]
    BY <1>3 DEF item
  <2>5. \A i \in Idents : Plan'[i] = IF i = id THEN item ELSE Plan[i]
    BY <1>1, <2>4 DEF Plans
  <2>6. last[id] < d
    BY <2>1 DEF RepeaterInv, Unserved, Types, Never
  <2>. QED
    BY <2>2, <2>3, <2>5, <2>6 DEF RepeaterInv, Unserved
<1>. QED
  BY <1>2, <1>3 DEF PlanPut

LEMMA AddInv ==
    ASSUME RepeaterInv, NEW id \in Idents, NEW s \in SchedulesOf(id), Add(id, s)
    PROVE  RepeaterInv'
<1>1. Heap' /\ PlanPut(id, s)
  BY PutEffect DEF Add
<1>2. Types'
  BY DEF Add, RepeaterInv, Types, calls
<1>3. /\ Unserved'
      /\ \A i \in Idents : Plan[i] # NoItem => Plan'[i] # NoItem
      /\ Deadlines(id, s, now) # {} => Plan'[id] # NoItem
  BY <1>1, PutUnserved DEF Add
<1>4. Kept'
  <2>1. \A i \in Idents : status'[i] = "added" =>
           status[i] = "added" \/ (i = id /\ Deadlines(id, s, now) # {})
    <3>1. PICK new \in {"none", "added", "removed", "done"} :
              /\ status' = [status EXCEPT ![id] = new]
              /\ Deadlines(id, s, now) = {} => new = status[id]
      BY DEF Add, RepeaterInv, Types
    <3>. QED
      BY <3>1 DEF RepeaterInv, Types
  <2>2. \A i \in Idents : InFlight(i)' <=> InFlight(i)
    BY DEF Add, calls, InFlight
  <2>. QED
    BY <1>3, <2>1, <2>2 DEF Kept, RepeaterInv, Add
<1>. QED
  BY <1>1, <1>2, <1>3, <1>4 DEF RepeaterInv

LEMMA FireInv ==
    ASSUME RepeaterInv, NEW g \in Slots, Fire(g)
    PROVE  RepeaterInv'
<1>1. /\ Heap'
      /\ curr \in Items /\ curr.id \in Idents
      /\ Plan[curr.id] = curr
      /\ Plan' = [Plan EXCEPT ![curr.id] = NoItem]
      /\ Plan \in Plans
  BY FireEffect, PlanIs DEF RepeaterInv
<1>2. curr # NoItem /\ curr.sched \in SchedulesOf(curr.id) /\ curr.deadline \in Nat
  BY <1>1, ItemIsSome DEF RepeaterInv, Unserved, Items
<1>3. Types'
  <2>1. work' \in [Slots -> Jobs \union {NoJob}] /\ work'[g] \in Jobs
    BY <1>1 DEF Fire, RepeaterInv, Types, Jobs, Items
  <2>2. last' \in [Idents -> Nat \union {Never}]
    BY <1>1, <1>2 DEF Fire, RepeaterInv, Types
  <2>3. stage' \in [Slots -> {"free", "running", "readding"}]
    BY DEF Fire, RepeaterInv, Types
  <2>4. \A h \in Slots : stage'[h] # "free" =>
           work'[h] \in Jobs /\ work'[h].sched \in SchedulesOf(work'[h].id)
    BY <1>2, <2>1 DEF Fire, RepeaterInv, Types
  <2>. QED
    BY <2>1, <2>2, <2>3, <2>4 DEF Fire, RepeaterInv, Types
<1>4. Unserved'
  <2>1. \A i \in Idents : last'[i] <= now'
    BY <1>1 DEF Fire, RepeaterInv, Unserved, Types
  <2>2. \A i \in Idents : Plan'[i] # NoItem => i # curr.id /\ Plan'[i] = Plan[i]
    BY <1>1 DEF Plans
  <2>3. \A i \in Idents : i # curr.id => last'[i] = last[i]
    BY <1>1 DEF Fire, RepeaterInv, Types
  <2>. QED
    BY <2>1, <2>2, <2>3 DEF RepeaterInv, Unserved
<1>5. Kept'
  <2>1. \A i \in Idents : InFlight(i) => InFlight(i)'
    BY DEF Fire, InFlight, RepeaterInv, Types
  <2>2. PICK id \in Idents : id = curr.id
    BY <1>1
  <2>3. InFlight(id)'
    BY <2>2 DEF Fire, InFlight, RepeaterInv, Types
  <2>4. \A i \in Idents : i # id => Plan'[i] = Plan[i]
    BY <1>1, <2>2 DEF Plans
  <2>5. \A i \in Idents : status'[i] = "added" => status[i] = "added" /\ up
    BY DEF Fire
  <2>. QED
    BY <2>1, <2>3, <2>4, <2>5 DEF Kept, RepeaterInv
<1>. QED
  BY <1>1, <1>3, <1>4, <1>5 DEF RepeaterInv

LEMMA RemoveInv ==
    ASSUME RepeaterInv, NEW id \in Idents, Remove(id)
    PROVE  RepeaterInv'
<1>1. /\ Heap'
      /\ \A i \in Idents : Plan'[i] = IF i = id THEN NoItem ELSE Plan[i]
  BY RemoveEffect, PlanIs DEF RepeaterInv, Plans
<1>2. Types'
  BY DEF Remove, RepeaterInv, Types, calls
<1>3. Unserved'
  BY <1>1 DEF Remove, RepeaterInv, Unserved
<1>4. Kept'
  <2>1. \A i \in Idents : status'[i] = "added" => status[i] = "added" /\ i # id
    BY DEF Remove, RepeaterInv, Types
  <2>2. \A i \in Idents : InFlight(i)' <=> InFlight(i)
    BY DEF Remove, calls, InFlight
  <2>. QED
    BY <1>1, <2>1, <2>2 DEF Kept, RepeaterInv, Remove
<1>. QED
  BY <1>1, <1>2, <1>3, <1>4 DEF RepeaterInv

LEMMA ResetInv ==
    ASSUME RepeaterInv, Reset
    PROVE  RepeaterInv'
<1>1. Heap' /\ \A i \in Idents : Plan'[i] = NoItem
  BY ResetEffect DEF RepeaterInv
<1>2. Types'
  BY DEF Reset, RepeaterInv, Types, calls
<1>3. Unserved'
  BY <1>1 DEF Reset, RepeaterInv, Unserved
<1>4. Kept'
  BY DEF Kept, Reset
<1>. QED
  BY <1>1, <1>2, <1>3, <1>4 DEF RepeaterInv

LEMMA ReAddInv ==
    ASSUME RepeaterInv, NEW g \in Slots, ReAdd(g)
    PROVE  RepeaterInv'
<1>. PICK id, s : id = work[g].id /\ s = work[g].sched
  OBVIOUS
<1>1. id \in Idents /\ s \in SchedulesOf(id)
  BY DEF ReAdd, RepeaterInv, Types, Jobs
<1>2. Put(id, s)
  BY DEF ReAdd
<1>3. Heap' /\ PlanPut(id, s)
  BY <1>1, <1>2, PutEffect
<1>4. Types'
  BY <1>1 DEF ReAdd, RepeaterInv, Types, Free, EndOf
<1>5. /\ Unserved'
      /\ \A i \in Idents : Plan[i] # NoItem => Plan'[i] # NoItem
      /\ Deadlines(id, s, now) # {} => Plan'[id] # NoItem
  BY <1>1, <1>3, PutUnserved DEF ReAdd
<1>6. Kept'
  <2>1. \A i \in Idents : status'[i] = "added" =>
           status[i] = "added" /\ (i = id => Deadlines(id, s, now) # {})
    BY <1>1 DEF ReAdd, EndOf, RepeaterInv, Types
  <2>2. \A i \in Idents : InFlight(i) /\ i # id => InFlight(i)'
    BY DEF ReAdd, Free, InFlight, RepeaterInv, Types
  <2>. QED
    BY <1>5, <2>1, <2>2 DEF Kept, RepeaterInv, ReAdd
<1>. QED
  BY <1>3, <1>4, <1>5, <1>6 DEF RepeaterInv

LEMMA FinishInv ==
    ASSUME RepeaterInv, NEW g \in Slots, Finish(g) \/ AskAgain(g) \/ Abandon(g)
    PROVE  RepeaterInv'
<1>1. Heap' /\ Plan' = Plan
  BY LoopUnchanged DEF Finish, AskAgain, Abandon, RepeaterInv
<1>2. Types'
  BY DEF Finish, AskAgain, Abandon, Free, EndOf, RepeaterInv, Types, ghosts
<1>3. Unserved'
  BY <1>1 DEF Finish, AskAgain, Abandon, RepeaterInv, Unserved, ghosts
<1>4. Kept'
  <2>1. CASE Finish(g)
    <3>1. \A i \in Idents : status'[i] = "added" => status[i] = "added" /\ i # work[g].id
      BY <2>1 DEF Finish, EndOf, RepeaterInv, Types
    <3>2. \A i \in Idents : InFlight(i) /\ i # work[g].id => InFlight(i)'
      BY <2>1 DEF Finish, Free, InFlight, RepeaterInv, Types
    <3>. QED
      BY <1>1, <2>1, <3>1, <3>2 DEF Finish, Kept, RepeaterInv
  <2>2. CASE AskAgain(g)
    <3>1. \A i \in Idents : InFlight(i) => InFlight(i)'
      BY <2>2 DEF AskAgain, InFlight, RepeaterInv, Types
    <3>. QED
      BY <1>1, <2>2, <3>1 DEF AskAgain, Kept, RepeaterInv, ghosts
  <2>3. CASE Abandon(g)
    BY <2>3 DEF Abandon, Kept
  <2>. QED
    BY <2>1, <2>2, <2>3
<1>. QED
  BY <1>1, <1>2, <1>3, <1>4 DEF RepeaterInv

LEMMA IdleInv ==
    ASSUME RepeaterInv, Stop \/ Tick \/ UNCHANGED vars
    PROVE  RepeaterInv'
<1>1. Heap' /\ Plan' = Plan
  BY LoopUnchanged DEF Stop, Tick, vars, RepeaterInv
<1>2. Types' /\ now <= now' /\ last' = last
  <2>1. now \in Nat /\ up \in BOOLEAN
    BY DEF RepeaterInv, Types
  <2>2. now' = now \/ now' = now + 1
    BY DEF Stop, Tick, vars
  <2>3. up' = up \/ up' = FALSE
    BY DEF Stop, Tick, vars
  <2>4. UNCHANGED <<stage, work, last, status>>
    BY DEF Stop, Tick, vars, calls, ghosts
  <2>5. now' \in Nat /\ now <= now'
    BY <2>1, <2>2
  <2>6. up' \in BOOLEAN
    BY <2>1, <2>3
  <2>. QED
    BY <2>4, <2>5, <2>6 DEF RepeaterInv, Types
<1>3. Unserved'
  BY <1>1, <1>2 DEF RepeaterInv, Unserved, Types, Never
<1>4. Kept'
  <2>1. \A i \in Idents : InFlight(i)' <=> InFlight(i)
    BY DEF Stop, Tick, vars, calls, InFlight
  <2>. QED
    BY <1>1, <2>1 DEF Stop, Tick, vars, ghosts, Kept, RepeaterInv
<1>. QED
  BY <1>1, <1>2, <1>3, <1>4 DEF RepeaterInv

LEMMA NextInv == RepeaterInv /\ [Next]_vars => RepeaterInv'
<1>. SUFFICES ASSUME RepeaterInv, [Next]_vars PROVE RepeaterInv'
  OBVIOUS
<1>1. ASSUME NEW id \in Idents, NEW s \in SchedulesOf(id), Add(id, s) PROVE RepeaterInv'
  BY <1>1, AddInv
<1>2. ASSUME NEW id \in Idents, Remove(id) PROVE RepeaterInv'
  BY <1>2, RemoveInv
<1>3. ASSUME NEW g \in Slots, Fire(g) PROVE RepeaterInv'
  BY <1>3, FireInv
<1>4. ASSUME NEW g \in Slots, Goroutine(g) PROVE RepeaterInv'
  BY <1>4, ReAddInv, FinishInv DEF Goroutine
<1>5. CASE Reset
  BY <1>5, ResetInv
<1>6. CASE Stop \/ Tick \/ UNCHANGED vars
  BY <1>6, IdleInv
<1>. QED
  BY <1>1, <1>2, <1>3, <1>4, <1>5, <1>6 DEF Next

(* The inductive invariant: the heap, its counts and the current item hang   *)
(* together, and what is planned has not run yet.                            *)
THEOREM RepeaterInvariant == Spec => []RepeaterInv
BY InitInv, NextInv, PTL DEF Spec

------------------------------------------------------------------------------
(* Consequences *)

(* Every variable keeps its type; in particular no count becomes negative    *)
(* (queuePush, queuePop and queueRemove count up and down).                  *)
THEOREM TypeCorrect == Spec => []TypeOK
<1>1. RepeaterInv => TypeOK
  <2>. SUFFICES ASSUME RepeaterInv PROVE TypeOK
    OBVIOUS
  <2>1. counts \in [reps : Nat, crons : Nat]
    BY TallyType DEF RepeaterInv, Heap
  <2>2. currCount \in [reps : Nat, crons : Nat]
    BY DEF RepeaterInv, Heap, CountOf, Zero, One
  <2>. QED
    BY <2>1, <2>2 DEF RepeaterInv, Heap, Types, TypeOK, Plans
<1>. QED
  BY <1>1, RepeaterInvariant, PTL

(* The loop always waits for an item with the earliest deadline: the three   *)
(* ways out of the addChan case and the tail of the loop see to it.          *)
THEOREM WaitsForFirst == Spec => []CurrentIsFirst
<1>1. RepeaterInv => CurrentIsFirst
  BY DEF RepeaterInv, Heap
<1>. QED
  BY <1>1, RepeaterInvariant, PTL

(* The item that was taken out of the heap is never in it as well. *)
THEOREM NeverPlannedTwice == Spec => []PlannedOnce
<1>1. RepeaterInv => PlannedOnce
  BY DEF RepeaterInv, Heap
<1>. QED
  BY <1>1, RepeaterInvariant, PTL

(* What Count reports is the number of planned repeats and crons. *)
THEOREM CountIsRight == Spec => []CountsRight
<1>1. RepeaterInv => CountsRight
  <2>. SUFFICES ASSUME RepeaterInv PROVE CountsRight
    OBVIOUS
  <2>1. \A ids \in SUBSET Idents : HeldIn(Plan, ids) = {i \in ids : Planned(i)}
    BY DEF RepeaterInv, Heap, HeldIn, Plan, ItemOf, Planned, IsCurr
  <2>2. Tally(Plan) = [reps  |-> Cardinality({i \in Idents \ CronIdents : Planned(i)}),
                       crons |-> Cardinality({i \in CronIdents : Planned(i)})]
    BY <2>1, ScheduleAssumption DEF Tally
  <2>3. Plus(counts, currCount) = Tally(Plan)
    <3>1. CASE curr = NoItem
      <4>1. Plan = queue /\ counts = Tally(queue) /\ currCount = Zero
        BY <3>1, PlanIs DEF RepeaterInv, Heap, CountOf
      <4>2. Tally(queue) \in [reps : Nat, crons : Nat]
        BY TallyType
      <4>. QED
        BY <4>1, <4>2 DEF Plus, Zero
    <3>2. CASE curr # NoItem
      BY <3>2, PlanIs, TallyAdd DEF RepeaterInv, Heap, CountOf
    <3>. QED
      BY <3>1, <3>2
  <2>. QED
    BY <2>2, <2>3 DEF CountsRight
<1>. QED
  BY <1>1, RepeaterInvariant, PTL

(* A function never runs twice for one deadline: repeatJob's next deadline   *)
(* is later than now, whatever the start, the interval and the truncation.   *)
THEOREM RunsOncePerDeadline == Spec => []OncePerDeadline
<1>1. RepeaterInv => OncePerDeadline
  <2>. SUFFICES ASSUME RepeaterInv, NEW i \in Idents, Planned(i)
                PROVE  last[i] < ItemOf(i).deadline
    BY DEF OncePerDeadline
  <2>1. Plan[i] = ItemOf(i) /\ Plan[i] # NoItem
    BY DEF Plan, ItemOf, Planned, IsCurr
  <2>. QED
    BY <2>1 DEF RepeaterInv, Unserved
<1>. QED
  BY <1>1, RepeaterInvariant, PTL

(* While Run runs, what was added, not removed, and wants to go on is        *)
(* planned or running.                                                       *)
THEOREM NothingLost == Spec => []NeverLost
<1>1. RepeaterInv => NeverLost
  <2>. SUFFICES ASSUME RepeaterInv, up, NEW i \in Idents, status[i] = "added"
                PROVE  Planned(i) \/ InFlight(i)
    BY DEF NeverLost
  <2>1. Plan[i] # NoItem => Planned(i)
    BY DEF Plan, ItemOf, Planned
  <2>. QED
    BY <2>1 DEF RepeaterInv, Kept
<1>. QED
  BY <1>1, RepeaterInvariant, PTL

------------------------------------------------------------------------------
(* Refinement *)

LEMMA SchedulerData ==
    /\ S!NoItem = NoItem /\ S!NoJob = NoJob
    /\ \A id, s, t : S!Deadlines(id, s, t) = Deadlines(id, s, t)
    /\ \A id : S!SchedulesOf(id) = SchedulesOf(id)
BY DEF S!NoItem, NoItem, S!NoJob, NoJob, S!Deadlines, Deadlines, S!CronNext, CronNext,
       S!RepeatNext, RepeatNext, S!Quotient, Quotient, S!SchedulesOf, SchedulesOf,
       S!CronTabs, CronTabs, S!Repeats, Repeats

LEMMA RefinesInit == Init => S!Init
BY InitHeap, SchedulerData DEF Init, S!Init

LEMMA RefinesNext == RepeaterInv /\ [Next]_vars => [S!Next]_(S!vars)
<1>. SUFFICES ASSUME RepeaterInv, [Next]_vars PROVE [S!Next]_(S!vars)
  OBVIOUS
<1>0. Heap
  BY DEF RepeaterInv
<1>1. ASSUME NEW id \in Idents, NEW s \in SchedulesOf(id), Add(id, s) PROVE S!Next
  <2>1. PlanPut(id, s)
    BY <1>1, PutEffect DEF Add
  <2>2. S!Add(id, s)
    BY <1>1, <2>1, SchedulerData DEF Add, PlanPut, S!Add, S!Put, calls
  <2>. QED
    BY <2>2, SchedulerData DEF S!Next
<1>2. ASSUME NEW id \in Idents, Remove(id) PROVE S!Next
  BY <1>0, <1>2, RemoveEffect, SchedulerData DEF Remove, calls, S!Remove, S!Next
<1>3. ASSUME NEW g \in Slots, Fire(g) PROVE S!Next
  <2>1. PICK id \in Idents : id = curr.id
    BY <1>0, <1>3, FireEffect
  <2>2. /\ Plan[id] = curr /\ curr # NoItem
        /\ \A i \in Idents : Plan[i] # NoItem => curr.deadline <= Plan[i].deadline
        /\ Plan' = [Plan EXCEPT ![id] = NoItem]
    BY <1>0, <1>3, <2>1, FireEffect DEF Fire
  <2>3. S!Earliest(id)
    BY <2>2, SchedulerData DEF S!Earliest
  <2>4. S!Fire(id, g)
    BY <1>3, <2>1, <2>2, <2>3, SchedulerData DEF Fire, S!Fire
  <2>. QED
    BY <2>4 DEF S!Next
<1>4. CASE Reset
  BY <1>0, <1>4, ResetEffect, SchedulerData DEF Reset, calls, S!Reset, S!Next
<1>5. ASSUME NEW g \in Slots, ReAdd(g) PROVE S!Next
  <2>1. PICK id, s : id = work[g].id /\ s = work[g].sched
    OBVIOUS
  <2>2. id \in Idents /\ s \in SchedulesOf(id) /\ Put(id, s)
    BY <1>5, <2>1 DEF ReAdd, RepeaterInv, Types, Jobs
  <2>3. PlanPut(id, s)
    BY <2>2, PutEffect
  <2>4. S!ReAdd(g)
    BY <1>5, <2>1, <2>3, SchedulerData DEF ReAdd, PlanPut, Free, S!ReAdd, S!Put, S!Free
  <2>. QED
    BY <2>4 DEF S!Next
<1>6. ASSUME NEW g \in Slots, Finish(g) \/ AskAgain(g) \/ Abandon(g) PROVE S!Next
  <2>1. Plan' = Plan
    BY <1>0, <1>6, LoopUnchanged DEF Finish, AskAgain, Abandon
  <2>2. S!Finish(g) \/ S!AskAgain(g) \/ S!Abandon(g)
    BY <1>6, <2>1, SchedulerData DEF Finish, AskAgain, Abandon, Free,
                                     S!Finish, S!AskAgain, S!Abandon, S!Free
  <2>. QED
    BY <2>2 DEF S!Next
<1>7. CASE Stop \/ Tick
  <2>1. Plan' = Plan
    BY <1>0, <1>7, LoopUnchanged DEF Stop, Tick
  <2>2. S!Stop \/ S!Tick
    BY <1>7, <2>1 DEF Stop, Tick, calls, S!Stop, S!Tick
  <2>. QED
    BY <2>2 DEF S!Next
<1>8. CASE UNCHANGED vars
  <2>1. Plan' = Plan
    BY <1>0, <1>8, LoopUnchanged DEF vars
  <2>. QED
    BY <1>8, <2>1 DEF vars, calls, S!vars
<1>. QED
  BY <1>1, <1>2, <1>3, <1>4, <1>5, <1>6, <1>7, <1>8 DEF Next, Goroutine

(* The run loop, with its heap, its current item outside the heap and its    *)
(* timer, implements the repeater's promise.                                 *)
THEOREM RepeaterImplementsScheduler == Spec => ImplementsScheduler
BY RefinesInit, RefinesNext, RepeaterInvariant, PTL DEF Spec, ImplementsScheduler, S!Spec
=============================================================================
