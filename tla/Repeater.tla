------------------------------ MODULE Repeater ------------------------------
(***************************************************************************)
(* The run loop of hortbot's repeater (internal/pkg/repeat/repeat2.go): a  *)
(* priority queue of items, the current item with its timer, which is not  *)
(* in the queue, and two counts.  Callers and finished functions reach the *)
(* loop through unbuffered channels, so that a call and its case of the    *)
(* select are one action.  The heap is modelled by what container/heap     *)
(* does: Pop returns an item with the earliest deadline.                   *)
(***************************************************************************)
EXTENDS Schedules

VARIABLES
    now,        \* the clock
    up,         \* whether Run is running
    queue,      \* queue[i]: the queued item of i, or NoItem
    counts,     \* how many repeats and crons are queued
    curr,       \* the current item, or NoItem
    currCount,  \* the counts of the current item
    stage,      \* stage[g]: free, running, or readding (calling add with its job)
    work,       \* work[g]: the job goroutine g runs
    last,       \* last[i]: the deadline for which i ran last, or Never
    status      \* status[i]: what was last asked for i: added, removed (or
                \* reset), done when a function of it asked for no more; or none

calls  == <<stage, work>>
ghosts == <<last, status>>
heap   == <<queue, counts>>
vars   == <<now, up, heap, curr, currCount, calls, ghosts>>

Never == -1

Zero == [reps |-> 0, crons |-> 0]
One(id) == IF id \in CronIdents THEN [reps |-> 0, crons |-> 1] ELSE [reps |-> 1, crons |-> 0]
Plus(c, d) == [reps |-> c.reps + d.reps, crons |-> c.crons + d.crons]
Minus(c, d) == [reps |-> c.reps - d.reps, crons |-> c.crons - d.crons]

Init ==
    /\ now = 0
    /\ up = TRUE
    /\ queue = [i \in Idents |-> NoItem]
    /\ counts = Zero
    /\ curr = NoItem
    /\ currCount = Zero
    /\ stage = [g \in Slots |-> "free"]
    /\ work = [g \in Slots |-> NoJob]
    /\ last = [i \in Idents |-> Never]
    /\ status = [i \in Idents |-> "none"]

------------------------------------------------------------------------------
(* The run loop *)

IsCurr(i) == curr # NoItem /\ curr.id = i

(* A mutant: an item is taken from the wrong end of the array. *)
IsTopAny(q, id) == q[id] # NoItem

IsTop(q, id) ==
    /\ q[id] # NoItem
    /\ \A i \in Idents : q[i] # NoItem => q[id].deadline <= q[i].deadline

(* A mutant: the count of the current item is not reset. *)
FindNewStaleCount(q, c) ==
    \/ /\ \A i \in Idents : q[i] = NoItem
       /\ queue' = q
       /\ counts' = c
       /\ curr' = NoItem
       /\ UNCHANGED currCount
    \/ \E id \in Idents :
          /\ IsTop(q, id)
          /\ queue' = [q EXCEPT ![id] = NoItem]
          /\ counts' = Minus(c, One(id))
          /\ curr' = q[id]
          /\ currCount' = One(id)

(* "Find a new job": the tail of the loop, with the queue q and its counts c. *)
FindNew(q, c) ==
    \/ /\ \A i \in Idents : q[i] = NoItem
       /\ queue' = q
       /\ counts' = c
       /\ curr' = NoItem
       /\ currCount' = Zero
    \/ \E id \in Idents :
          /\ IsTop(q, id)
          /\ queue' = [q EXCEPT ![id] = NoItem]
          /\ counts' = Minus(c, One(id))
          /\ curr' = q[id]
          /\ currCount' = One(id)

(* case <-currReady: the timer of the current item has fired. *)
Fire(g) ==
    /\ up
    /\ curr # NoItem
    /\ curr.deadline <= now
    /\ stage[g] = "free"
    /\ stage' = [stage EXCEPT ![g] = "running"]
    /\ work' = [work EXCEPT ![g] = [id |-> curr.id, sched |-> curr.sched]]
    /\ last' = [last EXCEPT ![curr.id] = curr.deadline]
    /\ FindNew(queue, counts)
    /\ UNCHANGED <<now, up, status>>

(* A mutant: the current item is dropped for a better one. *)
PlaceDropping(item, q, c) ==
    IF curr # NoItem /\ curr.id # item.id /\ curr.deadline < item.deadline
    THEN /\ queue' = q
         /\ counts' = c
         /\ UNCHANGED <<curr, currCount>>
    ELSE FindNew(q, c)

(* The queue q holds the new item: is the current one still to be waited for? *)
Place(item, q, c) ==
    \/ /\ curr # NoItem => curr.id = item.id
       /\ FindNew(q, c)
    \/ /\ curr # NoItem
       /\ curr.id # item.id
       /\ curr.deadline < item.deadline
       /\ queue' = q
       /\ counts' = c
       /\ UNCHANGED <<curr, currCount>>
    \/ /\ curr # NoItem
       /\ curr.id # item.id
       /\ curr.deadline >= item.deadline
       /\ FindNew([q EXCEPT ![curr.id] = curr], Plus(c, One(curr.id)))

(* case job := <-m.addChan: replaced in place, or pushed. *)
Insert(item) ==
    \/ /\ queue[item.id] # NoItem
       /\ Place(item, [queue EXCEPT ![item.id] = item], counts)
    \/ /\ queue[item.id] = NoItem
       /\ Place(item, [queue EXCEPT ![item.id] = item], Plus(counts, One(item.id)))

Put(id, s) ==
    \/ Deadlines(id, s, now) = {} /\ UNCHANGED <<heap, curr, currCount>>
    \/ \E d \in Deadlines(id, s, now) : Insert([id |-> id, sched |-> s, deadline |-> d])

Add(id, s) ==
    /\ up
    /\ Put(id, s)
    /\ status' = [status EXCEPT ![id] = IF Deadlines(id, s, now) = {} THEN @ ELSE "added"]
    /\ UNCHANGED <<now, up, calls, last>>

QueueRemove(id) ==
    /\ queue' = [queue EXCEPT ![id] = NoItem]
    /\ counts' = IF queue[id] = NoItem THEN counts ELSE Minus(counts, One(id))

(* case id := <-m.removeChan *)
Remove(id) ==
    /\ up
    /\ \/ /\ IsCurr(id)
          /\ FindNew(queue, counts)
       \/ /\ ~IsCurr(id)
          /\ QueueRemove(id)
          /\ UNCHANGED <<curr, currCount>>
    /\ status' = [status EXCEPT ![id] = "removed"]
    /\ UNCHANGED <<now, up, calls, last>>

(* case <-m.resetChan *)
Reset ==
    /\ up
    /\ FindNew([i \in Idents |-> NoItem], Zero)
    /\ status' = [i \in Idents |-> "removed"]
    /\ UNCHANGED <<now, up, calls, last>>

------------------------------------------------------------------------------
(* The goroutines, the end of the loop, and time *)

Free(g) ==
    /\ stage' = [stage EXCEPT ![g] = "free"]
    /\ work' = [work EXCEPT ![g] = NoJob]

EndOf(id) == status' = [status EXCEPT ![id] = IF @ = "added" THEN "done" ELSE @]

(* job.run returns FALSE. *)
Finish(g) ==
    /\ stage[g] = "running"
    /\ Free(g)
    /\ EndOf(work[g].id)
    /\ UNCHANGED <<now, up, heap, curr, currCount, last>>

(* job.run returns TRUE, and the goroutine calls m.add. *)
AskAgain(g) ==
    /\ stage[g] = "running"
    /\ stage' = [stage EXCEPT ![g] = "readding"]
    /\ UNCHANGED <<now, up, heap, curr, currCount, work, ghosts>>

ReAdd(g) ==
    /\ up
    /\ stage[g] = "readding"
    /\ Put(work[g].id, work[g].sched)
    /\ IF Deadlines(work[g].id, work[g].sched, now) = {}
       THEN EndOf(work[g].id)
       ELSE UNCHANGED status
    /\ Free(g)
    /\ UNCHANGED <<now, up, last>>

(* case <-ctx.Done() *)
Stop == up /\ up' = FALSE /\ UNCHANGED <<now, heap, curr, currCount, calls, ghosts>>

(* Run waits for the goroutines, whose context is cancelled. *)
Abandon(g) ==
    /\ ~up
    /\ stage[g] # "free"
    /\ Free(g)
    /\ UNCHANGED <<now, up, heap, curr, currCount, ghosts>>

Tick == now' = now + 1 /\ UNCHANGED <<up, heap, curr, currCount, calls, ghosts>>

Goroutine(g) == Finish(g) \/ AskAgain(g) \/ ReAdd(g) \/ Abandon(g)

Next ==
    \/ \E id \in Idents : \E s \in SchedulesOf(id) : Add(id, s)
    \/ \E id \in Idents : Remove(id)
    \/ \E g \in Slots : Fire(g) \/ Goroutine(g)
    \/ Reset
    \/ Stop
    \/ Tick

Spec == Init /\ [][Next]_vars
------------------------------------------------------------------------------
(* Properties *)

TypeOK ==
    /\ now \in Nat
    /\ up \in BOOLEAN
    /\ queue \in [Idents -> Items \union {NoItem}]
    /\ \A i \in Idents : queue[i] # NoItem => queue[i].id = i
    /\ counts \in [reps : Nat, crons : Nat]
    /\ curr \in Items \union {NoItem}
    /\ currCount \in [reps : Nat, crons : Nat]
    /\ stage \in [Slots -> {"free", "running", "readding"}]
    /\ work \in [Slots -> Jobs \union {NoJob}]
    /\ \A g \in Slots : stage[g] # "free" => work[g] \in Jobs
    /\ last \in [Idents -> Nat \union {Never}]
    /\ status \in [Idents -> {"none", "added", "removed", "done"}]

Planned(i) == IsCurr(i) \/ queue[i] # NoItem
ItemOf(i) == IF IsCurr(i) THEN curr ELSE queue[i]
InFlight(i) == \E g \in Slots : stage[g] # "free" /\ work[g].id = i

(* The loop waits for the item with the earliest deadline, and waits for     *)
(* nothing only when there is nothing to wait for.                           *)
CurrentIsFirst ==
    \A i \in Idents : queue[i] # NoItem => curr # NoItem /\ curr.deadline <= queue[i].deadline

(* No identity is planned twice: in the queue and as the current item. *)
PlannedOnce == \A i \in Idents : ~(IsCurr(i) /\ queue[i] # NoItem)

(* Count reports the number of planned repeats and of planned crons. *)
CountsRight ==
    Plus(counts, currCount) =
        [reps  |-> Cardinality({i \in Idents \ CronIdents : Planned(i)}),
         crons |-> Cardinality({i \in CronIdents : Planned(i)})]

(* A function never runs twice for one deadline: not when it is added again  *)
(* while it runs, and not when it is replaced at the very time it is due.    *)
OncePerDeadline == \A i \in Idents : Planned(i) => last[i] < ItemOf(i).deadline

(* What was added, not removed, and asks to go on is not lost while the loop *)
(* runs.                                                                     *)
NeverLost == up => \A i \in Idents : status[i] = "added" => Planned(i) \/ InFlight(i)

(* The plan that the queue and the current item amount to. *)
Plan == [i \in Idents |-> ItemOf(i)]
S == INSTANCE Scheduler WITH plan <- Plan

(* Queue, current item and timer together behave like a plan. *)
ImplementsScheduler == S!Spec
=============================================================================
