----------------------------- MODULE Scheduler -----------------------------
(* What the repeater promises, whatever its data structures: a plan with at  *)
(* most one deadline for each identity; the function with the earliest       *)
(* deadline runs first and never before its time, in a goroutine of its own; *)
(* a function that asks for it is planned again when it returns.             *)
EXTENDS Schedules

VARIABLES
    now,    \* the clock
    up,     \* whether Run is running
    plan,   \* plan[i]: the item of i, or NoItem
    stage,  \* stage[g]: free, running, or readding (calling add with its job)
    work    \* work[g]: the job goroutine g runs

vars == <<now, up, plan, stage, work>>

Init ==
    /\ now = 0
    /\ up = TRUE
    /\ plan = [i \in Idents |-> NoItem]
    /\ stage = [g \in Slots |-> "free"]
    /\ work = [g \in Slots |-> NoJob]

(* A job is planned, in place of the one its identity has.  A schedule that  *)
(* never fires again leaves the plan alone.                                  *)
Put(id, s) ==
    \/ Deadlines(id, s, now) = {} /\ UNCHANGED plan
    \/ \E d \in Deadlines(id, s, now) :
          plan' = [plan EXCEPT ![id] = [id |-> id, sched |-> s, deadline |-> d]]

Add(id, s) == up /\ Put(id, s) /\ UNCHANGED <<now, up, stage, work>>

Remove(id) ==
    /\ up
    /\ plan' = [plan EXCEPT ![id] = NoItem]
    /\ UNCHANGED <<now, up, stage, work>>

Reset ==
    /\ up
    /\ plan' = [i \in Idents |-> NoItem]
    /\ UNCHANGED <<now, up, stage, work>>

Earliest(id) ==
    /\ plan[id] # NoItem
    /\ \A i \in Idents : plan[i] # NoItem => plan[id].deadline <= plan[i].deadline

Fire(id, g) ==
    /\ up
    /\ Earliest(id)
    /\ plan[id].deadline <= now
    /\ stage[g] = "free"
    /\ plan' = [plan EXCEPT ![id] = NoItem]
    /\ stage' = [stage EXCEPT ![g] = "running"]
    /\ work' = [work EXCEPT ![g] = [id |-> id, sched |-> plan[id].sched]]
    /\ UNCHANGED <<now, up>>

Free(g) ==
    /\ stage' = [stage EXCEPT ![g] = "free"]
    /\ work' = [work EXCEPT ![g] = NoJob]

(* The function returns FALSE, and is forgotten. *)
Finish(g) ==
    /\ stage[g] = "running"
    /\ Free(g)
    /\ UNCHANGED <<now, up, plan>>

(* The function returns TRUE. *)
AskAgain(g) ==
    /\ stage[g] = "running"
    /\ stage' = [stage EXCEPT ![g] = "readding"]
    /\ UNCHANGED <<now, up, plan, work>>

ReAdd(g) ==
    /\ up
    /\ stage[g] = "readding"
    /\ Put(work[g].id, work[g].sched)
    /\ Free(g)
    /\ UNCHANGED <<now, up>>

(* The context of Run is cancelled, and with it that of the goroutines. *)
Stop == up /\ up' = FALSE /\ UNCHANGED <<now, plan, stage, work>>

Abandon(g) ==
    /\ ~up
    /\ stage[g] # "free"
    /\ Free(g)
    /\ UNCHANGED <<now, up, plan>>

Tick == now' = now + 1 /\ UNCHANGED <<up, plan, stage, work>>

Next ==
    \/ \E id \in Idents : \E s \in SchedulesOf(id) : Add(id, s)
    \/ \E id \in Idents : Remove(id)
    \/ \E id \in Idents, g \in Slots : Fire(id, g)
    \/ Reset
    \/ \E g \in Slots : Finish(g) \/ AskAgain(g) \/ ReAdd(g) \/ Abandon(g)
    \/ Stop
    \/ Tick

Spec == Init /\ [][Next]_vars
=============================================================================
