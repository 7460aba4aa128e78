-------------------------- MODULE RepeatedCommands --------------------------
(***************************************************************************)
(* Repeated and scheduled commands of a channel (internal/bot): their rows *)
(* in the database, the messages that change them, the jobs that run them  *)
(* and the schedules that each bot process keeps in memory.  A message and *)
(* a job are one transaction each, whose steps interleave: the locks they  *)
(* wait for, what they read before and use after, and the schedule that    *)
(* changes in memory before the transaction ends.  The schedule in memory  *)
(* is the plan of Scheduler.  PostgreSQL runs at READ COMMITTED: a         *)
(* SELECT FOR UPDATE that had to wait looks at the row again.              *)
(***************************************************************************)
EXTENDS Schedules

CONSTANTS
    Processes,   \* processes of the bot
    Handlers,    \* workers that handle messages
    ProcOf,      \* the process of a worker, and of a goroutine of Slots
    MessageDiff, \* message_diff, the messages there must be between two runs
    CronGap,     \* the cooldown of a scheduled command, 29 seconds
    HandleTime,  \* the deadline of a handler, 15 seconds
    Ops,         \* what messages ask for
    Faults,      \* what may go wrong
    MaxFaults,   \* how often
    Nobody

Managing == {"handleJoin", "handleLeave"}  \* written in the channel of the bot itself
Changing == {"add", "on", "off", "delete"}
Leaving  == {"handleLeave", "cmdLeave"}

ASSUME CommandAssumption ==
    /\ ProcOf \in [Handlers \union Slots -> Processes]
    /\ Handlers \intersect Slots = {}
    /\ Nobody \notin Handlers \union Slots
    /\ MessageDiff \in Nat \ {0}
    /\ CronGap \in Nat
    /\ HandleTime \in Nat
    /\ Ops \subseteq {"chat", "use"} \union Changing \union Managing \union Leaving
    /\ Faults \subseteq {"crash", "failure", "reload"}
    /\ MaxFaults \in Nat

VARIABLES
    now,       \* the clock
    faults,    \* faults so far
    phase,     \* phase[p]: down, starting or up
    loading,   \* loading[p]: what loadRepeats does next: repeats, crons, last; or no
    list,      \* list[p]: what it has read and not yet added
    plan,      \* plan[p]: the repeater of p, as in Scheduler
    unlisted,  \* history: unlisted[p]: what p has left out as not authorized
    row,       \* row[i]: the row of repeated_commands or scheduled_commands
    active,    \* channels.active
    count,     \* channels.message_count
    cool,      \* cool[i]: the end of its cooldown
    adv,       \* holder of the channel's advisory lock
    chan,      \* holder of the lock of the channel's row
    rowLock,   \* rowLock[i]: holder of the lock of row i
    infoLock,  \* infoLock[i]: holder of the lock of the row of its command
    hpc,       \* hpc[h]: idle, begun, found, wrote or ready
    cmd,       \* cmd[h]: the command h handles
    began,     \* began[h]: when it began
    newRow,    \* newRow[h]: the row it has written
    todo,      \* todo[h]: the schedules it is still to change in memory
    jpc,       \* jpc[g]: free, where its transaction is, or readding
    work,      \* work[g]: its job
    mine,      \* mine[g]: the row of its repeat as it has loaded it
    seen,      \* seen[g]: the channel as it has loaded it
    at,        \* at[g]: when it was allowed to run
    ran        \* ran[i]: the last run that was committed

dbVars   == <<row, active, count, cool>>
lockVars == <<adv, chan, rowLock, infoLock>>
memVars  == <<phase, loading, list, plan, unlisted>>
hVars    == <<hpc, cmd, began, newRow, todo>>
jVars    == <<jpc, work, mine, seen, at>>
vars     == <<now, faults, dbVars, lockVars, memVars, hVars, jVars, ran>>

Never   == [none |-> "never"]
Deleted == [none |-> "deleted"]
NoCmd   == [op |-> "none"]
NoChan  == [none |-> "channel"]
NoPlan  == [i \in Idents |-> NoItem]

Exists(r) == r \notin {Never, Deleted}
IsOn(r)   == Exists(r) /\ r.on
Ready(r, n) == n >= r.last + MessageDiff

(* Rows that were there before. *)
OldRows(i) == {Never} \union
    [on : BOOLEAN, last : {0},
     sched : IF i \in CronIdents THEN CronTabs ELSE [start : {0}, interval : Intervals]]

Init ==
    /\ now = 0
    /\ faults = 0
    /\ phase = [p \in Processes |-> "down"]
    /\ loading = [p \in Processes |-> "no"]
    /\ list = [p \in Processes |-> {}]
    /\ plan = [p \in Processes |-> NoPlan]
    /\ unlisted = [p \in Processes |-> {}]
    /\ row \in {r \in [Idents -> UNION {OldRows(i) : i \in Idents}] :
                   \A i \in Idents : r[i] \in OldRows(i)}
    /\ active \in BOOLEAN
    /\ count = MessageDiff
    /\ cool = [i \in Idents |-> 0]
    /\ adv = Nobody
    /\ chan = Nobody
    /\ rowLock = [i \in Idents |-> Nobody]
    /\ infoLock = [i \in Idents |-> Nobody]
    /\ hpc = [h \in Handlers |-> "idle"]
    /\ cmd = [h \in Handlers |-> NoCmd]
    /\ began = [h \in Handlers |-> 0]
    /\ newRow = [h \in Handlers |-> Never]
    /\ todo = [h \in Handlers |-> {}]
    /\ jpc = [g \in Slots |-> "free"]
    /\ work = [g \in Slots |-> NoJob]
    /\ mine = [g \in Slots |-> Never]
    /\ seen = [g \in Slots |-> NoChan]
    /\ at = [g \in Slots |-> 0]
    /\ ran = [i \in Idents |-> [time |-> 0, count |-> 0, gap |-> 0]]

------------------------------------------------------------------------------
(* Locks, and the repeater *)

(* The transactions of the workers and goroutines in A end. *)
Release(A) ==
    /\ adv' = IF adv \in A THEN Nobody ELSE adv
    /\ chan' = IF chan \in A THEN Nobody ELSE chan
    /\ rowLock' = [i \in Idents |-> IF rowLock[i] \in A THEN Nobody ELSE rowLock[i]]
    /\ infoLock' = [i \in Idents |-> IF infoLock[i] \in A THEN Nobody ELSE infoLock[i]]

PutPlan(p, i, s) ==
    \/ Deadlines(i, s, now) = {} /\ UNCHANGED plan
    \/ \E d \in Deadlines(i, s, now) :
          plan' = [plan EXCEPT ![p][i] = [id |-> i, sched |-> s, deadline |-> d]]

DropPlan(p, i) == plan' = [plan EXCEPT ![p][i] = NoItem]

addRepeat(p, i, r) == PutPlan(p, i, r.sched)
removeRepeat(p, i) == DropPlan(p, i)
addScheduled(p, i, r) == PutPlan(p, i, r.sched)
removeScheduled(p, i) == DropPlan(p, i)

updateRepeating(p, i, r, enable) ==
    IF enable /\ IsOn(r) THEN addRepeat(p, i, r) ELSE removeRepeat(p, i)

updateScheduleds(p, i, r, enable) ==
    IF enable /\ IsOn(r) THEN addScheduled(p, i, r) ELSE removeScheduled(p, i)

updatePlan(p, i, r, enable) ==
    IF i \in CronIdents THEN updateScheduleds(p, i, r, enable) ELSE updateRepeating(p, i, r, enable)

Due(p, i) ==
    /\ plan[p][i] # NoItem
    /\ plan[p][i].deadline <= now
    /\ \A j \in Idents : plan[p][j] # NoItem => plan[p][i].deadline <= plan[p][j].deadline

------------------------------------------------------------------------------
(* Messages *)

(* A message gets the advisory lock of the channel it is written in, and     *)
(* the row of the channel that it is about.                                  *)
Begin(h, op, i, s) ==
    /\ hpc[h] = "idle"
    /\ phase[ProcOf[h]] = "up"
    /\ chan = Nobody
    /\ op \in Managing \/ adv = Nobody
    /\ active = (op # "handleJoin")
    /\ op = "add" => row[i] # Deleted   \* a new row is another identity
    /\ chan' = h
    /\ adv' = IF op \in Managing THEN adv ELSE h
    /\ cmd' = [cmd EXCEPT ![h] = [op |-> op, id |-> i, sched |-> s]]
    /\ began' = [began EXCEPT ![h] = now]
    /\ todo' = [todo EXCEPT ![h] = IF op \in Managing \union Leaving
                                   THEN {j \in Idents : Exists(row[j])} ELSE {}]
    /\ hpc' = [hpc EXCEPT ![h] = CASE op = "chat" -> "ready"
                                   [] op \in Managing \union Leaving -> "wrote"
                                   [] OTHER -> "begun"]
    /\ UNCHANGED <<now, faults, dbVars, rowLock, infoLock, memVars, newRow, jVars, ran>>

(* LookupCommand locks the row of the command. *)
Lookup(h) ==
    /\ hpc[h] = "begun"
    /\ infoLock[cmd[h].id] = Nobody
    /\ infoLock' = [infoLock EXCEPT ![cmd[h].id] = h]
    /\ hpc' = [hpc EXCEPT ![h] = IF cmd[h].op = "use" THEN "ready" ELSE "found"]
    /\ UNCHANGED <<now, faults, dbVars, adv, chan, rowLock, memVars, cmd, began, newRow, todo,
                   jVars, ran>>

(* The command is restricted. *)
Refuse(h) ==
    /\ hpc[h] = "found"
    /\ hpc' = [hpc EXCEPT ![h] = "ready"]
    /\ UNCHANGED <<now, faults, dbVars, lockVars, memVars, cmd, began, newRow, todo, jVars, ran>>

(* The row of a command, if it has one, and what becomes of it: the message   *)
(* that is being handled has been counted, init_timestamp becomes NULL and    *)
(* updated_at the start.                                                      *)
GetRepeatedCommandByInfo(i) == {row[i]} \ {Never, Deleted}
InsertRepeatedCommand(s) == [on |-> TRUE, last |-> count + 1, sched |-> [s EXCEPT !.start = now]]
UpdateRepeatedCommand(r) == [r EXCEPT !.last = count + 1, !.sched.start = now]
DeleteRepeatedCommand(r) == Deleted

GetScheduledCommandByInfo(i) == {row[i]} \ {Never, Deleted}
InsertScheduledCommand(s) == [on |-> TRUE, last |-> count + 1, sched |-> s]
UpdateScheduledCommand(r) == [r EXCEPT !.last = count + 1]
DeleteScheduledCommand(r) == Deleted

(* What a command turns the rows it finds into; none if it changes nothing.   *)
cmdRepeatAdd(c, rows) ==
    IF rows = {} THEN {InsertRepeatedCommand(c.sched)}
    ELSE {UpdateRepeatedCommand([r EXCEPT !.on = TRUE, !.sched = c.sched]) : r \in rows}
cmdRepeatDelete(rows) == {DeleteRepeatedCommand(r) : r \in rows}
cmdRepeatOnOff(on, rows) ==
    {UpdateRepeatedCommand([r EXCEPT !.on = on]) : r \in {q \in rows : q.on # on}}

cmdScheduleAdd(c, rows) ==
    IF rows = {} THEN {InsertScheduledCommand(c.sched)}
    ELSE {UpdateScheduledCommand([r EXCEPT !.on = TRUE, !.sched = c.sched]) : r \in rows}
cmdScheduleDelete(rows) == {DeleteScheduledCommand(r) : r \in rows}
cmdScheduleOnOff(on, rows) ==
    {UpdateScheduledCommand([r EXCEPT !.on = on]) : r \in {q \in rows : q.on # on}}

cmdRepeat(c) ==
    LET rows == GetRepeatedCommandByInfo(c.id)
    IN CASE c.op = "add" -> cmdRepeatAdd(c, rows)
         [] c.op = "delete" -> cmdRepeatDelete(rows)
         [] OTHER -> cmdRepeatOnOff(c.op = "on", rows)

cmdSchedule(c) ==
    LET rows == GetScheduledCommandByInfo(c.id)
    IN CASE c.op = "add" -> cmdScheduleAdd(c, rows)
         [] c.op = "delete" -> cmdScheduleDelete(rows)
         [] OTHER -> cmdScheduleOnOff(c.op = "on", rows)

Written(c) == IF c.id \in CronIdents THEN cmdSchedule(c) ELSE cmdRepeat(c)

Write(h) ==
    LET i == cmd[h].id
        new == Written(cmd[h])
    IN  /\ hpc[h] = "found"
        /\ \/ /\ new = {}
              /\ hpc' = [hpc EXCEPT ![h] = "ready"]
              /\ UNCHANGED <<rowLock, newRow, todo>>
           \/ /\ rowLock[i] = Nobody
              /\ rowLock' = [rowLock EXCEPT ![i] = h]
              /\ \E r \in new : newRow' = [newRow EXCEPT ![h] = r]
              /\ todo' = [todo EXCEPT ![h] = {i}]
              /\ hpc' = [hpc EXCEPT ![h] = "wrote"]
        /\ UNCHANGED <<now, faults, dbVars, adv, chan, infoLock, memVars, cmd, began, jVars, ran>>

(* The row as the transaction sees it. *)
Current(h, i) == IF newRow[h] # Never /\ cmd[h].id = i THEN newRow[h] ELSE row[i]

(* The repeater is told before the transaction ends. *)
Remember(h) ==
    /\ hpc[h] = "wrote"
    /\ \/ \E i \in todo[h] :
             /\ updatePlan(ProcOf[h], i, Current(h, i), cmd[h].op \notin Leaving)
             /\ unlisted' = [unlisted EXCEPT ![ProcOf[h]] = @ \ {i}]
             /\ todo' = [todo EXCEPT ![h] = @ \ {i}]
             /\ UNCHANGED hpc
       \/ /\ todo[h] = {}
          /\ hpc' = [hpc EXCEPT ![h] = "ready"]
          /\ UNCHANGED <<plan, unlisted, todo>>
    /\ UNCHANGED <<now, faults, dbVars, lockVars, phase, loading, list, cmd, began, newRow,
                   jVars, ran>>

EndHandling(H) ==
    /\ hpc' = [h \in Handlers |-> IF h \in H THEN "idle" ELSE hpc[h]]
    /\ cmd' = [h \in Handlers |-> IF h \in H THEN NoCmd ELSE cmd[h]]
    /\ began' = [h \in Handlers |-> IF h \in H THEN 0 ELSE began[h]]
    /\ newRow' = [h \in Handlers |-> IF h \in H THEN Never ELSE newRow[h]]
    /\ todo' = [h \in Handlers |-> IF h \in H THEN {} ELSE todo[h]]

Commit(h) ==
    /\ hpc[h] = "ready"
    /\ row' = [i \in Idents |-> Current(h, i)]
    /\ active' = (cmd[h].op \notin Leaving)
    /\ count' = IF cmd[h].op \in Managing THEN count ELSE count + 1
    /\ Release({h})
    /\ EndHandling({h})
    /\ UNCHANGED <<now, faults, cool, memVars, jVars, ran>>

Abort(h) ==
    /\ Release({h})
    /\ EndHandling({h})
    /\ UNCHANGED <<now, dbVars, memVars, jVars, ran>>

(* A lock cannot be had: lock_timeout, or PostgreSQL detects a deadlock. *)
HandlerTimeOut(h) ==
    /\ \/ hpc[h] = "begun" /\ infoLock[cmd[h].id] # Nobody
       \/ hpc[h] = "found" /\ rowLock[cmd[h].id] # Nobody
    /\ Abort(h)
    /\ UNCHANGED faults

Message(h) == Lookup(h) \/ Refuse(h) \/ Write(h) \/ Remember(h) \/ Commit(h)

------------------------------------------------------------------------------
(* Jobs of the repeater *)

jobRest == <<now, faults, memVars, hVars, ran>>

Fire(g, i) ==
    /\ jpc[g] = "free"
    /\ phase[ProcOf[g]] # "down"
    /\ Due(ProcOf[g], i)
    /\ DropPlan(ProcOf[g], i)
    /\ work' = [work EXCEPT ![g] = [id |-> i, sched |-> plan[ProcOf[g]][i].sched]]
    /\ jpc' = [jpc EXCEPT ![g] = "started"]
    /\ UNCHANGED <<now, faults, dbVars, lockVars, phase, loading, list, unlisted, hVars, mine, seen,
                   at, ran>>

(* The goroutines in G go on at pc, without a transaction. *)
EndJobs(G, pc) ==
    /\ jpc' = [g \in Slots |-> IF g \in G THEN pc ELSE jpc[g]]
    /\ work' = [g \in Slots |-> IF g \in G /\ pc = "free" THEN NoJob ELSE work[g]]
    /\ mine' = [g \in Slots |-> IF g \in G THEN Never ELSE mine[g]]
    /\ seen' = [g \in Slots |-> IF g \in G THEN NoChan ELSE seen[g]]
    /\ at' = [g \in Slots |-> IF g \in G THEN 0 ELSE at[g]]

(* The transaction ends with what the job returns: TRUE to be planned again. *)
Return(g, again) ==
    /\ Release({g})
    /\ EndJobs({g}, IF again THEN "readding" ELSE "free")
    /\ UNCHANGED dbVars

GetRepeatedCommandStatus(i) ==
    [enabled |-> IsOn(row[i]), active |-> active, ready |-> IsOn(row[i]) /\ Ready(row[i], count)]
GetScheduledCommandStatus(i) == GetRepeatedCommandStatus(i)   \* of the other table
status(i) == IF i \in CronIdents THEN GetScheduledCommandStatus(i) ELSE GetRepeatedCommandStatus(i)

Status(g) ==
    LET st == status(work[g].id)
    IN  /\ jpc[g] = "started"
        /\ \/ ~(st.enabled /\ st.active) /\ Return(g, FALSE)
           \/ st.enabled /\ st.active /\ ~st.ready /\ Return(g, TRUE)
           \/ /\ st.enabled /\ st.active /\ st.ready
              /\ jpc' = [jpc EXCEPT ![g] = "loading"]
              /\ UNCHANGED <<dbVars, lockVars, work, mine, seen, at>>
        /\ UNCHANGED jobRest

(* SELECT ... WHERE enabled FOR UPDATE waits for a row that is enabled. *)
GetRepeatedCommandForRun(i) == {r \in {row[i]} : IsOn(r)}
GetScheduledCommandForRun(i) == {r \in {row[i]} : IsOn(r)}
load(i) == IF i \in CronIdents THEN GetScheduledCommandForRun(i) ELSE GetRepeatedCommandForRun(i)

(* A mutant: a SELECT without FOR UPDATE. *)
LoadUnlocked(g) ==
    /\ jpc[g] = "loading"
    /\ \/ ~IsOn(row[work[g].id]) /\ Return(g, FALSE)
       \/ /\ IsOn(row[work[g].id])
          /\ mine' = [mine EXCEPT ![g] = row[work[g].id]]
          /\ jpc' = [jpc EXCEPT ![g] = "loaded"]
          /\ UNCHANGED <<dbVars, lockVars, work, seen, at>>
    /\ UNCHANGED jobRest

Load(g) ==
    LET i == work[g].id
    IN  /\ jpc[g] = "loading"
        /\ \/ load(i) = {} /\ Return(g, FALSE)
           \/ /\ rowLock[i] = Nobody
              /\ rowLock' = [rowLock EXCEPT ![i] = g]
              /\ \E r \in load(i) : mine' = [mine EXCEPT ![g] = r]
              /\ jpc' = [jpc EXCEPT ![g] = "loaded"]
              /\ UNCHANGED <<dbVars, adv, chan, infoLock, work, seen, at>>
        /\ UNCHANGED jobRest

ReadChannel(g) ==
    /\ jpc[g] = "loaded"
    /\ seen' = [seen EXCEPT ![g] = [active |-> active, count |-> count]]
    /\ jpc' = [jpc EXCEPT ![g] = "info"]
    /\ UNCHANGED <<dbVars, lockVars, work, mine, at, jobRest>>

GetCommandInfoByIDForUpdate(g, i) ==
    /\ infoLock[i] = Nobody
    /\ infoLock' = [infoLock EXCEPT ![i] = g]

LockInfo(g) ==
    /\ jpc[g] = "info"
    /\ GetCommandInfoByIDForUpdate(g, work[g].id)
    /\ jpc' = [jpc EXCEPT ![g] = "waiting"]
    /\ UNCHANGED <<dbVars, adv, chan, rowLock, work, mine, seen, at, jobRest>>

loadRelations(g) == ReadChannel(g) \/ LockInfo(g)

(* A cooldown that is over is marked anew, which others see after the commit. *)
BotStateCheckAndMarkRepeatCooldown(i) == now >= cool[i]
BotStateCheckAndMarkScheduledCooldown(i) == now >= cool[i]   \* of the other table
RepeatAllowed(i) == BotStateCheckAndMarkRepeatCooldown(i)
ScheduledAllowed(i) == BotStateCheckAndMarkScheduledCooldown(i)

(* What was read before, and how long a run keeps others from running.        *)
found(g) == seen[g].active /\ IsOn(mine[g])
repeatedAllowed(g) == Ready(mine[g], seen[g].count) /\ RepeatAllowed(work[g].id)
scheduledAllowedHot(g) == Ready(mine[g], seen[g].count)   \* a mutant
scheduledAllowed(g) == Ready(mine[g], seen[g].count) /\ ScheduledAllowed(work[g].id)
allowed(g) == IF work[g].id \in CronIdents THEN scheduledAllowed(g) ELSE repeatedAllowed(g)
repeatedExpiry(g) == mine[g].sched.interval - 1
scheduledExpiry == CronGap
Gap(g) == IF work[g].id \in CronIdents THEN scheduledExpiry ELSE repeatedExpiry(g)

(* pgLock, and allowed. *)
LockChannel(g) ==
    /\ jpc[g] = "waiting"
    /\ adv = Nobody
    /\ \/ ~found(g) /\ Return(g, FALSE)
       \/ found(g) /\ ~allowed(g) /\ Return(g, TRUE)
       \/ /\ found(g) /\ allowed(g)
          /\ adv' = g
          /\ at' = [at EXCEPT ![g] = now]
          /\ jpc' = [jpc EXCEPT ![g] = "running"]
          /\ UNCHANGED <<dbVars, chan, rowLock, infoLock, work, mine, seen>>
    /\ UNCHANGED jobRest

UpdateRepeatedCommandLastCount(r, n) == IF Exists(r) THEN [r EXCEPT !.last = n] ELSE r
UpdateScheduledCommandLastCount(r, n) == IF Exists(r) THEN [r EXCEPT !.last = n] ELSE r
updateCount(i, n) ==
    row' = [row EXCEPT ![i] = IF i \in CronIdents THEN UpdateScheduledCommandLastCount(@, n)
                                                  ELSE UpdateRepeatedCommandLastCount(@, n)]

JobCommit(g) ==
    LET i == work[g].id
    IN  /\ jpc[g] = "running"
        /\ updateCount(i, seen[g].count)
        /\ cool' = [cool EXCEPT ![i] = at[g] + Gap(g)]
        /\ ran' = [ran EXCEPT ![i] = [time |-> at[g], count |-> count, gap |-> Gap(g)]]
        /\ Release({g})
        /\ EndJobs({g}, "readding")
        /\ UNCHANGED <<now, faults, active, count, memVars, hVars>>

(* Mutants: a job whose lock timeout ends it for good, and one without any.  *)
JobTimeOutForgetting(g) ==
    /\ \/ jpc[g] = "loading" /\ rowLock[work[g].id] # Nobody
       \/ jpc[g] = "info" /\ infoLock[work[g].id] # Nobody
       \/ jpc[g] = "waiting" /\ adv # Nobody
    /\ Return(g, FALSE)
    /\ UNCHANGED jobRest

JobTimeOutNever(g) == jpc[g] = "timeout" /\ UNCHANGED vars

JobTimeOut(g) ==
    /\ \/ jpc[g] = "loading" /\ rowLock[work[g].id] # Nobody
       \/ jpc[g] = "info" /\ infoLock[work[g].id] # Nobody
       \/ jpc[g] = "waiting" /\ adv # Nobody
    /\ Return(g, TRUE)
    /\ UNCHANGED jobRest

ReAdd(g) ==
    /\ jpc[g] = "readding"
    /\ PutPlan(ProcOf[g], work[g].id, work[g].sched)
    /\ EndJobs({g}, "free")
    /\ UNCHANGED <<now, faults, dbVars, lockVars, phase, loading, list, unlisted, hVars, ran>>

Job(g) ==
    \/ Status(g) \/ Load(g) \/ loadRelations(g) \/ LockChannel(g)
    \/ JobCommit(g) \/ ReAdd(g)

------------------------------------------------------------------------------
(* loadRepeats, when the bot starts and when an administrator asks for it *)

loadRest == <<now, dbVars, lockVars, hVars, jVars, ran>>

Reset(p) ==
    /\ plan' = [plan EXCEPT ![p] = NoPlan]
    /\ loading' = [loading EXCEPT ![p] = "repeats"]
    /\ list' = [list EXCEPT ![p] = {}]
    /\ unlisted' = [unlisted EXCEPT ![p] = {}]

Start(p) ==
    /\ phase[p] = "down"
    /\ phase' = [phase EXCEPT ![p] = "starting"]
    /\ Reset(p)
    /\ UNCHANGED <<faults, loadRest>>

(* Only channels are listed whose broadcaster's token has channel:bot, or     *)
(* which the bot moderates.  That changes at any time (logins, tokens that    *)
(* are deleted, the hourly list of moderated channels), no process is told,   *)
(* and neither jobs nor messages ask for it.                                  *)
Active(i) == IsOn(row[i]) /\ active
ListActiveRepeatedCommands(authorized) == {i \in Idents \ CronIdents : Active(i) /\ authorized}
ListActiveScheduledCommands(authorized) == {i \in CronIdents : Active(i) /\ authorized}

ListActive(p, authorized) ==
    IF loading[p] = "repeats" THEN ListActiveRepeatedCommands(authorized)
    ELSE ListActiveScheduledCommands(authorized)

List(p) ==
    /\ loading[p] \in {"repeats", "crons"}
    /\ list[p] = {}
    /\ \E authorized \in BOOLEAN :
          LET listed == ListActive(p, authorized)
          IN  /\ list' = [list EXCEPT ![p] = {[id |-> i, sched |-> row[i].sched] : i \in listed}]
              /\ unlisted' = [unlisted EXCEPT ![p] = @ \union (ListActive(p, TRUE) \ listed)]
    /\ loading' = [loading EXCEPT ![p] = IF @ = "repeats" THEN "crons" ELSE "last"]
    /\ UNCHANGED <<faults, phase, plan, loadRest>>

LoadOne(p) ==
    /\ \E e \in list[p] :
          /\ PutPlan(p, e.id, e.sched)
          /\ list' = [list EXCEPT ![p] = @ \ {e}]
    /\ UNCHANGED <<faults, phase, loading, unlisted, loadRest>>

Loaded(p) ==
    /\ loading[p] = "last"
    /\ list[p] = {}
    /\ loading' = [loading EXCEPT ![p] = "no"]
    /\ phase' = [phase EXCEPT ![p] = "up"]
    /\ UNCHANGED <<faults, list, plan, unlisted, loadRest>>

Loader(p) == Start(p) \/ List(p) \/ LoadOne(p) \/ Loaded(p)

------------------------------------------------------------------------------
(* Faults, and time *)

Fault(kind) ==
    /\ kind \in Faults
    /\ faults < MaxFaults
    /\ faults' = faults + 1

(* The administrator's message is written in some channel, usually another   *)
(* one, whose locks it holds.                                                *)
Reload(p) ==
    /\ phase[p] = "up"
    /\ loading[p] = "no"
    /\ Fault("reload")
    /\ Reset(p)
    /\ UNCHANGED <<phase, loadRest>>

(* A reply, the commit or anything else fails. *)
Fail(h) == hpc[h] # "idle" /\ Fault("failure") /\ Abort(h)

JobFail(g) ==
    /\ jpc[g] \notin {"free", "readding"}
    /\ Fault("failure")
    /\ Return(g, TRUE)
    /\ UNCHANGED <<now, memVars, hVars, ran>>

Crash(p) ==
    LET H == {h \in Handlers : ProcOf[h] = p}
        G == {g \in Slots : ProcOf[g] = p}
    IN  /\ phase[p] # "down"
        /\ Fault("crash")
        /\ Release(H \union G)
        /\ EndHandling(H)
        /\ EndJobs(G, "free")
        /\ phase' = [phase EXCEPT ![p] = "down"]
        /\ loading' = [loading EXCEPT ![p] = "no"]
        /\ list' = [list EXCEPT ![p] = {}]
        /\ plan' = [plan EXCEPT ![p] = NoPlan]
        /\ unlisted' = [unlisted EXCEPT ![p] = {}]
        /\ UNCHANGED <<now, dbVars, ran>>

(* The deadline of its context ends whatever a handler does. *)
Tick ==
    /\ \A h \in Handlers : hpc[h] # "idle" => now < began[h] + HandleTime
    /\ now' = now + 1
    /\ UNCHANGED <<faults, dbVars, lockVars, memVars, hVars, jVars, ran>>

Next ==
    \/ \E h \in Handlers, op \in Ops, i \in Idents :
          \E s \in (IF op = "add" THEN {r.sched : r \in OldRows(i) \ {Never}} ELSE {NoItem}) :
             Begin(h, op, i, s)
    \/ \E h \in Handlers : Message(h) \/ HandlerTimeOut(h) \/ Fail(h)
    \/ \E g \in Slots, i \in Idents : Fire(g, i)
    \/ \E g \in Slots : Job(g) \/ JobTimeOut(g) \/ JobFail(g)
    \/ \E p \in Processes : Loader(p) \/ Reload(p) \/ Crash(p)
    \/ Tick

Spec == Init /\ [][Next]_vars

------------------------------------------------------------------------------
(* Properties *)

(* A repeat starts when it was added, changed or turned on or off last.       *)
RowSchedules(i) == IF i \in CronIdents THEN CronTabs ELSE [start : Nat, interval : Intervals]
Rows(i) == [on : BOOLEAN, last : Nat, sched : RowSchedules(i)]
JobsOf(i) == [id : {i}, sched : RowSchedules(i)]
ItemsOf(i) == [id : {i}, sched : RowSchedules(i), deadline : Nat]
Holders == Handlers \union Slots \union {Nobody}

TypeOK ==
    /\ now \in Nat
    /\ faults \in 0..MaxFaults
    /\ phase \in [Processes -> {"down", "starting", "up"}]
    /\ loading \in [Processes -> {"no", "repeats", "crons", "last"}]
    /\ \A p \in Processes : \A e \in list[p] : e.id \in Idents /\ e \in JobsOf(e.id)
    /\ \A p \in Processes, i \in Idents : plan[p][i] \in ItemsOf(i) \union {NoItem}
    /\ \A i \in Idents : row[i] \in Rows(i) \union {Never, Deleted}
    /\ active \in BOOLEAN
    /\ unlisted \in [Processes -> SUBSET Idents]
    /\ count \in Nat
    /\ cool \in [Idents -> Nat]
    /\ adv \in Holders
    /\ chan \in Handlers \union {Nobody}
    /\ rowLock \in [Idents -> Holders]
    /\ infoLock \in [Idents -> Holders]
    /\ hpc \in [Handlers -> {"idle", "begun", "found", "wrote", "ready"}]
    /\ began \in [Handlers -> Nat]
    /\ todo \in [Handlers -> SUBSET Idents]
    /\ jpc \in [Slots -> {"free", "started", "loading", "loaded", "info", "waiting",
                          "running", "readding"}]
    /\ \A g \in Slots :
          IF jpc[g] = "free" THEN work[g] = NoJob
          ELSE work[g].id \in Idents /\ work[g] \in JobsOf(work[g].id)
    /\ \A g \in Slots : mine[g] = Never \/ mine[g] \in Rows(work[g].id)
    /\ at \in [Slots -> Nat]

(* A command is not run for a repeat that has been disabled or deleted, even *)
(* if that happens between the steps of its job: a job that gets that far    *)
(* keeps whoever wants to change the row waiting.                            *)
OnlyEnabledRuns == \A g \in Slots : jpc[g] = "running" => IsOn(row[work[g].id])

(* A command that is enabled in the database, in a channel the bot is in, is *)
(* planned or being run by some process, unless a message about it is being  *)
(* handled or a process is not up: "Schedules a command, and enables it".    *)
(* A process that was loaded while the channel was not authorized has left   *)
(* it out, until a message about it or the next start or reload.             *)
EnabledIsPlanned ==
    (\A p \in Processes : phase[p] = "up" /\ loading[p] = "no") =>
    \A i \in Idents :
        \/ ~IsOn(row[i]) \/ ~active
        \/ \E h \in Handlers : hpc[h] # "idle" /\ (cmd[h].id = i \/ cmd[h].op \in Managing \union Leaving)
        \/ \E p \in Processes : plan[p][i] # NoItem \/ i \in unlisted[p]
        \/ \E g \in Slots : jpc[g] # "free" /\ work[g].id = i

(* Two runs of a repeat are at least its delay less a second apart, whichever *)
(* processes have it planned, and 29 seconds for a scheduled command.         *)
RunsApart ==
    [][\A i \in Idents : ran'[i] # ran[i] => ran'[i].time >= ran[i].time + ran[i].gap]_vars

(* The message count a repeat starts from never goes back: what a job writes  *)
(* is not older than what a message wrote while the job was on its way.       *)
LastCountGrows ==
    [][\A i \in Idents :
          Exists(row[i]) /\ Exists(row'[i]) => row'[i].last >= row[i].last]_vars

(* Runs are apart and go forward.                                             *)
RunsInOrder == RunsApart /\ LastCountGrows

(* A job ends, although it and a message may wait for each other's locks and  *)
(* other messages may get the locks it waits for.                             *)
JobsEnd == \A g \in Slots : jpc[g] # "free" ~> jpc[g] = "free"

(* "the bot will repeat every X seconds so long as Y messages have passed":   *)
(* Y messages are handled between two runs.                                   *)
MessagesBetween ==
    [][\A i \in Idents : ran'[i] # ran[i] => ran'[i].count >= ran[i].count + MessageDiff]_vars

(* Jobs, locks and rows fit, and what runs is enabled while it runs.          *)
RepeatedInv == TypeOK /\ OnlyEnabledRuns
=============================================================================
