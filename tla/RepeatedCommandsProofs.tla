----------------------- MODULE RepeatedCommandsProofs -----------------------
(***************************************************************************)
(* Theorems about RepeatedCommands, for any repeats and scheduled          *)
(* commands, processes, workers, goroutines and faults: who holds which    *)
(* lock, what a job has read and still relies on, and when runs may        *)
(* follow each other.                                                      *)
(***************************************************************************)
EXTENDS RepeatedCommands, TLAPS

Tables ==
    /\ now \in Nat /\ faults \in 0 .. MaxFaults
    /\ active \in BOOLEAN /\ count \in Nat
    /\ DOMAIN row = Idents
    /\ \A i \in Idents : row[i] \in Rows(i) \union {Never, Deleted}
    /\ cool \in [Idents -> Nat]
    /\ ran \in [Idents -> [time : Nat, count : Nat, gap : Nat]]

(* A repeat starts to count at a message that has been counted.               *)
CountsFrom == \A i \in Idents : row[i] \in Rows(i) => row[i].last <= count

(* The cooldown in the database is the one of the last run.                   *)
CoolsAsRan == \A i \in Idents : cool[i] = ran[i].time + ran[i].gap

Memory ==
    /\ unlisted \in [Processes -> SUBSET Idents]
    /\ phase \in [Processes -> {"down", "starting", "up"}]
    /\ loading \in [Processes -> {"no", "repeats", "crons", "last"}]
    /\ DOMAIN list = Processes
    /\ \A p \in Processes : \A e \in list[p] : e.id \in Idents /\ e \in JobsOf(e.id)
    /\ plan \in [Processes -> [Idents -> (UNION {ItemsOf(i) : i \in Idents}) \union {NoItem}]]
    /\ \A p \in Processes, i \in Idents : plan[p][i] \in ItemsOf(i) \union {NoItem}

LockTypes ==
    /\ adv \in Holders /\ chan \in Handlers \union {Nobody}
    /\ rowLock \in [Idents -> Holders] /\ infoLock \in [Idents -> Holders]

(* A handler holds the channel from its beginning to its end, and so the      *)
(* channel's count stays as it is; it holds the row it has written.           *)
HandlerHolds(h) ==
    /\ hpc[h] # "idle" <=> chan = h
    /\ hpc[h] # "idle" => cmd[h].id \in Idents
    /\ hpc[h] \in {"begun", "found"} =>
          /\ cmd[h].op \in {"use"} \union Changing
          /\ cmd[h].op = "add" => cmd[h].sched \in RowSchedules(cmd[h].id)
    /\ hpc[h] = "found" => cmd[h].op # "use"
    /\ newRow[h] # Never =>
          /\ hpc[h] \in {"wrote", "ready"}
          /\ cmd[h].op \in Changing
          /\ rowLock[cmd[h].id] = h
          /\ newRow[h] \in Rows(cmd[h].id) \union {Deleted}
          /\ newRow[h] # Deleted => newRow[h].last = count + 1

Handling ==
    /\ hpc \in [Handlers -> {"idle", "begun", "found", "wrote", "ready"}]
    /\ DOMAIN cmd = Handlers /\ DOMAIN newRow = Handlers
    /\ began \in [Handlers -> Nat]
    /\ todo \in [Handlers -> SUBSET Idents]
    /\ \A h \in Handlers : HandlerHolds(h)

(* A job that has loaded its row holds it, so that what it has read of the    *)
(* row and of its cooldown is still so when it runs.                          *)
Holding == {"loaded", "info", "waiting", "running"}
JobHolds(g) ==
    /\ jpc[g] = "free" => work[g] = NoJob
    /\ jpc[g] # "free" => work[g].id \in Idents /\ work[g] \in JobsOf(work[g].id)
    /\ jpc[g] \notin Holding => mine[g] = Never
    /\ jpc[g] \in Holding =>
          /\ rowLock[work[g].id] = g
          /\ mine[g] = row[work[g].id]
          /\ IsOn(mine[g])
    /\ jpc[g] \in {"info", "waiting", "running"} =>
          seen[g] \in [active : BOOLEAN, count : Nat] /\ seen[g].count <= count
    /\ jpc[g] = "running" =>
          Ready(mine[g], seen[g].count) /\ at[g] >= cool[work[g].id]

Working ==
    /\ jpc \in [Slots -> {"free", "started", "readding"} \union Holding \union {"loading"}]
    /\ DOMAIN work = Slots /\ DOMAIN mine = Slots /\ DOMAIN seen = Slots
    /\ at \in [Slots -> Nat]
    /\ \A g \in Slots : JobHolds(g)

(* The inductive invariant.                                                   *)
RunsInv == Tables /\ CountsFrom /\ CoolsAsRan /\ Memory /\ LockTypes /\ Handling /\ Working


PlanTypes ==
    /\ plan \in [Processes -> [Idents -> (UNION {ItemsOf(i) : i \in Idents}) \union {NoItem}]]
    /\ \A p \in Processes, i \in Idents : plan[p][i] \in ItemsOf(i) \union {NoItem}

------------------------------------------------------------------------------
(* Deadlines and the plan *)

LEMMA Division ==
    ASSUME NEW a \in Nat, NEW k \in Nat \ {0}
    PROVE  a \div k \in Nat /\ (a \div k) * k <= a /\ a < (a \div k) * k + k
<1>1. a \div k \in Int /\ a = k * (a \div k) + (a % k) /\ a % k \in 0 .. k - 1
  BY SMT
<1>. QED
  BY <1>1, SMT

(* The next deadline of a repeat is later than now, for a start that may lie  *)
(* in the past or, where a clock is behind, in the future.                    *)
LEMMA NextIsLater ==
    ASSUME NEW s \in [start : Nat, interval : Intervals], NEW t \in Nat
    PROVE  RepeatNext(s, t) \in Nat /\ RepeatNext(s, t) > t
<1>1. s.start \in Nat /\ s.interval \in Nat \ {0}
  BY ScheduleAssumption
<1>2. CASE t - s.start >= 0
  <2>1. PICK a \in Nat : a = t - s.start
    BY <1>1, <1>2
  <2>2. PICK q \in Nat : q = a \div s.interval /\ a < q * s.interval + s.interval
    BY <1>1, Division
  <2>3. RepeatNext(s, t) = s.start + (q + 1) * s.interval
    BY <1>1, <1>2, <2>1, <2>2 DEF RepeatNext, Quotient
  <2>4. (q + 1) * s.interval = q * s.interval + s.interval
    BY <1>1, <2>2
  <2>. QED
    BY <1>1, <2>1, <2>2, <2>3, <2>4
<1>3. CASE t - s.start < 0
  <2>1. PICK a \in Nat : a = -(t - s.start)
    BY <1>1, <1>3
  <2>2. PICK q \in Nat : q = a \div s.interval /\ q * s.interval <= a
    BY <1>1, Division
  <2>3. RepeatNext(s, t) = s.start + (-q + 1) * s.interval
    BY <1>1, <1>3, <2>1, <2>2 DEF RepeatNext, Quotient
  <2>4. (-q + 1) * s.interval = s.interval - q * s.interval
    BY <1>1, <2>2
  <2>. QED
    BY <1>1, <1>3, <2>1, <2>2, <2>3, <2>4
<1>. QED
  BY <1>1, <1>2, <1>3

LEMMA DeadlinesAreTimes ==
    ASSUME NEW i \in Idents, NEW s \in RowSchedules(i), NEW t \in Nat
    PROVE  Deadlines(i, s, t) \subseteq Nat
<1>1. CASE i \in CronIdents
  <2>1. s.times \subseteq Nat
    BY <1>1, ScheduleAssumption DEF RowSchedules, CronTabs
  <2>. QED
    BY <1>1, <2>1 DEF Deadlines, CronNext
<1>2. CASE i \notin CronIdents
  BY <1>2, NextIsLater DEF Deadlines, RowSchedules
<1>. QED
  BY <1>1, <1>2

LEMMA RowsAreThere ==
    /\ \A i \in Idents : Never \notin Rows(i) /\ Deleted \notin Rows(i)
    /\ Never # Deleted /\ ~IsOn(Never) /\ ~IsOn(Deleted)
    /\ \A i \in Idents : NoItem \notin ItemsOf(i)
BY DEF Rows, Never, Deleted, IsOn, Exists, NoItem, ItemsOf

LEMMA PlanChanges ==
    ASSUME PlanTypes, NEW p \in Processes, NEW i \in Idents,
           NEW new \in ItemsOf(i) \union {NoItem},
           plan' = [plan EXCEPT ![p][i] = new]
    PROVE  PlanTypes'
<1>. DEFINE All == (UNION {ItemsOf(j) : j \in Idents}) \union {NoItem}
<1>1. new \in All
  OBVIOUS
<1>2. plan \in [Processes -> [Idents -> All]]
  BY DEF PlanTypes
<1>. HIDE DEF All
<1>3. plan' \in [Processes -> [Idents -> All]]
  BY <1>1, <1>2
<1>4. \A q \in Processes, j \in Idents :
          plan'[q][j] = IF q = p /\ j = i THEN new ELSE plan[q][j]
  BY <1>2
<1>5. \A q \in Processes, j \in Idents : plan'[q][j] \in ItemsOf(j) \union {NoItem}
  BY <1>4 DEF PlanTypes
<1>. QED
  BY <1>3, <1>5 DEF PlanTypes, All

LEMMA PutKeepsPlan ==
    ASSUME PlanTypes, now \in Nat, NEW p \in Processes, NEW i \in Idents, NEW s \in RowSchedules(i),
           PutPlan(p, i, s)
    PROVE  PlanTypes'
<1>1. CASE UNCHANGED plan
  BY <1>1 DEF PlanTypes
<1>2. ASSUME NEW d \in Deadlines(i, s, now),
             plan' = [plan EXCEPT ![p][i] = [id |-> i, sched |-> s, deadline |-> d]]
      PROVE  PlanTypes'
  <2>1. [id |-> i, sched |-> s, deadline |-> d] \in ItemsOf(i)
    BY DeadlinesAreTimes DEF ItemsOf
  <2>. QED
    BY <1>2, <2>1, PlanChanges
<1>. QED
  BY <1>1, <1>2 DEF PutPlan

LEMMA DropKeepsPlan ==
    ASSUME PlanTypes, NEW p \in Processes, NEW i \in Idents, DropPlan(p, i)
    PROVE  PlanTypes'
BY PlanChanges DEF DropPlan

LEMMA UpdateKeepsPlan ==
    ASSUME PlanTypes, now \in Nat, NEW p \in Processes, NEW i \in Idents,
           NEW r \in Rows(i) \union {Never, Deleted}, NEW enable, updatePlan(p, i, r, enable)
    PROVE  PlanTypes'
<1>1. IsOn(r) => r.sched \in RowSchedules(i)
  BY DEF IsOn, Exists, Rows
<1>2. (IsOn(r) /\ PutPlan(p, i, r.sched)) \/ DropPlan(p, i)
  BY DEF updatePlan, updateScheduleds, updateRepeating, addRepeat, removeRepeat,
     addScheduled,
     removeScheduled
<1>. QED
  BY <1>1, <1>2, PutKeepsPlan, DropKeepsPlan

LEMMA ResetKeepsPlan ==
    ASSUME PlanTypes, NEW p \in Processes, plan' = [plan EXCEPT ![p] = NoPlan]
    PROVE  PlanTypes'
BY DEF PlanTypes, NoPlan

------------------------------------------------------------------------------
(* What a step leaves alone *)

(* The rows and what is derived from them.                                    *)
LEMMA TablesStay ==
    ASSUME RunsInv, UNCHANGED <<dbVars, ran>>, now' \in Nat, faults' \in 0 .. MaxFaults
    PROVE  Tables' /\ CountsFrom' /\ CoolsAsRan'
BY DEF RunsInv, Tables, CountsFrom, CoolsAsRan, dbVars

LEMMA MemoryStays ==
    ASSUME RunsInv, UNCHANGED <<phase, loading, list>>, PlanTypes' \/ UNCHANGED plan,
           unlisted' \in [Processes -> SUBSET Idents] \/ UNCHANGED unlisted
    PROVE  Memory'
BY DEF RunsInv, Memory, PlanTypes

LEMMA LocksReleased ==
    ASSUME LockTypes, NEW A, Release(A)
    PROVE  /\ LockTypes'
           /\ \A i \in Idents : rowLock'[i] = IF rowLock[i] \in A THEN Nobody ELSE rowLock[i]
           /\ chan' = IF chan \in A THEN Nobody ELSE chan
BY DEF LockTypes, Release, Holders

LEMMA HandlersAreNoJobs ==
    /\ \A h \in Handlers : h \notin Slots /\ h # Nobody /\ ProcOf[h] \in Processes
    /\ \A g \in Slots : g \notin Handlers /\ g # Nobody /\ ProcOf[g] \in Processes
BY CommandAssumption

LEMMA HandlersStay ==
    ASSUME RunsInv, UNCHANGED <<hVars, chan, count>>,
           \A i \in Idents : rowLock[i] \in Handlers => rowLock'[i] = rowLock[i]
    PROVE  Handling'
<1>1. \A h \in Handlers : HandlerHolds(h)
  BY DEF RunsInv, Handling
<1>2. ASSUME NEW h \in Handlers PROVE HandlerHolds(h)'
  <2>1. newRow[h] # Never => rowLock'[cmd[h].id] = h
    BY <1>1 DEF HandlerHolds
  <2>. QED
    BY <1>1, <2>1 DEF HandlerHolds, hVars
<1>. QED
  BY <1>2 DEF RunsInv, Handling, hVars

LEMMA OneHandlerGoesOn ==
    ASSUME RunsInv, NEW h \in Handlers,
           hpc' \in [Handlers -> {"idle", "begun", "found", "wrote", "ready"}],
           DOMAIN cmd' = Handlers, DOMAIN newRow' = Handlers,
           began' \in [Handlers -> Nat], todo' \in [Handlers -> SUBSET Idents],
           UNCHANGED count,
           \A k \in Handlers \ {h} :
              hpc'[k] = hpc[k] /\ cmd'[k] = cmd[k] /\ newRow'[k] = newRow[k] /\ (chan' = k <=> chan = k),
           \A i \in Idents : rowLock[i] \in Handlers \ {h} => rowLock'[i] = rowLock[i],
           HandlerHolds(h)'
    PROVE  Handling'
<1>1. \A k \in Handlers : HandlerHolds(k)
  BY DEF RunsInv, Handling
<1>2. ASSUME NEW k \in Handlers, k # h PROVE HandlerHolds(k)'
  <2>1. newRow[k] # Never => rowLock'[cmd[k].id] = k
    BY <1>1, <1>2 DEF HandlerHolds
  <2>. QED
    BY <1>1, <1>2, <2>1 DEF HandlerHolds
<1>. QED
  BY <1>2 DEF Handling

(* Handlers that end leave the others as they are: if the count changes, no   *)
(* other one is in the channel.                                               *)
LEMMA HandlersEnd ==
    ASSUME RunsInv, NEW H \in SUBSET Handlers, NEW A, A \intersect Handlers = H,
           EndHandling(H), Release(A),
           UNCHANGED count \/ chan \in H
    PROVE  Handling'
<1>1. \A h \in Handlers : HandlerHolds(h)
  BY DEF RunsInv, Handling
<1>2. LockTypes
  BY DEF RunsInv
<1>3. ASSUME NEW h \in Handlers, h \in H PROVE HandlerHolds(h)'
  <2>1. hpc'[h] = "idle" /\ newRow'[h] = Never
    BY <1>3 DEF EndHandling
  <2>2. chan' # h
    BY <1>2, <1>3, LocksReleased, HandlersAreNoJobs
  <2>. QED
    BY <2>1, <2>2 DEF HandlerHolds
<1>4. ASSUME NEW h \in Handlers, h \notin H PROVE HandlerHolds(h)'
  <2>1. hpc'[h] = hpc[h] /\ newRow'[h] = newRow[h] /\ cmd'[h] = cmd[h]
    BY <1>4 DEF EndHandling
  <2>2. chan' = h <=> chan = h
    BY <1>2, <1>4, LocksReleased, HandlersAreNoJobs
  <2>3. newRow[h] # Never => rowLock'[cmd[h].id] = h
    BY <1>1, <1>2, <1>4, LocksReleased DEF HandlerHolds
  <2>4. newRow[h] # Never => UNCHANGED count
    BY <1>1, <1>4 DEF HandlerHolds
  <2>. QED
    BY <1>1, <2>1, <2>2, <2>3, <2>4 DEF HandlerHolds
<1>5. /\ hpc' \in [Handlers -> {"idle", "begun", "found", "wrote", "ready"}]
      /\ DOMAIN cmd' = Handlers /\ DOMAIN newRow' = Handlers
      /\ began' \in [Handlers -> Nat] /\ todo' \in [Handlers -> SUBSET Idents]
  BY DEF RunsInv, Handling, EndHandling
<1>. QED
  BY <1>3, <1>4, <1>5 DEF Handling

LEMMA JobsStay ==
    ASSUME RunsInv, UNCHANGED jVars, count' \in Nat, count' >= count,
           \A i \in Idents : rowLock[i] \in Slots =>
              rowLock'[i] = rowLock[i] /\ row'[i] = row[i] /\ cool'[i] = cool[i]
    PROVE  Working'
<1>1. \A g \in Slots : JobHolds(g)
  BY DEF RunsInv, Working
<1>2. count \in Nat
  BY DEF RunsInv, Tables
<1>3. ASSUME NEW g \in Slots PROVE JobHolds(g)'
  <2>1. jpc[g] \in Holding => /\ work[g].id \in Idents
                              /\ rowLock'[work[g].id] = g
                              /\ row'[work[g].id] = row[work[g].id]
                              /\ cool'[work[g].id] = cool[work[g].id]
    BY <1>1 DEF JobHolds, Holding
  <2>2. UNCHANGED <<jpc[g], work[g], mine[g], seen[g], at[g]>>
    BY DEF jVars
  <2>3. jpc[g] \in {"info", "waiting", "running"} => seen[g].count <= count'
    BY <1>1, <1>2 DEF JobHolds
  <2>. QED
    BY <1>1, <2>1, <2>2, <2>3 DEF JobHolds, Holding
<1>. QED
  BY <1>3 DEF RunsInv, Working, jVars

LEMMA OneJobGoesOn ==
    ASSUME RunsInv, NEW g \in Slots,
           jpc' \in [Slots -> {"free", "started", "readding"} \union Holding \union {"loading"}],
           DOMAIN work' = Slots, DOMAIN mine' = Slots, DOMAIN seen' = Slots, at' \in [Slots -> Nat],
           UNCHANGED <<count, row, cool>>,
           \A k \in Slots \ {g} :
              jpc'[k] = jpc[k] /\ work'[k] = work[k] /\ mine'[k] = mine[k] /\ seen'[k] = seen[k] /\ at'[k] = at[k],
           \A i \in Idents : rowLock[i] \in Slots \ {g} => rowLock'[i] = rowLock[i],
           JobHolds(g)'
    PROVE  Working'
<1>1. \A k \in Slots : JobHolds(k)
  BY DEF RunsInv, Working
<1>2. ASSUME NEW k \in Slots, k # g PROVE JobHolds(k)'
  <2>1. jpc[k] \in Holding => rowLock'[work[k].id] = k
    BY <1>1, <1>2 DEF JobHolds, Holding
  <2>. QED
    BY <1>1, <1>2, <2>1 DEF JobHolds, Holding
<1>. QED
  BY <1>2 DEF Working

(* Jobs whose transactions end leave the others their rows.                   *)
LEMMA JobsReturn ==
    ASSUME RunsInv, NEW G \in SUBSET Slots, NEW A, A \intersect Slots = G,
           NEW pc \in {"free", "readding"}, EndJobs(G, pc), Release(A),
           pc = "readding" => \A g \in G : jpc[g] # "free",
           count' \in Nat, count' >= count,
           \A i \in Idents : rowLock[i] \in Slots \ G => row'[i] = row[i] /\ cool'[i] = cool[i]
    PROVE  Working'
<1>1. \A g \in Slots : JobHolds(g)
  BY DEF RunsInv, Working
<1>2. LockTypes /\ count \in Nat
  BY DEF RunsInv, Tables
<1>3. ASSUME NEW g \in Slots, g \in G PROVE JobHolds(g)'
  <2>1. jpc'[g] = pc /\ mine'[g] = Never /\ work'[g] = IF pc = "free" THEN NoJob ELSE work[g]
    BY <1>3 DEF EndJobs
  <2>. QED
    BY <1>1, <1>3, <2>1 DEF JobHolds, Holding
<1>4. ASSUME NEW g \in Slots, g \notin G PROVE JobHolds(g)'
  <2>1. jpc'[g] = jpc[g] /\ mine'[g] = mine[g] /\ work'[g] = work[g] /\ seen'[g] = seen[g] /\ at'[g] = at[g]
    BY <1>4 DEF EndJobs
  <2>2. jpc[g] \in Holding => /\ work[g].id \in Idents
                              /\ rowLock'[work[g].id] = g
                              /\ row'[work[g].id] = row[work[g].id]
                              /\ cool'[work[g].id] = cool[work[g].id]
    BY <1>1, <1>2, <1>4, LocksReleased DEF JobHolds, Holding
  <2>3. jpc[g] \in {"info", "waiting", "running"} => seen[g].count <= count'
    BY <1>1, <1>2 DEF JobHolds
  <2>. QED
    BY <1>1, <2>1, <2>2, <2>3 DEF JobHolds, Holding
<1>5. /\ jpc' \in [Slots -> {"free", "started", "readding"} \union Holding \union {"loading"}]
      /\ DOMAIN work' = Slots /\ DOMAIN mine' = Slots /\ DOMAIN seen' = Slots /\ at' \in [Slots -> Nat]
  BY DEF RunsInv, Working, EndJobs
<1>. QED
  BY <1>3, <1>4, <1>5 DEF Working
------------------------------------------------------------------------------
(* Messages *)

LEMMA BeginKeeps ==
    ASSUME RunsInv, NEW h \in Handlers, NEW op \in Ops, NEW i \in Idents,
           NEW s, op = "add" => s \in RowSchedules(i), Begin(h, op, i, s)
    PROVE  RunsInv'
<1>1. Tables' /\ CountsFrom' /\ CoolsAsRan'
  BY TablesStay DEF Begin, RunsInv, Tables
<1>2. Memory'
  BY MemoryStays DEF Begin, memVars
<1>3. LockTypes'
  BY DEF Begin, RunsInv, LockTypes, Holders
<1>4. Handling'
  <2>1. HandlerHolds(h) /\ chan = Nobody /\ hpc[h] = "idle" /\ newRow[h] = Never
    BY DEF RunsInv, Handling, HandlerHolds, Begin
  <2>2. /\ chan' = h /\ newRow' = newRow /\ cmd'[h] = [op |-> op, id |-> i, sched |-> s]
        /\ hpc'[h] \in {"begun", "wrote", "ready"}
        /\ hpc'[h] = "begun" => op \notin Managing \union Leaving \union {"chat"}
    BY DEF Begin, RunsInv, Handling
  <2>3. op \in {"chat", "use"} \union Changing \union Managing \union Leaving
    BY CommandAssumption
  <2>4. HandlerHolds(h)'
    BY <2>1, <2>2, <2>3 DEF HandlerHolds
  <2>5. /\ hpc' \in [Handlers -> {"idle", "begun", "found", "wrote", "ready"}]
        /\ DOMAIN cmd' = Handlers /\ DOMAIN newRow' = Handlers
        /\ began' \in [Handlers -> Nat] /\ todo' \in [Handlers -> SUBSET Idents]
    <3>1. hpc' \in [Handlers -> {"idle", "begun", "found", "wrote", "ready"}]
      BY DEF Begin, RunsInv, Handling
    <3>2. DOMAIN cmd' = Handlers /\ DOMAIN newRow' = Handlers /\ began' \in [Handlers -> Nat]
      BY DEF Begin, RunsInv, Handling, Tables
    <3>3. todo' \in [Handlers -> SUBSET Idents]
      BY DEF Begin, RunsInv, Handling
    <3>. QED
      BY <3>1, <3>2, <3>3
  <2>6. \A k \in Handlers \ {h} :
            hpc'[k] = hpc[k] /\ cmd'[k] = cmd[k] /\ newRow'[k] = newRow[k] /\ (chan' = k <=> chan = k)
    BY <2>1, <2>2, HandlersAreNoJobs DEF Begin, RunsInv, Handling
  <2>. QED
    BY <2>4, <2>5, <2>6, OneHandlerGoesOn DEF Begin, dbVars
<1>5. Working'
  BY JobsStay DEF Begin, dbVars, RunsInv, Tables
<1>. QED
  BY <1>1, <1>2, <1>3, <1>4, <1>5 DEF RunsInv

LEMMA LookupKeeps ==
    ASSUME RunsInv, NEW h \in Handlers, Lookup(h) \/ Refuse(h)
    PROVE  RunsInv'
<1>. USE DEF Lookup, Refuse
<1>1. Tables' /\ CountsFrom' /\ CoolsAsRan'
  BY TablesStay DEF RunsInv, Tables
<1>2. Memory'
  BY MemoryStays DEF memVars
<1>3. LockTypes'
  BY DEF RunsInv, LockTypes, Holders, lockVars
<1>4. Handling'
  <2>1. HandlerHolds(h) /\ hpc[h] \in {"begun", "found"}
    BY DEF RunsInv, Handling
  <2>2. /\ chan' = chan /\ newRow' = newRow /\ cmd' = cmd /\ rowLock' = rowLock /\ count' = count
        /\ hpc'[h] \in {"found", "ready"}
        /\ hpc'[h] = "found" => hpc[h] = "begun" /\ cmd[h].op # "use"
    BY DEF RunsInv, Handling, lockVars, dbVars
  <2>3. HandlerHolds(h)'
    BY <2>1, <2>2 DEF HandlerHolds
  <2>4. hpc' \in [Handlers -> {"idle", "begun", "found", "wrote", "ready"}]
        /\ \A k \in Handlers \ {h} : hpc'[k] = hpc[k]
    BY DEF RunsInv, Handling
  <2>5. DOMAIN cmd' = Handlers /\ DOMAIN newRow' = Handlers /\ began' \in [Handlers -> Nat]
        /\ todo' \in [Handlers -> SUBSET Idents]
    BY DEF RunsInv, Handling
  <2>. QED
    BY <2>2, <2>3, <2>4, <2>5, OneHandlerGoesOn
<1>5. Working'
  BY JobsStay DEF dbVars, RunsInv, Tables, lockVars
<1>. QED
  BY <1>1, <1>2, <1>3, <1>4, <1>5 DEF RunsInv

(* What a message writes is a row that starts to count at this message, or    *)
(* none.                                                                      *)
LEMMA RowsAreWritten ==
    ASSUME RunsInv, NEW c, c.id \in Idents, c.op \in Changing,
           c.op = "add" => c.sched \in RowSchedules(c.id),
           NEW r \in Written(c)
    PROVE  /\ r \in Rows(c.id) \union {Deleted}
           /\ r # Deleted => r.last = count + 1
<1>. DEFINE old == {row[c.id]} \ {Never, Deleted}
<1>1. \A q \in old : q \in Rows(c.id)
  BY DEF RunsInv, Tables
<1>2. count + 1 \in Nat /\ now \in Nat /\ row[c.id] \in Rows(c.id) \union {Never, Deleted}
  BY DEF RunsInv, Tables
<1>3. CASE c.op = "delete"
  BY <1>3 DEF Written, cmdSchedule, cmdRepeat, cmdScheduleDelete, cmdRepeatDelete,
     DeleteRepeatedCommand,
     DeleteScheduledCommand
<1>4. CASE c.op # "delete" /\ c.id \in CronIdents
  <2>1. ASSUME NEW q \in Rows(c.id), NEW on \in BOOLEAN
        PROVE  /\ UpdateScheduledCommand([q EXCEPT !.on = on]) \in Rows(c.id)
               /\ UpdateScheduledCommand([q EXCEPT !.on = on]).last = count + 1
    BY <1>2, <2>1 DEF UpdateScheduledCommand, Rows
  <2>2. ASSUME NEW q \in Rows(c.id), c.op = "add"
        PROVE  /\ UpdateScheduledCommand([q EXCEPT !.on = TRUE, !.sched = c.sched]) \in Rows(c.id)
               /\ UpdateScheduledCommand([q EXCEPT !.on = TRUE, !.sched = c.sched]).last = count + 1
    BY <1>2, <2>2 DEF UpdateScheduledCommand, Rows
  <2>3. c.op = "add" => InsertScheduledCommand(c.sched) \in Rows(c.id) /\ InsertScheduledCommand(c.sched).last = count + 1
    BY <1>2 DEF InsertScheduledCommand, Rows
  <2>4. CASE c.op = "add"
    <3>1. r \in cmdScheduleAdd(c, old)
      BY <1>4, <2>4 DEF Written, cmdSchedule, GetScheduledCommandByInfo
    <3>2. r = InsertScheduledCommand(c.sched) \/
          \E q \in old : r = UpdateScheduledCommand([q EXCEPT !.on = TRUE, !.sched = c.sched])
      BY <3>1, Zenon DEF cmdScheduleAdd
    <3>3. CASE r = InsertScheduledCommand(c.sched)
      BY <2>3, <2>4, <3>3
    <3>4. ASSUME NEW q \in old, r = UpdateScheduledCommand([q EXCEPT !.on = TRUE, !.sched = c.sched])
          PROVE  r \in Rows(c.id) /\ r.last = count + 1
      <4>1. q \in Rows(c.id)
        BY <1>1
      <4>. QED
        BY <2>2, <2>4, <3>4, <4>1, Zenon
    <3>. QED
      BY <3>2, <3>3, <3>4, Zenon
  <2>5. CASE c.op # "add"
    <3>1. r \in cmdScheduleOnOff(c.op = "on", old)
      BY <1>4, <2>5 DEF Written, cmdSchedule, GetScheduledCommandByInfo
    <3>2. PICK q \in old : r = UpdateScheduledCommand([q EXCEPT !.on = (c.op = "on")])
      BY <3>1 DEF cmdScheduleOnOff
    <3>. QED
      BY <1>1, <2>1, <3>2
  <2>. QED
    BY <2>4, <2>5
<1>5. CASE c.op # "delete" /\ c.id \notin CronIdents
  <2>1. ASSUME NEW q \in Rows(c.id), NEW on \in BOOLEAN
        PROVE  /\ UpdateRepeatedCommand([q EXCEPT !.on = on]) \in Rows(c.id)
               /\ UpdateRepeatedCommand([q EXCEPT !.on = on]).last = count + 1
    BY <1>2, <1>5, <2>1 DEF UpdateRepeatedCommand, Rows, RowSchedules
  <2>2. ASSUME NEW q \in Rows(c.id), c.op = "add"
        PROVE  /\ UpdateRepeatedCommand([q EXCEPT !.on = TRUE, !.sched = c.sched]) \in Rows(c.id)
               /\ UpdateRepeatedCommand([q EXCEPT !.on = TRUE, !.sched = c.sched]).last = count + 1
    BY <1>2, <1>5, <2>2 DEF UpdateRepeatedCommand, Rows, RowSchedules
  <2>3. c.op = "add" => InsertRepeatedCommand(c.sched) \in Rows(c.id) /\ InsertRepeatedCommand(c.sched).last = count + 1
    BY <1>2, <1>5 DEF InsertRepeatedCommand, Rows, RowSchedules
  <2>4. CASE c.op = "add"
    <3>1. r \in cmdRepeatAdd(c, old)
      BY <1>5, <2>4 DEF Written, cmdRepeat, GetRepeatedCommandByInfo
    <3>2. r = InsertRepeatedCommand(c.sched) \/
          \E q \in old : r = UpdateRepeatedCommand([q EXCEPT !.on = TRUE, !.sched = c.sched])
      BY <3>1, Zenon DEF cmdRepeatAdd
    <3>3. CASE r = InsertRepeatedCommand(c.sched)
      BY <2>3, <2>4, <3>3
    <3>4. ASSUME NEW q \in old, r = UpdateRepeatedCommand([q EXCEPT !.on = TRUE, !.sched = c.sched])
          PROVE  r \in Rows(c.id) /\ r.last = count + 1
      <4>1. q \in Rows(c.id)
        BY <1>1
      <4>. QED
        BY <2>2, <2>4, <3>4, <4>1, Zenon
    <3>. QED
      BY <3>2, <3>3, <3>4, Zenon
  <2>5. CASE c.op # "add"
    <3>1. r \in cmdRepeatOnOff(c.op = "on", old)
      BY <1>5, <2>5 DEF Written, cmdRepeat, GetRepeatedCommandByInfo
    <3>2. PICK q \in old : r = UpdateRepeatedCommand([q EXCEPT !.on = (c.op = "on")])
      BY <3>1 DEF cmdRepeatOnOff
    <3>. QED
      BY <1>1, <2>1, <3>2
  <2>. QED
    BY <2>4, <2>5
<1>. QED
  BY <1>3, <1>4, <1>5

LEMMA WriteKeeps ==
    ASSUME RunsInv, NEW h \in Handlers, Write(h)
    PROVE  RunsInv'
<1>. DEFINE i == cmd[h].id
<1>0. HandlerHolds(h) /\ hpc[h] = "found"
  BY DEF RunsInv, Handling, Write
<1>1. Tables' /\ CountsFrom' /\ CoolsAsRan'
  BY TablesStay DEF RunsInv, Tables, Write
<1>2. Memory'
  BY MemoryStays DEF memVars, Write
<1>3. rowLock' = rowLock \/ (rowLock[i] = Nobody /\ rowLock' = [rowLock EXCEPT ![i] = h])
  BY Zenon DEF Write
<1>4. LockTypes'
  BY <1>0, <1>3 DEF RunsInv, LockTypes, Holders, Write, HandlerHolds
<1>5. \A j \in Idents : rowLock[j] # Nobody => rowLock'[j] = rowLock[j]
  BY <1>3 DEF RunsInv, LockTypes
<1>6. Handling'
  <2>1. newRow[h] = Never /\ i \in Idents /\ chan = h /\ cmd[h].op \in Changing
        /\ (cmd[h].op = "add" => cmd[h].sched \in RowSchedules(i))
    BY <1>0 DEF HandlerHolds
  <2>2. UNCHANGED <<cmd, began, chan, count>>
    BY DEF Write, dbVars
  <2>3. \/ hpc' = [hpc EXCEPT ![h] = "ready"] /\ UNCHANGED <<rowLock, newRow, todo>>
        \/ /\ rowLock' = [rowLock EXCEPT ![i] = h]
           /\ \E r \in Written(cmd[h]) : newRow' = [newRow EXCEPT ![h] = r]
           /\ todo' = [todo EXCEPT ![h] = {i}]
           /\ hpc' = [hpc EXCEPT ![h] = "wrote"]
    BY Zenon DEF Write
  <2>4. CASE hpc' = [hpc EXCEPT ![h] = "ready"] /\ UNCHANGED <<rowLock, newRow, todo>>
    <3>1. HandlerHolds(h)'
      BY <1>0, <2>1, <2>2, <2>4 DEF HandlerHolds, RunsInv, Handling
    <3>2. /\ hpc' \in [Handlers -> {"idle", "begun", "found", "wrote", "ready"}]
          /\ \A k \in Handlers \ {h} : hpc'[k] = hpc[k]
      BY <2>4 DEF RunsInv, Handling
    <3>3. DOMAIN cmd' = Handlers /\ DOMAIN newRow' = Handlers /\ began' \in [Handlers -> Nat]
          /\ todo' \in [Handlers -> SUBSET Idents]
      BY <2>2, <2>4 DEF RunsInv, Handling
    <3>. QED
      BY <2>2, <2>4, <3>1, <3>2, <3>3, OneHandlerGoesOn
  <2>5. ASSUME NEW r \in Written(cmd[h]),
               newRow' = [newRow EXCEPT ![h] = r], rowLock' = [rowLock EXCEPT ![i] = h],
               todo' = [todo EXCEPT ![h] = {i}], hpc' = [hpc EXCEPT ![h] = "wrote"]
        PROVE  Handling'
    <3>1. r \in Rows(i) \union {Deleted} /\ (r # Deleted => r.last = count + 1)
      BY <2>1, RowsAreWritten
    <3>2. newRow'[h] = r /\ hpc'[h] = "wrote" /\ rowLock'[i] = h
      BY <2>1, <2>5 DEF RunsInv, Handling, LockTypes
    <3>3. HandlerHolds(h)'
      BY <2>1, <2>2, <3>1, <3>2 DEF HandlerHolds
    <3>4. /\ hpc' \in [Handlers -> {"idle", "begun", "found", "wrote", "ready"}]
          /\ DOMAIN cmd' = Handlers /\ DOMAIN newRow' = Handlers /\ began' \in [Handlers -> Nat]
          /\ todo' \in [Handlers -> SUBSET Idents]
      BY <2>1, <2>2, <2>5 DEF RunsInv, Handling
    <3>5. \A k \in Handlers \ {h} : hpc'[k] = hpc[k] /\ newRow'[k] = newRow[k]
      BY <2>5 DEF RunsInv, Handling
    <3>6. \A j \in Idents : rowLock[j] \in Handlers \ {h} => rowLock'[j] = rowLock[j]
      BY <1>5, HandlersAreNoJobs
    <3>. QED
      BY <2>2, <3>3, <3>4, <3>5, <3>6, OneHandlerGoesOn
  <2>. QED
    BY <2>3, <2>4, <2>5
<1>7. Working'
  <2>1. \A j \in Idents : rowLock[j] \in Slots => rowLock'[j] = rowLock[j]
    BY <1>5, HandlersAreNoJobs
  <2>. QED
    BY <2>1, JobsStay DEF Write, dbVars, RunsInv, Tables
<1>. QED
  BY <1>1, <1>2, <1>4, <1>6, <1>7 DEF RunsInv

LEMMA CurrentRows ==
    ASSUME RunsInv, NEW h \in Handlers, NEW i \in Idents
    PROVE  Current(h, i) \in Rows(i) \union {Never, Deleted}
BY DEF Current, RunsInv, Handling, HandlerHolds, Tables

LEMMA RememberKeeps ==
    ASSUME RunsInv, NEW h \in Handlers, Remember(h)
    PROVE  RunsInv'
<1>0. HandlerHolds(h) /\ hpc[h] = "wrote" /\ todo[h] \subseteq Idents
  BY DEF RunsInv, Handling, Remember
<1>1. Tables' /\ CountsFrom' /\ CoolsAsRan'
  BY TablesStay DEF RunsInv, Tables, Remember
<1>2. Memory'
  <2>1. PlanTypes /\ now \in Nat
    BY DEF RunsInv, Memory, PlanTypes, Tables
  <2>2. PlanTypes'
    <3>1. CASE UNCHANGED plan
      BY <2>1, <3>1 DEF PlanTypes
    <3>2. ASSUME NEW i \in todo[h], updatePlan(ProcOf[h], i, Current(h, i), cmd[h].op \notin Leaving)
          PROVE  PlanTypes'
      BY <1>0, <2>1, <3>2, CurrentRows, UpdateKeepsPlan, HandlersAreNoJobs
    <3>. QED
      BY <3>1, <3>2 DEF Remember
  <2>3. unlisted' \in [Processes -> SUBSET Idents]
    BY DEF RunsInv, Memory, Remember
  <2>. QED
    BY <2>2, <2>3, MemoryStays DEF Remember
<1>3. LockTypes'
  BY DEF RunsInv, LockTypes, Remember, lockVars
<1>4. Handling'
  <2>1. UNCHANGED <<cmd, began, newRow, chan, count, rowLock>>
    BY DEF Remember, dbVars, lockVars
  <2>2. \/ UNCHANGED hpc /\ \E i \in todo[h] : todo' = [todo EXCEPT ![h] = @ \ {i}]
        \/ hpc' = [hpc EXCEPT ![h] = "ready"] /\ UNCHANGED todo
    BY Zenon DEF Remember
  <2>3. todo' \in [Handlers -> SUBSET Idents]
    BY <2>2 DEF RunsInv, Handling
  <2>4. /\ hpc' \in [Handlers -> {"idle", "begun", "found", "wrote", "ready"}]
        /\ hpc'[h] \in {"wrote", "ready"}
        /\ \A k \in Handlers \ {h} : hpc'[k] = hpc[k]
    BY <1>0, <2>2 DEF RunsInv, Handling
  <2>5. HandlerHolds(h)'
    BY <1>0, <2>1, <2>4 DEF HandlerHolds
  <2>6. DOMAIN cmd' = Handlers /\ DOMAIN newRow' = Handlers /\ began' \in [Handlers -> Nat]
    BY <2>1 DEF RunsInv, Handling
  <2>. QED
    BY <2>1, <2>3, <2>4, <2>5, <2>6, OneHandlerGoesOn
<1>5. Working'
  BY JobsStay DEF Remember, dbVars, lockVars, RunsInv, Tables
<1>. QED
  BY <1>1, <1>2, <1>3, <1>4, <1>5 DEF RunsInv

(* The row that a message has written is committed with its count.            *)
LEMMA CommitWrites ==
    ASSUME RunsInv, NEW h \in Handlers, Commit(h)
    PROVE  /\ count' \in Nat /\ count' >= count /\ chan = h
           /\ \A i \in Idents : row'[i] # row[i] =>
                 /\ rowLock[i] = h
                 /\ row'[i] \in Rows(i) \union {Deleted}
                 /\ row'[i] \in Rows(i) => row'[i].last = count + 1 /\ row'[i].last <= count'
<1>1. HandlerHolds(h) /\ count \in Nat /\ hpc[h] = "ready"
  BY DEF RunsInv, Handling, Tables, Commit
<1>2. chan = h /\ count' = IF cmd[h].op \in Managing THEN count ELSE count + 1
  BY <1>1 DEF Commit, HandlerHolds
<1>3. ASSUME NEW i \in Idents, row'[i] # row[i]
      PROVE  /\ rowLock[i] = h
             /\ row'[i] \in Rows(i) \union {Deleted}
             /\ row'[i] \in Rows(i) => row'[i].last = count + 1 /\ cmd[h].op \notin Managing
  <2>1. row'[i] = newRow[h] /\ newRow[h] # Never /\ cmd[h].id = i
    BY <1>3 DEF Commit, Current
  <2>. QED
    BY <1>1, <2>1, RowsAreThere DEF HandlerHolds, Changing, Managing
<1>4. count' \in Nat /\ count' >= count /\ (cmd[h].op \notin Managing => count' = count + 1)
  BY <1>1, <1>2
<1>. QED
  BY <1>1, <1>2, <1>3, <1>4

LEMMA CommitKeeps ==
    ASSUME RunsInv, NEW h \in Handlers, Commit(h)
    PROVE  RunsInv'
<1>1. /\ count' \in Nat /\ count' >= count /\ chan = h
      /\ \A i \in Idents : row'[i] # row[i] =>
            /\ rowLock[i] = h
            /\ row'[i] \in Rows(i) \union {Deleted}
            /\ row'[i] \in Rows(i) => row'[i].last = count + 1 /\ row'[i].last <= count'
  BY CommitWrites
<1>2. Tables'
  BY <1>1 DEF RunsInv, Tables, Commit, Leaving
<1>3. CountsFrom'
  <2>. SUFFICES ASSUME NEW i \in Idents, row'[i] \in Rows(i) PROVE row'[i].last <= count'
    BY DEF CountsFrom
  <2>1. CASE row'[i] = row[i]
    <3>1. row[i].last <= count /\ row[i].last \in Nat /\ count \in Nat
      BY <2>1 DEF RunsInv, CountsFrom, Tables, Rows
    <3>. QED
      BY <1>1, <2>1, <3>1
  <2>. QED
    BY <1>1, <2>1
<1>4. CoolsAsRan'
  BY DEF RunsInv, CoolsAsRan, Commit
<1>5. Memory'
  BY MemoryStays DEF Commit, memVars
<1>6. LockTypes'
  BY LocksReleased DEF RunsInv, Commit
<1>7. Handling'
  BY <1>1, HandlersEnd DEF Commit
<1>8. Working'
  <2>1. \A i \in Idents : rowLock[i] \in Slots => row'[i] = row[i] /\ rowLock'[i] = rowLock[i] /\ cool'[i] = cool[i]
    BY <1>1, LocksReleased, HandlersAreNoJobs DEF RunsInv, Commit
  <2>. QED
    BY <1>1, <2>1, JobsStay DEF Commit
<1>. QED
  BY <1>2, <1>3, <1>4, <1>5, <1>6, <1>7, <1>8 DEF RunsInv

LEMMA AbortKeeps ==
    ASSUME RunsInv, NEW h \in Handlers, Abort(h), faults' \in 0 .. MaxFaults
    PROVE  RunsInv'
<1>1. Tables' /\ CountsFrom' /\ CoolsAsRan'
  BY TablesStay DEF RunsInv, Tables, Abort
<1>2. Memory'
  BY MemoryStays DEF Abort, memVars
<1>3. LockTypes'
  BY LocksReleased DEF RunsInv, Abort
<1>4. Handling'
  BY HandlersEnd DEF Abort, dbVars
<1>5. Working'
  <2>1. \A i \in Idents : rowLock[i] \in Slots => rowLock'[i] = rowLock[i]
    BY LocksReleased, HandlersAreNoJobs DEF RunsInv, Abort
  <2>. QED
    BY <2>1, JobsStay DEF Abort, dbVars, RunsInv, Tables
<1>. QED
  BY <1>1, <1>2, <1>3, <1>4, <1>5 DEF RunsInv

LEMMA FaultsAreCounted ==
    ASSUME RunsInv, NEW kind, Fault(kind)
    PROVE  faults' \in 0 .. MaxFaults
BY CommandAssumption DEF RunsInv, Tables, Fault

------------------------------------------------------------------------------
(* Jobs *)

LEMMA ReturnKeeps ==
    ASSUME RunsInv, NEW g \in Slots, NEW again \in BOOLEAN, Return(g, again), jpc[g] # "free",
           faults' \in 0 .. MaxFaults, UNCHANGED <<now, memVars, hVars, ran>>
    PROVE  RunsInv'
<1>1. Tables' /\ CountsFrom' /\ CoolsAsRan'
  BY TablesStay DEF RunsInv, Tables, Return
<1>2. Memory'
  BY MemoryStays DEF memVars
<1>3. LockTypes'
  BY LocksReleased DEF RunsInv, Return
<1>4. Handling'
  <2>1. \A i \in Idents : rowLock[i] \in Handlers => rowLock'[i] = rowLock[i]
    BY LocksReleased, HandlersAreNoJobs DEF RunsInv, Return
  <2>2. chan' = chan
    BY LocksReleased, HandlersAreNoJobs DEF RunsInv, Return, LockTypes
  <2>. QED
    BY <2>1, <2>2, HandlersStay DEF Return, dbVars
<1>5. Working'
  <2>1. EndJobs({g}, "free") \/ EndJobs({g}, "readding")
    BY DEF Return
  <2>2. Release({g}) /\ UNCHANGED <<row, cool, count>> /\ count \in Nat
    BY DEF Return, dbVars, RunsInv, Tables
  <2>3. {g} \intersect Slots = {g} /\ count' >= count
    BY <2>2
  <2>. QED
    BY <2>1, <2>2, <2>3, JobsReturn
<1>. QED
  BY <1>1, <1>2, <1>3, <1>4, <1>5 DEF RunsInv

(* A step of a job that takes no more than the locks of its own row.          *)
LEMMA JobGoesOn ==
    ASSUME RunsInv, NEW g \in Slots, UNCHANGED <<now, faults, memVars, hVars, ran, dbVars, chan>>,
           LockTypes', Working',
           \A i \in Idents : rowLock[i] # Nobody => rowLock'[i] = rowLock[i]
    PROVE  RunsInv'
<1>1. Tables' /\ CountsFrom' /\ CoolsAsRan'
  BY TablesStay DEF RunsInv, Tables
<1>2. Memory'
  BY MemoryStays DEF memVars
<1>3. Handling'
  BY HandlersStay, HandlersAreNoJobs DEF dbVars
<1>. QED
  BY <1>1, <1>2, <1>3 DEF RunsInv

LEMMA FireKeeps ==
    ASSUME RunsInv, NEW g \in Slots, NEW i \in Idents, Fire(g, i)
    PROVE  RunsInv'
<1>. DEFINE p == ProcOf[g]
<1>0. PlanTypes /\ p \in Processes
  BY HandlersAreNoJobs DEF RunsInv, Memory, PlanTypes
<1>1. Tables' /\ CountsFrom' /\ CoolsAsRan'
  BY TablesStay DEF RunsInv, Tables, Fire
<1>2. Memory'
  BY <1>0, DropKeepsPlan, MemoryStays DEF Fire
<1>3. LockTypes'
  BY DEF RunsInv, LockTypes, Fire, lockVars
<1>4. Handling'
  BY HandlersStay DEF Fire, lockVars, dbVars
<1>5. Working'
  <2>1. plan[p][i] \in ItemsOf(i)
    BY <1>0 DEF Fire, Due, PlanTypes
  <2>2. [id |-> i, sched |-> plan[p][i].sched] \in JobsOf(i)
    BY <2>1 DEF ItemsOf, JobsOf
  <2>3. /\ work' = [work EXCEPT ![g] = [id |-> i, sched |-> plan[p][i].sched]]
        /\ jpc' = [jpc EXCEPT ![g] = "started"] /\ jpc[g] = "free"
        /\ UNCHANGED <<mine, seen, at, count, row, cool, rowLock>>
    BY Zenon DEF Fire, dbVars, lockVars
  <2>4. /\ jpc' \in [Slots -> {"free", "started", "readding"} \union Holding \union {"loading"}]
        /\ jpc'[g] = "started" /\ DOMAIN work' = Slots
        /\ work'[g] = [id |-> i, sched |-> plan[p][i].sched]
        /\ \A k \in Slots \ {g} : jpc'[k] = jpc[k] /\ work'[k] = work[k]
    BY <2>3 DEF RunsInv, Working
  <2>5. mine[g] = Never
    BY <2>3 DEF RunsInv, Working, JobHolds, Holding
  <2>6. JobHolds(g)'
    BY <2>2, <2>3, <2>4, <2>5 DEF JobHolds, Holding
  <2>7. DOMAIN mine' = Slots /\ DOMAIN seen' = Slots /\ at' \in [Slots -> Nat]
    BY <2>3 DEF RunsInv, Working
  <2>. QED
    BY <2>3, <2>4, <2>6, <2>7, OneJobGoesOn
<1>. QED
  BY <1>1, <1>2, <1>3, <1>4, <1>5 DEF RunsInv

LEMMA StatusKeeps ==
    ASSUME RunsInv, NEW g \in Slots, Status(g)
    PROVE  RunsInv'
<1>0. UNCHANGED <<now, faults, memVars, hVars, ran>> /\ jpc[g] = "started"
  BY DEF Status, jobRest
<1>1. ASSUME NEW again \in BOOLEAN, Return(g, again) PROVE RunsInv'
  BY <1>0, <1>1, ReturnKeeps DEF RunsInv, Tables
<1>2. ASSUME jpc' = [jpc EXCEPT ![g] = "loading"], UNCHANGED <<dbVars, lockVars, work, mine, seen, at>>
      PROVE  RunsInv'
  <2>1. LockTypes'
    BY <1>2 DEF RunsInv, LockTypes, lockVars
  <2>2. /\ jpc' \in [Slots -> {"free", "started", "readding"} \union Holding \union {"loading"}]
        /\ jpc'[g] = "loading" /\ \A k \in Slots \ {g} : jpc'[k] = jpc[k]
    BY <1>2 DEF RunsInv, Working
  <2>3. JobHolds(g)'
    BY <1>0, <1>2, <2>2 DEF JobHolds, Holding, RunsInv, Working
  <2>4. DOMAIN work' = Slots /\ DOMAIN mine' = Slots /\ DOMAIN seen' = Slots /\ at' \in [Slots -> Nat]
    BY <1>2 DEF RunsInv, Working
  <2>5. Working'
    BY <1>2, <2>2, <2>3, <2>4, OneJobGoesOn DEF dbVars, lockVars
  <2>. QED
    BY <1>0, <1>2, <2>1, <2>5, JobGoesOn DEF lockVars
<1>. QED
  BY <1>1, <1>2, Zenon DEF Status

LEMMA LoadKeeps ==
    ASSUME RunsInv, NEW g \in Slots, Load(g)
    PROVE  RunsInv'
<1>. DEFINE i == work[g].id
<1>0. /\ UNCHANGED <<now, faults, memVars, hVars, ran>> /\ jpc[g] = "loading"
      /\ i \in Idents /\ work[g] \in JobsOf(i)
  BY DEF Load, jobRest, RunsInv, Working, JobHolds
<1>1. ASSUME Return(g, FALSE) PROVE RunsInv'
  BY <1>0, <1>1, ReturnKeeps DEF RunsInv, Tables
<1>2. ASSUME NEW r \in load(i), rowLock[i] = Nobody, rowLock' = [rowLock EXCEPT ![i] = g],
             mine' = [mine EXCEPT ![g] = r], jpc' = [jpc EXCEPT ![g] = "loaded"],
             UNCHANGED <<dbVars, adv, chan, infoLock, work, seen, at>>
      PROVE  RunsInv'
  <2>1. r = row[i] /\ IsOn(r)
    BY DEF load, GetScheduledCommandForRun, GetRepeatedCommandForRun
  <2>2. LockTypes' /\ rowLock'[i] = g
    BY <1>0, <1>2 DEF RunsInv, LockTypes, Holders
  <2>3. \A j \in Idents : rowLock[j] # Nobody => rowLock'[j] = rowLock[j]
    BY <1>0, <1>2 DEF RunsInv, LockTypes
  <2>4. /\ jpc' \in [Slots -> {"free", "started", "readding"} \union Holding \union {"loading"}]
        /\ jpc'[g] = "loaded" /\ mine'[g] = r /\ DOMAIN mine' = Slots
        /\ \A k \in Slots \ {g} : jpc'[k] = jpc[k] /\ mine'[k] = mine[k]
    BY <1>2 DEF RunsInv, Working, Holding
  <2>5. JobHolds(g)'
    BY <1>0, <1>2, <2>1, <2>2, <2>4 DEF JobHolds, Holding, dbVars
  <2>6. DOMAIN work' = Slots /\ DOMAIN seen' = Slots /\ at' \in [Slots -> Nat]
    BY <1>2 DEF RunsInv, Working
  <2>7. Working'
    BY <1>2, <2>3, <2>4, <2>5, <2>6, OneJobGoesOn, HandlersAreNoJobs DEF dbVars
  <2>. QED
    BY <1>0, <1>2, <2>2, <2>3, <2>7, JobGoesOn
<1>. QED
  BY <1>1, <1>2, Zenon DEF Load

LEMMA RelationsKeep ==
    ASSUME RunsInv, NEW g \in Slots, loadRelations(g)
    PROVE  RunsInv'
<1>0. JobHolds(g)
  BY DEF RunsInv, Working
<1>1. CASE ReadChannel(g)
  <2>. USE <1>1
  <2>1. /\ UNCHANGED <<now, faults, memVars, hVars, ran, dbVars, lockVars, work, mine, at>>
        /\ jpc[g] = "loaded" /\ jpc' = [jpc EXCEPT ![g] = "info"]
        /\ seen' = [seen EXCEPT ![g] = [active |-> active, count |-> count]]
    BY DEF ReadChannel, jobRest
  <2>2. LockTypes'
    BY <2>1 DEF RunsInv, LockTypes, lockVars
  <2>3. /\ jpc' \in [Slots -> {"free", "started", "readding"} \union Holding \union {"loading"}]
        /\ jpc'[g] = "info" /\ seen'[g] = [active |-> active, count |-> count] /\ DOMAIN seen' = Slots
        /\ \A k \in Slots \ {g} : jpc'[k] = jpc[k] /\ seen'[k] = seen[k]
    BY <2>1 DEF RunsInv, Working, Holding
  <2>4. seen'[g] \in [active : BOOLEAN, count : Nat] /\ seen'[g].count <= count
    BY <2>3 DEF RunsInv, Tables
  <2>5. JobHolds(g)'
    BY <1>0, <2>1, <2>3, <2>4 DEF JobHolds, Holding, dbVars, lockVars
  <2>6. DOMAIN work' = Slots /\ DOMAIN mine' = Slots /\ at' \in [Slots -> Nat]
    BY <2>1 DEF RunsInv, Working
  <2>7. Working'
    BY <2>1, <2>3, <2>5, <2>6, OneJobGoesOn DEF dbVars, lockVars
  <2>. QED
    BY <2>1, <2>2, <2>7, JobGoesOn DEF lockVars
<1>2. CASE LockInfo(g)
  <2>. USE <1>2
  <2>1. /\ UNCHANGED <<now, faults, memVars, hVars, ran, dbVars, adv, chan, rowLock, work, mine, seen, at>>
        /\ jpc[g] = "info" /\ jpc' = [jpc EXCEPT ![g] = "waiting"]
        /\ infoLock' = [infoLock EXCEPT ![work[g].id] = g]
    BY DEF LockInfo, jobRest, GetCommandInfoByIDForUpdate
  <2>2. LockTypes'
    BY <1>0, <2>1 DEF RunsInv, LockTypes, Holders, JobHolds
  <2>3. /\ jpc' \in [Slots -> {"free", "started", "readding"} \union Holding \union {"loading"}]
        /\ jpc'[g] = "waiting" /\ \A k \in Slots \ {g} : jpc'[k] = jpc[k]
    BY <2>1 DEF RunsInv, Working, Holding
  <2>4. JobHolds(g)'
    BY <1>0, <2>1, <2>3 DEF JobHolds, Holding, dbVars
  <2>5. DOMAIN work' = Slots /\ DOMAIN mine' = Slots /\ DOMAIN seen' = Slots /\ at' \in [Slots -> Nat]
    BY <2>1 DEF RunsInv, Working
  <2>6. Working'
    BY <2>1, <2>3, <2>4, <2>5, OneJobGoesOn DEF dbVars
  <2>. QED
    BY <2>1, <2>2, <2>6, JobGoesOn
<1>. QED
  BY <1>1, <1>2 DEF loadRelations

LEMMA LockChannelKeeps ==
    ASSUME RunsInv, NEW g \in Slots, LockChannel(g)
    PROVE  RunsInv'
<1>0. JobHolds(g) /\ UNCHANGED <<now, faults, memVars, hVars, ran>> /\ jpc[g] = "waiting" /\ now \in Nat
  BY DEF RunsInv, Working, Tables, LockChannel, jobRest
<1>1. ASSUME NEW again \in BOOLEAN, Return(g, again) PROVE RunsInv'
  BY <1>0, <1>1, ReturnKeeps DEF RunsInv, Tables
<1>2. ASSUME allowed(g), adv' = g, at' = [at EXCEPT ![g] = now], jpc' = [jpc EXCEPT ![g] = "running"],
             UNCHANGED <<dbVars, chan, rowLock, infoLock, work, mine, seen>>
      PROVE  RunsInv'
  <2>1. Ready(mine[g], seen[g].count) /\ now >= cool[work[g].id]
    BY <1>2 DEF allowed, scheduledAllowed, repeatedAllowed, ScheduledAllowed,
       RepeatAllowed,
       BotStateCheckAndMarkScheduledCooldown, BotStateCheckAndMarkRepeatCooldown
  <2>2. LockTypes'
    BY <1>2 DEF RunsInv, LockTypes, Holders
  <2>3. /\ jpc' \in [Slots -> {"free", "started", "readding"} \union Holding \union {"loading"}]
        /\ jpc'[g] = "running" /\ at'[g] = now /\ at' \in [Slots -> Nat]
        /\ \A k \in Slots \ {g} : jpc'[k] = jpc[k] /\ at'[k] = at[k]
    BY <1>0, <1>2 DEF RunsInv, Working, Holding
  <2>4. JobHolds(g)'
    BY <1>0, <1>2, <2>1, <2>3 DEF JobHolds, Holding, dbVars
  <2>5. DOMAIN work' = Slots /\ DOMAIN mine' = Slots /\ DOMAIN seen' = Slots
    BY <1>2 DEF RunsInv, Working
  <2>6. Working'
    BY <1>2, <2>3, <2>4, <2>5, OneJobGoesOn DEF dbVars
  <2>. QED
    BY <1>0, <1>2, <2>2, <2>6, JobGoesOn
<1>. QED
  BY <1>1, <1>2, Zenon DEF LockChannel

(* What a job writes in its row: the count it has seen, no less than the one  *)
(* the row had, at a time when the last cooldown was over.                    *)
LEMMA JobCommitWrites ==
    ASSUME RunsInv, NEW g \in Slots, JobCommit(g)
    PROVE  LET i == work[g].id
           IN  /\ i \in Idents /\ rowLock[i] = g /\ row[i] \in Rows(i)
               /\ row' = [row EXCEPT ![i] = [row[i] EXCEPT !.last = seen[g].count]]
               /\ seen[g].count \in Nat /\ seen[g].count <= count /\ seen[g].count >= row[i].last
               /\ Gap(g) \in Nat /\ at[g] \in Nat /\ at[g] >= cool[i]
               /\ cool' = [cool EXCEPT ![i] = at[g] + Gap(g)]
               /\ ran' = [ran EXCEPT ![i] = [time |-> at[g], count |-> count, gap |-> Gap(g)]]
<1>. DEFINE i == work[g].id
<1>1. JobHolds(g) /\ jpc[g] = "running"
  BY DEF RunsInv, Working, JobCommit
<1>2. /\ i \in Idents /\ rowLock[i] = g /\ mine[g] = row[i] /\ IsOn(row[i])
      /\ seen[g] \in [active : BOOLEAN, count : Nat] /\ seen[g].count <= count
      /\ Ready(row[i], seen[g].count) /\ at[g] >= cool[i]
  BY <1>1 DEF JobHolds, Holding
<1>3. row[i] \in Rows(i) /\ Exists(row[i])
  BY <1>2 DEF RunsInv, Tables, IsOn, Exists
<1>4. seen[g].count \in Nat /\ seen[g].count >= row[i].last
  BY <1>2, <1>3, CommandAssumption DEF Ready, Rows
<1>5. Gap(g) \in Nat
  <2>1. CASE i \in CronIdents
    BY <2>1, CommandAssumption DEF Gap, scheduledExpiry
  <2>2. CASE i \notin CronIdents
    <3>1. row[i].sched.interval \in Nat \ {0}
      BY <1>2, <1>3, <2>2, ScheduleAssumption DEF Rows, RowSchedules
    <3>. QED
      BY <1>2, <2>2, <3>1 DEF Gap, repeatedExpiry
  <2>. QED
    BY <2>1, <2>2
<1>6. row' = [row EXCEPT ![i] = [row[i] EXCEPT !.last = seen[g].count]]
  BY <1>3 DEF JobCommit, updateCount, UpdateScheduledCommandLastCount,
     UpdateRepeatedCommandLastCount
<1>7. at[g] \in Nat
  BY DEF RunsInv, Working
<1>8. /\ cool' = [cool EXCEPT ![i] = at[g] + Gap(g)]
      /\ ran' = [ran EXCEPT ![i] = [time |-> at[g], count |-> count, gap |-> Gap(g)]]
  BY DEF JobCommit
<1>. QED
  BY <1>2, <1>3, <1>4, <1>5, <1>6, <1>7, <1>8

LEMMA JobCommitKeeps ==
    ASSUME RunsInv, NEW g \in Slots, JobCommit(g)
    PROVE  RunsInv'
<1>. DEFINE i == work[g].id
            n == seen[g].count
            gap == Gap(g)
<1>0. /\ i \in Idents /\ rowLock[i] = g /\ row[i] \in Rows(i)
      /\ row' = [row EXCEPT ![i] = [row[i] EXCEPT !.last = n]]
      /\ n \in Nat /\ n <= count /\ n >= row[i].last
      /\ gap \in Nat /\ at[g] \in Nat /\ at[g] >= cool[i]
      /\ cool' = [cool EXCEPT ![i] = at[g] + gap]
      /\ ran' = [ran EXCEPT ![i] = [time |-> at[g], count |-> count, gap |-> gap]]
  BY JobCommitWrites
<1>. HIDE DEF i, n, gap
<1>1. /\ UNCHANGED <<now, faults, active, count, memVars, hVars>> /\ jpc[g] = "running"
      /\ Release({g}) /\ EndJobs({g}, "readding")
  BY DEF JobCommit
<1>2. /\ DOMAIN row' = Idents /\ \A j \in Idents \ {i} : row'[j] = row[j]
      /\ row'[i] = [row[i] EXCEPT !.last = n] /\ row'[i] \in Rows(i) /\ row'[i].last = n
  <2>1. [row[i] EXCEPT !.last = n] \in Rows(i) /\ [row[i] EXCEPT !.last = n].last = n
    BY <1>0 DEF Rows
  <2>. QED
    BY <1>0, <2>1 DEF RunsInv, Tables
<1>3. Tables'
  <2>1. cool' \in [Idents -> Nat]
    BY <1>0 DEF RunsInv, Tables
  <2>2. ran' \in [Idents -> [time : Nat, count : Nat, gap : Nat]]
    BY <1>0 DEF RunsInv, Tables
  <2>. QED
    BY <1>1, <1>2, <2>1, <2>2 DEF RunsInv, Tables
<1>4. CountsFrom'
  BY <1>0, <1>1, <1>2 DEF RunsInv, CountsFrom
<1>5. CoolsAsRan'
  <2>1. \A j \in Idents : j # i => cool'[j] = cool[j] /\ ran'[j] = ran[j]
    BY <1>0 DEF RunsInv, Tables
  <2>2. cool'[i] = at[g] + gap /\ ran'[i] = [time |-> at[g], count |-> count, gap |-> gap]
    BY <1>0 DEF RunsInv, Tables
  <2>3. cool'[i] = ran'[i].time + ran'[i].gap
    BY <2>2
  <2>. QED
    BY <2>1, <2>3 DEF RunsInv, CoolsAsRan
<1>6. Memory'
  BY <1>1, MemoryStays DEF memVars
<1>7. LockTypes'
  BY <1>1, LocksReleased DEF RunsInv
<1>8. Handling'
  <2>1. \A j \in Idents : rowLock[j] \in Handlers => rowLock'[j] = rowLock[j]
    BY <1>1, LocksReleased, HandlersAreNoJobs DEF RunsInv
  <2>2. chan' = chan
    BY <1>1, LocksReleased, HandlersAreNoJobs DEF RunsInv, LockTypes
  <2>. QED
    BY <1>1, <2>1, <2>2, HandlersStay
<1>9. Working'
  <2>1. \A j \in Idents : rowLock[j] \in Slots \ {g} => row'[j] = row[j] /\ cool'[j] = cool[j]
    BY <1>0, <1>2 DEF RunsInv, Tables
  <2>2. count' \in Nat /\ count' >= count
    BY <1>1 DEF RunsInv, Tables
  <2>. QED
    BY <1>1, <2>1, <2>2, JobsReturn
<1>. QED
  BY <1>3, <1>4, <1>5, <1>6, <1>7, <1>8, <1>9 DEF RunsInv

LEMMA ReAddKeeps ==
    ASSUME RunsInv, NEW g \in Slots, ReAdd(g)
    PROVE  RunsInv'
<1>0. JobHolds(g) /\ jpc[g] = "readding" /\ PlanTypes
  BY DEF RunsInv, Working, ReAdd, Memory, PlanTypes
<1>1. Tables' /\ CountsFrom' /\ CoolsAsRan'
  BY TablesStay DEF RunsInv, Tables, ReAdd
<1>2. Memory'
  <2>1. work[g].id \in Idents /\ work[g].sched \in RowSchedules(work[g].id) /\ now \in Nat
    BY <1>0 DEF JobHolds, JobsOf, RunsInv, Tables
  <2>. QED
    BY <1>0, <2>1, PutKeepsPlan, MemoryStays, HandlersAreNoJobs DEF ReAdd
<1>3. LockTypes'
  BY DEF RunsInv, LockTypes, ReAdd, lockVars
<1>4. Handling'
  BY HandlersStay DEF ReAdd, lockVars, dbVars
<1>5. Working'
  <2>1. /\ jpc' = [k \in Slots |-> IF k \in {g} THEN "free" ELSE jpc[k]]
        /\ work' = [k \in Slots |-> IF k \in {g} THEN NoJob ELSE work[k]]
        /\ mine' = [k \in Slots |-> IF k \in {g} THEN Never ELSE mine[k]]
        /\ seen' = [k \in Slots |-> IF k \in {g} THEN NoChan ELSE seen[k]]
        /\ at' = [k \in Slots |-> IF k \in {g} THEN 0 ELSE at[k]]
    BY DEF ReAdd, EndJobs
  <2>2. JobHolds(g)'
    BY <2>1 DEF JobHolds, Holding
  <2>3. /\ jpc' \in [Slots -> {"free", "started", "readding"} \union Holding \union {"loading"}]
        /\ at' \in [Slots -> Nat]
    BY <2>1 DEF RunsInv, Working
  <2>. QED
    BY <2>1, <2>2, <2>3, OneJobGoesOn DEF ReAdd, dbVars, lockVars
<1>. QED
  BY <1>1, <1>2, <1>3, <1>4, <1>5 DEF RunsInv

------------------------------------------------------------------------------
(* Loading, faults and time *)



------------------------------------------------------------------------------
(* Loading, faults and time *)

(* What loads the plan of a process changes its memory only.                  *)
LEMMA MemoryOnly ==
    ASSUME RunsInv, UNCHANGED <<dbVars, lockVars, hVars, jVars, ran>>, Memory',
           now' \in Nat, faults' \in 0 .. MaxFaults
    PROVE  RunsInv'
<1>1. Tables' /\ CountsFrom' /\ CoolsAsRan'
  BY TablesStay
<1>2. LockTypes'
  BY DEF RunsInv, LockTypes, lockVars
<1>3. Handling'
  BY HandlersStay DEF lockVars, dbVars
<1>4. Working'
  BY JobsStay DEF RunsInv, Tables, dbVars, lockVars
<1>. QED
  BY <1>1, <1>2, <1>3, <1>4 DEF RunsInv

LEMMA MemoryIsReset ==
    ASSUME RunsInv, NEW p \in Processes, Reset(p), phase' \in [Processes -> {"down", "starting", "up"}]
    PROVE  Memory'
<1>1. PlanTypes
  BY DEF RunsInv, Memory, PlanTypes
<1>2. PlanTypes'
  BY <1>1, ResetKeepsPlan DEF Reset
<1>3. /\ loading' \in [Processes -> {"no", "repeats", "crons", "last"}]
      /\ DOMAIN list' = Processes /\ unlisted' \in [Processes -> SUBSET Idents]
      /\ \A q \in Processes : list'[q] \subseteq list[q]
  BY DEF RunsInv, Memory, Reset
<1>. QED
  BY <1>2, <1>3 DEF RunsInv, Memory, PlanTypes

LEMMA LoaderKeeps ==
    ASSUME RunsInv, NEW p \in Processes, Loader(p) \/ Reload(p)
    PROVE  RunsInv'
<1>0. UNCHANGED <<now, dbVars, lockVars, hVars, jVars, ran>> /\ now \in Nat /\ faults \in 0 .. MaxFaults
  <2>1. UNCHANGED loadRest
    BY Zenon DEF Loader, Start, List, LoadOne, Loaded, Reload
  <2>. QED
    BY <2>1 DEF loadRest, RunsInv, Tables
<1>1. CASE Start(p)
  <2>1. phase' \in [Processes -> {"down", "starting", "up"}] /\ Reset(p) /\ UNCHANGED faults
    BY <1>1 DEF Start, RunsInv, Memory
  <2>. QED
    BY <1>0, <2>1, MemoryIsReset, MemoryOnly
<1>2. CASE List(p)
  <2>0. PICK authorized \in BOOLEAN :
            /\ list' = [list EXCEPT ![p] = {[id |-> i, sched |-> row[i].sched] : i \in ListActive(p, authorized)}]
            /\ unlisted' = [unlisted EXCEPT ![p] = @ \union (ListActive(p, TRUE) \ ListActive(p, authorized))]
    BY <1>2, Zenon DEF List
  <2>. DEFINE listed == ListActive(p, authorized)
  <2>1. /\ list' = [list EXCEPT ![p] = {[id |-> i, sched |-> row[i].sched] : i \in listed}]
        /\ loading' = [loading EXCEPT ![p] = IF @ = "repeats" THEN "crons" ELSE "last"]
        /\ UNCHANGED <<faults, phase, plan>>
    BY <1>2, <2>0, Zenon DEF List
  <2>2. ASSUME NEW i \in listed
        PROVE  i \in Idents /\ [id |-> i, sched |-> row[i].sched] \in JobsOf(i)
    <3>1. i \in Idents /\ IsOn(row[i])
      BY ScheduleAssumption DEF ListActive, ListActiveRepeatedCommands, ListActiveScheduledCommands, Active
    <3>2. row[i] \in Rows(i)
      BY <3>1 DEF IsOn, Exists, RunsInv, Tables
    <3>. QED
      BY <3>1, <3>2 DEF Rows, JobsOf
  <2>3. \A e \in list'[p] : e.id \in Idents /\ e \in JobsOf(e.id)
    <3>. SUFFICES ASSUME NEW e \in list'[p] PROVE e.id \in Idents /\ e \in JobsOf(e.id)
      OBVIOUS
    <3>1. PICK i \in listed : e = [id |-> i, sched |-> row[i].sched]
      BY <2>1 DEF RunsInv, Memory
    <3>. QED
      BY <2>2, <3>1
  <2>4. /\ DOMAIN list' = Processes /\ \A q \in Processes \ {p} : list'[q] = list[q]
        /\ loading' \in [Processes -> {"no", "repeats", "crons", "last"}]
    BY <2>1 DEF RunsInv, Memory
  <2>5. unlisted' \in [Processes -> SUBSET Idents]
    <3>1. ListActive(p, TRUE) \subseteq Idents
      BY ScheduleAssumption DEF ListActive, ListActiveRepeatedCommands, ListActiveScheduledCommands
    <3>. HIDE DEF listed
    <3>. QED
      BY <2>0, <3>1 DEF RunsInv, Memory
  <2>6. Memory'
    BY <2>1, <2>3, <2>4, <2>5 DEF RunsInv, Memory
  <2>. QED
    BY <1>0, <2>1, <2>6, MemoryOnly
<1>3. CASE LoadOne(p)
  <2>1. PICK e \in list[p] : PutPlan(p, e.id, e.sched) /\ list' = [list EXCEPT ![p] = @ \ {e}]
    BY <1>3, Zenon DEF LoadOne
  <2>2. e.id \in Idents /\ e.sched \in RowSchedules(e.id) /\ PlanTypes
    BY DEF RunsInv, Memory, JobsOf, PlanTypes
  <2>3. PlanTypes'
    BY <1>0, <2>1, <2>2, PutKeepsPlan
  <2>4. UNCHANGED <<faults, phase, loading, unlisted>> /\ DOMAIN list' = Processes
        /\ \A q \in Processes : list'[q] \subseteq list[q]
    BY <1>3, <2>1 DEF LoadOne, RunsInv, Memory
  <2>5. Memory'
    BY <2>3, <2>4 DEF RunsInv, Memory, PlanTypes
  <2>. QED
    BY <1>0, <2>4, <2>5, MemoryOnly
<1>4. CASE Loaded(p)
  <2>1. Memory' /\ UNCHANGED faults
    BY <1>4 DEF Loaded, RunsInv, Memory
  <2>. QED
    BY <1>0, <2>1, MemoryOnly
<1>5. CASE Reload(p)
  <2>1. phase' \in [Processes -> {"down", "starting", "up"}] /\ Reset(p) /\ faults' \in 0 .. MaxFaults
    BY <1>5, FaultsAreCounted DEF Reload, RunsInv, Memory
  <2>. QED
    BY <1>0, <2>1, MemoryIsReset, MemoryOnly
<1>. QED
  BY <1>1, <1>2, <1>3, <1>4, <1>5 DEF Loader

LEMMA CrashKeeps ==
    ASSUME RunsInv, NEW p \in Processes, Crash(p)
    PROVE  RunsInv'
<1>. DEFINE H == {h \in Handlers : ProcOf[h] = p}
            G == {g \in Slots : ProcOf[g] = p}
<1>0. /\ Release(H \union G) /\ EndHandling(H) /\ EndJobs(G, "free") /\ UNCHANGED <<now, dbVars, ran>>
      /\ phase' = [phase EXCEPT ![p] = "down"] /\ loading' = [loading EXCEPT ![p] = "no"]
      /\ list' = [list EXCEPT ![p] = {}] /\ plan' = [plan EXCEPT ![p] = NoPlan]
      /\ unlisted' = [unlisted EXCEPT ![p] = {}]
      /\ faults' \in 0 .. MaxFaults
  BY FaultsAreCounted DEF Crash
<1>00. /\ (H \union G) \intersect Handlers = H /\ (H \union G) \intersect Slots = G
       /\ H \subseteq Handlers /\ G \subseteq Slots
  BY HandlersAreNoJobs
<1>. HIDE DEF H, G
<1>1. Tables' /\ CountsFrom' /\ CoolsAsRan'
  BY <1>0, TablesStay DEF RunsInv, Tables
<1>2. Memory'
  <2>1. PlanTypes
    BY DEF RunsInv, Memory, PlanTypes
  <2>2. PlanTypes'
    BY <1>0, <2>1, ResetKeepsPlan
  <2>3. /\ phase' \in [Processes -> {"down", "starting", "up"}]
        /\ loading' \in [Processes -> {"no", "repeats", "crons", "last"}]
        /\ DOMAIN list' = Processes /\ \A q \in Processes : list'[q] \subseteq list[q]
        /\ unlisted' \in [Processes -> SUBSET Idents]
    BY <1>0 DEF RunsInv, Memory
  <2>. QED
    BY <2>2, <2>3 DEF RunsInv, Memory, PlanTypes
<1>3. LockTypes'
  BY <1>0, LocksReleased DEF RunsInv
<1>4. Handling'
  BY <1>0, <1>00, HandlersEnd DEF dbVars
<1>5. Working'
  <2>1. UNCHANGED <<row, cool, count>> /\ count' \in Nat /\ count' >= count
    BY <1>0 DEF dbVars, RunsInv, Tables
  <2>. QED
    BY <1>0, <1>00, <2>1, JobsReturn
<1>. QED
  BY <1>1, <1>2, <1>3, <1>4, <1>5 DEF RunsInv

LEMMA TickKeeps ==
    ASSUME RunsInv, Tick
    PROVE  RunsInv'
<1>1. Memory'
  BY DEF Tick, memVars, RunsInv, Memory
<1>2. now' \in Nat /\ faults' \in 0 .. MaxFaults
  BY DEF Tick, RunsInv, Tables
<1>. QED
  BY <1>1, <1>2, MemoryOnly DEF Tick

LEMMA StutterKeeps ==
    ASSUME RunsInv, UNCHANGED vars
    PROVE  RunsInv'
<1>1. Memory'
  BY DEF vars, memVars, RunsInv, Memory
<1>2. now' \in Nat /\ faults' \in 0 .. MaxFaults
  BY DEF vars, RunsInv, Tables
<1>. QED
  BY <1>1, <1>2, MemoryOnly DEF vars

------------------------------------------------------------------------------
(* The theorems *)

LEMMA OldRowsAreRows ==
    ASSUME NEW i \in Idents, NEW r \in OldRows(i), r # Never
    PROVE  r \in Rows(i) /\ r.sched \in RowSchedules(i) /\ r.last = 0
<1>1. CASE i \in CronIdents
  BY <1>1 DEF OldRows, Rows, RowSchedules
<1>2. CASE i \notin CronIdents
  BY <1>2 DEF OldRows, Rows, RowSchedules
<1>. QED
  BY <1>1, <1>2

LEMMA RunsBegin == Init => RunsInv
<1>. SUFFICES ASSUME Init PROVE RunsInv
  OBVIOUS
<1>1. \A i \in Idents : row[i] \in OldRows(i) /\ DOMAIN row = Idents
  BY DEF Init
<1>2. Tables
  <2>1. \A i \in Idents : row[i] \in Rows(i) \union {Never, Deleted}
    BY <1>1, OldRowsAreRows
  <2>2. DOMAIN row = Idents
    BY DEF Init
  <2>3. now \in Nat /\ faults \in 0 .. MaxFaults /\ active \in BOOLEAN /\ count \in Nat
    BY CommandAssumption DEF Init
  <2>4. cool \in [Idents -> Nat] /\ ran \in [Idents -> [time : Nat, count : Nat, gap : Nat]]
    BY DEF Init
  <2>. QED
    BY <2>1, <2>2, <2>3, <2>4 DEF Tables
<1>3. CountsFrom
  <2>. SUFFICES ASSUME NEW i \in Idents, row[i] \in Rows(i) PROVE row[i].last <= count
    BY DEF CountsFrom
  <2>1. row[i].last = 0
    BY <1>1, RowsAreThere, OldRowsAreRows
  <2>. QED
    BY <2>1, CommandAssumption DEF Init
<1>4. CoolsAsRan
  BY DEF Init, CoolsAsRan
<1>5. Memory
  <2>1. /\ phase \in [Processes -> {"down", "starting", "up"}]
        /\ loading \in [Processes -> {"no", "repeats", "crons", "last"}]
        /\ DOMAIN list = Processes /\ \A p \in Processes : list[p] = {}
        /\ unlisted \in [Processes -> SUBSET Idents]
    BY DEF Init
  <2>2. plan = [p \in Processes |-> NoPlan]
    BY DEF Init
  <2>3. NoPlan \in [Idents -> (UNION {ItemsOf(i) : i \in Idents}) \union {NoItem}]
    BY DEF NoPlan
  <2>4. plan \in [Processes -> [Idents -> (UNION {ItemsOf(i) : i \in Idents}) \union {NoItem}]]
    BY <2>2, <2>3
  <2>5. \A p \in Processes, i \in Idents : plan[p][i] = NoItem
    BY <2>2 DEF NoPlan
  <2>. QED
    BY <2>1, <2>4, <2>5 DEF Memory
<1>6. LockTypes
  BY DEF Init, LockTypes, Holders
<1>7. Handling
  BY HandlersAreNoJobs DEF Init, Handling, HandlerHolds
<1>8. Working
  BY DEF Init, Working, JobHolds, Holding
<1>. QED
  BY <1>2, <1>3, <1>4, <1>5, <1>6, <1>7, <1>8 DEF RunsInv

(* A message and a job hold what they rely on: a handler the channel and the  *)
(* row it has written, a job the row that it has loaded.                      *)
THEOREM RunsInvHolds == Spec => []RunsInv
<1>1. ASSUME RunsInv, [Next]_vars PROVE RunsInv'
  <2>. USE <1>1
  <2>1. ASSUME NEW h \in Handlers, NEW op \in Ops, NEW i \in Idents,
               NEW s \in (IF op = "add" THEN {r.sched : r \in OldRows(i) \ {Never}} ELSE {NoItem}),
               Begin(h, op, i, s)
        PROVE  RunsInv'
    <3>1. op = "add" => s \in RowSchedules(i)
      BY OldRowsAreRows
    <3>. QED
      BY <2>1, <3>1, BeginKeeps
  <2>2. ASSUME NEW h \in Handlers, Message(h) \/ HandlerTimeOut(h) \/ Fail(h) PROVE RunsInv'
    <3>1. CASE Message(h)
      BY <3>1, LookupKeeps, WriteKeeps, RememberKeeps, CommitKeeps DEF Message
    <3>2. CASE HandlerTimeOut(h)
      BY <3>2, AbortKeeps DEF HandlerTimeOut, RunsInv, Tables
    <3>3. CASE Fail(h)
      BY <3>3, AbortKeeps, FaultsAreCounted DEF Fail
    <3>. QED
      BY <2>2, <3>1, <3>2, <3>3
  <2>3. ASSUME NEW g \in Slots, NEW i \in Idents, Fire(g, i) PROVE RunsInv'
    BY <2>3, FireKeeps
  <2>4. ASSUME NEW g \in Slots, Job(g) \/ JobTimeOut(g) \/ JobFail(g) PROVE RunsInv'
    <3>1. CASE Job(g)
      BY <3>1, StatusKeeps, LoadKeeps, RelationsKeep, LockChannelKeeps, JobCommitKeeps,
         ReAddKeeps DEF Job
    <3>2. CASE JobTimeOut(g)
      BY <3>2, ReturnKeeps DEF JobTimeOut, jobRest, RunsInv, Tables
    <3>3. CASE JobFail(g)
      BY <3>3, ReturnKeeps, FaultsAreCounted DEF JobFail
    <3>. QED
      BY <2>4, <3>1, <3>2, <3>3
  <2>5. ASSUME NEW p \in Processes, Loader(p) \/ Reload(p) \/ Crash(p) PROVE RunsInv'
    BY <2>5, LoaderKeeps, CrashKeeps
  <2>. QED
    BY <2>1, <2>2, <2>3, <2>4, <2>5, TickKeeps, StutterKeeps DEF Next
<1>. QED
  BY <1>1, RunsBegin, PTL DEF Spec

(* Whatever messages do meanwhile, with any number of processes that plan the *)
(* same repeat: a job that runs does so for a row that is there and enabled   *)
(* (runRepeatedCommand, GetRepeatedCommandForRun).                            *)
THEOREM OnlyWhatIsOnRuns == Spec => []RepeatedInv
<1>1. ASSUME RunsInv PROVE RepeatedInv
  <2>. USE <1>1 DEF RunsInv
  <2>1. OnlyEnabledRuns
    BY DEF Working, JobHolds, Holding, OnlyEnabledRuns
  <2>2. /\ \A g \in Slots : IF jpc[g] = "free" THEN work[g] = NoJob
                            ELSE work[g].id \in Idents /\ work[g] \in JobsOf(work[g].id)
        /\ \A g \in Slots : mine[g] = Never \/ mine[g] \in Rows(work[g].id)
    <3>1. \A g \in Slots : JobHolds(g)
      BY DEF Working
    <3>2. ASSUME NEW g \in Slots, jpc[g] \in Holding PROVE mine[g] \in Rows(work[g].id)
      <4>1. work[g].id \in Idents /\ mine[g] = row[work[g].id] /\ IsOn(mine[g])
        BY <3>1, <3>2 DEF JobHolds, Holding
      <4>. QED
        BY <4>1 DEF Tables, IsOn, Exists
    <3>. QED
      BY <3>1, <3>2 DEF JobHolds
  <2>3. TypeOK
    <3>1. /\ now \in Nat /\ faults \in 0 .. MaxFaults /\ active \in BOOLEAN /\ count \in Nat
          /\ \A i \in Idents : row[i] \in Rows(i) \union {Never, Deleted}
          /\ cool \in [Idents -> Nat]
      BY DEF Tables
    <3>2. /\ phase \in [Processes -> {"down", "starting", "up"}]
          /\ loading \in [Processes -> {"no", "repeats", "crons", "last"}]
          /\ \A p \in Processes : \A e \in list[p] : e.id \in Idents /\ e \in JobsOf(e.id)
          /\ \A p \in Processes, i \in Idents : plan[p][i] \in ItemsOf(i) \union {NoItem}
          /\ unlisted \in [Processes -> SUBSET Idents]
      BY DEF Memory
    <3>3. /\ adv \in Holders /\ chan \in Handlers \union {Nobody}
          /\ rowLock \in [Idents -> Holders] /\ infoLock \in [Idents -> Holders]
      BY DEF LockTypes
    <3>4. /\ hpc \in [Handlers -> {"idle", "begun", "found", "wrote", "ready"}]
          /\ began \in [Handlers -> Nat] /\ todo \in [Handlers -> SUBSET Idents]
      BY DEF Handling
    <3>5. /\ jpc \in [Slots -> {"free", "started", "loading", "loaded", "info", "waiting", "running", "readding"}]
          /\ at \in [Slots -> Nat]
      <4>1. {"free", "started", "readding"} \union Holding \union {"loading"} =
            {"free", "started", "loading", "loaded", "info", "waiting", "running", "readding"}
        BY DEF Holding
      <4>. QED
        BY <4>1 DEF Working
    <3>. QED
      BY <2>2, <3>1, <3>2, <3>3, <3>4, <3>5 DEF TypeOK
  <2>. QED
    BY <2>1, <2>3 DEF RepeatedInv
<1>. QED
  BY <1>1, RunsInvHolds, PTL

(* Two runs of a repeat keep the cooldown of the first, and the count that a  *)
(* repeat starts from does not go back (runRepeatedCommand, RepeatAllowed,    *)
(* UpdateRepeatedCommandLastCount).                                           *)
THEOREM RunsKeepTheirOrder == Spec => RunsInOrder
<1>. DEFINE Apart == \A i \in Idents : ran'[i] # ran[i] => ran'[i].time >= ran[i].time + ran[i].gap
            Grows == \A i \in Idents :
                        Exists(row[i]) /\ Exists(row'[i]) => row'[i].last >= row[i].last
<1>1. ASSUME RunsInv, NEW g \in Slots, JobCommit(g) PROVE Apart /\ Grows
  <2>. DEFINE i == work[g].id
              n == seen[g].count
              gap == Gap(g)
  <2>0. /\ i \in Idents /\ row[i] \in Rows(i)
        /\ row' = [row EXCEPT ![i] = [row[i] EXCEPT !.last = n]]
        /\ n \in Nat /\ n >= row[i].last
        /\ gap \in Nat /\ at[g] \in Nat /\ at[g] >= cool[i]
        /\ ran' = [ran EXCEPT ![i] = [time |-> at[g], count |-> count, gap |-> gap]]
    BY <1>1, JobCommitWrites
  <2>. HIDE DEF i, n, gap
  <2>1. /\ \A j \in Idents \ {i} : row'[j] = row[j] /\ ran'[j] = ran[j]
        /\ ran'[i].time = at[g]
    BY <1>1, <2>0 DEF RunsInv, Tables
  <2>2. row'[i].last = n
    <3>1. row'[i] = [row[i] EXCEPT !.last = n]
      BY <1>1, <2>0 DEF RunsInv, Tables
    <3>. QED
      BY <2>0, <3>1 DEF Rows
  <2>3. cool[i] = ran[i].time + ran[i].gap
    BY <1>1, <2>0 DEF RunsInv, CoolsAsRan
  <2>4. \A j \in Idents : Exists(row[j]) => row[j] \in Rows(j) /\ row[j].last \in Nat
    BY <1>1 DEF RunsInv, Tables, Exists, Rows
  <2>. QED
    BY <2>0, <2>1, <2>2, <2>3, <2>4
<1>2. ASSUME RunsInv, NEW h \in Handlers, Commit(h) PROVE Apart /\ Grows
  <2>1. UNCHANGED ran
    BY <1>2 DEF Commit
  <2>2. ASSUME NEW i \in Idents, Exists(row[i]), Exists(row'[i]) PROVE row'[i].last >= row[i].last
    <3>1. row[i] \in Rows(i) /\ row[i].last \in Nat /\ row[i].last <= count /\ count \in Nat
      BY <1>2, <2>2 DEF RunsInv, Tables, Exists, Rows, CountsFrom
    <3>2. row'[i] # row[i] => row'[i].last = count + 1
      BY <1>2, <2>2, CommitWrites DEF Exists
    <3>. QED
      BY <3>1, <3>2
  <2>. QED
    BY <2>1, <2>2
<1>3. ASSUME RunsInv, UNCHANGED <<row, ran>> PROVE Apart /\ Grows
  <2>1. \A i \in Idents : Exists(row[i]) => row[i].last \in Nat
    BY <1>3 DEF RunsInv, Tables, Exists, Rows
  <2>. QED
    BY <1>3, <2>1
<1>4. ASSUME RunsInv, Next PROVE Apart /\ Grows
  <2>1. CASE \E h \in Handlers : Commit(h)
    BY <1>2, <1>4, <2>1
  <2>2. CASE \E g \in Slots : JobCommit(g)
    BY <1>1, <1>4, <2>2
  <2>3. CASE ~(\E h \in Handlers : Commit(h)) /\ ~(\E g \in Slots : JobCommit(g))
    <3>1. UNCHANGED <<dbVars, ran>>
      <4>1. ASSUME NEW h \in Handlers, Message(h) \/ HandlerTimeOut(h) \/ Fail(h) PROVE UNCHANGED <<dbVars, ran>>
        BY <2>3, <4>1, Zenon DEF Message, Lookup, Refuse, Write, Remember,
           HandlerTimeOut, Fail, Abort
      <4>2. ASSUME NEW g \in Slots, Job(g) \/ JobTimeOut(g) \/ JobFail(g) PROVE UNCHANGED <<dbVars, ran>>
        <5>1. JobFail(g) => UNCHANGED <<dbVars, ran>>
          BY Zenon DEF JobFail, Return
        <5>2. Job(g) \/ JobTimeOut(g) => UNCHANGED jobRest \/ ReAdd(g)
          BY <2>3, Zenon DEF Job, JobTimeOut, Status, Load, loadRelations, ReadChannel,
             LockInfo, LockChannel
        <5>3. Job(g) \/ JobTimeOut(g) => UNCHANGED dbVars
          BY <2>3, Zenon DEF Job, JobTimeOut, Status, Load, loadRelations, ReadChannel,
             LockInfo, LockChannel, Return, ReAdd
        <5>4. ReAdd(g) => UNCHANGED ran
          BY Zenon DEF ReAdd
        <5>. QED
          BY <4>2, <5>1, <5>2, <5>3, <5>4 DEF jobRest
      <4>3. ASSUME NEW p \in Processes, Loader(p) \/ Reload(p) \/ Crash(p) PROVE UNCHANGED <<dbVars, ran>>
        <5>1. UNCHANGED loadRest \/ UNCHANGED <<now, dbVars, ran>>
          BY <4>3, Zenon DEF Loader, Start, List, LoadOne, Loaded, Reload, Crash
        <5>. QED
          BY <5>1 DEF loadRest
      <4>4. ASSUME NEW h \in Handlers, NEW op, NEW i, NEW s, Begin(h, op, i, s) PROVE UNCHANGED <<dbVars, ran>>
        BY <4>4, Zenon DEF Begin
      <4>5. ASSUME NEW g \in Slots, NEW i, Fire(g, i) PROVE UNCHANGED <<dbVars, ran>>
        BY <4>5, Zenon DEF Fire
      <4>6. Tick => UNCHANGED <<dbVars, ran>>
        BY Zenon DEF Tick
      <4>. QED
        BY <1>4, <4>1, <4>2, <4>3, <4>4, <4>5, <4>6, Zenon DEF Next
    <3>. QED
      BY <1>3, <1>4, <3>1 DEF dbVars
  <2>. QED
    BY <2>1, <2>2, <2>3
<1>5. RunsInv /\ [Next]_vars => [Apart]_vars /\ [Grows]_vars
  BY <1>4
<1>. HIDE DEF Apart, Grows
<1>6. Spec => [][Apart]_vars /\ [][Grows]_vars
  BY <1>5, RunsInvHolds, PTL DEF Spec
<1>. QED
  BY <1>6 DEF RunsInOrder, RunsApart, LastCountGrows, Apart, Grows

------------------------------------------------------------------------------
(* EnabledIsPlanned *)

(* What the schedules in memory can be relied on for: repeats whose delay is  *)
(* longer than a handler may take, and which are neither turned off nor on,   *)
(* in a channel that is not joined again; a process may crash, but no handler *)
(* fails and no process reloads while it runs.                                *)
Plannable ==
    /\ Processes # {}
    /\ CronIdents = {}
    /\ Faults \subseteq {"crash"}
    /\ Ops \subseteq {"chat", "use", "add", "delete"} \union Leaving
    /\ \A n \in Intervals : n > HandleTime

(* A repeat is planned, has a job, will be listed and planned, or has been    *)
(* left out as its channel was not authorized.                                *)
Planned(i) ==
    \/ \E p \in Processes :
          \/ phase[p] = "down"
          \/ loading[p] = "repeats"
          \/ \E e \in list[p] : e.id = i
          \/ plan[p][i] # NoItem
          \/ i \in unlisted[p]
    \/ \E g \in Slots : jpc[g] # "free" /\ work[g].id = i

(* A message that deletes the repeat, or leaves, is about to be committed.    *)
Undoes(h, i) ==
    hpc[h] # "idle" /\ ((cmd[h].id = i /\ newRow[h] = Deleted) \/ cmd[h].op \in Leaving)
Undoing(i) == \E h \in Handlers : Undoes(h, i)

(* The repeat has not been enabled yet.                                       *)
Absent(i) == ~IsOn(row[i]) /\ row[i] # Deleted
Adds(h, i) == hpc[h] # "idle" /\ cmd[h].id = i /\ IsOn(newRow[h])

(* A message on its way, within its deadline, in a process that is up.  What  *)
(* it has added starts no earlier than the message.                           *)
Follows(h) ==
    /\ phase[ProcOf[h]] = "up" /\ active
    /\ began[h] <= now /\ now <= began[h] + HandleTime
    /\ cmd[h].op \in Ops
    /\ cmd[h].op \in Leaving => hpc[h] \in {"wrote", "ready"} /\ newRow[h] = Never
    /\ cmd[h].op \notin Leaving => todo[h] \subseteq {cmd[h].id}
    /\ hpc[h] # "wrote" => todo[h] = {}
    /\ hpc[h] = "wrote" /\ cmd[h].op \notin Leaving => newRow[h] # Never
    /\ cmd[h].op = "add" => row[cmd[h].id] # Deleted
    /\ newRow[h] # Never =>
          \/ cmd[h].op = "delete" /\ newRow[h] = Deleted
          \/ /\ cmd[h].op = "add" /\ newRow[h] # Deleted /\ newRow[h].on
             /\ newRow[h].sched.start \in began[h] .. now

Followed == \A h \in Handlers : hpc[h] # "idle" => Follows(h)

(* Nobody has seen a repeat that is not enabled yet, except the process that  *)
(* is adding it, and there it does not fire before the handler's deadline.    *)
UnseenBy(i) ==
    /\ \A g \in Slots : jpc[g] # "free" => work[g].id # i
    /\ \A p \in Processes : \A e \in list[p] : e.id # i
    /\ \A p \in Processes : plan[p][i] # NoItem =>
          \E h \in Handlers : /\ ProcOf[h] = p /\ Adds(h, i)
                              /\ plan[p][i].deadline > began[h] + HandleTime
Unseen == \A i \in Idents : Absent(i) => UnseenBy(i)

Remembered ==
    \A h \in Handlers, i \in Idents :
        Adds(h, i) /\ i \notin todo[h] /\ Absent(i) => plan[ProcOf[h]][i] # NoItem

OnIsPlanned == \A i \in Idents : active /\ IsOn(row[i]) => Planned(i) \/ Undoing(i)

SeenIsActive == \A g \in Slots : jpc[g] \in {"info", "waiting"} /\ active => seen[g].active

ListIsDone ==
    \A p \in Processes :
        /\ loading[p] = "no" => list[p] = {}
        /\ phase[p] = "down" => loading[p] = "no"

PlannedInv ==
    /\ Followed /\ Unseen /\ Remembered /\ OnIsPlanned /\ SeenIsActive /\ ListIsDone

LEMMA DropsIt ==
    ASSUME PlanTypes, NEW p \in Processes, NEW i \in Idents, DropPlan(p, i)
    PROVE  \A q \in Processes, j \in Idents :
              plan'[q][j] = IF q = p /\ j = i THEN NoItem ELSE plan[q][j]
<1>. DEFINE All == (UNION {ItemsOf(j) : j \in Idents}) \union {NoItem}
<1>1. plan \in [Processes -> [Idents -> All]]
  BY DEF PlanTypes
<1>. HIDE DEF All
<1>. QED
  BY <1>1 DEF DropPlan

(* A repeat that has started is due at the end of an interval at the earliest. *)
LEMMA NextIsFar ==
    ASSUME NEW s \in [start : Nat, interval : Intervals], NEW t \in Nat, s.start <= t
    PROVE  RepeatNext(s, t) >= s.start + s.interval
<1>1. s.start \in Nat /\ s.interval \in Nat \ {0}
  BY ScheduleAssumption
<1>2. PICK a \in Nat : a = t - s.start
  BY <1>1
<1>3. PICK q \in Nat : q = a \div s.interval
  BY <1>1, <1>2, Division
<1>4. RepeatNext(s, t) = s.start + (q + 1) * s.interval
  BY <1>1, <1>2, <1>3 DEF RepeatNext, Quotient
<1>5. (q + 1) * s.interval = q * s.interval + s.interval /\ q * s.interval \in Nat
  BY <1>1, <1>3
<1>. QED
  BY <1>1, <1>4, <1>5

LEMMA PutsIt ==
    ASSUME Plannable, PlanTypes, now \in Nat, NEW p \in Processes, NEW i \in Idents,
           NEW s \in RowSchedules(i), PutPlan(p, i, s)
    PROVE  /\ s \in [start : Nat, interval : Intervals]
           /\ plan'[p][i] # NoItem /\ plan'[p][i].deadline = RepeatNext(s, now)
           /\ \A q \in Processes, j \in Idents : q # p \/ j # i => plan'[q][j] = plan[q][j]
<1>1. i \notin CronIdents /\ Deadlines(i, s, now) = {RepeatNext(s, now)}
  BY DEF Plannable, Deadlines
<1>2. PICK d \in Deadlines(i, s, now) :
         plan' = [plan EXCEPT ![p][i] = [id |-> i, sched |-> s, deadline |-> d]]
  BY <1>1 DEF PutPlan
<1>. DEFINE new == [id |-> i, sched |-> s, deadline |-> d]
<1>3. new \in ItemsOf(i)
  BY <1>1, <1>2, DeadlinesAreTimes DEF ItemsOf
<1>4. new # NoItem /\ new.deadline = RepeatNext(s, now)
  BY <1>1, <1>2, <1>3, RowsAreThere
<1>5. s \in [start : Nat, interval : Intervals]
  BY <1>1 DEF RowSchedules
<1>6. \A q \in Processes, j \in Idents : plan'[q][j] = IF q = p /\ j = i THEN new ELSE plan[q][j]
  <2>. DEFINE All == (UNION {ItemsOf(j) : j \in Idents}) \union {NoItem}
  <2>1. plan \in [Processes -> [Idents -> All]]
    BY DEF PlanTypes
  <2>. HIDE DEF All, new
  <2>2. plan' = [plan EXCEPT ![p][i] = new]
    BY <1>2 DEF new
  <2>. QED
    BY <2>1, <2>2
<1>. HIDE DEF new
<1>. QED
  BY <1>4, <1>5, <1>6

(* Only one message is handled at a time.                                     *)
LEMMA OneMessage ==
    ASSUME RunsInv, NEW h \in Handlers, NEW k \in Handlers, hpc[h] # "idle", hpc[k] # "idle"
    PROVE  h = k
BY DEF RunsInv, Handling, HandlerHolds

(* Time passes, jobs go on, and nothing that is enabled loses its job.        *)
LEMMA JobsAlone ==
    ASSUME RunsInv, PlannedInv, UNCHANGED <<memVars, hVars, active>>,
           now' \in Nat, now' >= now,
           \A h \in Handlers : hpc[h] # "idle" => now' <= began[h] + HandleTime,
           \A i \in Idents : /\ IsOn(row'[i]) <=> IsOn(row[i])
                             /\ row'[i] = Deleted <=> row[i] = Deleted,
           \A g \in Slots : jpc'[g] # "free" => jpc[g] # "free" /\ work'[g] = work[g],
           \A g \in Slots : jpc[g] # "free" /\ jpc'[g] = "free" =>
              ~(active /\ IsOn(row[work[g].id])),
           SeenIsActive'
    PROVE  PlannedInv'
<1>. UNCHANGED <<phase, loading, list, plan, unlisted, hpc, cmd, began, newRow, todo, active>>
  BY DEF memVars, hVars
<1>1. Followed'
  <2>. SUFFICES ASSUME NEW h \in Handlers, hpc[h] # "idle" PROVE Follows(h)'
    BY DEF Followed
  <2>1. Follows(h) /\ cmd[h].id \in Idents /\ began[h] \in Nat /\ now \in Nat
    BY DEF PlannedInv, Followed, RunsInv, Handling, HandlerHolds, Tables
  <2>. QED
    BY <2>1 DEF Follows
<1>2. Unseen'
  BY DEF PlannedInv, Unseen, Absent, UnseenBy, Adds
<1>3. Remembered'
  BY DEF PlannedInv, Remembered, Absent, Adds
<1>4. OnIsPlanned'
  <2>. SUFFICES ASSUME NEW i \in Idents, active, IsOn(row[i]) PROVE Planned(i)' \/ Undoing(i)'
    BY DEF OnIsPlanned
  <2>1. Planned(i) \/ Undoing(i)
    BY DEF PlannedInv, OnIsPlanned
  <2>2. CASE Undoing(i)
    BY <2>2 DEF Undoing, Undoes
  <2>3. CASE \E g \in Slots : jpc[g] # "free" /\ work[g].id = i
    <3>1. PICK g \in Slots : jpc[g] # "free" /\ work[g].id = i
      BY <2>3
    <3>2. jpc'[g] # "free" /\ work'[g] = work[g]
      BY <3>1
    <3>. QED
      BY <3>1, <3>2 DEF Planned
  <2>4. CASE \E p \in Processes : \/ phase[p] = "down"
                                  \/ loading[p] = "repeats"
                                  \/ \E e \in list[p] : e.id = i
                                  \/ plan[p][i] # NoItem
                                  \/ i \in unlisted[p]
    BY <2>4 DEF Planned
  <2>. QED
    BY <2>1, <2>2, <2>3, <2>4 DEF Planned
<1>5. ListIsDone'
  BY DEF PlannedInv, ListIsDone
<1>. QED
  BY <1>1, <1>2, <1>3, <1>4, <1>5 DEF PlannedInv

LEMMA TickPlans ==
    ASSUME RunsInv, PlannedInv, Tick \/ UNCHANGED vars
    PROVE  PlannedInv'
<1>. USE DEF RunsInv, Tables
<1>1. UNCHANGED <<memVars, hVars, jVars, dbVars>>
  BY DEF Tick, vars
<1>2. now' \in Nat /\ now' >= now
  BY DEF Tick, vars
<1>3. \A h \in Handlers : hpc[h] # "idle" => now' <= began[h] + HandleTime
  BY CommandAssumption DEF Tick, vars, PlannedInv, Followed, Follows, Handling
<1>4. UNCHANGED <<row, active, jpc, work, seen>>
  BY <1>1 DEF dbVars, jVars
<1>5. SeenIsActive'
  BY <1>4 DEF PlannedInv, SeenIsActive
<1>. QED
  BY <1>1, <1>2, <1>3, <1>4, <1>5, JobsAlone

(* A job that goes on, in or after its transaction.                           *)
LEMMA JobOnlyGoesOn ==
    ASSUME RunsInv, PlannedInv, NEW g \in Slots, jpc[g] # "free", jpc'[g] # "free",
           UNCHANGED <<now, memVars, hVars, active>>, \A k \in Slots : work'[k] = work[k],
           \A k \in Slots \ {g} : jpc'[k] = jpc[k] /\ seen'[k] = seen[k],
           \A i \in Idents : /\ IsOn(row'[i]) <=> IsOn(row[i])
                             /\ row'[i] = Deleted <=> row[i] = Deleted,
           jpc'[g] \in {"info", "waiting"} /\ active => seen'[g].active
    PROVE  PlannedInv'
<1>1. SeenIsActive'
  BY DEF PlannedInv, SeenIsActive
<1>2. now' \in Nat /\ now' >= now
  BY DEF RunsInv, Tables
<1>3. \A h \in Handlers : hpc[h] # "idle" => now' <= began[h] + HandleTime
  BY DEF PlannedInv, Followed, Follows
<1>. QED
  BY <1>1, <1>2, <1>3, JobsAlone

(* A job that ends, for good only if its repeat is not wanted.                *)
LEMMA ReturnPlans ==
    ASSUME RunsInv, PlannedInv, NEW g \in Slots, NEW again \in BOOLEAN, jpc[g] # "free",
           Return(g, again), UNCHANGED jobRest,
           again \/ ~(active /\ IsOn(row[work[g].id]))
    PROVE  PlannedInv'
<1>. DEFINE pc == IF again THEN "readding" ELSE "free"
<1>1. EndJobs({g}, pc) /\ UNCHANGED <<row, active, now, memVars, hVars>>
  BY DEF Return, jobRest, dbVars
<1>2. \A k \in Slots : /\ jpc'[k] = IF k = g THEN pc ELSE jpc[k]
                       /\ jpc'[k] # "free" => work'[k] = work[k]
                       /\ k # g => seen'[k] = seen[k]
  BY <1>1 DEF EndJobs
<1>3. SeenIsActive'
  BY <1>1, <1>2 DEF PlannedInv, SeenIsActive
<1>4. now' \in Nat /\ now' >= now
  BY <1>1 DEF RunsInv, Tables
<1>5. \A h \in Handlers : hpc[h] # "idle" => now' <= began[h] + HandleTime
  BY <1>1 DEF PlannedInv, Followed, Follows
<1>6. \A k \in Slots : jpc'[k] # "free" => jpc[k] # "free" /\ work'[k] = work[k]
  BY <1>2
<1>7. \A k \in Slots : jpc[k] # "free" /\ jpc'[k] = "free" => ~(active /\ IsOn(row[work[k].id]))
  BY <1>2
<1>. QED
  BY <1>1, <1>3, <1>4, <1>5, <1>6, <1>7, JobsAlone

LEMMA StatusPlans ==
    ASSUME RunsInv, PlannedInv, NEW g \in Slots, Status(g)
    PROVE  PlannedInv'
<1>. DEFINE st == status(work[g].id)
<1>1. jpc[g] = "started" /\ UNCHANGED jobRest
      /\ st.enabled = IsOn(row[work[g].id]) /\ st.active = active
  BY DEF Status, status, GetRepeatedCommandStatus, GetScheduledCommandStatus
<1>2. CASE ~(st.enabled /\ st.active) /\ Return(g, FALSE)
  BY <1>1, <1>2, ReturnPlans
<1>3. CASE Return(g, TRUE)
  BY <1>1, <1>3, ReturnPlans
<1>4. CASE jpc' = [jpc EXCEPT ![g] = "loading"]
           /\ UNCHANGED <<dbVars, lockVars, work, mine, seen, at>>
  <2>1. jpc'[g] = "loading" /\ \A k \in Slots \ {g} : jpc'[k] = jpc[k]
    BY <1>4 DEF RunsInv, Working
  <2>. QED
    BY <1>1, <1>4, <2>1, JobOnlyGoesOn DEF jobRest, dbVars
<1>. QED
  BY <1>2, <1>3, <1>4 DEF Status

LEMMA LoadPlans ==
    ASSUME RunsInv, PlannedInv, NEW g \in Slots, Load(g)
    PROVE  PlannedInv'
<1>. DEFINE i == work[g].id
<1>1. jpc[g] = "loading" /\ UNCHANGED jobRest
      /\ (load(i) = {} => ~IsOn(row[i]))
  BY DEF Load, load, GetRepeatedCommandForRun, GetScheduledCommandForRun
<1>2. CASE load(i) = {} /\ Return(g, FALSE)
  BY <1>1, <1>2, ReturnPlans
<1>3. CASE jpc' = [jpc EXCEPT ![g] = "loaded"]
           /\ UNCHANGED <<dbVars, adv, chan, infoLock, work, seen, at>>
  <2>1. jpc'[g] = "loaded" /\ \A k \in Slots \ {g} : jpc'[k] = jpc[k]
    BY <1>3 DEF RunsInv, Working
  <2>. QED
    BY <1>1, <1>3, <2>1, JobOnlyGoesOn DEF jobRest, dbVars
<1>. QED
  BY <1>2, <1>3 DEF Load

LEMMA RelationsPlan ==
    ASSUME RunsInv, PlannedInv, NEW g \in Slots, loadRelations(g)
    PROVE  PlannedInv'
<1>1. CASE ReadChannel(g)
  <2>1. jpc[g] = "loaded" /\ UNCHANGED <<jobRest, dbVars, work>>
    BY <1>1 DEF ReadChannel
  <2>2. jpc'[g] = "info" /\ \A k \in Slots \ {g} : jpc'[k] = jpc[k]
    BY <1>1 DEF ReadChannel, RunsInv, Working
  <2>3. seen'[g].active = active /\ \A k \in Slots \ {g} : seen'[k] = seen[k]
    BY <1>1 DEF ReadChannel, RunsInv, Working
  <2>. QED
    BY <2>1, <2>2, <2>3, JobOnlyGoesOn DEF jobRest, dbVars
<1>2. CASE LockInfo(g)
  <2>1. jpc[g] = "info" /\ UNCHANGED <<jobRest, dbVars, work, seen>>
    BY <1>2 DEF LockInfo
  <2>2. jpc'[g] = "waiting" /\ \A k \in Slots \ {g} : jpc'[k] = jpc[k]
    BY <1>2 DEF LockInfo, RunsInv, Working
  <2>3. active => seen'[g].active
    BY <2>1 DEF PlannedInv, SeenIsActive
  <2>. QED
    BY <2>1, <2>2, <2>3, JobOnlyGoesOn DEF jobRest, dbVars
<1>. QED
  BY <1>1, <1>2 DEF loadRelations

LEMMA LockChannelPlans ==
    ASSUME RunsInv, PlannedInv, NEW g \in Slots, LockChannel(g)
    PROVE  PlannedInv'
<1>1. jpc[g] = "waiting" /\ UNCHANGED jobRest
  BY DEF LockChannel
<1>2. active => found(g)
  BY <1>1 DEF found, PlannedInv, SeenIsActive, RunsInv, Working, JobHolds, Holding
<1>3. CASE ~found(g) /\ Return(g, FALSE)
  BY <1>1, <1>2, <1>3, ReturnPlans
<1>4. CASE Return(g, TRUE)
  BY <1>1, <1>4, ReturnPlans
<1>5. CASE jpc' = [jpc EXCEPT ![g] = "running"]
           /\ UNCHANGED <<dbVars, chan, rowLock, infoLock, work, mine, seen>>
  <2>1. jpc'[g] = "running" /\ \A k \in Slots \ {g} : jpc'[k] = jpc[k]
    BY <1>5 DEF RunsInv, Working
  <2>. QED
    BY <1>1, <1>5, <2>1, JobOnlyGoesOn DEF jobRest, dbVars
<1>. QED
  BY <1>3, <1>4, <1>5 DEF LockChannel

LEMMA JobCommitPlans ==
    ASSUME RunsInv, PlannedInv, NEW g \in Slots, JobCommit(g)
    PROVE  PlannedInv'
<1>. DEFINE i == work[g].id
            n == seen[g].count
<1>1. jpc[g] = "running" /\ UNCHANGED <<now, memVars, hVars, active>> /\ EndJobs({g}, "readding")
  BY DEF JobCommit
<1>2. /\ i \in Idents /\ row[i] \in Rows(i)
      /\ row' = [row EXCEPT ![i] = [row[i] EXCEPT !.last = n]] /\ n \in Nat
  BY JobCommitWrites
<1>. HIDE DEF i, n
<1>3. row'[i] = [row[i] EXCEPT !.last = n] /\ \A j \in Idents \ {i} : row'[j] = row[j]
  BY <1>2 DEF RunsInv, Tables
<1>4. row'[i] \in Rows(i) /\ row'[i].on = row[i].on
  BY <1>2, <1>3 DEF Rows
<1>5. IsOn(row'[i]) <=> IsOn(row[i])
  BY <1>2, <1>4, RowsAreThere DEF IsOn, Exists
<1>6. \A j \in Idents : /\ IsOn(row'[j]) <=> IsOn(row[j])
                        /\ row'[j] = Deleted <=> row[j] = Deleted
  BY <1>2, <1>3, <1>4, <1>5, RowsAreThere
<1>7. /\ jpc'[g] = "readding"
      /\ \A k \in Slots \ {g} : jpc'[k] = jpc[k] /\ seen'[k] = seen[k]
      /\ \A k \in Slots : work'[k] = work[k]
  BY <1>1 DEF EndJobs, RunsInv, Working
<1>. QED
  BY <1>1, <1>6, <1>7, JobOnlyGoesOn

LEMMA TimeOutPlans ==
    ASSUME RunsInv, PlannedInv, NEW g \in Slots, JobTimeOut(g)
    PROVE  PlannedInv'
BY ReturnPlans DEF JobTimeOut

(* A handler goes on, and what it may have told the repeater stays as it is.  *)
LEMMA HandlerAlone ==
    ASSUME RunsInv, PlannedInv, NEW h \in Handlers,
           UNCHANGED <<now, row, active, memVars, jVars>>,
           \A k \in Handlers \ {h} :
              /\ hpc'[k] = hpc[k] /\ cmd'[k] = cmd[k] /\ newRow'[k] = newRow[k]
              /\ began'[k] = began[k] /\ todo'[k] = todo[k],
           hpc'[h] # "idle" => Follows(h)',
           \A i \in Idents : Undoes(h, i) => Undoes(h, i)',
           \A i \in Idents : Adds(h, i) => Adds(h, i)' /\ began'[h] = began[h],
           \A i \in Idents : Adds(h, i)' /\ i \notin todo'[h] => Adds(h, i) /\ i \notin todo[h]
    PROVE  PlannedInv'
<1>. UNCHANGED <<phase, loading, list, plan, unlisted, jpc, work, seen>>
  BY DEF memVars, jVars
<1>1. Followed'
  <2>1. ASSUME NEW k \in Handlers \ {h}, hpc'[k] # "idle" PROVE Follows(k)'
    <3>1. Follows(k)
      BY <2>1 DEF PlannedInv, Followed
    <3>. QED
      BY <3>1 DEF Follows
  <2>. QED
    BY <2>1 DEF Followed
<1>2. Unseen'
  <2>. SUFFICES ASSUME NEW i \in Idents, Absent(i) PROVE UnseenBy(i)'
    BY DEF Unseen, Absent
  <2>1. UnseenBy(i)
    BY DEF PlannedInv, Unseen
  <2>2. ASSUME NEW p \in Processes, plan[p][i] # NoItem
        PROVE  \E k \in Handlers : /\ ProcOf[k] = p /\ Adds(k, i)'
                                   /\ plan[p][i].deadline > began'[k] + HandleTime
    <3>1. PICK k \in Handlers : /\ ProcOf[k] = p /\ Adds(k, i)
                                /\ plan[p][i].deadline > began[k] + HandleTime
      BY <2>1, <2>2 DEF UnseenBy
    <3>2. Adds(k, i)' /\ began'[k] = began[k]
      BY <3>1 DEF Adds
    <3>. QED
      BY <3>1, <3>2
  <2>. QED
    BY <2>1, <2>2 DEF UnseenBy
<1>3. Remembered'
  BY DEF PlannedInv, Remembered, Absent, Adds
<1>4. OnIsPlanned'
  <2>. SUFFICES ASSUME NEW i \in Idents, active, IsOn(row[i]) PROVE Planned(i)' \/ Undoing(i)'
    BY DEF OnIsPlanned
  <2>1. Planned(i) \/ Undoing(i)
    BY DEF PlannedInv, OnIsPlanned
  <2>2. Planned(i) => Planned(i)'
    BY DEF Planned
  <2>3. Undoing(i) => Undoing(i)'
    BY DEF Undoing, Undoes
  <2>. QED
    BY <2>1, <2>2, <2>3
<1>5. SeenIsActive' /\ ListIsDone'
  BY DEF PlannedInv, SeenIsActive, ListIsDone
<1>. QED
  BY <1>1, <1>2, <1>3, <1>4, <1>5 DEF PlannedInv

LEMMA BeginPlans ==
    ASSUME Plannable, RunsInv, PlannedInv, NEW h \in Handlers, NEW op \in Ops, NEW i \in Idents,
           NEW s, Begin(h, op, i, s)
    PROVE  PlannedInv'
<1>1. hpc[h] = "idle" /\ newRow[h] = Never /\ UNCHANGED <<now, row, active, memVars, jVars, newRow>>
  BY DEF Begin, RunsInv, Handling, HandlerHolds, dbVars
<1>2. /\ hpc'[h] = (CASE op = "chat" -> "ready"
                      [] op \in Managing \union Leaving -> "wrote"
                      [] OTHER -> "begun")
      /\ cmd'[h].op = op /\ cmd'[h].id = i /\ began'[h] = now
      /\ op \notin Managing \union Leaving => todo'[h] = {}
  BY DEF Begin, RunsInv, Handling
<1>3. \A k \in Handlers \ {h} :
         /\ hpc'[k] = hpc[k] /\ cmd'[k] = cmd[k] /\ newRow'[k] = newRow[k]
         /\ began'[k] = began[k] /\ todo'[k] = todo[k]
  BY DEF Begin, RunsInv, Handling
<1>4. op \in {"chat", "use", "add", "delete"} \union Leaving
  BY DEF Plannable
<1>5. hpc'[h] # "idle" => Follows(h)'
  <2>1. phase[ProcOf[h]] = "up" /\ active /\ (op = "add" => row[i] # Deleted)
    BY <1>4 DEF Begin, Leaving
  <2>2. now \in Nat /\ phase' = phase
    BY <1>1 DEF RunsInv, Tables, memVars
  <2>3. CASE op \in Leaving
    BY <1>1, <1>2, <2>1, <2>2, <2>3, CommandAssumption DEF Follows, Leaving
  <2>4. CASE op \notin Leaving
    <3>1. hpc'[h] \in {"ready", "begun"} /\ todo'[h] = {}
      BY <1>2, <1>4, <2>4 DEF Managing, Leaving
    <3>. QED
      BY <1>1, <1>2, <2>1, <2>2, <2>4, <3>1, CommandAssumption DEF Follows
  <2>. QED
    BY <2>3, <2>4
<1>6. \A j \in Idents : ~Undoes(h, j) /\ ~Adds(h, j) /\ ~Adds(h, j)'
  BY <1>1, RowsAreThere DEF Undoes, Adds
<1>. QED
  BY <1>1, <1>3, <1>5, <1>6, HandlerAlone

LEMMA LookupPlans ==
    ASSUME RunsInv, PlannedInv, NEW h \in Handlers, Lookup(h) \/ Refuse(h)
    PROVE  PlannedInv'
<1>1. hpc[h] \in {"begun", "found"} /\ UNCHANGED <<now, row, active, memVars, jVars>>
      /\ UNCHANGED <<cmd, began, newRow, todo>>
  BY DEF Lookup, Refuse, dbVars
<1>2. newRow[h] = Never /\ Follows(h)
  BY <1>1 DEF RunsInv, Handling, HandlerHolds, PlannedInv, Followed
<1>3. hpc'[h] \in {"found", "ready"} /\ \A k \in Handlers \ {h} : hpc'[k] = hpc[k]
  BY DEF Lookup, Refuse, RunsInv, Handling
<1>4. Follows(h)'
  BY <1>1, <1>2, <1>3 DEF Follows, memVars
<1>5. \A j \in Idents : ~Undoes(h, j) /\ ~Adds(h, j) /\ ~Adds(h, j)'
  BY <1>1, <1>2, RowsAreThere DEF Undoes, Adds, Follows
<1>. QED
  BY <1>1, <1>3, <1>4, <1>5, HandlerAlone

(* What a message writes here: a repeat that starts now, or none.             *)
LEMMA WrittenNow ==
    ASSUME Plannable, RunsInv, NEW c, c.id \in Idents, c.op \in {"add", "delete"},
           c.op = "add" => c.sched \in RowSchedules(c.id),
           NEW r \in Written(c)
    PROVE  \/ c.op = "delete" /\ r = Deleted
           \/ c.op = "add" /\ r # Deleted /\ r # Never /\ r.on /\ r.sched.start = now
<1>. DEFINE rows == GetRepeatedCommandByInfo(c.id)
<1>1. r \in cmdRepeat(c)
  BY DEF Written, Plannable
<1>2. CASE c.op = "delete"
  BY <1>1, <1>2 DEF cmdRepeat, cmdRepeatDelete, DeleteRepeatedCommand
<1>3. CASE c.op = "add"
  <2>1. r \in cmdRepeatAdd(c, rows)
    BY <1>1, <1>3 DEF cmdRepeat
  <2>2. c.sched \in [start : Nat, interval : Intervals] /\ now \in Nat
    BY <1>3 DEF RowSchedules, Plannable, RunsInv, Tables
  <2>3. r = InsertRepeatedCommand(c.sched) \/
        \E q \in rows : r = UpdateRepeatedCommand([q EXCEPT !.on = TRUE, !.sched = c.sched])
    BY <2>1, Zenon DEF cmdRepeatAdd
  <2>4. CASE r = InsertRepeatedCommand(c.sched)
    BY <1>3, <2>2, <2>4 DEF InsertRepeatedCommand, Never, Deleted
  <2>5. ASSUME NEW q \in rows, r = UpdateRepeatedCommand([q EXCEPT !.on = TRUE, !.sched = c.sched])
        PROVE  r # Deleted /\ r # Never /\ r.on /\ r.sched.start = now
    <3>1. q \in [on : BOOLEAN, last : Nat, sched : [start : Nat, interval : Intervals]]
      BY DEF GetRepeatedCommandByInfo, RunsInv, Tables, Rows, RowSchedules, Plannable
    <3>2. \A o \in [on : BOOLEAN, last : Nat, sched : [start : Nat, interval : Intervals]] :
             LET u == UpdateRepeatedCommand([o EXCEPT !.on = TRUE, !.sched = c.sched])
             IN  u.on /\ u.sched.start = now /\ u # Deleted /\ u # Never
      BY <2>2 DEF UpdateRepeatedCommand, Never, Deleted
    <3>. QED
      BY <2>5, <3>1, <3>2, Zenon
  <2>. QED
    BY <1>3, <2>3, <2>4, <2>5, Zenon
<1>. QED
  BY <1>2, <1>3

LEMMA WritePlans ==
    ASSUME Plannable, RunsInv, PlannedInv, NEW h \in Handlers, Write(h)
    PROVE  PlannedInv'
<1>. DEFINE i == cmd[h].id
<1>1. hpc[h] = "found" /\ UNCHANGED <<now, row, active, memVars, jVars, cmd, began>>
  BY DEF Write, dbVars
<1>2. /\ newRow[h] = Never /\ i \in Idents /\ Follows(h)
      /\ cmd[h].op = "add" => cmd[h].sched \in RowSchedules(i)
      /\ cmd[h].op \in Changing
  BY <1>1 DEF RunsInv, Handling, HandlerHolds, PlannedInv, Followed
<1>3. cmd[h].op \in {"add", "delete"} /\ cmd[h].op \notin Leaving
  BY <1>1, <1>2 DEF Follows, Plannable, Changing, Leaving
<1>4. \A j \in Idents : ~Undoes(h, j) /\ ~Adds(h, j)
  BY <1>2, <1>3, RowsAreThere DEF Undoes, Adds
<1>5. CASE hpc' = [hpc EXCEPT ![h] = "ready"] /\ UNCHANGED <<rowLock, newRow, todo>>
  <2>1. hpc'[h] = "ready" /\ \A k \in Handlers \ {h} : hpc'[k] = hpc[k]
    BY <1>5 DEF RunsInv, Handling
  <2>2. Follows(h)'
    BY <1>1, <1>2, <1>3, <1>5, <2>1 DEF Follows, memVars
  <2>3. \A j \in Idents : ~Adds(h, j)'
    BY <1>2, <1>5, RowsAreThere DEF Adds
  <2>. QED
    BY <1>1, <1>4, <1>5, <2>1, <2>2, <2>3, HandlerAlone
<1>6. ASSUME NEW r \in Written(cmd[h]),
             newRow' = [newRow EXCEPT ![h] = r], todo' = [todo EXCEPT ![h] = {i}],
             hpc' = [hpc EXCEPT ![h] = "wrote"]
      PROVE  PlannedInv'
  <2>1. /\ hpc'[h] = "wrote" /\ newRow'[h] = r /\ todo'[h] = {i}
        /\ \A k \in Handlers \ {h} : hpc'[k] = hpc[k] /\ newRow'[k] = newRow[k] /\ todo'[k] = todo[k]
    BY <1>6 DEF RunsInv, Handling
  <2>2. \/ cmd[h].op = "delete" /\ r = Deleted
        \/ cmd[h].op = "add" /\ r # Deleted /\ r # Never /\ r.on /\ r.sched.start = now
    BY <1>2, <1>3, WrittenNow
  <2>3. began[h] <= now /\ began[h] \in Nat /\ now \in Nat
    BY <1>2 DEF Follows, RunsInv, Handling, Tables
  <2>4. Follows(h)'
    <3>1. newRow'[h] # Never
      BY <2>1, <2>2, RowsAreThere
    <3>2. cmd[h].op = "add" => newRow'[h].sched.start \in began'[h] .. now'
      BY <1>1, <2>1, <2>2, <2>3
    <3>3. /\ phase'[ProcOf[h]] = "up" /\ active'
          /\ began'[h] <= now' /\ now' <= began'[h] + HandleTime
          /\ cmd'[h].op \in Ops /\ cmd'[h] = cmd[h]
          /\ cmd[h].op = "add" => row'[cmd[h].id] # Deleted
      BY <1>1, <1>2 DEF Follows, memVars
    <3>. QED
      BY <1>3, <2>1, <2>2, <3>1, <3>2, <3>3 DEF Follows
  <2>5. \A j \in Idents : ~(Adds(h, j)' /\ j \notin todo'[h])
    BY <1>1, <2>1 DEF Adds
  <2>. QED
    BY <1>1, <1>4, <2>1, <2>4, <2>5, HandlerAlone
<1>7. \/ hpc' = [hpc EXCEPT ![h] = "ready"] /\ UNCHANGED <<rowLock, newRow, todo>>
      \/ /\ \E r \in Written(cmd[h]) : newRow' = [newRow EXCEPT ![h] = r]
         /\ todo' = [todo EXCEPT ![h] = {i}]
         /\ hpc' = [hpc EXCEPT ![h] = "wrote"]
  BY Zenon DEF Write
<1>. QED
  BY <1>5, <1>6, <1>7

LEMMA HandlerTimeOutPlans ==
    ASSUME RunsInv, PlannedInv, NEW h \in Handlers, HandlerTimeOut(h)
    PROVE  PlannedInv'
<1>1. hpc[h] \in {"begun", "found"} /\ UNCHANGED <<now, row, active, memVars, jVars>>
      /\ EndHandling({h})
  BY DEF HandlerTimeOut, Abort, dbVars
<1>2. newRow[h] = Never /\ Follows(h)
  BY <1>1 DEF RunsInv, Handling, HandlerHolds, PlannedInv, Followed
<1>3. /\ hpc'[h] = "idle"
      /\ \A k \in Handlers \ {h} :
            /\ hpc'[k] = hpc[k] /\ cmd'[k] = cmd[k] /\ newRow'[k] = newRow[k]
            /\ began'[k] = began[k] /\ todo'[k] = todo[k]
  BY <1>1 DEF EndHandling
<1>4. \A j \in Idents : ~Undoes(h, j) /\ ~Adds(h, j) /\ ~Adds(h, j)'
  BY <1>1, <1>2, <1>3, RowsAreThere DEF Undoes, Adds, Follows
<1>. QED
  BY <1>1, <1>3, <1>4, HandlerAlone

------------------------------------------------------------------------------
(* The repeater is told *)

(* A message in the repeater's plan: what it adds is there from then on, and  *)
(* what it takes away is being undone.                                        *)
LEMMA RememberPlans ==
    ASSUME Plannable, RunsInv, PlannedInv, NEW h \in Handlers, Remember(h)
    PROVE  PlannedInv'
<1>1. /\ hpc[h] = "wrote" /\ Follows(h) /\ ProcOf[h] \in Processes
      /\ cmd[h].id \in Idents /\ todo[h] \subseteq Idents
  BY HandlersAreNoJobs DEF Remember, RunsInv, Handling, HandlerHolds, PlannedInv, Followed
<1>2. UNCHANGED <<now, row, active, phase, loading, list, jVars, cmd, began, newRow>>
  BY DEF Remember, dbVars
<1>3. CASE todo[h] = {} /\ hpc' = [hpc EXCEPT ![h] = "ready"] /\ UNCHANGED <<plan, unlisted, todo>>
  <2>1. hpc'[h] = "ready" /\ \A k \in Handlers \ {h} : hpc'[k] = hpc[k]
    BY <1>3 DEF RunsInv, Handling
  <2>2. Follows(h)'
    BY <1>1, <1>2, <1>3, <2>1 DEF Follows
  <2>3. \A i \in Idents : (Undoes(h, i) <=> Undoes(h, i)') /\ (Adds(h, i) <=> Adds(h, i)')
    BY <1>1, <1>2, <2>1 DEF Undoes, Adds
  <2>. QED
    BY <1>2, <1>3, <2>1, <2>2, <2>3, HandlerAlone DEF memVars
<1>4. ASSUME NEW i \in todo[h],
             updatePlan(ProcOf[h], i, Current(h, i), cmd[h].op \notin Leaving),
             unlisted' = [unlisted EXCEPT ![ProcOf[h]] = @ \ {i}],
             todo' = [todo EXCEPT ![h] = @ \ {i}], UNCHANGED hpc
      PROVE  PlannedInv'
  <2>. DEFINE p == ProcOf[h]
  <2>1. i \in Idents /\ i \notin CronIdents /\ PlanTypes /\ now \in Nat
    BY <1>1 DEF Plannable, RunsInv, Memory, PlanTypes, Tables
  <2>2. /\ todo'[h] = todo[h] \ {i}
        /\ \A k \in Handlers \ {h} : todo'[k] = todo[k]
        /\ \A q \in Processes, j \in Idents : j # i => (j \in unlisted[q] <=> j \in unlisted'[q])
    BY <1>4 DEF RunsInv, Handling, Memory
  <2>3. Followed'
    <3>1. Follows(h)'
      BY <1>1, <1>2, <1>4, <2>2 DEF Follows
    <3>2. ASSUME NEW k \in Handlers \ {h}, hpc'[k] # "idle" PROVE Follows(k)'
      <4>1. Follows(k)
        BY <1>4, <3>2 DEF PlannedInv, Followed
      <4>. QED
        BY <1>2, <1>4, <2>2, <4>1 DEF Follows
    <3>. QED
      BY <3>1, <3>2 DEF Followed
  <2>4. SeenIsActive' /\ ListIsDone'
    BY <1>2 DEF PlannedInv, SeenIsActive, ListIsDone, jVars
  <2>5. \A j \in Idents : Absent(j)' <=> Absent(j)
    BY <1>2 DEF Absent
  <2>6. \A k \in Handlers, j \in Idents : /\ Adds(k, j)' <=> Adds(k, j)
                                          /\ Undoes(k, j)' <=> Undoes(k, j)
    BY <1>2, <1>4 DEF Adds, Undoes
  <2>7. CASE cmd[h].op \notin Leaving /\ IsOn(Current(h, i))
    <3>1. /\ newRow[h] # Never /\ i = cmd[h].id /\ newRow[h] \in Rows(i)
          /\ Current(h, i) = newRow[h] /\ IsOn(newRow[h])
      BY <1>1, <2>7, RowsAreThere
         DEF Follows, Current, RunsInv, Handling, HandlerHolds
    <3>. DEFINE s == newRow[h].sched
    <3>2. /\ s \in RowSchedules(i) /\ s.start \in began[h] .. now
          /\ PutPlan(p, i, s)
      <4>1. newRow[h] # Deleted
        BY <3>1, RowsAreThere
      <4>2. s.start \in began[h] .. now
        BY <1>1, <3>1, <4>1 DEF Follows
      <4>3. PutPlan(p, i, s)
        BY <1>4, <2>1, <2>7, <3>1 DEF updatePlan, updateRepeating, addRepeat
      <4>4. s \in RowSchedules(i)
        BY <3>1 DEF Rows
      <4>. QED
        BY <4>2, <4>3, <4>4
    <3>3. PICK sch \in RowSchedules(i) : sch = s
      BY <3>2
    <3>4. /\ sch \in [start : Nat, interval : Intervals]
          /\ plan'[p][i] # NoItem /\ plan'[p][i].deadline = RepeatNext(sch, now)
          /\ \A q \in Processes, j \in Idents : q # p \/ j # i => plan'[q][j] = plan[q][j]
      BY <1>1, <2>1, <3>2, <3>3, PutsIt
    <3>5. plan'[p][i].deadline > began[h] + HandleTime
      <4>1. sch.start \in Nat /\ sch.interval \in Nat /\ sch.interval > HandleTime
            /\ HandleTime \in Nat
        BY <3>4, CommandAssumption, ScheduleAssumption DEF Plannable
      <4>2. began[h] \in Nat /\ sch.start \in began[h] .. now
        BY <3>2, <3>3 DEF RunsInv, Handling
      <4>3. sch.start >= began[h] /\ sch.start <= now
        BY <2>1, <4>1, <4>2
      <4>4. RepeatNext(sch, now) >= sch.start + sch.interval /\ RepeatNext(sch, now) \in Nat
        BY <2>1, <3>4, <4>3, NextIsFar, NextIsLater
      <4>. QED
        BY <3>4, <4>1, <4>2, <4>3, <4>4
    <3>6. Adds(h, i)
      BY <1>1, <3>1 DEF Adds
    <3>7. Unseen'
      <4>. SUFFICES ASSUME NEW j \in Idents, Absent(j) PROVE UnseenBy(j)'
        BY <2>5 DEF Unseen
      <4>1. UnseenBy(j)
        BY DEF PlannedInv, Unseen
      <4>2. ASSUME NEW q \in Processes, plan'[q][j] # NoItem
            PROVE  \E k \in Handlers : /\ ProcOf[k] = q /\ Adds(k, j)'
                                       /\ plan'[q][j].deadline > began'[k] + HandleTime
        <5>1. CASE q = p /\ j = i
          BY <1>2, <2>6, <3>5, <3>6, <5>1
        <5>2. CASE ~(q = p /\ j = i)
          <6>1. plan'[q][j] = plan[q][j]
            BY <3>4, <5>2
          <6>. QED
            BY <1>2, <2>6, <4>1, <4>2, <6>1 DEF UnseenBy
        <5>. QED
          BY <5>1, <5>2
      <4>. QED
        BY <1>2, <4>1, <4>2 DEF UnseenBy, jVars
    <3>8. Remembered'
      <4>. SUFFICES ASSUME NEW k \in Handlers, NEW j \in Idents,
                           Adds(k, j), j \notin todo'[k], Absent(j)
                    PROVE  plan'[ProcOf[k]][j] # NoItem
        BY <2>5, <2>6 DEF Remembered
      <4>1. k = h /\ j = i
        BY <1>1, <3>1, OneMessage DEF Adds
      <4>. QED
        BY <3>4, <4>1
    <3>9. OnIsPlanned'
      <4>. SUFFICES ASSUME NEW j \in Idents, active, IsOn(row[j]) PROVE Planned(j)' \/ Undoing(j)'
        BY <1>2 DEF OnIsPlanned
      <4>1. Planned(j) \/ Undoing(j)
        BY DEF PlannedInv, OnIsPlanned
      <4>2. \A q \in Processes : plan[q][j] # NoItem => plan'[q][j] # NoItem
        BY <3>4
      <4>3. CASE j = i
        BY <1>1, <3>4, <4>3 DEF Planned
      <4>4. CASE j # i
        <5>1. Planned(j) => Planned(j)'
          BY <1>2, <2>2, <4>2, <4>4 DEF Planned, jVars
        <5>2. Undoing(j) => Undoing(j)'
          BY <2>6 DEF Undoing
        <5>. QED
          BY <4>1, <5>1, <5>2
      <4>. QED
        BY <4>3, <4>4
    <3>. QED
      BY <2>3, <2>4, <3>7, <3>8, <3>9 DEF PlannedInv
  <2>8. CASE ~(cmd[h].op \notin Leaving /\ IsOn(Current(h, i)))
    <3>1. DropPlan(p, i)
      BY <1>4, <2>1, <2>8 DEF updatePlan, updateRepeating, removeRepeat
    <3>2. \A q \in Processes, j \in Idents :
             plan'[q][j] = IF q = p /\ j = i THEN NoItem ELSE plan[q][j]
      BY <1>1, <2>1, <3>1, DropsIt
    <3>3. Undoes(h, i) /\ \A j \in Idents : ~Adds(h, j)
      <4>1. CASE cmd[h].op \in Leaving
        BY <1>1, <4>1, RowsAreThere DEF Undoes, Adds, Follows
      <4>2. CASE cmd[h].op \notin Leaving
        <5>1. newRow[h] # Never /\ i = cmd[h].id /\ ~IsOn(newRow[h])
          BY <1>1, <2>8, <4>2 DEF Follows, Current
        <5>2. newRow[h] = Deleted
          BY <1>1, <5>1 DEF Follows, IsOn, Exists
        <5>. QED
          BY <1>1, <5>1, <5>2 DEF Undoes, Adds
      <4>. QED
        BY <4>1, <4>2
    <3>4. Unseen'
      <4>. SUFFICES ASSUME NEW j \in Idents, Absent(j) PROVE UnseenBy(j)'
        BY <2>5 DEF Unseen
      <4>1. UnseenBy(j)
        BY DEF PlannedInv, Unseen
      <4>2. ASSUME NEW q \in Processes, plan'[q][j] # NoItem
            PROVE  \E k \in Handlers : /\ ProcOf[k] = q /\ Adds(k, j)'
                                       /\ plan'[q][j].deadline > began'[k] + HandleTime
        <5>1. plan'[q][j] = plan[q][j]
          BY <3>2, <4>2
        <5>. QED
          BY <1>2, <2>6, <4>1, <4>2, <5>1 DEF UnseenBy
      <4>. QED
        BY <1>2, <4>1, <4>2 DEF UnseenBy, jVars
    <3>5. Remembered'
      <4>. SUFFICES ASSUME NEW k \in Handlers, NEW j \in Idents, Adds(k, j) PROVE FALSE
        BY <2>6 DEF Remembered
      <4>1. k = h
        BY <1>1, OneMessage DEF Adds
      <4>. QED
        BY <3>3, <4>1
    <3>6. OnIsPlanned'
      <4>. SUFFICES ASSUME NEW j \in Idents, active, IsOn(row[j]) PROVE Planned(j)' \/ Undoing(j)'
        BY <1>2 DEF OnIsPlanned
      <4>1. Planned(j) \/ Undoing(j)
        BY DEF PlannedInv, OnIsPlanned
      <4>2. CASE j = i
        BY <2>6, <3>3, <4>2 DEF Undoing
      <4>3. CASE j # i
        <5>1. \A q \in Processes : plan'[q][j] = plan[q][j]
          BY <3>2, <4>3
        <5>2. Planned(j) => Planned(j)'
          BY <1>2, <2>2, <4>3, <5>1 DEF Planned, jVars
        <5>3. Undoing(j) => Undoing(j)'
          BY <2>6 DEF Undoing
        <5>. QED
          BY <4>1, <5>2, <5>3
      <4>. QED
        BY <4>2, <4>3
    <3>. QED
      BY <2>3, <2>4, <3>4, <3>5, <3>6 DEF PlannedInv
  <2>. QED
    BY <2>7, <2>8
<1>5. \/ \E i \in todo[h] : /\ updatePlan(ProcOf[h], i, Current(h, i), cmd[h].op \notin Leaving)
                            /\ unlisted' = [unlisted EXCEPT ![ProcOf[h]] = @ \ {i}]
                            /\ todo' = [todo EXCEPT ![h] = @ \ {i}]
                            /\ UNCHANGED hpc
      \/ todo[h] = {} /\ hpc' = [hpc EXCEPT ![h] = "ready"] /\ UNCHANGED <<plan, unlisted, todo>>
  BY Zenon DEF Remember
<1>. QED
  BY <1>3, <1>4, <1>5

(* The commit makes what was added, deleted or left visible.                  *)
LEMMA CommitPlans ==
    ASSUME Plannable, RunsInv, PlannedInv, NEW h \in Handlers, Commit(h)
    PROVE  PlannedInv'
<1>1. /\ hpc[h] = "ready" /\ Follows(h) /\ todo[h] = {} /\ cmd[h].id \in Idents
      /\ ProcOf[h] \in Processes
  BY HandlersAreNoJobs DEF Commit, RunsInv, Handling, HandlerHolds, PlannedInv, Followed, Follows
<1>2. /\ UNCHANGED <<now, phase, loading, list, plan, unlisted, jpc, work, seen>>
      /\ active' = (cmd[h].op \notin Leaving)
      /\ \A i \in Idents : row'[i] = Current(h, i)
  BY DEF Commit, memVars, jVars
<1>3. \A k \in Handlers : hpc'[k] = "idle"
  <2>1. ASSUME NEW k \in Handlers, k # h PROVE hpc[k] = "idle"
    BY <1>1, <2>1, OneMessage
  <2>. QED
    BY <2>1 DEF Commit, EndHandling
<1>4. Followed' /\ Remembered'
  BY <1>3 DEF Followed, Remembered, Adds
<1>5. SeenIsActive' /\ ListIsDone'
  BY <1>1, <1>2 DEF PlannedInv, SeenIsActive, ListIsDone, Follows
<1>6. Unseen'
  <2>. SUFFICES ASSUME NEW i \in Idents, Absent(i)' PROVE UnseenBy(i)'
    BY DEF Unseen
  <2>1. row'[i] = row[i]
    <3>1. row'[i] # row[i] => newRow[h] # Never /\ row'[i] = newRow[h]
      BY <1>2 DEF Current
    <3>. QED
      BY <1>1, <3>1 DEF Absent, Follows, IsOn, Exists
  <2>2. UnseenBy(i)
    BY <2>1 DEF PlannedInv, Unseen, Absent
  <2>3. \A p \in Processes : plan[p][i] = NoItem
    <3>. SUFFICES ASSUME NEW p \in Processes, plan[p][i] # NoItem PROVE FALSE
      OBVIOUS
    <3>1. PICK k \in Handlers : Adds(k, i)
      BY <2>2 DEF UnseenBy
    <3>2. k = h /\ IsOn(newRow[h]) /\ cmd[h].id = i
      BY <1>1, <3>1, OneMessage DEF Adds
    <3>3. row'[i] = newRow[h]
      BY <1>2, <3>2, RowsAreThere DEF Current
    <3>. QED
      BY <3>2, <3>3 DEF Absent
  <2>. QED
    BY <1>2, <2>2, <2>3 DEF UnseenBy
<1>7. OnIsPlanned'
  <2>. SUFFICES ASSUME NEW i \in Idents, active', IsOn(row'[i]) PROVE Planned(i)'
    BY DEF OnIsPlanned
  <2>1. cmd[h].op \notin Leaving /\ active
    BY <1>1, <1>2 DEF Follows
  <2>2. Planned(i)
    <3>1. CASE IsOn(row[i])
      <4>1. ~Undoing(i)
        <5>. SUFFICES ASSUME NEW k \in Handlers, Undoes(k, i) PROVE FALSE
          BY DEF Undoing
        <5>1. k = h
          BY <1>1, OneMessage DEF Undoes
        <5>2. cmd[h].id = i /\ newRow[h] = Deleted
          BY <2>1, <5>1 DEF Undoes
        <5>3. row'[i] = Deleted
          BY <1>2, <5>2, RowsAreThere DEF Current
        <5>. QED
          BY <5>3, RowsAreThere
      <4>. QED
        BY <2>1, <3>1, <4>1 DEF PlannedInv, OnIsPlanned
    <3>2. CASE ~IsOn(row[i])
      <4>1. newRow[h] # Never /\ cmd[h].id = i /\ IsOn(newRow[h])
        BY <1>2, <3>2 DEF Current
      <4>2. Adds(h, i) /\ i \notin todo[h]
        BY <1>1, <4>1 DEF Adds
      <4>3. newRow[h] # Deleted
        BY <4>1, RowsAreThere
      <4>4. row[i] # Deleted
        BY <1>1, <4>1, <4>3 DEF Follows
      <4>5. plan[ProcOf[h]][i] # NoItem
        BY <3>2, <4>2, <4>4 DEF PlannedInv, Remembered, Absent
      <4>. QED
        BY <1>1, <4>5 DEF Planned
    <3>. QED
      BY <3>1, <3>2
  <2>. QED
    BY <1>2, <2>2 DEF Planned
<1>. QED
  BY <1>4, <1>5, <1>6, <1>7 DEF PlannedInv

(* Messages on their way are as they were, if their processes stay up.        *)
LEMMA FollowedStays ==
    ASSUME PlannedInv, UNCHANGED <<now, row, active, hVars>>,
           \A h \in Handlers : phase[ProcOf[h]] = "up" => phase'[ProcOf[h]] = "up"
    PROVE  Followed'
BY DEF PlannedInv, Followed, Follows, hVars

(* A repeat that is not enabled yet is not due.                               *)
LEMMA FirePlans ==
    ASSUME RunsInv, PlannedInv, NEW g \in Slots, NEW i \in Idents, Fire(g, i)
    PROVE  PlannedInv'
<1>. DEFINE p == ProcOf[g]
<1>1. /\ UNCHANGED <<now, row, active, phase, loading, list, unlisted, hVars, seen>> /\ jpc[g] = "free"
      /\ plan[p][i] # NoItem /\ plan[p][i].deadline <= now
      /\ p \in Processes /\ PlanTypes /\ DropPlan(p, i)
  BY HandlersAreNoJobs DEF Fire, Due, dbVars, RunsInv, Memory, PlanTypes
<1>2. \A q \in Processes, j \in Idents : plan'[q][j] = IF q = p /\ j = i THEN NoItem ELSE plan[q][j]
  BY <1>1, DropsIt
<1>3. /\ jpc'[g] = "started" /\ work'[g].id = i
      /\ \A k \in Slots \ {g} : jpc'[k] = jpc[k] /\ work'[k] = work[k]
  BY DEF Fire, RunsInv, Working
<1>4. ~Absent(i)
  <2>. SUFFICES ASSUME Absent(i) PROVE FALSE
    OBVIOUS
  <2>1. PICK h \in Handlers : Adds(h, i) /\ plan[p][i].deadline > began[h] + HandleTime
    BY <1>1 DEF PlannedInv, Unseen, UnseenBy
  <2>2. now <= began[h] + HandleTime
    BY <2>1 DEF Adds, PlannedInv, Followed, Follows
  <2>3. plan[p][i].deadline \in Nat /\ now \in Nat /\ began[h] \in Nat /\ HandleTime \in Nat
    BY <1>1, CommandAssumption DEF PlanTypes, ItemsOf, RunsInv, Tables, Handling
  <2>. QED
    BY <1>1, <2>1, <2>2, <2>3
<1>5. Followed'
  BY <1>1, FollowedStays
<1>6. Unseen'
  <2>. SUFFICES ASSUME NEW j \in Idents, Absent(j) PROVE UnseenBy(j)'
    BY <1>1 DEF Unseen, Absent
  <2>1. UnseenBy(j) /\ j # i
    BY <1>4 DEF PlannedInv, Unseen
  <2>2. \A q \in Processes : plan'[q][j] = plan[q][j]
    BY <1>2, <2>1
  <2>3. \A k \in Slots : jpc'[k] # "free" => work'[k].id # j
    BY <1>3, <2>1 DEF UnseenBy
  <2>. QED
    BY <1>1, <2>1, <2>2, <2>3 DEF UnseenBy, Adds, hVars
<1>7. Remembered'
  <2>. SUFFICES ASSUME NEW k \in Handlers, NEW j \in Idents, Adds(k, j), j \notin todo[k], Absent(j)
                PROVE  plan'[ProcOf[k]][j] # NoItem
    BY <1>1 DEF Remembered, Adds, Absent, hVars
  <2>1. plan[ProcOf[k]][j] # NoItem /\ j # i /\ ProcOf[k] \in Processes
    BY <1>4, HandlersAreNoJobs DEF PlannedInv, Remembered
  <2>. QED
    BY <1>2, <2>1
<1>8. OnIsPlanned'
  <2>. SUFFICES ASSUME NEW j \in Idents, active, IsOn(row[j]) PROVE Planned(j)' \/ Undoing(j)'
    BY <1>1 DEF OnIsPlanned
  <2>1. Planned(j) \/ Undoing(j)
    BY DEF PlannedInv, OnIsPlanned
  <2>2. CASE j = i
    BY <1>3, <2>2 DEF Planned
  <2>3. CASE j # i
    <3>1. \A q \in Processes : plan'[q][j] = plan[q][j]
      BY <1>2, <2>3
    <3>2. \A k \in Slots : jpc[k] # "free" => jpc'[k] = jpc[k] /\ work'[k] = work[k]
      BY <1>1, <1>3
    <3>3. Planned(j) => Planned(j)'
      BY <1>1, <3>1, <3>2 DEF Planned
    <3>4. Undoing(j) => Undoing(j)'
      BY <1>1 DEF Undoing, Undoes, hVars
    <3>. QED
      BY <2>1, <3>3, <3>4
  <2>. QED
    BY <2>2, <2>3
<1>9. SeenIsActive' /\ ListIsDone'
  BY <1>1, <1>3 DEF PlannedInv, SeenIsActive, ListIsDone
<1>. QED
  BY <1>5, <1>6, <1>7, <1>8, <1>9 DEF PlannedInv

(* A repeat that has been enabled is planned, by a goroutine that ran it or   *)
(* by loadRepeats, and nothing else loses its place.                          *)
LEMMA PlanningKeeps ==
    ASSUME Plannable, RunsInv, PlannedInv, NEW p \in Processes, NEW i \in Idents, ~Absent(i),
           NEW s \in RowSchedules(i), PutPlan(p, i, s),
           UNCHANGED <<now, row, active, phase, loading, unlisted, hVars>>,
           \A q \in Processes : /\ list'[q] \subseteq list[q]
                                /\ \A e \in list[q] : e \in list'[q] \/ e.id = i,
           \A k \in Slots : /\ jpc'[k] = jpc[k] \/ (jpc'[k] = "free" /\ work[k].id = i)
                            /\ jpc'[k] # "free" => work'[k] = work[k] /\ seen'[k] = seen[k]
    PROVE  PlannedInv'
<1>1. PlanTypes /\ now \in Nat
  BY DEF RunsInv, Memory, PlanTypes, Tables
<1>2. /\ plan'[p][i] # NoItem
      /\ \A q \in Processes, j \in Idents : q # p \/ j # i => plan'[q][j] = plan[q][j]
  BY <1>1, PutsIt
<1>3. Followed'
  BY FollowedStays
<1>4. Unseen'
  <2>. SUFFICES ASSUME NEW j \in Idents, Absent(j) PROVE UnseenBy(j)'
    BY DEF Unseen, Absent
  <2>1. UnseenBy(j) /\ j # i
    BY DEF PlannedInv, Unseen
  <2>2. \A q \in Processes : plan'[q][j] = plan[q][j]
    BY <1>2, <2>1
  <2>3. \A k \in Slots : jpc'[k] # "free" => work'[k].id # j
    BY <2>1 DEF UnseenBy
  <2>. QED
    BY <2>1, <2>2, <2>3 DEF UnseenBy, Adds, hVars
<1>5. Remembered'
  <2>. SUFFICES ASSUME NEW k \in Handlers, NEW j \in Idents, Adds(k, j), j \notin todo[k], Absent(j)
                PROVE  plan'[ProcOf[k]][j] # NoItem
    BY DEF Remembered, Adds, Absent, hVars
  <2>1. plan[ProcOf[k]][j] # NoItem /\ j # i /\ ProcOf[k] \in Processes
    BY HandlersAreNoJobs DEF PlannedInv, Remembered
  <2>. QED
    BY <1>2, <2>1
<1>6. OnIsPlanned'
  <2>. SUFFICES ASSUME NEW j \in Idents, active, IsOn(row[j]) PROVE Planned(j)' \/ Undoing(j)'
    BY DEF OnIsPlanned
  <2>1. Planned(j) \/ Undoing(j)
    BY DEF PlannedInv, OnIsPlanned
  <2>2. CASE j = i
    BY <1>2, <2>2 DEF Planned
  <2>3. CASE j # i
    <3>1. \A q \in Processes : plan'[q][j] = plan[q][j]
      BY <1>2, <2>3
    <3>2. \A k \in Slots : jpc[k] # "free" /\ work[k].id = j => jpc'[k] # "free" /\ work'[k].id = j
      BY <2>3
    <3>3. \A q \in Processes : \A e \in list[q] : e.id = j => e \in list'[q]
      BY <2>3
    <3>4. Planned(j) => Planned(j)'
      BY <3>1, <3>2, <3>3 DEF Planned
    <3>5. Undoing(j) => Undoing(j)'
      BY DEF Undoing, Undoes, hVars
    <3>. QED
      BY <2>1, <3>4, <3>5
  <2>. QED
    BY <2>2, <2>3
<1>7. SeenIsActive' /\ ListIsDone'
  BY DEF PlannedInv, SeenIsActive, ListIsDone
<1>. QED
  BY <1>3, <1>4, <1>5, <1>6, <1>7 DEF PlannedInv

LEMMA ReAddPlans ==
    ASSUME Plannable, RunsInv, PlannedInv, NEW g \in Slots, ReAdd(g)
    PROVE  PlannedInv'
<1>. DEFINE i == work[g].id
            s == work[g].sched
<1>1. /\ jpc[g] = "readding" /\ ProcOf[g] \in Processes
      /\ PutPlan(ProcOf[g], i, s) /\ EndJobs({g}, "free")
      /\ UNCHANGED <<now, row, active, phase, loading, list, unlisted, hVars>>
  BY HandlersAreNoJobs DEF ReAdd, dbVars
<1>2. i \in Idents /\ s \in RowSchedules(i)
  BY <1>1 DEF RunsInv, Working, JobHolds, JobsOf
<1>3. ~Absent(i)
  BY <1>1, <1>2 DEF PlannedInv, Unseen, UnseenBy
<1>4. \A k \in Slots : /\ jpc'[k] = jpc[k] \/ (jpc'[k] = "free" /\ work[k].id = i)
                       /\ jpc'[k] # "free" => work'[k] = work[k] /\ seen'[k] = seen[k]
  BY <1>1 DEF EndJobs
<1>5. \A q \in Processes : /\ list'[q] \subseteq list[q]
                           /\ \A e \in list[q] : e \in list'[q] \/ e.id = i
  BY <1>1
<1>. HIDE DEF i, s
<1>. QED
  BY <1>1, <1>2, <1>3, <1>4, <1>5, PlanningKeeps

LEMMA LoadOnePlans ==
    ASSUME Plannable, RunsInv, PlannedInv, NEW p \in Processes, LoadOne(p)
    PROVE  PlannedInv'
<1>1. PICK e \in list[p] : PutPlan(p, e.id, e.sched) /\ list' = [list EXCEPT ![p] = @ \ {e}]
  BY DEF LoadOne
<1>2. UNCHANGED <<now, row, active, phase, loading, unlisted, hVars, jpc, work, seen>>
  BY DEF LoadOne, loadRest, dbVars, jVars
<1>3. e.id \in Idents /\ e.sched \in RowSchedules(e.id)
  BY <1>1 DEF RunsInv, Memory, JobsOf
<1>4. ~Absent(e.id)
  BY <1>1, <1>3 DEF PlannedInv, Unseen, UnseenBy
<1>5. \A q \in Processes : /\ list'[q] \subseteq list[q]
                           /\ \A f \in list[q] : f \in list'[q] \/ f.id = e.id
  BY <1>1 DEF RunsInv, Memory
<1>6. \A k \in Slots : /\ jpc'[k] = jpc[k] \/ (jpc'[k] = "free" /\ work[k].id = e.id)
                       /\ jpc'[k] # "free" => work'[k] = work[k] /\ seen'[k] = seen[k]
  BY <1>2
<1>. QED
  BY <1>1, <1>2, <1>3, <1>4, <1>5, <1>6, PlanningKeeps

(* A process that starts will list what is enabled.                           *)
LEMMA StartPlans ==
    ASSUME RunsInv, PlannedInv, NEW p \in Processes, Start(p)
    PROVE  PlannedInv'
<1>1. /\ phase[p] = "down" /\ UNCHANGED <<now, row, active, hVars, jpc, work, seen>>
      /\ phase' = [phase EXCEPT ![p] = "starting"] /\ plan' = [plan EXCEPT ![p] = NoPlan]
      /\ loading' = [loading EXCEPT ![p] = "repeats"] /\ list' = [list EXCEPT ![p] = {}]
  BY DEF Start, Reset, loadRest, dbVars, jVars
<1>2. /\ phase'[p] = "starting" /\ loading'[p] = "repeats" /\ list'[p] = {}
      /\ \A j \in Idents : plan'[p][j] = NoItem
      /\ \A q \in Processes \ {p} : /\ phase'[q] = phase[q] /\ plan'[q] = plan[q]
                                    /\ loading'[q] = loading[q] /\ list'[q] = list[q]
  BY <1>1 DEF RunsInv, Memory, NoPlan
<1>3. Followed'
  BY <1>1, <1>2, HandlersAreNoJobs, FollowedStays
<1>4. Unseen'
  <2>. SUFFICES ASSUME NEW j \in Idents, Absent(j) PROVE UnseenBy(j)'
    BY <1>1 DEF Unseen, Absent
  <2>1. UnseenBy(j)
    BY DEF PlannedInv, Unseen
  <2>. QED
    BY <1>1, <1>2, <2>1 DEF UnseenBy, Adds, hVars
<1>5. Remembered'
  <2>. SUFFICES ASSUME NEW k \in Handlers, NEW j \in Idents, Adds(k, j), j \notin todo[k], Absent(j)
                PROVE  plan'[ProcOf[k]][j] # NoItem
    BY <1>1 DEF Remembered, Adds, Absent, hVars
  <2>1. plan[ProcOf[k]][j] # NoItem /\ ProcOf[k] \in Processes /\ ProcOf[k] # p
    BY <1>1, HandlersAreNoJobs DEF PlannedInv, Remembered, Followed, Follows, Adds
  <2>. QED
    BY <1>2, <2>1
<1>6. OnIsPlanned'
  BY <1>2 DEF OnIsPlanned, Planned
<1>7. SeenIsActive' /\ ListIsDone'
  BY <1>1, <1>2 DEF PlannedInv, SeenIsActive, ListIsDone
<1>. QED
  BY <1>3, <1>4, <1>5, <1>6, <1>7 DEF PlannedInv

(* It lists what is enabled when it does.                                     *)
LEMMA ListPlans ==
    ASSUME Plannable, RunsInv, PlannedInv, NEW p \in Processes, List(p)
    PROVE  PlannedInv'
<1>0. PICK authorized \in BOOLEAN :
          /\ list' = [list EXCEPT ![p] = {[id |-> i, sched |-> row[i].sched] : i \in ListActive(p, authorized)}]
          /\ unlisted' = [unlisted EXCEPT ![p] = @ \union (ListActive(p, TRUE) \ ListActive(p, authorized))]
  BY DEF List
<1>. DEFINE listed == ListActive(p, authorized)
<1>1. /\ loading[p] \in {"repeats", "crons"} /\ list[p] = {}
      /\ UNCHANGED <<now, row, active, phase, plan, hVars, jpc, work, seen>>
      /\ list' = [list EXCEPT ![p] = {[id |-> i, sched |-> row[i].sched] : i \in listed}]
      /\ loading' = [loading EXCEPT ![p] = IF @ = "repeats" THEN "crons" ELSE "last"]
  BY <1>0 DEF List, loadRest, dbVars, jVars
<1>2. /\ list'[p] = {[id |-> i, sched |-> row[i].sched] : i \in listed}
      /\ loading'[p] = (IF loading[p] = "repeats" THEN "crons" ELSE "last")
      /\ \A q \in Processes \ {p} : loading'[q] = loading[q] /\ list'[q] = list[q]
      /\ unlisted'[p] = unlisted[p] \union (ListActive(p, TRUE) \ ListActive(p, authorized))
      /\ \A q \in Processes : unlisted[q] \subseteq unlisted'[q]
  BY <1>0, <1>1 DEF RunsInv, Memory
<1>3. \A i \in listed : i \in Idents /\ IsOn(row[i])
  BY DEF ListActive, ListActiveRepeatedCommands, ListActiveScheduledCommands, Active, Plannable
<1>4. Followed'
  BY <1>1, FollowedStays
<1>5. Unseen'
  <2>. SUFFICES ASSUME NEW j \in Idents, Absent(j) PROVE UnseenBy(j)'
    BY <1>1 DEF Unseen, Absent
  <2>1. UnseenBy(j)
    BY DEF PlannedInv, Unseen
  <2>2. j \notin listed
    BY <1>3 DEF Absent
  <2>. HIDE DEF listed
  <2>3. \A e \in list'[p] : e.id # j
    BY <1>2, <2>2
  <2>4. \A q \in Processes : \A e \in list'[q] : e.id # j
    BY <1>2, <2>1, <2>3 DEF UnseenBy
  <2>. QED
    BY <1>1, <2>1, <2>4 DEF UnseenBy, Adds, hVars
<1>6. Remembered'
  BY <1>1 DEF PlannedInv, Remembered, Adds, Absent, hVars
<1>7. OnIsPlanned'
  <2>. SUFFICES ASSUME NEW j \in Idents, active, IsOn(row[j]) PROVE Planned(j)' \/ Undoing(j)'
    BY <1>1 DEF OnIsPlanned
  <2>1. Planned(j) \/ Undoing(j)
    BY DEF PlannedInv, OnIsPlanned
  <2>2. CASE loading[p] = "repeats"
    <3>1. j \in ListActive(p, TRUE)
      BY <2>2 DEF ListActive, ListActiveRepeatedCommands, Active, Plannable
    <3>2. CASE j \in listed
      <4>. HIDE DEF listed
      <4>1. [id |-> j, sched |-> row[j].sched] \in list'[p]
        BY <1>2, <3>2
      <4>2. \E e \in list'[p] : e.id = j
        BY <4>1
      <4>. QED
        BY <4>2 DEF Planned
    <3>3. CASE j \notin listed
      BY <1>2, <3>1, <3>3 DEF Planned
    <3>. QED
      BY <3>2, <3>3
  <2>3. CASE loading[p] # "repeats"
    <3>1. Planned(j) => Planned(j)'
      BY <1>1, <1>2, <2>3 DEF Planned
    <3>2. Undoing(j) => Undoing(j)'
      BY <1>1 DEF Undoing, Undoes, hVars
    <3>. QED
      BY <2>1, <3>1, <3>2
  <2>. QED
    BY <2>2, <2>3
<1>8. SeenIsActive' /\ ListIsDone'
  BY <1>1, <1>2 DEF PlannedInv, SeenIsActive, ListIsDone
<1>. QED
  BY <1>4, <1>5, <1>6, <1>7, <1>8 DEF PlannedInv

LEMMA LoadedPlans ==
    ASSUME RunsInv, PlannedInv, NEW p \in Processes, Loaded(p)
    PROVE  PlannedInv'
<1>1. /\ loading[p] = "last" /\ list[p] = {}
      /\ UNCHANGED <<now, row, active, list, plan, unlisted, hVars, jpc, work, seen>>
      /\ loading' = [loading EXCEPT ![p] = "no"] /\ phase' = [phase EXCEPT ![p] = "up"]
  BY DEF Loaded, loadRest, dbVars, jVars
<1>2. /\ phase'[p] = "up" /\ loading'[p] = "no"
      /\ \A q \in Processes \ {p} : phase'[q] = phase[q] /\ loading'[q] = loading[q]
  BY <1>1 DEF RunsInv, Memory
<1>3. Followed'
  BY <1>1, <1>2, HandlersAreNoJobs, FollowedStays
<1>4. Unseen' /\ Remembered'
  BY <1>1 DEF PlannedInv, Unseen, UnseenBy, Remembered, Adds, Absent, hVars
<1>5. OnIsPlanned'
  <2>. SUFFICES ASSUME NEW j \in Idents, active, IsOn(row[j]) PROVE Planned(j)' \/ Undoing(j)'
    BY <1>1 DEF OnIsPlanned
  <2>1. Planned(j) \/ Undoing(j)
    BY DEF PlannedInv, OnIsPlanned
  <2>2. Undoing(j) => Undoing(j)'
    BY <1>1 DEF Undoing, Undoes, hVars
  <2>3. phase[p] # "down" => (Planned(j) => Planned(j)')
    BY <1>1, <1>2 DEF Planned
  <2>4. phase[p] # "down"
    BY <1>1 DEF PlannedInv, ListIsDone
  <2>. QED
    BY <2>1, <2>2, <2>3, <2>4
<1>6. SeenIsActive' /\ ListIsDone'
  BY <1>1, <1>2 DEF PlannedInv, SeenIsActive, ListIsDone
<1>. QED
  BY <1>3, <1>4, <1>5, <1>6 DEF PlannedInv

(* While a process is down it may still plan everything when it starts.       *)
LEMMA CrashPlans ==
    ASSUME RunsInv, PlannedInv, NEW p \in Processes, Crash(p)
    PROVE  PlannedInv'
<1>. DEFINE H == {h \in Handlers : ProcOf[h] = p}
            G == {g \in Slots : ProcOf[g] = p}
<1>1. /\ EndHandling(H) /\ EndJobs(G, "free") /\ UNCHANGED <<now, row, active>>
      /\ phase' = [phase EXCEPT ![p] = "down"] /\ loading' = [loading EXCEPT ![p] = "no"]
      /\ list' = [list EXCEPT ![p] = {}] /\ plan' = [plan EXCEPT ![p] = NoPlan]
  BY DEF Crash, dbVars
<1>2. /\ phase'[p] = "down" /\ loading'[p] = "no" /\ list'[p] = {}
      /\ \A j \in Idents : plan'[p][j] = NoItem
      /\ \A q \in Processes \ {p} : /\ phase'[q] = phase[q] /\ plan'[q] = plan[q]
                                    /\ loading'[q] = loading[q] /\ list'[q] = list[q]
  BY <1>1 DEF RunsInv, Memory, NoPlan
<1>3. \A k \in Handlers :
         IF ProcOf[k] = p THEN hpc'[k] = "idle"
         ELSE /\ hpc'[k] = hpc[k] /\ cmd'[k] = cmd[k] /\ newRow'[k] = newRow[k]
              /\ began'[k] = began[k] /\ todo'[k] = todo[k]
  BY <1>1 DEF EndHandling
<1>4. \A k \in Slots : jpc'[k] # "free" =>
                          jpc'[k] = jpc[k] /\ work'[k] = work[k] /\ seen'[k] = seen[k]
  BY <1>1 DEF EndJobs
<1>5. \A k \in Handlers : ProcOf[k] \in Processes
  BY HandlersAreNoJobs
<1>. HIDE DEF H, G
<1>6. Followed'
  <2>. SUFFICES ASSUME NEW k \in Handlers, hpc'[k] # "idle" PROVE Follows(k)'
    BY DEF Followed
  <2>1. ProcOf[k] # p /\ Follows(k)
    BY <1>3 DEF PlannedInv, Followed
  <2>. QED
    BY <1>1, <1>2, <1>3, <1>5, <2>1 DEF Follows
<1>7. Unseen'
  <2>. SUFFICES ASSUME NEW j \in Idents, Absent(j) PROVE UnseenBy(j)'
    BY <1>1 DEF Unseen, Absent
  <2>1. UnseenBy(j)
    BY DEF PlannedInv, Unseen
  <2>2. \A k \in Slots : jpc'[k] # "free" => work'[k].id # j
    BY <1>4, <2>1 DEF UnseenBy
  <2>3. \A q \in Processes : \A e \in list'[q] : e.id # j
    BY <1>2, <2>1 DEF UnseenBy
  <2>4. ASSUME NEW q \in Processes, plan'[q][j] # NoItem
        PROVE  \E h \in Handlers : /\ ProcOf[h] = q /\ Adds(h, j)'
                                   /\ plan'[q][j].deadline > began'[h] + HandleTime
    <3>1. q # p /\ plan'[q][j] = plan[q][j]
      BY <1>2, <2>4
    <3>2. PICK h \in Handlers : /\ ProcOf[h] = q /\ Adds(h, j)
                                /\ plan[q][j].deadline > began[h] + HandleTime
      BY <2>1, <2>4, <3>1 DEF UnseenBy
    <3>3. Adds(h, j)' /\ began'[h] = began[h]
      BY <1>3, <3>1, <3>2 DEF Adds
    <3>. QED
      BY <3>1, <3>2, <3>3
  <2>. QED
    BY <2>2, <2>3, <2>4 DEF UnseenBy
<1>8. Remembered'
  <2>. SUFFICES ASSUME NEW k \in Handlers, NEW j \in Idents,
                       Adds(k, j)', j \notin todo'[k], Absent(j)
                PROVE  plan'[ProcOf[k]][j] # NoItem
    BY <1>1 DEF Remembered, Absent
  <2>1. ProcOf[k] # p /\ Adds(k, j) /\ j \notin todo[k]
    BY <1>3 DEF Adds
  <2>2. plan[ProcOf[k]][j] # NoItem
    BY <2>1 DEF PlannedInv, Remembered
  <2>. QED
    BY <1>2, <1>5, <2>1, <2>2
<1>9. OnIsPlanned'
  BY <1>2 DEF OnIsPlanned, Planned
<1>10. SeenIsActive' /\ ListIsDone'
  BY <1>1, <1>2, <1>4 DEF PlannedInv, SeenIsActive, ListIsDone
<1>. QED
  BY <1>6, <1>7, <1>8, <1>9, <1>10 DEF PlannedInv

(* Repeats that are added, deleted, run, planned when a process starts and    *)
(* forgotten with a process that stops stay where EnabledIsPlanned says: a    *)
(* job that finds its repeat enabled plans it again, a handler plans what it  *)
(* has added before it commits, what it deletes it forgets while nobody else  *)
(* sees the row change, and loading leaves out only what is not authorized    *)
(* (updateRepeating, addRepeat, runRepeatedCommand, loadRepeats).             *)
THEOREM EnabledStaysPlanned ==
    ASSUME Plannable
    PROVE  Spec => []EnabledIsPlanned
<1>1. ASSUME Init PROVE PlannedInv
  <2>. USE <1>1 DEF Init
  <2>1. \A h \in Handlers : hpc[h] = "idle"
    OBVIOUS
  <2>2. \A g \in Slots : jpc[g] = "free"
    OBVIOUS
  <2>3. \A p \in Processes : phase[p] = "down" /\ loading[p] = "no" /\ list[p] = {}
    OBVIOUS
  <2>4. \A p \in Processes, i \in Idents : plan[p][i] = NoItem
    BY DEF NoPlan
  <2>5. Followed /\ Remembered
    BY <2>1 DEF Followed, Remembered, Adds
  <2>6. Unseen
    BY <2>2, <2>3, <2>4 DEF Unseen, UnseenBy
  <2>7. OnIsPlanned
    <3>1. \E p \in Processes : phase[p] = "down"
      BY <2>3 DEF Plannable
    <3>. QED
      BY <3>1 DEF OnIsPlanned, Planned
  <2>8. SeenIsActive /\ ListIsDone
    BY <2>2, <2>3 DEF SeenIsActive, ListIsDone
  <2>. QED
    BY <2>5, <2>6, <2>7, <2>8 DEF PlannedInv
<1>2. ASSUME RunsInv, PlannedInv, [Next]_vars PROVE PlannedInv'
  <2>. USE <1>2
  <2>1. \A kind : Fault(kind) => kind = "crash"
    BY DEF Fault, Plannable
  <2>2. ASSUME NEW h \in Handlers, Message(h) \/ HandlerTimeOut(h) \/ Fail(h) PROVE PlannedInv'
    <3>1. CASE Message(h)
      BY <3>1, LookupPlans, WritePlans, RememberPlans, CommitPlans DEF Message
    <3>2. CASE HandlerTimeOut(h)
      BY <3>2, HandlerTimeOutPlans
    <3>3. CASE Fail(h)
      BY <2>1, <3>3 DEF Fail
    <3>. QED
      BY <2>2, <3>1, <3>2, <3>3
  <2>3. ASSUME NEW g \in Slots, Job(g) \/ JobTimeOut(g) \/ JobFail(g) PROVE PlannedInv'
    <3>1. CASE Job(g)
      BY <3>1, StatusPlans, LoadPlans, RelationsPlan, LockChannelPlans, JobCommitPlans,
         ReAddPlans DEF Job
    <3>2. CASE JobTimeOut(g)
      BY <3>2, TimeOutPlans
    <3>3. CASE JobFail(g)
      BY <2>1, <3>3 DEF JobFail
    <3>. QED
      BY <2>3, <3>1, <3>2, <3>3
  <2>4. ASSUME NEW p \in Processes, Loader(p) \/ Reload(p) \/ Crash(p) PROVE PlannedInv'
    <3>1. CASE Loader(p)
      BY <3>1, StartPlans, ListPlans, LoadOnePlans, LoadedPlans DEF Loader
    <3>2. CASE Reload(p)
      BY <2>1, <3>2 DEF Reload
    <3>3. CASE Crash(p)
      BY <3>3, CrashPlans
    <3>. QED
      BY <2>4, <3>1, <3>2, <3>3
  <2>. QED
    BY <2>2, <2>3, <2>4, BeginPlans, FirePlans, TickPlans DEF Next
<1>3. ASSUME RunsInv, PlannedInv PROVE EnabledIsPlanned
  <2>. USE <1>3
  <2>. SUFFICES ASSUME \A p \in Processes : phase[p] = "up" /\ loading[p] = "no",
                       NEW i \in Idents, IsOn(row[i]), active
                PROVE  \/ \E h \in Handlers :
                             hpc[h] # "idle" /\ (cmd[h].id = i \/ cmd[h].op \in Managing \union Leaving)
                       \/ \E p \in Processes : plan[p][i] # NoItem \/ i \in unlisted[p]
                       \/ \E g \in Slots : jpc[g] # "free" /\ work[g].id = i
    BY DEF EnabledIsPlanned
  <2>1. Planned(i) \/ Undoing(i)
    BY DEF PlannedInv, OnIsPlanned
  <2>2. \A p \in Processes : list[p] = {}
    BY DEF PlannedInv, ListIsDone
  <2>3. CASE Planned(i)
    BY <2>2, <2>3 DEF Planned
  <2>4. CASE Undoing(i)
    BY <2>4 DEF Undoing, Undoes
  <2>. QED
    BY <2>1, <2>3, <2>4
<1>. QED
  BY <1>1, <1>2, <1>3, RunsInvHolds, PTL DEF Spec
==============================================================================
