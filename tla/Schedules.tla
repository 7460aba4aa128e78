----------------------------- MODULE Schedules -----------------------------
(* The schedules of hortbot's repeater: who may be scheduled, when, and what *)
(* the next deadline is (internal/pkg/repeat).  Time is counted in ticks     *)
(* from the start of the process.                                            *)
EXTENDS Integers, FiniteSets

CONSTANTS
    Idents,      \* identities of scheduled functions
    CronIdents,  \* those added with AddCron
    Starts,      \* starts of repeats; a start may lie in the past or the future
    Intervals,   \* intervals of repeats
    Crons,       \* cron schedules, each the set of the times at which it fires
    Slots        \* goroutines that may run a function at the same time

ASSUME ScheduleAssumption ==
    /\ IsFiniteSet(Idents)
    /\ CronIdents \subseteq Idents
    /\ Starts \subseteq Int
    /\ Intervals \subseteq Nat \ {0}
    /\ \A c \in Crons : c \subseteq Nat

Repeats == [start : Starts, interval : Intervals]
CronTabs == [times : Crons]
SchedulesOf(id) == IF id \in CronIdents THEN CronTabs ELSE Repeats
Schedules == Repeats \union CronTabs

NoJob == [none |-> "job"]
Jobs == [id : Idents, sched : Schedules]

NoItem == [none |-> "item"]
Items == [id : Idents, sched : Schedules, deadline : Nat]

(* Division of time.Duration truncates towards zero. *)
Quotient(a, b) == IF a >= 0 THEN a \div b ELSE -((-a) \div b)

(* A mutant: a repeat may get the deadline that is now. *)
RepeatNextCeiling(s, t) == s.start - ((s.start - t) \div s.interval) * s.interval

(* The next deadline of a repeat: a point of its grid. *)
RepeatNext(s, t) == s.start + (Quotient(t - s.start, s.interval) + 1) * s.interval

(* The first time after t at which a cron schedule fires; none if it never   *)
(* does, and then the library returns the zero time.                         *)
CronNext(s, t) == {d \in s.times : d > t /\ \A e \in s.times : e > t => d <= e}

Deadlines(id, s, t) == IF id \in CronIdents THEN CronNext(s, t) ELSE {RepeatNext(s, t)}
=============================================================================
