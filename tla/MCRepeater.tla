----------------------------- MODULE MCRepeater -----------------------------
(* Repeater on small instances: a bounded clock and a bounded number of      *)
(* calls from outside.                                                       *)
EXTENDS Repeater, TLC

CONSTANTS
    MaxTime,    \* bound on the clock
    MaxCalls    \* bound on the calls of Add, AddCron, Remove, RemoveCron and Reset

VARIABLE called

(* A repeat whose start has passed, and one that starts in the future. *)
PastAndFuture == {-1, 2}

(* A cron schedule that fires now and then, and one that never does. *)
SomeAndNever == {{2, 4}, {}}

Symmetry == Permutations(Slots)

Called ==
    \/ Reset
    \/ \E id \in Idents : Remove(id) \/ \E s \in SchedulesOf(id) : Add(id, s)

MCInit == Init /\ called = 0

MCNext ==
    \/ Called /\ called < MaxCalls /\ called' = called + 1
    \/ \E g \in Slots : (Fire(g) \/ Goroutine(g)) /\ UNCHANGED called
    \/ Stop /\ UNCHANGED called
    \/ Tick /\ now < MaxTime /\ UNCHANGED called

mcVars == <<vars, called>>
MCSpec == MCInit /\ [][MCNext]_mcVars

------------------------------------------------------------------------------
(* The loop takes a case of its select that is ready, functions return, and  *)
(* a goroutine that calls add is heard.                                      *)
Fairness ==
    /\ WF_mcVars(Tick /\ now < MaxTime /\ UNCHANGED called)
    /\ WF_mcVars(\E g \in Slots : Fire(g) /\ UNCHANGED called)
    /\ \A g \in Slots : WF_mcVars(Goroutine(g) /\ UNCHANGED called)

MCFairSpec == MCSpec /\ Fairness

(* A function that was added runs when it is due, unless it is removed,      *)
(* given another deadline or done with, or the loop ends, however many other *)
(* functions are added and run in between.                                   *)
DueRuns ==
    \A i \in Idents, d \in 0 .. MaxTime :
        Planned(i) /\ ItemOf(i).deadline = d /\ status[i] = "added"
            ~> \/ ~up
               \/ last[i] = d
               \/ status[i] # "added"
               \/ Planned(i) /\ ItemOf(i).deadline # d

------------------------------------------------------------------------------
(* "Reset resets a repeater, cancelling and removing all of its repeated     *)
(* functions" and "Remove removes a repeated task" (repeat.go:28, 43): what  *)
(* was removed, and not added since, is not planned.                         *)
RemovedStaysRemoved == \A i \in Idents : status[i] = "removed" => ~Planned(i)
=============================================================================
