------------------------- MODULE MCRepeatedCommands -------------------------
(* Small instances of RepeatedCommands for TLC. *)
EXTENDS RepeatedCommands

CONSTANTS
    MaxTime,   \* bound on the clock
    MaxCount   \* bound on the messages of the channel

CONSTANTS r1, c1, p1, p2, h1, h2, g1, g2

(* One schedule, which fires every two ticks. *)
EveryTwo == {{2, 4, 6}}

MCProcOf ==
    [a \in Handlers \union Slots |-> IF a \in {h2, g2} /\ p2 \in Processes THEN p2 ELSE p1]

Bounded ==
    /\ now' <= MaxTime
    /\ \A h \in Handlers : hpc[h] = "idle" /\ hpc'[h] # "idle" => count < MaxCount

MCNext == Next /\ Bounded
MCSpec == Init /\ [][MCNext]_vars

(* A worker and a goroutine go on; a wait for a lock ends with the lock or    *)
(* when PostgreSQL gives up.                                                  *)
Fairness ==
    /\ \A h \in Handlers : WF_vars(Message(h) \/ HandlerTimeOut(h))
    /\ \A g \in Slots : WF_vars(Job(g) \/ JobTimeOut(g))

FairSpec == MCSpec /\ Fairness
=============================================================================
