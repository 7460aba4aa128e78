---------------------------- MODULE MCChatQueue ----------------------------
(* ChatQueue on small instances: a bounded clock and a bounded number of     *)
(* faults of the workers and of their transactions.                          *)
EXTENDS ChatQueueInv, TLC

CONSTANTS
    MaxTime,        \* bound on the clock
    MaxFaults,      \* bound on the faults of the workers and of their transactions
    LastFault,      \* bound on the time of a fault
    Timestamps,     \* the timestamps of messages that are considered
    MaxDelay,       \* bound on the age of a message at its first delivery
    Redelivered,    \* the messages Twitch may deliver more than once
    MaxInsertTime   \* bound on the time from a delivery to its commit

VARIABLE faults

OneMessage == [m \in {1} |-> "a"]

OneChannel == [m \in Messages |-> "a"]
TwoChannels == [m \in {1, 2, 3} |-> IF m = 3 THEN "b" ELSE "a"]

WorkerSymmetry == Permutations(Workers)

Fault(w) ==
    \/ Crash(w)
    \/ ClaimAbort(w) /\ ~ClaimNothing(w)
    \/ ClaimCommit(w) /\ pc'[w] = "idle"
    \/ Finish(w) /\ pc'[w] = "finishing"

MCInit == Init /\ faults = 0

(* What the bounds leave out.  Without loss for the safety properties, an    *)
(* idle worker does not crash, and one that is down restarts before time     *)
(* passes: a worker that does nothing is as good as one that is down.        *)
Bounded ==
    /\ now' <= MaxTime
    /\ faults' <= MaxFaults
    /\ faults' # faults => now <= LastFault
    /\ \A m \in Messages :
          /\ sent'[m] # sent[m] => sent'[m] \in Timestamps /\ sent'[m] + MaxDelay >= now
          /\ delivery'[m] = "received" /\ delivery[m] = "none"
                => sent[m] = Unsent \/ m \in Redelivered
          /\ now' # now /\ delivery[m] # "none" => now' <= stamp[m] + MaxInsertTime
    /\ \A w \in Workers :
          /\ pc[w] = "idle" => pc'[w] # "down"
          /\ now' # now => pc[w] # "down"

MCNext ==
    /\ Next
    /\ faults' = IF \E w \in Workers : Fault(w) THEN faults + 1 ELSE faults
    /\ Bounded

mcVars == <<vars, faults>>
MCSpec == MCInit /\ [][MCNext]_mcVars

(* The messages in Q are in the queue, in the order of their IDs; the others  *)
(* never arrive.                                                             *)
Queued(Q) ==
    /\ now = Cardinality(Q)
    /\ sent = [m \in Messages |-> IF m \in Q THEN Cardinality({k \in Q : k <= m}) ELSE 1]
    /\ delivery = [m \in Messages |-> "none"]
    /\ stamp = [m \in Messages |-> 0]
    /\ rowState = [m \in Messages |-> IF m \in Q THEN "pending" ELSE "absent"]
    /\ rowEnq = [m \in Messages |-> IF m \in Q THEN sent[m] ELSE 0]
    /\ rowToken = [m \in Messages |-> NoToken]
    /\ rowUntil = [m \in Messages |-> 0]
    /\ rowDone = [m \in Messages |-> 0]
    /\ keyToken = [c \in Channels |-> NoToken]
    /\ keyUntil = [c \in Channels |-> 0]
    /\ pc = [w \in Workers |-> "idle"]
    /\ txNow = [w \in Workers |-> 0]
    /\ token = [w \in Workers |-> NoToken]
    /\ job = [w \in Workers |-> NoMessage]
    /\ cand = [w \in Workers |-> {}]
    /\ rowLocks = [w \in Workers |-> {}]
    /\ keyLocks = [w \in Workers |-> {}]
    /\ deadline = [w \in Workers |-> 0]
    /\ outcome = [w \in Workers |-> "none"]
    /\ handled = [m \in Messages |-> 0]
    /\ faults = 0

QueuedInit == Queued(Messages)

(* Two messages that a handler takes, or one whose payload does not decode. *)
ContendedInit == Queued(Messages \ Malformed) \/ Queued(Malformed)

------------------------------------------------------------------------------
(* Fairness: the workers' loops, the producer's retries and the maintenance  *)
(* ticker go on as long as their process runs, and a stopped bot is started  *)
(* again.  Polling does not stop the clock.  Nothing obliges Twitch to       *)
(* deliver, or anybody to fail.                                              *)
FaultFree(A) == A /\ UNCHANGED faults /\ Bounded
MCFairness ==
    /\ WF_mcVars(FaultFree(Tick))
    /\ WF_mcVars(FaultFree(Cleanup))
    /\ \A m \in Messages :
          WF_mcVars(FaultFree(EnqueueDuplicate(m) \/ EnqueueInsert(m) \/ EnqueueCommit(m)))
    /\ \A w \in Workers :
          /\ WF_mcVars(FaultFree(Claim(w)))
          /\ WF_mcVars(FaultFree(Work(w)))
          /\ WF_mcVars(FaultFree(Restart(w)))

MCFairSpec == ContendedInit /\ [][MCNext]_mcVars /\ MCFairness

(* A queued message does not stay in the queue: some worker claims it, again *)
(* and again if claims crash, and it is completed, failed or deleted.  No    *)
(* pair of scans keeps passing over each other's rows for ever.              *)
QueuedIsSettled == \A m \in Messages : rowState[m] = "pending" ~> rowState[m] # "pending"

------------------------------------------------------------------------------
(* The scenario of TestQueueConcurrentClaimsSerializeKey: "first" (1) and    *)
(* "second" (2) of channel a and "other" (3) of channel b are queued in this *)
(* order, and each of two workers calls Claim once.                          *)

(* A worker calls Claim once, and the call succeeds. *)
TestNext ==
    /\ \E w \in Workers : Claim(w)
    /\ \A w \in Workers : pc[w] = "leasing" => pc'[w] # "idle"
    /\ UNCHANGED faults

TestSpec == QueuedInit /\ [][TestNext]_mcVars

(* What the test asserts of the two calls (queue_test.go:188): they returned *)
(* "first" and "other", so no message was claimed ahead of an older one of   *)
(* its channel.                                                              *)
OldestClaimed ==
    (\A w \in Workers : pc[w] = "claimed") => {job[w] : w \in Workers} = {1, 3}

=============================================================================
