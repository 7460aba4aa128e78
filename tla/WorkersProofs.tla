---------------------------- MODULE WorkersProofs ----------------------------
(***************************************************************************)
(* Proofs about the goroutines around the chat message queue, for any      *)
(* number of workers, channels and messages and any time limits that keep  *)
(* within the grace period.                                                *)
(***************************************************************************)
EXTENDS Workers, FiniteSetTheorems, TLAPS

(* What the variables hold; a channel has at most the rows that it began with *)
(* and those that came, the one that somebody has a lease of among them.      *)
Leased(c) == IF leases[c] = Free THEN 0 ELSE 1

WorkersTypes ==
    /\ waiting \in [Feeds -> Nat]
    /\ leases \in [Feeds -> Workers \union {Free, Elsewhere, Orphan}]
    /\ arrivals \in 0 .. MaxMessages /\ mishaps \in 0 .. MaxMishaps
    /\ listener \in {"connecting", "listening", "ended"}
    /\ notes \in 0 .. arrivals /\ wake \in 0 .. Cardinality(Workers) /\ poll \in BOOLEAN
    /\ at \in [Workers -> {"claim", "idle", "claimed", "handle", "finish", "ended"}]
    /\ feed \in [Workers -> Feeds \union {Free}]
    /\ left \in [Workers -> 0 .. PrepTime + HandleTimeout + FinalizeTimeout]
    /\ stopped \in BOOLEAN /\ group \in BOOLEAN /\ down \in BOOLEAN
    /\ since \in 0 .. Grace

RowsAreCounted == \A c \in Feeds : waiting[c] + Leased(c) <= 1 + arrivals

(* The lease of a channel is the one that its worker knows of, and the worker *)
(* is at the message.                                                         *)
LeasesAreHeld ==
    /\ \A c \in Feeds : leases[c] \in Workers => Timed(leases[c]) /\ feed[leases[c]] = c
    /\ \A w \in Workers : Timed(w) => feed[w] \in Feeds /\ leases[feed[w]] = w

(* What was claimed before the signal has, with the time since, no more than  *)
(* its own limits.                                                            *)
InTime ==
    /\ stopped => group
    /\ ~stopped => since = 0
    /\ \A w \in Workers :
          /\ at[w] = "claimed" => since + left[w] <= PrepTime
          /\ at[w] = "handle" => since + left[w] <= PrepTime + HandleTimeout

(* As long as nothing failed, the database answers before a time limit.       *)
NothingFailed ==
    mishaps = 0 =>
        /\ ~down
        /\ \A c \in Feeds : leases[c] # Orphan
        /\ \A w \in Workers : at[w] = "finish" => left[w] > 0

ProcessInv == WorkersTypes /\ RowsAreCounted /\ LeasesAreHeld /\ InTime /\ NothingFailed

------------------------------------------------------------------------------
LEMMA Limits ==
    /\ MaxMessages \in Nat /\ MaxMishaps \in Nat
    /\ PrepTime \in Nat /\ HandleTimeout \in Nat /\ FinalizeTimeout \in Nat /\ Grace \in Nat
    /\ FinalizeTimeout > 0 /\ PrepTime + HandleTimeout < Grace
    /\ Cardinality(Workers) \in Nat
BY GraceAssumption, WorkersAssumption, FS_CardinalityType

LEMMA ProcessBegins == WorkersInit => ProcessInv
<1>. SUFFICES ASSUME WorkersInit PROVE ProcessInv
  OBVIOUS
<1>1. WorkersTypes
  <2>1. waiting \in [Feeds -> Nat] /\ leases \in [Feeds -> Workers \union {Free, Elsewhere, Orphan}]
    BY DEF WorkersInit
  <2>2. left \in [Workers -> 0 .. PrepTime + HandleTimeout + FinalizeTimeout]
    BY Limits DEF WorkersInit
  <2>3. at \in [Workers -> {"claim", "idle", "claimed", "handle", "finish", "ended"}]
    BY DEF WorkersInit
  <2>4. feed \in [Workers -> Feeds \union {Free}]
    BY DEF WorkersInit
  <2>5. poll \in BOOLEAN /\ stopped \in BOOLEAN /\ group \in BOOLEAN /\ down \in BOOLEAN
    BY DEF WorkersInit
  <2>6. arrivals \in 0 .. MaxMessages /\ mishaps \in 0 .. MaxMishaps /\ since \in 0 .. Grace
    BY Limits DEF WorkersInit
  <2>7. listener = "connecting" /\ notes \in 0 .. arrivals /\ wake \in 0 .. Cardinality(Workers)
    BY Limits DEF WorkersInit
  <2>. QED
    BY <2>1, <2>2, <2>3, <2>4, <2>5, <2>6, <2>7, Limits DEF WorkersInit, WorkersTypes
<1>2. RowsAreCounted
  BY DEF WorkersInit, RowsAreCounted, Leased
<1>3. LeasesAreHeld
  BY WorkersAssumption DEF WorkersInit, LeasesAreHeld, Timed
<1>4. InTime /\ NothingFailed
  BY WorkersAssumption DEF WorkersInit, InTime, NothingFailed
<1>. QED
  BY <1>1, <1>2, <1>3, <1>4 DEF ProcessInv

LEMMA ProcessGoesOn == ProcessInv /\ [WorkersNext]_queueVars => ProcessInv'
<1>. SUFFICES ASSUME ProcessInv, [WorkersNext]_queueVars PROVE ProcessInv'
  OBVIOUS
<1>. USE Limits DEF queueVars, messageVars, wakeVars, workerVars, stopVars, mishapVars
<1>1. ASSUME NEW c \in Feeds, Enqueue(c) PROVE ProcessInv'
  <2>1. WorkersTypes'
    BY <1>1, WorkersAssumption DEF ProcessInv, WorkersTypes, Enqueue
  <2>2. RowsAreCounted'
    BY <1>1, WorkersAssumption DEF ProcessInv, WorkersTypes, RowsAreCounted, Leased,
       Enqueue
  <2>3. LeasesAreHeld'
    BY <1>1, WorkersAssumption DEF ProcessInv, WorkersTypes, LeasesAreHeld, Timed,
       Enqueue
  <2>4. InTime'
    BY <1>1, WorkersAssumption DEF ProcessInv, WorkersTypes, InTime, Timed, Enqueue
  <2>5. NothingFailed'
    BY <1>1, WorkersAssumption DEF ProcessInv, WorkersTypes, NothingFailed, Timed,
       LeasesAreHeld, Enqueue
  <2>. QED
    BY <2>1, <2>2, <2>3, <2>4, <2>5 DEF ProcessInv
<1>2. ASSUME NEW c \in Feeds, ClaimElsewhere(c) PROVE ProcessInv'
  <2>1. WorkersTypes'
    BY <1>2, WorkersAssumption DEF ProcessInv, WorkersTypes, ClaimElsewhere, Claimable
  <2>2. RowsAreCounted'
    BY <1>2, WorkersAssumption DEF ProcessInv, WorkersTypes, RowsAreCounted, Leased,
       ClaimElsewhere, Claimable
  <2>3. LeasesAreHeld'
    BY <1>2, WorkersAssumption DEF ProcessInv, WorkersTypes, LeasesAreHeld, Timed,
       ClaimElsewhere, Claimable
  <2>4. InTime'
    BY <1>2, WorkersAssumption DEF ProcessInv, WorkersTypes, InTime, Timed,
       ClaimElsewhere, Claimable
  <2>5. NothingFailed'
    BY <1>2, WorkersAssumption DEF ProcessInv, WorkersTypes, NothingFailed, Timed,
       LeasesAreHeld, ClaimElsewhere, Claimable
  <2>. QED
    BY <2>1, <2>2, <2>3, <2>4, <2>5 DEF ProcessInv
<1>3. ASSUME NEW c \in Feeds, LeaseEnds(c) PROVE ProcessInv'
  <2>1. WorkersTypes'
    BY <1>3, WorkersAssumption DEF ProcessInv, WorkersTypes, LeaseEnds
  <2>2. RowsAreCounted'
    BY <1>3, WorkersAssumption DEF ProcessInv, WorkersTypes, RowsAreCounted, Leased,
       LeaseEnds
  <2>3. LeasesAreHeld'
    BY <1>3, WorkersAssumption DEF ProcessInv, WorkersTypes, LeasesAreHeld, Timed,
       LeaseEnds
  <2>4. InTime'
    BY <1>3, WorkersAssumption DEF ProcessInv, WorkersTypes, InTime, Timed, LeaseEnds
  <2>5. NothingFailed'
    BY <1>3, WorkersAssumption DEF ProcessInv, WorkersTypes, NothingFailed, Timed,
       LeasesAreHeld, LeaseEnds
  <2>. QED
    BY <2>1, <2>2, <2>3, <2>4, <2>5 DEF ProcessInv
<1>4. CASE DatabaseFails
  <2>1. WorkersTypes'
    BY <1>4, WorkersAssumption DEF ProcessInv, WorkersTypes, DatabaseFails, Mishap
  <2>2. RowsAreCounted'
    BY <1>4, WorkersAssumption DEF ProcessInv, WorkersTypes, RowsAreCounted, Leased,
       DatabaseFails, Mishap
  <2>3. LeasesAreHeld'
    BY <1>4, WorkersAssumption DEF ProcessInv, WorkersTypes, LeasesAreHeld, Timed,
       DatabaseFails, Mishap
  <2>4. InTime'
    BY <1>4, WorkersAssumption DEF ProcessInv, WorkersTypes, InTime, Timed,
       DatabaseFails, Mishap
  <2>5. NothingFailed'
    BY <1>4, WorkersAssumption DEF ProcessInv, WorkersTypes, NothingFailed, Timed,
       LeasesAreHeld, DatabaseFails, Mishap
  <2>. QED
    BY <2>1, <2>2, <2>3, <2>4, <2>5 DEF ProcessInv
<1>5. CASE DatabaseReturns
  <2>1. WorkersTypes'
    BY <1>5, WorkersAssumption DEF ProcessInv, WorkersTypes, DatabaseReturns
  <2>2. RowsAreCounted'
    BY <1>5, WorkersAssumption DEF ProcessInv, WorkersTypes, RowsAreCounted, Leased,
       DatabaseReturns
  <2>3. LeasesAreHeld'
    BY <1>5, WorkersAssumption DEF ProcessInv, WorkersTypes, LeasesAreHeld, Timed,
       DatabaseReturns
  <2>4. InTime'
    BY <1>5, WorkersAssumption DEF ProcessInv, WorkersTypes, InTime, Timed,
       DatabaseReturns
  <2>5. NothingFailed'
    BY <1>5, WorkersAssumption DEF ProcessInv, WorkersTypes, NothingFailed, Timed,
       LeasesAreHeld, DatabaseReturns
  <2>. QED
    BY <2>1, <2>2, <2>3, <2>4, <2>5 DEF ProcessInv
<1>6. CASE Listen
  <2>1. WorkersTypes'
    BY <1>6, WorkersAssumption DEF ProcessInv, WorkersTypes, Listen, notifyWorker
  <2>2. RowsAreCounted'
    BY <1>6, WorkersAssumption DEF ProcessInv, WorkersTypes, RowsAreCounted, Leased,
       Listen, notifyWorker
  <2>3. LeasesAreHeld'
    BY <1>6, WorkersAssumption DEF ProcessInv, WorkersTypes, LeasesAreHeld, Timed,
       Listen, notifyWorker
  <2>4. InTime'
    BY <1>6, WorkersAssumption DEF ProcessInv, WorkersTypes, InTime, Timed, Listen,
       notifyWorker
  <2>5. NothingFailed'
    BY <1>6, WorkersAssumption DEF ProcessInv, WorkersTypes, NothingFailed, Timed,
       LeasesAreHeld, Listen, notifyWorker
  <2>. QED
    BY <2>1, <2>2, <2>3, <2>4, <2>5 DEF ProcessInv
<1>7. CASE Notification
  <2>1. WorkersTypes'
    BY <1>7, WorkersAssumption DEF ProcessInv, WorkersTypes, Notification, notifyWorker
  <2>2. RowsAreCounted'
    BY <1>7, WorkersAssumption DEF ProcessInv, WorkersTypes, RowsAreCounted, Leased,
       Notification, notifyWorker
  <2>3. LeasesAreHeld'
    BY <1>7, WorkersAssumption DEF ProcessInv, WorkersTypes, LeasesAreHeld, Timed,
       Notification, notifyWorker
  <2>4. InTime'
    BY <1>7, WorkersAssumption DEF ProcessInv, WorkersTypes, InTime, Timed,
       Notification, notifyWorker
  <2>5. NothingFailed'
    BY <1>7, WorkersAssumption DEF ProcessInv, WorkersTypes, NothingFailed, Timed,
       LeasesAreHeld, Notification, notifyWorker
  <2>. QED
    BY <2>1, <2>2, <2>3, <2>4, <2>5 DEF ProcessInv
<1>8. CASE ListenFails
  <2>1. WorkersTypes'
    BY <1>8, WorkersAssumption DEF ProcessInv, WorkersTypes, ListenFails, Mishap
  <2>2. RowsAreCounted'
    BY <1>8, WorkersAssumption DEF ProcessInv, WorkersTypes, RowsAreCounted, Leased,
       ListenFails, Mishap
  <2>3. LeasesAreHeld'
    BY <1>8, WorkersAssumption DEF ProcessInv, WorkersTypes, LeasesAreHeld, Timed,
       ListenFails, Mishap
  <2>4. InTime'
    BY <1>8, WorkersAssumption DEF ProcessInv, WorkersTypes, InTime, Timed, ListenFails,
       Mishap
  <2>5. NothingFailed'
    BY <1>8, WorkersAssumption DEF ProcessInv, WorkersTypes, NothingFailed, Timed,
       LeasesAreHeld, ListenFails, Mishap
  <2>. QED
    BY <2>1, <2>2, <2>3, <2>4, <2>5 DEF ProcessInv
<1>9. CASE ListenerReturns
  <2>1. WorkersTypes'
    BY <1>9, WorkersAssumption DEF ProcessInv, WorkersTypes, ListenerReturns
  <2>2. RowsAreCounted'
    BY <1>9, WorkersAssumption DEF ProcessInv, WorkersTypes, RowsAreCounted, Leased,
       ListenerReturns
  <2>3. LeasesAreHeld'
    BY <1>9, WorkersAssumption DEF ProcessInv, WorkersTypes, LeasesAreHeld, Timed,
       ListenerReturns
  <2>4. InTime'
    BY <1>9, WorkersAssumption DEF ProcessInv, WorkersTypes, InTime, Timed,
       ListenerReturns
  <2>5. NothingFailed'
    BY <1>9, WorkersAssumption DEF ProcessInv, WorkersTypes, NothingFailed, Timed,
       LeasesAreHeld, ListenerReturns
  <2>. QED
    BY <2>1, <2>2, <2>3, <2>4, <2>5 DEF ProcessInv
<1>10. CASE PollTick
  <2>1. WorkersTypes'
    BY <1>10, WorkersAssumption DEF ProcessInv, WorkersTypes, PollTick
  <2>2. RowsAreCounted'
    BY <1>10, WorkersAssumption DEF ProcessInv, WorkersTypes, RowsAreCounted, Leased,
       PollTick
  <2>3. LeasesAreHeld'
    BY <1>10, WorkersAssumption DEF ProcessInv, WorkersTypes, LeasesAreHeld, Timed,
       PollTick
  <2>4. InTime'
    BY <1>10, WorkersAssumption DEF ProcessInv, WorkersTypes, InTime, Timed, PollTick
  <2>5. NothingFailed'
    BY <1>10, WorkersAssumption DEF ProcessInv, WorkersTypes, NothingFailed, Timed,
       LeasesAreHeld, PollTick
  <2>. QED
    BY <2>1, <2>2, <2>3, <2>4, <2>5 DEF ProcessInv
<1>11. ASSUME NEW w \in Workers, Take(w) PROVE ProcessInv'
  <2>1. WorkersTypes'
    BY <1>11, WorkersAssumption DEF ProcessInv, WorkersTypes, Take, Claimable, Enter,
       notifyWorker
  <2>2. RowsAreCounted'
    BY <1>11, WorkersAssumption DEF ProcessInv, WorkersTypes, RowsAreCounted, Leased,
       Take, Claimable, Enter, notifyWorker
  <2>3. LeasesAreHeld'
    BY <1>11, WorkersAssumption DEF ProcessInv, WorkersTypes, LeasesAreHeld, Timed,
       Take, Claimable, Enter, notifyWorker
  <2>4. InTime'
    BY <1>11, WorkersAssumption DEF ProcessInv, WorkersTypes, InTime, Timed, Take,
       Claimable, Enter, notifyWorker
  <2>5. NothingFailed'
    BY <1>11, WorkersAssumption DEF ProcessInv, WorkersTypes, NothingFailed, Timed,
       LeasesAreHeld, Take, Claimable, Enter, notifyWorker
  <2>. QED
    BY <2>1, <2>2, <2>3, <2>4, <2>5 DEF ProcessInv
<1>12. ASSUME NEW w \in Workers, FindNothing(w) PROVE ProcessInv'
  <2>1. WorkersTypes'
    BY <1>12, WorkersAssumption DEF ProcessInv, WorkersTypes, FindNothing, Enter
  <2>2. RowsAreCounted'
    BY <1>12, WorkersAssumption DEF ProcessInv, WorkersTypes, RowsAreCounted, Leased,
       FindNothing, Enter
  <2>3. LeasesAreHeld'
    BY <1>12, WorkersAssumption DEF ProcessInv, WorkersTypes, LeasesAreHeld, Timed,
       FindNothing, Enter
  <2>4. InTime'
    BY <1>12, WorkersAssumption DEF ProcessInv, WorkersTypes, InTime, Timed,
       FindNothing, Enter
  <2>5. NothingFailed'
    BY <1>12, WorkersAssumption DEF ProcessInv, WorkersTypes, NothingFailed, Timed,
       LeasesAreHeld, FindNothing, Enter
  <2>. QED
    BY <2>1, <2>2, <2>3, <2>4, <2>5 DEF ProcessInv
<1>13. ASSUME NEW w \in Workers, LoseAnswer(w) PROVE ProcessInv'
  <2>1. WorkersTypes'
    BY <1>13, WorkersAssumption DEF ProcessInv, WorkersTypes, LoseAnswer, Claimable,
       Mishap
  <2>2. RowsAreCounted'
    BY <1>13, WorkersAssumption DEF ProcessInv, WorkersTypes, RowsAreCounted, Leased,
       LoseAnswer, Claimable, Mishap
  <2>3. LeasesAreHeld'
    BY <1>13, WorkersAssumption DEF ProcessInv, WorkersTypes, LeasesAreHeld, Timed,
       LoseAnswer, Claimable, Mishap
  <2>4. InTime'
    BY <1>13, WorkersAssumption DEF ProcessInv, WorkersTypes, InTime, Timed, LoseAnswer,
       Claimable, Mishap
  <2>5. NothingFailed'
    BY <1>13, WorkersAssumption DEF ProcessInv, WorkersTypes, NothingFailed, Timed,
       LeasesAreHeld, LoseAnswer, Claimable, Mishap
  <2>. QED
    BY <2>1, <2>2, <2>3, <2>4, <2>5 DEF ProcessInv
<1>14. ASSUME NEW w \in Workers, ClaimCancelled(w) PROVE ProcessInv'
  <2>1. WorkersTypes'
    BY <1>14, WorkersAssumption DEF ProcessInv, WorkersTypes, ClaimCancelled, Return,
       Enter
  <2>2. RowsAreCounted'
    BY <1>14, WorkersAssumption DEF ProcessInv, WorkersTypes, RowsAreCounted, Leased,
       ClaimCancelled, Return, Enter
  <2>3. LeasesAreHeld'
    BY <1>14, WorkersAssumption DEF ProcessInv, WorkersTypes, LeasesAreHeld, Timed,
       ClaimCancelled, Return, Enter
  <2>4. InTime'
    BY <1>14, WorkersAssumption DEF ProcessInv, WorkersTypes, InTime, Timed,
       ClaimCancelled, Return, Enter
  <2>5. NothingFailed'
    BY <1>14, WorkersAssumption DEF ProcessInv, WorkersTypes, NothingFailed, Timed,
       LeasesAreHeld, ClaimCancelled, Return, Enter
  <2>. QED
    BY <2>1, <2>2, <2>3, <2>4, <2>5 DEF ProcessInv
<1>15. ASSUME NEW w \in Workers, Wait(w) PROVE ProcessInv'
  <2>1. WorkersTypes'
    <3>1. at' = [at EXCEPT ![w] = "claim"] \/ at' = [at EXCEPT ![w] = "ended"]
      BY <1>15, WorkersAssumption DEF ProcessInv, WorkersTypes, Wait, Return, Enter
    <3>2. at' \in [Workers -> {"claim", "idle", "claimed", "handle", "finish", "ended"}]
      BY <3>1 DEF ProcessInv, WorkersTypes
    <3>3. feed' \in [Workers -> Feeds \union {Free}] /\ left' \in [Workers -> 0 .. PrepTime + HandleTimeout + FinalizeTimeout]
      BY <1>15, WorkersAssumption DEF ProcessInv, WorkersTypes, Wait, Return, Enter
    <3>4. UNCHANGED <<waiting, leases, arrivals, mishaps, down, stopped, since>>
      BY <1>15, WorkersAssumption DEF ProcessInv, WorkersTypes, Wait, Return, Enter
    <3>5. UNCHANGED <<listener, notes>>
      BY <1>15, WorkersAssumption DEF ProcessInv, WorkersTypes, Wait, Return, Enter
    <3>6. wake' \in 0 .. Cardinality(Workers)
      BY <1>15, WorkersAssumption DEF ProcessInv, WorkersTypes, Wait, Return, Enter
    <3>7. poll' \in BOOLEAN
      BY <1>15, WorkersAssumption DEF ProcessInv, WorkersTypes, Wait, Return, Enter
    <3>8. group' \in BOOLEAN
      BY <1>15, WorkersAssumption DEF ProcessInv, WorkersTypes, Wait, Return, Enter
    <3>. QED
      BY <1>15, <3>1, <3>2, <3>3, <3>4, <3>5, <3>6, <3>7, <3>8 DEF ProcessInv,
         WorkersTypes, Wait, Return, Enter
  <2>2. RowsAreCounted'
    BY <1>15, WorkersAssumption DEF ProcessInv, WorkersTypes, RowsAreCounted, Leased,
       Wait, Return, Enter
  <2>3. LeasesAreHeld'
    BY <1>15, WorkersAssumption DEF ProcessInv, WorkersTypes, LeasesAreHeld, Timed,
       Wait, Return, Enter
  <2>4. InTime'
    BY <1>15, WorkersAssumption DEF ProcessInv, WorkersTypes, InTime, Timed, Wait,
       Return, Enter
  <2>5. NothingFailed'
    BY <1>15, WorkersAssumption DEF ProcessInv, WorkersTypes, NothingFailed, Timed,
       LeasesAreHeld, Wait, Return, Enter
  <2>. QED
    BY <2>1, <2>2, <2>3, <2>4, <2>5 DEF ProcessInv
<1>16. ASSUME NEW w \in Workers, Prepare(w) PROVE ProcessInv'
  <2>1. WorkersTypes'
    BY <1>16, WorkersAssumption DEF ProcessInv, WorkersTypes, Prepare, Enter
  <2>2. RowsAreCounted'
    BY <1>16, WorkersAssumption DEF ProcessInv, WorkersTypes, RowsAreCounted, Leased,
       Prepare, Enter
  <2>3. LeasesAreHeld'
    BY <1>16, WorkersAssumption DEF ProcessInv, WorkersTypes, LeasesAreHeld, Timed,
       Prepare, Enter
  <2>4. InTime'
    BY <1>16, WorkersAssumption DEF ProcessInv, WorkersTypes, InTime, Timed, Prepare,
       Enter
  <2>5. NothingFailed'
    BY <1>16, WorkersAssumption DEF ProcessInv, WorkersTypes, NothingFailed, Timed,
       LeasesAreHeld, Prepare, Enter
  <2>. QED
    BY <2>1, <2>2, <2>3, <2>4, <2>5 DEF ProcessInv
<1>17. ASSUME NEW w \in Workers, NoLogins(w) PROVE ProcessInv'
  <2>1. WorkersTypes'
    <3>1. at' \in [Workers -> {"claim", "idle", "claimed", "handle", "finish", "ended"}]
      BY <1>17, WorkersAssumption DEF ProcessInv, WorkersTypes, NoLogins, Abandon,
         Return, Enter, Mishap
    <3>2. feed' \in [Workers -> Feeds \union {Free}] /\ left' \in [Workers -> 0 .. PrepTime + HandleTimeout + FinalizeTimeout]
      BY <1>17, WorkersAssumption DEF ProcessInv, WorkersTypes, NoLogins, Abandon,
         Return, Enter, Mishap
    <3>3. leases' \in [Feeds -> Workers \union {Free, Elsewhere, Orphan}]
      BY <1>17, WorkersAssumption DEF ProcessInv, WorkersTypes, NoLogins, Abandon,
         Return, Enter, Mishap
    <3>. QED
      BY <1>17, <3>1, <3>2, <3>3 DEF ProcessInv, WorkersTypes, NoLogins, Abandon,
         Return, Enter, Mishap
  <2>2. RowsAreCounted'
    <3>1. feed[w] \in Feeds /\ leases[feed[w]] = w /\ leases[feed[w]] # Free
      BY <1>17, WorkersAssumption DEF ProcessInv, LeasesAreHeld, Timed, NoLogins,
         Abandon, Return, Enter, Mishap
    <3>2. \A c \in Feeds : Leased(c)' = Leased(c)
      BY <1>17, <3>1, WorkersAssumption DEF ProcessInv, WorkersTypes, RowsAreCounted,
         Leased, NoLogins, Abandon, Return, Enter, Mishap
    <3>. QED
      BY <1>17, <3>1, <3>2 DEF ProcessInv, WorkersTypes, RowsAreCounted, Leased,
         NoLogins, Abandon, Return, Enter, Mishap
  <2>3. LeasesAreHeld'
    BY <1>17, WorkersAssumption DEF ProcessInv, WorkersTypes, LeasesAreHeld, Timed,
       NoLogins, Abandon, Return, Enter, Mishap
  <2>4. InTime'
    BY <1>17, WorkersAssumption DEF ProcessInv, WorkersTypes, InTime, Timed, NoLogins,
       Abandon, Return, Enter, Mishap
  <2>5. NothingFailed'
    BY <1>17, WorkersAssumption DEF ProcessInv, WorkersTypes, NothingFailed, Timed,
       LeasesAreHeld, NoLogins, Abandon, Return, Enter, Mishap
  <2>. QED
    BY <2>1, <2>2, <2>3, <2>4, <2>5 DEF ProcessInv
<1>18. ASSUME NEW w \in Workers, Handled(w) PROVE ProcessInv'
  <2>1. WorkersTypes'
    BY <1>18, WorkersAssumption DEF ProcessInv, WorkersTypes, Handled, Enter
  <2>2. RowsAreCounted'
    BY <1>18, WorkersAssumption DEF ProcessInv, WorkersTypes, RowsAreCounted, Leased,
       Handled, Enter
  <2>3. LeasesAreHeld'
    BY <1>18, WorkersAssumption DEF ProcessInv, WorkersTypes, LeasesAreHeld, Timed,
       Handled, Enter
  <2>4. InTime'
    BY <1>18, WorkersAssumption DEF ProcessInv, WorkersTypes, InTime, Timed, Handled,
       Enter
  <2>5. NothingFailed'
    BY <1>18, WorkersAssumption DEF ProcessInv, WorkersTypes, NothingFailed, Timed,
       LeasesAreHeld, Handled, Enter
  <2>. QED
    BY <2>1, <2>2, <2>3, <2>4, <2>5 DEF ProcessInv
<1>19. ASSUME NEW w \in Workers, Finish(w) PROVE ProcessInv'
  <2>1. WorkersTypes'
    <3>1. at' \in [Workers -> {"claim", "idle", "claimed", "handle", "finish", "ended"}]
      BY <1>19, WorkersAssumption DEF ProcessInv, WorkersTypes, Finish, MayFinish, Enter
    <3>2. feed' \in [Workers -> Feeds \union {Free}] /\ left' \in [Workers -> 0 .. PrepTime + HandleTimeout + FinalizeTimeout]
      BY <1>19, WorkersAssumption DEF ProcessInv, WorkersTypes, Finish, MayFinish, Enter
    <3>3. leases' \in [Feeds -> Workers \union {Free, Elsewhere, Orphan}]
      BY <1>19, WorkersAssumption DEF ProcessInv, WorkersTypes, Finish, MayFinish, Enter
    <3>. QED
      BY <1>19, <3>1, <3>2, <3>3 DEF ProcessInv, WorkersTypes, Finish, MayFinish, Enter
  <2>2. RowsAreCounted'
    BY <1>19, WorkersAssumption DEF ProcessInv, LeasesAreHeld, Timed, WorkersTypes,
       RowsAreCounted, Leased, Finish, MayFinish, Enter
  <2>3. LeasesAreHeld'
    BY <1>19, WorkersAssumption DEF ProcessInv, WorkersTypes, LeasesAreHeld, Timed,
       Finish, MayFinish, Enter
  <2>4. InTime'
    BY <1>19, WorkersAssumption DEF ProcessInv, WorkersTypes, InTime, Timed, Finish,
       MayFinish, Enter
  <2>5. NothingFailed'
    BY <1>19, WorkersAssumption DEF ProcessInv, WorkersTypes, NothingFailed, Timed,
       LeasesAreHeld, Finish, MayFinish, Enter
  <2>. QED
    BY <2>1, <2>2, <2>3, <2>4, <2>5 DEF ProcessInv
<1>20. ASSUME NEW w \in Workers, FinishTimesOut(w) PROVE ProcessInv'
  <2>1. WorkersTypes'
    BY <1>20, WorkersAssumption DEF ProcessInv, LeasesAreHeld, Timed, WorkersTypes,
       FinishTimesOut, Abandon, Return, Enter
  <2>2. RowsAreCounted'
    <3>1. feed[w] \in Feeds /\ leases[feed[w]] = w /\ leases[feed[w]] # Free
      BY <1>20, WorkersAssumption DEF ProcessInv, LeasesAreHeld, Timed, FinishTimesOut,
         Abandon, Return, Enter
    <3>2. \A c \in Feeds : Leased(c)' = Leased(c)
      BY <1>20, <3>1, WorkersAssumption DEF ProcessInv, WorkersTypes, RowsAreCounted,
         Leased, FinishTimesOut, Abandon, Return, Enter
    <3>. QED
      BY <1>20, <3>1, <3>2 DEF ProcessInv, WorkersTypes, RowsAreCounted, Leased,
         FinishTimesOut, Abandon, Return, Enter
  <2>3. LeasesAreHeld'
    BY <1>20, WorkersAssumption DEF ProcessInv, WorkersTypes, LeasesAreHeld, Timed,
       FinishTimesOut, Abandon, Return, Enter
  <2>4. InTime'
    BY <1>20, WorkersAssumption DEF ProcessInv, WorkersTypes, InTime, Timed,
       FinishTimesOut, Abandon, Return, Enter
  <2>5. NothingFailed'
    BY <1>20, WorkersAssumption DEF ProcessInv, WorkersTypes, NothingFailed, Timed,
       LeasesAreHeld, FinishTimesOut, Abandon, Return, Enter
  <2>. QED
    BY <2>1, <2>2, <2>3, <2>4, <2>5 DEF ProcessInv
<1>21. CASE Signal
  <2>1. WorkersTypes'
    BY <1>21, WorkersAssumption DEF ProcessInv, WorkersTypes, Signal
  <2>2. RowsAreCounted'
    BY <1>21, WorkersAssumption DEF ProcessInv, WorkersTypes, RowsAreCounted, Leased,
       Signal
  <2>3. LeasesAreHeld'
    BY <1>21, WorkersAssumption DEF ProcessInv, WorkersTypes, LeasesAreHeld, Timed,
       Signal
  <2>4. InTime'
    BY <1>21, WorkersAssumption DEF ProcessInv, WorkersTypes, InTime, Timed, Signal
  <2>5. NothingFailed'
    BY <1>21, WorkersAssumption DEF ProcessInv, WorkersTypes, NothingFailed, Timed,
       LeasesAreHeld, Signal
  <2>. QED
    BY <2>1, <2>2, <2>3, <2>4, <2>5 DEF ProcessInv
<1>22. CASE Tick
  <2>1. WorkersTypes'
    BY <1>22, WorkersAssumption DEF ProcessInv, WorkersTypes, Tick, MayFinish
  <2>2. RowsAreCounted'
    BY <1>22, WorkersAssumption DEF ProcessInv, WorkersTypes, RowsAreCounted, Leased,
       Tick, MayFinish
  <2>3. LeasesAreHeld'
    BY <1>22, WorkersAssumption DEF ProcessInv, WorkersTypes, LeasesAreHeld, Timed,
       Tick, MayFinish
  <2>4. InTime'
    BY <1>22, WorkersAssumption DEF ProcessInv, WorkersTypes, InTime, Timed, Tick,
       MayFinish
  <2>5. NothingFailed'
    BY <1>22, WorkersAssumption DEF ProcessInv, WorkersTypes, NothingFailed, Timed,
       LeasesAreHeld, Tick, MayFinish
  <2>. QED
    BY <2>1, <2>2, <2>3, <2>4, <2>5 DEF ProcessInv
<1>23. CASE UNCHANGED queueVars
  <2>1. WorkersTypes'
    BY <1>23, WorkersAssumption DEF ProcessInv, WorkersTypes
  <2>2. RowsAreCounted'
    BY <1>23, WorkersAssumption DEF ProcessInv, WorkersTypes, RowsAreCounted, Leased
  <2>3. LeasesAreHeld'
    BY <1>23, WorkersAssumption DEF ProcessInv, WorkersTypes, LeasesAreHeld, Timed
  <2>4. InTime'
    BY <1>23, WorkersAssumption DEF ProcessInv, WorkersTypes, InTime, Timed
  <2>5. NothingFailed'
    BY <1>23, WorkersAssumption DEF ProcessInv, WorkersTypes, NothingFailed, Timed,
       LeasesAreHeld
  <2>. QED
    BY <2>1, <2>2, <2>3, <2>4, <2>5 DEF ProcessInv
<1>. QED
  BY <1>1, <1>2, <1>3, <1>4, <1>5, <1>6, <1>7, <1>8, <1>9, <1>10, <1>11, <1>12, <1>13,
     <1>14, <1>15, <1>16, <1>17, <1>18, <1>19, <1>20, <1>21, <1>22, <1>23
     DEF WorkersNext

THEOREM ProcessInvHolds == WorkersSpec => []ProcessInv
<1>. QED
  BY ProcessBegins, ProcessGoesOn, PTL DEF WorkersSpec

(* A process that ends within its grace period cuts no handler off, and when  *)
(* nothing failed it leaves no lease behind (bot.go:62, message_queue.go:97,  *)
(* message_queue.go:147): WorkersInv in every state.                          *)
THEOREM HandlersAreSpared == WorkersSpec => []WorkersInv
<1>1. ProcessInv => WorkersInv
  <2>. SUFFICES ASSUME ProcessInv PROVE WorkersInv
    OBVIOUS
  <2>. USE Limits
  <2>1. waiting \in [Feeds -> 0 .. MaxMessages + 1 + MaxMishaps]
    BY WorkersAssumption DEF ProcessInv, WorkersTypes, RowsAreCounted, Leased
  <2>2. WorkersTypeOK
    BY <2>1 DEF ProcessInv, WorkersTypes, WorkersTypeOK
  <2>3. HandlersEndThemselves
    BY DEF ProcessInv, WorkersTypes, InTime, HandlersEndThemselves, WorkDone
  <2>4. StopsCleanly
    BY DEF ProcessInv, WorkersTypes, LeasesAreHeld, NothingFailed, Timed, StopsCleanly,
       Ended
  <2>. QED
    BY <2>2, <2>3, <2>4 DEF WorkersInv
<1>. QED
  BY <1>1, ProcessInvHolds, PTL

(* A lease that this process holds belongs to a worker that is at the         *)
(* message, and to no other: what Claim gave out is given back by Finish or   *)
(* left to run out by a worker that returns its error (message_queue.go:61),  *)
(* whatever fails.                                                            *)
LeaseHasWorker == \A c \in Feeds : leases[c] \in Workers => Timed(leases[c]) /\ feed[leases[c]] = c

THEOREM NoLeaseIsForgotten == WorkersSpec => []LeaseHasWorker
<1>1. ProcessInv => LeaseHasWorker
  BY DEF ProcessInv, LeasesAreHeld, LeaseHasWorker
<1>. QED
  BY <1>1, ProcessInvHolds, PTL

==============================================================================
