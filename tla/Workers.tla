------------------------------- MODULE Workers -------------------------------
(* The goroutines of a bot process around the chat message queue: what makes  *)
(* a worker look for a message (the wake channel, NOTIFY, the poll), and how  *)
(* the process stops (the errgroup, the grace period, the time limits).  What *)
(* a claim does with rows and leases is module ChatQueue; here it is a step.  *)
(*                                                                            *)
(*   internal/cli/subcommands/bot/message_queue.go   the workers, the listener*)
(*   internal/cli/subcommands/bot/bot.go             cmd.Main                 *)
(*   internal/db/chatqueue/queue.go                  Listen, notifyWorker     *)
(*   internal/pkg/contextx, internal/pkg/errgroupx                            *)
EXTENDS Integers, FiniteSets

CONSTANTS
    Workers,          \* the goroutines of runMessageWorker
    Feeds,            \* the channels that messages come from
    MaxMessages,      \* bound on the messages that come
    PrepTime,         \* assumed: bound on what a worker does before the handler
    HandleTimeout,    \* the 15s of Bot.handleMessage
    FinalizeTimeout,  \* messageQueueFinalizeTimeout, 10s
    Grace,            \* the 30s of WithGracePeriod
    MaxMishaps,       \* bound on failures
    Free, Elsewhere, Orphan   \* leases: none, another process's, nobody's

ASSUME GraceAssumption ==
    /\ {MaxMessages, PrepTime, HandleTimeout, FinalizeTimeout, Grace, MaxMishaps} \subseteq Nat
    /\ PrepTime + HandleTimeout < Grace
    /\ FinalizeTimeout > 0

ASSUME WorkersAssumption ==
    /\ IsFiniteSet(Workers)
    /\ Free \notin Workers /\ Elsewhere \notin Workers /\ Orphan \notin Workers
    /\ Free # Elsewhere /\ Free # Orphan /\ Elsewhere # Orphan

VARIABLES
    waiting,   \* waiting[c]: rows of c that are pending and have no lease
    leases,    \* leases[c]: who has the lease of c
    arrivals,  \* the messages that have come
    listener,  \* runQueueListener: connecting, listening or ended
    notes,     \* the notifications on its connection
    wake,      \* the number of elements in Queue.wake
    poll,      \* an element is in the poll ticker's channel
    at,        \* at[w]: where w is in runMessageWorker
    feed,      \* feed[w]: the channel of its lease
    left,      \* left[w]: the time its context or PrepTime leaves it
    stopped,   \* the context of Main is cancelled (SIGTERM)
    group,     \* the group's context is cancelled
    since,     \* the time since the signal, up to Grace
    down,      \* the database does not answer
    mishaps    \* the failures so far

messageVars == <<waiting, leases, arrivals>>
wakeVars == <<listener, notes, wake, poll>>
workerVars == <<at, feed, left>>
stopVars == <<stopped, group, since>>
mishapVars == <<down, mishaps>>
queueVars == <<messageVars, wakeVars, workerVars, stopVars, mishapVars>>

WorkersInit ==
    /\ waiting \in [Feeds -> 0 .. 1]
    /\ leases = [c \in Feeds |-> Free]
    /\ arrivals = 0
    /\ listener = "connecting" /\ notes = 0 /\ wake = 0 /\ poll = FALSE
    /\ at = [w \in Workers |-> "claim"]
    /\ feed = [w \in Workers |-> Free]
    /\ left = [w \in Workers |-> 0]
    /\ stopped = FALSE /\ group = FALSE /\ since = 0
    /\ down = FALSE /\ mishaps = 0

(* workCtx, which WithGracePeriod cancels Grace after the signal and Main when *)
(* it returns.  An error in the group does not cancel it.                     *)
WorkDone == stopped /\ since = Grace

notifyWorker == wake' = IF wake < Cardinality(Workers) THEN wake + 1 ELSE wake

Enter(w, pc, time) ==
    /\ at' = [at EXCEPT ![w] = pc]
    /\ left' = [left EXCEPT ![w] = time]

(* A worker returns an error, which cancels the group's context.              *)
Return(w) ==
    /\ Enter(w, "ended", 0)
    /\ feed' = [feed EXCEPT ![w] = Free]
    /\ group' = TRUE
    /\ UNCHANGED <<stopped, since>>

Mishap == mishaps < MaxMishaps /\ mishaps' = mishaps + 1

------------------------------------------------------------------------------
(* The database, and the other processes *)

(* Queue.Enqueue in the conduit; without LISTEN the notification is lost.     *)
Enqueue(c) ==
    /\ ~down
    /\ arrivals < MaxMessages
    /\ arrivals' = arrivals + 1
    /\ waiting' = [waiting EXCEPT ![c] = @ + 1]
    /\ notes' = IF listener = "listening" THEN notes + 1 ELSE notes
    /\ UNCHANGED <<leases, listener, wake, poll, workerVars, stopVars, mishapVars>>

Claimable(c) == waiting[c] > 0 /\ leases[c] = Free

(* A worker of another process claims a message.                              *)
ClaimElsewhere(c) ==
    /\ ~down
    /\ Claimable(c)
    /\ waiting' = [waiting EXCEPT ![c] = @ - 1]
    /\ leases' = [leases EXCEPT ![c] = Elsewhere]
    /\ UNCHANGED <<arrivals, wakeVars, workerVars, stopVars, mishapVars>>

(* It is finished there, or the lease of a message that nobody will finish    *)
(* runs out and it waits again.  Neither wakes a worker here.                 *)
LeaseEnds(c) ==
    /\ leases[c] \in {Elsewhere, Orphan}
    /\ leases' = [leases EXCEPT ![c] = Free]
    /\ waiting' = IF leases[c] = Orphan THEN [waiting EXCEPT ![c] = @ + 1] ELSE waiting
    /\ UNCHANGED <<arrivals, wakeVars, workerVars, stopVars, mishapVars>>

DatabaseFails ==
    /\ ~down /\ down' = TRUE
    /\ Mishap
    /\ UNCHANGED <<messageVars, wakeVars, workerVars, stopVars>>

DatabaseReturns ==
    /\ down /\ down' = FALSE
    /\ UNCHANGED <<mishaps, messageVars, wakeVars, workerVars, stopVars>>

------------------------------------------------------------------------------
(* runQueueListener and the poll ticker *)

(* LISTEN is executed; what came before is looked for once.                   *)
Listen ==
    /\ listener = "connecting" /\ ~group /\ ~down
    /\ listener' = "listening"
    /\ notifyWorker
    /\ UNCHANGED <<notes, poll, messageVars, workerVars, stopVars, mishapVars>>

Notification ==
    /\ listener = "listening" /\ notes > 0 /\ ~group
    /\ notes' = notes - 1
    /\ notifyWorker
    /\ UNCHANGED <<listener, poll, messageVars, workerVars, stopVars, mishapVars>>

(* The connection breaks: retryQueueOperation connects again.                 *)
ListenFails ==
    /\ listener = "listening" /\ Mishap
    /\ listener' = "connecting"
    /\ notes' = 0
    /\ UNCHANGED <<down, wake, poll, messageVars, workerVars, stopVars>>

ListenerReturns ==
    /\ listener # "ended" /\ group
    /\ listener' = "ended"
    /\ notes' = 0
    /\ UNCHANGED <<wake, poll, messageVars, workerVars, stopVars, mishapVars>>

(* Mutant: workers wait to be woken.                                          *)
NeverPoll == FALSE /\ UNCHANGED queueVars

(* pollTicker, which all workers share: an element that nobody took is enough.*)
PollTick ==
    /\ ~poll /\ ~group
    /\ poll' = TRUE
    /\ UNCHANGED <<listener, notes, wake, messageVars, workerVars, stopVars, mishapVars>>

------------------------------------------------------------------------------
(* runMessageWorker *)

(* Claim returns a lease, and wakes another worker.                           *)
Take(w) ==
    /\ at[w] = "claim" /\ ~group /\ ~down
    /\ \E c \in Feeds :
          /\ Claimable(c)
          /\ waiting' = [waiting EXCEPT ![c] = @ - 1]
          /\ leases' = [leases EXCEPT ![c] = w]
          /\ feed' = [feed EXCEPT ![w] = c]
    /\ Enter(w, "claimed", PrepTime)
    /\ notifyWorker
    /\ UNCHANGED <<arrivals, listener, notes, poll, stopVars, mishapVars>>

(* Claim finds nothing, or only rows that another claim has locked.           *)
FindNothing(w) ==
    /\ at[w] = "claim" /\ ~group /\ ~down
    /\ (\A c \in Feeds : ~Claimable(c)) \/ (\E v \in Workers \ {w} : at[v] = "claim")
    /\ Enter(w, "idle", 0)
    /\ UNCHANGED <<feed, messageVars, wakeVars, stopVars, mishapVars>>

(* Its commit succeeds and the answer is lost: it is tried again.             *)
LoseAnswer(w) ==
    /\ at[w] = "claim" /\ ~group /\ ~down /\ Mishap
    /\ \E c \in Feeds :
          /\ Claimable(c)
          /\ waiting' = [waiting EXCEPT ![c] = @ - 1]
          /\ leases' = [leases EXCEPT ![c] = Orphan]
    /\ UNCHANGED <<down, arrivals, wakeVars, workerVars, stopVars>>

(* The first case of retryQueueOperation that is ready after a claim on a     *)
(* context that is cancelled, or during the second's wait after one that      *)
(* failed.                                                                    *)
ClaimCancelled(w) ==
    /\ at[w] = "claim" /\ group
    /\ Return(w)
    /\ UNCHANGED <<messageVars, wakeVars, mishapVars>>

Wait(w) ==
    /\ at[w] = "idle"
    /\ \/ wake > 0 /\ wake' = wake - 1 /\ Enter(w, "claim", 0) /\ UNCHANGED <<poll, feed, stopVars>>
       \/ poll /\ poll' = FALSE /\ Enter(w, "claim", 0) /\ UNCHANGED <<wake, feed, stopVars>>
       \/ group /\ Return(w) /\ UNCHANGED <<wake, poll>>
    /\ UNCHANGED <<listener, notes, messageVars, mishapVars>>

(* The message is old or malformed and goes without a handler, or the handler *)
(* is called.                                                                 *)
Prepare(w) ==
    /\ at[w] = "claimed"
    /\ Enter(w, "finish", FinalizeTimeout) \/ Enter(w, "handle", HandleTimeout)
    /\ UNCHANGED <<feed, messageVars, wakeVars, stopVars, mishapVars>>

Abandon(w) == leases' = [leases EXCEPT ![feed[w]] = Orphan]

(* getBotLoginMap fails: the worker returns and leaves the lease.             *)
NoLogins(w) ==
    /\ at[w] = "claimed"
    /\ \/ down /\ UNCHANGED mishapVars
       \/ Mishap /\ UNCHANGED down
    /\ Abandon(w)
    /\ Return(w)
    /\ UNCHANGED <<waiting, arrivals, wakeVars>>

(* HandleQueued returns, whatever it has done.                                *)
Handled(w) ==
    /\ at[w] = "handle"
    /\ Enter(w, "finish", FinalizeTimeout)
    /\ UNCHANGED <<feed, messageVars, wakeVars, stopVars, mishapVars>>

(* Mutant: it ends with the context of the worker.                            *)
FinishWithGroup(w) == at[w] = "finish" /\ ~down /\ ~group

(* finishQueueOperation, whose context is cancelled by its time limit alone:  *)
(* Complete or Fail commits, or finds the lease lost ...                      *)
MayFinish(w) == at[w] = "finish" /\ ~down

Finish(w) ==
    /\ MayFinish(w)
    /\ leases' = [leases EXCEPT ![feed[w]] = Free]
    /\ feed' = [feed EXCEPT ![w] = Free]
    /\ Enter(w, "claim", 0)
    /\ UNCHANGED <<waiting, arrivals, wakeVars, stopVars, mishapVars>>

(* ... or the time limit ends the retries and the worker returns its error.   *)
FinishTimesOut(w) ==
    /\ at[w] = "finish" /\ left[w] = 0
    /\ Abandon(w)
    /\ Return(w)
    /\ UNCHANGED <<waiting, arrivals, wakeVars, mishapVars>>

------------------------------------------------------------------------------
(* Time and the signal *)

Signal ==
    /\ ~stopped /\ stopped' = TRUE
    /\ group' = TRUE
    /\ UNCHANGED <<since, messageVars, wakeVars, workerVars, mishapVars>>

Timed(w) == at[w] \in {"claimed", "handle", "finish"}

(* Preparation and handlers end in their time; finishing does, too, as long as *)
(* the database answers.                                                      *)
Tick ==
    /\ \A w \in Workers : Timed(w) => left[w] > IF MayFinish(w) THEN 1 ELSE 0
    /\ left' = [w \in Workers |-> IF Timed(w) THEN left[w] - 1 ELSE 0]
    /\ since' = IF stopped /\ since < Grace THEN since + 1 ELSE since
    /\ left' # left \/ since' # since
    /\ UNCHANGED <<at, feed, stopped, group, messageVars, wakeVars, mishapVars>>

WorkersNext ==
    \/ \E c \in Feeds : Enqueue(c) \/ ClaimElsewhere(c) \/ LeaseEnds(c)
    \/ DatabaseFails \/ DatabaseReturns
    \/ Listen \/ Notification \/ ListenFails \/ ListenerReturns \/ PollTick
    \/ \E w \in Workers :
          \/ Take(w) \/ FindNothing(w) \/ LoseAnswer(w) \/ ClaimCancelled(w) \/ Wait(w)
          \/ Prepare(w) \/ NoLogins(w) \/ Handled(w) \/ Finish(w) \/ FinishTimesOut(w)
    \/ Signal \/ Tick

Serve(w) == FindNothing(w) \/ ClaimCancelled(w) \/ Wait(w) \/ Prepare(w) \/ Handled(w) \/ Finish(w) \/ FinishTimesOut(w)

(* The ticker, the listener and every worker go on; a scan does not pass over *)
(* what another one has locked for ever; leases end; time goes on.  The       *)
(* database may stay away.                                                    *)
WorkersFairness ==
    /\ WF_queueVars(PollTick) /\ WF_queueVars(ListenerReturns) /\ WF_queueVars(Tick)
    /\ \A w \in Workers : WF_queueVars(Serve(w)) /\ SF_queueVars(Take(w))
    /\ \A c \in Feeds : WF_queueVars(LeaseEnds(c))

WorkersSpec == WorkersInit /\ [][WorkersNext]_queueVars /\ WorkersFairness

------------------------------------------------------------------------------
(* Properties *)

WorkersTypeOK ==
    /\ waiting \in [Feeds -> 0 .. MaxMessages + 1 + MaxMishaps]
    /\ leases \in [Feeds -> Workers \union {Free, Elsewhere, Orphan}]
    /\ listener \in {"connecting", "listening", "ended"}
    /\ notes \in 0 .. MaxMessages /\ wake \in 0 .. Cardinality(Workers) /\ poll \in BOOLEAN
    /\ at \in [Workers -> {"claim", "idle", "claimed", "handle", "finish", "ended"}]
    /\ left \in [Workers -> 0 .. PrepTime + HandleTimeout + FinalizeTimeout]
    /\ since \in 0 .. Grace

(* A signal does not cut off a handler: the grace period outlasts whatever    *)
(* was claimed before the signal (bot.go:62, message_queue.go:97).            *)
HandlersEndThemselves == \A w \in Workers : at[w] = "handle" => ~WorkDone

Ended == listener = "ended" /\ \A w \in Workers : at[w] = "ended"

(* A process that is stopped leaves no lease behind unless something failed:  *)
(* the message would be handled after the lease runs out, or dropped as stale *)
(* (message_queue.go:147).                                                    *)
StopsCleanly == Ended /\ mishaps = 0 => \A c \in Feeds : leases[c] \in {Free, Elsewhere}

WorkersInv == WorkersTypeOK /\ HandlersEndThemselves /\ StopsCleanly

(* A message that can be claimed is, although the wake channel is full, its   *)
(* notification is lost or its channel comes free without one (queue.go:314,  *)
(* message_queue.go:61): from every state on, unless the database goes or     *)
(* stays away.                                                                *)
WaitingIsTaken == \A c \in Feeds : waiting[c] > 0 ~> (waiting[c] = 0 \/ group \/ down)

(* When one worker returns or a signal comes, the process ends, even if the   *)
(* database does not answer (errgroupx, message_queue.go:146).                *)
ProcessEnds == group ~> Ended

WorkersSettle == WaitingIsTaken /\ ProcessEnds
=============================================================================
