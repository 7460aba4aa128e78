------------------------------ MODULE ChatQueue ------------------------------
(***************************************************************************)
(* The incoming chat-message queue of hortbot: the conduit process that    *)
(* receives EventSub notifications and enqueues them, the PostgreSQL       *)
(* tables chat_message_queue and chat_message_queue_keys, the bot workers  *)
(* that claim, handle and finish messages, and the queue maintenance.      *)
(*                                                                         *)
(*   internal/db/chatqueue/queue.go          the queue's operations        *)
(*   internal/db/queries/chatqueue.sql       the statements they run       *)
(*   internal/cli/subcommands/bot/message_queue.go      the worker loop    *)
(*   internal/cli/subcommands/conduit/main.go           the producer       *)
(*                                                                         *)
(* A transaction that only touches rows it already owns is one action.     *)
(* Claim is not: SELECT ... FOR UPDATE OF q, k SKIP LOCKED locks the row   *)
(* of a message and then the row of its channel, one at a time, and keeps  *)
(* every lock it obtained until the transaction ends, so its scan is       *)
(* modelled lock by lock.  Time is the clock of the database server.  The  *)
(* other machines read it with an error of at most Skew.                   *)
(***************************************************************************)
EXTENDS Integers, FiniteSets

CONSTANTS
    Messages,         \* EventSub message IDs; their order is that of message_id
    Channels,         \* broadcaster logins
    ChannelOf,        \* the channel a message was written in
    Malformed,        \* the messages whose payload does not decode
    Workers,          \* the goroutines running runMessageWorker, in all processes
    Tokens,           \* lease tokens
    MaxAge,           \* bot flag MaxAge: the oldest message a worker handles
    Slack,            \* the 15s a lease outlives the age limit
    MinLease,         \* the shortest lease, 30s
    PendingRetention, DedupeDuration, FailedRetention, CleanupBatchSize,
    HandleTimeout,    \* the 15s deadline of Bot.handleMessage
    Skew,             \* bound on the error of a clock other than the database's
    TxLag,            \* bound on the time from BEGIN to the claim's snapshot
    Punctual,         \* whether workers keep to PrepBound and HandleTimeout
    PrepBound         \* then: bound on the time from a claim's BEGIN to the
                      \* start of the handler

ASSUME DataAssumption ==
    /\ Messages \subseteq Nat
    /\ Tokens \subseteq Nat
    /\ ChannelOf \in [Messages -> Channels]
    /\ Punctual \in BOOLEAN

ASSUME DurationAssumption ==
    {MaxAge, Slack, MinLease, PendingRetention, DedupeDuration, FailedRetention,
     CleanupBatchSize, HandleTimeout, Skew, TxLag, PrepBound} \subseteq Nat

(* max(30*time.Second, maxAge+15*time.Second) *)
LeaseDuration == IF MinLease > MaxAge + Slack THEN MinLease ELSE MaxAge + Slack

(* With its defaults the program has MaxAge = Slack = 15s, MinLease = 30s,  *)
(* DedupeDuration = 5min, PendingRetention = 1h and FailedRetention = 24h:  *)
(* it tolerates clocks with errors up to 7s.                                *)
ASSUME TimingAssumption ==
    /\ Slack > 2 * Skew + TxLag
    /\ DedupeDuration > MaxAge + 3 * Skew
    /\ FailedRetention > MaxAge + 3 * Skew

ASSUME PunctualAssumption == Punctual => PrepBound + HandleTimeout < LeaseDuration

NoToken == -1
NoMessage == -1
Unsent == -1

VARIABLES
    now,        \* the database server's clock
    sent,       \* sent[m]: the metadata timestamp Twitch gave m, or Unsent
    delivery,   \* delivery[m]: what newNotificationHandler is doing with m
    stamp,      \* stamp[m]: the EnqueuedAt that delivery carries
    rowState,   \* the row of m: absent, pending, completed or failed
    rowEnq,     \*   enqueued_at
    rowToken,   \*   lease_token
    rowUntil,   \*   lease_until
    rowDone,    \*   completed_at or failed_at
    keyToken,   \* the row of a channel: lease_token
    keyUntil,   \*   lease_until
    pc,         \* where worker w is in runMessageWorker
    txNow,      \* NOW() of its claim transaction
    token,      \* the token of its claim
    job,        \* the message it is looking at, or holds a lease on
    cand,       \* the rows its claim's snapshot still has to offer
    rowLocks,   \* the queue rows its claim transaction has locked
    keyLocks,   \* the channel rows its claim transaction has locked
    deadline,   \* when its handler's context expires
    outcome,    \* how it is finishing its message
    handled     \* handled[m]: how often HandleQueued was called with m

rowVars    == <<rowState, rowEnq, rowToken, rowUntil, rowDone>>
keyVars    == <<keyToken, keyUntil>>
lockVars   == <<cand, rowLocks, keyLocks>>
claimVars  == <<txNow, token>>
workVars   == <<deadline, outcome>>
wireVars   == <<sent, delivery, stamp>>
workerVars == <<pc, job, claimVars, lockVars, workVars>>
vars       == <<now, wireVars, rowVars, keyVars, workerVars, handled>>

------------------------------------------------------------------------------
(* Helpers *)

(* What time.Now() may return on a machine other than the database's. *)
Clock == {a \in 0 .. (now + Skew) : now <= a + Skew}

(* A mutant: a lease that nobody releases lasts for ever. *)
LeaseFreeReleasedOnly(tok, until, n) == tok = NoToken

(* lease_until IS NULL OR lease_until <= n *)
LeaseFree(tok, until, n) == tok = NoToken \/ until <= n

RowFree(m, n) == rowState[m] = "pending" /\ LeaseFree(rowToken[m], rowUntil[m], n)
KeyFree(c, n) == LeaseFree(keyToken[c], keyUntil[c], n)

(* The WHERE clause of ChatQueueClaim in a transaction with NOW() = n. *)
Claimable(m, n) == RowFree(m, n) /\ KeyFree(ChannelOf[m], n)

(* ORDER BY q.enqueued_at, q.message_id *)
Before(m, n) == rowEnq[m] < rowEnq[n] \/ (rowEnq[m] = rowEnq[n] /\ m < n)

(* A row lock somebody else holds, which SKIP LOCKED passes over.  A key is *)
(* also locked by a transaction that inserts a message of the channel: the  *)
(* foreign key takes FOR KEY SHARE on it, and FOR UPDATE conflicts.         *)
RowLocked(w, m) == \E v \in Workers \ {w} : m \in rowLocks[v]
KeyClaimed(w, c) == \E v \in Workers \ {w} : c \in keyLocks[v]
KeyShared(c) == \E m \in Messages : delivery[m] = "inserting" /\ ChannelOf[m] = c
KeyLocked(w, c) == KeyClaimed(w, c) \/ KeyShared(c)

(* xid.New() never repeats, so a token differs from every one still stored. *)
UsedTokens == {rowToken[m] : m \in Messages} \union {keyToken[c] : c \in Channels}
                 \union {token[w] : w \in Workers}
FreshTokens == Tokens \ UsedTokens

------------------------------------------------------------------------------
Init ==
    /\ now = 0
    /\ sent = [m \in Messages |-> Unsent]
    /\ delivery = [m \in Messages |-> "none"]
    /\ stamp = [m \in Messages |-> 0]
    /\ rowState = [m \in Messages |-> "absent"]
    /\ rowEnq = [m \in Messages |-> 0]
    /\ rowToken = [m \in Messages |-> NoToken]
    /\ rowUntil = [m \in Messages |-> 0]
    /\ rowDone = [m \in Messages |-> 0]
    /\ keyToken = [c \in Channels |-> NoToken]
    /\ keyUntil = [c \in Channels |-> 0]
    /\ pc = [w \in Workers |-> "idle"]
    /\ txNow = [w \in Workers |-> 0]
    /\ token = [w \in Workers |-> NoToken]
    /\ job = [w \in Workers |-> NoMessage]
    /\ cand = [w \in Workers |-> {}]
    /\ rowLocks = [w \in Workers |-> {}]
    /\ keyLocks = [w \in Workers |-> {}]
    /\ deadline = [w \in Workers |-> 0]
    /\ outcome = [w \in Workers |-> "none"]
    /\ handled = [m \in Messages |-> 0]

------------------------------------------------------------------------------
(* The conduit process *)

(* A notification reaches newNotificationHandler, which stamps EnqueuedAt.  *)
(* Twitch may deliver a message again, at any time, with the same ID and    *)
(* the same timestamp.                                                      *)
Receive(m) ==
    /\ delivery[m] = "none"
    /\ \/ sent[m] # Unsent /\ UNCHANGED sent
       \/ /\ sent[m] = Unsent
          /\ \E t \in 0 .. (now + Skew) : sent' = [sent EXCEPT ![m] = t]
    /\ \E a \in Clock : stamp' = [stamp EXCEPT ![m] = a]
    /\ delivery' = [delivery EXCEPT ![m] = "received"]
    /\ UNCHANGED <<now, rowVars, keyVars, workerVars, handled>>

(* The handler is done with the notification. *)
EndDelivery(m) ==
    /\ delivery' = [delivery EXCEPT ![m] = "none"]
    /\ stamp' = [stamp EXCEPT ![m] = 0]

(* ON CONFLICT DO NOTHING: the ID is queued, or retained as a tombstone. *)
EnqueueDuplicate(m) ==
    /\ delivery[m] = "received"
    /\ rowState[m] # "absent"
    /\ EndDelivery(m)
    /\ UNCHANGED <<now, sent, rowVars, keyVars, workerVars, handled>>

(* The INSERT, not yet committed; it waits for a claim that locked the key. *)
EnqueueInsert(m) ==
    /\ delivery[m] = "received"
    /\ rowState[m] = "absent"
    /\ \A w \in Workers : ChannelOf[m] \notin keyLocks[w]
    /\ delivery' = [delivery EXCEPT ![m] = "inserting"]
    /\ UNCHANGED <<now, sent, stamp, rowVars, keyVars, workerVars, handled>>

(* The commit.  Its answer may be lost, and then the handler tries again. *)
EnqueueCommit(m) ==
    /\ delivery[m] = "inserting"
    /\ rowState' = [rowState EXCEPT ![m] = "pending"]
    /\ rowEnq' = [rowEnq EXCEPT ![m] = stamp[m]]
    /\ \/ EndDelivery(m)
       \/ delivery' = [delivery EXCEPT ![m] = "received"] /\ UNCHANGED stamp
    /\ UNCHANGED <<now, sent, rowToken, rowUntil, rowDone, keyVars, workerVars, handled>>

(* The conduit process ends, or enqueueCtx expires, before the commit. *)
DropDelivery(m) ==
    /\ delivery[m] \in {"received", "inserting"}
    /\ EndDelivery(m)
    /\ UNCHANGED <<now, sent, rowVars, keyVars, workerVars, handled>>

------------------------------------------------------------------------------
(* A worker: Queue.Claim *)

(* The claim's transaction ends, and with it its locks. *)
EndClaim(w) ==
    /\ cand' = [cand EXCEPT ![w] = {}]
    /\ rowLocks' = [rowLocks EXCEPT ![w] = {}]
    /\ keyLocks' = [keyLocks EXCEPT ![w] = {}]

(* An iteration of the loop is over: its token and its lease are forgotten. *)
EndIteration(w, next) ==
    /\ EndClaim(w)
    /\ pc' = [pc EXCEPT ![w] = next]
    /\ txNow' = [txNow EXCEPT ![w] = 0]
    /\ token' = [token EXCEPT ![w] = NoToken]
    /\ job' = [job EXCEPT ![w] = NoMessage]
    /\ deadline' = [deadline EXCEPT ![w] = 0]
    /\ outcome' = [outcome EXCEPT ![w] = "none"]

(* xid.New() and BEGIN, which fixes NOW(). *)
ClaimBegin(w) ==
    /\ pc[w] = "idle"
    /\ FreshTokens # {}
    /\ token' = [token EXCEPT ![w] = CHOOSE t \in FreshTokens : TRUE]
    /\ txNow' = [txNow EXCEPT ![w] = now]
    /\ pc' = [pc EXCEPT ![w] = "begun"]
    /\ UNCHANGED <<now, wireVars, rowVars, keyVars, job, lockVars, workVars, handled>>

(* The snapshot of ChatQueueClaim. *)
ClaimSnapshot(w) ==
    /\ pc[w] = "begun"
    /\ cand' = [cand EXCEPT ![w] = {m \in Messages : Claimable(m, txNow[w])}]
    /\ pc' = [pc EXCEPT ![w] = "scanning"]
    /\ UNCHANGED <<now, wireVars, rowVars, keyVars, job, claimVars,
                   rowLocks, keyLocks, workVars, handled>>

IsNext(w, m) == m \in cand[w] /\ \A n \in cand[w] \ {m} : Before(m, n)

(* The next candidate's queue row is locked by another transaction. *)
SkipRow(w) ==
    /\ pc[w] = "scanning"
    /\ \E m \in Messages :
          /\ IsNext(w, m)
          /\ RowLocked(w, m)
          /\ cand' = [cand EXCEPT ![w] = @ \ {m}]
    /\ UNCHANGED <<now, wireVars, rowVars, keyVars, pc, job, claimVars,
                   rowLocks, keyLocks, workVars, handled>>

LockRow(w) ==
    /\ pc[w] = "scanning"
    /\ \E m \in Messages :
          /\ IsNext(w, m)
          /\ ~RowLocked(w, m)
          /\ rowLocks' = [rowLocks EXCEPT ![w] = @ \union {m}]
          /\ job' = [job EXCEPT ![w] = m]
    /\ pc' = [pc EXCEPT ![w] = "keying"]
    /\ UNCHANGED <<now, wireVars, rowVars, keyVars, claimVars, cand, keyLocks, workVars, handled>>

(* The channel's row is locked: the candidate is passed over, but the lock  *)
(* on its queue row stays until the transaction ends.                       *)
SkipKey(w) ==
    /\ pc[w] = "keying"
    /\ KeyLocked(w, ChannelOf[job[w]])
    /\ cand' = [cand EXCEPT ![w] = @ \ {job[w]}]
    /\ pc' = [pc EXCEPT ![w] = "scanning"]
    /\ UNCHANGED <<now, wireVars, rowVars, keyVars, job, claimVars,
                   rowLocks, keyLocks, workVars, handled>>

(* A mutant: the claim trusts its snapshot. *)
LockKeyUnchecked(w) ==
    /\ pc[w] = "keying"
    /\ ~KeyLocked(w, ChannelOf[job[w]])
    /\ keyLocks' = [keyLocks EXCEPT ![w] = @ \union {ChannelOf[job[w]]}]
    /\ pc' = [pc EXCEPT ![w] = "leasing"]
    /\ UNCHANGED <<now, wireVars, rowVars, keyVars, job, claimVars, cand, rowLocks,
                   workVars, handled>>

(* Mutant: only the message's own lease is looked at again.                 *)
LockKeyRowOnly(w) ==
    /\ pc[w] = "keying"
    /\ ~KeyLocked(w, ChannelOf[job[w]])
    /\ keyLocks' = [keyLocks EXCEPT ![w] = @ \union {ChannelOf[job[w]]}]
    /\ \/ /\ RowFree(job[w], txNow[w])
          /\ pc' = [pc EXCEPT ![w] = "leasing"]
          /\ UNCHANGED cand
       \/ /\ ~RowFree(job[w], txNow[w])
          /\ pc' = [pc EXCEPT ![w] = "scanning"]
          /\ cand' = [cand EXCEPT ![w] = @ \ {job[w]}]
    /\ UNCHANGED <<now, wireVars, rowVars, keyVars, job, claimVars, rowLocks, workVars, handled>>

(* Both rows are locked, and READ COMMITTED evaluates the WHERE clause      *)
(* again on what they hold now.                                             *)
LockKey(w) ==
    /\ pc[w] = "keying"
    /\ ~KeyLocked(w, ChannelOf[job[w]])
    /\ keyLocks' = [keyLocks EXCEPT ![w] = @ \union {ChannelOf[job[w]]}]
    /\ \/ /\ Claimable(job[w], txNow[w])
          /\ pc' = [pc EXCEPT ![w] = "leasing"]
          /\ UNCHANGED cand
       \/ /\ ~Claimable(job[w], txNow[w])
          /\ pc' = [pc EXCEPT ![w] = "scanning"]
          /\ cand' = [cand EXCEPT ![w] = @ \ {job[w]}]
    /\ UNCHANGED <<now, wireVars, rowVars, keyVars, job, claimVars, rowLocks, workVars, handled>>

(* No row to claim: the worker waits for a wake-up or the next poll. *)
ClaimNothing(w) ==
    /\ pc[w] = "scanning"
    /\ cand[w] = {}
    /\ EndIteration(w, "idle")
    /\ UNCHANGED <<now, wireVars, rowVars, keyVars, handled>>

(* ChatQueueLeaseKey, ChatQueueLeaseMessage and the commit.  When the       *)
(* answer to the commit is lost, the worker claims anew with another token  *)
(* and nobody holds the lease that was written.                             *)
ClaimCommit(w) ==
    /\ pc[w] = "leasing"
    /\ keyToken' = [keyToken EXCEPT ![ChannelOf[job[w]]] = token[w]]
    /\ keyUntil' = [keyUntil EXCEPT ![ChannelOf[job[w]]] = txNow[w] + LeaseDuration]
    /\ rowToken' = [rowToken EXCEPT ![job[w]] = token[w]]
    /\ rowUntil' = [rowUntil EXCEPT ![job[w]] = txNow[w] + LeaseDuration]
    /\ \/ /\ pc' = [pc EXCEPT ![w] = "claimed"]
          /\ EndClaim(w)
          /\ UNCHANGED <<job, claimVars, workVars>>
       \/ EndIteration(w, "idle")
    /\ UNCHANGED <<now, wireVars, rowState, rowEnq, rowDone, handled>>

(* The transaction fails and is rolled back; retryQueueOperation claims again. *)
ClaimAbort(w) ==
    /\ pc[w] \in {"begun", "scanning", "keying", "leasing"}
    /\ EndIteration(w, "idle")
    /\ UNCHANGED <<now, wireVars, rowVars, keyVars, handled>>

------------------------------------------------------------------------------
(* A worker: the message it holds a lease on *)

Finishing(w, o) ==
    /\ pc' = [pc EXCEPT ![w] = "finishing"]
    /\ outcome' = [outcome EXCEPT ![w] = o]

(* A mutant: messages are dropped at the age limit, not beyond it. *)
DiscardStaleEarly(w) ==
    /\ pc[w] = "claimed"
    /\ \E a \in Clock : a - sent[job[w]] >= MaxAge
    /\ Finishing(w, "completed")
    /\ UNCHANGED <<now, wireVars, rowVars, keyVars, job, claimVars, lockVars,
                   deadline, handled>>

(* time.Since(lease.MessageTimestamp) > maxAge: completed without handling. *)
DiscardStale(w) ==
    /\ pc[w] = "claimed"
    /\ \E a \in Clock : a - sent[job[w]] > MaxAge
    /\ Finishing(w, "completed")
    /\ UNCHANGED <<now, wireVars, rowVars, keyVars, job, claimVars, lockVars,
                   deadline, handled>>

RejectPayload(w) ==
    /\ pc[w] = "claimed"
    /\ \E a \in Clock : a - sent[job[w]] <= MaxAge
    /\ job[w] \in Malformed
    /\ Finishing(w, "failed")
    /\ UNCHANGED <<now, wireVars, rowVars, keyVars, job, claimVars, lockVars,
                   deadline, handled>>

(* Young enough and decoded; getBotLoginMap runs before the handler. *)
Accept(w) ==
    /\ pc[w] = "claimed"
    /\ \E a \in Clock : a - sent[job[w]] <= MaxAge
    /\ job[w] \notin Malformed
    /\ pc' = [pc EXCEPT ![w] = "accepted"]
    /\ UNCHANGED <<now, wireVars, rowVars, keyVars, job, claimVars, lockVars, workVars, handled>>

Handle(w) ==
    /\ pc[w] = "accepted"
    /\ pc' = [pc EXCEPT ![w] = "handling"]
    /\ handled' = [handled EXCEPT ![job[w]] = @ + 1]
    /\ deadline' = [deadline EXCEPT ![w] = now + HandleTimeout]
    /\ UNCHANGED <<now, wireVars, rowVars, keyVars, job, claimVars, lockVars, outcome>>

(* HandleQueued returns, with or without an error. *)
HandlerReturns(w) ==
    /\ pc[w] = "handling"
    /\ \E o \in {"completed", "failed"} : Finishing(w, o)
    /\ UNCHANGED <<now, wireVars, rowVars, keyVars, job, claimVars, lockVars,
                   deadline, handled>>

(* A mutant: whoever had the message once may finish it. *)
HoldsLeaseOnce(w) == rowState[job[w]] # "absent"

(* What the WHERE clauses of ChatQueueComplete and ChatQueueFail select. *)
HoldsLease(w) ==
    /\ rowState[job[w]] # "absent"
    /\ rowToken[job[w]] = token[w]
    /\ outcome[w] = "completed" => rowState[job[w]] = "pending"

(* The row locks a finishing transaction has to wait for. *)
Unobstructed(w) == ~RowLocked(w, job[w]) /\ ~KeyClaimed(w, ChannelOf[job[w]])

(* A mutant: the channel is released whoever has it. *)
ReleaseKeyAlways(w) ==
    /\ keyToken' = [keyToken EXCEPT ![ChannelOf[job[w]]] = NoToken]
    /\ keyUntil' = [keyUntil EXCEPT ![ChannelOf[job[w]]] = 0]

(* ChatQueueReleaseKey: the channel is released if this claim still has it. *)
ReleaseKey(w) ==
    IF keyToken[ChannelOf[job[w]]] = token[w]
    THEN /\ keyToken' = [keyToken EXCEPT ![ChannelOf[job[w]]] = NoToken]
         /\ keyUntil' = [keyUntil EXCEPT ![ChannelOf[job[w]]] = 0]
    ELSE UNCHANGED keyVars

(* Queue.Complete or Queue.Fail.  When the answer to its commit is lost     *)
(* finishQueueOperation repeats it, and then finds its lease gone.          *)
Finish(w) ==
    /\ pc[w] = "finishing"
    /\ Unobstructed(w)
    /\ HoldsLease(w)
    /\ rowState' = [rowState EXCEPT ![job[w]] = outcome[w]]
    /\ rowDone' = [rowDone EXCEPT ![job[w]] = now]
    /\ rowToken' = [rowToken EXCEPT ![job[w]] = NoToken]
    /\ rowUntil' = [rowUntil EXCEPT ![job[w]] = 0]
    /\ ReleaseKey(w)
    /\ EndIteration(w, "idle") \/ UNCHANGED workerVars
    /\ UNCHANGED <<now, wireVars, rowEnq, handled>>

(* ErrLeaseLost: the worker goes on to its next claim. *)
FinishLeaseLost(w) ==
    /\ pc[w] = "finishing"
    /\ Unobstructed(w)
    /\ ~HoldsLease(w)
    /\ EndIteration(w, "idle")
    /\ UNCHANGED <<now, wireVars, rowVars, keyVars, handled>>

------------------------------------------------------------------------------
(* Crashes, maintenance and time *)

(* The worker's process ends, in any state: it crashes, is stopped, or a    *)
(* worker returned an error (getBotLoginMap failed, or a message could not  *)
(* be finished in messageQueueFinalizeTimeout).  The database rolls an open *)
(* transaction back.                                                        *)
Crash(w) ==
    /\ pc[w] # "down"
    /\ EndIteration(w, "down")
    /\ UNCHANGED <<now, wireVars, rowVars, keyVars, handled>>

Restart(w) ==
    /\ pc[w] = "down"
    /\ pc' = [pc EXCEPT ![w] = "idle"]
    /\ UNCHANGED <<now, wireVars, rowVars, keyVars, job, claimVars, lockVars, workVars, handled>>

Unlocked(m) == \A w \in Workers : m \notin rowLocks[w]

(* ORDER BY key, message_id FOR UPDATE SKIP LOCKED LIMIT CleanupBatchSize *)
Batches(S, key) ==
    {B \in SUBSET S :
        /\ Cardinality(B) <= CleanupBatchSize
        /\ Cardinality(B) = CleanupBatchSize \/ B = S
        /\ \A m \in B, n \in S \ B : key[m] < key[n] \/ (key[m] = key[n] /\ m < n)}

StaleRows(cutoff) == {m \in Messages : RowFree(m, now) /\ sent[m] <= cutoff /\ Unlocked(m)}

(* A mutant: finished rows are deleted without regard to their age. *)
DoneRowsAnyAge(state, cutoff) == {m \in Messages : rowState[m] = state /\ Unlocked(m)}

DoneRows(state, cutoff) ==
    {m \in Messages : rowState[m] = state /\ rowDone[m] <= cutoff /\ Unlocked(m)}

(* A deleted row is gone from the scans that had it in their snapshot, too. *)
DeleteRows(D) ==
    /\ rowState' = [m \in Messages |-> IF m \in D THEN "absent" ELSE rowState[m]]
    /\ rowEnq' = [m \in Messages |-> IF m \in D THEN 0 ELSE rowEnq[m]]
    /\ rowToken' = [m \in Messages |-> IF m \in D THEN NoToken ELSE rowToken[m]]
    /\ rowUntil' = [m \in Messages |-> IF m \in D THEN 0 ELSE rowUntil[m]]
    /\ rowDone' = [m \in Messages |-> IF m \in D THEN 0 ELSE rowDone[m]]
    /\ cand' = [w \in Workers |-> cand[w] \ D]

(* One call of Queue.Cleanup.  runQueueMaintenance reads the clock once and *)
(* calls it until no batch was full: a is the reading of this pass.         *)
Cleanup ==
    \E a \in 0 .. (now + Skew) :
    \E S \in Batches(StaleRows(a - PendingRetention), sent),
       C \in Batches(DoneRows("completed", a - DedupeDuration), rowDone),
       F \in Batches(DoneRows("failed", a - FailedRetention), rowDone) :
        /\ S \union C \union F # {}
        /\ DeleteRows(S \union C \union F)
        /\ UNCHANGED <<now, wireVars, keyVars, pc, job, claimVars,
                       rowLocks, keyLocks, workVars, handled>>

(* Time passes, but not beyond what a bound on a worker's speed allows. *)
Tick ==
    /\ \A w \in Workers : pc[w] = "begun" => now < txNow[w] + TxLag
    /\ Punctual =>
         \A w \in Workers :
            /\ pc[w] \in {"begun", "scanning", "keying", "leasing", "claimed", "accepted"}
                  => now < txNow[w] + PrepBound
            /\ pc[w] = "handling" => now < deadline[w]
    /\ now' = now + 1
    /\ UNCHANGED <<wireVars, rowVars, keyVars, workerVars, handled>>

------------------------------------------------------------------------------
Producer(m) ==
    \/ Receive(m)
    \/ EnqueueDuplicate(m)
    \/ EnqueueInsert(m)
    \/ EnqueueCommit(m)

Claim(w) ==
    \/ ClaimBegin(w)
    \/ ClaimSnapshot(w)
    \/ SkipRow(w)
    \/ LockRow(w)
    \/ SkipKey(w)
    \/ LockKey(w)
    \/ ClaimNothing(w)
    \/ ClaimCommit(w)

Work(w) ==
    \/ DiscardStale(w)
    \/ RejectPayload(w)
    \/ Accept(w)
    \/ Handle(w)
    \/ HandlerReturns(w)
    \/ Finish(w)
    \/ FinishLeaseLost(w)

Next ==
    \/ \E m \in Messages : Producer(m) \/ DropDelivery(m)
    \/ \E w \in Workers : Claim(w) \/ ClaimAbort(w) \/ Work(w) \/ Crash(w) \/ Restart(w)
    \/ Cleanup
    \/ Tick

Spec == Init /\ [][Next]_vars
------------------------------------------------------------------------------
(* Types *)

States == {"absent", "pending", "completed", "failed"}
PCs == {"down", "idle", "begun", "scanning", "keying", "leasing",
        "claimed", "accepted", "handling", "finishing"}
Engaged == {"keying", "leasing", "claimed", "accepted", "handling", "finishing"}

(* Every variable has its type, and a worker that looks at a message or    *)
(* holds a lease knows which.                                               *)
TypeOK ==
    /\ now \in Nat
    /\ sent \in [Messages -> Nat \union {Unsent}]
    /\ delivery \in [Messages -> {"none", "received", "inserting"}]
    /\ stamp \in [Messages -> Nat]
    /\ rowState \in [Messages -> States]
    /\ rowEnq \in [Messages -> Nat]
    /\ rowToken \in [Messages -> Tokens \union {NoToken}]
    /\ rowUntil \in [Messages -> Nat]
    /\ rowDone \in [Messages -> Nat]
    /\ keyToken \in [Channels -> Tokens \union {NoToken}]
    /\ keyUntil \in [Channels -> Nat]
    /\ pc \in [Workers -> PCs]
    /\ txNow \in [Workers -> Nat]
    /\ token \in [Workers -> Tokens \union {NoToken}]
    /\ job \in [Workers -> Messages \union {NoMessage}]
    /\ \A w \in Workers : pc[w] \in Engaged => job[w] \in Messages
    /\ cand \in [Workers -> SUBSET Messages]
    /\ rowLocks \in [Workers -> SUBSET Messages]
    /\ keyLocks \in [Workers -> SUBSET Channels]
    /\ deadline \in [Workers -> Nat]
    /\ outcome \in [Workers -> {"none", "completed", "failed"}]
    /\ \A w \in Workers : pc[w] = "finishing" => outcome[w] # "none"
    /\ handled \in [Messages -> Nat]

------------------------------------------------------------------------------
(* Safety *)

(* No message is handled twice: not after a lease that ran out under a      *)
(* slow or crashed worker, not when Twitch delivers it again after its row  *)
(* or tombstone was deleted.  A worker that gets it again finds it too old. *)
HandledAtMostOnce == \A m \in Messages : handled[m] <= 1

(* Two messages of one channel are never in the handler at the same time.   *)
(* Only the leases see to this across processes.                            *)
ChannelExclusive ==
    \A v, w \in Workers :
        v # w /\ pc[v] = "handling" /\ pc[w] = "handling"
            => ChannelOf[job[v]] # ChannelOf[job[w]]

(* A message whose lease has not run out belongs to the claim that leased   *)
(* its channel, so no other message of the channel can be claimed.          *)
LeasesAgree ==
    \A m \in Messages :
        rowState[m] = "pending" /\ ~LeaseFree(rowToken[m], rowUntil[m], now)
            => /\ keyToken[ChannelOf[m]] = rowToken[m]
               /\ keyUntil[ChannelOf[m]] = rowUntil[m]

(* A message that was completed without a call of the handler was too old   *)
(* when it was completed, whatever crashed, was retried or came late.       *)
OnlyStaleDropped ==
    \A m \in Messages :
        rowState[m] = "completed" /\ handled[m] = 0
            => rowDone[m] + Skew > sent[m] + MaxAge

(* A lease that has not run out is never taken from its holder: the token   *)
(* stays on the row until that very worker finishes the message.            *)
LiveLeaseStep ==
    \A m \in Messages :
        rowState[m] = "pending" /\ ~LeaseFree(rowToken[m], rowUntil[m], now)
            => \/ rowToken'[m] = rowToken[m]
               \/ \E w \in Workers :
                     /\ pc[w] = "finishing"
                     /\ job[w] = m
                     /\ token[w] = rowToken[m]
LiveLeaseRespected == [][LiveLeaseStep]_vars

(* A finished message is never open again while its row exists, and is not  *)
(* finished a second time with another outcome, however late a Complete or  *)
(* a Fail of an earlier claim arrives.                                      *)
FinishedStep ==
    \A m \in Messages :
        rowState[m] \in {"completed", "failed"}
            => /\ rowState'[m] \in {rowState[m], "absent"}
               /\ rowState'[m] # "absent" => rowDone'[m] = rowDone[m]
FinishedIsFinal == [][FinishedStep]_vars
==============================================================================
