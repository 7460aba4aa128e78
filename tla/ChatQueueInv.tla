---------------------------- MODULE ChatQueueInv ----------------------------
(* The inductive invariants behind the safety properties of ChatQueue.       *)
EXTENDS ChatQueue

(* The last instant, on the database's clock, at which a worker whose clock  *)
(* is slow may still take m for young enough.                                *)
Horizon(m) == sent[m] + MaxAge + Skew
Expired(m) == now > Horizon(m)

Locking == {"scanning", "keying", "leasing"}
Undecided == {"claimed", "accepted"}
Holding == {"claimed", "accepted", "handling", "finishing"}

(* m has been leased to a worker that handled it, or may yet. *)
Taken(m) == handled[m] > 0 \/ \E w \in Workers : pc[w] \in Undecided /\ job[w] = m

(* Nobody who claims m from here on will find it young enough. *)
Closed(m) ==
    \/ Expired(m)
    \/ rowState[m] = "pending" /\ rowToken[m] # NoToken /\ rowUntil[m] > Horizon(m)
    \/ rowState[m] \in {"completed", "failed"} /\ rowDone[m] + Skew >= sent[m]

(* A message in a delivery, in a row or handled was sent, and its timestamp  *)
(* is ahead of the database by no more than the error of Twitch's clock.     *)
SentInv ==
    \A m \in Messages :
        /\ sent[m] <= now + Skew
        /\ delivery[m] # "none" \/ rowState[m] # "absent" \/ handled[m] > 0
              => sent[m] # Unsent
        /\ delivery[m] = "inserting" => rowState[m] = "absent"

(* A running claim has a token.  Its NOW() lies in the past, but not far     *)
(* before its snapshot: what it saw there was sent at most TxLag + Skew      *)
(* after it.                                                                 *)
ClaimInv ==
    \A w \in Workers :
        /\ txNow[w] <= now
        /\ pc[w] \notin {"idle", "down"} => token[w] \in Tokens
        /\ pc[w] = "begun" => now <= txNow[w] + TxLag
        /\ \A m \in cand[w] : rowState[m] # "absent" /\ sent[m] <= txNow[w] + TxLag + Skew
        /\ pc[w] \in Engaged
              => /\ sent[job[w]] # Unsent
                 /\ sent[job[w]] <= txNow[w] + TxLag + Skew

(* Locks are exclusive, are held during a claim's scan only, and keep the    *)
(* row that the scan has picked as it was picked.                            *)
LockInv ==
    /\ \A w \in Workers :
          /\ pc[w] \notin Locking => rowLocks[w] = {} /\ keyLocks[w] = {} /\ cand[w] = {}
          /\ pc[w] \in {"keying", "leasing"} => job[w] \in rowLocks[w]
          /\ pc[w] = "leasing"
                => ChannelOf[job[w]] \in keyLocks[w] /\ Claimable(job[w], txNow[w])
          /\ \A m \in rowLocks[w] : rowState[m] # "absent"
    /\ \A v, w \in Workers :
          v # w => rowLocks[v] \intersect rowLocks[w] = {}
                   /\ keyLocks[v] \intersect keyLocks[w] = {}

(* At most one of those who may handle m will pass the age check.            *)
OnceInv ==
    /\ \A m \in Messages : handled[m] <= 1 /\ (Taken(m) => Closed(m))
    /\ \A w \in Workers : pc[w] = "accepted" => handled[job[w]] = 0
    /\ \A w \in Workers :
          pc[w] = "claimed" /\ ~Expired(job[w]) => handled[job[w]] = 0
    /\ \A v, w \in Workers :
          v # w /\ pc[v] \in Undecided /\ pc[w] \in Undecided /\ job[v] = job[w]
             => Expired(job[v]) /\ (pc[v] = "claimed" \/ pc[w] = "claimed")

(* The inductive invariant that gives HandledAtMostOnce.                     *)
AtMostOnceInv == TypeOK /\ SentInv /\ ClaimInv /\ LockInv /\ OnceInv

(* Tokens of running claims differ, none is on a row but its own, and rows   *)
(* that are not pending have none.                                           *)
TokenInv ==
    /\ \A m \in Messages : rowState[m] # "pending" => rowToken[m] = NoToken
    /\ \A w \in Workers :
          /\ pc[w] \in {"idle", "down"} => token[w] = NoToken
          /\ token[w] # NoToken =>
                /\ \A m \in Messages :
                      rowToken[m] = token[w] => job[w] = m /\ pc[w] \in Holding
                /\ \A c \in Channels :
                      keyToken[c] = token[w]
                         => pc[w] \in Holding /\ ChannelOf[job[w]] = c
    /\ \A v, w \in Workers : v # w /\ token[v] # NoToken => token[v] # token[w]

(* While its lease lasts, the channel is leased to the worker that holds it, *)
(* and a punctual worker has left its handler by then.                       *)
HolderInv ==
    \A w \in Workers :
        /\ pc[w] \in {"claimed", "accepted", "handling"}
              => \/ now >= txNow[w] + LeaseDuration
                 \/ /\ keyToken[ChannelOf[job[w]]] = token[w]
                    /\ keyUntil[ChannelOf[job[w]]] = txNow[w] + LeaseDuration
        /\ Punctual =>
              /\ pc[w] \in {"begun", "claimed", "accepted"} \union Locking
                    => now <= txNow[w] + PrepBound
              /\ pc[w] = "handling"
                    => /\ now <= deadline[w]
                       /\ deadline[w] <= txNow[w] + PrepBound + HandleTimeout

(* The inductive invariant that gives LeasesAgree and ChannelExclusive.      *)
LeaseInv == AtMostOnceInv /\ TokenInv /\ HolderInv /\ LeasesAgree

(* m is too old at t, on the database's clock, for a worker whose clock is   *)
(* fast.                                                                     *)
Late(m, t) == t + Skew > sent[m] + MaxAge

(* A message that is being handled counts as handled, and a worker that      *)
(* means to complete one that was not has found it too old.                  *)
DropInv ==
    \A w \in Workers :
        /\ pc[w] = "handling" => handled[job[w]] > 0
        /\ pc[w] = "finishing" /\ outcome[w] = "completed" /\ handled[job[w]] = 0
              => Late(job[w], now)

(* The inductive invariant that gives OnlyStaleDropped.                      *)
StaleInv == LeaseInv /\ DropInv /\ OnlyStaleDropped
=============================================================================
