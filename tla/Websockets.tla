------------------------------ MODULE Websockets ------------------------------
(***************************************************************************)
(* The websockets of one shard of the conduit (internal/conduit Run,       *)
(* runWebsocket, runOneWebsocket).  A goroutine keeps one connection open; *)
(* when Twitch asks it to reconnect, a second goroutine opens the          *)
(* successor, whose welcome ends the first.                                *)
(***************************************************************************)
EXTENDS Naturals, FiniteSets

CONSTANTS
    MaxRunners,     \* bound: goroutines of runWebsocket
    MaxDrops        \* bound: failures of connections and of Twitch

ASSUME WebsocketsAssumption == MaxRunners \in Nat \ {0} /\ MaxDrops \in Nat

VARIABLES
    runners,    \* each goroutine
    served,     \* the one whose connection is the shard's session, or 0
    started,    \* the channel of that name is closed
    drops,
    rivals,     \* whether a notification failed on a connection to be replaced
    firstFails  \* whether the first attempt failed

socketVars == <<runners, served, started, drops, rivals, firstFails>>

Runners == 1 .. MaxRunners

\* What a welcome calls: nothing, the cancel of a runner, or onStart.
NoWelcome == 0
OnStart == MaxRunners + 1

Fresh(url, onWelcome) == [pc |-> "dial", url |-> url, onWelcome |-> onWelcome, reconnecting |-> FALSE, cancelled |-> FALSE]
NoRunner == [Fresh("initial", NoWelcome) EXCEPT !.pc = "none"]

WebsocketsInit ==
    /\ runners = [i \in Runners |-> IF i = 1 THEN Fresh("initial", OnStart) ELSE NoRunner]
    /\ served = 0
    /\ started = FALSE
    /\ drops = 0
    /\ rivals = FALSE
    /\ firstFails = FALSE

Drop == drops < MaxDrops /\ drops' = drops + 1
Open(i) == runners[i].pc \in {"welcome", "ready"}
Closed(i) == served' = IF served = i THEN 0 ELSE served

(* What runs when a connection ends: its cancel has nothing left to cancel.   *)
Ends(rs, i) == [j \in Runners |-> IF rs[j].onWelcome = i THEN [rs[j] EXCEPT !.onWelcome = NoWelcome] ELSE rs[j]]

(* Mutant: that a successor was asked for makes no difference.                *)
AlwaysAgain(i) == [Fresh("initial", NoWelcome) EXCEPT !.pc = "wait"]

(* The end of runOneWebsocket without a reason of its own: over, when a       *)
(* successor was asked for.                                                   *)
AfterClose(i) ==
    IF runners[i].reconnecting THEN [runners[i] EXCEPT !.pc = "done"]
    ELSE [Fresh("initial", NoWelcome) EXCEPT !.pc = "wait"]

(* Another error: the goroutine goes on, with the initial URL.                *)
AfterError == [Fresh("initial", NoWelcome) EXCEPT !.pc = "wait"]

FirstFails(i) == firstFails' = (firstFails \/ runners[i].onWelcome = OnStart)

Dial(i) ==
    /\ runners[i].pc = "dial"
    /\ runners[i].url = "initial" \/ \E j \in Runners : runners[j].reconnecting /\ Open(j)
    /\ runners' = [runners EXCEPT ![i].pc = "welcome"]
    /\ UNCHANGED <<served, started, drops, rivals, firstFails>>

(* Twitch no longer knows a reconnect URL when the old connection is gone.    *)
DialFails(i) ==
    /\ runners[i].pc = "dial"
    /\ runners' = Ends([runners EXCEPT ![i] = AfterError], i)
    /\ IF runners[i].url # "initial" /\ ~\E j \in Runners : runners[j].reconnecting /\ Open(j)
       THEN UNCHANGED drops ELSE Drop
    /\ FirstFails(i)
    /\ UNCHANGED <<served, started, rivals>>

Starts(i) == started \/ runners[i].onWelcome = OnStart

Welcome(i) ==
    LET next == runners[i].onWelcome
        rs == [runners EXCEPT ![i].pc = "ready", ![i].onWelcome = NoWelcome]
    IN /\ runners[i].pc = "welcome"
       /\ served' = i
       /\ started' = Starts(i)
       /\ runners' = IF next \in Runners THEN [rs EXCEPT ![next].cancelled = TRUE] ELSE rs
       /\ UNCHANGED <<drops, rivals, firstFails>>

(* setConduitShardSession fails.                                              *)
WelcomeFails(i) ==
    /\ runners[i].pc = "welcome"
    /\ runners' = Ends([runners EXCEPT ![i] = AfterError], i)
    /\ Drop
    /\ Closed(i)
    /\ FirstFails(i)
    /\ UNCHANGED <<started, rivals>>

(* session_reconnect: once for a connection.                                  *)
Reconnect(i) ==
    /\ runners[i].pc = "ready" /\ ~runners[i].reconnecting
    /\ \E j \in Runners :
           /\ runners[j].pc = "none"
           /\ \A k \in Runners : runners[k].pc = "none" => j <= k
           /\ runners' = [runners EXCEPT ![i].reconnecting = TRUE, ![j] = Fresh("reconnect", i)]
    /\ UNCHANGED <<served, started, drops, rivals, firstFails>>

(* The connection breaks, or no keepalive comes in time.                      *)
ReadFails(i) ==
    /\ Open(i)
    /\ runners' = Ends([runners EXCEPT ![i] = AfterClose(i)], i)
    /\ Closed(i)
    /\ IF runners[i].reconnecting THEN UNCHANGED drops ELSE Drop
    /\ FirstFails(i)
    /\ UNCHANGED <<started, rivals>>

(* A notification that is no chat message, or cannot be queued.               *)
NotificationFails(i) ==
    /\ runners[i].pc = "ready"
    /\ runners' = Ends([runners EXCEPT ![i] = AfterError], i)
    /\ Closed(i)
    /\ Drop
    /\ rivals' = (rivals \/ runners[i].reconnecting)
    /\ UNCHANGED <<started, firstFails>>

(* The successor was welcomed: what the old connection has still to deliver   *)
(* is not read.                                                               *)
Cancelled(i) ==
    /\ Open(i) /\ runners[i].cancelled
    /\ runners' = Ends([runners EXCEPT ![i] = AfterClose(i)], i)
    /\ Closed(i)
    /\ UNCHANGED <<started, drops, rivals, firstFails>>

WaitOver(i) ==
    /\ runners[i].pc = "wait"
    /\ runners' = [runners EXCEPT ![i].pc = "dial"]
    /\ UNCHANGED <<served, started, drops, rivals, firstFails>>

WebsocketsNext ==
    \E i \in Runners :
        \/ Dial(i) \/ DialFails(i) \/ Welcome(i) \/ WelcomeFails(i) \/ Reconnect(i)
        \/ ReadFails(i) \/ NotificationFails(i) \/ Cancelled(i) \/ WaitOver(i)

Attempt(i) == Dial(i) \/ DialFails(i) \/ Welcome(i) \/ Cancelled(i) \/ WaitOver(i)
WebsocketsFairness == \A i \in Runners : WF_socketVars(Attempt(i))

WebsocketsSpec == WebsocketsInit /\ [][WebsocketsNext]_socketVars /\ WebsocketsFairness
-----------------------------------------------------------------------------
WebsocketsTypeOK ==
    /\ \A i \in Runners : runners[i].pc \in {"none", "dial", "welcome", "ready", "wait", "done"}
    /\ \A i \in Runners : runners[i].onWelcome \in Runners =>
           LET old == runners[runners[i].onWelcome] IN old.reconnecting /\ old.pc = "ready"
    /\ served # 0 => runners[served].pc = "ready"

Going == {i \in Runners : runners[i].pc \notin {"none", "done"} /\ ~runners[i].reconnecting}

(* A shard has one goroutine that goes on for ever: a second one remains only *)
(* after a notification failed on a connection that was being replaced        *)
(* (runOneWebsocket, errWebsocketClosedForReconnect).                         *)
OneGoesOn == Going # {} /\ (Cardinality(Going) > 1 => rivals)

(* Once nothing breaks any more, the shard stays served, however reconnects   *)
(* and failures met (runWebsocket).                                           *)
ShardIsServed == <>[](served # 0)

(* Synchronisation starts unless the very first attempt failed: runWebsocket  *)
(* forgets onStart after it, and then no welcome starts it.                   *)
StartsUnlessFirstFails == <>(started \/ firstFails)

(* A shard has one goroutine that goes on, its connection is served in the    *)
(* end, and the synchronisation starts unless the first attempt failed.       *)
ServesShard == [](WebsocketsTypeOK /\ OneGoesOn) /\ ShardIsServed /\ StartsUnlessFirstFails
=============================================================================
