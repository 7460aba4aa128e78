---------------------------- MODULE Subscriptions ----------------------------
(***************************************************************************)
(* Keeping the chat subscriptions at Twitch as the channels want them      *)
(* (internal/conduit SynchronizeSubscriptions, internal/cli conduit,       *)
(* internal/pkg/eventsubsync).  A change of a channel commits first and    *)
(* asks for a synchronisation afterwards, which a crash may prevent; the   *)
(* one synchroniser polls the version of the requests and also runs from   *)
(* time to time.                                                           *)
(***************************************************************************)
EXTENDS Naturals, FiniteSets

CONSTANTS
    Channels,
    Bots,           \* a bot with a token is in its own channel as well
    NoBot,          \* the ID 0 that a bot without a token has
    None,
    Ids,            \* bound: subscriptions at a time
    Leftovers,      \* bound: subscriptions there at the start
    Page,           \* subscriptions on a page of Twitch's list
    Limit,          \* the limit of paginate
    MaxVersion,     \* bound: changes of channels and tokens
    MaxFaults       \* bound: failures, revocations, crashes, lost requests

ASSUME SubscriptionsAssumption ==
    /\ None \notin Bots /\ NoBot \notin Bots /\ None \notin Nat
    /\ {MaxVersion, MaxFaults} \subseteq Nat
    /\ Ids \subseteq Nat \ {0} /\ Page \in Nat \ {0}
    /\ Limit \in Nat /\ IsFiniteSet(Ids) /\ Cardinality(Ids) <= Limit

VARIABLES
    assigned,   \* the bot of an active channel that allows it, or None
    bots,       \* the bots with a token
    owed,       \* changes whose request is still to be written
    lost,       \* whether one never will be
    version,    \* eventsub_sync_requests
    subs,       \* what Twitch has
    conduits,   \* the conduits there, numbered
    sync,       \* the synchroniser: where it is and what it knows
    faults

syncVars == <<assigned, bots, owed, lost, version, subs, conduits, sync, faults>>

Statuses == {"enabled", "revoked"}
Sub == [channel : Channels \union Bots, bot : Bots, status : Statuses, conduit : Nat]

ASSUME LeftoversAssumption == None \notin Sub /\ Leftovers \subseteq [Ids -> Sub \union {None}]

(* The ID of a bot, by the bots that have a token.                            *)
ListBotTwitchTokens == bots
BotMaps(b) == IF b \in ListBotTwitchTokens THEN b ELSE NoBot

ListActiveChannelAssignments == {c \in Channels : assigned[c] # None}

(* The bots' own channels, and the assignments.                               *)
ActiveChannelsByBot ==
    {<<b, b>> : b \in ListBotTwitchTokens} \union
    {<<c, BotMaps(assigned[c])>> : c \in ListActiveChannelAssignments}

Pair(id) == <<subs[id].channel, subs[id].bot>>
Ours(id) == subs[id] # None /\ subs[id].conduit \in conduits
Enabled(id) == Ours(id) /\ subs[id].status = "enabled"

Idle ==
    [pc |-> "poll", conduit |-> None, started |-> "no", read |-> 0, handled |-> None, listed |-> {}, seen |-> None,
     page |-> 0, items |-> {}, periodic |-> FALSE, stale |-> {}, create |-> {}, delete |-> {}]

SyncInit ==
    /\ assigned \in [Channels -> Bots \union {None}]
    /\ bots = Bots
    /\ owed = 0 /\ lost = FALSE /\ version = 0
    /\ subs \in Leftovers
    /\ conduits = {subs[id].conduit : id \in {i \in Ids : subs[i] # None}} \ {0}
    /\ sync = Idle
    /\ faults = 0

Fault == faults < MaxFaults /\ faults' = faults + 1

(* A join, a leave, another bot, a ban: handlers commit, ...                  *)
Change(c) ==
    /\ version + owed < MaxVersion
    /\ \E b \in (Bots \union {None}) \ {assigned[c]} : assigned' = [assigned EXCEPT ![c] = b]
    /\ owed' = owed + 1
    /\ UNCHANGED <<bots, lost, version, subs, conduits, sync, faults>>

(* ... or a bot logs in; ...                                                  *)
LogIn(b) ==
    /\ version + owed < MaxVersion
    /\ b \notin bots /\ bots' = bots \union {b}
    /\ owed' = owed + 1
    /\ UNCHANGED <<assigned, lost, version, subs, conduits, sync, faults>>

(* validateTokens deletes a bot's token, and asks for nothing.                *)
LoseToken(b) ==
    /\ b \in bots /\ bots' = bots \ {b}
    /\ lost' = TRUE
    /\ Fault
    /\ UNCHANGED <<assigned, owed, version, subs, conduits, sync>>

(* ... and flushDeferred writes their request.                                *)
RequestEventsubSync ==
    /\ owed > 0
    /\ owed' = owed - 1
    /\ version' = version + 1
    /\ UNCHANGED <<assigned, bots, lost, subs, conduits, sync, faults>>

LoseRequest ==
    /\ owed > 0
    /\ owed' = owed - 1
    /\ lost' = TRUE
    /\ Fault
    /\ UNCHANGED <<assigned, bots, version, subs, conduits, sync>>

(* Twitch ends a subscription: authorization_revoked and the like.            *)
Revoke(id) ==
    /\ Enabled(id)
    /\ subs' = [subs EXCEPT ![id].status = "revoked"]
    /\ Fault
    /\ UNCHANGED <<assigned, bots, owed, lost, version, conduits, sync>>

At(l) == sync.pc = l
Goto(l) == sync' = [sync EXCEPT !.pc = l]
SyncOnly == UNCHANGED <<assigned, bots, owed, lost, version, subs, conduits>>

(* Run, before it opens websockets: the conduit there is, or else a new one.  *)
GetConduits == conduits
CreateConduit(c) == conduits' = conduits \union {c}

getOrCreateConduit ==
    /\ sync.conduit = None /\ ~At("off")
    /\ \E c \in IF GetConduits = {} THEN {faults + 1} ELSE GetConduits :
           /\ IF GetConduits = {} THEN CreateConduit(c) ELSE UNCHANGED conduits
           /\ sync' = [sync EXCEPT !.conduit = c]
    /\ UNCHANGED <<assigned, bots, owed, lost, version, subs, faults>>

(* s.started: the first attempt of a shard is welcomed and closes it, or, when *)
(* none is, nothing ever will: runWebsocket forgets onWelcome after it.       *)
Connecting == sync.conduit # None /\ sync.started = "no"

Welcomed ==
    /\ Connecting
    /\ sync' = [sync EXCEPT !.started = "yes"]
    /\ SyncOnly /\ UNCHANGED faults

FirstAttemptFails ==
    /\ Connecting
    /\ sync' = [sync EXCEPT !.started = "never"]
    /\ Fault
    /\ SyncOnly

Poll ==
    /\ At("poll")
    /\ sync' = [sync EXCEPT !.read = version, !.periodic = FALSE,
                            !.pc = IF version # sync.handled THEN "list" ELSE "sleep"]
    /\ SyncOnly /\ UNCHANGED faults

(* The select of the loop: the next second, or the interval has passed.       *)
Sleep ==
    /\ At("sleep")
    /\ sync' = [sync EXCEPT !.pc = IF sync.periodic THEN "poll" ELSE "tick"]
    /\ SyncOnly /\ UNCHANGED faults

NextSecond ==
    /\ At("tick")
    /\ Goto("poll")
    /\ SyncOnly /\ UNCHANGED faults

SyncTick ==
    /\ At("tick")
    /\ sync' = [sync EXCEPT !.pc = "list", !.periodic = TRUE]
    /\ SyncOnly /\ UNCHANGED faults

(* A synchronisation waits for the first websocket, be it for ever.           *)
Started == sync.started = "yes"

ListWanted ==
    /\ At("list") /\ Started
    /\ sync' = [sync EXCEPT !.pc = "get", !.seen = ActiveChannelsByBot, !.page = 0, !.items = {}]
    /\ SyncOnly /\ UNCHANGED faults

(* paginate: a page after the cursor, until Twitch gives none or the limit is *)
(* reached.  Each item is what the subscription was when its page was made.   *)
After(cursor) == {id \in Ids : id > cursor /\ subs[id] # None}

GetSubscriptions ==
    LET rest == After(sync.page)
        page == {id \in rest : Cardinality({j \in rest : j < id}) < Page}
        items == sync.items \union {[id |-> id, sub |-> subs[id]] : id \in page}
        over == rest = page \/ Cardinality(items) >= Limit
    IN /\ At("get")
       /\ sync' = [sync EXCEPT !.pc = IF over THEN "classify" ELSE "get", !.items = items,
                               !.page = IF over THEN 0 ELSE CHOOSE id \in page : \A j \in page : j <= id]
       /\ SyncOnly /\ UNCHANGED faults

Wants(sub) == <<sub.channel, sub.bot>>
IdsOf(items) == {i.id : i \in items}
PairsOf(items) == {Wants(i.sub) : i \in items}

(* One item of each pair is actual, the others are stale.                     *)
Classified(own, candidates, wanted) ==
    {[stale |-> IdsOf(own \ actual),
      create |-> wanted \ PairsOf(actual),
      delete |-> {i.id : i \in {j \in actual : Wants(j.sub) \notin wanted}}] :
         actual \in {A \in SUBSET candidates :
             /\ PairsOf(A) = PairsOf(candidates)
             /\ Cardinality(A) = Cardinality(PairsOf(A))}}

OwnItems == {i \in sync.items : i.sub.conduit = sync.conduit}

(* Mutant: subscriptions that Twitch ended count like the enabled ones.       *)
ClassifyAll(wanted) == Classified(OwnItems, OwnItems, wanted)

(* Only enabled subscriptions of this conduit are actual.                     *)
classifyChatSubscriptions(wanted) ==
    Classified(OwnItems, {i \in OwnItems : i.sub.status = "enabled"}, wanted)

Classify ==
    /\ At("classify")
    /\ \E plan \in classifyChatSubscriptions(sync.seen) :
           sync' = [sync EXCEPT !.pc = "apply", !.items = {}, !.stale = plan.stale,
                                !.create = plan.create, !.delete = plan.delete]
    /\ SyncOnly /\ UNCHANGED faults

(* The database or Twitch fails: the loop tries again in a second.            *)
SyncFails ==
    /\ (At("list") /\ Started) \/ At("get")
    /\ sync' = [sync EXCEPT !.pc = "sleep", !.page = 0, !.items = {}, !.seen = None]
    /\ Fault
    /\ SyncOnly

DeleteSubscription(id) == subs' = [subs EXCEPT ![id] = None]

(* Twitch has one subscription of a conduit to a channel for a bot.           *)
CreateChatSubscription(conduit, pair) ==
    LET free == {id \in Ids : subs[id] = None}
        new == [channel |-> pair[1], bot |-> pair[2], status |-> "enabled", conduit |-> conduit]
    IN subs' = IF new \in {subs[id] : id \in Ids} THEN subs
               ELSE [subs EXCEPT ![CHOOSE id \in free : \A j \in free : id <= j] = new]

(* Stale ones are deleted first, then new ones created, then others deleted;  *)
(* an error of one is only logged.                                            *)
DeleteStale ==
    /\ At("apply")
    /\ \E id \in sync.stale :
           /\ sync' = [sync EXCEPT !.stale = @ \ {id}]
           /\ \/ DeleteSubscription(id) /\ UNCHANGED faults
              \/ Fault /\ UNCHANGED subs
    /\ UNCHANGED <<assigned, bots, owed, lost, version, conduits>>

(* A bot without a token cannot subscribe.                                    *)
Create ==
    /\ At("apply") /\ sync.stale = {}
    /\ \E p \in sync.create :
           /\ sync' = [sync EXCEPT !.create = @ \ {p}]
           /\ \/ p[2] = NoBot /\ UNCHANGED <<subs, faults>>
              \/ p[2] # NoBot /\ Fault /\ UNCHANGED subs
              \/ p[2] # NoBot /\ CreateChatSubscription(sync.conduit, p) /\ UNCHANGED faults
    /\ UNCHANGED <<assigned, bots, owed, lost, version, conduits>>

DeleteUnwanted ==
    /\ At("apply") /\ sync.stale = {} /\ sync.create = {}
    /\ \E id \in sync.delete :
           /\ sync' = [sync EXCEPT !.delete = @ \ {id}]
           /\ \/ DeleteSubscription(id) /\ UNCHANGED faults
              \/ Fault /\ UNCHANGED subs
    /\ UNCHANGED <<assigned, bots, owed, lost, version, conduits>>

(* Mutant: the version is read again when the synchronisation is over.        *)
HandledNow == version

HandledVersion == sync.read

SyncDone ==
    /\ At("apply") /\ sync.stale = {} /\ sync.create = {} /\ sync.delete = {}
    /\ sync' = [sync EXCEPT !.pc = "sleep", !.listed = sync.seen, !.seen = None,
                            !.handled = IF sync.periodic THEN @ ELSE HandledVersion]
    /\ SyncOnly /\ UNCHANGED faults

(* The conduit's process begins anew, perhaps so late that Twitch has removed *)
(* its conduit and the subscriptions of that.                                 *)
RestartConduit ==
    /\ sync' = Idle
    /\ \/ UNCHANGED <<subs, conduits>>
       \/ /\ conduits' = {}
          /\ subs' = [id \in Ids |-> IF Ours(id) THEN None ELSE subs[id]]
    /\ Fault
    /\ UNCHANGED <<assigned, bots, owed, lost, version>>

Synchronise ==
    \/ getOrCreateConduit \/ Welcomed
    \/ Poll \/ Sleep \/ ListWanted \/ GetSubscriptions \/ Classify
    \/ DeleteStale \/ Create \/ DeleteUnwanted \/ SyncDone

SyncNext ==
    \/ \E c \in Channels : Change(c)
    \/ \E b \in Bots : LogIn(b) \/ LoseToken(b)
    \/ RequestEventsubSync \/ LoseRequest
    \/ \E id \in Ids : Revoke(id)
    \/ Synchronise \/ NextSecond \/ SyncTick \/ SyncFails \/ FirstAttemptFails \/ RestartConduit

SyncFairness ==
    /\ WF_syncVars(Synchronise)
    /\ WF_syncVars(RequestEventsubSync)
    /\ SF_syncVars(SyncTick)
    /\ WF_syncVars(NextSecond)

SyncSpec == SyncInit /\ [][SyncNext]_syncVars /\ SyncFairness
-----------------------------------------------------------------------------
SyncTypeOK ==
    /\ assigned \in [Channels -> Bots \union {None}] /\ bots \subseteq Bots
    /\ sync.started \in {"no", "yes", "never"}
    /\ sync.started # "no" => sync.conduit # None
    /\ sync.conduit # None => sync.conduit \in conduits
    /\ subs \in [Ids -> Sub \union {None}]
    /\ sync.stale \union sync.delete \subseteq {id \in Ids : subs[id] # None}
    /\ sync.handled = None \/ sync.handled <= version

(* When the last request is handled and none is owed or lost, a whole         *)
(* synchronisation has begun since the last change: a request that arrives    *)
(* during one is not taken for handled (the loop of Main).                    *)
HandledIsCurrent ==
    (sync.handled = version /\ owed = 0 /\ ~lost) => sync.listed = ActiveChannelsByBot

(* Whatever is lost, refused or revoked, in the end each pair that is wanted  *)
(* has one subscription and nothing else has (SynchronizeSubscriptions),      *)
(* unless the first attempts of the process's last websockets failed: then it *)
(* waits for s.started for ever, and nothing is synchronised any more.        *)
AsWanted ==
    /\ \A p \in ActiveChannelsByBot : p[2] # NoBot => Cardinality({id \in Ids : Enabled(id) /\ Pair(id) = p}) = 1
    /\ \A id \in Ids : Ours(id) => Enabled(id) /\ Pair(id) \in ActiveChannelsByBot

SettlesAsWanted == <>[]AsWanted \/ <>[](sync.started = "never")

(* "How often to synchronize subscriptions" (conduit/main.go:34): one that is *)
(* due does not wait for ever (SynchronizeSubscriptions).                     *)
DueSyncsBegin == []<>~At("list")

(* What is taken for handled is handled.                                      *)
SyncInv == SyncTypeOK /\ HandledIsCurrent
=============================================================================
