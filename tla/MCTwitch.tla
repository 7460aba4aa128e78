------------------------------- MODULE MCTwitch -------------------------------
(* Small instances of what keeps the bot at Twitch and of what it asks there, *)
(* for TLC.  Its parts share no state and a behaviour is one part's.          *)
EXTENDS Subscriptions, Websockets, Logins, ModeratedChannels, TwitchCalls

CONSTANTS ch1, b1

VARIABLE part

S(c, b, st, conduit) == [channel |-> c, bot |-> b, status |-> st, conduit |-> conduit]
NoSubs == [id \in Ids |-> None]
NoLeftovers == {NoSubs}
MCLeftovers ==
    {NoSubs,
     [NoSubs EXCEPT ![1] = S(ch1, b1, "enabled", 1), ![2] = S(ch1, b1, "revoked", 1), ![3] = S(ch1, b1, "enabled", 0)]}

(* The synchroniser waits for the first welcome; while the websockets are     *)
(* looked at, everything is subscribed to.                                    *)
Served ==
    /\ runners = [i \in Runners |-> IF i = 1 THEN [Fresh("initial", NoWelcome) EXCEPT !.pc = "ready"] ELSE NoRunner]
    /\ served = 1 /\ started = TRUE /\ drops = 0 /\ rivals = FALSE /\ firstFails = FALSE

Subscribed ==
    /\ subs = [NoSubs EXCEPT ![1] = S(b1, b1, "enabled", 1)]
    /\ assigned = [c \in Channels |-> None]
    /\ bots = Bots /\ conduits = {1}
    /\ owed = 0 /\ lost = FALSE /\ version = 0 /\ faults = 0
    /\ sync = [Idle EXCEPT !.pc = "off"]

NoMods == mods = [b \in Moderators |-> {}]

MCInit ==
    /\ LoginsInit
    /\ ModeratedInit
    /\ CallsInit
    /\ \/ part = "subscriptions" /\ SyncInit /\ Served /\ NoMods
       \/ part = "websockets" /\ WebsocketsInit /\ Subscribed /\ NoMods
       \/ part = "logins" /\ Served /\ Subscribed /\ NoMods
       \/ part = "moderated" /\ Served /\ Subscribed
       \/ part = "calls" /\ Served /\ Subscribed /\ NoMods
    /\ part # "calls" => \A a \in TokenOwners : stored[a] = 1

MCNext ==
    /\ UNCHANGED part
    /\ \/ part = "subscriptions" /\ SyncNext /\ UNCHANGED <<socketVars, loginVars, modVars, callVars>>
       \/ part = "websockets" /\ WebsocketsNext /\ UNCHANGED <<syncVars, loginVars, modVars, callVars>>
       \/ part = "logins" /\ LoginsNext /\ UNCHANGED <<syncVars, socketVars, modVars, callVars>>
       \/ part = "moderated" /\ ModeratedNext /\ UNCHANGED <<syncVars, socketVars, loginVars, callVars>>
       \/ part = "calls" /\ CallsNext /\ UNCHANGED <<syncVars, socketVars, loginVars, modVars>>

(* No step that is fair is enabled in the state where another part stays.     *)
MCSpec ==
    /\ MCInit
    /\ [][MCNext]_<<part, syncVars, socketVars, loginVars, modVars, callVars>>
    /\ SyncFairness /\ WebsocketsFairness /\ LoginsFairness
=============================================================================
