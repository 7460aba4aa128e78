---------------------------- MODULE ChannelState ----------------------------
(***************************************************************************)
(* What a session asks of the transient state of its channel               *)
(* (internal/bot/state.go): cooldowns, link permits, confirmations, the    *)
(* warnings of filters and the raffle.  The lock of the channel orders its *)
(* messages; time passes and the cleanup runs in between.                  *)
(***************************************************************************)
EXTENDS Naturals, FiniteSets

CONSTANTS
    Members,          \* users
    Entrants,         \* users who enter the raffle
    MaxClock,         \* bound: the clock
    DefaultCooldown,  \* of commands, when the channel has no cooldown of its own
    ChannelCooldown,  \* channels.cooldown
    NoCooldown,       \* NULL
    RollCooldown,     \* channels.roll_cooldown
    HighlightTime,    \* 60 seconds
    ConfirmTime,      \* 10 seconds
    PermitTime,       \* 5 minutes
    FirstWarning,     \* how long a first warning counts, 1 second
    NextWarning,      \* and the following ones, 1 hour
    MaxCalls          \* bound: how often a user calls each operation

ASSUME ChannelStateAssumption ==
    /\ {MaxClock, DefaultCooldown, RollCooldown, MaxCalls} \subseteq Nat
    /\ ChannelCooldown = NoCooldown \/ ChannelCooldown \in Nat
    /\ {HighlightTime, ConfirmTime, PermitTime, FirstWarning, NextWarning} \subseteq Nat \ {0}

Cooldowns == {"command_cooldown", "roll_cooldown", "ht_cooldown"}

VARIABLES
    clock, expires, entries,   \* as in BotState
    enabled,   \* channels.raffle_enabled
    calls,     \* calls[op][u]: how often u has done it
    uses,      \* uses[key]: how often somebody not exempt was let through
    lastUse    \* lastUse[key]: when somebody was let through last, 0 when nobody was

State == INSTANCE BotState

stateVars == <<clock, expires, entries, enabled, calls, uses, lastUse>>

Counted == {"confirm", "confirmed", "permit", "permitted", "enter", "win"}

ChannelStateInit ==
    /\ clock = 0
    /\ expires = [k \in State!StateKeys |-> 0]
    /\ entries = {}
    /\ enabled = FALSE
    /\ calls = [op \in Counted |-> [u \in Members \union Entrants |-> 0]]
    /\ uses = [key \in Cooldowns |-> 0]
    /\ lastUse = [key \in Cooldowns |-> 0]

Count(op, u) == calls' = [calls EXCEPT ![op][u] = @ + 1]
MayCall(op, u) == calls[op][u] < MaxCalls
-----------------------------------------------------------------------------
(* Cooldowns.  Where moderators are exempt one is not held up, and starts the *)
(* cooldown anew; one of 0 seconds holds nobody up.                           *)

(* Mutant: a moderator leaves the cooldown as it is.                          *)
ModeratorsDoNotMark(key, seconds, exempt) ==
    IF seconds = 0 \/ exempt THEN UNCHANGED expires ELSE State!CheckAndMarkCooldown(key, seconds)

tryCooldown(key, seconds, exempt) ==
    IF seconds = 0 THEN UNCHANGED expires
    ELSE IF exempt THEN State!MarkCooldown(key, seconds)
    ELSE State!CheckAndMarkCooldown(key, seconds)

CommandCooldown == IF ChannelCooldown = NoCooldown THEN DefaultCooldown ELSE ChannelCooldown

TryCooldown(moderator) == tryCooldown("command_cooldown", CommandCooldown, moderator)
TryRollCooldown(moderator) == tryCooldown("roll_cooldown", RollCooldown, moderator)
TryHighlightCooldown == tryCooldown("ht_cooldown", HighlightTime, FALSE)

Seconds(key) ==
    CASE key = "command_cooldown" -> CommandCooldown
      [] key = "roll_cooldown"    -> RollCooldown
      [] key = "ht_cooldown"      -> HighlightTime

(* A handler that tries the cooldown of a key, and goes on.                   *)
Use(key, moderator) ==
    /\ uses[key] < MaxCalls
    /\ \/ key = "command_cooldown" /\ TryCooldown(moderator)
       \/ key = "roll_cooldown" /\ TryRollCooldown(moderator)
       \/ key = "ht_cooldown" /\ TryHighlightCooldown
    /\ IF moderator /\ key # "ht_cooldown" THEN UNCHANGED uses ELSE uses' = [uses EXCEPT ![key] = @ + 1]
    /\ lastUse' = [lastUse EXCEPT ![key] = State!Now]
    /\ UNCHANGED <<clock, entries, enabled, calls>>
-----------------------------------------------------------------------------
(* Permits, confirmations and warnings.                                       *)

LinkPermit(u) ==
    /\ MayCall("permit", u)
    /\ State!LinkPermit(u, PermitTime)
    /\ Count("permit", u)

HasLinkPermit(u) ==
    /\ MayCall("permitted", u)
    /\ State!HasLinkPermit(u)
    /\ Count("permitted", u)

Confirm(u) ==
    /\ MayCall("confirm", u)
    /\ State!Confirm(u, ConfirmTime)
    /\ calls' = [calls EXCEPT !["confirm"][u] = @ + 1,
                              !["confirmed"][u] = @ + IF State!Confirmed(u) THEN 1 ELSE 0]

FilterWarned(u) == State!FilterWarned(u, NextWarning) /\ UNCHANGED calls

Ask(u) ==
    /\ LinkPermit(u) \/ HasLinkPermit(u) \/ Confirm(u) \/ FilterWarned(u)
    /\ UNCHANGED <<clock, entries, enabled, uses, lastUse>>
-----------------------------------------------------------------------------
(* The raffle.                                                                *)

RaffleAdd(u) == State!RaffleAdd(u)
RaffleReset == State!RaffleReset
RaffleWinners(n, picked) == State!RaffleWinners(n, picked)
RaffleWinner(picked) == State!RaffleWinner(picked)

(* !raffle: an entry, once however often it is sent.                          *)
cmdRaffle(u) ==
    /\ enabled
    /\ RaffleAdd(u)
    /\ IF u \in entries THEN UNCHANGED calls ELSE MayCall("enter", u) /\ Count("enter", u)
    /\ UNCHANGED enabled

UpdateChannelRaffleEnabled(enable) == enabled' = enable

cmdRaffleEnableDisable(enable) ==
    /\ enabled # enable
    /\ IF enable THEN RaffleReset ELSE UNCHANGED entries
    /\ UpdateChannelRaffleEnabled(enable)
    /\ UNCHANGED calls

cmdRaffleReset == RaffleReset /\ UNCHANGED <<enabled, calls>>

cmdRaffleWinner(n) ==
    \E picked \in SUBSET entries :
        /\ \/ n = 1 /\ RaffleWinner(picked)
           \/ n > 1 /\ RaffleWinners(n, picked)
        /\ \A u \in picked : MayCall("win", u)
        /\ calls' = [calls EXCEPT !["win"] = [u \in DOMAIN @ |-> @[u] + IF u \in picked THEN 1 ELSE 0]]
        /\ UNCHANGED enabled
-----------------------------------------------------------------------------
Cleanup == State!Cleanup /\ UNCHANGED <<clock, entries, enabled, calls, uses, lastUse>>

Tick ==
    /\ clock < MaxClock
    /\ clock' = clock + 1
    /\ UNCHANGED <<expires, entries, enabled, calls, uses, lastUse>>

UsesNext ==
    \/ \E key \in Cooldowns, moderator \in BOOLEAN : Use(key, moderator)
    \/ Cleanup
    \/ Tick

TimedNext == (\E u \in Members : Ask(u)) \/ Cleanup \/ Tick

RaffleNext ==
    /\ \/ \E u \in Entrants : cmdRaffle(u)
       \/ \E enable \in BOOLEAN : cmdRaffleEnableDisable(enable)
       \/ cmdRaffleReset
       \/ \E n \in 1 .. Cardinality(Entrants) : cmdRaffleWinner(n)
    /\ UNCHANGED <<clock, expires, uses, lastUse>>

ChannelStateNext == UsesNext \/ TimedNext \/ RaffleNext

ChannelStateSpec == ChannelStateInit /\ [][ChannelStateNext]_stateVars
-----------------------------------------------------------------------------
Lives == {Seconds(key) : key \in Cooldowns} \union {ConfirmTime, PermitTime, FirstWarning, NextWarning}

ChannelStateTypeOK ==
    /\ clock \in 0 .. MaxClock
    /\ \A k \in State!StateKeys : \E life \in Lives : expires[k] \in 0 .. State!Now + life
    /\ entries \subseteq Entrants
    /\ enabled \in BOOLEAN
    /\ calls \in [Counted -> [Members \union Entrants -> 0 .. MaxCalls]]
    /\ uses \in [Cooldowns -> 0 .. MaxCalls]
    /\ lastUse \in [Cooldowns -> 0 .. MaxClock + 1]

(* Who is not exempt is let through only when the cooldown of the last use is *)
(* over, whoever that was: the uses of moderators count (tryCooldown).        *)
UsesApart ==
    [][\A key \in Cooldowns :
          uses'[key] # uses[key] => lastUse[key] = 0 \/ State!Now >= lastUse[key] + Seconds(key)]_stateVars

(* What is confirmed was asked for twice, and every confirmation has a first  *)
(* request of its own (Confirm consumes it).                                  *)
ConfirmedTwice == \A u \in Members : 2 * calls["confirmed"][u] <= calls["confirm"][u]

(* A link permit lets one message through (HasLinkPermit deletes it).         *)
PermitsUsedOnce == \A u \in Members : calls["permitted"][u] <= calls["permit"][u]

(* Nobody wins more often than they have entered the raffle, also when the    *)
(* raffle is disabled, enabled and reset in between (RaffleWinners).          *)
WinsAreEntries == \A u \in Entrants : calls["win"][u] <= calls["enter"][u]

(* The tables promise what LiveState does: an entry lives exactly as long as  *)
(* it was given, unless it is used up before; rows that have expired do not   *)
(* count, and a cleanup is never seen.                                        *)
Left == [k \in State!StateKeys |-> IF State!Counts(k) THEN expires[k] - State!Now ELSE 0]
Granted == {"permit", "permitted", "confirm", "confirmed"}
GrantedCalls == [op \in Granted |-> [u \in Members |-> calls[op][u]]]

Live == INSTANCE LiveState WITH
    Exempting <- {"command_cooldown", "roll_cooldown"},
    Lasts <- [key \in Cooldowns |-> Seconds(key)],
    live <- Left,
    calls <- GrantedCalls

ImplementsLiveState == Live!Spec

(* What is granted once is used once.                                         *)
ChannelStateInv == ChannelStateTypeOK /\ ConfirmedTwice /\ PermitsUsedOnce /\ WinsAreEntries
=============================================================================
