------------------------------ MODULE BotState ------------------------------
(***************************************************************************)
(* The tables of the transient state of a channel and the methods on them  *)
(* (internal/db/botstate): cooldowns, link permits, confirmations, filter  *)
(* warnings and the entries of the raffle.  An entry expires by the clock  *)
(* of PostgreSQL; its row stays until a cleanup.  The statements of a call *)
(* are one step: Confirm, FilterWarned and RaffleWinners take an advisory  *)
(* lock first, and the others are one statement.                           *)
(***************************************************************************)
EXTENDS Naturals, FiniteSets

CONSTANTS
    Cooldowns,     \* keys of cooldowns
    Members,       \* users
    FirstWarning   \* how long a first warning counts, 1 second

VARIABLES
    clock,
    expires,   \* expires[k]: until when row k counts, 0 when there is none
    entries    \* bot_raffle_entries

(* A row of bot_command_cooldowns per key, one of the others per user.        *)
Cooldown(key) == <<"cooldown", key>>
Permit(u) == <<"permit", u>>
Confirmation(u) == <<"confirm", u>>
Warning(u) == <<"warning", u>>
StateKeys ==
    {Cooldown(key) : key \in Cooldowns} \union {<<t, u>> : t \in {"permit", "confirm", "warning"}, u \in Members}

BotStateCurrentTime == clock + 1   \* a row that was never there has expired before
Now == BotStateCurrentTime

Counts(k) == expires[k] > Now
Upsert(k, until) == expires' = [expires EXCEPT ![k] = until]
Delete(k) == expires' = [expires EXCEPT ![k] = 0]
-----------------------------------------------------------------------------
(* Cooldowns.                                                                 *)

BotStateMarkCommandCooldown(key, until) == Upsert(Cooldown(key), until)
BotStateCheckAndMarkCommandCooldown(key, until) ==
    expires[Cooldown(key)] <= Now /\ Upsert(Cooldown(key), until)

MarkCooldown(key, seconds) == BotStateMarkCommandCooldown(key, Now + seconds)
CheckAndMarkCooldown(key, seconds) == BotStateCheckAndMarkCommandCooldown(key, Now + seconds)
-----------------------------------------------------------------------------
(* What a moderator grants, what a user confirms and is warned of.            *)

BotStateGrantLinkPermit(u, until) == Upsert(Permit(u), until)
BotStateConsumeLinkPermit(u) == Counts(Permit(u)) /\ Delete(Permit(u))

LinkPermit(u, expiry) == BotStateGrantLinkPermit(u, Now + expiry)
HasLinkPermit(u) == BotStateConsumeLinkPermit(u)

BotStateGetConfirmationExpiry(u) == expires[Confirmation(u)]
BotStateDeleteConfirmation(u) == Delete(Confirmation(u))
BotStateUpsertConfirmation(u, until) == Upsert(Confirmation(u), until)

Confirmed(u) == BotStateGetConfirmationExpiry(u) > Now

(* Mutant: a confirmation is not consumed.                                    *)
ConfirmStays(u, expiry) ==
    IF Confirmed(u) THEN UNCHANGED expires ELSE BotStateUpsertConfirmation(u, Now + expiry)

Confirm(u, expiry) ==
    IF Confirmed(u) THEN BotStateDeleteConfirmation(u) ELSE BotStateUpsertConfirmation(u, Now + expiry)

BotStateGetFilterWarningExpiry(u) == expires[Warning(u)]
BotStateUpsertFilterWarning(u, until) == Upsert(Warning(u), until)

(* A warning that still counts makes the next one count longer.               *)
FilterWarned(u, expiry) ==
    BotStateUpsertFilterWarning(u,
        Now + IF BotStateGetFilterWarningExpiry(u) > Now THEN expiry ELSE FirstWarning)
-----------------------------------------------------------------------------
(* The cleanup: one statement after another, each a transaction of its own.   *)

(* Mutant: rows are deleted one tick before they expire.                      *)
DeleteEarly(table) ==
    expires' = [k \in StateKeys |-> IF k[1] = table /\ expires[k] <= Now + 1 THEN 0 ELSE expires[k]]

DeleteExpired(table) ==
    expires' = [k \in StateKeys |-> IF k[1] = table /\ expires[k] < Now THEN 0 ELSE expires[k]]

BotStateCleanupCommandCooldowns == DeleteExpired("cooldown")
BotStateCleanupLinkPermits == DeleteExpired("permit")
BotStateCleanupConfirmations == DeleteExpired("confirm")
BotStateCleanupFilterWarnings == DeleteExpired("warning")

Cleanup ==
    \/ BotStateCleanupCommandCooldowns
    \/ BotStateCleanupLinkPermits
    \/ BotStateCleanupConfirmations
    \/ BotStateCleanupFilterWarnings
-----------------------------------------------------------------------------
(* The raffle.                                                                *)

BotStateRaffleAdd(u) == entries' = entries \union {u}   \* ON CONFLICT DO NOTHING
BotStateRaffleReset == entries' = {}
BotStateListRaffleEntriesForUpdate == entries
BotStateDeleteRaffleEntries(users) == entries' = entries \ users

RaffleAdd(u) == BotStateRaffleAdd(u)
RaffleReset == BotStateRaffleReset

(* As many as asked for, or as there are, and none of them twice.             *)
RaffleWinners(n, picked) ==
    LET rows == BotStateListRaffleEntriesForUpdate
    IN /\ picked \subseteq rows
       /\ Cardinality(picked) = IF n < Cardinality(rows) THEN n ELSE Cardinality(rows)
       /\ BotStateDeleteRaffleEntries(picked)

RaffleWinner(picked) == RaffleWinners(1, picked)
=============================================================================
