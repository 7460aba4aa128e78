-------------------------- MODULE ModeratedChannels --------------------------
(***************************************************************************)
(* The channels that each bot moderates (internal/bot                      *)
(* updateModeratedChannels).  Every process of the bot updates the table   *)
(* when it starts and from time to time: one transaction reads the bots'   *)
(* tokens, locks the table, and then asks Twitch for one bot after the     *)
(* other.                                                                  *)
(***************************************************************************)
EXTENDS Naturals, FiniteSets

CONSTANTS
    Moderators,     \* bots with a token that may list
    Rooms,
    Updaters,       \* processes
    NoUpdater,
    MaxTime         \* bound: updates

ASSUME ModeratedAssumption == NoUpdater \notin Updaters /\ MaxTime \in Nat

VARIABLES
    mods,       \* at Twitch: the rooms each bot moderates
    rows,       \* moderated_channels: updated_at, 0 when there is no row
    answered,   \* what Twitch said for the last update that committed
    granted,    \* the bots whose tokens are in the table
    locked,     \* the updater with the lock on the table
    clock,
    updates     \* each updater: its transaction

modVars == <<mods, rows, answered, granted, locked, clock, updates>>

ModeratedInit ==
    /\ mods \in [Moderators -> SUBSET Rooms]
    /\ rows = [b \in Moderators |-> [c \in Rooms |-> 0]]
    /\ answered = [b \in Moderators |-> {}]
    /\ granted = Moderators
    /\ locked = NoUpdater
    /\ clock = 1
    /\ updates = [u \in Updaters |-> [pc |-> "idle"]]

(* A broadcaster makes the bot a moderator, or not any more.                  *)
ModChange(b) ==
    /\ \E s \in (SUBSET Rooms) \ {mods[b]} : mods' = [mods EXCEPT ![b] = s]
    /\ UNCHANGED <<rows, answered, granted, locked, clock, updates>>

TokenChange(b) ==
    /\ granted' = IF b \in granted THEN granted \ {b} ELSE granted \union {b}
    /\ UNCHANGED <<mods, rows, answered, locked, clock, updates>>

ListModerationBotTwitchTokens(u) ==
    /\ updates[u].pc = "idle" /\ clock < MaxTime
    /\ clock' = clock + 1
    /\ updates' = [updates EXCEPT ![u] = [pc |-> "lock", bots |-> granted, listed |-> clock]]
    /\ UNCHANGED <<mods, rows, answered, granted, locked>>

(* Mutant: the time is taken when the update begins, as the log's is.         *)
TakenBefore(u) == updates[u].listed

StartTime(u) == clock

LockModeratedChannels(u) ==
    /\ updates[u].pc = "lock" /\ locked = NoUpdater /\ clock < MaxTime
    /\ locked' = u
    /\ clock' = clock + 1
    /\ updates' = [updates EXCEPT ![u] =
           [pc |-> "update", bots |-> updates[u].bots, start |-> StartTime(u), rows |-> rows, said |-> answered]]
    /\ UNCHANGED <<mods, rows, answered, granted>>

UpsertModeratedChannel(row, start) == [c \in Rooms |-> IF c \in row.said THEN start ELSE row.old[c]]
DeleteStaleModeratedChannels(row, start) == [c \in Rooms |-> IF row[c] < start THEN 0 ELSE row[c]]

GetModeratedChannels(u, b) ==
    LET up == updates[u]
        upserted == UpsertModeratedChannel([said |-> mods[b], old |-> up.rows[b]], up.start)
    IN /\ up.pc = "update" /\ b \in up.bots
       /\ updates' = [updates EXCEPT ![u] =
              [pc |-> "update", bots |-> up.bots \ {b}, start |-> up.start,
               rows |-> [up.rows EXCEPT ![b] = DeleteStaleModeratedChannels(upserted, up.start)],
               said |-> [up.said EXCEPT ![b] = mods[b]]]]
       /\ UNCHANGED <<mods, rows, answered, granted, locked, clock>>

CommitUpdate(u) ==
    /\ updates[u].pc = "update" /\ updates[u].bots = {}
    /\ rows' = updates[u].rows
    /\ answered' = updates[u].said
    /\ locked' = NoUpdater
    /\ updates' = [updates EXCEPT ![u] = [pc |-> "idle"]]
    /\ UNCHANGED <<mods, granted, clock>>

(* One bot's listing failed, or the database, or the process crashed: what    *)
(* was written for the others is undone as well.                              *)
UpdateFails(u) ==
    /\ updates[u].pc \in {"lock", "update"}
    /\ locked' = IF locked = u THEN NoUpdater ELSE locked
    /\ updates' = [updates EXCEPT ![u] = [pc |-> "idle"]]
    /\ UNCHANGED <<mods, rows, answered, granted, clock>>

ModeratedNext ==
    \/ \E b \in Moderators : ModChange(b) \/ TokenChange(b)
    \/ \E u \in Updaters :
           \/ ListModerationBotTwitchTokens(u) \/ LockModeratedChannels(u)
           \/ \E b \in Moderators : GetModeratedChannels(u, b)
           \/ CommitUpdate(u) \/ UpdateFails(u)

ModeratedSpec == ModeratedInit /\ [][ModeratedNext]_modVars
-----------------------------------------------------------------------------
(* For each bot the table holds what Twitch said when the last update that    *)
(* asked for it and committed did so, however the updates of several          *)
(* processes overlap (updateModeratedChannels).                               *)
ModeratedAsListed ==
    \A b \in Moderators : {c \in Rooms : rows[b][c] # 0} = answered[b]
=============================================================================
