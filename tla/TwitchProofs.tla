---------------------------- MODULE TwitchProofs ----------------------------
(***************************************************************************)
(* Proofs about what keeps the bot at Twitch and what it asks there, for   *)
(* any channels, bots, accounts, requests, moderators and messages: the    *)
(* table of moderated channels, the logins, the websockets, the            *)
(* subscriptions, and the calls of the handlers.  The five share no state; *)
(* each has its own invariant.                                             *)
(***************************************************************************)
EXTENDS Subscriptions, Websockets, Logins, ModeratedChannels, TwitchCalls,
        FiniteSetTheorems, SequenceTheorems, WellFoundedInduction, TLAPS

(***************************************************************************)
(* Moderated channels                                                      *)
(***************************************************************************)
(* What an update is: none, one that waits for the table, or one that asks    *)
(* and writes.                                                                *)
Listing == [pc : {"lock"}, bots : SUBSET Moderators, listed : Nat]
Updating == [pc : {"update"}, bots : SUBSET Moderators, start : Nat,
             rows : [Moderators -> [Rooms -> Nat]], said : [Moderators -> SUBSET Rooms]]

ModeratedTypes ==
    /\ mods \in [Moderators -> SUBSET Rooms]
    /\ rows \in [Moderators -> [Rooms -> Nat]]
    /\ answered \in [Moderators -> SUBSET Rooms]
    /\ granted \subseteq Moderators
    /\ clock \in Nat \ {0}
    /\ locked \in Updaters \union {NoUpdater}
    /\ DOMAIN updates = Updaters
    /\ \A u \in Updaters : updates[u] \in {[pc |-> "idle"]} \union Listing \union Updating

(* The rows are as old as the last update that committed, and are there for   *)
(* what it was told.                                                          *)
RowsAsAnswered ==
    /\ \A b \in Moderators, c \in Rooms : rows[b][c] < clock
    /\ \A b \in Moderators, c \in Rooms : rows[b][c] # 0 <=> c \in answered[b]

(* So are those of an update that is going on; those of the bots it has not   *)
(* asked for yet are older than it.                                           *)
UpdateAsAnswered(u) ==
    /\ 0 < updates[u].start /\ updates[u].start < clock
    /\ locked = u
    /\ \A b \in Moderators, c \in Rooms :
          /\ updates[u].rows[b][c] <= updates[u].start
          /\ b \in updates[u].bots => updates[u].rows[b][c] < updates[u].start
          /\ updates[u].rows[b][c] # 0 <=> c \in updates[u].said[b]
          /\ updates[u].rows[b][c] \in {0, rows[b][c], updates[u].start}
          /\ rows[b][c] < updates[u].start

UpdatesAsAnswered == \A u \in Updaters : updates[u].pc = "update" => UpdateAsAnswered(u)

TableInv == ModeratedTypes /\ RowsAsAnswered /\ UpdatesAsAnswered

(* A row is not written over by an older update: it goes, or its time grows   *)
(* (updateModeratedChannels, LockModeratedChannels).                          *)
RowsNeverOlder ==
    [][\A b \in Moderators, c \in Rooms : rows'[b][c] = 0 \/ rows'[b][c] >= rows[b][c]]_modVars

------------------------------------------------------------------------------
LEMMA UpdateKinds ==
    ASSUME ModeratedTypes, NEW u \in Updaters
    PROVE  /\ updates[u].pc = "idle" => updates[u] = [pc |-> "idle"]
           /\ updates[u].pc = "lock" => updates[u] \in Listing
           /\ updates[u].pc = "update" => updates[u] \in Updating
BY DEF ModeratedTypes, Listing, Updating

LEMMA TableBegins == ModeratedInit => TableInv
BY ModeratedAssumption DEF ModeratedInit, TableInv, ModeratedTypes, RowsAsAnswered,
   UpdatesAsAnswered

(* A step that leaves the rows of the updates and of the table alone.         *)
LEMMA SameUpdates ==
    ASSUME TableInv, UNCHANGED <<rows, answered, clock, updates>>, UNCHANGED locked
    PROVE  RowsAsAnswered' /\ UpdatesAsAnswered'
BY DEF TableInv, RowsAsAnswered, UpdatesAsAnswered, UpdateAsAnswered

LEMMA TableGoesOn == TableInv /\ [ModeratedNext]_modVars => TableInv'
<1>. SUFFICES ASSUME TableInv, [ModeratedNext]_modVars PROVE TableInv'
  OBVIOUS
<1>0. ModeratedTypes
  BY DEF TableInv
<1>1. ASSUME NEW b \in Moderators, ModChange(b) PROVE TableInv'
  <2>1. ModeratedTypes'
    BY <1>0, <1>1 DEF ModChange, ModeratedTypes
  <2>. QED
    BY <1>1, <2>1, SameUpdates DEF ModChange, TableInv
<1>2. ASSUME NEW b \in Moderators, TokenChange(b) PROVE TableInv'
  <2>1. ModeratedTypes'
    BY <1>0, <1>2 DEF TokenChange, ModeratedTypes
  <2>. QED
    BY <1>2, <2>1, SameUpdates DEF TokenChange, TableInv
<1>3. ASSUME NEW u \in Updaters, ListModerationBotTwitchTokens(u) PROVE TableInv'
  <2>1. updates'[u] \in Listing /\ updates'[u].pc = "lock"
    BY <1>0, <1>3 DEF ListModerationBotTwitchTokens, ModeratedTypes, Listing
  <2>2. \A v \in Updaters \ {u} : updates'[v] = updates[v]
    BY <1>0, <1>3 DEF ListModerationBotTwitchTokens, ModeratedTypes
  <2>3. clock' = clock + 1 /\ clock \in Nat \ {0}
    BY <1>0, <1>3 DEF ListModerationBotTwitchTokens, ModeratedTypes
  <2>4. ModeratedTypes'
    <3>1. DOMAIN updates' = Updaters /\ UNCHANGED <<mods, rows, answered, granted, locked>>
      BY <1>0, <1>3 DEF ListModerationBotTwitchTokens, ModeratedTypes
    <3>2. \A v \in Updaters : updates'[v] \in {[pc |-> "idle"]} \union Listing \union Updating
      BY <1>0, <2>1, <2>2 DEF ModeratedTypes
    <3>. QED
      BY <1>0, <2>3, <3>1, <3>2 DEF ModeratedTypes
  <2>5. RowsAsAnswered'
    BY <1>0, <1>3, <2>3 DEF ListModerationBotTwitchTokens, ModeratedTypes,
       RowsAsAnswered, TableInv
  <2>6. ASSUME NEW v \in Updaters, updates'[v].pc = "update" PROVE UpdateAsAnswered(v)'
    <3>1. v # u /\ updates'[v] = updates[v] /\ UpdateAsAnswered(v)
      BY <2>1, <2>2, <2>6 DEF TableInv, UpdatesAsAnswered
    <3>2. updates[v] \in Updating
      BY <1>0, <2>6, <3>1, UpdateKinds
    <3>. QED
      BY <1>0, <1>3, <2>3, <3>1, <3>2
         DEF ListModerationBotTwitchTokens, UpdateAsAnswered, Updating
  <2>. QED
    BY <2>4, <2>5, <2>6 DEF TableInv, UpdatesAsAnswered
<1>4. ASSUME NEW u \in Updaters, LockModeratedChannels(u) PROVE TableInv'
  <2>1. updates[u] \in Listing
    BY <1>0, <1>4, UpdateKinds DEF LockModeratedChannels
  <2>2. updates'[u] = [pc |-> "update", bots |-> updates[u].bots, start |-> clock,
                       rows |-> rows, said |-> answered]
    BY <1>0, <1>4 DEF LockModeratedChannels, StartTime, ModeratedTypes
  <2>3. clock' = clock + 1 /\ clock \in Nat \ {0} /\ locked' = u /\ locked = NoUpdater
    BY <1>0, <1>4 DEF LockModeratedChannels, ModeratedTypes
  <2>4. \A v \in Updaters \ {u} : updates'[v] = updates[v] /\ updates[v].pc # "update"
    BY <1>0, <1>4, <2>3, ModeratedAssumption
       DEF LockModeratedChannels, ModeratedTypes, TableInv, UpdatesAsAnswered, UpdateAsAnswered
  <2>5. updates'[u] \in Updating
    BY <1>0, <2>1, <2>2, <2>3 DEF Listing, Updating, ModeratedTypes
  <2>6. ModeratedTypes'
    <3>1. DOMAIN updates' = Updaters /\ UNCHANGED <<mods, rows, answered, granted>>
      BY <1>0, <1>4 DEF LockModeratedChannels, ModeratedTypes
    <3>2. \A v \in Updaters : updates'[v] \in {[pc |-> "idle"]} \union Listing \union Updating
      BY <1>0, <2>4, <2>5 DEF ModeratedTypes
    <3>. QED
      BY <1>0, <2>3, <3>1, <3>2 DEF ModeratedTypes
  <2>7. RowsAsAnswered'
    BY <1>0, <1>4, <2>3 DEF LockModeratedChannels, ModeratedTypes, RowsAsAnswered,
       TableInv
  <2>8. UpdateAsAnswered(u)'
    <3>1. UNCHANGED rows
      BY <1>4 DEF LockModeratedChannels
    <3>2. \A b \in Moderators, c \in Rooms : rows[b][c] \in Nat
      BY <1>0 DEF ModeratedTypes
    <3>. QED
      BY <2>2, <2>3, <3>1, <3>2 DEF UpdateAsAnswered, RowsAsAnswered, TableInv
  <2>. QED
    BY <2>4, <2>6, <2>7, <2>8 DEF TableInv, UpdatesAsAnswered
<1>5. ASSUME NEW u \in Updaters, NEW b \in Moderators, GetModeratedChannels(u, b) PROVE TableInv'
  <2>1. updates[u] \in Updating /\ UpdateAsAnswered(u) /\ b \in updates[u].bots
    BY <1>0, <1>5, UpdateKinds DEF GetModeratedChannels, TableInv, UpdatesAsAnswered
  <2>. DEFINE up == updates[u]
              RowOf(c) == IF c \in mods[b] THEN up.start ELSE 0
  <2>2. DeleteStaleModeratedChannels(
            UpsertModeratedChannel([said |-> mods[b], old |-> up.rows[b]], up.start), up.start)
        = [c \in Rooms |-> RowOf(c)]
    <3>1. \A c \in Rooms : up.rows[b][c] < up.start /\ up.rows[b][c] \in Nat /\ up.start \in Nat
      BY <2>1 DEF UpdateAsAnswered, Updating
    <3>. QED
      BY <3>1 DEF DeleteStaleModeratedChannels, UpsertModeratedChannel
  <2>3. updates'[u] = [pc |-> "update", bots |-> up.bots \ {b}, start |-> up.start,
                       rows |-> [up.rows EXCEPT ![b] = [c \in Rooms |-> RowOf(c)]],
                       said |-> [up.said EXCEPT ![b] = mods[b]]]
    BY <1>0, <1>5, <2>1, <2>2 DEF GetModeratedChannels, ModeratedTypes, Updating
  <2>4. \A v \in Updaters \ {u} : updates'[v] = updates[v] /\ updates[v].pc # "update"
    BY <1>0, <1>5, <2>1 DEF GetModeratedChannels, ModeratedTypes, TableInv,
       UpdatesAsAnswered, UpdateAsAnswered
  <2>5. /\ updates'[u] \in Updating /\ updates'[u].start = up.start
        /\ updates'[u].bots = up.bots \ {b}
        /\ updates'[u].said = [up.said EXCEPT ![b] = mods[b]]
        /\ updates'[u].rows = [up.rows EXCEPT ![b] = [c \in Rooms |-> RowOf(c)]]
    <3>1. [c \in Rooms |-> RowOf(c)] \in [Rooms -> Nat] /\ mods[b] \in SUBSET Rooms
      BY <1>0, <2>1 DEF Updating, ModeratedTypes
    <3>2. up.rows \in [Moderators -> [Rooms -> Nat]] /\ up.said \in [Moderators -> SUBSET Rooms]
          /\ up.start \in Nat /\ up.bots \in SUBSET Moderators
      BY <2>1 DEF Updating
    <3>. HIDE DEF RowOf, up
    <3>3. /\ [up.rows EXCEPT ![b] = [c \in Rooms |-> RowOf(c)]] \in [Moderators -> [Rooms -> Nat]]
          /\ [up.said EXCEPT ![b] = mods[b]] \in [Moderators -> SUBSET Rooms]
      BY <3>1, <3>2
    <3>. QED
      BY <2>3, <3>2, <3>3 DEF Updating
  <2>6. DOMAIN updates' = Updaters /\ UNCHANGED <<mods, rows, answered, granted, locked, clock>>
    BY <1>0, <1>5 DEF GetModeratedChannels, ModeratedTypes
  <2>7. ModeratedTypes'
    <3>1. \A v \in Updaters : updates'[v] \in {[pc |-> "idle"]} \union Listing \union Updating
      BY <1>0, <2>4, <2>5 DEF ModeratedTypes
    <3>. QED
      BY <1>0, <2>6, <3>1 DEF ModeratedTypes
  <2>8. RowsAsAnswered'
    BY <2>6 DEF RowsAsAnswered, TableInv
  <2>9. UpdateAsAnswered(u)'
    <3>1. ASSUME NEW d \in Moderators, NEW c \in Rooms
          PROVE  /\ updates'[u].rows[d][c] = IF d = b THEN RowOf(c) ELSE up.rows[d][c]
                 /\ updates'[u].said[d] = IF d = b THEN mods[b] ELSE up.said[d]
                 /\ up.rows[d][c] \in Nat /\ up.start \in Nat
      <4>1. up.rows \in [Moderators -> [Rooms -> Nat]] /\ up.said \in [Moderators -> SUBSET Rooms]
            /\ up.start \in Nat
        BY <2>1 DEF Updating
      <4>. QED
        BY <2>5, <4>1
    <3>2. 0 < updates'[u].start /\ updates'[u].start < clock' /\ locked' = u
      BY <2>1, <2>5, <2>6 DEF UpdateAsAnswered
    <3>3. ASSUME NEW d \in Moderators, NEW c \in Rooms
          PROVE  /\ updates'[u].rows[d][c] <= updates'[u].start
                 /\ d \in updates'[u].bots => updates'[u].rows[d][c] < updates'[u].start
                 /\ updates'[u].rows[d][c] # 0 <=> c \in updates'[u].said[d]
                 /\ updates'[u].rows[d][c] \in {0, rows'[d][c], updates'[u].start}
                 /\ rows'[d][c] < updates'[u].start
      BY <2>1, <2>5, <2>6, <3>1 DEF UpdateAsAnswered
    <3>. QED
      BY <3>2, <3>3 DEF UpdateAsAnswered
  <2>. QED
    BY <2>4, <2>7, <2>8, <2>9 DEF TableInv, UpdatesAsAnswered
<1>6. ASSUME NEW u \in Updaters, CommitUpdate(u) PROVE TableInv'
  <2>1. updates[u] \in Updating /\ UpdateAsAnswered(u)
    BY <1>0, <1>6, UpdateKinds DEF CommitUpdate, TableInv, UpdatesAsAnswered
  <2>2. /\ updates'[u] = [pc |-> "idle"] /\ DOMAIN updates' = Updaters
        /\ UNCHANGED <<mods, granted, clock>> /\ locked' = NoUpdater
        /\ rows' = updates[u].rows /\ answered' = updates[u].said
    BY <1>0, <1>6 DEF CommitUpdate, ModeratedTypes
  <2>3. \A v \in Updaters \ {u} : updates'[v] = updates[v] /\ updates[v].pc # "update"
    BY <1>0, <1>6, <2>1 DEF CommitUpdate, ModeratedTypes, TableInv, UpdatesAsAnswered,
       UpdateAsAnswered
  <2>4. ModeratedTypes'
    <3>1. rows' \in [Moderators -> [Rooms -> Nat]] /\ answered' \in [Moderators -> SUBSET Rooms]
      BY <2>1, <2>2 DEF Updating
    <3>2. \A v \in Updaters : updates'[v] \in {[pc |-> "idle"]} \union Listing \union Updating
      BY <1>0, <2>2, <2>3 DEF ModeratedTypes
    <3>. QED
      BY <1>0, <2>2, <3>1, <3>2 DEF ModeratedTypes
  <2>5. RowsAsAnswered'
    <3>1. updates[u].start \in Nat /\ clock \in Nat /\ updates[u].rows \in [Moderators -> [Rooms -> Nat]]
      BY <1>0, <2>1 DEF Updating, ModeratedTypes
    <3>. QED
      BY <2>1, <2>2, <3>1 DEF RowsAsAnswered, UpdateAsAnswered
  <2>. QED
    BY <2>2, <2>3, <2>4, <2>5 DEF TableInv, UpdatesAsAnswered
<1>7. ASSUME NEW u \in Updaters, UpdateFails(u) PROVE TableInv'
  <2>1. /\ updates'[u] = [pc |-> "idle"] /\ DOMAIN updates' = Updaters
        /\ UNCHANGED <<mods, rows, answered, granted, clock>>
        /\ locked' = IF locked = u THEN NoUpdater ELSE locked
        /\ \A v \in Updaters \ {u} : updates'[v] = updates[v]
    BY <1>0, <1>7 DEF UpdateFails, ModeratedTypes
  <2>2. ModeratedTypes'
    <3>1. \A v \in Updaters : updates'[v] \in {[pc |-> "idle"]} \union Listing \union Updating
      BY <1>0, <2>1 DEF ModeratedTypes
    <3>. QED
      BY <1>0, <2>1, <3>1 DEF ModeratedTypes
  <2>3. RowsAsAnswered'
    BY <2>1 DEF TableInv, RowsAsAnswered
  <2>4. UpdatesAsAnswered'
    BY <2>1 DEF TableInv, UpdatesAsAnswered, UpdateAsAnswered
  <2>. QED
    BY <2>2, <2>3, <2>4 DEF TableInv
<1>8. CASE UNCHANGED modVars
  <2>1. ModeratedTypes'
    BY <1>0, <1>8 DEF modVars, ModeratedTypes
  <2>. QED
    BY <1>8, <2>1, SameUpdates DEF modVars, TableInv
<1>. QED
  BY <1>1, <1>2, <1>3, <1>4, <1>5, <1>6, <1>7, <1>8 DEF ModeratedNext

THEOREM TableInvHolds == ModeratedSpec => []TableInv
BY TableBegins, TableGoesOn, PTL DEF ModeratedSpec

(* For each bot the table holds what Twitch said in the last update that      *)
(* committed, for any number of processes that update it at the same time     *)
(* (updateModeratedChannels).                                                 *)
THEOREM TableIsAsListed == ModeratedSpec => []ModeratedAsListed
<1>1. TableInv => ModeratedAsListed
  <2>. SUFFICES ASSUME TableInv, NEW b \in Moderators
                PROVE  {c \in Rooms : rows[b][c] # 0} = answered[b]
    BY DEF ModeratedAsListed
  <2>1. answered[b] \subseteq Rooms
    BY DEF TableInv, ModeratedTypes
  <2>. QED
    BY <2>1 DEF TableInv, RowsAsAnswered
<1>. QED
  BY <1>1, TableInvHolds, PTL

(* An update that began earlier never overwrites the rows of a later one.     *)
THEOREM UpdatesInOrder == ModeratedSpec => RowsNeverOlder
<1>1. TableInv /\ [ModeratedNext]_modVars =>
      [\A b \in Moderators, c \in Rooms : rows'[b][c] = 0 \/ rows'[b][c] >= rows[b][c]]_modVars
  <2>. SUFFICES ASSUME TableInv, ModeratedNext, NEW b \in Moderators, NEW c \in Rooms
                PROVE  rows'[b][c] = 0 \/ rows'[b][c] >= rows[b][c]
    OBVIOUS
  <2>0. ModeratedTypes /\ rows[b][c] \in Nat
    BY DEF TableInv, ModeratedTypes
  <2>1. CASE UNCHANGED rows
    BY <2>0, <2>1
  <2>2. ASSUME NEW u \in Updaters, CommitUpdate(u) PROVE rows'[b][c] = 0 \/ rows'[b][c] >= rows[b][c]
    <3>1. updates[u] \in Updating /\ UpdateAsAnswered(u) /\ rows' = updates[u].rows
      BY <2>0, <2>2, UpdateKinds DEF CommitUpdate, TableInv, UpdatesAsAnswered
    <3>2. updates[u].start \in Nat
      BY <3>1 DEF Updating
    <3>. QED
      BY <2>0, <3>1, <3>2 DEF UpdateAsAnswered
  <2>3. ASSUME NEW u \in Updaters, NEW d \in Moderators, GetModeratedChannels(u, d) PROVE UNCHANGED rows
    BY <2>3 DEF GetModeratedChannels
  <2>4. ASSUME NEW u \in Updaters,
               ListModerationBotTwitchTokens(u) \/ LockModeratedChannels(u) \/ UpdateFails(u)
        PROVE  UNCHANGED rows
    BY <2>4 DEF ListModerationBotTwitchTokens, LockModeratedChannels, UpdateFails
  <2>5. ASSUME NEW d \in Moderators, ModChange(d) \/ TokenChange(d) PROVE UNCHANGED rows
    BY <2>5 DEF ModChange, TokenChange
  <2>. QED
    BY <2>1, <2>2, <2>3, <2>4, <2>5 DEF ModeratedNext
<1>. QED
  BY <1>1, TableInvHolds, PTL DEF ModeratedSpec, RowsNeverOlder
------------------------------------------------------------------------------
(***************************************************************************)
(* Logins                                                                  *)
(***************************************************************************)
(* A request of authTwitchCallback that has taken the state of its login, and *)
(* one that has it still.                                                     *)
Callback == [pc : {"redirect", "exchange", "save"}, login : Logins, state : AuthState]
Carries(r, l) == callbacks[r].pc \in {"redirect", "exchange"} /\ callbacks[r].login = l

LoginTypes ==
    /\ began \in [Logins -> AuthState \union {NoToken}]
    /\ states \in [Logins -> AuthState \union {NoToken}]
    /\ callbacks \in [Requests -> {Done} \union Callback]
    /\ exchanged \in [Logins -> Nat]
    /\ tokens \in [Accounts -> Token \union {NoToken}]
    /\ validator \in [pc : {"idle", "check"}, rows : [Accounts -> Token \union {NoToken}]]
    /\ handler \in [account : Accounts, grant : Logins] \union {NoToken}

(* The state of a login is in the table, or with one request, or nowhere; as  *)
(* long as it is somewhere, its code was not exchanged.                       *)
StatesAreOwn ==
    \A l \in Logins :
        /\ began[l] = NoToken => exchanged[l] = 0
        /\ states[l] # NoToken => states[l] = began[l] /\ exchanged[l] = 0
        /\ \A r \in Requests : Carries(r, l) => states[l] = NoToken /\ exchanged[l] = 0
        /\ \A r, q \in Requests : Carries(r, l) /\ Carries(q, l) => r = q
        /\ exchanged[l] <= 1

CallbacksAreBegun ==
    \A r \in Requests : callbacks[r].pc # "done" =>
        /\ callbacks[r].state = began[callbacks[r].login]
        /\ callbacks[r].pc = "save" => exchanged[callbacks[r].login] = 1

(* Wherever a token is, its grant is that of a code that was exchanged.       *)
TokensAreGranted ==
    /\ \A a \in Accounts : tokens[a] # NoToken => exchanged[tokens[a].grant] = 1
    /\ \A a \in Accounts : Listed(a) # NoToken => exchanged[Listed(a).grant] = 1
    /\ handler # NoToken => exchanged[handler.grant] = 1

TokensInv == LoginTypes /\ StatesAreOwn /\ CallbacksAreBegun /\ TokensAreGranted

------------------------------------------------------------------------------
LEMMA CallbackKinds ==
    ASSUME LoginTypes, NEW r \in Requests
    PROVE  /\ callbacks[r].pc = "done" => callbacks[r] = Done
           /\ callbacks[r].pc # "done" => callbacks[r] \in Callback
BY DEF LoginTypes, Callback, Done

LEMMA NoTokenApart == NoToken \notin AuthState /\ NoToken \notin Token
BY LoginsAssumption DEF AuthState, Token, Logins

LEMMA LoginsBegin == LoginsInit => TokensInv
<1>. SUFFICES ASSUME LoginsInit PROVE TokensInv
  OBVIOUS
<1>1. LoginTypes
  BY DEF LoginsInit, LoginTypes, Resting
<1>2. StatesAreOwn /\ CallbacksAreBegun
  BY DEF LoginsInit, StatesAreOwn, CallbacksAreBegun, Carries, Done
<1>3. TokensAreGranted
  BY DEF LoginsInit, TokensAreGranted, Resting, Listed
<1>. QED
  BY <1>1, <1>2, <1>3 DEF TokensInv

(* What the tables of tokens and their readers do does not touch the logins.  *)
LEMMA SameLogins ==
    ASSUME TokensInv, UNCHANGED <<began, states, callbacks, exchanged>>
    PROVE  StatesAreOwn' /\ CallbacksAreBegun'
<1>1. \A r \in Requests, l \in Logins : Carries(r, l)' = Carries(r, l)
  BY DEF Carries
<1>. QED
  BY <1>1 DEF TokensInv, StatesAreOwn, CallbacksAreBegun

LEMMA SameTokens ==
    ASSUME TokensInv, UNCHANGED <<exchanged, tokens, validator, handler>>
    PROVE  TokensAreGranted'
BY DEF TokensInv, TokensAreGranted, Listed

(* A request that gives its state up, or only its own place.                  *)
LEMMA LoginsGoOn == TokensInv /\ [LoginsNext]_loginVars => TokensInv'
<1>. SUFFICES ASSUME TokensInv, [LoginsNext]_loginVars PROVE TokensInv'
  OBVIOUS
<1>0. LoginTypes
  BY DEF TokensInv
<1>1. ASSUME NEW l \in Logins, authTwitch(l) PROVE TokensInv'
  <2>1. /\ began[l] = NoToken
        /\ UNCHANGED <<callbacks, exchanged, tokens, validator, handler>>
    BY <1>1 DEF authTwitch, WebOnly
  <2>2. PICK state \in AuthState :
            /\ states' = [states EXCEPT ![l] = state]
            /\ began' = [began EXCEPT ![l] = state]
    BY <1>0, <1>1 DEF authTwitch, SetAuthState, BotStateSetAuthState, AuthState,
       LoginTypes
  <2>3. LoginTypes'
    BY <1>0, <2>1, <2>2 DEF LoginTypes
  <2>4. \A r \in Requests : ~Carries(r, l) /\ (callbacks[r].pc # "done" => callbacks[r].login # l)
    BY <1>0, <2>1, CallbackKinds, NoTokenApart DEF TokensInv, CallbacksAreBegun,
       Carries, Callback
  <2>5. \A r \in Requests, k \in Logins : Carries(r, k)' = Carries(r, k)
    BY <2>1 DEF Carries
  <2>6. StatesAreOwn'
    BY <1>0, <2>1, <2>2, <2>4, <2>5, NoTokenApart DEF TokensInv, StatesAreOwn,
       LoginTypes
  <2>7. CallbacksAreBegun'
    BY <1>0, <2>1, <2>2, <2>4 DEF TokensInv, CallbacksAreBegun, LoginTypes
  <2>. QED
    BY <2>1, <2>3, <2>6, <2>7, SameTokens DEF TokensInv
<1>2. ASSUME NEW l \in Logins, Expire(l) PROVE TokensInv'
  <2>1. /\ states' = [states EXCEPT ![l] = NoToken]
        /\ UNCHANGED <<began, callbacks, exchanged, tokens, validator, handler>>
    BY <1>2 DEF Expire, BotStateCleanupAuthStates, WebOnly
  <2>2. LoginTypes'
    BY <1>0, <2>1 DEF LoginTypes
  <2>3. StatesAreOwn' /\ CallbacksAreBegun'
    BY <1>0, <2>1 DEF TokensInv, StatesAreOwn, CallbacksAreBegun, Carries, LoginTypes
  <2>. QED
    BY <2>1, <2>2, <2>3, SameTokens DEF TokensInv
<1>3. ASSUME NEW r \in Requests, authTwitchCallback(r) PROVE TokensInv'
  <2>1. UNCHANGED <<began, exchanged, tokens, validator, handler>> /\ callbacks[r].pc = "done"
    BY <1>3 DEF authTwitchCallback, WebOnly
  <2>2. PICK l \in Logins, h \in Hosts :
            /\ began[l] # NoToken
            /\ states' = [states EXCEPT ![l] = NoToken]
            /\ callbacks' = [callbacks EXCEPT ![r] =
                  IF states[l] = NoToken THEN Done
                  ELSE [pc |-> IF states[l].host = h THEN "exchange" ELSE "redirect",
                        login |-> l, state |-> states[l]]]
    BY <1>3 DEF authTwitchCallback, GetAuthState, BotStateTakeAuthState
  <2>3. CASE states[l] = NoToken
    <3>1. states' = states /\ callbacks' = callbacks
      BY <1>0, <2>1, <2>2, <2>3, CallbackKinds DEF LoginTypes
    <3>2. LoginTypes'
      BY <1>0, <2>1, <3>1 DEF LoginTypes
    <3>. QED
      BY <2>1, <3>1, <3>2, SameLogins, SameTokens DEF TokensInv
  <2>4. CASE states[l] # NoToken
    <3>1. PICK new \in Callback :
              /\ new.pc \in {"exchange", "redirect"} /\ new.login = l /\ new.state = states[l]
              /\ callbacks' = [callbacks EXCEPT ![r] = new]
      <4>1. PICK pc \in {"exchange", "redirect"} :
                callbacks' = [callbacks EXCEPT ![r] = [pc |-> pc, login |-> l, state |-> states[l]]]
        BY <2>2, <2>4
      <4>2. [pc |-> pc, login |-> l, state |-> states[l]] \in Callback
        BY <1>0, <2>4 DEF Callback, LoginTypes
      <4>. QED
        BY <4>1, <4>2
    <3>2. LoginTypes'
      BY <1>0, <2>1, <2>2, <3>1 DEF LoginTypes
    <3>3. \A q \in Requests, k \in Logins : Carries(q, k)' <=> (IF q = r THEN k = l ELSE Carries(q, k))
      BY <1>0, <3>1 DEF LoginTypes, Carries
    <3>4. StatesAreOwn'
      BY <1>0, <2>1, <2>2, <2>4, <3>3 DEF TokensInv, StatesAreOwn, LoginTypes
    <3>5. CallbacksAreBegun'
      BY <1>0, <2>1, <2>2, <2>4, <3>1 DEF TokensInv, StatesAreOwn, CallbacksAreBegun,
         LoginTypes
    <3>. QED
      BY <2>1, <3>2, <3>4, <3>5, SameTokens DEF TokensInv
  <2>. QED
    BY <2>3, <2>4
<1>4. ASSUME NEW r \in Requests, Redirect(r) PROVE TokensInv'
  <2>. DEFINE l == callbacks[r].login
  <2>1. /\ callbacks[r] \in Callback /\ Carries(r, l) /\ l \in Logins
        /\ callbacks[r].state \in AuthState /\ callbacks[r].state = began[l]
    BY <1>0, <1>4, CallbackKinds DEF Redirect, Callback, Carries, TokensInv,
       CallbacksAreBegun
  <2>2. /\ callbacks' = [callbacks EXCEPT ![r] = Done]
        /\ states' = [states EXCEPT ![l] = callbacks[r].state] \/ states' = states
        /\ UNCHANGED <<began, exchanged, tokens, validator, handler>>
    BY <1>4 DEF Redirect, SetAuthState, BotStateSetAuthState, WebOnly
  <2>3. LoginTypes'
    BY <1>0, <2>1, <2>2 DEF LoginTypes
  <2>4. \A q \in Requests, k \in Logins : Carries(q, k)' <=> (q # r /\ Carries(q, k))
    BY <1>0, <2>2 DEF LoginTypes, Carries, Done
  <2>5. StatesAreOwn'
    BY <1>0, <2>1, <2>2, <2>4 DEF TokensInv, StatesAreOwn, LoginTypes
  <2>6. CallbacksAreBegun'
    BY <1>0, <2>2 DEF TokensInv, CallbacksAreBegun, LoginTypes, Done
  <2>. QED
    BY <2>2, <2>3, <2>5, <2>6, SameTokens DEF TokensInv
<1>5. ASSUME NEW r \in Requests, Exchange(r) PROVE TokensInv'
  <2>. DEFINE l == callbacks[r].login
  <2>1. callbacks[r] \in Callback /\ Carries(r, l) /\ l \in Logins /\ exchanged[l] = 0 /\ states[l] = NoToken
    BY <1>0, <1>5, CallbackKinds DEF Exchange, Callback, Carries, TokensInv,
       StatesAreOwn
  <2>2. PICK new \in {Done} \union Callback :
            /\ new = Done \/ (new.pc = "save" /\ new.login = l /\ new.state = callbacks[r].state)
            /\ callbacks' = [callbacks EXCEPT ![r] = new]
    <3>1. CASE callbacks' = [callbacks EXCEPT ![r] = Done]
      BY <3>1
    <3>2. CASE callbacks' = [callbacks EXCEPT ![r].pc = "save"]
      <4>. DEFINE new == [pc |-> "save", login |-> l, state |-> callbacks[r].state]
      <4>1. new \in Callback
        BY <2>1 DEF Callback
      <4>2. callbacks' = [callbacks EXCEPT ![r] = new]
        <5>1. [callbacks[r] EXCEPT !.pc = "save"] = new
          BY <2>1 DEF Callback
        <5>2. callbacks' = [callbacks EXCEPT ![r] = [callbacks[r] EXCEPT !.pc = "save"]]
          BY <3>2
        <5>. QED
          BY <5>1, <5>2
      <4>. QED
        BY <4>1, <4>2
    <3>. QED
      BY <1>5, <3>1, <3>2 DEF Exchange
  <2>3. /\ exchanged' = [exchanged EXCEPT ![l] = exchanged[l] + 1]
        /\ UNCHANGED <<began, states, tokens, validator, handler>>
    BY <1>5 DEF Exchange
  <2>4. LoginTypes'
    BY <1>0, <2>1, <2>2, <2>3 DEF LoginTypes
  <2>5. \A q \in Requests, k \in Logins : Carries(q, k)' <=> (q # r /\ Carries(q, k))
    BY <1>0, <2>2 DEF LoginTypes, Carries, Done
  <2>6. \A k \in Logins : /\ exchanged'[k] = IF k = l THEN 1 ELSE exchanged[k]
                          /\ exchanged[k] = 1 => exchanged'[k] = 1
    BY <1>0, <2>1, <2>3 DEF LoginTypes
  <2>7. StatesAreOwn'
    <3>1. began[l] # NoToken
      <4>1. callbacks[r].state = began[l] /\ callbacks[r].state \in AuthState
        BY <2>1 DEF TokensInv, CallbacksAreBegun, Callback, Carries
      <4>. QED
        BY <4>1, NoTokenApart
    <3>2. \A q \in Requests, k \in Logins : Carries(q, k)' => k # l
      BY <2>1, <2>5 DEF TokensInv, StatesAreOwn
    <3>. QED
      BY <1>0, <2>1, <2>3, <2>5, <2>6, <3>1, <3>2 DEF TokensInv, StatesAreOwn
  <2>8. CallbacksAreBegun'
    <3>1. \A q \in Requests : callbacks[q].pc # "done" => callbacks[q].login \in Logins
      BY <1>0, CallbackKinds DEF Callback
    <3>2. \A q \in Requests \ {r} : callbacks'[q] = callbacks[q]
      BY <1>0, <2>2 DEF LoginTypes
    <3>3. callbacks'[r] = Done \/ (callbacks'[r].pc = "save" /\ callbacks'[r].login = l /\ callbacks'[r].state = callbacks[r].state)
      BY <1>0, <2>2 DEF LoginTypes
    <3>4. callbacks[r].state = began[l]
      BY <2>1 DEF TokensInv, CallbacksAreBegun, Carries
    <3>. QED
      BY <2>1, <2>3, <2>6, <3>1, <3>2, <3>3, <3>4 DEF TokensInv, CallbacksAreBegun, Done
  <2>9. TokensAreGranted'
    BY <1>0, <2>3, <2>6 DEF TokensInv, TokensAreGranted, LoginTypes, Listed, Token
  <2>. QED
    BY <2>4, <2>7, <2>8, <2>9 DEF TokensInv
<1>6. ASSUME NEW r \in Requests, SaveLogin(r) PROVE TokensInv'
  <2>. DEFINE l == callbacks[r].login
  <2>1. callbacks[r] \in Callback /\ callbacks[r].pc = "save" /\ l \in Logins /\ exchanged[l] = 1
    BY <1>0, <1>6, CallbackKinds DEF SaveLogin, Callback, TokensInv, CallbacksAreBegun
  <2>2. /\ callbacks' = [callbacks EXCEPT ![r] = Done]
        /\ UNCHANGED <<began, states, exchanged, validator, handler>>
    BY <1>6 DEF SaveLogin
  <2>3. \/ UNCHANGED tokens
        \/ \E a \in Accounts, new \in Token : new.grant = l /\ tokens' = [tokens EXCEPT ![a] = new]
    BY <1>6, <2>1 DEF SaveLogin, SaveTwitchToken, UpsertTwitchToken, NewTwitchToken,
       Token, Callback, AuthState
  <2>4. LoginTypes'
    BY <1>0, <2>2, <2>3 DEF LoginTypes
  <2>5. \A q \in Requests, k \in Logins : Carries(q, k)' = Carries(q, k)
    BY <1>0, <2>1, <2>2 DEF LoginTypes, Carries, Done
  <2>6. StatesAreOwn'
    BY <2>2, <2>5 DEF TokensInv, StatesAreOwn
  <2>7. CallbacksAreBegun'
    BY <1>0, <2>2 DEF TokensInv, CallbacksAreBegun, LoginTypes, Done
  <2>8. TokensAreGranted'
    BY <1>0, <2>1, <2>2, <2>3 DEF TokensInv, TokensAreGranted, LoginTypes, Listed
  <2>. QED
    BY <2>4, <2>6, <2>7, <2>8 DEF TokensInv
<1>7. ASSUME NEW l \in Logins, Disconnect(l) PROVE TokensInv'
  <2>1. UNCHANGED <<began, states, callbacks, exchanged, tokens, validator, handler>>
    BY <1>7 DEF Disconnect, WebIdle
  <2>2. LoginTypes'
    BY <1>0, <2>1 DEF LoginTypes
  <2>. QED
    BY <2>1, <2>2, SameLogins, SameTokens DEF TokensInv
<1>8. CASE BeginValidation
  <2>1. /\ UNCHANGED <<began, states, callbacks, exchanged, tokens, handler>>
        /\ validator' = [pc |-> "check", rows |-> tokens]
    BY <1>8 DEF BeginValidation, ListTwitchTokens, WebIdle
  <2>2. LoginTypes'
    BY <1>0, <2>1 DEF LoginTypes
  <2>3. TokensAreGranted'
    BY <2>1 DEF TokensInv, TokensAreGranted, Listed
  <2>. QED
    BY <2>1, <2>2, <2>3, SameLogins DEF TokensInv
<1>9. ASSUME NEW a \in Accounts, Validate(a) PROVE TokensInv'
  <2>1. /\ UNCHANGED <<began, states, callbacks, exchanged, handler>>
        /\ Listed(a) \in Token \union {NoToken} /\ Listed(a) # NoToken
        /\ exchanged[Listed(a).grant] = 1
    BY <1>0, <1>9 DEF Validate, WebIdle, Listed, LoginTypes, TokensInv, TokensAreGranted
  <2>2. tokens' = [tokens EXCEPT ![a] = NoToken] \/ tokens' = [tokens EXCEPT ![a] = Listed(a)] \/ tokens' = tokens
    <3>1. PICK answer \in Answers(OAuth2Token(Listed(a))) :
              CASE IsDead(answer) -> DeleteTwitchTokenByID(a)
                [] answer = "valid" -> SaveTwitchToken(a, Listed(a))
                [] OTHER -> UNCHANGED tokens
      BY <1>9, Zenon DEF Validate
    <3>2. IsDead(answer) => DeleteTwitchTokenByID(a)
      BY <3>1 DEF IsDead, Answers
    <3>3. answer = "valid" => SaveTwitchToken(a, Listed(a))
      BY <3>1 DEF IsDead, Answers
    <3>4. ~IsDead(answer) /\ answer # "valid" => UNCHANGED tokens
      BY <3>1 DEF IsDead, Answers
    <3>. QED
      BY <3>2, <3>3, <3>4 DEF DeleteTwitchTokenByID, SaveTwitchToken, UpsertTwitchToken
  <2>3. /\ validator'.pc \in {"idle", "check"}
        /\ validator' = [pc |-> validator'.pc, rows |-> [validator.rows EXCEPT ![a] = NoToken]]
    BY <1>9 DEF Validate, Checked
  <2>4. LoginTypes'
    BY <1>0, <2>1, <2>2, <2>3 DEF LoginTypes
  <2>5. TokensAreGranted'
    BY <1>0, <2>1, <2>2, <2>3 DEF TokensInv, TokensAreGranted, LoginTypes, Listed
  <2>. QED
    BY <2>1, <2>4, <2>5, SameLogins DEF TokensInv
<1>10. CASE ValidateFails
  <2>1. /\ UNCHANGED <<began, states, callbacks, exchanged, tokens, handler>>
        /\ validator' = Resting
    BY <1>10 DEF ValidateFails, WebIdle
  <2>2. LoginTypes'
    BY <1>0, <2>1 DEF LoginTypes, Resting
  <2>3. TokensAreGranted'
    BY <2>1 DEF TokensInv, TokensAreGranted, Listed, Resting
  <2>. QED
    BY <2>1, <2>2, <2>3, SameLogins DEF TokensInv
<1>11. ASSUME NEW a \in Accounts, BotTwitchToken(a) PROVE TokensInv'
  <2>1. /\ UNCHANGED <<began, states, callbacks, exchanged, tokens, validator>>
        /\ tokens[a] # NoToken
        /\ handler' = [account |-> a, grant |-> tokens[a].grant]
    BY <1>11 DEF BotTwitchToken, WebIdle, OAuth2Token
  <2>2. LoginTypes'
    BY <1>0, <2>1 DEF LoginTypes, Token
  <2>3. TokensAreGranted'
    BY <2>1 DEF TokensInv, TokensAreGranted, Listed
  <2>. QED
    BY <2>1, <2>2, <2>3, SameLogins DEF TokensInv
<1>12. CASE SetBotTwitchToken
  <2>1. /\ UNCHANGED <<began, states, callbacks, exchanged, validator>>
        /\ handler' = NoToken /\ handler # NoToken
    BY <1>12 DEF SetBotTwitchToken, WebIdle
  <2>2. \E a \in Accounts, new \in Token :
            exchanged[new.grant] = 1 /\ tokens' = [tokens EXCEPT ![a] = new]
    <3>1. handler \in [account : Accounts, grant : Logins] /\ exchanged[handler.grant] = 1
      BY <1>0, <2>1 DEF LoginTypes, TokensInv, TokensAreGranted
    <3>2. PICK bot \in BOOLEAN :
              tokens' = [tokens EXCEPT ![handler.account] = [grant |-> handler.grant, bot |-> bot]]
      <4>1. (tokens[handler.account] # NoToken /\ tokens[handler.account].bot) \in BOOLEAN
        BY <1>0, <3>1 DEF LoginTypes, Token
      <4>. QED
        BY <1>12, <4>1 DEF SetBotTwitchToken, SaveTwitchTokenPreservingMetadata,
           UpsertTwitchTokenPreservingMetadata, NewTwitchToken
    <3>. QED
      BY <3>1, <3>2 DEF Token
  <2>3. LoginTypes'
    BY <1>0, <2>1, <2>2 DEF LoginTypes
  <2>4. TokensAreGranted'
    BY <1>0, <2>1, <2>2 DEF TokensInv, TokensAreGranted, LoginTypes, Listed
  <2>. QED
    BY <2>1, <2>3, <2>4, SameLogins DEF TokensInv
<1>13. CASE HandlerEnds
  <2>1. /\ UNCHANGED <<began, states, callbacks, exchanged, tokens, validator>>
        /\ handler' = NoToken
    BY <1>13 DEF HandlerEnds, WebIdle
  <2>2. LoginTypes'
    BY <1>0, <2>1 DEF LoginTypes
  <2>3. TokensAreGranted'
    BY <2>1 DEF TokensInv, TokensAreGranted, Listed
  <2>. QED
    BY <2>1, <2>2, <2>3, SameLogins DEF TokensInv
<1>14. CASE UNCHANGED loginVars
  <2>1. UNCHANGED <<began, states, callbacks, exchanged, tokens, validator, handler>>
    BY <1>14 DEF loginVars
  <2>2. LoginTypes'
    BY <1>0, <2>1 DEF LoginTypes
  <2>. QED
    BY <2>1, <2>2, SameLogins, SameTokens DEF TokensInv
<1>. QED
  BY <1>1, <1>2, <1>3, <1>4, <1>5, <1>6, <1>7, <1>8, <1>9, <1>10, <1>11, <1>12, <1>13,
     <1>14
     DEF LoginsNext, Validation

THEOREM TokensInvHolds == LoginsSpec => []TokensInv
BY LoginsBegin, LoginsGoOn, PTL DEF LoginsSpec

(* Whoever brings the state of a login back, how often and to which host, its *)
(* code is exchanged once, and every token in the table is of such a code     *)
(* (authTwitchCallback, GetAuthState, SetBotTwitchToken).                     *)
THEOREM LoginsAreExchangedOnce == LoginsSpec => []LoginsInv
<1>1. TokensInv => LoginsInv
  BY DEF TokensInv, LoginTypes, StatesAreOwn, TokensAreGranted, LoginsInv, LoginsTypeOK,
     ExchangedOnce
<1>. QED
  BY <1>1, TokensInvHolds, PTL

(* A token that is deleted is dead, or another one than was listed            *)
(* (validateTokens).                                                          *)
THEOREM DeletedWereDeadOrReplaced == LoginsSpec => DeletesDeadOrReplaced
<1>. DEFINE Kept == \A a \in Accounts :
           (tokens[a] # NoToken /\ tokens'[a] = NoToken) =>
               (tokens[a].grant \notin live \/ tokens[a] # Listed(a))
<1>1. TokensInv /\ [LoginsNext]_loginVars => [Kept]_loginVars
  <2>. SUFFICES ASSUME TokensInv, LoginsNext, NEW a \in Accounts,
                       tokens[a] # NoToken, tokens'[a] = NoToken
                PROVE  tokens[a].grant \notin live \/ tokens[a] # Listed(a)
    OBVIOUS
  <2>0. LoginTypes
    BY DEF TokensInv
  <2>1. ASSUME NEW r \in Requests, SaveLogin(r) PROVE FALSE
    <3>1. callbacks[r] \in Callback
      BY <2>0, <2>1, CallbackKinds DEF SaveLogin
    <3>2. \/ UNCHANGED tokens
          \/ \E b \in Accounts, new \in Token : tokens' = [tokens EXCEPT ![b] = new]
      BY <2>1, <3>1 DEF SaveLogin, SaveTwitchToken, UpsertTwitchToken, NewTwitchToken,
         Token, Callback, AuthState
    <3>. QED
      BY <2>0, <3>2, NoTokenApart DEF LoginTypes
  <2>2. ASSUME SetBotTwitchToken PROVE FALSE
    <3>1. handler \in [account : Accounts, grant : Logins]
      BY <2>0, <2>2 DEF SetBotTwitchToken, LoginTypes
    <3>2. (tokens[handler.account] # NoToken /\ tokens[handler.account].bot) \in BOOLEAN
      BY <2>0, <3>1 DEF LoginTypes, Token
    <3>3. \E b \in Accounts, new \in Token : tokens' = [tokens EXCEPT ![b] = new]
      BY <2>2, <3>1, <3>2 DEF SetBotTwitchToken, SaveTwitchTokenPreservingMetadata,
         UpsertTwitchTokenPreservingMetadata, NewTwitchToken, Token
    <3>. QED
      BY <2>0, <3>3, NoTokenApart DEF LoginTypes
  <2>3. ASSUME NEW b \in Accounts, Validate(b) PROVE tokens[a].grant \notin live \/ tokens[a] # Listed(a)
    <3>1. PICK answer \in Answers(OAuth2Token(Listed(b))) :
              CASE IsDead(answer) -> DeleteTwitchTokenByID(b)
                [] answer = "valid" -> SaveTwitchToken(b, Listed(b))
                [] OTHER -> UNCHANGED tokens
      BY <2>3, Zenon DEF Validate
    <3>2. CASE IsDead(answer)
      <4>1. Listed(b).grant \notin live
        BY <3>1, <3>2 DEF Answers, IsDead, OAuth2Token
      <4>2. a = b
        BY <2>0, <3>1, <3>2 DEF DeleteTwitchTokenByID, LoginTypes, Answers, IsDead
      <4>. QED
        BY <4>1, <4>2
    <3>3. CASE answer = "valid"
      BY <2>0, <2>3, <3>1, <3>3 DEF SaveTwitchToken, UpsertTwitchToken, LoginTypes,
         IsDead, Validate
    <3>4. CASE ~IsDead(answer) /\ answer # "valid"
      BY <3>1, <3>4
    <3>. QED
      BY <3>2, <3>3, <3>4
  <2>. QED
    BY <2>1, <2>2, <2>3 DEF LoginsNext, Validation, authTwitch, Expire, Disconnect,
       WebOnly, WebIdle,
       authTwitchCallback, Redirect, Exchange, BeginValidation, ValidateFails, BotTwitchToken, HandlerEnds
<1>. QED
  BY <1>1, TokensInvHolds, PTL DEF LoginsSpec, DeletesDeadOrReplaced
------------------------------------------------------------------------------
(***************************************************************************)
(* Websockets                                                              *)
(***************************************************************************)
Runner == [pc : {"none", "dial", "welcome", "ready", "wait", "done"}, url : {"initial", "reconnect"},
           onWelcome : 0 .. OnStart, reconnecting : BOOLEAN, cancelled : BOOLEAN]

(* A goroutine that will open another connection when its own ends.           *)
GoesOn(i) == runners[i].pc \notin {"none", "done"} /\ ~runners[i].reconnecting

SocketTypes == runners \in [Runners -> Runner] /\ served \in 0 .. MaxRunners /\ rivals \in BOOLEAN

(* Only a connection that is ready is asked to reconnect, and it is there for *)
(* as long as its successor may cancel it.                                    *)
Successors ==
    /\ \A i \in Runners : runners[i].onWelcome \in Runners =>
           LET old == runners[runners[i].onWelcome] IN old.reconnecting /\ old.pc = "ready"
    /\ \A i \in Runners : runners[i].reconnecting => runners[i].pc \in {"ready", "done"}

ServedIsReady == served # 0 => runners[served].pc = "ready"

OneIsLeft ==
    /\ \E i \in Runners : GoesOn(i)
    /\ rivals \/ \A i, j \in Runners : GoesOn(i) /\ GoesOn(j) => i = j

SocketInv == SocketTypes /\ Successors /\ ServedIsReady /\ OneIsLeft

------------------------------------------------------------------------------
LEMMA RunnerNumbers ==
    /\ MaxRunners \in Nat \ {0} /\ 1 \in Runners /\ 0 \notin Runners /\ OnStart \notin Runners
    /\ Runners \subseteq 0 .. OnStart /\ Runners \subseteq 0 .. MaxRunners
    /\ 0 \in 0 .. OnStart /\ OnStart \in 0 .. OnStart
BY WebsocketsAssumption DEF Runners, OnStart

LEMMA NewRunners ==
    /\ \A url \in {"initial", "reconnect"}, w \in 0 .. OnStart :
          /\ Fresh(url, w) \in Runner
          /\ Fresh(url, w).pc = "dial" /\ Fresh(url, w).onWelcome = w /\ Fresh(url, w).reconnecting = FALSE
    /\ NoRunner \in Runner /\ NoRunner.pc = "none" /\ NoRunner.onWelcome = NoWelcome /\ NoRunner.reconnecting = FALSE
    /\ AfterError \in Runner /\ AfterError.pc = "wait" /\ AfterError.onWelcome = NoWelcome
    /\ AfterError.reconnecting = FALSE
BY RunnerNumbers DEF Fresh, NoRunner, AfterError, Runner, NoWelcome

LEMMA ChangedRunners ==
    ASSUME NEW x \in Runner
    PROVE  /\ [x EXCEPT !.cancelled = TRUE] \in Runner
           /\ [x EXCEPT !.cancelled = TRUE].pc = x.pc
           /\ [x EXCEPT !.cancelled = TRUE].onWelcome = x.onWelcome
           /\ [x EXCEPT !.cancelled = TRUE].reconnecting = x.reconnecting
BY DEF Runner

LEMMA SocketsBegin == WebsocketsInit => SocketInv
<1>. SUFFICES ASSUME WebsocketsInit PROVE SocketInv
  OBVIOUS
<1>1. /\ runners \in [Runners -> Runner] /\ served = 0
      /\ \A i \in Runners : /\ ~runners[i].reconnecting /\ runners[i].onWelcome \notin Runners
                            /\ runners[i].pc = IF i = 1 THEN "dial" ELSE "none"
  BY RunnerNumbers, NewRunners DEF WebsocketsInit, NoWelcome
<1>2. SocketTypes /\ ServedIsReady
  <2>1. rivals \in BOOLEAN
    BY DEF WebsocketsInit
  <2>. QED
    BY <1>1, <2>1, RunnerNumbers DEF SocketTypes, ServedIsReady
<1>3. Successors /\ OneIsLeft
  BY <1>1, RunnerNumbers DEF Successors, OneIsLeft, GoesOn
<1>. QED
  BY <1>2, <1>3 DEF SocketInv

(* What the end of a connection does: i becomes new, and nobody would cancel  *)
(* it any more.                                                               *)
EndsAs(i, new) == runners' = Ends([runners EXCEPT ![i] = new], i)

EndedAs(i, new) ==
    /\ runners' \in [Runners -> Runner]
    /\ \A j \in Runners :
          /\ runners'[j].pc = IF j = i THEN new.pc ELSE runners[j].pc
          /\ runners'[j].reconnecting = IF j = i THEN new.reconnecting ELSE runners[j].reconnecting
          /\ runners'[j].onWelcome \in {NoWelcome, IF j = i THEN new.onWelcome ELSE runners[j].onWelcome}
          /\ runners'[j].onWelcome # i

LEMMA EndsOf ==
    ASSUME SocketTypes, NEW i \in Runners, NEW new \in Runner, EndsAs(i, new)
    PROVE  EndedAs(i, new)
<1>. DEFINE rs == [runners EXCEPT ![i] = new]
<1>1. rs \in [Runners -> Runner] /\ \A j \in Runners : rs[j] = IF j = i THEN new ELSE runners[j]
  BY DEF SocketTypes
<1>. HIDE DEF rs
<1>2. NoWelcome \in 0 .. OnStart /\ NoWelcome # i
  BY RunnerNumbers DEF NoWelcome
<1>3. ASSUME NEW j \in Runners
      PROVE  /\ runners'[j] \in Runner
             /\ runners'[j].pc = rs[j].pc /\ runners'[j].reconnecting = rs[j].reconnecting
             /\ runners'[j].onWelcome = IF rs[j].onWelcome = i THEN NoWelcome ELSE rs[j].onWelcome
  BY <1>1, <1>2 DEF rs, Ends, EndsAs, Runner
<1>4. runners' = [j \in Runners |-> runners'[j]]
  BY DEF Ends, EndsAs
<1>. QED
  BY <1>1, <1>2, <1>3, <1>4 DEF EndedAs

(* A connection ends and its goroutine goes on with another one, or leaves    *)
(* that to the successor that was asked for.                                  *)
GoesOnAfter(i, new) ==
    /\ new.pc = "wait" /\ ~new.reconnecting /\ new.onWelcome = NoWelcome
    /\ (rivals' = TRUE) \/ (GoesOn(i) /\ UNCHANGED rivals)
IsOver(i, new) ==
    /\ new.pc = "done" /\ new.reconnecting /\ new.onWelcome = runners[i].onWelcome
    /\ runners[i].reconnecting /\ UNCHANGED rivals
NotServed(i) == served' = IF served = i THEN 0 ELSE served

LEMMA ConnectionEnds ==
    ASSUME SocketInv, NEW i \in Runners, NEW new \in Runner,
           EndsAs(i, new), NotServed(i), GoesOnAfter(i, new) \/ IsOver(i, new)
    PROVE  SocketInv'
<1>0. SocketTypes
  BY DEF SocketInv
<1>1. EndedAs(i, new)
  BY <1>0, EndsOf
<1>2. SocketTypes'
  <2>1. rivals' \in BOOLEAN
    BY <1>0 DEF SocketTypes, GoesOnAfter, IsOver
  <2>. QED
    BY <1>0, <1>1, <2>1, RunnerNumbers DEF SocketTypes, EndedAs, NotServed
<1>3. Successors'
  <2>1. ASSUME NEW j \in Runners, runners'[j].onWelcome \in Runners
        PROVE  LET old == runners'[runners'[j].onWelcome] IN old.reconnecting /\ old.pc = "ready"
    <3>1. runners'[j].onWelcome = runners[j].onWelcome /\ runners[j].onWelcome # i
      BY <1>1, <2>1, RunnerNumbers DEF EndedAs, GoesOnAfter, IsOver, NoWelcome
    <3>2. PICK k \in Runners : k = runners[j].onWelcome
      BY <2>1, <3>1
    <3>3. runners[k].reconnecting /\ runners[k].pc = "ready"
      BY <3>2 DEF SocketInv, Successors
    <3>4. runners'[k].reconnecting /\ runners'[k].pc = "ready"
      BY <1>1, <3>1, <3>2, <3>3 DEF EndedAs
    <3>. QED
      BY <3>1, <3>2, <3>4
  <2>2. ASSUME NEW j \in Runners, runners'[j].reconnecting PROVE runners'[j].pc \in {"ready", "done"}
    BY <1>1, <2>2 DEF SocketInv, Successors, EndedAs, GoesOnAfter, IsOver
  <2>. QED
    BY <2>1, <2>2 DEF Successors
<1>4. ServedIsReady'
  BY <1>0, <1>1 DEF SocketInv, ServedIsReady, SocketTypes, Runners, EndedAs, NotServed
<1>5. OneIsLeft'
  <2>1. \A j \in Runners \ {i} : GoesOn(j)' <=> GoesOn(j)
    BY <1>1 DEF GoesOn, EndedAs
  <2>2. CASE GoesOnAfter(i, new)
    <3>1. GoesOn(i)'
      BY <1>1, <2>2 DEF GoesOn, EndedAs, GoesOnAfter
    <3>. QED
      BY <2>1, <2>2, <3>1 DEF SocketInv, OneIsLeft, GoesOnAfter
  <2>3. CASE IsOver(i, new)
    <3>1. ~GoesOn(i)' /\ ~GoesOn(i)
      BY <1>1, <2>3 DEF GoesOn, EndedAs, IsOver
    <3>. QED
      BY <2>1, <2>3, <3>1 DEF SocketInv, OneIsLeft, IsOver
  <2>. QED
    BY <2>2, <2>3
<1>. QED
  BY <1>2, <1>3, <1>4, <1>5 DEF SocketInv

(* A goroutine takes its next step without a connection that ends.            *)
LEMMA RunnerMoves ==
    ASSUME SocketInv, NEW i \in Runners, NEW new \in Runner,
           runners' = [runners EXCEPT ![i] = new], UNCHANGED <<served, rivals>>,
           runners[i].pc \in {"dial", "wait"}, new.pc \in {"dial", "welcome"},
           new.reconnecting = runners[i].reconnecting, new.onWelcome = runners[i].onWelcome
    PROVE  SocketInv'
<1>0. SocketTypes
  BY DEF SocketInv
<1>1. /\ runners' \in [Runners -> Runner] /\ runners'[i] = new
      /\ \A j \in Runners \ {i} : runners'[j] = runners[j]
  BY <1>0 DEF SocketTypes
<1>2. SocketTypes'
  BY <1>0, <1>1 DEF SocketTypes
<1>3. Successors'
  BY <1>1 DEF SocketInv, Successors
<1>4. ServedIsReady'
  BY <1>0, <1>1 DEF SocketInv, ServedIsReady, SocketTypes, Runners
<1>5. \A j \in Runners : GoesOn(j)' <=> GoesOn(j)
  BY <1>1 DEF GoesOn
<1>6. OneIsLeft'
  BY <1>5 DEF SocketInv, OneIsLeft
<1>. QED
  BY <1>2, <1>3, <1>4, <1>6 DEF SocketInv

LEMMA SocketsGoOn == SocketInv /\ [WebsocketsNext]_socketVars => SocketInv'
<1>. SUFFICES ASSUME SocketInv, [WebsocketsNext]_socketVars PROVE SocketInv'
  OBVIOUS
<1>0. SocketTypes
  BY DEF SocketInv
<1>a. ASSUME NEW i \in Runners
           PROVE  /\ AfterClose(i) \in Runner
                  /\ runners[i].reconnecting =>
                         /\ AfterClose(i).pc = "done" /\ AfterClose(i).reconnecting
                         /\ AfterClose(i).onWelcome = runners[i].onWelcome
                  /\ ~runners[i].reconnecting =>
                         /\ AfterClose(i).pc = "wait" /\ ~AfterClose(i).reconnecting
                         /\ AfterClose(i).onWelcome = NoWelcome
  <2>1. runners[i] \in Runner
    BY <1>0 DEF SocketTypes
  <2>2. CASE runners[i].reconnecting
    BY <2>1, <2>2 DEF AfterClose, Runner
  <2>3. CASE ~runners[i].reconnecting
    <3>1. AfterClose(i) = AfterError
      BY <2>3 DEF AfterClose, AfterError
    <3>. QED
      BY <2>3, <3>1, NewRunners
  <2>. QED
    BY <2>2, <2>3
<1>1. ASSUME NEW i \in Runners, Dial(i) PROVE SocketInv'
  <2>1. runners[i] \in Runner /\ runners[i].pc = "dial"
    BY <1>0, <1>1 DEF Dial, SocketTypes
  <2>. DEFINE new == [runners[i] EXCEPT !.pc = "welcome"]
  <2>2. new \in Runner /\ new.pc = "welcome" /\ new.reconnecting = runners[i].reconnecting
        /\ new.onWelcome = runners[i].onWelcome
    BY <2>1 DEF Runner
  <2>3. runners' = [runners EXCEPT ![i] = new] /\ UNCHANGED <<served, rivals>>
    BY <1>1 DEF Dial
  <2>. HIDE DEF new
  <2>. QED
    BY <2>1, <2>2, <2>3, RunnerMoves
<1>2. ASSUME NEW i \in Runners, DialFails(i) PROVE SocketInv'
  <2>1. runners' = Ends([runners EXCEPT ![i] = AfterError], i) /\ UNCHANGED <<served, rivals>>
        /\ runners[i].pc = "dial"
    BY <1>2 DEF DialFails
  <2>2. served # i /\ GoesOn(i)
    BY <2>1, RunnerNumbers DEF SocketInv, ServedIsReady, Successors, GoesOn
  <2>3. AfterError \in Runner /\ EndsAs(i, AfterError) /\ NotServed(i) /\ GoesOnAfter(i, AfterError)
    BY <2>1, <2>2, NewRunners DEF EndsAs, NotServed, GoesOnAfter
  <2>. QED
    BY <2>3, ConnectionEnds
<1>3. ASSUME NEW i \in Runners, Welcome(i) PROVE SocketInv'
  <2>. DEFINE next == runners[i].onWelcome
  <2>1. /\ runners[i] \in Runner /\ runners[i].pc = "welcome"
        /\ served' = i /\ UNCHANGED rivals /\ NoWelcome \in 0 .. OnStart
    BY <1>0, <1>3, RunnerNumbers DEF Welcome, SocketTypes, NoWelcome
  <2>2. /\ runners' \in [Runners -> Runner]
        /\ \A j \in Runners : /\ runners'[j].pc = IF j = i THEN "ready" ELSE runners[j].pc
                              /\ runners'[j].reconnecting = runners[j].reconnecting
                              /\ runners'[j].onWelcome = IF j = i THEN NoWelcome ELSE runners[j].onWelcome
    <3>. DEFINE new == [runners[i] EXCEPT !.pc = "ready", !.onWelcome = NoWelcome]
                rs == [runners EXCEPT ![i] = new]
    <3>1. /\ new \in Runner /\ new.pc = "ready" /\ new.onWelcome = NoWelcome
          /\ new.reconnecting = runners[i].reconnecting
      BY <2>1 DEF Runner
    <3>2. rs = [runners EXCEPT ![i].pc = "ready", ![i].onWelcome = NoWelcome]
      BY <1>0 DEF SocketTypes
    <3>3. runners' = rs \/ (next \in Runners /\ runners' = [rs EXCEPT ![next].cancelled = TRUE])
      BY <1>3, <3>2 DEF Welcome
    <3>. HIDE DEF new
    <3>4. rs \in [Runners -> Runner] /\ \A j \in Runners : rs[j] = IF j = i THEN new ELSE runners[j]
      BY <1>0, <3>1 DEF SocketTypes
    <3>. HIDE DEF rs
    <3>5. CASE runners' = rs
      <4>1. \A j \in Runners : runners'[j] = IF j = i THEN new ELSE runners[j]
        BY <3>4, <3>5
      <4>. QED
        BY <3>1, <3>4, <3>5, <4>1
    <3>6. CASE next \in Runners /\ runners' = [rs EXCEPT ![next].cancelled = TRUE]
      <4>. PICK k \in Runners : k = next
        BY <3>6
      <4>. DEFINE old == [rs[k] EXCEPT !.cancelled = TRUE]
      <4>1. rs[k] \in Runner
        BY <3>4
      <4>2. /\ old \in Runner /\ old.pc = rs[k].pc /\ old.reconnecting = rs[k].reconnecting
            /\ old.onWelcome = rs[k].onWelcome
        BY <4>1, ChangedRunners
      <4>3. runners' = [rs EXCEPT ![k] = old]
        BY <3>6
      <4>. HIDE DEF old
      <4>4. /\ runners' \in [Runners -> Runner]
            /\ \A j \in Runners : runners'[j] = IF j = k THEN old ELSE rs[j]
        BY <3>4, <4>2, <4>3
      <4>5. ASSUME NEW j \in Runners
            PROVE  /\ runners'[j].pc = rs[j].pc /\ runners'[j].reconnecting = rs[j].reconnecting
                   /\ runners'[j].onWelcome = rs[j].onWelcome
        BY <4>2, <4>4
      <4>6. ASSUME NEW j \in Runners
            PROVE  /\ rs[j].pc = IF j = i THEN "ready" ELSE runners[j].pc
                   /\ rs[j].reconnecting = runners[j].reconnecting
                   /\ rs[j].onWelcome = IF j = i THEN NoWelcome ELSE runners[j].onWelcome
        BY <3>1, <3>4
      <4>. QED
        BY <4>4, <4>5, <4>6
    <3>. QED
      BY <3>3, <3>5, <3>6
  <2>3. SocketTypes'
    BY <1>0, <2>1, <2>2, RunnerNumbers DEF SocketTypes
  <2>4. Successors'
    <3>1. ASSUME NEW j \in Runners, runners'[j].onWelcome \in Runners
          PROVE  LET old == runners'[runners'[j].onWelcome] IN old.reconnecting /\ old.pc = "ready"
      <4>1. runners'[j].onWelcome = runners[j].onWelcome
        BY <2>2, <3>1, RunnerNumbers DEF NoWelcome
      <4>2. PICK k \in Runners : k = runners[j].onWelcome
        BY <3>1, <4>1
      <4>3. runners[k].reconnecting /\ runners[k].pc = "ready"
        BY <4>2 DEF SocketInv, Successors
      <4>4. runners'[k].reconnecting /\ runners'[k].pc = "ready"
        BY <2>2, <4>3
      <4>. QED
        BY <4>1, <4>2, <4>4
    <3>2. ASSUME NEW j \in Runners, runners'[j].reconnecting PROVE runners'[j].pc \in {"ready", "done"}
      BY <2>1, <2>2, <3>2 DEF SocketInv, Successors
    <3>. QED
      BY <3>1, <3>2 DEF Successors
  <2>5. ServedIsReady'
    BY <2>1, <2>2 DEF ServedIsReady
  <2>6. \A j \in Runners : GoesOn(j)' <=> GoesOn(j)
    BY <2>1, <2>2 DEF GoesOn
  <2>7. OneIsLeft'
    BY <2>1, <2>6 DEF SocketInv, OneIsLeft
  <2>. QED
    BY <2>3, <2>4, <2>5, <2>7 DEF SocketInv
<1>4. ASSUME NEW i \in Runners, WelcomeFails(i) PROVE SocketInv'
  <2>1. /\ runners' = Ends([runners EXCEPT ![i] = AfterError], i) /\ UNCHANGED rivals
        /\ served' = IF served = i THEN 0 ELSE served
        /\ runners[i].pc = "welcome"
    BY <1>4 DEF WelcomeFails, Closed
  <2>2. GoesOn(i)
    BY <2>1 DEF SocketInv, Successors, GoesOn
  <2>3. AfterError \in Runner /\ EndsAs(i, AfterError) /\ NotServed(i) /\ GoesOnAfter(i, AfterError)
    BY <2>1, <2>2, NewRunners DEF EndsAs, NotServed, GoesOnAfter
  <2>. QED
    BY <2>3, ConnectionEnds
<1>5. ASSUME NEW i \in Runners, Reconnect(i) PROVE SocketInv'
  <2>1. /\ runners[i] \in Runner /\ runners[i].pc = "ready" /\ ~runners[i].reconnecting
        /\ UNCHANGED <<served, rivals>>
    BY <1>0, <1>5 DEF Reconnect, SocketTypes
  <2>2. PICK j \in Runners : /\ runners[j].pc = "none"
                             /\ runners' = [runners EXCEPT ![i].reconnecting = TRUE, ![j] = Fresh("reconnect", i)]
    BY <1>5 DEF Reconnect
  <2>. DEFINE old == [runners[i] EXCEPT !.reconnecting = TRUE]
              new == Fresh("reconnect", i)
  <2>3. /\ old \in Runner /\ old.pc = "ready" /\ old.reconnecting /\ old.onWelcome = runners[i].onWelcome
    BY <2>1 DEF Runner
  <2>4. new \in Runner /\ new.pc = "dial" /\ new.onWelcome = i /\ ~new.reconnecting
    BY NewRunners, RunnerNumbers
  <2>5. runners' = [runners EXCEPT ![i] = old, ![j] = new]
    BY <2>2
  <2>. HIDE DEF old, new
  <2>6. /\ i # j /\ runners' \in [Runners -> Runner] /\ runners'[i] = old /\ runners'[j] = new
        /\ \A k \in Runners \ {i, j} : runners'[k] = runners[k]
    <3>1. i # j
      BY <2>1, <2>2
    <3>2. runners \in [Runners -> Runner]
      BY <1>0 DEF SocketTypes
    <3>. QED
      BY <2>3, <2>4, <2>5, <3>1, <3>2
  <2>7. SocketTypes'
    BY <1>0, <2>1, <2>6 DEF SocketTypes
  <2>8. Successors'
    <3>1. ASSUME NEW k \in Runners, runners'[k].onWelcome \in Runners
          PROVE  LET prev == runners'[runners'[k].onWelcome] IN prev.reconnecting /\ prev.pc = "ready"
      <4>1. CASE k = j
        BY <2>3, <2>4, <2>6, <4>1
      <4>2. CASE k # j
        <5>1. runners'[k].onWelcome = runners[k].onWelcome
          BY <2>3, <2>6, <4>2
        <5>2. PICK n \in Runners : n = runners[k].onWelcome
          BY <3>1, <5>1
        <5>3. runners[n].reconnecting /\ runners[n].pc = "ready" /\ n # i /\ n # j
          BY <2>1, <2>2, <5>2, <3>1, <5>1 DEF SocketInv, Successors
        <5>. QED
          BY <2>6, <5>1, <5>2, <5>3
      <4>. QED
        BY <4>1, <4>2
    <3>2. ASSUME NEW k \in Runners, runners'[k].reconnecting PROVE runners'[k].pc \in {"ready", "done"}
      BY <2>3, <2>4, <2>6, <3>2 DEF SocketInv, Successors
    <3>. QED
      BY <3>1, <3>2 DEF Successors
  <2>9. ServedIsReady'
    BY <1>0, <2>1, <2>2, <2>3, <2>6 DEF SocketInv, ServedIsReady, SocketTypes, Runners
  <2>10. OneIsLeft'
    <3>1. GoesOn(i) /\ ~GoesOn(j) /\ ~GoesOn(i)' /\ GoesOn(j)'
      BY <2>1, <2>2, <2>3, <2>4, <2>6 DEF GoesOn
    <3>2. \A k \in Runners \ {i, j} : GoesOn(k)' <=> GoesOn(k)
      BY <2>6 DEF GoesOn
    <3>. QED
      BY <2>1, <3>1, <3>2 DEF SocketInv, OneIsLeft
  <2>. QED
    BY <2>7, <2>8, <2>9, <2>10 DEF SocketInv
<1>6. ASSUME NEW i \in Runners, ReadFails(i) \/ Cancelled(i) PROVE SocketInv'
  <2>1. /\ runners' = Ends([runners EXCEPT ![i] = AfterClose(i)], i) /\ UNCHANGED rivals
        /\ served' = IF served = i THEN 0 ELSE served
        /\ runners[i].pc \in {"welcome", "ready"}
    BY <1>6 DEF ReadFails, Cancelled, Closed, Open
  <2>2. ~runners[i].reconnecting => GoesOn(i)
    BY <2>1 DEF GoesOn
  <2>3. AfterClose(i) \in Runner /\ EndsAs(i, AfterClose(i)) /\ NotServed(i)
    BY <2>1, <1>a DEF EndsAs, NotServed
  <2>4. GoesOnAfter(i, AfterClose(i)) \/ IsOver(i, AfterClose(i))
    BY <2>1, <2>2, <1>a DEF GoesOnAfter, IsOver
  <2>. QED
    BY <2>3, <2>4, ConnectionEnds
<1>7. ASSUME NEW i \in Runners, NotificationFails(i) PROVE SocketInv'
  <2>1. /\ runners' = Ends([runners EXCEPT ![i] = AfterError], i)
        /\ rivals' = (rivals \/ runners[i].reconnecting)
        /\ served' = IF served = i THEN 0 ELSE served
        /\ runners[i].pc = "ready"
    BY <1>7 DEF NotificationFails, Closed
  <2>2. (rivals' = TRUE) \/ (GoesOn(i) /\ rivals' = rivals)
    BY <1>0, <2>1 DEF GoesOn, SocketTypes, Runner
  <2>3. AfterError \in Runner /\ EndsAs(i, AfterError) /\ NotServed(i) /\ GoesOnAfter(i, AfterError)
    BY <2>1, <2>2, NewRunners DEF EndsAs, NotServed, GoesOnAfter
  <2>. QED
    BY <2>3, ConnectionEnds
<1>8. ASSUME NEW i \in Runners, WaitOver(i) PROVE SocketInv'
  <2>1. runners[i] \in Runner /\ runners[i].pc = "wait"
    BY <1>0, <1>8 DEF WaitOver, SocketTypes
  <2>. DEFINE new == [runners[i] EXCEPT !.pc = "dial"]
  <2>2. new \in Runner /\ new.pc = "dial" /\ new.reconnecting = runners[i].reconnecting
        /\ new.onWelcome = runners[i].onWelcome
    BY <2>1 DEF Runner
  <2>3. runners' = [runners EXCEPT ![i] = new] /\ UNCHANGED <<served, rivals>>
    BY <1>8 DEF WaitOver
  <2>. HIDE DEF new
  <2>. QED
    BY <2>1, <2>2, <2>3, RunnerMoves
<1>9. CASE UNCHANGED socketVars
  BY <1>9 DEF socketVars, SocketInv, SocketTypes, Successors, ServedIsReady, OneIsLeft,
     GoesOn
<1>. QED
  BY <1>1, <1>2, <1>3, <1>4, <1>5, <1>6, <1>7, <1>8, <1>9 DEF WebsocketsNext

THEOREM SocketInvHolds == WebsocketsSpec => []SocketInv
BY SocketsBegin, SocketsGoOn, PTL DEF WebsocketsSpec

(* For any number of goroutines and failures, a welcome cancels only a        *)
(* connection that was asked to reconnect, the shard's session is a           *)
(* connection that is open, and exactly one goroutine goes on for ever, unless*)
(* a notification failed on a connection that was being replaced              *)
(* (runWebsocket, runOneWebsocket).                                           *)
THEOREM ShardHasOneRunner == WebsocketsSpec => [](WebsocketsTypeOK /\ OneGoesOn)
<1>1. SocketInv => WebsocketsTypeOK /\ OneGoesOn
  <2>. SUFFICES ASSUME SocketInv PROVE WebsocketsTypeOK /\ OneGoesOn
    OBVIOUS
  <2>1. WebsocketsTypeOK
    BY DEF SocketInv, SocketTypes, Successors, ServedIsReady, WebsocketsTypeOK, Runner
  <2>2. PICK i \in Runners : i \in Going
    BY DEF SocketInv, OneIsLeft, GoesOn, Going
  <2>3. CASE rivals
    BY <2>1, <2>2, <2>3 DEF OneGoesOn
  <2>4. CASE ~rivals
    <3>1. Going = {i}
      BY <2>2, <2>4 DEF SocketInv, OneIsLeft, GoesOn, Going
    <3>2. Cardinality(Going) = 1
      BY <3>1, FS_Singleton
    <3>. QED
      BY <2>1, <2>2, <3>2 DEF OneGoesOn
  <2>. QED
    BY <2>3, <2>4
<1>. QED
  BY <1>1, SocketInvHolds, PTL
------------------------------------------------------------------------------
(***************************************************************************)
(* Subscriptions                                                           *)
(***************************************************************************)
Pairs == (Channels \union Bots) \X (Bots \union {NoBot})
Item == [id : Ids, sub : Sub]
Synchroniser ==
    [pc : {"poll", "sleep", "tick", "list", "get", "classify", "apply"},
     conduit : Nat \union {None}, started : {"no", "yes", "never"}, read : Nat, handled : Nat \union {None}, listed : SUBSET Pairs,
     seen : (SUBSET Pairs) \union {None}, page : Nat, items : SUBSET Item, periodic : BOOLEAN,
     stale : SUBSET Ids, create : SUBSET Pairs, delete : SUBSET Ids]

SyncTypes ==
    /\ assigned \in [Channels -> Bots \union {None}] /\ bots \in SUBSET Bots
    /\ owed \in Nat /\ version \in Nat /\ faults \in Nat /\ lost \in BOOLEAN
    /\ subs \in [Ids -> Sub \union {None}] /\ conduits \in SUBSET Nat
    /\ sync \in Synchroniser

Underway == sync.pc \in {"get", "classify", "apply"}

(* A synchronisation that goes on has a conduit, and the pairs it wants.      *)
ConduitIsThere ==
    /\ sync.conduit # None => sync.conduit \in conduits
    /\ sync.started # "no" => sync.conduit # None
    /\ Underway => sync.conduit # None /\ sync.seen \in SUBSET Pairs

(* What changed since is still to be asked for, was asked for after the       *)
(* version that was read, or nobody will ask for it.                          *)
Asked(v) == owed > 0 \/ lost \/ version > v
VersionsAreRead ==
    /\ sync.read <= version
    /\ sync.handled # None => sync.handled <= sync.read
    /\ Underway => sync.seen = ActiveChannelsByBot \/ Asked(sync.read)
    /\ sync.handled # None => sync.listed = ActiveChannelsByBot \/ Asked(sync.handled)

(* The pages have every subscription once, and only the synchroniser deletes. *)
ItemsAreThere ==
    /\ \A i \in sync.items :
          /\ subs[i.id] # None
          /\ sync.pc \in {"get", "classify"}
          /\ sync.pc = "get" => i.id <= sync.page
    /\ \A i, j \in sync.items : i.id = j.id => i = j
    /\ sync.stale \union sync.delete # {} => sync.pc = "apply"
    /\ \A id \in sync.stale \union sync.delete : subs[id] # None
    /\ sync.stale \intersect sync.delete = {}

ConduitInv == SyncTypes /\ ConduitIsThere /\ VersionsAreRead /\ ItemsAreThere
------------------------------------------------------------------------------
NatLess == {ss \in Nat \X Nat : ss[1] < ss[2]}

LEMMA NatLessIsWellFounded == IsWellFoundedOn(NatLess, Nat)
BY NatLessThanWellFounded DEF OpToRel, NatLess

(* A set of numbers has a least one, ...                                      *)
LEMMA Least ==
    ASSUME NEW T \in SUBSET Nat, T # {}
    PROVE  \E x \in T : \A y \in T : x <= y
<1>1. \E x \in T : \A y \in T : ~(<<y, x>> \in NatLess)
  BY NatLessIsWellFounded, WFMin
<1>2. \A x \in T, y \in T : <<y, x>> \notin NatLess => x <= y
  BY DEF NatLess
<1>. QED
  BY <1>1, <1>2

(* ... and a finite one has a greatest.                                       *)
LEMMA Greatest ==
    ASSUME NEW T \in SUBSET Nat, T # {}, IsFiniteSet(T)
    PROVE  \E x \in T : \A y \in T : y <= x
<1>. DEFINE Above(j) == {k \in T : k > j}
            Sizes == {Cardinality(Above(j)) : j \in T}
<1>1. \A j \in T : IsFiniteSet(Above(j)) /\ Cardinality(Above(j)) \in Nat
  BY FS_Subset, FS_CardinalityType
<1>2. Sizes \in SUBSET Nat /\ Sizes # {}
  BY <1>1
<1>3. PICK m \in Sizes : \A n \in Sizes : m <= n
  BY <1>2, Least
<1>4. PICK x \in T : m = Cardinality(Above(x))
  BY <1>3
<1>5. SUFFICES ASSUME NEW y \in T, y > x PROVE FALSE
  BY <1>5
<1>6. Above(y) \in SUBSET Above(x) /\ y \in Above(x) /\ y \notin Above(y)
  <2>1. x \in Nat /\ y \in Nat /\ \A k \in T : k \in Nat /\ (k > y => k > x) /\ (k = y => ~(k > y))
    BY <1>5
  <2>. QED
    BY <1>5, <2>1
<1>7. Cardinality(Above(y)) < Cardinality(Above(x))
  <2>. HIDE DEF Above
  <2>1. IsFiniteSet(Above(x)) /\ Cardinality(Above(x)) \in Nat /\ Cardinality(Above(y)) \in Nat
    BY <1>1, Zenon
  <2>2. Above(y) # Above(x)
    BY <1>6
  <2>3. Cardinality(Above(y)) <= Cardinality(Above(x)) /\ Cardinality(Above(y)) # Cardinality(Above(x))
    BY <1>6, <2>1, <2>2, FS_Subset, Zenon
  <2>. QED
    BY <2>1, <2>3
<1>8. m \in Nat /\ Cardinality(Above(y)) \in Sizes
  BY <1>1, <1>4
<1>. HIDE DEF Above, Sizes
<1>9. m <= Cardinality(Above(y)) /\ Cardinality(Above(y)) \in Nat
  BY <1>1, <1>3, <1>8
<1>. QED
  BY <1>4, <1>7, <1>8, <1>9
------------------------------------------------------------------------------
LEMMA PairsOfSubs ==
    /\ \A sub \in Sub : sub.conduit \in Nat
    /\ None \notin Sub /\ None \notin Nat /\ 0 \in Nat
BY SubscriptionsAssumption, LeftoversAssumption DEF Sub

LEMMA WantedIsPairs == SyncTypes => ActiveChannelsByBot \in SUBSET Pairs
<1>1. SUFFICES ASSUME SyncTypes, NEW p \in ActiveChannelsByBot PROVE p \in Pairs
  BY <1>1
<1>2. \/ \E b \in bots : p = <<b, b>>
      \/ \E c \in Channels : p = <<c, BotMaps(assigned[c])>> /\ assigned[c] # None
  BY <1>1 DEF ActiveChannelsByBot, ListBotTwitchTokens, ListActiveChannelAssignments
<1>3. \A b : BotMaps(b) \in Bots \union {NoBot}
  BY <1>1 DEF BotMaps, ListBotTwitchTokens, SyncTypes
<1>. QED
  BY <1>1, <1>2, <1>3 DEF Pairs, SyncTypes

LEMMA IdleTypes == Idle \in Synchroniser
BY PairsOfSubs DEF Idle, Synchroniser

LEMMA SyncBegins == SyncInit => ConduitInv
<1>1. SUFFICES ASSUME SyncInit PROVE ConduitInv
  OBVIOUS
<1>2. subs \in [Ids -> Sub \union {None}]
  BY <1>1, LeftoversAssumption DEF SyncInit
<1>3. conduits \in SUBSET Nat
  <2>1. \A id \in Ids : subs[id] # None => subs[id].conduit \in Nat
    BY <1>2, PairsOfSubs
  <2>. QED
    BY <1>1, <2>1 DEF SyncInit
<1>4. assigned \in [Channels -> Bots \union {None}] /\ bots \in SUBSET Bots
      /\ owed \in Nat /\ version \in Nat /\ faults \in Nat
  BY <1>1 DEF SyncInit
<1>5. lost \in BOOLEAN
  BY <1>1 DEF SyncInit
<1>6. SyncTypes
  BY <1>1, <1>2, <1>3, <1>4, <1>5, IdleTypes DEF SyncTypes, SyncInit
<1>7. sync = Idle /\ version = 0
  BY <1>1 DEF SyncInit
<1>8. ConduitIsThere /\ VersionsAreRead /\ ItemsAreThere
  BY <1>7 DEF Idle, ConduitIsThere, VersionsAreRead, ItemsAreThere, Underway
<1>. QED
  BY <1>6, <1>8 DEF ConduitInv
------------------------------------------------------------------------------
(* Of the others: the channels and the bots, what they ask for, and Twitch.   *)
LEMMA WantsChange ==
    ASSUME ConduitInv, UNCHANGED <<subs, conduits, sync>>,
           assigned' \in [Channels -> Bots \union {None}], bots' \in SUBSET Bots,
           owed' \in Nat, version' \in Nat, faults' \in Nat, lost' \in BOOLEAN, version <= version',
           \A v \in Nat : Asked(v) /\ v <= version => Asked(v)',
           (UNCHANGED <<assigned, bots>>) \/ \A v \in Nat : v <= version => Asked(v)'
    PROVE  ConduitInv'
<1>. USE DEF ConduitInv
<1>1. SyncTypes'
  BY DEF SyncTypes
<1>2. ConduitIsThere' /\ ItemsAreThere'
  BY DEF ConduitIsThere, ItemsAreThere, Underway
<1>3. VersionsAreRead'
  <2>1. sync.read \in Nat /\ version \in Nat /\ (sync.handled # None => sync.handled \in Nat)
    BY DEF SyncTypes, Synchroniser
  <2>2. sync.read <= version /\ (sync.handled # None => sync.handled <= version)
    BY <2>1 DEF VersionsAreRead
  <2>3. CASE UNCHANGED <<assigned, bots>>
    <3>1. ActiveChannelsByBot' = ActiveChannelsByBot
      BY <2>3 DEF ActiveChannelsByBot, BotMaps, ListBotTwitchTokens,
         ListActiveChannelAssignments
    <3>. QED
      BY <2>1, <2>2, <3>1 DEF VersionsAreRead, Underway
  <2>4. CASE \A v \in Nat : v <= version => Asked(v)'
    BY <2>1, <2>2, <2>4 DEF VersionsAreRead, Underway
  <2>. QED
    BY <2>3, <2>4
<1>. QED
  BY <1>1, <1>2, <1>3

LEMMA OthersKeep ==
    ASSUME ConduitInv,
           \/ \E c \in Channels : Change(c)
           \/ \E b \in Bots : LogIn(b) \/ LoseToken(b)
           \/ RequestEventsubSync \/ LoseRequest
    PROVE  ConduitInv'
<1>1. SyncTypes
  BY DEF ConduitInv
<1>2. CASE \E c \in Channels : Change(c)
  <2>1. UNCHANGED <<bots, lost, version, subs, conduits, sync, faults>> /\ owed' = owed + 1
        /\ assigned' \in [Channels -> Bots \union {None}]
    BY <1>1, <1>2 DEF Change, SyncTypes
  <2>. QED
    BY <1>1, <2>1, WantsChange DEF Asked, SyncTypes
<1>3. CASE \E b \in Bots : LogIn(b)
  <2>1. UNCHANGED <<assigned, lost, version, subs, conduits, sync, faults>> /\ owed' = owed + 1
        /\ bots' \in SUBSET Bots
    BY <1>1, <1>3 DEF LogIn, SyncTypes
  <2>. QED
    BY <1>1, <2>1, WantsChange DEF Asked, SyncTypes
<1>4. CASE \E b \in Bots : LoseToken(b)
  <2>1. UNCHANGED <<assigned, owed, version, subs, conduits, sync>> /\ lost' = TRUE
        /\ bots' \in SUBSET Bots /\ faults' = faults + 1
    BY <1>1, <1>4 DEF LoseToken, SyncTypes, Fault
  <2>. QED
    BY <1>1, <2>1, WantsChange DEF Asked, SyncTypes
<1>5. CASE RequestEventsubSync
  <2>1. UNCHANGED <<assigned, bots, lost, subs, conduits, sync, faults>>
        /\ owed > 0 /\ owed' = owed - 1 /\ version' = version + 1
    BY <1>5 DEF RequestEventsubSync
  <2>2. \A v \in Nat : v <= version => Asked(v)'
    BY <1>1, <2>1 DEF Asked, SyncTypes
  <2>. QED
    BY <1>1, <2>1, <2>2, WantsChange DEF SyncTypes
<1>6. CASE LoseRequest
  <2>1. UNCHANGED <<assigned, bots, version, subs, conduits, sync>> /\ lost' = TRUE
        /\ owed > 0 /\ owed' = owed - 1 /\ faults' = faults + 1
    BY <1>6 DEF LoseRequest, Fault
  <2>. QED
    BY <1>1, <2>1, WantsChange DEF Asked, SyncTypes
<1>. QED
  BY <1>2, <1>3, <1>4, <1>5, <1>6

LEMMA RevokeKeeps == ASSUME ConduitInv, NEW id \in Ids, Revoke(id) PROVE ConduitInv'
<1>. USE DEF ConduitInv
<1>1. /\ subs' \in [Ids -> Sub \union {None}] /\ \A i \in Ids : subs[i] # None => subs'[i] # None
      /\ faults' \in Nat /\ UNCHANGED <<assigned, bots, owed, lost, version, conduits, sync>>
  <2>. DEFINE new == [subs[id] EXCEPT !.status = "revoked"]
  <2>1. subs[id] \in Sub
    BY DEF Revoke, Enabled, Ours, SyncTypes
  <2>2. new \in Sub /\ new # None
    BY <2>1, PairsOfSubs DEF Sub, Statuses
  <2>3. subs' = [subs EXCEPT ![id] = new] /\ UNCHANGED <<assigned, bots, owed, lost, version, conduits, sync>>
    BY DEF Revoke
  <2>4. faults' \in Nat
    BY DEF Revoke, Fault, SyncTypes
  <2>. HIDE DEF new
  <2>. QED
    BY <2>2, <2>3, <2>4 DEF SyncTypes
<1>2. SyncTypes'
  BY <1>1 DEF SyncTypes
<1>3. ConduitIsThere' /\ VersionsAreRead'
  BY <1>1 DEF ConduitIsThere, VersionsAreRead, Underway, Asked, ActiveChannelsByBot,
     BotMaps,
              ListBotTwitchTokens, ListActiveChannelAssignments
<1>4. ItemsAreThere'
  BY <1>1 DEF ItemsAreThere, SyncTypes, Synchroniser, Item
<1>. QED
  BY <1>2, <1>3, <1>4
------------------------------------------------------------------------------
(* What the synchroniser alone does changes nothing that is asked for.        *)
SameWants == UNCHANGED <<assigned, bots, owed, lost, version>>

LEMMA SameWanted ==
    ASSUME SameWants
    PROVE  ActiveChannelsByBot' = ActiveChannelsByBot /\ \A v : Asked(v)' <=> Asked(v)
BY DEF SameWants, ActiveChannelsByBot, BotMaps, ListBotTwitchTokens,
   ListActiveChannelAssignments, Asked

LEMMA TypesOfStep ==
    ASSUME SyncTypes, SameWants, sync' \in Synchroniser, UNCHANGED <<subs, conduits>>,
           faults' \in Nat
    PROVE  SyncTypes'
BY DEF SyncTypes, SameWants

LEMMA FaultCounts == SyncTypes /\ (Fault \/ UNCHANGED faults) => faults' \in Nat
BY DEF SyncTypes, Fault

LEMMA ConduitKeeps == ASSUME ConduitInv, getOrCreateConduit PROVE ConduitInv'
<1>. USE DEF ConduitInv
<1>1. SameWants /\ UNCHANGED <<subs, faults>>
  BY DEF getOrCreateConduit, SameWants
<1>2. PICK c \in Nat : /\ sync' = [sync EXCEPT !.conduit = c] /\ c \in conduits'
                       /\ conduits' \in SUBSET Nat /\ conduits \subseteq conduits'
  BY DEF getOrCreateConduit, GetConduits, CreateConduit, SyncTypes
<1>3. SyncTypes'
  <2>1. sync' \in Synchroniser
    BY <1>2 DEF SyncTypes, Synchroniser
  <2>. QED
    BY <1>1, <1>2, <2>1 DEF SyncTypes, SameWants
<1>4. /\ sync'.conduit = c /\ sync'.started = sync.started /\ sync'.pc = sync.pc /\ sync'.seen = sync.seen /\ sync'.read = sync.read
      /\ sync'.handled = sync.handled /\ sync'.listed = sync.listed /\ sync'.items = sync.items
      /\ sync'.page = sync.page /\ sync'.stale = sync.stale /\ sync'.delete = sync.delete
  BY <1>2 DEF SyncTypes, Synchroniser
<1>5. ConduitIsThere' /\ VersionsAreRead'
  BY <1>1, <1>2, <1>4, SameWanted, PairsOfSubs DEF ConduitIsThere, VersionsAreRead,
     Underway, SameWants
<1>6. ItemsAreThere'
  BY <1>1, <1>4 DEF ItemsAreThere
<1>. QED
  BY <1>3, <1>5, <1>6

LEMMA StartKeeps == ASSUME ConduitInv, Welcomed \/ FirstAttemptFails PROVE ConduitInv'
<1>. USE DEF ConduitInv
<1>1. SameWants /\ UNCHANGED <<subs, conduits>> /\ faults' \in Nat
  BY FaultCounts DEF Welcomed, FirstAttemptFails, SyncOnly, SameWants
<1>2. /\ sync' \in Synchroniser /\ sync'.pc = sync.pc /\ sync'.conduit = sync.conduit /\ sync.conduit # None
      /\ sync'.seen = sync.seen /\ sync'.page = sync.page
      /\ sync'.handled = sync.handled /\ sync'.listed = sync.listed
      /\ sync'.items = sync.items /\ sync'.stale = sync.stale /\ sync'.delete = sync.delete
      /\ sync'.read = sync.read
  BY DEF Welcomed, FirstAttemptFails, Connecting, SyncTypes, Synchroniser
<1>3. SyncTypes'
  BY <1>1, <1>2, TypesOfStep DEF SyncTypes
<1>4. ConduitIsThere' /\ ItemsAreThere'
  BY <1>1, <1>2 DEF ConduitIsThere, Underway, ItemsAreThere
<1>5. VersionsAreRead'
  BY <1>1, <1>2, SameWanted DEF VersionsAreRead, Underway, SameWants
<1>. QED
  BY <1>3, <1>4, <1>5

LEMMA LoopKeeps == ASSUME ConduitInv, Poll \/ Sleep \/ NextSecond \/ SyncTick PROVE ConduitInv'
<1>. USE DEF ConduitInv
<1>1. SameWants /\ UNCHANGED <<subs, conduits, faults>>
  BY DEF Poll, Sleep, NextSecond, SyncTick, SyncOnly, SameWants
<1>2. /\ sync' \in Synchroniser /\ sync.pc \notin {"get", "classify", "apply"}
      /\ sync'.pc \notin {"get", "classify", "apply"}
      /\ sync'.conduit = sync.conduit /\ sync'.started = sync.started
      /\ sync'.handled = sync.handled /\ sync'.listed = sync.listed
      /\ sync'.items = sync.items /\ sync'.stale = sync.stale /\ sync'.delete = sync.delete
      /\ sync'.read \in {sync.read, version}
  <2>1. CASE Poll
    BY <2>1 DEF Poll, At, SyncTypes, Synchroniser
  <2>2. CASE Sleep
    BY <2>2 DEF Sleep, At, SyncTypes, Synchroniser
  <2>3. CASE NextSecond
    BY <2>3 DEF NextSecond, At, Goto, SyncTypes, Synchroniser
  <2>4. CASE SyncTick
    BY <2>4 DEF SyncTick, At, SyncTypes, Synchroniser
  <2>. QED
    BY <2>1, <2>2, <2>3, <2>4
<1>3. SyncTypes'
  BY <1>1, <1>2, TypesOfStep DEF SyncTypes
<1>4. ConduitIsThere' /\ ItemsAreThere'
  BY <1>1, <1>2 DEF ConduitIsThere, Underway, ItemsAreThere
<1>5. VersionsAreRead'
  BY <1>1, <1>2, SameWanted DEF VersionsAreRead, Underway, SameWants, SyncTypes,
     Synchroniser
<1>. QED
  BY <1>3, <1>4, <1>5

LEMMA ListKeeps == ASSUME ConduitInv, ListWanted PROVE ConduitInv'
<1>. USE DEF ConduitInv
<1>1. SameWants /\ UNCHANGED <<subs, conduits, faults>>
  BY DEF ListWanted, SyncOnly, SameWants
<1>2. ActiveChannelsByBot \in SUBSET Pairs
  BY WantedIsPairs
<1>3. /\ sync' \in Synchroniser /\ sync.pc = "list" /\ sync'.pc = "get" /\ sync'.seen = ActiveChannelsByBot
      /\ sync'.conduit = sync.conduit /\ sync'.started = sync.started
      /\ sync.conduit # None
      /\ sync'.handled = sync.handled /\ sync'.listed = sync.listed
      /\ sync'.items = {} /\ sync'.stale = sync.stale /\ sync'.delete = sync.delete
      /\ sync'.read = sync.read
  BY <1>2 DEF ListWanted, At, Started, ConduitIsThere, SyncTypes, Synchroniser
<1>4. SyncTypes'
  BY <1>1, <1>3, TypesOfStep DEF SyncTypes
<1>5. ConduitIsThere' /\ ItemsAreThere'
  BY <1>1, <1>2, <1>3 DEF ConduitIsThere, Underway, ItemsAreThere
<1>6. VersionsAreRead'
  BY <1>1, <1>3, SameWanted DEF VersionsAreRead, Underway, SameWants
<1>. QED
  BY <1>4, <1>5, <1>6

(* The greatest ID of a page exists, so a later page has none of its IDs.     *)
LEMMA PageHasCursor ==
    ASSUME NEW rest \in SUBSET Ids, NEW page,
           page = {id \in rest : Cardinality({j \in rest : j < id}) < Page}, rest # page
    PROVE  \E id \in page : \A j \in page : j <= id
<1>1. Ids \in SUBSET Nat /\ Page \in Nat \ {0} /\ IsFiniteSet(Ids)
  BY SubscriptionsAssumption
<1>2. page \in SUBSET Nat /\ IsFiniteSet(page)
  BY <1>1, FS_Subset
<1>3. page # {}
  <2>1. PICK id \in rest : \A j \in rest : id <= j
    BY <1>1, Least
  <2>2. {j \in rest : j < id} = {}
    <3>1. \A j \in rest : ~(j < id)
      BY <1>1, <2>1
    <3>. QED
      BY <3>1
  <2>3. Cardinality({j \in rest : j < id}) = 0
    BY <2>2, FS_EmptySet
  <2>. QED
    BY <1>1, <2>3
<1>. QED
  BY <1>2, <1>3, Greatest

LEMMA GetKeeps == ASSUME ConduitInv, GetSubscriptions PROVE ConduitInv'
<1>. USE DEF ConduitInv
<1>. DEFINE rest == After(sync.page)
            page == {id \in rest : Cardinality({j \in rest : j < id}) < Page}
            items == sync.items \union {[id |-> id, sub |-> subs[id]] : id \in page}
            over == rest = page \/ Cardinality(items) >= Limit
            next == IF over THEN 0 ELSE CHOOSE id \in page : \A j \in page : j <= id
<1>1. SameWants /\ UNCHANGED <<subs, conduits, faults>>
  BY DEF GetSubscriptions, SyncOnly, SameWants
<1>2. rest \in SUBSET Ids /\ \A id \in rest : id > sync.page /\ subs[id] # None
  BY DEF After
<1>3. page \in SUBSET rest
  OBVIOUS
<1>4. ~over => next \in page /\ \A j \in page : j <= next
  BY <1>2, PageHasCursor
<1>5. sync' = [sync EXCEPT !.pc = IF over THEN "classify" ELSE "get", !.items = items, !.page = next]
      /\ sync.pc = "get"
  BY DEF GetSubscriptions, At
<1>6. items \in SUBSET Item
  <2>1. \A id \in page : [id |-> id, sub |-> subs[id]] \in Item
    BY <1>2, <1>3 DEF Item, SyncTypes
  <2>2. sync.items \in SUBSET Item
    BY DEF SyncTypes, Synchroniser
  <2>. QED
    BY <2>1, <2>2
<1>7. next \in Nat
  BY <1>2, <1>3, <1>4, SubscriptionsAssumption
<1>8. \A i \in items : i \in sync.items \/ \E id \in page : i = [id |-> id, sub |-> subs[id]]
  OBVIOUS
<1>. HIDE DEF rest, page, items, over, next
<1>9. /\ sync' \in Synchroniser
      /\ sync'.pc = IF over THEN "classify" ELSE "get"
      /\ sync'.conduit = sync.conduit /\ sync'.started = sync.started
      /\ sync'.seen = sync.seen
      /\ sync'.handled = sync.handled /\ sync'.listed = sync.listed
      /\ sync'.items = items /\ sync'.stale = sync.stale /\ sync'.delete = sync.delete
      /\ sync'.read = sync.read /\ sync'.page = next
  BY <1>5, <1>6, <1>7 DEF SyncTypes, Synchroniser
<1>10. SyncTypes'
  BY <1>1, <1>9, TypesOfStep DEF SyncTypes
<1>11. ConduitIsThere' /\ VersionsAreRead'
  BY <1>1, <1>5, <1>9, SameWanted DEF ConduitIsThere, VersionsAreRead, Underway,
     SameWants
<1>12. ItemsAreThere'
  <2>1. \A i \in sync.items : i.id \in Nat /\ i.id <= sync.page /\ subs[i.id] # None
    BY <1>5, SubscriptionsAssumption DEF ItemsAreThere, SyncTypes, Synchroniser, Item
  <2>2. sync.page \in Nat /\ \A id \in page : id \in Nat /\ id > sync.page /\ subs[id] # None
    BY <1>2, <1>3, SubscriptionsAssumption DEF SyncTypes, Synchroniser
  <2>3. ASSUME NEW i \in items PROVE subs[i.id] # None /\ (~over => i.id <= next)
    <3>1. CASE i \in sync.items
      BY <3>1, <2>1, <2>2, <1>4, <1>7
    <3>2. CASE \E id \in page : i = [id |-> id, sub |-> subs[id]]
      BY <3>2, <2>2, <1>4
    <3>. QED
      BY <1>8, <3>1, <3>2
  <2>4. ASSUME NEW i \in items, NEW j \in items, i.id = j.id PROVE i = j
    <3>1. CASE i \in sync.items /\ j \in sync.items
      BY <3>1, <2>4 DEF ItemsAreThere
    <3>2. CASE i \in sync.items /\ \E id \in page : j = [id |-> id, sub |-> subs[id]]
      BY <3>2, <2>1, <2>2, <2>4
    <3>3. CASE j \in sync.items /\ \E id \in page : i = [id |-> id, sub |-> subs[id]]
      BY <3>3, <2>1, <2>2, <2>4
    <3>4. CASE /\ \E id \in page : i = [id |-> id, sub |-> subs[id]]
               /\ \E id \in page : j = [id |-> id, sub |-> subs[id]]
      BY <3>4, <2>4
    <3>. QED
      BY <1>8, <3>1, <3>2, <3>3, <3>4
  <2>. QED
    BY <1>1, <1>5, <1>9, <2>3, <2>4 DEF ItemsAreThere
<1>. QED
  BY <1>10, <1>11, <1>12

LEMMA ClassifyKeeps == ASSUME ConduitInv, Classify PROVE ConduitInv'
<1>. USE DEF ConduitInv
<1>1. SameWants /\ UNCHANGED <<subs, conduits, faults>>
  BY DEF Classify, SyncOnly, SameWants
<1>2. sync.pc = "classify" /\ sync.seen \in SUBSET Pairs
  BY DEF Classify, At, ConduitIsThere, Underway
<1>3. PICK plan \in classifyChatSubscriptions(sync.seen) :
          sync' = [sync EXCEPT !.pc = "apply", !.items = {}, !.stale = plan.stale,
                               !.create = plan.create, !.delete = plan.delete]
  BY Zenon DEF Classify
<1>4. PICK actual \in SUBSET OwnItems :
          /\ plan.stale = IdsOf(OwnItems \ actual)
          /\ plan.create = sync.seen \ PairsOf(actual)
          /\ plan.delete = {i.id : i \in {j \in actual : Wants(j.sub) \notin sync.seen}}
  <2>1. PICK actual \in SUBSET {i \in OwnItems : i.sub.status = "enabled"} :
            plan = [stale |-> IdsOf(OwnItems \ actual),
                    create |-> sync.seen \ PairsOf(actual),
                    delete |-> {i.id : i \in {j \in actual : Wants(j.sub) \notin sync.seen}}]
    BY <1>3, Zenon DEF classifyChatSubscriptions, Classified
  <2>2. actual \in SUBSET OwnItems
    OBVIOUS
  <2>. QED
    BY <2>1, <2>2
<1>5. plan.create \in SUBSET Pairs
  BY <1>2, <1>4
<1>6. OwnItems \in SUBSET sync.items
  BY DEF OwnItems
<1>7. \A i \in sync.items : i.id \in Ids /\ subs[i.id] # None
  BY DEF ItemsAreThere, SyncTypes, Synchroniser, Item
<1>8. \A id \in plan.stale : \E i \in OwnItems \ actual : id = i.id
  BY <1>4 DEF IdsOf
<1>9. \A id \in plan.delete : \E i \in actual : id = i.id
  BY <1>4
<1>10. /\ plan.stale \in SUBSET Ids /\ plan.delete \in SUBSET Ids
       /\ \A id \in plan.stale \union plan.delete : subs[id] # None
  <2>1. \A id \in plan.stale \union plan.delete : \E i \in sync.items : id = i.id
    BY <1>6, <1>8, <1>9
  <2>2. \A id \in plan.stale \union plan.delete : id \in Ids /\ subs[id] # None
    BY <1>7, <2>1
  <2>. QED
    BY <2>2
<1>11. plan.stale \intersect plan.delete = {}
  <2>1. ASSUME NEW id \in plan.stale, id \in plan.delete PROVE FALSE
    <3>1. PICK i \in OwnItems \ actual : id = i.id
      BY <1>8
    <3>2. PICK j \in actual : id = j.id
      BY <1>9, <2>1
    <3>3. i = j
      BY <1>6, <3>1, <3>2 DEF ItemsAreThere
    <3>. QED
      BY <3>1, <3>2, <3>3
  <2>. QED
    BY <2>1
<1>12. /\ sync' \in Synchroniser /\ sync'.pc = "apply"
       /\ sync'.conduit = sync.conduit /\ sync'.started = sync.started
       /\ sync'.seen = sync.seen
       /\ sync'.handled = sync.handled /\ sync'.listed = sync.listed
       /\ sync'.items = {} /\ sync'.stale = plan.stale /\ sync'.delete = plan.delete
       /\ sync'.read = sync.read
  BY <1>3, <1>5, <1>10 DEF SyncTypes, Synchroniser
<1>13. SyncTypes'
  BY <1>1, <1>12, TypesOfStep DEF SyncTypes
<1>14. ConduitIsThere' /\ VersionsAreRead'
  BY <1>1, <1>2, <1>12, SameWanted DEF ConduitIsThere, VersionsAreRead, Underway,
     SameWants
<1>15. ItemsAreThere'
  BY <1>1, <1>10, <1>11, <1>12 DEF ItemsAreThere
<1>. QED
  BY <1>13, <1>14, <1>15

LEMMA FailsKeeps == ASSUME ConduitInv, SyncFails PROVE ConduitInv'
<1>. USE DEF ConduitInv
<1>1. SameWants /\ UNCHANGED <<subs, conduits>> /\ faults' \in Nat
  BY FaultCounts DEF SyncFails, SyncOnly, SameWants
<1>2. /\ sync' \in Synchroniser /\ sync.pc \in {"list", "get"} /\ sync'.pc = "sleep"
      /\ sync'.conduit = sync.conduit /\ sync'.started = sync.started
      /\ sync'.handled = sync.handled /\ sync'.listed = sync.listed
      /\ sync'.items = {} /\ sync'.stale = sync.stale /\ sync'.delete = sync.delete
      /\ sync'.read = sync.read
  BY PairsOfSubs DEF SyncFails, At, SyncTypes, Synchroniser
<1>3. SyncTypes'
  BY <1>1, <1>2, TypesOfStep DEF SyncTypes
<1>4. ConduitIsThere' /\ ItemsAreThere'
  BY <1>1, <1>2 DEF ConduitIsThere, Underway, ItemsAreThere
<1>5. VersionsAreRead'
  BY <1>1, <1>2, SameWanted DEF VersionsAreRead, Underway, SameWants
<1>. QED
  BY <1>3, <1>4, <1>5

(* A step of carrying out the plan: subscriptions of the plan that is left    *)
(* stay.                                                                      *)
LEMMA ApplyKeeps ==
    ASSUME ConduitInv, SameWants, UNCHANGED conduits, faults' \in Nat,
           sync.pc = "apply", sync' \in Synchroniser, sync'.pc = "apply",
           sync'.conduit = sync.conduit, sync'.started = sync.started, sync'.seen = sync.seen, sync'.read = sync.read,
           sync'.handled = sync.handled, sync'.listed = sync.listed, sync'.items = sync.items,
           sync'.stale \subseteq sync.stale, sync'.delete \subseteq sync.delete,
           subs' \in [Ids -> Sub \union {None}],
           \A id \in sync'.stale \union sync'.delete : subs[id] # None => subs'[id] # None
    PROVE  ConduitInv'
<1>. USE DEF ConduitInv
<1>1. SyncTypes'
  BY DEF SyncTypes, SameWants
<1>2. ConduitIsThere' /\ VersionsAreRead'
  BY SameWanted DEF ConduitIsThere, VersionsAreRead, Underway, SameWants
<1>3. ItemsAreThere'
  BY DEF ItemsAreThere
<1>. QED
  BY <1>1, <1>2, <1>3

LEMMA DeleteKeeps == ASSUME ConduitInv, DeleteStale \/ DeleteUnwanted PROVE ConduitInv'
<1>. USE DEF ConduitInv
<1>1. SameWants /\ UNCHANGED conduits /\ faults' \in Nat /\ sync.pc = "apply"
  BY FaultCounts DEF DeleteStale, DeleteUnwanted, SameWants, At
<1>2. PICK id \in Ids :
          /\ \/ sync' = [sync EXCEPT !.stale = @ \ {id}] /\ id \in sync.stale
             \/ sync' = [sync EXCEPT !.delete = @ \ {id}] /\ id \in sync.delete /\ sync.stale = {}
          /\ subs' \in {subs, [subs EXCEPT ![id] = None]}
  BY DEF DeleteStale, DeleteUnwanted, DeleteSubscription, SyncTypes, Synchroniser
<1>3. /\ sync' \in Synchroniser /\ sync'.pc = "apply"
      /\ sync'.conduit = sync.conduit /\ sync'.started = sync.started
      /\ sync'.seen = sync.seen /\ sync'.read = sync.read
      /\ sync'.handled = sync.handled /\ sync'.listed = sync.listed /\ sync'.items = sync.items
      /\ sync'.stale \subseteq sync.stale /\ sync'.delete \subseteq sync.delete
      /\ id \notin sync'.stale /\ id \notin sync'.delete
  <2>1. sync.stale \intersect sync.delete = {}
    BY DEF ItemsAreThere
  <2>2. CASE sync' = [sync EXCEPT !.stale = @ \ {id}] /\ id \in sync.stale
    BY <1>1, <2>1, <2>2 DEF SyncTypes, Synchroniser
  <2>3. CASE sync' = [sync EXCEPT !.delete = @ \ {id}] /\ id \in sync.delete /\ sync.stale = {}
    BY <1>1, <2>1, <2>3 DEF SyncTypes, Synchroniser
  <2>. QED
    BY <1>2, <2>2, <2>3
<1>4. /\ subs' \in [Ids -> Sub \union {None}]
      /\ \A i \in sync'.stale \union sync'.delete : subs[i] # None => subs'[i] # None
  BY <1>2, <1>3 DEF SyncTypes, Synchroniser
<1>. QED
  BY <1>1, <1>3, <1>4, ApplyKeeps

LEMMA CreateKeeps == ASSUME ConduitInv, Create PROVE ConduitInv'
<1>. USE DEF ConduitInv
<1>1. SameWants /\ UNCHANGED conduits /\ faults' \in Nat /\ sync.pc = "apply"
  BY FaultCounts DEF Create, SameWants, At
<1>2. PICK p \in sync.create :
          /\ sync' = [sync EXCEPT !.create = @ \ {p}]
          /\ subs' = subs \/ (p[2] # NoBot /\ CreateChatSubscription(sync.conduit, p))
  BY DEF Create
<1>3. /\ sync' \in Synchroniser /\ sync'.pc = "apply"
      /\ sync'.conduit = sync.conduit /\ sync'.started = sync.started
      /\ sync'.seen = sync.seen /\ sync'.read = sync.read
      /\ sync'.handled = sync.handled /\ sync'.listed = sync.listed /\ sync'.items = sync.items
      /\ sync'.stale = sync.stale /\ sync'.delete = sync.delete
  BY <1>1, <1>2 DEF SyncTypes, Synchroniser
<1>4. /\ subs' \in [Ids -> Sub \union {None}]
      /\ \A i \in Ids : subs[i] # None => subs'[i] # None
  <2>1. CASE subs' = subs
    BY <2>1 DEF SyncTypes
  <2>2. CASE p[2] # NoBot /\ CreateChatSubscription(sync.conduit, p)
    <3>. DEFINE new == [channel |-> p[1], bot |-> p[2], status |-> "enabled", conduit |-> sync.conduit]
    <3>1. p \in Pairs /\ sync.conduit \in Nat
      BY <1>1 DEF SyncTypes, Synchroniser, ConduitIsThere, Underway
    <3>2. new \in Sub /\ new # None
      BY <2>2, <3>1, PairsOfSubs DEF Pairs, Sub, Statuses
    <3>3. PICK n : subs' = subs \/ subs' = [subs EXCEPT ![n] = new]
      BY <2>2 DEF CreateChatSubscription
    <3>. HIDE DEF new
    <3>. QED
      BY <3>2, <3>3 DEF SyncTypes
  <2>. QED
    BY <1>2, <2>1, <2>2
<1>5. \A i \in sync'.stale \union sync'.delete : subs[i] # None => subs'[i] # None
  BY <1>3, <1>4 DEF SyncTypes, Synchroniser
<1>. QED
  BY <1>1, <1>3, <1>4, <1>5, ApplyKeeps

LEMMA DoneKeeps == ASSUME ConduitInv, SyncDone PROVE ConduitInv'
<1>. USE DEF ConduitInv
<1>1. SameWants /\ UNCHANGED <<subs, conduits, faults>>
  BY DEF SyncDone, SyncOnly, SameWants
<1>2. sync.pc = "apply" /\ sync.seen \in SUBSET Pairs /\ sync.stale = {} /\ sync.delete = {}
  BY DEF SyncDone, At, ConduitIsThere, Underway
<1>3. /\ sync' \in Synchroniser /\ sync'.pc = "sleep"
      /\ sync'.conduit = sync.conduit /\ sync'.started = sync.started
      /\ sync'.listed = sync.seen
      /\ sync'.handled = IF sync.periodic THEN sync.handled ELSE sync.read
      /\ sync'.items = sync.items /\ sync'.stale = sync.stale /\ sync'.delete = sync.delete
      /\ sync'.read = sync.read
  BY <1>2 DEF SyncDone, HandledVersion, SyncTypes, Synchroniser
<1>4. SyncTypes'
  BY <1>1, <1>3, TypesOfStep DEF SyncTypes
<1>5. ConduitIsThere' /\ ItemsAreThere'
  BY <1>1, <1>2, <1>3 DEF ConduitIsThere, Underway, ItemsAreThere
<1>6. VersionsAreRead'
  <2>1. /\ sync.read \in Nat /\ version \in Nat /\ (sync.handled # None => sync.handled \in Nat)
        /\ sync.handled # None => sync.handled <= sync.read
    BY DEF SyncTypes, Synchroniser, VersionsAreRead
  <2>2. sync.seen = ActiveChannelsByBot \/ Asked(sync.read)
    BY <1>2 DEF VersionsAreRead, Underway
  <2>3. sync'.handled # None => sync'.handled \in Nat /\ sync'.handled <= sync.read
    BY <1>3, <2>1
  <2>4. sync'.handled # None => sync'.listed = ActiveChannelsByBot \/ Asked(sync'.handled)
    BY <1>3, <2>1, <2>2, <2>3 DEF Asked
  <2>. QED
    BY <1>1, <1>3, <2>1, <2>3, <2>4, SameWanted DEF VersionsAreRead, Underway, SameWants
<1>. QED
  BY <1>4, <1>5, <1>6

LEMMA RestartKeeps == ASSUME ConduitInv, RestartConduit PROVE ConduitInv'
<1>. USE DEF ConduitInv
<1>1. SameWants /\ faults' \in Nat /\ sync' = Idle
  BY FaultCounts DEF RestartConduit, SameWants
<1>2. subs' \in [Ids -> Sub \union {None}] /\ conduits' \in SUBSET Nat
  BY DEF RestartConduit, SyncTypes
<1>3. SyncTypes'
  BY <1>1, <1>2, IdleTypes DEF SyncTypes, SameWants
<1>4. version' \in Nat
  BY <1>1 DEF SyncTypes, SameWants
<1>5. ConduitIsThere' /\ VersionsAreRead' /\ ItemsAreThere'
  BY <1>1, <1>4 DEF Idle, ConduitIsThere, VersionsAreRead, ItemsAreThere, Underway
<1>. QED
  BY <1>3, <1>5
------------------------------------------------------------------------------
THEOREM ConduitInvHolds == SyncSpec => []ConduitInv
<1>1. ASSUME ConduitInv, [SyncNext]_syncVars PROVE ConduitInv'
  <2>1. CASE UNCHANGED syncVars
    BY <1>1, <2>1 DEF syncVars, ConduitInv, SyncTypes, ConduitIsThere, VersionsAreRead,
       ItemsAreThere, Underway,
        Asked, ActiveChannelsByBot, BotMaps, ListBotTwitchTokens, ListActiveChannelAssignments
  <2>2. CASE SyncNext
    BY <1>1, <2>2, OthersKeep, RevokeKeeps, ConduitKeeps, StartKeeps, LoopKeeps, ListKeeps,
       GetKeeps, ClassifyKeeps,
       FailsKeeps, DeleteKeeps, CreateKeeps, DoneKeeps, RestartKeeps DEF SyncNext, Synchronise
  <2>. QED
    BY <1>1, <2>1, <2>2
<1>. QED
  BY <1>1, SyncBegins, PTL DEF SyncSpec

THEOREM HandledVersionsAreCurrent == SyncSpec => []SyncInv
<1>1. ASSUME ConduitInv PROVE SyncInv
  <2>. USE DEF ConduitInv
  <2>1. SyncTypeOK
    <3>1. sync.handled = None \/ sync.handled <= version
      BY <1>1 DEF SyncTypes, Synchroniser, VersionsAreRead
    <3>2. sync.stale \union sync.delete \subseteq {id \in Ids : subs[id] # None}
      BY <1>1 DEF SyncTypes, Synchroniser, ItemsAreThere
    <3>. QED
      BY <1>1, <3>1, <3>2 DEF SyncTypes, Synchroniser, SyncTypeOK, ConduitIsThere
  <2>2. HandledIsCurrent
    <3>1. version \in Nat /\ owed \in Nat /\ version # None
      BY <1>1, PairsOfSubs DEF SyncTypes
    <3>. QED
      BY <1>1, <3>1 DEF HandledIsCurrent, VersionsAreRead, Asked
  <2>. QED
    BY <2>1, <2>2 DEF SyncInv
<1>. QED
  BY <1>1, ConduitInvHolds, PTL
------------------------------------------------------------------------------
(***************************************************************************)
(* Calls                                                                   *)
(***************************************************************************)
(* The calls that change a channel, and those that do not.                    *)
Effective == {"ban", "unban", "settings", "color", "delete", "clear", "title", "game", "both"}
Harmless == {"token", "send", "announce", "user", "channel", "stream", "summary", "games", "name",
             "categories", "playing"}
Texts == {"none", "done", "unset", "unable", "later"}
AllRequests ==
    [call : Effective \union Harmless, token : {"bot", "own", "app"},
     onError : {"fail", "gone", "moderation", "server", "query", "steam", "channel"}, text : Texts]
(* Only what is sent has a text.                                              *)
Wanted == {q \in AllRequests : q.text # "none" => q.call \in {"send", "announce"}}

Results == Failures \union {"ok", "dead"}
Chat == [title : {"old", "new"}, game : {"old", "new"}, banned : BOOLEAN, slow : BOOLEAN,
         shown : BOOLEAN, color : {"old", "new"}]
Session ==
    [pc : {"idle", "ask", "save", "result"}, asked : Seq(Wanted), todo : Seq(Wanted), result : Results,
     cached : [Kinds -> Nat \union {NotRead}], new : Nat, wrote : [TokenOwners -> Nat],
     said : SUBSET Texts, refreshed : [Kinds -> Nat]]

CallsTypes ==
    /\ stored \in [TokenOwners -> Nat] /\ issued \in [TokenOwners -> Nat]
    /\ fresh \in [TokenOwners -> SUBSET Nat] /\ kept \in SUBSET TokenOwners
    /\ rowLocks \in [TokenOwners -> CallRooms \union {Unlocked}]
    /\ chats \in [CallRooms -> Chat] /\ sessions \in [CallRooms -> Session]

TokensAreIssued == \A a \in TokenOwners : stored[a] <= issued[a] /\ fresh[a] \subseteq 1 .. issued[a]

(* A written token is one that this session was given and that is still good; *)
(* its row is held.                                                           *)
WritesAreHeld(r) ==
    \A a \in TokenOwners : sessions[r].wrote[a] # 0 =>
        /\ rowLocks[a] = r /\ sessions[r].wrote[a] \in fresh[a]
        /\ \E kind \in Kinds : Account(r, kind) = a /\ sessions[r].refreshed[kind] > 0

(* A session that was given a token goes on with one that has not expired.    *)
Saves(r, kind) == sessions[r].pc = "save" /\ Head(sessions[r].todo).token = kind
GoesOnWithNew(r) ==
    /\ \A kind \in Kinds :
          /\ sessions[r].refreshed[kind] <= 1
          /\ sessions[r].refreshed[kind] > 0 =>
                 Saves(r, kind) \/ sessions[r].cached[kind] \in fresh[Account(r, kind)]
          /\ Saves(r, kind) => /\ sessions[r].refreshed[kind] > 0
                               /\ sessions[r].new \in fresh[Account(r, kind)]
    /\ sessions[r].pc = "save" => Head(sessions[r].todo).token \in Kinds
    /\ sessions[r].pc \in {"save", "result"} => sessions[r].todo # <<>>

(* Doing it again would change nothing.                                       *)
IsSo(q, r) == Effect(q, chats[r]) = chats[r]

(* A handler asks for one change at most, ...                                 *)
OneEffect(asked) ==
    \A k, l \in DOMAIN asked : asked[k].call \in Effective /\ asked[l].call \in Effective => asked[k] = asked[l]

(* ... which is so, or is still to do, when it is about to say that it is;    *)
(* and it says so last.                                                       *)
SaysLast(r) ==
    \A j \in DOMAIN sessions[r].todo : sessions[r].todo[j].text = "done" =>
        /\ j = Len(sessions[r].todo)
        /\ \A k \in DOMAIN sessions[r].asked :
              IsSo(sessions[r].asked[k], r) \/ \E i \in DOMAIN sessions[r].todo : sessions[r].todo[i] = sessions[r].asked[k]
DoesAsAsked(r) ==
    \A i \in DOMAIN sessions[r].todo : sessions[r].todo[i].call \in Effective =>
        \E k \in DOMAIN sessions[r].asked : sessions[r].asked[k] = sessions[r].todo[i]
SaidIsSo(r) ==
    "done" \in sessions[r].said =>
        sessions[r].todo = <<>> /\ \A k \in DOMAIN sessions[r].asked : IsSo(sessions[r].asked[k], r)
Succeeds(s) == s.pc \in {"result", "save"} /\ (s.result = "ok" \/ Ignored(Head(s.todo), s.result))
DoneIsSo(r) == Succeeds(sessions[r]) => IsSo(Head(sessions[r].todo), r)

Promises(r) ==
    OneEffect(sessions[r].asked) /\ SaysLast(r) /\ DoesAsAsked(r) /\ SaidIsSo(r) /\ DoneIsSo(r)

SessionKeeps(r) == WritesAreHeld(r) /\ GoesOnWithNew(r) /\ Promises(r)

SessionsInv == CallsTypes /\ TokensAreIssued /\ RefreshIsKept /\ \A r \in CallRooms : SessionKeeps(r)
------------------------------------------------------------------------------
LEMMA AccountsAreOwned ==
    /\ \A r \in CallRooms, kind \in Kinds : Account(r, kind) \in TokenOwners
    /\ Unlocked \notin CallRooms /\ NotRead \notin Nat /\ "bot" \in Kinds /\ "own" \in Kinds
BY TwitchCallsAssumption DEF Account, TokenOwners, Kinds

LEMMA EffectIsAChat == ASSUME NEW q, NEW c \in Chat PROVE Effect(q, c) \in Chat
BY DEF Effect, Chat, Ban, Unban, UpdateChatSettings, SetChatColor, DeleteChatMessage,
   ClearChat, ModifyChannel

LEMMA HarmlessEffect == ASSUME NEW q, NEW c, q.call \notin Effective PROVE Effect(q, c) = c
BY DEF Effect, Effective

(* Doing the same twice does it once.                                         *)
LEMMA EffectsRepeat == ASSUME NEW q, NEW c \in Chat PROVE Effect(q, Effect(q, c)) = Effect(q, c)
<1>1. CASE q.call \notin Effective
  BY <1>1, HarmlessEffect
<1>2. CASE q.call = "ban"
  BY <1>2 DEF Effect, Ban, Chat
<1>3. CASE q.call = "unban"
  BY <1>3 DEF Effect, Unban, Chat
<1>4. CASE q.call = "settings"
  BY <1>4 DEF Effect, UpdateChatSettings, Chat
<1>5. CASE q.call = "color"
  BY <1>5 DEF Effect, SetChatColor, Chat
<1>6. CASE q.call = "delete"
  BY <1>6 DEF Effect, DeleteChatMessage, Chat
<1>7. CASE q.call = "clear"
  BY <1>7 DEF Effect, ClearChat, Chat
<1>8. CASE q.call = "title"
  BY <1>8 DEF Effect, ModifyChannel, Chat
<1>9. CASE q.call = "game"
  BY <1>9 DEF Effect, ModifyChannel, Chat
<1>10. CASE q.call = "both"
  BY <1>10 DEF Effect, ModifyChannel, Chat
<1>. QED
  BY <1>1, <1>2, <1>3, <1>4, <1>5, <1>6, <1>7, <1>8, <1>9, <1>10 DEF Effective

LEMMA AnswersToErrors ==
    ASSUME NEW q, NEW result
    PROVE  OnError(q, result) \in {"none", "unable", "later", "error"}
BY DEF OnError, OnModerationError, OnChannelError, OnServerError, OnQueryError
------------------------------------------------------------------------------
(* The lists that handlers ask for: some with no effect, some with one, and   *)
(* those that end with an answer.                                             *)
Plain == {s \in Seq(Wanted) : \A i \in DOMAIN s : s[i].call \notin Effective /\ s[i].text # "done"}
Before == {s \in Seq(Wanted) : OneEffect(s) /\ \A i \in DOMAIN s : s[i].text # "done"}
Askable == {s \in Seq(Wanted) : OneEffect(s) /\ \A i \in DOMAIN s : s[i].text = "done" => i = Len(s)}

LEMMA Joined ==
    ASSUME NEW s \in Seq(Wanted), NEW t \in Seq(Wanted)
    PROVE  /\ s \o t \in Seq(Wanted) /\ Len(s \o t) = Len(s) + Len(t) /\ Len(s) \in Nat /\ Len(t) \in Nat
           /\ \A i \in DOMAIN (s \o t) :
                 \/ i \in DOMAIN s /\ (s \o t)[i] = s[i]
                 \/ i - Len(s) \in DOMAIN t /\ (s \o t)[i] = t[i - Len(s)]
<1>1. DOMAIN s = 1 .. Len(s) /\ DOMAIN t = 1 .. Len(t) /\ Len(s) \in Nat /\ Len(t) \in Nat
  BY LenProperties
<1>2. /\ s \o t \in Seq(Wanted) /\ Len(s \o t) = Len(s) + Len(t)
      /\ \A i \in 1 .. Len(s) + Len(t) : (s \o t)[i] = IF i <= Len(s) THEN s[i] ELSE t[i - Len(s)]
  BY ConcatProperties
<1>3. DOMAIN (s \o t) = 1 .. Len(s) + Len(t)
  BY <1>2, LenProperties
<1>. QED
  BY <1>1, <1>2, <1>3

LEMMA PlainIsBefore == Plain \subseteq Before /\ Before \subseteq Askable
BY DEF Plain, Before, Askable, OneEffect

LEMMA PlainJoinsPlain == ASSUME NEW s \in Plain, NEW t \in Plain PROVE s \o t \in Plain
<1>1. s \in Seq(Wanted) /\ t \in Seq(Wanted)
  BY DEF Plain
<1>2. \A i \in DOMAIN (s \o t) : (s \o t)[i].call \notin Effective /\ (s \o t)[i].text # "done"
  BY <1>1, Joined DEF Plain
<1>. QED
  BY <1>1, <1>2, Joined DEF Plain

LEMMA PlainJoinsBefore == ASSUME NEW s \in Plain, NEW t \in Before PROVE s \o t \in Before
<1>1. s \in Seq(Wanted) /\ t \in Seq(Wanted)
  BY DEF Plain, Before
<1>2. \A i \in DOMAIN (s \o t) : (s \o t)[i].text # "done"
  BY <1>1, Joined DEF Plain, Before
<1>3. OneEffect(s \o t)
  <2>1. \A i \in DOMAIN (s \o t) : (s \o t)[i].call \in Effective =>
            i - Len(s) \in DOMAIN t /\ (s \o t)[i] = t[i - Len(s)]
    BY <1>1, Joined DEF Plain
  <2>. QED
    BY <1>1, <2>1 DEF Before, OneEffect
<1>. QED
  BY <1>1, <1>2, <1>3, Joined DEF Before

LEMMA BeforeJoinsAnswer ==
    ASSUME NEW s \in Before, NEW t \in Seq(Wanted), Len(t) = 1, t[1].call \notin Effective
    PROVE  s \o t \in Askable
<1>1. s \in Seq(Wanted)
  BY DEF Before
<1>2. DOMAIN t = {1} /\ Len(s) \in Nat
  BY <1>1, LenProperties
<1>3. \A i \in DOMAIN (s \o t) :
          \/ i \in DOMAIN s /\ (s \o t)[i] = s[i]
          \/ i = Len(s) + 1 /\ (s \o t)[i] = t[1]
  <2>1. \A i \in DOMAIN (s \o t) : i \in Nat
    BY <1>1, Joined, LenProperties
  <2>. QED
    BY <1>1, <1>2, <2>1, Joined
<1>4. OneEffect(s \o t)
  BY <1>3 DEF OneEffect, Before
<1>5. \A i \in DOMAIN (s \o t) : (s \o t)[i].text = "done" => i = Len(s \o t)
  BY <1>1, <1>3, Joined DEF Before
<1>. QED
  BY <1>1, <1>4, <1>5, Joined DEF Askable

LEMMA PlainJoinsAskable == ASSUME NEW s \in Plain, NEW t \in Askable PROVE s \o t \in Askable
<1>1. s \in Seq(Wanted) /\ t \in Seq(Wanted)
  BY DEF Plain, Askable
<1>2. \A i \in DOMAIN (s \o t) : (s \o t)[i].text = "done" => i = Len(s \o t)
  <2>1. ASSUME NEW i \in DOMAIN (s \o t), (s \o t)[i].text = "done" PROVE i = Len(s \o t)
    <3>1. i - Len(s) \in DOMAIN t /\ (s \o t)[i] = t[i - Len(s)] /\ i \in Nat
      BY <1>1, <2>1, Joined, LenProperties DEF Plain
    <3>2. i - Len(s) = Len(t)
      BY <2>1, <3>1 DEF Askable
    <3>. QED
      BY <1>1, <3>1, <3>2, Joined
  <2>. QED
    BY <2>1
<1>3. OneEffect(s \o t)
  <2>1. \A i \in DOMAIN (s \o t) : (s \o t)[i].call \in Effective =>
            i - Len(s) \in DOMAIN t /\ (s \o t)[i] = t[i - Len(s)]
    BY <1>1, Joined DEF Plain
  <2>. QED
    BY <1>1, <2>1 DEF Askable, OneEffect
<1>. QED
  BY <1>1, <1>2, <1>3, Joined DEF Askable

(* The single requests.                                                       *)
LEMMA Singles ==
    ASSUME NEW q \in Wanted, q.text # "done"
    PROVE  <<q>> \in Before /\ (q.call \notin Effective => <<q>> \in Plain)
<1>1. <<q>> \in Seq(Wanted) /\ DOMAIN <<q>> = {1} /\ <<q>>[1] = q
  OBVIOUS
<1>. QED
  BY <1>1 DEF Before, Plain, OneEffect

LEMMA RequestsAreWanted ==
    ASSUME NEW call \in Effective \union Harmless, NEW token \in {"bot", "own", "app"},
           NEW onError \in {"fail", "gone", "moderation", "server", "query", "steam", "channel"}
    PROVE  /\ Request(call, token, onError) \in Wanted /\ Request(call, token, onError).text = "none"
           /\ Request(call, token, onError).call = call
BY DEF Request, Wanted, AllRequests, Texts

LEMMA HarmlessRequests ==
    ASSUME NEW call \in Harmless, NEW token \in {"bot", "own", "app"},
           NEW onError \in {"fail", "gone", "moderation", "server", "query", "steam", "channel"}
    PROVE  <<Request(call, token, onError)>> \in Plain
<1>1. call \notin Effective
  BY DEF Harmless, Effective
<1>2. Request(call, token, onError) \in Wanted /\ Request(call, token, onError).text = "none"
      /\ Request(call, token, onError).call = call
  BY RequestsAreWanted
<1>. QED
  BY <1>1, <1>2, Singles

LEMMA EffectiveRequests ==
    ASSUME NEW call \in Effective, NEW token \in {"bot", "own", "app"},
           NEW onError \in {"fail", "gone", "moderation", "server", "query", "steam", "channel"}
    PROVE  <<Request(call, token, onError)>> \in Before
BY RequestsAreWanted, Singles

LEMMA Replies ==
    ASSUME NEW text \in Texts
    PROVE  /\ Reply(text) \in Seq(Wanted) /\ Len(Reply(text)) = 1
           /\ Reply(text)[1].call = "send" /\ Reply(text)[1].text = text
           /\ Announce(text) \in Seq(Wanted) /\ Len(Announce(text)) = 1
           /\ Announce(text)[1].call = "announce" /\ Announce(text)[1].text = text
<1>1. /\ [Request("send", "bot", "fail") EXCEPT !.text = text] =
             [call |-> "send", token |-> "bot", onError |-> "fail", text |-> text]
      /\ [Request("announce", "bot", "fail") EXCEPT !.text = text] =
             [call |-> "announce", token |-> "bot", onError |-> "fail", text |-> text]
  BY DEF Request
<1>2. /\ [call |-> "send", token |-> "bot", onError |-> "fail", text |-> text] \in Wanted
      /\ [call |-> "announce", token |-> "bot", onError |-> "fail", text |-> text] \in Wanted
  BY DEF Wanted, AllRequests, Harmless, Texts
<1>. QED
  BY <1>1, <1>2 DEF Reply, SendTwitchChatMessage, Announce

LEMMA AnswersAreAskable ==
    /\ \A text \in Texts : Reply(text) \in Askable /\ Announce(text) \in Askable
    /\ \A text \in Texts \ {"done"} : Reply(text) \in Plain
    /\ \A text \in Texts, s \in Before : s \o Reply(text) \in Askable
<1>1. "send" \notin Effective /\ "announce" \notin Effective
  BY DEF Effective
<1>2. ASSUME NEW text \in Texts
      PROVE  /\ DOMAIN Reply(text) = {1} /\ DOMAIN Announce(text) = {1}
             /\ Reply(text) \in Askable /\ Announce(text) \in Askable
             /\ text # "done" => Reply(text) \in Plain
  <2>1. DOMAIN Reply(text) = {1} /\ DOMAIN Announce(text) = {1}
    BY Replies, LenProperties
  <2>. QED
    BY <1>1, <2>1, Replies DEF Askable, OneEffect, Plain
<1>3. \A text \in Texts, s \in Before : s \o Reply(text) \in Askable
  BY <1>1, Replies, BeforeJoinsAnswer
<1>. QED
  BY <1>2, <1>3

(* Every handler's lists are such.                                            *)
LEMMA TextsOf == "done" \in Texts /\ "unset" \in Texts \ {"done"}
BY DEF Texts

LEMMA UsersFirst ==
    ASSUME NEW s \in Before, NEW onError \in {"fail", "moderation"}, NEW user \in GetUserID(onError)
    PROVE  user \o s \in Before
<1>1. <<Request("user", "app", onError)>> \in Plain
  BY HarmlessRequests DEF Harmless
<1>2. <<>> \in Plain
  BY EmptySeq DEF Plain
<1>3. user \in Plain
  BY <1>1, <1>2 DEF GetUserID
<1>. QED
  BY <1>3, PlainJoinsBefore

LEMMA ModerationAsks ==
    cmdModBan \union cmdModTimeout \union cmdModPurge \union cmdModUnban \union cmdModUntimeout \subseteq Askable
<1>1. ASSUME NEW onError \in {"fail", "moderation"}
      PROVE  BanByID(onError) \in Before /\ UnbanByID(onError) \in Before
  BY EffectiveRequests DEF BanByID, UnbanByID, Effective
<1>2. ASSUME NEW onError \in {"fail", "moderation"}
      PROVE  BanByUsername(onError) \subseteq Before /\ UnbanByUsername(onError) \subseteq Before
  BY <1>1, UsersFirst DEF BanByUsername, UnbanByUsername
<1>3. \A requests \in SUBSET Before : Then(requests, "done") \subseteq Askable
  BY AnswersAreAskable, TextsOf DEF Then
<1>. QED
  BY <1>2, <1>3 DEF cmdModBan, cmdModTimeout, cmdModPurge, cmdModUnban, cmdModUntimeout

LEMMA ChatAsks ==
    cmdChangeMode \union cmdModClear \union cmdAdminColor \union filterWarns \union filterPunishes \subseteq Askable
<1>1. PatchChatSettings \in Before /\ ClearMessages \in Before /\ SetBotColor \in Before
      /\ DeleteMessage \in Before /\ BanByID("fail") \in Before
  BY EffectiveRequests DEF PatchChatSettings, ClearMessages, SetBotColor, DeleteMessage,
     BanByID, Effective
<1>. QED
  BY <1>1, AnswersAreAskable, TextsOf, PlainIsBefore
     DEF cmdChangeMode, cmdModClear, cmdAdminColor, filterWarns, filterPunishes

LEMMA StatusAsks == setStatus \subseteq Askable
<1>1. ChannelTwitchToken \in Plain
  BY HarmlessRequests DEF ChannelTwitchToken, Harmless
<1>2. <<Request("title", "own", "channel")>> \in Before
  BY EffectiveRequests DEF Effective
<1>3. Unset \in Askable
  BY AnswersAreAskable, TextsOf DEF Unset
<1>. QED
  BY <1>1, <1>2, <1>3, AnswersAreAskable, TextsOf, PlainJoinsAskable DEF setStatus

LEMMA GameAsks ==
    ASSUME NEW games, games \subseteq Plain
    PROVE  setGame(games) \subseteq Askable
<1>1. ChannelTwitchToken \in Plain
  BY HarmlessRequests DEF ChannelTwitchToken, Harmless
<1>2. <<Request("game", "own", "channel")>> \in Before
  BY EffectiveRequests DEF Effective
<1>3. ASSUME NEW game \in games
      PROVE  ChannelTwitchToken \o game \o <<Request("game", "own", "channel")>> \o Reply("done") \in Askable
  <2>1. ChannelTwitchToken \o game \in Plain
    BY <1>1, PlainJoinsPlain
  <2>2. (ChannelTwitchToken \o game) \o <<Request("game", "own", "channel")>> \in Before
    BY <1>2, <2>1, PlainJoinsBefore
  <2>. QED
    BY <2>2, AnswersAreAskable, TextsOf
<1>. QED
  BY <1>3 DEF setGame

LEMMA GamesArePlain == {fixGameOrSuggest, <<>>} \subseteq Plain /\ SteamSummary \in Plain
<1>1. <<>> \in Plain
  BY EmptySeq DEF Plain
<1>2. fixGameOrSuggest \in Plain
  BY HarmlessRequests DEF fixGameOrSuggest, GetGameByName, Harmless
<1>3. SteamSummary \in Plain
  BY HarmlessRequests DEF SteamSummary, Harmless
<1>. QED
  BY <1>1, <1>2, <1>3

LEMMA StatusGameAsks == cmdStatusGame \subseteq Askable
<1>1. ChannelTwitchToken \in Plain
  BY HarmlessRequests DEF ChannelTwitchToken, Harmless
<1>2. <<Request("both", "own", "channel")>> \in Before
  BY EffectiveRequests DEF Effective
<1>3. Unset \in Plain
  BY AnswersAreAskable, TextsOf DEF Unset
<1>4. ASSUME NEW game \in {fixGameOrSuggest, <<>>}
      PROVE  ChannelTwitchToken \o game \o <<Request("both", "own", "channel")>> \in Before
  <2>1. ChannelTwitchToken \o game \in Plain
    BY <1>1, PlainJoinsPlain, GamesArePlain
  <2>. QED
    BY <1>2, <2>1, PlainJoinsBefore
<1>5. ChannelTwitchToken \o Unset \in Before
  BY <1>1, <1>3, PlainJoinsPlain, PlainIsBefore
<1>6. setGameAndStatus \subseteq Before
  BY <1>4, <1>5 DEF setGameAndStatus
<1>7. ASSUME NEW set \in setGameAndStatus
      PROVE  SteamSummary \o set \o Reply("done") \in Askable
  <2>1. SteamSummary \o set \in Before
    BY <1>6, PlainJoinsBefore, GamesArePlain
  <2>. QED
    BY <2>1, AnswersAreAskable, TextsOf
<1>. QED
  BY <1>7 DEF cmdStatusGame

LEMMA SteamGameAsks == cmdSteamGame \subseteq Askable
<1>1. setGame({fixGameOrSuggest, <<>>}) \subseteq Askable
  BY GameAsks, GamesArePlain
<1>. QED
  BY <1>1, GamesArePlain, PlainJoinsAskable DEF cmdSteamGame

LEMMA QueriesAsk == cmdWhatShouldIPlay \union cmdTitle \union cmdUptime \union cmdIsLive \subseteq Askable
<1>1. SteamGames \in Plain /\ TwitchChannel \in Plain /\ TwitchStream \in Plain
  BY HarmlessRequests DEF SteamGames, TwitchChannel, TwitchStream, Harmless
<1>2. <<Request("user", "app", "query")>> \in Plain /\ <<Request("playing", "app", "fail")>> \in Plain
  BY HarmlessRequests DEF Harmless
<1>3. (<<Request("user", "app", "query")>> \o TwitchStream) \o <<Request("playing", "app", "fail")>> \in Plain
  <2>1. <<Request("user", "app", "query")>> \o TwitchStream \in Plain
    BY <1>1, <1>2, PlainJoinsPlain
  <2>. QED
    BY <1>2, <2>1, PlainJoinsPlain
<1>4. \A s \in Plain : s \o Reply("done") \in Askable
  BY AnswersAreAskable, TextsOf, PlainIsBefore
<1>. QED
  BY <1>1, <1>3, <1>4 DEF cmdWhatShouldIPlay, cmdTitle, cmdUptime, cmdIsLive,
     streamOrReplyNotLive, IsLive

LEMMA AsksAreAskable == ASSUME NEW command \in Commands PROVE Asks(command) \subseteq Askable
<1>1. command \in Names
  BY TwitchCallsAssumption
<1>2. setGame({fixGameOrSuggest, <<>>}) \subseteq Askable
  BY GameAsks, GamesArePlain
<1>3. cmdStatus \subseteq Askable /\ cmdGame \subseteq Askable
  BY <1>2, StatusAsks DEF cmdStatus, cmdGame
<1>4. {Announce("done")} \subseteq Askable /\ {Reply("done")} \subseteq Askable
  BY AnswersAreAskable, TextsOf
<1>5. /\ cmdModBan \subseteq Askable /\ cmdModTimeout \subseteq Askable /\ cmdModPurge \subseteq Askable
      /\ cmdModUnban \subseteq Askable /\ cmdModUntimeout \subseteq Askable
  BY ModerationAsks
<1>6. /\ cmdChangeMode \subseteq Askable /\ cmdModClear \subseteq Askable /\ cmdAdminColor \subseteq Askable
      /\ filterWarns \subseteq Askable /\ filterPunishes \subseteq Askable
  BY ChatAsks
<1>7. /\ cmdWhatShouldIPlay \subseteq Askable /\ cmdTitle \subseteq Askable /\ cmdUptime \subseteq Askable
      /\ cmdIsLive \subseteq Askable
  BY QueriesAsk
<1>8. Asks(command) \in
          {cmdModBan, cmdModUnban, cmdModTimeout, cmdModUntimeout, cmdModPurge, cmdChangeMode, cmdModClear,
           cmdAdminColor, filterWarns, filterPunishes, {Announce("done")}, {Reply("done")}, cmdStatus, cmdGame,
           cmdStatusGame, cmdSteamGame, cmdWhatShouldIPlay, cmdTitle, cmdUptime, cmdIsLive}
  BY <1>1 DEF Names, Asks
<1>. QED
  BY <1>3, <1>4, <1>5, <1>6, <1>7, <1>8, StatusGameAsks, SteamGameAsks
------------------------------------------------------------------------------
LEMMA ConcatWanted ==
    ASSUME NEW s \in Seq(Wanted), NEW t \in Seq(Wanted)
    PROVE  /\ s \o t \in Seq(Wanted) /\ Len(s \o t) = Len(s) + Len(t)
           /\ \A i \in 1 .. Len(s) + Len(t) : (s \o t)[i] = IF i <= Len(s) THEN s[i] ELSE t[i - Len(s)]
BY ConcatProperties

LEMMA Todos ==
    ASSUME NEW s \in Seq(Wanted), s # <<>>
    PROVE  /\ Head(s) \in Wanted /\ Head(s) = s[1] /\ Tail(s) \in Seq(Wanted) /\ Len(s) \in Nat \ {0}
           /\ Len(Tail(s)) = Len(s) - 1 /\ DOMAIN s = 1 .. Len(s) /\ DOMAIN Tail(s) = 1 .. Len(s) - 1
           /\ \A i \in DOMAIN Tail(s) : Tail(s)[i] = s[i + 1]
<1>1. /\ Head(s) \in Wanted /\ Tail(s) \in Seq(Wanted) /\ Len(s) \in Nat \ {0}
      /\ Len(Tail(s)) = Len(s) - 1 /\ \A i \in 1 .. Len(Tail(s)) : Tail(s)[i] = s[i + 1]
  BY HeadTailProperties, EmptySeq
<1>2. DOMAIN s = 1 .. Len(s) /\ DOMAIN Tail(s) = 1 .. Len(Tail(s))
  BY <1>1, LenProperties
<1>. QED
  BY <1>1, <1>2

LEMMA NoSessionTypes ==
    /\ NoSession \in Session /\ NoSession.pc = "idle" /\ NoSession.asked = <<>> /\ NoSession.todo = <<>>
    /\ NoSession.said = {} /\ NoSession.wrote = [a \in TokenOwners |-> 0]
    /\ NoSession.refreshed = [k \in Kinds |-> 0]
BY AccountsAreOwned, EmptySeq DEF NoSession, Session, Results

LEMMA IdleKeeps ==
    ASSUME NEW r \in CallRooms, sessions[r] = NoSession
    PROVE  SessionKeeps(r)
<1>1. WritesAreHeld(r)
  BY NoSessionTypes DEF WritesAreHeld
<1>2. GoesOnWithNew(r)
  BY NoSessionTypes DEF GoesOnWithNew, Saves
<1>3. DOMAIN sessions[r].asked = {} /\ DOMAIN sessions[r].todo = {}
  BY NoSessionTypes
<1>4. Promises(r)
  BY <1>3, NoSessionTypes DEF Promises, OneEffect, SaysLast, DoesAsAsked, SaidIsSo,
     DoneIsSo, Succeeds
<1>. QED
  BY <1>1, <1>2, <1>4 DEF SessionKeeps

LEMMA CallsBegin == CallsInit => SessionsInv
<1>1. SUFFICES ASSUME CallsInit PROVE SessionsInv
  OBVIOUS
<1>2. stored \in [TokenOwners -> Nat] /\ issued \in [TokenOwners -> Nat] /\ issued = stored
  BY <1>1 DEF CallsInit
<1>3. fresh = [a \in TokenOwners |-> {}] /\ kept = {}
  BY <1>1 DEF CallsInit
<1>4. rowLocks \in [TokenOwners -> CallRooms \union {Unlocked}] /\ chats \in [CallRooms -> Chat]
  BY <1>1 DEF CallsInit, Chat
<1>5. sessions = [r \in CallRooms |-> NoSession]
  BY <1>1 DEF CallsInit
<1>6. CallsTypes
  BY <1>2, <1>3, <1>4, <1>5, NoSessionTypes DEF CallsTypes
<1>7. TokensAreIssued /\ RefreshIsKept
  BY <1>2, <1>3 DEF TokensAreIssued, RefreshIsKept
<1>8. \A r \in CallRooms : SessionKeeps(r)
  BY <1>5, IdleKeeps
<1>. QED
  BY <1>6, <1>7, <1>8 DEF SessionsInv

(* A room keeps what it relies on while another one's handler goes on, ...    *)
StaysAsIs(r) ==
    /\ sessions'[r] = sessions[r] /\ chats'[r] = chats[r]
    /\ \A a \in TokenOwners : rowLocks[a] = r => rowLocks'[a] = r
    /\ \A kind \in Kinds : sessions[r].refreshed[kind] > 0 =>
           fresh[Account(r, kind)] \subseteq fresh'[Account(r, kind)]

LEMMA RoomsKeep ==
    ASSUME SessionsInv, NEW r \in CallRooms, StaysAsIs(r)
    PROVE  SessionKeeps(r)'
<1>1. SessionKeeps(r)
  BY DEF SessionsInv
<1>2. WritesAreHeld(r)'
  BY <1>1 DEF SessionKeeps, WritesAreHeld, StaysAsIs
<1>3. GoesOnWithNew(r)'
  BY <1>1 DEF SessionKeeps, GoesOnWithNew, Saves, StaysAsIs
<1>4. Promises(r)'
  BY <1>1 DEF SessionKeeps, Promises, OneEffect, SaysLast, DoesAsAsked, SaidIsSo,
     DoneIsSo, IsSo, StaysAsIs
<1>. QED
  BY <1>2, <1>3, <1>4 DEF SessionKeeps

(* ... so a step of one room's handler is good if it is good for that room.   *)
Becomes(r, new) == new \in Session /\ sessions' = [sessions EXCEPT ![r] = new]
Hold(r) ==
    /\ \A a \in TokenOwners : rowLocks'[a] = rowLocks[a] \/ (rowLocks[a] \in {Unlocked, r} /\ rowLocks'[a] \in {Unlocked, r})
    /\ \A a \in TokenOwners : fresh[a] \subseteq fresh'[a]
    /\ \A o \in CallRooms \ {r} : chats'[o] = chats[o]

LEMMA OneRoomSteps ==
    ASSUME SessionsInv, NEW r \in CallRooms, NEW new, Becomes(r, new), Hold(r),
           CallsTypes', TokensAreIssued', RefreshIsKept', SessionKeeps(r)'
    PROVE  SessionsInv'
<1>1. ASSUME NEW o \in CallRooms, o # r PROVE SessionKeeps(o)'
  <2>1. sessions'[o] = sessions[o]
    BY <1>1 DEF Becomes, SessionsInv, CallsTypes
  <2>2. \A a \in TokenOwners : rowLocks[a] = o => rowLocks'[a] = o
    BY <1>1, AccountsAreOwned DEF Hold
  <2>3. \A a \in TokenOwners : fresh[a] \subseteq fresh'[a]
    BY DEF Hold
  <2>4. chats'[o] = chats[o]
    BY <1>1 DEF Hold
  <2>5. StaysAsIs(o)
    BY <2>1, <2>2, <2>3, <2>4, AccountsAreOwned DEF StaysAsIs
  <2>. QED
    BY <2>5, RoomsKeep
<1>. QED
  BY <1>1 DEF SessionsInv

Tokens == <<stored, issued, fresh, rowLocks>>

(* When no token changes, what is written and kept stays good.                *)
LEMMA TokensKeep ==
    ASSUME SessionsInv, UNCHANGED Tokens, UNCHANGED kept,
           chats' \in [CallRooms -> Chat], sessions' \in [CallRooms -> Session]
    PROVE  CallsTypes' /\ TokensAreIssued' /\ RefreshIsKept'
BY DEF SessionsInv, Tokens, CallsTypes, TokensAreIssued, RefreshIsKept

LEMMA WritesStay ==
    ASSUME SessionsInv, NEW r \in CallRooms, NEW new \in Session, sessions' = [sessions EXCEPT ![r] = new],
           UNCHANGED Tokens, new.wrote = sessions[r].wrote, new.refreshed = sessions[r].refreshed
    PROVE  WritesAreHeld(r)'
<1>1. sessions'[r] = new /\ WritesAreHeld(r)
  BY DEF SessionsInv, CallsTypes, SessionKeeps
<1>. QED
  BY <1>1 DEF WritesAreHeld, Tokens
(* Primed: the same of the next state.                                        *)
LEMMA IdleKeepsNext ==
    ASSUME NEW r \in CallRooms, sessions'[r] = NoSession
    PROVE  SessionKeeps(r)'
<1>1. WritesAreHeld(r)'
  BY NoSessionTypes DEF WritesAreHeld
<1>2. GoesOnWithNew(r)'
  BY NoSessionTypes DEF GoesOnWithNew, Saves
<1>3. DOMAIN sessions'[r].asked = {} /\ DOMAIN sessions'[r].todo = {}
  BY NoSessionTypes
<1>4. Promises(r)'
  BY <1>3, NoSessionTypes DEF Promises, OneEffect, SaysLast, DoesAsAsked, SaidIsSo,
     DoneIsSo, Succeeds
<1>. QED
  BY <1>1, <1>2, <1>4 DEF SessionKeeps
------------------------------------------------------------------------------
LEMMA BeginKeeps == ASSUME SessionsInv, NEW r \in CallRooms, NEW command \in Commands, Begin(r, command) PROVE SessionsInv'
<1>1. PICK asked \in Asks(command) :
          sessions' = [sessions EXCEPT ![r] = [NoSession EXCEPT !.pc = "ask", !.asked = asked, !.todo = asked]]
  BY Zenon DEF Begin, Set
<1>. DEFINE new == [NoSession EXCEPT !.pc = "ask", !.asked = asked, !.todo = asked]
<1>2. asked \in Askable /\ asked \in Seq(Wanted)
  BY AsksAreAskable DEF Askable
<1>3. /\ new \in Session /\ new.pc = "ask" /\ new.asked = asked /\ new.todo = asked /\ new.said = {}
      /\ new.wrote = [a \in TokenOwners |-> 0] /\ new.refreshed = [k \in Kinds |-> 0]
  BY <1>2, AccountsAreOwned DEF NoSession, Session, Results
<1>4. UNCHANGED Tokens /\ UNCHANGED kept /\ chats' = [chats EXCEPT ![r].shown = TRUE]
  BY DEF Begin, Tokens
<1>. HIDE DEF new
<1>5. /\ chats' \in [CallRooms -> Chat] /\ \A o \in CallRooms \ {r} : chats'[o] = chats[o]
  <2>. DEFINE chat == [chats[r] EXCEPT !.shown = TRUE]
  <2>1. chats[r] \in Chat
    BY DEF SessionsInv, CallsTypes
  <2>2. chat \in Chat
    BY <2>1 DEF Chat
  <2>. HIDE DEF chat
  <2>3. chats' = [chats EXCEPT ![r] = chat]
    BY <1>4 DEF chat
  <2>. QED
    BY <2>2, <2>3 DEF SessionsInv, CallsTypes
<1>6. sessions'[r] = new /\ sessions' \in [CallRooms -> Session] /\ Becomes(r, new)
  BY <1>1, <1>3 DEF SessionsInv, CallsTypes, new, Becomes
<1>7. WritesAreHeld(r)' /\ GoesOnWithNew(r)'
  BY <1>3, <1>6 DEF WritesAreHeld, GoesOnWithNew, Saves
<1>8. Promises(r)'
  <2>1. OneEffect(asked) /\ \A j \in DOMAIN asked : asked[j].text = "done" => j = Len(asked)
    BY <1>2 DEF Askable
  <2>2. SaysLast(r)' /\ DoesAsAsked(r)'
    BY <1>3, <1>6, <2>1 DEF SaysLast, DoesAsAsked
  <2>3. SaidIsSo(r)' /\ DoneIsSo(r)'
    BY <1>3, <1>6 DEF SaidIsSo, DoneIsSo, Succeeds
  <2>. QED
    BY <1>3, <1>6, <2>1, <2>2, <2>3 DEF Promises
<1>9. SessionKeeps(r)'
  BY <1>7, <1>8 DEF SessionKeeps
<1>10. Hold(r)
  BY <1>4, <1>5 DEF Hold, Tokens
<1>. QED
  BY <1>4, <1>5, <1>6, <1>9, <1>10, TokensKeep, OneRoomSteps

(* A request that is over; nothing with an effect is dropped that is not so.  *)
LEMMA NextRequest ==
    ASSUME SessionsInv, NEW r \in CallRooms, NEW new \in Session, sessions'[r] = new, chats'[r] = chats[r],
           sessions[r].todo # <<>>, IsSo(Head(sessions[r].todo), r), new.pc = "ask",
           new.asked = sessions[r].asked, new.todo = Tail(sessions[r].todo),
           "done" \in new.said => "done" \in sessions[r].said \/ Head(sessions[r].todo).text = "done"
    PROVE  Promises(r)'
<1>. DEFINE s == sessions[r]
            todo == s.todo
<1>1. Promises(r) /\ s \in Session /\ todo \in Seq(Wanted) /\ todo # <<>>
  BY DEF SessionsInv, CallsTypes, SessionKeeps, Session
<1>2. \A q : IsSo(q, r)' <=> IsSo(q, r)
  BY DEF IsSo
<1>3. /\ Head(todo) = todo[1] /\ Len(todo) \in Nat \ {0} /\ Len(Tail(todo)) = Len(todo) - 1
      /\ DOMAIN todo = 1 .. Len(todo) /\ DOMAIN Tail(todo) = 1 .. Len(todo) - 1
      /\ \A i \in DOMAIN Tail(todo) : Tail(todo)[i] = todo[i + 1]
      /\ Tail(todo) \in Seq(Wanted)
  BY <1>1, Todos
<1>4. \A i \in DOMAIN todo : todo[i] = Head(todo) \/ (i - 1 \in DOMAIN Tail(todo) /\ todo[i] = Tail(todo)[i - 1])
  BY <1>3
<1>5. \A i \in DOMAIN Tail(todo) : i + 1 \in DOMAIN todo /\ Tail(todo)[i] = todo[i + 1]
  BY <1>3
<1>6. OneEffect(s.asked) /\ SaysLast(r) /\ DoesAsAsked(r) /\ SaidIsSo(r)
  BY <1>1 DEF Promises
<1>7. ASSUME NEW j \in DOMAIN todo, todo[j].text = "done", NEW k \in DOMAIN s.asked
      PROVE  IsSo(s.asked[k], r) \/ \E i \in DOMAIN Tail(todo) : Tail(todo)[i] = s.asked[k]
  <2>1. CASE IsSo(s.asked[k], r)
    BY <2>1
  <2>2. CASE \E i \in DOMAIN todo : todo[i] = s.asked[k]
    BY <2>2, <1>4
  <2>. QED
    BY <1>6, <1>7, <2>1, <2>2 DEF SaysLast
<1>8. SaysLast(r)'
  <2>1. ASSUME NEW j \in DOMAIN Tail(todo), Tail(todo)[j].text = "done"
        PROVE  /\ j = Len(Tail(todo))
               /\ \A k \in DOMAIN s.asked : IsSo(s.asked[k], r) \/ \E i \in DOMAIN Tail(todo) : Tail(todo)[i] = s.asked[k]
    <3>1. j + 1 \in DOMAIN todo /\ todo[j + 1].text = "done"
      BY <1>5, <2>1
    <3>2. j + 1 = Len(todo)
      BY <1>6, <3>1 DEF SaysLast
    <3>3. j = Len(Tail(todo))
      <4>1. j \in Nat
        BY <1>3
      <4>2. PICK n \in Nat : n = Len(todo) /\ Len(Tail(todo)) = n - 1
        BY <1>3
      <4>. QED
        BY <3>2, <4>1, <4>2
    <3>4. \A k \in DOMAIN s.asked : IsSo(s.asked[k], r) \/ \E i \in DOMAIN Tail(todo) : Tail(todo)[i] = s.asked[k]
      BY <1>7, <3>1
    <3>. QED
      BY <3>3, <3>4
  <2>. QED
    BY <1>2, <2>1 DEF SaysLast
<1>9. DoesAsAsked(r)'
  BY <1>5, <1>6 DEF DoesAsAsked
<1>10. SaidIsSo(r)'
  <2>1. "done" \notin s.said
    BY <1>1, <1>6 DEF SaidIsSo
  <2>2. ASSUME Head(todo).text = "done"
        PROVE  Tail(todo) = <<>> /\ \A k \in DOMAIN s.asked : IsSo(s.asked[k], r)
    <3>0. 1 \in DOMAIN todo /\ todo[1].text = "done"
      BY <1>3, <2>2
    <3>1. 1 = Len(todo)
      BY <1>6, <3>0 DEF SaysLast
    <3>2. Len(Tail(todo)) = 0 /\ DOMAIN Tail(todo) = {}
      BY <1>3, <3>1
    <3>3. Tail(todo) = <<>>
      BY <1>3, <3>2, EmptySeq
    <3>. QED
      BY <1>7, <3>0, <3>2, <3>3
  <2>. QED
    BY <1>2, <2>1, <2>2 DEF SaidIsSo
<1>11. DoneIsSo(r)'
  BY DEF DoneIsSo, Succeeds
<1>. QED
  BY <1>6, <1>8, <1>9, <1>10, <1>11 DEF Promises

LEMMA TokenReadKeeps == ASSUME SessionsInv, NEW r \in CallRooms, NEW kind \in Kinds, GetToken(r, kind) PROVE SessionsInv'
<1>. DEFINE s == sessions[r]
            q == Head(s.todo)
            row == Row(r, Account(r, kind))
            cached == [s.cached EXCEPT ![kind] = row]
            todo == IF q.call = "token" THEN Tail(s.todo) ELSE s.todo
            new == [s EXCEPT !.cached = cached, !.todo = todo]
<1>1. s \in Session /\ s.pc = "ask" /\ s.todo # <<>> /\ s.todo \in Seq(Wanted) /\ s.cached[kind] = NotRead
  BY DEF GetToken, SessionsInv, CallsTypes, Session
<1>2. row \in Nat /\ cached \in [Kinds -> Nat \union {NotRead}]
      /\ \A k \in Kinds : cached[k] = IF k = kind THEN row ELSE s.cached[k]
  BY <1>1, AccountsAreOwned DEF Row, SessionsInv, CallsTypes, Session
<1>3. q \in Wanted /\ todo \in Seq(Wanted)
  BY <1>1, Todos
<1>4. sessions' = [sessions EXCEPT ![r] = new]
  BY DEF GetToken, Set
<1>5. UNCHANGED Tokens /\ UNCHANGED kept /\ UNCHANGED chats
  BY DEF GetToken, Tokens, Steps
<1>. HIDE DEF todo, cached, row
<1>6. /\ new \in Session /\ new.pc = "ask" /\ new.asked = s.asked /\ new.todo = todo /\ new.said = s.said
      /\ new.wrote = s.wrote /\ new.refreshed = s.refreshed /\ new.cached = cached
  BY <1>1, <1>2, <1>3 DEF Session
<1>. HIDE DEF new
<1>7. sessions'[r] = new /\ sessions' \in [CallRooms -> Session] /\ Becomes(r, new)
  BY <1>4, <1>6 DEF SessionsInv, CallsTypes, Becomes
<1>8. WritesAreHeld(r)'
  BY <1>4, <1>5, <1>6, WritesStay
<1>9. GoesOnWithNew(r)'
  <2>1. GoesOnWithNew(r) /\ \A a \in TokenOwners : NotRead \notin fresh[a]
    BY AccountsAreOwned DEF SessionsInv, SessionKeeps, CallsTypes
  <2>2. ~(s.refreshed[kind] > 0)
    BY <1>1, <2>1, AccountsAreOwned DEF GoesOnWithNew, Saves
  <2>. QED
    BY <1>1, <1>2, <1>5, <1>6, <1>7, <2>1, <2>2, AccountsAreOwned DEF GoesOnWithNew,
       Saves,
       Tokens
<1>10. Promises(r)'
  <2>1. CASE q.call = "token"
    <3>1. q.text = "none" /\ q.call \notin Effective
      BY <2>1, <1>3 DEF Wanted, Effective
    <3>2. IsSo(q, r)
      BY <3>1, HarmlessEffect DEF IsSo
    <3>3. todo = Tail(s.todo)
      BY <2>1 DEF todo
    <3>. QED
      BY <1>1, <1>5, <1>6, <1>7, <3>1, <3>2, <3>3, NextRequest
  <2>2. CASE q.call # "token"
    <3>1. todo = s.todo /\ Promises(r)
      BY <2>2 DEF todo, SessionsInv, SessionKeeps
    <3>. QED
      BY <1>5, <1>6, <1>7, <3>1 DEF Promises, SaysLast, DoesAsAsked, SaidIsSo, DoneIsSo,
         Succeeds, IsSo
  <2>. QED
    BY <2>1, <2>2
<1>11. SessionKeeps(r)'
  BY <1>8, <1>9, <1>10 DEF SessionKeeps
<1>12. Hold(r)
  BY <1>5 DEF Hold, Tokens
<1>13. chats' \in [CallRooms -> Chat]
  BY <1>5 DEF SessionsInv, CallsTypes
<1>. QED
  BY <1>5, <1>7, <1>11, <1>12, <1>13, TokensKeep, OneRoomSteps
------------------------------------------------------------------------------
(* What Twitch is asked for happens or does not; what was so is so still.     *)
LEMMA EffectKeepsWhatIsSo ==
    ASSUME SessionsInv, NEW r \in CallRooms, sessions[r].todo # <<>>,
           chats'[r] = chats[r] \/ chats'[r] = Effect(Head(sessions[r].todo), chats[r]),
           NEW k \in DOMAIN sessions[r].asked, NEW w, w = sessions[r].asked[k], IsSo(w, r)
    PROVE  IsSo(w, r)'
<1>. DEFINE s == sessions[r]
            q == Head(s.todo)
<1>1. s \in Session /\ chats[r] \in Chat /\ Promises(r) /\ s.todo \in Seq(Wanted)
  BY DEF SessionsInv, CallsTypes, SessionKeeps, Session
<1>2. q = s.todo[1] /\ 1 \in DOMAIN s.todo
  BY <1>1, Todos
<1>3. Effect(w, chats'[r]) = chats'[r]
  <2>1. CASE chats'[r] = chats[r]
    BY <2>1 DEF IsSo
  <2>2. CASE chats'[r] = Effect(q, chats[r]) /\ q.call \notin Effective
    BY <2>2, HarmlessEffect DEF IsSo
  <2>3. CASE w.call \notin Effective
    BY <2>3, HarmlessEffect
  <2>4. CASE chats'[r] = Effect(q, chats[r]) /\ q.call \in Effective /\ w.call \in Effective
    <3>1. w = q
      BY <1>1, <1>2, <2>4 DEF Promises, DoesAsAsked, OneEffect
    <3>. QED
      BY <1>1, <2>4, <3>1, EffectsRepeat
  <2>. QED
    BY <2>1, <2>2, <2>3, <2>4
<1>. QED
  BY <1>3 DEF IsSo

(* An answer of Twitch, by whatever token.                                    *)
LEMMA AnswerKeeps ==
    ASSUME SessionsInv, NEW r \in CallRooms, NEW new \in Session, NEW result \in Results,
           sessions'[r] = new, sessions[r].pc = "ask", sessions[r].todo # <<>>,
           Answered(r, Head(sessions[r].todo), result) \/ (result \in {"refused", "dead"} /\ UNCHANGED chats),
           new.asked = sessions[r].asked, new.todo = sessions[r].todo, new.said = sessions[r].said,
           new.result = result
    PROVE  /\ Promises(r)' /\ chats' \in [CallRooms -> Chat]
           /\ \A o \in CallRooms \ {r} : chats'[o] = chats[o]
<1>. DEFINE s == sessions[r]
            q == Head(s.todo)
<1>1. s \in Session /\ chats[r] \in Chat /\ chats \in [CallRooms -> Chat] /\ Promises(r)
  BY DEF SessionsInv, CallsTypes, SessionKeeps
<1>2. \/ chats' = chats /\ ~(result = "ok" \/ Ignored(q, result))
      \/ chats' = [chats EXCEPT ![r] = Effect(q, @)]
  BY DEF Answered, Ignored
<1>3. Effect(q, chats[r]) \in Chat
  BY <1>1, EffectIsAChat
<1>4. /\ chats' \in [CallRooms -> Chat] /\ \A o \in CallRooms \ {r} : chats'[o] = chats[o]
      /\ chats'[r] \in {chats[r], Effect(q, chats[r])}
      /\ result = "ok" \/ Ignored(q, result) => chats'[r] = Effect(q, chats[r])
  BY <1>1, <1>2, <1>3
<1>5. \A k \in DOMAIN s.asked : IsSo(s.asked[k], r) => Effect(s.asked[k], chats'[r]) = chats'[r]
  <2>1. ASSUME NEW k \in DOMAIN s.asked, NEW w, w = s.asked[k], IsSo(w, r) PROVE Effect(w, chats'[r]) = chats'[r]
    <3>1. IsSo(w, r)'
      BY <1>4, <2>1, EffectKeepsWhatIsSo
    <3>. QED
      BY <3>1 DEF IsSo
  <2>. QED
    BY <2>1
<1>6. OneEffect(s.asked) /\ SaysLast(r) /\ DoesAsAsked(r) /\ SaidIsSo(r)
  BY <1>1 DEF Promises
<1>7. SaysLast(r)'
  BY <1>5, <1>6 DEF SaysLast, IsSo
<1>8. DoesAsAsked(r)'
  BY <1>6 DEF DoesAsAsked
<1>9. SaidIsSo(r)'
  BY <1>6 DEF SaidIsSo
<1>10. DoneIsSo(r)'
  <2>1. result = "ok" \/ Ignored(q, result) => Effect(q, chats'[r]) = chats'[r]
    BY <1>1, <1>4, EffectsRepeat
  <2>. QED
    BY <2>1 DEF DoneIsSo, Succeeds, IsSo
<1>. QED
  BY <1>4, <1>6, <1>7, <1>8, <1>9, <1>10 DEF Promises

(* A call without a token, with a good one, or with one that is dead.         *)
LEMMA CallKeeps ==
    ASSUME SessionsInv, NEW r \in CallRooms, NEW result \in Results,
           sessions[r].pc = "ask", sessions[r].todo # <<>>, UNCHANGED Tokens, UNCHANGED kept,
           Answered(r, Head(sessions[r].todo), result) \/ (result \in {"refused", "dead"} /\ UNCHANGED chats),
           sessions' = [sessions EXCEPT ![r] = [sessions[r] EXCEPT !.pc = "result", !.result = result]]
    PROVE  SessionsInv'
<1>. DEFINE s == sessions[r]
            new == [s EXCEPT !.pc = "result", !.result = result]
<1>1. s \in Session
  BY DEF SessionsInv, CallsTypes
<1>3. /\ new \in Session /\ new.pc = "result" /\ new.asked = s.asked /\ new.todo = s.todo /\ new.said = s.said
      /\ new.wrote = s.wrote /\ new.refreshed = s.refreshed /\ new.cached = s.cached /\ new.result = result
  BY <1>1 DEF Session
<1>4. sessions'[r] = new /\ sessions' \in [CallRooms -> Session] /\ Becomes(r, new)
      /\ sessions' = [sessions EXCEPT ![r] = new]
  BY <1>3 DEF SessionsInv, CallsTypes, Becomes
<1>. HIDE DEF new
<1>5. /\ Promises(r)' /\ chats' \in [CallRooms -> Chat] /\ \A o \in CallRooms \ {r} : chats'[o] = chats[o]
  BY <1>3, <1>4, AnswerKeeps
<1>6. WritesAreHeld(r)'
  BY <1>3, <1>4, WritesStay
<1>7. GoesOnWithNew(r)'
  <2>1. GoesOnWithNew(r)
    BY DEF SessionsInv, SessionKeeps
  <2>. QED
    BY <1>3, <1>4, <2>1 DEF GoesOnWithNew, Saves, Tokens
<1>8. SessionKeeps(r)'
  BY <1>5, <1>6, <1>7 DEF SessionKeeps
<1>9. Hold(r)
  BY <1>5 DEF Hold, Tokens
<1>. QED
  BY <1>4, <1>5, <1>8, <1>9, TokensKeep, OneRoomSteps

LEMMA AppKeeps ==
    ASSUME SessionsInv, NEW r \in CallRooms, CallApp(r) \/ CallWithout(r) PROVE SessionsInv'
<1>. DEFINE s == sessions[r]
            q == Head(s.todo)
<1>1. /\ s \in Session /\ s.pc = "ask" /\ s.todo # <<>> /\ UNCHANGED Tokens /\ UNCHANGED kept
  <2>1. s \in Session
    BY DEF SessionsInv, CallsTypes
  <2>2. s.pc = "ask" /\ s.todo # <<>> /\ UNCHANGED <<stored, issued, fresh, rowLocks>> /\ Steps
    BY Zenon DEF CallApp, CallWithout
  <2>. QED
    BY <2>1, <2>2 DEF Tokens, Steps
<1>2. PICK result \in Results :
          /\ Answered(r, q, result) \/ (result \in {"refused", "dead"} /\ UNCHANGED chats)
          /\ sessions' = [sessions EXCEPT ![r] = [s EXCEPT !.pc = "result", !.result = result]]
  <2>1. CASE CallApp(r)
    <3>1. PICK result \in Failures \union {"ok"} :
              Answered(r, q, result) /\ Set(r, [s EXCEPT !.pc = "result", !.result = result])
      BY <2>1, Zenon DEF CallApp
    <3>2. result \in Results
      BY DEF Results
    <3>. QED
      BY <3>1, <3>2, Zenon DEF Set
  <2>2. CASE CallWithout(r)
    <3>1. "refused" \in Results /\ UNCHANGED chats /\ Set(r, [s EXCEPT !.pc = "result", !.result = "refused"])
      BY <2>2 DEF CallWithout, Results, Failures
    <3>. QED
      BY <3>1, Zenon DEF Set
  <2>. QED
    BY <2>1, <2>2, Zenon
<1>. QED
  BY <1>1, <1>2, CallKeeps, Zenon

(* A refresh gives a token that no other session had.                         *)
Refreshed(r, kind, a) ==
    /\ issued' = [issued EXCEPT ![a] = @ + 1]
    /\ fresh' = [fresh EXCEPT ![a] = @ \union {issued'[a]}]
    /\ UNCHANGED <<stored, rowLocks, kept>>

LEMMA RefreshKeepsTokens ==
    ASSUME SessionsInv, NEW r \in CallRooms, NEW kind \in Kinds, NEW a \in TokenOwners, Refreshed(r, kind, a),
           chats' \in [CallRooms -> Chat], sessions' \in [CallRooms -> Session]
    PROVE  /\ CallsTypes' /\ TokensAreIssued' /\ RefreshIsKept'
           /\ \A b \in TokenOwners : fresh[b] \subseteq fresh'[b]
           /\ issued'[a] \in fresh'[a] /\ issued'[a] \in Nat
<1>1. issued \in [TokenOwners -> Nat] /\ fresh \in [TokenOwners -> SUBSET Nat]
  BY DEF SessionsInv, CallsTypes
<1>2. /\ issued' \in [TokenOwners -> Nat] /\ issued'[a] = issued[a] + 1
      /\ \A b \in TokenOwners : issued'[b] = IF b = a THEN issued[a] + 1 ELSE issued[b]
  BY <1>1 DEF Refreshed
<1>3. /\ fresh' \in [TokenOwners -> SUBSET Nat]
      /\ \A b \in TokenOwners : fresh'[b] = IF b = a THEN fresh[a] \union {issued'[a]} ELSE fresh[b]
  BY <1>1, <1>2 DEF Refreshed
<1>4. CallsTypes'
  BY <1>2, <1>3 DEF SessionsInv, CallsTypes, Refreshed
<1>5. TokensAreIssued'
  <2>1. ASSUME NEW b \in TokenOwners PROVE stored'[b] <= issued'[b] /\ fresh'[b] \subseteq 1 .. issued'[b]
    <3>1. /\ stored[b] \in Nat /\ issued[b] \in Nat /\ stored[b] <= issued[b] /\ fresh[b] \subseteq 1 .. issued[b]
          /\ stored' = stored
      BY DEF SessionsInv, CallsTypes, TokensAreIssued, Refreshed
    <3>2. stored'[b] <= issued'[b]
      BY <1>2, <3>1
    <3>3. \A x \in fresh'[b] : x \in 1 .. issued'[b]
      BY <1>2, <1>3, <3>1
    <3>. QED
      BY <3>2, <3>3
  <2>. QED
    BY <2>1 DEF TokensAreIssued
<1>6. RefreshIsKept'
  BY <1>3 DEF SessionsInv, CallsTypes, RefreshIsKept, Refreshed
<1>. QED
  BY <1>2, <1>3, <1>4, <1>5, <1>6

LEMMA AsUserKeeps == ASSUME SessionsInv, NEW r \in CallRooms, CallAsUser(r) PROVE SessionsInv'
<1>. DEFINE s == sessions[r]
            q == Head(s.todo)
            kind == q.token
            a == Account(r, kind)
<1>1. /\ s \in Session /\ s.pc = "ask" /\ s.todo # <<>> /\ kind \in Kinds /\ s.cached[kind] \notin {NotRead, 0}
      /\ UNCHANGED kept /\ UNCHANGED <<stored, rowLocks>>
  <2>1. s \in Session
    BY DEF SessionsInv, CallsTypes
  <2>2. /\ s.pc = "ask" /\ s.todo # <<>> /\ kind \in Kinds /\ s.cached[kind] \notin {NotRead, 0}
        /\ UNCHANGED <<stored, rowLocks>> /\ Steps
    BY Zenon DEF CallAsUser
  <2>. QED
    BY <2>1, <2>2 DEF Steps
<1>2. CASE /\ UNCHANGED <<issued, fresh>>
           /\ \E result \in Failures \union {"ok"} :
                 /\ Answered(r, q, result)
                 /\ Set(r, [s EXCEPT !.pc = "result", !.result = result])
  <2>1. PICK result \in Failures \union {"ok"} :
            Answered(r, q, result) /\ Set(r, [s EXCEPT !.pc = "result", !.result = result])
    BY <1>2, Zenon
  <2>2. result \in Results
    BY DEF Results
  <2>3. UNCHANGED Tokens
    BY <1>1, <1>2 DEF Tokens
  <2>4. sessions' = [sessions EXCEPT ![r] = [s EXCEPT !.pc = "result", !.result = result]]
    BY <2>1, Zenon DEF Set
  <2>. QED
    BY <1>1, <2>1, <2>2, <2>3, <2>4, CallKeeps, Zenon
<1>3. CASE /\ Set(r, [s EXCEPT !.pc = "result", !.result = "dead"])
           /\ UNCHANGED <<issued, fresh, chats, trouble>>
  <2>1. "dead" \in Results
    BY DEF Results
  <2>2. UNCHANGED Tokens /\ UNCHANGED chats
    BY <1>1, <1>3 DEF Tokens
  <2>3. sessions' = [sessions EXCEPT ![r] = [s EXCEPT !.pc = "result", !.result = "dead"]]
    BY <1>3, Zenon DEF Set
  <2>4. "dead" \in {"refused", "dead"} /\ UNCHANGED chats
    BY <2>2
  <2>. QED
    BY <1>1, <2>1, <2>2, <2>3, <2>4, CallKeeps, Zenon
<1>4. CASE /\ s.cached[kind] \notin fresh[a] /\ a \notin revoked
           /\ issued' = [issued EXCEPT ![a] = @ + 1]
           /\ fresh' = [fresh EXCEPT ![a] = @ \union {issued'[a]}]
           /\ \E result \in Failures \union {"ok"} :
                 /\ Answered(r, q, result)
                 /\ Set(r, [s EXCEPT !.pc = "save", !.result = result, !.new = issued'[a],
                                     !.refreshed[kind] = @ + 1])
  <2>1. PICK result \in Failures \union {"ok"} :
            /\ Answered(r, q, result)
            /\ Set(r, [s EXCEPT !.pc = "save", !.result = result, !.new = issued'[a], !.refreshed[kind] = @ + 1])
    BY <1>4, Zenon
  <2>2. result \in Results /\ a \in TokenOwners /\ Refreshed(r, kind, a)
    <3>1. result \in Results /\ a \in TokenOwners
      BY <1>1, AccountsAreOwned DEF Results
    <3>2. issued' = [issued EXCEPT ![a] = @ + 1] /\ fresh' = [fresh EXCEPT ![a] = @ \union {issued'[a]}]
      BY <1>4, Zenon
    <3>. QED
      BY <1>1, <3>1, <3>2, Zenon DEF Refreshed
  <2>. DEFINE token == issued[a] + 1
              refreshed == [s.refreshed EXCEPT ![kind] = @ + 1]
              new == [s EXCEPT !.pc = "save", !.result = result, !.new = token, !.refreshed = refreshed]
  <2>3. token \in Nat /\ issued'[a] = token
    BY <1>4, <2>2 DEF SessionsInv, CallsTypes
  <2>4. /\ refreshed \in [Kinds -> Nat]
        /\ \A k \in Kinds : refreshed[k] = IF k = kind THEN s.refreshed[kind] + 1 ELSE s.refreshed[k]
    BY <1>1 DEF Session
  <2>5. sessions' = [sessions EXCEPT ![r] = new]
    BY <2>1, <2>3 DEF Set
  <2>. HIDE DEF refreshed, token
  <2>6. /\ new \in Session /\ new.pc = "save" /\ new.asked = s.asked /\ new.todo = s.todo /\ new.said = s.said
        /\ new.wrote = s.wrote /\ new.refreshed = refreshed /\ new.cached = s.cached /\ new.result = result
        /\ new.new = token
    BY <1>1, <2>2, <2>3, <2>4 DEF Session
  <2>. HIDE DEF new
  <2>7. sessions'[r] = new /\ sessions' \in [CallRooms -> Session] /\ Becomes(r, new)
    BY <2>5, <2>6 DEF SessionsInv, CallsTypes, Becomes
  <2>8. /\ Promises(r)' /\ chats' \in [CallRooms -> Chat] /\ \A o \in CallRooms \ {r} : chats'[o] = chats[o]
    BY <1>1, <2>1, <2>2, <2>6, <2>7, AnswerKeeps
  <2>9. /\ CallsTypes' /\ TokensAreIssued' /\ RefreshIsKept'
        /\ \A b \in TokenOwners : fresh[b] \subseteq fresh'[b]
        /\ token \in fresh'[a]
    BY <1>1, <2>2, <2>3, <2>7, <2>8, RefreshKeepsTokens
  <2>10. WritesAreHeld(r)'
    <3>1. WritesAreHeld(r)
      BY DEF SessionsInv, SessionKeeps
    <3>2. \A k \in Kinds : s.refreshed[k] > 0 => refreshed[k] > 0
      BY <1>1, <2>4 DEF Session
    <3>. QED
      BY <1>1, <2>6, <2>7, <2>9, <3>1, <3>2 DEF WritesAreHeld
  <2>11. GoesOnWithNew(r)'
    <3>1. GoesOnWithNew(r) /\ \A k \in Kinds : s.refreshed[k] \in Nat
      BY <1>1 DEF SessionsInv, SessionKeeps, Session
    <3>2. s.refreshed[kind] = 0
      <4>1. s.cached[kind] \notin fresh[a]
        BY <1>4, Zenon
      <4>2. ~Saves(r, kind)
        BY <1>1 DEF Saves
      <4>. QED
        BY <1>1, <3>1, <4>1, <4>2 DEF GoesOnWithNew
    <3>3. \A k \in Kinds : s.refreshed[k] > 0 => s.cached[k] \in fresh'[Account(r, k)]
      BY <1>1, <2>9, <3>1, AccountsAreOwned DEF GoesOnWithNew, Saves
    <3>. QED
      BY <1>1, <2>4, <2>6, <2>7, <2>9, <3>1, <3>2, <3>3 DEF GoesOnWithNew, Saves
  <2>12. SessionKeeps(r)'
    BY <2>8, <2>10, <2>11 DEF SessionKeeps
  <2>13. Hold(r)
    BY <1>1, <2>8, <2>9 DEF Hold
  <2>. QED
    BY <2>7, <2>9, <2>12, <2>13, OneRoomSteps
<1>. QED
  BY <1>2, <1>3, <1>4, Zenon DEF CallAsUser
------------------------------------------------------------------------------
LEMMA SaveKeeps == ASSUME SessionsInv, NEW r \in CallRooms, SaveToken(r) PROVE SessionsInv'
<1>. DEFINE s == sessions[r]
            kind == Head(s.todo).token
            a == Account(r, kind)
            cached == [s.cached EXCEPT ![kind] = s.new]
            wrote == [s.wrote EXCEPT ![a] = s.new]
            new == [s EXCEPT !.pc = "result", !.wrote = wrote, !.new = 0, !.cached = cached]
<1>1. s \in Session /\ s.pc = "save" /\ rowLocks[a] \in {Unlocked, r} /\ GoesOnWithNew(r) /\ WritesAreHeld(r)
      /\ Promises(r) /\ rowLocks' = [rowLocks EXCEPT ![a] = r]
  BY DEF SaveToken, SessionsInv, CallsTypes, SessionKeeps
<1>2. kind \in Kinds /\ a \in TokenOwners /\ s.todo # <<>> /\ s.new \in Nat
      /\ s.new \in fresh[a] /\ s.refreshed[kind] > 0
  BY <1>1, AccountsAreOwned DEF GoesOnWithNew, Saves, Session
<1>3. UNCHANGED <<stored, issued, fresh, chats, kept>>
  BY DEF SaveToken, Steps
<1>4. /\ cached \in [Kinds -> Nat \union {NotRead}] /\ wrote \in [TokenOwners -> Nat]
      /\ \A k \in Kinds : cached[k] = IF k = kind THEN s.new ELSE s.cached[k]
      /\ \A b \in TokenOwners : wrote[b] = IF b = a THEN s.new ELSE s.wrote[b]
  BY <1>1, <1>2 DEF Session
<1>5. sessions' = [sessions EXCEPT ![r] = new]
  BY DEF SaveToken, Set, SetCache
<1>. HIDE DEF cached, wrote
<1>6. /\ new \in Session /\ new.pc = "result" /\ new.asked = s.asked /\ new.todo = s.todo /\ new.said = s.said
      /\ new.wrote = wrote /\ new.refreshed = s.refreshed /\ new.cached = cached /\ new.result = s.result
  BY <1>1, <1>2, <1>4 DEF Session
<1>. HIDE DEF new
<1>7. sessions'[r] = new /\ sessions' \in [CallRooms -> Session] /\ Becomes(r, new)
  BY <1>5, <1>6 DEF SessionsInv, CallsTypes, Becomes
<1>8. /\ rowLocks' \in [TokenOwners -> CallRooms \union {Unlocked}] /\ rowLocks'[a] = r
      /\ \A b \in TokenOwners : b # a => rowLocks'[b] = rowLocks[b]
  BY <1>1, <1>2 DEF SessionsInv, CallsTypes
<1>9. CallsTypes' /\ TokensAreIssued' /\ RefreshIsKept'
  BY <1>3, <1>7, <1>8 DEF SessionsInv, CallsTypes, TokensAreIssued, RefreshIsKept
<1>10. WritesAreHeld(r)'
  BY <1>1, <1>2, <1>3, <1>4, <1>6, <1>7, <1>8 DEF WritesAreHeld
<1>11. GoesOnWithNew(r)'
  BY <1>1, <1>2, <1>3, <1>4, <1>6, <1>7, AccountsAreOwned DEF GoesOnWithNew, Saves
<1>12. Promises(r)'
  <2>1. OneEffect(s.asked) /\ SaysLast(r) /\ DoesAsAsked(r) /\ SaidIsSo(r) /\ DoneIsSo(r)
    BY <1>1 DEF Promises
  <2>2. Succeeds(new) => Succeeds(s)
    BY <1>1, <1>6 DEF Succeeds
  <2>3. SaysLast(r)' /\ DoesAsAsked(r)' /\ SaidIsSo(r)'
    BY <1>3, <1>6, <1>7, <2>1 DEF SaysLast, DoesAsAsked, SaidIsSo, IsSo
  <2>4. DoneIsSo(r)'
    BY <1>3, <1>6, <1>7, <2>1, <2>2 DEF DoneIsSo, IsSo
  <2>. QED
    BY <1>6, <1>7, <2>1, <2>3, <2>4 DEF Promises
<1>13. SessionKeeps(r)'
  BY <1>10, <1>11, <1>12 DEF SessionKeeps
<1>14. Hold(r)
  BY <1>1, <1>3, <1>8 DEF Hold
<1>. QED
  BY <1>7, <1>9, <1>13, <1>14, OneRoomSteps

(* The end of a transaction.                                                  *)
LEMMA EndKeeps ==
    ASSUME SessionsInv, NEW r \in CallRooms, Ended(r), CallsTypes', TokensAreIssued', RefreshIsKept'
    PROVE  SessionsInv'
<1>1. sessions' = [sessions EXCEPT ![r] = NoSession] /\ UNCHANGED <<issued, fresh, chats>>
      /\ rowLocks' = [a \in TokenOwners |-> IF rowLocks[a] = r THEN Unlocked ELSE rowLocks[a]]
  BY DEF Ended, Set
<1>2. sessions'[r] = NoSession /\ Becomes(r, NoSession)
  BY <1>1, NoSessionTypes DEF SessionsInv, CallsTypes, Becomes
<1>3. SessionKeeps(r)'
  BY <1>2, IdleKeepsNext
<1>4. Hold(r)
  BY <1>1 DEF Hold, SessionsInv, CallsTypes
<1>. QED
  BY <1>2, <1>3, <1>4, OneRoomSteps

LEMMA EndTypes ==
    ASSUME SessionsInv, NEW r \in CallRooms, Ended(r), stored' \in [TokenOwners -> Nat], kept' \in SUBSET TokenOwners
    PROVE  CallsTypes'
BY AccountsAreOwned, NoSessionTypes DEF Ended, Set, SessionsInv, CallsTypes

LEMMA RollbackKeeps == ASSUME SessionsInv, NEW r \in CallRooms, Rollback(r) PROVE SessionsInv'
<1>1. Ended(r) /\ UNCHANGED <<stored, kept, issued, fresh>>
  BY DEF Rollback, Ended
<1>2. CallsTypes'
  BY <1>1, EndTypes DEF SessionsInv, CallsTypes
<1>3. TokensAreIssued' /\ RefreshIsKept'
  BY <1>1 DEF SessionsInv, TokensAreIssued, RefreshIsKept
<1>. QED
  BY <1>1, <1>2, <1>3, EndKeeps

LEMMA CommitKeeps == ASSUME SessionsInv, NEW r \in CallRooms, CommitMessage(r) PROVE SessionsInv'
<1>. DEFINE wrote == sessions[r].wrote
<1>1. /\ Ended(r) /\ UNCHANGED <<issued, fresh>>
      /\ stored' = [a \in TokenOwners |-> Row(r, a)]
      /\ kept' = kept \union {a \in TokenOwners : wrote[a] \in fresh[a]}
  BY DEF CommitMessage, Ended
<1>2. /\ wrote \in [TokenOwners -> Nat] /\ stored \in [TokenOwners -> Nat]
      /\ issued \in [TokenOwners -> Nat] /\ fresh \in [TokenOwners -> SUBSET Nat]
      /\ kept \in SUBSET TokenOwners
  BY DEF SessionsInv, CallsTypes, Session
<1>3. \A a \in TokenOwners : wrote[a] # 0 => wrote[a] \in fresh[a]
  BY DEF SessionsInv, SessionKeeps, WritesAreHeld
<1>4. \A a \in TokenOwners : stored[a] <= issued[a] /\ fresh[a] \subseteq 1 .. issued[a]
  BY DEF SessionsInv, TokensAreIssued
<1>5. \A a \in TokenOwners : stored'[a] = IF wrote[a] # 0 THEN wrote[a] ELSE stored[a]
  BY <1>1 DEF Row
<1>6. stored' \in [TokenOwners -> Nat] /\ kept' \in SUBSET TokenOwners
  BY <1>1, <1>2 DEF Row
<1>7. CallsTypes'
  BY <1>1, <1>6, EndTypes
<1>8. TokensAreIssued'
  <2>1. ASSUME NEW a \in TokenOwners PROVE stored'[a] <= issued[a]
    <3>1. wrote[a] # 0 => wrote[a] \in 1 .. issued[a]
      BY <1>3, <1>4
    <3>. QED
      BY <1>2, <1>4, <1>5, <3>1
  <2>. QED
    BY <1>1, <1>4, <2>1 DEF TokensAreIssued
<1>9. RefreshIsKept'
  <2>1. ASSUME NEW a \in kept' PROVE stored'[a] \in fresh[a]
    <3>1. a \in TokenOwners
      BY <1>6, <2>1
    <3>2. CASE wrote[a] # 0
      BY <1>3, <1>5, <3>1, <3>2
    <3>3. CASE wrote[a] = 0
      <4>1. 0 \notin fresh[a]
        BY <1>2, <1>4, <3>1
      <4>2. a \in kept
        BY <1>1, <2>1, <3>3, <4>1
      <4>. QED
        BY <1>5, <3>1, <3>3, <4>2 DEF SessionsInv, RefreshIsKept
    <3>. QED
      BY <3>2, <3>3
  <2>. QED
    BY <1>1, <2>1 DEF RefreshIsKept
<1>. QED
  BY <1>1, <1>7, <1>8, <1>9, EndKeeps
------------------------------------------------------------------------------
(* Going on: the next request, another search, an answer, or back.            *)
Continues(r, new) ==
    /\ new \in Session /\ new.pc = "ask" /\ new.asked = sessions[r].asked /\ new.wrote = sessions[r].wrote
    /\ new.refreshed = sessions[r].refreshed /\ new.cached = sessions[r].cached

LEMMA ContinueKeeps ==
    ASSUME SessionsInv, NEW r \in CallRooms, NEW new, Continues(r, new), sessions[r].pc = "result",
           sessions' = [sessions EXCEPT ![r] = new], UNCHANGED Tokens, UNCHANGED <<chats, kept>>,
           Promises(r)'
    PROVE  SessionsInv'
<1>1. new \in Session /\ sessions'[r] = new /\ sessions' \in [CallRooms -> Session] /\ Becomes(r, new)
  BY DEF SessionsInv, CallsTypes, Becomes, Continues
<1>2. WritesAreHeld(r)'
  BY <1>1, WritesStay DEF Continues
<1>3. GoesOnWithNew(r)'
  <2>1. GoesOnWithNew(r)
    BY DEF SessionsInv, SessionKeeps
  <2>. QED
    BY <1>1, <2>1 DEF GoesOnWithNew, Saves, Tokens, Continues
<1>4. SessionKeeps(r)' /\ Hold(r) /\ chats' \in [CallRooms -> Chat]
  BY <1>2, <1>3 DEF SessionKeeps, Hold, Tokens, SessionsInv, CallsTypes
<1>. QED
  BY <1>1, <1>4, TokensKeep, OneRoomSteps

LEMMA GoKeeps == ASSUME SessionsInv, NEW r \in CallRooms, Go(r) PROVE SessionsInv'
<1>. DEFINE s == sessions[r]
            q == Head(s.todo)
            answer == OnError(q, s.result)
            searchGame == q.call = "name" /\ s.result = "notfound"
            Same == UNCHANGED <<stored, issued, fresh, rowLocks, chats, trouble>> /\ Steps
<1>1. s \in Session /\ s.pc = "result" /\ Promises(r) /\ GoesOnWithNew(r)
  BY DEF Go, SessionsInv, CallsTypes, SessionKeeps
<1>2. s.todo # <<>> /\ s.todo \in Seq(Wanted) /\ q \in Wanted /\ q = s.todo[1] /\ 1 \in DOMAIN s.todo
      /\ Tail(s.todo) \in Seq(Wanted)
  BY <1>1, Todos DEF GoesOnWithNew, Session
<1>3. "ok" \in Results
  BY DEF Results
<1>4. CASE /\ s.result = "ok" \/ Ignored(q, s.result)
           /\ Set(r, [s EXCEPT !.pc = "ask", !.todo = Tail(@), !.result = "ok",
                               !.said = IF q.text = "none" THEN @ ELSE @ \union {q.text}])
           /\ Same
  <2>. DEFINE said == IF q.text = "none" THEN s.said ELSE s.said \union {q.text}
              todo == Tail(s.todo)
              new == [s EXCEPT !.pc = "ask", !.todo = todo, !.result = "ok", !.said = said]
  <2>1. said \in SUBSET Texts /\ ("done" \in said => "done" \in s.said \/ q.text = "done")
    BY <1>1, <1>2 DEF Session, Wanted, AllRequests
  <2>2. sessions' = [sessions EXCEPT ![r] = new]
    BY <1>4 DEF Set
  <2>. HIDE DEF said
  <2>3. Continues(r, new) /\ new \in Session /\ new.pc = "ask" /\ new.asked = s.asked /\ new.todo = todo /\ new.said = said
    BY <1>1, <1>2, <1>3, <2>1 DEF Session, Continues
  <2>. HIDE DEF new
  <2>4. sessions'[r] = new
    BY <2>2 DEF SessionsInv, CallsTypes
  <2>5. IsSo(q, r)
    BY <1>1, <1>4 DEF Promises, DoneIsSo, Succeeds
  <2>6. UNCHANGED Tokens /\ UNCHANGED <<chats, kept>>
    BY <1>4 DEF Tokens, Steps
  <2>7. Promises(r)'
    BY <1>2, <2>1, <2>3, <2>4, <2>5, <2>6, NextRequest
  <2>. QED
    BY <1>1, <2>2, <2>3, <2>6, <2>7, ContinueKeeps
<1>5. CASE searchGame /\ Set(r, [s EXCEPT !.pc = "ask", !.todo = SearchCategories \o Tail(@), !.result = "ok"]) /\ Same
  <2>. DEFINE todo == SearchCategories \o Tail(s.todo)
              new == [s EXCEPT !.pc = "ask", !.todo = todo, !.result = "ok"]
              search == Request("categories", "app", "query")
  <2>1. SearchCategories \in Seq(Wanted) /\ DOMAIN SearchCategories = {1} /\ Len(SearchCategories) = 1
        /\ SearchCategories[1] = search /\ search.call \notin Effective /\ search.text = "none"
    <3>1. search \in Wanted /\ search.call = "categories" /\ search.text = "none"
      BY RequestsAreWanted DEF Harmless
    <3>. HIDE DEF search
    <3>2. SearchCategories = <<search>>
      BY DEF SearchCategories, search
    <3>. QED
      BY <3>1, <3>2 DEF Effective
  <2>2. todo \in Seq(Wanted) /\ Len(todo) = Len(s.todo) /\ DOMAIN todo = DOMAIN s.todo
        /\ todo[1] = search /\ \A i \in DOMAIN todo : i = 1 \/ todo[i] = s.todo[i]
    <3>1. /\ Len(s.todo) \in Nat \ {0} /\ Len(Tail(s.todo)) = Len(s.todo) - 1
          /\ DOMAIN s.todo = 1 .. Len(s.todo) /\ DOMAIN Tail(s.todo) = 1 .. Len(s.todo) - 1
          /\ \A i \in DOMAIN Tail(s.todo) : Tail(s.todo)[i] = s.todo[i + 1]
      BY <1>2, Todos
    <3>2. /\ todo \in Seq(Wanted) /\ Len(todo) = 1 + Len(Tail(s.todo))
          /\ \A i \in 1 .. 1 + Len(Tail(s.todo)) : todo[i] = IF i <= 1 THEN search ELSE Tail(s.todo)[i - 1]
      <4>1. /\ todo \in Seq(Wanted) /\ Len(todo) = Len(SearchCategories) + Len(Tail(s.todo))
            /\ \A i \in 1 .. Len(SearchCategories) + Len(Tail(s.todo)) :
                  todo[i] = IF i <= Len(SearchCategories) THEN SearchCategories[i]
                            ELSE Tail(s.todo)[i - Len(SearchCategories)]
        BY <1>2, <2>1, ConcatWanted, Zenon
      <4>2. Len(Tail(s.todo)) \in Nat
        BY <3>1
      <4>. HIDE DEF todo, search
      <4>. QED
        BY <2>1, <4>1, <4>2
    <3>. HIDE DEF todo, search
    <3>3. DOMAIN todo = 1 .. Len(todo)
      BY <3>2, LenProperties
    <3>. QED
      BY <3>1, <3>2, <3>3
  <2>3. sessions' = [sessions EXCEPT ![r] = new]
    BY <1>5 DEF Set
  <2>. HIDE DEF todo, search
  <2>4. Continues(r, new) /\ new.asked = s.asked /\ new.todo = todo /\ new.said = s.said /\ new.pc = "ask"
    BY <1>1, <1>3, <2>2 DEF Session, Continues
  <2>. HIDE DEF new
  <2>5. sessions'[r] = new
    BY <2>3 DEF SessionsInv, CallsTypes
  <2>6. UNCHANGED Tokens /\ UNCHANGED <<chats, kept>>
    BY <1>5 DEF Tokens, Steps
  <2>7. OneEffect(s.asked) /\ SaysLast(r) /\ DoesAsAsked(r) /\ SaidIsSo(r) /\ "done" \notin s.said
    BY <1>1, <1>2 DEF Promises, SaidIsSo
  <2>8. q.call \notin Effective
    BY <1>5 DEF Effective
  <2>9. SaysLast(r)'
    <3>1. ASSUME NEW j \in DOMAIN todo, todo[j].text = "done", NEW k \in DOMAIN s.asked
          PROVE  IsSo(s.asked[k], r) \/ \E i \in DOMAIN todo : todo[i] = s.asked[k]
      <4>1. j \in DOMAIN s.todo /\ s.todo[j].text = "done"
        BY <2>1, <2>2, <3>1
      <4>2. CASE s.asked[k] = q
        BY <2>8, <4>2, HarmlessEffect DEF IsSo
      <4>3. CASE s.asked[k] # q
        BY <1>2, <2>2, <2>7, <4>1, <4>3 DEF SaysLast
      <4>. QED
        BY <4>2, <4>3
    <3>2. \A j \in DOMAIN todo : todo[j].text = "done" => j = Len(todo)
      BY <2>1, <2>2, <2>7 DEF SaysLast
    <3>. QED
      BY <2>4, <2>5, <2>6, <3>1, <3>2 DEF SaysLast, IsSo
  <2>10. DoesAsAsked(r)'
    BY <2>1, <2>2, <2>4, <2>5, <2>7 DEF DoesAsAsked
  <2>11. Promises(r)'
    BY <2>4, <2>5, <2>7, <2>9, <2>10 DEF Promises, SaidIsSo, DoneIsSo, Succeeds
  <2>. QED
    BY <1>1, <2>3, <2>4, <2>6, <2>11, ContinueKeeps
<1>6. CASE answer # "error" /\ Set(r, [s EXCEPT !.pc = "ask", !.todo = Reply(answer), !.result = "ok"]) /\ Same
  <2>. DEFINE todo == Reply(answer)
              new == [s EXCEPT !.pc = "ask", !.todo = todo, !.result = "ok"]
  <2>1. answer \in Texts /\ answer # "done"
    BY <1>6, AnswersToErrors DEF Texts
  <2>2. todo \in Seq(Wanted) /\ DOMAIN todo = {1} /\ todo[1].call \notin Effective /\ todo[1].text # "done"
    BY <2>1, Replies, LenProperties DEF Effective
  <2>3. sessions' = [sessions EXCEPT ![r] = new]
    BY <1>6 DEF Set
  <2>. HIDE DEF todo
  <2>4. Continues(r, new) /\ new.asked = s.asked /\ new.todo = todo /\ new.said = s.said /\ new.pc = "ask"
    BY <1>1, <1>3, <2>2 DEF Session, Continues
  <2>. HIDE DEF new
  <2>5. sessions'[r] = new
    BY <2>3 DEF SessionsInv, CallsTypes
  <2>6. UNCHANGED Tokens /\ UNCHANGED <<chats, kept>>
    BY <1>6 DEF Tokens, Steps
  <2>7. OneEffect(s.asked) /\ "done" \notin s.said
    BY <1>1, <1>2 DEF Promises, SaidIsSo
  <2>8. SaysLast(r)' /\ DoesAsAsked(r)' /\ SaidIsSo(r)' /\ DoneIsSo(r)'
    BY <2>2, <2>4, <2>5, <2>7 DEF SaysLast, DoesAsAsked, SaidIsSo, DoneIsSo, Succeeds
  <2>9. Promises(r)'
    BY <2>4, <2>5, <2>7, <2>8 DEF Promises
  <2>. QED
    BY <1>1, <2>3, <2>4, <2>6, <2>9, ContinueKeeps
<1>7. CASE Rollback(r)
  BY <1>7, RollbackKeeps
<1>. QED
  BY <1>4, <1>5, <1>6, <1>7, Zenon DEF Go
------------------------------------------------------------------------------
LEMMA ExpireKeeps == ASSUME SessionsInv, NEW a \in TokenOwners, ExpireTokens(a) PROVE SessionsInv'
<1>1. /\ fresh' = [fresh EXCEPT ![a] = {}] /\ kept' = kept \ {a}
      /\ \A r \in CallRooms, kind \in Kinds : Account(r, kind) = a => sessions[r].refreshed[kind] = 0
      /\ UNCHANGED <<stored, issued, rowLocks, chats, sessions>>
  BY DEF ExpireTokens
<1>2. \A b \in TokenOwners : fresh'[b] = IF b = a THEN {} ELSE fresh[b]
  BY <1>1 DEF SessionsInv, CallsTypes
<1>3. CallsTypes'
  BY <1>1 DEF SessionsInv, CallsTypes
<1>4. TokensAreIssued' /\ RefreshIsKept'
  BY <1>1, <1>2 DEF SessionsInv, CallsTypes, TokensAreIssued, RefreshIsKept
<1>5. ASSUME NEW r \in CallRooms PROVE SessionKeeps(r)'
  <2>1. SessionKeeps(r)
    BY DEF SessionsInv
  <2>2. WritesAreHeld(r)'
    BY <1>1, <1>2, <2>1 DEF SessionKeeps, WritesAreHeld
  <2>3. GoesOnWithNew(r)'
    <3>1. \A kind \in Kinds : sessions[r].refreshed[kind] > 0 => fresh'[Account(r, kind)] = fresh[Account(r, kind)]
      BY <1>1, <1>2, AccountsAreOwned
    <3>. QED
      BY <1>1, <2>1, <3>1 DEF SessionKeeps, GoesOnWithNew, Saves
  <2>4. Promises(r)'
    BY <1>1, <2>1 DEF SessionKeeps, Promises, OneEffect, SaysLast, DoesAsAsked,
       SaidIsSo, DoneIsSo, IsSo
  <2>. QED
    BY <2>2, <2>3, <2>4 DEF SessionKeeps
<1>. QED
  BY <1>3, <1>4, <1>5 DEF SessionsInv

LEMMA NothingChanges ==
    ASSUME SessionsInv, UNCHANGED <<stored, issued, fresh, rowLocks, chats, sessions, kept>>
    PROVE  SessionsInv'
BY DEF SessionsInv, CallsTypes, TokensAreIssued, RefreshIsKept, SessionKeeps,
   WritesAreHeld, GoesOnWithNew, Saves,
       Promises, OneEffect, SaysLast, DoesAsAsked, SaidIsSo, DoneIsSo, IsSo

THEOREM SessionsInvHolds == CallsSpec => []SessionsInv
<1>1. ASSUME SessionsInv, [CallsNext]_callVars PROVE SessionsInv'
  <2>1. CASE UNCHANGED callVars
    BY <1>1, <2>1, NothingChanges DEF callVars
  <2>2. ASSUME NEW r \in CallRooms, NEW command \in Commands, Begin(r, command) PROVE SessionsInv'
    BY <1>1, <2>2, BeginKeeps
  <2>3. ASSUME NEW r \in CallRooms, ChannelToken(r) \/ BotToken(r) PROVE SessionsInv'
    BY <1>1, <2>3, TokenReadKeeps, AccountsAreOwned DEF ChannelToken, BotToken
  <2>4. ASSUME NEW r \in CallRooms, SaveTimesOut(r) PROVE SessionsInv'
    BY <1>1, <2>4, RollbackKeeps DEF SaveTimesOut
  <2>5. ASSUME NEW a \in TokenOwners, RevokeTokens(a) PROVE SessionsInv'
    BY <1>1, <2>5, NothingChanges DEF RevokeTokens
  <2>. QED
    BY <1>1, <2>1, <2>2, <2>3, <2>4, <2>5, AppKeeps, AsUserKeeps, SaveKeeps, GoKeeps,
       CommitKeeps, ExpireKeeps
       DEF CallsNext
<1>. QED
  BY <1>1, CallsBegin, PTL DEF CallsSpec

THEOREM AnswersAndTokensAreTrue == CallsSpec => []CallsInv
<1>1. ASSUME SessionsInv PROVE CallsInv
  <2>1. CallsTypeOK
    BY <1>1 DEF SessionsInv, CallsTypeOK, TokensAreIssued, SessionKeeps, WritesAreHeld
  <2>2. AnswersAreTrue
    BY <1>1 DEF SessionsInv, AnswersAreTrue, SessionKeeps, Promises, SaidIsSo, IsSo
  <2>3. RefreshedOnce /\ RefreshIsKept
    BY <1>1 DEF SessionsInv, RefreshedOnce, SessionKeeps, GoesOnWithNew
  <2>. QED
    BY <2>1, <2>2, <2>3 DEF CallsInv
<1>. QED
  BY <1>1, SessionsInvHolds, PTL
==============================================================================
