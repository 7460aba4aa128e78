# hortbot in TLA+

hortbot is a Twitch chat bot written in Go. Three kinds of processes share one
PostgreSQL database:

- `conduit` receives chat messages from Twitch EventSub over websockets, puts
  them into a queue in the database, and keeps the EventSub subscriptions in
  step with the channels that have joined;
- `bot` (one or more processes, each with several worker goroutines) claims
  messages from the queue and handles them: filters, commands, autoreplies. It
  also runs repeated and scheduled commands and some hourly jobs;
- `web` serves pages and the login with Twitch.

This directory holds TLA+ models of the parts where concurrency, failures, time
or long sequences of commands make the code hard to test, the TLC configurations
that check them on small instances, and proofs checked by TLAPS. Paths below are
relative to `src/internal/`. `PROJECT.json` maps every definition to the lines it
models, and lists the hazards the properties are for.

## Inventory

| Component | Where | State | Hard to test | Modelled |
|---|---|---|---|---|
| Chat message queue | `db/chatqueue`, `db/queries/chatqueue.sql`, `cli/subcommands/bot/message_queue.go`, `cli/subcommands/conduit/main.go` | a row per message and per channel, with leases; per worker its claim, message and deadline; the wake channel | workers of several processes, `SKIP LOCKED`, leases that run out, redelivery, lost answers, three machines' clocks, lost wake-ups | yes: `ChatQueue`, `Workers` |
| Repeater | `pkg/repeat` | a heap of jobs, the current job with its timer, counts, running goroutines | jobs that put themselves back, in a race with Add, Remove and Reset | yes: `Repeater`, `Scheduler` |
| Repeated and scheduled commands | `bot/repeat.go`, `bot/cmd_repeat.go`, `bot/cmd_schedule.go` | rows, their copy in the repeater, cooldowns | memory and database change at different times; lock order of jobs and handlers | partly: `RepeatedCommands` |
| Message handler | `bot/handle.go`, `bot/session.go`, `bot/handlers.go` | the locks of the room and the channel, the transaction, deferred work | answers before the commit, crashes after it, panics, two handlers in one channel, the order of the chain | yes: `Messages`, `Dispatch`, `TwitchCalls` |
| Joining and leaving channels | `bot/cmd_management.go`, `bot/cmd_admin.go`, `web/web.go` | `channels.active` and its bot, blocked users, repeats, requests | several tables, memory and Twitch at once; handlers in two rooms | partly: `Messages`, `RepeatedCommands`, `Subscriptions` |
| Custom commands and lists | `bot/cmd_command.go`, `bot/cmd_list.go` | four tables that refer to each other | names shared by two kinds, levels on every path, deletions that must take everything along | yes: `Commands`, `Access` |
| Quotes, autoreplies and variables | `bot/cmd_quote.go`, `bot/cmd_autoreplies.go`, `bot/cmd_var.go` | numbered rows, cooldowns, 64-bit numbers | gaps in the numbers, compaction, overflow | yes: `Numbered` |
| Bot state | `db/botstate`, `bot/state.go` | rows that expire, entries of the raffle, login states | expiry at the boundary, one-time use, cleanup at any time | partly: `LiveState`, `BotState`, `ChannelState`, `Logins` |
| Filters and link permits | `bot/filters.go`, `bot/cmd_filters.go`, `pkg/linkmatch` | settings, warnings, permits | order of the checks, boundaries, who can lock out whom | yes: `Moderation`, `LinkMatch` |
| Access levels and settings | `bot/access_level.go`, `bot/cmd_levels.go`, `bot/cmd_settings.go` | lists of users, switches | who can raise whom, through any sequence of commands | partly: `Access`, `Moderation` |
| Command templates | `cbp`, `bot/actions.go`, `bot/custom_command.go` | the parser's stack, guards of the texts in use | malformed texts, texts that use each other | partly: `Templates`, `Actions` |
| Websockets of the conduit | `conduit/conduit.go` | goroutines, connections, the session Twitch sends to | hand-over to a successor, failures at any point | yes: `Websockets` |
| Subscription synchronisation | `conduit/conduit.go`, `pkg/eventsubsync`, `cli/subcommands/conduit/main.go` | requested and handled version, Twitch's subscriptions | reads at different times, partial failures, lost requests | yes: `Subscriptions` |
| Web server and login | `web` | login states, session cookies | one-time state, two hosts, two callbacks | partly: `Logins` |
| Twitch tokens and moderated channels | `bot/cron_tasks.go`, `bot/session.go`, `pkg/apiclient/twitch` | `twitch_tokens`, `moderated_channels` | refreshed tokens against logins and the validation, updates of several processes | yes: `Logins`, `ModeratedChannels`, `TwitchCalls` |
| Graceful shutdown | `pkg/contextx`, `pkg/errgroupx`, `cli/subcommands/bot/bot.go` | contexts, the grace period | what may still finish, who waits for whom | yes: `Workers` |
| Configuration import and export | `confimport` | the document | reads of nine tables at different times, references between rows with new IDs | yes: `ConfigImport` |
| API clients | `pkg/apiclient`, `pkg/httpx`, `pkg/oauth2x` | the token of a call | errors, the retry after one, a token that expires between two calls | partly: `TwitchCalls` |
| Generated database code, migrations | `db/dbsql`, `db/migrations` | none of their own | | no: generated by sqlc from queries that are modelled where they are used |
| Command line, metrics, logging | `cli`, `*/metrics.go` | none | | no: configuration and output only |

How they interact: the conduit's notification handler calls `Enqueue`; workers
call `Claim`, run the handler and call `Complete` or `Fail`; a handler offers its
message to a chain of filters, commands, builtins and autoreplies, asks Twitch
with the tokens of the bot and the broadcaster, changes the repeater of its own
process while its transaction is open and asks for a subscription
synchronisation after it; repeater jobs run transactions that take the same
channel lock as handlers; the conduit polls the requested version; the web
server's login writes the tokens that handlers and the hourly jobs read.

What makes each component correct:

- *Queue*: a message is handled at most once; it is dropped without being
  handled only when it is too old; every message is settled; messages of a
  channel are not handled at the same time; a finished message stays finished; a
  message that can be claimed is, whatever wake-ups are lost.
- *Repeater*: the earliest job runs first and none before its time; a job never
  runs twice for one deadline; what was added and not removed stays scheduled.
- *Repeated commands*: memory agrees with the database once nothing is in
  progress; two runs are at least the delay apart; only what is on runs; jobs and
  handlers do not wait for each other for ever.
- *Handler*: a message is answered by the bot its channel has, once, by a handler
  its user may use; handlers do not wait in circles; every message ends.
- *Commands, quotes and variables*: names are unique, nothing is left behind,
  nobody changes what they may not use, numbers keep their order.
- *Bot state*: one use per permit, confirmation, raffle entry and login state; no
  two uses within a cooldown; an entry counts exactly as long as it was given.
- *Moderation*: the broadcaster cannot be locked out, nobody raises anyone above
  themselves, a warning comes before a timeout.
- *Templates*: parsing loses nothing, evaluation ends.
- *Websockets*: each shard ends up served by a connection, through hand-overs.
- *Synchronisation*: after the last request the subscriptions become those of
  the joined channels, whatever failed before, if a websocket was welcomed.
- *Tokens*: a code is exchanged once; only dead tokens are deleted, and dead ones
  go; a refreshed one stays once it is committed; an answer in the chat is true.
- *Shutdown*: a signal cuts off no handler and leaves no lease; the process ends.
- *Configuration*: what is exported can be imported and says the same.

## Modules

| Module | What it is |
|---|---|
| `ChatQueue`, `ChatQueueInv` | the queue: producer, tables, workers, maintenance, clocks; its inductive invariants |
| `ChatQueueProofs` | theorems about it, proved with TLAPS |
| `Workers` | the goroutines around the queue: wake channel, NOTIFY, poll, signal, grace period |
| `Schedules` | schedules of repeats and crons, and their next deadlines |
| `Scheduler` | abstract: what the repeater promises |
| `Repeater`, `RepeaterProofs` | the repeater's run loop; theorems about it, proved with TLAPS |
| `RepeatedCommands` | rows of repeated and scheduled commands, the messages that change them, the jobs that run them, several processes; over the plan of `Scheduler` |
| `Messages` | handlers at the same time: locks, transaction, what follows it, failures |
| `Dispatch` | the handlers one message is offered to, in order |
| `Access` | access levels; used by `Dispatch`, `Commands` and `Moderation` |
| `Commands` | custom commands and lists |
| `Numbered` | quotes, autoreplies, variables |
| `LiveState` | abstract: what transient state promises |
| `BotState` | the tables of transient state and their statements |
| `ChannelState` | what a session asks of `BotState`; implements `LiveState` |
| `ChannelData` | `Commands`, `Numbered` and `ChannelState` together |
| `Moderation` | a channel's settings, lists of users and filters |
| `LinkMatch` | which links a pattern permits |
| `Templates` | the parsing of command texts, one round of the parser's loops a step |
| `Actions` | the names of actions, and the evaluation of texts that use each other |
| `Answering` | `Dispatch`, `Actions` and `Templates` together |
| `ConfigImport` | export and import of a channel's configuration |
| `Websockets` | the connections of one shard of the conduit |
| `Subscriptions` | the synchronisation of subscriptions |
| `Logins` | logins, tokens and their validation |
| `ModeratedChannels` | the update of the channels each bot moderates |
| `TwitchCalls` | what handlers ask of Twitch, with tokens that expire |
| `RepeatedCommandsProofs` | theorems about `RepeatedCommands`, proved with TLAPS |
| `ChannelDataProofs` | theorems about `Commands`, `Numbered`, `ChannelState` and `ChannelData` |
| `WorkersProofs` | theorems about `Workers` |
| `ModerationProofs` | theorems about `Moderation` and `ConfigImport` |
| `HandlingProofs` | theorems about `Messages`, `Dispatch`, `Actions`, `Templates`, `Answering` and `LinkMatch` |
| `TwitchProofs` | theorems about `Logins`, `ModeratedChannels`, `Websockets`, `Subscriptions` and `TwitchCalls` |
| `MCChatQueue`, `MCRepeater`, `MCRepeatedCommands`, `MCWorkers` | small instances for TLC, with fairness |
| `MCChannelData` | `ChannelData` |
| `MCModeration` | `Moderation` and `ConfigImport` |
| `MCHandling` | `Messages`, `Answering` and `LinkMatch` |
| `MCTwitch` | `Subscriptions`, `Websockets`, `Logins`, `ModeratedChannels` and `TwitchCalls` |

The last four combine modules that share no state: the variable `part` says whose
behaviour it is, the others stand still. So a run of theirs is the sum of its
parts, not their product, and a property of one part is checked on that part.

### ChatQueue

State and code correspond as follows.

- `rowState`, `rowEnq`, `rowToken`, `rowUntil`, `rowDone` are the columns of
  `chat_message_queue`; `keyToken`, `keyUntil` those of
  `chat_message_queue_keys` (the migration `20260808060000`).
- `sent[m]` is the metadata timestamp of the message, `stamp[m]` the
  `EnqueuedAt` of a delivery, `delivery[m]` where `newNotificationHandler` is.
- `pc[w]`, `token[w]`, `job[w]`, `deadline[w]`, `outcome[w]` are the local
  variables of `runMessageWorker`.
- `txNow[w]`, `cand[w]`, `rowLocks[w]`, `keyLocks[w]` are what PostgreSQL keeps
  for the transaction of a claim: NOW(), the rows of the statement's snapshot
  that are still to be looked at, and the row locks.
- `handled[m]` counts the calls of `HandleQueued`. Nothing reads it.

`Complete`, `Fail`, one `Cleanup` and the commit of a claim are one action each:
they touch only rows whose locks they hold. The claim's `SELECT ... FOR UPDATE
OF q, k SKIP LOCKED` is modelled lock by lock, because that is how PostgreSQL
executes it: the snapshot (`ClaimSnapshot`), then for each row in order the lock
on the message (`LockRow`, `SkipRow`), the lock on the channel (`LockKey`,
`SkipKey`) and, under READ COMMITTED, another evaluation of the WHERE clause.
Locks obtained on rows that are then passed over are kept to the end of the
transaction. The INSERT of `Enqueue` holds a share lock on the channel's row for
the foreign key, which the claim's lock conflicts with.

A failure can happen in every state: `ClaimAbort` rolls a claim back, the second
disjuncts of `ClaimCommit`, `Finish` and `EnqueueCommit` lose the answer to a
commit, `Crash` ends the process of a worker, `DropDelivery` ends the conduit.
`retryQueueOperation` is the next `ClaimBegin` or `Finish`.

*Time.* `now` is the clock of the database server. Every other machine reads a
clock with an error of at most `Skew` (`Clock`). `TxLag` bounds the time from a
claim's BEGIN, which fixes NOW(), to its snapshot. `TimingAssumption` states
what at-most-once handling needs: the lease outlasts the age limit by `Slack`,
which exceeds 2 * `Skew` + `TxLag`, and tombstones outlast redelivery. The
program's values (15s, 5min, 24h) allow clocks with errors of up to 7 seconds.
Nothing is assumed of the speed of a worker, except for `ChannelExclusive`:
there `Punctual` states that the handler returns within its 15s deadline and
starts within `PrepBound` of the claim, and both together are shorter than the
lease (30s). Without it the property is false: the deadline is a context that a
handler may be slow to notice.

The wake channel, LISTEN/NOTIFY and the poll are module `Workers`: here an idle
worker may claim at any time. The handler is one step, with its deadline.

### Scheduler and Repeater

`Scheduler` is the promise: `plan[i]` is the deadline and schedule of an
identity, the earliest one runs first and not before its time, and a function
that returns TRUE is planned again. `Repeater` is `manager.run`
(`pkg/repeat/repeat2.go`):

- `queue[i]` is the item of `i` in the heap and in `identToItem` (the two always
  agree, which is what `queueFix` and `queueRemove` rely on); `counts` is
  `m.counts`; `curr` and `currCount` are the local variables `currItem` and
  `currCount`. The timer `currReady` has fired when `curr.deadline <= now`.
- `stage[g]`, `work[g]` are the goroutines that `Fire` starts. Only a number of
  them exists (`Slots`); the program has no limit.
- One case of the `select`, with the tail of the loop, is one action: `Fire`,
  `Put` (for `Add` and `ReAdd`), `Remove`, `Reset`, `Stop`. The channels are
  unbuffered, so that the caller's send and the case are one step.
- `FindNew` is the tail of the loop, `Place` the three ways an addition can end.
- `last` and `status` record what ran and what was asked for, for the
  properties; no guard reads them.

A cron schedule is the set of times at which it fires; `CronNext` is what the
library's `Next` returns, with the empty set for the zero time. A repeat's next
deadline is computed as the code does, with Go's truncating division.
`ImplementsScheduler` is the refinement: `plan` is the queue with the current
item put back.

### RepeatedCommands

One channel, its repeats and scheduled commands, several bot processes.

- `row[i]` is the row `i` of `repeated_commands` or `scheduled_commands`
  (`Never`: not inserted yet; `Deleted`: its ID is never used again), `active`
  and `count` are columns of `channels`, `cool[i]` the cooldown in
  `bot_repeat_cooldowns` or `bot_scheduled_command_cooldowns`. They change when
  a transaction commits.
- `adv`, `chan`, `rowLock`, `infoLock` say who holds the channel's advisory lock,
  the lock of its row, of the rows of its repeats and of the rows of their
  commands.
- `hpc[h]` and the variables after it are a message in `handleSession`: `Begin`
  takes the channel's locks, `Lookup` is `LookupCommand` with FOR UPDATE, `Write`
  the INSERT, UPDATE or DELETE, `Remember` the calls of AddRepeat and its kin,
  which come before the `Commit`. `handleJoin` and `handleLeave` are written in
  the channel of the bot, so that they have another advisory lock.
- `jpc[g]` and the variables after it are a job in `runRepeat`: `Status`, `Load`,
  `ReadChannel` and `LockInfo` (both in `loadRelations`), `LockChannel` (`pgLock`
  and `allowed`), `JobCommit`; `mine[g]` and `seen[g]` are its copies of the row and
  of the channel.
- `plan[p]` is the plan of `Scheduler` in process `p`; `Fire`, `PutPlan`,
  `DropPlan` and `ReAdd` are its steps. `loading[p]`, `list[p]` are `loadRepeats`,
  whose two queries list what is enabled in active channels in which the bot is
  authorized or a moderator; that may change at any time, so it is a choice of each
  query, and `unlisted[p]` says what has been left out for it.

`HandlerTimeOut` and `JobTimeOut` stand for `lock_timeout` (5 seconds) and for
PostgreSQL's deadlock detection: either may end a wait, at any time. `Fail`,
`JobFail`, `Crash` and `Reload` are faults and happen when a run allows them
(`Faults`, `MaxFaults`). All rows have the same `message_diff` here. `ran[i]`
records the last committed run, for the properties; no guard reads it.

`EnabledIsPlanned` is true only as far as `repeated_planned` and `Plannable` go: joining, a
repeat turned off and on while a job of it is late, a failure after `Remember` and
a reload each lose a schedule in the way the run `repeated_lost` shows. The list
commands, which only read, and the cleanup of old cooldowns are left out.

### Workers

- `waiting`, `leases` are the queue's rows as far as a claim sees them; `notes`
  what PostgreSQL still has to notify, `listener` where `runQueueListener` is,
  `wake` the elements in `Queue.wake`, `poll` the one in the ticker's channel.
- `at[w]`, `feed[w]`, `left[w]` are where `runMessageWorker` is, the channel of its
  lease, and how long its context leaves it.
- `stopped`, `group`, `since` are the signal, the context of the errgroup and the
  time that `WithGracePeriod` measures; `down` is a database that does not answer.

A claim is one step here (its row locks are in `ChatQueue`). `GraceAssumption`
says that what a worker does before the handler, together with the handler's 15
seconds, is shorter than the 30 seconds of grace. An error of one member of the
group cancels the others' context but not that of the work. The hourly database
maintenance is `Cleanup` of `ChannelState`.

### Messages

- `rows`, `blocked` are the tables `channels` and `blocked_users` as committed;
  `write[p]` is what the transaction of handler `p` has changed and not committed.
- `pc[p]`, `room[p]`, `asks[p]`, `uses[p]` are where `handleSession` is, the room of
  the session (`!admin imp` changes it), and the two things that are deferred to
  after the commit: the request for a synchronisation and the counters of usage.
- `locks` says who holds the advisory lock of a room, the row of a channel, the
  row of a blocked user and the counters.
- `missed[r]` are the joins that had read that `r` was not blocked when a block of `r`
  was committed, for the property `BlockedStayOut`; no guard reads it.
- `found[p]` is the ID of the channel that a command of an admin has read. A channel
  that is deleted and joined anew has another ID, the handler that inserted it, and a
  statement `WHERE id = $1` then changes nothing. A statement on a row that is
  not there changes nothing, locks nothing and waits for nothing (`Wanted`, `LockRow`,
  `Updated`); an `INSERT` waits only for who inserts or deletes the same channel.

A join is handled in the bot's room and writes another channel's row; the
commands of admins reach for a second channel. A handler can fail or its process
crash at every step; `LockFails` is `lock_timeout` or deadlock detection, which a
wait may end in at any time. A message that failed is not handled again
(`queue.Fail`), one whose process crashed is too old when it is claimed anew.
Left out: the channel's rename and its counter of messages.

### Dispatch

`at` is the room whose chain runs, `heard` the rooms the message has reached,
`line` the text as the chain sees it, `defined` what the rooms define under each
name, `running` the cooldowns marked, `answers` who has answered, `turnedDown`
whether a command was refused. Each step is one handler of `handleSession`'s
chain, which either ends it or goes on to the next one. What a handler does to
the data is in the other modules; zero cooldowns are in `ChannelState`, levels of
users come in as inputs (`Moderation` computes them). A line that begins with
`builtin` looks for a command of that name first (`Called`): the name is reserved,
but a clone or a rename can give it (see Findings).

### Commands, Numbered

`infos`, `customs`, `lists`, `repeated` and `scheduled` are the tables; a handler is
one action, since the channel's lock orders the messages of a channel. Unique
keys and foreign keys are invariants and not guards: no statement runs into them.
`quotes` and `autoreplies` are the rows by number, `cooling` the cooldowns by row
ID, `values` the variables, whose arithmetic wraps at `Half`, half the number of
values, as int64 does. `answered` and `actor` are there for the properties.

### LiveState, BotState, ChannelState

`LiveState` is the promise, one action for each operation of a session: an entry
begins with the operation that gives it (`LetThrough`, `Exempt`, `Grant`, `Ask`,
`Warn`), lives exactly as long as that operation says, and ends before only with the
operation that uses it up (`Consume`, `Confirm`). Time passes for all entries alike,
and `uses` and `calls` count what a session was told, so that a row which dies early,
is overlooked while it lives or counts after its end is no step of `LiveState`.
`BotState` has the statements on the tables, with rows that stay when
they have expired, and `ChannelState` the calls of a session, with the cleanup at
any time; each of its deletions is a transaction and a step of its own. The
refinement maps `live[k]` to the time row `k` has left, 0 when it has expired
(`Left`), and keeps the counts. The states of logins, also in botstate, are in `Logins`. Usage statistics are left out.

### Moderation, Access, LinkMatch

`channel` is the row of the channel: flags, numbers, levels and the lists of users,
phrases and permitted links. `warned`, `permits` and `banned` are botstate's rows
and Twitch's; `last` is what became of the last message. The filters are tried in
the code's order. Left out: settings that hold a text or number for something
that is not modelled (prefix, bullet, names at other services), and the rounding
of percentages in float64. `LinkMatch` compares hosts and paths character by
character, as its property is about exactly that: `Labels` and `Segments` split them
into the parts the property speaks of. The matcher of globs is external
(`doublestar.Match`), modelled by the places of a path from which the rest of a pattern
matches.

### Templates, Actions

`Templates` is `cbp.Parse` round by round: `rest` is what the scanner has before it,
`ahead` the separator it has found next (`sepNext`, `open`), `stack` the lists of nodes
of the actions that are open, `malformed` what `Parse` returns beside the nodes. A list
of nodes is kept as it is written out, an action being the item that opens it, its
children and the item that ends it, so that `stack` is a sequence of flat sequences.
`input` and `separators` are history: the text, and the separators scanned so far.

In `Actions`, `texts`, `frames`, `session`, `refused` and `evaluated` are an evaluation:
what the commands say, which texts are under evaluation and how much of each is left,
what `SetCommandParams` holds, and what the guards refuse. `findAction` is the
lookup of a name among exact names and prefixes. The values of actions are left
out; an action may fail. How deep texts nest is not bounded in the model, the guards
bound it.

`Answering` and `ChannelData` state together what parts that share no state do; their
specification is the conjunction of those of the parts.

### ConfigImport

`tables` are the nine tables in the order `ExportByName` reads them, `dump` what it
has read, `document` what it writes, `imported` what was imported. Handlers change
the tables between two reads. The import is one transaction and one action. It
does not tell the bot: an imported repeat that is on is planned at the next load.

### Websockets, Subscriptions

`runners[i]` is a goroutine of `runWebsocket` with its connection, its callback
`onWelcome` and whether it is cancelled; `served` is the connection Twitch knows as
the session of the shard. `assigned` and `bots` are what the database wants, `owed`
the requests that are not yet written, `version` `eventsub_sync_requests`, `subs`
and `conduits` what Twitch has, `sync` the loop in `main.go` and
`SynchronizeSubscriptions`, whose reads and calls are a step each.
`sync.started` is the channel `started`, for which every synchronisation waits: it is
closed by the welcome of a shard's first attempt (`Welcomed`) or, when that attempt
fails (`FirstAttemptFails`), never, until the process begins anew. `SettlesAsWanted`
says so in its second disjunct, and `TwitchWaiting.cfg` shows what it means. `ServesShard`
is about hand-overs between a websocket and its successor and exempts a failed first
attempt and two that serve one shard. Twitch may
revoke, any call may fail, the process may restart and find its conduit gone.
Left out: the number of shards, and the end of the conduit's intake at shutdown.

### Logins, ModeratedChannels, TwitchCalls

`states` is `web_auth_states`, `callbacks` the requests of `authTwitchCallback`,
`tokens` the table, `live` what Twitch honours, `validator` and `handler` the two
others that write tokens. `updates[u]` is the transaction of a process in
`updateModeratedChannels`, `answered` what Twitch told the last one committed.
In `TwitchCalls`, `stored`, `issued`, `fresh` and `revoked` are the tokens of an
account (an old one can be refreshed again; one that a running session was given
does not expire meanwhile), `rowLocks` who holds the row of one, `chats` Twitch's
side, `sessions[r]` the message of a room: where it is, the tokens it has cached,
what it asked for and what it said. A request that is answered with 5xx is done
or not and is sent once more (`CallAsUser`); a rollback takes back a refreshed
token but not what Twitch did.

## Runs

| Run | What it shows |
|---|---|
| `queue_delivery` | one message delivered again at any time, two workers, clocks that are off, the shortest lease allowed, a fault: handled at most once, dropped only when too old, final once finished |
| `queue_contention` | two queued messages of a channel, or a malformed one alone, scans interleaved lock by lock, a crash: leases agree (with the inductive invariant), the two are not in the handler at once, live leases are respected, and the messages are settled although scans skip each other |
| `repeater` | additions, removals, resets and functions that put themselves back, in every order: counts are right, nothing runs twice for one deadline or is lost, `Scheduler` is implemented, and what was added runs when it is due |
| `repeated_safety` | a scheduled command that two messages at a time add, change, disable, enable and delete, with joining and leaving, failures, reloads and crashes: no run for a row that is off or gone, runs keep their distance, `last_count` never goes back |
| `repeated_planned` | two processes with a repeat that is added and deleted, a crash, an authorization that comes and goes: what is enabled is planned, except where loading left it out; a job ends although messages take the locks in the opposite order |
| `channel_data` | commands and lists share names, quotes and autoreplies are numbered, variables overflow, transient rows expire: names stay unique and nothing is left behind, levels hold along every path, numbers keep their order, and `LiveState` is implemented: what expires lives exactly as long as it was given |
| `moderation` | settings, lists and filters change while a broadcaster and a viewer write: the broadcaster stays heard, a timeout follows a warning, nobody is raised above the one who does it; an export can be imported and says the same |
| `handling` | two messages at once: a channel has one bot, waiting in circles needs an admin's command, handling ends; one handler answers, its user may use it, refusals hide nothing else; texts parse without loss, do not use themselves and come to an end; links match by label and segment |
| `twitch` | subscriptions become the wanted ones after losses and failures, unless the first attempt of the websocket failed; a hand-over leaves a shard served; a code is exchanged once and only dead or replaced tokens are deleted and dead ones go; moderated channels are as listed; answers about Twitch are true and refreshed tokens stay once they are committed |
| `workers` | a message that can be claimed is, a signal cuts off no handler and leaves no lease, the process ends |
| `queue_order` | a violation: the second message of a channel can be claimed ahead of the first |
| `repeated_lost` | a violation: a scheduled command that is due before the message that adds it has committed is never planned |

### Bounds

*Queue.* Two workers are enough for every race between claims, since a row or a
key is contended by pairs. `queue_delivery` has one message that may be delivered
again at any time, as at-most-once is about one message; `queue_contention` begins
either with two well-formed messages of one channel, so that one waits for the
other, or with a malformed one that no handler is called for; `queue_order` adds one of
another channel for the scan to go on to. Durations are 0 to 6 ticks, chosen so
that leases run out, messages grow too old and tombstones are deleted within
`MaxTime`. `MaxFaults`, `LastFault`, `Timestamps`, `MaxDelay`, `Redelivered` and
`MaxInsertTime` bound faults and deliveries (`MCChatQueue` explains each). Workers
are symmetric in `queue_delivery`, which has no liveness property.

*Repeater.* A repeat and a cron make all paths of an addition possible (no current
item, the same identity, another one) and every order of deadlines, ties
included; starts in the past and in the future reach both signs of the division;
one cron schedule never fires. Four calls from outside and `MaxTime` = 4 are
enough for an item to be added, to run, to be replaced while it runs and to come
back, two goroutines for two functions, or two runs of one, at the same time.

*Repeated commands.* One identity: rows of different commands meet only in the
channel's locks, which a message of any kind contends for. `repeated_safety` has
one process with two goroutines and two handlers, `repeated_planned` two processes
with a goroutine each: enough for two jobs of one row and a message between any
two of their steps; the latter has one crash, and each loading may find the channel
authorized or not. Intervals of 2 and 3 ticks (2 in `repeated_planned`) and `MaxTime` of 3 or 4 let a job
run, come back and run again; `HandleTime` = 1 is shorter than any interval, as
15 seconds are shorter than 30.

*Channel data.* Two channels and two names make clones, collisions and messages
that name the other channel possible; two row IDs force their reuse; the levels
subscriber and broadcaster lie below and above a moderator's. Numbers up to 3
have room for a gap with a row on either side; 4 bits are as good as 64 for
wrapping. Channels and names are symmetric, and the view leaves out `actor`, which
only the action properties read, in the step that sets it.

*Moderation.* Five kinds of messages that between them trip every filter; two
changes of any setting from the default channel and from one with every filter
on. The view leaves out `last`: properties read it primed only, and TLC checks
them on every step. `MaxEdits` = 3 changes of the channel during an export.

*Handling.* Two messages, two rooms, two bots and two counters: circles of two
locks, which is how locks are taken here. In `Dispatch` rooms with each prefix, a
restricted one, and names that are a builtin, a moderation command, a disabled
builtin or nobody's; two messages for the cooldowns. Texts of 6 characters reach
every action of the parser, with an action open in another and one closed or given
up in another; the depth of an evaluation has no bound. Hosts and paths have up to 4 characters.

*Twitch.* One channel, one bot and four subscriptions on two pages; two changes and two
faults. Four goroutines and three drops let a reconnect fail and its successor
reconnect. Two accounts, two hosts, two logins and three callbacks; two processes
and two bots; two rooms, of which one is the bot's own, with three commands (a
ban, the warning of a filter, and a change of the game with the
broadcaster's token), one expiry and one failure.

*Workers.* Two workers, one channel, two messages; `Grace` = 4 > `PrepTime` 1 +
`HandleTimeout` 2 mirrors 30 s > 15 s.

Deadlock is not checked anywhere: clocks and counters are bounded, so that
behaviours stop there.

### Fairness

- `queue_contention`: the clock, the maintenance loop, each worker's claim steps,
  its handling and its restart, each weakly. The loop blocks nowhere but where
  the database or the handler's deadline end it, and a supervisor restarts it.
- `repeater`: the clock, the expired timer and each goroutine, weakly. A case of the
  `select` that stays ready is taken; functions return, as the bot's jobs do when
  their context's deadline ends their queries.
- `repeated_planned`: each handler's and each job's next step or timeout, weakly: a
  wait for a lock ends with the lock or when PostgreSQL gives up.
- `handling`: the same of each message; the parser's loops and an evaluation run on.
- `twitch`: the synchroniser and the welcome of its first websocket, the writing of owed requests and the clock weakly, the
  tick of the periodic synchronisation strongly, as the loop's `select` picks at
  random among the cases that are ready time and again; each goroutine's attempt
  to connect, and the hourly validation, weakly.
- `workers`: the poll, the listener, the clock, serving and the end of a lease weakly;
  a worker's claim strongly, since a scan skips rows that others have locked for a
  moment. The database may stay away: the properties say what then.

## Proofs

`ChatQueueProofs` proves, for any number of messages, channels, workers, crashes
and faults:

- `TypeCorrect`: the type invariant;
- `AtMostOnceInvariant`, `HandledOnce`: `HandledAtMostOnce`. The invariant
  `AtMostOnceInv` is needed because the property alone is not inductive: it says
  that a message which a worker may still take for young is held by at most one
  worker, and that once a worker has taken it (`Taken`), everyone who claims it
  later finds it too old (`Closed`): its lease outlasts the `Horizon`, or its
  tombstone does. The timing assumption is used there and nowhere else;
- `LeaseInvariant`, `LeasesAlwaysAgree`: tokens are fresh, a holder's lease is on
  both rows or on neither, so that a live lease on a message is the lease on its
  channel;
- `ExclusiveChannels`: with `Punctual`, two messages of one channel are never in
  the handler at once;
- `StaleOnlyDropped`: `OnlyStaleDropped`, from the invariant `StaleInv`: a worker that
  is to complete a message nobody handled has found it too old;
- `LiveLeases`, `FinishedStays`: the action properties.

They rest on the named assumptions of `ChatQueue` (`DataAssumption`,
`DurationAssumption`, `TimingAssumption`, `PunctualAssumption`), which TLC
evaluates for every instance it checks.

`RepeaterProofs` proves, for any finite set of identities, any schedules and any
number of goroutines:

- `RepeaterInvariant`: the inductive invariant. The properties alone are not
  inductive: a count cannot be shown to stay a natural number, or an item to be
  planned once, without knowing that the counts are those of the heap
  (lemmas `TallyAdd`, `TallyTake`), that the current item is not in
  it, and that what has run was due;
- `TypeCorrect`, `WaitsForFirst`, `NeverPlannedTwice`, `CountIsRight`,
  `RunsOncePerDeadline`, `NothingLost`: the invariants of the run `repeater` and
  those its refinement rests on;
- `RepeaterImplementsScheduler`: the refinement. Each case of the loop is first
  shown to have one effect on the plan (`FindNewEffect`, `PlaceEffect`,
  `InsertEffect`, `RemoveEffect`, `FireEffect`), and that effect is the step of
  `Scheduler`. `NextIsLater` is the arithmetic of the truncating division.

They rest on `ScheduleAssumption`: a finite set of identities, positive
intervals (the commands that add repeats demand at least 30 seconds), and times
counted from the start of the process.

`RepeatedCommandsProofs` proves, for any finite set of identities, any schedules, and
any number of messages, jobs, processes, crashes and faults:

- `RunsInvHolds`: the inductive invariant `RunsInv`. A job that has loaded its row holds
  that row until it ends, so that its copy of it (`mine`) agrees with the table and
  with the cooldown (`JobHolds`); a handler that goes on to write holds the channel, so
  that the message count it has read is still the current one (`HandlerHolds`); a row's
  last count is at most the channel's count (`CountsFrom`); and the cooldown of a row is
  the time of its last run and the gap that was asked for then (`CoolsAsRan`);
- `OnlyWhatIsOnRuns`: `RepeatedInv`. Nobody can disable or delete the row of a running job,
  since they would need its lock;
- `RunsKeepTheirOrder`: `RunsInOrder`, from the cooldown and the counts;
- `EnabledStaysPlanned`: `EnabledIsPlanned`, within the limits that `Plannable` names:
  repeats whose delay is longer than the deadline of a handler, in channels that are
  left but not joined again, and neither turned off nor on; processes may crash, but
  no handler fails and no process reloads. Outside of them the property does not hold
  (see Modules). In `PlannedInv` a repeat that is enabled is planned, has a job or will be
  listed, unless a message is about to undo it (`OnIsPlanned`); what is not enabled yet
  is seen only by the process that is adding it, and does not fire before the handler
  must have ended (`Unseen`), so that no job finds it missing and forgets it.

They rest on `ScheduleAssumption` and `CommandAssumption`.

`ChannelDataProofs` proves, for any sets of channels, users, names and rows:

- `TablesHangTogether`: `CommandsInv`. The four tables refer to each other both
  ways, so that a command's row, its entry, and the rows of its repeat and its
  schedule can only be shown to stay together all at once (`TablesInv`);
- `SendersMayChange`: the action properties of `Commands`, one lemma per message;
- `NumbersKeepOrder`: `NumberedInv`. `Rank` counts the rows below a number, and
  the lemmas about it (it is strictly monotonic, and its values are the numbers
  from the start on without a gap) rest on the theorems on finite sets.
  `DecrementIsUndone` is the arithmetic of wrapping at any width;
  `RepliesRestLongEnough` and `NumbersHaveNoJumps` are the action properties;
- `GrantedOnceUsedOnce`: `ChannelStateInv`. The counts of calls are inductive only
  together with what is still stored (`StateInv`): a permit that counts in its
  table is one that was granted and not yet used;
- `CooldownsAreKept`, and the refinement `TablesImplementLiveState`: a cleanup is a
  stutter of `LiveState`, and every other statement the step of the operation it belongs
  to, so that an entry can begin, be used up and be counted only there;
- `DataStepsAreSmall`: `StepsAreSmall`, of the three parts together.

`WorkersProofs` proves `HandlersAreSpared` (`WorkersInv`) and `NoLeaseIsForgotten`, for
any workers, channels and durations. That the work is not cut off needs how
much time each worker has left in each state, against the time since the
signal (`ProcessInv`); `WorkersAssumption` says that the grace period is longer
than preparation and handler together (30 s against 15 s in `bot.go`).

`HandlingProofs` proves, for any number of messages under way, any rooms and bots and any
finite set of counters:

- `UsersNeverDeadlock`: `MessagesInv`. The invariant `HandlersInv` says what each handler
  holds in each state (`LocksFit`): whoever waits for a room holds nothing, who waits
  for a row holds only rooms' locks, and who waits for a counter only lesser ones. So a
  circle without an admin would be one of counters, and the greatest that anyone in it
  waits for would be held by someone who waits for a greater one (`GreatestOf`);
- `ChannelsKeepTheirBot`: `OneBotPerChannel`. A channel is written only by who holds its row,
  and a join finds it at the commit as it has read it (`WriteFits`); a message holds
  the row of its channel up to its answer (`HomeIsHeld`); a join goes on with
  someone who is blocked only if it had looked before the block was committed
  (`JoinsUnblocked`, by the history `missed`), which is all that `BlockedStayOut` allows. In
  `CommitChanges` a row can be shown to change only as the writing handler's message
  says because statements on rows that are gone change nothing;

and for any channels, commands, levels and lines:

- `OneHandlerAnswers`: `DispatchInv`, with what each step of the chain can rely on
  (`ChainInv`): at the builtins that nothing hides them, at the autoreplies that there
  is no video, and that the cooldown of a room runs whenever an answer in it is recent;

for any finite sets of commands and lists, any texts and any parameters:

- `NoEndlessTexts`: `ActionsInv`. In `EvalInv` the guards of each frame are exactly the names
  of the texts that are under evaluation up to it, and these are distinct, so there
  are no more of them than names: a sequence without repetitions is no longer than its
  set is large;
- `EvaluationsShrink`: what is left of the innermost text becomes less with every step
  and what is left of those around it does not grow, down to the first place that
  changes. With the bound on the depth this is a well-founded measure, which is why an
  evaluation ends; that it does is checked by TLC;

for texts of any length:

- `TextsAreParsedWhole`: `TemplatesInv`. In `ParseInv`, what the open lists stand for, with
  the separators that opened them, followed by what is not scanned yet is the text at
  every moment (`StackString`), and as long as nothing was given up, as many actions are
  open as separators opened more than were closed (`BalanceFits`). `FlattenSeq` is defined by
  recursion over its argument: that it concatenates is shown from its definition, by the
  existence of such a function and its uniqueness (`FlatteningExists`,
  `OneFlattening`). Induction over sequences is used for one set of sequences at a time
  (`AllSequences`), which needs no theorem with an operator for a parameter;
- `ParsingEnds`: `ParsingShrinks`, by the measure `Effort`;

and of all three together:

- `AnsweredOnceAndFinitely`: `AnsweringInv`;

and for hosts and paths of any length, over any characters:

- `LinksMatchByPart`: `MatchInv`. Splitting and joining undo each other (`SplitConcat`), so
  that to end in the labels of a host, or to begin with the segments of a path, is to be
  it or to go on beyond a separator. What a pattern matches from each of its places on is a
  recursive function over those places, which is shown to exist from its definition,
  downwards from the end of the pattern (`MatchesAre`). A pattern without stars matches the
  path itself (`ExactFrom`), followed by `/**` what is below it (`AnyBelowFrom`), and one
  that ends in a star matches whatever the same pattern matched without it.

`ModerationProofs` proves, for any users, links, lists and settings, and any names and
numbers of rows:

- `RowStaysWell`: the invariant of a channel's row (`ModerationInv`): its levels stay where the
  broadcaster can reach them, and nobody is listed twice. That a list has one entry
  for each user is proved as a property of the sequence and carried over to the count
  (`CountedOnce`);
- `BroadcasterAlwaysHeard`, `LevelsAreGivenFromAbove`: the action properties about levels;
- `WarnedBeforeTimeout`: from the invariant that a warning which still counts follows a
  message that the same filter took (`WarnedOnly`);
- `ImportsAreFaithful`: `ConfigInv`. In `ImportInv` IDs are used once, what refers to each
  other is of one channel (`OneChannel`), and what an export has read so far was in its
  tables when it read them (`DumpFits`), which says nothing of how the tables fit
  together: that comes from `assembleCommands`, which fails where they do not. The
  IDs an import gives are counted from the ranks of the old ones, so they differ
  (`RanksDiffer`, `NewIdsDiffer`); each new row is found by the ID its row in the
  document was given, from whichever side (`ByNewId`, `ByNewInfo`), so that the channel
  says what the document says (`MeaningKept`). `ConfigAssumption` is that there is a value
  and that no row is `Nothing`.

`TwitchProofs` has a part for each module:

- `LoginsAreExchangedOnce`, `DeletedWereDeadOrReplaced`: the state of a login is in its table,
  with one callback that took it, or gone (`StatesAreOwn`), and a token's login has
  been exchanged, wherever it is held (`TokensAreGranted`);
- `TableIsAsListed`, `UpdatesInOrder`: the rows of a bot carry the time at which the
  last update that committed began, and an update that holds the lock began later;
- `ShardHasOneRunner`: for any number of goroutines, the successors of one are at most
  one, and what each waits for (`SocketInv`);
- `HandledVersionsAreCurrent`: `SyncInv`. The invariant `ConduitInv` has what each step of
  the synchroniser has read (`VersionsAreRead`): if the version it will record is
  still the current one, so is its list of channels. `ItemsAreThere` says that
  what it deletes or creates is still there to be;
- `AnswersAndTokensAreTrue`: `CallsInv`, for any rooms and any programs of calls. Of the
  tokens it says that a session refreshes once, and that a refreshed token which a
  message has committed stays in the table until it expires; a message that is
  rolled back, or whose saving times out, loses the token it got, in the code as here. In
  `SessionsInv`, who wrote a token holds its row (`WritesAreHeld`), a session that
  refreshed goes on with the new token (`GoesOnWithNew`), and what it is about to
  say holds of what it has asked for (`Promises`). `Least` and `Greatest` are by
  well-founded induction on the numbers; `EffectsRepeat` says that a call done
  twice is as good as once, which is what makes the retry after a 5xx harmless.

Their assumptions are on the constants only (`Unlocked` is no room, `None` is no
number, sets of identities are finite, the characters of the separators are
characters), and on the order of durations.

Only model-checked: all liveness properties, which are out of the prover's reach. No
theorem speaks of `ENABLED`. Where a definition is recursive (`FlattenSeq`, `Split`,
`isMatch`), it is a recursive function, and its existence is part of the proof.

## Findings

Two are runs:

- `queue_order`: `TestQueueConcurrentClaimsSerializeKey`
  (`db/chatqueue/queue_test.go:180`) asserts that two concurrent claims get the
  first message of a channel and the one of the other channel. A claim that
  comes between the two locks of another passes over the first message and gets
  the second.
- `repeated_lost`: "Schedules a command, and enables it" (`web/templates/docs.templ:260`);
  if the cron expression fires before the message's transaction commits, the job
  finds no row and is forgotten, and the row is then committed as enabled.

Further configurations, which find violations:

- `TwitchWaiting.cfg` (`MCTwitch`): `runWebsocket` forgets `onWelcome` after its first attempt
  (`conduit/conduit.go:164`), also when that was not welcomed. `s.started` is then never
  closed, `SynchronizeSubscriptions` (`:304`) waits for it for ever, although the
  websocket connects again a second later, and "How often to synchronize
  subscriptions" (`cli/subcommands/conduit/main.go:34`) is never, until the process
  starts anew.
- `RepeaterRemoved.cfg` (`MCRepeater`): the comments of `Reset` and `Remove`
  (`pkg/repeat/repeat.go:28`, `:43`) promise the removal of the function; one
  that is running at that time is scheduled again when it returns TRUE
  (`repeat2.go:98-99`). The bot's jobs read their row before they ask for
  another run, which narrows the window. Adding has the same gap: a job that is
  running meanwhile puts its old delay back over the new one.
- `RepeatedPlanned.cfg` with the property `MessagesBetween` (`MCRepeatedCommands`): "the bot will repeat every X seconds
  so long as Y messages have passed" (`web/templates/docs.templ:231`); a job reads
  the message count before it waits for the channel, so that a message handled
  meanwhile counts for the next run as well.
- `ModerationDocs.cfg` (`MCModeration`, with `-continue` for both): `TimeoutsEnd`, "Times out
  a user" (`docs.templ:383`), and `+t user 0` bans for good; `CustomLevelsReclassify`,
  "Custom user levels reclassify users" (`docs.templ:431`), and a subscriber's or VIP's
  badge hides their place on the list of owners or moderators.

With `Reserved = {n1}` and the invariant `ReservedNamesStayFree`, `ChannelData.cfg` finds that
only adding looks at the reserved names: a clone or a rename can give one.

Observed while reading, without a property: `!statusgame -` answers "Statuses
cannot be unset." and then "Status and game updated."; a repeat's run is counted
twice in the command's count (`runRepeat` and `runCommandAndCount`); a roll that the
command cooldown refuses marks the roll cooldown all the same; `(_(_P_)_)` with an
empty parameter panics, which the handler recovers; an account that logs in while
its old token is being validated can lose the new one (`validateTokens`), which
`DeletesDeadOrReplaced` allows for, or have it overwritten by the old one while that
lives; a join that has read the blocked users before a block commits
can still activate the channel, which `BlockedStayOut` allows for; two goroutines can
serve one shard after an error on a connection that is being replaced, which
`ServesShard` exempts; only loading asks whether the bot is authorized in a channel
(`ListActiveRepeatedCommands`), neither jobs nor messages do, so that a repeat which
loading left out stays unplanned when the authorization comes, until the next
loading or a message about it, and one that is planned goes on when it is gone.

## Plan

Done: the queue with its proofs; the repeater with its proofs; repeated
commands with their proofs; the conduit with its proofs; transient state with its abstract specification and the proof
that it is implemented; the handler with
its locks, its chain and its calls to Twitch, with their proofs; commands and numbered data with their proofs;
moderation with its proofs; texts, their parsing and evaluation, with their proofs;
link patterns; logins, tokens, moderated channels with
their proofs; configuration with its proof; workers and shutdown with their proofs.

Every safety property that a run checks is proved (`EnabledIsPlanned` within `Plannable`).

## Not modelled

- Clients of other services than Twitch, pages, templates, metrics, logging and the
  command line: they keep no state of their own or only produce output. Generated
  database code and migrations: the queries are modelled where they are used.
- The values of actions in command texts, the texts of answers, the finding of
  links in a text (regular expressions), emote counting and percentages in float64.
- The rename of a channel on a new name of its broadcaster, the admin commands
  that only report, usage statistics, sessions in cookies, raffle messages.
- Failures that only end a process in the conduit's intake, and the number of
  shards of a conduit.
