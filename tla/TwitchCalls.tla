---------------------------- MODULE TwitchCalls ----------------------------
(***************************************************************************)
(* What the handlers of messages ask of Twitch with the tokens of the bot  *)
(* and of the broadcaster (internal/bot session.go, cmd_moderation.go,     *)
(* cmd_twitch.go, filters.go; internal/pkg/apiclient/twitch).  A handler   *)
(* keeps a token it has read; a call may refresh it, the new one is saved  *)
(* in the transaction of the message, and what Twitch did stays when that  *)
(* is rolled back.  One message of a room is handled at a time; the bot's  *)
(* token is everyone's.  Tokens are the first, second ... of an account,   *)
(* and an old one can be refreshed again.                                  *)
(***************************************************************************)
EXTENDS Naturals, Sequences, FiniteSets

CONSTANTS
    CallRooms,        \* channels
    OwnRoom,      \* the one whose broadcaster is the bot, if it is in CallRooms
    Bot,          \* the account of the bot
    Commands,     \* the messages, of the names in Names
    Unlocked,     \* no holder
    NotRead,      \* a token that was not looked up yet
    MaxMessages,  \* bound: messages
    MaxExpiries,  \* bound: how often tokens expire
    MaxTrouble    \* bound: calls that fail, accounts that disconnect

Names == {"+b", "-b", "+t", "-t", "+p", "mode", "clear", "color", "warn", "punish", "announce", "direct",
          "status", "game", "statusgame", "steamgame", "whatshouldiplay", "title", "uptime", "islive"}

ASSUME TwitchCallsAssumption ==
    /\ Commands \subseteq Names
    /\ {MaxMessages, MaxExpiries, MaxTrouble} \subseteq Nat
    /\ Unlocked \notin CallRooms /\ NotRead \notin Nat

TokenOwners == (CallRooms \ {OwnRoom}) \union {Bot}
Kinds == {"bot", "own"}   \* session.cache: botTok and tok
Account(r, kind) == IF kind = "bot" \/ r = OwnRoom THEN Bot ELSE r

VARIABLES
    stored,      \* twitch_tokens: the token of each account, 0 when there is none
    issued,    \* how many tokens each account was given
    fresh,     \* those that have not expired
    revoked,   \* the accounts that disconnected the bot
    rowLocks,  \* who holds the row of an account's token
    chats,     \* the channels at Twitch
    sessions,  \* the session of each room
    messages, expiries, trouble,
    kept       \* the accounts with a token refreshed and committed since the last expiry

callVars == <<stored, issued, fresh, revoked, rowLocks, chats, sessions, messages, expiries, trouble, kept>>

NoSession == [pc |-> "idle", asked |-> <<>>, todo |-> <<>>, result |-> "ok",
              cached |-> [k \in Kinds |-> NotRead], new |-> 0, wrote |-> [a \in TokenOwners |-> 0],
              said |-> {}, refreshed |-> [k \in Kinds |-> 0]]

CallsInit ==
    /\ stored \in [TokenOwners -> {0, 1}]
    /\ issued = stored
    /\ fresh = [a \in TokenOwners |-> {}]
    /\ revoked = {}
    /\ rowLocks = [a \in TokenOwners |-> Unlocked]
    /\ chats = [r \in CallRooms |-> [title |-> "old", game |-> "old", banned |-> FALSE, slow |-> FALSE,
                                 shown |-> TRUE, color |-> "old"]]
    /\ sessions = [r \in CallRooms |-> NoSession]
    /\ messages = 0 /\ expiries = 0 /\ trouble = 0
    /\ kept = {}

-----------------------------------------------------------------------------
(* The client's calls: what they change in a channel.                         *)

Ban(c) == [c EXCEPT !.banned = TRUE]
Unban(c) == [c EXCEPT !.banned = FALSE]
UpdateChatSettings(c) == [c EXCEPT !.slow = TRUE]
SetChatColor(c) == [c EXCEPT !.color = "new"]
DeleteChatMessage(c) == [c EXCEPT !.shown = FALSE]
ClearChat(c) == [c EXCEPT !.shown = FALSE]
ModifyChannel(c, parts) == [part \in DOMAIN c |-> IF part \in parts THEN "new" ELSE c[part]]

(* A request: its call, whose token it needs ("app": the client's), and what  *)
(* its handler does with an error.                                            *)
Request(call, token, onError) == [call |-> call, token |-> token, onError |-> onError, text |-> "none"]

Effect(q, c) ==
    CASE q.call = "ban" -> Ban(c)
      [] q.call = "unban" -> Unban(c)
      [] q.call = "settings" -> UpdateChatSettings(c)
      [] q.call = "color" -> SetChatColor(c)
      [] q.call = "delete" -> DeleteChatMessage(c)
      [] q.call = "clear" -> ClearChat(c)
      [] q.call = "title" -> ModifyChannel(c, {"title"})
      [] q.call = "game" -> ModifyChannel(c, {"game"})
      [] q.call = "both" -> ModifyChannel(c, {"title", "game"})
      [] OTHER -> c

(* How a call ends: "refused" is 401 or 403, "dead" a token that cannot be    *)
(* refreshed.                                                                 *)
Failures == {"refused", "server", "notfound", "other"}

-----------------------------------------------------------------------------
(* The session's requests *)

ChannelTwitchToken == <<Request("token", "own", "fail")>>   \* only reads it
SendTwitchChatMessage(text) == <<[Request("send", "bot", "fail") EXCEPT !.text = text]>>
Announce(text) == <<[Request("announce", "bot", "fail") EXCEPT !.text = text]>>
Reply(text) == SendTwitchChatMessage(text)

(* The user is the broadcaster or the one who writes, or Twitch is asked.     *)
GetUserID(onError) == {<<>>, <<Request("user", "app", onError)>>}
BanByID(onError) == <<Request("ban", "bot", onError)>>
UnbanByID(onError) == <<Request("unban", "bot", onError)>>
BanByUsername(onError) == {user \o BanByID(onError) : user \in GetUserID(onError)}
UnbanByUsername(onError) == {user \o UnbanByID(onError) : user \in GetUserID(onError)}

DeleteMessage == <<Request("delete", "bot", "gone")>>
SetBotColor == <<Request("color", "bot", "fail")>>
ClearMessages == <<Request("clear", "bot", "fail")>>
PatchChatSettings == <<Request("settings", "bot", "moderation")>>

TwitchChannel == <<Request("channel", "app", "server")>>
TwitchStream == <<Request("stream", "app", "query")>>
IsLive == TwitchStream
SteamSummary == <<Request("summary", "app", "steam")>>
SteamGames == <<Request("games", "app", "steam")>>

-----------------------------------------------------------------------------
(* The handlers: the requests of a command ...                                *)

Then(requests, text) == {q \o Reply(text) : q \in requests}

cmdModBan == Then(BanByUsername("moderation"), "done")
cmdModTimeout == Then(BanByUsername("moderation"), "done")
cmdModPurge == Then(BanByUsername("fail"), "done")
cmdModUnban == Then(UnbanByUsername("moderation"), "done")
cmdModUntimeout == Then(UnbanByUsername("moderation"), "done")
cmdChangeMode == {PatchChatSettings \o Reply("done")}
cmdModClear == {ClearMessages}
cmdAdminColor == {SetBotColor \o Reply("done")}

(* By its exact name; when there is none, among the categories like it.       *)
GetGameByName == <<Request("name", "app", "query")>>
SearchCategories == <<Request("categories", "app", "query")>>
fixGameOrSuggest == GetGameByName

Unset == Reply("unset")   \* statuses cannot be

setStatus ==
    {ChannelTwitchToken \o set : set \in {Unset, <<Request("title", "own", "channel")>> \o Reply("done")}}
setGame(games) ==
    {ChannelTwitchToken \o game \o <<Request("game", "own", "channel")>> \o Reply("done") : game \in games}
setGameAndStatus ==
    {ChannelTwitchToken \o Unset} \union
    {ChannelTwitchToken \o game \o <<Request("both", "own", "channel")>> : game \in {fixGameOrSuggest, <<>>}}

cmdStatus == setStatus
cmdGame == setGame({fixGameOrSuggest, <<>>})
cmdStatusGame == {SteamSummary \o set \o Reply("done") : set \in setGameAndStatus}   \* Unset, too
cmdSteamGame == {SteamSummary \o set : set \in setGame({fixGameOrSuggest, <<>>})}
cmdWhatShouldIPlay == {SteamGames \o Reply("done")}

cmdTitle == {TwitchChannel \o Reply("done")}
streamOrReplyNotLive == TwitchStream
cmdUptime == {streamOrReplyNotLive \o Reply("done")}
cmdIsLive ==
    {IsLive \o Reply("done"),
     <<Request("user", "app", "query")>> \o TwitchStream \o <<Request("playing", "app", "fail")>>
         \o Reply("done")}

(* A filter's warning deletes the message; the filters and the commands that  *)
(* follow answer with an announcement or directly.                            *)
filterWarns == {DeleteMessage \o Reply("done")}
filterPunishes == {BanByID("fail"), BanByID("fail") \o Reply("done")}

Asks(command) ==
    CASE command = "+b" -> cmdModBan
      [] command = "-b" -> cmdModUnban
      [] command = "+t" -> cmdModTimeout
      [] command = "-t" -> cmdModUntimeout
      [] command = "+p" -> cmdModPurge
      [] command = "mode" -> cmdChangeMode
      [] command = "clear" -> cmdModClear
      [] command = "color" -> cmdAdminColor
      [] command = "warn" -> filterWarns
      [] command = "punish" -> filterPunishes
      [] command = "announce" -> {Announce("done")}
      [] command = "direct" -> {Reply("done")}
      [] command = "status" -> cmdStatus
      [] command = "game" -> cmdGame
      [] command = "statusgame" -> cmdStatusGame
      [] command = "steamgame" -> cmdSteamGame
      [] command = "whatshouldiplay" -> cmdWhatShouldIPlay
      [] command = "title" -> cmdTitle
      [] command = "uptime" -> cmdUptime
      [] command = "islive" -> cmdIsLive

(* ... and what becomes of it when one fails: an answer, or "error", which    *)
(* rolls the message back.                                                    *)
OnModerationError(result) == IF result = "refused" THEN "unable" ELSE "error"

OnChannelError(result) ==
    CASE result \in {"refused", "dead"} -> "unable"   \* TwitchNotAuthMessage
      [] result = "server" -> "later"
      [] OTHER -> "error"

OnServerError(result) == IF result = "server" THEN "later" ELSE "error"

OnQueryError(result) ==
    CASE result = "server" -> "later"
      [] result = "notfound" -> "none"   \* no such game or user, not live
      [] OTHER -> "error"

(* A message that is gone already need not be deleted.                        *)
Ignored(q, result) == result = "notfound" /\ q.onError = "gone"

OnError(q, result) ==
    CASE q.onError = "moderation" -> OnModerationError(result)
      [] q.onError = "channel" -> OnChannelError(result)
      [] q.onError = "server" -> OnServerError(result)
      [] q.onError = "query" -> OnQueryError(result)
      [] q.onError = "steam" -> "later"   \* steamError
      [] OTHER -> "error"

-----------------------------------------------------------------------------
(* The session *)

Steps == UNCHANGED <<revoked, messages, expiries, kept>>
Set(r, s) == sessions' = [sessions EXCEPT ![r] = s]

Begin(r, command) ==
    /\ sessions[r].pc = "idle" /\ messages < MaxMessages
    /\ \E asked \in Asks(command) :
           Set(r, [NoSession EXCEPT !.pc = "ask", !.asked = asked, !.todo = asked])
    /\ messages' = messages + 1
    /\ chats' = [chats EXCEPT ![r].shown = TRUE]
    /\ UNCHANGED <<stored, issued, fresh, revoked, rowLocks, expiries, trouble, kept>>

(* A row as the transaction of r sees it.                                     *)
Row(r, a) == IF sessions[r].wrote[a] # 0 THEN sessions[r].wrote[a] ELSE stored[a]

(* ChannelTwitchToken and BotTwitchToken look the token up once.              *)
GetToken(r, kind) ==
    LET s == sessions[r]
    IN /\ s.pc = "ask" /\ s.todo # <<>>
       /\ Head(s.todo).token = kind
       /\ s.cached[kind] = NotRead
       /\ Set(r, [s EXCEPT !.cached[kind] = Row(r, Account(r, kind)),
                            !.todo = IF Head(@).call = "token" THEN Tail(@) ELSE @])
       /\ UNCHANGED <<stored, issued, fresh, rowLocks, chats, trouble>>
       /\ Steps
ChannelToken(r) == GetToken(r, "own")
BotToken(r) == GetToken(r, "bot")

Trouble == trouble < MaxTrouble /\ trouble' = trouble + 1

(* What Twitch answers, and does: after an error of the server it may have    *)
(* done it; the message that is not found is gone.                            *)
Answered(r, q, result) ==
    /\ \/ /\ result \in {"ok", "server"} \/ Ignored(q, result)
          /\ chats' = [chats EXCEPT ![r] = Effect(q, @)]
       \/ result # "ok" /\ ~Ignored(q, result) /\ UNCHANGED chats
    /\ IF result = "ok" THEN UNCHANGED trouble ELSE Trouble

(* The client's own calls.                                                    *)
CallApp(r) ==
    LET q == Head(sessions[r].todo)
    IN /\ sessions[r].pc = "ask" /\ sessions[r].todo # <<>> /\ q.token = "app"
       /\ \E result \in Failures \union {"ok"} :
             /\ Answered(r, q, result)
             /\ Set(r, [sessions[r] EXCEPT !.pc = "result", !.result = result])
       /\ UNCHANGED <<stored, issued, fresh, rowLocks>>
       /\ Steps

(* No token: "bot not authorized", or 401 without a request.                  *)
CallWithout(r) ==
    LET q == Head(sessions[r].todo)
    IN /\ sessions[r].pc = "ask" /\ sessions[r].todo # <<>> /\ q.token \in Kinds
       /\ sessions[r].cached[q.token] = 0
       /\ Set(r, [sessions[r] EXCEPT !.pc = "result", !.result = "refused"])
       /\ UNCHANGED <<stored, issued, fresh, rowLocks, chats, trouble>>
       /\ Steps

(* onNewSource: a token that has not expired is used as it is, another is     *)
(* refreshed first.                                                           *)
CallAsUser(r) ==
    LET s == sessions[r]
        q == Head(s.todo)
        a == Account(r, q.token)
    IN /\ s.pc = "ask" /\ s.todo # <<>> /\ q.token \in Kinds
       /\ s.cached[q.token] \notin {NotRead, 0}
       /\ \/ /\ s.cached[q.token] \in fresh[a]
             /\ \E result \in Failures \union {"ok"} :
                   /\ Answered(r, q, result)
                   /\ Set(r, [s EXCEPT !.pc = "result", !.result = result])
             /\ UNCHANGED <<issued, fresh>>
          \/ /\ s.cached[q.token] \notin fresh[a] /\ a \notin revoked
             /\ issued' = [issued EXCEPT ![a] = @ + 1]
             /\ fresh' = [fresh EXCEPT ![a] = @ \union {issued'[a]}]
             /\ \E result \in Failures \union {"ok"} :
                   /\ Answered(r, q, result)
                   /\ Set(r, [s EXCEPT !.pc = "save", !.result = result, !.new = issued'[a],
                                       !.refreshed[q.token] = @ + 1])
          \/ /\ s.cached[q.token] \notin fresh[a] /\ a \in revoked
             /\ Set(r, [s EXCEPT !.pc = "result", !.result = "dead"])
             /\ UNCHANGED <<issued, fresh, chats, trouble>>
       /\ UNCHANGED <<stored, rowLocks>>
       /\ Steps

(* Mutant: the session keeps using the token that it has read.                *)
SaveOnly(s, kind) == s.cached

SetCache(s, kind) == [s.cached EXCEPT ![kind] = s.new]

(* SetChannelTwitchToken and SetBotTwitchToken, also when the call failed:    *)
(* UpsertTwitchTokenPreservingMetadata waits for the row.                     *)
SaveToken(r) ==
    LET s == sessions[r]
        kind == Head(s.todo).token
        a == Account(r, kind)
    IN /\ s.pc = "save"
       /\ rowLocks[a] \in {Unlocked, r}
       /\ rowLocks' = [rowLocks EXCEPT ![a] = r]
       /\ Set(r, [s EXCEPT !.pc = "result", !.wrote[a] = s.new, !.new = 0, !.cached = SetCache(s, kind)])
       /\ UNCHANGED <<stored, issued, fresh, chats, trouble>>
       /\ Steps

Ended(r) ==
    /\ rowLocks' = [a \in TokenOwners |-> IF rowLocks[a] = r THEN Unlocked ELSE rowLocks[a]]
    /\ Set(r, NoSession)
    /\ UNCHANGED <<issued, fresh, revoked, chats, messages, expiries>>

Rollback(r) == Ended(r) /\ UNCHANGED <<stored, kept, trouble>>

SaveTimesOut(r) ==
    /\ sessions[r].pc = "save"
    /\ rowLocks[Account(r, Head(sessions[r].todo).token)] \notin {Unlocked, r}
    /\ Rollback(r)

Go(r) ==
    LET s == sessions[r]
        q == Head(s.todo)
        answer == OnError(q, s.result)
        searchGame == q.call = "name" /\ s.result = "notfound"
    IN /\ s.pc = "result"
       /\ \/ /\ s.result = "ok" \/ Ignored(q, s.result)
             /\ Set(r, [s EXCEPT !.pc = "ask", !.todo = Tail(@), !.result = "ok",
                                 !.said = IF q.text = "none" THEN @ ELSE @ \union {q.text}])
             /\ UNCHANGED <<stored, issued, fresh, rowLocks, chats, trouble>>
             /\ Steps
          \/ /\ searchGame
             /\ Set(r, [s EXCEPT !.pc = "ask", !.todo = SearchCategories \o Tail(@), !.result = "ok"])
             /\ UNCHANGED <<stored, issued, fresh, rowLocks, chats, trouble>>
             /\ Steps
          \/ /\ s.result # "ok" /\ ~Ignored(q, s.result) /\ ~searchGame /\ answer # "error"
             /\ Set(r, [s EXCEPT !.pc = "ask", !.todo = Reply(answer), !.result = "ok"])
             /\ UNCHANGED <<stored, issued, fresh, rowLocks, chats, trouble>>
             /\ Steps
          \/ /\ s.result # "ok" /\ ~Ignored(q, s.result) /\ answer = "error"
             /\ Rollback(r)

CommitMessage(r) ==
    LET s == sessions[r]
    IN /\ s.pc = "ask" /\ s.todo = <<>>
       /\ stored' = [a \in TokenOwners |-> Row(r, a)]
       /\ kept' = kept \union {a \in TokenOwners : s.wrote[a] \in fresh[a]}
       /\ Ended(r)
       /\ UNCHANGED trouble

(* Tokens last for hours: none expires while a session that was given one    *)
(* still runs.                                                                *)
ExpireTokens(a) ==
    /\ fresh[a] # {} /\ expiries < MaxExpiries
    /\ \A r \in CallRooms, kind \in Kinds : Account(r, kind) = a => sessions[r].refreshed[kind] = 0
    /\ fresh' = [fresh EXCEPT ![a] = {}]
    /\ kept' = kept \ {a}
    /\ expiries' = expiries + 1
    /\ UNCHANGED <<stored, issued, revoked, rowLocks, chats, sessions, messages, trouble>>

RevokeTokens(a) ==
    /\ a \notin revoked
    /\ revoked' = revoked \union {a}
    /\ Trouble
    /\ UNCHANGED <<stored, issued, fresh, rowLocks, chats, sessions, messages, expiries, kept>>

CallsNext ==
    \/ \E r \in CallRooms :
          \/ \E command \in Commands : Begin(r, command)
          \/ ChannelToken(r) \/ BotToken(r)
          \/ CallApp(r) \/ CallWithout(r) \/ CallAsUser(r)
          \/ SaveToken(r) \/ SaveTimesOut(r) \/ Go(r) \/ CommitMessage(r)
    \/ \E a \in TokenOwners : ExpireTokens(a) \/ RevokeTokens(a)

CallsSpec == CallsInit /\ [][CallsNext]_callVars
-----------------------------------------------------------------------------
CallsTypeOK ==
    /\ \A a \in TokenOwners : stored[a] <= issued[a] /\ fresh[a] \subseteq 1 .. issued[a]
    /\ \A a \in TokenOwners, r \in CallRooms : sessions[r].wrote[a] # 0 => rowLocks[a] = r

(* What a session answers is so: when it says that something was done, doing  *)
(* it again would change nothing.  !statusgame - says that statuses cannot be *)
(* unset and then that the status was updated (cmd_steam.go:40).              *)
AnswersAreTrue ==
    \A r \in CallRooms :
        LET s == sessions[r]
        IN "done" \in s.said /\ "unset" \notin s.said =>
               \A k \in DOMAIN s.asked : Effect(s.asked[k], chats[r]) = chats[r]

(* A session that was given a new token goes on with it and does not refresh  *)
(* the old one once more (session.go:351).                                    *)
RefreshedOnce == \A r \in CallRooms, kind \in Kinds : sessions[r].refreshed[kind] <= 1

(* A refreshed token that a message committed is in the table until it        *)
(* expires, whichever rooms refreshed it at the same time.                    *)
RefreshIsKept == \A a \in kept : stored[a] \in fresh[a]

CallsInv == CallsTypeOK /\ AnswersAreTrue /\ RefreshedOnce /\ RefreshIsKept
=============================================================================
