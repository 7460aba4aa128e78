------------------------------ MODULE Dispatch ------------------------------
(***************************************************************************)
(* Which handler answers a message (internal/bot handle.go, handlers.go).  *)
(* A message is offered in turn to the filters, the moderation commands,   *)
(* the commands and lists of the channel, the builtins, the titles of      *)
(* videos and the autoreplies; a command that is refused leaves the rest   *)
(* of the chain to try.  The lock of the room orders its messages, and an  *)
(* admin can write into another room (!admin imp).                         *)
(***************************************************************************)
EXTENDS Access, Sequences, FiniteSets

CONSTANTS
    ChatRooms,        \* rooms of active channels
    Nowhere,          \* a name no channel has
    Words,            \* names of commands and lists
    NoEntry,          \* nothing of that name
    Definitions,      \* bound: what the channels define, [ChatRooms -> [Callable -> Entry]]
    Builtins,         \* builtinCommands: [minLevel, cooldown] by name
    ModerationWords,  \* moderationCommands, without the + or -
    Disabled,         \* builtins that are not set up here
    ChannelPrefix(_),        \* channels.prefix: "!" or "+"
    ShouldModerate(_),
    Mode(_),          \* channels.mode
    RollLevel,        \* channels.roll_level
    Chats,            \* bound: the messages of users
    Lines,            \* bound: what an admin writes into a room
    MaxChats          \* bound: the messages of a behaviour

NoName == "none"

(* A message as the chain sees it: the character it begins with, the channel  *)
(* it names (#channel/), whether it says "builtin" first, the name and what   *)
(* follows; whether it has a link to a video, and matches an autoreply.       *)
Line == [mark : {"!", "+", "none"}, other : ChatRooms \union {Nowhere, NoName}, builtin : BOOLEAN,
         word : Words, arg : {"none", "add", "imp"}, video : BOOLEAN, matches : BOOLEAN]

Chat == [level : AccessLevels, room : ChatRooms, action : BOOLEAN, ignored : BOOLEAN, offends : BOOLEAN, line : Line]

(* A clone or a rename gives a command the reserved name "builtin" as well.    *)
Callable == Words \union {"builtin"}

Entry == [list : BOOLEAN, empty : BOOLEAN, level : DBLevels] \union {NoEntry}

Rolls == {"roll"} \intersect DOMAIN Builtins
Admins == {"admin"} \intersect DOMAIN Builtins

ASSUME DispatchAssumption ==
    /\ Chats \subseteq Chat /\ Chats # {} /\ MaxChats \in Nat /\ Lines \subseteq Line
    /\ Definitions \subseteq [ChatRooms -> [Callable -> Entry]]
    /\ DOMAIN Builtins \subseteq Words
    /\ \A b \in DOMAIN Builtins : Builtins[b] \in [minLevel : AccessLevels, cooldown : {"run", "own", "none"}]

Cools == {"command_cooldown", "roll_cooldown", "autoreply"}

VARIABLES
    defined,  \* what the channels define
    chat,     \* the message
    line,     \* session.Message
    at,       \* session.RoomID
    imp,      \* session.Imp
    step,     \* the next of the chain
    running,  \* the cooldowns that are not over, with their rooms
    heard,    \* rooms in which the message is counted
    turnedDown, \* a command said that it is not to be used
    answers,  \* handlers that ran for the message: who, and in which room
    answered, \* rooms whose last answer is younger than the command cooldown
    chats     \* messages so far

dispatchVars == <<defined, chat, line, at, imp, step, running, heard, turnedDown, answers, answered, chats>>

AnyChat == CHOOSE m \in Chats : TRUE

NothingSaid ==
    /\ chat = AnyChat /\ line = AnyChat.line /\ at = AnyChat.room /\ imp = FALSE
    /\ step = "idle"
    /\ heard = {} /\ turnedDown = FALSE /\ answers = <<>>
    /\ running = {} /\ answered = {} /\ chats = 0

DispatchInit == defined \in Definitions /\ NothingSaid

Can(level) == CanAccess(chat.level, level)
CanPG(level) == CanAccessPG(chat.level, level)

GoTo(s) == step' = s
Unheard == UNCHANGED <<defined, chat, line, at, imp, heard, chats>>
Nothing == UNCHANGED <<running, turnedDown, answers, answered>>

(* A handler runs; the cooldowns it marks.  An answer is early when it goes   *)
(* to somebody who is not exempt and the cooldown of the last is not over.    *)
Paced(by) ==
    \/ by \in {"custom", "list"}
    \/ by = "builtin" /\ Builtins[line.word].cooldown # "none"

Answers(by, marks) ==
    /\ answers' = Append(answers, [by |-> by, room |-> at,
                                   early |-> Paced(by) /\ at \in answered /\ ~Can(AccessLevelModerator)])
    /\ answered' = IF Paced(by) THEN answered \union {at} ELSE answered
    /\ running' = running \union marks
    /\ GoTo("end")
    /\ UNCHANGED turnedDown

(* Mutant: a command that is refused is the end of the message.               *)
RefuseEnds(marks) ==
    /\ turnedDown' = TRUE
    /\ running' = running \union marks
    /\ GoTo("end")
    /\ UNCHANGED <<answers, answered>>

(* errNotAuthorized, errBuiltinDisabled, errInCooldown: what was marked stays.*)
Refuse(marks) ==
    /\ turnedDown' = TRUE
    /\ running' = running \union marks
    /\ GoTo("video")
    /\ UNCHANGED <<answers, answered>>

CommandMark == {<<"command_cooldown", at>>}
RollMark    == {<<"roll_cooldown", at>>}
InCooldown(mark) == mark \subseteq running /\ ~Can(AccessLevelModerator)

(* TryCooldown, and then the handler.                                         *)
AnswerCooled(by) ==
    IF InCooldown(CommandMark) THEN Refuse({}) ELSE Answers(by, CommandMark)
-----------------------------------------------------------------------------
buildSession(m) ==
    /\ step = "idle"
    /\ chats < MaxChats
    /\ chats' = chats + 1
    /\ chat' = m /\ line' = m.line /\ at' = m.room /\ imp' = FALSE
    /\ GoTo("filter")
    /\ Nothing /\ UNCHANGED <<defined, heard>>

(* A filter punishes the user of the message; nobody else sees it.            *)
tryFilter ==
    /\ step = "filter"
    /\ GoTo(IF ShouldModerate(at) /\ chat.offends /\ ~Can(AccessLevelModerator) THEN "end" ELSE "mode")
    /\ Nothing /\ Unheard

Ignored == chat.ignored /\ ~Can(AccessLevelBroadcaster)

UpdateChannelActivity ==
    /\ step = "mode"
    /\ IF Ignored \/ ~CanPG(Mode(at))
       THEN GoTo("end") /\ UNCHANGED heard
       ELSE GoTo(IF chat.action THEN "video" ELSE "moderation") /\ heard' = heard \union {at}
    /\ Nothing /\ UNCHANGED <<defined, chat, line, at, imp, chats>>

(* A line without a name of a channel or "builtin" in front of the word.      *)
Bare == line.other = NoName /\ ~line.builtin

moderationCommands ==
    /\ step = "moderation"
    /\ IF /\ ShouldModerate(at)
          /\ line.mark = "+" /\ Bare /\ line.word \in ModerationWords
          /\ Can(AccessLevelModerator)
       THEN Answers("moderation", {})
       ELSE GoTo("prefix") /\ Nothing
    /\ Unheard

(* What a line asks for: the command "builtin" as long as there is one.        *)
Foreign == line.other # NoName /\ Can(AccessLevelBroadcaster)
Room == IF Foreign THEN line.other ELSE at
Called == IF line.builtin THEN "builtin" ELSE line.word
Found == IF line.other # NoName /\ ~Foreign THEN NoEntry ELSE defined[Room][Called]

tryCommand ==
    /\ step = "prefix"
    /\ IF line.mark = "+" /\ Bare /\ line.word = "whatprefix" /\ Can(AccessLevelAdmin) THEN Answers("whatprefix", {})
       ELSE IF line.mark # ChannelPrefix(at) THEN GoTo("video") /\ Nothing
       ELSE IF Foreign /\ line.other = Nowhere THEN Answers("nowhere", {})
       ELSE IF Found = NoEntry THEN GoTo("builtin") /\ Nothing
       ELSE IF ~CanPG(Found.level) THEN Refuse({})
       ELSE GoTo(IF Found.list THEN "list" ELSE "custom") /\ Nothing
    /\ Unheard

handleCustomCommand ==
    /\ step = "custom"
    /\ AnswerCooled("custom")
    /\ Unheard

(* A random item of an empty list is no answer, but marks the cooldown.  For a *)
(* list called "builtin" the word of the line is neither.                     *)
Adds == line.arg = "add" /\ ~line.builtin
AsksForAny == line.arg = "none" /\ ~line.builtin

handleList ==
    /\ step = "list"
    /\ IF Adds /\ ~Can(AccessLevelModerator) THEN Refuse({})
       ELSE IF Adds /\ Foreign THEN Answers("crosschannel", {})
       ELSE IF AsksForAny /\ Found.empty /\ ~InCooldown(CommandMark)
            THEN /\ GoTo("video")
                 /\ running' = running \union CommandMark
                 /\ UNCHANGED <<turnedDown, answers, answered>>
       ELSE AnswerCooled("list")
    /\ Unheard

(* "#channel/name" without the level for it is the name of no builtin.        *)
IsBuiltin == line.word \in DOMAIN Builtins /\ (line.other = NoName \/ Foreign)

(* !roll tries the cooldown of rolls first, which stays marked when the one   *)
(* of commands refuses.                                                       *)
cmdRandom ==
    IF ~CanPG(RollLevel) \/ InCooldown(RollMark) THEN Refuse({})
    ELSE IF InCooldown(CommandMark) THEN Refuse(RollMark)
    ELSE Answers("builtin", RollMark \union CommandMark)

(* The other builtins try the cooldown before they run, or on their own when  *)
(* they are set up here.                                                      *)
IfEnabled == IF line.word \in Disabled THEN Refuse({}) ELSE AnswerCooled("builtin")

(* The message goes on in another channel, as a line of its own; its answer   *)
(* is still sent to the chat of the admin.                                    *)
Impersonate(r, l) ==
    /\ at' = r /\ line' = l /\ imp' = TRUE
    /\ running' = running \union CommandMark
    /\ GoTo("filter")
    /\ UNCHANGED <<defined, chat, heard, chats, turnedDown, answers, answered>>

Imps == line.word \in Admins /\ line.arg = "imp"

tryBuiltinCommand ==
    /\ step = "builtin"
    /\ LET b == Builtins[line.word]
       IN  IF ~IsBuiltin THEN GoTo("video") /\ Nothing /\ Unheard
           ELSE IF ~Can(b.minLevel) THEN Refuse({}) /\ Unheard
           ELSE IF b.cooldown = "run" /\ InCooldown(CommandMark) THEN Refuse({}) /\ Unheard
           ELSE IF Imps /\ chat.level # AccessLevelSuperAdmin THEN Refuse(CommandMark) /\ Unheard
           ELSE IF Imps THEN \E r \in ChatRooms, l \in Lines : Impersonate(r, l)
           ELSE /\ IF line.word \in Rolls THEN cmdRandom
                   ELSE IF b.cooldown = "none" THEN Answers("builtin", {})
                   ELSE IfEnabled
                /\ Unheard

VideoTitle ==
    /\ step = "video"
    /\ IF line.video THEN Answers("video", {}) ELSE GoTo("autoreply") /\ Nothing
    /\ Unheard

tryAutoreplies ==
    /\ step = "autoreply"
    /\ IF line.matches /\ <<"autoreply", at>> \notin running
       THEN Answers("autoreply", {<<"autoreply", at>>})
       ELSE GoTo("end") /\ Nothing
    /\ Unheard

(* putSession: nothing of a message is left for the next.                     *)
Handled ==
    /\ step = "end"
    /\ GoTo("idle")
    /\ chat' = AnyChat /\ line' = AnyChat.line /\ at' = AnyChat.room /\ imp' = FALSE
    /\ heard' = {} /\ turnedDown' = FALSE /\ answers' = <<>>
    /\ UNCHANGED <<defined, running, answered, chats>>

(* Time passes between messages.                                              *)
Expire(mark) ==
    /\ step = "idle" /\ mark \in running
    /\ running' = running \ {mark}
    /\ answered' = IF mark[1] = "command_cooldown" THEN answered \ {mark[2]} ELSE answered
    /\ UNCHANGED <<step, turnedDown, answers>> /\ Unheard

DispatchNext ==
    \/ \E m \in Chats : buildSession(m)
    \/ tryFilter \/ UpdateChannelActivity \/ moderationCommands \/ tryCommand
    \/ handleCustomCommand \/ handleList \/ tryBuiltinCommand
    \/ VideoTitle \/ tryAutoreplies \/ Handled
    \/ \E mark \in Cools \X ChatRooms : Expire(mark)

DispatchSpec == DispatchInit /\ [][DispatchNext]_dispatchVars
-----------------------------------------------------------------------------
Steps == {"idle", "filter", "mode", "moderation", "prefix", "custom", "list", "builtin", "video", "autoreply", "end"}
Handlers == {"moderation", "whatprefix", "nowhere", "custom", "list", "crosschannel", "builtin", "video", "autoreply"}

DispatchTypeOK ==
    /\ defined \in Definitions
    /\ chat \in Chats /\ line \in Line /\ at \in ChatRooms /\ imp \in BOOLEAN
    /\ step \in Steps
    /\ running \subseteq Cools \X ChatRooms
    /\ heard \subseteq ChatRooms /\ turnedDown \in BOOLEAN
    /\ answers \in Seq([by : Handlers, room : ChatRooms, early : BOOLEAN])
    /\ answered \subseteq ChatRooms /\ chats \in 0 .. MaxChats

(* At most one handler answers a message, whichever prefix its room has and   *)
(* whatever it is refused on the way, and as a message of one channel although*)
(* an admin's passes through two.                                             *)
AnsweredOnce == Len(answers) <= 1 /\ \A i \in DOMAIN answers : answers[i].room = at

(* Whoever is not a moderator waits for the cooldown of the last answer, on   *)
(* each of the ways to one: commands, lists, of another channel as well,      *)
(* builtins, and those that try the cooldown by themselves.                   *)
AnswersApart == \A i \in DOMAIN answers : ~answers[i].early

(* A command of the channel hides the builtin of its name, for everybody who  *)
(* does not say "builtin", also when its level or cooldown refuses them.      *)
BuiltinsHidden ==
    \A i \in DOMAIN answers :
        answers[i].by = "builtin" => line.builtin \/ line.other # NoName \/ defined[at][line.word] = NoEntry

(* A handler that answers is open to the user, by the channel's mode and its  *)
(* own level, and the message counts in the room of its answer.               *)
AnswersEntitled ==
    \A i \in DOMAIN answers :
        /\ at \in heard /\ CanPG(Mode(at)) /\ ~Ignored
        /\ answers[i].by \in {"custom", "list"} => CanPG(Found.level)
        /\ answers[i].by = "builtin" => Can(Builtins[line.word].minLevel)
        /\ answers[i].by = "builtin" /\ line.word \in Rolls => CanPG(RollLevel)
        /\ answers[i].by = "moderation" => Can(AccessLevelModerator)

(* A command that is refused says nothing: the message still gets the title   *)
(* of its video, or an autoreply that is not in its own cooldown.             *)
RefusedGoesOn ==
    step = "end" /\ turnedDown /\ answers = <<>> =>
        ~line.video /\ (line.matches => <<"autoreply", at>> \in running)

(* One handler answers, that its user may use, not too soon, and a refusal    *)
(* hides nothing but the command.                                             *)
DispatchInv ==
    DispatchTypeOK /\ AnsweredOnce /\ AnswersApart /\ BuiltinsHidden /\ AnswersEntitled /\ RefusedGoesOn
=============================================================================
