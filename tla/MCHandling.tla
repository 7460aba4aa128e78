------------------------------ MODULE MCHandling ------------------------------
(* Small instances for TLC of what happens while a message is handled: two    *)
(* messages at the same time, the handlers one after another that a message  *)
(* is offered to, a text that is parsed or evaluated, and a link and a        *)
(* pattern.  These parts share no state, a behaviour is one part's.           *)
EXTENDS Messages, Answering, LinkMatch

CONSTANTS p1, p2, r1, r2, b1, b2, c1, c2, l1

VARIABLE part

(* Two messages of any kind for one bot, or to one and the other.  The first  *)
(* is about channel r1, which may be in any state; most of the others are,    *)
(* too.  Only joins and blocks meet someone who is blocked.                   *)
MCStarts ==
    {f \in [Procs -> {m \in Message : m.bot = b1 /\ m.to \in {None, b2}}
                     \union {m \in Message : m.bot = b2 /\ m.kind \in {"join", "talk"}}] :
        /\ r1 \in {f[p1].room, f[p1].target}
        /\ f[p1].kind \in AdminKinds => f[p1].room = r2 /\ f[p2].kind \notin BotKinds
        /\ f[p2].kind \in AdminKinds => f[p2].room # r2
        /\ f[p2].kind \in AdminKinds \union {"leave"} => r1 \in {f[p2].room, f[p2].target}
        /\ f[p2].kind \in BotKinds => f[p2].target = r1
        /\ (\E p \in Procs : f[p].kind = "unblock") =>
               \A p \in Procs : f[p].kind \in {"join", "block", "unblock"}}

Old(active, b) == [active |-> active, bot |-> b, id |-> None]

MessagesInit ==
    /\ Init
    /\ rows[r1] \in {NoRow, Old(TRUE, b1), Old(FALSE, b1), Old(TRUE, b2)}
    /\ rows[r2] = Old(TRUE, b1)
    /\ blocked \in {{}, {r1}}
    /\ r1 \in blocked =>
           /\ rows[r1] \in {NoRow, Old(FALSE, b1)}
           /\ \A p \in Procs : msg[p].kind \in {"join", "block", "unblock"}

NoMessages ==
    /\ rows = [r \in Rooms |-> NoRow]
    /\ blocked = {}
    /\ missed = [r \in Rooms |-> {}]
    /\ msg = CHOOSE f \in Starts : TRUE
    /\ pc = [p \in Procs |-> "done"]
    /\ room = [p \in Procs |-> msg[p].room]
    /\ write = NoWrite
    /\ found = [p \in Procs |-> None]
    /\ asks = [p \in Procs |-> FALSE]
    /\ uses = [p \in Procs |-> <<>>]
    /\ locks = [l \in Locks |-> None]

MCPieces == {"P", "_", "CAPS", "OR", "GAME", "CLEAN", "MESSAGE", "COUNT", "COMMAND"}
MCExact  == {<<"P">>, <<"P", "_", "CAPS">>, <<"GAME">>, <<"GAME", "_", "CLEAN">>, <<"MESSAGE", "_", "COUNT">>}
MCPrefix == {<<"P", "_">>, <<"P", "_", "OR", "_">>, <<"COMMAND", "_">>}

A(act) == [act |-> act, arg |-> "none"]
Command(n) == [act |-> "COMMAND", arg |-> n]

MCTexts ==
    {<<A("text"), A("SILENT")>>, <<Command(c2), A("P"), A("API")>>, <<A("COMMAND_P"), Command(c1)>>,
     <<[act |-> "LIST", arg |-> l1], A("(_P_)")>>, <<A("TWEET_URL"), A("ONLINE_CHECK")>>}
MCParams == {<<c1>>, <<c2, c1>>}

-----------------------------------------------------------------------------
(* Room r1 has the prefix "!", room r2 the "+" of the moderation commands.    *)
MCChannelPrefix(r) == IF r = r2 THEN "+" ELSE "!"
MCShouldModerate(r) == TRUE
MCMode(r) == IF r = r2 THEN AccessLevelSubscriber ELSE AccessLevelEveryone

MCWords == {"b", "game", "roll", "urban", "ht", "admin", "whatprefix", "w"}
MCBuiltins ==
    [b \in {"game", "roll", "urban", "ht", "admin"} |->
        [minLevel |-> IF b = "admin" THEN AccessLevelAdmin
                      ELSE IF b = "urban" THEN AccessLevelSubscriber ELSE AccessLevelEveryone,
         cooldown |-> IF b \in {"game", "admin"} THEN "run" ELSE IF b = "ht" THEN "none" ELSE "own"]]

Custom(level) == [list |-> FALSE, empty |-> FALSE, level |-> level]
List(empty, level) == [list |-> TRUE, empty |-> empty, level |-> level]

(* A command "game" that hides the builtin from all but moderators, one with  *)
(* the name of a moderation command, lists, one of them empty, and a command  *)
(* that a rename called "builtin".                                            *)
MCDefinitions ==
    {[r \in {r1, r2} |-> [w \in MCWords \union {"builtin"} |->
        IF hides /\ w = "game" THEN Custom(AccessLevelModerator)
        ELSE IF hides /\ w = "builtin" THEN Custom(AccessLevelSubscriber)
        ELSE IF w = "b" THEN Custom(AccessLevelEveryone)
        ELSE IF w = "w" THEN List(r = r1, AccessLevelSubscriber)
        ELSE NoEntry]] : hides \in BOOLEAN}

Says(mark, other, builtin, word, arg) ==
    {[mark |-> mark, other |-> other, builtin |-> builtin, word |-> word, arg |-> arg, video |-> v, matches |-> TRUE] :
        v \in {FALSE, word = "urban"}}

MCLines ==
    UNION ({Says(mark, NoName, FALSE, w, "none") : mark \in {"!", "+"}, w \in MCWords}
           \union {Says("!", NoName, TRUE, "game", "none"), Says("!", NoName, FALSE, "w", "add"),
                   Says("!", NoName, FALSE, "admin", "imp"), Says("!", Nowhere, FALSE, "b", "none"),
                   Says("!", r2, FALSE, "w", "none"), Says("!", r2, FALSE, "w", "add"), Says("!", r2, FALSE, "ht", "none")})
    \union {[mark |-> "none", other |-> NoName, builtin |-> FALSE, word |-> "b", arg |-> "none",
             video |-> v, matches |-> TRUE] : v \in BOOLEAN}

MCImpLines == {l \in MCLines : l.mark = "+" /\ l.word \in {"b", "game", "ht"}}

MCChats ==
    {m \in [level : AccessLevels \ {AccessLevelUnknown, AccessLevelVIP}, room : {r1, r2}, action : BOOLEAN,
            ignored : BOOLEAN, offends : BOOLEAN, line : MCLines] :
        /\ m.level = AccessLevelAdmin => m.line.word \in {"admin", "whatprefix"}
        /\ m.action \/ m.ignored \/ m.offends => m.line.word = "b" /\ m.line.matches /\ m.line.mark # "!"
        /\ m.room = r2 => m.line.mark = "+" /\ m.line.word \in {"b", "w", "urban", "whatprefix"}
        /\ m.line.mark = "+" => m.room = r2 \/ m.line.word \in {"b", "whatprefix"}}

NoDispatch == defined = (CHOOSE d \in Definitions : TRUE) /\ NothingSaid
-----------------------------------------------------------------------------
NoText == Parses(<<>>)
NoLink == pattern = [host |-> <<>>, path |-> <<>>] /\ url = pattern

MCInit ==
    \/ part = "messages" /\ MessagesInit /\ NoDispatch /\ NoEval /\ NoText /\ NoLink
    \/ part = "dispatch" /\ NoMessages /\ DispatchInit /\ NoEval /\ NoText /\ NoLink
    \/ part = "actions" /\ NoMessages /\ NoDispatch /\ EvalInit /\ NoText /\ NoLink
    \/ part = "texts" /\ NoMessages /\ NoDispatch /\ NoEval /\ TemplatesInit /\ NoLink
    \/ part = "links" /\ NoMessages /\ NoDispatch /\ NoEval /\ NoText /\ MatchInit

MCNext ==
    /\ UNCHANGED part
    /\ \/ part = "messages" /\ Next /\ UNCHANGED <<dispatchVars, evalVars, templateVars, matchVars>>
       \/ part = "dispatch" /\ DispatchNext /\ UNCHANGED <<vars, evalVars, templateVars, matchVars>>
       \/ part = "actions" /\ Evaluate /\ UNCHANGED <<vars, dispatchVars, templateVars, matchVars>>
       \/ part = "texts" /\ Parse /\ UNCHANGED <<vars, dispatchVars, evalVars, matchVars>>
       \/ part = "links" /\ MatchNext /\ UNCHANGED <<vars, dispatchVars, evalVars, templateVars>>

MCSpec ==
    /\ MCInit
    /\ [][MCNext]_<<part, vars, dispatchVars, evalVars, templateVars, matchVars>>
    /\ \A p \in Procs :
           WF_vars(part = "messages" /\ Handle(p)) /\ WF_vars(part = "messages" /\ LockFails(p))
    /\ WF_evalVars(part = "actions" /\ Evaluate)
    /\ WF_templateVars(part = "texts" /\ Parse)

(* Whatever waits, fails or uses itself: a message that has begun ends, also  *)
(* when an admin impersonates a channel that is busy (SetLocalLockTimeout),   *)
(* and so do the parsing of a text (Parse) and its evaluation                 *)
(* (withCommandGuard).                                                        *)
HandlingEnds == <>(AllEnded /\ EvaluationOver /\ Parsed)
=============================================================================
