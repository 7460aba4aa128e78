------------------------------- MODULE Actions -------------------------------
(***************************************************************************)
(* The actions of the texts of commands (internal/bot actions and          *)
(* custom_command): which action a name stands for, and how a text that    *)
(* uses other commands is evaluated.  Names of actions are sequences of    *)
(* pieces; an evaluation sees the actions of a text, whose values are left *)
(* out.                                                                    *)
(***************************************************************************)
EXTENDS Naturals, FiniteSets, Sequences, SequencesExt

CONSTANTS
    Pieces,         \* what the names of actions are made of
    Exact, Prefix,  \* names added with addExact and addPrefix
    CommandNames,   \* custom commands, ...
    ListNames,      \* ... and lists of the channel
    Texts,          \* bound: the texts of commands, tweets and items
    Params          \* bound: the parameters of a message

(* What a text has besides plain words: an action and the name it has for     *)
(* another command or list.                                                   *)
Act == [act : STRING, arg : CommandNames \union ListNames \union {"none"}]

(* cleanCommandName leaves no "?" in a name.                                  *)
ASSUME ActionsAssumption ==
    /\ Exact \union Prefix \subseteq Seq(Pieces)
    /\ {"?tweet", "?autoreply", "none"} \intersect (CommandNames \union ListNames) = {}
    /\ CommandNames \intersect ListNames = {}
    /\ IsFiniteSet(CommandNames \union ListNames)
    /\ Texts \subseteq Seq(Act)

VARIABLES
    texts,      \* the text of a command, an item of a list, the tweet
    session,    \* what the evaluation changes: parameters and silence
    frames,     \* the texts under evaluation, the innermost last
    phase,      \* of the evaluation
    refused,    \* the commands refused, and what was under evaluation
    evaluated   \* the texts evaluated so far

evalVars == <<texts, session, frames, phase, refused, evaluated>>
-----------------------------------------------------------------------------
(* Names: the longest name that begins an action is the action's.             *)

Keys == Exact \union Prefix

findAction(action) ==
    {k \in Keys : IsPrefix(k, action) /\ \A j \in Keys : IsPrefix(j, action) => Len(j) <= Len(k)}
-----------------------------------------------------------------------------
(* Evaluating.  A text is a sequence of actions [act, arg]; a frame is a text *)
(* under evaluation, with the name it is known by and the guards of its       *)
(* context.                                                                   *)

Names == CommandNames \union ListNames \union {"?tweet"}

NoSession == [params |-> <<>>, index |-> 1, silent |-> FALSE, live |-> TRUE, autoreply |-> FALSE]

EvalInit ==
    /\ texts \in [Names -> Texts]
    /\ session \in [params : Params, index : {1}, silent : {FALSE}, live : BOOLEAN, autoreply : BOOLEAN]
    /\ frames = <<>>
    /\ phase = "start"
    /\ refused = {}
    /\ evaluated = {}

NoEval ==
    /\ texts = [n \in Names |-> <<>>]
    /\ session = NoSession
    /\ frames = <<>>
    /\ phase = "done"
    /\ refused = {}
    /\ evaluated = {}

Has(text, act) == \E k \in DOMAIN text : text[k].act = act

(* Puts a text on top of the frames fs, unless it is for when the channel is  *)
(* live and it is not.                                                        *)
processCommand(fs, name, text, guards, s) ==
    IF Has(text, "ONLINE_CHECK") /\ ~s.live
    THEN session' = s /\ frames' = fs /\ UNCHANGED evaluated
    ELSE /\ session' = [s EXCEPT !.silent = @ \/ Has(text, "SILENT")]
         /\ frames' = Append(fs, [name |-> name, guards |-> guards, todo |-> text])
         /\ evaluated' = evaluated \union {text}

(* handleCustomCommand, handleList and tryAutoreplies: an autoreply has no    *)
(* name that could be guarded.                                                *)
Start ==
    /\ phase = "start"
    /\ phase' = "run"
    /\ \E n \in Names \ {"?tweet"} :
           IF session.autoreply
           THEN processCommand(<<>>, "?autoreply", texts[n], {}, session)
           ELSE processCommand(<<>>, n, texts[n], {n}, session)
    /\ UNCHANGED <<texts, refused>>

(* A single parameter is had again and again.                                 *)
NextParameter(s) ==
    IF s.index <= Len(s.params)
    THEN [value |-> s.params[s.index], next |-> [s EXCEPT !.index = @ + 1]]
    ELSE [value |-> IF Len(s.params) = 1 THEN s.params[1] ELSE "none", next |-> s]

Evaluating == phase = "run" /\ frames # <<>> /\ Last(frames).todo # <<>>
Action == Head(Last(frames).todo)
Done(fs) == Append(Front(fs), [Last(fs) EXCEPT !.todo = Tail(@)])

isCommandGuarded(name) == name \in Last(frames).guards

withCommandGuard(name) == Last(frames).guards \union {name}

UnderEvaluation == {frames[k].name : k \in DOMAIN frames}

Plain(s) == session' = s /\ frames' = Done(frames) /\ UNCHANGED <<refused, evaluated>>

(* Opens the text of another command or list, unless that is under evaluation *)
(* or there is none of this name.                                             *)
Use(name, kind, s) ==
    IF name \notin kind THEN Plain(s)
    ELSE IF isCommandGuarded(name)
    THEN /\ refused' = refused \union {<<name, UnderEvaluation>>}
         /\ session' = s
         /\ frames' = Done(frames)
         /\ UNCHANGED evaluated
    ELSE /\ processCommand(Done(frames), name, texts[name], withCommandGuard(name), s)
         /\ UNCHANGED refused

actionCommand ==
    /\ Evaluating /\ Action.act = "COMMAND"
    /\ Use(Action.arg, CommandNames, session)
    /\ UNCHANGED <<texts, phase>>

(* The name is a parameter, and may be that of a list or of nothing.          *)
actionCommandOfParameter ==
    /\ Evaluating /\ Action.act = "COMMAND_P"
    /\ LET p == NextParameter(session)
       IN Use(p.value, CommandNames, p.next)
    /\ UNCHANGED <<texts, phase>>

actionList ==
    /\ Evaluating /\ Action.act = "LIST"
    /\ Use(Action.arg, ListNames, session)
    /\ UNCHANGED <<texts, phase>>

actionTweet ==
    /\ Evaluating /\ Action.act = "TWEET_URL"
    /\ Use("?tweet", {"?tweet"}, session)
    /\ UNCHANGED <<texts, phase>>

actionParameter ==
    /\ Evaluating /\ Action.act = "P"
    /\ Plain(NextParameter(session).next)
    /\ UNCHANGED <<texts, phase>>

(* An action whose name is a parameter.                                       *)
actionOfParameter ==
    /\ Evaluating /\ Action.act = "(_P_)"
    /\ LET p == NextParameter(session)
       IN IF p.value = "none" THEN phase' = "panic" /\ UNCHANGED <<session, frames, refused, evaluated>>
          ELSE Plain(p.next) /\ UNCHANGED phase
    /\ UNCHANGED texts

(* Any other action; one that asks an API may fail, and with it the message.  *)
otherAction ==
    /\ Evaluating /\ Action.act \notin {"COMMAND", "COMMAND_P", "LIST", "TWEET_URL", "P", "(_P_)"}
    /\ \/ Plain(session) /\ UNCHANGED phase
       \/ Action.act = "API" /\ phase' = "failed" /\ UNCHANGED <<session, frames, refused, evaluated>>
    /\ UNCHANGED texts

Return ==
    /\ phase = "run"
    /\ frames # <<>> => Last(frames).todo = <<>>
    /\ IF Len(frames) <= 1
       THEN phase' = (IF session.silent THEN "silent" ELSE "replied") /\ UNCHANGED frames
       ELSE frames' = Front(frames) /\ UNCHANGED phase
    /\ UNCHANGED <<texts, session, refused, evaluated>>

Evaluate ==
    \/ Start \/ Return
    \/ actionCommand \/ actionCommandOfParameter \/ actionList \/ actionTweet
    \/ actionParameter \/ actionOfParameter \/ otherAction

ActionsSpec == (NoEval \/ EvalInit) /\ [][Evaluate]_evalVars /\ WF_evalVars(Evaluate)

(* A name that was added is found, also when another one begins like it       *)
(* (findAction): PARAMETER_OR_ is not an index of PARAMETER_.                 *)
NamesAreFound == \A k \in Keys : findAction(k) = {k}

(* No text is evaluated within itself, whichever way one command uses another *)
(* (actionCommand, actionList, actionTweet).                                  *)
NoTextWithinItself ==
    \A j, k \in DOMAIN frames : j # k => frames[j].name # frames[k].name

(* Texts are nested no deeper than there are texts: the stack of a message    *)
(* that is handled is bounded, whatever the texts are (withCommandGuard).     *)
NestingIsBounded == Len(frames) <= Cardinality(Names) + 1

(* A command is refused only while its own text is under evaluation: the ones *)
(* after it may use it again, the guards are those of the context             *)
(* (withCommandGuard).                                                        *)
OnlyTheUsedIsRefused == \A r \in refused : r[1] \in r[2]

EvaluationOver == phase \in {"replied", "silent", "failed", "panic", "done"}

(* When a text with SILENT was evaluated there is no answer, however deep it  *)
(* was used and whatever came after it (processCommand).                      *)
SilentIsSilent == phase = "replied" => \A text \in evaluated : ~Has(text, "SILENT")

(* What is left of the text at depth k, and one more while it is there.       *)
Left(fs, k) == IF k \in DOMAIN fs THEN Len(fs[k].todo) + 1 ELSE 0

(* Every step of an evaluation leaves less: less of the innermost text it had,*)
(* and of those around it as much.  The depth is bounded, so an evaluation    *)
(* goes on for as many steps as that allows and no longer (walk).             *)
EvaluationShrinks ==
    [][phase = "run" /\ phase' = "run" =>
          \E k \in 1 .. Cardinality(Names) + 1 :
              /\ Left(frames', k) < Left(frames, k)
              /\ \A j \in 1 .. k - 1 : Left(frames', j) = Left(frames, j)]_evalVars

(* Texts use each other without end in sight only where that is refused, and  *)
(* are silent where they say so.                                              *)
ActionsInv ==
    /\ NamesAreFound
    /\ NoTextWithinItself /\ NestingIsBounded
    /\ OnlyTheUsedIsRefused /\ SilentIsSilent
=============================================================================
