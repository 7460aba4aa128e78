---------------------------- MODULE MCModeration ----------------------------
(* A channel with its broadcaster, a subscriber and a viewer for TLC; and a   *)
(* channel that is exported and imported.  The two share no state and a       *)
(* behaviour is of one or the other.                                          *)
EXTENDS Moderation, ConfigImport, TLC

CONSTANTS owner, sub, viewer, pat, site, other, word

VARIABLE part

MCBadge == [u \in Users |-> CASE u = owner -> AccessLevelBroadcaster
                              [] u = sub -> AccessLevelSubscriber
                              [] OTHER -> AccessLevelUnknown]

MCPermits == pat :> {site}

Plain == [me |-> FALSE, length |-> 2, spaces |-> 0, links |-> {}, emotes |-> 0,
          upper |-> 0, symbols |-> 0, says |-> {}]

MCMessages ==
    {Plain,
     [Plain EXCEPT !.me = TRUE, !.emotes = 1],
     [Plain EXCEPT !.links = {site}],
     [Plain EXCEPT !.links = {site, other}, !.upper = 2],
     [Plain EXCEPT !.symbols = 1, !.says = {word}, !.spaces = 1]}

(* As a channel begins, or with every filter on.                              *)
Everything ==
    [InsertDefaultChannel EXCEPT
        !.flags = [f \in FlagNames |-> f # "displayWarnings"],
        !.numbers = [n \in NumberNames |-> IF n = "filterMaxLength" THEN 3 ELSE 1],
        !.phrases = <<word>>]

MCInit ==
    \/ Init
    \/ /\ channel = Everything
       /\ warned = [u \in Users |-> [f \in FilterNames |-> 0]]
       /\ permits = [u \in Users |-> 0]
       /\ banned = {}
       /\ punished = [u \in Users |-> {}]
       /\ last = NothingYet
       /\ changes = 1

MCSpec ==
    /\ \/ part = "moderation" /\ MCInit
       \/ part = "configuration" /\ Init
    /\ ConfigInit
    /\ [][/\ UNCHANGED part
          /\ \/ part = "moderation" /\ Next /\ UNCHANGED configVars
             \/ part = "configuration" /\ ConfigNext /\ UNCHANGED vars]_<<part, vars, configVars>>

MCView == <<part, channel, warned, permits, banned, punished, changes, configVars>>
=============================================================================
