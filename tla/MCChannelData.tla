--------------------------- MODULE MCChannelData ---------------------------
(* Small instances of the data of a channel for TLC.  Its parts share no rows *)
(* and a behaviour is one part's: which one is chosen at the start.           *)
EXTENDS ChannelData, TLC

CONSTANTS mod, owner, root, chA, chB, n1, n2, safe, purge
CONSTANTS q1, q2, hi, bye, v1, u1, u2
CONSTANT Parts

VARIABLE part

MCUserLevel ==
    [u \in Users |-> CASE u = mod -> AccessLevelModerator
                       [] u = owner -> AccessLevelBroadcaster
                       [] OTHER -> AccessLevelSuperAdmin]

MCTriggers == {{hi}, {hi, bye}}
MCSteps == {0 - Half, 0, 1, 3}

MCSymmetry == Permutations(Channels) \union Permutations(Names)
MCView == <<part, rowVars, numberedVars, stateVars>>

allVars == <<part, commandVars, numberedVars, stateVars>>

MCInit ==
    /\ part \in Parts
    /\ CommandsInit
    /\ NumberedInit
    /\ part # "values" => values = [v \in Variables |-> Unset]
    /\ ChannelStateInit

MCNext ==
    /\ UNCHANGED part
    /\ \/ part = "commands" /\ CommandsNext /\ UNCHANGED <<numberedVars, stateVars>>
       \/ part = "quotes" /\ QuotesNext /\ UNCHANGED <<commandVars, stateVars>>
       \/ part = "replies" /\ RepliesNext /\ UNCHANGED <<commandVars, stateVars>>
       \/ part = "values" /\ ValuesNext /\ UNCHANGED <<commandVars, stateVars>>
       \/ part = "uses" /\ UsesNext /\ UNCHANGED <<commandVars, numberedVars>>
       \/ part = "timed" /\ TimedNext /\ UNCHANGED <<commandVars, numberedVars>>
       \/ part = "raffle" /\ RaffleNext /\ UNCHANGED <<commandVars, numberedVars>>

MCSpec == MCInit /\ [][MCNext]_allVars
=============================================================================
