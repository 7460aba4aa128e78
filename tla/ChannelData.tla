----------------------------- MODULE ChannelData -----------------------------
(***************************************************************************)
(* The data of a channel: its commands and lists (Commands), its numbered  *)
(* rows and variables (Numbered) and its transient state (ChannelState).   *)
(* They share no rows, a step of one leaves the others alone or is a step  *)
(* of theirs, too.                                                         *)
(***************************************************************************)
EXTENDS Commands, Numbered, ChannelState

ChannelDataSpec == CommandsSpec /\ NumberedSpec /\ ChannelStateSpec

(* Two uses within a cooldown do not happen, of commands and of autoreplies,  *)
(* and no message makes a gap in the numbers of quotes.                       *)
StepsAreSmall == UsesApart /\ RepliesApart /\ NumbersGrowByOne
=============================================================================
