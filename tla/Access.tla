------------------------------- MODULE Access -------------------------------
(***************************************************************************)
(* Access levels (internal/bot/access_level.go).  A level of a user is a   *)
(* number; a row of the database can hold the names of DBLevels only, and  *)
(* a name the code does not know reads as no level at all.                 *)
(***************************************************************************)
EXTENDS Naturals

AccessLevelUnknown     == 0
AccessLevelEveryone    == 1
AccessLevelSubscriber  == 2
AccessLevelVIP         == 3
AccessLevelModerator   == 4
AccessLevelBroadcaster == 5
AccessLevelAdmin       == 6
AccessLevelSuperAdmin  == 7

AccessLevels == AccessLevelUnknown .. AccessLevelSuperAdmin
DBLevels     == AccessLevelEveryone .. AccessLevelAdmin

Valid(a) == a >= AccessLevelEveryone /\ a <= AccessLevelSuperAdmin

CanAccess(a, resource) ==
    \/ a = AccessLevelSuperAdmin
    \/ Valid(a) /\ Valid(resource) /\ a >= resource

(* The level a name in the database stands for: one the code does not know    *)
(* is nobody's.                                                               *)
newAccessLevel(s) == IF s \in DBLevels THEN s ELSE AccessLevelUnknown

CanAccessPG(a, s) == CanAccess(a, newAccessLevel(s))

(* handlerMap.run: a subcommand and the level it asks for.                    *)
Authorized(a, minLevel) == CanAccess(a, minLevel)
=============================================================================
