------------------------------ MODULE Commands ------------------------------
(***************************************************************************)
(* The custom commands and lists of the channels (internal/bot cmd_command *)
(* and cmd_list, internal/db/dbsql commands).  Both live in one namespace, *)
(* the rows of command_infos; the text of a command is a row of            *)
(* custom_commands, the items of a list a row of command_lists.  A message *)
(* is one transaction under the lock of its channel, so that a handler is  *)
(* one action.  A handler that returns early changes nothing and is a      *)
(* stuttering step.  The constraints of the tables are not guards here:    *)
(* they are invariants, so that no statement ever runs into one.           *)
(***************************************************************************)
EXTENDS Access, FiniteSets, Sequences

CONSTANTS
    Channels,
    Names,      \* names of commands and lists, as cleanCommandName leaves them
    Reserved,   \* reservedCommandNames
    Texts,      \* texts of commands
    Entries,    \* items of lists
    Dangerous,  \* texts with an action that moderates or that sets a variable
    Users,      \* who writes, ...
    UserLevel,  \* ... with which level
    Levels,     \* bound: the levels that messages name
    RowIds,     \* bound: rows of a table at a time
    MaxItems,   \* bound: items of a list
    MaxCount,   \* bound: uses of the commands there are
    MaxRuns,    \* bound: rows of repeated_commands and scheduled_commands
    NoRow

ASSUME CommandsAssumption ==
    /\ Reserved \subseteq Names
    /\ Dangerous \subseteq Texts
    /\ UserLevel \in [Users -> AccessLevels]
    /\ Levels \subseteq DBLevels
    /\ RowIds \subseteq Nat /\ IsFiniteSet(RowIds)
    /\ NoRow \notin RowIds
    /\ MaxItems \in Nat
    /\ MaxCount \in Nat
    /\ MaxRuns \in Nat

VARIABLES
    infos,      \* command_infos
    customs,    \* custom_commands
    lists,      \* command_lists
    repeated,   \* the infos with a row in repeated_commands
    scheduled,  \* the infos with a row in scheduled_commands
    actor       \* who sent the message, and in which channel

rowVars     == <<infos, customs, lists, repeated, scheduled>>
commandVars == <<infos, customs, lists, repeated, scheduled, actor>>

NoActor == [user |-> NoRow, channel |-> NoRow]

CommandInfo ==
    [channel : Channels, name : Names, level : DBLevels, count : 0 .. MaxCount,
     custom : RowIds \union {NoRow}, list : RowIds \union {NoRow}]

IsTable(table, S) == DOMAIN table \subseteq RowIds /\ \A i \in DOMAIN table : table[i] \in S

NewId(table) == CHOOSE i \in RowIds \ DOMAIN table : TRUE
With(table, id, row) == [i \in DOMAIN table \union {id} |-> IF i = id THEN row ELSE table[i]]
Without(table, ids) == [i \in DOMAIN table \ ids |-> table[i]]
Free(table) == RowIds \ DOMAIN table # {}

CommandsInit ==
    /\ infos = <<>>
    /\ customs = <<>>
    /\ lists = <<>>
    /\ repeated = {}
    /\ scheduled = {}
    /\ actor = NoActor
-----------------------------------------------------------------------------
(* The queries.  Who made a row and who changed it last, and when, is left    *)
(* out.                                                                       *)

FindCommand(c, n) == {i \in DOMAIN infos : infos[i].channel = c /\ infos[i].name = n}
FindCommandForUpdate(c, n) == FindCommand(c, n)   \* the lock of the channel is held already
LookupCommand(c, n, forUpdate) == IF forUpdate THEN FindCommandForUpdate(c, n) ELSE FindCommand(c, n)

GetCustomCommandForUpdate(k) == {customs[j] : j \in DOMAIN customs \intersect {k}}
GetCommandList(k) == {lists[j] : j \in DOMAIN lists \intersect {k}}
GetCommandListForUpdate(k) == GetCommandList(k)

CommandInfoExists(c, n) == FindCommand(c, n) # {}

InsertCommandInfo(c, n, level, custom, list) ==
    infos' = With(infos, NewId(infos),
        [channel |-> c, name |-> n, level |-> level, count |-> 0, custom |-> custom, list |-> list])

InsertCustomCommand(c, text) == customs' = With(customs, NewId(customs), [channel |-> c, message |-> text])
InsertCommandList(c)         == lists' = With(lists, NewId(lists), [channel |-> c, items |-> <<>>])

UpdateCustomCommandMessage(k, text) == customs' = [customs EXCEPT ![k].message = text]
UpdateCommandListItems(k, items)    == lists' = [lists EXCEPT ![k].items = items]

UpdateCommandInfoAccess(i, level) == infos' = [infos EXCEPT ![i].level = level]
RenameCommandInfo(i, n)           == infos' = [infos EXCEPT ![i].name = n]
UpdateCommandInfoUsage(i, n)      == infos' = [infos EXCEPT ![i].count = n]

DeleteRepeatedCommandByInfo(i)  == repeated' = repeated \ {i}
DeleteScheduledCommandByInfo(i) == scheduled' = scheduled \ {i}
DeleteCommandInfo(i)            == infos' = Without(infos, {i})
DeleteCustomCommand(k)          == customs' = Without(customs, {k})
DeleteCommandList(k)            == lists' = Without(lists, {k})

(* Mutant: the list of a command stays.                                       *)
CascadeKeepsList(i) ==
    /\ DeleteRepeatedCommandByInfo(i)
    /\ DeleteScheduledCommandByInfo(i)
    /\ DeleteCommandInfo(i)
    /\ DeleteCustomCommand(infos[i].custom)
    /\ UNCHANGED lists

DeleteCommandInfoCascade(i) ==
    /\ DeleteRepeatedCommandByInfo(i)
    /\ DeleteScheduledCommandByInfo(i)
    /\ DeleteCommandInfo(i)
    /\ DeleteCustomCommand(infos[i].custom)
    /\ DeleteCommandList(infos[i].list)

(* Bot.RemoveRepeat and Bot.RemoveScheduled change no row: Scheduler has them.*)
-----------------------------------------------------------------------------
(* The handlers of a message of u in channel c.                               *)

(* Every subcommand asks for a moderator.                                     *)
Session(u, c) == actor' = [user |-> u, channel |-> c]

Handles(u, c) ==
    /\ Authorized(UserLevel[u], AccessLevelModerator)
    /\ Session(u, c)

MayAccess(u, i) == CanAccessPG(UserLevel[u], infos[i].level)

findCustomCommand(c, n) ==
    {i \in LookupCommand(c, n, TRUE) : GetCustomCommandForUpdate(infos[i].custom) # {}}
findCommandList(c, n) ==
    {i \in LookupCommand(c, n, TRUE) : GetCommandListForUpdate(infos[i].list) # {}}

(* A level that was not asked for by name is raised for a text that moderates.*)
LevelOf(level, force, text) ==
    IF ~force /\ text \in Dangerous THEN AccessLevelModerator ELSE level

cmdCommandUpdate(u, c, n, text, level, force) ==
    \E i \in findCustomCommand(c, n) :
        /\ MayAccess(u, i)
        /\ UpdateCustomCommandMessage(infos[i].custom, text)
        /\ UpdateCommandInfoAccess(i, IF force THEN level ELSE infos[i].level)
        /\ UNCHANGED lists

cmdCommandInsert(u, c, n, text, level, force) ==
    /\ ~CommandInfoExists(c, n)
    /\ Free(infos)
    /\ InsertCustomCommand(c, text)
    /\ InsertCommandInfo(c, n, LevelOf(level, force, text), NewId(customs), NoRow)
    /\ UNCHANGED lists

cmdCommandAdd(u, c, n, text, level, force) ==
    /\ Handles(u, c)
    /\ n \notin Reserved
    /\ CanAccess(UserLevel[u], level)
    /\ \/ cmdCommandUpdate(u, c, n, text, level, force)
       \/ cmdCommandInsert(u, c, n, text, level, force)
    /\ UNCHANGED <<repeated, scheduled>>

(* add leaves the level open, the other five name it.                         *)
CommandAdds ==
    {<<AccessLevelSubscriber, FALSE>>} \union
    {<<l, TRUE>> : l \in Levels \ {AccessLevelAdmin}}

cmdCommandDelete(u, c, n) ==
    /\ Handles(u, c)
    /\ \E i \in findCustomCommand(c, n) : MayAccess(u, i) /\ DeleteCommandInfoCascade(i)

(* Mutant: who may set the new level may have it whatever the old one is.     *)
RestrictNewOnly(u, i, level) ==
    /\ CanAccessPG(UserLevel[u], level)
    /\ UpdateCommandInfoAccess(i, level)
    /\ UNCHANGED <<customs, lists, repeated, scheduled>>

RestrictTo(u, i, level) ==
    /\ MayAccess(u, i)
    /\ CanAccessPG(UserLevel[u], level)
    /\ UpdateCommandInfoAccess(i, level)
    /\ UNCHANGED <<customs, lists, repeated, scheduled>>

cmdCommandRestrict(u, c, n, level) ==
    /\ Handles(u, c)
    /\ \E i \in findCustomCommand(c, n) : RestrictTo(u, i, level)

(* The new name is not looked for among the reserved ones.                    *)
Rename(u, c, i, new) ==
    /\ MayAccess(u, i)
    /\ ~CommandInfoExists(c, new)
    /\ RenameCommandInfo(i, new)
    /\ UNCHANGED <<customs, lists, repeated, scheduled>>

cmdCommandRename(u, c, old, new) ==
    /\ Handles(u, c)
    /\ old # new
    /\ \E i \in findCustomCommand(c, old) : Rename(u, c, i, new)

(* The copy has the level of the original, which the level of the user is not *)
(* compared with.                                                             *)
cmdCommandClone(u, c, n, other) ==
    /\ Handles(u, c)
    /\ ~CommandInfoExists(c, n)
    /\ Free(infos)
    /\ \E i \in LookupCommand(other, n, FALSE) :
           /\ infos[i].custom # NoRow
           /\ InsertCustomCommand(c, customs[infos[i].custom].message)
           /\ InsertCommandInfo(c, n, infos[i].level, NewId(customs), NoRow)
    /\ UNCHANGED <<lists, repeated, scheduled>>

cmdListAdd(u, c, n, level) ==
    /\ Handles(u, c)
    /\ n \notin Reserved
    /\ ~CommandInfoExists(c, n)
    /\ CanAccess(UserLevel[u], level)
    /\ Free(infos)
    /\ InsertCommandList(c)
    /\ InsertCommandInfo(c, n, level, NoRow, NewId(lists))
    /\ UNCHANGED <<customs, repeated, scheduled>>

ListLevels ==
    Levels \ {AccessLevelVIP, AccessLevelAdmin}

cmdListDelete(u, c, n) ==
    /\ Handles(u, c)
    /\ \E i \in findCommandList(c, n) : MayAccess(u, i) /\ DeleteCommandInfoCascade(i)

cmdListRestrict(u, c, n, level) ==
    /\ Handles(u, c)
    /\ \E i \in findCommandList(c, n) : RestrictTo(u, i, level)

cmdListRename(u, c, old, new) ==
    /\ Handles(u, c)
    /\ old # new
    /\ \E i \in findCommandList(c, old) : Rename(u, c, i, new)
-----------------------------------------------------------------------------
(* The use of a command or a list: tryCommand has compared the levels.        *)

runCommandAndCount(i) ==
    /\ \A j \in DOMAIN infos : infos[j].count < MaxCount
    /\ UpdateCommandInfoUsage(i, infos[i].count + 1)

handleCustomCommand(u, c, n) ==
    /\ Session(u, c)
    /\ \E i \in findCustomCommand(c, n) : MayAccess(u, i) /\ runCommandAndCount(i)
    /\ UNCHANGED <<customs, lists, repeated, scheduled>>

Items(i) == lists[infos[i].list].items
ItemSet(i) == {Items(i)[k] : k \in DOMAIN Items(i)}

handleListAdd(i, item) ==
    /\ item \notin ItemSet(i)
    /\ Len(Items(i)) < MaxItems
    /\ UpdateCommandListItems(infos[i].list, Append(Items(i), item))
    /\ UNCHANGED infos

handleListDelete(i, k) ==
    /\ k \in DOMAIN Items(i)
    /\ UpdateCommandListItems(infos[i].list,
           SubSeq(Items(i), 1, k - 1) \o SubSeq(Items(i), k + 1, Len(Items(i))))
    /\ UNCHANGED infos

(* add, delete and restrict of a list ask for a moderator, whatever the list  *)
(* itself asks for; another item of the list is run as a command.             *)
handleList(u, c, n) ==
    \E i \in findCommandList(c, n) :
        /\ MayAccess(u, i)
        /\ \/ /\ Handles(u, c)
              /\ \/ \E item \in Entries : handleListAdd(i, item)
                 \/ \E k \in 1 .. MaxItems : handleListDelete(i, k)
              /\ UNCHANGED <<customs, repeated, scheduled>>
           \/ /\ Handles(u, c)
              /\ \E level \in Levels : RestrictTo(u, i, level)
           \/ /\ Session(u, c)
              /\ \E list \in GetCommandList(infos[i].list) : list.items # <<>>
              /\ runCommandAndCount(i)
              /\ UNCHANGED <<customs, lists, repeated, scheduled>>

(* Rows of the other tables, as RepeatedCommands makes them.                  *)
AddRepeat(u, c, n) ==
    /\ Handles(u, c)
    /\ Cardinality(repeated) + Cardinality(scheduled) < MaxRuns
    /\ \E i \in LookupCommand(c, n, TRUE) :
           \/ repeated' = repeated \union {i} /\ scheduled' = scheduled
           \/ scheduled' = scheduled \union {i} /\ repeated' = repeated
    /\ UNCHANGED <<infos, customs, lists>>

Of(table, c) == {k \in DOMAIN table : table[k].channel = c}

DeleteScheduledCommandsByChannel(c) == scheduled' = scheduled \ Of(infos, c)
DeleteRepeatedCommandsByChannel(c)  == repeated' = repeated \ Of(infos, c)
DeleteCommandInfosByChannel(c)      == infos' = Without(infos, Of(infos, c))
DeleteCommandListsByChannel(c)      == lists' = Without(lists, Of(lists, c))
DeleteCustomCommandsByChannel(c)    == customs' = Without(customs, Of(customs, c))

(* DeleteChannelCascade: what a deletion of channel c, which is asked for in  *)
(* another channel, does to these tables.                                     *)
DeleteChannelCommands(u, c, from) ==
    /\ Authorized(UserLevel[u], AccessLevelSuperAdmin)
    /\ from # c
    /\ Session(u, from)
    /\ DeleteScheduledCommandsByChannel(c)
    /\ DeleteRepeatedCommandsByChannel(c)
    /\ DeleteCommandInfosByChannel(c)
    /\ DeleteCommandListsByChannel(c)
    /\ DeleteCustomCommandsByChannel(c)

CommandsNext ==
    \/ \E u \in Users, c, from \in Channels : DeleteChannelCommands(u, c, from)
    \/ \E u \in Users, c \in Channels, n \in Names :
        \/ \E text \in Texts, a \in CommandAdds : cmdCommandAdd(u, c, n, text, a[1], a[2])
        \/ cmdCommandDelete(u, c, n)
        \/ \E level \in Levels : cmdCommandRestrict(u, c, n, level)
        \/ \E new \in Names : cmdCommandRename(u, c, n, new)
        \/ \E other \in Channels : cmdCommandClone(u, c, n, other)
        \/ \E level \in ListLevels : cmdListAdd(u, c, n, level)
        \/ cmdListDelete(u, c, n)
        \/ \E level \in Levels : cmdListRestrict(u, c, n, level)
        \/ \E new \in Names : cmdListRename(u, c, n, new)
        \/ handleCustomCommand(u, c, n)
        \/ handleList(u, c, n)
        \/ AddRepeat(u, c, n)

CommandsSpec == CommandsInit /\ [][CommandsNext]_commandVars
-----------------------------------------------------------------------------
CommandsTypeOK ==
    /\ IsTable(infos, CommandInfo)
    /\ IsTable(customs, [channel : Channels, message : Texts])
    /\ IsTable(lists, [channel : Channels, items : Seq(Entries)])
    /\ repeated \subseteq DOMAIN infos
    /\ scheduled \subseteq DOMAIN infos
    /\ actor \in [user : Users, channel : Channels] \union {NoActor}

(* An entry has either a text or a list, in its own channel, no other entry   *)
(* has it, and no text and no list is left behind: the deletions and the      *)
(* copies keep three tables in step (DeleteCommandInfoCascade, cmdCommandAdd, *)
(* cmdCommandClone).                                                          *)
EveryRowHasItsEntry ==
    /\ \A i \in DOMAIN infos :
           \/ /\ infos[i].list = NoRow
              /\ infos[i].custom \in DOMAIN customs
              /\ customs[infos[i].custom].channel = infos[i].channel
           \/ /\ infos[i].custom = NoRow
              /\ infos[i].list \in DOMAIN lists
              /\ lists[infos[i].list].channel = infos[i].channel
    /\ \A k \in DOMAIN customs : Cardinality({i \in DOMAIN infos : infos[i].custom = k}) = 1
    /\ \A k \in DOMAIN lists : Cardinality({i \in DOMAIN infos : infos[i].list = k}) = 1

(* A name of a channel is one command or one list: add, clone and rename look *)
(* for both kinds first, and never meet the UNIQUE of the table.              *)
NamesAreUnique ==
    \A i, j \in DOMAIN infos :
        infos[i].channel = infos[j].channel /\ infos[i].name = infos[j].name => i = j

(* The names the code itself calls reserved name no command and no list: one  *)
(* with such a name would hide the builtin (cmdCommandAdd, cmdListAdd).       *)
ReservedNamesStayFree == \A i \in DOMAIN infos : infos[i].name \notin Reserved

(* A message never changes or removes a command that its sender may not use,  *)
(* and nobody raises a level above their own, whichever handler it takes:     *)
(* update, restrict, rename and the deletions compare the level each on its   *)
(* own.                                                                       *)
LevelsAreRespected ==
    [][\A i \in DOMAIN infos :
          (i \notin DOMAIN infos' \/ infos'[i] # infos[i]) =>
              /\ CanAccess(UserLevel[actor'.user], infos[i].level)
              /\ i \in DOMAIN infos' /\ infos'[i].level # infos[i].level =>
                     CanAccess(UserLevel[actor'.user], infos'[i].level)]_commandVars

(* A message changes commands of its own channel only, even when it names     *)
(* another channel (cmdCommandClone reads there and writes here), unless a    *)
(* super admin deletes a channel.                                             *)
OtherChannelsAreLeft ==
    [][\A i \in DOMAIN infos \union DOMAIN infos' :
          \/ i \in DOMAIN infos \intersect DOMAIN infos' /\ infos'[i] = infos[i]
          \/ i \in DOMAIN infos /\ infos[i].channel = actor'.channel
          \/ i \in DOMAIN infos' /\ infos'[i].channel = actor'.channel
          \/ UserLevel[actor'.user] = AccessLevelSuperAdmin]_commandVars

(* The tables of the commands and lists hang together.                        *)
CommandsInv == CommandsTypeOK /\ EveryRowHasItsEntry /\ NamesAreUnique

(* What a message changes is its sender's to change.                          *)
ChangesAreAllowed == LevelsAreRespected /\ OtherChannelsAreLeft
=============================================================================
