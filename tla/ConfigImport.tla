---------------------------- MODULE ConfigImport ----------------------------
(* The export of a channel's configuration, which reads table after table     *)
(* while handlers change them, and its import as another channel, which gives *)
(* every row a new ID and follows the references between them.                *)
(*                                                                            *)
(*   internal/confimport/export.go, import.go, models.go                      *)
(*   internal/db/queries/config_import.sql and the List queries               *)
(*   internal/web/admin.go                     adminExport, adminImportPost   *)
EXTENDS Integers, FiniteSets, Sequences

CONSTANTS
    Original, Copy,   \* the names of the channel and of the one imported
    CommandNames,     \* the names of commands and lists
    Values,           \* texts, items, delays and the like
    DefaultValue,     \* what applyImportDefaults puts for a field that is missing
    Missing,          \* a field that the document does not have
    Nothing, Failed,  \* no document or row, and an export that failed
    MaxEdits          \* bound on the changes of the channel

(* In the order in which ExportByName reads them.                             *)
Order == <<"channels", "quotes", "autoreplies", "variables", "infos", "customs", "lists",
           "repeats", "schedules">>
Tables == {Order[k] : k \in DOMAIN Order}
Entries == {"quotes", "autoreplies", "variables"}
Timers == {"repeats", "schedules"}

VARIABLES
    tables,     \* tables[t]: the rows of t
    nextId,     \* nextId[t]: the next identity value
    dump,       \* what the export has read
    reads,      \* how many tables that are
    touched,    \* something has changed since the export began
    document,   \* what it wrote: a Config, Failed or Nothing
    imported,   \* the document that was imported, or Nothing
    edits       \* changes so far

configVars == <<tables, nextId, dump, reads, touched, document, imported, edits>>

(* A row of any table: its channel, its name, number or nothing, its other    *)
(* columns, and the rows of customs, lists or infos it refers to.  0 is NULL. *)
Row(id, c, key, value, custom, list, info) ==
    [id |-> id, channel |-> c, key |-> key, value |-> value,
     custom |-> custom, list |-> list, info |-> info]

Rows ==
    [id : Nat, channel : Nat, key : {Original, Copy} \union CommandNames \union Nat,
     value : Values \union {DefaultValue, Missing}, custom : Nat, list : Nat, info : Nat]

ASSUME ConfigAssumption == Values # {} /\ Nothing \notin Rows

Text == CHOOSE v \in Values : TRUE

ConfigInit ==
    /\ tables = [t \in Tables |->
            CASE t = "channels" -> {Row(1, 0, Original, Text, 0, 0, 0)}
              [] t = "quotes" -> {Row(1, 1, 1, Text, 0, 0, 0), Row(2, 1, 2, Text, 0, 0, 0)}
              [] OTHER -> {}]
    /\ nextId = [t \in Tables |-> Cardinality(tables[t]) + 1]
    /\ dump = [t \in Tables |-> {}] /\ reads = 0 /\ touched = FALSE
    /\ document = Nothing /\ imported = Nothing
    /\ edits = 0

Home(name) == {r \in tables["channels"] : r.key = name}
RowsOf(t, c) == {r \in tables[t] : IF t = "channels" THEN r.id = c ELSE r.channel = c}

------------------------------------------------------------------------------
(* What handlers do meanwhile, a transaction each *)

Edited == edits < MaxEdits /\ edits' = edits + 1 /\ touched' = TRUE /\ UNCHANGED <<dump, reads, document, imported>>

Put(t, row) == [tables EXCEPT ![t] = @ \union {row}]
Used(t) == [nextId EXCEPT ![t] = @ + 1]

AddCommand(n, kind) ==
    /\ Edited
    /\ \A r \in RowsOf("infos", 1) : r.key # n
    /\ LET id == nextId[kind]
           entry == Row(nextId["infos"], 1, n, Text, IF kind = "customs" THEN id ELSE 0,
                        IF kind = "lists" THEN id ELSE 0, 0)
       IN tables' = [Put(kind, Row(id, 1, 0, Text, 0, 0, 0)) EXCEPT !["infos"] = @ \union {entry}]
    /\ nextId' = [Used(kind) EXCEPT !["infos"] = @ + 1]

(* The text and the level change together.                                    *)
EditCommand(i, v) ==
    /\ Edited
    /\ i.value # v
    /\ LET Changed(t, ids) == {IF r.id \in ids THEN [r EXCEPT !.value = v] ELSE r : r \in tables[t]}
       IN tables' = [tables EXCEPT !["infos"] = Changed("infos", {i.id}),
                                   !["customs"] = Changed("customs", {i.custom}),
                                   !["lists"] = Changed("lists", {i.list})]
    /\ UNCHANGED nextId

DeleteCommand(i) ==
    /\ Edited
    /\ tables' = [t \in Tables |->
            CASE t \in Timers -> {r \in tables[t] : r.info # i.id}
              [] t = "infos" -> tables[t] \ {i}
              [] t = "customs" -> {r \in tables[t] : r.id # i.custom}
              [] t = "lists" -> {r \in tables[t] : r.id # i.list}
              [] OTHER -> tables[t]]
    /\ UNCHANGED nextId

AddTimer(t, i) ==
    /\ Edited
    /\ \A r \in RowsOf(t, 1) : r.info # i.id
    /\ tables' = Put(t, Row(nextId[t], 1, 0, Text, 0, 0, i.id))
    /\ nextId' = Used(t)

AddEntry(t) ==
    /\ Edited
    /\ tables' = Put(t, Row(nextId[t], 1, nextId[t], Text, 0, 0, 0))
    /\ nextId' = Used(t)

DeleteRow(t, r) ==
    /\ Edited
    /\ tables' = [tables EXCEPT ![t] = @ \ {r}]
    /\ UNCHANGED nextId

------------------------------------------------------------------------------
(* The export *)

(* A query of ExportByName sees what is committed by then.                    *)
Query(t) ==
    /\ reads < Len(Order) /\ Order[reads + 1] = t
    /\ dump' = [dump EXCEPT ![t] = RowsOf(t, 1)]
    /\ reads' = reads + 1
    /\ touched' = (reads > 0 /\ touched)
    /\ UNCHANGED <<tables, nextId, document, imported, edits>>

GetChannelByName == Query("channels")
ListQuotes == Query("quotes")
ListAutoreplies == Query("autoreplies")
ListVariables == Query("variables")
ListCommandInfos == Query("infos")
ListCustomCommands == Query("customs")
ListCommandLists == Query("lists")
ListRepeatedCommands == Query("repeats")
ListScheduledCommands == Query("schedules")

Read ==
    \/ GetChannelByName \/ ListQuotes \/ ListAutoreplies \/ ListVariables
    \/ ListCommandInfos \/ ListCustomCommands \/ ListCommandLists
    \/ ListRepeatedCommands \/ ListScheduledCommands

The(rows) == IF rows = {} THEN Nothing ELSE CHOOSE r \in rows : TRUE

Command(i) ==
    [info |-> i,
     custom |-> The({r \in dump["customs"] : i.custom # 0 /\ r.id = i.custom}),
     list |-> The({r \in dump["lists"] : i.custom = 0 /\ r.id = i.list}),
     repeat |-> The({r \in dump["repeats"] : r.info = i.id}),
     schedule |-> The({r \in dump["schedules"] : r.info = i.id})]

assembleCommands == {Command(i) : i \in dump["infos"]}

(* A command whose text or list was deleted since its entry was read.         *)
MissingImplementation(c) == c.custom = Nothing /\ c.list = Nothing

Export ==
    /\ reads = Len(Order) /\ document = Nothing
    /\ \/ /\ \E c \in assembleCommands : MissingImplementation(c)
          /\ document' = Failed
       \/ /\ \A c \in assembleCommands : ~MissingImplementation(c)
          /\ document' = [channel |-> The(dump["channels"]), commands |-> assembleCommands,
                          entries |-> [t \in Entries |-> dump[t]]]
    /\ UNCHANGED <<tables, nextId, dump, reads, touched, imported, edits>>

------------------------------------------------------------------------------
(* The import *)

(* What is posted: the export under another name, the same without a field or *)
(* without the implementation of a command, or what belongs to another one.   *)
Documents ==
    IF document \in {Nothing, Failed} THEN {}
    ELSE LET named == [document EXCEPT !.channel.key = Copy]
         IN {document, named, [named EXCEPT !.channel.value = Missing],
             [named EXCEPT !.commands = {[c EXCEPT !.custom = Nothing] : c \in @}],
             [named EXCEPT !.commands = {[c EXCEPT !.info.value = Missing] : c \in @}]}

validate(config) == \A c \in config.commands : (c.custom = Nothing) # (c.list = Nothing)

(* applyImportDefaults, for the columns that must not be NULL.                *)
Filled(row) == IF row # Nothing /\ row.value = Missing THEN [row EXCEPT !.value = DefaultValue] ELSE row
applyImportDefaults(config) ==
    [channel |-> Filled(config.channel),
     commands |-> {[part \in DOMAIN c |-> Filled(c[part])] : c \in config.commands},
     entries |-> [t \in Entries |-> {Filled(r) : r \in config.entries[t]}]]

(* The part of a command that is a row of a table, and the command it is of.  *)
PartOf(t) ==
    CASE t = "infos" -> "info" [] t = "customs" -> "custom" [] t = "lists" -> "list"
      [] t = "repeats" -> "repeat" [] OTHER -> "schedule"
CommandOf(config, row) == CHOOSE c \in config.commands : row \in {c[part] : part \in DOMAIN c}

(* The rows of a table in the document, and the IDs they get one after the    *)
(* other.                                                                     *)
RowsIn(config, t) ==
    CASE t = "channels" -> {config.channel}
      [] t \in Entries -> config.entries[t]
      [] OTHER -> {c[PartOf(t)] : c \in config.commands} \ {Nothing}
NewId(config, t, row) == nextId[t] + Cardinality({r \in RowsIn(config, t) : r.id < row.id})

(* Mutant: a timer keeps the command it had.                                  *)
KeepsInfo(config, c) == c.info.id

CommandInfoID(config, c) == NewId(config, "infos", c.info)

(* insertImported for a row: OVERRIDING USER VALUE gives it a new ID.         *)
insertImported(config, t, row) ==
    LET whole == CommandOf(config, row)
        Ref(target, part) == IF whole[part] = Nothing THEN 0 ELSE NewId(config, target, whole[part])
    IN Row(NewId(config, t, row), IF t = "channels" THEN 0 ELSE nextId["channels"], row.key, row.value,
           IF t = "infos" THEN Ref("customs", "custom") ELSE 0,
           IF t = "infos" THEN Ref("lists", "list") ELSE 0,
           IF t \in Timers THEN CommandInfoID(config, whole) ELSE 0)

(* Config.Insert in one transaction; a channel of that name is an error.      *)
Insert(posted) ==
    /\ validate(posted)
    /\ LET config == applyImportDefaults(posted)
       IN /\ Home(config.channel.key) = {}
          /\ tables' = [t \in Tables |-> tables[t] \union {insertImported(config, t, r) : r \in RowsIn(config, t)}]
          /\ nextId' = [t \in Tables |-> nextId[t] + Cardinality(RowsIn(config, t))]
    /\ imported' = posted
    /\ UNCHANGED <<dump, reads, touched, document, edits>>

(* It fails as a whole: the identity values are used up.                      *)
Refuse(posted) ==
    /\ ~validate(posted) \/ Home(posted.channel.key) # {}
    /\ edits < MaxEdits /\ edits' = edits + 1
    /\ nextId' = IF validate(posted) THEN [nextId EXCEPT !["channels"] = @ + 1] ELSE nextId
    /\ UNCHANGED <<tables, dump, reads, touched, document, imported>>

ConfigNext ==
    \/ \E n \in CommandNames, kind \in {"customs", "lists"} : AddCommand(n, kind)
    \/ \E i \in RowsOf("infos", 1) :
          \/ \E v \in Values : EditCommand(i, v)
          \/ DeleteCommand(i)
          \/ \E t \in Timers : AddTimer(t, i)
    \/ \E t \in Entries : AddEntry(t)
    \/ \E t \in Entries \union Timers : \E r \in RowsOf(t, 1) : DeleteRow(t, r)
    \/ Read \/ Export
    \/ \E posted \in Documents : Insert(posted) \/ Refuse(posted)

ConfigSpec == ConfigInit /\ [][ConfigNext]_configVars

------------------------------------------------------------------------------
(* Properties *)

(* What a configuration says, without its IDs.                                *)
Says(row) == IF row = Nothing THEN Nothing ELSE <<row.key, row.value>>
Meaning(config) ==
    [channel |-> config.channel.value,
     commands |-> {[part \in DOMAIN c |-> Says(c[part])] : c \in config.commands},
     entries |-> [t \in Entries |-> {Says(r) : r \in config.entries[t]}]]

(* The configuration in the tables, by following the references.              *)
Stored(c) ==
    [channel |-> The(RowsOf("channels", c)),
     commands |-> {[info |-> i,
                    custom |-> The({r \in tables["customs"] : r.id = i.custom}),
                    list |-> The({r \in tables["lists"] : r.id = i.list}),
                    repeat |-> The({r \in tables["repeats"] : r.info = i.id}),
                    schedule |-> The({r \in tables["schedules"] : r.info = i.id})] : i \in RowsOf("infos", c)},
     entries |-> [t \in Entries |-> RowsOf(t, c)]]

Exported == document \notin {Nothing, Failed}

(* Whatever handlers do between two queries of an export, what it writes can  *)
(* be imported: every command has its implementation and every name is there  *)
(* once (export.go:100).                                                      *)
ExportIsValid ==
    Exported => validate(document)
                /\ Cardinality({c.info.key : c \in document.commands}) = Cardinality(document.commands)

(* An export during which nothing changes is the channel (export.go:11).      *)
ExportIsFaithful ==
    Exported /\ ~touched => Meaning(document) = Meaning(Stored(1))

(* What was imported is what the document says: its timers and implementations *)
(* are those of its own commands although every ID is new (import.go:37), and *)
(* no row of it hangs on one of another channel, or the other way around.     *)
ImportIsFaithful ==
    imported # Nothing =>
        \A r \in Home(Copy) :
            /\ Meaning(Stored(r.id)) = Meaning(applyImportDefaults(imported))
            /\ \A i \in RowsOf("infos", r.id) :
                  /\ \A q \in tables["customs"] : q.id = i.custom => q.channel = r.id
                  /\ \A q \in tables["lists"] : q.id = i.list => q.channel = r.id
                  /\ \A t \in Timers : \A q \in tables[t] : q.info = i.id => q.channel = r.id

ConfigInv == ExportIsValid /\ ExportIsFaithful /\ ImportIsFaithful
=============================================================================
