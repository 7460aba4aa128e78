------------------------------- MODULE Messages -------------------------------
(***************************************************************************)
(* Handling chat messages at the same time (internal/bot handle.go).  Each *)
(* message is handled in a transaction: it takes the advisory lock of its  *)
(* room, reads its channel FOR UPDATE, does what the command says, answers *)
(* while the transaction is open, and commits; requests for a              *)
(* synchronisation and counters of usage follow afterwards.  A handler may *)
(* fail or its process crash at every step.                                *)
(***************************************************************************)
EXTENDS Naturals, Sequences, FiniteSets, SequencesExt

CONSTANTS
    Procs,      \* messages under way
    Rooms,      \* rooms of channels
    Bots,       \* the bots of the deployment, each with a room of its own
    Uses,       \* counters of usage, numbered in the order of their names
    Starts,     \* bound: the messages, [Procs -> message]
    NoRow, None

ASSUME MessagesAssumption ==
    /\ Uses \subseteq Nat /\ IsFiniteSet(Uses)
    /\ Bots \intersect Rooms = {}
    /\ None \notin Procs

VARIABLES
    rows,       \* the channels, as committed
    blocked,    \* blocked_users, as committed
    missed,     \* history: who had looked when the channel was blocked last
    msg,        \* the message of a handler: kind, room, bot, target, to
    pc,
    room,       \* session.RoomID
    write,      \* what the transaction changes in a channel
    found,      \* the ID of the channel that a command is about
    asks,       \* session.eventsubUpdateRequested
    uses,       \* usage still to be counted, as the session's map has it
    locks       \* who holds the locks of the database

vars == <<rows, blocked, missed, msg, pc, room, write, found, asks, uses, locks>>

(* A channel that is joined anew has another ID: who inserted it.             *)
Row == [active : BOOLEAN, bot : Bots, id : Procs \union {None}] \union {NoRow}

RoomLocks == {"room"} \X (Rooms \union Bots)
RowLocks  == {"row"} \X Rooms
BlockLocks == {"blocked"} \X Rooms
UseLocks  == {"use"} \X Uses
Locks     == RoomLocks \union RowLocks \union BlockLocks \union UseLocks

OwnKinds    == {"talk", "leave"}                \* in a channel's own room
BotKinds    == {"join", "part"}                 \* in the bot's room
AdminKinds  == {"block", "unblock", "changebot", "deletechannel", "imp"}

Message ==
    {m \in [kind : OwnKinds \union BotKinds \union AdminKinds, room : Rooms \union Bots, bot : Bots,
            target : Rooms \union {None}, to : Bots \union {None}] :
        /\ m.room \in Bots => m.room = m.bot
        /\ m.kind \in OwnKinds => m.room \in Rooms
        /\ m.kind \in BotKinds => m.room \in Bots
        /\ m.kind \in OwnKinds <=> m.target = None
        /\ m.kind = "changebot" <=> m.to # None}

ASSUME StartsAssumption == Starts \subseteq [Procs -> Message] /\ None \notin Locks

Ended == {"done", "failed", "lost"}
InTransaction(p) == pc[p] \in {"room", "channel", "command", "blocking", "target", "insert", "answer", "commit"}

(* Mutant: usage is counted in the order the map has.                         *)
FirstUse(p) == Head(uses[p])

(* AddUsageStats counts in the order of the names.                            *)
NextUse(p) == Min(ToSet(uses[p]))

(* The channel that a command is about, by the ID it was read with or by its  *)
(* name or Twitch ID.                                                         *)
Finds(p) ==
    LET row == rows[msg[p].target]
    IN row # NoRow /\ (msg[p].kind \in {"changebot", "deletechannel"} => row.id = found[p])

BeingDeleted(r) == \E q \in Procs : write[q] # None /\ write[q].room = r /\ write[q].set = "delete"

(* Statements see no row that is not committed, and wait for none; an INSERT  *)
(* waits for who inserts or deletes a row with the same Twitch ID.            *)
Wanted(p) ==
    CASE pc[p] = "room" -> <<"room", room[p]>>
      [] pc[p] = "channel" /\ rows[room[p]] # NoRow -> <<"row", room[p]>>
      [] pc[p] = "target" /\ Finds(p) -> <<"row", msg[p].target>>
      [] pc[p] = "insert" /\ (rows[msg[p].target] = NoRow \/ BeingDeleted(msg[p].target)) ->
             <<"row", msg[p].target>>
      [] pc[p] = "blocking" -> <<"blocked", msg[p].target>>
      [] pc[p] = "usage" /\ uses[p] # <<>> -> <<"use", NextUse(p)>>
      [] OTHER -> None

Waiting(p) == Wanted(p) # None /\ locks[Wanted(p)] \notin {None, p}
WaitsFor(p, q) == Waiting(p) /\ locks[Wanted(p)] = q

Lock(p) ==
    /\ locks[Wanted(p)] \in {None, p}
    /\ locks' = [locks EXCEPT ![Wanted(p)] = p]

AcquireTwitchAdvisoryLock(p) == Lock(p)

(* SELECT ... FOR UPDATE and UPDATE lock no row that is not there.            *)
LockRow(p) == IF Wanted(p) = None THEN UNCHANGED locks ELSE Lock(p)

GetChannelByTwitchIDForUpdate(p) == LockRow(p)
GetChannelByNameForUpdate(p) == LockRow(p)

Released(p) == [l \in Locks |-> IF locks[l] = p THEN None ELSE locks[l]]

(* The statements that change a channel; of no row they change nothing.       *)
Updated(row, new) == IF row = NoRow THEN NoRow ELSE new
UpdateChannelActive(row, active) == Updated(row, [row EXCEPT !.active = active])
UpdateChannelBotName(row, b) == Updated(row, [row EXCEPT !.bot = b])
UpdateChannelMembership(row, b) == Updated(row, [row EXCEPT !.active = TRUE, !.bot = b])
InsertDefaultChannel(b, id) == [active |-> TRUE, bot |-> b, id |-> id]
DeleteChannel == NoRow

(* What the transaction sees: what it wrote itself, and what is committed.    *)
Written(w, r) ==
    CASE w = None -> rows[r]
      [] w # None /\ w.room = r /\ w.set = "insert" -> InsertDefaultChannel(w.bot, w.by)
      [] w # None /\ w.room = r /\ w.set = "join" -> UpdateChannelMembership(rows[r], w.bot)
      [] w # None /\ w.room = r /\ w.set \in {"leave", "expel"} -> UpdateChannelActive(rows[r], FALSE)
      [] w # None /\ w.room = r /\ w.set = "bot" -> UpdateChannelBotName(rows[r], w.bot)
      [] w # None /\ w.room = r /\ w.set = "delete" -> DeleteChannel
      [] OTHER -> rows[r]

(* Mutant: only channels that have been joined before are looked up.          *)
IsBlockedChannel(r) == r \in blocked /\ rows[r] # NoRow

IsBlockedUser(r) == r \in blocked
UpsertBlockedUser(r) == blocked \union {r}
DeleteBlockedUser(r) == blocked \ {r}

BlockedBy(w) ==
    CASE w = None -> blocked
      [] w # None /\ w.set \in {"block", "expel"} -> UpsertBlockedUser(w.room)
      [] w # None /\ w.set = "unblock" -> DeleteBlockedUser(w.room)
      [] OTHER -> blocked

Visible(p, r) == Written(write[p], r)
GetChannelBotByName(p, r) == Visible(p, r)
Writes(p, r, set, b) == write' = [write EXCEPT ![p] = [room |-> r, set |-> set, bot |-> b, by |-> p]]
requestEventsubUpdate(p) == asks' = [asks EXCEPT ![p] = TRUE]
recordUsage(p, used) == uses' = [uses EXCEPT ![p] = used]
Goto(p, l) == pc' = [pc EXCEPT ![p] = l]
-----------------------------------------------------------------------------
NoWrite == [p \in Procs |-> None]

Init ==
    /\ rows \in [Rooms -> Row]
    /\ blocked \in SUBSET Rooms
    /\ missed = [r \in Rooms |-> {}]
    /\ msg \in Starts
    /\ pc = [p \in Procs |-> "queued"]
    /\ room = [p \in Procs |-> msg[p].room]
    /\ write = NoWrite
    /\ found = [p \in Procs |-> None]
    /\ asks = [p \in Procs |-> FALSE]
    /\ uses = [p \in Procs |-> <<>>]
    /\ locks = [l \in Locks |-> None]

(* handleChatMessage begins the transaction.                                  *)
Begin(p) ==
    /\ pc[p] = "queued"
    /\ Goto(p, "room")
    /\ UNCHANGED <<rows, blocked, missed, msg, room, write, found, asks, uses, locks>>

(* The beginning of handleSession: messages of the bot's own room are for     *)
(* handleManagement.                                                          *)
LockRoom(p) ==
    /\ pc[p] = "room"
    /\ AcquireTwitchAdvisoryLock(p)
    /\ Goto(p, IF msg[p].room \in Bots THEN "command" ELSE "channel")
    /\ UNCHANGED <<rows, blocked, missed, msg, room, write, found, asks, uses>>

Imp(p) == room[p] # msg[p].room
Serves(p, row) == row # NoRow /\ (Imp(p) \/ (row.active /\ row.bot = msg[p].bot))

(* The rest of it up to the command.                                          *)
ReadChannel(p) ==
    /\ pc[p] = "channel"
    /\ GetChannelByTwitchIDForUpdate(p)
    /\ Goto(p, IF Serves(p, Visible(p, room[p])) THEN "command" ELSE "commit")
    /\ UNCHANGED <<rows, blocked, missed, msg, room, write, found, asks, uses>>

(* A command of the room itself, also one an admin impersonates: some use     *)
(* builtins and actions.                                                      *)
cmdTalk(p) ==
    /\ pc[p] = "command"
    /\ msg[p].kind = "talk" \/ Imp(p)
    /\ \E used \in UNION {SetToSeqs(S) : S \in SUBSET Uses} : recordUsage(p, used)
    /\ Goto(p, "answer")
    /\ UNCHANGED <<rows, blocked, missed, msg, room, write, found, asks, locks>>

(* cmdLeave, confirmed.                                                       *)
cmdLeave(p) ==
    /\ pc[p] = "command"
    /\ msg[p].kind = "leave"
    /\ Writes(p, room[p], "leave", None)
    /\ requestEventsubUpdate(p)
    /\ Goto(p, "answer")
    /\ UNCHANGED <<rows, blocked, missed, msg, room, found, uses, locks>>

(* Commands about another channel: cmdAdminDeleteChannel and                  *)
(* cmdAdminChangeBot read only whether it is there and who serves it, a join  *)
(* of someone who is blocked gets no answer.                                  *)
FindTarget(p) ==
    LET r == msg[p].target
        t == GetChannelBotByName(p, r)
    IN /\ pc[p] = "command"
       /\ ~Imp(p) /\ msg[p].kind \notin OwnKinds
       /\ Goto(p, CASE msg[p].kind = "changebot" -> IF t = NoRow \/ t.bot = msg[p].to THEN "answer" ELSE "target"
                    [] msg[p].kind = "deletechannel" -> IF t = NoRow \/ r = room[p] THEN "answer" ELSE "target"
                    [] msg[p].kind = "join" -> IF IsBlockedUser(r) THEN "commit" ELSE "target"
                    [] msg[p].kind \in {"block", "unblock"} -> "blocking"
                    [] OTHER -> "target")
       /\ found' = IF t = NoRow THEN found ELSE [found EXCEPT ![p] = t.id]
       /\ UNCHANGED <<rows, blocked, missed, msg, room, write, asks, uses, locks>>

(* cmdAdminBlock, up to reading the channel: ON CONFLICT DO NOTHING waits for *)
(* who inserts or deletes the same row.                                       *)
cmdAdminBlock(p) ==
    LET r == msg[p].target
        there == IsBlockedUser(r) /\ locks[<<"blocked", r>>] = None
    IN /\ pc[p] = "blocking" /\ msg[p].kind = "block"
       /\ IF there THEN UNCHANGED <<write, locks>> ELSE Lock(p) /\ Writes(p, r, "block", None)
       /\ Goto(p, "target")
       /\ UNCHANGED <<rows, blocked, missed, msg, room, found, asks, uses>>

(* DELETE finds no row that is not committed, and waits for none.             *)
cmdAdminUnblock(p) ==
    LET r == msg[p].target
    IN /\ pc[p] = "blocking" /\ msg[p].kind = "unblock"
       /\ IF IsBlockedUser(r) THEN Lock(p) /\ Writes(p, r, "unblock", None) ELSE UNCHANGED <<write, locks>>
       /\ Goto(p, "answer")
       /\ UNCHANGED <<rows, blocked, missed, msg, room, found, asks, uses>>

Target(p, kind) == pc[p] = "target" /\ msg[p].kind = kind

(* The rest of handleJoin: one who may not have the bot is told so.           *)
handleJoin(p) ==
    LET t == rows[msg[p].target]
    IN /\ Target(p, "join")
       /\ GetChannelByTwitchIDForUpdate(p)
       /\ \/ IF t = NoRow THEN Goto(p, "insert") /\ UNCHANGED <<write, asks>>
             ELSE /\ requestEventsubUpdate(p)
                  /\ IF t.active THEN UNCHANGED write ELSE Writes(p, msg[p].target, "join", msg[p].bot)
                  /\ Goto(p, "answer")
          \/ Goto(p, "answer") /\ UNCHANGED <<write, asks>>
       /\ UNCHANGED <<rows, blocked, missed, msg, room, found, uses>>

(* InsertDefaultChannel: one channel only has a Twitch ID.                    *)
Insert(p) ==
    /\ pc[p] = "insert"
    /\ IF rows[msg[p].target] = NoRow
       THEN /\ Lock(p)
            /\ Writes(p, msg[p].target, "insert", msg[p].bot)
            /\ requestEventsubUpdate(p)
            /\ Goto(p, "answer")
            /\ UNCHANGED <<rows, blocked, missed, msg, room, found, uses>>
       ELSE /\ Wanted(p) = None
            /\ Goto(p, "failed")
            /\ locks' = Released(p)
            /\ UNCHANGED <<rows, blocked, missed, msg, room, write, found, asks, uses>>

(* handleLeave and the rest of cmdAdminBlock: only handleLeave says nothing   *)
(* when there is nothing to leave.                                            *)
handleLeave(p) ==
    LET t == Visible(p, msg[p].target)
        active == t # NoRow /\ t.active
    IN /\ Target(p, "part") \/ Target(p, "block")
       /\ GetChannelByTwitchIDForUpdate(p)
       /\ IF active THEN requestEventsubUpdate(p) ELSE UNCHANGED asks
       /\ IF active THEN Writes(p, msg[p].target, IF write[p] = None THEN "leave" ELSE "expel", None)
          ELSE UNCHANGED write
       /\ Goto(p, IF active \/ msg[p].kind = "block" THEN "answer" ELSE "commit")
       /\ UNCHANGED <<rows, blocked, missed, msg, room, found, uses>>

(* Both change what has the ID they have read; when that is gone, nothing.     *)
cmdAdminChangeBot(p) ==
    /\ Target(p, "changebot")
    /\ LockRow(p)
    /\ IF Finds(p) THEN Writes(p, msg[p].target, "bot", msg[p].to) ELSE UNCHANGED write
    /\ requestEventsubUpdate(p)
    /\ Goto(p, "answer")
    /\ UNCHANGED <<rows, blocked, missed, msg, room, found, uses>>

(* Confirmed: DeleteChannelCascade.                                           *)
cmdAdminDeleteChannel(p) ==
    /\ Target(p, "deletechannel")
    /\ LockRow(p)
    /\ IF Finds(p) THEN Writes(p, msg[p].target, "delete", None) ELSE UNCHANGED write
    /\ requestEventsubUpdate(p)
    /\ Goto(p, "answer")
    /\ UNCHANGED <<rows, blocked, missed, msg, room, found, uses>>

(* The message is handled anew as one of the target's room.                   *)
cmdAdminImp(p) ==
    /\ Target(p, "imp")
    /\ GetChannelByNameForUpdate(p)
    /\ IF rows[msg[p].target] = NoRow \/ msg[p].target = room[p]
       THEN Goto(p, "answer") /\ UNCHANGED room
       ELSE Goto(p, "room") /\ room' = [room EXCEPT ![p] = msg[p].target]
    /\ UNCHANGED <<rows, blocked, missed, msg, write, found, asks, uses>>

(* The answer goes to the room the message is from, before the commit.        *)
Answer(p) ==
    /\ pc[p] = "answer"
    /\ Goto(p, "commit")
    /\ UNCHANGED <<rows, blocked, missed, msg, room, write, found, asks, uses, locks>>

(* The joins that have seen whether r is blocked and are not over.            *)
Looked(r) ==
    {q \in Procs : msg[q].kind = "join" /\ msg[q].target = r /\ pc[q] \in {"target", "insert", "answer", "commit"}}

Commit(p) ==
    /\ pc[p] = "commit"
    /\ rows' = [r \in Rooms |-> Written(write[p], r)]
    /\ blocked' = BlockedBy(write[p])
    /\ missed' = [r \in Rooms |-> IF r \in BlockedBy(write[p]) \ blocked THEN Looked(r) ELSE missed[r]]
    /\ locks' = Released(p)
    /\ write' = [write EXCEPT ![p] = None]
    /\ Goto(p, "flush")
    /\ UNCHANGED <<msg, room, found, asks, uses>>

(* flushDeferred: a request that fails is only logged.                        *)
NotifyEventsubUpdates(p) ==
    /\ pc[p] = "flush"
    /\ asks' = [asks EXCEPT ![p] = FALSE]
    /\ Goto(p, "usage")
    /\ UNCHANGED <<rows, blocked, missed, msg, room, write, found, uses, locks>>

AddUsageStats(p) ==
    /\ pc[p] = "usage"
    /\ IF uses[p] = <<>> THEN Goto(p, "done") /\ locks' = Released(p) /\ UNCHANGED uses
       ELSE /\ Lock(p)
            /\ uses' = [uses EXCEPT ![p] = RemoveFirst(@, NextUse(p))]
            /\ UNCHANGED pc
    /\ UNCHANGED <<rows, blocked, missed, msg, room, write, found, asks>>

(* An error ends the transaction and the message; usage that is not counted   *)
(* is only logged.                                                            *)
Abort(p) ==
    /\ Goto(p, IF InTransaction(p) THEN "failed" ELSE "done")
    /\ locks' = Released(p)
    /\ write' = [write EXCEPT ![p] = None]
    /\ uses' = [uses EXCEPT ![p] = <<>>]
    /\ UNCHANGED <<rows, blocked, missed, msg, room, found, asks>>

Fails(p) == (InTransaction(p) \/ pc[p] = "usage") /\ Abort(p)

(* Mutant: a wait for a lock has no end.                                      *)
WaitsOn(p) == FALSE /\ Abort(p)

(* A wait ends with a deadlock that is found, the lock timeout or the time    *)
(* limit of the message.                                                      *)
LockFails(p) == Waiting(p) /\ Abort(p)

(* The process ends; its message is stale when its lease has run out.         *)
Crash(p) ==
    /\ pc[p] \notin Ended
    /\ Goto(p, "lost")
    /\ locks' = Released(p)
    /\ write' = [write EXCEPT ![p] = None]
    /\ UNCHANGED <<rows, blocked, missed, msg, room, found, asks, uses>>

Handle(p) ==
    \/ Begin(p) \/ LockRoom(p) \/ ReadChannel(p)
    \/ cmdTalk(p) \/ cmdLeave(p) \/ FindTarget(p)
    \/ handleJoin(p) \/ Insert(p) \/ handleLeave(p)
    \/ cmdAdminBlock(p) \/ cmdAdminUnblock(p)
    \/ cmdAdminChangeBot(p) \/ cmdAdminDeleteChannel(p) \/ cmdAdminImp(p)
    \/ Answer(p) \/ Commit(p) \/ NotifyEventsubUpdates(p) \/ AddUsageStats(p)

Next == \E p \in Procs : Handle(p) \/ Fails(p) \/ LockFails(p) \/ Crash(p)

Spec == Init /\ [][Next]_vars /\ \A p \in Procs : WF_vars(Handle(p)) /\ WF_vars(LockFails(p))
-----------------------------------------------------------------------------
TypeOK ==
    /\ rows \in [Rooms -> Row] /\ blocked \subseteq Rooms /\ missed \in [Rooms -> SUBSET Procs]
    /\ \A p \in Procs : msg[p] \in Message /\ room[p] \in Rooms \union Bots /\ ToSet(uses[p]) \subseteq Uses
    /\ \A p \in Procs : pc[p] \in Ended => Wanted(p) = None /\ write[p] = None
    /\ \A l \in Locks : locks[l] # None => pc[locks[l]] \notin Ended

(* A message in the room of a channel is answered only while the channel is   *)
(* active and the bot it came to still serves it, whoever changes that at the *)
(* same time (handleSession).                                                 *)
AnswersAreOfItsBot ==
    [][\A p \in Procs :
           (pc[p] = "answer" /\ pc'[p] = "commit" /\ msg[p].room \in Rooms) =>
               /\ rows[msg[p].room] # NoRow
               /\ rows[msg[p].room].active
               /\ rows[msg[p].room].bot = msg[p].bot]_vars

(* Handlers wait for each other in a circle only where an admin's command     *)
(* reaches for a second channel: users' messages, joins, leaves and the       *)
(* counters of usage have one order of locks (handleSession, AddUsageStats).  *)
CirclesNeedAdmins ==
    \A S \in (SUBSET Procs) \ {{}} :
        (\A p \in S : \E q \in S : WaitsFor(p, q)) => \E p \in S : msg[p].kind \in AdminKinds

AllEnded == \A p \in Procs : pc[p] \in Ended

(* A channel that is active is not taken from the bot that serves it by a     *)
(* join in another bot's room, whatever that join saw: an admin's changebot   *)
(* alone does that (handleJoin, SaveChannelMembership).                       *)
OnlyAdminsChangeBots ==
    [][\A r \in Rooms :
           (rows[r] # NoRow /\ rows'[r] # NoRow /\ rows[r].active /\ rows'[r].bot # rows[r].bot) =>
               \E p \in Procs : msg[p].kind = "changebot" /\ pc[p] = "commit" /\ pc'[p] = "flush"]_vars

(* Locks are held by who waits for nothing but them, and in an order that     *)
(* only commands of admins leave.                                             *)
MessagesInv == TypeOK /\ CirclesNeedAdmins

(* Who is blocked gets the bot by no join, but one that had already seen that *)
(* they were not when the block was committed: a join that looks later, or a  *)
(* block that was there from the start, has no exception (handleJoin,         *)
(* cmdAdminBlock).                                                            *)
BlockedStayOut ==
    [][\A r \in Rooms :
           (r \in blocked' /\ ~(rows[r] # NoRow /\ rows[r].active) /\ rows'[r] # NoRow /\ rows'[r].active) =>
               \E p \in missed[r] : pc[p] = "commit" /\ pc'[p] = "flush"]_vars

(* A channel has one bot at a time, which an admin's command or its own       *)
(* joining gives it, unless its broadcaster is blocked.                       *)
OneBotPerChannel == AnswersAreOfItsBot /\ OnlyAdminsChangeBots /\ BlockedStayOut
=============================================================================
