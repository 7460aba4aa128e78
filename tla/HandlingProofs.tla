--------------------------- MODULE HandlingProofs ---------------------------
(***************************************************************************)
(* Proofs about the handling of messages: those that are under way at the  *)
(* same time (Messages), for any number of them and any rooms, bots and    *)
(* counters, the handlers that a message is offered to (Dispatch), for any *)
(* channels, commands and lines, the evaluation of their texts (Actions),  *)
(* for any texts and parameters, the parsing of texts (Templates), of any  *)
(* length, and the links that a pattern permits (LinkMatch), of any length *)
(* too.                                                                    *)
(***************************************************************************)
EXTENDS Messages, Answering, LinkMatch, FiniteSetTheorems, SequenceTheorems, NaturalsInduction, TLAPS

NoDoubles(s) == \A i, j \in DOMAIN s : s[i] = s[j] => i = j

RowWrites == {"insert", "join", "leave", "expel", "bot", "delete"}

Write == [room : Rooms, set : RowWrites \union {"block", "unblock"}, bot : Bots \union {None}, by : Procs]

States ==
    {"queued", "room", "channel", "command", "blocking", "target", "insert", "answer", "commit",
     "flush", "usage"} \union Ended

MessageTypes ==
    /\ rows \in [Rooms -> Row] /\ blocked \subseteq Rooms /\ missed \in [Rooms -> SUBSET Procs]
    /\ msg \in [Procs -> Message] /\ pc \in [Procs -> States]
    /\ room \in [Procs -> Rooms \union Bots]
    /\ write \in [Procs -> Write \union {None}]
    /\ found \in [Procs -> Procs \union {None}]
    /\ uses \in [Procs -> Seq(Uses)]
    /\ locks \in [Locks -> Procs \union {None}]

(* Only an admin's message leaves the room it was written in, and only one    *)
(* about another channel gets to that.                                        *)
PlaceFits(p) ==
    /\ Imp(p) => msg[p].kind = "imp" /\ room[p] \in Rooms /\ pc[p] # "queued"
    /\ pc[p] = "channel" => room[p] \in Rooms
    /\ pc[p] = "target" => msg[p].kind \notin OwnKinds
    /\ pc[p] = "blocking" => msg[p].kind \in {"block", "unblock"}
    /\ pc[p] = "insert" => msg[p].kind = "join"

(* What a handler holds: whoever waits for a row holds only the lock of its   *)
(* room, and a counter is held by who counts greater ones.                    *)
HoldsOnly(p, l) ==
    /\ pc[p] \notin Ended \union {"queued", "flush"}
    /\ msg[p].kind \notin AdminKinds => pc[p] # "room"
    /\ msg[p].kind \in OwnKinds /\ pc[p] = "channel" => l \in RoomLocks
    /\ msg[p].kind \in BotKinds /\ pc[p] \in {"channel", "command", "target", "insert"} => l \in RoomLocks
    /\ pc[p] = "usage" => l \in UseLocks /\ \A u \in ToSet(uses[p]) : l[2] < u

LocksFit(p) == \A l \in Locks : locks[l] = p => HoldsOnly(p, l)

(* A channel is written only by who holds its row, and a join finds it as it  *)
(* has read it.                                                               *)
WriteFits(p) ==
    write[p] # None =>
        /\ pc[p] \in {"target", "answer", "commit"}
        /\ pc[p] = "target" => msg[p].kind = "block" /\ write[p].set = "block"
        /\ write[p].set \in RowWrites => locks[<<"row", write[p].room>>] = p
        /\ write[p].set \in {"insert", "join"} =>
               msg[p].kind = "join" /\ write[p].room = msg[p].target /\ write[p].bot \in Bots
        /\ write[p].set = "insert" => rows[write[p].room] = NoRow
        /\ write[p].set = "join" => rows[write[p].room] # NoRow /\ ~rows[write[p].room].active
        /\ write[p].set \in {"block", "expel"} => msg[p].kind = "block" /\ write[p].room = msg[p].target
        /\ write[p].set = "bot" => msg[p].kind = "changebot" /\ write[p].bot \in Bots

(* From reading its channel to its answer, a message holds the row and its    *)
(* bot serves it.                                                             *)
AtHome(p) ==
    /\ msg[p].room \in Rooms
    /\ \/ pc[p] \in {"command", "blocking", "target", "insert", "answer"}
       \/ Imp(p) /\ pc[p] \in {"room", "channel"}

HomeIsHeld(p) ==
    AtHome(p) =>
        /\ locks[<<"row", msg[p].room>>] = p
        /\ rows[msg[p].room] # NoRow /\ rows[msg[p].room].active /\ rows[msg[p].room].bot = msg[p].bot

(* A join goes on with someone who is blocked only if it had looked before.   *)
JoinsUnblocked(p) ==
    msg[p].kind = "join" /\ (pc[p] \in {"target", "insert"} \/ write[p] # None) =>
        msg[p].target \notin blocked \/ p \in missed[msg[p].target]

Keeps(p) ==
    /\ PlaceFits(p) /\ LocksFit(p) /\ WriteFits(p) /\ HomeIsHeld(p) /\ JoinsUnblocked(p)
    /\ NoDoubles(uses[p])

HandlersInv == MessageTypes /\ \A p \in Procs : Keeps(p)

------------------------------------------------------------------------------
(* What a step of the chain can rely on.                                      *)
HeardSteps == {"moderation", "prefix", "custom", "list", "builtin", "video", "autoreply"}

Entitled == at \in heard /\ ~Ignored /\ CanPG(Mode(at))

(* An answer by this handler is one that the user may get.                    *)
MayAnswer(by) ==
    /\ Entitled
    /\ by \in {"custom", "list"} => CanPG(Found.level)
    /\ by = "builtin" =>
           /\ Can(Builtins[line.word].minLevel)
           /\ line.word \in Rolls => CanPG(RollLevel)
           /\ line.builtin \/ line.other # NoName \/ defined[at][line.word] = NoEntry
    /\ by = "moderation" => Can(AccessLevelModerator)

ChainInv ==
    /\ DispatchTypeOK
    /\ step # "end" => answers = <<>>
    /\ Len(answers) <= 1
    /\ \A i \in DOMAIN answers : answers[i].room = at /\ ~answers[i].early /\ MayAnswer(answers[i].by)
    /\ step \in HeardSteps => Entitled
    /\ step \in {"custom", "list"} => Found # NoEntry /\ CanPG(Found.level)
    /\ step = "builtin" => Found = NoEntry
    /\ step = "autoreply" => ~line.video
    /\ turnedDown => step \in {"video", "autoreply", "end"}
    /\ RefusedGoesOn
    /\ \A r \in answered : <<"command_cooldown", r>> \in running

------------------------------------------------------------------------------
(* 1. Sequences                                                               *)

Below == {pair \in Nat \X Nat : pair[1] < pair[2]}

LEMMA BelowIsWellFounded == IsWellFoundedOn(Below, Nat)
BY NatLessThanWellFounded DEF OpToRel, Below

LEMMA LeastOf ==
    ASSUME NEW T \in SUBSET Nat, T # {}
    PROVE  Min(T) \in T /\ \A k \in T : Min(T) <= k
<1>1. \E k \in T : \A m \in T : ~(<<m, k>> \in Below)
  BY BelowIsWellFounded, WFMin
<1>2. \A k \in T, m \in T : ~(<<m, k>> \in Below) => k <= m
  BY DEF Below
<1>3. PICK k \in T : \A m \in T : k <= m
  BY <1>1, <1>2
<1>. QED
  BY <1>3 DEF Min

(* ... and a finite one has a greatest.                                       *)
LEMMA GreatestOf ==
    ASSUME NEW T \in SUBSET Nat, T # {}, IsFiniteSet(T)
    PROVE  \E x \in T : \A y \in T : y <= x
<1>. DEFINE Above(j) == {k \in T : k > j}
            Sizes == {Cardinality(Above(j)) : j \in T}
<1>1. \A j \in T : IsFiniteSet(Above(j)) /\ Cardinality(Above(j)) \in Nat
  BY FS_Subset, FS_CardinalityType
<1>2. Sizes \in SUBSET Nat /\ Sizes # {}
  BY <1>1
<1>3. PICK m \in Sizes : \A n \in Sizes : m <= n
  BY <1>2, LeastOf
<1>4. PICK x \in T : m = Cardinality(Above(x))
  BY <1>3
<1>5. SUFFICES ASSUME NEW y \in T, y > x PROVE FALSE
  BY <1>5
<1>6. Above(y) \in SUBSET Above(x) /\ y \in Above(x) /\ y \notin Above(y)
  <2>1. x \in Nat /\ y \in Nat /\ \A k \in T : k \in Nat /\ (k > y => k > x) /\ (k = y => ~(k > y))
    BY <1>5
  <2>. QED
    BY <1>5, <2>1
<1>7. Cardinality(Above(y)) < Cardinality(Above(x))
  <2>. HIDE DEF Above
  <2>1. IsFiniteSet(Above(x)) /\ Cardinality(Above(x)) \in Nat /\ Cardinality(Above(y)) \in Nat
    BY <1>1, Zenon
  <2>2. Above(y) # Above(x)
    BY <1>6
  <2>3. Cardinality(Above(y)) <= Cardinality(Above(x)) /\ Cardinality(Above(y)) # Cardinality(Above(x))
    BY <1>6, <2>1, <2>2, FS_Subset, Zenon
  <2>. QED
    BY <2>1, <2>3
<1>8. m \in Nat /\ Cardinality(Above(y)) \in Sizes
  BY <1>1, <1>4
<1>. HIDE DEF Above, Sizes
<1>9. m <= Cardinality(Above(y)) /\ Cardinality(Above(y)) \in Nat
  BY <1>1, <1>3, <1>8
<1>. QED
  BY <1>4, <1>7, <1>8, <1>9

(* What is left when an element is removed.                                   *)
LEMMA RemoveAtDrops ==
    ASSUME NEW S, NEW s \in Seq(S), NEW k \in 1 .. Len(s)
    PROVE  /\ RemoveAt(s, k) \in Seq(S) /\ Len(RemoveAt(s, k)) = Len(s) - 1
           /\ \A i \in 1 .. Len(s) - 1 : RemoveAt(s, k)[i] = s[IF i < k THEN i ELSE i + 1]
<1>. DEFINE a == SubSeq(s, 1, k - 1)
            b == SubSeq(s, k + 1, Len(s))
<1>1. a \in Seq(S) /\ Len(a) = k - 1 /\ \A i \in 1 .. k - 1 : a[i] = s[i]
  OBVIOUS
<1>2. b \in Seq(S) /\ Len(b) = Len(s) - k /\ \A i \in 1 .. Len(s) - k : b[i] = s[i + k]
  OBVIOUS
<1>3. RemoveAt(s, k) = a \o b /\ Len(s) \in Nat /\ k \in Nat /\ k >= 1 /\ k <= Len(s)
  BY DEF RemoveAt
<1>. HIDE DEF a, b
<1>4. a \o b \in Seq(S) /\ Len(a \o b) = Len(a) + Len(b)
  BY <1>1, <1>2, ConcatProperties
<1>5. \A i \in 1 .. Len(a) + Len(b) : (a \o b)[i] = IF i <= Len(a) THEN a[i] ELSE b[i - Len(a)]
  BY <1>1, <1>2, ConcatProperties
<1>6. ASSUME NEW i \in 1 .. Len(s) - 1 PROVE (a \o b)[i] = s[IF i < k THEN i ELSE i + 1]
  <2>0. i \in Nat /\ i >= 1 /\ i <= Len(s) - 1 /\ i \in 1 .. Len(a) + Len(b)
    BY <1>1, <1>2, <1>3
  <2>1. CASE i < k
    BY <1>1, <1>3, <1>5, <2>0, <2>1
  <2>2. CASE i >= k
    <3>1. (a \o b)[i] = b[i - (k - 1)]
      BY <1>1, <1>3, <1>5, <2>0, <2>2
    <3>2. i - (k - 1) \in 1 .. Len(s) - k /\ i - (k - 1) + k = i + 1
      BY <1>3, <2>0, <2>2
    <3>3. b[i - (k - 1)] = s[i - (k - 1) + k]
      BY <1>2, <3>2
    <3>. QED
      BY <1>3, <2>0, <2>2, <3>1, <3>2, <3>3
  <2>. QED
    BY <1>3, <2>0, <2>1, <2>2
<1>. QED
  BY <1>1, <1>2, <1>3, <1>4, <1>6

LEMMA RemoveFirstDrops ==
    ASSUME NEW S, NEW s \in Seq(S), NoDoubles(s), NEW e \in ToSet(s)
    PROVE  /\ RemoveFirst(s, e) \in Seq(S) /\ NoDoubles(RemoveFirst(s, e))
           /\ ToSet(RemoveFirst(s, e)) \subseteq ToSet(s) \ {e}
<1>. DEFINE I == {i \in 1 .. Len(s) : s[i] = e}
            k == Min(I)
<1>1. (\E i \in 1 .. Len(s) : s[i] = e) /\ Len(s) \in Nat
  BY DEF ToSet
<1>2. k \in 1 .. Len(s) /\ s[k] = e
  <2>1. I \in SUBSET Nat /\ I # {}
    BY <1>1
  <2>. QED
    BY <2>1, LeastOf
<1>3. RemoveFirst(s, e) = RemoveAt(s, k)
  BY <1>1 DEF RemoveFirst, SelectInSeq
<1>. HIDE DEF I, k
<1>4. /\ RemoveAt(s, k) \in Seq(S) /\ Len(RemoveAt(s, k)) = Len(s) - 1
      /\ \A i \in 1 .. Len(s) - 1 : RemoveAt(s, k)[i] = s[IF i < k THEN i ELSE i + 1]
  BY <1>2, RemoveAtDrops
<1>. DEFINE t == RemoveAt(s, k)
<1>. HIDE DEF t
<1>5. NoDoubles(t)
  <2>. DEFINE from(i) == IF i < k THEN i ELSE i + 1
  <2>1. DOMAIN t = 1 .. Len(s) - 1
    BY <1>1, <1>4 DEF t
  <2>2. ASSUME NEW i \in DOMAIN t PROVE t[i] = s[from(i)] /\ from(i) \in DOMAIN s
    BY <1>1, <1>2, <1>4, <2>1 DEF t
  <2>3. ASSUME NEW i \in DOMAIN t, NEW j \in DOMAIN t, from(i) = from(j) PROVE i = j
    BY <1>1, <1>2, <2>1, <2>3
  <2>. HIDE DEF from
  <2>. QED
    BY <2>2, <2>3 DEF NoDoubles
<1>6. ASSUME NEW i \in DOMAIN t PROVE t[i] \in ToSet(s) \ {e}
  BY <1>1, <1>2, <1>4 DEF NoDoubles, t, ToSet
<1>. QED
  BY <1>3, <1>4, <1>5, <1>6 DEF t, ToSet

------------------------------------------------------------------------------
(* 2. Messages under way                                                      *)

LEMMA MessageIs ==
    ASSUME MessageTypes, NEW p \in Procs
    PROVE  /\ msg[p].kind \in OwnKinds \union BotKinds \union AdminKinds
           /\ msg[p].bot \in Bots
           /\ msg[p].room \in Rooms \union Bots
           /\ msg[p].kind \in OwnKinds => msg[p].room \in Rooms /\ msg[p].room \notin Bots
           /\ msg[p].kind \in BotKinds => msg[p].room \in Bots /\ msg[p].room \notin Rooms
           /\ msg[p].kind \notin OwnKinds => msg[p].target \in Rooms
           /\ msg[p].kind = "changebot" => msg[p].to \in Bots
  BY MessagesAssumption DEF MessageTypes, Message

LEMMA RowLock ==
    ASSUME NEW r \in Rooms
    PROVE  <<"row", r>> \in Locks /\ <<"row", r>> # None
  BY StartsAssumption DEF Locks, RowLocks

(* A step that takes no lock from another handler, and no row that it holds.  *)
Others(p) ==
    \A q \in Procs \ {p} :
        pc'[q] = pc[q] /\ room'[q] = room[q] /\ write'[q] = write[q] /\ uses'[q] = uses[q]

OthersLocks(p) == \A q \in Procs \ {p}, l \in Locks : locks'[l] = q <=> locks[l] = q

OthersRows(p) ==
    \A q \in Procs \ {p}, r \in Rooms : locks[<<"row", r>>] = q => rows'[r] = rows[r]

(* Who is blocked now was so before, or has been missed by those who looked.  *)
BlocksAreMissed ==
    \A r \in blocked' : (r \in blocked /\ missed'[r] = missed[r]) \/ missed'[r] = Looked(r)

LEMMA OthersKeep ==
    ASSUME HandlersInv, NEW p \in Procs, Others(p), OthersLocks(p), OthersRows(p), BlocksAreMissed,
           msg' = msg, pc'[p] # "queued", NEW q \in Procs \ {p}
    PROVE  Keeps(q)'
<1>1. /\ pc'[q] = pc[q] /\ room'[q] = room[q] /\ write'[q] = write[q] /\ uses'[q] = uses[q]
      /\ \A l \in Locks : locks'[l] = q <=> locks[l] = q
      /\ \A r \in Rooms : locks[<<"row", r>>] = q => rows'[r] = rows[r] /\ locks'[<<"row", r>>] = q
  BY RowLock DEF Others, OthersLocks, OthersRows
<1>2. Keeps(q) /\ MessageTypes
  BY DEF HandlersInv
<1>3. PlaceFits(q)'
  BY <1>1, <1>2 DEF Keeps, PlaceFits, Imp
<1>4. LocksFit(q)'
  BY <1>1, <1>2 DEF Keeps, LocksFit, HoldsOnly
<1>5. WriteFits(q)'
  <2>1. write[q] # None => write[q].room \in Rooms
    BY <1>2 DEF MessageTypes, Write
  <2>. QED
    BY <1>1, <1>2, <2>1 DEF Keeps, WriteFits, RowWrites
<1>6. HomeIsHeld(q)'
  BY <1>1, <1>2 DEF Keeps, HomeIsHeld, AtHome, Imp
<1>7. JoinsUnblocked(q)'
  <2>1. ASSUME msg[q].kind = "join", pc[q] \in {"target", "insert"} \/ write[q] # None
        PROVE  msg[q].target \notin blocked' \/ q \in missed'[msg[q].target]
    <3>1. msg[q].target \notin blocked \/ q \in missed[msg[q].target]
      BY <1>2, <2>1 DEF Keeps, JoinsUnblocked
    <3>2. q \in Looked(msg[q].target)
      BY <1>2, <2>1 DEF Keeps, WriteFits, Looked
    <3>. QED
      BY <3>1, <3>2 DEF BlocksAreMissed
  <2>. QED
    BY <1>1, <2>1 DEF JoinsUnblocked
<1>8. NoDoubles(uses'[q])
  BY <1>1, <1>2 DEF Keeps
<1>. QED
  BY <1>3, <1>4, <1>5, <1>6, <1>7, <1>8 DEF Keeps

LEMMA StepKeeps ==
    ASSUME HandlersInv, NEW p \in Procs, Others(p), OthersLocks(p), OthersRows(p), BlocksAreMissed,
           msg' = msg, pc'[p] # "queued", MessageTypes', Keeps(p)'
    PROVE  HandlersInv'
  BY OthersKeep DEF HandlersInv

(* A step that changes no table.                                              *)
LEMMA QuietStepKeeps ==
    ASSUME HandlersInv, NEW p \in Procs, Others(p), OthersLocks(p),
           UNCHANGED <<rows, blocked, missed, msg>>, pc'[p] # "queued", MessageTypes', Keeps(p)'
    PROVE  HandlersInv'
  BY StepKeeps DEF OthersRows, BlocksAreMissed

(* Taking a lock that is free or one's own, and giving back all.              *)
LEMMA LockTaken ==
    ASSUME MessageTypes, NEW p \in Procs, NEW w \in Locks, locks[w] \in {None, p}, locks' = [locks EXCEPT ![w] = p]
    PROVE  /\ OthersLocks(p) /\ locks' \in [Locks -> Procs \union {None}] /\ locks'[w] = p
           /\ \A l \in Locks : locks'[l] = p <=> locks[l] = p \/ l = w
  BY MessagesAssumption DEF MessageTypes, OthersLocks

LEMMA LocksReleased ==
    ASSUME MessageTypes, NEW p \in Procs, locks' = Released(p)
    PROVE  /\ OthersLocks(p) /\ locks' \in [Locks -> Procs \union {None}]
           /\ \A l \in Locks : locks'[l] # p
  BY MessagesAssumption DEF MessageTypes, OthersLocks, Released

LEMMA LocksStay ==
    ASSUME NEW p \in Procs, locks' = locks
    PROVE  OthersLocks(p)
  BY DEF OthersLocks

(* The counter that is next is the one with the least number.                 *)
LEMMA NextUseIs ==
    ASSUME MessageTypes, NEW p \in Procs, uses[p] # <<>>
    PROVE  /\ NextUse(p) \in ToSet(uses[p]) /\ NextUse(p) \in Uses /\ NextUse(p) \in Nat
           /\ \A u \in ToSet(uses[p]) : NextUse(p) <= u
<1>1. uses[p] \in Seq(Uses) /\ ToSet(uses[p]) \subseteq Uses
  BY DEF MessageTypes, ToSet
<1>2. ToSet(uses[p]) \in SUBSET Nat /\ ToSet(uses[p]) # {}
  <2>1. Len(uses[p]) \in Nat /\ Len(uses[p]) # 0 /\ DOMAIN uses[p] = 1 .. Len(uses[p])
    BY <1>1
  <2>2. uses[p][1] \in ToSet(uses[p])
    BY <2>1 DEF ToSet
  <2>. QED
    BY <1>1, <2>2, MessagesAssumption
<1>. QED
  BY <1>1, <1>2, LeastOf DEF NextUse

LEMMA WantedIs ==
    ASSUME MessageTypes, NEW p \in Procs, PlaceFits(p)
    PROVE  /\ pc[p] = "room" => Wanted(p) = <<"room", room[p]>> /\ Wanted(p) \in RoomLocks
           /\ pc[p] = "channel" =>
                  Wanted(p) = IF rows[room[p]] # NoRow THEN <<"row", room[p]>> ELSE None
           /\ pc[p] = "target" => Wanted(p) = IF Finds(p) THEN <<"row", msg[p].target>> ELSE None
           /\ pc[p] = "insert" /\ rows[msg[p].target] = NoRow => Wanted(p) = <<"row", msg[p].target>>
           /\ pc[p] = "insert" => Wanted(p) = None \/ Wanted(p) = <<"row", msg[p].target>>
           /\ pc[p] = "blocking" => Wanted(p) = <<"blocked", msg[p].target>> /\ Wanted(p) \in BlockLocks
           /\ pc[p] = "usage" /\ uses[p] # <<>> => Wanted(p) = <<"use", NextUse(p)>> /\ Wanted(p) \in UseLocks
           /\ pc[p] = "usage" /\ uses[p] = <<>> => Wanted(p) = None
           /\ pc[p] \in Ended \union {"queued", "command", "answer", "commit", "flush"} => Wanted(p) = None
<1>1. /\ room[p] \in Rooms \union Bots /\ pc[p] \in States
      /\ pc[p] = "blocking" => msg[p].target \in Rooms
  BY MessageIs DEF MessageTypes, PlaceFits, OwnKinds
<1>2. pc[p] = "room" => Wanted(p) = <<"room", room[p]>> /\ Wanted(p) \in RoomLocks
  BY <1>1 DEF Wanted, RoomLocks
<1>3. pc[p] = "channel" => Wanted(p) = IF rows[room[p]] # NoRow THEN <<"row", room[p]>> ELSE None
  BY DEF Wanted
<1>4. pc[p] = "target" => Wanted(p) = IF Finds(p) THEN <<"row", msg[p].target>> ELSE None
  BY DEF Wanted
<1>5. pc[p] = "insert" /\ rows[msg[p].target] = NoRow => Wanted(p) = <<"row", msg[p].target>>
  BY DEF Wanted
<1>6. pc[p] = "insert" => Wanted(p) = None \/ Wanted(p) = <<"row", msg[p].target>>
  BY DEF Wanted
<1>7. pc[p] = "blocking" => Wanted(p) = <<"blocked", msg[p].target>> /\ Wanted(p) \in BlockLocks
  BY <1>1 DEF Wanted, BlockLocks
<1>8. pc[p] = "usage" /\ uses[p] # <<>> => Wanted(p) = <<"use", NextUse(p)>> /\ Wanted(p) \in UseLocks
  BY NextUseIs DEF Wanted, UseLocks
<1>9. pc[p] = "usage" /\ uses[p] = <<>> => Wanted(p) = None
  BY DEF Wanted
<1>10. pc[p] \in Ended \union {"queued", "command", "answer", "commit", "flush"} => Wanted(p) = None
  BY DEF Wanted, Ended
<1>. QED
  BY <1>2, <1>3, <1>4, <1>5, <1>6, <1>7, <1>8, <1>9, <1>10

LEMMA LockWanted ==
    ASSUME MessageTypes, NEW p \in Procs, NEW w \in Locks, Wanted(p) = w, Lock(p)
    PROVE  /\ OthersLocks(p) /\ locks' \in [Locks -> Procs \union {None}] /\ locks'[w] = p
           /\ \A l \in Locks : locks'[l] = p <=> locks[l] = p \/ l = w
  BY LockTaken DEF Lock

(* FOR UPDATE and UPDATE, of a row that is there and of one that is not.      *)
LEMMA RowLocked ==
    ASSUME MessageTypes, NEW p \in Procs, NEW r \in Rooms, NEW there \in BOOLEAN,
           Wanted(p) = IF there THEN <<"row", r>> ELSE None, LockRow(p)
    PROVE  /\ OthersLocks(p) /\ locks' \in [Locks -> Procs \union {None}]
           /\ \A l \in Locks : locks[l] = p => locks'[l] = p
           /\ \A l \in Locks : locks'[l] = p => locks[l] = p \/ (there /\ l = <<"row", r>>)
           /\ there => locks'[<<"row", r>>] = p
<1>1. CASE there
  BY <1>1, RowLock, LockWanted DEF LockRow
<1>2. CASE ~there
  BY <1>2, LocksStay DEF LockRow, MessageTypes
<1>. QED
  BY <1>1, <1>2

(* A step to another state, perhaps with a lock.                              *)
LEMMA GoesOn ==
    ASSUME HandlersInv, NEW p \in Procs, NEW s \in States \ {"queued"}, pc' = [pc EXCEPT ![p] = s],
           UNCHANGED <<rows, blocked, missed, msg, room, write, uses>>,
           found' \in [Procs -> Procs \union {None}],
           OthersLocks(p), locks' \in [Locks -> Procs \union {None}],
           PlaceFits(p)', LocksFit(p)', WriteFits(p)', HomeIsHeld(p)', JoinsUnblocked(p)'
    PROVE  HandlersInv'
<1>1. MessageTypes /\ Keeps(p)
  BY DEF HandlersInv
<1>2. MessageTypes'
  BY <1>1 DEF MessageTypes
<1>3. Others(p) /\ pc'[p] # "queued"
  BY <1>1 DEF Others, MessageTypes
<1>4. Keeps(p)'
  BY <1>1 DEF Keeps
<1>. QED
  BY <1>2, <1>3, <1>4, QuietStepKeeps

LEMMA BeginKeeps ==
    ASSUME HandlersInv, NEW p \in Procs, Begin(p)
    PROVE  HandlersInv'
<1>1. MessageTypes /\ Keeps(p) /\ pc[p] = "queued"
  BY DEF HandlersInv, Begin
<1>2. /\ pc' = [pc EXCEPT ![p] = "room"] /\ pc'[p] = "room"
      /\ UNCHANGED <<rows, blocked, missed, msg, room, write, found, uses, locks>>
  BY <1>1 DEF Begin, Goto, MessageTypes
<1>3. PlaceFits(p)' /\ LocksFit(p)' /\ WriteFits(p)' /\ HomeIsHeld(p)' /\ JoinsUnblocked(p)'
  BY <1>1, <1>2 DEF Keeps, PlaceFits, LocksFit, HoldsOnly, WriteFits, HomeIsHeld, AtHome, JoinsUnblocked, Imp
<1>. QED
  BY <1>1, <1>2, <1>3, LocksStay, GoesOn DEF MessageTypes, States

LEMMA LockRoomKeeps ==
    ASSUME HandlersInv, NEW p \in Procs, LockRoom(p)
    PROVE  HandlersInv'
<1>1. MessageTypes /\ Keeps(p) /\ pc[p] = "room"
  BY DEF HandlersInv, LockRoom
<1>2. PICK s \in {"command", "channel"} :
          /\ s = IF msg[p].room \in Bots THEN "command" ELSE "channel"
          /\ pc' = [pc EXCEPT ![p] = s]
  BY DEF LockRoom, Goto
<1>3. pc'[p] = s /\ UNCHANGED <<rows, blocked, missed, msg, room, write, found, uses>>
  BY <1>1, <1>2 DEF LockRoom, MessageTypes
<1>4. Wanted(p) \in RoomLocks /\ Wanted(p) \in Locks /\ Lock(p)
  BY <1>1, WantedIs DEF Keeps, Locks, LockRoom, AcquireTwitchAdvisoryLock
<1>5. /\ OthersLocks(p) /\ locks' \in [Locks -> Procs \union {None}]
      /\ \A l \in Locks : locks'[l] = p <=> locks[l] = p \/ l = Wanted(p)
  BY <1>1, <1>4, LockWanted
<1>6. msg[p].room \in Rooms \union Bots /\ (msg[p].kind \in AdminKinds \/ ~Imp(p))
      /\ msg[p].kind \in OwnKinds \union BotKinds \union AdminKinds
  BY <1>1, MessageIs DEF Keeps, PlaceFits, AdminKinds
<1>7. PlaceFits(p)'
  BY <1>1, <1>2, <1>3, <1>6 DEF Keeps, PlaceFits, Imp
<1>8. LocksFit(p)'
  BY <1>1, <1>2, <1>3, <1>4, <1>5, <1>6
  DEF Keeps, LocksFit, HoldsOnly, Ended, OwnKinds, BotKinds, AdminKinds
<1>9. WriteFits(p)' /\ JoinsUnblocked(p)'
  BY <1>1, <1>2, <1>3 DEF Keeps, WriteFits, JoinsUnblocked
<1>10. HomeIsHeld(p)'
  <2>1. AtHome(p)' => AtHome(p)
    BY <1>1, <1>2, <1>3, MessagesAssumption DEF AtHome, Imp
  <2>2. AtHome(p) => locks'[<<"row", msg[p].room>>] = p
    BY <1>1, <1>5, RowLock DEF Keeps, HomeIsHeld, AtHome
  <2>. QED
    BY <1>1, <1>3, <2>1, <2>2 DEF Keeps, HomeIsHeld
<1>. QED
  BY <1>1, <1>2, <1>3, <1>5, <1>7, <1>8, <1>9, <1>10, GoesOn DEF MessageTypes, States

LEMMA ReadChannelKeeps ==
    ASSUME HandlersInv, NEW p \in Procs, ReadChannel(p)
    PROVE  HandlersInv'
<1>1. MessageTypes /\ Keeps(p) /\ pc[p] = "channel" /\ write[p] = None
  BY DEF HandlersInv, Keeps, WriteFits, ReadChannel
<1>2. room[p] \in Rooms /\ msg[p].kind \in OwnKinds \union AdminKinds
  BY <1>1, MessageIs, MessagesAssumption DEF Keeps, PlaceFits, Imp, AdminKinds
<1>3. Visible(p, room[p]) = rows[room[p]]
  BY <1>1 DEF Visible, Written
<1>4. PICK s \in {"command", "commit"} :
          /\ s = IF Serves(p, rows[room[p]]) THEN "command" ELSE "commit"
          /\ pc' = [pc EXCEPT ![p] = s]
  BY <1>3 DEF ReadChannel, Goto
<1>5. pc'[p] = s /\ UNCHANGED <<rows, blocked, missed, msg, room, write, found, uses>>
  BY <1>1, <1>4 DEF ReadChannel, MessageTypes
<1>6. /\ OthersLocks(p) /\ locks' \in [Locks -> Procs \union {None}]
      /\ \A l \in Locks : locks[l] = p => locks'[l] = p
      /\ rows[room[p]] # NoRow => locks'[<<"row", room[p]>>] = p
  <2>1. LockRow(p) /\ Wanted(p) = IF rows[room[p]] # NoRow THEN <<"row", room[p]>> ELSE None
    BY <1>1, WantedIs DEF Keeps, ReadChannel, GetChannelByTwitchIDForUpdate
  <2>. QED
    BY <1>1, <1>2, <2>1, RowLocked
<1>7. PlaceFits(p)' /\ WriteFits(p)' /\ JoinsUnblocked(p)'
  BY <1>1, <1>4, <1>5 DEF Keeps, PlaceFits, WriteFits, JoinsUnblocked, Imp
<1>8. LocksFit(p)'
  BY <1>2, <1>4, <1>5 DEF LocksFit, HoldsOnly, Ended, OwnKinds, BotKinds, AdminKinds
<1>9. HomeIsHeld(p)'
  <2>1. CASE Imp(p)
    BY <1>1, <1>4, <1>5, <1>6, <2>1, RowLock DEF Keeps, HomeIsHeld, AtHome, Imp
  <2>2. CASE ~Imp(p)
    BY <1>1, <1>2, <1>4, <1>5, <1>6, <2>2 DEF HomeIsHeld, AtHome, Imp, Serves
  <2>. QED
    BY <2>1, <2>2
<1>. QED
  BY <1>1, <1>4, <1>5, <1>6, <1>7, <1>8, <1>9, GoesOn DEF MessageTypes, States

(* A step that may also write, change rooms or count.                         *)
LEMMA StepsOn ==
    ASSUME HandlersInv, NEW p \in Procs, NEW s \in States \ {"queued"}, pc' = [pc EXCEPT ![p] = s],
           NEW w \in Write \union {None}, write' = [write EXCEPT ![p] = w],
           NEW r \in Rooms \union Bots, room' = [room EXCEPT ![p] = r],
           NEW used \in Seq(Uses), NoDoubles(used), uses' = [uses EXCEPT ![p] = used],
           UNCHANGED <<rows, blocked, missed, msg, found>>,
           OthersLocks(p), locks' \in [Locks -> Procs \union {None}],
           PlaceFits(p)', LocksFit(p)', WriteFits(p)', HomeIsHeld(p)', JoinsUnblocked(p)'
    PROVE  HandlersInv'
<1>1. MessageTypes /\ Keeps(p)
  BY DEF HandlersInv
<1>2. MessageTypes'
  BY <1>1 DEF MessageTypes
<1>3. Others(p) /\ pc'[p] # "queued"
  BY <1>1 DEF Others, MessageTypes
<1>4. Keeps(p)'
  BY <1>1 DEF Keeps, MessageTypes
<1>. QED
  BY <1>2, <1>3, <1>4, QuietStepKeeps

(* The end of a command, which may have written something.                    *)
LEMMA EndsCommand ==
    ASSUME HandlersInv, NEW p \in Procs, pc[p] \in {"command", "blocking", "target", "insert", "answer"},
           NEW s \in {"answer", "commit"}, pc' = [pc EXCEPT ![p] = s],
           NEW w \in Write \union {None}, write' = [write EXCEPT ![p] = w],
           UNCHANGED <<rows, blocked, missed, msg, room, uses, found>>,
           OthersLocks(p), locks' \in [Locks -> Procs \union {None}],
           \A l \in Locks : locks[l] = p => locks'[l] = p,
           WriteFits(p)',
           msg[p].kind = "join" /\ w # None => pc[p] \in {"target", "insert"} \/ write[p] # None
    PROVE  HandlersInv'
<1>1. MessageTypes /\ Keeps(p)
  BY DEF HandlersInv
<1>2. pc'[p] = s /\ write'[p] = w /\ s \in States \ {"queued"} /\ Others(p)
  BY <1>1 DEF MessageTypes, States, Others
<1>3. /\ uses' = [uses EXCEPT ![p] = uses[p]] /\ uses[p] \in Seq(Uses) /\ NoDoubles(uses[p])
      /\ room' = [room EXCEPT ![p] = room[p]] /\ room[p] \in Rooms \union Bots
  BY <1>1 DEF MessageTypes, Keeps
<1>4. PlaceFits(p)'
  BY <1>1, <1>2 DEF Keeps, PlaceFits, Imp
<1>5. LocksFit(p)'
  BY <1>2 DEF LocksFit, HoldsOnly, Ended
<1>6. HomeIsHeld(p)'
  <2>1. AtHome(p)' => AtHome(p)
    BY <1>2 DEF AtHome, Imp
  <2>2. AtHome(p) => locks'[<<"row", msg[p].room>>] = p
    BY <1>1, RowLock DEF Keeps, HomeIsHeld, AtHome
  <2>. QED
    BY <1>1, <2>1, <2>2 DEF Keeps, HomeIsHeld
<1>7. JoinsUnblocked(p)'
  <2>1. msg[p].kind = "join" /\ w # None => msg[p].target \notin blocked \/ p \in missed[msg[p].target]
    BY <1>1 DEF Keeps, JoinsUnblocked
  <2>. QED
    BY <1>2, <2>1 DEF JoinsUnblocked
<1>. QED
  BY <1>2, <1>3, <1>4, <1>5, <1>6, <1>7, StepsOn

LEMMA cmdTalkKeeps ==
    ASSUME HandlersInv, NEW p \in Procs, cmdTalk(p)
    PROVE  HandlersInv'
<1>1. MessageTypes /\ Keeps(p) /\ pc[p] = "command" /\ write[p] = None
  BY DEF HandlersInv, Keeps, WriteFits, cmdTalk
<1>2. PICK S \in SUBSET Uses : \E used \in SetToSeqs(S) : uses' = [uses EXCEPT ![p] = used]
  BY DEF cmdTalk, recordUsage
<1>3. PICK used \in SetToSeqs(S) : uses' = [uses EXCEPT ![p] = used]
  BY <1>2
<1>4. used \in Seq(Uses) /\ NoDoubles(used)
  <2>1. IsFiniteSet(S)
    BY MessagesAssumption, FS_Subset
  <2>2. Cardinality(S) \in Nat
    BY <2>1, FS_CardinalityType
  <2>3. used \in [1 .. Cardinality(S) -> S] /\ \A i, j \in 1 .. Cardinality(S) : i # j => used[i] # used[j]
    BY <1>3 DEF SetToSeqs
  <2>4. used \in [1 .. Cardinality(S) -> Uses] /\ DOMAIN used = 1 .. Cardinality(S)
    BY <2>3
  <2>. QED
    BY <2>2, <2>3, <2>4 DEF NoDoubles
<1>5. /\ pc' = [pc EXCEPT ![p] = "answer"] /\ pc'[p] = "answer"
      /\ UNCHANGED <<rows, blocked, missed, msg, room, write, found, locks>>
  BY <1>1 DEF cmdTalk, Goto, MessageTypes
<1>6. PlaceFits(p)' /\ LocksFit(p)' /\ WriteFits(p)' /\ JoinsUnblocked(p)'
  BY <1>1, <1>5 DEF Keeps, PlaceFits, LocksFit, HoldsOnly, WriteFits, JoinsUnblocked, Imp, Ended
<1>7. HomeIsHeld(p)'
  BY <1>1, <1>5 DEF Keeps, HomeIsHeld, AtHome, Imp
<1>8. /\ write' = [write EXCEPT ![p] = None] /\ room' = [room EXCEPT ![p] = room[p]]
      /\ room[p] \in Rooms \union Bots /\ "answer" \in States \ {"queued"}
      /\ locks' \in [Locks -> Procs \union {None}]
  BY <1>1, <1>5 DEF MessageTypes, States
<1>. QED
  BY <1>3, <1>4, <1>5, <1>6, <1>7, <1>8, LocksStay, StepsOn

LEMMA cmdLeaveKeeps ==
    ASSUME HandlersInv, NEW p \in Procs, cmdLeave(p)
    PROVE  HandlersInv'
<1>1. MessageTypes /\ Keeps(p) /\ pc[p] = "command" /\ msg[p].kind = "leave"
  BY DEF HandlersInv, cmdLeave
<1>2. room[p] = msg[p].room /\ room[p] \in Rooms
  BY <1>1, MessageIs DEF Keeps, PlaceFits, Imp, OwnKinds
<1>. DEFINE w == [room |-> room[p], set |-> "leave", bot |-> None, by |-> p]
<1>3. /\ pc' = [pc EXCEPT ![p] = "answer"] /\ write' = [write EXCEPT ![p] = w]
      /\ UNCHANGED <<rows, blocked, missed, msg, room, uses, found, locks>>
  BY DEF cmdLeave, Goto, Writes
<1>4. w \in Write /\ w.set = "leave" /\ w.room = msg[p].room
  BY <1>2 DEF Write, RowWrites
<1>5. locks[<<"row", msg[p].room>>] = p
  BY <1>1, <1>2 DEF Keeps, HomeIsHeld, AtHome
<1>. HIDE DEF w
<1>6. WriteFits(p)'
  BY <1>1, <1>3, <1>4, <1>5 DEF MessageTypes, WriteFits
<1>7. locks' \in [Locks -> Procs \union {None}] /\ OthersLocks(p)
  BY <1>1, <1>3, LocksStay DEF MessageTypes
<1>. QED
  BY <1>1, <1>3, <1>4, <1>6, <1>7, EndsCommand

LEMMA FindTargetKeeps ==
    ASSUME HandlersInv, NEW p \in Procs, FindTarget(p)
    PROVE  HandlersInv'
<1>1. /\ MessageTypes /\ Keeps(p) /\ pc[p] = "command" /\ write[p] = None
      /\ ~Imp(p) /\ msg[p].kind \notin OwnKinds
  BY DEF HandlersInv, Keeps, WriteFits, FindTarget
<1>2. msg[p].target \in Rooms /\ Visible(p, msg[p].target) = rows[msg[p].target]
  BY <1>1, MessageIs DEF Visible, Written
<1>3. found' \in [Procs -> Procs \union {None}]
  <2>1. rows[msg[p].target] # NoRow => rows[msg[p].target].id \in Procs \union {None}
    BY <1>1, <1>2 DEF MessageTypes, Row
  <2>. QED
    BY <1>1, <1>2, <2>1 DEF FindTarget, GetChannelBotByName, MessageTypes
<1>4. PICK s \in {"answer", "target", "commit", "blocking"} :
          /\ pc' = [pc EXCEPT ![p] = s]
          /\ s = "blocking" => msg[p].kind \in {"block", "unblock"}
          /\ s = "target" /\ msg[p].kind = "join" => ~IsBlockedUser(msg[p].target)
  <2>. DEFINE kind == msg[p].kind
              t == rows[msg[p].target]
  <2>0. kind \in {"join", "part", "block", "unblock", "changebot", "deletechannel", "imp"}
    BY <1>1, MessageIs DEF OwnKinds, BotKinds, AdminKinds
  <2>1. CASE kind = "changebot"
    BY <1>2, <2>1 DEF FindTarget, Goto, GetChannelBotByName
  <2>2. CASE kind = "deletechannel"
    BY <1>2, <2>2 DEF FindTarget, Goto, GetChannelBotByName
  <2>3. CASE kind = "join"
    BY <2>3 DEF FindTarget, Goto
  <2>4. CASE kind \in {"block", "unblock"}
    BY <2>4 DEF FindTarget, Goto
  <2>5. CASE kind \in {"part", "imp"}
    BY <2>5 DEF FindTarget, Goto
  <2>. QED
    BY <2>0, <2>1, <2>2, <2>3, <2>4, <2>5
<1>5. pc'[p] = s /\ UNCHANGED <<rows, blocked, missed, msg, room, write, uses, locks>>
  BY <1>1, <1>4 DEF FindTarget, MessageTypes
<1>6. PlaceFits(p)' /\ WriteFits(p)'
  BY <1>1, <1>4, <1>5 DEF Keeps, PlaceFits, WriteFits, Imp
<1>7. LocksFit(p)'
  BY <1>1, <1>4, <1>5 DEF Keeps, LocksFit, HoldsOnly, Ended
<1>8. HomeIsHeld(p)'
  BY <1>1, <1>4, <1>5 DEF Keeps, HomeIsHeld, AtHome, Imp
<1>9. JoinsUnblocked(p)'
  BY <1>1, <1>4, <1>5 DEF JoinsUnblocked, IsBlockedUser
<1>10. s \in States \ {"queued"} /\ locks' \in [Locks -> Procs \union {None}]
  BY <1>1, <1>5 DEF States, MessageTypes
<1>. QED
  BY <1>3, <1>4, <1>5, <1>6, <1>7, <1>8, <1>9, <1>10, LocksStay, GoesOn

LEMMA cmdAdminBlockKeeps ==
    ASSUME HandlersInv, NEW p \in Procs, cmdAdminBlock(p)
    PROVE  HandlersInv'
<1>1. MessageTypes /\ Keeps(p) /\ pc[p] = "blocking" /\ msg[p].kind = "block" /\ write[p] = None
  BY DEF HandlersInv, Keeps, WriteFits, cmdAdminBlock
<1>2. msg[p].target \in Rooms /\ msg[p].kind \in AdminKinds
  BY <1>1, MessageIs DEF OwnKinds, AdminKinds
<1>. DEFINE v == [room |-> msg[p].target, set |-> "block", bot |-> None, by |-> p]
<1>3. v \in Write /\ v.set = "block" /\ v.room = msg[p].target
  BY <1>2 DEF Write
<1>4. PICK w \in {None, v} :
          /\ write' = [write EXCEPT ![p] = w]
          /\ OthersLocks(p) /\ locks' \in [Locks -> Procs \union {None}]
          /\ \A l \in Locks : locks[l] = p => locks'[l] = p
  <2>1. CASE IsBlockedUser(msg[p].target) /\ locks[<<"blocked", msg[p].target>>] = None
    <3>1. write' = write /\ locks' = locks
      BY <2>1 DEF cmdAdminBlock
    <3>2. write' = [write EXCEPT ![p] = None]
      BY <1>1, <3>1 DEF MessageTypes
    <3>. QED
      BY <1>1, <3>1, <3>2, LocksStay DEF MessageTypes
  <2>2. CASE ~(IsBlockedUser(msg[p].target) /\ locks[<<"blocked", msg[p].target>>] = None)
    <3>1. Lock(p) /\ write' = [write EXCEPT ![p] = v]
      BY <2>2 DEF cmdAdminBlock, Writes
    <3>2. Wanted(p) \in Locks
      BY <1>1, WantedIs DEF Keeps, Locks
    <3>. QED
      BY <1>1, <3>1, <3>2, LockWanted
  <2>. QED
    BY <2>1, <2>2
<1>5. pc' = [pc EXCEPT ![p] = "target"] /\ UNCHANGED <<rows, blocked, missed, msg, room, uses, found>>
  BY DEF cmdAdminBlock, Goto
<1>6. pc'[p] = "target" /\ write'[p] = w /\ w \in Write \union {None}
  BY <1>1, <1>3, <1>4, <1>5 DEF MessageTypes
<1>. HIDE DEF v
<1>7. PlaceFits(p)' /\ JoinsUnblocked(p)'
  BY <1>1, <1>2, <1>5, <1>6 DEF Keeps, PlaceFits, JoinsUnblocked, Imp, OwnKinds, AdminKinds
<1>8. WriteFits(p)'
  BY <1>1, <1>3, <1>4, <1>5, <1>6 DEF WriteFits, RowWrites
<1>9. LocksFit(p)'
  BY <1>1, <1>2, <1>5, <1>6 DEF LocksFit, HoldsOnly, Ended, OwnKinds, BotKinds
<1>10. HomeIsHeld(p)'
  BY <1>1, <1>4, <1>5, <1>6, RowLock DEF Keeps, HomeIsHeld, AtHome, Imp
<1>11. /\ uses' = [uses EXCEPT ![p] = uses[p]] /\ uses[p] \in Seq(Uses) /\ NoDoubles(uses[p])
       /\ room' = [room EXCEPT ![p] = room[p]] /\ room[p] \in Rooms \union Bots
       /\ "target" \in States \ {"queued"}
  BY <1>1, <1>5 DEF MessageTypes, Keeps, States
<1>. QED
  BY <1>4, <1>5, <1>6, <1>7, <1>8, <1>9, <1>10, <1>11, StepsOn

LEMMA cmdAdminUnblockKeeps ==
    ASSUME HandlersInv, NEW p \in Procs, cmdAdminUnblock(p)
    PROVE  HandlersInv'
<1>1. MessageTypes /\ Keeps(p) /\ pc[p] = "blocking" /\ msg[p].kind = "unblock" /\ write[p] = None
  BY DEF HandlersInv, Keeps, WriteFits, cmdAdminUnblock
<1>2. msg[p].target \in Rooms
  BY <1>1, MessageIs DEF OwnKinds
<1>. DEFINE v == [room |-> msg[p].target, set |-> "unblock", bot |-> None, by |-> p]
<1>3. v \in Write /\ v.set = "unblock"
  BY <1>2 DEF Write
<1>4. PICK w \in {None, v} :
          /\ write' = [write EXCEPT ![p] = w]
          /\ OthersLocks(p) /\ locks' \in [Locks -> Procs \union {None}]
          /\ \A l \in Locks : locks[l] = p => locks'[l] = p
  <2>1. CASE ~IsBlockedUser(msg[p].target)
    <3>1. write' = write /\ locks' = locks
      BY <2>1 DEF cmdAdminUnblock
    <3>2. write' = [write EXCEPT ![p] = None]
      BY <1>1, <3>1 DEF MessageTypes
    <3>. QED
      BY <1>1, <3>1, <3>2, LocksStay DEF MessageTypes
  <2>2. CASE IsBlockedUser(msg[p].target)
    <3>1. Lock(p) /\ write' = [write EXCEPT ![p] = v]
      BY <2>2 DEF cmdAdminUnblock, Writes
    <3>2. Wanted(p) \in Locks
      BY <1>1, WantedIs DEF Keeps, Locks
    <3>. QED
      BY <1>1, <3>1, <3>2, LockWanted
  <2>. QED
    BY <2>1, <2>2
<1>5. pc' = [pc EXCEPT ![p] = "answer"] /\ UNCHANGED <<rows, blocked, missed, msg, room, uses, found>>
  BY DEF cmdAdminUnblock, Goto
<1>6. pc'[p] = "answer" /\ write'[p] = w /\ w \in Write \union {None}
  BY <1>1, <1>3, <1>4, <1>5 DEF MessageTypes
<1>. HIDE DEF v
<1>7. WriteFits(p)'
  BY <1>3, <1>4, <1>6 DEF WriteFits, RowWrites
<1>. QED
  BY <1>1, <1>4, <1>5, <1>6, <1>7, EndsCommand

LEMMA handleJoinKeeps ==
    ASSUME HandlersInv, NEW p \in Procs, handleJoin(p)
    PROVE  HandlersInv'
<1>. DEFINE r == msg[p].target
            v == [room |-> r, set |-> "join", bot |-> msg[p].bot, by |-> p]
<1>1. /\ MessageTypes /\ Keeps(p) /\ pc[p] = "target" /\ msg[p].kind = "join" /\ write[p] = None
      /\ UNCHANGED <<rows, blocked, missed, msg, room, uses, found>>
  BY DEF HandlersInv, Keeps, WriteFits, handleJoin, Target
<1>2. r \in Rooms /\ msg[p].bot \in Bots
  BY <1>1, MessageIs DEF OwnKinds
<1>3. v \in Write /\ v.set = "join" /\ v.room = r /\ v.bot = msg[p].bot
  BY <1>2 DEF Write, RowWrites
<1>4. /\ OthersLocks(p) /\ locks' \in [Locks -> Procs \union {None}]
      /\ \A l \in Locks : locks[l] = p => locks'[l] = p
      /\ \A l \in Locks : locks'[l] = p => locks[l] = p \/ rows[r] # NoRow
      /\ rows[r] # NoRow => locks'[<<"row", r>>] = p
  <2>1. LockRow(p) /\ Wanted(p) = IF rows[r] # NoRow THEN <<"row", r>> ELSE None
    BY <1>1, WantedIs DEF Keeps, handleJoin, GetChannelByTwitchIDForUpdate, Finds
  <2>. DEFINE there == rows[r] # NoRow
  <2>2. there \in BOOLEAN /\ Wanted(p) = IF there THEN <<"row", r>> ELSE None
    BY <2>1
  <2>. HIDE DEF there
  <2>3. /\ OthersLocks(p) /\ locks' \in [Locks -> Procs \union {None}]
        /\ \A l \in Locks : locks[l] = p => locks'[l] = p
        /\ \A l \in Locks : locks'[l] = p => locks[l] = p \/ (there /\ l = <<"row", r>>)
        /\ there => locks'[<<"row", r>>] = p
    BY <1>1, <1>2, <2>1, <2>2, RowLocked
  <2>. QED
    BY <2>3 DEF there
<1>. HIDE DEF v
<1>5. CASE rows[r] = NoRow /\ pc' = [pc EXCEPT ![p] = "insert"] /\ write' = write
  <2>1. pc'[p] = "insert" /\ "insert" \in States \ {"queued"}
    BY <1>1, <1>5 DEF MessageTypes, States
  <2>2. PlaceFits(p)' /\ WriteFits(p)' /\ JoinsUnblocked(p)'
    BY <1>1, <1>5, <2>1 DEF Keeps, PlaceFits, WriteFits, JoinsUnblocked, Imp
  <2>3. LocksFit(p)'
    BY <1>1, <1>4, <1>5, <2>1 DEF Keeps, LocksFit, HoldsOnly, Ended, OwnKinds
  <2>4. HomeIsHeld(p)'
    BY <1>1, <1>4, <1>5, <2>1, RowLock DEF Keeps, HomeIsHeld, AtHome, Imp
  <2>. QED
    BY <1>1, <1>4, <1>5, <2>1, <2>2, <2>3, <2>4, GoesOn DEF MessageTypes
<1>6. CASE rows[r] # NoRow /\ ~rows[r].active /\ pc' = [pc EXCEPT ![p] = "answer"] /\ write' = [write EXCEPT ![p] = v]
  <2>1. pc'[p] = "answer" /\ write'[p] = v
    BY <1>1, <1>6 DEF MessageTypes
  <2>2. WriteFits(p)'
    BY <1>1, <1>2, <1>3, <1>4, <1>6, <2>1 DEF WriteFits
  <2>. QED
    BY <1>1, <1>3, <1>4, <1>6, <2>2, EndsCommand
<1>7. CASE pc' = [pc EXCEPT ![p] = "answer"] /\ write' = write
  <2>1. write' = [write EXCEPT ![p] = None]
    BY <1>1, <1>7 DEF MessageTypes
  <2>2. WriteFits(p)'
    BY <1>1, <1>7 DEF WriteFits
  <2>. QED
    BY <1>1, <1>4, <1>7, <2>1, <2>2, EndsCommand
<1>. QED
  BY <1>5, <1>6, <1>7 DEF handleJoin, Goto, Writes, v

(* What an end with an error, or a crash, leaves.                             *)
LEMMA EndsAll ==
    ASSUME HandlersInv, NEW p \in Procs, NEW s \in Ended, pc' = [pc EXCEPT ![p] = s],
           NEW used \in Seq(Uses), NoDoubles(used), uses' = [uses EXCEPT ![p] = used],
           write' = [write EXCEPT ![p] = None], locks' = Released(p),
           UNCHANGED <<rows, blocked, missed, msg, room, found>>
    PROVE  HandlersInv'
<1>1. MessageTypes /\ Keeps(p)
  BY DEF HandlersInv
<1>2. /\ pc'[p] = s /\ s \in States \ {"queued"} /\ write'[p] = None
      /\ room' = [room EXCEPT ![p] = room[p]] /\ room[p] \in Rooms \union Bots
  BY <1>1 DEF MessageTypes, States, Ended
<1>3. /\ OthersLocks(p) /\ locks' \in [Locks -> Procs \union {None}]
      /\ \A l \in Locks : locks'[l] # p
  BY <1>1, LocksReleased
<1>4. PlaceFits(p)' /\ LocksFit(p)' /\ WriteFits(p)' /\ HomeIsHeld(p)' /\ JoinsUnblocked(p)'
  BY <1>1, <1>2, <1>3 DEF Keeps, PlaceFits, LocksFit, WriteFits, HomeIsHeld, AtHome, JoinsUnblocked, Imp, Ended
<1>. QED
  BY <1>2, <1>3, <1>4, StepsOn

LEMMA InsertKeeps ==
    ASSUME HandlersInv, NEW p \in Procs, Insert(p)
    PROVE  HandlersInv'
<1>. DEFINE r == msg[p].target
            v == [room |-> r, set |-> "insert", bot |-> msg[p].bot, by |-> p]
<1>1. /\ MessageTypes /\ Keeps(p) /\ pc[p] = "insert" /\ msg[p].kind = "join" /\ write[p] = None
      /\ UNCHANGED <<rows, blocked, missed, msg, room, uses, found>>
  BY DEF HandlersInv, Keeps, WriteFits, PlaceFits, Insert
<1>2. r \in Rooms /\ msg[p].bot \in Bots
  BY <1>1, MessageIs DEF OwnKinds
<1>3. v \in Write /\ v.set = "insert" /\ v.room = r /\ v.bot = msg[p].bot
  BY <1>2 DEF Write, RowWrites
<1>4. CASE rows[r] = NoRow
  <2>1. /\ Lock(p) /\ pc' = [pc EXCEPT ![p] = "answer"] /\ write' = [write EXCEPT ![p] = v]
    BY <1>4 DEF Insert, Goto, Writes
  <2>2. /\ OthersLocks(p) /\ locks' \in [Locks -> Procs \union {None}] /\ locks'[<<"row", r>>] = p
        /\ \A l \in Locks : locks[l] = p => locks'[l] = p
    BY <1>1, <1>2, <1>4, <2>1, WantedIs, RowLock, LockWanted DEF Keeps
  <2>3. pc'[p] = "answer" /\ write'[p] = v
    BY <1>1, <2>1 DEF MessageTypes
  <2>. HIDE DEF v
  <2>4. WriteFits(p)'
    BY <1>1, <1>2, <1>3, <1>4, <2>2, <2>3 DEF WriteFits
  <2>. QED
    BY <1>1, <1>3, <2>1, <2>2, <2>4, EndsCommand
<1>5. CASE rows[r] # NoRow
  <2>1. pc' = [pc EXCEPT ![p] = "failed"] /\ locks' = Released(p) /\ write' = write
    BY <1>5 DEF Insert, Goto
  <2>2. /\ write' = [write EXCEPT ![p] = None] /\ "failed" \in Ended
        /\ uses' = [uses EXCEPT ![p] = uses[p]] /\ uses[p] \in Seq(Uses) /\ NoDoubles(uses[p])
    BY <1>1, <2>1 DEF MessageTypes, Ended, Keeps
  <2>. QED
    BY <1>1, <2>1, <2>2, EndsAll
<1>. QED
  BY <1>4, <1>5

LEMMA handleLeaveKeeps ==
    ASSUME HandlersInv, NEW p \in Procs, handleLeave(p)
    PROVE  HandlersInv'
<1>. DEFINE r == msg[p].target
            set == IF write[p] = None THEN "leave" ELSE "expel"
            v == [room |-> r, set |-> set, bot |-> None, by |-> p]
            active == rows[r] # NoRow /\ rows[r].active
<1>1. /\ MessageTypes /\ Keeps(p) /\ pc[p] = "target" /\ msg[p].kind \in {"part", "block"}
      /\ UNCHANGED <<rows, blocked, missed, msg, room, uses, found>>
  BY DEF HandlersInv, handleLeave, Target
<1>2. r \in Rooms
  BY <1>1, MessageIs DEF OwnKinds
<1>3. Visible(p, r) = rows[r] /\ (write[p] # None => msg[p].kind = "block" /\ write[p].set = "block")
  <2>1. write[p] # None => msg[p].kind = "block" /\ write[p].set = "block"
    BY <1>1 DEF Keeps, WriteFits
  <2>2. CASE write[p] = None
    BY <2>2 DEF Visible, Written
  <2>3. CASE write[p] # None
    BY <2>1, <2>3 DEF Visible, Written
  <2>. QED
    BY <2>1, <2>2, <2>3
<1>4. /\ OthersLocks(p) /\ locks' \in [Locks -> Procs \union {None}]
      /\ \A l \in Locks : locks[l] = p => locks'[l] = p
      /\ rows[r] # NoRow => locks'[<<"row", r>>] = p
  <2>1. LockRow(p) /\ Wanted(p) = IF rows[r] # NoRow THEN <<"row", r>> ELSE None
    BY <1>1, WantedIs DEF Keeps, handleLeave, GetChannelByTwitchIDForUpdate, Finds
  <2>. QED
    BY <1>1, <1>2, <2>1, RowLocked
<1>5. PICK s \in {"answer", "commit"} : pc' = [pc EXCEPT ![p] = s]
  BY DEF handleLeave, Goto
<1>6. pc'[p] = s
  BY <1>1, <1>5 DEF MessageTypes
<1>7. CASE active
  <2>1. write' = [write EXCEPT ![p] = v]
    BY <1>3, <1>7 DEF handleLeave, Writes
  <2>2. v \in Write /\ v.set \in {"leave", "expel"} /\ v.room = r /\ (v.set = "expel" => msg[p].kind = "block")
    BY <1>2, <1>3 DEF Write, RowWrites
  <2>. HIDE DEF v
  <2>3. write'[p] = v
    BY <1>1, <2>1 DEF MessageTypes
  <2>4. WriteFits(p)'
    BY <1>1, <1>4, <1>5, <1>6, <1>7, <2>2, <2>3 DEF WriteFits
  <2>. QED
    BY <1>1, <1>4, <1>5, <2>1, <2>2, <2>4, EndsCommand
<1>8. CASE ~active
  <2>1. write' = write
    BY <1>3, <1>8 DEF handleLeave
  <2>2. write' = [write EXCEPT ![p] = write[p]] /\ write[p] \in Write \union {None}
    BY <1>1, <2>1 DEF MessageTypes
  <2>3. WriteFits(p)'
    BY <1>1, <1>3, <1>5, <1>6, <2>1 DEF Keeps, WriteFits, RowWrites
  <2>. QED
    BY <1>1, <1>4, <1>5, <2>2, <2>3, EndsCommand
<1>. QED
  BY <1>7, <1>8

(* The commands that change what has the ID they have read.                   *)
LEMMA ByIDKeeps ==
    ASSUME HandlersInv, NEW p \in Procs, pc[p] = "target", msg[p].kind \in {"changebot", "deletechannel"},
           LockRow(p), pc' = [pc EXCEPT ![p] = "answer"],
           NEW w \in Write, w.room = msg[p].target,
           \/ w.set = "bot" /\ msg[p].kind = "changebot" /\ w.bot \in Bots
           \/ w.set = "delete",
           write' = IF Finds(p) THEN [write EXCEPT ![p] = w] ELSE write,
           UNCHANGED <<rows, blocked, missed, msg, room, found, uses>>
    PROVE  HandlersInv'
<1>1. MessageTypes /\ Keeps(p) /\ write[p] = None
  BY DEF HandlersInv, Keeps, WriteFits
<1>2. msg[p].target \in Rooms
  BY <1>1, MessageIs DEF OwnKinds
<1>3. Finds(p) \in BOOLEAN
  BY DEF Finds
<1>4. /\ OthersLocks(p) /\ locks' \in [Locks -> Procs \union {None}]
      /\ \A l \in Locks : locks[l] = p => locks'[l] = p
      /\ Finds(p) => locks'[<<"row", msg[p].target>>] = p
  BY <1>1, <1>2, <1>3, WantedIs, RowLocked DEF Keeps
<1>5. PICK v \in {None, w} : write' = [write EXCEPT ![p] = v] /\ (v # None => Finds(p))
  <2>1. [write EXCEPT ![p] = None] = write
    BY <1>1 DEF MessageTypes
  <2>. QED
    BY <2>1
<1>6. pc'[p] = "answer" /\ write'[p] = v
  BY <1>1, <1>5 DEF MessageTypes
<1>7. WriteFits(p)'
  BY <1>1, <1>4, <1>5, <1>6 DEF WriteFits
<1>. QED
  BY <1>1, <1>4, <1>5, <1>7, EndsCommand

LEMMA cmdAdminChangeBotKeeps ==
    ASSUME HandlersInv, NEW p \in Procs, cmdAdminChangeBot(p)
    PROVE  HandlersInv'
<1>. DEFINE w == [room |-> msg[p].target, set |-> "bot", bot |-> msg[p].to, by |-> p]
<1>1. MessageTypes /\ pc[p] = "target" /\ msg[p].kind = "changebot"
  BY DEF HandlersInv, cmdAdminChangeBot, Target
<1>2. msg[p].target \in Rooms /\ msg[p].to \in Bots
  BY <1>1, MessageIs DEF OwnKinds
<1>3. w \in Write /\ w.room = msg[p].target /\ w.set = "bot" /\ w.bot \in Bots
  BY <1>2 DEF Write, RowWrites
<1>4. /\ LockRow(p) /\ pc' = [pc EXCEPT ![p] = "answer"]
      /\ write' = IF Finds(p) THEN [write EXCEPT ![p] = w] ELSE write
      /\ UNCHANGED <<rows, blocked, missed, msg, room, found, uses>>
  BY DEF cmdAdminChangeBot, Goto, Writes
<1>. HIDE DEF w
<1>. QED
  BY <1>1, <1>3, <1>4, ByIDKeeps

LEMMA cmdAdminDeleteChannelKeeps ==
    ASSUME HandlersInv, NEW p \in Procs, cmdAdminDeleteChannel(p)
    PROVE  HandlersInv'
<1>. DEFINE w == [room |-> msg[p].target, set |-> "delete", bot |-> None, by |-> p]
<1>1. MessageTypes /\ pc[p] = "target" /\ msg[p].kind = "deletechannel"
  BY DEF HandlersInv, cmdAdminDeleteChannel, Target
<1>2. msg[p].target \in Rooms
  BY <1>1, MessageIs DEF OwnKinds
<1>3. w \in Write /\ w.room = msg[p].target /\ w.set = "delete"
  BY <1>2 DEF Write, RowWrites
<1>4. /\ LockRow(p) /\ pc' = [pc EXCEPT ![p] = "answer"]
      /\ write' = IF Finds(p) THEN [write EXCEPT ![p] = w] ELSE write
      /\ UNCHANGED <<rows, blocked, missed, msg, room, found, uses>>
  BY DEF cmdAdminDeleteChannel, Goto, Writes
<1>. HIDE DEF w
<1>. QED
  BY <1>1, <1>3, <1>4, ByIDKeeps

LEMMA cmdAdminImpKeeps ==
    ASSUME HandlersInv, NEW p \in Procs, cmdAdminImp(p)
    PROVE  HandlersInv'
<1>. DEFINE t == msg[p].target
<1>1. /\ MessageTypes /\ Keeps(p) /\ pc[p] = "target" /\ msg[p].kind = "imp" /\ write[p] = None
      /\ UNCHANGED <<rows, blocked, missed, msg, write, found, uses>>
  BY DEF HandlersInv, Keeps, WriteFits, cmdAdminImp, Target
<1>2. t \in Rooms
  BY <1>1, MessageIs DEF OwnKinds
<1>3. /\ OthersLocks(p) /\ locks' \in [Locks -> Procs \union {None}]
      /\ \A l \in Locks : locks[l] = p => locks'[l] = p
  <2>1. LockRow(p) /\ Wanted(p) = IF Finds(p) THEN <<"row", t>> ELSE None
    BY <1>1, WantedIs DEF Keeps, cmdAdminImp, GetChannelByNameForUpdate
  <2>2. Finds(p) \in BOOLEAN
    BY DEF Finds
  <2>. QED
    BY <1>1, <1>2, <2>1, <2>2, RowLocked
<1>4. CASE pc' = [pc EXCEPT ![p] = "answer"] /\ room' = room
  <2>1. write' = [write EXCEPT ![p] = None]
    BY <1>1 DEF MessageTypes
  <2>2. WriteFits(p)'
    BY <1>1 DEF WriteFits
  <2>. QED
    BY <1>1, <1>3, <1>4, <2>1, <2>2, EndsCommand
<1>5. CASE pc' = [pc EXCEPT ![p] = "room"] /\ room' = [room EXCEPT ![p] = t]
  <2>1. /\ pc'[p] = "room" /\ "room" \in States \ {"queued"} /\ room'[p] = t /\ t \in Rooms \union Bots
        /\ write' = [write EXCEPT ![p] = None]
        /\ uses' = [uses EXCEPT ![p] = uses[p]] /\ uses[p] \in Seq(Uses) /\ NoDoubles(uses[p])
    BY <1>1, <1>2, <1>5 DEF MessageTypes, States, Keeps
  <2>2. PlaceFits(p)' /\ WriteFits(p)' /\ JoinsUnblocked(p)'
    BY <1>1, <1>2, <2>1 DEF PlaceFits, WriteFits, JoinsUnblocked, Imp
  <2>3. LocksFit(p)'
    BY <1>1, <2>1 DEF LocksFit, HoldsOnly, Ended, AdminKinds, OwnKinds, BotKinds
  <2>4. HomeIsHeld(p)'
    BY <1>1, <1>3, <2>1, RowLock DEF Keeps, HomeIsHeld, AtHome, Imp
  <2>. QED
    BY <1>1, <1>3, <1>5, <2>1, <2>2, <2>3, <2>4, StepsOn
<1>. QED
  BY <1>4, <1>5 DEF cmdAdminImp, Goto

LEMMA AnswerKeeps ==
    ASSUME HandlersInv, NEW p \in Procs, Answer(p)
    PROVE  HandlersInv'
<1>1. /\ MessageTypes /\ Keeps(p) /\ pc[p] = "answer" /\ pc' = [pc EXCEPT ![p] = "commit"]
      /\ UNCHANGED <<rows, blocked, missed, msg, room, write, found, uses, locks>>
  BY DEF HandlersInv, Answer, Goto
<1>2. /\ write' = [write EXCEPT ![p] = write[p]] /\ write[p] \in Write \union {None} /\ pc'[p] = "commit"
      /\ locks' \in [Locks -> Procs \union {None}] /\ OthersLocks(p)
  BY <1>1, LocksStay DEF MessageTypes
<1>3. WriteFits(p)'
  BY <1>1, <1>2 DEF Keeps, WriteFits
<1>. QED
  BY <1>1, <1>2, <1>3, EndsCommand

(* What a commit changes.                                                     *)
LEMMA CommitChanges ==
    ASSUME HandlersInv, NEW p \in Procs, Commit(p), NEW r \in Rooms
    PROVE  /\ rows'[r] \in Row
           /\ rows'[r] # rows[r] =>
                  /\ write[p] # None /\ write[p].room = r /\ write[p].set \in RowWrites
                  /\ locks[<<"row", r>>] = p
           /\ rows'[r] # NoRow /\ rows'[r] # rows[r] =>
                  \/ write[p].set = "insert" /\ rows[r] = NoRow
                  \/ write[p].set = "join" /\ rows[r] # NoRow /\ ~rows[r].active
                  \/ write[p].set \in {"leave", "expel"} /\ rows[r] # NoRow
                         /\ ~rows'[r].active /\ rows'[r].bot = rows[r].bot
                  \/ write[p].set = "bot" /\ rows[r] # NoRow /\ rows'[r].active = rows[r].active
<1>. DEFINE w == write[p]
<1>1. MessageTypes /\ WriteFits(p) /\ pc[p] = "commit" /\ rows'[r] = Written(w, r)
  BY DEF HandlersInv, Keeps, Commit
<1>2. rows[r] \in Row /\ w \in Write \union {None}
  BY <1>1 DEF MessageTypes
<1>3. CASE w = None \/ w.room # r \/ w.set \in {"block", "unblock"}
  <2>1. rows'[r] = rows[r]
    <3>1. CASE w = None
      BY <1>1, <3>1 DEF Written
    <3>2. CASE w # None /\ w.room # r
      BY <1>1, <3>2 DEF Written
    <3>3. CASE w # None /\ w.set \in {"block", "unblock"}
      BY <1>1, <3>3 DEF Written
    <3>. QED
      BY <1>3, <3>1, <3>2, <3>3
  <2>. QED
    BY <1>2, <2>1
<1>4. CASE w # None /\ w.room = r /\ w.set \in RowWrites
  <2>0. w.by \in Procs /\ locks[<<"row", r>>] = p
    BY <1>1, <1>2, <1>4 DEF Write, WriteFits
  <2>1. CASE w.set = "insert"
    <3>1. rows'[r] = [active |-> TRUE, bot |-> w.bot, id |-> w.by] /\ rows[r] = NoRow /\ w.bot \in Bots
      BY <1>1, <1>4, <2>1 DEF Written, WriteFits, InsertDefaultChannel
    <3>. QED
      BY <1>4, <2>0, <2>1, <3>1 DEF Row
  <2>2. CASE w.set = "join"
    <3>1. rows'[r] = [rows[r] EXCEPT !.active = TRUE, !.bot = w.bot] /\ rows[r] # NoRow /\ ~rows[r].active /\ w.bot \in Bots
      BY <1>1, <1>4, <2>2 DEF Written, WriteFits, UpdateChannelMembership, Updated
    <3>. QED
      BY <1>2, <1>4, <2>0, <2>2, <3>1 DEF Row
  <2>3. CASE w.set \in {"leave", "expel"}
    <3>1. rows'[r] = IF rows[r] = NoRow THEN NoRow ELSE [rows[r] EXCEPT !.active = FALSE]
      BY <1>1, <1>4, <2>3 DEF Written, UpdateChannelActive, Updated
    <3>. QED
      BY <1>2, <1>4, <2>0, <2>3, <3>1 DEF Row
  <2>4. CASE w.set = "bot"
    <3>1. rows'[r] = (IF rows[r] = NoRow THEN NoRow ELSE [rows[r] EXCEPT !.bot = w.bot]) /\ w.bot \in Bots
      BY <1>1, <1>4, <2>4 DEF Written, WriteFits, UpdateChannelBotName, Updated
    <3>. QED
      BY <1>2, <1>4, <2>0, <2>4, <3>1 DEF Row
  <2>5. CASE w.set = "delete"
    <3>1. rows'[r] = NoRow
      BY <1>1, <1>4, <2>5 DEF Written, DeleteChannel
    <3>. QED
      BY <1>4, <2>0, <3>1 DEF Row
  <2>. QED
    BY <1>4, <2>1, <2>2, <2>3, <2>4, <2>5 DEF RowWrites
<1>. QED
  BY <1>2, <1>3, <1>4 DEF Write

LEMMA CommitBlocks ==
    ASSUME HandlersInv, NEW p \in Procs, Commit(p)
    PROVE  /\ blocked' \subseteq Rooms /\ missed' \in [Rooms -> SUBSET Procs] /\ BlocksAreMissed
           /\ write[p] # None /\ write[p].set \in {"insert", "join"} => blocked' = blocked
<1>. DEFINE w == write[p]
<1>1. /\ MessageTypes /\ blocked' = BlockedBy(w) /\ w \in Write \union {None} /\ blocked \subseteq Rooms
      /\ missed' = [r \in Rooms |-> IF r \in BlockedBy(w) \ blocked THEN Looked(r) ELSE missed[r]]
  BY DEF HandlersInv, Commit, MessageTypes
<1>2. blocked' \subseteq Rooms
  <2>1. CASE w # None /\ w.set \in {"block", "expel"}
    BY <1>1, <2>1 DEF BlockedBy, UpsertBlockedUser, Write
  <2>2. CASE w # None /\ w.set = "unblock"
    BY <1>1, <2>2 DEF BlockedBy, DeleteBlockedUser
  <2>3. CASE w = None \/ w.set \notin {"block", "expel", "unblock"}
    BY <1>1, <2>3 DEF BlockedBy
  <2>. QED
    BY <2>1, <2>2, <2>3
<1>3. missed' \in [Rooms -> SUBSET Procs]
  BY <1>1 DEF MessageTypes, Looked
<1>4. BlocksAreMissed
  BY <1>1, <1>2 DEF BlocksAreMissed
<1>5. w # None /\ w.set \in {"insert", "join"} => blocked' = blocked
  BY <1>1 DEF BlockedBy
<1>. QED
  BY <1>2, <1>3, <1>4, <1>5

LEMMA CommitKeeps ==
    ASSUME HandlersInv, NEW p \in Procs, Commit(p)
    PROVE  HandlersInv'
<1>1. /\ MessageTypes /\ Keeps(p) /\ pc' = [pc EXCEPT ![p] = "flush"]
      /\ write' = [write EXCEPT ![p] = None] /\ locks' = Released(p)
      /\ UNCHANGED <<msg, room, found, uses>>
  BY DEF HandlersInv, Commit, Goto
<1>2. /\ pc'[p] = "flush" /\ write'[p] = None
      /\ OthersLocks(p) /\ locks' \in [Locks -> Procs \union {None}]
      /\ \A l \in Locks : locks'[l] # p
  BY <1>1, LocksReleased DEF MessageTypes
<1>3. rows' \in [Rooms -> Row]
  <2>1. rows' = [r \in Rooms |-> Written(write[p], r)]
    BY DEF Commit
  <2>. QED
    BY <2>1, CommitChanges
<1>4. OthersRows(p)
  BY CommitChanges, MessagesAssumption DEF OthersRows
<1>5. blocked' \subseteq Rooms /\ missed' \in [Rooms -> SUBSET Procs] /\ BlocksAreMissed
  BY CommitBlocks
<1>6. MessageTypes'
  BY <1>1, <1>2, <1>3, <1>5 DEF MessageTypes, States
<1>7. Others(p)
  BY <1>1 DEF Others, MessageTypes
<1>8. PlaceFits(p)' /\ LocksFit(p)' /\ WriteFits(p)' /\ HomeIsHeld(p)' /\ JoinsUnblocked(p)' /\ NoDoubles(uses'[p])
  BY <1>1, <1>2 DEF Keeps, PlaceFits, LocksFit, WriteFits, HomeIsHeld, AtHome, JoinsUnblocked, Imp
<1>9. Keeps(p)'
  BY <1>8 DEF Keeps
<1>. QED
  BY <1>1, <1>2, <1>4, <1>5, <1>6, <1>7, <1>9, StepKeeps

LEMMA NotifyKeeps ==
    ASSUME HandlersInv, NEW p \in Procs, NotifyEventsubUpdates(p)
    PROVE  HandlersInv'
<1>1. /\ MessageTypes /\ Keeps(p) /\ pc[p] = "flush" /\ pc' = [pc EXCEPT ![p] = "usage"]
      /\ UNCHANGED <<rows, blocked, missed, msg, room, write, found, uses, locks>>
  BY DEF HandlersInv, NotifyEventsubUpdates, Goto
<1>2. /\ pc'[p] = "usage" /\ "usage" \in States \ {"queued"} /\ write[p] = None
      /\ locks' \in [Locks -> Procs \union {None}] /\ found' \in [Procs -> Procs \union {None}]
      /\ \A l \in Locks : locks[l] # p
  BY <1>1 DEF MessageTypes, Keeps, WriteFits, LocksFit, HoldsOnly, States
<1>3. PlaceFits(p)' /\ LocksFit(p)' /\ WriteFits(p)' /\ HomeIsHeld(p)' /\ JoinsUnblocked(p)'
  BY <1>1, <1>2 DEF Keeps, PlaceFits, LocksFit, WriteFits, HomeIsHeld, AtHome, JoinsUnblocked, Imp
<1>. QED
  BY <1>1, <1>2, <1>3, LocksStay, GoesOn

LEMMA AddUsageStatsKeeps ==
    ASSUME HandlersInv, NEW p \in Procs, AddUsageStats(p)
    PROVE  HandlersInv'
<1>1. /\ MessageTypes /\ Keeps(p) /\ pc[p] = "usage" /\ write[p] = None
      /\ UNCHANGED <<rows, blocked, missed, msg, room, write, found>>
  BY DEF HandlersInv, AddUsageStats, Keeps, WriteFits
<1>2. write' = [write EXCEPT ![p] = None]
  BY <1>1 DEF MessageTypes
<1>3. CASE uses[p] = <<>>
  <2>1. pc' = [pc EXCEPT ![p] = "done"] /\ locks' = Released(p) /\ uses' = uses /\ "done" \in Ended
    BY <1>3 DEF AddUsageStats, Goto, Ended
  <2>2. uses' = [uses EXCEPT ![p] = uses[p]] /\ uses[p] \in Seq(Uses) /\ NoDoubles(uses[p])
    BY <1>1, <2>1 DEF MessageTypes, Keeps
  <2>. QED
    BY <1>1, <1>2, <2>1, <2>2, EndsAll
<1>4. CASE uses[p] # <<>>
  <2>. DEFINE u == NextUse(p)
              left == RemoveFirst(uses[p], u)
  <2>1. u \in ToSet(uses[p]) /\ u \in Uses /\ u \in Nat /\ \A v \in ToSet(uses[p]) : u <= v
    BY <1>1, <1>4, NextUseIs
  <2>2. left \in Seq(Uses) /\ NoDoubles(left) /\ ToSet(left) \subseteq ToSet(uses[p]) \ {u}
    BY <1>1, <2>1, RemoveFirstDrops DEF MessageTypes, Keeps
  <2>3. Lock(p) /\ uses' = [uses EXCEPT ![p] = left] /\ pc' = pc
    BY <1>4 DEF AddUsageStats
  <2>4. Wanted(p) = <<"use", u>> /\ Wanted(p) \in Locks
    BY <1>1, <1>4, WantedIs DEF Keeps, Locks
  <2>5. /\ OthersLocks(p) /\ locks' \in [Locks -> Procs \union {None}]
        /\ \A l \in Locks : locks'[l] = p => locks[l] = p \/ l = <<"use", u>>
    BY <1>1, <2>3, <2>4, LockWanted
  <2>6. ToSet(uses[p]) \subseteq Nat
    <3>1. uses[p] \in Seq(Uses)
      BY <1>1 DEF MessageTypes
    <3>2. ToSet(uses[p]) \subseteq Uses
      BY <3>1 DEF ToSet
    <3>. QED
      BY <3>2, MessagesAssumption
  <2>. HIDE DEF u, left
  <2>7. uses'[p] = left /\ pc'[p] = "usage"
    BY <1>1, <2>3 DEF MessageTypes
  <2>8. ASSUME NEW l \in Locks, locks'[l] = p PROVE l \in UseLocks /\ \A v \in ToSet(left) : l[2] < v
    <3>1. CASE locks[l] = p
      BY <1>1, <2>2, <3>1 DEF Keeps, LocksFit, HoldsOnly
    <3>2. CASE l = <<"use", u>>
      BY <2>1, <2>2, <2>6, <3>2 DEF UseLocks
    <3>. QED
      BY <2>5, <2>8, <3>1, <3>2
  <2>9. LocksFit(p)'
    BY <2>7, <2>8 DEF LocksFit, HoldsOnly, Ended
  <2>10. PlaceFits(p)' /\ WriteFits(p)' /\ HomeIsHeld(p)' /\ JoinsUnblocked(p)'
    BY <1>1, <2>3 DEF Keeps, PlaceFits, WriteFits, HomeIsHeld, AtHome, JoinsUnblocked, Imp
  <2>11. /\ pc' = [pc EXCEPT ![p] = "usage"] /\ "usage" \in States \ {"queued"}
         /\ room' = [room EXCEPT ![p] = room[p]] /\ room[p] \in Rooms \union Bots
    BY <1>1, <2>3 DEF MessageTypes, States
  <2>. QED
    BY <1>1, <1>2, <2>2, <2>3, <2>5, <2>9, <2>10, <2>11, StepsOn
<1>. QED
  BY <1>3, <1>4

LEMMA AbortKeeps ==
    ASSUME HandlersInv, NEW p \in Procs, Abort(p)
    PROVE  HandlersInv'
<1>1. <<>> \in Seq(Uses) /\ NoDoubles(<<>>)
  BY DEF NoDoubles
<1>2. PICK s \in Ended : pc' = [pc EXCEPT ![p] = s]
  BY DEF Abort, Goto, Ended
<1>. QED
  BY <1>1, <1>2, EndsAll DEF Abort

LEMMA CrashKeeps ==
    ASSUME HandlersInv, NEW p \in Procs, Crash(p)
    PROVE  HandlersInv'
<1>1. /\ uses' = [uses EXCEPT ![p] = uses[p]] /\ uses[p] \in Seq(Uses) /\ NoDoubles(uses[p])
  BY DEF Crash, HandlersInv, MessageTypes, Keeps
<1>2. "lost" \in Ended /\ pc' = [pc EXCEPT ![p] = "lost"]
  BY DEF Crash, Goto, Ended
<1>. QED
  BY <1>1, <1>2, EndsAll DEF Crash

LEMMA NextKeeps ==
    ASSUME HandlersInv, [Next]_vars
    PROVE  HandlersInv'
<1>1. ASSUME NEW p \in Procs, Handle(p) PROVE HandlersInv'
  BY <1>1, BeginKeeps, LockRoomKeeps, ReadChannelKeeps, cmdTalkKeeps, cmdLeaveKeeps, FindTargetKeeps,
     handleJoinKeeps, InsertKeeps, handleLeaveKeeps, cmdAdminBlockKeeps, cmdAdminUnblockKeeps,
     cmdAdminChangeBotKeeps, cmdAdminDeleteChannelKeeps, cmdAdminImpKeeps, AnswerKeeps, CommitKeeps,
     NotifyKeeps, AddUsageStatsKeeps DEF Handle
<1>2. ASSUME NEW p \in Procs, Fails(p) \/ LockFails(p) \/ Crash(p) PROVE HandlersInv'
  BY <1>2, AbortKeeps, CrashKeeps DEF Fails, LockFails
<1>3. CASE UNCHANGED vars
  <2>1. MessageTypes'
    BY <1>3 DEF vars, HandlersInv, MessageTypes
  <2>2. \A p \in Procs : Keeps(p)'
    BY <1>3 DEF vars, HandlersInv, Keeps, PlaceFits, LocksFit, HoldsOnly, WriteFits, HomeIsHeld, AtHome,
                JoinsUnblocked, Imp
  <2>. QED
    BY <2>1, <2>2 DEF HandlersInv
<1>. QED
  BY <1>1, <1>2, <1>3 DEF Next

LEMMA InitKeeps ==
    ASSUME Init
    PROVE  HandlersInv
<1>1. /\ rows \in [Rooms -> Row] /\ blocked \subseteq Rooms /\ msg \in [Procs -> Message]
      /\ missed = [r \in Rooms |-> {}]
      /\ pc = [p \in Procs |-> "queued"] /\ room = [p \in Procs |-> msg[p].room]
      /\ write = [p \in Procs |-> None] /\ found = [p \in Procs |-> None]
      /\ uses = [p \in Procs |-> <<>>] /\ locks = [l \in Locks |-> None]
  BY StartsAssumption DEF Init, NoWrite
<1>2. room \in [Procs -> Rooms \union Bots]
  BY <1>1 DEF Message
<1>3. MessageTypes
  BY <1>1, <1>2 DEF MessageTypes, States
<1>4. ASSUME NEW p \in Procs PROVE Keeps(p)
  <2>1. /\ pc[p] = "queued" /\ room[p] = msg[p].room /\ write[p] = None /\ NoDoubles(uses[p])
        /\ \A l \in Locks : locks[l] # p
    BY <1>1, MessagesAssumption DEF NoDoubles
  <2>. QED
    BY <2>1 DEF Keeps, PlaceFits, LocksFit, WriteFits, HomeIsHeld, AtHome, JoinsUnblocked, Imp
<1>. QED
  BY <1>3, <1>4 DEF HandlersInv

(* What handlers hold, write and wait for, in every state.                    *)
LEMMA HandlersInvHolds == Spec => []HandlersInv
  BY InitKeeps, NextKeeps, PTL DEF Spec

------------------------------------------------------------------------------
(* 3. Waiting in a circle                                                     *)

(* Who waits for a lock of a room, a row or a counter, unless it is an admin. *)
LEMMA UsersWait ==
    ASSUME HandlersInv, NEW p \in Procs, Waiting(p), msg[p].kind \notin AdminKinds
    PROVE  \/ pc[p] = "room" /\ Wanted(p) \in RoomLocks
           \/ pc[p] \in {"channel", "target", "insert"} /\ Wanted(p) \in RowLocks
           \/ pc[p] = "usage" /\ uses[p] # <<>> /\ Wanted(p) = <<"use", NextUse(p)>> /\ Wanted(p) \in UseLocks
<1>1. MessageTypes /\ Keeps(p) /\ Wanted(p) # None /\ pc[p] \in States
  BY DEF HandlersInv, Waiting, MessageTypes
<1>2. /\ pc[p] = "channel" => room[p] \in Rooms
      /\ pc[p] \in {"target", "insert"} => msg[p].target \in Rooms
  BY <1>1, MessageIs DEF Keeps, PlaceFits, OwnKinds
<1>3. pc[p] # "blocking"
  BY <1>1 DEF Keeps, PlaceFits, AdminKinds
<1>4. pc[p] \in {"room", "channel", "target", "insert", "usage"}
  BY <1>1, <1>3, WantedIs DEF Keeps, States
<1>5. CASE pc[p] = "room"
  BY <1>1, <1>5, WantedIs DEF Keeps
<1>6. CASE pc[p] = "channel"
  <2>1. Wanted(p) = <<"row", room[p]>>
    BY <1>1, <1>6, WantedIs DEF Keeps
  <2>. QED
    BY <1>2, <1>6, <2>1 DEF RowLocks
<1>7. CASE pc[p] \in {"target", "insert"}
  <2>1. Wanted(p) = <<"row", msg[p].target>>
    BY <1>1, <1>7, WantedIs DEF Keeps
  <2>. QED
    BY <1>2, <1>7, <2>1 DEF RowLocks
<1>8. CASE pc[p] = "usage"
  BY <1>1, <1>8, WantedIs DEF Keeps
<1>. QED
  BY <1>4, <1>5, <1>6, <1>7, <1>8

(* For whom it can wait that waits itself.                                    *)
LEMMA UsersHold ==
    ASSUME HandlersInv, NEW p \in Procs, Waiting(p), msg[p].kind \notin AdminKinds,
           NEW q \in Procs, WaitsFor(p, q), Waiting(q), msg[q].kind \notin AdminKinds
    PROVE  \/ Wanted(p) \in RoomLocks /\ pc[q] \in {"channel", "target", "insert"}
           \/ Wanted(p) \in UseLocks /\ pc[q] = "usage" /\ uses[q] # <<>> /\ Wanted(p)[2] < NextUse(q)
<1>1. MessageTypes /\ Keeps(q) /\ msg[q].kind \in OwnKinds \union BotKinds
  BY MessageIs DEF HandlersInv
<1>2. Wanted(p) \in RoomLocks \union RowLocks \union UseLocks /\ Wanted(p) \in Locks
  BY UsersWait DEF Locks
<1>3. HoldsOnly(q, Wanted(p))
  BY <1>1, <1>2 DEF WaitsFor, Keeps, LocksFit
<1>4. pc[q] # "room"
  BY <1>3 DEF HoldsOnly
<1>5. CASE pc[q] \in {"channel", "target", "insert"}
  BY <1>1, <1>3, <1>5 DEF HoldsOnly, Keeps, PlaceFits, BotKinds
<1>6. CASE pc[q] = "usage" /\ uses[q] # <<>>
  BY <1>1, <1>3, <1>6, NextUseIs DEF HoldsOnly
<1>. QED
  BY <1>4, <1>5, <1>6, UsersWait

LEMMA NoCircle ==
    ASSUME HandlersInv
    PROVE  CirclesNeedAdmins
<1>. SUFFICES ASSUME NEW S \in SUBSET Procs, S # {}, \A p \in S : \E q \in S : WaitsFor(p, q),
                     \A p \in S : msg[p].kind \notin AdminKinds
              PROVE  FALSE
  BY DEF CirclesNeedAdmins
<1>1. \A p \in S : Waiting(p)
  BY DEF WaitsFor
<1>2. \A l \in RoomLocks \union RowLocks : l \notin UseLocks
  BY DEF RoomLocks, RowLocks, UseLocks
<1>3. \A l \in RowLocks : l \notin RoomLocks
  BY DEF RoomLocks, RowLocks
<1>4. ASSUME NEW p \in S, pc[p] \in {"channel", "target", "insert"} PROVE FALSE
  <2>1. Wanted(p) \in RowLocks
    BY <1>1, <1>4, UsersWait
  <2>2. PICK q \in S : WaitsFor(p, q)
    OBVIOUS
  <2>3. Wanted(p) \in RoomLocks \union UseLocks
    BY <1>1, <2>2, UsersHold
  <2>. QED
    BY <1>2, <1>3, <2>1, <2>3
<1>5. ASSUME NEW p \in S
      PROVE  \E q \in S : /\ uses[p] # <<>> /\ uses[q] # <<>>
                          /\ NextUse(p) < NextUse(q)
  <2>1. PICK q \in S : WaitsFor(p, q)
    OBVIOUS
  <2>2. Wanted(p) \in UseLocks /\ uses[q] # <<>> /\ Wanted(p)[2] < NextUse(q)
    BY <1>1, <1>4, <2>1, UsersHold
  <2>3. uses[p] # <<>> /\ Wanted(p) = <<"use", NextUse(p)>>
    BY <1>1, <1>2, <2>2, UsersWait
  <2>. QED
    BY <2>2, <2>3
<1>. DEFINE T == {NextUse(p) : p \in S}
<1>6. T \in SUBSET Nat /\ T # {} /\ IsFiniteSet(T)
  <2>1. \A p \in S : NextUse(p) \in Uses
    BY <1>5, NextUseIs DEF HandlersInv
  <2>2. T \in SUBSET Uses /\ T # {}
    BY <2>1
  <2>. HIDE DEF T
  <2>. QED
    BY <2>2, FS_Subset, MessagesAssumption
<1>7. PICK n \in T : \A m \in T : m <= n
  <2>. HIDE DEF T
  <2>. QED
    BY <1>6, GreatestOf
<1>8. PICK p \in S : n = NextUse(p)
  BY <1>7
<1>9. PICK q \in S : NextUse(p) < NextUse(q)
  BY <1>5
<1>10. NextUse(q) \in T /\ NextUse(q) <= NextUse(p)
  BY <1>7, <1>8, <1>9
<1>11. NextUse(p) \in Nat /\ NextUse(q) \in Nat
  BY <1>6, <1>8, <1>10
<1>. QED
  BY <1>9, <1>10, <1>11

(* Handlers of users' messages, joins and leaves wait for each other in no    *)
(* circle, however many there are: what they hold is of a lower rank than     *)
(* what they wait for (handleSession, AddUsageStats).                         *)
THEOREM UsersNeverDeadlock == Spec => []MessagesInv
<1>1. HandlersInv => MessagesInv
  <2>. SUFFICES ASSUME HandlersInv PROVE MessagesInv
    OBVIOUS
  <2>1. MessageTypes /\ \A p \in Procs : Keeps(p)
    BY DEF HandlersInv
  <2>2. \A p \in Procs : msg[p] \in Message /\ room[p] \in Rooms \union Bots /\ ToSet(uses[p]) \subseteq Uses
    BY <2>1 DEF MessageTypes, ToSet
  <2>3. \A p \in Procs : pc[p] \in Ended => Wanted(p) = None /\ write[p] = None
    BY <2>1, WantedIs DEF Keeps, WriteFits, Ended
  <2>4. \A l \in Locks : locks[l] # None => pc[locks[l]] \notin Ended
    BY <2>1 DEF MessageTypes, Keeps, LocksFit, HoldsOnly
  <2>. QED
    BY <2>1, <2>2, <2>3, <2>4, NoCircle DEF MessagesInv, TypeOK, MessageTypes
<1>. QED
  BY <1>1, HandlersInvHolds, PTL

------------------------------------------------------------------------------
(* 4. Who serves a channel                                                    *)

LEMMA OnlyCommits ==
    ASSUME [Next]_vars, ~ \E p \in Procs : Commit(p)
    PROVE  rows' = rows /\ blocked' = blocked
<1>1. ASSUME NEW p \in Procs, Handle(p) PROVE rows' = rows /\ blocked' = blocked
  BY <1>1 DEF Handle, Begin, LockRoom, ReadChannel, cmdTalk, cmdLeave, FindTarget, handleJoin, Insert, handleLeave,
              cmdAdminBlock, cmdAdminUnblock, cmdAdminChangeBot, cmdAdminDeleteChannel, cmdAdminImp, Answer,
              NotifyEventsubUpdates, AddUsageStats
<1>2. ASSUME NEW p \in Procs, Fails(p) \/ LockFails(p) \/ Crash(p) PROVE rows' = rows /\ blocked' = blocked
  BY <1>2 DEF Fails, LockFails, Abort, Crash
<1>. QED
  BY <1>1, <1>2 DEF Next, vars

(* While a message of a channel is answered, its bot serves the channel; it   *)
(* loses it to no join, and who is blocked gets it by no join but one that    *)
(* had looked before they were (handleSession, handleJoin, cmdAdminBlock).    *)
THEOREM ChannelsKeepTheirBot == Spec => OneBotPerChannel
<1>1. ASSUME HandlersInv, [Next]_vars
      PROVE  [\A p \in Procs :
                  (pc[p] = "answer" /\ pc'[p] = "commit" /\ msg[p].room \in Rooms) =>
                      /\ rows[msg[p].room] # NoRow
                      /\ rows[msg[p].room].active
                      /\ rows[msg[p].room].bot = msg[p].bot]_vars
  BY <1>1 DEF HandlersInv, Keeps, HomeIsHeld, AtHome
<1>2. ASSUME HandlersInv, [Next]_vars
      PROVE  [\A r \in Rooms :
                  (rows[r] # NoRow /\ rows'[r] # NoRow /\ rows[r].active /\ rows'[r].bot # rows[r].bot) =>
                      \E p \in Procs : msg[p].kind = "changebot" /\ pc[p] = "commit" /\ pc'[p] = "flush"]_vars
  <2>1. ASSUME NEW r \in Rooms, rows[r] # NoRow, rows'[r] # NoRow, rows[r].active, rows'[r].bot # rows[r].bot
        PROVE  \E p \in Procs : msg[p].kind = "changebot" /\ pc[p] = "commit" /\ pc'[p] = "flush"
    <3>1. PICK p \in Procs : Commit(p)
      BY <1>2, <2>1, OnlyCommits
    <3>2. rows'[r] # rows[r]
      BY <2>1
    <3>3. write[p] # None /\ write[p].set = "bot"
      BY <1>2, <2>1, <3>1, <3>2, CommitChanges
    <3>4. MessageTypes /\ WriteFits(p)
      BY <1>2 DEF HandlersInv, Keeps
    <3>5. msg[p].kind = "changebot" /\ pc[p] = "commit" /\ pc'[p] = "flush"
      BY <3>1, <3>3, <3>4 DEF Commit, Goto, MessageTypes, WriteFits
    <3>. QED
      BY <3>5
  <2>. QED
    BY <2>1
<1>3. ASSUME HandlersInv, [Next]_vars
      PROVE  [\A r \in Rooms :
                  (r \in blocked' /\ ~(rows[r] # NoRow /\ rows[r].active) /\ rows'[r] # NoRow /\ rows'[r].active) =>
                      \E p \in missed[r] : pc[p] = "commit" /\ pc'[p] = "flush"]_vars
  <2>1. ASSUME NEW r \in Rooms, r \in blocked', ~(rows[r] # NoRow /\ rows[r].active), rows'[r] # NoRow, rows'[r].active
        PROVE  \E p \in missed[r] : pc[p] = "commit" /\ pc'[p] = "flush"
    <3>1. PICK p \in Procs : Commit(p)
      BY <1>3, <2>1, OnlyCommits
    <3>2. rows'[r] # rows[r]
      BY <2>1
    <3>3. write[p] # None /\ write[p].room = r /\ write[p].set \in {"insert", "join"}
      BY <1>3, <2>1, <3>1, <3>2, CommitChanges
    <3>4. MessageTypes /\ WriteFits(p) /\ JoinsUnblocked(p)
      BY <1>3 DEF HandlersInv, Keeps
    <3>5. r \in blocked
      BY <1>3, <2>1, <3>1, <3>3, CommitBlocks
    <3>6. p \in missed[r]
      BY <3>3, <3>4, <3>5 DEF WriteFits, JoinsUnblocked
    <3>7. pc[p] = "commit" /\ pc'[p] = "flush"
      BY <3>1, <3>4 DEF Commit, Goto, MessageTypes
    <3>. QED
      BY <3>6, <3>7
  <2>. QED
    BY <2>1
<1>. QED
  BY <1>1, <1>2, <1>3, HandlersInvHolds, PTL
  DEF Spec, OneBotPerChannel, AnswersAreOfItsBot, OnlyAdminsChangeBots, BlockedStayOut

------------------------------------------------------------------------------
(* 5. The handlers of a message                                               *)

Marks == Cools \X ChatRooms

LEMMA MarkIs ==
    ASSUME DispatchTypeOK
    PROVE  CommandMark \subseteq Marks /\ RollMark \subseteq Marks
  BY DEF DispatchTypeOK, CommandMark, RollMark, Marks, Cools

(* What was to be known of the message stays so.                              *)
LEMMA SameMessage ==
    ASSUME Unheard
    PROVE  /\ Entitled' = Entitled /\ (Found = NoEntry)' = (Found = NoEntry)
           /\ CanPG(Found.level)' = CanPG(Found.level)
           /\ \A by : MayAnswer(by)' = MayAnswer(by)
           /\ (line.video)' = line.video /\ (line.matches)' = line.matches /\ at' = at
<1>1. UNCHANGED <<defined, chat, line, at, imp, heard, chats>>
  BY DEF Unheard
<1>2. Entitled' = Entitled
  BY <1>1 DEF Entitled, Ignored, CanPG, Can
<1>3. (Found = NoEntry)' = (Found = NoEntry) /\ CanPG(Found.level)' = CanPG(Found.level)
  BY <1>1 DEF Found, Called, Foreign, Room, CanPG, Can
<1>4. ASSUME NEW by PROVE MayAnswer(by)' = MayAnswer(by)
  BY <1>1, <1>2, <1>3 DEF MayAnswer, Can, CanPG
<1>. QED
  BY <1>1, <1>2, <1>3, <1>4

(* A handler that may answer does so.                                         *)
LEMMA AnswersKeeps ==
    ASSUME ChainInv, step # "end", NEW by \in Handlers, NEW marks \in SUBSET Marks, Answers(by, marks), Unheard,
           MayAnswer(by),
           Paced(by) => CommandMark \subseteq marks /\ (at \notin answered \/ Can(AccessLevelModerator))
    PROVE  ChainInv'
<1>. DEFINE early == Paced(by) /\ at \in answered /\ ~Can(AccessLevelModerator)
            one == [by |-> by, room |-> at, early |-> early]
<1>1. DispatchTypeOK /\ answers = <<>> /\ UNCHANGED <<defined, chat, line, at, imp, heard, chats, turnedDown>>
  BY DEF ChainInv, Unheard, Answers
<1>2. early = FALSE
  <2>1. early \in BOOLEAN
    OBVIOUS
  <2>. QED
    BY <2>1
<1>3. /\ answers' = <<one>> /\ step' = "end" /\ running' = running \union marks
      /\ answered' = IF Paced(by) THEN answered \union {at} ELSE answered
  BY <1>1 DEF Answers, GoTo
<1>4. one.by = by /\ one.room = at /\ one.early = FALSE /\ one \in [by : Handlers, room : ChatRooms, early : BOOLEAN]
  BY <1>1, <1>2 DEF DispatchTypeOK
<1>. HIDE DEF one, early
<1>5. answers' \in Seq([by : Handlers, room : ChatRooms, early : BOOLEAN]) /\ Len(answers') = 1 /\ DOMAIN answers' = {1}
      /\ answers'[1] = one
  BY <1>3, <1>4
<1>6. running' \subseteq Marks /\ answered' \subseteq ChatRooms
  BY <1>1, <1>3 DEF DispatchTypeOK, Marks
<1>7. DispatchTypeOK'
  BY <1>1, <1>3, <1>5, <1>6 DEF DispatchTypeOK, Marks, Steps
<1>8. (\A i \in DOMAIN answers : answers[i].room = at /\ ~answers[i].early /\ MayAnswer(answers[i].by))'
  <2>1. answers'[1].by = by /\ answers'[1].room = at' /\ ~answers'[1].early
    BY <1>1, <1>4, <1>5
  <2>2. MayAnswer(answers[1].by)'
    BY <1>1, <2>1 DEF MayAnswer, Entitled, Ignored, Can, CanPG, Found, Called, Foreign, Room
  <2>. QED
    BY <1>5, <2>1, <2>2
<1>9. \A r \in answered' : <<"command_cooldown", r>> \in running'
  BY <1>3 DEF ChainInv, CommandMark
<1>10. RefusedGoesOn'
  BY <1>5 DEF RefusedGoesOn
<1>. QED
  BY <1>3, <1>5, <1>7, <1>8, <1>9, <1>10 DEF ChainInv, HeardSteps

(* The message goes on to another step, or to its end.                        *)
LEMMA GoesOnKeeps ==
    ASSUME ChainInv, step # "end", step' \in Steps, Unheard, UNCHANGED <<answers, answered>>,
           turnedDown' \in BOOLEAN, running \subseteq running', running' \subseteq Marks,
           step' \in HeardSteps => Entitled,
           step' \in {"custom", "list"} => Found # NoEntry /\ CanPG(Found.level),
           step' = "builtin" => Found = NoEntry,
           step' = "autoreply" => ~line.video,
           turnedDown' => step' \in {"video", "autoreply", "end"},
           step' = "end" /\ turnedDown' => ~line.video /\ (line.matches => <<"autoreply", at>> \in running)
    PROVE  ChainInv'
<1>1. /\ DispatchTypeOK /\ answers = <<>> /\ answers' = <<>> /\ answered' = answered
      /\ UNCHANGED <<defined, chat, line, at, imp, heard, chats>>
  BY DEF ChainInv, Unheard
<1>2. DispatchTypeOK'
  BY <1>1 DEF DispatchTypeOK, Marks
<1>3. RefusedGoesOn'
  BY <1>1 DEF RefusedGoesOn
<1>4. Len(answers') <= 1 /\ DOMAIN answers' = {}
  BY <1>1
<1>. QED
  BY <1>1, <1>2, <1>3, <1>4, SameMessage DEF ChainInv

(* A command that is refused.                                                 *)
LEMMA RefuseKeeps ==
    ASSUME ChainInv, step \in HeardSteps, NEW marks \in SUBSET Marks, Refuse(marks), Unheard
    PROVE  ChainInv'
<1>1. step' = "video" /\ turnedDown' = TRUE /\ running' = running \union marks /\ UNCHANGED <<answers, answered>>
  BY DEF Refuse, GoTo
<1>2. Entitled /\ step # "end" /\ running \subseteq Marks
  BY DEF ChainInv, HeardSteps, DispatchTypeOK, Marks
<1>. QED
  BY <1>1, <1>2, GoesOnKeeps DEF Steps

LEMMA AnswerCooledKeeps ==
    ASSUME ChainInv, step \in HeardSteps, NEW by \in Handlers, AnswerCooled(by), Unheard, MayAnswer(by)
    PROVE  ChainInv'
<1>1. DispatchTypeOK /\ step # "end" /\ \A r \in answered : <<"command_cooldown", r>> \in running
  BY DEF ChainInv, HeardSteps
<1>2. CASE InCooldown(CommandMark)
  BY <1>2, RefuseKeeps DEF AnswerCooled
<1>3. CASE ~InCooldown(CommandMark)
  <2>1. at \notin answered \/ Can(AccessLevelModerator)
    BY <1>1, <1>3 DEF InCooldown, CommandMark
  <2>. QED
    BY <1>1, <1>3, <2>1, MarkIs, AnswersKeeps DEF AnswerCooled
<1>. QED
  BY <1>2, <1>3

LEMMA buildSessionKeeps ==
    ASSUME ChainInv, NEW m \in Chats, buildSession(m)
    PROVE  ChainInv'
<1>1. /\ DispatchTypeOK /\ step = "idle" /\ answers = <<>> /\ ~turnedDown
      /\ \A r \in answered : <<"command_cooldown", r>> \in running
  BY DEF ChainInv, buildSession
<1>2. /\ step' = "filter" /\ chat' = m /\ line' = m.line /\ at' = m.room /\ imp' = FALSE /\ chats' = chats + 1
      /\ UNCHANGED <<running, turnedDown, answers, answered, defined, heard>> /\ chats < MaxChats
  BY DEF buildSession, GoTo, Nothing
<1>3. m.line \in Line /\ m.room \in ChatRooms /\ MaxChats \in Nat
  BY DispatchAssumption DEF Chat
<1>4. chats' \in 0 .. MaxChats
  BY <1>1, <1>2, <1>3 DEF DispatchTypeOK
<1>5. DispatchTypeOK'
  BY <1>1, <1>2, <1>3, <1>4 DEF DispatchTypeOK, Steps
<1>6. RefusedGoesOn' /\ Len(answers') <= 1 /\ DOMAIN answers' = {} /\ answers' = <<>>
  BY <1>1, <1>2 DEF RefusedGoesOn
<1>. QED
  BY <1>1, <1>2, <1>5, <1>6 DEF ChainInv, HeardSteps

LEMMA tryFilterKeeps ==
    ASSUME ChainInv, tryFilter
    PROVE  ChainInv'
<1>1. step = "filter" /\ ~turnedDown /\ turnedDown \in BOOLEAN /\ running \subseteq Marks
  BY DEF ChainInv, tryFilter, DispatchTypeOK, Marks
<1>2. /\ step' \in {"end", "mode"} /\ Unheard
      /\ UNCHANGED <<running, turnedDown, answers, answered>>
  BY DEF tryFilter, GoTo, Nothing
<1>. QED
  BY <1>1, <1>2, GoesOnKeeps DEF Steps, HeardSteps

LEMMA UpdateChannelActivityKeeps ==
    ASSUME ChainInv, UpdateChannelActivity
    PROVE  ChainInv'
<1>1. /\ DispatchTypeOK /\ step = "mode" /\ answers = <<>> /\ ~turnedDown
      /\ \A r \in answered : <<"command_cooldown", r>> \in running
  BY DEF ChainInv, UpdateChannelActivity
<1>2. UNCHANGED <<running, turnedDown, answers, answered, defined, chat, line, at, imp, chats>>
  BY DEF UpdateChannelActivity, Nothing
<1>3. /\ step' \in {"end", "video", "moderation"} /\ heard' \subseteq ChatRooms
      /\ step' # "end" => ~Ignored /\ CanPG(Mode(at)) /\ at \in heard'
  BY <1>1 DEF UpdateChannelActivity, GoTo, DispatchTypeOK
<1>4. DispatchTypeOK'
  BY <1>1, <1>2, <1>3 DEF DispatchTypeOK, Steps
<1>5. RefusedGoesOn' /\ Len(answers') <= 1 /\ DOMAIN answers' = {} /\ answers' = <<>>
  BY <1>1, <1>2 DEF RefusedGoesOn
<1>6. step' \in HeardSteps => Entitled'
  BY <1>2, <1>3 DEF HeardSteps, Entitled, Ignored, CanPG, Can
<1>. QED
  BY <1>1, <1>2, <1>3, <1>4, <1>5, <1>6 DEF ChainInv

LEMMA moderationCommandsKeeps ==
    ASSUME ChainInv, moderationCommands
    PROVE  ChainInv'
<1>1. step = "moderation" /\ Unheard /\ Entitled /\ ~turnedDown /\ turnedDown \in BOOLEAN /\ running \subseteq Marks
  BY DEF moderationCommands, ChainInv, HeardSteps, DispatchTypeOK, Marks
<1>2. CASE Answers("moderation", {}) /\ Can(AccessLevelModerator)
  BY <1>1, <1>2, AnswersKeeps DEF Handlers, MayAnswer, Paced
<1>3. CASE GoTo("prefix") /\ Nothing
  BY <1>1, <1>3, GoesOnKeeps DEF GoTo, Nothing, Steps
<1>. QED
  BY <1>2, <1>3 DEF moderationCommands

LEMMA tryCommandKeeps ==
    ASSUME ChainInv, tryCommand
    PROVE  ChainInv'
<1>1. /\ step = "prefix" /\ step \in HeardSteps /\ Unheard /\ Entitled
      /\ ~turnedDown /\ turnedDown \in BOOLEAN /\ running \subseteq Marks
  BY DEF tryCommand, ChainInv, HeardSteps, DispatchTypeOK, Marks
<1>2. CASE Answers("whatprefix", {}) \/ Answers("nowhere", {})
  BY <1>1, <1>2, AnswersKeeps DEF Handlers, MayAnswer, Paced
<1>3. CASE Refuse({})
  BY <1>1, <1>3, RefuseKeeps
<1>4. CASE GoTo("video") /\ Nothing
  BY <1>1, <1>4, GoesOnKeeps DEF GoTo, Nothing, Steps
<1>5. CASE GoTo("builtin") /\ Nothing /\ Found = NoEntry
  BY <1>1, <1>5, GoesOnKeeps DEF GoTo, Nothing, Steps
<1>6. CASE (GoTo("list") \/ GoTo("custom")) /\ Nothing /\ Found # NoEntry /\ CanPG(Found.level)
  BY <1>1, <1>6, GoesOnKeeps DEF GoTo, Nothing, Steps
<1>. QED
  BY <1>2, <1>3, <1>4, <1>5, <1>6 DEF tryCommand

LEMMA handleCustomCommandKeeps ==
    ASSUME ChainInv, handleCustomCommand
    PROVE  ChainInv'
<1>1. step \in HeardSteps /\ AnswerCooled("custom") /\ Unheard /\ MayAnswer("custom")
  BY DEF handleCustomCommand, ChainInv, HeardSteps, MayAnswer
<1>. QED
  BY <1>1, AnswerCooledKeeps DEF Handlers

LEMMA handleListKeeps ==
    ASSUME ChainInv, handleList
    PROVE  ChainInv'
<1>1. /\ step = "list" /\ step \in HeardSteps /\ Unheard /\ MayAnswer("list") /\ Entitled
      /\ ~turnedDown /\ turnedDown \in BOOLEAN
      /\ DispatchTypeOK /\ running \subseteq Marks
  BY DEF handleList, ChainInv, HeardSteps, MayAnswer, DispatchTypeOK, Marks
<1>2. CASE Refuse({})
  BY <1>1, <1>2, RefuseKeeps
<1>3. CASE Answers("crosschannel", {})
  BY <1>1, <1>3, AnswersKeeps DEF Handlers, MayAnswer, Paced
<1>4. CASE GoTo("video") /\ running' = running \union CommandMark /\ UNCHANGED <<turnedDown, answers, answered>>
  BY <1>1, <1>4, MarkIs, GoesOnKeeps DEF GoTo, Steps
<1>5. CASE AnswerCooled("list")
  BY <1>1, <1>5, AnswerCooledKeeps DEF Handlers
<1>. QED
  BY <1>2, <1>3, <1>4, <1>5 DEF handleList

LEMMA tryBuiltinCommandKeeps ==
    ASSUME ChainInv, tryBuiltinCommand
    PROVE  ChainInv'
<1>. DEFINE b == Builtins[line.word]
<1>1. /\ step = "builtin" /\ step \in HeardSteps /\ Entitled
      /\ ~turnedDown /\ turnedDown \in BOOLEAN /\ answers = <<>> /\ Found = NoEntry
      /\ DispatchTypeOK /\ running \subseteq Marks /\ \A r \in answered : <<"command_cooldown", r>> \in running
  BY DEF tryBuiltinCommand, ChainInv, HeardSteps, DispatchTypeOK, Marks
<1>2. line.builtin \/ line.other # NoName \/ defined[at][line.word] = NoEntry
  BY <1>1 DEF Found, Called, Foreign, Room
<1>3. MayAnswer("builtin") \/ ~Can(b.minLevel) \/ (line.word \in Rolls /\ ~CanPG(RollLevel))
  BY <1>1, <1>2 DEF MayAnswer
<1>4. ~InCooldown(CommandMark) => at \notin answered \/ Can(AccessLevelModerator)
  BY <1>1 DEF InCooldown, CommandMark
<1>5. CASE GoTo("video") /\ Nothing /\ Unheard
  BY <1>1, <1>5, GoesOnKeeps DEF GoTo, Nothing, Steps
<1>6. CASE (Refuse({}) \/ Refuse(CommandMark)) /\ Unheard
  BY <1>1, <1>6, MarkIs, RefuseKeeps
<1>7. ASSUME NEW r \in ChatRooms, NEW l \in Lines, Impersonate(r, l) PROVE ChainInv'
  <2>1. /\ at' = r /\ line' = l /\ imp' = TRUE /\ running' = running \union CommandMark /\ step' = "filter"
        /\ UNCHANGED <<defined, chat, heard, chats, turnedDown, answers, answered>>
    BY <1>7 DEF Impersonate, GoTo
  <2>2. l \in Line /\ running' \subseteq Marks
    BY <1>1, <2>1, MarkIs, DispatchAssumption
  <2>3. DispatchTypeOK'
    BY <1>1, <2>1, <2>2 DEF DispatchTypeOK, Marks, Steps
  <2>4. RefusedGoesOn' /\ Len(answers') <= 1 /\ DOMAIN answers' = {} /\ answers' = <<>>
    BY <1>1, <2>1 DEF RefusedGoesOn
  <2>. QED
    BY <1>1, <2>1, <2>3, <2>4 DEF ChainInv, HeardSteps
<1>8. CASE cmdRandom /\ line.word \in Rolls /\ Can(b.minLevel) /\ Unheard
  <2>1. CASE ~CanPG(RollLevel) \/ InCooldown(RollMark)
    BY <1>1, <1>8, <2>1, RefuseKeeps DEF cmdRandom
  <2>2. CASE Refuse(RollMark)
    BY <1>1, <1>8, <2>2, MarkIs, RefuseKeeps
  <2>3. CASE CanPG(RollLevel) /\ ~InCooldown(CommandMark) /\ Answers("builtin", RollMark \union CommandMark)
    <3>1. RollMark \union CommandMark \in SUBSET Marks
      BY <1>1, MarkIs
    <3>. QED
      BY <1>1, <1>3, <1>4, <1>8, <2>3, <3>1, AnswersKeeps DEF Handlers
  <2>. QED
    BY <1>8, <2>1, <2>2, <2>3 DEF cmdRandom
<1>9. CASE b.cooldown = "none" /\ Answers("builtin", {}) /\ line.word \notin Rolls /\ Can(b.minLevel) /\ Unheard
  BY <1>1, <1>3, <1>9, AnswersKeeps DEF Handlers, Paced
<1>10. CASE IfEnabled /\ line.word \notin Rolls /\ Can(b.minLevel) /\ Unheard
  <2>1. CASE Refuse({})
    BY <1>1, <1>10, <2>1, RefuseKeeps
  <2>2. CASE AnswerCooled("builtin")
    BY <1>1, <1>3, <1>10, <2>2, AnswerCooledKeeps DEF Handlers
  <2>. QED
    BY <1>10, <2>1, <2>2 DEF IfEnabled
<1>. QED
  BY <1>5, <1>6, <1>7, <1>8, <1>9, <1>10 DEF tryBuiltinCommand

LEMMA VideoTitleKeeps ==
    ASSUME ChainInv, VideoTitle
    PROVE  ChainInv'
<1>1. step = "video" /\ Unheard /\ Entitled /\ turnedDown \in BOOLEAN /\ running \subseteq Marks
  BY DEF VideoTitle, ChainInv, HeardSteps, DispatchTypeOK, Marks
<1>2. CASE Answers("video", {})
  BY <1>1, <1>2, AnswersKeeps DEF Handlers, MayAnswer, Paced
<1>3. CASE ~line.video /\ GoTo("autoreply") /\ Nothing
  BY <1>1, <1>3, GoesOnKeeps DEF GoTo, Nothing, Steps
<1>. QED
  BY <1>2, <1>3 DEF VideoTitle

LEMMA tryAutorepliesKeeps ==
    ASSUME ChainInv, tryAutoreplies
    PROVE  ChainInv'
<1>1. /\ step = "autoreply" /\ Unheard /\ Entitled /\ turnedDown \in BOOLEAN /\ running \subseteq Marks
      /\ ~line.video /\ at \in ChatRooms
  BY DEF tryAutoreplies, ChainInv, HeardSteps, DispatchTypeOK, Marks
<1>2. CASE Answers("autoreply", {<<"autoreply", at>>})
  <2>1. {<<"autoreply", at>>} \in SUBSET Marks
    BY <1>1 DEF Marks, Cools
  <2>. QED
    BY <1>1, <1>2, <2>1, AnswersKeeps DEF Handlers, MayAnswer, Paced
<1>3. CASE GoTo("end") /\ Nothing /\ (line.matches => <<"autoreply", at>> \in running)
  BY <1>1, <1>3, GoesOnKeeps DEF GoTo, Nothing, Steps, HeardSteps
<1>. QED
  BY <1>2, <1>3 DEF tryAutoreplies

LEMMA AnyChatIs == AnyChat \in Chats /\ AnyChat.line \in Line /\ AnyChat.room \in ChatRooms
<1>1. AnyChat \in Chats
  BY DispatchAssumption DEF AnyChat
<1>. QED
  BY <1>1, DispatchAssumption DEF Chat

LEMMA HandledKeeps ==
    ASSUME ChainInv, Handled
    PROVE  ChainInv'
<1>1. /\ step' = "idle" /\ chat' = AnyChat /\ line' = AnyChat.line /\ at' = AnyChat.room /\ imp' = FALSE
      /\ heard' = {} /\ turnedDown' = FALSE /\ answers' = <<>>
      /\ UNCHANGED <<defined, running, answered, chats>>
  BY DEF Handled, GoTo
<1>2. DispatchTypeOK'
  <2>1. DispatchTypeOK
    BY DEF ChainInv
  <2>2. /\ chat' \in Chats /\ line' \in Line /\ at' \in ChatRooms /\ imp' \in BOOLEAN
        /\ step' \in Steps /\ heard' \subseteq ChatRooms /\ turnedDown' \in BOOLEAN
    BY <1>1, AnyChatIs DEF Steps
  <2>3. answers' \in Seq([by : Handlers, room : ChatRooms, early : BOOLEAN])
    BY <1>1
  <2>. QED
    BY <1>1, <2>1, <2>2, <2>3 DEF DispatchTypeOK
<1>3. RefusedGoesOn' /\ Len(answers') <= 1 /\ DOMAIN answers' = {}
  BY <1>1 DEF RefusedGoesOn
<1>. QED
  BY <1>1, <1>2, <1>3 DEF ChainInv, HeardSteps

LEMMA ExpireKeeps ==
    ASSUME ChainInv, NEW mark \in Marks, Expire(mark)
    PROVE  ChainInv'
<1>1. /\ step = "idle" /\ running' = running \ {mark}
      /\ answered' = IF mark[1] = "command_cooldown" THEN answered \ {mark[2]} ELSE answered
      /\ UNCHANGED <<step, turnedDown, answers>> /\ Unheard
  BY DEF Expire
<1>2. UNCHANGED <<defined, chat, line, at, imp, heard, chats>>
  BY <1>1 DEF Unheard
<1>3. DispatchTypeOK'
  BY <1>1, <1>2 DEF ChainInv, DispatchTypeOK
<1>4. RefusedGoesOn' /\ answers' = <<>> /\ Len(answers') <= 1 /\ DOMAIN answers' = {}
  BY <1>1 DEF ChainInv, RefusedGoesOn
<1>5. \A r \in answered' : <<"command_cooldown", r>> \in running'
  <2>1. mark = <<mark[1], mark[2]>>
    BY DEF Marks
  <2>2. ASSUME NEW r \in answered' PROVE r \in answered /\ <<"command_cooldown", r>> # mark
    <3>1. CASE mark[1] = "command_cooldown"
      BY <1>1, <2>1, <2>2, <3>1
    <3>2. CASE mark[1] # "command_cooldown"
      BY <1>1, <2>1, <2>2, <3>2
    <3>. QED
      BY <3>1, <3>2
  <2>. QED
    BY <1>1, <2>2 DEF ChainInv
<1>. QED
  BY <1>1, <1>3, <1>4, <1>5 DEF ChainInv, HeardSteps

(* What a step of the chain can rely on, it can in every state.               *)
LEMMA ChainInvHolds == DispatchSpec => []ChainInv
<1>1. DispatchInit => ChainInv
  <2>. SUFFICES ASSUME DispatchInit PROVE ChainInv
    OBVIOUS
  <2>1. /\ defined \in Definitions /\ chat = AnyChat /\ line = AnyChat.line /\ at = AnyChat.room /\ imp = FALSE
        /\ step = "idle" /\ heard = {} /\ turnedDown = FALSE /\ answers = <<>>
        /\ running = {} /\ answered = {} /\ chats = 0
    BY DEF DispatchInit, NothingSaid
  <2>2. DispatchTypeOK
    <3>1. chat \in Chats /\ line \in Line /\ at \in ChatRooms /\ imp \in BOOLEAN
      BY <2>1, AnyChatIs
    <3>2. /\ step \in Steps /\ heard \subseteq ChatRooms /\ turnedDown \in BOOLEAN
          /\ running \subseteq Cools \X ChatRooms /\ answered \subseteq ChatRooms
      BY <2>1 DEF Steps
    <3>3. answers \in Seq([by : Handlers, room : ChatRooms, early : BOOLEAN]) /\ chats \in 0 .. MaxChats
      BY <2>1, DispatchAssumption
    <3>. QED
      BY <2>1, <3>1, <3>2, <3>3 DEF DispatchTypeOK
  <2>3. Len(answers) <= 1 /\ DOMAIN answers = {}
    BY <2>1
  <2>. QED
    BY <2>1, <2>2, <2>3 DEF ChainInv, HeardSteps, RefusedGoesOn
<1>2. ChainInv /\ [DispatchNext]_dispatchVars => ChainInv'
  <2>. SUFFICES ASSUME ChainInv, [DispatchNext]_dispatchVars PROVE ChainInv'
    OBVIOUS
  <2>1. CASE DispatchNext
    BY <2>1, buildSessionKeeps, tryFilterKeeps, UpdateChannelActivityKeeps, moderationCommandsKeeps,
       tryCommandKeeps, handleCustomCommandKeeps, handleListKeeps, tryBuiltinCommandKeeps, VideoTitleKeeps,
       tryAutorepliesKeeps, HandledKeeps, ExpireKeeps DEF DispatchNext, Marks
  <2>2. CASE UNCHANGED dispatchVars
    BY <2>2 DEF dispatchVars, ChainInv, DispatchTypeOK, RefusedGoesOn, Entitled, MayAnswer, Found, Called, Foreign, Room,
                Ignored, CanPG, Can
  <2>. QED
    BY <2>1, <2>2
<1>. QED
  BY <1>1, <1>2, PTL DEF DispatchSpec

(* Whatever channels define and whoever writes, at most one handler answers a *)
(* message, its user may use it, not before the cooldown of the last is over, *)
(* and a refused command hides no title and no autoreply (handleSession,      *)
(* tryCommand, TryCooldown).                                                  *)
THEOREM OneHandlerAnswers == DispatchSpec => []DispatchInv
<1>1. ChainInv => DispatchInv
  BY DEF ChainInv, DispatchInv, AnsweredOnce, AnswersApart, BuiltinsHidden, AnswersEntitled, MayAnswer, Entitled
<1>. QED
  BY <1>1, ChainInvHolds, PTL
------------------------------------------------------------------------------
(* 6. The evaluation of texts                                                 *)

Frame == [name : Names \union {"?autoreply"}, guards : SUBSET Names, todo : Seq(Act)]

(* Each text under evaluation guards exactly the names of the texts it is     *)
(* within and its own, so none of them is opened again above it.              *)
StackFits(fs) ==
    /\ fs \in Seq(Frame)
    /\ \A k \in DOMAIN fs : \A n \in Names : n \in fs[k].guards <=> \E j \in 1 .. k : fs[j].name = n
    /\ \A k \in DOMAIN fs : fs[k].name = "?autoreply" => k = 1
    /\ \A j, k \in DOMAIN fs : j # k => fs[j].name # fs[k].name

EvalTypes ==
    /\ texts \in [Names -> Texts]
    /\ session \in [params : Params, index : Nat, silent : BOOLEAN, live : BOOLEAN, autoreply : BOOLEAN]

(* The inductive invariant of an evaluation.                                  *)
EvalInv ==
    /\ phase # "done" => EvalTypes
    /\ phase = "start" => frames = <<>>
    /\ StackFits(frames)
    /\ OnlyTheUsedIsRefused
    /\ (\E text \in evaluated : Has(text, "SILENT")) => session.silent
    /\ phase = "replied" => ~session.silent

(* A name that was added begins itself, and what begins it is no longer.      *)
LEMMA OwnNameIsFound == NamesAreFound
<1>. SUFFICES ASSUME NEW k \in Keys PROVE findAction(k) = {k}
  BY DEF NamesAreFound
<1>1. Keys \subseteq Seq(Pieces)
  BY ActionsAssumption DEF Keys
<1>2. ASSUME NEW s \in Seq(Pieces) PROVE SubSeq(s, 1, Len(s)) = s
  BY <1>2
<1>3. IsPrefix(k, k)
  BY <1>1 DEF IsPrefix
<1>4. ASSUME NEW j \in Keys, IsPrefix(j, k) PROVE Len(j) <= Len(k) /\ (Len(k) <= Len(j) => j = k)
  <2>1. j \in Seq(Pieces) /\ k \in Seq(Pieces) /\ Len(j) \in Nat /\ Len(k) \in Nat
    BY <1>1
  <2>2. Len(j) <= Len(k) /\ SubSeq(j, 1, Len(j)) = SubSeq(k, 1, Len(j))
    BY <1>4 DEF IsPrefix
  <2>3. ASSUME Len(k) <= Len(j) PROVE j = k
    <3>1. Len(j) = Len(k)
      BY <2>1, <2>2, <2>3
    <3>. QED
      BY <3>1, <2>1, <2>2, <1>2
  <2>. QED
    BY <2>2, <2>3
<1>. QED
  BY <1>3, <1>4 DEF findAction

LEMMA PoppedFits ==
    ASSUME NEW fs, StackFits(fs), Len(fs) > 1
    PROVE  StackFits(Front(fs))
<1>1. fs \in Seq(Frame) /\ Len(fs) \in Nat
  BY DEF StackFits
<1>2. Front(fs) \in Seq(Frame) /\ Len(Front(fs)) = Len(fs) - 1 /\ DOMAIN Front(fs) = 1 .. Len(fs) - 1
  BY <1>1 DEF Front
<1>3. \A k \in DOMAIN Front(fs) : k \in DOMAIN fs /\ Front(fs)[k] = fs[k] /\ 1 .. k \subseteq DOMAIN Front(fs)
  BY <1>1, <1>2 DEF Front
<1>4. ASSUME NEW k \in DOMAIN Front(fs), NEW n \in Names
      PROVE  n \in Front(fs)[k].guards <=> \E j \in 1 .. k : Front(fs)[j].name = n
  BY <1>3 DEF StackFits
<1>. QED
  BY <1>2, <1>3, <1>4 DEF StackFits

LEMMA FrontIs ==
    ASSUME NEW fs \in Seq(Frame), Len(fs) \in Nat \ {0}
    PROVE  /\ Front(fs) \in Seq(Frame) /\ Len(Front(fs)) = Len(fs) - 1
           /\ \A k \in 1 .. Len(fs) - 1 : Front(fs)[k] = fs[k]
<1>1. Len(fs) - 1 \in Nat /\ Len(fs) - 1 <= Len(fs)
  OBVIOUS
<1>2. SubSeq(fs, 1, Len(fs) - 1) \in Seq(Frame) /\ Len(SubSeq(fs, 1, Len(fs) - 1)) = Len(fs) - 1
  <2>1. CASE Len(fs) = 1
    <3>1. SubSeq(fs, 1, 0) = <<>>
      BY SubSeqEmpty
    <3>2. Len(fs) - 1 = 0 /\ <<>> \in Seq(Frame) /\ Len(<<>>) = 0
      BY <2>1
    <3>. QED
      BY <3>1, <3>2
  <2>2. CASE Len(fs) > 1
    <3>1. \A i \in 1 .. Len(fs) - 1 : fs[i] \in Frame
      OBVIOUS
    <3>2. Len(fs) - 1 \in Nat
      OBVIOUS
    <3>. QED
      BY <2>2, <3>1, <3>2
  <2>3. Len(fs) = 1 \/ Len(fs) > 1
    OBVIOUS
  <2>. QED
    BY <2>1, <2>2, <2>3
<1>3. \A k \in 1 .. Len(fs) - 1 : SubSeq(fs, 1, Len(fs) - 1)[k] = fs[k]
  BY <1>1
<1>. QED
  BY <1>2, <1>3 DEF Front

LEMMA DoneFits ==
    ASSUME NEW fs, StackFits(fs), fs # <<>>, Last(fs).todo # <<>>
    PROVE  /\ StackFits(Done(fs)) /\ Len(Done(fs)) = Len(fs)
           /\ Last(Done(fs)).guards = Last(fs).guards
<1>1. fs \in Seq(Frame) /\ Len(fs) \in Nat \ {0} /\ Last(fs) = fs[Len(fs)] /\ Last(fs) \in Frame
  BY DEF StackFits, Last
<1>2. PICK last \in Frame : last = [Last(fs) EXCEPT !.todo = Tail(@)]
  <2>1. Tail(Last(fs).todo) \in Seq(Act)
    BY <1>1 DEF Frame
  <2>. QED
    BY <1>1, <2>1 DEF Frame
<1>3. last.name = Last(fs).name /\ last.guards = Last(fs).guards
  BY <1>1, <1>2 DEF Frame
<1>4. Front(fs) \in Seq(Frame) /\ Len(Front(fs)) = Len(fs) - 1 /\ \A k \in 1 .. Len(fs) - 1 : Front(fs)[k] = fs[k]
  BY <1>1, FrontIs
<1>5. PICK gs \in Seq(Frame) : gs = Done(fs)
  <2>1. Done(fs) = Append(Front(fs), last)
    BY <1>2 DEF Done
  <2>. QED
    BY <1>4, <2>1
<1>6. Len(gs) = Len(fs) /\ gs[Len(fs)] = last /\ \A k \in 1 .. Len(fs) - 1 : gs[k] = fs[k]
  BY <1>1, <1>2, <1>4, <1>5 DEF Done
<1>7. DOMAIN gs = DOMAIN fs /\ \A k \in DOMAIN fs : gs[k].name = fs[k].name /\ gs[k].guards = fs[k].guards /\ 1 .. k \subseteq DOMAIN fs
  BY <1>1, <1>3, <1>6
<1>8. StackFits(gs)
  <2>1. ASSUME NEW k \in DOMAIN gs, NEW n \in Names
        PROVE  n \in gs[k].guards <=> \E j \in 1 .. k : gs[j].name = n
    BY <1>7 DEF StackFits
  <2>. QED
    BY <1>5, <1>7, <2>1 DEF StackFits
<1>. QED
  BY <1>1, <1>3, <1>5, <1>6, <1>8 DEF Last

LEMMA PushedFits ==
    ASSUME NEW fs, StackFits(fs), fs # <<>>, NEW n \in Names, n \notin Last(fs).guards, NEW text \in Seq(Act)
    PROVE  StackFits(Append(fs, [name |-> n, guards |-> Last(fs).guards \union {n}, todo |-> text]))
<1>1. fs \in Seq(Frame) /\ Len(fs) \in Nat \ {0} /\ Last(fs) = fs[Len(fs)] /\ Last(fs) \in Frame
  BY DEF StackFits, Last
<1>2. PICK top \in Frame : top = [name |-> n, guards |-> Last(fs).guards \union {n}, todo |-> text]
  BY <1>1 DEF Frame
<1>3. PICK gs \in Seq(Frame) : gs = Append(fs, top)
  <2>1. Append(fs, top) \in Seq(Frame)
    BY <1>1, <1>2
  <2>. QED
    BY <2>1
<1>4. /\ Len(gs) = Len(fs) + 1 /\ gs[Len(fs) + 1] = top /\ DOMAIN gs = 1 .. Len(fs) + 1
      /\ \A k \in 1 .. Len(fs) : gs[k] = fs[k] /\ 1 .. k \subseteq 1 .. Len(fs)
      /\ DOMAIN fs = 1 .. Len(fs)
  <2>1. Len(gs) = Len(fs) + 1 /\ DOMAIN gs = 1 .. Len(gs) /\ DOMAIN fs = 1 .. Len(fs)
    BY <1>1, <1>3
  <2>2. gs[Len(fs) + 1] = top
    BY <1>1, <1>3
  <2>3. ASSUME NEW k \in 1 .. Len(fs) PROVE gs[k] = fs[k] /\ 1 .. k \subseteq 1 .. Len(fs)
    BY <1>1, <1>3
  <2>. QED
    BY <2>1, <2>2, <2>3
<1>5. \A m \in Names : m \in Last(fs).guards <=> \E j \in 1 .. Len(fs) : fs[j].name = m
  BY <1>1 DEF StackFits
<1>6. ASSUME NEW k \in DOMAIN gs, NEW m \in Names
      PROVE  m \in gs[k].guards <=> \E j \in 1 .. k : gs[j].name = m
  <2>1. CASE k \in 1 .. Len(fs)
    <3>1. m \in fs[k].guards <=> \E j \in 1 .. k : fs[j].name = m
      BY <2>1, <1>4 DEF StackFits
    <3>. QED
      BY <2>1, <3>1, <1>4
  <2>2. CASE k = Len(fs) + 1
    <3>1. m \in gs[k].guards <=> m \in Last(fs).guards \/ m = n
      BY <2>2, <1>2, <1>4
    <3>2. (\E j \in 1 .. k : gs[j].name = m) <=> (\E j \in 1 .. Len(fs) : gs[j].name = m) \/ gs[k].name = m
      BY <2>2, <1>1
    <3>3. (\E j \in 1 .. Len(fs) : gs[j].name = m) <=> \E j \in 1 .. Len(fs) : fs[j].name = m
      BY <1>4
    <3>4. gs[k].name = n
      BY <2>2, <1>2, <1>4
    <3>. QED
      BY <3>1, <3>2, <3>3, <3>4, <1>5
  <2>. QED
    BY <2>1, <2>2, <1>1, <1>4
<1>7. ASSUME NEW k \in DOMAIN fs PROVE fs[k].name # n
  BY <1>4, <1>5
<1>8. n # "?autoreply"
  BY ActionsAssumption DEF Names
<1>9. \A k \in DOMAIN gs : gs[k].name = "?autoreply" => k = 1
  BY <1>2, <1>4, <1>8 DEF StackFits
<1>10. ASSUME NEW j \in DOMAIN gs, NEW k \in DOMAIN gs, j # k PROVE gs[j].name # gs[k].name
  <2>1. CASE j \in 1 .. Len(fs) /\ k \in 1 .. Len(fs)
    BY <2>1, <1>4, <1>10 DEF StackFits
  <2>2. CASE j \in 1 .. Len(fs) /\ k = Len(fs) + 1
    BY <2>2, <1>2, <1>4, <1>7
  <2>3. CASE j = Len(fs) + 1 /\ k \in 1 .. Len(fs)
    BY <2>3, <1>2, <1>4, <1>7
  <2>. QED
    BY <2>1, <2>2, <2>3, <1>1, <1>4, <1>10
<1>11. StackFits(gs)
  BY <1>3, <1>6, <1>9, <1>10 DEF StackFits
<1>. QED
  BY <1>2, <1>3, <1>11

LEMMA FirstFits ==
    ASSUME NEW n \in Names, NEW text \in Seq(Act)
    PROVE  /\ StackFits(Append(<<>>, [name |-> n, guards |-> {n}, todo |-> text]))
           /\ StackFits(Append(<<>>, [name |-> "?autoreply", guards |-> {}, todo |-> text]))
<1>1. "?autoreply" \notin Names
  BY ActionsAssumption DEF Names
<1>2. ASSUME NEW top \in Frame, \A m \in Names : m \in top.guards <=> top.name = m
      PROVE  StackFits(Append(<<>>, top))
  <2>1. Append(<<>>, top) = <<top>> /\ <<top>> \in Seq(Frame) /\ DOMAIN <<top>> = {1} /\ <<top>>[1] = top /\ 1 .. 1 = {1}
    OBVIOUS
  <2>2. ASSUME NEW k \in DOMAIN <<top>>, NEW m \in Names
        PROVE  m \in <<top>>[k].guards <=> \E j \in 1 .. k : <<top>>[j].name = m
    BY <2>1, <1>2
  <2>. QED
    BY <2>1, <2>2 DEF StackFits
<1>3. [name |-> n, guards |-> {n}, todo |-> text] \in Frame
  BY DEF Frame
<1>4. [name |-> "?autoreply", guards |-> {}, todo |-> text] \in Frame
  BY DEF Frame
<1>. QED
  BY <1>1, <1>2, <1>3, <1>4

LEMMA TextsAreActs == EvalTypes => \A n \in Names : texts[n] \in Seq(Act)
BY ActionsAssumption DEF EvalTypes

LEMMA ParameterLeaves ==
    ASSUME EvalTypes
    PROVE  LET s == NextParameter(session).next
           IN /\ s \in [params : Params, index : Nat, silent : BOOLEAN, live : BOOLEAN, autoreply : BOOLEAN]
              /\ s.silent = session.silent
BY DEF EvalTypes, NextParameter

LEMMA PushKeeps ==
    ASSUME EvalInv, phase = "run", phase' = "run", UNCHANGED <<texts, refused>>,
           NEW fs, NEW name, NEW text \in Seq(Act), NEW guards,
           NEW s \in [params : Params, index : Nat, silent : BOOLEAN, live : BOOLEAN, autoreply : BOOLEAN],
           session.silent => s.silent,
           StackFits(fs), StackFits(Append(fs, [name |-> name, guards |-> guards, todo |-> text])),
           processCommand(fs, name, text, guards, s)
    PROVE  EvalInv'
<1>1. session' \in [params : Params, index : Nat, silent : BOOLEAN, live : BOOLEAN, autoreply : BOOLEAN]
  BY DEF processCommand, Has
<1>2. StackFits(frames')
  BY DEF processCommand
<1>3. (\E t \in evaluated' : Has(t, "SILENT")) => session'.silent
  BY DEF processCommand, EvalInv
<1>4. EvalTypes'
  BY <1>1 DEF EvalInv, EvalTypes
<1>. QED
  BY <1>2, <1>3, <1>4 DEF EvalInv, StackFits, OnlyTheUsedIsRefused

LEMMA PlainKeeps ==
    ASSUME EvalInv, Evaluating, phase' = "run", UNCHANGED texts,
           NEW s \in [params : Params, index : Nat, silent : BOOLEAN, live : BOOLEAN, autoreply : BOOLEAN],
           s.silent = session.silent, Plain(s)
    PROVE  EvalInv'
<1>1. StackFits(frames')
  BY DoneFits DEF EvalInv, Evaluating, Plain
<1>. QED
  BY <1>1 DEF EvalInv, EvalTypes, Evaluating, Plain, StackFits, OnlyTheUsedIsRefused

LEMMA UseKeeps ==
    ASSUME EvalInv, Evaluating, phase' = "run", UNCHANGED texts,
           NEW kind \in SUBSET Names, NEW name,
           NEW s \in [params : Params, index : Nat, silent : BOOLEAN, live : BOOLEAN, autoreply : BOOLEAN],
           s.silent = session.silent, Use(name, kind, s)
    PROVE  EvalInv'
<1>1. phase = "run" /\ EvalTypes /\ StackFits(frames) /\ frames # <<>> /\ Last(frames).todo # <<>>
  BY DEF EvalInv, Evaluating
<1>2. StackFits(Done(frames)) /\ Len(Done(frames)) = Len(frames) /\ Last(Done(frames)).guards = Last(frames).guards
  BY <1>1, DoneFits
<1>3. CASE name \notin kind
  BY <1>3, PlainKeeps DEF Use
<1>4. CASE name \in kind /\ isCommandGuarded(name)
  <2>1. /\ refused' = refused \union {<<name, UnderEvaluation>>} /\ session' = s
        /\ frames' = Done(frames) /\ evaluated' = evaluated
    BY <1>4 DEF Use
  <2>2. name \in UnderEvaluation
    <3>1. frames \in Seq(Frame) /\ Len(frames) \in DOMAIN frames /\ name \in Names
      BY <1>1, <1>4 DEF StackFits
    <3>2. PICK j \in 1 .. Len(frames) : frames[j].name = name
      BY <1>1, <1>4, <3>1 DEF isCommandGuarded, Last, StackFits
    <3>. QED
      BY <3>1, <3>2 DEF UnderEvaluation
  <2>3. OnlyTheUsedIsRefused'
    BY <2>1, <2>2 DEF EvalInv, OnlyTheUsedIsRefused
  <2>. QED
    BY <1>1, <1>2, <2>1, <2>3 DEF EvalInv, EvalTypes, StackFits
<1>5. CASE name \in kind /\ ~isCommandGuarded(name)
  <2>1. processCommand(Done(frames), name, texts[name], withCommandGuard(name), s) /\ refused' = refused
    BY <1>5 DEF Use
  <2>2. name \in Names /\ texts[name] \in Seq(Act)
    BY <1>1, <1>5, TextsAreActs
  <2>3. name \notin Last(Done(frames)).guards /\ Done(frames) # <<>>
    BY <1>1, <1>2, <1>5 DEF isCommandGuarded, StackFits
  <2>4. StackFits(Append(Done(frames), [name |-> name, guards |-> withCommandGuard(name), todo |-> texts[name]]))
    BY <1>2, <2>2, <2>3, PushedFits DEF withCommandGuard
  <2>. QED
    BY <1>1, <1>2, <2>1, <2>2, <2>4, PushKeeps
<1>. QED
  BY <1>3, <1>4, <1>5

LEMMA StartKeeps == ASSUME EvalInv, Start PROVE EvalInv'
<1>1. phase = "start" /\ phase' = "run" /\ EvalTypes /\ frames = <<>> /\ texts' = texts /\ refused' = refused
  BY DEF EvalInv, Start
<1>2. PICK n \in Names :
          \/ session.autoreply /\ processCommand(<<>>, "?autoreply", texts[n], {}, session)
          \/ ~session.autoreply /\ processCommand(<<>>, n, texts[n], {n}, session)
  BY DEF Start
<1>3. texts[n] \in Seq(Act)
  BY <1>1, TextsAreActs
<1>4. StackFits(<<>>)
  BY <1>1 DEF EvalInv
<1>5. ASSUME NEW name, NEW guards, processCommand(<<>>, name, texts[n], guards, session),
             StackFits(Append(<<>>, [name |-> name, guards |-> guards, todo |-> texts[n]]))
      PROVE  EvalInv'
  <2>1. session' \in [params : Params, index : Nat, silent : BOOLEAN, live : BOOLEAN, autoreply : BOOLEAN]
    BY <1>1, <1>5 DEF processCommand, Has, EvalTypes
  <2>2. StackFits(frames')
    BY <1>4, <1>5 DEF processCommand
  <2>3. (\E t \in evaluated' : Has(t, "SILENT")) => session'.silent
    BY <1>1, <1>5 DEF processCommand, EvalInv, EvalTypes
  <2>4. EvalTypes'
    BY <1>1, <2>1 DEF EvalTypes
  <2>. QED
    BY <1>1, <2>2, <2>3, <2>4 DEF EvalInv, StackFits, OnlyTheUsedIsRefused
<1>. QED
  BY <1>2, <1>3, <1>5, FirstFits

LEMMA ReturnKeeps == ASSUME EvalInv, Return PROVE EvalInv'
<1>1. phase = "run" /\ EvalTypes /\ StackFits(frames)
      /\ texts' = texts /\ session' = session /\ refused' = refused /\ evaluated' = evaluated
  BY DEF EvalInv, Return
<1>2. CASE Len(frames) <= 1
  BY <1>1, <1>2 DEF Return, EvalInv, EvalTypes, StackFits, OnlyTheUsedIsRefused
<1>3. CASE ~(Len(frames) <= 1)
  <2>1. frames' = Front(frames) /\ phase' = phase
    BY <1>3 DEF Return
  <2>2. StackFits(Front(frames))
    BY <1>1, <1>3, PoppedFits DEF StackFits
  <2>. QED
    BY <1>1, <2>1, <2>2 DEF EvalInv, EvalTypes, StackFits, OnlyTheUsedIsRefused
<1>. QED
  BY <1>2, <1>3

LEMMA EvaluateKeeps == ASSUME EvalInv, Evaluate PROVE EvalInv'
<1>1. CASE Start
  BY <1>1, StartKeeps
<1>2. CASE Return
  BY <1>2, ReturnKeeps
<1>3. ASSUME Evaluating PROVE phase = "run" /\ EvalTypes
  BY <1>3 DEF Evaluating, EvalInv
<1>4. CASE actionCommand
  BY <1>3, <1>4, UseKeeps DEF actionCommand, EvalTypes, Names, Evaluating
<1>5. CASE actionCommandOfParameter
  BY <1>3, <1>5, UseKeeps, ParameterLeaves DEF actionCommandOfParameter, Names, Evaluating
<1>6. CASE actionList
  BY <1>3, <1>6, UseKeeps DEF actionList, EvalTypes, Names, Evaluating
<1>7. CASE actionTweet
  BY <1>3, <1>7, UseKeeps DEF actionTweet, EvalTypes, Names, Evaluating
<1>8. CASE actionParameter
  BY <1>3, <1>8, PlainKeeps, ParameterLeaves DEF actionParameter, Evaluating
<1>9. ASSUME Evaluating, phase' \in {"panic", "failed"}, UNCHANGED <<texts, session, frames, refused, evaluated>>
      PROVE  EvalInv'
  BY <1>3, <1>9 DEF EvalInv, EvalTypes, StackFits, OnlyTheUsedIsRefused, Evaluating
<1>10. CASE actionOfParameter
  <2>1. Evaluating /\ texts' = texts
    BY <1>10 DEF actionOfParameter
  <2>2. \/ phase' = "panic" /\ UNCHANGED <<session, frames, refused, evaluated>>
        \/ Plain(NextParameter(session).next) /\ phase' = phase
    BY <1>10 DEF actionOfParameter
  <2>. QED
    BY <1>3, <1>9, <2>1, <2>2, PlainKeeps, ParameterLeaves
<1>11. CASE otherAction
  <2>1. Evaluating /\ texts' = texts
    BY <1>11 DEF otherAction
  <2>2. \/ Plain(session) /\ phase' = phase
        \/ phase' = "failed" /\ UNCHANGED <<session, frames, refused, evaluated>>
    BY <1>11 DEF otherAction
  <2>. QED
    BY <1>3, <1>9, <2>1, <2>2, PlainKeeps DEF EvalTypes
<1>. QED
  BY <1>1, <1>2, <1>4, <1>5, <1>6, <1>7, <1>8, <1>10, <1>11 DEF Evaluate

LEMMA EvalBegins == NoEval \/ EvalInit => EvalInv
<1>1. StackFits(<<>>)
  BY DEF StackFits
<1>2. NoEval \/ EvalInit => frames = <<>> /\ refused = {} /\ evaluated = {} /\ phase \in {"start", "done"}
  BY DEF NoEval, EvalInit
<1>3. EvalInit => EvalTypes
  <2>. SUFFICES ASSUME EvalInit PROVE EvalTypes
    OBVIOUS
  <2>1. PICK s \in [params : Params, index : {1}, silent : {FALSE}, live : BOOLEAN, autoreply : BOOLEAN] : session = s
    BY DEF EvalInit
  <2>2. s = [params |-> s.params, index |-> 1, silent |-> FALSE, live |-> s.live, autoreply |-> s.autoreply]
    OBVIOUS
  <2>3. s.params \in Params /\ s.live \in BOOLEAN /\ s.autoreply \in BOOLEAN
    BY Zenon
  <2>4. 1 \in Nat /\ FALSE \in BOOLEAN
    OBVIOUS
  <2>5. s \in [params : Params, index : Nat, silent : BOOLEAN, live : BOOLEAN, autoreply : BOOLEAN]
    BY <2>2, <2>3, <2>4, Zenon
  <2>. QED
    BY <2>1, <2>5 DEF EvalInit, EvalTypes
<1>4. NoEval => phase = "done"
  BY DEF NoEval
<1>. QED
  BY <1>1, <1>2, <1>3, <1>4 DEF EvalInv, OnlyTheUsedIsRefused

LEMMA NamesAreCounted == IsFiniteSet(Names) /\ Cardinality(Names) \in Nat /\ "?autoreply" \notin Names
<1>1. IsFiniteSet((CommandNames \union ListNames) \union {"?tweet"})
  BY ActionsAssumption, FS_AddElement
<1>2. IsFiniteSet(Names)
  BY <1>1 DEF Names
<1>. QED
  BY <1>2, ActionsAssumption, FS_CardinalityType DEF Names

(* As the names of the texts under evaluation differ, there are no more of    *)
(* them than names, and an autoreply.                                         *)
LEMMA StackIsBounded == StackFits(frames) => NestingIsBounded
<1>. SUFFICES ASSUME StackFits(frames) PROVE NestingIsBounded
  OBVIOUS
<1>. DEFINE All == Names \union {"?autoreply"}
            names == [k \in 1 .. Len(frames) |-> frames[k].name]
<1>1. frames \in Seq(Frame) /\ Len(frames) \in Nat /\ DOMAIN frames = 1 .. Len(frames)
  BY DEF StackFits
<1>2. IsFiniteSet(Names) /\ "?autoreply" \notin Names
  BY NamesAreCounted
<1>3. IsFiniteSet(All) /\ Cardinality(All) = Cardinality(Names) + 1
  BY <1>2, FS_AddElement
<1>4. IsFiniteSet(1 .. Len(frames)) /\ Cardinality(1 .. Len(frames)) = Len(frames)
  BY <1>1, FS_Interval
<1>5. names \in Injection(1 .. Len(frames), All)
  <2>1. ASSUME NEW k \in 1 .. Len(frames) PROVE names[k] \in All
    <3>1. frames[k] \in Frame
      BY <1>1
    <3>2. frames[k].name \in All
      BY <3>1 DEF Frame
    <3>. QED
      BY <3>2
  <2>2. ASSUME NEW j \in 1 .. Len(frames), NEW k \in 1 .. Len(frames), names[j] = names[k] PROVE j = k
    BY <2>2, <1>1 DEF StackFits
  <2>3. IsInjective(names)
    BY <2>2 DEF IsInjective
  <2>. QED
    BY <2>1, <2>3 DEF Injection
<1>. QED
  BY <1>3, <1>4, <1>5, FS_Injection DEF NestingIsBounded

(* Whatever the texts of a channel are and whatever a message says: no text   *)
(* is evaluated within itself, so they are nested no deeper than there are    *)
(* texts; only what is under evaluation is refused, and what is silent in a   *)
(* text silences the answer (actionCommand, actionList, actionTweet,          *)
(* processCommand, withCommandGuard).                                         *)
THEOREM NoEndlessTexts == ActionsSpec => []ActionsInv
<1>1. EvalInv /\ [Evaluate]_evalVars => EvalInv'
  BY EvaluateKeeps DEF evalVars, EvalInv, EvalTypes, StackFits, OnlyTheUsedIsRefused
<1>2. EvalInv => ActionsInv
  BY StackIsBounded, OwnNameIsFound
     DEF EvalInv, StackFits, ActionsInv, NoTextWithinItself, SilentIsSilent
<1>. QED
  BY <1>1, <1>2, EvalBegins, PTL DEF ActionsSpec

(* An action that is done leaves its text one action shorter and the texts    *)
(* around it as they are.                                                     *)
LEMMA DoneShrinks ==
    ASSUME NEW fs, StackFits(fs), fs # <<>>, Last(fs).todo # <<>>
    PROVE  /\ Len(fs) \in Nat \ {0} /\ Done(fs) \in Seq(Frame) /\ Len(Done(fs)) = Len(fs)
           /\ Left(Done(fs), Len(fs)) < Left(fs, Len(fs))
           /\ \A j \in 1 .. Len(fs) - 1 : Left(Done(fs), j) = Left(fs, j)
<1>1. fs \in Seq(Frame) /\ Len(fs) \in Nat \ {0} /\ Last(fs) = fs[Len(fs)] /\ Last(fs) \in Frame
  BY DEF StackFits, Last
<1>2. PICK gs \in Seq(Frame) : gs = Done(fs) /\ Len(gs) = Len(fs)
  BY DoneFits DEF StackFits
<1>3. DOMAIN gs = 1 .. Len(fs) /\ DOMAIN fs = 1 .. Len(fs)
  BY <1>1, <1>2
<1>4. PICK last : last = [Last(fs) EXCEPT !.todo = Tail(@)]
  OBVIOUS
<1>5. PICK front : front = Front(fs)
  OBVIOUS
<1>6. front \in Seq(Frame) /\ Len(front) = Len(fs) - 1 /\ \A j \in 1 .. Len(fs) - 1 : front[j] = fs[j]
  BY <1>1, <1>5, FrontIs
<1>7. gs = Append(front, last)
  BY <1>2, <1>4, <1>5 DEF Done
<1>8. gs[Len(fs)] = last /\ \A j \in 1 .. Len(fs) - 1 : gs[j] = fs[j]
  BY <1>1, <1>6, <1>7
<1>9. last.todo = Tail(Last(fs).todo) /\ Last(fs).todo \in Seq(Act)
  BY <1>1, <1>4 DEF Frame
<1>10. Len(last.todo) < Len(Last(fs).todo) /\ Len(last.todo) \in Nat /\ Len(Last(fs).todo) \in Nat
  BY <1>9
<1>11. Left(gs, Len(fs)) < Left(fs, Len(fs))
  BY <1>1, <1>3, <1>8, <1>10 DEF Left
<1>12. \A j \in 1 .. Len(fs) - 1 : Left(gs, j) = Left(fs, j)
  BY <1>1, <1>3, <1>8 DEF Left
<1>. QED
  BY <1>1, <1>2, <1>11, <1>12

LEMMA PushedLeaves ==
    ASSUME NEW fs \in Seq(Frame), NEW top, NEW k \in 1 .. Len(fs)
    PROVE  Left(Append(fs, top), k) = Left(fs, k)
<1>1. PICK gs : gs = Append(fs, top)
  OBVIOUS
<1>2. k \in DOMAIN fs /\ k \in DOMAIN gs /\ gs[k] = fs[k]
  BY <1>1
<1>. QED
  BY <1>1, <1>2 DEF Left

LEMMA PoppedShrinks ==
    ASSUME NEW fs \in Seq(Frame), Len(fs) > 1
    PROVE  /\ Left(Front(fs), Len(fs)) < Left(fs, Len(fs))
           /\ \A j \in 1 .. Len(fs) - 1 : Left(Front(fs), j) = Left(fs, j)
<1>1. Len(fs) \in Nat \ {0} /\ Len(fs) \in DOMAIN fs /\ fs[Len(fs)] \in Frame
  OBVIOUS
<1>2. PICK gs \in Seq(Frame) : gs = Front(fs) /\ Len(gs) = Len(fs) - 1 /\ \A j \in 1 .. Len(fs) - 1 : gs[j] = fs[j]
  BY <1>1, FrontIs
<1>3. DOMAIN gs = 1 .. Len(fs) - 1 /\ DOMAIN fs = 1 .. Len(fs)
  BY <1>1, <1>2
<1>4. Left(gs, Len(fs)) = 0
  BY <1>1, <1>3 DEF Left
<1>5. fs[Len(fs)].todo \in Seq(Act) /\ Len(fs[Len(fs)].todo) \in Nat
  BY <1>1 DEF Frame
<1>6. Left(fs, Len(fs)) > 0
  BY <1>1, <1>5 DEF Left
<1>7. \A j \in 1 .. Len(fs) - 1 : Left(gs, j) = Left(fs, j)
  BY <1>1, <1>2, <1>3 DEF Left
<1>. QED
  BY <1>2, <1>4, <1>6, <1>7

(* An action that is evaluated is done, and opens another text or not, unless *)
(* the evaluation is over with it.                                            *)
LEMMA ActionsAreDone ==
    ASSUME Evaluate, phase = "run", phase' = "run", ~Return
    PROVE  /\ Evaluating
           /\ frames' = Done(frames) \/ \E top : frames' = Append(Done(frames), top)
<1>1. ASSUME NEW name, NEW kind, NEW s, Use(name, kind, s)
      PROVE  frames' = Done(frames) \/ \E top : frames' = Append(Done(frames), top)
  BY <1>1 DEF Use, Plain, processCommand
<1>2. Evaluating
  BY DEF Evaluate, Start, actionCommand, actionCommandOfParameter, actionList, actionTweet, actionParameter,
         actionOfParameter, otherAction
<1>3. CASE actionCommand \/ actionList \/ actionTweet \/ actionCommandOfParameter
  BY <1>1, <1>3 DEF actionCommand, actionList, actionTweet, actionCommandOfParameter
<1>4. CASE actionParameter \/ actionOfParameter \/ otherAction
  BY <1>4 DEF actionParameter, actionOfParameter, otherAction, Plain
<1>. QED
  BY <1>2, <1>3, <1>4 DEF Evaluate, Start

(* An evaluation ends whatever the texts are: they could use each other for   *)
(* ever only if one was evaluated within itself (walk, withCommandGuard).     *)
THEOREM EvaluationsShrink == ActionsSpec => EvaluationShrinks
<1>. DEFINE ShrinksAt(k) == /\ Left(frames', k) < Left(frames, k)
                            /\ \A j \in 1 .. k - 1 : Left(frames', j) = Left(frames, j)
            Shrinks == phase = "run" /\ phase' = "run" => \E k \in 1 .. Cardinality(Names) + 1 : ShrinksAt(k)
<1>1. ASSUME EvalInv, Evaluate PROVE Shrinks
  <2>. SUFFICES ASSUME phase = "run", phase' = "run" PROVE \E k \in 1 .. Cardinality(Names) + 1 : ShrinksAt(k)
    OBVIOUS
  <2>1. StackFits(frames) /\ NestingIsBounded /\ frames \in Seq(Frame) /\ Len(frames) \in Nat
    BY <1>1, StackIsBounded DEF EvalInv, StackFits
  <2>2. CASE Return
    <3>1. frames' = Front(frames) /\ Len(frames) > 1
      BY <2>1, <2>2 DEF Return
    <3>2. ShrinksAt(Len(frames))
      BY <2>1, <3>1, PoppedShrinks
    <3>. QED
      BY <2>1, <3>1, <3>2, NamesAreCounted DEF NestingIsBounded
  <2>3. CASE ~Return
    <3>1. frames # <<>> /\ Last(frames).todo # <<>>
      BY <1>1, <2>3, ActionsAreDone DEF Evaluating
    <3>2. /\ Len(frames) \in Nat \ {0} /\ Done(frames) \in Seq(Frame) /\ Len(Done(frames)) = Len(frames)
          /\ Left(Done(frames), Len(frames)) < Left(frames, Len(frames))
          /\ \A j \in 1 .. Len(frames) - 1 : Left(Done(frames), j) = Left(frames, j)
      BY <2>1, <3>1, DoneShrinks
    <3>3. \A k \in 1 .. Len(frames) : Left(frames', k) = Left(Done(frames), k)
      <4>1. frames' = Done(frames) \/ \E top : frames' = Append(Done(frames), top)
        BY <1>1, <2>3, ActionsAreDone
      <4>2. \A top : \A k \in 1 .. Len(frames) : Left(Append(Done(frames), top), k) = Left(Done(frames), k)
        BY <3>2, PushedLeaves
      <4>. QED
        BY <4>1, <4>2, Zenon
    <3>4. ShrinksAt(Len(frames))
      BY <3>2, <3>3
    <3>. QED
      BY <2>1, <3>2, <3>4, NamesAreCounted DEF NestingIsBounded
  <2>. QED
    BY <2>2, <2>3
<1>2. EvalInv /\ [Evaluate]_evalVars => [Shrinks]_evalVars
  BY <1>1
<1>3. EvalInv /\ [Evaluate]_evalVars => EvalInv'
  BY EvaluateKeeps DEF evalVars, EvalInv, EvalTypes, StackFits, OnlyTheUsedIsRefused
<1>. QED
  BY <1>2, <1>3, EvalBegins, PTL DEF ActionsSpec, EvaluationShrinks
------------------------------------------------------------------------------
(* 7. The parsing of texts                                                  *)

LEMMA LeastThereIs ==
    ASSUME NEW T \in SUBSET Nat, T # {}
    PROVE  \E m \in T : \A k \in T : m <= k
<1>1. \E k \in T : \A m \in T : ~(<<m, k>> \in Below)
  BY BelowIsWellFounded, WFMin
<1>2. \A k \in T, m \in T : ~(<<m, k>> \in Below) => k <= m
  BY DEF Below
<1>. QED
  BY <1>1, <1>2

(* FlattenSeq concatenates: it is defined by recursion, so that there is such *)
(* a function, and only one, has to be shown first.                           *)
Flattens(f, ss, n) == \A i \in 1 .. n : f[i] = IF i = 1 THEN ss[i] ELSE f[i - 1] \o ss[i]

LEMMA FlatteningExists ==
    ASSUME NEW S, NEW ss \in Seq(Seq(S))
    PROVE  \A n \in 0 .. Len(ss) : \E f \in [1 .. n -> Seq(S)] : Flattens(f, ss, n)
<1>. DEFINE Fits(n) == \E f \in [1 .. n -> Seq(S)] : Flattens(f, ss, n)
            Without == {n \in 0 .. Len(ss) : ~Fits(n)}
<1>. SUFFICES ASSUME Without # {} PROVE FALSE
  OBVIOUS
<1>1. Len(ss) \in Nat /\ \A i \in 1 .. Len(ss) : ss[i] \in Seq(S)
  OBVIOUS
<1>2. PICK m \in Without : \A k \in Without : m <= k
  <2>. HIDE DEF Fits
  <2>1. Without \in SUBSET Nat
    BY <1>1
  <2>. QED
    BY <2>1, LeastThereIs
<1>3. m \in 0 .. Len(ss) /\ ~Fits(m) /\ (m # 0 => m - 1 \in 0 .. Len(ss) /\ Fits(m - 1))
  <2>. HIDE DEF Fits
  <2>. QED
    BY <1>1, <1>2
<1>4. CASE m = 0
  <2>1. [i \in 1 .. 0 |-> <<>>] \in [1 .. 0 -> Seq(S)] /\ Flattens([i \in 1 .. 0 |-> <<>>], ss, 0)
    BY DEF Flattens
  <2>. QED
    BY <1>3, <1>4, <2>1
<1>5. CASE m # 0
  <2>1. PICK f \in [1 .. m - 1 -> Seq(S)] : Flattens(f, ss, m - 1)
    BY <1>3, <1>5
  <2>. DEFINE last == IF m = 1 THEN ss[1] ELSE f[m - 1] \o ss[m]
              g == [i \in 1 .. m |-> IF i = m THEN last ELSE f[i]]
  <2>2. m \in 1 .. Len(ss) /\ m \in Nat
    BY <1>1, <1>3, <1>5
  <2>3. last \in Seq(S)
    BY <1>1, <2>1, <2>2, ConcatProperties
  <2>4. g \in [1 .. m -> Seq(S)]
    <3>. HIDE DEF last
    <3>. QED
      BY <2>1, <2>2, <2>3
  <2>5. Flattens(g, ss, m)
    <3>. SUFFICES ASSUME NEW i \in 1 .. m PROVE g[i] = IF i = 1 THEN ss[i] ELSE g[i - 1] \o ss[i]
      BY DEF Flattens
    <3>1. CASE i = m
      <4>1. i # 1 => i - 1 \in 1 .. m /\ i - 1 # m /\ g[i - 1] = f[m - 1]
        BY <2>2, <3>1
      <4>. QED
        BY <2>2, <3>1, <4>1
    <3>2. CASE i # m
      <4>1. i \in 1 .. m - 1 /\ g[i] = f[i] /\ (i # 1 => i - 1 \in 1 .. m /\ i - 1 # m /\ g[i - 1] = f[i - 1])
        BY <2>2, <3>2
      <4>. HIDE DEF g
      <4>. QED
        BY <2>1, <4>1 DEF Flattens
    <3>. QED
      BY <3>1, <3>2
  <2>. QED
    BY <1>3, <2>4, <2>5
<1>. QED
  BY <1>4, <1>5

LEMMA OneFlattening ==
    ASSUME NEW ss, NEW n \in Nat, NEW f, NEW g, Flattens(f, ss, n), Flattens(g, ss, n)
    PROVE  \A i \in 1 .. n : f[i] = g[i]
<1>. DEFINE Differ == {i \in 1 .. n : f[i] # g[i]}
<1>. SUFFICES ASSUME Differ # {} PROVE FALSE
  OBVIOUS
<1>1. PICK m \in Differ : \A k \in Differ : m <= k
  <2>1. Differ \in SUBSET Nat
    OBVIOUS
  <2>. QED
    BY <2>1, LeastThereIs
<1>2. m \in 1 .. n /\ f[m] # g[m] /\ (m # 1 => m - 1 \in 1 .. n /\ f[m - 1] = g[m - 1])
  BY <1>1
<1>. QED
  BY <1>2 DEF Flattens

LEMMA FlattenIs ==
    ASSUME NEW S, NEW ss \in Seq(Seq(S)), ss # <<>>,
           NEW f \in [1 .. Len(ss) -> Seq(S)], Flattens(f, ss, Len(ss))
    PROVE  FlattenSeq(ss) = f[Len(ss)]
<1>. DEFINE flatten == CHOOSE h : h = [i \in 1 .. Len(ss) |-> IF i = 1 THEN ss[i] ELSE h[i - 1] \o ss[i]]
<1>1. f = [i \in 1 .. Len(ss) |-> IF i = 1 THEN ss[i] ELSE f[i - 1] \o ss[i]]
  BY DEF Flattens
<1>2. flatten = [i \in 1 .. Len(ss) |-> IF i = 1 THEN ss[i] ELSE flatten[i - 1] \o ss[i]]
  BY <1>1, Zenon
<1>3. Flattens(flatten, ss, Len(ss))
  <2>. HIDE DEF flatten
  <2>. QED
    BY <1>2 DEF Flattens
<1>4. Len(ss) \in Nat /\ Len(ss) # 0
  OBVIOUS
<1>5. flatten[Len(ss)] = f[Len(ss)]
  <2>. HIDE DEF flatten
  <2>. QED
    BY <1>3, <1>4, OneFlattening
<1>. QED
  BY <1>4, <1>5, Zenon DEF FlattenSeq

LEMMA FlattenAppend ==
    ASSUME NEW S, NEW ss \in Seq(Seq(S)), NEW s \in Seq(S)
    PROVE  /\ FlattenSeq(<<>>) = <<>>
           /\ FlattenSeq(ss) \in Seq(S)
           /\ FlattenSeq(Append(ss, s)) = FlattenSeq(ss) \o s
<1>1. FlattenSeq(<<>>) = <<>>
  BY DEF FlattenSeq
<1>. DEFINE more == Append(ss, s)
<1>2. /\ Len(ss) \in Nat /\ more \in Seq(Seq(S)) /\ Len(more) = Len(ss) + 1
      /\ more # <<>> /\ more[Len(ss) + 1] = s
      /\ \A i \in 1 .. Len(ss) : more[i] = ss[i]
  BY AppendProperties
<1>. HIDE DEF more
<1>3. PICK f \in [1 .. Len(more) -> Seq(S)] : Flattens(f, more, Len(more))
  <2>1. Len(more) \in 0 .. Len(more)
    BY <1>2
  <2>. QED
    BY <1>2, <2>1, FlatteningExists
<1>4. FlattenSeq(more) = f[Len(ss) + 1]
  BY <1>2, <1>3, FlattenIs
<1>5. CASE ss = <<>>
  <2>1. f[1] = s
    BY <1>2, <1>3, <1>5 DEF Flattens
  <2>2. FlattenSeq(more) = s
    BY <1>2, <1>4, <1>5, <2>1
  <2>3. <<>> \o s = s
    BY ConcatEmptySeq
  <2>4. FlattenSeq(ss) = <<>> /\ <<>> \in Seq(S) /\ FlattenSeq(ss) \o s = s
    BY <1>1, <1>5, <2>3
  <2>5. FlattenSeq(Append(ss, s)) = s
    BY <2>2 DEF more
  <2>. QED
    BY <1>1, <2>4, <2>5
<1>6. CASE ss # <<>>
  <2>. DEFINE g == [i \in 1 .. Len(ss) |-> f[i]]
  <2>1. Len(ss) \in 1 .. Len(ss) /\ 1 .. Len(ss) \subseteq 1 .. Len(more)
    BY <1>2, <1>6
  <2>2. g \in [1 .. Len(ss) -> Seq(S)]
    BY <1>3, <2>1
  <2>3. \A i \in 1 .. Len(ss) : f[i] = IF i = 1 THEN ss[i] ELSE f[i - 1] \o ss[i]
    BY <1>2, <1>3, <2>1 DEF Flattens
  <2>4. Flattens(g, ss, Len(ss))
    <3>. SUFFICES ASSUME NEW i \in 1 .. Len(ss) PROVE g[i] = IF i = 1 THEN ss[i] ELSE g[i - 1] \o ss[i]
      BY DEF Flattens
    <3>1. g[i] = f[i] /\ (i # 1 => g[i - 1] = f[i - 1])
      BY <1>2
    <3>. QED
      BY <2>3, <3>1
  <2>5. FlattenSeq(ss) = f[Len(ss)] /\ f[Len(ss)] \in Seq(S)
    BY <1>3, <1>6, <2>1, <2>2, <2>4, FlattenIs
  <2>6. f[Len(ss) + 1] = f[Len(ss)] \o s
    <3>. DEFINE n == Len(ss) + 1
    <3>1. n \in 1 .. Len(more) /\ n # 1 /\ n - 1 = Len(ss)
      BY <1>2, <2>1
    <3>. HIDE DEF n
    <3>2. f[n] = f[n - 1] \o more[n]
      BY <1>3, <3>1 DEF Flattens
    <3>3. f[n] = f[Len(ss)] \o more[n]
      BY <3>1, <3>2
    <3>. QED
      BY <1>2, <3>3 DEF n
  <2>. QED
    BY <1>1, <1>4, <2>5, <2>6 DEF more
<1>. QED
  BY <1>5, <1>6

(* Induction over sequences, for a set of them.                               *)
LEMMA AllSequences ==
    ASSUME NEW S, NEW G \in SUBSET Seq(S), <<>> \in G,
           \A s \in G, x \in S : Append(s, x) \in G
    PROVE  \A s \in Seq(S) : s \in G
<1>. DEFINE Missing == {n \in Nat : \E s \in Seq(S) : Len(s) = n /\ s \notin G}
<1>. SUFFICES ASSUME Missing # {} PROVE FALSE
  <2>1. \A s \in Seq(S) : Len(s) \in Nat
    OBVIOUS
  <2>. QED
    BY <2>1
<1>1. PICK m \in Missing : \A k \in Missing : m <= k
  <2>1. Missing \in SUBSET Nat
    OBVIOUS
  <2>. QED
    BY <2>1, LeastThereIs
<1>2. PICK s \in Seq(S) : Len(s) = m /\ s \notin G
  BY <1>1
<1>3. PICK t \in Seq(S), x \in S : s = Append(t, x)
  BY <1>2, SequenceEmptyOrAppend
<1>4. Len(t) \in Nat /\ m = Len(t) + 1
  BY <1>2, <1>3, AppendProperties
<1>5. Len(t) \notin Missing
  <2>1. m \in Nat /\ \A k \in Missing : m <= k
    BY <1>1
  <2>. HIDE DEF Missing
  <2>. QED
    BY <1>4, <2>1
<1>6. t \in G
  BY <1>3, <1>4, <1>5, Zenon
<1>. QED
  BY <1>2, <1>3, <1>6

LEMMA StringsJoin ==
    /\ \A s, t \in Seq(Char) : s \o t \in Seq(Char)
    /\ \A s \in Seq(Char) : s \o <<>> = s /\ <<>> \o s = s
BY ConcatProperties, ConcatEmptySeq

LEMMA StringsAssociate == \A s, t, u \in Seq(Char) : (s \o t) \o u = s \o (t \o u)
BY ConcatAssociative

LEMMA SeparatorsType == Open \in Seq(Char) /\ Close \in Seq(Char) /\ Len(Open) = 2 /\ Len(Close) = 2 /\ Open # Close
<1>1. "(" \in Char /\ "_" \in Char /\ ")" \in Char
  BY TemplatesAssumption
<1>2. Open[1] = "(" /\ Close[1] = "_"
  BY DEF Open, Close
<1>3. Len(Open) = 2 /\ Len(Close) = 2
  BY DEF Open, Close
<1>4. \A c, d \in Char : <<c, d>> \in Seq(Char)
  OBVIOUS
<1>. QED
  BY <1>1, <1>2, <1>3, <1>4 DEF Open, Close

LEMMA ItemsType ==
    /\ ActionItem \in Item /\ EndItem \in Item
    /\ \A s \in Seq(Char) : TextItem(s) \in Item /\ IsText(TextItem(s)) /\ TextItem(s).text = s
    /\ ~IsText(ActionItem) /\ ~IsText(EndItem) /\ ActionItem.text = Open /\ EndItem.text = Close
BY SeparatorsType DEF Item, ActionItem, EndItem, TextItem, IsText

LEMMA AppendedString ==
    ASSUME NEW nodes \in Seq(Item), NEW item \in Item
    PROVE  /\ NodesString(<<>>) = <<>>
           /\ NodesString(nodes) \in Seq(Char)
           /\ NodesString(Append(nodes, item)) = NodesString(nodes) \o item.text
<1>. DEFINE TextsOf(s) == [k \in DOMAIN s |-> s[k].text]
<1>1. TextsOf(nodes) \in Seq(Seq(Char)) /\ item.text \in Seq(Char) /\ TextsOf(<<>>) = <<>>
  <2>1. Len(nodes) \in Nat /\ DOMAIN nodes = 1 .. Len(nodes) /\ \A k \in 1 .. Len(nodes) : nodes[k] \in Item
    OBVIOUS
  <2>2. \A i \in Item : i.text \in Seq(Char)
    BY DEF Item
  <2>3. \A k \in 1 .. Len(nodes) : nodes[k].text \in Seq(Char)
    BY <2>1, <2>2
  <2>4. TextsOf(nodes) \in [1 .. Len(nodes) -> Seq(Char)]
    BY <2>1, <2>3
  <2>. QED
    BY <2>1, <2>2, <2>4, IsASeq
<1>2. TextsOf(Append(nodes, item)) = Append(TextsOf(nodes), item.text)
  OBVIOUS
<1>. HIDE DEF TextsOf
<1>3. FlattenSeq(Append(TextsOf(nodes), item.text)) = FlattenSeq(TextsOf(nodes)) \o item.text
      /\ FlattenSeq(TextsOf(nodes)) \in Seq(Char) /\ FlattenSeq(<<>>) = <<>>
  BY <1>1, FlattenAppend
<1>4. \A s : NodesString(s) = FlattenSeq(TextsOf(s))
  BY DEF NodesString, TextsOf
<1>. QED
  BY <1>1, <1>2, <1>3, <1>4

LEMMA JoinedString ==
    ASSUME NEW nodes \in Seq(Item), NEW more \in Seq(Item)
    PROVE  NodesString(nodes \o more) = NodesString(nodes) \o NodesString(more)
<1>. DEFINE G == {s \in Seq(Item) : NodesString(nodes \o s) = NodesString(nodes) \o NodesString(s)}
<1>1. <<>> \in G
  <2>1. nodes \o <<>> = nodes /\ <<>> \in Seq(Item)
    BY ConcatEmptySeq
  <2>2. NodesString(<<>>) = <<>> /\ NodesString(nodes) \in Seq(Char)
    BY AppendedString, ItemsType
  <2>3. NodesString(nodes) \o <<>> = NodesString(nodes)
    BY <2>2, ConcatEmptySeq
  <2>. QED
    BY <2>1, <2>2, <2>3
<1>2. ASSUME NEW s \in G, NEW x \in Item PROVE Append(s, x) \in G
  <2>1. s \in Seq(Item) /\ Append(s, x) \in Seq(Item) /\ nodes \o s \in Seq(Item)
    BY AppendProperties, ConcatProperties
  <2>2. nodes \o Append(s, x) = Append(nodes \o s, x)
    BY <2>1
  <2>3. /\ NodesString(Append(nodes \o s, x)) = NodesString(nodes \o s) \o x.text
        /\ NodesString(Append(s, x)) = NodesString(s) \o x.text
        /\ NodesString(s) \in Seq(Char) /\ NodesString(nodes) \in Seq(Char)
    BY <2>1, AppendedString
  <2>4. x.text \in Seq(Char)
    BY DEF Item
  <2>5. (NodesString(nodes) \o NodesString(s)) \o x.text = NodesString(nodes) \o (NodesString(s) \o x.text)
    <3>. DEFINE a == NodesString(nodes)
                b == NodesString(s)
                c == x.text
    <3>1. a \in Seq(Char) /\ b \in Seq(Char) /\ c \in Seq(Char)
      BY <2>3, <2>4
    <3>. HIDE DEF a, b, c
    <3>2. (a \o b) \o c = a \o (b \o c)
      BY <3>1, StringsAssociate
    <3>. QED
      BY <3>2 DEF a, b, c
  <2>. QED
    BY <2>1, <2>2, <2>3, <2>5
<1>3. \A s \in Seq(Item) : s \in G
  <2>1. G \in SUBSET Seq(Item)
    OBVIOUS
  <2>. HIDE DEF G
  <2>. QED
    BY <1>1, <1>2, <2>1, AllSequences
<1>. QED
  BY <1>3

LEMMA FrontAndLast ==
    ASSUME NEW S, NEW s \in Seq(S), s # <<>>
    PROVE  /\ Front(s) \in Seq(S) /\ Last(s) \in S /\ s = Append(Front(s), Last(s))
           /\ Len(Front(s)) = Len(s) - 1 /\ Last(s) = s[Len(s)]
           /\ \A k \in 1 .. Len(s) - 1 : Front(s)[k] = s[k]
<1>1. PICK t \in Seq(S), x \in S : s = Append(t, x)
  BY SequenceEmptyOrAppend
<1>2. Len(t) \in Nat /\ Len(s) = Len(t) + 1 /\ s[Len(s)] = x /\ \A k \in 1 .. Len(t) : s[k] = t[k]
  BY <1>1, AppendProperties
<1>3. SubSeq(s, 1, Len(t)) = t
  <2>1. SubSeq(s, 1, Len(t)) \in Seq(S) /\ Len(SubSeq(s, 1, Len(t))) = Len(t)
        /\ \A k \in 1 .. Len(t) : SubSeq(s, 1, Len(t))[k] = s[k]
    BY <1>2
  <2>. QED
    BY <1>2, <2>1, SeqEqual
<1>4. Front(s) = t /\ Last(s) = x
  BY <1>2, <1>3 DEF Front, Last
<1>. QED
  BY <1>1, <1>2, <1>4

LEMMA AppendFrontLast ==
    ASSUME NEW S, NEW s \in Seq(S), NEW x \in S
    PROVE  Front(Append(s, x)) = s /\ Last(Append(s, x)) = x
<1>1. Append(s, x) \in Seq(S) /\ Append(s, x) # <<>>
  BY AppendProperties
<1>2. Append(s, x) = Append(Front(Append(s, x)), Last(Append(s, x)))
      /\ Front(Append(s, x)) \in Seq(S) /\ Last(Append(s, x)) \in S
  BY <1>1, FrontAndLast
<1>. QED
  BY <1>2, AppendInjective

(* All that a stack stands for, with the separators of the actions that are   *)
(* open.                                                                      *)
StackString(st) ==
    FlattenSeq([i \in DOMAIN st |-> IF i = 1 THEN NodesString(st[i]) ELSE Open \o NodesString(st[i])])

OpenedBefore(st) == IF st = <<>> THEN <<>> ELSE StackString(st) \o Open

LEMMA PushedString ==
    ASSUME NEW st \in Seq(Seq(Item)), NEW nodes \in Seq(Item)
    PROVE  /\ StackString(st) \in Seq(Char) /\ OpenedBefore(st) \in Seq(Char)
           /\ StackString(Append(st, nodes)) = OpenedBefore(st) \o NodesString(nodes)
<1>. DEFINE Parts(s) == [i \in DOMAIN s |-> IF i = 1 THEN NodesString(s[i]) ELSE Open \o NodesString(s[i])]
            last == IF st = <<>> THEN NodesString(nodes) ELSE Open \o NodesString(nodes)
<1>1. \A s \in Seq(Item) : NodesString(s) \in Seq(Char) /\ Open \o NodesString(s) \in Seq(Char)
  BY AppendedString, ItemsType, SeparatorsType, StringsJoin
<1>2. Parts(st) \in Seq(Seq(Char))
  <2>1. Len(st) \in Nat /\ DOMAIN st = 1 .. Len(st) /\ \A k \in 1 .. Len(st) : st[k] \in Seq(Item)
    OBVIOUS
  <2>2. Parts(st) \in [1 .. Len(st) -> Seq(Char)]
    BY <1>1, <2>1
  <2>. QED
    BY <2>1, <2>2, IsASeq
<1>3. last \in Seq(Char)
  BY <1>1
<1>4. Parts(Append(st, nodes)) = Append(Parts(st), last)
  <2>1. /\ Len(st) \in Nat /\ DOMAIN st = 1 .. Len(st) /\ (st = <<>> <=> Len(st) = 0)
        /\ DOMAIN Append(st, nodes) = 1 .. Len(st) + 1
        /\ \A i \in 1 .. Len(st) : Append(st, nodes)[i] = st[i]
        /\ Append(st, nodes)[Len(st) + 1] = nodes
    OBVIOUS
  <2>2. Len(Parts(st)) = Len(st)
    BY <1>2, <2>1
  <2>3. /\ Append(Parts(st), last) \in Seq(Seq(Char)) /\ Len(Append(Parts(st), last)) = Len(st) + 1
        /\ \A i \in 1 .. Len(st) : Append(Parts(st), last)[i] = Parts(st)[i]
        /\ Append(Parts(st), last)[Len(st) + 1] = last
    <3>. DEFINE p == Parts(st)
    <3>. HIDE DEF last, Parts, p
    <3>1. p \in Seq(Seq(Char)) /\ Len(p) = Len(st)
      BY <1>2, <2>2 DEF p
    <3>2. /\ Append(p, last) \in Seq(Seq(Char)) /\ Len(Append(p, last)) = Len(p) + 1
          /\ \A i \in 1 .. Len(p) : Append(p, last)[i] = p[i]
          /\ Append(p, last)[Len(p) + 1] = last
      BY <1>3, <3>1, AppendProperties
    <3>. QED
      BY <3>1, <3>2 DEF p
  <2>4. Parts(Append(st, nodes)) \in Seq(Seq(Char)) /\ Len(Parts(Append(st, nodes))) = Len(st) + 1
    <3>1. \A i \in 1 .. Len(st) + 1 : Append(st, nodes)[i] \in Seq(Item)
      BY <2>1
    <3>2. Parts(Append(st, nodes)) \in [1 .. Len(st) + 1 -> Seq(Char)]
      BY <1>1, <2>1, <3>1
    <3>. HIDE DEF Parts
    <3>. QED
      BY <2>1, <3>2, IsASeq
  <2>5. \A i \in 1 .. Len(st) + 1 : Parts(Append(st, nodes))[i] = IF i = Len(st) + 1 THEN last ELSE Parts(st)[i]
    BY <2>1
  <2>. HIDE DEF Parts, last
  <2>6. \A i \in 1 .. Len(st) + 1 : Parts(Append(st, nodes))[i] = Append(Parts(st), last)[i]
    BY <2>1, <2>3, <2>5
  <2>. QED
    BY <2>3, <2>4, <2>6, SeqEqual
<1>5. \A s : StackString(s) = FlattenSeq(Parts(s))
  BY DEF StackString
<1>. HIDE DEF Parts
<1>6. /\ FlattenSeq(Append(Parts(st), last)) = FlattenSeq(Parts(st)) \o last
      /\ FlattenSeq(Parts(st)) \in Seq(Char)
  BY <1>2, <1>3, FlattenAppend
<1>7. StackString(Append(st, nodes)) = StackString(st) \o last /\ StackString(st) \in Seq(Char)
  BY <1>4, <1>5, <1>6
<1>8. CASE st = <<>>
  <2>1. StackString(st) = <<>>
    <3>1. Parts(st) = <<>>
      BY <1>8 DEF Parts
    <3>. QED
      BY <1>5, <3>1, <1>2, FlattenAppend, <1>3
  <2>. QED
    BY <1>1, <1>7, <1>8, <2>1, StringsJoin DEF OpenedBefore
<1>9. CASE st # <<>>
  <2>1. StackString(st) \o (Open \o NodesString(nodes)) = (StackString(st) \o Open) \o NodesString(nodes)
    <3>. DEFINE a == StackString(st)
                c == NodesString(nodes)
    <3>1. a \in Seq(Char) /\ c \in Seq(Char)
      BY <1>1, <1>7
    <3>. HIDE DEF a, c
    <3>2. a \o (Open \o c) = (a \o Open) \o c
      BY <3>1, StringsAssociate, SeparatorsType
    <3>. QED
      BY <3>2 DEF a, c
  <2>2. StackString(st) \o Open \in Seq(Char)
    BY <1>7, StringsJoin, SeparatorsType
  <2>. QED
    BY <1>7, <1>9, <2>1, <2>2 DEF OpenedBefore
<1>. QED
  BY <1>8, <1>9

Whole(nodes) ==
    \A k \in DOMAIN nodes :
        IsText(nodes[k]) => nodes[k].text # <<>> /\ (k > 1 => ~IsText(nodes[k - 1]))

LEMMA WholeConcat ==
    ASSUME NEW a \in Seq(Item), NEW b \in Seq(Item), Whole(a), Whole(b),
           a # <<>> /\ b # <<>> => ~IsText(a[Len(a)]) \/ ~IsText(b[1])
    PROVE  Whole(a \o b)
<1>1. /\ Len(a) \in Nat /\ Len(b) \in Nat /\ Len(a \o b) = Len(a) + Len(b) /\ DOMAIN (a \o b) = 1 .. Len(a) + Len(b)
      /\ \A i \in 1 .. Len(a) + Len(b) : (a \o b)[i] = IF i <= Len(a) THEN a[i] ELSE b[i - Len(a)]
      /\ DOMAIN a = 1 .. Len(a) /\ DOMAIN b = 1 .. Len(b)
      /\ (a = <<>> <=> Len(a) = 0) /\ (b = <<>> <=> Len(b) = 0)
  OBVIOUS
<1>. DEFINE ab == a \o b
<1>. SUFFICES ASSUME NEW k \in 1 .. Len(a) + Len(b), IsText(ab[k])
              PROVE  ab[k].text # <<>> /\ (k > 1 => ~IsText(ab[k - 1]))
  BY <1>1 DEF Whole
<1>2. CASE k <= Len(a)
  <2>1. k \in DOMAIN a /\ ab[k] = a[k] /\ (k > 1 => k - 1 \in 1 .. Len(a) + Len(b) /\ k - 1 <= Len(a) /\ ab[k - 1] = a[k - 1])
    BY <1>1, <1>2
  <2>. HIDE DEF ab
  <2>. QED
    BY <2>1 DEF Whole
<1>3. CASE k = Len(a) + 1
  <2>1. ab[k] = b[1] /\ 1 \in DOMAIN b /\ b # <<>>
    BY <1>1, <1>3
  <2>2. k > 1 => a # <<>> /\ ab[k - 1] = a[Len(a)]
    BY <1>1, <1>3
  <2>. HIDE DEF ab
  <2>. QED
    BY <2>1, <2>2 DEF Whole
<1>4. CASE k > Len(a) + 1
  <2>1. /\ k - Len(a) \in DOMAIN b /\ ab[k] = b[k - Len(a)] /\ k - Len(a) > 1
        /\ ab[k - 1] = b[(k - Len(a)) - 1]
    BY <1>1, <1>4
  <2>. HIDE DEF ab
  <2>. QED
    BY <2>1 DEF Whole
<1>. QED
  BY <1>1, <1>2, <1>3, <1>4

LEMMA WholeOne ==
    /\ Whole(<<>>) /\ Whole(<<ActionItem>>) /\ Whole(<<EndItem>>)
    /\ \A s \in Seq(Char) : s # <<>> => Whole(<<TextItem(s)>>)
BY ItemsType DEF Whole

LEMMA AppendedText ==
    ASSUME NEW nodes \in Seq(Item), NEW s \in Seq(Char)
    PROVE  /\ appendText(nodes, s) \in Seq(Item)
           /\ NodesString(appendText(nodes, s)) = NodesString(nodes) \o s
           /\ Whole(nodes) /\ s # <<>> => Whole(appendText(nodes, s))
<1>1. TextItem(s) \in Item /\ TextItem(s).text = s
  BY ItemsType
<1>2. CASE nodes # <<>> /\ IsText(Last(nodes))
  <2>. DEFINE front == Front(nodes)
              last  == Last(nodes)
              text  == last.text
              one   == TextItem(text \o s)
  <2>1. front \in Seq(Item) /\ last \in Item /\ nodes = Append(front, last)
        /\ Len(front) \in Nat /\ Len(nodes) = Len(front) + 1 /\ last = nodes[Len(nodes)]
        /\ \A k \in 1 .. Len(front) : front[k] = nodes[k]
    BY <1>2, FrontAndLast
  <2>2. text \in Seq(Char) /\ text \o s \in Seq(Char) /\ one \in Item /\ one.text = text \o s
    BY <2>1, StringsJoin, ItemsType DEF Item
  <2>3. appendText(nodes, s) = Append(front, one)
    BY <1>2 DEF appendText
  <2>4. appendText(nodes, s) \in Seq(Item)
    BY <2>1, <2>2, <2>3, AppendProperties
  <2>5. NodesString(appendText(nodes, s)) = NodesString(nodes) \o s
    <3>. DEFINE a == NodesString(front)
    <3>. HIDE DEF front, last, one, text, a
    <3>1. NodesString(Append(front, one)) = a \o (text \o s) /\ a \in Seq(Char)
      BY <2>1, <2>2, AppendedString DEF a
    <3>2. NodesString(Append(front, last)) = a \o text
      BY <2>1, AppendedString DEF a, text
    <3>3. a \o (text \o s) = (a \o text) \o s
      BY <2>2, <3>1, StringsAssociate
    <3>. QED
      BY <2>1, <2>3, <3>1, <3>2, <3>3
  <2>6. ASSUME Whole(nodes), s # <<>> PROVE Whole(appendText(nodes, s))
    <3>1. Whole(front)
      <4>1. \A k \in DOMAIN front : k \in DOMAIN nodes /\ front[k] = nodes[k] /\ (k > 1 => front[k - 1] = nodes[k - 1])
        <5>. HIDE DEF front, last
        <5>. QED
          BY <2>1
      <4>. HIDE DEF front
      <4>. QED
        BY <2>6, <4>1 DEF Whole
    <3>2. text \o s # <<>>
      BY <2>2, <2>6, ConcatEqualIffEmpty
    <3>3. Whole(<<one>>)
      BY <2>2, <3>2, WholeOne
    <3>4. front # <<>> => ~IsText(front[Len(front)])
      <4>1. IsText(nodes[Len(nodes)]) /\ Len(nodes) \in DOMAIN nodes
        <5>. HIDE DEF front, last
        <5>. QED
          BY <1>2, <2>1 DEF last
      <4>2. front # <<>> => Len(front) > 0 /\ front[Len(front)] = nodes[Len(nodes) - 1] /\ Len(nodes) > 1
        <5>. HIDE DEF front, last
        <5>. QED
          BY <2>1
      <4>. QED
        BY <2>6, <4>1, <4>2 DEF Whole
    <3>5. Append(front, one) = front \o <<one>> /\ <<one>> \in Seq(Item)
      BY <2>1, <2>2, AppendIsConcat
    <3>. HIDE DEF front, one
    <3>6. Whole(front \o <<one>>)
      BY <2>1, <3>1, <3>3, <3>4, <3>5, WholeConcat
    <3>. QED
      BY <2>3, <3>5, <3>6
  <2>. QED
    BY <2>4, <2>5, <2>6
<1>3. CASE ~(nodes # <<>> /\ IsText(Last(nodes)))
  <2>1. appendText(nodes, s) = Append(nodes, TextItem(s))
    BY <1>3 DEF appendText
  <2>2. appendText(nodes, s) \in Seq(Item) /\ NodesString(appendText(nodes, s)) = NodesString(nodes) \o s
    <3>. DEFINE one == TextItem(s)
    <3>. HIDE DEF one
    <3>1. one \in Item /\ one.text = s
      BY <1>1 DEF one
    <3>2. Append(nodes, one) \in Seq(Item)
      BY <3>1, AppendProperties
    <3>3. NodesString(Append(nodes, one)) = NodesString(nodes) \o s
      BY <3>1, AppendedString
    <3>. QED
      BY <2>1, <3>2, <3>3 DEF one
  <2>3. ASSUME Whole(nodes), s # <<>> PROVE Whole(appendText(nodes, s))
    <3>1. nodes # <<>> => ~IsText(nodes[Len(nodes)])
      BY <1>3, FrontAndLast
    <3>2. Append(nodes, TextItem(s)) = nodes \o <<TextItem(s)>> /\ <<TextItem(s)>> \in Seq(Item)
      BY <1>1, AppendIsConcat
    <3>3. Whole(<<TextItem(s)>>)
      BY <2>3, WholeOne
    <3>4. Whole(nodes \o <<TextItem(s)>>)
      BY <2>3, <3>1, <3>2, <3>3, WholeConcat
    <3>. QED
      BY <2>1, <3>2, <3>4
  <2>. QED
    BY <2>2, <2>3
<1>. QED
  BY <1>2, <1>3

LEMMA AppendedNodes ==
    ASSUME NEW nodes \in Seq(Item), NEW children \in Seq(Item)
    PROVE  /\ appendNodes(nodes, children) \in Seq(Item)
           /\ NodesString(appendNodes(nodes, children)) = NodesString(nodes) \o NodesString(children)
           /\ Whole(nodes) /\ Whole(children) => Whole(appendNodes(nodes, children))
<1>. DEFINE first == Head(children)
            others == Tail(children)
<1>1. CASE children # <<>> /\ IsText(first)
  <2>. DEFINE text == first.text
              more == appendText(nodes, text)
  <2>1. first \in Item /\ others \in Seq(Item) /\ children = <<first>> \o others
        /\ Len(children) \in Nat \ {0} /\ Len(others) = Len(children) - 1 /\ first = children[1]
        /\ \A k \in 1 .. Len(others) : others[k] = children[k + 1]
    BY <1>1
  <2>2. text \in Seq(Char)
    BY <2>1 DEF Item
  <2>3. appendNodes(nodes, children) = more \o others
    BY <1>1 DEF appendNodes
  <2>. HIDE DEF text, others, first
  <2>4. more \in Seq(Item) /\ NodesString(more) = NodesString(nodes) \o text
        /\ (Whole(nodes) /\ text # <<>> => Whole(more))
    BY <2>2, AppendedText
  <2>5. NodesString(<<first>>) = text
    <3>1. <<>> \in Seq(Item) /\ Append(<<>>, first) = <<first>>
      BY <2>1
    <3>2. NodesString(<<>>) = <<>> /\ NodesString(Append(<<>>, first)) = NodesString(<<>>) \o text
      BY <2>1, <3>1, AppendedString DEF text
    <3>. QED
      BY <2>2, <3>1, <3>2, StringsJoin
  <2>6. NodesString(children) = text \o NodesString(others) /\ NodesString(others) \in Seq(Char)
        /\ NodesString(nodes) \in Seq(Char)
    <3>1. <<first>> \in Seq(Item)
      BY <2>1
    <3>2. NodesString(<<first>> \o others) = NodesString(<<first>>) \o NodesString(others)
      BY <2>1, <3>1, JoinedString
    <3>3. NodesString(others) \in Seq(Char) /\ NodesString(nodes) \in Seq(Char)
      BY <2>1, AppendedString, ItemsType
    <3>. QED
      BY <2>1, <2>5, <3>2, <3>3
  <2>. HIDE DEF more
  <2>7. more \o others \in Seq(Item) /\ NodesString(more \o others) = NodesString(more) \o NodesString(others)
    BY <2>1, <2>4, JoinedString, ConcatProperties
  <2>8. NodesString(more) \o NodesString(others) = NodesString(nodes) \o NodesString(children)
    <3>. DEFINE a == NodesString(nodes)
                b == NodesString(others)
    <3>1. a \in Seq(Char) /\ b \in Seq(Char)
      BY <2>6
    <3>. HIDE DEF a, b
    <3>2. (a \o text) \o b = a \o (text \o b)
      BY <2>2, <3>1, StringsAssociate
    <3>. QED
      BY <2>4, <2>6, <3>2 DEF a, b
  <2>9. ASSUME Whole(nodes), Whole(children) PROVE Whole(more \o others)
    <3>1. 1 \in DOMAIN children /\ IsText(children[1])
      BY <1>1, <2>1
    <3>2. Whole(more)
      BY <2>1, <2>4, <2>9, <3>1 DEF Whole, text
    <3>3. \A k \in DOMAIN others : /\ k + 1 \in DOMAIN children /\ others[k] = children[k + 1]
                                   /\ k > 1 => others[k - 1] = children[(k + 1) - 1]
      BY <2>1
    <3>4. ASSUME NEW k \in DOMAIN others, IsText(others[k])
          PROVE  others[k].text # <<>> /\ (k > 1 => ~IsText(others[k - 1])) /\ ~IsText(children[k])
      <4>1. k \in Nat /\ k > 0
        BY <2>1
      <4>. DEFINE j == k + 1
      <4>2. j \in DOMAIN children /\ others[k] = children[j] /\ j > 1 /\ j - 1 = k
            /\ (k > 1 => others[k - 1] = children[k])
        BY <3>3, <4>1
      <4>. HIDE DEF j
      <4>3. children[j].text # <<>> /\ ~IsText(children[j - 1])
        BY <2>9, <3>4, <4>2 DEF Whole
      <4>. QED
        BY <4>2, <4>3
    <3>5. Whole(others)
      BY <3>4 DEF Whole
    <3>6. others # <<>> => ~IsText(others[1])
      <4>1. others # <<>> => 1 \in DOMAIN others
        BY <2>1
      <4>. QED
        BY <3>1, <3>4, <4>1
    <3>. QED
      BY <2>1, <2>4, <3>2, <3>5, <3>6, WholeConcat
  <2>. QED
    BY <2>3, <2>7, <2>8, <2>9
<1>2. CASE ~(children # <<>> /\ IsText(first))
  <2>1. appendNodes(nodes, children) = nodes \o children
    BY <1>2 DEF appendNodes
  <2>2. nodes \o children \in Seq(Item)
        /\ NodesString(nodes \o children) = NodesString(nodes) \o NodesString(children)
    BY JoinedString, ConcatProperties
  <2>3. ASSUME Whole(nodes), Whole(children) PROVE Whole(nodes \o children)
    BY <1>2, <2>3, WholeConcat
  <2>. QED
    BY <2>1, <2>2, <2>3
<1>. QED
  BY <1>1, <1>2

LEMMA ClosedNodes ==
    ASSUME NEW nodes \in Seq(Item), NEW children \in Seq(Item)
    PROVE  LET all == nodes \o <<ActionItem>> \o children \o <<EndItem>>
           IN /\ all \in Seq(Item)
              /\ NodesString(all) = ((NodesString(nodes) \o Open) \o NodesString(children)) \o Close
              /\ Whole(nodes) /\ Whole(children) => Whole(all)
<1>. DEFINE a == Append(nodes, ActionItem)
            b == a \o children
            c == Append(b, EndItem)
<1>1. ActionItem \in Item /\ EndItem \in Item /\ ActionItem.text = Open /\ EndItem.text = Close
      /\ ~IsText(ActionItem) /\ ~IsText(EndItem)
  BY ItemsType
<1>2. a = nodes \o <<ActionItem>> /\ a \in Seq(Item) /\ NodesString(a) = NodesString(nodes) \o Open
      /\ a # <<>> /\ a[Len(a)] = ActionItem /\ <<ActionItem>> \in Seq(Item)
  <2>1. a = nodes \o <<ActionItem>> /\ a \in Seq(Item) /\ <<ActionItem>> \in Seq(Item)
    BY <1>1, AppendIsConcat, AppendProperties
  <2>2. a # <<>> /\ Len(a) = Len(nodes) + 1 /\ a[Len(nodes) + 1] = ActionItem
    BY <1>1, AppendProperties
  <2>3. NodesString(a) = NodesString(nodes) \o Open
    BY <1>1, AppendedString
  <2>. QED
    BY <2>1, <2>2, <2>3
<1>. HIDE DEF a
<1>3. b \in Seq(Item) /\ NodesString(b) = NodesString(a) \o NodesString(children)
  BY <1>2, JoinedString, ConcatProperties
<1>. HIDE DEF b
<1>4. c = b \o <<EndItem>> /\ c \in Seq(Item) /\ NodesString(c) = NodesString(b) \o Close /\ <<EndItem>> \in Seq(Item)
  <2>1. c = b \o <<EndItem>> /\ c \in Seq(Item) /\ <<EndItem>> \in Seq(Item)
    BY <1>1, <1>3, AppendIsConcat, AppendProperties
  <2>2. NodesString(c) = NodesString(b) \o Close
    BY <1>1, <1>3, AppendedString
  <2>. QED
    BY <2>1, <2>2
<1>5. ASSUME Whole(nodes), Whole(children) PROVE Whole(c)
  <2>1. Whole(a)
    BY <1>1, <1>2, <1>5, WholeOne, WholeConcat
  <2>2. Whole(b)
    BY <1>1, <1>2, <1>5, <2>1, WholeConcat DEF b
  <2>. QED
    BY <1>1, <1>3, <1>4, <2>2, WholeOne, WholeConcat
<1>6. nodes \o <<ActionItem>> \o children \o <<EndItem>> = c
  BY <1>2, <1>4 DEF b
<1>. QED
  BY <1>2, <1>3, <1>4, <1>5, <1>6

(* How often a separator is among the first n.                                *)
CountIn(s, sep, n) == Cardinality({k \in 1 .. n : s[k] = sep})

CountsOneMore(s, t, x, sep) ==
    /\ \A n \in 0 .. Len(s) : CountIn(s, sep, n) \in Nat /\ CountIn(t, sep, n) = CountIn(s, sep, n)
    /\ CountIn(t, sep, Len(s) + 1) = CountIn(s, sep, Len(s)) + (IF x = sep THEN 1 ELSE 0)

LEMMA CountsGrow ==
    ASSUME NEW S, NEW s \in Seq(S), NEW x \in S, NEW sep
    PROVE  CountsOneMore(s, Append(s, x), x, sep)
<1>. DEFINE t == Append(s, x)
            At(u, n) == {k \in 1 .. n : u[k] = sep}
<1>1. Len(s) \in Nat /\ t[Len(s) + 1] = x /\ \A k \in 1 .. Len(s) : t[k] = s[k]
  BY AppendProperties
<1>. HIDE DEF t
<1>2. ASSUME NEW n \in 0 .. Len(s)
      PROVE  CountIn(s, sep, n) \in Nat /\ CountIn(t, sep, n) = CountIn(s, sep, n) /\ IsFiniteSet(At(s, n))
  <2>1. n \in Nat /\ IsFiniteSet(1 .. n) /\ At(s, n) \subseteq 1 .. n
    BY FS_Interval
  <2>2. IsFiniteSet(At(s, n))
    BY <2>1, FS_Subset
  <2>3. At(t, n) = At(s, n)
    BY <1>1
  <2>. QED
    BY <2>2, <2>3, FS_CardinalityType DEF CountIn
<1>3. CountIn(t, sep, Len(s) + 1) = CountIn(s, sep, Len(s)) + (IF x = sep THEN 1 ELSE 0)
  <2>1. Len(s) \in 0 .. Len(s)
    BY <1>1
  <2>2. CASE x = sep
    <3>1. At(t, Len(s) + 1) = At(s, Len(s)) \union {Len(s) + 1} /\ Len(s) + 1 \notin At(s, Len(s))
      BY <1>1, <2>2
    <3>2. /\ CountIn(s, sep, Len(s)) \in Nat /\ CountIn(s, sep, Len(s)) = Cardinality(At(s, Len(s)))
          /\ IsFiniteSet(At(s, Len(s)))
      BY <1>2, <2>1 DEF CountIn
    <3>3. CountIn(t, sep, Len(s) + 1) = Cardinality(At(t, Len(s) + 1))
      BY DEF CountIn
    <3>4. Cardinality(At(s, Len(s)) \union {Len(s) + 1}) = Cardinality(At(s, Len(s))) + 1
      BY <3>1, <3>2, FS_AddElement
    <3>. HIDE DEF At
    <3>. QED
      BY <2>2, <3>1, <3>2, <3>3, <3>4
  <2>3. CASE x # sep
    <3>1. At(t, Len(s) + 1) = At(s, Len(s))
      BY <1>1, <2>3
    <3>2. CountIn(t, sep, Len(s) + 1) = CountIn(s, sep, Len(s))
      BY <3>1 DEF CountIn
    <3>3. CountIn(s, sep, Len(s)) \in Nat
      BY <1>2, <2>1
    <3>. QED
      BY <2>3, <3>2, <3>3
  <2>. QED
    BY <2>2, <2>3
<1>. QED
  BY <1>2, <1>3 DEF t, CountsOneMore

(* A text that is scanned, and what is left, which begins with a separator.   *)
CutFits(s, text, more, end, sep) ==
    /\ text \in Seq(Char) /\ more \in Seq(Char) /\ text \o more = s
    /\ end # 0 => text # <<>>
    /\ end = 0 => more = s
    /\ \/ sep = <<>> /\ more = <<>>
       \/ sep \in {Open, Close} /\ \E r \in Seq(Char) : more = sep \o r

LEMMA TextIsCut ==
    ASSUME NEW s \in Seq(Char), NEW end \in 0 .. Len(s), NEW sep, FindsSep(s, end, sep)
    PROVE  CutFits(s, SubSeq(s, 1, end), SubSeq(s, end + 1, Len(s)), end, sep)
<1>. DEFINE text == SubSeq(s, 1, end)
            more == SubSeq(s, end + 1, Len(s))
<1>1. Len(s) \in Nat /\ end \in Nat /\ end <= Len(s)
  OBVIOUS
<1>2. /\ text \in Seq(Char) /\ Len(text) = end
      /\ more \in Seq(Char) /\ Len(more) = Len(s) - end
      /\ \A i \in 1 .. Len(s) - end : more[i] = s[end + i]
      /\ \A i \in 1 .. end : text[i] = s[i]
  BY <1>1
<1>. HIDE DEF text, more
<1>3. text \o more = s
  <2>1. text \o more \in Seq(Char) /\ Len(text \o more) = Len(s)
        /\ \A i \in 1 .. Len(s) : (text \o more)[i] = IF i <= end THEN text[i] ELSE more[i - end]
    BY <1>1, <1>2, ConcatProperties
  <2>2. \A i \in 1 .. Len(s) : (text \o more)[i] = s[i]
    <3>. SUFFICES ASSUME NEW i \in 1 .. Len(s) PROVE (text \o more)[i] = s[i]
      OBVIOUS
    <3>1. CASE i <= end
      BY <1>1, <1>2, <2>1, <3>1
    <3>2. CASE i > end
      <4>1. i - end \in 1 .. Len(s) - end /\ end + (i - end) = i
        BY <1>1, <3>2
      <4>. QED
        BY <1>1, <1>2, <2>1, <3>2, <4>1
    <3>3. i \in Nat /\ (i <= end \/ i > end)
      BY <1>1
    <3>. QED
      BY <3>1, <3>2, <3>3
  <2>. QED
    BY <2>1, <2>2, SeqEqual
<1>4. (end # 0 => text # <<>>) /\ (end = 0 => more = s)
  <2>1. CASE end = 0
    <3>1. \A i \in 1 .. Len(s) : more[i] = s[i]
      BY <1>1, <1>2, <2>1
    <3>2. Len(more) = Len(s)
      BY <1>1, <1>2, <2>1
    <3>. QED
      BY <1>2, <2>1, <3>1, <3>2, SeqEqual
  <2>2. CASE end # 0
    BY <1>2, <2>2
  <2>. QED
    BY <2>1, <2>2
<1>5. CASE end = Len(s) /\ sep = <<>>
  <2>1. more = <<>>
    BY <1>1, <1>2, <1>5
  <2>. QED
    BY <1>2, <1>3, <1>4, <1>5, <2>1 DEF text, more, CutFits
<1>6. CASE end + 1 \in Seps(s) /\ sep = <<s[end + 1], s[end + 2]>>
  <2>1. end + 1 < Len(s) /\ sep \in {Open, Close}
    BY <1>1, <1>6 DEF Seps, SepAt
  <2>. DEFINE r == SubSeq(more, 3, Len(more))
  <2>2. /\ Len(more) \in Nat /\ Len(more) >= 2 /\ r \in Seq(Char) /\ Len(r) = Len(more) - 2
        /\ \A i \in 1 .. Len(more) - 2 : r[i] = more[i + 2]
    BY <1>1, <1>2, <2>1
  <2>. HIDE DEF r
  <2>3. sep \in Seq(Char) /\ Len(sep) = 2 /\ sep[1] = more[1] /\ sep[2] = more[2]
    <3>1. more[1] = s[end + 1] /\ more[2] = s[end + 2]
      BY <1>1, <1>2, <2>1
    <3>. QED
      BY <1>6, <2>1, <3>1, SeparatorsType
  <2>4. sep \o r \in Seq(Char) /\ Len(sep \o r) = Len(more)
        /\ \A i \in 1 .. Len(more) : (sep \o r)[i] = IF i <= 2 THEN sep[i] ELSE r[i - 2]
    <3>0. sep \in Seq(Char) /\ r \in Seq(Char)
      BY <2>2, <2>3
    <3>1. sep \o r \in Seq(Char) /\ Len(sep \o r) = Len(sep) + Len(r)
          /\ \A i \in 1 .. Len(sep) + Len(r) : (sep \o r)[i] = IF i <= Len(sep) THEN sep[i] ELSE r[i - Len(sep)]
      BY <3>0, ConcatProperties
    <3>2. Len(sep) + Len(r) = Len(more)
      BY <2>2, <2>3
    <3>. QED
      BY <2>3, <3>1, <3>2
  <2>5. ASSUME NEW i \in 1 .. Len(more) PROVE (sep \o r)[i] = more[i]
    <3>1. CASE i <= 2
      <4>1. i = 1 \/ i = 2
        BY <3>1
      <4>. QED
        BY <2>3, <2>4, <3>1, <4>1
    <3>2. CASE i > 2
      <4>1. i - 2 \in 1 .. Len(more) - 2 /\ (i - 2) + 2 = i /\ ~(i <= 2)
        BY <2>2, <3>2
      <4>. QED
        BY <2>2, <2>4, <4>1
    <3>3. i \in Nat /\ (i <= 2 \/ i > 2)
      BY <2>2
    <3>. QED
      BY <3>1, <3>2, <3>3
  <2>6. more = sep \o r
    BY <1>2, <2>4, <2>5, SeqEqual
  <2>. QED
    BY <1>2, <1>3, <1>4, <2>1, <2>2, <2>6 DEF text, more, CutFits
<1>. QED
  BY <1>5, <1>6 DEF FindsSep

LEMMA SepIsCut ==
    ASSUME NEW r \in Seq(Char), NEW sep \in {Open, Close}
    PROVE  SubSeq(sep \o r, 3, Len(sep \o r)) = r
<1>1. sep \in Seq(Char) /\ Len(sep) = 2 /\ Len(r) \in Nat
  BY SeparatorsType
<1>. DEFINE s == sep \o r
<1>2. s \in Seq(Char) /\ Len(s) = Len(r) + 2 /\ \A i \in 1 .. Len(s) : s[i] = IF i <= 2 THEN sep[i] ELSE r[i - 2]
  <2>1. s \in Seq(Char) /\ Len(s) = Len(sep) + Len(r)
        /\ \A i \in 1 .. Len(sep) + Len(r) : s[i] = IF i <= Len(sep) THEN sep[i] ELSE r[i - Len(sep)]
    BY <1>1, ConcatProperties
  <2>2. Len(sep) + Len(r) = Len(r) + 2
    BY <1>1
  <2>. HIDE DEF s
  <2>. QED
    BY <1>1, <2>1, <2>2
<1>. HIDE DEF s
<1>3. SubSeq(s, 3, Len(s)) \in Seq(Char) /\ Len(SubSeq(s, 3, Len(s))) = Len(r)
      /\ \A i \in 1 .. Len(r) : SubSeq(s, 3, Len(s))[i] = s[i + 2]
  BY <1>1, <1>2
<1>4. \A i \in 1 .. Len(r) : i + 2 \in 1 .. Len(s) /\ ~(i + 2 <= 2) /\ (i + 2) - 2 = i
  BY <1>1, <1>2
<1>5. \A i \in 1 .. Len(r) : SubSeq(s, 3, Len(s))[i] = r[i]
  BY <1>2, <1>3, <1>4
<1>. QED
  BY <1>3, <1>5, SeqEqual DEF s

Wholes(st) == \A i \in DOMAIN st : Whole(st[i])

TooManyCloses == \E n \in DOMAIN separators : Count(Close, n) > Count(Open, n)

(* What has been given up so far, against the separators that were scanned.   *)
BalanceFits ==
    /\ ~malformed => /\ ~TooManyCloses
                     /\ Count(Open, Len(separators)) = Count(Close, Len(separators)) + (Len(stack) - 1)
    /\ malformed => Unbalanced /\ (rest # <<>> => TooManyCloses)

(* The separator that was found ahead is the next that is scanned.            *)
AheadFits ==
    \/ ahead = <<>>
    \/ ahead \in {Open, Close} /\ \E r \in Seq(Char) : rest = ahead \o r

ParseTypes ==
    /\ input \in Seq(Char) /\ rest \in Seq(Char) /\ malformed \in BOOLEAN
    /\ stack \in Seq(Seq(Item)) /\ stack # <<>>
    /\ separators \in Seq({Open, Close})

ParseInv ==
    /\ ParseTypes
    /\ AheadFits
    /\ StackString(stack) \o rest = input
    /\ Wholes(stack)
    /\ BalanceFits

LEMMA ReplacedTop ==
    ASSUME NEW st \in Seq(Seq(Item)), st # <<>>
    PROVE  /\ Front(st) \in Seq(Seq(Item)) /\ Last(st) \in Seq(Item) /\ Len(Front(st)) = Len(st) - 1
           /\ OpenedBefore(Front(st)) \in Seq(Char)
           /\ StackString(st) = OpenedBefore(Front(st)) \o NodesString(Last(st))
           /\ Wholes(st) => Wholes(Front(st)) /\ Whole(Last(st))
<1>1. /\ Front(st) \in Seq(Seq(Item)) /\ Last(st) \in Seq(Item) /\ st = Append(Front(st), Last(st))
      /\ Len(Front(st)) = Len(st) - 1 /\ Last(st) = st[Len(st)]
      /\ \A k \in 1 .. Len(st) - 1 : Front(st)[k] = st[k]
  BY FrontAndLast
<1>2. /\ OpenedBefore(Front(st)) \in Seq(Char)
      /\ StackString(Append(Front(st), Last(st))) = OpenedBefore(Front(st)) \o NodesString(Last(st))
  BY <1>1, PushedString
<1>3. Len(st) \in Nat \ {0} /\ Len(st) \in DOMAIN st
  OBVIOUS
<1>4. ASSUME Wholes(st) PROVE Wholes(Front(st)) /\ Whole(Last(st))
  <2>. DEFINE front == Front(st)
  <2>1. \A i \in DOMAIN front : i \in DOMAIN st /\ front[i] = st[i]
    <3>1. front \in Seq(Seq(Item)) /\ Len(front) = Len(st) - 1 /\ \A k \in 1 .. Len(st) - 1 : front[k] = st[k]
      BY <1>1
    <3>2. DOMAIN st = 1 .. Len(st)
      OBVIOUS
    <3>. HIDE DEF front
    <3>3. DOMAIN front = 1 .. Len(st) - 1
      BY <3>1
    <3>. QED
      BY <1>3, <3>1, <3>2, <3>3
  <2>. QED
    BY <1>1, <1>3, <1>4, <2>1 DEF Wholes
<1>. QED
  BY <1>1, <1>2, <1>4

LEMMA PushedTop ==
    ASSUME NEW st \in Seq(Seq(Item)), NEW nodes \in Seq(Item)
    PROVE  /\ Append(st, nodes) \in Seq(Seq(Item)) /\ Append(st, nodes) # <<>>
           /\ Len(Append(st, nodes)) = Len(st) + 1
           /\ StackString(Append(st, nodes)) = OpenedBefore(st) \o NodesString(nodes)
           /\ OpenedBefore(Append(st, nodes)) = StackString(Append(st, nodes)) \o Open
           /\ Wholes(st) /\ Whole(nodes) => Wholes(Append(st, nodes))
<1>. DEFINE more == Append(st, nodes)
<1>1. /\ more \in Seq(Seq(Item)) /\ more # <<>> /\ Len(more) = Len(st) + 1 /\ Len(st) \in Nat
      /\ \A i \in 1 .. Len(st) : more[i] = st[i]
      /\ more[Len(st) + 1] = nodes
  BY AppendProperties
<1>2. StackString(more) = OpenedBefore(st) \o NodesString(nodes)
  BY PushedString
<1>. HIDE DEF more
<1>3. Wholes(st) /\ Whole(nodes) => Wholes(more)
  <2>1. DOMAIN more = 1 .. Len(st) + 1 /\ DOMAIN st = 1 .. Len(st)
    BY <1>1
  <2>. SUFFICES ASSUME Wholes(st), Whole(nodes), NEW i \in 1 .. Len(st) + 1 PROVE Whole(more[i])
    BY <2>1 DEF Wholes
  <2>2. CASE i = Len(st) + 1
    BY <1>1, <2>2
  <2>3. CASE i # Len(st) + 1
    <3>1. i \in DOMAIN st /\ more[i] = st[i]
      BY <1>1, <2>1, <2>3
    <3>. QED
      BY <3>1 DEF Wholes
  <2>. QED
    BY <2>2, <2>3
<1>4. OpenedBefore(more) = StackString(more) \o Open
  BY <1>1 DEF OpenedBefore
<1>. QED
  BY <1>1, <1>2, <1>3, <1>4 DEF more

(* A text that goes to the top of the stack.                                  *)
LEMMA TextGoesOn ==
    ASSUME NEW st \in Seq(Seq(Item)), st # <<>>, NEW s \in Seq(Char),
           NEW new, new = Append(Front(st), appendText(Last(st), s))
    PROVE  /\ new \in Seq(Seq(Item)) /\ new # <<>> /\ Len(new) = Len(st)
           /\ StackString(st) \in Seq(Char) /\ StackString(new) = StackString(st) \o s
           /\ Wholes(st) /\ s # <<>> => Wholes(new)
<1>. DEFINE front == Front(st)
            last == Last(st)
            text == appendText(last, s)
            a == OpenedBefore(front)
            b == NodesString(last)
<1>1. /\ front \in Seq(Seq(Item)) /\ last \in Seq(Item) /\ Len(front) = Len(st) - 1 /\ Len(st) \in Nat
      /\ a \in Seq(Char) /\ StackString(st) = a \o b
      /\ (Wholes(st) => Wholes(front) /\ Whole(last))
  BY ReplacedTop
<1>. HIDE DEF front, last
<1>2. text \in Seq(Item) /\ NodesString(text) = b \o s /\ (Whole(last) /\ s # <<>> => Whole(text)) /\ b \in Seq(Char)
  BY <1>1, AppendedText, AppendedString, ItemsType
<1>. HIDE DEF text
<1>3. /\ Append(front, text) \in Seq(Seq(Item)) /\ Append(front, text) # <<>>
      /\ Len(Append(front, text)) = Len(front) + 1
      /\ StackString(Append(front, text)) = a \o NodesString(text)
      /\ (Wholes(front) /\ Whole(text) => Wholes(Append(front, text)))
  BY <1>1, <1>2, PushedTop
<1>4. new = Append(front, text)
  BY DEF front, text, last
<1>. HIDE DEF a, b
<1>5. a \o (b \o s) = (a \o b) \o s /\ a \o b \in Seq(Char)
  BY <1>1, <1>2, StringsAssociate, StringsJoin
<1>6. Len(front) + 1 = Len(st)
  BY <1>1
<1>. QED
  BY <1>1, <1>2, <1>3, <1>4, <1>5, <1>6

LEMMA TextKeepsInv == ASSUME ParseInv, scanText PROVE ParseInv'
<1>1. PICK end \in 0 .. Len(rest) :
          /\ FindsSep(rest, end, ahead')
          /\ IF end = 0 THEN UNCHANGED stack ELSE Replace(appendText(Last(stack), SubSeq(rest, 1, end)))
          /\ rest' = SubSeq(rest, end + 1, Len(rest))
  BY DEF scanText
<1>2. rest \in Seq(Char) /\ stack \in Seq(Seq(Item)) /\ stack # <<>> /\ rest # <<>>
      /\ UNCHANGED <<input, malformed, separators>> /\ StackString(stack) \o rest = input /\ Wholes(stack)
  BY DEF ParseInv, ParseTypes, scanText
<1>. DEFINE text == SubSeq(rest, 1, end)
<1>3. /\ text \in Seq(Char) /\ rest' \in Seq(Char) /\ text \o rest' = rest
      /\ (end # 0 => text # <<>>) /\ (end = 0 => rest' = rest)
      /\ \/ ahead' = <<>> /\ rest' = <<>>
         \/ ahead' \in {Open, Close} /\ \E r \in Seq(Char) : rest' = ahead' \o r
  <2>1. rest \in Seq(Char) /\ FindsSep(rest, end, ahead') /\ rest' = SubSeq(rest, end + 1, Len(rest))
    BY <1>1, <1>2
  <2>2. CutFits(rest, text, SubSeq(rest, end + 1, Len(rest)), end, ahead')
    BY <2>1, TextIsCut
  <2>3. CutFits(rest, text, rest', end, ahead')
    BY <2>1, <2>2
  <2>. HIDE DEF text
  <2>. QED
    BY <2>3 DEF CutFits
<1>. HIDE DEF text
<1>4. /\ stack' \in Seq(Seq(Item)) /\ stack' # <<>> /\ Len(stack') = Len(stack)
      /\ StackString(stack') \o rest' = input /\ Wholes(stack')
  <2>1. CASE end = 0
    BY <1>1, <1>2, <1>3, <2>1
  <2>2. CASE end # 0
    <3>1. stack' = Append(Front(stack), appendText(Last(stack), text))
      BY <1>1, <2>2 DEF Replace, text
    <3>. DEFINE w == StackString(stack)
    <3>2. /\ stack' \in Seq(Seq(Item)) /\ stack' # <<>> /\ Len(stack') = Len(stack)
          /\ w \in Seq(Char) /\ StackString(stack') = w \o text /\ Wholes(stack')
      <4>1. stack \in Seq(Seq(Item)) /\ stack # <<>> /\ text \in Seq(Char) /\ text # <<>> /\ Wholes(stack)
        BY <1>2, <1>3, <2>2
      <4>. QED
        BY <3>1, <4>1, TextGoesOn, Zenon
    <3>. HIDE DEF w
    <3>3. (w \o text) \o rest' = w \o (text \o rest')
      BY <1>3, <3>2, StringsAssociate
    <3>. QED
      BY <1>2, <1>3, <3>2, <3>3 DEF w
  <2>. QED
    BY <2>1, <2>2
<1>5. ParseTypes'
  BY <1>2, <1>3, <1>4 DEF ParseInv, ParseTypes
<1>6. AheadFits'
  BY <1>3 DEF AheadFits
<1>7. BalanceFits'
  BY <1>2, <1>4 DEF ParseInv, BalanceFits, TooManyCloses, Unbalanced, Count
<1>. QED
  BY <1>2, <1>4, <1>5, <1>6, <1>7 DEF ParseInv

(* What every separator does that is scanned.                                 *)
LEMMA SepIsScanned ==
    ASSUME ParseInv, scanSep
    PROVE  /\ ahead \in {Open, Close} /\ rest = ahead \o rest' /\ rest' \in Seq(Char)
           /\ separators' \in Seq({Open, Close}) /\ Len(separators') = Len(separators) + 1 /\ Len(separators) \in Nat
           /\ \A sep : /\ \A n \in 0 .. Len(separators) : Count(sep, n) \in Nat /\ Count(sep, n)' = Count(sep, n)
                       /\ CountIn(separators', sep, Len(separators) + 1)
                          = Count(sep, Len(separators)) + (IF ahead = sep THEN 1 ELSE 0)
           /\ TooManyCloses => TooManyCloses'
           /\ AheadFits' /\ input' = input
<1>1. PICK r \in Seq(Char) : ahead \in {Open, Close} /\ rest = ahead \o r
  BY DEF scanSep, ParseInv, AheadFits
<1>2. rest' = r
  BY <1>1, SepIsCut DEF scanSep
<1>3. separators \in Seq({Open, Close}) /\ separators' = Append(separators, ahead)
  BY DEF ParseInv, ParseTypes, scanSep
<1>4. separators' \in Seq({Open, Close}) /\ Len(separators') = Len(separators) + 1 /\ Len(separators) \in Nat
  BY <1>1, <1>3, AppendProperties
<1>5. \A sep : CountsOneMore(separators, separators', ahead, sep)
  <2>. DEFINE S == {Open, Close}
  <2>1. separators \in Seq(S) /\ ahead \in S
    BY <1>1, <1>3
  <2>. HIDE DEF S
  <2>. QED
    BY <1>3, <2>1, CountsGrow
<1>6. \A sep, n : Count(sep, n) = CountIn(separators, sep, n) /\ Count(sep, n)' = CountIn(separators', sep, n)
  BY DEF Count, CountIn
<1>7. \A sep : /\ \A n \in 0 .. Len(separators) : Count(sep, n) \in Nat /\ Count(sep, n)' = Count(sep, n)
               /\ CountIn(separators', sep, Len(separators) + 1)
                  = Count(sep, Len(separators)) + (IF ahead = sep THEN 1 ELSE 0)
  BY <1>5, <1>6 DEF CountsOneMore
<1>8. ASSUME TooManyCloses PROVE TooManyCloses'
  <2>1. PICK n \in DOMAIN separators : Count(Close, n) > Count(Open, n)
    BY <1>8 DEF TooManyCloses
  <2>2. n \in 0 .. Len(separators) /\ n \in DOMAIN separators'
    BY <1>3, <1>4
  <2>3. Count(Close, n)' > Count(Open, n)'
    BY <1>7, <2>1, <2>2
  <2>. QED
    BY <2>2, <2>3 DEF TooManyCloses
<1>9. AheadFits' /\ input' = input
  BY DEF AheadFits, scanSep
<1>. QED
  BY <1>1, <1>2, <1>4, <1>7, <1>8, <1>9

(* A separator that opens or closes an action of its own, so that the counts  *)
(* go on to fit the height of the stack.                                      *)
LEMMA BalanceGoesOn ==
    ASSUME ParseInv, scanSep, UNCHANGED malformed, stack' \in Seq(Seq(Item)), stack' # <<>>,
           \/ ahead = Open /\ Len(stack') = Len(stack) + 1
           \/ ahead = Close /\ Len(stack') = Len(stack) - 1
    PROVE  BalanceFits'
<1>. DEFINE n == Len(separators)
            opens == Count(Open, n)
            closes == Count(Close, n)
            up == IF ahead = Open THEN 1 ELSE 0
            down == IF ahead = Close THEN 1 ELSE 0
<1>1. /\ ahead \in {Open, Close} /\ Len(separators') = n + 1 /\ n \in Nat
      /\ \A sep : \A k \in 0 .. n : Count(sep, k) \in Nat /\ Count(sep, k)' = Count(sep, k)
      /\ CountIn(separators', Open, n + 1) = opens + up
      /\ CountIn(separators', Close, n + 1) = closes + down
      /\ (TooManyCloses => TooManyCloses')
      /\ separators \in Seq({Open, Close}) /\ separators' \in Seq({Open, Close})
  BY SepIsScanned DEF ParseInv, ParseTypes
<1>2. \A sep, k : Count(sep, k)' = CountIn(separators', sep, k)
  BY DEF Count, CountIn
<1>3. DOMAIN separators = 1 .. n /\ DOMAIN separators' = 1 .. n + 1
  BY <1>1
<1>4. rest # <<>> /\ Open # Close /\ Len(stack) \in Nat /\ Len(stack') \in Nat \ {0} /\ malformed \in BOOLEAN
  BY SeparatorsType DEF scanSep, ParseInv, ParseTypes
<1>5. CASE malformed
  <2>1. TooManyCloses'
    BY <1>1, <1>4, <1>5 DEF ParseInv, BalanceFits
  <2>. QED
    BY <1>5, <2>1 DEF BalanceFits, Unbalanced, TooManyCloses
<1>6. CASE ~malformed
  <2>1. ~TooManyCloses /\ opens = closes + (Len(stack) - 1) /\ opens \in Nat /\ closes \in Nat
    BY <1>1, <1>6 DEF ParseInv, BalanceFits
  <2>. HIDE DEF opens, closes
  <2>2. opens + up = (closes + down) + (Len(stack') - 1)
    <3>1. CASE ahead = Open /\ Len(stack') = Len(stack) + 1
      <4>1. up = 1 /\ down = 0
        BY <1>4, <3>1
      <4>. HIDE DEF up, down
      <4>. QED
        BY <1>4, <2>1, <3>1, <4>1
    <3>2. CASE ahead = Close /\ Len(stack') = Len(stack) - 1
      <4>1. up = 0 /\ down = 1
        BY <1>4, <3>2
      <4>. HIDE DEF up, down
      <4>. QED
        BY <1>4, <2>1, <3>2, <4>1
    <3>. QED
      BY <3>1, <3>2
  <2>3. ASSUME NEW k \in DOMAIN separators' PROVE ~(Count(Close, k)' > Count(Open, k)')
    <3>1. CASE k = n + 1
      <4>1. opens + up \in Nat /\ closes + down \in Nat
        BY <1>4, <2>1
      <4>. HIDE DEF up, down
      <4>2. ~(closes + down > opens + up)
        BY <1>4, <2>1, <2>2, <4>1
      <4>. QED
        BY <1>1, <1>2, <3>1, <4>2
    <3>2. CASE k # n + 1
      <4>1. k \in DOMAIN separators /\ k \in 0 .. n
        BY <1>1, <1>3, <3>2
      <4>2. ~(Count(Close, k) > Count(Open, k))
        BY <2>1, <4>1 DEF TooManyCloses
      <4>. QED
        BY <1>1, <4>1, <4>2
    <3>. QED
      BY <3>1, <3>2
  <2>4. ~TooManyCloses'
    BY <2>3 DEF TooManyCloses
  <2>5. Count(Open, Len(separators))' = Count(Close, Len(separators))' + (Len(stack') - 1)
    <3>1. CountIn(separators', Open, Len(separators')) = CountIn(separators', Close, Len(separators')) + (Len(stack') - 1)
      BY <1>1, <2>2
    <3>. QED
      BY <3>1 DEF Count, CountIn
  <2>6. ~malformed'
    BY <1>6
  <2>. QED
    BY <2>4, <2>5, <2>6 DEF BalanceFits
<1>. QED
  BY <1>4, <1>5, <1>6

LEMMA OpenKeepsInv == ASSUME ParseInv, OpenAction PROVE ParseInv'
<1>1. scanSep /\ ahead = Open /\ stack' = Append(stack, <<>>) /\ UNCHANGED malformed
  BY DEF OpenAction
<1>2. /\ stack \in Seq(Seq(Item)) /\ stack # <<>> /\ Wholes(stack) /\ StackString(stack) \o rest = input
      /\ input \in Seq(Char) /\ malformed \in BOOLEAN
  BY DEF ParseInv, ParseTypes
<1>3. /\ rest = Open \o rest' /\ rest' \in Seq(Char) /\ separators' \in Seq({Open, Close})
      /\ AheadFits' /\ input' = input
  BY <1>1, SepIsScanned
<1>4. <<>> \in Seq(Item) /\ Whole(<<>>) /\ NodesString(<<>>) = <<>>
  <2>1. <<>> \in Seq(Item) /\ ActionItem \in Item
    BY ItemsType
  <2>. QED
    BY <2>1, WholeOne, AppendedString
<1>5. /\ stack' \in Seq(Seq(Item)) /\ stack' # <<>> /\ Len(stack') = Len(stack) + 1 /\ Wholes(stack')
      /\ StackString(stack') = OpenedBefore(stack) \o NodesString(<<>>)
  BY <1>1, <1>2, <1>4, PushedTop
<1>6. StackString(stack) \in Seq(Char) /\ OpenedBefore(stack) = StackString(stack) \o Open
  BY <1>2, <1>4, PushedString DEF OpenedBefore
<1>7. StackString(stack') \o rest' = input
  <2>. DEFINE w == StackString(stack)
  <2>1. w \in Seq(Char) /\ StackString(stack') = (w \o Open) \o <<>>
    BY <1>4, <1>5, <1>6
  <2>. HIDE DEF w
  <2>2. w \o Open \in Seq(Char) /\ (w \o Open) \o <<>> = w \o Open /\ (w \o Open) \o rest' = w \o (Open \o rest')
    BY <1>3, <2>1, StringsJoin, StringsAssociate, SeparatorsType
  <2>. QED
    BY <1>2, <1>3, <2>1, <2>2 DEF w
<1>8. BalanceFits'
  BY <1>1, <1>5, BalanceGoesOn
<1>. QED
  BY <1>1, <1>2, <1>3, <1>5, <1>7, <1>8 DEF ParseInv, ParseTypes

LEMMA CloseKeepsInv == ASSUME ParseInv, CloseAction PROVE ParseInv'
<1>. DEFINE opened == Front(stack)
            front  == Front(opened)
            nodes  == Last(opened)
            inner  == Last(stack)
            all    == nodes \o <<ActionItem>> \o inner \o <<EndItem>>
<1>1. scanSep /\ ahead = Close /\ Len(stack) > 1 /\ stack' = Append(front, all) /\ UNCHANGED malformed
  BY DEF CloseAction
<1>2. /\ stack \in Seq(Seq(Item)) /\ stack # <<>> /\ Wholes(stack) /\ StackString(stack) \o rest = input
      /\ input \in Seq(Char) /\ malformed \in BOOLEAN
  BY DEF ParseInv, ParseTypes
<1>3. /\ rest = Close \o rest' /\ rest' \in Seq(Char) /\ separators' \in Seq({Open, Close})
      /\ AheadFits' /\ input' = input
  BY <1>1, SepIsScanned
<1>4. /\ opened \in Seq(Seq(Item)) /\ inner \in Seq(Item) /\ Len(opened) = Len(stack) - 1 /\ Len(stack) \in Nat
      /\ StackString(stack) = OpenedBefore(opened) \o NodesString(inner)
      /\ Wholes(opened) /\ Whole(inner)
  BY <1>2, ReplacedTop
<1>5. opened # <<>>
  BY <1>1, <1>4
<1>. HIDE DEF opened, inner
<1>6. /\ front \in Seq(Seq(Item)) /\ nodes \in Seq(Item) /\ Len(front) = Len(opened) - 1
      /\ OpenedBefore(front) \in Seq(Char)
      /\ StackString(opened) = OpenedBefore(front) \o NodesString(nodes)
      /\ Wholes(front) /\ Whole(nodes)
  BY <1>4, <1>5, ReplacedTop
<1>. HIDE DEF front, nodes
<1>7. /\ all \in Seq(Item) /\ Whole(all)
      /\ NodesString(all) = ((NodesString(nodes) \o Open) \o NodesString(inner)) \o Close
  BY <1>4, <1>6, ClosedNodes
<1>. HIDE DEF all
<1>8. /\ stack' \in Seq(Seq(Item)) /\ stack' # <<>> /\ Len(stack') = Len(front) + 1 /\ Wholes(stack')
      /\ StackString(stack') = OpenedBefore(front) \o NodesString(all)
  BY <1>1, <1>6, <1>7, PushedTop
<1>9. StackString(stack') \o rest' = input
  <2>. DEFINE a == OpenedBefore(front)
              b == NodesString(nodes)
              c == NodesString(inner)
  <2>1. a \in Seq(Char) /\ b \in Seq(Char) /\ c \in Seq(Char)
    BY <1>4, <1>6, AppendedString, ItemsType
  <2>2. StackString(stack) = ((a \o b) \o Open) \o c
    BY <1>4, <1>5, <1>6 DEF OpenedBefore
  <2>3. StackString(stack') = a \o (((b \o Open) \o c) \o Close)
    BY <1>7, <1>8
  <2>. HIDE DEF a, b, c
  <2>4. b \o Open \in Seq(Char) /\ (b \o Open) \o c \in Seq(Char) /\ (a \o b) \o Open = a \o (b \o Open)
    <3>1. b \o Open \in Seq(Char) /\ (b \o Open) \o c \in Seq(Char)
      BY <2>1, StringsJoin, SeparatorsType
    <3>2. (a \o b) \o Open = a \o (b \o Open)
      BY <2>1, StringsAssociate, SeparatorsType
    <3>. QED
      BY <3>1, <3>2
  <2>5. (a \o (b \o Open)) \o c = a \o ((b \o Open) \o c)
    BY <2>1, <2>4, StringsAssociate
  <2>. DEFINE d == (b \o Open) \o c
  <2>6. StackString(stack) = a \o d /\ StackString(stack') = a \o (d \o Close) /\ d \in Seq(Char)
    BY <2>2, <2>3, <2>4, <2>5
  <2>. HIDE DEF d
  <2>7. a \o (d \o Close) = (a \o d) \o Close /\ a \o d \in Seq(Char)
        /\ ((a \o d) \o Close) \o rest' = (a \o d) \o (Close \o rest')
    <3>1. a \o (d \o Close) = (a \o d) \o Close
      BY <2>1, <2>6, StringsAssociate, SeparatorsType
    <3>2. a \o d \in Seq(Char)
      BY <2>1, <2>6, StringsJoin
    <3>3. ((a \o d) \o Close) \o rest' = (a \o d) \o (Close \o rest')
      BY <1>3, <3>2, StringsAssociate, SeparatorsType
    <3>. QED
      BY <3>1, <3>2, <3>3
  <2>. QED
    BY <1>2, <1>3, <2>6, <2>7
<1>10. Len(stack') = Len(stack) - 1
  BY <1>4, <1>6, <1>8
<1>11. BalanceFits'
  BY <1>1, <1>8, <1>10, BalanceGoesOn
<1>. QED
  BY <1>1, <1>2, <1>3, <1>8, <1>9, <1>11 DEF ParseInv, ParseTypes

LEMMA StrayKeepsInv == ASSUME ParseInv, StrayClose PROVE ParseInv'
<1>. DEFINE n == Len(separators)
<1>1. scanSep /\ ahead = Close /\ Len(stack) <= 1 /\ malformed' = TRUE
      /\ stack' = Append(Front(stack), appendText(Last(stack), Close))
  BY DEF StrayClose, Replace
<1>2. /\ stack \in Seq(Seq(Item)) /\ stack # <<>> /\ Wholes(stack) /\ StackString(stack) \o rest = input
      /\ input \in Seq(Char) /\ malformed \in BOOLEAN /\ rest # <<>>
  BY DEF ParseInv, ParseTypes, StrayClose, scanSep
<1>3. /\ rest = Close \o rest' /\ rest' \in Seq(Char) /\ separators' \in Seq({Open, Close}) /\ input' = input
      /\ AheadFits' /\ Len(separators') = n + 1 /\ n \in Nat
      /\ \A sep : /\ \A k \in 0 .. n : Count(sep, k) \in Nat /\ Count(sep, k)' = Count(sep, k)
                  /\ CountIn(separators', sep, n + 1) = Count(sep, n) + (IF ahead = sep THEN 1 ELSE 0)
      /\ (TooManyCloses => TooManyCloses')
  BY <1>1, SepIsScanned
<1>4. Close \in Seq(Char) /\ Close # <<>> /\ Open # Close
  BY SeparatorsType
<1>5. /\ stack' \in Seq(Seq(Item)) /\ stack' # <<>> /\ Wholes(stack')
      /\ StackString(stack) \in Seq(Char) /\ StackString(stack') = StackString(stack) \o Close
  BY <1>1, <1>2, <1>4, TextGoesOn
<1>6. StackString(stack') \o rest' = input
  <2>. DEFINE w == StackString(stack)
  <2>1. w \in Seq(Char) /\ StackString(stack') = w \o Close /\ w \o (Close \o rest') = input
    BY <1>2, <1>3, <1>5
  <2>. HIDE DEF w
  <2>2. (w \o Close) \o rest' = w \o (Close \o rest')
    BY <1>3, <1>4, <2>1, StringsAssociate
  <2>. QED
    BY <2>1, <2>2
<1>7. TooManyCloses'
  <2>1. CASE malformed
    BY <1>2, <1>3, <2>1 DEF ParseInv, BalanceFits
  <2>2. CASE ~malformed
    <3>. DEFINE opens == Count(Open, n)
                closes == Count(Close, n)
    <3>1. opens = closes + (Len(stack) - 1) /\ Len(stack) \in Nat \ {0}
      BY <1>2, <2>2 DEF ParseInv, BalanceFits
    <3>2. n \in 0 .. n
      BY <1>3
    <3>3. opens \in Nat /\ closes \in Nat
      BY <1>3, <3>2
    <3>4. CountIn(separators', Close, n + 1) = closes + 1 /\ CountIn(separators', Open, n + 1) = opens + 0
      BY <1>1, <1>3, <1>4
    <3>. HIDE DEF opens, closes
    <3>5. CountIn(separators', Close, n + 1) > CountIn(separators', Open, n + 1)
      BY <1>1, <3>1, <3>3, <3>4
    <3>6. n + 1 \in DOMAIN separators'
      BY <1>3
    <3>7. PICK k \in DOMAIN separators' : k = n + 1
      BY <3>6
    <3>8. \A sep : Count(sep, k)' = CountIn(separators', sep, k)
      BY DEF Count, CountIn
    <3>9. Count(Close, k)' > Count(Open, k)'
      BY <3>5, <3>7, <3>8
    <3>. QED
      BY <3>9 DEF TooManyCloses
  <2>. QED
    BY <1>2, <2>1, <2>2
<1>8. BalanceFits'
  BY <1>1, <1>7 DEF BalanceFits, Unbalanced, TooManyCloses
<1>. QED
  BY <1>1, <1>2, <1>3, <1>5, <1>6, <1>8 DEF ParseInv, ParseTypes

LEMMA GiveUpKeepsInv == ASSUME ParseInv, GiveUp PROVE ParseInv'
<1>. DEFINE opened == Front(stack)
            front  == Front(opened)
            nodes  == Last(opened)
            inner  == Last(stack)
            text   == appendText(nodes, Open)
            all    == appendNodes(text, inner)
<1>1. /\ rest = <<>> /\ Len(stack) > 1 /\ stack' = Append(front, all) /\ malformed' = TRUE
      /\ UNCHANGED <<input, rest, ahead, separators>>
  BY DEF GiveUp
<1>2. /\ stack \in Seq(Seq(Item)) /\ stack # <<>> /\ Wholes(stack) /\ StackString(stack) \o rest = input
      /\ input \in Seq(Char) /\ malformed \in BOOLEAN /\ rest \in Seq(Char) /\ separators \in Seq({Open, Close})
  BY DEF ParseInv, ParseTypes
<1>3. /\ opened \in Seq(Seq(Item)) /\ inner \in Seq(Item) /\ Len(opened) = Len(stack) - 1 /\ Len(stack) \in Nat
      /\ StackString(stack) = OpenedBefore(opened) \o NodesString(inner)
      /\ Wholes(opened) /\ Whole(inner)
  BY <1>2, ReplacedTop
<1>4. opened # <<>>
  BY <1>1, <1>3
<1>. HIDE DEF opened, inner
<1>5. /\ front \in Seq(Seq(Item)) /\ nodes \in Seq(Item) /\ Len(front) = Len(opened) - 1
      /\ OpenedBefore(front) \in Seq(Char)
      /\ StackString(opened) = OpenedBefore(front) \o NodesString(nodes)
      /\ Wholes(front) /\ Whole(nodes)
  BY <1>3, <1>4, ReplacedTop
<1>. HIDE DEF front, nodes
<1>6. Open \in Seq(Char) /\ Open # <<>>
  BY SeparatorsType
<1>7. text \in Seq(Item) /\ Whole(text) /\ NodesString(text) = NodesString(nodes) \o Open
  BY <1>5, <1>6, AppendedText
<1>. HIDE DEF text
<1>8. all \in Seq(Item) /\ Whole(all) /\ NodesString(all) = NodesString(text) \o NodesString(inner)
  BY <1>3, <1>7, AppendedNodes
<1>. HIDE DEF all
<1>9. /\ stack' \in Seq(Seq(Item)) /\ stack' # <<>> /\ Len(stack') = Len(front) + 1 /\ Wholes(stack')
      /\ StackString(stack') = OpenedBefore(front) \o NodesString(all)
  BY <1>1, <1>5, <1>8, PushedTop
<1>10. StackString(stack') = StackString(stack)
  <2>. DEFINE a == OpenedBefore(front)
              b == NodesString(nodes)
              c == NodesString(inner)
  <2>1. a \in Seq(Char) /\ b \in Seq(Char) /\ c \in Seq(Char)
    BY <1>3, <1>5, AppendedString, ItemsType
  <2>2. StackString(stack) = ((a \o b) \o Open) \o c
    BY <1>3, <1>4, <1>5 DEF OpenedBefore
  <2>3. StackString(stack') = a \o ((b \o Open) \o c)
    BY <1>7, <1>8, <1>9
  <2>. HIDE DEF a, b, c
  <2>4. b \o Open \in Seq(Char) /\ (a \o b) \o Open = a \o (b \o Open)
    <3>1. b \o Open \in Seq(Char)
      BY <1>6, <2>1, StringsJoin
    <3>2. (a \o b) \o Open = a \o (b \o Open)
      BY <1>6, <2>1, StringsAssociate
    <3>. QED
      BY <3>1, <3>2
  <2>5. (a \o (b \o Open)) \o c = a \o ((b \o Open) \o c)
    BY <2>1, <2>4, StringsAssociate
  <2>. QED
    BY <2>2, <2>3, <2>4, <2>5
<1>11. Unbalanced
  <2>1. CASE malformed
    BY <2>1 DEF ParseInv, BalanceFits
  <2>2. CASE ~malformed
    <3>. DEFINE opens == Count(Open, Len(separators))
                closes == Count(Close, Len(separators))
    <3>1. opens = closes + (Len(stack) - 1)
      BY <2>2 DEF ParseInv, BalanceFits
    <3>2. closes \in Nat
      <4>1. Len(separators) \in Nat /\ IsFiniteSet(1 .. Len(separators))
        BY <1>2, FS_Interval
      <4>2. IsFiniteSet({k \in 1 .. Len(separators) : separators[k] = Close})
        BY <4>1, FS_Subset
      <4>. QED
        BY <4>2, FS_CardinalityType DEF Count
    <3>. HIDE DEF opens, closes
    <3>3. closes # opens
      BY <1>1, <1>3, <3>1, <3>2
    <3>. QED
      BY <3>3 DEF Unbalanced, opens, closes
  <2>. QED
    BY <1>2, <2>1, <2>2
<1>12. BalanceFits'
  BY <1>1, <1>11 DEF BalanceFits, Unbalanced, Count
<1>13. AheadFits'
  BY <1>1 DEF ParseInv, AheadFits
<1>. QED
  BY <1>1, <1>2, <1>9, <1>10, <1>12, <1>13 DEF ParseInv, ParseTypes

LEMMA ParseBegins == TemplatesInit => ParseInv
<1>. SUFFICES ASSUME TemplatesInit PROVE ParseInv
  OBVIOUS
<1>1. PICK n \in 0 .. MaxInput : \E s \in [1 .. n -> Char] : Parses(s)
  BY DEF TemplatesInit
<1>2. PICK s \in [1 .. n -> Char] : Parses(s)
  BY <1>1
<1>3. s \in Seq(Char)
  <2>1. MaxInput \in Nat
    BY TemplatesAssumption, Zenon
  <2>2. n \in Nat
    BY <2>1
  <2>. QED
    BY <2>2, IsASeq
<1>4. input = s /\ rest = s /\ ahead = <<>> /\ stack = <<<<>>>> /\ separators = <<>> /\ malformed = FALSE
  BY <1>2 DEF Parses
<1>5. <<>> \in Seq(Item) /\ <<>> \in Seq(Seq(Item)) /\ ActionItem \in Item /\ <<<<>>>> = Append(<<>>, <<>>)
  BY ItemsType
<1>6. NodesString(<<>>) = <<>> /\ Whole(<<>>)
  BY <1>5, AppendedString, WholeOne
<1>7. /\ stack \in Seq(Seq(Item)) /\ stack # <<>> /\ Len(stack) = 1 /\ Wholes(stack)
      /\ StackString(stack) = OpenedBefore(<<>>) \o NodesString(<<>>)
  <2>1. Wholes(<<>>)
    BY DEF Wholes
  <2>2. Len(<<>>) + 1 = 1
    OBVIOUS
  <2>. QED
    BY <1>4, <1>5, <1>6, <2>1, <2>2, PushedTop
<1>8. StackString(stack) \o rest = input
  BY <1>3, <1>4, <1>6, <1>7, StringsJoin DEF OpenedBefore
<1>9. BalanceFits
  <2>1. \A sep : Count(sep, Len(separators)) = 0
    <3>1. \A sep : {k \in 1 .. Len(separators) : separators[k] = sep} = {}
      BY <1>4
    <3>. QED
      BY <3>1, FS_EmptySet DEF Count
  <2>. QED
    BY <1>4, <1>7, <2>1 DEF BalanceFits, TooManyCloses
<1>10. separators \in Seq({Open, Close})
  BY <1>4
<1>11. ParseTypes
  BY <1>3, <1>4, <1>7, <1>10 DEF ParseTypes
<1>. QED
  BY <1>4, <1>7, <1>8, <1>9, <1>11 DEF ParseInv, AheadFits

LEMMA ParseInvMeans == ParseInv => TemplatesInv
<1>. SUFFICES ASSUME ParseInv PROVE TemplatesInv
  OBVIOUS
<1>1. stack \in Seq(Seq(Item)) /\ stack # <<>> /\ StackString(stack) \o rest = input /\ Wholes(stack)
      /\ input \in Seq(Char) /\ malformed \in BOOLEAN
  BY DEF ParseInv, ParseTypes
<1>2. ASSUME Parsed PROVE NodesString(Last(stack)) = input
  <2>1. rest = <<>> /\ Len(stack) = 1
    BY <1>2 DEF Parsed
  <2>. DEFINE front == Front(stack)
  <2>2. /\ front \in Seq(Seq(Item)) /\ Len(front) = Len(stack) - 1 /\ Last(stack) \in Seq(Item)
        /\ StackString(stack) = OpenedBefore(front) \o NodesString(Last(stack))
    BY <1>1, ReplacedTop
  <2>. HIDE DEF front
  <2>3. front = <<>>
    BY <2>1, <2>2
  <2>4. OpenedBefore(front) = <<>> /\ NodesString(Last(stack)) \in Seq(Char)
    BY <2>2, <2>3, AppendedString, ItemsType DEF OpenedBefore
  <2>. DEFINE a == NodesString(Last(stack))
  <2>5. a \in Seq(Char) /\ (<<>> \o a) \o <<>> = input
    BY <1>1, <2>1, <2>2, <2>4
  <2>. HIDE DEF a
  <2>6. a = input
    BY <2>5, StringsJoin
  <2>. QED
    BY <2>6 DEF a
<1>3. TextsAreWhole
  BY <1>1 DEF TextsAreWhole, Wholes, Whole
<1>4. ASSUME Parsed PROVE malformed <=> Unbalanced
  <2>1. CASE malformed
    BY <2>1 DEF ParseInv, BalanceFits
  <2>2. CASE ~malformed
    <3>. DEFINE opens == Count(Open, Len(separators))
                closes == Count(Close, Len(separators))
    <3>1. opens = closes + (Len(stack) - 1) /\ ~TooManyCloses /\ Len(stack) = 1
      BY <1>4, <2>2 DEF ParseInv, BalanceFits, Parsed
    <3>2. closes \in Nat
      <4>1. separators \in Seq({Open, Close})
        BY DEF ParseInv, ParseTypes
      <4>2. Len(separators) \in Nat /\ IsFiniteSet(1 .. Len(separators))
        BY <4>1, FS_Interval
      <4>3. IsFiniteSet({k \in 1 .. Len(separators) : separators[k] = Close})
        BY <4>2, FS_Subset
      <4>. QED
        BY <4>3, FS_CardinalityType DEF Count
    <3>. HIDE DEF opens, closes
    <3>3. closes = opens
      BY <3>1, <3>2
    <3>. QED
      BY <2>2, <3>1, <3>3 DEF Unbalanced, TooManyCloses, opens, closes
  <2>. QED
    BY <1>1, <2>1, <2>2
<1>. QED
  BY <1>2, <1>3, <1>4 DEF TemplatesInv, ParseKeepsTheText, MalformedIsUnbalanced

LEMMA ParseKeeps == ParseInv /\ [Parse]_templateVars => ParseInv'
<1>. SUFFICES ASSUME ParseInv, [Parse]_templateVars PROVE ParseInv'
  OBVIOUS
<1>1. CASE UNCHANGED templateVars
  BY <1>1 DEF templateVars, ParseInv, ParseTypes, AheadFits, BalanceFits, TooManyCloses, Unbalanced, Count
<1>. QED
  BY <1>1, TextKeepsInv, OpenKeepsInv, CloseKeepsInv, StrayKeepsInv, GiveUpKeepsInv DEF Parse

THEOREM TextsAreParsedWhole == TemplatesSpec => []TemplatesInv
BY ParseBegins, ParseKeeps, ParseInvMeans, PTL DEF TemplatesSpec

LEMMA EffortType == ParseInv => Effort \in Nat
<1>. SUFFICES ASSUME ParseInv PROVE Effort \in Nat
  OBVIOUS
<1>1. Len(rest) \in Nat /\ Len(stack) \in Nat
  BY DEF ParseInv, ParseTypes
<1>. QED
  BY <1>1 DEF Effort

LEMMA ParseShrinks == ASSUME ParseInv, Parse PROVE Effort' < Effort
<1>1. /\ rest \in Seq(Char) /\ stack \in Seq(Seq(Item)) /\ stack # <<>>
      /\ Len(rest) \in Nat /\ Len(stack) \in Nat /\ ParseInv'
  BY ParseKeeps DEF ParseInv, ParseTypes
<1>2. Len(rest') \in Nat /\ Len(stack') \in Nat
  BY <1>1 DEF ParseInv, ParseTypes
<1>. DEFINE now == IF ahead = <<>> THEN 1 ELSE 0
            next == IF ahead' = <<>> THEN 1 ELSE 0
<1>3. Effort = 2 * Len(rest) + now + Len(stack) /\ Effort' = 2 * Len(rest') + next + Len(stack')
      /\ now \in {0, 1} /\ next \in {0, 1}
  BY DEF Effort
<1>4. CASE scanText
  <2>1. PICK end \in 0 .. Len(rest) :
            /\ FindsSep(rest, end, ahead')
            /\ IF end = 0 THEN UNCHANGED stack ELSE Replace(appendText(Last(stack), SubSeq(rest, 1, end)))
            /\ rest' = SubSeq(rest, end + 1, Len(rest))
    BY <1>4 DEF scanText
  <2>2. rest # <<>> /\ now = 1
    BY <1>4 DEF scanText
  <2>3. CASE end = 0
    <3>1. CutFits(rest, SubSeq(rest, 1, end), SubSeq(rest, end + 1, Len(rest)), end, ahead')
      BY <1>1, <2>1, TextIsCut
    <3>. DEFINE more == SubSeq(rest, end + 1, Len(rest))
    <3>2. /\ more = rest /\ rest' = more
          /\ \/ ahead' = <<>> /\ more = <<>>
             \/ ahead' \in {Open, Close}
      BY <2>1, <2>3, <3>1 DEF CutFits
    <3>4. Open # <<>> /\ Close # <<>>
      BY SeparatorsType
    <3>5. rest' = rest /\ ahead' # <<>>
      BY <2>2, <3>2, <3>4
    <3>3. next = 0 /\ stack' = stack
      BY <2>1, <2>3, <3>5
    <3>. HIDE DEF now, next
    <3>. QED
      BY <1>1, <1>3, <2>2, <3>3, <3>5
  <2>4. CASE end # 0
    <3>1. Len(rest') < Len(rest)
      BY <1>1, <2>1, <2>4
    <3>2. Len(stack') = Len(stack)
      <4>. DEFINE front == Front(stack)
                  top == appendText(Last(stack), SubSeq(rest, 1, end))
      <4>1. stack' = Append(front, top)
        BY <2>1, <2>4 DEF Replace
      <4>2. front \in Seq(Seq(Item)) /\ Len(front) = Len(stack) - 1
        BY <1>1, ReplacedTop
      <4>3. Len(Append(front, top)) = Len(front) + 1
        <5>. HIDE DEF front, top
        <5>. QED
          BY <4>2
      <4>. HIDE DEF front, top
      <4>. QED
        BY <1>1, <4>1, <4>2, <4>3
    <3>. HIDE DEF now, next
    <3>. QED
      BY <1>1, <1>2, <1>3, <2>2, <3>1, <3>2
  <2>. QED
    BY <2>3, <2>4
<1>5. ASSUME scanSep PROVE Len(rest) = Len(rest') + 2
  <2>1. ahead \in {Open, Close} /\ rest = ahead \o rest' /\ rest' \in Seq(Char)
    BY <1>5, SepIsScanned
  <2>2. ahead \in Seq(Char) /\ Len(ahead) = 2
    BY <2>1, SeparatorsType
  <2>3. Len(ahead \o rest') = Len(ahead) + Len(rest')
    BY <2>1, <2>2, ConcatProperties
  <2>. QED
    BY <1>2, <2>1, <2>2, <2>3
<1>6. CASE OpenAction
  <2>1. Len(stack') = Len(stack) + 1 /\ scanSep
    BY <1>1, <1>6 DEF OpenAction
  <2>. HIDE DEF now, next
  <2>. QED
    BY <1>1, <1>2, <1>3, <1>5, <2>1
<1>7. ASSUME \/ StrayClose
             \/ CloseAction /\ Len(stack) > 1
             \/ GiveUp /\ Len(stack) > 1
      PROVE  IF StrayClose THEN Len(stack') = Len(stack) ELSE Len(stack') = Len(stack) - 1
  <2>. DEFINE opened == Front(stack)
              front == Front(opened)
  <2>1. opened \in Seq(Seq(Item)) /\ Len(opened) = Len(stack) - 1
    BY <1>1, ReplacedTop
  <2>2. \A s \in Seq(Seq(Item)) : \A top : Len(Append(s, top)) = Len(s) + 1
    OBVIOUS
  <2>3. CASE StrayClose
    <3>1. stack' = Append(opened, appendText(Last(stack), Close))
      BY <2>3 DEF StrayClose, Replace
    <3>. HIDE DEF opened
    <3>. QED
      BY <1>1, <2>1, <2>2, <2>3, <3>1
  <2>4. CASE ~StrayClose
    <3>1. Len(stack) > 1 /\ \E top : stack' = Append(front, top)
      BY <1>7, <2>4 DEF CloseAction, GiveUp
    <3>. HIDE DEF opened
    <3>2. opened # <<>>
      BY <1>1, <2>1, <3>1
    <3>3. front \in Seq(Seq(Item)) /\ Len(front) = Len(opened) - 1
      BY <2>1, <3>2, ReplacedTop
    <3>. HIDE DEF front
    <3>. QED
      BY <1>1, <2>1, <2>2, <2>4, <3>1, <3>3
  <2>. QED
    BY <2>3, <2>4
<1>8. CASE CloseAction \/ StrayClose
  <2>1. scanSep
    BY <1>8 DEF CloseAction, StrayClose
  <2>2. StrayClose \/ (CloseAction /\ Len(stack) > 1)
    BY <1>8 DEF CloseAction
  <2>3. Len(stack') <= Len(stack)
    BY <1>1, <1>2, <1>7, <2>2
  <2>. HIDE DEF now, next
  <2>. QED
    BY <1>1, <1>2, <1>3, <1>5, <2>1, <2>3
<1>9. CASE GiveUp
  <2>1. ~StrayClose /\ Len(stack) > 1 /\ rest' = rest /\ ahead' = ahead
    BY <1>9 DEF GiveUp, StrayClose, scanSep
  <2>2. Len(stack') = Len(stack) - 1 /\ next = now
    BY <1>7, <1>9, <2>1
  <2>. HIDE DEF now, next
  <2>. QED
    BY <1>1, <1>2, <1>3, <2>1, <2>2
<1>. QED
  BY <1>4, <1>6, <1>8, <1>9 DEF Parse

LEMMA EffortTypeNext == ParseInv' => Effort' \in Nat
<1>. SUFFICES ASSUME ParseInv' PROVE Effort' \in Nat
  OBVIOUS
<1>1. Len(rest') \in Nat /\ Len(stack') \in Nat
  BY DEF ParseInv, ParseTypes
<1>. QED
  BY <1>1 DEF Effort

THEOREM ParsingEnds == TemplatesSpec => ParsingShrinks
<1>1. ParseInv /\ [Parse]_templateVars => [LessToDo]_templateVars
  <2>. SUFFICES ASSUME ParseInv, [Parse]_templateVars
                PROVE  [LessToDo]_templateVars
    OBVIOUS
  <2>1. CASE UNCHANGED templateVars
    BY <2>1
  <2>2. CASE Parse
    <3>1. ParseInv'
      BY ParseKeeps
    <3>2. Effort \in Nat
      BY EffortType
    <3>3. Effort' \in Nat
      BY <3>1, EffortTypeNext
    <3>4. Effort' < Effort
      BY <2>2, ParseShrinks
    <3>. QED
      BY <3>2, <3>3, <3>4 DEF LessToDo
  <2>. QED
    BY <2>1, <2>2
<1>. QED
  BY <1>1, ParseBegins, ParseKeeps, PTL DEF TemplatesSpec, ParsingShrinks

------------------------------------------------------------------------------
(* 8. How a message is answered                                             *)

(* Whoever says whatever on whichever channel: one handler answers, and with  *)
(* a text that was parsed without loss, that ends and is silent where it says *)
(* so (tryCommand, handleCustomCommand, Parse, processCommand).               *)
THEOREM AnsweredOnceAndFinitely == AnsweringSpec => []AnsweringInv
BY OneHandlerAnswers, NoEndlessTexts, TextsAreParsedWhole, PTL DEF AnsweringSpec, AnsweringInv

------------------------------------------------------------------------------
(* 9. Which links a pattern permits                                          *)

(* Splitting a text, one character after the other.                           *)
SplitsTo(f, s, sep, n) ==
    \A k \in 0 .. n : f[k] = IF k = 0 THEN <<<<>>>> ELSE PartsWith(f[k - 1], s[k], sep)

Parts(C) == Seq(Seq(C)) \ {<<>>}

LEMMA AppendFrontAndLast ==
    ASSUME NEW S, NEW s \in Seq(S), NEW x \in S
    PROVE  Front(Append(s, x)) = s /\ Last(Append(s, x)) = x /\ Append(s, x) # <<>> /\ Append(s, x) \in Seq(S)
BY AppendFrontLast, AppendProperties

LEMMA PartsWithIs ==
    ASSUME NEW C, NEW parts \in Parts(C), NEW c \in C, NEW sep
    PROVE  PartsWith(parts, c, sep) \in Parts(C)
<1>1. parts \in Seq(Seq(C)) /\ parts # <<>> /\ <<>> \in Seq(C)
  BY DEF Parts
<1>2. Front(parts) \in Seq(Seq(C)) /\ Last(parts) \in Seq(C)
  BY <1>1, FrontAndLast
<1>3. Append(Last(parts), c) \in Seq(C)
  BY <1>2
<1>. DEFINE a == Append(parts, <<>>)
            b == Append(Front(parts), Append(Last(parts), c))
<1>4. a \in Seq(Seq(C)) /\ a # <<>>
  BY <1>1, AppendFrontAndLast
<1>5. b \in Seq(Seq(C)) /\ b # <<>>
  BY <1>2, <1>3, AppendFrontAndLast
<1>6. PartsWith(parts, c, sep) \in {a, b}
  BY DEF PartsWith
<1>. HIDE DEF a, b
<1>. QED
  BY <1>4, <1>5, <1>6 DEF Parts

LEMMA SplitExists ==
    ASSUME NEW C, NEW s \in Seq(C), NEW sep
    PROVE  \E f \in [0 .. Len(s) -> Parts(C)] : SplitsTo(f, s, sep, Len(s))
<1>. DEFINE Fits(f, n) == \A k \in 0 .. n : f[k] = IF k = 0 THEN <<<<>>>> ELSE PartsWith(f[k - 1], s[k], sep)
            Possible(n) == \E f \in [0 .. n -> Parts(C)] : Fits(f, n)
            Without == {n \in 0 .. Len(s) : ~Possible(n)}
<1>1. Len(s) \in Nat /\ \A k \in 1 .. Len(s) : s[k] \in C
  OBVIOUS
<1>2. Possible(0)
  <2>. DEFINE f == [k \in 0 .. 0 |-> <<<<>>>>]
  <2>1. <<<<>>>> \in Parts(C)
    <3>1. <<>> \in Seq(C) /\ <<>> \in Seq(Seq(C)) /\ <<<<>>>> = Append(<<>>, <<>>)
      OBVIOUS
    <3>. QED
      BY <3>1, AppendFrontAndLast DEF Parts
  <2>2. f \in [0 .. 0 -> Parts(C)]
    BY <2>1
  <2>3. Fits(f, 0)
    OBVIOUS
  <2>. QED
    BY <2>2, <2>3
<1>3. ASSUME NEW n \in 1 .. Len(s), Possible(n - 1) PROVE Possible(n)
  <2>1. PICK f \in [0 .. n - 1 -> Parts(C)] : Fits(f, n - 1)
    BY <1>3
  <2>. DEFINE more == PartsWith(f[n - 1], s[n], sep)
              g == [k \in 0 .. n |-> IF k = n THEN more ELSE f[k]]
  <2>2. more \in Parts(C)
    <3>1. n - 1 \in 0 .. n - 1 /\ s[n] \in C
      BY <1>1
    <3>2. f[n - 1] \in Parts(C)
      BY <2>1, <3>1
    <3>. QED
      BY <3>1, <3>2, PartsWithIs
  <2>3. g \in [0 .. n -> Parts(C)]
    <3>. HIDE DEF more
    <3>1. \A k \in 0 .. n : k # n => k \in 0 .. n - 1
      BY <1>1
    <3>. QED
      BY <2>1, <2>2, <3>1
  <2>4. Fits(g, n)
    <3>. SUFFICES ASSUME NEW k \in 0 .. n PROVE g[k] = IF k = 0 THEN <<<<>>>> ELSE PartsWith(g[k - 1], s[k], sep)
      OBVIOUS
    <3>1. n # 0 /\ n - 1 \in 0 .. n /\ n - 1 # n
      BY <1>1
    <3>2. CASE k = n
      BY <3>1, <3>2
    <3>3. CASE k # n
      <4>1. k \in 0 .. n - 1 /\ (k # 0 => k - 1 \in 0 .. n /\ k - 1 # n)
        BY <1>1, <3>3
      <4>2. f[k] = IF k = 0 THEN <<<<>>>> ELSE PartsWith(f[k - 1], s[k], sep)
        BY <2>1, <4>1
      <4>. HIDE DEF more
      <4>. QED
        BY <3>3, <4>1, <4>2
    <3>. QED
      BY <3>2, <3>3
  <2>. HIDE DEF Fits, g
  <2>. QED
    BY <2>3, <2>4
<1>4. Possible(Len(s))
  <2>. HIDE DEF Possible
  <2>. SUFFICES ASSUME Without # {} PROVE FALSE
    BY <1>1
  <2>1. PICK m \in Without : \A k \in Without : m <= k
    <3>1. Without \in SUBSET Nat
      BY <1>1
    <3>. QED
      BY <3>1, LeastThereIs
  <2>2. m \in 0 .. Len(s) /\ ~Possible(m) /\ (m # 0 => m \in 1 .. Len(s) /\ Possible(m - 1))
    BY <1>1, <2>1
  <2>. QED
    BY <1>2, <1>3, <2>2
<1>. QED
  BY <1>4 DEF SplitsTo

LEMMA OneSplitting ==
    ASSUME NEW s, NEW n \in Nat, NEW sep, NEW f, NEW g,
           SplitsTo(f, s, sep, n), SplitsTo(g, s, sep, n)
    PROVE  \A k \in 0 .. n : f[k] = g[k]
<1>. DEFINE Differ == {i \in 0 .. n : f[i] # g[i]}
<1>. SUFFICES ASSUME Differ # {} PROVE FALSE
  OBVIOUS
<1>1. PICK m \in Differ : \A k \in Differ : m <= k
  <2>1. Differ \in SUBSET Nat
    OBVIOUS
  <2>. QED
    BY <2>1, LeastThereIs
<1>2. m \in 0 .. n /\ f[m] # g[m] /\ (m # 0 => m - 1 \in 0 .. n /\ f[m - 1] = g[m - 1])
  BY <1>1
<1>. QED
  BY <1>2 DEF SplitsTo

LEMMA SplitIs ==
    ASSUME NEW C, NEW s \in Seq(C), NEW sep, NEW f \in [0 .. Len(s) -> Parts(C)], SplitsTo(f, s, sep, Len(s))
    PROVE  Split(s, sep) = f[Len(s)]
<1>. DEFINE parts == CHOOSE h : h = [k \in 0 .. Len(s) |-> IF k = 0 THEN <<<<>>>> ELSE PartsWith(h[k - 1], s[k], sep)]
<1>1. f = [k \in 0 .. Len(s) |-> IF k = 0 THEN <<<<>>>> ELSE PartsWith(f[k - 1], s[k], sep)]
  BY DEF SplitsTo
<1>2. parts = [k \in 0 .. Len(s) |-> IF k = 0 THEN <<<<>>>> ELSE PartsWith(parts[k - 1], s[k], sep)]
  BY <1>1, Zenon
<1>3. SplitsTo(parts, s, sep, Len(s))
  <2>. HIDE DEF parts
  <2>. QED
    BY <1>2 DEF SplitsTo
<1>4. Len(s) \in Nat /\ Len(s) \in 0 .. Len(s)
  OBVIOUS
<1>5. parts[Len(s)] = f[Len(s)]
  <2>. HIDE DEF parts
  <2>. QED
    BY <1>3, <1>4, OneSplitting
<1>. QED
  BY <1>5, Zenon DEF Split

LEMMA SplitAppend ==
    ASSUME NEW C, NEW s \in Seq(C), NEW c \in C, NEW sep
    PROVE  /\ Split(<<>>, sep) = <<<<>>>>
           /\ Split(s, sep) \in Parts(C)
           /\ Split(Append(s, c), sep) = PartsWith(Split(s, sep), c, sep)
<1>1. <<>> \in Seq(C) /\ Len(<<>>) = 0
  OBVIOUS
<1>2. Split(<<>>, sep) = <<<<>>>>
  <2>1. PICK f \in [0 .. Len(<<>>) -> Parts(C)] : SplitsTo(f, <<>>, sep, Len(<<>>))
    BY <1>1, SplitExists
  <2>2. Split(<<>>, sep) = f[Len(<<>>)]
    BY <1>1, <2>1, SplitIs
  <2>3. 0 \in 0 .. Len(<<>>)
    BY <1>1
  <2>4. f[0] = <<<<>>>>
    BY <2>1, <2>3 DEF SplitsTo
  <2>. QED
    BY <1>1, <2>2, <2>4
<1>. DEFINE more == Append(s, c)
<1>3. /\ Len(s) \in Nat /\ more \in Seq(C) /\ Len(more) = Len(s) + 1 /\ more[Len(s) + 1] = c
      /\ \A i \in 1 .. Len(s) : more[i] = s[i]
  BY AppendProperties
<1>. HIDE DEF more
<1>4. PICK f \in [0 .. Len(more) -> Parts(C)] : SplitsTo(f, more, sep, Len(more))
  BY <1>3, SplitExists
<1>5. Split(more, sep) = f[Len(more)]
  BY <1>3, <1>4, SplitIs
<1>6. PICK g \in [0 .. Len(s) -> Parts(C)] : SplitsTo(g, s, sep, Len(s))
  BY SplitExists
<1>7. Split(s, sep) = g[Len(s)] /\ g[Len(s)] \in Parts(C)
  <2>1. Split(s, sep) = g[Len(s)]
    BY <1>6, SplitIs
  <2>2. Len(s) \in 0 .. Len(s)
    BY <1>3
  <2>. QED
    BY <1>6, <2>1, <2>2
<1>8. SplitsTo(f, s, sep, Len(s))
  <2>. SUFFICES ASSUME NEW k \in 0 .. Len(s) PROVE f[k] = IF k = 0 THEN <<<<>>>> ELSE PartsWith(f[k - 1], s[k], sep)
    BY DEF SplitsTo
  <2>1. k \in 0 .. Len(more) /\ (k # 0 => more[k] = s[k])
    BY <1>3
  <2>. QED
    BY <1>4, <2>1 DEF SplitsTo
<1>9. f[Len(s)] = g[Len(s)]
  <2>1. Len(s) \in 0 .. Len(s)
    BY <1>3
  <2>. QED
    BY <1>3, <1>6, <1>8, <2>1, OneSplitting
<1>10. f[Len(more)] = PartsWith(f[Len(s)], c, sep)
  <2>1. PICK k \in 0 .. Len(more) : k = Len(more)
    BY <1>3
  <2>2. k # 0 /\ k - 1 = Len(s) /\ more[k] = c
    BY <1>3, <2>1
  <2>3. f[k] = PartsWith(f[k - 1], more[k], sep)
    BY <1>4, <2>1, <2>2 DEF SplitsTo
  <2>. QED
    BY <2>1, <2>2, <2>3
<1>. QED
  BY <1>2, <1>5, <1>7, <1>9, <1>10 DEF more

Sequenced(S) ==
    /\ <<>> \in Seq(S)
    /\ \A s \in Seq(S) : s \o <<>> = s /\ <<>> \o s = s
    /\ \A s, t \in Seq(S) : s \o t \in Seq(S)
    /\ \A s, t, u \in Seq(S) : (s \o t) \o u = s \o (t \o u)
    /\ \A x \in S : <<x>> \in Seq(S)
    /\ \A s \in Seq(S), x \in S : Append(s, x) = s \o <<x>> /\ Append(s, x) \in Seq(S) /\ Append(s, x) # <<>>

LEMMA SequenceLaws == \A S : Sequenced(S)
<1>. SUFFICES ASSUME NEW S PROVE Sequenced(S)
  OBVIOUS
<1>1. \A s \in Seq(S) : s \o <<>> = s /\ <<>> \o s = s
  BY ConcatEmptySeq
<1>2. \A s, t \in Seq(S) : s \o t \in Seq(S)
  BY ConcatProperties
<1>3. \A s, t, u \in Seq(S) : (s \o t) \o u = s \o (t \o u)
  BY ConcatAssociative
<1>4. \A s \in Seq(S) : \A x \in S : <<x>> \in Seq(S) /\ Append(s, x) = s \o <<x>>
  BY AppendIsConcat
<1>5. \A s \in Seq(S) : \A x \in S : Append(s, x) \in Seq(S) /\ Append(s, x) # <<>>
  BY AppendProperties
<1>. QED
  BY <1>1, <1>2, <1>3, <1>4, <1>5 DEF Sequenced

Associated(S, s, t, u) == s \o t \in Seq(S) /\ (s \o t) \o u = s \o (t \o u)

LEMMA Associate ==
    ASSUME NEW S, NEW s \in Seq(S), NEW t \in Seq(S), NEW u \in Seq(S)
    PROVE  Associated(S, s, t, u)
<1>1. s \o t \in Seq(S)
  BY ConcatProperties
<1>2. (s \o t) \o u = s \o (t \o u)
  BY ConcatAssociative
<1>. QED
  BY <1>1, <1>2 DEF Associated

(* The other way round: the text that parts are of.                           *)
Marked(parts, sep) == [i \in DOMAIN parts |-> IF i = 1 THEN parts[i] ELSE <<sep>> \o parts[i]]
Join(parts, sep) == FlattenSeq(Marked(parts, sep))

JoinsNext(C, sep, parts, t) ==
    /\ Join(parts, sep) \in Seq(C)
    /\ parts = <<>> => Join(Append(parts, t), sep) = t
    /\ parts # <<>> => Join(Append(parts, t), sep) = Join(parts, sep) \o (<<sep>> \o t)

LEMMA JoinAppend ==
    ASSUME NEW C, NEW parts \in Seq(Seq(C)), NEW t \in Seq(C), NEW sep \in C
    PROVE  JoinsNext(C, sep, parts, t)
<1>. DEFINE mark == IF parts = <<>> THEN t ELSE <<sep>> \o t
            marked == Marked(parts, sep)
<1>1. <<sep>> \in Seq(C) /\ mark \in Seq(C)
  BY ConcatProperties
<1>2. marked \in Seq(Seq(C))
  <2>1. Len(parts) \in Nat /\ DOMAIN parts = 1 .. Len(parts) /\ \A i \in 1 .. Len(parts) : parts[i] \in Seq(C)
    OBVIOUS
  <2>2. \A i \in 1 .. Len(parts) : <<sep>> \o parts[i] \in Seq(C)
    BY <1>1, <2>1, ConcatProperties
  <2>3. marked \in [1 .. Len(parts) -> Seq(C)]
    BY <2>1, <2>2 DEF Marked
  <2>4. \A n \in Nat : \A f \in [1 .. n -> Seq(C)] : f \in Seq(Seq(C))
    OBVIOUS
  <2>. HIDE DEF marked
  <2>. QED
    BY <2>1, <2>3, <2>4
<1>3. Marked(Append(parts, t), sep) = Append(marked, mark)
  <2>1. /\ Len(parts) \in Nat /\ DOMAIN parts = 1 .. Len(parts) /\ (parts = <<>> <=> Len(parts) = 0)
        /\ Append(parts, t) \in Seq(Seq(C)) /\ Len(Append(parts, t)) = Len(parts) + 1
        /\ Append(parts, t)[Len(parts) + 1] = t
        /\ \A i \in 1 .. Len(parts) : Append(parts, t)[i] = parts[i]
    BY AppendProperties
  <2>2. DOMAIN Append(parts, t) = 1 .. Len(parts) + 1
    BY <2>1
  <2>3. DOMAIN marked = 1 .. Len(parts)
    BY <2>1 DEF Marked
  <2>4. Len(marked) = Len(parts)
    <3>. DEFINE n == Len(marked)
                m == Len(parts)
    <3>1. n \in Nat /\ m \in Nat /\ 1 .. n = 1 .. m
      <4>. HIDE DEF marked
      <4>. QED
        BY <1>2, <2>1, <2>3, LenProperties
    <3>. HIDE DEF n, m
    <3>2. (n # 0 => n \in 1 .. n) /\ (m # 0 => m \in 1 .. m)
      BY <3>1
    <3>3. n = m
      BY <3>1, <3>2
    <3>. QED
      BY <3>3 DEF n, m
  <2>5. /\ Append(marked, mark) \in Seq(Seq(C)) /\ Len(Append(marked, mark)) = Len(parts) + 1
        /\ Append(marked, mark)[Len(parts) + 1] = mark
        /\ \A i \in 1 .. Len(parts) : Append(marked, mark)[i] = marked[i]
    <3>. HIDE DEF marked, mark
    <3>. QED
      BY <1>1, <1>2, <2>4, AppendProperties
  <2>6. Append(marked, mark) = [i \in 1 .. Len(parts) + 1 |-> Append(marked, mark)[i]]
    <3>. DEFINE w == Append(marked, mark)
    <3>1. w \in Seq(Seq(C)) /\ Len(w) = Len(parts) + 1
      BY <2>5
    <3>. HIDE DEF w
    <3>2. w = [i \in 1 .. Len(w) |-> w[i]]
      BY <3>1
    <3>. QED
      BY <3>1, <3>2 DEF w
  <2>7. ASSUME NEW i \in 1 .. Len(parts) + 1
        PROVE  (IF i = 1 THEN Append(parts, t)[i] ELSE <<sep>> \o Append(parts, t)[i]) = Append(marked, mark)[i]
    <3>1. CASE i = Len(parts) + 1
      <4>1. Append(parts, t)[i] = t
        BY <2>1, <3>1
      <4>2. Append(marked, mark)[i] = mark
        <5>. HIDE DEF marked, mark
        <5>. QED
          BY <2>5, <3>1
      <4>3. i = 1 <=> parts = <<>>
        BY <2>1, <3>1
      <4>4. (IF i = 1 THEN t ELSE <<sep>> \o t) = mark
        BY <4>3
      <4>. DEFINE x == Append(parts, t)[i]
                  y == Append(marked, mark)[i]
      <4>5. x = t /\ y = mark
        BY <4>1, <4>2
      <4>. HIDE DEF marked, mark, x, y
      <4>6. (IF i = 1 THEN x ELSE <<sep>> \o x) = y
        BY <4>4, <4>5
      <4>. QED
        BY <4>6 DEF x, y
    <3>2. CASE i # Len(parts) + 1
      <4>1. i \in 1 .. Len(parts)
        BY <2>1, <3>2
      <4>2. Append(parts, t)[i] = parts[i] /\ Append(marked, mark)[i] = marked[i]
        BY <2>1, <2>5, <4>1
      <4>3. marked[i] = IF i = 1 THEN parts[i] ELSE <<sep>> \o parts[i]
        BY <2>1, <4>1 DEF Marked
      <4>. QED
        BY <4>2, <4>3
    <3>. QED
      BY <3>1, <3>2
  <2>. HIDE DEF marked, mark
  <2>8. Marked(Append(parts, t), sep) = [i \in 1 .. Len(parts) + 1 |-> Append(marked, mark)[i]]
    BY <2>2, <2>7, Zenon DEF Marked
  <2>. QED
    BY <2>6, <2>8
<1>4. FlattenSeq(Append(marked, mark)) = FlattenSeq(marked) \o mark /\ FlattenSeq(marked) \in Seq(C)
  <2>. HIDE DEF marked, mark
  <2>. QED
    BY <1>1, <1>2, FlattenAppend
<1>5. ASSUME parts = <<>> PROVE FlattenSeq(marked) = <<>>
  <2>1. marked = <<>>
    <3>1. DOMAIN marked = {}
      BY <1>5 DEF Marked
    <3>. HIDE DEF marked
    <3>. QED
      BY <1>2, <3>1
  <2>2. FlattenSeq(<<>>) = <<>>
    BY <1>1, <1>2, FlattenAppend
  <2>. QED
    BY <2>1, <2>2
<1>6. <<>> \o t = t
  BY ConcatEmptySeq
<1>. QED
  BY <1>3, <1>4, <1>5, <1>6 DEF Join, JoinsNext

Joins(C, sep) ==
    /\ \A t \in Seq(C) : Join(Append(<<>>, t), sep) = t
    /\ \A p \in Parts(C), t \in Seq(C) :
           Append(p, t) \in Parts(C) /\ Join(Append(p, t), sep) = Join(p, sep) \o (<<sep>> \o t)
    /\ \A p \in Seq(Seq(C)) : Join(p, sep) \in Seq(C)

LEMMA JoinLaws == \A C : \A sep \in C : Joins(C, sep)
<1>. SUFFICES ASSUME NEW C, NEW sep \in C PROVE Joins(C, sep)
  OBVIOUS
<1>1. Sequenced(Seq(C)) /\ <<>> \in Seq(C)
  BY SequenceLaws
<1>2. ASSUME NEW p \in Seq(Seq(C)), NEW t \in Seq(C)
      PROVE  /\ Join(p, sep) \in Seq(C)
             /\ p = <<>> => Join(Append(p, t), sep) = t
             /\ p # <<>> => Join(Append(p, t), sep) = Join(p, sep) \o (<<sep>> \o t)
             /\ Append(p, t) \in Seq(Seq(C)) /\ Append(p, t) # <<>>
  <2>1. /\ Join(p, sep) \in Seq(C)
        /\ p = <<>> => Join(Append(p, t), sep) = t
        /\ p # <<>> => Join(Append(p, t), sep) = Join(p, sep) \o (<<sep>> \o t)
    <3>1. JoinsNext(C, sep, p, t)
      BY JoinAppend
    <3>. QED
      BY <3>1, Zenon DEF JoinsNext
  <2>2. Append(p, t) \in Seq(Seq(C)) /\ Append(p, t) # <<>>
    BY <1>1 DEF Sequenced
  <2>. QED
    BY <2>1, <2>2
<1>3. \A t \in Seq(C) : Join(Append(<<>>, t), sep) = t
  BY <1>1, <1>2, Zenon DEF Sequenced
<1>4. \A p \in Parts(C), t \in Seq(C) :
          Append(p, t) \in Parts(C) /\ Join(Append(p, t), sep) = Join(p, sep) \o (<<sep>> \o t)
  BY <1>2, Zenon DEF Parts
<1>5. \A p \in Seq(Seq(C)) : Join(p, sep) \in Seq(C)
  BY <1>1, <1>2, Zenon
<1>. QED
  BY <1>3, <1>4, <1>5 DEF Joins

LEMMA JoinPartsWith ==
    ASSUME NEW C, NEW parts \in Parts(C), NEW c \in C, NEW sep \in C
    PROVE  Join(PartsWith(parts, c, sep), sep) = Join(parts, sep) \o <<c>> /\ Join(parts, sep) \in Seq(C)
<1>. DEFINE m == <<sep>>
            d == <<c>>
            whole == Join(parts, sep)
<1>s. Sequenced(C) /\ Sequenced(Seq(C))
  BY SequenceLaws
<1>j. Joins(C, sep)
  BY JoinLaws
<1>1. parts \in Seq(Seq(C)) /\ parts # <<>> /\ <<>> \in Seq(C) /\ m \in Seq(C) /\ d \in Seq(C) /\ m \o <<>> = m
  BY <1>s DEF Sequenced, Parts
<1>2. whole \in Seq(C)
  BY <1>1, <1>j DEF Joins
<1>3. CASE c = sep
  <2>1. Join(Append(parts, <<>>), sep) = whole \o (m \o <<>>)
    BY <1>1, <1>j, Zenon DEF Joins
  <2>2. PartsWith(parts, c, sep) = Append(parts, <<>>)
    BY <1>3, Zenon DEF PartsWith
  <2>3. whole \o (m \o <<>>) = whole \o d
    BY <1>1, <1>3, Zenon
  <2>. QED
    BY <1>2, <2>1, <2>2, <2>3, Zenon
<1>4. CASE c # sep
  <2>. DEFINE front == Front(parts)
              last == Last(parts)
              lastc == Append(last, c)
  <2>1. front \in Seq(Seq(C)) /\ last \in Seq(C) /\ parts = Append(front, last)
    BY <1>1, FrontAndLast
  <2>2. PartsWith(parts, c, sep) = Append(front, lastc)
    BY <1>4, Zenon DEF PartsWith
  <2>3. lastc \in Seq(C) /\ lastc = last \o d
    <3>. HIDE DEF last
    <3>. QED
      BY <2>1, <1>s DEF Sequenced
  <2>. HIDE DEF front, last, lastc
  <2>4. CASE front = <<>>
    <3>1. Join(Append(front, last), sep) = last /\ Join(Append(front, lastc), sep) = lastc
      BY <2>1, <2>3, <2>4, <1>j, Zenon DEF Joins
    <3>. QED
      BY <1>2, <2>1, <2>2, <2>3, <3>1, Zenon
  <2>5. CASE front # <<>>
    <3>. DEFINE a == Join(front, sep)
    <3>1. front \in Parts(C)
      BY <2>1, <2>5 DEF Parts
    <3>2. a \in Seq(C) /\ Join(Append(front, last), sep) = a \o (m \o last)
          /\ Join(Append(front, lastc), sep) = a \o (m \o lastc)
      BY <2>1, <2>3, <3>1, <1>j, Zenon DEF Joins
    <3>. HIDE DEF a, m, d
    <3>3. m \o (last \o d) = (m \o last) \o d /\ a \o ((m \o last) \o d) = (a \o (m \o last)) \o d
      <4>. DEFINE ml == m \o last
      <4>1. Associated(C, m, last, d)
        BY <1>1, <2>1, Associate DEF d
      <4>2. ml \in Seq(C) /\ ml \o d = m \o (last \o d)
        BY <4>1, Zenon DEF Associated
      <4>. HIDE DEF ml
      <4>3. Associated(C, a, ml, d)
        BY <1>1, <3>2, <4>2, Associate DEF d
      <4>4. (a \o ml) \o d = a \o (ml \o d)
        BY <4>3, Zenon DEF Associated
      <4>. QED
        BY <4>2, <4>4, Zenon DEF ml
    <3>. QED
      BY <1>2, <2>1, <2>2, <2>3, <3>2, <3>3, Zenon DEF d
  <2>. QED
    BY <2>4, <2>5
<1>. QED
  BY <1>3, <1>4

LEMMA JoinSplit ==
    ASSUME NEW C, NEW sep \in C
    PROVE  \A s \in Seq(C) : Split(s, sep) \in Parts(C) /\ Join(Split(s, sep), sep) = s
<1>. DEFINE G == {t \in Seq(C) : Split(t, sep) \in Parts(C) /\ Join(Split(t, sep), sep) = t}
<1>s. Sequenced(C) /\ Sequenced(Seq(C))
  BY SequenceLaws
<1>j. Joins(C, sep)
  BY JoinLaws
<1>0. <<>> \in Seq(C) /\ <<>> \in Seq(Seq(C))
  BY <1>s DEF Sequenced
<1>1. <<>> \in G
  <2>1. Append(<<>>, <<>>) = <<<<>>>>
    OBVIOUS
  <2>2. \A t \in Seq(C) : Split(<<>>, sep) = <<<<>>>> /\ Split(t, sep) \in Parts(C)
    BY SplitAppend
  <2>3. Join(Append(<<>>, <<>>), sep) = <<>>
    BY <1>0, <1>j, Zenon DEF Joins
  <2>. QED
    BY <1>0, <2>1, <2>2, <2>3, Zenon
<1>2. ASSUME NEW t \in G, NEW c \in C PROVE Append(t, c) \in G
  <2>1. t \in Seq(C) /\ Split(t, sep) \in Parts(C) /\ Join(Split(t, sep), sep) = t
    OBVIOUS
  <2>2. Split(Append(t, c), sep) = PartsWith(Split(t, sep), c, sep)
    BY <2>1, SplitAppend
  <2>3. PartsWith(Split(t, sep), c, sep) \in Parts(C)
    BY <2>1, PartsWithIs
  <2>4. Join(PartsWith(Split(t, sep), c, sep), sep) = Join(Split(t, sep), sep) \o <<c>>
    BY <2>1, JoinPartsWith
  <2>5. Append(t, c) = t \o <<c>> /\ Append(t, c) \in Seq(C)
    BY <2>1, <1>s DEF Sequenced
  <2>. QED
    BY <2>1, <2>2, <2>3, <2>4, <2>5, Zenon
<1>3. \A t \in Seq(C) : t \in G
  <2>1. G \in SUBSET Seq(C)
    OBVIOUS
  <2>. HIDE DEF G
  <2>. QED
    BY <1>1, <1>2, <2>1, AllSequences
<1>. QED
  BY <1>3

LEMMA JoinConcat ==
    ASSUME NEW C, NEW sep \in C, NEW x \in Parts(C)
    PROVE  \A y \in Parts(C) : Join(x \o y, sep) = Join(x, sep) \o (<<sep>> \o Join(y, sep))
<1>. DEFINE m == <<sep>>
            a == Join(x, sep)
            G == {z \in Seq(Seq(C)) : z # <<>> => Join(x \o z, sep) = a \o (m \o Join(z, sep))}
<1>s. Sequenced(C) /\ Sequenced(Seq(C))
  BY SequenceLaws
<1>j. Joins(C, sep)
  BY JoinLaws
<1>1. x \in Seq(Seq(C)) /\ x # <<>> /\ m \in Seq(C)
  BY <1>s DEF Sequenced, Parts
<1>2. \A z \in Seq(Seq(C)) : Join(z, sep) \in Seq(C)
  BY <1>j DEF Joins
<1>3. <<>> \in G
  BY <1>s DEF Sequenced
<1>4. ASSUME NEW z \in G, NEW t \in Seq(C) PROVE Append(z, t) \in G
  <2>. DEFINE b == Join(z, sep)
              more == Append(z, t)
              xz == x \o z
  <2>1. z \in Seq(Seq(C)) /\ more \in Seq(Seq(C)) /\ more # <<>>
    BY <1>s DEF Sequenced
  <2>2. xz \in Seq(Seq(C)) /\ x \o more = Append(xz, t)
    <3>. DEFINE tt == <<t>>
    <3>1. xz \in Seq(Seq(C)) /\ tt \in Seq(Seq(C)) /\ more = z \o tt
      BY <1>1, <2>1, <1>s DEF Sequenced
    <3>2. Append(xz, t) = xz \o tt
      <4>. HIDE DEF xz
      <4>. QED
        BY <3>1, <1>s DEF Sequenced
    <3>. HIDE DEF tt
    <3>3. x \o (z \o tt) = xz \o tt
      <4>1. \A s, u, v \in Seq(Seq(C)) : (s \o u) \o v = s \o (u \o v)
        BY <1>s, Zenon DEF Sequenced
      <4>2. (x \o z) \o tt = x \o (z \o tt)
        BY <1>1, <2>1, <3>1, <4>1, Zenon
      <4>. QED
        BY <4>2
    <3>. QED
      BY <3>1, <3>2, <3>3, Zenon
  <2>3. xz # <<>>
    <3>1. Len(xz) = Len(x) + Len(z) /\ Len(x) \in Nat \ {0} /\ Len(z) \in Nat
      BY <1>1, <2>1
    <3>. HIDE DEF xz
    <3>. QED
      BY <3>1
  <2>4. xz \in Parts(C) /\ Join(Append(xz, t), sep) = Join(xz, sep) \o (m \o t)
    <3>. HIDE DEF xz
    <3>1. xz \in Parts(C)
      BY <2>2, <2>3 DEF Parts
    <3>. QED
      BY <3>1, <1>j, Zenon DEF Joins
  <2>5. CASE z = <<>>
    <3>1. Join(more, sep) = t
      BY <2>5, <1>j, Zenon DEF Joins
    <3>2. xz = x
      BY <1>1, <2>5, <1>s DEF Sequenced
    <3>3. Join(x \o more, sep) = a \o (m \o Join(more, sep))
      BY <2>2, <2>4, <3>1, <3>2, Zenon
    <3>. QED
      BY <2>1, <3>3, Zenon
  <2>6. CASE z # <<>>
    <3>1. a \in Seq(C) /\ b \in Seq(C) /\ Join(xz, sep) = a \o (m \o b)
      BY <1>1, <1>2, <2>1, <2>6
    <3>2. Join(more, sep) = b \o (m \o t)
      <4>1. z \in Parts(C)
        BY <2>1, <2>6 DEF Parts
      <4>. QED
        BY <4>1, <1>j, Zenon DEF Joins
    <3>. HIDE DEF a, b, m
    <3>3. (a \o (m \o b)) \o (m \o t) = a \o (m \o (b \o (m \o t)))
      <4>. DEFINE mt == m \o t
                  mb == m \o b
      <4>1. mb \in Seq(C) /\ mt \in Seq(C)
        BY <1>1, <3>1, ConcatProperties
      <4>. HIDE DEF mt
      <4>2. Associated(C, m, b, mt)
        BY <1>1, <3>1, <4>1, Associate
      <4>. HIDE DEF mb
      <4>3. Associated(C, a, mb, mt)
        BY <3>1, <4>1, Associate
      <4>. QED
        BY <4>2, <4>3, Zenon DEF Associated, mt, mb
    <3>4. Join(x \o more, sep) = a \o (m \o Join(more, sep))
      BY <2>2, <2>4, <3>1, <3>2, <3>3, Zenon
    <3>. QED
      BY <2>1, <3>4, Zenon
  <2>. QED
    BY <2>5, <2>6
<1>5. \A z \in Seq(Seq(C)) : z \in G
  <2>1. G \in SUBSET Seq(Seq(C))
    OBVIOUS
  <2>. HIDE DEF G
  <2>. QED
    BY <1>3, <1>4, <2>1, AllSequences
<1>. QED
  BY <1>5 DEF Parts

Joined(x, y, t) ==
    /\ Len(t) = Len(x) + Len(y)
    /\ \A i \in 1 .. Len(x) : t[i] = x[i]
    /\ \A i \in 1 .. Len(y) : t[Len(x) + i] = y[i]

LEMMA ConcatAt ==
    ASSUME NEW S, NEW x \in Seq(S), NEW y \in Seq(S)
    PROVE  /\ x \o y \in Seq(S)
           /\ Joined(x, y, x \o y)
           /\ \A t \in Seq(S) : Joined(x, y, t) => t = x \o y
<1>. DEFINE u == x \o y
<1>1. /\ u \in Seq(S) /\ Len(u) = Len(x) + Len(y)
      /\ \A i \in 1 .. Len(x) + Len(y) : u[i] = IF i <= Len(x) THEN x[i] ELSE y[i - Len(x)]
  BY ConcatProperties
<1>2. Len(x) \in Nat /\ Len(y) \in Nat
  OBVIOUS
<1>. HIDE DEF u
<1>3. \A i \in 1 .. Len(x) : u[i] = x[i]
  BY <1>1, <1>2
<1>4. ASSUME NEW i \in 1 .. Len(y) PROVE u[Len(x) + i] = y[i]
  <2>1. Len(x) + i \in 1 .. Len(x) + Len(y) /\ ~(Len(x) + i <= Len(x)) /\ (Len(x) + i) - Len(x) = i
    BY <1>2
  <2>. QED
    BY <1>1, <2>1
<1>5. ASSUME NEW t \in Seq(S), Joined(x, y, t) PROVE t = u
  <2>1. Len(t) = Len(u)
    BY <1>1, <1>5 DEF Joined
  <2>2. ASSUME NEW i \in 1 .. Len(t) PROVE t[i] = u[i]
    <3>1. CASE i <= Len(x)
      <4>1. i \in 1 .. Len(x)
        BY <1>2, <3>1
      <4>. QED
        BY <1>3, <1>5, <4>1, Zenon DEF Joined
    <3>2. CASE ~(i <= Len(x))
      <4>1. i - Len(x) \in 1 .. Len(y) /\ Len(x) + (i - Len(x)) = i
        BY <1>2, <1>5, <3>2 DEF Joined
      <4>. DEFINE k == i - Len(x)
      <4>2. k \in 1 .. Len(y) /\ Len(x) + k = i
        BY <4>1
      <4>. HIDE DEF k
      <4>3. t[Len(x) + k] = y[k] /\ u[Len(x) + k] = y[k]
        BY <1>4, <1>5, <4>2, Zenon DEF Joined
      <4>. QED
        BY <4>2, <4>3, Zenon
    <3>. QED
      BY <3>1, <3>2
  <2>. QED
    BY <1>1, <2>1, <2>2, SeqEqual
<1>6. Joined(x, y, u)
  BY <1>1, <1>3, <1>4 DEF Joined
<1>. QED
  BY <1>1, <1>5, <1>6 DEF u

LEMMA SplitConcat ==
    ASSUME NEW C, NEW sep \in C, NEW a \in Seq(C)
    PROVE  \A b \in Seq(C) : Split(a \o (<<sep>> \o b), sep) = Split(a, sep) \o Split(b, sep)
<1>. DEFINE m == <<sep>>
            x == Split(a, sep)
            G == {t \in Seq(C) : Split(a \o (m \o t), sep) = x \o Split(t, sep)}
<1>s. Sequenced(C) /\ Sequenced(Seq(C))
  BY SequenceLaws
<1>1. /\ \A t \in Seq(C) : Split(t, sep) \in Seq(Seq(C)) /\ Split(t, sep) # <<>>
      /\ m \in Seq(C) /\ <<>> \in Seq(C) /\ x \in Seq(Seq(C))
  BY <1>s, JoinSplit DEF Parts, Sequenced
<1>2. <<>> \in G
  <2>1. m \o <<>> = m /\ Append(a, sep) = a \o m
    BY <1>1, ConcatEmptySeq, AppendIsConcat
  <2>2. Split(Append(a, sep), sep) = PartsWith(x, sep, sep) /\ Split(<<>>, sep) = <<<<>>>>
    BY SplitAppend
  <2>3. PartsWith(x, sep, sep) = Append(x, <<>>)
    BY Zenon DEF PartsWith
  <2>4. Append(x, <<>>) = x \o <<<<>>>>
    BY <1>s, <1>1, Zenon DEF Sequenced
  <2>. QED
    BY <1>1, <2>1, <2>2, <2>3, <2>4, Zenon
<1>3. ASSUME NEW t \in G, NEW c \in C PROVE Append(t, c) \in G
  <2>. DEFINE y == Split(t, sep)
              u == a \o (m \o t)
  <2>1. /\ t \in Seq(C) /\ Append(t, c) \in Seq(C) /\ <<c>> \in Seq(C) /\ Split(u, sep) = x \o y
        /\ y \in Seq(Seq(C)) /\ y # <<>>
    BY <1>1, <1>s DEF Sequenced
  <2>2. u \in Seq(C) /\ a \o (m \o Append(t, c)) = Append(u, c)
    <3>. DEFINE d == <<c>>
                mt == m \o t
    <3>1. m \in Seq(C) /\ t \in Seq(C) /\ d \in Seq(C)
      BY <1>1, <2>1
    <3>. HIDE DEF m
    <3>. HIDE DEF d
    <3>2. mt \in Seq(C) /\ mt \o d = m \o (t \o d)
      <4>1. Associated(C, m, t, d)
        BY <3>1, Associate
      <4>. QED
        BY <4>1, Zenon DEF Associated
    <3>. HIDE DEF mt
    <3>3. u \in Seq(C) /\ u \o d = a \o (mt \o d)
      <4>1. u = a \o mt
        BY Zenon DEF mt
      <4>2. a \o mt \in Seq(C) /\ (a \o mt) \o d = a \o (mt \o d)
        <5>1. Associated(C, a, mt, d)
          BY <3>1, <3>2, Associate
        <5>. QED
          BY <5>1, Zenon DEF Associated
      <4>. QED
        BY <4>1, <4>2, Zenon
    <3>. HIDE DEF u
    <3>4. Append(t, c) = t \o d /\ Append(u, c) = u \o d
      BY <2>1, <3>3, AppendIsConcat DEF d
    <3>. QED
      BY <3>2, <3>3, <3>4, Zenon
  <2>3. Split(Append(u, c), sep) = PartsWith(Split(u, sep), c, sep) /\ Split(Append(t, c), sep) = PartsWith(y, c, sep)
    <3>. HIDE DEF u, x, y
    <3>1. Split(Append(u, c), sep) = PartsWith(Split(u, sep), c, sep)
      BY <2>2, SplitAppend
    <3>2. Split(Append(t, c), sep) = PartsWith(Split(t, sep), c, sep)
      BY <2>1, SplitAppend
    <3>. QED
      BY <3>1, <3>2, Zenon DEF y
  <2>4. PartsWith(x \o y, c, sep) = x \o PartsWith(y, c, sep)
    <3>. HIDE DEF x, y
    <3>. DEFINE f == Front(y)
                l == Last(y)
    <3>1. \A z \in Seq(Seq(C)), p \in Seq(C) : Append(x \o z, p) = x \o Append(z, p)
      <4>. SUFFICES ASSUME NEW z \in Seq(Seq(C)), NEW p \in Seq(C) PROVE Append(x \o z, p) = x \o Append(z, p)
        OBVIOUS
      <4>. DEFINE pp == <<p>>
                  xz == x \o z
      <4>1. pp \in Seq(Seq(C)) /\ Append(z, p) = z \o pp
        BY AppendIsConcat
      <4>2. xz \in Seq(Seq(C)) /\ xz \o pp = x \o (z \o pp)
        <5>. HIDE DEF pp
        <5>1. Associated(Seq(C), x, z, pp)
          BY <1>1, <4>1, Associate
        <5>. QED
          BY <5>1, Zenon DEF Associated
      <4>3. Append(xz, p) = xz \o pp
        <5>. HIDE DEF xz
        <5>. QED
          BY <4>2, AppendIsConcat
      <4>. QED
        BY <4>1, <4>2, <4>3, Zenon
    <3>2. f \in Seq(Seq(C)) /\ l \in Seq(C) /\ y = Append(f, l)
      BY <2>1, FrontAndLast
    <3>. HIDE DEF f, l
    <3>3. x \o f \in Seq(Seq(C)) /\ x \o y = Append(x \o f, l)
      <4>1. x \o f \in Seq(Seq(C))
        BY <1>1, <3>2, ConcatProperties
      <4>2. x \o Append(f, l) = Append(x \o f, l)
        BY <3>1, <3>2, Zenon
      <4>. QED
        BY <3>2, <4>1, <4>2, Zenon
    <3>4. Front(x \o y) = x \o f /\ Last(x \o y) = l
      <4>. DEFINE xf == x \o f
      <4>1. xf \in Seq(Seq(C))
        BY <3>3
      <4>. HIDE DEF xf
      <4>2. Front(Append(xf, l)) = xf /\ Last(Append(xf, l)) = l
        BY <3>2, <4>1, AppendFrontLast
      <4>. QED
        BY <3>3, <4>2, Zenon DEF xf
    <3>5. Append(l, c) \in Seq(C)
      BY <1>s, <3>2, Zenon DEF Sequenced
    <3>6. CASE c = sep
      BY <1>1, <2>1, <3>1, <3>6, Zenon DEF PartsWith
    <3>7. CASE c # sep
      <4>1. PartsWith(y, c, sep) = Append(f, Append(l, c))
        BY <3>7, Zenon DEF PartsWith, f, l
      <4>2. PartsWith(x \o y, c, sep) = Append(x \o f, Append(l, c))
        BY <3>4, <3>7, Zenon DEF PartsWith
      <4>. QED
        BY <3>1, <3>2, <3>5, <4>1, <4>2, Zenon
    <3>. QED
      BY <3>6, <3>7
  <2>. QED
    BY <2>1, <2>2, <2>3, <2>4, Zenon
<1>4. \A t \in Seq(C) : t \in G
  <2>1. G \in SUBSET Seq(C)
    OBVIOUS
  <2>. HIDE DEF G
  <2>. QED
    BY <1>2, <1>3, <2>1, AllSequences
<1>. QED
  BY <1>4

(* A sequence that begins, or ends, with another.                             *)
LEMMA PrefixIs ==
    ASSUME NEW S, NEW x \in Seq(S), NEW y \in Seq(S)
    PROVE  IsPrefix(x, y) <=> \E z \in Seq(S) : y = x \o z
<1>1. ASSUME IsPrefix(x, y) PROVE \E z \in Seq(S) : y = x \o z
  <2>. DEFINE z == SubSeq(y, Len(x) + 1, Len(y))
  <2>1. Len(x) \in Nat /\ Len(y) \in Nat /\ Len(x) <= Len(y) /\ SubSeq(x, 1, Len(x)) = SubSeq(y, 1, Len(x))
    BY <1>1 DEF IsPrefix
  <2>2. z \in Seq(S) /\ Len(z) = Len(y) - Len(x) /\ \A i \in 1 .. Len(y) - Len(x) : z[i] = y[Len(x) + i]
    BY <2>1
  <2>3. \A i \in 1 .. Len(x) : x[i] = y[i]
    <3>1. \A i \in 1 .. Len(x) : SubSeq(x, 1, Len(x))[i] = x[i]
      BY <2>1
    <3>2. \A i \in 1 .. Len(x) : SubSeq(y, 1, Len(x))[i] = y[i]
      BY <2>1
    <3>. QED
      BY <2>1, <3>1, <3>2, Zenon
  <2>. HIDE DEF z
  <2>4. x \o z \in Seq(S) /\ Len(x \o z) = Len(y)
        /\ \A i \in 1 .. Len(y) : (x \o z)[i] = IF i <= Len(x) THEN x[i] ELSE z[i - Len(x)]
    BY <2>1, <2>2
  <2>5. \A i \in 1 .. Len(y) : (x \o z)[i] = y[i]
    <3>. SUFFICES ASSUME NEW i \in 1 .. Len(y) PROVE (x \o z)[i] = y[i]
      OBVIOUS
    <3>1. CASE i <= Len(x)
      BY <2>1, <2>3, <2>4, <3>1
    <3>2. CASE ~(i <= Len(x))
      <4>1. i - Len(x) \in 1 .. Len(y) - Len(x) /\ Len(x) + (i - Len(x)) = i
        BY <2>1, <3>2
      <4>. QED
        BY <2>2, <2>4, <3>2, <4>1
    <3>. QED
      BY <3>1, <3>2
  <2>6. x \o z = y
    BY <2>4, <2>5, SeqEqual
  <2>. QED
    BY <2>2, <2>6
<1>2. ASSUME NEW z \in Seq(S), y = x \o z PROVE IsPrefix(x, y)
  <2>1. Len(x) \in Nat /\ Len(z) \in Nat /\ Len(y) = Len(x) + Len(z) /\ \A i \in 1 .. Len(x) : y[i] = x[i]
    BY <1>2
  <2>. DEFINE a == SubSeq(x, 1, Len(x))
              b == SubSeq(y, 1, Len(x))
  <2>2. a \in Seq(S) /\ Len(a) = Len(x) /\ \A i \in 1 .. Len(x) : a[i] = x[i]
    BY <2>1
  <2>3. b \in Seq(S) /\ Len(b) = Len(x) /\ \A i \in 1 .. Len(x) : b[i] = y[i]
    <3>1. 1 \in Nat /\ Len(x) <= Len(y)
      BY <2>1
    <3>. QED
      BY <2>1, <3>1
  <2>. HIDE DEF a, b
  <2>4. a = b
    BY <2>1, <2>2, <2>3, SeqEqual
  <2>. QED
    BY <2>1, <2>4 DEF IsPrefix, a, b
<1>. QED
  BY <1>1, <1>2

LEMMA SuffixIs ==
    ASSUME NEW S, NEW x \in Seq(S), NEW y \in Seq(S)
    PROVE  IsSuffix(x, y) <=> \E z \in Seq(S) : y = z \o x
<1>. DEFINE rx == Reverse(x)
            ry == Reverse(y)
<1>0. Len(x) \in Nat /\ Len(y) \in Nat
  OBVIOUS
<1>1. rx \in Seq(S) /\ Len(rx) = Len(x) /\ \A i \in 1 .. Len(x) : rx[i] = x[Len(x) - i + 1]
  <2>1. \A i \in 1 .. Len(x) : Len(x) - i + 1 \in 1 .. Len(x)
    BY <1>0
  <2>2. \A i \in 1 .. Len(x) : x[Len(x) - i + 1] \in S
    BY <1>0, <2>1
  <2>. QED
    BY <1>0, <2>2 DEF Reverse
<1>2. ry \in Seq(S) /\ Len(ry) = Len(y) /\ \A i \in 1 .. Len(y) : ry[i] = y[Len(y) - i + 1]
  <2>1. \A i \in 1 .. Len(y) : Len(y) - i + 1 \in 1 .. Len(y)
    BY <1>0
  <2>2. \A i \in 1 .. Len(y) : y[Len(y) - i + 1] \in S
    BY <1>0, <2>1
  <2>. QED
    BY <1>0, <2>2 DEF Reverse
<1>3. IsSuffix(x, y) <=> \E z \in Seq(S) : ry = rx \o z
  <2>1. IsSuffix(x, y) <=> IsPrefix(rx, ry)
    BY DEF IsSuffix
  <2>. HIDE DEF rx, ry
  <2>. QED
    BY <1>1, <1>2, <2>1, PrefixIs
<1>. HIDE DEF rx, ry
<1>4. ASSUME NEW z \in Seq(S), ry = rx \o z PROVE \E w \in Seq(S) : y = w \o x
  <2>. DEFINE w == SubSeq(y, 1, Len(y) - Len(x))
  <2>1. Len(z) \in Nat /\ Len(y) = Len(x) + Len(z) /\ \A i \in 1 .. Len(x) : ry[i] = rx[i]
    <3>1. Joined(rx, z, rx \o z)
      BY <1>1, ConcatAt
    <3>2. Joined(rx, z, ry)
      BY <1>4, <3>1, Zenon
    <3>3. Len(ry) = Len(rx) + Len(z) /\ \A i \in 1 .. Len(rx) : ry[i] = rx[i]
      BY <3>2, Zenon DEF Joined
    <3>4. Len(z) \in Nat
      OBVIOUS
    <3>. QED
      BY <1>1, <1>2, <3>3, <3>4, Zenon
  <2>2. w \in Seq(S) /\ Len(w) = Len(z) /\ \A i \in 1 .. Len(z) : w[i] = y[i]
    <3>1. Len(y) - Len(x) = Len(z) /\ 1 \in Nat
      BY <1>0, <2>1
    <3>2. \A i \in 1 .. Len(z) : i \in 1 .. Len(y)
      BY <1>0, <2>1
    <3>. QED
      BY <1>0, <2>1, <3>1, <3>2
  <2>. HIDE DEF w
  <2>3. w \o x \in Seq(S) /\ Len(w \o x) = Len(y)
        /\ \A i \in 1 .. Len(y) : (w \o x)[i] = IF i <= Len(z) THEN w[i] ELSE x[i - Len(z)]
    <3>1. /\ w \o x \in Seq(S) /\ Len(w \o x) = Len(w) + Len(x)
          /\ \A i \in 1 .. Len(w) + Len(x) : (w \o x)[i] = IF i <= Len(w) THEN w[i] ELSE x[i - Len(w)]
      BY <2>2, ConcatProperties
    <3>2. Len(w) + Len(x) = Len(y)
      BY <1>0, <2>1, <2>2
    <3>. QED
      BY <2>2, <3>1, <3>2
  <2>4. ASSUME NEW i \in 1 .. Len(y) PROVE (w \o x)[i] = y[i]
    <3>1. CASE i <= Len(z)
      <4>1. i \in 1 .. Len(z)
        BY <1>0, <2>1, <3>1
      <4>. QED
        BY <2>2, <2>3, <3>1, <4>1
    <3>2. CASE ~(i <= Len(z))
      <4>. DEFINE k == Len(y) - i + 1
      <4>1. k \in 1 .. Len(x) /\ Len(x) - k + 1 = i - Len(z) /\ Len(y) - k + 1 = i /\ k \in 1 .. Len(y)
        BY <1>0, <2>1, <3>2
      <4>. HIDE DEF k
      <4>2. rx[k] = x[i - Len(z)]
        BY <1>1, <4>1
      <4>3. ry[k] = y[i]
        BY <1>2, <4>1
      <4>. QED
        BY <2>1, <2>3, <3>2, <4>1, <4>2, <4>3
    <3>. QED
      BY <3>1, <3>2
  <2>5. w \o x = y
    BY <2>3, <2>4, SeqEqual
  <2>. QED
    BY <2>2, <2>5
<1>5. ASSUME NEW w \in Seq(S), y = w \o x PROVE \E z \in Seq(S) : ry = rx \o z
  <2>1. Len(w) \in Nat /\ Len(y) = Len(w) + Len(x) /\ \A i \in 1 .. Len(x) : y[Len(w) + i] = x[i]
    BY <1>0, <1>5, ConcatProperties
  <2>2. IsPrefix(rx, ry)
    <3>1. \A i \in 1 .. Len(x) : rx[i] = ry[i]
      <4>. SUFFICES ASSUME NEW i \in 1 .. Len(x) PROVE rx[i] = ry[i]
        OBVIOUS
      <4>. DEFINE k == Len(x) - i + 1
      <4>1. k \in 1 .. Len(x) /\ Len(x) - i + 1 = k /\ Len(y) - i + 1 = Len(w) + k /\ i \in 1 .. Len(y)
        BY <1>0, <2>1
      <4>. HIDE DEF k
      <4>. QED
        BY <1>1, <1>2, <2>1, <4>1
    <3>. DEFINE a == SubSeq(rx, 1, Len(rx))
                b == SubSeq(ry, 1, Len(rx))
    <3>2. a \in Seq(S) /\ Len(a) = Len(x) /\ \A i \in 1 .. Len(x) : a[i] = rx[i]
      BY <1>0, <1>1
    <3>3. b \in Seq(S) /\ Len(b) = Len(x) /\ \A i \in 1 .. Len(x) : b[i] = ry[i]
      <4>1. 1 \in Nat /\ Len(x) <= Len(y) /\ \A i \in 1 .. Len(x) : i \in 1 .. Len(y)
        BY <1>0, <2>1
      <4>. QED
        BY <1>0, <1>1, <1>2, <4>1
    <3>. HIDE DEF a, b
    <3>4. a = b
      <4>1. Len(a) = Len(b) /\ \A i \in 1 .. Len(a) : a[i] = b[i]
        BY <3>1, <3>2, <3>3
      <4>. QED
        BY <3>2, <3>3, <4>1, SeqEqual
    <3>5. Len(rx) <= Len(ry)
      BY <1>0, <1>1, <1>2, <2>1
    <3>. QED
      BY <3>4, <3>5 DEF IsPrefix, a, b
  <2>. QED
    BY <1>1, <1>2, <2>2, PrefixIs
<1>. QED
  BY <1>3, <1>4, <1>5

(* Before, and after, a mark.                                                 *)
GoesBeyond(C, a, sep, b) == b = a \/ \E d \in Seq(C) : b = a \o (<<sep>> \o d)
EndsBelow(C, a, sep, b)  == b = a \/ \E d \in Seq(C) : b = d \o (<<sep>> \o a)

LEMMA PrefixOfParts ==
    ASSUME NEW C, NEW sep \in C, NEW a \in Seq(C), NEW b \in Seq(C)
    PROVE  IsPrefix(Split(a, sep), Split(b, sep)) <=> GoesBeyond(C, a, sep, b)
<1>. DEFINE x == Split(a, sep)
            y == Split(b, sep)
<1>1. x \in Parts(C) /\ y \in Parts(C) /\ Join(x, sep) = a /\ Join(y, sep) = b
  BY JoinSplit
<1>2. x \in Seq(Seq(C)) /\ y \in Seq(Seq(C))
  BY <1>1 DEF Parts
<1>3. IsPrefix(x, y) <=> \E z \in Seq(Seq(C)) : y = x \o z
  <2>. HIDE DEF x, y
  <2>. QED
    BY <1>2, PrefixIs
<1>4. Sequenced(Seq(C))
  BY SequenceLaws
<1>5. ASSUME NEW z \in Seq(Seq(C)), y = x \o z PROVE b = a \/ \E d \in Seq(C) : b = a \o (<<sep>> \o d)
  <2>1. CASE z = <<>>
    <3>1. y = x
      <4>. HIDE DEF x, y
      <4>. QED
        BY <1>2, <1>4, <1>5, <2>1, Zenon DEF Sequenced
    <3>. QED
      BY <1>1, <3>1, Zenon
  <2>2. CASE z # <<>>
    <3>1. z \in Parts(C)
      BY <2>2 DEF Parts
    <3>2. Join(x \o z, sep) = Join(x, sep) \o (<<sep>> \o Join(z, sep))
      <4>. HIDE DEF x
      <4>. QED
        BY <1>1, <3>1, JoinConcat
    <3>3. Join(z, sep) \in Seq(C)
      BY JoinLaws DEF Joins
    <3>4. b = a \o (<<sep>> \o Join(z, sep))
      BY <1>1, <1>5, <3>2, Zenon
    <3>. QED
      BY <3>3, <3>4, Zenon
  <2>. QED
    BY <2>1, <2>2
<1>6. ASSUME b = a PROVE \E z \in Seq(Seq(C)) : y = x \o z
  <2>1. x \o <<>> = x /\ <<>> \in Seq(Seq(C))
    BY <1>2, <1>4, Zenon DEF Sequenced
  <2>. QED
    BY <1>6, <2>1, Zenon
<1>7. ASSUME NEW d \in Seq(C), b = a \o (<<sep>> \o d) PROVE \E z \in Seq(Seq(C)) : y = x \o z
  <2>1. Split(a \o (<<sep>> \o d), sep) = Split(a, sep) \o Split(d, sep)
    BY SplitConcat
  <2>2. Split(d, sep) \in Seq(Seq(C))
    BY JoinSplit DEF Parts
  <2>. QED
    BY <1>7, <2>1, <2>2, Zenon
<1>. HIDE DEF x, y
<1>8. IsPrefix(x, y) <=> GoesBeyond(C, a, sep, b)
  BY <1>3, <1>5, <1>6, <1>7, Zenon DEF GoesBeyond
<1>. QED
  BY <1>8 DEF x, y

LEMMA SuffixOfParts ==
    ASSUME NEW C, NEW sep \in C, NEW a \in Seq(C), NEW b \in Seq(C)
    PROVE  IsSuffix(Split(a, sep), Split(b, sep)) <=> EndsBelow(C, a, sep, b)
<1>. DEFINE x == Split(a, sep)
            y == Split(b, sep)
<1>1. x \in Parts(C) /\ y \in Parts(C) /\ Join(x, sep) = a /\ Join(y, sep) = b
  BY JoinSplit
<1>2. x \in Seq(Seq(C)) /\ y \in Seq(Seq(C))
  BY <1>1 DEF Parts
<1>3. IsSuffix(x, y) <=> \E z \in Seq(Seq(C)) : y = z \o x
  <2>. HIDE DEF x, y
  <2>. QED
    BY <1>2, SuffixIs
<1>4. Sequenced(Seq(C))
  BY SequenceLaws
<1>5. ASSUME NEW z \in Seq(Seq(C)), y = z \o x PROVE b = a \/ \E d \in Seq(C) : b = d \o (<<sep>> \o a)
  <2>1. CASE z = <<>>
    <3>1. y = x
      <4>. HIDE DEF x, y
      <4>. QED
        BY <1>2, <1>4, <1>5, <2>1, Zenon DEF Sequenced
    <3>. QED
      BY <1>1, <3>1, Zenon
  <2>2. CASE z # <<>>
    <3>1. z \in Parts(C)
      BY <2>2 DEF Parts
    <3>2. Join(z \o x, sep) = Join(z, sep) \o (<<sep>> \o Join(x, sep))
      <4>. HIDE DEF x
      <4>. QED
        BY <1>1, <3>1, JoinConcat
    <3>3. Join(z, sep) \in Seq(C)
      BY JoinLaws DEF Joins
    <3>4. b = Join(z, sep) \o (<<sep>> \o a)
      BY <1>1, <1>5, <3>2, Zenon
    <3>. QED
      BY <3>3, <3>4, Zenon
  <2>. QED
    BY <2>1, <2>2
<1>6. ASSUME b = a PROVE \E z \in Seq(Seq(C)) : y = z \o x
  <2>1. <<>> \o x = x /\ <<>> \in Seq(Seq(C))
    BY <1>2, <1>4, Zenon DEF Sequenced
  <2>. QED
    BY <1>6, <2>1, Zenon
<1>7. ASSUME NEW d \in Seq(C), b = d \o (<<sep>> \o a) PROVE \E z \in Seq(Seq(C)) : y = z \o x
  <2>1. Split(d \o (<<sep>> \o a), sep) = Split(d, sep) \o Split(a, sep)
    BY SplitConcat
  <2>2. Split(d, sep) \in Seq(Seq(C))
    BY JoinSplit DEF Parts
  <2>. QED
    BY <1>7, <2>1, <2>2, Zenon
<1>. HIDE DEF x, y
<1>8. IsSuffix(x, y) <=> EndsBelow(C, a, sep, b)
  BY <1>3, <1>5, <1>6, <1>7, Zenon DEF EndsBelow
<1>. QED
  BY <1>8 DEF x, y

LEMMA HostIsBelow ==
    ASSUME NEW C, "." \in C, NEW p \in Seq(C), NEW host \in Seq(C)
    PROVE  hostMatches(p, host) <=> EndsBelow(C, p, ".", host)
<1>. DEFINE m == <<".">>
<1>0. m \in Seq(C) /\ Len(m) = 1 /\ m[1] = "." /\ Len(p) \in Nat /\ Len(host) \in Nat
  OBVIOUS
<1>. HIDE DEF m
<1>1. /\ \A s, u \in Seq(C) : s \o u \in Seq(C)
      /\ \A s, u, v \in Seq(C) : (s \o u) \o v = s \o (u \o v)
      /\ \A s \in Seq(C), x \in C : Append(s, x) = s \o <<x>>
  <2>1. Sequenced(C)
    BY SequenceLaws
  <2>. QED
    BY <2>1, Zenon DEF Sequenced
<1>2. ASSUME Len(host) > Len(p), IsSuffix(p, host), host[Len(host) - Len(p)] = "."
      PROVE  \E d \in Seq(C) : host = d \o (m \o p)
  <2>1. PICK z \in Seq(C) : host = z \o p
    BY <1>2, SuffixIs
  <2>2. /\ Len(z) \in Nat /\ Len(host) = Len(z) + Len(p)
        /\ \A i \in 1 .. Len(z) + Len(p) : host[i] = IF i <= Len(z) THEN z[i] ELSE p[i - Len(z)]
    BY <2>1, ConcatProperties
  <2>3. /\ Len(z) # 0 /\ Len(host) - Len(p) = Len(z) /\ Len(z) \in 1 .. Len(z) + Len(p) /\ Len(z) <= Len(z)
    BY <1>0, <1>2, <2>2
  <2>4. z[Len(z)] = "." /\ z # <<>>
    BY <1>2, <2>2, <2>3
  <2>. DEFINE d == Front(z)
  <2>5. d \in Seq(C) /\ z = Append(d, ".")
    BY <2>4, FrontAndLast
  <2>. HIDE DEF d
  <2>6. z = d \o m
    BY <1>1, <2>5, Zenon DEF m
  <2>7. (d \o m) \o p = d \o (m \o p)
    <3>1. Associated(C, d, m, p)
      BY <1>0, <2>5, Associate
    <3>. QED
      BY <3>1, Zenon DEF Associated
  <2>. QED
    BY <2>1, <2>5, <2>6, <2>7, Zenon
<1>3. ASSUME NEW d \in Seq(C), host = d \o (m \o p)
      PROVE  Len(host) > Len(p) /\ IsSuffix(p, host) /\ host[Len(host) - Len(p)] = "."
  <2>. DEFINE t == d \o m
  <2>1. t \in Seq(C) /\ (d \o m) \o p = d \o (m \o p)
    BY <1>0, <1>1, Zenon
  <2>2. Len(t) = Len(d) + 1 /\ Len(d) \in Nat /\ t[Len(d) + 1] = "."
    <3>1. /\ Len(d \o m) = Len(d) + Len(m)
          /\ \A i \in 1 .. Len(d) + Len(m) : (d \o m)[i] = IF i <= Len(d) THEN d[i] ELSE m[i - Len(d)]
      BY <1>0, ConcatProperties
    <3>2. Len(d) \in Nat /\ Len(d) + 1 \in 1 .. Len(d) + Len(m) /\ (Len(d) + 1) - Len(d) = 1 /\ ~(Len(d) + 1 <= Len(d))
      BY <1>0
    <3>. QED
      BY <1>0, <3>1, <3>2
  <2>3. host = t \o p
    BY <1>3, <2>1, Zenon
  <2>. HIDE DEF t
  <2>4. IsSuffix(p, host)
    BY <2>1, <2>3, SuffixIs
  <2>5. /\ Len(host) = Len(t) + Len(p)
        /\ \A i \in 1 .. Len(t) + Len(p) : host[i] = IF i <= Len(t) THEN t[i] ELSE p[i - Len(t)]
    BY <2>1, <2>3, ConcatProperties
  <2>6. /\ Len(host) - Len(p) = Len(d) + 1 /\ Len(d) + 1 \in 1 .. Len(t) + Len(p) /\ Len(d) + 1 <= Len(t)
        /\ Len(host) > Len(p)
    BY <1>0, <2>2, <2>5
  <2>. QED
    BY <2>2, <2>4, <2>5, <2>6
<1>4. hostMatches(p, host) <=> (host = p \/ \E d \in Seq(C) : host = d \o (m \o p))
  BY <1>2, <1>3 DEF hostMatches
<1>. QED
  BY <1>4, Zenon DEF EndsBelow, m

LEMMA HostsByLabel ==
    ASSUME NEW C, "." \in C, NEW p \in Seq(C), NEW host \in Seq(C)
    PROVE  hostMatches(p, host) <=> IsSuffix(Labels(p), Labels(host))
<1>1. PICK sep \in C : sep = "."
  OBVIOUS
<1>2. IsSuffix(Split(p, sep), Split(host, sep)) <=> EndsBelow(C, p, sep, host)
  BY SuffixOfParts
<1>3. hostMatches(p, host) <=> EndsBelow(C, p, ".", host)
  BY HostIsBelow
<1>. QED
  BY <1>1, <1>2, <1>3, Zenon DEF Labels

(* Where a pattern matches from.                                              *)
Matches(f, p, s) ==
    \A k \in 1 .. Len(p) + 1 : f[k] = MatchFrom(p, s, k, f)

Matching(f, p, s) ==
    f = [k \in 1 .. Len(p) + 1 |-> MatchFrom(p, s, k, f)]

LEMMA MatchDepends ==
    ASSUME NEW P, NEW p \in Seq(P), NEW s, NEW k \in 1 .. Len(p) + 1, NEW f, NEW g,
           \A i \in k + 1 .. Len(p) + 1 : f[i] = g[i]
    PROVE  MatchFrom(p, s, k, f) = MatchFrom(p, s, k, g)
<1>0. Len(p) \in Nat /\ k \in Nat
  OBVIOUS
<1>1. CASE k > Len(p)
  BY <1>1 DEF MatchFrom
<1>2. CASE ~(k > Len(p))
  <2>1. f[k + 1] = g[k + 1]
    <3>1. k + 1 \in k + 1 .. Len(p) + 1
      BY <1>0, <1>2
    <3>. QED
      BY <3>1
  <2>2. ~(k + 2 > Len(p)) => f[k + 3] = g[k + 3]
    <3>1. ~(k + 2 > Len(p)) => k + 3 \in k + 1 .. Len(p) + 1
      BY <1>0
    <3>. QED
      BY <3>1
  <2>. QED
    BY <1>2, <2>1, <2>2, Zenon DEF MatchFrom
<1>. QED
  BY <1>1, <1>2

LEMMA MatchesExist ==
    ASSUME NEW P, NEW p \in Seq(P), NEW s
    PROVE  \E f : Matching(f, p, s)
<1>. DEFINE N == Len(p) + 1
            Fits(f, m) == \A k \in m .. N : f[k] = MatchFrom(p, s, k, f)
            Possible(m) == \E f : f = [k \in 1 .. N |-> f[k]] /\ Fits(f, m)
            Without == {n \in 0 .. N - 1 : ~Possible(N - n)}
<1>0. Len(p) \in Nat /\ N \in Nat \ {0}
  OBVIOUS
<1>. HIDE DEF N
<1>1. Possible(N)
  <2>. DEFINE f == [k \in 1 .. N |-> MatchFrom(p, s, N, <<>>)]
  <2>1. \A k \in N .. N : k = N /\ k \in 1 .. N
    BY <1>0
  <2>2. MatchFrom(p, s, N, <<>>) = MatchFrom(p, s, N, f)
    <3>. HIDE DEF f
    <3>1. N \in 1 .. Len(p) + 1 /\ \A i \in N + 1 .. Len(p) + 1 : <<>>[i] = f[i]
      BY <1>0 DEF N
    <3>. QED
      BY <3>1, MatchDepends
  <2>3. f = [k \in 1 .. N |-> f[k]]
    OBVIOUS
  <2>4. Fits(f, N)
    <3>. SUFFICES ASSUME NEW k \in N .. N PROVE f[k] = MatchFrom(p, s, k, f)
      OBVIOUS
    <3>1. k = N /\ k \in 1 .. N
      BY <2>1
    <3>2. f[N] = MatchFrom(p, s, N, <<>>)
      BY <3>1
    <3>. QED
      BY <2>2, <3>1, <3>2, Zenon
  <2>. HIDE DEF f, Fits
  <2>. QED
    BY <2>3, <2>4, Zenon
<1>2. ASSUME NEW m \in 1 .. N - 1, Possible(m + 1) PROVE Possible(m)
  <2>1. PICK f : f = [k \in 1 .. N |-> f[k]] /\ Fits(f, m + 1)
    BY <1>2
  <2>. DEFINE v == MatchFrom(p, s, m, f)
              g == [k \in 1 .. N |-> IF k = m THEN v ELSE f[k]]
  <2>2. \A k \in 1 .. N : k # m => g[k] = f[k]
    OBVIOUS
  <2>3. g[m] = v
    BY <1>0
  <2>4. g = [k \in 1 .. N |-> g[k]]
    OBVIOUS
  <2>. HIDE DEF g
  <2>5. Fits(g, m)
    <3>. SUFFICES ASSUME NEW k \in m .. N PROVE g[k] = MatchFrom(p, s, k, g)
      OBVIOUS
    <3>1. MatchFrom(p, s, k, f) = MatchFrom(p, s, k, g)
      <4>1. k \in 1 .. Len(p) + 1 /\ \A i \in k + 1 .. Len(p) + 1 : i \in 1 .. N /\ i # m
        BY <1>0 DEF N
      <4>2. \A i \in k + 1 .. Len(p) + 1 : f[i] = g[i]
        BY <2>2, <4>1
      <4>. QED
        BY <4>1, <4>2, MatchDepends
    <3>2. CASE k = m
      BY <2>3, <3>1, <3>2, Zenon
    <3>3. CASE k # m
      <4>1. k \in m + 1 .. N /\ k \in 1 .. N
        BY <1>0, <3>3
      <4>2. f[k] = MatchFrom(p, s, k, f)
        BY <2>1, <4>1, Zenon
      <4>. QED
        BY <2>2, <3>1, <3>3, <4>1, <4>2, Zenon
    <3>. QED
      BY <3>2, <3>3
  <2>. HIDE DEF Fits
  <2>. QED
    BY <2>4, <2>5, Zenon
<1>3. Possible(1)
  <2>. HIDE DEF Possible
  <2>. SUFFICES ASSUME Without # {} PROVE FALSE
    <3>1. N - 1 \in 0 .. N - 1 /\ N - (N - 1) = 1
      BY <1>0
    <3>. QED
      BY <3>1
  <2>1. PICK n \in Without : \A k \in Without : n <= k
    <3>1. Without \in SUBSET Nat
      BY <1>0
    <3>. QED
      BY <3>1, LeastThereIs
  <2>2. n \in 0 .. N - 1 /\ ~Possible(N - n)
    BY <2>1
  <2>3. n # 0
    BY <1>0, <1>1, <2>2
  <2>4. n - 1 \in 0 .. N - 1 /\ N - (n - 1) = (N - n) + 1 /\ N - n \in 1 .. N - 1
    BY <1>0, <2>2, <2>3
  <2>5. Possible(N - (n - 1))
    <3>1. ~(n <= n - 1)
      BY <1>0, <2>2
    <3>2. n - 1 \notin Without
      BY <2>1, <3>1, Zenon
    <3>. QED
      BY <2>4, <3>2, Zenon
  <2>6. Possible((N - n) + 1)
    BY <2>4, <2>5
  <2>. QED
    BY <1>2, <2>2, <2>4, <2>6
<1>4. PICK f : f = [k \in 1 .. N |-> f[k]] /\ Fits(f, 1)
  BY <1>3
<1>5. [k \in 1 .. N |-> f[k]] = [k \in 1 .. N |-> MatchFrom(p, s, k, f)]
  BY <1>4, Zenon
<1>6. f = [k \in 1 .. Len(p) + 1 |-> MatchFrom(p, s, k, f)]
  BY <1>4, <1>5, Zenon DEF N
<1>. QED
  BY <1>6, Zenon DEF Matching

LEMMA MatchesAre ==
    ASSUME NEW P, NEW p \in Seq(P), NEW s
    PROVE  \E f : Matches(f, p, s) /\ (isMatch(p, s) <=> 1 \in f[1])
<1>. DEFINE from == CHOOSE h : h = [k \in 1 .. Len(p) + 1 |-> MatchFrom(p, s, k, h)]
<1>1. from = [k \in 1 .. Len(p) + 1 |-> MatchFrom(p, s, k, from)]
  <2>1. \E h : Matching(h, p, s)
    BY MatchesExist
  <2>2. \E h : h = [k \in 1 .. Len(p) + 1 |-> MatchFrom(p, s, k, h)]
    BY <2>1, Zenon DEF Matching
  <2>. QED
    BY <2>2, Zenon
<1>2. isMatch(p, s) <=> 1 \in from[1]
  BY Zenon DEF isMatch
<1>. HIDE DEF from
<1>3. Matches(from, p, s)
  BY <1>1, Zenon DEF Matches
<1>. QED
  BY <1>2, <1>3, Zenon

StarFree(q) == \A l \in 1 .. Len(q) : q[l] # "*"

LEMMA ExactFrom ==
    ASSUME NEW P, NEW q \in Seq(P), NEW w \in Seq(P), StarFree(q), w = <<>> \/ w[1] # "*",
           NEW S, NEW s \in Seq(S), NEW f, Matches(f, q \o w, s)
    PROVE  1 \in f[1] <=> (/\ Len(q) <= Len(s) /\ \A l \in 1 .. Len(q) : s[l] = q[l]
                           /\ Len(q) + 1 \in f[Len(q) + 1])
<1>. DEFINE p == q \o w
<1>0. Len(q) \in Nat /\ Len(s) \in Nat /\ Len(w) \in Nat /\ DOMAIN s = 1 .. Len(s) /\ (w # <<>> <=> Len(w) # 0)
  OBVIOUS
<1>1. /\ p \in Seq(P) /\ Len(p) = Len(q) + Len(w)
      /\ \A i \in 1 .. Len(q) + Len(w) : p[i] = IF i <= Len(q) THEN q[i] ELSE w[i - Len(q)]
  BY ConcatProperties
<1>2. Matches(f, p, s)
  OBVIOUS
<1>. HIDE DEF p
<1>3. \A i \in 1 .. Len(p) : i <= Len(q) + 1 => p[i] # "*"
  <2>. SUFFICES ASSUME NEW i \in 1 .. Len(p), i <= Len(q) + 1 PROVE p[i] # "*"
    OBVIOUS
  <2>1. CASE i <= Len(q)
    <3>1. i \in 1 .. Len(q) /\ p[i] = q[i]
      BY <1>0, <1>1, <2>1
    <3>. QED
      BY <3>1 DEF StarFree
  <2>2. CASE ~(i <= Len(q))
    <3>1. i = Len(q) + 1 /\ i - Len(q) = 1 /\ w # <<>> /\ p[i] = w[1]
      BY <1>0, <1>1, <2>2
    <3>. QED
      BY <3>1
  <2>. QED
    BY <2>1, <2>2
<1>4. ASSUME NEW k \in 1 .. Len(q)
      PROVE  f[k] = {j \in 1 .. Len(s) : s[j] = q[k] /\ j + 1 \in f[k + 1]}
  <2>1. k \in 1 .. Len(p) + 1 /\ ~(k > Len(p)) /\ k \in 1 .. Len(p) /\ k <= Len(q) + 1 /\ k <= Len(q)
    BY <1>0, <1>1
  <2>2. f[k] = MatchFrom(p, s, k, f) /\ p[k] # "*" /\ p[k] = q[k]
    BY <1>0, <1>1, <1>2, <1>3, <2>1 DEF Matches
  <2>3. ~IsDoubleStar(p, k)
    BY <2>2, Zenon DEF IsDoubleStar
  <2>4. ~IsDoubleStar(p, k + 1)
    <3>. SUFFICES ASSUME IsDoubleStar(p, k + 1) PROVE FALSE
      OBVIOUS
    <3>1. k + 1 < Len(p) /\ p[k + 1] = "*"
      BY Zenon DEF IsDoubleStar
    <3>2. k + 1 \in 1 .. Len(p) /\ k + 1 <= Len(q) + 1
      BY <1>0, <1>1, <3>1
    <3>. QED
      BY <1>3, <3>1, <3>2
  <2>5. f[k] = {j \in DOMAIN s : s[j] = p[k] /\ j + 1 \in f[k + 1]} \union {j \in {Len(s) + 1} : FALSE}
    BY <2>1, <2>2, <2>3, <2>4, Zenon DEF MatchFrom
  <2>6. {j \in {Len(s) + 1} : FALSE} = {}
    OBVIOUS
  <2>. QED
    BY <1>0, <2>2, <2>5, <2>6
<1>. DEFINE Agrees(i) == 1 \in f[1] <=> (i <= Len(s) /\ (\A l \in 1 .. i : s[l] = q[l]) /\ i + 1 \in f[i + 1])
            Not == {i \in 0 .. Len(q) : ~Agrees(i)}
<1>5. Agrees(0)
  <2>1. 0 <= Len(s) /\ 1 .. 0 = {} /\ 0 + 1 = 1
    BY <1>0
  <2>. QED
    BY <2>1
<1>6. ASSUME NEW i \in 1 .. Len(q), Agrees(i - 1) PROVE Agrees(i)
  <2>1. i - 1 + 1 = i /\ i \in Nat /\ (i <= Len(s) => i - 1 <= Len(s)) /\ (i \in 1 .. Len(s) <=> i <= Len(s))
    BY <1>0
  <2>2. i \in f[i] <=> (i \in 1 .. Len(s) /\ s[i] = q[i] /\ i + 1 \in f[i + 1])
    BY <1>4
  <2>3. (\A l \in 1 .. i : s[l] = q[l]) <=> ((\A l \in 1 .. i - 1 : s[l] = q[l]) /\ s[i] = q[i])
    <3>1. \A l \in 1 .. i : l = i \/ l \in 1 .. i - 1
      BY <2>1
    <3>2. i \in 1 .. i /\ \A l \in 1 .. i - 1 : l \in 1 .. i
      BY <2>1
    <3>. QED
      BY <3>1, <3>2
  <2>4. 1 \in f[1] <=> (i - 1 <= Len(s) /\ (\A l \in 1 .. i - 1 : s[l] = q[l]) /\ i \in f[i])
    BY <1>6, <2>1
  <2>. QED
    BY <2>1, <2>2, <2>3, <2>4, Zenon
<1>7. Agrees(Len(q))
  <2>. HIDE DEF Agrees
  <2>. SUFFICES ASSUME Not # {} PROVE FALSE
    BY <1>0
  <2>1. PICK m \in Not : \A k \in Not : m <= k
    <3>1. Not \in SUBSET Nat
      BY <1>0
    <3>. QED
      BY <3>1, LeastThereIs
  <2>2. m \in 0 .. Len(q) /\ ~Agrees(m)
    BY <2>1
  <2>3. m # 0
    BY <1>5, <2>2
  <2>4. m \in 1 .. Len(q) /\ m - 1 \in 0 .. Len(q) /\ ~(m <= m - 1)
    BY <1>0, <2>2, <2>3
  <2>5. Agrees(m - 1)
    BY <2>1, <2>4, Zenon
  <2>. QED
    BY <1>6, <2>2, <2>4, <2>5, Zenon
<1>. QED
  BY <1>7

LEMMA ExactMatch ==
    ASSUME NEW C, NEW q \in Seq(C), StarFree(q), NEW s \in Seq(C)
    PROVE  isMatch(q, s) <=> s = q
<1>1. PICK f : Matches(f, q, s) /\ (isMatch(q, s) <=> 1 \in f[1])
  BY MatchesAre
<1>2. Sequenced(C)
  BY SequenceLaws
<1>3. <<>> \in Seq(C) /\ q \o <<>> = q
  BY <1>2, Zenon DEF Sequenced
<1>4. 1 \in f[1] <=> (/\ Len(q) <= Len(s) /\ \A l \in 1 .. Len(q) : s[l] = q[l]
                      /\ Len(q) + 1 \in f[Len(q) + 1])
  <2>. DEFINE w == <<>>
  <2>1. w \in Seq(C) /\ (w = <<>> \/ w[1] # "*") /\ Matches(f, q \o w, s)
    BY <1>1, <1>3, Zenon
  <2>. HIDE DEF w
  <2>. QED
    BY <2>1, ExactFrom
<1>5. Len(q) \in Nat /\ Len(s) \in Nat /\ Len(q) + 1 > Len(q) /\ Len(q) + 1 \in 1 .. Len(q) + 1
  OBVIOUS
<1>6. f[Len(q) + 1] = {Len(s) + 1}
  BY <1>1, <1>5, Zenon DEF Matches, MatchFrom
<1>7. Len(q) + 1 \in f[Len(q) + 1] <=> Len(q) = Len(s)
  BY <1>5, <1>6
<1>8. ASSUME Len(q) = Len(s), \A l \in 1 .. Len(q) : s[l] = q[l] PROVE s = q
  BY <1>8, SeqEqual
<1>. QED
  BY <1>1, <1>4, <1>5, <1>7, <1>8

AnyBelow == <<"/", "*", "*">>

(* From where on "/**" matches.                                               *)
LEMMA AnyBelowFrom ==
    ASSUME NEW p, NEW n \in Nat, Len(p) = n + 3, p[n + 1] = "/", p[n + 2] = "*", p[n + 3] = "*",
           NEW S, NEW s \in Seq(S), NEW f, Matches(f, p, s)
    PROVE  f[n + 1] = {j \in 1 .. Len(s) : s[j] = "/"} \union {Len(s) + 1}
<1>. DEFINE end == Len(s) + 1
<1>0. Len(s) \in Nat /\ DOMAIN s = 1 .. Len(s) /\ end \in Nat
  OBVIOUS
<1>1. IsDoubleStar(p, n + 2)
  <2>1. n + 2 - 1 = n + 1 /\ n + 2 < Len(p) /\ n + 2 + 1 = n + 3 /\ n + 2 + 2 > Len(p)
    OBVIOUS
  <2>2. AtSegment(p, n + 2)
    BY <2>1 DEF AtSegment
  <2>. QED
    BY <2>1, <2>2 DEF IsDoubleStar
<1>2. f[n + 2] = 1 .. end
  <2>1. n + 2 \in 1 .. Len(p) + 1 /\ ~(n + 2 > Len(p)) /\ n + 2 + 2 > Len(p)
    OBVIOUS
  <2>2. f[n + 2] = {j \in 1 .. end : \E i \in {end} : j <= i}
    BY <1>1, <2>1, Zenon DEF Matches, MatchFrom
  <2>3. \A j \in 1 .. end : j <= end
    BY <1>0
  <2>. QED
    BY <2>2, <2>3
<1>3. ~IsDoubleStar(p, n + 1) /\ p[n + 1] # "*"
  BY DEF IsDoubleStar
<1>4. f[n + 1] = {j \in DOMAIN s : s[j] = "/" /\ j + 1 \in f[n + 1 + 1]} \union {j \in {end} : TRUE}
  <2>1. n + 1 \in 1 .. Len(p) + 1 /\ ~(n + 1 > Len(p)) /\ n + 1 + 2 = Len(p) /\ n + 1 + 1 = n + 2
    OBVIOUS
  <2>2. IsDoubleStar(p, n + 1 + 1)
    BY <1>1, <2>1, Zenon
  <2>3. f[n + 1] = MatchFrom(p, s, n + 1, f)
    BY <2>1 DEF Matches
  <2>4. f[n + 1] = {j \in DOMAIN s : s[j] = p[n + 1] /\ j + 1 \in f[n + 1 + 1]}
                   \union {j \in {end} : p[n + 1] = "/" /\ n + 1 + 2 = Len(p) /\ IsDoubleStar(p, n + 1 + 1)}
    BY <1>3, <2>1, <2>3, Zenon DEF MatchFrom
  <2>. HIDE DEF end
  <2>5. (p[n + 1] = "/" /\ n + 1 + 2 = Len(p) /\ IsDoubleStar(p, n + 1 + 1)) <=> TRUE
    BY <2>1, <2>2
  <2>6. {j \in {end} : p[n + 1] = "/" /\ n + 1 + 2 = Len(p) /\ IsDoubleStar(p, n + 1 + 1)} = {j \in {end} : TRUE}
    BY <2>5, Zenon
  <2>. QED
    BY <2>4, <2>6, Zenon
<1>5. \A j \in 1 .. Len(s) : j + 1 \in f[n + 1 + 1]
  <2>1. n + 1 + 1 = n + 2 /\ \A j \in 1 .. Len(s) : j + 1 \in 1 .. end
    BY <1>0
  <2>. QED
    BY <1>2, <2>1
<1>. QED
  BY <1>0, <1>4, <1>5

LEMMA BelowAt ==
    ASSUME NEW C, NEW sep \in C, NEW q \in Seq(C), NEW s \in Seq(C)
    PROVE  GoesBeyond(C, q, sep, s)
           <=> (s = q \/ (/\ Len(q) < Len(s) /\ s[Len(q) + 1] = sep
                          /\ \A l \in 1 .. Len(q) : s[l] = q[l]))
<1>. DEFINE m == <<sep>>
<1>0. Len(q) \in Nat /\ Len(s) \in Nat /\ m \in Seq(C) /\ Len(m) = 1 /\ m[1] = sep
  OBVIOUS
<1>. HIDE DEF m
<1>1. ASSUME NEW d \in Seq(C), s = q \o (m \o d)
      PROVE  Len(q) < Len(s) /\ s[Len(q) + 1] = sep /\ \A l \in 1 .. Len(q) : s[l] = q[l]
  <2>. DEFINE md == m \o d
  <2>1. md \in Seq(C) /\ Joined(m, d, md)
    BY <1>0, ConcatAt
  <2>. HIDE DEF md
  <2>2. Joined(q, md, s)
    <3>1. Joined(q, md, q \o md)
      BY <2>1, ConcatAt
    <3>2. s = q \o md
      BY <1>1, Zenon DEF md
    <3>. QED
      BY <3>1, <3>2, Zenon
  <2>3. Len(d) \in Nat /\ Len(md) = 1 + Len(d) /\ md[1] = sep
    <3>1. 1 \in 1 .. Len(m)
      BY <1>0
    <3>2. Len(md) = Len(m) + Len(d) /\ md[1] = m[1]
      BY <2>1, <3>1, Zenon DEF Joined
    <3>. QED
      BY <1>0, <3>2
  <2>4. Len(s) = Len(q) + Len(md) /\ s[Len(q) + 1] = md[1] /\ \A l \in 1 .. Len(q) : s[l] = q[l]
    <3>1. 1 \in 1 .. Len(md)
      BY <2>3
    <3>. QED
      BY <2>2, <3>1, Zenon DEF Joined
  <2>5. Len(q) < Len(s)
    <3>. DEFINE a == Len(q)
                b == Len(s)
                c == Len(d)
    <3>1. a \in Nat /\ b \in Nat /\ c \in Nat /\ b = a + (1 + c)
      BY <1>0, <2>3, <2>4, Zenon
    <3>. HIDE DEF a, b, c
    <3>2. a < b
      BY <3>1
    <3>. QED
      BY <3>2, Zenon DEF a, b
  <2>6. s[Len(q) + 1] = sep
    BY <2>3, <2>4, Zenon
  <2>. QED
    BY <2>4, <2>5, <2>6, Zenon
<1>2. ASSUME Len(q) < Len(s), s[Len(q) + 1] = sep, \A l \in 1 .. Len(q) : s[l] = q[l]
      PROVE  \E d \in Seq(C) : s = q \o (m \o d)
  <2>. DEFINE after == Len(s) - (Len(q) + 1)
              d == SubSeq(s, Len(q) + 2, Len(s))
              md == m \o d
              z == SubSeq(s, Len(q) + 1, Len(s))
  <2>0. after \in Nat /\ Len(q) + 1 \in 1 .. Len(s)
    BY <1>0, <1>2
  <2>1. d \in Seq(C) /\ Len(d) = after /\ \A i \in 1 .. after : d[i] = s[Len(q) + 1 + i]
    <3>1. \A i \in Len(q) + 2 .. Len(s) : s[i] \in C
      BY <1>0
    <3>2. d \in Seq(C)
      BY <1>0, <3>1, SubSeqProperties
    <3>3. Len(d) = after
      BY <1>0, <1>2
    <3>4. \A i \in 1 .. after : d[i] = s[Len(q) + 1 + i]
      BY <1>0, <1>2
    <3>. QED
      BY <3>2, <3>3, <3>4
  <2>. HIDE DEF d
  <2>2. z \in Seq(C) /\ Len(z) = 1 + after /\ \A i \in 1 .. 1 + after : z[i] = s[Len(q) + i]
    <3>1. \A i \in Len(q) + 1 .. Len(s) : s[i] \in C
      BY <1>0
    <3>2. z \in Seq(C)
      BY <1>0, <3>1, SubSeqProperties
    <3>3. Len(z) = 1 + after
      BY <1>0, <1>2
    <3>4. \A i \in 1 .. 1 + after : z[i] = s[Len(q) + i]
      BY <1>0, <1>2
    <3>. QED
      BY <3>2, <3>3, <3>4
  <2>n. Len(q) + (1 + after) = Len(s)
    BY <1>0
  <2>. HIDE DEF z, after
  <2>3. z = m \o d
    <3>1. Len(z) = Len(m) + Len(d)
      BY <1>0, <2>1, <2>2
    <3>2. \A i \in 1 .. Len(m) : z[i] = m[i]
      <4>1. \A i \in 1 .. Len(m) : i = 1 /\ 1 \in 1 .. 1 + after
        BY <1>0, <2>0
      <4>. QED
        BY <1>0, <1>2, <2>2, <4>1, Zenon
    <3>3. ASSUME NEW i \in 1 .. Len(d) PROVE z[Len(m) + i] = d[i]
      <4>1. 1 + i \in 1 .. 1 + after /\ Len(q) + (1 + i) = Len(q) + 1 + i /\ i \in 1 .. after
        BY <1>0, <2>0, <2>1
      <4>2. z[1 + i] = s[Len(q) + 1 + i] /\ d[i] = s[Len(q) + 1 + i]
        BY <2>1, <2>2, <4>1
      <4>. QED
        BY <1>0, <4>2, Zenon
    <3>4. Joined(m, d, z)
      BY <3>1, <3>2, <3>3 DEF Joined
    <3>. QED
      BY <1>0, <2>1, <2>2, <3>4, ConcatAt
  <2>4. s = q \o z
    <3>1. Joined(q, z, s)
      BY <1>0, <1>2, <2>0, <2>2, <2>n DEF Joined
    <3>. QED
      BY <2>2, <3>1, ConcatAt
  <2>. QED
    BY <2>1, <2>3, <2>4, Zenon
<1>. QED
  BY <1>1, <1>2, Zenon DEF GoesBeyond, m

LEMMA ExactBelow ==
    ASSUME NEW C, "/" \in C, NEW q \in Seq(C), StarFree(q), NEW s \in Seq(C)
    PROVE  isMatch(q \o AnyBelow, s) <=> GoesBeyond(C, q, "/", s)
<1>. DEFINE P == C \union {"*"}
            w == AnyBelow
            p == q \o w
<1>1. q \in Seq(P) /\ w \in Seq(P) /\ Len(w) = 3 /\ w[1] = "/" /\ w[2] = "*" /\ w[3] = "*" /\ "/" # "*"
  BY DEF AnyBelow
<1>. HIDE DEF w, P
<1>2. p \in Seq(P) /\ Joined(q, w, p)
  BY <1>1, ConcatAt
<1>. DEFINE n == Len(q)
<1>3. n = Len(q) /\ n \in Nat /\ Len(s) \in Nat
  OBVIOUS
<1>4. Len(p) = n + 3 /\ p[n + 1] = "/" /\ p[n + 2] = "*" /\ p[n + 3] = "*"
  <2>1. 1 \in 1 .. 3 /\ 2 \in 1 .. 3 /\ 3 \in 1 .. 3
    OBVIOUS
  <2>. HIDE DEF p
  <2>. QED
    BY <1>1, <1>2, <2>1, Zenon DEF Joined
<1>. HIDE DEF n
<1>5. PICK f : Matches(f, p, s) /\ (isMatch(p, s) <=> 1 \in f[1])
  <2>. HIDE DEF p
  <2>. QED
    BY <1>2, MatchesAre
<1>6. 1 \in f[1] <=> (n <= Len(s) /\ (\A l \in 1 .. n : s[l] = q[l]) /\ n + 1 \in f[n + 1])
  BY <1>1, <1>3, <1>5, ExactFrom
<1>7. f[n + 1] = {j \in 1 .. Len(s) : s[j] = "/"} \union {Len(s) + 1}
  <2>. HIDE DEF p
  <2>. QED
    BY <1>2, <1>3, <1>4, <1>5, AnyBelowFrom
<1>8. PICK sep \in C : sep = "/"
  OBVIOUS
<1>9. GoesBeyond(C, q, sep, s)
      <=> (s = q \/ (n < Len(s) /\ s[n + 1] = sep /\ \A l \in 1 .. n : s[l] = q[l]))
  BY <1>3, BelowAt
<1>10. n + 1 \in f[n + 1] <=> (n = Len(s) \/ (n < Len(s) /\ s[n + 1] = sep))
  BY <1>3, <1>7, <1>8
<1>11. ASSUME n = Len(s), \A l \in 1 .. n : s[l] = q[l] PROVE s = q
  BY <1>3, <1>11, SeqEqual
<1>12. isMatch(p, s) <=> GoesBeyond(C, q, sep, s)
  <2>. HIDE DEF p
  <2>1. n <= Len(s) <=> n < Len(s) \/ n = Len(s)
    BY <1>3
  <2>2. s = q => n = Len(s)
    BY <1>3
  <2>. QED
    BY <1>5, <1>6, <1>9, <1>10, <1>11, <2>1, <2>2, Zenon
<1>. QED
  BY <1>8, <1>12, Zenon DEF p, w

(* Within a pattern that ends neither a segment nor with a star, what follows *)
(* does not tell what a character matches.                                    *)
StarsAt(q, k) ==
    AtSegment(q, k) /\ k + 2 <= Len(q) /\ q[k] = "*" /\ q[k + 1] = "*" /\ q[k + 2] = "/"

Inside(q, s, k, from) ==
    IF StarsAt(q, k)
    THEN {j \in 1 .. Len(s) + 1 : \E i \in from[k + 3] : AtSegment(s, i) /\ j <= i}
    ELSE IF q[k] = "*"
    THEN {j \in 1 .. Len(s) + 1 : \E i \in from[k + 1] : j <= i /\ \A l \in j .. i - 1 : s[l] # "/"}
    ELSE {j \in DOMAIN s : s[j] = q[k] /\ j + 1 \in from[k + 1]}

EndsInside(q) == q # <<>> /\ Last(q) \notin {"/", "*"}

LEMMA StarsInside ==
    ASSUME NEW P, NEW q \in Seq(P), EndsInside(q), NEW y \in Seq(P), NEW k \in 1 .. Len(q)
    PROVE  IsDoubleStar(q \o y, k) <=> StarsAt(q, k)
<1>. DEFINE x == q \o y
<1>0. Len(q) \in Nat /\ Len(y) \in Nat /\ q[Len(q)] \notin {"/", "*"}
  BY DEF EndsInside, Last
<1>1. Joined(q, y, x)
  BY ConcatAt
<1>2. Len(x) = Len(q) + Len(y) /\ \A i \in 1 .. Len(q) : x[i] = q[i]
  BY <1>1, Zenon DEF Joined
<1>. HIDE DEF x
<1>3. AtSegment(x, k) <=> AtSegment(q, k)
  <2>1. k # 1 => k - 1 \in 1 .. Len(q)
    BY <1>0
  <2>. QED
    BY <1>2, <2>1 DEF AtSegment
<1>4. ASSUME IsDoubleStar(x, k) PROVE StarsAt(q, k)
  <2>1. AtSegment(x, k) /\ x[k] = "*" /\ x[k + 1] = "*" /\ (k + 2 > Len(x) \/ x[k + 2] = "/")
    BY <1>4, Zenon DEF IsDoubleStar
  <2>2. k # Len(q)
    BY <1>0, <1>2, <2>1
  <2>3. k + 1 \in 1 .. Len(q)
    BY <1>0, <2>2
  <2>4. k + 1 # Len(q)
    BY <1>0, <1>2, <2>1, <2>3
  <2>5. k + 2 \in 1 .. Len(q) /\ k + 2 <= Len(q) /\ ~(k + 2 > Len(x))
    BY <1>0, <1>2, <2>3, <2>4
  <2>. QED
    BY <1>2, <1>3, <2>1, <2>3, <2>5, Zenon DEF StarsAt
<1>5. ASSUME StarsAt(q, k) PROVE IsDoubleStar(x, k)
  <2>1. AtSegment(q, k) /\ k + 2 <= Len(q) /\ q[k] = "*" /\ q[k + 1] = "*" /\ q[k + 2] = "/"
    BY <1>5, Zenon DEF StarsAt
  <2>2. k + 1 \in 1 .. Len(q) /\ k + 2 \in 1 .. Len(q) /\ k < Len(x)
    BY <1>0, <1>2, <2>1
  <2>. QED
    BY <1>2, <1>3, <2>1, <2>2, Zenon DEF IsDoubleStar
<1>. QED
  BY <1>4, <1>5 DEF x

LEMMA MatchInside ==
    ASSUME NEW P, NEW q \in Seq(P), EndsInside(q), NEW y \in Seq(P), NEW s, NEW f, Matches(f, q \o y, s),
           NEW k \in 1 .. Len(q)
    PROVE  f[k] = Inside(q, s, k, f)
<1>. DEFINE x == q \o y
            end == Len(s) + 1
<1>0. Len(q) \in Nat /\ Len(y) \in Nat /\ q[Len(q)] \notin {"/", "*"}
  BY DEF EndsInside, Last
<1>1. x \in Seq(P) /\ Joined(q, y, x)
  BY ConcatAt
<1>2. Len(x) = Len(q) + Len(y) /\ x[k] = q[k]
  BY <1>1, Zenon DEF Joined
<1>3. IsDoubleStar(x, k) <=> StarsAt(q, k)
  BY StarsInside
<1>4. ~(x[k] = "/" /\ k + 2 = Len(x) /\ IsDoubleStar(x, k + 1))
  <2>1. SUFFICES ASSUME q[k] = "/", k + 2 = Len(x), IsDoubleStar(x, k + 1) PROVE FALSE
    BY <1>2
  <2>2. k # Len(q)
    BY <1>0, <2>1
  <2>. DEFINE i == k + 1
  <2>3. i \in 1 .. Len(q)
    BY <1>0, <2>2
  <2>. HIDE DEF i
  <2>4. StarsAt(q, i)
    <3>1. IsDoubleStar(x, i) <=> StarsAt(q, i)
      BY <2>3, StarsInside
    <3>. QED
      BY <2>1, <3>1, Zenon DEF i
  <2>5. k + 1 + 2 <= Len(q)
    BY <2>4, Zenon DEF StarsAt, i
  <2>. QED
    BY <1>0, <1>2, <2>1, <2>5
<1>5. Matches(f, x, s)
  OBVIOUS
<1>. HIDE DEF x
<1>6. k \in 1 .. Len(x) + 1 /\ ~(k > Len(x))
  BY <1>0, <1>2
<1>7. f[k] = MatchFrom(x, s, k, f)
  BY <1>5, <1>6 DEF Matches
<1>. HIDE DEF end
<1>8. CASE StarsAt(q, k)
  <2>1. k + 2 <= Len(q) /\ ~(k + 2 > Len(x))
    <3>1. k + 2 <= Len(q)
      BY <1>8, Zenon DEF StarsAt
    <3>. QED
      BY <1>0, <1>2, <3>1
  <2>2. f[k] = {j \in 1 .. end : \E i \in {i \in f[k + 3] : AtSegment(s, i)} : j <= i}
    BY <1>3, <1>6, <1>7, <1>8, <2>1, Zenon DEF MatchFrom, end
  <2>3. Inside(q, s, k, f) = {j \in 1 .. end : \E i \in f[k + 3] : AtSegment(s, i) /\ j <= i}
    BY <1>8, Zenon DEF Inside, end
  <2>4. \A j : (\E i \in {i \in f[k + 3] : AtSegment(s, i)} : j <= i) <=> (\E i \in f[k + 3] : AtSegment(s, i) /\ j <= i)
    BY Zenon
  <2>. QED
    BY <2>2, <2>3, <2>4, Zenon
<1>9. CASE ~StarsAt(q, k) /\ q[k] = "*"
  <2>1. f[k] = {j \in 1 .. end : \E i \in f[k + 1] : j <= i /\ \A l \in j .. i - 1 : s[l] # "/"}
    BY <1>2, <1>3, <1>6, <1>7, <1>9, Zenon DEF MatchFrom, end
  <2>. QED
    BY <1>9, <2>1, Zenon DEF Inside, end
<1>10. CASE ~StarsAt(q, k) /\ q[k] # "*"
  <2>1. f[k] = {j \in DOMAIN s : s[j] = x[k] /\ j + 1 \in f[k + 1]}
               \union {j \in {end} : x[k] = "/" /\ k + 2 = Len(x) /\ IsDoubleStar(x, k + 1)}
    BY <1>2, <1>3, <1>6, <1>7, <1>10, Zenon DEF MatchFrom, end
  <2>2. {j \in {end} : x[k] = "/" /\ k + 2 = Len(x) /\ IsDoubleStar(x, k + 1)} = {}
    BY <1>4, Zenon
  <2>3. Inside(q, s, k, f) = {j \in DOMAIN s : s[j] = x[k] /\ j + 1 \in f[k + 1]}
    BY <1>2, <1>10, Zenon DEF Inside
  <2>. DEFINE A == {j \in DOMAIN s : s[j] = x[k] /\ j + 1 \in f[k + 1]}
  <2>4. A \union {} = A
    OBVIOUS
  <2>. QED
    BY <2>1, <2>2, <2>3, <2>4, Zenon
<1>. QED
  BY <1>8, <1>9, <1>10

LEMMA InsideGrows ==
    ASSUME NEW q, NEW s, NEW k, NEW f, NEW g, f[k + 1] \subseteq g[k + 1],
           StarsAt(q, k) => f[k + 3] \subseteq g[k + 3]
    PROVE  Inside(q, s, k, f) \subseteq Inside(q, s, k, g)
BY Zenon DEF Inside

LEMMA EndWidens ==
    ASSUME NEW P, NEW q \in Seq(P), EndsInside(q), NEW w \in Seq(P), NEW v \in Seq(P), NEW s,
           NEW f, Matches(f, q \o w, s), NEW g, Matches(g, q \o v, s),
           f[Len(q) + 1] \subseteq g[Len(q) + 1]
    PROVE  f[1] \subseteq g[1]
<1>. DEFINE n == Len(q)
            Within(k) == f[k] \subseteq g[k]
            Not == {k \in 0 .. n : ~Within(n + 1 - k)}
<1>0. n \in Nat /\ n + 1 - n = 1 /\ n + 1 - 0 = n + 1
  OBVIOUS
<1>1. ASSUME NEW k \in 1 .. n, \A i \in k + 1 .. n + 1 : Within(i) PROVE Within(k)
  <2>1. f[k] = Inside(q, s, k, f) /\ g[k] = Inside(q, s, k, g)
    BY MatchInside
  <2>2. k + 1 \in k + 1 .. n + 1
    BY <1>0
  <2>3. StarsAt(q, k) => k + 3 \in k + 1 .. n + 1
    <3>1. StarsAt(q, k) => k + 2 <= n
      BY Zenon DEF StarsAt
    <3>. QED
      BY <1>0, <3>1
  <2>4. f[k + 1] \subseteq g[k + 1] /\ (StarsAt(q, k) => f[k + 3] \subseteq g[k + 3])
    BY <1>1, <2>2, <2>3, Zenon
  <2>5. Inside(q, s, k, f) \subseteq Inside(q, s, k, g)
    BY <2>4, InsideGrows
  <2>. QED
    BY <2>1, <2>5, Zenon
<1>2. Within(n + 1)
  OBVIOUS
<1>. HIDE DEF n, Within
<1>3. Not = {}
  <2>. SUFFICES ASSUME Not # {} PROVE FALSE
    OBVIOUS
  <2>1. PICK m \in Not : \A k \in Not : m <= k
    <3>1. Not \in SUBSET Nat
      BY <1>0
    <3>. QED
      BY <3>1, LeastThereIs
  <2>2. m \in 0 .. n /\ ~Within(n + 1 - m)
    BY <2>1
  <2>3. m # 0
    BY <1>0, <1>2, <2>2
  <2>. DEFINE i == n + 1 - m
  <2>4. i \in 1 .. n
    BY <1>0, <2>2, <2>3
  <2>5. ASSUME NEW k \in i + 1 .. n + 1 PROVE Within(k)
    <3>. DEFINE l == n + 1 - k
    <3>1. l \in 0 .. n /\ ~(m <= l) /\ n + 1 - l = k
      BY <1>0, <2>2, <2>3
    <3>. HIDE DEF l
    <3>2. l \notin Not
      BY <2>1, <3>1, Zenon
    <3>3. Within(n + 1 - l)
      BY <3>1, <3>2, Zenon
    <3>. QED
      BY <3>1, <3>3, Zenon
  <2>. HIDE DEF i
  <2>6. Within(i)
    BY <1>1, <2>4, <2>5, Zenon
  <2>. QED
    BY <2>2, <2>6, Zenon DEF i
<1>4. n \in 0 .. n
  BY <1>0
<1>5. Within(n + 1 - n)
  BY <1>3, <1>4, Zenon
<1>. QED
  BY <1>0, <1>5, Zenon DEF Within

StarWidens(q, s) ==
    /\ isMatch(q, s) => isMatch(q \o <<"*">>, s)
    /\ isMatch(q \o AnyBelow, s) => isMatch((q \o <<"*">>) \o AnyBelow, s)

LEMMA StarWidensMatch ==
    ASSUME NEW P, "*" \in P, "/" \in P, NEW q \in Seq(P), EndsInside(q), NEW S, NEW s \in Seq(S)
    PROVE  StarWidens(q, s)
<1>. DEFINE star == <<"*">>
            below == AnyBelow
            n == Len(q)
            end == Len(s) + 1
            qs == q \o star
            any == star \o below
            qsb == qs \o below
            qb == q \o below
<1>1. /\ star \in Seq(P) /\ Len(star) = 1 /\ star[1] = "*"
      /\ below \in Seq(P) /\ Len(below) = 3 /\ below[1] = "/" /\ below[2] = "*" /\ below[3] = "*" /\ "/" # "*"
  BY DEF AnyBelow
<1>2. Len(s) \in Nat /\ n \in Nat /\ n = Len(q) /\ end \in 1 .. end
  OBVIOUS
<1>. HIDE DEF star, below, n
<1>3. qs \in Seq(P) /\ Joined(q, star, qs) /\ any \in Seq(P) /\ qb \in Seq(P) /\ Joined(q, below, qb)
  BY <1>1, ConcatAt
<1>4. qsb \in Seq(P) /\ Joined(qs, below, qsb)
  <2>. HIDE DEF qs
  <2>. QED
    BY <1>1, <1>3, ConcatAt
<1>5. qsb = q \o any
  <2>1. \A x, y, z \in Seq(P) : (x \o y) \o z = x \o (y \o z)
    BY SequenceLaws, Zenon DEF Sequenced
  <2>. QED
    BY <1>1, <2>1, Zenon
<1>6. Len(qs) = n + 1 /\ qs[n + 1] = "*"
  <2>1. 1 \in 1 .. 1
    OBVIOUS
  <2>. HIDE DEF qs
  <2>. QED
    BY <1>1, <1>2, <1>3, <2>1, Zenon DEF Joined
<1>7. Len(qsb) = n + 4 /\ qsb[n + 1] = "*" /\ qsb[n + 1 + 1] = "/" /\ qsb[n + 1 + 2] = "*" /\ qsb[n + 1 + 3] = "*"
  <2>1. 1 \in 1 .. 3 /\ 2 \in 1 .. 3 /\ 3 \in 1 .. 3 /\ n + 1 \in 1 .. n + 1 /\ (n + 1) + 3 = n + 4
    BY <1>2
  <2>. HIDE DEF qsb, qs
  <2>2. Len(qsb) = (n + 1) + 3 /\ qsb[n + 1] = qs[n + 1]
    BY <1>1, <1>4, <1>6, <2>1, Zenon DEF Joined
  <2>3. qsb[n + 1 + 1] = below[1] /\ qsb[n + 1 + 2] = below[2] /\ qsb[n + 1 + 3] = below[3]
    BY <1>1, <1>4, <1>6, <2>1, Zenon DEF Joined
  <2>. QED
    BY <1>1, <1>6, <2>1, <2>2, <2>3, Zenon
<1>8. Len(qb) = n + 3 /\ qb[n + 1] = "/" /\ qb[n + 2] = "*" /\ qb[n + 3] = "*"
  <2>1. 1 \in 1 .. 3 /\ 2 \in 1 .. 3 /\ 3 \in 1 .. 3
    OBVIOUS
  <2>. HIDE DEF qb
  <2>. QED
    BY <1>1, <1>2, <1>3, <2>1, Zenon DEF Joined
<1>. HIDE DEF qs, qsb, any, qb
<1>9. ASSUME isMatch(q, s) PROVE isMatch(qs, s)
  <2>1. PICK f : Matches(f, q, s) /\ 1 \in f[1]
    BY <1>9, MatchesAre
  <2>2. PICK g : Matches(g, qs, s) /\ (isMatch(qs, s) <=> 1 \in g[1])
    BY <1>3, MatchesAre
  <2>. DEFINE empty == <<>>
  <2>3. empty \in Seq(P) /\ q \o empty = q
    <3>1. \A x \in Seq(P) : <<>> \in Seq(P) /\ x \o <<>> = x
      BY SequenceLaws, Zenon DEF Sequenced
    <3>. QED
      BY <3>1, Zenon
  <2>. HIDE DEF empty
  <2>4. f[n + 1] = {end}
    <3>1. n + 1 \in 1 .. Len(q) + 1 /\ n + 1 > Len(q)
      BY <1>2
    <3>. QED
      BY <2>1, <3>1, Zenon DEF Matches, MatchFrom
  <2>5. g[n + 1 + 1] = {end}
    <3>1. n + 1 + 1 \in 1 .. Len(qs) + 1 /\ n + 1 + 1 > Len(qs)
      BY <1>2, <1>6
    <3>. QED
      BY <2>2, <3>1, Zenon DEF Matches, MatchFrom
  <2>6. end \in g[n + 1]
    <3>1. n + 1 \in 1 .. Len(qs) + 1 /\ ~(n + 1 > Len(qs)) /\ ~(n + 1 < Len(qs))
      BY <1>2, <1>6
    <3>2. ~IsDoubleStar(qs, n + 1)
      BY <3>1, Zenon DEF IsDoubleStar
    <3>3. g[n + 1] = {j \in 1 .. end : \E i \in g[n + 1 + 1] : j <= i /\ \A l \in j .. i - 1 : s[l] # "/"}
      BY <1>6, <2>2, <3>1, <3>2, Zenon DEF Matches, MatchFrom
    <3>. HIDE DEF end
    <3>4. end \in Nat
      BY <1>2 DEF end
    <3>5. end <= end /\ end .. end - 1 = {}
      BY <3>4
    <3>. QED
      BY <1>2, <2>5, <3>3, <3>5, Zenon
  <2>7. f[1] \subseteq g[1]
    <3>1. Matches(f, q \o empty, s) /\ Matches(g, q \o star, s)
      BY <2>1, <2>2, <2>3, Zenon DEF qs
    <3>2. f[Len(q) + 1] \subseteq g[Len(q) + 1]
      BY <1>2, <2>4, <2>6
    <3>. QED
      BY <1>1, <2>3, <3>1, <3>2, EndWidens
  <2>. QED
    BY <2>1, <2>2, <2>7
<1>10. ASSUME isMatch(qb, s) PROVE isMatch(qsb, s)
  <2>1. PICK f : Matches(f, qb, s) /\ 1 \in f[1]
    BY <1>3, <1>10, MatchesAre
  <2>2. PICK g : Matches(g, qsb, s) /\ (isMatch(qsb, s) <=> 1 \in g[1])
    BY <1>4, MatchesAre
  <2>3. f[n + 1] = {j \in 1 .. Len(s) : s[j] = "/"} \union {end}
    <3>1. /\ n \in Nat /\ qb \in Seq(P) /\ Matches(f, qb, s)
          /\ Len(qb) = n + 3 /\ qb[n + 1] = "/" /\ qb[n + 2] = "*" /\ qb[n + 3] = "*"
      BY <1>2, <1>3, <1>8, <2>1
    <3>. QED
      BY <3>1, AnyBelowFrom
  <2>4. g[n + 1 + 1] = {j \in 1 .. Len(s) : s[j] = "/"} \union {end}
    <3>. DEFINE m == n + 1
    <3>1. m \in Nat /\ Len(qsb) = m + 3 /\ qsb[m + 1] = "/" /\ qsb[m + 2] = "*" /\ qsb[m + 3] = "*"
      BY <1>2, <1>7
    <3>. HIDE DEF m
    <3>2. g[m + 1] = {j \in 1 .. Len(s) : s[j] = "/"} \union {end}
      BY <1>4, <2>2, <3>1, AnyBelowFrom
    <3>. QED
      BY <3>2, Zenon DEF m
  <2>5. f[n + 1] \subseteq g[n + 1]
    <3>1. n + 1 \in 1 .. Len(qsb) + 1 /\ ~(n + 1 > Len(qsb))
      BY <1>2, <1>7
    <3>2. ~IsDoubleStar(qsb, n + 1)
      BY <1>1, <1>7, Zenon DEF IsDoubleStar
    <3>3. g[n + 1] = {j \in 1 .. end : \E i \in g[n + 1 + 1] : j <= i /\ \A l \in j .. i - 1 : s[l] # "/"}
      BY <1>7, <2>2, <3>1, <3>2, Zenon DEF Matches, MatchFrom
    <3>4. SUFFICES ASSUME NEW j \in f[n + 1] PROVE j \in g[n + 1]
      OBVIOUS
    <3>5. j \in 1 .. end /\ j \in g[n + 1 + 1]
      BY <1>2, <2>3, <2>4
    <3>6. j <= j /\ j .. j - 1 = {}
      BY <3>5
    <3>. QED
      BY <3>3, <3>5, <3>6, Zenon
  <2>6. f[1] \subseteq g[1]
    <3>1. Matches(f, q \o below, s) /\ Matches(g, q \o any, s)
      BY <1>5, <2>1, <2>2, Zenon DEF qb
    <3>2. f[Len(q) + 1] \subseteq g[Len(q) + 1]
      BY <1>2, <2>5
    <3>. QED
      BY <1>1, <1>3, <3>1, <3>2, EndWidens
  <2>. QED
    BY <2>1, <2>2, <2>6
<1>. QED
  BY <1>9, <1>10, Zenon DEF StarWidens, qs, qb, qsb, star, below

(* A path without the slashes at its end.                                     *)
Trims(p, n, t) ==
    /\ n \in 0 .. Len(p)
    /\ Len(t) = n
    /\ \A i \in 1 .. n : t[i] = p[i]
    /\ n # 0 => p[n] # "/"
    /\ \A i \in n + 1 .. Len(p) : p[i] = "/"

LEMMA GreatestThereIs ==
    ASSUME NEW N \in Nat, NEW T \in SUBSET (0 .. N), T # {}
    PROVE  \E m \in T : \A k \in T : m >= k
<1>. DEFINE Down == {N - k : k \in T}
<1>1. Down \in SUBSET Nat /\ Down # {}
  <2>1. \A k \in T : N - k \in Nat
    OBVIOUS
  <2>2. PICK k \in T : TRUE
    OBVIOUS
  <2>3. N - k \in Down
    OBVIOUS
  <2>. QED
    BY <2>1, <2>3
<1>2. PICK l \in Down : \A k \in Down : l <= k
  BY <1>1, LeastThereIs
<1>3. PICK m \in T : l = N - m
  BY <1>2
<1>4. ASSUME NEW k \in T PROVE m >= k
  <2>1. N - k \in Down
    OBVIOUS
  <2>2. N - m <= N - k
    BY <1>2, <1>3, <2>1
  <2>3. m \in 0 .. N /\ k \in 0 .. N
    OBVIOUS
  <2>. QED
    BY <2>2, <2>3
<1>. QED
  BY <1>4

LEMMA TrimRightIs ==
    ASSUME NEW C, NEW p \in Seq(C)
    PROVE  /\ TrimRight(p) \in Seq(C)
           /\ Trims(p, Len(TrimRight(p)), TrimRight(p))
           /\ \A n, t : t \in Seq(C) /\ Trims(p, n, t) => t = TrimRight(p)
<1>. DEFINE T == {0} \union {k \in DOMAIN p : p[k] # "/"}
            m == Max(T)
            trimmed == TrimRight(p)
<1>0. Len(p) \in Nat /\ DOMAIN p = 1 .. Len(p)
  OBVIOUS
<1>1. m \in T /\ \A k \in T : m >= k
  <2>1. T \in SUBSET (0 .. Len(p)) /\ T # {}
    BY <1>0
  <2>. HIDE DEF T
  <2>2. \E x \in T : \A k \in T : x >= k
    BY <1>0, <2>1, GreatestThereIs
  <2>. QED
    BY <2>2, Zenon DEF Max
<1>2. trimmed = SubSeq(p, 1, m)
  BY Zenon DEF TrimRight
<1>. HIDE DEF m
<1>3. m \in 0 .. Len(p) /\ (m # 0 => p[m] # "/") /\ \A i \in m + 1 .. Len(p) : p[i] = "/"
  <2>1. m \in 0 .. Len(p) /\ (m # 0 => p[m] # "/")
    BY <1>0, <1>1
  <2>2. ASSUME NEW i \in m + 1 .. Len(p) PROVE p[i] = "/"
    <3>1. ~(m >= i) /\ i \in DOMAIN p
      BY <1>0, <2>1
    <3>. QED
      BY <1>1, <3>1
  <2>. QED
    BY <2>1, <2>2
<1>4. trimmed \in Seq(C) /\ Len(trimmed) = m /\ \A i \in 1 .. m : trimmed[i] = p[i]
  <2>1. \A i \in 1 .. m : p[i] \in C
    BY <1>0, <1>3
  <2>2. SubSeq(p, 1, m) \in Seq(C) /\ Len(SubSeq(p, 1, m)) = m /\ \A i \in 1 .. m : SubSeq(p, 1, m)[i] = p[i]
    BY <1>0, <1>3, <2>1
  <2>. HIDE DEF trimmed
  <2>. QED
    BY <1>2, <2>2, Zenon
<1>. HIDE DEF trimmed
<1>5. Trims(p, Len(trimmed), trimmed)
  BY <1>3, <1>4 DEF Trims
<1>6. ASSUME NEW n, NEW t \in Seq(C), Trims(p, n, t) PROVE t = trimmed
  <2>1. n = m
    <3>1. n \in 0 .. Len(p) /\ (n # 0 => p[n] # "/") /\ \A i \in n + 1 .. Len(p) : p[i] = "/"
      BY <1>6 DEF Trims
    <3>2. ~(n < m)
      <4>1. n < m => m \in n + 1 .. Len(p) /\ m # 0
        BY <1>0, <1>3, <3>1
      <4>. QED
        BY <1>3, <3>1, <4>1
    <3>3. ~(m < n)
      <4>1. m < n => n \in m + 1 .. Len(p) /\ n # 0
        BY <1>0, <1>3, <3>1
      <4>. QED
        BY <1>3, <3>1, <4>1
    <3>. QED
      BY <1>0, <1>3, <3>1, <3>2, <3>3
  <2>2. Len(t) = Len(trimmed) /\ \A i \in 1 .. Len(t) : t[i] = trimmed[i]
    BY <1>4, <1>6, <2>1 DEF Trims
  <2>. QED
    BY <1>4, <2>2, SeqEqual
<1>. QED
  BY <1>4, <1>5, <1>6 DEF trimmed

LEMMA TrimBehindSlash ==
    ASSUME NEW C, "/" \in C, NEW r \in Seq(C)
    PROVE  TrimRight(<<"/">> \o r) = IF TrimRight(r) = <<>> THEN <<>> ELSE <<"/">> \o TrimRight(r)
<1>. DEFINE m == <<"/">>
            t == TrimRight(r)
            n == Len(t)
            p == m \o r
<1>1. m \in Seq(C) /\ Len(m) = 1 /\ m[1] = "/"
  OBVIOUS
<1>. HIDE DEF m
<1>2. t \in Seq(C) /\ Trims(r, n, t)
  BY TrimRightIs
<1>3. p \in Seq(C) /\ Joined(m, r, p)
  BY <1>1, ConcatAt
<1>. HIDE DEF t, p
<1>4. Len(r) \in Nat /\ n \in 0 .. Len(r) /\ (t = <<>> <=> n = 0)
  BY <1>2 DEF Trims
<1>5. Len(p) = 1 + Len(r) /\ p[1] = "/" /\ \A i \in 1 .. Len(r) : p[1 + i] = r[i]
  <2>1. 1 \in 1 .. 1
    OBVIOUS
  <2>. QED
    BY <1>1, <1>3, <2>1, Zenon DEF Joined
<1>6. CASE n = 0
  <2>. DEFINE e == <<>>
  <2>1. ASSUME NEW i \in 1 .. Len(p) PROVE p[i] = "/"
    <3>1. CASE i = 1
      BY <1>5, <3>1
    <3>2. CASE i # 1
      <4>1. i - 1 \in 0 + 1 .. Len(r) /\ i - 1 \in 1 .. Len(r) /\ 1 + (i - 1) = i
        BY <1>4, <1>5, <3>2
      <4>2. r[i - 1] = "/"
        BY <1>2, <1>6, <4>1 DEF Trims
      <4>. QED
        BY <1>5, <4>1, <4>2
    <3>. QED
      BY <3>1, <3>2
  <2>2. e \in Seq(C) /\ Trims(p, 0, e)
    BY <1>4, <1>5, <2>1 DEF Trims
  <2>. HIDE DEF e
  <2>3. e = TrimRight(p)
    BY <1>3, <2>2, TrimRightIs
  <2>. QED
    BY <1>4, <1>6, <2>3, Zenon DEF e, p, m, t
<1>7. CASE n # 0
  <2>. DEFINE u == m \o t
  <2>1. u \in Seq(C) /\ Joined(m, t, u)
    BY <1>1, <1>2, ConcatAt
  <2>. HIDE DEF u
  <2>2. Len(u) = 1 + n /\ u[1] = "/" /\ \A i \in 1 .. n : u[1 + i] = t[i]
    <3>1. 1 \in 1 .. 1
      OBVIOUS
    <3>. QED
      BY <1>1, <2>1, <3>1, Zenon DEF Joined
  <2>3. ASSUME NEW i \in 1 .. 1 + n PROVE u[i] = p[i]
    <3>1. CASE i = 1
      BY <1>5, <2>2, <3>1
    <3>2. CASE i # 1
      <4>1. i - 1 \in 1 .. n /\ i - 1 \in 1 .. Len(r) /\ 1 + (i - 1) = i
        BY <1>4, <3>2
      <4>2. t[i - 1] = r[i - 1]
        BY <1>2, <4>1 DEF Trims
      <4>. QED
        BY <1>5, <2>2, <4>1, <4>2
    <3>. QED
      BY <3>1, <3>2
  <2>4. p[1 + n] # "/"
    <3>1. n \in 1 .. Len(r) /\ r[n] # "/"
      BY <1>2, <1>4, <1>7 DEF Trims
    <3>. QED
      BY <1>5, <3>1
  <2>5. ASSUME NEW i \in 1 + n + 1 .. Len(p) PROVE p[i] = "/"
    <3>1. i - 1 \in n + 1 .. Len(r) /\ i - 1 \in 1 .. Len(r) /\ 1 + (i - 1) = i
      BY <1>4, <1>5
    <3>2. r[i - 1] = "/"
      BY <1>2, <3>1 DEF Trims
    <3>. QED
      BY <1>5, <3>1, <3>2
  <2>6. 1 + n \in 0 .. Len(p)
    BY <1>4, <1>5
  <2>7. Trims(p, 1 + n, u)
    BY <2>2, <2>3, <2>4, <2>5, <2>6 DEF Trims
  <2>8. u = TrimRight(p)
    BY <1>3, <2>1, <2>7, TrimRightIs
  <2>. QED
    BY <1>4, <1>7, <2>8, Zenon DEF u, p, m, t
<1>. QED
  BY <1>6, <1>7

TrimmedPath(p) == TrimRight(IF p # <<>> /\ p[1] = "/" THEN Tail(p) ELSE p)

LEMMA HeadAndTail ==
    ASSUME NEW C, NEW p \in Seq(C), p # <<>>
    PROVE  Tail(p) \in Seq(C) /\ p = <<p[1]>> \o Tail(p)
<1>. DEFINE h == <<p[1]>>
            t == Tail(p)
<1>1. Len(p) \in Nat \ {0} /\ p[1] \in C
  OBVIOUS
<1>2. h \in Seq(C) /\ Len(h) = 1 /\ h[1] = p[1]
  BY <1>1
<1>3. t \in Seq(C) /\ Len(t) = Len(p) - 1 /\ \A i \in 1 .. Len(p) - 1 : t[i] = p[i + 1]
  OBVIOUS
<1>. HIDE DEF h, t
<1>4. Joined(h, t, p)
  <2>1. Len(p) = Len(h) + Len(t)
    BY <1>1, <1>2, <1>3
  <2>2. \A i \in 1 .. Len(h) : p[i] = h[i]
    BY <1>2
  <2>3. \A i \in 1 .. Len(t) : p[Len(h) + i] = t[i]
    <3>1. \A i \in 1 .. Len(t) : i + 1 = 1 + i
      OBVIOUS
    <3>. QED
      BY <1>1, <1>2, <1>3, <3>1
  <2>. QED
    BY <2>1, <2>2, <2>3 DEF Joined
<1>5. p = h \o t
  BY <1>2, <1>3, <1>4, ConcatAt
<1>. QED
  BY <1>3, <1>5 DEF h, t

LEMMA NormalIs ==
    ASSUME NEW C, "/" \in C, NEW p \in Seq(C)
    PROVE  /\ TrimmedPath(p) \in Seq(C)
           /\ TrimmedPath(p) = <<>> => normalizePath(p) \in {<<>>, <<"/">>}
           /\ TrimmedPath(p) # <<>> => normalizePath(p) = <<"/">> \o TrimmedPath(p)
<1>. DEFINE m == <<"/">>
            e == <<>>
            r == IF p # e /\ p[1] = "/" THEN Tail(p) ELSE p
            t == TrimmedPath(p)
            q == normalizePath(p)
<1>1. r \in Seq(C)
  BY HeadAndTail
<1>2. t = TrimRight(r)
  BY Zenon DEF TrimmedPath
<1>3. t \in Seq(C)
  <2>. HIDE DEF r, t
  <2>. QED
    BY <1>1, <1>2, TrimRightIs
<1>. HIDE DEF q
<1>4. ASSUME p = e \/ p = m PROVE (t = e => q \in {e, m}) /\ (t # e => q = m \o t)
  <2>1. r = e
    <3>1. Tail(m) = e /\ (e = e \/ m = e)
      OBVIOUS
    <3>2. CASE p = e
      BY <3>2, Zenon
    <3>3. CASE p = m
      <4>1. m[1] = "/"
        OBVIOUS
      <4>2. m # e
        OBVIOUS
      <4>. QED
        BY <3>1, <3>3, <4>1, <4>2, Zenon
    <3>. QED
      BY <1>4, <3>2, <3>3
  <2>2. TrimRight(e) = e
    <3>1. e \in Seq(C) /\ Len(e) = 0 /\ 1 .. 0 = {} /\ 0 + 1 .. 0 = {}
      OBVIOUS
    <3>2. Trims(e, 0, e)
      <4>. HIDE DEF e
      <4>. QED
        BY <3>1 DEF Trims
    <3>. HIDE DEF e
    <3>. QED
      BY <3>1, <3>2, TrimRightIs
  <2>3. q = m
    BY <1>4, Zenon DEF normalizePath, q
  <2>4. t = e
    BY <1>2, <2>1, <2>2, Zenon
  <2>. HIDE DEF t, e, m
  <2>. QED
    BY <2>3, <2>4, Zenon
<1>5. ASSUME p # e /\ p # m PROVE (t = e => q \in {e, m}) /\ (t # e => q = m \o t)
  <2>1. q = TrimRight(m \o r)
    <3>1. q = TrimRight(IF p[1] = "/" THEN p ELSE m \o p)
      BY <1>5, Zenon DEF normalizePath, q
    <3>2. CASE p[1] = "/"
      <4>1. p = <<p[1]>> \o Tail(p)
        BY <1>5, HeadAndTail
      <4>. QED
        BY <1>5, <3>1, <3>2, <4>1, Zenon
    <3>3. CASE p[1] # "/"
      BY <1>5, <3>1, <3>3, Zenon
    <3>. QED
      BY <3>2, <3>3
  <2>2. TrimRight(m \o r) = IF TrimRight(r) = e THEN e ELSE m \o TrimRight(r)
    <3>. HIDE DEF r
    <3>. QED
      BY <1>1, TrimBehindSlash
  <2>. HIDE DEF t, e, m, r
  <2>. QED
    BY <1>2, <2>1, <2>2, Zenon
<1>. QED
  BY <1>3, <1>4, <1>5, Zenon DEF q

(* A path without stars permits what is at or below it.                       *)
LEMMA PathsBelow ==
    ASSUME NEW C, "/" \in C, "*" \notin C, NEW p \in Seq(C), NEW u \in Seq(C)
    PROVE  (normalizePath(p) = <<"/">> \/ isMatchPermissive(normalizePath(p), normalizePath(u)))
           <=> IsPrefix(Segments(p), Segments(u))
<1>. DEFINE m == <<"/">>
            e == <<>>
            q == normalizePath(p)
            s == normalizePath(u)
            a == TrimmedPath(p)
            b == TrimmedPath(u)
<1>1. /\ a \in Seq(C) /\ (a = e => q \in {e, m}) /\ (a # e => q = m \o a)
      /\ b \in Seq(C) /\ (b = e => s \in {e, m}) /\ (b # e => s = m \o b)
  BY NormalIs
<1>2. /\ Segments(p) = IF a = e THEN e ELSE Split(a, "/")
      /\ Segments(u) = IF b = e THEN e ELSE Split(b, "/")
  BY Zenon DEF Segments, TrimmedPath
<1>3. m \in Seq(C) /\ e \in Seq(C) /\ m # e /\ Len(m) = 1 /\ Len(e) = 0
  OBVIOUS
<1>4. /\ \A x, y \in Seq(C) : x \o y \in Seq(C)
      /\ \A x, y, z \in Seq(C) : (x \o y) \o z = x \o (y \o z)
      /\ \A x \in Seq(C) : e \o x = x
  BY SequenceLaws, Zenon DEF Sequenced
<1>. HIDE DEF q, s, a, b, m, e
<1>5. q \in Seq(C) /\ s \in Seq(C)
  <2>1. m \o a \in Seq(C) /\ m \o b \in Seq(C)
    BY <1>1, <1>3, <1>4, Zenon
  <2>2. q \in {e, m, m \o a} /\ s \in {e, m, m \o b}
    BY <1>1, Zenon
  <2>. QED
    BY <1>3, <2>1, <2>2, Zenon
<1>6. StarFree(q)
  BY <1>5 DEF StarFree
<1>7. isMatchPermissive(q, s) <=> GoesBeyond(C, q, "/", s)
  <2>1. isMatch(q, s) <=> s = q
    BY <1>5, <1>6, ExactMatch
  <2>2. isMatch(q \o AnyBelow, s) <=> GoesBeyond(C, q, "/", s)
    BY <1>5, <1>6, ExactBelow
  <2>3. ~(q # <<>> /\ Last(q) = "*")
    <3>1. q # <<>> => Last(q) \in C
      BY <1>5, FrontAndLast
    <3>. QED
      BY <3>1
  <2>4. s = q => GoesBeyond(C, q, "/", s)
    BY Zenon DEF GoesBeyond
  <2>. QED
    BY <2>1, <2>2, <2>3, <2>4, Zenon DEF isMatchPermissive, AnyBelow
<1>8. CASE a = e
  <2>1. IsPrefix(Segments(p), Segments(u))
    <3>. DEFINE y == Segments(u)
    <3>1. y \in Seq(Seq(C))
      <4>1. Split(b, "/") \in Seq(Seq(C))
        BY <1>1, JoinSplit DEF Parts
      <4>2. e \in Seq(Seq(C))
        BY DEF e
      <4>. QED
        BY <1>2, <4>1, <4>2
    <3>. HIDE DEF y
    <3>2. e \in Seq(Seq(C)) /\ y = e \o y
      <4>1. \A x \in Seq(Seq(C)) : <<>> \in Seq(Seq(C)) /\ <<>> \o x = x
        BY SequenceLaws, Zenon DEF Sequenced
      <4>. QED
        BY <3>1, <4>1, Zenon DEF e
    <3>3. IsPrefix(e, y)
      BY <3>1, <3>2, PrefixIs
    <3>. QED
      BY <1>2, <1>8, <3>3, Zenon DEF y
  <2>2. q = e => GoesBeyond(C, q, "/", s)
    <3>1. ASSUME q = e, s = m PROVE \E d \in Seq(C) : s = q \o (m \o d)
      <4>1. m \o e = m /\ e \o m = m
        <5>1. \A x \in Seq(C) : x \o <<>> = x
          BY SequenceLaws, Zenon DEF Sequenced
        <5>. QED
          BY <1>3, <1>4, <5>1, Zenon DEF e
      <4>. QED
        BY <1>3, <3>1, <4>1, Zenon
    <3>2. ASSUME q = e, s = m \o b PROVE \E d \in Seq(C) : s = q \o (m \o d)
      <4>1. e \o (m \o b) = m \o b
        BY <1>1, <1>3, <1>4, Zenon
      <4>. QED
        BY <1>1, <3>2, <4>1, Zenon
    <3>3. s \in {e, m} \/ s = m \o b
      BY <1>1, Zenon
    <3>. QED
      BY <3>1, <3>2, <3>3, Zenon DEF GoesBeyond, m
  <2>. QED
    BY <1>1, <1>7, <1>8, <2>1, <2>2, Zenon DEF q, s, m
<1>9. CASE a # e
  <2>1. q = m \o a /\ Joined(m, a, q) /\ Len(a) \in Nat \ {0}
    <3>1. Joined(m, a, m \o a)
      BY <1>1, <1>3, ConcatAt
    <3>2. Len(a) \in Nat \ {0}
      BY <1>1, <1>9 DEF e
    <3>. QED
      BY <1>1, <1>9, <3>1, <3>2, Zenon
  <2>2. Len(q) >= 2 /\ q # m
    <3>. DEFINE l == Len(a)
    <3>1. Len(q) = 1 + l
      BY <1>3, <2>1, Zenon DEF Joined
    <3>2. l \in Nat \ {0}
      BY <2>1, Zenon
    <3>. HIDE DEF l
    <3>3. 1 + l >= 2 /\ 1 + l # 1
      BY <3>2
    <3>. QED
      BY <1>3, <3>1, <3>3, Zenon
  <2>3. CASE b = e
    <3>1. ~GoesBeyond(C, q, "/", s)
      <4>1. Len(s) <= 1
        <5>1. s = e \/ s = m
          BY <1>1, <2>3, Zenon
        <5>. DEFINE l == Len(s)
        <5>2. l = 0 \/ l = 1
          BY <1>3, <5>1, Zenon
        <5>. HIDE DEF l
        <5>3. l <= 1
          BY <5>2
        <5>. QED
          BY <5>3, Zenon DEF l
      <4>2. s # q
        BY <2>2, <4>1
      <4>3. ASSUME NEW d \in Seq(C), s = q \o (m \o d) PROVE FALSE
        <5>. DEFINE md == m \o d
        <5>1. md \in Seq(C)
          BY <1>3, <1>4, Zenon
        <5>2. Joined(q, md, q \o md)
          <6>. HIDE DEF md
          <6>. QED
            BY <1>5, <5>1, ConcatAt
        <5>3. Len(s) = Len(q) + Len(md)
          BY <4>3, <5>2, Zenon DEF Joined
        <5>. HIDE DEF md
        <5>4. Len(md) \in Nat /\ Len(q) \in Nat /\ Len(s) \in Nat
          BY <1>5, <5>1
        <5>. QED
          BY <2>2, <4>1, <5>3, <5>4
      <4>. QED
        BY <4>2, <4>3, Zenon DEF GoesBeyond, m
    <3>2. ~IsPrefix(Split(a, "/"), e)
      <4>. DEFINE x == Split(a, "/")
      <4>1. x \in Seq(Seq(C)) /\ x # <<>>
        BY <1>1, JoinSplit DEF Parts
      <4>. HIDE DEF x
      <4>2. Len(x) \in Nat \ {0}
        BY <4>1
      <4>3. ~IsPrefix(x, e)
        BY <1>3, <4>2 DEF IsPrefix
      <4>. QED
        BY <4>3 DEF x
    <3>. QED
      BY <1>2, <1>7, <1>9, <2>2, <2>3, <3>1, <3>2, Zenon DEF q, s, m
  <2>4. CASE b # e
    <3>. DEFINE x == Split(a, "/")
                y == Split(b, "/")
    <3>1. IsPrefix(x, y) <=> GoesBeyond(C, a, "/", b)
      <4>1. PICK sep \in C : sep = "/"
        OBVIOUS
      <4>2. IsPrefix(Split(a, sep), Split(b, sep)) <=> GoesBeyond(C, a, sep, b)
        BY <1>1, PrefixOfParts
      <4>. QED
        BY <4>1, <4>2, Zenon
    <3>2. s = m \o b
      BY <1>1, <2>4
    <3>c. \A v, w \in Seq(C) : m \o v = m \o w => v = w
      <4>. SUFFICES ASSUME NEW v \in Seq(C), NEW w \in Seq(C), m \o v = m \o w PROVE v = w
        OBVIOUS
      <4>. DEFINE mv == m \o v
                  mw == m \o w
      <4>1. Joined(m, v, mv) /\ Joined(m, w, mw)
        BY <1>3, ConcatAt
      <4>2. mv = mw
        OBVIOUS
      <4>. HIDE DEF mv, mw
      <4>3. Len(v) \in Nat /\ Len(w) \in Nat
        OBVIOUS
      <4>4. Len(v) = Len(w)
        BY <1>3, <4>1, <4>2, <4>3 DEF Joined
      <4>5. ASSUME NEW i \in 1 .. Len(v) PROVE v[i] = w[i]
        BY <4>1, <4>2, <4>4, Zenon DEF Joined
      <4>. QED
        BY <4>4, <4>5, SeqEqual
    <3>3. s = q <=> b = a
      BY <1>1, <2>1, <3>2, <3>c, Zenon
    <3>4. \A d \in Seq(C) : s = q \o (m \o d) <=> b = a \o (m \o d)
      <4>. SUFFICES ASSUME NEW d \in Seq(C) PROVE s = q \o (m \o d) <=> b = a \o (m \o d)
        OBVIOUS
      <4>. DEFINE md == m \o d
                  amd == a \o md
      <4>1. md \in Seq(C)
        BY <1>3, <1>4, Zenon
      <4>. HIDE DEF md
      <4>2. amd \in Seq(C) /\ (m \o a) \o md = m \o (a \o md)
        <5>1. a \in Seq(C) /\ m \in Seq(C)
          BY <1>1, <1>3
        <5>2. amd \in Seq(C)
          BY <1>4, <4>1, <5>1, Zenon
        <5>3. (m \o a) \o md = m \o (a \o md)
          <6>1. \A v, w, z \in Seq(C) : (v \o w) \o z = v \o (w \o z)
            BY <1>4, Zenon
          <6>2. \A w, z \in Seq(C) : (m \o w) \o z = m \o (w \o z)
            BY <5>1, <6>1, Zenon
          <6>3. \A z \in Seq(C) : (m \o a) \o z = m \o (a \o z)
            BY <5>1, <6>2, Zenon
          <6>. QED
            BY <4>1, <6>3, Zenon
        <5>. QED
          BY <5>2, <5>3
      <4>3. s = q \o md <=> m \o b = m \o amd
        BY <2>1, <3>2, <4>2, Zenon
      <4>. HIDE DEF amd
      <4>4. m \o b = m \o amd <=> b = amd
        BY <1>1, <3>c, <4>2, Zenon
      <4>. QED
        BY <4>3, <4>4, Zenon DEF amd, md
    <3>5. GoesBeyond(C, q, "/", s) <=> GoesBeyond(C, a, "/", b)
      BY <3>3, <3>4, Zenon DEF GoesBeyond, m
    <3>. QED
      BY <1>2, <1>7, <1>9, <2>2, <2>4, <3>1, <3>5, Zenon DEF q, s, m
  <2>. QED
    BY <2>3, <2>4
<1>. QED
  BY <1>8, <1>9

LEMMA UntrimmedIs ==
    ASSUME NEW C, NEW y \in Seq(C), y # <<>>, Last(y) # "/"
    PROVE  TrimRight(y) = y
<1>1. Len(y) \in Nat \ {0} /\ y[Len(y)] # "/"
  BY DEF Last
<1>2. Trims(y, Len(y), y)
  BY <1>1 DEF Trims
<1>. QED
  BY <1>2, TrimRightIs

LEMMA LastOfConcat ==
    ASSUME NEW C, NEW a \in Seq(C), NEW b \in Seq(C), b # <<>>
    PROVE  a \o b \in Seq(C) /\ a \o b # <<>> /\ Last(a \o b) = Last(b)
<1>. DEFINE t == a \o b
<1>1. t \in Seq(C) /\ Joined(a, b, t)
  BY ConcatAt
<1>2. Len(a) \in Nat /\ Len(b) \in Nat \ {0}
  OBVIOUS
<1>. HIDE DEF t
<1>3. Len(t) = Len(a) + Len(b) /\ t[Len(a) + Len(b)] = b[Len(b)]
  BY <1>1, <1>2 DEF Joined
<1>4. t # <<>> /\ Last(t) = Last(b)
  BY <1>1, <1>2, <1>3 DEF Last
<1>. QED
  BY <1>1, <1>4 DEF t

LEMMA NormalOpen ==
    ASSUME NEW P, "/" \in P, "*" \in P, NEW x \in Seq(P), EndsInside(x)
    PROVE  /\ normalizePath(x) \in Seq(P) /\ EndsInside(normalizePath(x)) /\ normalizePath(x) # <<"/">>
           /\ normalizePath(Append(x, "*")) = normalizePath(x) \o <<"*">>
           /\ normalizePath(Append(x, "*")) # <<"/">>
<1>. DEFINE m == <<"/">>
            star == <<"*">>
            y == IF x[1] = "/" THEN x ELSE m \o x
            xs == Append(x, "*")
            ys == y \o star
<1>0. /\ m \in Seq(P) /\ m # <<>> /\ Last(m) = "/"
      /\ star \in Seq(P) /\ star # <<>> /\ Last(star) = "*" /\ "*" # "/"
      /\ x # <<>> /\ Last(x) # "/" /\ Last(x) # "*"
  BY DEF EndsInside, Last
<1>. HIDE DEF m, star
<1>1. y \in Seq(P) /\ y # <<>> /\ Last(y) = Last(x)
  <2>1. m \o x \in Seq(P) /\ m \o x # <<>> /\ Last(m \o x) = Last(x)
    BY <1>0, LastOfConcat
  <2>. QED
    BY <1>0, <2>1, Zenon
<1>2. xs = x \o star /\ xs \in Seq(P) /\ xs[1] = x[1] /\ xs # <<>> /\ Last(xs) = "*"
  <2>1. xs = x \o star
    BY AppendIsConcat DEF star
  <2>2. xs \in Seq(P) /\ xs # <<>> /\ Last(xs) = "*"
    BY AppendFrontAndLast
  <2>3. Len(x) \in Nat \ {0} /\ xs[1] = x[1]
    BY <1>0
  <2>. QED
    BY <2>1, <2>2, <2>3
<1>3. ys \in Seq(P) /\ ys # <<>> /\ Last(ys) = "*"
  <2>. HIDE DEF y
  <2>. QED
    BY <1>0, <1>1, LastOfConcat
<1>4. ys = IF xs[1] = "/" THEN xs ELSE m \o xs
  <2>1. (m \o x) \o star = m \o (x \o star)
    BY <1>0, ConcatAssociative
  <2>. QED
    BY <1>2, <2>1, Zenon
<1>. HIDE DEF y, ys, xs
<1>5. normalizePath(x) = y
  <2>1. TrimRight(y) = y
    BY <1>0, <1>1, UntrimmedIs
  <2>2. x \notin {<<>>, m}
    BY <1>0, Zenon
  <2>. QED
    BY <2>1, <2>2, Zenon DEF normalizePath, y, m
<1>6. normalizePath(xs) = ys
  <2>1. TrimRight(ys) = ys
    BY <1>0, <1>3, UntrimmedIs
  <2>2. xs \notin {<<>>, m}
    BY <1>0, <1>2, Zenon
  <2>. QED
    BY <1>4, <2>1, <2>2, Zenon DEF normalizePath, m
<1>7. EndsInside(y) /\ y # m /\ ys # m
  BY <1>0, <1>1, <1>3, Zenon DEF EndsInside
<1>. QED
  BY <1>1, <1>5, <1>6, <1>7, Zenon DEF ys, xs, m, star

LEMMA StarPermits ==
    ASSUME NEW P, "/" \in P, "*" \in P, NEW x \in Seq(P), EndsInside(x), NEW S, NEW s \in Seq(S),
           isMatchPermissive(normalizePath(x), s)
    PROVE  isMatchPermissive(normalizePath(Append(x, "*")), s)
<1>. DEFINE q == normalizePath(x)
            qs == normalizePath(Append(x, "*"))
            star == <<"*">>
<1>1. q \in Seq(P) /\ EndsInside(q) /\ qs = q \o star
  BY NormalOpen
<1>. HIDE DEF q, qs
<1>2. StarWidens(q, s)
  BY <1>1, StarWidensMatch
<1>3. isMatch(q, s) \/ isMatch(q \o AnyBelow, s)
  <2>1. isMatchPermissive(q, s)
    BY DEF q
  <2>2. ~(Last(q) = "*")
    BY <1>1 DEF EndsInside
  <2>. QED
    BY <2>1, <2>2, Zenon DEF isMatchPermissive, AnyBelow
<1>4. isMatch(qs, s) \/ isMatch(qs \o AnyBelow, s)
  BY <1>1, <1>2, <1>3, Zenon DEF StarWidens
<1>5. isMatchPermissive(qs, s)
  BY <1>4, Zenon DEF isMatchPermissive, AnyBelow
<1>. QED
  BY <1>5 DEF qs

(* A pattern and a link are texts.                                            *)
LinksOK ==
    /\ pattern \in [host : Seq(Letters \union {"."}), path : Seq(Letters \union {"/", "*"})]
    /\ url \in [host : Seq(Letters \union {"."}), path : Seq(Letters \union {"/"})]

LEMMA StringsAreTexts ==
    ASSUME NEW S, NEW n \in Nat
    PROVE  Strings(S, n) \subseteq Seq(S)
<1>1. \A k \in Nat : [1 .. k -> S] \subseteq Seq(S)
  OBVIOUS
<1>2. \A k \in 0 .. n : k \in Nat
  OBVIOUS
<1>. QED
  BY <1>1, <1>2, Zenon DEF Strings

LEMMA MatchInitOK == MatchInit => LinksOK
<1>. SUFFICES ASSUME MatchInit PROVE LinksOK
  OBVIOUS
<1>1. MaxHost \in Nat /\ MaxPath \in Nat
  BY LinkMatchAssumption
<1>2. Hosts \subseteq Seq(Letters \union {"."}) /\ Paths \subseteq Seq(Letters \union {"/"})
      /\ PathGlobs \subseteq Seq(Letters \union {"/", "*"})
  BY <1>1, StringsAreTexts DEF Hosts, Paths, PathGlobs
<1>3. \A S : <<>> \in Seq(S)
  OBVIOUS
<1>4. /\ pattern.host \in Seq(Letters \union {"."}) /\ pattern.path \in Seq(Letters \union {"/", "*"})
      /\ url.host \in Seq(Letters \union {"."}) /\ url.path \in Seq(Letters \union {"/"})
  BY <1>2, <1>3 DEF MatchInit
<1>5. /\ pattern = [host |-> pattern.host, path |-> pattern.path]
      /\ url = [host |-> url.host, path |-> url.path]
  BY DEF MatchInit
<1>. QED
  BY <1>4, <1>5 DEF LinksOK

LEMMA LinksMatch == LinksOK => MatchInv
<1>. SUFFICES ASSUME LinksOK PROVE MatchInv
  OBVIOUS
<1>. DEFINE H == Letters \union {"."}
            C == Letters \union {"/"}
            P == Letters \union {"/", "*"}
<1>0. "." \in H /\ "/" \in C /\ "*" \notin C /\ "/" \in P /\ "*" \in P
  BY LinkMatchAssumption
<1>1. /\ pattern.host \in Seq(H) /\ pattern.path \in Seq(P) /\ url.host \in Seq(H) /\ url.path \in Seq(C)
      /\ pattern = [host |-> pattern.host, path |-> pattern.path]
  BY DEF LinksOK
<1>2. Paths \subseteq Seq(C)
  BY LinkMatchAssumption, StringsAreTexts DEF Paths
<1>. HIDE DEF H, C, P
<1>3. HostsMatchByLabel
  <2>. SUFFICES ASSUME pattern.path = <<>>, pattern.host # <<>>
                PROVE  HostAndPath(pattern, url) <=> IsSuffix(Labels(pattern.host), Labels(url.host))
    BY DEF HostsMatchByLabel
  <2>1. normalizePath(pattern.path) = <<"/">>
    BY Zenon DEF normalizePath
  <2>2. hostMatches(pattern.host, url.host) <=> IsSuffix(Labels(pattern.host), Labels(url.host))
    BY <1>0, <1>1, HostsByLabel
  <2>. QED
    BY <2>1, <2>2, Zenon DEF HostAndPath
<1>4. PathsMatchBelow
  <2>. SUFFICES ASSUME pattern.host = <<>>, url.host = <<>>, pattern.path \in Paths
                PROVE  HostAndPath(pattern, url) <=> IsPrefix(Segments(pattern.path), Segments(url.path))
    BY DEF PathsMatchBelow
  <2>1. pattern.path \in Seq(C)
    BY <1>2
  <2>2. hostMatches(pattern.host, url.host)
    BY Zenon DEF hostMatches
  <2>. DEFINE p == pattern.path
              u == url.path
  <2>3. p \in Seq(C) /\ u \in Seq(C)
    BY <1>1, <2>1
  <2>. HIDE DEF p, u
  <2>4. (normalizePath(p) = <<"/">> \/ isMatchPermissive(normalizePath(p), normalizePath(u)))
        <=> IsPrefix(Segments(p), Segments(u))
    BY <1>0, <2>3, PathsBelow
  <2>. QED
    BY <2>2, <2>4, Zenon DEF HostAndPath, p, u
<1>5. StarsWiden
  <2>. DEFINE wider == [pattern EXCEPT !.path = Append(@, "*")]
  <2>. SUFFICES ASSUME pattern.path # <<>>, Last(pattern.path) \notin {"/", "*"}, HostAndPath(pattern, url)
                PROVE  HostAndPath(wider, url)
    BY Zenon DEF StarsWiden
  <2>1. wider.host = pattern.host /\ wider.path = Append(pattern.path, "*")
    BY <1>1
  <2>. DEFINE x == pattern.path
              s == normalizePath(url.path)
  <2>2. x \in Seq(P) /\ EndsInside(x)
    BY <1>1 DEF EndsInside
  <2>3. s \in Seq(C)
    <3>. DEFINE u == url.path
                m == <<"/">>
    <3>1. u \in Seq(C)
      BY <1>1
    <3>. HIDE DEF u
    <3>2. /\ TrimmedPath(u) \in Seq(C)
          /\ TrimmedPath(u) = <<>> => normalizePath(u) \in {<<>>, <<"/">>}
          /\ TrimmedPath(u) # <<>> => normalizePath(u) = <<"/">> \o TrimmedPath(u)
      BY <1>0, <3>1, NormalIs
    <3>3. <<>> \in Seq(C) /\ m \in Seq(C)
      BY <1>0
    <3>4. m \o TrimmedPath(u) \in Seq(C)
      <4>. HIDE DEF m
      <4>. QED
        BY <3>2, <3>3, ConcatProperties
    <3>. QED
      BY <3>2, <3>3, <3>4, Zenon DEF u
  <2>. HIDE DEF x, s, wider
  <2>4. normalizePath(x) # <<"/">>
    BY <1>0, <2>2, NormalOpen
  <2>5. hostMatches(pattern.host, url.host) /\ isMatchPermissive(normalizePath(x), s)
    BY <2>4, Zenon DEF HostAndPath, x, s
  <2>6. isMatchPermissive(normalizePath(Append(x, "*")), s)
    BY <1>0, <2>2, <2>3, <2>5, StarPermits
  <2>. QED
    BY <2>1, <2>5, <2>6, Zenon DEF HostAndPath, x, s
<1>. QED
  BY <1>3, <1>4, <1>5 DEF MatchInv

(* A pattern permits what is at or below its host and its path, never what    *)
(* merely begins or ends alike, and a star at its end only widens it, however *)
(* long the texts are (HostAndPath).                                          *)
THEOREM LinksMatchByPart == MatchSpec => []MatchInv
<1>1. LinksOK /\ [MatchNext]_matchVars => LinksOK'
  BY DEF LinksOK, MatchNext, matchVars
<1>. QED
  BY <1>1, MatchInitOK, LinksMatch, PTL DEF MatchSpec
==============================================================================
