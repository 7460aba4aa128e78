------------------------------ MODULE Numbered ------------------------------
(***************************************************************************)
(* The quotes, autoreplies and variables of one channel (internal/bot      *)
(* cmd_quote, cmd_autoreplies, autoreplies, cmd_var and var).  Quotes and  *)
(* autoreplies are numbered by the channel and may leave gaps; a compact   *)
(* closes them.  A message is one transaction under the lock of its        *)
(* channel, so that a handler is one action; one that returns early is a   *)
(* stuttering step.                                                        *)
(***************************************************************************)
EXTENDS Integers, FiniteSets

CONSTANTS
    Sayings,        \* what quotes say
    MaxNumber,      \* bound: the highest number
    Messages,       \* chat messages, as far as triggers tell them apart
    Triggers,       \* triggers: the sets of messages they match
    Answers,        \* bound: autoreplies ever added
    ReplyCooldown,  \* 30 seconds
    MaxTime,        \* bound: the clock
    Variables,      \* names of variables
    Steps,          \* bound: by how much messages increment
    Half,           \* half of the numbers of an int64, 2 ^ 63
    Text, Unset     \* a text that is no number, and no row

ASSUME NumberedAssumption ==
    /\ MaxNumber \in Nat /\ MaxTime \in Nat /\ Answers \in Nat
    /\ ReplyCooldown \in Nat \ {0}
    /\ Triggers \subseteq SUBSET Messages
    /\ Half \in Nat \ {0}
    /\ Steps \subseteq (0 - Half) .. Half - 1

VARIABLES
    quotes,       \* quotes[num]: the row with this number
    autoreplies,  \* autoreplies[num]
    nextReply,    \* the id of the next autoreply
    cooling,      \* cooling[id]: bot_autoreply_cooldowns, until when
    answered,     \* answered[id]: when autoreply id answered last
    time,
    values        \* values[v]: the row of a variable

quoteVars == quotes
replyVars == <<autoreplies, nextReply, cooling, answered, time>>
numberedVars == <<quotes, replyVars, values>>

NoTime == 0 - ReplyCooldown

Nums(rows) == DOMAIN rows
Above(rows, start) == {n \in Nums(rows) : n >= start}
MaxNum(rows) == IF Nums(rows) = {} THEN 0 ELSE CHOOSE n \in Nums(rows) : \A m \in Nums(rows) : m <= n
Put(rows, n, r) == [m \in Nums(rows) \union {n} |-> IF m = n THEN r ELSE rows[m]]
Drop(rows, n) == [m \in Nums(rows) \ {n} |-> rows[m]]

NumberedInit ==
    /\ quotes = <<>>
    /\ autoreplies = <<>>
    /\ nextReply = 1
    /\ cooling = [i \in 1 .. Answers |-> NoTime]
    /\ answered = [i \in 1 .. Answers |-> NoTime]
    /\ time = 0
    /\ values \in [Variables -> {Unset, Text, 0}]
-----------------------------------------------------------------------------
(* Compacting.  Rows from start on take the numbers from start on, in the     *)
(* order of their numbers.  The statement moves row by row, in an order the   *)
(* planner chooses, under a UNIQUE that is not deferrable: a row that meets   *)
(* the number of one still to move makes it fail, and nothing has changed.    *)

(* Mutant: the numbers are given out from the highest down.                   *)
RankDown(rows, start, n) == Cardinality({m \in Above(rows, start) : m > n}) + start

Rank(rows, start, n) == Cardinality({m \in Above(rows, start) : m < n}) + start

Compacted(rows, start) ==
    LET below == Nums(rows) \ Above(rows, start)
        moved == {Rank(rows, start, n) : n \in Above(rows, start)}
        Old(r) == CHOOSE n \in Above(rows, start) : Rank(rows, start, n) = r
    IN [n \in below \union moved |-> IF n \in below THEN rows[n] ELSE rows[Old(n)]]

-----------------------------------------------------------------------------
(* Quotes.                                                                    *)

GetMaxQuoteNumber == MaxNum(quotes)
GetQuoteByNumber(n) == {quotes[m] : m \in Nums(quotes) \intersect {n}}
QuoteExistsAfterNumber(n) == \E m \in Nums(quotes) : m > n
InsertQuote(n, saying) == quotes' = Put(quotes, n, saying)
UpdateQuote(n, saying) == quotes' = [quotes EXCEPT ![n] = saying]
DeleteQuote(n) == quotes' = Drop(quotes, n)
CompactQuotes(start) == quotes' = Compacted(quotes, start)

cmdQuoteAdd(saying) ==
    /\ GetMaxQuoteNumber < MaxNumber
    /\ InsertQuote(GetMaxQuoteNumber + 1, saying)

cmdQuoteDelete(n) == GetQuoteByNumber(n) # {} /\ DeleteQuote(n)

cmdQuoteEdit(n, saying) ==
    /\ n > 0
    /\ \/ GetQuoteByNumber(n) # {} /\ UpdateQuote(n, saying)
       \/ /\ GetQuoteByNumber(n) = {}
          /\ QuoteExistsAfterNumber(n)
          /\ InsertQuote(n, saying)

cmdQuoteCompact(start) == start > 0 /\ CompactQuotes(start)

(* DeleteChannelCascade deletes the rows of the channel.                      *)
DeleteQuotesByChannel == quotes' = <<>>

QuotesNext ==
    /\ \/ \E s \in Sayings : cmdQuoteAdd(s)
       \/ \E n \in 0 .. MaxNumber :
              \/ cmdQuoteDelete(n)
              \/ \E s \in Sayings : cmdQuoteEdit(n, s)
              \/ cmdQuoteCompact(n)
       \/ DeleteQuotesByChannel
    /\ UNCHANGED <<replyVars, values>>
-----------------------------------------------------------------------------
(* Autoreplies.                                                               *)

GetMaxAutoreplyNumber == MaxNum(autoreplies)
InsertAutoreply(n, r) == autoreplies' = Put(autoreplies, n, r)
UpdateAutoreplyPattern(n, trigger) == autoreplies' = [autoreplies EXCEPT ![n].trigger = trigger]
UpdateAutoreplyResponse(n, regulars) == autoreplies' = [autoreplies EXCEPT ![n].regulars = regulars]
DeleteAutoreply(n) == autoreplies' = Drop(autoreplies, n)
CompactAutoreplies(start) == autoreplies' = Compacted(autoreplies, start)

cmdAutoreplyAdd(trigger, regulars) ==
    /\ GetMaxAutoreplyNumber < MaxNumber
    /\ nextReply <= Answers
    /\ InsertAutoreply(GetMaxAutoreplyNumber + 1,
           [id |-> nextReply, trigger |-> trigger, regulars |-> regulars])
    /\ nextReply' = nextReply + 1

cmdAutoreplyDelete(n) == n \in Nums(autoreplies) /\ DeleteAutoreply(n)
cmdAutoreplyEditResponse(n, regulars) == n \in Nums(autoreplies) /\ UpdateAutoreplyResponse(n, regulars)
cmdAutoreplyEditPattern(n, trigger) == n \in Nums(autoreplies) /\ UpdateAutoreplyPattern(n, trigger)
cmdAutoreplyCompact(start) == start > 0 /\ CompactAutoreplies(start)

DeleteAutorepliesByChannel == autoreplies' = <<>>

EditReplies ==
    \/ DeleteAutorepliesByChannel
    \/ \E n \in 1 .. MaxNumber :
           \/ cmdAutoreplyDelete(n)
           \/ \E regulars \in BOOLEAN : cmdAutoreplyEditResponse(n, regulars)
           \/ \E trigger \in Triggers : cmdAutoreplyEditPattern(n, trigger)
           \/ cmdAutoreplyCompact(n)

(* The numbers of the autoreplies that a message of a regular, or not, may    *)
(* get as its answer, the ones that rest for now included.                    *)
Matching(rows, message, regular) ==
    {n \in Nums(rows) : message \in rows[n].trigger /\ (rows[n].regulars => regular)}

RestsBy(n) == autoreplies[n].id

AutoreplyAllowed(n) == cooling[RestsBy(n)] <= time

(* The first that matches and does not rest answers.                          *)
tryAutoreplies(message, regular) ==
    \E n \in Matching(autoreplies, message, regular) :
        /\ AutoreplyAllowed(n)
        /\ \A m \in Matching(autoreplies, message, regular) : m < n => ~AutoreplyAllowed(m)
        /\ cooling' = [cooling EXCEPT ![RestsBy(n)] = time + ReplyCooldown]
        /\ answered' = [answered EXCEPT ![autoreplies[n].id] = time]

(* A row that is gone and one that has expired are alike (AutoreplyAllowed).  *)
BotStateCleanupAutoreplyCooldowns ==
    cooling' = [i \in 1 .. Answers |-> IF cooling[i] < time THEN NoTime ELSE cooling[i]]

RepliesNext ==
    /\ \/ \E trigger \in Triggers, regulars \in BOOLEAN : cmdAutoreplyAdd(trigger, regulars)
          /\ UNCHANGED <<cooling, answered, time>>
       \/ BotStateCleanupAutoreplyCooldowns /\ UNCHANGED <<autoreplies, nextReply, answered, time>>
       \/ EditReplies /\ UNCHANGED <<nextReply, cooling, answered, time>>
       \/ \E message \in Messages, regular \in BOOLEAN : tryAutoreplies(message, regular)
          /\ UNCHANGED <<autoreplies, nextReply, time>>
       \/ time < MaxTime /\ time' = time + 1 /\ UNCHANGED <<autoreplies, nextReply, cooling, answered>>
    /\ UNCHANGED <<quotes, values>>
-----------------------------------------------------------------------------
(* Variables: a row has a text, which may be the text of a number.            *)

(* A sum of two int64.                                                        *)
Wrap(x) == ((x + Half) % (2 * Half)) - Half

Ints == Wrap(Half) .. Half - 1

VarSet(v, value) == values' = [values EXCEPT ![v] = value]
DeleteVariablesByChannel == values' = [v \in Variables |-> Unset]
VarDelete(v) == values' = [values EXCEPT ![v] = Unset]
GetVariable(v) == values[v]

Incremented(v, inc) == IF GetVariable(v) = Unset THEN inc ELSE Wrap(GetVariable(v) + inc)

VarIncrement(v, inc) ==
    /\ GetVariable(v) # Text
    /\ VarSet(v, Incremented(v, inc))

cmdVarIncrement(v, cmd, inc) ==
    VarIncrement(v, IF cmd = "decrement" THEN Wrap(0 - inc) ELSE inc)

ValuesNext ==
    /\ \/ DeleteVariablesByChannel
       \/ \E v \in Variables :
           \/ \E value \in {Text} \union Ints : VarSet(v, value)
           \/ VarDelete(v)
           \/ \E cmd \in {"increment", "decrement"}, inc \in Steps : cmdVarIncrement(v, cmd, inc)
    /\ UNCHANGED <<quotes, replyVars>>

NumberedNext == QuotesNext \/ RepliesNext \/ ValuesNext

NumberedSpec == NumberedInit /\ [][NumberedNext]_numberedVars
-----------------------------------------------------------------------------
NumberedTypeOK ==
    /\ Nums(quotes) \subseteq 1 .. MaxNumber
    /\ \A n \in Nums(quotes) : quotes[n] \in Sayings
    /\ Nums(autoreplies) \subseteq 1 .. MaxNumber
    /\ \A n \in Nums(autoreplies) :
           autoreplies[n] \in [id : 1 .. Answers, trigger : Triggers, regulars : BOOLEAN]
    /\ nextReply \in 1 .. Answers + 1
    /\ cooling \in [1 .. Answers -> Int]
    /\ answered \in [1 .. Answers -> Int]
    /\ time \in 0 .. MaxTime
    /\ \A v \in Variables : values[v] \in {Unset, Text} \/ values[v] \in Ints

(* A compact closes the gaps from its number on and nothing else: the rows    *)
(* keep their order, those below keep their numbers, and no row is lost       *)
(* (CompactQuotes, CompactAutoreplies).                                       *)
CompactKeepsOrder ==
    \A start \in 1 .. MaxNumber :
        LET after == Compacted(quotes, start)
            below == Nums(quotes) \ Above(quotes, start)
        IN /\ Nums(after) = below \union (start .. start + Cardinality(Above(quotes, start)) - 1)
           /\ \A n \in below : after[n] = quotes[n]
           /\ \E New \in [Nums(quotes) -> Nums(after)] :
                 /\ \A n \in Nums(quotes) : after[New[n]] = quotes[n]
                 /\ \A m, n \in Nums(quotes) : m < n => New[m] < New[n]

(* A compact of the autoreplies never changes which one answers a message:    *)
(* the first match is the one with the lowest number (tryAutoreplies).        *)
CompactKeepsAnswers ==
    \A start \in 1 .. MaxNumber, message \in Messages, regular \in BOOLEAN :
        LET First(rows) ==
                LET all == Matching(rows, message, regular)
                IN {rows[n].id : n \in {m \in all : \A l \in all : m <= l}}
        IN First(Compacted(autoreplies, start)) = First(autoreplies)

(* The numbers only ever grow by one, and only to number a quote that is      *)
(* added last: an edit fills a gap and never makes one (cmdQuoteEdit).        *)
NumbersGrowByOne ==
    [][MaxNum(quotes') > MaxNum(quotes) =>
          Nums(quotes') = Nums(quotes) \union {MaxNum(quotes) + 1}]_numberedVars

(* An autoreply rests after it has answered, also when it is edited or gets   *)
(* another number, and another one with its old number does not rest for it   *)
(* (AutoreplyAllowed, by the id of the row).                                  *)
RepliesApart ==
    [][\A i \in 1 .. Answers :
          answered'[i] # answered[i] => answered'[i] >= answered[i] + ReplyCooldown]_numberedVars

(* An increment is undone by the decrement of as much, also when the sum      *)
(* leaves the range of int64 in between (VarIncrement).                       *)
DecrementUndoes ==
    \A v \in Variables : values[v] \notin {Unset, Text} =>
        \A inc \in Ints : Wrap(Incremented(v, inc) + Wrap(0 - inc)) = values[v]

(* Numbers stay in order, answers do not depend on the gaps between them, and *)
(* variables wrap round without loss.                                         *)
NumberedInv == NumberedTypeOK /\ CompactKeepsOrder /\ CompactKeepsAnswers /\ DecrementUndoes
=============================================================================
