------------------------------ MODULE Templates ------------------------------
(***************************************************************************)
(* The texts of commands as they are written (internal/cbp): how a text is *)
(* parsed, one round of a loop of Parse after the other, also when it is   *)
(* malformed.  A list of nodes is kept as it is written out: an action is  *)
(* the item that opens it, its children, and the item that ends it.        *)
(***************************************************************************)
EXTENDS Naturals, FiniteSets, Sequences, SequencesExt

CONSTANTS
    Char,           \* the characters of texts
    MaxInput        \* bound: characters of a text

ASSUME TemplatesAssumption ==
    /\ {"(", "_", ")"} \subseteq Char
    /\ MaxInput \in Nat

VARIABLES
    input,          \* the text
    rest,           \* what of it is not scanned yet
    ahead,          \* the separator the scanner has found next, <<>> if none
    stack,          \* the lists of nodes of the actions that are open
    malformed,      \* has something been given up
    separators      \* history: the separators that were scanned

templateVars == <<input, rest, ahead, stack, malformed, separators>>

Open  == <<"(", "_">>
Close == <<"_", ")">>

Item == [kind : {"text", "action", "end"}, text : Seq(Char)]

TextItem(s) == [kind |-> "text", text |-> s]
ActionItem  == [kind |-> "action", text |-> Open]
EndItem     == [kind |-> "end", text |-> Close]

IsText(item) == item.kind = "text"
NodesString(nodes) == FlattenSeq([k \in DOMAIN nodes |-> nodes[k].text])

SepAt(s, k) == k < Len(s) /\ <<s[k], s[k + 1]>> \in {Open, Close}
Seps(s) == {k \in DOMAIN s : SepAt(s, k)}

(* Where the text before the next separator ends, and that separator.         *)
FindsSep(s, end, sep) ==
    \/ Seps(s) = {} /\ end = Len(s) /\ sep = <<>>
    \/ /\ end + 1 \in Seps(s) /\ \A k \in Seps(s) : end < k
       /\ sep = <<s[end + 1], s[end + 2]>>

appendText(nodes, s) ==
    IF nodes # <<>> /\ IsText(Last(nodes))
    THEN Append(Front(nodes), TextItem(Last(nodes).text \o s))
    ELSE Append(nodes, TextItem(s))

(* Only the first of an action's children can come to stand after a text.     *)
appendNodes(nodes, children) ==
    IF children # <<>> /\ IsText(Head(children))
    THEN appendText(nodes, Head(children).text) \o Tail(children)
    ELSE nodes \o children

Replace(nodes) == stack' = Append(Front(stack), nodes)

scanText ==
    /\ rest # <<>> /\ ahead = <<>>
    /\ \E end \in 0 .. Len(rest) :
           /\ FindsSep(rest, end, ahead')
           /\ IF end = 0 THEN UNCHANGED stack
              ELSE Replace(appendText(Last(stack), SubSeq(rest, 1, end)))
           /\ rest' = SubSeq(rest, end + 1, Len(rest))
    /\ UNCHANGED <<input, malformed, separators>>

scanSep ==
    /\ rest # <<>> /\ ahead # <<>>
    /\ rest' = SubSeq(rest, 3, Len(rest))
    /\ ahead' = <<>>
    /\ separators' = Append(separators, ahead)
    /\ UNCHANGED input

OpenAction ==
    /\ scanSep
    /\ ahead = Open
    /\ stack' = Append(stack, <<>>)
    /\ UNCHANGED malformed

CloseAction ==
    /\ scanSep
    /\ ahead = Close /\ Len(stack) > 1
    /\ LET opened == Front(stack)
       IN stack' = Append(Front(opened), Last(opened) \o <<ActionItem>> \o Last(stack) \o <<EndItem>>)
    /\ UNCHANGED malformed

StrayClose ==
    /\ scanSep
    /\ ahead = Close /\ Len(stack) <= 1
    /\ Replace(appendText(Last(stack), Close))
    /\ malformed' = TRUE

(* An action that was never closed becomes text again.                        *)
GiveUp ==
    /\ rest = <<>> /\ Len(stack) > 1
    /\ LET opened == Front(stack)
       IN stack' = Append(Front(opened), appendNodes(appendText(Last(opened), Open), Last(stack)))
    /\ malformed' = TRUE
    /\ UNCHANGED <<input, rest, ahead, separators>>

Parse == scanText \/ OpenAction \/ CloseAction \/ StrayClose \/ GiveUp

Parsed == rest = <<>> /\ Len(stack) = 1

Parses(s) ==
    /\ input = s /\ rest = s
    /\ ahead = <<>> /\ stack = <<<<>>>> /\ separators = <<>>
    /\ malformed = FALSE

TemplatesInit == \E n \in 0 .. MaxInput : \E s \in [1 .. n -> Char] : Parses(s)

TemplatesSpec == TemplatesInit /\ [][Parse]_templateVars
-----------------------------------------------------------------------------
(* What was written can be had back from what was parsed, also when it was    *)
(* malformed (Parse, NodesString).                                            *)
ParseKeepsTheText == Parsed => NodesString(Last(stack)) = input

(* Texts are whole: none is empty and none follows another, also where        *)
(* actions were given up (appendText, Parse).                                 *)
TextsAreWhole ==
    \A i \in DOMAIN stack : \A k \in DOMAIN stack[i] :
        IsText(stack[i][k]) =>
            /\ stack[i][k].text # <<>>
            /\ k > 1 => ~IsText(stack[i][k - 1])

(* A text is called malformed exactly if its separators do not balance        *)
(* (Parse): a "_)" closes the last open "(_", and none is left.               *)
Count(sep, n) == Cardinality({k \in 1 .. n : separators[k] = sep})

Unbalanced ==
    \/ \E n \in DOMAIN separators : Count(Close, n) > Count(Open, n)
    \/ Count(Close, Len(separators)) # Count(Open, Len(separators))

MalformedIsUnbalanced == Parsed => (malformed <=> Unbalanced)

(* Every round of the loops leaves less to do (Parse, scan): characters that  *)
(* are not scanned, a separator to look for, actions that are open.           *)
Effort == 2 * Len(rest) + (IF ahead = <<>> THEN 1 ELSE 0) + Len(stack)
LessToDo == {Effort, Effort'} \subseteq Nat /\ Effort' < Effort
ParsingShrinks == [][LessToDo]_templateVars

(* Texts are parsed without loss.                                             *)
TemplatesInv == ParseKeepsTheText /\ TextsAreWhole /\ MalformedIsUnbalanced
=============================================================================
