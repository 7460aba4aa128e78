----------------------------- MODULE LiveState ------------------------------
(***************************************************************************)
(* What the transient state of a channel promises its sessions, whatever   *)
(* is in its tables (internal/db/botstate).  An entry begins with the      *)
(* operation that gives it, lives exactly as long as it is given, and ends *)
(* before that only with the operation that uses it up.  What a session is *)
(* told is counted, so that no entry is overlooked while it lives and none *)
(* counts after its end.  There is no cleanup: none may be seen.           *)
(***************************************************************************)
EXTENDS Naturals

CONSTANTS
    Cooldowns,     \* keys of cooldowns
    Exempting,     \* those that do not hold moderators up
    Lasts,         \* Lasts[key]: how long the cooldown of a key is
    Members,       \* users
    PermitTime, ConfirmTime, FirstWarning, NextWarning

VARIABLES
    clock,
    live,    \* live[k]: how long entry k has to live, 0 when it is not there
    uses,    \* uses[key]: how often somebody not exempt was let through
    calls    \* calls[op][u]: how often u was granted, let use or asked for it, or confirmed

Granted == {"permit", "permitted", "confirm", "confirmed"}

Cooldown(key) == <<"cooldown", key>>
Permit(u) == <<"permit", u>>
Confirmation(u) == <<"confirm", u>>
Warning(u) == <<"warning", u>>
Keys == {Cooldown(key) : key \in Cooldowns} \union {<<t, u>> : t \in {"permit", "confirm", "warning"}, u \in Members}

Init ==
    /\ clock = 0
    /\ live = [k \in Keys |-> 0]
    /\ uses = [key \in Cooldowns |-> 0]
    /\ calls = [op \in Granted |-> [u \in Members |-> 0]]

Lives(k) == live[k] > 0
Give(k, life) == live' = [live EXCEPT ![k] = life]
UseUp(k) == Lives(k) /\ live' = [live EXCEPT ![k] = 0]
Count(op, u) == calls' = [calls EXCEPT ![op][u] = @ + 1]
-----------------------------------------------------------------------------
(* Who is not exempt is let through when the cooldown is over, and begins it. *)
LetThrough(key) ==
    /\ \/ Lasts[key] = 0 /\ UNCHANGED live
       \/ Lasts[key] > 0 /\ ~Lives(Cooldown(key)) /\ Give(Cooldown(key), Lasts[key])
    /\ uses' = [uses EXCEPT ![key] = @ + 1]
    /\ UNCHANGED <<clock, calls>>

(* A moderator is let through, and begins it anew.                            *)
Exempt(key) ==
    /\ key \in Exempting /\ Lasts[key] > 0
    /\ Give(Cooldown(key), Lasts[key])
    /\ UNCHANGED <<clock, uses, calls>>

Grant(u) == Give(Permit(u), PermitTime) /\ Count("permit", u) /\ UNCHANGED <<clock, uses>>
Consume(u) == UseUp(Permit(u)) /\ Count("permitted", u) /\ UNCHANGED <<clock, uses>>

Ask(u) ==
    /\ ~Lives(Confirmation(u))
    /\ Give(Confirmation(u), ConfirmTime)
    /\ Count("confirm", u)
    /\ UNCHANGED <<clock, uses>>

Confirm(u) ==
    /\ UseUp(Confirmation(u))
    /\ calls' = [calls EXCEPT !["confirm"][u] = @ + 1, !["confirmed"][u] = @ + 1]
    /\ UNCHANGED <<clock, uses>>

Warn(u) ==
    /\ Give(Warning(u), IF Lives(Warning(u)) THEN NextWarning ELSE FirstWarning)
    /\ UNCHANGED <<clock, uses, calls>>

(* Time passes for all entries alike.                                         *)
Pass ==
    /\ clock' = clock + 1
    /\ live' = [k \in Keys |-> IF Lives(k) THEN live[k] - 1 ELSE 0]
    /\ UNCHANGED <<uses, calls>>

Next ==
    \/ \E key \in Cooldowns : LetThrough(key) \/ Exempt(key)
    \/ \E u \in Members : Grant(u) \/ Consume(u) \/ Ask(u) \/ Confirm(u) \/ Warn(u)
    \/ Pass

liveVars == <<clock, live, uses, calls>>

Spec == Init /\ [][Next]_liveVars
=============================================================================
