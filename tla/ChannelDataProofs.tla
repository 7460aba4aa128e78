------------------------- MODULE ChannelDataProofs -------------------------
(***************************************************************************)
(* Proofs about the data of a channel, each part on its own as its         *)
(* specification has it: the transient state (ChannelState), the commands  *)
(* and lists (Commands) and the numbered rows and variables (Numbered).    *)
(* They hold for any users, names, rows, numbers and durations.            *)
(***************************************************************************)
EXTENDS ChannelData, FiniteSetTheorems, TLAPS

------------------------------------------------------------------------------
(* 1. The transient state of a channel                                        *)

(* An entry that was asked for and not used yet counts as half a confirmation,*)
(* a permit to be used, a win to come.                                        *)
Held(k) == IF expires[k] > 0 THEN 1 ELSE 0
Entered(u) == IF u \in entries THEN 1 ELSE 0

ConfirmationsLeft ==
    \A u \in Members :
        2 * calls["confirmed"][u] + Held(State!Confirmation(u)) <= calls["confirm"][u]
PermitsLeft ==
    \A u \in Members :
        calls["permitted"][u] + Held(State!Permit(u)) <= calls["permit"][u]
EntriesLeft ==
    \A u \in Entrants : calls["win"][u] + Entered(u) <= calls["enter"][u]

(* A cooldown lasts as long after the last use as it should, and its row goes *)
(* only when it is over.                                                      *)
CooldownsLast ==
    \A key \in Cooldowns :
        /\ lastUse[key] <= State!Now
        /\ \/ lastUse[key] = 0
           \/ expires[State!Cooldown(key)] = lastUse[key] + Seconds(key)
           \/ lastUse[key] + Seconds(key) <= State!Now

IsState == expires \in [State!StateKeys -> Nat]

StateInv ==
    /\ ChannelStateTypeOK /\ IsState
    /\ ConfirmationsLeft /\ PermitsLeft /\ EntriesLeft
    /\ CooldownsLast

------------------------------------------------------------------------------
(* Keys and times *)

LEMMA SecondsType ==
    /\ \A key \in Cooldowns : Seconds(key) \in Nat /\ Seconds(key) \in Lives
    /\ {ConfirmTime, PermitTime, FirstWarning, NextWarning} \subseteq Lives
    /\ Lives \subseteq Nat
    /\ {HighlightTime, ConfirmTime, PermitTime, FirstWarning, NextWarning} \subseteq Nat \ {0}
    /\ {MaxClock, MaxCalls} \subseteq Nat
<1>1. \A key \in Cooldowns : Seconds(key) \in Nat
  BY ChannelStateAssumption DEF Cooldowns, Seconds, CommandCooldown
<1>. QED
  BY <1>1, ChannelStateAssumption DEF Lives

LEMMA KeysApart ==
    /\ \A key \in Cooldowns : State!Cooldown(key) \in State!StateKeys
    /\ \A u \in Members :
          /\ State!Permit(u) \in State!StateKeys
          /\ State!Confirmation(u) \in State!StateKeys
          /\ State!Warning(u) \in State!StateKeys
    /\ \A k1, k2 \in Cooldowns : State!Cooldown(k1) = State!Cooldown(k2) => k1 = k2
    /\ \A u, v \in Members :
          /\ State!Permit(u) = State!Permit(v) => u = v
          /\ State!Confirmation(u) = State!Confirmation(v) => u = v
          /\ State!Permit(u) # State!Confirmation(v)
          /\ State!Warning(u) # State!Confirmation(v)
          /\ State!Warning(u) # State!Permit(v)
    /\ \A key \in Cooldowns, u \in Members :
          /\ State!Cooldown(key) # State!Permit(u)
          /\ State!Cooldown(key) # State!Confirmation(u)
          /\ State!Cooldown(key) # State!Warning(u)
BY DEF State!StateKeys, State!Cooldown, State!Permit, State!Confirmation, State!Warning

(* A row that a call writes keeps to the lives of its kind.                   *)
LEMMA UpsertType ==
    ASSUME StateInv, NEW k \in State!StateKeys, NEW life \in Lives,
           State!Upsert(k, State!Now + life), UNCHANGED clock
    PROVE  /\ IsState'
           /\ (\A j \in State!StateKeys : \E l \in Lives : expires[j] \in 0 .. State!Now + l)'
           /\ \A j \in State!StateKeys \ {k} : expires'[j] = expires[j]
           /\ expires'[k] = State!Now + life
<1>1. life \in Nat /\ clock \in Nat
  BY SecondsType DEF StateInv, ChannelStateTypeOK
<1>2. expires' = [expires EXCEPT ![k] = State!Now + life] /\ clock' = clock
  BY DEF State!Upsert
<1>3. State!Now' = State!Now /\ State!Now \in Nat
  BY <1>1, <1>2 DEF State!Now, State!BotStateCurrentTime
<1>. QED
  BY <1>1, <1>2, <1>3 DEF StateInv, ChannelStateTypeOK, IsState

LEMMA DeleteType ==
    ASSUME StateInv, NEW k \in State!StateKeys, State!Delete(k), UNCHANGED clock
    PROVE  /\ IsState'
           /\ (\A j \in State!StateKeys : \E l \in Lives : expires[j] \in 0 .. State!Now + l)'
           /\ \A j \in State!StateKeys \ {k} : expires'[j] = expires[j]
           /\ expires'[k] = 0
<1>1. clock \in Nat /\ Lives \subseteq Nat
  BY SecondsType DEF StateInv, ChannelStateTypeOK
<1>2. expires' = [expires EXCEPT ![k] = 0] /\ clock' = clock
  BY DEF State!Delete
<1>3. State!Now' = State!Now /\ State!Now \in Nat
  BY <1>1, <1>2 DEF State!Now, State!BotStateCurrentTime
<1>. QED
  BY <1>1, <1>2, <1>3 DEF StateInv, ChannelStateTypeOK, IsState

------------------------------------------------------------------------------
(* The invariant *)

LEMMA StateInit == ChannelStateInit => StateInv
<1>. SUFFICES ASSUME ChannelStateInit PROVE StateInv
  OBVIOUS
<1>1. State!Now = 1 /\ MaxClock \in Nat /\ MaxCalls \in Nat /\ FirstWarning \in Lives /\ FirstWarning \in Nat
  BY SecondsType DEF ChannelStateInit, State!Now, State!BotStateCurrentTime
<1>2. \A k \in State!StateKeys : \E life \in Lives : expires[k] \in 0 .. State!Now + life
  BY <1>1 DEF ChannelStateInit
<1>3. ChannelStateTypeOK /\ IsState
  <2>1. calls \in [Counted -> [Members \union Entrants -> 0 .. MaxCalls]]
    <3>. [x \in Members \union Entrants |-> 0] \in [Members \union Entrants -> 0 .. MaxCalls]
      BY <1>1
    <3>. QED
      BY DEF ChannelStateInit
  <2>2. entries \subseteq Entrants /\ enabled \in BOOLEAN
    BY DEF ChannelStateInit
  <2>4. clock \in 0 .. MaxClock /\ IsState
    BY <1>1 DEF ChannelStateInit, IsState
  <2>3. uses \in [Cooldowns -> 0 .. MaxCalls] /\ lastUse \in [Cooldowns -> 0 .. MaxClock + 1]
    BY <1>1 DEF ChannelStateInit
  <2>. QED
    BY <1>2, <2>1, <2>2, <2>3, <2>4 DEF ChannelStateTypeOK
<1>4. ConfirmationsLeft /\ PermitsLeft /\ EntriesLeft
  BY KeysApart DEF ChannelStateInit, ConfirmationsLeft, PermitsLeft, EntriesLeft, Held, Entered, Counted
<1>5. CooldownsLast
  BY DEF ChannelStateInit, CooldownsLast, State!Now, State!BotStateCurrentTime
<1>. QED
  BY <1>3, <1>4, <1>5 DEF StateInv

(* What a use of a cooldown does to its row.                                  *)
LEMMA UseEffect ==
    ASSUME NEW key \in Cooldowns, NEW moderator \in BOOLEAN, Use(key, moderator)
    PROVE  \/ /\ Seconds(key) = 0
              /\ UNCHANGED expires
           \/ /\ Seconds(key) # 0
              /\ State!Upsert(State!Cooldown(key), State!Now + Seconds(key))
              /\ uses' # uses => expires[State!Cooldown(key)] <= State!Now
<1>. USE DEF tryCooldown, State!MarkCooldown, State!CheckAndMarkCooldown,
             State!BotStateMarkCommandCooldown, State!BotStateCheckAndMarkCommandCooldown
<1>1. CASE key = "command_cooldown"
  <2>1. TryCooldown(moderator) /\ Seconds(key) = CommandCooldown
    BY <1>1 DEF Use, Seconds
  <2>. QED
    BY <1>1, <2>1 DEF Use, TryCooldown
<1>2. CASE key = "roll_cooldown"
  <2>1. TryRollCooldown(moderator) /\ Seconds(key) = RollCooldown
    BY <1>2 DEF Use, Seconds
  <2>. QED
    BY <1>2, <2>1 DEF Use, TryRollCooldown
<1>3. CASE key = "ht_cooldown"
  <2>1. TryHighlightCooldown /\ Seconds(key) = HighlightTime
    BY <1>3 DEF Use, Seconds
  <2>. QED
    BY <1>3, <2>1, SecondsType DEF Use, TryHighlightCooldown
<1>. QED
  BY <1>1, <1>2, <1>3 DEF Cooldowns

LEMMA UseStep ==
    ASSUME StateInv, NEW key \in Cooldowns, NEW moderator \in BOOLEAN, Use(key, moderator)
    PROVE  StateInv'
<1>. DEFINE k == State!Cooldown(key)
<1>0. /\ Seconds(key) \in Lives /\ Seconds(key) \in Nat /\ k \in State!StateKeys
      /\ UNCHANGED <<clock, entries, enabled, calls>>
      /\ clock \in Nat /\ MaxCalls \in Nat /\ MaxClock \in Nat
  BY SecondsType, KeysApart DEF Use, StateInv, ChannelStateTypeOK
<1>1. State!Now' = State!Now /\ State!Now \in Nat /\ State!Now \in 1 .. MaxClock + 1
  BY <1>0 DEF State!Now, State!BotStateCurrentTime, StateInv, ChannelStateTypeOK
<1>2. /\ IsState'
      /\ (\A j \in State!StateKeys : \E l \in Lives : expires[j] \in 0 .. State!Now + l)'
      /\ \A j \in State!StateKeys \ {k} : expires'[j] = expires[j]
      /\ Seconds(key) = 0 \/ expires'[k] = State!Now + Seconds(key)
  <2>1. CASE UNCHANGED expires /\ Seconds(key) = 0
    BY <1>1, <2>1 DEF StateInv, ChannelStateTypeOK, IsState
  <2>2. CASE State!Upsert(k, State!Now + Seconds(key))
    BY <1>0, <2>2, UpsertType
  <2>. QED
    BY <2>1, <2>2, UseEffect
<1>3. /\ lastUse' = [lastUse EXCEPT ![key] = State!Now]
      /\ uses' = uses \/ (uses[key] < MaxCalls /\ uses' = [uses EXCEPT ![key] = @ + 1])
  BY DEF Use
<1>4. ChannelStateTypeOK'
  <2>1. uses' \in [Cooldowns -> 0 .. MaxCalls] /\ lastUse' \in [Cooldowns -> 0 .. MaxClock + 1]
    BY <1>0, <1>1, <1>3 DEF StateInv, ChannelStateTypeOK
  <2>. QED
    BY <1>0, <1>2, <2>1 DEF StateInv, ChannelStateTypeOK
<1>5. \A u \in Members : /\ expires'[State!Permit(u)] = expires[State!Permit(u)]
                         /\ expires'[State!Confirmation(u)] = expires[State!Confirmation(u)]
  BY <1>2, KeysApart
<1>6. ConfirmationsLeft' /\ PermitsLeft' /\ EntriesLeft'
  BY <1>0, <1>5 DEF StateInv, ConfirmationsLeft, PermitsLeft, EntriesLeft, Held, Entered,
                    State!Confirmation, State!Permit
<1>7. CooldownsLast'
  <2>. SUFFICES ASSUME NEW other \in Cooldowns
                PROVE  /\ lastUse'[other] <= State!Now'
                       /\ \/ lastUse'[other] = 0
                          \/ expires'[State!Cooldown(other)] = lastUse'[other] + Seconds(other)
                          \/ lastUse'[other] + Seconds(other) <= State!Now'
    BY DEF CooldownsLast
  <2>1. CASE other = key
    BY <1>1, <1>2, <1>3, <2>1, <1>0 DEF StateInv, ChannelStateTypeOK
  <2>2. CASE other # key
    <3>1. lastUse'[other] = lastUse[other] /\ State!Cooldown(other) # k
      BY <1>3, <2>2, KeysApart DEF StateInv, ChannelStateTypeOK
    <3>2. expires'[State!Cooldown(other)] = expires[State!Cooldown(other)]
      BY <1>2, <3>1, KeysApart
    <3>. QED
      BY <1>1, <3>1, <3>2 DEF StateInv, CooldownsLast
  <2>. QED
    BY <2>1, <2>2
<1>. QED
  BY <1>2, <1>4, <1>6, <1>7 DEF StateInv

(* Writing a row that is not a cooldown, with the counts that go with it.     *)
LEMMA RowStep ==
    ASSUME StateInv, NEW k \in State!StateKeys,
           \A key \in Cooldowns : State!Cooldown(key) # k,
           \/ \E life \in Lives : State!Upsert(k, State!Now + life)
           \/ State!Delete(k),
           UNCHANGED <<clock, entries, enabled, uses, lastUse>>,
           calls' \in [Counted -> [Members \union Entrants -> 0 .. MaxCalls]],
           ConfirmationsLeft', PermitsLeft', EntriesLeft'
    PROVE  StateInv'
<1>1. /\ IsState'
      /\ (\A j \in State!StateKeys : \E l \in Lives : expires[j] \in 0 .. State!Now + l)'
      /\ \A j \in State!StateKeys \ {k} : expires'[j] = expires[j]
  <2>1. CASE State!Delete(k)
    BY <2>1, DeleteType
  <2>2. ASSUME NEW life \in Lives, State!Upsert(k, State!Now + life) PROVE <1>1
    BY <2>2, UpsertType
  <2>. QED
    BY <2>1, <2>2
<1>2. ChannelStateTypeOK'
  BY <1>1 DEF StateInv, ChannelStateTypeOK
<1>3. \A key \in Cooldowns : expires'[State!Cooldown(key)] = expires[State!Cooldown(key)]
  BY <1>1, KeysApart
<1>4. State!Now' = State!Now
  BY DEF State!Now, State!BotStateCurrentTime
<1>5. CooldownsLast'
  BY <1>3, <1>4 DEF StateInv, CooldownsLast
<1>. QED
  BY <1>1, <1>2, <1>5 DEF StateInv

LEMMA AskStep ==
    ASSUME StateInv, NEW u \in Members, Ask(u)
    PROVE  StateInv'
<1>a. UNCHANGED <<clock, entries, enabled, uses, lastUse>>
  BY DEF Ask
<1>b. /\ calls \in [Counted -> [Members \union Entrants -> 0 .. MaxCalls]]
      /\ expires \in [State!StateKeys -> Nat]
  BY DEF StateInv, ChannelStateTypeOK, IsState
<1>c. MaxCalls \in Nat /\ clock \in Nat
  BY SecondsType DEF StateInv, ChannelStateTypeOK
<1>0. /\ UNCHANGED <<clock, entries, enabled, uses, lastUse>>
      /\ u \in Members \union Entrants
      /\ calls \in [Counted -> [Members \union Entrants -> 0 .. MaxCalls]]
      /\ MaxCalls \in Nat
      /\ expires \in [State!StateKeys -> Nat]
      /\ clock \in Nat
  BY <1>a, <1>b, <1>c
<1>d. \A key \in Cooldowns : /\ State!Cooldown(key) # State!Permit(u)
                             /\ State!Cooldown(key) # State!Confirmation(u)
                             /\ State!Cooldown(key) # State!Warning(u)
  BY KeysApart
<1>1. /\ {PermitTime, ConfirmTime, NextWarning, FirstWarning} \subseteq Lives
      /\ {PermitTime, ConfirmTime, NextWarning, FirstWarning} \subseteq Nat \ {0}
      /\ State!Permit(u) \in State!StateKeys
      /\ State!Confirmation(u) \in State!StateKeys
      /\ State!Warning(u) \in State!StateKeys
      /\ State!Now \in Nat
  BY <1>0, SecondsType, KeysApart DEF State!Now, State!BotStateCurrentTime
<1>2. /\ \A v \in Members : 2 * calls["confirmed"][v] + Held(State!Confirmation(v)) <= calls["confirm"][v]
      /\ \A v \in Members : calls["permitted"][v] + Held(State!Permit(v)) <= calls["permit"][v]
      /\ \A v \in Entrants : calls["win"][v] + Entered(v) <= calls["enter"][v]
  BY DEF StateInv, ConfirmationsLeft, PermitsLeft, EntriesLeft
<1>3. \A op \in Counted, v \in Members \union Entrants : calls[op][v] \in 0 .. MaxCalls
  BY <1>0
<1>4. CASE LinkPermit(u)
  <2>1. /\ State!Upsert(State!Permit(u), State!Now + PermitTime)
        /\ calls' = [calls EXCEPT !["permit"][u] = @ + 1]
        /\ calls["permit"][u] < MaxCalls
    BY <1>4 DEF LinkPermit, State!LinkPermit, State!BotStateGrantLinkPermit, Count, MayCall
  <2>2. calls' \in [Counted -> [Members \union Entrants -> 0 .. MaxCalls]]
    BY <1>0, <2>1 DEF Counted
  <2>3. \A v \in Members : /\ calls'["permit"][v] = calls["permit"][v] + IF v = u THEN 1 ELSE 0
                           /\ \A op \in Counted \ {"permit"} : calls'[op][v] = calls[op][v]
    BY <1>0, <1>3, <2>1 DEF Counted
  <2>4. \A v \in Entrants : \A op \in Counted \ {"permit"} : calls'[op][v] = calls[op][v]
    BY <1>0, <2>1 DEF Counted
  <2>5. \A j \in State!StateKeys \ {State!Permit(u)} : expires'[j] = expires[j]
    BY <1>0, <2>1 DEF State!Upsert
  <2>6. ConfirmationsLeft' /\ EntriesLeft'
    BY <1>0, <1>2, <2>3, <2>4, <2>5, KeysApart DEF ConfirmationsLeft, EntriesLeft, Held, Entered, Counted,
       State!Confirmation, State!Permit
  <2>7. PermitsLeft'
    <3>. SUFFICES ASSUME NEW v \in Members
                  PROVE  calls'["permitted"][v] + Held(State!Permit(v))' <= calls'["permit"][v]
      BY DEF PermitsLeft
    <3>1. /\ calls["permitted"][v] \in Nat /\ calls["permit"][v] \in Nat
          /\ State!Permit(v) \in State!StateKeys
          /\ calls["permitted"][v] + Held(State!Permit(v)) <= calls["permit"][v]
      BY <1>2, <1>3, <1>0, KeysApart DEF Counted
    <3>2. CASE v # u
      BY <3>1, <3>2, <2>3, <2>5, KeysApart DEF Held, Counted, State!Permit
    <3>3. CASE v = u
      BY <3>1, <3>3, <2>3, <2>5 DEF Held, Counted, State!Permit
    <3>. QED
      BY <3>2, <3>3
  <2>8. \E life \in Lives : State!Upsert(State!Permit(u), State!Now + life)
    BY <1>1, <2>1
  <2>. QED
    BY <1>a, <1>1, <1>d, <2>2, <2>6, <2>7, <2>8, RowStep
<1>5. CASE HasLinkPermit(u)
  <2>1. /\ State!Delete(State!Permit(u))
        /\ State!Counts(State!Permit(u))
        /\ calls' = [calls EXCEPT !["permitted"][u] = @ + 1]
        /\ calls["permitted"][u] < MaxCalls
    BY <1>5 DEF HasLinkPermit, State!HasLinkPermit, State!BotStateConsumeLinkPermit, Count, MayCall
  <2>2. calls' \in [Counted -> [Members \union Entrants -> 0 .. MaxCalls]]
    BY <1>0, <2>1 DEF Counted
  <2>3. \A v \in Members : /\ calls'["permitted"][v] = calls["permitted"][v] + IF v = u THEN 1 ELSE 0
                           /\ \A op \in Counted \ {"permitted"} : calls'[op][v] = calls[op][v]
    BY <1>0, <1>3, <2>1 DEF Counted
  <2>4. \A v \in Entrants : \A op \in Counted \ {"permitted"} : calls'[op][v] = calls[op][v]
    BY <1>0, <2>1 DEF Counted
  <2>5. /\ \A j \in State!StateKeys \ {State!Permit(u)} : expires'[j] = expires[j]
        /\ expires'[State!Permit(u)] = 0
        /\ expires[State!Permit(u)] > 0
    BY <1>0, <1>1, <2>1 DEF State!Delete, State!Counts
  <2>6. ConfirmationsLeft' /\ EntriesLeft'
    BY <1>0, <1>2, <2>3, <2>4, <2>5, KeysApart DEF ConfirmationsLeft, EntriesLeft, Held, Entered, Counted,
       State!Confirmation, State!Permit
  <2>7. PermitsLeft'
    <3>. SUFFICES ASSUME NEW v \in Members
                  PROVE  calls'["permitted"][v] + Held(State!Permit(v))' <= calls'["permit"][v]
      BY DEF PermitsLeft
    <3>1. /\ calls["permitted"][v] \in Nat /\ calls["permit"][v] \in Nat
          /\ State!Permit(v) \in State!StateKeys
          /\ calls["permitted"][v] + Held(State!Permit(v)) <= calls["permit"][v]
      BY <1>2, <1>3, <1>0, KeysApart DEF Counted
    <3>2. CASE v # u
      BY <3>1, <3>2, <2>3, <2>5, KeysApart DEF Held, Counted, State!Permit
    <3>3. CASE v = u
      BY <3>1, <3>3, <2>3, <2>5 DEF Held, Counted, State!Permit
    <3>. QED
      BY <3>2, <3>3
  <2>. QED
    BY <1>a, <1>1, <1>d, <2>1, <2>2, <2>6, <2>7, RowStep
<1>6. CASE Confirm(u)
  <2>. DEFINE k == State!Confirmation(u)
              yes == IF State!Confirmed(u) THEN 1 ELSE 0
  <2>1. /\ yes = 1 => State!Delete(k) /\ expires[k] > 0
        /\ yes = 0 => State!Upsert(k, State!Now + ConfirmTime)
        /\ yes \in {0, 1}
        /\ calls' = [calls EXCEPT !["confirm"][u] = @ + 1, !["confirmed"][u] = @ + yes]
        /\ calls["confirm"][u] < MaxCalls
    BY <1>1, <1>0, <1>6 DEF Confirm, State!Confirm, State!Confirmed, State!BotStateDeleteConfirmation,
       State!BotStateUpsertConfirmation, State!BotStateGetConfirmationExpiry, MayCall
  <2>2. \A v \in Members : /\ calls'["confirm"][v] = calls["confirm"][v] + IF v = u THEN 1 ELSE 0
                           /\ calls'["confirmed"][v] = calls["confirmed"][v] + IF v = u THEN yes ELSE 0
                           /\ \A op \in Counted \ {"confirm", "confirmed"} : calls'[op][v] = calls[op][v]
    <3>. HIDE DEF yes
    <3>. QED
      BY <1>0, <1>3, <2>1 DEF Counted
  <2>3. \A v \in Entrants : \A op \in Counted \ {"confirm", "confirmed"} : calls'[op][v] = calls[op][v]
    BY <1>0, <2>1 DEF Counted
  <2>4. /\ \A j \in State!StateKeys \ {k} : expires'[j] = expires[j]
        /\ yes = 1 => expires'[k] = 0
    BY <1>0, <1>1, <2>1 DEF State!Delete, State!Upsert
  <2>5. PermitsLeft' /\ EntriesLeft'
    BY <1>0, <1>2, <2>2, <2>3, <2>4, KeysApart DEF PermitsLeft, EntriesLeft, Held, Entered, Counted,
       State!Confirmation, State!Permit
  <2>6. ConfirmationsLeft'
    <3>. SUFFICES ASSUME NEW v \in Members
                  PROVE  2 * calls'["confirmed"][v] + Held(State!Confirmation(v))' <= calls'["confirm"][v]
      BY DEF ConfirmationsLeft
    <3>1. CASE v # u
      BY <3>1, <1>0, <1>2, <2>2, <2>4, KeysApart DEF Held, Counted, State!Confirmation
    <3>2. CASE v = u
      <4>. HIDE DEF yes
      <4>. QED
        BY <3>2, <1>0, <1>2, <1>3, <2>1, <2>2, <2>4 DEF Held, Counted, State!Confirmation
    <3>. QED
      BY <3>1, <3>2
  <2>7. calls' \in [Counted -> [Members \union Entrants -> 0 .. MaxCalls]]
    <3>1. 2 * calls["confirmed"][u] + 2 * yes <= calls["confirm"][u] + 1 /\ yes \in {0, 1}
      <4>1. 2 * calls["confirmed"][u] + yes <= calls["confirm"][u]
        BY <1>0, <1>2, <1>3, <2>1 DEF Held, Counted
      <4>. HIDE DEF yes
      <4>. QED
        BY <4>1, <1>0, <1>3, <2>1 DEF Counted
    <3>2. calls["confirmed"][u] + yes <= MaxCalls
      <4>. HIDE DEF yes
      <4>. QED
        BY <1>0, <1>3, <2>1, <2>2, <3>1 DEF Counted
    <3>. HIDE DEF yes
    <3>. QED
      BY <1>0, <1>3, <2>1, <3>2 DEF Counted
  <2>8. (\E life \in Lives : State!Upsert(k, State!Now + life)) \/ State!Delete(k)
    BY <1>1, <2>1
  <2>. QED
    BY <1>a, <1>1, <1>d, <2>5, <2>6, <2>7, <2>8, RowStep
<1>7. CASE FilterWarned(u)
  <2>1. calls' = calls /\ \E life \in Lives : State!Upsert(State!Warning(u), State!Now + life)
    BY <1>1, <1>7 DEF FilterWarned, State!FilterWarned, State!BotStateUpsertFilterWarning
  <2>2. \A j \in State!StateKeys \ {State!Warning(u)} : expires'[j] = expires[j]
    BY <1>0, <2>1 DEF State!Upsert
  <2>3. ConfirmationsLeft' /\ PermitsLeft' /\ EntriesLeft'
    BY <1>0, <1>2, <2>1, <2>2, KeysApart DEF ConfirmationsLeft, PermitsLeft, EntriesLeft, Held, Entered,
       State!Confirmation, State!Permit, State!Warning
  <2>. QED
    BY <1>a, <1>b, <1>1, <1>d, <2>1, <2>3, RowStep
<1>. QED
  BY <1>4, <1>5, <1>6, <1>7 DEF Ask

LEMMA RaffleStep == StateInv /\ RaffleNext => StateInv'
<1>. SUFFICES ASSUME StateInv, RaffleNext PROVE StateInv'
  OBVIOUS
<1>0. UNCHANGED <<clock, expires, uses, lastUse>>
  BY DEF RaffleNext
<1>1. /\ calls \in [Counted -> [Members \union Entrants -> 0 .. MaxCalls]]
      /\ entries \subseteq Entrants
      /\ enabled \in BOOLEAN
      /\ \A v \in Entrants : calls["win"][v] + Entered(v) <= calls["enter"][v]
  BY DEF StateInv, ChannelStateTypeOK, EntriesLeft
<1>2. MaxCalls \in Nat
  BY SecondsType
<1>3. \A op \in Counted, v \in Members \union Entrants : calls[op][v] \in 0 .. MaxCalls
  BY <1>1
<1>4. \A picked \in SUBSET entries : \A v \in Entrants : v \in picked => v \in entries
  OBVIOUS
<1>5. /\ calls' \in [Counted -> [Members \union Entrants -> 0 .. MaxCalls]]
      /\ entries' \subseteq Entrants
      /\ enabled' \in BOOLEAN
      /\ \A op \in Counted \ {"enter", "win"} : calls'[op] = calls[op]
      /\ EntriesLeft'
  <2>1. ASSUME NEW u \in Entrants, cmdRaffle(u) PROVE <1>5
    <3>1. CASE u \in entries
      <4>1. entries' = entries /\ UNCHANGED <<calls, enabled>>
        BY <2>1, <3>1 DEF cmdRaffle, RaffleAdd, State!RaffleAdd, State!BotStateRaffleAdd
      <4>. QED
        BY <4>1, <1>1 DEF EntriesLeft, Entered
    <3>2. CASE u \notin entries
      <4>1. /\ entries' = entries \union {u}
            /\ enabled' = enabled
            /\ calls["enter"][u] < MaxCalls
            /\ calls' = [calls EXCEPT !["enter"][u] = @ + 1]
        BY <2>1, <3>2 DEF cmdRaffle, RaffleAdd, State!RaffleAdd, State!BotStateRaffleAdd, MayCall, Count
      <4>2. calls' \in [Counted -> [Members \union Entrants -> 0 .. MaxCalls]]
        BY <4>1, <1>1, <1>2 DEF Counted
      <4>3. /\ \A op \in Counted \ {"enter"} : calls'[op] = calls[op]
            /\ \A v \in Entrants : calls'["enter"][v] = calls["enter"][v] + IF v = u THEN 1 ELSE 0
        BY <4>1, <1>1, <1>3 DEF Counted
      <4>4. EntriesLeft'
        BY <4>1, <4>3, <1>1, <1>3, <3>2 DEF EntriesLeft, Entered, Counted
      <4>. QED
        BY <4>1, <4>2, <4>3, <4>4, <1>1
    <3>. QED
      BY <3>1, <3>2
  <2>2. ASSUME NEW enable \in BOOLEAN, cmdRaffleEnableDisable(enable) PROVE <1>5
    <3>1. entries' \in {{}, entries} /\ enabled' = enable /\ calls' = calls
      BY <2>2 DEF cmdRaffleEnableDisable, RaffleReset, State!RaffleReset, State!BotStateRaffleReset,
         UpdateChannelRaffleEnabled
    <3>. QED
      BY <3>1, <1>1, <1>3 DEF EntriesLeft, Entered, Counted
  <2>3. CASE cmdRaffleReset
    <3>1. entries' = {} /\ enabled' = enabled /\ calls' = calls
      BY <2>3 DEF cmdRaffleReset, RaffleReset, State!RaffleReset, State!BotStateRaffleReset
    <3>. QED
      BY <3>1, <1>1, <1>3 DEF EntriesLeft, Entered, Counted
  <2>4. ASSUME NEW n \in 1 .. Cardinality(Entrants), cmdRaffleWinner(n) PROVE <1>5
    <3>1. PICK picked \in SUBSET entries :
             /\ entries' = entries \ picked
             /\ \A u \in picked : calls["win"][u] < MaxCalls
             /\ calls' = [calls EXCEPT !["win"] = [u \in DOMAIN @ |-> @[u] + IF u \in picked THEN 1 ELSE 0]]
             /\ enabled' = enabled
      BY <2>4 DEF cmdRaffleWinner, RaffleWinner, RaffleWinners, State!RaffleWinner, State!RaffleWinners,
         State!BotStateDeleteRaffleEntries, MayCall
    <3>. DEFINE won == [u \in DOMAIN calls["win"] |-> calls["win"][u] + IF u \in picked THEN 1 ELSE 0]
    <3>2. won \in [Members \union Entrants -> 0 .. MaxCalls]
      BY <3>1, <1>1, <1>2, <1>3 DEF Counted
    <3>3. calls' \in [Counted -> [Members \union Entrants -> 0 .. MaxCalls]]
      BY <3>1, <3>2, <1>1 DEF Counted
    <3>4. /\ \A op \in Counted \ {"win"} : calls'[op] = calls[op]
          /\ \A v \in Entrants : calls'["win"][v] = calls["win"][v] + IF v \in picked THEN 1 ELSE 0
      BY <3>1, <1>1 DEF Counted
    <3>5. EntriesLeft'
      BY <3>1, <3>4, <1>1, <1>3, <1>4 DEF EntriesLeft, Entered, Counted
    <3>. QED
      BY <3>1, <3>3, <3>4, <3>5, <1>1
  <2>. QED
    BY <2>1, <2>2, <2>3, <2>4 DEF RaffleNext
<1>6. State!Now' = State!Now
  BY <1>0 DEF State!Now, State!BotStateCurrentTime
<1>7. ChannelStateTypeOK' /\ IsState'
  BY <1>0, <1>5, <1>6 DEF StateInv, ChannelStateTypeOK, IsState
<1>8. ConfirmationsLeft' /\ PermitsLeft'
  BY <1>0, <1>5 DEF StateInv, ConfirmationsLeft, PermitsLeft, Held, Counted
<1>9. CooldownsLast'
  BY <1>0, <1>6 DEF StateInv, CooldownsLast
<1>. QED
  BY <1>5, <1>7, <1>8, <1>9 DEF StateInv

(* A cleanup leaves every row as it is, or removes one that has expired.      *)
LEMMA CleanupEffect ==
    ASSUME StateInv, Cleanup
    PROVE  /\ expires' \in [State!StateKeys -> Nat]
           /\ \A k \in State!StateKeys :
                 \/ expires'[k] = expires[k]
                 \/ expires'[k] = 0 /\ expires[k] < State!Now
<1>1. PICK table \in {"cooldown", "permit", "confirm", "warning"} : State!DeleteExpired(table)
  BY DEF Cleanup, State!Cleanup, State!BotStateCleanupCommandCooldowns, State!BotStateCleanupLinkPermits,
     State!BotStateCleanupConfirmations, State!BotStateCleanupFilterWarnings
<1>. QED
  BY <1>1 DEF State!DeleteExpired, StateInv, IsState

LEMMA CleanupStep == StateInv /\ Cleanup => StateInv'
<1>. SUFFICES ASSUME StateInv, Cleanup PROVE StateInv'
  OBVIOUS
<1>0. UNCHANGED <<clock, entries, enabled, calls, uses, lastUse>>
  BY DEF Cleanup
<1>1. State!Now' = State!Now /\ State!Now \in Nat
  BY <1>0, SecondsType DEF State!Now, State!BotStateCurrentTime, StateInv, ChannelStateTypeOK
<1>2. \A k \in State!StateKeys : \E life \in Lives : expires'[k] \in 0 .. State!Now + life
  <2>. SUFFICES ASSUME NEW k \in State!StateKeys
                PROVE  \E life \in Lives : expires'[k] \in 0 .. State!Now + life
    OBVIOUS
  <2>1. PICK life \in Lives : expires[k] \in 0 .. State!Now + life
    BY DEF StateInv, ChannelStateTypeOK
  <2>2. expires'[k] = expires[k] \/ expires'[k] = 0
    BY CleanupEffect
  <2>. QED
    BY <1>1, <2>1, <2>2, SecondsType
<1>3. ChannelStateTypeOK' /\ IsState'
  BY <1>0, <1>1, <1>2, CleanupEffect DEF StateInv, ChannelStateTypeOK, IsState
<1>4. \A k \in State!StateKeys : Held(k)' <= Held(k) /\ Held(k) \in {0, 1} /\ Held(k)' \in {0, 1}
  BY CleanupEffect DEF Held, StateInv, IsState
<1>5. \A op \in Counted, u \in Members \union Entrants : calls[op][u] \in Nat
  BY SecondsType DEF StateInv, ChannelStateTypeOK
<1>6. ConfirmationsLeft'
  <2>. SUFFICES ASSUME NEW u \in Members
                PROVE  2 * calls'["confirmed"][u] + Held(State!Confirmation(u))' <= calls'["confirm"][u]
    BY DEF ConfirmationsLeft
  <2>1. 2 * calls["confirmed"][u] + Held(State!Confirmation(u)) <= calls["confirm"][u]
    BY DEF StateInv, ConfirmationsLeft
  <2>. QED
    BY <1>0, <1>4, <1>5, <2>1, KeysApart DEF Counted
<1>7. PermitsLeft'
  <2>. SUFFICES ASSUME NEW u \in Members
                PROVE  calls'["permitted"][u] + Held(State!Permit(u))' <= calls'["permit"][u]
    BY DEF PermitsLeft
  <2>1. calls["permitted"][u] + Held(State!Permit(u)) <= calls["permit"][u]
    BY DEF StateInv, PermitsLeft
  <2>. QED
    BY <1>0, <1>4, <1>5, <2>1, KeysApart DEF Counted
<1>8. EntriesLeft'
  BY <1>0 DEF StateInv, EntriesLeft, Entered
<1>9. CooldownsLast'
  <2>. SUFFICES ASSUME NEW key \in Cooldowns
                PROVE  /\ lastUse'[key] <= State!Now'
                       /\ \/ lastUse'[key] = 0
                          \/ expires'[State!Cooldown(key)] = lastUse'[key] + Seconds(key)
                          \/ lastUse'[key] + Seconds(key) <= State!Now'
    BY DEF CooldownsLast
  <2>1. /\ lastUse[key] <= State!Now
        /\ \/ lastUse[key] = 0
           \/ expires[State!Cooldown(key)] = lastUse[key] + Seconds(key)
           \/ lastUse[key] + Seconds(key) <= State!Now
    BY DEF StateInv, CooldownsLast
  <2>2. State!Cooldown(key) \in State!StateKeys
    BY KeysApart
  <2>3. lastUse[key] \in Nat /\ Seconds(key) \in Nat
    BY SecondsType DEF StateInv, ChannelStateTypeOK
  <2>. QED
    BY <1>0, <1>1, <2>1, <2>2, <2>3, CleanupEffect
<1>. QED
  BY <1>3, <1>6, <1>7, <1>8, <1>9 DEF StateInv

LEMMA TickStep == StateInv /\ Tick => StateInv'
<1>. SUFFICES ASSUME StateInv, Tick PROVE StateInv'
  OBVIOUS
<1>0. UNCHANGED <<expires, entries, enabled, calls, uses, lastUse>> /\ clock' \in 0 .. MaxClock
  BY SecondsType DEF Tick, StateInv, ChannelStateTypeOK
<1>1. State!Now' = State!Now + 1 /\ State!Now \in Nat
  BY SecondsType DEF Tick, State!Now, State!BotStateCurrentTime, StateInv, ChannelStateTypeOK
<1>2. \A k \in State!StateKeys : \E life \in Lives : expires'[k] \in 0 .. State!Now' + life
  <2>. SUFFICES ASSUME NEW k \in State!StateKeys
                PROVE  \E life \in Lives : expires'[k] \in 0 .. State!Now' + life
    OBVIOUS
  <2>1. PICK life \in Lives : expires[k] \in 0 .. State!Now + life
    BY DEF StateInv, ChannelStateTypeOK
  <2>. QED
    BY <1>0, <1>1, <2>1, SecondsType
<1>3. ChannelStateTypeOK' /\ IsState'
  BY <1>0, <1>2 DEF StateInv, ChannelStateTypeOK, IsState
<1>4. ConfirmationsLeft' /\ PermitsLeft' /\ EntriesLeft'
  BY <1>0 DEF StateInv, ConfirmationsLeft, PermitsLeft, EntriesLeft, Held, Entered
<1>5. CooldownsLast'
  <2>. SUFFICES ASSUME NEW key \in Cooldowns
                PROVE  /\ lastUse'[key] <= State!Now'
                       /\ \/ lastUse'[key] = 0
                          \/ expires'[State!Cooldown(key)] = lastUse'[key] + Seconds(key)
                          \/ lastUse'[key] + Seconds(key) <= State!Now'
    BY DEF CooldownsLast
  <2>1. /\ lastUse[key] <= State!Now
        /\ \/ lastUse[key] = 0
           \/ expires[State!Cooldown(key)] = lastUse[key] + Seconds(key)
           \/ lastUse[key] + Seconds(key) <= State!Now
    BY DEF StateInv, CooldownsLast
  <2>2. lastUse[key] \in Nat /\ Seconds(key) \in Nat
    BY SecondsType DEF StateInv, ChannelStateTypeOK
  <2>. QED
    BY <1>0, <1>1, <2>1, <2>2
<1>. QED
  BY <1>3, <1>4, <1>5 DEF StateInv

LEMMA StateStays == StateInv /\ UNCHANGED stateVars => StateInv'
BY DEF StateInv, ChannelStateTypeOK, IsState, ConfirmationsLeft, PermitsLeft, EntriesLeft, CooldownsLast,
       Held, Entered, stateVars, State!Now, State!BotStateCurrentTime

LEMMA StateIsKept == StateInv /\ [ChannelStateNext]_stateVars => StateInv'
BY UseStep, AskStep, RaffleStep, CleanupStep, TickStep, StateStays
DEF ChannelStateNext, UsesNext, TimedNext

LEMMA StateHolds == ChannelStateSpec => []StateInv
BY StateInit, StateIsKept, PTL DEF ChannelStateSpec

------------------------------------------------------------------------------
(* The tables implement LiveState.                                            *)

(* A row that is written lives from now on as long as it is given.            *)
LEMMA UpsertSets ==
    ASSUME StateInv, NEW k \in State!StateKeys, NEW life \in Lives,
           State!Upsert(k, State!Now + life), UNCHANGED clock
    PROVE  Live!Give(k, life)
<1>1. /\ expires' = [expires EXCEPT ![k] = State!Now + life]
      /\ State!Now' = State!Now
      /\ State!Now \in Nat
      /\ life \in Nat
  BY SecondsType DEF State!Upsert, State!Now, State!BotStateCurrentTime, StateInv, ChannelStateTypeOK
<1>2. expires \in [State!StateKeys -> Nat]
  BY DEF StateInv, IsState
<1>3. \A j \in State!StateKeys :
         (IF State!Counts(j) THEN expires[j] - State!Now ELSE 0)' =
         IF j = k THEN life ELSE IF State!Counts(j) THEN expires[j] - State!Now ELSE 0
  BY <1>1, <1>2 DEF State!Counts
<1>4. Left' = [Left EXCEPT ![k] = life]
  BY <1>3 DEF Left
<1>. QED
  BY <1>4 DEF Live!Give

(* A row that counts and is deleted is taken.                                 *)
LEMMA DeleteTakes ==
    ASSUME StateInv, NEW k \in State!StateKeys, State!Delete(k), State!Counts(k), UNCHANGED clock
    PROVE  Live!UseUp(k)
<1>1. /\ expires' = [expires EXCEPT ![k] = 0]
      /\ State!Now' = State!Now
      /\ State!Now \in Nat
  BY SecondsType DEF State!Delete, State!Now, State!BotStateCurrentTime, StateInv, ChannelStateTypeOK
<1>2. expires \in [State!StateKeys -> Nat] /\ expires[k] > State!Now
  BY DEF StateInv, IsState, State!Counts
<1>3. \A j \in State!StateKeys :
         (IF State!Counts(j) THEN expires[j] - State!Now ELSE 0)' =
         IF j = k THEN 0 ELSE IF State!Counts(j) THEN expires[j] - State!Now ELSE 0
  BY <1>1, <1>2 DEF State!Counts
<1>4. Left' = [Left EXCEPT ![k] = 0]
  BY <1>3 DEF Left
<1>5. Left[k] > 0
  BY <1>1, <1>2 DEF Left, State!Counts
<1>. QED
  BY <1>4, <1>5 DEF Live!UseUp, Live!Lives

LEMMA LiveStutter ==
    ASSUME StateInv, UNCHANGED clock,
           \A k \in State!StateKeys :
              \/ expires'[k] = expires[k]
              \/ expires'[k] <= State!Now /\ expires[k] <= State!Now,
           expires' \in [State!StateKeys -> Nat]
    PROVE  UNCHANGED <<clock, Left>>
<1>1. State!Now' = State!Now /\ State!Now \in Nat
  BY SecondsType DEF State!Now, State!BotStateCurrentTime, StateInv, ChannelStateTypeOK
<1>2. expires \in [State!StateKeys -> Nat]
  BY DEF StateInv, IsState
<1>3. \A j \in State!StateKeys :
         (IF State!Counts(j) THEN expires[j] - State!Now ELSE 0)' =
         IF State!Counts(j) THEN expires[j] - State!Now ELSE 0
  BY <1>1, <1>2 DEF State!Counts
<1>. QED
  BY <1>3 DEF Left

LEMMA LiveInit == ChannelStateInit => Live!Init
<1>. SUFFICES ASSUME ChannelStateInit PROVE Live!Init
  OBVIOUS
<1>1. Left = [k \in Live!Keys |-> 0]
  BY DEF ChannelStateInit, Left, State!Counts, State!Now, State!BotStateCurrentTime, State!StateKeys, Live!Keys,
     State!Cooldown, Live!Cooldown
<1>2. GrantedCalls = [op \in Live!Granted |-> [u \in Members |-> 0]]
  BY DEF ChannelStateInit, GrantedCalls, Granted, Live!Granted, Counted
<1>. QED
  BY <1>1, <1>2 DEF ChannelStateInit, Live!Init

(* What lives in LiveState is what counts in the tables.                      *)
LEMMA WhatLives ==
    ASSUME StateInv, NEW k \in State!StateKeys
    PROVE  Live!Lives(k) <=> State!Counts(k)
BY SecondsType DEF Live!Lives, Left, State!Counts, State!Now, State!BotStateCurrentTime, StateInv, IsState,
   ChannelStateTypeOK

(* One call of a user is counted.                                             *)
CallsOnce(op, u) ==
    \A o \in Granted, v \in Members : calls'[o][v] = IF o = op /\ v = u THEN calls[o][v] + 1 ELSE calls[o][v]

LEMMA CountsOnce ==
    ASSUME StateInv, NEW op \in Granted, NEW u \in Members, Count(op, u)
    PROVE  CallsOnce(op, u)
BY DEF StateInv, ChannelStateTypeOK, Granted, Counted, Count, CallsOnce

LEMMA CallsCounted ==
    ASSUME NEW op \in Granted, NEW u \in Members, CallsOnce(op, u)
    PROVE  Live!Count(op, u)
<1>. DEFINE F == [GrantedCalls EXCEPT ![op][u] = @ + 1]
<1>1. \A o \in Granted : GrantedCalls[o] = [v \in Members |-> calls[o][v]]
  BY DEF GrantedCalls
<1>2. F = [o \in Granted |-> IF o = op THEN [GrantedCalls[op] EXCEPT ![u] = @ + 1] ELSE GrantedCalls[o]]
  BY DEF GrantedCalls
<1>3. [GrantedCalls[op] EXCEPT ![u] = @ + 1] =
      [v \in Members |-> IF v = u THEN calls[op][v] + 1 ELSE calls[op][v]]
  <2>. DEFINE f == GrantedCalls[op]
  <2>1. f = [v \in Members |-> calls[op][v]]
    BY <1>1
  <2>2. DOMAIN f = Members /\ \A v \in Members : f[v] = calls[op][v]
    BY <2>1
  <2>. HIDE DEF f
  <2>3. [f EXCEPT ![u] = @ + 1] = [v \in Members |-> IF v = u THEN f[v] + 1 ELSE f[v]]
    BY <2>1, <2>2
  <2>4. [v \in Members |-> IF v = u THEN f[v] + 1 ELSE f[v]] =
        [v \in Members |-> IF v = u THEN calls[op][v] + 1 ELSE calls[op][v]]
    BY <2>2
  <2>. QED
    BY <2>3, <2>4 DEF f
<1>4. [GrantedCalls[op] EXCEPT ![u] = @ + 1] = [v \in Members |-> calls'[op][v]]
  <2>1. \A v \in Members : calls'[op][v] = IF v = u THEN calls[op][v] + 1 ELSE calls[op][v]
    BY DEF CallsOnce
  <2>. QED
    BY <1>3, <2>1
<1>5. \A o \in Granted \ {op} : GrantedCalls[o] = [v \in Members |-> calls'[o][v]]
  BY <1>1 DEF CallsOnce
<1>6. GrantedCalls' = [o \in Granted |-> [v \in Members |-> calls'[o][v]]]
  BY DEF GrantedCalls
<1>7. GrantedCalls' = F
  <2>1. \A o \in Granted : [v \in Members |-> calls'[o][v]] =
                          IF o = op THEN [GrantedCalls[op] EXCEPT ![u] = @ + 1] ELSE GrantedCalls[o]
    BY <1>4, <1>5
  <2>. HIDE DEF F
  <2>. QED
    BY <1>2, <1>6, <2>1
<1>. QED
  BY <1>7 DEF Live!Count

LEMMA LiveUse ==
    ASSUME StateInv, NEW key \in Cooldowns, NEW moderator \in BOOLEAN, Use(key, moderator)
    PROVE  Live!LetThrough(key) \/ Live!Exempt(key) \/ UNCHANGED <<clock, Left, uses, GrantedCalls>>
<1>. DEFINE k == State!Cooldown(key)
<1>0. expires \in [State!StateKeys -> Nat] /\ k \in State!StateKeys /\ k = Live!Cooldown(key)
  BY KeysApart DEF StateInv, IsState, State!Cooldown, Live!Cooldown
<1>1. /\ UNCHANGED <<clock, GrantedCalls>>
      /\ Seconds(key) \in Nat
      /\ Seconds(key) # 0 => Seconds(key) \in Lives
  BY SecondsType DEF Use, GrantedCalls
<1>2. IF moderator /\ key # "ht_cooldown" THEN UNCHANGED uses ELSE uses' = [uses EXCEPT ![key] = @ + 1]
  BY DEF Use
<1>3. Seconds(key) = 0 => UNCHANGED Left
  <2>1. Seconds(key) = 0 => UNCHANGED expires
    BY UseEffect
  <2>. QED
    BY <1>0, <1>1, <2>1, LiveStutter
<1>4. Seconds(key) # 0 => State!Upsert(k, State!Now + Seconds(key))
  BY UseEffect
<1>5. Seconds(key) # 0 => Live!Give(Live!Cooldown(key), Seconds(key))
  BY <1>0, <1>1, <1>4, UpsertSets
<1>6. CASE moderator /\ key # "ht_cooldown"
  BY <1>0, <1>1, <1>2, <1>3, <1>5, <1>6 DEF Live!Exempt, Cooldowns
<1>7. CASE ~(moderator /\ key # "ht_cooldown")
  <2>a. uses' # uses /\ State!Now \in Nat
    BY <1>2, <1>7, SecondsType DEF StateInv, ChannelStateTypeOK, State!Now, State!BotStateCurrentTime
  <2>1. Seconds(key) # 0 => ~State!Counts(k)
    BY <1>0, <2>a, UseEffect DEF State!Counts
  <2>2. Seconds(key) # 0 => ~Live!Lives(Live!Cooldown(key))
    BY <1>0, <2>1, WhatLives
  <2>. QED
    BY <1>1, <1>2, <1>3, <1>5, <1>7, <2>2 DEF Live!LetThrough
<1>. QED
  BY <1>6, <1>7

LEMMA LiveAsk ==
    ASSUME StateInv, NEW u \in Members, Ask(u)
    PROVE  Live!Grant(u) \/ Live!Consume(u) \/ Live!Ask(u) \/ Live!Confirm(u) \/ Live!Warn(u)
<1>1. /\ UNCHANGED <<clock, uses>>
      /\ {State!Permit(u), State!Confirmation(u), State!Warning(u)} \subseteq State!StateKeys
      /\ {PermitTime, ConfirmTime, NextWarning, FirstWarning} \subseteq Lives
  BY KeysApart, SecondsType DEF Ask
<1>2. /\ State!Permit(u) = Live!Permit(u)
      /\ State!Confirmation(u) = Live!Confirmation(u)
      /\ State!Warning(u) = Live!Warning(u)
  BY DEF State!Permit, Live!Permit, State!Confirmation, Live!Confirmation, State!Warning, Live!Warning
<1>3. CASE LinkPermit(u)
  <2>1. State!Upsert(State!Permit(u), State!Now + PermitTime) /\ Count("permit", u)
    BY <1>3 DEF LinkPermit, State!LinkPermit, State!BotStateGrantLinkPermit
  <2>2. Live!Give(Live!Permit(u), PermitTime)
    BY <1>1, <1>2, <2>1, UpsertSets
  <2>3. Live!Count("permit", u)
    BY <2>1, CountsOnce, CallsCounted DEF Granted
  <2>. QED
    BY <1>1, <2>2, <2>3 DEF Live!Grant
<1>4. CASE HasLinkPermit(u)
  <2>1. State!Delete(State!Permit(u)) /\ State!Counts(State!Permit(u)) /\ Count("permitted", u)
    BY <1>4 DEF HasLinkPermit, State!HasLinkPermit, State!BotStateConsumeLinkPermit
  <2>2. Live!UseUp(Live!Permit(u))
    BY <1>1, <1>2, <2>1, DeleteTakes
  <2>3. Live!Count("permitted", u)
    BY <2>1, CountsOnce, CallsCounted DEF Granted
  <2>. QED
    BY <1>1, <2>2, <2>3 DEF Live!Consume
<1>5. CASE Confirm(u)
  <2>1. State!Confirmed(u) <=> State!Counts(State!Confirmation(u))
    BY DEF State!Confirmed, State!BotStateGetConfirmationExpiry, State!Counts
  <2>2. CASE State!Confirmed(u)
    <3>1. State!Delete(State!Confirmation(u))
      BY <1>5, <2>2 DEF Confirm, State!Confirm, State!BotStateDeleteConfirmation
    <3>2. Live!UseUp(Live!Confirmation(u))
      BY <1>1, <1>2, <2>1, <2>2, <3>1, DeleteTakes
    <3>3. calls' = [calls EXCEPT !["confirm"][u] = @ + 1, !["confirmed"][u] = @ + 1]
      BY <1>5, <2>2 DEF Confirm
    <3>4. calls \in [Counted -> [Members \union Entrants -> 0 .. MaxCalls]] /\ Granted \subseteq Counted
      BY DEF StateInv, ChannelStateTypeOK, Granted, Counted
    <3>5. \A o \in Granted, v \in Members :
             calls'[o][v] = IF o \in {"confirm", "confirmed"} /\ v = u THEN calls[o][v] + 1 ELSE calls[o][v]
      BY <3>3, <3>4 DEF Granted
    <3>6. \A o \in Granted : GrantedCalls[o] = [v \in Members |-> calls[o][v]]
      BY DEF GrantedCalls
    <3>7. GrantedCalls' = [GrantedCalls EXCEPT !["confirm"][u] = @ + 1, !["confirmed"][u] = @ + 1]
      BY <3>5, <3>6 DEF GrantedCalls, Granted
    <3>. QED
      BY <1>1, <3>2, <3>7 DEF Live!Confirm
  <2>3. CASE ~State!Confirmed(u)
    <3>1. State!Upsert(State!Confirmation(u), State!Now + ConfirmTime)
      BY <1>5, <2>3 DEF Confirm, State!Confirm, State!BotStateUpsertConfirmation
    <3>2. Live!Give(Live!Confirmation(u), ConfirmTime) /\ ~Live!Lives(Live!Confirmation(u))
      BY <1>1, <1>2, <2>1, <2>3, <3>1, UpsertSets, WhatLives
    <3>3. calls' = [calls EXCEPT !["confirm"][u] = @ + 1, !["confirmed"][u] = @ + 0]
      BY <1>5, <2>3 DEF Confirm
    <3>4. CallsOnce("confirm", u)
      BY <3>3 DEF StateInv, ChannelStateTypeOK, Granted, Counted, CallsOnce
    <3>5. Live!Count("confirm", u)
      BY <3>4, CallsCounted DEF Granted
    <3>. QED
      BY <1>1, <3>2, <3>5 DEF Live!Ask
  <2>. QED
    BY <2>2, <2>3
<1>6. CASE FilterWarned(u)
  <2>1. /\ UNCHANGED GrantedCalls
        /\ State!Counts(State!Warning(u)) => State!Upsert(State!Warning(u), State!Now + NextWarning)
        /\ ~State!Counts(State!Warning(u)) => State!Upsert(State!Warning(u), State!Now + FirstWarning)
    BY <1>6 DEF FilterWarned, State!FilterWarned, State!BotStateUpsertFilterWarning,
       State!BotStateGetFilterWarningExpiry, State!Counts, GrantedCalls
  <2>2. Live!Lives(Live!Warning(u)) <=> State!Counts(State!Warning(u))
    BY <1>1, <1>2, WhatLives
  <2>3. Live!Give(Live!Warning(u), IF Live!Lives(Live!Warning(u)) THEN NextWarning ELSE FirstWarning)
    BY <1>1, <1>2, <2>1, <2>2, UpsertSets
  <2>. QED
    BY <1>1, <2>1, <2>3 DEF Live!Warn
<1>. QED
  BY <1>3, <1>4, <1>5, <1>6 DEF Ask

LEMMA LiveStep == StateInv /\ [ChannelStateNext]_stateVars => [Live!Next]_(Live!liveVars)
<1>. SUFFICES ASSUME StateInv, [ChannelStateNext]_stateVars
              PROVE  Live!Next \/ UNCHANGED <<clock, Left, uses, GrantedCalls>>
  BY DEF Live!liveVars
<1>0. expires \in [State!StateKeys -> Nat]
  BY DEF StateInv, IsState
<1>1. ASSUME NEW key \in Cooldowns, NEW moderator \in BOOLEAN, Use(key, moderator)
      PROVE  Live!Next \/ UNCHANGED <<clock, Left, uses, GrantedCalls>>
  BY <1>1, LiveUse DEF Live!Next
<1>2. ASSUME NEW u \in Members, Ask(u)
      PROVE  Live!Next
  BY <1>2, LiveAsk DEF Live!Next
<1>3. CASE Cleanup
  <2>1. State!Now \in Nat /\ UNCHANGED <<clock, uses, GrantedCalls>>
    BY <1>3, SecondsType DEF Cleanup, State!Now, State!BotStateCurrentTime, StateInv, ChannelStateTypeOK, GrantedCalls
  <2>2. \A k \in State!StateKeys : \/ expires'[k] = expires[k]
                                   \/ expires'[k] <= State!Now /\ expires[k] <= State!Now
    BY <1>0, <1>3, <2>1, CleanupEffect
  <2>. QED
    BY <1>3, <2>1, <2>2, CleanupEffect, LiveStutter
<1>4. CASE Tick
  <2>1. /\ State!Now' = State!Now + 1 /\ State!Now \in Nat /\ clock' = clock + 1 /\ expires' = expires
        /\ UNCHANGED <<uses, GrantedCalls>>
    BY <1>4, SecondsType DEF Tick, State!Now, State!BotStateCurrentTime, StateInv, ChannelStateTypeOK, GrantedCalls
  <2>2. \A j \in State!StateKeys :
           (IF State!Counts(j) THEN expires[j] - State!Now ELSE 0)' = IF Left[j] > 0 THEN Left[j] - 1 ELSE 0
    BY <1>0, <2>1 DEF State!Counts, Left
  <2>3. Left' = [j \in State!StateKeys |-> IF Left[j] > 0 THEN Left[j] - 1 ELSE 0]
    BY <2>2 DEF Left
  <2>4. State!StateKeys = Live!Keys
    BY DEF State!StateKeys, Live!Keys, State!Cooldown, Live!Cooldown
  <2>. QED
    BY <2>1, <2>3, <2>4 DEF Live!Next, Live!Pass, Live!Lives
<1>5. CASE RaffleNext
  <2>1. UNCHANGED <<clock, expires, uses>>
    BY <1>5 DEF RaffleNext
  <2>2. UNCHANGED Left
    BY <2>1 DEF Left, State!Counts, State!Now, State!BotStateCurrentTime
  <2>3. \A op \in Granted : calls'[op] = calls[op]
    BY <1>5 DEF RaffleNext, cmdRaffle, cmdRaffleEnableDisable, cmdRaffleReset, cmdRaffleWinner, Count, Granted,
       StateInv, ChannelStateTypeOK, Counted
  <2>4. UNCHANGED GrantedCalls
    BY <2>3 DEF GrantedCalls
  <2>. QED
    BY <2>1, <2>2, <2>4
<1>6. CASE UNCHANGED stateVars
  BY <1>6 DEF stateVars, Left, State!Counts, State!Now, State!BotStateCurrentTime, GrantedCalls
<1>. QED
  BY <1>1, <1>2, <1>3, <1>4, <1>5, <1>6 DEF ChannelStateNext, UsesNext, TimedNext

------------------------------------------------------------------------------
(* What is granted once is used once, whatever the interleaving of messages,  *)
(* of time and of cleanups: a confirmation takes two requests of its own, a   *)
(* permit lets one message through, and a win needs an entry (Confirm,        *)
(* HasLinkPermit, RaffleWinners).                                             *)
THEOREM GrantedOnceUsedOnce == ChannelStateSpec => []ChannelStateInv
<1>1. StateInv => ChannelStateInv
  <2>. SUFFICES ASSUME StateInv PROVE ChannelStateInv
    OBVIOUS
  <2>1. \A k : Held(k) \in {0, 1} /\ Entered(k) \in {0, 1}
    BY DEF Held, Entered
  <2>2. \A op \in Counted, u \in Members \union Entrants : calls[op][u] \in Nat
    BY SecondsType DEF StateInv, ChannelStateTypeOK
  <2>3. ConfirmedTwice
    BY <2>1, <2>2 DEF StateInv, ConfirmationsLeft, ConfirmedTwice, Counted
  <2>4. PermitsUsedOnce
    BY <2>1, <2>2 DEF StateInv, PermitsLeft, PermitsUsedOnce, Counted
  <2>5. WinsAreEntries
    BY <2>1, <2>2 DEF StateInv, EntriesLeft, WinsAreEntries, Counted
  <2>. QED
    BY <2>3, <2>4, <2>5 DEF ChannelStateInv, StateInv
<1>. QED
  BY <1>1, StateHolds, PTL

(* Nobody who is not exempt is let through before the cooldown of the last    *)
(* use is over, whoever used it, and whatever rows a cleanup has removed      *)
(* (tryCooldown).                                                             *)
THEOREM CooldownsAreKept == ChannelStateSpec => UsesApart
<1>. DEFINE Apart == \A key \in Cooldowns :
          uses'[key] # uses[key] => lastUse[key] = 0 \/ State!Now >= lastUse[key] + Seconds(key)
<1>1. StateInv /\ [ChannelStateNext]_stateVars => [Apart]_stateVars
  <2>. SUFFICES ASSUME StateInv, ChannelStateNext, NEW key \in Cooldowns, uses'[key] # uses[key]
                PROVE  lastUse[key] = 0 \/ State!Now >= lastUse[key] + Seconds(key)
    OBVIOUS
  <2>1. PICK used \in Cooldowns, moderator \in BOOLEAN : Use(used, moderator)
    BY DEF ChannelStateNext, UsesNext, TimedNext, RaffleNext, Cleanup, Tick, Ask
  <2>2. used = key /\ uses' # uses
    BY <2>1 DEF Use, StateInv, ChannelStateTypeOK
  <2>3. Seconds(key) = 0 \/ expires[State!Cooldown(key)] <= State!Now
    BY <2>1, <2>2, UseEffect
  <2>4. /\ lastUse[key] <= State!Now
        /\ \/ lastUse[key] = 0
           \/ expires[State!Cooldown(key)] = lastUse[key] + Seconds(key)
           \/ lastUse[key] + Seconds(key) <= State!Now
    BY DEF StateInv, CooldownsLast
  <2>5. lastUse[key] \in Nat /\ State!Now \in Nat /\ Seconds(key) \in Nat
    BY SecondsType DEF State!Now, State!BotStateCurrentTime, StateInv, ChannelStateTypeOK
  <2>. QED
    BY <2>3, <2>4, <2>5
<1>. QED
  BY <1>1, StateHolds, PTL DEF ChannelStateSpec, UsesApart

(* Every behaviour of the tables is one of LiveState: a cooldown, permit,     *)
(* confirmation or warning lives exactly as long as its operation gives it    *)
(* unless it is used up, none that lives is overlooked, and none counts after *)
(* its end, whether a cleanup has removed its row or not (internal/db/        *)
(* botstate).                                                                 *)
THEOREM TablesImplementLiveState == ChannelStateSpec => ImplementsLiveState
<1>1. ChannelStateInit => Live!Init
  BY LiveInit
<1>2. StateInv /\ [ChannelStateNext]_stateVars => [Live!Next]_(Live!liveVars)
  BY LiveStep
<1>. QED
  BY <1>1, <1>2, StateHolds, PTL DEF ChannelStateSpec, ImplementsLiveState, Live!Spec

------------------------------------------------------------------------------
(* 2. Commands and lists                                                      *)

(* Every command and every list has its text or its items, and these have     *)
(* nobody else: EveryRowHasItsEntry without counting.                         *)
HasItsRow(i) ==
    \/ /\ infos[i].list = NoRow
       /\ infos[i].custom \in DOMAIN customs
       /\ customs[infos[i].custom].channel = infos[i].channel
    \/ /\ infos[i].custom = NoRow
       /\ infos[i].list \in DOMAIN lists
       /\ lists[infos[i].list].channel = infos[i].channel

RowsAreOwned ==
    /\ \A i \in DOMAIN infos : HasItsRow(i)
    /\ \A k \in DOMAIN customs : \E i \in DOMAIN infos : infos[i].custom = k
    /\ \A k \in DOMAIN lists : \E i \in DOMAIN infos : infos[i].list = k
    /\ \A i, j \in DOMAIN infos : infos[i].custom = infos[j].custom /\ infos[i].custom # NoRow => i = j
    /\ \A i, j \in DOMAIN infos : infos[i].list = infos[j].list /\ infos[i].list # NoRow => i = j

TablesInv == CommandsTypeOK /\ RowsAreOwned /\ NamesAreUnique

TextRow == [channel : Channels, message : Texts]
ListRow == [channel : Channels, items : Seq(Entries)]

(* What a message of u in channel c does to the tables, one of these.         *)
Edits(u, c) ==
    \E i \in DOMAIN infos :
        /\ infos[i].channel = c
        /\ CanAccess(UserLevel[u], infos[i].level)
        /\ DOMAIN infos' = DOMAIN infos
        /\ \A j \in DOMAIN infos \ {i} : infos'[j] = infos[j]
        /\ infos'[i] \in CommandInfo
        /\ infos'[i].channel = c
        /\ infos'[i].custom = infos[i].custom
        /\ infos'[i].list = infos[i].list
        /\ infos'[i].level # infos[i].level => CanAccess(UserLevel[u], infos'[i].level)
        /\ infos'[i].name # infos[i].name => ~CommandInfoExists(c, infos'[i].name)
        /\ DOMAIN customs' = DOMAIN customs
        /\ \A k \in DOMAIN customs : customs'[k] \in TextRow /\ customs'[k].channel = customs[k].channel
        /\ DOMAIN lists' = DOMAIN lists
        /\ \A k \in DOMAIN lists : lists'[k] \in ListRow /\ lists'[k].channel = lists[k].channel
        /\ UNCHANGED <<repeated, scheduled>>

Inserts(c) ==
    \E row \in CommandInfo :
        /\ Free(infos)
        /\ row.channel = c
        /\ ~CommandInfoExists(c, row.name)
        /\ infos' = With(infos, NewId(infos), row)
        /\ \/ /\ row.custom = NewId(customs) /\ row.list = NoRow
              /\ \E text \in TextRow :
                     text.channel = c /\ customs' = With(customs, NewId(customs), text)
              /\ UNCHANGED lists
           \/ /\ row.custom = NoRow /\ row.list = NewId(lists)
              /\ \E items \in ListRow :
                     items.channel = c /\ lists' = With(lists, NewId(lists), items)
              /\ UNCHANGED customs
        /\ UNCHANGED <<repeated, scheduled>>

Removes(u, c) ==
    \E i \in DOMAIN infos :
        /\ infos[i].channel = c
        /\ CanAccess(UserLevel[u], infos[i].level)
        /\ DeleteCommandInfoCascade(i)

Repeats ==
    /\ repeated' \subseteq DOMAIN infos /\ scheduled' \subseteq DOMAIN infos
    /\ UNCHANGED <<infos, customs, lists>>

------------------------------------------------------------------------------
LEMMA LevelsType ==
    /\ Levels \subseteq DBLevels
    /\ ListLevels \subseteq DBLevels
    /\ \A a \in CommandAdds : a[1] \in DBLevels /\ a[2] \in BOOLEAN
    /\ \A u \in Users : UserLevel[u] \in AccessLevels
    /\ AccessLevelModerator \in DBLevels
<1>1. AccessLevelSubscriber \in DBLevels /\ AccessLevelModerator \in DBLevels
  BY DEF DBLevels, AccessLevelEveryone, AccessLevelSubscriber, AccessLevelModerator, AccessLevelAdmin
<1>2. ASSUME NEW a \in CommandAdds PROVE a[1] \in DBLevels /\ a[2] \in BOOLEAN
  <2>1. CASE a = <<AccessLevelSubscriber, FALSE>>
    BY <1>1, <2>1
  <2>2. CASE \E l \in Levels : a = <<l, TRUE>>
    BY <2>2, CommandsAssumption
  <2>. QED
    BY <1>2, <2>1, <2>2 DEF CommandAdds
<1>. QED
  BY <1>1, <1>2, CommandsAssumption DEF ListLevels

(* A level of the tables is one the code knows.                               *)
LEMMA AccessIsPG == \A a, level : level \in DBLevels => (CanAccessPG(a, level) <=> CanAccess(a, level))
BY DEF CanAccessPG, newAccessLevel

LEMMA FreeHasNew == \A table : Free(table) => NewId(table) \in RowIds /\ NewId(table) \notin DOMAIN table
BY DEF Free, NewId

(* Each text and each list is some entry's own: where there is room for an    *)
(* entry there is room for them.                                              *)
LEMMA RoomForRows ==
    ASSUME TablesInv, Free(infos)
    PROVE  Free(customs) /\ Free(lists)
<1>1. /\ DOMAIN infos \subseteq RowIds /\ DOMAIN customs \subseteq RowIds /\ DOMAIN lists \subseteq RowIds
      /\ IsFiniteSet(RowIds)
  BY CommandsAssumption DEF TablesInv, CommandsTypeOK, IsTable
<1>2. /\ IsFiniteSet(DOMAIN infos)
      /\ Cardinality(DOMAIN infos) < Cardinality(RowIds)
  <2>1. /\ IsFiniteSet(DOMAIN infos)
        /\ Cardinality(DOMAIN infos) <= Cardinality(RowIds)
        /\ Cardinality(RowIds) = Cardinality(DOMAIN infos) => RowIds = DOMAIN infos
    BY <1>1, FS_Subset
  <2>2. Cardinality(DOMAIN infos) \in Nat /\ Cardinality(RowIds) \in Nat
    BY <1>1, <2>1, FS_CardinalityType
  <2>. QED
    BY <2>1, <2>2 DEF Free
<1>3. ASSUME NEW table, DOMAIN table \subseteq RowIds,
             NEW Owner \in [DOMAIN table -> DOMAIN infos],
             \A k, l \in DOMAIN table : Owner[k] = Owner[l] => k = l
      PROVE  Free(table)
  <2>1. Owner \in Injection(DOMAIN table, DOMAIN infos)
    BY <1>3 DEF Injection, IsInjective
  <2>2. Cardinality(DOMAIN table) <= Cardinality(DOMAIN infos) /\ IsFiniteSet(DOMAIN table)
    BY <1>2, <2>1, FS_Injection
  <2>3. Cardinality(DOMAIN table) \in Nat /\ Cardinality(DOMAIN infos) \in Nat /\ Cardinality(RowIds) \in Nat
    BY <1>1, <1>2, <2>2, FS_CardinalityType
  <2>4. DOMAIN table # RowIds
    BY <1>2, <2>2, <2>3
  <2>. QED
    BY <1>3, <2>4 DEF Free
<1>4. Free(customs)
  <2>. DEFINE Owner == [k \in DOMAIN customs |-> CHOOSE i \in DOMAIN infos : infos[i].custom = k]
  <2>1. \A k \in DOMAIN customs : Owner[k] \in DOMAIN infos /\ infos[Owner[k]].custom = k
    BY DEF TablesInv, RowsAreOwned
  <2>2. Owner \in [DOMAIN customs -> DOMAIN infos]
    BY <2>1
  <2>. HIDE DEF Owner
  <2>. QED
    BY <1>1, <1>3, <2>1, <2>2
<1>5. Free(lists)
  <2>. DEFINE Owner == [k \in DOMAIN lists |-> CHOOSE i \in DOMAIN infos : infos[i].list = k]
  <2>1. \A k \in DOMAIN lists : Owner[k] \in DOMAIN infos /\ infos[Owner[k]].list = k
    BY DEF TablesInv, RowsAreOwned
  <2>2. Owner \in [DOMAIN lists -> DOMAIN infos]
    BY <2>1
  <2>. HIDE DEF Owner
  <2>. QED
    BY <1>1, <1>3, <2>1, <2>2
<1>. QED
  BY <1>4, <1>5

LEMMA CommandsStart == CommandsInit => TablesInv
BY DEF CommandsInit, TablesInv, CommandsTypeOK, IsTable, RowsAreOwned, NamesAreUnique, HasItsRow, NoActor

LEMMA EditsStep ==
    ASSUME TablesInv, NEW u \in Users, NEW c \in Channels, Session(u, c), Edits(u, c)
    PROVE  TablesInv'
<1>. PICK i \in DOMAIN infos :
        /\ infos[i].channel = c
        /\ DOMAIN infos' = DOMAIN infos
        /\ \A j \in DOMAIN infos \ {i} : infos'[j] = infos[j]
        /\ infos'[i] \in CommandInfo
        /\ infos'[i].channel = c
        /\ infos'[i].custom = infos[i].custom
        /\ infos'[i].list = infos[i].list
        /\ infos'[i].name # infos[i].name => ~CommandInfoExists(c, infos'[i].name)
        /\ DOMAIN customs' = DOMAIN customs
        /\ \A k \in DOMAIN customs : customs'[k] \in TextRow /\ customs'[k].channel = customs[k].channel
        /\ DOMAIN lists' = DOMAIN lists
        /\ \A k \in DOMAIN lists : lists'[k] \in ListRow /\ lists'[k].channel = lists[k].channel
        /\ UNCHANGED <<repeated, scheduled>>
  BY DEF Edits
<1>1. CommandsTypeOK'
  BY DEF TablesInv, CommandsTypeOK, IsTable, Session, TextRow, ListRow
<1>2. \A j \in DOMAIN infos : /\ infos'[j].custom = infos[j].custom
                              /\ infos'[j].list = infos[j].list
                              /\ infos'[j].channel = infos[j].channel
  OBVIOUS
<1>3. RowsAreOwned'
  <2>1. (\A j \in DOMAIN infos : HasItsRow(j))'
    BY <1>2 DEF TablesInv, RowsAreOwned, HasItsRow
  <2>. QED
    BY <1>2, <2>1 DEF TablesInv, RowsAreOwned
<1>4. NamesAreUnique'
  BY <1>2 DEF TablesInv, NamesAreUnique, CommandInfoExists, FindCommand
<1>. QED
  BY <1>1, <1>3, <1>4 DEF TablesInv

LEMMA InsertsStep ==
    ASSUME TablesInv, NEW u \in Users, NEW c \in Channels, Session(u, c), Inserts(c)
    PROVE  TablesInv'
<1>. DEFINE new == NewId(infos)
<1>1. PICK row \in CommandInfo :
        /\ Free(infos)
        /\ row.channel = c
        /\ ~CommandInfoExists(c, row.name)
        /\ infos' = With(infos, new, row)
        /\ \/ /\ row.custom = NewId(customs) /\ row.list = NoRow
              /\ \E text \in TextRow :
                     text.channel = c /\ customs' = With(customs, NewId(customs), text)
              /\ UNCHANGED lists
           \/ /\ row.custom = NoRow /\ row.list = NewId(lists)
              /\ \E items \in ListRow :
                     items.channel = c /\ lists' = With(lists, NewId(lists), items)
              /\ UNCHANGED customs
        /\ UNCHANGED <<repeated, scheduled>>
  BY DEF Inserts
<1>2. /\ new \in RowIds \ DOMAIN infos
      /\ NewId(customs) \in RowIds \ DOMAIN customs
      /\ NewId(lists) \in RowIds \ DOMAIN lists
      /\ NoRow \notin RowIds
  BY <1>1, RoomForRows, FreeHasNew, CommandsAssumption
<1>. HIDE DEF new
<1>3. /\ DOMAIN infos' = DOMAIN infos \union {new}
      /\ infos'[new] = row
      /\ \A j \in DOMAIN infos : infos'[j] = infos[j]
  BY <1>1, <1>2 DEF With
<1>4. CASE /\ row.custom = NewId(customs) /\ row.list = NoRow
           /\ \E text \in TextRow : text.channel = c /\ customs' = With(customs, NewId(customs), text)
           /\ UNCHANGED lists
  <2>. DEFINE text == NewId(customs)
  <2>. HIDE DEF text
  <2>1. /\ DOMAIN customs' = DOMAIN customs \union {text}
        /\ customs'[text] \in TextRow /\ customs'[text].channel = c
        /\ \A k \in DOMAIN customs : customs'[k] = customs[k]
        /\ text \in RowIds \ DOMAIN customs
        /\ row.custom = text /\ row.list = NoRow /\ lists' = lists
    BY <1>2, <1>4 DEF With, text
  <2>2. CommandsTypeOK'
    BY <1>1, <1>2, <1>3, <2>1 DEF TablesInv, CommandsTypeOK, IsTable, Session, TextRow
  <2>3. (\A j \in DOMAIN infos : HasItsRow(j))'
    BY <1>1, <1>2, <1>3, <2>1 DEF TablesInv, RowsAreOwned, HasItsRow
  <2>4. \A j \in DOMAIN infos : infos[j].custom # text
    BY <2>1, <1>2 DEF TablesInv, RowsAreOwned, HasItsRow
  <2>5. RowsAreOwned'
    BY <1>1, <1>2, <1>3, <2>1, <2>3, <2>4 DEF TablesInv, RowsAreOwned
  <2>6. NamesAreUnique'
    BY <1>1, <1>2, <1>3 DEF TablesInv, NamesAreUnique, CommandInfoExists, FindCommand
  <2>. QED
    BY <2>2, <2>5, <2>6 DEF TablesInv
<1>5. CASE /\ row.custom = NoRow /\ row.list = NewId(lists)
           /\ \E items \in ListRow : items.channel = c /\ lists' = With(lists, NewId(lists), items)
           /\ UNCHANGED customs
  <2>. DEFINE list == NewId(lists)
  <2>. HIDE DEF list
  <2>1. /\ DOMAIN lists' = DOMAIN lists \union {list}
        /\ lists'[list] \in ListRow /\ lists'[list].channel = c
        /\ \A k \in DOMAIN lists : lists'[k] = lists[k]
        /\ list \in RowIds \ DOMAIN lists
        /\ row.list = list /\ row.custom = NoRow /\ customs' = customs
    BY <1>2, <1>5 DEF With, list
  <2>2. CommandsTypeOK'
    BY <1>1, <1>2, <1>3, <2>1 DEF TablesInv, CommandsTypeOK, IsTable, Session, ListRow
  <2>3. (\A j \in DOMAIN infos : HasItsRow(j))'
    BY <1>1, <1>2, <1>3, <2>1 DEF TablesInv, RowsAreOwned, HasItsRow
  <2>4. \A j \in DOMAIN infos : infos[j].list # list
    BY <2>1, <1>2 DEF TablesInv, RowsAreOwned, HasItsRow
  <2>5. RowsAreOwned'
    BY <1>1, <1>2, <1>3, <2>1, <2>3, <2>4 DEF TablesInv, RowsAreOwned
  <2>6. NamesAreUnique'
    BY <1>1, <1>2, <1>3 DEF TablesInv, NamesAreUnique, CommandInfoExists, FindCommand
  <2>. QED
    BY <2>2, <2>5, <2>6 DEF TablesInv
<1>. QED
  BY <1>1, <1>4, <1>5

LEMMA RemovesStep ==
    ASSUME TablesInv, NEW u \in Users, NEW c \in Channels, Session(u, c), Removes(u, c)
    PROVE  TablesInv'
<1>1. PICK i \in DOMAIN infos : DeleteCommandInfoCascade(i)
  BY DEF Removes
<1>2. /\ repeated' = repeated \ {i} /\ scheduled' = scheduled \ {i}
      /\ DOMAIN infos' = DOMAIN infos \ {i}
      /\ \A j \in DOMAIN infos \ {i} : infos'[j] = infos[j]
      /\ DOMAIN customs' = DOMAIN customs \ {infos[i].custom}
      /\ \A k \in DOMAIN customs \ {infos[i].custom} : customs'[k] = customs[k]
      /\ DOMAIN lists' = DOMAIN lists \ {infos[i].list}
      /\ \A k \in DOMAIN lists \ {infos[i].list} : lists'[k] = lists[k]
  BY <1>1 DEF DeleteCommandInfoCascade, DeleteRepeatedCommandByInfo, DeleteScheduledCommandByInfo,
     DeleteCommandInfo, DeleteCustomCommand, DeleteCommandList, Without
<1>3. CommandsTypeOK'
  BY <1>2 DEF TablesInv, CommandsTypeOK, IsTable, Session
<1>4. NoRow \notin DOMAIN customs /\ NoRow \notin DOMAIN lists
  BY CommandsAssumption DEF TablesInv, CommandsTypeOK, IsTable
<1>5. RowsAreOwned'
  BY <1>2, <1>4 DEF TablesInv, RowsAreOwned, HasItsRow
<1>6. NamesAreUnique'
  BY <1>2 DEF TablesInv, NamesAreUnique
<1>. QED
  BY <1>3, <1>5, <1>6 DEF TablesInv

LEMMA ChannelDeletedStep ==
    ASSUME TablesInv, NEW u \in Users, NEW c \in Channels, NEW from \in Channels,
           DeleteChannelCommands(u, c, from)
    PROVE  TablesInv'
<1>1. /\ repeated' = repeated \ Of(infos, c) /\ scheduled' = scheduled \ Of(infos, c)
      /\ DOMAIN infos' = DOMAIN infos \ Of(infos, c)
      /\ \A j \in DOMAIN infos \ Of(infos, c) : infos'[j] = infos[j]
      /\ DOMAIN customs' = DOMAIN customs \ Of(customs, c)
      /\ \A k \in DOMAIN customs \ Of(customs, c) : customs'[k] = customs[k]
      /\ DOMAIN lists' = DOMAIN lists \ Of(lists, c)
      /\ \A k \in DOMAIN lists \ Of(lists, c) : lists'[k] = lists[k]
      /\ actor' = [user |-> u, channel |-> from]
  BY DEF DeleteChannelCommands, DeleteScheduledCommandsByChannel, DeleteRepeatedCommandsByChannel,
     DeleteCommandInfosByChannel, DeleteCommandListsByChannel, DeleteCustomCommandsByChannel, Without, Session
<1>2. CommandsTypeOK'
  BY <1>1 DEF TablesInv, CommandsTypeOK, IsTable
<1>3. NoRow \notin DOMAIN customs /\ NoRow \notin DOMAIN lists
  BY CommandsAssumption DEF TablesInv, CommandsTypeOK, IsTable
<1>4. (\A j \in DOMAIN infos : HasItsRow(j))'
  BY <1>1 DEF TablesInv, RowsAreOwned, HasItsRow, Of
<1>5. ASSUME NEW k \in DOMAIN customs' PROVE \E i \in DOMAIN infos' : infos'[i].custom = k
  <2>1. PICK i \in DOMAIN infos : infos[i].custom = k
    BY <1>1 DEF TablesInv, RowsAreOwned
  <2>2. customs[k].channel = infos[i].channel
    BY <1>1, <1>3, <2>1 DEF TablesInv, RowsAreOwned, HasItsRow
  <2>. QED
    BY <1>1, <2>1, <2>2 DEF Of
<1>6. ASSUME NEW k \in DOMAIN lists' PROVE \E i \in DOMAIN infos' : infos'[i].list = k
  <2>1. PICK i \in DOMAIN infos : infos[i].list = k
    BY <1>1 DEF TablesInv, RowsAreOwned
  <2>2. lists[k].channel = infos[i].channel
    BY <1>1, <1>3, <2>1 DEF TablesInv, RowsAreOwned, HasItsRow
  <2>. QED
    BY <1>1, <2>1, <2>2 DEF Of
<1>7. RowsAreOwned'
  BY <1>1, <1>4, <1>5, <1>6 DEF TablesInv, RowsAreOwned
<1>8. NamesAreUnique'
  BY <1>1 DEF TablesInv, NamesAreUnique
<1>. QED
  BY <1>2, <1>7, <1>8 DEF TablesInv

------------------------------------------------------------------------------
(* The handlers *)

(* Where a row is written over, and nothing else.                             *)
LEMMA RestrictEdits ==
    ASSUME TablesInv, NEW u \in Users, NEW c \in Channels, NEW i \in DOMAIN infos, infos[i].channel = c,
           NEW level \in DBLevels, RestrictTo(u, i, level)
    PROVE  Edits(u, c)
<1>1. infos[i] \in CommandInfo
  BY DEF TablesInv, CommandsTypeOK, IsTable
<1>2. CanAccess(UserLevel[u], infos[i].level) /\ CanAccess(UserLevel[u], level)
  BY <1>1, AccessIsPG DEF RestrictTo, MayAccess, CommandInfo
<1>3. /\ infos' = [infos EXCEPT ![i].level = level]
      /\ UNCHANGED <<customs, lists, repeated, scheduled>>
  BY DEF RestrictTo, UpdateCommandInfoAccess
<1>4. infos'[i] = [infos[i] EXCEPT !.level = level] /\ DOMAIN infos' = DOMAIN infos
  BY <1>3
<1>5. /\ infos'[i] \in CommandInfo /\ infos'[i].level = level
      /\ infos'[i].channel = infos[i].channel /\ infos'[i].name = infos[i].name
      /\ infos'[i].custom = infos[i].custom /\ infos'[i].list = infos[i].list
  BY <1>1, <1>4 DEF CommandInfo
<1>6. /\ \A k \in DOMAIN customs : customs[k] \in TextRow
      /\ \A k \in DOMAIN lists : lists[k] \in ListRow
  BY DEF TablesInv, CommandsTypeOK, IsTable, TextRow, ListRow
<1>. QED
  BY <1>2, <1>3, <1>4, <1>5, <1>6 DEF Edits

LEMMA RenameEdits ==
    ASSUME TablesInv, NEW u \in Users, NEW c \in Channels, NEW i \in DOMAIN infos, infos[i].channel = c,
           NEW new \in Names, Rename(u, c, i, new)
    PROVE  Edits(u, c)
<1>1. infos[i] \in CommandInfo
  BY DEF TablesInv, CommandsTypeOK, IsTable
<1>2. CanAccess(UserLevel[u], infos[i].level)
  BY <1>1, AccessIsPG DEF Rename, MayAccess, CommandInfo
<1>3. /\ infos' = [infos EXCEPT ![i].name = new]
      /\ ~CommandInfoExists(c, new)
      /\ UNCHANGED <<customs, lists, repeated, scheduled>>
  BY DEF Rename, RenameCommandInfo
<1>4. infos'[i] = [infos[i] EXCEPT !.name = new] /\ DOMAIN infos' = DOMAIN infos
  BY <1>3
<1>5. /\ infos'[i] \in CommandInfo /\ infos'[i].level = infos[i].level
      /\ infos'[i].channel = infos[i].channel /\ infos'[i].name = new
      /\ infos'[i].custom = infos[i].custom /\ infos'[i].list = infos[i].list
  BY <1>1, <1>4 DEF CommandInfo
<1>6. /\ \A k \in DOMAIN customs : customs[k] \in TextRow
      /\ \A k \in DOMAIN lists : lists[k] \in ListRow
  BY DEF TablesInv, CommandsTypeOK, IsTable, TextRow, ListRow
<1>. QED
  BY <1>2, <1>3, <1>4, <1>5, <1>6 DEF Edits

LEMMA UsageEdits ==
    ASSUME TablesInv, NEW u \in Users, NEW c \in Channels, NEW i \in DOMAIN infos, infos[i].channel = c,
           MayAccess(u, i), runCommandAndCount(i), UNCHANGED <<customs, lists, repeated, scheduled>>
    PROVE  Edits(u, c)
<1>1. infos[i] \in CommandInfo /\ infos[i].count \in 0 .. MaxCount - 1
  BY CommandsAssumption DEF TablesInv, CommandsTypeOK, IsTable, runCommandAndCount, CommandInfo
<1>2. CanAccess(UserLevel[u], infos[i].level)
  BY <1>1, AccessIsPG DEF MayAccess, CommandInfo
<1>3. infos' = [infos EXCEPT ![i].count = infos[i].count + 1]
  BY DEF runCommandAndCount, UpdateCommandInfoUsage
<1>4. infos'[i] = [infos[i] EXCEPT !.count = infos[i].count + 1] /\ DOMAIN infos' = DOMAIN infos
  BY <1>3
<1>5. /\ infos'[i] \in CommandInfo /\ infos'[i].level = infos[i].level
      /\ infos'[i].channel = infos[i].channel /\ infos'[i].name = infos[i].name
      /\ infos'[i].custom = infos[i].custom /\ infos'[i].list = infos[i].list
  BY <1>1, <1>4, CommandsAssumption DEF CommandInfo
<1>6. /\ \A k \in DOMAIN customs : customs[k] \in TextRow
      /\ \A k \in DOMAIN lists : lists[k] \in ListRow
  BY DEF TablesInv, CommandsTypeOK, IsTable, TextRow, ListRow
<1>. QED
  BY <1>2, <1>3, <1>4, <1>5, <1>6 DEF Edits

LEMMA TextEdits ==
    ASSUME TablesInv, NEW u \in Users, NEW c \in Channels, NEW n \in Names, NEW text \in Texts,
           NEW level \in DBLevels, NEW force \in BOOLEAN, CanAccess(UserLevel[u], level),
           cmdCommandUpdate(u, c, n, text, level, force), UNCHANGED <<repeated, scheduled>>
    PROVE  Edits(u, c)
<1>. DEFINE to(i) == IF force THEN level ELSE infos[i].level
<1>1. PICK i \in DOMAIN infos :
         /\ infos[i].channel = c
         /\ MayAccess(u, i)
         /\ infos[i].custom \in DOMAIN customs
         /\ UpdateCustomCommandMessage(infos[i].custom, text)
         /\ UpdateCommandInfoAccess(i, to(i))
         /\ UNCHANGED lists
  BY DEF cmdCommandUpdate, findCustomCommand, LookupCommand, FindCommandForUpdate, FindCommand,
     GetCustomCommandForUpdate
<1>2. infos[i] \in CommandInfo /\ to(i) \in DBLevels
  BY DEF TablesInv, CommandsTypeOK, IsTable, CommandInfo
<1>3. CanAccess(UserLevel[u], infos[i].level) /\ CanAccess(UserLevel[u], to(i))
  BY <1>1, <1>2, AccessIsPG DEF MayAccess, CommandInfo
<1>4. /\ infos' = [infos EXCEPT ![i].level = to(i)]
      /\ customs' = [customs EXCEPT ![infos[i].custom].message = text]
      /\ lists' = lists
  BY <1>1 DEF UpdateCustomCommandMessage, UpdateCommandInfoAccess
<1>. HIDE DEF to
<1>5. infos'[i] = [infos[i] EXCEPT !.level = to(i)] /\ DOMAIN infos' = DOMAIN infos
  BY <1>4
<1>6. /\ infos'[i] \in CommandInfo /\ infos'[i].level = to(i)
      /\ infos'[i].channel = infos[i].channel /\ infos'[i].name = infos[i].name
      /\ infos'[i].custom = infos[i].custom /\ infos'[i].list = infos[i].list
  BY <1>2, <1>5 DEF CommandInfo
<1>7. /\ \A k \in DOMAIN customs : customs[k] \in TextRow
      /\ \A k \in DOMAIN lists : lists[k] \in ListRow
  BY DEF TablesInv, CommandsTypeOK, IsTable, TextRow, ListRow
<1>8. /\ DOMAIN customs' = DOMAIN customs
      /\ \A k \in DOMAIN customs : customs'[k] \in TextRow /\ customs'[k].channel = customs[k].channel
  BY <1>4, <1>7 DEF TextRow
<1>. QED
  BY <1>1, <1>3, <1>4, <1>5, <1>6, <1>7, <1>8 DEF Edits

LEMMA ItemsEdit ==
    ASSUME TablesInv, NEW u \in Users, NEW c \in Channels, NEW i \in DOMAIN infos, infos[i].channel = c,
           MayAccess(u, i), infos[i].list \in DOMAIN lists,
           \/ \E item \in Entries : handleListAdd(i, item)
           \/ \E k \in 1 .. MaxItems : handleListDelete(i, k),
           UNCHANGED <<customs, repeated, scheduled>>
    PROVE  Edits(u, c)
<1>1. /\ infos[i] \in CommandInfo
      /\ \A k \in DOMAIN customs : customs[k] \in TextRow
      /\ \A k \in DOMAIN lists : lists[k] \in ListRow
  BY DEF TablesInv, CommandsTypeOK, IsTable, TextRow, ListRow
<1>2. CanAccess(UserLevel[u], infos[i].level)
  BY <1>1, AccessIsPG DEF MayAccess, CommandInfo
<1>3. Items(i) \in Seq(Entries)
  BY <1>1 DEF Items, ListRow
<1>4. PICK items \in Seq(Entries) : UpdateCommandListItems(infos[i].list, items) /\ infos' = infos
  <2>1. CASE \E item \in Entries : handleListAdd(i, item)
    <3>1. PICK item \in Entries : handleListAdd(i, item)
      BY <2>1
    <3>2. Append(Items(i), item) \in Seq(Entries)
      BY <1>3
    <3>. QED
      BY <3>1, <3>2 DEF handleListAdd
  <2>2. CASE \E k \in 1 .. MaxItems : handleListDelete(i, k)
    <3>1. PICK k \in DOMAIN Items(i) : handleListDelete(i, k)
      BY <2>2 DEF handleListDelete
    <3>2. SubSeq(Items(i), 1, k - 1) \o SubSeq(Items(i), k + 1, Len(Items(i))) \in Seq(Entries)
      BY <1>3
    <3>. QED
      BY <3>1, <3>2 DEF handleListDelete
  <2>. QED
    BY <2>1, <2>2
<1>5. /\ DOMAIN lists' = DOMAIN lists
      /\ \A k \in DOMAIN lists : lists'[k] \in ListRow /\ lists'[k].channel = lists[k].channel
  BY <1>1, <1>4 DEF UpdateCommandListItems, ListRow
<1>. QED
  BY <1>1, <1>2, <1>4, <1>5 DEF Edits

(* What the handlers come to.                                                 *)
LEMMA HandlersDo ==
    ASSUME TablesInv, CommandsNext
    PROVE  \/ \E u \in Users, c, from \in Channels : DeleteChannelCommands(u, c, from)
           \/ \E u \in Users, c \in Channels :
                 /\ Session(u, c)
                 /\ Edits(u, c) \/ Inserts(c) \/ Removes(u, c) \/ Repeats
<1>. SUFFICES ASSUME NEW u \in Users, NEW c \in Channels, NEW n \in Names,
                     \/ \E text \in Texts, a \in CommandAdds : cmdCommandAdd(u, c, n, text, a[1], a[2])
                     \/ cmdCommandDelete(u, c, n)
                     \/ \E level \in Levels : cmdCommandRestrict(u, c, n, level)
                     \/ \E new \in Names : cmdCommandRename(u, c, n, new)
                     \/ \E other \in Channels : cmdCommandClone(u, c, n, other)
                     \/ \E level \in ListLevels : cmdListAdd(u, c, n, level)
                     \/ cmdListDelete(u, c, n)
                     \/ \E level \in Levels : cmdListRestrict(u, c, n, level)
                     \/ \E new \in Names : cmdListRename(u, c, n, new)
                     \/ handleCustomCommand(u, c, n)
                     \/ handleList(u, c, n)
                     \/ AddRepeat(u, c, n)
              PROVE  Session(u, c) /\ (Edits(u, c) \/ Inserts(c) \/ Removes(u, c) \/ Repeats)
  BY DEF CommandsNext
<1>1. /\ \A i \in findCustomCommand(c, n) : i \in DOMAIN infos /\ infos[i].channel = c
      /\ \A i \in findCommandList(c, n) :
            i \in DOMAIN infos /\ infos[i].channel = c /\ infos[i].list \in DOMAIN lists
  BY DEF findCustomCommand, findCommandList, LookupCommand, FindCommandForUpdate, FindCommand,
     GetCustomCommandForUpdate, GetCommandListForUpdate, GetCommandList
<1>2. \A i \in DOMAIN infos : infos[i] \in CommandInfo
  BY DEF TablesInv, CommandsTypeOK, IsTable
<1>3. CASE \E text \in Texts, a \in CommandAdds : cmdCommandAdd(u, c, n, text, a[1], a[2])
  <2>1. PICK text \in Texts, level \in DBLevels, force \in BOOLEAN : cmdCommandAdd(u, c, n, text, level, force)
    BY <1>3, LevelsType
  <2>2. /\ Session(u, c) /\ CanAccess(UserLevel[u], level) /\ UNCHANGED <<repeated, scheduled>>
        /\ cmdCommandUpdate(u, c, n, text, level, force) \/ cmdCommandInsert(u, c, n, text, level, force)
    BY <2>1 DEF cmdCommandAdd, Handles
  <2>3. CASE cmdCommandUpdate(u, c, n, text, level, force)
    BY <2>2, <2>3, TextEdits
  <2>4. CASE cmdCommandInsert(u, c, n, text, level, force)
    <3>1. LevelOf(level, force, text) \in DBLevels
      BY LevelsType DEF LevelOf
    <3>2. NewId(customs) \in RowIds
      BY <2>4, RoomForRows, FreeHasNew DEF cmdCommandInsert
    <3>. DEFINE row == [channel |-> c, name |-> n, level |-> LevelOf(level, force, text), count |-> 0,
                        custom |-> NewId(customs), list |-> NoRow]
                new == [channel |-> c, message |-> text]
    <3>3. row \in CommandInfo /\ row.channel = c /\ row.name = n /\ row.custom = NewId(customs) /\ row.list = NoRow
      BY <3>1, <3>2, CommandsAssumption DEF CommandInfo
    <3>4. new \in TextRow /\ new.channel = c
      BY DEF TextRow
    <3>5. /\ Free(infos) /\ ~CommandInfoExists(c, n) /\ UNCHANGED lists
          /\ infos' = With(infos, NewId(infos), row)
          /\ customs' = With(customs, NewId(customs), new)
      BY <2>4 DEF cmdCommandInsert, InsertCustomCommand, InsertCommandInfo
    <3>. HIDE DEF row, new
    <3>. QED
      BY <2>2, <3>3, <3>4, <3>5 DEF Inserts
  <2>. QED
    BY <2>2, <2>3, <2>4
<1>4. CASE cmdCommandDelete(u, c, n) \/ cmdListDelete(u, c, n)
  <2>1. PICK i \in DOMAIN infos : infos[i].channel = c /\ MayAccess(u, i) /\ DeleteCommandInfoCascade(i)
    BY <1>1, <1>4 DEF cmdCommandDelete, cmdListDelete
  <2>2. CanAccess(UserLevel[u], infos[i].level)
    BY <1>2, <2>1, AccessIsPG DEF MayAccess, CommandInfo
  <2>. QED
    BY <1>4, <2>1, <2>2 DEF Removes, cmdCommandDelete, cmdListDelete, Handles
<1>5. CASE \E level \in Levels : cmdCommandRestrict(u, c, n, level) \/ cmdListRestrict(u, c, n, level)
  BY <1>1, <1>5, LevelsType, RestrictEdits DEF cmdCommandRestrict, cmdListRestrict, Handles
<1>6. CASE \E new \in Names : cmdCommandRename(u, c, n, new) \/ cmdListRename(u, c, n, new)
  BY <1>1, <1>6, RenameEdits DEF cmdCommandRename, cmdListRename, Handles
<1>7. CASE \E other \in Channels : cmdCommandClone(u, c, n, other)
  <2>1. PICK other \in Channels : cmdCommandClone(u, c, n, other)
    BY <1>7
  <2>2. PICK i \in DOMAIN infos :
           /\ infos[i].custom # NoRow
           /\ InsertCustomCommand(c, customs[infos[i].custom].message)
           /\ InsertCommandInfo(c, n, infos[i].level, NewId(customs), NoRow)
    BY <2>1 DEF cmdCommandClone, LookupCommand, FindCommandForUpdate, FindCommand
  <2>3. NewId(customs) \in RowIds
    BY <2>1, RoomForRows, FreeHasNew DEF cmdCommandClone
  <2>4. customs[infos[i].custom].message \in Texts
    BY <2>2 DEF TablesInv, CommandsTypeOK, IsTable, RowsAreOwned, HasItsRow
  <2>. DEFINE row == [channel |-> c, name |-> n, level |-> infos[i].level, count |-> 0,
                      custom |-> NewId(customs), list |-> NoRow]
              new == [channel |-> c, message |-> customs[infos[i].custom].message]
  <2>5. row \in CommandInfo /\ row.channel = c /\ row.name = n /\ row.custom = NewId(customs) /\ row.list = NoRow
    BY <1>2, <2>3, CommandsAssumption DEF CommandInfo
  <2>6. new \in TextRow /\ new.channel = c
    BY <2>4 DEF TextRow
  <2>7. /\ Session(u, c) /\ Free(infos) /\ ~CommandInfoExists(c, n) /\ UNCHANGED <<lists, repeated, scheduled>>
        /\ infos' = With(infos, NewId(infos), row)
        /\ customs' = With(customs, NewId(customs), new)
    BY <2>1, <2>2 DEF cmdCommandClone, InsertCustomCommand, InsertCommandInfo, Handles
  <2>. HIDE DEF row, new
  <2>. QED
    BY <2>5, <2>6, <2>7 DEF Inserts
<1>8. CASE \E level \in ListLevels : cmdListAdd(u, c, n, level)
  <2>1. PICK level \in DBLevels : cmdListAdd(u, c, n, level)
    BY <1>8, LevelsType
  <2>2. NewId(lists) \in RowIds
    BY <2>1, RoomForRows, FreeHasNew DEF cmdListAdd
  <2>. DEFINE row == [channel |-> c, name |-> n, level |-> level, count |-> 0,
                      custom |-> NoRow, list |-> NewId(lists)]
              new == [channel |-> c, items |-> <<>>]
  <2>3. row \in CommandInfo /\ row.channel = c /\ row.name = n /\ row.custom = NoRow /\ row.list = NewId(lists)
    BY <2>2, CommandsAssumption DEF CommandInfo
  <2>4. new \in ListRow /\ new.channel = c
    BY DEF ListRow
  <2>5. /\ Session(u, c) /\ Free(infos) /\ ~CommandInfoExists(c, n) /\ UNCHANGED <<customs, repeated, scheduled>>
        /\ infos' = With(infos, NewId(infos), row)
        /\ lists' = With(lists, NewId(lists), new)
    BY <2>1 DEF cmdListAdd, InsertCommandList, InsertCommandInfo, Handles
  <2>. HIDE DEF row, new
  <2>. QED
    BY <2>3, <2>4, <2>5 DEF Inserts
<1>9. CASE handleCustomCommand(u, c, n)
  BY <1>1, <1>9, UsageEdits DEF handleCustomCommand
<1>10. CASE handleList(u, c, n)
  <2>1. PICK i \in findCommandList(c, n) :
        /\ MayAccess(u, i)
        /\ \/ /\ Handles(u, c)
              /\ \/ \E item \in Entries : handleListAdd(i, item)
                 \/ \E k \in 1 .. MaxItems : handleListDelete(i, k)
              /\ UNCHANGED <<customs, repeated, scheduled>>
           \/ /\ Handles(u, c)
              /\ \E level \in Levels : RestrictTo(u, i, level)
           \/ /\ Session(u, c)
              /\ runCommandAndCount(i)
              /\ UNCHANGED <<customs, lists, repeated, scheduled>>
    BY <1>10 DEF handleList
  <2>2. i \in DOMAIN infos /\ infos[i].channel = c /\ infos[i].list \in DOMAIN lists /\ Session(u, c)
    BY <1>1, <2>1 DEF Handles
  <2>. QED
    BY <2>1, <2>2, LevelsType, ItemsEdit, RestrictEdits, UsageEdits
<1>11. CASE AddRepeat(u, c, n)
  <2>1. \A i \in LookupCommand(c, n, TRUE) : i \in DOMAIN infos
    BY DEF LookupCommand, FindCommandForUpdate, FindCommand
  <2>. QED
    BY <1>11, <2>1 DEF AddRepeat, Repeats, Handles, TablesInv, CommandsTypeOK
<1>. QED
  BY <1>3, <1>4, <1>5, <1>6, <1>7, <1>8, <1>9, <1>10, <1>11

LEMMA TablesAreKept == TablesInv /\ [CommandsNext]_commandVars => TablesInv'
<1>1. ASSUME TablesInv, NEW u \in Users, NEW c \in Channels, Session(u, c), Repeats
      PROVE  TablesInv'
  BY <1>1 DEF TablesInv, CommandsTypeOK, IsTable, RowsAreOwned, HasItsRow, NamesAreUnique, Repeats, Session
<1>2. ASSUME TablesInv, UNCHANGED commandVars
      PROVE  TablesInv'
  BY <1>2 DEF TablesInv, CommandsTypeOK, IsTable, RowsAreOwned, HasItsRow, NamesAreUnique, commandVars
<1>. QED
  BY <1>1, <1>2, HandlersDo, ChannelDeletedStep, EditsStep, InsertsStep, RemovesStep

LEMMA TablesHold == CommandsSpec => []TablesInv
BY CommandsStart, TablesAreKept, PTL DEF CommandsSpec

(* The tables of the commands and lists hang together after every message:    *)
(* an entry has its own text or list and no text or list is left behind, and  *)
(* no handler ever runs into the UNIQUE of the names                          *)
(* (DeleteCommandInfoCascade, cmdCommandAdd, cmdCommandClone, cmdListAdd).    *)
THEOREM TablesHangTogether == CommandsSpec => []CommandsInv
<1>1. TablesInv => CommandsInv
  <2>. SUFFICES ASSUME TablesInv PROVE EveryRowHasItsEntry
    BY DEF TablesInv, CommandsInv
  <2>1. NoRow \notin DOMAIN customs /\ NoRow \notin DOMAIN lists
    BY CommandsAssumption DEF TablesInv, CommandsTypeOK, IsTable
  <2>2. ASSUME NEW k \in DOMAIN customs PROVE Cardinality({i \in DOMAIN infos : infos[i].custom = k}) = 1
    <3>1. PICK i \in DOMAIN infos : infos[i].custom = k
      BY DEF TablesInv, RowsAreOwned
    <3>2. {j \in DOMAIN infos : infos[j].custom = k} = {i}
      BY <2>1, <3>1 DEF TablesInv, RowsAreOwned
    <3>. QED
      BY <3>2, FS_Singleton
  <2>3. ASSUME NEW k \in DOMAIN lists PROVE Cardinality({i \in DOMAIN infos : infos[i].list = k}) = 1
    <3>1. PICK i \in DOMAIN infos : infos[i].list = k
      BY DEF TablesInv, RowsAreOwned
    <3>2. {j \in DOMAIN infos : infos[j].list = k} = {i}
      BY <2>1, <3>1 DEF TablesInv, RowsAreOwned
    <3>. QED
      BY <3>2, FS_Singleton
  <2>. QED
    BY <2>2, <2>3 DEF EveryRowHasItsEntry, TablesInv, RowsAreOwned, HasItsRow
<1>. QED
  BY <1>1, TablesHold, PTL

(* What a message changes is its sender's to change, in its own channel: the  *)
(* handlers compare the level each on its own, and none forgets a comparison  *)
(* (MayAccess, RestrictTo, Rename, handleList).                               *)
THEOREM SendersMayChange == CommandsSpec => ChangesAreAllowed
<1>. DEFINE Respected ==
        \A i \in DOMAIN infos :
          (i \notin DOMAIN infos' \/ infos'[i] # infos[i]) =>
              /\ CanAccess(UserLevel[actor'.user], infos[i].level)
              /\ i \in DOMAIN infos' /\ infos'[i].level # infos[i].level =>
                     CanAccess(UserLevel[actor'.user], infos'[i].level)
            LeftAlone ==
        \A i \in DOMAIN infos \union DOMAIN infos' :
          \/ i \in DOMAIN infos \intersect DOMAIN infos' /\ infos'[i] = infos[i]
          \/ i \in DOMAIN infos /\ infos[i].channel = actor'.channel
          \/ i \in DOMAIN infos' /\ infos'[i].channel = actor'.channel
          \/ UserLevel[actor'.user] = AccessLevelSuperAdmin
<1>1. ASSUME TablesInv, CommandsNext PROVE Respected /\ LeftAlone
  <2>1. ASSUME NEW u \in Users, NEW c \in Channels, NEW from \in Channels, DeleteChannelCommands(u, c, from)
        PROVE  Respected /\ LeftAlone
    <3>1. /\ actor'.user = u
          /\ UserLevel[u] = AccessLevelSuperAdmin
          /\ DOMAIN infos' \subseteq DOMAIN infos
          /\ \A j \in DOMAIN infos' : infos'[j] = infos[j]
      BY <2>1, LevelsType DEF DeleteChannelCommands, Session, Authorized, CanAccess, Valid, AccessLevels,
         AccessLevelSuperAdmin, AccessLevelUnknown, AccessLevelEveryone, DeleteCommandInfosByChannel, Without
    <3>. QED
      BY <3>1 DEF CanAccess
  <2>2. ASSUME NEW u \in Users, NEW c \in Channels, Session(u, c),
               Edits(u, c) \/ Inserts(c) \/ Removes(u, c) \/ Repeats
        PROVE  Respected /\ LeftAlone
    <3>1. actor'.user = u /\ actor'.channel = c
      BY <2>2 DEF Session
    <3>2. CASE Edits(u, c)
      BY <3>1, <3>2 DEF Edits
    <3>3. CASE Inserts(c)
      <4>1. PICK row \in CommandInfo : Free(infos) /\ row.channel = c /\ infos' = With(infos, NewId(infos), row)
        BY <3>3 DEF Inserts
      <4>2. /\ DOMAIN infos' = DOMAIN infos \union {NewId(infos)}
            /\ infos'[NewId(infos)] = row
            /\ \A j \in DOMAIN infos : infos'[j] = infos[j]
        BY <4>1, FreeHasNew DEF With
      <4>. QED
        BY <3>1, <4>1, <4>2
    <3>4. CASE Removes(u, c)
      BY <3>1, <3>4 DEF Removes, DeleteCommandInfoCascade, DeleteCommandInfo, Without
    <3>5. CASE Repeats
      BY <3>5 DEF Repeats
    <3>. QED
      BY <2>2, <3>2, <3>3, <3>4, <3>5
  <2>. QED
    BY <1>1, <2>1, <2>2, HandlersDo
<1>2. TablesInv /\ [CommandsNext]_commandVars => [Respected]_commandVars /\ [LeftAlone]_commandVars
  BY <1>1
<1>. QED
  BY <1>2, TablesHold, PTL DEF CommandsSpec, ChangesAreAllowed, LevelsAreRespected, OtherChannelsAreLeft

------------------------------------------------------------------------------
(* 3. Quotes, autoreplies and variables                                       *)

------------------------------------------------------------------------------
(* Ranks *)

RankIn(S, start, n) == Cardinality({m \in S : m < n}) + start

LEMMA RanksGrow ==
    ASSUME NEW S \in SUBSET Int, IsFiniteSet(S), NEW start \in Int, NEW m \in S, NEW n \in S, m < n
    PROVE  RankIn(S, start, m) < RankIn(S, start, n)
<1>. DEFINE below(x) == {l \in S : l < x}
<1>0. below(n) \in SUBSET S /\ m \in below(n) /\ m \notin below(m) /\ \A l \in below(m) : l \in below(n)
  OBVIOUS
<1>1. IsFiniteSet(below(n)) /\ below(m) \in SUBSET below(n) /\ below(m) # below(n)
  BY <1>0, FS_Subset
<1>2. IsFiniteSet(below(m)) /\ Cardinality(below(m)) <= Cardinality(below(n))
      /\ Cardinality(below(m)) # Cardinality(below(n))
  BY <1>1, FS_Subset
<1>3. Cardinality(below(m)) \in Nat /\ Cardinality(below(n)) \in Nat
  BY <1>1, <1>2, FS_CardinalityType
<1>. QED
  BY <1>2, <1>3 DEF RankIn

LEMMA RanksInRange ==
    ASSUME NEW S \in SUBSET Int, IsFiniteSet(S), NEW start \in Int, NEW n \in S
    PROVE  RankIn(S, start, n) \in start .. start + Cardinality(S) - 1
<1>. DEFINE below == {l \in S : l < n}
<1>1. below \in SUBSET S /\ below # S
  OBVIOUS
<1>2. IsFiniteSet(below) /\ Cardinality(below) <= Cardinality(S) /\ Cardinality(below) # Cardinality(S)
  BY <1>1, FS_Subset
<1>3. Cardinality(below) \in Nat /\ Cardinality(S) \in Nat
  BY <1>2, FS_CardinalityType
<1>. QED
  BY <1>2, <1>3 DEF RankIn

LEMMA RanksAreAll ==
    ASSUME NEW S \in SUBSET Int, IsFiniteSet(S), NEW start \in Int,
           NEW r \in start .. start + Cardinality(S) - 1
    PROVE  \E n \in S : RankIn(S, start, n) = r
<1>. DEFINE range == start .. start + Cardinality(S) - 1
            f == [n \in S |-> RankIn(S, start, n)]
<1>1. Cardinality(S) \in Nat
  BY FS_CardinalityType
<1>2. IsFiniteSet(range) /\ Cardinality(range) = Cardinality(S)
  BY <1>1, FS_Interval
<1>3. f \in [S -> range]
  BY RanksInRange
<1>4. \A m, n \in S : f[m] = f[n] => m = n
  <2>. SUFFICES ASSUME NEW m \in S, NEW n \in S, m # n PROVE RankIn(S, start, m) # RankIn(S, start, n)
    OBVIOUS
  <2>1. RankIn(S, start, m) \in Int /\ RankIn(S, start, n) \in Int
    BY <1>1, RanksInRange
  <2>. QED
    BY <2>1, RanksGrow
<1>5. f \in Injection(S, range)
  BY <1>3, <1>4 DEF Injection, IsInjective
<1>6. f \in Surjection(S, range)
  BY <1>2, <1>5, FS_Injection
<1>. QED
  BY <1>6 DEF Surjection

(* A finite set of numbers that is not empty has a least and a greatest one.  *)
LEMMA GreatestThereIs ==
    ASSUME NEW S \in SUBSET Int, IsFiniteSet(S), S # {}
    PROVE  \E n \in S : \A m \in S : m <= n
<1>1. Cardinality(S) \in Nat /\ Cardinality(S) # 0
  BY FS_CardinalityType, FS_EmptySet
<1>2. PICK n \in S : RankIn(S, 0, n) = Cardinality(S) - 1
  <2>1. Cardinality(S) - 1 \in 0 .. 0 + Cardinality(S) - 1 /\ 0 \in Int
    BY <1>1
  <2>2. \A r \in 0 .. 0 + Cardinality(S) - 1 : \E n \in S : RankIn(S, 0, n) = r
    BY <2>1, RanksAreAll
  <2>. QED
    BY <2>1, <2>2
<1>3. ASSUME NEW m \in S PROVE m <= n
  <2>1. RankIn(S, 0, m) \in 0 .. Cardinality(S) - 1
    BY <1>1, RanksInRange
  <2>. QED
    BY <1>1, <1>2, <2>1, RanksGrow
<1>. QED
  BY <1>3

------------------------------------------------------------------------------
(* Compacting *)

LEMMA AboveType ==
    ASSUME NEW rows, Nums(rows) \subseteq 1 .. MaxNumber, NEW start
    PROVE  /\ Above(rows, start) \in SUBSET Int
           /\ Above(rows, start) \subseteq Nums(rows)
           /\ IsFiniteSet(Above(rows, start)) /\ IsFiniteSet(Nums(rows))
           /\ Cardinality(Above(rows, start)) \in Nat
           /\ \A n : Rank(rows, start, n) = RankIn(Above(rows, start), start, n)
<1>1. IsFiniteSet(1 .. MaxNumber)
  BY NumberedAssumption, FS_Interval
<1>2. IsFiniteSet(Nums(rows))
  BY <1>1, FS_Subset
<1>3. Above(rows, start) \in SUBSET Nums(rows)
  BY DEF Above
<1>4. IsFiniteSet(Above(rows, start))
  BY <1>2, <1>3, FS_Subset
<1>. QED
  BY <1>2, <1>3, <1>4, FS_CardinalityType DEF Rank, RankIn

(* The rows from start on keep their order, take the numbers from start on    *)
(* and never a higher one than they had, and the others keep their numbers.   *)
LEMMA CompactedIs ==
    ASSUME NEW rows, Nums(rows) \subseteq 1 .. MaxNumber, NEW start \in Nat \ {0}
    PROVE  LET after == Compacted(rows, start)
               above == Above(rows, start)
               below == Nums(rows) \ above
               to == start .. start + Cardinality(above) - 1
           IN /\ Nums(after) = below \union to
              /\ \A n \in below : after[n] = rows[n] /\ n < start
              /\ \A n \in above : /\ Rank(rows, start, n) \in to
                                  /\ Rank(rows, start, n) <= n
                                  /\ after[Rank(rows, start, n)] = rows[n]
              /\ \A r \in to : \E n \in above : r = Rank(rows, start, n)
              /\ \A m, n \in above : m < n => Rank(rows, start, m) < Rank(rows, start, n)
              /\ Nums(after) \subseteq 1 .. MaxNumber
<1>. DEFINE after == Compacted(rows, start)
            above == Above(rows, start)
            below == Nums(rows) \ above
            to == start .. start + Cardinality(above) - 1
            R(n) == Rank(rows, start, n)
            Old(r) == CHOOSE n \in above : R(n) = r
<1>1. /\ above \in SUBSET Int /\ above \subseteq Nums(rows) /\ IsFiniteSet(above) /\ Cardinality(above) \in Nat
      /\ \A n : R(n) = RankIn(above, start, n)
  BY AboveType
<1>2. \A n \in above : n >= start /\ n \in 1 .. MaxNumber
  BY <1>1 DEF Above
<1>3. \A n \in below : n < start /\ n \in 1 .. MaxNumber
  BY DEF Above
<1>4. \A n \in above : R(n) \in to
  BY <1>1, RanksInRange
<1>5. \A m, n \in above : m < n => R(m) < R(n)
  BY <1>1, RanksGrow
<1>6. \A r \in to : \E n \in above : r = R(n)
  <2>1. start \in Int
    OBVIOUS
  <2>2. \A r \in to : \E n \in above : RankIn(above, start, n) = r
    BY <1>1, <2>1, RanksAreAll
  <2>. QED
    BY <1>1, <2>2
<1>7. \A n \in above : Old(R(n)) = n
  <2>. SUFFICES ASSUME NEW n \in above PROVE Old(R(n)) = n
    OBVIOUS
  <2>1. Old(R(n)) \in above /\ R(Old(R(n))) = R(n)
    OBVIOUS
  <2>2. \A m \in above : R(m) \in Int
    BY <1>1, <1>4
  <2>. HIDE DEF Old, R
  <2>. QED
    BY <1>1, <1>5, <2>1, <2>2
<1>8. to = {R(n) : n \in above}
  BY <1>4, <1>6
<1>9. after = [n \in below \union to |-> IF n \in below THEN rows[n] ELSE rows[Old(n)]]
  BY <1>8 DEF Compacted
<1>10. \A n \in to : n \notin below
  BY <1>3, <1>1
<1>11. \A n \in above : R(n) <= n
  <2>. SUFFICES ASSUME NEW n \in above PROVE R(n) <= n
    OBVIOUS
  <2>. DEFINE less == {m \in above : m < n}
  <2>1. n \in Int /\ n - 1 \in Int /\ start \in Int /\ n >= start
    BY <1>1, <1>2
  <2>2. less \in SUBSET (start .. n - 1)
    BY <1>1, <1>2
  <2>3. IsFiniteSet(start .. n - 1) /\ Cardinality(start .. n - 1) = n - start
    <3>1. Cardinality(start .. n - 1) = IF start > n - 1 THEN 0 ELSE (n - 1) - start + 1
      BY <2>1, FS_Interval
    <3>. QED
      BY <2>1, <3>1, FS_Interval
  <2>4. Cardinality(less) <= n - start /\ IsFiniteSet(less)
    BY <2>2, <2>3, FS_Subset
  <2>5. Cardinality(less) \in Nat
    BY <2>4, FS_CardinalityType
  <2>. QED
    BY <2>1, <2>4, <2>5, <1>1 DEF RankIn
<1>12. /\ Nums(after) = below \union to
       /\ \A n \in below : after[n] = rows[n]
       /\ \A n \in above : after[R(n)] = rows[n]
  <2>. HIDE DEF R, Old, to, below, above
  <2>1. Nums(after) = below \union to
    BY <1>9 DEF Nums
  <2>2. \A n \in below : after[n] = rows[n]
    BY <1>9
  <2>3. \A n \in above : after[R(n)] = rows[n]
    BY <1>4, <1>7, <1>9, <1>10
  <2>. QED
    BY <2>1, <2>2, <2>3
<1>13. \A r \in to : r \in 1 .. MaxNumber
  <2>. SUFFICES ASSUME NEW r \in to PROVE r \in 1 .. MaxNumber
    OBVIOUS
  <2>1. PICK n \in above : r = R(n)
    BY <1>6
  <2>2. r \in Int /\ r >= 1 /\ r <= n /\ n <= MaxNumber /\ n \in Int
    BY <1>1, <1>2, <1>11, <2>1
  <2>. QED
    BY <2>2, NumberedAssumption
<1>14. Nums(after) \subseteq 1 .. MaxNumber
  BY <1>3, <1>12, <1>13
<1>. QED
  BY <1>3, <1>4, <1>5, <1>6, <1>11, <1>12, <1>14

LEMMA CompactOrders ==
    ASSUME Nums(quotes) \subseteq 1 .. MaxNumber
    PROVE  CompactKeepsOrder
<1>. SUFFICES ASSUME NEW start \in 1 .. MaxNumber
              PROVE  LET after == Compacted(quotes, start)
                         below == Nums(quotes) \ Above(quotes, start)
                     IN /\ Nums(after) = below \union (start .. start + Cardinality(Above(quotes, start)) - 1)
                        /\ \A n \in below : after[n] = quotes[n]
                        /\ \E New \in [Nums(quotes) -> Nums(after)] :
                              /\ \A n \in Nums(quotes) : after[New[n]] = quotes[n]
                              /\ \A m, n \in Nums(quotes) : m < n => New[m] < New[n]
  BY DEF CompactKeepsOrder
<1>. DEFINE after == Compacted(quotes, start)
            above == Above(quotes, start)
            below == Nums(quotes) \ above
            to == start .. start + Cardinality(above) - 1
            R(n) == Rank(quotes, start, n)
            New == [n \in Nums(quotes) |-> IF n \in above THEN R(n) ELSE n]
<1>1. start \in Nat \ {0} /\ start \in Int
  BY NumberedAssumption
<1>2. /\ Nums(after) = below \union to
      /\ \A n \in below : after[n] = quotes[n] /\ n < start
      /\ \A n \in above : R(n) \in to /\ after[R(n)] = quotes[n]
      /\ \A m, n \in above : m < n => R(m) < R(n)
  BY <1>1, CompactedIs
<1>3. Cardinality(above) \in Nat /\ above \subseteq Nums(quotes)
  BY AboveType
<1>. HIDE DEF R, after
<1>4. New \in [Nums(quotes) -> Nums(after)]
  BY <1>2, <1>3
<1>5. \A n \in Nums(quotes) : after[New[n]] = quotes[n]
  BY <1>2, <1>3
<1>6. ASSUME NEW m \in Nums(quotes), NEW n \in Nums(quotes), m < n PROVE New[m] < New[n]
  <2>1. m \in Int /\ n \in Int
    OBVIOUS
  <2>2. \A l \in above : R(l) \in Int /\ R(l) >= start
    BY <1>1, <1>2, <1>3
  <2>3. CASE m \in above
    <3>1. n \in above
      BY <1>6, <2>1, <2>3, <1>1 DEF Above
    <3>. QED
      BY <1>2, <1>6, <2>3, <3>1
  <2>4. CASE m \notin above
    BY <1>1, <1>2, <1>6, <2>1, <2>2, <2>4
  <2>. QED
    BY <2>3, <2>4
<1>7. \E N \in [Nums(quotes) -> Nums(after)] :
         /\ \A n \in Nums(quotes) : after[N[n]] = quotes[n]
         /\ \A m, n \in Nums(quotes) : m < n => N[m] < N[n]
  <2>. HIDE DEF New
  <2>. QED
    BY <1>4, <1>5, <1>6
<1>. QED
  BY <1>2, <1>7 DEF after

(* Which autoreply answers a message first.                                   *)
FirstOf(rows, message, regular) ==
    {rows[n].id : n \in {m \in Matching(rows, message, regular) :
                            \A l \in Matching(rows, message, regular) : m <= l}}

LEMMA CompactAnswers ==
    ASSUME Nums(autoreplies) \subseteq 1 .. MaxNumber
    PROVE  CompactKeepsAnswers
<1>. SUFFICES ASSUME NEW start \in 1 .. MaxNumber, NEW message \in Messages, NEW regular \in BOOLEAN
              PROVE  FirstOf(Compacted(autoreplies, start), message, regular) =
                     FirstOf(autoreplies, message, regular)
  BY DEF CompactKeepsAnswers, FirstOf
<1>. DEFINE after == Compacted(autoreplies, start)
            above == Above(autoreplies, start)
            below == Nums(autoreplies) \ above
            to == start .. start + Cardinality(above) - 1
            R(n) == Rank(autoreplies, start, n)
            New(n) == IF n \in above THEN R(n) ELSE n
            all == Matching(autoreplies, message, regular)
            now == Matching(after, message, regular)
<1>1. start \in Nat \ {0} /\ start \in Int
  BY NumberedAssumption
<1>2. /\ Nums(after) = below \union to
      /\ \A n \in below : after[n] = autoreplies[n] /\ n < start
      /\ \A n \in above : R(n) \in to /\ after[R(n)] = autoreplies[n]
      /\ \A r \in to : \E n \in above : r = R(n)
      /\ \A m, n \in above : m < n => R(m) < R(n)
  BY <1>1, CompactedIs
<1>3. Cardinality(above) \in Nat /\ above \subseteq Nums(autoreplies)
  BY AboveType
<1>. HIDE DEF R, after
<1>4. \A n \in Nums(autoreplies) : New(n) \in Nums(after) /\ after[New(n)] = autoreplies[n] /\ New(n) \in Int
  BY <1>1, <1>2, <1>3
<1>5. \A k \in Nums(after) : \E n \in Nums(autoreplies) : k = New(n)
  BY <1>2, <1>3
<1>6. ASSUME NEW m \in Nums(autoreplies), NEW n \in Nums(autoreplies), m < n PROVE New(m) < New(n)
  <2>1. m \in Int /\ n \in Int
    OBVIOUS
  <2>2. \A l \in above : R(l) \in Int /\ R(l) >= start
    BY <1>1, <1>2, <1>3
  <2>3. CASE m \in above
    <3>1. n \in above
      BY <1>6, <2>1, <2>3, <1>1 DEF Above
    <3>. QED
      BY <1>2, <1>6, <2>3, <3>1
  <2>4. CASE m \notin above
    BY <1>1, <1>2, <1>6, <2>1, <2>2, <2>4
  <2>. QED
    BY <2>3, <2>4
<1>. HIDE DEF New
<1>7. \A n \in Nums(autoreplies) : n \in all <=> New(n) \in now
  BY <1>4 DEF Matching
<1>8. all \subseteq Nums(autoreplies) /\ now \subseteq Nums(after) /\ \A n \in all : n \in Int
  BY DEF Matching
<1>9. \A n \in all : (\A l \in all : n <= l) <=> (\A k \in now : New(n) <= k)
  <2>. SUFFICES ASSUME NEW n \in all PROVE (\A l \in all : n <= l) <=> (\A k \in now : New(n) <= k)
    OBVIOUS
  <2>1. ASSUME \A l \in all : n <= l, NEW k \in now PROVE New(n) <= k
    <3>1. PICK l \in Nums(autoreplies) : k = New(l)
      BY <1>5, <1>8
    <3>2. l \in all
      BY <1>7, <3>1
    <3>. QED
      BY <1>4, <1>6, <1>8, <2>1, <3>1, <3>2
  <2>2. ASSUME \A k \in now : New(n) <= k, NEW l \in all PROVE n <= l
    <3>1. New(n) <= New(l)
      BY <1>7, <1>8, <2>2
    <3>. QED
      BY <1>4, <1>6, <1>8, <3>1
  <2>. QED
    BY <2>1, <2>2
<1>. HIDE DEF all, now
<1>10. FirstOf(after, message, regular) \subseteq FirstOf(autoreplies, message, regular)
  <2>. SUFFICES ASSUME NEW k \in now, \A j \in now : k <= j
                PROVE  after[k].id \in FirstOf(autoreplies, message, regular)
    BY DEF FirstOf, now
  <2>1. PICK n \in Nums(autoreplies) : k = New(n)
    BY <1>5, <1>8
  <2>2. n \in all /\ after[k] = autoreplies[n]
    BY <1>4, <1>7, <2>1
  <2>3. \A l \in all : n <= l
    BY <1>9, <2>1, <2>2
  <2>. QED
    BY <2>2, <2>3 DEF FirstOf, all
<1>11. FirstOf(autoreplies, message, regular) \subseteq FirstOf(after, message, regular)
  <2>. SUFFICES ASSUME NEW n \in all, \A l \in all : n <= l
                PROVE  autoreplies[n].id \in FirstOf(after, message, regular)
    BY DEF FirstOf, all
  <2>1. New(n) \in now /\ after[New(n)] = autoreplies[n]
    BY <1>4, <1>7, <1>8
  <2>2. \A k \in now : New(n) <= k
    BY <1>9
  <2>. QED
    BY <2>1, <2>2 DEF FirstOf, now
<1>. QED
  BY <1>10, <1>11 DEF after

------------------------------------------------------------------------------
(* Sums of two int64 *)

LEMMA WrapIs ==
    ASSUME NEW x \in Int
    PROVE  /\ Wrap(x) \in (0 - Half) .. Half - 1
           /\ \E q \in Int : Wrap(x) = x - q * (2 * Half)
<1>. DEFINE M == 2 * Half
<1>1. Half \in Nat \ {0} /\ M \in Nat \ {0}
  BY NumberedAssumption
<1>2. PICK y \in Int : y = x + Half
  BY <1>1
<1>. HIDE DEF M
<1>3. y = M * (y \div M) + (y % M) /\ y \div M \in Int /\ y % M \in 0 .. M - 1
  BY <1>1, SMT
<1>4. Wrap(x) = (y % M) - Half
  BY <1>2 DEF Wrap, M
<1>5. PICK q \in Int : q = y \div M
  BY <1>3
<1>6. Wrap(x) = x - M * q
  <2>1. PICK r \in Int, p \in Int : r = y % M /\ p = M * q
    BY <1>1, <1>3, <1>5
  <2>. QED
    BY <1>1, <1>2, <1>3, <1>4, <1>5, <2>1
<1>7. Wrap(x) \in (0 - Half) .. Half - 1
  BY <1>1, <1>3, <1>4 DEF M
<1>8. M * q = q * M
  BY <1>1
<1>. QED
  BY <1>6, <1>7, <1>8 DEF M

LEMMA IntsAre == Ints = (0 - Half) .. Half - 1
<1>1. PICK h \in Nat \ {0} : h = Half
  BY NumberedAssumption
<1>2. (h + h) % (2 * h) = 0
  BY SMT
<1>. QED
  BY <1>1, <1>2 DEF Ints, Wrap

LEMMA WrapType == Ints \subseteq Int /\ \A x \in Int : Wrap(x) \in Ints
<1>1. Ints \subseteq Int
  BY IntsAre, NumberedAssumption
<1>2. ASSUME NEW x \in Int PROVE Wrap(x) \in Ints
  <2>1. Wrap(x) \in (0 - Half) .. Half - 1
    BY WrapIs
  <2>. QED
    BY <2>1, IntsAre
<1>. QED
  BY <1>1, <1>2

(* Two int64 that differ by a multiple of 2 ^ 64 are the same.                *)
LEMMA SameNumber ==
    ASSUME NEW x \in Ints, NEW y \in Ints, NEW q \in Int, y = x - q * (2 * Half)
    PROVE  y = x
<1>1. PICK h \in Nat \ {0} : h = Half
  BY NumberedAssumption
<1>2. x \in Int /\ y \in Int /\ x >= 0 - h /\ x < h /\ y >= 0 - h /\ y < h
  BY <1>1, IntsAre
<1>3. PICK d \in Int : d = q * (2 * h)
  BY <1>1
<1>4. d < 2 * h /\ d > 0 - 2 * h
  BY <1>1, <1>2, <1>3
<1>5. CASE q >= 1
  <2>1. q * (2 * h) >= 2 * h
    BY <1>1, <1>5
  <2>. QED
    BY <1>3, <1>4, <2>1
<1>6. CASE q <= 0 - 1
  <2>1. q * (2 * h) <= 0 - 2 * h
    BY <1>1, <1>6
  <2>. QED
    BY <1>3, <1>4, <2>1
<1>7. CASE q = 0
  BY <1>2, <1>7, <1>1, <1>3
<1>. QED
  BY <1>5, <1>6, <1>7

LEMMA DecrementIsUndone ==
    ASSUME \A v \in Variables : values[v] \in {Unset, Text} \/ values[v] \in Ints
    PROVE  DecrementUndoes
<1>. SUFFICES ASSUME NEW v \in Variables, values[v] \notin {Unset, Text}, NEW inc \in Ints
              PROVE  Wrap(Incremented(v, inc) + Wrap(0 - inc)) = values[v]
  BY DEF DecrementUndoes
<1>1. values[v] \in Ints /\ Incremented(v, inc) = Wrap(values[v] + inc)
  BY DEF Incremented, GetVariable
<1>2. PICK x \in Int : x = values[v]
  BY <1>1, IntsAre, NumberedAssumption
<1>3. inc \in Int /\ 2 * Half \in Int
  BY IntsAre, NumberedAssumption
<1>. DEFINE M == 2 * Half
<1>w. ASSUME NEW y \in Int PROVE Wrap(y) \in Ints /\ Wrap(y) \in Int /\ \E q \in Int : Wrap(y) = y - q * M
  <2>1. \E q \in Int : Wrap(y) = y - q * M
    BY WrapIs
  <2>. QED
    BY <2>1, WrapType
<1>s. PICK y1 \in Int, y2 \in Int : y1 = x + inc /\ y2 = 0 - inc
  BY <1>3
<1>4. PICK q1 \in Int : Wrap(y1) = y1 - q1 * M
  BY <1>w
<1>5. PICK q2 \in Int : Wrap(y2) = y2 - q2 * M
  BY <1>w
<1>7. PICK z \in Int : z = Wrap(y1) + Wrap(y2)
  BY <1>w
<1>8. PICK q3 \in Int : Wrap(z) = z - q3 * M /\ Wrap(z) \in Ints
  BY <1>w
<1>m. PICK m \in Int : m = M
  BY <1>3
<1>. HIDE DEF M
<1>9. PICK a \in Int, b \in Int, c \in Int : a = q1 * m /\ b = q2 * m /\ c = q3 * m
  OBVIOUS
<1>10. (q1 + q2 + q3) * m = a + b + c
  BY <1>9
<1>11. Wrap(z) = x - (q1 + q2 + q3) * M
  BY <1>m, <1>s, <1>3, <1>4, <1>5, <1>7, <1>8, <1>9, <1>10
<1>. QED
  BY <1>1, <1>2, <1>m, <1>s, <1>7, <1>8, <1>11, SameNumber DEF M

------------------------------------------------------------------------------
(* The invariant *)

(* An autoreply rests until the cooldown of its last answer is over.          *)
RepliesRest ==
    \A i \in 1 .. Answers :
        /\ answered[i] <= time
        /\ \/ cooling[i] = answered[i] + ReplyCooldown
           \/ answered[i] + ReplyCooldown <= time

RowsInv == NumberedTypeOK /\ DOMAIN values = Variables /\ RepliesRest

Row == [id : 1 .. Answers, trigger : Triggers, regulars : BOOLEAN]

LEMMA NumberedStart == NumberedInit => RowsInv
<1>. SUFFICES ASSUME NumberedInit PROVE RowsInv
  OBVIOUS
<1>1. NoTime \in Int /\ NoTime + ReplyCooldown = 0 /\ NoTime <= 0 /\ 0 \in Ints /\ Answers \in Nat /\ MaxTime \in Nat
  BY NumberedAssumption, IntsAre DEF NoTime
<1>2. quotes = <<>> /\ autoreplies = <<>> /\ Nums(quotes) = {} /\ Nums(autoreplies) = {}
  BY DEF NumberedInit, Nums
<1>3. NumberedTypeOK
  BY <1>1, <1>2 DEF NumberedInit, NumberedTypeOK
<1>4. RepliesRest
  BY <1>1 DEF NumberedInit, RepliesRest
<1>. QED
  BY <1>3, <1>4 DEF RowsInv, NumberedInit

LEMMA MaxNumType ==
    ASSUME NEW rows, Nums(rows) \subseteq 1 .. MaxNumber
    PROVE  /\ MaxNum(rows) \in 0 .. MaxNumber
           /\ \A n \in Nums(rows) : n <= MaxNum(rows)
           /\ Nums(rows) # {} => MaxNum(rows) \in Nums(rows)
<1>1. IsFiniteSet(Nums(rows)) /\ Nums(rows) \in SUBSET Int
  BY AboveType
<1>2. CASE Nums(rows) = {}
  BY <1>2, NumberedAssumption DEF MaxNum
<1>3. CASE Nums(rows) # {}
  <2>1. \E n \in Nums(rows) : \A m \in Nums(rows) : m <= n
    BY <1>1, <1>3, GreatestThereIs
  <2>2. MaxNum(rows) \in Nums(rows) /\ \A m \in Nums(rows) : m <= MaxNum(rows)
    BY <1>3, <2>1 DEF MaxNum
  <2>. QED
    BY <2>2, NumberedAssumption
<1>. QED
  BY <1>2, <1>3

LEMMA QuotesStep == RowsInv /\ QuotesNext => RowsInv'
<1>. SUFFICES ASSUME RowsInv, QuotesNext PROVE RowsInv'
  OBVIOUS
<1>1. Nums(quotes) \subseteq 1 .. MaxNumber /\ \A n \in Nums(quotes) : quotes[n] \in Sayings
  BY DEF RowsInv, NumberedTypeOK
<1>2. Nums(quotes') \subseteq 1 .. MaxNumber /\ \A n \in Nums(quotes') : quotes'[n] \in Sayings
  <2>1. ASSUME NEW s \in Sayings, cmdQuoteAdd(s) PROVE <1>2
    <3>1. MaxNum(quotes) + 1 \in 1 .. MaxNumber
      BY <1>1, <2>1, MaxNumType, NumberedAssumption DEF cmdQuoteAdd, GetMaxQuoteNumber
    <3>. QED
      BY <1>1, <2>1, <3>1 DEF cmdQuoteAdd, GetMaxQuoteNumber, InsertQuote, Put, Nums
  <2>2. ASSUME NEW n \in 0 .. MaxNumber, cmdQuoteDelete(n) PROVE <1>2
    BY <1>1, <2>2 DEF cmdQuoteDelete, DeleteQuote, Drop, Nums
  <2>3. ASSUME NEW n \in 0 .. MaxNumber, NEW s \in Sayings, cmdQuoteEdit(n, s) PROVE <1>2
    <3>1. n \in 1 .. MaxNumber
      BY <2>3, NumberedAssumption DEF cmdQuoteEdit
    <3>2. CASE UpdateQuote(n, s)
      BY <1>1, <3>2 DEF UpdateQuote, Nums
    <3>3. CASE InsertQuote(n, s)
      BY <1>1, <3>1, <3>3 DEF InsertQuote, Put, Nums
    <3>. QED
      BY <2>3, <3>2, <3>3 DEF cmdQuoteEdit
  <2>4. ASSUME NEW n \in 0 .. MaxNumber, cmdQuoteCompact(n) PROVE <1>2
    <3>1. n \in Nat \ {0} /\ quotes' = Compacted(quotes, n)
      BY <2>4, NumberedAssumption DEF cmdQuoteCompact, CompactQuotes
    <3>2. /\ Nums(quotes') = (Nums(quotes) \ Above(quotes, n)) \union
                             (n .. n + Cardinality(Above(quotes, n)) - 1)
          /\ \A m \in Nums(quotes) \ Above(quotes, n) : quotes'[m] = quotes[m]
          /\ \A m \in Above(quotes, n) : quotes'[Rank(quotes, n, m)] = quotes[m]
          /\ \A r \in n .. n + Cardinality(Above(quotes, n)) - 1 : \E m \in Above(quotes, n) : r = Rank(quotes, n, m)
          /\ Nums(quotes') \subseteq 1 .. MaxNumber
      BY <1>1, <3>1, CompactedIs
    <3>. QED
      BY <1>1, <3>2, AboveType
  <2>5. ASSUME DeleteQuotesByChannel PROVE <1>2
    BY <2>5 DEF DeleteQuotesByChannel, Nums
  <2>. QED
    BY <2>1, <2>2, <2>3, <2>4, <2>5 DEF QuotesNext
<1>3. UNCHANGED <<autoreplies, nextReply, cooling, answered, time, values>>
  BY DEF QuotesNext, replyVars
<1>. QED
  BY <1>2, <1>3 DEF RowsInv, NumberedTypeOK, RepliesRest, Nums

LEMMA RepliesStep == RowsInv /\ RepliesNext => RowsInv'
<1>. SUFFICES ASSUME RowsInv, RepliesNext PROVE RowsInv'
  OBVIOUS
<1>1. Nums(autoreplies) \subseteq 1 .. MaxNumber /\ \A n \in Nums(autoreplies) : autoreplies[n] \in Row
  BY DEF RowsInv, NumberedTypeOK, Row
<1>2. /\ nextReply \in 1 .. Answers + 1
      /\ cooling \in [1 .. Answers -> Int]
      /\ answered \in [1 .. Answers -> Int]
      /\ time \in 0 .. MaxTime
      /\ RepliesRest
      /\ Answers \in Nat /\ MaxTime \in Nat /\ ReplyCooldown \in Nat /\ MaxNumber \in Nat
  BY NumberedAssumption DEF RowsInv, NumberedTypeOK
<1>3. UNCHANGED <<quotes, values>>
  BY DEF RepliesNext
<1>. DEFINE Good ==
       /\ Nums(autoreplies') \subseteq 1 .. MaxNumber /\ \A n \in Nums(autoreplies') : autoreplies'[n] \in Row
       /\ nextReply' \in 1 .. Answers + 1
       /\ cooling' \in [1 .. Answers -> Int]
       /\ answered' \in [1 .. Answers -> Int]
       /\ time' \in 0 .. MaxTime
       /\ RepliesRest'
<1>4. ASSUME UNCHANGED <<cooling, answered, time>> PROVE RepliesRest'
  BY <1>2, <1>4 DEF RepliesRest
<1>5. ASSUME NEW trigger \in Triggers, NEW regulars \in BOOLEAN, cmdAutoreplyAdd(trigger, regulars),
             UNCHANGED <<cooling, answered, time>>
      PROVE  Good
  <2>1. MaxNum(autoreplies) + 1 \in 1 .. MaxNumber
    BY <1>1, <1>2, <1>5, MaxNumType DEF cmdAutoreplyAdd, GetMaxAutoreplyNumber
  <2>2. [id |-> nextReply, trigger |-> trigger, regulars |-> regulars] \in Row
    BY <1>2, <1>5 DEF cmdAutoreplyAdd, Row
  <2>3. Nums(autoreplies') \subseteq 1 .. MaxNumber /\ \A n \in Nums(autoreplies') : autoreplies'[n] \in Row
    BY <1>1, <1>5, <2>1, <2>2 DEF cmdAutoreplyAdd, GetMaxAutoreplyNumber, InsertAutoreply, Put, Nums
  <2>4. nextReply' \in 1 .. Answers + 1
    BY <1>2, <1>5 DEF cmdAutoreplyAdd
  <2>. QED
    BY <1>2, <1>4, <1>5, <2>3, <2>4
<1>6. ASSUME BotStateCleanupAutoreplyCooldowns, UNCHANGED <<autoreplies, nextReply, answered, time>>
      PROVE  Good
  <2>1. cooling' = [i \in 1 .. Answers |-> IF cooling[i] < time THEN NoTime ELSE cooling[i]]
    BY <1>6 DEF BotStateCleanupAutoreplyCooldowns
  <2>2. NoTime \in Int
    BY <1>2 DEF NoTime
  <2>3. cooling' \in [1 .. Answers -> Int]
    BY <1>2, <2>1, <2>2
  <2>4. RepliesRest'
    BY <1>2, <1>6, <2>1 DEF RepliesRest
  <2>. QED
    BY <1>1, <1>2, <1>6, <2>3, <2>4
<1>7. ASSUME EditReplies, UNCHANGED <<nextReply, cooling, answered, time>>
      PROVE  Good
  <2>1. Nums(autoreplies') \subseteq 1 .. MaxNumber /\ \A n \in Nums(autoreplies') : autoreplies'[n] \in Row
    <3>1. CASE DeleteAutorepliesByChannel
      BY <3>1 DEF DeleteAutorepliesByChannel, Nums
    <3>2. ASSUME NEW n \in 1 .. MaxNumber, cmdAutoreplyDelete(n) PROVE <2>1
      BY <1>1, <3>2 DEF cmdAutoreplyDelete, DeleteAutoreply, Drop, Nums
    <3>3. ASSUME NEW n \in 1 .. MaxNumber, NEW r \in BOOLEAN, cmdAutoreplyEditResponse(n, r) PROVE <2>1
      <4>1. [autoreplies[n] EXCEPT !.regulars = r] \in Row
        BY <1>1, <3>3 DEF cmdAutoreplyEditResponse, Row
      <4>2. Nums(autoreplies') = Nums(autoreplies)
        BY <3>3 DEF cmdAutoreplyEditResponse, UpdateAutoreplyResponse, Nums
      <4>3. \A m \in Nums(autoreplies) : autoreplies'[m] = IF m = n THEN [autoreplies[n] EXCEPT !.regulars = r]
                                                           ELSE autoreplies[m]
        BY <3>3 DEF cmdAutoreplyEditResponse, UpdateAutoreplyResponse, Nums
      <4>. QED
        BY <1>1, <4>1, <4>2, <4>3
    <3>4. ASSUME NEW n \in 1 .. MaxNumber, NEW t \in Triggers, cmdAutoreplyEditPattern(n, t) PROVE <2>1
      <4>1. [autoreplies[n] EXCEPT !.trigger = t] \in Row
        BY <1>1, <3>4 DEF cmdAutoreplyEditPattern, Row
      <4>2. Nums(autoreplies') = Nums(autoreplies)
        BY <3>4 DEF cmdAutoreplyEditPattern, UpdateAutoreplyPattern, Nums
      <4>3. \A m \in Nums(autoreplies) : autoreplies'[m] = IF m = n THEN [autoreplies[n] EXCEPT !.trigger = t]
                                                           ELSE autoreplies[m]
        BY <3>4 DEF cmdAutoreplyEditPattern, UpdateAutoreplyPattern, Nums
      <4>. QED
        BY <1>1, <4>1, <4>2, <4>3
    <3>5. ASSUME NEW n \in 1 .. MaxNumber, cmdAutoreplyCompact(n) PROVE <2>1
      <4>1. n \in Nat \ {0} /\ autoreplies' = Compacted(autoreplies, n)
        BY <1>2, <3>5 DEF cmdAutoreplyCompact, CompactAutoreplies
      <4>2. /\ Nums(autoreplies') = (Nums(autoreplies) \ Above(autoreplies, n)) \union
                               (n .. n + Cardinality(Above(autoreplies, n)) - 1)
            /\ \A m \in Nums(autoreplies) \ Above(autoreplies, n) : autoreplies'[m] = autoreplies[m]
            /\ \A m \in Above(autoreplies, n) : autoreplies'[Rank(autoreplies, n, m)] = autoreplies[m]
            /\ \A r \in n .. n + Cardinality(Above(autoreplies, n)) - 1 :
                  \E m \in Above(autoreplies, n) : r = Rank(autoreplies, n, m)
            /\ Nums(autoreplies') \subseteq 1 .. MaxNumber
        BY <1>1, <4>1, CompactedIs
      <4>. QED
        BY <1>1, <4>2, AboveType
    <3>. QED
      BY <1>7, <3>1, <3>2, <3>3, <3>4, <3>5 DEF EditReplies
  <2>. QED
    BY <1>2, <1>4, <1>7, <2>1
<1>8. ASSUME NEW message \in Messages, NEW regular \in BOOLEAN, tryAutoreplies(message, regular),
             UNCHANGED <<autoreplies, nextReply, time>>
      PROVE  Good
  <2>1. PICK n \in Nums(autoreplies) :
           /\ cooling' = [cooling EXCEPT ![autoreplies[n].id] = time + ReplyCooldown]
           /\ answered' = [answered EXCEPT ![autoreplies[n].id] = time]
    BY <1>8 DEF tryAutoreplies, Matching, RestsBy
  <2>2. autoreplies[n].id \in 1 .. Answers
    BY <1>1, <2>1 DEF Row
  <2>3. cooling' \in [1 .. Answers -> Int] /\ answered' \in [1 .. Answers -> Int]
    BY <1>2, <2>1, <2>2
  <2>4. RepliesRest'
    BY <1>2, <1>8, <2>1, <2>2 DEF RepliesRest
  <2>. QED
    BY <1>1, <1>2, <1>8, <2>3, <2>4
<1>9. ASSUME time < MaxTime, time' = time + 1, UNCHANGED <<autoreplies, nextReply, cooling, answered>>
      PROVE  Good
  <2>1. RepliesRest'
    BY <1>2, <1>9 DEF RepliesRest
  <2>. QED
    BY <1>1, <1>2, <1>9, <2>1
<1>10. Good
  BY <1>5, <1>6, <1>7, <1>8, <1>9 DEF RepliesNext
<1>. QED
  BY <1>3, <1>10 DEF RowsInv, NumberedTypeOK, Row, Nums

LEMMA ValuesStep == RowsInv /\ ValuesNext => RowsInv'
<1>. SUFFICES ASSUME RowsInv, ValuesNext PROVE RowsInv'
  OBVIOUS
<1>1. /\ DOMAIN values = Variables
      /\ \A v \in Variables : values[v] \in {Unset, Text} \/ values[v] \in Ints
  BY DEF RowsInv, NumberedTypeOK
<1>. DEFINE Good ==
      /\ DOMAIN values' = Variables
      /\ \A v \in Variables : values'[v] \in {Unset, Text} \/ values'[v] \in Ints
<1>2. ASSUME NEW v \in Variables, NEW value, value \in {Unset, Text} \/ value \in Ints, VarSet(v, value)
      PROVE  Good
  BY <1>1, <1>2 DEF VarSet
<1>3. ASSUME NEW v \in Variables, NEW cmd \in {"increment", "decrement"}, NEW inc \in Steps,
             cmdVarIncrement(v, cmd, inc)
      PROVE  Good
  <2>1. inc \in Int /\ inc \in Ints /\ \A x \in Int : Wrap(x) \in Ints /\ Wrap(x) \in Int
    BY NumberedAssumption, IntsAre, WrapType
  <2>. DEFINE by == IF cmd = "decrement" THEN Wrap(0 - inc) ELSE inc
  <2>2. by \in Int /\ by \in Ints
    BY <2>1
  <2>. HIDE DEF by
  <2>3. VarSet(v, Incremented(v, by)) /\ values[v] # Text
    BY <1>3 DEF cmdVarIncrement, VarIncrement, GetVariable, by
  <2>4. Incremented(v, by) \in Ints
    <3>1. CASE values[v] = Unset
      BY <2>2, <3>1 DEF Incremented, GetVariable
    <3>2. CASE values[v] # Unset
      <4>1. values[v] \in Int
        BY <1>1, <2>3, <3>2, IntsAre, NumberedAssumption
      <4>. QED
        BY <2>1, <2>2, <3>2, <4>1 DEF Incremented, GetVariable
    <3>. QED
      BY <3>1, <3>2
  <2>. QED
    BY <1>2, <2>3, <2>4
<1>4. ASSUME DeleteVariablesByChannel PROVE Good
  BY <1>4 DEF DeleteVariablesByChannel
<1>a. ASSUME NEW v \in Variables, VarDelete(v) PROVE Good
  BY <1>1, <1>a DEF VarDelete
<1>b. ASSUME NEW v \in Variables, NEW value \in {Text} \union Ints, VarSet(v, value) PROVE Good
  BY <1>2, <1>b
<1>. HIDE DEF Good
<1>5. Good
  BY <1>3, <1>4, <1>a, <1>b DEF ValuesNext
<1>6. UNCHANGED <<quotes, autoreplies, nextReply, cooling, answered, time>>
  BY DEF ValuesNext, replyVars
<1>. QED
  BY <1>5, <1>6 DEF Good, RowsInv, NumberedTypeOK, RepliesRest, Nums

LEMMA RowsAreKept == RowsInv /\ [NumberedNext]_numberedVars => RowsInv'
<1>1. ASSUME RowsInv, UNCHANGED numberedVars PROVE RowsInv'
  BY <1>1 DEF RowsInv, NumberedTypeOK, RepliesRest, numberedVars, replyVars, Nums
<1>. QED
  BY <1>1, QuotesStep, RepliesStep, ValuesStep DEF NumberedNext

LEMMA RowsHold == NumberedSpec => []RowsInv
BY NumberedStart, RowsAreKept, PTL DEF NumberedSpec

(* Numbers stay in order under every compact, which answer a message gets     *)
(* does not depend on the gaps between them, and a variable that an increment *)
(* wraps round is restored by the decrement of as much (CompactQuotes,        *)
(* CompactAutoreplies, tryAutoreplies, VarIncrement).                         *)
THEOREM NumbersKeepOrder == NumberedSpec => []NumberedInv
<1>1. RowsInv => NumberedInv
  BY CompactOrders, CompactAnswers, DecrementIsUndone DEF RowsInv, NumberedTypeOK, NumberedInv
<1>. QED
  BY <1>1, RowsHold, PTL

(* An autoreply rests for the whole cooldown, edited and renumbered as it may *)
(* be and cleaned up as its row may be (AutoreplyAllowed, tryAutoreplies).    *)
THEOREM RepliesRestLongEnough == NumberedSpec => RepliesApart
<1>. DEFINE Apart == \A i \in 1 .. Answers : answered'[i] # answered[i] => answered'[i] >= answered[i] + ReplyCooldown
<1>1. ASSUME RowsInv, NumberedNext PROVE Apart
  <2>. SUFFICES ASSUME NEW i \in 1 .. Answers, answered'[i] # answered[i]
                PROVE  answered'[i] >= answered[i] + ReplyCooldown
    OBVIOUS
  <2>1. PICK message \in Messages, regular \in BOOLEAN : tryAutoreplies(message, regular)
    BY <1>1 DEF NumberedNext, QuotesNext, RepliesNext, ValuesNext, replyVars
  <2>2. PICK n \in Nums(autoreplies) :
           /\ cooling[autoreplies[n].id] <= time
           /\ answered' = [answered EXCEPT ![autoreplies[n].id] = time]
    BY <2>1 DEF tryAutoreplies, Matching, RestsBy, AutoreplyAllowed
  <2>3. answered \in [1 .. Answers -> Int] /\ time \in Int /\ cooling \in [1 .. Answers -> Int]
    BY <1>1, NumberedAssumption DEF RowsInv, NumberedTypeOK
  <2>4. autoreplies[n].id = i /\ answered'[i] = time
    BY <2>2, <2>3
  <2>. QED
    BY <1>1, <2>2, <2>3, <2>4, NumberedAssumption DEF RowsInv, RepliesRest
<1>2. RowsInv /\ [NumberedNext]_numberedVars => [Apart]_numberedVars
  BY <1>1
<1>. QED
  BY <1>2, RowsHold, PTL DEF NumberedSpec, RepliesApart

(* Only a quote that is added last gets a new highest number, one more than   *)
(* the highest before: no edit and no compact makes a gap (cmdQuoteEdit,      *)
(* cmdQuoteAdd, CompactQuotes).                                               *)
THEOREM NumbersHaveNoJumps == NumberedSpec => NumbersGrowByOne
<1>. DEFINE Grow == MaxNum(quotes') > MaxNum(quotes) => Nums(quotes') = Nums(quotes) \union {MaxNum(quotes) + 1}
<1>1. ASSUME RowsInv, RowsInv', NumberedNext PROVE Grow
  <2>1. Nums(quotes) \subseteq 1 .. MaxNumber /\ Nums(quotes') \subseteq 1 .. MaxNumber
    BY <1>1 DEF RowsInv, NumberedTypeOK
  <2>2. /\ MaxNum(quotes) \in 0 .. MaxNumber
        /\ \A n \in Nums(quotes) : n <= MaxNum(quotes)
        /\ MaxNum(quotes') \in 0 .. MaxNumber
        /\ Nums(quotes') # {} => MaxNum(quotes') \in Nums(quotes')
        /\ Nums(quotes') = {} => MaxNum(quotes') = 0
    BY <2>1, MaxNumType DEF MaxNum
  <2>3. ASSUME \A n \in Nums(quotes') : \E m \in Nums(quotes) : n <= m
        PROVE  ~(MaxNum(quotes') > MaxNum(quotes))
    <3>1. CASE Nums(quotes') = {}
      BY <2>2, <3>1, NumberedAssumption
    <3>2. CASE Nums(quotes') # {}
      <4>1. PICK m \in Nums(quotes) : MaxNum(quotes') <= m
        BY <2>2, <2>3, <3>2
      <4>. QED
        BY <2>1, <2>2, <4>1, NumberedAssumption
    <3>. QED
      BY <3>1, <3>2
  <2>4. ASSUME NEW s \in Sayings, cmdQuoteAdd(s) PROVE Grow
    BY <2>4 DEF cmdQuoteAdd, GetMaxQuoteNumber, InsertQuote, Put, Nums
  <2>5. ASSUME NEW n \in 0 .. MaxNumber, cmdQuoteDelete(n) PROVE Grow
    <3>1. Nums(quotes') \subseteq Nums(quotes)
      BY <2>5 DEF cmdQuoteDelete, DeleteQuote, Drop, Nums
    <3>. QED
      BY <2>1, <2>3, <3>1
  <2>6. ASSUME NEW n \in 0 .. MaxNumber, NEW s \in Sayings, cmdQuoteEdit(n, s) PROVE Grow
    <3>1. CASE UpdateQuote(n, s)
      <4>1. Nums(quotes') = Nums(quotes)
        BY <3>1 DEF UpdateQuote, Nums
      <4>. QED
        BY <2>1, <2>3, <4>1
    <3>2. CASE QuoteExistsAfterNumber(n) /\ InsertQuote(n, s)
      <4>1. Nums(quotes') = Nums(quotes) \union {n} /\ \E m \in Nums(quotes) : n <= m
        BY <2>1, <3>2 DEF InsertQuote, Put, Nums, QuoteExistsAfterNumber
      <4>. QED
        BY <2>1, <2>3, <4>1
    <3>. QED
      BY <2>6, <3>1, <3>2 DEF cmdQuoteEdit
  <2>7. ASSUME NEW n \in 0 .. MaxNumber, cmdQuoteCompact(n) PROVE Grow
    <3>1. n \in Nat \ {0} /\ quotes' = Compacted(quotes, n)
      BY <2>7, NumberedAssumption DEF cmdQuoteCompact, CompactQuotes
    <3>2. /\ Nums(quotes') = (Nums(quotes) \ Above(quotes, n)) \union
                             (n .. n + Cardinality(Above(quotes, n)) - 1)
          /\ \A m \in Above(quotes, n) : Rank(quotes, n, m) <= m
          /\ \A r \in n .. n + Cardinality(Above(quotes, n)) - 1 : \E m \in Above(quotes, n) : r = Rank(quotes, n, m)
      BY <2>1, <3>1, CompactedIs
    <3>. QED
      BY <2>1, <2>3, <3>2, AboveType
  <2>8. CASE DeleteQuotesByChannel
    BY <2>3, <2>8 DEF DeleteQuotesByChannel, Nums
  <2>9. CASE quotes' = quotes
    BY <2>1, <2>3, <2>9
  <2>. QED
    BY <1>1, <2>4, <2>5, <2>6, <2>7, <2>8, <2>9 DEF NumberedNext, QuotesNext, RepliesNext, ValuesNext
<1>2. RowsInv /\ RowsInv' /\ [NumberedNext]_numberedVars => [Grow]_numberedVars
  BY <1>1
<1>. QED
  BY <1>2, RowsHold, PTL DEF NumberedSpec, NumbersGrowByOne

------------------------------------------------------------------------------
(* 4. The parts together                                                      *)

(* Within a cooldown nothing is used or answered twice, and the numbers of    *)
(* quotes have no gaps, whatever happens in the parts at the same time        *)
(* (tryCooldown, AutoreplyAllowed, GetNextQuoteNum).                          *)
THEOREM DataStepsAreSmall == ChannelDataSpec => StepsAreSmall
BY CooldownsAreKept, RepliesRestLongEnough, NumbersHaveNoJumps DEF ChannelDataSpec, StepsAreSmall
==============================================================================
