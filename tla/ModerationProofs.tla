-------------------------- MODULE ModerationProofs --------------------------
(***************************************************************************)
(* Proofs about the moderation of a channel, for any users with any        *)
(* badges, any admins, patterns, phrases, messages, numbers and times, and *)
(* any number of changes; and about the export and the import of its       *)
(* configuration, for any names, values and number of changes.             *)
(***************************************************************************)
EXTENDS Moderation, ConfigImport, FiniteSetTheorems, NaturalsInduction, TLAPS

ChannelRow ==
    [flags : [FlagNames -> BOOLEAN], numbers : [NumberNames -> Nat],
     exempt : DBLevels, mode : DBLevels,
     permitted : Seq(Patterns), phrases : Seq(Phrases),
     lists : [ListNames -> Seq(Users)]]

NoDoubles(s) == \A i, j \in DOMAIN s : s[i] = s[j] => i = j

(* The levels that the commands let a channel have: the moderators, and who   *)
(* is above them, can never be below either.                                  *)
WithinReach(row) ==
    /\ row.exempt \in AccessLevelEveryone .. AccessLevelModerator
    /\ row.mode \in AccessLevelEveryone .. AccessLevelBroadcaster

(* A warning that still counts has cost its user a message.                   *)
WarnedOnly == \A u \in Users, f \in FilterNames : warned[u][f] > 0 => f \in punished[u]

RowIsWell(row) ==
    /\ row \in ChannelRow
    /\ WithinReach(row)
    /\ \A l \in ListNames : NoDoubles(row.lists[l])

UsersAreWell ==
    /\ warned \in [Users -> [FilterNames -> Nat]]
    /\ permits \in [Users -> Nat]
    /\ banned \subseteq Users
    /\ punished \in [Users -> SUBSET FilterNames]
    /\ WarnedOnly

ModeratedInv == RowIsWell(channel) /\ UsersAreWell /\ changes \in 0 .. MaxChanges

LEMMA RemoveAtType ==
    ASSUME NEW S, NEW s \in Seq(S), NEW k \in 1 .. Len(s)
    PROVE  RemoveAt(s, k) \in Seq(S)
<1>1. SubSeq(s, 1, k - 1) \in Seq(S) /\ SubSeq(s, k + 1, Len(s)) \in Seq(S)
  OBVIOUS
<1>. QED
  BY <1>1 DEF RemoveAt

Below == {pair \in Nat \X Nat : pair[1] < pair[2]}

LEMMA BelowIsWellFounded == IsWellFoundedOn(Below, Nat)
BY NatLessThanWellFounded DEF OpToRel, Below

LEMMA LeastIndex ==
    ASSUME NEW n \in Nat, NEW I \in SUBSET (1 .. n), I # {}
    PROVE  Min(I) \in I
<1>1. I \subseteq Nat
  OBVIOUS
<1>2. \E k \in I : \A m \in I : ~(<<m, k>> \in Below)
  BY <1>1, BelowIsWellFounded, WFMin
<1>3. \A k \in I, m \in I : ~(<<m, k>> \in Below) => k <= m
  BY <1>1 DEF Below
<1>4. PICK k \in I : \A m \in I : k <= m
  BY <1>2, <1>3
<1>. QED
  BY <1>4 DEF Min

LEMMA RemoveFirstType ==
    ASSUME NEW S, NEW s \in Seq(S), NEW e
    PROVE  RemoveFirst(s, e) \in Seq(S)
<1>. DEFINE I == {i \in 1 .. Len(s) : s[i] = e}
<1>1. CASE \E i \in 1 .. Len(s) : s[i] = e
  <2>1. I # {} /\ Len(s) \in Nat
    BY <1>1
  <2>2. Min(I) \in 1 .. Len(s)
    BY <2>1, LeastIndex
  <2>3. RemoveFirst(s, e) = RemoveAt(s, Min(I))
    BY <1>1, <2>1 DEF RemoveFirst, SelectInSeq
  <2>. QED
    BY <2>2, <2>3, RemoveAtType
<1>2. CASE ~ \E i \in 1 .. Len(s) : s[i] = e
  BY <1>2 DEF RemoveFirst
<1>. QED
  BY <1>1, <1>2

(* A list without doubles keeps none when someone new is added, or when the   *)
(* last one takes the place of one who goes.                                  *)
LEMMA AppendHasNoDoubles ==
    ASSUME NEW S, NEW s \in Seq(S), NoDoubles(s), NEW e \in S, e \notin ToSet(s)
    PROVE  Append(s, e) \in Seq(S) /\ NoDoubles(Append(s, e))
  BY DEF NoDoubles, ToSet

LEMMA SwapHasNoDoubles ==
    ASSUME NEW S, NEW s \in Seq(S), NoDoubles(s), NEW k \in DOMAIN s
    PROVE  LET t == Front([s EXCEPT ![k] = s[Len(s)]])
           IN t \in Seq(S) /\ NoDoubles(t)
<1>. DEFINE r == [s EXCEPT ![k] = s[Len(s)]]
<1>1. r \in Seq(S) /\ Len(r) = Len(s) /\ Len(s) \in Nat \ {0}
  OBVIOUS
<1>2. /\ Front(r) \in Seq(S) /\ Len(Front(r)) = Len(s) - 1
      /\ \A i \in 1 .. Len(s) - 1 : Front(r)[i] = r[i]
  BY <1>1 DEF Front
<1>3. ASSUME NEW i \in 1 .. Len(s) - 1, NEW j \in 1 .. Len(s) - 1, r[i] = r[j] PROVE i = j
  BY <1>1, <1>3 DEF NoDoubles
<1>. HIDE DEF r
<1>4. NoDoubles(Front(r))
  BY <1>1, <1>2, <1>3 DEF NoDoubles
<1>. QED
  BY <1>2, <1>4 DEF r

LEMMA CountedOnce ==
    ASSUME NEW S, NEW s \in Seq(S), NoDoubles(s)
    PROVE  Cardinality(ToSet(s)) = Len(s)
<1>1. s \in Bijection(1 .. Len(s), ToSet(s))
  BY DEF NoDoubles, ToSet, Bijection, Injection, IsInjective, Surjection
<1>2. ExistsBijection(1 .. Len(s), ToSet(s)) /\ Len(s) \in Nat
  BY <1>1 DEF ExistsBijection
<1>. QED
  BY <1>2, FS_CountingElements

------------------------------------------------------------------------------
(* 1. Settings and lists                                                      *)

(* Nobody gets a level by what u has done that u does not have.               *)
RaisesNobody(u) ==
    \A v \in Users :
        parseUserLevel(channel', v) > parseUserLevel(channel, v) =>
            CanAccess(parseUserLevel(channel, u), parseUserLevel(channel', v))

ChangedBy(u) ==
    /\ RowIsWell(channel') /\ changes' \in 0 .. MaxChanges
    /\ UNCHANGED <<warned, permits, banned, punished>>
    /\ Answered(u)
    /\ RaisesNobody(u)

LEMMA LevelIsLevel ==
    ASSUME NEW row, NEW u \in Users
    PROVE  parseUserLevel(row, u) \in AccessLevels \ {AccessLevelUnknown}
<1>. USE DEF AccessLevels, AccessLevelUnknown, AccessLevelEveryone, AccessLevelSubscriber, AccessLevelVIP,
             AccessLevelModerator, AccessLevelBroadcaster, AccessLevelAdmin, AccessLevelSuperAdmin
<1>1. Badge[u] \in {AccessLevelUnknown, AccessLevelSubscriber, AccessLevelVIP,
                    AccessLevelModerator, AccessLevelBroadcaster}
  BY ModerationAssumption
<1>2. CASE u \in Admins \union SuperAdmins
  BY <1>2 DEF parseUserLevel
<1>3. CASE u \notin Admins \union SuperAdmins
  BY <1>1, <1>3 DEF parseUserLevel
<1>. QED
  BY <1>2, <1>3

LEMMA SameListsSameLevels ==
    ASSUME channel'.lists = channel.lists, NEW u
    PROVE  RaisesNobody(u)
<1>1. ASSUME NEW v \in Users PROVE ~(parseUserLevel(channel', v) > parseUserLevel(channel, v))
  <2>1. parseUserLevel(channel', v) = parseUserLevel(channel, v)
    BY DEF parseUserLevel
  <2>2. parseUserLevel(channel, v) \in Nat
    BY LevelIsLevel DEF AccessLevels, AccessLevelUnknown, AccessLevelSuperAdmin
  <2>. QED
    BY <2>1, <2>2
<1>. QED
  BY <1>1 DEF RaisesNobody

LEMMA SavedRow ==
    ASSUME ModeratedInv, NEW u \in Users, NEW level, Handles(u, level),
           NEW row \in ChannelRow, WithinReach(row), updateChannelSettings(row)
    PROVE  ChangedBy(u)
<1>1. channel \in ChannelRow /\ \A l \in ListNames : NoDoubles(channel.lists[l])
  BY DEF ModeratedInv, RowIsWell
<1>2. channel' = [row EXCEPT !.lists = channel.lists] /\ Change
  BY DEF updateChannelSettings, SaveChannelSettings, UpdateChannelSettings
<1>3. /\ channel' \in ChannelRow /\ channel'.lists = channel.lists
      /\ channel'.exempt = row.exempt /\ channel'.mode = row.mode
  BY <1>1, <1>2 DEF ChannelRow
<1>4. RowIsWell(channel')
  BY <1>1, <1>3 DEF RowIsWell, WithinReach
<1>5. changes' \in 0 .. MaxChanges /\ UNCHANGED <<warned, permits, banned, punished>>
  BY <1>2, ModerationAssumption DEF Change, ModeratedInv
<1>6. Answered(u)
  BY DEF Handles
<1>. QED
  BY <1>3, <1>4, <1>5, <1>6, SameListsSameLevels DEF ChangedBy

LEMMA BooleanSaved ==
    ASSUME ModeratedInv, NEW u \in Users, NEW flag \in FlagNames, NEW v \in BOOLEAN, updateBoolean(u, flag, v)
    PROVE  ChangedBy(u)
<1>. DEFINE row == [channel EXCEPT !.flags[flag] = v]
<1>1. channel \in ChannelRow /\ WithinReach(channel)
  BY DEF ModeratedInv, RowIsWell
<1>2. row \in ChannelRow /\ row.exempt = channel.exempt /\ row.mode = channel.mode
  BY <1>1 DEF ChannelRow
<1>3. Handles(u, AccessLevelModerator) /\ updateChannelSettings(row)
  BY DEF updateBoolean
<1>. HIDE DEF row
<1>4. WithinReach(row)
  BY <1>1, <1>2 DEF WithinReach
<1>. QED
  BY <1>2, <1>3, <1>4, SavedRow

LEMMA NumberSaved ==
    ASSUME ModeratedInv, NEW u \in Users, NEW name \in NumberNames, NEW n \in Counts, SetNumber(u, name, n)
    PROVE  ChangedBy(u)
<1>. DEFINE row == [channel EXCEPT !.numbers[name] = n]
<1>1. channel \in ChannelRow /\ WithinReach(channel) /\ n \in Nat
  BY ModerationAssumption DEF ModeratedInv, RowIsWell
<1>2. row \in ChannelRow /\ row.exempt = channel.exempt /\ row.mode = channel.mode
  BY <1>1 DEF ChannelRow
<1>3. Handles(u, AccessLevelModerator) /\ updateChannelSettings(row)
  BY DEF SetNumber
<1>. HIDE DEF row
<1>4. WithinReach(row)
  BY <1>1, <1>2 DEF WithinReach
<1>. QED
  BY <1>2, <1>3, <1>4, SavedRow

LEMMA ModeSaved ==
    ASSUME ModeratedInv, NEW u \in Users, NEW level \in DBLevels, cmdSettingMode(u, level)
    PROVE  ChangedBy(u)
<1>. DEFINE row == [channel EXCEPT !.mode = level]
<1>1. channel \in ChannelRow /\ WithinReach(channel)
  BY DEF ModeratedInv, RowIsWell
<1>2. row \in ChannelRow /\ row.exempt = channel.exempt /\ row.mode = level
  BY <1>1 DEF ChannelRow
<1>3. Handles(u, AccessLevelModerator) /\ updateChannelSettings(row)
  BY DEF cmdSettingMode
<1>4. level \in AccessLevelEveryone .. AccessLevelBroadcaster
  BY DEF cmdSettingMode, CanAccess, DBLevels, AccessLevelEveryone, AccessLevelAdmin,
         AccessLevelBroadcaster, AccessLevelSuperAdmin
<1>. HIDE DEF row
<1>5. WithinReach(row)
  BY <1>1, <1>2, <1>4 DEF WithinReach
<1>. QED
  BY <1>2, <1>3, <1>5, SavedRow

LEMMA ExemptSaved ==
    ASSUME ModeratedInv, NEW u \in Users, NEW level \in DBLevels, cmdFilterExemptLevel(u, level)
    PROVE  ChangedBy(u)
<1>. DEFINE row == [channel EXCEPT !.exempt = level]
<1>1. channel \in ChannelRow /\ WithinReach(channel)
  BY DEF ModeratedInv, RowIsWell
<1>2. row \in ChannelRow /\ row.exempt = level /\ row.mode = channel.mode
  BY <1>1 DEF ChannelRow
<1>3. Handles(u, AccessLevelModerator) /\ updateChannelSettings(row)
  BY DEF cmdFilterExemptLevel
<1>4. level \in AccessLevelEveryone .. AccessLevelModerator
  BY DEF cmdFilterExemptLevel, CanAccess, DBLevels, AccessLevelEveryone, AccessLevelAdmin,
         AccessLevelModerator, AccessLevelSuperAdmin
<1>. HIDE DEF row
<1>5. WithinReach(row)
  BY <1>1, <1>2, <1>4 DEF WithinReach
<1>. QED
  BY <1>2, <1>3, <1>5, SavedRow

LEMMA PermittedSaved ==
    ASSUME ModeratedInv, NEW u \in Users, NEW p \in Patterns, NEW k, cmdFilterPermittedLinks(u, p, k)
    PROVE  ChangedBy(u)
<1>1. channel \in ChannelRow /\ WithinReach(channel) /\ channel.permitted \in Seq(Patterns)
  BY DEF ModeratedInv, RowIsWell, ChannelRow
<1>2. PICK s \in Seq(Patterns) : updateChannelSettings([channel EXCEPT !.permitted = s])
  <2>1. CASE updateChannelSettings([channel EXCEPT !.permitted = Append(@, p)])
    <3>1. Append(channel.permitted, p) \in Seq(Patterns)
      BY <1>1
    <3>. QED
      BY <2>1, <3>1, Zenon
  <2>2. CASE k \in DOMAIN channel.permitted /\ updateChannelSettings([channel EXCEPT !.permitted = RemoveAt(@, k)])
    <3>1. k \in 1 .. Len(channel.permitted)
      BY <1>1, <2>2
    <3>2. RemoveAt(channel.permitted, k) \in Seq(Patterns)
      BY <1>1, <3>1, RemoveAtType
    <3>. QED
      BY <2>2, <3>2, Zenon
  <2>. QED
    BY <2>1, <2>2, Zenon DEF cmdFilterPermittedLinks
<1>. DEFINE row == [channel EXCEPT !.permitted = s]
<1>3. row \in ChannelRow /\ row.exempt = channel.exempt /\ row.mode = channel.mode
  BY <1>1 DEF ChannelRow
<1>4. Handles(u, AccessLevelModerator) /\ updateChannelSettings(row)
  BY <1>2, Zenon DEF cmdFilterPermittedLinks
<1>. HIDE DEF row
<1>5. WithinReach(row)
  BY <1>1, <1>3 DEF WithinReach
<1>. QED
  BY <1>3, <1>4, <1>5, SavedRow

LEMMA PhrasesSaved ==
    ASSUME ModeratedInv, NEW u \in Users, NEW phrase \in Phrases, NEW v \in BOOLEAN, cmdFilterBanPhrase(u, phrase, v)
    PROVE  ChangedBy(u)
<1>1. channel \in ChannelRow /\ WithinReach(channel) /\ channel.phrases \in Seq(Phrases)
  BY DEF ModeratedInv, RowIsWell, ChannelRow
<1>2. CASE updateBoolean(u, "filterBannedPhrases", v)
  BY <1>2, BooleanSaved DEF FlagNames
<1>3. CASE Handles(u, AccessLevelModerator) /\ \E s \in Seq(Phrases) : updateChannelSettings([channel EXCEPT !.phrases = s])
  <2>1. PICK s \in Seq(Phrases) : updateChannelSettings([channel EXCEPT !.phrases = s])
    BY <1>3, Zenon
  <2>. DEFINE row == [channel EXCEPT !.phrases = s]
  <2>2. row \in ChannelRow /\ row.exempt = channel.exempt /\ row.mode = channel.mode
    BY <1>1 DEF ChannelRow
  <2>3. updateChannelSettings(row)
    BY <2>1, Zenon
  <2>. HIDE DEF row
  <2>4. WithinReach(row)
    BY <1>1, <2>2 DEF WithinReach
  <2>. QED
    BY <1>3, <2>2, <2>3, <2>4, SavedRow
<1>4. <<>> \in Seq(Phrases) /\ Append(channel.phrases, phrase) \in Seq(Phrases)
      /\ RemoveFirst(channel.phrases, phrase) \in Seq(Phrases)
  BY <1>1, RemoveFirstType
<1>. QED
  BY <1>2, <1>3, <1>4, Zenon DEF cmdFilterBanPhrase

(* Who makes owners and moderators is the broadcaster or above, and a regular *)
(* is below every moderator.                                                  *)
LEMMA ListSaved ==
    ASSUME ModeratedInv, NEW u \in Users, NEW list \in ListNames, NEW v \in Users,
           cmdOwnerModRegularIgnore(u, list, v)
    PROVE  ChangedBy(u)
<1>1. /\ channel \in ChannelRow /\ WithinReach(channel)
      /\ \A l \in ListNames : NoDoubles(channel.lists[l])
  BY DEF ModeratedInv, RowIsWell
<1>2. channel.lists \in [ListNames -> Seq(Users)] /\ channel.lists[list] \in Seq(Users) /\ NoDoubles(channel.lists[list])
  BY <1>1 DEF ChannelRow
<1>3. Added(list, v) \in Seq(Users) /\ NoDoubles(Added(list, v))
  <2>1. CASE Listed(list, v)
    BY <1>2, <2>1 DEF Added
  <2>2. CASE ~Listed(list, v)
    BY <1>2, <2>2, AppendHasNoDoubles DEF Added, Listed
  <2>. QED
    BY <2>1, <2>2
<1>4. Removed(list, v) \in Seq(Users) /\ NoDoubles(Removed(list, v))
  <2>1. CASE ~Listed(list, v)
    BY <1>2, <2>1 DEF Removed
  <2>2. CASE Listed(list, v)
    <3>. DEFINE l == channel.lists[list]
                i == CHOOSE k \in DOMAIN l : l[k] = v /\ \A j \in DOMAIN l : l[j] = v => k <= j
    <3>1. PICK k \in DOMAIN l : l[k] = v
      BY <2>2 DEF Listed, ToSet
    <3>2. \A j \in DOMAIN l : l[j] = v => k <= j
      BY <1>2, <3>1 DEF NoDoubles
    <3>3. i \in DOMAIN l
      BY <3>1, <3>2
    <3>4. Removed(list, v) = Front([l EXCEPT ![i] = l[Len(l)]])
      BY <2>2 DEF Removed
    <3>. HIDE DEF i
    <3>. QED
      BY <1>2, <3>3, <3>4, SwapHasNoDoubles
  <2>. QED
    BY <2>1, <2>2
<1>5. PICK users \in Seq(Users) : NoDoubles(users) /\ UpdateChannelUserLists(list, users)
  BY <1>3, <1>4, Zenon DEF cmdOwnerModRegularIgnore
<1>6. channel' = [channel EXCEPT !.lists[list] = users] /\ Change
  BY <1>5 DEF UpdateChannelUserLists
<1>7. /\ channel' \in ChannelRow /\ channel'.exempt = channel.exempt /\ channel'.mode = channel.mode
      /\ channel'.lists = [channel.lists EXCEPT ![list] = users]
  BY <1>1, <1>6 DEF ChannelRow
<1>8. RowIsWell(channel')
  <2>1. ASSUME NEW l \in ListNames PROVE NoDoubles(channel'.lists[l])
    BY <1>1, <1>2, <1>5, <1>7
  <2>. QED
    BY <1>1, <1>7, <2>1 DEF RowIsWell, WithinReach
<1>9. changes' \in 0 .. MaxChanges /\ UNCHANGED <<warned, permits, banned, punished>>
  BY <1>6, ModerationAssumption DEF Change, ModeratedInv
<1>10. Handles(u, ListLevel(list))
  BY DEF cmdOwnerModRegularIgnore
<1>11. RaisesNobody(u)
  <2>. USE DEF AccessLevels, AccessLevelUnknown, AccessLevelEveryone, AccessLevelSubscriber, AccessLevelVIP,
               AccessLevelModerator, AccessLevelBroadcaster, AccessLevelAdmin, AccessLevelSuperAdmin
  <2>. SUFFICES ASSUME NEW w \in Users, parseUserLevel(channel', w) > parseUserLevel(channel, w)
                PROVE  CanAccess(parseUserLevel(channel, u), parseUserLevel(channel', w))
    BY DEF RaisesNobody
  <2>1. /\ parseUserLevel(channel, u) \in 1 .. 7 /\ parseUserLevel(channel, w) \in 1 .. 7
        /\ parseUserLevel(channel', w) \in 1 .. 7
    BY LevelIsLevel
  <2>2. CanAccess(parseUserLevel(channel, u), ListLevel(list))
    BY <1>10 DEF Handles, Authorized, UserLevel
  <2>3. w \notin SuperAdmins /\ w \notin Admins /\ Badge[w] = AccessLevelUnknown
    BY <2>1 DEF parseUserLevel
  <2>4. CASE list \in {"owners", "mods"}
    <3>1. parseUserLevel(channel, u) >= 5
      BY <2>1, <2>2, <2>4 DEF CanAccess, ListLevel
    <3>2. parseUserLevel(channel', w) <= 5
      BY <2>3 DEF parseUserLevel
    <3>. QED
      BY <2>1, <3>1, <3>2 DEF CanAccess, Valid
  <2>5. CASE list \notin {"owners", "mods"}
    <3>1. parseUserLevel(channel, u) >= 4
      BY <2>1, <2>2, <2>5 DEF CanAccess, ListLevel
    <3>2. channel'.lists["owners"] = channel.lists["owners"] /\ channel'.lists["mods"] = channel.lists["mods"]
      BY <1>2, <1>7, <2>5 DEF ListNames
    <3>3. parseUserLevel(channel', w) <= 2
      BY <2>1, <2>3, <3>2 DEF parseUserLevel
    <3>. QED
      BY <2>1, <3>1, <3>3 DEF CanAccess, Valid
  <2>. QED
    BY <2>4, <2>5
<1>. QED
  BY <1>8, <1>9, <1>10, <1>11 DEF ChangedBy, Handles

(* Whatever a settings command or a list changes.                             *)
LEMMA SettingsSaved ==
    ASSUME ModeratedInv, NEW u \in Users, Settings(u)
    PROVE  ChangedBy(u)
<1>1. ASSUME NEW v \in BOOLEAN,
             \/ cmdSettingShouldModerate(u, v) \/ cmdSettingParseYoutube(u, v)
             \/ cmdSettingEnableWarnings(u, v) \/ cmdSettingDisplayWarnings(u, v)
             \/ cmdSettingSubsMayLink(u, v) \/ cmdSettingUrban(u, v)
             \/ cmdFilterOnOff(u, v) \/ cmdFilterLinks(u, v) \/ cmdFilterMe(u, v)
      PROVE ChangedBy(u)
  <2>1. \E flag \in FlagNames : updateBoolean(u, flag, v)
    BY <1>1 DEF FlagNames, cmdSettingShouldModerate, cmdSettingParseYoutube, cmdSettingEnableWarnings,
                cmdSettingDisplayWarnings, cmdSettingSubsMayLink, cmdSettingUrban,
                cmdFilterOnOff, cmdFilterLinks, cmdFilterMe
  <2>. QED
    BY <2>1, BooleanSaved
<1>2. ASSUME NEW v \in BOOLEAN, NEW n \in Counts,
             cmdFilterCaps(u, v, n) \/ cmdFilterSymbols(u, v, n) \/ cmdFilterEmotes(u, v, n)
      PROVE ChangedBy(u)
  <2>1. \/ \E flag \in FlagNames : updateBoolean(u, flag, v)
        \/ \E name \in NumberNames : SetNumber(u, name, n)
    BY <1>2 DEF FlagNames, NumberNames, cmdFilterCaps, cmdFilterSymbols, cmdFilterEmotes, SetPercent
  <2>. QED
    BY <2>1, BooleanSaved, NumberSaved
<1>3. ASSUME NEW n \in Counts, cmdSettingTimeoutDuration(u, n) \/ cmdFilterMessageLength(u, n)
      PROVE ChangedBy(u)
  <2>1. \E name \in NumberNames : SetNumber(u, name, n)
    BY <1>3 DEF NumberNames, cmdSettingTimeoutDuration, cmdFilterMessageLength
  <2>. QED
    BY <2>1, NumberSaved
<1>4. ASSUME NEW v \in BOOLEAN, NEW phrase \in Phrases, cmdFilterBanPhrase(u, phrase, v)
      PROVE ChangedBy(u)
  BY <1>4, PhrasesSaved
<1>5. ASSUME NEW level \in DBLevels, cmdSettingMode(u, level) \/ cmdFilterExemptLevel(u, level)
      PROVE ChangedBy(u)
  BY <1>5, ModeSaved, ExemptSaved
<1>6. ASSUME NEW p \in Patterns, NEW k \in 1 .. MaxChanges, cmdFilterPermittedLinks(u, p, k)
      PROVE ChangedBy(u)
  BY <1>6, PermittedSaved
<1>7. ASSUME NEW list \in ListNames, NEW v \in Users, cmdOwnerModRegularIgnore(u, list, v)
      PROVE ChangedBy(u)
  BY <1>7, ListSaved
<1>. QED
  BY <1>1, <1>2, <1>3, <1>4, <1>5, <1>6, <1>7, Zenon DEF Settings

------------------------------------------------------------------------------
(* 2. The filters                                                             *)

LEMMA FilteredByAFilter ==
    ASSUME NEW u, NEW m, NEW f \in FilteredBy(u, m)
    PROVE  f \in FilterNames
  BY Zenon DEF FilteredBy, FilterNames, ToSet

(* No filter has anything against the broadcaster, whatever the settings are: *)
(* the level that is exempt is a moderator's or below, as is the one for links.*)
LEMMA BroadcasterPasses ==
    ASSUME ModeratedInv, NEW u \in Users, Badge[u] = AccessLevelBroadcaster, NEW m
    PROVE  FilteredBy(u, m) = {} /\ Hears(u)
<1>. USE DEF AccessLevels, AccessLevelUnknown, AccessLevelEveryone, AccessLevelSubscriber, AccessLevelVIP,
             AccessLevelModerator, AccessLevelBroadcaster, AccessLevelAdmin, AccessLevelSuperAdmin
<1>1. UserLevel(u) \in 5 .. 7
  BY DEF UserLevel, parseUserLevel
<1>2. channel.exempt \in 1 .. 4 /\ channel.mode \in 1 .. 5
  BY DEF ModeratedInv, RowIsWell, WithinReach
<1>3. Exempt(u)
  BY <1>1, <1>2 DEF Exempt, CanAccessPG, CanAccess, newAccessLevel, DBLevels, Valid
<1>4. MayLink(u)
  BY <1>1 DEF MayLink, CanAccess, Valid
<1>5. Hears(u)
  BY <1>1, <1>2 DEF Hears, CanAccessPG, CanAccess, newAccessLevel, DBLevels, Valid
<1>6. ASSUME NEW k \in DOMAIN Filters PROVE ~Hit(u, m, Filters[k])
  <2>1. Filters[k] \in {"me", "max_length", "links", "emotes", "caps", "symbols", "banned_phrase"}
    BY DEF Filters
  <2>2. Hit(u, m, "links") = FALSE
    BY <1>4 DEF Hit, filterLinks
  <2>3. ASSUME NEW f \in {"me", "max_length", "emotes", "caps", "symbols", "banned_phrase"} PROVE Hit(u, m, f) = FALSE
    BY <1>3, <2>3 DEF Hit
  <2>. QED
    BY <2>1, <2>2, <2>3
<1>7. {k \in DOMAIN Filters : Hit(u, m, Filters[k])} = {}
  BY <1>6, Zenon
<1>8. FilteredBy(u, m) = {}
  BY <1>7, Zenon DEF FilteredBy
<1>. QED
  BY <1>5, <1>8

(* What a message that is filtered does.                                      *)
LEMMA PunishedAndWarned ==
    ASSUME ModeratedInv, NEW u \in Users, NEW f \in FilterNames, NEW m, NEW commits \in BOOLEAN,
           filterDoPunish(u, f, m, commits)
    PROVE  UsersAreWell' /\ (last'.kind = "timeout" /\ Flag("enableWarnings") => f \in punished[u])
<1>1. /\ warned \in [Users -> [FilterNames -> Nat]] /\ permits \in [Users -> Nat]
      /\ punished \in [Users -> SUBSET FilterNames] /\ WarnedOnly /\ banned \subseteq Users
  BY DEF ModeratedInv, UsersAreWell
<1>2. punished' = [punished EXCEPT ![u] = @ \union {f}] /\ banned' = banned
  BY DEF filterDoPunish
<1>3. PICK t \in Nat : warned' = warned \/ warned' = [warned EXCEPT ![u][f] = t]
  <2>. DEFINE time == IF FilterWarned(u, f) THEN NextWarning ELSE FirstWarning
  <2>1. time \in Nat
    BY ModerationAssumption
  <2>2. warned' = warned \/ warned' = [warned EXCEPT ![u][f] = time]
    BY DEF filterDoPunish
  <2>. HIDE DEF time
  <2>. QED
    BY <2>1, <2>2
<1>4. permits' \in [Users -> Nat]
  BY <1>1 DEF filterDoPunish
<1>5. warned' \in [Users -> [FilterNames -> Nat]] /\ punished' \in [Users -> SUBSET FilterNames]
  BY <1>1, <1>2, <1>3
<1>6. ASSUME NEW v \in Users, NEW g \in FilterNames, warned'[v][g] > 0 PROVE g \in punished'[v]
  <2>1. CASE v = u /\ g = f
    BY <1>1, <1>2, <2>1
  <2>2. CASE ~(v = u /\ g = f)
    <3>1. warned'[v][g] = warned[v][g]
      BY <1>1, <1>3, <2>2
    <3>2. g \in punished[v]
      BY <1>1, <1>6, <3>1 DEF WarnedOnly
    <3>. QED
      BY <1>1, <1>2, <3>2
  <2>. QED
    BY <2>1, <2>2
<1>7. UsersAreWell'
  BY <1>1, <1>2, <1>4, <1>5, <1>6 DEF UsersAreWell, WarnedOnly
<1>8. ASSUME last'.kind = "timeout", Flag("enableWarnings") PROVE f \in punished[u]
  <2>1. FilterWarned(u, f)
    BY <1>8 DEF filterDoPunish
  <2>. QED
    BY <1>1, <2>1 DEF FilterWarned, WarnedOnly
<1>. QED
  BY <1>7, <1>8

LEMMA MessageIsHandled ==
    ASSUME ModeratedInv, NEW u \in Users, NEW m, handleSession(u, m)
    PROVE  /\ ModeratedInv' /\ UNCHANGED channel
           /\ last'.user = u
           /\ Badge[u] = AccessLevelBroadcaster => last'.kind = "heard"
           /\ last'.kind = "timeout" /\ Flag("enableWarnings") => last'.filter \in punished[u]
<1>1. CASE \E f \in FilteredBy(u, m), commits \in BOOLEAN : filterDoPunish(u, f, m, commits)
  <2>1. PICK f \in FilteredBy(u, m), commits \in BOOLEAN : filterDoPunish(u, f, m, commits)
    BY <1>1
  <2>2. f \in FilterNames
    BY FilteredByAFilter
  <2>3. UsersAreWell' /\ (last'.kind = "timeout" /\ Flag("enableWarnings") => f \in punished[u])
    BY <2>1, <2>2, PunishedAndWarned
  <2>4. channel' = channel /\ changes' = changes /\ last'.user = u /\ last'.filter = f
    BY <2>1 DEF filterDoPunish
  <2>5. Badge[u] # AccessLevelBroadcaster
    BY BroadcasterPasses
  <2>. QED
    BY <2>3, <2>4, <2>5 DEF ModeratedInv
<1>2. CASE /\ last' = [user |-> u, kind |-> IF Hears(u) THEN "heard" ELSE "unheard", filter |-> "none"]
           /\ permits' = IF UsesPermit(u, m) THEN [permits EXCEPT ![u] = 0] ELSE permits
           /\ UNCHANGED <<channel, warned, banned, punished, changes>>
  <2>1. last'.user = u /\ last'.kind # "timeout" /\ (Hears(u) => last'.kind = "heard")
    BY <1>2
  <2>2. permits' \in [Users -> Nat]
    BY <1>2 DEF ModeratedInv, UsersAreWell
  <2>3. ModeratedInv'
    BY <1>2, <2>2 DEF ModeratedInv, UsersAreWell, WarnedOnly
  <2>. QED
    BY <1>2, <2>1, <2>3, BroadcasterPasses
<1>. QED
  BY <1>1, <1>2, Zenon DEF handleSession

LEMMA TimePasses ==
    ASSUME ModeratedInv, Tick
    PROVE  ModeratedInv' /\ UNCHANGED channel
<1>1. ASSUME NEW t \in Nat PROVE Passed(t) \in Nat /\ (Passed(t) > 0 => t > 0)
  BY DEF Passed
<1>2. /\ warned' \in [Users -> [FilterNames -> Nat]] /\ permits' \in [Users -> Nat]
      /\ channel' = channel /\ changes' = changes /\ banned' = banned /\ punished' = punished
  BY <1>1 DEF Tick, ModeratedInv, UsersAreWell
<1>3. WarnedOnly'
  <2>1. ASSUME NEW u \in Users, NEW f \in FilterNames, warned'[u][f] > 0 PROVE f \in punished'[u]
    <3>1. warned'[u][f] = Passed(warned[u][f]) /\ warned[u][f] \in Nat
      BY DEF Tick, ModeratedInv, UsersAreWell
    <3>. QED
      BY <1>1, <1>2, <2>1, <3>1 DEF ModeratedInv, UsersAreWell, WarnedOnly
  <2>. QED
    BY <2>1 DEF WarnedOnly
<1>. QED
  BY <1>2, <1>3 DEF ModeratedInv, UsersAreWell

------------------------------------------------------------------------------
(* 3. The theorems                                                            *)

(* A step changes settings and lists, handles a message, is a command of a    *)
(* moderator, or the time.                                                    *)
LEMMA StepsAre ==
    ASSUME ModeratedInv, Next
    PROVE  /\ ModeratedInv'
           /\ \/ \E u \in Users : Answered(u) /\ RaisesNobody(u)
              \/ /\ UNCHANGED channel
                 /\ \E u \in Users :
                        /\ last'.user = u
                        /\ Badge[u] = AccessLevelBroadcaster => last'.kind = "heard"
                        /\ last'.kind = "timeout" /\ Flag("enableWarnings") => last'.filter \in punished[u]
              \/ UNCHANGED channel /\ last' = NothingYet
<1>1. ASSUME NEW u \in Users, Settings(u) PROVE ModeratedInv' /\ Answered(u) /\ RaisesNobody(u)
  BY <1>1, SettingsSaved DEF ChangedBy, ModeratedInv, UsersAreWell, WarnedOnly
<1>2. ASSUME NEW u \in Users, NEW v \in Users, cmdPermit(u, v) PROVE ModeratedInv' /\ Answered(u) /\ RaisesNobody(u)
  <2>1. permits' \in [Users -> Nat] /\ UNCHANGED <<channel, warned, banned, punished, changes>> /\ Answered(u)
    BY <1>2, ModerationAssumption DEF cmdPermit, Handles, ModeratedInv, UsersAreWell
  <2>. QED
    BY <2>1, SameListsSameLevels DEF ModeratedInv, UsersAreWell, WarnedOnly
<1>3. ASSUME NEW u \in Users, NEW v \in Users, AtTwitch(u, v) PROVE ModeratedInv' /\ Answered(u) /\ RaisesNobody(u)
  <2>1. banned' \subseteq Users /\ Answered(u) /\ UNCHANGED <<channel, warned, permits, punished, changes>>
    BY <1>3 DEF AtTwitch, cmdModBan, cmdModPurge, cmdModUnban, cmdModUntimeout, cmdModTimeout,
                Moderator, Handles, Ban, ModeratedInv, UsersAreWell
  <2>. QED
    BY <2>1, SameListsSameLevels DEF ModeratedInv, UsersAreWell, WarnedOnly
<1>4. CASE Tick
  BY <1>4, TimePasses DEF Tick
<1>5. ASSUME NEW u \in Users, NEW m \in Messages, handleSession(u, m)
      PROVE  /\ ModeratedInv' /\ UNCHANGED channel
             /\ last'.user = u
             /\ Badge[u] = AccessLevelBroadcaster => last'.kind = "heard"
             /\ last'.kind = "timeout" /\ Flag("enableWarnings") => last'.filter \in punished[u]
  BY <1>5, MessageIsHandled
<1>. QED
  BY <1>1, <1>2, <1>3, <1>4, <1>5, Zenon DEF Next

LEMMA ModerationBegins == Init => ModeratedInv
<1>. SUFFICES ASSUME Init PROVE ModeratedInv
  OBVIOUS
<1>. USE DEF AccessLevelEveryone, AccessLevelSubscriber, AccessLevelModerator, AccessLevelBroadcaster, AccessLevelAdmin
<1>1. InsertDefaultChannel \in ChannelRow
  BY DEF InsertDefaultChannel, ChannelRow, DBLevels
<1>2. WithinReach(InsertDefaultChannel) /\ \A l \in ListNames : NoDoubles(InsertDefaultChannel.lists[l])
  BY DEF InsertDefaultChannel, WithinReach, NoDoubles
<1>3. UsersAreWell /\ changes = 0
  BY DEF Init, UsersAreWell, WarnedOnly
<1>. QED
  BY <1>1, <1>2, <1>3, ModerationAssumption DEF Init, ModeratedInv, RowIsWell

LEMMA ModeratedInvHolds == Spec => []ModeratedInv
<1>1. ModeratedInv /\ UNCHANGED vars => ModeratedInv'
  BY DEF vars, ModeratedInv, UsersAreWell, WarnedOnly
<1>2. ModeratedInv /\ [Next]_vars => ModeratedInv'
  BY <1>1, StepsAre
<1>. QED
  BY <1>2, ModerationBegins, PTL DEF Spec

(* The row of a channel stays well formed and nobody is on a list twice,      *)
(* whoever adds and removes whom (cmdOwnerModRegularIgnore).                  *)
THEOREM RowStaysWell == Spec => []ModerationInv
<1>1. ModeratedInv => ModerationInv
  <2>. SUFFICES ASSUME ModeratedInv PROVE ModerationInv
    OBVIOUS
  <2>1. TypeOK
    BY DEF ModeratedInv, RowIsWell, ChannelRow, UsersAreWell, TypeOK
  <2>2. ListedOnce
    BY CountedOnce DEF ModeratedInv, RowIsWell, ChannelRow, ListedOnce
  <2>. QED
    BY <2>1, <2>2 DEF ModerationInv
<1>. QED
  BY <1>1, ModeratedInvHolds, PTL

(* No setting, mode or list keeps the broadcaster from being heard            *)
(* (cmdFilterExemptLevel, cmdSettingMode, handleSession).                     *)
THEOREM BroadcasterAlwaysHeard == Spec => BroadcasterIsHeard
<1>1. ASSUME ModeratedInv, [Next]_vars
      PROVE  [last'.user \in Users /\ Badge[last'.user] = AccessLevelBroadcaster =>
                  last'.kind \in {"heard", "command"}]_vars
  <2>1. ASSUME Next, last'.user \in Users, Badge[last'.user] = AccessLevelBroadcaster
        PROVE  last'.kind \in {"heard", "command"}
    BY <1>1, <2>1, StepsAre, ModerationAssumption DEF Answered, NothingYet
  <2>. QED
    BY <1>1, <2>1
<1>. QED
  BY <1>1, ModeratedInvHolds, PTL DEF Spec, BroadcasterIsHeard

(* While warnings are on, a timeout follows a message that the same filter    *)
(* has taken from the same user before (filterDoPunish).                      *)
THEOREM WarnedBeforeTimeout == Spec => TimeoutsAfterWarning
<1>1. ASSUME ModeratedInv, [Next]_vars
      PROVE  [last'.kind = "timeout" /\ Flag("enableWarnings") =>
                  last'.filter \in punished[last'.user]]_vars
  <2>1. ASSUME Next, last'.kind = "timeout", Flag("enableWarnings")
        PROVE  last'.filter \in punished[last'.user]
    BY <1>1, <2>1, StepsAre DEF Answered, NothingYet
  <2>. QED
    BY <1>1, <2>1
<1>. QED
  BY <1>1, ModeratedInvHolds, PTL DEF Spec, TimeoutsAfterWarning

(* A level that someone gets by a list is one that whoever listed them has    *)
(* (builtinCommands, parseUserLevel).                                         *)
THEOREM LevelsAreGivenFromAbove == Spec => NobodyIsRaisedAbove
<1>1. ASSUME ModeratedInv, [Next]_vars
      PROVE  [\A v \in Users : parseUserLevel(channel', v) > parseUserLevel(channel, v) =>
                  CanAccess(parseUserLevel(channel, last'.user), parseUserLevel(channel', v))]_vars
  <2>1. ASSUME Next
        PROVE  \A v \in Users : parseUserLevel(channel', v) > parseUserLevel(channel, v) =>
                   CanAccess(parseUserLevel(channel, last'.user), parseUserLevel(channel', v))
    <3>1. CASE \E u \in Users : Answered(u) /\ RaisesNobody(u)
      BY <3>1 DEF Answered, RaisesNobody
    <3>2. CASE UNCHANGED channel
      BY <3>2, SameListsSameLevels DEF RaisesNobody
    <3>. QED
      BY <1>1, <2>1, <3>1, <3>2, StepsAre
  <2>. QED
    BY <1>1, <2>1
<1>. QED
  BY <1>1, ModeratedInvHolds, PTL DEF Spec, NobodyIsRaisedAbove

------------------------------------------------------------------------------
(* Configurations *)

UniqueIds(S) == \A r, q \in S : r.id = q.id => r = q

(* A row refers only to what its table may refer to, and its ID is used.      *)
HasShape(t, r) ==
    /\ r \in Rows /\ r.id # 0
    /\ t = "infos" => (r.custom = 0) # (r.list = 0)
    /\ t \in Timers => r.info # 0
    /\ t # "infos" => r.custom = 0 /\ r.list = 0
    /\ t \notin Timers => r.info = 0

AllUsed(t, r) ==
    /\ r.id < nextId[t]
    /\ r.custom < nextId["customs"] /\ r.list < nextId["lists"] /\ r.info < nextId["infos"]
    /\ IF t = "channels" THEN r.channel = 0
       ELSE r.channel # 0 /\ r.channel < nextId["channels"]

TablesFit ==
    /\ DOMAIN tables = Tables
    /\ nextId \in [Tables -> Nat \ {0}]
    /\ \A t \in Tables :
          /\ IsFiniteSet(tables[t]) /\ UniqueIds(tables[t])
          /\ \A r \in tables[t] : HasShape(t, r) /\ AllUsed(t, r)

(* What refers to each other is of one channel.                               *)
OneChannel ==
    \A i \in tables["infos"] :
        /\ \A q \in tables["customs"] : q.id = i.custom => q.channel = i.channel
        /\ \A q \in tables["lists"] : q.id = i.list => q.channel = i.channel
        /\ \A t \in Timers : \A q \in tables[t] : q.info = i.id => q.channel = i.channel

(* The original has its name, and the names and timers of its commands once.  *)
TheOriginal == Row(1, 0, Original, Text, 0, 0, 0)
OriginalFits ==
    /\ RowsOf("channels", 1) = {TheOriginal}
    /\ \A i, j \in RowsOf("infos", 1) : i.key = j.key => i = j
    /\ \A t \in Timers : \A r, q \in RowsOf(t, 1) : r.info = q.info => r = q

(* What has been read was in the table; nothing has been read of the others.  *)
DumpFits ==
    /\ reads \in 0 .. Len(Order)
    /\ DOMAIN dump = Tables
    /\ \A t \in Tables :
          /\ IsFiniteSet(dump[t]) /\ UniqueIds(dump[t])
          /\ \A r \in dump[t] : HasShape(t, r)
    /\ \A i, j \in dump["infos"] : i.key = j.key => i = j
    /\ \A t \in Timers : \A r, q \in dump[t] : r.info = q.info => r = q
    /\ reads > 0 => dump["channels"] = {TheOriginal}
    /\ reads > 0 /\ ~touched => \A k \in 1 .. reads : dump[Order[k]] = RowsOf(Order[k], 1)

Written ==
    [channel |-> The(dump["channels"]), commands |-> assembleCommands,
     entries |-> [t \in Entries |-> dump[t]]]

DocumentFits ==
    /\ document # Nothing => reads = Len(Order)
    /\ Exported =>
          /\ document = Written
          /\ \A c \in assembleCommands : ~MissingImplementation(c)

Imported ==
    imported # Nothing =>
        /\ Original # Copy
        /\ Home(Copy) # {}
        /\ \A r \in Home(Copy) : Meaning(Stored(r.id)) = Meaning(applyImportDefaults(imported))

ImportInv == TablesFit /\ OneChannel /\ OriginalFits /\ DumpFits /\ DocumentFits /\ Imported

LEMMA TableNames ==
    /\ Tables = {"channels", "quotes", "autoreplies", "variables", "infos", "customs", "lists",
                 "repeats", "schedules"}
    /\ Len(Order) = 9
    /\ \A k \in 1 .. 9 : Order[k] \in Tables
    /\ \A j, k \in 1 .. 9 : Order[j] = Order[k] => j = k
<1>1. Len(Order) = 9 /\ DOMAIN Order = 1 .. 9
  BY DEF Order
<1>2. \A k \in 1 .. 9 : k \in {1, 2, 3, 4, 5, 6, 7, 8, 9}
  OBVIOUS
<1>3. /\ Order[1] = "channels" /\ Order[2] = "quotes" /\ Order[3] = "autoreplies"
      /\ Order[4] = "variables" /\ Order[5] = "infos" /\ Order[6] = "customs"
      /\ Order[7] = "lists" /\ Order[8] = "repeats" /\ Order[9] = "schedules"
  BY DEF Order
<1>4. \A j, k \in 1 .. 9 : Order[j] = Order[k] => j = k
  BY <1>2, <1>3
<1>5. Tables = {"channels", "quotes", "autoreplies", "variables", "infos", "customs", "lists",
                "repeats", "schedules"}
  BY <1>1, <1>2, <1>3 DEF Tables
<1>. QED
  BY <1>1, <1>4, <1>5 DEF Tables

LEMMA TheOne ==
    ASSUME NEW S, S \subseteq Rows
    PROVE  /\ The(S) = Nothing <=> S = {}
           /\ S # {} => The(S) \in S
           /\ \A r \in S : S = {r} => The(S) = r
BY ConfigAssumption DEF The

(* The rows below one in a finite set are fewer than those below a greater.   *)
LEMMA RanksDiffer ==
    ASSUME NEW S, S \subseteq Rows, IsFiniteSet(S), UniqueIds(S)
    PROVE  /\ Cardinality(S) \in Nat
           /\ \A a \in S : /\ Cardinality({r \in S : r.id < a.id}) \in Nat
                           /\ Cardinality({r \in S : r.id < a.id}) < Cardinality(S)
           /\ \A a, b \in S : Cardinality({r \in S : r.id < a.id})
                                 = Cardinality({r \in S : r.id < b.id}) => a = b
<1>. DEFINE Lower(x) == {r \in S : r.id < x.id}
<1>1. \A a \in S : a.id \in Nat
  BY DEF Rows
<1>2. ASSUME NEW T, NEW U, T \subseteq U, U \subseteq S, T # U
      PROVE  Cardinality(T) \in Nat /\ Cardinality(U) \in Nat /\ Cardinality(T) < Cardinality(U)
  <2>1. IsFiniteSet(U) /\ IsFiniteSet(T)
    BY <1>2, FS_Subset
  <2>2. Cardinality(T) \in Nat /\ Cardinality(U) \in Nat
    BY <2>1, FS_CardinalityType
  <2>3. Cardinality(T) <= Cardinality(U) /\ (Cardinality(U) = Cardinality(T) => U = T)
    BY <1>2, <2>1, FS_Subset
  <2>. QED
    BY <1>2, <2>2, <2>3
<1>3. Cardinality(S) \in Nat
  BY FS_CardinalityType
<1>4. ASSUME NEW a \in S
      PROVE  Cardinality(Lower(a)) \in Nat /\ Cardinality(Lower(a)) < Cardinality(S)
  <2>1. Lower(a) \subseteq S /\ a \notin Lower(a)
    BY <1>1
  <2>. HIDE DEF Lower
  <2>. QED
    BY <1>2, <2>1
<1>5. ASSUME NEW a \in S, NEW b \in S, a.id < b.id
      PROVE  Cardinality(Lower(a)) # Cardinality(Lower(b))
  <2>1. Lower(a) \subseteq Lower(b) /\ Lower(b) \subseteq S
    BY <1>1, <1>5
  <2>2. a \in Lower(b) /\ a \notin Lower(a)
    BY <1>1, <1>5
  <2>. HIDE DEF Lower
  <2>3. Cardinality(Lower(a)) \in Nat /\ Cardinality(Lower(a)) < Cardinality(Lower(b))
    BY <1>2, <2>1, <2>2
  <2>. QED
    BY <1>4, <2>3
<1>6. ASSUME NEW a \in S, NEW b \in S, Cardinality(Lower(a)) = Cardinality(Lower(b))
      PROVE  a = b
  <2>1. ~(a.id < b.id) /\ ~(b.id < a.id)
    BY <1>5, <1>6
  <2>. QED
    BY <1>1, <2>1 DEF UniqueIds
<1>. QED
  BY <1>3, <1>4, <1>6

(* A configuration by the rows of one channel.                                *)
Part(of, i) ==
    [info |-> i,
     custom |-> The({r \in of["customs"] : r.id = i.custom}),
     list |-> The({r \in of["lists"] : r.id = i.list}),
     repeat |-> The({r \in of["repeats"] : r.info = i.id}),
     schedule |-> The({r \in of["schedules"] : r.info = i.id})]

Assembled(of) ==
    [channel |-> The(of["channels"]), commands |-> {Part(of, i) : i \in of["infos"]},
     entries |-> [t \in Entries |-> of[t]]]

Own(c) == [t \in Tables |-> RowsOf(t, c)]

(* What a channel's configuration refers to is in it.                         *)
LEMMA StoredIsOwn ==
    ASSUME TablesFit, OneChannel, NEW c
    PROVE  Stored(c) = Assembled(Own(c))
<1>1. \A t \in Tables : Own(c)[t] = RowsOf(t, c)
  BY DEF Own
<1>2. ASSUME NEW i \in RowsOf("infos", c)
      PROVE  /\ {r \in tables["customs"] : r.id = i.custom} = {r \in RowsOf("customs", c) : r.id = i.custom}
             /\ {r \in tables["lists"] : r.id = i.list} = {r \in RowsOf("lists", c) : r.id = i.list}
             /\ {r \in tables["repeats"] : r.info = i.id} = {r \in RowsOf("repeats", c) : r.info = i.id}
             /\ {r \in tables["schedules"] : r.info = i.id} = {r \in RowsOf("schedules", c) : r.info = i.id}
  <2>1. i \in tables["infos"] /\ i.channel = c
    BY <1>2 DEF RowsOf
  <2>2. \A r \in tables["customs"] : r.id = i.custom => r \in RowsOf("customs", c)
    BY <2>1 DEF RowsOf, OneChannel
  <2>3. \A r \in tables["lists"] : r.id = i.list => r \in RowsOf("lists", c)
    BY <2>1 DEF RowsOf, OneChannel
  <2>4. \A t \in Timers : \A r \in tables[t] : r.info = i.id => r.channel = c
    BY <2>1 DEF OneChannel
  <2>5. \A r \in tables["repeats"] : r.info = i.id => r \in RowsOf("repeats", c)
    BY <2>4 DEF RowsOf, Timers
  <2>6. \A r \in tables["schedules"] : r.info = i.id => r \in RowsOf("schedules", c)
    BY <2>4 DEF RowsOf, Timers
  <2>7. \A t \in Tables : RowsOf(t, c) \subseteq tables[t]
    BY DEF RowsOf
  <2>. QED
    BY <2>2, <2>3, <2>5, <2>6, <2>7, TableNames
<1>. DEFINE Linked(i) ==
        [info |-> i,
         custom |-> The({r \in tables["customs"] : r.id = i.custom}),
         list |-> The({r \in tables["lists"] : r.id = i.list}),
         repeat |-> The({r \in tables["repeats"] : r.info = i.id}),
         schedule |-> The({r \in tables["schedules"] : r.info = i.id})]
<1>3. \A i \in RowsOf("infos", c) : Part(Own(c), i) = Linked(i)
  BY <1>1, <1>2, TableNames DEF Part
<1>4. [t \in Entries |-> Own(c)[t]] = [t \in Entries |-> RowsOf(t, c)]
  BY <1>1, TableNames DEF Entries
<1>5. Stored(c) = [channel |-> The(RowsOf("channels", c)),
                   commands |-> {Linked(i) : i \in RowsOf("infos", c)},
                   entries |-> [t \in Entries |-> RowsOf(t, c)]]
  BY DEF Stored
<1>6. Own(c)["channels"] = RowsOf("channels", c) /\ Own(c)["infos"] = RowsOf("infos", c)
  BY <1>1, TableNames
<1>. HIDE DEF Linked
<1>7. {Part(Own(c), i) : i \in Own(c)["infos"]} = {Linked(i) : i \in RowsOf("infos", c)}
  BY <1>3, <1>6
<1>. QED
  BY <1>4, <1>5, <1>6, <1>7 DEF Assembled

(* What is written is what was read.                                          *)
LEMMA WrittenIsDump ==
    ASSUME DumpFits
    PROVE  Written = Assembled(dump)
<1>1. ASSUME NEW i \in dump["infos"]
      PROVE  /\ {r \in dump["customs"] : i.custom # 0 /\ r.id = i.custom} = {r \in dump["customs"] : r.id = i.custom}
             /\ {r \in dump["lists"] : i.custom = 0 /\ r.id = i.list} = {r \in dump["lists"] : r.id = i.list}
  <2>1. (i.custom = 0) # (i.list = 0)
    BY TableNames DEF DumpFits, HasShape
  <2>2. \A r \in dump["customs"] : r.id # 0
    BY TableNames DEF DumpFits, HasShape
  <2>3. \A r \in dump["lists"] : r.id # 0
    BY TableNames DEF DumpFits, HasShape
  <2>. QED
    BY <2>1, <2>2, <2>3
<1>2. \A i \in dump["infos"] : Command(i) = Part(dump, i)
  BY <1>1 DEF Command, Part
<1>3. {Command(i) : i \in dump["infos"]} = {Part(dump, i) : i \in dump["infos"]}
  BY <1>2
<1>. QED
  BY <1>3 DEF Written, Assembled, assembleCommands

Optional == Rows \union {Nothing}

(* A command has an entry and what belongs to it.                             *)
CommandFits(c) ==
    /\ c \in [info : Rows, custom : Optional, list : Optional, repeat : Optional, schedule : Optional]
    /\ HasShape("infos", c.info)
    /\ c.custom # Nothing => HasShape("customs", c.custom)
    /\ c.list # Nothing => HasShape("lists", c.list)
    /\ c.repeat # Nothing => HasShape("repeats", c.repeat) /\ c.repeat.info = c.info.id
    /\ c.schedule # Nothing => HasShape("schedules", c.schedule) /\ c.schedule.info = c.info.id

(* A row by its ID, or nothing.                                               *)
SameRow(r, q) == r # Nothing /\ q # Nothing /\ r.id = q.id => r = q

ConfigFits(config) ==
    /\ HasShape("channels", config.channel)
    /\ \A t \in Entries :
          /\ IsFiniteSet(config.entries[t]) /\ UniqueIds(config.entries[t])
          /\ \A r \in config.entries[t] : HasShape(t, r)
    /\ DOMAIN config.entries = Entries
    /\ IsFiniteSet(config.commands)
    /\ \A c \in config.commands : CommandFits(c)
    /\ \A c, d \in config.commands :
          /\ c.info.id = d.info.id => c = d
          /\ SameRow(c.custom, d.custom) /\ SameRow(c.list, d.list)
          /\ SameRow(c.repeat, d.repeat) /\ SameRow(c.schedule, d.schedule)

LEMMA ImageIsFinite ==
    ASSUME NEW S, IsFiniteSet(S), NEW f, DOMAIN f = S
    PROVE  IsFiniteSet({f[x] : x \in S})
<1>. DEFINE T == {f[x] : x \in S}
            g == [x \in S |-> f[x]]
<1>1. g \in Surjection(S, T)
  BY DEF Surjection
<1>. QED
  BY <1>1, FS_Surjection

LEMMA DumpTypes ==
    ASSUME DumpFits, NEW t \in Tables
    PROVE  dump[t] \subseteq Rows /\ UniqueIds(dump[t]) /\ \A r \in dump[t] : HasShape(t, r)
BY DEF DumpFits, HasShape

LEMMA PartFits ==
    ASSUME DumpFits, NEW i \in dump["infos"]
    PROVE  /\ CommandFits(Part(dump, i)) /\ Part(dump, i).info = i
           /\ Part(dump, i).custom \in dump["customs"] \union {Nothing}
           /\ Part(dump, i).list \in dump["lists"] \union {Nothing}
           /\ Part(dump, i).repeat \in dump["repeats"] \union {Nothing}
           /\ Part(dump, i).schedule \in dump["schedules"] \union {Nothing}
<1>. DEFINE c == Part(dump, i)
<1>1. /\ c.info = i
      /\ c.custom = The({r \in dump["customs"] : r.id = i.custom})
      /\ c.list = The({r \in dump["lists"] : r.id = i.list})
      /\ c.repeat = The({r \in dump["repeats"] : r.info = i.id})
      /\ c.schedule = The({r \in dump["schedules"] : r.info = i.id})
  BY DEF Part
<1>2. HasShape("infos", i)
  BY DumpTypes, TableNames
<1>3. c.custom \in dump["customs"] \union {Nothing}
  BY <1>1, DumpTypes, TableNames, TheOne
<1>4. c.list \in dump["lists"] \union {Nothing}
  BY <1>1, DumpTypes, TableNames, TheOne
<1>5. c.repeat = Nothing \/ (c.repeat \in dump["repeats"] /\ c.repeat.info = i.id)
  <2>. DEFINE S == {r \in dump["repeats"] : r.info = i.id}
  <2>1. S \subseteq Rows
    BY DumpTypes, TableNames
  <2>2. The(S) = Nothing \/ The(S) \in S
    BY <2>1, TheOne
  <2>. QED
    BY <1>1, <2>2
<1>6. c.schedule = Nothing \/ (c.schedule \in dump["schedules"] /\ c.schedule.info = i.id)
  <2>. DEFINE S == {r \in dump["schedules"] : r.info = i.id}
  <2>1. S \subseteq Rows
    BY DumpTypes, TableNames
  <2>2. The(S) = Nothing \/ The(S) \in S
    BY <2>1, TheOne
  <2>. QED
    BY <1>1, <2>2
<1>7. c = [info |-> c.info, custom |-> c.custom, list |-> c.list, repeat |-> c.repeat,
           schedule |-> c.schedule]
  BY DEF Part
<1>. HIDE DEF c
<1>8. c \in [info : Rows, custom : Optional, list : Optional, repeat : Optional, schedule : Optional]
  <2>1. \A t \in Tables : dump[t] \subseteq Rows
    BY DumpTypes
  <2>2. c.info \in Rows /\ c.custom \in Optional /\ c.list \in Optional
        /\ c.repeat \in Optional /\ c.schedule \in Optional
    BY <1>1, <1>2, <1>3, <1>4, <1>5, <1>6, <2>1, TableNames DEF Optional, HasShape
  <2>. QED
    BY <1>7, <2>2
<1>9. /\ c.custom # Nothing => HasShape("customs", c.custom)
      /\ c.list # Nothing => HasShape("lists", c.list)
      /\ c.repeat # Nothing => HasShape("repeats", c.repeat) /\ c.repeat.info = c.info.id
      /\ c.schedule # Nothing => HasShape("schedules", c.schedule) /\ c.schedule.info = c.info.id
  BY <1>1, <1>3, <1>4, <1>5, <1>6, DumpTypes, TableNames
<1>10. CommandFits(c)
  BY <1>1, <1>2, <1>8, <1>9 DEF CommandFits
<1>. QED
  BY <1>1, <1>3, <1>4, <1>5, <1>6, <1>10 DEF c

LEMMA WrittenFits ==
    ASSUME DumpFits, reads > 0
    PROVE  ConfigFits(Written) /\ Written.channel = TheOriginal /\ TheOriginal.key = Original
<1>1. /\ Written.channel = The(dump["channels"])
      /\ Written.commands = {Part(dump, i) : i \in dump["infos"]}
      /\ Written.entries = [t \in Entries |-> dump[t]]
  BY WrittenIsDump DEF Assembled
<1>2. dump["channels"] = {TheOriginal} /\ HasShape("channels", TheOriginal)
  BY DumpTypes, TableNames DEF DumpFits
<1>3. Written.channel = TheOriginal
  BY <1>1, <1>2, TheOne DEF HasShape
<1>4. TheOriginal.key = Original
  BY DEF TheOriginal, Row
<1>5. Entries \subseteq Tables
  BY TableNames DEF Entries
<1>6. ASSUME NEW t \in Entries
      PROVE  /\ IsFiniteSet(Written.entries[t]) /\ UniqueIds(Written.entries[t])
             /\ \A r \in Written.entries[t] : HasShape(t, r)
  BY <1>1, <1>5, DumpTypes DEF DumpFits
<1>7. IsFiniteSet(Written.commands)
  <2>. DEFINE f == [i \in dump["infos"] |-> Part(dump, i)]
  <2>0. DOMAIN f = dump["infos"] /\ \A i \in dump["infos"] : f[i] = Part(dump, i)
    OBVIOUS
  <2>. HIDE DEF f
  <2>1. IsFiniteSet({f[i] : i \in dump["infos"]})
    BY <2>0, ImageIsFinite, TableNames DEF DumpFits
  <2>2. {f[i] : i \in dump["infos"]} = {Part(dump, i) : i \in dump["infos"]}
    BY <2>0
  <2>. QED
    BY <1>1, <2>1, <2>2
<1>8. \A c \in Written.commands : CommandFits(c)
  BY <1>1, PartFits
<1>9. ASSUME NEW c \in Written.commands, NEW d \in Written.commands
      PROVE  /\ c.info.id = d.info.id => c = d
             /\ SameRow(c.custom, d.custom) /\ SameRow(c.list, d.list)
             /\ SameRow(c.repeat, d.repeat) /\ SameRow(c.schedule, d.schedule)
  <2>1. PICK i \in dump["infos"] : c = Part(dump, i)
    BY <1>1
  <2>2. PICK j \in dump["infos"] : d = Part(dump, j)
    BY <1>1
  <2>3. /\ c.info = i /\ c.custom \in dump["customs"] \union {Nothing}
        /\ c.list \in dump["lists"] \union {Nothing} /\ c.repeat \in dump["repeats"] \union {Nothing}
        /\ c.schedule \in dump["schedules"] \union {Nothing}
    BY <2>1, PartFits
  <2>4. /\ d.info = j /\ d.custom \in dump["customs"] \union {Nothing}
        /\ d.list \in dump["lists"] \union {Nothing} /\ d.repeat \in dump["repeats"] \union {Nothing}
        /\ d.schedule \in dump["schedules"] \union {Nothing}
    BY <2>2, PartFits
  <2>5. \A t \in Tables : UniqueIds(dump[t])
    BY DumpTypes
  <2>6. i.id = j.id => i = j
    BY <2>5, TableNames DEF UniqueIds
  <2>7. SameRow(c.custom, d.custom) /\ SameRow(c.list, d.list)
    BY <2>3, <2>4, <2>5, TableNames DEF UniqueIds, SameRow
  <2>8. SameRow(c.repeat, d.repeat) /\ SameRow(c.schedule, d.schedule)
    BY <2>3, <2>4, <2>5, TableNames DEF UniqueIds, SameRow
  <2>. QED
    BY <2>1, <2>2, <2>3, <2>4, <2>6, <2>7, <2>8
<1>. QED
  BY <1>1, <1>2, <1>3, <1>4, <1>6, <1>7, <1>8, <1>9 DEF ConfigFits

LEMMA CommandsChange ==
    ASSUME NEW config, ConfigFits(config), NEW new, HasShape("channels", new.channel),
           DOMAIN new.entries = Entries,
           \A t \in Entries : /\ IsFiniteSet(new.entries[t]) /\ UniqueIds(new.entries[t])
                              /\ \A r \in new.entries[t] : HasShape(t, r),
           NEW f, DOMAIN f = config.commands, new.commands = {f[c] : c \in config.commands},
           \A c \in config.commands : CommandFits(f[c]) /\ f[c].info.id = c.info.id,
           \A c, d \in config.commands :
              /\ SameRow(f[c].custom, f[d].custom) /\ SameRow(f[c].list, f[d].list)
              /\ SameRow(f[c].repeat, f[d].repeat) /\ SameRow(f[c].schedule, f[d].schedule)
    PROVE  ConfigFits(new)
<1>1. IsFiniteSet(new.commands)
  BY ImageIsFinite DEF ConfigFits
<1>2. \A c \in new.commands : CommandFits(c)
  OBVIOUS
<1>3. ASSUME NEW x \in new.commands, NEW y \in new.commands
      PROVE  /\ x.info.id = y.info.id => x = y
             /\ SameRow(x.custom, y.custom) /\ SameRow(x.list, y.list)
             /\ SameRow(x.repeat, y.repeat) /\ SameRow(x.schedule, y.schedule)
  <2>1. PICK c \in config.commands : x = f[c]
    OBVIOUS
  <2>2. PICK d \in config.commands : y = f[d]
    OBVIOUS
  <2>3. c.info.id = d.info.id => c = d
    BY DEF ConfigFits
  <2>. QED
    BY <2>1, <2>2, <2>3
<1>. QED
  BY <1>1, <1>2, <1>3 DEF ConfigFits

LEMMA OtherValue ==
    ASSUME NEW r \in Rows, NEW v \in Values \union {DefaultValue, Missing}, NEW q,
           q = [r EXCEPT !.value = v]
    PROVE  /\ q \in Rows /\ q.id = r.id /\ q.channel = r.channel /\ q.key = r.key
           /\ q.custom = r.custom /\ q.list = r.list /\ q.info = r.info
           /\ \A t : HasShape(t, r) => HasShape(t, q)
<1>1. q \in Rows /\ q.id = r.id /\ q.channel = r.channel /\ q.key = r.key
      /\ q.custom = r.custom /\ q.list = r.list /\ q.info = r.info
  BY DEF Rows
<1>. QED
  BY <1>1 DEF HasShape

LEMMA FilledRow ==
    ASSUME NEW r \in Optional
    PROVE  /\ Filled(r) \in Optional
           /\ Filled(r) = Nothing <=> r = Nothing
           /\ r # Nothing => /\ Filled(r) \in Rows /\ Filled(r).id = r.id /\ Filled(r).key = r.key
                             /\ Filled(r).info = r.info
           /\ \A t : HasShape(t, r) => HasShape(t, Filled(r))
<1>1. CASE r # Nothing /\ r.value = Missing
  <2>1. r \in Rows /\ Filled(r) = [r EXCEPT !.value = DefaultValue]
    BY <1>1 DEF Optional, Filled
  <2>2. Filled(r) \in Rows /\ Filled(r) # Nothing
    BY <2>1, OtherValue, ConfigAssumption
  <2>. QED
    BY <1>1, <2>1, <2>2, OtherValue DEF Optional
<1>2. CASE ~(r # Nothing /\ r.value = Missing)
  BY <1>2 DEF Optional, Filled
<1>. QED
  BY <1>1, <1>2

Parts == {"info", "custom", "list", "repeat", "schedule"}
FilledCommand(c) == [part \in DOMAIN c |-> Filled(c[part])]

LEMMA FilledCommandFits ==
    ASSUME NEW c, CommandFits(c), NEW d, d = FilledCommand(c)
    PROVE  /\ CommandFits(d) /\ d.info.id = c.info.id
           /\ DOMAIN c = Parts /\ DOMAIN d = Parts /\ \A part \in Parts : d[part] = Filled(c[part])
<1>1. c \in [info : Rows, custom : Optional, list : Optional, repeat : Optional, schedule : Optional]
  BY DEF CommandFits
<1>2. DOMAIN c = Parts
  BY <1>1 DEF Parts
<1>3. /\ c.info \in Rows /\ c.custom \in Optional /\ c.list \in Optional
      /\ c.repeat \in Optional /\ c.schedule \in Optional
  BY <1>1
<1>4. DOMAIN d = Parts /\ \A part \in Parts : d[part] = Filled(c[part])
  BY <1>2 DEF FilledCommand
<1>5. /\ d.info = Filled(c.info) /\ d.custom = Filled(c.custom) /\ d.list = Filled(c.list)
      /\ d.repeat = Filled(c.repeat) /\ d.schedule = Filled(c.schedule)
  BY <1>4 DEF Parts
<1>6. c.info # Nothing /\ c.info \in Optional
  BY <1>3, ConfigAssumption DEF Optional
<1>7. d.info \in Rows /\ d.info.id = c.info.id /\ HasShape("infos", d.info)
  BY <1>5, <1>6, FilledRow DEF CommandFits
<1>8. d \in [info : Rows, custom : Optional, list : Optional, repeat : Optional, schedule : Optional]
  <2>1. d.custom \in Optional /\ d.list \in Optional /\ d.repeat \in Optional /\ d.schedule \in Optional
    BY <1>3, <1>5, FilledRow
  <2>2. d = [info |-> d.info, custom |-> d.custom, list |-> d.list, repeat |-> d.repeat,
             schedule |-> d.schedule]
    BY <1>2 DEF FilledCommand, Parts
  <2>. QED
    BY <1>7, <2>1, <2>2
<1>9. /\ d.custom # Nothing => HasShape("customs", d.custom)
      /\ d.list # Nothing => HasShape("lists", d.list)
  BY <1>3, <1>5, FilledRow DEF CommandFits
<1>10. d.repeat # Nothing => HasShape("repeats", d.repeat) /\ d.repeat.info = d.info.id
  BY <1>3, <1>5, <1>7, FilledRow DEF CommandFits
<1>11. d.schedule # Nothing => HasShape("schedules", d.schedule) /\ d.schedule.info = d.info.id
  BY <1>3, <1>5, <1>7, FilledRow DEF CommandFits
<1>. QED
  BY <1>2, <1>4, <1>7, <1>8, <1>9, <1>10, <1>11 DEF CommandFits

LEMMA FilledSame ==
    ASSUME NEW r \in Optional, NEW q \in Optional, SameRow(r, q)
    PROVE  SameRow(Filled(r), Filled(q))
BY FilledRow DEF SameRow

(* Defaults change values only.                                               *)
LEMMA FilledFits ==
    ASSUME NEW config, ConfigFits(config)
    PROVE  ConfigFits(applyImportDefaults(config))
<1>. DEFINE new == applyImportDefaults(config)
            f == [c \in config.commands |-> FilledCommand(c)]
<1>1. /\ new.channel = Filled(config.channel)
      /\ new.commands = {FilledCommand(c) : c \in config.commands}
      /\ new.entries = [t \in Entries |-> {Filled(r) : r \in config.entries[t]}]
  BY DEF applyImportDefaults, FilledCommand
<1>2. HasShape("channels", new.channel)
  BY <1>1, FilledRow DEF ConfigFits, HasShape, Optional
<1>3. ASSUME NEW t \in Entries
      PROVE  /\ IsFiniteSet(new.entries[t]) /\ UniqueIds(new.entries[t])
             /\ \A r \in new.entries[t] : HasShape(t, r)
  <2>. DEFINE S == config.entries[t]
              g == [r \in S |-> Filled(r)]
  <2>1. IsFiniteSet(S) /\ UniqueIds(S) /\ \A r \in S : HasShape(t, r) /\ r \in Optional /\ r # Nothing
    BY ConfigAssumption DEF ConfigFits, HasShape, Optional
  <2>2. new.entries[t] = {Filled(r) : r \in S}
    BY <1>1
  <2>3. DOMAIN g = S /\ \A r \in S : g[r] = Filled(r)
    OBVIOUS
  <2>. HIDE DEF g, S, new
  <2>4. IsFiniteSet({g[r] : r \in S})
    BY <2>1, <2>3, ImageIsFinite
  <2>5. {g[r] : r \in S} = {Filled(r) : r \in S}
    BY <2>3
  <2>6. UniqueIds({Filled(r) : r \in S})
    BY <2>1, FilledRow DEF UniqueIds
  <2>7. \A r \in S : HasShape(t, Filled(r))
    BY <2>1, FilledRow
  <2>. QED
    BY <2>2, <2>4, <2>5, <2>6, <2>7
<1>4. DOMAIN f = config.commands /\ \A c \in config.commands : f[c] = FilledCommand(c)
  OBVIOUS
<1>5. DOMAIN new.entries = Entries
  BY <1>1
<1>. HIDE DEF new, f
<1>6. new.commands = {f[c] : c \in config.commands}
  BY <1>1, <1>4
<1>7. \A c \in config.commands : CommandFits(f[c]) /\ f[c].info.id = c.info.id
  BY <1>4, FilledCommandFits DEF ConfigFits
<1>8. ASSUME NEW c \in config.commands, NEW d \in config.commands
      PROVE  /\ SameRow(f[c].custom, f[d].custom) /\ SameRow(f[c].list, f[d].list)
             /\ SameRow(f[c].repeat, f[d].repeat) /\ SameRow(f[c].schedule, f[d].schedule)
  <2>1. CommandFits(c) /\ CommandFits(d)
    BY DEF ConfigFits
  <2>2. /\ f[c].custom = Filled(c.custom) /\ f[d].custom = Filled(d.custom)
        /\ f[c].list = Filled(c.list) /\ f[d].list = Filled(d.list)
        /\ f[c].repeat = Filled(c.repeat) /\ f[d].repeat = Filled(d.repeat)
        /\ f[c].schedule = Filled(c.schedule) /\ f[d].schedule = Filled(d.schedule)
    BY <1>4, <2>1, FilledCommandFits DEF Parts
  <2>3. /\ c.custom \in Optional /\ c.list \in Optional /\ c.repeat \in Optional /\ c.schedule \in Optional
        /\ d.custom \in Optional /\ d.list \in Optional /\ d.repeat \in Optional /\ d.schedule \in Optional
    BY <2>1 DEF CommandFits
  <2>4. /\ SameRow(c.custom, d.custom) /\ SameRow(c.list, d.list)
        /\ SameRow(c.repeat, d.repeat) /\ SameRow(c.schedule, d.schedule)
    BY DEF ConfigFits
  <2>5. SameRow(Filled(c.custom), Filled(d.custom)) /\ SameRow(Filled(c.list), Filled(d.list))
    BY <2>3, <2>4, FilledSame
  <2>6. SameRow(Filled(c.repeat), Filled(d.repeat)) /\ SameRow(Filled(c.schedule), Filled(d.schedule))
    BY <2>3, <2>4, FilledSame
  <2>. QED
    BY <2>2, <2>5, <2>6
<1>9. ConfigFits(new)
  BY <1>2, <1>3, <1>4, <1>5, <1>6, <1>7, <1>8, CommandsChange
<1>. QED
  BY <1>9 DEF new

(* Whatever is posted has rows that fit together.                             *)
LEMMA PostedFits ==
    ASSUME DumpFits, DocumentFits, NEW posted \in Documents
    PROVE  ConfigFits(posted) /\ posted.channel.key \in {Original, Copy}
<1>. DEFINE named == [document EXCEPT !.channel.key = Copy]
<1>1. document = Written /\ reads > 0
  BY TableNames DEF Documents, DocumentFits, Exported
<1>2. ConfigFits(document) /\ document.channel = TheOriginal /\ document.channel.key = Original
  BY <1>1, WrittenFits
<1>3. document = [channel |-> document.channel, commands |-> document.commands,
                  entries |-> document.entries]
  BY <1>1 DEF Written
<1>4. document.channel \in Rows /\ HasShape("channels", document.channel)
  BY <1>2 DEF ConfigFits, HasShape
<1>5. /\ named.channel = [document.channel EXCEPT !.key = Copy] /\ named.commands = document.commands
      /\ named.entries = document.entries
  BY <1>3
<1>6. named.channel \in Rows /\ HasShape("channels", named.channel) /\ named.channel.key = Copy
  BY <1>4, <1>5 DEF HasShape, Rows
<1>7. ConfigFits(named)
  BY <1>2, <1>5, <1>6 DEF ConfigFits
<1>8. named = [channel |-> named.channel, commands |-> named.commands, entries |-> named.entries]
  BY <1>3
<1>. HIDE DEF named
<1>9. CASE posted = document
  BY <1>2, <1>9
<1>10. CASE posted = named
  BY <1>6, <1>7, <1>10
<1>11. CASE posted = [named EXCEPT !.channel.value = Missing]
  <2>1. /\ posted.channel = [named.channel EXCEPT !.value = Missing]
        /\ posted.commands = named.commands /\ posted.entries = named.entries
    BY <1>8, <1>11
  <2>2. HasShape("channels", posted.channel) /\ posted.channel.key = Copy
    BY <1>6, <2>1, OtherValue
  <2>. QED
    BY <1>7, <2>1, <2>2 DEF ConfigFits
<1>12. CASE posted = [named EXCEPT !.commands = {[c EXCEPT !.custom = Nothing] : c \in @}]
  <2>. DEFINE Edit(c) == [c EXCEPT !.custom = Nothing]
              f == [c \in named.commands |-> Edit(c)]
  <2>1. /\ posted.channel = named.channel /\ posted.entries = named.entries
        /\ posted.commands = {Edit(c) : c \in named.commands}
    BY <1>8, <1>12
  <2>2. DOMAIN f = named.commands /\ \A c \in named.commands : f[c] = Edit(c)
    OBVIOUS
  <2>. HIDE DEF f, Edit
  <2>3. posted.commands = {f[c] : c \in named.commands}
    BY <2>1, <2>2
  <2>4. ASSUME NEW c \in named.commands
        PROVE  /\ CommandFits(f[c]) /\ f[c].info = c.info /\ f[c].custom = Nothing /\ f[c].list = c.list
               /\ f[c].repeat = c.repeat /\ f[c].schedule = c.schedule
    <3>1. CommandFits(c)
      BY <1>7 DEF ConfigFits
    <3>. QED
      BY <2>2, <3>1 DEF CommandFits, Optional, Edit
  <2>5. \A c, d \in named.commands :
              /\ SameRow(f[c].custom, f[d].custom) /\ SameRow(f[c].list, f[d].list)
              /\ SameRow(f[c].repeat, f[d].repeat) /\ SameRow(f[c].schedule, f[d].schedule)
    BY <1>7, <2>4 DEF ConfigFits, SameRow
  <2>6. /\ HasShape("channels", posted.channel) /\ DOMAIN posted.entries = Entries
        /\ \A t \in Entries : /\ IsFiniteSet(posted.entries[t]) /\ UniqueIds(posted.entries[t])
                              /\ \A r \in posted.entries[t] : HasShape(t, r)
    BY <1>6, <1>7, <2>1 DEF ConfigFits
  <2>7. \A c \in named.commands : CommandFits(f[c]) /\ f[c].info.id = c.info.id
    BY <2>4
  <2>8. ConfigFits(posted)
    BY <1>7, <2>2, <2>3, <2>5, <2>6, <2>7, CommandsChange
  <2>. QED
    BY <1>6, <2>1, <2>8
<1>13. CASE posted = [named EXCEPT !.commands = {[c EXCEPT !.info.value = Missing] : c \in @}]
  <2>. DEFINE Edit(c) == [c EXCEPT !.info.value = Missing]
              f == [c \in named.commands |-> Edit(c)]
  <2>1. /\ posted.channel = named.channel /\ posted.entries = named.entries
        /\ posted.commands = {Edit(c) : c \in named.commands}
    BY <1>8, <1>13
  <2>2. DOMAIN f = named.commands /\ \A c \in named.commands : f[c] = Edit(c)
    OBVIOUS
  <2>. HIDE DEF f, Edit
  <2>3. posted.commands = {f[c] : c \in named.commands}
    BY <2>1, <2>2
  <2>4. ASSUME NEW c \in named.commands
        PROVE  /\ CommandFits(f[c]) /\ f[c].info.id = c.info.id /\ f[c].custom = c.custom /\ f[c].list = c.list
               /\ f[c].repeat = c.repeat /\ f[c].schedule = c.schedule
    <3>1. CommandFits(c)
      BY <1>7 DEF ConfigFits
    <3>2. c \in [info : Rows, custom : Optional, list : Optional, repeat : Optional, schedule : Optional]
      BY <3>1 DEF CommandFits
    <3>3. /\ f[c].info = [c.info EXCEPT !.value = Missing] /\ f[c].custom = c.custom /\ f[c].list = c.list
          /\ f[c].repeat = c.repeat /\ f[c].schedule = c.schedule
      BY <2>2, <3>2 DEF Edit
    <3>4. f[c].info \in Rows /\ f[c].info.id = c.info.id /\ HasShape("infos", f[c].info)
      BY <3>1, <3>2, <3>3, OtherValue DEF CommandFits
    <3>5. f[c] \in [info : Rows, custom : Optional, list : Optional, repeat : Optional, schedule : Optional]
      BY <2>2, <3>2, <3>3, <3>4 DEF Edit
    <3>. QED
      BY <3>1, <3>3, <3>4, <3>5 DEF CommandFits
  <2>5. \A c, d \in named.commands :
              /\ SameRow(f[c].custom, f[d].custom) /\ SameRow(f[c].list, f[d].list)
              /\ SameRow(f[c].repeat, f[d].repeat) /\ SameRow(f[c].schedule, f[d].schedule)
    BY <1>7, <2>4 DEF ConfigFits
  <2>6. /\ HasShape("channels", posted.channel) /\ DOMAIN posted.entries = Entries
        /\ \A t \in Entries : /\ IsFiniteSet(posted.entries[t]) /\ UniqueIds(posted.entries[t])
                              /\ \A r \in posted.entries[t] : HasShape(t, r)
    BY <1>6, <1>7, <2>1 DEF ConfigFits
  <2>7. \A c \in named.commands : CommandFits(f[c]) /\ f[c].info.id = c.info.id
    BY <2>4
  <2>8. ConfigFits(posted)
    BY <1>7, <2>2, <2>3, <2>5, <2>6, <2>7, CommandsChange
  <2>. QED
    BY <1>6, <2>1, <2>8
<1>. QED
  BY <1>9, <1>10, <1>11, <1>12, <1>13 DEF Documents, named

------------------------------------------------------------------------------
(* What handlers change *)

AllOwn == \A c \in Nat : Stored(c) = Assembled(Own(c))

LEMMA StoredNow == TablesFit /\ OneChannel => AllOwn
BY StoredIsOwn DEF AllOwn

LEMMA StoredNext == TablesFit' /\ OneChannel' => AllOwn'
BY StoredNow, PTL

LEMMA ChannelsAreRows ==
    ASSUME TablesFit, NEW c \in tables["channels"]
    PROVE  c \in Rows /\ c.id \in Nat \ {0} /\ HasShape("channels", c)
BY TableNames DEF TablesFit, HasShape, Rows

LEMMA CopyIsAnother ==
    ASSUME TablesFit, OriginalFits, Original # Copy, NEW c \in Home(Copy)
    PROVE  c \in tables["channels"] /\ c.id \in Nat \ {0, 1} /\ c.key = Copy
<1>1. c \in tables["channels"] /\ c.key = Copy
  BY DEF Home
<1>2. c.id # 1
  <2>. SUFFICES ASSUME c.id = 1 PROVE FALSE
    OBVIOUS
  <2>1. c = TheOriginal
    BY <1>1 DEF OriginalFits, RowsOf
  <2>. QED
    BY <1>1, <2>1 DEF TheOriginal, Row
<1>. QED
  BY <1>1, <1>2, ChannelsAreRows

(* The document and what was read stay, and so does what was imported.        *)
LEMMA DocumentStays ==
    ASSUME DocumentFits, UNCHANGED <<dump, reads, document>>
    PROVE  DocumentFits'
BY DEF DocumentFits, Exported, Written, assembleCommands, Command, MissingImplementation, The

LEMMA ImportStays ==
    ASSUME TablesFit, OneChannel, OriginalFits, Imported, TablesFit', OneChannel',
           UNCHANGED imported, tables'["channels"] = tables["channels"],
           \A c \in Nat \ {1}, t \in Tables : RowsOf(t, c)' = RowsOf(t, c)
    PROVE  Imported'
<1>. SUFFICES ASSUME imported # Nothing
              PROVE  /\ Original # Copy /\ Home(Copy)' # {}
                     /\ \A r \in Home(Copy)' :
                           Meaning(Stored(r.id)') = Meaning(applyImportDefaults(imported))
  BY DEF Imported, Meaning, Says, applyImportDefaults, Filled
<1>1. Home(Copy)' = Home(Copy)
  BY DEF Home
<1>2. ASSUME NEW r \in Home(Copy)
      PROVE  Meaning(Stored(r.id)') = Meaning(applyImportDefaults(imported))
  <2>1. r.id \in Nat \ {0, 1}
    BY CopyIsAnother DEF Imported
  <2>2. Own(r.id)' = Own(r.id)
    BY <2>1 DEF Own
  <2>3. Stored(r.id) = Assembled(Own(r.id))
    BY <2>1, StoredNow DEF AllOwn
  <2>4. Stored(r.id)' = Assembled(Own(r.id))'
    BY <2>1, StoredNext DEF AllOwn
  <2>5. Stored(r.id)' = Stored(r.id)
    BY <2>2, <2>3, <2>4 DEF Assembled, Part, The
  <2>. QED
    BY <1>2, <2>5 DEF Imported
<1>. QED
  BY <1>1, <1>2 DEF Imported

LEMMA EditStays ==
    ASSUME ImportInv, Edited, TablesFit', OneChannel', OriginalFits',
           tables'["channels"] = tables["channels"],
           \A c \in Nat \ {1}, t \in Tables : RowsOf(t, c)' = RowsOf(t, c)
    PROVE  ImportInv'
<1>1. DumpFits'
  BY DEF ImportInv, Edited, DumpFits, TheOriginal, HasShape
<1>2. DocumentFits'
  BY DocumentStays DEF ImportInv, Edited
<1>3. Imported'
  BY ImportStays DEF ImportInv, Edited
<1>. QED
  BY <1>1, <1>2, <1>3 DEF ImportInv

(* A row with another value at most.                                          *)
Like(r, q) ==
    /\ r \in Rows /\ r.id = q.id /\ r.channel = q.channel /\ r.key = q.key
    /\ r.custom = q.custom /\ r.list = q.list /\ r.info = q.info

LEMMA FewerFits ==
    ASSUME TablesFit, OneChannel, OriginalFits, UNCHANGED nextId, DOMAIN tables' = Tables,
           \A t \in Tables : /\ IsFiniteSet(tables'[t]) /\ UniqueIds(tables'[t])
                             /\ \A r \in tables'[t] : \E q \in tables[t] : Like(r, q),
           tables'["channels"] = tables["channels"]
    PROVE  TablesFit' /\ OneChannel' /\ OriginalFits'
<1>1. TablesFit'
  <2>1. ASSUME NEW t \in Tables, NEW r \in tables'[t] PROVE HasShape(t, r) /\ AllUsed(t, r)'
    <3>1. PICK q \in tables[t] : Like(r, q)
      BY <2>1
    <3>2. HasShape(t, q) /\ AllUsed(t, q)
      BY DEF TablesFit
    <3>. QED
      BY <3>1, <3>2 DEF Like, HasShape, AllUsed
  <2>. QED
    BY <2>1 DEF TablesFit
<1>2. OneChannel'
  <2>. SUFFICES ASSUME NEW i \in tables'["infos"]
                PROVE  /\ \A q \in tables'["customs"] : q.id = i.custom => q.channel = i.channel
                       /\ \A q \in tables'["lists"] : q.id = i.list => q.channel = i.channel
                       /\ \A t \in Timers : \A q \in tables'[t] : q.info = i.id => q.channel = i.channel
    BY DEF OneChannel
  <2>1. PICK j \in tables["infos"] : Like(i, j)
    BY TableNames
  <2>2. \A q \in tables'["customs"] : q.id = i.custom => q.channel = i.channel
    BY <2>1, TableNames DEF OneChannel, Like
  <2>3. \A q \in tables'["lists"] : q.id = i.list => q.channel = i.channel
    BY <2>1, TableNames DEF OneChannel, Like
  <2>4. ASSUME NEW t \in Timers, NEW q \in tables'[t], q.info = i.id PROVE q.channel = i.channel
    <3>1. PICK p \in tables[t] : Like(q, p)
      BY TableNames DEF Timers
    <3>. QED
      BY <2>1, <2>4, <3>1 DEF OneChannel, Like
  <2>. QED
    BY <2>2, <2>3, <2>4
<1>3. OriginalFits'
  <2>1. RowsOf("channels", 1)' = {TheOriginal}
    BY DEF OriginalFits, RowsOf
  <2>2. ASSUME NEW i \in RowsOf("infos", 1)', NEW j \in RowsOf("infos", 1)', i.key = j.key PROVE i = j
    <3>1. i \in tables'["infos"] /\ j \in tables'["infos"] /\ i.channel = 1 /\ j.channel = 1
      BY DEF RowsOf
    <3>2. PICK p \in tables["infos"] : Like(i, p)
      BY <3>1, TableNames
    <3>3. PICK q \in tables["infos"] : Like(j, q)
      BY <3>1, TableNames
    <3>4. p \in RowsOf("infos", 1) /\ q \in RowsOf("infos", 1) /\ p.key = q.key
      BY <2>2, <3>1, <3>2, <3>3 DEF RowsOf, Like
    <3>5. p = q
      BY <3>4 DEF OriginalFits
    <3>. QED
      BY <3>1, <3>2, <3>3, <3>5, TableNames DEF UniqueIds, Like
  <2>3. ASSUME NEW t \in Timers, NEW i \in RowsOf(t, 1)', NEW j \in RowsOf(t, 1)', i.info = j.info PROVE i = j
    <3>1. t \in Tables /\ t # "channels"
      BY TableNames DEF Timers
    <3>2. i \in tables'[t] /\ j \in tables'[t] /\ i.channel = 1 /\ j.channel = 1
      BY <3>1 DEF RowsOf
    <3>3. PICK p \in tables[t] : Like(i, p)
      BY <3>1, <3>2
    <3>4. PICK q \in tables[t] : Like(j, q)
      BY <3>1, <3>2
    <3>5. p \in RowsOf(t, 1) /\ q \in RowsOf(t, 1) /\ p.info = q.info
      BY <2>3, <3>1, <3>2, <3>3, <3>4 DEF RowsOf, Like
    <3>6. p = q
      BY <3>5 DEF OriginalFits
    <3>. QED
      BY <3>1, <3>2, <3>3, <3>4, <3>6 DEF UniqueIds, Like
  <2>. QED
    BY <2>1, <2>2, <2>3 DEF OriginalFits, TheOriginal
<1>. QED
  BY <1>1, <1>2, <1>3

(* A table gets a row with the next ID, or stays.                             *)
Grows(t, row) ==
    /\ tables'[t] = tables[t] \union {row}
    /\ HasShape(t, row) /\ row.id = nextId[t] /\ AllUsed(t, row)'

LEMMA GrowFits ==
    ASSUME TablesFit, DOMAIN tables' = Tables, nextId' \in [Tables -> Nat \ {0}],
           \A t \in Tables : nextId'[t] >= nextId[t],
           \A t \in Tables : tables'[t] = tables[t] \/ \E row : Grows(t, row)
    PROVE  TablesFit'
<1>1. ASSUME NEW t \in Tables, NEW r \in tables[t] PROVE HasShape(t, r) /\ AllUsed(t, r)'
  <2>1. HasShape(t, r) /\ AllUsed(t, r)
    BY DEF TablesFit
  <2>2. /\ nextId[t] \in Nat /\ nextId'[t] \in Nat /\ nextId'[t] >= nextId[t]
        /\ nextId["customs"] \in Nat /\ nextId'["customs"] \in Nat /\ nextId'["customs"] >= nextId["customs"]
        /\ nextId["lists"] \in Nat /\ nextId'["lists"] \in Nat /\ nextId'["lists"] >= nextId["lists"]
        /\ nextId["infos"] \in Nat /\ nextId'["infos"] \in Nat /\ nextId'["infos"] >= nextId["infos"]
        /\ nextId["channels"] \in Nat /\ nextId'["channels"] \in Nat
        /\ nextId'["channels"] >= nextId["channels"]
    BY TableNames DEF TablesFit
  <2>3. r.id \in Nat /\ r.custom \in Nat /\ r.list \in Nat /\ r.info \in Nat /\ r.channel \in Nat
    BY <2>1 DEF HasShape, Rows
  <2>. QED
    BY <2>1, <2>2, <2>3 DEF AllUsed
<1>2. ASSUME NEW t \in Tables, tables'[t] = tables[t]
      PROVE  /\ IsFiniteSet(tables'[t]) /\ UniqueIds(tables'[t])
             /\ \A r \in tables'[t] : HasShape(t, r) /\ AllUsed(t, r)'
  BY <1>1, <1>2 DEF TablesFit
<1>3. ASSUME NEW t \in Tables, NEW row, Grows(t, row)
      PROVE  /\ IsFiniteSet(tables'[t]) /\ UniqueIds(tables'[t])
             /\ \A r \in tables'[t] : HasShape(t, r) /\ AllUsed(t, r)'
  <2>1. tables'[t] = tables[t] \union {row} /\ row.id = nextId[t]
    BY <1>3 DEF Grows
  <2>2. IsFiniteSet(tables'[t])
    BY <2>1, FS_AddElement DEF TablesFit
  <2>3. \A r \in tables[t] : r.id \in Nat /\ r.id < nextId[t]
    BY DEF TablesFit, AllUsed, HasShape, Rows
  <2>4. UniqueIds(tables[t]) /\ nextId[t] \in Nat
    BY DEF TablesFit
  <2>5. \A r \in tables[t] : r.id # row.id
    BY <2>1, <2>3, <2>4
  <2>6. UniqueIds(tables'[t])
    BY <2>1, <2>4, <2>5 DEF UniqueIds
  <2>7. \A r \in tables'[t] : HasShape(t, r) /\ AllUsed(t, r)'
    BY <1>1, <1>3, <2>1 DEF Grows
  <2>. QED
    BY <2>2, <2>6, <2>7
<1>. QED
  BY <1>2, <1>3 DEF TablesFit

LEMMA NumbersAre ==
    ASSUME TablesFit, OriginalFits
    PROVE  /\ Text \in Values /\ \A t \in Tables : nextId[t] \in Nat /\ nextId[t] > 0
           /\ nextId["channels"] > 1
<1>1. \A t \in Tables : nextId[t] \in Nat /\ nextId[t] > 0
  BY DEF TablesFit
<1>2. TheOriginal \in tables["channels"] /\ TheOriginal.id = 1
  BY DEF OriginalFits, RowsOf, TheOriginal, Row
<1>3. 1 < nextId["channels"]
  BY <1>2, TableNames DEF TablesFit, AllUsed
<1>4. Text \in Values
  BY ConfigAssumption DEF Text
<1>. QED
  BY <1>1, <1>3, <1>4

LEMMA AddCommandFits ==
    ASSUME ImportInv, NEW n \in CommandNames, NEW kind \in {"customs", "lists"}, AddCommand(n, kind)
    PROVE  ImportInv'
<1>. USE DEF ImportInv
<1>0. PICK id \in Nat, next \in Nat : id = nextId[kind] /\ next = nextId["infos"]
  BY NumbersAre, TableNames
<1>01. PICK impl : impl = Row(id, 1, 0, Text, 0, 0, 0)
  OBVIOUS
<1>02. PICK entry : entry = Row(next, 1, n, Text, IF kind = "customs" THEN id ELSE 0,
                                IF kind = "lists" THEN id ELSE 0, 0)
  OBVIOUS
<1>1. /\ Edited /\ \A r \in RowsOf("infos", 1) : r.key # n
      /\ tables' = [Put(kind, impl) EXCEPT !["infos"] = @ \union {entry}]
      /\ nextId' = [Used(kind) EXCEPT !["infos"] = @ + 1]
  BY <1>0, <1>01, <1>02 DEF AddCommand
<1>2. kind \in Tables /\ kind # "infos" /\ "infos" \in Tables
  BY TableNames
<1>3. /\ DOMAIN tables' = Tables
      /\ tables'[kind] = tables[kind] \union {impl} /\ tables'["infos"] = tables["infos"] \union {entry}
      /\ \A t \in Tables \ {kind, "infos"} : tables'[t] = tables[t]
  BY <1>1, <1>2 DEF Put, TablesFit
<1>4. /\ nextId' \in [Tables -> Nat \ {0}]
      /\ nextId'[kind] = nextId[kind] + 1 /\ nextId'["infos"] = nextId["infos"] + 1
      /\ \A t \in Tables \ {kind, "infos"} : nextId'[t] = nextId[t]
  BY <1>1, <1>2 DEF Used, TablesFit
<1>5. /\ impl \in Rows /\ impl.id = id /\ impl.channel = 1 /\ impl.custom = 0 /\ impl.list = 0
      /\ impl.info = 0 /\ impl.key = 0
  <2>1. id \in Nat /\ 1 \in Nat /\ 0 \in Nat /\ Text \in Values
    BY <1>2, NumbersAre
  <2>. QED
    BY <1>01, <2>1 DEF Row, Rows
<1>6. /\ entry \in Rows /\ entry.id = next /\ entry.channel = 1 /\ entry.key = n
      /\ entry.custom = (IF kind = "customs" THEN id ELSE 0)
      /\ entry.list = (IF kind = "lists" THEN id ELSE 0) /\ entry.info = 0
  <2>1. /\ (IF kind = "customs" THEN id ELSE 0) \in Nat /\ (IF kind = "lists" THEN id ELSE 0) \in Nat
        /\ 1 \in Nat /\ 0 \in Nat /\ Text \in Values
        /\ n \in {Original, Copy} \union CommandNames \union Nat
    BY <1>2, NumbersAre
  <2>. QED
    BY <1>02, <2>1 DEF Row, Rows
<1>7. /\ \A t \in Tables : nextId[t] \in Nat /\ nextId[t] > 0
      /\ nextId["channels"] > 1 /\ id = nextId[kind] /\ id > 0 /\ next = nextId["infos"]
  BY <1>0, <1>2, NumbersAre
<1>8. TablesFit'
  <2>0. /\ "customs" \in Tables /\ "lists" \in Tables /\ "channels" \in Tables
        /\ nextId'["customs"] > 0 /\ nextId'["lists"] > 0 /\ nextId'["infos"] > 0
        /\ nextId'["channels"] = nextId["channels"]
    BY <1>4, <1>7, TableNames
  <2>1. Grows(kind, impl)
    <3>1. HasShape(kind, impl)
      BY <1>5, <1>7 DEF HasShape, Timers
    <3>2. AllUsed(kind, impl)'
      BY <1>4, <1>5, <1>7, <2>0 DEF AllUsed
    <3>. QED
      BY <1>3, <1>5, <1>7, <3>1, <3>2 DEF Grows
  <2>2. Grows("infos", entry)
    <3>1. HasShape("infos", entry)
      BY <1>2, <1>6, <1>7 DEF HasShape, Timers
    <3>2. AllUsed("infos", entry)'
      BY <1>2, <1>4, <1>6, <1>7, <2>0 DEF AllUsed
    <3>. QED
      BY <1>3, <1>6, <1>7, <3>1, <3>2 DEF Grows
  <2>3. \A t \in Tables : nextId'[t] >= nextId[t]
    BY <1>4, <1>7
  <2>. QED
    BY <1>3, <1>4, <2>1, <2>2, <2>3, GrowFits
<1>9. \A t \in Tables : \A r \in tables[t] :
         /\ r.id \in Nat /\ r.id # 0 /\ r.id < nextId[t] /\ r.custom \in Nat /\ r.custom < nextId["customs"]
         /\ r.list \in Nat /\ r.list < nextId["lists"] /\ r.info \in Nat /\ r.info < nextId["infos"]
  BY DEF TablesFit, HasShape, AllUsed, Rows
<1>10. OneChannel'
  <2>. SUFFICES ASSUME NEW i \in tables'["infos"]
                PROVE  /\ \A q \in tables'["customs"] : q.id = i.custom => q.channel = i.channel
                       /\ \A q \in tables'["lists"] : q.id = i.list => q.channel = i.channel
                       /\ \A t \in Timers : \A q \in tables'[t] : q.info = i.id => q.channel = i.channel
    BY DEF OneChannel
  <2>1. \A t \in Timers : tables'[t] = tables[t] /\ t \in Tables
    BY <1>3, TableNames DEF Timers
  <2>2. /\ tables'["customs"] = tables["customs"] \/ kind = "customs"
        /\ tables'["lists"] = tables["lists"] \/ kind = "lists"
    BY <1>3, TableNames
  <2>3. CASE i = entry
    <3>1. \A q \in tables'["customs"] : q.id = i.custom => q.channel = i.channel
      BY <1>3, <1>5, <1>6, <1>7, <1>9, <2>2, <2>3, TableNames
    <3>2. \A q \in tables'["lists"] : q.id = i.list => q.channel = i.channel
      BY <1>3, <1>5, <1>6, <1>7, <1>9, <2>2, <2>3, TableNames
    <3>3. \A t \in Timers : \A q \in tables'[t] : q.info # i.id
      BY <1>6, <1>7, <1>9, <2>1, <2>3, TableNames
    <3>. QED
      BY <3>1, <3>2, <3>3
  <2>4. CASE i \in tables["infos"]
    <3>1. i.custom \in Nat /\ i.custom < nextId["customs"] /\ i.list \in Nat /\ i.list < nextId["lists"]
      BY <1>2, <1>9, <2>4
    <3>2. \A q \in tables'["customs"] : q.id = i.custom => q.channel = i.channel
      BY <1>3, <1>5, <1>7, <2>2, <2>4, <3>1, TableNames DEF OneChannel
    <3>3. \A q \in tables'["lists"] : q.id = i.list => q.channel = i.channel
      BY <1>3, <1>5, <1>7, <2>2, <2>4, <3>1, TableNames DEF OneChannel
    <3>. QED
      BY <2>1, <2>4, <3>2, <3>3 DEF OneChannel
  <2>. QED
    BY <1>3, <2>3, <2>4
<1>11. tables'["channels"] = tables["channels"]
  BY <1>3, TableNames
<1>12. OriginalFits'
  <2>1. RowsOf("channels", 1)' = {TheOriginal}
    BY <1>11 DEF OriginalFits, RowsOf
  <2>2. \A i, j \in RowsOf("infos", 1)' : i.key = j.key => i = j
    <3>1. \A i \in RowsOf("infos", 1)' : i = entry \/ i \in RowsOf("infos", 1)
      BY <1>3 DEF RowsOf
    <3>. QED
      BY <1>1, <1>6, <3>1 DEF OriginalFits
  <2>3. \A t \in Timers : RowsOf(t, 1)' = RowsOf(t, 1)
    BY <1>3, TableNames DEF Timers, RowsOf
  <2>. QED
    BY <2>1, <2>2, <2>3 DEF OriginalFits, TheOriginal
<1>13. ASSUME NEW c \in Nat \ {1}, NEW t \in Tables PROVE RowsOf(t, c)' = RowsOf(t, c)
  BY <1>3, <1>5, <1>6, <1>11 DEF RowsOf
<1>. QED
  BY <1>1, <1>8, <1>10, <1>11, <1>12, <1>13, EditStays

LEMMA EditCommandFits ==
    ASSUME ImportInv, NEW i \in RowsOf("infos", 1), NEW v \in Values, EditCommand(i, v)
    PROVE  ImportInv'
<1>. DEFINE Changed(t, ids) == {IF r.id \in ids THEN [r EXCEPT !.value = v] ELSE r : r \in tables[t]}
            Ids(t) == CASE t = "infos" -> {i.id} [] t = "customs" -> {i.custom} [] OTHER -> {i.list}
            Edits == {"infos", "customs", "lists"}
<1>. USE DEF ImportInv
<1>1. /\ Edited /\ UNCHANGED nextId
      /\ tables' = [tables EXCEPT !["infos"] = Changed("infos", {i.id}),
                                  !["customs"] = Changed("customs", {i.custom}),
                                  !["lists"] = Changed("lists", {i.list})]
  BY DEF EditCommand
<1>2. /\ DOMAIN tables' = Tables
      /\ \A t \in Edits : tables'[t] = Changed(t, Ids(t))
      /\ \A t \in Tables \ Edits : tables'[t] = tables[t]
  <2>. HIDE DEF Changed
  <2>. QED
    BY <1>1, TableNames DEF TablesFit
<1>3. i \in tables["infos"] /\ i.channel = 1
  BY DEF RowsOf
<1>4. \A t \in Tables : \A r \in tables[t] : r \in Rows
  BY DEF TablesFit, HasShape
<1>5. ASSUME NEW t \in Edits
      PROVE  /\ t \in Tables /\ IsFiniteSet(tables'[t]) /\ UniqueIds(tables'[t])
             /\ \A r \in tables'[t] : \E q \in tables[t] : Like(r, q) /\ (r = q \/ q.id \in Ids(t))
             /\ \A q \in tables[t] : q \in tables'[t] \/ q.id \in Ids(t)
  <2>. DEFINE New(r) == IF r.id \in Ids(t) THEN [r EXCEPT !.value = v] ELSE r
              f == [r \in tables[t] |-> New(r)]
  <2>1. t \in Tables /\ tables'[t] = {New(r) : r \in tables[t]}
    BY <1>2, TableNames
  <2>2. \A r \in tables[t] : /\ Like(New(r), r) /\ (New(r) = r \/ r.id \in Ids(t))
                             /\ (r.id \in Ids(t) \/ New(r) = r)
    BY <1>4, <2>1, OtherValue DEF Like
  <2>3. DOMAIN f = tables[t] /\ \A r \in tables[t] : f[r] = New(r)
    OBVIOUS
  <2>. HIDE DEF New, f, Ids
  <2>4. {f[r] : r \in tables[t]} = {New(r) : r \in tables[t]}
    BY <2>3
  <2>5. IsFiniteSet(tables'[t])
    BY <2>1, <2>3, <2>4, ImageIsFinite DEF TablesFit
  <2>6. UniqueIds(tables'[t])
    BY <2>1, <2>2 DEF TablesFit, UniqueIds, Like
  <2>. QED
    BY <2>1, <2>2, <2>5, <2>6
<1>6. ASSUME NEW t \in Tables \ Edits
      PROVE  /\ IsFiniteSet(tables'[t]) /\ UniqueIds(tables'[t])
             /\ \A r \in tables'[t] : Like(r, r)
  BY <1>2, <1>4 DEF TablesFit, Like
<1>7. tables'["channels"] = tables["channels"]
  BY <1>2, TableNames
<1>. HIDE DEF Changed, Ids
<1>8. TablesFit' /\ OneChannel' /\ OriginalFits'
  <2>1. \A t \in Tables : /\ IsFiniteSet(tables'[t]) /\ UniqueIds(tables'[t])
                          /\ \A r \in tables'[t] : \E q \in tables[t] : Like(r, q)
    BY <1>2, <1>5, <1>6
  <2>. QED
    BY <1>1, <1>2, <1>7, <2>1, FewerFits
<1>9. ASSUME NEW c \in Nat \ {1}, NEW t \in Tables PROVE RowsOf(t, c)' = RowsOf(t, c)
  <2>1. CASE t \notin Edits
    BY <1>2, <2>1 DEF RowsOf
  <2>2. CASE t \in Edits
    <3>1. \A q \in tables[t] : q.id \in Ids(t) => q.channel = 1
      BY <1>3, <2>2, TableNames DEF Ids, OneChannel, TablesFit, UniqueIds
    <3>2. t # "channels"
      BY <2>2
    <3>3. \A r \in tables'[t] : r.channel = c => r \in tables[t]
      BY <1>5, <2>2, <3>1 DEF Like
    <3>4. \A q \in tables[t] : q.channel = c => q \in tables'[t]
      BY <1>5, <2>2, <3>1
    <3>. QED
      BY <3>2, <3>3, <3>4 DEF RowsOf
  <2>. QED
    BY <2>1, <2>2
<1>. QED
  BY <1>1, <1>7, <1>8, <1>9, EditStays

(* A row of the channel is added, which only rows of the channel refer to.    *)
LEMMA AddRowFits ==
    ASSUME ImportInv, Edited, NEW t \in Entries \union Timers, NEW row,
           tables' = Put(t, row), nextId' = Used(t),
           HasShape(t, row), row.id = nextId[t], row.channel = 1,
           t \in Timers =>
               /\ row.info < nextId["infos"]
               /\ \A i \in tables["infos"] : i.id = row.info => i.channel = 1
               /\ \A r \in RowsOf(t, 1) : r.info # row.info
    PROVE  ImportInv'
<1>. USE DEF ImportInv
<1>1. t \in Tables /\ t \notin {"channels", "infos", "customs", "lists"}
  BY TableNames DEF Entries, Timers
<1>2. /\ DOMAIN tables' = Tables /\ tables'[t] = tables[t] \union {row}
      /\ \A u \in Tables \ {t} : tables'[u] = tables[u]
  BY <1>1 DEF Put, TablesFit
<1>3. /\ nextId' \in [Tables -> Nat \ {0}] /\ nextId'[t] = nextId[t] + 1
      /\ \A u \in Tables \ {t} : nextId'[u] = nextId[u]
  BY <1>1 DEF Used, TablesFit
<1>4. /\ \A u \in Tables : nextId[u] \in Nat /\ nextId[u] > 0
      /\ nextId["channels"] > 1
  BY NumbersAre
<1>5. /\ tables'["channels"] = tables["channels"] /\ tables'["infos"] = tables["infos"]
      /\ tables'["customs"] = tables["customs"] /\ tables'["lists"] = tables["lists"]
      /\ nextId'["channels"] = nextId["channels"] /\ nextId'["infos"] = nextId["infos"]
      /\ nextId'["customs"] = nextId["customs"] /\ nextId'["lists"] = nextId["lists"]
      /\ "infos" \in Tables /\ "customs" \in Tables /\ "lists" \in Tables /\ "channels" \in Tables
  BY <1>1, <1>2, <1>3, TableNames
<1>6. TablesFit'
  <2>1. row.custom = 0 /\ row.list = 0 /\ (t \notin Timers => row.info = 0)
    BY <1>1 DEF HasShape
  <2>2. AllUsed(t, row)'
    BY <1>1, <1>3, <1>4, <1>5, <2>1 DEF AllUsed
  <2>3. Grows(t, row)
    BY <1>2, <2>2 DEF Grows
  <2>4. \A u \in Tables : nextId'[u] >= nextId[u]
    BY <1>3, <1>4
  <2>. QED
    BY <1>2, <1>3, <2>3, <2>4, GrowFits
<1>7. OneChannel'
  <2>1. ASSUME NEW i \in tables["infos"], NEW u \in Timers, NEW q \in tables'[u], q.info = i.id
        PROVE  q.channel = i.channel
    <3>1. u \in Tables
      BY TableNames DEF Timers
    <3>2. CASE q \in tables[u]
      BY <2>1, <3>2 DEF OneChannel
    <3>3. CASE u = t /\ q = row
      BY <2>1, <3>3
    <3>. QED
      BY <1>2, <2>1, <3>1, <3>2, <3>3
  <2>. QED
    BY <1>5, <2>1 DEF OneChannel
<1>8. OriginalFits'
  <2>1. RowsOf("channels", 1)' = {TheOriginal} /\ RowsOf("infos", 1)' = RowsOf("infos", 1)
    BY <1>5 DEF OriginalFits, RowsOf
  <2>2. ASSUME NEW u \in Timers, NEW r \in RowsOf(u, 1)', NEW q \in RowsOf(u, 1)', r.info = q.info
        PROVE  r = q
    <3>1. u \in Tables
      BY TableNames DEF Timers
    <3>2. (r \in RowsOf(u, 1) \/ (u = t /\ r = row)) /\ (q \in RowsOf(u, 1) \/ (u = t /\ q = row))
      BY <1>2, <2>2, <3>1 DEF RowsOf
    <3>. QED
      BY <2>2, <3>2 DEF OriginalFits
  <2>. QED
    BY <2>1, <2>2 DEF OriginalFits, TheOriginal
<1>9. ASSUME NEW c \in Nat \ {1}, NEW u \in Tables PROVE RowsOf(u, c)' = RowsOf(u, c)
  BY <1>1, <1>2 DEF RowsOf
<1>. QED
  BY <1>5, <1>6, <1>7, <1>8, <1>9, EditStays

LEMMA AddTimerFits ==
    ASSUME ImportInv, NEW i \in RowsOf("infos", 1), NEW t \in Timers, AddTimer(t, i)
    PROVE  ImportInv'
<1>1. PICK row : row = Row(nextId[t], 1, 0, Text, 0, 0, i.id)
  OBVIOUS
<1>2. /\ Edited /\ \A r \in RowsOf(t, 1) : r.info # i.id
      /\ tables' = Put(t, row) /\ nextId' = Used(t)
  BY <1>1 DEF AddTimer
<1>3. i \in tables["infos"] /\ i.channel = 1
  BY DEF RowsOf
<1>4. t \in Tables /\ t # "infos" /\ t \in Entries \union Timers
  BY TableNames DEF Timers
<1>5. i.id \in Nat /\ i.id # 0 /\ i.id < nextId["infos"]
  BY <1>3, TableNames DEF ImportInv, TablesFit, HasShape, AllUsed, Rows
<1>6. nextId[t] \in Nat /\ nextId[t] > 0 /\ Text \in Values
  BY <1>4, NumbersAre DEF ImportInv
<1>7. /\ row \in Rows /\ row.id = nextId[t] /\ row.channel = 1 /\ row.custom = 0 /\ row.list = 0
      /\ row.info = i.id
  BY <1>1, <1>5, <1>6 DEF Row, Rows
<1>8. HasShape(t, row)
  BY <1>4, <1>5, <1>6, <1>7 DEF HasShape
<1>9. \A j \in tables["infos"] : j.id = row.info => j.channel = 1
  BY <1>3, <1>7, TableNames DEF ImportInv, TablesFit, UniqueIds
<1>. QED
  BY <1>2, <1>4, <1>5, <1>7, <1>8, <1>9, AddRowFits

LEMMA AddEntryFits ==
    ASSUME ImportInv, NEW t \in Entries, AddEntry(t)
    PROVE  ImportInv'
<1>1. PICK row : row = Row(nextId[t], 1, nextId[t], Text, 0, 0, 0)
  OBVIOUS
<1>2. Edited /\ tables' = Put(t, row) /\ nextId' = Used(t)
  BY <1>1 DEF AddEntry
<1>3. t \in Tables /\ t # "infos" /\ t \notin Timers /\ t \in Entries \union Timers
  BY TableNames DEF Timers, Entries
<1>4. nextId[t] \in Nat /\ nextId[t] > 0 /\ Text \in Values
  BY <1>3, NumbersAre DEF ImportInv
<1>5. /\ row \in Rows /\ row.id = nextId[t] /\ row.channel = 1 /\ row.custom = 0 /\ row.list = 0
      /\ row.info = 0
  BY <1>1, <1>4 DEF Row, Rows
<1>6. HasShape(t, row)
  BY <1>3, <1>4, <1>5 DEF HasShape
<1>. QED
  BY <1>2, <1>3, <1>5, <1>6, AddRowFits

(* Rows of the channel are deleted.                                           *)
LEMMA TakeFits ==
    ASSUME ImportInv, Edited, UNCHANGED nextId, DOMAIN tables' = Tables,
           tables'["channels"] = tables["channels"],
           \A t \in Tables : /\ tables'[t] \subseteq tables[t]
                             /\ \A r \in tables[t] : r \in tables'[t] \/ r.channel = 1
    PROVE  ImportInv'
<1>. USE DEF ImportInv
<1>1. ASSUME NEW t \in Tables
      PROVE  /\ IsFiniteSet(tables'[t]) /\ UniqueIds(tables'[t])
             /\ \A r \in tables'[t] : \E q \in tables[t] : Like(r, q)
  <2>1. IsFiniteSet(tables[t]) /\ UniqueIds(tables[t]) /\ \A r \in tables[t] : r \in Rows
    BY DEF TablesFit, HasShape
  <2>2. IsFiniteSet(tables'[t])
    BY <2>1, FS_Subset
  <2>. QED
    BY <2>1, <2>2 DEF UniqueIds, Like
<1>2. TablesFit' /\ OneChannel' /\ OriginalFits'
  BY <1>1, FewerFits
<1>3. ASSUME NEW c \in Nat \ {1}, NEW t \in Tables PROVE RowsOf(t, c)' = RowsOf(t, c)
  BY DEF RowsOf
<1>. QED
  BY <1>2, <1>3, EditStays

LEMMA DeleteRowFits ==
    ASSUME ImportInv, NEW t \in Entries \union Timers, NEW r \in RowsOf(t, 1), DeleteRow(t, r)
    PROVE  ImportInv'
<1>1. t \in Tables /\ t # "channels"
  BY TableNames DEF Entries, Timers
<1>2. r \in tables[t] /\ r.channel = 1
  BY <1>1 DEF RowsOf
<1>3. /\ Edited /\ UNCHANGED nextId /\ DOMAIN tables' = Tables
      /\ tables'[t] = tables[t] \ {r} /\ \A u \in Tables \ {t} : tables'[u] = tables[u]
  BY <1>1 DEF DeleteRow, ImportInv, TablesFit
<1>. QED
  BY <1>1, <1>2, <1>3, TakeFits, TableNames

LEMMA DeleteCommandFits ==
    ASSUME ImportInv, NEW i \in RowsOf("infos", 1), DeleteCommand(i)
    PROVE  ImportInv'
<1>1. i \in tables["infos"] /\ i.channel = 1
  BY DEF RowsOf
<1>2. Edited /\ UNCHANGED nextId /\ DOMAIN tables' = Tables
  BY DEF DeleteCommand
<1>3. /\ \A t \in Timers : tables'[t] = {r \in tables[t] : r.info # i.id}
      /\ tables'["infos"] = tables["infos"] \ {i}
      /\ tables'["customs"] = {r \in tables["customs"] : r.id # i.custom}
      /\ tables'["lists"] = {r \in tables["lists"] : r.id # i.list}
      /\ \A t \in Tables \ (Timers \union {"infos", "customs", "lists"}) : tables'[t] = tables[t]
  BY TableNames DEF DeleteCommand, Timers
<1>4. /\ \A q \in tables["customs"] : q.id = i.custom => q.channel = 1
      /\ \A q \in tables["lists"] : q.id = i.list => q.channel = 1
      /\ \A t \in Timers : \A q \in tables[t] : q.info = i.id => q.channel = 1
  BY <1>1 DEF ImportInv, OneChannel
<1>5. tables'["channels"] = tables["channels"]
  BY <1>3, TableNames DEF Timers
<1>6. ASSUME NEW t \in Tables
      PROVE  /\ tables'[t] \subseteq tables[t]
             /\ \A r \in tables[t] : r \in tables'[t] \/ r.channel = 1
  <2>1. CASE t \in Timers
    BY <1>3, <1>4, <2>1
  <2>2. CASE t = "infos"
    BY <1>1, <1>3, <2>2
  <2>3. CASE t = "customs"
    BY <1>3, <1>4, <2>3
  <2>4. CASE t = "lists"
    BY <1>3, <1>4, <2>4
  <2>5. CASE t \notin Timers \union {"infos", "customs", "lists"}
    BY <1>3, <2>5
  <2>. QED
    BY <2>1, <2>2, <2>3, <2>4, <2>5
<1>. QED
  BY <1>2, <1>5, <1>6, TakeFits

------------------------------------------------------------------------------
(* The export, and an import that is refused *)

LEMMA QueryFits ==
    ASSUME ImportInv, NEW t, Query(t)
    PROVE  ImportInv'
<1>. USE DEF ImportInv
<1>1. /\ reads \in 0 .. 8 /\ t = Order[reads + 1] /\ reads' = reads + 1
      /\ dump' = [dump EXCEPT ![t] = RowsOf(t, 1)] /\ touched' = (reads > 0 /\ touched)
      /\ UNCHANGED <<tables, nextId, document, imported>>
  BY TableNames DEF Query, DumpFits
<1>2. t \in Tables /\ reads' \in 1 .. 9
  BY <1>1, TableNames
<1>3. /\ DOMAIN dump' = Tables /\ dump'[t] = RowsOf(t, 1)
      /\ \A u \in Tables \ {t} : dump'[u] = dump[u]
  BY <1>1, <1>2 DEF DumpFits
<1>4. \A u \in Tables : RowsOf(u, 1)' = RowsOf(u, 1)
  BY <1>1 DEF RowsOf
<1>5. /\ RowsOf(t, 1) \subseteq tables[t] /\ IsFiniteSet(RowsOf(t, 1))
      /\ UniqueIds(RowsOf(t, 1)) /\ \A r \in RowsOf(t, 1) : HasShape(t, r)
  <2>1. RowsOf(t, 1) \subseteq tables[t]
    BY DEF RowsOf
  <2>2. IsFiniteSet(tables[t]) /\ UniqueIds(tables[t]) /\ \A r \in tables[t] : HasShape(t, r)
    BY <1>2 DEF TablesFit
  <2>3. IsFiniteSet(RowsOf(t, 1))
    BY <2>1, <2>2, FS_Subset
  <2>. QED
    BY <2>1, <2>2, <2>3 DEF UniqueIds
<1>6. DumpFits'
  <2>1. \A u \in Tables : /\ IsFiniteSet(dump'[u]) /\ UniqueIds(dump'[u])
                          /\ \A r \in dump'[u] : HasShape(u, r)
    BY <1>3, <1>5 DEF DumpFits
  <2>2. \A i, j \in dump'["infos"] : i.key = j.key => i = j
    BY <1>3, TableNames DEF DumpFits, OriginalFits
  <2>3. \A u \in Timers : \A r, q \in dump'[u] : r.info = q.info => r = q
    <3>1. \A u \in Timers : u \in Tables
      BY TableNames DEF Timers
    <3>. QED
      BY <1>3, <3>1 DEF DumpFits, OriginalFits
  <2>4. dump'["channels"] = {TheOriginal}
    <3>1. CASE t = "channels"
      BY <1>3, <3>1 DEF OriginalFits
    <3>2. CASE t # "channels"
      <4>1. reads > 0
        <5>1. Order[1] = "channels"
          BY DEF Order
        <5>2. ASSUME reads = 0 PROVE FALSE
          <6>1. reads + 1 = 1
            BY <5>2
          <6>. QED
            BY <1>1, <3>2, <5>1, <6>1
        <5>. QED
          BY <1>1, <5>2
      <4>. QED
        BY <1>3, <3>2, <4>1, TableNames DEF DumpFits
    <3>. QED
      BY <3>1, <3>2
  <2>5. ASSUME ~touched', NEW k \in 1 .. reads' PROVE dump'[Order[k]] = RowsOf(Order[k], 1)'
    <3>1. k \in 1 .. 9 /\ Order[k] \in Tables
      BY <1>2, TableNames
    <3>2. CASE k = reads + 1
      BY <1>1, <1>2, <1>3, <1>4, <3>2
    <3>3. CASE k # reads + 1
      <4>1. k \in 1 .. reads /\ reads > 0
        BY <1>1, <3>3
      <4>0. ~touched
        <5>1. touched' = (reads > 0 /\ touched)
          BY <1>1
        <5>. QED
          BY <2>5, <4>1, <5>1, Zenon
      <4>2. Order[k] # t
        BY <1>1, <3>1, <3>3, TableNames
      <4>3. dump[Order[k]] = RowsOf(Order[k], 1)
        BY <4>0, <4>1 DEF DumpFits
      <4>. QED
        BY <1>3, <1>4, <3>1, <4>2, <4>3
    <3>. QED
      BY <3>2, <3>3
  <2>6. reads' \in 0 .. Len(Order)
    BY <1>2, TableNames
  <2>. QED
    BY <1>3, <2>1, <2>2, <2>3, <2>4, <2>5, <2>6 DEF DumpFits, TheOriginal, UniqueIds, HasShape
<1>7. DocumentFits'
  <2>1. document = Nothing
    BY <1>1, TableNames DEF DocumentFits
  <2>. QED
    BY <1>1, <2>1 DEF DocumentFits, Exported
<1>8. TablesFit' /\ OneChannel' /\ OriginalFits'
  BY <1>1 DEF TablesFit, OneChannel, OriginalFits, RowsOf, TheOriginal, AllUsed, HasShape, UniqueIds
<1>9. Imported'
  <2>1. \A c \in Nat \ {1}, u \in Tables : RowsOf(u, c)' = RowsOf(u, c)
    BY <1>1 DEF RowsOf
  <2>. QED
    BY <1>1, <1>8, <2>1, ImportStays
<1>. QED
  BY <1>6, <1>7, <1>8, <1>9

LEMMA ExportFits ==
    ASSUME ImportInv, Export
    PROVE  ImportInv'
<1>. USE DEF ImportInv
<1>1. reads = Len(Order) /\ UNCHANGED <<tables, nextId, dump, reads, touched, imported>>
  BY DEF Export
<1>2. TablesFit' /\ OneChannel' /\ OriginalFits'
  BY <1>1 DEF TablesFit, OneChannel, OriginalFits, RowsOf, TheOriginal, AllUsed, HasShape, UniqueIds
<1>3. DumpFits'
  BY <1>1 DEF DumpFits, RowsOf, TheOriginal, UniqueIds, HasShape
<1>4. Imported'
  <2>1. \A c \in Nat \ {1}, u \in Tables : RowsOf(u, c)' = RowsOf(u, c)
    BY <1>1 DEF RowsOf
  <2>. QED
    BY <1>1, <1>2, <2>1, ImportStays
<1>5. DocumentFits'
  <2>1. /\ assembleCommands' = assembleCommands /\ Written' = Written
        /\ \A c : MissingImplementation(c)' = MissingImplementation(c)
    BY <1>1 DEF assembleCommands, Written, Command, MissingImplementation, The
  <2>2. CASE document' = Failed
    BY <1>1, <2>2 DEF DocumentFits, Exported
  <2>3. CASE document' = Written /\ \A c \in assembleCommands : ~MissingImplementation(c)
    BY <1>1, <2>1, <2>3 DEF DocumentFits
  <2>. QED
    BY <2>2, <2>3 DEF Export, Written
<1>. QED
  BY <1>2, <1>3, <1>4, <1>5

LEMMA RefuseFits ==
    ASSUME ImportInv, NEW posted, Refuse(posted)
    PROVE  ImportInv'
<1>. USE DEF ImportInv
<1>1. UNCHANGED <<tables, dump, reads, touched, document, imported>>
  BY DEF Refuse
<1>2. nextId' \in [Tables -> Nat \ {0}] /\ \A t \in Tables : nextId'[t] >= nextId[t]
  <2>1. nextId \in [Tables -> Nat \ {0}] /\ "channels" \in Tables
    BY TableNames DEF TablesFit
  <2>2. nextId' = [nextId EXCEPT !["channels"] = @ + 1] \/ nextId' = nextId
    BY DEF Refuse
  <2>. QED
    BY <2>1, <2>2
<1>3. TablesFit'
  BY <1>1, <1>2, GrowFits DEF TablesFit
<1>4. OneChannel' /\ OriginalFits'
  BY <1>1 DEF OneChannel, OriginalFits, RowsOf, TheOriginal
<1>5. DumpFits'
  BY <1>1 DEF DumpFits, RowsOf, TheOriginal, UniqueIds, HasShape
<1>6. Imported'
  <2>1. \A c \in Nat \ {1}, u \in Tables : RowsOf(u, c)' = RowsOf(u, c)
    BY <1>1 DEF RowsOf
  <2>. QED
    BY <1>1, <1>3, <1>4, <2>1, ImportStays
<1>7. DocumentFits'
  BY <1>1, DocumentStays
<1>. QED
  BY <1>3, <1>4, <1>5, <1>6, <1>7

------------------------------------------------------------------------------
(* What an import inserts *)

(* The tables whose rows are parts of commands.                               *)
Held == {"infos", "customs", "lists", "repeats", "schedules"}

LEMMA PartNames ==
    /\ PartOf("infos") = "info" /\ PartOf("customs") = "custom" /\ PartOf("lists") = "list"
    /\ PartOf("repeats") = "repeat" /\ PartOf("schedules") = "schedule"
    /\ Tables = Held \union Entries \union {"channels"}
    /\ Held \intersect Entries = {} /\ "channels" \notin Held \union Entries
    /\ Timers \subseteq Held
BY TableNames DEF PartOf, Held, Entries, Timers

LEMMA RowsInAre ==
    ASSUME NEW config
    PROVE  /\ RowsIn(config, "channels") = {config.channel}
           /\ \A t \in Entries : RowsIn(config, t) = config.entries[t]
           /\ \A t \in Held : RowsIn(config, t) = {c[PartOf(t)] : c \in config.commands} \ {Nothing}
<1>1. RowsIn(config, "channels") = {config.channel}
  BY PartNames DEF RowsIn
<1>2. ASSUME NEW t \in Entries PROVE RowsIn(config, t) = config.entries[t]
  <2>1. t # "channels"
    BY PartNames
  <2>. QED
    BY <2>1 DEF RowsIn
<1>3. ASSUME NEW t \in Held
      PROVE  RowsIn(config, t) = {c[PartOf(t)] : c \in config.commands} \ {Nothing}
  <2>1. t # "channels" /\ t \notin Entries
    BY PartNames
  <2>. QED
    BY <2>1 DEF RowsIn
<1>. QED
  BY <1>1, <1>2, <1>3

LEMMA HeldFits ==
    ASSUME NEW config, ConfigFits(config), NEW t \in Held
    PROVE  /\ \A c \in config.commands :
                 c[PartOf(t)] = Nothing \/ (c[PartOf(t)] \in Rows /\ HasShape(t, c[PartOf(t)]))
           /\ \A c, d \in config.commands : SameRow(c[PartOf(t)], d[PartOf(t)])
<1>1. \A c \in config.commands :
         /\ HasShape("infos", c.info)
         /\ c.custom # Nothing => HasShape("customs", c.custom)
         /\ c.list # Nothing => HasShape("lists", c.list)
         /\ c.repeat # Nothing => HasShape("repeats", c.repeat)
         /\ c.schedule # Nothing => HasShape("schedules", c.schedule)
  BY DEF ConfigFits, CommandFits
<1>2. \A c, d \in config.commands :
         /\ SameRow(c.info, d.info) /\ SameRow(c.custom, d.custom) /\ SameRow(c.list, d.list)
         /\ SameRow(c.repeat, d.repeat) /\ SameRow(c.schedule, d.schedule)
  BY DEF ConfigFits, SameRow
<1>3. CASE t = "infos"
  BY <1>1, <1>2, <1>3, PartNames DEF HasShape
<1>4. CASE t = "customs"
  BY <1>1, <1>2, <1>4, PartNames DEF HasShape
<1>5. CASE t = "lists"
  BY <1>1, <1>2, <1>5, PartNames DEF HasShape
<1>6. CASE t = "repeats"
  BY <1>1, <1>2, <1>6, PartNames DEF HasShape
<1>7. CASE t = "schedules"
  BY <1>1, <1>2, <1>7, PartNames DEF HasShape
<1>. QED
  BY <1>3, <1>4, <1>5, <1>6, <1>7 DEF Held

LEMMA RowsInFit ==
    ASSUME NEW config, ConfigFits(config), NEW t \in Tables
    PROVE  /\ IsFiniteSet(RowsIn(config, t)) /\ UniqueIds(RowsIn(config, t))
           /\ \A r \in RowsIn(config, t) : HasShape(t, r) /\ r \in Rows /\ r # Nothing
<1>1. CASE t = "channels"
  <2>1. RowsIn(config, t) = {config.channel} /\ HasShape("channels", config.channel)
    BY <1>1, RowsInAre DEF ConfigFits
  <2>2. IsFiniteSet({config.channel})
    BY FS_Singleton
  <2>. QED
    BY <1>1, <2>1, <2>2, ConfigAssumption DEF UniqueIds, HasShape
<1>2. CASE t \in Entries
  BY <1>2, RowsInAre, ConfigAssumption DEF ConfigFits, HasShape
<1>3. CASE t \in Held
  <2>. DEFINE S == config.commands
              f == [c \in S |-> c[PartOf(t)]]
  <2>1. DOMAIN f = S /\ \A c \in S : f[c] = c[PartOf(t)]
    OBVIOUS
  <2>2. RowsIn(config, t) = {c[PartOf(t)] : c \in S} \ {Nothing}
    BY <1>3, RowsInAre
  <2>3. IsFiniteSet(S)
    BY DEF ConfigFits
  <2>4. /\ \A c \in S : c[PartOf(t)] = Nothing \/ (c[PartOf(t)] \in Rows /\ HasShape(t, c[PartOf(t)]))
        /\ \A c, d \in S : SameRow(c[PartOf(t)], d[PartOf(t)])
    BY <1>3, HeldFits
  <2>. HIDE DEF S, f
  <2>5. IsFiniteSet({f[c] : c \in S})
    BY <2>1, <2>3, ImageIsFinite
  <2>6. {f[c] : c \in S} = {c[PartOf(t)] : c \in S}
    BY <2>1
  <2>7. IsFiniteSet(RowsIn(config, t))
    BY <2>2, <2>5, <2>6, FS_Subset
  <2>8. UniqueIds(RowsIn(config, t))
    BY <2>2, <2>4 DEF UniqueIds, SameRow
  <2>. QED
    BY <2>2, <2>4, <2>7, <2>8
<1>. QED
  BY <1>1, <1>2, <1>3, PartNames

(* The IDs that an import gives are new, and one for each row.                *)
LEMMA NewIdsDiffer ==
    ASSUME TablesFit, NEW config, ConfigFits(config), NEW t \in Tables
    PROVE  /\ nextId[t] \in Nat /\ Cardinality(RowsIn(config, t)) \in Nat
           /\ \A r \in RowsIn(config, t) :
                 /\ NewId(config, t, r) \in Nat /\ nextId[t] <= NewId(config, t, r)
                 /\ NewId(config, t, r) < nextId[t] + Cardinality(RowsIn(config, t))
           /\ \A r, q \in RowsIn(config, t) : NewId(config, t, r) = NewId(config, t, q) => r = q
<1>. DEFINE S == RowsIn(config, t)
            Lower(r) == Cardinality({q \in S : q.id < r.id})
<1>1. S \subseteq Rows /\ IsFiniteSet(S) /\ UniqueIds(S)
  BY RowsInFit
<1>2. /\ Cardinality(S) \in Nat
      /\ \A a \in S : Lower(a) \in Nat /\ Lower(a) < Cardinality(S)
      /\ \A a, b \in S : Lower(a) = Lower(b) => a = b
  BY <1>1, RanksDiffer
<1>3. \A r \in S : NewId(config, t, r) = nextId[t] + Lower(r)
  BY DEF NewId
<1>4. nextId[t] \in Nat
  BY DEF TablesFit
<1>. HIDE DEF Lower, S
<1>5. \A r \in S : /\ NewId(config, t, r) \in Nat /\ nextId[t] <= NewId(config, t, r)
                   /\ NewId(config, t, r) < nextId[t] + Cardinality(S)
  BY <1>2, <1>3, <1>4
<1>6. \A r, q \in S : NewId(config, t, r) = NewId(config, t, q) => r = q
  BY <1>2, <1>3, <1>4
<1>. QED
  BY <1>2, <1>4, <1>5, <1>6 DEF S

(* An entry and a timer are part of one command only.                         *)
LEMMA WholeIs ==
    ASSUME NEW config, ConfigFits(config), NEW c \in config.commands, NEW row,
           row # Nothing, row = c.info \/ row = c.repeat \/ row = c.schedule
    PROVE  CommandOf(config, row) = c
<1>1. \A d \in config.commands : CommandFits(d)
  BY DEF ConfigFits
<1>2. \A d \in config.commands : DOMAIN d = Parts
  BY <1>1 DEF CommandFits, Parts
<1>3. row \in {c[part] : part \in DOMAIN c}
  BY <1>2 DEF Parts
<1>4. ASSUME NEW d \in config.commands, row \in {d[part] : part \in DOMAIN d} PROVE d = c
  <2>1. row \in {d.info, d.custom, d.list, d.repeat, d.schedule}
    BY <1>2, <1>4 DEF Parts
  <2>2. CommandFits(c) /\ CommandFits(d) /\ (d.info.id = c.info.id => d = c)
    BY <1>1 DEF ConfigFits
  <2>3. CASE row = c.info
    <3>1. (row.custom = 0) # (row.list = 0) /\ row.info = 0
      BY <2>2, <2>3 DEF CommandFits, HasShape, Timers
    <3>2. row \notin {d.custom, d.list, d.repeat, d.schedule}
      BY <2>2, <3>1 DEF CommandFits, HasShape, Timers
    <3>. QED
      BY <2>1, <2>2, <2>3, <3>2
  <2>4. CASE row = c.repeat \/ row = c.schedule
    <3>1. row.info # 0 /\ row.info = c.info.id
      BY <2>2, <2>4 DEF CommandFits, HasShape, Timers
    <3>2. row \notin {d.info, d.custom, d.list}
      BY <2>2, <3>1 DEF CommandFits, HasShape, Timers
    <3>3. row.info = d.info.id
      BY <2>1, <2>2, <3>2 DEF CommandFits
    <3>. QED
      BY <2>2, <3>1, <3>3
  <2>. QED
    BY <2>3, <2>4
<1>. QED
  BY <1>3, <1>4 DEF CommandOf

LEMMA InsertedRow ==
    ASSUME NEW config, NEW t, NEW r, NEW q, q = insertImported(config, t, r)
    PROVE  /\ q.id = NewId(config, t, r)
           /\ q.channel = (IF t = "channels" THEN 0 ELSE nextId["channels"])
           /\ q.key = r.key /\ q.value = r.value
           /\ t # "infos" => q.custom = 0 /\ q.list = 0
           /\ t \notin Timers => q.info = 0
           /\ q = Row(q.id, q.channel, q.key, q.value, q.custom, q.list, q.info)
BY DEF insertImported, Row

LEMMA InsertedEntry ==
    ASSUME NEW config, ConfigFits(config), NEW c \in config.commands,
           NEW q, q = insertImported(config, "infos", c.info)
    PROVE  /\ q.custom = (IF c.custom = Nothing THEN 0 ELSE NewId(config, "customs", c.custom))
           /\ q.list = (IF c.list = Nothing THEN 0 ELSE NewId(config, "lists", c.list))
<1>1. c.info # Nothing
  BY ConfigAssumption DEF ConfigFits, CommandFits
<1>2. CommandOf(config, c.info) = c
  BY <1>1, WholeIs
<1>. QED
  BY <1>2 DEF insertImported, Row

LEMMA InsertedTimer ==
    ASSUME NEW config, ConfigFits(config), NEW c \in config.commands, NEW t \in Timers,
           c[PartOf(t)] # Nothing, NEW q, q = insertImported(config, t, c[PartOf(t)])
    PROVE  q.info = NewId(config, "infos", c.info)
<1>1. c[PartOf(t)] = c.repeat \/ c[PartOf(t)] = c.schedule
  BY PartNames DEF Timers
<1>2. CommandOf(config, c[PartOf(t)]) = c
  BY <1>1, WholeIs
<1>. QED
  BY <1>2 DEF insertImported, Row, CommandInfoID

NewRows(config, t) == {insertImported(config, t, r) : r \in RowsIn(config, t)}

Whole(config) == \A c \in config.commands : (c.custom = Nothing) # (c.list = Nothing)

(* What a new row refers to is new.                                           *)
NewRefs(config, t, q) ==
    /\ nextId[t] <= q.id /\ q.id < nextId[t] + Cardinality(RowsIn(config, t))
    /\ q.custom # 0 => /\ nextId["customs"] <= q.custom
                       /\ q.custom < nextId["customs"] + Cardinality(RowsIn(config, "customs"))
    /\ q.list # 0 => /\ nextId["lists"] <= q.list
                     /\ q.list < nextId["lists"] + Cardinality(RowsIn(config, "lists"))
    /\ q.info # 0 => /\ nextId["infos"] <= q.info
                     /\ q.info < nextId["infos"] + Cardinality(RowsIn(config, "infos"))

LEMMA PartIsIn ==
    ASSUME NEW config, ConfigFits(config), NEW t \in Held, NEW c \in config.commands,
           c[PartOf(t)] # Nothing
    PROVE  c[PartOf(t)] \in RowsIn(config, t)
BY RowsInAre

LEMMA PartsAreIn ==
    ASSUME NEW config, ConfigFits(config), NEW c \in config.commands
    PROVE  /\ c.info \in RowsIn(config, "infos")
           /\ c.custom # Nothing => c.custom \in RowsIn(config, "customs")
           /\ c.list # Nothing => c.list \in RowsIn(config, "lists")
           /\ c.repeat # Nothing => c.repeat \in RowsIn(config, "repeats")
           /\ c.schedule # Nothing => c.schedule \in RowsIn(config, "schedules")
<1>1. c.info # Nothing
  BY ConfigAssumption DEF ConfigFits, CommandFits
<1>2. \A t \in Held : c[PartOf(t)] # Nothing => c[PartOf(t)] \in RowsIn(config, t)
  BY PartIsIn
<1>. QED
  BY <1>1, <1>2, PartNames DEF Held

LEMMA OfACommand ==
    ASSUME NEW config, ConfigFits(config), NEW t \in Held, NEW r \in RowsIn(config, t)
    PROVE  \E c \in config.commands : r = c[PartOf(t)] /\ r # Nothing
BY RowsInAre

LEMMA NewRowFits ==
    ASSUME TablesFit, NEW config, ConfigFits(config), Whole(config), NEW t \in Tables,
           NEW r \in RowsIn(config, t), NEW q, q = insertImported(config, t, r)
    PROVE  /\ HasShape(t, q) /\ q \in Rows /\ q # Nothing /\ NewRefs(config, t, q)
           /\ q.id = NewId(config, t, r)
           /\ q.channel = (IF t = "channels" THEN 0 ELSE nextId["channels"])
           /\ q.key = r.key /\ q.value = r.value
<1>1. /\ q.id = NewId(config, t, r)
      /\ q.channel = (IF t = "channels" THEN 0 ELSE nextId["channels"])
      /\ q.key = r.key /\ q.value = r.value
      /\ t # "infos" => q.custom = 0 /\ q.list = 0
      /\ t \notin Timers => q.info = 0
      /\ q = Row(q.id, q.channel, q.key, q.value, q.custom, q.list, q.info)
  BY InsertedRow
<1>2. \A u \in Tables : nextId[u] \in Nat /\ nextId[u] # 0
  BY DEF TablesFit
<1>3. q.id \in Nat /\ nextId[t] <= q.id /\ q.id < nextId[t] + Cardinality(RowsIn(config, t)) /\ q.id # 0
  BY <1>1, <1>2, NewIdsDiffer
<1>4. q.channel \in Nat
  BY <1>1, <1>2, TableNames
<1>5. r \in Rows
  BY RowsInFit
<1>6. t = "infos" =>
         /\ q.custom \in Nat /\ q.list \in Nat /\ (q.custom = 0) # (q.list = 0)
         /\ q.custom # 0 => /\ nextId["customs"] <= q.custom
                            /\ q.custom < nextId["customs"] + Cardinality(RowsIn(config, "customs"))
         /\ q.list # 0 => /\ nextId["lists"] <= q.list
                          /\ q.list < nextId["lists"] + Cardinality(RowsIn(config, "lists"))
  <2>. SUFFICES ASSUME t = "infos"
                PROVE  /\ q.custom \in Nat /\ q.list \in Nat /\ (q.custom = 0) # (q.list = 0)
                       /\ q.custom # 0 =>
                             /\ nextId["customs"] <= q.custom
                             /\ q.custom < nextId["customs"] + Cardinality(RowsIn(config, "customs"))
                       /\ q.list # 0 =>
                             /\ nextId["lists"] <= q.list
                             /\ q.list < nextId["lists"] + Cardinality(RowsIn(config, "lists"))
    OBVIOUS
  <2>1. PICK c \in config.commands : r = c.info
    BY OfACommand, PartNames DEF Held
  <2>2. /\ q.custom = (IF c.custom = Nothing THEN 0 ELSE NewId(config, "customs", c.custom))
        /\ q.list = (IF c.list = Nothing THEN 0 ELSE NewId(config, "lists", c.list))
    BY <2>1, InsertedEntry
  <2>3. c.custom # Nothing =>
           /\ NewId(config, "customs", c.custom) \in Nat
           /\ nextId["customs"] <= NewId(config, "customs", c.custom)
           /\ NewId(config, "customs", c.custom) < nextId["customs"] + Cardinality(RowsIn(config, "customs"))
    BY PartsAreIn, NewIdsDiffer, TableNames
  <2>4. c.list # Nothing =>
           /\ NewId(config, "lists", c.list) \in Nat
           /\ nextId["lists"] <= NewId(config, "lists", c.list)
           /\ NewId(config, "lists", c.list) < nextId["lists"] + Cardinality(RowsIn(config, "lists"))
    BY PartsAreIn, NewIdsDiffer, TableNames
  <2>5. (c.custom = Nothing) # (c.list = Nothing)
    BY DEF Whole
  <2>6. /\ nextId["customs"] \in Nat /\ nextId["customs"] # 0
        /\ nextId["lists"] \in Nat /\ nextId["lists"] # 0
    BY <1>2, TableNames
  <2>. QED
    BY <2>2, <2>3, <2>4, <2>5, <2>6
<1>7. t \in Timers =>
         /\ q.info \in Nat /\ q.info # 0 /\ nextId["infos"] <= q.info
         /\ q.info < nextId["infos"] + Cardinality(RowsIn(config, "infos"))
  <2>. SUFFICES ASSUME t \in Timers
                PROVE  /\ q.info \in Nat /\ q.info # 0 /\ nextId["infos"] <= q.info
                       /\ q.info < nextId["infos"] + Cardinality(RowsIn(config, "infos"))
    OBVIOUS
  <2>1. PICK c \in config.commands : r = c[PartOf(t)] /\ r # Nothing
    BY OfACommand, PartNames
  <2>2. q.info = NewId(config, "infos", c.info)
    BY <2>1, InsertedTimer
  <2>3. c.info \in RowsIn(config, "infos") /\ "infos" \in Tables
    BY PartsAreIn, TableNames
  <2>4. nextId["infos"] \in Nat /\ nextId["infos"] # 0
    BY <1>2, <2>3
  <2>. QED
    BY <2>2, <2>3, <2>4, NewIdsDiffer
<1>8. "infos" \notin Timers
  BY DEF Timers
<1>9. q.custom \in Nat /\ q.list \in Nat /\ q.info \in Nat
  BY <1>1, <1>6, <1>7
<1>10. q \in Rows
  <2>1. q.key \in {Original, Copy} \union CommandNames \union Nat
        /\ q.value \in Values \union {DefaultValue, Missing}
    BY <1>1, <1>5 DEF Rows
  <2>. QED
    BY <1>1, <1>3, <1>4, <1>9, <2>1 DEF Row, Rows
<1>11. HasShape(t, q)
  BY <1>1, <1>3, <1>6, <1>7, <1>10 DEF HasShape
<1>12. NewRefs(config, t, q)
  <2>1. CASE t = "infos"
    BY <1>1, <1>3, <1>6, <1>8, <2>1 DEF NewRefs
  <2>2. CASE t \in Timers
    BY <1>1, <1>3, <1>7, <1>8, <2>2 DEF NewRefs
  <2>3. CASE t # "infos" /\ t \notin Timers
    BY <1>1, <1>3, <2>3 DEF NewRefs
  <2>. QED
    BY <2>1, <2>2, <2>3
<1>. QED
  BY <1>1, <1>10, <1>11, <1>12, ConfigAssumption

LEMMA NewRowsFit ==
    ASSUME TablesFit, NEW config, ConfigFits(config), Whole(config), NEW t \in Tables
    PROVE  /\ IsFiniteSet(NewRows(config, t)) /\ UniqueIds(NewRows(config, t))
           /\ \A q \in NewRows(config, t) :
                 /\ HasShape(t, q) /\ q \in Rows /\ q # Nothing /\ NewRefs(config, t, q)
                 /\ q.channel = (IF t = "channels" THEN 0 ELSE nextId["channels"])
<1>. DEFINE S == RowsIn(config, t)
            f == [r \in S |-> insertImported(config, t, r)]
<1>1. DOMAIN f = S /\ \A r \in S : f[r] = insertImported(config, t, r)
  OBVIOUS
<1>. HIDE DEF f, S
<1>2. NewRows(config, t) = {f[r] : r \in S}
  BY <1>1 DEF NewRows, S
<1>3. IsFiniteSet({f[r] : r \in S})
  BY <1>1, RowsInFit, ImageIsFinite DEF S
<1>4. ASSUME NEW r \in S
      PROVE  /\ HasShape(t, f[r]) /\ f[r] \in Rows /\ f[r] # Nothing /\ NewRefs(config, t, f[r])
             /\ f[r].id = NewId(config, t, r)
             /\ f[r].channel = (IF t = "channels" THEN 0 ELSE nextId["channels"])
  BY <1>1, NewRowFits DEF S
<1>5. \A r, q \in S : NewId(config, t, r) = NewId(config, t, q) => r = q
  BY NewIdsDiffer DEF S
<1>6. UniqueIds({f[r] : r \in S})
  BY <1>4, <1>5 DEF UniqueIds
<1>. QED
  BY <1>2, <1>3, <1>4, <1>6

(* A new row is found by the ID that its row in the document was given.       *)
LEMMA ByNewId ==
    ASSUME TablesFit, NEW config, ConfigFits(config), Whole(config), NEW t \in Tables,
           NEW r \in RowsIn(config, t)
    PROVE  {q \in NewRows(config, t) : q.id = NewId(config, t, r)} = {insertImported(config, t, r)}
<1>1. \A p \in RowsIn(config, t) : insertImported(config, t, p).id = NewId(config, t, p)
  BY NewRowFits
<1>2. \A p \in RowsIn(config, t) : NewId(config, t, p) = NewId(config, t, r) => p = r
  BY NewIdsDiffer
<1>3. insertImported(config, t, r) \in NewRows(config, t)
  BY DEF NewRows
<1>4. ASSUME NEW q \in NewRows(config, t), q.id = NewId(config, t, r)
      PROVE  q = insertImported(config, t, r)
  <2>1. PICK p \in RowsIn(config, t) : q = insertImported(config, t, p)
    BY DEF NewRows
  <2>. QED
    BY <1>1, <1>2, <1>4, <2>1
<1>. QED
  BY <1>1, <1>3, <1>4

LEMMA ByNewInfo ==
    ASSUME TablesFit, NEW config, ConfigFits(config), Whole(config), NEW t \in Timers,
           NEW c \in config.commands
    PROVE  {q \in NewRows(config, t) : q.info = NewId(config, "infos", c.info)}
              = IF c[PartOf(t)] = Nothing THEN {} ELSE {insertImported(config, t, c[PartOf(t)])}
<1>1. t \in Held /\ t \in Tables
  BY PartNames
<1>2. \A d \in config.commands : NewId(config, "infos", d.info) = NewId(config, "infos", c.info) => d = c
  BY PartsAreIn, NewIdsDiffer, TableNames DEF ConfigFits
<1>3. ASSUME NEW q \in NewRows(config, t), q.info = NewId(config, "infos", c.info)
      PROVE  c[PartOf(t)] # Nothing /\ q = insertImported(config, t, c[PartOf(t)])
  <2>1. PICK r \in RowsIn(config, t) : q = insertImported(config, t, r)
    BY DEF NewRows
  <2>2. PICK d \in config.commands : r = d[PartOf(t)] /\ r # Nothing
    BY <1>1, OfACommand
  <2>3. q.info = NewId(config, "infos", d.info)
    BY <2>1, <2>2, InsertedTimer
  <2>4. d = c
    BY <1>2, <1>3, <2>3
  <2>. QED
    BY <2>1, <2>2, <2>4
<1>4. ASSUME c[PartOf(t)] # Nothing
      PROVE  /\ insertImported(config, t, c[PartOf(t)]) \in NewRows(config, t)
             /\ insertImported(config, t, c[PartOf(t)]).info = NewId(config, "infos", c.info)
  <2>1. c[PartOf(t)] \in RowsIn(config, t)
    BY <1>1, <1>4, PartIsIn
  <2>2. insertImported(config, t, c[PartOf(t)]).info = NewId(config, "infos", c.info)
    BY <1>4, InsertedTimer
  <2>. QED
    BY <2>1, <2>2 DEF NewRows
<1>. QED
  BY <1>3, <1>4

LEMMA TheSingle ==
    ASSUME NEW x
    PROVE  The({x}) = x /\ The({}) = Nothing
BY DEF The

LEMMA SaysKept ==
    ASSUME TablesFit, NEW config, ConfigFits(config), Whole(config), NEW t \in Tables,
           NEW r \in RowsIn(config, t)
    PROVE  Says(insertImported(config, t, r)) = Says(r)
<1>1. PICK q : q = insertImported(config, t, r)
  OBVIOUS
<1>2. q # Nothing /\ q.key = r.key /\ q.value = r.value
  BY <1>1, NewRowFits
<1>3. r # Nothing
  BY RowsInFit
<1>. QED
  BY <1>1, <1>2, <1>3 DEF Says

LEMMA ImplementationKept ==
    ASSUME TablesFit, NEW config, ConfigFits(config), Whole(config),
           NEW t \in {"customs", "lists"}, NEW c \in config.commands, NEW ref,
           ref = (IF c[PartOf(t)] = Nothing THEN 0 ELSE NewId(config, t, c[PartOf(t)]))
    PROVE  Says(The({q \in NewRows(config, t) : q.id = ref})) = Says(c[PartOf(t)])
<1>1. t \in Held /\ t \in Tables
  BY PartNames DEF Held
<1>2. CASE c[PartOf(t)] = Nothing
  <2>1. \A q \in NewRows(config, t) : q.id # 0
    BY <1>1, NewRowsFit DEF HasShape
  <2>2. {q \in NewRows(config, t) : q.id = ref} = {}
    BY <1>2, <2>1
  <2>. QED
    BY <1>2, <2>2, TheSingle
<1>3. CASE c[PartOf(t)] # Nothing
  <2>1. c[PartOf(t)] \in RowsIn(config, t)
    BY <1>1, <1>3, PartIsIn
  <2>2. {q \in NewRows(config, t) : q.id = ref} = {insertImported(config, t, c[PartOf(t)])}
    BY <1>1, <1>3, <2>1, ByNewId
  <2>3. The({q \in NewRows(config, t) : q.id = ref}) = insertImported(config, t, c[PartOf(t)])
    BY <2>2, TheSingle
  <2>. QED
    BY <1>1, <2>1, <2>3, SaysKept
<1>. QED
  BY <1>2, <1>3

LEMMA TimerKept ==
    ASSUME TablesFit, NEW config, ConfigFits(config), Whole(config), NEW t \in Timers,
           NEW c \in config.commands
    PROVE  Says(The({q \in NewRows(config, t) : q.info = NewId(config, "infos", c.info)}))
              = Says(c[PartOf(t)])
<1>1. t \in Held /\ t \in Tables
  BY PartNames
<1>2. CASE c[PartOf(t)] = Nothing
  BY <1>2, ByNewInfo, TheSingle
<1>3. CASE c[PartOf(t)] # Nothing
  <2>1. c[PartOf(t)] \in RowsIn(config, t)
    BY <1>1, <1>3, PartIsIn
  <2>2. {q \in NewRows(config, t) : q.info = NewId(config, "infos", c.info)}
           = {insertImported(config, t, c[PartOf(t)])}
    BY <1>3, ByNewInfo
  <2>3. The({q \in NewRows(config, t) : q.info = NewId(config, "infos", c.info)})
           = insertImported(config, t, c[PartOf(t)])
    BY <2>2, TheSingle
  <2>. QED
    BY <1>1, <2>1, <2>3, SaysKept
<1>. QED
  BY <1>2, <1>3

Told(c) == [part \in DOMAIN c |-> Says(c[part])]

LEMMA CommandKept ==
    ASSUME TablesFit, NEW config, ConfigFits(config), Whole(config), NEW c \in config.commands,
           NEW of, of = [t \in Tables |-> NewRows(config, t)]
    PROVE  Told(Part(of, insertImported(config, "infos", c.info))) = Told(c)
<1>1. PICK i : i = insertImported(config, "infos", c.info)
  OBVIOUS
<1>2. PICK d : d = Part(of, i)
  OBVIOUS
<1>3. /\ c.info \in RowsIn(config, "infos") /\ "infos" \in Tables
      /\ i.id = NewId(config, "infos", c.info) /\ Says(i) = Says(c.info)
  BY <1>1, PartsAreIn, NewRowFits, SaysKept, TableNames
<1>4. /\ i.custom = (IF c.custom = Nothing THEN 0 ELSE NewId(config, "customs", c.custom))
      /\ i.list = (IF c.list = Nothing THEN 0 ELSE NewId(config, "lists", c.list))
  BY <1>1, InsertedEntry
<1>5. /\ of["customs"] = NewRows(config, "customs") /\ of["lists"] = NewRows(config, "lists")
      /\ of["repeats"] = NewRows(config, "repeats") /\ of["schedules"] = NewRows(config, "schedules")
  BY TableNames
<1>6. /\ d.info = i
      /\ d.custom = The({r \in NewRows(config, "customs") : r.id = i.custom})
      /\ d.list = The({r \in NewRows(config, "lists") : r.id = i.list})
      /\ d.repeat = The({r \in NewRows(config, "repeats") : r.info = i.id})
      /\ d.schedule = The({r \in NewRows(config, "schedules") : r.info = i.id})
      /\ DOMAIN d = Parts
  BY <1>2, <1>5 DEF Part, Parts
<1>7. Says(d.custom) = Says(c.custom)
  BY <1>4, <1>6, ImplementationKept, PartNames
<1>8. Says(d.list) = Says(c.list)
  BY <1>4, <1>6, ImplementationKept, PartNames
<1>9. Says(d.repeat) = Says(c.repeat)
  BY <1>3, <1>6, TimerKept, PartNames DEF Timers
<1>10. Says(d.schedule) = Says(c.schedule)
  BY <1>3, <1>6, TimerKept, PartNames DEF Timers
<1>11. DOMAIN c = Parts
  BY DEF ConfigFits, CommandFits, Parts
<1>12. \A part \in Parts : Says(d[part]) = Says(c[part])
  BY <1>3, <1>6, <1>7, <1>8, <1>9, <1>10 DEF Parts
<1>13. [part \in Parts |-> Says(d[part])] = [part \in Parts |-> Says(c[part])]
  BY <1>12
<1>. QED
  BY <1>1, <1>2, <1>6, <1>11, <1>13 DEF Told

(* What is inserted says what the document says.                              *)
LEMMA MeaningKept ==
    ASSUME TablesFit, NEW config, ConfigFits(config), Whole(config),
           NEW of, of = [t \in Tables |-> NewRows(config, t)]
    PROVE  Meaning(Assembled(of)) = Meaning(config)
<1>1. PICK a : a = Assembled(of)
  OBVIOUS
<1>2. /\ a.channel = The(of["channels"])
      /\ a.commands = {Part(of, i) : i \in of["infos"]}
      /\ a.entries = [t \in Entries |-> of[t]]
  BY <1>1 DEF Assembled
<1>3. a.channel.value = config.channel.value
  <2>1. RowsIn(config, "channels") = {config.channel} /\ "channels" \in Tables
    BY RowsInAre, TableNames
  <2>2. of["channels"] = {insertImported(config, "channels", config.channel)}
    BY <2>1 DEF NewRows
  <2>3. a.channel = insertImported(config, "channels", config.channel)
    BY <1>2, <2>2, TheSingle
  <2>. QED
    BY <2>1, <2>3, NewRowFits
<1>4. ASSUME NEW t \in Entries PROVE {Says(r) : r \in a.entries[t]} = {Says(r) : r \in config.entries[t]}
  <2>1. t \in Tables /\ RowsIn(config, t) = config.entries[t]
    BY RowsInAre, PartNames
  <2>2. a.entries[t] = {insertImported(config, t, r) : r \in config.entries[t]}
    BY <1>2, <2>1 DEF NewRows
  <2>3. \A r \in config.entries[t] : Says(insertImported(config, t, r)) = Says(r)
    BY <2>1, SaysKept
  <2>. QED
    BY <2>2, <2>3
<1>5. {Told(d) : d \in a.commands} = {Told(c) : c \in config.commands}
  <2>1. of["infos"] = {insertImported(config, "infos", r) : r \in RowsIn(config, "infos")}
    BY TableNames DEF NewRows
  <2>2. RowsIn(config, "infos") = {c.info : c \in config.commands}
    <3>1. RowsIn(config, "infos") = {c[PartOf("infos")] : c \in config.commands} \ {Nothing}
      BY RowsInAre DEF Held
    <3>2. PartOf("infos") = "info" /\ \A c \in config.commands : c.info # Nothing
      BY PartNames, ConfigAssumption DEF ConfigFits, CommandFits
    <3>. QED
      BY <3>1, <3>2
  <2>3. a.commands = {Part(of, insertImported(config, "infos", c.info)) : c \in config.commands}
    BY <1>2, <2>1, <2>2
  <2>4. \A c \in config.commands : Told(Part(of, insertImported(config, "infos", c.info))) = Told(c)
    BY CommandKept
  <2>. DEFINE New(c) == Part(of, insertImported(config, "infos", c.info))
  <2>5. a.commands = {New(c) : c \in config.commands} /\ \A c \in config.commands : Told(New(c)) = Told(c)
    BY <2>3, <2>4
  <2>. HIDE DEF New
  <2>6. ASSUME NEW x PROVE (\E d \in a.commands : x = Told(d)) <=> (\E c \in config.commands : x = Told(c))
    BY <2>5
  <2>. QED
    BY <2>6
<1>6. \A x : Meaning(x) = [channel |-> x.channel.value, commands |-> {Told(c) : c \in x.commands},
                           entries |-> [t \in Entries |-> {Says(r) : r \in x.entries[t]}]]
  BY DEF Meaning, Told
<1>7. [t \in Entries |-> {Says(r) : r \in a.entries[t]}] = [t \in Entries |-> {Says(r) : r \in config.entries[t]}]
  BY <1>4
<1>. QED
  BY <1>1, <1>3, <1>5, <1>6, <1>7

LEMMA PostedWhole ==
    ASSUME NEW posted, ConfigFits(posted), validate(posted),
           NEW config, config = applyImportDefaults(posted)
    PROVE  Whole(config) /\ config.channel.key = posted.channel.key
<1>1. config.commands = {FilledCommand(c) : c \in posted.commands} /\ config.channel = Filled(posted.channel)
  BY DEF applyImportDefaults, FilledCommand
<1>2. ASSUME NEW d \in config.commands PROVE (d.custom = Nothing) # (d.list = Nothing)
  <2>1. PICK c \in posted.commands : d = FilledCommand(c)
    BY <1>1
  <2>2. CommandFits(c) /\ (c.custom = Nothing) # (c.list = Nothing)
    BY DEF ConfigFits, validate
  <2>3. d.custom = Filled(c.custom) /\ d.list = Filled(c.list)
    BY <2>1, <2>2, FilledCommandFits DEF Parts
  <2>4. c.custom \in Optional /\ c.list \in Optional
    BY <2>2 DEF CommandFits
  <2>. QED
    BY <2>2, <2>3, <2>4, FilledRow
<1>3. posted.channel \in Optional /\ posted.channel # Nothing
  BY ConfigAssumption DEF ConfigFits, HasShape, Optional
<1>. QED
  BY <1>1, <1>2, <1>3, FilledRow DEF Whole

(* An import as another channel, whose rows are new.                          *)
Imports(config) ==
    /\ ConfigFits(config) /\ Whole(config)
    /\ config.channel.key = Copy /\ Original # Copy /\ Home(Copy) = {}
    /\ DOMAIN tables' = Tables /\ \A t \in Tables : tables'[t] = tables[t] \union NewRows(config, t)
    /\ nextId' \in [Tables -> Nat \ {0}]
    /\ \A t \in Tables : nextId'[t] = nextId[t] + Cardinality(RowsIn(config, t))
    /\ UNCHANGED <<dump, reads, touched, document>>

LEMMA InsertImports ==
    ASSUME ImportInv, NEW posted \in Documents, Insert(posted)
    PROVE  Imports(applyImportDefaults(posted)) /\ imported' = posted
<1>. USE DEF ImportInv
<1>1. PICK config : config = applyImportDefaults(posted)
  OBVIOUS
<1>2. ConfigFits(posted) /\ posted.channel.key \in {Original, Copy}
  BY PostedFits
<1>3. /\ validate(posted) /\ Home(config.channel.key) = {}
      /\ tables' = [t \in Tables |-> tables[t] \union {insertImported(config, t, r) : r \in RowsIn(config, t)}]
      /\ nextId' = [t \in Tables |-> nextId[t] + Cardinality(RowsIn(config, t))]
      /\ imported' = posted /\ UNCHANGED <<dump, reads, touched, document>>
  BY <1>1 DEF Insert
<1>4. ConfigFits(config) /\ Whole(config) /\ config.channel.key = posted.channel.key
  BY <1>1, <1>2, <1>3, FilledFits, PostedWhole
<1>5. config.channel.key = Copy /\ Original # Copy
  <2>1. TheOriginal \in Home(Original)
    BY DEF OriginalFits, RowsOf, Home, TheOriginal, Row
  <2>. QED
    BY <1>2, <1>3, <1>4, <2>1
<1>6. DOMAIN tables' = Tables /\ \A t \in Tables : tables'[t] = tables[t] \union NewRows(config, t)
  BY <1>3 DEF NewRows
<1>7. ASSUME NEW t \in Tables
      PROVE  /\ nextId'[t] = nextId[t] + Cardinality(RowsIn(config, t))
             /\ nextId[t] + Cardinality(RowsIn(config, t)) \in Nat \ {0}
  <2>1. nextId[t] \in Nat \ {0} /\ Cardinality(RowsIn(config, t)) \in Nat
    BY <1>4, NewIdsDiffer DEF TablesFit
  <2>2. nextId[t] + Cardinality(RowsIn(config, t)) \in Nat \ {0}
    BY <2>1
  <2>. QED
    BY <1>3, <2>2
<1>8. nextId' \in [Tables -> Nat \ {0}]
  BY <1>3, <1>7
<1>. QED
  BY <1>1, <1>3, <1>4, <1>5, <1>6, <1>7, <1>8 DEF Imports

LEMMA OldNumbers ==
    ASSUME TablesFit, NEW t \in Tables, NEW r \in tables[t]
    PROVE  /\ r.id \in Nat /\ r.id # 0 /\ r.id < nextId[t] /\ r.custom \in Nat /\ r.custom < nextId["customs"]
           /\ r.list \in Nat /\ r.list < nextId["lists"] /\ r.info \in Nat /\ r.info < nextId["infos"]
           /\ r.channel \in Nat /\ r.channel < nextId["channels"]
<1>1. HasShape(t, r) /\ AllUsed(t, r)
  BY DEF TablesFit
<1>2. nextId["channels"] \in Nat \ {0}
  BY TableNames DEF TablesFit
<1>. QED
  BY <1>1, <1>2 DEF HasShape, AllUsed, Rows

LEMMA NewNumbers ==
    ASSUME TablesFit, NEW config, ConfigFits(config), Whole(config), NEW t \in Tables,
           NEW q \in NewRows(config, t)
    PROVE  /\ q.id \in Nat /\ nextId[t] <= q.id /\ q.id < nextId[t] + Cardinality(RowsIn(config, t))
           /\ q.channel = (IF t = "channels" THEN 0 ELSE nextId["channels"])
           /\ q.custom \in Nat /\ q.list \in Nat /\ q.info \in Nat /\ q # Nothing
           /\ HasShape(t, q) /\ NewRefs(config, t, q)
<1>1. /\ HasShape(t, q) /\ q \in Rows /\ q # Nothing /\ NewRefs(config, t, q)
      /\ q.channel = (IF t = "channels" THEN 0 ELSE nextId["channels"])
  BY NewRowsFit
<1>. QED
  BY <1>1 DEF NewRefs, Rows

LEMMA InsertedFit ==
    ASSUME TablesFit, OriginalFits, NEW config, Imports(config)
    PROVE  TablesFit'
<1>. USE DEF Imports
<1>1. PICK top : top = [t \in Tables |-> nextId'[t]]
  OBVIOUS
<1>2. /\ \A t \in Tables : /\ nextId[t] \in Nat /\ Cardinality(RowsIn(config, t)) \in Nat
                           /\ top[t] = nextId[t] + Cardinality(RowsIn(config, t)) /\ top[t] = nextId'[t]
                           /\ top[t] \in Nat /\ nextId[t] <= top[t] /\ nextId[t] > 0
      /\ "channels" \in Tables /\ "customs" \in Tables /\ "lists" \in Tables /\ "infos" \in Tables
  BY <1>1, NewIdsDiffer, TableNames DEF TablesFit
<1>3. top["channels"] = nextId["channels"] + 1
  <2>1. RowsIn(config, "channels") = {config.channel}
    BY RowsInAre
  <2>2. Cardinality({config.channel}) = 1
    BY FS_Singleton
  <2>. QED
    BY <1>2, <2>1, <2>2
<1>4. ASSUME NEW t \in Tables, NEW r \in tables[t] PROVE HasShape(t, r) /\ AllUsed(t, r)'
  <2>1. HasShape(t, r) /\ AllUsed(t, r)
    BY DEF TablesFit
  <2>2. r.id \in Nat /\ r.custom \in Nat /\ r.list \in Nat /\ r.info \in Nat /\ r.channel \in Nat
    BY <2>1 DEF HasShape, Rows
  <2>. QED
    BY <1>2, <2>1, <2>2 DEF AllUsed
<1>5. ASSUME NEW t \in Tables, NEW q \in NewRows(config, t) PROVE HasShape(t, q) /\ AllUsed(t, q)'
  <2>1. /\ q.id \in Nat /\ nextId[t] <= q.id /\ q.id < nextId[t] + Cardinality(RowsIn(config, t))
        /\ q.channel = (IF t = "channels" THEN 0 ELSE nextId["channels"])
        /\ q.custom \in Nat /\ q.list \in Nat /\ q.info \in Nat
        /\ HasShape(t, q) /\ NewRefs(config, t, q)
    BY NewNumbers
  <2>2. q.id < top[t]
    BY <1>2, <2>1
  <2>3. q.custom < top["customs"] /\ q.list < top["lists"] /\ q.info < top["infos"]
    BY <1>2, <2>1 DEF NewRefs
  <2>4. IF t = "channels" THEN q.channel = 0 ELSE q.channel # 0 /\ q.channel < top["channels"]
    BY <1>2, <1>3, <2>1
  <2>. QED
    BY <1>2, <2>1, <2>2, <2>3, <2>4 DEF AllUsed
<1>6. ASSUME NEW t \in Tables PROVE IsFiniteSet(tables'[t]) /\ UniqueIds(tables'[t])
  <2>1. IsFiniteSet(tables[t]) /\ UniqueIds(tables[t])
    BY DEF TablesFit
  <2>2. IsFiniteSet(NewRows(config, t)) /\ UniqueIds(NewRows(config, t))
    BY NewRowsFit
  <2>3. IsFiniteSet(tables[t] \union NewRows(config, t))
    BY <2>1, <2>2, FS_Union
  <2>4. \A r \in tables[t], q \in NewRows(config, t) : r.id # q.id
    <3>1. \A r \in tables[t] : r.id \in Nat /\ r.id < nextId[t]
      BY OldNumbers
    <3>2. \A q \in NewRows(config, t) : q.id \in Nat /\ nextId[t] <= q.id
      BY NewNumbers
    <3>. QED
      BY <1>2, <3>1, <3>2
  <2>. QED
    BY <2>1, <2>2, <2>3, <2>4 DEF UniqueIds
<1>. QED
  BY <1>4, <1>5, <1>6 DEF TablesFit

LEMMA InsertedOneChannel ==
    ASSUME TablesFit, OneChannel, NEW config, Imports(config)
    PROVE  OneChannel'
<1>. USE DEF Imports
<1>1. /\ \A t \in Tables : nextId[t] \in Nat /\ nextId[t] > 0
      /\ "channels" \in Tables /\ "customs" \in Tables /\ "lists" \in Tables /\ "infos" \in Tables
      /\ \A t \in Timers : t \in Tables
  BY TableNames DEF TablesFit, Timers
<1>2. ASSUME NEW t \in {"customs", "lists"}, NEW i \in tables'["infos"], NEW q \in tables'[t], NEW ref,
             ref = (IF t = "customs" THEN i.custom ELSE i.list), q.id = ref
      PROVE  q.channel = i.channel
  <2>1. t \in Tables
    BY <1>1
  <2>2. CASE i \in tables["infos"]
    <3>1. ref \in Nat /\ ref < nextId[t]
      BY <1>1, <1>2, <2>2, OldNumbers
    <3>2. q \in tables[t]
      BY <1>1, <1>2, <2>1, <3>1, NewNumbers
    <3>. QED
      BY <1>2, <2>2, <3>2 DEF OneChannel
  <2>3. CASE i \in NewRows(config, "infos")
    <3>1. i.channel = nextId["channels"] /\ (ref = 0 \/ nextId[t] <= ref) /\ ref \in Nat
      BY <1>1, <1>2, <2>3, NewNumbers DEF NewRefs
    <3>2. q \notin tables[t]
      BY <1>1, <1>2, <2>1, <3>1, OldNumbers
    <3>3. q \in NewRows(config, t)
      BY <2>1, <3>2
    <3>. QED
      BY <2>1, <3>1, <3>3, NewNumbers
  <2>. QED
    BY <1>1, <2>2, <2>3
<1>3. ASSUME NEW t \in Timers, NEW i \in tables'["infos"], NEW q \in tables'[t], q.info = i.id
      PROVE  q.channel = i.channel
  <2>1. t \in Tables /\ t # "channels"
    BY <1>1 DEF Timers
  <2>2. CASE i \in tables["infos"]
    <3>1. i.id \in Nat /\ i.id < nextId["infos"] /\ i.id # 0
      BY <1>1, <2>2, OldNumbers
    <3>2. ASSUME q \in NewRows(config, t) PROVE FALSE
      <4>1. q.info \in Nat /\ NewRefs(config, t, q)
        BY <2>1, <3>2, NewNumbers
      <4>. QED
        BY <1>1, <1>3, <3>1, <4>1 DEF NewRefs
    <3>3. q \in tables[t]
      BY <2>1, <3>2
    <3>. QED
      BY <1>3, <2>2, <3>3 DEF OneChannel
  <2>3. CASE i \in NewRows(config, "infos")
    <3>1. i.channel = nextId["channels"] /\ nextId["infos"] <= i.id /\ i.id \in Nat
      BY <1>1, <2>3, NewNumbers
    <3>2. ASSUME q \in tables[t] PROVE FALSE
      BY <1>1, <1>3, <2>1, <3>1, <3>2, OldNumbers
    <3>3. q \in NewRows(config, t)
      BY <2>1, <3>2
    <3>. QED
      BY <2>1, <3>1, <3>3, NewNumbers
  <2>. QED
    BY <1>1, <2>2, <2>3
<1>. QED
  BY <1>2, <1>3 DEF OneChannel

(* The rows of the channels that were there stay, and those of the new one    *)
(* are what is inserted.                                                      *)
LEMMA OwnRows ==
    ASSUME TablesFit, OriginalFits, NEW config, Imports(config),
           NEW n \in Nat, n = nextId["channels"]
    PROVE  /\ \A t \in Tables : RowsOf(t, 1)' = RowsOf(t, 1)
           /\ \A t \in Tables : RowsOf(t, n)' = NewRows(config, t)
           /\ \A x \in Home(Copy)' : x.id = n
           /\ Home(Copy)' # {}
<1>. USE DEF Imports
<1>1. n = nextId["channels"]
  OBVIOUS
<1>2. n \in Nat /\ n > 1 /\ "channels" \in Tables
  BY <1>1, NumbersAre, TableNames
<1>3. \A r \in tables["channels"] : r.id \in Nat /\ r.id < n
  BY <1>1, <1>2, OldNumbers
<1>4. RowsIn(config, "channels") = {config.channel}
  BY RowsInAre
<1>5. PICK x : x = insertImported(config, "channels", config.channel)
  OBVIOUS
<1>6. NewRows(config, "channels") = {x}
  BY <1>4, <1>5 DEF NewRows
<1>7. x.id = n /\ x.key = Copy
  <2>1. x.id = NewId(config, "channels", config.channel) /\ x.key = config.channel.key
    BY <1>2, <1>4, <1>5, NewRowFits
  <2>2. x.id \in Nat /\ n <= x.id /\ x.id < n + Cardinality(RowsIn(config, "channels"))
    BY <1>1, <1>2, <1>6, NewNumbers
  <2>3. Cardinality(RowsIn(config, "channels")) = 1
    BY <1>4, FS_Singleton
  <2>. QED
    BY <1>2, <2>1, <2>2, <2>3
<1>8. ASSUME NEW t \in Tables PROVE RowsOf(t, 1)' = RowsOf(t, 1) /\ RowsOf(t, n)' = NewRows(config, t)
  <2>1. tables'[t] = tables[t] \union NewRows(config, t)
    OBVIOUS
  <2>2. CASE t = "channels"
    BY <1>2, <1>3, <1>6, <1>7, <2>1, <2>2 DEF RowsOf
  <2>3. CASE t # "channels"
    <3>1. \A q \in NewRows(config, t) : q.channel = n
      BY <1>1, <2>3, NewNumbers
    <3>2. \A r \in tables[t] : r.channel \in Nat /\ r.channel < n
      BY <1>1, OldNumbers
    <3>. QED
      BY <1>2, <2>1, <2>3, <3>1, <3>2 DEF RowsOf
  <2>. QED
    BY <2>2, <2>3
<1>9. Home(Copy)' = {x}
  BY <1>2, <1>6, <1>7 DEF Home
<1>. QED
  BY <1>7, <1>8, <1>9

LEMMA InsertFits ==
    ASSUME ImportInv, NEW posted \in Documents, Insert(posted)
    PROVE  ImportInv'
<1>. USE DEF ImportInv
<1>1. PICK config : config = applyImportDefaults(posted)
  OBVIOUS
<1>2. Imports(config) /\ imported' = posted
  BY <1>1, InsertImports
<1>3. TablesFit' /\ OneChannel'
  BY <1>2, InsertedFit, InsertedOneChannel
<1>4. PICK n \in Nat : n = nextId["channels"]
  BY NumbersAre, TableNames
<1>5. /\ \A t \in Tables : RowsOf(t, 1)' = RowsOf(t, 1)
      /\ \A t \in Tables : RowsOf(t, n)' = NewRows(config, t)
      /\ \A x \in Home(Copy)' : x.id = n
      /\ Home(Copy)' # {}
  BY <1>2, <1>4, OwnRows
<1>8. OriginalFits'
  <2>1. \A t \in Timers : t \in Tables
    BY TableNames DEF Timers
  <2>. QED
    BY <1>5, <2>1, TableNames DEF OriginalFits, TheOriginal
<1>9. DumpFits'
  <2>1. UNCHANGED <<dump, reads, touched>>
    BY <1>2 DEF Imports
  <2>2. \A k \in 1 .. 9 : RowsOf(Order[k], 1)' = RowsOf(Order[k], 1)
    BY <1>5, TableNames
  <2>3. reads \in 0 .. 9 /\ Len(Order) = 9
    BY TableNames DEF DumpFits
  <2>4. reads' > 0 /\ ~touched' => \A k \in 1 .. reads' : dump'[Order[k]] = RowsOf(Order[k], 1)'
    BY <2>1, <2>2, <2>3 DEF DumpFits
  <2>. QED
    BY <2>1, <2>4 DEF DumpFits, TheOriginal, UniqueIds, HasShape
<1>10. DocumentFits'
  BY <1>2, DocumentStays DEF Imports
<1>11. Imported'
  <2>1. PICK of : of = [t \in Tables |-> NewRows(config, t)]
    OBVIOUS
  <2>2. Own(n)' = of
    BY <1>5, <2>1 DEF Own
  <2>3. Stored(n)' = Assembled(Own(n))'
    BY <1>3, <1>5, StoredNext DEF AllOwn
  <2>4. Stored(n)' = Assembled(of)
    BY <2>2, <2>3 DEF Assembled, Part, The
  <2>5. Meaning(Assembled(of)) = Meaning(config)
    BY <1>2, <2>1, MeaningKept DEF Imports
  <2>6. Original # Copy
    BY <1>2 DEF Imports
  <2>7. applyImportDefaults(imported)' = config
    BY <1>1, <1>2 DEF applyImportDefaults, Filled
  <2>8. \A r \in Home(Copy)' : Meaning(Stored(r.id))' = Meaning(applyImportDefaults(imported))'
    BY <1>5, <2>4, <2>5, <2>7 DEF Meaning, Says
  <2>. QED
    BY <1>5, <2>6, <2>8 DEF Imported
<1>. QED
  BY <1>3, <1>8, <1>9, <1>10, <1>11

------------------------------------------------------------------------------
(* The properties *)

LEMMA ConfigInitFits == ConfigInit => ImportInv
<1>. SUFFICES ASSUME ConfigInit PROVE ImportInv
  OBVIOUS
<1>1. PICK one, two : one = Row(1, 1, 1, Text, 0, 0, 0) /\ two = Row(2, 1, 2, Text, 0, 0, 0)
  OBVIOUS
<1>2. /\ DOMAIN tables = Tables
      /\ tables["channels"] = {TheOriginal} /\ tables["quotes"] = {one, two}
      /\ \A t \in Tables \ {"channels", "quotes"} : tables[t] = {}
  BY <1>1, TableNames DEF ConfigInit, TheOriginal
<1>3. Text \in Values
  BY ConfigAssumption DEF Text
<1>4. /\ one \in Rows /\ one.id = 1 /\ one.channel = 1 /\ one.custom = 0 /\ one.list = 0 /\ one.info = 0
      /\ two \in Rows /\ two.id = 2 /\ two.channel = 1 /\ two.custom = 0 /\ two.list = 0 /\ two.info = 0
  BY <1>1, <1>3 DEF Row, Rows
<1>5. /\ TheOriginal \in Rows /\ TheOriginal.id = 1 /\ TheOriginal.channel = 0
      /\ TheOriginal.custom = 0 /\ TheOriginal.list = 0 /\ TheOriginal.info = 0
  BY <1>3 DEF TheOriginal, Row, Rows
<1>6. /\ IsFiniteSet({}) /\ Cardinality({}) = 0
      /\ IsFiniteSet({TheOriginal}) /\ Cardinality({TheOriginal}) = 1
      /\ IsFiniteSet({one, two}) /\ Cardinality({one, two}) = 2
  <2>1. IsFiniteSet({one}) /\ Cardinality({one}) = 1
    BY FS_Singleton
  <2>2. two \notin {one} /\ {one, two} = {one} \union {two}
    BY <1>4
  <2>3. IsFiniteSet({one} \union {two}) /\ Cardinality({one} \union {two}) = 2
    BY <2>1, <2>2, FS_AddElement
  <2>. QED
    BY <2>2, <2>3, FS_EmptySet, FS_Singleton
<1>7. nextId = [t \in Tables |-> Cardinality(tables[t]) + 1]
  BY DEF ConfigInit
<1>8. /\ nextId["channels"] = 2 /\ nextId["quotes"] = 3
      /\ \A t \in Tables \ {"channels", "quotes"} : nextId[t] = 1
      /\ nextId \in [Tables -> Nat \ {0}]
  <2>1. \A t \in Tables : Cardinality(tables[t]) \in {0, 1, 2}
    BY <1>2, <1>6
  <2>2. \A t \in Tables : Cardinality(tables[t]) + 1 \in Nat \ {0}
    BY <2>1
  <2>3. nextId \in [Tables -> Nat \ {0}] /\ \A t \in Tables : nextId[t] = Cardinality(tables[t]) + 1
    BY <1>7, <2>2
  <2>4. Cardinality(tables["channels"]) = 1 /\ Cardinality(tables["quotes"]) = 2
    BY <1>2, <1>6
  <2>5. \A t \in Tables \ {"channels", "quotes"} : Cardinality(tables[t]) = 0
    BY <1>2, <1>6
  <2>. QED
    BY <2>3, <2>4, <2>5, TableNames
<1>9. TablesFit
  <2>1. ASSUME NEW t \in Tables PROVE IsFiniteSet(tables[t]) /\ UniqueIds(tables[t])
    BY <1>2, <1>4, <1>6 DEF UniqueIds
  <2>2. HasShape("channels", TheOriginal) /\ AllUsed("channels", TheOriginal)
    BY <1>5, <1>8, TableNames DEF HasShape, AllUsed, Timers
  <2>3. HasShape("quotes", one) /\ AllUsed("quotes", one) /\ HasShape("quotes", two) /\ AllUsed("quotes", two)
    BY <1>4, <1>8, TableNames DEF HasShape, AllUsed, Timers
  <2>. QED
    BY <1>2, <1>8, <2>1, <2>2, <2>3 DEF TablesFit
<1>10. OneChannel
  BY <1>2, TableNames DEF OneChannel
<1>11. OriginalFits
  <2>1. \A t \in Timers : t \in Tables \ {"channels", "quotes"}
    BY TableNames DEF Timers
  <2>. QED
    BY <1>2, <1>5, <2>1, TableNames DEF OriginalFits, RowsOf
<1>12. DumpFits
  <2>1. \A t \in Timers : t \in Tables
    BY TableNames DEF Timers
  <2>2. DOMAIN dump = Tables /\ reads = 0 /\ \A t \in Tables : dump[t] = {}
    BY DEF ConfigInit
  <2>. QED
    BY <1>6, <2>1, <2>2, TableNames DEF DumpFits, UniqueIds
<1>13. DocumentFits /\ Imported
  BY DEF ConfigInit, DocumentFits, Exported, Imported
<1>. QED
  BY <1>9, <1>10, <1>11, <1>12, <1>13 DEF ImportInv

LEMMA ConfigNextFits ==
    ASSUME ImportInv, [ConfigNext]_configVars
    PROVE  ImportInv'
<1>1. ASSUME NEW n \in CommandNames, NEW kind \in {"customs", "lists"}, AddCommand(n, kind)
      PROVE  ImportInv'
  BY <1>1, AddCommandFits
<1>2. ASSUME NEW i \in RowsOf("infos", 1), NEW v \in Values, EditCommand(i, v) PROVE ImportInv'
  BY <1>2, EditCommandFits
<1>3. ASSUME NEW i \in RowsOf("infos", 1), DeleteCommand(i) PROVE ImportInv'
  BY <1>3, DeleteCommandFits
<1>4. ASSUME NEW i \in RowsOf("infos", 1), NEW t \in Timers, AddTimer(t, i) PROVE ImportInv'
  BY <1>4, AddTimerFits
<1>5. ASSUME NEW t \in Entries, AddEntry(t) PROVE ImportInv'
  BY <1>5, AddEntryFits
<1>6. ASSUME NEW t \in Entries \union Timers, NEW r \in RowsOf(t, 1), DeleteRow(t, r) PROVE ImportInv'
  BY <1>6, DeleteRowFits
<1>7. ASSUME Read PROVE ImportInv'
  BY <1>7, QueryFits DEF Read, GetChannelByName, ListQuotes, ListAutoreplies, ListVariables,
     ListCommandInfos, ListCustomCommands, ListCommandLists, ListRepeatedCommands, ListScheduledCommands
<1>8. ASSUME Export PROVE ImportInv'
  BY <1>8, ExportFits
<1>9. ASSUME NEW posted \in Documents, Insert(posted) \/ Refuse(posted) PROVE ImportInv'
  BY <1>9, InsertFits, RefuseFits
<1>10. ASSUME UNCHANGED configVars PROVE ImportInv'
  <2>1. UNCHANGED <<tables, nextId, dump, reads, touched, document, imported>>
    BY <1>10 DEF configVars
  <2>2. TablesFit' /\ OneChannel' /\ OriginalFits'
    BY <2>1 DEF ImportInv, TablesFit, OneChannel, OriginalFits, RowsOf, TheOriginal, AllUsed, HasShape, UniqueIds
  <2>3. DumpFits'
    BY <2>1 DEF ImportInv, DumpFits, RowsOf, TheOriginal, UniqueIds, HasShape
  <2>4. DocumentFits'
    BY <2>1, DocumentStays DEF ImportInv
  <2>5. Imported'
    <3>1. \A c \in Nat \ {1}, u \in Tables : RowsOf(u, c)' = RowsOf(u, c)
      BY <2>1 DEF RowsOf
    <3>. QED
      BY <2>1, <2>2, <3>1, ImportStays DEF ImportInv
  <2>. QED
    BY <2>2, <2>3, <2>4, <2>5 DEF ImportInv
<1>. QED
  BY <1>1, <1>2, <1>3, <1>4, <1>5, <1>6, <1>7, <1>8, <1>9, <1>10 DEF ConfigNext

LEMMA ValidExport == ImportInv => ExportIsValid
<1>. SUFFICES ASSUME ImportInv, Exported
              PROVE  validate(document)
                     /\ Cardinality({c.info.key : c \in document.commands}) = Cardinality(document.commands)
  BY DEF ExportIsValid
<1>. USE DEF ImportInv
<1>. DEFINE S == document.commands
            T == {c.info.key : c \in S}
            f == [c \in S |-> c.info.key]
<1>1. /\ reads > 0 /\ document = Written /\ \A c \in assembleCommands : ~MissingImplementation(c)
  BY TableNames DEF DocumentFits, Exported
<1>2. S = {Command(i) : i \in dump["infos"]} /\ S = assembleCommands
  BY <1>1 DEF Written, assembleCommands
<1>3. validate(document)
  <2>. SUFFICES ASSUME NEW c \in S PROVE (c.custom = Nothing) # (c.list = Nothing)
    BY DEF validate
  <2>1. PICK i \in dump["infos"] : c = Command(i)
    BY <1>2
  <2>2. /\ c.custom = The({r \in dump["customs"] : i.custom # 0 /\ r.id = i.custom})
        /\ c.list = The({r \in dump["lists"] : i.custom = 0 /\ r.id = i.list})
    BY <2>1 DEF Command
  <2>3. i.custom # 0 => {r \in dump["lists"] : i.custom = 0 /\ r.id = i.list} = {}
    OBVIOUS
  <2>4. i.custom = 0 => {r \in dump["customs"] : i.custom # 0 /\ r.id = i.custom} = {}
    OBVIOUS
  <2>5. ~(c.custom = Nothing /\ c.list = Nothing)
    BY <1>1, <1>2 DEF MissingImplementation
  <2>. QED
    BY <2>2, <2>3, <2>4, <2>5, TheSingle
<1>4. Cardinality(T) = Cardinality(S)
  <2>1. IsFiniteSet(S)
    BY <1>1, WrittenFits DEF ConfigFits
  <2>2. f \in Surjection(S, T)
    BY DEF Surjection
  <2>3. ASSUME NEW c \in S, NEW d \in S, f[c] = f[d] PROVE c = d
    <3>1. PICK i \in dump["infos"] : c = Command(i)
      BY <1>2
    <3>2. PICK j \in dump["infos"] : d = Command(j)
      BY <1>2
    <3>3. i.key = j.key
      BY <2>3, <3>1, <3>2 DEF Command
    <3>4. i = j
      BY <3>3 DEF DumpFits
    <3>. QED
      BY <3>1, <3>2, <3>4
  <2>4. f \in Injection(S, T)
    <3>1. f \in [S -> T]
      OBVIOUS
    <3>. HIDE DEF f, T, S
    <3>. QED
      BY <2>3, <3>1 DEF Injection, IsInjective
  <2>. HIDE DEF f, T, S
  <2>. QED
    BY <2>1, <2>2, <2>4, FS_Surjection
<1>. QED
  BY <1>3, <1>4

LEMMA FaithfulExport == ImportInv => ExportIsFaithful
<1>. SUFFICES ASSUME ImportInv, Exported, ~touched PROVE Meaning(document) = Meaning(Stored(1))
  BY DEF ExportIsFaithful
<1>. USE DEF ImportInv
<1>1. reads = 9 /\ document = Written
  BY TableNames DEF DocumentFits, Exported
<1>2. \A k \in 1 .. 9 : dump[Order[k]] = RowsOf(Order[k], 1)
  BY <1>1 DEF DumpFits
<1>3. \A t \in Tables : \E k \in 1 .. 9 : t = Order[k]
  BY TableNames DEF Tables, Order
<1>4. \A t \in Tables : dump[t] = Own(1)[t]
  BY <1>2, <1>3 DEF Own
<1>5. Assembled(dump) = Assembled(Own(1))
  <2>1. /\ dump["channels"] = Own(1)["channels"] /\ dump["infos"] = Own(1)["infos"]
        /\ dump["customs"] = Own(1)["customs"] /\ dump["lists"] = Own(1)["lists"]
        /\ dump["repeats"] = Own(1)["repeats"] /\ dump["schedules"] = Own(1)["schedules"]
    BY <1>4, TableNames
  <2>2. \A i : Part(dump, i) = Part(Own(1), i)
    BY <2>1 DEF Part
  <2>3. {Part(dump, i) : i \in dump["infos"]} = {Part(Own(1), i) : i \in Own(1)["infos"]}
    BY <2>1, <2>2
  <2>4. [t \in Entries |-> dump[t]] = [t \in Entries |-> Own(1)[t]]
    BY <1>4, PartNames
  <2>. QED
    BY <2>1, <2>3, <2>4 DEF Assembled
<1>6. Stored(1) = Assembled(Own(1)) /\ Written = Assembled(dump)
  BY StoredNow, WrittenIsDump DEF AllOwn
<1>. QED
  BY <1>1, <1>5, <1>6

LEMMA FaithfulImport == ImportInv => ImportIsFaithful
<1>. SUFFICES ASSUME ImportInv, imported # Nothing, NEW r \in Home(Copy)
              PROVE  /\ Meaning(Stored(r.id)) = Meaning(applyImportDefaults(imported))
                     /\ \A i \in RowsOf("infos", r.id) :
                           /\ \A q \in tables["customs"] : q.id = i.custom => q.channel = r.id
                           /\ \A q \in tables["lists"] : q.id = i.list => q.channel = r.id
                           /\ \A t \in Timers : \A q \in tables[t] : q.info = i.id => q.channel = r.id
  BY DEF ImportIsFaithful
<1>1. Meaning(Stored(r.id)) = Meaning(applyImportDefaults(imported))
  BY DEF ImportInv, Imported
<1>2. \A i \in RowsOf("infos", r.id) : i \in tables["infos"] /\ i.channel = r.id
  BY DEF RowsOf
<1>. QED
  BY <1>1, <1>2 DEF ImportInv, OneChannel

(* What an export writes can be imported and, if nothing changed meanwhile,   *)
(* is the channel; what is imported says what the document says, and hangs on *)
(* nothing of another channel (Config.Insert, ExportByName).                  *)
THEOREM ImportsAreFaithful == ConfigSpec => []ConfigInv
<1>1. ConfigInit => ImportInv
  BY ConfigInitFits
<1>2. ImportInv /\ [ConfigNext]_configVars => ImportInv'
  BY ConfigNextFits
<1>3. ImportInv => ConfigInv
  BY ValidExport, FaithfulExport, FaithfulImport DEF ConfigInv
<1>. QED
  BY <1>1, <1>2, <1>3, PTL DEF ConfigSpec
=============================================================================
