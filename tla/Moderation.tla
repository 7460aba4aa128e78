----------------------------- MODULE Moderation -----------------------------
(***************************************************************************)
(* The settings of a channel, its lists of users and its filters           *)
(* (internal/bot cmd_settings, cmd_filters, cmd_levels, cmd_moderation and *)
(* filters).  A message is one transaction under the lock of its channel,  *)
(* which reads the row of the channel for update and writes all its        *)
(* settings, so that a handler is one action; one that returns early is a  *)
(* stuttering step.  What a handler asks of Twitch has happened even when  *)
(* its transaction is rolled back.                                         *)
(***************************************************************************)
EXTENDS Access, FiniteSets, Sequences, SequencesExt

CONSTANTS
    Users,
    Badge,          \* Badge[u]: the level Twitch gives u, none is Unknown
    Admins, SuperAdmins,
    Nobody,
    Patterns,       \* patterns of permitted links, ...
    Permits,        \* Permits[p]: ... and the links each one matches
    Phrases,        \* banned phrases
    Messages,       \* what is said, as far as the filters tell it apart
    Counts,         \* bound: the numbers that settings are set to
    MaxChanges,     \* bound: how often settings and lists are changed
    FirstWarning,   \* how long a first warning counts, 1 second
    NextWarning,    \* and the following ones, 1 hour
    PermitTime      \* 5 minutes

ASSUME ModerationAssumption ==
    /\ Badge \in [Users -> {AccessLevelUnknown, AccessLevelSubscriber, AccessLevelVIP,
                            AccessLevelModerator, AccessLevelBroadcaster}]
    /\ Admins \subseteq Users /\ SuperAdmins \subseteq Users
    /\ Nobody \notin Users
    /\ DOMAIN Permits = Patterns
    /\ Counts \subseteq Nat
    /\ {MaxChanges, FirstWarning, NextWarning, PermitTime} \subseteq Nat
    /\ 0 \notin {FirstWarning, NextWarning, PermitTime}

VARIABLES
    channel,     \* the row of the channel: its settings and its lists of users
    warned,      \* warned[u][f]: how long a warning of filter f still counts
    permits,     \* permits[u]: how long u may still post a link
    banned,      \* who is banned for good, at Twitch
    punished,    \* punished[u][f]: u has lost a message to filter f
    last,        \* what became of the last message
    changes

vars == <<channel, warned, permits, banned, punished, last, changes>>

FlagNames ==
    {"shouldModerate", "enableFilters", "enableWarnings", "displayWarnings", "subsMayLink",
     "parseYoutube", "urbanEnabled", "filterMe", "filterLinks", "filterCaps", "filterSymbols",
     "filterEmotes", "filterEmotesSingle", "filterBannedPhrases"}
NumberNames ==
    {"timeoutDuration", "filterMaxLength", "filterCapsPercentage", "filterCapsMinChars",
     "filterCapsMinCaps", "filterSymbolsPercentage", "filterSymbolsMinSymbols", "filterEmotesMax"}
ListNames == {"owners", "mods", "regulars", "ignored"}

(* From the first to the last one tried.                                      *)
Filters == <<"me", "max_length", "links", "emotes", "caps", "symbols", "banned_phrase">>
FilterNames == ToSet(Filters)

(* InsertDefaultChannel, with small numbers.                                  *)
InsertDefaultChannel ==
    [flags |-> [f \in FlagNames |-> f \in {"shouldModerate", "enableWarnings", "subsMayLink"}],
     numbers |-> [n \in NumberNames |-> IF n \in {"filterCapsPercentage", "filterSymbolsPercentage"}
                                        THEN 50 ELSE 3],
     exempt |-> AccessLevelSubscriber,
     mode |-> AccessLevelEveryone,
     permitted |-> <<>>,
     phrases |-> <<>>,
     lists |-> [l \in ListNames |-> <<>>]]

NothingYet == [user |-> Nobody, kind |-> "none", filter |-> "none"]

Init ==
    /\ channel = InsertDefaultChannel
    /\ warned = [u \in Users |-> [f \in FilterNames |-> 0]]
    /\ permits = [u \in Users |-> 0]
    /\ banned = {}
    /\ punished = [u \in Users |-> {}]
    /\ last = NothingYet
    /\ changes = 0

Flag(f) == channel.flags[f]
Number(n) == channel.numbers[n]
Listed(l, u) == u \in ToSet(channel.lists[l])
-----------------------------------------------------------------------------
(* Levels.                                                                    *)

parseUserLevel(row, u) ==
    CASE u \in SuperAdmins                    -> AccessLevelSuperAdmin
      [] u \in Admins \ SuperAdmins           -> AccessLevelAdmin
      [] OTHER ->
         IF Badge[u] # AccessLevelUnknown           THEN Badge[u]
         ELSE IF u \in ToSet(row.lists["owners"])   THEN AccessLevelBroadcaster
         ELSE IF u \in ToSet(row.lists["mods"])     THEN AccessLevelModerator
         ELSE IF u \in ToSet(row.lists["regulars"]) THEN AccessLevelSubscriber
         ELSE AccessLevelEveryone

UserLevel(u) == parseUserLevel(channel, u)

Answered(u) == last' = [user |-> u, kind |-> "command", filter |-> "none"]

Handles(u, level) ==
    /\ Authorized(UserLevel(u), level)
    /\ Answered(u)
-----------------------------------------------------------------------------
(* Settings.  A handler that changes one writes all of them, and no list.      *)

Change ==
    /\ changes < MaxChanges
    /\ changes' = changes + 1
    /\ UNCHANGED <<warned, permits, banned, punished>>

UpdateChannelSettings(row) == channel' = [row EXCEPT !.lists = channel.lists]
SaveChannelSettings(row) == UpdateChannelSettings(row)

updateChannelSettings(row) ==
    /\ row # channel
    /\ SaveChannelSettings(row)
    /\ Change

updateBoolean(u, flag, v) ==
    /\ Handles(u, AccessLevelModerator)
    /\ Flag(flag) # v
    /\ updateChannelSettings([channel EXCEPT !.flags[flag] = v])

SetNumber(u, name, n) ==
    /\ Handles(u, AccessLevelModerator)
    /\ updateChannelSettings([channel EXCEPT !.numbers[name] = n])

SetPercent(u, name, n) == n <= 100 /\ SetNumber(u, name, n)

cmdSettingShouldModerate(u, v)     == updateBoolean(u, "shouldModerate", v)
cmdSettingParseYoutube(u, v)       == updateBoolean(u, "parseYoutube", v)
cmdSettingEnableWarnings(u, v)     == updateBoolean(u, "enableWarnings", v)
cmdSettingDisplayWarnings(u, v)    == updateBoolean(u, "displayWarnings", v)
cmdSettingSubsMayLink(u, v)        == updateBoolean(u, "subsMayLink", v)
cmdSettingUrban(u, v)              == updateBoolean(u, "urbanEnabled", v)
cmdSettingTimeoutDuration(u, n)    == SetNumber(u, "timeoutDuration", n)

cmdSettingMode(u, level) ==
    /\ level # AccessLevelVIP
    /\ CanAccess(AccessLevelBroadcaster, level)
    /\ Handles(u, AccessLevelModerator)
    /\ updateChannelSettings([channel EXCEPT !.mode = level])

cmdFilterOnOff(u, v)         == updateBoolean(u, "enableFilters", v)
cmdFilterLinks(u, v)         == updateBoolean(u, "filterLinks", v)
cmdFilterMe(u, v)            == updateBoolean(u, "filterMe", v)
cmdFilterMessageLength(u, n) == SetNumber(u, "filterMaxLength", n)

cmdFilterCaps(u, v, n) ==
    \/ updateBoolean(u, "filterCaps", v)
    \/ SetPercent(u, "filterCapsPercentage", n)
    \/ SetNumber(u, "filterCapsMinChars", n)
    \/ SetNumber(u, "filterCapsMinCaps", n)

cmdFilterSymbols(u, v, n) ==
    \/ updateBoolean(u, "filterSymbols", v)
    \/ SetPercent(u, "filterSymbolsPercentage", n)
    \/ SetNumber(u, "filterSymbolsMinSymbols", n)

cmdFilterEmotes(u, v, n) ==
    \/ updateBoolean(u, "filterEmotes", v)
    \/ updateBoolean(u, "filterEmotesSingle", v)
    \/ SetNumber(u, "filterEmotesMax", n)

cmdFilterPermittedLinks(u, p, k) ==
    /\ Handles(u, AccessLevelModerator)
    /\ \/ updateChannelSettings([channel EXCEPT !.permitted = Append(@, p)])
       \/ /\ k \in DOMAIN channel.permitted
          /\ updateChannelSettings([channel EXCEPT !.permitted = RemoveAt(@, k)])

(* A phrase is found again by its text; the first one found goes.             *)
cmdFilterBanPhrase(u, phrase, v) ==
    \/ updateBoolean(u, "filterBannedPhrases", v)
    \/ /\ Handles(u, AccessLevelModerator)
       /\ \/ updateChannelSettings([channel EXCEPT !.phrases = <<>>])
          \/ updateChannelSettings([channel EXCEPT !.phrases = Append(@, phrase)])
          \/ updateChannelSettings([channel EXCEPT !.phrases = RemoveFirst(@, phrase)])

(* Mutant: any level that parses is taken.                                    *)
ExemptAnyLevel(u, level) ==
    /\ Handles(u, AccessLevelModerator)
    /\ level # channel.exempt
    /\ updateChannelSettings([channel EXCEPT !.exempt = level])

cmdFilterExemptLevel(u, level) ==
    /\ Handles(u, AccessLevelModerator)
    /\ CanAccess(AccessLevelModerator, level)
    /\ level # channel.exempt
    /\ updateChannelSettings([channel EXCEPT !.exempt = level])
-----------------------------------------------------------------------------
(* The lists of users.                                                        *)

UpdateChannelUserLists(list, users) ==
    /\ users # channel.lists[list]
    /\ channel' = [channel EXCEPT !.lists[list] = users]
    /\ Change

(* Mutant: everyone may be listed by a moderator.                             *)
ModeratorsList(list) == AccessLevelModerator

ListLevel(list) == IF list \in {"owners", "mods"} THEN AccessLevelBroadcaster ELSE AccessLevelModerator

Added(list, u) == IF Listed(list, u) THEN channel.lists[list] ELSE Append(channel.lists[list], u)

(* The last one takes the place of the one removed.                           *)
Removed(list, u) ==
    IF ~Listed(list, u) THEN channel.lists[list]
    ELSE LET l == channel.lists[list]
             i == CHOOSE k \in DOMAIN l : l[k] = u /\ \A j \in DOMAIN l : l[j] = u => k <= j
         IN Front([l EXCEPT ![i] = l[Len(l)]])

cmdOwnerModRegularIgnore(u, list, v) ==
    /\ Handles(u, ListLevel(list))
    /\ \/ UpdateChannelUserLists(list, Added(list, v))
       \/ UpdateChannelUserLists(list, Removed(list, v))
-----------------------------------------------------------------------------
(* The filters.  A message is [me, length, spaces, links, emotes, upper,      *)
(* symbols, says]; its length is without spaces.                              *)

Exempt(u) == CanAccessPG(UserLevel(u), channel.exempt)

Percent(count, m) == (100 * count) \div m.length

filterMe(u, m) == Flag("filterMe") /\ m.me

filterLength(u, m) == Number("filterMaxLength") > 0 /\ m.length + m.spaces >= Number("filterMaxLength")

allLinksPermitted(links) ==
    \A l \in links : \E k \in DOMAIN channel.permitted : l \in Permits[channel.permitted[k]]

MayLink(u) ==
    \/ CanAccess(UserLevel(u), IF Flag("subsMayLink") THEN AccessLevelSubscriber ELSE AccessLevelModerator)
    \/ Listed("regulars", u)

filterLinks(u, m) ==
    /\ Flag("filterLinks")
    /\ ~MayLink(u)
    /\ m.links # {}
    /\ ~allLinksPermitted(m.links)

filterEmotes(u, m) ==
    /\ Flag("filterEmotes")
    /\ \/ m.emotes > Number("filterEmotesMax")
       \/ m.emotes = 1 /\ Flag("filterEmotesSingle") /\ m.spaces = 0

filterCaps(u, m) ==
    /\ Flag("filterCaps")
    /\ m.length + m.spaces >= Number("filterCapsMinChars")
    /\ m.upper >= Number("filterCapsMinCaps")
    /\ Percent(m.upper, m) >= Number("filterCapsPercentage")

filterSymbols(u, m) ==
    /\ Flag("filterSymbols")
    /\ m.symbols >= Number("filterSymbolsMinSymbols")
    /\ Percent(m.symbols, m) >= Number("filterSymbolsPercentage")

filterBannedPhrases(u, m) == Flag("filterBannedPhrases") /\ m.says \intersect ToSet(channel.phrases) # {}

HasLinkPermit(u) == permits[u] > 0

Hit(u, m, f) ==
    CASE f = "links"         -> filterLinks(u, m) /\ ~HasLinkPermit(u)
      [] f = "me"            -> filterMe(u, m) /\ ~Exempt(u)
      [] f = "max_length"    -> filterLength(u, m) /\ ~Exempt(u)
      [] f = "emotes"        -> filterEmotes(u, m) /\ ~Exempt(u)
      [] f = "caps"          -> filterCaps(u, m) /\ ~Exempt(u)
      [] f = "symbols"       -> filterSymbols(u, m) /\ ~Exempt(u)
      [] f = "banned_phrase" -> filterBannedPhrases(u, m) /\ ~Exempt(u)

Moderates == Flag("shouldModerate") /\ Flag("enableFilters")

(* The filters are tried in their order until one of them filters.            *)
FilteredBy(u, m) ==
    LET hits == {k \in DOMAIN Filters : Hit(u, m, Filters[k])}
    IN IF Moderates THEN {Filters[k] : k \in {k \in hits : \A j \in hits : k <= j}} ELSE {}

(* A permit is used up by a message the link filter lets through for it, also *)
(* when a later filter does not.                                              *)
UsesPermit(u, m) ==
    /\ HasLinkPermit(u)
    /\ Moderates
    /\ filterLinks(u, m)
    /\ FilteredBy(u, m) \intersect {"me", "max_length"} = {}

(* Mutant: one warning for all filters.                                       *)
WarnedAtAll(u, f) == \E g \in FilterNames : warned[u][g] > 0

FilterWarned(u, f) == warned[u][f] > 0

(* The punishment is out before the transaction ends, which a reply that      *)
(* fails rolls back: the warning is not remembered and the permit is back.    *)
(* Twitch refuses to time out who is banned, and then nothing has happened.   *)
filterDoPunish(u, f, m, commits) ==
    LET timeout == Flag("enableWarnings") => FilterWarned(u, f)
    IN /\ timeout => u \notin banned
       /\ last' = [user |-> u, kind |-> IF timeout THEN "timeout" ELSE "warned", filter |-> f]
       /\ punished' = [punished EXCEPT ![u] = @ \union {f}]
       /\ warned' = IF Flag("enableWarnings") /\ commits
                    THEN [warned EXCEPT ![u][f] =
                             IF FilterWarned(u, f) THEN NextWarning ELSE FirstWarning]
                    ELSE warned
       /\ permits' = IF UsesPermit(u, m) /\ commits THEN [permits EXCEPT ![u] = 0] ELSE permits
       /\ UNCHANGED <<channel, banned, changes>>

(* Ignored users and a mode do not exempt from the filters, which come first. *)
Hears(u) ==
    /\ Listed("ignored", u) => CanAccess(UserLevel(u), AccessLevelBroadcaster)
    /\ CanAccessPG(UserLevel(u), channel.mode)

handleSession(u, m) ==
    \/ \E f \in FilteredBy(u, m), commits \in BOOLEAN :
           /\ commits \/ Flag("displayWarnings")
           /\ filterDoPunish(u, f, m, commits)
    \/ /\ FilteredBy(u, m) = {}
       /\ last' = [user |-> u, kind |-> IF Hears(u) THEN "heard" ELSE "unheard", filter |-> "none"]
       /\ permits' = IF UsesPermit(u, m) THEN [permits EXCEPT ![u] = 0] ELSE permits
       /\ UNCHANGED <<channel, warned, banned, punished, changes>>
-----------------------------------------------------------------------------
(* The commands of moderators; what they do at Twitch.                        *)

Moderator(u) ==
    /\ Flag("shouldModerate")
    /\ Handles(u, AccessLevelModerator)

cmdPermit(u, v) ==
    /\ Handles(u, AccessLevelModerator)
    /\ Flag("enableFilters") /\ Flag("filterLinks")
    /\ permits' = [permits EXCEPT ![v] = PermitTime]
    /\ UNCHANGED <<channel, warned, banned, punished, changes>>

(* A ban without a duration has no end; a timeout ends by itself, and Twitch  *)
(* refuses one of who is banned.                                              *)
Ban(v, duration) ==
    /\ Badge[v] # AccessLevelBroadcaster
    /\ v \notin banned
    /\ banned' = IF duration = 0 THEN banned \union {v} ELSE banned

cmdModBan(u, v)               == Moderator(u) /\ Ban(v, 0)
cmdModTimeout(u, v, duration) == Moderator(u) /\ Ban(v, duration)
cmdModPurge(u, v)             == Moderator(u) /\ Ban(v, 1)
cmdModUnban(u, v)             == Moderator(u) /\ banned' = banned \ {v}
cmdModUntimeout(u, v)         == Moderator(u) /\ banned' = banned \ {v}

AtTwitch(u, v) ==
    /\ \/ cmdModBan(u, v) \/ cmdModPurge(u, v) \/ cmdModUnban(u, v) \/ cmdModUntimeout(u, v)
       \/ \E n \in Counts : cmdModTimeout(u, v, n)
    /\ UNCHANGED <<channel, warned, permits, punished, changes>>

Passed(t) == IF t > 0 THEN t - 1 ELSE 0

Tick ==
    /\ warned' = [u \in Users |-> [f \in FilterNames |-> Passed(warned[u][f])]]
    /\ permits' = [u \in Users |-> Passed(permits[u])]
    /\ last' = NothingYet
    /\ UNCHANGED <<channel, banned, punished, changes>>

Settings(u) ==
    \/ \E v \in BOOLEAN :
           \/ cmdSettingShouldModerate(u, v) \/ cmdSettingParseYoutube(u, v)
           \/ cmdSettingEnableWarnings(u, v) \/ cmdSettingDisplayWarnings(u, v)
           \/ cmdSettingSubsMayLink(u, v) \/ cmdSettingUrban(u, v)
           \/ cmdFilterOnOff(u, v) \/ cmdFilterLinks(u, v) \/ cmdFilterMe(u, v)
           \/ \E n \in Counts : cmdFilterCaps(u, v, n) \/ cmdFilterSymbols(u, v, n) \/ cmdFilterEmotes(u, v, n)
           \/ \E phrase \in Phrases : cmdFilterBanPhrase(u, phrase, v)
    \/ \E n \in Counts : cmdSettingTimeoutDuration(u, n) \/ cmdFilterMessageLength(u, n)
    \/ \E level \in DBLevels : cmdSettingMode(u, level) \/ cmdFilterExemptLevel(u, level)
    \/ \E p \in Patterns, k \in 1 .. MaxChanges : cmdFilterPermittedLinks(u, p, k)
    \/ \E list \in ListNames, v \in Users : cmdOwnerModRegularIgnore(u, list, v)

Next ==
    \/ \E u \in Users :
           \/ Settings(u)
           \/ \E m \in Messages : handleSession(u, m)
           \/ \E v \in Users : cmdPermit(u, v) \/ AtTwitch(u, v)
    \/ Tick

Spec == Init /\ [][Next]_vars
-----------------------------------------------------------------------------
TypeOK ==
    /\ channel.flags \in [FlagNames -> BOOLEAN]
    /\ channel.numbers \in [NumberNames -> Nat]
    /\ channel.exempt \in DBLevels /\ channel.mode \in DBLevels
    /\ channel.permitted \in Seq(Patterns) /\ channel.phrases \in Seq(Phrases)
    /\ channel.lists \in [ListNames -> Seq(Users)]
    /\ warned \in [Users -> [FilterNames -> Nat]]
    /\ permits \in [Users -> Nat]
    /\ banned \subseteq Users
    /\ punished \in [Users -> SUBSET FilterNames]
    /\ changes \in 0 .. MaxChanges

(* Whatever the settings and lists have become, and whoever changed them, the *)
(* broadcaster is heard: no filter, no mode and no list of ignored users      *)
(* stops the one who can put them right (cmdFilterExemptLevel keeps the level *)
(* at moderators, handleSession never ignores the broadcaster).               *)
BroadcasterIsHeard ==
    [][last'.user \in Users /\ Badge[last'.user] = AccessLevelBroadcaster =>
          last'.kind \in {"heard", "command"}]_vars

(* While warnings are on, nobody is timed out by a filter that has not warned *)
(* them: a warning is per user and per filter (filterDoPunish).               *)
TimeoutsAfterWarning ==
    [][last'.kind = "timeout" /\ Flag("enableWarnings") =>
          last'.filter \in punished[last'.user]]_vars

(* Nobody raises anyone above themselves with the lists of a channel, and     *)
(* what makes moderators and owners takes the broadcaster's level             *)
(* (builtinCommands, parseUserLevel).                                         *)
NobodyIsRaisedAbove ==
    [][\A v \in Users : parseUserLevel(channel', v) > parseUserLevel(channel, v) =>
          CanAccess(parseUserLevel(channel, last'.user), parseUserLevel(channel', v))]_vars

(* Who is removed from a list is no longer on it: nobody is on one twice      *)
(* (cmdOwnerModRegularIgnore).                                                *)
ListedOnce == \A l \in ListNames : Cardinality(ToSet(channel.lists[l])) = Len(channel.lists[l])

(* The row of a channel is well formed and its lists have no doubles.         *)
ModerationInv == TypeOK /\ ListedOnce

(* "Custom user levels reclassify users": who is on a list has at least the   *)
(* level of the list.                                                         *)
CustomLevelsReclassify ==
    \A u \in Users :
        /\ Listed("owners", u) => UserLevel(u) >= AccessLevelBroadcaster
        /\ Listed("mods", u) => UserLevel(u) >= AccessLevelModerator
        /\ Listed("regulars", u) => UserLevel(u) >= AccessLevelSubscriber

(* "Times out a user": only +b bans a user until someone lifts the ban.       *)
TimeoutsEnd ==
    [][\A u, v \in Users, n \in Counts : cmdModTimeout(u, v, n) => banned' = banned]_vars
=============================================================================
