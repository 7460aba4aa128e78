------------------------------ MODULE LinkMatch ------------------------------
(***************************************************************************)
(* Which links a pattern permits (internal/pkg/linkmatch).  A pattern and  *)
(* a link have a host and a path, both sequences of characters; case and   *)
(* scheme are gone.                                                        *)
(***************************************************************************)
EXTENDS Naturals, Sequences, SequencesExt

CONSTANTS
    Letters,        \* the characters but ".", "/" and "*"
    MaxHost,        \* bound: characters of a host
    MaxPath         \* bound: characters of a path

ASSUME LinkMatchAssumption ==
    /\ {".", "/", "*"} \intersect Letters = {}
    /\ {MaxHost, MaxPath} \subseteq Nat

VARIABLES
    pattern,
    url

matchVars == <<pattern, url>>

Strings(S, n) == UNION {[1 .. k -> S] : k \in 0 .. n}

Hosts     == Strings(Letters \union {"."}, MaxHost)
Paths     == Strings(Letters \union {"/"}, MaxPath)
PathGlobs == Strings(Letters \union {"/", "*"}, MaxPath)

(* Mutant: a host need not end below a label.                                 *)
EndsAlike(p, host) == IsSuffix(p, host)

hostMatches(p, host) ==
    \/ host = p
    \/ /\ Len(host) > Len(p)
       /\ IsSuffix(p, host)
       /\ host[Len(host) - Len(p)] = "."

TrimRight(p) == SubSeq(p, 1, Max({0} \union {k \in DOMAIN p : p[k] # "/"}))

normalizePath(p) ==
    IF p \in {<<>>, <<"/">>} THEN <<"/">>
    ELSE TrimRight(IF p[1] = "/" THEN p ELSE <<"/">> \o p)

(* doublestar.Match: "*" stands for characters of one segment, "**" as a      *)
(* segment for any number of segments, none included.                         *)
AtSegment(p, k) == k = 1 \/ p[k - 1] = "/"
IsDoubleStar(p, k) ==
    /\ AtSegment(p, k)
    /\ k < Len(p) /\ p[k] = "*" /\ p[k + 1] = "*"
    /\ k + 2 > Len(p) \/ p[k + 2] = "/"

(* From where in s on the pattern from k on matches, given that for greater k. *)
MatchFrom(p, s, k, from) ==
    LET end == Len(s) + 1
    IN IF k > Len(p) THEN {end}
       ELSE IF IsDoubleStar(p, k)
       THEN LET next == IF k + 2 > Len(p) THEN {end} ELSE {i \in from[k + 3] : AtSegment(s, i)}
            IN {j \in 1 .. end : \E i \in next : j <= i}
       ELSE IF p[k] = "*"
       THEN LET next == from[k + 1]
            IN {j \in 1 .. end : \E i \in next : j <= i /\ \A l \in j .. i - 1 : s[l] # "/"}
       ELSE LET next == from[k + 1]
            IN {j \in DOMAIN s : s[j] = p[k] /\ j + 1 \in next}
               \union {j \in {end} : p[k] = "/" /\ k + 2 = Len(p) /\ IsDoubleStar(p, k + 1)}

isMatch(p, s) ==
    LET from[k \in 1 .. Len(p) + 1] == MatchFrom(p, s, k, from)
    IN 1 \in from[1]

isMatchPermissive(p, s) ==
    \/ isMatch(p, s)
    \/ p # <<>> /\ Last(p) = "*" /\ isMatch(p \o <<"*">>, s)
    \/ isMatch(p \o <<"/", "*", "*">>, s)

HostAndPath(p, u) ==
    /\ hostMatches(p.host, u.host)
    /\ \/ normalizePath(p.path) = <<"/">>
       \/ isMatchPermissive(normalizePath(p.path), normalizePath(u.path))

(* One half of the patterns has no path, the other no host.                   *)
MatchInit ==
    \/ /\ pattern \in [host : Hosts, path : {<<>>}]
       /\ url \in [host : Hosts, path : {<<>>}]
    \/ /\ pattern \in [host : {<<>>}, path : PathGlobs]
       /\ url \in [host : {<<>>}, path : Paths]

MatchNext == UNCHANGED matchVars

MatchSpec == MatchInit /\ [][MatchNext]_matchVars
-----------------------------------------------------------------------------
(* What the comment of HostAndPath promises, by labels and segments.          *)

PartsWith(parts, c, sep) ==
    IF c = sep THEN Append(parts, <<>>) ELSE Append(Front(parts), Append(Last(parts), c))

Split(s, sep) ==
    LET parts[k \in 0 .. Len(s)] == IF k = 0 THEN <<<<>>>> ELSE PartsWith(parts[k - 1], s[k], sep)
    IN parts[Len(s)]

Labels(host) == Split(host, ".")
Segments(path) ==
    LET trimmed == TrimRight(IF path # <<>> /\ path[1] = "/" THEN Tail(path) ELSE path)
    IN IF trimmed = <<>> THEN <<>> ELSE Split(trimmed, "/")

(* A pattern of a host permits that host and those below it, and no other     *)
(* host that merely ends alike (hostMatches).                                 *)
HostsMatchByLabel ==
    pattern.path = <<>> /\ pattern.host # <<>> =>
        (HostAndPath(pattern, url) <=> IsSuffix(Labels(pattern.host), Labels(url.host)))

(* A pattern of a path without stars permits that path and those below it     *)
(* (isMatchPermissive, normalizePath).                                        *)
PathsMatchBelow ==
    pattern.host = <<>> /\ url.host = <<>> /\ pattern.path \in Paths =>
        (HostAndPath(pattern, url) <=> IsPrefix(Segments(pattern.path), Segments(url.path)))

(* What a pattern of a path permits, it still permits with a star at its end: *)
(* the stars only widen (isMatchPermissive).                                  *)
StarsWiden ==
    (pattern.path # <<>> /\ Last(pattern.path) \notin {"/", "*"} /\ HostAndPath(pattern, url)) =>
        HostAndPath([pattern EXCEPT !.path = Append(@, "*")], url)

(* A pattern permits what is below it, and nothing beside it.                 *)
MatchInv == HostsMatchByLabel /\ PathsMatchBelow /\ StarsWiden
=============================================================================
