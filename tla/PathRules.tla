------------------------------ MODULE PathRules ------------------------------
(***************************************************************************)
(* authorize_http (src/policy.rs): which request paths a capability lets   *)
(* through, and where the URL that is then requested leads.                *)
(*                                                                         *)
(* A path is a sequence of characters, among them the tokens "%2e", an     *)
(* encoded dot, and "tab", which stands for what the URL parser strips.    *)
(***************************************************************************)
EXTENDS Naturals, Sequences, SequencesExt

CONSTANTS
    PathChars,      \* characters of the paths that callers name
    MaxPathLength,  \* bound: characters of such a path
    PathRuleSet,    \* allow.paths, those of a capability that was loaded
    BaseHost        \* the host of base_url

\* What paths and rules are written with.
Letters == PathChars \cup {"/", "*"}

\* Pieces of s between the occurrences of c, as str::split returns them.
NextPieces(pieces, x, c) ==
    IF x = c THEN Append(pieces, <<>>)
    ELSE Append(Front(pieces), Append(Last(pieces), x))

Splits(s, c) ==
    LET After[n \in 0..Len(s)] ==
            IF n = 0 THEN <<<<>>>> ELSE NextPieces(After[n - 1], s[n], c)
    IN  After

Split(s, c) == Splits(s, c)[Len(s)]

\* The path without its query.
PathOnly(path) == Split(path, "?")[1]

HasDots(path) ==
    \E i \in DOMAIN Split(path, "/") : Split(path, "/")[i] \in {<<".">>, <<".", ".">>}

\* strip_suffix("/*"): a prefix rule is known by its last two characters.
IsPrefixRule(rule) ==
    Len(rule) >= 2 /\ SubSeq(rule, Len(rule) - 1, Len(rule)) = <<"/", "*">>
RulePrefix(rule) == SubSeq(rule, 1, Len(rule) - 2)

\* validate_policy_path of config.rs.
ValidRule(rule) ==
    LET exact == IF IsPrefixRule(rule) THEN RulePrefix(rule) ELSE rule IN
    /\ IsPrefix(<<"/">>, exact) /\ ~IsPrefix(<<"/", "/">>, exact)
    /\ \A c \in {"\\", "?", "#"} : ~Contains(exact, c)
    /\ ~HasDots(exact)
    /\ Contains(rule, "*") => IsPrefixRule(rule)

ASSUME PathRulesAssumption ==
    /\ MaxPathLength \in Nat
    /\ PathRuleSet \subseteq Seq(Letters) /\ \A rule \in PathRuleSet : ValidRule(rule)

\* validate_requested_path; no path of the model holds "://".
ValidRequest(path) ==
    /\ IsPrefix(<<"/">>, path) /\ ~IsPrefix(<<"/", "/">>, path)
    /\ ~Contains(path, "\\") /\ ~Contains(path, "#")
    /\ ~HasDots(PathOnly(path))

-----------------------------------------------------------------------------
\* Url::join of the url crate on a reference that begins with a slash: what it
\* strips is dropped, a backslash is a slash, two slashes begin a host, and dot
\* segments, encoded ones too, are resolved.
Strips(path) ==
    LET After[n \in 0..Len(path)] ==
            IF n = 0 THEN <<>>
            ELSE IF path[n] = "tab" THEN After[n - 1]
            ELSE Append(After[n - 1], IF path[n] = "\\" THEN "/" ELSE path[n])
    IN  After

Strip(path) == Strips(path)[Len(path)]

Decode(seg) == [i \in DOMAIN seg |-> IF seg[i] = "%2e" THEN "." ELSE seg[i]]

IsDots(seg) == Decode(seg) \in {<<".">>, <<".", ".">>}

ResolveSegment(done, seg, final) ==
    LET tail == IF final THEN <<<<>>>> ELSE <<>>
    IN  IF ~IsDots(seg) THEN Append(done, seg)
        ELSE (IF Len(seg) = 1 \/ done = <<>> THEN done ELSE Front(done)) \o tail

Resolves(segments) ==
    LET After[n \in 0..Len(segments)] ==
            IF n = 0 THEN <<>>
            ELSE ResolveSegment(After[n - 1], segments[n], n = Len(segments))
    IN  After

Resolve(segments) == Resolves(segments)[Len(segments)]

UrlJoin(path) ==
    LET raw == Tail(Split(PathOnly(Strip(path)), "/"))
        host == {i \in DOMAIN raw : raw[i] # <<>>}
        at == CHOOSE i \in host : \A j \in host : i <= j
    IN  IF Len(raw) < 2 \/ raw[1] # <<>>
        THEN [ok |-> TRUE, host |-> BaseHost, segments |-> Resolve(raw)]
        ELSE IF host = {} THEN [ok |-> FALSE, host |-> <<>>, segments |-> <<>>]
        ELSE [ok |-> TRUE, host |-> Decode(raw[at]),
              segments |-> IF at = Len(raw) THEN <<<<>>>>
                           ELSE Resolve(SubSeq(raw, at + 1, Len(raw)))]

\* Segments, written out, and the path of a URL.
Writes(segments) ==
    LET After[n \in 0..Len(segments)] ==
            IF n = 0 THEN <<>> ELSE Append(After[n - 1], "/") \o segments[n]
    IN  After

Written(segments) == Writes(segments)[Len(segments)]

PathOf(url) == Written(url.segments)

-----------------------------------------------------------------------------
BelowPrefixMatches(rule, path) ==
    IF IsPrefixRule(rule) THEN IsPrefix(Append(RulePrefix(rule), "/"), path) ELSE path = rule

\* path_matches
PathMatches(rule, path) ==
    IF IsPrefixRule(rule)
    THEN path = RulePrefix(rule) \/ IsPrefix(Append(RulePrefix(rule), "/"), path)
    ELSE path = rule

AcceptsAnyHost(path) ==
    /\ ValidRequest(path) /\ UrlJoin(path).ok
    /\ \E rule \in PathRuleSet : PathMatches(rule, PathOf(UrlJoin(path)))

AcceptsAsWritten(path) ==
    /\ ValidRequest(path) /\ UrlJoin(path).ok /\ UrlJoin(path).host = BaseHost
    /\ \E rule \in PathRuleSet : PathMatches(rule, PathOnly(path))

\* authorize_http: the resolved URL has the origin of base_url, and its path, not
\* the one the caller wrote, is matched.
Accepts(path) ==
    /\ ValidRequest(path) /\ UrlJoin(path).ok /\ UrlJoin(path).host = BaseHost
    /\ \E rule \in PathRuleSet : PathMatches(rule, PathOf(UrlJoin(path)))

VARIABLE request   \* the path that a caller names

PathInit == request = <<>>

\* Every path of the given length is reached character by character.
PathNext == Len(request) < MaxPathLength /\ \E c \in PathChars : request' = Append(request, c)

PathSpec == PathInit /\ [][PathNext]_request

-----------------------------------------------------------------------------
\* A path is under a rule when its segments begin with, or are, those of the rule.
UnderRule(segments) ==
    \E rule \in PathRuleSet :
        LET own == Tail(Split(rule, "/"))
        IN  IF IsPrefixRule(rule) THEN IsPrefix(Front(own), segments) ELSE segments = own

\* A request that is let through goes to the host of base_url and to a path under
\* a rule, segment by segment and without dot segments left, however the caller
\* writes it (README.md:95-97, policy.rs:29-52).
RequestsConfined ==
    Accepts(request) =>
        LET url == UrlJoin(request)
        IN  /\ url.host = BaseHost
            /\ UnderRule(url.segments)
            /\ \A i \in DOMAIN url.segments : ~IsDots(url.segments[i])

\* A path that is written plainly is let through exactly when it is under a rule:
\* the checks refuse nothing that the rules allow (policy.rs:61-80).
PlainRequestsDecided ==
    /\ request # <<>> /\ request[1] = "/" /\ ~Contains(Tail(request), "?")
    /\ \A c \in {"tab", "%2e", "\\", ".", "#"} : ~Contains(request, c)
    /\ ~IsPrefix(<<"/", "/">>, request)
    => (Accepts(request) <=> UnderRule(Tail(Split(request, "/"))))
=============================================================================
