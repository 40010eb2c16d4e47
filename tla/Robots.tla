------------------------------- MODULE Robots -------------------------------
(***************************************************************************)
(* The robots.txt policy a crawl worker asks before it scrapes a page      *)
(* (robots_allows of apps/api/src/web_extract.rs): which group of rules    *)
(* speaks to the agent, which rule fits the path best, and what the        *)
(* matcher makes of the wildcards * and $.                                 *)
(*                                                                         *)
(* Reading the file into groups and splitting a pattern at its stars are   *)
(* left out: a pattern is the sequence of the pieces between its stars,    *)
(* and whether it ended with $.                                            *)
(***************************************************************************)
EXTENDS Naturals, FiniteSets, SequencesExt, FiniteSetsExt

CONSTANTS
    Characters,
    RobotPaths,  \* paths, as sequences of characters
    Slash,     \* the character that ends a directory
    Files,     \* robots.txt files: sets of groups [agents, rules], a rule being
               \* [allow, pattern], a pattern [pieces, anchored]
    AgentSize, \* per agent name of a file: how many characters of the
               \* requesting agent it matches, 0 for *
    Strange    \* the agent names that do not occur in the requesting agent

PatternType == [pieces : Seq(Seq(Characters)), anchored : BOOLEAN]

ASSUME RobotsAssumption ==
    /\ Slash \in Characters
    /\ \A text \in RobotPaths : text \in Seq(Characters)
    /\ \A groups \in Files : \A g \in groups : \A r \in g.rules :
          r.allow \in BOOLEAN /\ r.pattern \in PatternType /\ r.pattern.pieces # << >>

VARIABLES
    file,    \* the file of the site
    site,    \* "read": the file was; "silent": it could not be fetched;
             \* "private": the URL of the page is not a public one
    path,    \* the path of the page (a query would follow it)
    verdict  \* what robots_allows returned

robotsVars == <<file, site, path, verdict>>

Length(pattern) ==
    LET pieces == pattern.pieces
        upTo[i \in 0 .. Len(pieces)] == IF i = 0 THEN 0 ELSE upTo[i - 1] + Len(pieces[i])
    IN upTo[Len(pieces)]

-----------------------------------------------------------------------------
(* robots_pattern_match.                                                   *)

Occurs(piece, text, at) ==
    /\ at + Len(piece) <= Len(text)
    /\ SubSeq(text, at + 1, at + Len(piece)) = piece

Miss(text) == Len(text) + 1

BadFind(piece, text, from) ==
    LET places == {at \in 0 .. Len(text) : Occurs(piece, text, at)}
    IN IF places = {} THEN Miss(text) ELSE Min(places) + Len(piece)

(* str::find from an offset: the end of the leftmost occurrence.           *)
Find(piece, text, from) ==
    LET places == {at \in from .. Len(text) : Occurs(piece, text, at)}
    IN IF places = {} THEN Miss(text) ELSE Min(places) + Len(piece)

(* The offset after the i-th piece; an empty piece is skipped, the first   *)
(* one must be a prefix.                                                   *)
After(piece, i, text, from) ==
    IF from = Miss(text) \/ piece = << >> THEN from
    ELSE IF i > 1 THEN Find(piece, text, from)
    ELSE IF Occurs(piece, text, 0) THEN Len(piece) ELSE Miss(text)

Offset(pattern, text) ==
    LET pieces == pattern.pieces
        after[i \in 0 .. Len(pieces)] ==
            IF i = 0 THEN 0 ELSE After(pieces[i], i, text, after[i - 1])
    IN after[Len(pieces)]

Fits(pattern, text) ==
    /\ Offset(pattern, text) # Miss(text)
    /\ pattern.anchored => Offset(pattern, text) = Len(text)

-----------------------------------------------------------------------------
(* robots_text_allows.                                                     *)

Names(groups) == (UNION {g.agents : g \in groups}) \ Strange
BestSize(groups) == Max({AgentSize[a] : a \in Names(groups)})

(* The rules of all groups that match the agent best.                      *)
RulesFor(groups) ==
    UNION {g.rules : g \in {x \in groups :
              \E a \in x.agents \ Strange : AgentSize[a] = BestSize(groups)}}

(* max_by_key (length, allow).                                             *)
Prevails(r, s) ==
    \/ Length(r.pattern) > Length(s.pattern)
    \/ Length(r.pattern) = Length(s.pattern) /\ (s.allow => r.allow)

Permits(groups, text) ==
    LET fitting == {r \in RulesFor(groups) : Fits(r.pattern, text)} IN
    Names(groups) # {} /\ fitting # {} =>
        (CHOOSE r \in fitting : \A s \in fitting : Prevails(r, s)).allow

(* robots_allows: also with a slash behind the path.                       *)
Allows(groups, text) ==
    /\ Permits(groups, text)
    /\ Last(text) = Slash \/ Permits(groups, Append(text, Slash))

RobotsInit ==
    /\ file \in Files /\ site \in {"private", "silent", "read"} /\ path \in RobotPaths
    /\ verdict = "unasked"

(* A file that cannot be fetched allows everything; for a URL that is not  *)
(* public none is asked for.                                               *)
Verdict ==
    IF site = "silent" \/ (site = "read" /\ Allows(file, path))
    THEN "allowed" ELSE "excluded"

Decide ==
    /\ verdict = "unasked"
    /\ verdict' = Verdict
    /\ UNCHANGED <<file, site, path>>

RobotsNext == Decide
RobotsSpec == RobotsInit /\ [][RobotsNext]_robotsVars

-----------------------------------------------------------------------------
(* What the rules mean: there are places for all pieces of the pattern, in *)
(* their order, the first at the start and, under $, the last at the end.  *)
Means(pattern, text) ==
    LET n == Len(pattern.pieces) IN
    \E ends \in [1 .. n -> 0 .. Len(text)] :
        /\ \A i \in 1 .. n :
              LET begin == ends[i] - Len(pattern.pieces[i]) IN
              /\ begin >= 0 /\ Occurs(pattern.pieces[i], text, begin)
              /\ IF i = 1 THEN begin = 0 ELSE begin >= ends[i - 1]
        /\ pattern.anchored => ends[n] = Len(text)

(* A text is excluded when a rule that means it disallows it and no        *)
(* allowing rule that means it is as long.                                 *)
Excluded(text) ==
    \E r \in RulesFor(file) :
        /\ ~r.allow /\ Means(r.pattern, text)
        /\ \A s \in RulesFor(file) :
              s.allow /\ Means(s.pattern, text) => Length(s.pattern) < Length(r.pattern)

(* A rule that speaks for a directory of that name and not for the page,   *)
(* or allows the page and not the directory.                               *)
TellsDirectory(r) ==
    LET page == Means(r.pattern, path)
        directory == Means(r.pattern, Append(path, Slash))
    IN IF r.allow THEN page /\ ~directory ELSE directory /\ ~page

Decided == verdict # "unasked" /\ site = "read"

(* Some pattern has both * and $.                                          *)
StarAnchored ==
    \E g \in file : \E r \in g.rules : r.pattern.anchored /\ Len(r.pattern.pieces) > 1

(* Matching each piece at its leftmost place and ranking by length is      *)
(* right, whatever groups, stars, ends and ties a file has: a page the     *)
(* file excludes is not scraped, and a page that is refused is excluded    *)
(* or, as robots_allows asks for the path with a slash behind it too, has  *)
(* a rule that tells it from a directory (robots_text_allows,              *)
(* robots_pattern_match).  It is wrong with * and $ in one pattern (see    *)
(* README.md).                                                             *)
RulesObeyed ==
    Decided /\ ~StarAnchored =>
        /\ verdict = "allowed" => ~Excluded(path)
        /\ verdict = "excluded" =>
              \/ Excluded(path)
              \/ Last(path) # Slash /\ \E r \in RulesFor(file) : TellsDirectory(r)

(* web_extract.rs:2040: a page that an Allow with $ names, and no longer   *)
(* Disallow, is let through.                                               *)
ExactAllowHeld ==
    Decided /\ ~StarAnchored =>
        \A s \in RulesFor(file) :
            /\ s.allow /\ s.pattern.anchored /\ Means(s.pattern, path)
            /\ \A r \in RulesFor(file) :
                  ~r.allow /\ Means(r.pattern, path) => Length(r.pattern) <= Length(s.pattern)
            => verdict = "allowed"
=============================================================================
