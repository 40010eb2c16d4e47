---------------------------- MODULE Sites_proofs ----------------------------
(***************************************************************************)
(* What comes from other sites, for any pages, links, rules and answers: a *)
(* crawl stays in the scope of its start, a page is scraped when the rules *)
(* of its site allow it, and a search is answered in the order of its      *)
(* provider.                                                               *)
(***************************************************************************)
EXTENDS SiteLinks, Robots, Search, Subsequences_proofs, SequenceTheorems,
        FiniteSetTheorems, TLAPS

-----------------------------------------------------------------------------
(* The scope of a crawl.  Every page is compared with the page it was      *)
(* found on; that the crawl stays under its start follows because          *)
(* "subdomain of" and "path starts with" are transitive (LinksAssumption). *)

(* A link stays a link when its fragment and its query are taken off. *)
LEMMA CanonicalType ==
  ASSUME NEW l \in LinkType, policy \in PolicyType
  PROVE  Canonical(l) \in LinkType
<1> DEFINE hash == IF l.hash = "anchor" THEN "none" ELSE l.hash
           kept == l.query /\ ~policy.ignoreQuery
<1>1. hash \in {"none", "anchor", "route"}
  BY DEF LinkType
<1>2. kept \in BOOLEAN
  OBVIOUS
<1>3. Canonical(l) = [l EXCEPT !.hash = hash, !.query = kept]
  BY DEF Canonical, LinkType
<1> HIDE DEF hash, kept
<1>4. [l EXCEPT !.hash = hash, !.query = kept] \in LinkType
  BY <1>1, <1>2 DEF LinkType
<1>5. QED
  BY <1>3, <1>4

(* One comparison of hosts after another is a comparison. *)
LEMMA SameSiteTransitive ==
  ASSUME NEW a \in LinkType, NEW b \in LinkType, NEW c \in LinkType,
         SameSite(a, b), SameSite(b, c)
  PROVE  SameSite(a, c)
<1>1. a.host \in Hosts /\ b.host \in Hosts /\ c.host \in Hosts
  BY DEF LinkType
<1>2. QED
  BY <1>1, LinksAssumption DEF SameSite

(* What the discovery on a page adds to it. *)
LEMMA DiscoveredInScope ==
  ASSUME NEW p \in LinkType, NEW listed \in Listings, policy \in PolicyType,
         NEW u \in Discovered(p, listed), u # p
  PROVE  u \in LinkType /\ InScope(p, u)
<1>1. PICK l \in listed : u = Canonical(l) /\ InScope(p, u)
  BY DEF Discovered
<1>2. l \in LinkType
  BY LinksAssumption
<1>3. QED
  BY <1>1, <1>2, CanonicalType

(* ScopeHeld is inductive once the found URLs are known to be links. *)
LinksInv ==
    /\ policy \in PolicyType
    /\ found \subseteq LinkType
    /\ ScopeHeld

LEMMA LinksStart == LinksInit => LinksInv
<1> SUFFICES ASSUME LinksInit PROVE LinksInv
  OBVIOUS
<1>1. policy \in PolicyType /\ found = {Start} /\ Start \in LinkType
  BY LinksAssumption DEF LinksInit
<1>2. Start.path \in Paths
  BY <1>1 DEF LinkType
<1>3. QED
  BY <1>1, <1>2, LinksAssumption DEF LinksInv, ScopeHeld, SameSite

LEMMA LinksStep == LinksInv /\ [LinksNext]_linkVars => LinksInv'
<1> SUFFICES ASSUME LinksInv, [LinksNext]_linkVars PROVE LinksInv'
  OBVIOUS
<1>1. /\ policy \in PolicyType /\ found \subseteq LinkType
      /\ Start \in LinkType
  BY LinksAssumption DEF LinksInv
<1>2. ASSUME NEW p \in found, NEW listed \in Listings, NEW fresh \in SUBSET Discovered(p, listed),
             Crawl(p, listed, fresh)
      PROVE  LinksInv'
  <2>1. policy' = policy /\ found' = found \cup fresh
    BY <1>2 DEF Crawl
  <2>2. ASSUME NEW u \in fresh
        PROVE  u \in LinkType /\ InScope(p, u) /\ PatternsAllow(u)
    <3>1. u \in Discovered(p, listed) /\ u \notin found /\ PatternsAllow(u)
      BY <1>2, <2>2 DEF Crawl
    <3>2. QED
      BY <3>1, <1>1, DiscoveredInScope
  <2>3. ASSUME NEW u \in fresh, ~policy.external PROVE SameSite(Start, u)
    <3>1. SameSite(Start, p)
      BY <2>3 DEF LinksInv, ScopeHeld
    <3>2. SameSite(p, u)
      BY <2>2, <2>3 DEF InScope
    <3>3. QED
      BY <1>1, <2>2, <3>1, <3>2, SameSiteTransitive
  <2>4. ASSUME NEW u \in fresh, ~policy.external, ~policy.entire
        PROVE  <<Start.path, u.path>> \in Prefix
    <3>1. <<Start.path, p.path>> \in Prefix
      BY <2>4 DEF LinksInv, ScopeHeld
    <3>2. <<p.path, u.path>> \in Prefix
      BY <2>2, <2>4 DEF InScope
    <3>3. Start.path \in Paths /\ p.path \in Paths /\ u.path \in Paths
      BY <1>1, <2>2 DEF LinkType
    <3>4. QED
      BY <3>1, <3>2, <3>3, LinksAssumption
  <2>5. QED
    BY <1>1, <2>1, <2>2, <2>3, <2>4 DEF LinksInv, ScopeHeld, SameSite, PatternsAllow
<1>3. ASSUME NEW p \in found, Fail(p) PROVE LinksInv'
  BY <1>3 DEF Fail, LinksInv, ScopeHeld, SameSite, PatternsAllow
<1>4. CASE UNCHANGED linkVars
  BY <1>4 DEF linkVars, LinksInv, ScopeHeld, SameSite, PatternsAllow
<1>5. QED
  BY <1>2, <1>3, <1>4 DEF LinksNext

(* The crawl stays in the scope of its request (filter_links,              *)
(* url_allowed_by_patterns), although discovery knows only the page it     *)
(* starts from.                                                            *)
THEOREM ScopeTheorem == LinksSpec => []ScopeHeld
<1>1. LinksInv => ScopeHeld
  BY DEF LinksInv
<1>2. QED
  BY <1>1, LinksStart, LinksStep, PTL DEF LinksSpec

-----------------------------------------------------------------------------
(* Robots: what the matcher makes of a pattern.                            *)

LEMMA LengthRecursion ==
  ASSUME NEW pattern \in PatternType
  PROVE  \E f : /\ Length(pattern) = f[Len(pattern.pieces)]
                /\ f[0] = 0
                /\ \A i \in 1 .. Len(pattern.pieces) : f[i] = f[i - 1] + Len(pattern.pieces[i])
<1> DEFINE pieces == pattern.pieces
           Step(g, i) == IF i = 0 THEN 0 ELSE g[i - 1] + Len(pieces[i])
           f == CHOOSE g : g = [i \in 0 .. Len(pieces) |-> Step(g, i)]
           P == {n \in Nat : \E g : g = [i \in 0 .. n |-> Step(g, i)]}
<1>1. 0 \in P
  <2>1. [i \in 0 .. 0 |-> 0] = [i \in 0 .. 0 |-> Step([j \in 0 .. 0 |-> 0], i)]
    OBVIOUS
  <2>2. QED
    BY <2>1
<1>2. ASSUME NEW n \in Nat, n \in P PROVE n + 1 \in P
  <2>1. PICK g : g = [i \in 0 .. n |-> Step(g, i)]
    BY <1>2
  <2> DEFINE h == [i \in 0 .. n + 1 |-> IF i = n + 1 THEN Step(g, n + 1) ELSE g[i]]
  <2>2. \A i \in 0 .. n : h[i] = g[i]
    OBVIOUS
  <2>3. \A i \in 0 .. n + 1 : Step(h, i) = Step(g, i)
    <3> SUFFICES ASSUME NEW i \in 0 .. n + 1, i # 0 PROVE h[i - 1] = g[i - 1]
      OBVIOUS
    <3>1. i - 1 \in 0 .. n
      OBVIOUS
    <3>2. QED
      BY <2>2, <3>1
  <2>4. \A i \in 0 .. n + 1 : h[i] = Step(g, i)
    <3> SUFFICES ASSUME NEW i \in 0 .. n + 1, i # n + 1 PROVE g[i] = Step(g, i)
      OBVIOUS
    <3> HIDE DEF Step, h
    <3>1. i \in 0 .. n
      OBVIOUS
    <3>2. QED
      BY <2>1, <3>1
  <2>5. h = [i \in 0 .. n + 1 |-> h[i]]
    OBVIOUS
  <2> HIDE DEF h, Step
  <2>6. h = [i \in 0 .. n + 1 |-> Step(h, i)]
    BY <2>3, <2>4, <2>5
  <2>7. QED
    BY <2>6
<1>3. Len(pieces) \in Nat
  BY DEF PatternType
<1>4. Len(pieces) \in P
  <2> HIDE DEF P
  <2>1. QED
    BY <1>1, <1>2, <1>3, SetInduction
<1>5. f = [i \in 0 .. Len(pieces) |-> Step(f, i)]
  <2> HIDE DEF Step
  <2>1. QED
    BY <1>4
<1>6. Length(pattern) = f[Len(pieces)]
  BY DEF Length
<1> HIDE DEF f
<1>7. \A i \in 0 .. Len(pieces) : f[i] = Step(f, i)
  <2> HIDE DEF Step
  <2>1. QED
    BY <1>5
<1>8. f[0] = 0 /\ \A i \in 1 .. Len(pieces) : f[i] = f[i - 1] + Len(pieces[i])
  BY <1>3, <1>7
<1>9. QED
  BY <1>6, <1>8

LEMMA OffsetRecursion ==
  ASSUME NEW pattern \in PatternType, NEW text
  PROVE  \E f : /\ Offset(pattern, text) = f[Len(pattern.pieces)]
                /\ f[0] = 0
                /\ \A i \in 1 .. Len(pattern.pieces) :
                      f[i] = After(pattern.pieces[i], i, text, f[i - 1])
<1> DEFINE pieces == pattern.pieces
           Step(g, i) == IF i = 0 THEN 0 ELSE After(pieces[i], i, text, g[i - 1])
           f == CHOOSE g : g = [i \in 0 .. Len(pieces) |-> Step(g, i)]
           P == {n \in Nat : \E g : g = [i \in 0 .. n |-> Step(g, i)]}
<1>1. 0 \in P
  <2>1. [i \in 0 .. 0 |-> 0] = [i \in 0 .. 0 |-> Step([j \in 0 .. 0 |-> 0], i)]
    OBVIOUS
  <2>2. QED
    BY <2>1
<1>2. ASSUME NEW n \in Nat, n \in P PROVE n + 1 \in P
  <2>1. PICK g : g = [i \in 0 .. n |-> Step(g, i)]
    BY <1>2
  <2> DEFINE h == [i \in 0 .. n + 1 |-> IF i = n + 1 THEN Step(g, n + 1) ELSE g[i]]
  <2>2. \A i \in 0 .. n : h[i] = g[i]
    OBVIOUS
  <2>3. \A i \in 0 .. n + 1 : Step(h, i) = Step(g, i)
    <3> SUFFICES ASSUME NEW i \in 0 .. n + 1, i # 0 PROVE h[i - 1] = g[i - 1]
      OBVIOUS
    <3>1. i - 1 \in 0 .. n
      OBVIOUS
    <3>2. QED
      BY <2>2, <3>1
  <2>4. \A i \in 0 .. n + 1 : h[i] = Step(g, i)
    <3> SUFFICES ASSUME NEW i \in 0 .. n + 1, i # n + 1 PROVE g[i] = Step(g, i)
      OBVIOUS
    <3> HIDE DEF Step, h
    <3>1. i \in 0 .. n
      OBVIOUS
    <3>2. QED
      BY <2>1, <3>1
  <2>5. h = [i \in 0 .. n + 1 |-> h[i]]
    OBVIOUS
  <2> HIDE DEF h, Step
  <2>6. h = [i \in 0 .. n + 1 |-> Step(h, i)]
    BY <2>3, <2>4, <2>5
  <2>7. QED
    BY <2>6
<1>3. Len(pieces) \in Nat
  BY DEF PatternType
<1>4. Len(pieces) \in P
  <2> HIDE DEF P
  <2>1. QED
    BY <1>1, <1>2, <1>3, SetInduction
<1>5. f = [i \in 0 .. Len(pieces) |-> Step(f, i)]
  <2> HIDE DEF Step
  <2>1. QED
    BY <1>4
<1>6. Offset(pattern, text) = f[Len(pieces)]
  BY DEF Offset
<1> HIDE DEF f
<1>7. \A i \in 0 .. Len(pieces) : f[i] = Step(f, i)
  <2> HIDE DEF Step
  <2>1. QED
    BY <1>5
<1>8. f[0] = 0 /\ \A i \in 1 .. Len(pieces) : f[i] = After(pieces[i], i, text, f[i - 1])
  BY <1>3, <1>7
<1>9. QED
  BY <1>6, <1>8

(* A piece that is found begins where it occurs, not before `from`, and    *)
(* nowhere before that; it is missed when it occurs nowhere.               *)
LEMMA FindLeftmost ==
  ASSUME NEW text \in Seq(Characters), NEW piece \in Seq(Characters), NEW from \in Nat
  PROVE  \/ /\ Find(piece, text, from) = Miss(text)
            /\ \A p \in from .. Len(text) : ~Occurs(piece, text, p)
         \/ \E p \in from .. Len(text) :
               /\ Find(piece, text, from) = p + Len(piece) /\ Occurs(piece, text, p)
               /\ \A q \in from .. Len(text) : Occurs(piece, text, q) => p <= q
<1> DEFINE places == {p \in from .. Len(text) : Occurs(piece, text, p)}
<1>1. CASE places = {}
  BY <1>1 DEF Find
<1>2. CASE places # {}
  <2>1. places \subseteq Nat
    OBVIOUS
  <2>2. Min(places) \in places /\ \A q \in places : Min(places) <= q
    <3> HIDE DEF places
    <3>1. QED
      BY <1>2, <2>1, LeastElement DEF Min
  <2>3. Find(piece, text, from) = Min(places) + Len(piece)
    BY <1>2 DEF Find
  <2>4. QED
    BY <2>2, <2>3
<1>3. QED
  BY <1>1, <1>2

(* The step over one piece: it ends within the text and behind the piece,  *)
(* which occurs right before that, or misses for good.                     *)
LEMMA AfterPiece ==
  ASSUME NEW text \in Seq(Characters), NEW piece \in Seq(Characters), NEW i \in Nat \ {0},
         NEW from \in Nat, i = 1 => from = 0,
         from <= Len(text) \/ from = Miss(text)
  PROVE  LET end == After(piece, i, text, from)
         IN \/ end = Miss(text)
            \/ /\ from <= Len(text) /\ end \in 0 .. Len(text)
               /\ from + Len(piece) <= end
               /\ Occurs(piece, text, end - Len(piece))
               /\ i = 1 => end = Len(piece)
<1> DEFINE end == After(piece, i, text, from)
<1>1. Len(text) \in Nat /\ Len(piece) \in Nat /\ Miss(text) = Len(text) + 1
  BY DEF Miss
<1>2. \A p : Occurs(piece, text, p) => p + Len(piece) <= Len(text)
  BY DEF Occurs
<1>3. CASE from = Miss(text)
  BY <1>3 DEF After
<1>4. CASE from # Miss(text) /\ piece = << >>
  <2>1. end = from /\ Len(piece) = 0
    BY <1>4 DEF After
  <2>2. SubSeq(text, from + 1, from) = << >>
    BY SubSeqEmpty
  <2>3. Occurs(piece, text, from)
    BY <1>1, <1>4, <2>1, <2>2 DEF Occurs
  <2>4. QED
    BY <1>1, <1>4, <2>1, <2>3
<1>5. CASE from # Miss(text) /\ piece # << >> /\ i > 1
  <2>1. end = Find(piece, text, from)
    BY <1>5 DEF After
  <2>2. CASE end # Miss(text)
    <3>1. PICK p \in from .. Len(text) : end = p + Len(piece) /\ Occurs(piece, text, p)
      BY <2>1, <2>2, FindLeftmost
    <3>2. p + Len(piece) <= Len(text) /\ p \in Nat /\ end - Len(piece) = p
      BY <1>1, <1>2, <3>1
    <3>3. QED
      BY <1>1, <1>5, <3>1, <3>2
  <2>3. QED
    BY <2>2
<1>6. CASE from # Miss(text) /\ piece # << >> /\ ~(i > 1)
  <2>1. i = 1 /\ from = 0
    BY <1>6
  <2>2. end = IF Occurs(piece, text, 0) THEN Len(piece) ELSE Miss(text)
    BY <1>6 DEF After
  <2>3. Len(piece) - Len(piece) = 0 /\ 0 + Len(piece) = Len(piece)
    BY <1>1
  <2>4. QED
    BY <1>1, <1>2, <2>1, <2>2, <2>3
<1>7. QED
  BY <1>3, <1>4, <1>5, <1>6

(* No place for the piece that leaves room for the rest ends earlier.      *)
LEMMA AfterEarliest ==
  ASSUME NEW text \in Seq(Characters), NEW piece \in Seq(Characters), NEW i \in Nat \ {0},
         NEW from \in Nat, from <= Len(text), NEW begin \in Nat,
         Occurs(piece, text, begin), from <= begin, i = 1 => begin = 0
  PROVE  After(piece, i, text, from) \in Nat /\ After(piece, i, text, from) <= begin + Len(piece)
<1> DEFINE end == After(piece, i, text, from)
<1>1. Len(text) \in Nat /\ Len(piece) \in Nat /\ from # Miss(text) /\ begin + Len(piece) <= Len(text)
  BY DEF Miss, Occurs
<1>2. CASE piece = << >>
  <2>1. end = from
    BY <1>1, <1>2 DEF After
  <2>2. QED
    BY <1>1, <2>1
<1>3. CASE piece # << >> /\ i > 1
  <2>1. end = Find(piece, text, from)
    BY <1>1, <1>3 DEF After
  <2>2. begin \in from .. Len(text)
    BY <1>1
  <2>3. PICK p \in from .. Len(text) : end = p + Len(piece) /\ p <= begin
    BY <2>1, <2>2, FindLeftmost
  <2>4. QED
    BY <1>1, <2>3
<1>4. CASE piece # << >> /\ ~(i > 1)
  <2>1. i = 1 /\ begin = 0
    BY <1>4
  <2>2. end = Len(piece)
    BY <1>1, <1>4, <2>1 DEF After
  <2>3. QED
    BY <1>1, <2>1, <2>2
<1>5. QED
  BY <1>2, <1>3, <1>4

(* The pieces of a pattern stand in a text at these ends, in their order.  *)
Stand(pattern, text, ends) ==
    \A i \in 1 .. Len(pattern.pieces) :
       LET begin == ends[i] - Len(pattern.pieces[i]) IN
       /\ begin >= 0 /\ Occurs(pattern.pieces[i], text, begin)
       /\ IF i = 1 THEN begin = 0 ELSE begin >= ends[i - 1]

(* The offsets of a pattern that is matched are the ends of its pieces,    *)
(* and there are at least as many characters before them as in the pieces. *)
LEMMA OffsetEnds ==
  ASSUME NEW text \in Seq(Characters), NEW pattern \in PatternType,
         Offset(pattern, text) # Miss(text)
  PROVE  /\ Length(pattern) \in Nat /\ Length(pattern) <= Len(text)
         /\ \E ends \in [1 .. Len(pattern.pieces) -> 0 .. Len(text)] : Stand(pattern, text, ends)
<1> DEFINE pieces == pattern.pieces
           n == Len(pieces)
<1>1. /\ n \in Nat /\ Len(text) \in Nat /\ Miss(text) = Len(text) + 1
      /\ \A i \in 1 .. n : pieces[i] \in Seq(Characters) /\ Len(pieces[i]) \in Nat
  BY DEF PatternType, Miss
<1>2. PICK f : /\ Offset(pattern, text) = f[n] /\ f[0] = 0
               /\ \A i \in 1 .. n : f[i] = After(pieces[i], i, text, f[i - 1])
  BY OffsetRecursion
<1>3. PICK l : /\ Length(pattern) = l[n] /\ l[0] = 0
               /\ \A i \in 1 .. n : l[i] = l[i - 1] + Len(pieces[i])
  BY LengthRecursion
<1> HIDE DEF n, pieces
<1> DEFINE Reached(i) == f[i] \in Nat /\ f[i] <= Len(text) /\ l[i] \in Nat /\ l[i] <= f[i]
           P == {i \in Nat : i <= n => f[i] = Miss(text) \/ Reached(i)}
<1>4. 0 \in P
  BY <1>1, <1>2, <1>3
<1>5. ASSUME NEW i \in Nat, i < n, f[i] = Miss(text) \/ Reached(i)
      PROVE  /\ f[i + 1] = Miss(text) \/ Reached(i + 1)
             /\ f[i + 1] # Miss(text) => /\ f[i] # Miss(text)
                                         /\ f[i] + Len(pieces[i + 1]) <= f[i + 1]
                                         /\ Occurs(pieces[i + 1], text, f[i + 1] - Len(pieces[i + 1]))
                                         /\ i = 0 => f[i + 1] = Len(pieces[i + 1])
  <2>1. i + 1 \in 1 .. n /\ i + 1 \in Nat \ {0} /\ (i + 1) - 1 = i /\ (i + 1 = 1 <=> i = 0)
    BY <1>1, <1>5
  <2>2. f[i + 1] = After(pieces[i + 1], i + 1, text, f[i]) /\ l[i + 1] = l[i] + Len(pieces[i + 1])
    BY <1>2, <1>3, <2>1
  <2>3. /\ f[i] \in Nat /\ (i = 0 => f[i] = 0) /\ (f[i] <= Len(text) \/ f[i] = Miss(text))
        /\ pieces[i + 1] \in Seq(Characters) /\ Len(pieces[i + 1]) \in Nat
    BY <1>1, <1>2, <1>5, <2>1
  <2>4. \/ f[i + 1] = Miss(text)
        \/ /\ f[i] <= Len(text) /\ f[i + 1] \in 0 .. Len(text)
           /\ f[i] + Len(pieces[i + 1]) <= f[i + 1]
           /\ Occurs(pieces[i + 1], text, f[i + 1] - Len(pieces[i + 1]))
           /\ i = 0 => f[i + 1] = Len(pieces[i + 1])
    BY <2>1, <2>2, <2>3, AfterPiece
  <2>5. CASE f[i + 1] = Miss(text)
    BY <2>5
  <2>6. CASE f[i + 1] # Miss(text)
    <3>1. f[i] # Miss(text)
      BY <1>1, <2>3, <2>4, <2>6
    <3>2. Reached(i)
      BY <1>5, <3>1
    <3>3. Reached(i + 1)
      BY <1>1, <2>2, <2>3, <2>4, <2>6, <3>2
    <3>4. QED
      BY <2>4, <2>6, <3>1, <3>3
  <2>7. QED
    BY <2>5, <2>6
<1>6. ASSUME NEW i \in Nat, i \in P PROVE i + 1 \in P
  <2> SUFFICES ASSUME i + 1 <= n PROVE f[i + 1] = Miss(text) \/ Reached(i + 1)
    OBVIOUS
  <2>1. i < n /\ i <= n
    BY <1>1
  <2>2. f[i] = Miss(text) \/ Reached(i)
    BY <1>6, <2>1
  <2> HIDE DEF Reached
  <2>3. QED
    BY <1>5, <2>1, <2>2
<1>7. Nat \subseteq P
  <2> HIDE DEF P
  <2>1. QED
    BY <1>4, <1>6, SetInduction
<1>8. \A i \in 0 .. n : f[i] = Miss(text) \/ Reached(i)
  <2> SUFFICES ASSUME NEW i \in 0 .. n PROVE f[i] = Miss(text) \/ Reached(i)
    OBVIOUS
  <2>1. i \in P /\ i <= n
    BY <1>1, <1>7
  <2>2. QED
    BY <2>1
(* What was reached was reached piece by piece. *)
<1>9. \A i \in 0 .. n : Reached(i)
  <2> DEFINE B == {k \in Nat : k <= n => f[n - k] # Miss(text)}
  <2>1. 0 \in B
    BY <1>1, <1>2 DEF n, pieces
  <2>2. ASSUME NEW k \in Nat, k \in B PROVE k + 1 \in B
    <3> SUFFICES ASSUME k + 1 <= n PROVE f[n - (k + 1)] # Miss(text)
      OBVIOUS
    <3> DEFINE i == n - (k + 1)
    <3>1. i \in Nat /\ i < n /\ i \in 0 .. n /\ i + 1 = n - k /\ k <= n
      BY <1>1
    <3>2. f[i + 1] # Miss(text)
      BY <2>2, <3>1
    <3> HIDE DEF i, Reached
    <3>3. f[i] # Miss(text)
      BY <1>5, <1>8, <3>1, <3>2
    <3>4. QED
      BY <3>3 DEF i
  <2>3. Nat \subseteq B
    <3> HIDE DEF B
    <3>1. QED
      BY <2>1, <2>2, SetInduction
  <2> SUFFICES ASSUME NEW i \in 0 .. n PROVE Reached(i)
    OBVIOUS
  <2>4. n - i \in B /\ n - i <= n /\ n - (n - i) = i
    <3>1. n - i \in Nat /\ n - i <= n /\ n - (n - i) = i
      BY <1>1
    <3> HIDE DEF B
    <3>2. QED
      BY <2>3, <3>1
  <2>5. f[i] # Miss(text)
    BY <2>4
  <2> HIDE DEF Reached
  <2>6. QED
    BY <1>8, <2>5
<1>10. Length(pattern) \in Nat /\ Length(pattern) <= Len(text)
  <2>1. Reached(n)
    BY <1>1, <1>9
  <2>2. QED
    BY <1>1, <1>3, <2>1 DEF n, pieces
<1> DEFINE ends == [i \in 1 .. n |-> f[i]]
<1>11. ends \in [1 .. n -> 0 .. Len(text)]
  BY <1>1, <1>9
<1>12. ASSUME NEW i \in 1 .. n
       PROVE  LET begin == ends[i] - Len(pieces[i]) IN
              /\ begin >= 0 /\ Occurs(pieces[i], text, begin)
              /\ IF i = 1 THEN begin = 0 ELSE begin >= ends[i - 1]
  <2>1. i - 1 \in Nat /\ i - 1 < n /\ i - 1 \in 0 .. n /\ i \in 0 .. n /\ (i - 1) + 1 = i
    BY <1>1
  <2>2. Reached(i - 1) /\ Reached(i)
    BY <1>9, <2>1
  <2>3. f[i] # Miss(text)
    BY <1>1, <2>2
  <2>4. /\ f[i - 1] + Len(pieces[i]) <= f[i]
        /\ Occurs(pieces[i], text, f[i] - Len(pieces[i]))
        /\ i - 1 = 0 => f[i] = Len(pieces[i])
    <3> HIDE DEF Reached
    <3>1. QED
      BY <1>5, <2>1, <2>2, <2>3
  <2>5. ends[i] = f[i] /\ (i # 1 => ends[i - 1] = f[i - 1]) /\ Len(pieces[i]) \in Nat
    BY <1>1, <2>1
  <2> HIDE DEF ends
  <2>6. QED
    BY <2>1, <2>2, <2>4, <2>5
<1>13. QED
  <2>1. Stand(pattern, text, ends)
    <3> HIDE DEF ends
    <3>1. QED
      BY <1>12 DEF Stand, n, pieces
  <2>2. QED
    BY <1>10, <1>11, <2>1 DEF n, pieces

(* The offsets stay at or before any places there are for the pieces. *)
LEMMA OffsetEarliest ==
  ASSUME NEW text \in Seq(Characters), NEW pattern \in PatternType,
         NEW ends \in [1 .. Len(pattern.pieces) -> 0 .. Len(text)],
         Stand(pattern, text, ends)
  PROVE  Offset(pattern, text) # Miss(text)
<1> DEFINE pieces == pattern.pieces
           n == Len(pieces)
<1>1. /\ n \in Nat /\ Len(text) \in Nat /\ Miss(text) = Len(text) + 1
      /\ \A i \in 1 .. n : pieces[i] \in Seq(Characters) /\ Len(pieces[i]) \in Nat
  BY DEF PatternType, Miss
<1>2. PICK f : /\ Offset(pattern, text) = f[n] /\ f[0] = 0
               /\ \A i \in 1 .. n : f[i] = After(pieces[i], i, text, f[i - 1])
  BY OffsetRecursion
<1>3. ASSUME NEW i \in 1 .. n
      PROVE  /\ ends[i] - Len(pieces[i]) >= 0
             /\ Occurs(pieces[i], text, ends[i] - Len(pieces[i]))
             /\ IF i = 1 THEN ends[i] - Len(pieces[i]) = 0
                         ELSE ends[i] - Len(pieces[i]) >= ends[i - 1]
  BY DEF Stand
<1>4. ASSUME NEW i \in 1 .. n PROVE ends[i] \in Nat /\ ends[i] <= Len(text)
  <2>1. ends[i] \in 0 .. Len(text)
    BY Zenon
  <2>2. QED
    BY <1>1, <2>1
<1> HIDE DEF n, pieces
<1> DEFINE P == {i \in Nat : i <= n => f[i] \in Nat /\ f[i] <= Len(text) /\ (i > 0 => f[i] <= ends[i])}
<1>5. 0 \in P
  BY <1>1, <1>2
<1>6. ASSUME NEW i \in Nat, i \in P PROVE i + 1 \in P
  <2> SUFFICES ASSUME i + 1 <= n
               PROVE  f[i + 1] \in Nat /\ f[i + 1] <= Len(text) /\ f[i + 1] <= ends[i + 1]
    OBVIOUS
  <2> DEFINE begin == ends[i + 1] - Len(pieces[i + 1])
  <2>1. /\ i + 1 \in 1 .. n /\ i + 1 \in Nat \ {0} /\ (i + 1) - 1 = i /\ i <= n
        /\ i > 0 => i \in 1 .. n /\ i + 1 # 1
    BY <1>1
  <2>2. f[i + 1] = After(pieces[i + 1], i + 1, text, f[i])
    BY <1>2, <2>1
  <2>3. /\ f[i] \in Nat /\ f[i] <= Len(text) /\ (i > 0 => f[i] <= ends[i]) /\ (i = 0 => f[i] = 0)
        /\ pieces[i + 1] \in Seq(Characters) /\ Len(pieces[i + 1]) \in Nat
    BY <1>1, <1>2, <1>6, <2>1
  <2>4. /\ begin \in Nat /\ Occurs(pieces[i + 1], text, begin) /\ (i + 1 = 1 => begin = 0)
        /\ i > 0 => begin >= ends[i]
    <3> DEFINE k == i + 1
    <3>1. /\ ends[k] - Len(pieces[k]) >= 0 /\ Occurs(pieces[k], text, ends[k] - Len(pieces[k]))
          /\ IF k = 1 THEN ends[k] - Len(pieces[k]) = 0 ELSE ends[k] - Len(pieces[k]) >= ends[k - 1]
      <4> HIDE DEF k
      <4>1. k \in 1 .. n
        BY <2>1 DEF k
      <4>2. QED
        BY <1>3, <4>1, Zenon
    <3>2. ends[k] \in Nat
      BY <1>4, <2>1
    <3>3. QED
      BY <2>1, <2>3, <3>1, <3>2
  <2>5. ends[i + 1] = begin + Len(pieces[i + 1]) /\ ends[i + 1] \in Nat /\ ends[i + 1] <= Len(text)
    BY <1>4, <2>1, <2>3
  <2> HIDE DEF begin
  <2>6. f[i] <= begin
    BY <1>4, <2>1, <2>3, <2>4
  <2>7. f[i + 1] \in Nat /\ f[i + 1] <= begin + Len(pieces[i + 1])
    BY <2>1, <2>2, <2>3, <2>4, <2>6, AfterEarliest
  <2>8. QED
    BY <1>1, <2>5, <2>7
<1>7. n \in P
  <2> HIDE DEF P
  <2>1. QED
    BY <1>1, <1>5, <1>6, SetInduction
<1>8. QED
  BY <1>1, <1>2, <1>7 DEF n, pieces

(* A pattern without stars is matched by its only piece, at the start. *)
LEMMA OffsetOfOne ==
  ASSUME NEW text \in Seq(Characters), NEW pattern \in PatternType, Len(pattern.pieces) = 1
  PROVE  Offset(pattern, text) = IF Occurs(pattern.pieces[1], text, 0)
                                 THEN Len(pattern.pieces[1]) ELSE Miss(text)
<1> DEFINE piece == pattern.pieces[1]
<1>1. Len(text) \in Nat /\ Miss(text) = Len(text) + 1 /\ piece \in Seq(Characters)
  BY DEF PatternType, Miss
<1>2. Offset(pattern, text) = After(piece, 1, text, 0)
  <2>1. PICK f : /\ Offset(pattern, text) = f[1] /\ f[0] = 0
                 /\ \A i \in 1 .. 1 : f[i] = After(pattern.pieces[i], i, text, f[i - 1])
    BY OffsetRecursion
  <2>2. f[1] = After(piece, 1, text, f[0])
    BY <2>1
  <2>3. QED
    BY <2>1, <2>2
<1> HIDE DEF piece
<1>3. CASE piece = << >>
  <2>1. Len(piece) = 0 /\ SubSeq(text, 0 + 1, 0) = << >>
    BY <1>3, SubSeqEmpty
  <2>2. Occurs(piece, text, 0)
    BY <1>1, <1>3, <2>1 DEF Occurs
  <2>3. QED
    BY <1>1, <1>2, <1>3, <2>1, <2>2 DEF After, piece
<1>4. CASE piece # << >>
  BY <1>1, <1>2, <1>4 DEF After, piece
<1>5. QED
  BY <1>3, <1>4

(* Without both * and $ the matcher does what the pattern means. *)
LEMMA FitsMeans ==
  ASSUME NEW text \in Seq(Characters), NEW pattern \in PatternType,
         ~pattern.anchored \/ Len(pattern.pieces) = 1
  PROVE  /\ Fits(pattern, text) <=> Means(pattern, text)
         /\ Fits(pattern, text) => Length(pattern) \in Nat /\ Length(pattern) <= Len(text)
<1>1. Fits(pattern, text) => Offset(pattern, text) # Miss(text)
  BY DEF Fits
<1>2. ASSUME Offset(pattern, text) # Miss(text), ~pattern.anchored PROVE Means(pattern, text)
  BY <1>2, OffsetEnds DEF Means, Stand
<1>3. ASSUME Means(pattern, text) PROVE Offset(pattern, text) # Miss(text)
  <2>1. PICK ends \in [1 .. Len(pattern.pieces) -> 0 .. Len(text)] : Stand(pattern, text, ends)
    BY <1>3 DEF Means, Stand
  <2>2. QED
    BY <2>1, OffsetEarliest
<1>4. CASE ~pattern.anchored
  BY <1>1, <1>2, <1>3, <1>4, OffsetEnds DEF Fits
<1>5. CASE pattern.anchored /\ Len(pattern.pieces) = 1
  <2> DEFINE piece == pattern.pieces[1]
  <2>1. Len(text) \in Nat /\ Miss(text) = Len(text) + 1 /\ Len(piece) \in Nat
    BY <1>5 DEF PatternType, Miss
  <2>2. Fits(pattern, text) <=> Occurs(piece, text, 0) /\ Len(piece) = Len(text)
    BY <1>5, <2>1, OffsetOfOne DEF Fits
  <2>3. ASSUME Means(pattern, text) PROVE Occurs(piece, text, 0) /\ Len(piece) = Len(text)
    <3>1. PICK ends \in [1 .. Len(pattern.pieces) -> 0 .. Len(text)] :
             Stand(pattern, text, ends) /\ ends[Len(pattern.pieces)] = Len(text)
      BY <1>5, <2>3 DEF Means, Stand
    <3>2. 1 \in 1 .. Len(pattern.pieces)
      BY <1>5
    <3>3. Occurs(piece, text, ends[1] - Len(piece)) /\ ends[1] - Len(piece) = 0
      BY <3>1, <3>2, Zenon DEF Stand
    <3>4. ends[1] = Len(text)
      BY <1>5, <3>1
    <3>5. Occurs(piece, text, 0)
      BY <3>3, Zenon
    <3>6. Len(piece) = Len(text)
      BY <2>1, <3>3, <3>4
    <3>7. QED
      BY <3>5, <3>6
  <2>4. ASSUME Occurs(piece, text, 0), Len(piece) = Len(text) PROVE Means(pattern, text)
    <3> DEFINE ends == [i \in 1 .. 1 |-> Len(text)]
    <3>1. ends \in [1 .. 1 -> 0 .. Len(text)] /\ ends[1] = Len(text)
      BY <2>1
    <3> HIDE DEF ends
    <3>2. \A i \in 1 .. 1 :
             LET begin == ends[i] - Len(pattern.pieces[i]) IN
             /\ begin >= 0 /\ Occurs(pattern.pieces[i], text, begin)
             /\ IF i = 1 THEN begin = 0 ELSE begin >= ends[i - 1]
      BY <2>1, <2>4, <3>1
    <3>3. QED
      BY <1>5, <3>1, <3>2 DEF Means
  <2>5. QED
    BY <1>1, <2>2, <2>3, <2>4, OffsetEnds
<1>6. QED
  BY <1>4, <1>5

(* Of rules that are no longer than the text one prevails over all. *)
LEMMA OnePrevails ==
  ASSUME NEW fitting, fitting # {}, NEW size \in Nat,
         \A r \in fitting : /\ r.allow \in BOOLEAN
                            /\ Length(r.pattern) \in Nat /\ Length(r.pattern) <= size
  PROVE  \E r \in fitting : \A s \in fitting : Prevails(r, s)
<1> DEFINE Q == {size - Length(r.pattern) : r \in fitting}
<1>1. Q \subseteq Nat /\ Q # {}
  OBVIOUS
<1>2. PICK least \in Q : \A m \in Q : least <= m
  <2> HIDE DEF Q
  <2>1. QED
    BY <1>1, LeastElement
<1>3. PICK r \in fitting : least = size - Length(r.pattern)
  BY <1>2
<1>4. \A s \in fitting : Length(r.pattern) >= Length(s.pattern)
  BY <1>2, <1>3
<1>5. CASE \E s \in fitting : Length(s.pattern) = Length(r.pattern) /\ s.allow
  <2>1. PICK s \in fitting : Length(s.pattern) = Length(r.pattern) /\ s.allow
    BY <1>5
  <2>2. \A x \in fitting : Prevails(s, x)
    BY <1>4, <2>1 DEF Prevails
  <2>3. QED
    BY <2>2
<1>6. CASE ~\E s \in fitting : Length(s.pattern) = Length(r.pattern) /\ s.allow
  <2>1. \A x \in fitting : Prevails(r, x)
    BY <1>4, <1>6 DEF Prevails
  <2>2. QED
    BY <2>1
<1>7. QED
  BY <1>5, <1>6

(* What is not permitted is excluded, and nothing else. *)
LEMMA PermitsUnlessExcluded ==
  ASSUME file \in Files, ~StarAnchored, NEW text \in Seq(Characters)
  PROVE  Permits(file, text) <=> ~Excluded(text)
<1> DEFINE fitting == {r \in RulesFor(file) : Fits(r.pattern, text)}
           chosen == CHOOSE r \in fitting : \A s \in fitting : Prevails(r, s)
<1>1. \A r \in RulesFor(file) :
         /\ r.allow \in BOOLEAN /\ r.pattern \in PatternType
         /\ ~r.pattern.anchored \/ Len(r.pattern.pieces) = 1
  <2> SUFFICES ASSUME NEW r \in RulesFor(file)
               PROVE  /\ r.allow \in BOOLEAN /\ r.pattern \in PatternType
                      /\ ~r.pattern.anchored \/ Len(r.pattern.pieces) = 1
    OBVIOUS
  <2> DEFINE n == Len(r.pattern.pieces)
  <2>1. PICK g \in file : r \in g.rules
    BY DEF RulesFor
  <2>2. r.allow \in BOOLEAN /\ r.pattern \in PatternType /\ r.pattern.pieces # << >>
    BY <2>1, RobotsAssumption
  <2>3. n \in Nat /\ n # 0
    BY <2>2, EmptySeq DEF PatternType
  <2>4. r.pattern.anchored => ~(n > 1)
    BY <2>1 DEF StarAnchored
  <2> HIDE DEF n
  <2>5. ~(n > 1) => n = 1
    BY <2>3
  <2>6. QED
    BY <2>2, <2>4, <2>5, Zenon DEF n
<1>2. \A r \in RulesFor(file) :
         /\ Fits(r.pattern, text) <=> Means(r.pattern, text)
         /\ Fits(r.pattern, text) => Length(r.pattern) \in Nat /\ Length(r.pattern) <= Len(text)
  <2> SUFFICES ASSUME NEW r \in RulesFor(file)
               PROVE  /\ Fits(r.pattern, text) <=> Means(r.pattern, text)
                      /\ Fits(r.pattern, text) => Length(r.pattern) \in Nat
                                                /\ Length(r.pattern) <= Len(text)
    OBVIOUS
  <2>1. r.pattern \in PatternType /\ (~r.pattern.anchored \/ Len(r.pattern.pieces) = 1)
    BY <1>1, Zenon
  <2>2. QED
    BY <2>1, FitsMeans, Zenon
<1>3. ASSUME RulesFor(file) # {} PROVE Names(file) # {}
  <2>1. PICK g \in file : \E a \in g.agents \ Strange : AgentSize[a] = BestSize(file)
    BY <1>3, Zenon DEF RulesFor
  <2>2. PICK a : a \in g.agents \ Strange
    BY <2>1
  <2>3. a \in Names(file)
    BY <2>2 DEF Names
  <2>4. QED
    BY <2>3
<1>4. Permits(file, text) <=> (fitting # {} => chosen.allow)
  BY <1>3 DEF Permits
<1>5. Excluded(text) <=> \E r \in fitting : ~r.allow /\ \A s \in fitting :
                                         s.allow => Length(s.pattern) < Length(r.pattern)
  BY <1>2 DEF Excluded
<1>6. CASE fitting = {}
  BY <1>4, <1>5, <1>6
<1>7. CASE fitting # {}
  <2>1. \A r \in fitting : r.allow \in BOOLEAN /\ Length(r.pattern) \in Nat /\ Length(r.pattern) <= Len(text)
    BY <1>1, <1>2
  <2> HIDE DEF fitting
  <2>2. chosen \in fitting /\ \A s \in fitting : Prevails(chosen, s)
    <3>1. \E r \in fitting : \A s \in fitting : Prevails(r, s)
      BY <1>7, <2>1, OnePrevails
    <3>2. QED
      BY <3>1
  <2> HIDE DEF chosen
  <2>3. ASSUME ~chosen.allow PROVE Excluded(text)
    <3>1. \A s \in fitting : s.allow => Length(s.pattern) < Length(chosen.pattern)
      BY <2>1, <2>2, <2>3 DEF Prevails
    <3>2. QED
      BY <1>5, <2>2, <2>3, <3>1
  <2>4. ASSUME chosen.allow, Excluded(text) PROVE FALSE
    <3>1. PICK r \in fitting : ~r.allow /\ \A s \in fitting :
                                  s.allow => Length(s.pattern) < Length(r.pattern)
      BY <1>5, <2>4
    <3>2. Length(chosen.pattern) < Length(r.pattern) /\ Prevails(chosen, r)
      BY <2>2, <2>4, <3>1
    <3>3. QED
      BY <2>1, <2>2, <3>2 DEF Prevails
  <2>5. QED
    BY <1>4, <1>7, <2>3, <2>4
<1>8. QED
  BY <1>6, <1>7

(* A directory is excluded and the page is not because of a rule that      *)
(* tells them apart.                                                       *)
LEMMA OnlyDirectoryExcluded ==
  ASSUME Excluded(Append(path, Slash)), ~Excluded(path)
  PROVE  \E r \in RulesFor(file) : TellsDirectory(r)
<1> DEFINE directory == Append(path, Slash)
<1>1. PICK r \in RulesFor(file) :
         /\ ~r.allow /\ Means(r.pattern, directory)
         /\ \A s \in RulesFor(file) :
               s.allow /\ Means(s.pattern, directory) => Length(s.pattern) < Length(r.pattern)
  BY Zenon DEF Excluded
<1>2. CASE ~Means(r.pattern, path)
  BY <1>1, <1>2, Zenon DEF TellsDirectory
<1>3. CASE Means(r.pattern, path)
  <2>1. PICK s \in RulesFor(file) :
           s.allow /\ Means(s.pattern, path) /\ ~(Length(s.pattern) < Length(r.pattern))
    BY <1>1, <1>3, Zenon DEF Excluded
  <2>2. ~Means(s.pattern, directory)
    BY <1>1, <2>1, Zenon
  <2>3. TellsDirectory(s)
    BY <2>1, <2>2, Zenon DEF TellsDirectory
  <2>4. QED
    BY <2>3, Zenon
<1>4. QED
  BY <1>2, <1>3

(* What the verdict is, once it is there. *)
VerdictInv ==
    /\ file \in Files /\ path \in RobotPaths
    /\ verdict \in {"unasked", Verdict}

(* The verdict is what the rules mean, for any paths and any files without *)
(* a pattern that has both * and $: what they exclude is not scraped, and  *)
(* only a rule that tells a page from a directory has more refused.        *)
THEOREM RobotsTheorem == RobotsSpec => []RulesObeyed
<1>1. RobotsInit => VerdictInv
  BY DEF RobotsInit, VerdictInv
<1>2. VerdictInv /\ [RobotsNext]_robotsVars => VerdictInv'
  <2> SUFFICES ASSUME VerdictInv, [RobotsNext]_robotsVars PROVE VerdictInv'
    OBVIOUS
  <2>1. file' = file /\ path' = path /\ site' = site
    BY DEF RobotsNext, Decide, robotsVars
  <2>2. Verdict' = Verdict
    BY <2>1 DEF Verdict
  <2>3. verdict' \in {verdict, Verdict}
    BY DEF RobotsNext, Decide, robotsVars
  <2>4. QED
    BY <2>1, <2>2, <2>3 DEF VerdictInv
<1>3. VerdictInv => RulesObeyed
  <2> SUFFICES ASSUME VerdictInv, Decided, ~StarAnchored
               PROVE  /\ verdict = "allowed" => ~Excluded(path)
                      /\ verdict = "excluded" =>
                            \/ Excluded(path)
                            \/ /\ Last(path) # Slash
                               /\ \E r \in RulesFor(file) : TellsDirectory(r)
    BY DEF RulesObeyed
  <2>1. path \in Seq(Characters) /\ Append(path, Slash) \in Seq(Characters)
    BY RobotsAssumption DEF VerdictInv
  <2>2. /\ Permits(file, path) <=> ~Excluded(path)
        /\ Permits(file, Append(path, Slash)) <=> ~Excluded(Append(path, Slash))
    BY <2>1, PermitsUnlessExcluded DEF VerdictInv
  <2>3. verdict = IF Allows(file, path) THEN "allowed" ELSE "excluded"
    BY DEF VerdictInv, Verdict, Decided
  <2>4. verdict = "allowed" => ~Excluded(path)
    BY <2>2, <2>3 DEF Allows
  <2>5. ASSUME verdict = "excluded", ~Excluded(path)
        PROVE  Last(path) # Slash /\ Excluded(Append(path, Slash))
    BY <2>2, <2>3, <2>5 DEF Allows
  <2>6. QED
    BY <2>4, <2>5, OnlyDirectoryExcluded, Zenon
<1>4. QED
  BY <1>1, <1>2, <1>3, PTL DEF RobotsSpec

-----------------------------------------------------------------------------
(* Searches: the order of the reply.                                       *)

(* A rising function of 1 .. n into itself changes nothing. *)
LEMMA RisingIsIdentity ==
  ASSUME NEW n \in Nat, NEW t \in [1 .. n -> 1 .. n],
         \A i, k \in 1 .. n : i < k => t[i] < t[k]
  PROVE  \A i \in 1 .. n : t[i] = i
<1>1. \A i \in 1 .. n : t[i] >= i
  <2> DEFINE Q == {i \in 1 .. n : t[i] < i}
  <2>1. SUFFICES ASSUME Q # {} PROVE FALSE
    OBVIOUS
  <2>2. PICK i \in Q : \A j \in Q : i <= j
    <3>1. Q \subseteq Nat
      OBVIOUS
    <3> HIDE DEF Q
    <3>2. QED
      BY <2>1, <3>1, LeastElement
  <2>3. i - 1 \in 1 .. n /\ i - 1 < i
    BY <2>2
  <2>4. t[i - 1] >= i - 1
    BY <2>2, <2>3
  <2>5. t[i - 1] < t[i]
    BY <2>2, <2>3
  <2>6. QED
    BY <2>2, <2>3, <2>4, <2>5
<1>2. \A i \in 1 .. n : t[i] <= i
  <2> DEFINE Q == {j \in 0 .. n - 1 : t[n - j] > n - j}
  <2>1. SUFFICES ASSUME Q # {} PROVE FALSE
    <3> SUFFICES ASSUME NEW i \in 1 .. n, ~(t[i] <= i) PROVE n - i \in Q
      BY <2>1
    <3>1. n - i \in 0 .. n - 1 /\ n - (n - i) = i /\ t[i] \in Nat /\ t[i] > i
      OBVIOUS
    <3>2. QED
      BY <3>1
  <2>2. PICK j \in Q : \A k \in Q : j <= k
    <3>1. Q \subseteq Nat
      OBVIOUS
    <3> HIDE DEF Q
    <3>2. QED
      BY <2>1, <3>1, LeastElement
  <2>3. j \in Nat /\ j <= n - 1 /\ t[n - j] > n - j /\ t[n - j] \in 1 .. n
    BY <2>2
  <2>4. j # 0
    BY <2>3
  <2>5. j - 1 \in 0 .. n - 1 /\ n - j \in 1 .. n /\ n - (j - 1) \in 1 .. n /\ n - j < n - (j - 1)
    BY <2>3, <2>4
  <2>6. ~(j <= j - 1) /\ j - 1 \notin Q
    <3>1. ~(j <= j - 1)
      BY <2>3
    <3> HIDE DEF Q
    <3>2. QED
      BY <2>2, <3>1
  <2>7. t[n - (j - 1)] <= n - (j - 1)
    BY <2>5, <2>6
  <2>8. t[n - j] < t[n - (j - 1)]
    BY <2>5
  <2>9. QED
    BY <2>2, <2>5, <2>7, <2>8
<1>3. QED
  BY <1>1, <1>2

(* Sorting the indexes of a list gives them in their order. *)
LEMMA OrderOfIndexes ==
  ASSUME NEW n \in Nat, NEW s \in Seq(1 .. n), IsInjective(s), ToSet(s) = 1 .. n
  PROVE  Order(s) = [i \in 1 .. n |-> i]
<1>1. s \in [1 .. Len(s) -> 1 .. n] /\ Len(s) \in Nat /\ DOMAIN s = 1 .. Len(s)
  OBVIOUS
<1>2. Len(s) = n
  <2>1. s \in Bijection(1 .. Len(s), 1 .. n)
    BY <1>1 DEF Bijection, Injection, Surjection, IsInjective, ToSet
  <2>2. Cardinality(1 .. n) = Len(s)
    BY <1>1, <2>1, FS_CountingElements DEF ExistsBijection
  <2>3. Cardinality(1 .. n) = n
    BY FS_Interval
  <2>4. QED
    BY <2>2, <2>3
<1> DEFINE turns == {turn \in [1 .. n -> 1 .. n] : IsInjective(turn)}
           Sorts(turn) == \A i, k \in 1 .. n : i < k => s[turn[i]] <= s[turn[k]]
           inverse == [i \in 1 .. n |-> CHOOSE k \in 1 .. n : s[k] = i]
<1>3. \A i \in 1 .. n : inverse[i] \in 1 .. n /\ s[inverse[i]] = i
  BY <1>1, <1>2 DEF ToSet
<1>4. inverse \in turns /\ Sorts(inverse)
  <2>1. inverse \in [1 .. n -> 1 .. n]
    BY <1>3
  <2> HIDE DEF inverse
  <2>2. \A i, k \in 1 .. n : inverse[i] = inverse[k] => i = k
    BY <1>3
  <2>3. IsInjective(inverse)
    BY <2>1, <2>2 DEF IsInjective
  <2>4. Sorts(inverse)
    BY <1>3
  <2>5. QED
    BY <2>1, <2>3, <2>4
<1> DEFINE sorting == CHOOSE turn \in turns : Sorts(turn)
<1>5. sorting \in turns /\ Sorts(sorting)
  <2> HIDE DEF Sorts, turns
  <2>1. QED
    BY <1>4
<1>6. Order(s) = [i \in 1 .. n |-> s[sorting[i]]]
  BY <1>1, <1>2 DEF Order
<1> HIDE DEF sorting
<1> DEFINE t == [i \in 1 .. n |-> s[sorting[i]]]
<1>7. t \in [1 .. n -> 1 .. n]
  BY <1>1, <1>2, <1>5
<1>8. \A i, k \in 1 .. n : i < k => t[i] < t[k]
  <2> SUFFICES ASSUME NEW i \in 1 .. n, NEW k \in 1 .. n, i < k PROVE t[i] < t[k]
    OBVIOUS
  <2>1. s[sorting[i]] <= s[sorting[k]]
    BY <1>5
  <2>2. sorting[i] \in 1 .. n /\ sorting[k] \in 1 .. n /\ sorting[i] # sorting[k]
    BY <1>5 DEF IsInjective
  <2>3. s[sorting[i]] # s[sorting[k]]
    BY <1>1, <1>2, <2>2 DEF IsInjective
  <2>4. s[sorting[i]] \in 1 .. n /\ s[sorting[k]] \in 1 .. n
    BY <1>1, <1>2, <2>2
  <2>5. QED
    BY <2>1, <2>3, <2>4
<1> HIDE DEF t
<1>9. \A i \in 1 .. n : t[i] = i
  BY <1>7, <1>8, RisingIsIdentity
<1>10. t = [i \in 1 .. n |-> i]
  BY <1>7, <1>9
<1>11. QED
  BY <1>6, <1>10 DEF t

Begun == {"scrape", "reply", "replied"}

(* Until a provider has answered there is nothing; then the hits are what  *)
(* was wanted of its answer, and an index has an outcome when, and only    *)
(* when, its scrape has ended.                                             *)
SearchInv ==
    /\ query \in QueryType
    /\ hits \in Seq(Urls)
    /\ phase \notin Begun => hits = << >> /\ active = {} /\ scraped = << >> /\ outcome = << >>
    /\ phase \in {"options", "searxng", "duckduckgo", "scrape"} => query.web
    /\ phase = "scrape" => query.scrape
    /\ phase \in Begun => IF query.web THEN hits = Wanted(offered) ELSE hits = << >>
    /\ active \subseteq DOMAIN hits
    /\ scraped \in Seq(DOMAIN hits) /\ IsInjective(scraped) /\ Ended \cap active = {}
    /\ outcome \in [DOMAIN hits -> {"markdown", "error", Unsaid}]
    /\ \A i \in DOMAIN hits : i \in Ended <=> outcome[i] # Unsaid
    /\ ~query.scrape => scraped = << >> /\ active = {}
    /\ phase \in {"reply", "replied"} /\ query.scrape => Ended = DOMAIN hits
    /\ phase = "replied" => reply = [i \in DOMAIN hits |-> Entry(i)]

(* What is wanted of an answer is a list of URLs. *)
LEMMA WantedList ==
  ASSUME query \in QueryType, NEW list \in Seq(Urls)
  PROVE  Wanted(list) \in Seq(Urls)
<1>1. query.limit \in Nat
  BY DEF QueryType
<1>2. Cut(list, query.limit) \in Seq(Urls)
  <2>1. CASE Len(list) <= query.limit
    BY <2>1 DEF Cut
  <2>2. CASE ~(Len(list) <= query.limit)
    <3>1. \A i \in 1 .. query.limit : list[i] \in Urls
      BY <1>1, <2>2
    <3>2. SubSeq(list, 1, query.limit) \in Seq(Urls)
      BY <1>1, <3>1, SubSeqProperties
    <3>3. QED
      BY <2>2, <3>2 DEF Cut
  <2>3. QED
    BY <2>1, <2>2
<1>3. QED
  BY <1>2, PickedElements DEF Wanted, Only

LEMMA SearchInvariant == SearchSpec => []SearchInv
<1>1. SearchInit => SearchInv
  BY SearchAssumption DEF SearchInit, SearchInv, Begun, Ended, ToSet, IsInjective
<1>2. SearchInv /\ [SearchNext]_searchVars => SearchInv'
  <2> SUFFICES ASSUME SearchInv, [SearchNext]_searchVars PROVE SearchInv'
    OBVIOUS
  <2>1. ASSUME Receive \/ AskNews \/ AskImages \/ CheckOptions PROVE SearchInv'
    <3>1. /\ UNCHANGED <<query, offered, hits, active, scraped, outcome, reply>>
          /\ phase \notin Begun
          /\ phase' \in {"refused", "news", "images", "options", "searxng", "duckduckgo", "reply"}
      BY <2>1 DEF Receive, AskNews, AskImages, CheckOptions, AfterNews, AfterImages, Begun
    <3>2. phase' \in {"options", "searxng", "duckduckgo"} => query.web
      BY <2>1 DEF SearchInv, Receive, AskNews, AskImages, CheckOptions, AfterNews, AfterImages
    <3>3. phase' = "reply" => ~query.web
      BY <2>1 DEF Receive, AskNews, AskImages, CheckOptions, AfterNews, AfterImages
    <3>4. Ended = {} /\ Ended' = Ended /\ DOMAIN hits = {}
      BY <3>1 DEF SearchInv, Ended, ToSet
    <3>5. QED
      BY <3>1, <3>2, <3>3, <3>4 DEF SearchInv, Begun
  <2>2. ASSUME NEW list \in Answers, Use(list), phase \in {"searxng", "duckduckgo"},
               UNCHANGED <<query, active, scraped, reply>>
        PROVE  SearchInv'
    <3>1. /\ hits' = Wanted(list) /\ offered' = list
          /\ outcome' = [i \in DOMAIN hits' |-> Unsaid]
          /\ phase' = IF query.scrape THEN "scrape" ELSE "reply"
          /\ active = {} /\ scraped = << >> /\ query.web /\ query \in QueryType
      BY <2>2 DEF Use, SearchInv, Begun
    <3>2. hits' \in Seq(Urls)
      BY <3>1, WantedList, SearchAssumption
    <3>3. Wanted(offered)' = Wanted(list)
      BY <2>2, <3>1 DEF Wanted, Allowed
    <3>4. Ended' = {} /\ IsInjective(scraped')
      BY <2>2, <3>1 DEF Ended, ToSet, IsInjective
    <3>5. QED
      BY <2>2, <3>1, <3>2, <3>3, <3>4, SearchAssumption DEF SearchInv, Begun
  <2>3. ASSUME NEW list \in Answers, AskSearxng(list) \/ AskDuckduckgo(list) PROVE SearchInv'
    <3>1. CASE Use(list)
      BY <2>2, <2>3, <3>1 DEF AskSearxng, AskDuckduckgo
    <3>2. CASE ~Use(list)
      <4>1. /\ phase = "searxng" /\ phase' = "duckduckgo"
            /\ UNCHANGED <<query, offered, hits, active, scraped, outcome, reply>>
        BY <2>3, <3>2 DEF AskSearxng, AskDuckduckgo
      <4>2. QED
        BY <4>1 DEF SearchInv, Begun, Ended
    <3>3. QED
      BY <3>1, <3>2
  <2>4. ASSUME NEW i \in DOMAIN hits, StartScrape(i) PROVE SearchInv'
    BY <2>4 DEF StartScrape, MayStart, Waiting, SearchInv, Begun, Ended, Wanted, Allowed
  <2>5. ASSUME NEW i \in DOMAIN hits, NEW how \in {"markdown", "error"}, EndScrape(i, how)
        PROVE  SearchInv'
    <3>1. /\ phase = "scrape" /\ i \in active /\ active' = active \ {i}
          /\ scraped' = Append(scraped, i) /\ outcome' = [outcome EXCEPT ![i] = how]
          /\ UNCHANGED <<query, phase, offered, hits, reply>>
      BY <2>5 DEF EndScrape
    <3>2. /\ scraped \in Seq(DOMAIN hits) /\ IsInjective(scraped) /\ i \notin Ended
      BY <3>1 DEF SearchInv
    <3>3. /\ scraped' \in Seq(DOMAIN hits)
          /\ DOMAIN scraped' = DOMAIN scraped \cup {Len(scraped) + 1}
          /\ Len(scraped) + 1 \notin DOMAIN scraped
          /\ scraped'[Len(scraped) + 1] = i /\ \A k \in DOMAIN scraped : scraped'[k] = scraped[k]
      BY <3>1, <3>2
    <3>4. Ended' = Ended \cup {i}
      BY <3>3 DEF Ended, ToSet
    <3>5. IsInjective(scraped')
      BY <3>2, <3>3 DEF IsInjective, Ended, ToSet
    <3>6. /\ outcome' \in [DOMAIN hits -> {"markdown", "error", Unsaid}]
          /\ \A k \in DOMAIN hits : k \in Ended' <=> outcome'[k] # Unsaid
      BY <3>1, <3>4, SearchAssumption DEF SearchInv
    <3>7. Wanted(offered)' = Wanted(offered)
      BY <3>1 DEF Wanted, Allowed
    <3>8. QED
      BY <3>1, <3>3, <3>4, <3>5, <3>6, <3>7 DEF SearchInv, Begun
  <2>6. ASSUME ScrapesEnd PROVE SearchInv'
    BY <2>6 DEF ScrapesEnd, SearchInv, Begun, Ended, Wanted, Allowed
  <2>7. ASSUME Reply PROVE SearchInv'
    <3> DEFINE order == IF query.scrape THEN Order(scraped) ELSE [i \in DOMAIN hits |-> i]
    <3>1. /\ phase = "reply" /\ phase' = "replied" /\ reply' = [n \in DOMAIN order |-> Entry(order[n])]
          /\ UNCHANGED <<query, offered, hits, active, scraped, outcome>>
      BY <2>7 DEF Reply
    <3>2. order = [i \in DOMAIN hits |-> i]
      <4>1. CASE query.scrape
        <5>1. /\ DOMAIN hits = 1 .. Len(hits) /\ Len(hits) \in Nat
              /\ scraped \in Seq(DOMAIN hits) /\ IsInjective(scraped) /\ ToSet(scraped) = DOMAIN hits
          BY <3>1, <4>1 DEF SearchInv, Ended
        <5>2. Order(scraped) = [i \in DOMAIN hits |-> i]
          BY <5>1, OrderOfIndexes
        <5>3. QED
          BY <4>1, <5>2
      <4>2. CASE ~query.scrape
        BY <4>2
      <4>3. QED
        BY <4>1, <4>2
    <3> HIDE DEF order
    <3>3. reply' = [i \in DOMAIN hits |-> Entry(i)]
      BY <3>1, <3>2
    <3>4. \A i : Entry(i)' = Entry(i)
      BY <3>1 DEF Entry
    <3>5. Wanted(offered)' = Wanted(offered) /\ Ended' = Ended
      BY <3>1 DEF Wanted, Allowed, Ended
    <3>6. QED
      BY <3>1, <3>3, <3>4, <3>5 DEF SearchInv, Begun
  <2>8. ASSUME UNCHANGED searchVars PROVE SearchInv'
    BY <2>8 DEF searchVars, SearchInv, Begun, Ended, Wanted, Allowed, Entry
  <2>9. QED
    BY <2>1, <2>3, <2>4, <2>5, <2>6, <2>7, <2>8 DEF SearchNext
<1>3. QED
  BY <1>1, <1>2, PTL DEF SearchSpec

(* The reply has the provider's order, for any answers, limit and number   *)
(* of scrapes at once, whenever each of them ends.                         *)
THEOREM SearchOrderTheorem == SearchSpec => []ReplyInProviderOrder
<1>1. SearchInv => ReplyInProviderOrder
  <2> SUFFICES ASSUME SearchInv, phase = "replied"
               PROVE  /\ query.web => [n \in DOMAIN reply |-> reply[n].url] = Wanted(offered)
                      /\ ~query.web => reply = << >>
                      /\ \A n \in DOMAIN reply :
                            reply[n].outcome = outcome[n] /\ (query.scrape <=> outcome[n] # Unsaid)
    BY DEF ReplyInProviderOrder
  <2>1. /\ reply = [i \in DOMAIN hits |-> [url |-> hits[i], outcome |-> outcome[i]]]
        /\ hits \in Seq(Urls)
        /\ IF query.web THEN hits = Wanted(offered) ELSE hits = << >>
    BY DEF SearchInv, Begun, Entry
  <2>2. [n \in DOMAIN reply |-> reply[n].url] = hits
    <3>1. DOMAIN reply = DOMAIN hits /\ \A n \in DOMAIN hits : reply[n].url = hits[n]
      BY <2>1
    <3>2. hits = [n \in DOMAIN hits |-> hits[n]]
      BY <2>1
    <3>3. QED
      BY <3>1, <3>2
  <2>3. ~query.web => reply = << >>
    BY <2>1
  <2>4. query.scrape \in BOOLEAN /\ (query.scrape => Ended = DOMAIN hits) /\ (~query.scrape => Ended = {})
    BY DEF SearchInv, QueryType, Ended, ToSet
  <2>5. \A n \in DOMAIN reply : reply[n].outcome = outcome[n] /\ (query.scrape <=> outcome[n] # Unsaid)
    BY <2>1, <2>4 DEF SearchInv
  <2>6. QED
    BY <2>1, <2>2, <2>3, <2>5
<1>2. QED
  BY <1>1, SearchInvariant, PTL
=============================================================================
