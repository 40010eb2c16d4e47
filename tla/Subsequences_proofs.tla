------------------------ MODULE Subsequences_proofs -------------------------
(***************************************************************************)
(* Induction over the natural numbers, stated for sets, and what it proves *)
(* about parts of sequences.                                               *)
(***************************************************************************)
EXTENDS Subsequences, SequencesExt, WellFoundedInduction, TLAPS

(* A set of natural numbers that is not empty has a least one. *)
LEMMA LeastElement ==
  ASSUME NEW Q, Q \subseteq Nat, Q # {}
  PROVE  \E n \in Q : \A m \in Q : n <= m
<1>1. PICK n \in Q : \A m \in Q : ~(<<m, n>> \in OpToRel(<, Nat))
  BY NatLessThanWellFounded, WFMin
<1>2. \A m \in Q : ~(m < n)
  BY <1>1 DEF OpToRel
<1>3. QED
  BY <1>2

(* The least counterexample of an induction is not 0 and has a predecessor.*)
LEMMA SetInduction ==
  ASSUME NEW P, 0 \in P, \A i \in Nat : i \in P => i + 1 \in P
  PROVE  Nat \subseteq P
<1> SUFFICES ASSUME {i \in Nat : i \notin P} # {} PROVE FALSE
  OBVIOUS
<1>1. PICK n \in {i \in Nat : i \notin P} : \A m \in {i \in Nat : i \notin P} : n <= m
  BY LeastElement
<1>2. n # 0 /\ n - 1 \in Nat /\ n - 1 < n /\ (n - 1) + 1 = n
  OBVIOUS
<1>3. n - 1 \in P
  BY <1>1, <1>2
<1>4. QED
  BY <1>1, <1>2, <1>3

(* m lists the indexes in I up to n, in order; t is s at these indexes. *)
Lists(t, s, I, m, n) ==
    /\ m \in [1 .. Len(t) -> I \cap 1 .. n]
    /\ \A k \in 1 .. Len(t) : t[k] = s[m[k]]
    /\ \A k, l \in 1 .. Len(t) : k < l => m[k] < m[l]
    /\ \A i \in I \cap 1 .. n : \E k \in 1 .. Len(t) : m[k] = i

(* The recursion of Picked is well founded. *)
LEMMA PickedRecursion ==
  ASSUME NEW T, NEW s \in Seq(T), NEW I
  PROVE  \E f : /\ Picked(s, I) = f[Len(s)]
                /\ f[0] = << >>
                /\ \A i \in 1 .. Len(s) :
                      f[i] = IF i \in I THEN Append(f[i - 1], s[i]) ELSE f[i - 1]
<1> DEFINE Step(g, i) == IF i = 0 THEN << >>
                         ELSE IF i \in I THEN Append(g[i - 1], s[i]) ELSE g[i - 1]
           f == CHOOSE g : g = [i \in 0 .. Len(s) |-> Step(g, i)]
           P == {n \in Nat : \E g : g = [i \in 0 .. n |-> Step(g, i)]}
<1>1. 0 \in P
  <2>1. [i \in 0 .. 0 |-> << >>] = [i \in 0 .. 0 |-> Step([j \in 0 .. 0 |-> << >>], i)]
    OBVIOUS
  <2>2. QED
    BY <2>1
<1>2. ASSUME NEW n \in Nat, n \in P PROVE n + 1 \in P
  <2>1. PICK g : g = [i \in 0 .. n |-> Step(g, i)]
    BY <1>2
  <2> DEFINE h == [i \in 0 .. n + 1 |-> IF i = n + 1 THEN Step(g, n + 1) ELSE g[i]]
  <2>2. \A i \in 0 .. n : h[i] = g[i]
    OBVIOUS
  <2>3. \A i \in 0 .. n + 1 : Step(h, i) = Step(g, i)
    <3> SUFFICES ASSUME NEW i \in 0 .. n + 1, i # 0 PROVE h[i - 1] = g[i - 1]
      OBVIOUS
    <3>1. i - 1 \in 0 .. n
      OBVIOUS
    <3>2. QED
      BY <2>2, <3>1
  <2>4. \A i \in 0 .. n + 1 : h[i] = Step(g, i)
    <3> SUFFICES ASSUME NEW i \in 0 .. n + 1, i # n + 1 PROVE g[i] = Step(g, i)
      OBVIOUS
    <3> HIDE DEF Step, h
    <3>1. i \in 0 .. n
      OBVIOUS
    <3>2. QED
      BY <2>1, <3>1
  <2>5. h = [i \in 0 .. n + 1 |-> h[i]]
    OBVIOUS
  <2> HIDE DEF h, Step
  <2>6. h = [i \in 0 .. n + 1 |-> Step(h, i)]
    BY <2>3, <2>4, <2>5
  <2>7. QED
    BY <2>6
<1>3. Len(s) \in P
  <2> HIDE DEF P
  <2>1. Len(s) \in Nat
    OBVIOUS
  <2>2. QED
    BY <1>1, <1>2, <2>1, SetInduction
<1>4. f = [i \in 0 .. Len(s) |-> Step(f, i)]
  <2> HIDE DEF Step
  <2>1. QED
    BY <1>3
<1>5. Picked(s, I) = f[Len(s)]
  BY DEF Picked
<1> HIDE DEF f
<1>6. Len(s) \in Nat
  OBVIOUS
<1>7. \A i \in 0 .. Len(s) : f[i] = Step(f, i)
  <2> HIDE DEF Step
  <2>1. QED
    BY <1>4
<1>8. f[0] = << >> /\ \A i \in 1 .. Len(s) :
                        f[i] = IF i \in I THEN Append(f[i - 1], s[i]) ELSE f[i - 1]
  BY <1>6, <1>7
<1>9. QED
  BY <1>5, <1>8

(* What is picked are the elements at these indexes, in order, all of them.*)
LEMMA PickedLists ==
  ASSUME NEW T, NEW s \in Seq(T), NEW I
  PROVE  /\ Picked(s, I) \in Seq(T)
         /\ \E m : Lists(Picked(s, I), s, I, m, Len(s))
<1>1. PICK f : /\ Picked(s, I) = f[Len(s)]
               /\ f[0] = << >>
               /\ \A i \in 1 .. Len(s) :
                     f[i] = IF i \in I THEN Append(f[i - 1], s[i]) ELSE f[i - 1]
  BY PickedRecursion
<1> DEFINE P == {n \in Nat : n <= Len(s) => f[n] \in Seq(T) /\ \E m : Lists(f[n], s, I, m, n)}
<1>2. 0 \in P
  <2>1. Lists(<< >>, s, I, << >>, 0)
    BY DEF Lists
  <2>2. f[0] \in Seq(T) /\ \E m : Lists(f[0], s, I, m, 0)
    BY <1>1, <2>1
  <2>3. QED
    BY <2>2
<1>3. ASSUME NEW n \in Nat, n \in P PROVE n + 1 \in P
  <2> SUFFICES ASSUME n + 1 <= Len(s)
               PROVE  f[n + 1] \in Seq(T) /\ \E m : Lists(f[n + 1], s, I, m, n + 1)
    OBVIOUS
  <2>1. Len(s) \in Nat /\ n + 1 \in 1 .. Len(s) /\ (n + 1) - 1 = n /\ s[n + 1] \in T
    OBVIOUS
  <2>2. f[n] \in Seq(T)
    BY <1>3
  <2>3. PICK m : Lists(f[n], s, I, m, n)
    BY <1>3
  <2>4. f[n + 1] = IF n + 1 \in I THEN Append(f[n], s[n + 1]) ELSE f[n]
    BY <1>1, <2>1
  <2>5. CASE n + 1 \notin I
    <3>1. I \cap 1 .. n + 1 = I \cap 1 .. n
      BY <2>5
    <3>2. QED
      BY <2>2, <2>3, <2>4, <2>5, <3>1 DEF Lists
  <2>6. CASE n + 1 \in I
    <3> DEFINE t == f[n]
               u == Append(t, s[n + 1])
               l == Len(t)
               o == [k \in 1 .. l + 1 |-> IF k = l + 1 THEN n + 1 ELSE m[k]]
    <3>1. /\ u \in Seq(T) /\ Len(u) = l + 1 /\ l \in Nat /\ u[l + 1] = s[n + 1]
          /\ \A k \in 1 .. l : u[k] = t[k]
      BY <2>1, <2>2
    <3>2. /\ \A k \in 1 .. l : m[k] \in I /\ m[k] \in 1 .. n /\ t[k] = s[m[k]]
          /\ \A k, j \in 1 .. l : k < j => m[k] < m[j]
          /\ \A i \in I \cap 1 .. n : \E k \in 1 .. l : m[k] = i
      BY <2>3 DEF Lists
    <3>3. o \in [1 .. l + 1 -> I \cap 1 .. n + 1]
      BY <2>6, <3>1, <3>2
    <3>4. o[l + 1] = n + 1 /\ \A k \in 1 .. l : o[k] = m[k]
      BY <3>1
    <3>5. \A k \in 1 .. l + 1 : k = l + 1 \/ k \in 1 .. l
      BY <3>1
    <3> HIDE DEF t, u, l, o
    <3>6. \A k \in 1 .. l + 1 : u[k] = s[o[k]]
      BY <3>1, <3>2, <3>4, <3>5
    <3>7. \A k, j \in 1 .. l + 1 : k < j => o[k] < o[j]
      <4> SUFFICES ASSUME NEW k \in 1 .. l + 1, NEW j \in 1 .. l + 1, k < j PROVE o[k] < o[j]
        OBVIOUS
      <4>1. k \in 1 .. l
        BY <3>1
      <4>2. CASE j = l + 1
        BY <3>2, <3>4, <4>1, <4>2
      <4>3. CASE j \in 1 .. l
        BY <3>2, <3>4, <4>1, <4>3
      <4>4. QED
        BY <3>5, <4>2, <4>3
    <3>8. \A i \in I \cap 1 .. n + 1 : \E k \in 1 .. l + 1 : o[k] = i
      <4> SUFFICES ASSUME NEW i \in I \cap 1 .. n + 1 PROVE \E k \in 1 .. l + 1 : o[k] = i
        OBVIOUS
      <4>1. CASE i = n + 1
        BY <3>1, <3>4, <4>1
      <4>2. CASE i # n + 1
        <5>1. i \in I \cap 1 .. n
          BY <4>2
        <5>2. PICK k \in 1 .. l : m[k] = i
          BY <3>2, <5>1
        <5>3. k \in 1 .. l + 1 /\ o[k] = i
          BY <3>1, <3>4, <5>2
        <5>4. QED
          BY <5>3
      <4>3. QED
        BY <4>1, <4>2
    <3>9. Lists(u, s, I, o, n + 1)
      BY <3>1, <3>3, <3>6, <3>7, <3>8 DEF Lists
    <3>10. f[n + 1] = u
      BY <2>4, <2>6 DEF u, t
    <3>11. QED
      BY <3>1, <3>9, <3>10
  <2>7. QED
    BY <2>5, <2>6
<1>4. Len(s) \in P
  <2> HIDE DEF P
  <2>1. Len(s) \in Nat
    OBVIOUS
  <2>2. QED
    BY <1>2, <1>3, <2>1, SetInduction
<1>5. QED
  BY <1>1, <1>4

(* Nothing else is picked, nothing is missed. *)
LEMMA PickedElements ==
  ASSUME NEW T, NEW s \in Seq(T), NEW I
  PROVE  /\ Picked(s, I) \in Seq(T)
         /\ ToSet(Picked(s, I)) = {s[i] : i \in I \cap 1 .. Len(s)}
<1> DEFINE t == Picked(s, I)
<1>1. PICK m : Lists(t, s, I, m, Len(s))
  BY PickedLists
<1>2. t \in Seq(T)
  BY PickedLists
<1> HIDE DEF t
<1>3. DOMAIN t = 1 .. Len(t)
  BY <1>2
<1>4. /\ \A k \in DOMAIN t : m[k] \in I \cap 1 .. Len(s) /\ t[k] = s[m[k]]
      /\ \A i \in I \cap 1 .. Len(s) : \E k \in DOMAIN t : m[k] = i
  BY <1>1, <1>3 DEF Lists
<1>5. ToSet(t) \subseteq {s[i] : i \in I \cap 1 .. Len(s)}
  BY <1>4 DEF ToSet
<1>6. {s[i] : i \in I \cap 1 .. Len(s)} \subseteq ToSet(t)
  BY <1>4 DEF ToSet
<1>7. QED
  BY <1>2, <1>5, <1>6 DEF t

(* A sequence without repetition stays one. *)
LEMMA PickedInjective ==
  ASSUME NEW T, NEW s \in Seq(T), NEW I,
         \A i, j \in I \cap 1 .. Len(s) : s[i] = s[j] => i = j
  PROVE  IsInjective(Picked(s, I))
<1> DEFINE t == Picked(s, I)
<1>1. PICK m : Lists(t, s, I, m, Len(s))
  BY PickedLists
<1>2. t \in Seq(T)
  BY PickedLists
<1> HIDE DEF t
<1> SUFFICES ASSUME NEW k \in DOMAIN t, NEW l \in DOMAIN t, t[k] = t[l] PROVE k = l
  BY DEF IsInjective, t
<1>3. k \in 1 .. Len(t) /\ l \in 1 .. Len(t)
  BY <1>2
<1>4. /\ m[k] \in I \cap 1 .. Len(s) /\ m[l] \in I \cap 1 .. Len(s)
      /\ s[m[k]] = s[m[l]] /\ (k < l => m[k] < m[l]) /\ (l < k => m[l] < m[k])
  BY <1>1, <1>3 DEF Lists
<1>5. m[k] = m[l]
  BY <1>4
<1>6. QED
  BY <1>3, <1>4, <1>5

(* Two such sequences with nothing in common, one after the other. *)
LEMMA JoinedInjective ==
  ASSUME NEW T, NEW s \in Seq(T), NEW t \in Seq(T)
  PROVE  /\ ToSet(s \o t) = ToSet(s) \cup ToSet(t)
         /\ IsInjective(s) /\ IsInjective(t) /\ ToSet(s) \cap ToSet(t) = {}
               => IsInjective(s \o t)
<1> DEFINE u == s \o t
           l == Len(s)
           n == Len(s) + Len(t)
<1>1. /\ l \in Nat /\ n \in Nat /\ l <= n /\ n - l = Len(t)
      /\ DOMAIN s = 1 .. l /\ DOMAIN t = 1 .. n - l /\ DOMAIN u = 1 .. n
  OBVIOUS
<1>2. /\ \A i \in 1 .. l : u[i] = s[i] /\ i \in 1 .. n
      /\ \A i \in 1 .. n - l : u[l + i] = t[i] /\ l + i \in 1 .. n
  OBVIOUS
<1>3. \A i \in 1 .. n : i \in 1 .. l \/ \E j \in 1 .. n - l : i = l + j
  <2> SUFFICES ASSUME NEW i \in 1 .. n, i \notin 1 .. l PROVE \E j \in 1 .. n - l : i = l + j
    OBVIOUS
  <2>1. i - l \in 1 .. n - l /\ i = l + (i - l)
    BY <1>1
  <2>2. QED
    BY <2>1
<1> HIDE DEF u, l, n
<1>4. ToSet(u) = ToSet(s) \cup ToSet(t)
  <2>1. ToSet(u) \subseteq ToSet(s) \cup ToSet(t)
    <3> SUFFICES ASSUME NEW i \in 1 .. n PROVE u[i] \in ToSet(s) \cup ToSet(t)
      BY <1>1 DEF ToSet
    <3>1. CASE i \in 1 .. l
      BY <1>1, <1>2, <3>1 DEF ToSet
    <3>2. CASE \E j \in 1 .. n - l : i = l + j
      BY <1>1, <1>2, <3>2 DEF ToSet
    <3>3. QED
      BY <1>3, <3>1, <3>2
  <2>2. ToSet(s) \subseteq ToSet(u)
    BY <1>1, <1>2 DEF ToSet
  <2>3. ToSet(t) \subseteq ToSet(u)
    BY <1>1, <1>2 DEF ToSet
  <2>4. QED
    BY <2>1, <2>2, <2>3
<1>5. ASSUME IsInjective(s), IsInjective(t), ToSet(s) \cap ToSet(t) = {} PROVE IsInjective(u)
  <2>1. \A i \in 1 .. l, j \in 1 .. n - l : s[i] # t[j]
    BY <1>1, <1>5 DEF ToSet
  <2>2. SUFFICES ASSUME NEW i \in 1 .. n, NEW j \in 1 .. n, u[i] = u[j] PROVE i = j
    BY <1>1 DEF IsInjective
  <2>3. CASE i \in 1 .. l /\ j \in 1 .. l
    BY <1>1, <1>2, <1>5, <2>2, <2>3 DEF IsInjective
  <2>4. CASE i \in 1 .. l /\ j \notin 1 .. l
    <3>1. PICK k \in 1 .. n - l : j = l + k
      BY <1>3, <2>4
    <3>2. QED
      BY <1>2, <2>1, <2>2, <2>4, <3>1
  <2>5. CASE i \notin 1 .. l /\ j \in 1 .. l
    <3>1. PICK k \in 1 .. n - l : i = l + k
      BY <1>3, <2>5
    <3>2. QED
      BY <1>2, <2>1, <2>2, <2>5, <3>1
  <2>6. CASE i \notin 1 .. l /\ j \notin 1 .. l
    <3>1. PICK k \in 1 .. n - l : i = l + k
      BY <1>3, <2>6
    <3>2. PICK m \in 1 .. n - l : j = l + m
      BY <1>3, <2>6
    <3>3. t[k] = t[m]
      BY <1>2, <2>2, <3>1, <3>2
    <3>4. k = m
      BY <1>1, <1>5, <3>3 DEF IsInjective
    <3>5. QED
      BY <3>1, <3>2, <3>4
  <2>7. QED
    BY <2>3, <2>4, <2>5, <2>6
<1>6. QED
  BY <1>4, <1>5 DEF u
=============================================================================
