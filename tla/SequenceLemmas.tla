--------------------------- MODULE SequenceLemmas ---------------------------
(***************************************************************************)
(* What the operators on sequences return, for every sequence: Select,     *)
(* FlattenSeq, stretches of a sequence and its image under a function.     *)
(* They are recursive functions, and what these compute is proved by       *)
(* induction over their places: the library's induction theorems take a    *)
(* formula as a parameter, so the induction is done here with a set, from  *)
(* the theorem that < is well-founded on the natural numbers.              *)
(***************************************************************************)
EXTENDS Selection, SequencesExt, TLAPS, WellFoundedInduction

\* Induction over the natural numbers, for a set instead of a formula: the least
\* number that is not in the set would have a predecessor that is.
LEMMA NaturalInduction ==
    ASSUME NEW S, 0 \in S, \A n \in Nat : n \in S => n + 1 \in S
    PROVE  Nat \subseteq S
<1> DEFINE T == Nat \ S
<1>1. SUFFICES ASSUME T # {} PROVE FALSE
  OBVIOUS
<1>2. PICK x \in T : \A y \in T : ~ (<<y, x>> \in OpToRel(<, Nat))
  <2> HIDE DEF T
  <2>1. T \subseteq Nat
    BY DEF T
  <2> QED
    BY <1>1, <2>1, WFMin, NatLessThanWellFounded
<1>3. \A y \in T : ~ (y < x)
  BY <1>2 DEF OpToRel
<1>4. x - 1 \in Nat /\ x - 1 \notin T
  BY <1>3
<1>5. x - 1 + 1 = x
  OBVIOUS
<1>6. x \in S
  BY <1>4, <1>5
<1> QED
  BY <1>6

\* A set of natural numbers has a least one.
LEMMA NaturalLeast ==
    ASSUME NEW T, T \subseteq Nat, T # {}
    PROVE  \E j \in T : \A k \in T : j <= k
<1>1. PICK x \in T : \A y \in T : ~ (<<y, x>> \in OpToRel(<, Nat))
  BY WFMin, NatLessThanWellFounded
<1>2. \A y \in T : ~ (y < x)
  BY <1>1 DEF OpToRel
<1> QED
  BY <1>2

\* A set of places has a last one.
LEMMA LastPlace ==
    ASSUME NEW n \in Nat, NEW T, T \subseteq 1 .. n, T # {}
    PROVE  \E m \in T : \A j \in T : j <= m
<1> DEFINE U == {n - j : j \in T}
<1>1. U \subseteq Nat /\ U # {}
  <2>1. \A j \in T : j \in Nat /\ n - j \in Nat
    OBVIOUS
  <2>2. PICK j \in T : TRUE
    OBVIOUS
  <2>3. n - j \in U
    BY <2>2
  <2>4. U \subseteq Nat
    BY <2>1
  <2> HIDE DEF U
  <2> QED
    BY <2>3, <2>4
<1>2. PICK k \in U : \A l \in U : k <= l
  <2> HIDE DEF U
  <2> QED
    BY <1>1, NaturalLeast
<1>3. PICK m \in T : k = n - m
  BY <1>2
<1>4. \A j \in T : j <= m
  <2>1. \A j \in T : k <= n - j
    BY <1>2
  <2>2. k \in Nat /\ m \in Nat /\ \A j \in T : j \in Nat
    BY <1>1
  <2> QED
    BY <1>3, <2>1, <2>2
<1> QED
  BY <1>4

\* f follows from c by the steps 1 to n.
IsRecursive(f, n, c, step) ==
    f[0] = c /\ \A i \in 1 .. n : f[i] = step[<<f[i - 1], i>>]

\* What is defined by recursion over 0 .. n exists.
LEMMA RecursionExists ==
    ASSUME NEW V, NEW n \in Nat, NEW c \in V, NEW step \in [V \X (1 .. n) -> V]
    PROVE  \E f \in [0 .. n -> V] : IsRecursive(f, n, c, step)
<1> DEFINE Good(k) == \E f \in [0 .. n -> V] :
              f[0] = c /\ \A i \in 1 .. n : i <= k => f[i] = step[<<f[i - 1], i>>]
           S == {k \in Nat : Good(k)}
<1>1. 0 \in S
  <2> DEFINE g == [i \in 0 .. n |-> c]
  <2>1. g \in [0 .. n -> V] /\ g[0] = c
    OBVIOUS
  <2>2. \A i \in 1 .. n : ~(i <= 0)
    OBVIOUS
  <2> HIDE DEF g
  <2> QED
    BY <2>1, <2>2
<1>2. ASSUME NEW k \in Nat, k \in S PROVE k + 1 \in S
  <2>1. PICK f \in [0 .. n -> V] :
              f[0] = c /\ \A i \in 1 .. n : i <= k => f[i] = step[<<f[i - 1], i>>]
    BY <1>2
  <2>2. CASE k + 1 \in 1 .. n
    <3> DEFINE g == [i \in 0 .. n |-> IF i = k + 1 THEN step[<<f[k], k + 1>>] ELSE f[i]]
    <3>1. f[k] \in V /\ step[<<f[k], k + 1>>] \in V
      BY <2>2
    <3>2. g \in [0 .. n -> V]
      BY <3>1
    <3>3. ASSUME NEW i \in 1 .. n, i <= k + 1
          PROVE  g[i] = step[<<g[i - 1], i>>]
      <4>1. CASE i = k + 1
        <5>1. g[i] = step[<<f[k], k + 1>>]
          BY <4>1, <2>2
        <5>2. i - 1 = k /\ k \in 0 .. n /\ k # k + 1
          BY <4>1, <2>2
        <5>3. g[k] = f[k]
          BY <5>2
        <5> HIDE DEF g
        <5> QED
          BY <4>1, <5>1, <5>2, <5>3
      <4>2. CASE i <= k
        <5>1. i - 1 \in 0 .. n /\ i - 1 # k + 1 /\ i # k + 1 /\ i \in 0 .. n
          BY <4>2
        <5>2. g[i] = f[i] /\ g[i - 1] = f[i - 1]
          BY <5>1
        <5> HIDE DEF g
        <5> QED
          BY <5>2, <4>2, <2>1
      <4> QED
        BY <3>3, <4>1, <4>2
    <3>4. g[0] = c
      BY <2>1
    <3> HIDE DEF g
    <3> QED
      BY <3>2, <3>3, <3>4
  <2>3. CASE k + 1 \notin 1 .. n
    <3>1. \A i \in 1 .. n : i <= k + 1 => i <= k
      BY <2>3
    <3> QED
      BY <2>1, <3>1
  <2> QED
    BY <2>2, <2>3
<1>3. Nat \subseteq S
  <2> HIDE DEF S
  <2> QED
    BY <1>1, <1>2, NaturalInduction
<1>4. Good(n)
  BY <1>3
<1> QED
  BY <1>4 DEF IsRecursive

\* Induction over sequences: from the empty one, an element at the end at a time.
LEMMA SequenceInduction ==
    ASSUME NEW E, NEW P, <<>> \in P,
           \A s \in Seq(E), x \in E : s \in P => Append(s, x) \in P
    PROVE  Seq(E) \subseteq P
<1> DEFINE S == {n \in Nat : \A s \in Seq(E) : Len(s) = n => s \in P}
<1>1. 0 \in S
  <2>1. \A s \in Seq(E) : Len(s) = 0 => s = <<>>
    OBVIOUS
  <2> QED
    BY <2>1
<1>2. ASSUME NEW n \in Nat, n \in S PROVE n + 1 \in S
  <2>1. ASSUME NEW s \in Seq(E), Len(s) = n + 1 PROVE s \in P
    <3> DEFINE r == SubSeq(s, 1, n)
    <3>1. r \in Seq(E) /\ Len(r) = n /\ s[n + 1] \in E
      BY <2>1
    <3>2. s = Append(r, s[n + 1])
      BY <2>1
    <3>3. r \in P
      BY <3>1, <1>2
    <3> HIDE DEF r
    <3> QED
      BY <3>1, <3>2, <3>3
  <2> QED
    BY <2>1
<1>3. Nat \subseteq S
  <2> HIDE DEF S
  <2> QED
    BY <1>1, <1>2, NaturalInduction
<1>4. ASSUME NEW s \in Seq(E) PROVE s \in P
  <2>1. Len(s) \in S
    BY <1>3
  <2> QED
    BY <2>1
<1> QED
  BY <1>4

----------------------------------------------------------------------------
(* Selections *)

\* The values of the recursion by which Select is defined.
Unfolds(f, s, T) ==
    /\ f[0] = <<>>
    /\ \A i \in 1 .. Len(s) :
          f[i] = IF s[i] \in T THEN Append(f[i - 1], s[i]) ELSE f[i - 1]

\* Select is what its recursion comes to.
LEMMA SelectUnfolds ==
    ASSUME NEW E, NEW s \in Seq(E), NEW T
    PROVE  \E f \in [0 .. Len(s) -> Seq(E)] :
              Unfolds(f, s, T) /\ Select(s, T) = f[Len(s)]
<1> DEFINE step == [p \in Seq(E) \X (1 .. Len(s)) |->
                       IF s[p[2]] \in T THEN Append(p[1], s[p[2]]) ELSE p[1]]
           Eq(f) == f = [i \in 0 .. Len(s) |->
                       IF i = 0 THEN <<>>
                       ELSE IF s[i] \in T THEN Append(f[i - 1], s[i]) ELSE f[i - 1]]
           kept == CHOOSE f : Eq(f)
<1>1. step \in [Seq(E) \X (1 .. Len(s)) -> Seq(E)]
  OBVIOUS
<1>2. PICK f \in [0 .. Len(s) -> Seq(E)] :
         f[0] = <<>> /\ \A i \in 1 .. Len(s) : f[i] = step[<<f[i - 1], i>>]
  <2> DEFINE V == Seq(E)
             n == Len(s)
             c == <<>>
  <2>1. n \in Nat /\ c \in V /\ step \in [V \X (1 .. n) -> V]
    BY <1>1
  <2> HIDE DEF V, n, c, step
  <2>2. \E f \in [0 .. n -> V] : IsRecursive(f, n, c, step)
    BY <2>1, RecursionExists
  <2> QED
    BY <2>2 DEF V, n, c, IsRecursive
<1>3. Eq(f)
  <2>1. ASSUME NEW i \in 1 .. Len(s)
        PROVE  f[i] = IF s[i] \in T THEN Append(f[i - 1], s[i]) ELSE f[i - 1]
    <3> HIDE DEF step
    <3>1. f[i] = step[<<f[i - 1], i>>]
      BY <1>2
    <3>2. f[i - 1] \in Seq(E)
      OBVIOUS
    <3> USE DEF step
    <3> QED
      BY <3>1, <3>2
  <2> HIDE DEF step
  <2>2. \A i \in 0 .. Len(s) : i = 0 \/ i \in 1 .. Len(s)
    OBVIOUS
  <2>3. f = [i \in 0 .. Len(s) |-> f[i]]
    OBVIOUS
  <2>4. \A i \in 0 .. Len(s) :
           f[i] = IF i = 0 THEN <<>>
                  ELSE IF s[i] \in T THEN Append(f[i - 1], s[i]) ELSE f[i - 1]
    BY <1>2, <2>1, <2>2, Zenon
  <2> QED
    BY <2>3, <2>4
<1>4. PICK g : g = kept /\ Eq(g)
  <2>1. Eq(kept)
    <3> HIDE DEF Eq
    <3> QED
      BY <1>3
  <2> HIDE DEF Eq, kept
  <2> QED
    BY <2>1
<1>5. Select(s, T) = g[Len(s)]
  BY <1>4 DEF Select
<1> HIDE DEF kept, step
<1>6. /\ g[0] = <<>>
      /\ \A i \in 1 .. Len(s) :
            g[i] = IF s[i] \in T THEN Append(g[i - 1], s[i]) ELSE g[i - 1]
  <2>1. \A i \in 1 .. Len(s) : i # 0 /\ i \in 0 .. Len(s)
    OBVIOUS
  <2>2. 0 \in 0 .. Len(s)
    OBVIOUS
  <2> QED
    BY <1>4, <2>1, <2>2, Zenon
<1>7. g \in [0 .. Len(s) -> Seq(E)]
  <2> DEFINE S == {n \in Nat : n <= Len(s) => g[n] \in Seq(E)}
  <2>1. 0 \in S
    <3>1. g[0] \in Seq(E) /\ 0 \in Nat
      BY <1>6
    <3> QED
      BY <3>1, Zenon
  <2>2. ASSUME NEW n \in Nat, n \in S PROVE n + 1 \in S
    <3>1. CASE n + 1 <= Len(s)
      <4>1. g[n + 1] = IF s[n + 1] \in T THEN Append(g[n], s[n + 1]) ELSE g[n]
        BY <1>6, <3>1
      <4>2. g[n] \in Seq(E) /\ s[n + 1] \in E
        BY <2>2, <3>1
      <4>3. g[n + 1] \in Seq(E) /\ n + 1 \in Nat
        BY <4>1, <4>2
      <4> QED
        BY <4>3, Zenon
    <3> QED
      BY <3>1
  <2>3. Nat \subseteq S
    <3> HIDE DEF S
    <3> QED
      BY <2>1, <2>2, NaturalInduction
  <2>4. \A i \in 0 .. Len(s) : g[i] \in Seq(E)
    BY <2>3
  <2> QED
    BY <1>4, <2>4
<1> HIDE DEF Eq
<1> QED
  BY <1>5, <1>6, <1>7 DEF Unfolds

\* A selection is a sequence of the same elements.
LEMMA SelectType ==
    ASSUME NEW E, NEW s \in Seq(E), NEW T
    PROVE  Select(s, T) \in Seq(E)
<1>1. Len(s) \in 0 .. Len(s)
  OBVIOUS
<1> QED
  BY <1>1, SelectUnfolds

\* Nothing is selected from nothing.
LEMMA SelectEmpty == ASSUME NEW T PROVE Select(<<>>, T) = <<>>
<1> DEFINE s == <<>>
<1>1. s \in Seq({}) /\ Len(s) = 0
  OBVIOUS
<1> HIDE DEF s
<1>2. PICK f : Unfolds(f, s, T) /\ Select(s, T) = f[Len(s)]
  BY <1>1, SelectUnfolds
<1> QED
  BY <1>1, <1>2 DEF Unfolds, s

\* An element at the end is selected, or it is not.
LEMMA SelectAppend ==
    ASSUME NEW E, NEW s \in Seq(E), NEW x \in E, NEW T
    PROVE  Select(Append(s, x), T)
              = IF x \in T THEN Append(Select(s, T), x) ELSE Select(s, T)
<1> DEFINE r == Append(s, x)
           n == Len(s)
<1>1. r \in Seq(E) /\ Len(r) = n + 1 /\ r[n + 1] = x /\ \A i \in 1 .. n : r[i] = s[i]
  OBVIOUS
<1>2. n \in Nat
  OBVIOUS
<1>3. PICK f \in [0 .. n -> Seq(E)] : Unfolds(f, s, T) /\ Select(s, T) = f[n]
  BY SelectUnfolds
<1> HIDE DEF r
<1>4. PICK g \in [0 .. Len(r) -> Seq(E)] : Unfolds(g, r, T) /\ Select(r, T) = g[Len(r)]
  BY <1>1, SelectUnfolds
<1> DEFINE S == {i \in Nat : i <= n => f[i] = g[i]}
<1>5. 0 \in S
  <2>1. f[0] = g[0]
    BY <1>3, <1>4 DEF Unfolds
  <2> QED
    BY <2>1
<1>6. ASSUME NEW i \in Nat, i \in S PROVE i + 1 \in S
  <2>1. CASE i + 1 <= n
    <3>1. f[i] = g[i] /\ r[i + 1] = s[i + 1] /\ i + 1 - 1 = i
      BY <2>1, <1>1, <1>2, <1>6
    <3>2. i + 1 \in 1 .. n /\ i + 1 \in 1 .. Len(r)
      BY <2>1, <1>1, <1>2
    <3>3. f[i + 1] = IF s[i + 1] \in T THEN Append(f[i], s[i + 1]) ELSE f[i]
      BY <3>1, <3>2, <1>3 DEF Unfolds
    <3>4. g[i + 1] = IF r[i + 1] \in T THEN Append(g[i], r[i + 1]) ELSE g[i]
      BY <3>1, <3>2, <1>4 DEF Unfolds
    <3>5. f[i + 1] = g[i + 1]
      BY <3>1, <3>3, <3>4
    <3> QED
      BY <3>5
  <2> QED
    BY <2>1
<1>7. Nat \subseteq S
  <2> HIDE DEF S
  <2> QED
    BY <1>5, <1>6, NaturalInduction
<1>8. f[n] = g[n]
  BY <1>2, <1>7
<1>9. n + 1 \in 1 .. Len(r) /\ n + 1 - 1 = n
  BY <1>1, <1>2
<1>10. g[n + 1] = IF x \in T THEN Append(g[n], x) ELSE g[n]
  BY <1>1, <1>4, <1>9 DEF Unfolds
<1> QED
  BY <1>1, <1>3, <1>4, <1>8, <1>10 DEF r

\* What is selected from one element.
LEMMA SelectOne ==
    ASSUME NEW x, NEW T
    PROVE  Select(<<x>>, T) = IF x \in T THEN <<x>> ELSE <<>>
<1> DEFINE s == <<>>
           E == {x}
<1>1. s \in Seq(E) /\ Append(s, x) = <<x>> /\ x \in E
  OBVIOUS
<1>2. Select(s, T) = <<>>
  BY SelectEmpty
<1> HIDE DEF s, E
<1>3. Select(Append(s, x), T) = IF x \in T THEN Append(s, x) ELSE s
  BY <1>1, <1>2, SelectAppend DEF s
<1> QED
  BY <1>1, <1>3 DEF s

\* The places h of s that hold what belongs to T, in their order, give r.
IsSelection(h, s, T, r) ==
    /\ h \in [1 .. Len(r) -> 1 .. Len(s)]
    /\ \A k \in 1 .. Len(r) : r[k] = s[h[k]] /\ s[h[k]] \in T
    /\ \A k, l \in 1 .. Len(r) : k < l => h[k] < h[l]
    /\ \A i \in 1 .. Len(s) : s[i] \in T => \E k \in 1 .. Len(r) : h[k] = i

\* What is selected stands at such places.
LEMMA SelectPlaces ==
    ASSUME NEW E, NEW T
    PROVE  \A s \in Seq(E) : \E h : IsSelection(h, s, T, Select(s, T))
<1> DEFINE P == {s \in Seq(E) : \E h : IsSelection(h, s, T, Select(s, T))}
<1>1. <<>> \in P
  <2>1. IsSelection(<<>>, <<>>, T, <<>>)
    BY DEF IsSelection
  <2> QED
    BY <2>1, SelectEmpty
<1>2. ASSUME NEW s \in Seq(E), NEW x \in E, s \in P PROVE Append(s, x) \in P
  <2> DEFINE r == Select(s, T)
             n == Len(s)
             m == Len(r)
             sx == Append(s, x)
  <2>1. r \in Seq(E) /\ n \in Nat /\ m \in Nat
    BY SelectType
  <2>2. PICK h : IsSelection(h, s, T, r)
    BY <1>2
  <2>3. sx \in Seq(E) /\ Len(sx) = n + 1 /\ sx[n + 1] = x /\ \A i \in 1 .. n : sx[i] = s[i]
    OBVIOUS
  <2>4. Select(sx, T) = IF x \in T THEN Append(r, x) ELSE r
    BY SelectAppend
  <2> HIDE DEF r, sx
  <2>5. CASE x \notin T
    <3>1. /\ h \in [1 .. m -> 1 .. n]
          /\ \A k \in 1 .. m : r[k] = s[h[k]] /\ s[h[k]] \in T
          /\ \A k, l \in 1 .. m : k < l => h[k] < h[l]
          /\ \A i \in 1 .. n : s[i] \in T => \E k \in 1 .. m : h[k] = i
      BY <2>2 DEF IsSelection
    <3>2. h \in [1 .. m -> 1 .. n + 1] /\ \A k \in 1 .. m : sx[h[k]] = s[h[k]]
      BY <3>1, <2>1, <2>3
    <3>3. \A i \in 1 .. n + 1 : sx[i] \in T => \E k \in 1 .. m : h[k] = i
      BY <3>1, <2>1, <2>3, <2>5
    <3>4. IsSelection(h, sx, T, r)
      BY <3>1, <3>2, <3>3, <2>3 DEF IsSelection
    <3> QED
      BY <3>4, <2>3, <2>4, <2>5 DEF sx
  <2>6. CASE x \in T
    <3> DEFINE g == [k \in 1 .. m + 1 |-> IF k = m + 1 THEN n + 1 ELSE h[k]]
               rx == Append(r, x)
    <3>1. rx \in Seq(E) /\ Len(rx) = m + 1 /\ rx[m + 1] = x /\ \A k \in 1 .. m : rx[k] = r[k]
      BY <2>1
    <3>2. /\ h \in [1 .. m -> 1 .. n]
          /\ \A k \in 1 .. m : r[k] = s[h[k]] /\ s[h[k]] \in T
          /\ \A k, l \in 1 .. m : k < l => h[k] < h[l]
          /\ \A i \in 1 .. n : s[i] \in T => \E k \in 1 .. m : h[k] = i
      BY <2>2 DEF IsSelection
    <3>3. g \in [1 .. m + 1 -> 1 .. n + 1] /\ g[m + 1] = n + 1 /\ \A k \in 1 .. m : g[k] = h[k]
      BY <3>2, <2>1
    <3> HIDE DEF g, rx, m, n
    <3>4. ASSUME NEW k \in 1 .. m + 1 PROVE rx[k] = sx[g[k]] /\ sx[g[k]] \in T
      <4>1. k = m + 1 \/ k \in 1 .. m
        BY <2>1
      <4>2. CASE k \in 1 .. m
        <5>1. h[k] \in 1 .. n
          BY <3>2, <4>2
        <5> QED
          BY <5>1, <4>2, <3>1, <3>2, <3>3, <2>3
      <4> QED
        BY <4>1, <4>2, <3>1, <3>3, <2>3, <2>6
    <3>5. ASSUME NEW k \in 1 .. m + 1, NEW l \in 1 .. m + 1, k < l PROVE g[k] < g[l]
      <4>1. k \in 1 .. m /\ h[k] \in 1 .. n
        BY <3>2, <3>5, <2>1
      <4>2. CASE l = m + 1
        BY <4>1, <4>2, <3>3, <2>1
      <4>3. CASE l \in 1 .. m
        BY <4>1, <4>3, <3>2, <3>3, <3>5
      <4> QED
        BY <4>2, <4>3, <2>1
    <3>6. ASSUME NEW i \in 1 .. n + 1, sx[i] \in T PROVE \E k \in 1 .. m + 1 : g[k] = i
      <4>1. CASE i = n + 1
        <5>1. m + 1 \in 1 .. m + 1
          BY <2>1
        <5> QED
          BY <5>1, <4>1, <3>3
      <4>2. CASE i \in 1 .. n
        <5>1. PICK k \in 1 .. m : h[k] = i
          BY <4>2, <3>2, <3>6, <2>3
        <5>2. k \in 1 .. m + 1 /\ g[k] = i
          BY <5>1, <3>3, <2>1
        <5> QED
          BY <5>2
      <4> QED
        BY <4>1, <4>2, <2>1
    <3>7. IsSelection(g, sx, T, rx)
      BY <3>1, <3>3, <3>4, <3>5, <3>6, <2>3 DEF IsSelection
    <3> QED
      BY <3>7, <2>3, <2>4, <2>6 DEF sx, rx
  <2> QED
    BY <2>5, <2>6
<1> HIDE DEF P
<1>3. Seq(E) \subseteq P
  BY <1>1, <1>2, SequenceInduction
<1> QED
  BY <1>3 DEF P

\* A selection holds those elements of the sequence, in their order (the same
\* without naming the places).
HoldsSelection(s, T, r) ==
    /\ \A k \in 1 .. Len(r) : \E i \in 1 .. Len(s) : r[k] = s[i] /\ s[i] \in T
    /\ \A i \in 1 .. Len(s) : s[i] \in T => \E k \in 1 .. Len(r) : r[k] = s[i]
    /\ \A k, l \in 1 .. Len(r) : k < l =>
          \E i, j \in 1 .. Len(s) : i < j /\ r[k] = s[i] /\ r[l] = s[j]

\* That is what Select returns.
LEMMA SelectElements ==
    ASSUME NEW E, NEW s \in Seq(E), NEW T
    PROVE  HoldsSelection(s, T, Select(s, T))
<1> DEFINE r == Select(s, T)
<1>1. PICK h : IsSelection(h, s, T, r)
  BY SelectPlaces
<1> HIDE DEF r
<1>2. \A k \in 1 .. Len(r) : h[k] \in 1 .. Len(s) /\ r[k] = s[h[k]] /\ s[h[k]] \in T
  BY <1>1 DEF IsSelection
<1>3. \A i \in 1 .. Len(s) : s[i] \in T => \E k \in 1 .. Len(r) : r[k] = s[i]
  BY <1>1, <1>2 DEF IsSelection
<1>4. \A k, l \in 1 .. Len(r) : k < l => h[k] < h[l]
  BY <1>1 DEF IsSelection
<1>5. HoldsSelection(s, T, r)
  BY <1>2, <1>3, <1>4 DEF HoldsSelection
<1> QED
  BY <1>5 DEF r

\* A selection is not longer, and shorter if an element is left out.
LEMMA SelectLength ==
    ASSUME NEW E, NEW T
    PROVE  \A s \in Seq(E) :
              /\ Len(Select(s, T)) <= Len(s)
              /\ (\E i \in 1 .. Len(s) : s[i] \notin T) => Len(Select(s, T)) < Len(s)
<1> DEFINE Shorter(s) ==
              /\ Len(Select(s, T)) <= Len(s)
              /\ (\E i \in 1 .. Len(s) : s[i] \notin T) => Len(Select(s, T)) < Len(s)
           P == {s \in Seq(E) : Shorter(s)}
<1>1. <<>> \in P
  <2>1. Shorter(<<>>)
    BY SelectEmpty
  <2>2. <<>> \in Seq(E)
    OBVIOUS
  <2> QED
    BY <2>1, <2>2, Zenon
<1>2. ASSUME NEW s \in Seq(E), NEW x \in E, s \in P PROVE Append(s, x) \in P
  <2> DEFINE r == Select(s, T)
             sx == Append(s, x)
             rx == Select(sx, T)
  <2>1. r \in Seq(E) /\ sx \in Seq(E)
    BY SelectType
  <2>2. /\ Len(r) <= Len(s)
        /\ (\E i \in 1 .. Len(s) : s[i] \notin T) => Len(r) < Len(s)
    BY <1>2
  <2>3. Len(sx) = Len(s) + 1 /\ sx[Len(s) + 1] = x /\ \A i \in 1 .. Len(s) : sx[i] = s[i]
    OBVIOUS
  <2>4. rx = IF x \in T THEN Append(r, x) ELSE r
    BY SelectAppend
  <2>5. Len(rx) = IF x \in T THEN Len(r) + 1 ELSE Len(r)
    <3> HIDE DEF r, rx
    <3> QED
      BY <2>1, <2>4
  <2>6. Len(r) \in Nat /\ Len(s) \in Nat
    BY <2>1
  <2> HIDE DEF r, rx, sx
  <2>7. Len(rx) <= Len(sx)
    BY <2>2, <2>3, <2>5, <2>6
  <2>8. ASSUME NEW i \in 1 .. Len(sx), sx[i] \notin T PROVE Len(rx) < Len(sx)
    BY <2>2, <2>3, <2>5, <2>6, <2>8
  <2> QED
    BY <2>1, <2>7, <2>8 DEF rx, sx
<1>3. Seq(E) \subseteq P
  <2> HIDE DEF P
  <2> QED
    BY <1>1, <1>2, SequenceInduction
<1> QED
  BY <1>3

----------------------------------------------------------------------------
(* Sequences in a row *)

\* Concatenation and Append under names that the provers do not open.
Cat(a, b) == a \o b

Put(a, x) == Append(a, x)

\* Two sequences in a row are a sequence of the same elements.
LEMMA CatType ==
    ASSUME NEW E, NEW a \in Seq(E), NEW b \in Seq(E)
    PROVE  Cat(a, b) \in Seq(E)
  BY DEF Cat

\* An element more makes a sequence again.
LEMMA PutType ==
    ASSUME NEW E, NEW a \in Seq(E), NEW x \in E
    PROVE  Put(a, x) \in Seq(E)
  BY DEF Put

\* The empty sequence adds nothing.
LEMMA CatEmpty ==
    ASSUME NEW E, NEW a \in Seq(E)
    PROVE  Cat(a, <<>>) = a /\ Cat(<<>>, a) = a
  BY DEF Cat

\* An element is put at the end of two sequences, or of the second one.
LEMMA CatPut ==
    ASSUME NEW E, NEW a \in Seq(E), NEW b \in Seq(E), NEW x \in E
    PROVE  Put(Cat(a, b), x) = Cat(a, Put(b, x))
  BY DEF Cat, Put

\* SelectAppend, for Put.
LEMMA SelectPut ==
    ASSUME NEW E, NEW s \in Seq(E), NEW x \in E, NEW T
    PROVE  Select(Put(s, x), T)
              = IF x \in T THEN Put(Select(s, T), x) ELSE Select(s, T)
  BY SelectAppend DEF Put

\* SequenceInduction, for Put.
LEMMA PutInduction ==
    ASSUME NEW E, NEW P, <<>> \in P,
           \A s \in Seq(E), x \in E : s \in P => Put(s, x) \in P
    PROVE  Seq(E) \subseteq P
  BY SequenceInduction DEF Put

\* Two sequences in a row are selected from one after the other.
LEMMA SelectCat ==
    ASSUME NEW E, NEW s \in Seq(E), NEW T
    PROVE  \A t \in Seq(E) : Select(Cat(s, t), T) = Cat(Select(s, T), Select(t, T))
<1> DEFINE P == {t \in Seq(E) : Select(Cat(s, t), T) = Cat(Select(s, T), Select(t, T))}
<1>1. <<>> \in P
  <2>1. Cat(s, <<>>) = s /\ Cat(Select(s, T), <<>>) = Select(s, T)
    BY SelectType, CatEmpty
  <2>2. Select(Cat(s, <<>>), T) = Cat(Select(s, T), Select(<<>>, T))
    BY <2>1, SelectEmpty
  <2> QED
    BY <2>2
<1>2. ASSUME NEW t \in Seq(E), NEW x \in E, t \in P PROVE Put(t, x) \in P
  <2>1. Select(Cat(s, t), T) = Cat(Select(s, T), Select(t, T))
    BY <1>2
  <2>2. Select(s, T) \in Seq(E) /\ Select(t, T) \in Seq(E) /\ Cat(s, t) \in Seq(E)
    BY SelectType, CatType
  <2>3. Select(Put(Cat(s, t), x), T)
           = IF x \in T THEN Put(Select(Cat(s, t), T), x) ELSE Select(Cat(s, t), T)
    BY <2>2, SelectPut
  <2>4. Select(Put(t, x), T) = IF x \in T THEN Put(Select(t, T), x) ELSE Select(t, T)
    BY SelectPut
  <2>5. Put(Cat(s, t), x) = Cat(s, Put(t, x))
    BY CatPut
  <2>6. Put(Cat(Select(s, T), Select(t, T)), x) = Cat(Select(s, T), Put(Select(t, T), x))
    BY <2>2, CatPut
  <2>7. Select(Cat(s, Put(t, x)), T) = Cat(Select(s, T), Select(Put(t, x), T))
    BY <2>1, <2>3, <2>4, <2>5, <2>6
  <2>8. Put(t, x) \in Seq(E)
    BY PutType
  <2> QED
    BY <2>7, <2>8
<1> HIDE DEF P
<1>3. Seq(E) \subseteq P
  BY <1>1, <1>2, PutInduction
<1> QED
  BY <1>3 DEF P

\* All is selected from a sequence of what belongs to the set.
LEMMA SelectAll ==
    ASSUME NEW E, NEW T, E \subseteq T
    PROVE  \A s \in Seq(E) : Select(s, T) = s
<1> DEFINE P == {s \in Seq(E) : Select(s, T) = s}
<1>1. <<>> \in P
  BY SelectEmpty
<1>2. ASSUME NEW s \in Seq(E), NEW x \in E, s \in P PROVE Append(s, x) \in P
  <2>1. Select(Append(s, x), T) = Append(s, x)
    BY <1>2, SelectAppend
  <2> QED
    BY <2>1
<1> HIDE DEF P
<1>3. Seq(E) \subseteq P
  BY <1>1, <1>2, SequenceInduction
<1> QED
  BY <1>3 DEF P

\* Nothing is selected from a sequence of what does not belong to the set.
LEMMA SelectNone ==
    ASSUME NEW E, NEW T, E \cap T = {}
    PROVE  \A s \in Seq(E) : Select(s, T) = <<>>
<1> DEFINE P == {s \in Seq(E) : Select(s, T) = <<>>}
<1>1. <<>> \in P
  BY SelectEmpty
<1>2. ASSUME NEW s \in Seq(E), NEW x \in E, s \in P PROVE Put(s, x) \in P
  <2>1. Put(s, x) \in Seq(E)
    BY PutType
  <2>2. x \notin T
    OBVIOUS
  <2>3. Select(Put(s, x), T) = Select(s, T)
    BY <2>2, SelectPut
  <2> QED
    BY <1>2, <2>1, <2>3
<1>3. Seq(E) \subseteq P
  <2> HIDE DEF P
  <2> QED
    BY <1>1, <1>2, PutInduction
<1> QED
  BY <1>3

----------------------------------------------------------------------------
(* Stretches of a sequence *)

\* A stretch of a sequence, under a name that the provers do not open.
Part(s, i, j) == SubSeq(s, i, j)

\* A stretch is a sequence of the same elements.
LEMMA PartType ==
    ASSUME NEW E, NEW s \in Seq(E), NEW i \in Nat, NEW j \in Nat, 1 <= i, j <= Len(s)
    PROVE  Part(s, i, j) \in Seq(E)
  BY DEF Part

\* A stretch that ends before it begins is empty.
LEMMA PartEmpty ==
    ASSUME NEW E, NEW s \in Seq(E), NEW i \in Nat, NEW j \in Nat, j < i
    PROVE  Part(s, i, j) = <<>>
  BY DEF Part

\* A stretch grows by the element after it.
LEMMA PartPut ==
    ASSUME NEW E, NEW s \in Seq(E), NEW i \in Nat, NEW j \in Nat,
           1 <= i, i <= j + 1, j + 1 <= Len(s)
    PROVE  Part(s, i, j + 1) = Put(Part(s, i, j), s[j + 1])
  BY DEF Part, Put

\* d is a with b behind it, place by place.
Joins(d, a, b) ==
    /\ Len(d) = Len(a) + Len(b)
    /\ \A m \in 1 .. Len(a) : d[m] = a[m]
    /\ \A m \in 1 .. Len(b) : d[Len(a) + m] = b[m]

\* That is what Cat returns.
LEMMA CatJoins ==
    ASSUME NEW E, NEW a \in Seq(E), NEW b \in Seq(E)
    PROVE  Joins(Cat(a, b), a, b)
  BY DEF Cat, Joins

\* The elements of a stretch, place by place.
LEMMA PartElements ==
    ASSUME NEW E, NEW s \in Seq(E), NEW i \in Nat, NEW j \in Nat,
           1 <= i, i <= j + 1, j <= Len(s)
    PROVE  /\ Part(s, i, j) \in Seq(E) /\ Len(Part(s, i, j)) = j - i + 1
           /\ \A m \in 1 .. j - i + 1 : Part(s, i, j)[m] = s[i + m - 1]
  BY DEF Part

\* Two stretches that meet make up one.
LEMMA PartCat ==
    ASSUME NEW E, NEW s \in Seq(E), NEW i \in Nat, NEW k \in Nat,
           1 <= i, i <= k + 1, k <= Len(s)
    PROVE  Cat(Part(s, i, k), Part(s, k + 1, Len(s))) = Part(s, i, Len(s))
<1> DEFINE n == Len(s)
           a == Part(s, i, k)
           b == Part(s, k + 1, n)
           c == Part(s, i, n)
           d == Cat(a, b)
<1>1. n \in Nat /\ k + 1 \in Nat /\ 1 <= k + 1 /\ k + 1 <= n + 1 /\ i <= n + 1 /\ n <= Len(s)
  OBVIOUS
<1> HIDE DEF n
<1>2. a \in Seq(E) /\ Len(a) = k - i + 1 /\ \A m \in 1 .. k - i + 1 : a[m] = s[i + m - 1]
  BY <1>1, PartElements DEF n
<1>3. b \in Seq(E) /\ Len(b) = n - k /\ \A m \in 1 .. n - k : b[m] = s[k + m]
  <2>1. /\ b \in Seq(E) /\ Len(b) = n - (k + 1) + 1
        /\ \A m \in 1 .. n - (k + 1) + 1 : b[m] = s[k + 1 + m - 1]
    BY <1>1, PartElements
  <2>2. n - (k + 1) + 1 = n - k /\ \A m \in 1 .. n - k : k + 1 + m - 1 = k + m
    BY <1>1
  <2> HIDE DEF b
  <2> QED
    BY <2>1, <2>2
<1>4. c \in Seq(E) /\ Len(c) = n - i + 1 /\ \A m \in 1 .. n - i + 1 : c[m] = s[i + m - 1]
  BY <1>1, PartElements
<1> HIDE DEF a, b
<1>5. /\ d \in Seq(E) /\ Len(d) = Len(a) + Len(b)
      /\ \A m \in 1 .. Len(a) : d[m] = a[m]
      /\ \A m \in 1 .. Len(b) : d[Len(a) + m] = b[m]
  <2>1. a \in Seq(E) /\ b \in Seq(E)
    BY <1>2, <1>3
  <2>2. Joins(d, a, b) /\ d \in Seq(E)
    BY <2>1, CatJoins, CatType
  <2> QED
    BY <2>2 DEF Joins
<1> HIDE DEF c, d
<1>6. ASSUME NEW m \in 1 .. n - i + 1 PROVE d[m] = c[m]
  <2>1. CASE m <= k - i + 1
    <3>1. m \in 1 .. k - i + 1
      BY <2>1
    <3> QED
      BY <1>2, <1>4, <1>5, <3>1
  <2>2. CASE m > k - i + 1
    <3> DEFINE l == m - (k - i + 1)
    <3>1. l \in 1 .. n - k /\ m = k - i + 1 + l /\ k + l = i + m - 1
      BY <1>1, <2>2
    <3> HIDE DEF l
    <3>2. d[m] = b[l]
      BY <1>2, <1>3, <1>5, <3>1
    <3> QED
      BY <1>3, <1>4, <3>1, <3>2
  <2> QED
    BY <1>1, <2>1, <2>2
<1>7. Len(d) = Len(c)
  BY <1>1, <1>2, <1>3, <1>4, <1>5
<1>8. d = c
  BY <1>4, <1>5, <1>6, <1>7
<1> QED
  BY <1>8 DEF n, a, b, c, d

\* The stretch from the first place to the last is the sequence.
LEMMA PartAll ==
    ASSUME NEW E, NEW s \in Seq(E)
    PROVE  Part(s, 1, Len(s)) = s
  BY DEF Part

----------------------------------------------------------------------------
(* Images and flattening *)

\* The elements of a sequence, each sent through a function.
Through(g, s) == [k \in DOMAIN s |-> g[s[k]]]

\* Nothing goes through.
LEMMA ThroughEmpty == ASSUME NEW g PROVE Through(g, <<>>) = <<>>
  BY DEF Through

\* What has gone through is a sequence of results.
LEMMA ThroughType ==
    ASSUME NEW D, NEW E, NEW g \in [D -> E], NEW s \in Seq(D)
    PROVE  Through(g, s) \in Seq(E)
  BY DEF Through

\* An element more is a result more.
LEMMA ThroughPut ==
    ASSUME NEW D, NEW g, NEW s \in Seq(D), NEW x \in D
    PROVE  Through(g, Put(s, x)) = Put(Through(g, s), g[x])
  BY DEF Through, Put

\* What is selected from the results are the results of what is selected.
LEMMA SelectThrough ==
    ASSUME NEW D, NEW g, NEW T, NEW U,
           \A x \in D : x \in U <=> g[x] \in T
    PROVE  \A s \in Seq(D) : Select(Through(g, s), T) = Through(g, Select(s, U))
<1> DEFINE P == {s \in Seq(D) : Select(Through(g, s), T) = Through(g, Select(s, U))}
           E == {g[x] : x \in D}
<1>1. <<>> \in P
  <2>1. Select(Through(g, <<>>), T) = <<>> /\ Through(g, Select(<<>>, U)) = <<>>
    BY SelectEmpty, ThroughEmpty
  <2> QED
    BY <2>1
<1>2. ASSUME NEW s \in Seq(D), NEW x \in D, s \in P PROVE Put(s, x) \in P
  <2>1. Put(s, x) \in Seq(D) /\ Through(g, s) \in Seq(E) /\ g[x] \in E
        /\ Select(s, U) \in Seq(D)
    <3>1. Put(s, x) \in Seq(D) /\ Select(s, U) \in Seq(D)
      BY PutType, SelectType
    <3>2. \A y \in D : g[y] \in E
      OBVIOUS
    <3> HIDE DEF E
    <3>3. Through(g, s) \in Seq(E)
      BY <3>2 DEF Through
    <3> QED
      BY <3>1, <3>2, <3>3
  <2> HIDE DEF E
  <2>2. Through(g, Put(s, x)) = Put(Through(g, s), g[x])
    BY ThroughPut
  <2>3. Select(Put(Through(g, s), g[x]), T)
           = IF g[x] \in T THEN Put(Select(Through(g, s), T), g[x]) ELSE Select(Through(g, s), T)
    BY <2>1, SelectPut
  <2>4. Select(Put(s, x), U) = IF x \in U THEN Put(Select(s, U), x) ELSE Select(s, U)
    BY SelectPut
  <2>5. Through(g, Put(Select(s, U), x)) = Put(Through(g, Select(s, U)), g[x])
    BY <2>1, ThroughPut
  <2>6. Select(Through(g, s), T) = Through(g, Select(s, U))
    BY <1>2
  <2>7. x \in U <=> g[x] \in T
    OBVIOUS
  <2>8. Select(Through(g, Put(s, x)), T) = Through(g, Select(Put(s, x), U))
    BY <2>2, <2>3, <2>4, <2>5, <2>6, <2>7, Zenon
  <2> QED
    BY <2>1, <2>8
<1>3. Seq(D) \subseteq P
  <2> HIDE DEF P
  <2> QED
    BY <1>1, <1>2, PutInduction
<1> QED
  BY <1>3

\* The values of the recursion by which FlattenSeq is defined.
IsFlattening(f, ss) ==
    f[0] = <<>> /\ \A i \in 1 .. Len(ss) : f[i] = Cat(f[i - 1], ss[i])

\* FlattenSeq is what its recursion comes to.
LEMMA FlattenUnfolds ==
    ASSUME NEW E, NEW ss \in Seq(Seq(E))
    PROVE  \E f \in [0 .. Len(ss) -> Seq(E)] : IsFlattening(f, ss) /\ FlattenSeq(ss) = f[Len(ss)]
<1> DEFINE V == Seq(E)
           n == Len(ss)
           none == <<>>
           step == [p \in V \X (1 .. n) |-> Cat(p[1], ss[p[2]])]
           Eq(f) == f = [i \in 1 .. Len(ss) |->
                           IF i = 1 THEN ss[i] ELSE f[i - 1] \o ss[i]]
           flatten == CHOOSE f : Eq(f)
<1>1. n \in Nat /\ none \in V /\ ss \in Seq(V) /\ \A i \in 1 .. n : ss[i] \in V
  OBVIOUS
<1>2. \A v, w \in V : Cat(v, w) \in V
  BY CatType
<1> HIDE DEF V
<1>3. step \in [V \X (1 .. n) -> V]
  <2>1. \A p \in V \X (1 .. n) : Cat(p[1], ss[p[2]]) \in V
    BY <1>1, <1>2
  <2> QED
    BY <2>1
<1>4. PICK f \in [0 .. n -> V] : IsRecursive(f, n, none, step)
  <2> HIDE DEF n, step, none
  <2> QED
    BY <1>1, <1>3, RecursionExists
<1>5. \A i \in 1 .. n : f[i] = Cat(f[i - 1], ss[i])
  <2>1. SUFFICES ASSUME NEW i \in 1 .. n PROVE f[i] = Cat(f[i - 1], ss[i])
    OBVIOUS
  <2>2. <<f[i - 1], i>> \in V \X (1 .. n)
    <3> HIDE DEF n, step
    <3>1. i - 1 \in 0 .. n
      BY <1>1
    <3> QED
      BY <3>1
  <2>3. f[i] = step[<<f[i - 1], i>>]
    BY <1>4 DEF IsRecursive
  <2> QED
    BY <2>2, <2>3
<1>6. f[0] = none /\ IsFlattening(f, ss)
  <2>1. f[0] = none
    BY <1>4 DEF IsRecursive
  <2> QED
    BY <1>5, <2>1 DEF IsFlattening
<1> HIDE DEF step
<1>7. CASE n = 0
  <2>1. FlattenSeq(ss) = ss
    BY <1>7 DEF FlattenSeq
  <2>2. ss = <<>>
    BY <1>1, <1>7
  <2> HIDE DEF V
  <2> QED
    BY <1>6, <1>7, <2>1, <2>2 DEF V
<1>8. CASE n # 0
  <2>1. 1 \in 1 .. n /\ n \in 1 .. n /\ f[1] = ss[1]
    <3>1. 1 \in 1 .. n /\ n \in 1 .. n /\ 1 - 1 = 0
      BY <1>1, <1>8
    <3>2. f[1] = Cat(none, ss[1])
      BY <1>5, <1>6, <3>1
    <3>3. Cat(none, ss[1]) = ss[1]
      BY <1>1, <3>1, CatEmpty DEF V
    <3> QED
      BY <3>1, <3>2, <3>3
  <2> DEFINE h == [i \in 1 .. n |-> f[i]]
  <2>2. Eq(h)
    <3>1. \A i \in 1 .. n : h[i] = IF i = 1 THEN ss[i] ELSE Cat(h[i - 1], ss[i])
      <4>1. SUFFICES ASSUME NEW i \in 1 .. n
                     PROVE  h[i] = IF i = 1 THEN ss[i] ELSE Cat(h[i - 1], ss[i])
        OBVIOUS
      <4>2. CASE i = 1
        BY <2>1, <4>2
      <4>3. CASE i # 1
        <5>1. i - 1 \in 1 .. n
          BY <1>1, <4>3
        <5>2. h[i] = f[i] /\ h[i - 1] = f[i - 1]
          BY <5>1
        <5> QED
          BY <1>5, <4>3, <5>2
      <4> QED
        BY <4>2, <4>3
    <3>2. h = [i \in 1 .. n |-> h[i]]
      OBVIOUS
    <3> HIDE DEF h
    <3>3. h = [i \in 1 .. n |-> IF i = 1 THEN ss[i] ELSE Cat(h[i - 1], ss[i])]
      BY <3>1, <3>2, Zenon
    <3> QED
      BY <3>3, Zenon DEF n, Cat
  <2>3. PICK g : g = flatten /\ Eq(g)
    <3>1. Eq(flatten)
      <4> HIDE DEF Eq
      <4> QED
        BY <2>2
    <3> HIDE DEF Eq, flatten
    <3> QED
      BY <3>1
  <2>4. FlattenSeq(ss) = g[n]
    BY <1>8, <2>3 DEF FlattenSeq
  <2> HIDE DEF flatten, h
  <2>5. \A i \in 1 .. n : g[i] = IF i = 1 THEN ss[i] ELSE Cat(g[i - 1], ss[i])
    BY <2>3, Zenon DEF n, Cat
  <2> DEFINE S == {i \in Nat : i <= n /\ i # 0 => g[i] = f[i]}
  <2> HIDE DEF Eq
  <2>6. 0 \in S
    OBVIOUS
  <2>7. ASSUME NEW i \in Nat, i \in S PROVE i + 1 \in S
    <3>1. CASE i + 1 <= n /\ i = 0
      <4>1. g[1] = ss[1]
        BY <2>1, <2>5
      <4> QED
        BY <2>1, <3>1, <4>1
    <3>2. CASE i + 1 <= n /\ i # 0
      <4>1. i + 1 \in 1 .. n /\ i + 1 # 1 /\ i + 1 - 1 = i /\ i <= n
        BY <1>1, <3>2
      <4>2. g[i] = f[i]
        BY <2>7, <3>2, <4>1
      <4>5. ASSUME NEW k \in 1 .. n, k # 1, k - 1 = i
            PROVE  g[k] = Cat(g[i], ss[k]) /\ f[k] = Cat(f[i], ss[k])
        BY <1>5, <2>5, <4>5, Zenon
      <4>3. g[i + 1] = Cat(g[i], ss[i + 1]) /\ f[i + 1] = Cat(f[i], ss[i + 1])
        BY <4>1, <4>5
      <4>4. g[i + 1] = f[i + 1]
        BY <4>2, <4>3
      <4> QED
        BY <4>4
    <3> QED
      BY <3>1, <3>2
  <2>8. Nat \subseteq S
    <3> HIDE DEF S
    <3> QED
      BY <2>6, <2>7, NaturalInduction
  <2>9. g[n] = f[n]
    <3> HIDE DEF n
    <3>1. n \in S
      BY <1>1, <2>8
    <3> QED
      BY <1>1, <1>8, <3>1
  <2> QED
    BY <1>6, <2>4, <2>9 DEF V
<1> QED
  BY <1>7, <1>8

\* A sequence of sequences makes up a sequence of their elements.
LEMMA FlattenType ==
    ASSUME NEW E, NEW ss \in Seq(Seq(E))
    PROVE  FlattenSeq(ss) \in Seq(E)
<1>1. Len(ss) \in 0 .. Len(ss)
  OBVIOUS
<1> QED
  BY <1>1, FlattenUnfolds

\* No sequences make up the empty one.
LEMMA FlattenEmpty == FlattenSeq(<<>>) = <<>>
  BY DEF FlattenSeq

\* A sequence more is put behind what the others make up.
LEMMA FlattenPut ==
    ASSUME NEW E, NEW ss \in Seq(Seq(E)), NEW x \in Seq(E)
    PROVE  FlattenSeq(Put(ss, x)) = Cat(FlattenSeq(ss), x)
<1> DEFINE V == Seq(E)
           r == Put(ss, x)
           n == Len(ss)
<1>1. /\ r \in Seq(V) /\ Len(r) = n + 1 /\ r[n + 1] = x
      /\ \A i \in 1 .. n : r[i] = ss[i]
  <2> ss \in Seq(V) /\ x \in V
    OBVIOUS
  <2> HIDE DEF V
  <2> QED
    BY DEF Put
<1>2. n \in Nat
  OBVIOUS
<1>3. PICK f \in [0 .. n -> V] : IsFlattening(f, ss) /\ FlattenSeq(ss) = f[n]
  BY FlattenUnfolds
<1> HIDE DEF r
<1>4. PICK g \in [0 .. Len(r) -> V] : IsFlattening(g, r) /\ FlattenSeq(r) = g[Len(r)]
  BY <1>1, FlattenUnfolds
<1> HIDE DEF V
<1>5. /\ f[0] = <<>> /\ \A i \in 1 .. n : f[i] = Cat(f[i - 1], ss[i])
      /\ g[0] = <<>> /\ \A i \in 1 .. n + 1 : g[i] = Cat(g[i - 1], r[i])
  BY <1>1, <1>3, <1>4 DEF IsFlattening
<1> DEFINE S == {i \in Nat : i <= n => f[i] = g[i]}
<1>6. 0 \in S
  BY <1>5
<1>7. ASSUME NEW i \in Nat, i \in S PROVE i + 1 \in S
  <2>1. CASE i + 1 <= n
    <3>1. f[i] = g[i] /\ i + 1 \in 1 .. n /\ i + 1 \in 1 .. n + 1 /\ i + 1 - 1 = i
      BY <1>2, <1>7, <2>1
    <3>2. f[i + 1] = Cat(f[i], ss[i + 1]) /\ g[i + 1] = Cat(g[i], r[i + 1])
          /\ r[i + 1] = ss[i + 1]
      BY <1>1, <1>5, <3>1
    <3>3. f[i + 1] = g[i + 1]
      BY <3>1, <3>2
    <3> QED
      BY <3>3
  <2> QED
    BY <2>1
<1>8. Nat \subseteq S
  <2> HIDE DEF S
  <2> QED
    BY <1>6, <1>7, NaturalInduction
<1>9. f[n] = g[n]
  <2> HIDE DEF n
  <2>1. n \in S
    BY <1>2, <1>8
  <2> QED
    BY <1>2, <2>1
<1>10. n + 1 \in 1 .. n + 1 /\ n + 1 - 1 = n
  <2> HIDE DEF n
  <2> QED
    BY <1>2
<1>11. g[n + 1] = Cat(g[n], x)
  <2>1. r[n + 1] = x
    BY <1>1
  <2>2. \A i \in 1 .. n + 1 : g[i] = Cat(g[i - 1], r[i])
    BY <1>5
  <2> HIDE DEF n
  <2>3. ASSUME NEW k \in 1 .. n + 1, k = n + 1, k - 1 = n PROVE g[k] = Cat(g[n], x)
    BY <2>1, <2>2, <2>3, Zenon
  <2> QED
    BY <1>2, <1>10, <2>3
<1> QED
  BY <1>1, <1>3, <1>4, <1>9, <1>11 DEF r
=============================================================================
