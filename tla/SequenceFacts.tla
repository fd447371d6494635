---------------------------- MODULE SequenceFacts ----------------------------
(***************************************************************************)
(* Induction over the natural numbers, from the library's theorem that     *)
(* every set of them has a least element: its own induction theorems take  *)
(* a predicate, which the provers cannot instantiate.  From it, what a     *)
(* recursive function is, and what Selections.tla picks from a sequence.   *)
(***************************************************************************)
EXTENDS Selections, SequencesExt, SequenceTheorems, FiniteSetTheorems, WellFoundedInduction, TLAPS

-----------------------------------------------------------------------------
(* Induction and recursion.                                                *)

\* A set with 0, and with the successor of each of its numbers, has all numbers.
LEMMA Upwards ==
  ASSUME NEW T, 0 \in T, \A n \in Nat : n \in T => n + 1 \in T
  PROVE  \A n \in Nat : n \in T
<1> DEFINE U == Nat \ T
<1> SUFFICES ASSUME U # {} PROVE FALSE
  OBVIOUS
<1>1. PICK n \in U : \A m \in U : ~(<<m, n>> \in OpToRel(<, Nat))
  BY NatLessThanWellFounded, WFMin, U \subseteq Nat, Zenon
<1>2. n \in Nat /\ n # 0 /\ n - 1 \in Nat /\ (n - 1) + 1 = n /\ n - 1 < n
  OBVIOUS
<1>3. n - 1 \notin U
  BY <1>1, <1>2 DEF OpToRel
<1> QED
  BY <1>2, <1>3

\* g is the function with g[0] = base that takes the n-th step with next[n].
Unfolds(g, S, base, next) ==
  g \in [Nat -> S] /\ g[0] = base /\ \A n \in Nat : g[n + 1] = next[n][g[n]]

\* There is such a function: the union of its beginnings.
LEMMA Recursion ==
  ASSUME NEW S, NEW base \in S, NEW next \in [Nat -> [S -> S]]
  PROVE  \E g : Unfolds(g, S, base, next)
<1> DEFINE Upto(n, g) == /\ g \in [0 .. n -> S] /\ g[0] = base
                         /\ \A k \in 0 .. n : k # 0 => g[k] = next[k - 1][g[k - 1]]
<1>1. \A n \in Nat : \E g : Upto(n, g)
  <2> DEFINE T == {n \in Nat : \E g : Upto(n, g)}
  <2>1. 0 \in T
    <3>1. Upto(0, [k \in 0 .. 0 |-> base])
      OBVIOUS
    <3> QED
      BY <3>1
  <2>2. ASSUME NEW n \in Nat, n \in T PROVE n + 1 \in T
    <3>1. PICK g : Upto(n, g)
      BY <2>2
    <3> DEFINE h == [k \in 0 .. n + 1 |-> IF k <= n THEN g[k] ELSE next[n][g[n]]]
    <3>2. h \in [0 .. n + 1 -> S] /\ h[0] = base
      BY <3>1
    <3>3. ASSUME NEW k \in 0 .. n + 1, k # 0 PROVE h[k] = next[k - 1][h[k - 1]]
      <4>1. CASE k <= n
        <5>1. k - 1 \in 0 .. n + 1 /\ k - 1 <= n /\ k \in 0 .. n /\ k # 0
          BY <3>3, <4>1
        <5>2. h[k] = g[k] /\ h[k - 1] = g[k - 1]
          BY <5>1
        <5> QED
          BY <3>1, <5>1, <5>2, Zenon
      <4>2. CASE k = n + 1
        <5>1. h[n + 1] = next[n][g[n]] /\ h[n] = g[n]
          BY <3>1
        <5>2. k - 1 = n
          BY <4>2
        <5> HIDE DEF h
        <5> QED
          BY <4>2, <5>1, <5>2
      <4> QED
        BY <4>1, <4>2
    <3> HIDE DEF h
    <3>4. Upto(n + 1, h)
      BY <3>2, <3>3
    <3> HIDE DEF Upto
    <3> QED
      BY <3>4
  <2> HIDE DEF T
  <2>3. \A n \in Nat : n \in T
    BY <2>1, <2>2, Upwards
  <2> QED
    BY <2>3 DEF T
<1> HIDE DEF Upto
<1>2. \A n \in Nat : \A g, h : Upto(n, g) /\ Upto(n + 1, h) => \A k \in 0 .. n : h[k] = g[k]
  <2> SUFFICES ASSUME NEW n \in Nat, NEW g, NEW h, Upto(n, g), Upto(n + 1, h)
               PROVE  \A k \in 0 .. n : h[k] = g[k]
    OBVIOUS
  <2> DEFINE T == {k \in Nat : k <= n => h[k] = g[k]}
  <2>1. 0 \in T
    BY DEF Upto
  <2>2. ASSUME NEW k \in Nat, k \in T PROVE k + 1 \in T
    <3> SUFFICES ASSUME k + 1 <= n PROVE h[k + 1] = g[k + 1]
      OBVIOUS
    <3>1. k + 1 \in 0 .. n /\ k + 1 \in 0 .. n + 1 /\ (k + 1) - 1 = k /\ k + 1 # 0
      OBVIOUS
    <3>2. h[k + 1] = next[k][h[k]] /\ g[k + 1] = next[k][g[k]]
      BY <3>1, Zenon DEF Upto
    <3>3. h[k] = g[k]
      BY <2>2
    <3> QED
      BY <3>2, <3>3
  <2> HIDE DEF T
  <2>3. \A k \in Nat : k \in T
    BY <2>1, <2>2, Upwards
  <2> QED
    BY <2>3 DEF T
<1> DEFINE f == [n \in Nat |-> (CHOOSE g : Upto(n, g))[n]]
<1>3. \A n \in Nat : Upto(n, CHOOSE g : Upto(n, g))
  BY <1>1
<1>4. f \in [Nat -> S]
  <2> SUFFICES ASSUME NEW n \in Nat PROVE (CHOOSE g : Upto(n, g))[n] \in S
    OBVIOUS
  <2> DEFINE g == CHOOSE g : Upto(n, g)
  <2>1. Upto(n, g)
    BY <1>3
  <2> HIDE DEF g
  <2>2. g[n] \in S
    BY <2>1 DEF Upto
  <2> QED
    BY <2>2 DEF g
<1>5. f[0] = base
  BY <1>3 DEF Upto
<1>6. ASSUME NEW n \in Nat PROVE f[n + 1] = next[n][f[n]]
  <2> DEFINE h == CHOOSE g : Upto(n + 1, g)
             g == CHOOSE g : Upto(n, g)
  <2>1. Upto(n, g) /\ Upto(n + 1, h)
    BY <1>3
  <2> HIDE DEF h, g
  <2>2. h[n] = g[n]
    BY <1>2, <2>1
  <2>3. h[n + 1] = next[n][h[n]]
    <3>1. n + 1 \in 0 .. n + 1 /\ (n + 1) - 1 = n /\ n + 1 # 0
      OBVIOUS
    <3> QED
      BY <2>1, <3>1, Zenon DEF Upto
  <2>4. f[n + 1] = h[n + 1] /\ f[n] = g[n]
    BY DEF h, g
  <2> QED
    BY <2>2, <2>3, <2>4
<1> HIDE DEF f
<1>7. Unfolds(f, S, base, next)
  BY <1>4, <1>5, <1>6 DEF Unfolds
<1> QED
  BY <1>7

\* h is the function over 0 .. len with h[0] = base that takes the k-th step with next[k - 1].
UnfoldsUpTo(h, S, base, next, len) ==
  h \in [0 .. len -> S] /\ h[0] = base /\ \A k \in 1 .. len : h[k] = next[k - 1][h[k - 1]]

\* A recursive function over the first numbers exists.
LEMMA RecursionUpTo ==
  ASSUME NEW S, NEW base \in S, NEW next \in [Nat -> [S -> S]], NEW len \in Nat
  PROVE  \E h : UnfoldsUpTo(h, S, base, next, len)
<1>1. PICK g : Unfolds(g, S, base, next)
  BY Recursion
<1>2. g \in [Nat -> S] /\ g[0] = base /\ \A n \in Nat : g[n + 1] = next[n][g[n]]
  BY <1>1 DEF Unfolds
<1> DEFINE h == [k \in 0 .. len |-> g[k]]
<1>3. h \in [0 .. len -> S] /\ h[0] = base
  BY <1>2
<1>4. ASSUME NEW k \in 1 .. len PROVE h[k] = next[k - 1][h[k - 1]]
  <2>1. k - 1 \in Nat /\ (k - 1) + 1 = k /\ k \in 0 .. len /\ k - 1 \in 0 .. len
    OBVIOUS
  <2> QED
    BY <1>2, <2>1
<1> HIDE DEF h
<1>5. UnfoldsUpTo(h, S, base, next, len)
  BY <1>3, <1>4 DEF UnfoldsUpTo
<1> QED
  BY <1>5

-----------------------------------------------------------------------------
(* The elements at some places of a sequence.                              *)

\* What the function in ElementsAt is.
OneByOne(upto, X, s, places) ==
  /\ \A n \in 0 .. Len(s) : upto[n] \in Seq(X)
  /\ upto[0] = <<>>
  /\ \A n \in 1 .. Len(s) :
       upto[n] = IF n \in places THEN Append(upto[n - 1], s[n]) ELSE upto[n - 1]
  /\ ElementsAt(s, places) = upto[Len(s)]

\* The recursive definition in ElementsAt defines something.
LEMMA ElementsOneByOne ==
  ASSUME NEW X, NEW s \in Seq(X), NEW places
  PROVE  \E upto : OneByOne(upto, X, s, places)
<1> DEFINE Defines(f) ==
             f = [n \in 0 .. Len(s) |->
                    IF n = 0 THEN <<>>
                    ELSE IF n \in places THEN Append(f[n - 1], s[n]) ELSE f[n - 1]]
           next == [n \in Nat |-> [q \in Seq(X) |->
                      IF n + 1 \in 1 .. Len(s) /\ n + 1 \in places
                      THEN Append(q, s[n + 1]) ELSE q]]
<1>1. Len(s) \in Nat /\ \A n \in 1 .. Len(s) : s[n] \in X
  BY LenProperties, ElementOfSeq
<1>2. next \in [Nat -> [Seq(X) -> Seq(X)]]
  BY <1>1
<1>3. \A n \in Nat, q \in Seq(X) :
        next[n][q] = IF n + 1 \in 1 .. Len(s) /\ n + 1 \in places
                         THEN Append(q, s[n + 1]) ELSE q
  OBVIOUS
<1> HIDE DEF next
<1>4. PICK g \in [Nat -> Seq(X)] :
        g[0] = <<>> /\ \A n \in Nat : g[n + 1] = next[n][g[n]]
  <2>1. \A base \in Seq(X) : \E g : Unfolds(g, Seq(X), base, next)
    BY <1>2, Recursion
  <2>2. <<>> \in Seq(X)
    OBVIOUS
  <2>3. PICK g : Unfolds(g, Seq(X), <<>>, next)
    BY <2>1, <2>2, Zenon
  <2> QED
    BY <2>3 DEF Unfolds
<1>5. \A n \in 1 .. Len(s) : g[n] = IF n \in places THEN Append(g[n - 1], s[n]) ELSE g[n - 1]
  <2> SUFFICES ASSUME NEW n \in 1 .. Len(s)
               PROVE  g[n] = IF n \in places THEN Append(g[n - 1], s[n]) ELSE g[n - 1]
    OBVIOUS
  <2>1. n - 1 \in Nat /\ (n - 1) + 1 = n
    BY <1>1
  <2>2. g[n - 1] \in Seq(X)
    BY <2>1
  <2>3. g[n] = next[n - 1][g[n - 1]]
    BY <1>4, <2>1
  <2> QED
    BY <1>3, <2>1, <2>2, <2>3
<1> DEFINE h == [n \in 0 .. Len(s) |-> g[n]]
<1>6. Defines(h)
  <2>1. \A n \in 0 .. Len(s) : n = 0 \/ (n \in 1 .. Len(s) /\ n - 1 \in 0 .. Len(s))
    BY <1>1
  <2> QED
    BY <1>4, <1>5, <2>1
<1> DEFINE upto == CHOOSE f : Defines(f)
<1>7. Defines(upto)
  <2> HIDE DEF Defines, h
  <2> QED
    BY <1>6
<1>8. ElementsAt(s, places) = upto[Len(s)]
  BY DEF ElementsAt
<1> HIDE DEF upto
<1>9. upto[0] = <<>> /\ \A n \in 1 .. Len(s) :
        upto[n] = IF n \in places THEN Append(upto[n - 1], s[n]) ELSE upto[n - 1]
  <2>1. 0 \in 0 .. Len(s) /\ \A n \in 1 .. Len(s) : n \in 0 .. Len(s) /\ n # 0
    BY <1>1
  <2> QED
    BY <1>7, <2>1, Zenon
<1> HIDE DEF Defines
<1>10. \A n \in 0 .. Len(s) : upto[n] \in Seq(X)
  <2> DEFINE T == {n \in Nat : n \in 0 .. Len(s) => upto[n] \in Seq(X)}
  <2>1. 0 \in T
    <3>1. <<>> \in Seq(X)
      OBVIOUS
    <3> QED
      BY <1>9, <3>1, 0 \in Nat, Zenon
  <2>2. ASSUME NEW n \in Nat, n \in T PROVE n + 1 \in T
    <3> SUFFICES ASSUME n + 1 \in 0 .. Len(s) PROVE upto[n + 1] \in Seq(X)
      OBVIOUS
    <3>1. n + 1 \in 1 .. Len(s) /\ (n + 1) - 1 = n /\ n \in 0 .. Len(s)
      BY <1>1
    <3>2. upto[n] \in Seq(X) /\ s[n + 1] \in X
      BY <1>1, <2>2, <3>1
    <3>3. upto[n + 1] = IF n + 1 \in places THEN Append(upto[n], s[n + 1]) ELSE upto[n]
      BY <1>9, <3>1
    <3> QED
      BY <3>2, <3>3
  <2> HIDE DEF T
  <2>3. \A n \in Nat : n \in T
    BY <2>1, <2>2, Upwards
  <2> QED
    BY <1>1, <2>3 DEF T
<1>11. OneByOne(upto, X, s, places)
  BY <1>8, <1>9, <1>10 DEF OneByOne
<1> QED
  BY <1>11

\* How the elements at some places come out of the sequence.
Picks(at, q, s, places, n) ==
  /\ at \in Seq(Nat) /\ Len(q) = Len(at)
  /\ \A i \in 1 .. Len(at) : at[i] \in 1 .. n /\ at[i] \in places /\ q[i] = s[at[i]]
  /\ \A i, j \in 1 .. Len(at) : i < j => at[i] < at[j]
  /\ \A k \in 1 .. n : k \in places => \E i \in 1 .. Len(at) : at[i] = k

\* The elements at the places are there, in their order, and no others are.
LEMMA ElementsAtPlaces ==
  ASSUME NEW X, NEW s \in Seq(X), NEW places
  PROVE  /\ ElementsAt(s, places) \in Seq(X)
         /\ \E at : Picks(at, ElementsAt(s, places), s, places, Len(s))
<1>1. PICK upto : OneByOne(upto, X, s, places)
  BY ElementsOneByOne
<1> USE DEF OneByOne
<1>2. Len(s) \in Nat /\ \A n \in 1 .. Len(s) : s[n] \in X
  BY LenProperties, ElementOfSeq
<1> DEFINE T == {n \in Nat : n <= Len(s) => \E at : Picks(at, upto[n], s, places, n)}
<1>3. 0 \in T
  <2>1. <<>> \in Seq(Nat) /\ Len(<<>>) = 0
    OBVIOUS
  <2>2. Picks(<<>>, <<>>, s, places, 0)
    BY <2>1 DEF Picks
  <2> QED
    BY <1>1, <2>2
<1>4. ASSUME NEW n \in Nat, n \in T PROVE n + 1 \in T
  <2> SUFFICES ASSUME n + 1 <= Len(s) PROVE \E at : Picks(at, upto[n + 1], s, places, n + 1)
    OBVIOUS
  <2>1. PICK at : Picks(at, upto[n], s, places, n)
    BY <1>2, <1>4
  <2>2. /\ n + 1 \in 1 .. Len(s) /\ (n + 1) - 1 = n /\ n \in 0 .. Len(s)
        /\ n + 1 \in 1 .. n + 1 /\ \A k \in 1 .. n : k \in 1 .. n + 1
        /\ \A k \in 1 .. n + 1 : k \in 1 .. n \/ k = n + 1
    BY <1>2
  <2>3. upto[n] \in Seq(X) /\ upto[n + 1] = IF n + 1 \in places THEN Append(upto[n], s[n + 1]) ELSE upto[n]
    BY <1>1, <2>2
  <2> HIDE DEF T
  <2>4. CASE n + 1 \notin places
    <3>1. Picks(at, upto[n], s, places, n + 1)
      BY <2>1, <2>2, <2>4 DEF Picks
    <3> QED
      BY <2>3, <2>4, <3>1
  <2>5. CASE n + 1 \in places
    <3> DEFINE more == Append(at, n + 1)
               q == upto[n]
               r == Append(q, s[n + 1])
    <3>1. /\ at \in Seq(Nat) /\ Len(at) \in Nat /\ Len(q) = Len(at)
          /\ more \in Seq(Nat) /\ Len(more) = Len(at) + 1
          /\ more[Len(at) + 1] = n + 1 /\ \A i \in 1 .. Len(at) : more[i] = at[i]
      BY <2>1, AppendProperties, LenProperties DEF Picks
    <3>2. /\ Len(r) = Len(at) + 1 /\ r[Len(at) + 1] = s[n + 1]
          /\ \A i \in 1 .. Len(at) : r[i] = q[i]
      BY <1>2, <2>2, <2>3, <3>1, AppendProperties
    <3>3. r = upto[n + 1]
      BY <2>3, <2>5
    <3> HIDE DEF more, r, q
    <3>4. \A i \in 1 .. Len(more) : i \in 1 .. Len(at) \/ i = Len(at) + 1
      BY <3>1
    <3>5. ASSUME NEW i \in 1 .. Len(more)
          PROVE  more[i] \in 1 .. n + 1 /\ more[i] \in places /\ r[i] = s[more[i]]
      <4>1. CASE i \in 1 .. Len(at)
        BY <2>1, <2>2, <3>1, <3>2, <4>1 DEF Picks, q
      <4>2. CASE i = Len(at) + 1
        BY <2>2, <2>5, <3>1, <3>2, <4>2
      <4> QED
        BY <3>4, <4>1, <4>2
    <3>6. ASSUME NEW i \in 1 .. Len(more), NEW j \in 1 .. Len(more), i < j
          PROVE  more[i] < more[j]
      <4>1. i \in 1 .. Len(at)
        BY <3>1, <3>6
      <4>2. at[i] \in 1 .. n /\ more[i] = at[i]
        BY <2>1, <3>1, <4>1 DEF Picks
      <4>3. CASE j \in 1 .. Len(at)
        BY <2>1, <3>1, <3>6, <4>1, <4>3 DEF Picks
      <4>4. CASE j = Len(at) + 1
        BY <3>1, <4>2, <4>4
      <4> QED
        BY <3>4, <4>3, <4>4
    <3>7. ASSUME NEW k \in 1 .. n + 1, k \in places
          PROVE  \E i \in 1 .. Len(more) : more[i] = k
      <4>1. \A i \in 1 .. Len(at) : i \in 1 .. Len(more)
        BY <3>1
      <4>2. CASE k \in 1 .. n
        BY <2>1, <3>1, <3>7, <4>1, <4>2 DEF Picks
      <4>3. CASE k = n + 1
        <5>1. Len(at) + 1 \in 1 .. Len(more)
          BY <3>1
        <5> QED
          BY <3>1, <4>3, <5>1
      <4> QED
        BY <2>2, <4>2, <4>3
    <3>8. Picks(more, r, s, places, n + 1)
      BY <3>1, <3>2, <3>5, <3>6, <3>7 DEF Picks
    <3> QED
      BY <3>3, <3>8
  <2> QED
    BY <2>4, <2>5
<1> HIDE DEF T
<1>5. \A n \in Nat : n \in T
  BY <1>3, <1>4, Upwards
<1>6. Len(s) \in T /\ Len(s) \in 0 .. Len(s) /\ Len(s) <= Len(s)
  BY <1>2, <1>5
<1>7. \E at : Picks(at, upto[Len(s)], s, places, Len(s))
  BY <1>6 DEF T
<1> QED
  BY <1>1, <1>6, <1>7

\* Picking everything.
LEMMA AllElements ==
  ASSUME NEW X, NEW s \in Seq(X), NEW places, 1 .. Len(s) \subseteq places
  PROVE  ElementsAt(s, places) = s
<1>1. PICK upto : OneByOne(upto, X, s, places)
  BY ElementsOneByOne
<1> USE DEF OneByOne
<1>2. Len(s) \in Nat /\ \A n \in 1 .. Len(s) : s[n] \in X
  BY LenProperties, ElementOfSeq
<1> DEFINE T == {n \in Nat : n <= Len(s) => Len(upto[n]) = n /\ \A i \in 1 .. n : upto[n][i] = s[i]}
<1>3. 0 \in T
  <2>1. Len(<<>>) = 0
    OBVIOUS
  <2> QED
    BY <1>1, <2>1
<1>4. ASSUME NEW n \in Nat, n \in T PROVE n + 1 \in T
  <2> SUFFICES ASSUME n + 1 <= Len(s)
               PROVE  Len(upto[n + 1]) = n + 1 /\ \A i \in 1 .. n + 1 : upto[n + 1][i] = s[i]
    OBVIOUS
  <2> DEFINE q == upto[n]
  <2>1. n + 1 \in 1 .. Len(s) /\ (n + 1) - 1 = n /\ n \in 0 .. Len(s) /\ n <= Len(s)
    BY <1>2
  <2>2. Len(q) = n /\ \A i \in 1 .. n : q[i] = s[i]
    BY <1>4, <2>1
  <2>3. q \in Seq(X) /\ upto[n + 1] = Append(q, s[n + 1])
    BY <1>1, <2>1
  <2> HIDE DEF q, T
  <2>4. \A i \in 1 .. n + 1 : i \in 1 .. n \/ i = n + 1
    OBVIOUS
  <2>5. /\ Len(Append(q, s[n + 1])) = n + 1
        /\ \A i \in 1 .. n : Append(q, s[n + 1])[i] = q[i]
        /\ Append(q, s[n + 1])[n + 1] = s[n + 1]
    BY <1>2, <2>1, <2>2, <2>3, AppendProperties
  <2> QED
    BY <2>2, <2>3, <2>4, <2>5
<1> HIDE DEF T
<1>5. \A n \in Nat : n \in T
  BY <1>3, <1>4, Upwards
<1>6. Len(s) \in T /\ Len(s) \in 0 .. Len(s) /\ Len(s) <= Len(s)
  BY <1>2, <1>5
<1>7. Len(upto[Len(s)]) = Len(s) /\ \A i \in 1 .. Len(s) : upto[Len(s)][i] = s[i]
  BY <1>6 DEF T
<1>8. upto[Len(s)] \in Seq(X)
  BY <1>1, <1>6
<1> HIDE DEF T
<1>9. upto[Len(s)] = s
  BY <1>7, <1>8, SeqEqual
<1> QED
  BY <1>1, <1>9
-----------------------------------------------------------------------------
(* Sequences in general.                                                   *)

\* SetToSeq lists some of the elements of a finite set, none of them twice.
LEMMA SetAsSequence ==
  ASSUME NEW S, IsFiniteSet(S)
  PROVE  /\ SetToSeq(S) \in Seq(S)
         /\ IsInjective(SetToSeq(S))
<1>1. Cardinality(S) \in Nat /\ ExistsBijection(1 .. Cardinality(S), S)
  BY FS_CardinalityType
<1>2. PICK f \in [1 .. Cardinality(S) -> S] : IsInjective(f)
  BY <1>1 DEF ExistsBijection, Bijection, Injection
<1>3. SetToSeq(S) \in [1 .. Cardinality(S) -> S] /\ IsInjective(SetToSeq(S))
  BY <1>2 DEF SetToSeq
<1> QED
  BY <1>1, <1>3

\* A function over the first n numbers is a sequence.
LEMMA FunctionIsSequence ==
  ASSUME NEW X, NEW n \in Nat, NEW f, f = [i \in 1 .. n |-> f[i]],
         \A i \in 1 .. n : f[i] \in X
  PROVE  f \in Seq(X) /\ Len(f) = n
<1>1. f \in [1 .. n -> X]
  BY Zenon
<1> QED
  BY <1>1

\* A sequence with one element more, as a function.
LEMMA AppendAsFunction ==
  ASSUME NEW X, NEW s \in Seq(X), NEW x \in X
  PROVE  Append(s, x) = [b \in 1 .. Len(s) + 1 |-> IF b <= Len(s) THEN s[b] ELSE x]
<1> DEFINE q == Append(s, x)
           n == Len(s)
<1>1. /\ q \in Seq(X) /\ Len(q) = n + 1 /\ q[n + 1] = x /\ \A b \in 1 .. n : q[b] = s[b]
      /\ n \in Nat
  BY AppendProperties, LenProperties
<1> HIDE DEF q, n
<1>2. q = [b \in 1 .. n + 1 |-> q[b]]
  BY <1>1
<1>3. ASSUME NEW b \in 1 .. n + 1 PROVE q[b] = IF b <= n THEN s[b] ELSE x
  BY <1>1
<1>4. q = [b \in 1 .. n + 1 |-> IF b <= n THEN s[b] ELSE x]
  BY <1>2, <1>3, Zenon
<1> QED
  BY <1>4 DEF q, n

\* What a sequence has after one element, and after another sequence, came behind it.
LEMMA ElementsAfterAppend ==
  ASSUME NEW X, NEW s \in Seq(X), NEW e \in X
  PROVE  Append(s, e) \in Seq(X) /\ ToSet(Append(s, e)) = ToSet(s) \cup {e}
<1> DEFINE q == Append(s, e)
           n == Len(s)
<1>1. /\ q \in Seq(X) /\ n \in Nat /\ Len(q) = n + 1 /\ q[n + 1] = e
      /\ \A i \in 1 .. n : q[i] = s[i]
  BY AppendProperties, LenProperties
<1>2. DOMAIN q = 1 .. n + 1 /\ DOMAIN s = 1 .. n
  BY <1>1, LenProperties
<1> HIDE DEF q, n
<1>3. 1 .. n + 1 = (1 .. n) \cup {n + 1}
  BY <1>1
<1>4. ToSet(q) = {q[i] : i \in (1 .. n) \cup {n + 1}} /\ ToSet(s) = {s[i] : i \in 1 .. n}
  BY <1>2, <1>3, Zenon DEF ToSet
<1> QED
  BY <1>1, <1>4, Zenon DEF q

\* The elements of a concatenation are those of its parts.
LEMMA ElementsAfterConcat ==
  ASSUME NEW X, NEW s \in Seq(X), NEW t \in Seq(X)
  PROVE  s \o t \in Seq(X) /\ ToSet(s) \subseteq ToSet(s \o t) /\ ToSet(t) \subseteq ToSet(s \o t)
<1> DEFINE q == s \o t
           n == Len(s)
           m == Len(t)
<1>1. /\ q \in Seq(X) /\ n \in Nat /\ m \in Nat /\ Len(q) = n + m
      /\ \A i \in 1 .. n + m : q[i] = IF i <= n THEN s[i] ELSE t[i - n]
  BY ConcatProperties, LenProperties
<1>2. DOMAIN q = 1 .. n + m /\ DOMAIN s = 1 .. n /\ DOMAIN t = 1 .. m
  BY <1>1, LenProperties
<1> HIDE DEF q, n, m
<1>3. ASSUME NEW i \in 1 .. n PROVE i \in 1 .. n + m /\ q[i] = s[i]
  BY <1>1
<1>4. ASSUME NEW i \in 1 .. m PROVE n + i \in 1 .. n + m /\ q[n + i] = t[i]
  <2>1. n + i \in 1 .. n + m /\ ~(n + i <= n) /\ (n + i) - n = i
    BY <1>1
  <2> QED
    BY <1>1, <2>1
<1>5. ToSet(s) \subseteq ToSet(q)
  BY <1>2, <1>3, Zenon DEF ToSet
<1>6. ToSet(t) \subseteq ToSet(q)
  BY <1>2, <1>4, Zenon DEF ToSet
<1> QED
  BY <1>1, <1>5, <1>6 DEF q

\* What stands where in a concatenation.
LEMMA Concatenation ==
  ASSUME NEW X, NEW s \in Seq(X), NEW t \in Seq(X), NEW n, NEW m, n = Len(s), m = Len(t)
  PROVE  /\ n \in Nat /\ m \in Nat /\ s \o t \in Seq(X) /\ Len(s \o t) = n + m
         /\ \A i \in 1 .. n + m : (s \o t)[i] = IF i <= n THEN s[i] ELSE t[i - n]
BY ConcatProperties, LenProperties

\* A sequence is one of its own elements.
LEMMA OfItsOwn ==
  ASSUME NEW X, NEW s \in Seq(X)
  PROVE  s \in Seq(ToSet(s))
<1> DEFINE n == Len(s)
<1>1. n \in Nat /\ s \in [1 .. n -> X]
  BY LenProperties
<1> HIDE DEF n
<1>2. s \in [1 .. n -> ToSet(s)]
  BY <1>1 DEF ToSet
<1> QED
  BY <1>1, <1>2

\* The elements of a concatenation are those of its parts, and no others.
LEMMA ElementsOfBoth ==
  ASSUME NEW X, NEW s \in Seq(X), NEW t \in Seq(X)
  PROVE  s \o t \in Seq(X) /\ ToSet(s \o t) = ToSet(s) \cup ToSet(t)
<1>1. s \o t \in Seq(X) /\ ToSet(s) \subseteq ToSet(s \o t) /\ ToSet(t) \subseteq ToSet(s \o t)
  BY ElementsAfterConcat
<1> DEFINE q == s \o t
           n == Len(s)
           m == Len(t)
<1>2. /\ n \in Nat /\ m \in Nat /\ Len(q) = n + m
      /\ \A i \in 1 .. n + m : q[i] = IF i <= n THEN s[i] ELSE t[i - n]
  BY Concatenation
<1>3. DOMAIN q = 1 .. n + m /\ DOMAIN s = 1 .. n /\ DOMAIN t = 1 .. m
  BY <1>1, <1>2, LenProperties
<1> HIDE DEF q, n, m
<1>4. ASSUME NEW i \in 1 .. n + m PROVE (\E j \in 1 .. n : q[i] = s[j]) \/ (\E j \in 1 .. m : q[i] = t[j])
  <2>1. CASE i <= n
    <3>1. i \in 1 .. n
      BY <1>2, <2>1
    <3> QED
      BY <1>2, <2>1, <3>1
  <2>2. CASE ~(i <= n)
    <3>1. i - n \in 1 .. m
      BY <1>2, <2>2
    <3> QED
      BY <1>2, <2>2, <3>1
  <2> QED
    BY <2>1, <2>2
<1>5. ToSet(q) \subseteq ToSet(s) \cup ToSet(t)
  BY <1>3, <1>4, Zenon DEF ToSet
<1> QED
  BY <1>1, <1>5 DEF q
=============================================================================
