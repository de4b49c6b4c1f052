----------------------------- MODULE FoldProofs -----------------------------
(***************************************************************************)
(* What folding a sequence from the left does, for any step Op, which has  *)
(* a parameter of its own beside what is folded and the element, and for   *)
(* any property Holds of what is folded.  The modules that fold take this  *)
(* one with their own step, and say which of their folds it is: the fold   *)
(* of SequencesExt, whose choice of the largest index is opened here only. *)
(***************************************************************************)
EXTENDS Integers, Folds, WellFoundedInduction

CONSTANTS Op(_, _, _), Holds(_, _)

\* The index taken first: FiniteSetsExt's Max, whose module is too large to be
\* brought in with every fold.
Greatest(S) == CHOOSE x \in S : \A y \in S : x >= y
Folded(e, x, s) ==
  MapThenFoldSet(LAMBDA k, a : Op(e, a, k), x, LAMBDA i : s[i], LAMBDA S : Greatest(S), DOMAIN s)

-----------------------------------------------------------------------------
(* Induction on a set of numbers, as data                                  *)

LEMMA Least ==
  ASSUME NEW T \in SUBSET Nat, T # {}
  PROVE  \E n \in T : \A m \in T : n <= m
<1> DEFINE R == OpToRel(<, Nat)
<1>1. IsWellFoundedOn(R, Nat)
  BY NatLessThanWellFounded
<1>2. \A m, n \in Nat : m < n => <<m, n>> \in R
  BY DEF OpToRel
<1> HIDE DEF R
<1>3. PICK x \in T : \A y \in T : ~(<<y, x>> \in R)
  BY <1>1, WFMin
<1>4. \A y \in T : ~(y < x)
  BY <1>2, <1>3
<1>5. QED
  BY <1>4

LEMMA Induct ==
  ASSUME NEW n \in Nat, NEW S, 0 \in S, \A k \in 0..(n - 1) : k \in S => k + 1 \in S
  PROVE  \A k \in 0..n : k \in S
<1> SUFFICES ASSUME NEW bad \in 0..n, bad \notin S PROVE FALSE
  OBVIOUS
<1>1. PICK k \in (0..n) \ S : \A j \in (0..n) \ S : k <= j
  <2>1. (0..n) \ S \in SUBSET Nat /\ (0..n) \ S # {}
    OBVIOUS
  <2>. QED  BY <2>1, Least
<1>2. k - 1 \in 0..(n - 1) /\ k - 1 \in S
  BY <1>1
<1>3. (k - 1) + 1 = k
  OBVIOUS
<1>. QED  BY <1>1, <1>2, <1>3

-----------------------------------------------------------------------------
(* The fold, a step at a time                                              *)

\* What a fold over subsets of the indices, the largest last, is.
Recurs(g, e, x, s, n) ==
  g = [d \in SUBSET (1..n) |->
         IF d = {} THEN x ELSE Op(e, g[d \ {Greatest(d)}], s[Greatest(d)])]

LEMMA Largest ==
  ASSUME NEW n \in Nat, NEW d \in SUBSET (1..n), d # {}
  PROVE  Greatest(d) \in d /\ \A j \in d : j <= Greatest(d)
<1> DEFINE U == {n - j : j \in d}
<1>1. U \in SUBSET Nat /\ U # {}
  <2>1. \A j \in d : n - j \in Nat
    OBVIOUS
  <2>. QED  BY <2>1
<1>2. PICK u \in U : \A v \in U : u <= v
  BY <1>1, Least
<1>3. PICK j \in d : u = n - j
  OBVIOUS
<1>4. \A i \in d : i <= j
  BY <1>2, <1>3
<1>5. \E y \in d : \A i \in d : y >= i
  BY <1>4
<1>. QED  BY <1>5 DEF Greatest

LEMMA LargestUpTo ==
  ASSUME NEW n \in Nat, NEW k \in 1..n
  PROVE  Greatest(1..k) = k
<1>1. 1..k \in SUBSET (1..n) /\ 1..k # {} /\ k \in 1..k
  OBVIOUS
<1>2. Greatest(1..k) \in 1..k /\ k <= Greatest(1..k)
  BY <1>1, Largest
<1>. QED  BY <1>2

\* Such a function exists for every length: from one on the subsets of 1..n that
\* on the subsets of 1..n+1.
LEMMA Exists ==
  ASSUME NEW e, NEW x, NEW s, NEW n \in Nat
  PROVE  \E g : Recurs(g, e, x, s, n)
<1> DEFINE S == {k \in 0..n : \E g : Recurs(g, e, x, s, k)}
<1>1. 0 \in S
  <2> DEFINE g == [d \in SUBSET (1..0) |-> x]
  <2>1. SUBSET (1..0) = {{}}
    OBVIOUS
  <2>2. Recurs(g, e, x, s, 0)
    BY <2>1 DEF Recurs
  <2>. QED  BY <2>2
<1>2. ASSUME NEW k \in 0..(n - 1), k \in S PROVE k + 1 \in S
  <2>1. PICK g : Recurs(g, e, x, s, k)
    BY <1>2
  <2> DEFINE h == [d \in SUBSET (1..(k + 1)) |-> IF k + 1 \in d THEN Op(e, g[d \ {k + 1}], s[k + 1]) ELSE g[d]]
  <2>2. ASSUME NEW d \in SUBSET (1..(k + 1))
        PROVE  h[d] = IF d = {} THEN x ELSE Op(e, h[d \ {Greatest(d)}], s[Greatest(d)])
    <3>1. CASE d = {}
      <4>1. h[d] = g[d] /\ d \in SUBSET (1..k)
        BY <3>1
      <4>. QED  BY <2>1, <3>1, <4>1 DEF Recurs
    <3>2. CASE d # {} /\ k + 1 \in d
      <4>1. Greatest(d) \in d /\ \A j \in d : j <= Greatest(d)
        BY <3>2, Largest, k + 1 \in Nat
      <4>2. Greatest(d) = k + 1
        <5>1. Greatest(d) \in 1..(k + 1) /\ k + 1 <= Greatest(d)
          BY <3>2, <4>1
        <5>. QED  BY <5>1
      <4>3. d \ {k + 1} \in SUBSET (1..(k + 1)) /\ k + 1 \notin d \ {k + 1}
        OBVIOUS
      <4>4. h[d \ {k + 1}] = g[d \ {k + 1}]
        BY <4>3
      <4>. QED  BY <3>2, <4>2, <4>4
    <3>3. CASE d # {} /\ k + 1 \notin d
      <4>1. d \in SUBSET (1..k)
        BY <3>3
      <4>2. d \ {Greatest(d)} \in SUBSET (1..k) /\ k + 1 \notin d \ {Greatest(d)} /\ d \ {Greatest(d)} \in SUBSET (1..(k + 1))
        BY <3>3, <4>1
      <4>3. h[d] = g[d] /\ h[d \ {Greatest(d)}] = g[d \ {Greatest(d)}]
        BY <3>3, <4>2
      <4>. QED  BY <2>1, <3>3, <4>1, <4>3 DEF Recurs
    <3>. QED  BY <3>1, <3>2, <3>3
  <2> HIDE DEF h
  <2>3. h = [d \in SUBSET (1..(k + 1)) |-> h[d]]
    BY DEF h
  <2>4. Recurs(h, e, x, s, k + 1)
    BY <2>2, <2>3 DEF Recurs
  <2>. QED  BY <2>4
<1> HIDE DEF S
<1>3. n \in S
  BY <1>1, <1>2, Induct
<1>. QED  BY <1>3 DEF S

\* A fold is the last of a sequence of values, each made of the one before it.
THEOREM FoldIsTrace ==
  ASSUME NEW e, NEW x, NEW s, NEW n \in Nat, DOMAIN s = 1..n
  PROVE  \E g : /\ g[0] = x
                /\ \A k \in 1..n : g[k] = Op(e, g[k - 1], s[k])
                /\ Folded(e, x, s) = g[n]
<1> DEFINE f == CHOOSE g : Recurs(g, e, x, s, n)
<1>1. Recurs(f, e, x, s, n)
  BY Exists
<1>2. Folded(e, x, s) = f[1..n]
  BY DEF Folded, MapThenFoldSet, Recurs
<1> HIDE DEF f
<1> DEFINE g == [k \in 0..n |-> f[1..k]]
<1>3. g[0] = x
  <2>1. 1..0 = {} /\ 1..0 \in SUBSET (1..n)
    OBVIOUS
  <2>. QED  BY <1>1, <2>1 DEF Recurs
<1>4. ASSUME NEW k \in 1..n PROVE g[k] = Op(e, g[k - 1], s[k])
  <2>1. 1..k \in SUBSET (1..n) /\ 1..k # {} /\ k \in 0..n /\ k - 1 \in 0..n
    <3>1. k \in 1..k /\ 1..k \in SUBSET (1..n)
      OBVIOUS
    <3>2. k \in 0..n /\ k - 1 \in 0..n
      OBVIOUS
    <3>. QED  BY <3>1, <3>2
  <2>4. (1..k) \ {k} = 1..(k - 1)
    OBVIOUS
  <2>2. f[1..k] = Op(e, f[(1..k) \ {Greatest(1..k)}], s[Greatest(1..k)])
    BY <1>1, <2>1 DEF Recurs
  <2>3. Greatest(1..k) = k
    BY LargestUpTo
  <2>. QED  BY <2>1, <2>2, <2>3, <2>4
<1>5. g[n] = f[1..n]
  OBVIOUS
<1> HIDE DEF g
<1>. QED  BY <1>2, <1>3, <1>4, <1>5

\* What every step keeps the fold keeps.
THEOREM FoldKeeps ==
  ASSUME NEW e, NEW x, NEW s, NEW n \in Nat, DOMAIN s = 1..n,
         Holds(e, x),
         \A a : \A k \in 1..n : Holds(e, a) => Holds(e, Op(e, a, s[k]))
  PROVE  Holds(e, Folded(e, x, s))
<1>1. PICK g : /\ g[0] = x
               /\ \A k \in 1..n : g[k] = Op(e, g[k - 1], s[k])
               /\ Folded(e, x, s) = g[n]
  BY FoldIsTrace
<1> DEFINE S == {k \in 0..n : Holds(e, g[k])}
<1>2. 0 \in S
  BY <1>1
<1>3. ASSUME NEW k \in 0..(n - 1), k \in S PROVE k + 1 \in S
  <2>1. k + 1 \in 1..n /\ (k + 1) - 1 = k /\ k + 1 \in 0..n
    OBVIOUS
  <2>2. g[k + 1] = Op(e, g[k], s[k + 1])
    BY <1>1, <2>1
  <2>. QED  BY <1>3, <2>1, <2>2
<1> HIDE DEF S
<1>4. n \in S
  <2>1. \A k \in 0..n : k \in S
    BY <1>2, <1>3, Induct
  <2>. QED  BY <2>1
<1>. QED  BY <1>1, <1>4 DEF S
=============================================================================
