------------------------------ MODULE Induction ------------------------------
(***************************************************************************)
(* Induction over numbers and over sequences, in the form that the provers *)
(* take: with a set in the place of a predicate, which they cannot         *)
(* instantiate.  What the library knows of well-founded relations without  *)
(* predicates, WFMin, is enough.                                           *)
(***************************************************************************)
EXTENDS WellFoundedInduction, SequenceTheorems, SequencesExt, TLAPS

(* A set that has 0, and with a number the next, has them all.             *)
LEMMA SetInduction ==
    ASSUME NEW S, 0 \in S, \A n \in Nat : n \in S => n + 1 \in S
    PROVE  Nat \subseteq S
<1> DEFINE R == {ss \in Nat \X Nat : ss[1] < ss[2]}
           T == Nat \ S
<1>1. IsWellFoundedOn(R, Nat)
  BY NatLessThanWellFounded DEF OpToRel
<1> SUFFICES ASSUME T # {} PROVE FALSE
  OBVIOUS
<1>2. PICK x \in T : \A y \in T : ~(<<y, x>> \in R)
  <2> HIDE DEF R, T
  <2>1. T \subseteq Nat
    BY DEF T
  <2> QED
    BY <1>1, <2>1, WFMin
<1>3. x - 1 \in T /\ <<x - 1, x>> \in R
  <2>1. x # 0 /\ x \in Nat
    OBVIOUS
  <2> QED
    BY <2>1
<1> QED
  BY <1>2, <1>3

(* The same up to a number.                                                *)
LEMMA IntervalInduction ==
    ASSUME NEW S, NEW n \in Nat, 0 \in S, \A k \in 1..n : k - 1 \in S => k \in S
    PROVE  0..n \subseteq S
<1> DEFINE T == {k \in Nat : k <= n => k \in S}
<1>1. 0 \in T
  OBVIOUS
<1>2. ASSUME NEW k \in Nat, k \in T PROVE k + 1 \in T
  <2> SUFFICES ASSUME k + 1 <= n PROVE k + 1 \in S
    OBVIOUS
  <2>1. k + 1 \in 1..n /\ (k + 1) - 1 = k /\ k \in S
    BY <1>2
  <2> QED
    BY <2>1
<1> HIDE DEF T
<1>3. Nat \subseteq T
  BY <1>1, <1>2, SetInduction
<1> QED
  BY <1>3 DEF T

(* A set of numbers has a least, if it is not empty.                       *)
LEMMA LeastExists ==
    ASSUME NEW s, s \subseteq Nat, s # {}
    PROVE  Min(s) \in s /\ \A k \in s : Min(s) <= k
<1> DEFINE R == {ss \in Nat \X Nat : ss[1] < ss[2]}
<1>1. IsWellFoundedOn(R, Nat)
  BY NatLessThanWellFounded DEF OpToRel
<1>2. PICK x \in s : \A y \in s : ~(<<y, x>> \in R)
  <2> HIDE DEF R
  <2> QED
    BY <1>1, WFMin
<1>3. \A y \in s : x <= y
  <2> TAKE y \in s
  <2>1. x \in Nat /\ y \in Nat /\ ~(y < x)
    BY <1>2
  <2> QED
    BY <2>1
<1> QED
  BY <1>2, <1>3, Zenon DEF Min

(* A set of numbers up to n has a greatest.                                *)
LEMMA GreatestExists ==
    ASSUME NEW n \in Nat, NEW s, s \subseteq 1..n, s # {}
    PROVE  Max(s) \in s /\ \A k \in s : k <= Max(s)
<1> DEFINE S == {m \in Nat : \A t \in SUBSET (1..m) : t # {} => \E x \in t : \A y \in t : x >= y}
<1>1. 0 \in S
  <2>1. 1..0 = {}
    OBVIOUS
  <2> QED
    BY <2>1
<1>2. ASSUME NEW m \in Nat, m \in S PROVE m + 1 \in S
  <2> SUFFICES ASSUME NEW t \in SUBSET (1..(m + 1)), t # {}
               PROVE  \E x \in t : \A y \in t : x >= y
    OBVIOUS
  <2>1. CASE m + 1 \in t
    <3>1. \A y \in t : m + 1 >= y
      OBVIOUS
    <3> QED
      BY <2>1, <3>1
  <2>2. CASE m + 1 \notin t
    <3>1. t \in SUBSET (1..m)
      <4>1. \A x \in 1..(m + 1) : x = m + 1 \/ x \in 1..m
        OBVIOUS
      <4> QED
        BY <2>2, <4>1
    <3> QED
      BY <1>2, <3>1
  <2> QED
    BY <2>1, <2>2
<1> HIDE DEF S
<1>3. Nat \subseteq S
  BY <1>1, <1>2, SetInduction
<1>4. \E x \in s : \A y \in s : x >= y
  BY <1>3 DEF S
<1>5. Max(s) \in s /\ \A y \in s : Max(s) >= y
  BY <1>4, Zenon DEF Max
<1>6. \A k \in s : k \in 1..n
  OBVIOUS
<1>7. Max(s) \in 1..n
  BY <1>5, <1>6
<1> QED
  BY <1>5, <1>6, <1>7

LEMMA GreatestOfInterval ==
    ASSUME NEW n \in Nat, n > 0
    PROVE  Max(1..n) = n /\ (1..n) \ {n} = 1..(n - 1)
<1>1. Max(1..n) \in 1..n /\ \A k \in 1..n : k <= Max(1..n)
  <2>1. 1..n \subseteq 1..n /\ 1 \in 1..n
    OBVIOUS
  <2> QED
    BY <2>1, GreatestExists
<1> QED
  BY <1>1

LEMMA FirstIndices ==
    ASSUME NEW n \in Nat, NEW k \in 1..n
    PROVE  /\ 1..k \in SUBSET (1..n) /\ 1..k # {}
           /\ Max(1..k) = k /\ (1..k) \ {Max(1..k)} = 1..(k - 1)
<1>1. k \in Nat /\ k > 0 /\ k <= n
  OBVIOUS
<1>2. Max(1..k) = k /\ (1..k) \ {k} = 1..(k - 1)
  BY <1>1, GreatestOfInterval
<1>3. 1..k \in SUBSET (1..n) /\ 1..k # {}
  BY <1>1
<1> QED
  BY <1>2, <1>3

(* The function that FoldLeft() folds a sequence of elements of E with: to *)
(* the indices of some elements it gives what becomes of base, in A, by    *)
(* these.  What each element does is step.                                 *)
HasFold(A, E, base, step, seq) ==
    \E g \in [SUBSET (1..Len(seq)) -> A] : \A s \in SUBSET (1..Len(seq)) :
       g[s] = IF s = {} THEN base ELSE step[<<g[s \ {Max(s)}], seq[Max(s)]>>]

LEMMA FoldExists ==
    ASSUME NEW A, NEW E, NEW base \in A, NEW step \in [A \X E -> A], NEW seq \in Seq(E)
    PROVE  HasFold(A, E, base, step, seq)
<1> DEFINE Folds(g, n) ==
              \A s \in SUBSET (1..n) :
                 g[s] = IF s = {} THEN base ELSE step[<<g[s \ {Max(s)}], seq[Max(s)]>>]
           S == {n \in 0..Len(seq) : \E g \in [SUBSET (1..n) -> A] : Folds(g, n)}
<1>1. 0 \in S
  <2> DEFINE g == [s \in SUBSET (1..0) |-> base]
  <2>1. \A s \in SUBSET (1..0) : s = {}
    OBVIOUS
  <2>2. g \in [SUBSET (1..0) -> A] /\ Folds(g, 0)
    BY <2>1
  <2>3. 0 \in 0..Len(seq)
    OBVIOUS
  <2> QED
    BY <2>2, <2>3
<1>2. ASSUME NEW n \in 1..Len(seq), n - 1 \in S PROVE n \in S
  <2>1. PICK f \in [SUBSET (1..(n - 1)) -> A] : Folds(f, n - 1)
    BY <1>2
  <2> DEFINE low(s) == s \ {n}
             g == [s \in SUBSET (1..n) |-> IF n \in s THEN step[<<f[low(s)], seq[n]>>] ELSE f[s]]
  <2>2. \A s \in SUBSET (1..n) : low(s) \in SUBSET (1..(n - 1)) /\ (n \notin s => low(s) = s)
    <3>1. \A x \in 1..n : x # n => x \in 1..(n - 1)
      OBVIOUS
    <3> QED
      BY <3>1
  <2>3. \A s \in SUBSET (1..(n - 1)) : s \in SUBSET (1..n) /\ n \notin s
    <3>1. 1..(n - 1) \subseteq 1..n /\ n \notin 1..(n - 1)
      OBVIOUS
    <3> QED
      BY <3>1
  <2>4. seq[n] \in E
    OBVIOUS
  <2> HIDE DEF low
  <2>5. g \in [SUBSET (1..n) -> A]
    BY <2>2, <2>4
  <2>6. ASSUME NEW s \in SUBSET (1..n)
        PROVE  g[s] = IF s = {} THEN base ELSE step[<<g[s \ {Max(s)}], seq[Max(s)]>>]
    <3>1. CASE n \in s
      <4>1. Max(s) = n
        <5>1. Max(s) \in s /\ \A k \in s : k <= Max(s)
          <6>1. n \in Nat /\ s \subseteq 1..n /\ s # {}
            BY <3>1
          <6> QED
            BY <6>1, GreatestExists
        <5>2. n <= Max(s) /\ Max(s) \in 1..n
          BY <3>1, <5>1
        <5> QED
          BY <5>2
      <4>2. g[low(s)] = f[low(s)]
        BY <2>2, <2>3
      <4>3. low(s) = s \ {n} /\ s # {}
        BY <3>1 DEF low
      <4>4. g[s] = step[<<f[low(s)], seq[n]>>]
        BY <3>1
      <4> QED
        BY <4>1, <4>2, <4>3, <4>4
    <3>2. CASE n \notin s
      <4>1. s \in SUBSET (1..(n - 1))
        BY <2>2, <3>2
      <4>2. (s \ {Max(s)}) \in SUBSET (1..(n - 1))
        BY <4>1
      <4>3. g[s] = f[s] /\ g[s \ {Max(s)}] = f[s \ {Max(s)}]
        BY <2>3, <4>1, <4>2
      <4> QED
        BY <2>1, <4>1, <4>3
    <3> QED
      BY <3>1, <3>2
  <2>7. Folds(g, n)
    BY <2>6
  <2> HIDE DEF g, Folds
  <2>8. n \in 0..Len(seq)
    OBVIOUS
  <2> QED
    BY <2>5, <2>7, <2>8
<1>3. Len(seq) \in Nat
  OBVIOUS
<1>4. Len(seq) \in S
  <2> HIDE DEF S
  <2>1. 0..Len(seq) \subseteq S
    BY <1>1, <1>2, <1>3, IntervalInduction
  <2> QED
    BY <1>3, <2>1
<1> QED
  BY <1>4 DEF HasFold

(* The function of the numbers up to n that a recursion defines: it begins *)
(* with base, in A, and each value comes of the one before by step.        *)
HasIteration(A, base, n, step) ==
    \E g \in [0..n -> A] : g = [k \in 0..n |-> IF k = 0 THEN base ELSE step[<<g[k - 1], k>>]]

LEMMA IterationExists ==
    ASSUME NEW A, NEW base \in A, NEW n \in Nat, NEW step \in [A \X (1..n) -> A]
    PROVE  HasIteration(A, base, n, step)
<1> DEFINE Iterates(g, m) == g[0] = base /\ \A k \in 1..m : g[k] = step[<<g[k - 1], k>>]
           S == {m \in 0..n : \E g \in [0..m -> A] : Iterates(g, m)}
<1>1. 0 \in S
  <2> DEFINE g == [k \in 0..0 |-> base]
  <2>1. g \in [0..0 -> A] /\ g[0] = base /\ 0 \in 0..n
    OBVIOUS
  <2>2. Iterates(g, 0)
    BY <2>1
  <2> HIDE DEF g, Iterates
  <2> QED
    BY <2>1, <2>2
<1>2. ASSUME NEW m \in 1..n, m - 1 \in S PROVE m \in S
  <2>1. PICK f \in [0..(m - 1) -> A] : Iterates(f, m - 1)
    BY <1>2
  <2> DEFINE g == [k \in 0..m |-> IF k = m THEN step[<<f[m - 1], m>>] ELSE f[k]]
  <2>2. \A k \in 0..m : k = m \/ k \in 0..(m - 1)
    OBVIOUS
  <2>3. m - 1 \in 0..(m - 1) /\ m \in 0..m /\ m \in 0..n /\ 0 \in 0..(m - 1) /\ 0 # m
    OBVIOUS
  <2>4. \A k \in 0..(m - 1) : k \in 0..m /\ k # m
    OBVIOUS
  <2>5. g \in [0..m -> A]
    BY <2>2, <2>3
  <2>6. g[m] = step[<<f[m - 1], m>>] /\ \A k \in 0..(m - 1) : g[k] = f[k]
    BY <2>3, <2>4
  <2> HIDE DEF g
  <2>7. g[0] = base
    BY <2>1, <2>3, <2>6
  <2>8. ASSUME NEW k \in 1..m PROVE g[k] = step[<<g[k - 1], k>>]
    <3>1. CASE k = m
      BY <2>3, <2>6, <3>1
    <3>2. CASE k # m
      <4>1. k \in 1..(m - 1) /\ k \in 0..(m - 1) /\ k - 1 \in 0..(m - 1)
        BY <3>2
      <4> QED
        BY <2>1, <2>6, <4>1
    <3> QED
      BY <3>1, <3>2
  <2>9. Iterates(g, m)
    BY <2>7, <2>8
  <2> HIDE DEF Iterates
  <2> QED
    BY <2>3, <2>5, <2>9
<1>3. n \in S
  <2> HIDE DEF S
  <2>1. 0..n \subseteq S
    BY <1>1, <1>2, IntervalInduction
  <2> QED
    BY <2>1
<1>4. PICK g \in [0..n -> A] : Iterates(g, n)
  BY <1>3
<1>5. ASSUME NEW k \in 0..n PROVE g[k] = IF k = 0 THEN base ELSE step[<<g[k - 1], k>>]
  <2>1. k = 0 \/ k \in 1..n
    OBVIOUS
  <2> QED
    BY <1>4, <2>1
<1>6. g = [k \in 0..n |-> IF k = 0 THEN base ELSE step[<<g[k - 1], k>>]]
  <2> HIDE DEF Iterates
  <2> QED
    BY <1>5
<1> QED
  BY <1>6, Zenon DEF HasIteration

(* What a fold comes to: the last of the values that begin with base and   *)
(* of which each comes of the one before and an element by step.           *)
FoldsTo(A, base, step, seq, v) ==
    \E a \in [0..Len(seq) -> A] :
       /\ a[0] = base /\ v = a[Len(seq)]
       /\ \A k \in 1..Len(seq) : a[k] = step[<<a[k - 1], seq[k]>>]

(* A function like the one that FoldLeft() folds with does so.             *)
LEMMA IterFolds ==
    ASSUME NEW A, NEW E, NEW base \in A, NEW step \in [A \X E -> A], NEW seq \in Seq(E), NEW iter,
           iter[{}] = base,
           \A s \in SUBSET (1..Len(seq)) :
              s # {} /\ iter[s \ {Max(s)}] \in A => iter[s] = step[<<iter[s \ {Max(s)}], seq[Max(s)]>>]
    PROVE  FoldsTo(A, base, step, seq, iter[DOMAIN seq])
<1>1. PICK n \in Nat : n = Len(seq) /\ DOMAIN seq = 1..n /\ \A k \in 1..n : seq[k] \in E
  OBVIOUS
<1> DEFINE a == [k \in 0..n |-> iter[1..k]]
           S == {k \in 0..n : iter[1..k] \in A}
<1>2. iter[1..0] = base
  <2>1. 1..0 = {}
    OBVIOUS
  <2> QED
    BY <2>1
<1>3. ASSUME NEW k \in 1..n, iter[1..(k - 1)] \in A
      PROVE  iter[1..k] = step[<<iter[1..(k - 1)], seq[k]>>] /\ iter[1..k] \in A
  <2>1. 1..k \in SUBSET (1..n) /\ 1..k # {} /\ Max(1..k) = k /\ (1..k) \ {Max(1..k)} = 1..(k - 1)
    BY FirstIndices
  <2>2. PICK x \in A : x = iter[1..(k - 1)]
    BY <1>3
  <2>3. iter[1..k] = step[<<x, seq[k]>>]
    BY <1>1, <2>1, <2>2
  <2> QED
    BY <1>1, <2>2, <2>3
<1>4. 0..n \subseteq S
  <2>1. 0 \in S
    BY <1>2
  <2>2. ASSUME NEW k \in 1..n, k - 1 \in S PROVE k \in S
    <3>1. iter[1..(k - 1)] \in A /\ k \in 0..n
      BY <2>2
    <3> QED
      BY <1>3, <3>1
  <2> HIDE DEF S
  <2> QED
    BY <2>1, <2>2, IntervalInduction
<1>5. \A k \in 0..n : a[k] \in A /\ a[k] = iter[1..k]
  BY <1>4
<1>6. a \in [0..n -> A]
  BY <1>4
<1> HIDE DEF a, S
<1>7. ASSUME NEW k \in 1..n PROVE a[k] = step[<<a[k - 1], seq[k]>>]
  <2>1. k \in 0..n /\ k - 1 \in 0..n
    OBVIOUS
  <2>2. a[k] = iter[1..k] /\ a[k - 1] = iter[1..(k - 1)] /\ iter[1..(k - 1)] \in A
    BY <1>5, <2>1
  <2> QED
    BY <1>3, <2>2
<1>8. a[0] = base /\ a[n] = iter[DOMAIN seq]
  <2>1. 0 \in 0..n /\ n \in 0..n
    OBVIOUS
  <2> QED
    BY <1>1, <1>2, <1>5, <2>1
<1> QED
  BY <1>1, <1>6, <1>7, <1>8 DEF FoldsTo

LEMMA FoldsToType ==
    ASSUME NEW A, NEW base, NEW step, NEW E, NEW seq \in Seq(E), NEW v, FoldsTo(A, base, step, seq, v)
    PROVE  v \in A
<1>1. PICK a \in [0..Len(seq) -> A] : v = a[Len(seq)]
  BY DEF FoldsTo
<1>2. Len(seq) \in 0..Len(seq)
  OBVIOUS
<1> QED
  BY <1>1, <1>2

LEMMA FoldsToEmpty ==
    ASSUME NEW A, NEW base, NEW step, NEW v, FoldsTo(A, base, step, << >>, v)
    PROVE  v = base
<1>1. Len(<< >>) = 0
  OBVIOUS
<1> QED
  BY <1>1 DEF FoldsTo

LEMMA FoldsToAppend ==
    ASSUME NEW A, NEW E, NEW base, NEW step, NEW seq \in Seq(E), NEW e \in E, NEW v, NEW w,
           FoldsTo(A, base, step, seq, v), FoldsTo(A, base, step, Append(seq, e), w)
    PROVE  w = step[<<v, e>>]
<1>1. PICK n \in Nat : n = Len(seq)
  OBVIOUS
<1>2. PICK x : x = Append(seq, e)
  OBVIOUS
<1>3. Len(x) = n + 1 /\ x[n + 1] = e /\ \A k \in 1..n : x[k] = seq[k]
  BY <1>1, <1>2
<1>4. PICK a : a[0] = base /\ v = a[n] /\ \A k \in 1..n : a[k] = step[<<a[k - 1], seq[k]>>]
  BY <1>1 DEF FoldsTo
<1>5. PICK b : b[0] = base /\ w = b[n + 1] /\ \A k \in 1..(n + 1) : b[k] = step[<<b[k - 1], x[k]>>]
  BY <1>2, <1>3 DEF FoldsTo
<1> DEFINE S == {k \in 0..n : a[k] = b[k]}
<1>6. 0 \in S
  BY <1>4, <1>5
<1>7. ASSUME NEW k \in 1..n, k - 1 \in S PROVE k \in S
  <2>1. k \in 0..n /\ k \in 1..(n + 1) /\ a[k - 1] = b[k - 1] /\ x[k] = seq[k]
    BY <1>3, <1>7
  <2> QED
    BY <1>4, <1>5, <2>1
<1>8. a[n] = b[n]
  <2> HIDE DEF S
  <2>1. 0..n \subseteq S
    BY <1>6, <1>7, IntervalInduction
  <2>2. n \in 0..n
    OBVIOUS
  <2> QED
    BY <2>1, <2>2 DEF S
<1>9. n + 1 \in 1..(n + 1) /\ (n + 1) - 1 = n
  OBVIOUS
<1> QED
  BY <1>3, <1>4, <1>5, <1>8, <1>9
=============================================================================
