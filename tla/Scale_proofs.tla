---------------------------- MODULE Scale_proofs ----------------------------
(***************************************************************************)
(* Theorems about the bathroom scale, for any configuration, any frames,   *)
(* any clock and any number of repetitions: the targets are those that are *)
(* configured, and a weight is posted when it is due, to those whose       *)
(* limits allow it.                                                        *)
(***************************************************************************)
EXTENDS Scale, Induction

----------------------------------------------------------------------------
(* One by one and in order. *)

LEMMA InOrderEmpty == \A S : S = {} => \E f : f \in InOrder(S, {})
<1> SUFFICES \E f : f \in InOrder({}, {})
  OBVIOUS
<1>1. [i \in {} |-> 0] \in InOrder({}, {})
  BY DEF InOrder
<1> QED
  BY <1>1

(* One more at the end of both. *)
LEMMA InOrderGrow ==
    ASSUME NEW m \in Nat, NEW n \in Nat, m <= n + 1, NEW T, NEW k \in Nat,
           \A j \in T : j \in Nat /\ j < k, NEW f \in InOrder(m..n, T)
    PROVE  [i \in m..(n + 1) |-> IF i = n + 1 THEN k ELSE f[i]] \in InOrder(m..(n + 1), T \cup {k})
<1> DEFINE g == [i \in m..(n + 1) |-> IF i = n + 1 THEN k ELSE f[i]]
<1>1. /\ f \in [m..n -> T]
      /\ \A j \in T : \E i \in m..n : f[i] = j
      /\ \A i, j \in m..n : i < j => f[i] < f[j]
  BY DEF InOrder
<1>2. \A i \in m..(n + 1) : i = n + 1 \/ (i \in m..n /\ i < n + 1)
  OBVIOUS
<1>3. n + 1 \in m..(n + 1) /\ \A i \in m..n : i \in m..(n + 1) /\ i # n + 1
  OBVIOUS
<1>4. g[n + 1] = k /\ \A i \in m..n : g[i] = f[i] /\ f[i] \in T
  BY <1>1, <1>3
<1>5. g \in [m..(n + 1) -> T \cup {k}]
  BY <1>1, <1>2
<1>6. \A j \in T \cup {k} : \E i \in m..(n + 1) : g[i] = j
  <2> HIDE DEF g
  <2> QED
    BY <1>1, <1>3, <1>4
<1>7. ASSUME NEW i \in m..(n + 1), NEW j \in m..(n + 1), i < j PROVE g[i] < g[j]
  <2> HIDE DEF g
  <2>1. i \in m..n
    BY <1>7
  <2>2. CASE j = n + 1
    <3>1. g[i] \in T /\ g[j] = k
      BY <1>4, <2>1, <2>2
    <3> QED
      BY <3>1
  <2>3. CASE j \in m..n
    BY <1>1, <1>4, <1>7, <2>1, <2>3
  <2> QED
    BY <1>2, <2>2, <2>3
<1> HIDE DEF g
<1>8. g \in InOrder(m..(n + 1), T \cup {k})
  BY <1>5, <1>6, <1>7 DEF InOrder
<1> QED
  BY <1>8 DEF g

(* Some of those that are matched, matched further. *)
LEMMA InOrderThen ==
    ASSUME NEW S, NEW C, NEW D, NEW T, NEW f \in InOrder(S, C), NEW g \in InOrder(D, T),
           C \subseteq D
    PROVE  [i \in S |-> g[f[i]]] \in InOrder(S, {g[j] : j \in C})
<1>1. /\ f \in [S -> C] /\ \A j \in C : \E i \in S : f[i] = j
      /\ \A i, j \in S : i < j => f[i] < f[j]
      /\ g \in [D -> T] /\ \A i, j \in D : i < j => g[i] < g[j]
  BY DEF InOrder
<1>2. \A i \in S : f[i] \in C /\ f[i] \in D
  BY <1>1
<1>3. [i \in S |-> g[f[i]]] \in [S -> {g[j] : j \in C}]
  BY <1>2
<1>4. \A j \in {g[c] : c \in C} : \E i \in S : g[f[i]] = j
  BY <1>1
<1> QED
  BY <1>1, <1>2, <1>3, <1>4 DEF InOrder

----------------------------------------------------------------------------
(* Frames. *)

LEMMA Bounds ==
    /\ SAMEVALUE_CNT \in Nat \ {0} /\ TimeOut \in Nat
    /\ Heard \subseteq Seq(Bit) /\ Triples \subseteq Seq(Triple)
    /\ MaxTime \in Nat /\ MaxFrames \in Nat
BY ScaleAssumption

LEMMA BytesAreBytes ==
    ASSUME NEW bits \in Seq(Bit), NEW j \in DOMAIN string2bytes(bits)
    PROVE  string2bytes(bits)[j] \in 0..255
<1> DEFINE i == 8 * (j - 1)
           w(b) == IF i + b <= Len(bits) /\ bits[i + b] = 1 THEN Weights[b] ELSE 0
<1>1. string2bytes(bits)[j] = w(1) + w(2) + w(3) + w(4) + w(5) + w(6) + w(7) + w(8)
  BY DEF string2bytes
<1>2. /\ w(1) \in 0..128 /\ w(2) \in 0..64 /\ w(3) \in 0..32 /\ w(4) \in 0..16
      /\ w(5) \in 0..8 /\ w(6) \in 0..4 /\ w(7) \in 0..2 /\ w(8) \in 0..1
  BY DEF Weights
<1> HIDE DEF w
<1>3. \E a1 \in 0..128, a2 \in 0..64, a3 \in 0..32, a4 \in 0..16,
         a5 \in 0..8, a6 \in 0..4, a7 \in 0..2, a8 \in 0..1 :
            string2bytes(bits)[j] = a1 + a2 + a3 + a4 + a5 + a6 + a7 + a8
  BY <1>1, <1>2, ZenonT(60)
<1>4. PICK a1 \in 0..128, a2 \in 0..64, a3 \in 0..32, a4 \in 0..16,
           a5 \in 0..8, a6 \in 0..4, a7 \in 0..2, a8 \in 0..1 :
              string2bytes(bits)[j] = a1 + a2 + a3 + a4 + a5 + a6 + a7 + a8
  BY <1>3
<1> HIDE DEF i
<1> QED
  BY <1>4

LEMMA WeightType == \A bits \in Measurements : Weight[bits] \in Nat
<1> SUFFICES ASSUME NEW bits \in Measurements PROVE Weight[bits] \in Nat
  OBVIOUS
<1> DEFINE b == string2bytes(bits)
<1>1. bits \in Seq(Bit) /\ Len(b) = 5
  BY Bounds DEF Measurements, IsMeasurement
<1>2. DOMAIN b = 1..5
  <2>1. DOMAIN b = 1..nbBytes(Len(bits)) /\ nbBytes(Len(bits)) \in Nat
    BY <1>1 DEF string2bytes, nbBytes
  <2>2. Len(b) = nbBytes(Len(bits))
    BY <2>1 DEF string2bytes
  <2> QED
    BY <1>1, <2>1, <2>2
<1>3. 3 \in DOMAIN b /\ 4 \in DOMAIN b
  BY <1>2, SMTT(30)
<1>4. PICK x \in 0..255, y \in 0..255 : x = b[3] /\ y = b[4]
  BY <1>1, <1>3, BytesAreBytes
<1>5. Weight[bits] = 256 * Inv(x) + Inv(y)
  BY <1>4 DEF Weight
<1>6. 256 * Inv(x) + Inv(y) \in Nat
  BY DEF Inv
<1> QED
  BY <1>5, <1>6

----------------------------------------------------------------------------
(* Streaks. *)

Frame == [weight : Nat, time : Nat]

(* A frame more changes nothing of what is said about those before.        *)
LEMMA StreakKeeps ==
    ASSUME accepted \in Seq(Frame), NEW e \in Frame, accepted' = Append(accepted, e),
           NEW k \in DOMAIN accepted, NEW i \in Int, i <= k
    PROVE  Streak(i, k)' <=> Streak(i, k)
<1>1. /\ DOMAIN accepted = 1..Len(accepted) /\ Len(accepted) \in Nat
      /\ DOMAIN accepted' = 1..(Len(accepted) + 1)
      /\ \A j \in 1..Len(accepted) : accepted'[j] = accepted[j]
  BY AppendProperties
<1>2. i \in DOMAIN accepted <=> i \in DOMAIN accepted'
  BY <1>1
<1>3. ASSUME i \in DOMAIN accepted
      PROVE  /\ \A j \in i..k : accepted'[j] = accepted[j]
             /\ \A j \in (i + 1)..k : accepted'[j] = accepted[j] /\ accepted'[j - 1] = accepted[j - 1]
             /\ accepted'[k] = accepted[k]
  BY <1>1, <1>3
<1> QED
  BY <1>2, <1>3 DEF Streak

(* A streak goes on with the frame that is next, or does not.              *)
LEMMA StreakGrows ==
    ASSUME accepted \in Seq(Frame), NEW e \in Frame, accepted' = Append(accepted, e),
           NEW l \in Nat, l = Len(accepted), NEW i \in Int, i <= l
    PROVE  Streak(i, l + 1)' <=>
              /\ Streak(i, l)
              /\ accepted[l].weight = e.weight
              /\ e.time - accepted[l].time <= TimeOut
<1>1. /\ DOMAIN accepted = 1..l /\ l \in Nat /\ DOMAIN accepted' = 1..(l + 1)
      /\ \A j \in 1..l : accepted'[j] = accepted[j]
      /\ accepted'[l + 1] = e
  BY AppendProperties
<1>2. CASE i \in 1..l
  <2>1. /\ l \in 1..l /\ l \in i..l /\ l + 1 \in i..(l + 1) /\ l + 1 \in (i + 1)..(l + 1) /\ (l + 1) - 1 = l
        /\ i \in 1..(l + 1)
        /\ \A j \in i..(l + 1) : j = l + 1 \/ (j \in i..l /\ j \in 1..l)
        /\ \A j \in (i + 1)..(l + 1) : j = l + 1 \/ (j \in (i + 1)..l /\ j \in 1..l /\ j - 1 \in 1..l)
        /\ \A j \in i..l : j \in i..(l + 1) /\ j \in 1..l
        /\ \A j \in (i + 1)..l : j \in (i + 1)..(l + 1) /\ j \in 1..l /\ j - 1 \in 1..l
    BY <1>1, <1>2
  <2>2. ASSUME Streak(i, l + 1)'
        PROVE  Streak(i, l) /\ accepted[l].weight = e.weight /\ e.time - accepted[l].time <= TimeOut
    <3>1. /\ \A j \in i..(l + 1) : accepted'[j].weight = accepted'[l + 1].weight
          /\ \A j \in (i + 1)..(l + 1) : accepted'[j].time - accepted'[j - 1].time <= TimeOut
      BY <2>2 DEF Streak
    <3>2. accepted[l].weight = e.weight /\ e.time - accepted[l].time <= TimeOut
      BY <1>1, <2>1, <3>1
    <3>3. Streak(i, l)
      BY <1>1, <1>2, <2>1, <3>1, <3>2 DEF Streak
    <3> QED
      BY <3>2, <3>3
  <2>3. ASSUME Streak(i, l), accepted[l].weight = e.weight, e.time - accepted[l].time <= TimeOut
        PROVE  Streak(i, l + 1)'
    <3>1. /\ \A j \in i..l : accepted[j].weight = accepted[l].weight
          /\ \A j \in (i + 1)..l : accepted[j].time - accepted[j - 1].time <= TimeOut
      BY <2>3 DEF Streak
    <3>2. \A j \in i..(l + 1) : accepted'[j].weight = accepted'[l + 1].weight
      BY <1>1, <2>1, <2>3, <3>1
    <3>3. \A j \in (i + 1)..(l + 1) : accepted'[j].time - accepted'[j - 1].time <= TimeOut
      BY <1>1, <2>1, <2>3, <3>1
    <3> QED
      BY <1>1, <2>1, <3>2, <3>3 DEF Streak
  <2> QED
    BY <2>2, <2>3
<1>3. CASE i \notin 1..l
  <2>1. i \notin 1..(l + 1)
    BY <1>1, <1>3
  <2> QED
    BY <1>1, <1>3, <2>1 DEF Streak
<1> QED
  BY <1>2, <1>3

(* A frame is a streak, and the end of a streak is one. *)
LEMMA StreakOfOne ==
    ASSUME NEW k \in DOMAIN accepted', accepted' \in Seq(Frame)
    PROVE  Streak(k, k)'
<1>1. k \in Int
  OBVIOUS
<1> QED
  BY <1>1 DEF Streak

LEMMA StreakEnds ==
    ASSUME NEW k \in DOMAIN accepted', accepted' \in Seq(Frame), NEW i \in Int, NEW j \in i..k,
           Streak(i, k)'
    PROVE  Streak(j, k)'
<1>1. /\ j \in DOMAIN accepted' /\ k \in Int
      /\ \A x \in j..k : x \in i..k /\ \A y \in (j + 1)..k : y \in (i + 1)..k
  BY DEF Streak
<1> QED
  BY <1>1 DEF Streak

----------------------------------------------------------------------------
(* The targets. *)

Conf == [n : Nat, min : Nat, max : Nat, list : Seq(Target)]
Field == [num : Int, url : Urls \cup {NotUrl}]

(* What SetupField() makes of the three fields of a triple. *)
LEMMA TripleFields ==
    ASSUME NEW t \in Triple, NEW conf \in Conf, conf.n % 3 = 0,
           NEW conf1, conf1 = SetupField(conf, Fields(t)[1]),
           NEW conf2, conf2 = SetupField(conf1, Fields(t)[2])
    PROVE  SetupField(conf2, Fields(t)[3]) =
             [n |-> conf.n + 3, min |-> NotBelow0(t.min), max |-> NotBelow0(t.max),
              list |-> IF t.url = NotUrl THEN conf.list
                       ELSE Append(conf.list, [min |-> NotBelow0(t.min), max |-> NotBelow0(t.max),
                                               url |-> t.url])]
<1>1. /\ Fields(t)[1].num = t.min /\ Fields(t)[2].num = t.max /\ Fields(t)[3].url = t.url
  BY DEF Fields, Number
<1>2. conf1 = [conf EXCEPT !.n = @ + 1, !.min = NotBelow0(t.min)]
  BY <1>1 DEF SetupField
<1>3. conf1 = [n |-> conf.n + 1, min |-> NotBelow0(t.min), max |-> conf.max, list |-> conf.list]
  BY <1>2 DEF Conf
<1>4. conf.n \in Nat /\ (conf.n + 1) % 3 = 1 /\ (conf.n + 2) % 3 = 2
  BY DEF Conf
<1>5. conf2 = [conf1 EXCEPT !.n = @ + 1, !.max = NotBelow0(t.max)]
  <2>1. conf1.n % 3 = 1 /\ conf1.n % 3 # 0
    BY <1>3, <1>4
  <2> QED
    BY <1>1, <2>1 DEF SetupField
<1>6. conf2 = [n |-> conf.n + 2, min |-> NotBelow0(t.min), max |-> NotBelow0(t.max), list |-> conf.list]
  <2>1. conf1 \in Conf /\ (conf.n + 1) + 1 = conf.n + 2
    <3>1. NotBelow0(t.min) \in Nat
      BY DEF NotBelow0, Triple
    <3> QED
      BY <1>3, <1>4, <3>1, SMTT(30) DEF Conf
  <2>2. conf2 = [n |-> conf1.n + 1, min |-> conf1.min, max |-> NotBelow0(t.max), list |-> conf1.list]
    BY <1>5, <2>1 DEF Conf
  <2> QED
    BY <1>3, <2>1, <2>2
<1>7. /\ conf2.n % 3 = 2 /\ conf2.n % 3 # 0 /\ conf2.n % 3 # 1
      /\ conf2.n + 1 = conf.n + 3
  BY <1>4, <1>6
<1>8. CASE t.url = NotUrl
  <2>1. SetupField(conf2, Fields(t)[3]) = [conf2 EXCEPT !.n = @ + 1]
    BY <1>1, <1>7, <1>8 DEF SetupField
  <2> QED
    BY <1>6, <1>7, <1>8, <2>1
<1>9. CASE t.url # NotUrl
  <2>1. SetupField(conf2, Fields(t)[3]) =
          [conf2 EXCEPT !.n = @ + 1,
             !.list = Append(@, [min |-> conf2.min, max |-> conf2.max, url |-> t.url])]
    BY <1>1, <1>7, <1>9 DEF SetupField
  <2>2. /\ conf2.min = NotBelow0(t.min) /\ conf2.max = NotBelow0(t.max)
        /\ conf2.list = conf.list /\ conf2.n = conf.n + 2
    BY <1>6
  <2> DEFINE new == Append(conf.list, [min |-> NotBelow0(t.min), max |-> NotBelow0(t.max), url |-> t.url])
  <2>3. SetupField(conf2, Fields(t)[3]) = [conf2 EXCEPT !.n = @ + 1, !.list = new]
    BY <2>1, <2>2
  <2>5. new \in Seq(Target)
    <3>1. conf.list \in Seq(Target)
      BY DEF Conf
    <3>2. t.url \in Urls /\ NotBelow0(t.min) \in Nat /\ NotBelow0(t.max) \in Nat
      BY <1>9 DEF NotBelow0, Triple
    <3>3. [min |-> NotBelow0(t.min), max |-> NotBelow0(t.max), url |-> t.url] \in Target
      BY <3>2 DEF Target
    <3> QED
      BY <3>1, <3>3, AppendProperties
  <2> HIDE DEF new
  <2>4. PICK r : r = [conf2 EXCEPT !.n = @ + 1, !.list = new]
    OBVIOUS
  <2>6. r = [n |-> conf2.n + 1, min |-> conf2.min, max |-> conf2.max, list |-> new]
    <3>1. NotBelow0(t.min) \in Nat /\ NotBelow0(t.max) \in Nat
      BY DEF NotBelow0, Triple
    <3>2. conf2 \in Conf
      <4>1. conf.n + 2 \in Nat /\ conf.list \in Seq(Target)
        BY DEF Conf
      <4> QED
        BY <1>6, <3>1, <4>1 DEF Conf
    <3> QED
      BY <2>4, <2>5, <3>2 DEF Conf
  <2> QED
    BY <1>7, <1>9, <2>2, <2>3, <2>4, <2>6 DEF new
<1> QED
  BY <1>8, <1>9

TargetOf(t) == [min |-> NotBelow0(t.min), max |-> NotBelow0(t.max), url |-> t.url]

(* The targets in list are those of the first k triples. *)
Meant(ts, list, k) ==
    /\ list \in Seq(Target)
    /\ \E f \in InOrder(1..Len(list), {i \in 1..k : ts[i].url # NotUrl}) :
          \A i \in 1..Len(list) : list[i] = TargetOf(ts[f[i]])

LEMMA MeantGrows ==
    ASSUME NEW ts \in Seq(Triple), NEW k \in 1..Len(ts), NEW list, Meant(ts, list, k - 1),
           NEW next, next = IF ts[k].url = NotUrl THEN list ELSE Append(list, TargetOf(ts[k]))
    PROVE  Meant(ts, next, k)
<1> DEFINE T(j) == {i \in 1..j : ts[i].url # NotUrl}
<1>1. list \in Seq(Target) /\ Len(list) \in Nat
  BY DEF Meant
<1>2. PICK f \in InOrder(1..Len(list), T(k - 1)) :
         \A i \in 1..Len(list) : list[i] = TargetOf(ts[f[i]])
  BY DEF Meant
<1>3. /\ k \in 1..k /\ \A i \in 1..k : i = k \/ i \in 1..(k - 1)
      /\ \A i \in 1..(k - 1) : i \in 1..k /\ i \in Nat /\ i < k
  OBVIOUS
<1>4. CASE ts[k].url = NotUrl
  <2>1. T(k) = T(k - 1)
    BY <1>3, <1>4
  <2> QED
    BY <1>1, <1>2, <1>4, <2>1 DEF Meant
<1>5. CASE ts[k].url # NotUrl
  <2>1. T(k) = T(k - 1) \cup {k} /\ \A j \in T(k - 1) : j \in Nat /\ j < k
    <3>1. \A j \in T(k - 1) : j \in Nat /\ j < k
      BY <1>3
    <3>2. \A i : i \in T(k) <=> i \in T(k - 1) \/ i = k
      BY <1>3, <1>5
    <3> HIDE DEF T
    <3> QED
      BY <3>1, <3>2
  <2>2. TargetOf(ts[k]) \in Target
    <3>1. PICK t \in Triple : t = ts[k]
      OBVIOUS
    <3>2. t.url \in Urls /\ NotBelow0(t.min) \in Nat /\ NotBelow0(t.max) \in Nat
      BY <1>5, <3>1 DEF NotBelow0, Triple
    <3> QED
      BY <3>1, <3>2 DEF TargetOf, Target
  <2>3. /\ next \in Seq(Target) /\ Len(next) = Len(list) + 1
        /\ \A i \in 1..Len(list) : next[i] = list[i]
        /\ next[Len(list) + 1] = TargetOf(ts[k])
    BY <1>1, <1>5, <2>2, AppendProperties
  <2> DEFINE g == [i \in 1..(Len(list) + 1) |-> IF i = Len(list) + 1 THEN k ELSE f[i]]
  <2>4. g \in InOrder(1..(Len(list) + 1), T(k - 1) \cup {k})
    <3>1. PICK l \in Nat : \E C : l = Len(list) /\ C = T(k - 1)
      BY <1>1
    <3>2. PICK C : l = Len(list) /\ C = T(k - 1)
      BY <3>1
    <3> HIDE DEF T, g
    <3>3. f \in InOrder(1..l, C) /\ \A j \in C : j \in Nat /\ j < k
      BY <1>2, <2>1, <3>2
    <3>4. 1 <= l + 1 /\ 1 \in Nat /\ k \in Nat
      OBVIOUS
    <3>5. [i \in 1..(l + 1) |-> IF i = l + 1 THEN k ELSE f[i]] \in InOrder(1..(l + 1), C \cup {k})
      BY <3>3, <3>4, InOrderGrow
    <3> QED
      BY <3>2, <3>5 DEF g
  <2>5. \A i \in 1..Len(next) : next[i] = TargetOf(ts[g[i]])
    <3>1. \A i \in 1..Len(next) : i = Len(list) + 1 \/ (i \in 1..Len(list) /\ i # Len(list) + 1)
      BY <1>1, <2>3
    <3>2. \A i \in 1..(Len(list) + 1) : g[i] = IF i = Len(list) + 1 THEN k ELSE f[i]
      OBVIOUS
    <3> HIDE DEF g
    <3> QED
      BY <1>2, <2>3, <3>1, <3>2
  <2> HIDE DEF g
  <2>6. g \in InOrder(1..Len(next), T(k))
    BY <2>1, <2>3, <2>4
  <2> QED
    BY <2>3, <2>5, <2>6 DEF Meant
<1> QED
  BY <1>4, <1>5

LEMMA SetupFieldType == \A conf \in Conf, field \in Field : SetupField(conf, field) \in Conf
<1> SUFFICES ASSUME NEW conf \in Conf, NEW field \in Field, NEW next, next = SetupField(conf, field)
             PROVE  next \in Conf
  OBVIOUS
<1>1. /\ conf.n \in Nat /\ conf.min \in Nat /\ conf.max \in Nat /\ conf.list \in Seq(Target)
      /\ field.num \in Int /\ field.url \in Urls \cup {NotUrl}
  BY DEF Conf, Field
<1>2. PICK v \in Nat : v = NotBelow0(field.num)
  BY <1>1 DEF NotBelow0
<1>3. CASE conf.n % 3 = 0
  <2>1. next = [conf EXCEPT !.n = @ + 1, !.min = v]
    BY <1>2, <1>3 DEF SetupField
  <2>2. next = [n |-> conf.n + 1, min |-> v, max |-> conf.max, list |-> conf.list]
    BY <2>1 DEF Conf
  <2> QED
    BY <1>1, <2>2 DEF Conf
<1>4. CASE conf.n % 3 = 1
  <2>1. next = [conf EXCEPT !.n = @ + 1, !.max = v]
    BY <1>2, <1>4 DEF SetupField
  <2>2. next = [n |-> conf.n + 1, min |-> conf.min, max |-> v, list |-> conf.list]
    BY <2>1 DEF Conf
  <2> QED
    BY <1>1, <2>2 DEF Conf
<1>5. CASE conf.n % 3 = 2 /\ field.url # NotUrl
  <2>1. PICK list : list = Append(conf.list, [min |-> conf.min, max |-> conf.max, url |-> field.url])
    OBVIOUS
  <2>2. list \in Seq(Target)
    <3>1. [min |-> conf.min, max |-> conf.max, url |-> field.url] \in Target
      BY <1>1, <1>5 DEF Target
    <3> QED
      BY <1>1, <2>1, <3>1, AppendProperties
  <2>3. next = [conf EXCEPT !.n = @ + 1, !.list = list]
    BY <1>5, <2>1 DEF SetupField
  <2>4. next = [n |-> conf.n + 1, min |-> conf.min, max |-> conf.max, list |-> list]
    BY <2>2, <2>3 DEF Conf
  <2> QED
    BY <1>1, <2>2, <2>4 DEF Conf
<1>6. CASE conf.n % 3 = 2 /\ field.url = NotUrl
  <2>1. next = [conf EXCEPT !.n = @ + 1]
    BY <1>6 DEF SetupField
  <2> QED
    BY <1>1, <2>1 DEF Conf
<1>7. conf.n % 3 \in 0..2
  BY <1>1
<1> QED
  BY <1>3, <1>4, <1>5, <1>6, <1>7

LEMMA FieldTypes == \A t \in Triple : \A j \in 1..3 : Fields(t)[j] \in Field
<1> SUFFICES ASSUME NEW t \in Triple PROVE \A j \in 1..3 : Fields(t)[j] \in Field
  OBVIOUS
<1>1. t.min \in Int /\ t.max \in Int /\ t.url \in Urls \cup {NotUrl}
  BY DEF Triple
<1>2. Fields(t)[1] \in Field /\ Fields(t)[2] \in Field /\ Fields(t)[3] \in Field
  BY <1>1 DEF Fields, Number, Field
<1> QED
  BY <1>2

(* The targets are those of all triples. *)
LEMMA SetupMeant ==
    ASSUME NEW ts \in Seq(Triple)
    PROVE  Meant(ts, starfrit_setup(AllFields(ts)), Len(ts))
<1> DEFINE data == AllFields(ts)
           base == [n |-> 0, min |-> 0, max |-> 0, list |-> << >>]
           step == [x \in Conf \X Field |-> SetupField(x[1], x[2])]
           I == SUBSET (1..Len(data))
           iter == CHOOSE g : g = [s \in SUBSET DOMAIN data |->
                      IF s = {} THEN base ELSE SetupField(g[s \ {Max(s)}], data[Max(s)])]
<1>1. /\ data \in Seq(Field) /\ Len(data) \in Nat /\ Len(data) = 3 * Len(ts) /\ Len(ts) \in Nat /\ DOMAIN data = 1..Len(data)
      /\ \A k \in 1..Len(ts) : /\ data[3 * k - 2] = Fields(ts[k])[1]
                               /\ data[3 * k - 1] = Fields(ts[k])[2]
                               /\ data[3 * k] = Fields(ts[k])[3]
  <2>1. Len(ts) \in Nat /\ 3 * Len(ts) \in Nat
    OBVIOUS
  <2>2. \A t \in Triple : \A j \in 1..3 : Fields(t)[j] \in Field
    BY FieldTypes
  <2>3. \A i \in 1..(3 * Len(ts)) : ((i - 1) \div 3) + 1 \in 1..Len(ts) /\ ((i - 1) % 3) + 1 \in 1..3
    BY <2>1
  <2>4. \A i \in 1..(3 * Len(ts)) : data[i] \in Field
    BY <2>2, <2>3 DEF AllFields
  <2>5. data \in Seq(Field) /\ Len(data) \in Nat /\ Len(data) = 3 * Len(ts)
    BY <2>1, <2>4 DEF AllFields
  <2>6. ASSUME NEW k \in 1..Len(ts)
        PROVE  /\ data[3 * k - 2] = Fields(ts[k])[1]
               /\ data[3 * k - 1] = Fields(ts[k])[2]
               /\ data[3 * k] = Fields(ts[k])[3]
    <3>1. /\ (((3 * k - 2) - 1) \div 3) + 1 = k /\ (((3 * k - 2) - 1) % 3) + 1 = 1
          /\ (((3 * k - 1) - 1) \div 3) + 1 = k /\ (((3 * k - 1) - 1) % 3) + 1 = 2
          /\ ((3 * k - 1) \div 3) + 1 = k /\ ((3 * k - 1) % 3) + 1 = 3
      OBVIOUS
    <3>2. {3 * k - 2, 3 * k - 1, 3 * k} \subseteq 1..(3 * Len(ts))
      BY <2>1
    <3> QED
      BY <3>1, <3>2 DEF AllFields
  <2> QED
    BY <2>1, <2>5, <2>6
<1>2. starfrit_setup(AllFields(ts)) = iter[DOMAIN data].list
  BY DEF starfrit_setup, FoldLeft, MapThenFoldSet
<1>3. base \in Conf
  BY EmptySeq DEF Conf
<1>4. step \in [Conf \X Field -> Conf]
  BY SetupFieldType
<1> HIDE DEF base, data, iter
<1>5. PICK g \in [I -> Conf] : \A s \in I :
         g[s] = IF s = {} THEN base ELSE step[<<g[s \ {Max(s)}], data[Max(s)]>>]
  <2> HIDE DEF step
  <2>1. HasFold(Conf, Field, base, step, data)
    BY <1>1, <1>3, <1>4, FoldExists
  <2> QED
    BY <2>1 DEF HasFold
<1>6. \A s \in I : s # {} => /\ Max(s) \in s /\ s \ {Max(s)} \in I /\ data[Max(s)] \in Field
  <2>1. Len(data) \in Nat /\ \A k \in 1..Len(data) : data[k] \in Field
    BY <1>1
  <2> QED
    BY <2>1, GreatestExists
<1>7. \A s \in I : g[s] = IF s = {} THEN base ELSE SetupField(g[s \ {Max(s)}], data[Max(s)])
  BY <1>5, <1>6
<1>8. iter = [s \in I |-> IF s = {} THEN base ELSE SetupField(iter[s \ {Max(s)}], data[Max(s)])]
  <2>1. g = [s \in I |-> IF s = {} THEN base ELSE SetupField(g[s \ {Max(s)}], data[Max(s)])]
    BY <1>5, <1>7
  <2> QED
    BY <1>1, <2>1 DEF iter
<1> DEFINE a(k) == iter[1..k]
<1>9. a(0) = base /\ \A k \in 1..Len(data) : a(k) = SetupField(a(k - 1), data[k])
  <2>1. a(0) = base
    <3>1. 1..0 = {} /\ {} \in I
      OBVIOUS
    <3> QED
      BY <1>8, <3>1
  <2>2. ASSUME NEW k \in 1..Len(data) PROVE a(k) = SetupField(a(k - 1), data[k])
    <3>1. 1..k \in I /\ 1..k # {} /\ Max(1..k) = k /\ (1..k) \ {Max(1..k)} = 1..(k - 1)
      BY <1>1, FirstIndices
    <3> QED
      BY <1>8, <3>1
  <2> QED
    BY <2>1, <2>2
<1> HIDE DEF a, I, step
<1> DEFINE S == {k \in 0..Len(ts) : /\ a(3 * k) \in Conf /\ a(3 * k).n = 3 * k
                                   /\ Meant(ts, a(3 * k).list, k)}
<1>10. 0 \in S
  <2>1. 3 * 0 = 0 /\ 0 \in 0..Len(ts) /\ base.n = 0 /\ base.list = << >>
    BY <1>1 DEF base
  <2>2. {i \in 1..0 : ts[i].url # NotUrl} = {} /\ 1..Len(<< >>) = {}
    OBVIOUS
  <2>3. << >> \in Seq(Target)
    BY EmptySeq
  <2>4. Meant(ts, << >>, 0)
    BY <2>2, <2>3, InOrderEmpty DEF Meant
  <2> QED
    BY <1>3, <1>9, <2>1, <2>4
<1>11. ASSUME NEW k \in 1..Len(ts), k - 1 \in S PROVE k \in S
  <2>1. /\ 3 * (k - 1) = (3 * k - 2) - 1 /\ 3 * k - 2 = (3 * k - 1) - 1
        /\ {3 * k - 2, 3 * k - 1, 3 * k} \subseteq 1..Len(data) /\ k \in 0..Len(ts)
    BY <1>1
  <2>2. PICK conf \in Conf : conf = a(3 * (k - 1)) /\ conf.n = 3 * (k - 1) /\ Meant(ts, conf.list, k - 1)
    BY <1>11
  <2>3. /\ a(3 * k - 2) = SetupField(conf, Fields(ts[k])[1])
        /\ a(3 * k - 1) = SetupField(a(3 * k - 2), Fields(ts[k])[2])
        /\ a(3 * k) = SetupField(a(3 * k - 1), Fields(ts[k])[3])
    BY <1>1, <1>9, <2>1, <2>2
  <2>4. ts[k] \in Triple /\ conf.n % 3 = 0 /\ conf.n + 3 = 3 * k
    BY <2>2
  <2> DEFINE next == IF ts[k].url = NotUrl THEN conf.list ELSE Append(conf.list, TargetOf(ts[k]))
  <2>5. a(3 * k) = [n |-> conf.n + 3, min |-> NotBelow0(ts[k].min), max |-> NotBelow0(ts[k].max),
                    list |-> next]
    BY <2>3, <2>4, TripleFields DEF TargetOf
  <2>6. Meant(ts, next, k)
    BY <2>2, MeantGrows
  <2>7. next \in Seq(Target)
    BY <2>6 DEF Meant
  <2>8. NotBelow0(ts[k].min) \in Nat /\ NotBelow0(ts[k].max) \in Nat
    BY <2>4 DEF NotBelow0, Triple
  <2> HIDE DEF next
  <2>9. a(3 * k) \in Conf /\ a(3 * k).n = 3 * k /\ a(3 * k).list = next
    BY <2>4, <2>5, <2>7, <2>8 DEF Conf
  <2> QED
    BY <2>1, <2>6, <2>9
<1>12. Len(ts) \in S
  <2> HIDE DEF S
  <2>1. 0..Len(ts) \subseteq S
    BY <1>1, <1>10, <1>11, IntervalInduction
  <2> QED
    BY <1>1, <2>1
<1>13. iter[DOMAIN data] = a(3 * Len(ts))
  BY <1>1 DEF a
<1> QED
  BY <1>2, <1>12, <1>13
----------------------------------------------------------------------------
(* The posts of a weight. *)

(* What is in done and not in before was posted of the weight w, as the    *)
(* frame at, to the first k of the targets whose limits allow it.          *)
PostedTo(conf, w, at, before, done, k) ==
    /\ done \in Seq(Post) /\ Len(before) <= Len(done)
    /\ \A i \in 1..Len(before) : done[i] = before[i]
    /\ \E f \in InOrder((Len(before) + 1)..Len(done), {i \in 1..k : Selected(conf[i], w)}) :
          \A i \in (Len(before) + 1)..Len(done) :
             done[i] = [url |-> conf[f[i]].url, weight |-> w, at |-> at]

LEMMA PostedToGrows ==
    ASSUME NEW conf \in Seq(Target), NEW w \in Nat, NEW at \in Nat, NEW before \in Seq(Post),
           NEW k \in 1..Len(conf), NEW done, PostedTo(conf, w, at, before, done, k - 1),
           NEW next, next = IF Selected(conf[k], w)
                              THEN Append(done, [url |-> conf[k].url, weight |-> w, at |-> at])
                              ELSE done
    PROVE  PostedTo(conf, w, at, before, next, k)
<1> DEFINE T(j) == {i \in 1..j : Selected(conf[i], w)}
<1>1. PICK n \in Nat, m \in Nat : n = Len(done) /\ m = Len(before) + 1 /\ m <= n + 1
  BY DEF PostedTo
<1>2. done \in Seq(Post) /\ \A i \in 1..Len(before) : done[i] = before[i]
  BY DEF PostedTo
<1>3. PICK f \in InOrder(m..n, T(k - 1)) :
         \A i \in m..n : done[i] = [url |-> conf[f[i]].url, weight |-> w, at |-> at]
  BY <1>1 DEF PostedTo
<1>4. /\ k \in 1..k /\ \A i \in 1..k : i = k \/ i \in 1..(k - 1)
      /\ \A i \in 1..(k - 1) : i \in 1..k /\ i \in Nat /\ i < k
  OBVIOUS
<1>5. CASE ~Selected(conf[k], w)
  <2>1. T(k) = T(k - 1)
    BY <1>4, <1>5
  <2> QED
    BY <1>1, <1>2, <1>3, <1>5, <2>1 DEF PostedTo
<1>6. CASE Selected(conf[k], w)
  <2>1. T(k) = T(k - 1) \cup {k} /\ \A j \in T(k - 1) : j \in Nat /\ j < k
    <3>1. \A j \in T(k - 1) : j \in Nat /\ j < k
      BY <1>4
    <3>2. \A i : i \in T(k) <=> i \in T(k - 1) \/ i = k
      BY <1>4, <1>6
    <3> HIDE DEF T
    <3> QED
      BY <3>1, <3>2
  <2>2. PICK p \in Post : p = [url |-> conf[k].url, weight |-> w, at |-> at]
    <3>1. PICK t \in Target : t = conf[k]
      OBVIOUS
    <3> QED
      BY <3>1 DEF Target, Post
  <2>3. /\ next \in Seq(Post) /\ Len(next) = n + 1
        /\ \A i \in 1..n : next[i] = done[i]
        /\ next[n + 1] = p
    BY <1>1, <1>2, <1>6, <2>2, AppendProperties
  <2> DEFINE g == [i \in m..(n + 1) |-> IF i = n + 1 THEN k ELSE f[i]]
  <2>4. g \in InOrder(m..(n + 1), T(k - 1) \cup {k})
    <3>1. PICK C : C = T(k - 1)
      OBVIOUS
    <3> HIDE DEF T, g
    <3>2. f \in InOrder(m..n, C) /\ \A j \in C : j \in Nat /\ j < k
      BY <1>3, <2>1, <3>1
    <3>3. k \in Nat
      OBVIOUS
    <3>4. [i \in m..(n + 1) |-> IF i = n + 1 THEN k ELSE f[i]] \in InOrder(m..(n + 1), C \cup {k})
      BY <1>1, <3>2, <3>3, InOrderGrow, ZenonT(60)
    <3> QED
      BY <3>1, <3>4 DEF g
  <2>5. \A i \in m..(n + 1) : next[i] = [url |-> conf[g[i]].url, weight |-> w, at |-> at]
    <3>1. \A i \in m..(n + 1) : i = n + 1 \/ (i \in m..n /\ i # n + 1 /\ i \in 1..n)
      BY <1>1
    <3>2. \A i \in m..(n + 1) : g[i] = IF i = n + 1 THEN k ELSE f[i]
      OBVIOUS
    <3> HIDE DEF g
    <3> QED
      BY <1>3, <2>2, <2>3, <3>1, <3>2
  <2>6. \A i \in 1..Len(before) : next[i] = before[i]
    BY <1>1, <1>2, <2>3
  <2> HIDE DEF g
  <2>7. g \in InOrder(m..(n + 1), T(k))
    BY <2>1, <2>4
  <2>8. Len(before) <= Len(next)
    BY <1>1, <2>3
  <2>9. m..(n + 1) = (Len(before) + 1)..Len(next)
    BY <1>1, <2>3
  <2>10. \E h \in InOrder((Len(before) + 1)..Len(next), T(k)) :
            \A i \in (Len(before) + 1)..Len(next) :
               next[i] = [url |-> conf[h[i]].url, weight |-> w, at |-> at]
    <3> HIDE DEF T
    <3> QED
      BY <2>5, <2>7, <2>9
  <2> QED
    BY <2>3, <2>6, <2>8, <2>10 DEF PostedTo
<1> QED
  BY <1>5, <1>6

LEMMA PushInOrder ==
    ASSUME starfritconf \in Seq(Target), posts \in Seq(Post), NEW w \in Nat,
           NEW at \in Nat, at = Len(accepted) + 1
    PROVE  PostedTo(starfritconf, w, at, posts, push_measurement(w), Len(starfritconf))
<1> DEFINE step == [x \in Seq(Post) \X Target |-> Push(x[1], x[2], w)]
           I == SUBSET (1..Len(starfritconf))
           iter == CHOOSE g : g = [s \in SUBSET DOMAIN starfritconf |->
                      IF s = {} THEN posts ELSE Push(g[s \ {Max(s)}], starfritconf[Max(s)], w)]
<1>1. DOMAIN starfritconf = 1..Len(starfritconf) /\ Len(starfritconf) \in Nat
  OBVIOUS
<1>2. push_measurement(w) = iter[DOMAIN starfritconf]
  BY DEF push_measurement, FoldLeft, MapThenFoldSet
<1>3. \A done, t : Push(done, t, w) =
         IF Selected(t, w) THEN Append(done, [url |-> t.url, weight |-> w, at |-> at]) ELSE done
  BY DEF Push
<1>4. step \in [Seq(Post) \X Target -> Seq(Post)]
  <2>1. ASSUME NEW done \in Seq(Post), NEW t \in Target PROVE Push(done, t, w) \in Seq(Post)
    <3>1. [url |-> t.url, weight |-> w, at |-> at] \in Post
      BY DEF Target, Post
    <3> QED
      BY <1>3, <3>1, AppendProperties
  <2> QED
    BY <2>1
<1> HIDE DEF iter
<1>5. PICK g \in [I -> Seq(Post)] : \A s \in I :
         g[s] = IF s = {} THEN posts ELSE step[<<g[s \ {Max(s)}], starfritconf[Max(s)]>>]
  <2> HIDE DEF step
  <2>1. HasFold(Seq(Post), Target, posts, step, starfritconf)
    BY <1>4, FoldExists
  <2> QED
    BY <2>1 DEF HasFold
<1>6. \A s \in I : s # {} => Max(s) \in s /\ s \ {Max(s)} \in I /\ starfritconf[Max(s)] \in Target
  <2>1. Len(starfritconf) \in Nat /\ \A k \in 1..Len(starfritconf) : starfritconf[k] \in Target
    OBVIOUS
  <2> QED
    BY <2>1, GreatestExists
<1>7. \A s \in I : g[s] = IF s = {} THEN posts ELSE Push(g[s \ {Max(s)}], starfritconf[Max(s)], w)
  BY <1>5, <1>6
<1>8. iter = [s \in I |-> IF s = {} THEN posts ELSE Push(iter[s \ {Max(s)}], starfritconf[Max(s)], w)]
  <2>1. g = [s \in I |-> IF s = {} THEN posts ELSE Push(g[s \ {Max(s)}], starfritconf[Max(s)], w)]
    BY <1>5, <1>7
  <2> QED
    BY <1>1, <2>1 DEF iter
<1> DEFINE a(k) == iter[1..k]
<1>9. a(0) = posts /\ \A k \in 1..Len(starfritconf) : a(k) = Push(a(k - 1), starfritconf[k], w)
  <2>1. a(0) = posts
    <3>1. 1..0 = {} /\ {} \in I
      OBVIOUS
    <3> QED
      BY <1>8, <3>1
  <2>2. ASSUME NEW k \in 1..Len(starfritconf) PROVE a(k) = Push(a(k - 1), starfritconf[k], w)
    <3>1. 1..k \in I /\ 1..k # {} /\ Max(1..k) = k /\ (1..k) \ {Max(1..k)} = 1..(k - 1)
      BY <1>1, FirstIndices
    <3> QED
      BY <1>8, <3>1
  <2> QED
    BY <2>1, <2>2
<1> HIDE DEF a, I, step
<1> DEFINE S == {k \in 0..Len(starfritconf) : PostedTo(starfritconf, w, at, posts, a(k), k)}
<1>10. 0 \in S
  <2>1. 0 \in 0..Len(starfritconf) /\ Len(posts) \in Nat /\ (Len(posts) + 1)..Len(posts) = {}
    BY <1>1
  <2>2. {i \in 1..0 : Selected(starfritconf[i], w)} = {}
    OBVIOUS
  <2>3. PostedTo(starfritconf, w, at, posts, posts, 0)
    BY <2>1, <2>2, InOrderEmpty DEF PostedTo
  <2> QED
    BY <1>9, <2>1, <2>3
<1>11. ASSUME NEW k \in 1..Len(starfritconf), k - 1 \in S PROVE k \in S
  <2>1. PostedTo(starfritconf, w, at, posts, a(k - 1), k - 1) /\ k \in 0..Len(starfritconf)
    BY <1>11
  <2>2. a(k) = IF Selected(starfritconf[k], w)
                 THEN Append(a(k - 1), [url |-> starfritconf[k].url, weight |-> w, at |-> at])
                 ELSE a(k - 1)
    BY <1>3, <1>9
  <2>3. PostedTo(starfritconf, w, at, posts, a(k), k)
    BY <2>1, <2>2, PostedToGrows
  <2> QED
    BY <2>1, <2>3
<1>12. Len(starfritconf) \in S
  <2> HIDE DEF S
  <2>1. 0..Len(starfritconf) \subseteq S
    BY <1>1, <1>10, <1>11, IntervalInduction
  <2> QED
    BY <1>1, <2>1
<1>13. iter[DOMAIN starfritconf] = a(Len(starfritconf))
  BY <1>1 DEF a
<1> QED
  BY <1>2, <1>12, <1>13
----------------------------------------------------------------------------
(* A frame that is accepted. *)

(* What Measure() does, of which the steps below need no more.             *)
Hears(w, t) ==
    /\ last_measurement' = w /\ last_measurement_date' = t
    /\ samevalue_count' = IF Repeats(w, t) THEN samevalue_count + 1 ELSE 0
    /\ posts' = IF Repeats(w, t) /\ samevalue_count' = SAMEVALUE_CNT /\ w # 0
                  THEN push_measurement(w) ELSE posts
    /\ accepted' = Append(accepted, [weight |-> w, time |-> t])
    /\ triples' = triples /\ starfritconf' = starfritconf

LEMMA MeasureHears ==
    ASSUME NEW bits \in Heard, NEW t \in 0..MaxTime, Measure(bits, t)
    PROVE  t \in Nat /\ \E w \in Nat : Hears(w, t)
<1>1. bits \in Measurements
  BY DEF Measure
<1>2. PICK w \in Nat : w = Weight[bits]
  BY <1>1, WeightType
<1>3. Hears(w, t)
  BY <1>2 DEF Measure, Hears
<1> QED
  BY <1>3, Bounds

LEMMA TypeHears ==
    ASSUME TypeOK, NEW w \in Nat, NEW t \in Nat, Hears(w, t)
    PROVE  TypeOK'
<1>1. accepted' \in Seq([weight : Nat, time : Nat])
  <2>1. accepted \in Seq([weight : Nat, time : Nat])
    BY DEF TypeOK
  <2> QED
    BY <2>1, AppendProperties DEF Hears
<1>2. posts' \in Seq(Post)
  <2>1. CASE posts' = posts
    BY <2>1 DEF TypeOK
  <2>2. CASE posts' = push_measurement(w)
    <3>1. Len(accepted) + 1 \in Nat /\ starfritconf \in Seq(Target) /\ posts \in Seq(Post)
      BY DEF TypeOK
    <3>2. PostedTo(starfritconf, w, Len(accepted) + 1, posts, push_measurement(w), Len(starfritconf))
      BY <3>1, PushInOrder
    <3> QED
      BY <2>2, <3>2 DEF PostedTo
  <2> QED
    BY <2>1, <2>2 DEF Hears
<1> QED
  BY <1>1, <1>2 DEF TypeOK, Hears

(* The streak that the frame is in, and that it is the count.              *)
LEMMA CountHears ==
    ASSUME TypeOK, CountInv, NEW w \in Nat, NEW t \in Nat, Hears(w, t), TypeOK',
           NEW l \in Nat, l = Len(accepted), NEW n \in Nat, n = samevalue_count'
    PROVE  Streak(l + 1 - n, l + 1)' /\ ~Streak(l + 1 - n - 1, l + 1)'
<1>1. PICK e \in Frame : e = [weight |-> w, time |-> t]
  BY DEF Frame
<1>2. accepted \in Seq(Frame) /\ accepted' \in Seq(Frame) /\ accepted' = Append(accepted, e)
  BY <1>1 DEF TypeOK, Frame, Hears
<1>3. l + 1 \in DOMAIN accepted'
  BY <1>2, AppendProperties
<1>4. \A i \in Int : i <= l =>
         (Streak(i, l + 1)' <=> /\ Streak(i, l) /\ accepted[l].weight = w
                               /\ t - accepted[l].time <= TimeOut)
  BY <1>1, <1>2, StreakGrows
<1>5. CASE l = 0
  <2>1. ~Repeats(w, t)
    BY <1>5 DEF CountInv, Repeats
  <2>2. n = 0
    BY <2>1 DEF Hears
  <2>3. ~Streak(0, 0)
    BY <1>2, <1>5 DEF Streak
  <2>4. ~Streak(0, l + 1)'
    BY <1>4, <1>5, <2>3
  <2>5. Streak(l + 1, l + 1)'
    BY <1>2, <1>3, StreakOfOne
  <2>6. l + 1 - n = l + 1 /\ l + 1 - n - 1 = 0
    BY <1>5, <2>2
  <2> QED
    BY <2>4, <2>5, <2>6
<1>6. CASE l # 0
  <2>1. PICK c \in Nat : c = samevalue_count
    BY DEF TypeOK
  <2>2. /\ last_measurement = accepted[l].weight /\ last_measurement_date = accepted[l].time
        /\ Streak(l - c, l) /\ ~Streak(l - c - 1, l)
    BY <1>6, <2>1 DEF CountInv
  <2>3. Repeats(w, t) <=> accepted[l].weight = w /\ t - accepted[l].time <= TimeOut
    <3>1. l \in DOMAIN accepted /\ TimeOut \in Nat
      BY <1>2, <1>6, Bounds
    <3>2. accepted[l].time \in Nat
      <4>1. PICK f \in Frame : f = accepted[l]
        BY <1>2, <3>1
      <4> QED
        BY <4>1 DEF Frame
    <3> QED
      BY <2>2, <3>1, <3>2 DEF Repeats, TimedOut
  <2>4. CASE Repeats(w, t)
    <3>1. n = c + 1
      BY <2>1, <2>4 DEF Hears
    <3>2. l + 1 - n = l - c /\ l + 1 - n - 1 = l - c - 1
      BY <3>1
    <3>3. /\ l - c \in Int /\ l - c <= l /\ l - c - 1 \in Int /\ l - c - 1 <= l
      OBVIOUS
    <3> QED
      BY <1>4, <2>2, <2>3, <2>4, <3>2, <3>3
  <2>5. CASE ~Repeats(w, t)
    <3>1. n = 0
      BY <2>5 DEF Hears
    <3>2. l + 1 - n = l + 1 /\ l + 1 - n - 1 = l /\ l \in Int /\ l <= l
      BY <3>1
    <3>3. Streak(l + 1, l + 1)'
      BY <1>2, <1>3, StreakOfOne
    <3> QED
      BY <1>4, <2>3, <2>5, <3>2, <3>3
  <2> QED
    BY <2>4, <2>5
<1> QED
  BY <1>5, <1>6

LEMMA CountStep ==
    ASSUME TypeOK, CountInv, NEW w \in Nat, NEW t \in Nat, Hears(w, t), TypeOK'
    PROVE  CountInv'
<1>1. PICK l \in Nat, n \in Nat : l = Len(accepted) /\ n = samevalue_count'
  BY DEF TypeOK
<1>2. /\ Len(accepted') = l + 1
      /\ accepted'[l + 1] = [weight |-> w, time |-> t]
  <2>1. PICK e \in Frame : e = [weight |-> w, time |-> t]
    BY DEF Frame
  <2>2. accepted \in Seq(Frame) /\ accepted' = Append(accepted, e)
    BY <2>1 DEF TypeOK, Frame, Hears
  <2> QED
    BY <1>1, <2>1, <2>2, AppendProperties
<1>3. Streak(l + 1 - n, l + 1)' /\ ~Streak(l + 1 - n - 1, l + 1)'
  BY <1>1, CountHears
<1>4. l + 1 # 0
  OBVIOUS
<1>5. last_measurement' = w /\ last_measurement_date' = t
  BY DEF Hears
<1> QED
  BY <1>1, <1>2, <1>3, <1>4, <1>5 DEF CountInv
(* When the weight is due: the count tells.                                *)
LEMMA DueHears ==
    ASSUME TypeOK, CountInv, NEW w \in Nat, NEW t \in Nat, Hears(w, t), TypeOK',
           NEW l \in Nat, l = Len(accepted)
    PROVE  Due(l + 1)' <=> w # 0 /\ Repeats(w, t) /\ samevalue_count' = SAMEVALUE_CNT
<1>1. PICK n \in Nat, N \in Nat : n = samevalue_count' /\ N = SAMEVALUE_CNT /\ N # 0
  BY Bounds DEF TypeOK
<1>2. PICK e \in Frame : e = [weight |-> w, time |-> t]
  BY DEF Frame
<1>3. accepted \in Seq(Frame) /\ accepted' \in Seq(Frame) /\ accepted' = Append(accepted, e)
  BY <1>2 DEF TypeOK, Frame, Hears
<1>4. l + 1 \in DOMAIN accepted' /\ accepted'[l + 1].weight = w
  BY <1>2, <1>3, AppendProperties
<1>5. Streak(l + 1 - n, l + 1)' /\ ~Streak(l + 1 - n - 1, l + 1)'
  BY <1>1, CountHears
<1>6. Due(l + 1)' <=> w # 0 /\ Streak(l + 1 - N, l + 1)' /\ ~Streak(l + 1 - N - 1, l + 1)'
  BY <1>1, <1>4 DEF Due
<1>7. \A i \in Int : \A j \in i..(l + 1) : Streak(i, l + 1)' => Streak(j, l + 1)'
  BY <1>3, <1>4, StreakEnds
<1>8. n = N => Repeats(w, t)
  BY <1>1 DEF Hears
<1>9. CASE n = N
  BY <1>1, <1>5, <1>6, <1>8, <1>9
<1>10. CASE n < N
  <2>1. l + 1 - N \in Int /\ l + 1 - n - 1 \in (l + 1 - N)..(l + 1)
    BY <1>10
  <2>2. ~Streak(l + 1 - N, l + 1)'
    BY <1>5, <1>7, <2>1
  <2> QED
    BY <1>1, <1>6, <1>10, <2>2
<1>11. CASE n > N
  <2>1. l + 1 - n \in Int /\ l + 1 - N - 1 \in (l + 1 - n)..(l + 1)
    BY <1>11
  <2>2. Streak(l + 1 - N - 1, l + 1)'
    BY <1>5, <1>7, <2>1
  <2> QED
    BY <1>1, <1>6, <1>11, <2>2
<1> QED
  BY <1>9, <1>10, <1>11

(* What was due is: a frame more changes nothing of the others.            *)
LEMMA DueKeeps ==
    ASSUME TypeOK, NEW w \in Nat, NEW t \in Nat, Hears(w, t), NEW k \in DOMAIN accepted
    PROVE  (Due(k)' <=> Due(k)) /\ accepted'[k] = accepted[k] /\ k \in DOMAIN accepted'
<1>1. PICK N \in Nat : N = SAMEVALUE_CNT
  BY Bounds
<1>2. PICK e \in Frame : e = [weight |-> w, time |-> t]
  BY DEF Frame
<1>3. accepted \in Seq(Frame) /\ accepted' = Append(accepted, e)
  BY <1>2 DEF TypeOK, Frame, Hears
<1>4. accepted'[k] = accepted[k] /\ k \in Int /\ k \in DOMAIN accepted'
  BY <1>3, AppendProperties
<1>5. \A i \in Int : i <= k => (Streak(i, k)' <=> Streak(i, k))
  BY <1>3, StreakKeeps
<1>6. k - N \in Int /\ k - N <= k /\ k - N - 1 \in Int /\ k - N - 1 <= k
  BY <1>4
<1> QED
  BY <1>1, <1>4, <1>5, <1>6 DEF Due

(* The posts of the frames before are as they were.                        *)
LEMMA PostedKeeps ==
    ASSUME TypeOK, PostedInv, NEW w \in Nat, NEW t \in Nat, Hears(w, t),
           \A i \in DOMAIN posts : i \in DOMAIN posts' /\ posts'[i] = posts[i],
           \A i \in DOMAIN posts' \ DOMAIN posts : posts'[i].at = Len(accepted) + 1,
           NEW k \in DOMAIN accepted
    PROVE  Posted(k)'
<1>1. Made(k)' = Made(k)
  <2>1. k # Len(accepted) + 1
    BY DEF TypeOK
  <2> QED
    BY <2>1 DEF Made
<1>2. Chosen(k)' = Chosen(k)
  BY DueKeeps DEF Chosen, Hears
<1>3. PICK f \in InOrder(Made(k), Chosen(k)) :
         \A i \in Made(k) : /\ posts[i].weight = accepted[k].weight
                           /\ posts[i].url = starfritconf[f[i]].url
  BY DEF PostedInv, Posted
<1>4. \A i \in Made(k) : posts'[i] = posts[i]
  BY DEF Made
<1>5. accepted'[k] = accepted[k] /\ starfritconf' = starfritconf
  BY DueKeeps DEF Hears
<1>6. \A i \in Made(k) : /\ posts'[i].weight = accepted'[k].weight
                        /\ posts'[i].url = starfritconf'[f[i]].url
  BY <1>3, <1>4, <1>5
<1> QED
  BY <1>1, <1>2, <1>3, <1>6 DEF Posted

LEMMA PostedStep ==
    ASSUME TypeOK, CountInv, PostedInv, NEW w \in Nat, NEW t \in Nat, Hears(w, t), TypeOK'
    PROVE  PostedInv'
<1>1. PICK l \in Nat, p \in Nat : l = Len(accepted) /\ p = Len(posts)
  BY DEF TypeOK
<1>2. /\ DOMAIN accepted = 1..l /\ DOMAIN accepted' = 1..(l + 1)
      /\ accepted'[l + 1].weight = w /\ l + 1 \in 1..(l + 1)
      /\ \A k \in 1..(l + 1) : k \in 1..l \/ k = l + 1
      /\ \A k \in 1..l : k # l + 1
  <2>1. PICK e \in Frame : e = [weight |-> w, time |-> t]
    BY DEF Frame
  <2>2. accepted \in Seq(Frame) /\ accepted' = Append(accepted, e)
    BY <2>1 DEF TypeOK, Frame, Hears
  <2> QED
    BY <1>1, <2>1, <2>2, AppendProperties
<1>3. DOMAIN posts = 1..p /\ \A i \in 1..p : posts[i].at \in 1..l
  <2>1. DOMAIN posts = 1..p
    BY <1>1 DEF TypeOK
  <2>2. \A i \in DOMAIN posts : posts[i].at \in DOMAIN accepted
    BY DEF PostedInv
  <2> QED
    BY <1>2, <2>1, <2>2
<1>4. Due(l + 1)' <=> w # 0 /\ Repeats(w, t) /\ samevalue_count' = SAMEVALUE_CNT
  BY <1>1, DueHears
<1>5. CASE Due(l + 1)'
  <2>1. posts' = push_measurement(w)
    BY <1>4, <1>5 DEF Hears
  <2>2. PICK q \in Nat : q = Len(posts') /\ DOMAIN posts' = 1..q
    BY DEF TypeOK
  <2>3. PostedTo(starfritconf, w, l + 1, posts, posts', Len(starfritconf))
    <3>1. starfritconf \in Seq(Target) /\ posts \in Seq(Post) /\ l + 1 \in Nat
      BY DEF TypeOK
    <3> QED
      BY <1>1, <2>1, <3>1, PushInOrder
  <2>4. p <= q /\ \A i \in 1..p : posts'[i] = posts[i]
    BY <1>1, <2>2, <2>3 DEF PostedTo
  <2>5. PICK f \in InOrder((p + 1)..q, {i \in 1..Len(starfritconf) : Selected(starfritconf[i], w)}) :
           \A i \in (p + 1)..q :
              posts'[i] = [url |-> starfritconf[f[i]].url, weight |-> w, at |-> l + 1]
    BY <1>1, <2>2, <2>3 DEF PostedTo
  <2>6. \A i \in 1..p : i \in 1..q /\ i \notin (p + 1)..q
    BY <2>4
  <2>7. \A i \in 1..q : i \in 1..p \/ i \in (p + 1)..q
    BY <2>4
  <2>8. (p + 1)..q \subseteq 1..q
    BY <2>4
  <2>9. \A i \in (p + 1)..q : posts'[i].at = l + 1 /\ posts'[i].weight = w
                             /\ posts'[i].url = starfritconf[f[i]].url
    <3> TAKE i \in (p + 1)..q
    <3>1. PICK u : u = starfritconf[f[i]].url
      OBVIOUS
    <3>2. posts'[i] = [url |-> u, weight |-> w, at |-> l + 1]
      BY <2>5, <3>1
    <3> QED
      BY <3>1, <3>2
  <2>10. \A k \in 1..l : Posted(k)'
    BY <1>1, <1>2, <1>3, <2>2, <2>4, <2>6, <2>7, <2>9, PostedKeeps
  <2>11. Made(l + 1)' = (p + 1)..q
    <3>1. \A i \in 1..q : posts'[i].at = l + 1 <=> i \in (p + 1)..q
      BY <1>2, <1>3, <2>4, <2>6, <2>7, <2>9
    <3> QED
      BY <2>2, <2>8, <3>1 DEF Made
  <2>12. Chosen(l + 1)' = {i \in 1..Len(starfritconf) : Selected(starfritconf[i], w)}
    <3>1. DOMAIN starfritconf = 1..Len(starfritconf) /\ starfritconf' = starfritconf
      BY DEF TypeOK, Hears
    <3> QED
      BY <1>2, <1>5, <3>1 DEF Chosen
  <2>13. Posted(l + 1)'
    <3>1. starfritconf' = starfritconf
      BY DEF Hears
    <3> QED
      BY <1>2, <2>5, <2>9, <2>11, <2>12, <3>1 DEF Posted
  <2>14. \A i \in 1..q : posts'[i].at \in 1..(l + 1)
    BY <1>2, <1>3, <2>4, <2>7, <2>9
  <2> QED
    BY <1>2, <2>2, <2>10, <2>13, <2>14 DEF PostedInv
<1>6. CASE ~Due(l + 1)'
  <2>1. posts' = posts
    BY <1>4, <1>6 DEF Hears
  <2>2. \A k \in 1..l : Posted(k)'
    BY <1>2, <2>1, PostedKeeps
  <2>3. Made(l + 1)' = {}
    BY <1>2, <1>3, <2>1 DEF Made
  <2>4. Chosen(l + 1)' = {}
    BY <1>6 DEF Chosen
  <2>5. Posted(l + 1)'
    BY <2>3, <2>4, InOrderEmpty DEF Posted
  <2>6. \A i \in 1..p : posts'[i].at \in 1..(l + 1)
    BY <1>3, <2>1
  <2> QED
    BY <1>2, <1>3, <2>1, <2>2, <2>5, <2>6 DEF PostedInv
<1> QED
  BY <1>5, <1>6

----------------------------------------------------------------------------
(* The theorems. *)

LEMMA InitIInv == Init => IInv
<1> SUFFICES ASSUME Init PROVE IInv
  OBVIOUS
<1>1. triples \in Seq(Triple)
  BY Bounds DEF Init
<1>2. Meant(triples, starfritconf, Len(triples))
  BY <1>1, SetupMeant DEF Init
<1>3. starfritconf \in Seq(Target)
  BY <1>2 DEF Meant
<1>4. TypeOK
  BY <1>1, <1>3, EmptySeq DEF Init, TypeOK
<1>5. CountInv
  BY DEF Init, CountInv
<1>6. PostedInv
  BY DEF Init, PostedInv
<1>7. TargetsAsConfigured
  <2>1. DOMAIN starfritconf = 1..Len(starfritconf) /\ DOMAIN triples = 1..Len(triples)
    BY <1>1, <1>3
  <2> QED
    BY <1>2, <2>1 DEF Meant, TargetOf, TargetsAsConfigured
<1> QED
  BY <1>4, <1>5, <1>6, <1>7 DEF IInv

LEMMA StepIInv == IInv /\ [Next]_vars => IInv'
<1> SUFFICES ASSUME IInv, [Next]_vars PROVE IInv'
  OBVIOUS
<1>1. TypeOK /\ CountInv /\ PostedInv /\ TargetsAsConfigured
  BY DEF IInv
<1>2. CASE Next
  <2>1. PICK bits \in Heard, t \in 0..MaxTime : Measure(bits, t)
    BY <1>2 DEF Next
  <2>2. t \in Nat
    BY <2>1, MeasureHears
  <2>3. PICK w \in Nat : Hears(w, t)
    BY <2>1, MeasureHears
  <2>4. TypeOK'
    BY <1>1, <2>2, <2>3, TypeHears
  <2>5. CountInv'
    BY <1>1, <2>2, <2>3, <2>4, CountStep
  <2>6. PostedInv'
    BY <1>1, <2>2, <2>3, <2>4, PostedStep
  <2>7. TargetsAsConfigured'
    BY <1>1, <2>3 DEF Hears, TargetsAsConfigured
  <2> QED
    BY <2>4, <2>5, <2>6, <2>7 DEF IInv
<1>3. CASE UNCHANGED vars
  <2>1. TypeOK'
    BY <1>1, <1>3 DEF vars, TypeOK
  <2>2. CountInv'
    BY <1>1, <1>3 DEF vars, CountInv, Streak
  <2>3. PostedInv'
    <3>1. /\ accepted' = accepted /\ posts' = posts /\ starfritconf' = starfritconf
      BY <1>3 DEF vars
    <3>2. ASSUME NEW k PROVE Made(k)' = Made(k) /\ Chosen(k)' = Chosen(k)
      BY <3>1 DEF Made, Chosen, Due, Streak
    <3>3. ASSUME NEW k, Posted(k) PROVE Posted(k)'
      BY <3>1, <3>2, <3>3 DEF Posted
    <3> QED
      BY <1>1, <3>1, <3>3 DEF PostedInv
  <2>4. TargetsAsConfigured'
    <3>1. starfritconf' = starfritconf /\ triples' = triples
      BY <1>3 DEF vars
    <3>2. TargetsAsConfigured
      BY <1>1
    <3> QED
      BY <3>1, <3>2, Zenon DEF TargetsAsConfigured
  <2> QED
    BY <2>1, <2>2, <2>3, <2>4 DEF IInv
<1> QED
  BY <1>2, <1>3

(* What is heard is counted: the invariant of the scale, whatever the      *)
(* frames, the clock and the configuration.                                *)
THEOREM ScaleCounts == Spec => []IInv
<1> QED
  BY InitIInv, StepIInv, PTL DEF Spec

(* starfrit_setup() makes a target of each triple that has a URL, with its *)
(* own limits and in their order, whatever else the line says.             *)
THEOREM TargetsAreThoseConfigured == Spec => []TargetsAsConfigured
<1>1. IInv => TargetsAsConfigured
  BY DEF IInv
<1> QED
  BY <1>1, ScaleCounts, PTL

(* starfrit_process() posts a weight exactly when it has been repeated     *)
(* SAMEVALUE_CNT times within the time-outs, and once for a streak.        *)
THEOREM PostsComeWhenDue == Spec => []PostsWhenDue
<1>1. ASSUME IInv PROVE PostsWhenDue
  <2> SUFFICES ASSUME NEW k \in DOMAIN accepted
               PROVE  (\E i \in DOMAIN posts : posts[i].at = k)
                         <=> /\ Due(k)
                             /\ \E i \in DOMAIN starfritconf :
                                   Selected(starfritconf[i], accepted[k].weight)
    BY DEF PostsWhenDue
  <2>1. PICK f : f \in InOrder(Made(k), Chosen(k))
    BY <1>1 DEF IInv, PostedInv, Posted
  <2>2. (\E i \in Made(k) : TRUE) <=> (\E j \in Chosen(k) : TRUE)
    BY <2>1 DEF InOrder
  <2> QED
    BY <2>2 DEF Made, Chosen
<1> QED
  BY <1>1, ScaleCounts, PTL

(* push_measurement() posts it once to each triple whose limits allow the  *)
(* weight, in the order of the configuration, and to nobody else.          *)
THEOREM PostsGoToTargets == Spec => []PostsToTargets
<1>1. ASSUME IInv PROVE PostsToTargets
  <2> DEFINE Wants(t, w) == /\ t.url # NotUrl
                            /\ t.min <= 0 \/ w >= t.min
                            /\ t.max <= 0 \/ w < t.max
  <2> SUFFICES ASSUME NEW k \in DOMAIN accepted, NEW w, w = accepted[k].weight,
                      Due(k) \/ Made(k) # {}
               PROVE  \E h \in InOrder(Made(k), {i \in DOMAIN triples : Wants(triples[i], w)}) :
                         \A i \in Made(k) : posts[i].weight = w /\ posts[i].url = triples[h[i]].url
    BY DEF PostsToTargets
  <2>1. TypeOK /\ PostedInv /\ TargetsAsConfigured
    BY <1>1 DEF IInv
  <2>2. w \in Nat
    <3>1. accepted \in Seq(Frame)
      BY <2>1 DEF TypeOK, Frame
    <3>2. PICK e \in Frame : e = accepted[k]
      BY <3>1
    <3> QED
      BY <3>2 DEF Frame
  <2>3. PICK f \in InOrder(Made(k), Chosen(k)) :
           \A i \in Made(k) : posts[i].weight = w /\ posts[i].url = starfritconf[f[i]].url
    BY <2>1 DEF PostedInv, Posted
  <2> DEFINE D == DOMAIN starfritconf
             T == {i \in DOMAIN triples : triples[i].url # NotUrl}
             C == {j \in D : Selected(starfritconf[j], w)}
             W == {i \in DOMAIN triples : Wants(triples[i], w)}
  <2>4. Due(k)
    BY <2>3 DEF InOrder, Chosen
  <2>5. Chosen(k) = C
    BY <2>4 DEF Chosen
  <2>6. PICK g \in InOrder(D, T) :
           \A j \in D : starfritconf[j] = TargetOf(triples[g[j]])
    BY <2>1 DEF TargetsAsConfigured, TargetOf
  <2>7. /\ \A j \in D : g[j] \in T
        /\ \A i \in T : \E j \in D : g[j] = i
    BY <2>6 DEF InOrder
  <2>8. ASSUME NEW j \in D PROVE Selected(starfritconf[j], w) <=> Wants(triples[g[j]], w)
    <3>1. PICK t \in Triple : t = triples[g[j]] /\ t.url # NotUrl
      BY <2>1, <2>7 DEF TypeOK
    <3>2. t.min \in Int /\ t.max \in Int
      BY DEF Triple
    <3>3. PICK c : c = starfritconf[j] /\ c.min = NotBelow0(t.min) /\ c.max = NotBelow0(t.max)
      BY <2>6, <3>1 DEF TargetOf
    <3>4. Selected(c, w) <=> Wants(t, w)
      BY <2>2, <3>1, <3>2, <3>3 DEF Selected, NotBelow0
    <3> QED
      BY <3>1, <3>3, <3>4
  <2>9. {g[j] : j \in C} = W
    <3>1. \A i \in W : i \in T
      OBVIOUS
    <3>2. \A i \in T : i \in W <=> Wants(triples[i], w)
      OBVIOUS
    <3>3. \A j \in C : j \in D /\ g[j] \in W
      BY <2>7, <2>8, <3>2
    <3>4. \A i \in W : \E j \in C : g[j] = i
      BY <2>7, <2>8, <3>1, <3>2
    <3> HIDE DEF C, W
    <3> QED
      BY <3>3, <3>4
  <2>10. PICK h : h = [i \in Made(k) |-> g[f[i]]]
    OBVIOUS
  <2>11. h \in InOrder(Made(k), W)
    <3>1. C \subseteq D
      OBVIOUS
    <3> HIDE DEF C, D, T, W
    <3> QED
      BY <2>3, <2>5, <2>6, <2>9, <2>10, <3>1, InOrderThen
  <2>12. \A i \in Made(k) : posts[i].weight = w /\ posts[i].url = triples[h[i]].url
    <3>1. \A i \in Made(k) : f[i] \in D
      BY <2>3, <2>5 DEF InOrder
    <3> QED
      BY <2>3, <2>6, <2>10, <3>1 DEF TargetOf
  <2> QED
    BY <2>11, <2>12
<1> QED
  BY <1>1, ScaleCounts, PTL
=============================================================================
