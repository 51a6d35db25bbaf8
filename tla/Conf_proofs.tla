----------------------------- MODULE Conf_proofs -----------------------------
(***************************************************************************)
(* What readconf() makes of a file, for files of any number of lines of    *)
(* any length: comments and empty lines mean nothing, a continued line     *)
(* reads as one, and each key has the value that was written last.         *)
(***************************************************************************)
EXTENDS Conf, Induction

Line0 == Seq(Tokens)

(* The text of a line, and the blanks before it. *)
Text(l) == {i \in 1..Len(l) : l[i] \notin White}
Lead(l) == FirstOf(l, Text(l)) - 1

----------------------------------------------------------------------------
(* Lines and their indices *)

LEMMA LenIs == \A s \in Line0 : Len(s) \in Nat /\ (Len(s) = 0 <=> s = << >>)
BY DEF Line0

LEMMA SubIs ==
    ASSUME NEW s \in Line0, NEW a \in Nat, NEW b \in Nat, a <= b, b <= Len(s)
    PROVE  /\ SubSeq(s, a + 1, b) \in Line0 /\ Len(SubSeq(s, a + 1, b)) = b - a
           /\ \A i \in 1..(b - a) : SubSeq(s, a + 1, b)[i] = s[a + i]
BY DEF Line0

LEMMA PrefixIs ==
    ASSUME NEW s \in Line0, NEW b \in Nat, b <= Len(s)
    PROVE  /\ SubSeq(s, 1, b) \in Line0 /\ Len(SubSeq(s, 1, b)) = b
           /\ \A i \in 1..b : SubSeq(s, 1, b)[i] = s[i]
BY DEF Line0

LEMMA CatIs ==
    ASSUME NEW x \in Line0, NEW y \in Line0
    PROVE  /\ x \o y \in Line0 /\ Len(x \o y) = Len(x) + Len(y)
           /\ \A i \in 1..Len(x) : (x \o y)[i] = x[i]
           /\ \A i \in 1..Len(y) : (x \o y)[Len(x) + i] = y[i]
BY DEF Line0

LEMMA LinesEqual ==
    ASSUME NEW s \in Line0, NEW t \in Line0, Len(s) = Len(t), \A i \in 1..Len(s) : s[i] = t[i]
    PROVE  s = t
BY SeqEqual DEF Line0

LEMMA FirstOfIs ==
    ASSUME NEW s \in Line0, NEW S, S \subseteq 1..Len(s)
    PROVE  /\ FirstOf(s, S) \in 1..(Len(s) + 1)
           /\ FirstOf(s, S) \in S \/ (FirstOf(s, S) = Len(s) + 1 /\ S = {})
           /\ \A k \in S : FirstOf(s, S) <= k
           /\ \A k \in 1..(FirstOf(s, S) - 1) : k \notin S
<1> DEFINE T == S \cup {Len(s) + 1}
<1>1. PICK n \in Nat : n = Len(s)
  BY DEF Line0
<1>2. T \subseteq Nat /\ T # {}
  <2>1. \A k \in 1..n : k \in Nat
    OBVIOUS
  <2>2. S \subseteq Nat /\ n + 1 \in Nat
    BY <1>1, <2>1
  <2> QED
    BY <1>1, <2>2
<1> HIDE DEF T
<1>3. Min(T) \in T /\ \A k \in T : Min(T) <= k
  BY <1>2, LeastExists
<1>4. FirstOf(s, S) = Min(T)
  BY DEF FirstOf, T
<1>5. PICK f \in T : f = Min(T) /\ \A k \in T : f <= k
  BY <1>3
<1>6. \A k : k \in T <=> k \in S \/ k = n + 1
  BY <1>1 DEF T
<1>7. \A k \in S : k \in 1..n
  BY <1>1
<1>8. f \in 1..(n + 1) /\ (f \in S \/ (f = n + 1 /\ S = {})) /\ \A k \in S : f <= k
  <2>1. f \in S \/ f = n + 1
    BY <1>6
  <2>2. f = n + 1 => S = {}
    BY <1>5, <1>6, <1>7
  <2>3. f \in 1..(n + 1)
    <3>1. \A k \in 1..n : k \in 1..(n + 1)
      OBVIOUS
    <3>2. n + 1 \in 1..(n + 1)
      OBVIOUS
    <3> QED
      BY <1>7, <2>1, <3>1, <3>2, Zenon
  <2> QED
    BY <1>5, <1>6, <2>1, <2>2, <2>3
<1>9. \A k \in 1..(f - 1) : k \notin S
  BY <1>8
<1> QED
  BY <1>1, <1>4, <1>5, <1>8, <1>9, Zenon

LEMMA LastIs ==
    ASSUME NEW n \in Nat, NEW S, S \subseteq 1..n
    PROVE  /\ S = {} => Max({0} \cup S) = 0
           /\ S # {} => Max({0} \cup S) = Max(S) /\ Max(S) \in S /\ \A k \in S : k <= Max(S)
<1>1. CASE S = {}
  <2>1. {0} \cup S = {0}
    BY <1>1
  <2>2. Max({0}) = 0
    BY DEF Max
  <2> QED
    BY <1>1, <2>1, <2>2
<1>2. CASE S # {}
  <2>1. Max(S) \in S /\ \A k \in S : k <= Max(S)
    BY <1>2, GreatestExists
  <2> DEFINE T == {0} \cup S
  <2>2. PICK m : m = Max(S)
    OBVIOUS
  <2>4. T \subseteq Nat /\ \A k : k \in T <=> k = 0 \/ k \in S
    OBVIOUS
  <2>3. m \in T /\ \A k \in T : m >= k
    <3> HIDE DEF T
    <3>1. m \in S /\ \A k \in S : k <= m
      BY <2>1, <2>2, Zenon
    <3>2. m \in 1..n
      BY <3>1
    <3> QED
      BY <2>4, <3>1, <3>2
  <2> HIDE DEF T
  <2>5. Max(T) \in T /\ \A k \in T : Max(T) >= k
    BY <2>3 DEF Max
  <2>6. Max(T) = m
    <3>1. PICK x : x = Max(T)
      OBVIOUS
    <3>2. x \in T /\ x >= m /\ m >= x
      BY <2>3, <2>5, <3>1
    <3>3. x \in Nat /\ m \in Nat
      BY <2>3, <2>4, <3>2
    <3>4. x = m
      BY <3>2, <3>3
    <3> QED
      BY <3>1, <3>4
  <2> QED
    BY <1>2, <2>1, <2>2, <2>6 DEF T
<1> QED
  BY <1>1, <1>2

LEMMA DropWhiteIs ==
    ASSUME NEW s \in Line0
    PROVE  /\ Lead(s) \in 0..Len(s)
           /\ DropWhite(s) = SubSeq(s, Lead(s) + 1, Len(s)) /\ DropWhite(s) \in Line0
           /\ Len(DropWhite(s)) = Len(s) - Lead(s)
           /\ \A i \in 1..Len(DropWhite(s)) : DropWhite(s)[i] = s[Lead(s) + i]
           /\ \A i \in 1..Lead(s) : s[i] \in White
           /\ Lead(s) < Len(s) => s[Lead(s) + 1] \notin White
<1> DEFINE n == Len(s)
           f == FirstOf(s, Text(s))
<1>1. n \in Nat
  BY DEF Line0
<1>2. Text(s) \subseteq 1..n
  BY DEF Text
<1>3. /\ f \in 1..(n + 1) /\ (f \in Text(s) \/ f = n + 1)
      /\ \A k \in 1..(f - 1) : k \notin Text(s)
  BY <1>2, FirstOfIs
<1>4. DropWhite(s) = SubSeq(s, f, n)
  BY DEF DropWhite, Text
<1>5. Lead(s) = f - 1
  BY DEF Lead
<1> HIDE DEF f
<1>6. Lead(s) \in 0..n /\ Lead(s) + 1 = f
  BY <1>1, <1>3, <1>5
<1>7. \A i \in 1..Lead(s) : s[i] \in White
  BY <1>1, <1>3, <1>5, <1>6 DEF Text
<1>8. Lead(s) < n => s[Lead(s) + 1] \notin White
  BY <1>1, <1>3, <1>6 DEF Text
<1>9. /\ SubSeq(s, f, n) \in Line0 /\ Len(SubSeq(s, f, n)) = n - Lead(s)
      /\ \A i \in 1..(n - Lead(s)) : SubSeq(s, f, n)[i] = s[Lead(s) + i]
  BY <1>1, <1>3, <1>6 DEF Line0
<1> QED
  BY <1>4, <1>6, <1>7, <1>8, <1>9

LEMMA DroppedIs ==
    ASSUME NEW s \in Line0, NEW n, n = Len(s), NEW p, p = Lead(s)
    PROVE  \E u \in Line0 : u = DropWhite(s) /\ Len(u) = n - p /\ \A i \in 1..(n - p) : u[i] = s[p + i]
<1>1. PICK u : u = DropWhite(s)
  OBVIOUS
<1>2. u \in Line0 /\ Len(u) = Len(s) - Lead(s) /\ \A i \in 1..Len(u) : u[i] = s[Lead(s) + i]
  BY <1>1, DropWhiteIs
<1> QED
  BY <1>1, <1>2

(* The blanks before the text are those that are followed by text or by nothing. *)
LEMMA LeadUnique ==
    ASSUME NEW s \in Line0, NEW p \in 0..Len(s),
           \A i \in 1..p : s[i] \in White, p < Len(s) => s[p + 1] \notin White
    PROVE  Lead(s) = p
<1>1. Len(s) \in Nat /\ p \in Nat
  BY DEF Line0
<1>2. PICK q \in 0..Len(s) : q = Lead(s)
  BY DropWhiteIs
<1>3. /\ \A i \in 1..q : s[i] \in White
      /\ q < Len(s) => s[q + 1] \notin White
  BY <1>2, DropWhiteIs
<1>4. ~(p < q)
  <2> SUFFICES ASSUME p < q PROVE FALSE
    OBVIOUS
  <2>1. p + 1 \in 1..q /\ p < Len(s)
    BY <1>1
  <2> QED
    BY <1>3, <2>1
<1>5. ~(q < p)
  <2> SUFFICES ASSUME q < p PROVE FALSE
    OBVIOUS
  <2>1. q + 1 \in 1..p /\ q < Len(s)
    BY <1>1
  <2> QED
    BY <1>3, <2>1
<1> QED
  BY <1>1, <1>2, <1>4, <1>5

LEMMA DropFixed ==
    ASSUME NEW s \in Line0, s # << >> => s[1] \notin White
    PROVE  Lead(s) = 0 /\ DropWhite(s) = s
<1>1. PICK n \in Nat : n = Len(s) /\ (n = 0 <=> s = << >>)
  BY DEF Line0
<1>2. Lead(s) = 0
  <2>1. 0 \in 0..Len(s) /\ (0 < Len(s) => s[0 + 1] \notin White)
    BY <1>1
  <2>2. \A i \in 1..0 : s[i] \in White
    OBVIOUS
  <2> QED
    BY <2>1, <2>2, LeadUnique
<1>3. DropWhite(s) = SubSeq(s, 1, n)
  BY <1>1, <1>2, DropWhiteIs
<1>4. SubSeq(s, 1, n) = s
  BY <1>1, SubSeqFull DEF Line0
<1> QED
  BY <1>2, <1>3, <1>4

LEMMA DropTwice ==
    ASSUME NEW s \in Line0
    PROVE  DropWhite(DropWhite(s)) = DropWhite(s)
<1>1. PICK u \in Line0 : u = DropWhite(s)
  BY DropWhiteIs
<1>2. ASSUME u # << >> PROVE u[1] \notin White
  <2>1. PICK n \in Nat, p \in Nat : p <= n /\ n = Len(s) /\ p = Lead(s)
    BY DropWhiteIs DEF Line0
  <2>2. Len(u) = n - p /\ Len(u) # 0
    BY <1>1, <1>2, <2>1, DropWhiteIs DEF Line0
  <2>3. 1 \in 1..Len(u) /\ p < n
    BY <2>1, <2>2
  <2> QED
    BY <1>1, <2>1, <2>3, DropWhiteIs
<1> QED
  BY <1>1, <1>2, DropFixed

LEMMA DropPrefix ==
    ASSUME NEW w \in Line0, NEW s \in Line0, \A i \in 1..Len(w) : w[i] \in White
    PROVE  Lead(w \o s) = Len(w) + Lead(s) /\ DropWhite(w \o s) = DropWhite(s)
<1>1. PICK n \in Nat, m \in Nat : n = Len(s) /\ m = Len(w)
  BY DEF Line0
<1>2. PICK p \in 0..n : /\ p = Lead(s)
                        /\ \A i \in 1..p : s[i] \in White
                        /\ p < n => s[p + 1] \notin White
  BY <1>1, DropWhiteIs
<1>3. PICK x \in Line0 :
         /\ x = w \o s /\ Len(x) = m + n
         /\ \A i \in 1..m : x[i] = w[i]
         /\ \A i \in 1..n : x[m + i] = s[i]
  <2>1. PICK x : x = w \o s
    OBVIOUS
  <2>2. /\ x \in Line0 /\ Len(x) = Len(w) + Len(s)
        /\ \A i \in 1..Len(w) : x[i] = w[i]
        /\ \A i \in 1..Len(s) : x[Len(w) + i] = s[i]
    BY <2>1, CatIs
  <2> QED
    BY <1>1, <2>1, <2>2
<1>4. Lead(x) = m + p
  <2>1. m + p \in 0..Len(x)
    BY <1>1, <1>3
  <2>2. ASSUME NEW i \in 1..(m + p) PROVE x[i] \in White
    <3>1. CASE i \in 1..m
      BY <1>1, <1>3, <3>1
    <3>2. CASE i \notin 1..m
      <4>1. i - m \in 1..p /\ i - m \in 1..n /\ m + (i - m) = i
        BY <3>2
      <4> QED
        BY <1>2, <1>3, <4>1
    <3> QED
      BY <3>1, <3>2
  <2>3. ASSUME m + p < Len(x) PROVE x[(m + p) + 1] \notin White
    <3>1. p < n /\ p + 1 \in 1..n /\ m + (p + 1) = (m + p) + 1
      BY <1>3, <2>3
    <3> QED
      BY <1>2, <1>3, <3>1
  <2> QED
    BY <2>1, <2>2, <2>3, LeadUnique
<1>5. DropWhite(x) = DropWhite(s)
  <2>1. /\ DropWhite(x) \in Line0 /\ Len(DropWhite(x)) = n - p
        /\ \A i \in 1..(n - p) : DropWhite(x)[i] = x[(m + p) + i]
    <3>1. Len(x) - (m + p) = n - p
      BY <1>3
    <3>2. /\ DropWhite(x) \in Line0 /\ Len(DropWhite(x)) = Len(x) - Lead(x)
          /\ \A i \in 1..Len(DropWhite(x)) : DropWhite(x)[i] = x[Lead(x) + i]
      BY DropWhiteIs
    <3> QED
      BY <1>4, <3>1, <3>2
  <2>2. /\ DropWhite(s) \in Line0 /\ Len(DropWhite(s)) = n - p
        /\ \A i \in 1..(n - p) : DropWhite(s)[i] = s[p + i]
    BY <1>1, <1>2, DropWhiteIs
  <2>3. ASSUME NEW i \in 1..(n - p) PROVE x[(m + p) + i] = s[p + i]
    <3>1. p + i \in 1..n /\ m + (p + i) = (m + p) + i
      OBVIOUS
    <3> QED
      BY <1>3, <3>1
  <2>4. \A i \in 1..Len(DropWhite(x)) : DropWhite(x)[i] = DropWhite(s)[i]
    BY <2>1, <2>2, <2>3
  <2> QED
    BY <2>1, <2>2, <2>4, LinesEqual
<1> QED
  BY <1>1, <1>2, <1>3, <1>4, <1>5

LEMMA LeadAndText ==
    ASSUME NEW s \in Line0
    PROVE  /\ SubSeq(s, 1, Lead(s)) \in Line0
           /\ \A i \in 1..Len(SubSeq(s, 1, Lead(s))) : SubSeq(s, 1, Lead(s))[i] \in White
           /\ s = SubSeq(s, 1, Lead(s)) \o DropWhite(s)
<1>1. PICK n \in Nat, p \in Nat :
         p <= n /\ n = Len(s) /\ p = Lead(s) /\ \A i \in 1..p : s[i] \in White
  BY DropWhiteIs DEF Line0
<1>2. PICK w \in Line0 :
         w = SubSeq(s, 1, p) /\ Len(w) = p /\ \A i \in 1..p : w[i] = s[i]
  BY <1>1, PrefixIs
<1>3. PICK u \in Line0 :
         u = DropWhite(s) /\ Len(u) = n - p /\ \A i \in 1..(n - p) : u[i] = s[p + i]
  BY <1>1, DroppedIs
<1>4. PICK v : v = w \o u
  OBVIOUS
<1>7. /\ v \in Line0 /\ Len(v) = n
      /\ \A i \in 1..p : v[i] = w[i]
      /\ \A i \in 1..(n - p) : v[p + i] = u[i]
  <2>1. p + (n - p) = n
    BY <1>1
  <2>2. /\ v \in Line0 /\ Len(v) = Len(w) + Len(u)
        /\ \A i \in 1..Len(w) : v[i] = w[i]
        /\ \A i \in 1..Len(u) : v[Len(w) + i] = u[i]
    BY <1>4, CatIs
  <2>3. Len(w) = p /\ Len(u) = n - p
    BY <1>2, <1>3
  <2> QED
    BY <2>1, <2>2, <2>3
<1>5. ASSUME NEW i \in 1..n PROVE s[i] = v[i]
  <2>1. CASE i \in 1..p
    BY <1>2, <1>7, <2>1
  <2>2. CASE i \notin 1..p
    <3>1. i - p \in 1..(n - p) /\ p + (i - p) = i
      BY <2>2
    <3> QED
      BY <1>3, <1>7, <3>1
  <2> QED
    BY <2>1, <2>2
<1>6. s = v
  BY <1>1, <1>5, <1>7, LinesEqual
<1> QED
  BY <1>1, <1>2, <1>3, <1>4, <1>6

(* Blanks before what is joined are dropped as well before as after it is. *)
LEMMA DropConcat ==
    ASSUME NEW x \in Line0, NEW y \in Line0
    PROVE  DropWhite(x \o y) = DropWhite(DropWhite(x) \o y)
<1>1. PICK w \in Line0 : /\ w = SubSeq(x, 1, Lead(x)) /\ x = w \o DropWhite(x)
                         /\ \A i \in 1..Len(w) : w[i] \in White
  BY LeadAndText
<1>2. PICK u \in Line0 : u = DropWhite(x)
  BY DropWhiteIs
<1>3. u \o y \in Line0 /\ (w \o u) \o y = w \o (u \o y)
  BY ConcatAssociative DEF Line0
<1>4. DropWhite(w \o (u \o y)) = DropWhite(u \o y)
  BY <1>1, <1>3, DropPrefix
<1> QED
  BY <1>1, <1>2, <1>3, <1>4

----------------------------------------------------------------------------
(* Text, comments and backslashes of a line *)

(* What fgets() returns of a line that fits.                               *)
Raw == {l \in Line0 : \A i \in 1..(Len(l) - 1) : l[i] # "nl"}
Opens(l) == \E i \in DOMAIN l : OpensComment(l, i)
Cleaned == {l \in Raw : HasText(l) /\ ~Opens(l)}
LastText(l) == Max(Text(l))

LEMMA TextIs ==
    ASSUME NEW l \in Line0
    PROVE  /\ HasText(l) <=> Text(l) # {}
           /\ HasText(l) => /\ LastText(l) \in 1..Len(l) /\ l[LastText(l)] \notin White
                            /\ \A i \in (LastText(l) + 1)..Len(l) : l[i] \in White
                            /\ Lead(l) < LastText(l)
<1>1. PICK n \in Nat : n = Len(l) /\ DOMAIN l = 1..n
  BY DEF Line0
<1>2. HasText(l) <=> Text(l) # {}
  BY <1>1 DEF HasText, Text
<1>3. ASSUME HasText(l)
      PROVE  /\ LastText(l) \in 1..Len(l) /\ l[LastText(l)] \notin White
             /\ \A i \in (LastText(l) + 1)..Len(l) : l[i] \in White
             /\ Lead(l) < LastText(l)
  <2>1. Text(l) \subseteq 1..n /\ Text(l) # {}
    BY <1>1, <1>2, <1>3 DEF Text
  <2>2. LastText(l) \in Text(l) /\ \A k \in Text(l) : k <= LastText(l)
    BY <2>1, GreatestExists DEF LastText
  <2>3. PICK m \in 1..n : m = LastText(l) /\ l[m] \notin White /\ \A k \in Text(l) : k <= m
    BY <1>1, <2>2 DEF Text
  <2>4. ASSUME NEW i \in (m + 1)..n PROVE l[i] \in White
    <3>1. i \in 1..n /\ ~(i <= m)
      OBVIOUS
    <3> QED
      BY <1>1, <2>3, <3>1 DEF Text
  <2>5. Lead(l) < m
    <3>1. Lead(l) \in 0..n /\ \A i \in 1..Lead(l) : l[i] \in White
      BY <1>1, DropWhiteIs
    <3>2. m \notin 1..Lead(l)
      BY <2>3, <3>1
    <3> QED
      BY <3>1, <3>2
  <2> QED
    BY <1>1, <2>3, <2>4, <2>5
<1> QED
  BY <1>2, <1>3

LEMMA LastUnique ==
    ASSUME NEW l \in Line0, NEW m \in 1..Len(l), l[m] \notin White,
           \A i \in (m + 1)..Len(l) : l[i] \in White
    PROVE  HasText(l) /\ LastText(l) = m
<1>1. PICK n \in Nat : n = Len(l) /\ DOMAIN l = 1..n
  BY DEF Line0
<1>2. HasText(l)
  BY <1>1 DEF HasText
<1>3. PICK k \in 1..n : /\ k = LastText(l) /\ l[k] \notin White
                        /\ \A i \in (k + 1)..n : l[i] \in White
  BY <1>1, <1>2, TextIs
<1>4. m \in 1..n /\ m \notin (k + 1)..n /\ k \notin (m + 1)..n
  BY <1>1, <1>3
<1>5. m = k
  BY <1>4
<1> QED
  BY <1>2, <1>3, <1>5

LEMMA TextOfDropped ==
    ASSUME NEW l \in Line0, HasText(l)
    PROVE  /\ HasText(DropWhite(l)) /\ LastText(DropWhite(l)) = LastText(l) - Lead(l)
           /\ DropWhite(l) # << >>
<1>1. PICK n \in Nat, p \in Nat, m \in Nat :
         /\ n = Len(l) /\ p = Lead(l) /\ m = LastText(l) /\ p < m /\ m <= n
         /\ l[m] \notin White /\ \A i \in (m + 1)..n : l[i] \in White
  <2>1. PICK n \in Nat : n = Len(l)
    BY LenIs
  <2>2. PICK m \in 1..n : /\ m = LastText(l) /\ l[m] \notin White /\ Lead(l) < m
                         /\ \A i \in (m + 1)..n : l[i] \in White
    BY <2>1, TextIs
  <2>3. PICK p \in Nat : p = Lead(l)
    BY <2>1, DropWhiteIs
  <2> QED
    BY <2>1, <2>2, <2>3
<1>2. PICK u \in Line0 :
         u = DropWhite(l) /\ Len(u) = n - p /\ \A i \in 1..(n - p) : u[i] = l[p + i]
  BY <1>1, DroppedIs
<1>3. m - p \in 1..(n - p) /\ p + (m - p) = m
  BY <1>1
<1>4. \A i \in (m - p + 1)..(n - p) : i \in 1..(n - p) /\ p + i \in (m + 1)..n
  BY <1>1
<1>5. HasText(u) /\ LastText(u) = m - p
  <2>1. u[m - p] \notin White
    BY <1>1, <1>2, <1>3
  <2>2. \A i \in (m - p + 1)..(n - p) : u[i] \in White
    BY <1>1, <1>2, <1>4
  <2> QED
    BY <1>2, <1>3, <2>1, <2>2, LastUnique
<1>6. u # << >>
  BY <1>2, <1>3, LenIs
<1> QED
  BY <1>1, <1>2, <1>5, <1>6

(* The line goes on after its last text, if that is a backslash.           *)
LEMMA BackslashesAre ==
    ASSUME NEW l \in Line0
    PROVE  /\ Backslashes(l) \subseteq Text(l)
           /\ Continues(l) => Backslashes(l) # {}
           /\ Backslashes(l) # {} => /\ HasText(l) /\ LastText(l) \in Backslashes(l)
                                     /\ Max(Backslashes(l)) = LastText(l)
           /\ l \in Raw /\ Backslashes(l) # {} => Continues(l)
<1>1. PICK n \in Nat : n = Len(l) /\ DOMAIN l = 1..n
  BY DEF Line0
<1>2. "\\" \notin White /\ "nl" \in White
  BY DEF White
<1>3. Backslashes(l) \subseteq Text(l)
  BY <1>1, <1>2 DEF Backslashes, Text
<1>4. ASSUME Continues(l) PROVE Backslashes(l) # {}
  <2>1. PICK i \in 1..n : l[i] = "\\" /\ \A j \in (i + 1)..n : l[j] = "nl"
    BY <1>1, <1>4 DEF Continues
  <2>2. \A j \in i..n : j = i \/ j \in (i + 1)..n
    OBVIOUS
  <2>3. i \in Backslashes(l)
    BY <1>1, <2>1, <2>2 DEF Backslashes
  <2> QED
    BY <2>3
<1>5. ASSUME Backslashes(l) # {}
      PROVE  /\ HasText(l) /\ LastText(l) \in Backslashes(l)
             /\ Max(Backslashes(l)) = LastText(l)
             /\ l \in Raw => Continues(l)
  <2>1. PICK b \in 1..n : b \in Backslashes(l) /\ \A j \in b..n : l[j] \in {"nl", "\\"}
    BY <1>1, <1>5 DEF Backslashes
  <2>2. HasText(l)
    BY <1>3, <1>5, TextIs
  <2>3. PICK m \in 1..n : /\ m = LastText(l) /\ l[m] \notin White
                          /\ \A i \in (m + 1)..n : l[i] \in White
                          /\ \A k \in Text(l) : k <= m
    <3>1. LastText(l) \in Text(l) /\ \A k \in Text(l) : k <= LastText(l)
      BY <1>1, <2>2, TextIs, GreatestExists DEF LastText, Text
    <3> QED
      BY <1>1, <2>2, <3>1, TextIs
  <2>4. b <= m
    BY <1>3, <2>1, <2>3
  <2>5. \A j \in m..n : j \in b..n
    BY <2>4
  <2>6. l[m] = "\\"
    <3>1. m \in b..n
      BY <2>4
    <3> QED
      BY <1>2, <2>1, <2>3, <3>1
  <2>7. m \in Backslashes(l)
    BY <1>1, <2>1, <2>5, <2>6 DEF Backslashes
  <2>8. \A k \in Backslashes(l) : k \in 1..n /\ k <= m
    BY <1>1, <1>3, <2>3 DEF Backslashes
  <2>9. Max(Backslashes(l)) = m
    <3>1. Backslashes(l) \subseteq 1..n /\ Backslashes(l) # {}
      BY <2>7, <2>8
    <3>2. Max(Backslashes(l)) \in Backslashes(l) /\ m <= Max(Backslashes(l))
      BY <2>7, <3>1, GreatestExists
    <3>3. PICK x \in 1..n : x = Max(Backslashes(l)) /\ m <= x /\ x <= m
      BY <2>8, <3>2
    <3>4. x = m
      BY <3>3
    <3> QED
      BY <3>3, <3>4
  <2>10. Continues(l)
    <3>1. ASSUME NEW j \in (m + 1)..n PROVE l[j] = "nl"
      <4>1. j \in b..n /\ l[j] \in White
        BY <2>3, <2>4
      <4> QED
        BY <1>2, <2>1, <4>1
    <3> QED
      BY <1>1, <2>6, <3>1 DEF Continues
  <2> QED
    BY <2>2, <2>3, <2>7, <2>9, <2>10
<1> QED
  BY <1>3, <1>4, <1>5

LEMMA BackslashesOfDropped ==
    ASSUME NEW l \in Line0
    PROVE  \A i \in 1..(Len(l) - Lead(l)) :
              i \in Backslashes(DropWhite(l)) <=> Lead(l) + i \in Backslashes(l)
<1>1. PICK n \in Nat, p \in Nat : n = Len(l) /\ p = Lead(l) /\ p <= n
  BY DropWhiteIs, LenIs
<1>2. PICK u \in Line0 :
         u = DropWhite(l) /\ Len(u) = n - p /\ \A i \in 1..(n - p) : u[i] = l[p + i]
  BY <1>1, DroppedIs
<1>3. SUFFICES ASSUME NEW i \in 1..(n - p)
               PROVE  i \in Backslashes(u) <=> p + i \in Backslashes(l)
  BY <1>1, <1>2
<1>4. \A j \in i..(n - p) : j \in 1..(n - p) /\ p + j \in (p + i)..n
  BY <1>1
<1>5. \A j \in (p + i)..n : j - p \in i..(n - p) /\ j - p \in 1..(n - p) /\ p + (j - p) = j
  BY <1>1
<1>6. p + i \in 1..n
  BY <1>1
<1>7. (\A j \in i..(n - p) : u[j] \in {"nl", "\\"}) <=> (\A j \in (p + i)..n : l[j] \in {"nl", "\\"})
  BY <1>2, <1>4, <1>5
<1> QED
  BY <1>1, <1>2, <1>6, <1>7 DEF Backslashes

----------------------------------------------------------------------------
(* trim() *)

(* Where a comment starts in what is left of the blanks. *)
LEMMA MarksAre ==
    ASSUME NEW l \in Raw
    PROVE  \A i \in 1..(Len(l) - Lead(l)) :
              OpensComment(l, Lead(l) + i) <=>
                 \/ i = 1 /\ DropWhite(l)[1] = "#"
                 \/ i \in CommentMarks(DropWhite(l))
<1>1. l \in Line0 /\ \A i \in 1..(Len(l) - 1) : l[i] # "nl"
  BY DEF Raw
<1>2. PICK n \in Nat, p \in Nat : n = Len(l) /\ p = Lead(l) /\ p <= n
  BY <1>1, DropWhiteIs, LenIs
<1>3. PICK u \in Line0 :
         /\ u = DropWhite(l) /\ Len(u) = n - p /\ \A i \in 1..(n - p) : u[i] = l[p + i]
         /\ \A i \in 1..p : l[i] \in White
         /\ p < n => l[p + 1] \notin White
  BY <1>1, <1>2, DropWhiteIs
<1>4. "sp" \in White /\ White = {"sp", "nl"}
  BY DEF White
<1>5. SUFFICES ASSUME NEW i \in 1..(n - p)
               PROVE  OpensComment(l, p + i) <=>
                         (i = 1 /\ u[1] = "#") \/ i \in CommentMarks(u)
  BY <1>2, <1>3
<1>6. u[i] = l[p + i] /\ p < n /\ 1 \in 1..(n - p) /\ u[1] = l[p + 1]
  BY <1>2, <1>3
<1>7. CASE i = 1
  <2>1. i \notin CommentMarks(u)
    BY <1>7 DEF CommentMarks
  <2>2. \A j \in 1..((p + i) - 1) : l[j] = "sp"
    <3>1. \A j \in 1..((p + i) - 1) : j \in 1..p /\ j \in 1..(n - 1)
      BY <1>2, <1>6, <1>7
    <3> QED
      BY <1>1, <1>2, <1>3, <1>4, <3>1
  <2> QED
    BY <1>6, <1>7, <2>1, <2>2 DEF OpensComment
<1>8. CASE i # 1
  <2>1. i \in 2..(n - p) /\ i - 1 \in 1..(n - p) /\ p + (i - 1) = (p + i) - 1
    BY <1>2, <1>8
  <2>2. u[i - 1] = l[(p + i) - 1]
    BY <1>3, <2>1
  <2>3. p + 1 \in 1..((p + i) - 1) /\ l[p + 1] # "sp" /\ p + i > 1
    BY <1>3, <1>4, <1>6, <2>1
  <2>4. OpensComment(l, p + i) <=> l[p + i] = "#" /\ l[(p + i) - 1] = "sp"
    BY <2>3 DEF OpensComment
  <2>5. i \in CommentMarks(u) <=> u[i] = "#" /\ u[i - 1] = "sp"
    BY <1>3, <2>1 DEF CommentMarks
  <2> QED
    BY <1>6, <1>8, <2>2, <2>4, <2>5
<1> QED
  BY <1>7, <1>8

(* The parts of trim(). *)
Kept(u) == [i \in 1..Len(u) |-> IF Continued(u) /\ i \in Backslashes(u) THEN "sp" ELSE u[i]]
Cut(u) == FirstOf(u, CommentMarks(u)) - 1
LastKept(u) == Max({0} \cup {i \in 1..Cut(u) : u[i] \notin White})

LEMMA TrimIs ==
    ASSUME NEW s, NEW u, u = DropWhite(s)
    PROVE  trim(s) = IF u # << >> /\ u[1] = "#" THEN [text |-> << >>, multiline |-> FALSE]
                     ELSE [text |-> SubSeq(Kept(u), 1, LastKept(u)), multiline |-> Continued(u)]
BY DEF trim, Kept, Cut, LastKept

(* What trim() leaves of a line, counted from the line's start.            *)
Stem(l) == IF Continues(l) THEN Opened(l) ELSE SubSeq(l, 1, LastText(l))

LEMMA StemIs ==
    ASSUME NEW l \in Raw, HasText(l)
    PROVE  /\ Stem(l) \in Line0 /\ Len(Stem(l)) = LastText(l)
           /\ \A i \in 1..LastText(l) :
                 Stem(l)[i] = IF i \in Backslashes(l) THEN "sp" ELSE l[i]
<1>1. l \in Line0
  BY DEF Raw
<1>2. PICK n \in Nat, m \in Nat : m \in 1..n /\ n = Len(l) /\ m = LastText(l)
  <2>1. PICK n \in Nat : n = Len(l)
    BY <1>1, LenIs
  <2> QED
    BY <1>1, <2>1, TextIs
<1>3. CASE Continues(l)
  <2>1. Max(Backslashes(l)) = m
    BY <1>1, <1>2, <1>3, BackslashesAre
  <2>2. Stem(l) = [i \in 1..m |-> IF i \in Backslashes(l) THEN "sp" ELSE l[i]]
    BY <1>3, <2>1 DEF Stem, Opened
  <2>3. \A i \in 1..m : l[i] \in Tokens /\ "sp" \in Tokens
    BY <1>1, <1>2, ConfAssumption DEF Line0
  <2> QED
    BY <1>2, <2>2, <2>3 DEF Line0
<1>4. CASE ~Continues(l)
  <2>1. Backslashes(l) = {}
    BY <1>1, <1>4, BackslashesAre
  <2>2. Stem(l) = SubSeq(l, 1, m)
    BY <1>2, <1>4 DEF Stem
  <2>3. SubSeq(l, 1, m) \in Line0 /\ Len(SubSeq(l, 1, m)) = m
        /\ \A i \in 1..m : SubSeq(l, 1, m)[i] = l[i]
    BY <1>1, <1>2, PrefixIs
  <2> QED
    BY <1>2, <2>1, <2>2, <2>3
<1> QED
  BY <1>3, <1>4

LEMMA TrimClean ==
    ASSUME NEW l \in Cleaned
    PROVE  /\ trim(l).multiline = Continues(l)
           /\ trim(l).text = SubSeq(Stem(l), Lead(l) + 1, LastText(l))
           /\ trim(l).text \in Line0 /\ Len(trim(l).text) = LastText(l) - Lead(l)
           /\ \A i \in 1..(LastText(l) - Lead(l)) : trim(l).text[i] = Stem(l)[Lead(l) + i]
<1>1. l \in Raw /\ l \in Line0 /\ HasText(l) /\ ~Opens(l)
  BY DEF Cleaned, Raw
<1>2. PICK n \in Nat, p \in Nat, m \in Nat :
         n = Len(l) /\ p = Lead(l) /\ m = LastText(l) /\ p < m /\ m <= n
  <2>1. PICK n \in Nat : n = Len(l)
    BY <1>1, LenIs
  <2>2. PICK m \in 1..n : m = LastText(l) /\ Lead(l) < m
    BY <1>1, <2>1, TextIs
  <2>3. PICK p \in Nat : p = Lead(l)
    BY <1>1, <2>1, DropWhiteIs
  <2> QED
    BY <2>1, <2>2, <2>3
<1>3. PICK u \in Line0 :
         u = DropWhite(l) /\ Len(u) = n - p /\ \A i \in 1..(n - p) : u[i] = l[p + i]
  BY <1>1, <1>2, DroppedIs
<1>4. ASSUME NEW i \in 1..(n - p) PROVE ~OpensComment(l, p + i)
  <2>1. p + i \in DOMAIN l
    BY <1>1, <1>2 DEF Line0
  <2> QED
    BY <1>1, <2>1 DEF Opens
<1>5. u # << >> /\ u[1] # "#" /\ CommentMarks(u) = {}
  <2>1. u # << >> /\ 1 \in 1..(n - p)
    BY <1>2, <1>3, LenIs
  <2>2. u[1] # "#"
    BY <1>1, <1>2, <1>3, <1>4, <2>1, MarksAre
  <2>3. \A i \in CommentMarks(u) : i \in 1..(n - p)
    BY <1>2, <1>3 DEF CommentMarks
  <2>4. \A i \in 1..(n - p) : i \notin CommentMarks(u)
    BY <1>1, <1>2, <1>3, <1>4, MarksAre
  <2> QED
    BY <2>1, <2>2, <2>3, <2>4
<1>6. Cut(u) = n - p
  <2>1. {} \subseteq 1..Len(u)
    OBVIOUS
  <2>2. FirstOf(u, {}) = Len(u) + 1
    BY <2>1, FirstOfIs
  <2> QED
    BY <1>2, <1>3, <1>5, <2>2 DEF Cut
<1>7. LastKept(u) = m - p
  <2>1. HasText(u) /\ LastText(u) = m - p
    BY <1>1, <1>2, <1>3, TextOfDropped
  <2>2. {i \in 1..Cut(u) : u[i] \notin White} = Text(u)
    BY <1>3, <1>6 DEF Text
  <2>3. Text(u) # {} /\ Text(u) \subseteq 1..Len(u) /\ Len(u) \in Nat
    BY <2>1, TextIs, LenIs DEF Text
  <2>4. Max({0} \cup Text(u)) = Max(Text(u))
    BY <2>3, LastIs
  <2> QED
    BY <2>1, <2>2, <2>4 DEF LastKept, LastText
<1>8. Continued(u) <=> Continues(l)
  <2>1. Backslashes(l) = {} <=> Backslashes(u) = {}
    <3>1. ASSUME NEW i \in Backslashes(u) PROVE p + i \in Backslashes(l)
      <4>1. i \in 1..(n - p)
        BY <1>3, <3>1 DEF Backslashes
      <4> QED
        BY <1>1, <1>2, <1>3, <3>1, <4>1, BackslashesOfDropped
    <3>2. ASSUME NEW i \in Backslashes(l) PROVE i - p \in Backslashes(u)
      <4>1. i \in 1..n /\ l[i] \notin White
        BY <1>1, <1>2, <3>2, BackslashesAre DEF Text
      <4>2. \A j \in 1..p : l[j] \in White
        BY <1>1, <1>2, DropWhiteIs
      <4>3. i - p \in 1..(n - p) /\ p + (i - p) = i
        BY <1>2, <4>1, <4>2
      <4> QED
        BY <1>1, <1>2, <1>3, <3>2, <4>3, BackslashesOfDropped
    <3> QED
      BY <3>1, <3>2
  <2>2. Continues(l) <=> Backslashes(l) # {}
    BY <1>1, BackslashesAre
  <2> QED
    BY <1>5, <2>1, <2>2 DEF Continued
<1>9. trim(l) = [text |-> SubSeq(Kept(u), 1, m - p), multiline |-> Continued(u)]
  <2>1. trim(l) = [text |-> SubSeq(Kept(u), 1, LastKept(u)), multiline |-> Continued(u)]
    BY <1>3, <1>5, TrimIs
  <2> QED
    BY <1>7, <2>1
<1>10. Kept(u) \in Line0 /\ Len(Kept(u)) = n - p
       /\ \A i \in 1..(m - p) : Kept(u)[i] = Stem(l)[p + i]
  <2>1. Kept(u) = [i \in 1..(n - p) |-> IF Continued(u) /\ i \in Backslashes(u) THEN "sp" ELSE u[i]]
    BY <1>3 DEF Kept
  <2>2. \A i \in 1..(n - p) : u[i] \in Tokens /\ "sp" \in Tokens
    BY <1>3, ConfAssumption DEF Line0
  <2>3. Kept(u) \in Line0 /\ Len(Kept(u)) = n - p
    BY <1>2, <2>1, <2>2 DEF Line0
  <2>4. ASSUME NEW i \in 1..(m - p) PROVE Kept(u)[i] = Stem(l)[p + i]
    <3>1. i \in 1..(n - p) /\ p + i \in 1..m
      BY <1>2
    <3>2. i \in Backslashes(u) <=> p + i \in Backslashes(l)
      BY <1>1, <1>2, <1>3, <3>1, BackslashesOfDropped
    <3>3. p + i \in Backslashes(l) => Continued(u)
      BY <1>1, <1>8, BackslashesAre
    <3>4. Stem(l)[p + i] = IF p + i \in Backslashes(l) THEN "sp" ELSE l[p + i]
      BY <1>1, <1>2, <3>1, StemIs
    <3> QED
      BY <1>3, <2>1, <3>1, <3>2, <3>3, <3>4
  <2> QED
    BY <2>3, <2>4
<1>11. PICK t : t = SubSeq(Kept(u), 1, m - p)
  OBVIOUS
<1>12. t \in Line0 /\ Len(t) = m - p /\ \A i \in 1..(m - p) : t[i] = Stem(l)[p + i]
  <2>1. m - p \in Nat /\ m - p <= n - p
    BY <1>2
  <2> QED
    BY <1>10, <1>11, <2>1, PrefixIs
<1>13. t = SubSeq(Stem(l), p + 1, m)
  <2>1. Stem(l) \in Line0 /\ Len(Stem(l)) = m
    BY <1>1, <1>2, StemIs
  <2>2. PICK v : v = SubSeq(Stem(l), p + 1, m)
    OBVIOUS
  <2>3. v \in Line0 /\ Len(v) = m - p /\ \A i \in 1..(m - p) : v[i] = Stem(l)[p + i]
    BY <1>2, <2>1, <2>2, SubIs
  <2>4. t = v
    BY <1>12, <2>3, LinesEqual
  <2> QED
    BY <2>2, <2>4
<1>14. trim(l).text = t /\ trim(l).multiline = Continued(u)
  BY <1>9, <1>11
<1>15. Continued(u) \in BOOLEAN /\ Continues(l) \in BOOLEAN
  BY DEF Continued, Continues
<1>16. trim(l).multiline = Continues(l)
  BY <1>8, <1>14, <1>15
<1> QED
  BY <1>2, <1>12, <1>13, <1>14, <1>16

LEMMA TrimBlank ==
    ASSUME NEW l \in Line0, ~HasText(l)
    PROVE  trim(l).text = << >>
<1>1. PICK u \in Line0 : u = DropWhite(l)
  BY DropWhiteIs
<1>2. u = << >>
  <2>1. PICK n \in Nat, p \in Nat : n = Len(l) /\ p = Lead(l) /\ p <= n
    BY DropWhiteIs, LenIs
  <2>2. p < n => l[p + 1] \notin White
    BY <2>1, DropWhiteIs
  <2>3. p = n
    <3> SUFFICES ASSUME p # n PROVE FALSE
      OBVIOUS
    <3>1. p < n /\ p + 1 \in 1..n /\ DOMAIN l = 1..n
      BY <2>1 DEF Line0
    <3> QED
      BY <2>2, <3>1 DEF HasText
  <2>4. Len(u) = 0
    <3>1. Len(u) = n - p
      BY <1>1, <2>1, DropWhiteIs
    <3> QED
      BY <2>1, <2>3, <3>1
  <2> QED
    BY <2>4, LenIs
<1>3. LastKept(u) = 0
  <2>1. FirstOf(u, CommentMarks(u)) \in 1..1
    <3>1. CommentMarks(u) \subseteq 1..Len(u) /\ Len(u) = 0
      BY <1>2, LenIs DEF CommentMarks
    <3> QED
      BY <3>1, FirstOfIs
  <2>2. Cut(u) = 0
    BY <2>1 DEF Cut
  <2>3. {i \in 1..Cut(u) : u[i] \notin White} = {}
    BY <2>2
  <2>4. Max({0} \cup {}) = 0
    <3>1. {} \subseteq 1..0 /\ 0 \in Nat
      OBVIOUS
    <3> QED
      BY <3>1, LastIs
  <2> QED
    BY <2>3, <2>4 DEF LastKept
<1>4. trim(l) = [text |-> SubSeq(Kept(u), 1, 0), multiline |-> Continued(u)]
  BY <1>1, <1>2, <1>3, TrimIs
<1>5. SubSeq(Kept(u), 1, 0) = << >>
  BY SubSeqEmpty
<1> QED
  BY <1>4, <1>5

(* A comment is cut off with the blank before it; what it leaves is the    *)
(* line without it, or nothing.                                            *)
LEMMA WithoutCommentIs ==
    ASSUME NEW l \in Raw, Opens(l)
    PROVE  \E c \in 1..Len(l) :
              /\ OpensComment(l, c) /\ \A i \in 1..(c - 1) : ~OpensComment(l, i)
              /\ WithoutComment(l) \in Line0 /\ Len(WithoutComment(l)) = c
              /\ WithoutComment(l)[c] = "nl"
              /\ \A i \in 1..(c - 1) : WithoutComment(l)[i] = l[i]
<1>1. l \in Line0
  BY DEF Raw
<1>2. PICK n \in Nat : n = Len(l) /\ DOMAIN l = 1..n
  BY <1>1 DEF Line0
<1> DEFINE S == {i \in DOMAIN l : OpensComment(l, i)}
<1>3. S \subseteq Nat /\ S # {}
  BY <1>2 DEF Opens
<1>4. Min(S) \in S /\ \A k \in S : Min(S) <= k
  BY <1>3, LeastExists
<1>5. PICK c \in 1..n : c = Min(S) /\ OpensComment(l, c) /\ \A k \in S : c <= k
  BY <1>2, <1>4
<1>6. ASSUME NEW i \in 1..(c - 1) PROVE ~OpensComment(l, i)
  <2>1. i \in 1..n /\ ~(c <= i)
    OBVIOUS
  <2> QED
    BY <1>2, <1>5, <2>1
<1>7. PICK v \in Line0 : v = SubSeq(l, 1, c - 1) /\ Len(v) = c - 1 /\ \A i \in 1..(c - 1) : v[i] = l[i]
  <2>1. c - 1 \in Nat /\ c - 1 <= Len(l)
    BY <1>2
  <2> QED
    BY <1>1, <2>1, PrefixIs
<1>8. PICK e \in Line0 : e = <<"nl">> /\ Len(e) = 1 /\ e[1] = "nl"
  <2>1. "nl" \in Tokens
    BY ConfAssumption
  <2>2. <<"nl">> \in Line0
    BY <2>1 DEF Line0
  <2> QED
    BY <2>2
<1>9. PICK w : w = v \o e
  OBVIOUS
<1>10. w \in Line0 /\ Len(w) = c /\ w[c] = "nl" /\ \A i \in 1..(c - 1) : w[i] = l[i]
  <2>1. /\ w \in Line0 /\ Len(w) = Len(v) + Len(e)
        /\ \A i \in 1..Len(v) : w[i] = v[i]
        /\ \A i \in 1..Len(e) : w[Len(v) + i] = e[i]
    BY <1>9, CatIs
  <2>2. (c - 1) + 1 = c /\ 1 \in 1..1
    OBVIOUS
  <2> QED
    BY <1>7, <1>8, <2>1, <2>2
<1>11. WithoutComment(l) = w
  BY <1>5, <1>7, <1>8, <1>9 DEF WithoutComment, Opens
<1> QED
  BY <1>2, <1>5, <1>6, <1>10, <1>11

LEMMA TrimCommented ==
    ASSUME NEW l \in Raw, Opens(l), NEW w, w = WithoutComment(l)
    PROVE  /\ HasText(w) => /\ w \in Cleaned
                            /\ trim(w).text = trim(l).text /\ trim(w).multiline = trim(l).multiline
           /\ ~HasText(w) => trim(l).text = << >>
<1>1. l \in Line0 /\ \A i \in 1..(Len(l) - 1) : l[i] # "nl"
  BY DEF Raw
<1>2. PICK n \in Nat : n = Len(l) /\ DOMAIN l = 1..n
  BY <1>1 DEF Line0
<1>3. PICK c \in 1..n : /\ OpensComment(l, c) /\ \A i \in 1..(c - 1) : ~OpensComment(l, i)
                        /\ w \in Line0 /\ Len(w) = c /\ w[c] = "nl"
                        /\ \A i \in 1..(c - 1) : w[i] = l[i]
  BY <1>2, WithoutCommentIs
<1>4. DOMAIN w = 1..c
  BY <1>3 DEF Line0
<1>5. White = {"sp", "nl"} /\ "#" \notin White /\ l[c] = "#"
  BY <1>3 DEF White, OpensComment
<1>6. PICK p \in Nat : /\ p = Lead(l) /\ p <= n
                       /\ \A i \in 1..p : l[i] \in White
                       /\ p < n => l[p + 1] \notin White
  <2>1. PICK p \in 0..n : p = Lead(l)
    BY <1>1, <1>2, DropWhiteIs
  <2>2. (\A i \in 1..p : l[i] \in White) /\ (p < n => l[p + 1] \notin White)
    BY <1>1, <1>2, <2>1, DropWhiteIs
  <2>3. p \in Nat /\ p <= n
    OBVIOUS
  <2> QED
    BY <2>1, <2>2, <2>3
<1>7. PICK u \in Line0 :
         u = DropWhite(l) /\ Len(u) = n - p /\ \A i \in 1..(n - p) : u[i] = l[p + i]
  BY <1>1, <1>2, <1>6, DroppedIs
<1>8. p < c
  <2>1. c \notin 1..p
    BY <1>5, <1>6
  <2> QED
    BY <2>1
<1>9. p < n /\ l[p + 1] \notin White /\ u # << >> /\ u[1] = l[p + 1]
  <2>1. p < n /\ 1 \in 1..(n - p)
    BY <1>8
  <2>2. u # << >>
    BY <1>7, <2>1, LenIs
  <2> QED
    BY <1>6, <1>7, <2>1, <2>2
<1>10. CASE c = p + 1
  <2>1. u[1] = "#"
    BY <1>5, <1>9, <1>10
  <2>2. trim(l).text = << >>
    BY <1>7, <1>9, <2>1, TrimIs
  <2>3. ~HasText(w)
    <3>1. \A i \in 1..c : i = c \/ (i \in 1..p /\ i \in 1..(c - 1))
      BY <1>10
    <3>2. \A i \in 1..c : w[i] \in White
      BY <1>3, <1>5, <1>6, <3>1
    <3> QED
      BY <1>4, <3>2 DEF HasText
  <2> QED
    BY <2>2, <2>3
<1>11. CASE c # p + 1
  <2>1. p + 1 < c /\ p + 1 \in 1..(c - 1) /\ p + 1 \in 1..n
    BY <1>8, <1>11
  <2>2. HasText(w)
    <3>1. p + 1 \in 1..c /\ w[p + 1] \notin White
      BY <1>3, <1>9, <2>1
    <3> QED
      BY <1>4, <3>1 DEF HasText
  <2>3. l[c - 1] = "sp" /\ c - 1 \in 1..(c - 1)
    <3>1. c - 1 \in 1..(c - 1)
      BY <2>1
    <3> QED
      BY <1>3, <3>1 DEF OpensComment
  <2>4. w \in Cleaned
    <3>1. ASSUME NEW i \in 1..(c - 1) PROVE w[i] # "nl"
      <4>1. i \in 1..(n - 1)
        OBVIOUS
      <4> QED
        BY <1>1, <1>2, <1>3, <4>1
    <3>2. ASSUME NEW i \in 1..c PROVE ~OpensComment(w, i)
      <4>1. CASE i = c
        BY <1>3, <4>1 DEF OpensComment
      <4>2. CASE i # c
        <5>1. i \in 1..(c - 1) /\ (i > 1 => i - 1 \in 1..(c - 1))
              /\ \A j \in 1..(i - 1) : j \in 1..(c - 1)
          BY <4>2
        <5>2. OpensComment(w, i) => OpensComment(l, i)
          BY <1>3, <5>1 DEF OpensComment
        <5> QED
          BY <1>3, <5>1, <5>2
      <4> QED
        BY <4>1, <4>2
    <3> QED
      BY <1>3, <1>4, <2>2, <3>1, <3>2 DEF Cleaned, Raw, Opens
  <2>5. ~Continues(w)
    <3>1. ASSUME NEW i \in 1..c, w[i] = "\\", \A j \in (i + 1)..c : w[j] = "nl" PROVE FALSE
      <4>1. w[c - 1] = "sp"
        BY <1>3, <2>3
      <4>2. i # c /\ i # c - 1
        BY <1>3, <3>1, <4>1
      <4>3. c - 1 \in (i + 1)..c
        BY <4>2
      <4> QED
        BY <3>1, <4>1, <4>3
    <3> QED
      BY <1>3, <1>4, <3>1 DEF Continues
  <2>6. Lead(w) = p
    <3>1. \A i \in 1..p : i \in 1..(c - 1)
      BY <2>1
    <3>2. p \in 0..Len(w) /\ \A i \in 1..p : w[i] \in White
      BY <1>3, <1>6, <2>1, <3>1
    <3>3. w[p + 1] \notin White
      BY <1>3, <1>9, <2>1
    <3> QED
      BY <1>3, <3>2, <3>3, LeadUnique
  <2>7. PICK m \in 1..c : /\ m = LastText(w) /\ w[m] \notin White /\ p < m
                          /\ \A i \in (m + 1)..c : w[i] \in White
    BY <1>3, <2>2, <2>6, TextIs
  <2>8. m \in 1..(c - 1)
    <3>1. m # c
      BY <1>3, <1>5, <2>7
    <3> QED
      BY <3>1
  (* The mark in what is left of the blanks. *)
  <2>9. u[1] # "#" /\ c - p \in CommentMarks(u) /\ \A i \in CommentMarks(u) : c - p <= i
    <3>1. ASSUME NEW i \in 1..(n - p)
          PROVE  OpensComment(l, p + i) <=> (i = 1 /\ u[1] = "#") \/ i \in CommentMarks(u)
      BY <1>2, <1>6, <1>7, MarksAre
    <3>2. ~OpensComment(l, p + 1) /\ 1 \in 1..(n - p)
      BY <1>3, <1>9, <2>1
    <3>3. u[1] # "#"
      BY <3>1, <3>2
    <3>4. c - p \in 1..(n - p) /\ p + (c - p) = c
      BY <2>1
    <3>5. c - p \in CommentMarks(u)
      BY <1>3, <3>1, <3>3, <3>4
    <3>6. ASSUME NEW i \in CommentMarks(u) PROVE c - p <= i
      <4>1. i \in 1..(n - p)
        BY <1>7 DEF CommentMarks
      <4>2. OpensComment(l, p + i)
        BY <3>1, <3>6, <4>1
      <4>3. p + i \notin 1..(c - 1)
        BY <1>3, <4>2
      <4> QED
        BY <4>1, <4>3
    <3> QED
      BY <3>3, <3>5, <3>6
  <2>10. Cut(u) = (c - p) - 1
    <3>1. CommentMarks(u) \subseteq 1..Len(u)
      BY <1>7 DEF CommentMarks
    <3>2. PICK f \in 1..((n - p) + 1) : /\ f = FirstOf(u, CommentMarks(u))
                                        /\ f \in CommentMarks(u)
                                        /\ \A k \in CommentMarks(u) : f <= k
      BY <1>7, <2>9, <3>1, FirstOfIs
    <3>3. f = c - p
      BY <2>9, <3>2
    <3> QED
      BY <3>2, <3>3 DEF Cut
  <2>11. LastKept(u) = m - p
    <3> DEFINE T == {i \in 1..((c - p) - 1) : u[i] \notin White}
    <3>1. m - p \in 1..((c - p) - 1) /\ m - p \in 1..(n - p) /\ p + (m - p) = m
      BY <2>7, <2>8
    <3>2. m - p \in T
      BY <1>3, <1>7, <2>7, <2>8, <3>1
    <3>3. ASSUME NEW k \in T PROVE k <= m - p
      <4>1. k \in 1..(n - p) /\ p + k \in 1..(c - 1) /\ u[k] \notin White
        BY <2>1
      <4>2. p + k \notin (m + 1)..c
        BY <1>3, <1>7, <2>7, <4>1
      <4> QED
        BY <4>1, <4>2
    <3>4. T \subseteq 1..((c - p) - 1) /\ (c - p) - 1 \in Nat /\ T # {}
      BY <2>1, <3>2
    <3> HIDE DEF T
    <3>5. Max({0} \cup T) = Max(T) /\ Max(T) \in T /\ \A k \in T : k <= Max(T)
      BY <3>4, LastIs
    <3>6. PICK x \in 1..((c - p) - 1) : x = Max(T) /\ x <= m - p /\ m - p <= x
      BY <3>2, <3>3, <3>4, <3>5
    <3>7. x = m - p
      BY <3>6
    <3> QED
      BY <2>10, <3>5, <3>6, <3>7 DEF LastKept, T
  <2>12. ~Continued(u) /\ Kept(u) = u
    <3>1. ~Continued(u)
      BY <2>9 DEF Continued
    <3>2. Kept(u) = [i \in 1..Len(u) |-> u[i]]
      BY <3>1 DEF Kept
    <3>3. u = [i \in 1..Len(u) |-> u[i]]
      BY DEF Line0
    <3> QED
      BY <3>1, <3>2, <3>3
  <2>13. trim(l).text = SubSeq(u, 1, m - p) /\ trim(l).multiline = FALSE
    <3>1. trim(l) = [text |-> SubSeq(u, 1, m - p), multiline |-> Continued(u)]
      <4>1. trim(l) = [text |-> SubSeq(Kept(u), 1, LastKept(u)), multiline |-> Continued(u)]
        BY <1>7, <2>9, TrimIs
      <4> QED
        BY <2>11, <2>12, <4>1
    <3>2. Continued(u) = FALSE
      BY <2>12 DEF Continued
    <3> QED
      BY <3>1, <3>2
  <2>14. PICK t \in Line0 :
            t = trim(l).text /\ Len(t) = m - p /\ \A i \in 1..(m - p) : t[i] = l[p + i]
    <3>1. m - p \in Nat /\ m - p <= n - p
      BY <2>7, <2>8
    <3>2. \A i \in 1..(m - p) : i \in 1..(n - p)
      BY <3>1
    <3>3. PICK t : t = SubSeq(u, 1, m - p)
      OBVIOUS
    <3>4. t \in Line0 /\ Len(t) = m - p /\ \A i \in 1..(m - p) : t[i] = u[i]
      BY <1>7, <3>1, <3>3, PrefixIs
    <3> QED
      BY <1>7, <2>13, <3>2, <3>3, <3>4
  <2>15. PICK v \in Line0 :
            v = trim(w).text /\ Len(v) = m - p /\ \A i \in 1..(m - p) : v[i] = Stem(w)[p + i]
    <3>1. PICK v : v = trim(w).text
      OBVIOUS
    <3>2. /\ v \in Line0 /\ Len(v) = LastText(w) - Lead(w)
          /\ \A i \in 1..(LastText(w) - Lead(w)) : v[i] = Stem(w)[Lead(w) + i]
      BY <2>4, <3>1, TrimClean
    <3> QED
      BY <2>6, <2>7, <3>1, <3>2
  <2>16. ASSUME NEW i \in 1..(m - p) PROVE t[i] = v[i]
    <3>1. p + i \in 1..m /\ p + i \in 1..(c - 1)
      BY <2>8
    <3>2. Backslashes(w) = {}
      BY <2>4, <2>5, BackslashesAre DEF Cleaned, Raw
    <3>3. Stem(w)[p + i] = w[p + i]
      BY <2>4, <2>7, <3>1, <3>2, StemIs DEF Cleaned
    <3> QED
      BY <1>3, <2>14, <2>15, <3>1, <3>3
  <2>17. t = v
    BY <2>14, <2>15, <2>16, LinesEqual
  <2>18. trim(w).multiline = FALSE
    BY <2>4, <2>5, TrimClean DEF Continues
  <2> QED
    BY <2>2, <2>4, <2>13, <2>14, <2>15, <2>17, <2>18
<1> QED
  BY <1>10, <1>11

----------------------------------------------------------------------------
(* What the reader is *)

Reader == [line : Line0, isMultiline : BOOLEAN, crashed : BOOLEAN,
           conf : [port : Int, led : Int, starfrit : BOOLEAN, starfrit_args : Line0]]

LEMMA TrimType ==
    ASSUME NEW s \in Line0
    PROVE  trim(s).text \in Line0 /\ trim(s).multiline \in BOOLEAN
<1>1. PICK u \in Line0 : u = DropWhite(s)
  BY DropWhiteIs
<1>2. PICK n \in Nat : n = Len(u)
  BY LenIs
<1>3. Kept(u) \in Line0 /\ Len(Kept(u)) = n
  <2>1. \A i \in 1..n : u[i] \in Tokens /\ "sp" \in Tokens
    BY <1>2, ConfAssumption DEF Line0
  <2> QED
    BY <1>2, <2>1 DEF Kept, Line0
<1>4. LastKept(u) \in 0..n
  <2>1. Cut(u) \in 0..n
    <3>1. CommentMarks(u) \subseteq 1..Len(u)
      BY <1>2 DEF CommentMarks
    <3>2. FirstOf(u, CommentMarks(u)) \in 1..(n + 1)
      BY <1>2, <3>1, FirstOfIs
    <3> QED
      BY <3>2 DEF Cut
  <2> DEFINE T == {i \in 1..Cut(u) : u[i] \notin White}
  <2>2. T \subseteq 1..n
    BY <2>1
  <2> HIDE DEF T
  <2>3. Max({0} \cup T) = 0 \/ Max({0} \cup T) \in T
    BY <2>2, LastIs
  <2> QED
    BY <2>2, <2>3 DEF LastKept, T
<1>5. PICK t \in Line0 : t = SubSeq(Kept(u), 1, LastKept(u))
  <2>1. LastKept(u) \in Nat /\ LastKept(u) <= Len(Kept(u))
    BY <1>3, <1>4
  <2> QED
    BY <1>3, <2>1, PrefixIs
<1>6. << >> \in Line0 /\ Continued(u) \in BOOLEAN
  BY EmptySeq DEF Line0, Continued
<1>7. PICK v : v = trim(s)
  OBVIOUS
<1>8. v = [text |-> << >>, multiline |-> FALSE] \/ v = [text |-> t, multiline |-> Continued(u)]
  BY <1>1, <1>5, <1>7, TrimIs
<1>9. v.text = << >> \/ v.text = t
  BY <1>8
<1>10. v.multiline \in BOOLEAN
  <2>1. [text |-> << >>, multiline |-> FALSE].multiline = FALSE
    OBVIOUS
  <2>2. [text |-> t, multiline |-> Continued(u)].multiline = Continued(u)
    OBVIOUS
  <2> QED
    BY <1>6, <1>8, <2>1, <2>2, Zenon
<1> QED
  BY <1>5, <1>6, <1>7, <1>9, <1>10

(* The words of a line: where the first ends. *)
Gap(u) == FirstOf(u, {i \in 1..Len(u) : u[i] = "sp"})

LEMMA SplitIs ==
    ASSUME NEW s \in Line0, NEW u, u = DropWhite(s)
    PROVE  /\ u \in Line0 /\ Gap(u) \in 1..(Len(u) + 1)
           /\ Gap(u) <= Len(u) => u[Gap(u)] = "sp"
           /\ \A i \in 1..(Gap(u) - 1) : u[i] # "sp"
           /\ splitKey(s).key = SubSeq(u, 1, Gap(u) - 1)
           /\ splitKey(s).args = DropWhite(SubSeq(u, Gap(u), Len(u)))
           /\ splitKey(s).key \in Line0 /\ splitKey(s).args \in Line0
<1>1. PICK n \in Nat : n = Len(u) /\ u \in Line0
  BY DropWhiteIs, LenIs
<1> DEFINE S == {i \in 1..Len(u) : u[i] = "sp"}
<1>2. S \subseteq 1..Len(u)
  OBVIOUS
<1>3. PICK g \in 1..(n + 1) : /\ g = Gap(u) /\ (g \in S \/ g = n + 1)
                              /\ \A k \in 1..(g - 1) : k \notin S
  BY <1>1, <1>2, FirstOfIs DEF Gap
<1>4. (g <= n => u[g] = "sp") /\ \A i \in 1..(g - 1) : u[i] # "sp"
  <2>1. \A i \in 1..(g - 1) : i \in 1..n
    OBVIOUS
  <2> QED
    BY <1>1, <1>3, <2>1
<1>5. /\ splitKey(s).key = SubSeq(u, 1, g - 1)
      /\ splitKey(s).args = DropWhite(SubSeq(u, g, n))
  <2>1. splitKey(s) = [key |-> SubSeq(u, 1, Gap(u) - 1),
                       args |-> DropWhite(SubSeq(u, Gap(u), Len(u)))]
    BY Zenon DEF splitKey, Gap
  <2> QED
    BY <1>1, <1>3, <2>1
<1>6. SubSeq(u, 1, g - 1) \in Line0 /\ SubSeq(u, g, n) \in Line0
  <2>1. g - 1 \in Nat /\ g - 1 <= n /\ n <= n /\ (g - 1) + 1 = g
    OBVIOUS
  <2>2. SubSeq(u, 1, g - 1) \in Line0
    BY <1>1, <2>1, PrefixIs
  <2>3. SubSeq(u, (g - 1) + 1, n) \in Line0
    BY <1>1, <2>1, SubIs
  <2> QED
    BY <2>1, <2>2, <2>3
<1>7. DropWhite(SubSeq(u, g, n)) \in Line0
  BY <1>6, DropWhiteIs
<1> QED
  BY <1>1, <1>3, <1>4, <1>5, <1>6, <1>7

LEMMA ArgsIs ==
    ASSUME NEW a \in Line0, a # << >>
    PROVE  a[1] \in Tokens /\ NumberOf[a[1]] \in Int
<1>1. Len(a) \in Nat /\ Len(a) # 0
  BY LenIs
<1>2. 1 \in 1..Len(a)
  BY <1>1
<1>3. a[1] \in Tokens
  BY <1>2 DEF Line0
<1> QED
  BY <1>3, ConfAssumption

LEMMA AssignType ==
    ASSUME NEW r \in Reader, NEW key, NEW args \in Line0
    PROVE  Assign(r, key, args) \in Reader
<1>1. args # << >> => NumberOf[args[1]] \in Int
  BY ArgsIs
<1>2. ASSUME key \in Keys
      PROVE  key = <<"port">> \/ key = <<"led">> \/ key = <<"starfrit">> \/ key = <<"starfrit_url">>
  BY <1>2 DEF Keys
<1>3. (args = <<"ON">>) \in BOOLEAN
  OBVIOUS
<1>4. CASE key \notin Keys
  BY <1>4 DEF Assign
<1>5. CASE key \in Keys /\ args = << >>
  BY <1>5 DEF Assign, Reader
<1>6. CASE key \in Keys /\ args # << >>
  BY <1>1, <1>2, <1>3, <1>6 DEF Assign, Reader
<1> QED
  BY <1>4, <1>5, <1>6

LEMMA LineType ==
    ASSUME NEW r \in Reader, NEW s \in Line0
    PROVE  Line(r, s) \in Reader
<1>1. PICK t : t = trim(s)
  OBVIOUS
<1>2. t.text \in Line0 /\ t.multiline \in BOOLEAN
  BY <1>1, TrimType
<1>3. Whole(r, t.text) \in Line0
  BY <1>2, CatIs DEF Whole, Reader
<1>4. PICK read : read = [r EXCEPT !.line = Whole(r, t.text), !.isMultiline = t.multiline]
  OBVIOUS
<1>5. read \in Reader /\ read.line \in Line0
  BY <1>2, <1>3, <1>4 DEF Reader
<1>6. splitKey(read.line).args \in Line0
  BY <1>5, SplitIs
<1>7. Assign(read, splitKey(read.line).key, splitKey(read.line).args) \in Reader
  BY <1>5, <1>6, AssignType
<1>8. Line(r, s) \in {r, read, Assign(read, splitKey(read.line).key, splitKey(read.line).args)}
  BY <1>1, <1>4 DEF Line
<1> QED
  BY <1>5, <1>7, <1>8

LEMMA Reader0Type == Reader0 \in Reader
<1>1. << >> \in Line0
  BY EmptySeq DEF Line0
<1> QED
  BY <1>1 DEF Reader0, Conf0, Reader

(* A turn of the loop depends on what trim() makes of the line. *)
Turn(r, text, multiline) ==
    LET read == [r EXCEPT !.line = Whole(r, text), !.isMultiline = multiline]
    IN IF r.crashed \/ text = << >> THEN r
       ELSE IF multiline THEN read
       ELSE Assign(read, splitKey(read.line).key, splitKey(read.line).args)

LEMMA LineIs == \A r, s : Line(r, s) = Turn(r, trim(s).text, trim(s).multiline)
BY Zenon DEF Line, Turn

(* A line reads like the line without its comment. *)
LEMMA CleanSameLine ==
    ASSUME NEW r, NEW l \in Raw
    PROVE  /\ HasText(WithoutComment(l)) => /\ WithoutComment(l) \in Cleaned
                                            /\ Line(r, l) = Line(r, WithoutComment(l))
           /\ ~HasText(WithoutComment(l)) => Line(r, l) = r
<1>1. PICK w : w = WithoutComment(l)
  OBVIOUS
<1>2. CASE ~Opens(l)
  <2>1. w = l
    BY <1>1, <1>2 DEF WithoutComment, Opens
  <2>2. ~HasText(l) => trim(l).text = << >>
    BY TrimBlank DEF Raw
  <2>3. HasText(l) => l \in Cleaned
    BY <1>2 DEF Cleaned
  <2>4. ~HasText(l) => Line(r, l) = r
    BY <2>2, LineIs DEF Turn
  <2> QED
    BY <1>1, <2>1, <2>3, <2>4
<1>3. CASE Opens(l)
  <2>1. /\ HasText(w) => /\ w \in Cleaned
                         /\ trim(w).text = trim(l).text /\ trim(w).multiline = trim(l).multiline
        /\ ~HasText(w) => trim(l).text = << >>
    BY <1>1, <1>3, TrimCommented
  <2>2. HasText(w) => Line(r, l) = Line(r, w)
    BY <2>1, LineIs
  <2>3. ~HasText(w) => Line(r, l) = r
    BY <2>1, LineIs DEF Turn
  <2> QED
    BY <1>1, <2>1, <2>2, <2>3
<1> QED
  BY <1>2, <1>3

----------------------------------------------------------------------------
(* The folds: what is read of some lines, and what is left of them *)

(* Each fold takes the steps of its operator. *)
Steps(A, E, Op(_, _)) == [x \in A \X E |-> Op(x[1], x[2])]

LEMMA ReadAllFolds ==
    ASSUME NEW f \in Seq(Line0)
    PROVE  FoldsTo(Reader, Reader0, Steps(Reader, Line0, Line), f, ReadAll(f))
<1> DEFINE step == Steps(Reader, Line0, Line)
           I == SUBSET (1..Len(f))
           iter == CHOOSE g : g = [s \in SUBSET DOMAIN f |->
                      IF s = {} THEN Reader0 ELSE Line(g[s \ {Max(s)}], f[Max(s)])]
<1>1. step \in [Reader \X Line0 -> Reader] /\ \A r \in Reader : \A l \in Line0 : step[<<r, l>>] = Line(r, l)
  BY LineType DEF Steps
<1>2. DOMAIN f = 1..Len(f) /\ Len(f) \in Nat
  OBVIOUS
<1>3. ReadAll(f) = iter[DOMAIN f]
  BY DEF ReadAll, FoldLeft, MapThenFoldSet
<1> HIDE DEF step, iter
<1>4. PICK g \in [I -> Reader] : \A s \in I :
         g[s] = IF s = {} THEN Reader0 ELSE step[<<g[s \ {Max(s)}], f[Max(s)]>>]
  <2>1. HasFold(Reader, Line0, Reader0, step, f)
    BY <1>1, Reader0Type, FoldExists
  <2> QED
    BY <2>1 DEF HasFold
<1>5. \A s \in I : s # {} => Max(s) \in s /\ (s \ {Max(s)}) \in I /\ f[Max(s)] \in Line0
  <2>1. \A k \in 1..Len(f) : f[k] \in Line0
    OBVIOUS
  <2> QED
    BY <1>2, <2>1, GreatestExists
<1>6. iter = [s \in I |-> IF s = {} THEN Reader0 ELSE Line(iter[s \ {Max(s)}], f[Max(s)])]
  <2>1. g = [s \in I |-> IF s = {} THEN Reader0 ELSE Line(g[s \ {Max(s)}], f[Max(s)])]
    BY <1>1, <1>4, <1>5
  <2> QED
    BY <1>2, <2>1 DEF iter
<1>7. iter[{}] = Reader0
  BY <1>6
<1>8. ASSUME NEW s \in I, s # {}, iter[s \ {Max(s)}] \in Reader
      PROVE  iter[s] = step[<<iter[s \ {Max(s)}], f[Max(s)]>>]
  BY <1>1, <1>5, <1>6, <1>8
<1>9. FoldsTo(Reader, Reader0, step, f, iter[DOMAIN f])
  <2> HIDE DEF I
  <2>1. \A s \in SUBSET (1..Len(f)) : s # {} /\ iter[s \ {Max(s)}] \in Reader =>
           iter[s] = step[<<iter[s \ {Max(s)}], f[Max(s)]>>]
    BY <1>8 DEF I
  <2> QED
    BY <1>1, <1>7, <2>1, Reader0Type, IterFolds
<1> QED
  BY <1>3, <1>9 DEF step

LEMMA CleanType ==
    ASSUME NEW lines \in Seq(Cleaned), NEW l \in Raw
    PROVE  Clean(lines, l) \in Seq(Cleaned)
<1>1. HasText(WithoutComment(l)) => WithoutComment(l) \in Cleaned
  BY CleanSameLine
<1> QED
  BY <1>1 DEF Clean

LEMMA CleanFolds ==
    ASSUME NEW f \in Seq(Raw)
    PROVE  FoldsTo(Seq(Cleaned), << >>, Steps(Seq(Cleaned), Raw, Clean), f, FoldLeft(Clean, << >>, f))
<1> DEFINE step == Steps(Seq(Cleaned), Raw, Clean)
           I == SUBSET (1..Len(f))
           iter == CHOOSE g : g = [s \in SUBSET DOMAIN f |->
                      IF s = {} THEN << >> ELSE Clean(g[s \ {Max(s)}], f[Max(s)])]
<1>1. step \in [Seq(Cleaned) \X Raw -> Seq(Cleaned)]
      /\ \A r \in Seq(Cleaned) : \A l \in Raw : step[<<r, l>>] = Clean(r, l)
  BY CleanType DEF Steps
<1>2. DOMAIN f = 1..Len(f) /\ Len(f) \in Nat
  OBVIOUS
<1>3. FoldLeft(Clean, << >>, f) = iter[DOMAIN f]
  BY DEF FoldLeft, MapThenFoldSet
<1>10. << >> \in Seq(Cleaned)
  BY EmptySeq
<1> HIDE DEF step, iter
<1>4. PICK g \in [I -> Seq(Cleaned)] : \A s \in I :
         g[s] = IF s = {} THEN << >> ELSE step[<<g[s \ {Max(s)}], f[Max(s)]>>]
  <2>1. HasFold(Seq(Cleaned), Raw, << >>, step, f)
    BY <1>1, <1>10, FoldExists
  <2> QED
    BY <2>1 DEF HasFold
<1>5. \A s \in I : s # {} => Max(s) \in s /\ (s \ {Max(s)}) \in I /\ f[Max(s)] \in Raw
  <2>1. \A k \in 1..Len(f) : f[k] \in Raw
    OBVIOUS
  <2> QED
    BY <1>2, <2>1, GreatestExists
<1>6. iter = [s \in I |-> IF s = {} THEN << >> ELSE Clean(iter[s \ {Max(s)}], f[Max(s)])]
  <2>1. g = [s \in I |-> IF s = {} THEN << >> ELSE Clean(g[s \ {Max(s)}], f[Max(s)])]
    BY <1>1, <1>4, <1>5
  <2> QED
    BY <1>2, <2>1 DEF iter
<1>7. iter[{}] = << >>
  BY <1>6
<1>8. ASSUME NEW s \in I, s # {}, iter[s \ {Max(s)}] \in Seq(Cleaned)
      PROVE  iter[s] = step[<<iter[s \ {Max(s)}], f[Max(s)]>>]
  BY <1>1, <1>5, <1>6, <1>8
<1>9. FoldsTo(Seq(Cleaned), << >>, step, f, iter[DOMAIN f])
  <2> HIDE DEF I
  <2>1. \A s \in SUBSET (1..Len(f)) : s # {} /\ iter[s \ {Max(s)}] \in Seq(Cleaned) =>
           iter[s] = step[<<iter[s \ {Max(s)}], f[Max(s)]>>]
    BY <1>8 DEF I
  <2> QED
    BY <1>1, <1>7, <1>10, <2>1, IterFolds
<1> QED
  BY <1>3, <1>9 DEF step

(* The empty file, and one line more. *)
LEMMA ReadAllAppend ==
    /\ ReadAll(<< >>) = Reader0
    /\ \A f \in Seq(Line0) : /\ ReadAll(f) \in Reader
                             /\ \A l \in Line0 : ReadAll(Append(f, l)) = Line(ReadAll(f), l)
<1>1. ReadAll(<< >>) = Reader0
  <2>1. << >> \in Seq(Line0)
    BY EmptySeq
  <2> QED
    BY <2>1, ReadAllFolds, FoldsToEmpty
<1>2. ASSUME NEW f \in Seq(Line0)
      PROVE  /\ ReadAll(f) \in Reader
             /\ \A l \in Line0 : ReadAll(Append(f, l)) = Line(ReadAll(f), l)
  <2>1. ReadAll(f) \in Reader
    BY ReadAllFolds, FoldsToType
  <2>2. ASSUME NEW l \in Line0 PROVE ReadAll(Append(f, l)) = Line(ReadAll(f), l)
    <3>1. Append(f, l) \in Seq(Line0)
      OBVIOUS
    <3>2. ReadAll(Append(f, l)) = Steps(Reader, Line0, Line)[<<ReadAll(f), l>>]
      <4> DEFINE step == Steps(Reader, Line0, Line)
      <4>1. /\ FoldsTo(Reader, Reader0, step, f, ReadAll(f))
            /\ FoldsTo(Reader, Reader0, step, Append(f, l), ReadAll(Append(f, l)))
        BY <3>1, ReadAllFolds
      <4> HIDE DEF step
      <4> QED
        BY <4>1, FoldsToAppend DEF step
    <3> QED
      BY <2>1, <3>2 DEF Steps
  <2> QED
    BY <2>1, <2>2
<1> QED
  BY <1>1, <1>2

LEMMA CleanAppend ==
    /\ FoldLeft(Clean, << >>, << >>) = << >>
    /\ \A f \in Seq(Raw) : /\ FoldLeft(Clean, << >>, f) \in Seq(Cleaned)
                           /\ \A l \in Raw : FoldLeft(Clean, << >>, Append(f, l))
                                             = Clean(FoldLeft(Clean, << >>, f), l)
<1> DEFINE U(f) == FoldLeft(Clean, << >>, f)
           step == Steps(Seq(Cleaned), Raw, Clean)
<1>3. \A f \in Seq(Raw) : FoldsTo(Seq(Cleaned), << >>, step, f, U(f))
  BY CleanFolds
<1> HIDE DEF U, step
<1>1. U(<< >>) = << >>
  <2>1. << >> \in Seq(Raw)
    BY EmptySeq
  <2> QED
    BY <1>3, <2>1, FoldsToEmpty
<1>2. ASSUME NEW f \in Seq(Raw)
      PROVE  U(f) \in Seq(Cleaned) /\ \A l \in Raw : U(Append(f, l)) = Clean(U(f), l)
  <2>1. U(f) \in Seq(Cleaned)
    BY <1>3, FoldsToType
  <2>2. ASSUME NEW l \in Raw PROVE U(Append(f, l)) = Clean(U(f), l)
    <3>1. Append(f, l) \in Seq(Raw)
      OBVIOUS
    <3>2. U(Append(f, l)) = step[<<U(f), l>>]
      <4>1. /\ FoldsTo(Seq(Cleaned), << >>, step, f, U(f))
            /\ FoldsTo(Seq(Cleaned), << >>, step, Append(f, l), U(Append(f, l)))
        BY <1>3, <3>1
      <4> QED
        BY <4>1, FoldsToAppend
    <3> QED
      BY <2>1, <3>2 DEF step, Steps
  <2> QED
    BY <2>1, <2>2
<1> QED
  BY <1>1, <1>2 DEF U

----------------------------------------------------------------------------
(* Comments mean nothing *)

LEMMA FirstLines ==
    ASSUME NEW E, NEW f \in Seq(E)
    PROVE  /\ SubSeq(f, 1, 0) = << >> /\ SubSeq(f, 1, Len(f)) = f
           /\ \A k \in 0..Len(f) : SubSeq(f, 1, k) \in Seq(E)
           /\ \A k \in 1..Len(f) : f[k] \in E /\ SubSeq(f, 1, k) = Append(SubSeq(f, 1, k - 1), f[k])
<1>1. PICK n \in Nat : n = Len(f)
  OBVIOUS
<1>2. SubSeq(f, 1, 0) = << >> /\ SubSeq(f, 1, n) = f
  BY <1>1, SubSeqEmpty, SubSeqFull
<1>3. ASSUME NEW k \in 0..n
      PROVE  /\ SubSeq(f, 1, k) \in Seq(E) /\ Len(SubSeq(f, 1, k)) = k
             /\ \A i \in 1..k : SubSeq(f, 1, k)[i] = f[i]
  BY <1>1
<1>4. ASSUME NEW k \in 1..n PROVE f[k] \in E /\ SubSeq(f, 1, k) = Append(SubSeq(f, 1, k - 1), f[k])
  <2>1. k \in 0..n /\ k - 1 \in 0..n /\ f[k] \in E /\ (k - 1) + 1 = k
    BY <1>1
  <2>2. PICK a \in Seq(E) : a = SubSeq(f, 1, k) /\ Len(a) = k /\ \A i \in 1..k : a[i] = f[i]
    BY <1>3, <2>1
  <2>3. PICK b \in Seq(E) : /\ b = SubSeq(f, 1, k - 1) /\ Len(b) = k - 1
                            /\ \A i \in 1..(k - 1) : b[i] = f[i]
    BY <1>3, <2>1
  <2>8. Append(b, f[k]) \in Seq(E)
    BY <2>1, AppendProperties
  <2>4. PICK c \in Seq(E) : c = Append(b, f[k])
    BY <2>8
  <2>5. Len(c) = k /\ c[k] = f[k] /\ \A i \in 1..(k - 1) : c[i] = b[i]
    BY <2>1, <2>3, <2>4
  <2>6. ASSUME NEW i \in 1..k PROVE a[i] = c[i]
    <3>1. i = k \/ i \in 1..(k - 1)
      OBVIOUS
    <3> QED
      BY <2>2, <2>3, <2>5, <3>1
  <2>7. a = c
    BY <2>2, <2>5, <2>6, SeqEqual
  <2> QED
    BY <2>1, <2>2, <2>3, <2>4, <2>7
<1> QED
  BY <1>1, <1>2, <1>3, <1>4

LEMMA SeqMono ==
    ASSUME NEW A, NEW B, A \subseteq B
    PROVE  Seq(A) \subseteq Seq(B)
OBVIOUS

LEMMA LinesAre == Cleaned \subseteq Raw /\ Raw \subseteq Line0
BY DEF Cleaned, Raw

(* The lines without their comments read like the lines.                   *)
LEMMA ReadCleaned ==
    ASSUME NEW f \in Seq(Raw)
    PROVE  ReadAll(f) = ReadAll(FoldLeft(Clean, << >>, f))
<1> DEFINE U(x) == FoldLeft(Clean, << >>, x)
<1>1. U(<< >>) = << >> /\ \A x \in Seq(Raw) : /\ U(x) \in Seq(Cleaned)
                                              /\ \A l \in Raw : U(Append(x, l)) = Clean(U(x), l)
  BY CleanAppend
<1> HIDE DEF U
<1> DEFINE S == {k \in 0..Len(f) : ReadAll(SubSeq(f, 1, k)) = ReadAll(U(SubSeq(f, 1, k)))}
<1>2. Seq(Raw) \subseteq Seq(Line0) /\ Seq(Cleaned) \subseteq Seq(Line0)
  <2>1. Cleaned \subseteq Line0
    BY LinesAre
  <2> QED
    BY <2>1, LinesAre, SeqMono
<1>3. 0 \in S
  <2>1. SubSeq(f, 1, 0) = << >>
    BY FirstLines
  <2>2. 0 \in 0..Len(f)
    OBVIOUS
  <2> QED
    BY <1>1, <2>1, <2>2
<1>4. ASSUME NEW k \in 1..Len(f), k - 1 \in S PROVE k \in S
  <2>1. k - 1 \in 0..Len(f) /\ k \in 0..Len(f)
    OBVIOUS
  <2>2. PICK x \in Seq(Raw) : x = SubSeq(f, 1, k - 1)
    BY <2>1, FirstLines
  <2>3. PICK l \in Raw : l = f[k] /\ SubSeq(f, 1, k) = Append(x, l)
    BY <2>2, FirstLines
  <2>4. PICK u \in Seq(Cleaned) : u = U(x)
    BY <1>1
  <2>5. ReadAll(x) = ReadAll(u) /\ ReadAll(u) \in Reader
    BY <1>2, <1>4, <2>2, <2>4, ReadAllAppend
  <2>6. ReadAll(Append(x, l)) = Line(ReadAll(u), l)
    BY <1>2, <2>5, LinesAre, ReadAllAppend
  <2>7. U(Append(x, l)) = Clean(u, l)
    BY <1>1, <2>4
  <2> DEFINE w == WithoutComment(l)
  <2>8. CASE HasText(w)
    <3>1. w \in Cleaned /\ w \in Line0 /\ Line(ReadAll(u), l) = Line(ReadAll(u), w)
      BY <2>8, CleanSameLine, LinesAre
    <3>2. Clean(u, l) = Append(u, w)
      BY <2>8 DEF Clean
    <3>3. ReadAll(Append(u, w)) = Line(ReadAll(u), w)
      BY <1>2, <3>1, ReadAllAppend
    <3> QED
      BY <2>1, <2>3, <2>6, <2>7, <3>1, <3>2, <3>3
  <2>9. CASE ~HasText(w)
    <3>1. Line(ReadAll(u), l) = ReadAll(u)
      BY <2>9, CleanSameLine
    <3>2. Clean(u, l) = u
      BY <2>9 DEF Clean
    <3> QED
      BY <2>1, <2>3, <2>6, <2>7, <3>1, <3>2
  <2> QED
    BY <2>8, <2>9
<1>5. Len(f) \in S
  <2> HIDE DEF S
  <2>1. Len(f) \in Nat
    OBVIOUS
  <2>2. 0..Len(f) \subseteq S
    BY <1>3, <1>4, <2>1, IntervalInduction
  <2>3. Len(f) \in 0..Len(f)
    BY <2>1
  <2> QED
    BY <2>2, <2>3
<1>6. SubSeq(f, 1, Len(f)) = f
  BY FirstLines
<1> QED
  BY <1>5, <1>6 DEF U

(* What was read is what the lines up to here make, if fgets() cuts none. *)
AllFit == \A k \in DOMAIN file : Len(file[k]) <= LineMax
ReadSoFar ==
    /\ file \in Files
    /\ AllFit => \E k \in 0..Len(file) : /\ rest = SubSeq(file, k + 1, Len(file))
                                         /\ reader = ReadAll(SubSeq(file, 1, k))

LEMMA FilesAre == \A f \in Files : f \in Seq(Raw)
<1> SUFFICES ASSUME NEW f \in Files PROVE f \in Seq(Raw)
  OBVIOUS
<1>1. f \in Seq(Line0) /\ \A k \in DOMAIN f : \A i \in 1..(Len(f[k]) - 1) : f[k][i] # "nl"
  BY ConfAssumption DEF Line0
<1>2. DOMAIN f = 1..Len(f) /\ \A k \in 1..Len(f) : f[k] \in Line0
  BY <1>1
<1>3. \A k \in 1..Len(f) : f[k] \in Raw
  BY <1>1, <1>2 DEF Raw
<1> QED
  BY <1>1, <1>2, <1>3

(* A line that fits is read as it is. *)
LEMMA ReadStep ==
    ASSUME NEW f \in Seq(Raw), NEW k \in 0..Len(f), NEW lines, lines = SubSeq(f, k + 1, Len(f)),
           lines # << >>, \A i \in DOMAIN f : Len(f[i]) <= LineMax
    PROVE  /\ k + 1 \in 1..Len(f) /\ fgets(lines) = f[k + 1]
           /\ Remaining(lines) = SubSeq(f, (k + 1) + 1, Len(f))
<1>1. PICK n \in Nat : n = Len(f) /\ DOMAIN f = 1..n /\ \A i \in 1..n : f[i] \in Raw
  OBVIOUS
<1>2. k < n
  <2> SUFFICES ASSUME k = n PROVE FALSE
    BY <1>1
  <2>1. SubSeq(f, n + 1, n) = << >>
    BY <1>1, SubSeqEmpty
  <2> QED
    BY <1>1, <2>1
<1>3. /\ lines \in Seq(Raw) /\ Len(lines) = n - k
      /\ \A i \in 1..(n - k) : lines[i] = f[k + i]
  BY <1>1, <1>2
<1>4. PICK l \in Raw : l = f[k + 1] /\ Len(l) <= LineMax /\ l \in Line0
  BY <1>1, <1>2, LinesAre
<1>5. Head(lines) = l
  BY <1>2, <1>3, <1>4
<1>6. PICK m \in Nat : m = Len(l)
  BY <1>4, LenIs
<1>7. fgets(lines) = l
  <2>1. Min({LineMax, m}) = m
    BY <1>4, <1>6, ConfAssumption DEF Min
  <2>2. SubSeq(l, 1, m) = l
    BY <1>4, <1>6, SubSeqFull DEF Line0
  <2> QED
    BY <1>5, <1>6, <2>1, <2>2 DEF fgets
<1>8. Remaining(lines) = Tail(lines)
  BY <1>4, <1>5 DEF Remaining
<1>9. Tail(lines) = SubSeq(f, (k + 1) + 1, n)
  <2>1. PICK a : a = Tail(lines)
    OBVIOUS
  <2>2. PICK b : b = SubSeq(f, (k + 1) + 1, n)
    OBVIOUS
  <2>5. PICK m2 \in Nat : m2 = (n - k) - 1
    BY <1>2
  <2>6. a \in Seq(Raw) /\ Len(a) = m2 /\ \A i \in 1..m2 : a[i] = lines[i + 1]
    <3>1. lines # << >>
      OBVIOUS
    <3> QED
      BY <1>2, <1>3, <2>1, <2>5, <3>1
  <2>7. b \in Seq(Raw) /\ Len(b) = m2 /\ \A i \in 1..m2 : b[i] = f[(k + 1) + i]
    BY <1>1, <1>2, <2>2, <2>5
  <2>3. ASSUME NEW i \in 1..m2 PROVE a[i] = b[i]
    <3>1. i + 1 \in 1..(n - k) /\ k + (i + 1) = (k + 1) + i
      BY <2>5
    <3> QED
      BY <1>3, <2>6, <2>7, <3>1
  <2>4. a = b
    BY <2>3, <2>6, <2>7, SeqEqual
  <2> QED
    BY <2>1, <2>2, <2>4
<1>10. k + 1 \in 1..n
  BY <1>2
<1> QED
  BY <1>1, <1>4, <1>7, <1>8, <1>9, <1>10

(* readconf() has made of the lines that are behind it what they mean.     *)
THEOREM ReadsInOrder == Spec => []ReadSoFar
<1>1. Init => ReadSoFar
  <2> SUFFICES ASSUME Init PROVE ReadSoFar
    OBVIOUS
  <2>1. file \in Seq(Raw) /\ file \in Files /\ rest = file /\ reader = Reader0
    BY FilesAre DEF Init
  <2>2. SubSeq(file, 1, 0) = << >> /\ SubSeq(file, 0 + 1, Len(file)) = file /\ 0 \in 0..Len(file)
    BY <2>1, FirstLines
  <2> QED
    BY <2>1, <2>2, ReadAllAppend DEF ReadSoFar
<1>2. ReadSoFar /\ [Next]_vars => ReadSoFar'
  <2> SUFFICES ASSUME ReadSoFar, [Next]_vars PROVE ReadSoFar'
    OBVIOUS
  <2>1. CASE UNCHANGED vars
    BY <2>1 DEF ReadSoFar, AllFit, vars
  <2>2. CASE readconf
    <3>1. file' = file /\ file \in Seq(Raw) /\ file \in Files /\ rest # << >>
      BY <2>2, FilesAre DEF readconf, ReadSoFar
    <3>2. ASSUME AllFit
          PROVE  \E k \in 0..Len(file) : /\ rest' = SubSeq(file, k + 1, Len(file))
                                         /\ reader' = ReadAll(SubSeq(file, 1, k))
      <4>1. PICK k \in 0..Len(file) : /\ rest = SubSeq(file, k + 1, Len(file))
                                      /\ reader = ReadAll(SubSeq(file, 1, k))
        BY <3>2 DEF ReadSoFar
      <4>2. /\ k + 1 \in 1..Len(file) /\ fgets(rest) = file[k + 1]
            /\ Remaining(rest) = SubSeq(file, (k + 1) + 1, Len(file))
        <5>1. \A i \in DOMAIN file : Len(file[i]) <= LineMax
          BY <3>2 DEF AllFit
        <5>2. rest # << >> /\ file \in Seq(Raw)
          BY <3>1
        <5>3. PICK f \in Seq(Raw) : f = file
          BY <5>2
        <5>4. PICK lines : lines = rest
          OBVIOUS
        <5>5. k \in 0..Len(f) /\ lines = SubSeq(f, k + 1, Len(f)) /\ lines # << >>
          BY <4>1, <5>2, <5>3, <5>4
        <5>6. \A i \in DOMAIN f : Len(f[i]) <= LineMax
          BY <5>1, <5>3
        <5>7. fgets(lines) = f[k + 1]
          BY <5>5, <5>6, ReadStep
        <5>8. Remaining(lines) = SubSeq(f, (k + 1) + 1, Len(f))
          BY <5>5, <5>6, ReadStep, Zenon
        <5>9. k + 1 \in 1..Len(f)
          BY <5>5, <5>6, ReadStep
        <5> QED
          BY <5>3, <5>4, <5>7, <5>8, <5>9
      <4>3. PICK x \in Seq(Raw) : x = SubSeq(file, 1, k)
        BY <3>1, FirstLines
      <4>4. PICK l \in Raw : l = file[k + 1] /\ SubSeq(file, 1, k + 1) = Append(x, l)
        <5>1. (k + 1) - 1 = k
          OBVIOUS
        <5> QED
          BY <3>1, <4>2, <4>3, <5>1, FirstLines
      <4>5. ReadAll(Append(x, l)) = Line(ReadAll(x), l)
        <5>1. x \in Seq(Line0) /\ l \in Line0
          BY LinesAre, SeqMono
        <5> QED
          BY <5>1, ReadAllAppend
      <4>6. reader' = Line(reader, fgets(rest)) /\ rest' = Remaining(rest)
        BY <2>2 DEF readconf
      <4>7. k + 1 \in 0..Len(file)
        BY <4>2
      <4> QED
        BY <4>1, <4>2, <4>3, <4>4, <4>5, <4>6, <4>7
    <3> QED
      BY <3>1, <3>2 DEF ReadSoFar, AllFit
  <2> QED
    BY <2>1, <2>2 DEF Next
<1> QED
  BY <1>1, <1>2, PTL DEF Spec

LEMMA ReadToItsEnd == ReadSoFar /\ ReadWhole => file \in Seq(Raw) /\ reader = ReadAll(file)
<1> SUFFICES ASSUME ReadSoFar, ReadWhole PROVE file \in Seq(Raw) /\ reader = ReadAll(file)
  OBVIOUS
<1>1. file \in Seq(Raw) /\ AllFit /\ rest = << >>
  BY FilesAre DEF ReadSoFar, ReadWhole, AllFit
<1>2. PICK k \in 0..Len(file) : /\ rest = SubSeq(file, k + 1, Len(file))
                                /\ reader = ReadAll(SubSeq(file, 1, k))
  BY <1>1 DEF ReadSoFar
<1>3. k = Len(file)
  <2>1. PICK n \in Nat : n = Len(file)
    BY <1>1
  <2> SUFFICES ASSUME k < n PROVE FALSE
    BY <2>1
  <2>2. Len(SubSeq(file, k + 1, n)) = n - k
    BY <1>1, <2>1
  <2>3. Len(<< >>) = 0
    OBVIOUS
  <2>4. SubSeq(file, k + 1, n) = << >>
    BY <1>1, <1>2, <2>1
  <2> QED
    BY <2>1, <2>2, <2>3, <2>4
<1> QED
  BY <1>1, <1>2, <1>3, FirstLines

(* Comments and empty lines mean nothing to readconf(), wherever they      *)
(* stand, in any file of which fgets() cuts no line.                       *)
THEOREM CommentsIgnoredHolds == Spec => []CommentsIgnored
<1>1. ReadSoFar => CommentsIgnored
  BY ReadToItsEnd, ReadCleaned DEF CommentsIgnored, Uncommented
<1> QED
  BY <1>1, ReadsInOrder, PTL

----------------------------------------------------------------------------
(* A continued line and the next, written as one *)

LEMMA OpensIs ==
    ASSUME NEW l \in Line0, NEW i \in 1..Len(l)
    PROVE  OpensComment(l, i) <=> l[i] = "#" /\ (i = 1 \/ l[i - 1] = "sp")
<1>1. PICK n \in Nat : n = Len(l)
  BY LenIs
<1>2. CASE i = 1
  <2>1. \A j \in 1..(i - 1) : l[j] = "sp"
    BY <1>2
  <2> QED
    BY <1>2, <2>1 DEF OpensComment
<1>3. CASE i # 1
  <2>1. i > 1 /\ i - 1 \in 1..(i - 1)
    BY <1>1, <1>3
  <2> QED
    BY <1>3, <2>1 DEF OpensComment
<1> QED
  BY <1>2, <1>3

LEMMA JoinedIs ==
    ASSUME NEW x \in Cleaned, Continues(x), NEW y \in Cleaned,
           NEW z, z = Opened(x) \o DropWhite(y)
    PROVE  /\ z \in Cleaned /\ (Continues(z) <=> Continues(y))
           /\ Stem(z) = Stem(x) \o trim(y).text
<1>1. /\ x \in Raw /\ x \in Line0 /\ HasText(x) /\ ~Opens(x)
      /\ y \in Raw /\ y \in Line0 /\ HasText(y) /\ ~Opens(y)
  BY DEF Cleaned, Raw
<1>2. PICK a \in Nat, m \in Nat : m \in 1..a /\ a = Len(x) /\ m = LastText(x) /\ DOMAIN x = 1..a
  <2>1. PICK a \in Nat : a = Len(x) /\ DOMAIN x = 1..a
    BY <1>1 DEF Line0
  <2>2. PICK m \in 1..a : m = LastText(x)
    BY <1>1, <2>1, TextIs
  <2>3. m \in Nat
    OBVIOUS
  <2> QED
    BY <2>1, <2>2, <2>3
<1>3. PICK b \in Nat, p \in Nat : p <= b /\ b = Len(y) /\ p = Lead(y) /\ DOMAIN y = 1..b
  <2>1. PICK b \in Nat : b = Len(y) /\ DOMAIN y = 1..b
    BY <1>1 DEF Line0
  <2>2. PICK p \in 0..b : p = Lead(y)
    BY <1>1, <2>1, DropWhiteIs
  <2>3. p \in Nat /\ p <= b
    BY <2>1
  <2> QED
    BY <2>1, <2>2, <2>3
<1>4. PICK q \in Nat : /\ q \in 1..(b - p) /\ p + q = LastText(y) /\ y[p + q] \notin White
                       /\ \A i \in ((p + q) + 1)..b : y[i] \in White
  <2>1. PICK t \in 1..b : /\ t = LastText(y) /\ y[t] \notin White /\ p < t
                          /\ \A i \in (t + 1)..b : y[i] \in White
    BY <1>1, <1>3, TextIs
  <2>2. t - p \in 1..(b - p) /\ p + (t - p) = t /\ t - p \in Nat
    BY <1>3, <2>1
  <2> QED
    BY <2>1, <2>2
<1>5. PICK v \in Line0 : v = DropWhite(y) /\ Len(v) = b - p /\ \A i \in 1..(b - p) : v[i] = y[p + i]
  <2>1. y \in Line0 /\ b = Len(y) /\ p = Lead(y)
    BY <1>1, <1>3
  <2>2. PICK v : v = DropWhite(y)
    OBVIOUS
  <2>3. /\ v \in Line0 /\ Len(v) = Len(y) - Lead(y)
        /\ \A i \in 1..Len(v) : v[i] = y[Lead(y) + i]
    BY <2>1, <2>2, DropWhiteIs
  <2> QED
    BY <2>1, <2>2, <2>3
<1>6. /\ Max(Backslashes(x)) = m /\ m \in Backslashes(x) /\ x[m] = "\\"
  BY <1>1, <1>2, BackslashesAre DEF Backslashes
<1>7. PICK o \in Line0 : /\ o = Opened(x) /\ o = Stem(x) /\ Len(o) = m
                         /\ \A i \in 1..m : o[i] = IF i \in Backslashes(x) THEN "sp" ELSE x[i]
  BY <1>1, <1>2, StemIs DEF Stem
<1>8. /\ z \in Line0 /\ Len(z) = m + (b - p)
      /\ \A i \in 1..m : z[i] = o[i]
      /\ \A i \in 1..(b - p) : z[m + i] = v[i]
  <2>1. z = o \o v
    BY <1>5, <1>7
  <2>2. /\ z \in Line0 /\ Len(z) = Len(o) + Len(v)
        /\ \A i \in 1..Len(o) : z[i] = o[i]
        /\ \A i \in 1..Len(v) : z[Len(o) + i] = v[i]
    BY <2>1, CatIs
  <2> QED
    BY <1>5, <1>7, <2>2
<1>9. DOMAIN z = 1..(m + (b - p))
  BY <1>8 DEF Line0
<1>10. White = {"sp", "nl"}
  BY DEF White
(* Where an index falls. *)
<1>11. ASSUME NEW i \in 1..(m + (b - p))
       PROVE  i \in 1..m \/ (i - m \in 1..(b - p) /\ m + (i - m) = i /\ i > m)
  BY <1>2, <1>3
<1>12. z \in Raw
  <2>1. ASSUME NEW i \in 1..((m + (b - p)) - 1) PROVE z[i] # "nl"
    <3>1. CASE i \in 1..m
      <4>1. x[i] # "nl"
        <5>1. CASE i = m
          BY <1>6, <5>1
        <5>2. CASE i # m
          <6>1. i \in 1..(a - 1)
            BY <1>2, <3>1, <5>2
          <6> QED
            BY <1>1, <1>2, <6>1 DEF Raw
        <5> QED
          BY <5>1, <5>2
      <4> QED
        BY <1>7, <1>8, <3>1, <4>1
    <3>2. CASE i \notin 1..m
      <4>1. i - m \in 1..(b - p) /\ p + (i - m) \in 1..(b - 1) /\ m + (i - m) = i
        BY <3>2
      <4>2. z[i] = y[p + (i - m)]
        BY <1>5, <1>8, <4>1
      <4>3. y[p + (i - m)] # "nl"
        BY <1>1, <1>3, <4>1 DEF Raw
      <4> QED
        BY <4>2, <4>3
    <3> QED
      BY <3>1, <3>2
  <2> QED
    BY <1>8, <2>1 DEF Raw
<1>13. HasText(z) /\ LastText(z) = m + q
  <2>1. m + q \in 1..(m + (b - p))
    BY <1>4
  <2>2. z[m + q] \notin White
    BY <1>4, <1>5, <1>8
  <2>3. ASSUME NEW i \in ((m + q) + 1)..(m + (b - p)) PROVE z[i] \in White
    <3>1. i - m \in 1..(b - p) /\ m + (i - m) = i /\ p + (i - m) \in ((p + q) + 1)..b
      OBVIOUS
    <3> QED
      BY <1>4, <1>5, <1>8, <3>1
  <2> QED
    BY <1>8, <2>1, <2>2, <2>3, LastUnique
<1>14. ~Opens(z)
  <2>1. ASSUME NEW i \in 1..(m + (b - p)), z[i] = "#", i = 1 \/ z[i - 1] = "sp" PROVE FALSE
    <3>1. CASE i \in 1..m
      <4>1. x[i] = "#" /\ i \in 1..a
        BY <1>2, <1>7, <1>8, <2>1, <3>1
      <4>2. CASE i = 1
        <5>1. OpensComment(x, i)
          BY <1>1, <1>2, <4>1, <4>2, OpensIs
        <5> QED
          BY <1>1, <1>2, <4>1, <5>1 DEF Opens
      <4>3. CASE i # 1
        <5>1. i - 1 \in 1..m /\ i \in (i - 1)..a
          BY <1>2, <3>1, <4>3
        <5>2. i - 1 \notin Backslashes(x)
          BY <1>2, <4>1, <5>1 DEF Backslashes
        <5>3. x[i - 1] = "sp"
          BY <1>7, <1>8, <2>1, <4>3, <5>1, <5>2
        <5>4. OpensComment(x, i)
          BY <1>1, <1>2, <4>1, <5>3, OpensIs
        <5> QED
          BY <1>1, <1>2, <4>1, <5>4 DEF Opens
      <4> QED
        BY <4>2, <4>3
    <3>2. CASE i \notin 1..m
      <4>1. PICK j \in 1..(b - p) : j = i - m /\ m + j = i
        BY <1>11, <3>2
      <4>2. y[p + j] = "#" /\ p + j \in 1..b
        <5>1. p + j \in 1..b
          BY <1>3
        <5>2. z[m + j] = y[p + j]
          BY <1>5, <1>8
        <5> QED
          BY <2>1, <4>1, <5>1, <5>2
      <4>3. p + j = 1 \/ y[(p + j) - 1] = "sp"
        <5>1. CASE j = 1 /\ p # 0
          <6>1. (p + j) - 1 \in 1..p /\ (p + j) - 1 \in 1..(b - 1)
            BY <1>3, <4>1, <5>1
          <6>2. y[(p + j) - 1] \in White
            BY <1>1, <1>3, <6>1, DropWhiteIs
          <6> QED
            BY <1>1, <1>3, <1>10, <6>1, <6>2 DEF Raw
        <5>2. CASE j # 1
          <6>1. j - 1 \in 1..(b - p) /\ p + (j - 1) = (p + j) - 1
            BY <5>2
          <6>2. m + (j - 1) = i - 1 /\ i # 1
            BY <4>1, <5>2
          <6>3. y[p + (j - 1)] = z[m + (j - 1)]
            BY <1>5, <1>8, <6>1
          <6> QED
            BY <2>1, <6>1, <6>2, <6>3
        <5> QED
          BY <5>1, <5>2
      <4>4. OpensComment(y, p + j)
        BY <1>1, <1>3, <4>2, <4>3, OpensIs
      <4> QED
        BY <1>1, <1>3, <4>2, <4>4 DEF Opens
    <3> QED
      BY <3>1, <3>2
  <2> QED
    BY <1>8, <1>9, <2>1, OpensIs DEF Opens
<1>15. z \in Cleaned
  BY <1>12, <1>13, <1>14 DEF Cleaned
(* The backslashes of z are those of y. *)
<1>16. \A i \in 1..m : i \notin Backslashes(z)
  <2> SUFFICES ASSUME NEW i \in 1..m, i \in Backslashes(z) PROVE FALSE
    OBVIOUS
  <2>1. \A j \in i..(m + (b - p)) : z[j] \in {"nl", "\\"}
    BY <1>8 DEF Backslashes
  <2>2. z[m] = "sp" /\ m \in i..(m + (b - p))
    BY <1>2, <1>3, <1>6, <1>7, <1>8
  <2> QED
    BY <2>1, <2>2
<1>17. ASSUME NEW j \in 1..(b - p) PROVE m + j \in Backslashes(z) <=> p + j \in Backslashes(y)
  <2>1. m + j \in 1..(m + (b - p)) /\ p + j \in 1..b
    BY <1>2, <1>3
  <2>2. z[m + j] = y[p + j]
    BY <1>5, <1>8
  <2>3. (\A i \in (m + j)..(m + (b - p)) : z[i] \in {"nl", "\\"})
        <=> (\A i \in (p + j)..b : y[i] \in {"nl", "\\"})
    <3>1. ASSUME NEW i \in (m + j)..(m + (b - p))
          PROVE  i - m \in 1..(b - p) /\ p + (i - m) \in (p + j)..b /\ m + (i - m) = i
      OBVIOUS
    <3>2. ASSUME NEW i \in (p + j)..b
          PROVE  i - p \in 1..(b - p) /\ m + (i - p) \in (m + j)..(m + (b - p)) /\ p + (i - p) = i
      OBVIOUS
    <3>3. \A i \in (m + j)..(m + (b - p)) : z[i] = y[p + (i - m)]
      BY <1>5, <1>8, <3>1
    <3>4. \A i \in (p + j)..b : y[i] = z[m + (i - p)]
      BY <1>5, <1>8, <3>2
    <3> QED
      BY <3>1, <3>2, <3>3, <3>4
  <2> QED
    BY <1>3, <1>8, <2>1, <2>2, <2>3 DEF Backslashes
<1>18. Continues(z) <=> Continues(y)
  <2>1. Continues(z) <=> LastText(z) \in Backslashes(z)
    BY <1>8, <1>12, BackslashesAre
  <2>2. Continues(y) <=> LastText(y) \in Backslashes(y)
    BY <1>1, BackslashesAre
  <2> QED
    BY <1>4, <1>13, <1>17, <2>1, <2>2
<1>19. Stem(z) = o \o trim(y).text
  <2>1. PICK t \in Line0 : t = trim(y).text /\ Len(t) = q /\ \A i \in 1..q : t[i] = Stem(y)[p + i]
    <3>1. LastText(y) - p = q
      BY <1>3, <1>4
    <3>2. PICK t : t = trim(y).text
      OBVIOUS
    <3>3. /\ t \in Line0 /\ Len(t) = LastText(y) - Lead(y)
          /\ \A i \in 1..(LastText(y) - Lead(y)) : t[i] = Stem(y)[Lead(y) + i]
      BY <3>2, TrimClean
    <3>4. p = Lead(y)
      BY <1>3
    <3> QED
      BY <3>1, <3>2, <3>3, <3>4
  <2>2. PICK w : w = o \o t
    OBVIOUS
  <2>3. /\ w \in Line0 /\ Len(w) = m + q
        /\ \A i \in 1..m : w[i] = o[i]
        /\ \A i \in 1..q : w[m + i] = t[i]
    <3>1. /\ w \in Line0 /\ Len(w) = Len(o) + Len(t)
          /\ \A i \in 1..Len(o) : w[i] = o[i]
          /\ \A i \in 1..Len(t) : w[Len(o) + i] = t[i]
      BY <2>2, CatIs
    <3> QED
      BY <1>7, <2>1, <3>1
  <2>4. PICK s \in Line0 : /\ s = Stem(z) /\ Len(s) = m + q
                           /\ \A i \in 1..(m + q) : s[i] = IF i \in Backslashes(z) THEN "sp" ELSE z[i]
    BY <1>12, <1>13, StemIs
  <2>5. ASSUME NEW i \in 1..(m + q) PROVE s[i] = w[i]
    <3>1. CASE i \in 1..m
      BY <1>8, <1>16, <2>3, <2>4, <3>1
    <3>2. CASE i \notin 1..m
      <4>1. PICK j \in 1..q : j \in 1..(b - p) /\ m + j = i /\ p + j \in 1..(p + q)
        <5>1. i - m \in 1..q /\ i - m \in 1..(b - p) /\ m + (i - m) = i /\ p + (i - m) \in 1..(p + q)
          BY <1>2, <1>4, <3>2
        <5> QED
          BY <5>1
      <4>2. Stem(y)[p + j] = IF p + j \in Backslashes(y) THEN "sp" ELSE y[p + j]
        BY <1>1, <1>4, <4>1, StemIs
      <4>3. z[m + j] = y[p + j] /\ s[m + j] = IF m + j \in Backslashes(z) THEN "sp" ELSE z[m + j]
        BY <1>5, <1>8, <2>4, <4>1
      <4>4. w[m + j] = Stem(y)[p + j]
        BY <2>1, <2>3
      <4> QED
        BY <1>17, <4>1, <4>2, <4>3, <4>4
    <3> QED
      BY <3>1, <3>2
  <2>6. s = w
    BY <2>3, <2>4, <2>5, LinesEqual
  <2> QED
    BY <2>1, <2>2, <2>4, <2>6
<1> QED
  BY <1>7, <1>15, <1>18, <1>19

LEMMA StemDrop ==
    ASSUME NEW l \in Cleaned
    PROVE  /\ Stem(l) \in Line0 /\ trim(l).text \in Line0 /\ trim(l).text # << >>
           /\ DropWhite(Stem(l)) = DropWhite(trim(l).text)
<1>1. l \in Raw /\ l \in Line0 /\ HasText(l)
  BY DEF Cleaned, Raw
<1>2. PICK n \in Nat : n = Len(l)
  BY <1>1, LenIs
<1>3. PICK p \in 0..n : p = Lead(l) /\ \A i \in 1..p : l[i] \in White
  BY <1>1, <1>2, DropWhiteIs
<1>4. PICK m \in 1..n : m = LastText(l) /\ p < m
  BY <1>1, <1>2, <1>3, TextIs
<1>5. PICK s \in Line0 : /\ s = Stem(l) /\ Len(s) = m
                         /\ \A i \in 1..m : s[i] = IF i \in Backslashes(l) THEN "sp" ELSE l[i]
  BY <1>1, <1>4, StemIs
<1>6. PICK t \in Line0 : /\ t = trim(l).text /\ Len(t) = m - p
                         /\ \A i \in 1..(m - p) : t[i] = s[p + i]
  <2>1. PICK t : t = trim(l).text
    OBVIOUS
  <2>2. /\ t \in Line0 /\ Len(t) = LastText(l) - Lead(l)
        /\ \A i \in 1..(LastText(l) - Lead(l)) : t[i] = Stem(l)[Lead(l) + i]
    BY <2>1, TrimClean
  <2>3. Stem(l) = s /\ Lead(l) = p /\ LastText(l) = m
    BY <1>3, <1>4, <1>5
  <2> QED
    BY <2>1, <2>2, <2>3
<1>7. PICK w \in Line0 : w = SubSeq(s, 1, p) /\ Len(w) = p /\ \A i \in 1..p : w[i] = s[i]
  <2>1. p \in Nat /\ p <= Len(s)
    BY <1>4, <1>5
  <2>2. PICK w : w = SubSeq(s, 1, p)
    OBVIOUS
  <2>3. w \in Line0 /\ Len(w) = p /\ \A i \in 1..p : w[i] = s[i]
    BY <2>1, <2>2, PrefixIs
  <2> QED
    BY <2>2, <2>3
<1>8. \A i \in 1..Len(w) : w[i] \in White
  <2>1. "sp" \in White /\ \A i \in 1..p : i \in 1..m
    BY <1>4 DEF White
  <2> QED
    BY <1>3, <1>5, <1>7, <2>1
<1>9. PICK v : v = w \o t
  OBVIOUS
<1>10. s = v
  <2>1. /\ v \in Line0 /\ Len(v) = m
        /\ \A i \in 1..p : v[i] = w[i]
        /\ \A i \in 1..(m - p) : v[p + i] = t[i]
    <3>1. /\ v \in Line0 /\ Len(v) = Len(w) + Len(t)
          /\ \A i \in 1..Len(w) : v[i] = w[i]
          /\ \A i \in 1..Len(t) : v[Len(w) + i] = t[i]
      BY <1>9, CatIs
    <3> QED
      BY <1>6, <1>7, <3>1
  <2>2. ASSUME NEW i \in 1..m PROVE s[i] = v[i]
    <3>1. CASE i \in 1..p
      BY <1>7, <2>1, <3>1
    <3>2. CASE i \notin 1..p
      <4>1. i - p \in 1..(m - p) /\ p + (i - p) = i
        BY <3>2
      <4> QED
        BY <1>6, <2>1, <4>1
    <3> QED
      BY <3>1, <3>2
  <2> QED
    BY <1>5, <2>1, <2>2, LinesEqual
<1>11. DropWhite(v) = DropWhite(t)
  BY <1>8, <1>9, DropPrefix
<1>12. t # << >>
  BY <1>4, <1>6, LenIs
<1> QED
  BY <1>5, <1>6, <1>10, <1>11, <1>12

(* What is read of the two lines and of the one differ in leading blanks. *)
LEMMA JoinedText ==
    ASSUME NEW x \in Cleaned, Continues(x), NEW y \in Cleaned,
           NEW z, z = Opened(x) \o DropWhite(y)
    PROVE  DropWhite(trim(z).text) = DropWhite(trim(x).text \o trim(y).text)
<1>1. z \in Cleaned /\ Stem(z) = Stem(x) \o trim(y).text
  BY JoinedIs
<1>2. PICK s \in Line0, t \in Line0, u \in Line0 : s = Stem(x) /\ t = trim(x).text /\ u = trim(y).text
  BY StemDrop
<1>3. DropWhite(s) = DropWhite(t)
  BY <1>2, StemDrop
<1>4. DropWhite(trim(z).text) = DropWhite(s \o u)
  BY <1>1, <1>2, StemDrop
<1>5. DropWhite(s \o u) = DropWhite(DropWhite(s) \o u) /\ DropWhite(t \o u) = DropWhite(DropWhite(t) \o u)
  BY DropConcat
<1> QED
  BY <1>2, <1>3, <1>4, <1>5

----------------------------------------------------------------------------
(* Readers that go on alike *)

Same(r, q) ==
    /\ r.conf = q.conf /\ r.crashed = q.crashed /\ r.isMultiline = q.isMultiline
    /\ r.isMultiline => DropWhite(r.line) = DropWhite(q.line)

After(r, line, multiline) ==
    LET read == [r EXCEPT !.line = line, !.isMultiline = multiline]
    IN IF multiline THEN read ELSE Assign(read, splitKey(line).key, splitKey(line).args)

LEMMA TurnIs ==
    ASSUME NEW r \in Reader, NEW text, NEW multiline, ~r.crashed, text # << >>
    PROVE  Turn(r, text, multiline) = After(r, Whole(r, text), multiline)
<1>1. PICK read : read = [r EXCEPT !.line = Whole(r, text), !.isMultiline = multiline]
  OBVIOUS
<1>2. read.line = Whole(r, text)
  BY <1>1 DEF Reader
<1> QED
  BY <1>1, <1>2 DEF Turn, After

LEMMA AssignSame ==
    ASSUME NEW r \in Reader, NEW q \in Reader, r.conf = q.conf, r.crashed = q.crashed, NEW key, NEW args
    PROVE  /\ Assign(r, key, args).conf = Assign(q, key, args).conf
           /\ Assign(r, key, args).crashed = Assign(q, key, args).crashed
           /\ Assign(r, key, args).isMultiline = r.isMultiline
<1>1. ASSUME key \in Keys
      PROVE  key = <<"port">> \/ key = <<"led">> \/ key = <<"starfrit">> \/ key = <<"starfrit_url">>
  BY <1>1 DEF Keys
<1>2. CASE key \notin Keys
  BY <1>2 DEF Assign
<1>3. CASE key \in Keys /\ args = << >>
  BY <1>3 DEF Assign, Reader
<1>4. CASE key \in Keys /\ args # << >>
  BY <1>1, <1>4 DEF Assign, Reader
<1> QED
  BY <1>2, <1>3, <1>4

LEMMA SplitSame ==
    ASSUME NEW s, NEW t, DropWhite(s) = DropWhite(t)
    PROVE  splitKey(s).key = splitKey(t).key /\ splitKey(s).args = splitKey(t).args
BY Zenon DEF splitKey

LEMMA AfterSame ==
    ASSUME NEW r \in Reader, NEW q \in Reader, r.conf = q.conf, r.crashed = q.crashed,
           NEW a \in Line0, NEW b \in Line0, DropWhite(a) = DropWhite(b), NEW multiline \in BOOLEAN
    PROVE  Same(After(r, a, multiline), After(q, b, multiline))
<1>1. PICK x : x = [r EXCEPT !.line = a, !.isMultiline = multiline]
  OBVIOUS
<1>2. PICK y : y = [q EXCEPT !.line = b, !.isMultiline = multiline]
  OBVIOUS
<1>3. /\ x \in Reader /\ x.conf = r.conf /\ x.crashed = r.crashed /\ x.isMultiline = multiline /\ x.line = a
      /\ y \in Reader /\ y.conf = q.conf /\ y.crashed = q.crashed /\ y.isMultiline = multiline /\ y.line = b
  BY <1>1, <1>2 DEF Reader
<1>4. CASE multiline = TRUE
  <2>1. After(r, a, multiline) = x /\ After(q, b, multiline) = y
    BY <1>1, <1>2, <1>4 DEF After
  <2> QED
    BY <1>3, <2>1 DEF Same
<1>5. CASE multiline = FALSE
  <2>1. PICK key, args : /\ key = splitKey(a).key /\ args = splitKey(a).args
                         /\ key = splitKey(b).key /\ args = splitKey(b).args
    BY SplitSame
  <2>2. After(r, a, multiline) = Assign(x, key, args) /\ After(q, b, multiline) = Assign(y, key, args)
    BY <1>1, <1>2, <1>5, <2>1 DEF After
  <2>3. /\ Assign(x, key, args).conf = Assign(y, key, args).conf
        /\ Assign(x, key, args).crashed = Assign(y, key, args).crashed
        /\ Assign(x, key, args).isMultiline = FALSE
        /\ Assign(y, key, args).isMultiline = FALSE
    BY <1>3, <1>5, AssignSame
  <2> QED
    BY <2>2, <2>3 DEF Same
<1> QED
  BY <1>4, <1>5

LEMMA CleanedTurn ==
    ASSUME NEW r \in Reader, NEW l \in Cleaned
    PROVE  /\ trim(l).text \in Line0 /\ trim(l).text # << >> /\ Continues(l) \in BOOLEAN
           /\ r.crashed => Line(r, l) = r
           /\ ~r.crashed => Line(r, l) = After(r, Whole(r, trim(l).text), Continues(l))
<1>1. trim(l).text \in Line0 /\ trim(l).text # << >> /\ trim(l).multiline = Continues(l)
  BY StemDrop, TrimClean
<1>2. Line(r, l) = Turn(r, trim(l).text, Continues(l))
  BY <1>1, LineIs
<1>3. r.crashed => Line(r, l) = r
  BY <1>2 DEF Turn
<1>4. ~r.crashed => Line(r, l) = After(r, Whole(r, trim(l).text), Continues(l))
  BY <1>1, <1>2, TurnIs
<1> QED
  BY <1>1, <1>3, <1>4 DEF Continues

LEMMA SameLine ==
    ASSUME NEW r \in Reader, NEW q \in Reader, Same(r, q), NEW l \in Cleaned
    PROVE  Same(Line(r, l), Line(q, l))
<1>1. CASE r.crashed
  BY <1>1, CleanedTurn DEF Same
<1>2. CASE ~r.crashed
  <2>1. PICK t \in Line0 : t = trim(l).text
    BY CleanedTurn
  <2>2. PICK a, b : a = Whole(r, t) /\ b = Whole(q, t)
    OBVIOUS
  <2>3. a \in Line0 /\ b \in Line0 /\ DropWhite(a) = DropWhite(b)
    <3>1. CASE r.isMultiline
      <4>1. PICK x \in Line0, y \in Line0 : x = r.line /\ y = q.line
        BY DEF Reader
      <4>2. a = x \o t /\ b = y \o t /\ DropWhite(x) = DropWhite(y)
        BY <2>2, <3>1, <4>1 DEF Whole, Same
      <4>3. x \o t \in Line0 /\ y \o t \in Line0
        BY CatIs
      <4> QED
        BY <4>2, <4>3, DropConcat
    <3>2. CASE ~r.isMultiline
      BY <2>2, <3>2 DEF Whole, Same
    <3> QED
      BY <3>1, <3>2
  <2>4. Line(r, l) = After(r, a, Continues(l)) /\ Line(q, l) = After(q, b, Continues(l))
    BY <1>2, <2>1, <2>2, CleanedTurn DEF Same
  <2>5. Continues(l) \in BOOLEAN
    BY DEF Continues
  <2> QED
    BY <2>3, <2>4, <2>5, AfterSame DEF Same
<1> QED
  BY <1>1, <1>2

LEMMA MultilineIs ==
    ASSUME NEW r \in Reader, NEW l \in Cleaned
    PROVE  Line(r, l).crashed \/ Line(r, l).isMultiline = Continues(l)
<1>1. CASE r.crashed
  BY <1>1, CleanedTurn
<1>2. CASE ~r.crashed
  <2>1. PICK a : a = Whole(r, trim(l).text) /\ Line(r, l) = After(r, a, Continues(l))
    BY <1>2, CleanedTurn
  <2>2. PICK c \in BOOLEAN : c = Continues(l)
    BY DEF Continues
  <2>3. PICK x : x = [r EXCEPT !.line = a, !.isMultiline = c]
    OBVIOUS
  <2>4. a \in Line0
    <3>1. PICK t \in Line0 : t = trim(l).text
      BY CleanedTurn
    <3> QED
      BY <2>1, <3>1, CatIs DEF Whole, Reader
  <2>5. x \in Reader /\ x.isMultiline = c
    BY <2>3, <2>4 DEF Reader
  <2>6. CASE c = TRUE
    BY <2>1, <2>2, <2>3, <2>5, <2>6 DEF After
  <2>7. CASE c = FALSE
    <3>1. After(r, a, c) = Assign(x, splitKey(a).key, splitKey(a).args)
      BY <2>3, <2>7 DEF After
    <3>2. Assign(x, splitKey(a).key, splitKey(a).args).isMultiline = c
      BY <2>5, AssignSame
    <3> QED
      BY <2>1, <2>2, <3>1, <3>2
  <2> QED
    BY <2>6, <2>7
<1> QED
  BY <1>1, <1>2

----------------------------------------------------------------------------
(* A continued line reads as one *)

LEMMA FrontIs ==
    ASSUME NEW E, NEW s \in Seq(E), s # << >>
    PROVE  /\ Front(s) \in Seq(E) /\ Last(s) \in E /\ s = Append(Front(s), Last(s))
           /\ Len(s) \in Nat \ {0} /\ Len(Front(s)) = Len(s) - 1 /\ Last(s) = s[Len(s)]
           /\ \A i \in 1..(Len(s) - 1) : Front(s)[i] = s[i]
<1>1. PICK n \in Nat : n = Len(s) /\ n # 0
  BY EmptySeq
<1>2. n \in 1..n /\ n - 1 \in 0..n
  BY <1>1
<1>3. Front(s) = SubSeq(s, 1, n - 1) /\ Last(s) = s[n]
  BY <1>1 DEF Front, Last
<1>4. s[n] \in E /\ s = Append(SubSeq(s, 1, n - 1), s[n]) /\ SubSeq(s, 1, n - 1) \in Seq(E)
  BY <1>1, <1>2, FirstLines
<1>5. Len(SubSeq(s, 1, n - 1)) = n - 1 /\ \A i \in 1..(n - 1) : SubSeq(s, 1, n - 1)[i] = s[i]
  BY <1>1, <1>2
<1> QED
  BY <1>1, <1>3, <1>4, <1>5

(* What has been joined, and the reader of what it was joined from. *)
JoinedSoFar(lines, r) ==
    /\ lines \in Seq(Cleaned)
    /\ \A i \in 1..(Len(lines) - 1) : ~Continues(lines[i])
    /\ Same(r, ReadAll(lines))

LEMMA CleanedAreLines == Cleaned \subseteq Line0 /\ Seq(Cleaned) \subseteq Seq(Line0) /\ Seq(Raw) \subseteq Seq(Line0)
<1>1. Cleaned \subseteq Line0
  BY LinesAre
<1> QED
  BY <1>1, LinesAre, SeqMono

LEMMA JoinType ==
    ASSUME NEW lines \in Seq(Cleaned), NEW l \in Cleaned
    PROVE  Join(lines, l) \in Seq(Cleaned)
<1>1. CASE lines # << >> /\ Continues(Last(lines))
  <2>1. Front(lines) \in Seq(Cleaned) /\ Last(lines) \in Cleaned
    BY <1>1, FrontIs
  <2>2. Opened(Last(lines)) \o DropWhite(l) \in Cleaned
    BY <1>1, <2>1, JoinedIs
  <2> QED
    BY <1>1, <2>1, <2>2 DEF Join
<1>2. CASE ~(lines # << >> /\ Continues(Last(lines)))
  BY <1>2 DEF Join
<1> QED
  BY <1>1, <1>2

LEMMA JoinStep ==
    ASSUME NEW r \in Reader, NEW lines, JoinedSoFar(lines, r), NEW l \in Cleaned
    PROVE  JoinedSoFar(Join(lines, l), Line(r, l))
<1>1. lines \in Seq(Cleaned) /\ lines \in Seq(Line0) /\ l \in Line0
  BY CleanedAreLines DEF JoinedSoFar
<1>2. PICK n \in Nat : n = Len(lines)
  BY <1>1
<1>3. CASE lines # << >> /\ Continues(Last(lines))
  <2>1. PICK front \in Seq(Cleaned), x \in Cleaned :
           /\ front = Front(lines) /\ x = Last(lines) /\ lines = Append(front, x)
           /\ Len(front) = n - 1 /\ \A i \in 1..(n - 1) : front[i] = lines[i]
    BY <1>1, <1>2, <1>3, FrontIs
  <2>2. PICK z \in Cleaned : z = Opened(x) \o DropWhite(l) /\ (Continues(z) <=> Continues(l))
    BY <1>3, <2>1, JoinedIs
  <2>3. PICK next \in Seq(Cleaned) : next = Append(front, z) /\ next = Join(lines, l)
    <3>1. Join(lines, l) = Append(front, z)
      BY <1>3, <2>1, <2>2 DEF Join
    <3>2. Append(front, z) \in Seq(Cleaned)
      BY AppendProperties
    <3> QED
      BY <3>1, <3>2
  <2>4. \A i \in 1..(Len(next) - 1) : ~Continues(next[i])
    <3>1. Len(next) = n /\ \A i \in 1..(n - 1) : next[i] = front[i]
      BY <1>2, <2>1, <2>3
    <3> QED
      BY <1>2, <2>1, <3>1 DEF JoinedSoFar
  <2>5. PICK q \in Reader : /\ q = ReadAll(front)
                            /\ ReadAll(lines) = Line(q, x) /\ ReadAll(next) = Line(q, z)
    <3>1. front \in Seq(Line0) /\ x \in Line0 /\ z \in Line0
      BY CleanedAreLines
    <3> QED
      BY <2>1, <2>3, <3>1, ReadAllAppend
  <2>6. Same(r, Line(q, x))
    BY <2>5 DEF JoinedSoFar
  <2>8. CASE ~q.crashed
    <3>1. ~q.isMultiline
      <4>1. CASE front = << >>
        <5>1. q = Reader0
          BY <2>5, <4>1, ReadAllAppend
        <5> QED
          BY <5>1 DEF Reader0
      <4>2. CASE front # << >>
        <5>1. PICK e \in Seq(Cleaned), y \in Cleaned :
                 e = Front(front) /\ y = Last(front) /\ front = Append(e, y) /\ y = front[n - 1] /\ n - 1 # 0
          <6>1. /\ Front(front) \in Seq(Cleaned) /\ Last(front) \in Cleaned
                /\ front = Append(Front(front), Last(front))
                /\ Len(front) # 0 /\ Last(front) = front[Len(front)]
            BY <4>2, FrontIs
          <6> QED
            BY <2>1, <6>1
        <5>2. ReadAll(e) \in Reader /\ q = Line(ReadAll(e), y)
          <6>1. e \in Seq(Line0) /\ y \in Line0
            BY CleanedAreLines
          <6> QED
            BY <2>5, <5>1, <6>1, ReadAllAppend
        <5>3. q.isMultiline = Continues(y)
          BY <2>8, <5>2, MultilineIs
        <5>4. n - 1 \in 1..(n - 1)
          <6>1. n # 0
            BY <1>1, <1>2, <1>3, FrontIs
          <6> QED
            BY <5>1, <6>1
        <5>5. ~Continues(y)
          BY <1>2, <2>1, <5>1, <5>4 DEF JoinedSoFar
        <5> QED
          BY <5>3, <5>5
      <4> QED
        BY <4>1, <4>2
    <3>2. PICK tx \in Line0, ty \in Line0, tz \in Line0 :
             /\ tx = trim(x).text /\ ty = trim(l).text /\ tz = trim(z).text
      BY CleanedTurn
    <3>3. DropWhite(tz) = DropWhite(tx \o ty) /\ tx \o ty \in Line0
      <4>1. tx \o ty \in Line0
        BY CatIs
      <4>2. Continues(x) /\ z = Opened(x) \o DropWhite(l)
        BY <1>3, <2>1, <2>2
      <4> QED
        BY <3>2, <4>1, <4>2, JoinedText
    (* The reader after x has its text, and goes on. *)
    <3>4. Line(q, x) = [q EXCEPT !.line = tx, !.isMultiline = TRUE]
      <4>1. Whole(q, tx) = tx /\ Continues(x) = TRUE
        BY <1>3, <2>1, <3>1 DEF Whole, Continues
      <4>2. Line(q, x) = After(q, tx, TRUE)
        BY <2>8, <3>2, <4>1, CleanedTurn
      <4> QED
        BY <4>2 DEF After
    <3>5. /\ r.conf = q.conf /\ ~r.crashed /\ r.isMultiline
          /\ DropWhite(r.line) = DropWhite(tx) /\ r.line \in Line0
      BY <2>6, <2>8, <3>4 DEF Same, Reader
    <3>6. PICK a \in Line0 : a = r.line \o ty
      BY <3>5, CatIs
    <3>7. DropWhite(a) = DropWhite(tz)
      <4>1. DropWhite(a) = DropWhite(DropWhite(r.line) \o ty)
        BY <3>5, <3>6, DropConcat
      <4>2. DropWhite(tx \o ty) = DropWhite(DropWhite(tx) \o ty)
        BY DropConcat
      <4> QED
        BY <3>3, <3>5, <4>1, <4>2
    <3>8. Line(r, l) = After(r, a, Continues(l))
      BY <3>2, <3>5, <3>6, CleanedTurn DEF Whole
    <3>9. Line(q, z) = After(q, tz, Continues(l))
      <4>1. Whole(q, tz) = tz /\ Continues(z) = Continues(l)
        BY <2>2, <3>1 DEF Whole, Continues
      <4> QED
        BY <2>8, <3>2, <4>1, CleanedTurn
    <3>10. Continues(l) \in BOOLEAN /\ r.crashed = q.crashed
      BY <2>8, <3>5 DEF Continues, Reader
    <3>11. Same(Line(r, l), Line(q, z))
      BY <3>5, <3>7, <3>8, <3>9, <3>10, AfterSame
    <3> QED
      BY <2>3, <2>4, <2>5, <3>11 DEF JoinedSoFar
  <2>9. q.crashed => JoinedSoFar(Join(lines, l), Line(r, l))
    <3> SUFFICES ASSUME q.crashed PROVE JoinedSoFar(Join(lines, l), Line(r, l))
      OBVIOUS
    <3>1. Line(q, x) = q /\ Line(q, z) = q
      BY CleanedTurn
    <3>2. r.crashed
      BY <2>6, <3>1 DEF Same
    <3>3. Line(r, l) = r
      BY <3>2, CleanedTurn
    <3> QED
      BY <2>3, <2>4, <2>5, <2>6, <3>1, <3>3 DEF JoinedSoFar
  <2> QED
    BY <2>8, <2>9
<1>4. CASE ~(lines # << >> /\ Continues(Last(lines)))
  <2>1. PICK next \in Seq(Cleaned) : next = Append(lines, l) /\ next = Join(lines, l)
    <3>1. Join(lines, l) = Append(lines, l)
      BY <1>4, Zenon DEF Join
    <3>2. Append(lines, l) \in Seq(Cleaned)
      BY <1>1, AppendProperties
    <3> QED
      BY <3>1, <3>2
  <2>2. \A i \in 1..(Len(next) - 1) : ~Continues(next[i])
    <3>1. Len(next) = n + 1 /\ \A i \in 1..n : next[i] = lines[i]
      <4>1. PICK s \in Seq(Cleaned) : s = lines
        BY <1>1
      <4>2. Len(s) = n /\ next = Append(s, l)
        BY <1>2, <2>1, <4>1
      <4>3. Len(next) = n + 1 /\ \A i \in 1..n : next[i] = s[i]
        BY <4>2
      <4> QED
        BY <4>1, <4>3
    <3>2. ASSUME NEW i \in 1..n PROVE ~Continues(lines[i])
      <4>1. CASE i = n
        <5>1. lines # << >>
          BY <1>2
        <5>2. Last(lines) = lines[n]
          BY <1>1, <1>2, <5>1, FrontIs
        <5> QED
          BY <1>4, <4>1, <5>1, <5>2
      <4>2. CASE i # n
        <5>1. i \in 1..(n - 1)
          BY <4>2
        <5> QED
          BY <1>2, <5>1 DEF JoinedSoFar
      <4> QED
        BY <4>1, <4>2
    <3> QED
      BY <3>1, <3>2
  <2>3. ReadAll(next) = Line(ReadAll(lines), l) /\ ReadAll(lines) \in Reader
    BY <1>1, <2>1, ReadAllAppend
  <2>4. Same(Line(r, l), ReadAll(next))
    BY <2>3, SameLine DEF JoinedSoFar
  <2> QED
    BY <2>1, <2>2, <2>4 DEF JoinedSoFar
<1> QED
  BY <1>3, <1>4

LEMMA JoinFolds ==
    ASSUME NEW f \in Seq(Cleaned)
    PROVE  FoldsTo(Seq(Cleaned), << >>, Steps(Seq(Cleaned), Cleaned, Join), f, FoldLeft(Join, << >>, f))
<1> DEFINE step == Steps(Seq(Cleaned), Cleaned, Join)
           I == SUBSET (1..Len(f))
           iter == CHOOSE g : g = [s \in SUBSET DOMAIN f |->
                      IF s = {} THEN << >> ELSE Join(g[s \ {Max(s)}], f[Max(s)])]
<1>1. step \in [Seq(Cleaned) \X Cleaned -> Seq(Cleaned)]
      /\ \A r \in Seq(Cleaned) : \A l \in Cleaned : step[<<r, l>>] = Join(r, l)
  BY JoinType DEF Steps
<1>2. DOMAIN f = 1..Len(f) /\ Len(f) \in Nat
  OBVIOUS
<1>3. FoldLeft(Join, << >>, f) = iter[DOMAIN f]
  BY DEF FoldLeft, MapThenFoldSet
<1>10. << >> \in Seq(Cleaned)
  BY EmptySeq
<1> HIDE DEF step, iter
<1>4. PICK g \in [I -> Seq(Cleaned)] : \A s \in I :
         g[s] = IF s = {} THEN << >> ELSE step[<<g[s \ {Max(s)}], f[Max(s)]>>]
  <2>1. HasFold(Seq(Cleaned), Cleaned, << >>, step, f)
    BY <1>1, <1>10, FoldExists
  <2> QED
    BY <2>1 DEF HasFold
<1>5. \A s \in I : s # {} => Max(s) \in s /\ (s \ {Max(s)}) \in I /\ f[Max(s)] \in Cleaned
  <2>1. \A k \in 1..Len(f) : f[k] \in Cleaned
    OBVIOUS
  <2> QED
    BY <1>2, <2>1, GreatestExists
<1>6. iter = [s \in I |-> IF s = {} THEN << >> ELSE Join(iter[s \ {Max(s)}], f[Max(s)])]
  <2>1. g = [s \in I |-> IF s = {} THEN << >> ELSE Join(g[s \ {Max(s)}], f[Max(s)])]
    BY <1>1, <1>4, <1>5
  <2> QED
    BY <1>2, <2>1 DEF iter
<1>7. iter[{}] = << >>
  BY <1>6
<1>8. ASSUME NEW s \in I, s # {}, iter[s \ {Max(s)}] \in Seq(Cleaned)
      PROVE  iter[s] = step[<<iter[s \ {Max(s)}], f[Max(s)]>>]
  BY <1>1, <1>5, <1>6, <1>8
<1>9. FoldsTo(Seq(Cleaned), << >>, step, f, iter[DOMAIN f])
  <2> HIDE DEF I
  <2>1. \A s \in SUBSET (1..Len(f)) : s # {} /\ iter[s \ {Max(s)}] \in Seq(Cleaned) =>
           iter[s] = step[<<iter[s \ {Max(s)}], f[Max(s)]>>]
    BY <1>8 DEF I
  <2> QED
    BY <1>1, <1>7, <1>10, <2>1, IterFolds
<1> QED
  BY <1>3, <1>9 DEF step

LEMMA JoinAppend ==
    /\ FoldLeft(Join, << >>, << >>) = << >>
    /\ \A f \in Seq(Cleaned) : /\ FoldLeft(Join, << >>, f) \in Seq(Cleaned)
                               /\ \A l \in Cleaned : FoldLeft(Join, << >>, Append(f, l))
                                                     = Join(FoldLeft(Join, << >>, f), l)
<1> DEFINE J(f) == FoldLeft(Join, << >>, f)
           step == Steps(Seq(Cleaned), Cleaned, Join)
<1>3. \A f \in Seq(Cleaned) : FoldsTo(Seq(Cleaned), << >>, step, f, J(f))
  BY JoinFolds
<1> HIDE DEF J, step
<1>1. J(<< >>) = << >>
  <2>1. << >> \in Seq(Cleaned)
    BY EmptySeq
  <2> QED
    BY <1>3, <2>1, FoldsToEmpty
<1>2. ASSUME NEW f \in Seq(Cleaned)
      PROVE  J(f) \in Seq(Cleaned) /\ \A l \in Cleaned : J(Append(f, l)) = Join(J(f), l)
  <2>1. J(f) \in Seq(Cleaned)
    BY <1>3, FoldsToType
  <2>2. ASSUME NEW l \in Cleaned PROVE J(Append(f, l)) = Join(J(f), l)
    <3>1. Append(f, l) \in Seq(Cleaned)
      OBVIOUS
    <3>2. J(Append(f, l)) = step[<<J(f), l>>]
      <4>1. /\ FoldsTo(Seq(Cleaned), << >>, step, f, J(f))
            /\ FoldsTo(Seq(Cleaned), << >>, step, Append(f, l), J(Append(f, l)))
        BY <1>3, <3>1
      <4> QED
        BY <4>1, FoldsToAppend
    <3> QED
      BY <2>1, <3>2 DEF step, Steps
  <2> QED
    BY <2>1, <2>2
<1> QED
  BY <1>1, <1>2 DEF J

(* The joined lines read like the lines.                                   *)
LEMMA ReadJoined ==
    ASSUME NEW f \in Seq(Cleaned)
    PROVE  JoinedSoFar(FoldLeft(Join, << >>, f), ReadAll(f))
<1> DEFINE J(x) == FoldLeft(Join, << >>, x)
<1>1. J(<< >>) = << >> /\ \A x \in Seq(Cleaned) : /\ J(x) \in Seq(Cleaned)
                                                  /\ \A l \in Cleaned : J(Append(x, l)) = Join(J(x), l)
  BY JoinAppend
<1> HIDE DEF J
<1> DEFINE S == {k \in 0..Len(f) : JoinedSoFar(J(SubSeq(f, 1, k)), ReadAll(SubSeq(f, 1, k)))}
<1>2. Len(f) \in Nat
  OBVIOUS
<1>3. 0 \in S
  <2>1. SubSeq(f, 1, 0) = << >>
    BY FirstLines
  <2>2. 0 \in 0..Len(f) /\ Len(<< >>) = 0
    OBVIOUS
  <2>3. << >> \in Seq(Cleaned)
    BY EmptySeq
  <2>4. JoinedSoFar(<< >>, ReadAll(<< >>))
    BY <2>2, <2>3 DEF JoinedSoFar, Same
  <2> QED
    BY <1>1, <2>1, <2>2, <2>4
<1>4. ASSUME NEW k \in 1..Len(f), k - 1 \in S PROVE k \in S
  <2>1. k - 1 \in 0..Len(f) /\ k \in 0..Len(f)
    OBVIOUS
  <2>2. PICK x \in Seq(Cleaned) : x = SubSeq(f, 1, k - 1)
    BY <2>1, FirstLines
  <2>3. PICK l \in Cleaned : l = f[k] /\ SubSeq(f, 1, k) = Append(x, l)
    BY <2>2, FirstLines
  <2>4. ReadAll(x) \in Reader /\ ReadAll(Append(x, l)) = Line(ReadAll(x), l)
    BY CleanedAreLines, ReadAllAppend
  <2>5. JoinedSoFar(J(x), ReadAll(x))
    BY <1>4, <2>2
  <2>6. JoinedSoFar(Join(J(x), l), Line(ReadAll(x), l))
    BY <2>4, <2>5, JoinStep
  <2>7. J(Append(x, l)) = Join(J(x), l)
    BY <1>1
  <2> QED
    BY <2>1, <2>3, <2>4, <2>6, <2>7
<1>5. Len(f) \in S
  <2> HIDE DEF S
  <2>1. 0..Len(f) \subseteq S
    BY <1>2, <1>3, <1>4, IntervalInduction
  <2>2. Len(f) \in 0..Len(f)
    BY <1>2
  <2> QED
    BY <2>1, <2>2
<1>6. SubSeq(f, 1, Len(f)) = f
  BY FirstLines
<1> QED
  BY <1>5, <1>6 DEF J

(* A continued line reads like one line with blanks for the backslashes,   *)
(* in any file of which fgets() cuts no line.                              *)
THEOREM ContinuationJoinsHolds == Spec => []ContinuationJoins
<1>1. ReadSoFar => ContinuationJoins
  <2> SUFFICES ASSUME ReadSoFar, ReadWhole PROVE reader.conf = ReadAll(Joined).conf
    BY DEF ContinuationJoins
  <2>1. reader = ReadAll(Uncommented)
    BY ReadToItsEnd, ReadCleaned DEF Uncommented
  <2>2. Uncommented \in Seq(Cleaned)
    BY ReadToItsEnd, CleanAppend DEF Uncommented
  <2>3. JoinedSoFar(Joined, ReadAll(Uncommented))
    BY <2>2, ReadJoined DEF Joined
  <2> QED
    BY <2>1, <2>3 DEF JoinedSoFar, Same
<1> QED
  BY <1>1, ReadsInOrder, PTL

----------------------------------------------------------------------------
(* Keys and their values *)

LEMMA LeastIs ==
    ASSUME NEW S, S \subseteq Nat, NEW k \in S, \A i \in S : k <= i
    PROVE  Min(S) = k
<1>1. Min(S) \in S /\ \A i \in S : Min(S) <= i
  BY LeastExists
<1>2. PICK x \in Nat : x = Min(S) /\ x <= k /\ k <= x
  BY <1>1
<1> QED
  BY <1>2

LEMMA MostIs ==
    ASSUME NEW n \in Nat, NEW S, S \subseteq 1..n, NEW k \in S, \A i \in S : i <= k
    PROVE  Max(S) = k
<1>1. Max(S) \in S /\ \A i \in S : i <= Max(S)
  BY GreatestExists
<1>2. PICK x \in 1..n : x = Max(S) /\ x <= k /\ k <= x
  BY <1>1
<1>3. k \in 1..n
  OBVIOUS
<1> QED
  BY <1>2, <1>3

(* What is split of a line that is not continued. *)
LEMMA SplitText ==
    ASSUME NEW l \in Cleaned, ~Continues(l), NEW t, t = trim(l).text
    PROVE  /\ \A key : splitKey(t).key = <<key>> <=> Names(l, key)
           /\ \A key : Names(l, key) /\ splitKey(t).args # << >> => splitKey(t).args = Value(l)
<1>1. l \in Raw /\ l \in Line0 /\ HasText(l)
  BY DEF Cleaned, Raw
<1>2. PICK n \in Nat : n = Len(l) /\ DOMAIN l = 1..n
  BY <1>1 DEF Line0
<1>3. PICK p \in 0..n : /\ p = Lead(l) /\ \A i \in 1..p : l[i] \in White
                        /\ p < n => l[p + 1] \notin White
  BY <1>1, <1>2, DropWhiteIs
<1>4. PICK m \in 1..n : /\ m = LastText(l) /\ p < m /\ l[m] \notin White
                        /\ \A i \in (m + 1)..n : l[i] \in White
  BY <1>1, <1>2, <1>3, TextIs
<1>5. t \in Line0 /\ Len(t) = m - p /\ \A i \in 1..(m - p) : t[i] = l[p + i]
  <2>1. /\ t \in Line0 /\ Len(t) = m - p
        /\ \A i \in 1..(m - p) : t[i] = Stem(l)[p + i]
    BY <1>3, <1>4, TrimClean
  <2>2. ASSUME NEW i \in 1..(m - p) PROVE Stem(l)[p + i] = l[p + i]
    <3>1. p + i \in 1..m
      OBVIOUS
    <3>2. Backslashes(l) = {}
      BY <1>1, BackslashesAre
    <3> QED
      BY <1>1, <1>4, <3>1, <3>2, StemIs
  <2> QED
    BY <2>1, <2>2
<1>6. White = {"sp", "nl"} /\ l[p + 1] \notin White /\ 1 \in 1..(m - p) /\ t[1] = l[p + 1]
  BY <1>3, <1>4, <1>5 DEF White
<1>7. DropWhite(t) = t
  BY <1>5, <1>6, DropFixed
<1>8. PICK g \in 1..((m - p) + 1) :
         /\ g <= m - p => t[g] = "sp"
         /\ \A i \in 1..(g - 1) : t[i] # "sp"
         /\ splitKey(t).key = SubSeq(t, 1, g - 1)
         /\ splitKey(t).args = DropWhite(SubSeq(t, g, m - p))
  <2>1. PICK u \in Line0 : u = DropWhite(t) /\ u = t /\ Len(u) = m - p
    BY <1>5, <1>7
  <2>2. /\ Gap(u) \in 1..(Len(u) + 1)
        /\ Gap(u) <= Len(u) => u[Gap(u)] = "sp"
        /\ \A i \in 1..(Gap(u) - 1) : u[i] # "sp"
        /\ splitKey(t).key = SubSeq(u, 1, Gap(u) - 1)
        /\ splitKey(t).args = DropWhite(SubSeq(u, Gap(u), Len(u)))
    BY <1>5, <2>1, SplitIs
  <2> QED
    BY <2>1, <2>2
<1>9. g # 1
  BY <1>6, <1>8
<1>10. KeyAt(l) = p + 1
  <2> DEFINE S == {i \in DOMAIN l : l[i] \notin White}
  <2>1. S \subseteq Nat
    BY <1>2
  <2>2. p + 1 \in S
    BY <1>2, <1>4, <1>6
  <2>3. ASSUME NEW i \in S PROVE p + 1 <= i
    <3>1. i \in 1..n /\ i \notin 1..p
      BY <1>2, <1>3
    <3> QED
      BY <3>1
  <2> HIDE DEF S
  <2>4. Min(S) = p + 1
    BY <2>1, <2>2, <2>3, LeastIs
  <2> QED
    BY <2>4 DEF KeyAt, S
(* The key ends where a blank is, or where the line does. *)
<1>11. g = 2 <=> (p + 1 < n => l[(p + 1) + 1] \in White)
  <2>1. CASE m = p + 1
    <3>1. g = 2
      BY <1>9, <2>1
    <3>2. p + 1 < n => (p + 1) + 1 \in (m + 1)..n
      BY <2>1
    <3> QED
      BY <1>4, <3>1, <3>2
  <2>2. CASE m # p + 1
    <3>1. 2 \in 1..(m - p) /\ p + 2 = (p + 1) + 1 /\ p + 1 < n /\ (p + 1) + 1 \in 1..m
      BY <1>4, <2>2
    <3>2. t[2] = l[(p + 1) + 1]
      BY <1>5, <3>1
    <3>3. l[(p + 1) + 1] # "nl"
      <4>1. CASE (p + 1) + 1 = m
        BY <1>4, <1>6, <4>1
      <4>2. CASE (p + 1) + 1 # m
        <5>1. (p + 1) + 1 \in 1..(n - 1)
          BY <3>1, <4>2
        <5> QED
          BY <1>1, <1>2, <5>1 DEF Raw
      <4> QED
        BY <4>1, <4>2
    <3>4. g = 2 <=> t[2] = "sp"
      <4>1. ASSUME g = 2 PROVE t[2] = "sp"
        BY <1>8, <3>1, <4>1
      <4>2. ASSUME t[2] = "sp" PROVE g = 2
        <5>1. 2 \notin 1..(g - 1)
          BY <1>8, <4>2
        <5> QED
          BY <1>9, <5>1
      <4> QED
        BY <4>1, <4>2
    <3> QED
      BY <1>6, <3>1, <3>2, <3>3, <3>4
  <2> QED
    BY <2>1, <2>2
<1>12. PICK k \in Line0 : k = splitKey(t).key /\ Len(k) = g - 1 /\ k[1] = l[p + 1]
  <2>1. g - 1 \in Nat /\ g - 1 <= Len(t) /\ 1 \in 1..(g - 1)
    BY <1>5, <1>9
  <2>2. PICK s : s = SubSeq(t, 1, g - 1)
    OBVIOUS
  <2>3. s \in Line0 /\ Len(s) = g - 1 /\ \A i \in 1..(g - 1) : s[i] = t[i]
    BY <1>5, <2>1, <2>2, PrefixIs
  <2> QED
    BY <1>6, <1>8, <2>1, <2>2, <2>3
<1>13. ASSUME NEW key PROVE splitKey(t).key = <<key>> <=> Names(l, key)
  <2>1. Names(l, key) <=> l[p + 1] = key /\ g = 2
    BY <1>2, <1>10, <1>11 DEF Names
  <2>2. k = <<key>> <=> k[1] = key /\ Len(k) = 1
    <3>1. Len(<<key>>) = 1 /\ <<key>>[1] = key
      OBVIOUS
    <3>2. ASSUME Len(k) = 1, k[1] = key PROVE k = <<key>>
      <4>1. k = [i \in 1..1 |-> k[i]]
        BY <3>2 DEF Line0
      <4>2. key \in Tokens
        BY <3>2 DEF Line0
      <4>3. <<key>> \in Line0
        BY <4>2 DEF Line0
      <4>4. \A i \in 1..Len(k) : k[i] = <<key>>[i]
        BY <3>2
      <4> QED
        BY <3>1, <3>2, <4>3, <4>4, LinesEqual
    <3> QED
      BY <3>1, <3>2
  <2>3. g - 1 = 1 <=> g = 2
    OBVIOUS
  <2> QED
    BY <1>12, <2>1, <2>2, <2>3
<1>14. ASSUME NEW key, Names(l, key), splitKey(t).args # << >> PROVE splitKey(t).args = Value(l)
  <2>1. g = 2
    BY <1>2, <1>10, <1>11, <1>14 DEF Names
  <2>2. PICK c \in Nat : c = (m - p) - 1
    BY <1>4
  <2>3. PICK s \in Line0 : /\ s = SubSeq(t, 2, m - p) /\ Len(s) = c
                           /\ \A i \in 1..c : s[i] = l[(p + 1) + i]
    <3>1. PICK s : s = SubSeq(t, 1 + 1, m - p)
      OBVIOUS
    <3>2. m - p \in Nat /\ 1 <= m - p /\ m - p <= Len(t) /\ 1 \in Nat /\ 1 + 1 = 2
      BY <1>4, <1>5
    <3>3. s \in Line0 /\ Len(s) = (m - p) - 1 /\ \A i \in 1..((m - p) - 1) : s[i] = t[1 + i]
      <4>1. PICK e \in Nat : e = m - p /\ 1 <= e /\ e <= Len(t)
        BY <3>2
      <4>2. s = SubSeq(t, 1 + 1, e)
        BY <3>1, <4>1
      <4>3. s \in Line0 /\ Len(s) = e - 1 /\ \A i \in 1..(e - 1) : s[i] = t[1 + i]
        <5>1. PICK j \in Nat : j = 1
          OBVIOUS
        <5>2. s = SubSeq(t, j + 1, e) /\ j <= e /\ e <= Len(t)
          BY <4>1, <4>2, <5>1
        <5>3. s \in Line0 /\ Len(s) = e - j /\ \A i \in 1..(e - j) : s[i] = t[j + i]
          BY <1>5, <5>2, SubIs
        <5> QED
          BY <5>1, <5>3
      <4> QED
        BY <4>1, <4>3
    <3>4. \A i \in 1..c : 1 + i \in 1..(m - p) /\ p + (1 + i) = (p + 1) + i
      BY <2>2
    <3>5. ASSUME NEW i \in 1..c PROVE s[i] = l[(p + 1) + i]
      <4>1. s[i] = t[1 + i]
        BY <2>2, <3>3
      <4>2. t[1 + i] = l[p + (1 + i)]
        BY <1>5, <3>4
      <4> QED
        BY <3>4, <4>1, <4>2
    <3> QED
      BY <2>2, <3>1, <3>2, <3>3, <3>5
  <2>4. PICK d \in 0..c : /\ d = Lead(s) /\ \A i \in 1..d : s[i] \in White
                          /\ d < c => s[d + 1] \notin White
    BY <2>3, DropWhiteIs
  <2>5. PICK a \in Line0 : a = splitKey(t).args /\ Len(a) = c - d /\ \A i \in 1..(c - d) : a[i] = s[d + i]
    <3>1. PICK a : a = DropWhite(s)
      OBVIOUS
    <3>2. a \in Line0 /\ Len(a) = c - d /\ \A i \in 1..(c - d) : a[i] = s[d + i]
      <4>1. s \in Line0 /\ Len(s) = c /\ Lead(s) = d
        BY <2>3, <2>4
      <4>2. /\ a \in Line0 /\ Len(a) = Len(s) - Lead(s)
            /\ \A i \in 1..Len(a) : a[i] = s[Lead(s) + i]
        BY <3>1, DropWhiteIs
      <4> QED
        BY <4>1, <4>2
    <3>3. splitKey(t).args = a
      BY <1>8, <2>1, <2>3, <3>1
    <3> QED
      BY <3>2, <3>3
  <2>6. d < c
    <3>1. Len(a) # 0
      BY <1>14, <2>5, LenIs
    <3> QED
      BY <2>5, <3>1
  (* The first and the last text after the key. *)
  <2> DEFINE T == {i \in ((p + 1) + 1)..n : l[i] \notin White}
  <2>7. T \subseteq Nat /\ T \subseteq 1..n
    OBVIOUS
  <2>8. Min(T) = ((p + 1) + d) + 1
    <3>1. ((p + 1) + d) + 1 \in T
      <4>1. d + 1 \in 1..c /\ (p + 1) + (d + 1) = ((p + 1) + d) + 1
            /\ ((p + 1) + d) + 1 \in ((p + 1) + 1)..n
        BY <2>2, <2>6
      <4> QED
        BY <2>3, <2>4, <2>6, <4>1
    <3>2. ASSUME NEW i \in T PROVE ((p + 1) + d) + 1 <= i
      <4> SUFFICES ASSUME ~(((p + 1) + d) + 1 <= i) PROVE FALSE
        OBVIOUS
      <4>1. i - (p + 1) \in 1..d /\ i - (p + 1) \in 1..c /\ (p + 1) + (i - (p + 1)) = i
        OBVIOUS
      <4> QED
        BY <2>3, <2>4, <4>1
    <3> HIDE DEF T
    <3> QED
      BY <2>7, <3>1, <3>2, LeastIs
  <2>9. Max(T) = m
    <3>1. m \in T
      BY <1>4, <2>2, <2>6
    <3>2. ASSUME NEW i \in T PROVE i <= m
      <4>1. i \in 1..n /\ i \notin (m + 1)..n
        BY <1>4
      <4> QED
        BY <4>1
    <3> HIDE DEF T
    <3> QED
      BY <2>7, <3>1, <3>2, MostIs
  <2>10. Value(l) = SubSeq(l, ((p + 1) + d) + 1, m)
    BY <1>2, <1>10, <2>8, <2>9 DEF Value
  <2>11. PICK b : b = SubSeq(l, ((p + 1) + d) + 1, m)
    OBVIOUS
  <2>12. b \in Line0 /\ Len(b) = c - d /\ \A i \in 1..(c - d) : b[i] = l[((p + 1) + d) + i]
    <3>1. (p + 1) + d \in Nat /\ (p + 1) + d <= m /\ m <= Len(l) /\ m - ((p + 1) + d) = c - d
      BY <1>2, <2>2
    <3>2. PICK e \in Nat : e = (p + 1) + d
      OBVIOUS
    <3>3. b = SubSeq(l, e + 1, m) /\ e <= m /\ m \in Nat /\ m <= Len(l)
      BY <2>11, <3>1, <3>2
    <3>4. b \in Line0 /\ Len(b) = m - e /\ \A i \in 1..(m - e) : b[i] = l[e + i]
      BY <1>1, <3>3, SubIs
    <3> QED
      BY <3>1, <3>2, <3>4
  <2>13. ASSUME NEW i \in 1..(c - d) PROVE a[i] = b[i]
    <3>1. d + i \in 1..c /\ (p + 1) + (d + i) = ((p + 1) + d) + i
      OBVIOUS
    <3>2. a[i] = s[d + i] /\ s[d + i] = l[(p + 1) + (d + i)] /\ b[i] = l[((p + 1) + d) + i]
      BY <2>3, <2>5, <2>12, <3>1
    <3> QED
      BY <3>1, <3>2
  <2>14. a = b
    BY <2>5, <2>12, <2>13, LinesEqual
  <2> QED
    BY <2>5, <2>10, <2>11, <2>14
<1> QED
  BY <1>13, <1>14

LEMMA ConfStep ==
    ASSUME NEW r \in Reader, ~r.crashed, ~r.isMultiline, NEW l \in Cleaned,
           NEW q, q = Line(r, l), ~q.crashed
    PROVE  /\ Continues(l) => q.conf = r.conf
           /\ ~Continues(l) =>
                /\ q.conf.port = IF Names(l, "port") THEN NumberOf[Value(l)[1]] ELSE r.conf.port
                /\ q.conf.led = IF Names(l, "led") THEN NumberOf[Value(l)[1]] ELSE r.conf.led
                /\ q.conf.starfrit = IF Names(l, "starfrit") THEN (Value(l) = <<"ON">>)
                                     ELSE r.conf.starfrit
                /\ q.conf.starfrit_args = IF Names(l, "starfrit_url") THEN Value(l)
                                          ELSE r.conf.starfrit_args
<1>1. PICK t \in Line0 : t = trim(l).text
  BY CleanedTurn
<1>2. q = After(r, t, Continues(l))
  BY <1>1, CleanedTurn DEF Whole
<1>3. CASE Continues(l)
  <2>1. q = [r EXCEPT !.line = t, !.isMultiline = Continues(l)]
    BY <1>2, <1>3 DEF After
  <2>2. q.conf = r.conf
    BY <2>1 DEF Reader
  <2> QED
    BY <1>3, <2>2
<1>4. CASE ~Continues(l)
  <2>1. PICK x : x = [r EXCEPT !.line = t, !.isMultiline = FALSE]
    OBVIOUS
  <2>2. x \in Reader /\ x.conf = r.conf
    BY <2>1 DEF Reader
  <2>3. PICK key, args : key = splitKey(t).key /\ args = splitKey(t).args /\ args \in Line0
    BY SplitIs
  <2>4. q = Assign(x, key, args)
    <3>1. Continues(l) = FALSE
      BY <1>4 DEF Continues
    <3> QED
      BY <1>2, <2>1, <2>3, <3>1 DEF After
  <2>5. \A k : key = <<k>> <=> Names(l, k)
    BY <1>1, <1>4, <2>3, SplitText
  <2>6. \A k : Names(l, k) /\ args # << >> => args = Value(l)
    BY <1>1, <1>4, <2>3, SplitText
  <2>7. key \in Keys <=> \/ Names(l, "port") \/ Names(l, "led")
                         \/ Names(l, "starfrit") \/ Names(l, "starfrit_url")
    BY <2>5 DEF Keys
  <2>8. \A k, j : Names(l, k) /\ Names(l, j) => k = j
    BY DEF Names
  <2>9. CASE key \notin Keys
    BY <1>4, <2>2, <2>4, <2>7, <2>9 DEF Assign
  <2>10. CASE key \in Keys
    <3>1. args # << >>
      <4> SUFFICES ASSUME args = << >> PROVE FALSE
        OBVIOUS
      <4>1. q = [x EXCEPT !.crashed = TRUE]
        BY <2>4, <2>10 DEF Assign
      <4> QED
        BY <2>2, <4>1 DEF Reader
    <3>2. PICK v \in Line0 : v = args /\ v = Value(l)
      BY <2>3, <2>6, <2>7, <2>10, <3>1
    <3>3. CASE Names(l, "port")
      <4>1. key = <<"port">> /\ ~Names(l, "led") /\ ~Names(l, "starfrit") /\ ~Names(l, "starfrit_url")
        BY <2>5, <2>8, <3>3
      <4>2. q = [x EXCEPT !.conf.port = NumberOf[v[1]]]
        BY <2>4, <2>10, <3>1, <3>2, <4>1 DEF Assign
      <4> QED
        BY <1>4, <2>2, <3>2, <3>3, <4>1, <4>2 DEF Reader
    <3>4. CASE Names(l, "led")
      <4>1. key = <<"led">> /\ ~Names(l, "port") /\ ~Names(l, "starfrit") /\ ~Names(l, "starfrit_url")
        BY <2>5, <2>8, <3>4
      <4>2. q = [x EXCEPT !.conf.led = NumberOf[v[1]]]
        BY <2>4, <2>10, <3>1, <3>2, <4>1 DEF Assign
      <4> QED
        BY <1>4, <2>2, <3>2, <3>4, <4>1, <4>2 DEF Reader
    <3>5. CASE Names(l, "starfrit")
      <4>1. key = <<"starfrit">> /\ ~Names(l, "port") /\ ~Names(l, "led") /\ ~Names(l, "starfrit_url")
        BY <2>5, <2>8, <3>5
      <4>2. q = [x EXCEPT !.conf.starfrit = (v = <<"ON">>)]
        BY <2>4, <2>10, <3>1, <3>2, <4>1 DEF Assign
      <4> QED
        BY <1>4, <2>2, <3>2, <3>5, <4>1, <4>2 DEF Reader
    <3>6. CASE Names(l, "starfrit_url")
      <4>1. key = <<"starfrit_url">> /\ ~Names(l, "port") /\ ~Names(l, "led") /\ ~Names(l, "starfrit")
        BY <2>5, <2>8, <3>6
      <4>2. q = [x EXCEPT !.conf.starfrit_args = v]
        BY <2>4, <2>10, <3>1, <3>2, <4>1 DEF Assign
      <4> QED
        BY <1>4, <2>2, <3>2, <3>6, <4>1, <4>2 DEF Reader
    <3> QED
      BY <2>7, <2>10, <3>3, <3>4, <3>5, <3>6
  <2> QED
    BY <2>9, <2>10
<1> QED
  BY <1>3, <1>4

(* Which of the first k lines give a key a value, and what they make.      *)
Giving(lines, k, key) == {i \in 1..k : Names(lines[i], key) /\ ~Continues(lines[i])}
LastGiven(lines, k, key) == Value(lines[Max(Giving(lines, k, key))])
Written(lines, k, conf) ==
    /\ conf.port = IF Giving(lines, k, "port") = {} THEN 8000
                   ELSE NumberOf[LastGiven(lines, k, "port")[1]]
    /\ conf.led = IF Giving(lines, k, "led") = {} THEN 0
                  ELSE NumberOf[LastGiven(lines, k, "led")[1]]
    /\ conf.starfrit = (Giving(lines, k, "starfrit") # {} /\ LastGiven(lines, k, "starfrit") = <<"ON">>)
    /\ conf.starfrit_args = IF Giving(lines, k, "starfrit_url") = {} THEN << >>
                            ELSE LastGiven(lines, k, "starfrit_url")

LEMMA GivingGrows ==
    ASSUME NEW lines, NEW k \in Nat \ {0}, NEW key
    PROVE  /\ Names(lines[k], key) /\ ~Continues(lines[k]) =>
                 Giving(lines, k, key) # {} /\ LastGiven(lines, k, key) = Value(lines[k])
           /\ ~(Names(lines[k], key) /\ ~Continues(lines[k])) =>
                 Giving(lines, k, key) = Giving(lines, k - 1, key)
<1>1. \A i \in 1..k : i \in 1..(k - 1) \/ i = k
  OBVIOUS
<1>2. \A i \in 1..(k - 1) : i \in 1..k
  OBVIOUS
<1>3. ASSUME Names(lines[k], key) /\ ~Continues(lines[k])
      PROVE  Giving(lines, k, key) # {} /\ LastGiven(lines, k, key) = Value(lines[k])
  <2>1. k \in Giving(lines, k, key) /\ Giving(lines, k, key) \subseteq 1..k
    BY <1>3 DEF Giving
  <2>2. \A i \in Giving(lines, k, key) : i <= k
    BY <2>1
  <2>3. Max(Giving(lines, k, key)) = k
    BY <2>1, <2>2, MostIs
  <2> QED
    BY <2>1, <2>3 DEF LastGiven
<1>4. ASSUME ~(Names(lines[k], key) /\ ~Continues(lines[k]))
      PROVE  Giving(lines, k, key) = Giving(lines, k - 1, key)
  BY <1>1, <1>2, <1>4 DEF Giving
<1> QED
  BY <1>3, <1>4

LEMMA WrittenGrows ==
    ASSUME NEW lines \in Seq(Cleaned), NEW k \in 1..Len(lines), NEW r \in Reader, NEW q,
           q = Line(r, lines[k]), ~r.crashed, ~r.isMultiline, ~q.crashed, Written(lines, k - 1, r.conf)
    PROVE  Written(lines, k, q.conf)
<1>1. PICK l \in Cleaned : l = lines[k]
  OBVIOUS
<1>2. k \in Nat \ {0}
  OBVIOUS
<1>3. CASE Continues(l)
  <2>1. q.conf = r.conf
    BY <1>1, <1>3, ConfStep
  <2>2. \A key : Giving(lines, k, key) = Giving(lines, k - 1, key)
    BY <1>1, <1>2, <1>3, GivingGrows
  <2>3. \A key : LastGiven(lines, k, key) = LastGiven(lines, k - 1, key)
    BY <2>2 DEF LastGiven
  <2> QED
    BY <2>1, <2>2, <2>3 DEF Written
<1>4. CASE ~Continues(l)
  <2>1. /\ q.conf.port = IF Names(l, "port") THEN NumberOf[Value(l)[1]] ELSE r.conf.port
        /\ q.conf.led = IF Names(l, "led") THEN NumberOf[Value(l)[1]] ELSE r.conf.led
        /\ q.conf.starfrit = IF Names(l, "starfrit") THEN (Value(l) = <<"ON">>)
                             ELSE r.conf.starfrit
        /\ q.conf.starfrit_args = IF Names(l, "starfrit_url") THEN Value(l)
                                  ELSE r.conf.starfrit_args
    BY <1>1, <1>4, ConfStep
  <2>2. \A key : IF Names(l, key)
                 THEN Giving(lines, k, key) # {} /\ LastGiven(lines, k, key) = Value(l)
                 ELSE /\ Giving(lines, k, key) = Giving(lines, k - 1, key)
                      /\ LastGiven(lines, k, key) = LastGiven(lines, k - 1, key)
    BY <1>1, <1>2, <1>4, GivingGrows DEF LastGiven
  <2>3. q.conf.port = IF Giving(lines, k, "port") = {} THEN 8000
                      ELSE NumberOf[LastGiven(lines, k, "port")[1]]
    BY <2>1, <2>2 DEF Written
  <2>4. q.conf.led = IF Giving(lines, k, "led") = {} THEN 0
                     ELSE NumberOf[LastGiven(lines, k, "led")[1]]
    BY <2>1, <2>2 DEF Written
  <2>5. q.conf.starfrit = (Giving(lines, k, "starfrit") # {} /\ LastGiven(lines, k, "starfrit") = <<"ON">>)
    BY <2>1, <2>2 DEF Written
  <2>6. q.conf.starfrit_args = IF Giving(lines, k, "starfrit_url") = {} THEN << >>
                               ELSE LastGiven(lines, k, "starfrit_url")
    BY <2>1, <2>2 DEF Written
  <2> QED
    BY <2>3, <2>4, <2>5, <2>6 DEF Written
<1> QED
  BY <1>3, <1>4

LEMMA WrittenByAll ==
    ASSUME NEW f \in Seq(Cleaned), \A i \in 1..(Len(f) - 1) : ~Continues(f[i])
    PROVE  ReadAll(f).crashed \/ Written(f, Len(f), ReadAll(f).conf)
<1> DEFINE a(k) == ReadAll(SubSeq(f, 1, k))
           S == {k \in 0..Len(f) : a(k).crashed \/ Written(f, k, a(k).conf)}
<1>1. PICK n \in Nat : n = Len(f)
  OBVIOUS
<1>2. a(0) = Reader0
  <2>1. SubSeq(f, 1, 0) = << >>
    BY FirstLines
  <2> QED
    BY <2>1, ReadAllAppend
<1>3. ASSUME NEW k \in 1..n
      PROVE  f[k] \in Cleaned /\ a(k - 1) \in Reader /\ a(k) = Line(a(k - 1), f[k])
  <2>1. k - 1 \in 0..Len(f) /\ k \in 1..Len(f)
    BY <1>1
  <2>2. PICK x \in Seq(Cleaned) : x = SubSeq(f, 1, k - 1)
    BY <2>1, FirstLines
  <2>3. PICK l \in Cleaned : l = f[k] /\ SubSeq(f, 1, k) = Append(x, l)
    BY <2>1, <2>2, FirstLines
  <2>4. ReadAll(x) \in Reader /\ ReadAll(Append(x, l)) = Line(ReadAll(x), l)
    BY CleanedAreLines, ReadAllAppend
  <2> QED
    BY <2>2, <2>3, <2>4
<1>4. a(n) = ReadAll(f)
  BY <1>1, FirstLines
<1> HIDE DEF a
<1>5. 0 \in S
  <2>1. Giving(f, 0, "port") = {} /\ Giving(f, 0, "led") = {}
        /\ Giving(f, 0, "starfrit") = {} /\ Giving(f, 0, "starfrit_url") = {}
    BY DEF Giving
  <2>2. Written(f, 0, Reader0.conf)
    <3>1. PICK c : c = Reader0.conf
      OBVIOUS
    <3>2. c.port = 8000 /\ c.led = 0 /\ c.starfrit = FALSE /\ c.starfrit_args = << >>
      BY <3>1 DEF Reader0, Conf0
    <3>3. Written(f, 0, c)
      <4>1. c.starfrit = (Giving(f, 0, "starfrit") # {} /\ LastGiven(f, 0, "starfrit") = <<"ON">>)
        <5>1. ~(Giving(f, 0, "starfrit") # {} /\ LastGiven(f, 0, "starfrit") = <<"ON">>)
          BY <2>1
        <5>2. (Giving(f, 0, "starfrit") # {} /\ LastGiven(f, 0, "starfrit") = <<"ON">>) = FALSE
          BY <5>1
        <5>3. c.starfrit = FALSE
          BY <3>2
        <5> QED
          BY <5>2, <5>3, Zenon
      <4>2. c.port = IF Giving(f, 0, "port") = {} THEN 8000 ELSE NumberOf[LastGiven(f, 0, "port")[1]]
        BY <2>1, <3>2
      <4>3. c.led = IF Giving(f, 0, "led") = {} THEN 0 ELSE NumberOf[LastGiven(f, 0, "led")[1]]
        BY <2>1, <3>2
      <4>4. c.starfrit_args = IF Giving(f, 0, "starfrit_url") = {} THEN << >>
                              ELSE LastGiven(f, 0, "starfrit_url")
        BY <2>1, <3>2
      <4> QED
        BY <4>1, <4>2, <4>3, <4>4 DEF Written
    <3> QED
      BY <3>1, <3>3
  <2>3. 0 \in 0..Len(f)
    BY <1>1
  <2> QED
    BY <1>2, <2>2, <2>3
<1>6. ASSUME NEW k \in 1..n, k - 1 \in S PROVE k \in S
  <2>1. PICK r \in Reader : r = a(k - 1) /\ a(k) = Line(r, f[k])
    BY <1>3
  <2>2. k \in 0..Len(f) /\ k \in 1..Len(f)
    BY <1>1
  <2> SUFFICES ASSUME ~a(k).crashed PROVE Written(f, k, a(k).conf)
    BY <2>2
  <2>3. ~r.crashed
    <3>1. r.crashed => a(k) = r
      BY <1>3, <2>1, CleanedTurn
    <3> QED
      BY <3>1
  <2>4. ~r.isMultiline
    <3>1. CASE k = 1
      <4>1. r = Reader0
        BY <1>2, <2>1, <3>1
      <4> QED
        BY <4>1 DEF Reader0
    <3>2. CASE k # 1
      <4>1. k - 1 \in 1..n /\ k - 1 \in 1..(n - 1)
        BY <3>2
      <4>2. PICK e \in Reader, l \in Cleaned : l = f[k - 1] /\ r = Line(e, l)
        BY <1>3, <2>1, <4>1
      <4>3. r.isMultiline = Continues(l)
        BY <2>3, <4>2, MultilineIs
      <4> QED
        BY <1>1, <4>1, <4>2, <4>3
    <3> QED
      BY <3>1, <3>2
  <2>5. Written(f, k - 1, r.conf)
    BY <1>6, <2>1, <2>3
  <2> QED
    BY <2>1, <2>2, <2>3, <2>4, <2>5, WrittenGrows
<1>7. n \in S
  <2>1. 0..n \subseteq S
    <3> HIDE DEF S
    <3> QED
      BY <1>5, <1>6, IntervalInduction
  <2>2. n \in 0..n
    OBVIOUS
  <2> HIDE DEF S
  <2> QED
    BY <2>1, <2>2
<1> QED
  BY <1>1, <1>4, <1>7

(* Each key has the value of the last line that gives it one, whatever     *)
(* stands on the other lines, in any file of which fgets() cuts no line.   *)
THEOREM ValuesAsWrittenHolds == Spec => []ValuesAsWritten
<1>1. ReadSoFar => ValuesAsWritten
  <2> SUFFICES ASSUME ReadSoFar, ReadWhole
               PROVE  /\ reader.conf.port = IF Given("port") = {} THEN 8000 ELSE NumberOf[ValueOf("port")[1]]
                      /\ reader.conf.led = IF Given("led") = {} THEN 0 ELSE NumberOf[ValueOf("led")[1]]
                      /\ reader.conf.starfrit = (Given("starfrit") # {} /\ ValueOf("starfrit") = <<"ON">>)
                      /\ reader.conf.starfrit_args = IF Given("starfrit_url") = {} THEN << >>
                                                     ELSE ValueOf("starfrit_url")
    BY DEF ValuesAsWritten
  <2>1. reader = ReadAll(Uncommented) /\ ~reader.crashed
    BY ReadToItsEnd, ReadCleaned DEF Uncommented, ReadWhole
  <2>2. Uncommented \in Seq(Cleaned)
    BY ReadToItsEnd, CleanAppend DEF Uncommented
  <2>3. JoinedSoFar(Joined, ReadAll(Uncommented))
    BY <2>2, ReadJoined DEF Joined
  <2>4. PICK f \in Seq(Cleaned) : f = Joined /\ \A i \in 1..(Len(f) - 1) : ~Continues(f[i])
    BY <2>3 DEF JoinedSoFar
  <2>5. reader.conf = ReadAll(f).conf /\ ~ReadAll(f).crashed
    BY <2>1, <2>3, <2>4 DEF JoinedSoFar, Same
  <2>6. Written(f, Len(f), reader.conf)
    BY <2>4, <2>5, WrittenByAll
  <2>7. \A key : Giving(f, Len(f), key) = Given(key)
    <3>1. DOMAIN f = 1..Len(f)
      OBVIOUS
    <3> QED
      BY <2>4, <3>1 DEF Giving, Given
  <2>8. \A key : LastGiven(f, Len(f), key) = ValueOf(key)
    BY <2>4, <2>7 DEF LastGiven, ValueOf
  <2> QED
    BY <2>6, <2>7, <2>8 DEF Written
<1> QED
  BY <1>1, ReadsInOrder, PTL
=============================================================================
