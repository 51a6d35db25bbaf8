---------------------------- MODULE Codec_proofs ----------------------------
(***************************************************************************)
(* Theorems about the codecs, for messages of any number and length,       *)
(* decoder buffers of any size, samples cut anywhere, and any number of    *)
(* flushes: what is heard whole is decoded as it was sent, the loop in     *)
(* Java does what the one in C does, and what Java encodes it reads back.  *)
(*                                                                         *)
(* The trains of the messages lie one behind the other in what is heard    *)
(* (IsLayout); a call of decode() comes to the end of one of them or stays *)
(* within it (CallOutcome), and the buffer has the bits of that train up   *)
(* to there.                                                               *)
(***************************************************************************)
EXTENDS Binding, Induction, FiniteSetTheorems

Codec2 == {"nec", "unkn0"}

(* No sample is longer than the pause.                                     *)
Length == 0..Pause
Sample == [mode : {"pulse", "space"}, len : Length]

(* What ends a frame, what is a 1, and the samples before the first bit.   *)
IsEnd(c, s) == IF c = "nec" THEN s.len > NEC_TS ELSE s.mode = "space" /\ s.len > UNKN0_TS
Limit(c) == IF c = "nec" THEN NEC_TD ELSE UNKN0_TD
Before(c) == IF c = "nec" THEN 2 ELSE 0


----------------------------------------------------------------------------
(* Trains *)

(* The lengths, as numbers; Pause stays a name, whatever its value is.     *)
LEMMA LengthIs == Pause = 77000 /\ \A x : x \in Length <=> x \in Nat /\ x <= Pause
<1>1. Pause = 77000
  BY DEF Pause
<1>2. Pause \in Nat
  BY <1>1
<1>3. \A x : x \in Length <=> x \in Nat /\ x <= Pause
  BY <1>2 DEF Length
<1> QED
  BY <1>1, <1>3

LEMMA TrainShape ==
    ASSUME NEW m \in Seq(Bit), NEW t0 \in Length, NEW t1 \in Length
    PROVE  /\ Train(m, t0, t1) \in Seq(Length) /\ Len(Train(m, t0, t1)) = 2 * Len(m) + 1
           /\ \A i \in 1..Len(m) : /\ Train(m, t0, t1)[2 * i - 1] = t0
                                   /\ Train(m, t0, t1)[2 * i] = IF m[i] = 1 THEN t1 ELSE t0
           /\ Train(m, t0, t1)[2 * Len(m) + 1] = t0
<1> DEFINE a == [i \in 1..(2 * Len(m)) |-> IF i % 2 = 0 /\ m[i \div 2] = 1 THEN t1 ELSE t0]
<1>1. PICK l \in Nat : l = Len(m)
  OBVIOUS
<1>2. a \in Seq(Length) /\ Len(a) = 2 * l
  BY <1>1
<1>3. \A i \in 1..l : a[2 * i - 1] = t0 /\ a[2 * i] = IF m[i] = 1 THEN t1 ELSE t0
  <2> TAKE i \in 1..l
  <2>1. /\ 2 * i - 1 \in 1..(2 * l) /\ (2 * i - 1) % 2 # 0
        /\ 2 * i \in 1..(2 * l) /\ (2 * i) % 2 = 0 /\ (2 * i) \div 2 = i
    OBVIOUS
  <2> QED
    BY <1>1, <2>1
<1> HIDE DEF a
<1>4. Train(m, t0, t1) = a \o <<t0>>
  BY DEF Train, a
<1>5. /\ a \o <<t0>> \in Seq(Length) /\ Len(a \o <<t0>>) = 2 * l + 1
      /\ \A i \in 1..(2 * l) : (a \o <<t0>>)[i] = a[i]
      /\ (a \o <<t0>>)[2 * l + 1] = t0
  BY <1>2
<1>6. \A i \in 1..l : 2 * i - 1 \in 1..(2 * l) /\ 2 * i \in 1..(2 * l)
  OBVIOUS
<1> QED
  BY <1>1, <1>3, <1>4, <1>5, <1>6

(* A train as it is heard. *)
LEMMA HearShape ==
    ASSUME NEW t \in Seq(Length)
    PROVE  /\ Hear(t) \in Seq(Sample)
           /\ t = << >> => Hear(t) = << >>
           /\ t # << >> => /\ Len(Hear(t)) = Len(t) + 1
                           /\ \A i \in 1..Len(t) :
                                 /\ Hear(t)[i].mode = IF i % 2 = 1 THEN "pulse" ELSE "space"
                                 /\ Hear(t)[i].len = t[i]
                           /\ Hear(t)[Len(t) + 1] = [mode |-> "space", len |-> Pause]
<1> DEFINE s(i) == [mode |-> IF i % 2 = 1 THEN "pulse" ELSE "space", len |-> t[i]]
           a == [i \in 1..Len(t) |-> s(i)]
<1>1. \A i \in 1..Len(t) : s(i) \in Sample
  BY DEF Sample
<1>2. \A i : s(i).mode = (IF i % 2 = 1 THEN "pulse" ELSE "space") /\ s(i).len = t[i]
  OBVIOUS
<1> HIDE DEF s
<1>3. a \in Seq(Sample) /\ Len(a) = Len(t) /\ \A i \in 1..Len(t) : a[i] = s(i)
  BY <1>1
<1> HIDE DEF a
<1>4. PICK p \in Sample : p = [mode |-> "space", len |-> Pause]
  <2>1. Pause \in Length
    BY LengthIs
  <2>2. [mode |-> "space", len |-> Pause] \in Sample
    BY <2>1 DEF Sample
  <2> QED
    BY <2>2, Zenon
<1>5. Hear(t) = a \o (IF t = << >> THEN << >> ELSE <<p>>)
  BY <1>4, Zenon DEF Hear, a, s
<1>6. CASE t = << >>
  <2>1. a = << >>
    BY <1>3, <1>6
  <2>2. Hear(t) = a \o << >>
    BY <1>5, <1>6
  <2>3. a \o << >> = << >>
    BY <2>1
  <2>4. << >> \in Seq(Sample)
    BY EmptySeq
  <2> QED
    BY <1>6, <2>2, <2>3, <2>4
<1>7. CASE t # << >>
  <2>1. /\ a \o <<p>> \in Seq(Sample) /\ Len(a \o <<p>>) = Len(t) + 1
        /\ \A i \in 1..Len(t) : (a \o <<p>>)[i] = s(i)
        /\ (a \o <<p>>)[Len(t) + 1] = p
    BY <1>3
  <2>2. Hear(t) = a \o <<p>>
    BY <1>5, <1>7
  <2> QED
    BY <1>2, <1>4, <1>7, <2>1, <2>2
<1> QED
  BY <1>6, <1>7

(* What is heard of a message: its header, its bits, the last pulse and    *)
(* the pause.                                                              *)
IsHeard(c, m, w) ==
    LET h == Before(c) IN
    /\ w \in Seq(Sample)
    /\ m = << >> => w = << >>
    /\ m # << >> =>
          /\ Len(w) = h + 2 * Len(m) + 2
          /\ \A x \in 1..h : IsEnd(c, w[x])
          /\ \A i \in 1..Len(m) :
                /\ w[h + 2 * i - 1].mode = "pulse" /\ ~IsEnd(c, w[h + 2 * i - 1])
                /\ w[h + 2 * i].mode = "space" /\ ~IsEnd(c, w[h + 2 * i])
                /\ w[h + 2 * i].len > Limit(c) <=> m[i] = 1
          /\ w[h + 2 * Len(m) + 1].mode = "pulse" /\ ~IsEnd(c, w[h + 2 * Len(m) + 1])
          /\ IsEnd(c, w[h + 2 * Len(m) + 2])

LEMMA MessageHeard ==
    ASSUME NEW c \in Codec2, NEW m \in Seq(Bit)
    PROVE  IsHeard(c, m, Hear(encode(c, m)))
<1>1. PICK l \in Nat : l = Len(m)
  OBVIOUS
<1>2. CASE m = << >>
  <2>1. encode(c, m) = << >> /\ << >> \in Seq(Length)
    BY <1>2, EmptySeq DEF encode, nec_encode, unkn0_encode
  <2>2. Hear(encode(c, m)) = << >> /\ Hear(encode(c, m)) \in Seq(Sample)
    BY <2>1, HearShape
  <2> QED
    BY <1>2, <2>2 DEF IsHeard
<1>3. CASE m # << >> /\ c = "unkn0"
  <2>1. PICK t0 \in Length, t1 \in Length : t0 = 500 /\ t1 = 1000
    <3>1. 500 \in Length /\ 1000 \in Length
      BY LengthIs
    <3> QED
      BY <3>1
  <2>18. PICK t : t = Train(m, t0, t1)
    OBVIOUS
  <2>19. /\ Train(m, t0, t1) \in Seq(Length) /\ Len(Train(m, t0, t1)) = 2 * Len(m) + 1
         /\ \A i \in 1..Len(m) : /\ Train(m, t0, t1)[2 * i - 1] = t0
                                 /\ Train(m, t0, t1)[2 * i] = IF m[i] = 1 THEN t1 ELSE t0
         /\ Train(m, t0, t1)[2 * Len(m) + 1] = t0
    BY TrainShape
  <2>2. /\ t \in Seq(Length) /\ Len(t) = 2 * l + 1
        /\ \A i \in 1..l : t[2 * i - 1] = 500 /\ t[2 * i] = IF m[i] = 1 THEN 1000 ELSE 500
        /\ t[2 * l + 1] = 500
    BY <1>1, <2>1, <2>18, <2>19
  <2>3. encode(c, m) = t
    BY <1>3, <2>1, <2>18 DEF encode, unkn0_encode, UNKN0_T0, UNKN0_T1
  <2>4. t # << >>
    BY <2>2
  <2>5. PICK w : w = Hear(t)
    OBVIOUS
  <2>6. /\ w \in Seq(Sample) /\ Len(w) = 2 * l + 2
        /\ \A i \in 1..(2 * l + 1) : w[i].mode = (IF i % 2 = 1 THEN "pulse" ELSE "space") /\ w[i].len = t[i]
        /\ w[2 * l + 2].mode = "space" /\ w[2 * l + 2].len = Pause
    <3>1. (2 * l + 1) + 1 = 2 * l + 2
      OBVIOUS
    <3>2. /\ Hear(t) \in Seq(Sample)
          /\ t # << >> => /\ Len(Hear(t)) = Len(t) + 1
                          /\ \A i \in 1..Len(t) :
                                /\ Hear(t)[i].mode = IF i % 2 = 1 THEN "pulse" ELSE "space"
                                /\ Hear(t)[i].len = t[i]
                          /\ Hear(t)[Len(t) + 1] = [mode |-> "space", len |-> Pause]
      BY <2>2, HearShape, ZenonT(60)
    <3> QED
      BY <2>2, <2>4, <2>5, <3>1, <3>2
  <2>7. ASSUME NEW i \in 1..l
        PROVE  /\ w[2 * i - 1].mode = "pulse" /\ w[2 * i - 1].len = 500
               /\ w[2 * i].mode = "space" /\ w[2 * i].len = IF m[i] = 1 THEN 1000 ELSE 500
    <3>1. /\ 2 * i - 1 \in 1..(2 * l + 1) /\ (2 * i - 1) % 2 = 1
          /\ 2 * i \in 1..(2 * l + 1) /\ (2 * i) % 2 # 1
      OBVIOUS
    <3> QED
      BY <2>2, <2>6, <3>1
  <2>8. w[2 * l + 1].mode = "pulse"
    <3>1. 2 * l + 1 \in 1..(2 * l + 1) /\ (2 * l + 1) % 2 = 1
      OBVIOUS
    <3> QED
      BY <2>6, <3>1
  <2>9. Before(c) = 0 /\ Limit(c) = 800 /\ \A s : IsEnd(c, s) <=> s.mode = "space" /\ s.len > 10000
    BY <1>3 DEF Before, Limit, IsEnd, UNKN0_TD, UNKN0_TS
  <2>10. /\ \A i \in 1..l : 0 + 2 * i - 1 = 2 * i - 1 /\ 0 + 2 * i = 2 * i
         /\ 0 + 2 * l + 1 = 2 * l + 1 /\ 0 + 2 * l + 2 = 2 * l + 2
    OBVIOUS
  <2> HIDE DEF Before, Limit, IsEnd
  <2>11. IsEnd(c, w[2 * l + 2])
    <3>1. Pause > 10000
      BY LengthIs
    <3> QED
      BY <2>6, <2>9, <3>1
  <2>12. ASSUME NEW i \in 1..l
         PROVE  /\ ~IsEnd(c, w[2 * i - 1]) /\ ~IsEnd(c, w[2 * i])
                /\ w[2 * i].len > 800 <=> m[i] = 1
    <3>1. ~IsEnd(c, w[2 * i - 1])
      <4>1. w[2 * i - 1].mode = "pulse"
        BY <2>7
      <4> QED
        BY <2>9, <4>1
    <3>2. CASE m[i] = 1
      <4>1. w[2 * i].len = 1000
        BY <2>7, <3>2
      <4> QED
        BY <2>9, <3>1, <3>2, <4>1
    <3>3. CASE m[i] # 1
      <4>1. w[2 * i].len = 500
        BY <2>7, <3>3
      <4> QED
        BY <2>9, <3>1, <3>3, <4>1
    <3> QED
      BY <3>2, <3>3
  <2>13. ~IsEnd(c, w[2 * l + 1])
    BY <2>8, <2>9
  <2> QED
    BY <1>1, <1>3, <2>3, <2>5, <2>6, <2>7, <2>8, <2>9, <2>10, <2>11, <2>12, <2>13, SMTT(30) DEF IsHeard
<1>4. CASE m # << >> /\ c = "nec"
  <2>1. PICK t0 \in Length, t1 \in Length : t0 = 560 /\ t1 = 1680
    <3>1. 560 \in Length /\ 1680 \in Length
      BY LengthIs
    <3> QED
      BY <3>1
  <2>18. PICK t : t = Train(m, t0, t1)
    OBVIOUS
  <2>19. /\ Train(m, t0, t1) \in Seq(Length) /\ Len(Train(m, t0, t1)) = 2 * Len(m) + 1
         /\ \A i \in 1..Len(m) : /\ Train(m, t0, t1)[2 * i - 1] = t0
                                 /\ Train(m, t0, t1)[2 * i] = IF m[i] = 1 THEN t1 ELSE t0
         /\ Train(m, t0, t1)[2 * Len(m) + 1] = t0
    BY TrainShape
  <2>2. /\ t \in Seq(Length) /\ Len(t) = 2 * l + 1
        /\ \A i \in 1..l : t[2 * i - 1] = 560 /\ t[2 * i] = IF m[i] = 1 THEN 1680 ELSE 560
        /\ t[2 * l + 1] = 560
    BY <1>1, <2>1, <2>18, <2>19
  <2>21. PICK p1 \in Length, p2 \in Length : p1 = 9000 /\ p2 = 4500
    <3>1. 9000 \in Length /\ 4500 \in Length
      BY LengthIs
    <3> QED
      BY <3>1
  <2>17. PICK head \in Seq(Length) : head = <<p1, p2>>
    <3>1. <<p1, p2>> \in Seq(Length)
      OBVIOUS
    <3> QED
      BY <3>1, Zenon
  <2>3. PICK e : e = head \o t
    OBVIOUS
  <2>4. encode(c, m) = e
    BY <1>4, <2>1, <2>18, <2>17, <2>21, <2>3 DEF encode, nec_encode, NEC_THEAD, NEC_T0, NEC_T1
  <2>5. /\ e \in Seq(Length) /\ Len(e) = 2 * l + 3 /\ e[1] = 9000 /\ e[2] = 4500
        /\ \A i \in 1..(2 * l + 1) : e[2 + i] = t[i]
    <3>1. Len(head) = 2 /\ head[1] = p1 /\ head[2] = p2
      BY <2>17
    <3>2. t \in Seq(Length)
      BY <2>2
    <3>3. /\ e \in Seq(Length) /\ Len(e) = Len(head) + Len(t)
          /\ \A i \in 1..Len(head) : e[i] = head[i]
          /\ \A i \in 1..Len(t) : e[Len(head) + i] = t[i]
      BY <2>3, <3>2
    <3>4. 1 \in 1..Len(head) /\ 2 \in 1..Len(head) /\ 2 + (2 * l + 1) = 2 * l + 3
      BY <3>1
    <3> QED
      BY <2>2, <2>21, <3>1, <3>3, <3>4
  <2>6. e # << >>
    BY <2>5
  <2>7. PICK w : w = Hear(e)
    OBVIOUS
  <2>8. /\ w \in Seq(Sample) /\ Len(w) = 2 * l + 4
        /\ \A i \in 1..(2 * l + 3) : w[i].mode = (IF i % 2 = 1 THEN "pulse" ELSE "space") /\ w[i].len = e[i]
        /\ w[2 * l + 4].mode = "space" /\ w[2 * l + 4].len = Pause
    <3>1. (2 * l + 3) + 1 = 2 * l + 4
      OBVIOUS
    <3>2. e \in Seq(Length)
      BY <2>5
    <3>3. /\ Hear(e) \in Seq(Sample) /\ Len(Hear(e)) = Len(e) + 1
          /\ \A i \in 1..Len(e) : /\ Hear(e)[i].mode = IF i % 2 = 1 THEN "pulse" ELSE "space"
                                  /\ Hear(e)[i].len = e[i]
          /\ Hear(e)[Len(e) + 1] = [mode |-> "space", len |-> Pause]
      BY <2>6, <3>2, HearShape, Zenon
    <3>4. Len(e) = 2 * l + 3
      BY <2>5
    <3> QED
      BY <2>7, <3>1, <3>3, <3>4
  <2>9. ASSUME NEW i \in 1..l
        PROVE  /\ w[2 + 2 * i - 1].mode = "pulse" /\ w[2 + 2 * i - 1].len = 560
               /\ w[2 + 2 * i].mode = "space" /\ w[2 + 2 * i].len = IF m[i] = 1 THEN 1680 ELSE 560
    <3>1. /\ 2 + 2 * i - 1 \in 1..(2 * l + 3) /\ (2 + 2 * i - 1) % 2 = 1
          /\ 2 + 2 * i \in 1..(2 * l + 3) /\ (2 + 2 * i) % 2 # 1
          /\ 2 + 2 * i - 1 = 2 + (2 * i - 1)
          /\ 2 * i - 1 \in 1..(2 * l + 1) /\ 2 * i \in 1..(2 * l + 1)
      OBVIOUS
    <3>2. /\ w[2 + 2 * i - 1].mode = "pulse" /\ w[2 + 2 * i - 1].len = e[2 + (2 * i - 1)]
          /\ w[2 + 2 * i].mode = "space" /\ w[2 + 2 * i].len = e[2 + 2 * i]
      BY <2>8, <3>1
    <3>3. e[2 + (2 * i - 1)] = t[2 * i - 1] /\ e[2 + 2 * i] = t[2 * i]
      BY <2>5, <3>1
    <3> QED
      BY <2>2, <3>2, <3>3
  <2>10. w[2 + 2 * l + 1].mode = "pulse" /\ w[2 + 2 * l + 1].len = 560
    <3>1. /\ 2 + 2 * l + 1 \in 1..(2 * l + 3) /\ (2 + 2 * l + 1) % 2 = 1
          /\ 2 + 2 * l + 1 = 2 + (2 * l + 1) /\ 2 * l + 1 \in 1..(2 * l + 1)
      OBVIOUS
    <3> QED
      BY <2>2, <2>5, <2>8, <3>1
  <2>11. w[1].len = 9000 /\ w[2].len = 4500
    <3>1. 1 \in 1..(2 * l + 3) /\ 2 \in 1..(2 * l + 3)
      OBVIOUS
    <3> QED
      BY <2>5, <2>8, <3>1
  <2>12. Before(c) = 2 /\ Limit(c) = 1120 /\ \A s : IsEnd(c, s) <=> s.len > 2500
    BY <1>4 DEF Before, Limit, IsEnd, NEC_TS, NEC_TD, NEC_T0, NEC_T1
  <2>13. 2 + 2 * l + 2 = 2 * l + 4 /\ \A x \in 1..2 : x = 1 \/ x = 2
    OBVIOUS
  <2> HIDE DEF Before, Limit, IsEnd
  <2>20. IsEnd(c, w[2 + 2 * l + 2])
    <3>1. Pause > 2500
      BY LengthIs
    <3> QED
      BY <2>8, <2>12, <2>13, <3>1
  <2>14. \A x \in 1..2 : IsEnd(c, w[x])
    <3>1. w[1].len > 2500 /\ w[2].len > 2500
      BY <2>11
    <3> QED
      BY <2>12, <2>13, <3>1
  <2>15. ASSUME NEW i \in 1..l
         PROVE  /\ ~IsEnd(c, w[2 + 2 * i - 1]) /\ ~IsEnd(c, w[2 + 2 * i])
                /\ w[2 + 2 * i].len > 1120 <=> m[i] = 1
    <3>1. ~IsEnd(c, w[2 + 2 * i - 1])
      <4>1. w[2 + 2 * i - 1].len = 560
        BY <2>9
      <4> QED
        BY <2>12, <4>1
    <3>2. CASE m[i] = 1
      <4>1. w[2 + 2 * i].len = 1680
        BY <2>9, <3>2
      <4> QED
        BY <2>12, <3>1, <3>2, <4>1
    <3>3. CASE m[i] # 1
      <4>1. w[2 + 2 * i].len = 560
        BY <2>9, <3>3
      <4> QED
        BY <2>12, <3>1, <3>3, <4>1
    <3> QED
      BY <3>2, <3>3
  <2>16. ~IsEnd(c, w[2 + 2 * l + 1])
    BY <2>10, <2>12
  <2>22. \A i \in 1..l : w[2 + 2 * i - 1].mode = "pulse" /\ w[2 + 2 * i].mode = "space"
    BY <2>9, ZenonT(60)
  <2>23. w \in Seq(Sample) /\ Len(w) = 2 + 2 * l + 2
    BY <2>8, <2>13
  <2>24. w[2 + 2 * l + 1].mode = "pulse"
    BY <2>10
  <2>25. Before(c) = 2 /\ Limit(c) = 1120
    BY <2>12
  <2>26. IsHeard(c, m, w)
    BY <1>1, <1>4, <2>14, <2>15, <2>16, <2>20, <2>22, <2>23, <2>24, <2>25, SMTT(30) DEF IsHeard
  <2> QED
    BY <2>4, <2>7, <2>26
<1> QED
  BY <1>2, <1>3, <1>4 DEF Codec2

----------------------------------------------------------------------------
(* What is heard of several messages *)

LEMMA HearFirstSteps ==
    ASSUME NEW c \in Codec2, NEW ms \in Seq(Seq(Bit))
    PROVE  /\ HearFirst(c, ms) \in [0..Len(ms) -> Seq(Sample)]
           /\ HearFirst(c, ms)[0] = << >>
           /\ \A k \in 1..Len(ms) :
                 HearFirst(c, ms)[k] = HearFirst(c, ms)[k - 1] \o Hear(encode(c, ms[k]))
<1> DEFINE w(k) == Hear(encode(c, ms[k]))
           h == CHOOSE u : u = [k \in 0..Len(ms) |-> IF k = 0 THEN << >> ELSE u[k - 1] \o w(k)]
<1>1. HearFirst(c, ms) = h
  BY Zenon DEF HearFirst
<1>2. \A k \in 1..Len(ms) : w(k) \in Seq(Sample)
  <2> TAKE k \in 1..Len(ms)
  <2>1. ms[k] \in Seq(Bit)
    OBVIOUS
  <2> QED
    BY <2>1, MessageHeard, Zenon DEF IsHeard
<1> HIDE DEF w
<1>3. PICK n \in Nat : n = Len(ms)
  OBVIOUS
<1>4. PICK A : A = Seq(Sample)
  OBVIOUS
<1> DEFINE step == [x \in A \X (1..n) |-> x[1] \o w(x[2])]
<1>5. step \in [A \X (1..n) -> A]
  <2>1. ASSUME NEW x \in A \X (1..n) PROVE x[1] \o w(x[2]) \in A
    <3>1. x[1] \in Seq(Sample) /\ w(x[2]) \in Seq(Sample)
      BY <1>2, <1>3, <1>4
    <3> QED
      BY <1>4, <3>1
  <2> QED
    BY <2>1, Zenon
<1>6. << >> \in A
  BY <1>4, EmptySeq
<1>7. \A x \in A, k \in 1..n : step[<<x, k>>] = x \o w(k)
  OBVIOUS
<1> HIDE DEF step
<1>8. PICK g \in [0..n -> A] : g = [k \in 0..n |-> IF k = 0 THEN << >> ELSE step[<<g[k - 1], k>>]]
  <2>1. PICK none \in A : none = << >>
    BY <1>6
  <2>2. HasIteration(A, none, n, step)
    BY <1>5, IterationExists
  <2> QED
    BY <2>1, <2>2, Zenon DEF HasIteration
<1>9. /\ g[0] = << >>
      /\ \A k \in 1..n : g[k] = g[k - 1] \o w(k)
  <2>1. 0 \in 0..n
    OBVIOUS
  <2>2. g[0] = << >>
    BY <1>8, <2>1, Zenon
  <2>3. ASSUME NEW k \in 1..n PROVE g[k] = g[k - 1] \o w(k)
    <3>1. k \in 0..n /\ k # 0 /\ k - 1 \in 0..n
      OBVIOUS
    <3>2. g[k] = step[<<g[k - 1], k>>]
      BY <1>8, <3>1, Zenon
    <3>3. g[k - 1] \in A
      BY <3>1
    <3> QED
      BY <1>7, <3>2, <3>3, Zenon
  <2> QED
    BY <2>2, <2>3
<1>10. g = [k \in 0..Len(ms) |-> IF k = 0 THEN << >> ELSE g[k - 1] \o w(k)]
  <2>1. ASSUME NEW k \in 0..n PROVE g[k] = IF k = 0 THEN << >> ELSE g[k - 1] \o w(k)
    <3>1. k = 0 \/ k \in 1..n
      OBVIOUS
    <3> QED
      BY <1>9, <3>1, Zenon
  <2>2. g = [k \in 0..n |-> g[k]]
    BY Zenon
  <2>3. g = [k \in 0..n |-> IF k = 0 THEN << >> ELSE g[k - 1] \o w(k)]
    BY <2>1, <2>2, Zenon
  <2> QED
    BY <1>3, <2>3
<1>11. h = [k \in 0..Len(ms) |-> IF k = 0 THEN << >> ELSE h[k - 1] \o w(k)]
  <2>1. \E u : u = [k \in 0..Len(ms) |-> IF k = 0 THEN << >> ELSE u[k - 1] \o w(k)]
    BY <1>10, Zenon
  <2> QED
    BY <2>1, Zenon
<1> HIDE DEF h
<1>12. h \in [0..n -> A] /\ h[0] = << >> /\ \A k \in 1..n : h[k] = h[k - 1] \o w(k)
  <2>1. 0 \in 0..n
    OBVIOUS
  <2>2. h = [k \in 0..n |-> IF k = 0 THEN << >> ELSE h[k - 1] \o w(k)]
    BY <1>3, <1>11
  <2>3. h[0] = << >>
    BY <2>1, <2>2, Zenon
  <2>4. ASSUME NEW k \in 1..n PROVE h[k] = h[k - 1] \o w(k)
    <3>1. k \in 0..n /\ k # 0
      OBVIOUS
    <3> QED
      BY <2>2, <3>1, Zenon
  <2> DEFINE S == {k \in 0..n : h[k] \in A}
  <2>5. 0 \in S
    BY <1>6, <2>1, <2>3
  <2>6. ASSUME NEW k \in 1..n, k - 1 \in S PROVE k \in S
    <3>1. h[k - 1] \in Seq(Sample) /\ w(k) \in Seq(Sample) /\ k \in 0..n
      BY <1>2, <1>3, <1>4, <2>6
    <3>2. h[k - 1] \o w(k) \in Seq(Sample)
      BY <3>1
    <3> QED
      BY <1>4, <2>4, <3>1, <3>2
  <2>7. 0..n \subseteq S
    <3> HIDE DEF S
    <3> QED
      BY <2>5, <2>6, IntervalInduction
  <2>8. \A k \in 0..n : h[k] \in A
    BY <2>7
  <2>9. h \in [0..n -> A]
    <3>1. h = [k \in 0..n |-> h[k]]
      BY <2>2, Zenon
    <3> QED
      BY <2>8, <3>1, Zenon
  <2> QED
    BY <2>3, <2>4, <2>9
<1> QED
  BY <1>1, <1>3, <1>4, <1>12 DEF w

(* The lengths grow, and what was heard first stays where it is.           *)
LEMMA HeardGrows ==
    ASSUME NEW N \in Nat, NEW H \in [0..N -> Seq(Sample)], NEW W \in [1..N -> Seq(Sample)],
           \A k \in 1..N : H[k] = H[k - 1] \o W[k]
    PROVE  /\ \A k \in 1..N : Len(H[k]) = Len(H[k - 1]) + Len(W[k])
           /\ \A i, j \in 0..N : i <= j => Len(H[i]) <= Len(H[j])
           /\ \A k \in 0..N : \A x \in 1..Len(H[k]) : H[N][x] = H[k][x]
<1>1. ASSUME NEW k \in 1..N
      PROVE  /\ k - 1 \in 0..N /\ k \in 0..N
             /\ Len(H[k]) = Len(H[k - 1]) + Len(W[k])
             /\ Len(H[k]) \in Nat /\ Len(H[k - 1]) \in Nat /\ Len(W[k]) \in Nat
             /\ \A x \in 1..Len(H[k - 1]) : H[k][x] = H[k - 1][x]
  <2>1. k - 1 \in 0..N /\ k \in 0..N
    OBVIOUS
  <2>2. H[k - 1] \in Seq(Sample) /\ W[k] \in Seq(Sample) /\ H[k] = H[k - 1] \o W[k]
    BY <2>1
  <2> QED
    BY <2>1, <2>2
<1> DEFINE Before2(j) == \A k \in 0..j : /\ Len(H[k]) <= Len(H[j])
                                        /\ \A x \in 1..Len(H[k]) : H[j][x] = H[k][x]
           S == {j \in 0..N : Before2(j)}
<1>2. \A k \in 0..N : Len(H[k]) \in Nat
  OBVIOUS
<1>3. 0 \in S
  <2>1. 0 \in 0..N /\ \A k \in 0..0 : k = 0
    OBVIOUS
  <2> QED
    BY <1>2, <2>1
<1>4. ASSUME NEW j \in 1..N, j - 1 \in S PROVE j \in S
  <2>1. j \in 0..N
    OBVIOUS
  <2>2. ASSUME NEW k \in 0..j
        PROVE  Len(H[k]) <= Len(H[j]) /\ \A x \in 1..Len(H[k]) : H[j][x] = H[k][x]
    <3>1. CASE k = j
      BY <1>2, <2>1, <3>1
    <3>2. CASE k # j
      <4>1. k \in 0..(j - 1) /\ k \in 0..N
        BY <3>2
      <4>2. Len(H[k]) <= Len(H[j - 1]) /\ \A x \in 1..Len(H[k]) : H[j - 1][x] = H[k][x]
        BY <1>4, <4>1
      <4>3. Len(H[k]) \in Nat /\ Len(H[j - 1]) \in Nat /\ Len(H[j - 1]) <= Len(H[j])
        BY <1>1, <1>2, <4>1
      <4>4. \A x \in 1..Len(H[k]) : x \in 1..Len(H[j - 1])
        BY <4>2, <4>3
      <4>5. Len(H[j]) \in Nat
        BY <1>2, <2>1
      <4> QED
        BY <1>1, <4>2, <4>3, <4>4, <4>5, SMTT(30)
    <3> QED
      BY <3>1, <3>2
  <2> QED
    BY <2>1, <2>2
<1>5. 0..N \subseteq S
  <2> HIDE DEF S
  <2> QED
    BY <1>3, <1>4, IntervalInduction
<1>6. \A j \in 0..N : Before2(j)
  BY <1>5
<1>7. \A i, j \in 0..N : i <= j => i \in 0..j
  OBVIOUS
<1>8. N \in 0..N /\ \A k \in 0..N : k \in 0..N
  OBVIOUS
<1> QED
  BY <1>1, <1>6, <1>7, <1>8

(* Where the messages ms are in what is heard, hd: message k behind sample *)
(* L[k - 1] and up to sample L[k], which is its pause.                     *)
IsLayout(c, ms, hd, L) ==
    LET h == Before(c) IN
    /\ hd \in Seq(Sample)
    /\ L \in [0..Len(ms) -> Nat] /\ L[0] = 0 /\ L[Len(ms)] = Len(hd)
    /\ \A i, j \in 0..Len(ms) : i <= j => L[i] <= L[j]
    /\ \A k \in 1..Len(ms) : ms[k] = << >> => L[k] = L[k - 1]
    /\ \A k \in 1..Len(ms) : ms[k] # << >> =>
          /\ L[k] = L[k - 1] + h + 2 * Len(ms[k]) + 2
          /\ \A x \in 1..h : IsEnd(c, hd[L[k - 1] + x])
          /\ \A i \in 1..Len(ms[k]) :
                /\ hd[L[k - 1] + h + 2 * i - 1].mode = "pulse"
                /\ ~IsEnd(c, hd[L[k - 1] + h + 2 * i - 1])
                /\ hd[L[k - 1] + h + 2 * i].mode = "space"
                /\ ~IsEnd(c, hd[L[k - 1] + h + 2 * i])
                /\ hd[L[k - 1] + h + 2 * i].len > Limit(c) <=> ms[k][i] = 1
          /\ hd[L[k] - 1].mode = "pulse" /\ ~IsEnd(c, hd[L[k] - 1])
          /\ IsEnd(c, hd[L[k]])

LEMMA Positions ==
    ASSUME NEW c \in Codec2, NEW ms \in Seq(Seq(Bit))
    PROVE  LET H == HearFirst(c, ms)
           IN  IsLayout(c, ms, H[Len(ms)], [k \in 0..Len(ms) |-> Len(H[k])])
<1>1. PICK N \in Nat : N = Len(ms)
  OBVIOUS
<1>2. PICK H \in [0..N -> Seq(Sample)] :
         /\ H = HearFirst(c, ms) /\ H[0] = << >>
         /\ \A k \in 1..N : H[k] = H[k - 1] \o Hear(encode(c, ms[k]))
  BY <1>1, HearFirstSteps
<1>3. PICK W : W = [k \in 1..N |-> Hear(encode(c, ms[k]))]
  OBVIOUS
<1>4. \A k \in 1..N : W[k] = Hear(encode(c, ms[k])) /\ ms[k] \in Seq(Bit)
  BY <1>1, <1>3
<1>5. \A k \in 1..N : IsHeard(c, ms[k], W[k])
  BY <1>4, MessageHeard
<1>6. W \in [1..N -> Seq(Sample)]
  <2>1. \A k \in 1..N : W[k] \in Seq(Sample)
    BY <1>5 DEF IsHeard
  <2> QED
    BY <1>3, <2>1
<1>7. \A k \in 1..N : H[k] = H[k - 1] \o W[k]
  BY <1>2, <1>4
<1>8. /\ \A k \in 1..N : Len(H[k]) = Len(H[k - 1]) + Len(W[k])
      /\ \A i, j \in 0..N : i <= j => Len(H[i]) <= Len(H[j])
      /\ \A k \in 0..N : \A x \in 1..Len(H[k]) : H[N][x] = H[k][x]
  BY <1>6, <1>7, HeardGrows
<1>9. PICK L \in [0..N -> Nat] : \A k \in 0..N : L[k] = Len(H[k])
  <2>1. [k \in 0..N |-> Len(H[k])] \in [0..N -> Nat]
    OBVIOUS
  <2> QED
    BY <2>1
<1>10. L = [k \in 0..N |-> Len(H[k])]
  BY <1>9
<1>11. PICK hd \in Seq(Sample) : hd = H[N]
  OBVIOUS
<1>12. /\ L[0] = 0 /\ L[N] = Len(hd)
       /\ \A i, j \in 0..N : i <= j => L[i] <= L[j]
  <2>1. 0 \in 0..N /\ N \in 0..N /\ Len(<< >>) = 0
    OBVIOUS
  <2>2. L[0] = 0 /\ L[N] = Len(hd)
    BY <1>2, <1>9, <1>11, <2>1
  <2>3. \A i, j \in 0..N : i <= j => L[i] <= L[j]
    BY <1>8, <1>9
  <2> QED
    BY <2>2, <2>3
<1>13. ASSUME NEW k \in 1..N
       PROVE  /\ L[k - 1] \in Nat /\ L[k] = L[k - 1] + Len(W[k])
              /\ \A x \in 1..Len(W[k]) : hd[L[k - 1] + x] = W[k][x]
  <2>1. k - 1 \in 0..N /\ k \in 0..N
    OBVIOUS
  <2>2. H[k - 1] \in Seq(Sample) /\ W[k] \in Seq(Sample) /\ H[k] = H[k - 1] \o W[k]
    BY <1>6, <1>7, <2>1
  <2>3. L[k] = Len(H[k]) /\ L[k - 1] = Len(H[k - 1]) /\ L[k - 1] \in Nat
    BY <1>9, <2>1
  <2>4. \A x \in 1..Len(W[k]) :
           /\ Len(H[k - 1]) + x \in 1..Len(H[k])
           /\ H[k][Len(H[k - 1]) + x] = W[k][x]
    <3>1. PICK f \in Seq(Sample), g \in Seq(Sample) : f = H[k - 1] /\ g = W[k]
      BY <2>2
    <3>2. \A x \in 1..Len(g) : Len(f) + x \in 1..Len(f \o g) /\ (f \o g)[Len(f) + x] = g[x]
      OBVIOUS
    <3> QED
      BY <2>2, <3>1, <3>2
  <2>5. Len(H[k]) = Len(H[k - 1]) + Len(W[k])
    BY <2>2
  <2> QED
    BY <1>8, <1>11, <2>1, <2>3, <2>4, <2>5
<1>14. PICK h \in Nat : h = Before(c)
  BY DEF Before
<1>15. ASSUME NEW k \in 1..N, ms[k] = << >> PROVE L[k] = L[k - 1]
  <2>1. W[k] = << >>
    BY <1>5, <1>15 DEF IsHeard
  <2> QED
    BY <1>13, <2>1
<1>16. ASSUME NEW k \in 1..N, ms[k] # << >>
       PROVE  /\ L[k] = L[k - 1] + h + 2 * Len(ms[k]) + 2
              /\ \A x \in 1..h : IsEnd(c, hd[L[k - 1] + x])
              /\ \A i \in 1..Len(ms[k]) :
                    /\ hd[L[k - 1] + h + 2 * i - 1].mode = "pulse"
                    /\ ~IsEnd(c, hd[L[k - 1] + h + 2 * i - 1])
                    /\ hd[L[k - 1] + h + 2 * i].mode = "space"
                    /\ ~IsEnd(c, hd[L[k - 1] + h + 2 * i])
                    /\ hd[L[k - 1] + h + 2 * i].len > Limit(c) <=> ms[k][i] = 1
              /\ hd[L[k] - 1].mode = "pulse" /\ ~IsEnd(c, hd[L[k] - 1])
              /\ IsEnd(c, hd[L[k]])
  <2>1. PICK m \in Seq(Bit) : m = ms[k]
    BY <1>4
  <2>2. PICK l \in Nat, p \in Nat : l = Len(m) /\ p = L[k - 1]
    BY <1>13
  <2>3. PICK w : w = W[k]
    OBVIOUS
  <2>4. /\ Len(w) = h + 2 * l + 2
        /\ \A x \in 1..h : IsEnd(c, w[x])
        /\ \A i \in 1..l :
              /\ w[h + 2 * i - 1].mode = "pulse" /\ ~IsEnd(c, w[h + 2 * i - 1])
              /\ w[h + 2 * i].mode = "space" /\ ~IsEnd(c, w[h + 2 * i])
              /\ w[h + 2 * i].len > Limit(c) <=> m[i] = 1
        /\ w[h + 2 * l + 1].mode = "pulse" /\ ~IsEnd(c, w[h + 2 * l + 1])
        /\ IsEnd(c, w[h + 2 * l + 2])
    <3>1. IsHeard(c, m, w)
      BY <1>5, <2>1, <2>3
    <3>2. m # << >> /\ Before(c) = h /\ Len(m) = l
      BY <1>14, <1>16, <2>1, <2>2
    <3> QED
      BY <3>1, <3>2 DEF IsHeard
  <2>5. L[k] = p + Len(w) /\ \A x \in 1..Len(w) : hd[p + x] = w[x]
    BY <1>13, <2>2, <2>3
  <2>6. \A x \in 1..h : x \in 1..(h + 2 * l + 2)
    OBVIOUS
  <2>7. \A i \in 1..l : /\ h + 2 * i - 1 \in 1..(h + 2 * l + 2)
                       /\ h + 2 * i \in 1..(h + 2 * l + 2)
                       /\ p + h + 2 * i - 1 = p + (h + 2 * i - 1)
                       /\ p + h + 2 * i = p + (h + 2 * i)
    OBVIOUS
  <2>8. /\ h + 2 * l + 1 \in 1..(h + 2 * l + 2) /\ h + 2 * l + 2 \in 1..(h + 2 * l + 2)
        /\ p + (h + 2 * l + 2) - 1 = p + (h + 2 * l + 1)
        /\ p + h + 2 * l + 2 = p + (h + 2 * l + 2)
    OBVIOUS
  <2>9. \A x \in 1..h : IsEnd(c, hd[p + x])
    BY <2>4, <2>5, <2>6
  <2>10. ASSUME NEW i \in 1..l
         PROVE  /\ hd[p + h + 2 * i - 1].mode = "pulse" /\ ~IsEnd(c, hd[p + h + 2 * i - 1])
                /\ hd[p + h + 2 * i].mode = "space" /\ ~IsEnd(c, hd[p + h + 2 * i])
                /\ hd[p + h + 2 * i].len > Limit(c) <=> m[i] = 1
    <3>1. hd[p + h + 2 * i - 1] = w[h + 2 * i - 1] /\ hd[p + h + 2 * i] = w[h + 2 * i]
      BY <2>4, <2>5, <2>7
    <3> QED
      BY <2>4, <3>1
  <2>11. hd[L[k] - 1] = w[h + 2 * l + 1] /\ hd[L[k]] = w[h + 2 * l + 2]
    <3>1. L[k] = p + (h + 2 * l + 2)
      BY <2>4, <2>5
    <3>2. L[k] - 1 = p + (h + 2 * l + 1)
      BY <2>8, <3>1
    <3>3. h + 2 * l + 1 \in 1..Len(w) /\ h + 2 * l + 2 \in 1..Len(w)
      BY <2>4, <2>8
    <3> QED
      BY <2>5, <3>1, <3>2, <3>3
  <2>12. L[k] = p + h + 2 * l + 2
    BY <2>4, <2>5, <2>8
  <2> QED
    BY <2>1, <2>2, <2>4, <2>9, <2>10, <2>11, <2>12
<1>17. IsLayout(c, ms, hd, L)
  BY <1>1, <1>12, <1>14, <1>15, <1>16 DEF IsLayout
<1> QED
  BY <1>1, <1>2, <1>10, <1>11, <1>17

(* A sample belongs to a message.                                          *)
LEMMA HearerExists ==
    ASSUME NEW c, NEW ms \in Seq(Seq(Bit)), NEW hd, NEW L, IsLayout(c, ms, hd, L),
           NEW p \in 1..Len(hd)
    PROVE  \E k \in 1..Len(ms) : ms[k] # << >> /\ L[k - 1] < p /\ p <= L[k]
<1>1. PICK N \in Nat : N = Len(ms)
  OBVIOUS
<1>2. /\ L \in [0..N -> Nat] /\ L[0] = 0 /\ L[N] = Len(hd)
      /\ \A k \in 1..N : ms[k] = << >> => L[k] = L[k - 1]
  BY <1>1 DEF IsLayout
<1> DEFINE S == {j \in 0..N : p <= L[j] => \E k \in 1..N : L[k - 1] < p /\ p <= L[k]}
<1>3. 0 \in S
  BY <1>2
<1>4. ASSUME NEW j \in 1..N, j - 1 \in S PROVE j \in S
  <2>1. j \in 0..N /\ j - 1 \in 0..N
    OBVIOUS
  <2>2. L[j] \in Nat /\ L[j - 1] \in Nat
    BY <1>2, <2>1
  <2> QED
    BY <1>4, <2>1, <2>2
<1>5. 0..N \subseteq S
  <2> HIDE DEF S
  <2> QED
    BY <1>3, <1>4, IntervalInduction
<1>6. N \in S /\ p <= L[N]
  BY <1>2, <1>5
<1>7. PICK k \in 1..N : L[k - 1] < p /\ p <= L[k]
  BY <1>6
<1>8. L[k - 1] \in Nat /\ L[k] \in Nat
  BY <1>2
<1>9. ms[k] # << >>
  BY <1>2, <1>7, <1>8
<1> QED
  BY <1>1, <1>7, <1>9

(* The last sample of what was heard so far is a pause.                    *)
LEMMA PauseEnds ==
    ASSUME NEW c, NEW ms \in Seq(Seq(Bit)), NEW hd, NEW L, IsLayout(c, ms, hd, L),
           NEW k \in 0..Len(ms), L[k] > 0
    PROVE  IsEnd(c, hd[L[k]])
<1>1. PICK N \in Nat : N = Len(ms)
  OBVIOUS
<1>2. /\ L \in [0..N -> Nat] /\ L[N] = Len(hd)
      /\ \A i, j \in 0..N : i <= j => L[i] <= L[j]
      /\ \A j \in 1..N : ms[j] # << >> => IsEnd(c, hd[L[j]])
  BY <1>1 DEF IsLayout
<1>3. L[k] \in 1..Len(hd)
  BY <1>1, <1>2
<1>4. PICK j \in 1..N : ms[j] # << >> /\ L[j - 1] < L[k] /\ L[k] <= L[j]
  BY <1>1, <1>3, HearerExists
<1>5. ~(k <= j - 1)
  <2>1. j - 1 \in 0..N /\ k \in 0..N /\ L[k] \in Nat /\ L[j - 1] \in Nat
    BY <1>1, <1>2, SMTT(30)
  <2> QED
    BY <1>2, <1>4, <2>1
<1>6. j \in 0..N /\ k \in 0..N /\ j <= k
  BY <1>1, <1>5
<1>7. L[j] = L[k]
  BY <1>2, <1>4, <1>6
<1> QED
  BY <1>2, <1>4, <1>7

----------------------------------------------------------------------------
(* One call of a decoder *)

LEMMA TakeType ==
    ASSUME NEW bits \in Seq(Bit), NEW s, NEW td
    PROVE  Take(bits, s, td) \in Seq(Bit)
<1>1. (IF s.len > td THEN 1 ELSE 0) \in Bit
  BY DEF Bit
<1>2. PICK b \in Bit : b = IF s.len > td THEN 1 ELSE 0
  BY <1>1
<1>3. Append(bits, b) \in Seq(Bit)
  OBVIOUS
<1> QED
  BY <1>2, <1>3, Zenon DEF Take

(* The call d of a decoder, with bits in its buffer and the samples in: it *)
(* goes through the samples up to the first that ends a frame, u is what   *)
(* is in the buffer behind each.                                           *)
Scans(c, bits, in, d, u) ==
    /\ d.used \in 1..Len(in)
    /\ u \in [0..Len(in) -> Seq(Bit)] /\ u[0] = bits
    /\ \A j \in 1..Len(in) : u[j] = Take(u[j - 1], in[j], Limit(c))
    /\ \A j \in 1..(d.used - 1) : ~IsEnd(c, in[j])
    /\ IsEnd(c, in[d.used]) =>
          d.buf = u[d.used - 1] /\ (d.ret = IF d.buf # << >> THEN 1 ELSE 0)
    /\ ~IsEnd(c, in[d.used]) =>
          d.buf = u[d.used] /\ d.ret = 0 /\ d.used = Len(in)

LEMMA ScanSteps ==
    ASSUME NEW c, NEW bits \in Seq(Bit), NEW in \in Seq(Sample), in # << >>,
           NEW ends, ends = {k \in DOMAIN in : IsEnd(c, in[k])}
    PROVE  \E u : Scans(c, bits, in, Scan(bits, in, ends, Limit(c)), u)
<1>1. PICK n \in Nat : n = Len(in) /\ n > 0
  OBVIOUS
<1>2. PICK td : td = Limit(c)
  OBVIOUS
<1>3. PICK A : A = Seq(Bit)
  OBVIOUS
<1> DEFINE h == CHOOSE u : u = [k \in 0..Len(in) |-> IF k = 0 THEN bits ELSE Take(u[k - 1], in[k], td)]
           step == [x \in A \X (1..n) |-> Take(x[1], in[x[2]], td)]
<1>4. step \in [A \X (1..n) -> A]
  <2>1. ASSUME NEW x \in A \X (1..n) PROVE Take(x[1], in[x[2]], td) \in A
    <3>1. x[1] \in Seq(Bit)
      BY <1>3
    <3> QED
      BY <1>3, <3>1, TakeType
  <2> QED
    BY <2>1, Zenon
<1>5. \A x \in A, k \in 1..n : step[<<x, k>>] = Take(x, in[k], td)
  OBVIOUS
<1> HIDE DEF step
<1>6. PICK g \in [0..n -> A] : g = [k \in 0..n |-> IF k = 0 THEN bits ELSE step[<<g[k - 1], k>>]]
  <2>1. HasIteration(A, bits, n, step)
    BY <1>3, <1>4, IterationExists
  <2> QED
    BY <2>1, Zenon DEF HasIteration
<1>7. g = [k \in 0..Len(in) |-> IF k = 0 THEN bits ELSE Take(g[k - 1], in[k], td)]
  <2>1. ASSUME NEW k \in 0..n PROVE g[k] = IF k = 0 THEN bits ELSE Take(g[k - 1], in[k], td)
    <3>1. k = 0 \/ (k \in 1..n /\ k - 1 \in 0..n /\ k # 0)
      OBVIOUS
    <3>2. CASE k = 0
      BY <1>6, <3>2, Zenon
    <3>3. CASE k \in 1..n /\ k - 1 \in 0..n /\ k # 0
      <4>1. g[k] = step[<<g[k - 1], k>>]
        BY <1>6, <3>3, Zenon
      <4>2. g[k - 1] \in A
        BY <3>3
      <4> QED
        BY <1>5, <3>3, <4>1, <4>2, Zenon
    <3> QED
      BY <3>1, <3>2, <3>3
  <2>2. g = [k \in 0..n |-> g[k]]
    BY Zenon
  <2>3. g = [k \in 0..n |-> IF k = 0 THEN bits ELSE Take(g[k - 1], in[k], td)]
    BY <2>1, <2>2, Zenon
  <2> QED
    BY <1>1, <2>3
<1>8. h = [k \in 0..Len(in) |-> IF k = 0 THEN bits ELSE Take(h[k - 1], in[k], td)]
  <2>1. \E u : u = [k \in 0..Len(in) |-> IF k = 0 THEN bits ELSE Take(u[k - 1], in[k], td)]
    BY <1>7, Zenon
  <2> QED
    BY <2>1, Zenon
<1> DEFINE used == IF ends = {} THEN Len(in) ELSE Min(ends)
           buf == h[IF ends = {} THEN used ELSE used - 1]
           d == [ret |-> IF ends # {} /\ buf # << >> THEN 1 ELSE 0, used |-> used, buf |-> buf]
<1>9. Scan(bits, in, ends, Limit(c)) = d
  BY <1>2, Zenon DEF Scan
<1> HIDE DEF h
<1>10. /\ h \in [0..n -> A] /\ h[0] = bits
       /\ \A k \in 1..n : h[k] = Take(h[k - 1], in[k], td)
  <2>1. 0 \in 0..n
    OBVIOUS
  <2>2. h = [k \in 0..n |-> IF k = 0 THEN bits ELSE Take(h[k - 1], in[k], td)]
    BY <1>1, <1>8
  <2>3. h[0] = bits
    BY <2>1, <2>2, Zenon
  <2>4. ASSUME NEW k \in 1..n PROVE h[k] = Take(h[k - 1], in[k], td)
    <3>1. k \in 0..n /\ k # 0
      OBVIOUS
    <3> QED
      BY <2>2, <3>1, Zenon
  <2> DEFINE S == {k \in 0..n : h[k] \in A}
  <2>5. 0 \in S
    BY <1>3, <2>1, <2>3
  <2>6. ASSUME NEW k \in 1..n, k - 1 \in S PROVE k \in S
    <3>1. h[k - 1] \in Seq(Bit) /\ k \in 0..n
      BY <1>3, <2>6
    <3>2. Take(h[k - 1], in[k], td) \in Seq(Bit)
      BY <3>1, TakeType
    <3> QED
      BY <1>3, <2>4, <3>1, <3>2
  <2>7. 0..n \subseteq S
    <3> HIDE DEF S
    <3> QED
      BY <2>5, <2>6, IntervalInduction
  <2>8. \A k \in 0..n : h[k] \in A
    BY <2>7
  <2>9. h \in [0..n -> A]
    <3>1. h = [k \in 0..n |-> h[k]]
      BY <2>2, Zenon
    <3> QED
      BY <2>8, <3>1, Zenon
  <2> QED
    BY <2>3, <2>4, <2>9
<1>11. /\ used \in 1..n
       /\ \A j \in 1..(used - 1) : ~IsEnd(c, in[j])
       /\ IsEnd(c, in[used]) <=> ends # {}
       /\ ends = {} => used = n
  <2>1. CASE ends = {}
    <3>1. used = n
      BY <1>1, <2>1
    <3>2. \A j \in 1..n : ~IsEnd(c, in[j])
      BY <1>1, <2>1
    <3>3. n \in 1..n /\ \A j \in 1..(n - 1) : j \in 1..n
      BY <1>1
    <3> HIDE DEF used
    <3> QED
      BY <2>1, <3>1, <3>2, <3>3
  <2>2. CASE ends # {}
    <3>1. used = Min(ends)
      BY <2>2
    <3>2. ends \subseteq 1..n /\ ends \subseteq Nat
      BY <1>1
    <3>3. used \in ends /\ \A k \in ends : used <= k
      BY <2>2, <3>1, <3>2, LeastExists
    <3> HIDE DEF used
    <3>4. \A j \in 1..(used - 1) : j \in 1..n /\ ~(used <= j)
      BY <3>2, <3>3
    <3> QED
      BY <1>1, <2>2, <3>2, <3>3, <3>4
  <2> QED
    BY <2>1, <2>2
<1> HIDE DEF used
<1>12. d.used = used /\ d.buf = buf /\ d.ret = IF ends # {} /\ buf # << >> THEN 1 ELSE 0
  OBVIOUS
<1> HIDE DEF d
<1>13. Scans(c, bits, in, d, h)
  BY <1>1, <1>2, <1>3, <1>10, <1>11, <1>12 DEF Scans
<1> QED
  BY <1>9, <1>13

LEMMA DecodeSteps ==
    ASSUME NEW c \in Codec2, NEW bits \in Seq(Bit), NEW in \in Seq(Sample), in # << >>
    PROVE  \E u : Scans(c, bits, in, decode(c, bits, in), u)
<1> DEFINE ends == {k \in DOMAIN in : IsEnd(c, in[k])}
<1>1. decode(c, bits, in) = Scan(bits, in, ends, Limit(c))
  <2>1. CASE c = "nec"
    BY <2>1, Zenon DEF decode, nec_decode, IsEnd, Limit
  <2>2. CASE c = "unkn0"
    <3>1. c # "nec"
      BY <2>2
    <3> QED
      BY <3>1, Zenon DEF decode, unkn0_decode, IsEnd, Limit
  <2> QED
    BY <2>1, <2>2 DEF Codec2
<1> HIDE DEF ends
<1>2. ends = {k \in DOMAIN in : IsEnd(c, in[k])}
  BY DEF ends
<1> QED
  BY <1>1, <1>2, ScanSteps

----------------------------------------------------------------------------
(* What is in DECODE_BUFF of a message *)

Cap == BUFF_SIZE - 2

LEMMA ClipOfFirst ==
    ASSUME NEW m \in Seq(Bit), NEW i \in 0..Len(m)
    PROVE  /\ SubSeq(m, 1, i) \in Seq(Bit) /\ Len(SubSeq(m, 1, i)) = i
           /\ i <= Cap => Clip(SubSeq(m, 1, i)) = SubSeq(m, 1, i)
           /\ i > Cap => Clip(SubSeq(m, 1, i)) = SubSeq(m, 1, Cap)
<1>1. Cap \in Nat /\ Cap > 0
  BY CodecAssumption DEF Cap
<1>2. SubSeq(m, 1, i) \in Seq(Bit) /\ Len(SubSeq(m, 1, i)) = i
  OBVIOUS
<1>5. Clip(SubSeq(m, 1, i)) = IF Len(SubSeq(m, 1, i)) <= Cap THEN SubSeq(m, 1, i)
                              ELSE SubSeq(SubSeq(m, 1, i), 1, Cap)
  BY Zenon DEF Clip, Cap
<1>3. CASE i <= Cap
  <2>1. Len(SubSeq(m, 1, i)) <= Cap /\ ~(i > Cap)
    BY <1>1, <1>2, <1>3
  <2>2. Clip(SubSeq(m, 1, i)) = SubSeq(m, 1, i)
    BY <1>5, <2>1, Zenon
  <2> QED
    BY <1>2, <2>1, <2>2, Zenon
<1>4. CASE i > Cap
  <2>1. Clip(SubSeq(m, 1, i)) = SubSeq(SubSeq(m, 1, i), 1, Cap)
    <3>1. ~(i <= Cap)
      BY <1>1, <1>4
    <3> QED
      BY <1>2, <1>5, <3>1
  <2>2. SubSeq(SubSeq(m, 1, i), 1, Cap) = SubSeq(m, 1, Cap)
    BY <1>1, <1>4
  <2> QED
    BY <1>1, <1>2, <1>4, <2>1, <2>2
<1> QED
  BY <1>1, <1>2, <1>3, <1>4

(* A space adds its bit, if there is room.                                 *)
LEMMA SpaceAddsBit ==
    ASSUME NEW m \in Seq(Bit), NEW i \in 1..Len(m), NEW s \in Sample, NEW td,
           s.mode = "space", s.len > td <=> m[i] = 1
    PROVE  Take(Clip(SubSeq(m, 1, i - 1)), s, td) = Clip(SubSeq(m, 1, i))
<1>1. Cap \in Nat /\ Cap > 0
  BY CodecAssumption DEF Cap
<1>2. i \in 0..Len(m) /\ i - 1 \in 0..Len(m)
  OBVIOUS
<1>3. (IF s.len > td THEN 1 ELSE 0) = m[i]
  <2>1. m[i] \in Bit
    OBVIOUS
  <2> QED
    BY <2>1 DEF Bit
<1>4. \A b : Take(b, s, td) = IF Len(b) >= Cap THEN b ELSE Append(b, m[i])
  BY <1>3 DEF Take, Cap
<1>5. CASE i <= Cap
  <2>1. Clip(SubSeq(m, 1, i - 1)) = SubSeq(m, 1, i - 1) /\ Clip(SubSeq(m, 1, i)) = SubSeq(m, 1, i)
    BY <1>1, <1>2, <1>5, ClipOfFirst
  <2>2. ~(Len(SubSeq(m, 1, i - 1)) >= Cap)
    BY <1>1, <1>2, <1>5, ClipOfFirst
  <2>3. Append(SubSeq(m, 1, i - 1), m[i]) = SubSeq(m, 1, i)
    OBVIOUS
  <2> QED
    BY <1>4, <2>1, <2>2, <2>3
<1>6. CASE i > Cap
  <2>1. Clip(SubSeq(m, 1, i)) = SubSeq(m, 1, Cap)
    BY <1>2, <1>6, ClipOfFirst
  <2>2. Clip(SubSeq(m, 1, i - 1)) = SubSeq(m, 1, Cap)
    <3>1. CASE i - 1 = Cap
      BY <1>1, <1>2, <3>1, ClipOfFirst
    <3>2. CASE i - 1 # Cap
      <4>1. i - 1 > Cap
        BY <1>1, <1>6, <3>2
      <4> QED
        BY <1>2, <4>1, ClipOfFirst
    <3> QED
      BY <3>1, <3>2
  <2>3. Len(SubSeq(m, 1, Cap)) = Cap
    BY <1>1, <1>6
  <2> QED
    BY <1>1, <1>4, <2>1, <2>2, <2>3
<1> QED
  BY <1>1, <1>5, <1>6

LEMMA ClipOfAll ==
    ASSUME NEW m \in Seq(Bit)
    PROVE  /\ Clip(SubSeq(m, 1, Len(m))) = Clip(m)
           /\ Clip(SubSeq(m, 1, 0)) = << >>
           /\ m # << >> => Clip(m) # << >>
<1>1. Cap \in Nat /\ Cap > 0
  BY CodecAssumption DEF Cap
<1>2. SubSeq(m, 1, Len(m)) = m
  OBVIOUS
<1>3. Clip(SubSeq(m, 1, 0)) = << >>
  <2>1. 0 \in 0..Len(m) /\ 0 <= Cap
    BY <1>1
  <2>2. Clip(SubSeq(m, 1, 0)) = SubSeq(m, 1, 0)
    BY <2>1, ClipOfFirst
  <2>3. SubSeq(m, 1, 0) = << >>
    OBVIOUS
  <2> QED
    BY <2>2, <2>3
<1>4. ASSUME m # << >> PROVE Clip(m) # << >>
  <2>1. CASE Len(m) <= Cap
    BY <1>4, <2>1 DEF Clip, Cap
  <2>2. CASE ~(Len(m) <= Cap)
    <3>1. Clip(m) = SubSeq(m, 1, Cap)
      BY <2>2 DEF Clip, Cap
    <3>2. Len(SubSeq(m, 1, Cap)) = Cap
      BY <1>1, <2>2
    <3>3. Len(<< >>) = 0 /\ Cap # 0
      BY <1>1
    <3> QED
      BY <3>1, <3>2, <3>3, Zenon
  <2> QED
    BY <2>1, <2>2
<1> QED
  BY <1>2, <1>3, <1>4

(* How many bits are heard up to sample p of a message with h samples      *)
(* before the first, behind sample a.                                      *)
BitsHeard(a, h, p) == IF p < a + h THEN 0 ELSE (p - a - h) \div 2

(* The call d of a decoder, with bits in its buffer, on the samples of hd  *)
(* behind p: it stops where a frame ends, or where the buffer does, at e.  *)
(* u is what it has got behind each sample.                                *)
Stops(c, hd, bits, p, e, d, u) ==
    /\ d.used \in Nat /\ d.used > 0 /\ p + d.used <= e
    /\ u \in [0..d.used -> Seq(Bit)] /\ u[0] = bits
    /\ \A j \in 1..d.used : u[j] = Take(u[j - 1], hd[p + j], Limit(c))
    /\ \A j \in 1..(d.used - 1) : ~IsEnd(c, hd[p + j])
    /\ IsEnd(c, hd[p + d.used]) =>
          d.buf = u[d.used - 1] /\ (d.ret = IF d.buf # << >> THEN 1 ELSE 0)
    /\ ~IsEnd(c, hd[p + d.used]) =>
          d.buf = u[d.used] /\ d.ret = 0 /\ p + d.used = e

LEMMA DecodeStops ==
    ASSUME NEW c \in Codec2, NEW hd \in Seq(Sample), NEW bits \in Seq(Bit),
           NEW p \in Nat, NEW e \in Nat, p < e, e <= Len(hd),
           NEW d, d = decode(c, bits, SubSeq(hd, p + 1, e))
    PROVE  \E u : Stops(c, hd, bits, p, e, d, u)
<1>1. PICK in \in Seq(Sample) : in = SubSeq(hd, p + 1, e)
  <2>1. SubSeq(hd, p + 1, e) \in Seq(Sample)
    OBVIOUS
  <2> QED
    BY <2>1, Zenon
<1>2. Len(in) = e - p /\ \A j \in 1..(e - p) : in[j] = hd[p + j]
  BY <1>1
<1>3. in # << >>
  BY <1>2
<1>4. PICK f : Scans(c, bits, in, d, f)
  BY <1>1, <1>3, DecodeSteps
<1>5. PICK n \in 1..Len(in) : n = d.used
  BY <1>4 DEF Scans
<1>6. PICK l \in Nat : l = Len(in) /\ l = e - p
  BY <1>2
<1>7. /\ f \in [0..l -> Seq(Bit)] /\ f[0] = bits
      /\ \A j \in 1..l : f[j] = Take(f[j - 1], in[j], Limit(c))
      /\ \A j \in 1..(n - 1) : ~IsEnd(c, in[j])
      /\ IsEnd(c, in[n]) => d.buf = f[n - 1] /\ (d.ret = IF d.buf # << >> THEN 1 ELSE 0)
      /\ ~IsEnd(c, in[n]) => d.buf = f[n] /\ d.ret = 0 /\ n = l
  BY <1>4, <1>5, <1>6 DEF Scans
<1> DEFINE u == [j \in 0..n |-> f[j]]
<1>8. u \in [0..n -> Seq(Bit)] /\ \A j \in 0..n : u[j] = f[j]
  BY <1>5, <1>6, <1>7
<1> HIDE DEF u
<1>9. n \in Nat /\ n > 0 /\ p + n <= e /\ n \in 1..l
  BY <1>5, <1>6
<1>10. \A j \in 1..n : j \in 1..l /\ j \in 1..(e - p) /\ j \in 0..n /\ j - 1 \in 0..n
  BY <1>6, <1>9
<1>11. \A j \in 1..(n - 1) : j \in 1..n
  BY <1>9
<1>12. n \in 1..n /\ 0 \in 0..n
  BY <1>9
<1>13. \A j \in 1..n : in[j] = hd[p + j]
  BY <1>2, <1>10
<1>14. \A j \in 1..n : u[j] = Take(u[j - 1], hd[p + j], Limit(c))
  BY <1>7, <1>8, <1>10, <1>13
<1>15. \A j \in 1..(n - 1) : ~IsEnd(c, hd[p + j])
  BY <1>7, <1>11, <1>13
<1>16. in[n] = hd[p + n] /\ u[n - 1] = f[n - 1] /\ u[n] = f[n] /\ u[0] = bits
  BY <1>7, <1>8, <1>10, <1>12, <1>13
<1>17. IsEnd(c, hd[p + n]) => d.buf = u[n - 1] /\ (d.ret = IF d.buf # << >> THEN 1 ELSE 0)
  BY <1>7, <1>16
<1>18. ~IsEnd(c, hd[p + n]) => d.buf = u[n] /\ d.ret = 0 /\ p + n = e
  <2>1. n = l => p + n = e
    BY <1>6
  <2> QED
    BY <1>7, <1>16, <2>1
<1>19. /\ n \in Nat /\ n > 0 /\ p + n <= e
       /\ u \in [0..n -> Seq(Bit)] /\ u[0] = bits
       /\ \A j \in 1..n : u[j] = Take(u[j - 1], hd[p + j], Limit(c))
       /\ \A j \in 1..(n - 1) : ~IsEnd(c, hd[p + j])
  BY <1>8, <1>9, <1>14, <1>15, <1>16
<1> QED
  BY <1>5, <1>17, <1>18, <1>19 DEF Stops

LEMMA OddOrEven ==
    ASSUME NEW x \in Nat, NEW l \in Nat, x > 0, x < 2 * l + 2
    PROVE  x = 2 * l + 1 \/ \E i \in 1..l : x = 2 * i - 1 \/ x = 2 * i
<1>1. CASE x % 2 = 0
  <2>1. PICK i \in Nat : x = 2 * i
    BY <1>1
  <2> QED
    BY <2>1
<1>2. CASE x % 2 = 1
  <2>1. PICK i \in Nat : x = 2 * i + 1
    BY <1>2
  <2>2. x = 2 * (i + 1) - 1 /\ (i = l \/ i + 1 \in 1..l)
    BY <2>1
  <2> QED
    BY <2>1, <2>2
<1> QED
  BY <1>1, <1>2

(* A call that begins within message k, with the bits heard so far: it     *)
(* comes to the end of the message at most, and returns the message there; *)
(* before the end it returns nothing, and has the bits heard by then.      *)
LEMMA DecodesMessage ==
    ASSUME NEW c \in Codec2, NEW ms \in Seq(Seq(Bit)), NEW hd \in Seq(Sample), NEW L,
           IsLayout(c, ms, hd, L), NEW bits \in Seq(Bit),
           NEW p \in Nat, NEW e \in Nat, p < e, e <= Len(hd),
           NEW d, d = decode(c, bits, SubSeq(hd, p + 1, e)),
           NEW k \in 1..Len(ms), L[k - 1] <= p, p < L[k],
           bits = Clip(SubSeq(ms[k], 1, BitsHeard(L[k - 1], Before(c), p)))
    PROVE  /\ p + d.used <= L[k]
           /\ p + d.used < L[k] =>
                 /\ d.ret = 0
                 /\ d.buf = Clip(SubSeq(ms[k], 1, BitsHeard(L[k - 1], Before(c), p + d.used)))
           /\ p + d.used = L[k] => d.ret = 1 /\ d.buf = Clip(ms[k])
<1>1. PICK m \in Seq(Bit) : m = ms[k]
  OBVIOUS
<1>2. PICK a \in Nat, z \in Nat : a = L[k - 1] /\ z = L[k] /\ z <= Len(hd)
  <2>1. k - 1 \in 0..Len(ms) /\ k \in 0..Len(ms) /\ Len(ms) \in 0..Len(ms) /\ k <= Len(ms)
    OBVIOUS
  <2>2. /\ L \in [0..Len(ms) -> Nat] /\ L[Len(ms)] = Len(hd)
        /\ \A i, j \in 0..Len(ms) : i <= j => L[i] <= L[j]
    BY DEF IsLayout
  <2>3. L[k] <= L[Len(ms)]
    BY <2>1, <2>2
  <2> QED
    BY <2>1, <2>2, <2>3
<1>3. PICK h \in Nat : h = Before(c)
  BY DEF Before
<1>4. PICK l \in Nat : l = Len(m)
  OBVIOUS
<1>5. PICK td : td = Limit(c)
  OBVIOUS
<1>6. m # << >>
  <2>1. ms[k] = << >> => L[k] = L[k - 1]
    BY DEF IsLayout
  <2>2. a < z
    BY <1>2
  <2>3. L[k] # L[k - 1]
    BY <1>2, <2>2
  <2> QED
    BY <1>1, <2>1, <2>3, Zenon
<1>7. /\ z = a + h + 2 * l + 2
      /\ \A x \in 1..h : IsEnd(c, hd[a + x])
      /\ \A i \in 1..l :
            /\ hd[a + h + 2 * i - 1].mode = "pulse" /\ ~IsEnd(c, hd[a + h + 2 * i - 1])
            /\ hd[a + h + 2 * i].mode = "space" /\ ~IsEnd(c, hd[a + h + 2 * i])
            /\ hd[a + h + 2 * i].len > td <=> m[i] = 1
      /\ hd[z - 1].mode = "pulse" /\ ~IsEnd(c, hd[z - 1])
      /\ IsEnd(c, hd[z])
  <2>1. ms[k] # << >>
    BY <1>1, <1>6
  <2>2. /\ L[k] = L[k - 1] + Before(c) + 2 * Len(ms[k]) + 2
        /\ \A x \in 1..Before(c) : IsEnd(c, hd[L[k - 1] + x])
        /\ \A i \in 1..Len(ms[k]) :
              /\ hd[L[k - 1] + Before(c) + 2 * i - 1].mode = "pulse"
              /\ ~IsEnd(c, hd[L[k - 1] + Before(c) + 2 * i - 1])
              /\ hd[L[k - 1] + Before(c) + 2 * i].mode = "space"
              /\ ~IsEnd(c, hd[L[k - 1] + Before(c) + 2 * i])
              /\ hd[L[k - 1] + Before(c) + 2 * i].len > Limit(c) <=> ms[k][i] = 1
        /\ hd[L[k] - 1].mode = "pulse" /\ ~IsEnd(c, hd[L[k] - 1])
        /\ IsEnd(c, hd[L[k]])
    BY <2>1, Zenon DEF IsLayout
  <2>3. z = a + h + 2 * l + 2
    BY <1>1, <1>2, <1>3, <1>4, <2>2
  <2>4. \A x \in 1..h : IsEnd(c, hd[a + x])
    BY <1>2, <1>3, <2>2
  <2>5. ASSUME NEW i \in 1..l
        PROVE  /\ hd[a + h + 2 * i - 1].mode = "pulse" /\ ~IsEnd(c, hd[a + h + 2 * i - 1])
               /\ hd[a + h + 2 * i].mode = "space" /\ ~IsEnd(c, hd[a + h + 2 * i])
               /\ hd[a + h + 2 * i].len > td <=> m[i] = 1
    <3>1. i \in 1..Len(ms[k]) /\ ms[k][i] = m[i]
      BY <1>1, <1>4
    <3> QED
      BY <1>2, <1>3, <1>5, <2>2, <3>1
  <2>6. hd[z - 1].mode = "pulse" /\ ~IsEnd(c, hd[z - 1]) /\ IsEnd(c, hd[z])
    BY <1>2, <2>2
  <2> QED
    BY <2>3, <2>4, <2>5, <2>6
<1>15. z = a + h + 2 * l + 2
  BY <1>7, Zenon
<1>14. PICK n : n = d.used
  OBVIOUS
<1>8. PICK u :
         /\ n \in Nat /\ u \in [0..n -> Seq(Bit)]
         /\ n > 0 /\ p + n <= e /\ u[0] = bits
         /\ \A j \in 1..n : u[j] = Take(u[j - 1], hd[p + j], td)
         /\ \A j \in 1..(n - 1) : ~IsEnd(c, hd[p + j])
         /\ IsEnd(c, hd[p + n]) => d.buf = u[n - 1] /\ (d.ret = IF d.buf # << >> THEN 1 ELSE 0)
         /\ ~IsEnd(c, hd[p + n]) => d.buf = u[n] /\ d.ret = 0 /\ p + n = e
  <2>1. PICK u : Stops(c, hd, bits, p, e, d, u)
    BY DecodeStops
  <2> QED
    BY <1>5, <1>14, <2>1 DEF Stops
<1>16. n \in Nat
  BY <1>8, Zenon
<1> DEFINE B(x) == BitsHeard(a, h, x)
<1>9. bits = Clip(SubSeq(m, 1, B(p))) /\ a <= p /\ p < z
  BY <1>1, <1>2, <1>3
<1>10. p + n <= z
  <2> SUFFICES ASSUME ~(p + n <= z) PROVE FALSE
    OBVIOUS
  <2>1. z - p \in 1..(n - 1) /\ p + (z - p) = z
    <3>1. n \in Nat /\ p < z
      BY <1>8, <1>9
    <3> QED
      BY <3>1
  <2> QED
    BY <1>7, <1>8, <2>1
(* A sample behind the header, as the decoder takes it.                    *)
<1>11. ASSUME NEW y \in Nat, a + h < y, y < z
       PROVE  /\ ~IsEnd(c, hd[y])
              /\ B(y) \in 0..l
              /\ Take(Clip(SubSeq(m, 1, B(y - 1))), hd[y], td) = Clip(SubSeq(m, 1, B(y)))
  <2>1. \/ y = z - 1
        \/ \E i \in 1..l : y = a + h + 2 * i - 1
        \/ \E i \in 1..l : y = a + h + 2 * i
    <3>1. PICK x \in Nat : y = a + h + x /\ x > 0 /\ x < 2 * l + 2
      BY <1>7, <1>11
    <3>2. x = 2 * l + 1 \/ \E i \in 1..l : x = 2 * i - 1 \/ x = 2 * i
      BY <3>1, OddOrEven
    <3>3. CASE x = 2 * l + 1
      BY <1>7, <3>1, <3>3
    <3>4. ASSUME NEW i \in 1..l, x = 2 * i - 1 PROVE y = a + h + 2 * i - 1
      BY <3>1, <3>4
    <3>5. ASSUME NEW i \in 1..l, x = 2 * i PROVE y = a + h + 2 * i
      BY <3>1, <3>5
    <3> QED
      BY <3>2, <3>3, <3>4, <3>5
  <2>2. CASE y = z - 1
    <3>1. B(y) = l /\ B(y - 1) = l
      BY <1>7, <2>2 DEF BitsHeard
    <3>2. hd[y].mode = "pulse" /\ ~IsEnd(c, hd[y])
      BY <1>7, <2>2
    <3>3. l \in 0..l
      OBVIOUS
    <3> HIDE DEF B
    <3> QED
      BY <3>1, <3>2, <3>3 DEF Take
  <2>3. ASSUME NEW i \in 1..l, y = a + h + 2 * i - 1
        PROVE  /\ ~IsEnd(c, hd[y]) /\ B(y) \in 0..l
               /\ Take(Clip(SubSeq(m, 1, B(y - 1))), hd[y], td) = Clip(SubSeq(m, 1, B(y)))
    <3>1. B(y) = i - 1 /\ B(y - 1) = i - 1
      BY <2>3 DEF BitsHeard
    <3>2. hd[y].mode = "pulse" /\ ~IsEnd(c, hd[y])
      BY <1>7, <2>3
    <3>3. i - 1 \in 0..l
      OBVIOUS
    <3> HIDE DEF B
    <3> QED
      BY <3>1, <3>2, <3>3 DEF Take
  <2>4. ASSUME NEW i \in 1..l, y = a + h + 2 * i
        PROVE  /\ ~IsEnd(c, hd[y]) /\ B(y) \in 0..l
               /\ Take(Clip(SubSeq(m, 1, B(y - 1))), hd[y], td) = Clip(SubSeq(m, 1, B(y)))
    <3>1. B(y) = i /\ B(y - 1) = i - 1
      BY <2>4 DEF BitsHeard
    <3>2. /\ hd[y].mode = "space" /\ ~IsEnd(c, hd[y])
          /\ hd[y].len > td <=> m[i] = 1
      BY <1>7, <2>4
    <3>3. i \in 0..l /\ i \in 1..Len(m)
      BY <1>4
    <3>4. y \in 1..Len(hd)
      <4>1. z <= Len(hd) /\ Len(hd) \in Nat
        BY <1>2
      <4> QED
        BY <1>11, <4>1
    <3>5. hd[y] \in Sample
      BY <3>4
    <3> HIDE DEF B
    <3>6. Take(Clip(SubSeq(m, 1, i - 1)), hd[y], td) = Clip(SubSeq(m, 1, i))
      BY <3>2, <3>3, <3>5, SpaceAddsBit
    <3> QED
      BY <3>1, <3>2, <3>3, <3>6
  <2> QED
    BY <2>1, <2>2, <2>3, <2>4
<1>12. CASE p < a + h
  <2>1. p + 1 - a \in 1..h /\ p + 1 = a + (p + 1 - a)
    BY <1>9, <1>12
  <2>2. IsEnd(c, hd[p + 1])
    BY <1>7, <2>1
  <2>3. n = 1
    <3> SUFFICES ASSUME n # 1 PROVE FALSE
      OBVIOUS
    <3>1. 1 \in 1..(n - 1)
      BY <1>8
    <3> QED
      BY <1>8, <2>2, <3>1
  <2>4. B(p) = 0 /\ B(p + 1) = 0 /\ p + 1 < z
    <3>1. p + 1 < z
      BY <1>12, <1>15
    <3>2. p + 1 < a + h \/ (p + 1) - a - h = 0
      BY <1>12
    <3>3. 0 \div 2 = 0
      OBVIOUS
    <3> QED
      BY <1>12, <3>1, <3>2, <3>3 DEF BitsHeard
  <2>5. bits = << >> /\ Clip(SubSeq(m, 1, 0)) = << >>
    BY <1>9, <2>4, ClipOfAll
  <2>6. d.buf = u[0] /\ d.ret = IF d.buf # << >> THEN 1 ELSE 0
    BY <1>8, <2>2, <2>3
  <2>7. d.buf = << >> /\ d.ret = 0
    BY <1>8, <2>5, <2>6
  <2>8. d.buf = Clip(SubSeq(m, 1, B(p + n)))
    BY <2>3, <2>4, <2>5, <2>7
  <2>9. p + n < z
    BY <2>3, <2>4
  <2> QED
    BY <1>1, <1>2, <1>3, <1>10, <1>14, <2>7, <2>8, <2>9
<1>13. CASE a + h <= p
  <2> DEFINE S == {j \in 0..n : p + j < z => u[j] = Clip(SubSeq(m, 1, B(p + j)))}
  <2>1. 0 \in S
    <3>1. p + 0 = p /\ 0 \in 0..n
      BY <1>8
    <3> HIDE DEF B
    <3> QED
      BY <1>8, <1>9, <3>1
  <2>2. ASSUME NEW j \in 1..n, j - 1 \in S PROVE j \in S
    <3> SUFFICES ASSUME p + j < z PROVE u[j] = Clip(SubSeq(m, 1, B(p + j)))
      OBVIOUS
    <3>1. p + j \in Nat /\ a + h < p + j /\ (p + j) - 1 = p + (j - 1) /\ p + (j - 1) < z
      BY <1>13
    <3> HIDE DEF B
    <3>2. u[j - 1] = Clip(SubSeq(m, 1, B((p + j) - 1)))
      BY <2>2, <3>1
    <3>3. Take(Clip(SubSeq(m, 1, B((p + j) - 1))), hd[p + j], td) = Clip(SubSeq(m, 1, B(p + j)))
      BY <1>11, <3>1
    <3> QED
      BY <1>8, <3>2, <3>3
  <2>3. \A j \in 0..n : p + j < z => u[j] = Clip(SubSeq(m, 1, B(p + j)))
    <3>1. 0..n \subseteq S
      <4> HIDE DEF S
      <4> QED
        BY <1>8, <2>1, <2>2, IntervalInduction
    <3> QED
      BY <3>1
  <2> HIDE DEF S
  <2>4. n \in 0..n /\ n - 1 \in 0..n /\ p + n \in Nat /\ p + n > a + h
    BY <1>8, <1>13
  <2>5. CASE p + n < z
    <3>1. ~IsEnd(c, hd[p + n])
      BY <1>11, <2>4, <2>5
    <3>2. d.buf = u[n] /\ d.ret = 0
      BY <1>8, <3>1
    <3>3. d.buf = Clip(SubSeq(m, 1, B(p + n)))
      BY <2>3, <2>4, <2>5, <3>2
    <3>4. p + n # z
      BY <2>5
    <3> QED
      BY <1>1, <1>2, <1>3, <1>10, <1>14, <2>5, <3>2, <3>3, <3>4
  <2>6. CASE p + n = z
    <3>1. IsEnd(c, hd[p + n])
      BY <1>7, <2>6
    <3>2. d.buf = u[n - 1] /\ d.ret = IF d.buf # << >> THEN 1 ELSE 0
      BY <1>8, <3>1
    <3>3. p + (n - 1) < z /\ B(p + (n - 1)) = l
      <4>1. p + (n - 1) = z - 1 /\ z - 1 = a + h + (2 * l + 1)
        BY <1>15, <1>16, <2>6
      <4>2. (z - 1) - a - h = 2 * l + 1 /\ ~(z - 1 < a + h) /\ z - 1 < z
        BY <4>1
      <4>3. (2 * l + 1) \div 2 = l
        OBVIOUS
      <4> QED
        BY <4>1, <4>2, <4>3 DEF BitsHeard
    <3>4. d.buf = Clip(SubSeq(m, 1, l))
      BY <2>3, <2>4, <3>2, <3>3
    <3>5. d.buf = Clip(m) /\ d.buf # << >>
      BY <1>4, <1>6, <3>4, ClipOfAll
    <3>6. d.ret = 1
      BY <3>2, <3>5
    <3>7. ~(p + n < z)
      BY <2>6
    <3> QED
      BY <1>1, <1>2, <1>10, <1>14, <2>6, <3>5, <3>6, <3>7
  <2> QED
    BY <1>10, <2>4, <2>5, <2>6
<1> QED
  BY <1>9, <1>12, <1>13

----------------------------------------------------------------------------
(* What the invariant says, of values instead of variables: the codec c,   *)
(* the messages ms with their last samples L, what is heard, hd, the       *)
(* samples that are lost, the position p, the buffer b and the frames fs.  *)

BuffFits(c, ms, L, lost, p, b) ==
    /\ \A k \in 1..Len(ms) :
          /\ L[k - 1] <= p
          /\ p < L[k]
          /\ \A i \in L[k - 1]..p : i \notin lost
          => b = Clip(SubSeq(ms[k], 1, BitsHeard(L[k - 1], Before(c), p)))
    /\ (p = 0 \/ \E k \in 1..Len(ms) : p = L[k]) /\ p \notin lost => b = << >>

IsRight(f, ms, L, k) == f.at = L[k] /\ f.bits = Clip(ms[k])

AllDecoded(ms, L, lost, p, fs) ==
    \A k \in 1..Len(ms) :
       /\ ms[k] # << >>
       /\ \A i \in L[k - 1]..L[k] : i \notin lost
       /\ L[k] <= p
       => \E i \in 1..Len(fs) : IsRight(fs[i], ms, L, k)

Wrongs(ms, L, fs) == {i \in 1..Len(fs) : ~\E k \in 1..Len(ms) : IsRight(fs[i], ms, L, k)}

IsDirty(ms, L, lost, p) == \E i \in lost : \A k \in 1..Len(ms) : ~(i < L[k] /\ L[k] <= p)

(* No more than n frames are wrong, or may still be.                       *)
Within(ms, L, lost, p, fs, n) ==
    Cardinality(Wrongs(ms, L, fs)) + (IF IsDirty(ms, L, lost, p) THEN 1 ELSE 0) <= n

Ordered(p, fs) ==
    /\ \A i \in 1..Len(fs) : fs[i].at <= p
    /\ \A i, j \in 1..Len(fs) : i < j => fs[i].at < fs[j].at

(* A call of the decoder within what is heard.                             *)
Call(c, ms, hd, L, b, p, e, d) ==
    /\ c \in Codec2 /\ ms \in Seq(Seq(Bit)) /\ IsLayout(c, ms, hd, L)
    /\ b \in Seq(Bit) /\ p \in Nat /\ e \in Nat /\ p < e /\ e <= Len(hd)
    /\ d = decode(c, b, SubSeq(hd, p + 1, e))

(* It goes no further than the next pause, and leaves nothing in the       *)
(* buffer behind a sample that ends a frame.                               *)
LEMMA CallOutcome ==
    ASSUME NEW c, NEW ms, NEW hd, NEW L, NEW b, NEW p, NEW e, NEW d,
           Call(c, ms, hd, L, b, p, e, d)
    PROVE  /\ d.used \in Nat /\ d.used > 0 /\ p + d.used <= e
           /\ d.buf \in Seq(Bit) /\ d.ret \in {0, 1}
           /\ \A k \in 0..Len(ms) : p < L[k] => p + d.used <= L[k]
           /\ IsEnd(c, hd[p + d.used]) => d.ret = 1 \/ d.buf = << >>
           /\ d.ret = 1 => IsEnd(c, hd[p + d.used]) /\ d.buf # << >>
<1>1. /\ c \in Codec2 /\ ms \in Seq(Seq(Bit)) /\ IsLayout(c, ms, hd, L)
      /\ b \in Seq(Bit) /\ p \in Nat /\ e \in Nat /\ p < e /\ e <= Len(hd)
      /\ d = decode(c, b, SubSeq(hd, p + 1, e))
  BY DEF Call
<1>2. hd \in Seq(Sample) /\ L \in [0..Len(ms) -> Nat]
  BY <1>1 DEF IsLayout
<1>3. PICK u : Stops(c, hd, b, p, e, d, u)
  BY <1>1, <1>2, DecodeStops
<1>4. PICK n : n = d.used
  OBVIOUS
<1>5. /\ n \in Nat /\ n > 0 /\ p + n <= e /\ u \in [0..n -> Seq(Bit)]
      /\ \A j \in 1..(n - 1) : ~IsEnd(c, hd[p + j])
      /\ IsEnd(c, hd[p + n]) => d.buf = u[n - 1] /\ (d.ret = IF d.buf # << >> THEN 1 ELSE 0)
      /\ ~IsEnd(c, hd[p + n]) => d.buf = u[n] /\ d.ret = 0
  BY <1>3, <1>4 DEF Stops
<1>6. ASSUME NEW k \in 0..Len(ms), p < L[k] PROVE p + n <= L[k]
  <2> SUFFICES ASSUME ~(p + n <= L[k]) PROVE FALSE
    OBVIOUS
  <2>1. L[k] \in Nat /\ L[k] > 0
    <3>1. p \in Nat /\ L[k] \in Nat
      BY <1>1, <1>2
    <3> QED
      BY <1>6, <3>1
  <2>2. IsEnd(c, hd[L[k]])
    BY <1>1, <2>1, PauseEnds
  <2>3. L[k] - p \in 1..(n - 1) /\ p + (L[k] - p) = L[k]
    <3>1. n \in Nat /\ p \in Nat
      BY <1>1, <1>5
    <3> QED
      BY <1>6, <2>1, <3>1
  <2> QED
    BY <1>5, <2>2, <2>3
<1>7. n - 1 \in 0..n /\ n \in 0..n
  <2>1. n \in Nat /\ n > 0
    BY <1>5
  <2> QED
    BY <2>1
<1>8. u[n - 1] \in Seq(Bit) /\ u[n] \in Seq(Bit)
  BY <1>5, <1>7
<1>9. CASE IsEnd(c, hd[p + n])
  BY <1>4, <1>5, <1>6, <1>8, <1>9
<1>10. CASE ~IsEnd(c, hd[p + n])
  BY <1>4, <1>5, <1>6, <1>8, <1>10
<1> QED
  BY <1>9, <1>10

(* A call that begins within a message that came through so far.           *)
LEMMA CallInMessage ==
    ASSUME NEW c, NEW ms, NEW hd, NEW L, NEW b, NEW p, NEW e, NEW d, NEW lost,
           Call(c, ms, hd, L, b, p, e, d), BuffFits(c, ms, L, lost, p, b),
           NEW k \in 1..Len(ms), L[k - 1] <= p, p < L[k],
           \A i \in L[k - 1]..p : i \notin lost
    PROVE  /\ p + d.used < L[k] =>
                 /\ d.ret = 0
                 /\ d.buf = Clip(SubSeq(ms[k], 1, BitsHeard(L[k - 1], Before(c), p + d.used)))
           /\ p + d.used = L[k] => d.ret = 1 /\ d.buf = Clip(ms[k])
<1>1. /\ c \in Codec2 /\ ms \in Seq(Seq(Bit)) /\ IsLayout(c, ms, hd, L)
      /\ b \in Seq(Bit) /\ p \in Nat /\ e \in Nat /\ p < e /\ e <= Len(hd)
      /\ d = decode(c, b, SubSeq(hd, p + 1, e))
  BY DEF Call
<1>2. hd \in Seq(Sample)
  BY <1>1 DEF IsLayout
<1>3. b = Clip(SubSeq(ms[k], 1, BitsHeard(L[k - 1], Before(c), p)))
  BY Zenon DEF BuffFits
<1> QED
  BY <1>1, <1>2, <1>3, DecodesMessage

(* What the loop makes of a call keeps each part of the invariant.         *)
LEMMA CallKeepsBuff ==
    ASSUME NEW c, NEW ms, NEW hd, NEW L, NEW b, NEW p, NEW e, NEW d, NEW lost,
           Call(c, ms, hd, L, b, p, e, d), BuffFits(c, ms, L, lost, p, b)
    PROVE  BuffFits(c, ms, L, lost, p + d.used, IF d.ret = 1 THEN << >> ELSE d.buf)
<1>1. /\ c \in Codec2 /\ ms \in Seq(Seq(Bit)) /\ IsLayout(c, ms, hd, L) /\ p \in Nat
  BY DEF Call
<1>2. L \in [0..Len(ms) -> Nat]
  BY <1>1 DEF IsLayout
<1>3. PICK q \in Nat : q = p + d.used /\ p < q
  BY <1>1, CallOutcome
<1>4. PICK r : r = IF d.ret = 1 THEN << >> ELSE d.buf
  OBVIOUS
<1>5. ASSUME NEW k \in 0..Len(ms), p < L[k], L[k] <= q
      PROVE  q = L[k] /\ r = << >>
  <2>1. L[k] \in Nat /\ L[k] > 0
    BY <1>1, <1>2, <1>5
  <2>2. q <= L[k]
    BY <1>3, <1>5, CallOutcome
  <2>3. q = L[k]
    BY <1>5, <2>1, <2>2
  <2>4. IsEnd(c, hd[q])
    BY <1>1, <2>1, <2>3, PauseEnds
  <2>5. d.ret = 1 \/ d.buf = << >>
    BY <1>3, <2>4, CallOutcome
  <2> QED
    BY <1>4, <2>3, <2>5
<1>6. ASSUME NEW k \in 1..Len(ms), L[k - 1] <= q, q < L[k],
             \A i \in L[k - 1]..q : i \notin lost
      PROVE  r = Clip(SubSeq(ms[k], 1, BitsHeard(L[k - 1], Before(c), q)))
  <2>1. PICK a \in Nat, z \in Nat : a = L[k - 1] /\ z = L[k]
    <3>1. k - 1 \in 0..Len(ms) /\ k \in 0..Len(ms)
      OBVIOUS
    <3> QED
      BY <1>2, <3>1
  <2>2. CASE p < a
    <3>1. k - 1 \in 0..Len(ms)
      OBVIOUS
    <3>2. q = a /\ r = << >>
      BY <1>5, <1>6, <2>1, <2>2, <3>1
    <3>3. PICK h \in Nat : h = Before(c)
      BY DEF Before
    <3>4. BitsHeard(a, h, a) = 0
      <4>1. (a - a - h) \div 2 = 0 \/ a < a + h
        <5>1. h = 0 \/ h > 0
          OBVIOUS
        <5>2. (a - a - 0) \div 2 = 0
          OBVIOUS
        <5> QED
          BY <5>1, <5>2
      <4> QED
        BY <4>1 DEF BitsHeard
    <3>5. ms[k] \in Seq(Bit)
      BY <1>1
    <3>6. Clip(SubSeq(ms[k], 1, 0)) = << >>
      BY <3>5, ClipOfAll
    <3> QED
      BY <2>1, <3>2, <3>3, <3>4, <3>6
  <2>3. CASE a <= p
    <3>1. \A i \in L[k - 1]..p : i \notin lost
      <4>1. \A i \in a..p : i \in a..q
        BY <1>1, <1>3
      <4> QED
        BY <1>6, <2>1, <4>1
    <3>2. p < L[k] /\ L[k - 1] <= p
      BY <1>1, <1>3, <1>6, <2>1, <2>3
    <3>3. /\ d.ret = 0
          /\ d.buf = Clip(SubSeq(ms[k], 1, BitsHeard(L[k - 1], Before(c), p + d.used)))
      BY <1>3, <1>6, <3>1, <3>2, CallInMessage
    <3>4. r = d.buf
      BY <1>4, <3>3
    <3> QED
      BY <1>3, <3>3, <3>4
  <2> QED
    BY <1>1, <2>2, <2>3
<1>7. ASSUME q = 0 \/ \E k \in 1..Len(ms) : q = L[k] PROVE r = << >>
  <2>1. q # 0
    BY <1>1, <1>3
  <2>2. PICK k \in 1..Len(ms) : q = L[k]
    BY <1>7, <2>1
  <2>3. k \in 0..Len(ms) /\ p < L[k] /\ L[k] <= q
    BY <1>3, <2>2
  <2> QED
    BY <1>5, <2>3
<1>8. BuffFits(c, ms, L, lost, q, r)
  BY <1>6, <1>7, Zenon DEF BuffFits
<1> QED
  BY <1>3, <1>4, <1>8

LEMMA CallKeepsDecoded ==
    ASSUME NEW c, NEW ms, NEW hd, NEW L, NEW b, NEW p, NEW e, NEW d, NEW lost,
           NEW fs \in Seq([bits : Seq(Bit), at : Nat]),
           Call(c, ms, hd, L, b, p, e, d), BuffFits(c, ms, L, lost, p, b),
           AllDecoded(ms, L, lost, p, fs), NEW gs,
           gs = IF d.ret = 1 THEN Append(fs, [bits |-> d.buf, at |-> p + d.used]) ELSE fs
    PROVE  AllDecoded(ms, L, lost, p + d.used, gs)
<1>1. /\ ms \in Seq(Seq(Bit)) /\ IsLayout(c, ms, hd, L) /\ p \in Nat
  BY DEF Call
<1>2. L \in [0..Len(ms) -> Nat]
  BY <1>1 DEF IsLayout
<1>3. PICK q \in Nat : q = p + d.used /\ p < q
  BY <1>1, CallOutcome
<1>4. PICK n \in Nat : n = Len(fs)
  OBVIOUS
<1>5. PICK f \in [bits : Seq(Bit), at : Nat] : f = [bits |-> d.buf, at |-> q]
  <2>1. d.buf \in Seq(Bit)
    BY CallOutcome
  <2> QED
    BY <2>1
<1>6. gs = IF d.ret = 1 THEN Append(fs, f) ELSE fs
  BY <1>3, <1>5
<1>7. \A i \in 1..n : i \in 1..Len(gs) /\ gs[i] = fs[i]
  <2>1. CASE d.ret = 1
    BY <1>4, <1>6, <2>1
  <2>2. CASE d.ret # 1
    BY <1>4, <1>6, <2>2
  <2> QED
    BY <2>1, <2>2
<1>8. ASSUME NEW k \in 1..Len(ms), ms[k] # << >>, \A i \in L[k - 1]..L[k] : i \notin lost,
             L[k] <= q
      PROVE  \E i \in 1..Len(gs) : IsRight(gs[i], ms, L, k)
  <2>1. PICK a \in Nat, z \in Nat : a = L[k - 1] /\ z = L[k]
    <3>1. k - 1 \in 0..Len(ms) /\ k \in 0..Len(ms)
      OBVIOUS
    <3> QED
      BY <1>2, <3>1
  <2>2. CASE z <= p
    <3>1. PICK i \in 1..n : IsRight(fs[i], ms, L, k)
      BY <1>4, <1>8, <2>1, <2>2 DEF AllDecoded
    <3> QED
      BY <1>7, <3>1
  <2>3. CASE p < z
    <3>1. q = z
      <4>1. k \in 0..Len(ms) /\ p < L[k]
        BY <2>1, <2>3
      <4>2. q <= z
        BY <1>3, <2>1, <4>1, CallOutcome
      <4> QED
        BY <1>8, <2>1, <4>2
    <3>2. a <= p
      <4> SUFFICES ASSUME p < a PROVE FALSE
        BY <1>1
      <4>1. k - 1 \in 0..Len(ms) /\ p < L[k - 1]
        BY <2>1
      <4>2. q <= a
        BY <1>3, <2>1, <4>1, CallOutcome
      <4>3. a < z
        <5>1. L[k] = L[k - 1] + Before(c) + 2 * Len(ms[k]) + 2
          BY <1>1, <1>8 DEF IsLayout
        <5>2. Before(c) \in Nat /\ Len(ms[k]) \in Nat
          BY <1>1 DEF Before
        <5> QED
          BY <2>1, <5>1, <5>2, SMTT(30)
      <4> QED
        BY <3>1, <4>2, <4>3
    <3>3. \A i \in L[k - 1]..p : i \notin lost
      <4>1. \A i \in a..p : i \in a..z
        BY <1>1, <2>3
      <4> QED
        BY <1>8, <2>1, <4>1
    <3>4. d.ret = 1 /\ d.buf = Clip(ms[k])
      <4>1. L[k - 1] <= p /\ p < L[k] /\ p + d.used = L[k]
        BY <1>3, <2>1, <2>3, <3>1, <3>2
      <4> QED
        BY <3>3, <4>1, CallInMessage
    <3>5. gs = Append(fs, f)
      BY <1>6, <3>4
    <3>6. n + 1 \in 1..Len(gs) /\ gs[n + 1] = f
      BY <1>4, <3>5
    <3>7. f.at = L[k] /\ f.bits = Clip(ms[k])
      BY <1>5, <2>1, <3>1, <3>4
    <3> QED
      BY <3>6, <3>7 DEF IsRight
  <2>4. z <= p \/ p < z
    BY <1>1
  <2> QED
    BY <2>2, <2>3, <2>4
<1>9. AllDecoded(ms, L, lost, q, gs)
  BY <1>8 DEF AllDecoded
<1> QED
  BY <1>3, <1>9

(* A frame that is not right is what a flush has left.                     *)
LEMMA CallIsRight ==
    ASSUME NEW c, NEW ms, NEW hd, NEW L, NEW b, NEW p, NEW e, NEW d, NEW lost,
           Call(c, ms, hd, L, b, p, e, d), BuffFits(c, ms, L, lost, p, b),
           lost \subseteq 1..p, c = "nec" => lost = {}, d.ret = 1,
           NEW f, f = [bits |-> d.buf, at |-> p + d.used]
    PROVE  /\ ~IsDirty(ms, L, lost, p + d.used)
           /\ ~IsDirty(ms, L, lost, p) => \E k \in 1..Len(ms) : IsRight(f, ms, L, k)
<1>1. /\ c \in Codec2 /\ ms \in Seq(Seq(Bit)) /\ IsLayout(c, ms, hd, L)
      /\ p \in Nat /\ e \in Nat /\ e <= Len(hd)
  BY DEF Call
<1>2. /\ hd \in Seq(Sample) /\ L \in [0..Len(ms) -> Nat]
      /\ \A i, j \in 0..Len(ms) : i <= j => L[i] <= L[j]
  BY <1>1 DEF IsLayout
<1>3. PICK q \in Nat : q = p + d.used /\ p < q /\ q <= e
  BY <1>1, CallOutcome
<1>4. IsEnd(c, hd[q]) /\ d.buf # << >>
  BY <1>3, CallOutcome
<1>5. q \in 1..Len(hd)
  <2>1. Len(hd) \in Nat
    BY <1>2
  <2> QED
    BY <1>1, <1>3, <2>1
<1>6. PICK k \in 1..Len(ms) : ms[k] # << >> /\ L[k - 1] < q /\ q <= L[k]
  BY <1>1, <1>5, HearerExists
<1>7. PICK a \in Nat, z \in Nat : a = L[k - 1] /\ z = L[k]
  <2>1. k - 1 \in 0..Len(ms) /\ k \in 0..Len(ms)
    OBVIOUS
  <2> QED
    BY <1>2, <2>1
<1>8. a <= p
  <2> SUFFICES ASSUME p < a PROVE FALSE
    BY <1>1
  <2>1. k - 1 \in 0..Len(ms) /\ p < L[k - 1]
    BY <1>7
  <2>2. q <= a
    BY <1>3, <1>7, <2>1, CallOutcome
  <2> QED
    BY <1>6, <1>7, <2>2
<1>9. L[k - 1] <= p /\ p < L[k]
  BY <1>1, <1>3, <1>6, <1>7, <1>8
(* What was lost before message k does not touch it.                       *)
<1>10. ASSUME ~IsDirty(ms, L, lost, p) PROVE \A i \in L[k - 1]..p : i \notin lost
  <2> SUFFICES ASSUME NEW i \in a..p, i \in lost PROVE FALSE
    BY <1>7
  <2>1. PICK j \in 1..Len(ms) : i < L[j] /\ L[j] <= p
    BY <1>10 DEF IsDirty
  <2>2. j \in 0..Len(ms) /\ k - 1 \in 0..Len(ms) /\ k \in 0..Len(ms) /\ (j <= k - 1 \/ k <= j)
    OBVIOUS
  <2>3. L[j] \in Nat
    BY <1>2, <2>2
  <2>4. CASE j <= k - 1
    <3>1. L[j] <= a
      BY <1>2, <1>7, <2>2, <2>4
    <3> QED
      BY <2>1, <2>3, <3>1
  <2>5. CASE k <= j
    <3>1. z <= L[j]
      BY <1>2, <1>7, <2>2, <2>5
    <3> QED
      BY <1>1, <1>7, <1>9, <2>1, <2>3, <3>1
  <2> QED
    BY <2>2, <2>4, <2>5
<1>11. CASE q = z
  <2>1. ~IsDirty(ms, L, lost, q)
    <3>1. \A i \in lost : i < z
      <4>1. \A i \in 1..p : i < z
        BY <1>1, <1>3, <1>11
      <4> QED
        BY <4>1
    <3> QED
      BY <1>7, <1>11, <3>1 DEF IsDirty
  <2>2. ASSUME ~IsDirty(ms, L, lost, p) PROVE IsRight(f, ms, L, k)
    <3>1. p + d.used = L[k]
      BY <1>3, <1>7, <1>11
    <3>2. d.buf = Clip(ms[k])
      BY <1>9, <1>10, <2>2, <3>1, CallInMessage
    <3> QED
      BY <3>1, <3>2 DEF IsRight
  <2> QED
    BY <1>3, <2>1, <2>2
(* Only nec has samples that end a frame before the pause, its header, and *)
(* nec is not flushed.                                                     *)
<1>12. CASE q < z
  <2>1. PICK m \in Seq(Bit) : m = ms[k] /\ m # << >>
    BY <1>1, <1>6
  <2>2. ASSUME lost = {} PROVE FALSE
    <3>1. \A i \in L[k - 1]..p : i \notin lost
      BY <2>2
    <3>2. d.ret = 0
      BY <1>3, <1>7, <1>9, <1>12, <3>1, CallInMessage
    <3> QED
      BY <3>2
  <2>3. CASE c = "nec"
    BY <2>2, <2>3
  <2>4. CASE c = "unkn0"
    <3>1. Before(c) = 0
      BY <2>4 DEF Before
    <3>2. PICK l \in Nat : l = Len(m)
      OBVIOUS
    <3>3. /\ L[k] = L[k - 1] + Before(c) + 2 * Len(ms[k]) + 2
          /\ \A i \in 1..Len(ms[k]) :
                /\ ~IsEnd(c, hd[L[k - 1] + Before(c) + 2 * i - 1])
                /\ ~IsEnd(c, hd[L[k - 1] + Before(c) + 2 * i])
          /\ ~IsEnd(c, hd[L[k] - 1])
      <4>1. ms[k] # << >>
        BY <2>1
      <4> QED
        BY <1>1, <4>1, Zenon DEF IsLayout
    <3>4. PICK x \in Nat : q = a + x /\ x > 0
      <4>1. a < q
        BY <1>6, <1>7
      <4>2. q - a \in Nat /\ q = a + (q - a) /\ q - a > 0
        BY <4>1
      <4> QED
        BY <4>2
    <3>5. z = a + 2 * l + 2
      BY <1>7, <2>1, <3>1, <3>2, <3>3
    <3>6. x = 2 * l + 1 \/ \E i \in 1..l : x = 2 * i - 1 \/ x = 2 * i
      <4>1. x < 2 * l + 2
        BY <1>12, <3>4, <3>5
      <4> QED
        BY <3>4, <4>1, OddOrEven
    <3>7. CASE x = 2 * l + 1
      <4>1. q = z - 1
        BY <3>4, <3>5, <3>7
      <4> QED
        BY <1>4, <1>7, <3>3, <4>1
    <3>8. ASSUME NEW i \in 1..l, x = 2 * i - 1 \/ x = 2 * i PROVE FALSE
      <4>1. q = a + 0 + 2 * i - 1 \/ q = a + 0 + 2 * i
        BY <3>4, <3>8
      <4>2. ~IsEnd(c, hd[a + 0 + 2 * i - 1]) /\ ~IsEnd(c, hd[a + 0 + 2 * i])
        BY <1>7, <2>1, <3>1, <3>2, <3>3
      <4> QED
        BY <1>4, <4>1, <4>2
    <3> QED
      BY <3>6, <3>7, <3>8
  <2> QED
    BY <1>1, <2>3, <2>4 DEF Codec2
<1>13. q = z \/ q < z
  BY <1>6, <1>7
<1> QED
  BY <1>11, <1>12, <1>13

LEMMA WrongsFinite ==
    ASSUME NEW ms, NEW L, NEW fs \in Seq([bits : Seq(Bit), at : Nat])
    PROVE  IsFiniteSet(Wrongs(ms, L, fs)) /\ Cardinality(Wrongs(ms, L, fs)) \in Nat
<1>1. PICK n \in Nat : n = Len(fs)
  OBVIOUS
<1>2. IsFiniteSet(1..n)
  <2>1. 1 \in Int /\ n \in Int
    OBVIOUS
  <2> QED
    BY <2>1, FS_Interval
<1>3. Wrongs(ms, L, fs) \subseteq 1..n
  BY <1>1 DEF Wrongs
<1>4. IsFiniteSet(Wrongs(ms, L, fs))
  BY <1>2, <1>3, FS_Subset
<1> QED
  BY <1>4, FS_CardinalityType

LEMMA CallKeepsCount ==
    ASSUME NEW c, NEW ms, NEW hd, NEW L, NEW b, NEW p, NEW e, NEW d, NEW lost,
           NEW fs \in Seq([bits : Seq(Bit), at : Nat]),
           Call(c, ms, hd, L, b, p, e, d), BuffFits(c, ms, L, lost, p, b),
           lost \subseteq 1..p, c = "nec" => lost = {}, NEW n \in Nat,
           Within(ms, L, lost, p, fs, n), NEW gs,
           gs = IF d.ret = 1 THEN Append(fs, [bits |-> d.buf, at |-> p + d.used]) ELSE fs
    PROVE  Within(ms, L, lost, p + d.used, gs, n)
<1>1. PICK v \in Nat : v = Cardinality(Wrongs(ms, L, fs))
  BY WrongsFinite
<1>2. PICK x \in {0, 1} : x = IF IsDirty(ms, L, lost, p) THEN 1 ELSE 0
  OBVIOUS
<1>3. v + x <= n
  BY <1>1, <1>2 DEF Within
<1>4. PICK q \in Nat : q = p + d.used /\ p < q /\ p \in Nat
  <2>1. p \in Nat
    BY DEF Call
  <2> QED
    BY <2>1, CallOutcome
<1>5. PICK y \in {0, 1} : y = IF IsDirty(ms, L, lost, q) THEN 1 ELSE 0
  OBVIOUS
<1>6. L \in [0..Len(ms) -> Nat]
  BY DEF Call, IsLayout
<1>7. CASE d.ret # 1
  <2>1. gs = fs
    BY <1>7
  <2>2. IsDirty(ms, L, lost, q) => IsDirty(ms, L, lost, p)
    <3> SUFFICES ASSUME IsDirty(ms, L, lost, q) PROVE IsDirty(ms, L, lost, p)
      OBVIOUS
    <3>1. PICK i \in lost : \A k \in 1..Len(ms) : ~(i < L[k] /\ L[k] <= q)
      BY DEF IsDirty
    <3>2. ASSUME NEW k \in 1..Len(ms), i < L[k], L[k] <= p PROVE FALSE
      <4>1. L[k] \in Nat
        BY <1>6
      <4>2. L[k] <= q
        BY <1>4, <3>2, <4>1
      <4> QED
        BY <3>1, <3>2, <4>2
    <3> QED
      BY <3>2 DEF IsDirty
  <2>3. y <= x
    BY <1>2, <1>5, <2>2
  <2>4. v + y <= n
    BY <1>3, <2>3
  <2> QED
    BY <1>1, <1>4, <1>5, <2>1, <2>4 DEF Within
<1>8. CASE d.ret = 1
  <2>1. PICK f \in [bits : Seq(Bit), at : Nat] : f = [bits |-> d.buf, at |-> q]
    <3>1. d.buf \in Seq(Bit)
      BY CallOutcome
    <3> QED
      BY <3>1
  <2>2. gs = Append(fs, f)
    BY <1>4, <1>8, <2>1
  <2>3. /\ ~IsDirty(ms, L, lost, q)
        /\ ~IsDirty(ms, L, lost, p) => \E k \in 1..Len(ms) : IsRight(f, ms, L, k)
    BY <1>4, <1>8, <2>1, CallIsRight
  <2>4. y = 0
    BY <1>5, <2>3
  <2>5. PICK l \in Nat : l = Len(fs)
    OBVIOUS
  <2>6. /\ Len(gs) = l + 1 /\ gs[l + 1] = f
        /\ \A i \in 1..l : i \in 1..(l + 1) /\ gs[i] = fs[i]
        /\ \A i \in 1..(l + 1) : i \in 1..l \/ i = l + 1
    BY <2>2, <2>5
  <2>7. Wrongs(ms, L, gs) \subseteq Wrongs(ms, L, fs) \cup {l + 1}
    BY <2>5, <2>6 DEF Wrongs
  <2>8. (\E k \in 1..Len(ms) : IsRight(f, ms, L, k)) => Wrongs(ms, L, gs) \subseteq Wrongs(ms, L, fs)
    <3> SUFFICES ASSUME NEW k \in 1..Len(ms), IsRight(f, ms, L, k),
                        NEW i \in Wrongs(ms, L, gs)
                 PROVE  i \in Wrongs(ms, L, fs)
      BY Zenon
    <3>1. i # l + 1
      BY <2>6 DEF Wrongs
    <3> QED
      BY <2>7, <3>1
  <2>9. IsFiniteSet(Wrongs(ms, L, fs))
    BY WrongsFinite
  <2>10. CASE IsDirty(ms, L, lost, p)
    <3>1. l + 1 \notin Wrongs(ms, L, fs)
      BY <2>5 DEF Wrongs
    <3>2. /\ IsFiniteSet(Wrongs(ms, L, fs) \cup {l + 1})
          /\ Cardinality(Wrongs(ms, L, fs) \cup {l + 1}) = v + 1
      BY <1>1, <2>9, <3>1, FS_AddElement
    <3>3. Cardinality(Wrongs(ms, L, gs)) <= v + 1 /\ Cardinality(Wrongs(ms, L, gs)) \in Nat
      <4>1. /\ IsFiniteSet(Wrongs(ms, L, gs))
            /\ Cardinality(Wrongs(ms, L, gs)) <= Cardinality(Wrongs(ms, L, fs) \cup {l + 1})
        BY <2>7, <3>2, FS_Subset
      <4> QED
        BY <3>2, <4>1, FS_CardinalityType
    <3>4. x = 1
      BY <1>2, <2>10
    <3>5. v + 1 <= n
      BY <1>3, <3>4
    <3>6. Cardinality(Wrongs(ms, L, gs)) + 0 <= n
      BY <3>3, <3>5
    <3> QED
      BY <1>4, <1>5, <2>4, <3>6 DEF Within
  <2>11. CASE ~IsDirty(ms, L, lost, p)
    <3>1. Wrongs(ms, L, gs) \subseteq Wrongs(ms, L, fs)
      BY <2>3, <2>8, <2>11
    <3>2. Cardinality(Wrongs(ms, L, gs)) <= v /\ Cardinality(Wrongs(ms, L, gs)) \in Nat
      <4>1. /\ IsFiniteSet(Wrongs(ms, L, gs))
            /\ Cardinality(Wrongs(ms, L, gs)) <= Cardinality(Wrongs(ms, L, fs))
        BY <2>9, <3>1, FS_Subset
      <4> QED
        BY <1>1, <4>1, FS_CardinalityType
    <3>3. v <= n
      BY <1>3
    <3>4. Cardinality(Wrongs(ms, L, gs)) + 0 <= n
      BY <3>2, <3>3
    <3> QED
      BY <1>4, <1>5, <2>4, <3>4 DEF Within
  <2> QED
    BY <2>10, <2>11
<1> QED
  BY <1>7, <1>8

LEMMA CallKeepsOrder ==
    ASSUME NEW p \in Nat, NEW q \in Nat, p < q, NEW bits \in Seq(Bit),
           NEW fs \in Seq([bits : Seq(Bit), at : Nat]), Ordered(p, fs)
    PROVE  Ordered(q, fs) /\ Ordered(q, Append(fs, [bits |-> bits, at |-> q]))
<1>1. PICK f \in [bits : Seq(Bit), at : Nat] : f = [bits |-> bits, at |-> q]
  OBVIOUS
<1>2. PICK l \in Nat : l = Len(fs)
  OBVIOUS
<1>3. PICK gs : gs = Append(fs, f)
  OBVIOUS
<1>4. /\ Len(gs) = l + 1 /\ gs[l + 1] = f
      /\ \A i \in 1..l : gs[i] = fs[i]
      /\ \A i \in 1..(l + 1) : i \in 1..l \/ i = l + 1
  BY <1>2, <1>3
<1>5. f.at = q
  BY <1>1
<1>6. \A i \in 1..l : fs[i].at \in Nat
  <2> TAKE i \in 1..l
  <2>1. PICK g \in [bits : Seq(Bit), at : Nat] : g = fs[i]
    <3>1. \A R : fs \in Seq(R) => fs[i] \in R
      BY <1>2
    <3>2. fs[i] \in [bits : Seq(Bit), at : Nat]
      BY <3>1, Zenon
    <3> QED
      BY <3>2, Zenon
  <2> QED
    BY <2>1
<1>7. /\ \A i \in 1..l : fs[i].at <= p
      /\ \A i, j \in 1..l : i < j => fs[i].at < fs[j].at
  BY <1>2 DEF Ordered
<1>8. \A i \in 1..l : fs[i].at <= q /\ fs[i].at < q
  BY <1>6, <1>7
<1>9. \A i \in 1..(l + 1) : gs[i].at <= q
  BY <1>4, <1>5, <1>8
<1>10. \A i, j \in 1..(l + 1) : i < j => gs[i].at < gs[j].at
  <2> SUFFICES ASSUME NEW i \in 1..(l + 1), NEW j \in 1..(l + 1), i < j
               PROVE  gs[i].at < gs[j].at
    OBVIOUS
  <2>1. i \in 1..l
    OBVIOUS
  <2>2. CASE j \in 1..l
    BY <1>4, <1>7, <2>1, <2>2
  <2>3. CASE j = l + 1
    BY <1>4, <1>5, <1>8, <2>1, <2>3
  <2> QED
    BY <1>4, <2>2, <2>3
<1>11. Ordered(q, fs)
  BY <1>2, <1>7, <1>8 DEF Ordered
<1>12. Ordered(q, gs)
  BY <1>4, <1>9, <1>10 DEF Ordered
<1> QED
  BY <1>1, <1>3, <1>11, <1>12

----------------------------------------------------------------------------
(* The invariant *)

Lasts == [k \in 0..Len(messages) |-> LastOf(k)]

Count == Within(messages, Lasts, Lost, pos, frames, Len(flushed))

(* The parts of the invariant, of the values of the variables.             *)
LEMMA InvariantOf ==
    TypeOK =>
       /\ IsLayout(codec, messages, heard, Lasts)
       /\ BuffInv <=> BuffFits(codec, messages, Lasts, Lost, pos, buff)
       /\ HeardIsDecoded <=> AllDecoded(messages, Lasts, Lost, pos, frames)
       /\ FramesInv <=> Count /\ Ordered(pos, frames)
       /\ Wrong = Wrongs(messages, Lasts, frames)
<1> SUFFICES ASSUME TypeOK
             PROVE  /\ IsLayout(codec, messages, heard, Lasts)
                    /\ BuffInv <=> BuffFits(codec, messages, Lasts, Lost, pos, buff)
                    /\ HeardIsDecoded <=> AllDecoded(messages, Lasts, Lost, pos, frames)
                    /\ FramesInv <=> Count /\ Ordered(pos, frames)
                    /\ Wrong = Wrongs(messages, Lasts, frames)
  OBVIOUS
<1>1. /\ codec \in Codec2 /\ messages \in Seq(Seq(Bit)) /\ frames \in Seq([bits : Seq(Bit), at : Nat])
      /\ heard = HearFirst(codec, messages)[Len(messages)]
  BY DEF TypeOK, Codec2
<1>2. DOMAIN messages = 1..Len(messages) /\ DOMAIN frames = 1..Len(frames)
  BY <1>1
<1>3. \A k \in 0..Len(messages) : Lasts[k] = LastOf(k)
  BY DEF Lasts
<1>4. \A k \in 1..Len(messages) : Lasts[k] = LastOf(k) /\ Lasts[k - 1] = LastOf(k - 1)
  <2>1. \A k \in 1..Len(messages) : k \in 0..Len(messages) /\ k - 1 \in 0..Len(messages)
    OBVIOUS
  <2> QED
    BY <1>3, <2>1
<1>5. IsLayout(codec, messages, heard, Lasts)
  <2>1. Lasts = [k \in 0..Len(messages) |-> Len(HearFirst(codec, messages)[k])]
    BY Zenon DEF Lasts, LastOf
  <2>2. IsLayout(codec, messages, HearFirst(codec, messages)[Len(messages)],
                 [k \in 0..Len(messages) |-> Len(HearFirst(codec, messages)[k])])
    BY <1>1, Positions, Zenon
  <2> QED
    BY <1>1, <2>1, <2>2, Zenon
<1>6. Header = Before(codec)
  BY Zenon DEF Header, Before
<1>7. \A k \in 1..Len(messages) : BitsUpTo(k, pos) = BitsHeard(Lasts[k - 1], Before(codec), pos)
  BY <1>4, <1>6, Zenon DEF BitsUpTo, BitsHeard
<1>8. BuffInv <=> BuffFits(codec, messages, Lasts, Lost, pos, buff)
  <2>1. ASSUME NEW k \in 1..Len(messages)
        PROVE  (Hears(k) /\ Clean(k)) <=> (/\ Lasts[k - 1] <= pos /\ pos < Lasts[k]
                                         /\ \A i \in Lasts[k - 1]..pos : i \notin Lost)
    BY <1>4, Zenon DEF Hears, Clean
  <2>2. (\E k \in DOMAIN messages : pos = LastOf(k)) <=> (\E k \in 1..Len(messages) : pos = Lasts[k])
    BY <1>2, <1>4, Zenon
  <2>3. (\A k \in DOMAIN messages :
            Hears(k) /\ Clean(k) => buff = Clip(SubSeq(messages[k], 1, BitsUpTo(k, pos))))
        <=> \A k \in 1..Len(messages) :
              /\ Lasts[k - 1] <= pos /\ pos < Lasts[k]
              /\ \A i \in Lasts[k - 1]..pos : i \notin Lost
              => buff = Clip(SubSeq(messages[k], 1, BitsHeard(Lasts[k - 1], Before(codec), pos)))
    BY <1>2, <1>7, <2>1, Zenon
  <2> QED
    BY <2>2, <2>3, Zenon DEF BuffInv, BuffFits
<1>9. \A f : \A k \in 1..Len(messages) : Right(f, k) <=> IsRight(f, messages, Lasts, k)
  BY <1>4, Zenon DEF Right, IsRight
<1>10. HeardIsDecoded <=> AllDecoded(messages, Lasts, Lost, pos, frames)
  <2>1. ASSUME NEW k \in 1..Len(messages)
        PROVE  (Clear(k) /\ LastOf(k) <= pos)
                  <=> (/\ messages[k] # << >>
                       /\ \A i \in Lasts[k - 1]..Lasts[k] : i \notin Lost
                       /\ Lasts[k] <= pos)
    BY <1>4, Zenon DEF Clear
  <2>2. ASSUME NEW k \in 1..Len(messages)
        PROVE  (\E i \in DOMAIN frames : Right(frames[i], k))
                  <=> \E i \in 1..Len(frames) : IsRight(frames[i], messages, Lasts, k)
    BY <1>2, <1>9, Zenon
  <2> QED
    BY <1>2, <2>1, <2>2, Zenon DEF HeardIsDecoded, AllDecoded
<1>11. Wrong = Wrongs(messages, Lasts, frames)
  <2>1. \A f : (\E k \in DOMAIN messages : Right(f, k))
                  <=> \E k \in 1..Len(messages) : IsRight(f, messages, Lasts, k)
    BY <1>2, <1>9, Zenon
  <2> QED
    BY <1>2, <2>1 DEF Wrong, Wrongs
<1>12. Dirty <=> IsDirty(messages, Lasts, Lost, pos)
  BY <1>2, <1>4, Zenon DEF Dirty, IsDirty
<1>13. FramesInv <=> Count /\ Ordered(pos, frames)
  BY <1>2, <1>11, <1>12, Zenon DEF FramesInv, Count, Within, Ordered
<1> QED
  BY <1>5, <1>8, <1>10, <1>11, <1>13

LEMMA InvariantNext ==
    TypeOK' =>
       /\ IsLayout(codec, messages, heard, Lasts)'
       /\ BuffInv' <=> BuffFits(codec, messages, Lasts, Lost, pos, buff)'
       /\ HeardIsDecoded' <=> AllDecoded(messages, Lasts, Lost, pos, frames)'
       /\ FramesInv' <=> Count' /\ Ordered(pos, frames)'
<1>1. (TypeOK =>
       /\ IsLayout(codec, messages, heard, Lasts)
       /\ BuffInv <=> BuffFits(codec, messages, Lasts, Lost, pos, buff)
       /\ HeardIsDecoded <=> AllDecoded(messages, Lasts, Lost, pos, frames)
       /\ FramesInv <=> Count /\ Ordered(pos, frames)
       /\ Wrong = Wrongs(messages, Lasts, frames))'
  BY InvariantOf, PTL
<1> QED
  BY <1>1

LEMMA LostSamples ==
    ASSUME NEW p \in Nat, NEW fl \in Seq(SUBSET (1..p))
    PROVE  UNION Range(fl) \subseteq 1..p
<1>1. \A i \in DOMAIN fl : fl[i] \in SUBSET (1..p)
  OBVIOUS
<1> QED
  BY <1>1 DEF Range

LEMMA FlushLoses ==
    ASSUME NEW S, NEW fl \in Seq(S), NEW x \in S
    PROVE  UNION Range(Append(fl, x)) = (UNION Range(fl)) \cup x
<1>1. PICK n \in Nat : n = Len(fl)
  OBVIOUS
<1>2. PICK gl : gl = Append(fl, x)
  OBVIOUS
<1>3. /\ DOMAIN gl = 1..(n + 1) /\ DOMAIN fl = 1..n /\ gl[n + 1] = x
      /\ \A i \in 1..n : i \in 1..(n + 1) /\ gl[i] = fl[i]
      /\ \A i \in 1..(n + 1) : i \in 1..n \/ i = n + 1
      /\ n + 1 \in 1..(n + 1)
  BY <1>1, <1>2
<1>4. Range(gl) = Range(fl) \cup {x}
  BY <1>3 DEF Range
<1> QED
  BY <1>2, <1>4

LEMMA Grows ==
    ASSUME NEW p \in Nat, NEW q \in Nat, p <= q, NEW fl \in Seq(SUBSET (1..p))
    PROVE  fl \in Seq(SUBSET (1..q))
<1>1. SUBSET (1..p) \subseteq SUBSET (1..q)
  <2>1. 1..p \subseteq 1..q
    OBVIOUS
  <2> QED
    BY <2>1
<1>2. PICK A, B : A = SUBSET (1..p) /\ B = SUBSET (1..q)
  OBVIOUS
<1>3. fl \in Seq(A) /\ A \subseteq B
  BY <1>1, <1>2
<1>4. fl \in Seq(B)
  BY <1>3
<1> QED
  BY <1>2, <1>4

(* Where nothing was heard yet there is nothing to decode.                 *)
LEMMA CodecInit == Init => IInv
<1> SUFFICES ASSUME Init PROVE IInv
  OBVIOUS
<1>1. /\ codec \in Codec2 /\ messages \in Seq(Seq(Bit))
      /\ heard = HearFirst(codec, messages)[Len(messages)]
      /\ pos = 0 /\ end = 0 /\ buff = << >> /\ frames = << >> /\ flushed = << >>
  BY CodecAssumption DEF Init, Codec2
<1>2. TypeOK
  <2>1. heard \in Seq(Sample)
    <3>1. Len(messages) \in 0..Len(messages)
      BY <1>1
    <3>2. HearFirst(codec, messages) \in [0..Len(messages) -> Seq(Sample)]
      BY <1>1, HearFirstSteps
    <3> QED
      BY <1>1, <3>1, <3>2
  <2>2. Len(heard) \in Nat
    BY <2>1
  <2>3. /\ pos \in Nat /\ end \in Nat /\ pos <= end /\ end <= Len(heard)
    BY <1>1, <2>2
  <2>4. /\ buff \in Seq(Bit) /\ frames \in Seq([bits : Seq(Bit), at : Nat])
        /\ flushed \in Seq(SUBSET (1..pos))
    BY <1>1, EmptySeq, Zenon
  <2> QED
    BY <1>1, <2>3, <2>4 DEF TypeOK, Codec2
<1>3. Lost = {}
  <2>1. DOMAIN << >> = {}
    OBVIOUS
  <2> QED
    BY <1>1, <2>1 DEF Lost, Range
<1>4. IsLayout(codec, messages, heard, Lasts)
  BY <1>2, InvariantOf
<1>5. PICK L : L = Lasts
  OBVIOUS
<1>6. /\ IsLayout(codec, messages, heard, L)
      /\ L \in [0..Len(messages) -> Nat]
  BY <1>4, <1>5 DEF IsLayout
<1>7. BuffFits(codec, messages, L, {}, 0, << >>)
  <2>1. ASSUME NEW k \in 1..Len(messages), L[k - 1] <= 0
        PROVE  << >> = Clip(SubSeq(messages[k], 1, BitsHeard(L[k - 1], Before(codec), 0)))
    <3>1. messages[k] \in Seq(Bit) /\ k - 1 \in 0..Len(messages)
      BY <1>1
    <3>2. L[k - 1] = 0
      BY <1>6, <2>1, <3>1
    <3>3. BitsHeard(0, Before(codec), 0) = 0
      <4>1. Before(codec) = 0 \/ Before(codec) = 2
        BY DEF Before
      <4>2. (0 - 0 - 0) \div 2 = 0
        OBVIOUS
      <4> QED
        BY <4>1, <4>2 DEF BitsHeard
    <3>4. Clip(SubSeq(messages[k], 1, 0)) = << >>
      BY <3>1, ClipOfAll
    <3> QED
      BY <3>2, <3>3, <3>4
  <2> QED
    BY <2>1, Zenon DEF BuffFits
<1>8. AllDecoded(messages, L, {}, 0, << >>)
  <2>1. ASSUME NEW k \in 1..Len(messages), messages[k] # << >> PROVE ~(L[k] <= 0)
    <3>1. k \in 0..Len(messages) /\ k - 1 \in 0..Len(messages)
      OBVIOUS
    <3>2. L[k - 1] \in Nat /\ L[k] \in Nat
      BY <1>6, <3>1
    <3>3. L[k] = L[k - 1] + Before(codec) + 2 * Len(messages[k]) + 2
      BY <1>1, <1>6, <2>1, Zenon DEF IsLayout
    <3>4. Before(codec) \in Nat /\ Len(messages[k]) \in Nat
      BY <1>1 DEF Before
    <3> QED
      BY <3>2, <3>3, <3>4
  <2> QED
    BY <2>1, Zenon DEF AllDecoded
<1>9. Within(messages, L, {}, 0, << >>, 0)
  <2>1. Wrongs(messages, L, << >>) = {}
    BY DEF Wrongs
  <2>2. ~IsDirty(messages, L, {}, 0)
    BY DEF IsDirty
  <2>3. Cardinality({}) = 0
    BY FS_EmptySet
  <2>4. (IF IsDirty(messages, L, {}, 0) THEN 1 ELSE 0) = 0
    BY <2>2, Zenon
  <2>5. 0 + 0 <= 0
    OBVIOUS
  <2> QED
    BY <2>1, <2>3, <2>4, <2>5, Zenon DEF Within
<1>10. Ordered(0, << >>)
  BY DEF Ordered
<1>11. Count
  <2>1. Len(flushed) = 0
    BY <1>1
  <2> QED
    BY <1>1, <1>3, <1>5, <1>9, <2>1 DEF Count
<1>12. /\ BuffFits(codec, messages, Lasts, Lost, pos, buff)
       /\ AllDecoded(messages, Lasts, Lost, pos, frames)
       /\ Ordered(pos, frames)
  BY <1>1, <1>3, <1>5, <1>7, <1>8, <1>10
<1> QED
  BY <1>2, <1>11, <1>12, InvariantOf DEF IInv

LEMMA SameLasts ==
    ASSUME UNCHANGED <<codec, messages, flushed>>
    PROVE  Lasts' = Lasts /\ Lost' = Lost
BY DEF Lasts, LastOf, Lost

LEMMA DecodeKeepsInv ==
    ASSUME IInv, Decode
    PROVE  IInv'
<1>1. PICK d : d = decode(codec, buff, SubSeq(heard, pos + 1, end))
  OBVIOUS
<1>2. /\ pos < end
      /\ pos' = pos + d.used
      /\ buff' = IF d.ret = 1 THEN decode_reset(codec) ELSE d.buf
      /\ frames' = IF d.ret = 1 THEN Append(frames, [bits |-> d.buf, at |-> pos']) ELSE frames
      /\ UNCHANGED <<codec, messages, heard, end, flushed>>
  BY <1>1, Zenon DEF Decode
<1>3. TypeOK /\ BuffInv /\ HeardIsDecoded /\ FramesInv
  BY DEF IInv
<1>4. /\ IsLayout(codec, messages, heard, Lasts)
      /\ BuffFits(codec, messages, Lasts, Lost, pos, buff)
      /\ AllDecoded(messages, Lasts, Lost, pos, frames)
      /\ Count /\ Ordered(pos, frames)
  BY <1>3, InvariantOf
<1>5. /\ codec \in Codec2 /\ messages \in Seq(Seq(Bit))
      /\ pos \in Nat /\ end \in Nat /\ end <= Len(heard)
      /\ buff \in Seq(Bit) /\ frames \in Seq([bits : Seq(Bit), at : Nat])
      /\ flushed \in Seq(SUBSET (1..pos))
      /\ codec = "nec" => flushed = << >>
  BY <1>3 DEF TypeOK, Codec2
<1>6. Call(codec, messages, heard, Lasts, buff, pos, end, d)
  BY <1>1, <1>2, <1>4, <1>5 DEF Call
<1>7. /\ d.used \in Nat /\ d.used > 0 /\ pos + d.used <= end
      /\ d.buf \in Seq(Bit) /\ d.ret \in {0, 1}
  BY <1>6, CallOutcome
<1>8. buff' = IF d.ret = 1 THEN << >> ELSE d.buf
  BY <1>2, Zenon DEF decode_reset, nec_decode_reset, unkn0_decode_reset
<1>9. frames' = IF d.ret = 1 THEN Append(frames, [bits |-> d.buf, at |-> pos + d.used]) ELSE frames
  BY <1>2
<1>10. Lost \subseteq 1..pos /\ (codec = "nec" => Lost = {})
  <2>1. Lost \subseteq 1..pos
    BY <1>5, LostSamples DEF Lost
  <2>2. ASSUME flushed = << >> PROVE Lost = {}
    <3>1. DOMAIN << >> = {}
      OBVIOUS
    <3> QED
      BY <2>2, <3>1 DEF Lost, Range
  <2> QED
    BY <1>5, <2>1, <2>2
<1>11. Lasts' = Lasts /\ Lost' = Lost
  BY <1>2, SameLasts
<1>12. /\ pos' \in Nat /\ pos < pos' /\ pos' <= end
  BY <1>2, <1>5, <1>7
<1>13. TypeOK'
  <2>1. buff' \in Seq(Bit)
    BY <1>7, <1>8, EmptySeq
  <2>2. PICK f \in [bits : Seq(Bit), at : Nat] : f = [bits |-> d.buf, at |-> pos']
    BY <1>7, <1>12
  <2>3. frames' \in Seq([bits : Seq(Bit), at : Nat])
    <3>1. \A R : frames \in Seq(R) /\ f \in R => Append(frames, f) \in Seq(R)
      OBVIOUS
    <3>2. Append(frames, f) \in Seq([bits : Seq(Bit), at : Nat])
      BY <1>5, <3>1, Zenon
    <3> QED
      BY <1>2, <1>5, <2>2, <3>2, Zenon
  <2>4. flushed' \in Seq(SUBSET (1..pos'))
    <3>1. pos <= pos'
      BY <1>5, <1>12
    <3>2. flushed \in Seq(SUBSET (1..pos'))
      BY <1>5, <1>12, <3>1, Grows
    <3> QED
      BY <1>2, <3>2
  <2>5. heard' = HearFirst(codec', messages')[Len(messages')]
    BY <1>2, <1>3 DEF TypeOK
  <2> QED
    BY <1>2, <1>3, <1>5, <1>12, <2>1, <2>3, <2>4, <2>5 DEF TypeOK, Codec2
<1>14. BuffFits(codec, messages, Lasts, Lost, pos', buff')
  BY <1>2, <1>4, <1>6, <1>8, CallKeepsBuff
<1>15. AllDecoded(messages, Lasts, Lost, pos', frames')
  <2>1. AllDecoded(messages, Lasts, Lost, pos + d.used, frames')
    BY <1>4, <1>5, <1>6, <1>9, CallKeepsDecoded
  <2> QED
    BY <1>2, <2>1
<1>16. Ordered(pos', frames')
  <2>1. Ordered(pos', frames) /\ Ordered(pos', Append(frames, [bits |-> d.buf, at |-> pos']))
    BY <1>4, <1>5, <1>7, <1>12, CallKeepsOrder
  <2> QED
    BY <1>2, <2>1, Zenon
<1>17. Count'
  <2>1. PICK n \in Nat : n = Len(flushed)
    BY <1>5
  <2>2. Within(messages, Lasts, Lost, pos, frames, n)
    BY <1>4, <2>1 DEF Count
  <2>3. Within(messages, Lasts, Lost, pos + d.used, frames', n)
    <3>1. BuffFits(codec, messages, Lasts, Lost, pos, buff)
      BY <1>4
    <3>2. frames \in Seq([bits : Seq(Bit), at : Nat])
      BY <1>5
    <3> QED
      BY <1>6, <1>9, <1>10, <2>2, <3>1, <3>2, CallKeepsCount
  <2> QED
    BY <1>2, <1>11, <2>1, <2>3 DEF Count
<1>18. /\ BuffFits(codec, messages, Lasts, Lost, pos, buff)'
       /\ AllDecoded(messages, Lasts, Lost, pos, frames)'
       /\ Ordered(pos, frames)'
  BY <1>2, <1>11, <1>14, <1>15, <1>16
<1> QED
  BY <1>13, <1>17, <1>18, InvariantNext DEF IInv

(* A flush takes the samples up to q: no message comes through that was    *)
(* being heard, and one more frame may be wrong.                           *)
LEMMA FlushOutcome ==
    ASSUME NEW c, NEW ms, NEW hd, NEW L, IsLayout(c, ms, hd, L), NEW lost, NEW b,
           NEW p \in Nat, NEW q \in Nat, p < q, NEW n \in Nat,
           NEW fs \in Seq([bits : Seq(Bit), at : Nat]),
           AllDecoded(ms, L, lost, p, fs), Within(ms, L, lost, p, fs, n)
    PROVE  LET more == lost \cup (p + 1)..q
           IN  /\ BuffFits(c, ms, L, more, q, b)
               /\ AllDecoded(ms, L, more, q, fs)
               /\ Within(ms, L, more, q, fs, n + 1)
<1>1. PICK more : more = lost \cup (p + 1)..q
  OBVIOUS
<1>2. L \in [0..Len(ms) -> Nat] /\ \A i, j \in 0..Len(ms) : i <= j => L[i] <= L[j]
  BY DEF IsLayout
<1>3. ASSUME NEW k \in 1..Len(ms)
      PROVE  L[k - 1] \in Nat /\ L[k] \in Nat /\ L[k - 1] <= L[k]
  <2>1. k - 1 \in 0..Len(ms) /\ k \in 0..Len(ms) /\ k - 1 <= k
    OBVIOUS
  <2> QED
    BY <1>2, <2>1
<1>4. q \in more
  BY <1>1
<1>5. BuffFits(c, ms, L, more, q, b)
  <2>1. ASSUME NEW k \in 1..Len(ms), L[k - 1] <= q, \A i \in L[k - 1]..q : i \notin more
        PROVE  FALSE
    <3>1. q \in L[k - 1]..q
      BY <1>3, <2>1
    <3> QED
      BY <1>4, <2>1, <3>1
  <2> QED
    BY <1>4, <2>1, Zenon DEF BuffFits
<1>6. AllDecoded(ms, L, more, q, fs)
  <2>1. ASSUME NEW k \in 1..Len(ms), \A i \in L[k - 1]..L[k] : i \notin more, L[k] <= q
        PROVE  L[k] <= p /\ \A i \in L[k - 1]..L[k] : i \notin lost
    <3>1. L[k] \in L[k - 1]..L[k]
      BY <1>3
    <3>2. L[k] \notin (p + 1)..q
      BY <1>1, <2>1, <3>1
    <3>3. L[k] <= p
      BY <1>3, <2>1, <3>2
    <3> QED
      BY <1>1, <2>1, <3>3
  <2> QED
    BY <2>1, Zenon DEF AllDecoded
<1>7. Within(ms, L, more, q, fs, n + 1)
  <2>1. PICK v \in Nat : v = Cardinality(Wrongs(ms, L, fs))
    BY WrongsFinite
  <2>2. PICK x \in {0, 1} : x = IF IsDirty(ms, L, lost, p) THEN 1 ELSE 0
    OBVIOUS
  <2>3. PICK y \in {0, 1} : y = IF IsDirty(ms, L, more, q) THEN 1 ELSE 0
    OBVIOUS
  <2>4. v + x <= n
    BY <2>1, <2>2 DEF Within
  <2>5. v + y <= n + 1
    BY <2>4
  <2> QED
    BY <2>1, <2>3, <2>5 DEF Within
<1> QED
  BY <1>1, <1>5, <1>6, <1>7

LEMMA FlushKeepsInv ==
    ASSUME IInv, Flush
    PROVE  IInv'
<1>1. /\ codec = "unkn0" /\ pos = end
      /\ end' \in (end + 1)..Len(heard) /\ pos' = end'
      /\ flushed' = Append(flushed, (end + 1)..end')
      /\ UNCHANGED <<codec, messages, heard, buff, frames>>
  BY DEF Flush
<1>2. TypeOK /\ BuffInv /\ HeardIsDecoded /\ FramesInv
  BY DEF IInv
<1>3. /\ IsLayout(codec, messages, heard, Lasts)
      /\ AllDecoded(messages, Lasts, Lost, pos, frames)
      /\ Count /\ Ordered(pos, frames)
  BY <1>2, InvariantOf
<1>4. /\ codec \in Codec2 /\ messages \in Seq(Seq(Bit))
      /\ pos \in Nat /\ end \in Nat /\ end <= Len(heard)
      /\ buff \in Seq(Bit) /\ frames \in Seq([bits : Seq(Bit), at : Nat])
      /\ flushed \in Seq(SUBSET (1..pos))
  BY <1>2 DEF TypeOK, Codec2
<1>5. Len(heard) \in Nat
  <2>1. heard \in Seq(Sample)
    BY <1>3 DEF IsLayout
  <2> QED
    BY <2>1
<1>6. pos' \in Nat /\ pos < pos' /\ pos' <= Len(heard) /\ end' = pos'
  BY <1>1, <1>4, <1>5
<1>7. PICK x : x = (pos + 1)..pos'
  OBVIOUS
<1>8. flushed' = Append(flushed, x) /\ x \in SUBSET (1..pos')
  <2>1. (pos + 1)..pos' \subseteq 1..pos'
    BY <1>4, <1>6
  <2> QED
    BY <1>1, <1>7, <2>1
<1>9. flushed \in Seq(SUBSET (1..pos'))
  <2>1. pos <= pos'
    BY <1>4, <1>6
  <2> QED
    BY <1>4, <1>6, <2>1, Grows
<1>10. flushed' \in Seq(SUBSET (1..pos'))
  BY <1>8, <1>9
<1>11. Lost' = Lost \cup x
  <2>1. UNION Range(Append(flushed, x)) = (UNION Range(flushed)) \cup x
    <3>1. PICK S : flushed \in Seq(S) /\ x \in S
      BY <1>8, <1>9
    <3> QED
      BY <3>1, FlushLoses
  <2> QED
    BY <1>8, <2>1 DEF Lost
<1>12. Lasts' = Lasts
  BY <1>1 DEF Lasts, LastOf
<1>13. TypeOK'
  <2>1. heard' = HearFirst(codec', messages')[Len(messages')]
    BY <1>1, <1>2 DEF TypeOK
  <2>2. codec' # "nec" /\ pos' <= end' /\ end' <= Len(heard')
    BY <1>1, <1>6
  <2> QED
    BY <1>1, <1>2, <1>4, <1>6, <1>10, <2>1, <2>2 DEF TypeOK, Codec2
<1>14. PICK n \in Nat : n = Len(flushed)
  BY <1>4
<1>15. Within(messages, Lasts, Lost, pos, frames, n)
  BY <1>3, <1>14 DEF Count
<1>16. /\ BuffFits(codec, messages, Lasts, Lost \cup x, pos', buff)
       /\ AllDecoded(messages, Lasts, Lost \cup x, pos', frames)
       /\ Within(messages, Lasts, Lost \cup x, pos', frames, n + 1)
  BY <1>3, <1>4, <1>6, <1>7, <1>15, FlushOutcome
<1>17. Ordered(pos', frames)
  <2>1. << >> \in Seq(Bit)
    BY EmptySeq
  <2> QED
    BY <1>3, <1>4, <1>6, <2>1, CallKeepsOrder
<1>18. Len(flushed') = n + 1
  BY <1>8, <1>9, <1>14
<1>19. /\ BuffFits(codec, messages, Lasts, Lost, pos, buff)'
       /\ AllDecoded(messages, Lasts, Lost, pos, frames)'
       /\ Ordered(pos, frames)'
  BY <1>1, <1>11, <1>12, <1>16, <1>17
<1>20. Count'
  BY <1>1, <1>11, <1>12, <1>16, <1>18 DEF Count
<1> QED
  BY <1>13, <1>19, <1>20, InvariantNext DEF IInv

LEMMA ReceiveKeepsInv ==
    ASSUME IInv, Receive
    PROVE  IInv'
<1>1. /\ pos = end /\ end' \in (end + 1)..Len(heard)
      /\ UNCHANGED <<codec, messages, heard, pos, buff, frames, flushed>>
  BY DEF Receive
<1>2. TypeOK /\ BuffInv /\ HeardIsDecoded /\ FramesInv
  BY DEF IInv
<1>3. /\ IsLayout(codec, messages, heard, Lasts)
      /\ BuffFits(codec, messages, Lasts, Lost, pos, buff)
      /\ AllDecoded(messages, Lasts, Lost, pos, frames)
      /\ Count /\ Ordered(pos, frames)
  BY <1>2, InvariantOf
<1>4. pos \in Nat /\ end \in Nat /\ Len(heard) \in Nat
  <2>1. heard \in Seq(Sample)
    BY <1>3 DEF IsLayout
  <2> QED
    BY <1>2, <2>1 DEF TypeOK
<1>5. TypeOK'
  <2>1. end' \in Nat /\ pos' <= end' /\ end' <= Len(heard')
    BY <1>1, <1>4
  <2>2. heard' = HearFirst(codec', messages')[Len(messages')]
    BY <1>1, <1>2 DEF TypeOK
  <2> QED
    BY <1>1, <1>2, <2>1, <2>2 DEF TypeOK
<1>6. Lasts' = Lasts /\ Lost' = Lost
  BY <1>1, SameLasts
<1>7. /\ BuffFits(codec, messages, Lasts, Lost, pos, buff)'
      /\ AllDecoded(messages, Lasts, Lost, pos, frames)'
      /\ Ordered(pos, frames)'
      /\ Count'
  BY <1>1, <1>3, <1>6 DEF Count
<1> QED
  BY <1>5, <1>7, InvariantNext DEF IInv

LEMMA CodecStep == IInv /\ [Next]_vars => IInv'
<1>1. ASSUME IInv, UNCHANGED vars PROVE IInv'
  BY <1>1 DEF vars, IInv, TypeOK, BuffInv, FramesInv, HeardIsDecoded, Hears, Clean, BitsUpTo, Header,
              LastOf, Lost, Dirty, Wrong, Right, Clear
<1> QED
  BY <1>1, ReceiveKeepsInv, DecodeKeepsInv, FlushKeepsInv DEF Next

(* The inductive invariant, of Receive, Decode and Flush.                  *)
THEOREM CodecInvariant == Spec => []IInv
BY CodecInit, CodecStep, PTL DEF Spec

(* decode() undoes encode(): whatever the codec and the strings, however   *)
(* many trains follow each other and wherever read() cuts them, a message  *)
(* that no flush has touched is returned at its end, as it was sent, up to *)
(* the size of DECODE_BUFF.                                                *)
THEOREM HeardComesThrough == Spec => []HeardIsDecoded
<1>1. IInv => HeardIsDecoded
  BY DEF IInv
<1> QED
  BY <1>1, CodecInvariant, PTL

(* The flush of irbrgd, of which the decoder is not told, costs one wrong  *)
(* frame at most, frames come in the order of their ends, and nothing is   *)
(* left in the buffer behind a pause that was heard.                       *)
THEOREM FlushSpoilsOne == Spec => []OneWrongPerFlush
<1>1. ASSUME IInv PROVE OneWrongPerFlush
  <2>1. TypeOK /\ BuffInv /\ FramesInv
    BY <1>1 DEF IInv
  <2>2. PICK v \in Nat : v = Cardinality(Wrong)
    <3>1. Wrong = Wrongs(messages, Lasts, frames)
      BY <2>1, InvariantOf
    <3>2. frames \in Seq([bits : Seq(Bit), at : Nat])
      BY <2>1 DEF TypeOK
    <3> QED
      BY <3>1, <3>2, WrongsFinite
  <2>3. Cardinality(Wrong) <= Len(flushed)
    <3>1. PICK n \in Nat : n = Len(flushed)
      BY <2>1 DEF TypeOK
    <3>2. PICK x \in {0, 1} : x = IF Dirty THEN 1 ELSE 0
      OBVIOUS
    <3>3. v + x <= n
      BY <2>1, <2>2, <3>1, <3>2 DEF FramesInv
    <3>4. v <= n
      BY <3>3
    <3> QED
      BY <2>2, <3>1, <3>4
  <2>4. ASSUME pos = Len(heard), pos \notin Lost PROVE buff = << >>
    <3>1. messages \in Seq(Seq(Bit)) /\ heard = HearFirst(codec, messages)[Len(messages)]
      BY <2>1 DEF TypeOK
    <3>2. pos = LastOf(Len(messages))
      BY <2>4, <3>1, Zenon DEF LastOf
    <3>3. CASE messages = << >>
      <4>1. Lasts[0] = 0 /\ Lasts[0] = LastOf(0)
        <5>1. 0 \in 0..Len(messages)
          BY <3>1
        <5>2. IsLayout(codec, messages, heard, Lasts)
          BY <2>1, InvariantOf
        <5> QED
          BY <5>1, <5>2 DEF IsLayout, Lasts
      <4>2. pos = 0
        BY <3>2, <3>3, <4>1
      <4> QED
        BY <2>1, <2>4, <4>2 DEF BuffInv
    <3>4. CASE messages # << >>
      <4>1. Len(messages) \in DOMAIN messages
        BY <3>1, <3>4
      <4> QED
        BY <2>1, <2>4, <3>2, <4>1 DEF BuffInv
    <3> QED
      BY <3>3, <3>4
  <2>5. \A i, j \in DOMAIN frames : i < j => frames[i].at < frames[j].at
    BY <2>1 DEF FramesInv
  <2> QED
    BY <2>3, <2>4, <2>5, Zenon DEF OneWrongPerFlush, Wrong
<1> QED
  BY <1>1, CodecInvariant, PTL

----------------------------------------------------------------------------
(* Words and bytes *)

Words == {w \in Nat : w < 256 * 256 * 256 * 256}

(* The four bytes of word p, and the word that the processor sees in them. *)
HasWord(bytes, p, w) == \A t \in 1..4 : bytes[4 * p + t] = ByteOf(w \div ByteWeights[t])
Raw(bytes, p) ==
    LET b(t) == (bytes[4 * p + t] % 256) * ByteWeights[t] IN b(1) + b(2) + b(3) + b(4)

LEMMA ByteParts ==
    ASSUME NEW x \in Nat
    PROVE  ByteOf(x) \in Int /\ ByteOf(x) % 256 = x % 256 /\ Unsigned(ByteOf(x)) = x % 256
BY SMT DEF ByteOf, Unsigned

LEMMA WeightsAre ==
    /\ ByteWeights[1] = 1 /\ ByteWeights[2] = 256
    /\ ByteWeights[3] = 256 * 256 /\ ByteWeights[4] = 256 * 256 * 256
BY SMT DEF ByteWeights

LEMMA FourBytes ==
    ASSUME NEW w \in Words
    PROVE  /\ \A t \in 1..4 : w \div ByteWeights[t] \in Nat
           /\ ((w \div ByteWeights[1]) % 256) * ByteWeights[1]
              + ((w \div ByteWeights[2]) % 256) * ByteWeights[2]
              + ((w \div ByteWeights[3]) % 256) * ByteWeights[3]
              + ((w \div ByteWeights[4]) % 256) * ByteWeights[4] = w
<1>1. w \in Nat /\ w < 256 * 256 * 256 * 256
  BY SMT DEF Words
<1>2. \A t \in 1..4 : t = 1 \/ t = 2 \/ t = 3 \/ t = 4
  OBVIOUS
<1>3. \A t \in 1..4 : w \div ByteWeights[t] \in Nat
  BY <1>1, <1>2, WeightsAre, SMT
<1>4. (w % 256) * 1 + ((w \div 256) % 256) * 256 + ((w \div (256 * 256)) % 256) * (256 * 256)
      + ((w \div (256 * 256 * 256)) % 256) * (256 * 256 * 256) = w
  BY <1>1, SMT
<1>5. w \div 1 = w
  BY <1>1, SMT
<1>6. ((w \div ByteWeights[1]) % 256) * ByteWeights[1] = (w % 256) * 1
  BY <1>5, WeightsAre, Zenon
<1>7. ((w \div ByteWeights[2]) % 256) * ByteWeights[2] = ((w \div 256) % 256) * 256
  BY WeightsAre, Zenon
<1>8. ((w \div ByteWeights[3]) % 256) * ByteWeights[3] = ((w \div (256 * 256)) % 256) * (256 * 256)
  BY WeightsAre, Zenon
<1>9. ((w \div ByteWeights[4]) % 256) * ByteWeights[4]
      = ((w \div (256 * 256 * 256)) % 256) * (256 * 256 * 256)
  BY WeightsAre, Zenon
<1> QED
  BY <1>3, <1>4, <1>6, <1>7, <1>8, <1>9, ZenonT(60)

(* Java and the processor find the word again in its bytes.                *)
LEMMA WordBack ==
    ASSUME NEW bytes, NEW p \in Nat, NEW w \in Words, HasWord(bytes, p, w)
    PROVE  FourBytesToInt(bytes, p) = w /\ Raw(bytes, p) = w
<1> DEFINE q(t) == w \div ByteWeights[t]
           b(t) == bytes[4 * p + t]
<1>1. \A t \in 1..4 : q(t) \in Nat
  BY FourBytes
<1>2. (q(1) % 256) * ByteWeights[1] + (q(2) % 256) * ByteWeights[2]
      + (q(3) % 256) * ByteWeights[3] + (q(4) % 256) * ByteWeights[4] = w
  BY FourBytes, Zenon
<1>3. \A t \in 1..4 : b(t) = ByteOf(q(t))
  BY Zenon DEF HasWord
<1> HIDE DEF q, b
<1>4. \A t \in 1..4 : b(t) % 256 = q(t) % 256 /\ Unsigned(b(t)) = q(t) % 256
  BY <1>1, <1>3, ByteParts
<1>5. 1 \in 1..4 /\ 2 \in 1..4 /\ 3 \in 1..4 /\ 4 \in 1..4
  OBVIOUS
<1>6. FourBytesToInt(bytes, p) = Unsigned(b(1)) * ByteWeights[1] + Unsigned(b(2)) * ByteWeights[2]
                                 + Unsigned(b(3)) * ByteWeights[3] + Unsigned(b(4)) * ByteWeights[4]
  BY Zenon DEF FourBytesToInt, b
<1>7. Raw(bytes, p) = (b(1) % 256) * ByteWeights[1] + (b(2) % 256) * ByteWeights[2]
                      + (b(3) % 256) * ByteWeights[3] + (b(4) % 256) * ByteWeights[4]
  BY Zenon DEF Raw, b
<1>8. /\ Unsigned(b(1)) = q(1) % 256 /\ Unsigned(b(2)) = q(2) % 256
      /\ Unsigned(b(3)) = q(3) % 256 /\ Unsigned(b(4)) = q(4) % 256
      /\ b(1) % 256 = q(1) % 256 /\ b(2) % 256 = q(2) % 256
      /\ b(3) % 256 = q(3) % 256 /\ b(4) % 256 = q(4) % 256
  <2>1. b(1) % 256 = q(1) % 256 /\ Unsigned(b(1)) = q(1) % 256
    BY <1>4, <1>5, Zenon
  <2>2. b(2) % 256 = q(2) % 256 /\ Unsigned(b(2)) = q(2) % 256
    BY <1>4, <1>5, Zenon
  <2>3. b(3) % 256 = q(3) % 256 /\ Unsigned(b(3)) = q(3) % 256
    BY <1>4, <1>5, Zenon
  <2>4. b(4) % 256 = q(4) % 256 /\ Unsigned(b(4)) = q(4) % 256
    BY <1>4, <1>5, Zenon
  <2> QED
    BY <2>1, <2>2, <2>3, <2>4, ZenonT(60)
<1>9. FourBytesToInt(bytes, p) = w
  BY <1>2, <1>6, <1>8, Zenon
<1>10. Raw(bytes, p) = w
  BY <1>2, <1>7, <1>8, ZenonT(60)
<1> QED
  BY <1>9, <1>10

(* A sample is what its word stands for: no length reaches PULSE_BIT.      *)
LEMMA SampleBack ==
    ASSUME NEW s \in Sample
    PROVE  Word(s) \in Words /\ SampleOf(Word(s)) = s
<1>1. s.mode \in {"pulse", "space"} /\ s.len \in Length
      /\ s = [mode |-> s.mode, len |-> s.len]
  BY DEF Sample
<1>2. s.len \in Nat /\ s.len < 256 * 256 * 256
  <2>1. \A l \in Length : l \in Nat /\ l < 256 * 256 * 256
    BY LengthIs
  <2> QED
    BY <1>1, <2>1, Zenon
<1>3. CASE s.mode = "pulse"
  <2>1. Word(s) = 256 * 256 * 256 + s.len
    BY <1>3, Zenon DEF Word, PULSE_BIT
  <2>2. /\ 256 * 256 * 256 + s.len \in Words
        /\ ((256 * 256 * 256 + s.len) \div (256 * 256 * 256)) % 2 = 1
        /\ (256 * 256 * 256 + s.len) % (256 * 256 * 256) = s.len
    BY <1>2, SMT DEF Words
  <2> QED
    BY <1>1, <1>3, <2>1, <2>2, ZenonT(60) DEF SampleOf, PULSE_BIT
<1>4. CASE s.mode = "space"
  <2>1. s.mode # "pulse"
    BY <1>4
  <2>2. Word(s) = 0 + s.len
    BY <2>1, Zenon DEF Word
  <2>3. /\ 0 + s.len \in Words
        /\ ((0 + s.len) \div (256 * 256 * 256)) % 2 # 1
        /\ (0 + s.len) % (256 * 256 * 256) = s.len
    BY <1>2, SMT DEF Words
  <2> QED
    BY <1>1, <1>4, <2>2, <2>3, ZenonT(60) DEF SampleOf, PULSE_BIT
<1> QED
  BY <1>1, <1>3, <1>4

(* Java reads the words that C has written.                                *)
LEMMA IntsOfBytes ==
    ASSUME NEW words \in Seq(Words)
    PROVE  Ints(Bytes(words)) = words
<1>1. PICK n \in Nat : n = Len(words)
  OBVIOUS
<1> DEFINE bs == Bytes(words)
<1>2. bs = [i \in 1..(4 * n) |-> ByteOf(words[((i - 1) \div 4) + 1] \div ByteWeights[((i - 1) % 4) + 1])]
  BY <1>1, Zenon DEF Bytes
<1> HIDE DEF bs
<1>3. Len(bs) \div 4 = n
  <2>1. Len(bs) = 4 * n
    BY <1>2
  <2> QED
    BY <2>1
<1>4. ASSUME NEW i \in 1..n PROVE FourBytesToInt(bs, i - 1) = words[i]
  <2>1. ASSUME NEW t \in 1..4 PROVE bs[4 * (i - 1) + t] = ByteOf(words[i] \div ByteWeights[t])
    <3>1. PICK j \in 1..(4 * n) : j = 4 * (i - 1) + t
      OBVIOUS
    <3>2. ((j - 1) \div 4) + 1 = i /\ ((j - 1) % 4) + 1 = t
      BY <3>1
    <3>3. bs[j] = ByteOf(words[((j - 1) \div 4) + 1] \div ByteWeights[((j - 1) % 4) + 1])
      BY <1>2, Zenon
    <3> QED
      BY <3>1, <3>2, <3>3, Zenon
  <2>2. HasWord(bs, i - 1, words[i])
    BY <2>1, Zenon DEF HasWord
  <2>3. words[i] \in Words /\ i - 1 \in Nat
    BY <1>1
  <2> QED
    BY <2>2, <2>3, WordBack
<1>5. Ints(bs) = [i \in 1..n |-> FourBytesToInt(bs, i - 1)]
  BY <1>3, Zenon DEF Ints
<1>6. Ints(bs) = [i \in 1..n |-> words[i]]
  BY <1>4, <1>5, Zenon
<1>7. words = [i \in 1..n |-> words[i]]
  BY <1>1
<1> QED
  BY <1>6, <1>7, Zenon DEF bs

----------------------------------------------------------------------------
(* The IRBuffer *)

Buffers(n) == [buffer : [1..(4 * n) -> Int], len : Nat]

(* put() writes one word and no other byte.                                *)
LEMMA PutWord ==
    ASSUME NEW n \in Nat, NEW b \in Buffers(n), NEW k \in 1..n, NEW v \in Words
    PROVE  /\ put(b, k - 1, v) \in Buffers(n)
           /\ put(b, k - 1, v).len = b.len + 4
           /\ HasWord(put(b, k - 1, v).buffer, k - 1, v)
           /\ \A j \in 1..n : j # k => \A t \in 1..4 :
                 put(b, k - 1, v).buffer[4 * (j - 1) + t] = b.buffer[4 * (j - 1) + t]
<1>1. PICK f \in [1..(4 * n) -> Int] : f = b.buffer
  BY DEF Buffers
<1>2. b.len \in Nat
  BY DEF Buffers
<1>3. PICK p \in Nat : p = k - 1 /\ p < n
  OBVIOUS
<1>4. \A t \in 1..4 : v \div ByteWeights[t] \in Nat
  BY FourBytes
<1>5. v \div ByteWeights[1] = v
  <2>1. v \in Nat
    BY SMT DEF Words
  <2>2. v \div 1 = v
    BY <2>1
  <2> QED
    BY <2>2, WeightsAre, Zenon
<1>6. PICK y1 \in Int, y2 \in Int, y3 \in Int, y4 \in Int :
         /\ y1 = ByteOf(v \div ByteWeights[1]) /\ y2 = ByteOf(v \div ByteWeights[2])
         /\ y3 = ByteOf(v \div ByteWeights[3]) /\ y4 = ByteOf(v \div ByteWeights[4])
  <2>1. \A t \in 1..4 : ByteOf(v \div ByteWeights[t]) \in Int
    BY <1>4, ByteParts
  <2>2. 1 \in 1..4 /\ 2 \in 1..4 /\ 3 \in 1..4 /\ 4 \in 1..4
    OBVIOUS
  <2> QED
    BY <2>1, <2>2, Zenon
<1> DEFINE g == [f EXCEPT ![4 * p + 1] = y1, ![4 * p + 2] = y2, ![4 * p + 3] = y3, ![4 * p + 4] = y4]
<1>7. put(b, k - 1, v) = [buffer |-> g, len |-> b.len + 4]
  BY <1>1, <1>3, <1>5, <1>6, Zenon DEF put
<1>8. /\ g \in [1..(4 * n) -> Int]
      /\ g[4 * p + 1] = y1 /\ g[4 * p + 2] = y2 /\ g[4 * p + 3] = y3 /\ g[4 * p + 4] = y4
      /\ \A x \in 1..(4 * n) : x # 4 * p + 1 /\ x # 4 * p + 2 /\ x # 4 * p + 3 /\ x # 4 * p + 4 => g[x] = f[x]
  <2>1. PICK i1 \in 1..(4 * n), i2 \in 1..(4 * n), i3 \in 1..(4 * n), i4 \in 1..(4 * n) :
           i1 = 4 * p + 1 /\ i2 = 4 * p + 2 /\ i3 = 4 * p + 3 /\ i4 = 4 * p + 4
    <3>1. /\ 4 * p + 1 \in 1..(4 * n) /\ 4 * p + 2 \in 1..(4 * n)
          /\ 4 * p + 3 \in 1..(4 * n) /\ 4 * p + 4 \in 1..(4 * n)
      BY <1>3
    <3> QED
      BY <3>1, Zenon
  <2>2. i1 # i2 /\ i1 # i3 /\ i1 # i4 /\ i2 # i3 /\ i2 # i4 /\ i3 # i4
    BY <2>1
  <2>3. g = [f EXCEPT ![i1] = y1, ![i2] = y2, ![i3] = y3, ![i4] = y4]
    BY <2>1, Zenon
  <2> HIDE DEF g
  <2>4. /\ g \in [1..(4 * n) -> Int]
        /\ g[i1] = y1 /\ g[i2] = y2 /\ g[i3] = y3 /\ g[i4] = y4
        /\ \A x \in 1..(4 * n) : x # i1 /\ x # i2 /\ x # i3 /\ x # i4 => g[x] = f[x]
    BY <2>2, <2>3
  <2> QED
    BY <2>1, <2>4, Zenon
<1> HIDE DEF g
<1>9. HasWord(g, p, v)
  <2>1. ASSUME NEW t \in 1..4 PROVE g[4 * p + t] = ByteOf(v \div ByteWeights[t])
    <3>1. t = 1 \/ t = 2 \/ t = 3 \/ t = 4
      OBVIOUS
    <3> QED
      BY <1>6, <1>8, <3>1, Zenon
  <2> QED
    BY <2>1, Zenon DEF HasWord
<1>10. ASSUME NEW j \in 1..n, j # k, NEW t \in 1..4 PROVE g[4 * (j - 1) + t] = f[4 * (j - 1) + t]
  <2>1. PICK x \in 1..(4 * n) : x = 4 * (j - 1) + t
    OBVIOUS
  <2>2. x # 4 * p + 1 /\ x # 4 * p + 2 /\ x # 4 * p + 3 /\ x # 4 * p + 4
    BY <1>3, <1>10, <2>1
  <2> QED
    BY <1>8, <2>1, <2>2, Zenon
<1>11. put(b, k - 1, v).buffer = g /\ put(b, k - 1, v).len = b.len + 4
  BY <1>7
<1>12. put(b, k - 1, v) \in Buffers(n)
  <2>1. b.len + 4 \in Nat
    BY <1>2
  <2> QED
    BY <1>7, <1>8, <2>1 DEF Buffers
<1> QED
  BY <1>1, <1>3, <1>9, <1>10, <1>11, <1>12, Zenon

(* A new IRBuffer, filled with put(), has the words one after the other.   *)
HasWords(b, ints) ==
    /\ b.buffer \in Seq(Int) /\ Len(b.buffer) = 4 * Len(ints) /\ b.len = 4 * Len(ints)
    /\ \A j \in 1..Len(ints) : HasWord(b.buffer, j - 1, ints[j])

LEMMA FilledShape ==
    ASSUME NEW ints \in Seq(Words)
    PROVE  HasWords(Filled(ints), ints)
<1> DEFINE h == CHOOSE u : u = [k \in 0..Len(ints) |->
                  IF k = 0 THEN IRBuffer(Len(ints)) ELSE put(u[k - 1], k - 1, ints[k])]
<1>1. Filled(ints) = h[Len(ints)]
  BY Zenon DEF Filled
<1>2. PICK n \in Nat : n = Len(ints)
  OBVIOUS
<1>3. PICK A : A = Buffers(n)
  OBVIOUS
<1>4. PICK none \in A : none = IRBuffer(n)
  <2>1. IRBuffer(n) \in Buffers(n)
    BY DEF IRBuffer, Buffers
  <2> QED
    BY <1>3, <2>1
<1>5. \A k \in 1..n : ints[k] \in Words
  BY <1>2
<1> DEFINE step == [x \in A \X (1..n) |-> put(x[1], x[2] - 1, ints[x[2]])]
<1>6. step \in [A \X (1..n) -> A]
  <2>1. ASSUME NEW x \in A \X (1..n) PROVE put(x[1], x[2] - 1, ints[x[2]]) \in A
    <3>1. x[1] \in Buffers(n) /\ x[2] \in 1..n
      BY <1>3
    <3> QED
      BY <1>3, <1>5, <3>1, PutWord, Zenon
  <2> QED
    BY <2>1, Zenon
<1>7. \A x \in A, k \in 1..n : step[<<x, k>>] = put(x, k - 1, ints[k])
  OBVIOUS
<1> HIDE DEF step
<1>8. PICK g \in [0..n -> A] : g = [k \in 0..n |-> IF k = 0 THEN none ELSE step[<<g[k - 1], k>>]]
  <2>1. HasIteration(A, none, n, step)
    BY <1>4, <1>6, IterationExists
  <2> QED
    BY <2>1, Zenon DEF HasIteration
<1>9. g = [k \in 0..Len(ints) |-> IF k = 0 THEN IRBuffer(Len(ints)) ELSE put(g[k - 1], k - 1, ints[k])]
  <2>1. ASSUME NEW k \in 0..n
        PROVE  g[k] = IF k = 0 THEN IRBuffer(n) ELSE put(g[k - 1], k - 1, ints[k])
    <3>1. k = 0 \/ (k \in 1..n /\ k - 1 \in 0..n /\ k # 0)
      OBVIOUS
    <3>2. CASE k = 0
      BY <1>4, <1>8, <3>2, Zenon
    <3>3. CASE k \in 1..n /\ k - 1 \in 0..n /\ k # 0
      <4>1. g[k] = step[<<g[k - 1], k>>]
        BY <1>8, <3>3, Zenon
      <4>2. g[k - 1] \in A
        BY <3>3
      <4> QED
        BY <1>7, <3>3, <4>1, <4>2, Zenon
    <3> QED
      BY <3>1, <3>2, <3>3
  <2>2. g = [k \in 0..n |-> g[k]]
    BY Zenon
  <2>3. g = [k \in 0..n |-> IF k = 0 THEN IRBuffer(n) ELSE put(g[k - 1], k - 1, ints[k])]
    BY <2>1, <2>2, Zenon
  <2> QED
    BY <1>2, <2>3, Zenon
<1>10. h = [k \in 0..Len(ints) |-> IF k = 0 THEN IRBuffer(Len(ints)) ELSE put(h[k - 1], k - 1, ints[k])]
  <2>1. \E u : u = [k \in 0..Len(ints) |->
                      IF k = 0 THEN IRBuffer(Len(ints)) ELSE put(u[k - 1], k - 1, ints[k])]
    BY <1>9, Zenon
  <2> QED
    BY <2>1, Zenon
<1> HIDE DEF h
<1>11. h[0] = none /\ \A k \in 1..n : h[k] = put(h[k - 1], k - 1, ints[k])
  <2>1. 0 \in 0..n /\ \A k \in 1..n : k \in 0..n /\ k # 0
    OBVIOUS
  <2>2. h = [k \in 0..n |-> IF k = 0 THEN IRBuffer(n) ELSE put(h[k - 1], k - 1, ints[k])]
    BY <1>2, <1>10, Zenon
  <2> QED
    BY <1>4, <2>1, <2>2, Zenon
<1> DEFINE Good(k) == /\ h[k] \in Buffers(n) /\ h[k].len = 4 * k
                      /\ \A j \in 1..k : HasWord(h[k].buffer, j - 1, ints[j])
           S == {k \in 0..n : Good(k)}
<1>12. 0 \in S
  <2>1. h[0] \in Buffers(n)
    BY <1>3, <1>4, <1>11
  <2>2. h[0].len = 0
    BY <1>4, <1>11 DEF IRBuffer
  <2>3. \A j \in 1..0 : FALSE
    OBVIOUS
  <2>4. 4 * 0 = 0 /\ 0 \in 0..n
    OBVIOUS
  <2> QED
    BY <2>1, <2>2, <2>3, <2>4, Zenon
<1>13. ASSUME NEW k \in 1..n, k - 1 \in S PROVE k \in S
  <2>1. /\ h[k - 1] \in Buffers(n) /\ h[k - 1].len = 4 * (k - 1)
        /\ \A j \in 1..(k - 1) : HasWord(h[k - 1].buffer, j - 1, ints[j])
    BY <1>13, Zenon
  <2>2. h[k] = put(h[k - 1], k - 1, ints[k]) /\ ints[k] \in Words
    BY <1>5, <1>11
  <2>7. /\ put(h[k - 1], k - 1, ints[k]) \in Buffers(n)
        /\ put(h[k - 1], k - 1, ints[k]).len = h[k - 1].len + 4
        /\ HasWord(put(h[k - 1], k - 1, ints[k]).buffer, k - 1, ints[k])
        /\ \A j \in 1..n : j # k => \A t \in 1..4 :
              put(h[k - 1], k - 1, ints[k]).buffer[4 * (j - 1) + t]
              = h[k - 1].buffer[4 * (j - 1) + t]
    BY <2>1, <2>2, PutWord, Zenon
  <2>3. /\ h[k] \in Buffers(n)
        /\ h[k].len = h[k - 1].len + 4
        /\ HasWord(h[k].buffer, k - 1, ints[k])
        /\ \A j \in 1..n : j # k => \A t \in 1..4 :
              h[k].buffer[4 * (j - 1) + t] = h[k - 1].buffer[4 * (j - 1) + t]
    BY <2>2, <2>7, Zenon
  <2>4. h[k].len = 4 * k
    BY <2>1, <2>3
  <2>5. ASSUME NEW j \in 1..k PROVE HasWord(h[k].buffer, j - 1, ints[j])
    <3>1. CASE j = k
      BY <2>3, <3>1
    <3>2. CASE j # k
      <4>1. j \in 1..(k - 1) /\ j \in 1..n
        BY <3>2
      <4>2. \A t \in 1..4 : h[k].buffer[4 * (j - 1) + t] = h[k - 1].buffer[4 * (j - 1) + t]
        BY <2>3, <3>2, <4>1, Zenon
      <4>3. HasWord(h[k - 1].buffer, j - 1, ints[j])
        BY <2>1, <4>1, Zenon
      <4> QED
        BY <4>2, <4>3, Zenon DEF HasWord
    <3> QED
      BY <3>1, <3>2
  <2>6. k \in 0..n
    OBVIOUS
  <2> QED
    BY <2>3, <2>4, <2>5, <2>6, Zenon
<1>14. Good(n)
  <2>1. 0..n \subseteq S
    <3> HIDE DEF S
    <3> QED
      BY <1>12, <1>13, IntervalInduction
  <2>2. n \in 0..n
    OBVIOUS
  <2> QED
    BY <2>1, <2>2, Zenon
<1>15. h[n].buffer \in Seq(Int) /\ Len(h[n].buffer) = 4 * n
  <2>1. h[n].buffer \in [1..(4 * n) -> Int]
    BY <1>14 DEF Buffers
  <2>2. PICK m \in Nat : m = 4 * n
    OBVIOUS
  <2>3. PICK f \in [1..m -> Int] : f = h[n].buffer
    BY <2>1, <2>2, Zenon
  <2>4. f \in Seq(Int) /\ Len(f) = m
    OBVIOUS
  <2> QED
    BY <2>2, <2>3, <2>4, Zenon
<1> QED
  BY <1>1, <1>2, <1>14, <1>15, Zenon DEF HasWords

----------------------------------------------------------------------------
(* The loop in Java *)

LEMMA MemoryAs ==
    ASSUME NEW hd \in Seq(Sample), NEW p \in Nat, NEW n \in Nat, p + n <= Len(hd), NEW bytes
    PROVE  (Memory(bytes, n) = SubSeq(hd, p + 1, p + n))
           <=> \A i \in 1..n : SampleOf(Raw(bytes, i - 1)) = hd[p + i]
<1>1. Memory(bytes, n) = [i \in 1..n |-> SampleOf(Raw(bytes, i - 1))]
  BY Zenon DEF Memory, Raw
<1>2. SubSeq(hd, p + 1, p + n) = [i \in 1..n |-> hd[p + i]]
  OBVIOUS
<1>3. ASSUME Memory(bytes, n) = SubSeq(hd, p + 1, p + n), NEW i \in 1..n
      PROVE  SampleOf(Raw(bytes, i - 1)) = hd[p + i]
  BY <1>1, <1>2, <1>3, Zenon
<1>4. ASSUME \A i \in 1..n : SampleOf(Raw(bytes, i - 1)) = hd[p + i]
      PROVE  Memory(bytes, n) = SubSeq(hd, p + 1, p + n)
  BY <1>1, <1>2, <1>4, Zenon
<1> QED
  BY <1>3, <1>4, Zenon

IsMemory(bytes, hd, p, n) == Memory(bytes, n) = SubSeq(hd, p + 1, p + n)
IsRaw(bytes, hd, p, n) == \A i \in 1..n : SampleOf(Raw(bytes, i - 1)) = hd[p + i]

LEMMA MemoryHas ==
    ASSUME NEW hd \in Seq(Sample), NEW p \in Nat, NEW n \in Nat, p + n <= Len(hd), NEW bytes,
           IsMemory(bytes, hd, p, n)
    PROVE  IsRaw(bytes, hd, p, n)
BY MemoryAs, Zenon DEF IsMemory, IsRaw

LEMMA MemoryIs ==
    ASSUME NEW hd \in Seq(Sample), NEW p \in Nat, NEW n \in Nat, p + n <= Len(hd), NEW bytes,
           \A i \in 1..n : SampleOf(Raw(bytes, i - 1)) = hd[p + i]
    PROVE  Memory(bytes, n) = SubSeq(hd, p + 1, p + n)
BY MemoryAs, Zenon

(* What Written() leaves: the words behind those that are used.            *)
LEMMA WrittenShape ==
    ASSUME NEW bytes \in Seq(Int), NEW n \in Nat, Len(bytes) = 4 * n, NEW u \in 0..n
    PROVE  LET w == Written([bytes |-> bytes, len |-> 4 * n], u) IN
           /\ w.buffer \in Seq(Int) /\ Len(w.buffer) = 4 * (n - u) /\ w.len = 4 * (n - u)
           /\ \A i \in 1..(n - u) : Raw(w.buffer, i - 1) = Raw(bytes, (u + i) - 1)
<1> DEFINE w == Written([bytes |-> bytes, len |-> 4 * n], u)
<1>1. PICK m \in Nat, x \in Nat, y \in Nat : m = 4 * n /\ x = 4 * u /\ y = m - x
  OBVIOUS
<1>2. w = [buffer |-> SubSeq(SubSeq(bytes, x + 1, m), 1, y), len |-> y]
  <2>1. Len(bytes) = m
    BY <1>1
  <2> QED
    BY <1>1, <2>1, Zenon DEF Written, IRBuffer_write
<1>3. PICK r \in Seq(Int) : r = SubSeq(bytes, x + 1, m)
  <2>1. Len(bytes) = m /\ x <= m
    BY <1>1
  <2>2. \A i \in 1..(m - x) : bytes[x + i] \in Int
    BY <1>1, <2>1
  <2>3. SubSeq(bytes, x + 1, m) = [i \in 1..(m - x) |-> bytes[x + i]]
    BY <1>1, <2>1
  <2>4. SubSeq(bytes, x + 1, m) \in Seq(Int)
    BY <1>1, <2>2, <2>3
  <2> QED
    BY <2>4, Zenon
<1>4. Len(r) = y /\ \A j \in 1..y : r[j] = bytes[x + j]
  <2>1. Len(bytes) = m /\ x <= m
    BY <1>1
  <2>2. r = [i \in 1..(m - x) |-> bytes[x + i]]
    BY <1>1, <1>3, <2>1
  <2>3. m - x \in Nat
    BY <1>1
  <2> QED
    BY <1>1, <2>2, <2>3
<1>5. PICK s \in Seq(Int) : s = SubSeq(r, 1, y)
  BY <1>1, <1>4
<1>6. Len(s) = y /\ \A j \in 1..y : s[j] = r[j]
  BY <1>1, <1>4, <1>5
<1>7. w.buffer = s /\ w.len = y
  <2>1. w = [buffer |-> s, len |-> y]
    BY <1>2, <1>3, <1>5, Zenon
  <2> HIDE DEF w
  <2> QED
    BY <2>1
<1> HIDE DEF w
<1>8. y = 4 * (n - u)
  BY <1>1
<1>9. ASSUME NEW i \in 1..(n - u) PROVE Raw(s, i - 1) = Raw(bytes, (u + i) - 1)
  <2>1. ASSUME NEW t \in 1..4 PROVE s[4 * (i - 1) + t] = bytes[4 * ((u + i) - 1) + t]
    <3>1. PICK j \in 1..y : j = 4 * (i - 1) + t
      BY <1>8
    <3>2. x + j = 4 * ((u + i) - 1) + t
      BY <1>1, <3>1
    <3>3. s[j] = bytes[x + j]
      BY <1>4, <1>6
    <3> QED
      BY <3>1, <3>2, <3>3, Zenon
  <2>2. 1 \in 1..4 /\ 2 \in 1..4 /\ 3 \in 1..4 /\ 4 \in 1..4
    OBVIOUS
  <2>3. /\ s[4 * (i - 1) + 1] = bytes[4 * ((u + i) - 1) + 1]
        /\ s[4 * (i - 1) + 2] = bytes[4 * ((u + i) - 1) + 2]
        /\ s[4 * (i - 1) + 3] = bytes[4 * ((u + i) - 1) + 3]
        /\ s[4 * (i - 1) + 4] = bytes[4 * ((u + i) - 1) + 4]
    BY <2>1, <2>2, Zenon
  <2> QED
    BY <2>3, Zenon DEF Raw
<1> QED
  BY <1>5, <1>6, <1>7, <1>8, <1>9, Zenon DEF w

LEMMA HeardType ==
    ASSUME IInv
    PROVE  /\ heard \in Seq(Sample) /\ codec \in Codec2 /\ buff \in Seq(Bit)
           /\ pos \in Nat /\ end \in Nat /\ pos <= end /\ end <= Len(heard)
<1>1. TypeOK
  BY DEF IInv
<1>2. IsLayout(codec, messages, heard, Lasts)
  BY <1>1, InvariantOf
<1>3. heard \in Seq(Sample)
  BY <1>2 DEF IsLayout
<1> QED
  BY <1>1, <1>3 DEF TypeOK, Codec2

(* The IRBuffer b has the samples of hd between p and e.                   *)
HasSamples(b, hd, p, e) ==
    /\ b.buffer \in Seq(Int)
    /\ b.len = 4 * (e - p) /\ Len(b.buffer) = b.len
    /\ Memory(b.buffer, e - p) = SubSeq(hd, p + 1, e)

LEMMA FillsSamples ==
    ASSUME NEW hd \in Seq(Sample), NEW p \in Nat, NEW e \in Nat, p <= e, e <= Len(hd)
    PROVE  HasSamples(Filled([i \in 1..(e - p) |-> Word(hd[p + i])]), hd, p, e)
<1>1. PICK n \in Nat : n = e - p
  OBVIOUS
<1>2. \A i \in 1..n : hd[p + i] \in Sample
  BY <1>1
<1>3. PICK ws \in Seq(Words) : ws = [i \in 1..n |-> Word(hd[p + i])]
  <2>1. \A i \in 1..n : Word(hd[p + i]) \in Words
    BY <1>2, SampleBack
  <2>2. PICK T : T = Words
    OBVIOUS
  <2> DEFINE f == [i \in 1..n |-> Word(hd[p + i])]
  <2>3. f \in [1..n -> T]
    BY <2>1, <2>2, Zenon
  <2> HIDE DEF f
  <2>4. f \in Seq(T)
    BY <2>3
  <2> QED
    BY <2>2, <2>4, Zenon DEF f
<1>4. Len(ws) = n /\ \A i \in 1..n : ws[i] = Word(hd[p + i]) /\ ws[i] \in Words
  <2>1. Len(ws) = n
    BY <1>3
  <2>2. \A i \in 1..n : ws[i] = Word(hd[p + i])
    BY <1>3, Zenon
  <2> QED
    BY <1>2, <2>1, <2>2, SampleBack
<1>5. PICK b : b = Filled(ws)
  OBVIOUS
<1>6. HasWords(b, ws)
  BY <1>5, FilledShape
<1>7. /\ b.buffer \in Seq(Int) /\ Len(b.buffer) = 4 * n /\ b.len = 4 * n
      /\ \A i \in 1..n : HasWord(b.buffer, i - 1, ws[i])
  BY <1>4, <1>6, Zenon DEF HasWords
<1>8. ASSUME NEW i \in 1..n PROVE SampleOf(Raw(b.buffer, i - 1)) = hd[p + i]
  <2>1. i - 1 \in Nat
    OBVIOUS
  <2>2. Raw(b.buffer, i - 1) = ws[i]
    BY <1>4, <1>7, <2>1, WordBack, Zenon
  <2> QED
    BY <1>2, <1>4, <2>2, SampleBack, Zenon
<1>9. Memory(b.buffer, e - p) = SubSeq(hd, p + 1, e)
  <2>1. p + n = e /\ p + n <= Len(hd)
    BY <1>1
  <2>2. Memory(b.buffer, n) = SubSeq(hd, p + 1, p + n)
    BY <1>8, <2>1, MemoryIs
  <2> QED
    BY <1>1, <2>1, <2>2, Zenon
<1>10. b.len = 4 * (e - p) /\ Len(b.buffer) = b.len
  BY <1>1, <1>7, Zenon
<1>11. HasSamples(b, hd, p, e)
  BY <1>7, <1>9, <1>10, Zenon DEF HasSamples
<1> QED
  BY <1>1, <1>3, <1>5, <1>11, Zenon

LEMMA JavaReceivesRight ==
    ASSUME IInv, JavaReceives
    PROVE  Receive /\ BufferInv'
<1>1. /\ Receive /\ pos = end /\ end' \in (end + 1)..Len(heard) /\ heard' = heard /\ pos' = pos
      /\ ir' = Filled([i \in 1..(end' - end) |-> Word(heard[end + i])])
  BY DEF JavaReceives, Receive
<1>2. PICK hd \in Seq(Sample), p \in Nat : hd = heard /\ p = end
  BY HeardType
<1>3. PICK e \in Nat : e = end' /\ p <= e /\ e <= Len(hd)
  BY <1>1, <1>2
<1>4. HasSamples(ir', hd, p, e)
  BY <1>1, <1>2, <1>3, FillsSamples, Zenon
<1> QED
  BY <1>1, <1>2, <1>3, <1>4, Zenon DEF BufferInv, HasSamples

LEMMA KeepsSamples ==
    ASSUME NEW hd \in Seq(Sample), NEW p \in Nat, NEW e \in Nat, p <= e, e <= Len(hd),
           NEW b, HasSamples(b, hd, p, e), NEW u \in 0..(e - p)
    PROVE  HasSamples(Written(IRBuffer_read(b), u), hd, p + u, e)
<1>1. PICK n \in Nat : n = e - p /\ u \in 0..n
  OBVIOUS
<1>2. PICK bytes \in Seq(Int) : bytes = b.buffer
  BY Zenon DEF HasSamples
<1>3. Len(bytes) = 4 * n /\ b.len = 4 * n
  BY <1>1, <1>2, Zenon DEF HasSamples
<1>4. IRBuffer_read(b) = [bytes |-> bytes, len |-> 4 * n]
  BY <1>2, <1>3, Zenon DEF IRBuffer_read
<1>5. PICK w : w = Written([bytes |-> bytes, len |-> 4 * n], u)
  OBVIOUS
<1>6. /\ w.buffer \in Seq(Int) /\ Len(w.buffer) = 4 * (n - u) /\ w.len = 4 * (n - u)
      /\ \A i \in 1..(n - u) : Raw(w.buffer, i - 1) = Raw(bytes, (u + i) - 1)
  BY <1>1, <1>3, <1>5, WrittenShape, Zenon
<1>7. PICK q \in Nat : q = p + u /\ q <= e /\ n - u = e - q
  BY <1>1
<1>8. \A i \in 1..n : SampleOf(Raw(bytes, i - 1)) = hd[p + i]
  <2>1. p + n = e /\ p + n <= Len(hd) /\ n = e - p
    BY <1>1
  <2>2. Memory(bytes, e - p) = SubSeq(hd, p + 1, e)
    BY <1>2, Zenon DEF HasSamples
  <2>3. IsMemory(bytes, hd, p, n)
    BY <2>1, <2>2, Zenon DEF IsMemory
  <2> QED
    <3>1. IsRaw(bytes, hd, p, n)
      BY <2>1, <2>3, MemoryHas, Zenon
    <3> QED
      BY <3>1, Zenon DEF IsRaw
<1>9. ASSUME NEW i \in 1..(e - q) PROVE SampleOf(Raw(w.buffer, i - 1)) = hd[q + i]
  <2>1. i \in 1..(n - u) /\ u + i \in 1..n /\ p + (u + i) = q + i
    BY <1>1, <1>7
  <2> QED
    BY <1>6, <1>8, <2>1, Zenon
<1>10. Memory(w.buffer, e - q) = SubSeq(hd, q + 1, e)
  <2>1. PICK m \in Nat : m = e - q
    BY <1>7
  <2>2. q + m = e /\ q + m <= Len(hd)
    BY <1>7, <2>1
  <2>3. \A i \in 1..m : SampleOf(Raw(w.buffer, i - 1)) = hd[q + i]
    BY <1>9, <2>1
  <2>4. Memory(w.buffer, m) = SubSeq(hd, q + 1, q + m)
    BY <2>2, <2>3, MemoryIs, ZenonT(60)
  <2> QED
    BY <2>1, <2>2, <2>4, Zenon
<1>11. HasSamples(w, hd, q, e)
  BY <1>6, <1>7, <1>10, Zenon DEF HasSamples
<1> QED
  BY <1>4, <1>5, <1>7, <1>11, Zenon

LEMMA DecodeUses ==
    ASSUME NEW c \in Codec2, NEW bits \in Seq(Bit), NEW in \in Seq(Sample), in # << >>
    PROVE  decode(c, bits, in).used \in 1..Len(in)
<1>1. PICK u : Scans(c, bits, in, decode(c, bits, in), u)
  BY DecodeSteps
<1> QED
  BY <1>1, Zenon DEF Scans

(* A native method decodes as decode() does, and leaves the rest.          *)
LEMMA NativeDecodes ==
    ASSUME NEW c \in Codec2, NEW bits, NEW b, NEW in, NEW n \in Nat,
           b.len = 4 * n, Memory(b.buffer, n) = in
    PROVE  (IF c = "nec" THEN NecDecode(bits, b) ELSE Unkn0Decode(bits, b))
           = [ret |-> decode(c, bits, in).ret, buf |-> decode(c, bits, in).buf,
              ir |-> Written(IRBuffer_read(b), decode(c, bits, in).used)]
<1>1. IRBuffer_read(b).bytes = b.buffer /\ IRBuffer_read(b).len = b.len
  BY DEF IRBuffer_read
<1>2. IRBuffer_read(b).len \div 4 = n
  BY <1>1
<1>3. Memory(IRBuffer_read(b).bytes, IRBuffer_read(b).len \div 4) = in
  BY <1>1, <1>2, Zenon
<1>4. CASE c = "nec"
  BY <1>3, <1>4, Zenon DEF NecDecode, decode
<1>5. CASE c # "nec"
  BY <1>3, <1>5, Zenon DEF Unkn0Decode, decode
<1> QED
  BY <1>4, <1>5

LEMMA JavaDecodesRight ==
    ASSUME IInv, BufferInv, JavaDecodes
    PROVE  Decode /\ BufferInv'
<1>1. PICK hd \in Seq(Sample), p \in Nat, e \in Nat, c \in Codec2, bits \in Seq(Bit) :
         /\ hd = heard /\ p = pos /\ e = end /\ c = codec /\ bits = buff
         /\ p <= e /\ e <= Len(hd)
  BY HeardType, Zenon
<1>20. PICK b : b = ir
  OBVIOUS
<1>2. caller = "Java" /\ ir.len > 0
  BY DEF JavaDecodes
<1>3. HasSamples(b, hd, p, e)
  BY <1>1, <1>2, <1>20, Zenon DEF BufferInv, HasSamples
<1>4. PICK n \in Nat : n = e - p
  BY <1>1
<1>5. b.len = 4 * n
  BY <1>3, <1>4, Zenon DEF HasSamples
<1>6. n > 0
  BY <1>1, <1>2, <1>5, <1>20
<1>7. PICK in \in Seq(Sample) : in = SubSeq(hd, p + 1, e) /\ Len(in) = n /\ in # << >>
  <2>1. SubSeq(hd, p + 1, e) = [i \in 1..n |-> hd[p + i]]
    BY <1>1, <1>4
  <2>2. \A i \in 1..n : hd[p + i] \in Sample
    BY <1>1, <1>4
  <2>3. PICK T : T = Sample
    OBVIOUS
  <2> DEFINE f == [i \in 1..n |-> hd[p + i]]
  <2>4. f \in [1..n -> T]
    BY <2>2, <2>3, Zenon
  <2> HIDE DEF f
  <2>5. f \in Seq(T) /\ Len(f) = n /\ f # << >>
    BY <1>6, <2>4
  <2> QED
    BY <2>1, <2>3, <2>5, Zenon DEF f
<1>8. Memory(b.buffer, n) = in
  BY <1>3, <1>4, <1>7, Zenon DEF HasSamples
<1>9. PICK d : d = decode(c, bits, in)
  OBVIOUS
<1>10. PICK u \in 1..n : u = d.used
  BY <1>7, <1>9, DecodeUses, Zenon
<1>11. PICK w : w = Written(IRBuffer_read(b), u)
  OBVIOUS
<1>12. (IF c = "nec" THEN NecDecode(bits, b) ELSE Unkn0Decode(bits, b))
       = [ret |-> d.ret, buf |-> d.buf, ir |-> w]
  BY <1>5, <1>8, <1>9, <1>10, <1>11, NativeDecodes, Zenon
<1>13. HasSamples(w, hd, p + u, e)
  <2>1. u \in 0..(e - p)
    BY <1>4, <1>10
  <2> QED
    BY <1>1, <1>3, <1>11, <2>1, KeepsSamples, Zenon
<1>14. e - w.len \div 4 = p + u
  <2>1. PICK k \in Nat : k = e - (p + u)
    BY <1>4, <1>10
  <2>2. w.len = 4 * k
    BY <1>13, <2>1, Zenon DEF HasSamples
  <2>3. w.len \div 4 = k
    BY <2>2
  <2> QED
    BY <1>4, <1>10, <2>1, <2>3
<1>15. decode_reset(c) = << >> /\ NecDecodeReset = << >> /\ Unkn0DecodeReset = << >>
  BY DEF decode_reset, nec_decode_reset, unkn0_decode_reset, NecDecodeReset, Unkn0DecodeReset
<1>16. /\ ir' = w /\ pos' = p + u
       /\ buff' = IF d.ret = 1 THEN << >> ELSE d.buf
       /\ frames' = IF d.ret = 1 THEN Append(frames, [bits |-> d.buf, at |-> pos']) ELSE frames
       /\ UNCHANGED <<codec, messages, heard, end, flushed, caller>>
  <2> DEFINE D == IF c = "nec" THEN NecDecode(bits, b) ELSE Unkn0Decode(bits, b)
  <2>1. /\ ir' = D.ir /\ pos' = e - D.ir.len \div 4
        /\ buff' = IF D.ret = 1 THEN (IF c = "nec" THEN NecDecodeReset ELSE Unkn0DecodeReset) ELSE D.buf
        /\ frames' = IF D.ret = 1
                     THEN Append(frames, [bits |-> IF c = "nec" THEN NecDecodedBuff(D.buf)
                                                   ELSE Unkn0DecodedBuff(D.buf),
                                          at |-> pos'])
                     ELSE frames
        /\ UNCHANGED <<codec, messages, heard, end, flushed, caller>>
    BY <1>1, <1>20, Zenon DEF JavaDecodes
  <2>2. D = [ret |-> d.ret, buf |-> d.buf, ir |-> w]
    BY <1>12
  <2> HIDE DEF D
  <2>3. D.ret = d.ret /\ D.buf = d.buf /\ D.ir = w
    BY <2>2
  <2>4. (IF c = "nec" THEN NecDecodedBuff(D.buf) ELSE Unkn0DecodedBuff(D.buf)) = d.buf
    BY <2>3, Zenon DEF NecDecodedBuff, Unkn0DecodedBuff
  <2>5. (IF c = "nec" THEN NecDecodeReset ELSE Unkn0DecodeReset) = << >>
    BY <1>15, Zenon
  <2> QED
    BY <1>14, <2>1, <2>3, <2>4, <2>5, Zenon
<1>17. pos < end
  BY <1>1, <1>4, <1>6
<1>18. Decode
  <2>1. d = decode(codec, buff, SubSeq(heard, pos + 1, end))
    BY <1>1, <1>7, <1>9, Zenon
  <2>2. pos' = pos + d.used
    BY <1>1, <1>10, <1>16, Zenon
  <2>3. buff' = IF d.ret = 1 THEN decode_reset(codec) ELSE d.buf
    BY <1>1, <1>15, <1>16, Zenon
  <2>4. UNCHANGED <<codec, messages, heard, end, flushed>>
    BY <1>16, Zenon
  <2> QED
    BY <1>16, <1>17, <2>1, <2>2, <2>3, <2>4, Zenon DEF Decode
<1>19. BufferInv'
  <2>1. ir' = w /\ pos' = p + u /\ heard' = hd /\ end' = e
    BY <1>1, <1>16
  <2> QED
    BY <1>13, <2>1, Zenon DEF BufferInv, HasSamples
<1> QED
  BY <1>18, <1>19

LEMMA BindingStarts ==
    ASSUME BindingInit
    PROVE  Init /\ IInv /\ BufferInv
<1>1. Init /\ IInv /\ ir = IRBuffer(0) /\ pos = 0 /\ end = 0
  BY CodecInit DEF BindingInit, Init
<1>2. heard \in Seq(Sample)
  BY <1>1, HeardType
<1>3. ir.len = 0 /\ ir.buffer = [i \in 1..(4 * 0) |-> 0]
  BY <1>1 DEF IRBuffer
<1>4. ir.buffer \in Seq(Int) /\ Len(ir.buffer) = 0
  BY <1>3
<1>5. Memory(ir.buffer, 0) = SubSeq(heard, 1, 0)
  <2>1. SubSeq(heard, 1, 0) = << >>
    BY <1>2
  <2>2. Memory(ir.buffer, 0) = << >>
    <3>1. 1..0 = {}
      OBVIOUS
    <3>2. Memory(ir.buffer, 0) = [i \in 1..0 |-> SampleOf(Raw(ir.buffer, i - 1))]
      BY Zenon DEF Memory, Raw
    <3> QED
      BY <3>1, <3>2
  <2> QED
    BY <2>1, <2>2
<1>6. BufferInv
  <2>1. end - pos = 0 /\ pos + 1 = 1 /\ end = 0 /\ 4 * 0 = 0
    BY <1>1
  <2> QED
    BY <1>3, <1>4, <1>5, <2>1, Zenon DEF BufferInv
<1> QED
  BY <1>1, <1>6

LEMMA BindingStep ==
    ASSUME IInv, BufferInv, [BindingNext]_bindingVars
    PROVE  [Next]_vars /\ BufferInv'
<1>1. CASE InC
  <2>1. Next /\ caller' = caller /\ caller = "C"
    BY <1>1 DEF InC, Next
  <2>2. BufferInv'
    BY <2>1 DEF BufferInv
  <2> QED
    BY <2>1, <2>2
<1>2. CASE JavaReceives
  BY <1>2, JavaReceivesRight DEF Next
<1>3. CASE JavaDecodes
  BY <1>3, JavaDecodesRight DEF Next
<1>4. CASE UNCHANGED bindingVars
  BY <1>4 DEF bindingVars, vars, BufferInv
<1> QED
  BY <1>1, <1>2, <1>3, <1>4 DEF BindingNext

(* What crosses the border in Java: after each put() of OnDataReceived()   *)
(* and each native call, the IRBuffer has the samples not yet decoded, no  *)
(* more and no less.                                                       *)
THEOREM BufferInvariant == BindingSpec => [](IInv /\ BufferInv)
<1>1. IInv /\ BufferInv /\ [BindingNext]_bindingVars => IInv' /\ BufferInv'
  BY BindingStep, CodecStep
<1> QED
  BY <1>1, BindingStarts, PTL DEF BindingSpec

(* The loop in Java does what the one in C does: put(), IRBuffer_read(),   *)
(* a decoder and IRBuffer_write() together are one call of the decoder on  *)
(* the samples that are left.                                              *)
THEOREM JavaIsLikeC == BindingSpec => LoopOfC
<1>1. IInv /\ BufferInv /\ [BindingNext]_bindingVars => [Next]_vars
  BY BindingStep
<1>2. BindingInit => Init
  BY BindingStarts
<1> QED
  BY <1>1, <1>2, BufferInvariant, PTL DEF BindingSpec, LoopOfC, Spec

----------------------------------------------------------------------------
(* What Java encodes and reads back *)

LEMMA TrainsAreWords ==
    ASSUME NEW m \in Seq(Bit)
    PROVE  nec_encode(m) \in Seq(Words) /\ unkn0_encode(m) \in Seq(Words)
<1>1. \A x \in Length : x \in Words
  BY LengthIs DEF Words
<1>2. \A t \in Seq(Length) : t \in Seq(Words)
  <2> TAKE t \in Seq(Length)
  <2>1. PICK L, W : L = Length /\ W = Words
    OBVIOUS
  <2>2. t \in Seq(L) /\ L \subseteq W
    BY <1>1, <2>1
  <2>3. t \in Seq(W)
    BY <2>2
  <2> QED
    BY <2>1, <2>3
<1>3. << >> \in Seq(Length)
  BY EmptySeq
<1>4. /\ 9000 \in Length /\ 4500 \in Length /\ 500 \in Length /\ 1000 \in Length
      /\ 560 \in Length /\ 1680 \in Length
  BY LengthIs
<1>5. nec_encode(m) \in Seq(Length)
  <2>1. PICK t0 \in Length, t1 \in Length, p1 \in Length, p2 \in Length :
           t0 = NEC_T0 /\ t1 = NEC_T1 /\ NEC_THEAD = <<p1, p2>>
    <3>1. NEC_T0 \in Length /\ NEC_T1 \in Length
      BY <1>4 DEF NEC_T0, NEC_T1
    <3>2. PICK p1 \in Length, p2 \in Length : p1 = 9000 /\ p2 = 4500
      BY <1>4
    <3>3. NEC_THEAD = <<p1, p2>>
      BY <3>2 DEF NEC_THEAD
    <3> QED
      BY <3>1, <3>3
  <2>2. <<p1, p2>> \in Seq(Length) /\ Train(m, t0, t1) \in Seq(Length)
    <3>1. <<p1, p2>> \in Seq(Length)
      OBVIOUS
    <3> QED
      BY <3>1, TrainShape
  <2>3. <<p1, p2>> \o Train(m, t0, t1) \in Seq(Length)
    BY <2>2, ConcatProperties
  <2> QED
    BY <1>3, <2>1, <2>3, Zenon DEF nec_encode
<1>6. unkn0_encode(m) \in Seq(Length)
  <2>1. PICK t0 \in Length, t1 \in Length : t0 = UNKN0_T0 /\ t1 = UNKN0_T1
    <3>1. UNKN0_T0 \in Length /\ UNKN0_T1 \in Length
      BY <1>4 DEF UNKN0_T0, UNKN0_T1
    <3> QED
      BY <3>1
  <2>2. Train(m, t0, t1) \in Seq(Length)
    BY TrainShape
  <2> QED
    BY <1>3, <2>1, <2>2, Zenon DEF unkn0_encode
<1> QED
  BY <1>2, <1>5, <1>6

(* The bits of a byte: each is found where it was put.                     *)
Composed(y, x1, x2, x3, x4, x5, x6, x7, x8) ==
    y = 128 * x1 + 64 * x2 + 32 * x3 + 16 * x4 + 8 * x5 + 4 * x6 + 2 * x7 + x8
Separated(y, x1, x2, x3, x4, x5, x6, x7, x8) ==
    /\ y \in 0..255 /\ y % 256 = y
    /\ (y \div 128) % 2 = x1 /\ (y \div 64) % 2 = x2
    /\ (y \div 32) % 2 = x3 /\ (y \div 16) % 2 = x4
    /\ (y \div 8) % 2 = x5 /\ (y \div 4) % 2 = x6
    /\ (y \div 2) % 2 = x7 /\ (y \div 1) % 2 = x8

LEMMA BitsOfByte ==
    ASSUME NEW x1 \in Bit, NEW x2 \in Bit, NEW x3 \in Bit, NEW x4 \in Bit,
           NEW x5 \in Bit, NEW x6 \in Bit, NEW x7 \in Bit, NEW x8 \in Bit, NEW y \in Int,
           Composed(y, x1, x2, x3, x4, x5, x6, x7, x8)
    PROVE  Separated(y, x1, x2, x3, x4, x5, x6, x7, x8)
BY SMTT(60) DEF Bit, Composed, Separated

(* Byte j of a string and its eight bits; a bit behind the end is 0.       *)
LEMMA BytesOfString ==
    ASSUME NEW m \in Seq(Bit), NEW j \in 1..nbBytes(Len(m))
    PROVE  /\ string2bytes(m)[j] \in 0..255
           /\ \A b \in 1..8 : 8 * (j - 1) + b <= Len(m) =>
                 ((string2bytes(m)[j] % 256) \div Weights[b]) % 2 = m[8 * (j - 1) + b]
<1> DEFINE i == 8 * (j - 1)
           x(b) == IF i + b <= Len(m) /\ m[i + b] = 1 THEN 1 ELSE 0
           w(b) == IF i + b <= Len(m) /\ m[i + b] = 1 THEN Weights[b] ELSE 0
<1>1. string2bytes(m)[j] = w(1) + w(2) + w(3) + w(4) + w(5) + w(6) + w(7) + w(8)
  BY Zenon DEF string2bytes
<1>2. /\ Weights[1] = 128 /\ Weights[2] = 64 /\ Weights[3] = 32 /\ Weights[4] = 16
      /\ Weights[5] = 8 /\ Weights[6] = 4 /\ Weights[7] = 2 /\ Weights[8] = 1
  BY SMT DEF Weights
<1>3. /\ x(1) \in Bit /\ x(2) \in Bit /\ x(3) \in Bit /\ x(4) \in Bit
      /\ x(5) \in Bit /\ x(6) \in Bit /\ x(7) \in Bit /\ x(8) \in Bit
  BY DEF Bit
<1>4. /\ w(1) = 128 * x(1) /\ w(2) = 64 * x(2) /\ w(3) = 32 * x(3) /\ w(4) = 16 * x(4)
      /\ w(5) = 8 * x(5) /\ w(6) = 4 * x(6) /\ w(7) = 2 * x(7) /\ w(8) = x(8)
  BY <1>2
<1>5. ASSUME NEW b \in 1..8, i + b <= Len(m) PROVE x(b) = m[i + b]
  <2>1. Len(m) \in Nat /\ j \in Nat /\ j >= 1
    BY DEF nbBytes
  <2>2. i + b \in 1..Len(m)
    BY <1>5, <2>1
  <2>3. m[i + b] \in Bit
    BY <2>2
  <2> QED
    BY <1>5, <2>3 DEF Bit
<1> HIDE DEF x, w, i
<1>9. PICK x1 \in Bit, x2 \in Bit, x3 \in Bit, x4 \in Bit, x5 \in Bit, x6 \in Bit, x7 \in Bit, x8 \in Bit :
         /\ x1 = x(1) /\ x2 = x(2) /\ x3 = x(3) /\ x4 = x(4)
         /\ x5 = x(5) /\ x6 = x(6) /\ x7 = x(7) /\ x8 = x(8)
  BY <1>3, Zenon
<1>6. PICK y \in Int :
         /\ y = string2bytes(m)[j]
         /\ y = 128 * x1 + 64 * x2 + 32 * x3 + 16 * x4 + 8 * x5 + 4 * x6 + 2 * x7 + x8
  <2>1. 128 * x1 + 64 * x2 + 32 * x3 + 16 * x4 + 8 * x5 + 4 * x6 + 2 * x7 + x8 \in Int
    BY DEF Bit
  <2>2. string2bytes(m)[j] = 128 * x1 + 64 * x2 + 32 * x3 + 16 * x4 + 8 * x5 + 4 * x6 + 2 * x7 + x8
    BY <1>1, <1>4, <1>9, Zenon
  <2> QED
    BY <2>1, <2>2, Zenon
<1>7. /\ y \in 0..255 /\ y % 256 = y
      /\ (y \div 128) % 2 = x1 /\ (y \div 64) % 2 = x2
      /\ (y \div 32) % 2 = x3 /\ (y \div 16) % 2 = x4
      /\ (y \div 8) % 2 = x5 /\ (y \div 4) % 2 = x6
      /\ (y \div 2) % 2 = x7 /\ (y \div 1) % 2 = x8
  <2>1. Composed(y, x1, x2, x3, x4, x5, x6, x7, x8)
    BY <1>6, Zenon DEF Composed
  <2>2. Separated(y, x1, x2, x3, x4, x5, x6, x7, x8)
    BY <2>1, BitsOfByte, Zenon
  <2> QED
    BY <2>2, Zenon DEF Separated
<1>8. ASSUME NEW b \in 1..8, i + b <= Len(m)
      PROVE  ((y % 256) \div Weights[b]) % 2 = m[i + b]
  <2>1. b = 1 \/ b = 2 \/ b = 3 \/ b = 4 \/ b = 5 \/ b = 6 \/ b = 7 \/ b = 8
    OBVIOUS
  <2>2. (y \div Weights[b]) % 2 = x(b)
    <3>1. /\ (y \div Weights[1]) % 2 = x(1) /\ (y \div Weights[2]) % 2 = x(2)
          /\ (y \div Weights[3]) % 2 = x(3) /\ (y \div Weights[4]) % 2 = x(4)
      BY <1>2, <1>7, <1>9, Zenon
    <3>2. /\ (y \div Weights[5]) % 2 = x(5) /\ (y \div Weights[6]) % 2 = x(6)
          /\ (y \div Weights[7]) % 2 = x(7) /\ (y \div Weights[8]) % 2 = x(8)
      BY <1>2, <1>7, <1>9, Zenon
    <3> QED
      BY <2>1, <3>1, <3>2, Zenon
  <2> QED
    BY <1>5, <1>7, <1>8, <2>2, Zenon
<1> QED
  BY <1>6, <1>7, <1>8, ZenonT(60) DEF i

(* A string of bits is found again in its bytes, also in one that is not   *)
(* full.                                                                   *)
LEMMA StringBack ==
    ASSUME NEW m \in Seq(Bit), m # << >>
    PROVE  Bytes2String(String2Bytes(m), Len(m)) = m
<1>1. PICK n \in Nat : n = Len(m) /\ n > 0
  OBVIOUS
<1>2. PICK B \in Nat : B = nbBytes(n) /\ B > 0
                       /\ \A i \in 1..n : ((i - 1) \div 8) + 1 \in 1..B
  BY <1>1 DEF nbBytes
<1> DEFINE a == string2bytes(m)
<1>3. a = [j \in 1..B |-> a[j]]
  <2>1. a = [j \in 1..nbBytes(Len(m)) |-> a[j]]
    <3> DEFINE w(i, b) == IF i + b <= Len(m) /\ m[i + b] = 1 THEN Weights[b] ELSE 0
               byte(i) == w(i, 1) + w(i, 2) + w(i, 3) + w(i, 4) + w(i, 5) + w(i, 6) + w(i, 7) + w(i, 8)
    <3>1. a = [j \in 1..nbBytes(Len(m)) |-> byte(8 * (j - 1))]
      BY Zenon DEF string2bytes
    <3> HIDE DEF w, byte, a
    <3> QED
      BY <3>1, Zenon
  <2> QED
    BY <1>1, <1>2, <2>1, Zenon
<1>4. \A j \in 1..B : a[j] \in 0..255
  BY <1>1, <1>2, BytesOfString
<1>5. ASSUME NEW i \in 1..n
      PROVE  ((a[((i - 1) \div 8) + 1] % 256) \div Weights[((i - 1) % 8) + 1]) % 2 = m[i]
  <2>1. PICK j \in Nat : j = ((i - 1) \div 8) + 1 /\ j \in 1..nbBytes(Len(m))
    <3>1. ((i - 1) \div 8) + 1 \in Nat
      OBVIOUS
    <3> QED
      BY <1>1, <1>2, <3>1, Zenon
  <2>2. PICK b \in 1..8 : b = ((i - 1) % 8) + 1
    OBVIOUS
  <2>3. 8 * (j - 1) + b = i /\ i <= Len(m)
    BY <1>1, <2>1, <2>2
  <2>4. ((a[j] % 256) \div Weights[b]) % 2 = m[8 * (j - 1) + b]
    <3>1. \A x \in 1..8 : 8 * (j - 1) + x <= Len(m) =>
             ((string2bytes(m)[j] % 256) \div Weights[x]) % 2 = m[8 * (j - 1) + x]
      BY <2>1, BytesOfString, Zenon
    <3>2. 8 * (j - 1) + b <= Len(m)
      BY <2>3, Zenon
    <3> QED
      BY <3>1, <3>2, Zenon
  <2> QED
    BY <2>1, <2>2, <2>3, <2>4, Zenon
<1> HIDE DEF a
<1>6. 1 \in 1..B /\ a[1] \in 0..255 /\ a[1] # -1
  <2>1. 1 \in 1..B
    BY <1>2
  <2>2. a[1] \in 0..255
    BY <1>4, <2>1, Zenon
  <2>3. a[1] # -1
    <3>1. \A y \in 0..255 : y # -1
      OBVIOUS
    <3> QED
      BY <2>2, <3>1, Zenon
  <2> QED
    BY <2>1, <2>2, <2>3
<1>7. a # << >> /\ a # NULL /\ DOMAIN a = 1..B
  <2>1. DOMAIN a = 1..B
    BY <1>3
  <2>2. a # << >>
    BY <1>6, <2>1
  <2>3. a # NULL
    BY <1>6 DEF NULL
  <2> QED
    BY <2>1, <2>2, <2>3
<1>8. m # NULL
  <2>1. m[1] \in Bit
    BY <1>1
  <2> QED
    BY <2>1 DEF NULL, Bit
<1>9. String2Bytes(m) = a
  BY <1>8, Zenon DEF String2Bytes, a
<1>10. n # 0
  BY <1>1
<1> DEFINE u == [j \in DOMAIN a |-> a[j] % 256]
<1>11. Bytes2String(a, n) = bytes2string(u, n)
  BY <1>7, <1>10, Zenon DEF Bytes2String
<1>12. bytes2string(u, n) = [i \in 1..n |-> (u[((i - 1) \div 8) + 1] \div Weights[((i - 1) % 8) + 1]) % 2]
  BY Zenon DEF bytes2string
<1>13. \A j \in 1..B : u[j] = a[j] % 256
  BY <1>7
<1> HIDE DEF u
<1>14. \A i \in 1..n : (u[((i - 1) \div 8) + 1] \div Weights[((i - 1) % 8) + 1]) % 2 = m[i]
  <2> TAKE i \in 1..n
  <2>1. PICK j : j = ((i - 1) \div 8) + 1
    OBVIOUS
  <2>2. j \in 1..B
    BY <1>2, <2>1, Zenon
  <2>3. u[j] = a[j] % 256
    BY <1>13, <2>2, Zenon
  <2>4. ((a[j] % 256) \div Weights[((i - 1) % 8) + 1]) % 2 = m[i]
    BY <1>5, <2>1, Zenon
  <2> QED
    BY <2>1, <2>3, <2>4, Zenon
<1>15. bytes2string(u, n) = [i \in 1..n |-> m[i]]
  BY <1>12, <1>14, Zenon
<1>16. m = [i \in 1..n |-> m[i]]
  BY <1>1
<1> QED
  BY <1>1, <1>9, <1>11, <1>15, <1>16, Zenon

(* NecEncode() and Unkn0Encode() write trains that IRBuffer.get() reads    *)
(* back sample by sample, and Bytes2String() undoes String2Bytes(), for    *)
(* strings of any length.                                                  *)
THEOREM JavaReadsBack == BindingSpec => []BytesAndBack
<1>1. ASSUME IInv PROVE BytesAndBack
  <2> SUFFICES ASSUME NEW k \in 1..Len(messages)
               PROVE  LET m == messages[k] IN
                      /\ Ints(NecEncode(m)) = nec_encode(m)
                      /\ Ints(Unkn0Encode(m)) = unkn0_encode(m)
                      /\ m # << >> => Bytes2String(String2Bytes(m), Len(m)) = m
    BY Zenon DEF BytesAndBack
  <2>1. PICK m \in Seq(Bit) : m = messages[k]
    BY <1>1 DEF IInv, TypeOK
  <2>2. m # NULL
    <3> SUFFICES ASSUME m = <<-1>> PROVE FALSE
      BY DEF NULL
    <3>1. m[1] = -1 /\ Len(m) = 1
      OBVIOUS
    <3>2. m[1] \in Bit
      BY <3>1
    <3> QED
      BY <3>1, <3>2 DEF Bit
  <2>3. NecEncode(m) = Bytes(nec_encode(m)) /\ Unkn0Encode(m) = Bytes(unkn0_encode(m))
    BY <2>2, Zenon DEF NecEncode, Unkn0Encode
  <2>4. Ints(NecEncode(m)) = nec_encode(m) /\ Ints(Unkn0Encode(m)) = unkn0_encode(m)
    BY <2>3, TrainsAreWords, IntsOfBytes
  <2> QED
    BY <2>1, <2>4, StringBack, Zenon
<1> QED
  BY <1>1, BufferInvariant, PTL

(* Whichever loop decodes, in C or in Java, what is heard whole comes      *)
(* through and each flush spoils one frame at most.                        *)
THEOREM EitherLoopIsRight == BindingSpec => [](HeardIsDecoded /\ OneWrongPerFlush)
BY HeardComesThrough, FlushSpoilsOne, JavaIsLikeC, PTL DEF LoopOfC
=============================================================================
