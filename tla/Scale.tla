------------------------------- MODULE Scale -------------------------------
(***************************************************************************)
(* The bathroom scale (starfrit.c): frames that the decoder has found are  *)
(* checked, the same weight has to be heard several times in a row, and is *)
(* then posted to the targets of the configuration.                        *)
(*                                                                         *)
(* Weights are in tenths of a kilogram, as they are in a frame; the float  *)
(* that starfrit_process() divides them into is never rounded to another.  *)
(***************************************************************************)
EXTENDS Bitops, SequencesExt

CONSTANTS
    SAMEVALUE_CNT,      \* repetitions that a weight needs
    TimeOut,            \* seconds after which it starts anew (15)
    Heard,              \* the bit strings that the decoder may return
    Urls,               \* URLs of targets
    Triples,            \* the contents of starfrit_url: triples min;max;url
    MaxTime,            \* bound of the clock
    MaxFrames           \* bound: frames that are accepted

(* What is no URL. *)
NotUrl == "text"

Triple == [min : Int, max : Int, url : Urls \cup {NotUrl}]

ASSUME ScaleAssumption ==
    /\ SAMEVALUE_CNT \in Nat \ {0} /\ TimeOut \in Nat
    /\ Heard \subseteq Seq(Bit)
    /\ NotUrl \notin Urls /\ Triples \subseteq Seq(Triple)
    /\ MaxTime \in Nat /\ MaxFrames \in Nat

VARIABLES
    last_measurement,   \* the weight that is being repeated, -1 if none
    samevalue_count,    \* how often it was repeated
    last_measurement_date,
    triples,            \* history: what is configured
    starfritconf,       \* the targets
    accepted,           \* history: weight and time of each frame that was accepted
    posts               \* history: what was posted, where, and after which frame

vars == <<last_measurement, samevalue_count, last_measurement_date, triples,
          starfritconf, accepted, posts>>

----------------------------------------------------------------------------
(* starfrit_setup(): the fields between the semicolons, three by three.  A *)
(* field is a number (0 if it is none) or a URL; a URL field that is not   *)
(* one drops its triple.                                                   *)

Number(x) == [num |-> x, url |-> NotUrl]
Fields(t) == <<Number(t.min), Number(t.max), [num |-> 0, url |-> t.url]>>
AllFields(ts) == [i \in 1..(3 * Len(ts)) |-> Fields(ts[((i - 1) \div 3) + 1])[((i - 1) % 3) + 1]]
NotBelow0(x) == IF x < 0 THEN 0 ELSE x

(* A mutant of SetupField: a dropped triple does not use up its third field. *)
SetupFieldStays(conf, field) ==
    CASE conf.n % 3 = 0 -> [conf EXCEPT !.n = @ + 1, !.min = NotBelow0(field.num)]
      [] conf.n % 3 = 1 -> [conf EXCEPT !.n = @ + 1, !.max = NotBelow0(field.num)]
      [] conf.n % 3 = 2 /\ field.url # NotUrl ->
           [conf EXCEPT !.n = @ + 1,
                        !.list = Append(@, [min |-> conf.min, max |-> conf.max, url |-> field.url])]
      [] OTHER -> conf

SetupField(conf, field) ==
    CASE conf.n % 3 = 0 -> [conf EXCEPT !.n = @ + 1, !.min = NotBelow0(field.num)]
      [] conf.n % 3 = 1 -> [conf EXCEPT !.n = @ + 1, !.max = NotBelow0(field.num)]
      [] conf.n % 3 = 2 /\ field.url # NotUrl ->
           [conf EXCEPT !.n = @ + 1,
                        !.list = Append(@, [min |-> conf.min, max |-> conf.max, url |-> field.url])]
      [] OTHER -> [conf EXCEPT !.n = @ + 1]

starfrit_setup(fields) ==
    FoldLeft(SetupField, [n |-> 0, min |-> 0, max |-> 0, list |-> << >>], fields).list

Init ==
    /\ last_measurement = -1
    /\ samevalue_count = 0
    /\ last_measurement_date = 0
    /\ triples \in Triples
    /\ starfritconf = starfrit_setup(AllFields(triples))
    /\ accepted = << >>
    /\ posts = << >>

----------------------------------------------------------------------------
(* The frame is inverted: 0x54 is the trail 0xAB. *)
Inv(b) == 255 - b

Odd(x) == IF x % 2 = 0 THEN x + 1 ELSE x

(* The check byte of a frame whose other bytes sum up to sum. *)
sumFF(sum) ==
    LET s == Odd(sum % 256) IN IF sum - s >= 256 THEN s + 2 ELSE s

(* The frame has five bytes, the last of which checks the others. *)
IsMeasurement(bits) ==
    LET b == string2bytes(bits) IN
       /\ Len(b) = 5
       /\ b[1] = 84
       /\ Inv(b[5]) = sumFF(Inv(b[1]) + Inv(b[2]) + Inv(b[3]) + Inv(b[4]))

(* The bit strings that are taken for a weight, and the weight. *)
Measurements == {bits \in Heard : IsMeasurement(bits)}
Weight == [bits \in Measurements |-> LET b == string2bytes(bits) IN 256 * Inv(b[3]) + Inv(b[4])]

(* What the Android client makes of a frame: OnDataReceived() has the same *)
(* check, of 39 bits, and createFigure() sends an angle as a weight.       *)
OnDataReceived(bits) ==
    LET b == string2bytes(bits) IN
       /\ Len(bits) = 39
       /\ b[1] = 84
       /\ sumFF(Inv(b[1]) + Inv(b[2]) + Inv(b[3]) + Inv(b[4])) = Inv(b[5])

(* What the Linux client prints of a frame: its main() looks at the number *)
(* of bits and at the first byte, and not at the check byte.  -1: nothing. *)
LinuxShows(bits) ==
    LET b == string2bytes(bits) IN
    IF Len(bits) = 39 /\ Inv(b[1]) = 171 THEN 256 * Inv(b[3]) + Inv(b[4]) ELSE -1

createFigure(v) ==
    LET data == <<171, 128, (v \div 256) % 256, v % 256>>
        check == sumFF(data[1] + data[2] + data[3] + data[4])
    IN bytes2string([i \in 1..5 |-> Inv(IF i = 5 THEN check % 256 ELSE data[i])], 39)

(* A mutant of Selected: a limit of 0 is a limit. *)
SelectedLimit(t, w) == t.min <= w /\ t.max > w

Selected(t, w) == (t.min <= 0 \/ t.min <= w) /\ (t.max <= 0 \/ t.max > w)

(* The targets in turn: each whose limits allow it is posted to. *)
Push(done, t, w) ==
    IF Selected(t, w)
      THEN Append(done, [url |-> t.url, weight |-> w, at |-> Len(accepted) + 1])
      ELSE done

push_measurement(w) == FoldLeft(LAMBDA done, t : Push(done, t, w), posts, starfritconf)

(* A mutant of TimedOut: there is no time-out. *)
TimedOutNever(t) == FALSE

TimedOut(t) == t - last_measurement_date > TimeOut

(* A weight that is repeated. *)
Repeats(w, t) == ~TimedOut(t) /\ last_measurement = w

(* starfrit_process(), for a frame the decoder has returned.  Frames that  *)
(* are no measurement change nothing.  The time t is whatever time() says: *)
(* the clock of a Raspberry is also set back and forth.                    *)
Measure(bits, t) ==
    /\ bits \in Measurements
    /\ Len(accepted) < MaxFrames
    /\ LET w == Weight[bits]
           n == IF Repeats(w, t) THEN samevalue_count + 1 ELSE 0
       IN /\ last_measurement' = w
          /\ samevalue_count' = n
          /\ posts' = IF Repeats(w, t) /\ n = SAMEVALUE_CNT /\ w # 0 THEN push_measurement(w) ELSE posts
          /\ accepted' = Append(accepted, [weight |-> w, time |-> t])
    /\ last_measurement_date' = t
    /\ UNCHANGED <<triples, starfritconf>>

Next == \E bits \in Heard, t \in 0..MaxTime : Measure(bits, t)

Spec == Init /\ [][Next]_vars

----------------------------------------------------------------------------
(* Frames i to k are the same weight, each heard within the time-out of    *)
(* the one before.                                                         *)
Streak(i, k) ==
    /\ i \in DOMAIN accepted
    /\ \A j \in i..k : accepted[j].weight = accepted[k].weight
    /\ \A j \in (i + 1)..k : accepted[j].time - accepted[j - 1].time <= TimeOut

(* A weight is posted when it has been heard for the SAMEVALUE_CNT-th time *)
(* after the first, once for as long as it is repeated, and never without  *)
(* that many frames in a row, whatever else is heard in between.           *)
Due(k) ==
    /\ accepted[k].weight # 0
    /\ Streak(k - SAMEVALUE_CNT, k)
    /\ ~Streak(k - SAMEVALUE_CNT - 1, k)

PostsWhenDue ==
    \A k \in DOMAIN accepted :
       (\E i \in DOMAIN posts : posts[i].at = k)
          <=> /\ Due(k)
              /\ \E i \in DOMAIN starfritconf : Selected(starfritconf[i], accepted[k].weight)

(* The ways to match the numbers in S with those in T, one by one and in   *)
(* order.                                                                  *)
InOrder(S, T) ==
    {f \in [S -> T] : /\ \A j \in T : \E i \in S : f[i] = j
                      /\ \A i, j \in S : i < j => f[i] < f[j]}

(* The posts of a frame. *)
Made(k) == {i \in DOMAIN posts : posts[i].at = k}

(* "if a measurement is between min and max post result on url",           *)
(* irbrgd.conf, where 0 is no limit: a weight that is due is posted once   *)
(* for each triple whose limits allow it, in their order, and to no other, *)
(* as it was heard.                                                        *)
PostsToTargets ==
    \A k \in DOMAIN accepted :
       LET w == accepted[k].weight
           Wants(t) == /\ t.url # NotUrl
                       /\ t.min <= 0 \/ w >= t.min
                       /\ t.max <= 0 \/ w < t.max
       IN Due(k) \/ Made(k) # {} =>
             \E f \in InOrder(Made(k), {i \in DOMAIN triples : Wants(triples[i])}) :
                \A i \in Made(k) : posts[i].weight = w /\ posts[i].url = triples[f[i]].url

(* Every URL that is configured becomes a target with its own limits, and  *)
(* a triple that names none does not disturb the others.                   *)
TargetsAsConfigured ==
    \E f \in InOrder(DOMAIN starfritconf, {i \in DOMAIN triples : triples[i].url # NotUrl}) :
       \A i \in DOMAIN starfritconf :
          LET t == triples[f[i]] IN
          starfritconf[i] = [min |-> NotBelow0(t.min), max |-> NotBelow0(t.max), url |-> t.url]

----------------------------------------------------------------------------
(* What PostsWhenDue and PostsToTargets rest on. *)

Target == [min : Nat, max : Nat, url : Urls]
Post == [url : Urls, weight : Nat, at : Nat]

TypeOK ==
    /\ last_measurement \in Int /\ samevalue_count \in Nat /\ last_measurement_date \in Nat
    /\ triples \in Seq(Triple) /\ starfritconf \in Seq(Target)
    /\ accepted \in Seq([weight : Nat, time : Nat])
    /\ posts \in Seq(Post)

(* The count is the length of the streak that the last frame is in. *)
CountInv ==
    LET last == Len(accepted) IN
    IF last = 0 THEN last_measurement = -1
    ELSE /\ last_measurement = accepted[last].weight
         /\ last_measurement_date = accepted[last].time
         /\ Streak(last - samevalue_count, last)
         /\ ~Streak(last - samevalue_count - 1, last)

(* The targets that are to get the weight of a frame. *)
Chosen(k) == {i \in DOMAIN starfritconf : Due(k) /\ Selected(starfritconf[i], accepted[k].weight)}

(* Each frame is posted to the targets that are to get it, in their order. *)
Posted(k) ==
    \E f \in InOrder(Made(k), Chosen(k)) :
       \A i \in Made(k) : /\ posts[i].weight = accepted[k].weight
                         /\ posts[i].url = starfritconf[f[i]].url

PostedInv ==
    /\ \A i \in DOMAIN posts : posts[i].at \in DOMAIN accepted
    /\ \A k \in DOMAIN accepted : Posted(k)

IInv == TypeOK /\ CountInv /\ PostedInv /\ TargetsAsConfigured
=============================================================================
