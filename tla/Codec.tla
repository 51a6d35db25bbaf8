------------------------------- MODULE Codec -------------------------------
(***************************************************************************)
(* The two codecs of ircodec/src, nec and unkn0, on their way through the  *)
(* air: a string of bits is encoded into a train of pulses and spaces, the *)
(* train is transmitted and heard, and what is heard comes to the decoder  *)
(* in buffers that are cut anywhere.  The loop around the decoder is the   *)
(* one of nec() and unkn0() in ircodec/src/main.c, which starfrit_process  *)
(* and the Android client have too.  The loop of irbrgd comes between two  *)
(* buffers and flushes the device when it has transmitted something: what  *)
(* is discarded may be any part of what is heard, a pause included.        *)
(***************************************************************************)
EXTENDS Bitops, FiniteSetsExt

CONSTANTS
    Codecs,             \* the codecs considered
    Messages,           \* the sequences of bit strings that are sent
    BUFF_SIZE,          \* nec_DECODE_BUFF_SIZE, unkn0_DECODE_BUFF_SIZE
    MaxFlush            \* bound: flushes of the device

ASSUME CodecAssumption ==
    /\ Codecs \subseteq {"nec", "unkn0"}
    /\ Messages \subseteq Seq(Seq(Bit))
    /\ BUFF_SIZE \in Nat /\ BUFF_SIZE > 2
    /\ MaxFlush \in Nat

VARIABLES
    codec,              \* the codec in use
    messages,           \* history: the bit strings sent
    heard,              \* what the receiver hears: pulses and spaces with their length
    pos, end,           \* the decoder has come to pos in a buffer that ends at end
    buff,               \* DECODE_BUFF, up to DECODE_BUF_IDX
    frames,             \* history: DECODE_BUFF each time the decoder has returned 1,
                        \* and the sample at which it did
    flushed             \* history: the samples of each flush

vars == <<codec, messages, heard, pos, end, buff, frames, flushed>>

(* The lengths in ir_nec.h and ir_unkn0.h, in microseconds: the pause that *)
(* ends a frame, the limit between 0 and 1, the two spaces.                *)
NEC_TS == 2500
NEC_T0 == 560
NEC_T1 == 1680
NEC_TD == NEC_T0 + (NEC_T1 - NEC_T0) \div 2
NEC_THEAD == <<9000, 4500>>

UNKN0_TS == 10000
UNKN0_T0 == 500
UNKN0_T1 == 1000
UNKN0_TD == 800

----------------------------------------------------------------------------
(* Each bit is a pulse and a space; a last pulse ends the train.  No bits, *)
(* no train.                                                               *)
Train(bits, t0, t1) ==
    [i \in 1..(2 * Len(bits)) |-> IF i % 2 = 0 /\ bits[i \div 2] = 1 THEN t1 ELSE t0]
    \o <<t0>>

nec_encode(bits) ==
    IF bits = << >> THEN << >> ELSE NEC_THEAD \o Train(bits, NEC_T0, NEC_T1)

unkn0_encode(bits) ==
    IF bits = << >> THEN << >> ELSE Train(bits, UNKN0_T0, UNKN0_T1)

(* What the keys of the Linux client send: '1' and '2' switch a light, and *)
(* '3' is a weight of 88.3 kg as the scale sends it.                       *)
command(key) ==
    CASE key = 1 -> nec_encode(bytes2string(<<0, 247, 192, 63>>, 32))
      [] key = 2 -> nec_encode(bytes2string(<<0, 247, 64, 191>>, 32))
      [] key = 3 -> unkn0_encode(bytes2string(<<84, 127, 252, 140, 92>>, 39))

encode(c, bits) == IF c = "nec" THEN nec_encode(bits) ELSE unkn0_encode(bits)

(* A sample that ends no frame: a space is a bit, and is dropped if there  *)
(* is no room for it.                                                      *)
Take(bits, sample, td) ==
    IF sample.mode = "pulse" \/ Len(bits) >= BUFF_SIZE - 2 THEN bits
    ELSE Append(bits, IF sample.len > td THEN 1 ELSE 0)

(* One call of a decoder on the samples in, with bits in DECODE_BUFF: it   *)
(* stops behind the first sample that ends a frame, or when none is left.  *)
(* ends are the samples that end a frame; ret is 1 if one is in the buffer, *)
(* used how many samples are gone.                                         *)
Scan(bits, in, ends, td) ==
    LET used == IF ends = {} THEN Len(in) ELSE Min(ends)
        upTo[n \in 0..Len(in)] == IF n = 0 THEN bits ELSE Take(upTo[n - 1], in[n], td)
        buf == upTo[IF ends = {} THEN used ELSE used - 1]
    IN [ret |-> IF ends # {} /\ buf # << >> THEN 1 ELSE 0, used |-> used, buf |-> buf]

(* Also a long pulse ends a frame. *)
nec_decode(bits, in) == Scan(bits, in, {k \in DOMAIN in : in[k].len > NEC_TS}, NEC_TD)

unkn0_decode(bits, in) ==
    Scan(bits, in, {k \in DOMAIN in : in[k].mode = "space" /\ in[k].len > UNKN0_TS}, UNKN0_TD)

(* DECODE_BUF_IDX is 0 again, and no old character is left behind it. *)
nec_decode_reset == << >>
unkn0_decode_reset == << >>
decode_reset(c) == IF c = "nec" THEN nec_decode_reset ELSE unkn0_decode_reset

decode(c, bits, in) == IF c = "nec" THEN nec_decode(bits, in) ELSE unkn0_decode(bits, in)

----------------------------------------------------------------------------
(* A train as it is heard: pulses and spaces in turn, and the pause after  *)
(* the last pulse.                                                         *)
Pause == 77000
Hear(train) ==
    [i \in 1..Len(train) |-> [mode |-> IF i % 2 = 1 THEN "pulse" ELSE "space", len |-> train[i]]]
    \o (IF train = << >> THEN << >> ELSE <<[mode |-> "space", len |-> Pause]>>)

(* What is heard of the first k messages. *)
HearFirst(c, ms) ==
    LET upTo[k \in 0..Len(ms)] ==
          IF k = 0 THEN << >> ELSE upTo[k - 1] \o Hear(encode(c, ms[k]))
    IN upTo

Init ==
    /\ codec \in Codecs
    /\ messages \in Messages
    /\ heard = HearFirst(codec, messages)[Len(messages)]
    /\ pos = 0 /\ end = 0
    /\ buff = << >>
    /\ frames = << >>
    /\ flushed = << >>

----------------------------------------------------------------------------
(* What is in DECODE_BUFF of a string that was sent. *)
Clip(bits) == IF Len(bits) <= BUFF_SIZE - 2 THEN bits ELSE SubSeq(bits, 1, BUFF_SIZE - 2)

(* The next buffer: as much of what is heard as happens to be there. *)
Receive ==
    /\ pos = end
    /\ end' \in (end + 1)..Len(heard)
    /\ UNCHANGED <<codec, messages, heard, pos, buff, frames, flushed>>

(* A mutant of Decode: the decoder is reset before every buffer. *)
DecodeFresh ==
    /\ pos < end
    /\ LET d == decode(codec, buff, SubSeq(heard, pos + 1, end)) IN
         /\ pos' = pos + d.used
         /\ buff' = IF d.ret = 1 \/ pos' = end THEN << >> ELSE d.buf
         /\ frames' = IF d.ret = 1 THEN Append(frames, [bits |-> d.buf, at |-> pos']) ELSE frames
    /\ UNCHANGED <<codec, messages, heard, end, flushed>>

(* A mutant of Decode: RESET() stands where the frame has the right length. *)
DecodeKeepsOthers ==
    /\ pos < end
    /\ LET d == decode(codec, buff, SubSeq(heard, pos + 1, end)) IN
         /\ pos' = pos + d.used
         /\ buff' = IF d.ret = 1 /\ Len(d.buf) = Len(Clip(messages[1])) THEN << >> ELSE d.buf
         /\ frames' = IF d.ret = 1 THEN Append(frames, [bits |-> d.buf, at |-> pos']) ELSE frames
    /\ UNCHANGED <<codec, messages, heard, end, flushed>>

(* One call of decode(), and what the loop does with it: the frame is      *)
(* taken and the decoder reset if the call has returned 1.                 *)
Decode ==
    /\ pos < end
    /\ LET d == decode(codec, buff, SubSeq(heard, pos + 1, end)) IN
         /\ pos' = pos + d.used
         /\ buff' = IF d.ret = 1 THEN decode_reset(codec) ELSE d.buf
         /\ frames' = IF d.ret = 1 THEN Append(frames, [bits |-> d.buf, at |-> pos']) ELSE frames
    /\ UNCHANGED <<codec, messages, heard, end, flushed>>

(* "flush read (to avoid loopback)": what the device has by then is gone,  *)
(* and the decoder, unkn0 in irbrgd, is not told.  (Bound: only where      *)
(* three trains follow each other.)                                        *)
Flush ==
    /\ codec = "unkn0" /\ pos = end
    /\ Len(messages) > 2 /\ Len(flushed) < MaxFlush
    /\ end' \in (end + 1)..Len(heard)
    /\ pos' = end'
    /\ flushed' = Append(flushed, (end + 1)..end')
    /\ UNCHANGED <<codec, messages, heard, buff, frames>>

Next == Receive \/ Decode \/ Flush

Spec == Init /\ [][Next]_vars

----------------------------------------------------------------------------
(* The last sample of each message, which is the pause behind its train. *)
LastOf(k) == Len(HearFirst(codec, messages)[k])

(* A message that came through, and the end of what was before it. *)
Lost == UNION Range(flushed)
Clear(k) == messages[k] # << >> /\ \A i \in LastOf(k - 1)..LastOf(k) : i \notin Lost

Right(f, k) == f.at = LastOf(k) /\ f.bits = Clip(messages[k])

(* decode() undoes encode(), wherever the buffers are cut, however many    *)
(* trains follow each other and whatever else a flush has taken: a message *)
(* that was heard from the pause before it to its own is returned at its   *)
(* end, as it was sent, as far as it fits in DECODE_BUFF.                  *)
HeardIsDecoded ==
    \A k \in DOMAIN messages :
       Clear(k) /\ LastOf(k) <= pos => \E i \in DOMAIN frames : Right(frames[i], k)

(* Nothing else is returned, but for one frame that a flush has cut or     *)
(* joined to another: a weight that nobody had is decoded once at most for *)
(* each flush, and starfrit_process() wants SAMEVALUE_CNT repetitions.  No *)
(* part of a message is left in the buffer at the end.                     *)
OneWrongPerFlush ==
    LET wrong == {i \in DOMAIN frames : ~\E k \in DOMAIN messages : Right(frames[i], k)}
    IN /\ Cardinality(wrong) <= Len(flushed)
       /\ \A i, j \in DOMAIN frames : i < j => frames[i].at < frames[j].at
       /\ pos = Len(heard) /\ pos \notin Lost => buff = << >>

----------------------------------------------------------------------------
(* What HeardIsDecoded and OneWrongPerFlush rest on. *)

TypeOK ==
    /\ codec \in {"nec", "unkn0"} /\ messages \in Seq(Seq(Bit))
    /\ heard = HearFirst(codec, messages)[Len(messages)]
    /\ pos \in Nat /\ end \in Nat /\ pos <= end /\ end <= Len(heard)
    /\ buff \in Seq(Bit)
    /\ frames \in Seq([bits : Seq(Bit), at : Nat])
    /\ flushed \in Seq(SUBSET (1..pos))
    /\ codec = "nec" => flushed = << >>

(* The samples of message k that are no bits, and how many of its bits are *)
(* heard up to sample p.                                                   *)
Header == IF codec = "nec" THEN 2 ELSE 0
BitsUpTo(k, p) ==
    IF p < LastOf(k - 1) + Header THEN 0 ELSE (p - LastOf(k - 1) - Header) \div 2

(* The message that is being heard, and whether it comes through so far.   *)
Hears(k) == LastOf(k - 1) <= pos /\ pos < LastOf(k)
Clean(k) == \A i \in LastOf(k - 1)..pos : i \notin Lost

(* The decoder's buffer has the bits of the message heard so far, and none *)
(* of an earlier one.                                                      *)
BuffInv ==
    /\ \A k \in DOMAIN messages :
          Hears(k) /\ Clean(k) => buff = Clip(SubSeq(messages[k], 1, BitsUpTo(k, pos)))
    /\ (pos = 0 \/ \E k \in DOMAIN messages : pos = LastOf(k)) /\ pos \notin Lost => buff = << >>

(* Something was lost since the last pause that was heard. *)
Dirty == \E i \in Lost : \A k \in DOMAIN messages : ~(i < LastOf(k) /\ LastOf(k) <= pos)

Wrong == {i \in DOMAIN frames : ~\E k \in DOMAIN messages : Right(frames[i], k)}

(* A flush that has not made a wrong frame may still make one. *)
FramesInv ==
    /\ Cardinality(Wrong) + (IF Dirty THEN 1 ELSE 0) <= Len(flushed)
    /\ \A i \in DOMAIN frames : frames[i].at <= pos
    /\ \A i, j \in DOMAIN frames : i < j => frames[i].at < frames[j].at

IInv == TypeOK /\ BuffInv /\ FramesInv /\ HeardIsDecoded
=============================================================================
