------------------------------ MODULE Binding ------------------------------
(***************************************************************************)
(* The codecs as Java has them: ircodec/projects/android, jni/ircodec.c    *)
(* and IRBuffer.java.  Samples cross the border as bytes of an IRBuffer,   *)
(* which each call copies into memory of C and replaces by what the        *)
(* decoder has left; bits cross it as strings and as arrays of int.        *)
(*                                                                         *)
(* What is heard is given to one of two callers of the codecs, the loop in *)
(* C that Codec has, or the same loop in Java.                             *)
(***************************************************************************)
EXTENDS Codec

VARIABLES
    caller,             \* "C" or "Java"
    ir                  \* the IRBuffer of the loop in Java

bindingVars == <<vars, caller, ir>>

(* No object: neither a string of bits nor an array of bytes. *)
NULL == <<-1>>

(* 1 << 0, 1 << 8, 1 << 16 and 1 << 24 *)
ByteWeights == <<1, 256, 256 * 256, 256 * 256 * 256>>

(* A Java byte is signed. *)
ByteOf(x) == IF x % 256 < 128 THEN x % 256 ELSE (x % 256) - 256
Unsigned(b) == IF b < 0 THEN b + 256 ELSE b

(* lirc_t, of 32 bits: PULSE_BIT and the length; the first byte in memory *)
(* is the lowest.                                                         *)
PULSE_BIT == 256 * 256 * 256
Word(s) == (IF s.mode = "pulse" THEN PULSE_BIT ELSE 0) + s.len
SampleOf(w) ==
    [mode |-> IF (w \div PULSE_BIT) % 2 = 1 THEN "pulse" ELSE "space", len |-> w % PULSE_BIT]

----------------------------------------------------------------------------
(* IRBuffer.java *)

IRBuffer(n) == [buffer |-> [i \in 1..(4 * n) |-> 0], len |-> 0]

put(b, pos4, v) ==
    [buffer |-> [b.buffer EXCEPT ![4 * pos4 + 1] = ByteOf(v),
                                 ![4 * pos4 + 2] = ByteOf(v \div ByteWeights[2]),
                                 ![4 * pos4 + 3] = ByteOf(v \div ByteWeights[3]),
                                 ![4 * pos4 + 4] = ByteOf(v \div ByteWeights[4])],
     len |-> b.len + 4]

(* A mutant of FourBytesToInt: the sign of a byte is left in the int. *)
FourBytesToIntSigned(bytes, pos4) ==
    LET b(t) == bytes[4 * pos4 + t] * ByteWeights[t] IN b(1) + b(2) + b(3) + b(4)

FourBytesToInt(bytes, pos4) ==
    LET b(t) == Unsigned(bytes[4 * pos4 + t]) * ByteWeights[t] IN b(1) + b(2) + b(3) + b(4)

(* All the samples of what C has written, and of what Java has filled in. *)
Ints(bytes) == [i \in 1..(Len(bytes) \div 4) |-> FourBytesToInt(bytes, i - 1)]
Filled(ints) ==
    LET upTo[n \in 0..Len(ints)] ==
          IF n = 0 THEN IRBuffer(Len(ints)) ELSE put(upTo[n - 1], n - 1, ints[n])
    IN upTo[Len(ints)]

----------------------------------------------------------------------------
(* The helpers of ircodec.c *)

(* The whole array is copied, and the length is taken from the field. *)
IRBuffer_read(b) == [bytes |-> b.buffer, len |-> b.len]

(* A new array of the bytes that are left; an empty one if there are none. *)
IRBuffer_write(bytes, size) ==
    [buffer |-> SubSeq(bytes, 1, size), len |-> size]

(* lirc_t words as the processor sees them in the copied bytes. *)
Memory(bytes, n) ==
    LET b(i, t) == (bytes[4 * (i - 1) + t] % 256) * ByteWeights[t]
    IN [i \in 1..n |-> SampleOf(b(i, 1) + b(i, 2) + b(i, 3) + b(i, 4))]

Bytes(words) ==
    [i \in 1..(4 * Len(words)) |->
        ByteOf(words[((i - 1) \div 4) + 1] \div ByteWeights[((i - 1) % 4) + 1])]

----------------------------------------------------------------------------
(* The native methods.  Each pair differs in the codec alone. *)

Unkn0Encode(bits) == IF bits = NULL THEN NULL ELSE Bytes(unkn0_encode(bits))
NecEncode(bits) == IF bits = NULL THEN NULL ELSE Bytes(nec_encode(bits))

(* A mutant of Written: the pointer that is written back is the one that  *)
(* IRBuffer_read() returned, not the one the decoder has moved.           *)
WrittenUnmoved(in, used) == IRBuffer_write(in.bytes, in.len - 4 * used)

(* What is behind the samples that the decoder has used. *)
Written(in, used) ==
    IRBuffer_write(SubSeq(in.bytes, 4 * used + 1, Len(in.bytes)), in.len - 4 * used)

Unkn0Decode(bits, b) ==
    LET in == IRBuffer_read(b)
        d == unkn0_decode(bits, Memory(in.bytes, in.len \div 4))
    IN [ret |-> d.ret, buf |-> d.buf, ir |-> Written(in, d.used)]

NecDecode(bits, b) ==
    LET in == IRBuffer_read(b)
        d == nec_decode(bits, Memory(in.bytes, in.len \div 4))
    IN [ret |-> d.ret, buf |-> d.buf, ir |-> Written(in, d.used)]

(* The decoder's buffer is emptied. *)
Unkn0DecodeReset == unkn0_decode_reset
NecDecodeReset == nec_decode_reset

(* A string of what is in the decoder's buffer. *)
Unkn0DecodedBuff(bits) == bits
NecDecodedBuff(bits) == bits

(* Each byte becomes an int.  The code allocates one byte for each int on   *)
(* the way and writes four: what that overwrites is not modelled.          *)
String2Bytes(bits) == IF bits = NULL THEN NULL ELSE string2bytes(bits)

(* Each int becomes a byte; nothing is returned for nothing. *)
Bytes2String(array, nbbits) ==
    IF array = NULL \/ array = << >> \/ nbbits = 0 THEN NULL
    ELSE bytes2string([i \in DOMAIN array |-> array[i] % 256], nbbits)

----------------------------------------------------------------------------
BindingInit ==
    /\ Init
    /\ caller \in {"C", "Java"}
    /\ ir = IRBuffer(0)

InC ==
    /\ caller = "C"
    /\ Receive \/ Decode \/ Flush
    /\ UNCHANGED <<caller, ir>>

(* The samples that are there are put into a new IRBuffer. *)
JavaReceives ==
    /\ caller = "Java"
    /\ Receive
    /\ ir' = Filled([i \in 1..(end' - end) |-> Word(heard[end + i])])
    /\ UNCHANGED caller

(* One turn of the loop while the IRBuffer has something. *)
JavaDecodes ==
    /\ caller = "Java"
    /\ ir.len > 0
    /\ LET nec == codec = "nec"
           d == IF nec THEN NecDecode(buff, ir) ELSE Unkn0Decode(buff, ir)
           frame == IF nec THEN NecDecodedBuff(d.buf) ELSE Unkn0DecodedBuff(d.buf)
           empty == IF nec THEN NecDecodeReset ELSE Unkn0DecodeReset
       IN /\ ir' = d.ir
          /\ pos' = end - d.ir.len \div 4
          /\ buff' = IF d.ret = 1 THEN empty ELSE d.buf
          /\ frames' = IF d.ret = 1 THEN Append(frames, [bits |-> frame, at |-> pos']) ELSE frames
    /\ UNCHANGED <<codec, messages, heard, end, flushed, caller>>

BindingNext == InC \/ JavaReceives \/ JavaDecodes

BindingSpec == BindingInit /\ [][BindingNext]_bindingVars

----------------------------------------------------------------------------
(* The loop in Java does what the loop in C does: each turn, seen without  *)
(* the IRBuffer, is the one call of decode() that it stands for, on the    *)
(* samples that are left, and what the decoder has not used stays there.   *)
LoopOfC == Spec

(* What it rests on: the IRBuffer has the samples between pos and end.     *)
BufferInv ==
    caller = "Java" =>
       /\ ir.buffer \in Seq(Int)
       /\ ir.len = 4 * (end - pos) /\ Len(ir.buffer) = ir.len
       /\ Memory(ir.buffer, end - pos) = SubSeq(heard, pos + 1, end)

(* Stated where nothing has been received: it depends on messages alone.   *)
(* What Java encodes it can read back: the trains come out of NecEncode()  *)
(* and Unkn0Encode() as the samples of the codec, whatever bytes they are  *)
(* made of, and String2Bytes() is undone by Bytes2String(), also when the  *)
(* last byte is not full.                                                  *)
BytesAndBack ==
    end = 0 => \A k \in 1..Len(messages) :
       LET m == messages[k] IN
          /\ Ints(NecEncode(m)) = nec_encode(m)
          /\ Ints(Unkn0Encode(m)) = unkn0_encode(m)
          /\ m # << >> => Bytes2String(String2Bytes(m), Len(m)) = m
=============================================================================
