------------------------------ MODULE MCScale ------------------------------
EXTENDS Scale

(* The frame of a weight as the scale sends it, of 39 bits; the last one   *)
(* of the check byte is always 0 and is not sent.                          *)
Frame(w, head, check) ==
    bytes2string(<<84, Inv(head), Inv(w \div 256), Inv(w % 256), Inv(check)>>, 39)

Good(w) == Frame(w, 128, sumFF(171 + 128 + (w \div 256) + (w % 256)))

(* A weight and none; a weight received with one bit wrong, in the high    *)
(* byte, which the check byte does not find; one with a wrong check byte,  *)
(* one that was cut, and a frame of another remote control.                *)
MCHeard == {Good(0), Good(700), Frame(956, 128, 235), Frame(700, 128, 233),
            SubSeq(Good(700), 1, 20), [i \in 1..32 |-> i % 2]}

ASSUME Good(700) = Frame(700, 128, 235)

(* Three lines of docs/db.txt that are accepted, and the one that is not:  *)
(* its sum is 512.                                                         *)
ASSUME \A f \in {<<259, 49>>, <<697, 231>>, <<763, 43>>} : IsMeasurement(Frame(f[1], 128, f[2]))
ASSUME ~IsMeasurement(Frame(723, 128, 1))

(* The figures that the Android client sends are the frames of the scale,  *)
(* but for those whose sum is 511: they have no check byte that anyone     *)
(* accepts.  The client and the daemon accept the same.                    *)
ASSUME \A w \in {0, 700, 956, 1800} : createFigure(w) = Good(w)
ASSUME \A v \in 0..1800 :
          /\ IsMeasurement(createFigure(v)) <=> 171 + 128 + (v \div 256) + (v % 256) # 511
          /\ OnDataReceived(createFigure(v)) <=> IsMeasurement(createFigure(v))
ASSUME sumFF(171 + 128 + 212) = 257
ASSUME \A check \in 0..255 : ~IsMeasurement(Frame(212, 128, check))

(* The Linux client shows every weight that the daemon accepts, and also   *)
(* one with a wrong check byte, which the daemon does not accept; what its *)
(* key '3' sends is accepted as 88.3 kg.                                   *)
ASSUME \A v \in 0..1800 : LinuxShows(createFigure(v)) = v
ASSUME LinuxShows(Frame(700, 128, 233)) = 700 /\ ~IsMeasurement(Frame(700, 128, 233))
ASSUME LET sent == bytes2string(<<84, 127, 252, 140, 92>>, 39)
       IN IsMeasurement(sent) /\ LinuxShows(sent) = 883

(* What a flush leaves of two frames may pass the check as a weight that   *)
(* nobody had: 98.1 kg out of 95.0 and 72.5.  OneWrongPerFlush of Codec    *)
(* says how often that happens.                                            *)
ASSUME LET joined == SubSeq(Good(950), 1, 24) \o SubSeq(Good(725), 25, 39)
       IN IsMeasurement(joined) /\ LinuxShows(joined) = 981

T(min, max, url) == [min |-> min, max |-> max, url |-> url]

(* The configuration that is shipped, and some that are less regular. *)
MCTriples == {<<T(0, 800, "a"), T(800, 0, "b")>>,
              <<T(700, 900, "a"), T(0, 0, NotUrl), T(900, -1, "b")>>,
              <<T(0, 0, "a"), T(701, 900, "b")>>,
              << >>}
=============================================================================
