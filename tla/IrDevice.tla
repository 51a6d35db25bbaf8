------------------------------ MODULE IrDevice ------------------------------
(***************************************************************************)
(* The infrared device /dev/lirc0 as the daemon uses it (main.c of         *)
(* irbrgd): a receiver whose frames wait to be read and a transmitter that *)
(* takes a train of an odd number of samples, pulse first and pulse last.  *)
(* The receiver stands beside the transmitter and hears what is sent; this *)
(* is the loopback the daemon flushes.  The driver is not code of src/.    *)
(*                                                                         *)
(* A frame heard from the air is its number, from 1; the daemon's own      *)
(* transmission heard again is Echo.                                       *)
(***************************************************************************)
EXTENDS Naturals, Sequences

CONSTANTS
    MaxAir,             \* bound: frames heard from the air in all
    IrBuf               \* frames one read() of the device returns at most

ASSUME IrAssumption == MaxAir \in Nat /\ IrBuf \in Nat \ {0}

VARIABLES
    lircq,              \* frames received and not yet read
    echo,               \* a transmission is still to be heard
    air                 \* number of frames heard from the air

irVars == <<lircq, echo, air>>

Echo == 0

IrTypeOK ==
    /\ lircq \in Seq(Nat)
    /\ echo \in BOOLEAN
    /\ air \in Nat

IrInit ==
    /\ lircq = << >>
    /\ echo = FALSE
    /\ air = 0

(* A remote control, or the scale, is heard. *)
AirFrame ==
    /\ air < MaxAir
    /\ air' = air + 1
    /\ lircq' = Append(lircq, air + 1)
    /\ UNCHANGED echo

(* The end of the last transmission: the receiver has heard it, or has not. *)
EchoEnds ==
    /\ echo
    /\ echo' = FALSE
    /\ \/ lircq' = Append(lircq, Echo)
       \/ UNCHANGED lircq
    /\ UNCHANGED air

(* read() returns what is there, up to the size of the caller's buffer. *)
ReadCount == IF Len(lircq) <= IrBuf THEN Len(lircq) ELSE IrBuf
Frames == SubSeq(lircq, 1, ReadCount)
Unread == SubSeq(lircq, ReadCount + 1, Len(lircq))

(* write() of n samples is refused unless the train ends with a pulse. *)
Accepts(n) == n % 2 = 1
=============================================================================
