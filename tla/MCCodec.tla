------------------------------ MODULE MCCodec ------------------------------
EXTENDS Binding

UpTo(n) == UNION {[1..k -> Bit] : k \in 0..n}

(* Every string that is longer than a byte and than the decoder's buffer   *)
(* at the longest, every pair of short ones, and some of three.            *)
MCMessages ==
    {<<m>> : m \in UpTo(9)} \cup (UpTo(2) \X UpTo(2))
    \cup {<<<<0, 1>>, <<1, 1>>, <<0, 0>>>>, <<<<1>>, <<0, 1>>, <<0, 1>>>>}

----------------------------------------------------------------------------
(* The cases of UTEST_nec() and UTEST_unkn0() that fit into the buffer: the *)
(* samples as they are in the tests, by the length of each space.          *)
Space(n) == [mode |-> "space", len |-> n]
Pulses(spaces) == [i \in 1..(2 * Len(spaces)) |->
    IF i % 2 = 1 THEN [mode |-> "pulse", len |-> 575] ELSE Space(spaces[i \div 2])]
Result(ret, used, buf) == [ret |-> ret, used |-> used, buf |-> buf]

ASSUME nec_decode(<< >>, << >>) = Result(0, 0, << >>)
ASSUME nec_decode(<< >>, <<Space(2672565)>>) = Result(0, 1, << >>)
ASSUME nec_decode(<< >>, Pulses(<<514, 1624>>) \o <<Space(2672565)>>) = Result(1, 5, <<0, 1>>)
ASSUME nec_decode(<< >>, Pulses(<<514, 1624, 531, 1680>>)) = Result(0, 8, <<0, 1, 0, 1>>)
ASSUME nec_decode(<<0, 1, 0, 1>>, Pulses(<<1634, 1603, 510>>) \o <<Space(77000)>>)
          = Result(1, 7, <<0, 1, 0, 1, 1, 1, 0>>)
ASSUME nec_decode(<< >>, <<[mode |-> "pulse", len |-> 8825], Space(4407)>>) = Result(0, 1, << >>)
ASSUME nec_encode(<<1, 1, 0>>) = <<9000, 4500, 560, 1680, 560, 1680, 560, 560, 560>>

ASSUME unkn0_decode(<< >>, Pulses(<<1000, 1000, 500, 1000>>)) = Result(0, 8, <<1, 1, 0, 1>>)
ASSUME unkn0_decode(<<1, 1, 0, 1>>, Pulses(<<1000, 1000, 500, 500>>) \o <<Space(77000)>>)
          = Result(1, 9, <<1, 1, 0, 1, 1, 1, 0, 0>>)
ASSUME LET in == Pulses(<<1000, 1000, 500>>) \o <<Space(77000)>> \o Pulses(<<500>>)
       IN unkn0_decode(<< >>, in) = Result(1, 7, <<1, 1, 0>>)
ASSUME unkn0_encode(<<1, 1, 0>>) = <<500, 1000, 500, 1000, 500, 500, 500>>
ASSUME nec_encode(<< >>) = << >> /\ unkn0_encode(<< >>) = << >>
(* The device takes a train of an odd length.  Every command of the Linux  *)
(* client is one, and no two of them are that arrive together: the daemon  *)
(* writes what one recv() has returned.                                    *)
ASSUME \A k \in 1..3 : Len(command(k)) % 2 = 1
ASSUME \A j, k \in 1..3 : Len(command(j) \o command(k)) % 2 = 0
=============================================================================
