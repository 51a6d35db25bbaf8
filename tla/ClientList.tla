---------------------------- MODULE ClientList ----------------------------
(***************************************************************************)
(* What the daemon's client table promises: an ordered list of the sockets *)
(* that are connected, without repetition.  A socket joins at the end; a   *)
(* socket that leaves takes only itself out and the others keep their      *)
(* order.  The table in server.c implements it with an array and a count.  *)
(***************************************************************************)
EXTENDS Naturals, Sequences

CONSTANT Sockets        \* the descriptors a connection can have

VARIABLES
    list,               \* the connected sockets, oldest first
    up                  \* the sockets that are connected

Init == list = << >> /\ up = {}

Join(s) ==
    /\ s \notin up
    /\ up' = up \cup {s}
    /\ list' = Append(list, s)

(* The list without its k-th element. *)
Without(k) == [i \in 1..(Len(list) - 1) |-> IF i < k THEN list[i] ELSE list[i + 1]]

Leave(s) ==
    /\ up' = up \ {s}
    /\ \E k \in 1..Len(list) :
        /\ list[k] = s
        /\ list' = Without(k)

Next == \E s \in Sockets : Join(s) \/ Leave(s)

Spec == Init /\ [][Next]_<<list, up>>
=============================================================================
