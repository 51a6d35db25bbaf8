---------------------------- MODULE ClientTable ----------------------------
(***************************************************************************)
(* The table of connected clients of the daemon (server.c, server.h): the  *)
(* array _clients, the number _clients_count of its entries, and the       *)
(* operations that change or read it.  The indices are the C ones, from 0. *)
(*                                                                         *)
(* Bridge composes this module with the rest of the daemon: it adds only   *)
(* descriptors that the table does not hold already (accept() returns a    *)
(* new one), and removes only entries.                                     *)
(***************************************************************************)
EXTENDS Integers, FiniteSets

CONSTANTS
    MAX_CLIENTS,        \* length of the array _clients
    Sockets             \* descriptors that accept() can return

ASSUME MaxClientsAssumption == MAX_CLIENTS \in Nat \ {0}
ASSUME SocketsAssumption == Sockets \subseteq Nat \ {0} /\ IsFiniteSet(Sockets)

VARIABLES
    clients,            \* _clients
    count               \* _clients_count

tableVars == <<clients, count>>

Slot == 0..(MAX_CLIENTS - 1)

TableInit ==
    /\ clients = [i \in Slot |-> 0]
    /\ count = 0

----------------------------------------------------------------------------
(* The entries in use, and the sockets they hold. *)
Used == {i \in Slot : i < count}
Entries == {clients[i] : i \in Used}

(* client(idx): the idx-th socket, or -1 past the last entry. *)
client(i) == IF i >= count THEN -1 ELSE clients[i]

(* A mutant of HasSlot: the last slot is never used. *)
HasSlotButLast == count < MAX_CLIENTS - 1

(* The array has a slot for one more client.  add_client() does not ask:   *)
(* its caller in Bridge says what happens without one.                     *)
HasSlot == count < MAX_CLIENTS

(* add_client(), once accept() has returned s. *)
AddClient(s) ==
    /\ clients' = [clients EXCEPT ![count] = s]
    /\ count' = count + 1

(* The flag "moveup" of remove_client() after it has looked at entry i. *)
MoveUp(s, i) == \E j \in 0..i : j < count /\ clients[j] = s

(* A mutant of RemoveClient: the last entry used is never moved up. *)
RemoveClientShort(s) ==
    /\ clients' = [i \in Slot |->
                     IF MoveUp(s, i) /\ i + 2 < count THEN clients[i + 1]
                                                      ELSE clients[i]]
    /\ count' = count - 1

(* remove_client(s): every entry after s moves up one place, and the count *)
(* drops by one whether s was found or not, but not below zero.            *)
RemoveClient(s) ==
    /\ clients' = [i \in Slot |->
                     IF MoveUp(s, i) /\ i + 1 < count THEN clients[i + 1]
                                                      ELSE clients[i]]
    /\ count' = IF count - 1 < 0 THEN 0 ELSE count - 1

----------------------------------------------------------------------------
(* The table is well formed: it counts its entries, the entries are        *)
(* sockets, and no socket is entered twice, so that a frame is sent once   *)
(* to each client and a removal removes all there is of one.               *)
TableTypeOK ==
    /\ clients \in [Slot -> Sockets \cup {0}]
    /\ count \in 0..MAX_CLIENTS

NoDuplicates == \A i, j \in Used : clients[i] = clients[j] => i = j

TableInv ==
    /\ TableTypeOK
    /\ \A i \in Used : clients[i] \in Sockets
    /\ NoDuplicates

(* The part of the array in use, as a sequence. *)
tableList == [i \in 1..count |-> clients[i - 1]]
=============================================================================
