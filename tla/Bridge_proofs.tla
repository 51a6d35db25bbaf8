---------------------------- MODULE Bridge_proofs ----------------------------
(***************************************************************************)
(* The safety properties of the daemon's loop, for any number of clients   *)
(* and descriptors and any bounds: IInv is inductive, and the properties   *)
(* follow from it.                                                         *)
(***************************************************************************)
EXTENDS BridgeProperties, SequenceTheorems, FiniteSetTheorems, TLAPS

----------------------------------------------------------------------------
(* What add_client() and remove_client() do to the client table, for every *)
(* size of the array and every set of descriptors: they keep it well       *)
(* formed, and they are the operations of the ordered list of ClientList.  *)

(* add_client() of a socket that is not in the table keeps it well formed. *)
LEMMA AddKeepsTable ==
    ASSUME TableInv, NEW s \in Sockets, s \notin Entries, HasSlot, AddClient(s)
    PROVE  /\ TableInv'
           /\ Entries' = Entries \cup {s}
<1> USE MaxClientsAssumption DEF Slot, Used
<1>1. /\ count \in Slot
      /\ count' = count + 1
      /\ count' \in 0..MAX_CLIENTS
      /\ clients' \in [Slot -> Sockets \cup {0}]
      /\ clients'[count] = s
      /\ \A i \in Slot : i # count => clients'[i] = clients[i]
  BY DEF TableInv, TableTypeOK, HasSlot, AddClient
<1>2. Used' = Used \cup {count}
  BY <1>1 DEF TableInv, TableTypeOK
<1>3. \A i \in Used : i # count /\ clients'[i] = clients[i] /\ clients[i] # s
  BY <1>1 DEF Entries
<1>4. Entries' = Entries \cup {s}
  BY <1>1, <1>2, <1>3 DEF Entries
<1>5. NoDuplicates'
  BY <1>1, <1>2, <1>3 DEF TableInv, NoDuplicates
<1>6. \A i \in Used' : clients'[i] \in Sockets
  BY <1>1, <1>2, <1>3 DEF TableInv
<1>7. TableTypeOK'
  BY <1>1 DEF TableTypeOK
<1> QED
  BY <1>4, <1>5, <1>6, <1>7 DEF TableInv

(* What remove_client() of an entry does, without its flag: entry k is the *)
(* one removed, and those after it move up one place.                      *)
LEMMA RemoveShifts ==
    ASSUME TableInv, NEW k \in Used, RemoveClient(clients[k])
    PROVE  /\ count' = count - 1
           /\ clients' \in [Slot -> Sockets \cup {0}]
           /\ \A i \in Slot : i < k => clients'[i] = clients[i]
           /\ \A i \in Slot : i >= k /\ i + 1 < count => clients'[i] = clients[i + 1]
<1> USE MaxClientsAssumption DEF Slot, Used
<1>1. count' = count - 1
  BY DEF RemoveClient, TableInv, TableTypeOK
<1>2. ASSUME NEW i \in Slot, i < k
      PROVE  ~MoveUp(clients[k], i)
  BY <1>2 DEF MoveUp, TableInv, TableTypeOK, NoDuplicates
<1>3. ASSUME NEW i \in Slot, i >= k
      PROVE  MoveUp(clients[k], i)
  BY <1>3 DEF MoveUp, TableInv, TableTypeOK
<1>4. clients' = [i \in Slot |->
                    IF MoveUp(clients[k], i) /\ i + 1 < count THEN clients[i + 1]
                                                              ELSE clients[i]]
  BY DEF RemoveClient
<1>5. clients' \in [Slot -> Sockets \cup {0}]
  <2>1. \A i \in Slot : i + 1 < count => i + 1 \in Slot
    BY DEF TableInv, TableTypeOK
  <2> QED
    BY <1>4, <2>1 DEF TableInv, TableTypeOK
<1> QED
  BY <1>1, <1>2, <1>3, <1>4, <1>5

(* remove_client() of an entry keeps the table well formed, and takes only *)
(* that entry out.                                                         *)
LEMMA RemoveKeepsTable ==
    ASSUME TableInv, NEW s \in Entries, RemoveClient(s)
    PROVE  /\ TableInv'
           /\ Entries' = Entries \ {s}
<1> USE MaxClientsAssumption DEF Slot, Used
<1>1. PICK k \in Used : clients[k] = s
  BY DEF Entries
<1>2. /\ count' = count - 1
      /\ clients' \in [Slot -> Sockets \cup {0}]
      /\ \A i \in Slot : i < k => clients'[i] = clients[i]
      /\ \A i \in Slot : i >= k /\ i + 1 < count => clients'[i] = clients[i + 1]
  BY <1>1, RemoveShifts
<1>3. count \in 0..MAX_CLIENTS /\ k < count
  BY DEF TableInv, TableTypeOK
<1>4. \A i \in Used' : i \in Used /\ i + 1 \in Used
  BY <1>2, <1>3
<1>5. \A i \in Used : i # k => clients[i] # s
  BY <1>1 DEF TableInv, NoDuplicates
<1>6. \A i \in Used' : clients'[i] = IF i < k THEN clients[i] ELSE clients[i + 1]
  BY <1>2, <1>3, <1>4
<1>7. NoDuplicates'
  <2> SUFFICES ASSUME NEW i \in Used', NEW j \in Used', clients'[i] = clients'[j]
               PROVE  i = j
    BY DEF NoDuplicates
  <2>1. CASE i < k /\ j < k
    BY <2>1, <1>4, <1>6 DEF TableInv, NoDuplicates
  <2>2. CASE i < k /\ j >= k
    BY <2>2, <1>4, <1>6 DEF TableInv, NoDuplicates
  <2>3. CASE i >= k /\ j < k
    BY <2>3, <1>4, <1>6 DEF TableInv, NoDuplicates
  <2>4. CASE i >= k /\ j >= k
    <3>1. clients[i + 1] = clients[j + 1]
      BY <2>4, <1>4, <1>6
    <3>2. i + 1 = j + 1
      BY <3>1, <1>4 DEF TableInv, NoDuplicates
    <3> QED
      BY <3>2
  <2> QED
    BY <2>1, <2>2, <2>3, <2>4
<1>8. \A i \in Used' : clients'[i] \in Entries \ {s}
  BY <1>3, <1>4, <1>5, <1>6 DEF Entries
<1>9. Entries' = Entries \ {s}
  <2>1. Entries' \subseteq Entries \ {s}
    BY <1>8 DEF Entries
  <2>2. ASSUME NEW t \in Entries, t # s
        PROVE  t \in Entries'
    <3>1. PICK j \in Used : clients[j] = t
      BY DEF Entries
    <3>2. CASE j < k
      BY <3>1, <3>2, <1>2, <1>3 DEF Entries
    <3>3. CASE j > k
      <4>1. j - 1 \in Used' /\ j - 1 >= k /\ (j - 1) + 1 = j
        BY <3>3, <1>2, <1>3
      <4>2. clients'[j - 1] = t
        BY <3>1, <4>1, <1>6
      <4> QED
        BY <4>1, <4>2 DEF Entries
    <3> QED
      BY <3>1, <3>2, <3>3, <1>1, <2>2
  <2> QED
    BY <2>1, <2>2
<1>10. TableTypeOK'
  BY <1>2, <1>3 DEF TableTypeOK
<1>11. \A i \in Used' : clients'[i] \in Sockets
  BY <1>4, <1>6 DEF TableInv
<1> QED
  BY <1>7, <1>9, <1>10, <1>11 DEF TableInv

(* The count never exceeds the number of sockets in the table. *)
LEMMA CountIsEntries ==
    ASSUME TableInv, NEW S, Entries \subseteq S, IsFiniteSet(S)
    PROVE  count <= Cardinality(S)
<1> DEFINE f == [i \in 1..count |-> clients[i - 1]]
<1> USE MaxClientsAssumption DEF Slot, Used
<1>1. count \in Nat
  BY DEF TableInv, TableTypeOK
<1>2. \A i \in 1..count : i - 1 \in Used
  BY DEF TableInv, TableTypeOK
<1>3. f \in [1..count -> S]
  BY <1>2 DEF Entries
<1>4. \A i, j \in 1..count : f[i] = f[j] => i = j
  BY <1>1, <1>2 DEF TableInv, NoDuplicates
<1>5. f \in Injection(1..count, S)
  BY <1>3, <1>4 DEF Injection, IsInjective
<1>6. Cardinality(1..count) <= Cardinality(S)
  BY <1>5, FS_Injection
<1>7. Cardinality(1..count) = count
  BY <1>1, FS_Interval
<1> QED
  BY <1>6, <1>7

----------------------------------------------------------------------------
(* What the operations do to the part of the array in use.                 *)

LEMMA AddAppends ==
    ASSUME TableInv, NEW s \in Sockets, HasSlot, AddClient(s)
    PROVE  tableList' = Append(tableList, s)
<1> USE MaxClientsAssumption DEF Slot, Used
<1>1. /\ count \in Nat
      /\ count' = count + 1
      /\ clients'[count] = s
      /\ \A i \in 0..(count - 1) : i \in Used /\ clients'[i] = clients[i]
  BY DEF TableInv, TableTypeOK, HasSlot, AddClient
<1>2. Len(tableList) = count /\ tableList \in Seq(Sockets)
  BY <1>1 DEF tableList, TableInv
<1>3. tableList' = [i \in 1..(count + 1) |-> clients'[i - 1]]
  BY <1>1 DEF tableList
<1>4. Append(tableList, s) = [i \in 1..(count + 1) |->
                                IF i = count + 1 THEN s ELSE tableList[i]]
  BY <1>1, <1>2 DEF tableList
<1>5. \A i \in 1..(count + 1) :
         clients'[i - 1] = IF i = count + 1 THEN s ELSE tableList[i]
  BY <1>1 DEF tableList
<1> QED
  BY <1>3, <1>4, <1>5

LEMMA RemoveTakesOut ==
    ASSUME TableInv, NEW s \in Entries, RemoveClient(s)
    PROVE  \E k \in 1..Len(tableList) :
              /\ tableList[k] = s
              /\ tableList' = [i \in 1..(Len(tableList) - 1) |->
                                 IF i < k THEN tableList[i] ELSE tableList[i + 1]]
<1> USE MaxClientsAssumption DEF Slot, Used
<1>1. PICK k \in Used : clients[k] = s
  BY DEF Entries
<1>2. /\ count' = count - 1
      /\ \A i \in Slot : i < k => clients'[i] = clients[i]
      /\ \A i \in Slot : i >= k /\ i + 1 < count => clients'[i] = clients[i + 1]
  BY <1>1, RemoveShifts
<1>3. count \in Nat /\ k < count /\ count <= MAX_CLIENTS
  BY DEF TableInv, TableTypeOK
<1>4. Len(tableList) = count
  BY <1>3 DEF tableList
<1>5. k + 1 \in 1..Len(tableList) /\ tableList[k + 1] = s
  BY <1>1, <1>3, <1>4 DEF tableList
<1>6. tableList' = [i \in 1..(count - 1) |-> clients'[i - 1]]
  BY <1>2 DEF tableList
<1>7. ASSUME NEW i \in 1..(count - 1)
      PROVE  clients'[i - 1] = IF i < k + 1 THEN tableList[i] ELSE tableList[i + 1]
  BY <1>2, <1>3 DEF tableList
<1> QED
  BY <1>4, <1>5, <1>6, <1>7

----------------------------------------------------------------------------
(* The loop. *)

(* In write_toallclients() the receiver of a turn is a client, connected   *)
(* through an entry of the table.                                          *)
LEMMA ReceiverIsClient ==
    ASSUME TypeOK, TableMatchesKernel, idx < count
    PROVE  /\ idx \in Used /\ client(idx) = clients[idx]
           /\ clients[idx] \in Entries
           /\ Receiver = peer[clients[idx]]
           /\ Receiver \in Clients
<1>1. idx \in Used /\ client(idx) = clients[idx]
  BY MaxClientsAssumption DEF TypeOK, TableTypeOK, Used, Slot, client
<1>2. clients[idx] \in Entries /\ clients[idx] \in Sockets
  BY <1>1 DEF Entries, TableMatchesKernel, TableInv
<1> QED
  BY <1>1, <1>2 DEF Receiver, TableMatchesKernel, TypeOK

(* In the loop over the clients, what is at an index is an entry, and so a *)
(* connected client.                                                       *)
LEMMA ScannedIsClient ==
    ASSUME TypeOK, TableMatchesKernel, NEW i \in Slot, ScanAt(i)
    PROVE  /\ i \in Used /\ client(i) = clients[i]
           /\ clients[i] \in Entries /\ clients[i] \in Sockets
           /\ peer[clients[i]] \in Clients
<1>1. i \in Used /\ client(i) = clients[i]
  BY MaxClientsAssumption DEF ScanAt, TypeOK, TableTypeOK, Used, Slot, client
<1>2. clients[i] \in Entries /\ clients[i] \in Sockets
  BY <1>1 DEF Entries, TableMatchesKernel, TableInv
<1> QED
  BY <1>1, <1>2 DEF TableMatchesKernel, TypeOK

LEMMA FdSetType ==
    ASSUME TypeOK, TableMatchesKernel, sock \in {SockFd, Errno}
    PROVE  FdSet \subseteq Sockets \cup {LircFd, SockFd, Errno}
<1>1. \A j \in Used : client(j) \in Sockets
  BY DEF TableMatchesKernel, TableInv, TypeOK, TableTypeOK, client, Used, Slot
<1> QED
  BY <1>1 DEF FdSet

----------------------------------------------------------------------------
(* The initial state. *)

LEMMA InitInv == Init => IInv
<1> SUFFICES ASSUME Init PROVE IInv
  OBVIOUS
<1> USE DEF Init, TableInit, NetInit, IrInit
<1>1. Used = {} /\ Entries = {}
  BY DEF Used, Slot, Entries
<1>2. TypeOK
  <2>1. TableTypeOK
    BY MaxClientsAssumption DEF TableTypeOK, Slot
  <2>2. NetTypeOK
    BY DEF NetTypeOK, ConnStates
  <2>3. IrTypeOK
    <3>1. echo \in BOOLEAN
      BY Zenon
    <3>2. lircq \in Seq(Nat) /\ air \in Nat
      OBVIOUS
    <3> QED
      BY <3>1, <3>2 DEF IrTypeOK
  <2>4. pc \in Labels /\ cmd \in Commands \cup {NoCmd}
    BY DEF Labels
  <2>5. chunk \in Seq(Nat) /\ relay \in Seq(Nat) /\ emitted \in Seq(Commands)
    OBVIOUS
  <2>6. /\ peer \in [Sockets -> Clients \cup {NoClient}]
        /\ join \in [Clients -> Nat]
    OBVIOUS
  <2> QED
    BY <2>1, <2>2, <2>3, <2>4, <2>5, <2>6 DEF TypeOK
<1>3. TableMatchesKernel
  BY <1>1, <1>2, BridgeAssumption
  DEF TableMatchesKernel, TableInv, NoDuplicates, TypeOK
<1>4. LoopInv
  BY DEF LoopInv
<1>5. BacklogInv
  BY DEF BacklogInv
<1>6. StreamInv
  BY <1>1 DEF StreamInv
<1> QED
  BY <1>2, <1>3, <1>4, <1>5, <1>6 DEF IInv

----------------------------------------------------------------------------
(* Types. *)

LEMMA TypeStep ==
    ASSUME IInv, [Next]_vars
    PROVE  TypeOK'
<1> USE DEF TypeOK, NetTypeOK, IrTypeOK, Labels, Goto, Fault, IInv
<1> USE DEF tableVars, netVars, irVars, fdVars, loopVars, budget, history
<1>1. ASSUME Listen PROVE TypeOK'
  BY <1>1 DEF Listen, TableTypeOK
<1>2. ASSUME BadPort PROVE TypeOK'
  BY <1>2 DEF BadPort, TableTypeOK
<1>3. ASSUME ListenFails PROVE TypeOK'
  BY <1>3 DEF ListenFails, TableTypeOK
<1>4. ASSUME Blink PROVE TypeOK'
  BY <1>4 DEF Blink, TableTypeOK
<1>5. ASSUME BuildFdSet PROVE TypeOK'
  <2>1. sock \in {SockFd, Errno}
    BY <1>5 DEF BuildFdSet, LoopInv
  <2>2. FdSet \subseteq Sockets \cup {LircFd, SockFd, Errno}
    BY <2>1, FdSetType
  <2>3. chunk' \in Seq(Nat) /\ cmd' \in Commands \cup {NoCmd}
    BY <1>5 DEF BuildFdSet
  <2> QED
    BY <1>5, <2>2, <2>3 DEF BuildFdSet, TableTypeOK
<1>6. ASSUME Select PROVE TypeOK'
  <2>1. Branch(Ready) \in Labels
    BY DEF Branch
  <2>2. Ready \subseteq rdfs
    BY DEF Ready, Watched
  <2> QED
    BY <1>6, <2>1, <2>2 DEF Select, TableTypeOK
<1>7. ASSUME SelectFails PROVE TypeOK'
  BY <1>7 DEF SelectFails, TableTypeOK
<1>8. ASSUME ReadIr PROVE TypeOK'
  <2>1. Frames \in Seq(Nat) /\ Unread \in Seq(Nat)
    BY IrAssumption DEF Frames, Unread, ReadCount
  <2>2. relay \o Frames \in Seq(Nat)
    BY <2>1
  <2>3. chunk' \in Seq(Nat) /\ lircq' \in Seq(Nat) /\ relay' \in Seq(Nat)
    BY <1>8, <2>1, <2>2, Zenon DEF ReadIr
  <2>4. TableTypeOK' /\ NetTypeOK'
    BY <1>8 DEF ReadIr, TableTypeOK
  <2>5. IrTypeOK'
    BY <1>8, <2>3 DEF ReadIr
  <2> QED
    BY <1>8, <2>3, <2>4, <2>5 DEF ReadIr
<1>9. ASSUME ReadIrFails PROVE TypeOK'
  BY <1>9 DEF ReadIrFails, TableTypeOK
<1>10. ASSUME SendPart PROVE TypeOK'
  <2>1. Receiver \in Clients
    BY <1>10, ReceiverIsClient DEF SendPart
  <2>2. chunk[off + 1] \in Nat
    BY <1>10 DEF SendPart, LoopInv
  <2>3. out' \in [Clients -> Seq(Nat)]
    BY <1>10, <2>1, <2>2 DEF SendPart, SendFrame
  <2>4. idx' \in Nat /\ off' \in Nat
    BY <1>10 DEF SendPart, NextReceiver
  <2>5. TableTypeOK'
    BY <1>10 DEF SendPart, TableTypeOK
  <2>6. NetTypeOK' /\ IrTypeOK'
    BY <1>10, <2>3 DEF SendPart
  <2> QED
    BY <1>10, <2>4, <2>5, <2>6 DEF SendPart
<1>11. ASSUME SendToClosed PROVE TypeOK'
  <2>1. conn' \in [Clients -> ConnStates]
    BY <1>11 DEF SendToClosed, ConnStates
  <2>2. idx' \in Nat /\ off' \in Nat
    BY <1>11 DEF SendToClosed, NextReceiver
  <2> QED
    BY <1>11, <2>1, <2>2 DEF SendToClosed, TableTypeOK
<1>12. ASSUME SendToReset PROVE TypeOK'
  <2>1. conn' \in [Clients -> ConnStates]
    BY <1>12 DEF SendToReset, ConnStates
  <2>2. idx' \in Nat /\ off' \in Nat
    BY <1>12 DEF SendToReset, NextReceiver
  <2> QED
    BY <1>12, <2>1, <2>2 DEF SendToReset, TableTypeOK
<1>13. ASSUME SendToBroken PROVE TypeOK'
  BY <1>13 DEF SendToBroken, TableTypeOK
<1>14. ASSUME SendDone PROVE TypeOK'
  BY <1>14 DEF SendDone, TableTypeOK
<1>15. ASSUME Accept PROVE TypeOK'
  <2>1. Head(backlog) \in Clients /\ Tail(backlog) \in Seq(Clients)
    BY <1>15 DEF Accept
  <2>2. PICK fd \in FreeFds : /\ open' = open \cup {fd}
                              /\ peer' = [peer EXCEPT ![fd] = Head(backlog)]
                              /\ AddClient(fd)
    BY <1>15 DEF Accept
  <2>3. TableTypeOK'
    BY <1>15, <2>2, MaxClientsAssumption
    DEF Accept, AddClient, TableTypeOK, HasSlot, FreeFds, Slot
  <2>4. join' \in [Clients -> Nat]
    <3>1. join' = [join EXCEPT ![Head(backlog)] = Len(relay)]
      BY <1>15, Zenon DEF Accept
    <3>2. Len(relay) \in Nat
      OBVIOUS
    <3> QED
      BY <2>1, <3>1, <3>2
  <2>5. /\ open' \subseteq Sockets \cup {LircFd, SockFd}
        /\ peer' \in [Sockets -> Clients \cup {NoClient}]
    BY <2>1, <2>2 DEF FreeFds
  <2> QED
    BY <1>15, <2>1, <2>2, <2>3, <2>4, <2>5 DEF Accept
<1>16. ASSUME AcceptOverrun PROVE TypeOK'
  BY <1>16 DEF AcceptOverrun, TableTypeOK
<1>17. ASSUME AcceptFails PROVE TypeOK'
  BY <1>17 DEF AcceptFails, TableTypeOK
<1>18. ASSUME ScanRead PROVE TypeOK'
  <2>1. PICK i \in Slot :
           LET c == peer[client(i)]
               n == RecvCount(c, BufSize)
           IN /\ ScanAt(i)
              /\ Avail(c) > 0
              /\ idx' = i
              /\ taken' = [taken EXCEPT ![c] = @ + n]
              /\ cmd' = [from |-> c, lo |-> taken[c], hi |-> taken[c] + n]
    BY <1>18 DEF ScanRead
  <2> DEFINE c == peer[client(i)]
             n == RecvCount(c, BufSize)
  <2>2. c \in Clients
    BY <2>1, ScannedIsClient
  <2>3. n \in Nat
    BY <2>1, <2>2, BridgeAssumption DEF RecvCount, Avail
  <2>4. taken' \in [Clients -> Nat] /\ cmd' \in Commands /\ idx' \in Nat
    BY <2>1, <2>2, <2>3, MaxClientsAssumption DEF Commands, Slot
  <2> QED
    BY <1>18, <2>4 DEF ScanRead, TableTypeOK
<1>19. ASSUME ScanRemove PROVE TypeOK'
  <2>1. PICK i \in Slot :
           /\ ScanAt(i)
           /\ RemoveClient(client(i))
           /\ open' = open \ {client(i)}
           /\ peer' = [peer EXCEPT ![client(i)] = NoClient]
           /\ conn' = [conn EXCEPT ![peer[client(i)]] = "shut"]
           /\ idx' = i + 1
    BY <1>19 DEF ScanRemove
  <2>2. TableInv'
    BY <2>1, ScannedIsClient, RemoveKeepsTable, ZenonT(60) DEF TableMatchesKernel
  <2>3. idx' \in Nat
    BY <2>1, MaxClientsAssumption DEF Slot
  <2> QED
    BY <1>19, <2>1, <2>2, <2>3 DEF ScanRemove, TableInv, ConnStates
<1>20. ASSUME ScanDone PROVE TypeOK'
  BY <1>20 DEF ScanDone, TableTypeOK
<1>21. ASSUME WriteIr PROVE TypeOK'
  BY <1>21 DEF WriteIr, TableTypeOK, LoopInv, Transmission
<1>22. ASSUME WriteIrFails PROVE TypeOK'
  BY <1>22 DEF WriteIrFails, TableTypeOK
<1>23. ASSUME Settle PROVE TypeOK'
  BY <1>23 DEF Settle, TableTypeOK
<1>24. ASSUME Flush PROVE TypeOK'
  BY <1>24 DEF Flush, TableTypeOK
<1>25. ASSUME Shutdown PROVE TypeOK'
  BY <1>25 DEF Shutdown, TableTypeOK
<1>26. ASSUME Signals PROVE TypeOK'
  <2>1. CASE Hangup
    <3>1. pc' \in Labels /\ hups' \in Nat
      BY <2>1 DEF Hangup, HangupInSelect, HangupInSleep, HangupElsewhere
    <3> QED
      BY <2>1, <3>1 DEF Hangup, TableTypeOK
  <2>2. CASE Terminate
    BY <2>2 DEF Terminate, TableTypeOK
  <2> QED
    BY <1>26, <2>1, <2>2 DEF Signals
<1>27. ASSUME Remote PROVE TypeOK'
  <2> USE <1>27, NetworkAssumption DEF TableTypeOK, notNet, ConnStates
  <2>1. PICK c \in Clients :
           \/ SockFd \in open /\ Connect(c)
           \/ \E n \in Segments : ClientSend(c, n)
           \/ ClientRead(c)
           \/ ClientClose(c)
           \/ ResetArrives(c)
    BY DEF Remote
  <2>2. UNCHANGED notNet
    BY DEF Remote
  <2>3. NetTypeOK'
    <3>1. CASE Connect(c)
      BY <3>1 DEF Connect
    <3>2. ASSUME NEW n \in Segments, ClientSend(c, n) PROVE NetTypeOK'
      BY <3>2, SMTT(30) DEF ClientSend
    <3>3. CASE ClientRead(c)
      BY <3>3, SMTT(30) DEF ClientRead
    <3>4. CASE ClientClose(c)
      BY <3>4 DEF ClientClose
    <3>5. CASE ResetArrives(c)
      BY <3>5 DEF ResetArrives
    <3> QED
      BY <2>1, <3>1, <3>2, <3>3, <3>4, <3>5
  <2> QED
    BY <2>2, <2>3
<1>28. ASSUME Infrared PROVE TypeOK'
  <2>1. CASE AirFrame
    BY <2>1, <1>28 DEF Infrared, AirFrame, notIr, TableTypeOK
  <2>2. CASE EchoEnds
    <3>1. echo' \in BOOLEAN
      BY <2>2, Zenon DEF EchoEnds
    <3>2. air' = air /\ (lircq' = Append(lircq, Echo) \/ lircq' = lircq)
      BY <2>2, Zenon DEF EchoEnds
    <3>3. lircq \in Seq(Nat) /\ Echo \in Nat
      BY DEF Echo
    <3>4. Append(lircq, Echo) \in Seq(Nat)
      BY <3>3
    <3>5. lircq' \in Seq(Nat)
      BY <3>2, <3>3, <3>4, Zenon
    <3> QED
      BY <3>1, <3>2, <3>5, <2>2, <1>28 DEF Infrared, notIr, TableTypeOK
  <2> QED
    BY <1>28, <2>1, <2>2 DEF Infrared
<1>29. CASE UNCHANGED vars
  BY <1>29 DEF vars, TableTypeOK
<1> QED
  BY <1>1, <1>2, <1>3, <1>4, <1>5, <1>6, <1>7, <1>8, <1>9, <1>10, <1>11, <1>12,
     <1>13, <1>14, <1>15, <1>16, <1>17, <1>18, <1>19, <1>20, <1>21, <1>22, <1>23,
     <1>24, <1>25, <1>26, <1>27, <1>28, <1>29
  DEF Next, Daemon

----------------------------------------------------------------------------
(* The table and the descriptors.  Most steps leave both as they are. *)

(* The steps that open, close, add and remove nothing. *)
SendStep == SendPart \/ SendToClosed \/ SendToReset \/ SendToBroken \/ SendDone
PlainStep ==
    \/ ListenFails \/ Blink \/ BuildFdSet \/ Select \/ SelectFails
    \/ ReadIr \/ ReadIrFails
    \/ AcceptOverrun \/ AcceptFails
    \/ ScanRead \/ ScanDone
    \/ WriteIr \/ WriteIrFails \/ Settle \/ Flush
    \/ Signals \/ Remote \/ Infrared

LEMMA DescriptorFrame ==
    ASSUME PlainStep \/ SendStep
    PROVE  /\ pc # "ended"
           /\ UNCHANGED <<tableVars, open, peer>>
<1> USE DEF Goto, tableVars, fdVars
<1>1. CASE SendStep
  BY <1>1 DEF SendStep, SendPart, SendToClosed, SendToReset, SendToBroken, SendDone
<1>2. CASE ListenFails \/ Blink \/ BuildFdSet \/ Select \/ SelectFails
  BY <1>2 DEF ListenFails, Blink, BuildFdSet, Select, SelectFails
<1>3. CASE ReadIr \/ ReadIrFails \/ AcceptOverrun \/ AcceptFails
  BY <1>3 DEF ReadIr, ReadIrFails, AcceptOverrun, AcceptFails
<1>4. CASE ScanRead \/ ScanDone
  BY <1>4 DEF ScanRead, ScanDone
<1>5. CASE WriteIr \/ WriteIrFails \/ Settle \/ Flush
  BY <1>5 DEF WriteIr, WriteIrFails, Settle, Flush
<1>6. CASE Signals
  BY <1>6 DEF Signals, Hangup, Terminate, Over
<1>7. CASE Remote
  BY <1>7 DEF Remote, notNet, Over
<1>8. CASE Infrared
  BY <1>8 DEF Infrared, notIr, Over
<1> QED
  BY <1>1, <1>2, <1>3, <1>4, <1>5, <1>6, <1>7, <1>8 DEF PlainStep

LEMMA NextSplit ==
    ASSUME [Next]_vars
    PROVE  \/ PlainStep \/ SendStep
           \/ Listen \/ BadPort \/ Accept \/ ScanRemove \/ Shutdown
           \/ UNCHANGED vars
BY DEF Next, Daemon, PlainStep, SendStep

(* What accept() and add_client() do together, with the descriptor named. *)
LEMMA AcceptWith ==
    ASSUME IInv, Accept
    PROVE  /\ Len(backlog) > 0 /\ Head(backlog) \in Clients
           /\ Head(backlog) = backlog[1]
           /\ Head(backlog) # NoClient
           /\ \E fd \in Sockets \ open :
                /\ fd \notin Entries /\ peer[fd] = NoClient
                /\ open' = open \cup {fd}
                /\ peer' = [peer EXCEPT ![fd] = Head(backlog)]
                /\ AddClient(fd)
                /\ TableInv'
                /\ Entries' = Entries \cup {fd}
<1> USE DEF IInv
<1>1. backlog \in Seq(Clients) /\ backlog # << >>
  BY DEF Accept, TypeOK, NetTypeOK
<1>2. PICK fd \in Sockets \ open :
         /\ open' = open \cup {fd}
         /\ peer' = [peer EXCEPT ![fd] = Head(backlog)]
         /\ AddClient(fd)
  BY DEF Accept, FreeFds
<1>3. fd \notin Entries /\ peer[fd] = NoClient
  BY <1>2 DEF TableMatchesKernel, Accept, Goto
<1>4. TableInv' /\ Entries' = Entries \cup {fd}
  BY <1>2, <1>3, AddKeepsTable DEF TableMatchesKernel, Accept
<1>5. /\ Len(backlog) > 0 /\ Head(backlog) \in Clients
      /\ Head(backlog) = backlog[1]
  BY <1>1
<1>6. Head(backlog) # NoClient
  BY <1>5, BridgeAssumption
<1> QED
  BY <1>2, <1>3, <1>4, <1>5, <1>6

(* What remove_client() does, with the entry named. *)
LEMMA ScanRemoveWith ==
    ASSUME IInv, ScanRemove
    PROVE  \E fd \in Entries :
              /\ fd \in Sockets /\ peer[fd] \in Clients
              /\ open' = open \ {fd}
              /\ peer' = [peer EXCEPT ![fd] = NoClient]
              /\ conn' = [conn EXCEPT ![peer[fd]] = "shut"]
              /\ RemoveClient(fd)
              /\ TableInv'
              /\ Entries' = Entries \ {fd}
<1> USE DEF IInv
<1>1. PICK i \in Slot :
         /\ ScanAt(i)
         /\ RemoveClient(client(i))
         /\ open' = open \ {client(i)}
         /\ peer' = [peer EXCEPT ![client(i)] = NoClient]
         /\ conn' = [conn EXCEPT ![peer[client(i)]] = "shut"]
  BY DEF ScanRemove
<1>2. client(i) \in Entries /\ client(i) \in Sockets /\ peer[client(i)] \in Clients
  BY <1>1, ScannedIsClient
<1>3. TableInv' /\ Entries' = Entries \ {client(i)}
  BY <1>1, <1>2, RemoveKeepsTable DEF TableMatchesKernel
<1> QED
  BY <1>1, <1>2, <1>3

LEMMA TableStep ==
    ASSUME IInv, [Next]_vars
    PROVE  TableMatchesKernel'
<1> USE DEF IInv
<1> USE BridgeAssumption
<1>1. ASSUME UNCHANGED <<tableVars, peer>>, open' \cap Sockets = open \cap Sockets,
             pc # "ended"
      PROVE  TableMatchesKernel'
  <2>1. Entries' = Entries /\ TableInv'
    BY <1>1 DEF tableVars, TableMatchesKernel, TableInv, TableTypeOK, NoDuplicates,
                Entries, Used
  <2> QED
    BY <1>1, <2>1 DEF TableMatchesKernel
<1>2. CASE PlainStep \/ SendStep
  BY <1>1, <1>2, DescriptorFrame
<1>3. CASE Listen
  BY <1>1, <1>3 DEF Listen, Goto
<1>4. CASE BadPort
  BY <1>1, <1>4 DEF BadPort, Goto
<1>5. CASE Accept
  <2>1. PICK fd \in Sockets \ open :
           /\ fd \notin Entries /\ peer[fd] = NoClient
           /\ open' = open \cup {fd}
           /\ peer' = [peer EXCEPT ![fd] = Head(backlog)]
           /\ TableInv'
           /\ Entries' = Entries \cup {fd}
    BY <1>5, AcceptWith
  <2>2. Head(backlog) # NoClient /\ \A s \in Sockets : peer[s] # Head(backlog)
    BY <1>5, AcceptWith DEF BacklogInv
  <2>3. peer \in [Sockets -> Clients \cup {NoClient}] /\ Entries \subseteq Sockets
    BY DEF TypeOK, TableMatchesKernel, TableInv, Entries
  <2>4. pc # "ended"
    BY <1>5 DEF Accept, Goto
  <2>5. (pc # "ended" => Entries = open \cap Sockets)'
    BY <2>1, <2>4 DEF TableMatchesKernel
  <2>6. \A s \in Sockets : s \in Entries' <=> peer'[s] # NoClient
    BY <2>1, <2>2, <2>3 DEF TableMatchesKernel
  <2>7. \A s, t \in Entries' : peer'[s] = peer'[t] => s = t
    BY <2>1, <2>2, <2>3 DEF TableMatchesKernel
  <2> QED
    BY <2>1, <2>5, <2>6, <2>7 DEF TableMatchesKernel
<1>6. CASE ScanRemove
  <2>1. PICK fd \in Entries :
           /\ fd \in Sockets
           /\ open' = open \ {fd}
           /\ peer' = [peer EXCEPT ![fd] = NoClient]
           /\ TableInv'
           /\ Entries' = Entries \ {fd}
    BY <1>6, ScanRemoveWith
  <2>2. peer \in [Sockets -> Clients \cup {NoClient}] /\ Entries \subseteq Sockets
    BY DEF TypeOK, TableMatchesKernel, TableInv, Entries
  <2>3. pc # "ended"
    BY <1>6 DEF ScanRemove
  <2>4. (pc # "ended" => Entries = open \cap Sockets)'
    BY <2>1, <2>3 DEF TableMatchesKernel
  <2>5. \A s \in Sockets : s \in Entries' <=> peer'[s] # NoClient
    BY <2>1, <2>2 DEF TableMatchesKernel
  <2>6. \A s, t \in Entries' : peer'[s] = peer'[t] => s = t
    BY <2>1, <2>2 DEF TableMatchesKernel
  <2> QED
    BY <2>1, <2>4, <2>5, <2>6 DEF TableMatchesKernel
<1>7. CASE Shutdown
  <2>1. pc' = "ended" /\ UNCHANGED <<tableVars, peer>>
    BY <1>7 DEF Shutdown, Goto, fdVars
  <2>2. Entries' = Entries /\ TableInv'
    BY <2>1 DEF tableVars, TableMatchesKernel, TableInv, TableTypeOK, NoDuplicates,
                Entries, Used
  <2> QED
    BY <2>1, <2>2 DEF TableMatchesKernel
<1>8. CASE UNCHANGED vars
  <2>1. UNCHANGED <<tableVars, peer, open, pc>>
    BY <1>8 DEF vars, fdVars
  <2>2. Entries' = Entries /\ TableInv'
    BY <2>1 DEF tableVars, TableMatchesKernel, TableInv, TableTypeOK, NoDuplicates,
                Entries, Used
  <2> QED
    BY <2>1, <2>2 DEF TableMatchesKernel
<1> QED
  BY <1>2, <1>3, <1>4, <1>5, <1>6, <1>7, <1>8, NextSplit

----------------------------------------------------------------------------
(* The variables of the loop. *)

LEMMA LoopStep ==
    ASSUME IInv, [Next]_vars
    PROVE  LoopInv'
<1> USE DEF IInv, LoopInv, Goto, fdVars, loopVars
<1>1. CASE Listen \/ BadPort \/ ListenFails \/ Blink
  BY <1>1 DEF Listen, BadPort, ListenFails, Blink
<1>2. CASE BuildFdSet
  BY <1>2 DEF BuildFdSet
<1>3. CASE Select
  BY <1>3 DEF Select, Branch
<1>4. CASE SelectFails
  BY <1>4 DEF SelectFails
<1>5. CASE ReadIr
  <2>1. Len(Frames) > 0
    BY <1>5, IrAssumption DEF ReadIr, Frames, ReadCount, TypeOK, IrTypeOK
  <2> QED
    BY <1>5, <2>1 DEF ReadIr
<1>6. CASE ReadIrFails
  BY <1>6 DEF ReadIrFails
<1>7. CASE SendPart
  <2>1. off \in Nat /\ Len(chunk) \in Nat /\ off < Len(chunk)
    BY <1>7 DEF SendPart, TypeOK
  <2>2. chunk' = chunk /\ (off' = 0 \/ (off + 1 # Len(chunk) /\ off' = off + 1))
    BY <1>7 DEF SendPart, NextReceiver
  <2> QED
    BY <1>7, <2>1, <2>2 DEF SendPart
<1>8. CASE SendToClosed \/ SendToReset
  BY <1>8 DEF SendToClosed, SendToReset, NextReceiver, TypeOK
<1>9. CASE SendToBroken \/ SendDone
  BY <1>9 DEF SendToBroken, SendDone
<1>10. CASE Accept \/ AcceptOverrun \/ AcceptFails
  BY <1>10 DEF Accept, AcceptOverrun, AcceptFails
<1>11. CASE ScanRead
  <2>1. cmd' \in Commands
    <3>1. PICK i \in Slot :
             LET c == peer[client(i)]
                 n == RecvCount(c, BufSize)
             IN /\ ScanAt(i)
                /\ Avail(c) > 0
                /\ cmd' = [from |-> c, lo |-> taken[c], hi |-> taken[c] + n]
      BY <1>11 DEF ScanRead
    <3> DEFINE c == peer[client(i)]
    <3>2. c \in Clients
      BY <3>1, ScannedIsClient
    <3>3. taken[c] \in Nat /\ RecvCount(c, BufSize) \in Nat
      BY <3>1, <3>2, BridgeAssumption, SMTT(30) DEF RecvCount, Avail, TypeOK, NetTypeOK
    <3> QED
      BY <3>1, <3>2, <3>3 DEF Commands
  <2> QED
    BY <1>11, <2>1 DEF ScanRead
<1>12. CASE ScanRemove \/ ScanDone
  BY <1>12 DEF ScanRemove, ScanDone
<1>13. CASE WriteIr \/ WriteIrFails \/ Settle \/ Flush \/ Shutdown
  BY <1>13 DEF WriteIr, WriteIrFails, Settle, Flush, Shutdown
<1>14. CASE Signals
  BY <1>14 DEF Signals, Hangup, HangupInSelect, HangupInSleep, HangupElsewhere, Terminate
<1>15. CASE Remote \/ Infrared
  BY <1>15 DEF Remote, Infrared, notNet, notIr
<1>16. CASE UNCHANGED vars
  BY <1>16 DEF vars
<1> QED
  BY <1>1, <1>2, <1>3, <1>4, <1>5, <1>6, <1>7, <1>8, <1>9, <1>10, <1>11, <1>12,
     <1>13, <1>14, <1>15, <1>16
  DEF Next, Daemon

----------------------------------------------------------------------------
(* The clients that wait to be accepted. *)

LEMMA BacklogFrame ==
    ASSUME BacklogInv, UNCHANGED <<conn, backlog, out, peer>>
    PROVE  BacklogInv'
BY DEF BacklogInv

(* The steps of the daemon that leave the connections and the streams. *)
LEMMA NetworkFrame ==
    ASSUME \/ Listen \/ BadPort \/ ListenFails \/ Blink
           \/ BuildFdSet \/ Select \/ SelectFails
           \/ ReadIr \/ ReadIrFails \/ SendToBroken \/ SendDone
           \/ AcceptOverrun \/ AcceptFails \/ ScanRead \/ ScanDone
           \/ WriteIr \/ WriteIrFails \/ Settle \/ Flush \/ Shutdown
           \/ Signals \/ Infrared \/ UNCHANGED vars
    PROVE  UNCHANGED <<conn, backlog, out, peer>>
<1> USE DEF netVars, fdVars
<1>1. CASE Listen \/ BadPort \/ ListenFails \/ Blink
  BY <1>1 DEF Listen, BadPort, ListenFails, Blink
<1>2. CASE BuildFdSet \/ Select \/ SelectFails
  BY <1>2 DEF BuildFdSet, Select, SelectFails
<1>3. CASE ReadIr \/ ReadIrFails \/ SendToBroken \/ SendDone
  BY <1>3 DEF ReadIr, ReadIrFails, SendToBroken, SendDone
<1>4. CASE AcceptOverrun \/ AcceptFails \/ ScanRead \/ ScanDone
  BY <1>4 DEF AcceptOverrun, AcceptFails, ScanRead, ScanDone
<1>5. CASE WriteIr \/ WriteIrFails \/ Settle \/ Flush \/ Shutdown
  BY <1>5 DEF WriteIr, WriteIrFails, Settle, Flush, Shutdown
<1>6. CASE Signals \/ Infrared
  BY <1>6 DEF Signals, Hangup, Terminate, Infrared, notIr
<1>7. CASE UNCHANGED vars
  BY <1>7 DEF vars
<1> QED
  BY <1>1, <1>2, <1>3, <1>4, <1>5, <1>6, <1>7

LEMMA BacklogStep ==
    ASSUME IInv, [Next]_vars
    PROVE  BacklogInv'
<1> USE DEF IInv
<1>1. CASE \/ Listen \/ BadPort \/ ListenFails \/ Blink
           \/ BuildFdSet \/ Select \/ SelectFails
           \/ ReadIr \/ ReadIrFails \/ SendToBroken \/ SendDone
           \/ AcceptOverrun \/ AcceptFails \/ ScanRead \/ ScanDone
           \/ WriteIr \/ WriteIrFails \/ Settle \/ Flush \/ Shutdown
           \/ Signals \/ Infrared \/ UNCHANGED vars
  BY <1>1, NetworkFrame, BacklogFrame
<1>2. ASSUME idx < count
      PROVE  /\ Receiver \in Clients
             /\ \E s \in Sockets : peer[s] = Receiver /\ peer[s] # NoClient
  BY <1>2, ReceiverIsClient DEF TableMatchesKernel, TableInv, Entries
<1>3. /\ backlog \in Seq(Clients)
      /\ conn \in [Clients -> ConnStates]
      /\ out \in [Clients -> Seq(Nat)]
      /\ peer \in [Sockets -> Clients \cup {NoClient}]
  BY DEF TypeOK, NetTypeOK
<1>4. CASE SendPart
  <2>1. UNCHANGED <<conn, backlog, peer>> /\ idx < count
    BY <1>4 DEF SendPart, fdVars
  <2>2. \A c \in Clients : c # Receiver => out'[c] = out[c]
    BY <1>3, <1>4 DEF SendPart, SendFrame
  <2>3. /\ \A k \in 1..Len(backlog) : backlog[k] # Receiver /\ backlog[k] \in Clients
        /\ conn[Receiver] # "none"
    BY <1>2, <1>3, <2>1 DEF BacklogInv
  <2> QED
    BY <2>1, <2>2, <2>3 DEF BacklogInv
<1>5. CASE SendToClosed \/ SendToReset
  <2>1. UNCHANGED <<out, backlog, peer>> /\ idx < count
    BY <1>5 DEF SendToClosed, SendToReset, fdVars
  <2>2. \A c \in Clients : conn'[c] = conn[c] \/ (conn[c] # "none" /\ conn'[c] # "none")
    BY <1>3, <1>5 DEF SendToClosed, SendToReset
  <2>3. \A k \in 1..Len(backlog) : backlog[k] \in Clients
    BY <1>3
  <2> QED
    BY <1>3, <2>1, <2>2, <2>3, BridgeAssumption DEF BacklogInv
<1>6. CASE Accept
  <2>1. PICK fd \in Sockets \ open : peer' = [peer EXCEPT ![fd] = Head(backlog)]
    BY <1>6, AcceptWith
  <2>2. UNCHANGED <<conn, out>> /\ backlog' = Tail(backlog) /\ Len(backlog) > 0
    BY <1>6, AcceptWith DEF Accept
  <2>3. /\ Len(backlog') = Len(backlog) - 1
        /\ \A k \in 1..Len(backlog') : backlog'[k] = backlog[k + 1]
    BY <1>3, <2>2
  <2>4. Head(backlog) = backlog[1]
    BY <1>6, AcceptWith
  <2>5. \A j, k \in 1..Len(backlog') : backlog'[j] = backlog'[k] => j = k
    <3> SUFFICES ASSUME NEW j \in 1..Len(backlog'), NEW k \in 1..Len(backlog'),
                        backlog'[j] = backlog'[k]
                 PROVE  j = k
      OBVIOUS
    <3>1. j + 1 \in 1..Len(backlog) /\ k + 1 \in 1..Len(backlog)
      BY <1>3, <2>3
    <3>2. backlog[j + 1] = backlog[k + 1]
      BY <2>3
    <3>3. j + 1 = k + 1
      BY <3>1, <3>2 DEF BacklogInv
    <3> QED
      BY <3>3
  <2>6. ASSUME NEW k \in 1..Len(backlog')
        PROVE  /\ conn'[backlog'[k]] # "none"
               /\ out'[backlog'[k]] = << >>
               /\ \A s \in Sockets : peer'[s] # backlog'[k]
    <3>1. k + 1 \in 1..Len(backlog) /\ backlog'[k] = backlog[k + 1]
      BY <1>3, <2>3
    <3>2. backlog[k + 1] # Head(backlog)
      <4>1. 1 \in 1..Len(backlog) /\ k + 1 # 1
        BY <3>1, <2>2, <1>3
      <4>2. backlog[k + 1] = backlog[1] => k + 1 = 1
        BY <3>1, <4>1 DEF BacklogInv
      <4> QED
        BY <2>4, <4>1, <4>2
    <3>3. /\ conn[backlog[k + 1]] # "none"
          /\ out[backlog[k + 1]] = << >>
          /\ \A s \in Sockets : peer[s] # backlog[k + 1]
      BY <3>1 DEF BacklogInv
    <3>4. \A s \in Sockets : peer'[s] \in {peer[s], Head(backlog)}
      BY <1>3, <2>1
    <3> QED
      BY <2>2, <3>1, <3>2, <3>3, <3>4
  <2>7. \A s \in Sockets : peer'[s] # NoClient => conn'[peer'[s]] # "none"
    BY <1>3, <2>1, <2>2, <2>4 DEF BacklogInv
  <2> QED
    BY <2>2, <2>5, <2>6, <2>7 DEF BacklogInv
<1>7. CASE ScanRemove
  <2>1. PICK fd \in Entries :
           /\ fd \in Sockets /\ peer[fd] \in Clients
           /\ peer' = [peer EXCEPT ![fd] = NoClient]
           /\ conn' = [conn EXCEPT ![peer[fd]] = "shut"]
    BY <1>7, ScanRemoveWith
  <2>2. UNCHANGED <<out, backlog>>
    BY <1>7 DEF ScanRemove
  <2>3. /\ conn[peer[fd]] # "none"
        /\ \A c \in Clients : conn'[c] = IF c = peer[fd] THEN "shut" ELSE conn[c]
    BY <1>3, <2>1, BridgeAssumption DEF BacklogInv
  <2>4. \A s \in Sockets : peer'[s] = IF s = fd THEN NoClient ELSE peer[s]
    BY <1>3, <2>1
  <2>5. \A k \in 1..Len(backlog) : backlog[k] \in Clients
    BY <1>3
  <2> QED
    BY <1>3, <2>2, <2>3, <2>4, <2>5, BridgeAssumption DEF BacklogInv
<1>8. CASE Remote
  <2>1. PICK c \in Clients :
           \/ Connect(c)
           \/ \E n \in Segments : ClientSend(c, n)
           \/ ClientRead(c)
           \/ ClientClose(c)
           \/ ResetArrives(c)
    BY <1>8 DEF Remote
  <2>2. UNCHANGED peer
    BY <1>8 DEF Remote, notNet, fdVars
  <2>3. CASE Connect(c)
    <3>1. /\ conn[c] = "none" /\ UNCHANGED out
          /\ backlog' = Append(backlog, c)
          /\ \A d \in Clients : conn'[d] = IF d = c THEN "est" ELSE conn[d]
      BY <1>3, <2>3 DEF Connect
    <3>2. /\ Len(backlog') = Len(backlog) + 1
          /\ backlog'[Len(backlog) + 1] = c
          /\ \A k \in 1..Len(backlog) : backlog'[k] = backlog[k] /\ backlog[k] \in Clients
      BY <1>3, <3>1
    <3>3. \A k \in 1..Len(backlog) : backlog[k] # c
      BY <3>1 DEF BacklogInv
    <3>4. out[c] = << >> /\ \A s \in Sockets : peer[s] # c
      BY <3>1, BridgeAssumption DEF BacklogInv
    <3>5. \A j, k \in 1..Len(backlog') : backlog'[j] = backlog'[k] => j = k
      <4>1. PICK n \in Nat : n = Len(backlog) /\ Len(backlog') = n + 1
        BY <1>3, <3>2
      <4>2. \A j, k \in 1..n : backlog[j] = backlog[k] => j = k
        BY <4>1 DEF BacklogInv
      <4>3. \A k \in 1..n : backlog'[k] = backlog[k] /\ backlog[k] # c
        BY <3>2, <3>3, <4>1
      <4>4. backlog'[n + 1] = c
        BY <3>2, <4>1
      <4>5. \A k \in 1..Len(backlog') : k \in 1..n \/ k = n + 1
        BY <4>1
      <4> QED
        BY <4>2, <4>3, <4>4, <4>5
    <3>6. \A k \in 1..Len(backlog') :
             /\ conn'[backlog'[k]] # "none"
             /\ out'[backlog'[k]] = << >>
             /\ \A s \in Sockets : peer'[s] # backlog'[k]
      BY <1>3, <2>2, <3>1, <3>2, <3>4 DEF BacklogInv
    <3>7. \A s \in Sockets : peer'[s] # NoClient => conn'[peer'[s]] # "none"
      BY <1>3, <2>2, <3>1 DEF BacklogInv
    <3> QED
      BY <3>1, <3>5, <3>6, <3>7 DEF BacklogInv
  <2>4. CASE (\E n \in Segments : ClientSend(c, n)) \/ ClientRead(c)
    BY <2>2, <2>4, BacklogFrame DEF ClientSend, ClientRead
  <2>5. CASE ClientClose(c) \/ ResetArrives(c)
    <3>1. UNCHANGED <<out, backlog>>
      BY <2>5 DEF ClientClose, ResetArrives
    <3>2. \A d \in Clients : conn'[d] = conn[d] \/ (conn[d] # "none" /\ conn'[d] # "none")
      BY <1>3, <2>5 DEF ClientClose, ResetArrives
    <3>3. \A k \in 1..Len(backlog) : backlog[k] \in Clients
      BY <1>3
    <3> QED
      BY <1>3, <2>2, <3>1, <3>2, <3>3, BridgeAssumption DEF BacklogInv
  <2> QED
    BY <2>1, <2>3, <2>4, <2>5
<1> QED
  BY <1>1, <1>4, <1>5, <1>6, <1>7, <1>8 DEF Next, Daemon

----------------------------------------------------------------------------
(* The stream. *)

LEMMA StreamTypes ==
    ASSUME TypeOK
    PROVE  /\ out \in [Clients -> Seq(Nat)]
           /\ conn \in [Clients -> ConnStates]
           /\ join \in [Clients -> Nat]
           /\ relay \in Seq(Nat) /\ Len(relay) \in Nat
           /\ chunk \in Seq(Nat) /\ Len(chunk) \in Nat
           /\ idx \in Nat /\ off \in Nat
BY DEF TypeOK, NetTypeOK

(* An entry of the table is a connected client, and no two entries are one. *)
LEMMA EntriesAreClients ==
    ASSUME IInv
    PROVE  /\ \A i \in Used : peer[clients[i]] \in Clients
           /\ \A i, j \in Used : peer[clients[i]] = peer[clients[j]] => i = j
<1> USE DEF IInv
<1>1. \A i \in Used : clients[i] \in Entries /\ clients[i] \in Sockets
  BY DEF TableMatchesKernel, TableInv, Entries
<1>2. \A i, j \in Used : clients[i] = clients[j] => i = j
  BY DEF TableMatchesKernel, TableInv, NoDuplicates
<1> QED
  BY <1>1, <1>2 DEF TableMatchesKernel, TypeOK

(* Outside a broadcast nothing is owed. *)
LEMMA StreamFrame ==
    ASSUME StreamInv, pc # "send", pc' # "send", Over => Over',
           UNCHANGED <<tableVars, peer, conn, out, join, relay>>
    PROVE  StreamInv'
BY DEF StreamInv, InStep, Owed, Used, tableVars

LEMMA StreamSame ==
    ASSUME StreamInv, UNCHANGED <<pc, idx, off, chunk>>,
           UNCHANGED <<tableVars, peer, conn, out, join, relay>>
    PROVE  StreamInv'
BY DEF StreamInv, InStep, Owed, Used, tableVars, Over

LEMMA StreamOver ==
    ASSUME Over', pc' # "send"
    PROVE  StreamInv'
BY DEF StreamInv

(* The steps outside a broadcast that leave the table and the streams. *)
LEMMA StreamIdle ==
    ASSUME \/ Listen \/ BadPort \/ ListenFails \/ Blink
           \/ BuildFdSet \/ Select \/ SelectFails
           \/ ReadIrFails \/ AcceptOverrun \/ AcceptFails
           \/ ScanRead \/ ScanDone
           \/ WriteIr \/ WriteIrFails \/ Settle \/ Flush \/ Shutdown
    PROVE  /\ pc # "send" /\ pc' # "send" /\ ~Over
           /\ UNCHANGED <<tableVars, peer, conn, out, join, relay>>
<1> USE DEF Goto, Over, tableVars, netVars, fdVars, history
<1>1. CASE Listen \/ BadPort \/ ListenFails \/ Blink
  BY <1>1 DEF Listen, BadPort, ListenFails, Blink
<1>2. CASE BuildFdSet \/ Select \/ SelectFails
  BY <1>2 DEF BuildFdSet, Select, SelectFails, Branch
<1>3. CASE ReadIrFails \/ AcceptOverrun \/ AcceptFails
  BY <1>3 DEF ReadIrFails, AcceptOverrun, AcceptFails
<1>4. CASE ScanRead \/ ScanDone
  BY <1>4 DEF ScanRead, ScanDone
<1>5. CASE WriteIr \/ WriteIrFails \/ Settle \/ Flush \/ Shutdown
  BY <1>5 DEF WriteIr, WriteIrFails, Settle, Flush, Shutdown
<1> QED
  BY <1>1, <1>2, <1>3, <1>4, <1>5

(* read() of the device: what it returns is appended to the stream, and is *)
(* owed to every client.                                                   *)
LEMMA StreamReadIr ==
    ASSUME IInv, ReadIr
    PROVE  StreamInv'
<1> USE DEF IInv
<1>1. /\ pc = "ir" /\ pc' = "send" /\ idx' = 0 /\ off' = 0
      /\ chunk' = Frames /\ relay' = relay \o Frames
      /\ UNCHANGED <<tableVars, peer, conn, out, join>>
  BY DEF ReadIr, Goto, LoopInv, fdVars, history, netVars
<1>2. Frames \in Seq(Nat) /\ Len(Frames) \in Nat
  BY IrAssumption DEF Frames, ReadCount, TypeOK, IrTypeOK
<1>3. relay \in Seq(Nat) /\ out \in [Clients -> Seq(Nat)] /\ join \in [Clients -> Nat]
  BY StreamTypes
<1>4. /\ Len(relay') = Len(relay) + Len(Frames)
      /\ \A k \in 1..Len(relay) : relay'[k] = relay[k]
      /\ \A k \in 1..Len(Frames) : relay'[Len(relay) + k] = Frames[k]
  BY <1>1, <1>2, <1>3
<1>5. /\ Len(chunk') <= Len(relay')
      /\ \A k \in 1..Len(chunk') : chunk'[k] = relay'[Len(relay') - Len(chunk') + k]
  BY <1>1, <1>2, <1>3, <1>4
<1>6. ASSUME NEW i \in Used', conn'[peer'[clients'[i]]] = "est"
      PROVE  InStep(peer[clients[i]], Owed(i))'
  <2> DEFINE c == peer[clients[i]]
  <2>1. i \in Used /\ c \in Clients /\ conn[c] = "est" /\ c' = c
    BY <1>1, <1>6, EntriesAreClients DEF Used, tableVars
  <2>2. InStep(c, 0)
    BY <1>1, <2>1 DEF StreamInv, Owed, Over
  <2>3. Owed(i)' = Len(Frames)
    BY <1>1, <1>2, <2>1, MaxClientsAssumption DEF Owed, Used, Slot
  <2>4. out[c] \in Seq(Nat) /\ join[c] \in Nat
    BY <1>3, <2>1
  <2>5. join[c] + Len(out[c]) = Len(relay) /\ Len(out[c]) \in Nat
    BY <2>2, <2>4 DEF InStep
  <2>6. \A k \in 1..Len(out[c]) : out[c][k] = relay[join[c] + k]
    BY <2>2 DEF InStep
  <2>7. join[c] + Len(out[c]) + Len(Frames) = Len(relay')
    BY <1>2, <1>3, <1>4, <2>4, <2>5
  <2>8. \A k \in 1..Len(out[c]) : join[c] + k \in 1..Len(relay)
    BY <2>4, <2>5, SMTT(30)
  <2>9. \A k \in 1..Len(out[c]) : out[c][k] = relay'[join[c] + k]
    BY <1>4, <2>6, <2>8
  <2> QED
    BY <1>1, <2>1, <2>3, <2>7, <2>9 DEF InStep
<1> QED
  BY <1>5, <1>6 DEF StreamInv

(* One frame more for the client whose turn it is. *)
LEMMA StreamSendPart ==
    ASSUME IInv, SendPart
    PROVE  StreamInv'
<1> USE DEF IInv
<1>1. /\ pc = "send" /\ pc' = "send" /\ idx < count
      /\ UNCHANGED <<tableVars, peer, conn, join, relay, chunk>>
      /\ out' = [out EXCEPT ![Receiver] = Append(@, chunk[off + 1])]
      /\ conn[Receiver] = "est"
      /\ \/ off + 1 = Len(chunk) /\ idx' = idx + 1 /\ off' = 0
         \/ off + 1 # Len(chunk) /\ idx' = idx /\ off' = off + 1
  BY DEF SendPart, NextReceiver, SendFrame, CanSend, fdVars, history, tableVars
<1>2. /\ out \in [Clients -> Seq(Nat)] /\ join \in [Clients -> Nat]
      /\ Len(relay) \in Nat /\ Len(chunk) \in Nat /\ idx \in Nat /\ off \in Nat
      /\ off < Len(chunk) /\ chunk[off + 1] \in Nat
  <2>1. /\ out \in [Clients -> Seq(Nat)] /\ join \in [Clients -> Nat]
        /\ Len(relay) \in Nat /\ chunk \in Seq(Nat) /\ idx \in Nat /\ off \in Nat
    BY StreamTypes
  <2>2. off < Len(chunk)
    BY <1>1 DEF LoopInv
  <2>3. Len(chunk) \in Nat /\ chunk[off + 1] \in Nat
    BY <2>1, <2>2
  <2> QED
    BY <2>1, <2>2, <2>3
<1>3. idx \in Used /\ Receiver = peer[clients[idx]] /\ Receiver \in Clients
  BY <1>1, ReceiverIsClient
<1>4. /\ Len(chunk) <= Len(relay)
      /\ \A k \in 1..Len(chunk) : chunk[k] = relay[Len(relay) - Len(chunk) + k]
  BY <1>1 DEF StreamInv
<1>5. ASSUME NEW i \in Used', conn'[peer'[clients'[i]]] = "est"
      PROVE  InStep(peer[clients[i]], Owed(i))'
  <2> DEFINE c == peer[clients[i]]
  <2>1. i \in Used /\ c \in Clients /\ conn[c] = "est" /\ c' = c /\ i \in Nat
    BY <1>1, <1>5, EntriesAreClients, MaxClientsAssumption DEF Used, Slot, tableVars
  <2>2. InStep(c, Owed(i)) /\ out[c] \in Seq(Nat) /\ join[c] \in Nat
    BY <1>1, <1>2, <2>1 DEF StreamInv, Over
  <2> HIDE DEF c
  <2>3. CASE i = idx
    <3>1. c = Receiver /\ out'[c] = Append(out[c], chunk[off + 1])
      BY <1>1, <1>2, <1>3, <2>3 DEF c
    <3>2. Owed(i) = Len(chunk) - off /\ Owed(i)' = Len(chunk) - off - 1
      BY <1>1, <1>2, <2>1, <2>3 DEF Owed
    <3>3. /\ Len(out'[c]) = Len(out[c]) + 1
          /\ \A k \in 1..Len(out[c]) : out'[c][k] = out[c][k]
          /\ out'[c][Len(out[c]) + 1] = chunk[off + 1]
      BY <1>2, <2>2, <3>1
    <3>4. /\ Len(out[c]) \in Nat
          /\ join[c] + Len(out[c]) + (Len(chunk) - off) = Len(relay)
      BY <2>2, <3>2 DEF InStep
    <3>5. \A k \in 1..Len(out[c]) : out[c][k] = relay[join[c] + k]
      BY <2>2 DEF InStep
    <3>6. join[c] + Len(out'[c]) + (Len(chunk) - off - 1) = Len(relay)
      <4>1. /\ Len(chunk) \in Nat /\ off \in Nat /\ join[c] \in Nat
            /\ Len(out'[c]) = Len(out[c]) + 1
        BY <1>2, <2>2, <3>3
      <4> QED
        BY ONLY <4>1, <3>4, SMT
    <3>7. chunk[off + 1] = relay[join[c] + (Len(out[c]) + 1)]
      <4>1. chunk[off + 1] = relay[Len(relay) - Len(chunk) + (off + 1)]
        BY <1>2, <1>4
      <4>2. Len(relay) - Len(chunk) + (off + 1) = join[c] + (Len(out[c]) + 1)
        BY <1>2, <2>2, <3>4
      <4> QED
        BY <4>1, <4>2
    <3>8. \A k \in 1..Len(out'[c]) : out'[c][k] = relay[join[c] + k]
      <4> SUFFICES ASSUME NEW k \in 1..Len(out'[c])
                   PROVE  out'[c][k] = relay[join[c] + k]
        OBVIOUS
      <4>1. CASE k \in 1..Len(out[c])
        BY <3>3, <3>5, <4>1
      <4>2. CASE k = Len(out[c]) + 1
        BY <3>3, <3>7, <4>2
      <4> QED
        BY <3>3, <3>4, <4>1, <4>2
    <3> QED
      BY <1>1, <2>1, <3>2, <3>6, <3>8 DEF InStep, c
  <2>4. CASE i # idx
    <3>1. c # Receiver
      BY <1>3, <2>1, <2>4, EntriesAreClients DEF c
    <3>2. out'[c] = out[c]
      BY <1>1, <1>2, <2>1, <3>1
    <3>3. Owed(i)' = Owed(i)
      BY <1>1, <1>2, <2>1, <2>4 DEF Owed
    <3> QED
      BY <1>1, <2>1, <2>2, <3>2, <3>3 DEF InStep, c
  <2> QED
    BY <2>3, <2>4
<1> QED
  BY <1>1, <1>4, <1>5 DEF StreamInv

(* The turn of a client that has closed: nothing more is owed to it. *)
LEMMA StreamSendClosed ==
    ASSUME IInv, SendToClosed \/ SendToReset
    PROVE  StreamInv'
<1> USE DEF IInv
<1>1. /\ pc = "send" /\ pc' = "send" /\ idx < count
      /\ UNCHANGED <<tableVars, peer, out, join, relay, chunk>>
      /\ idx' = idx + 1 /\ off' = 0
      /\ conn[Receiver] # "est"
      /\ \E v \in {"finsent", "pipe"} : conn' = [conn EXCEPT ![Receiver] = v]
  BY DEF SendToClosed, SendToReset, NextReceiver, fdVars, history, tableVars
<1>2. conn \in [Clients -> ConnStates] /\ idx \in Nat /\ Len(chunk) \in Nat
  BY StreamTypes
<1>3. idx \in Used /\ Receiver = peer[clients[idx]] /\ Receiver \in Clients
  BY <1>1, ReceiverIsClient
<1>4. ASSUME NEW i \in Used', conn'[peer'[clients'[i]]] = "est"
      PROVE  InStep(peer[clients[i]], Owed(i))'
  <2> DEFINE c == peer[clients[i]]
  <2>1. i \in Used /\ c \in Clients /\ c' = c /\ i \in Nat
    BY <1>1, <1>4, EntriesAreClients, MaxClientsAssumption DEF Used, Slot, tableVars
  <2>2. c # Receiver /\ conn[c] = "est"
    BY <1>1, <1>2, <1>4, <2>1
  <2>3. i # idx
    BY <1>3, <2>2
  <2>4. Owed(i)' = Owed(i)
    BY <1>1, <1>2, <2>1, <2>3 DEF Owed
  <2>5. InStep(c, Owed(i))
    BY <1>1, <2>1, <2>2 DEF StreamInv, Over
  <2> QED
    BY <1>1, <2>1, <2>4, <2>5 DEF InStep
<1> QED
  BY <1>1, <1>4 DEF StreamInv

(* The end of a broadcast: every turn is over, and nothing is owed. *)
LEMMA StreamSendDone ==
    ASSUME IInv, SendDone
    PROVE  StreamInv'
<1> USE DEF IInv
<1>1. /\ pc = "send" /\ pc' = "build" /\ idx >= count
      /\ UNCHANGED <<tableVars, peer, conn, out, join, relay>>
  BY DEF SendDone, Goto, fdVars, history, netVars
<1>2. \A i \in Used : i < idx
  BY <1>1, MaxClientsAssumption, StreamTypes
  DEF Used, Slot, TableMatchesKernel, TableInv, TableTypeOK
<1>3. \A i \in Used : Owed(i) = 0 /\ Owed(i)' = 0
  BY <1>1, <1>2 DEF Owed
<1>4. Used' = Used
  BY <1>1 DEF Used, tableVars
<1> QED
  BY <1>1, <1>3, <1>4 DEF StreamInv, InStep, Over, tableVars

(* A new client's stream starts with the next frame. *)
LEMMA StreamAccept ==
    ASSUME IInv, Accept
    PROVE  StreamInv'
<1> USE DEF IInv
<1>1. /\ pc = "accept" /\ pc' = "build"
      /\ UNCHANGED <<conn, out, relay>>
      /\ join' = [join EXCEPT ![Head(backlog)] = Len(relay)]
      /\ HasSlot
  BY DEF Accept, Goto
<1>2. PICK fd \in Sockets \ open :
         /\ fd \notin Entries /\ peer[fd] = NoClient
         /\ peer' = [peer EXCEPT ![fd] = Head(backlog)]
         /\ AddClient(fd)
  BY AcceptWith
<1>3. /\ Head(backlog) \in Clients
      /\ out[Head(backlog)] = << >>
      /\ \A s \in Sockets : peer[s] # Head(backlog)
  BY AcceptWith DEF BacklogInv
<1>4. /\ join \in [Clients -> Nat] /\ Len(relay) \in Nat
      /\ peer \in [Sockets -> Clients \cup {NoClient}]
  BY StreamTypes DEF TypeOK
<1>5. /\ count \in Slot
      /\ clients'[count] = fd /\ count' = count + 1
      /\ \A i \in Used : i # count /\ clients'[i] = clients[i] /\ clients[i] \in Sockets
  BY <1>1, <1>2, MaxClientsAssumption
  DEF HasSlot, AddClient, TableMatchesKernel, TableInv, TableTypeOK, Used, Slot
<1>6. Used' = Used \cup {count}
  BY <1>5, MaxClientsAssumption
  DEF Used, Slot, TableMatchesKernel, TableInv, TableTypeOK
<1>7. ASSUME NEW i \in Used', conn'[peer'[clients'[i]]] = "est"
      PROVE  InStep(peer[clients[i]], Owed(i))'
  <2>1. Owed(i)' = 0
    BY <1>1 DEF Owed
  <2>2. CASE i = count
    <3>1. peer'[clients'[i]] = Head(backlog)
      BY <1>2, <1>4, <1>5, <2>2
    <3> QED
      BY <1>1, <1>3, <1>4, <2>1, <3>1 DEF InStep
  <2>3. CASE i \in Used
    <3>1. clients'[i] = clients[i] /\ clients[i] # fd /\ clients[i] \in Sockets
      BY <1>2, <1>5, <2>3 DEF Entries
    <3>2. peer'[clients'[i]] = peer[clients[i]] /\ peer[clients[i]] # Head(backlog)
      BY <1>2, <1>3, <1>4, <3>1
    <3>3. InStep(peer[clients[i]], 0)
      BY <1>1, <1>7, <2>3, <3>2 DEF StreamInv, Owed, Over
    <3>4. join'[peer[clients[i]]] = join[peer[clients[i]]]
      BY <1>1, <1>4, <2>3, <3>2, EntriesAreClients
    <3> QED
      BY <1>1, <2>1, <3>2, <3>3, <3>4 DEF InStep
  <2> QED
    BY <1>6, <2>2, <2>3
<1> QED
  BY <1>1, <1>7 DEF StreamInv

(* Those that stay when a client is removed keep their streams. *)
LEMMA StreamRemove ==
    ASSUME IInv, ScanRemove
    PROVE  StreamInv'
<1> USE DEF IInv
<1>1. pc = "scan" /\ pc' = "scan" /\ UNCHANGED <<out, join, relay>>
  BY DEF ScanRemove, history
<1>2. PICK fd \in Entries :
         /\ fd \in Sockets /\ peer[fd] \in Clients
         /\ peer' = [peer EXCEPT ![fd] = NoClient]
         /\ conn' = [conn EXCEPT ![peer[fd]] = "shut"]
         /\ Entries' = Entries \ {fd}
  BY ScanRemoveWith
<1>3. /\ peer \in [Sockets -> Clients \cup {NoClient}]
      /\ conn \in [Clients -> ConnStates]
      /\ Entries \subseteq Sockets
  BY StreamTypes DEF TypeOK, TableMatchesKernel, TableInv, Entries
<1>4. ASSUME NEW i \in Used', conn'[peer'[clients'[i]]] = "est"
      PROVE  InStep(peer[clients[i]], Owed(i))'
  <2>1. clients'[i] \in Entries \ {fd}
    BY <1>2 DEF Entries
  <2>2. PICK j \in Used : clients[j] = clients'[i]
    BY <2>1 DEF Entries
  <2>3. /\ peer'[clients'[i]] = peer[clients[j]]
        /\ peer[clients[j]] # peer[fd]
    BY <1>2, <1>3, <2>1, <2>2 DEF TableMatchesKernel
  <2>4. conn[peer[clients[j]]] = "est"
    BY <1>2, <1>3, <1>4, <2>3, EntriesAreClients
  <2>5. InStep(peer[clients[j]], 0)
    BY <1>1, <2>2, <2>4 DEF StreamInv, Owed, Over
  <2>6. Owed(i)' = 0
    BY <1>1 DEF Owed
  <2> QED
    BY <1>1, <2>3, <2>5, <2>6 DEF InStep
<1> QED
  BY <1>1, <1>4 DEF StreamInv

(* What the clients do takes nothing out of their streams. *)
LEMMA StreamRemote ==
    ASSUME IInv, Remote
    PROVE  StreamInv'
<1> USE DEF IInv
<1>1. UNCHANGED <<pc, idx, off, chunk, tableVars, peer, join, relay>>
  BY DEF Remote, notNet, fdVars, loopVars, history
<1>2. PICK c \in Clients :
         \/ Connect(c)
         \/ \E n \in Segments : ClientSend(c, n)
         \/ ClientRead(c)
         \/ ClientClose(c)
         \/ ResetArrives(c)
  BY DEF Remote
<1>3. UNCHANGED out
  BY <1>2 DEF Connect, ClientSend, ClientRead, ClientClose, ResetArrives
<1>4. conn \in [Clients -> ConnStates]
  BY StreamTypes
<1>5. \A i \in Used : peer[clients[i]] \in Clients /\ conn[peer[clients[i]]] # "none"
  BY EntriesAreClients, BridgeAssumption
  DEF BacklogInv, TableMatchesKernel, TableInv
<1>6. \A d \in Clients : conn[d] # "none" /\ conn'[d] = "est" => conn[d] = "est"
  <2>1. CASE Connect(c)
    BY <1>4, <2>1 DEF Connect
  <2>2. CASE (\E n \in Segments : ClientSend(c, n)) \/ ClientRead(c)
    BY <2>2 DEF ClientSend, ClientRead
  <2>3. CASE ClientClose(c) \/ ResetArrives(c)
    BY <1>4, <2>3 DEF ClientClose, ResetArrives
  <2> QED
    BY <1>2, <2>1, <2>2, <2>3
<1>7. Used' = Used /\ \A i \in Used : Owed(i)' = Owed(i)
  BY <1>1 DEF Used, Owed, tableVars
<1> QED
  BY <1>1, <1>3, <1>5, <1>6, <1>7 DEF StreamInv, InStep, Over, tableVars

LEMMA StreamStep ==
    ASSUME IInv, [Next]_vars
    PROVE  StreamInv'
<1> USE DEF IInv
<1>1. CASE \/ Listen \/ BadPort \/ ListenFails \/ Blink
           \/ BuildFdSet \/ Select \/ SelectFails
           \/ ReadIrFails \/ AcceptOverrun \/ AcceptFails
           \/ ScanRead \/ ScanDone
           \/ WriteIr \/ WriteIrFails \/ Settle \/ Flush \/ Shutdown
  BY <1>1, StreamIdle, StreamFrame
<1>2. CASE SendToBroken
  BY <1>2, StreamOver DEF SendToBroken, Goto, Over
<1>3. CASE Hangup
  <2>1. /\ UNCHANGED <<idx, off, chunk>>
        /\ UNCHANGED <<tableVars, peer, conn, out, join, relay>>
    BY <1>3 DEF Hangup, netVars, fdVars, loopVars, history
  <2>2. CASE HangupElsewhere
    BY <2>1, <2>2, StreamSame DEF HangupElsewhere
  <2>3. CASE HangupInSelect \/ HangupInSleep
    BY <2>1, <2>3, StreamFrame DEF HangupInSelect, HangupInSleep, Goto, Over
  <2> QED
    BY <1>3, <2>2, <2>3 DEF Hangup
<1>4. CASE Terminate
  BY <1>4, StreamOver DEF Terminate, Over
<1>5. CASE Infrared \/ UNCHANGED vars
  BY <1>5, StreamSame
  DEF Infrared, notIr, vars, netVars, fdVars, loopVars, history
<1>6. CASE Remote
  BY <1>6, StreamRemote
<1> QED
  BY <1>1, <1>2, <1>3, <1>4, <1>5, <1>6, StreamReadIr, StreamSendPart,
     StreamSendClosed, StreamSendDone, StreamAccept, StreamRemove
  DEF Next, Daemon, Signals

----------------------------------------------------------------------------
(* The theorems. *)

LEMMA Inductive == Spec => []IInv
<1>1. IInv /\ [Next]_vars => IInv'
  <2> SUFFICES ASSUME IInv, [Next]_vars PROVE IInv'
    OBVIOUS
  <2> QED
    BY TypeStep, TableStep, LoopStep, BacklogStep, StreamStep DEF IInv
<1> QED
  BY <1>1, InitInv, PTL DEF Spec

(* Every variable of the daemon has its type in every reachable state of   *)
(* main_demonized().                                                       *)
THEOREM TypeCorrect == Spec => []TypeOK
<1>1. IInv => TypeOK
  BY DEF IInv
<1> QED
  BY <1>1, Inductive, PTL

(* However many clients come and go, the table holds the open descriptors  *)
(* and nothing else (add_client and remove_client as main_demonized() uses *)
(* them).                                                                  *)
THEOREM TableCorrect == Spec => []TableMatchesKernel
<1>1. IInv => TableMatchesKernel
  BY DEF IInv
<1> QED
  BY <1>1, Inductive, PTL

(* Whatever happens around it, the array of clients implements the ordered *)
(* list of connected sockets: each step of the daemon is a step of the     *)
(* list, or leaves it as it is (server.c:55-99).                           *)
THEOREM TableImplementsList == Spec => ImplementsList
<1> DEFINE up == {s \in Sockets : peer[s] # NoClient}
<1>1. Init => List!Init
  BY DEF Init, TableInit, List!Init, tableList
<1>2. IInv /\ [Next]_vars => [List!Next]_<<tableList, up>>
  <2> SUFFICES ASSUME IInv, [Next]_vars
               PROVE  List!Next \/ UNCHANGED <<tableList, up>>
    OBVIOUS
  <2>1. ASSUME UNCHANGED <<tableVars, peer>> PROVE UNCHANGED <<tableList, up>>
    BY <2>1 DEF tableVars, tableList
  <2>2. CASE PlainStep \/ SendStep
    BY <2>1, <2>2, DescriptorFrame
  <2>3. CASE Listen \/ BadPort \/ Shutdown
    BY <2>1, <2>3 DEF Listen, BadPort, Shutdown
  <2>4. CASE UNCHANGED vars
    BY <2>1, <2>4 DEF vars, fdVars
  <2>5. CASE Accept
    <3>1. PICK fd \in Sockets \ open :
             /\ peer[fd] = NoClient
             /\ peer' = [peer EXCEPT ![fd] = Head(backlog)]
             /\ AddClient(fd)
      BY <2>5, AcceptWith
    <3>2. TableInv /\ HasSlot /\ Head(backlog) # NoClient
      BY <2>5, AcceptWith DEF Accept, IInv, TableMatchesKernel
    <3>3. peer \in [Sockets -> Clients \cup {NoClient}]
      BY DEF IInv, TypeOK
    <3>4. fd \notin up /\ up' = up \cup {fd}
      BY <3>1, <3>2, <3>3
    <3>5. tableList' = Append(tableList, fd)
      BY <3>1, <3>2, AddAppends
    <3>6. List!Join(fd)
      BY <3>4, <3>5 DEF List!Join
    <3> QED
      BY <3>6 DEF List!Next
  <2>6. CASE ScanRemove
    <3>1. PICK fd \in Entries :
             /\ fd \in Sockets
             /\ peer' = [peer EXCEPT ![fd] = NoClient]
             /\ RemoveClient(fd)
      BY <2>6, ScanRemoveWith
    <3>2. peer \in [Sockets -> Clients \cup {NoClient}]
      BY DEF IInv, TypeOK
    <3>3. up' = up \ {fd}
      BY <3>1, <3>2
    <3>4. \E k \in 1..Len(tableList) :
             /\ tableList[k] = fd
             /\ tableList' = List!Without(k)
      BY <3>1, RemoveTakesOut DEF IInv, TableMatchesKernel, List!Without
    <3>5. List!Leave(fd)
      BY <3>3, <3>4 DEF List!Leave
    <3> QED
      BY <3>1, <3>5 DEF List!Next
  <2> QED
    BY <2>2, <2>3, <2>4, <2>5, <2>6, NextSplit
<1> QED
  BY <1>1, <1>2, Inductive, PTL DEF Spec, ImplementsList, List!Spec

(* StreamInv in the words of SameStream. *)
LEMMA StreamOfInvariant == IInv => SameStream
<1> SUFFICES ASSUME IInv, NEW i \in Used,
                    conn[peer[client(i)]] = "est", ~Over
             PROVE  out[peer[client(i)]] =
                      SubSeq(relay, join[peer[client(i)]] + 1, Len(relay) - Owed(i))
  BY DEF SameStream
<1> DEFINE c == peer[clients[i]]
<1>1. client(i) = clients[i] /\ i \in Nat
  BY MaxClientsAssumption
  DEF IInv, client, Used, Slot, TableMatchesKernel, TableInv, TableTypeOK
<1>2. c \in Clients
  BY EntriesAreClients
<1>3. out[c] \in Seq(Nat) /\ join[c] \in Nat /\ relay \in Seq(Nat)
  BY <1>2, StreamTypes DEF IInv
<1>4. InStep(c, Owed(i))
  BY <1>1 DEF IInv, StreamInv
<1>5. Owed(i) \in Nat
  BY <1>1, StreamTypes DEF Owed, IInv, LoopInv
<1>6. Len(relay) - Owed(i) = join[c] + Len(out[c])
  BY <1>3, <1>4, <1>5 DEF InStep
<1>7. Len(out[c]) \in Nat /\ Len(relay) \in Nat
  BY <1>3
<1>8. \A k \in (join[c] + 1)..(join[c] + Len(out[c])) : relay[k] \in Nat
  BY <1>3, <1>5, <1>6, <1>7, SMTT(30)
<1> DEFINE m == join[c] + 1
           n == join[c] + Len(out[c])
           t == SubSeq(relay, m, n)
<1>9. m \in Int /\ n \in Int /\ n - m + 1 = Len(out[c]) /\ (m <= n \/ Len(out[c]) = 0)
  <2> HIDE DEF c
  <2>1. join[c] \in Nat
    BY <1>3
  <2> QED
    BY <1>7, <2>1, SMTT(30)
<1>10. \A k \in 1..Len(out[c]) : m + k - 1 = join[c] + k
  BY <1>3
<1>11. /\ t \in Seq(Nat)
       /\ Len(t) = IF m <= n THEN n - m + 1 ELSE 0
       /\ \A k \in 1..(n - m + 1) : t[k] = relay[m + k - 1]
  <2> HIDE DEF m, n
  <2> QED
    BY <1>8, <1>9, SubSeqProperties DEF m, n
<1>12. /\ Len(t) = Len(out[c])
       /\ \A k \in 1..Len(out[c]) : t[k] = relay[join[c] + k]
  <2> HIDE DEF m, n, t
  <2> QED
    BY <1>7, <1>9, <1>10, <1>11
<1>13. \A k \in 1..Len(out[c]) : out[c][k] = t[k]
  BY <1>4, <1>12 DEF InStep
<1>14. out[c] = t
  <2> HIDE DEF t, c
  <2> QED
    BY <1>3, <1>11, <1>12, <1>13, SeqEqual
<1> QED
  BY <1>1, <1>6, <1>14

(* Every connected client is sent the same stream of frames from where it  *)
(* joined (write_toallclients, server.c:132).                              *)
THEOREM StreamCorrect == Spec => []SameStream
BY StreamOfInvariant, Inductive, PTL

(* While the process cannot open more descriptors than MAX_CLIENTS for its *)
(* clients, add_client() stays inside _clients; and without the scale, no  *)
(* failed read() of the device is decoded.  The daemon ensures neither:    *)
(* they are the conditions under which server.c is safe.                   *)
THEOREM TableFits ==
    ASSUME Cardinality(Sockets) <= MAX_CLIENTS, Starfrit = FALSE
    PROVE  Spec => []NoUndefined
<1>1. Init => NoUndefined
  BY DEF Init, NoUndefined
<1>2. IInv /\ NoUndefined /\ [Next]_vars => NoUndefined'
  <2> SUFFICES ASSUME IInv, NoUndefined, [Next]_vars
               PROVE  pc' # "undefined"
    BY DEF NoUndefined
  <2> USE DEF NoUndefined, Goto
  <2>1. ~AcceptOverrun
    <3> SUFFICES ASSUME AcceptOverrun PROVE FALSE
      OBVIOUS
    <3>1. PICK fd \in Sockets : fd \notin open
      BY DEF AcceptOverrun, FreeFds
    <3>2. TableInv /\ pc # "ended" /\ Entries \subseteq Sockets \ {fd}
      BY <3>1 DEF AcceptOverrun, IInv, TableMatchesKernel, TableInv, Entries
    <3>3. /\ IsFiniteSet(Sockets \ {fd})
          /\ Cardinality(Sockets \ {fd}) = Cardinality(Sockets) - 1
          /\ Cardinality(Sockets) \in Nat
      BY <3>1, SocketsAssumption, FS_RemoveElement, FS_CardinalityType
    <3>4. count <= Cardinality(Sockets) - 1
      BY <3>2, <3>3, CountIsEntries
    <3>5. count >= MAX_CLIENTS
      BY <3>2, MaxClientsAssumption DEF AcceptOverrun, HasSlot, TableInv, TableTypeOK
    <3> QED
      BY <3>2, <3>3, <3>4, <3>5, MaxClientsAssumption DEF TableInv, TableTypeOK
  <2>2. CASE Listen \/ BadPort \/ ListenFails \/ Blink \/ BuildFdSet
    BY <2>2 DEF Listen, BadPort, ListenFails, Blink, BuildFdSet
  <2>3. CASE Select \/ SelectFails \/ ReadIr \/ ReadIrFails
    BY <2>3 DEF Select, SelectFails, ReadIr, ReadIrFails, Branch
  <2>4. CASE SendStep
    BY <2>4 DEF SendStep, SendPart, SendToClosed, SendToReset, SendToBroken, SendDone
  <2>5. CASE Accept \/ AcceptFails \/ ScanRead \/ ScanRemove \/ ScanDone
    BY <2>5 DEF Accept, AcceptFails, ScanRead, ScanRemove, ScanDone
  <2>6. CASE WriteIr \/ WriteIrFails \/ Settle \/ Flush \/ Shutdown
    BY <2>6 DEF WriteIr, WriteIrFails, Settle, Flush, Shutdown
  <2>7. CASE Signals
    BY <2>7
    DEF Signals, Hangup, HangupInSelect, HangupInSleep, HangupElsewhere, Terminate
  <2>8. CASE Remote \/ Infrared \/ UNCHANGED vars
    BY <2>8 DEF Remote, Infrared, notNet, notIr, vars
  <2> QED
    BY <2>1, <2>2, <2>3, <2>4, <2>5, <2>6, <2>7, <2>8 DEF Next, Daemon, SendStep
<1> QED
  BY <1>1, <1>2, Inductive, PTL DEF Spec

----------------------------------------------------------------------------
(***************************************************************************)
(* What the daemon's calls may rely on, for any number of clients and any  *)
(* bounds: that no call blocks that must not, what is transmitted and what *)
(* is flushed, what an orderly end closes, who stays in the table, and how *)
(* the daemon lives as seen from outside.                                  *)
(***************************************************************************)

(* The steps after which the daemon is at none of the calls that use what  *)
(* select() has returned, and not at select().                             *)
LeavesSelect ==
    \/ Listen \/ BadPort \/ ListenFails \/ Blink
    \/ SelectFails \/ ReadIr \/ ReadIrFails
    \/ SendPart \/ SendToClosed \/ SendToReset \/ SendToBroken \/ SendDone
    \/ Accept \/ AcceptOverrun \/ AcceptFails
    \/ ScanRead \/ ScanDone
    \/ WriteIr \/ WriteIrFails \/ Settle \/ Flush \/ Shutdown
    \/ Terminate

LEMMA CallSplit ==
    ASSUME [Next]_vars
    PROVE  \/ LeavesSelect \/ BuildFdSet \/ Select \/ ScanRemove
           \/ Hangup \/ Remote \/ Infrared \/ UNCHANGED vars
BY DEF Next, Daemon, Signals, LeavesSelect

LEMMA LeavesSelectTo ==
    ASSUME LeavesSelect
    PROVE  pc' \notin {"select", "ir", "accept", "scan"}
<1> USE DEF Goto
<1>1. CASE Listen \/ BadPort \/ ListenFails \/ Blink \/ SelectFails
  BY <1>1 DEF Listen, BadPort, ListenFails, Blink, SelectFails
<1>2. CASE ReadIr \/ ReadIrFails
  BY <1>2 DEF ReadIr, ReadIrFails
<1>3. CASE SendPart \/ SendToClosed \/ SendToReset \/ SendToBroken \/ SendDone
  BY <1>3 DEF SendPart, SendToClosed, SendToReset, SendToBroken, SendDone
<1>4. CASE Accept \/ AcceptOverrun \/ AcceptFails \/ ScanRead \/ ScanDone
  BY <1>4 DEF Accept, AcceptOverrun, AcceptFails, ScanRead, ScanDone
<1>5. CASE WriteIr \/ WriteIrFails \/ Settle \/ Flush \/ Shutdown \/ Terminate
  BY <1>5 DEF WriteIr, WriteIrFails, Settle, Flush, Shutdown, Terminate
<1> QED
  BY <1>1, <1>2, <1>3, <1>4, <1>5 DEF LeavesSelect

(* A signal leaves the call as it is, or ends the wait it is in. *)
LEMMA HangupFrame ==
    ASSUME Hangup
    PROVE  /\ pc' = pc \/ (pc = "select" /\ pc' = "closing") \/ (pc = "settle" /\ pc' = "flush")
           /\ hups < MaxHup /\ hups' = hups + 1
           /\ UNCHANGED <<tableVars, netVars, irVars, fdVars, loopVars, history>>
BY DEF Hangup, HangupInSelect, HangupInSleep, HangupElsewhere, Goto

LEMMA AppendNotEmpty ==
    ASSUME NEW S, NEW q \in Seq(S), NEW e \in S
    PROVE  Append(q, e) # << >>
BY AppendProperties

(* What the clients do takes nothing away: what was readable stays so.     *)
LEMMA RemoteFrame ==
    ASSUME IInv, Remote
    PROVE  /\ ~Over
           /\ UNCHANGED notNet
           /\ taken' = taken
           /\ backlog # << >> => backlog' # << >>
           /\ \A s \in Sockets :
                 peer[s] # NoClient /\ Readable(peer[s]) => Readable(peer[s])'
<1> USE DEF IInv, TypeOK, NetTypeOK
<1>1. ~Over /\ UNCHANGED notNet
  BY DEF Remote
<1>2. PICK c \in Clients :
         \/ Connect(c)
         \/ \E n \in Segments : ClientSend(c, n)
         \/ ClientRead(c)
         \/ ClientClose(c)
         \/ ResetArrives(c)
  BY DEF Remote
<1>3. taken' = taken
  BY <1>2 DEF Connect, ClientSend, ClientRead, ClientClose, ResetArrives
<1>4. backlog # << >> => backlog' # << >>
  <2>1. CASE Connect(c)
    <3>1. backlog' = Append(backlog, c) /\ backlog \in Seq(Clients)
      BY <2>1 DEF Connect
    <3> QED
      BY <3>1, AppendNotEmpty
  <2>2. CASE ~Connect(c)
    BY <1>2, <2>2 DEF ClientSend, ClientRead, ClientClose, ResetArrives
  <2> QED
    BY <2>1, <2>2
<1>5. ASSUME NEW s \in Sockets, peer[s] # NoClient, Readable(peer[s])
      PROVE  Readable(peer[s])'
  <2>1. peer' = peer /\ peer[s] \in Clients
    BY <1>1, <1>5 DEF notNet, fdVars
  <2>2. conn[peer[s]] # "none"
    BY <1>5 DEF BacklogInv
  <2>3. ASSUME NEW n \in Segments, ClientSend(c, n)
        PROVE  Readable(peer[s])'
    <3>1. n \in Nat
      BY NetworkAssumption
    <3>2. /\ sent' = [sent EXCEPT ![c] = @ + n]
          /\ conn' = conn
      BY <2>3 DEF ClientSend
    <3> QED
      BY <1>3, <1>5, <2>1, <3>1, <3>2 DEF Readable, Avail
  <2>4. CASE Connect(c)
    <3>1. /\ c # peer[s] /\ sent' = sent
          /\ conn' = [conn EXCEPT ![c] = "est"]
      BY <2>2, <2>4 DEF Connect
    <3> QED
      BY <1>3, <1>5, <2>1, <3>1 DEF Readable, Avail
  <2>5. CASE ClientRead(c)
    BY <1>3, <1>5, <2>1, <2>5 DEF ClientRead, Readable, Avail
  <2>6. CASE ClientClose(c) \/ ResetArrives(c)
    <3>1. /\ sent' = sent
          /\ conn'[peer[s]] = conn[peer[s]] \/ conn'[peer[s]] # "est"
      BY <2>1, <2>6 DEF ClientClose, ResetArrives
    <3> QED
      BY <1>3, <1>5, <2>1, <3>1 DEF Readable, Avail
  <2> QED
    BY <1>2, <2>3, <2>4, <2>5, <2>6
<1> QED
  BY <1>1, <1>3, <1>4, <1>5

LEMMA InfraredFrame ==
    ASSUME TypeOK, Infrared
    PROVE  /\ ~Over /\ UNCHANGED notIr
           /\ \/ /\ air' = air + 1 /\ lircq' = Append(lircq, air + 1) /\ echo' = echo
              \/ /\ air' = air /\ echo /\ ~echo'
                 /\ lircq' = Append(lircq, Echo) \/ lircq' = lircq
           /\ lircq # << >> => lircq' # << >>
<1>1. lircq \in Seq(Nat) /\ air \in Nat
  BY DEF TypeOK, IrTypeOK
<1>2. /\ ~Over /\ UNCHANGED notIr
      /\ \/ /\ air' = air + 1 /\ lircq' = Append(lircq, air + 1) /\ echo' = echo
         \/ /\ air' = air /\ echo /\ ~echo'
            /\ lircq' = Append(lircq, Echo) \/ lircq' = lircq
  BY DEF Infrared, AirFrame, EchoEnds
<1>3. \A x \in Nat : Append(lircq, x) # << >>
  BY <1>1
<1>4. Echo \in Nat
  BY DEF Echo
<1> QED
  BY <1>1, <1>2, <1>3, <1>4

(* What select() returns with, when it returns.                            *)
LEMMA SelectFrame ==
    ASSUME IInv, PromiseInv, Select
    PROVE  /\ pc' \in {"ir", "accept", "scan"}
           /\ pc' = "ir" => lircq # << >>
           /\ pc' # "ir" => lircq = << >>
           /\ pc' = "accept" => backlog # << >>
           /\ \A s \in rdfs' \cap Sockets : Readable(peer[s])
           /\ rdfs' = Ready /\ mark' = air
           /\ UNCHANGED <<tableVars, netVars, irVars, fdVars>>
<1> USE DEF IInv, TypeOK
<1>1. /\ pc' = Branch(Ready) /\ rdfs' = Ready /\ mark' = air /\ rdfs \subseteq open
      /\ UNCHANGED <<tableVars, netVars, irVars, fdVars>>
      /\ pc = "select"
  BY DEF Select, Goto
<1>2. LircFd \in Watched
  BY <1>1, BridgeAssumption DEF PromiseInv, Watched
<1>3. LircFd \in Ready <=> lircq # << >>
  BY <1>2, BridgeAssumption DEF Ready, IsReady
<1>4. sock \in Ready => backlog # << >>
  <2>1. sock \in {SockFd, Errno} /\ Errno \notin open
    BY <1>1, BridgeAssumption DEF LoopInv
  <2> QED
    BY <1>1, <2>1, BridgeAssumption DEF Ready, Watched, IsReady
<1>5. \A s \in Ready \cap Sockets : Readable(peer[s])
  BY BridgeAssumption DEF Ready, IsReady
<1> QED
  BY <1>1, <1>3, <1>4, <1>5 DEF Branch

----------------------------------------------------------------------------
(* What select() has promised. *)

LEMMA PromiseStep ==
    ASSUME IInv, PromiseInv, [Next]_vars
    PROVE  PromiseInv'
<1> USE DEF IInv
<1>1. CASE LeavesSelect
  BY <1>1, LeavesSelectTo DEF PromiseInv
<1>2. CASE BuildFdSet
  BY <1>2 DEF PromiseInv, BuildFdSet, Goto, FdSet
<1>3. CASE Select
  <2>1. Entries' \cap rdfs' \subseteq Sockets
    BY <1>3, SelectFrame DEF tableVars, Entries, Used, TableMatchesKernel, TableInv
  <2>2. \A s \in Sockets : Readable(peer[s])' <=> Readable(peer[s])
    BY <1>3, SelectFrame DEF Readable, Avail, netVars, fdVars
  <2>3. lircq' = lircq /\ backlog' = backlog
    BY <1>3, SelectFrame DEF netVars, irVars
  <2> QED
    BY <1>3, <2>1, <2>2, <2>3, SelectFrame DEF PromiseInv
<1>4. CASE ScanRemove
  <2>1. PICK fd \in Entries :
           /\ fd \in Sockets /\ peer[fd] \in Clients
           /\ peer' = [peer EXCEPT ![fd] = NoClient]
           /\ conn' = [conn EXCEPT ![peer[fd]] = "shut"]
           /\ Entries' = Entries \ {fd}
    BY <1>4, ScanRemoveWith
  <2>2. pc = "scan" /\ pc' = pc /\ rdfs' = rdfs /\ sent' = sent /\ taken' = taken
    BY <1>4 DEF ScanRemove
  <2>3. ASSUME NEW s \in Entries' \cap rdfs'
        PROVE  Readable(peer[s])'
    <3>1. s \in Entries /\ s \in Sockets /\ s # fd /\ s \in rdfs
      BY <2>1, <2>2, <2>3 DEF TableMatchesKernel, TableInv, Entries
    <3>2. peer'[s] = peer[s] /\ peer[s] # peer[fd]
      BY <2>1, <3>1 DEF TableMatchesKernel, TypeOK
    <3>3. peer[s] \in Clients
      BY <3>1 DEF TableMatchesKernel, TypeOK
    <3>4. conn'[peer[s]] = conn[peer[s]]
      BY <2>1, <3>2, <3>3 DEF TypeOK, NetTypeOK
    <3>5. Readable(peer[s])
      BY <2>2, <3>1 DEF PromiseInv
    <3> QED
      BY <2>2, <3>2, <3>4, <3>5 DEF Readable, Avail
  <2> QED
    BY <2>2, <2>3 DEF PromiseInv
<1>5. CASE Hangup
  BY <1>5, HangupFrame
  DEF PromiseInv, tableVars, netVars, irVars, fdVars, loopVars, Entries, Used, Readable, Avail
<1>6. CASE Remote
  <2>1. /\ pc' = pc /\ rdfs' = rdfs /\ lircq' = lircq /\ Entries' = Entries
    BY <1>6, RemoteFrame DEF notNet, irVars, loopVars, tableVars, Entries, Used
  <2>2. \A s \in Entries : s \in Sockets /\ peer[s] # NoClient
    BY DEF TableMatchesKernel, TableInv, Entries
  <2> QED
    BY <1>6, <2>1, <2>2, RemoteFrame DEF PromiseInv
<1>7. CASE Infrared
  <2>1. /\ pc' = pc /\ rdfs' = rdfs /\ backlog' = backlog
        /\ UNCHANGED <<tableVars, netVars, fdVars>>
    BY <1>7, InfraredFrame DEF notIr, loopVars, netVars
  <2>2. \A s : Readable(peer[s])' <=> Readable(peer[s])
    BY <2>1 DEF Readable, Avail, netVars, fdVars
  <2>3. Entries' = Entries
    BY <2>1 DEF tableVars, Entries, Used
  <2>4. lircq # << >> => lircq' # << >>
    BY <1>7, InfraredFrame
  <2> QED
    BY <2>1, <2>2, <2>3, <2>4 DEF PromiseInv
<1>8. CASE UNCHANGED vars
  BY <1>8 DEF PromiseInv, vars, tableVars, netVars, irVars, fdVars, loopVars, Entries, Used, Readable, Avail
<1> QED
  BY <1>1, <1>2, <1>3, <1>4, <1>5, <1>6, <1>7, <1>8, CallSplit

LEMMA Promised == Spec => [](IInv /\ PromiseInv)
<1>1. Init => PromiseInv
  BY DEF Init, PromiseInv
<1>2. IInv /\ PromiseInv /\ [Next]_vars => PromiseInv'
  BY PromiseStep
<1> QED
  BY <1>1, <1>2, Inductive, PTL DEF Spec

(* What select() has returned is still there when the daemon comes to use  *)
(* it (main_demonized(): read() of the device, accept(), recv()).          *)
THEOREM NothingBlocks == Spec => []NoBlockingCall
<1>1. ASSUME IInv, PromiseInv PROVE NoBlockingCall
  <2>1. ASSUME pc = "scan", NEW i \in Slot, ScanAt(i)
        PROVE  Readable(peer[client(i)])
    <3>1. client(i) = clients[i] /\ clients[i] \in Entries
      BY <1>1, <2>1, ScannedIsClient DEF IInv
    <3> QED
      BY <1>1, <2>1, <3>1 DEF PromiseInv, ScanAt
  <2> QED
    BY <1>1, <2>1 DEF NoBlockingCall, PromiseInv
<1> QED
  BY <1>1, Promised, PTL

----------------------------------------------------------------------------
(* What is flushed. *)

LEMMA FreshStep ==
    ASSUME IInv, PromiseInv, FreshInv, [Next]_vars
    PROVE  FreshInv'
<1> USE DEF IInv
<1> DEFINE InFlush == pc \in {"scan", "write", "settle", "flush"}
<1> DEFINE Kept == pc' \in {"scan", "write", "settle", "flush"} => InFlush
<1>1. mark \in Nat /\ air \in Nat /\ lircq \in Seq(Nat)
  BY DEF TypeOK, IrTypeOK
<1>2. ASSUME Kept, UNCHANGED <<mark, air, lircq>> PROVE FreshInv'
  BY <1>2 DEF FreshInv, FlushedIsFresh
<1>3. ASSUME UNCHANGED <<mark, air>>, pc' \notin {"scan", "write", "settle", "flush"}
      PROVE  FreshInv'
  BY <1>3 DEF FreshInv, FlushedIsFresh
<1> USE DEF Goto, irVars, history, netVars
<1>4. CASE Select
  <2>1. air' = air /\ mark' = air /\ lircq' = lircq
    BY <1>4, SelectFrame
  <2>2. pc' \in {"scan", "write", "settle", "flush"} => lircq = << >>
    BY <1>4, SelectFrame
  <2> QED
    BY <1>1, <2>1, <2>2 DEF FreshInv, FlushedIsFresh
<1>5. CASE Infrared
  <2>1. mark' = mark /\ pc' = pc
    BY <1>5, InfraredFrame DEF notIr
  <2>2. CASE air' = air + 1 /\ lircq' = Append(lircq, air + 1)
    <3>1. \A k \in 1..Len(lircq') :
             (k \in 1..Len(lircq) /\ lircq'[k] = lircq[k]) \/ lircq'[k] = air + 1
      BY <1>1, <2>2
    <3> QED
      BY <1>1, <2>1, <2>2, <3>1 DEF FreshInv, FlushedIsFresh
  <2>3. CASE air' = air /\ (lircq' = Append(lircq, Echo) \/ lircq' = lircq)
    <3>1. \A k \in 1..Len(lircq') :
             (k \in 1..Len(lircq) /\ lircq'[k] = lircq[k]) \/ lircq'[k] = Echo
      BY <1>1, <2>3 DEF Echo
    <3> QED
      BY <1>1, <2>1, <2>3, <3>1 DEF FreshInv, FlushedIsFresh
  <2> QED
    BY <1>5, <2>2, <2>3, InfraredFrame
<1>6. CASE Listen \/ BadPort \/ ListenFails \/ Blink \/ BuildFdSet \/ SelectFails
  BY <1>3, <1>6 DEF Listen, BadPort, ListenFails, Blink, BuildFdSet, SelectFails
<1>7. CASE ReadIr \/ ReadIrFails
  BY <1>3, <1>7 DEF ReadIr, ReadIrFails
<1>8. CASE SendPart \/ SendToClosed \/ SendToReset \/ SendToBroken \/ SendDone
  BY <1>3, <1>8 DEF SendPart, SendToClosed, SendToReset, SendToBroken, SendDone
<1>9. CASE Accept \/ AcceptOverrun \/ AcceptFails \/ Shutdown \/ Flush
  BY <1>3, <1>9 DEF Accept, AcceptOverrun, AcceptFails, Shutdown, Flush
<1>10. CASE ScanRead \/ ScanRemove \/ ScanDone
  BY <1>2, <1>10 DEF ScanRead, ScanRemove, ScanDone
<1>11. CASE WriteIr \/ WriteIrFails \/ Settle
  BY <1>2, <1>11 DEF WriteIr, WriteIrFails, Settle
<1>12. CASE Hangup
  BY <1>2, <1>12, HangupFrame
<1>13. CASE Terminate
  BY <1>2, <1>13 DEF Terminate
<1>14. CASE Remote
  BY <1>2, <1>14, RemoteFrame DEF notNet
<1>15. CASE UNCHANGED vars
  BY <1>2, <1>15 DEF vars
<1> QED
  BY <1>4, <1>5, <1>6, <1>7, <1>8, <1>9, <1>10, <1>11, <1>12, <1>13, <1>14, <1>15
  DEF Next, Daemon, Signals

(* "flush read (to avoid loopback)", main_demonized(): of the frames from  *)
(* the air the flush discards only such as were heard after select() last  *)
(* returned.                                                               *)
THEOREM FlushTakesFresh == Spec => []FlushedIsFresh
<1>1. Init => FreshInv
  BY DEF Init, IrInit, FreshInv, FlushedIsFresh
<1>2. IInv /\ PromiseInv /\ FreshInv /\ [Next]_vars => FreshInv'
  BY FreshStep
<1>3. FreshInv => FlushedIsFresh
  BY DEF FreshInv
<1> QED
  BY <1>1, <1>2, <1>3, Promised, PTL DEF Spec

----------------------------------------------------------------------------
(* What is transmitted. *)

LEMMA TrainStep ==
    ASSUME IInv, TrainInv, [Next]_vars
    PROVE  TrainInv'
<1> USE DEF IInv
<1>1. /\ emitted \in Seq(Commands) /\ taken \in [Clients -> Nat]
  BY DEF TypeOK, NetTypeOK
<1>2. ASSUME UNCHANGED <<emitted, taken>>, pc' = "write" => pc = "write" /\ cmd' = cmd
      PROVE  TrainInv'
  BY <1>2 DEF TrainInv, TransmitsWhatWasSent
<1> USE DEF Goto, netVars, history, loopVars
<1>3. CASE ScanRead
  <2>1. PICK i \in Slot :
           LET c == peer[client(i)]
               n == RecvCount(c, BufSize)
           IN /\ ScanAt(i)
              /\ Avail(c) > 0
              /\ taken' = [taken EXCEPT ![c] = @ + n]
              /\ cmd' = [from |-> c, lo |-> taken[c], hi |-> taken[c] + n]
    BY <1>3 DEF ScanRead
  <2> DEFINE c == peer[client(i)]
             n == RecvCount(c, BufSize)
  <2>2. c \in Clients
    BY <2>1, ScannedIsClient
  <2>3. n \in Nat
    BY <1>1, <2>1, <2>2, BridgeAssumption DEF RecvCount, Avail, TypeOK, NetTypeOK
  <2>4. /\ taken'[c] = taken[c] + n
        /\ \A d \in Clients : taken'[d] >= taken[d] /\ taken[d] \in Nat /\ taken'[d] \in Nat
    BY <1>1, <2>1, <2>2, <2>3
  <2>5. emitted' = emitted
    BY <1>3 DEF ScanRead
  <2>6. \A k \in 1..Len(emitted) :
           emitted[k].from \in Clients /\ emitted[k].hi \in Nat
    <3>1. \A k \in 1..Len(emitted) : emitted[k] \in Commands
      BY <1>1
    <3>2. \A m \in Commands : m.from \in Clients /\ m.hi \in Nat
      BY DEF Commands
    <3> QED
      BY <3>1, <3>2
  <2>7. TransmitsWhatWasSent'
    BY <2>4, <2>5, <2>6 DEF TrainInv, TransmitsWhatWasSent
  <2>8. /\ cmd'.hi <= taken'[cmd'.from]
        /\ \A k \in 1..Len(emitted) : emitted[k].from = cmd'.from => emitted[k].hi <= cmd'.lo
    BY <2>1, <2>2, <2>3, <2>4 DEF TrainInv, TransmitsWhatWasSent
  <2> QED
    BY <2>5, <2>7, <2>8 DEF TrainInv
<1>4. CASE WriteIr
  <2>1. /\ emitted' = Append(emitted, cmd) /\ taken' = taken /\ pc' # "write"
        /\ Accepts(cmd.hi - cmd.lo) /\ pc = "write"
    BY <1>4 DEF WriteIr, Transmission
  <2>2. cmd \in Commands
    BY <2>1 DEF LoopInv
  <2>3. /\ Len(emitted') = Len(emitted) + 1
        /\ emitted'[Len(emitted) + 1] = cmd
        /\ \A k \in 1..Len(emitted) : emitted'[k] = emitted[k]
    BY <1>1, <2>1, <2>2
  <2>4. \A k \in 1..Len(emitted') : k \in 1..Len(emitted) \/ k = Len(emitted) + 1
    BY <1>1, <2>3
  <2>5. /\ cmd.hi <= taken[cmd.from]
        /\ \A k \in 1..Len(emitted) : emitted[k].from = cmd.from => emitted[k].hi <= cmd.lo
    BY <2>1 DEF TrainInv
  <2>6. \A j, k \in 1..Len(emitted') :
           j < k /\ emitted'[j].from = emitted'[k].from => emitted'[j].hi <= emitted'[k].lo
    <3> SUFFICES ASSUME NEW j \in 1..Len(emitted'), NEW k \in 1..Len(emitted'),
                        j < k, emitted'[j].from = emitted'[k].from
                 PROVE  emitted'[j].hi <= emitted'[k].lo
      OBVIOUS
    <3>1. j \in 1..Len(emitted)
      BY <1>1, <2>3
    <3>2. CASE k \in 1..Len(emitted)
      BY <2>3, <3>1, <3>2 DEF TrainInv, TransmitsWhatWasSent
    <3>3. CASE k = Len(emitted) + 1
      BY <2>3, <2>5, <3>1, <3>3
    <3> QED
      BY <2>4, <3>2, <3>3
  <2>7. \A k \in 1..Len(emitted') :
           emitted'[k].hi <= taken'[emitted'[k].from] /\ Accepts(emitted'[k].hi - emitted'[k].lo)
    BY <2>1, <2>3, <2>4, <2>5 DEF TrainInv, TransmitsWhatWasSent
  <2> QED
    BY <2>1, <2>6, <2>7 DEF TrainInv, TransmitsWhatWasSent
<1>5. CASE Listen \/ BadPort \/ ListenFails \/ Blink \/ BuildFdSet \/ SelectFails
  BY <1>2, <1>5 DEF Listen, BadPort, ListenFails, Blink, BuildFdSet, SelectFails
<1>6. CASE Select
  BY <1>2, <1>6 DEF Select, Branch
<1>7. CASE ReadIr \/ ReadIrFails
  BY <1>2, <1>7 DEF ReadIr, ReadIrFails
<1>8. CASE SendPart \/ SendToClosed \/ SendToReset \/ SendToBroken \/ SendDone
  BY <1>2, <1>8 DEF SendPart, SendToClosed, SendToReset, SendToBroken, SendDone
<1>9. CASE Accept \/ AcceptOverrun \/ AcceptFails
  BY <1>2, <1>9 DEF Accept, AcceptOverrun, AcceptFails
<1>10. CASE ScanRemove \/ ScanDone
  BY <1>2, <1>10 DEF ScanRemove, ScanDone
<1>11. CASE WriteIrFails \/ Settle \/ Flush \/ Shutdown
  BY <1>2, <1>11 DEF WriteIrFails, Settle, Flush, Shutdown
<1>12. CASE Hangup
  BY <1>2, <1>12, HangupFrame
<1>13. CASE Terminate
  BY <1>2, <1>13 DEF Terminate
<1>14. CASE Remote
  BY <1>2, <1>14, RemoteFrame DEF notNet
<1>15. CASE Infrared
  BY <1>2, <1>15, InfraredFrame DEF notIr
<1>16. CASE UNCHANGED vars
  BY <1>2, <1>16 DEF vars
<1> QED
  BY <1>3, <1>4, <1>5, <1>6, <1>7, <1>8, <1>9, <1>10, <1>11, <1>12, <1>13, <1>14,
     <1>15, <1>16
  DEF Next, Daemon, Signals

(* Nothing goes out but what clients have sent, in its order and no sample *)
(* twice, however recv() cuts and joins it (main_demonized(), from         *)
(* read_client() to write()).                                              *)
THEOREM TransmitsOnlyCommands == Spec => []TransmitsWhatWasSent
<1>1. Init => TrainInv
  BY DEF Init, TrainInv, TransmitsWhatWasSent
<1>2. IInv /\ TrainInv /\ [Next]_vars => TrainInv'
  BY TrainStep
<1>3. TrainInv => TransmitsWhatWasSent
  BY DEF TrainInv
<1> QED
  BY <1>1, <1>2, <1>3, Inductive, PTL DEF Spec

----------------------------------------------------------------------------
(* What the end closes. *)

LEMMA CloseStep ==
    ASSUME IInv, CloseInv, [Next]_vars
    PROVE  CloseInv'
<1> USE DEF IInv, Goto
<1>1. ASSUME pc' \notin {"init", "ended"}, sock' = sock, SockFd \in open' => SockFd \in open
      PROVE  CloseInv'
  BY <1>1 DEF CloseInv, ProperEnd
<1>2. ASSUME pc' = pc, UNCHANGED fdVars
      PROVE  CloseInv'
  BY <1>2 DEF CloseInv, ProperEnd, fdVars
<1>3. CASE Listen \/ ListenFails \/ BadPort
  BY <1>3 DEF Listen, ListenFails, BadPort, CloseInv, ProperEnd
<1>4. CASE Shutdown
  <2>1. /\ pc = "closing" /\ pc' = "ended" /\ sock' = sock
        /\ open' = open \ ({LircFd, sock} \cup Entries)
    BY <1>4 DEF Shutdown, fdVars
  <2>2. Entries = open \cap Sockets /\ open \subseteq Sockets \cup {LircFd, SockFd}
    BY <2>1 DEF TableMatchesKernel, TypeOK
  <2>3. SockFd \in open => sock = SockFd
    BY DEF CloseInv
  <2>4. open' = {}
    BY <2>1, <2>2, <2>3
  <2> QED
    BY <2>1, <2>4 DEF CloseInv, ProperEnd
<1> USE DEF fdVars
<1>5. CASE Blink \/ BuildFdSet \/ SelectFails
  BY <1>1, <1>5 DEF Blink, BuildFdSet, SelectFails
<1>6. CASE Select
  BY <1>1, <1>6 DEF Select, Branch
<1>7. CASE ReadIr \/ ReadIrFails
  BY <1>1, <1>7 DEF ReadIr, ReadIrFails
<1>8. CASE SendPart \/ SendToClosed \/ SendToReset \/ SendToBroken \/ SendDone
  BY <1>1, <1>8 DEF SendPart, SendToClosed, SendToReset, SendToBroken, SendDone
<1>9. CASE Accept
  <2>1. PICK fd \in FreeFds : open' = open \cup {fd}
    BY <1>9 DEF Accept
  <2>2. fd # SockFd
    BY <2>1, BridgeAssumption DEF FreeFds
  <2>3. pc' = "build" /\ sock' = sock
    BY <1>9 DEF Accept
  <2> QED
    BY <1>1, <2>1, <2>2, <2>3
<1>10. CASE AcceptOverrun \/ AcceptFails
  BY <1>1, <1>10 DEF AcceptOverrun, AcceptFails
<1>11. CASE ScanRead \/ ScanRemove \/ ScanDone
  BY <1>1, <1>11 DEF ScanRead, ScanRemove, ScanDone
<1>12. CASE WriteIr \/ WriteIrFails \/ Settle \/ Flush
  BY <1>1, <1>12 DEF WriteIr, WriteIrFails, Settle, Flush
<1>13. CASE Hangup
  BY <1>1, <1>2, <1>13, HangupFrame
<1>14. CASE Terminate
  BY <1>1, <1>14 DEF Terminate
<1>15. CASE Remote
  BY <1>2, <1>15, RemoteFrame DEF notNet
<1>16. CASE Infrared
  BY <1>2, <1>16, InfraredFrame DEF notIr
<1>17. CASE UNCHANGED vars
  BY <1>2, <1>17 DEF vars
<1> QED
  BY <1>3, <1>4, <1>5, <1>6, <1>7, <1>8, <1>9, <1>10, <1>11, <1>12, <1>13, <1>14,
     <1>15, <1>16, <1>17
  DEF Next, Daemon, Signals

(* "proper end", main_demonized(): after an orderly stop the device, the   *)
(* listening socket and every client are closed, whichever clients came    *)
(* and went before and whether the socket could be created or not.         *)
THEOREM EndsProperly == Spec => []ProperEnd
<1>1. Init => CloseInv
  BY BridgeAssumption DEF Init, CloseInv, ProperEnd
<1>2. IInv /\ CloseInv /\ [Next]_vars => CloseInv'
  BY CloseStep
<1>3. CloseInv => ProperEnd
  BY DEF CloseInv
<1> QED
  BY <1>1, <1>2, <1>3, Inductive, PTL DEF Spec

----------------------------------------------------------------------------
(* The loopback. *)

(* read() of the device takes the head of what waits there, and leaves the *)
(* rest.                                                                   *)
LEMMA ReadSplits ==
    ASSUME TypeOK
    PROVE  /\ Frames \in Seq(Nat) /\ Unread \in Seq(Nat)
           /\ \A k \in 1..Len(Frames) : \E j \in 1..Len(lircq) : Frames[k] = lircq[j]
           /\ \A k \in 1..Len(Unread) : \E j \in 1..Len(lircq) : Unread[k] = lircq[j]
<1>1. /\ lircq \in Seq(Nat) /\ ReadCount \in Nat /\ ReadCount <= Len(lircq)
      /\ Len(lircq) \in Nat
  BY IrAssumption DEF TypeOK, IrTypeOK, ReadCount
<1>2. /\ Frames \in Seq(Nat) /\ Len(Frames) = ReadCount
      /\ \A k \in 1..ReadCount : Frames[k] = lircq[k]
  BY <1>1 DEF Frames
<1>3. /\ Unread \in Seq(Nat) /\ Len(Unread) = Len(lircq) - ReadCount
      /\ \A k \in 1..(Len(lircq) - ReadCount) : Unread[k] = lircq[k + ReadCount]
  BY <1>1, SMTT(30) DEF Unread
<1>4. \A k \in 1..Len(Frames) : k \in 1..Len(lircq)
  BY <1>1, <1>2
<1>5. \A k \in 1..Len(Unread) : k + ReadCount \in 1..Len(lircq)
  BY <1>1, <1>3
<1> QED
  BY <1>2, <1>3, <1>4, <1>5

LEMMA EchoStep ==
    ASSUME MaxHup = 0, IInv, EchoInv, [Next]_vars
    PROVE  EchoInv'
<1> USE DEF IInv, Goto
<1>1. ASSUME UNCHANGED <<hups, echo, lircq, relay>>,
             pc \in {"settle", "flush"} => pc' \in {"settle", "flush"},
             pc = "settle" => pc' = "settle" \/ ~echo,
             Over => Over'
      PROVE  EchoInv'
  BY <1>1 DEF EchoInv, NoLoopback
<1>2. ASSUME UNCHANGED <<hups, echo, lircq, relay>>, Over'
      PROVE  EchoInv'
  BY <1>2 DEF EchoInv, NoLoopback
<1> USE DEF irVars, history, budget
<1>3. CASE ReadIr
  <2>1. /\ pc = "ir" /\ pc' = "send" /\ hups' = hups /\ echo' = echo
        /\ lircq' = Unread /\ relay' = relay \o Frames
    BY <1>3 DEF ReadIr
  <2>2. ~echo /\ \A k \in 1..Len(lircq) : lircq[k] # Echo
    BY <2>1 DEF EchoInv, Over
  <2>3. \A k \in 1..Len(Frames) : Frames[k] # Echo
    BY <2>2, ReadSplits
  <2>4. \A k \in 1..Len(Unread) : Unread[k] # Echo
    BY <2>2, ReadSplits
  <2>5. relay \in Seq(Nat) /\ Frames \in Seq(Nat)
    BY ReadSplits DEF TypeOK
  <2>6. \A k \in 1..Len(relay') : relay'[k] # Echo
    BY <2>1, <2>3, <2>5 DEF EchoInv, NoLoopback
  <2> QED
    BY <2>1, <2>2, <2>4, <2>6 DEF EchoInv, NoLoopback
<1>4. CASE WriteIr
  BY <1>4 DEF WriteIr, EchoInv, NoLoopback, Over
<1>5. CASE Settle
  BY <1>1, <1>5 DEF Settle, Over
<1>6. CASE Flush
  BY <1>6 DEF Flush, EchoInv, NoLoopback, Over
<1>7. CASE Infrared
  <2>1. /\ ~Over /\ pc' = pc /\ hups' = hups /\ relay' = relay
    BY <1>7, InfraredFrame DEF notIr
  <2>2. lircq \in Seq(Nat) /\ air \in Nat
    BY DEF TypeOK, IrTypeOK
  <2>3. CASE lircq' = Append(lircq, air + 1) /\ echo' = echo
    <3>1. \A k \in 1..Len(lircq') :
             (k \in 1..Len(lircq) /\ lircq'[k] = lircq[k]) \/ lircq'[k] # Echo
      BY <2>2, <2>3 DEF Echo
    <3> QED
      BY <2>1, <2>3, <3>1 DEF EchoInv, NoLoopback, Over
  <2>4. CASE echo /\ ~echo'
    BY <2>1, <2>4 DEF EchoInv, NoLoopback, Over
  <2> QED
    BY <1>7, <2>3, <2>4, InfraredFrame
<1>8. CASE Listen \/ ListenFails \/ BadPort \/ Blink \/ BuildFdSet \/ SelectFails
  BY <1>1, <1>8 DEF Listen, ListenFails, BadPort, Blink, BuildFdSet, SelectFails, Over
<1>9. CASE Select
  <2>1. pc = "select" /\ UNCHANGED <<hups, echo, lircq, relay>>
    BY <1>9 DEF Select
  <2> QED
    BY <1>1, <2>1 DEF Over
<1>10. CASE ReadIrFails
  BY <1>1, <1>10 DEF ReadIrFails, Over
<1>11. CASE SendPart \/ SendToClosed \/ SendToReset \/ SendToBroken \/ SendDone
  BY <1>1, <1>11 DEF SendPart, SendToClosed, SendToReset, SendToBroken, SendDone, Over
<1>12. CASE Accept \/ AcceptOverrun \/ AcceptFails
  BY <1>1, <1>12 DEF Accept, AcceptOverrun, AcceptFails, Over
<1>13. CASE ScanRead \/ ScanRemove \/ ScanDone
  BY <1>1, <1>13 DEF ScanRead, ScanRemove, ScanDone, Over
<1>14. CASE WriteIrFails \/ Shutdown
  BY <1>1, <1>14 DEF WriteIrFails, Shutdown, Over
<1>15. CASE Hangup
  BY <1>15, HangupFrame DEF EchoInv
<1>16. CASE Terminate
  BY <1>2, <1>16 DEF Terminate, Over
<1>17. CASE Remote
  BY <1>1, <1>17, RemoteFrame DEF notNet, Over
<1>18. CASE UNCHANGED vars
  BY <1>1, <1>18 DEF vars, Over
<1> QED
  BY <1>3, <1>4, <1>5, <1>6, <1>7, <1>8, <1>9, <1>10, <1>11, <1>12, <1>13, <1>14,
     <1>15, <1>16, <1>17, <1>18
  DEF Next, Daemon, Signals

(* "flush read (to avoid loopback)", main_demonized(): where no SIGHUP     *)
(* cuts the sleep before the flush short, the daemon relays nothing of     *)
(* what it has transmitted.                                                *)
THEOREM NothingLoopsBack == MaxHup = 0 => (Spec => []NoLoopback)
<1> SUFFICES ASSUME MaxHup = 0 PROVE Spec => []NoLoopback
  OBVIOUS
<1>1. Init => EchoInv
  BY DEF Init, IrInit, EchoInv, NoLoopback
<1>2. IInv /\ EchoInv /\ [Next]_vars => EchoInv'
  BY EchoStep
<1>3. EchoInv => NoLoopback
  BY DEF EchoInv
<1> QED
  BY <1>1, <1>2, <1>3, Inductive, PTL DEF Spec

----------------------------------------------------------------------------
(* Who stays. *)

LEMMA Frame ==
    ASSUME \/ PlainStep \/ SendStep \/ Listen \/ BadPort \/ Shutdown \/ UNCHANGED vars
    PROVE  UNCHANGED <<tableVars, peer>>
<1>1. CASE PlainStep \/ SendStep
  BY <1>1, DescriptorFrame
<1>2. CASE Listen \/ BadPort \/ Shutdown \/ UNCHANGED vars
  BY <1>2 DEF Listen, BadPort, Shutdown, vars, fdVars
<1> QED
  BY <1>1, <1>2

LEMMA KeptStep ==
    ASSUME IInv, IInv', [Next]_vars,
           NEW c \in Clients, Connected(c), conn[c] = "est"
    PROVE  Connected(c)'
<1> USE DEF IInv
<1>1. PICK s \in Entries : peer[s] = c
  <2>1. \A i \in Used : client(i) = clients[i]
    BY MaxClientsAssumption DEF TypeOK, TableTypeOK, Used, Slot, client
  <2> QED
    BY <2>1 DEF Connected, Entries
<1>2. s \in Sockets /\ peer \in [Sockets -> Clients \cup {NoClient}]
  BY DEF TableMatchesKernel, TableInv, Entries, TypeOK
<1>3. ASSUME s \in Entries', peer'[s] = c
      PROVE  Connected(c)'
  <2>1. PICK i \in Used' : s = clients'[i]
    BY <1>3 DEF Entries
  <2>2. client(i)' = clients'[i]
    BY <2>1, MaxClientsAssumption DEF TypeOK, TableTypeOK, Used, Slot, client
  <2> QED
    BY <1>3, <2>1, <2>2 DEF Connected
<1>4. CASE PlainStep \/ SendStep \/ Listen \/ BadPort \/ Shutdown \/ UNCHANGED vars
  BY <1>1, <1>3, <1>4, Frame DEF Entries, Used, tableVars
<1>5. CASE Accept
  <2>1. PICK fd \in Sockets \ open :
           /\ fd \notin Entries
           /\ peer' = [peer EXCEPT ![fd] = Head(backlog)]
           /\ Entries' = Entries \cup {fd}
    BY <1>5, AcceptWith
  <2>2. s # fd
    BY <1>1, <2>1
  <2> QED
    BY <1>1, <1>2, <1>3, <2>1, <2>2
<1>6. CASE ScanRemove
  <2>1. PICK i \in Slot :
           /\ ScanAt(i) /\ AtEnd(peer[client(i)])
           /\ peer' = [peer EXCEPT ![client(i)] = NoClient]
           /\ RemoveClient(client(i))
    BY <1>6 DEF ScanRemove
  <2>2. PICK fd \in Entries :
           /\ fd \in Sockets /\ peer[fd] \in Clients
           /\ peer' = [peer EXCEPT ![fd] = NoClient]
           /\ Entries' = Entries \ {fd}
    BY <1>6, ScanRemoveWith
  <2>3. client(i) \in Sockets /\ peer[client(i)] \in Clients
    BY <2>1, ScannedIsClient
  <2>4. fd = client(i)
    BY <1>2, <2>1, <2>2, <2>3, BridgeAssumption
  <2>5. s # fd
    BY <1>1, <2>1, <2>4 DEF AtEnd
  <2> QED
    BY <1>1, <1>2, <1>3, <2>2, <2>5
<1> QED
  BY <1>4, <1>5, <1>6, NextSplit

(* A client that has not closed its connection keeps its entry, whoever    *)
(* else leaves and wherever remove_client() has moved the entries to       *)
(* (main_demonized(), the loop over the clients).                          *)
THEOREM LiveClientsStay == Spec => LiveClientKept
<1>1. IInv /\ IInv' /\ [Next]_vars =>
         [\A c \in Clients : Connected(c) /\ conn[c] = "est" /\ ~Over' => Connected(c)']_vars
  BY KeptStep
<1> QED
  BY <1>1, Inductive, PTL DEF Spec, LiveClientKept

----------------------------------------------------------------------------
(* The daemon's life seen from outside. *)

InLoop == {"build", "select", "ir", "send", "accept", "scan", "write", "settle", "flush"}

LEMMA PcMoves ==
    ASSUME [Next]_vars
    PROVE  \/ pc' = pc
           \/ ~Over /\ Over'
           \/ pc = "init" /\ pc' = "blink"
           \/ pc = "blink" /\ pc' = "build"
           \/ pc \in InLoop /\ pc' \in InLoop
           \/ pc = "select" /\ Ready = {} /\ rdfs \subseteq open /\ pc' = "closing"
<1> USE DEF Goto, InLoop, Over
<1>1. CASE Listen \/ BadPort \/ ListenFails \/ Blink \/ BuildFdSet \/ SelectFails
  BY <1>1 DEF Listen, BadPort, ListenFails, Blink, BuildFdSet, SelectFails
<1>2. CASE Select \/ ReadIr \/ ReadIrFails
  BY <1>2 DEF Select, Branch, ReadIr, ReadIrFails
<1>3. CASE SendPart \/ SendToClosed \/ SendToReset \/ SendToBroken \/ SendDone
  BY <1>3 DEF SendPart, SendToClosed, SendToReset, SendToBroken, SendDone
<1>4. CASE Accept \/ AcceptOverrun \/ AcceptFails
  BY <1>4 DEF Accept, AcceptOverrun, AcceptFails
<1>5. CASE ScanRead \/ ScanRemove \/ ScanDone
  BY <1>5 DEF ScanRead, ScanRemove, ScanDone
<1>6. CASE WriteIr \/ WriteIrFails \/ Settle \/ Flush \/ Shutdown
  BY <1>6 DEF WriteIr, WriteIrFails, Settle, Flush, Shutdown
<1>7. CASE Hangup
  BY <1>7 DEF Hangup, HangupInSelect, HangupInSleep, HangupElsewhere
<1>8. CASE Terminate
  BY <1>8 DEF Terminate
<1>9. CASE Remote \/ Infrared \/ UNCHANGED vars
  BY <1>9 DEF Remote, Infrared, notNet, notIr, vars
<1> QED
  BY <1>1, <1>2, <1>3, <1>4, <1>5, <1>6, <1>7, <1>8, <1>9 DEF Next, Daemon, Signals

LEMMA LifeOf ==
    /\ Over => life = "gone"
    /\ pc \in {"init", "blink"} => life = "starting"
    /\ pc = "closing" => life = "closing"
    /\ pc \in InLoop => life \in {"busy", "idle"}
    /\ pc = "build" => life = "busy"
    /\ pc = "select" /\ Ready = {} /\ rdfs \subseteq open => life = "idle"
BY DEF Over, InLoop, life

LEMMA LifeOfNext ==
    /\ Over' => life' = "gone"
    /\ pc' \in {"init", "blink"} => life' = "starting"
    /\ pc' = "closing" => life' = "closing"
    /\ pc' \in InLoop => life' \in {"busy", "idle"}
    /\ pc' = "build" => life' = "busy"
BY DEF Over, InLoop, life

(* Whoever starts and stops the daemon may take it for a DaemonLife: it    *)
(* begins an orderly end only when SIGHUP interrupts a select() that has   *)
(* nothing to return (main_demonized() and signal_handler()).              *)
THEOREM LivesAsPromised == Spec => ImplementsLife
<1>1. Init => Life!Init
  BY LifeOf DEF Init, Life!Init
<1>2. IInv /\ [Next]_vars => [Life!Next]_life
  <2> SUFFICES ASSUME IInv, [Next]_vars PROVE Life!Next \/ life' = life
    OBVIOUS
  <2> USE LifeOf, LifeOfNext
  <2> USE DEF Life!Next, Life!Step
  <2>1. \/ pc \in {"init", "blink", "closing"}
        \/ pc \in InLoop
        \/ Over
    BY DEF IInv, TypeOK, Labels, InLoop, Over
  <2>2. CASE pc' = pc
    BY <2>1, <2>2 DEF Life!Wait, Life!Wake, Over
  <2>3. CASE ~Over /\ Over'
    BY <2>1, <2>3 DEF Life!Die, Life!Stages
  <2>4. CASE pc = "init" /\ pc' = "blink"
    BY <2>4
  <2>5. CASE pc = "blink" /\ pc' = "build"
    BY <2>5 DEF Life!Begin
  <2>6. CASE pc \in InLoop /\ pc' \in InLoop
    BY <2>6 DEF Life!Wait, Life!Wake
  <2>7. CASE pc = "select" /\ Ready = {} /\ rdfs \subseteq open /\ pc' = "closing"
    BY <2>7 DEF Life!Hangup
  <2> QED
    BY <2>2, <2>3, <2>4, <2>5, <2>6, <2>7, PcMoves
<1> QED
  BY <1>1, <1>2, Inductive, PTL DEF Spec, ImplementsLife, Life!Spec
=============================================================================
