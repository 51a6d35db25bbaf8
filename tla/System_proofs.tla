---------------------------- MODULE System_proofs ----------------------------
(***************************************************************************)
(* What Bridge_proofs shows of irbrgd holds in the whole system: with the  *)
(* Linux clients as they are written, and with the older server in the     *)
(* place of irbrgd.  Only two steps of the system are none of Bridge, and  *)
(* both are of the older server.                                           *)
(***************************************************************************)
EXTENDS System, Bridge_proofs

(* A Linux client is a client as Bridge knows them.                        *)
LEMMA LinuxIsRemote == LinuxRemote => Remote \/ UNCHANGED vars
<1> SUFFICES ASSUME LinuxRemote PROVE Remote \/ UNCHANGED vars
  OBVIOUS
<1> USE LinuxAssumption
<1>1. ASSUME ~Over, UNCHANGED notNet, NEW c \in Clients,
             \/ SockFd \in open /\ Connect(c)
             \/ \E n \in Segments : ClientSend(c, n)
             \/ ClientRead(c)
             \/ ClientClose(c)
             \/ ResetArrives(c)
      PROVE  Remote
  BY <1>1 DEF Remote
<1>2. ASSUME NEW c \in Linux, Leave(c) PROVE Remote \/ UNCHANGED vars
  <2>1. CASE Over
    BY <1>2, <2>1 DEF Leave, notNet, vars
  <2>2. CASE ~Over
    BY <1>1, <1>2, <2>2 DEF Leave
  <2> QED
    BY <2>1, <2>2
<1>3. ASSUME NEW c \in Linux, Turn(c) PROVE Remote \/ UNCHANGED vars
  <2>1. CASE Connects(c)
    BY <1>1, <2>1 DEF Connects
  <2>2. CASE Quit(c)
    BY <1>2, <2>2 DEF Quit
  <2>3. CASE SendCommand(c)
    BY <1>1, <2>3 DEF SendCommand
  <2>4. CASE Receive(c)
    <3>1. ~Over
      BY <2>4 DEF Receive, Received
    <3> QED
      BY <1>1, <2>4, <3>1 DEF Receive
  <2>5. CASE Refused(c) \/ Help(c) \/ SendLate(c) \/ Disconnected(c)
    BY <2>5 DEF Refused, Help, SendLate, Disconnected
  <2> QED
    BY <1>3, <2>1, <2>2, <2>3, <2>4, <2>5 DEF Turn
<1>4. ASSUME NEW c \in Linux, User(c) PROVE Remote \/ UNCHANGED vars
  BY <1>2, <1>4 DEF User, Type, Killed
<1>5. CASE OtherClients
  BY <1>1, <1>5 DEF OtherClients
<1> QED
  BY <1>3, <1>4, <1>5 DEF LinuxRemote, LinuxStep

LEMMA SystemStep ==
    ASSUME [SystemNext]_sysVars
    PROVE  [Next]_vars \/ NoDevice \/ SelectStdin
<1>1. CASE ProgramStep
  BY <1>1
  DEF ProgramStep, ServerDaemon, init_connection, select, read_ir, write_toallclients,
      add_client, read_client, remove_client, scan, write_ir, proper_end, Next, Daemon
<1>2. CASE Signalled
  BY <1>2 DEF Signalled, Next, Signals
<1>3. CASE Console
  BY <1>3 DEF Console, TypeToServer
<1>4. CASE LinuxRemote
  BY <1>4, LinuxIsRemote DEF Next
<1>5. CASE Heard
  BY <1>5 DEF Heard, Next
<1>6. CASE UNCHANGED sysVars
  BY <1>6 DEF sysVars
<1> QED
  BY <1>1, <1>2, <1>3, <1>4, <1>5, <1>6 DEF SystemNext

(* The two steps keep what irbrgd keeps. *)
LEMMA ServerStep ==
    ASSUME IInv, NoDevice \/ SelectStdin
    PROVE  IInv'
<1> USE DEF IInv
<1>1. /\ pc \in {"init", "select"} /\ pc' \in {"failed", "closing"}
      /\ pc' = "failed" \/ pc = "select"
      /\ UNCHANGED <<tableVars, netVars, irVars, sock, peer, loopVars, budget, history>>
      /\ open' \in {open, open \ {LircFd}}
  BY DEF NoDevice, SelectStdin, Goto, fdVars
<1>2. TypeOK'
  BY <1>1 DEF TypeOK, Labels, TableTypeOK, NetTypeOK, IrTypeOK, tableVars, netVars,
              irVars, loopVars, budget, history
<1>3. TableMatchesKernel'
  <2>1. Entries' = Entries /\ TableInv'
    BY <1>1 DEF tableVars, TableMatchesKernel, TableInv, TableTypeOK, NoDuplicates,
                Entries, Used
  <2>2. open' \cap Sockets = open \cap Sockets
    BY <1>1, BridgeAssumption
  <2> QED
    BY <1>1, <2>1, <2>2 DEF TableMatchesKernel
<1>4. LoopInv'
  BY <1>1 DEF LoopInv, loopVars
<1>5. BacklogInv'
  BY <1>1, BacklogFrame DEF netVars
<1>6. StreamInv'
  BY <1>1, StreamFrame DEF Over, tableVars, netVars, history
<1> QED
  BY <1>2, <1>3, <1>4, <1>5, <1>6

LEMMA SystemInductive == SystemSpec => []IInv
<1>1. SystemInit => IInv
  BY InitInv DEF SystemInit
<1>2. IInv /\ [SystemNext]_sysVars => IInv'
  <2> SUFFICES ASSUME IInv, [SystemNext]_sysVars PROVE IInv'
    OBVIOUS
  <2>1. CASE [Next]_vars
    BY <2>1, TypeStep, TableStep, LoopStep, BacklogStep, StreamStep DEF IInv
  <2> QED
    BY <2>1, SystemStep, ServerStep
<1> QED
  BY <1>1, <1>2, PTL DEF SystemSpec

(* With either program and any number of Linux clients, every connected    *)
(* client is sent the same stream of frames from where it joined           *)
(* (write_toallclients, irbrgd/server.c:132 and server/server.c:131).      *)
THEOREM SystemStream == SystemSpec => []SameStream
<1>1. IInv => SameStream
  BY StreamOfInvariant
<1> QED
  BY <1>1, SystemInductive, PTL

(* With either program the table holds the open descriptors of clients and *)
(* nothing else, until the program has closed them.                        *)
THEOREM SystemTable == SystemSpec => []TableMatchesKernel
<1>1. IInv => TableMatchesKernel
  BY DEF IInv
<1> QED
  BY <1>1, SystemInductive, PTL

(* Two commands that reach the program together are refused: each is a     *)
(* train that the device takes (the encoders end a command with a pulse),  *)
(* and the two in one buffer are not (main.c:394-412, ir_nec.c:87).        *)
THEOREM JoinedRefused ==
    ASSUME NEW m \in Nat, NEW n \in Nat, Accepts(m), Accepts(n)
    PROVE  ~Accepts(m + n)
BY DEF Accepts
=============================================================================
