------------------------------- MODULE Bridge -------------------------------
(***************************************************************************)
(* The daemon irbrgd once it is started: main_demonized() of               *)
(* raspberrypi/irbrgd/main.c with the client table of server.c, between    *)
(* the infrared device and the TCP clients.                                *)
(*                                                                         *)
(* The daemon is one thread around select().  What makes it hard is what   *)
(* happens between two of its system calls: frames are heard, clients      *)
(* connect, send, read late, close or reset, and signals arrive.  Each     *)
(* system call is therefore a step of its own, and the plain C between two *)
(* calls belongs to the step it follows.                                   *)
(***************************************************************************)
EXTENDS ClientTable, Network, IrDevice

CONSTANTS
    NoClient,           \* the peer of a descriptor that is not open
    LircFd, SockFd,     \* descriptors of the device and of the listening socket
    Errno,              \* what errno holds when socket(), bind() or listen() fails
    BufSize,            \* samples that one recv() returns at most (BUF_SIZE bytes)
    Starfrit,           \* conf.starfrit
    PortOK,             \* whether conf.port is between 1 and 65000: the cases considered
    MaxHup,             \* bound: SIGHUPs sent ("irbrgd stop")
    MayTerm,            \* SIGTERM may be sent
    MaxFaults           \* bound: failures of read, write, accept, bind

ASSUME BridgeAssumption ==
    /\ NoClient \notin Clients
    /\ LircFd \in Nat \ {0} /\ SockFd \in Nat \ {0} /\ Errno \in Nat \ {0}
    /\ LircFd # SockFd /\ Errno # SockFd
    /\ LircFd \notin Sockets /\ SockFd \notin Sockets /\ Errno \notin Sockets
    /\ Errno # LircFd
    /\ BufSize \in Nat \ {0}
    /\ Starfrit \in BOOLEAN /\ PortOK \subseteq BOOLEAN /\ MayTerm \in BOOLEAN
    /\ MaxHup \in Nat /\ MaxFaults \in Nat

VARIABLES
    pc,                 \* the system call the daemon is at
    sock,               \* the variable "sock"
    open,               \* the descriptors that are open
    peer,               \* the client at the other end of each descriptor
    rdfs,               \* the descriptor set handed to, then returned by, select()
    idx,                \* the index of the loop the daemon is in
    off,                \* frames of the buffer already sent to that client
    chunk,              \* frames read from the device, being sent to the clients
    cmd,                \* samples received from a client, for the device
    hups, faults,       \* counters of the bounded events
    mark,               \* history: air when select() last returned
    relay,              \* history: the frames the daemon has relayed
    join,               \* history: how long relay was when each client was accepted
    emitted             \* history: what the device has transmitted

loopVars == <<rdfs, idx, off, chunk, cmd>>
fdVars == <<sock, open, peer>>
history == <<mark, relay, join, emitted>>
budget == <<hups, faults>>
vars == <<pc, tableVars, netVars, irVars, fdVars, loopVars, budget, history>>

Labels == {"init", "blink", "build", "select", "ir", "send", "accept", "scan",
           "write", "settle", "flush", "closing",
           "ended", "failed", "terminated", "sigpipe", "undefined"}

(* The daemon has left main_demonized(), or the process is gone.  "undefined"  *)
(* stands for whatever follows a write or read outside an array.               *)
Over == pc \in {"ended", "failed", "terminated", "sigpipe", "undefined"}

Commands == [from : Clients, lo : Nat, hi : Nat]
NoCmd == << >>

TypeOK ==
    /\ TableTypeOK
    /\ NetTypeOK
    /\ IrTypeOK
    /\ pc \in Labels
    /\ sock \in {-1, 0, SockFd, Errno}
    /\ open \subseteq Sockets \cup {LircFd, SockFd}
    /\ peer \in [Sockets -> Clients \cup {NoClient}]
    /\ rdfs \subseteq Sockets \cup {LircFd, SockFd, Errno}
    /\ idx \in Nat /\ off \in Nat
    /\ chunk \in Seq(Nat)
    /\ cmd \in Commands \cup {NoCmd}
    /\ hups \in Nat /\ faults \in Nat
    /\ mark \in Nat
    /\ relay \in Seq(Nat)
    /\ join \in [Clients -> Nat]
    /\ emitted \in Seq(Commands)

Init ==
    /\ TableInit /\ NetInit /\ IrInit
    /\ pc = "init"
    /\ sock = 0
    /\ open = {LircFd}
    /\ peer = [s \in Sockets |-> NoClient]
    /\ rdfs = {} /\ idx = 0 /\ off = 0 /\ chunk = << >> /\ cmd = NoCmd
    /\ hups = 0 /\ faults = 0
    /\ mark = 0 /\ relay = << >> /\ join = [c \in Clients |-> 0] /\ emitted = << >>

Fault == faults < MaxFaults /\ faults' = faults + 1
Goto(here, there) == pc = here /\ pc' = there

----------------------------------------------------------------------------
(* Start: the listening socket. *)

Listen ==
    /\ TRUE \in PortOK
    /\ Goto("init", "blink")
    /\ sock' = SockFd
    /\ open' = open \cup {SockFd}
    /\ UNCHANGED <<tableVars, netVars, irVars, peer, loopVars, budget, history>>

(* init_connection() returns -1 for a bad port, and main_demonized() gives up. *)
BadPort ==
    /\ FALSE \in PortOK
    /\ Goto("init", "failed")
    /\ sock' = -1
    /\ open' = open \ {LircFd}
    /\ UNCHANGED <<tableVars, netVars, irVars, peer, loopVars, budget, history>>

(* When socket(), bind() or listen() fails it returns errno, a positive    *)
(* number, and the test "sock<=0" of main_demonized() does not see it.     *)
ListenFails ==
    /\ TRUE \in PortOK
    /\ Goto("init", "blink")
    /\ Fault
    /\ sock' = Errno
    /\ UNCHANGED <<tableVars, netVars, irVars, open, peer, loopVars, hups, history>>

Blink ==
    /\ Goto("blink", "build")
    /\ UNCHANGED <<tableVars, netVars, irVars, fdVars, loopVars, budget, history>>

----------------------------------------------------------------------------
(* The descriptor set and select(). *)

(* Mutants of FdSet: the loop over the clients stops one short; it goes    *)
(* one too far and does not test "csocket>0"; the device is forgotten.     *)
FdSetShort == {LircFd, sock} \cup {client(i) : i \in {j \in Slot : j + 1 < count}}
FdSetLong == {LircFd, sock} \cup {client(i) : i \in {j \in Slot : j <= count}}
FdSetNoDevice == {sock} \cup {client(i) : i \in Used}

FdSet == {LircFd, sock} \cup {client(i) : i \in {j \in Used : client(j) > 0}}

BuildFdSet ==
    /\ Goto("build", "select")
    /\ rdfs' = FdSet
    /\ idx' = 0 /\ off' = 0 /\ chunk' = << >> /\ cmd' = NoCmd
    /\ UNCHANGED <<tableVars, netVars, irVars, fdVars, budget, history>>

(* A mutant of Watched: select() is given the largest descriptor itself. *)
WatchedShort == {fd \in rdfs : \E g \in rdfs : fd < g}

(* MAX_FD: one more than the largest descriptor that ADD_MAX_FD was given, *)
(* so that select() looks at all of them.                                  *)
Watched == {fd \in rdfs : \E g \in rdfs : fd < g + 1}

IsReady(fd) ==
    \/ fd = LircFd /\ lircq # << >>
    \/ fd = SockFd /\ backlog # << >>
    \/ fd \in Sockets /\ fd \in open /\ Readable(peer[fd])

Ready == {fd \in Watched : IsReady(fd)}

(* A mutant of Branch: the clients before the device. *)
BranchClientsFirst(R) ==
    IF sock \in R THEN "accept" ELSE IF R \cap Sockets # {} THEN "scan" ELSE "ir"

(* What the loop serves when select() returns R: the device before the     *)
(* listening socket, and that before the clients.                          *)
Branch(R) ==
    IF LircFd \in R THEN "ir" ELSE IF sock \in R THEN "accept" ELSE "scan"

Select ==
    /\ rdfs \subseteq open
    /\ Ready # {}
    /\ Goto("select", Branch(Ready))
    /\ rdfs' = Ready
    /\ mark' = air
    /\ UNCHANGED <<tableVars, netVars, irVars, fdVars, idx, off, chunk, cmd,
                   budget, relay, join, emitted>>

(* select() returns EBADF for a descriptor that is not open: the loop is   *)
(* left by "return errno" and nothing is closed.                           *)
SelectFails ==
    /\ ~(rdfs \subseteq open)
    /\ Goto("select", "failed")
    /\ UNCHANGED <<tableVars, netVars, irVars, fdVars, loopVars, budget, history>>

----------------------------------------------------------------------------
(* From the device to the clients. *)

ReadIr ==
    /\ lircq # << >>
    /\ Goto("ir", "send")
    /\ chunk' = Frames
    /\ lircq' = Unread
    /\ relay' = relay \o Frames
    /\ UNCHANGED <<tableVars, netVars, echo, air, fdVars, rdfs, idx, off, cmd,
                   budget, mark, join, emitted>>

(* read() fails: nothing is sent, but starfrit_process() is called with    *)
(* the length -1 and decodes what lies behind the buffer.                  *)
ReadIrFails ==
    /\ Goto("ir", IF Starfrit THEN "undefined" ELSE "build")
    /\ Fault
    /\ UNCHANGED <<tableVars, netVars, irVars, fdVars, loopVars, hups, history>>

(* The client whose turn it is in write_toallclients(). *)
Receiver == peer[client(idx)]

NextReceiver == idx' = idx + 1 /\ off' = 0

(* One frame of the buffer is accepted by the kernel.  The send() of the   *)
(* whole buffer returns with its last frame; until then the daemon waits   *)
(* for this client to read.                                                *)
SendPart ==
    /\ pc = "send" /\ idx < count
    /\ CanSend(Receiver)
    /\ SendFrame(Receiver, chunk[off + 1])
    /\ IF off + 1 = Len(chunk) THEN NextReceiver ELSE off' = off + 1 /\ UNCHANGED idx
    /\ UNCHANGED <<pc, tableVars, conn, backlog, sent, taken, rd, irVars, fdVars,
                   rdfs, chunk, cmd, budget, history>>

(* A mutant of SendToClosed: the broadcast ends with the first client that *)
(* has gone.                                                               *)
SendToClosedStops ==
    /\ pc = "send" /\ idx < count
    /\ conn[Receiver] \in {"fin", "finsent"}
    /\ conn' = [conn EXCEPT ![Receiver] = "finsent"]
    /\ idx' = count /\ off' = 0
    /\ UNCHANGED <<pc, tableVars, backlog, sent, taken, out, rd, irVars, fdVars,
                   rdfs, chunk, cmd, budget, history>>

(* send() to a client that has closed: it succeeds, and its kernel answers *)
(* with a reset.                                                           *)
SendToClosed ==
    /\ pc = "send" /\ idx < count
    /\ conn[Receiver] \in {"fin", "finsent"}
    /\ conn' = [conn EXCEPT ![Receiver] = "finsent"]
    /\ NextReceiver
    /\ UNCHANGED <<pc, tableVars, backlog, sent, taken, out, rd, irVars, fdVars,
                   rdfs, chunk, cmd, budget, history>>

(* send() returns ECONNRESET: it is logged and the next client has its turn. *)
SendToReset ==
    /\ pc = "send" /\ idx < count
    /\ conn[Receiver] = "rst"
    /\ conn' = [conn EXCEPT ![Receiver] = "pipe"]
    /\ NextReceiver
    /\ UNCHANGED <<pc, tableVars, backlog, sent, taken, out, rd, irVars, fdVars,
                   rdfs, chunk, cmd, budget, history>>

(* send() raises SIGPIPE, for which daemonize() installs no handler. *)
SendToBroken ==
    /\ idx < count
    /\ conn[Receiver] = "pipe"
    /\ Goto("send", "sigpipe")
    /\ UNCHANGED <<tableVars, netVars, irVars, fdVars, loopVars, budget, history>>

(* Every client has had its turn; starfrit_process() reads the same buffer *)
(* and changes nothing of the bridge.                                      *)
SendDone ==
    /\ idx >= count
    /\ Goto("send", "build")
    /\ UNCHANGED <<tableVars, netVars, irVars, fdVars, loopVars, budget, history>>

----------------------------------------------------------------------------
(* New clients. *)

FreeFds == Sockets \ open

(* accept() returns the lowest descriptor that is free, and the client     *)
(* takes the entry _clients[_clients_count].                               *)
Accept ==
    /\ backlog # << >>
    /\ HasSlot
    /\ Goto("accept", "build")
    /\ \E fd \in FreeFds :
         /\ \A g \in FreeFds : fd <= g
         /\ open' = open \cup {fd}
         /\ peer' = [peer EXCEPT ![fd] = Head(backlog)]
         /\ AddClient(fd)
    /\ join' = [join EXCEPT ![Head(backlog)] = Len(relay)]
    /\ backlog' = Tail(backlog)
    /\ UNCHANGED <<conn, sent, taken, out, rd, irVars, sock, loopVars, budget,
                   mark, relay, emitted>>

(* The array is full: add_client() does not look, and writes past its end. *)
AcceptOverrun ==
    /\ backlog # << >>
    /\ ~HasSlot
    /\ FreeFds # {}
    /\ Goto("accept", "undefined")
    /\ UNCHANGED <<tableVars, netVars, irVars, fdVars, loopVars, budget, history>>

(* accept() fails and the connection stays where it is: no descriptor is   *)
(* free, or the kernel is out of memory.  add_client() logs and returns.   *)
AcceptFails ==
    /\ Goto("accept", "build")
    /\ \/ FreeFds = {} /\ UNCHANGED faults
       \/ Fault
    /\ UNCHANGED <<tableVars, netVars, irVars, fdVars, loopVars, hups, history>>

----------------------------------------------------------------------------
(* From a client to the device. *)

(* A mutant of ScanAt: FD_ISSET is not asked. *)
ScanAtAny(i) == i \in Used /\ i = idx

(* The loop over the clients has come to index i: the first from idx on    *)
(* whose descriptor is in the set.                                         *)
ScanAt(i) ==
    /\ i \in Used /\ i >= idx /\ client(i) \in rdfs
    /\ \A j \in Used : j >= idx /\ j < i => client(j) \notin rdfs

(* read_client(): what has arrived, up to BUF_SIZE. *)
ScanRead ==
    /\ Goto("scan", "write")
    /\ \E i \in Slot :
         LET c == peer[client(i)]
             n == RecvCount(c, BufSize)
         IN /\ ScanAt(i)
            /\ Avail(c) > 0
            /\ idx' = i
            /\ taken' = [taken EXCEPT ![c] = @ + n]
            /\ cmd' = [from |-> c, lo |-> taken[c], hi |-> taken[c] + n]
    /\ UNCHANGED <<tableVars, conn, backlog, sent, out, rd, irVars, fdVars,
                   rdfs, off, chunk, budget, history>>

(* read_client() returns 0, at the end of the stream or on an error: the   *)
(* client is removed, and the loop goes on with the next index, at which   *)
(* the client after the next one now stands.                               *)
ScanRemove ==
    /\ pc = "scan"
    /\ \E i \in Slot :
         LET fd == client(i) IN
            /\ ScanAt(i)
            /\ AtEnd(peer[fd])
            /\ RemoveClient(fd)
            /\ open' = open \ {fd}
            /\ peer' = [peer EXCEPT ![fd] = NoClient]
            /\ conn' = [conn EXCEPT ![peer[fd]] = "shut"]
            /\ idx' = i + 1
    /\ UNCHANGED <<pc, backlog, sent, taken, out, rd, irVars, sock, rdfs, off,
                   chunk, cmd, budget, history>>

ScanDone ==
    /\ Goto("scan", "build")
    /\ \A i \in Slot : ~ScanAt(i)
    /\ UNCHANGED <<tableVars, netVars, irVars, fdVars, loopVars, budget, history>>

(* A mutant of Transmission: the whole buffer is written, as full as it can be. *)
TransmissionFull == [cmd EXCEPT !.hi = cmd.lo + BufSize]

Transmission == cmd

(* write() of what was received; the device transmits it. *)
WriteIr ==
    /\ Goto("write", "settle")
    /\ Accepts(cmd.hi - cmd.lo)
    /\ emitted' = Append(emitted, Transmission)
    /\ echo' = TRUE
    /\ UNCHANGED <<tableVars, netVars, lircq, air, fdVars, loopVars, budget,
                   mark, relay, join>>

(* write() refuses the train, or fails: it is logged, and the flush follows. *)
WriteIrFails ==
    /\ Goto("write", "settle")
    /\ \/ ~Accepts(cmd.hi - cmd.lo) /\ UNCHANGED faults
       \/ Fault
    /\ UNCHANGED <<tableVars, netVars, irVars, fdVars, loopVars, hups, history>>

(* usleep(100 ms) runs to its end: the transmission has been heard by then. *)
Settle ==
    /\ ~echo
    /\ Goto("settle", "flush")
    /\ UNCHANGED <<tableVars, netVars, irVars, fdVars, loopVars, budget, history>>

(* A mutant of Flush: the device is left as it is. *)
FlushNothing ==
    /\ Goto("flush", "build")
    /\ UNCHANGED <<tableVars, netVars, irVars, fdVars, loopVars, budget, history>>

(* The non-blocking reads that empty the device, frames from the air too. *)
Flush ==
    /\ Goto("flush", "build")
    /\ lircq' = << >>
    /\ UNCHANGED <<tableVars, netVars, echo, air, fdVars, loopVars, budget, history>>

----------------------------------------------------------------------------
(* The end. *)

(* A mutant of Shutdown: clear_clients() is not called. *)
ShutdownNoClear ==
    /\ Goto("closing", "ended")
    /\ open' = open \ {LircFd, sock}
    /\ UNCHANGED <<tableVars, netVars, irVars, sock, peer, loopVars, budget, history>>

(* close(fd), clear_clients(), end_connection(sock); clear_clients() closes *)
(* every entry of the table and leaves the table as it is.                  *)
Shutdown ==
    /\ Goto("closing", "ended")
    /\ open' = open \ ({LircFd, sock} \cup Entries)
    /\ UNCHANGED <<tableVars, netVars, irVars, sock, peer, loopVars, budget, history>>

(* A mutant of HangupInSelect: the loop is also left when select() has     *)
(* something to return.                                                    *)
HangupInSelectAny == Goto("select", "closing")

(* SIGHUP, what "irbrgd stop" sends.  The handler only logs: the signal    *)
(* ends the loop if it interrupts select(), ends the sleep if it           *)
(* interrupts usleep(), and has no effect anywhere else, where the call    *)
(* is restarted (signal() sets SA_RESTART).                                *)
HangupInSelect ==
    /\ Ready = {} /\ rdfs \subseteq open
    /\ Goto("select", "closing")

HangupInSleep == Goto("settle", "flush")

HangupElsewhere ==
    /\ ~(pc = "select" /\ Ready = {} /\ rdfs \subseteq open)
    /\ pc # "settle"
    /\ UNCHANGED pc

Hangup ==
    /\ ~Over
    /\ hups < MaxHup
    /\ hups' = hups + 1
    /\ HangupInSelect \/ HangupInSleep \/ HangupElsewhere
    /\ UNCHANGED <<tableVars, netVars, irVars, fdVars, loopVars, faults, history>>

(* SIGTERM: the handler calls exit(0). *)
Terminate ==
    /\ MayTerm
    /\ ~Over
    /\ pc' = "terminated"
    /\ UNCHANGED <<tableVars, netVars, irVars, fdVars, loopVars, budget, history>>

----------------------------------------------------------------------------
Daemon ==
    \/ Listen \/ BadPort \/ ListenFails \/ Blink
    \/ BuildFdSet \/ Select \/ SelectFails
    \/ ReadIr \/ ReadIrFails
    \/ SendPart \/ SendToClosed \/ SendToReset \/ SendToBroken \/ SendDone
    \/ Accept \/ AcceptOverrun \/ AcceptFails
    \/ ScanRead \/ ScanRemove \/ ScanDone
    \/ WriteIr \/ WriteIrFails \/ Settle \/ Flush
    \/ Shutdown

Signals == Hangup \/ Terminate

notNet == <<pc, tableVars, irVars, fdVars, loopVars, budget, history>>
notIr == <<pc, tableVars, netVars, fdVars, loopVars, budget, history>>

(* A client can connect once the socket listens, and while the process lives. *)
Remote ==
    /\ ~Over
    /\ \E c \in Clients :
         \/ SockFd \in open /\ Connect(c)
         \/ \E n \in Segments : ClientSend(c, n)
         \/ ClientRead(c)
         \/ ClientClose(c)
         \/ ResetArrives(c)
    /\ UNCHANGED notNet

Infrared ==
    /\ ~Over
    /\ AirFrame \/ EchoEnds
    /\ UNCHANGED notIr

Next == Daemon \/ Signals \/ Remote \/ Infrared

Spec == Init /\ [][Next]_vars

(* The daemon is scheduled, a transmission ends, and clients read what     *)
(* they are sent: without the last, send() may block the daemon for good.  *)
Reads(c) == ~Over /\ ClientRead(c) /\ UNCHANGED notNet
Hears == ~Over /\ EchoEnds /\ UNCHANGED notIr

Fairness ==
    /\ WF_vars(Daemon)
    /\ WF_vars(Hears)
    /\ \A c \in Clients : WF_vars(Reads(c))

FairSpec == Spec /\ Fairness
=============================================================================
