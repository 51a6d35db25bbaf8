------------------------------- MODULE Server -------------------------------
(***************************************************************************)
(* The older server (raspberrypi/server: main.c, server.c), from which     *)
(* irbrgd comes.  It runs in the foreground: its loop also selects its     *)
(* standard input, which ends it, and it handles no signal, has no led and *)
(* knows nothing of the scale.                                             *)
(*                                                                         *)
(* What it has in common with irbrgd are the steps of Bridge; each         *)
(* operator below says which of them make up a part of the older code.     *)
(***************************************************************************)
EXTENDS BridgeProperties

VARIABLE stdin          \* "quiet", or "typed": a line or the end of the input

ServerInit == stdin = "quiet"

(* What /dev/lirc0 may turn out to be. *)
Devices == {"mode2", "fifo", "file", "norec", "othermode", "missing"}

(* The checks of main() let a pipe pass, where no ioctl() can be made, and *)
(* a character device that receives in mode2.  A device that is missing    *)
(* passes the test of open(), which is for 0, and fails the ioctl().       *)
Usable == {"mode2", "fifo"}

NoDevice ==
    /\ \E d \in Devices : d \notin Usable
    /\ Goto("init", "failed")
    /\ open' = open \ {LircFd}
    /\ UNCHANGED <<tableVars, netVars, irVars, sock, peer, loopVars, budget, history>>

init_connection == Listen \/ BadPort \/ ListenFails

(* A mutant of StdinReady: STDIN_FILENO is put in the set once, before the *)
(* loop, so that the first select() that returns something else drops it.  *)
StdinReadyOnce == stdin = "typed" /\ relay = << >> /\ count = 0

(* The set of each turn has STDIN_FILENO: what is typed while the loop is  *)
(* elsewhere is there when it comes back to select().                      *)
StdinReady == stdin = "typed"

(* "Something from STDIN" has precedence, and leaves the loop. *)
SelectStdin ==
    /\ StdinReady
    /\ rdfs \subseteq open
    /\ Goto("select", "closing")
    /\ UNCHANGED <<tableVars, netVars, irVars, fdVars, loopVars, budget, history>>

(* The set and select(); the rest is served when the input is quiet. *)
select == BuildFdSet \/ SelectFails \/ (~StdinReady /\ Select)

read_ir == ReadIr \/ ReadIrFails

add_client == Accept \/ AcceptOverrun \/ AcceptFails

(* The broadcast of what was read; nothing follows it here. *)
write_toallclients == SendPart \/ SendToClosed \/ SendToReset \/ SendToBroken \/ SendDone

read_client == ScanRead

(* The entries behind the client move up, and the loop goes on with the *)
(* next index, as in irbrgd.                                            *)
remove_client == ScanRemove

(* The clients in turn, until one has sent something. *)
scan == read_client \/ remove_client \/ ScanDone

(* What the client sent is written to the device, the pause, the flush; *)
(* "break" leaves the other clients to the next turn.                   *)
write_ir == WriteIr \/ WriteIrFails \/ Settle \/ Flush

(* close(fd), clear_clients(), end_connection(sock), "proper end". *)
proper_end == Shutdown

(* There is no led to blink: Blink only passes to the loop. *)
ServerDaemon ==
    \/ NoDevice \/ init_connection \/ Blink
    \/ select \/ SelectStdin
    \/ read_ir \/ write_toallclients
    \/ add_client \/ scan \/ write_ir
    \/ proper_end

(* Somebody types a line, or the standard input comes to its end. *)
TypeToServer ==
    /\ ~Over
    /\ stdin' = "typed"
    /\ UNCHANGED vars
=============================================================================
