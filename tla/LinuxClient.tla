---------------------------- MODULE LinuxClient ----------------------------
(***************************************************************************)
(* The Linux client (clients/linux: main.c, client.c): one thread around   *)
(* select() over its standard input and its socket.                        *)
(*                                                                         *)
(* A step is one turn of its loop, or its start: what happens between two  *)
(* calls of one turn commutes with everything the others do, since its own *)
(* send() does not wait (the kernel takes more than a user types).  The    *)
(* exception is the read() of a line that is not finished, which holds the *)
(* client until the user goes on.                                          *)
(*                                                                         *)
(* The module adds the programs to the connections of Network, which the   *)
(* daemon shares.  The infrared data a client receives are decoded as      *)
(* Codec says; nothing of them comes back here.                            *)
(***************************************************************************)
EXTENDS BridgeProperties

CONSTANTS
    Linux,              \* the clients that run this program
    MaxLines            \* bound: lines typed to a client, the end of its input included

ASSUME LinuxAssumption == Linux \subseteq Clients /\ MaxLines \in Nat

VARIABLES
    at,                 \* where each client is
    input,              \* what waits on its standard input
    typed               \* lines typed so far

linuxVars == <<at, input, typed>>

(* "late": the client has sent something to a daemon that is gone. *)
Places == {"start", "run", "late", "gone"}

(* A line is known by its last character: '1', '2' and '3' send a command, *)
(* 'q' quits, and the rest prints the help.                                *)
Keys == {"command", "quit", "other"}

(* "part" is text without the end of its line, "empty" an empty line, and  *)
(* "eof" the end of the input, which comes to stay.                        *)
Inputs == Keys \cup {"none", "part", "empty", "eof"}

LinuxTypeOK ==
    /\ at \in [Linux -> Places]
    /\ input \in [Linux -> Inputs]
    /\ typed \in [Linux -> 0..MaxLines]

LinuxInit ==
    /\ at = [c \in Linux |-> "start"]
    /\ input = [c \in Linux |-> "none"]
    /\ typed = [c \in Linux |-> 0]

Running(c) == at[c] \in {"run", "late"}
Become(c, place) == at' = [at EXCEPT ![c] = place]

(* The client waits in read() for the end of a line, or finds its input at *)
(* its end in every turn; in both cases it does not look at its socket.    *)
Held(c) == Running(c) /\ input[c] \in {"part", "eof"}

----------------------------------------------------------------------------
(* The user. *)

(* A command is given while the client may send it (the bound MaxSent). *)
MayGive(c, k) == k = "command" => \E n \in Segments : sent[c] + n <= MaxSent

(* A line, a part of one, or the end of the input; what is there before  *)
(* the client runs is read as if it came then.                            *)
Type(c) ==
    /\ Running(c)
    /\ \/ /\ input[c] = "none" /\ typed[c] < MaxLines
          /\ \E k \in Inputs \ {"none"} : MayGive(c, k) /\ input' = [input EXCEPT ![c] = k]
          /\ typed' = [typed EXCEPT ![c] = @ + 1]
       \/ /\ input[c] = "part"
          /\ \E k \in Keys : MayGive(c, k) /\ input' = [input EXCEPT ![c] = k]
          /\ UNCHANGED typed
    /\ UNCHANGED <<vars, at>>

----------------------------------------------------------------------------
(* The start. *)

(* init_connection(): the kernel of the daemon takes the connection. *)
Connects(c) ==
    /\ at[c] = "start"
    /\ ~Over /\ SockFd \in open /\ Connect(c)
    /\ Become(c, "run")
    /\ UNCHANGED <<notNet, input, typed>>

(* connect() is refused where nobody listens: -1, and main() exits. *)
Refused(c) ==
    /\ at[c] = "start"
    /\ Over \/ SockFd \notin open
    /\ Become(c, "gone")
    /\ UNCHANGED <<vars, input, typed>>

----------------------------------------------------------------------------
(* A turn of the loop. *)

(* What recv() finds.  The process of the daemon being gone, its kernel    *)
(* has closed the connection, or reset it: when it was never accepted, or  *)
(* when something the client sent was not read.                            *)
Received(c) ==
    IF ~Over THEN IF rd[c] < Len(out[c]) THEN "data" ELSE "nothing"
    ELSE IF taken[c] < sent[c] \/ at[c] = "late" \/ (\E k \in 1..Len(backlog) : backlog[k] = c)
         THEN "error" ELSE "end"

(* A mutant of InSet: CLR_MAX_FD() after the standard input, so that       *)
(* select() is given MAX_FD = 1.                                           *)
InSetStdin(c) == {"stdin"}

InSet(c) == {"stdin", "socket"}

(* What select() returns. *)
Selected(c) ==
    {fd \in InSet(c) : IF fd = "stdin" THEN input[c] # "none" ELSE Received(c) # "nothing"}

(* What the variable "c" holds when the line is read.  Nothing is kept of  *)
(* an empty line or at the end of the input: the variable is then not      *)
(* initialised, and may hold any character, the last one typed included.   *)
KeyRead(c) == IF input[c] \in Keys THEN {input[c]} ELSE Keys

(* The line is taken from the input, the end of which stays. *)
TakeLine(c) == input' = [input EXCEPT ![c] = IF @ = "eof" THEN "eof" ELSE "none"]

(* The input has precedence; the loop that reads it waits for its end. *)
LineReady(c) == Running(c) /\ "stdin" \in Selected(c) /\ input[c] # "part"

(* end_connection() and the end of the process, its input with it. *)
Leave(c) ==
    /\ Become(c, "gone")
    /\ input' = [input EXCEPT ![c] = "none"]
    /\ IF Over THEN UNCHANGED netVars ELSE ClientClose(c)
    /\ UNCHANGED notNet

Quit(c) ==
    /\ LineReady(c) /\ "quit" \in KeyRead(c)
    /\ Leave(c)
    /\ UNCHANGED typed

(* The user ends the client, wherever it is in its loop. *)
Killed(c) ==
    /\ Running(c)
    /\ Leave(c)
    /\ UNCHANGED typed

Help(c) ==
    /\ LineReady(c) /\ "other" \in KeyRead(c)
    /\ TakeLine(c)
    /\ UNCHANGED <<vars, at, typed>>

(* write_server() of a command, encoded in one buffer. *)
SendCommand(c) ==
    /\ LineReady(c) /\ "command" \in KeyRead(c)
    /\ ~Over
    /\ \E n \in Segments : ClientSend(c, n)
    /\ TakeLine(c)
    /\ UNCHANGED <<notNet, at, typed>>

(* The same when the daemon is gone: the send() succeeds or returns an     *)
(* error that is only logged, and is answered by a reset; with the next    *)
(* one SIGPIPE ends the client.                                            *)
SendLate(c) ==
    /\ LineReady(c) /\ "command" \in KeyRead(c)
    /\ Over
    /\ TakeLine(c)
    /\ \/ Become(c, "late")
       \/ at[c] = "late" /\ Become(c, "gone")
    /\ UNCHANGED <<vars, typed>>

(* The socket is looked at only where the input has nothing. *)
SocketReady(c) == Running(c) /\ Selected(c) = {"socket"}

(* read_server() and the decoding of what it returns. *)
Receive(c) ==
    /\ SocketReady(c) /\ Received(c) = "data"
    /\ ClientRead(c)
    /\ UNCHANGED <<notNet, linuxVars>>

(* A mutant of Disconnects: read_server() returns the error of recv().  *)
DisconnectsAtEnd(c) == Received(c) = "end"

(* read_server() returns 0 for the end of the stream and for an error. *)
Disconnects(c) == Received(c) \in {"end", "error"}

(* "server disconnected!": the loop is left. *)
Disconnected(c) ==
    /\ SocketReady(c) /\ Disconnects(c)
    /\ Become(c, "gone")
    /\ UNCHANGED <<vars, input, typed>>

----------------------------------------------------------------------------
(* What the program does, and what is done to it. *)
Turn(c) ==
    \/ Connects(c) \/ Refused(c)
    \/ Quit(c) \/ Help(c) \/ SendCommand(c) \/ SendLate(c)
    \/ Receive(c) \/ Disconnected(c)

User(c) == Type(c) \/ Killed(c)

LinuxStep == \E c \in Linux : Turn(c) \/ User(c)

(* The other clients, of which nothing is assumed, and the kernel. *)
OtherClients ==
    /\ ~Over
    /\ \/ \E c \in Clients \ Linux :
            \/ SockFd \in open /\ Connect(c)
            \/ \E n \in Segments : ClientSend(c, n)
            \/ ClientRead(c)
            \/ ClientClose(c)
       \/ \E c \in Clients : ResetArrives(c)
    /\ UNCHANGED notNet

LinuxRemote == LinuxStep \/ (OtherClients /\ UNCHANGED linuxVars)
=============================================================================
