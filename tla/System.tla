------------------------------- MODULE System -------------------------------
(***************************************************************************)
(* A Raspberry Pi with one of the two programs that bridge, irbrgd or the  *)
(* older server, and Linux clients beside others.  It is where the clients *)
(* that Bridge leaves free get their own rules: Linux clients read what    *)
(* they are sent because of how they are written, unless their user holds  *)
(* them.                                                                   *)
(***************************************************************************)
EXTENDS LinuxClient, Server

CONSTANT Programs       \* those considered

ASSUME ProgramsAssumption == Programs \subseteq {"irbrgd", "server"}

VARIABLE prog           \* the program that runs

sysVars == <<vars, linuxVars, stdin, prog>>

SystemInit ==
    /\ Init /\ LinuxInit /\ ServerInit
    /\ prog \in Programs

(* A step of the program; irbrgd looks at no standard input. *)
ProgramStep ==
    /\ \/ prog = "irbrgd" /\ Daemon
       \/ prog = "server" /\ ServerDaemon
    /\ UNCHANGED <<linuxVars, stdin, prog>>

(* The older server has no handler: every signal ends it at once. *)
Signalled ==
    /\ \/ Terminate
       \/ prog = "irbrgd" /\ Hangup
    /\ UNCHANGED <<linuxVars, stdin, prog>>

Console ==
    /\ prog = "server" /\ TypeToServer
    /\ UNCHANGED <<linuxVars, prog>>

Heard == Infrared /\ UNCHANGED <<linuxVars, stdin, prog>>

SystemNext ==
    \/ ProgramStep \/ Signalled \/ Console
    \/ LinuxRemote /\ UNCHANGED <<stdin, prog>>
    \/ Heard

SystemSpec == SystemInit /\ [][SystemNext]_sysVars

(* The processes are scheduled, a transmission ends, and the other clients *)
(* read.  Nothing is assumed of the users.                                 *)
SystemFairness ==
    /\ WF_sysVars(ProgramStep)
    /\ WF_sysVars(Hears /\ UNCHANGED <<linuxVars, stdin, prog>>)
    /\ \A c \in Linux : WF_sysVars(Turn(c) /\ UNCHANGED <<stdin, prog>>)
    /\ \A c \in Clients \ Linux : WF_sysVars(Reads(c) /\ UNCHANGED <<linuxVars, stdin, prog>>)

FairSystemSpec == SystemSpec /\ SystemFairness

----------------------------------------------------------------------------
(* A Linux client that nobody holds reads what it is sent, although its    *)
(* input comes first in every turn.  Bridge.Fairness assumes this of the   *)
(* clients: without it one send() stops the daemon for all.                *)
ReadsWhatItIsSent ==
    \A c \in Linux :
       \/ <>[]Held(c)
       \/ (Running(c) /\ rd[c] < Len(out[c])) ~> (rd[c] = Len(out[c]) \/ ~Running(c) \/ Over)

(* "server disconnected!", clients/linux/main.c:147: a Linux client ends   *)
(* when the program at the other end does, in whatever way its connection  *)
(* was closed; only a user who holds it keeps it.                          *)
DisconnectNoticed ==
    \A c \in Linux : <>[]Held(c) \/ (Over ~> at[c] = "gone")

(* The older server ends when something is typed, whatever its loop is     *)
(* doing then: unlike irbrgd it misses no request to stop.  Only a client  *)
(* that is held for good may stop it in a send() before it.                *)
StdinEnds ==
    <>[](\E c \in Linux : Held(c)) \/ (stdin = "typed" ~> Over)
=============================================================================
