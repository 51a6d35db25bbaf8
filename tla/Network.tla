------------------------------ MODULE Network ------------------------------
(***************************************************************************)
(* The clients' ends of the TCP connections of the daemon, and what the    *)
(* kernel keeps for each connection.  None of it is code of src/: it is    *)
(* the part of Linux's TCP that the daemon's calls to accept(), recv(),    *)
(* send() and close() meet, in blocking mode and with SIGPIPE not ignored, *)
(* as server.c uses them.                                                  *)
(*                                                                         *)
(* The data are abstract.  What a client sends is a stream of samples,     *)
(* numbered from 0, so that two numbers are enough: how many it has sent   *)
(* and how many the daemon has received.  What the daemon sends to a       *)
(* client is the sequence of what it passed to send().                     *)
(***************************************************************************)
EXTENDS Naturals, Sequences

CONSTANTS
    Clients,            \* the programs that connect, each at most once
    Segments,           \* how many samples one send() of a client may carry
    MaxSent,            \* bound: samples a client sends in all
    SndBuf              \* frames the kernel holds for a client that does not read

ASSUME NetworkAssumption ==
    /\ Segments \subseteq Nat \ {0}
    /\ MaxSent \in Nat
    /\ SndBuf \in Nat \ {0}

VARIABLES
    conn,               \* state of each client's connection
    backlog,            \* clients connected and not yet accepted
    sent,               \* samples each client has sent
    taken,              \* of these, the ones the daemon has received
    out,                \* what the daemon has sent to each client
    rd                  \* of these, the ones the client has read

netVars == <<conn, backlog, sent, taken, out, rd>>

(***************************************************************************)
(* "est"       both ends are open;                                         *)
(* "fin"       the client has closed its end, having read all it was sent; *)
(* "finsent"   and the daemon has sent to it since: a reset is on its way; *)
(* "rst"       the client closed with data unread: the connection is reset *)
(*             and the next send() or recv() returns ECONNRESET;           *)
(* "pipe"      the next send() returns EPIPE and raises SIGPIPE;           *)
(* "shut"      the daemon has closed its end.                              *)
(***************************************************************************)
ConnStates == {"none", "est", "fin", "finsent", "rst", "pipe", "shut"}

NetTypeOK ==
    /\ conn \in [Clients -> ConnStates]
    /\ backlog \in Seq(Clients)
    /\ sent \in [Clients -> Nat]
    /\ taken \in [Clients -> Nat]
    /\ out \in [Clients -> Seq(Nat)]
    /\ rd \in [Clients -> Nat]

NetInit ==
    /\ conn = [c \in Clients |-> "none"]
    /\ backlog = << >>
    /\ sent = [c \in Clients |-> 0]
    /\ taken = [c \in Clients |-> 0]
    /\ out = [c \in Clients |-> << >>]
    /\ rd = [c \in Clients |-> 0]

----------------------------------------------------------------------------
(* The clients' steps. *)

(* connect(): the kernel completes the handshake before accept() is called. *)
Connect(c) ==
    /\ conn[c] = "none"
    /\ conn' = [conn EXCEPT ![c] = "est"]
    /\ backlog' = Append(backlog, c)
    /\ UNCHANGED <<sent, taken, out, rd>>

(* The samples of one send() arrive together. *)
ClientSend(c, n) ==
    /\ conn[c] = "est"
    /\ sent[c] + n <= MaxSent
    /\ sent' = [sent EXCEPT ![c] = @ + n]
    /\ UNCHANGED <<conn, backlog, taken, out, rd>>

ClientRead(c) ==
    /\ conn[c] = "est"
    /\ rd[c] < Len(out[c])
    /\ rd' = [rd EXCEPT ![c] = Len(out[c])]
    /\ UNCHANGED <<conn, backlog, sent, taken, out>>

(* close() or the client's death: a FIN, or a reset if it leaves data unread. *)
ClientClose(c) ==
    /\ conn[c] = "est"
    /\ conn' = [conn EXCEPT ![c] = IF rd[c] = Len(out[c]) THEN "fin" ELSE "rst"]
    /\ UNCHANGED <<backlog, sent, taken, out, rd>>

(* The client's kernel answers what was sent to a closed socket. *)
ResetArrives(c) ==
    /\ conn[c] = "finsent"
    /\ conn' = [conn EXCEPT ![c] = "pipe"]
    /\ UNCHANGED <<backlog, sent, taken, out, rd>>

----------------------------------------------------------------------------
(* What the daemon's calls find and change. *)

Avail(c) == sent[c] - taken[c]

(* select() and recv(): there is data, or the end of the stream, or an error. *)
Readable(c) == Avail(c) > 0 \/ conn[c] # "est"

(* recv() finds neither data nor an open stream: it returns 0 or an error. *)
AtEnd(c) == Avail(c) = 0 /\ conn[c] # "est"

(* recv() of at most max samples takes all that has arrived, data first. *)
RecvCount(c, max) == IF Avail(c) <= max THEN Avail(c) ELSE max

(* send() on an open connection blocks while the kernel's buffer is full. *)
CanSend(c) == conn[c] = "est" /\ Len(out[c]) - rd[c] < SndBuf

SendFrame(c, f) == out' = [out EXCEPT ![c] = Append(@, f)]
=============================================================================
