-------------------------- MODULE BridgeProperties --------------------------
(***************************************************************************)
(* What is expected of the daemon modelled in Bridge.                      *)
(***************************************************************************)
EXTENDS Bridge

(* The client has an entry in the table. *)
Connected(c) == \E i \in Used : peer[client(i)] = c

(* The table and the kernel agree (add_client and remove_client in         *)
(* server.c, clear_clients at the end): while the daemon runs, the entries *)
(* are exactly the client descriptors that are open, each once, and no two *)
(* belong to one client.  Otherwise a descriptor leaks, a client is sent   *)
(* each frame twice, or select() fails on a descriptor that was closed.    *)
TableMatchesKernel ==
    /\ TableInv
    /\ pc # "ended" => Entries = open \cap Sockets
    /\ \A s \in Sockets : s \in Entries <=> peer[s] # NoClient
    /\ \A s, t \in Entries : peer[s] = peer[t] => s = t

(* The array implements the ordered list of connected clients, ClientList: *)
(* whatever the rest of the daemon does, a client joins at the end and     *)
(* only the one whose connection is closed leaves (add_client and          *)
(* remove_client, server.c).                                               *)
List == INSTANCE ClientList WITH list <- tableList,
                                 up <- {s \in Sockets : peer[s] # NoClient}

ImplementsList == List!Spec

(* Frames that write_toallclients() has still to send to the client of     *)
(* entry i.                                                                *)
Owed(i) ==
    IF pc # "send" \/ i < idx THEN 0
    ELSE IF i = idx THEN Len(chunk) - off ELSE Len(chunk)

(* How each part of the loop leaves its variables to the next: what the    *)
(* table and the stream rest on.                                           *)
LoopInv ==
    /\ sock \in {SockFd, Errno} \/ pc \in {"init", "failed", "terminated"}
    /\ pc \in {"select", "ir"} => idx = 0 /\ off = 0
    /\ pc = "send" => off < Len(chunk)
    /\ pc = "write" => cmd \in Commands

(* A client waits once in the backlog, and only before it is accepted; it  *)
(* is sent nothing until then.                                             *)
BacklogInv ==
    /\ \A j, k \in 1..Len(backlog) : backlog[j] = backlog[k] => j = k
    /\ \A k \in 1..Len(backlog) :
          /\ conn[backlog[k]] # "none"
          /\ out[backlog[k]] = << >>
          /\ \A s \in Sockets : peer[s] # backlog[k]
    /\ \A s \in Sockets : peer[s] # NoClient => conn[peer[s]] # "none"
    /\ \A c \in Clients : conn[c] = "none" => out[c] = << >>

(* Every client that stays connected is sent the same stream, from where   *)
(* it joined: no frame is missing, repeated or out of order for anyone,    *)
(* whatever happens to the others in the middle of a broadcast.            *)
SameStream ==
    \A i \in Used :
       LET c == peer[client(i)] IN
          conn[c] = "est" /\ ~Over =>
             out[c] = SubSeq(relay, join[c] + 1, Len(relay) - Owed(i))

(* The client has been sent the relayed frames from where it joined, all   *)
(* but the last n.                                                         *)
InStep(c, n) ==
    /\ join[c] + Len(out[c]) + n = Len(relay)
    /\ \A k \in 1..Len(out[c]) : out[c][k] = relay[join[c] + k]

(* SameStream element by element.  During a broadcast the buffer holds the *)
(* end of what was relayed.                                                *)
StreamInv ==
    /\ pc = "send" =>
          /\ Len(chunk) <= Len(relay)
          /\ \A k \in 1..Len(chunk) : chunk[k] = relay[Len(relay) - Len(chunk) + k]
    /\ \A i \in Used :
          conn[peer[clients[i]]] = "est" /\ ~Over => InStep(peer[clients[i]], Owed(i))

(* The inductive invariant. *)
IInv ==
    /\ TypeOK
    /\ TableMatchesKernel
    /\ LoopInv
    /\ BacklogInv
    /\ StreamInv

(* "flush read (to avoid loopback)", main.c: the daemon never relays to    *)
(* the clients what it has transmitted itself.                             *)
NoLoopback == \A k \in 1..Len(relay) : relay[k] # Echo

(* The flush that hides the loopback may also discard frames from the air, *)
(* but only such as were heard after select() last returned: the device is *)
(* served before the clients, so what waited already has been relayed.     *)
FlushedIsFresh ==
    pc \in {"scan", "write", "settle", "flush"} =>
       \A k \in 1..Len(lircq) : lircq[k] = Echo \/ lircq[k] > mark

(* No call of the loop but select(), send() and the sleeps can block: what *)
(* select() promised is still there when the daemon comes to use it, also  *)
(* after remove_client() has moved the entries under the loop's index.     *)
NoBlockingCall ==
    /\ pc = "ir" => lircq # << >>
    /\ pc = "accept" => backlog # << >>
    /\ pc = "scan" => \A i \in Slot : ScanAt(i) => Readable(peer[client(i)])

(* Nothing is transmitted but what clients have sent: the trains of one    *)
(* client go out in the order it sent them, no sample twice, none that it  *)
(* did not send, and none of a length the device refuses.                  *)
TransmitsWhatWasSent ==
    /\ \A j, k \in 1..Len(emitted) :
          j < k /\ emitted[j].from = emitted[k].from => emitted[j].hi <= emitted[k].lo
    /\ \A k \in 1..Len(emitted) :
          emitted[k].hi <= taken[emitted[k].from] /\ Accepts(emitted[k].hi - emitted[k].lo)

(* "proper end", main.c: after an orderly stop no descriptor is left open. *)
ProperEnd == pc = "ended" => open = {}

(* What the five properties above rest on, where IInv holds.  What         *)
(* select() has returned is kept for the call that uses it: the device and *)
(* the backlog lose nothing by themselves, and what a client has sent, or  *)
(* its end, stays until it is received.                                    *)
PromiseInv ==
    /\ pc = "select" => LircFd \in rdfs
    /\ pc = "ir" => lircq # << >>
    /\ pc = "accept" => backlog # << >>
    /\ pc = "scan" => \A s \in Entries \cap rdfs : Readable(peer[s])

FreshInv == mark <= air /\ FlushedIsFresh

(* The command that waits to be written comes after all that were. *)
TrainInv ==
    /\ TransmitsWhatWasSent
    /\ pc = "write" =>
          /\ cmd.hi <= taken[cmd.from]
          /\ \A k \in 1..Len(emitted) : emitted[k].from = cmd.from => emitted[k].hi <= cmd.lo

(* The listening socket, once open, is the one the variable names. *)
CloseInv ==
    /\ pc = "init" => SockFd \notin open
    /\ SockFd \in open => sock = SockFd
    /\ ProperEnd

(* Where no SIGHUP cuts the sleep short, the loopback is over before the   *)
(* flush, and waits nowhere else.                                          *)
EchoInv ==
    /\ hups = 0
    /\ echo => pc = "settle" \/ Over
    /\ \A k \in 1..Len(lircq) : lircq[k] = Echo => pc \in {"settle", "flush"} \/ Over
    /\ NoLoopback

(* A client that has not closed its connection is never removed, whichever *)
(* client leaves: it stays in the table until the daemon ends.             *)
LiveClientKept ==
    [][\A c \in Clients : Connected(c) /\ conn[c] = "est" /\ ~Over' => Connected(c)']_vars

(* add_client() never writes outside _clients (MAX_CLIENTS, server.h:20),  *)
(* and starfrit_process() never reads outside the buffer.                  *)
NoUndefined == pc # "undefined"

(* Failed sends are logged and the loop goes on (server.c:138-140): a      *)
(* client that leaves does not end the daemon.                             *)
SurvivesClients == pc # "sigpipe"

(* When the socket cannot be created the daemon says so and stops          *)
(* (main.c:328-332): it never enters its loop without one.                 *)
ListensInLoop == pc \in {"build", "select"} => SockFd \in open

(* Seen from outside the daemon lives as DaemonLife says, which is all     *)
(* that Lifecycle assumes of it: above all, it begins an orderly end only  *)
(* when SIGHUP finds it in a select() with nothing ready.                  *)
life ==
    CASE Over -> "gone"
      [] pc \in {"init", "blink"} -> "starting"
      [] pc = "closing" -> "closing"
      [] pc = "select" /\ Ready = {} /\ rdfs \subseteq open -> "idle"
      [] OTHER -> "busy"

Life == INSTANCE DaemonLife WITH life <- life

ImplementsLife == Life!Spec

----------------------------------------------------------------------------
(* What must happen in the end, unless the daemon ends first. *)

(* A client that asks to connect is accepted. *)
ClientsAccepted ==
    \A c \in Clients : (\E k \in 1..Len(backlog) : backlog[k] = c) ~> (Connected(c) \/ Over)

(* What a connected client sends is received, also if it closes after it. *)
CommandsReceived ==
    \A c \in Clients : (taken[c] < sent[c]) ~> (taken[c] = sent[c] \/ Over)

(* A client that closed its connection is removed: "client disconnected",  *)
(* main.c:396.                                                             *)
ClosedRemoved ==
    \A c \in Clients : (conn[c] \in {"fin", "finsent", "rst", "pipe"}) ~> (conn[c] = "shut" \/ Over)

(* What the device hears is relayed, or flushed: it does not wait forever. *)
FramesServed == (lircq # << >>) ~> (lircq = << >> \/ Over)

(* "To manually stop the daemon: sudo irbrgd stop", README.md: after the   *)
(* SIGHUP the daemon ends.                                                 *)
StopStops == (hups > 0) ~> Over
=============================================================================
