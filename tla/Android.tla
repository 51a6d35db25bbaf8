------------------------------ MODULE Android ------------------------------
(***************************************************************************)
(* The Android client: the thread of the user interface, with the activity *)
(* of main.java and a queue of what is to be run on it, and one thread for *)
(* each TCPClient.  They share mTCP's fields done and mOutByte without a   *)
(* lock; the decoder of the ircodec library is one for the whole process.  *)
(***************************************************************************)
EXTENDS Integers, Sequences, SequencesExt

CONSTANTS
    MaxActivities,      \* bound: activities, one after the other
    MaxClients,         \* bound: TCPClients that are created
    MaxCommands,        \* bound: commands that the user gives
    MaxFrames           \* bound: frames that the bridge sends on a connection

ASSUME AndroidAssumption ==
    {MaxActivities, MaxClients, MaxCommands, MaxFrames} \subseteq Nat

Activity == 1..MaxActivities
Client == 1..MaxClients
null == 0

(* What is received: the parts of frames.  Part 2 holds the pause. *)
Piece == [client : Client, frame : 1..MaxFrames, part : 1..2]

VARIABLES
    activity,           \* the activity that was created last
    alive,              \* it is not destroyed
    mTCP,               \* per activity: its TCPClient
    online,             \* per activity: it does not say "Off line"
    queue,              \* what runOnUiThread() has queued
    created,            \* the number of TCPClients
    listener,           \* per client: the activity that created it
    pc, done, mOutByte, \* per client: its thread, its fields
    read,               \* per client: mOutByte as the thread has found it
    socket,             \* per client: its connection
    incoming,           \* per client: what has arrived and is not read
    DECODE_BUFF,        \* unkn0_DECODE_BUFF, the parts in it
    decoded,            \* history: each frame taken from it, and whose data it came with
    given,              \* history, per client: the number of commands for it
    written,            \* history, per client: the last command written
    pieces,             \* history, per client: how many parts the bridge has sent
    overlap             \* history: the clients that have met one of another activity

ui == <<activity, alive, mTCP, online>>
threads == <<created, listener, pc, done, mOutByte, read>>
net == <<socket, incoming, pieces>>
codec == <<DECODE_BUFF, decoded>>
hist == <<given, written, overlap>>
vars == <<ui, queue, threads, net, codec, hist>>

Init ==
    /\ activity = 0
    /\ alive = FALSE
    /\ mTCP = [a \in Activity |-> null]
    /\ online = [a \in Activity |-> FALSE]
    /\ queue = << >>
    /\ created = 0
    /\ listener = [c \in Client |-> 0]
    /\ pc = [c \in Client |-> "new"]
    /\ done = [c \in Client |-> FALSE]
    /\ mOutByte = [c \in Client |-> null]
    /\ read = [c \in Client |-> null]
    /\ socket = [c \in Client |-> "none"]
    /\ incoming = [c \in Client |-> << >>]
    /\ DECODE_BUFF = << >>
    /\ decoded = {}
    /\ given = [c \in Client |-> 0]
    /\ written = [c \in Client |-> null]
    /\ pieces = [c \in Client |-> 0]
    /\ overlap = {}

----------------------------------------------------------------------------
(* The user: an activity is created and destroyed, a button is pressed, a  *)
(* command is given.                                                       *)

(* The client has queued what has not run yet. *)
Queued(c) == \E i \in 1..Len(queue) : queue[i].client = c

(* A client is busy until its OnThreadEnd() has run. *)
Busy(c) == pc[c] \notin {"new", "ended"} \/ Queued(c)

onCreate ==
    /\ ~alive
    /\ activity < MaxActivities
    /\ activity' = activity + 1
    /\ alive' = TRUE
    /\ UNCHANGED <<mTCP, online, queue, threads, net, codec, hist>>

(* The button of an activity without client: a client and its thread. *)
Connect ==
    /\ alive
    /\ mTCP[activity] = null
    /\ created < MaxClients
    /\ created' = created + 1
    /\ mTCP' = [mTCP EXCEPT ![activity] = created']
    /\ listener' = [listener EXCEPT ![created'] = activity]
    /\ pc' = [pc EXCEPT ![created'] = "connect"]
    /\ LET others == {c \in Client : Busy(c) /\ listener[c] # activity}
       IN overlap' = IF others = {} THEN overlap ELSE overlap \cup others \cup {created'}
    /\ UNCHANGED <<activity, alive, online, queue, done, mOutByte, read, net, codec,
                   given, written>>

(* tcpstop(); the client stays until its thread has ended. *)
tcpstop(a) == done' = IF mTCP[a] = null THEN done ELSE [done EXCEPT ![mTCP[a]] = TRUE]

(* A mutant of Disconnect: the client is let go of at once. *)
DisconnectNow ==
    /\ alive
    /\ mTCP[activity] # null
    /\ tcpstop(activity)
    /\ mTCP' = [mTCP EXCEPT ![activity] = null]
    /\ UNCHANGED <<activity, alive, online, queue, created, listener, pc, mOutByte, read,
                   net, codec, hist>>

(* The button of an activity with a client. *)
Disconnect ==
    /\ alive
    /\ mTCP[activity] # null
    /\ tcpstop(activity)
    /\ UNCHANGED <<ui, queue, created, listener, pc, mOutByte, read, net, codec, hist>>

onDestroy ==
    /\ alive
    /\ alive' = FALSE
    /\ tcpstop(activity)
    /\ UNCHANGED <<activity, mTCP, online, queue, created, listener, pc, mOutByte, read,
                   net, codec, hist>>

(* A command is put into the slot of the activity's client. *)
send(a) ==
    /\ mTCP[a] # null
    /\ FoldFunction(+, 0, given) < MaxCommands
    /\ given' = [given EXCEPT ![mTCP[a]] = @ + 1]
    /\ mOutByte' = [mOutByte EXCEPT ![mTCP[a]] = given'[mTCP[a]]]
    /\ UNCHANGED <<ui, queue, created, listener, pc, done, read, net, codec, written, overlap>>

(* The button of the light. *)
SwitchLed == alive /\ send(activity)

(* An angle is sent as a figure, if the last one is old enough.  The       *)
(* listener stays registered when the activity is destroyed.               *)
onSensorChanged(a) == a <= activity /\ send(a)

----------------------------------------------------------------------------
(* What is run on the thread of the user interface. *)

IsNext(run) == queue # << >> /\ Head(queue).run = run
Sender == Head(queue).client
Owner == listener[Sender]

(* A mutant of OnThreadStart: the decoders are not reset. *)
OnThreadStartKeeps ==
    /\ IsNext("OnThreadStart")
    /\ queue' = Tail(queue)
    /\ online' = [online EXCEPT ![Owner] = TRUE]
    /\ UNCHANGED <<activity, alive, mTCP, threads, net, codec, hist>>

OnThreadStart ==
    /\ IsNext("OnThreadStart")
    /\ queue' = Tail(queue)
    /\ online' = [online EXCEPT ![Owner] = TRUE]
    /\ DECODE_BUFF' = << >>
    /\ UNCHANGED <<activity, alive, mTCP, threads, net, decoded, hist>>

(* The loop while the IRBuffer is available(), for the next part in it: at *)
(* a pause the decoder stops, the frame is taken and the decoder reset.    *)
Unkn0Decode(d, part) ==
    LET buff == Append(d.buff, part) IN
    IF part.part = 2 THEN [buff |-> << >>, frames |-> d.frames \cup {buff}]
    ELSE [buff |-> buff, frames |-> d.frames]

OnDataReceived ==
    /\ IsNext("OnDataReceived")
    /\ queue' = Tail(queue)
    /\ LET d == FoldLeft(Unkn0Decode, [buff |-> DECODE_BUFF, frames |-> {}], Head(queue).data)
       IN /\ DECODE_BUFF' = d.buff
          /\ decoded' = decoded \cup [client : {Sender}, parts : d.frames]
    /\ UNCHANGED <<ui, threads, net, hist>>

(* A mutant of OnThreadEnd: the ended client stays the activity's client. *)
OnThreadEndStays ==
    /\ IsNext("OnThreadEnd")
    /\ queue' = Tail(queue)
    /\ tcpstop(Owner)
    /\ online' = [online EXCEPT ![Owner] = FALSE]
    /\ UNCHANGED <<activity, alive, mTCP, created, listener, pc, mOutByte, read, net, codec, hist>>

OnThreadEnd ==
    /\ IsNext("OnThreadEnd")
    /\ queue' = Tail(queue)
    /\ tcpstop(Owner)
    /\ mTCP' = [mTCP EXCEPT ![Owner] = null]
    /\ online' = [online EXCEPT ![Owner] = FALSE]
    /\ UNCHANGED <<activity, alive, created, listener, pc, mOutByte, read, net, codec, hist>>

----------------------------------------------------------------------------
(* TCPClient.run(), the thread of client c.  A step is a call, and what    *)
(* follows it up to the next.                                              *)

Goto(c, from, to) == pc[c] = from /\ pc' = [pc EXCEPT ![c] = to]

runOnUiThread(run, c, data) == queue' = Append(queue, [run |-> run, client |-> c, data |-> data])

Connected(c) ==
    /\ Goto(c, "connect", "loop")
    /\ socket' = [socket EXCEPT ![c] = "open"]
    /\ runOnUiThread("OnThreadStart", c, << >>)
    /\ UNCHANGED <<ui, created, listener, done, mOutByte, read, incoming, pieces, codec, hist>>

ConnectFails(c) ==
    /\ Goto(c, "connect", "ended")
    /\ runOnUiThread("OnThreadEnd", c, << >>)
    /\ UNCHANGED <<ui, created, listener, done, mOutByte, read, net, codec, hist>>

(* A turn of the loop up to the sending: what is available is read and     *)
(* handed over, then mOutByte is looked at.  What others do between the    *)
(* two concerns only one of them, so that they are one step.  The end of   *)
(* the stream is not noticed: nothing is available then.                   *)
Turn(c) ==
    /\ ~done[c]
    /\ Goto(c, "loop", IF mOutByte[c] = null THEN "loop" ELSE "write")
    /\ IF incoming[c] = << >>
         THEN UNCHANGED queue
         ELSE runOnUiThread("OnDataReceived", c, incoming[c])
    /\ incoming' = [incoming EXCEPT ![c] = << >>]
    /\ read' = [read EXCEPT ![c] = mOutByte[c]]
    /\ UNCHANGED <<ui, created, listener, done, mOutByte, socket, pieces, codec, hist>>

(* A call on a connection that was reset fails, and the loop is left. *)
IOException(c) ==
    /\ socket[c] = "reset"
    /\ pc[c] = "write" \/ (pc[c] = "loop" /\ ~done[c])
    /\ Goto(c, pc[c], "loop")
    /\ done' = [done EXCEPT ![c] = TRUE]
    /\ read' = [read EXCEPT ![c] = null]
    /\ UNCHANGED <<ui, queue, created, listener, mOutByte, net, codec, hist>>

(* What is written is the command that was found, or one that has replaced *)
(* it since: the field is read again and is not volatile.  The first call  *)
(* on a connection that the bridge has closed leads to a reset.            *)
Write(c) ==
    /\ Goto(c, "write", "clear")
    /\ socket[c] # "reset"
    /\ \E command \in {read[c], mOutByte[c]} :
          written' = [written EXCEPT ![c] = command]
    /\ read' = [read EXCEPT ![c] = null]
    /\ socket' = [socket EXCEPT ![c] = IF @ = "closed" THEN "reset" ELSE @]
    /\ UNCHANGED <<ui, queue, created, listener, done, mOutByte, incoming, pieces, codec,
                   given, overlap>>

(* A mutant of Clear: the slot is not emptied. *)
ClearNothing(c) ==
    /\ Goto(c, "clear", "loop")
    /\ UNCHANGED <<ui, queue, created, listener, done, mOutByte, read, net, codec, hist>>

(* The slot is emptied, whatever is in it by now. *)
Clear(c) ==
    /\ Goto(c, "clear", "loop")
    /\ mOutByte' = [mOutByte EXCEPT ![c] = null]
    /\ UNCHANGED <<ui, queue, created, listener, done, read, net, codec, hist>>

End(c) ==
    /\ done[c]
    /\ Goto(c, "loop", "ended")
    /\ socket' = [socket EXCEPT ![c] = "none"]
    /\ incoming' = [incoming EXCEPT ![c] = << >>]
    /\ runOnUiThread("OnThreadEnd", c, << >>)
    /\ UNCHANGED <<ui, created, listener, done, mOutByte, read, pieces, codec, hist>>

----------------------------------------------------------------------------
(* The bridge sends parts of frames, and closes or resets the connection. *)

(* The n-th part that client c is sent. *)
Part(c, n) == [client |-> c, frame |-> ((n - 1) \div 2) + 1, part |-> ((n - 1) % 2) + 1]

BridgeSends(c) ==
    /\ socket[c] = "open"
    /\ pieces[c] < 2 * MaxFrames
    /\ pieces' = [pieces EXCEPT ![c] = @ + 1]
    /\ incoming' = [incoming EXCEPT ![c] = Append(@, Part(c, pieces'[c]))]
    /\ UNCHANGED <<ui, queue, threads, socket, codec, hist>>

BridgeLeaves(c) ==
    /\ socket[c] = "open"
    /\ \E s \in {"closed", "reset"} : socket' = [socket EXCEPT ![c] = s]
    /\ UNCHANGED <<ui, queue, threads, incoming, pieces, codec, hist>>

----------------------------------------------------------------------------
Thread(c) ==
    \/ Connected(c) \/ ConnectFails(c) \/ Turn(c) \/ IOException(c)
    \/ Write(c) \/ Clear(c) \/ End(c)

RunNext == OnThreadStart \/ OnDataReceived \/ OnThreadEnd

Next ==
    \/ onCreate \/ Connect \/ Disconnect \/ onDestroy
    \/ SwitchLed \/ \E a \in Activity : onSensorChanged(a)
    \/ RunNext
    \/ \E c \in Client : Thread(c) \/ BridgeSends(c) \/ BridgeLeaves(c)

Spec == Init /\ [][Next]_vars

(* Both kinds of threads run; connecting and writing take no endless time. *)
FairSpec == Spec /\ WF_vars(RunNext) /\ \A c \in Client : WF_vars(Thread(c))

----------------------------------------------------------------------------
(* The activity and its client agree, whatever the thread has queued: a    *)
(* client that runs, or has queued anything, is still the one of the       *)
(* activity that created it; an activity has one client at a time, and is  *)
(* online only with one (main.java:79, 143).                               *)
ClientOfActivity ==
    /\ \A c \in Client : Busy(c) => mTCP[listener[c]] = c
    /\ \A a \in Activity : online[a] => mTCP[a] # null /\ Busy(mTCP[a])

(* A client's frames are decoded as the bridge has sent them on its        *)
(* connection: nothing of an earlier connection or of another frame is     *)
(* joined to them (main.java:138).  Except for clients that met one of     *)
(* another activity: the decoder is shared by all (unkn0_DECODE_BUFF).     *)
FramesIntact ==
    \A d \in decoded : d.client \notin overlap =>
       \E n \in 1..MaxFrames :
          d.parts = [k \in 1..2 |-> [client |-> d.client, frame |-> n, part |-> k]]

(* A command is written at most once, to the client it was given to, and   *)
(* never after a later one: mOutByte is written and cleared without a lock *)
(* (TCPClient.java:104).                                                   *)
CommandsInOrder ==
    [][\A c \in Client : pc[c] = "write" /\ pc'[c] = "clear" =>
          written[c] < written'[c] /\ written'[c] <= given[c]]_vars

(* A client that is told to stop, by the user, by a failure or because the *)
(* activity is destroyed, ends and is forgotten, so that the button        *)
(* connects again.                                                         *)
DisconnectEnds ==
    \A c \in Client : done[c] ~> \A a \in Activity : mTCP[a] # c

----------------------------------------------------------------------------
(* What ClientOfActivity, CommandsInOrder and FramesIntact rest on. *)

Run == [run : {"OnThreadStart", "OnDataReceived", "OnThreadEnd"}, client : Client,
        data : Seq(Piece)]

UiTypeOK ==
    /\ activity \in 0..MaxActivities
    /\ alive \in BOOLEAN
    /\ alive => activity \in Activity
    /\ mTCP \in [Activity -> 0..MaxClients]
    /\ online \in [Activity -> BOOLEAN]

ThreadTypeOK ==
    /\ created \in 0..MaxClients
    /\ listener \in [Client -> 0..MaxActivities]
    /\ pc \in [Client -> {"new", "connect", "loop", "write", "clear", "ended"}]
    /\ done \in [Client -> BOOLEAN]
    /\ socket \in [Client -> {"none", "open", "closed", "reset"}]
    /\ overlap \subseteq Client

CountTypeOK ==
    /\ mOutByte \in [Client -> Nat] /\ read \in [Client -> Nat]
    /\ given \in [Client -> Nat] /\ written \in [Client -> Nat]
    /\ pieces \in [Client -> Nat]

DataTypeOK ==
    /\ queue \in Seq(Run)
    /\ incoming \in [Client -> Seq(Piece)]

TypeOK == UiTypeOK /\ ThreadTypeOK /\ CountTypeOK /\ DataTypeOK

(* A client is nobody's before Connect has created it, and an activity has *)
(* none but a busy one that it created.                                    *)
OwnerInv ==
    /\ \A c \in Client : pc[c] = "new" <=> c > created
    /\ \A c \in Client : pc[c] = "new" => ~Queued(c)
    /\ \A c \in Client : pc[c] # "new" => listener[c] \in Activity
    /\ \A a \in Activity : mTCP[a] # null =>
          Busy(mTCP[a]) /\ listener[mTCP[a]] = a

(* The last that a client queues is its OnThreadEnd(). *)
QueueInv ==
    /\ \A i \in 1..Len(queue) : queue[i].run = "OnThreadEnd" =>
          /\ pc[queue[i].client] = "ended"
          /\ \A j \in 1..Len(queue) : queue[j].client = queue[i].client => j <= i
    /\ \A c \in Client : pc[c] = "ended" /\ Queued(c) =>
          \E i \in 1..Len(queue) : queue[i].client = c /\ queue[i].run = "OnThreadEnd"

(* What is in the slot was given after all that was written, except        *)
(* between write() and the clearing.                                       *)
SlotInv ==
    \A c \in Client :
       /\ written[c] <= given[c] /\ mOutByte[c] <= given[c]
       /\ pc[c] # "clear" => mOutByte[c] = null \/ mOutByte[c] > written[c]
       /\ pc[c] = "write" => read[c] > written[c] /\ mOutByte[c] >= read[c]

(* The parts that client c is sent after the m-th, up to the n-th. *)
Parts(c, m, n) == [k \in 1..(n - m) |-> Part(c, m + k)]

(* Where a client's parts are while it is alone: before and behind each    *)
(* entry of the queue it has been handed so many of them.  What was read   *)
(* and not queued is still to come, and what was taken from the queue is   *)
(* decoded but for half a frame; not before the decoder was reset, though. *)
Handed(c, b) ==
    /\ \A i \in 0..Len(queue) : b[i] <= pieces[c]
    /\ \A i \in 1..Len(queue) : b[i - 1] <= b[i] /\ queue[i].data = Parts(c, b[i - 1], b[i])
    /\ \A i \in 1..Len(queue) : queue[i].run = "OnThreadStart" =>
          \A j \in 0..i : b[j] = 0
    /\ pc[c] # "ended" => incoming[c] = Parts(c, b[Len(queue)], pieces[c])
    /\ \/ \E i \in 1..Len(queue) : queue[i].run = "OnThreadStart"
       \/ pieces[c] = 0 /\ socket[c] = "none"
       \/ DECODE_BUFF = Parts(c, b[0] - (b[0] % 2), b[0])

HandedInv ==
    \A c \in Client : Busy(c) /\ c \notin overlap =>
       \E b \in [0..Len(queue) -> Nat] : Handed(c, b)

(* Two clients that are busy at a time have met. *)
AloneInv ==
    /\ \A c, d \in Client : Busy(c) /\ Busy(d) /\ c # d => c \in overlap
    /\ \A c \in Client : pc[c] \in {"new", "connect"} =>
          pieces[c] = 0 /\ socket[c] = "none" /\ incoming[c] = << >>
    /\ \A c \in Client : pieces[c] <= 2 * MaxFrames

IInv == TypeOK /\ OwnerInv /\ QueueInv /\ ClientOfActivity /\ SlotInv

FrameInv == AloneInv /\ HandedInv /\ FramesIntact
=============================================================================
