--------------------------- MODULE Android_proofs ---------------------------
(***************************************************************************)
(* Theorems about the Android client, for any number of activities,        *)
(* connections, commands and frames: an activity and its client agree,     *)
(* commands are written once and in order, and frames are decoded whole.   *)
(***************************************************************************)
EXTENDS Android, Induction

LEMMA Bounds ==
    /\ MaxActivities \in Nat /\ MaxClients \in Nat
    /\ MaxCommands \in Nat /\ MaxFrames \in Nat
BY AndroidAssumption

LEMMA InitCorrect == Init => IInv
<1> SUFFICES ASSUME Init PROVE IInv
  OBVIOUS
<1> USE Bounds DEF Init, Activity, Client, null
<1>1. UiTypeOK /\ ThreadTypeOK /\ CountTypeOK
  <2>1. UiTypeOK
    <3>1. activity \in 0..MaxActivities /\ alive = FALSE
      OBVIOUS
    <3>2. mTCP \in [Activity -> 0..MaxClients] /\ online \in [Activity -> BOOLEAN]
      OBVIOUS
    <3> QED
      BY <3>1, <3>2 DEF UiTypeOK
  <2>2. ThreadTypeOK
    BY DEF ThreadTypeOK
  <2>3. CountTypeOK
    BY DEF CountTypeOK
  <2> QED
    BY <2>1, <2>2, <2>3
<1>6. TypeOK
  <2>1. << >> \in Seq(Run) /\ << >> \in Seq(Piece)
    BY EmptySeq
  <2>2. queue = << >> /\ incoming = [c \in Client |-> << >>]
    OBVIOUS
  <2>3. DataTypeOK
    BY <2>1, <2>2 DEF DataTypeOK
  <2> QED
    BY <1>1, <2>3 DEF TypeOK
<1>2. \A c \in Client : ~Queued(c) /\ ~Busy(c)
  BY DEF Queued, Busy
<1>3. OwnerInv /\ ClientOfActivity
  BY <1>2 DEF OwnerInv, ClientOfActivity
<1>4. QueueInv
  BY <1>2 DEF QueueInv, Queued
<1>5. SlotInv
  BY DEF SlotInv
<1> QED
  BY <1>3, <1>4, <1>5, <1>6 DEF IInv

----------------------------------------------------------------------------
(* The parts of frames that a client is sent. *)

LEMMA PartIsPiece ==
    ASSUME NEW c \in Client, NEW n \in 1..(2 * MaxFrames)
    PROVE  Part(c, n) \in Piece
<1>1. ((n - 1) \div 2) + 1 \in 1..MaxFrames /\ ((n - 1) % 2) + 1 \in 1..2
  BY Bounds
<1> QED
  BY <1>1 DEF Part, Piece

LEMMA PartsType ==
    ASSUME NEW c \in Client, NEW m \in Nat, NEW n \in m..(2 * MaxFrames)
    PROVE  /\ Parts(c, m, n) \in Seq(Piece)
           /\ Len(Parts(c, m, n)) = n - m
           /\ \A k \in 1..(n - m) : Parts(c, m, n)[k] = Part(c, m + k)
<1>1. \A k \in 1..(n - m) : m + k \in 1..(2 * MaxFrames)
  BY Bounds
<1>2. n - m \in Nat
  BY Bounds
<1>3. \A k \in 1..(n - m) : Part(c, m + k) \in Piece
  BY <1>1, PartIsPiece
<1> QED
  BY <1>2, <1>3 DEF Parts

LEMMA PartsEmpty == \A c, m : m \in Nat => Parts(c, m, m) = << >>
BY DEF Parts

LEMMA PartsGrow ==
    ASSUME NEW c \in Client, NEW m \in Nat, NEW n \in m..(2 * MaxFrames), n < 2 * MaxFrames
    PROVE  Append(Parts(c, m, n), Part(c, n + 1)) = Parts(c, m, n + 1)
<1>1. /\ Parts(c, m, n) \in Seq(Piece) /\ Len(Parts(c, m, n)) = n - m
      /\ \A k \in 1..(n - m) : Parts(c, m, n)[k] = Part(c, m + k)
  BY PartsType
<1>2. n + 1 \in m..(2 * MaxFrames) /\ n - m \in Nat /\ (n + 1) - m = (n - m) + 1
  BY Bounds
<1>3. /\ Parts(c, m, n + 1) \in Seq(Piece) /\ Len(Parts(c, m, n + 1)) = (n + 1) - m
      /\ \A k \in 1..((n + 1) - m) : Parts(c, m, n + 1)[k] = Part(c, m + k)
  BY <1>2, PartsType
<1>4. Part(c, n + 1) \in Piece
  <2>1. n + 1 \in 1..(2 * MaxFrames)
    BY Bounds
  <2> QED
    BY <2>1, PartIsPiece
<1> DEFINE s == Append(Parts(c, m, n), Part(c, n + 1))
<1>5. /\ s \in Seq(Piece) /\ Len(s) = (n - m) + 1
      /\ \A k \in 1..(n - m) : s[k] = Part(c, m + k)
      /\ s[(n - m) + 1] = Part(c, n + 1)
  <2> HIDE DEF Part
  <2> QED
    BY <1>1, <1>4, AppendProperties
<1>6. m + ((n - m) + 1) = n + 1
  BY Bounds
<1>7. \A k \in 1..Len(s) : s[k] = Parts(c, m, n + 1)[k]
  <2>1. \A k \in 1..((n - m) + 1) : k \in 1..(n - m) \/ k = (n - m) + 1
    BY <1>2
  <2> QED
    BY <1>2, <1>3, <1>5, <1>6, <2>1
<1> HIDE DEF s
<1>8. s = Parts(c, m, n + 1)
  BY <1>2, <1>3, <1>5, <1>7, SeqEqual
<1> QED
  BY <1>8 DEF s

(* Decoding what is handed over leaves half a frame at most, and takes     *)
(* whole frames, if half a frame at most was there before.                 *)
LEMMA DecodeParts ==
    ASSUME NEW c \in Client, NEW m \in Nat, NEW n \in m..(2 * MaxFrames),
           NEW d, d = FoldLeft(Unkn0Decode, [buff |-> Parts(c, m - (m % 2), m), frames |-> {}],
                               Parts(c, m, n))
    PROVE  /\ d.buff = Parts(c, n - (n % 2), n)
           /\ \A f \in d.frames : \E k \in 1..MaxFrames : f = Parts(c, 2 * k - 2, 2 * k)
<1> DEFINE base == [buff |-> Parts(c, m - (m % 2), m), frames |-> {}]
           data == Parts(c, m, n)
           A == [buff : Seq(Piece), frames : SUBSET Seq(Piece)]
           step == [x \in A \X Piece |-> Unkn0Decode(x[1], x[2])]
           I == SUBSET (1..Len(data))
           iter == CHOOSE g : g = [s \in SUBSET DOMAIN data |->
                      IF s = {} THEN base ELSE Unkn0Decode(g[s \ {Max(s)}], data[Max(s)])]
<1>0. n - m \in Nat /\ m + (n - m) = n
  BY Bounds
<1>1. /\ data \in Seq(Piece) /\ Len(data) = n - m
      /\ \A k \in 1..(n - m) : data[k] = Part(c, m + k)
  BY PartsType
<1>2. d = iter[DOMAIN data]
  BY DEF FoldLeft, MapThenFoldSet
<1>3. base \in A
  <2>1. m - (m % 2) \in Nat /\ m \in (m - (m % 2))..(2 * MaxFrames)
    BY Bounds
  <2>2. Parts(c, m - (m % 2), m) \in Seq(Piece)
    BY <2>1, PartsType
  <2> QED
    BY <2>2
<1>4. step \in [A \X Piece -> A]
  <2>1. ASSUME NEW a \in A, NEW p \in Piece PROVE Unkn0Decode(a, p) \in A
    <3>1. a.buff \in Seq(Piece) /\ a.frames \in SUBSET Seq(Piece)
      OBVIOUS
    <3>2. Append(a.buff, p) \in Seq(Piece) /\ << >> \in Seq(Piece)
      BY <3>1, AppendProperties, EmptySeq
    <3> QED
      BY <3>1, <3>2 DEF Unkn0Decode
  <2> QED
    BY <2>1
<1> HIDE DEF base, data, A, iter
<1>5. PICK g \in [I -> A] : \A s \in I :
         g[s] = IF s = {} THEN base ELSE step[<<g[s \ {Max(s)}], data[Max(s)]>>]
  <2> HIDE DEF step
  <2>1. HasFold(A, Piece, base, step, data)
    BY <1>1, <1>3, <1>4, FoldExists
  <2> QED
    BY <2>1 DEF HasFold
<1>6. \A s \in I : s # {} => /\ Max(s) \in s /\ s \ {Max(s)} \in I /\ data[Max(s)] \in Piece
  <2>1. Len(data) \in Nat /\ \A k \in 1..Len(data) : data[k] \in Piece
    BY <1>1
  <2> QED
    BY <2>1, GreatestExists
<1>7. \A s \in I : g[s] = IF s = {} THEN base ELSE Unkn0Decode(g[s \ {Max(s)}], data[Max(s)])
  BY <1>5, <1>6
<1>8. DOMAIN data = 1..Len(data)
  BY <1>1
<1>9. iter = [s \in I |-> IF s = {} THEN base ELSE Unkn0Decode(iter[s \ {Max(s)}], data[Max(s)])]
  <2>1. g = [s \in I |-> IF s = {} THEN base ELSE Unkn0Decode(g[s \ {Max(s)}], data[Max(s)])]
    BY <1>5, <1>7
  <2> QED
    BY <1>8, <2>1 DEF iter
<1> DEFINE a(k) == iter[1..k]
<1>10. a(0) = base /\ \A k \in 1..(n - m) : a(k) = Unkn0Decode(a(k - 1), Part(c, m + k))
  <2>1. a(0) = base
    <3>1. 1..0 = {} /\ {} \in I
      OBVIOUS
    <3> QED
      BY <1>9, <3>1
  <2>2. ASSUME NEW k \in 1..(n - m) PROVE a(k) = Unkn0Decode(a(k - 1), Part(c, m + k))
    <3>1. k \in Nat /\ k > 0 /\ 1..k \in I /\ 1..k # {}
      <4>1. k \in Nat /\ k > 0 /\ k <= Len(data) /\ Len(data) \in Nat
        BY <1>0, <1>1
      <4> QED
        BY <4>1
    <3>2. Max(1..k) = k /\ (1..k) \ {k} = 1..(k - 1)
      BY <3>1, GreatestOfInterval
    <3> QED
      BY <1>1, <1>9, <3>1, <3>2
  <2> QED
    BY <2>1, <2>2
<1> DEFINE Right(k) ==
              /\ a(k).buff = Parts(c, (m + k) - ((m + k) % 2), m + k)
              /\ \A f \in a(k).frames : \E j \in 1..MaxFrames : f = Parts(c, 2 * j - 2, 2 * j)
           S == {k \in 0..(n - m) : Right(k)}
<1>11. 0 \in S
  BY <1>0, <1>1, <1>10 DEF base
<1> HIDE DEF a, I
<1>12. ASSUME NEW k \in 1..(n - m), k - 1 \in S PROVE k \in S
  <2> DEFINE l == (m + k) - 1
  <2>1. /\ l \in Nat /\ m + k = l + 1 /\ m + (k - 1) = l /\ l < 2 * MaxFrames
        /\ l - (l % 2) \in Nat /\ l \in (l - (l % 2))..(2 * MaxFrames)
    BY <1>0, <1>1, Bounds
  <2>2. Right(k - 1)
    BY <1>12
  <2>3. a(k - 1).buff = Parts(c, l - (l % 2), l)
    BY <2>1, <2>2
  <2> HIDE DEF l
  <2>4. Append(a(k - 1).buff, Part(c, l + 1)) = Parts(c, l - (l % 2), l + 1)
    BY <2>1, <2>3, PartsGrow
  <2>5. a(k) = Unkn0Decode(a(k - 1), Part(c, l + 1))
    BY <1>10, <2>1
  <2>6. Part(c, l + 1).part = (l % 2) + 1
    BY <2>1 DEF Part
  <2>7. CASE l % 2 = 1
    <3>1. a(k) = [buff |-> << >>, frames |-> a(k - 1).frames \cup {Parts(c, l - (l % 2), l + 1)}]
      <4>1. Part(c, l + 1).part = 2
        BY <2>6, <2>7
      <4> QED
        BY <2>4, <2>5, <4>1 DEF Unkn0Decode
    <3>2. PICK j \in 1..MaxFrames : l + 1 = 2 * j /\ l - (l % 2) = 2 * j - 2
      <4>1. \E j \in Int : l = 2 * j + 1
        <5>1. l = 2 * (l \div 2) + (l % 2)
          BY <2>1
        <5> QED
          BY <2>1, <2>7, <5>1
      <4>2. PICK j \in Int : l = 2 * j + 1
        BY <4>1
      <4>3. j + 1 \in 1..MaxFrames
        BY <2>1, <4>2, Bounds
      <4> QED
        BY <2>7, <4>2, <4>3
    <3>3. (l + 1) % 2 = 0
      BY <2>1, <2>7
    <3>4. Parts(c, (l + 1) - ((l + 1) % 2), l + 1) = << >>
      <4>1. (l + 1) - ((l + 1) % 2) = l + 1 /\ l + 1 \in Nat
        BY <2>1, <3>3
      <4> QED
        BY <4>1, PartsEmpty
    <3>5. Parts(c, l - (l % 2), l + 1) = Parts(c, 2 * j - 2, 2 * j)
      BY <3>2
    <3>6. /\ a(k).buff = << >>
          /\ \A f \in a(k).frames : f \in a(k - 1).frames \/ f = Parts(c, 2 * j - 2, 2 * j)
      BY <3>1, <3>5
    <3> QED
      BY <2>1, <2>2, <3>4, <3>6
  <2>8. CASE l % 2 = 0
    <3>1. a(k) = [buff |-> Parts(c, l - (l % 2), l + 1), frames |-> a(k - 1).frames]
      <4>1. Part(c, l + 1).part # 2
        BY <2>6, <2>8
      <4> QED
        BY <2>4, <2>5, <4>1 DEF Unkn0Decode
    <3>2. (l + 1) - ((l + 1) % 2) = l - (l % 2)
      BY <2>1, <2>8
    <3> QED
      BY <2>1, <2>2, <3>1, <3>2
  <2>9. l % 2 \in {0, 1}
    BY <2>1
  <2> QED
    BY <2>7, <2>8, <2>9
<1>13. n - m \in S
  <2> HIDE DEF S
  <2>1. 0..(n - m) \subseteq S
    BY <1>0, <1>11, <1>12, IntervalInduction
  <2> QED
    BY <1>0, <2>1
<1>14. d = a(n - m)
  BY <1>1, <1>2, <1>8 DEF a
<1> QED
  BY <1>0, <1>13, <1>14

----------------------------------------------------------------------------
(* The queue. *)

LEMMA QueueTypes ==
    ASSUME TypeOK
    PROVE  \A i \in 1..Len(queue) : queue[i].client \in Client
<1>1. \A i \in 1..Len(queue) : queue[i] \in Run
  BY DEF TypeOK, DataTypeOK
<1>2. \A r \in Run : r.client \in Client
  BY DEF Run
<1> QED
  BY <1>1, <1>2

LEMMA Appended ==
    ASSUME TypeOK, NEW run \in {"OnThreadStart", "OnDataReceived", "OnThreadEnd"},
           NEW c \in Client, NEW data \in Seq(Piece), runOnUiThread(run, c, data)
    PROVE  /\ queue' \in Seq(Run) /\ Len(queue) \in Nat
           /\ Len(queue') = Len(queue) + 1
           /\ \A i \in 1..Len(queue) : queue'[i] = queue[i]
           /\ queue'[Len(queue) + 1].client = c /\ queue'[Len(queue) + 1].run = run
           /\ queue'[Len(queue) + 1].data = data
           /\ \A d \in Client : Queued(d)' <=> Queued(d) \/ d = c
<1> DEFINE r == [run |-> run, client |-> c, data |-> data]
<1>1. queue \in Seq(Run) /\ r \in Run /\ queue' = Append(queue, r)
  BY DEF TypeOK, DataTypeOK, Run, runOnUiThread
<1>2. r.client = c /\ r.run = run /\ r.data = data
  OBVIOUS
<1> HIDE DEF r
<1>3. /\ queue' \in Seq(Run) /\ Len(queue) \in Nat
      /\ Len(queue') = Len(queue) + 1
      /\ \A i \in 1..Len(queue) : queue'[i] = queue[i]
      /\ queue'[Len(queue) + 1] = r
  BY <1>1, AppendProperties
<1>4. ASSUME NEW d \in Client PROVE Queued(d)' <=> Queued(d) \/ d = c
  <2>1. \A i \in 1..Len(queue') : i \in 1..Len(queue) \/ i = Len(queue) + 1
    BY <1>3
  <2>2. 1..Len(queue) \subseteq 1..Len(queue') /\ Len(queue) + 1 \in 1..Len(queue')
    BY <1>3
  <2> QED
    BY <1>2, <1>3, <2>1, <2>2 DEF Queued
<1> QED
  BY <1>2, <1>3, <1>4

LEMMA Taken ==
    ASSUME TypeOK, queue # << >>, queue' = Tail(queue)
    PROVE  /\ queue' \in Seq(Run) /\ Len(queue) \in Nat \ {0}
           /\ Len(queue') = Len(queue) - 1
           /\ \A i \in 1..Len(queue') : queue'[i] = queue[i + 1] /\ i + 1 \in 1..Len(queue)
           /\ Head(queue) = queue[1] /\ 1 \in 1..Len(queue) /\ Head(queue) \in Run
           /\ Sender \in Client /\ Queued(Sender)
           /\ \A d \in Client : Queued(d) <=> Queued(d)' \/ d = Sender
<1>1. queue \in Seq(Run)
  BY DEF TypeOK, DataTypeOK
<1>2. /\ queue' \in Seq(Run) /\ Len(queue) \in Nat \ {0}
      /\ Len(queue') = Len(queue) - 1
      /\ \A i \in 1..Len(queue') : queue'[i] = queue[i + 1] /\ i + 1 \in 1..Len(queue)
      /\ Head(queue) = queue[1] /\ 1 \in 1..Len(queue) /\ Head(queue) \in Run
  BY <1>1
<1>3. Sender = queue[1].client /\ Sender \in Client /\ Queued(Sender)
  BY <1>2 DEF Sender, Run, Queued
<1>4. ASSUME NEW d \in Client PROVE Queued(d) <=> Queued(d)' \/ d = Sender
  <2>1. \A i \in 1..Len(queue) : i = 1 \/ (i - 1 \in 1..Len(queue') /\ queue'[i - 1] = queue[i])
    BY <1>2
  <2> QED
    BY <1>2, <1>3, <2>1 DEF Queued
<1> QED
  BY <1>2, <1>3, <1>4

----------------------------------------------------------------------------
(* Types. *)

LEMMA DataFrame ==
    ASSUME OnDataReceived
    PROVE  IsNext("OnDataReceived") /\ queue' = Tail(queue) /\ UNCHANGED <<ui, threads, net, hist>>
BY Zenon DEF OnDataReceived

LEMMA SendFrame ==
    ASSUME NEW a, send(a)
    PROVE  /\ mTCP[a] # null
           /\ given' = [given EXCEPT ![mTCP[a]] = @ + 1]
           /\ mOutByte' = [mOutByte EXCEPT ![mTCP[a]] = given'[mTCP[a]]]
           /\ UNCHANGED <<ui, queue, created, listener, pc, done, read, net, codec, written, overlap>>
BY DEF send

(* A command is given to an activity that has a client. *)
LEMMA SendSplit ==
    ASSUME TypeOK, SwitchLed \/ \E a \in Activity : onSensorChanged(a)
    PROVE  \E a \in Activity : send(a)
BY DEF TypeOK, UiTypeOK, SwitchLed, onSensorChanged

LEMMA UiStep ==
    ASSUME TypeOK, OwnerInv, [Next]_vars
    PROVE  UiTypeOK'
<1> USE DEF TypeOK, UiTypeOK, ui, Activity
<1>1. CASE onCreate
  BY <1>1, Bounds DEF onCreate
<1>2. CASE Connect
  BY <1>2, Bounds DEF Connect, ThreadTypeOK
<1>3. CASE Disconnect \/ onDestroy
  BY <1>3 DEF Disconnect, onDestroy
<1>4. CASE SwitchLed \/ \E a \in Activity : onSensorChanged(a)
  BY <1>4, SendSplit, SendFrame
<1>5. CASE OnThreadStart
  BY <1>5 DEF OnThreadStart
<1>6. CASE OnThreadEnd
  <2>1. /\ activity' = activity /\ alive' = alive
        /\ mTCP' = [mTCP EXCEPT ![Owner] = null]
        /\ online' = [online EXCEPT ![Owner] = FALSE]
    BY <1>6 DEF OnThreadEnd
  <2>2. null \in 0..MaxClients
    BY Bounds DEF null
  <2> QED
    BY <2>1, <2>2
<1>7. CASE OnDataReceived \/ UNCHANGED vars
  BY <1>7, DataFrame DEF vars
<1>8. ASSUME NEW c \in Client, Thread(c) \/ BridgeSends(c) \/ BridgeLeaves(c)
      PROVE  UNCHANGED ui
  BY <1>8 DEF Thread, Connected, ConnectFails, Turn, IOException, Write, Clear, End,
              BridgeSends, BridgeLeaves
<1> QED
  BY <1>1, <1>2, <1>3, <1>4, <1>5, <1>6, <1>7, <1>8 DEF Next, RunNext

LEMMA ThreadStep ==
    ASSUME TypeOK, OwnerInv, [Next]_vars
    PROVE  ThreadTypeOK'
<1> USE DEF TypeOK, ThreadTypeOK, threads, net, hist, Client
<1>1. CASE Connect
  <2>1. created' \in Client
    <3>1. created < MaxClients /\ created' = created + 1
      BY <1>1 DEF Connect
    <3> QED
      BY <3>1, Bounds
  <2>2. overlap' \subseteq Client
    BY <1>1, <2>1 DEF Connect
  <2>3. activity \in 0..MaxActivities
    BY DEF UiTypeOK
  <2> QED
    BY <1>1, <2>1, <2>2, <2>3 DEF Connect
<1>2. CASE onCreate \/ Disconnect \/ onDestroy
  BY <1>2 DEF onCreate, Disconnect, onDestroy, tcpstop
<1>3. CASE SwitchLed \/ \E a \in Activity : onSensorChanged(a)
  BY <1>3, SendSplit, SendFrame
<1>4. CASE OnThreadStart \/ OnThreadEnd
  BY <1>4 DEF OnThreadStart, OnThreadEnd, tcpstop
<1>5. CASE OnDataReceived \/ UNCHANGED vars
  BY <1>5, DataFrame DEF vars
<1>6. ASSUME NEW c \in Client, Thread(c)
      PROVE  ThreadTypeOK'
  BY <1>6 DEF Thread, Connected, ConnectFails, Turn, IOException, Write, Clear, End, Goto
<1>7. ASSUME NEW c \in Client, BridgeSends(c) \/ BridgeLeaves(c)
      PROVE  ThreadTypeOK'
  BY <1>7 DEF BridgeSends, BridgeLeaves
<1> QED
  BY <1>1, <1>2, <1>3, <1>4, <1>5, <1>6, <1>7 DEF Next, RunNext

LEMMA CountStep ==
    ASSUME TypeOK, OwnerInv, [Next]_vars
    PROVE  CountTypeOK'
<1> USE DEF TypeOK, CountTypeOK, threads, net, hist, null
<1>1. CASE onCreate \/ Connect \/ Disconnect \/ onDestroy
  BY <1>1 DEF onCreate, Connect, Disconnect, onDestroy
<1>2. CASE SwitchLed \/ \E a \in Activity : onSensorChanged(a)
  <2>1. PICK a \in Activity : send(a)
    BY <1>2, SendSplit
  <2>2. given' \in [Client -> Nat]
    BY <2>1, SendFrame
  <2>3. mTCP[a] \in Client
    BY <2>1, SendFrame, Bounds DEF UiTypeOK, Client
  <2>4. mOutByte' \in [Client -> Nat]
    BY <2>1, <2>2, <2>3, SendFrame
  <2> QED
    BY <2>1, <2>2, <2>4, SendFrame
<1>3. CASE OnThreadStart \/ OnThreadEnd
  BY <1>3 DEF OnThreadStart, OnThreadEnd
<1>4. CASE OnDataReceived \/ UNCHANGED vars
  BY <1>4, DataFrame DEF vars
<1>5. ASSUME NEW c \in Client, Connected(c) \/ ConnectFails(c) \/ End(c) \/ BridgeLeaves(c)
      PROVE  CountTypeOK'
  BY <1>5 DEF Connected, ConnectFails, End, BridgeLeaves
<1>6. ASSUME NEW c \in Client, Turn(c) \/ IOException(c) \/ Write(c) \/ Clear(c)
      PROVE  CountTypeOK'
  <2>1. CASE Turn(c)
    BY <2>1 DEF Turn
  <2>2. CASE IOException(c)
    BY <2>2 DEF IOException
  <2>3. CASE Write(c)
    BY <2>3 DEF Write
  <2>4. CASE Clear(c)
    BY <2>4 DEF Clear
  <2> QED
    BY <1>6, <2>1, <2>2, <2>3, <2>4
<1>7. ASSUME NEW c \in Client, BridgeSends(c)
      PROVE  CountTypeOK'
  BY <1>7 DEF BridgeSends
<1> QED
  BY <1>1, <1>2, <1>3, <1>4, <1>5, <1>6, <1>7 DEF Next, RunNext, Thread

LEMMA DataStep ==
    ASSUME TypeOK, OwnerInv, [Next]_vars
    PROVE  DataTypeOK'
<1>1. queue \in Seq(Run) /\ incoming \in [Client -> Seq(Piece)]
  BY DEF TypeOK, DataTypeOK
<1>2. ASSUME UNCHANGED <<queue, incoming>> PROVE DataTypeOK'
  BY <1>1, <1>2 DEF DataTypeOK
<1>3. << >> \in Seq(Piece)
  BY EmptySeq
<1>4. CASE onCreate \/ Connect \/ Disconnect \/ onDestroy
  BY <1>2, <1>4 DEF onCreate, Connect, Disconnect, onDestroy, net
<1>5. CASE SwitchLed \/ \E a \in Activity : onSensorChanged(a)
  BY <1>2, <1>5, SendSplit, SendFrame DEF net
<1>6. CASE RunNext
  <2>1. queue # << >> /\ queue' = Tail(queue) /\ incoming' = incoming
    BY <1>6, DataFrame DEF RunNext, OnThreadStart, OnThreadEnd, IsNext, net
  <2>2. queue' \in Seq(Run)
    BY <2>1, Taken
  <2> QED
    BY <1>1, <2>1, <2>2 DEF DataTypeOK
<1>7. ASSUME NEW c \in Client, Connected(c) \/ ConnectFails(c) \/ End(c)
      PROVE  DataTypeOK'
  <2>1. queue' \in Seq(Run)
    BY <1>3, <1>7, Appended DEF Connected, ConnectFails, End
  <2>2. incoming' = incoming \/ incoming' = [incoming EXCEPT ![c] = << >>]
    BY <1>7 DEF Connected, ConnectFails, End, net
  <2>3. incoming' \in [Client -> Seq(Piece)]
    BY <1>1, <1>3, <2>2
  <2> QED
    BY <2>1, <2>3 DEF DataTypeOK
<1>8. ASSUME NEW c \in Client, Turn(c)
      PROVE  DataTypeOK'
  <2>1. incoming[c] \in Seq(Piece)
    BY <1>1
  <2>2. queue' = queue \/ runOnUiThread("OnDataReceived", c, incoming[c])
    BY <1>8 DEF Turn
  <2>3. queue' \in Seq(Run)
    BY <1>1, <2>1, <2>2, Appended
  <2>4. incoming' = [incoming EXCEPT ![c] = << >>]
    BY <1>8 DEF Turn
  <2>5. incoming' \in [Client -> Seq(Piece)]
    BY <1>1, <1>3, <2>4
  <2> QED
    BY <2>3, <2>5 DEF DataTypeOK
<1>9. ASSUME NEW c \in Client, IOException(c) \/ Write(c) \/ Clear(c) \/ BridgeLeaves(c)
      PROVE  DataTypeOK'
  BY <1>2, <1>9 DEF IOException, Write, Clear, BridgeLeaves, net
<1>10. ASSUME NEW c \in Client, BridgeSends(c)
       PROVE  DataTypeOK'
  <2> DEFINE p == Part(c, pieces'[c])
  <2>1. pieces[c] \in Nat /\ pieces[c] < 2 * MaxFrames /\ pieces'[c] = pieces[c] + 1
    BY <1>10 DEF BridgeSends, TypeOK, CountTypeOK
  <2>2. pieces'[c] \in 1..(2 * MaxFrames)
    BY <2>1, Bounds
  <2>3. p \in Piece
    BY <2>2, PartIsPiece
  <2>4. incoming' = [incoming EXCEPT ![c] = Append(@, p)] /\ queue' = queue
    BY <1>10 DEF BridgeSends
  <2> HIDE DEF p
  <2>5. Append(incoming[c], p) \in Seq(Piece)
    BY <1>1, <2>3, AppendProperties
  <2>6. incoming' \in [Client -> Seq(Piece)]
    BY <1>1, <2>4, <2>5
  <2> QED
    BY <1>1, <2>4, <2>6 DEF DataTypeOK
<1>11. CASE UNCHANGED vars
  BY <1>2, <1>11 DEF vars, net
<1> QED
  BY <1>4, <1>5, <1>6, <1>7, <1>8, <1>9, <1>10, <1>11 DEF Next, Thread

----------------------------------------------------------------------------
(* Owners and the order of the queue. *)

AgreeInv == OwnerInv /\ QueueInv /\ ClientOfActivity

(* Steps in which nobody comes, ends or queues. *)
LEMMA AgreeSame ==
    ASSUME AgreeInv, TypeOK,
           UNCHANGED <<queue, mTCP, online, created, listener>>,
           \A c \in Client : /\ pc'[c] = "new" <=> pc[c] = "new"
                             /\ pc'[c] = "ended" <=> pc[c] = "ended"
    PROVE  AgreeInv'
<1>1. \A c : Queued(c)' <=> Queued(c)
  BY DEF Queued
<1>2. \A c \in Client : Busy(c)' <=> Busy(c)
  BY <1>1 DEF Busy
<1>3. \A a \in Activity : mTCP[a] # null => mTCP[a] \in Client
  BY Bounds DEF TypeOK, UiTypeOK, Client, null
<1>4. \A i \in 1..Len(queue) : queue[i].client \in Client
  BY QueueTypes
<1>5. OwnerInv'
  BY <1>1, <1>2, <1>3 DEF AgreeInv, OwnerInv
<1>6. QueueInv'
  BY <1>1, <1>4 DEF AgreeInv, QueueInv
<1>7. ClientOfActivity'
  BY <1>2, <1>3 DEF AgreeInv, ClientOfActivity
<1> QED
  BY <1>5, <1>6, <1>7 DEF AgreeInv

(* A client that runs queues something, and runs on. *)
LEMMA AgreeQueue ==
    ASSUME AgreeInv, TypeOK, NEW c \in Client, NEW data \in Seq(Piece),
           NEW run \in {"OnThreadStart", "OnDataReceived"},
           runOnUiThread(run, c, data),
           UNCHANGED <<mTCP, online, created, listener>>,
           pc[c] \notin {"new", "ended"},
           \A d \in Client : /\ pc'[d] = "new" <=> pc[d] = "new"
                             /\ pc'[d] = "ended" <=> pc[d] = "ended"
    PROVE  AgreeInv'
<1> DEFINE n == Len(queue) + 1
<1>1. /\ n \in Nat /\ Len(queue') = n /\ Len(queue) \in Nat
      /\ \A i \in 1..Len(queue) : queue'[i] = queue[i]
      /\ queue'[n].client = c /\ queue'[n].run # "OnThreadEnd"
      /\ \A d \in Client : Queued(d)' <=> Queued(d) \/ d = c
  BY Appended
<1>2. \A d \in Client : Busy(d)' <=> Busy(d)
  BY <1>1 DEF Busy
<1>3. \A a \in Activity : mTCP[a] # null => mTCP[a] \in Client
  BY Bounds DEF TypeOK, UiTypeOK, Client, null
<1>4. \A i \in 1..Len(queue) : queue[i].client \in Client
  BY QueueTypes
<1>5. OwnerInv'
  BY <1>1, <1>2, <1>3 DEF AgreeInv, OwnerInv
<1>6. \A i \in 1..Len(queue') : i \in 1..Len(queue) \/ i = n
  BY <1>1
<1>7. ASSUME NEW i \in 1..Len(queue'), queue'[i].run = "OnThreadEnd"
      PROVE  /\ pc'[queue'[i].client] = "ended"
             /\ \A j \in 1..Len(queue') : queue'[j].client = queue'[i].client => j <= i
  <2>1. i \in 1..Len(queue) /\ queue'[i] = queue[i]
    BY <1>1, <1>6, <1>7
  <2>2. queue[i].run = "OnThreadEnd" /\ queue[i].client \in Client
    BY <1>4, <1>7, <2>1
  <2>3. pc[queue[i].client] = "ended"
    BY <2>1, <2>2 DEF AgreeInv, QueueInv
  <2>4. queue[i].client # c
    BY <2>3
  <2> QED
    BY <1>1, <1>6, <2>1, <2>2, <2>3, <2>4 DEF AgreeInv, QueueInv
<1>8. ASSUME NEW d \in Client, pc'[d] = "ended", Queued(d)'
      PROVE  \E i \in 1..Len(queue') : queue'[i].client = d /\ queue'[i].run = "OnThreadEnd"
  <2>1. pc[d] = "ended" /\ Queued(d)
    BY <1>1, <1>8
  <2>2. PICK i \in 1..Len(queue) : queue[i].client = d /\ queue[i].run = "OnThreadEnd"
    BY <2>1 DEF AgreeInv, QueueInv
  <2>3. i \in 1..Len(queue')
    BY <1>1
  <2> QED
    BY <1>1, <2>2, <2>3
<1>9. QueueInv'
  BY <1>7, <1>8 DEF QueueInv
<1>10. ClientOfActivity'
  BY <1>2, <1>3 DEF AgreeInv, ClientOfActivity
<1> QED
  BY <1>5, <1>9, <1>10 DEF AgreeInv

(* The thread of a client ends, and its OnThreadEnd() is the last in the   *)
(* queue.                                                                  *)
LEMMA AgreeEnd ==
    ASSUME AgreeInv, TypeOK, NEW c \in Client, NEW data \in Seq(Piece),
           runOnUiThread("OnThreadEnd", c, data),
           UNCHANGED <<mTCP, online, created, listener>>,
           pc[c] \notin {"new", "ended"}, pc' = [pc EXCEPT ![c] = "ended"]
    PROVE  AgreeInv'
<1> DEFINE n == Len(queue) + 1
<1>1. /\ n \in Nat /\ Len(queue') = n /\ Len(queue) \in Nat
      /\ \A i \in 1..Len(queue) : queue'[i] = queue[i]
      /\ queue'[n].client = c /\ queue'[n].run = "OnThreadEnd"
      /\ \A d \in Client : Queued(d)' <=> Queued(d) \/ d = c
  BY Appended
<1>2. pc'[c] = "ended" /\ \A d \in Client \ {c} : pc'[d] = pc[d]
  BY DEF TypeOK, ThreadTypeOK
<1>3. \A d \in Client : Busy(d)' <=> Busy(d)
  BY <1>1, <1>2 DEF Busy
<1>4. \A a \in Activity : mTCP[a] # null => mTCP[a] \in Client
  BY Bounds DEF TypeOK, UiTypeOK, Client, null
<1>5. \A i \in 1..Len(queue) : queue[i].client \in Client
  BY QueueTypes
<1>6. OwnerInv'
  BY <1>1, <1>2, <1>3, <1>4 DEF AgreeInv, OwnerInv
<1>7. \A i \in 1..Len(queue') : i \in 1..Len(queue) \/ i = n
  BY <1>1
<1>8. ASSUME NEW i \in 1..Len(queue'), queue'[i].run = "OnThreadEnd"
      PROVE  /\ pc'[queue'[i].client] = "ended"
             /\ \A j \in 1..Len(queue') : queue'[j].client = queue'[i].client => j <= i
  <2>1. CASE i = n
    BY <1>1, <1>2, <2>1
  <2>2. CASE i \in 1..Len(queue)
    <3>1. queue'[i] = queue[i] /\ queue[i].run = "OnThreadEnd" /\ queue[i].client \in Client
      BY <1>1, <1>5, <1>8, <2>2
    <3>2. pc[queue[i].client] = "ended"
      BY <2>2, <3>1 DEF AgreeInv, QueueInv
    <3>3. queue[i].client # c
      BY <3>2
    <3> QED
      BY <1>1, <1>2, <1>7, <2>2, <3>1, <3>2, <3>3 DEF AgreeInv, QueueInv
  <2> QED
    BY <1>7, <2>1, <2>2
<1>9. ASSUME NEW d \in Client, pc'[d] = "ended", Queued(d)'
      PROVE  \E i \in 1..Len(queue') : queue'[i].client = d /\ queue'[i].run = "OnThreadEnd"
  <2>1. CASE d = c
    BY <1>1, <2>1
  <2>2. CASE d # c
    <3>1. PICK i \in 1..Len(queue) : queue[i].client = d /\ queue[i].run = "OnThreadEnd"
      BY <1>1, <1>2, <1>9, <2>2 DEF AgreeInv, QueueInv
    <3>2. i \in 1..Len(queue')
      BY <1>1
    <3> QED
      BY <1>1, <3>1, <3>2
  <2> QED
    BY <2>1, <2>2
<1>10. QueueInv'
  BY <1>8, <1>9 DEF QueueInv
<1>11. ClientOfActivity'
  BY <1>3, <1>4 DEF AgreeInv, ClientOfActivity
<1> QED
  BY <1>6, <1>10, <1>11 DEF AgreeInv

(* What runs next leaves the queue, and was not the last of its client.    *)
LEMMA AgreeRun ==
    ASSUME AgreeInv, TypeOK, queue # << >>, queue' = Tail(queue),
           Head(queue).run # "OnThreadEnd",
           UNCHANGED <<mTCP, created, listener, pc>>,
           online' = online \/ online' = [online EXCEPT ![Owner] = TRUE]
    PROVE  AgreeInv'
<1>1. /\ Len(queue) \in Nat \ {0} /\ Len(queue') = Len(queue) - 1
      /\ \A i \in 1..Len(queue') : queue'[i] = queue[i + 1] /\ i + 1 \in 1..Len(queue)
      /\ Head(queue) = queue[1] /\ 1 \in 1..Len(queue)
      /\ Sender \in Client /\ Queued(Sender)
      /\ \A d \in Client : Queued(d) <=> Queued(d)' \/ d = Sender
  BY Taken
<1>2. \A i \in 1..Len(queue) : queue[i].client \in Client
  BY QueueTypes
<1>3. \A a \in Activity : mTCP[a] # null => mTCP[a] \in Client
  BY Bounds DEF TypeOK, UiTypeOK, Client, null
<1>4. \A i \in 1..Len(queue) : i = 1 \/ (i - 1 \in 1..Len(queue') /\ queue'[i - 1] = queue[i])
  BY <1>1
<1>5. ASSUME NEW d \in Client, pc[d] = "ended", Queued(d)
      PROVE  \E i \in 1..Len(queue') : queue'[i].client = d /\ queue'[i].run = "OnThreadEnd"
  <2>1. PICK i \in 1..Len(queue) : queue[i].client = d /\ queue[i].run = "OnThreadEnd"
    BY <1>5 DEF AgreeInv, QueueInv
  <2>2. i # 1
    BY <1>1, <2>1
  <2> QED
    BY <1>4, <2>1, <2>2
<1>6. pc[Sender] # "new" /\ Busy(Sender)
  BY <1>1 DEF AgreeInv, OwnerInv, Busy
<1>7. \A d \in Client : Busy(d)' <=> Busy(d)
  <2> SUFFICES ASSUME NEW d \in Client PROVE Busy(d)' <=> Busy(d)
    OBVIOUS
  <2>1. CASE pc[d] \notin {"new", "ended"}
    BY <2>1 DEF Busy
  <2>2. CASE pc[d] = "new"
    BY <1>1, <1>6, <2>2 DEF Busy
  <2>3. CASE pc[d] = "ended"
    <3>1. Queued(d) => Queued(d)'
      BY <1>5, <2>3 DEF Queued
    <3> QED
      BY <1>1, <2>3, <3>1 DEF Busy
  <2> QED
    BY <2>1, <2>2, <2>3
<1>8. OwnerInv'
  BY <1>1, <1>3, <1>7 DEF AgreeInv, OwnerInv
<1>9. QueueInv'
  <2>1. ASSUME NEW i \in 1..Len(queue'), queue'[i].run = "OnThreadEnd"
        PROVE  /\ pc'[queue'[i].client] = "ended"
               /\ \A j \in 1..Len(queue') : queue'[j].client = queue'[i].client => j <= i
    <3>1. i + 1 \in 1..Len(queue) /\ queue'[i] = queue[i + 1]
      BY <1>1
    <3>2. \A j \in 1..Len(queue) : queue[j].client = queue'[i].client => j <= i + 1
      BY <2>1, <3>1 DEF AgreeInv, QueueInv
    <3>3. \A j \in 1..Len(queue') : queue'[j].client = queue'[i].client => j <= i
      BY <1>1, <3>2
    <3>4. pc[queue'[i].client] = "ended"
      BY <2>1, <3>1 DEF AgreeInv, QueueInv
    <3> QED
      BY <3>3, <3>4
  <2>2. ASSUME NEW d \in Client, pc'[d] = "ended", Queued(d)'
        PROVE  \E i \in 1..Len(queue') : queue'[i].client = d /\ queue'[i].run = "OnThreadEnd"
    BY <1>1, <1>5, <2>2
  <2> QED
    BY <2>1, <2>2 DEF QueueInv
<1>10. mTCP[Owner] = Sender /\ Sender # null
  BY <1>1, <1>6, Bounds DEF AgreeInv, ClientOfActivity, Owner, Client, null
<1>11. ClientOfActivity'
  <2>1. \A a \in Activity : online'[a] => online[a] \/ a = Owner
    BY DEF TypeOK, UiTypeOK
  <2> QED
    BY <1>1, <1>3, <1>6, <1>7, <1>10, <2>1 DEF AgreeInv, ClientOfActivity
<1> QED
  BY <1>8, <1>9, <1>11 DEF AgreeInv

(* OnThreadEnd(): its client has nothing left in the queue, and the        *)
(* activity lets go of it.                                                 *)
LEMMA AgreeForget ==
    ASSUME AgreeInv, TypeOK, OnThreadEnd
    PROVE  AgreeInv'
<1>1. /\ queue # << >> /\ queue' = Tail(queue) /\ Head(queue).run = "OnThreadEnd"
      /\ mTCP' = [mTCP EXCEPT ![Owner] = null]
      /\ online' = [online EXCEPT ![Owner] = FALSE]
      /\ created' = created /\ listener' = listener /\ pc' = pc
  BY DEF OnThreadEnd, IsNext
<1>2. /\ Len(queue) \in Nat \ {0} /\ Len(queue') = Len(queue) - 1
      /\ \A i \in 1..Len(queue') : queue'[i] = queue[i + 1] /\ i + 1 \in 1..Len(queue)
      /\ Head(queue) = queue[1] /\ 1 \in 1..Len(queue)
      /\ Sender \in Client /\ Queued(Sender)
      /\ \A d \in Client : Queued(d) <=> Queued(d)' \/ d = Sender
  BY <1>1, Taken
<1>3. \A i \in 1..Len(queue) : queue[i].client \in Client
  BY QueueTypes
<1>4. pc[Sender] = "ended" /\ \A j \in 1..Len(queue) : queue[j].client = Sender => j <= 1
  BY <1>1, <1>2 DEF AgreeInv, QueueInv, Sender
<1>5. \A d \in Client : d = Sender => ~Queued(d)' /\ ~Busy(d)'
  <2>1. \A i \in 1..Len(queue') : queue'[i].client # Sender
    <3>1. \A i \in 1..Len(queue') : ~(i + 1 <= 1)
      BY <1>2
    <3> QED
      BY <1>2, <1>4, <3>1
  <2> QED
    BY <1>1, <1>4, <2>1 DEF Queued, Busy
<1>6. \A d \in Client : Busy(d)' <=> Busy(d) /\ d # Sender
  BY <1>1, <1>2, <1>5 DEF Busy
<1>7. \A d \in Client : Queued(d)' <=> Queued(d) /\ d # Sender
  BY <1>2, <1>5
<1>8. /\ Owner \in Activity /\ mTCP[Owner] = Sender
      /\ mTCP'[Owner] = null /\ \A a \in Activity \ {Owner} : mTCP'[a] = mTCP[a]
      /\ ~online'[Owner] /\ \A a \in Activity \ {Owner} : online'[a] = online[a]
  <2>1. Busy(Sender) /\ pc[Sender] # "new"
    BY <1>2, <1>4 DEF Busy
  <2>2. mTCP[Owner] = Sender /\ Owner \in Activity
    BY <1>2, <2>1 DEF AgreeInv, ClientOfActivity, OwnerInv, Owner
  <2> QED
    BY <1>1, <2>2 DEF TypeOK, UiTypeOK
<1>9. \A a \in Activity : mTCP[a] # null => mTCP[a] \in Client /\ listener[mTCP[a]] = a
  BY Bounds DEF AgreeInv, OwnerInv, TypeOK, UiTypeOK, Client, null
<1>10. \A a \in Activity : mTCP'[a] # null => a # Owner /\ mTCP'[a] = mTCP[a] /\ mTCP[a] # Sender
  BY <1>8, <1>9 DEF Owner
<1>11. OwnerInv'
  BY <1>1, <1>6, <1>7, <1>9, <1>10 DEF AgreeInv, OwnerInv
<1>12. QueueInv'
  <2>1. ASSUME NEW i \in 1..Len(queue'), queue'[i].run = "OnThreadEnd"
        PROVE  /\ pc'[queue'[i].client] = "ended"
               /\ \A j \in 1..Len(queue') : queue'[j].client = queue'[i].client => j <= i
    <3>1. i + 1 \in 1..Len(queue) /\ queue'[i] = queue[i + 1]
      BY <1>2
    <3>2. \A j \in 1..Len(queue) : queue[j].client = queue'[i].client => j <= i + 1
      BY <2>1, <3>1 DEF AgreeInv, QueueInv
    <3>3. ASSUME NEW j \in 1..Len(queue'), queue'[j].client = queue'[i].client
          PROVE  j <= i
      <4>1. j + 1 \in 1..Len(queue) /\ queue[j + 1].client = queue'[i].client
        BY <1>2, <3>3
      <4> QED
        BY <1>2, <3>2, <4>1
    <3>4. pc[queue'[i].client] = "ended"
      BY <2>1, <3>1 DEF AgreeInv, QueueInv
    <3> QED
      BY <1>1, <3>3, <3>4
  <2>2. ASSUME NEW d \in Client, pc'[d] = "ended", Queued(d)'
        PROVE  \E i \in 1..Len(queue') : queue'[i].client = d /\ queue'[i].run = "OnThreadEnd"
    <3>1. PICK i \in 1..Len(queue) : queue[i].client = d /\ queue[i].run = "OnThreadEnd"
      BY <1>1, <1>7, <2>2 DEF AgreeInv, QueueInv
    <3>2. i # 1
      BY <1>2, <1>7, <2>2, <3>1 DEF Sender
    <3>3. i - 1 \in 1..Len(queue') /\ queue'[i - 1] = queue[i]
      BY <1>2, <3>2
    <3> QED
      BY <3>1, <3>3
  <2> QED
    BY <2>1, <2>2 DEF QueueInv
<1>13. ClientOfActivity'
  <2>1. ASSUME NEW c \in Client, Busy(c)' PROVE mTCP'[listener'[c]] = c
    <3>1. Busy(c) /\ c # Sender
      BY <1>6, <2>1
    <3>2. mTCP[listener[c]] = c
      BY <3>1 DEF AgreeInv, ClientOfActivity
    <3>3. pc[c] # "new"
      BY <3>1 DEF AgreeInv, OwnerInv, Busy
    <3>4. listener[c] \in Activity
      BY <3>3 DEF AgreeInv, OwnerInv
    <3>5. listener[c] # Owner
      BY <1>8, <3>1, <3>2
    <3> QED
      BY <1>1, <1>8, <3>2, <3>4, <3>5
  <2>2. ASSUME NEW a \in Activity, online'[a] PROVE mTCP'[a] # null /\ Busy(mTCP[a])'
    <3>1. a # Owner /\ online[a]
      BY <1>8, <2>2
    <3>2. mTCP[a] # null /\ Busy(mTCP[a]) /\ mTCP'[a] = mTCP[a]
      BY <1>8, <3>1 DEF AgreeInv, ClientOfActivity
    <3>3. mTCP[a] \in Client /\ mTCP[a] # Sender
      BY <1>9, <1>10, <3>2
    <3>4. \A d \in Client : d = mTCP[a] => Busy(d)'
      BY <1>6, <3>2, <3>3
    <3> QED
      BY <3>2, <3>3, <3>4
  <2> QED
    BY <2>1, <2>2 DEF ClientOfActivity
<1> QED
  BY <1>11, <1>12, <1>13 DEF AgreeInv

LEMMA AgreeConnect ==
    ASSUME AgreeInv, TypeOK, Connect
    PROVE  AgreeInv'
<1>1. /\ alive /\ mTCP[activity] = null /\ created < MaxClients
      /\ created' = created + 1
      /\ mTCP' = [mTCP EXCEPT ![activity] = created']
      /\ listener' = [listener EXCEPT ![created'] = activity]
      /\ pc' = [pc EXCEPT ![created'] = "connect"]
      /\ queue' = queue /\ online' = online
  BY DEF Connect
<1>2. PICK n \in Client : n = created'
  <2>1. created \in 0..MaxClients
    BY DEF TypeOK, ThreadTypeOK
  <2> QED
    BY <1>1, <2>1, Bounds DEF Client
<1>3. activity \in Activity
  BY <1>1 DEF TypeOK, UiTypeOK
<1>4. /\ pc'[n] = "connect" /\ \A d \in Client \ {n} : pc'[d] = pc[d]
      /\ listener'[n] = activity /\ \A d \in Client \ {n} : listener'[d] = listener[d]
  BY <1>1, <1>2 DEF TypeOK, ThreadTypeOK
<1>5. mTCP'[activity] = n /\ \A a \in Activity \ {activity} : mTCP'[a] = mTCP[a]
  BY <1>1, <1>2, <1>3 DEF TypeOK, UiTypeOK
<1>6. \A d \in Client : (d > created' <=> d > created /\ d # n) /\ n > created
  <2>1. created \in Nat
    BY Bounds DEF TypeOK, ThreadTypeOK
  <2> QED
    BY <1>1, <1>2, <2>1, Bounds DEF Client
<1>7. pc[n] = "new" /\ ~Queued(n) /\ ~Busy(n)
  BY <1>6 DEF AgreeInv, OwnerInv, Busy
<1>8. \A d : Queued(d)' <=> Queued(d)
  BY <1>1 DEF Queued
<1>9. \A d \in Client : Busy(d)' <=> Busy(d) \/ d = n
  BY <1>4, <1>7, <1>8 DEF Busy
<1>10. \A a \in Activity : mTCP[a] # null =>
          mTCP[a] \in Client /\ mTCP[a] # n /\ a # activity
  BY <1>1, <1>7, Bounds DEF AgreeInv, OwnerInv, TypeOK, UiTypeOK, Client, null
<1>11. n # null
  BY <1>2, Bounds DEF Client, null
<1>12. OwnerInv'
  <2>1. \A c \in Client : pc'[c] = "new" <=> c > created'
    BY <1>4, <1>6 DEF AgreeInv, OwnerInv
  <2>2. \A c \in Client : pc'[c] = "new" => ~Queued(c)'
    BY <1>4, <1>8 DEF AgreeInv, OwnerInv
  <2>3. \A c \in Client : pc'[c] # "new" => listener'[c] \in Activity
    BY <1>3, <1>4 DEF AgreeInv, OwnerInv
  <2>4. ASSUME NEW a \in Activity, mTCP'[a] # null
        PROVE  Busy(mTCP[a])' /\ listener'[mTCP'[a]] = a
    BY <1>4, <1>5, <1>9, <1>10, <2>4 DEF AgreeInv, OwnerInv
  <2> QED
    BY <2>1, <2>2, <2>3, <2>4 DEF OwnerInv
<1>13. QueueInv'
  <2>1. \A i \in 1..Len(queue) : queue[i].client \in Client
    BY QueueTypes
  <2> QED
    BY <1>1, <1>4, <1>7, <1>8, <2>1 DEF AgreeInv, QueueInv
<1>14. ClientOfActivity'
  <2>1. ASSUME NEW c \in Client, Busy(c)' PROVE mTCP'[listener'[c]] = c
    <3>1. CASE c = n
      BY <1>4, <1>5, <3>1
    <3>2. CASE c # n
      <4>1. Busy(c) /\ listener'[c] = listener[c]
        BY <1>4, <1>9, <2>1, <3>2
      <4>2. mTCP[listener[c]] = c /\ c # null
        BY <4>1, Bounds DEF AgreeInv, ClientOfActivity, Client, null
      <4>3. listener[c] \in Activity
        BY <4>1 DEF AgreeInv, OwnerInv, Busy
      <4> QED
        BY <1>1, <1>5, <4>1, <4>2, <4>3
    <3> QED
      BY <3>1, <3>2
  <2>2. ASSUME NEW a \in Activity, online'[a] PROVE mTCP'[a] # null /\ Busy(mTCP[a])'
    BY <1>1, <1>5, <1>9, <1>10, <1>11, <2>2 DEF AgreeInv, ClientOfActivity
  <2> QED
    BY <2>1, <2>2 DEF ClientOfActivity
<1> QED
  BY <1>12, <1>13, <1>14 DEF AgreeInv

LEMMA AgreeStep ==
    ASSUME AgreeInv, TypeOK, [Next]_vars
    PROVE  AgreeInv'
<1> USE DEF ui, threads
<1>1. CASE onCreate \/ Disconnect \/ onDestroy
  BY <1>1, AgreeSame DEF onCreate, Disconnect, onDestroy
<1>2. CASE Connect
  BY <1>2, AgreeConnect
<1>3. CASE SwitchLed \/ \E a \in Activity : onSensorChanged(a)
  BY <1>3, SendSplit, SendFrame, AgreeSame
<1>4. CASE OnThreadStart
  BY <1>4, AgreeRun DEF OnThreadStart, IsNext
<1>5. CASE OnDataReceived
  BY <1>5, DataFrame, AgreeRun DEF IsNext
<1>6. CASE OnThreadEnd
  BY <1>6, AgreeForget
<1>7. pc \in [Client -> {"new", "connect", "loop", "write", "clear", "ended"}]
  BY DEF TypeOK, ThreadTypeOK
<1>8. ASSUME NEW c \in Client, Connected(c)
      PROVE  AgreeInv'
  <2>1. /\ pc[c] = "connect" /\ pc' = [pc EXCEPT ![c] = "loop"]
        /\ runOnUiThread("OnThreadStart", c, << >>)
        /\ UNCHANGED <<mTCP, online, created, listener>>
    BY <1>8 DEF Connected, Goto
  <2>2. << >> \in Seq(Piece)
    BY EmptySeq
  <2> QED
    BY <1>7, <2>1, <2>2, AgreeQueue
<1>9. ASSUME NEW c \in Client, ConnectFails(c) \/ End(c)
      PROVE  AgreeInv'
  <2>1. /\ pc[c] \in {"connect", "loop"} /\ pc' = [pc EXCEPT ![c] = "ended"]
        /\ runOnUiThread("OnThreadEnd", c, << >>)
        /\ UNCHANGED <<mTCP, online, created, listener>>
    BY <1>9 DEF ConnectFails, End, Goto
  <2>2. << >> \in Seq(Piece)
    BY EmptySeq
  <2> QED
    BY <2>1, <2>2, AgreeEnd
<1>10. ASSUME NEW c \in Client, Turn(c)
       PROVE  AgreeInv'
  <2>1. /\ pc[c] = "loop"
        /\ pc' = [pc EXCEPT ![c] = "loop"] \/ pc' = [pc EXCEPT ![c] = "write"]
        /\ queue' = queue \/ runOnUiThread("OnDataReceived", c, incoming[c])
        /\ UNCHANGED <<mTCP, online, created, listener>>
    BY <1>10 DEF Turn, Goto
  <2>2. incoming[c] \in Seq(Piece)
    BY DEF TypeOK, DataTypeOK
  <2>3. \A d \in Client : /\ pc'[d] = "new" <=> pc[d] = "new"
                          /\ pc'[d] = "ended" <=> pc[d] = "ended"
    BY <1>7, <2>1
  <2>4. CASE queue' = queue
    BY <2>1, <2>3, <2>4, AgreeSame
  <2>5. CASE runOnUiThread("OnDataReceived", c, incoming[c])
    BY <2>1, <2>2, <2>3, <2>5, AgreeQueue
  <2> QED
    BY <2>1, <2>4, <2>5
<1>11. ASSUME NEW c \in Client, IOException(c) \/ Write(c) \/ Clear(c)
       PROVE  AgreeInv'
  <2>1. /\ pc[c] \in {"loop", "write", "clear"}
        /\ pc' = [pc EXCEPT ![c] = "loop"] \/ pc' = [pc EXCEPT ![c] = "clear"]
        /\ UNCHANGED <<queue, mTCP, online, created, listener>>
    BY <1>11 DEF IOException, Write, Clear, Goto
  <2>2. \A d \in Client : /\ pc'[d] = "new" <=> pc[d] = "new"
                          /\ pc'[d] = "ended" <=> pc[d] = "ended"
    BY <1>7, <2>1
  <2> QED
    BY <2>1, <2>2, AgreeSame
<1>12. ASSUME NEW c \in Client, BridgeSends(c) \/ BridgeLeaves(c)
       PROVE  AgreeInv'
  BY <1>12, AgreeSame DEF BridgeSends, BridgeLeaves
<1>13. CASE UNCHANGED vars
  BY <1>13, AgreeSame DEF vars
<1> QED
  BY <1>1, <1>2, <1>3, <1>4, <1>5, <1>6, <1>8, <1>9, <1>10, <1>11, <1>12, <1>13
  DEF Next, RunNext, Thread

----------------------------------------------------------------------------
(* The slot of a command. *)

LEMMA SlotStep ==
    ASSUME TypeOK, OwnerInv, SlotInv, [Next]_vars
    PROVE  SlotInv'
<1> USE DEF null
<1>1. /\ mOutByte \in [Client -> Nat] /\ read \in [Client -> Nat]
      /\ given \in [Client -> Nat] /\ written \in [Client -> Nat]
  BY DEF TypeOK, CountTypeOK
<1>2. pc \in [Client -> {"new", "connect", "loop", "write", "clear", "ended"}]
  BY DEF TypeOK, ThreadTypeOK
<1>3. ASSUME UNCHANGED <<mOutByte, given, written, read>>,
             \A d \in Client : pc'[d] = pc[d] \/ (pc'[d] # "write" /\ pc[d] # "clear")
      PROVE  SlotInv'
  BY <1>3 DEF SlotInv
<1>4. CASE onCreate \/ Disconnect \/ onDestroy
  BY <1>3, <1>4 DEF onCreate, Disconnect, onDestroy, threads, hist
<1>5. CASE Connect
  <2>1. /\ pc' = [pc EXCEPT ![created'] = "connect"] /\ created' = created + 1
        /\ created < MaxClients /\ UNCHANGED <<mOutByte, given, written, read>>
    BY <1>5 DEF Connect
  <2>2. \A d \in Client : d = created' => d > created
    BY <2>1, Bounds DEF TypeOK, ThreadTypeOK, Client
  <2>3. \A d \in Client : d = created' => pc[d] = "new"
    BY <2>2 DEF OwnerInv
  <2> QED
    BY <1>2, <1>3, <2>1, <2>3
<1>6. CASE SwitchLed \/ \E a \in Activity : onSensorChanged(a)
  <2>1. PICK a \in Activity : send(a)
    BY <1>6, SendSplit
  <2>2. PICK c \in Client : c = mTCP[a]
    BY <2>1, SendFrame, Bounds DEF TypeOK, UiTypeOK, Client
  <2>3. /\ given' = [given EXCEPT ![c] = @ + 1]
        /\ mOutByte' = [mOutByte EXCEPT ![c] = given[c] + 1]
        /\ pc' = pc /\ read' = read /\ written' = written
    BY <1>1, <2>1, <2>2, SendFrame
  <2> QED
    BY <1>1, <2>3 DEF SlotInv
<1>7. CASE RunNext
  BY <1>3, <1>7, DataFrame DEF RunNext, OnThreadStart, OnThreadEnd, threads, hist
<1>8. ASSUME NEW c \in Client, Connected(c) \/ ConnectFails(c) \/ End(c)
      PROVE  SlotInv'
  <2>1. /\ pc[c] \in {"connect", "loop"}
        /\ pc' = [pc EXCEPT ![c] = "loop"] \/ pc' = [pc EXCEPT ![c] = "ended"]
        /\ UNCHANGED <<mOutByte, given, written, read>>
    BY <1>8 DEF Connected, ConnectFails, End, Goto, hist
  <2> QED
    BY <1>2, <1>3, <2>1
<1>9. ASSUME NEW c \in Client, Turn(c)
      PROVE  SlotInv'
  <2>1. /\ pc[c] = "loop"
        /\ pc' = [pc EXCEPT ![c] = IF mOutByte[c] = null THEN "loop" ELSE "write"]
        /\ read' = [read EXCEPT ![c] = mOutByte[c]]
        /\ UNCHANGED <<mOutByte, given, written>>
    BY <1>9 DEF Turn, Goto, hist
  <2> QED
    BY <1>1, <1>2, <2>1 DEF SlotInv
<1>10. ASSUME NEW c \in Client, IOException(c)
       PROVE  SlotInv'
  <2>1. /\ pc[c] \in {"loop", "write"}
        /\ pc' = [pc EXCEPT ![c] = "loop"]
        /\ read' = [read EXCEPT ![c] = null]
        /\ UNCHANGED <<mOutByte, given, written>>
    BY <1>10 DEF IOException, Goto, hist
  <2> QED
    BY <1>1, <1>2, <2>1 DEF SlotInv
<1>11. ASSUME NEW c \in Client, Write(c)
       PROVE  SlotInv'
  <2>1. PICK command \in {read[c], mOutByte[c]} :
           written' = [written EXCEPT ![c] = command]
    BY <1>11 DEF Write
  <2>2. /\ pc[c] = "write" /\ pc' = [pc EXCEPT ![c] = "clear"]
        /\ read' = [read EXCEPT ![c] = null]
        /\ UNCHANGED <<mOutByte, given>>
    BY <1>11 DEF Write, Goto
  <2>3. command <= given[c]
    BY <1>1, <2>1, <2>2 DEF SlotInv
  <2> QED
    BY <1>1, <1>2, <2>1, <2>2, <2>3 DEF SlotInv
<1>12. ASSUME NEW c \in Client, Clear(c)
       PROVE  SlotInv'
  <2>1. /\ pc[c] = "clear" /\ pc' = [pc EXCEPT ![c] = "loop"]
        /\ mOutByte' = [mOutByte EXCEPT ![c] = null]
        /\ UNCHANGED <<read, given, written>>
    BY <1>12 DEF Clear, Goto, hist
  <2> QED
    BY <1>1, <1>2, <2>1 DEF SlotInv
<1>13. ASSUME NEW c \in Client, BridgeSends(c) \/ BridgeLeaves(c)
       PROVE  SlotInv'
  BY <1>3, <1>13 DEF BridgeSends, BridgeLeaves, threads, hist
<1>14. CASE UNCHANGED vars
  BY <1>3, <1>14 DEF vars, threads, hist
<1> QED
  BY <1>4, <1>5, <1>6, <1>7, <1>8, <1>9, <1>10, <1>11, <1>12, <1>13, <1>14
  DEF Next, Thread

(* Only write() takes a client to the clearing. *)
LEMMA ClearsAfterWrite ==
    ASSUME TypeOK, [Next]_vars, NEW c \in Client, pc[c] = "write", pc'[c] = "clear"
    PROVE  Write(c)
<1>1. pc \in [Client -> {"new", "connect", "loop", "write", "clear", "ended"}]
  BY DEF TypeOK, ThreadTypeOK
<1>2. pc' # pc
  OBVIOUS
<1>3. CASE onCreate \/ Disconnect \/ onDestroy \/ RunNext \/ UNCHANGED vars
  BY <1>2, <1>3, DataFrame
  DEF onCreate, Disconnect, onDestroy, RunNext, OnThreadStart, OnThreadEnd, threads, vars
<1>4. CASE Connect
  BY <1>1, <1>4 DEF Connect
<1>5. CASE SwitchLed \/ \E a \in Activity : onSensorChanged(a)
  BY <1>2, <1>5, SendSplit, SendFrame
<1>6. ASSUME NEW d \in Client, Thread(d)
      PROVE  Write(c)
  <2>1. ASSUME Connected(d) \/ ConnectFails(d) \/ Turn(d) \/ IOException(d) \/ Clear(d) \/ End(d)
        PROVE  \E to \in {"loop", "ended", "write"} : pc' = [pc EXCEPT ![d] = to]
    BY <2>1 DEF Connected, ConnectFails, Turn, IOException, Clear, End, Goto
  <2>2. ~(Connected(d) \/ ConnectFails(d) \/ Turn(d) \/ IOException(d) \/ Clear(d) \/ End(d))
    BY <1>1, <2>1
  <2>3. Write(d) /\ pc' = [pc EXCEPT ![d] = "clear"]
    BY <1>6, <2>2 DEF Thread, Write, Goto
  <2>4. d = c
    BY <1>1, <2>3
  <2> QED
    BY <2>3, <2>4
<1>7. ASSUME NEW d \in Client, BridgeSends(d) \/ BridgeLeaves(d)
      PROVE  pc' = pc
  BY <1>7 DEF BridgeSends, BridgeLeaves, threads
<1> QED
  BY <1>2, <1>3, <1>4, <1>5, <1>6, <1>7 DEF Next

----------------------------------------------------------------------------
(* What of a client's parts is where. *)

LEMMA DecodeNothing ==
    ASSUME NEW base
    PROVE  FoldLeft(Unkn0Decode, base, << >>) = base
<1> DEFINE iter == CHOOSE g : g = [s \in SUBSET DOMAIN << >> |->
                      IF s = {} THEN base ELSE Unkn0Decode(g[s \ {Max(s)}], << >>[Max(s)])]
<1>1. FoldLeft(Unkn0Decode, base, << >>) = iter[DOMAIN << >>]
  BY DEF FoldLeft, MapThenFoldSet
<1>2. \A s \in SUBSET DOMAIN << >> : s = {}
  OBVIOUS
<1> DEFINE g == [s \in SUBSET DOMAIN << >> |-> base]
<1>3. g = [s \in SUBSET DOMAIN << >> |->
             IF s = {} THEN base ELSE Unkn0Decode(g[s \ {Max(s)}], << >>[Max(s)])]
  BY <1>2
<1> HIDE DEF g
<1>4. iter = [s \in SUBSET DOMAIN << >> |->
                IF s = {} THEN base ELSE Unkn0Decode(iter[s \ {Max(s)}], << >>[Max(s)])]
  BY <1>3
<1> HIDE DEF iter
<1>5. iter[DOMAIN << >>] = base
  BY <1>2, <1>4
<1> QED
  BY <1>1, <1>5

(* Nobody else has queued anything while a client is alone. *)
LEMMA AloneInQueue ==
    ASSUME TypeOK, AloneInv, NEW c \in Client, c \notin overlap, Busy(c)
    PROVE  /\ \A d \in Client : Busy(d) => d = c
           /\ \A i \in 1..Len(queue) : queue[i].client = c
<1>1. \A d \in Client : Busy(d) => d = c
  BY DEF AloneInv
<1>2. \A i \in 1..Len(queue) : queue[i].client \in Client /\ Busy(queue[i].client)
  BY QueueTypes DEF Busy, Queued
<1> QED
  BY <1>1, <1>2

(* Only Connect makes a client busy. *)
LEMMA BusyShrinks ==
    ASSUME TypeOK, OwnerInv, [Next]_vars, ~Connect
    PROVE  overlap' = overlap /\ \A c \in Client : Busy(c)' => Busy(c)
<1> USE DEF ui, threads, net, codec, hist
<1>1. pc \in [Client -> {"new", "connect", "loop", "write", "clear", "ended"}]
  BY DEF TypeOK, ThreadTypeOK
<1>2. ASSUME UNCHANGED <<pc, overlap>>, queue' = queue
      PROVE  overlap' = overlap /\ \A c \in Client : Busy(c)' => Busy(c)
  BY <1>2 DEF Busy, Queued
<1>3. CASE onCreate \/ Disconnect \/ onDestroy
  BY <1>2, <1>3 DEF onCreate, Disconnect, onDestroy
<1>4. CASE SwitchLed \/ \E a \in Activity : onSensorChanged(a)
  BY <1>2, <1>4, SendSplit, SendFrame
<1>5. CASE RunNext
  <2>1. queue # << >> /\ queue' = Tail(queue) /\ UNCHANGED <<pc, overlap>>
    BY <1>5, DataFrame DEF RunNext, OnThreadStart, OnThreadEnd, IsNext
  <2>2. \A d \in Client : Queued(d)' => Queued(d)
    BY <2>1, Taken
  <2> QED
    BY <2>1, <2>2 DEF Busy
<1>6. ASSUME NEW c \in Client, Connected(c) \/ ConnectFails(c) \/ Turn(c) \/ End(c)
      PROVE  overlap' = overlap /\ \A d \in Client : Busy(d)' => Busy(d)
  <2>1. /\ pc[c] \in {"connect", "loop"} /\ overlap' = overlap
        /\ \E to \in {"loop", "write", "ended"} : pc' = [pc EXCEPT ![c] = to]
        /\ \/ queue' = queue
           \/ \E run \in {"OnThreadStart", "OnDataReceived", "OnThreadEnd"}, data \in Seq(Piece) :
                 runOnUiThread(run, c, data)
    <3>1. << >> \in Seq(Piece) /\ incoming[c] \in Seq(Piece)
      BY EmptySeq DEF TypeOK, DataTypeOK
    <3> QED
      BY <1>6, <3>1 DEF Connected, ConnectFails, Turn, End, Goto
  <2>2. Busy(c) /\ \A d \in Client \ {c} : pc'[d] = pc[d]
    BY <1>1, <2>1 DEF Busy
  <2>3. \A d \in Client : Queued(d)' => Queued(d) \/ d = c
    <3>1. CASE queue' = queue
      BY <3>1 DEF Queued
    <3> QED
      BY <2>1, <3>1, Appended
  <2> QED
    BY <2>1, <2>2, <2>3 DEF Busy
<1>7. ASSUME NEW c \in Client, IOException(c) \/ Write(c) \/ Clear(c)
      PROVE  overlap' = overlap /\ \A d \in Client : Busy(d)' => Busy(d)
  <2>1. /\ pc[c] \in {"loop", "write", "clear"} /\ overlap' = overlap /\ queue' = queue
        /\ \E to \in {"loop", "clear"} : pc' = [pc EXCEPT ![c] = to]
    BY <1>7 DEF IOException, Write, Clear, Goto
  <2>2. Busy(c) /\ \A d \in Client \ {c} : pc'[d] = pc[d]
    BY <1>1, <2>1 DEF Busy
  <2>3. \A d \in Client : Queued(d)' => Queued(d)
    BY <2>1 DEF Queued
  <2> QED
    BY <2>1, <2>2, <2>3 DEF Busy
<1>8. ASSUME NEW c \in Client, BridgeSends(c) \/ BridgeLeaves(c)
      PROVE  overlap' = overlap /\ \A d \in Client : Busy(d)' => Busy(d)
  BY <1>2, <1>8 DEF BridgeSends, BridgeLeaves
<1>9. CASE UNCHANGED vars
  BY <1>2, <1>9 DEF vars
<1> QED
  BY <1>3, <1>4, <1>5, <1>6, <1>7, <1>8, <1>9 DEF Next, Thread

(* A client that is created while another is busy has met it. *)
LEMMA ConnectMeets ==
    ASSUME TypeOK, OwnerInv, ClientOfActivity, Connect
    PROVE  /\ created' \in Client /\ pc[created'] = "new" /\ ~Queued(created')
           /\ pc' = [pc EXCEPT ![created'] = "connect"]
           /\ overlap \subseteq overlap'
           /\ \A d \in Client : Busy(d) => d \in overlap' /\ created' \in overlap'
           /\ \A d \in Client : Busy(d)' <=> Busy(d) \/ d = created'
           /\ UNCHANGED <<queue, incoming, pieces, socket, DECODE_BUFF, decoded>>
<1> DEFINE others == {d \in Client : Busy(d) /\ listener[d] # activity}
<1>1. /\ alive /\ mTCP[activity] = null /\ created < MaxClients /\ created' = created + 1
      /\ pc' = [pc EXCEPT ![created'] = "connect"]
      /\ overlap' = IF others = {} THEN overlap ELSE overlap \cup others \cup {created'}
      /\ UNCHANGED <<queue, incoming, pieces, socket, DECODE_BUFF, decoded>>
  BY DEF Connect, net, codec
<1>2. created' \in Client /\ created' > created
  BY <1>1, Bounds DEF TypeOK, ThreadTypeOK, Client
<1>3. pc[created'] = "new" /\ ~Queued(created') /\ ~Busy(created')
  BY <1>2 DEF OwnerInv, Busy
<1>4. ASSUME NEW d \in Client, Busy(d) PROVE d \in overlap' /\ created' \in overlap'
  <2>1. mTCP[listener[d]] = d /\ d # null
    BY <1>4, Bounds DEF ClientOfActivity, Client, null
  <2>2. d \in others
    BY <1>1, <1>4, <2>1
  <2> QED
    BY <1>1, <2>2
<1>5. \A d \in Client : Busy(d)' <=> Busy(d) \/ d = created'
  <2>1. pc \in [Client -> {"new", "connect", "loop", "write", "clear", "ended"}]
    BY DEF TypeOK, ThreadTypeOK
  <2>2. pc'[created'] = "connect" /\ \A d \in Client : d # created' => pc'[d] = pc[d]
    BY <1>1, <1>2, <2>1
  <2>3. \A d : Queued(d)' <=> Queued(d)
    BY <1>1 DEF Queued
  <2> QED
    BY <1>3, <2>2, <2>3 DEF Busy
<1> QED
  BY <1>1, <1>2, <1>3, <1>4, <1>5

(* What a client that is alone is not sent before it is connected. *)
LEMMA AloneStep ==
    ASSUME TypeOK, OwnerInv, ClientOfActivity, AloneInv, [Next]_vars
    PROVE  AloneInv'
<1> USE DEF threads, net, codec, hist
<1> DEFINE Unsent(c) == pieces[c] = 0 /\ socket[c] = "none" /\ incoming[c] = << >>
<1>1. pc \in [Client -> {"new", "connect", "loop", "write", "clear", "ended"}]
  BY DEF TypeOK, ThreadTypeOK
<1>2. \A c, d \in Client : Busy(c)' /\ Busy(d)' /\ c # d => c \in overlap'
  <2>1. CASE Connect
    <3>1. /\ overlap \subseteq overlap'
          /\ \A d \in Client : Busy(d) => d \in overlap' /\ created' \in overlap'
          /\ \A d \in Client : Busy(d)' <=> Busy(d) \/ d = created'
      BY <2>1, ConnectMeets
    <3> QED
      BY <3>1
  <2>2. CASE ~Connect
    BY <2>2, BusyShrinks DEF AloneInv
  <2> QED
    BY <2>1, <2>2
<1>3. ASSUME UNCHANGED <<pieces, incoming, socket>>,
             \A c \in Client : pc'[c] \in {"new", "connect"} =>
                pc[c] \in {"new", "connect"}
      PROVE  AloneInv'
  <2>1. \A c \in Client : pc'[c] \in {"new", "connect"} => Unsent(c)'
    BY <1>3 DEF AloneInv
  <2>2. \A c \in Client : pieces'[c] <= 2 * MaxFrames
    BY <1>3 DEF AloneInv
  <2> QED
    BY <1>2, <2>1, <2>2 DEF AloneInv
<1>4. CASE onCreate \/ Disconnect \/ onDestroy
  BY <1>3, <1>4 DEF onCreate, Disconnect, onDestroy
<1>5. CASE Connect
  <2>1. /\ created' \in Client /\ pc[created'] = "new"
        /\ pc' = [pc EXCEPT ![created'] = "connect"]
        /\ UNCHANGED <<incoming, pieces, socket>>
    BY <1>5, ConnectMeets
  <2> QED
    BY <1>1, <1>3, <2>1
<1>6. CASE SwitchLed \/ \E a \in Activity : onSensorChanged(a)
  BY <1>3, <1>6, SendSplit, SendFrame
<1>7. CASE RunNext
  BY <1>3, <1>7, DataFrame DEF RunNext, OnThreadStart, OnThreadEnd
<1>8. ASSUME NEW c \in Client, Thread(c), ~Connected(c), ~ConnectFails(c)
      PROVE  AloneInv'
  <2>1. /\ pc[c] \in {"loop", "write", "clear"}
        /\ \E to \in {"loop", "write", "clear", "ended"} : pc' = [pc EXCEPT ![c] = to]
        /\ incoming' = incoming \/ incoming' = [incoming EXCEPT ![c] = << >>]
        /\ socket' = socket \/ \E to \in {"none", "open", "closed", "reset"} : socket' = [socket EXCEPT ![c] = to]
        /\ pieces' = pieces
    <3>1. socket[c] \in {"none", "open", "closed", "reset"}
      BY DEF TypeOK, ThreadTypeOK
    <3> QED
      BY <1>8, <3>1 DEF Thread, Turn, IOException, Write, Clear, End, Goto
  <2>2. \A d \in Client : pc'[d] \in {"new", "connect"} => d # c /\ pc[d] \in {"new", "connect"}
    BY <1>1, <2>1
  <2>3. \A d \in Client : d # c => incoming'[d] = incoming[d] /\ socket'[d] = socket[d]
    BY <2>1 DEF TypeOK, DataTypeOK, ThreadTypeOK
  <2>4. \A d \in Client : pc'[d] \in {"new", "connect"} => Unsent(d)'
    BY <2>1, <2>2, <2>3 DEF AloneInv
  <2>5. \A d \in Client : pieces'[d] <= 2 * MaxFrames
    BY <2>1 DEF AloneInv
  <2> QED
    BY <1>2, <2>4, <2>5 DEF AloneInv
<1>9. ASSUME NEW c \in Client, Connected(c) \/ ConnectFails(c)
      PROVE  AloneInv'
  <2>1. /\ \E to \in {"loop", "ended"} : pc' = [pc EXCEPT ![c] = to]
        /\ UNCHANGED <<incoming, pieces>>
        /\ socket' = socket \/ socket' = [socket EXCEPT ![c] = "open"]
    BY <1>9 DEF Connected, ConnectFails, Goto
  <2>2. \A d \in Client : pc'[d] \in {"new", "connect"} =>
           d # c /\ pc[d] \in {"new", "connect"} /\ socket'[d] = socket[d]
    BY <1>1, <2>1 DEF TypeOK, ThreadTypeOK
  <2>3. \A d \in Client : pc'[d] \in {"new", "connect"} => Unsent(d)'
    BY <2>1, <2>2 DEF AloneInv
  <2>4. \A d \in Client : pieces'[d] <= 2 * MaxFrames
    BY <2>1 DEF AloneInv
  <2> QED
    BY <1>2, <2>3, <2>4 DEF AloneInv
<1>10. ASSUME NEW c \in Client, BridgeSends(c)
       PROVE  AloneInv'
  <2>1. /\ socket[c] = "open" /\ pieces[c] < 2 * MaxFrames /\ pc' = pc /\ socket' = socket
        /\ pieces' = [pieces EXCEPT ![c] = @ + 1]
        /\ \E s : incoming' = [incoming EXCEPT ![c] = s]
    BY <1>10 DEF BridgeSends
  <2>2. \A d \in Client : d # c => incoming'[d] = incoming[d] /\ pieces'[d] = pieces[d]
    BY <2>1 DEF TypeOK, DataTypeOK, CountTypeOK
  <2>3. \A d \in Client : pc'[d] \in {"new", "connect"} => d # c
    BY <2>1 DEF AloneInv
  <2>4. \A d \in Client : pc'[d] \in {"new", "connect"} => Unsent(d)'
    BY <2>1, <2>2, <2>3 DEF AloneInv
  <2>5. pieces'[c] <= 2 * MaxFrames
    BY <2>1, Bounds DEF TypeOK, CountTypeOK
  <2>6. \A d \in Client : pieces'[d] <= 2 * MaxFrames
    BY <2>2, <2>5 DEF AloneInv
  <2> QED
    BY <1>2, <2>4, <2>6 DEF AloneInv
<1>11. ASSUME NEW c \in Client, BridgeLeaves(c)
       PROVE  AloneInv'
  <2>1. /\ socket[c] = "open" /\ pc' = pc /\ UNCHANGED <<pieces, incoming>>
        /\ \E s : socket' = [socket EXCEPT ![c] = s]
    BY <1>11 DEF BridgeLeaves
  <2>2. \A d \in Client : d # c => socket'[d] = socket[d]
    BY <2>1 DEF TypeOK, ThreadTypeOK
  <2>3. \A d \in Client : pc'[d] \in {"new", "connect"} => d # c
    BY <2>1 DEF AloneInv
  <2>4. \A d \in Client : pc'[d] \in {"new", "connect"} => Unsent(d)'
    BY <2>1, <2>2, <2>3 DEF AloneInv
  <2>5. \A d \in Client : pieces'[d] <= 2 * MaxFrames
    BY <2>1 DEF AloneInv
  <2> QED
    BY <1>2, <2>4, <2>5 DEF AloneInv
<1>12. CASE UNCHANGED vars
  BY <1>3, <1>12 DEF vars
<1> QED
  BY <1>4, <1>5, <1>6, <1>7, <1>8, <1>9, <1>10, <1>11, <1>12 DEF Next, Thread

----------------------------------------------------------------------------
(* Where the parts of a client that is alone are. *)

LEMMA HandedInit == Init => FrameInv
<1> SUFFICES ASSUME Init PROVE FrameInv
  OBVIOUS
<1>1. \A c \in Client : pc[c] = "new" /\ ~Queued(c) /\ ~Busy(c)
  BY DEF Init, Busy, Queued
<1>2. HandedInv /\ FramesIntact
  BY <1>1 DEF HandedInv, FramesIntact, Init
<1>3. \A c \in Client : pieces[c] = 0 /\ socket[c] = "none" /\ incoming[c] = << >>
  BY DEF Init
<1>4. AloneInv
  BY <1>1, <1>3, Bounds DEF AloneInv
<1> QED
  BY <1>2, <1>4 DEF FrameInv

(* Steps in which nothing is queued, taken or sent. *)
LEMMA HandedSame ==
    ASSUME HandedInv, UNCHANGED <<queue, incoming, pieces, DECODE_BUFF>>,
           \A c \in Client : /\ Busy(c)' /\ c \notin overlap' => Busy(c) /\ c \notin overlap
                             /\ pc[c] = "ended" => pc'[c] = "ended"
                             /\ socket[c] = "none" => socket'[c] = "none"
    PROVE  HandedInv'
<1> SUFFICES ASSUME NEW c \in Client, Busy(c)', c \notin overlap'
             PROVE  \E b \in [0..Len(queue') -> Nat] : Handed(c, b)'
  BY DEF HandedInv
<1>1. PICK b \in [0..Len(queue) -> Nat] : Handed(c, b)
  BY DEF HandedInv
<1>2. Handed(c, b)'
  BY <1>1 DEF Handed
<1> QED
  BY <1>2

(* The thread of a client that runs queues what it has read, or its end. *)
LEMMA HandedQueue ==
    ASSUME TypeOK, AloneInv, HandedInv, NEW c \in Client, pc[c] \notin {"new", "ended"},
           NEW run \in {"OnThreadStart", "OnDataReceived", "OnThreadEnd"},
           NEW data \in Seq(Piece), runOnUiThread(run, c, data),
           UNCHANGED <<pieces, DECODE_BUFF>>,
           \A d \in Client : Busy(d)' /\ d \notin overlap' => Busy(d) /\ d \notin overlap,
           \/ data = incoming[c] /\ incoming'[c] = << >>
           \/ data = << >> /\ pc'[c] = "ended",
           run = "OnThreadStart" => pieces[c] = 0,
           socket[c] = "none" => socket'[c] = "none" \/ run = "OnThreadStart"
    PROVE  HandedInv'
<1> SUFFICES ASSUME NEW d \in Client, Busy(d)', d \notin overlap'
             PROVE  \E b \in [0..Len(queue') -> Nat] : Handed(d, b)'
  BY DEF HandedInv
<1>1. Busy(c) /\ d = c /\ c \notin overlap
  <2>1. Busy(d) /\ d \notin overlap /\ Busy(c)
    BY DEF Busy
  <2> QED
    BY <2>1, AloneInQueue
<1> DEFINE l == Len(queue)
<1>2. /\ queue' \in Seq(Run) /\ l \in Nat /\ Len(queue') = l + 1
      /\ \A i \in 1..l : queue'[i] = queue[i]
      /\ queue'[l + 1].run = run /\ queue'[l + 1].data = data
  BY Appended
<1>3. PICK b \in [0..l -> Nat] : Handed(c, b)
  BY <1>1 DEF HandedInv
<1>4. pieces[c] \in Nat
  BY DEF TypeOK, CountTypeOK
<1> HIDE DEF l
<1>5. /\ b[l] \in Nat /\ b[l] <= pieces[c] /\ incoming[c] = Parts(c, b[l], pieces[c])
      /\ \A i \in 0..l : b[i] <= pieces[c]
      /\ \A i \in 1..l : b[i - 1] <= b[i] /\ queue[i].data = Parts(c, b[i - 1], b[i])
      /\ \A i \in 1..l : queue[i].run = "OnThreadStart" => \A j \in 0..i : b[j] = 0
      /\ \/ \E i \in 1..l : queue[i].run = "OnThreadStart"
         \/ pieces[c] = 0 /\ socket[c] = "none"
         \/ DECODE_BUFF = Parts(c, b[0] - (b[0] % 2), b[0])
  <2>1. l \in 0..l
    BY <1>2
  <2> QED
    BY <1>3, <2>1 DEF Handed, l
(* e parts are queued then; all that have come, or those of the entry before. *)
<1>6. PICK e \in Nat : /\ b[l] <= e /\ e <= pieces[c] /\ data = Parts(c, b[l], e)
                       /\ pc'[c] # "ended" => incoming'[c] = Parts(c, e, pieces[c])
  <2>1. CASE data = incoming[c] /\ incoming'[c] = << >>
    <3>1. incoming'[c] = Parts(c, pieces[c], pieces[c])
      BY <1>4, <2>1, PartsEmpty
    <3> QED
      BY <1>4, <1>5, <2>1, <3>1
  <2>2. CASE data = << >> /\ pc'[c] = "ended"
    <3>1. data = Parts(c, b[l], b[l])
      BY <1>5, <2>2, PartsEmpty
    <3> QED
      BY <1>5, <2>2, <3>1
  <2> QED
    BY <2>1, <2>2
<1>7. PICK r \in [0..(l + 1) -> Nat] : /\ r[l + 1] = e
                                       /\ \A i \in 0..l : r[i] = b[i] /\ i \in 0..(l + 1)
                                       /\ r[0] = b[0] /\ r[l] = b[l]
  <2> DEFINE x == [i \in 0..(l + 1) |-> IF i = l + 1 THEN e ELSE b[i]]
  <2>1. \A i \in 0..(l + 1) : i = l + 1 \/ i \in 0..l
    BY <1>2
  <2>2. 0 \in 0..l /\ l \in 0..l /\ l + 1 \in 0..(l + 1) /\ \A i \in 0..l : i # l + 1 /\ i \in 0..(l + 1)
    BY <1>2
  <2>3. /\ x \in [0..(l + 1) -> Nat] /\ x[l + 1] = e /\ x[0] = b[0] /\ x[l] = b[l]
        /\ \A i \in 0..l : x[i] = b[i] /\ i \in 0..(l + 1)
    BY <2>1, <2>2
  <2> QED
    BY <2>3
<1>8. \A i \in 1..(l + 1) : i = l + 1 \/ (i \in 1..l /\ i \in 0..l /\ i - 1 \in 0..l)
  BY <1>2
<1>9. \A i \in 0..(l + 1) : i = l + 1 \/ i \in 0..l
  BY <1>2
<1>10. \A i \in 0..(l + 1) : r[i] <= pieces[c]
  BY <1>5, <1>6, <1>7, <1>9
<1>11. ASSUME NEW i \in 1..(l + 1)
       PROVE  r[i - 1] <= r[i] /\ queue'[i].data = Parts(c, r[i - 1], r[i])
  <2>1. CASE i = l + 1
    <3>1. i - 1 = l
      BY <1>2, <2>1
    <3> QED
      BY <1>2, <1>6, <1>7, <2>1, <3>1
  <2>2. CASE i \in 1..l
    <3>1. r[i - 1] = b[i - 1] /\ r[i] = b[i]
      BY <1>7, <1>8, <2>2
    <3> QED
      BY <1>2, <1>5, <2>2, <3>1
  <2> QED
    BY <1>8, <2>1, <2>2
<1>12. ASSUME NEW i \in 1..(l + 1), queue'[i].run = "OnThreadStart", NEW j \in 0..i
       PROVE  r[j] = 0
  <2>1. CASE i = l + 1
    <3>1. pieces[c] = 0 /\ j \in 0..(l + 1)
      BY <1>2, <1>12, <2>1
    <3>2. r[j] <= 0 /\ r[j] \in Nat
      BY <1>7, <1>10, <3>1
    <3> QED
      BY <3>2
  <2>2. CASE i \in 1..l
    <3>1. j \in 0..l
      BY <1>2, <2>2
    <3>2. queue[i].run = "OnThreadStart"
      BY <1>2, <1>12, <2>2
    <3> QED
      BY <1>5, <1>7, <2>2, <3>1, <3>2
  <2> QED
    BY <1>8, <2>1, <2>2
<1>13. \/ \E i \in 1..(l + 1) : queue'[i].run = "OnThreadStart"
       \/ pieces'[c] = 0 /\ socket'[c] = "none"
       \/ DECODE_BUFF' = Parts(c, r[0] - (r[0] % 2), r[0])
  <2>1. l + 1 \in 1..(l + 1) /\ \A i \in 1..l : i \in 1..(l + 1)
    BY <1>2
  <2> QED
    BY <1>2, <1>5, <1>7, <2>1
<1>14. Handed(c, r)'
  BY <1>2, <1>6, <1>7, <1>10, <1>11, <1>12, <1>13 DEF Handed
<1> QED
  BY <1>1, <1>2, <1>7, <1>14

(* Data that is handed over continues what is in the decoder, and nothing  *)
(* but whole frames is taken from it.                                      *)
LEMMA DataDecoded ==
    ASSUME TypeOK, AloneInv, OnDataReceived, NEW b \in [0..Len(queue) -> Nat],
           Handed(Sender, b)
    PROVE  /\ \/ \E i \in 1..Len(queue) : i # 1 /\ queue[i].run = "OnThreadStart"
              \/ pieces[Sender] = 0 /\ socket[Sender] = "none"
              \/ DECODE_BUFF' = Parts(Sender, b[1] - (b[1] % 2), b[1])
           /\ \A x \in decoded' : \/ x \in decoded
                                  \/ /\ x.client = Sender
                                     /\ \E k \in 1..MaxFrames : x.parts = Parts(Sender, 2 * k - 2, 2 * k)
<1>1. queue # << >> /\ queue' = Tail(queue) /\ Head(queue).run = "OnDataReceived"
  BY DataFrame DEF IsNext
<1>2. PICK c \in Client : c = Sender
  BY <1>1, Taken
<1>3. Head(queue) = queue[1] /\ 1 \in 1..Len(queue) /\ 0 \in 0..Len(queue) /\ 1 \in 0..Len(queue)
  BY <1>1, Taken
<1>4. /\ b[0] \in Nat /\ b[1] \in Nat /\ b[0] <= b[1] /\ b[1] <= pieces[c]
      /\ queue[1].data = Parts(c, b[0], b[1])
      /\ \A i \in 1..Len(queue) : queue[i].run = "OnThreadStart" => b[0] = 0 /\ b[1] = 0
  <2>1. 1 - 1 = 0
    OBVIOUS
  <2>2. \A i \in 1..Len(queue) : 0 \in 0..i /\ 1 \in 0..i
    OBVIOUS
  <2> QED
    BY <1>2, <1>3, <2>1, <2>2 DEF Handed
<1>5. b[1] \in b[0]..(2 * MaxFrames)
  <2>1. pieces[c] \in Nat /\ pieces[c] <= 2 * MaxFrames
    BY DEF TypeOK, CountTypeOK, AloneInv
  <2> QED
    BY <1>4, <2>1, Bounds
<1>6. PICK d : /\ d = FoldLeft(Unkn0Decode, [buff |-> DECODE_BUFF, frames |-> {}], Parts(c, b[0], b[1]))
               /\ DECODE_BUFF' = d.buff
               /\ decoded' = decoded \cup [client : {c}, parts : d.frames]
  <2>1. LET d == FoldLeft(Unkn0Decode, [buff |-> DECODE_BUFF, frames |-> {}], Head(queue).data)
        IN  DECODE_BUFF' = d.buff /\ decoded' = decoded \cup [client : {Sender}, parts : d.frames]
    BY Zenon DEF OnDataReceived
  <2>2. Head(queue).data = Parts(c, b[0], b[1])
    BY <1>3, <1>4
  <2> QED
    BY <1>2, <2>1, <2>2
<1>7. ASSUME \A f \in d.frames : \E k \in 1..MaxFrames : f = Parts(c, 2 * k - 2, 2 * k)
      PROVE  \A x \in decoded' : \/ x \in decoded
                                 \/ /\ x.client = c
                                    /\ \E k \in 1..MaxFrames : x.parts = Parts(c, 2 * k - 2, 2 * k)
  <2>1. \A x \in [client : {c}, parts : d.frames] : x.client = c /\ x.parts \in d.frames
    OBVIOUS
  <2> QED
    BY <1>6, <1>7, <2>1
<1>8. CASE DECODE_BUFF = Parts(c, b[0] - (b[0] % 2), b[0])
  <2>1. /\ d.buff = Parts(c, b[1] - (b[1] % 2), b[1])
        /\ \A f \in d.frames : \E k \in 1..MaxFrames : f = Parts(c, 2 * k - 2, 2 * k)
    BY <1>4, <1>5, <1>6, <1>8, DecodeParts
  <2> QED
    BY <1>2, <1>6, <1>7, <2>1
<1>9. CASE b[0] = 0 /\ b[1] = 0
  <2>1. d = [buff |-> DECODE_BUFF, frames |-> {}]
    BY <1>6, <1>9, PartsEmpty, DecodeNothing
  <2>2. DECODE_BUFF' = DECODE_BUFF /\ d.frames = {}
    <3>1. d.buff = DECODE_BUFF /\ d.frames = {}
      BY <2>1
    <3>2. DECODE_BUFF' = d.buff
      BY <1>6
    <3> QED
      BY <3>1, <3>2
  <2>3. \/ \E i \in 1..Len(queue) : i # 1 /\ queue[i].run = "OnThreadStart"
        \/ pieces[c] = 0 /\ socket[c] = "none"
        \/ DECODE_BUFF' = Parts(c, b[1] - (b[1] % 2), b[1])
    <3>1. \/ \E i \in 1..Len(queue) : queue[i].run = "OnThreadStart"
          \/ pieces[c] = 0 /\ socket[c] = "none"
          \/ DECODE_BUFF = Parts(c, b[0] - (b[0] % 2), b[0])
      BY <1>2 DEF Handed
    <3>2. queue[1].run # "OnThreadStart"
      BY <1>1, <1>3
    <3> QED
      BY <1>9, <2>2, <3>1, <3>2
  <2> QED
    BY <1>2, <1>7, <2>2, <2>3
<1>10. CASE \/ \E i \in 1..Len(queue) : queue[i].run = "OnThreadStart"
            \/ pieces[c] = 0 /\ socket[c] = "none"
  <2>1. b[0] = 0 /\ b[1] = 0
    <3>1. pieces[c] = 0 => b[1] <= 0 /\ b[0] <= 0
      BY <1>4
    <3> QED
      BY <1>4, <1>10, <3>1
  <2> QED
    BY <1>9, <2>1
<1> QED
  BY <1>2, <1>8, <1>10 DEF Handed

(* What is run on the thread of the user interface is taken from the queue. *)
LEMMA HandedTake ==
    ASSUME TypeOK, OwnerInv, QueueInv, AloneInv, HandedInv, [Next]_vars, ~Connect, RunNext
    PROVE  HandedInv'
<1> USE DEF net
<1> SUFFICES ASSUME NEW c \in Client, Busy(c)', c \notin overlap'
             PROVE  \E b \in [0..Len(queue') -> Nat] : Handed(c, b)'
  BY DEF HandedInv
<1>1. Busy(c) /\ c \notin overlap
  BY BusyShrinks
<1>2. /\ queue # << >> /\ queue' = Tail(queue) /\ pc' = pc
      /\ incoming' = incoming /\ pieces' = pieces /\ socket' = socket
      /\ Head(queue).run \in {"OnThreadStart", "OnDataReceived", "OnThreadEnd"}
      /\ Head(queue).run = "OnThreadStart" => DECODE_BUFF' = << >>
      /\ Head(queue).run = "OnDataReceived" => OnDataReceived
      /\ Head(queue).run = "OnThreadEnd" => DECODE_BUFF' = DECODE_BUFF
  BY DataFrame DEF RunNext, OnThreadStart, OnThreadEnd, IsNext, threads, codec
<1> DEFINE l == Len(queue)
<1>3. /\ l \in Nat \ {0} /\ Len(queue') = l - 1
      /\ \A i \in 1..(l - 1) : queue'[i] = queue[i + 1] /\ i + 1 \in 1..l
      /\ Head(queue) = queue[1] /\ 1 \in 1..l
      /\ Sender \in Client /\ Queued(Sender)
      /\ \A d \in Client : Queued(d) <=> Queued(d)' \/ d = Sender
  BY <1>2, Taken
<1>4. c = Sender /\ \A i \in 1..l : queue[i].client = c
  <2>1. Busy(Sender)
    BY <1>3 DEF Busy
  <2> QED
    BY <1>1, <1>3, <2>1, AloneInQueue
<1>5. PICK b \in [0..l -> Nat] : Handed(c, b)
  BY <1>1 DEF HandedInv
<1>6. Head(queue).run # "OnThreadEnd"
  <2> SUFFICES ASSUME Head(queue).run = "OnThreadEnd" PROVE FALSE
    OBVIOUS
  <2>1. pc[c] = "ended" /\ \A j \in 1..l : queue[j].client = c => j <= 1
    BY <1>3, <1>4 DEF QueueInv
  <2>2. l = 1
    <3>1. l \in 1..l
      BY <1>3
    <3>2. l <= 1
      BY <1>4, <2>1, <3>1
    <3> QED
      BY <1>3, <3>2
  <2>3. ~Queued(c)'
    <3>1. Len(queue') = 0
      BY <1>3, <2>2
    <3> QED
      BY <3>1 DEF Queued
  <2> QED
    BY <1>2, <2>1, <2>3 DEF Busy
<1> HIDE DEF l
<1>7. /\ \A i \in 0..l : b[i] <= pieces[c]
      /\ \A i \in 1..l : b[i - 1] <= b[i] /\ queue[i].data = Parts(c, b[i - 1], b[i])
      /\ \A i \in 1..l : queue[i].run = "OnThreadStart" => \A j \in 0..i : b[j] = 0
      /\ pc[c] # "ended" => incoming[c] = Parts(c, b[l], pieces[c])
  BY <1>5 DEF Handed, l
<1>8. PICK r \in [0..(l - 1) -> Nat] : \A i \in 0..(l - 1) : r[i] = b[i + 1] /\ i + 1 \in 1..l
  <2> DEFINE x == [i \in 0..(l - 1) |-> b[i + 1]]
  <2>1. \A i \in 0..(l - 1) : i + 1 \in 1..l /\ i + 1 \in 0..l
    BY <1>3
  <2>2. x \in [0..(l - 1) -> Nat] /\ \A i \in 0..(l - 1) : x[i] = b[i + 1] /\ i + 1 \in 1..l
    BY <2>1
  <2> QED
    BY <2>2
<1>9. \A i \in 0..(l - 1) : r[i] <= pieces[c]
  <2>1. \A i \in 0..(l - 1) : i + 1 \in 0..l
    BY <1>3
  <2> QED
    BY <1>7, <1>8, <2>1
<1>10. ASSUME NEW i \in 1..(l - 1)
       PROVE  r[i - 1] <= r[i] /\ queue'[i].data = Parts(c, r[i - 1], r[i])
  <2>1. i \in 0..(l - 1) /\ i - 1 \in 0..(l - 1) /\ (i - 1) + 1 = i /\ i + 1 \in 1..l /\ (i + 1) - 1 = i
    BY <1>3
  <2>2. r[i - 1] = b[(i + 1) - 1] /\ r[i] = b[i + 1]
    BY <1>8, <2>1
  <2> QED
    BY <1>3, <1>7, <2>1, <2>2
<1>11. ASSUME NEW i \in 1..(l - 1), queue'[i].run = "OnThreadStart", NEW j \in 0..i
       PROVE  r[j] = 0
  <2>1. j \in 0..(l - 1) /\ j + 1 \in 0..(i + 1) /\ i + 1 \in 1..l
    BY <1>3, SMTT(30)
  <2>2. queue[i + 1].run = "OnThreadStart"
    BY <1>3, <1>11
  <2>3. b[j + 1] = 0
    BY <1>7, <2>1, <2>2
  <2> QED
    BY <1>8, <2>1, <2>3
<1>12. r[l - 1] = b[l] /\ r[0] = b[1]
  <2>1. l - 1 \in 0..(l - 1) /\ (l - 1) + 1 = l /\ 0 \in 0..(l - 1) /\ 0 + 1 = 1
    BY <1>3
  <2> QED
    BY <1>8, <2>1
<1>13. \/ \E i \in 1..(l - 1) : queue'[i].run = "OnThreadStart"
       \/ pieces'[c] = 0 /\ socket'[c] = "none"
       \/ DECODE_BUFF' = Parts(c, r[0] - (r[0] % 2), r[0])
  <2>1. CASE Head(queue).run = "OnThreadStart"
    <3>1. b[1] = 0
      <4>1. 1 \in 0..1 /\ queue[1].run = "OnThreadStart"
        BY <1>3, <2>1
      <4> QED
        BY <1>3, <1>7, <4>1
    <3>2. r[0] = 0 /\ r[0] - (r[0] % 2) = 0
      BY <1>12, <3>1
    <3>3. Parts(c, 0, 0) = << >>
      BY PartsEmpty
    <3> QED
      BY <1>2, <2>1, <3>2, <3>3
  <2>2. CASE Head(queue).run = "OnDataReceived"
    <3>1. \/ \E i \in 1..l : i # 1 /\ queue[i].run = "OnThreadStart"
          \/ pieces[c] = 0 /\ socket[c] = "none"
          \/ DECODE_BUFF' = Parts(c, b[1] - (b[1] % 2), b[1])
      BY <1>2, <1>4, <1>5, <2>2, DataDecoded DEF l
    <3>2. \A i \in 1..l : i # 1 => i - 1 \in 1..(l - 1) /\ queue'[i - 1] = queue[i]
      <4>1. \A i \in 1..l : i # 1 => i - 1 \in 1..(l - 1) /\ (i - 1) + 1 = i
        BY <1>3
      <4> QED
        BY <1>3, <4>1
    <3> QED
      BY <1>2, <1>12, <3>1, <3>2
  <2> QED
    BY <1>2, <1>6, <2>1, <2>2
<1>14. Handed(c, r)'
  BY <1>2, <1>3, <1>7, <1>9, <1>10, <1>11, <1>12, <1>13 DEF Handed
<1> QED
  BY <1>3, <1>8, <1>14

(* The bridge sends the next part. *)
LEMMA HandedSend ==
    ASSUME TypeOK, OwnerInv, AloneInv, HandedInv, NEW c \in Client, BridgeSends(c)
    PROVE  HandedInv'
<1> USE DEF threads, codec, hist
<1> SUFFICES ASSUME NEW d \in Client, Busy(d)', d \notin overlap'
             PROVE  \E b \in [0..Len(queue') -> Nat] : Handed(d, b)'
  BY DEF HandedInv
<1>1. /\ socket[c] = "open" /\ pieces[c] < 2 * MaxFrames
      /\ pieces' = [pieces EXCEPT ![c] = @ + 1]
      /\ incoming' = [incoming EXCEPT ![c] = Append(@, Part(c, pieces'[c]))]
      /\ UNCHANGED <<queue, pc, socket, DECODE_BUFF, overlap>>
  BY DEF BridgeSends
<1>2. Busy(d) /\ d \notin overlap
  BY <1>1 DEF Busy, Queued
<1>3. PICK b \in [0..Len(queue) -> Nat] : Handed(d, b)
  BY <1>2 DEF HandedInv
<1>4. pieces[d] \in Nat /\ pieces \in [Client -> Nat] /\ incoming \in [Client -> Seq(Piece)]
  BY DEF TypeOK, CountTypeOK, DataTypeOK
<1>5. CASE d # c
  <2>1. pieces'[d] = pieces[d] /\ incoming'[d] = incoming[d]
    BY <1>1, <1>4, <1>5
  <2>2. Handed(d, b)'
    BY <1>1, <1>3, <2>1 DEF Handed
  <2> QED
    BY <1>1, <2>2
<1>6. CASE d = c
  <2>1. pieces'[d] = pieces[d] + 1 /\ incoming'[d] = Append(incoming[d], Part(c, pieces[d] + 1))
    BY <1>1, <1>4, <1>6
  <2>2. b[Len(queue)] \in Nat /\ pieces[d] \in b[Len(queue)]..(2 * MaxFrames)
    <3>1. Len(queue) \in 0..Len(queue)
      BY DEF TypeOK, DataTypeOK
    <3>2. b[Len(queue)] \in Nat /\ b[Len(queue)] <= pieces[d]
      BY <1>3, <3>1 DEF Handed
    <3> QED
      BY <1>1, <1>4, <1>6, <3>2, Bounds
  <2>3. pc'[d] # "ended" => incoming'[d] = Parts(d, b[Len(queue)], pieces'[d])
    <3>1. pc[d] # "ended" => incoming[d] = Parts(d, b[Len(queue)], pieces[d])
      BY <1>3 DEF Handed
    <3>2. Append(Parts(c, b[Len(queue)], pieces[c]), Part(c, pieces[c] + 1)) =
          Parts(c, b[Len(queue)], pieces[c] + 1)
      BY <1>1, <1>6, <2>2, PartsGrow
    <3> QED
      BY <1>1, <1>6, <2>1, <3>1, <3>2
  <2>4. \A i \in 0..Len(queue) : b[i] <= pieces'[d]
    <3>1. \A i \in 0..Len(queue) : b[i] \in Nat /\ b[i] <= pieces[d]
      BY <1>3 DEF Handed
    <3> QED
      BY <1>4, <2>1, <3>1
  <2>5. socket[d] # "none"
    BY <1>1, <1>6
  <2>6. Handed(d, b)'
    BY <1>1, <1>3, <2>3, <2>4, <2>5 DEF Handed
  <2> QED
    BY <1>1, <2>6
<1> QED
  BY <1>5, <1>6

(* A client that is alone when it is created finds an empty queue. *)
LEMMA HandedConnect ==
    ASSUME TypeOK, OwnerInv, ClientOfActivity, AloneInv, HandedInv, Connect
    PROVE  HandedInv'
<1> SUFFICES ASSUME NEW c \in Client, Busy(c)', c \notin overlap'
             PROVE  \E b \in [0..Len(queue') -> Nat] : Handed(c, b)'
  BY DEF HandedInv
<1>1. /\ created' \in Client /\ pc[created'] = "new"
      /\ \A d \in Client : Busy(d) => d \in overlap' /\ created' \in overlap'
      /\ \A d \in Client : Busy(d)' <=> Busy(d) \/ d = created'
      /\ UNCHANGED <<queue, incoming, pieces, socket, DECODE_BUFF, decoded>>
  BY ConnectMeets
<1>2. c = created' /\ \A d \in Client : ~Busy(d)
  BY <1>1
<1>3. Len(queue) = 0
  <2>1. \A i \in 1..Len(queue) : FALSE
    BY <1>2, QueueTypes DEF Busy, Queued
  <2>2. Len(queue) \in Nat
    BY DEF TypeOK, DataTypeOK
  <2> QED
    BY <2>1, <2>2
<1>4. pieces[c] = 0 /\ socket[c] = "none" /\ incoming[c] = << >>
  BY <1>1, <1>2 DEF AloneInv
<1>5. PICK b \in [0..0 -> Nat] : b = [i \in 0..0 |-> 0]
  OBVIOUS
<1>6. Parts(c, 0, 0) = << >>
  BY PartsEmpty
<1>7. b[0] = 0
  BY <1>5
<1>8. Handed(c, b)'
  BY <1>1, <1>3, <1>4, <1>5, <1>6, <1>7 DEF Handed
<1> QED
  BY <1>1, <1>3, <1>8

LEMMA HandedStep ==
    ASSUME TypeOK, OwnerInv, QueueInv, ClientOfActivity, AloneInv, HandedInv, [Next]_vars
    PROVE  HandedInv'
<1> USE DEF threads, net, codec, hist
<1>1. pc \in [Client -> {"new", "connect", "loop", "write", "clear", "ended"}] /\ socket \in [Client -> {"none", "open", "closed", "reset"}]
  BY DEF TypeOK, ThreadTypeOK
<1>2. CASE Connect
  BY <1>2, HandedConnect
<1>3. CASE RunNext
  <2>1. CASE ~Connect
    BY <1>3, <2>1, HandedTake
  <2> QED
    BY <1>2, <2>1
<1>4. ASSUME ~Connect
      PROVE  \A d \in Client : Busy(d)' /\ d \notin overlap' => Busy(d) /\ d \notin overlap
  BY <1>4, BusyShrinks
<1>5. CASE onCreate \/ Disconnect \/ onDestroy
  BY <1>2, <1>4, <1>5, HandedSame DEF onCreate, Disconnect, onDestroy
<1>6. CASE SwitchLed \/ \E a \in Activity : onSensorChanged(a)
  BY <1>2, <1>4, <1>6, SendSplit, SendFrame, HandedSame
<1>7. << >> \in Seq(Piece) /\ \A c \in Client : incoming[c] \in Seq(Piece)
  BY EmptySeq DEF TypeOK, DataTypeOK
<1>8. ASSUME NEW c \in Client, Connected(c), ~Connect
      PROVE  HandedInv'
  <2>1. pc[c] = "connect" /\ incoming[c] = << >> /\ pieces[c] = 0
    BY <1>8 DEF Connected, Goto, AloneInv
  <2>2. /\ runOnUiThread("OnThreadStart", c, << >>) /\ incoming' = incoming
        /\ UNCHANGED <<pieces, DECODE_BUFF>>
    BY <1>8 DEF Connected
  <2> QED
    BY <1>4, <1>7, <1>8, <2>1, <2>2, HandedQueue
<1>9. ASSUME NEW c \in Client, ConnectFails(c), ~Connect
      PROVE  HandedInv'
  <2>1. pc[c] = "connect" /\ incoming[c] = << >> /\ socket' = socket
    BY <1>9 DEF ConnectFails, Goto, AloneInv
  <2>2. /\ runOnUiThread("OnThreadEnd", c, << >>) /\ incoming' = incoming
        /\ UNCHANGED <<pieces, DECODE_BUFF>>
    BY <1>9 DEF ConnectFails
  <2> QED
    BY <1>4, <1>7, <1>9, <2>1, <2>2, HandedQueue
<1>10. ASSUME NEW c \in Client, Turn(c), incoming[c] # << >>, ~Connect
       PROVE  HandedInv'
  <2>1. /\ pc[c] = "loop" /\ socket' = socket /\ incoming' = [incoming EXCEPT ![c] = << >>]
        /\ runOnUiThread("OnDataReceived", c, incoming[c])
        /\ UNCHANGED <<pieces, DECODE_BUFF>>
    BY <1>10 DEF Turn, Goto
  <2>2. incoming'[c] = << >>
    BY <2>1 DEF TypeOK, DataTypeOK
  <2> QED
    BY <1>4, <1>7, <1>10, <2>1, <2>2, HandedQueue
<1>11. ASSUME NEW c \in Client, Turn(c), incoming[c] = << >>, ~Connect
       PROVE  HandedInv'
  <2>1. /\ pc[c] = "loop" /\ socket' = socket /\ incoming' = [incoming EXCEPT ![c] = << >>]
        /\ UNCHANGED <<queue, pieces, DECODE_BUFF>>
        /\ \E to \in {"loop", "write"} : pc' = [pc EXCEPT ![c] = to]
    BY <1>11 DEF Turn, Goto
  <2>2. incoming' = incoming
    BY <1>11, <2>1 DEF TypeOK, DataTypeOK
  <2>3. \A d \in Client : pc[d] = "ended" => pc'[d] = "ended"
    BY <1>1, <2>1
  <2> QED
    BY <1>4, <1>11, <2>1, <2>2, <2>3, HandedSame
<1>12. ASSUME NEW c \in Client, End(c), ~Connect
       PROVE  HandedInv'
  <2>1. /\ pc[c] = "loop" /\ socket' = [socket EXCEPT ![c] = "none"]
        /\ pc' = [pc EXCEPT ![c] = "ended"]
        /\ runOnUiThread("OnThreadEnd", c, << >>)
        /\ UNCHANGED <<pieces, DECODE_BUFF>>
    BY <1>12 DEF End, Goto
  <2>2. pc'[c] = "ended" /\ socket'[c] = "none"
    BY <1>1, <2>1
  <2> QED
    BY <1>4, <1>7, <1>12, <2>1, <2>2, HandedQueue
<1>13. ASSUME NEW c \in Client, IOException(c) \/ Write(c) \/ Clear(c), ~Connect
       PROVE  HandedInv'
  <2>1. /\ pc[c] \in {"loop", "write", "clear"}
        /\ \E to \in {"loop", "clear"} : pc' = [pc EXCEPT ![c] = to]
        /\ \/ socket' = socket
           \/ socket' = [socket EXCEPT ![c] = IF @ = "closed" THEN "reset" ELSE @]
        /\ UNCHANGED <<queue, incoming, pieces, DECODE_BUFF>>
    BY <1>13 DEF IOException, Write, Clear, Goto
  <2>2. \A d \in Client : /\ pc[d] = "ended" => pc'[d] = "ended"
                          /\ socket[d] = "none" => socket'[d] = "none"
    BY <1>1, <2>1
  <2> QED
    BY <1>4, <1>13, <2>1, <2>2, HandedSame
<1>14. ASSUME NEW c \in Client, BridgeSends(c) PROVE HandedInv'
  BY <1>14, HandedSend
<1>15. ASSUME NEW c \in Client, BridgeLeaves(c), ~Connect PROVE HandedInv'
  <2>1. /\ socket[c] = "open" /\ \E s \in {"closed", "reset"} : socket' = [socket EXCEPT ![c] = s]
        /\ UNCHANGED <<queue, pc, incoming, pieces, DECODE_BUFF>>
    BY <1>15 DEF BridgeLeaves
  <2>2. \A d \in Client : socket[d] = "none" => socket'[d] = "none"
    BY <1>1, <2>1
  <2> QED
    BY <1>4, <1>15, <2>1, <2>2, HandedSame
<1>16. ASSUME UNCHANGED vars, ~Connect PROVE HandedInv'
  BY <1>4, <1>16, HandedSame DEF vars
<1> QED
  BY <1>2, <1>3, <1>5, <1>6, <1>8, <1>9, <1>10, <1>11, <1>12, <1>13, <1>14, <1>15, <1>16
  DEF Next, Thread

(* Only what was handed over is decoded. *)
LEMMA FramesStep ==
    ASSUME TypeOK, OwnerInv, AloneInv, HandedInv, FramesIntact, [Next]_vars
    PROVE  FramesIntact'
<1> USE DEF net, codec, hist
<1>1. overlap \subseteq overlap'
  <2>1. Connect => overlap \subseteq overlap'
    BY DEF Connect
  <2> QED
    BY <2>1, BusyShrinks
<1>2. CASE OnDataReceived
  <2> SUFFICES ASSUME NEW x \in decoded', x.client \notin overlap'
               PROVE  \E n \in 1..MaxFrames :
                         x.parts = [k \in 1..2 |-> [client |-> x.client, frame |-> n, part |-> k]]
    BY DEF FramesIntact
  <2>1. CASE x \in decoded
    BY <1>1, <2>1 DEF FramesIntact
  <2>2. CASE x.client = Sender
    <3>1. Sender \in Client /\ Busy(Sender) /\ Sender \notin overlap
      <4>1. queue # << >> /\ queue' = Tail(queue)
        BY <1>2, DataFrame DEF IsNext
      <4> QED
        BY <1>1, <2>2, <4>1, Taken DEF Busy
    <3>2. PICK b \in [0..Len(queue) -> Nat] : Handed(Sender, b)
      BY <3>1 DEF HandedInv
    <3>3. x \in decoded \/ \E n \in 1..MaxFrames : x.parts = Parts(Sender, 2 * n - 2, 2 * n)
      BY <1>2, <3>2, DataDecoded
    <3>4. CASE \E n \in 1..MaxFrames : x.parts = Parts(Sender, 2 * n - 2, 2 * n)
      <4>1. PICK n \in 1..MaxFrames : x.parts = Parts(Sender, 2 * n - 2, 2 * n)
        BY <3>4
      <4>2. 2 * n - (2 * n - 2) = 2
        BY Bounds
      <4>3. \A k \in 1..2 : Part(Sender, (2 * n - 2) + k) = [client |-> Sender, frame |-> n, part |-> k]
        <5>1. \A k \in 1..2 : /\ ((((2 * n - 2) + k) - 1) \div 2) + 1 = n
                              /\ ((((2 * n - 2) + k) - 1) % 2) + 1 = k
          BY Bounds
        <5> QED
          BY <5>1 DEF Part
      <4>4. x.parts = [k \in 1..2 |-> [client |-> Sender, frame |-> n, part |-> k]]
        BY <4>1, <4>2, <4>3 DEF Parts
      <4> QED
        BY <2>2, <4>4
    <3> QED
      BY <2>1, <3>3, <3>4
  <2>3. x \in decoded \/ x.client = Sender
    <3>1. PICK D : decoded' = decoded \cup [client : {Sender}, parts : D]
      BY <1>2, Zenon DEF OnDataReceived
    <3> QED
      BY <3>1
  <2> QED
    BY <2>1, <2>2, <2>3
<1>3. CASE decoded' = decoded
  BY <1>1, <1>3 DEF FramesIntact
<1>4. OnDataReceived \/ decoded' = decoded
  <2>1. CASE SwitchLed \/ \E a \in Activity : onSensorChanged(a)
    BY <2>1, SendSplit, SendFrame
  <2>2. CASE onCreate \/ Connect \/ Disconnect \/ onDestroy \/ OnThreadStart \/ OnThreadEnd \/ UNCHANGED vars
    BY <2>2 DEF onCreate, Connect, Disconnect, onDestroy, OnThreadStart, OnThreadEnd, vars
  <2>3. CASE \E c \in Client : Thread(c) \/ BridgeSends(c) \/ BridgeLeaves(c)
    BY <2>3 DEF Thread, Connected, ConnectFails, Turn, IOException, Write, Clear, End,
                BridgeSends, BridgeLeaves
  <2> QED
    BY <2>1, <2>2, <2>3 DEF Next, RunNext
<1> QED
  BY <1>2, <1>3, <1>4

----------------------------------------------------------------------------
(* The theorems. *)

LEMMA Inductive == Spec => []IInv
<1>1. ASSUME IInv, [Next]_vars PROVE IInv'
  <2>1. TypeOK /\ AgreeInv /\ SlotInv
    BY <1>1 DEF IInv, AgreeInv
  <2>2. TypeOK'
    BY <1>1, <2>1, UiStep, ThreadStep, CountStep, DataStep DEF TypeOK, AgreeInv
  <2>3. AgreeInv' /\ SlotInv'
    BY <1>1, <2>1, AgreeStep, SlotStep DEF AgreeInv
  <2> QED
    BY <2>2, <2>3 DEF IInv, AgreeInv
<1>2. IInv /\ [Next]_vars => IInv'
  BY <1>1
<1> QED
  BY <1>2, InitCorrect, PTL DEF Spec

(* An activity and its client agree, whatever is still queued when the     *)
(* user disconnects, connects again or leaves (main.java, OnThreadStart()  *)
(* and OnThreadEnd()).                                                     *)
THEOREM ActivityAndClientAgree == Spec => []ClientOfActivity
<1>1. IInv => ClientOfActivity
  BY DEF IInv
<1> QED
  BY <1>1, Inductive, PTL

(* No command is written twice, or after a later one, though the field is  *)
(* shared without a lock (TCPClient.java, run()).                          *)
THEOREM CommandsStayInOrder == Spec => CommandsInOrder
<1>1. ASSUME IInv, [Next]_vars, NEW c \in Client, pc[c] = "write", pc'[c] = "clear"
      PROVE  written[c] < written'[c] /\ written'[c] <= given[c]
  <2>1. /\ mOutByte \in [Client -> Nat] /\ read \in [Client -> Nat]
        /\ given \in [Client -> Nat] /\ written \in [Client -> Nat]
    BY <1>1 DEF IInv, TypeOK, CountTypeOK
  <2>2. Write(c)
    BY <1>1, ClearsAfterWrite DEF IInv
  <2>3. PICK command \in {read[c], mOutByte[c]} :
           written' = [written EXCEPT ![c] = command]
    BY <2>2 DEF Write
  <2>4. /\ read[c] > written[c] /\ mOutByte[c] >= read[c] /\ mOutByte[c] <= given[c]
    BY <1>1 DEF IInv, SlotInv
  <2> QED
    BY <2>1, <2>3, <2>4
<1>2. IInv /\ [Next]_vars =>
         [\A c \in Client : pc[c] = "write" /\ pc'[c] = "clear" =>
             written[c] < written'[c] /\ written'[c] <= given[c]]_vars
  BY <1>1
<1> QED
  BY <1>2, Inductive, PTL DEF Spec, CommandsInOrder

(* A client's frames are decoded as they were sent: nothing of an earlier  *)
(* connection or of another frame is joined to them (main.java).  A client *)
(* that is alone is followed by HandedInv from the bridge to the decoder.  *)
THEOREM FramesStayIntact == Spec => []FramesIntact
<1>1. ASSUME IInv, FrameInv, [Next]_vars PROVE FrameInv'
  <2>1. TypeOK /\ OwnerInv /\ QueueInv /\ ClientOfActivity /\ AloneInv /\ HandedInv /\ FramesIntact
    BY <1>1 DEF IInv, FrameInv
  <2>2. AloneInv' /\ HandedInv' /\ FramesIntact'
    BY <1>1, <2>1, AloneStep, HandedStep, FramesStep
  <2> QED
    BY <2>2 DEF FrameInv
<1>2. IInv /\ FrameInv /\ [Next]_vars => FrameInv'
  BY <1>1
<1>3. FrameInv => FramesIntact
  BY DEF FrameInv
<1> QED
  BY <1>2, <1>3, HandedInit, Inductive, PTL DEF Spec
=============================================================================
