----------------------------- MODULE Lifecycle -----------------------------
(***************************************************************************)
(* Starting and stopping irbrgd: main(), getPID(), daemonize() and         *)
(* signal_handler() of main.c.  The commands "irbrgd start" and "irbrgd    *)
(* stop" are given by the scripts if-up.d and if-down.d or by hand, and    *)
(* may overlap.  The processes share the lock file, on which a daemon      *)
(* holds an advisory lock, and the TCP port.                               *)
(*                                                                         *)
(* A start command and the daemon it forks are one element of Starts.  The *)
(* loop of a daemon is reduced to whether it waits in select().            *)
(***************************************************************************)
EXTENDS Naturals

CONSTANTS
    Starts,             \* the commands "irbrgd start"
    Stops,              \* the commands "irbrgd stop"
    Orphans,            \* the starts whose parent is init: getppid() == 1
    NoProc,             \* no process
    OldPid,             \* a pid that the lock file may hold from before
    Linger,             \* the port is kept by the connections of a daemon that ended
    New,                \* a stop command that was not given yet
    InTurn,             \* whoever gives a command waits until the last one has answered
    MaxDeaths           \* bound: daemons that end by themselves

ASSUME LifecycleAssumption ==
    /\ NoProc \notin Starts /\ OldPid \notin Starts /\ Linger \notin Starts
    /\ New \notin Starts /\ NoProc # New /\ NoProc # Linger
    /\ Orphans \subseteq Starts
    /\ InTurn \in BOOLEAN
    /\ MaxDeaths \in Nat

VARIABLES
    stage,              \* where each start command or its daemon is
    said,               \* what each start command has answered
    lock,               \* the process that holds the lock on LOCK_FILE
    written,            \* the pid in the lock file
    port,               \* the process that is bound to conf.port
    asked,              \* the pid that each stop command got from getPID()
    deaths,             \* counter of the bounded event
    last,               \* history: the last command given
    struck              \* history: a daemon was signalled or ended by itself

vars == <<stage, said, lock, written, port, asked, deaths, last, struck>>

(* "locked" and "recorded": before signal() is called; "ending": after     *)
(* main_demonized() has returned.                                          *)
StageNames == {"none", "checked", "forked", "locked", "recorded", "starting",
               "busy", "idle", "closing", "ending", "gone"}

TypeOK ==
    /\ stage \in [Starts -> StageNames]
    /\ said \in [Starts -> {"none", "ok", "refused"}]
    /\ lock \in Starts \cup {NoProc}
    /\ written \in Starts \cup {NoProc, OldPid}
    /\ port \in Starts \cup {NoProc, Linger}
    /\ asked \in [Stops -> Starts \cup {New, NoProc}]
    /\ deaths \in Nat
    /\ last \in {"none", "start", "stop"}
    /\ struck \in BOOLEAN

Init ==
    /\ stage = [p \in Starts |-> "none"]
    /\ said = [p \in Starts |-> "none"]
    /\ lock = NoProc
    /\ written \in {NoProc, OldPid}
    /\ port = NoProc
    /\ asked = [q \in Stops |-> New]
    /\ deaths = 0 /\ last = "none" /\ struck = FALSE

Goto(p, here, there) == stage[p] = here /\ stage' = [stage EXCEPT ![p] = there]

(* The process is gone: the kernel drops its lock and closes its sockets.  *)
(* The port stays taken for a while if there were connections, because     *)
(* init_connection() does not set SO_REUSEADDR.                            *)
Gone(p) ==
    /\ stage' = [stage EXCEPT ![p] = "gone"]
    /\ lock' = IF lock = p THEN NoProc ELSE lock
    /\ port' \in IF port = p THEN {NoProc, Linger} ELSE {port}

----------------------------------------------------------------------------
(* "irbrgd start" *)

MayCommand == InTurn => /\ \A p \in Starts : stage[p] # "checked"
                        /\ \A q \in Stops : asked[q] \notin Starts

(* getPID() finds the lock held: "already running". *)
Refuse(p) ==
    /\ MayCommand
    /\ lock # NoProc
    /\ Goto(p, "none", "gone")
    /\ said' = [said EXCEPT ![p] = "refused"]
    /\ last' = "start"
    /\ UNCHANGED <<lock, written, port, asked, deaths, struck>>

(* getPID() finds no file or no lock; the configuration is read. *)
Check(p) ==
    /\ MayCommand
    /\ lock = NoProc
    /\ Goto(p, "none", "checked")
    /\ last' = "start"
    /\ UNCHANGED <<said, lock, written, port, asked, deaths, struck>>

(* The parent answers, and the child goes on.  A command whose parent is   *)
(* init goes on itself, with neither a lock nor signal handlers.           *)
Fork(p) ==
    /\ IF p \in Orphans
         THEN Goto(p, "checked", "starting") /\ UNCHANGED said
         ELSE Goto(p, "checked", "forked") /\ said' = [said EXCEPT ![p] = "ok"]
    /\ UNCHANGED <<lock, written, port, asked, deaths, last, struck>>

(* Mutants of Lock: the pid is written before the lock is taken; the file  *)
(* is opened with O_EXCL and must not exist.                               *)
LockWrites(p) ==
    /\ \/ lock = NoProc /\ Goto(p, "forked", "locked") /\ lock' = p
       \/ lock # NoProc /\ Goto(p, "forked", "gone") /\ UNCHANGED lock
    /\ written' = p
    /\ UNCHANGED <<said, port, asked, deaths, last, struck>>
LockExcl(p) ==
    /\ \/ lock = NoProc /\ written = NoProc /\ Goto(p, "forked", "locked") /\ lock' = p
       \/ (lock # NoProc \/ written # NoProc) /\ Goto(p, "forked", "gone") /\ UNCHANGED lock
    /\ UNCHANGED <<said, written, port, asked, deaths, last, struck>>

(* lockf(F_TLOCK): the loser of a race ends, its command having said "ok". *)
Lock(p) ==
    /\ \/ lock = NoProc /\ Goto(p, "forked", "locked") /\ lock' = p
       \/ lock # NoProc /\ Goto(p, "forked", "gone") /\ UNCHANGED lock
    /\ UNCHANGED <<said, written, port, asked, deaths, last, struck>>

(* A mutant of Record: the lock file is closed after it is written. *)
RecordCloses(p) ==
    /\ Goto(p, "locked", "recorded")
    /\ written' = p
    /\ lock' = NoProc
    /\ UNCHANGED <<said, port, asked, deaths, last, struck>>

Record(p) ==
    /\ Goto(p, "locked", "recorded")
    /\ written' = p
    /\ UNCHANGED <<said, lock, port, asked, deaths, last, struck>>

(* signal(SIGHUP, signal_handler) *)
Handle(p) ==
    /\ Goto(p, "recorded", "starting")
    /\ UNCHANGED <<said, lock, written, port, asked, deaths, last, struck>>

----------------------------------------------------------------------------
(* The daemon *)

(* init_connection(): without the port it returns errno, and the loop is   *)
(* entered all the same.                                                   *)
Listen(p) ==
    /\ Goto(p, "starting", "busy")
    /\ port' = IF port = NoProc THEN p ELSE port
    /\ UNCHANGED <<said, lock, written, asked, deaths, last, struck>>

(* select() fails on a socket that is none. *)
SelectFails(p) ==
    /\ stage[p] = "busy" /\ port # p
    /\ Gone(p)
    /\ UNCHANGED <<said, written, asked, deaths, last, struck>>

Wait(p) ==
    /\ port = p
    /\ Goto(p, "busy", "idle")
    /\ UNCHANGED <<said, lock, written, port, asked, deaths, last, struck>>

Wake(p) ==
    /\ Goto(p, "idle", "busy")
    /\ UNCHANGED <<said, lock, written, port, asked, deaths, last, struck>>

(* A mutant of Close: the lock is given back with the sockets. *)
CloseUnlocks(p) ==
    /\ Goto(p, "closing", "ending")
    /\ port' \in {NoProc, Linger}
    /\ lock' = NoProc
    /\ UNCHANGED <<said, written, asked, deaths, last, struck>>

(* clear_clients(), end_connection() *)
Close(p) ==
    /\ Goto(p, "closing", "ending")
    /\ port' \in {NoProc, Linger}
    /\ UNCHANGED <<said, lock, written, asked, deaths, last, struck>>

(* The led is switched, and main() returns. *)
End(p) ==
    /\ stage[p] = "ending"
    /\ Gone(p)
    /\ UNCHANGED <<said, written, asked, deaths, last, struck>>

(* SIGTERM, SIGPIPE, a failed call, no device. *)
Die(p) ==
    /\ deaths < MaxDeaths
    /\ stage[p] \notin {"none", "gone"}
    /\ Gone(p)
    /\ deaths' = deaths + 1
    /\ struck' = TRUE
    /\ UNCHANGED <<said, written, asked, last>>

LingerEnds ==
    /\ port = Linger
    /\ port' = NoProc
    /\ UNCHANGED <<stage, said, lock, written, asked, deaths, last, struck>>

----------------------------------------------------------------------------
(* "irbrgd stop" *)

(* getPID(): the process that holds the lock; "nothing to stop" if none. *)
StopAsk(q) ==
    /\ MayCommand
    /\ asked[q] = New
    /\ asked' = [asked EXCEPT ![q] = lock]
    /\ last' = "stop"
    /\ UNCHANGED <<stage, said, lock, written, port, deaths, struck>>

(* SIGHUP before signal(): the default action ends the process. *)
HangupKills(p) == stage[p] \in {"locked", "recorded"} /\ Gone(p)

(* A mutant of HangupEnds: the handler sets a flag that the loop looks at. *)
HangupEndsBusy(p) ==
    /\ stage[p] \in {"busy", "idle"}
    /\ stage' = [stage EXCEPT ![p] = "closing"]
    /\ UNCHANGED <<lock, port>>

HangupEnds(p) == Goto(p, "idle", "closing") /\ UNCHANGED <<lock, port>>

(* The handler only logs, or the process is gone and kill() fails. *)
HangupLost(p) ==
    /\ stage[p] \in {"starting", "busy", "closing", "ending", "gone"}
    /\ UNCHANGED <<stage, lock, port>>

(* kill(pid, SIGHUP) *)
StopKill(q) ==
    /\ asked[q] \in Starts
    /\ HangupKills(asked[q]) \/ HangupEnds(asked[q]) \/ HangupLost(asked[q])
    /\ asked' = [asked EXCEPT ![q] = NoProc]
    /\ struck' = TRUE
    /\ UNCHANGED <<said, written, deaths, last>>

----------------------------------------------------------------------------
Runs(p) ==
    \/ Fork(p) \/ Lock(p) \/ Record(p) \/ Handle(p)
    \/ Listen(p) \/ SelectFails(p) \/ Wait(p) \/ Close(p) \/ End(p)

Command ==
    \/ \E p \in Starts : Refuse(p) \/ Check(p)
    \/ \E q \in Stops : StopAsk(q) \/ StopKill(q)

Next ==
    \/ Command
    \/ \E p \in Starts : Runs(p) \/ Wake(p) \/ Die(p)
    \/ LingerEnds

Spec == Init /\ [][Next]_vars

(* Every process is scheduled, a stop that has its pid signals it, and     *)
(* connections do not linger forever.                                      *)
Fairness ==
    /\ \A p \in Starts : WF_vars(Runs(p))
    /\ \A q \in Stops : WF_vars(StopKill(q))
    /\ WF_vars(LingerEnds)

FairSpec == Spec /\ Fairness

----------------------------------------------------------------------------
(* The daemon of p has the lock and has not ended. *)
Holds(p) == p \notin Orphans /\
    stage[p] \in {"locked", "recorded", "starting", "busy", "idle", "closing", "ending"}

Serving(p) == port = p /\ stage[p] \in {"busy", "idle"}

(* lockf() in daemonize(): a daemon that got past it holds the lock until  *)
(* its process is gone, so that there is at most one, however the commands *)
(* overlap; and whoever holds it is such a daemon.                         *)
OneDaemon ==
    /\ \A p \in Starts : Holds(p) => lock = p
    /\ lock # NoProc => Holds(lock)

(* "record pid to lockfile", daemonize(): from then on the file names the  *)
(* daemon that holds the lock, whatever other starts come by.              *)
FileNamesDaemon ==
    \A p \in Starts : Holds(p) /\ stage[p] # "locked" => written = p

(* The stop command signals a pid it has read before: by then the process  *)
(* is still the daemon that holds the lock, or it is gone.  A stop cannot  *)
(* hit a daemon that was started after it.                                 *)
StopHitsDaemon ==
    \A q \in Stops : asked[q] \in Starts => lock = asked[q] \/ stage[asked[q]] = "gone"

(* The port belongs to the daemon that holds the lock, or to one that was  *)
(* started without it (getppid() == 1).                                    *)
PortOfDaemon ==
    port \in Starts => /\ stage[port] \in {"busy", "idle", "closing"}
                       /\ lock = port \/ port \in Orphans

(* What makes them inductive: a daemon whose parent was init at its start  *)
(* is never between fork() and signal().                                   *)
OrphansSkip == \A p \in Orphans : stage[p] \notin {"forked", "locked", "recorded"}

IInv == /\ TypeOK /\ OrphansSkip
        /\ OneDaemon /\ FileNamesDaemon /\ StopHitsDaemon /\ PortOfDaemon

(* A start command that has answered 0 (exit(0) in daemonize()) leads to a *)
(* daemon that serves, its own or that of another command it raced with,   *)
(* unless a daemon is stopped or ends by itself.                           *)
StartServes == (\E p \in Starts : said[p] = "ok") ~> (struck \/ \E p \in Starts : Serving(p))

(* Each daemon lives as DaemonLife says. *)
lifeOf == [p \in Starts |->
    CASE stage[p] = "ending" -> "closing"
      [] stage[p] \in {"none", "checked", "forked", "locked", "recorded"} -> "starting"
      [] OTHER -> stage[p]]
LifeOf(p) == INSTANCE DaemonLife WITH life <- lifeOf[p]
ImplementsLife ==
    /\ \A p \in Starts : LifeOf(p)!Init
    /\ [][\A p \in Starts : [LifeOf(p)!Next]_(lifeOf[p])]_vars

(* "To avoid this", README.md: if-down.d stops the daemon and if-up.d      *)
(* starts it again.  If the last command is a start, a daemon runs.        *)
RestartServes == (<>[](last = "start")) => <>[](\E p \in Starts : Serving(p))
=============================================================================
