-------------------------- MODULE Lifecycle_proofs --------------------------
(***************************************************************************)
(* However many start and stop commands overlap, there is one daemon, the  *)
(* lock file names it, a stop hits it and no other, and the port is its.   *)
(***************************************************************************)
EXTENDS Led, TLAPS

LEMMA InitCorrect == Init => IInv
<1> SUFFICES ASSUME Init PROVE IInv
  OBVIOUS
<1> USE LifecycleAssumption DEF Init
<1>1. TypeOK /\ OrphansSkip
  BY DEF TypeOK, StageNames, OrphansSkip
<1>2. OneDaemon /\ FileNamesDaemon
  BY DEF OneDaemon, FileNamesDaemon, Holds
<1>3. StopHitsDaemon
  BY DEF StopHitsDaemon
<1>4. PortOfDaemon
  BY DEF PortOfDaemon
<1> QED
  BY <1>1, <1>2, <1>3, <1>4 DEF IInv

(* A process that ends takes its lock and its port with it.                *)
LEMMA GoneKeeps ==
    ASSUME IInv, NEW p \in Starts, stage[p] # "none", Gone(p), UNCHANGED <<said, written>>,
           \A q \in Stops : asked'[q] \in Starts => asked[q] = asked'[q]
    PROVE  /\ stage' \in [Starts -> StageNames]
           /\ lock' \in Starts \cup {NoProc}
           /\ port' \in Starts \cup {NoProc, Linger}
           /\ OrphansSkip' /\ OneDaemon' /\ FileNamesDaemon' /\ StopHitsDaemon'
           /\ PortOfDaemon'
<1> USE LifecycleAssumption DEF IInv, TypeOK, StageNames, Gone
<1>1. /\ stage' \in [Starts -> StageNames]
      /\ lock' \in Starts \cup {NoProc}
      /\ port' \in Starts \cup {NoProc, Linger}
  OBVIOUS
<1>2. OneDaemon' /\ OrphansSkip'
  BY DEF OneDaemon, OrphansSkip, Holds
<1>3. FileNamesDaemon'
  BY DEF FileNamesDaemon, Holds
<1>4. StopHitsDaemon'
  BY DEF StopHitsDaemon
<1>5. PortOfDaemon'
  BY DEF PortOfDaemon
<1> QED
  BY <1>1, <1>2, <1>3, <1>4, <1>5

LEMMA StepCorrect ==
    ASSUME IInv, [Next]_vars
    PROVE  IInv'
<1> USE LifecycleAssumption DEF IInv, TypeOK, StageNames, Goto
<1>1. CASE UNCHANGED vars
  BY <1>1 DEF vars, OrphansSkip, OneDaemon, Holds, FileNamesDaemon,
        StopHitsDaemon, PortOfDaemon
<1>2. ASSUME NEW p \in Starts, Refuse(p) PROVE IInv'
  BY <1>2 DEF Refuse, OrphansSkip, OneDaemon, Holds, FileNamesDaemon,
        StopHitsDaemon, PortOfDaemon
<1>3. ASSUME NEW p \in Starts, Check(p) PROVE IInv'
  BY <1>3 DEF Check, OrphansSkip, OneDaemon, Holds, FileNamesDaemon,
        StopHitsDaemon, PortOfDaemon
<1>4. ASSUME NEW p \in Starts, Fork(p) PROVE IInv'
  BY <1>4 DEF Fork, OrphansSkip, OneDaemon, Holds, FileNamesDaemon,
        StopHitsDaemon, PortOfDaemon
<1>5. ASSUME NEW p \in Starts, Lock(p) PROVE IInv'
  <2>1. TypeOK' /\ OrphansSkip'
    BY <1>5 DEF Lock, OrphansSkip
  <2>2. OneDaemon' /\ FileNamesDaemon'
    BY <1>5 DEF Lock, OrphansSkip, OneDaemon, FileNamesDaemon, Holds
  <2>3. StopHitsDaemon'
    BY <1>5 DEF Lock, StopHitsDaemon
  <2>4. PortOfDaemon'
    BY <1>5 DEF Lock, PortOfDaemon
  <2> QED
    BY <2>1, <2>2, <2>3, <2>4
<1>6. ASSUME NEW p \in Starts, Record(p) PROVE IInv'
  <2>1. TypeOK' /\ OrphansSkip'
    BY <1>6 DEF Record, OrphansSkip
  <2>2. OneDaemon'
    BY <1>6 DEF Record, OneDaemon, Holds
  <2>3. FileNamesDaemon'
    BY <1>6 DEF Record, OrphansSkip, OneDaemon, FileNamesDaemon, Holds
  <2>4. StopHitsDaemon'
    BY <1>6 DEF Record, StopHitsDaemon
  <2>5. PortOfDaemon'
    BY <1>6 DEF Record, PortOfDaemon
  <2> QED
    BY <2>1, <2>2, <2>3, <2>4, <2>5
<1>7. ASSUME NEW p \in Starts, Handle(p) PROVE IInv'
  BY <1>7 DEF Handle, OrphansSkip, OneDaemon, Holds, FileNamesDaemon,
        StopHitsDaemon, PortOfDaemon
<1>8. ASSUME NEW p \in Starts, Listen(p) PROVE IInv'
  BY <1>8 DEF Listen, OrphansSkip, OneDaemon, Holds, FileNamesDaemon,
        StopHitsDaemon, PortOfDaemon
<1>9. ASSUME NEW p \in Starts, Wait(p) PROVE IInv'
  BY <1>9 DEF Wait, OrphansSkip, OneDaemon, Holds, FileNamesDaemon,
        StopHitsDaemon, PortOfDaemon
<1>10. ASSUME NEW p \in Starts, Wake(p) PROVE IInv'
  BY <1>10 DEF Wake, OrphansSkip, OneDaemon, Holds, FileNamesDaemon,
        StopHitsDaemon, PortOfDaemon
<1>11. ASSUME NEW p \in Starts, Close(p) PROVE IInv'
  BY <1>11 DEF Close, OrphansSkip, OneDaemon, Holds, FileNamesDaemon,
        StopHitsDaemon, PortOfDaemon
<1>12. ASSUME NEW p \in Starts, SelectFails(p) PROVE IInv'
  BY <1>12, GoneKeeps DEF SelectFails
<1>13. ASSUME NEW p \in Starts, End(p) PROVE IInv'
  BY <1>13, GoneKeeps DEF End
<1>14. ASSUME NEW p \in Starts, Die(p) PROVE IInv'
  BY <1>14, GoneKeeps DEF Die
<1>15. CASE LingerEnds
  BY <1>15 DEF LingerEnds, OrphansSkip, OneDaemon, Holds, FileNamesDaemon,
        StopHitsDaemon, PortOfDaemon
<1>16. ASSUME NEW q \in Stops, StopAsk(q) PROVE IInv'
  BY <1>16 DEF StopAsk, OrphansSkip, OneDaemon, Holds, FileNamesDaemon,
        StopHitsDaemon, PortOfDaemon
<1>17. ASSUME NEW q \in Stops, StopKill(q) PROVE IInv'
  <2>1. CASE HangupKills(asked[q])
    BY <1>17, <2>1, GoneKeeps DEF StopKill, HangupKills
  <2>2. CASE HangupEnds(asked[q])
    BY <1>17, <2>2
    DEF StopKill, HangupEnds, OrphansSkip, OneDaemon, Holds, FileNamesDaemon,
        StopHitsDaemon, PortOfDaemon
  <2>3. CASE HangupLost(asked[q])
    BY <1>17, <2>3
    DEF StopKill, HangupLost, OrphansSkip, OneDaemon, Holds, FileNamesDaemon,
        StopHitsDaemon, PortOfDaemon
  <2> QED
    BY <1>17, <2>1, <2>2, <2>3 DEF StopKill
<1> QED
  BY <1>1, <1>2, <1>3, <1>4, <1>5, <1>6, <1>7, <1>8, <1>9, <1>10, <1>11, <1>12, <1>13, <1>14, <1>15, <1>16, <1>17 DEF Next, Command, Runs

LEMMA InductiveInvariant == Spec => []IInv
<1>1. IInv /\ [Next]_vars => IInv'
  BY StepCorrect
<1> QED
  BY InitCorrect, <1>1, PTL DEF Spec

(* There is at most one daemon that took the lock, and it holds it until   *)
(* its process is gone (daemonize, main.c:185).                            *)
THEOREM OneDaemonAlways == Spec => []OneDaemon
<1>1. IInv => OneDaemon
  BY DEF IInv
<1> QED
  BY <1>1, InductiveInvariant, PTL

(* The lock file names the daemon that runs (daemonize, main.c:191-193).   *)
THEOREM FileNamesDaemonAlways == Spec => []FileNamesDaemon
<1>1. IInv => FileNamesDaemon
  BY DEF IInv
<1> QED
  BY <1>1, InductiveInvariant, PTL

(* A stop command signals the daemon that runs or a process that is gone,  *)
(* never one that was started since (getPID and main, main.c:207-271).     *)
THEOREM StopHitsDaemonAlways == Spec => []StopHitsDaemon
<1>1. IInv => StopHitsDaemon
  BY DEF IInv
<1> QED
  BY <1>1, InductiveInvariant, PTL

(* Whoever has the port holds the lock, unless it was started by init.     *)
THEOREM PortOfDaemonAlways == Spec => []PortOfDaemon
<1>1. IInv => PortOfDaemon
  BY DEF IInv
<1> QED
  BY <1>1, InductiveInvariant, PTL

----------------------------------------------------------------------------
(* What a step does to the stage of any one daemon. *)
Early == {"none", "checked", "forked", "locked", "recorded", "starting"}

LEMMA StageMoves ==
    ASSUME TypeOK, [Next]_vars, NEW p \in Starts
    PROVE  \/ stage'[p] = stage[p]
           \/ stage[p] # "gone" /\ stage'[p] = "gone"
           \/ stage[p] \in Early /\ stage'[p] \in Early
           \/ stage[p] = "starting" /\ stage'[p] = "busy"
           \/ stage[p] \in {"busy", "idle"} /\ stage'[p] \in {"busy", "idle"}
           \/ stage[p] = "idle" /\ stage'[p] = "closing"
           \/ stage[p] = "closing" /\ stage'[p] = "ending"
<1> USE DEF TypeOK, Goto, Early
<1>1. ASSUME NEW r \in Starts, Gone(r)
      PROVE  \/ stage'[p] = stage[p]
             \/ stage[p] # "gone" /\ stage'[p] = "gone"
  BY <1>1 DEF Gone
<1>2. ASSUME NEW r \in Starts, Refuse(r) \/ Check(r) \/ Fork(r) \/ Lock(r)
      PROVE  \/ stage'[p] = stage[p]
             \/ stage[p] # "gone" /\ stage'[p] = "gone"
             \/ stage[p] \in Early /\ stage'[p] \in Early
  BY <1>2 DEF Refuse, Check, Fork, Lock
<1>3. ASSUME NEW r \in Starts, Record(r) \/ Handle(r)
      PROVE  stage'[p] = stage[p] \/ (stage[p] \in Early /\ stage'[p] \in Early)
  BY <1>3 DEF Record, Handle
<1>4. ASSUME NEW r \in Starts, Listen(r) \/ Wait(r) \/ Wake(r) \/ Close(r)
      PROVE  \/ stage'[p] = stage[p]
             \/ stage[p] = "starting" /\ stage'[p] = "busy"
             \/ stage[p] \in {"busy", "idle"} /\ stage'[p] \in {"busy", "idle"}
             \/ stage[p] = "closing" /\ stage'[p] = "ending"
  BY <1>4 DEF Listen, Wait, Wake, Close
<1>5. ASSUME NEW r \in Starts, SelectFails(r) \/ End(r) \/ Die(r)
      PROVE  Gone(r)
  BY <1>5 DEF SelectFails, End, Die
<1>6. ASSUME NEW q \in Stops, StopAsk(q)
      PROVE  stage' = stage
  BY <1>6 DEF StopAsk
<1>7. ASSUME NEW q \in Stops, StopKill(q)
      PROVE  \E r \in Starts :
                \/ Gone(r)
                \/ stage[r] = "idle" /\ stage' = [stage EXCEPT ![r] = "closing"]
                \/ stage' = stage
  BY <1>7 DEF StopKill, HangupKills, HangupEnds, HangupLost
<1>8. CASE LingerEnds \/ UNCHANGED vars
  BY <1>8 DEF LingerEnds, vars
<1> QED
  BY <1>1, <1>2, <1>3, <1>4, <1>5, <1>6, <1>7, <1>8 DEF Next, Command, Runs

(* Each daemon lives as DaemonLife says, which is what Bridge is shown to  *)
(* implement: whatever commands overlap, it ends in order only when a stop *)
(* finds it waiting (main() and signal_handler()).                         *)
THEOREM DaemonsLiveAsPromised == Spec => ImplementsLife
<1>1. Init => \A p \in Starts : LifeOf(p)!Init
  BY DEF Init, lifeOf, LifeOf!Init
<1>2. IInv /\ [Next]_vars => [\A p \in Starts : [LifeOf(p)!Next]_(lifeOf[p])]_vars
  <2> SUFFICES ASSUME IInv, [Next]_vars, NEW p \in Starts
               PROVE  LifeOf(p)!Next \/ lifeOf'[p] = lifeOf[p]
    OBVIOUS
  <2>1. /\ stage[p] \in Early => lifeOf[p] = "starting"
        /\ stage[p] \in {"closing", "ending"} => lifeOf[p] = "closing"
        /\ stage[p] \in {"busy", "idle", "gone"} => lifeOf[p] = stage[p]
    BY DEF lifeOf, Early
  <2>2. /\ stage'[p] \in Early => lifeOf'[p] = "starting"
        /\ stage'[p] \in {"closing", "ending"} => lifeOf'[p] = "closing"
        /\ stage'[p] \in {"busy", "idle", "gone"} => lifeOf'[p] = stage'[p]
    BY DEF lifeOf, Early
  <2>3. stage[p] \in Early \/ stage[p] \in {"busy", "idle", "closing", "ending", "gone"}
    BY DEF IInv, TypeOK, StageNames, Early
  <2> QED
    BY <2>1, <2>2, <2>3, StageMoves
    DEF IInv, LifeOf!Next, LifeOf!Step, LifeOf!Begin, LifeOf!Wait, LifeOf!Wake,
        LifeOf!Hangup, LifeOf!Die, LifeOf!Stages
<1> QED
  BY <1>1, <1>2, InductiveInvariant, PTL DEF Spec, ImplementsLife

----------------------------------------------------------------------------
(* The led adds nothing to how the daemons live, so that what is proved of *)
(* Lifecycle holds with it; and the lock, which is what Lifecycle is       *)
(* about, is also what keeps the led.                                      *)

LEMMA LedStepIsStep == [LedNext]_allVars => [Next]_vars
BY DEF LedNext, LedRuns, NoLed, LedDie, allVars, Next, Runs

(* Every behaviour of the daemons with their led is one of Lifecycle.      *)
THEOREM LedRefinesLifecycle == LedSpec => Spec
<1>1. LedInit => Init
  BY DEF LedInit
<1> QED
  BY <1>1, LedStepIsStep, PTL DEF LedSpec, Spec

LedIInv == IInv /\ LedTypeOK /\ LedOfDaemon

LEMMA LedInitCorrect == LedInit => LedIInv
<1> SUFFICES ASSUME LedInit PROVE LedIInv
  OBVIOUS
<1>1. IInv
  BY InitCorrect DEF LedInit
<1>2. usable \in BOOLEAN /\ led \in [Starts -> BOOLEAN]
  BY Zenon DEF LedInit
<1>3. gpio \in {"none", "in", "out"} /\ value \in {0, 1}
  BY DEF LedInit
<1>4. LedOfDaemon
  BY DEF LedInit, Init, LedOfDaemon, HasLed
<1> QED
  BY <1>1, <1>2, <1>3, <1>4 DEF LedIInv, LedTypeOK

LEMMA LedTypeStep ==
    ASSUME LedTypeOK, [LedNext]_allVars
    PROVE  LedTypeOK'
<1> USE DEF LedTypeOK
<1>1. ASSUME NEW p \in Starts, RegisterAndBlink(p) PROVE LedTypeOK'
  <2>1. led' \in [Starts -> BOOLEAN] /\ usable' \in BOOLEAN
    BY <1>1, Zenon DEF RegisterAndBlink, register_led, Registers
  <2>2. gpio' \in {"none", "in", "out"} /\ value' \in {0, 1}
    BY <1>1 DEF RegisterAndBlink, register_led
  <2> QED
    BY <2>1, <2>2
<1>2. ASSUME NEW p \in Starts, LedOff(p) PROVE LedTypeOK'
  <2>1. UNCHANGED <<led, usable>>
    BY <1>2 DEF LedOff
  <2>2. gpio' \in {"none", "in", "out"} /\ value' \in {0, 1}
    BY <1>2 DEF LedOff, set_led
  <2> QED
    BY <2>1, <2>2
<1>3. ASSUME NEW p \in Starts, LeftBehind(p) \/ GivesUp(p) PROVE LedTypeOK'
  <2>1. CASE LeftBehind(p)
    <3>1. UNCHANGED <<led, usable>>
      BY <2>1 DEF LeftBehind
    <3>2. gpio' \in {"none", "in", "out"} /\ value' \in {0, 1}
      BY <2>1 DEF LeftBehind
    <3> QED
      BY <3>1, <3>2
  <2>2. CASE GivesUp(p) /\ ~LedOff(p)
    <3>1. led' \in [Starts -> BOOLEAN] /\ usable' \in BOOLEAN
      BY <2>2, Zenon DEF GivesUp, Registers
    <3>2. gpio' \in {"none", "in", "out"} /\ value' \in {0, 1}
      BY <2>2 DEF GivesUp
    <3> QED
      BY <3>1, <3>2
  <2> QED
    BY <1>2, <1>3, <2>1, <2>2
<1>4. ASSUME UNCHANGED ledVars PROVE LedTypeOK'
  BY <1>4 DEF ledVars
<1> QED
  BY <1>1, <1>2, <1>3, <1>4 DEF LedNext, LedRuns, LedDie, allVars

(* A daemon that has its led and was not started by init holds the lock.   *)
LEMMA LedOfLock ==
    ASSUME IInv, \A o \in Orphans : stage[o] = "none",
           NEW p \in Starts, stage[p] \in {"starting"} \/ HasLed(p)
    PROVE  lock = p
BY DEF IInv, OneDaemon, Holds, HasLed

LEMMA LedStep ==
    ASSUME LedIInv, [LedNext]_allVars
    PROVE  LedOfDaemon'
<1> SUFFICES ASSUME usable', \A o \in Orphans : stage'[o] = "none",
                    NEW p \in Starts, HasLed(p)'
             PROVE  (led[p] /\ gpio = "out" /\ value = 0)'
  BY DEF LedOfDaemon
<1> USE LifecycleAssumption DEF HasLed
<1>1. [Next]_vars /\ IInv /\ LedTypeOK /\ LedOfDaemon
  BY LedStepIsStep DEF LedIInv
<1>2. IInv'
  BY <1>1, StepCorrect
<1>3. stage \in [Starts -> StageNames] /\ Orphans \subseteq Starts
  BY <1>1 DEF IInv, TypeOK
<1>4. \A o \in Starts : stage'[o] = "none" => stage[o] = "none"
  <2>1. CASE UNCHANGED vars
    BY <2>1 DEF vars
  <2>2. ASSUME NEW r \in Starts, Runs(r) \/ Wake(r) \/ Die(r) \/ Refuse(r) \/ Check(r)
        PROVE  \A o \in Starts : stage'[o] = "none" => stage[o] = "none"
    BY <2>2, <1>3 DEF Runs, Fork, Lock, Record, Handle, Listen, SelectFails, Wait,
                     Close, End, Wake, Die, Refuse, Check, Goto, Gone
  <2>3. ASSUME NEW q \in Stops, StopAsk(q) \/ StopKill(q)
        PROVE  \A o \in Starts : stage'[o] = "none" => stage[o] = "none"
    BY <2>3, <1>3 DEF StopAsk, StopKill, HangupKills, HangupEnds, HangupLost, Goto, Gone
  <2>4. CASE LingerEnds
    BY <2>4 DEF LingerEnds
  <2> QED
    BY <1>1, <2>1, <2>2, <2>3, <2>4 DEF Next, Command
<1>5. \A o \in Orphans : stage[o] = "none"
  BY <1>3, <1>4
<1>6. usable
  BY DEF LedNext, LedRuns, NoLed, LedDie, RegisterAndBlink, LedOff, LeftBehind, GivesUp,
         ledVars, allVars
<1>7. ASSUME UNCHANGED ledVars, HasLed(p)
      PROVE  (led[p] /\ gpio = "out" /\ value = 0)'
  BY <1>1, <1>5, <1>6, <1>7 DEF LedOfDaemon, ledVars
<1>8. CASE UNCHANGED allVars
  BY <1>7, <1>8 DEF allVars, vars
<1>9. CASE Command /\ UNCHANGED ledVars
  <2>1. HasLed(p)
    BY <1>3, <1>9 DEF Command, Refuse, Check, StopAsk, StopKill, HangupKills, HangupEnds,
                     HangupLost, Goto, Gone
  <2> QED
    BY <1>7, <1>9, <2>1
<1>10. CASE LingerEnds /\ UNCHANGED ledVars
  BY <1>7, <1>10 DEF LingerEnds
<1>11. ASSUME NEW r \in Starts, (NoLed(r) \/ Wake(r)) /\ UNCHANGED ledVars
       PROVE  (led[p] /\ gpio = "out" /\ value = 0)'
  <2>1. stage[r] # "starting" \/ r \in Orphans
    BY <1>3, <1>11 DEF NoLed, Fork, Lock, Record, Handle, Wait, Close, Wake, Goto
  <2>2. HasLed(p)
    BY <1>3, <1>11 DEF NoLed, Fork, Lock, Record, Handle, Wait, Close, Wake, Goto
  <2> QED
    BY <1>7, <1>11, <2>2
<1>12. ASSUME NEW r \in Starts, Listen(r), RegisterAndBlink(r)
       PROVE  (led[p] /\ gpio = "out" /\ value = 0)'
  <2>1. lock = r /\ (p = r \/ HasLed(p))
    BY <1>1, <1>3, <1>5, <1>12, LedOfLock DEF Listen, Goto
  <2>2. p = r
    BY <1>1, <1>5, <2>1, LedOfLock
  <2>3. led'[p] /\ gpio' = "out" /\ value' = 0
    BY <1>1, <1>6, <1>12, <2>2 DEF RegisterAndBlink, register_led, Registers, LedTypeOK
  <2> QED
    BY <2>3
<1>13. ASSUME NEW r \in Starts, SelectFails(r) \/ End(r) \/ Die(r),
              HasLed(r) \/ stage[r] = "starting"
       PROVE  FALSE
  <2>1. p # r /\ HasLed(p)
    BY <1>3, <1>13 DEF SelectFails, End, Die, Gone
  <2>2. lock = r /\ lock = p
    BY <1>1, <1>5, <1>13, <2>1, LedOfLock
  <2> QED
    BY <2>1, <2>2
<1>14. ASSUME NEW r \in Starts, SelectFails(r) \/ End(r), LedOff(r)
       PROVE  (led[p] /\ gpio = "out" /\ value = 0)'
  BY <1>13, <1>14 DEF SelectFails, End
<1>15. ASSUME NEW r \in Starts, Die(r), LeftBehind(r) \/ GivesUp(r)
       PROVE  (led[p] /\ gpio = "out" /\ value = 0)'
  <2>1. stage[r] \notin {"starting", "busy", "ending"}
    BY <1>13, <1>15
  <2>2. UNCHANGED ledVars
    BY <1>15, <2>1 DEF LeftBehind, GivesUp, ledVars
  <2>3. HasLed(p)
    BY <1>3, <1>15 DEF Die, Gone
  <2> QED
    BY <1>7, <2>2, <2>3
<1> QED
  BY <1>8, <1>9, <1>10, <1>11, <1>12, <1>14, <1>15 DEF LedNext, LedRuns, LedDie

(* A daemon that runs has its led, whatever those before it have left and  *)
(* however they ended, as long as all were started with the lock (led.c,   *)
(* main.c:274-275, 297).                                                   *)
THEOREM LedOfDaemonAlways == LedSpec => []LedOfDaemon
<1>1. LedIInv /\ [LedNext]_allVars => LedIInv'
  <2> SUFFICES ASSUME LedIInv, [LedNext]_allVars PROVE LedIInv'
    OBVIOUS
  <2>1. IInv'
    BY LedStepIsStep, StepCorrect DEF LedIInv
  <2> QED
    BY <2>1, LedTypeStep, LedStep DEF LedIInv
<1>2. LedIInv => LedOfDaemon
  BY DEF LedIInv
<1> QED
  BY <1>1, <1>2, LedInitCorrect, PTL DEF LedSpec
============================================================================
