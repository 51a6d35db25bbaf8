-------------------------------- MODULE Led --------------------------------
(***************************************************************************)
(* The led of irbrgd (led.c) over the life of the daemons: register_led(), *)
(* blink_led(), set_led() and unregister_led() as main.c calls them.  The  *)
(* gpio belongs to the kernel and outlives the process that exported it,   *)
(* so that what one daemon leaves is what the next one finds.              *)
(*                                                                         *)
(* The steps are those of Lifecycle; each says here what it does to the    *)
(* gpio.  The blinking of starfrit.c leaves the led as it was.             *)
(***************************************************************************)
EXTENDS Lifecycle

VARIABLES
    usable,             \* conf.led is not 0, and the driver knows that gpio
    gpio,               \* what the kernel has of it: exported or not, its direction
    value,              \* what was last written to the gpio
    led                 \* conf.led of each daemon is not 0

ledVars == <<usable, gpio, value, led>>

LedTypeOK ==
    /\ usable \in BOOLEAN
    /\ gpio \in {"none", "in", "out"}
    /\ value \in {0, 1}
    /\ led \in [Starts -> BOOLEAN]

(* An earlier daemon may have left the gpio exported. *)
LedInit ==
    /\ Init
    /\ usable \in BOOLEAN
    /\ gpio \in IF usable THEN {"none", "in", "out"} ELSE {"none"}
    /\ value \in {0, 1}
    /\ led = [p \in Starts |-> TRUE]

----------------------------------------------------------------------------
(* The operations. *)

(* A value is written to what is there: only a gpio with direction "out"   *)
(* has one to write.                                                       *)
set_led(v) == value' = IF gpio = "out" THEN v ELSE value

(* A mutant of Registers: that an exported gpio cannot be exported is seen *)
(* and taken for a failure. *)
RegistersNew == usable /\ gpio = "none"

(* register_led() fails if the gpio cannot be used, and conf.led becomes   *)
(* 0.  To export a gpio that is exported already is an error that nobody   *)
(* sees: fprintf() has only filled a buffer, and what fclose() returns is  *)
(* dropped.                                                                *)
Registers == usable

register_led(p) ==
    /\ led' = [led EXCEPT ![p] = Registers]
    /\ gpio' = IF Registers THEN "out" ELSE gpio

(* blink_led() ends with a 0. *)
RegisterAndBlink(p) ==
    /\ register_led(p)
    /\ value' = IF Registers THEN 0 ELSE value
    /\ UNCHANGED usable

(* set_led(conf.led, 1) and unregister_led(conf.led), after the return of  *)
(* main_demonized(); neither does anything without a led.                  *)
LedOff(p) ==
    /\ IF led[p] THEN set_led(1) /\ gpio' = "none" ELSE UNCHANGED <<gpio, value>>
    /\ UNCHANGED <<usable, led>>

(* A signal ends the process where it is, in register_led(), a blinking or *)
(* set_led() too; what it has done to the gpio stays.                      *)
LeftBehind(p) ==
    /\ gpio' \in {gpio} \cup
          IF usable /\ stage[p] = "starting"
            THEN {"out"} \cup (IF gpio = "none" THEN {"in"} ELSE {}) ELSE {}
    /\ value' \in {value} \cup
          IF gpio' = "out" /\ stage[p] \in {"starting", "busy", "ending"} THEN {0, 1} ELSE {}
    /\ UNCHANGED <<usable, led>>

(* main_demonized() gives up, because there is no device or a call fails,  *)
(* and main() goes on to its end.                                          *)
GivesUp(p) ==
    \/ stage[p] = "busy" /\ LedOff(p)
    \/ /\ stage[p] = "starting"
       /\ led' = [led EXCEPT ![p] = Registers]
       /\ IF Registers THEN gpio' = "none" /\ value' = 1 ELSE UNCHANGED <<gpio, value>>
       /\ UNCHANGED usable

----------------------------------------------------------------------------
(* The steps of Lifecycle with what they do to the led. *)

NoLed(p) ==
    \/ Fork(p) \/ Lock(p) \/ Record(p) \/ Handle(p)
    \/ Wait(p) \/ Close(p)

LedRuns(p) ==
    \/ NoLed(p) /\ UNCHANGED ledVars
    \/ Listen(p) /\ RegisterAndBlink(p)
    \/ (SelectFails(p) \/ End(p)) /\ LedOff(p)

LedDie(p) == Die(p) /\ (LeftBehind(p) \/ GivesUp(p))

LedNext ==
    \/ Command /\ UNCHANGED ledVars
    \/ \E p \in Starts : LedRuns(p) \/ (Wake(p) /\ UNCHANGED ledVars) \/ LedDie(p)
    \/ LingerEnds /\ UNCHANGED ledVars

allVars == <<vars, ledVars>>

LedSpec == LedInit /\ [][LedNext]_allVars

LedFairness ==
    /\ \A p \in Starts : WF_allVars(LedRuns(p))
    /\ \A q \in Stops : WF_allVars(StopKill(q) /\ UNCHANGED ledVars)
    /\ WF_allVars(LingerEnds /\ UNCHANGED ledVars)

FairLedSpec == LedSpec /\ LedFairness

----------------------------------------------------------------------------
(* The daemon has registered its led and has not ended. *)
HasLed(p) == stage[p] \in {"busy", "idle", "closing", "ending"}

(* A daemon that runs has its led, also when one before it was killed and  *)
(* left the gpio exported (register_led, led.c), and another one that ends *)
(* late does not take it away: unregister_led() comes before the lock is   *)
(* free.  Only a daemon started without the lock breaks this.              *)
LedOfDaemon ==
    usable /\ (\A p \in Orphans : stage[p] = "none") =>
       \A p \in Starts : HasLed(p) => led[p] /\ gpio = "out" /\ value = 0
=============================================================================
