----------------------------- MODULE DaemonLife -----------------------------
(***************************************************************************)
(* What whoever starts and stops irbrgd can rely on of one daemon: it      *)
(* starts, is busy or waits in select(), ends in order only when SIGHUP    *)
(* finds it waiting, and may be gone at any time.  Bridge, the daemon in   *)
(* detail, implements this, and Lifecycle composes several such daemons.   *)
(***************************************************************************)

VARIABLE life

Stages == {"starting", "busy", "idle", "closing", "gone"}

Init == life = "starting"

Step(here, there) == life = here /\ life' = there

Begin == Step("starting", "busy")
Wait == Step("busy", "idle")
Wake == Step("idle", "busy")
Hangup == Step("idle", "closing")
Die == life \in Stages \ {"gone"} /\ life' = "gone"

Next == Begin \/ Wait \/ Wake \/ Hangup \/ Die

Spec == Init /\ [][Next]_life
=============================================================================
