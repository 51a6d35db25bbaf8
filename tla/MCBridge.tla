------------------------------ MODULE MCBridge ------------------------------
(* Instances of Bridge for TLC: the clients can be exchanged for one another. *)
EXTENDS BridgeProperties, TLC

ClientSymmetry == Permutations(Clients)
=============================================================================
