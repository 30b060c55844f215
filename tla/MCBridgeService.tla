-------------------------- MODULE MCBridgeService --------------------------
(* Small instances of BridgeService for TLC. *)
EXTENDS BridgeService, TLC

SenderSymmetry == Permutations(Senders)
=============================================================================
