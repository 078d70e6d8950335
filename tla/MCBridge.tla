------------------------------ MODULE MCBridge ------------------------------
(***************************************************************************)
(* Instances of Bridge for TLC: the default network asked for with its own *)
(* CIDR and with another one.                                              *)
(***************************************************************************)
EXTENDS Bridge, TLC

MCDefaultCidr == [min |-> 0, max |-> 3]
MCCidrs == {MCDefaultCidr, [min |-> 4, max |-> 7]}
MCOneCidr == {MCDefaultCidr}
BridgeSymmetry == Permutations(Procs)
=============================================================================
