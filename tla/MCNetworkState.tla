--------------------------- MODULE MCNetworkState ---------------------------
(***************************************************************************)
(* An instance of NetworkState for TLC: a /29, which has five container    *)
(* addresses, three more than there is room for.                           *)
(***************************************************************************)
EXTENDS NetworkState

MCCidrs == {[min |-> 8, max |-> 15]}
=============================================================================
