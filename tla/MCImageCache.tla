---------------------------- MODULE MCImageCache ----------------------------
(***************************************************************************)
(* Instances of ImageCache for TLC: two good archives, of which one is     *)
(* what a read error leaves of the other, with the longest listing that    *)
(* fits; one without entries; and one that extract_tar refuses, which tar  *)
(* -xf rejects half-way when it is swapped in after the listing.           *)
(***************************************************************************)
EXTENDS ImageCache, TLC

CONSTANTS good, other, refused, none

MCListingSize == [t \in Tars |-> IF t = refused THEN MaxCapture - 1 ELSE MaxCapture - 2]
MCCut == [t \in Tars |-> IF t = good THEN other ELSE t]
CacheSymmetry == Permutations(Procs)
=============================================================================
