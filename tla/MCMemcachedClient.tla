------------------------- MODULE MCMemcachedClient -------------------------
(***************************************************************************)
(* MemcachedClient for TLC.  Hosts are compared only for equality, so they *)
(* are a symmetry set of the runs that check safety.                       *)
(***************************************************************************)
EXTENDS MemcachedClient, TLC

HostSymmetry == Permutations(Hosts)
=============================================================================
