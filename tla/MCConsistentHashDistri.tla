----------------------- MODULE MCConsistentHashDistri -----------------------
(***************************************************************************)
(* ConsistentHashDistri for TLC: four points per server, some of them      *)
(* shared; a has weight 2 and so asks for 8 points, which the mask turns   *)
(* into none.                                                              *)
(***************************************************************************)
EXTENDS ConsistentHashDistri, TLC

CONSTANTS a, b, c, d

MCServers == {a, b, c, d}
MCWeight == [s \in MCServers |-> IF s = a THEN 2 ELSE 1]
MCPointOf == a :> <<1, 2, 3, 4, 5, 6, 7, 8>> @@ b :> <<2, 5, 8, 11>>
             @@ c :> <<2, 4, 8, 10>> @@ d :> <<4, 5, 7, 11>>
=============================================================================
