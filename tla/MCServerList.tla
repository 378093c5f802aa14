---------------------------- MODULE MCServerList ----------------------------
(***************************************************************************)
(* ServerList for TLC.  Two of the addresses have the same key, as         *)
(* 10.0.0.1:11211 and 10.0.0.11:1211 do.                                   *)
(***************************************************************************)
EXTENDS ServerList

CONSTANTS a1, a2, a3

MCKey == [a \in {a1, a2, a3} |-> IF a = a3 THEN "k2" ELSE "k1"]
=============================================================================
