--------------------------- MODULE MCMemoDistri ----------------------------
(***************************************************************************)
(* MemoDistri for TLC: a heavy server among light ones.                    *)
(***************************************************************************)
EXTENDS MemoDistri, TLC

CONSTANTS s1, s2, s3, s4

MCServers == {s1, s2, s3, s4}
MCWeight == [s \in MCServers |-> IF s = s1 THEN 2 ELSE 1]
=============================================================================
