---------------------------- MODULE SendChannel ----------------------------
(***************************************************************************)
(* What TcpClient promises to the code that calls Send: the buffers of the *)
(* successive calls leave on the connection in call order, each one at     *)
(* most once, nothing leaves once the connection has been lost, and as     *)
(* long as it has not been lost everything accepted leaves eventually.     *)
(* Buffers are numbered 1, 2, ... in the order in which Send receives them.*)
(***************************************************************************)
EXTENDS Naturals, Sequences

VARIABLES accepted,   \* number of buffers given to Send so far
          delivered,  \* the buffers that left, in the order they left
          up          \* FALSE once the connection is lost or closed

chanVars == <<accepted, delivered, up>>

ChanInit == accepted = 0 /\ delivered = <<>> /\ up = TRUE

\* Send is accepted whether or not the connection is still up: the caller
\* learns of a lost connection through OnError, never from Send.
Accept == /\ accepted' \in Nat
          /\ accepted' > accepted
          /\ UNCHANGED <<delivered, up>>

Deliver == /\ up
           /\ Len(delivered) < accepted
           /\ delivered' = Append(delivered, Len(delivered) + 1)
           /\ UNCHANGED <<accepted, up>>

Lose == up /\ up' = FALSE /\ UNCHANGED <<accepted, delivered>>

ChanNext == Accept \/ Deliver \/ Lose

ChanSafeSpec == ChanInit /\ [][ChanNext]_chanVars

ChanSpec == ChanSafeSpec /\ WF_chanVars(Deliver)
=============================================================================
