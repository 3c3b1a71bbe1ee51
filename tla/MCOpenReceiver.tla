--------------------------- MODULE MCOpenReceiver ---------------------------
(***************************************************************************)
(* Bytes and bounds for checking OpenReceiver.                             *)
(***************************************************************************)
EXTENDS OpenReceiver

\* Every byte the automata look for, and those of 32, 0 32 and 1 33, three bodies
\* with a BCC2 that fits.
ProtocolBytes == {FLAG, SenderAddress, SET, 9, I(0), 129, I(1), 193, DISC, 11, UA, 7, 0, 32, 33}

FlagOrZero == {FLAG, 0}

CONSTANTS MaxBody, MaxAccepted

\* A byte arrives when the receiver waits for one.
Bounded ==
  /\ Len(rIn) <= 1 /\ Len(rOut) <= 5
  /\ Len(dp.data) <= MaxBody /\ Len(accepted) <= MaxAccepted

=============================================================================
