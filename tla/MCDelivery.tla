----------------------------- MODULE MCDelivery -----------------------------
(***************************************************************************)
(* Payloads for checking Delivery.                                         *)
(***************************************************************************)
EXTENDS Delivery

\* The framing bytes, what they are escaped to, the seed of BCC2, the bytes main
\* starts a payload with, and one byte of no meaning.
Telling == {FLAG, ESC, 124, 125, Seed, 0, 1, 65}

\* What main sends: 1 and a chunk of the file, or the end message.
ShortPayloads ==
  { << 1 >> \o chunk : chunk \in UNION { [ 1 .. n -> Telling ] : n \in 1 .. 3 } } \cup { << 0 >> }

FlagOrZero == {FLAG, 0}

=============================================================================
