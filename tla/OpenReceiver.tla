---------------------------- MODULE OpenReceiver ----------------------------
(***************************************************************************)
(* The receiving program against any line whatsoever: bytes of Alphabet    *)
(* arrive in any order, whoever sends them and whatever has happened to    *)
(* them on the way, and its answers are read at any time.                  *)
(***************************************************************************)
EXTENDS Receiver

CONSTANT Alphabet    \* the bytes that may arrive

ASSUME AlphabetAssumption == Alphabet \subseteq Byte

vars == << wire, receiver >>

TypeOK == WireTypeOK /\ ReceiverTypeOK

Init == WireInit /\ ReceiverInit

Arrive ==
  /\ \E b \in Alphabet : rIn' = Append(rIn, b)
  /\ UNCHANGED << sIn, sOut, rOut, receiver >>

AnswersRead ==
  /\ rOut' = << >>
  /\ UNCHANGED << sIn, sOut, rIn, receiver >>

Next == ReceiverNext \/ Arrive \/ AnswersRead

Spec == Init /\ [][Next]_vars

-----------------------------------------------------------------------------
(***************************************************************************)
(* Every body llread accepts ends in a BCC2 that fits the bytes before it, *)
(* whatever noise, resynchronisation and leftover bytes preceded the frame,*)
(* and holds no flag: it never spans the end of one frame and the start of *)
(* the next.                                                               *)
(***************************************************************************)
AcceptedSound ==
  \A i \in DOMAIN accepted :
    /\ accepted[i] # << >>
    /\ Bcc2(accepted[i]) = 0
    /\ \A k \in DOMAIN accepted[i] : accepted[i][k] # FLAG

(***************************************************************************)
(* The bit the receiver expects is the parity of what it has accepted, so  *)
(* two consecutive accepted frames never carry the same bit.               *)
(***************************************************************************)
BitCountsAccepted == current_ctrl = Len(accepted) % 2

AnswerStep ==
  LET rr == rOut \o Supervision(ReceiverAddress, RR(Len(accepted) % 2)) IN
  rPc = "reading" =>
    /\ accepted' # accepted => Len(accepted') = Len(accepted) + 1 /\ rOut' = rr
    /\ accepted' = accepted /\ rOut' \notin {rOut, << >>} => rPc' = "crashed"

(***************************************************************************)
(* The n-th body accepted is acknowledged with the RR of parity n - 1, in  *)
(* the same step; a frame that is not accepted is acknowledged, if at all, *)
(* only by a process that ends with that answer.                           *)
(***************************************************************************)
RRNumbersAccepted == [][AnswerStep]_vars

=============================================================================
