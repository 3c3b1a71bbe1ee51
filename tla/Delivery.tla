------------------------------ MODULE Delivery ------------------------------
(***************************************************************************)
(* One information frame on a line that is not disturbed: what llwrite     *)
(* writes for a payload, up to llread returning it.  The receiver has      *)
(* answered SET and its parser starts.                                     *)
(***************************************************************************)
EXTENDS Receiver

CONSTANT Payloads      \* what main may hand to llwrite

ASSUME PayloadsAssumption == \A p \in Payloads : p \in Seq(Byte) /\ Len(p) > 0

VARIABLE payload

vars == << wire, receiver, payload >>

Body == s_ByteStuffing(payload)

Init ==
  /\ payload \in Payloads
  /\ sOut = << >> /\ sIn = << >> /\ rOut = << >> /\ rIn = DataFrame(payload, 0)
  /\ rPc = "reading" /\ STOP \in BOOLEAN /\ hs = "S"
  /\ \E t2 \in Garbage : dp = Parser(t2)
  /\ current_ctrl = 0 /\ accepted = << >> /\ output = << >>

Next == (Parsing \/ Accept \/ Crash) /\ UNCHANGED payload

Spec == Init /\ [][Next]_vars

\* The frame has been read, and whatever the parser still looks at after it.
Quiet == rIn = << >> /\ (rPc = "reading" => ~STOP)

(***************************************************************************)
(* Stuffing, BCC2, the parser and destuffing fit together: llread delivers *)
(* the payload, byte by byte, unless the unstuffed BCC2 is itself a flag,  *)
(* and then it delivers nothing, answers nothing and does not die.  This   *)
(* is the exact set of payloads the protocol can carry.                    *)
(***************************************************************************)
ExactlyUnflagged ==
  Quiet =>
    IF Bcc2(Body) = FLAG
    THEN accepted = << >> /\ output = << >> /\ rOut = << >> /\ rPc = "reading"
    ELSE /\ accepted = << Append(Body, Bcc2(Body)) >>
         /\ rOut = Supervision(ReceiverAddress, RR(0))
         /\ output = IF payload[1] = 1 THEN Tail(payload) ELSE << >>
         /\ rPc = IF payload[1] = 0 THEN "closing" ELSE "reading"

=============================================================================
