---------------------------- MODULE OldReceiver ----------------------------
(***************************************************************************)
(* The receiver that application.c grew out of, a program of its own       *)
(* (Work3/noncanonical.c): main calls receive_data a fixed number of times *)
(* and disconnects.  Its ByteStuffing is a loop that never runs, so that   *)
(* an error taken for a length does no harm here.  The handshake and the   *)
(* disconnection are the code that Receiver models.                        *)
(***************************************************************************)
EXTENDS Framing, Wire

CONSTANTS
  Garbage,    \* the values uninitialised stack bytes may have
  Calls,      \* how often main calls receive_data (6)
  StaleBytes  \* a bound: how far a buffer that is not cleared is followed behind a message

ASSUME OldReceiverAssumption ==
  Garbage \subseteq Byte /\ Garbage # {} /\ Calls \in Nat \ {0} /\ StaleBytes \in Nat

VARIABLES
  rPc,             \* as in Receiver
  STOP,
  hs,
  dp,              \* the locals of receive_data_packet_
  current_ctrl,
  calls,           \* counter: how often receive_data has returned
  printed          \* what receive_data has copied and what it has printed of that

receiver == << rPc, STOP, hs, dp, current_ctrl, calls, printed >>

Rx == INSTANCE Receiver WITH accepted <- printed, output <- printed

ReceiverEnded == Rx!ReceiverEnded
ReceiverIdle  == Rx!ReceiverIdle

\* t4 is temporary[4], the last byte that could have been BCC2.
Parser(t2, t4) == [ st |-> 0, mxor |-> Seed, data |-> << >>, t2 |-> t2, t4 |-> t4 ]

NewParser == \E t2, t4 \in Garbage : dp' = Parser(t2, t4)

ReceiverInit ==
  /\ rPc = "closed" /\ STOP = FALSE /\ hs = "S" /\ dp = Parser(0, 0)
  /\ current_ctrl = 0 /\ calls = 0 /\ printed = << >>

handshake ==
  /\ \/ Rx!r_llopen
     \/ Rx!Unrecognised("opening", SET)
     \/ Rx!Recognised("opening", SET, Supervision(SenderAddress, UA), "reading") /\ NewParser
  /\ UNCHANGED calls

disconnect == (Rx!r_disconnect \/ Rx!r_verify_if_ua_received) /\ UNCHANGED calls

-----------------------------------------------------------------------------
\* receive_data_packet_, state by state.
Reset == Rx!Step(Parser(0, 0))

WaitAddress(b) ==
  /\ dp.st = 1
  /\ IF b \in {FLAG, SenderAddress} THEN Rx!Goto(IF b = FLAG THEN 1 ELSE 2) ELSE Reset

WaitBcc1(b) ==
  /\ dp.st = 3
  /\ LET bcc1 == Xor(SenderAddress, I(current_ctrl))
     IN  IF b \in {bcc1, I(current_ctrl)} THEN Rx!Goto(IF b = bcc1 THEN 4 ELSE 3) ELSE Reset

\* A byte that equals the xor so far is left out of it, wherever it stands.
Collect(b) ==
  /\ dp.st = 4 /\ b # FLAG
  /\ Rx!Step(IF b = dp.mxor THEN [ dp EXCEPT !.data = Append(@, b), !.t4 = b ]
                            ELSE [ dp EXCEPT !.data = Append(@, b), !.mxor = Xor(b, @) ])

\* Variant: the bytes of the damaged frame stay in data.
DiscardKeeping(b) ==
  dp.st = 4 /\ b = FLAG /\ dp.mxor # dp.t4 /\ Rx!Step([ Parser(0, 0) EXCEPT !.data = dp.data ])

\* A flag while the last candidate for BCC2 does not fit: start over.
Discard(b) == dp.st = 4 /\ b = FLAG /\ dp.mxor # dp.t4 /\ Reset

WaitDiscBcc(b) ==
  /\ dp.st = 10
  /\ LET equal == IF b = SenderAddress THEN 1 ELSE 0
     IN  IF dp.t2 # equal THEN Rx!Goto(11) ELSE Reset

Parsing ==
  /\ rPc = "reading"
  /\ \E b \in Rx!Input :
       \/ Rx!WaitFlag(b) \/ WaitAddress(b) \/ Rx!WaitControl(b) \/ WaitBcc1(b)
       \/ Collect(b) \/ Discard(b) \/ WaitDiscBcc(b) \/ Rx!WaitDiscFlag(b)
  /\ UNCHANGED calls

\* receive_data returns: main calls it again, or disconnects.
ReturnToMain ==
  /\ Rx!Consume(TRUE)
  /\ calls' = calls + 1
  /\ rPc' = IF calls' = Calls THEN "closing" ELSE "reading"
  /\ NewParser
  /\ UNCHANGED << sIn, sOut, hs >>

\* Variant: the bit is toggled before the answer is written.
ToggleFirst ==
  /\ current_ctrl' = 1 - current_ctrl
  /\ rOut' = rOut \o Supervision(ReceiverAddress, RR(1 - current_ctrl))

AnswerRR ==
  /\ rOut' = rOut \o Supervision(ReceiverAddress, RR(current_ctrl))
  /\ current_ctrl' = 1 - current_ctrl

\* The parser has come to the end of a frame; it returns Len(dp.data) - 1.
FrameEnds == rPc = "reading" /\ FLAG \in Rx!Input /\ dp.st = 4 /\ dp.mxor = dp.t4

\* What may stand behind the message in data_buffer: whatever the stack held,
\* or nothing once memset has cleared it.
Uncleared == SeqOf(Garbage, StaleBytes)
Cleared   == { << >> }

\* fprintf with "%s": up to the first zero.
CString(s) ==
  LET zero == SelectInSeq(s, LAMBDA b : b = 0) IN IF zero = 0 THEN s ELSE SubSeq(s, 1, zero - 1)

\* memcpy copies the message without a terminator.
PrintLine(message, behind) ==
  \E rest \in behind :
    printed' = Append(printed, [ message |-> message, line |-> CString(message \o rest) ])

Accept ==
  /\ FrameEnds /\ Len(dp.data) > 1
  /\ AnswerRR /\ PrintLine(Front(dp.data), Cleared)
  /\ ReturnToMain

\* The length 0 is taken for an error: the only REJ, and no toggle.
Reject ==
  /\ FrameEnds /\ Len(dp.data) = 1
  /\ rOut' = rOut \o Supervision(ReceiverAddress, REJ(current_ctrl))
  /\ ReturnToMain
  /\ UNCHANGED << current_ctrl, printed >>

\* A frame without a body, not even BCC2: memcpy is called with -1.
Crash ==
  /\ FrameEnds /\ dp.data = << >>
  /\ rPc' = "crashed" /\ Rx!Consume(TRUE)
  /\ UNCHANGED << sIn, sOut, rOut, hs, dp, current_ctrl, calls, printed >>

\* The parser returns -1 (a control byte it does not expect) or -2 (DISC), and
\* receive_data takes both for a length.
Misread ==
  /\ rPc = "reading"
  /\ \E b \in Rx!Input :
       \/ dp.st = 2 /\ b \notin {DISC, I(current_ctrl), SenderAddress}
       \/ dp.st = 11 /\ b = FLAG
  /\ AnswerRR /\ ReturnToMain
  /\ UNCHANGED printed

ReceiverNext == handshake \/ Parsing \/ Accept \/ Reject \/ Crash \/ Misread \/ disconnect

=============================================================================
