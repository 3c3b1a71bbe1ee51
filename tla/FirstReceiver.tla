--------------------------- MODULE FirstReceiver ---------------------------
(***************************************************************************)
(* The receiver as it was first written (Work3/noncanonical.c of the       *)
(* nested copy): it expects the bit 1 first, has no disconnection, tells a *)
(* message from an error, takes the empty message for a message, and never *)
(* clears the buffer it prints from.  The handshake and most of the parser *)
(* are the code of OldReceiver.                                            *)
(***************************************************************************)
EXTENDS OldReceiver

\* tcflush and initializeStateMachine.
FirstOpen ==
  /\ rPc = "closed" /\ rPc' = "opening"
  /\ rIn' = << >> /\ rOut' = << >> /\ current_ctrl' = 1
  /\ UNCHANGED << sIn, sOut, STOP, hs, dp, calls, printed >>

FirstHandshake ==
  /\ \/ Rx!Unrecognised("opening", SET)
     \/ Rx!Recognised("opening", SET, Supervision(SenderAddress, UA), "reading") /\ NewParser
  /\ UNCHANGED calls

\* DISC is a control byte like any other.
FirstWaitControl(b) ==
  /\ dp.st = 2
  /\ \/ b = I(current_ctrl) /\ Rx!Step([ dp EXCEPT !.st = 3, !.t2 = b ])
     \/ b = SenderAddress /\ Rx!Goto(2)

FirstParsing ==
  /\ rPc = "reading"
  /\ \E b \in Rx!Input :
       \/ Rx!WaitFlag(b) \/ WaitAddress(b) \/ FirstWaitControl(b) \/ WaitBcc1(b)
       \/ Collect(b) \/ Discard(b)
  /\ UNCHANGED calls

\* The second call of receive_data is the last thing main does.
FirstReturn ==
  /\ Rx!Consume(TRUE)
  /\ calls' = calls + 1
  /\ rPc' = IF calls' = Calls THEN "done" ELSE "reading"
  /\ NewParser
  /\ UNCHANGED << sIn, sOut, hs >>

FirstAccept ==
  /\ FrameEnds /\ dp.data # << >>
  /\ AnswerRR /\ PrintLine(Front(dp.data), Uncleared)
  /\ FirstReturn

\* The parser returns -1: a control byte it does not expect.
FirstReject ==
  /\ rPc = "reading" /\ dp.st = 2
  /\ Rx!Input \ {I(current_ctrl), SenderAddress} # {}
  /\ rOut' = rOut \o Supervision(ReceiverAddress, REJ(current_ctrl))
  /\ FirstReturn
  /\ UNCHANGED << current_ctrl, printed >>

FirstReceiverNext ==
  FirstOpen \/ FirstHandshake \/ FirstParsing \/ FirstAccept \/ FirstReject \/ Crash

=============================================================================
