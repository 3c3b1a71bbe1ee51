---------------------------- MODULE FirstSender ----------------------------
(***************************************************************************)
(* The transmitter as it was first written (Work3/writenoncanonical.c of   *)
(* the nested copy): main sends two messages under the bits 1 and 0, each  *)
(* until receive_rr returns 0, and ends.  There is no select: a frame or   *)
(* an answer that gets lost is waited for without end.  The handshake and  *)
(* the frame are the code that OldSender models.                           *)
(***************************************************************************)
EXTENDS OldSender

\* Variant: both messages are sent under the bit 1.
SameBit(m) == 1

\* The argument ctrl of send_data for the message that main is sending.
MessageBit(m) == IF m = 1 THEN 1 ELSE 0

\* handshake, the same code.
FirstConnect == Connect

FirstSendData ==
  /\ sPc = "send" /\ sPc' = "answer"
  /\ sOut' = sOut \o Frame(Messages[msg], MessageBit(msg))
  /\ ans' = Tx!Answer(0)
  /\ UNCHANGED << sIn, rIn, rOut, s_ctrl, sHs, expired, msg >>

-----------------------------------------------------------------------------
\* receive_rr, one byte per step.  It ends where RrEnds holds of the byte.
TwoFlagsInARow(b) == Tx!SecondFlag(b)
NoRr(b)           == ans.st = "A" /\ b \notin {RR(0), RR(1)}
RrComplete(b)     == ans.st = "BCC" /\ b = FLAG /\ ~TwoFlagsInARow(b)

RrEnds(b) == TwoFlagsInARow(b) \/ NoRr(b) \/ RrComplete(b)

RrByte ==
  /\ Tx!Receiving /\ ~RrEnds(Head(sIn))
  /\ sIn' = Tail(sIn)
  /\ LET b == Head(sIn)
         bcc == Xor(ReceiverAddress, ans.control)
         next == CASE ans.st = "Start" /\ b = FLAG           -> "Flag"
                   [] ans.st = "Flag" /\ b = ReceiverAddress -> "A"
                   [] ans.st = "A"                           -> "C"
                   [] ans.st = "C" /\ b = bcc                -> "BCC"
                   [] OTHER                                  -> "Start"
     IN  ans' = [ ans EXCEPT !.st = next, !.flags = IF b = FLAG THEN 1 ELSE 0,
                             !.control = IF ans.st = "A" THEN b ELSE @ ]
  /\ UNCHANGED << sOut, rIn, rOut, sPc, s_ctrl, sHs, expired, msg >>

\* receive_rr returns 0: after an RR it has written an empty information frame
\* of the bit 0; after two flags in a row it has not.  The bit of the RR is not
\* looked at, and neither is what came before the two flags.
RrReceived ==
  /\ Tx!Receiving
  /\ \/ RrComplete(Head(sIn)) /\ sOut' = sOut \o Supervision(SenderAddress, I(0))
     \/ TwoFlagsInARow(Head(sIn)) /\ UNCHANGED sOut
  /\ sIn' = Tail(sIn)
  /\ IF msg < Len(Messages) THEN msg' = msg + 1 /\ sPc' = "send"
                            ELSE sPc' = "success" /\ UNCHANGED msg
  /\ UNCHANGED << rIn, rOut, s_ctrl, sHs, ans, expired >>

\* receive_rr returns 1 in the middle of the answer: main sends again, and the
\* next call starts on what is left of it.
NoRrReceived ==
  /\ Tx!Receiving /\ NoRr(Head(sIn))
  /\ sIn' = Tail(sIn) /\ sPc' = "send"
  /\ UNCHANGED << sOut, rIn, rOut, s_ctrl, sHs, ans, expired, msg >>

FirstSenderNext == FirstConnect \/ FirstSendData \/ RrByte \/ RrReceived \/ NoRrReceived

=============================================================================
