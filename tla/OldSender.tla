----------------------------- MODULE OldSender -----------------------------
(***************************************************************************)
(* The transmitter that application.c grew out of, a program of its own    *)
(* (Work3/writenoncanonical.c): main sends its messages one after the      *)
(* other, each as often as it takes, and disconnects.  Connecting and      *)
(* s_receive are the code that Sender models.                              *)
(***************************************************************************)
EXTENDS Framing, Wire

CONSTANT Messages     \* the strings of main

\* s_byte_stuffing (its escape is 27) leaves strings like those of main alone.
ASSUME MessagesAssumption ==
  Messages \in Seq(Seq(Byte \ {FLAG, 27, 0}) \ {<< >>}) /\ Messages # << >>

VARIABLES
  sPc,        \* as in Sender
  s_ctrl,
  sHs,
  ans,
  expired,    \* the struct timeval of s_send_msg is used up
  msg         \* which message s_send_msg is sending

sender == << sPc, s_ctrl, sHs, ans, expired, msg >>

Tx == INSTANCE Sender WITH File <- Messages, NumTries <- 0, timeout_count <- 0, acked <- msg

SenderEnded == Tx!SenderEnded

SenderInit ==
  /\ sPc = "closed" /\ s_ctrl = 0 /\ sHs = "S" /\ ans = Tx!Answer(0)
  /\ expired = FALSE /\ msg = 1

Connect == Tx!s_llopen \/ Tx!s_handshake

-----------------------------------------------------------------------------
Frame(m, bit) ==
  << FLAG, SenderAddress, I(bit), Xor(SenderAddress, I(bit)) >> \o m \o << Bcc2(m), FLAG >>

s_send_data ==
  /\ sPc = "send" /\ sPc' = "select"
  /\ sOut' = sOut \o Frame(Messages[msg], s_ctrl)
  /\ UNCHANGED << sIn, rIn, rOut, s_ctrl, sHs, ans, expired, msg >>

\* ACK0_State; nothing counts the timeouts.
SelectReady ==
  /\ sPc = "select" /\ Len(sIn) >= Tx!VMIN
  /\ sPc' = "answer" /\ ans' = Tx!Answer(s_ctrl)
  /\ UNCHANGED << wire, s_ctrl, sHs, expired, msg >>

SelectTimeout ==
  /\ sPc = "select" /\ Len(sIn) < Tx!VMIN
  /\ sPc' = "sleep" /\ expired' = TRUE
  /\ UNCHANGED << wire, s_ctrl, sHs, ans, msg >>

Sleep == Tx!Sleep

s_disconnect == Tx!s_disconnect

IsRR(c) == c \in {RR(0), RR(1)}

IsDisc(c) == c = DISC

\* s_receive returns c, or -1: to s_send_msg, which sends the message again
\* unless c is an RR, or to s_disconnect, whose result main does not look at.
Return(c) ==
  IF sPc = "answer"
  THEN /\ IF IsRR(c)
          THEN msg' = msg + 1 /\ expired' = FALSE /\ sPc' = IF msg = Len(Messages) THEN "close" ELSE "send"
          ELSE sPc' = "send" /\ UNCHANGED << msg, expired >>
       /\ UNCHANGED sOut
  ELSE /\ sPc' = IF IsDisc(c) THEN "success" ELSE "failure"
       /\ sOut' = IF IsDisc(c) THEN sOut \o Supervision(SenderAddress, UA) ELSE sOut
       /\ UNCHANGED << msg, expired >>

TwoFlags ==
  /\ Tx!Receiving /\ Tx!SecondFlag(Head(sIn))
  /\ sIn' = Tail(sIn) /\ Return(-1)
  /\ UNCHANGED << rIn, rOut, s_ctrl, sHs, ans >>

AnswerEnd ==
  /\ Tx!Receiving /\ ans.st = "BCC" /\ Head(sIn) = FLAG
  /\ sIn' = Tail(sIn)
  /\ IF ans.get = s_ctrl THEN s_ctrl' = 1 - s_ctrl /\ Return(ans.control)
                         ELSE s_ctrl' = s_ctrl /\ Return(-1)
  /\ UNCHANGED << rIn, rOut, sHs, ans >>

s_receive == Tx!AnswerByte \/ TwoFlags \/ Tx!UnknownControl \/ AnswerEnd

=============================================================================
