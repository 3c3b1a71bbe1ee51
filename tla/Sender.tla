------------------------------- MODULE Sender -------------------------------
(***************************************************************************)
(* The transmitting program: the tx branch of application/main.c over      *)
(* s_llopen, llwrite and s_llclose of Work3/application.c, one byte of the *)
(* serial line, or one return of select, per step.                         *)
(***************************************************************************)
EXTENDS Supervision, Framing, Wire

CONSTANTS
  File,        \* the chunks main reads from the file, in order
  NumTries     \* linkLayer.numTries, number_of_retransmissions

ASSUME SenderAssumption == File \in Seq(Seq(Byte) \ {<< >>}) /\ NumTries \in Nat

VARIABLES
  sPc,             \* where the program is
  s_ctrl,          \* sequence bit of the frame that is sent
  sHs,             \* state of s_handshake
  ans,             \* the locals of s_receive
  timeout_count,
  expired,         \* select has used up the whole of struct timeval timeout
  msg,             \* which message llwrite is sending
  acked            \* how many llwrite calls have reported success

sender == << sPc, s_ctrl, sHs, ans, timeout_count, expired, msg, acked >>

VMIN == 5     \* newtio.c_cc[VMIN]: select reports fewer bytes as nothing

\* The payloads main hands to llwrite: 1 and a chunk of the file, then 0.
Message(i) == IF i <= Len(File) THEN << 1 >> \o File[i] ELSE << 0 >>

\* st is the state, flags is consecutive_flags, control the control byte read
\* last, get is ctrl_get.
Answer(bit) == [ st |-> "Start", flags |-> 0, control |-> 0, get |-> bit ]

SenderEnded == sPc \in {"success", "failure", "exited"}

SenderTypeOK ==
  /\ sPc \in {"closed", "handshake", "send", "select", "sleep", "answer", "close", "disc",
              "success", "failure", "exited"}
  /\ s_ctrl \in {0, 1}
  /\ sHs \in Hunting
  /\ ans \in [ st : {"Start", "Flag", "A", "C", "BCC"}, flags : {0, 1},
               control : Byte, get : {0, 1} ]
  /\ timeout_count \in 0 .. NumTries
  /\ expired \in BOOLEAN
  /\ msg \in 1 .. Len(File) + 1
  /\ acked \in 0 .. Len(File) + 1

SenderInit ==
  /\ sPc = "closed" /\ s_ctrl = 0 /\ sHs = "S" /\ ans = Answer(0)
  /\ timeout_count = 0 /\ expired = FALSE
  /\ msg = 1 /\ acked = 0

-----------------------------------------------------------------------------
\* s_llopen: tcflush, then SET is written once; s_handshake waits for UA.
s_llopen ==
  /\ sPc = "closed" /\ sPc' = "handshake"
  /\ sIn' = << >> /\ sOut' = Supervision(SenderAddress, SET)
  /\ UNCHANGED << rIn, rOut, s_ctrl, sHs, ans, timeout_count, expired, msg, acked >>

s_handshake ==
  /\ sPc = "handshake" /\ sIn # << >>
  /\ sIn' = Tail(sIn)
  /\ LET h == s_Recognise(sHs, Head(sIn), UA)
     IN  IF h = "Z" THEN sPc' = "send" /\ UNCHANGED sHs
                    ELSE sHs' = h /\ UNCHANGED sPc
  /\ UNCHANGED << sOut, rIn, rOut, s_ctrl, ans, timeout_count, expired, msg, acked >>

\* Send0_State of s_send_msg: s_send_data.
s_send_data ==
  /\ sPc = "send" /\ sPc' = "select"
  /\ sOut' = sOut \o DataFrame(Message(msg), s_ctrl)
  /\ UNCHANGED << sIn, rIn, rOut, s_ctrl, sHs, ans, timeout_count, expired, msg, acked >>

\* Variant: main does not stop after the end message.
WritesOn(ok) ==
  /\ acked' = IF ok THEN acked + 1 ELSE acked
  /\ IF ok THEN msg' = msg + 1 /\ sPc' = "send" /\ timeout_count' = 0 /\ expired' = FALSE
           ELSE sPc' = "close" /\ UNCHANGED << msg, timeout_count, expired >>

\* llwrite returns to main.  After a success main reads the next chunk; after
\* a failure, and after the end message whatever happened to it, it closes.
LlwriteReturns(ok) ==
  /\ acked' = IF ok THEN acked + 1 ELSE acked
  /\ IF ok /\ msg <= Len(File)
     THEN /\ msg' = msg + 1 /\ sPc' = "send"
          /\ timeout_count' = 0 /\ expired' = FALSE
     ELSE sPc' = "close" /\ UNCHANGED << msg, timeout_count, expired >>

\* ACK0_State.  The number of timeouts is looked at after select and before
\* its result, so the last answer is never read.
GiveUp ==
  /\ timeout_count = NumTries
  /\ LlwriteReturns(FALSE)
  /\ UNCHANGED << sIn, sOut, rIn, rOut, s_ctrl, sHs, ans >>

\* Variant: llwrite returns without an answer.
NoWait ==
  /\ sPc = "select" /\ LlwriteReturns(TRUE) /\ s_ctrl' = 1 - s_ctrl
  /\ UNCHANGED << wire, sHs, ans >>

SelectReady ==
  /\ sPc = "select" /\ Len(sIn) >= VMIN
  /\ \/ GiveUp
     \/ /\ timeout_count < NumTries
        /\ sPc' = "answer" /\ ans' = Answer(s_ctrl)
        /\ UNCHANGED << wire, s_ctrl, sHs, timeout_count, expired, msg, acked >>

\* Variant: the result 0 of select is taken for an answer.
ReadAnyway ==
  /\ sPc = "select" /\ Len(sIn) < VMIN
  /\ \/ GiveUp
     \/ /\ timeout_count < NumTries
        /\ sPc' = "answer" /\ ans' = Answer(s_ctrl)
        /\ UNCHANGED << wire, s_ctrl, sHs, timeout_count, expired, msg, acked >>

\* select returns 0 and the program sleeps for a second before it sends again.
\* Linux leaves the time that remains in timeout, so from here on every select
\* of this llwrite returns at once.
SelectTimeout ==
  /\ sPc = "select" /\ Len(sIn) < VMIN
  /\ \/ GiveUp
     \/ /\ timeout_count < NumTries
        /\ sPc' = "sleep" /\ timeout_count' = timeout_count + 1 /\ expired' = TRUE
        /\ UNCHANGED << wire, s_ctrl, sHs, ans, msg, acked >>

Sleep ==
  /\ sPc = "sleep" /\ sPc' = "send"
  /\ UNCHANGED << wire, s_ctrl, sHs, ans, timeout_count, expired, msg, acked >>

\* s_disconnect writes DISC once and waits for an answer in s_receive.
s_disconnect ==
  /\ sPc = "close" /\ sPc' = "disc"
  /\ sOut' = sOut \o Supervision(SenderAddress, DISC)
  /\ ans' = Answer(s_ctrl)
  /\ UNCHANGED << sIn, rIn, rOut, s_ctrl, sHs, timeout_count, expired, msg, acked >>

-----------------------------------------------------------------------------
\* s_receive, one byte per step, called by s_send_msg and by s_disconnect.
Receiving == sPc \in {"answer", "disc"} /\ sIn # << >>

AnswerControls == {RR(0), RR(1), REJ(0), REJ(1), UA, DISC}

\* ctrl_get after the control byte c.
Get(c) == CASE c \in {RR(1), REJ(1)} -> 1 [] c \in {RR(0), REJ(0)} -> 0 [] OTHER -> ans.get

IsRR0(c)  == c = RR(0)     \* variant: RR of the other bit forgotten
IsRR(c)   == c \in {RR(0), RR(1)}
AnyValid(c) == c # -1      \* variant: any answer to DISC is enough
IsDisc(c) == c = DISC

\* The outcome of s_llclose.
CloseFails(c)  == "failure"     \* variant: the result of s_disconnect is lost
CloseResult(c) == IF IsDisc(c) THEN "success" ELSE "failure"

\* What s_receive returns to its caller, the control byte or -1: s_send_msg
\* accepts an RR and otherwise sends again, s_disconnect wants DISC and writes
\* the final UA.
Return(c) ==
  IF sPc = "answer"
  THEN /\ IF IsRR(c)
          THEN LlwriteReturns(TRUE)
          ELSE sPc' = "send" /\ UNCHANGED << msg, acked, timeout_count, expired >>
       /\ UNCHANGED sOut
  ELSE /\ sPc' = CloseResult(c)
       /\ sOut' = IF IsDisc(c) THEN sOut \o Supervision(SenderAddress, UA) ELSE sOut
       /\ UNCHANGED << msg, acked, timeout_count, expired >>

SecondFlag(b) == b = FLAG /\ ans.flags = 1

AnswerByte ==
  /\ Receiving /\ sIn' = Tail(sIn)
  /\ LET b == Head(sIn)
         next == CASE ans.st = "Start" -> IF b = FLAG THEN "Flag" ELSE "Start"
                   [] ans.st = "Flag"  -> IF b = ReceiverAddress THEN "A" ELSE "Start"
                   [] ans.st = "A"     -> IF b = FLAG THEN "Flag" ELSE "C"
                   [] ans.st = "C"     -> IF b = Xor(ReceiverAddress, ans.control)
                                          THEN "BCC" ELSE "Start"
                   [] ans.st = "BCC"   -> "Start"
         read == ans.st = "A" /\ b # FLAG
     IN  /\ ~SecondFlag(b)
         /\ ans.st = "A" => b \in AnswerControls \cup {FLAG}
         /\ ans.st = "BCC" => b # FLAG
         /\ ans' = [ st |-> next, flags |-> IF b = FLAG THEN 1 ELSE 0,
                     control |-> IF read THEN b ELSE ans.control,
                     get |-> IF read THEN Get(b) ELSE ans.get ]
  /\ UNCHANGED << sOut, rIn, rOut, sPc, s_ctrl, sHs, timeout_count, expired, msg, acked >>

\* Two flags in a row end the call with -1.
TwoFlags ==
  /\ Receiving /\ SecondFlag(Head(sIn))
  /\ sIn' = Tail(sIn) /\ Return(-1)
  /\ UNCHANGED << rIn, rOut, s_ctrl, sHs, ans >>

\* A control byte of no answer ends the whole process.
UnknownControl ==
  /\ Receiving /\ ans.st = "A"
  /\ Head(sIn) \notin AnswerControls \cup {FLAG}
  /\ sPc' = "exited" /\ sIn' = Tail(sIn)
  /\ UNCHANGED << sOut, rIn, rOut, s_ctrl, sHs, ans, timeout_count, expired, msg, acked >>

\* The closing flag.  A bit other than s_ctrl is an error; otherwise s_ctrl is
\* toggled, whatever kind of frame it is.
AnswerEnd ==
  /\ Receiving /\ ans.st = "BCC" /\ Head(sIn) = FLAG
  /\ sIn' = Tail(sIn)
  /\ IF ans.get = s_ctrl THEN s_ctrl' = 1 - s_ctrl /\ Return(ans.control)
                         ELSE s_ctrl' = s_ctrl /\ Return(-1)
  /\ UNCHANGED << rIn, rOut, sHs, ans >>

s_receive == AnswerByte \/ TwoFlags \/ UnknownControl \/ AnswerEnd

SenderNext ==
  \/ s_llopen \/ s_handshake \/ s_send_data \/ SelectReady \/ SelectTimeout
  \/ Sleep \/ s_disconnect \/ s_receive

=============================================================================
