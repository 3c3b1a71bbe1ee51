------------------------------ MODULE Receiver ------------------------------
(***************************************************************************)
(* The receiving program: the rx branch of application/main.c over         *)
(* r_llopen, llread and r_llclose of Work3/application.c, one byte of the  *)
(* serial line per step.                                                   *)
(*                                                                         *)
(* The global STOP says that a byte waits in buf.  Every parser returns    *)
(* with STOP still TRUE, so the next one starts on its own, uninitialised  *)
(* buf[0] instead of reading the line: that byte is any value of Garbage.  *)
(***************************************************************************)
EXTENDS Supervision, Framing, Wire

CONSTANT Garbage    \* the values uninitialised stack bytes may have

ASSUME GarbageAssumption == Garbage \subseteq Byte /\ Garbage # {}

VARIABLES
  rPc,             \* where the program is
  STOP,            \* a byte waits in buf
  hs,              \* STATE of the supervision automaton that is running
  dp,              \* the locals of r_receive_data_packet_
  current_ctrl,    \* state_machine.current_ctrl, the bit expected next
  accepted,        \* bodies (stuffed bytes and BCC2) copied to the caller
  output           \* what main has written to the file

receiver == << rPc, STOP, hs, dp, current_ctrl, accepted, output >>

\* st is STATE; mxor and toggle are moving_xor and toggle; data the bytes
\* collected so far; t2 is temporary[2], uninitialised until a control byte
\* of an information frame is stored there.
Parser(t2) == [ st |-> 0, mxor |-> Seed, toggle |-> 0, data |-> << >>, t2 |-> t2 ]

\* In states 4, 10 and 11 of the parser a whole header has been read.
ParserStates == {0, 1, 2, 3, 4, 10, 11}

ReceiverTypeOK ==
  /\ rPc \in {"closed", "opening", "reading", "closing", "awaitUA", "done", "crashed"}
  /\ STOP \in BOOLEAN
  /\ hs \in Hunting
  /\ dp \in [ st : ParserStates, mxor : Byte, toggle : {0, 1}, data : Seq(Byte), t2 : Byte ]
  /\ current_ctrl \in {0, 1}
  /\ accepted \in Seq(Seq(Byte))

ReceiverInit ==
  /\ rPc = "closed" /\ STOP = FALSE /\ hs = "S" /\ dp = Parser(0)
  /\ current_ctrl = 0 /\ accepted = << >> /\ output = << >>

-----------------------------------------------------------------------------
\* The byte the running parser looks at next: the one left in buf, or the
\* next one of the line; none when read blocks.
Input == IF STOP THEN Garbage ELSE IF rIn = << >> THEN {} ELSE { Head(rIn) }

\* The byte is used up; the parser reads on, or returns with STOP TRUE.
Consume(returns) ==
  /\ rIn' = IF STOP THEN rIn ELSE Tail(rIn)
  /\ STOP' = returns

NewParser == \E t2 \in Garbage : dp' = Parser(t2)

\* r_llopen: tcflush discards what has already arrived.
r_llopen ==
  /\ rPc = "closed" /\ rPc' = "opening"
  /\ rIn' = << >> /\ rOut' = << >>
  /\ current_ctrl' = 0
  /\ UNCHANGED << sIn, sOut, STOP, hs, dp, accepted, output >>

\* One byte through the automaton that waits for a supervision frame in pc.
Unrecognised(pc, control) ==
  /\ rPc = pc
  /\ \E b \in Input :
       /\ hs' = r_Recognise(hs, b, control) /\ hs' # "Z"
       /\ Consume(FALSE)
  /\ UNCHANGED << sIn, sOut, rOut, rPc, dp, current_ctrl, accepted, output >>

\* The last byte of that frame: the answer is written, the function returns.
Recognised(pc, control, answer, next) ==
  /\ rPc = pc /\ rPc' = next
  /\ \E b \in Input :
       /\ r_Recognise(hs, b, control) = "Z"
       /\ Consume(TRUE)
  /\ hs' = "S"
  /\ rOut' = rOut \o answer
  /\ UNCHANGED << sIn, sOut, current_ctrl, accepted, output >>

r_handshake ==
  \/ Unrecognised("opening", SET)
  \/ Recognised("opening", SET, Supervision(SenderAddress, UA), "reading") /\ NewParser

r_disconnect ==
  \/ Unrecognised("closing", DISC)
  \/ Recognised("closing", DISC, Supervision(ReceiverAddress, DISC), "awaitUA")
       /\ UNCHANGED dp

r_verify_if_ua_received ==
  \/ Unrecognised("awaitUA", UA)
  \/ Recognised("awaitUA", UA, << >>, "done") /\ UNCHANGED dp

-----------------------------------------------------------------------------
\* r_receive_data_packet_, state by state.  Step: the byte moves the parser on.
Step(next) ==
  /\ dp' = next /\ Consume(FALSE)
  /\ UNCHANGED << sIn, sOut, rOut, rPc, hs, current_ctrl, accepted, output >>

Goto(st) == Step([ dp EXCEPT !.st = st ])

WaitFlag(b) == dp.st = 0 /\ Goto(IF b = FLAG THEN 1 ELSE 0)

WaitAddress(b) ==
  dp.st = 1 /\ Goto(CASE b = SenderAddress -> 2 [] b = FLAG -> 1 [] OTHER -> 0)

WaitControl(b) ==
  /\ dp.st = 2
  /\ \/ b = DISC /\ Goto(10)
     \/ b = I(current_ctrl) /\ Step([ dp EXCEPT !.st = 3, !.t2 = b ])
     \/ b = SenderAddress /\ Goto(2)

WaitBcc1(b) ==
  /\ dp.st = 3
  /\ Goto(CASE b = Xor(SenderAddress, I(current_ctrl)) -> 4
            [] b = I(current_ctrl) -> 3
            [] OTHER -> 0)

\* Variant: toggle is not reset.
CollectSticky(b) ==
  /\ dp.st = 4 /\ b # FLAG
  /\ Step([ dp EXCEPT !.data = Append(@, b), !.mxor = Xor(b, @),
                      !.toggle = IF b = dp.mxor THEN 1 ELSE @ ])

\* A data byte: toggle says that it equals the xor of all before it, that is,
\* that it could be BCC2.
Collect(b) ==
  /\ dp.st = 4 /\ b # FLAG
  /\ Step([ dp EXCEPT !.data = Append(@, b), !.mxor = Xor(b, @),
                      !.toggle = IF b = dp.mxor THEN 1 ELSE 0 ])

\* A flag while BCC2 does not fit: start over, without any answer.
Discard(b) == dp.st = 4 /\ b = FLAG /\ dp.toggle = 0 /\ Step(Parser(0))

\* buf[0] == temporary[1]^temporary[2] parses as (buf[0] == 1) ^ temporary[2].
WaitDiscBcc(b) ==
  /\ dp.st = 10
  /\ LET equal == IF b = SenderAddress THEN 1 ELSE 0 IN
     IF dp.t2 # equal THEN Goto(11) ELSE Step([ dp EXCEPT !.st = 0, !.t2 = 0 ])

WaitDiscFlag(b) == dp.st = 11 /\ b # FLAG /\ Goto(0)

Parsing ==
  /\ rPc = "reading"
  /\ \E b \in Input :
       \/ WaitFlag(b) \/ WaitAddress(b) \/ WaitControl(b) \/ WaitBcc1(b)
       \/ Collect(b) \/ Discard(b) \/ WaitDiscBcc(b) \/ WaitDiscFlag(b)

\* Variant: the bit is toggled before the answer is written.
AnswerNext == rOut' = rOut \o Supervision(ReceiverAddress, RR(1 - current_ctrl))

\* r_receive_data answers every return of the parser with RR.
AnswerRR == rOut' = rOut \o Supervision(ReceiverAddress, RR(current_ctrl))

\* Variant: the bit is set and never cleared.
SetCtrl == current_ctrl' = 1

ToggleCtrl == current_ctrl' = 1 - current_ctrl

\* The parser returns a length: the body is destuffed, the bit toggled and the
\* application writes the chunk of a payload that starts with 1, or calls llclose
\* when it starts with 0.
Accept ==
  /\ rPc = "reading" /\ dp.st = 4 /\ dp.toggle = 1
  /\ FLAG \in Input /\ Consume(TRUE)
  /\ AnswerRR
  /\ accepted' = Append(accepted, dp.data)
  /\ ToggleCtrl
  /\ LET payload  == r_ByteStuffing(dp.data)
         first(b) == payload # << >> /\ payload[1] = b
     IN  /\ output' = IF first(1) THEN output \o Tail(payload) ELSE output
         /\ IF first(0) THEN rPc' = "closing" /\ UNCHANGED dp
                        ELSE rPc' = "reading" /\ NewParser
  /\ UNCHANGED << sIn, sOut, hs >>

\* Variant: the process survives.
SurviveCrash ==
  /\ rPc = "reading"
  /\ \E b \in Input :
       \/ dp.st = 2 /\ b \notin {DISC, I(current_ctrl), SenderAddress}
       \/ dp.st = 11 /\ b = FLAG
  /\ Consume(TRUE) /\ AnswerRR /\ NewParser
  /\ UNCHANGED << sIn, sOut, rPc, hs, current_ctrl, accepted, output >>

\* The parser returns -1 (a control byte it does not expect) or -2 (DISC).
\* r_receive_data takes both for a length: after the RR, r_ByteStuffing copies
\* a negative number of bytes and the process dies.
Crash ==
  /\ rPc = "reading" /\ rPc' = "crashed"
  /\ \E b \in Input :
       \/ dp.st = 2 /\ b \notin {DISC, I(current_ctrl), SenderAddress}
       \/ dp.st = 11 /\ b = FLAG
  /\ Consume(TRUE)
  /\ AnswerRR
  /\ UNCHANGED << sIn, sOut, hs, dp, current_ctrl, accepted, output >>

ReceiverNext ==
  \/ r_llopen \/ r_handshake \/ Parsing \/ Accept \/ Crash
  \/ r_disconnect \/ r_verify_if_ua_received

\* The program has ended; it has ended or waits in read.
ReceiverEnded == rPc \in {"done", "crashed"}
ReceiverIdle  == ReceiverEnded \/ (rPc # "closed" /\ ~STOP /\ rIn = << >>)

=============================================================================
