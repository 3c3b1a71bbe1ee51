--------------------------- MODULE Delivery_proofs ---------------------------
(***************************************************************************)
(* Proofs about one information frame on a line that is not disturbed, for *)
(* every payload and everything the uninitialised buffers may hold.        *)
(***************************************************************************)
EXTENDS Delivery, ReceiverLemmas

\* The parser is on its way through the frame.
Before ==
  /\ accepted = << >> /\ output = << >> /\ rOut = << >> /\ current_ctrl = 0
  /\ \E k \in 1 .. End(payload) + 1 :
       Parses(payload, k) /\ rIn = Rest(DataFrame(payload, 0), k)

\* The payload has been returned.
After ==
  /\ ~Lost(payload) /\ rIn = << >>
  /\ accepted = << Sealed(payload) >>
  /\ rOut = Supervision(ReceiverAddress, RR(0))
  /\ output = IF payload[1] = 1 THEN Tail(payload) ELSE << >>
  /\ IF payload[1] = 0 THEN rPc = "closing" ELSE Ready

IInv == PortTypeOK /\ payload \in Payloads /\ (Before \/ After)

\* The parser starts before the first byte.
LEMMA InitInv == Init => IInv
<1> SUFFICES ASSUME Init PROVE IInv
  OBVIOUS
<1>1. payload \in Seq(Byte) /\ 0 \in {0, 1}
  BY PayloadsAssumption DEF Init
<1>2. DataFrame(payload, 0) \in Seq(Byte) /\ End(payload) \in Nat
  BY <1>1, FrameBytes, SealedBytes DEF End
<1>3. PICK t2 \in Garbage : dp = Parser(t2)
  BY DEF Init
<1>4. dp \in DataParser
  BY <1>3, ParserType, GarbageAssumption
<1>5. << >> \in Seq(Byte) /\ << >> \in Seq(Seq(Byte)) /\ "S" \in Hunting
  BY DEF Hunting
<1>6. WireTypeOK
  BY <1>2, <1>5 DEF Init, WireTypeOK
<1>7. PortTypeOK
  BY <1>4, <1>5, <1>6 DEF Init, PortTypeOK, ReceiverTypeOK, DataParser
<1>8. Ready
  BY <1>3 DEF Init, Ready, Blank, Parser
<1>9. Parses(payload, 1) /\ rIn = Rest(DataFrame(payload, 0), 1)
  BY <1>2, <1>8, RestAll DEF Init, Parses
<1> QED
  BY <1>2, <1>7, <1>9 DEF IInv, Before, Init

\* Each byte takes it to the next place, and the last one to its caller.
LEMMA InvStep == IInv /\ [Next]_vars => IInv'
<1> SUFFICES ASSUME IInv, [Next]_vars PROVE IInv'
  OBVIOUS
<1>1. PortTypeOK /\ payload \in Payloads /\ payload \in Seq(Byte) /\ payload # << >>
  BY PayloadsAssumption DEF IInv
<1>0. PICK p \in Seq(Byte) : p = payload
  BY <1>1
<1> DEFINE frame == DataFrame(p, 0)
<1>2. /\ frame \in Seq(Byte) /\ Len(frame) = End(p) /\ End(p) \in Nat \ {0}
      /\ frame = DataFrame(payload, 0) /\ p # << >>
  <2>1. 0 \in {0, 1}
    OBVIOUS
  <2> QED
    BY <1>0, <1>1, <2>1, FrameBytes, SealedBytes DEF End
<1>3. CASE UNCHANGED vars
  BY <1>3
  DEF vars, wire, receiver, IInv, PortTypeOK, WireTypeOK, ReceiverTypeOK, Before, After,
      Parses, Ready, Blank, Collecting, Dropped
<1>4. CASE Next
  <2>1. Reads /\ payload' = payload /\ payload' = p
    BY <1>0, <1>4 DEF Next, Reads
  <2>2. PortTypeOK'
    BY <1>1, <2>1, ReceiverTypes DEF Reads, ReceiverNext
  <2>3. rPc = "reading"
    BY <2>1 DEF Reads, Parsing, Accept, Crash
  <2>4. CASE Before /\ ~STOP
    <3>1. /\ accepted = << >> /\ output = << >> /\ rOut = << >> /\ current_ctrl = 0
          /\ \E k \in 1 .. End(p) + 1 : Parses(p, k) /\ rIn = Rest(frame, k)
      BY <1>0, <2>4 DEF Before, frame
    <3>2. PICK k \in 1 .. End(p) + 1 : Parses(p, k) /\ rIn = Rest(frame, k)
      BY <3>1
    <3>3. rIn # << >>
      BY <2>1, <2>4, Starved
    <3>4. /\ k \in 1 .. End(p) /\ Head(rIn) = frame[k]
          /\ Tail(rIn) = Rest(frame, k + 1)
      BY <1>2, <3>2, <3>3, RestStep
    <3>5. Head(rIn) = DataFrame(p, current_ctrl)[k]
      BY <3>1, <3>4 DEF frame
    <3>6. \/ Step(dp') /\ Parses(p, k + 1)'
          \/ k = End(p) /\ ~Lost(p) /\ Accept /\ dp.data = Sealed(p)
      BY <1>1, <2>1, <2>4, <3>2, <3>4, <3>5, FrameByte
    <3>7. CASE Step(dp') /\ Parses(p, k + 1)'
      <4>1. STOP = FALSE
        BY <2>4, <1>1 DEF PortTypeOK, ReceiverTypeOK
      <4>2. /\ rIn' = Rest(frame, k + 1)
            /\ UNCHANGED << accepted, output, rOut, current_ctrl >>
        BY <3>4, <3>7, <4>1, StepEffect
      <4>3. k + 1 \in 1 .. End(p) + 1
        BY <1>2, <3>4
      <4>4. \E j \in 1 .. End(p) + 1 : Parses(p, j)' /\ rIn' = Rest(frame, j)
        BY <3>7, <4>2, <4>3
      <4>5. Before'
        BY <2>1, <3>1, <4>2, <4>4 DEF Before, frame
      <4> QED
        BY <1>1, <2>1, <2>2, <4>5 DEF IInv
    <3>8. CASE k = End(p) /\ ~Lost(p) /\ Accept /\ dp.data = Sealed(p)
      <4>1. Rest(frame, k + 1) = << >>
        <5>1. k + 1 = Len(frame) + 1 /\ k + 1 \in 1 .. Len(frame) + 1
          BY <1>2, <3>8
        <5> QED
          BY <1>2, <5>1, RestStep
      <4>2. /\ rIn' = IF STOP THEN rIn ELSE Tail(rIn)
            /\ accepted' = Append(accepted, Sealed(p))
            /\ rOut' = rOut \o Supervision(ReceiverAddress, RR(current_ctrl))
            /\ output' = IF p[1] = 1 THEN output \o Tail(p) ELSE output
            /\ IF p[1] = 0 THEN rPc' = "closing" ELSE rPc' = "reading" /\ Ready'
        BY <1>2, <3>8, AcceptEffect
      <4>3. rIn' = << >>
        BY <2>4, <3>4, <4>1, <4>2
      <4>4. << >> \o Supervision(ReceiverAddress, RR(0)) = Supervision(ReceiverAddress, RR(0))
        BY AnswersType
      <4>5. << >> \o Tail(p) = Tail(p)
        BY <1>2
      <4>6. /\ accepted' = << Sealed(p) >>
            /\ rOut' = Supervision(ReceiverAddress, RR(0))
            /\ output' = IF p[1] = 1 THEN Tail(p) ELSE << >>
        BY <3>1, <4>2, <4>4, <4>5
      <4>7. After'
        BY <2>1, <3>8, <4>2, <4>3, <4>6 DEF After
      <4> QED
        BY <1>1, <2>1, <2>2, <4>7 DEF IInv
    <3> QED
      BY <3>6, <3>7, <3>8
  <2>5. CASE STOP
    <3>1. Ready
      <4>1. CASE Before
        BY <2>5, <4>1 DEF Before, Parses
      <4>2. CASE After
        BY <2>3, <4>2 DEF After
      <4> QED
        BY <4>1, <4>2 DEF IInv
    <3>2. Ready' /\ Step(dp')
      BY <1>1, <2>1, <2>5, <3>1, LeftOver
    <3>3. rIn' = rIn /\ UNCHANGED << rPc, accepted, output, rOut, current_ctrl >>
      BY <2>5, <3>2, StepEffect
    <3>4. CASE Before
      <4>1. /\ accepted = << >> /\ output = << >> /\ rOut = << >> /\ current_ctrl = 0
            /\ \E k \in 1 .. End(p) + 1 : Parses(p, k) /\ rIn = Rest(frame, k)
        BY <1>0, <3>4 DEF Before, frame
      <4>2. rIn = Rest(frame, 1) /\ 1 \in 1 .. End(p) + 1
        BY <1>2, <2>5, <4>1 DEF Parses
      <4>3. Parses(p, 1)'
        BY <3>2 DEF Parses
      <4>4. \E j \in 1 .. End(p) + 1 : Parses(p, j)' /\ rIn' = Rest(frame, j)
        BY <3>3, <4>2, <4>3
      <4>5. Before'
        BY <2>1, <3>3, <4>1, <4>4 DEF Before, frame
      <4> QED
        BY <1>1, <2>1, <2>2, <4>5 DEF IInv
    <3>5. CASE After
      BY <1>1, <2>1, <2>2, <2>3, <3>2, <3>3, <3>5 DEF IInv, After
    <3> QED
      BY <3>4, <3>5 DEF IInv
  <2>6. CASE After /\ ~STOP
    <3>1. rIn = << >>
      BY <2>6 DEF After
    <3> QED
      BY <2>1, <2>6, <3>1, Starved
  <2> QED
    BY <2>4, <2>5, <2>6 DEF IInv
<1> QED
  BY <1>3, <1>4

(***************************************************************************)
(* For every payload main may hand to llwrite, and every uninitialised     *)
(* byte: llread delivers it unless its check byte is a flag, and then it   *)
(* delivers nothing, answers nothing and does not die.                     *)
(***************************************************************************)
THEOREM DeliversExactlyUnflagged == Spec => []ExactlyUnflagged
<1>1. IInv => ExactlyUnflagged
  <2> SUFFICES ASSUME IInv, Quiet PROVE ExactlyUnflagged
    BY DEF ExactlyUnflagged
  <2>1. Body = s_ByteStuffing(payload) /\ payload \in Seq(Byte)
    BY PayloadsAssumption DEF Body, IInv
  <2>2. CASE Before
    <3>1. PICK k \in 1 .. End(payload) + 1 :
            Parses(payload, k) /\ rIn = Rest(DataFrame(payload, 0), k)
      BY <2>2 DEF Before
    <3>2. DataFrame(payload, 0) \in Seq(Byte) /\ Len(DataFrame(payload, 0)) = End(payload)
          /\ End(payload) \in Nat \ {0}
      BY <2>1, FrameBytes, SealedBytes DEF End
    <3>3. k = End(payload) + 1
      BY <3>1, <3>2, RestStep DEF Quiet
    <3>4. Lost(payload) /\ rPc = "reading"
      BY <3>1, <3>2, <3>3 DEF Parses
    <3> QED
      BY <2>1, <2>2, <3>4 DEF ExactlyUnflagged, Before, Lost
  <2>3. CASE After
    <3>1. Append(Body, Bcc2(Body)) = Sealed(payload)
      BY <2>1 DEF Sealed
    <3>2. Bcc2(Body) # FLAG
      BY <2>1, <2>3 DEF After, Lost
    <3>3. rPc = IF payload[1] = 0 THEN "closing" ELSE "reading"
      BY <2>3 DEF After, Ready
    <3> QED
      BY <2>3, <3>1, <3>2, <3>3 DEF ExactlyUnflagged, After
  <2> QED
    BY <2>2, <2>3 DEF IInv
<1> QED
  BY InitInv, InvStep, <1>1, PTL DEF Spec

=============================================================================
