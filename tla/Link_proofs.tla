----------------------------- MODULE Link_proofs -----------------------------
(***************************************************************************)
(* Proofs about the whole system of Link, for every file, every number of  *)
(* retransmissions and everything the cable may do: the types of its       *)
(* variables, and that no frame is reported as written which llread has    *)
(* not accepted, as long as the receiving process lives.                   *)
(***************************************************************************)
EXTENDS Link, ReceiverLemmas, FiniteSetTheorems, SequenceTheorems

\* The sender starts to write message msg when acked of them have returned.
MsgFollows ==
  sPc \in {"closed", "handshake", "send", "select", "sleep", "answer"} => msg = acked + 1

Types == TypeOK /\ MsgFollows

-----------------------------------------------------------------------------
\* The automaton of s_handshake stays among its states until it is done.
LEMMA SenderRecogniseType ==
  ASSUME NEW state \in Hunting, NEW byte, NEW control
  PROVE  s_Recognise(state, byte, control) \in Hunting \cup {"Z"}
<1>1. Advance(state) \in Hunting \cup {"Z"}
  BY DEF Advance, Hunting
<1>2. {"S", "F"} \subseteq Hunting
  BY DEF Hunting
<1> QED
  BY <1>1, <1>2 DEF s_Recognise

\* main hands bytes to llwrite.
LEMMA MessageType ==
  ASSUME NEW i \in Nat \ {0}
  PROVE  Message(i) \in Seq(Byte)
<1>1. {0, 1} \subseteq Byte
  BY DEF Byte
<1>2. << 0 >> \in Seq(Byte) /\ << 1 >> \in Seq(Byte)
  BY <1>1, Singles
<1>3. ASSUME i <= Len(File) PROVE File[i] \in Seq(Byte)
  BY <1>3, SenderAssumption
<1> QED
  BY <1>2, <1>3 DEF Message

\* What the sender writes is a sequence of bytes.
LEMMA FramesType ==
  /\ Supervision(SenderAddress, SET) \in Seq(Byte)
  /\ Supervision(SenderAddress, DISC) \in Seq(Byte)
  /\ Supervision(SenderAddress, UA) \in Seq(Byte)
  BY ControlBytes, SupervisionBytes

\* The locals of s_receive.
AnswerLocals == [ st : {"Start", "Flag", "A", "C", "BCC"}, flags : {0, 1},
                  control : Byte, get : {0, 1} ]

\* A call of s_receive starts with locals of their types.
LEMMA AnswerType == ASSUME NEW bit \in {0, 1} PROVE Answer(bit) \in AnswerLocals
<1>1. 0 \in Byte
  BY DEF Byte
<1> QED
  BY <1>1 DEF Answer, AnswerLocals

(***************************************************************************)
(* A byte of s_receive that ends nothing: where its locals go.             *)
(***************************************************************************)
LEMMA AnswerByteStep ==
  ASSUME ans \in AnswerLocals, Head(sIn) \in Byte, AnswerByte
  PROVE  /\ ans' \in AnswerLocals
         /\ ans.st = "A" /\ Head(sIn) # FLAG =>
              ans'.st = "C" /\ ans'.control = Head(sIn)
         /\ ~(ans.st = "A" /\ Head(sIn) # FLAG) => ans'.control = ans.control
         /\ ans'.st \in {"C", "BCC"} => ans.st = "C" \/ (ans.st = "A" /\ Head(sIn) # FLAG)
<1> DEFINE b == Head(sIn)
           next == CASE ans.st = "Start" -> IF b = FLAG THEN "Flag" ELSE "Start"
                     [] ans.st = "Flag"  -> IF b = ReceiverAddress THEN "A" ELSE "Start"
                     [] ans.st = "A"     -> IF b = FLAG THEN "Flag" ELSE "C"
                     [] ans.st = "C"     -> IF b = Xor(ReceiverAddress, ans.control)
                                            THEN "BCC" ELSE "Start"
                     [] ans.st = "BCC"   -> "Start"
           read == ans.st = "A" /\ b # FLAG
<1>1. PICK st : st = next
  OBVIOUS
<1>2. ans.st \in {"Start", "Flag", "A", "C", "BCC"} /\ ans.control \in Byte /\ ans.get \in {0, 1}
  BY DEF AnswerLocals
<1>3. /\ ans.st = "Start" => next \in {"Flag", "Start"}
      /\ ans.st = "Flag" => next \in {"A", "Start"}
      /\ ans.st = "A" => next = IF b = FLAG THEN "Flag" ELSE "C"
      /\ ans.st = "C" => next \in {"BCC", "Start"}
      /\ ans.st = "BCC" => next = "Start"
  OBVIOUS
<1>4. PICK flags \in {0, 1} : flags = IF b = FLAG THEN 1 ELSE 0
  OBVIOUS
<1>5. PICK control \in Byte : control = IF read THEN b ELSE ans.control
  BY <1>2
<1>6. Get(b) \in {0, 1}
  BY <1>2 DEF Get
<1>7. PICK get \in {0, 1} : get = IF read THEN Get(b) ELSE ans.get
  BY <1>2, <1>6
<1>8. ans' = [ st |-> st, flags |-> flags, control |-> control, get |-> get ]
  BY <1>1, <1>4, <1>5, <1>7, Zenon DEF AnswerByte
<1> HIDE DEF next
<1>9. st \in {"Start", "Flag", "A", "C", "BCC"}
  BY <1>1, <1>2, <1>3
<1>10. ans' \in AnswerLocals
  BY <1>8, <1>9 DEF AnswerLocals
<1>11. ans'.st = st /\ ans'.control = control
  BY <1>8
<1> QED
  BY <1>1, <1>2, <1>3, <1>5, <1>10, <1>11

(***************************************************************************)
(* What the cable hands over is a sequence of bytes, disturbed or not.     *)
(***************************************************************************)
LEMMA CarriedType ==
  ASSUME connection \in Modes, NEW chunk \in Seq(Byte), chunk # << >>
  PROVE  Carried(chunk) \in Seq(Byte)
<1>1. connection \in {"on", "off", "noise"}
  BY CableAssumption
<1>2. CASE connection = "noise"
  <2>1. 255 \in Byte /\ chunk[1] \in Byte
    <3>1. chunk[1] \in Byte
      OBVIOUS
    <3> QED
      BY <3>1 DEF Byte
  <2>2. PICK b \in Byte : b = Xor(chunk[1], 255)
    BY <2>1, XorByte
  <2>3. Carried(chunk) = [ chunk EXCEPT ![1] = b ]
    BY <1>2, <2>2, Zenon DEF Carried
  <2> QED
    BY <2>2, <2>3, ExceptSeq
<1>3. CASE connection = "on"
  BY <1>3 DEF Carried
<1>4. CASE connection = "off"
  BY <1>4 DEF Carried
<1> QED
  BY <1>1, <1>2, <1>3, <1>4

(***************************************************************************)
(* The return of llwrite to main leaves the variables in their types.      *)
(***************************************************************************)
LEMMA ReturnsTypes ==
  ASSUME Types, sPc \in {"select", "answer"}, NEW ok \in BOOLEAN, LlwriteReturns(ok)
  PROVE  /\ sPc' \in {"send", "close"}
         /\ acked' \in 0 .. Len(File) + 1 /\ msg' \in 1 .. Len(File) + 1
         /\ timeout_count' \in 0 .. NumTries /\ expired' \in BOOLEAN
         /\ sPc' = "send" => msg' = acked' + 1
<1>1. /\ Len(File) \in Nat /\ NumTries \in Nat
      /\ acked \in 0 .. Len(File) + 1 /\ msg \in 1 .. Len(File) + 1 /\ msg = acked + 1
      /\ timeout_count \in 0 .. NumTries /\ expired \in BOOLEAN
  BY SenderAssumption DEF Types, TypeOK, SenderTypeOK, MsgFollows
<1>2. CASE ok /\ msg <= Len(File)
  <2>1. /\ acked' = acked + 1 /\ msg' = msg + 1 /\ sPc' = "send"
        /\ timeout_count' = 0 /\ expired' = FALSE
    BY <1>2, Zenon DEF LlwriteReturns
  <2>2. expired' \in BOOLEAN
    BY <2>1, Zenon
  <2>3. /\ acked' \in 0 .. Len(File) + 1 /\ msg' \in 1 .. Len(File) + 1
        /\ timeout_count' \in 0 .. NumTries /\ msg' = acked' + 1
    BY <1>1, <1>2, <2>1
  <2> QED
    BY <2>1, <2>2, <2>3
<1>3. CASE ~(ok /\ msg <= Len(File))
  BY <1>1, <1>3 DEF LlwriteReturns
<1> QED
  BY <1>2, <1>3

-----------------------------------------------------------------------------
\* What a step of the sender leaves in its types.
SenderPortTypeOK == WireTypeOK /\ SenderTypeOK

(***************************************************************************)
(* Every step of the sender leaves the variables in their types, and main  *)
(* on the message that follows the last one that was written.              *)
(***************************************************************************)
LEMMA SenderTypes ==
  ASSUME Types, SenderNext
  PROVE  SenderPortTypeOK' /\ MsgFollows'
<1> USE DEF SenderPortTypeOK
<1>0. SenderPortTypeOK /\ ans \in AnswerLocals /\ MsgFollows /\ NumTries \in Nat
  BY SenderAssumption DEF Types, TypeOK, SenderTypeOK, AnswerLocals
<1>1. CASE s_llopen
  <2>1. << >> \in Seq(Byte)
    OBVIOUS
  <2> QED
    BY <1>0, <1>1, <2>1, FramesType DEF s_llopen, WireTypeOK, SenderTypeOK, MsgFollows
<1>2. CASE s_handshake
  <2>1. sIn' \in Seq(Byte)
    BY <1>0, <1>2 DEF s_handshake, WireTypeOK
  <2>2. sHs' \in Hunting /\ sPc' \in {"send", "handshake"}
    BY <1>0, <1>2, SenderRecogniseType DEF s_handshake, SenderTypeOK
  <2>3. UNCHANGED << sOut, rIn, rOut, s_ctrl, ans, timeout_count, expired, msg, acked >>
        /\ sPc = "handshake"
    BY <1>2 DEF s_handshake
  <2> QED
    BY <1>0, <2>1, <2>2, <2>3 DEF WireTypeOK, SenderTypeOK, MsgFollows
<1>3. CASE s_send_data
  <2>1. msg \in Nat \ {0} /\ s_ctrl \in {0, 1}
    BY <1>0, SenderAssumption DEF SenderTypeOK
  <2>2. sOut' \in Seq(Byte)
    BY <1>0, <1>3, <2>1, MessageType, DataFrameType DEF s_send_data, WireTypeOK
  <2> QED
    BY <1>0, <1>3, <2>2 DEF s_send_data, WireTypeOK, SenderTypeOK, MsgFollows
<1>4. ASSUME GiveUp, sPc = "select"
      PROVE  SenderPortTypeOK' /\ MsgFollows'
  <2>1. /\ sPc' \in {"send", "close"}
        /\ acked' \in 0 .. Len(File) + 1 /\ msg' \in 1 .. Len(File) + 1
        /\ timeout_count' \in 0 .. NumTries /\ expired' \in BOOLEAN
        /\ sPc' = "send" => msg' = acked' + 1
    BY <1>4, ReturnsTypes DEF GiveUp
  <2>2. UNCHANGED << sIn, sOut, rIn, rOut, s_ctrl, sHs, ans >>
    BY <1>4 DEF GiveUp
  <2> QED
    BY <1>0, <2>1, <2>2 DEF WireTypeOK, SenderTypeOK, MsgFollows
<1>5. CASE SelectReady
  <2>1. CASE GiveUp
    BY <1>4, <1>5, <2>1 DEF SelectReady
  <2>2. CASE ~GiveUp
    <3>1. /\ sPc = "select" /\ sPc' = "answer" /\ ans' = Answer(s_ctrl)
          /\ UNCHANGED << sIn, sOut, rIn, rOut, s_ctrl, sHs, timeout_count, expired, msg, acked >>
      BY <1>5, <2>2 DEF SelectReady, wire
    <3>2. ans' \in AnswerLocals
      BY <1>0, <3>1, AnswerType DEF SenderTypeOK
    <3> QED
      BY <1>0, <3>1, <3>2 DEF WireTypeOK, SenderTypeOK, AnswerLocals, MsgFollows
  <2> QED
    BY <2>1, <2>2
<1>6. CASE SelectTimeout
  <2>1. CASE GiveUp
    BY <1>4, <1>6, <2>1 DEF SelectTimeout
  <2>2. CASE ~GiveUp
    <3>1. /\ sPc = "select" /\ sPc' = "sleep" /\ timeout_count < NumTries
          /\ timeout_count' = timeout_count + 1 /\ expired' = TRUE
          /\ UNCHANGED << sIn, sOut, rIn, rOut, s_ctrl, sHs, ans, msg, acked >>
      BY <1>6, <2>2 DEF SelectTimeout, wire
    <3>2. expired' \in BOOLEAN
      BY <3>1, Zenon
    <3>3. timeout_count' \in 0 .. NumTries
      BY <1>0, <3>1 DEF SenderTypeOK
    <3> QED
      BY <1>0, <3>1, <3>2, <3>3 DEF WireTypeOK, SenderTypeOK, MsgFollows
  <2> QED
    BY <2>1, <2>2
<1>7. CASE Sleep
  BY <1>0, <1>7 DEF Sleep, wire, WireTypeOK, SenderTypeOK, MsgFollows
<1>8. CASE s_disconnect
  <2>1. ans' \in AnswerLocals
    BY <1>0, <1>8, AnswerType DEF s_disconnect, SenderTypeOK
  <2>2. sOut' \in Seq(Byte)
    BY <1>0, <1>8, FramesType DEF s_disconnect, WireTypeOK
  <2> QED
    BY <1>0, <1>8, <2>1, <2>2 DEF s_disconnect, WireTypeOK, SenderTypeOK, AnswerLocals, MsgFollows
<1>9. ASSUME Receiving, sIn' = Tail(sIn), UNCHANGED << rIn, rOut, sHs, ans >>, s_ctrl' \in {0, 1},
             NEW c, Return(c)
      PROVE  SenderPortTypeOK' /\ MsgFollows'
  <2>1. sIn' \in Seq(Byte)
    BY <1>0, <1>9 DEF Receiving, WireTypeOK
  <2>2. CASE sPc = "answer" /\ IsRR(c)
    <3>1. LlwriteReturns(TRUE) /\ sOut' = sOut
      BY <2>2, <1>9, Zenon DEF Return
    <3>2. /\ sPc' \in {"send", "close"}
          /\ acked' \in 0 .. Len(File) + 1 /\ msg' \in 1 .. Len(File) + 1
          /\ timeout_count' \in 0 .. NumTries /\ expired' \in BOOLEAN
          /\ sPc' = "send" => msg' = acked' + 1
      BY <2>2, <3>1, ReturnsTypes
    <3> QED
      BY <1>0, <1>9, <2>1, <3>1, <3>2 DEF WireTypeOK, SenderTypeOK, MsgFollows
  <2>3. CASE sPc = "answer" /\ ~IsRR(c)
    <3>1. /\ sOut' = sOut /\ sPc' = "send"
          /\ UNCHANGED << msg, acked, timeout_count, expired >>
      BY <2>3, <1>9, Zenon DEF Return
    <3> QED
      BY <1>0, <1>9, <2>1, <2>3, <3>1 DEF WireTypeOK, SenderTypeOK, MsgFollows
  <2>4. CASE sPc = "disc"
    <3>1. /\ sPc' \in {"success", "failure"}
          /\ UNCHANGED << msg, acked, timeout_count, expired >>
      BY <2>4, <1>9 DEF Return, CloseResult
    <3>2. sOut' \in Seq(Byte)
      <4>1. sOut' = IF IsDisc(c) THEN sOut \o Supervision(SenderAddress, UA) ELSE sOut
        BY <2>4, <1>9, Zenon DEF Return
      <4>2. sOut \in Seq(Byte)
        BY <1>0 DEF WireTypeOK
      <4>3. sOut \o Supervision(SenderAddress, UA) \in Seq(Byte)
        BY <4>2, FramesType
      <4> QED
        BY <4>1, <4>2, <4>3
    <3> QED
      BY <1>0, <1>9, <2>1, <2>4, <3>1, <3>2 DEF WireTypeOK, SenderTypeOK, MsgFollows
  <2> QED
    BY <1>9, <2>2, <2>3, <2>4 DEF Receiving
<1>10. CASE AnswerByte
  <2>1. sIn' \in Seq(Byte) /\ Head(sIn) \in Byte
    BY <1>0, <1>10 DEF AnswerByte, Receiving, WireTypeOK
  <2>2. ans' \in AnswerLocals
    BY <1>0, <1>10, <2>1, AnswerByteStep
  <2> QED
    BY <1>0, <1>10, <2>1, <2>2
    DEF AnswerByte, Receiving, WireTypeOK, SenderTypeOK, AnswerLocals, MsgFollows
<1>11. CASE TwoFlags
  BY <1>0, <1>9, <1>11 DEF TwoFlags, SenderTypeOK
<1>12. CASE UnknownControl
  <2>1. sIn' \in Seq(Byte)
    BY <1>0, <1>12 DEF UnknownControl, Receiving, WireTypeOK
  <2> QED
    BY <1>0, <1>12, <2>1 DEF UnknownControl, WireTypeOK, SenderTypeOK, MsgFollows
<1>13. CASE AnswerEnd
  <2>1. s_ctrl' \in {0, 1} /\ \E c : Return(c)
    BY <1>0, <1>13 DEF AnswerEnd, SenderTypeOK
  <2> QED
    BY <1>9, <1>13, <2>1 DEF AnswerEnd
<1> QED
  BY <1>1, <1>2, <1>3, <1>5, <1>6, <1>7, <1>8, <1>10, <1>11, <1>12, <1>13
  DEF SenderNext, s_receive

-----------------------------------------------------------------------------
\* One read of the cable keeps the types of both lines.
LEMMA CarryTypes ==
  ASSUME Types, NEW from \in Seq(Byte), NEW into \in Seq(Byte), NEW n \in 1 .. Len(from),
         Carry(from, n)
  PROVE  /\ SubSeq(from, n + 1, Len(from)) \in Seq(Byte)
         /\ into \o Carried(SubSeq(from, 1, n)) \in Seq(Byte)
         /\ CableTypeOK'
<1>1. connection \in Modes /\ faults \in 0 .. MaxFaults /\ MaxFaults \in Nat
  BY CableAssumption DEF Types, TypeOK, CableTypeOK
<1>2. SubSeq(from, 1, n) \in Seq(Byte) /\ Len(SubSeq(from, 1, n)) = n
  OBVIOUS
<1>3. SubSeq(from, 1, n) # << >>
  BY <1>2
<1>4. Carried(SubSeq(from, 1, n)) \in Seq(Byte)
  BY <1>1, <1>2, <1>3, CarriedType
<1>5. faults' \in 0 .. MaxFaults
  BY <1>1 DEF Carry
<1>6. connection' = connection
  BY DEF Carry
<1>7. SubSeq(from, n + 1, Len(from)) \in Seq(Byte)
  OBVIOUS
<1> QED
  BY <1>1, <1>4, <1>5, <1>6, <1>7 DEF CableTypeOK

(***************************************************************************)
(* Every step of the cable program leaves the variables in their types.    *)
(***************************************************************************)
LEMMA CableTypes ==
  ASSUME Types, CableNext
  PROVE  WireTypeOK' /\ CableTypeOK'
<1>1. {sOut, sIn, rOut, rIn} \subseteq Seq(Byte) /\ CableTypeOK
  BY DEF Types, TypeOK, WireTypeOK
<1>2. CASE \E mode \in Modes : Press(mode)
  BY <1>1, <1>2 DEF Press, wire, WireTypeOK, CableTypeOK
<1>3. CASE TxToRx
  <2>1. PICK n \in 1 .. Len(sOut) :
          /\ Carry(sOut, n)
          /\ sOut' = SubSeq(sOut, n + 1, Len(sOut))
          /\ rIn' = rIn \o Carried(SubSeq(sOut, 1, n))
          /\ UNCHANGED << sIn, rOut >>
    BY <1>3 DEF TxToRx
  <2>2. sOut' \in Seq(Byte) /\ rIn' \in Seq(Byte) /\ CableTypeOK'
    BY <1>1, <2>1, CarryTypes
  <2> QED
    BY <1>1, <2>1, <2>2 DEF WireTypeOK
<1>4. CASE RxToTx
  <2>1. PICK n \in 1 .. Len(rOut) :
          /\ Carry(rOut, n)
          /\ rOut' = SubSeq(rOut, n + 1, Len(rOut))
          /\ sIn' = sIn \o Carried(SubSeq(rOut, 1, n))
          /\ UNCHANGED << sOut, rIn >>
    BY <1>4 DEF RxToTx
  <2>2. rOut' \in Seq(Byte) /\ sIn' \in Seq(Byte) /\ CableTypeOK'
    BY <1>1, <2>1, CarryTypes
  <2> QED
    BY <1>1, <2>1, <2>2 DEF WireTypeOK
<1> QED
  BY <1>2, <1>3, <1>4 DEF CableNext

-----------------------------------------------------------------------------
\* Everything starts with variables of their types.
LEMMA TypesInit == Init => Types
<1> SUFFICES ASSUME Init PROVE Types
  OBVIOUS
<1>1. PortTypeOK
  BY ReceiverTypesInit DEF Init
<1>2. ans \in AnswerLocals
  BY AnswerType DEF Init, SenderInit
<1>3. expired \in BOOLEAN
  BY Zenon DEF Init, SenderInit
<1>4. SenderTypeOK /\ MsgFollows
  BY <1>2, <1>3, SenderAssumption
  DEF Init, SenderInit, SenderTypeOK, AnswerLocals, Hunting, MsgFollows
<1>5. CableTypeOK
  BY CableAssumption DEF Init, CableInit, CableTypeOK
<1> QED
  BY <1>1, <1>4, <1>5 DEF Types, TypeOK, PortTypeOK

\* A step of the sender in the system is one of the sender alone.
LEMMA SenderStepIsNext == SenderStep => SenderNext /\ UNCHANGED << receiver, cable >>
  BY DEF SenderStep, SenderNext

\* Every step of the system keeps the types.
LEMMA TypesNext == Types /\ [Next]_vars => Types'
<1> SUFFICES ASSUME Types, [Next]_vars PROVE Types'
  OBVIOUS
<1>1. TypeOK /\ MsgFollows /\ PortTypeOK
  BY DEF Types, TypeOK, PortTypeOK
<1>2. CASE SenderStep
  <2>1. WireTypeOK' /\ SenderTypeOK' /\ MsgFollows'
    BY <1>2, SenderStepIsNext, SenderTypes DEF SenderPortTypeOK
  <2>2. UNCHANGED << receiver, cable >>
    BY <1>2, SenderStepIsNext
  <2>3. ReceiverTypeOK' /\ CableTypeOK'
    BY <1>1, <2>2 DEF TypeOK, receiver, cable, ReceiverTypeOK, CableTypeOK
  <2> QED
    BY <2>1, <2>3 DEF Types, TypeOK
<1>3. CASE ReceiverStep
  <2>1. WireTypeOK' /\ ReceiverTypeOK'
    BY <1>1, <1>3, ReceiverTypes DEF ReceiverStep, PortTypeOK
  <2>2. SenderTypeOK' /\ CableTypeOK' /\ MsgFollows'
    BY <1>1, <1>3
    DEF ReceiverStep, sender, cable, TypeOK, SenderTypeOK, CableTypeOK, MsgFollows
  <2> QED
    BY <2>1, <2>2 DEF Types, TypeOK
<1>4. CASE CableStep
  <2>1. WireTypeOK' /\ CableTypeOK'
    BY <1>4, CableTypes DEF CableStep
  <2>2. SenderTypeOK' /\ ReceiverTypeOK' /\ MsgFollows'
    BY <1>1, <1>4
    DEF CableStep, sender, receiver, TypeOK, SenderTypeOK, ReceiverTypeOK, MsgFollows
  <2> QED
    BY <2>1, <2>2 DEF Types, TypeOK
<1>5. CASE UNCHANGED vars
  BY <1>1, <1>5
  DEF vars, wire, sender, receiver, cable, Types, TypeOK, WireTypeOK, SenderTypeOK,
      ReceiverTypeOK, CableTypeOK, MsgFollows
<1> QED
  BY <1>2, <1>3, <1>4, <1>5 DEF Next, Terminated

(***************************************************************************)
(* For every file, every number of retransmissions and whatever the cable  *)
(* does, the variables of both programs and of the line keep their types;  *)
(* above all, llwrite never counts more than the messages main has, and    *)
(* timeout_count never passes number_of_retransmissions.                   *)
(***************************************************************************)
THEOREM LinkTypes == Spec => []TypeOK
<1>1. Spec => []Types
  BY TypesInit, TypesNext, PTL DEF Spec
<1>2. Types => TypeOK
  BY DEF Types
<1> QED
  BY <1>1, <1>2, PTL

-----------------------------------------------------------------------------
(***************************************************************************)
(* The bytes that can begin the acceptance of a frame: the control field   *)
(* of an RR, and (as RR(0) is also the transmitter's address) the second   *)
(* byte of a UA.                                                           *)
(***************************************************************************)
RRControls == {RR(0), RR(1)}

\* The places in s of the bytes in C, and how many they are.
Places(C, s) == { i \in 1 .. Len(s) : s[i] \in C }
Tally(C, s)  == Cardinality(Places(C, s))

\* The places in a sequence are finitely many.
LEMMA TallyType ==
  ASSUME NEW C, NEW s, Len(s) \in Nat
  PROVE  IsFiniteSet(Places(C, s)) /\ Tally(C, s) \in Nat
<1>1. IsFiniteSet(1 .. Len(s))
  BY FS_Interval
<1>2. Places(C, s) \in SUBSET (1 .. Len(s))
  BY DEF Places
<1> QED
  BY <1>1, <1>2, FS_Subset, FS_CardinalityType DEF Tally

(***************************************************************************)
(* Two sequences in a row hold as many as both together.                   *)
(***************************************************************************)
LEMMA TallyConcat ==
  ASSUME NEW C, NEW s \in Seq(Byte), NEW t \in Seq(Byte)
  PROVE  Tally(C, s \o t) = Tally(C, s) + Tally(C, t)
<1> DEFINE n == Len(s)
           shifted == { i \in n + 1 .. n + Len(t) : t[i - n] \in C }
           shift == [ i \in Places(C, t) |-> i + n ]
<1>1. n \in Nat /\ Len(t) \in Nat /\ Len(s \o t) = n + Len(t)
  OBVIOUS
<1>2. \A i \in 1 .. n + Len(t) : (s \o t)[i] = IF i <= n THEN s[i] ELSE t[i - n]
  OBVIOUS
<1>3. Places(C, s \o t) = Places(C, s) \cup shifted
  <2>1. ASSUME NEW i \in 1 .. n + Len(t)
        PROVE  i \in Places(C, s \o t) <=> i \in Places(C, s) \cup shifted
    BY <1>1, <1>2 DEF Places
  <2>2. Places(C, s \o t) \subseteq 1 .. n + Len(t) /\ Places(C, s) \cup shifted \subseteq 1 .. n + Len(t)
    BY <1>1 DEF Places
  <2> QED
    BY <2>1, <2>2
<1>4. Places(C, s) \cap shifted = {}
  BY <1>1 DEF Places
<1>5. shift \in Bijection(Places(C, t), shifted)
  <2>1. shift \in [ Places(C, t) -> shifted ]
    BY <1>1 DEF Places
  <2>2. \A a, b \in Places(C, t) : shift[a] = shift[b] => a = b
    BY <1>1 DEF Places
  <2>3. \A j \in shifted : \E a \in Places(C, t) : shift[a] = j
    <3>1. ASSUME NEW j \in shifted PROVE j - n \in Places(C, t) /\ shift[j - n] = j
      BY <1>1 DEF Places
    <3> QED
      BY <3>1
  <2> QED
    BY <2>1, <2>2, <2>3 DEF Bijection, Injection, Surjection, IsInjective
<1>6. IsFiniteSet(Places(C, s)) /\ IsFiniteSet(Places(C, t)) /\ Tally(C, s) \in Nat /\ Tally(C, t) \in Nat
  BY <1>1, TallyType
<1>7. IsFiniteSet(shifted) /\ Cardinality(shifted) = Tally(C, t)
  <2>1. ExistsBijection(Places(C, t), shifted)
    BY <1>5 DEF ExistsBijection
  <2> QED
    BY <1>6, <2>1, FS_Bijection DEF Tally
<1>8. Cardinality(Places(C, s) \cup shifted) = Cardinality(Places(C, s)) + Cardinality(shifted) - Cardinality(Places(C, s) \cap shifted)
  BY <1>6, <1>7, FS_Union
<1>9. Cardinality(Places(C, s) \cap shifted) = 0
  BY <1>4, FS_EmptySet
<1> QED
  BY <1>3, <1>6, <1>7, <1>8, <1>9 DEF Tally

\* An empty line holds none.
LEMMA TallyEmpty == ASSUME NEW C PROVE Tally(C, << >>) = 0
<1>1. Places(C, << >>) = {}
  BY DEF Places
<1> QED
  BY <1>1, FS_EmptySet DEF Tally

\* One byte is one of them or not.
LEMMA TallyOne ==
  ASSUME NEW C, NEW b \in Byte
  PROVE  Tally(C, << b >>) = IF b \in C THEN 1 ELSE 0
<1>1. CASE b \in C
  <2>1. Places(C, << b >>) = {1}
    BY <1>1 DEF Places
  <2> QED
    BY <1>1, <2>1, FS_Singleton DEF Tally
<1>2. CASE b \notin C
  <2>1. Places(C, << b >>) = {}
    BY <1>2 DEF Places
  <2> QED
    BY <1>2, <2>1, FS_EmptySet DEF Tally
<1> QED
  BY <1>1, <1>2

\* Reading a byte takes it from the count.
LEMMA TallyHead ==
  ASSUME NEW C, NEW s \in Seq(Byte), s # << >>
  PROVE  /\ Head(s) \in Byte /\ Tail(s) \in Seq(Byte)
         /\ Tally(C, Tail(s)) \in Nat
         /\ Tally(C, s) = Tally(C, Tail(s)) + (IF Head(s) \in C THEN 1 ELSE 0)
<1>1. Head(s) \in Byte /\ Tail(s) \in Seq(Byte) /\ << Head(s) >> \in Seq(Byte)
  OBVIOUS
<1>2. s = << Head(s) >> \o Tail(s)
  OBVIOUS
<1>3. Tally(C, s) = Tally(C, << Head(s) >>) + Tally(C, Tail(s))
  <2>1. Tally(C, << Head(s) >> \o Tail(s)) = Tally(C, << Head(s) >>) + Tally(C, Tail(s))
    BY <1>1, TallyConcat
  <2> QED
    BY <1>2, <2>1
<1>4. Tally(C, Tail(s)) \in Nat
  BY <1>1, TallyType
<1> QED
  BY <1>1, <1>3, <1>4, TallyOne

\* Cutting a sequence divides the count.
LEMMA TallyCut ==
  ASSUME NEW C, NEW s \in Seq(Byte), NEW n \in 1 .. Len(s)
  PROVE  Tally(C, s) = Tally(C, SubSeq(s, 1, n)) + Tally(C, SubSeq(s, n + 1, Len(s)))
<1>1. SubSeq(s, 1, n) \in Seq(Byte) /\ SubSeq(s, n + 1, Len(s)) \in Seq(Byte)
  OBVIOUS
<1>2. s = SubSeq(s, 1, n) \o SubSeq(s, n + 1, Len(s))
  OBVIOUS
<1>3. Tally(C, SubSeq(s, 1, n) \o SubSeq(s, n + 1, Len(s)))
        = Tally(C, SubSeq(s, 1, n)) + Tally(C, SubSeq(s, n + 1, Len(s)))
  BY <1>1, TallyConcat
<1> QED
  BY <1>2, <1>3

\* How many can begin an acceptance, and how many are the control field of a UA.
Count(s) == Tally(RRControls, s)
Uas(s)   == Tally({UA}, s)

\* What holds of every tally holds of the acceptances.
LEMMA CountType ==
  ASSUME NEW s, Len(s) \in Nat
  PROVE  Count(s) \in Nat
BY TallyType DEF Count

\* Two sequences in a row.
LEMMA CountConcat ==
  ASSUME NEW s \in Seq(Byte), NEW t \in Seq(Byte)
  PROVE  Count(s \o t) = Count(s) + Count(t)
BY TallyConcat DEF Count

\* Nothing.
LEMMA CountEmpty == Count(<< >>) = 0
BY TallyEmpty DEF Count

\* The first byte and the others.
LEMMA CountHead ==
  ASSUME NEW s \in Seq(Byte), s # << >>
  PROVE  /\ Head(s) \in Byte /\ Tail(s) \in Seq(Byte)
         /\ Count(Tail(s)) \in Nat
         /\ Count(s) = Count(Tail(s)) + (IF Head(s) \in RRControls THEN 1 ELSE 0)
BY TallyHead DEF Count

\* A sequence that is cut.
LEMMA CountCut ==
  ASSUME NEW s \in Seq(Byte), NEW n \in 1 .. Len(s)
  PROVE  Count(s) = Count(SubSeq(s, 1, n)) + Count(SubSeq(s, n + 1, Len(s)))
BY TallyCut DEF Count

-----------------------------------------------------------------------------
(***************************************************************************)
(* The bytes the receiver writes.  Noise turns none of them into one that  *)
(* begins the acceptance of a frame, nor into DISC, UA or REJ.             *)
(***************************************************************************)
AnswerBytes == {1, 2, 3, 6, 7, 9, 10, 17, 18, 92}

HoldsDisc(s) == \E i \in 1 .. Len(s) : s[i] = DISC

NoRej(s) == \A i \in 1 .. Len(s) : s[i] \notin {REJ(0), REJ(1)}

\* A disturbed answer byte means nothing.
LEMMA Flipped ==
  ASSUME NEW b \in AnswerBytes
  PROVE  Xor(b, 255) = 255 - b
<1>1. b \in {1, 2, 3, 6, 7, 9, 10, 17, 18, 92}
  BY DEF AnswerBytes
<1> QED
  BY <1>1, SMTT(60) DEF Xor

\* The answers are made of these bytes; a UA and an RR hold one that counts, and
\* only a UA holds the control field of one.
LEMMA Answers ==
  /\ Supervision(SenderAddress, UA) \in Seq(AnswerBytes)
  /\ Supervision(ReceiverAddress, DISC) \in Seq(AnswerBytes)
  /\ \A bit \in {0, 1} : Supervision(ReceiverAddress, RR(bit)) \in Seq(AnswerBytes)
  /\ Count(Supervision(SenderAddress, UA)) = 1
  /\ Count(Supervision(ReceiverAddress, DISC)) = 0
  /\ \A bit \in {0, 1} : Count(Supervision(ReceiverAddress, RR(bit))) = 1
  /\ Uas(Supervision(SenderAddress, UA)) = 1
  /\ Uas(Supervision(ReceiverAddress, DISC)) = 0
  /\ \A bit \in {0, 1} : Uas(Supervision(ReceiverAddress, RR(bit))) = 0
  /\ ~HoldsDisc(Supervision(SenderAddress, UA))
  /\ \A bit \in {0, 1} : ~HoldsDisc(Supervision(ReceiverAddress, RR(bit)))
<1> DEFINE five(a, c, x) == << 92, a, c, x, 92 >>
<1>1. /\ Supervision(SenderAddress, UA) = five(1, 6, 7)
      /\ Supervision(ReceiverAddress, DISC) = five(3, 10, 9)
      /\ Supervision(ReceiverAddress, RR(0)) = five(3, 1, 2)
      /\ Supervision(ReceiverAddress, RR(1)) = five(3, 17, 18)
  <2>1. Xor(1, 6) = 7 /\ Xor(3, 10) = 9 /\ Xor(3, 1) = 2 /\ Xor(3, 17) = 18
    BY SMTT(60) DEF Xor
  <2> QED
    BY <2>1 DEF Supervision, FLAG, SenderAddress, ReceiverAddress, UA, DISC, RR
<1>2. ASSUME NEW a \in AnswerBytes, NEW c \in AnswerBytes, NEW x \in AnswerBytes
      PROVE  five(a, c, x) \in Seq(AnswerBytes)
  BY DEF AnswerBytes
<1>3. {1, 2, 3, 6, 7, 9, 10, 17, 18} \subseteq AnswerBytes
  BY DEF AnswerBytes
<1>4. /\ Places(RRControls, five(1, 6, 7)) = {2} /\ Places(RRControls, five(3, 10, 9)) = {}
      /\ Places(RRControls, five(3, 1, 2)) = {3} /\ Places(RRControls, five(3, 17, 18)) = {3}
  <2>1. ASSUME NEW s, Len(s) = 5, s[1] = 92, s[2] \in {1, 3}, s[3] \in {1, 6, 10, 17},
               s[4] \in {2, 7, 9, 18}, s[5] = 92
        PROVE  Places(RRControls, s) = { i \in {2, 3} : s[i] \in {1, 17} }
    BY <2>1 DEF Places, RRControls, RR
  <2>2. Places(RRControls, five(1, 6, 7)) = { i \in {2, 3} : five(1, 6, 7)[i] \in {1, 17} }
    BY <2>1
  <2>3. Places(RRControls, five(3, 10, 9)) = { i \in {2, 3} : five(3, 10, 9)[i] \in {1, 17} }
    BY <2>1
  <2>4. Places(RRControls, five(3, 1, 2)) = { i \in {2, 3} : five(3, 1, 2)[i] \in {1, 17} }
    BY <2>1
  <2>5. Places(RRControls, five(3, 17, 18)) = { i \in {2, 3} : five(3, 17, 18)[i] \in {1, 17} }
    BY <2>1
  <2> QED
    BY <2>2, <2>3, <2>4, <2>5
<1>5. /\ Places({UA}, five(1, 6, 7)) = {3} /\ Places({UA}, five(3, 10, 9)) = {}
      /\ Places({UA}, five(3, 1, 2)) = {} /\ Places({UA}, five(3, 17, 18)) = {}
  <2>1. ASSUME NEW s, Len(s) = 5, s[1] = 92, s[2] \in {1, 3}, s[3] \in {1, 6, 10, 17},
               s[4] \in {2, 7, 9, 18}, s[5] = 92
        PROVE  Places({UA}, s) = { i \in {3} : s[i] = 6 }
    BY <2>1 DEF Places, UA
  <2>2. Places({UA}, five(1, 6, 7)) = { i \in {3} : five(1, 6, 7)[i] = 6 }
    BY <2>1
  <2>3. Places({UA}, five(3, 10, 9)) = { i \in {3} : five(3, 10, 9)[i] = 6 }
    BY <2>1
  <2>4. Places({UA}, five(3, 1, 2)) = { i \in {3} : five(3, 1, 2)[i] = 6 }
    BY <2>1
  <2>5. Places({UA}, five(3, 17, 18)) = { i \in {3} : five(3, 17, 18)[i] = 6 }
    BY <2>1
  <2> QED
    BY <2>2, <2>3, <2>4, <2>5
<1> HIDE DEF five
<1>6. Cardinality({2}) = 1 /\ Cardinality({3}) = 1 /\ Cardinality({}) = 0
  BY FS_Singleton, FS_EmptySet
<1>7. /\ Count(five(1, 6, 7)) = 1 /\ Count(five(3, 10, 9)) = 0
      /\ Count(five(3, 1, 2)) = 1 /\ Count(five(3, 17, 18)) = 1
  BY <1>4, <1>6 DEF Count, Tally
<1>10. /\ Uas(five(1, 6, 7)) = 1 /\ Uas(five(3, 10, 9)) = 0
       /\ Uas(five(3, 1, 2)) = 0 /\ Uas(five(3, 17, 18)) = 0
  BY <1>5, <1>6 DEF Uas, Tally
<1>8. ASSUME NEW a, NEW c, NEW x, DISC \notin {a, c, x}
      PROVE  ~HoldsDisc(five(a, c, x))
  BY <1>8 DEF five, HoldsDisc, DISC
<1>9. ~HoldsDisc(five(1, 6, 7)) /\ ~HoldsDisc(five(3, 1, 2)) /\ ~HoldsDisc(five(3, 17, 18))
  BY <1>8 DEF DISC
<1> QED
  BY <1>1, <1>2, <1>3, <1>7, <1>9, <1>10

(***************************************************************************)
(* The cable creates none of the bytes that count, no DISC and no REJ.     *)
(***************************************************************************)
LEMMA CarriedCount ==
  ASSUME connection \in Modes, NEW chunk \in Seq(AnswerBytes), chunk # << >>
  PROVE  /\ Count(Carried(chunk)) <= Count(chunk) /\ Uas(Carried(chunk)) <= Uas(chunk)
         /\ HoldsDisc(Carried(chunk)) => HoldsDisc(chunk)
         /\ NoRej(Carried(chunk))
<1>1. connection \in {"on", "off", "noise"}
  BY CableAssumption
<1>2. IsFiniteSet(Places(RRControls, chunk)) /\ Count(chunk) \in Nat
  BY TallyType DEF Count
<1>3. IsFiniteSet(Places({UA}, chunk)) /\ Uas(chunk) \in Nat
  BY TallyType DEF Uas
<1>4. NoRej(chunk)
  BY DEF NoRej, REJ, AnswerBytes
<1>5. CASE connection = "noise"
  <2>1. chunk[1] \in AnswerBytes /\ 1 \in 1 .. Len(chunk)
    OBVIOUS
  <2>2. PICK b \in Byte : b = Xor(chunk[1], 255)
    <3>1. chunk[1] \in Byte /\ 255 \in Byte
      BY <2>1 DEF AnswerBytes, Byte
    <3> QED
      BY <3>1, XorByte
  <2>3. b \notin RRControls /\ b \notin {DISC, UA, REJ(0), REJ(1)}
    <3>1. b = 255 - chunk[1]
      BY <2>1, <2>2, Flipped
    <3> QED
      BY <2>1, <3>1 DEF AnswerBytes, RRControls, RR, DISC, UA, REJ
  <2>4. Carried(chunk) = [ chunk EXCEPT ![1] = b ]
    BY <1>5, <2>2, Zenon DEF Carried
  <2>5. /\ Len(Carried(chunk)) = Len(chunk)
        /\ \A i \in 1 .. Len(chunk) : Carried(chunk)[i] = IF i = 1 THEN b ELSE chunk[i]
    BY <2>1, <2>4
  <2>6. /\ Places(RRControls, Carried(chunk)) \in SUBSET Places(RRControls, chunk)
        /\ Places({UA}, Carried(chunk)) \in SUBSET Places({UA}, chunk)
    BY <2>3, <2>5 DEF Places
  <2>7. Count(Carried(chunk)) <= Count(chunk) /\ Uas(Carried(chunk)) <= Uas(chunk)
    BY <1>2, <1>3, <2>6, FS_Subset DEF Count, Uas, Tally
  <2>8. HoldsDisc(Carried(chunk)) => HoldsDisc(chunk)
    BY <2>3, <2>5 DEF HoldsDisc
  <2>9. NoRej(Carried(chunk))
    BY <1>4, <2>3, <2>5 DEF NoRej
  <2> QED
    BY <2>7, <2>8, <2>9
<1>6. CASE connection = "on"
  BY <1>2, <1>3, <1>4, <1>6 DEF Carried
<1>7. CASE connection = "off"
  <2>1. Carried(chunk) = << >>
    BY <1>7 DEF Carried
  <2>2. Count(<< >>) = 0 /\ Uas(<< >>) = 0
    BY TallyEmpty DEF Count, Uas
  <2> QED
    BY <1>2, <1>3, <2>1, <2>2 DEF HoldsDisc, NoRej
<1> QED
  BY <1>1, <1>5, <1>6, <1>7

-----------------------------------------------------------------------------
(***************************************************************************)
(* The accounts.  Every byte that can begin an acceptance is paid for by a *)
(* frame llread has accepted, by the UA or by the answer the receiver dies *)
(* with; the sender spends one on its opening and one on each frame it     *)
(* reports.                                                                *)
(***************************************************************************)
Opened  == IF sPc \in {"closed", "handshake"} /\ sHs \in {"S", "F"} THEN 0 ELSE 1
Pending == IF sPc = "answer" /\ ans.st \in {"C", "BCC"} /\ IsRR(ans.control) THEN 1 ELSE 0
Greeted == IF rPc \in {"closed", "opening"} THEN 0 ELSE 1
Dying   == IF rPc = "crashed" THEN 1 ELSE 0

Balance ==
  acked + Pending + Opened + Count(sIn) + Count(rOut) <= Len(accepted) + Greeted + Dying

NoneBefore == sPc \in {"closed", "handshake"} => acked = 0

Written == rOut \in Seq(AnswerBytes)

IInv == Types /\ Balance /\ NoneBefore /\ Written

\* The terms of Balance are natural numbers.
LEMMA Terms ==
  ASSUME Types
  PROVE  /\ acked \in Nat /\ Len(accepted) \in Nat
         /\ Count(sIn) \in Nat /\ Count(rOut) \in Nat
         /\ Opened \in {0, 1} /\ Pending \in {0, 1} /\ Greeted \in {0, 1} /\ Dying \in {0, 1}
<1>1. acked \in Nat /\ accepted \in Seq(Seq(Byte)) /\ sIn \in Seq(Byte) /\ rOut \in Seq(Byte)
  BY SenderAssumption DEF Types, TypeOK, WireTypeOK, SenderTypeOK, ReceiverTypeOK
<1> QED
  BY <1>1, CountType DEF Opened, Pending, Greeted, Dying

\* The sender spends no more than it takes from the line.
LEMMA SenderBalance ==
  ASSUME Types, Types', Balance, rOut' = rOut, UNCHANGED receiver,
         acked' + Pending' + Opened' + Count(sIn') <= acked + Pending + Opened + Count(sIn)
  PROVE  Balance'
<1>1. Greeted' = Greeted /\ Dying' = Dying /\ accepted' = accepted
  BY DEF receiver, Greeted, Dying
<1>2. Count(rOut') = Count(rOut)
  OBVIOUS
<1>3. /\ acked' \in Nat /\ Count(sIn') \in Nat /\ Opened' \in {0, 1} /\ Pending' \in {0, 1}
  <2>1. /\ acked' \in Nat /\ sIn' \in Seq(Byte)
    BY SenderAssumption DEF Types, TypeOK, WireTypeOK, SenderTypeOK
  <2> QED
    BY <2>1, CountType DEF Opened, Pending
<1>4. /\ acked \in Nat /\ Len(accepted) \in Nat /\ Count(sIn) \in Nat /\ Count(rOut) \in Nat
      /\ Opened \in {0, 1} /\ Pending \in {0, 1} /\ Greeted \in {0, 1} /\ Dying \in {0, 1}
  BY Terms
<1>5. acked + Pending + Opened + Count(sIn) + Count(rOut) <= Len(accepted) + Greeted + Dying
  BY DEF Balance
<1>6. acked' + Pending' + Opened' + Count(sIn') + Count(rOut')
        <= Len(accepted') + Greeted' + Dying'
  BY SMTT(30), <1>1, <1>2, <1>3, <1>4, <1>5
<1> QED
  BY <1>6 DEF Balance

(***************************************************************************)
(* The handshake passes from F to A only with the address of a UA.         *)
(***************************************************************************)
LEMMA HandshakeSpends ==
  ASSUME NEW b, sHs \in {"S", "F"}, s_Recognise(sHs, b, UA) \notin {"S", "F"}
  PROVE  b \in RRControls
<1>1. b = Expected(sHs, UA) /\ s_Recognise(sHs, b, UA) = Advance(sHs)
  BY DEF s_Recognise
<1>2. sHs = "F"
  BY <1>1 DEF Advance
<1> QED
  BY <1>1, <1>2 DEF Expected, RRControls, RR, SenderAddress

(***************************************************************************)
(* Every step of the sender keeps the accounts.                            *)
(***************************************************************************)
LEMMA SenderKeepsBalance ==
  ASSUME Types, Types', Balance, NoneBefore, SenderNext, UNCHANGED receiver
  PROVE  Balance' /\ NoneBefore' /\ rOut' = rOut
<1>0. /\ acked \in Nat /\ Len(accepted) \in Nat /\ Count(sIn) \in Nat /\ Count(rOut) \in Nat
      /\ Opened \in {0, 1} /\ Pending \in {0, 1} /\ Greeted \in {0, 1} /\ Dying \in {0, 1}
      /\ sIn \in Seq(Byte) /\ ans \in AnswerLocals /\ sHs \in Hunting
  BY Terms DEF Types, TypeOK, WireTypeOK, SenderTypeOK, AnswerLocals
<1>1. ASSUME sIn' = sIn \/ sIn' = << >> \/ (sIn # << >> /\ sIn' = Tail(sIn))
      PROVE  Count(sIn') \in Nat /\ Count(sIn') <= Count(sIn)
  <2>1. CASE sIn # << >> /\ sIn' = Tail(sIn)
    BY <1>0, <2>1, CountHead
  <2> QED
    BY <1>0, <1>1, <2>1, CountEmpty
<1>2. ASSUME sIn' = sIn \/ sIn' = << >> \/ (sIn # << >> /\ sIn' = Tail(sIn)),
             rOut' = rOut, acked' = acked, Pending' = 0, Opened' = Opened
      PROVE  Balance'
  <2>1. acked' + Pending' + Opened' + Count(sIn') <= acked + Pending + Opened + Count(sIn)
    BY <1>0, <1>1, <1>2
  <2> QED
    BY <1>2, <2>1, SenderBalance
<1>3. CASE s_llopen
  BY <1>2, <1>3 DEF s_llopen, Pending, Opened, NoneBefore
<1>4. CASE s_handshake
  <2> DEFINE h == s_Recognise(sHs, Head(sIn), UA)
  <2>1. /\ sPc = "handshake" /\ sIn # << >> /\ sIn' = Tail(sIn)
        /\ rOut' = rOut /\ acked' = acked
        /\ IF h = "Z" THEN sPc' = "send" /\ sHs' = sHs ELSE sHs' = h /\ sPc' = sPc
    BY <1>4 DEF s_handshake
  <2>2. Count(sIn) = Count(sIn') + (IF Head(sIn) \in RRControls THEN 1 ELSE 0) /\ Count(sIn') \in Nat
    BY <1>0, <2>1, CountHead
  <2>3. sHs \in {"S", "F"} /\ h \notin {"S", "F"} => Head(sIn) \in RRControls
    BY HandshakeSpends
  <2> HIDE DEF h
  <2>4. Pending' = 0 /\ Pending = 0
    BY <2>1 DEF Pending
  <2>5. Opened' + Count(sIn') <= Opened + Count(sIn)
    <3>1. CASE sHs \in {"S", "F"} /\ h \notin {"S", "F"}
      <4>1. Opened = 0 /\ Opened' \in {0, 1}
        BY <2>1, <3>1 DEF Opened
      <4> QED
        BY <2>2, <2>3, <3>1, <4>1
    <3>2. CASE sHs \in {"S", "F"} /\ h \in {"S", "F"}
      <4>1. Opened = 0 /\ Opened' = 0
        BY <2>1, <3>2 DEF Opened
      <4> QED
        BY <2>2, <4>1
    <3>3. CASE sHs \notin {"S", "F"}
      <4>1. Opened = 1 /\ Opened' \in {0, 1}
        BY <2>1, <3>3 DEF Opened
      <4> QED
        BY <2>2, <4>1
    <3> QED
      BY <3>1, <3>2, <3>3
  <2>6. acked' + Pending' + Opened' + Count(sIn') <= acked + Pending + Opened + Count(sIn)
    <3>1. Opened' \in {0, 1}
      BY DEF Opened
    <3>2. acked' = acked /\ Count(sIn') \in Nat
      BY <2>1, <2>2
    <3> QED
      BY <1>0, <2>4, <2>5, <3>1, <3>2
  <2>7. NoneBefore'
    BY <2>1 DEF NoneBefore
  <2> QED
    BY <2>1, <2>6, <2>7, SenderBalance
<1>5. CASE s_send_data
  BY <1>2, <1>5 DEF s_send_data, Pending, Opened, NoneBefore
<1>6. ASSUME GiveUp, sPc = "select"
      PROVE  Balance' /\ NoneBefore' /\ rOut' = rOut
  <2>1. sPc' = "close" /\ acked' = acked /\ sIn' = sIn /\ rOut' = rOut
    BY <1>6, Zenon DEF GiveUp, LlwriteReturns
  <2> QED
    BY <1>2, <1>6, <2>1 DEF Pending, Opened, NoneBefore
<1>7. CASE SelectReady
  <2>1. CASE GiveUp
    BY <1>6, <1>7, <2>1 DEF SelectReady
  <2>2. CASE ~GiveUp
    <3>1. /\ sPc = "select" /\ sPc' = "answer" /\ ans'.st = "Start"
          /\ sIn' = sIn /\ rOut' = rOut /\ acked' = acked
      BY <1>7, <2>2 DEF SelectReady, wire, Answer
    <3> QED
      BY <1>2, <3>1 DEF Pending, Opened, NoneBefore
  <2> QED
    BY <2>1, <2>2
<1>8. CASE SelectTimeout
  <2>1. CASE GiveUp
    BY <1>6, <1>8, <2>1 DEF SelectTimeout
  <2>2. CASE ~GiveUp
    <3>1. /\ sPc = "select" /\ sPc' = "sleep"
          /\ sIn' = sIn /\ rOut' = rOut /\ acked' = acked
      BY <1>8, <2>2 DEF SelectTimeout, wire
    <3> QED
      BY <1>2, <3>1 DEF Pending, Opened, NoneBefore
  <2> QED
    BY <2>1, <2>2
<1>9. CASE Sleep
  BY <1>2, <1>9 DEF Sleep, wire, Pending, Opened, NoneBefore
<1>10. CASE s_disconnect
  BY <1>2, <1>10 DEF s_disconnect, Pending, Opened, NoneBefore
<1>11. ASSUME Receiving PROVE sIn # << >> /\ sPc \in {"answer", "disc"} /\ Opened = 1
  BY <1>11 DEF Receiving, Opened
<1>12. CASE AnswerByte
  <2>1. /\ sIn # << >> /\ sPc \in {"answer", "disc"} /\ Opened = 1
        /\ sIn' = Tail(sIn) /\ rOut' = rOut /\ acked' = acked /\ sPc' = sPc
    BY <1>11, <1>12 DEF AnswerByte
  <2>2. Opened' = 1 /\ Pending' \in {0, 1}
    BY <2>1 DEF Opened, Pending
  <2>3. /\ Count(sIn) = Count(sIn') + (IF Head(sIn) \in RRControls THEN 1 ELSE 0)
        /\ Count(sIn') \in Nat /\ Head(sIn) \in Byte
    BY <1>0, <2>1, CountHead
  <2>4. /\ ans.st = "A" /\ Head(sIn) # FLAG => ans'.control = Head(sIn)
        /\ ~(ans.st = "A" /\ Head(sIn) # FLAG) => ans'.control = ans.control
        /\ ans'.st \in {"C", "BCC"} => ans.st = "C" \/ (ans.st = "A" /\ Head(sIn) # FLAG)
    BY <1>0, <1>12, <2>3, AnswerByteStep
  <2>5. Pending' + Count(sIn') <= Pending + Count(sIn)
    <3>1. CASE Pending' = 0
      BY <1>0, <2>3, <3>1
    <3>2. CASE Pending' = 1 /\ ans.st = "A" /\ Head(sIn) # FLAG
      <4>1. Head(sIn) \in RRControls
        BY <2>4, <3>2 DEF Pending, IsRR, RRControls
      <4> QED
        BY <1>0, <2>3, <3>2, <4>1
    <3>3. CASE Pending' = 1 /\ ~(ans.st = "A" /\ Head(sIn) # FLAG)
      <4>1. Pending = 1
        BY <2>1, <2>4, <3>3 DEF Pending
      <4> QED
        BY <2>3, <3>3, <4>1
    <3> QED
      BY <2>2, <3>1, <3>2, <3>3
  <2>6. acked' + Pending' + Opened' + Count(sIn') <= acked + Pending + Opened + Count(sIn)
    BY SMTT(30), <1>0, <2>1, <2>2, <2>3, <2>5
  <2> QED
    BY <2>1, <2>6, SenderBalance DEF NoneBefore
<1>13. ASSUME Receiving, sIn' = Tail(sIn), rOut' = rOut, NEW c, Return(c),
              sPc = "answer" /\ IsRR(c) => Pending = 1
       PROVE  Balance' /\ NoneBefore'
  <2>1. CASE sPc = "answer" /\ IsRR(c)
    <3>1. acked' = acked + 1 /\ sPc' \in {"send", "close"}
      BY <1>13, <2>1 DEF Return, LlwriteReturns
    <3>2. Pending' = 0 /\ Opened' = 1
      BY <3>1 DEF Pending, Opened
    <3>3. acked' + Pending' + Opened' + Count(sIn') <= acked + Pending + Opened + Count(sIn)
      BY <1>0, <1>1, <1>11, <1>13, <2>1, <3>1, <3>2
    <3>4. NoneBefore'
      BY <3>1 DEF NoneBefore
    <3> QED
      BY <1>13, <3>3, <3>4, SenderBalance
  <2>2. CASE sPc = "answer" /\ ~IsRR(c)
    <3>1. acked' = acked /\ sPc' = "send"
      BY <1>13, <2>2, Zenon DEF Return
    <3> QED
      BY <1>2, <1>11, <1>13, <3>1 DEF Pending, Opened, NoneBefore
  <2>3. CASE sPc = "disc"
    <3>1. acked' = acked /\ sPc' \in {"success", "failure"}
      BY <1>13, <2>3 DEF Return, CloseResult
    <3> QED
      BY <1>2, <1>11, <1>13, <3>1 DEF Pending, Opened, NoneBefore
  <2> QED
    BY <1>11, <1>13, <2>1, <2>2, <2>3
<1>14. CASE TwoFlags
  <2>1. ~IsRR(-1)
    BY DEF IsRR, RR
  <2> QED
    BY <1>13, <1>14, <2>1 DEF TwoFlags
<1>15. CASE UnknownControl
  <2>1. /\ Receiving /\ sPc' = "exited" /\ sIn' = Tail(sIn)
        /\ rOut' = rOut /\ acked' = acked
    BY <1>15 DEF UnknownControl
  <2> QED
    BY <1>2, <1>11, <2>1 DEF Pending, Opened, NoneBefore
<1>16. CASE AnswerEnd
  <2>1. Receiving /\ ans.st = "BCC" /\ sIn' = Tail(sIn) /\ rOut' = rOut
    BY <1>16 DEF AnswerEnd
  <2>2. CASE Return(ans.control)
    <3>1. sPc = "answer" /\ IsRR(ans.control) => Pending = 1
      BY <2>1 DEF Pending
    <3> QED
      BY <1>13, <2>1, <2>2, <3>1
  <2>3. CASE Return(-1)
    <3>1. ~IsRR(-1)
      BY DEF IsRR, RR
    <3> QED
      BY <1>13, <2>1, <2>3, <3>1
  <2> QED
    BY <1>16, <2>1, <2>2, <2>3, Zenon DEF AnswerEnd
<1> QED
  BY <1>3, <1>4, <1>5, <1>7, <1>8, <1>9, <1>10, <1>12, <1>14, <1>15, <1>16
  DEF SenderNext, s_receive

\* The receiver writes no more than it has earned.
LEMMA ReceiverBalance ==
  ASSUME Types, Types', Balance, sIn' = sIn, UNCHANGED sender,
         Count(rOut') + Len(accepted) + Greeted + Dying
           <= Count(rOut) + Len(accepted') + Greeted' + Dying'
  PROVE  Balance'
<1>1. acked' = acked /\ Opened' = Opened /\ Pending' = Pending /\ Count(sIn') = Count(sIn)
  BY DEF sender, Opened, Pending
<1>2. /\ Len(accepted') \in Nat /\ Count(rOut') \in Nat
      /\ Greeted' \in {0, 1} /\ Dying' \in {0, 1}
  <2>1. accepted' \in Seq(Seq(Byte)) /\ rOut' \in Seq(Byte)
    BY DEF Types, TypeOK, WireTypeOK, ReceiverTypeOK
  <2> QED
    BY <2>1, CountType DEF Greeted, Dying
<1>3. /\ acked \in Nat /\ Len(accepted) \in Nat /\ Count(sIn) \in Nat /\ Count(rOut) \in Nat
      /\ Opened \in {0, 1} /\ Pending \in {0, 1} /\ Greeted \in {0, 1} /\ Dying \in {0, 1}
  BY Terms
<1>4. acked + Pending + Opened + Count(sIn) + Count(rOut) <= Len(accepted) + Greeted + Dying
  BY DEF Balance
<1>5. acked' + Pending' + Opened' + Count(sIn') + Count(rOut')
        <= Len(accepted') + Greeted' + Dying'
  BY SMTT(30), <1>1, <1>2, <1>3, <1>4
<1> QED
  BY <1>5 DEF Balance

\* The answer of the receiver follows what it has written before.
LEMMA Answering ==
  ASSUME rOut \in Seq(AnswerBytes), NEW answer \in Seq(AnswerBytes), rOut' = rOut \o answer
  PROVE  /\ rOut' \in Seq(AnswerBytes)
         /\ Count(rOut') = Count(rOut) + Count(answer)
         /\ Count(rOut) \in Nat /\ Count(answer) \in Nat
         /\ HoldsDisc(rOut') => HoldsDisc(rOut) \/ HoldsDisc(answer)
<1>1. AnswerBytes \subseteq Byte
  BY DEF AnswerBytes, Byte
<1>2. rOut \in Seq(Byte) /\ answer \in Seq(Byte)
  BY <1>1
<1>3. HoldsDisc(rOut') => HoldsDisc(rOut) \/ HoldsDisc(answer)
  <2>1. ASSUME NEW i \in 1 .. Len(rOut'), rOut'[i] = DISC, i > Len(rOut)
        PROVE  i - Len(rOut) \in 1 .. Len(answer) /\ answer[i - Len(rOut)] = DISC
    BY <2>1
  <2>2. ASSUME NEW i \in 1 .. Len(rOut'), rOut'[i] = DISC, ~(i > Len(rOut))
        PROVE  i \in 1 .. Len(rOut) /\ rOut[i] = DISC
    BY <2>2
  <2> QED
    BY <2>1, <2>2 DEF HoldsDisc
<1>4. rOut' \in Seq(AnswerBytes)
  OBVIOUS
<1> QED
  BY <1>2, <1>3, <1>4, CountConcat, CountType

(***************************************************************************)
(* Every step of the receiver keeps the accounts.                          *)
(***************************************************************************)
LEMMA ReceiverKeepsBalance ==
  ASSUME Types, Types', Balance, Written, ReceiverNext, UNCHANGED sender
  PROVE  Balance' /\ Written'
<1>0. /\ Len(accepted) \in Nat /\ Count(rOut) \in Nat /\ accepted \in Seq(Seq(Byte))
      /\ Greeted \in {0, 1} /\ Dying \in {0, 1} /\ PortTypeOK /\ current_ctrl \in {0, 1}
  BY Terms DEF Types, TypeOK, PortTypeOK, ReceiverTypeOK
<1>1. ASSUME sIn' = sIn, rOut' = rOut, accepted' = accepted, rPc' = rPc
      PROVE  Balance' /\ Written'
  <2>1. Greeted' = Greeted /\ Dying' = Dying
    BY <1>1 DEF Greeted, Dying
  <2>2. Count(rOut') + Len(accepted) + Greeted + Dying
          <= Count(rOut) + Len(accepted') + Greeted' + Dying'
    BY <1>0, <1>1, <2>1
  <2> QED
    BY <1>1, <2>2, ReceiverBalance DEF Written
<1>2. ASSUME NEW answer \in Seq(AnswerBytes), rOut' = rOut \o answer, sIn' = sIn,
             Count(answer) + Len(accepted) + Greeted + Dying <= Len(accepted') + Greeted' + Dying'
      PROVE  Balance' /\ Written'
  <2>1. /\ rOut' \in Seq(AnswerBytes) /\ Count(rOut') = Count(rOut) + Count(answer)
        /\ Count(answer) \in Nat
    BY <1>2, Answering DEF Written
  <2>2. Len(accepted') \in Nat /\ Greeted' \in {0, 1} /\ Dying' \in {0, 1}
    BY DEF Types, TypeOK, ReceiverTypeOK, Greeted, Dying
  <2>3. Count(rOut') + Len(accepted) + Greeted + Dying
          <= Count(rOut) + Len(accepted') + Greeted' + Dying'
    <3>1. Count(answer) + Len(accepted) + Greeted + Dying <= Len(accepted') + Greeted' + Dying'
      BY <1>2
    <3>2. Count(rOut') = Count(rOut) + Count(answer) /\ Count(answer) \in Nat
      BY <2>1
    <3>3. /\ Len(accepted) \in Nat /\ Count(rOut) \in Nat
          /\ Greeted \in {0, 1} /\ Dying \in {0, 1}
      BY <1>0
    <3> QED
      BY SMTT(30), <2>2, <3>1, <3>2, <3>3
  <2> QED
    BY <1>2, <2>1, <2>3, ReceiverBalance DEF Written
<1>3. CASE r_llopen
  <2>1. /\ rOut' = << >> /\ sIn' = sIn /\ accepted' = accepted
        /\ Greeted = 0 /\ Greeted' = 0 /\ Dying = 0 /\ Dying' = 0
    BY <1>3 DEF r_llopen, Greeted, Dying
  <2>2. Count(rOut') = 0
    BY <2>1, CountEmpty
  <2>3. Count(rOut') + Len(accepted) + Greeted + Dying
          <= Count(rOut) + Len(accepted') + Greeted' + Dying'
    BY <1>0, <2>1, <2>2
  <2>4. << >> \in Seq(AnswerBytes)
    OBVIOUS
  <2> QED
    BY <2>1, <2>3, <2>4, ReceiverBalance DEF Written
<1>4. ASSUME NEW pc, NEW control, Unrecognised(pc, control)
      PROVE  Balance' /\ Written'
  BY <1>1, <1>4 DEF Unrecognised
<1>5. CASE r_handshake
  <2>1. CASE Recognised("opening", SET, Supervision(SenderAddress, UA), "reading")
    <3>0. Greeted = 0 /\ Greeted' = 1 /\ Dying = 0 /\ Dying' = 0
      BY <2>1 DEF Recognised, Greeted, Dying
    <3>1. /\ rOut' = rOut \o Supervision(SenderAddress, UA)
          /\ sIn' = sIn /\ accepted' = accepted
      BY <2>1 DEF Recognised
    <3>2. Count(Supervision(SenderAddress, UA)) = 1
      BY Answers
    <3>3. Len(accepted') = Len(accepted) /\ Len(accepted) \in Nat
      BY <1>0, <3>1
    <3>4. Count(Supervision(SenderAddress, UA)) + Len(accepted) + Greeted + Dying <= Len(accepted') + Greeted' + Dying'
      BY <3>0, <3>2, <3>3
    <3> QED
      BY <1>2, <3>1, <3>4, Answers
  <2> QED
    BY <1>4, <1>5, <2>1 DEF r_handshake
<1>6. CASE r_disconnect
  <2>1. CASE Recognised("closing", DISC, Supervision(ReceiverAddress, DISC), "awaitUA")
    <3>0. Greeted = 1 /\ Greeted' = 1 /\ Dying = 0 /\ Dying' = 0
      BY <2>1 DEF Recognised, Greeted, Dying
    <3>1. /\ rOut' = rOut \o Supervision(ReceiverAddress, DISC)
          /\ sIn' = sIn /\ accepted' = accepted
      BY <2>1 DEF Recognised
    <3>2. Count(Supervision(ReceiverAddress, DISC)) = 0
      BY Answers
    <3>3. Len(accepted') = Len(accepted) /\ Len(accepted) \in Nat
      BY <1>0, <3>1
    <3>4. Count(Supervision(ReceiverAddress, DISC)) + Len(accepted) + Greeted + Dying <= Len(accepted') + Greeted' + Dying'
      BY <3>0, <3>2, <3>3
    <3> QED
      BY <1>2, <3>1, <3>4, Answers
  <2> QED
    BY <1>4, <1>6, <2>1 DEF r_disconnect
<1>7. CASE r_verify_if_ua_received
  <2>1. CASE Recognised("awaitUA", UA, << >>, "done")
    <3>0. Greeted = 1 /\ Greeted' = 1 /\ Dying = 0 /\ Dying' = 0
      BY <2>1 DEF Recognised, Greeted, Dying
    <3>1. /\ rOut' = rOut \o << >> /\ << >> \in Seq(AnswerBytes)
          /\ sIn' = sIn /\ accepted' = accepted
      BY <2>1 DEF Recognised
    <3>2. Count(<< >>) = 0
      BY CountEmpty
    <3>3. Len(accepted') = Len(accepted) /\ Len(accepted) \in Nat
      BY <1>0, <3>1
    <3>4. Count(<< >>) + Len(accepted) + Greeted + Dying <= Len(accepted') + Greeted' + Dying'
      BY <3>0, <3>2, <3>3
    <3> QED
      BY <1>2, <3>1, <3>4, Answers
  <2> QED
    BY <1>4, <1>7, <2>1 DEF r_verify_if_ua_received
<1>8. CASE Parsing
  <2>1. Step(dp')
    BY <1>0, <1>8, ParsingSteps, CollectType, DiscardType DEF Moved
  <2> QED
    BY <1>1, <2>1 DEF Step
<1>9. /\ Supervision(ReceiverAddress, RR(current_ctrl)) \in Seq(AnswerBytes)
      /\ Count(Supervision(ReceiverAddress, RR(current_ctrl))) = 1
  BY <1>0, Answers
<1>10. CASE Accept
  <2>1. /\ rOut' = rOut \o Supervision(ReceiverAddress, RR(current_ctrl))
        /\ sIn' = sIn /\ accepted' = Append(accepted, dp.data) /\ rPc = "reading"
    BY <1>10 DEF Accept, AnswerRR
  <2>2. rPc' \in {"closing", "reading"}
    BY <1>10, Zenon DEF Accept
  <2>3. Greeted = 1 /\ Greeted' = 1 /\ Dying = 0 /\ Dying' = 0
    BY <2>1, <2>2 DEF Greeted, Dying
  <2>4. Len(accepted') = Len(accepted) + 1
    BY <1>0, <2>1
  <2>5. Len(accepted) \in Nat
    BY <1>0
  <2>6. Count(Supervision(ReceiverAddress, RR(current_ctrl))) + Len(accepted) + Greeted + Dying
          <= Len(accepted') + Greeted' + Dying'
    BY <1>9, <2>3, <2>4, <2>5
  <2> QED
    BY <1>2, <1>9, <2>1, <2>6
<1>11. CASE Crash
  <2>1. /\ rOut' = rOut \o Supervision(ReceiverAddress, RR(current_ctrl))
        /\ sIn' = sIn /\ accepted' = accepted
        /\ Greeted = 1 /\ Greeted' = 1 /\ Dying = 0 /\ Dying' = 1
    BY <1>11 DEF Crash, AnswerRR, Greeted, Dying
  <2>2. Len(accepted') = Len(accepted) /\ Len(accepted) \in Nat
    BY <1>0, <2>1
  <2>3. Count(Supervision(ReceiverAddress, RR(current_ctrl))) + Len(accepted) + Greeted + Dying
          <= Len(accepted') + Greeted' + Dying'
    BY <1>9, <2>1, <2>2
  <2> QED
    BY <1>2, <1>9, <2>1, <2>3
<1> QED
  BY <1>3, <1>5, <1>6, <1>7, <1>8, <1>10, <1>11 DEF ReceiverNext

(***************************************************************************)
(* One read of the cable on the way to the transmitter: what arrives was   *)
(* written, and no more of it counts than before.                          *)
(***************************************************************************)
LEMMA CablePiece ==
  ASSUME Types, Written, NEW n \in 1 .. Len(rOut),
         rOut' = SubSeq(rOut, n + 1, Len(rOut)),
         sIn' = sIn \o Carried(SubSeq(rOut, 1, n))
  PROVE  /\ Written'
         /\ Count(sIn') + Count(rOut') <= Count(sIn) + Count(rOut)
         /\ Count(sIn') \in Nat /\ Count(rOut') \in Nat
         /\ Uas(sIn') + Uas(rOut') <= Uas(sIn) + Uas(rOut)
         /\ HoldsDisc(sIn') \/ HoldsDisc(rOut') => HoldsDisc(sIn) \/ HoldsDisc(rOut)
         /\ NoRej(sIn) => NoRej(sIn')
<1> DEFINE piece == SubSeq(rOut, 1, n)
           carried == Carried(piece)
           rest == SubSeq(rOut, n + 1, Len(rOut))
<1>1. /\ connection \in Modes /\ sIn \in Seq(Byte) /\ rOut \in Seq(AnswerBytes)
      /\ rOut \in Seq(Byte)
  BY DEF Types, TypeOK, WireTypeOK, CableTypeOK, Written
<1>2. /\ piece \in Seq(AnswerBytes) /\ Len(piece) = n /\ piece # << >>
      /\ \A i \in 1 .. n : piece[i] = rOut[i]
  <2>1. /\ piece \in Seq(AnswerBytes) /\ Len(piece) = n
        /\ \A i \in 1 .. n : piece[i] = rOut[i]
    BY <1>1
  <2>2. n > 0 /\ Len(<< >>) = 0
    BY <1>1
  <2> QED
    BY SMTT(30), <2>1, <2>2
<1>3. /\ rest \in Seq(AnswerBytes) /\ Len(rest) = Len(rOut) - n
      /\ \A i \in 1 .. Len(rest) : rest[i] = rOut[i + n]
  BY <1>1
<1>4. AnswerBytes \subseteq Byte
  BY DEF AnswerBytes, Byte
<1>5. piece \in Seq(Byte) /\ rest \in Seq(Byte)
  BY <1>2, <1>3, <1>4
<1>6. carried \in Seq(Byte)
  BY <1>1, <1>2, <1>5, CarriedType
<1>7. /\ Count(carried) <= Count(piece) /\ Uas(carried) <= Uas(piece)
      /\ HoldsDisc(carried) => HoldsDisc(piece)
      /\ NoRej(carried)
  BY <1>1, <1>2, CarriedCount
<1>8. HoldsDisc(piece) \/ HoldsDisc(rest) => HoldsDisc(rOut)
  <2>1. HoldsDisc(piece) => HoldsDisc(rOut)
    BY <1>2 DEF HoldsDisc
  <2>2. HoldsDisc(rest) => HoldsDisc(rOut)
    <3>1. ASSUME NEW i \in 1 .. Len(rest), rest[i] = DISC
          PROVE  i + n \in 1 .. Len(rOut) /\ rOut[i + n] = DISC
      BY <1>1, <1>3, <3>1
    <3> QED
      BY <3>1 DEF HoldsDisc
  <2> QED
    BY <2>1, <2>2
<1>9. HoldsDisc(sIn \o carried) => HoldsDisc(sIn) \/ HoldsDisc(carried)
  <2>1. ASSUME NEW i \in 1 .. Len(sIn \o carried), (sIn \o carried)[i] = DISC, i > Len(sIn)
        PROVE  i - Len(sIn) \in 1 .. Len(carried) /\ carried[i - Len(sIn)] = DISC
    BY <1>1, <1>6, <2>1
  <2>2. ASSUME NEW i \in 1 .. Len(sIn \o carried), (sIn \o carried)[i] = DISC, ~(i > Len(sIn))
        PROVE  i \in 1 .. Len(sIn) /\ sIn[i] = DISC
    BY <1>1, <1>6, <2>2
  <2> QED
    BY <2>1, <2>2 DEF HoldsDisc
<1>10. /\ Count(sIn \o carried) = Count(sIn) + Count(carried)
       /\ Uas(sIn \o carried) = Uas(sIn) + Uas(carried)
  BY <1>1, <1>6, TallyConcat DEF Count, Uas
<1>11. Count(rOut) = Count(piece) + Count(rest) /\ Uas(rOut) = Uas(piece) + Uas(rest)
  BY <1>1, TallyCut DEF Count, Uas
<1>12. /\ Count(sIn) \in Nat /\ Count(carried) \in Nat /\ Count(piece) \in Nat
       /\ Count(rest) \in Nat
       /\ Uas(sIn) \in Nat /\ Uas(carried) \in Nat /\ Uas(piece) \in Nat /\ Uas(rest) \in Nat
  BY <1>1, <1>5, <1>6, TallyType DEF Count, Uas
<1>16. NoRej(sIn) => NoRej(sIn \o carried)
  <2>1. ASSUME NEW i \in 1 .. Len(sIn \o carried)
        PROVE  \/ i \in 1 .. Len(sIn) /\ (sIn \o carried)[i] = sIn[i]
               \/ i - Len(sIn) \in 1 .. Len(carried) /\ (sIn \o carried)[i] = carried[i - Len(sIn)]
    BY <1>1, <1>6
  <2> QED
    BY <1>7, <2>1 DEF NoRej
<1> HIDE DEF piece, carried, rest
<1>13. /\ Count(sIn \o carried) + Count(rest) <= Count(sIn) + Count(rOut)
       /\ Uas(sIn \o carried) + Uas(rest) <= Uas(sIn) + Uas(rOut)
  BY <1>7, <1>10, <1>11, <1>12
<1>14. Count(sIn \o carried) \in Nat
  BY <1>10, <1>12
<1>15. sIn' = sIn \o carried /\ rOut' = rest
  BY DEF piece, carried, rest
<1> QED
  BY <1>3, <1>7, <1>8, <1>9, <1>12, <1>13, <1>14, <1>15, <1>16 DEF Written

\* A command leaves the line alone; a read the other way leaves this way alone.
LEMMA CableOther ==
  ASSUME CableNext, ~RxToTx
  PROVE  sIn' = sIn /\ rOut' = rOut
  BY DEF CableNext, Press, TxToRx, wire

-----------------------------------------------------------------------------
\* Nothing is on the line when the programs start.
LEMMA IInvInit == Init => IInv
<1> SUFFICES ASSUME Init PROVE IInv
  OBVIOUS
<1>1. sIn = << >> /\ rOut = << >> /\ sPc = "closed" /\ sHs = "S" /\ acked = 0
  BY DEF Init, WireInit, SenderInit
<1>2. rPc = "closed" /\ accepted = << >>
  BY DEF Init, ReceiverInit
<1>3. Opened = 0 /\ Pending = 0 /\ Greeted = 0 /\ Dying = 0
  BY <1>1, <1>2 DEF Opened, Pending, Greeted, Dying
<1>4. Count(sIn) = 0 /\ Count(rOut) = 0 /\ Len(accepted) = 0
  BY <1>1, <1>2, CountEmpty
<1>5. Balance
  BY <1>1, <1>3, <1>4 DEF Balance
<1>6. << >> \in Seq(AnswerBytes)
  OBVIOUS
<1> QED
  BY <1>1, <1>5, <1>6, TypesInit DEF IInv, NoneBefore, Written

\* Every step of the system keeps the accounts.
LEMMA IInvNext == IInv /\ [Next]_vars => IInv'
<1> SUFFICES ASSUME IInv, [Next]_vars PROVE IInv'
  OBVIOUS
<1>1. Types /\ Balance /\ NoneBefore /\ Written
  BY DEF IInv
<1>2. Types'
  BY <1>1, TypesNext
<1>3. CASE SenderStep
  <2>1. SenderNext /\ UNCHANGED receiver
    BY <1>3, SenderStepIsNext
  <2>2. Balance' /\ NoneBefore' /\ rOut' = rOut
    BY <1>1, <1>2, <2>1, SenderKeepsBalance
  <2> QED
    BY <1>1, <1>2, <2>2 DEF IInv, Written
<1>4. CASE ReceiverStep
  <2>1. ReceiverNext /\ UNCHANGED sender
    BY <1>4 DEF ReceiverStep
  <2>2. Balance' /\ Written'
    BY <1>1, <1>2, <2>1, ReceiverKeepsBalance
  <2>3. NoneBefore'
    BY <1>1, <2>1 DEF sender, NoneBefore
  <2> QED
    BY <1>2, <2>2, <2>3 DEF IInv
<1>5. ASSUME UNCHANGED << sender, receiver >>,
             Count(sIn') + Count(rOut') <= Count(sIn) + Count(rOut),
             Count(sIn') \in Nat, Count(rOut') \in Nat
      PROVE  Balance' /\ NoneBefore'
  <2>1. /\ acked' = acked /\ Opened' = Opened /\ Pending' = Pending
        /\ accepted' = accepted /\ Greeted' = Greeted /\ Dying' = Dying
    BY <1>5 DEF sender, receiver, Opened, Pending, Greeted, Dying
  <2>2. /\ acked \in Nat /\ Len(accepted) \in Nat /\ Count(sIn) \in Nat /\ Count(rOut) \in Nat
        /\ Opened \in {0, 1} /\ Pending \in {0, 1} /\ Greeted \in {0, 1} /\ Dying \in {0, 1}
    BY <1>1, Terms
  <2>3. acked + Pending + Opened + Count(sIn) + Count(rOut) <= Len(accepted) + Greeted + Dying
    BY <1>1 DEF Balance
  <2>4. acked + Pending + Opened + Count(sIn') + Count(rOut') <= Len(accepted) + Greeted + Dying
    BY <1>5, <2>2, <2>3
  <2>5. NoneBefore'
    BY <1>1, <1>5 DEF sender, NoneBefore
  <2> QED
    BY <2>1, <2>4, <2>5 DEF Balance
<1>6. ASSUME UNCHANGED << sender, receiver >>, sIn' = sIn, rOut' = rOut
      PROVE  IInv'
  <2>1. /\ Count(sIn') + Count(rOut') <= Count(sIn) + Count(rOut)
        /\ Count(sIn') \in Nat /\ Count(rOut') \in Nat
    BY <1>1, <1>6, Terms
  <2> QED
    BY <1>1, <1>2, <1>5, <1>6, <2>1 DEF IInv, Written
<1>7. CASE CableStep
  <2>1. CableNext /\ UNCHANGED << sender, receiver >>
    BY <1>7 DEF CableStep
  <2>2. CASE RxToTx
    <3>1. PICK n \in 1 .. Len(rOut) : /\ rOut' = SubSeq(rOut, n + 1, Len(rOut))
                                      /\ sIn' = sIn \o Carried(SubSeq(rOut, 1, n))
      BY <2>2 DEF RxToTx
    <3>2. /\ Written' /\ Count(sIn') + Count(rOut') <= Count(sIn) + Count(rOut)
          /\ Count(sIn') \in Nat /\ Count(rOut') \in Nat
      BY <1>1, <3>1, CablePiece
    <3> QED
      BY <1>2, <1>5, <2>1, <3>2 DEF IInv
  <2>3. CASE ~RxToTx
    BY <1>6, <2>1, <2>3, CableOther
  <2> QED
    BY <2>2, <2>3
<1>8. CASE UNCHANGED vars
  BY <1>6, <1>8 DEF vars, wire
<1> QED
  BY <1>3, <1>4, <1>7, <1>8 DEF Next, Terminated

(***************************************************************************)
(* For every file, every number of retransmissions, every uninitialised    *)
(* byte, and a cable that loses, cuts and flips what it likes: as long as  *)
(* the receiving process lives, llwrite has reported no frame that llread  *)
(* has not accepted (s_receive and s_send_msg against r_receive_data).     *)
(***************************************************************************)
THEOREM NothingReportedInVain == Spec => []AckedWhileAlive
<1>1. Spec => []IInv
  BY IInvInit, IInvNext, PTL DEF Spec
<1>2. IInv => AckedWhileAlive
  <2> SUFFICES ASSUME IInv, rPc # "crashed" PROVE acked <= Len(accepted)
    BY DEF AckedWhileAlive, AckedIsAccepted
  <2>1. /\ acked \in Nat /\ Len(accepted) \in Nat /\ Count(sIn) \in Nat /\ Count(rOut) \in Nat
        /\ Opened \in {0, 1} /\ Pending \in {0, 1} /\ Greeted \in {0, 1}
    BY Terms DEF IInv
  <2>2. acked + Pending + Opened + Count(sIn) + Count(rOut) <= Len(accepted) + Greeted + Dying
    BY DEF IInv, Balance
  <2>3. Dying = 0
    BY DEF Dying
  <2>4. CASE Opened = 1
    BY <2>1, <2>2, <2>3, <2>4
  <2>5. CASE Opened = 0
    <3>1. acked = 0
      BY <2>5 DEF IInv, NoneBefore, Opened
    <3> QED
      BY <2>1, <3>1
  <2> QED
    BY <2>1, <2>4, <2>5
<1> QED
  BY <1>1, <1>2, PTL

-----------------------------------------------------------------------------
(***************************************************************************)
(* A DISC for the transmitter, from the moment r_disconnect writes it to   *)
(* the success of s_llclose it means.                                      *)
(***************************************************************************)
DiscSent == HoldsDisc(rOut) \/ HoldsDisc(sIn) \/ ans.control = DISC \/ sPc = "success"

Disconnected == rPc \in {"awaitUA", "done"}

ClosingInv == IInv /\ (DiscSent => Disconnected)

\* The sender takes a DISC from the line and nowhere else.
LEMMA SenderKeepsDisc ==
  ASSUME Types, SenderNext, rOut' = rOut, DiscSent'
  PROVE  DiscSent
<1>0. sIn \in Seq(Byte) /\ ans \in AnswerLocals /\ DISC \notin {0, -1}
  BY DEF Types, TypeOK, WireTypeOK, SenderTypeOK, AnswerLocals, DISC
<1>1. HoldsDisc(rOut') => HoldsDisc(rOut)
  OBVIOUS
<1>2. ASSUME sIn # << >>
      PROVE  /\ HoldsDisc(Tail(sIn)) => HoldsDisc(sIn)
             /\ Head(sIn) = DISC => HoldsDisc(sIn)
  <2>1. /\ Len(Tail(sIn)) = Len(sIn) - 1 /\ Len(sIn) \in Nat \ {0} /\ Head(sIn) = sIn[1]
        /\ \A i \in 1 .. Len(Tail(sIn)) : Tail(sIn)[i] = sIn[i + 1]
    BY <1>0, <1>2
  <2>2. ASSUME NEW i \in 1 .. Len(Tail(sIn)), Tail(sIn)[i] = DISC
        PROVE  i + 1 \in 1 .. Len(sIn) /\ sIn[i + 1] = DISC
    BY <2>1, <2>2
  <2>3. HoldsDisc(Tail(sIn)) => HoldsDisc(sIn)
    BY <2>2 DEF HoldsDisc
  <2>4. Head(sIn) = DISC => HoldsDisc(sIn)
    BY <2>1 DEF HoldsDisc
  <2> QED
    BY <2>3, <2>4
<1>3. ASSUME sIn' = sIn \/ sIn' = << >> \/ (sIn # << >> /\ sIn' = Tail(sIn)),
             ans'.control = DISC => DiscSent,
             sPc' = "success" => ans.control = DISC
      PROVE  DiscSent
  <2>1. HoldsDisc(sIn') => HoldsDisc(sIn)
    BY <1>2, <1>3 DEF HoldsDisc
  <2> QED
    BY <1>1, <1>3, <2>1 DEF DiscSent
<1>4. CASE s_llopen
  BY <1>3, <1>4 DEF s_llopen, DiscSent
<1>5. CASE s_handshake
  <2>1. /\ sPc' \in {"send", "handshake"} /\ ans' = ans
        /\ sIn # << >> /\ sIn' = Tail(sIn)
    BY <1>5 DEF s_handshake
  <2> QED
    BY <1>3, <2>1 DEF DiscSent
<1>6. CASE s_send_data
  BY <1>3, <1>6 DEF s_send_data, DiscSent
<1>7. ASSUME GiveUp PROVE DiscSent
  <2>1. sPc' = "close" /\ sIn' = sIn /\ ans' = ans
    BY <1>7, Zenon DEF GiveUp, LlwriteReturns
  <2> QED
    BY <1>3, <2>1 DEF DiscSent
<1>8. CASE SelectReady
  <2>1. CASE ~GiveUp
    <3>1. sPc' = "answer" /\ sIn' = sIn /\ ans'.control = 0
      BY <1>8, <2>1 DEF SelectReady, wire, Answer
    <3> QED
      BY <1>0, <1>3, <3>1
  <2> QED
    BY <1>7, <2>1
<1>9. CASE SelectTimeout
  <2>1. CASE ~GiveUp
    <3>1. sPc' = "sleep" /\ sIn' = sIn /\ ans' = ans
      BY <1>9, <2>1 DEF SelectTimeout, wire
    <3> QED
      BY <1>3, <3>1 DEF DiscSent
  <2> QED
    BY <1>7, <2>1
<1>10. CASE Sleep
  BY <1>3, <1>10 DEF Sleep, wire, DiscSent
<1>11. CASE s_disconnect
  <2>1. sPc' = "disc" /\ sIn' = sIn /\ ans'.control = 0
    BY <1>11 DEF s_disconnect, Answer
  <2> QED
    BY <1>0, <1>3, <2>1
<1>12. CASE AnswerByte
  <2>1. sIn # << >> /\ sIn' = Tail(sIn) /\ sPc' \in {"answer", "disc"}
    BY <1>12 DEF AnswerByte, Receiving
  <2>2. ans'.control \in {ans.control, Head(sIn)}
    <3>1. Head(sIn) \in Byte
      BY <1>0, <2>1
    <3> QED
      BY <1>0, <1>12, <3>1, AnswerByteStep
  <2>3. ans'.control = DISC => DiscSent
    BY <1>2, <2>1, <2>2 DEF DiscSent
  <2> QED
    BY <1>3, <2>1, <2>3
<1>13. ASSUME Receiving, sIn' = Tail(sIn), ans' = ans, NEW c, Return(c),
              c = DISC => ans.control = DISC
       PROVE  DiscSent
  <2>1. sIn # << >> /\ sPc \in {"answer", "disc"}
    BY <1>13 DEF Receiving
  <2>2. sPc' = "success" => ans.control = DISC
    <3>1. CASE sPc = "disc"
      BY <1>13, <3>1 DEF Return, CloseResult, IsDisc
    <3>2. CASE sPc = "answer"
      <4>1. sPc' \in {"send", "close"}
        BY <1>13, <3>2 DEF Return, LlwriteReturns
      <4> QED
        BY <4>1
    <3> QED
      BY <2>1, <3>1, <3>2
  <2> QED
    BY <1>3, <1>13, <2>1, <2>2 DEF DiscSent
<1>14. CASE TwoFlags
  BY <1>0, <1>13, <1>14 DEF TwoFlags
<1>15. CASE UnknownControl
  <2>1. sIn # << >> /\ sIn' = Tail(sIn) /\ sPc' = "exited" /\ ans' = ans
    BY <1>15 DEF UnknownControl, Receiving
  <2> QED
    BY <1>3, <2>1 DEF DiscSent
<1>16. CASE AnswerEnd
  <2>1. Receiving /\ sIn' = Tail(sIn) /\ ans' = ans
    BY <1>16 DEF AnswerEnd
  <2>2. Return(ans.control) \/ Return(-1)
    BY <1>16, Zenon DEF AnswerEnd
  <2> QED
    BY <1>0, <1>13, <2>1, <2>2
<1> QED
  BY <1>4, <1>5, <1>6, <1>8, <1>9, <1>10, <1>11, <1>12, <1>14, <1>15, <1>16
  DEF SenderNext, s_receive

\* The receiver writes a DISC only on its way to r_verify_if_ua_received,
\* which it does not leave but to its end.
LEMMA ReceiverKeepsDisc ==
  ASSUME Types, Written, ReceiverNext, UNCHANGED sender, DiscSent => Disconnected, DiscSent'
  PROVE  Disconnected'
<1>0. current_ctrl \in {0, 1} /\ PortTypeOK
  BY DEF Types, TypeOK, PortTypeOK, ReceiverTypeOK
<1>1. ASSUME sIn' = sIn, HoldsDisc(rOut') => HoldsDisc(rOut),
             Disconnected => Disconnected'
      PROVE  Disconnected'
  BY <1>1 DEF sender, DiscSent
<1>2. CASE r_llopen
  <2>1. sIn' = sIn /\ ~HoldsDisc(rOut') /\ ~Disconnected
    BY <1>2 DEF r_llopen, HoldsDisc, Disconnected
  <2> QED
    BY <1>1, <2>1
<1>3. ASSUME NEW pc, NEW control, Unrecognised(pc, control)
      PROVE  Disconnected'
  BY <1>1, <1>3 DEF Unrecognised, Disconnected
<1>4. CASE r_handshake
  <2>1. CASE Recognised("opening", SET, Supervision(SenderAddress, UA), "reading")
    <3>1. /\ rOut' = rOut \o Supervision(SenderAddress, UA) /\ sIn' = sIn /\ ~Disconnected
      BY <2>1 DEF Recognised, Disconnected
    <3>2. HoldsDisc(rOut') => HoldsDisc(rOut)
      BY <3>1, Answers, Answering DEF Written
    <3> QED
      BY <1>1, <3>1, <3>2
  <2> QED
    BY <1>3, <1>4, <2>1 DEF r_handshake
<1>5. CASE r_disconnect
  <2>1. CASE Recognised("closing", DISC, Supervision(ReceiverAddress, DISC), "awaitUA")
    BY <2>1 DEF Recognised, Disconnected
  <2> QED
    BY <1>3, <1>5, <2>1 DEF r_disconnect
<1>6. CASE r_verify_if_ua_received
  <2>1. CASE Recognised("awaitUA", UA, << >>, "done")
    BY <2>1 DEF Recognised, Disconnected
  <2> QED
    BY <1>3, <1>6, <2>1 DEF r_verify_if_ua_received
<1>7. CASE Parsing
  <2>1. Step(dp')
    BY <1>0, <1>7, ParsingSteps, CollectType, DiscardType DEF Moved
  <2> QED
    BY <1>1, <2>1 DEF Step, Disconnected
<1>8. ASSUME AnswerRR, rPc = "reading", sIn' = sIn PROVE Disconnected'
  <2>1. HoldsDisc(rOut') => HoldsDisc(rOut)
    BY <1>0, <1>8, Answers, Answering DEF AnswerRR, Written
  <2> QED
    BY <1>1, <1>8, <2>1 DEF Disconnected
<1>9. CASE Accept
  BY <1>8, <1>9 DEF Accept
<1>10. CASE Crash
  BY <1>8, <1>10 DEF Crash
<1> QED
  BY <1>2, <1>4, <1>5, <1>6, <1>7, <1>9, <1>10 DEF ReceiverNext

\* Nothing has been closed at first.
LEMMA ClosingInit == Init => ClosingInv
<1> SUFFICES ASSUME Init PROVE ClosingInv
  OBVIOUS
<1>1. sIn = << >> /\ rOut = << >> /\ sPc = "closed" /\ ans.control = 0
  BY DEF Init, WireInit, SenderInit, Answer
<1>2. ~DiscSent
  BY <1>1 DEF DiscSent, HoldsDisc, DISC
<1> QED
  BY <1>2, IInvInit DEF ClosingInv

\* No step sends a DISC but the one that answers.
LEMMA ClosingNext == ClosingInv /\ [Next]_vars => ClosingInv'
<1> SUFFICES ASSUME ClosingInv, [Next]_vars PROVE ClosingInv'
  OBVIOUS
<1>1. IInv' /\ IInv /\ Types /\ Balance /\ NoneBefore /\ Written /\ Types'
  BY IInvNext DEF ClosingInv, IInv
<1>2. DiscSent => Disconnected
  BY DEF ClosingInv
<1>3. CASE SenderStep
  <2>1. SenderNext /\ UNCHANGED receiver
    BY <1>3, SenderStepIsNext
  <2>2. rOut' = rOut
    BY <1>1, <2>1, SenderKeepsBalance
  <2>3. DiscSent' => Disconnected'
    BY <1>1, <1>2, <2>1, <2>2, SenderKeepsDisc DEF receiver, Disconnected
  <2> QED
    BY <1>1, <2>3 DEF ClosingInv
<1>4. CASE ReceiverStep
  <2>1. ReceiverNext /\ UNCHANGED sender
    BY <1>4 DEF ReceiverStep
  <2> QED
    BY <1>1, <1>2, <2>1, ReceiverKeepsDisc DEF ClosingInv
<1>5. ASSUME UNCHANGED << sender, receiver >>,
             HoldsDisc(sIn') \/ HoldsDisc(rOut') => HoldsDisc(sIn) \/ HoldsDisc(rOut)
      PROVE  ClosingInv'
  BY <1>1, <1>2, <1>5 DEF sender, receiver, ClosingInv, DiscSent, Disconnected
<1>6. CASE CableStep
  <2>1. CableNext /\ UNCHANGED << sender, receiver >>
    BY <1>6 DEF CableStep
  <2>2. CASE RxToTx
    <3>1. PICK n \in 1 .. Len(rOut) : /\ rOut' = SubSeq(rOut, n + 1, Len(rOut))
                                      /\ sIn' = sIn \o Carried(SubSeq(rOut, 1, n))
      BY <2>2 DEF RxToTx
    <3> QED
      BY <1>1, <1>5, <2>1, <3>1, CablePiece
  <2>3. CASE ~RxToTx
    BY <1>5, <2>1, <2>3, CableOther
  <2> QED
    BY <2>2, <2>3
<1>7. CASE UNCHANGED vars
  BY <1>5, <1>7 DEF vars, wire
<1> QED
  BY <1>3, <1>4, <1>6, <1>7 DEF Next, Terminated

(***************************************************************************)
(* Whatever the cable does, s_llclose succeeds only when r_disconnect has  *)
(* answered: the first half of CloseAgreement, for every instance.         *)
(***************************************************************************)
THEOREM SuccessIsAnswered == Spec => [](sPc = "success" => rPc \in {"awaitUA", "done"})
<1>1. ClosingInv => (sPc = "success" => rPc \in {"awaitUA", "done"})
  BY DEF ClosingInv, DiscSent, Disconnected
<1> QED
  BY <1>1, ClosingInit, ClosingNext, PTL DEF Spec


-----------------------------------------------------------------------------
\* The receiver's bit counts what it has accepted; r_llopen resets it before
\* there is anything.
BitFollows ==
  /\ current_ctrl = Len(accepted) % 2
  /\ rPc = "closed" => accepted = << >>

\* Only r_llopen and the acceptance of a body touch the bit.
LEMMA BitStep ==
  ASSUME Types, BitFollows, ReceiverNext
  PROVE  BitFollows'
<1>1. /\ accepted \in Seq(Seq(Byte)) /\ dp.data \in Seq(Byte) /\ Len(accepted) \in Nat
      /\ current_ctrl = Len(accepted) % 2 /\ PortTypeOK
  BY DEF Types, TypeOK, PortTypeOK, ReceiverTypeOK, BitFollows
<1>2. ASSUME UNCHANGED << current_ctrl, accepted >>, rPc' # "closed" PROVE BitFollows'
  BY <1>1, <1>2 DEF BitFollows
<1>3. CASE r_llopen
  <2>1. accepted' = << >> /\ current_ctrl' = 0
    BY <1>3 DEF r_llopen, BitFollows
  <2> QED
    BY <2>1 DEF BitFollows
<1>4. CASE r_handshake \/ r_disconnect \/ r_verify_if_ua_received \/ Crash
  BY <1>2, <1>4
  DEF r_handshake, r_disconnect, r_verify_if_ua_received, Crash, Unrecognised, Recognised
<1>5. CASE Parsing
  <2>1. PICK b \in Input : Moved \/ Collect(b) \/ Discard(b)
    BY <1>1, <1>5, ParsingSteps
  <2>2. Step(dp')
    BY <1>1, <2>1, CollectType, DiscardType DEF Moved
  <2> QED
    BY <1>2, <1>5, <2>2 DEF Step, Parsing
<1>6. CASE Accept
  <2>1. /\ accepted' = Append(accepted, dp.data) /\ current_ctrl' = 1 - current_ctrl
        /\ rPc' # "closed"
    BY <1>6, Zenon DEF Accept, ToggleCtrl
  <2>2. PICK n \in Nat : n = Len(accepted)
    BY <1>1
  <2>3. Len(accepted') = n + 1 /\ current_ctrl' = 1 - (n % 2)
    <3>1. Len(Append(accepted, dp.data)) = Len(accepted) + 1
      BY <1>1
    <3>2. Len(accepted') = n + 1
      BY <2>1, <2>2, <3>1
    <3>3. current_ctrl = n % 2
      BY <1>1, <2>2
    <3>4. current_ctrl' = 1 - current_ctrl
      BY <2>1
    <3> QED
      BY <3>2, <3>3, <3>4
  <2>4. (n + 1) % 2 = 1 - (n % 2)
    OBVIOUS
  <2> QED
    BY <2>1, <2>3, <2>4 DEF BitFollows
<1> QED
  BY <1>3, <1>4, <1>5, <1>6 DEF ReceiverNext

(***************************************************************************)
(* Whatever the cable does, current_ctrl is the parity of the number of    *)
(* frames llread has accepted: the receiver's half of SequenceBits.        *)
(***************************************************************************)
THEOREM ReceiverBitCounts == Spec => [](current_ctrl = Len(accepted) % 2)
<1> DEFINE Inv == Types /\ BitFollows
<1>1. Init => Inv
  BY TypesInit DEF Init, ReceiverInit, BitFollows
<1>2. Inv /\ [Next]_vars => Inv'
  <2> SUFFICES ASSUME Inv, [Next]_vars PROVE Inv'
    OBVIOUS
  <2>1. Types'
    BY TypesNext
  <2>2. CASE ReceiverStep
    BY <2>1, <2>2, BitStep DEF ReceiverStep
  <2>3. CASE SenderStep \/ CableStep \/ UNCHANGED vars
    <3>1. UNCHANGED receiver
      BY <2>3, SenderStepIsNext DEF CableStep, vars
    <3> QED
      BY <2>1, <3>1 DEF receiver, BitFollows
  <2> QED
    BY <2>2, <2>3 DEF Next, Terminated
<1>3. Inv => current_ctrl = Len(accepted) % 2
  BY DEF BitFollows
<1> QED
  BY <1>1, <1>2, <1>3, PTL DEF Spec

-----------------------------------------------------------------------------
\* The handshake of the sender has taken the control field of the UA.
UaSpent == IF sPc \in {"closed", "handshake"} /\ sHs \notin {"C", "B"} THEN 0 ELSE 1

\* Only r_handshake writes a UA, and s_handshake does not end without it.
UaBalance == UaSpent + Uas(sIn) + Uas(rOut) <= Greeted

\* What s_receive takes for a control field.
ControlKnown ==
  /\ ans.control \notin {UA, REJ(0), REJ(1)}
  /\ ans.st \in {"C", "BCC"} => ans.control \in AnswerControls

\* The sender's bit, up to llclose.
SenderBit ==
  sPc \in {"closed", "handshake", "send", "select", "sleep", "answer"} => s_ctrl = acked % 2

Numbered == UaBalance /\ NoRej(sIn) /\ ControlKnown /\ (~Disconnected => SenderBit)

\* The handshake passes from A to C only with the control field of a UA.
LEMMA HandshakeTakes ==
  ASSUME NEW b, sHs \in Hunting, sHs \notin {"C", "B"}, s_Recognise(sHs, b, UA) \in {"C", "B", "Z"}
  PROVE  b = UA
BY DEF s_Recognise, Expected, Advance, Hunting

\* The terms of UaBalance are natural numbers.
LEMMA UaTerms ==
  ASSUME Types
  PROVE  Uas(sIn) \in Nat /\ Uas(rOut) \in Nat /\ UaSpent \in {0, 1} /\ Greeted \in {0, 1}
<1>1. Len(sIn) \in Nat /\ Len(rOut) \in Nat
  BY DEF Types, TypeOK, WireTypeOK
<1> QED
  BY <1>1, TallyType DEF Uas, UaSpent, Greeted

\* No REJ, and once the handshake has its UA no other, is read by s_receive.
LEMMA NextControl ==
  ASSUME Types, UaBalance, NoRej(sIn), sIn # << >>
  PROVE  /\ Head(sIn) \in Byte /\ Head(sIn) \notin {REJ(0), REJ(1)}
         /\ UaSpent = 1 => Head(sIn) # UA
         /\ NoRej(Tail(sIn)) /\ Uas(Tail(sIn)) \in Nat
         /\ Uas(sIn) = Uas(Tail(sIn)) + (IF Head(sIn) = UA THEN 1 ELSE 0)
<1>1. sIn \in Seq(Byte)
  BY DEF Types, TypeOK, WireTypeOK
<1>2. /\ Head(sIn) \in Byte /\ Uas(Tail(sIn)) \in Nat
      /\ Uas(sIn) = Uas(Tail(sIn)) + (IF Head(sIn) \in {UA} THEN 1 ELSE 0)
  BY <1>1, TallyHead DEF Uas
<1>3. /\ Len(Tail(sIn)) = Len(sIn) - 1 /\ Len(sIn) \in Nat \ {0} /\ Head(sIn) = sIn[1]
      /\ \A i \in 1 .. Len(Tail(sIn)) : Tail(sIn)[i] = sIn[i + 1]
  BY <1>1
<1>4. NoRej(Tail(sIn)) /\ Head(sIn) \notin {REJ(0), REJ(1)}
  <2>1. ASSUME NEW i \in 1 .. Len(Tail(sIn)) PROVE i + 1 \in 1 .. Len(sIn)
    BY <1>3
  <2>2. 1 \in 1 .. Len(sIn)
    BY <1>3
  <2> QED
    BY <1>3, <2>1, <2>2 DEF NoRej
<1>5. UaSpent = 1 => Uas(sIn) = 0
  BY UaTerms DEF UaBalance
<1> QED
  BY <1>2, <1>4, <1>5

(***************************************************************************)
(* Every step of the sender keeps the account of the UA, and its bit       *)
(* counts what it has reported.                                            *)
(***************************************************************************)
LEMMA SenderKeepsNumber ==
  ASSUME Types, Types', Numbered, DiscSent => Disconnected,
         SenderNext, rOut' = rOut, UNCHANGED receiver
  PROVE  Numbered'
<1>0. /\ ans \in AnswerLocals /\ sHs \in Hunting /\ s_ctrl \in {0, 1} /\ acked \in Nat
      /\ Uas(sIn) \in Nat /\ Uas(rOut) \in Nat /\ UaSpent \in {0, 1} /\ Greeted \in {0, 1}
      /\ UaBalance /\ NoRej(sIn) /\ ControlKnown /\ (~Disconnected => SenderBit)
      /\ Greeted' = Greeted /\ Disconnected' = Disconnected
  BY UaTerms DEF Types, TypeOK, SenderTypeOK, AnswerLocals, Numbered, Greeted, Disconnected, receiver
<1>1. ASSUME sIn' = sIn \/ sIn' = << >> \/ (sIn # << >> /\ sIn' = Tail(sIn)),
             UaSpent' = UaSpent, ControlKnown', ~Disconnected => SenderBit'
      PROVE  Numbered'
  <2>1. NoRej(sIn') /\ Uas(sIn') \in Nat /\ Uas(sIn') <= Uas(sIn)
    <3>1. Uas(<< >>) = 0 /\ NoRej(<< >>)
      BY TallyEmpty DEF Uas, NoRej
    <3>2. CASE sIn # << >> /\ sIn' = Tail(sIn)
      BY <1>0, <3>2, NextControl
    <3> QED
      BY <1>0, <1>1, <3>1, <3>2
  <2>2. UaBalance'
    BY <1>0, <1>1, <2>1 DEF UaBalance
  <2> QED
    BY <1>0, <1>1, <2>1, <2>2 DEF Numbered
<1>2. ControlKnown /\ ans' = ans => ControlKnown'
  BY DEF ControlKnown
<1>3. ASSUME SenderBit, s_ctrl' = s_ctrl, acked' = acked,
             sPc \notin {"close", "disc", "success", "failure", "exited"}
      PROVE  SenderBit'
  BY <1>3, <1>0 DEF SenderBit, Types, TypeOK, SenderTypeOK
<1>4. CASE s_llopen
  <2>1. /\ sIn' = << >> /\ UaSpent' = UaSpent /\ ans' = ans
        /\ sPc = "closed" /\ s_ctrl' = s_ctrl /\ acked' = acked
    BY <1>4 DEF s_llopen, UaSpent
  <2> QED
    BY <1>0, <1>1, <1>2, <1>3, <2>1
<1>5. CASE s_handshake
  <2> DEFINE h == s_Recognise(sHs, Head(sIn), UA)
  <2>1. /\ sPc = "handshake" /\ sIn # << >> /\ sIn' = Tail(sIn) /\ ans' = ans
        /\ s_ctrl' = s_ctrl /\ acked' = acked
        /\ IF h = "Z" THEN sPc' = "send" /\ sHs' = sHs ELSE sHs' = h /\ sPc' = sPc
    BY <1>5 DEF s_handshake
  <2>2. sHs \notin {"C", "B"} /\ h \in {"C", "B", "Z"} => Head(sIn) = UA
    BY <1>0, HandshakeTakes
  <2> HIDE DEF h
  <2>3. /\ NoRej(sIn') /\ Uas(sIn') \in Nat
        /\ Uas(sIn) = Uas(sIn') + (IF Head(sIn) = UA THEN 1 ELSE 0)
    BY <1>0, <2>1, NextControl
  <2>4. UaSpent' + Uas(sIn') <= UaSpent + Uas(sIn)
    <3>1. CASE UaSpent = 1
      BY <2>3, <3>1 DEF UaSpent
    <3>2. CASE UaSpent = 0 /\ h \in {"C", "B", "Z"}
      <4>1. Head(sIn) = UA
        BY <2>1, <2>2, <3>2 DEF UaSpent
      <4>2. UaSpent' \in {0, 1}
        BY DEF UaSpent
      <4> QED
        BY <2>3, <3>2, <4>1, <4>2
    <3>3. CASE UaSpent = 0 /\ h \notin {"C", "B", "Z"}
      <4>1. UaSpent' = 0
        BY <2>1, <3>3 DEF UaSpent
      <4> QED
        BY <2>3, <3>3, <4>1
    <3> QED
      BY <1>0, <3>1, <3>2, <3>3
  <2>5. UaBalance'
    <3>1. UaSpent' \in {0, 1}
      BY DEF UaSpent
    <3> QED
      BY <1>0, <2>3, <2>4, <3>1 DEF UaBalance
  <2>6. ~Disconnected => SenderBit'
    BY <1>0, <1>3, <2>1
  <2> QED
    BY <1>0, <1>2, <2>1, <2>3, <2>5, <2>6 DEF Numbered
<1>6. CASE s_send_data
  <2>1. /\ sIn' = sIn /\ UaSpent' = UaSpent /\ ans' = ans
        /\ sPc = "send" /\ s_ctrl' = s_ctrl /\ acked' = acked
    BY <1>6 DEF s_send_data, UaSpent
  <2> QED
    BY <1>0, <1>1, <1>2, <1>3, <2>1
<1>7. ASSUME GiveUp, sPc = "select" PROVE Numbered'
  <2>1. sPc' = "close" /\ sIn' = sIn /\ ans' = ans
    BY <1>7, Zenon DEF GiveUp, LlwriteReturns
  <2>2. UaSpent' = UaSpent /\ SenderBit'
    BY <1>7, <2>1 DEF UaSpent, SenderBit
  <2> QED
    BY <1>0, <1>1, <1>2, <2>1, <2>2
<1>8. \A bit : Answer(bit).control = 0 /\ Answer(bit).st = "Start"
  BY DEF Answer
<1>9. ASSUME NEW bit, ans' = Answer(bit) PROVE ControlKnown'
  BY <1>8, <1>9 DEF ControlKnown, UA, REJ
<1>10. CASE SelectReady
  <2>1. CASE ~GiveUp
    <3>1. /\ sPc = "select" /\ sPc' = "answer" /\ sIn' = sIn /\ ans' = Answer(s_ctrl)
          /\ s_ctrl' = s_ctrl /\ acked' = acked
      BY <1>10, <2>1 DEF SelectReady, wire
    <3>2. UaSpent' = UaSpent
      BY <3>1 DEF UaSpent
    <3> QED
      BY <1>0, <1>1, <1>3, <1>9, <3>1, <3>2
  <2> QED
    BY <1>7, <1>10, <2>1 DEF SelectReady
<1>11. CASE SelectTimeout
  <2>1. CASE ~GiveUp
    <3>1. /\ sPc = "select" /\ sPc' = "sleep" /\ sIn' = sIn /\ ans' = ans
          /\ s_ctrl' = s_ctrl /\ acked' = acked
      BY <1>11, <2>1 DEF SelectTimeout, wire
    <3>2. UaSpent' = UaSpent
      BY <3>1 DEF UaSpent
    <3> QED
      BY <1>0, <1>1, <1>2, <1>3, <3>1, <3>2
  <2> QED
    BY <1>7, <1>11, <2>1 DEF SelectTimeout
<1>12. CASE Sleep
  <2>1. /\ sPc = "sleep" /\ sPc' = "send" /\ sIn' = sIn /\ ans' = ans
        /\ s_ctrl' = s_ctrl /\ acked' = acked
    BY <1>12 DEF Sleep, wire
  <2>2. UaSpent' = UaSpent
    BY <2>1 DEF UaSpent
  <2> QED
    BY <1>0, <1>1, <1>2, <1>3, <2>1, <2>2
<1>13. CASE s_disconnect
  <2>1. /\ sPc = "close" /\ sPc' = "disc" /\ sIn' = sIn /\ ans' = Answer(s_ctrl)
    BY <1>13 DEF s_disconnect
  <2>2. UaSpent' = UaSpent /\ SenderBit'
    BY <2>1 DEF UaSpent, SenderBit
  <2> QED
    BY <1>0, <1>1, <1>9, <2>1, <2>2
<1>14. ASSUME Receiving
       PROVE  /\ sIn # << >> /\ sPc \in {"answer", "disc"} /\ UaSpent = 1
              /\ Head(sIn) \in Byte /\ Head(sIn) \notin {UA, REJ(0), REJ(1)}
  <2>1. sIn # << >> /\ sPc \in {"answer", "disc"} /\ UaSpent = 1
    BY <1>14 DEF Receiving, UaSpent
  <2> QED
    BY <1>0, <2>1, NextControl
<1>15. CASE AnswerByte
  <2>1. /\ Receiving /\ sIn' = Tail(sIn) /\ sPc' = sPc /\ s_ctrl' = s_ctrl /\ acked' = acked
        /\ ans.st = "A" => Head(sIn) \in AnswerControls \cup {FLAG}
    BY <1>15 DEF AnswerByte
  <2>2. /\ ans.st = "A" /\ Head(sIn) # FLAG => ans'.st = "C" /\ ans'.control = Head(sIn)
        /\ ~(ans.st = "A" /\ Head(sIn) # FLAG) => ans'.control = ans.control
        /\ ans'.st \in {"C", "BCC"} => ans.st = "C" \/ (ans.st = "A" /\ Head(sIn) # FLAG)
    BY <1>0, <1>14, <1>15, <2>1, AnswerByteStep
  <2>3. ControlKnown'
    BY <1>0, <1>14, <2>1, <2>2 DEF ControlKnown
  <2>4. UaSpent' = UaSpent
    BY <1>14, <2>1 DEF UaSpent
  <2>5. ~Disconnected => SenderBit'
    BY <1>0, <2>1 DEF SenderBit
  <2> QED
    BY <1>1, <1>14, <2>1, <2>3, <2>4, <2>5
<1>16. ASSUME Receiving, sIn' = Tail(sIn), ans' = ans, sPc' # "closed", sPc' # "handshake",
              ~Disconnected => SenderBit'
       PROVE  Numbered'
  <2>1. UaSpent' = UaSpent
    BY <1>14, <1>16 DEF UaSpent
  <2> QED
    BY <1>0, <1>1, <1>2, <1>14, <1>16, <2>1
<1>17. ASSUME Receiving, sIn' = Tail(sIn), ans' = ans, Return(-1), s_ctrl' = s_ctrl
       PROVE  Numbered'
  <2>1. CASE sPc = "answer"
    <3>1. ~IsRR(-1)
      BY DEF IsRR, RR
    <3>2. sPc' = "send" /\ acked' = acked
      BY <1>17, <2>1, <3>1, Zenon DEF Return
    <3>3. ~Disconnected => SenderBit'
      BY <1>0, <1>3, <1>17, <2>1, <3>2
    <3> QED
      BY <1>16, <1>17, <3>2, <3>3
  <2>2. CASE sPc = "disc"
    <3>1. sPc' \in {"success", "failure"}
      BY <1>17, <2>2 DEF Return, CloseResult
    <3> QED
      BY <1>16, <1>17, <3>1 DEF SenderBit
  <2> QED
    BY <1>14, <1>17, <2>1, <2>2
<1>18. CASE TwoFlags
  BY <1>17, <1>18 DEF TwoFlags
<1>19. CASE UnknownControl
  BY <1>16, <1>19 DEF UnknownControl, SenderBit
<1>20. CASE AnswerEnd
  <2>1. /\ Receiving /\ ans.st = "BCC" /\ sIn' = Tail(sIn) /\ ans' = ans
        /\ \/ s_ctrl' = 1 - s_ctrl /\ Return(ans.control)
           \/ s_ctrl' = s_ctrl /\ Return(-1)
    BY <1>20, Zenon DEF AnswerEnd
  <2>2. CASE s_ctrl' = 1 - s_ctrl /\ Return(ans.control)
    <3>1. CASE sPc = "disc"
      <4>1. sPc' \in {"success", "failure"}
        BY <2>2, <3>1 DEF Return, CloseResult
      <4> QED
        BY <1>16, <2>1, <4>1 DEF SenderBit
    <3>2. CASE sPc = "answer"
      <4>1. sPc' \in {"send", "close"}
        BY <2>2, <3>2 DEF Return, LlwriteReturns
      <4>2. ASSUME ~Disconnected PROVE SenderBit'
        <5>1. ans.control \in AnswerControls \ {UA, DISC, REJ(0), REJ(1)}
          BY <1>0, <2>1, <4>2 DEF ControlKnown, DiscSent
        <5>2. IsRR(ans.control)
          BY <5>1 DEF AnswerControls, IsRR
        <5>3. acked' = acked + 1
          BY <2>2, <3>2, <5>2, Zenon DEF Return, LlwriteReturns
        <5>4. s_ctrl = acked % 2
          BY <1>0, <3>2, <4>2 DEF SenderBit
        <5>5. 1 - (acked % 2) = (acked + 1) % 2
          BY <1>0
        <5> QED
          BY <2>2, <5>3, <5>4, <5>5 DEF SenderBit
      <4> QED
        BY <1>16, <2>1, <4>1, <4>2
    <3> QED
      BY <1>14, <2>1, <3>1, <3>2
  <2> QED
    BY <1>17, <2>1, <2>2
<1> QED
  BY <1>4, <1>5, <1>6, <1>10, <1>11, <1>12, <1>13, <1>15, <1>18, <1>19, <1>20
  DEF SenderNext, s_receive

(***************************************************************************)
(* The receiver writes one UA, when it has been greeted.                   *)
(***************************************************************************)
LEMMA ReceiverKeepsNumber ==
  ASSUME Types, Types', Numbered, Written, ReceiverNext, UNCHANGED sender
  PROVE  Numbered'
<1>0. /\ current_ctrl \in {0, 1} /\ PortTypeOK
      /\ Uas(sIn) \in Nat /\ Uas(rOut) \in Nat /\ UaSpent \in {0, 1} /\ Greeted \in {0, 1}
      /\ UaBalance /\ NoRej(sIn) /\ ControlKnown /\ (~Disconnected => SenderBit)
      /\ UaSpent' = UaSpent /\ ControlKnown' /\ (SenderBit => SenderBit')
      /\ Greeted' \in {0, 1}
  BY UaTerms
  DEF Types, TypeOK, PortTypeOK, ReceiverTypeOK, Numbered, UaSpent, ControlKnown, SenderBit, sender,
      Greeted
<1>1. ASSUME sIn' = sIn, Uas(rOut') <= Uas(rOut) + Greeted' - Greeted,
             Uas(rOut') \in Nat, Disconnected => Disconnected'
      PROVE  Numbered'
  BY <1>0, <1>1 DEF Numbered, UaBalance
<1>2. ASSUME sIn' = sIn, rOut' = rOut, rPc' = rPc
      PROVE  Numbered'
  BY <1>0, <1>1, <1>2 DEF Greeted, Disconnected
<1>3. ASSUME NEW answer \in Seq(AnswerBytes), rOut' = rOut \o answer, sIn' = sIn,
             Uas(answer) <= Greeted' - Greeted, Disconnected => Disconnected'
      PROVE  Numbered'
  <2>1. AnswerBytes \subseteq Byte
    BY DEF AnswerBytes, Byte
  <2>2. answer \in Seq(Byte) /\ rOut \in Seq(Byte)
    BY <2>1 DEF Written
  <2>3. Uas(rOut') = Uas(rOut) + Uas(answer) /\ Uas(answer) \in Nat
    BY <1>3, <2>2, TallyConcat, TallyType DEF Uas
  <2> QED
    BY <1>0, <1>1, <1>3, <2>3
<1>4. ASSUME NEW pc, NEW control, Unrecognised(pc, control) PROVE Numbered'
  BY <1>2, <1>4 DEF Unrecognised
<1>5. CASE r_llopen
  <2>1. /\ rOut' = << >> /\ sIn' = sIn /\ Greeted' = Greeted /\ ~Disconnected
    BY <1>5 DEF r_llopen, Greeted, Disconnected
  <2>2. Uas(<< >>) = 0
    BY TallyEmpty DEF Uas
  <2> QED
    BY <1>0, <1>1, <2>1, <2>2
<1>6. CASE r_handshake
  <2>1. CASE Recognised("opening", SET, Supervision(SenderAddress, UA), "reading")
    <3>1. /\ rOut' = rOut \o Supervision(SenderAddress, UA) /\ sIn' = sIn
          /\ Greeted = 0 /\ Greeted' = 1 /\ ~Disconnected
      BY <2>1 DEF Recognised, Greeted, Disconnected
    <3>2. Supervision(SenderAddress, UA) \in Seq(AnswerBytes)
      BY Answers
    <3>3. Uas(Supervision(SenderAddress, UA)) <= Greeted' - Greeted
      BY <3>1, Answers
    <3> QED
      BY <1>3, <3>1, <3>2, <3>3
  <2> QED
    BY <1>4, <1>6, <2>1 DEF r_handshake
<1>7. CASE r_disconnect
  <2>1. CASE Recognised("closing", DISC, Supervision(ReceiverAddress, DISC), "awaitUA")
    <3>1. /\ rOut' = rOut \o Supervision(ReceiverAddress, DISC) /\ sIn' = sIn
          /\ Greeted = 1 /\ Greeted' = 1 /\ ~Disconnected
      BY <2>1 DEF Recognised, Greeted, Disconnected
    <3>2. Supervision(ReceiverAddress, DISC) \in Seq(AnswerBytes)
      BY Answers
    <3>3. Uas(Supervision(ReceiverAddress, DISC)) <= Greeted' - Greeted
      BY <3>1, Answers
    <3> QED
      BY <1>3, <3>1, <3>2, <3>3
  <2> QED
    BY <1>4, <1>7, <2>1 DEF r_disconnect
<1>8. CASE r_verify_if_ua_received
  <2>1. CASE Recognised("awaitUA", UA, << >>, "done")
    <3>1. /\ rOut' = rOut \o << >> /\ sIn' = sIn
          /\ Greeted = 1 /\ Greeted' = 1 /\ Disconnected'
      BY <2>1 DEF Recognised, Greeted, Disconnected
    <3>2. << >> \in Seq(AnswerBytes)
      OBVIOUS
    <3>3. Uas(<< >>) <= Greeted' - Greeted
      BY <3>1, TallyEmpty DEF Uas
    <3> QED
      BY <1>3, <3>1, <3>2, <3>3
  <2> QED
    BY <1>4, <1>8, <2>1 DEF r_verify_if_ua_received
<1>9. CASE Parsing
  <2>1. Step(dp')
    BY <1>0, <1>9, ParsingSteps, CollectType, DiscardType DEF Moved
  <2> QED
    BY <1>2, <2>1 DEF Step
<1>10. ASSUME AnswerRR, rPc = "reading", rPc' \notin {"closed", "opening"}, sIn' = sIn
       PROVE  Numbered'
  <2>1. /\ rOut' = rOut \o Supervision(ReceiverAddress, RR(current_ctrl))
        /\ Greeted = 1 /\ Greeted' = 1 /\ ~Disconnected
    BY <1>10 DEF AnswerRR, Greeted, Disconnected
  <2> QED
    BY <1>0, <1>3, <1>10, <2>1, Answers
<1>11. CASE Accept
  <2>1. rPc' \in {"closing", "reading"}
    BY <1>11, Zenon DEF Accept
  <2> QED
    BY <1>10, <1>11, <2>1 DEF Accept
<1>12. CASE Crash
  BY <1>10, <1>12 DEF Crash
<1> QED
  BY <1>5, <1>6, <1>7, <1>8, <1>9, <1>11, <1>12 DEF ReceiverNext
NumberInv == ClosingInv /\ Numbered

\* No UA is written at first, and both bits are 0.
LEMMA NumberInit == Init => NumberInv
<1> SUFFICES ASSUME Init PROVE NumberInv
  OBVIOUS
<1>1. /\ sIn = << >> /\ rOut = << >> /\ sPc = "closed" /\ sHs = "S" /\ s_ctrl = 0 /\ acked = 0
      /\ ans = Answer(0) /\ rPc = "closed"
  BY DEF Init, WireInit, SenderInit, ReceiverInit
<1>2. UaSpent = 0 /\ Greeted = 0 /\ Uas(<< >>) = 0
  BY <1>1, TallyEmpty DEF UaSpent, Greeted, Uas
<1>3. UaBalance /\ NoRej(sIn)
  BY <1>1, <1>2 DEF UaBalance, NoRej
<1>4. ControlKnown /\ SenderBit
  BY <1>1 DEF ControlKnown, Answer, UA, REJ, SenderBit
<1> QED
  BY <1>3, <1>4, ClosingInit DEF NumberInv, Numbered

\* Every step of the system keeps them.
LEMMA NumberNext == NumberInv /\ [Next]_vars => NumberInv'
<1> SUFFICES ASSUME NumberInv, [Next]_vars PROVE NumberInv'
  OBVIOUS
<1>1. ClosingInv' /\ ClosingInv /\ Numbered /\ Types /\ Types' /\ Balance /\ NoneBefore /\ Written
  BY ClosingNext DEF NumberInv, ClosingInv, IInv
<1>2. DiscSent => Disconnected
  BY <1>1 DEF ClosingInv
<1>3. CASE SenderStep
  <2>1. SenderNext /\ UNCHANGED receiver
    BY <1>3, SenderStepIsNext
  <2>2. rOut' = rOut
    BY <1>1, <2>1, SenderKeepsBalance
  <2> QED
    BY <1>1, <1>2, <2>1, <2>2, SenderKeepsNumber DEF NumberInv
<1>4. CASE ReceiverStep
  BY <1>1, <1>4, ReceiverKeepsNumber DEF NumberInv, ReceiverStep
<1>5. ASSUME UNCHANGED << sender, receiver >>, Uas(sIn') + Uas(rOut') <= Uas(sIn) + Uas(rOut),
             NoRej(sIn) => NoRej(sIn')
      PROVE  NumberInv'
  <2>1. UaSpent' = UaSpent /\ Greeted' = Greeted
    BY <1>5 DEF sender, receiver, UaSpent, Greeted
  <2>2. UaBalance'
    <3>1. UaSpent + Uas(sIn) + Uas(rOut) <= Greeted
      BY <1>1 DEF Numbered, UaBalance
    <3>2. /\ Uas(sIn) \in Nat /\ Uas(rOut) \in Nat /\ UaSpent \in {0, 1} /\ Greeted \in {0, 1}
      BY <1>1, UaTerms
    <3>3. Uas(sIn') \in Nat /\ Uas(rOut') \in Nat
      <4>1. Len(sIn') \in Nat /\ Len(rOut') \in Nat
        BY <1>1 DEF Types, TypeOK, WireTypeOK
      <4> QED
        BY <4>1, TallyType DEF Uas
    <3> QED
      BY <1>5, <2>1, <3>1, <3>2, <3>3 DEF UaBalance
  <2>3. ControlKnown' /\ (~Disconnected' => SenderBit')
    BY <1>1, <1>5 DEF sender, receiver, Numbered, ControlKnown, SenderBit, Disconnected
  <2> QED
    BY <1>1, <1>5, <2>2, <2>3 DEF NumberInv, Numbered
<1>6. CASE CableStep
  <2>1. CableNext /\ UNCHANGED << sender, receiver >>
    BY <1>6 DEF CableStep
  <2>2. CASE RxToTx
    <3>1. PICK n \in 1 .. Len(rOut) : /\ rOut' = SubSeq(rOut, n + 1, Len(rOut))
                                      /\ sIn' = sIn \o Carried(SubSeq(rOut, 1, n))
      BY <2>2 DEF RxToTx
    <3> QED
      BY <1>1, <1>5, <2>1, <3>1, CablePiece
  <2>3. CASE ~RxToTx
    <3>1. sIn' = sIn /\ rOut' = rOut
      BY <2>1, <2>3, CableOther
    <3>2. Uas(sIn) \in Nat /\ Uas(rOut) \in Nat
      BY <1>1, UaTerms
    <3> QED
      BY <1>5, <2>1, <3>1, <3>2
  <2> QED
    BY <2>2, <2>3
<1>7. CASE UNCHANGED vars
  <2>1. Uas(sIn) \in Nat /\ Uas(rOut) \in Nat
    BY <1>1, UaTerms
  <2> QED
    BY <1>5, <1>7, <2>1 DEF vars, wire
<1> QED
  BY <1>3, <1>4, <1>6, <1>7 DEF Next, Terminated

(***************************************************************************)
(* Whatever the cable does, and however late the answers come: until the   *)
(* receiver has answered DISC, the bit llwrite puts in its frame is the    *)
(* parity of the number of frames it has reported, the sender's half of    *)
(* SequenceBits (s_receive toggles it on any answer that fits, s_send_msg  *)
(* reports a frame only for an RR).                                        *)
(***************************************************************************)
THEOREM SenderBitCounts ==
  Spec => [](Writing /\ rPc \notin {"awaitUA", "done"} => s_ctrl = acked % 2)
<1>1. NumberInv => (Writing /\ rPc \notin {"awaitUA", "done"} => s_ctrl = acked % 2)
  BY DEF NumberInv, Numbered, SenderBit, Writing, Disconnected
<1> QED
  BY <1>1, NumberInit, NumberNext, PTL DEF Spec

=============================================================================
