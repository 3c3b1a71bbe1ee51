------------------------ MODULE OpenReceiver_proofs ------------------------
(***************************************************************************)
(* The receiving program accepts only bodies with a fitting BCC2 and       *)
(* numbers its answers after them, on any line and for every value of the  *)
(* constants.                                                              *)
(***************************************************************************)
EXTENDS OpenReceiver, ReceiverLemmas

-----------------------------------------------------------------------------
(***************************************************************************)
(* Every step leaves the variables in their types.                         *)
(***************************************************************************)
LEMMA TypeStep == PortTypeOK /\ [Next]_vars => PortTypeOK'
<1> SUFFICES ASSUME PortTypeOK, [Next]_vars PROVE PortTypeOK'
  OBVIOUS
<1>1. CASE ReceiverNext
  BY <1>1, ReceiverTypes
<1>2. CASE Arrive
  BY <1>2, AlphabetAssumption DEF Arrive, PortTypeOK, WireTypeOK, ReceiverTypeOK, receiver
<1>3. CASE AnswersRead
  BY <1>3 DEF AnswersRead, PortTypeOK, WireTypeOK, ReceiverTypeOK, receiver
<1>4. CASE UNCHANGED vars
  BY <1>4 DEF vars, wire, receiver, PortTypeOK, WireTypeOK, ReceiverTypeOK
<1> QED
  BY <1>1, <1>2, <1>3, <1>4 DEF Next

-----------------------------------------------------------------------------
\* What moving_xor and toggle say of the bytes collected so far; toggle can be
\* 1 only between two data bytes, so a flag that finds it 1 ends a body whose
\* last byte is its BCC2.
BodySound ==
  /\ \E x : Running(x, dp.data) /\ x[Len(dp.data)] = dp.mxor
  /\ \A k \in DOMAIN dp.data : dp.data[k] # FLAG
  /\ dp.toggle = 1 => dp.data # << >> /\ dp.mxor = 0

\* Outside the data state nothing has been collected.
Fresh == dp.st # 4 => dp.data = << >> /\ dp.mxor = Seed /\ dp.toggle = 0

\* r_llopen resets the bit the receiver expects before it has accepted anything.
NoneYet == rPc = "closed" => accepted = << >>

\* The inductive invariant.
IInv == PortTypeOK /\ BodySound /\ Fresh /\ AcceptedSound /\ BitCountsAccepted /\ NoneYet

\* A parser that starts has collected nothing.
LEMMA ParserSound ==
  ASSUME NEW t2, dp' = Parser(t2) PROVE BodySound' /\ Fresh'
<1>1. /\ dp'.data = << >> /\ dp'.mxor = Seed /\ dp'.toggle = 0
  BY DEF Parser
<1>2. \E x : Running(x, << >>) /\ x[0] = Seed
  BY RunningEmpty
<1> QED
  BY <1>1, <1>2 DEF BodySound, Fresh

\* So it is with uninitialised locals.
LEMMA NewParserSound == NewParser => BodySound' /\ Fresh'
  BY ParserSound DEF NewParser

\* What is claimed of the body survives a step that leaves it alone.
LEMMA KeptSound ==
  ASSUME BodySound, dp'.data = dp.data, dp'.mxor = dp.mxor, dp'.toggle = dp.toggle
  PROVE  BodySound'
  BY DEF BodySound

\* What is claimed of the body holds with one byte more.
LEMMA CollectSound ==
  ASSUME PortTypeOK, BodySound, NEW b \in Input, Collect(b)
  PROVE  BodySound' /\ Fresh'
<1>1. dp \in DataParser /\ dp.data \in Seq(Byte) /\ dp.mxor \in Byte /\ b \in Byte
  BY InputType DEF PortTypeOK, ReceiverTypeOK, DataParser
<1>2. /\ dp'.st = 4 /\ dp'.data = Append(dp.data, b) /\ dp'.mxor = Xor(b, dp.mxor)
      /\ dp'.toggle = IF b = dp.mxor THEN 1 ELSE 0
  BY CollectType
<1>3. PICK x : Running(x, dp.data) /\ x[Len(dp.data)] = dp.mxor
  BY DEF BodySound
<1>4. PICK y : Running(y, dp'.data) /\ y[Len(dp.data) + 1] = Xor(b, dp.mxor)
  BY <1>1, <1>2, <1>3, RunningAppend
<1>5. Len(dp'.data) = Len(dp.data) + 1
  BY <1>1, <1>2
<1>6. \A k \in DOMAIN dp'.data : dp'.data[k] # FLAG
  BY <1>1, <1>2 DEF BodySound, Collect
<1>7. dp'.toggle = 1 => dp'.data # << >> /\ dp'.mxor = 0
  BY <1>1, <1>2, XorZero
<1> QED
  BY <1>2, <1>4, <1>5, <1>6, <1>7 DEF BodySound, Fresh

(***************************************************************************)
(* A step that accepts nothing leaves the accepted bodies and their parity *)
(* alone.                                                                  *)
(***************************************************************************)
LEMMA NothingAccepted ==
  ASSUME AcceptedSound, BitCountsAccepted,
         accepted' = accepted, current_ctrl' = current_ctrl
  PROVE  AcceptedSound' /\ BitCountsAccepted'
  BY DEF AcceptedSound, BitCountsAccepted

(***************************************************************************)
(* Accept is entered with toggle = 1, and adds one body and one to the     *)
(* parity.                                                                 *)
(***************************************************************************)
LEMMA AcceptSound ==
  ASSUME IInv, Accept
  PROVE  AcceptedSound' /\ BitCountsAccepted'
<1>1. /\ accepted \in Seq(Seq(Byte)) /\ dp.data \in Seq(Byte)
      /\ accepted' = Append(accepted, dp.data) /\ current_ctrl' = 1 - current_ctrl
  BY DEF Accept, ToggleCtrl, IInv, PortTypeOK, ReceiverTypeOK
<1>2. dp.data # << >> /\ dp.mxor = 0 /\ \A k \in DOMAIN dp.data : dp.data[k] # FLAG
  BY DEF Accept, IInv, BodySound
<1>3. Bcc2(dp.data) = 0
  <2>1. PICK x : Running(x, dp.data) /\ x[Len(dp.data)] = dp.mxor
    BY DEF IInv, BodySound
  <2> QED
    BY <1>1, <1>2, <2>1, RunningIsBcc2
<1>4. ASSUME NEW i \in DOMAIN accepted'
      PROVE  accepted'[i] = dp.data \/ (i \in DOMAIN accepted /\ accepted'[i] = accepted[i])
  BY <1>1
<1>5. AcceptedSound'
  BY <1>2, <1>3, <1>4 DEF IInv, AcceptedSound
<1>6. BitCountsAccepted'
  <2>1. PICK n \in Nat : n = Len(accepted) /\ Len(accepted') = n + 1
    BY <1>1
  <2>2. (n + 1) % 2 = 1 - (n % 2)
    OBVIOUS
  <2>3. current_ctrl = n % 2 /\ current_ctrl' = 1 - current_ctrl
    BY <1>1, <2>1 DEF IInv, BitCountsAccepted
  <2>4. current_ctrl' = (n + 1) % 2
    BY <2>2, <2>3
  <2> QED
    BY <2>1, <2>4 DEF BitCountsAccepted
<1> QED
  BY <1>5, <1>6

-----------------------------------------------------------------------------
\* The inductive invariant holds initially.
LEMMA InitInv == Init => IInv
<1> SUFFICES ASSUME Init PROVE IInv
  OBVIOUS
<1>1. dp = Parser(0)
  BY DEF Init, ReceiverInit
<1>2. PortTypeOK
  BY ReceiverTypesInit DEF Init
<1>3. BodySound /\ Fresh
  BY <1>1, RunningEmpty DEF BodySound, Fresh, Parser
<1>4. AcceptedSound /\ BitCountsAccepted /\ NoneYet
  BY DEF Init, ReceiverInit, AcceptedSound, BitCountsAccepted, NoneYet
<1> QED
  BY <1>2, <1>3, <1>4 DEF IInv

(***************************************************************************)
(* Every action preserves the inductive invariant.                         *)
(***************************************************************************)
LEMMA InvStep == IInv /\ [Next]_vars => IInv'
<1> SUFFICES ASSUME IInv, [Next]_vars PROVE IInv'
  OBVIOUS
<1>0. PortTypeOK /\ PortTypeOK' /\ BodySound /\ Fresh /\ AcceptedSound /\ BitCountsAccepted /\ NoneYet
  BY TypeStep DEF IInv
<1> DEFINE Sound == BodySound' /\ Fresh'
           Quiet == accepted' = accepted /\ current_ctrl' = current_ctrl
<1>q. ASSUME Quiet, rPc' # "closed", Sound PROVE IInv'
  BY <1>0, <1>q, NothingAccepted DEF IInv, NoneYet
<1>d. ASSUME dp' = dp PROVE Sound
  BY <1>0, <1>d DEF BodySound, Fresh
<1>1. CASE r_llopen
  <2>1. accepted' = << >> /\ current_ctrl' = 0 /\ dp' = dp /\ rPc' = "opening"
    BY <1>0, <1>1 DEF r_llopen, NoneYet
  <2>2. AcceptedSound' /\ BitCountsAccepted' /\ NoneYet'
    BY <2>1 DEF AcceptedSound, BitCountsAccepted, NoneYet
  <2> QED
    BY <1>0, <1>d, <2>1, <2>2 DEF IInv
<1>2. CASE r_handshake
  <2>1. CASE Unrecognised("opening", SET)
    BY <1>q, <1>d, <2>1 DEF Unrecognised
  <2>2. CASE Recognised("opening", SET, Supervision(SenderAddress, UA), "reading") /\ NewParser
    BY <1>q, <2>2, NewParserSound DEF Recognised
  <2> QED
    BY <1>2, <2>1, <2>2 DEF r_handshake
<1>3. CASE r_disconnect
  BY <1>q, <1>d, <1>3 DEF r_disconnect, Unrecognised, Recognised
<1>4. CASE r_verify_if_ua_received
  BY <1>q, <1>d, <1>4 DEF r_verify_if_ua_received, Unrecognised, Recognised
<1>5. CASE Parsing
  <2>1. PICK b \in Input : Moved \/ Collect(b) \/ Discard(b)
    BY <1>0, <1>5, ParsingSteps
  <2>2. Step(dp')
    BY <1>0, <2>1, CollectType, DiscardType DEF Moved
  <2>3. Quiet /\ rPc' # "closed"
    BY <1>5, <2>2 DEF Step, Parsing
  <2>4. CASE Moved
    <3>1. BodySound'
      BY <1>0, <2>4, KeptSound DEF Moved, Kept
    <3>2. Fresh'
      BY <1>0, <2>4 DEF Moved, Kept, Fresh
    <3> QED
      BY <1>q, <2>3, <3>1, <3>2
  <2>5. CASE Collect(b)
    BY <1>0, <1>q, <2>3, <2>5, CollectSound
  <2>6. CASE Discard(b)
    BY <1>q, <2>3, <2>6, DiscardType, ParserSound
  <2> QED
    BY <2>1, <2>4, <2>5, <2>6
<1>6. CASE Accept
  <2>1. Sound
    <3>1. dp' = dp \/ NewParser
      BY <1>6, Zenon DEF Accept
    <3> QED
      BY <1>d, <3>1, NewParserSound
  <2>2. rPc' # "closed"
    BY <1>6, Zenon DEF Accept
  <2> QED
    BY <1>0, <1>6, <2>1, <2>2, AcceptSound DEF IInv, NoneYet
<1>7. CASE Crash
  BY <1>q, <1>d, <1>7 DEF Crash
<1>8. CASE Arrive \/ AnswersRead \/ UNCHANGED vars
  <2>1. UNCHANGED receiver
    BY <1>8 DEF Arrive, AnswersRead, vars
  <2>2. dp' = dp /\ Quiet /\ rPc' = rPc
    BY <2>1 DEF receiver
  <2> QED
    BY <1>0, <1>d, <2>2, NothingAccepted DEF IInv, NoneYet
<1> QED
  BY <1>1, <1>2, <1>3, <1>4, <1>5, <1>6, <1>7, <1>8 DEF Next, ReceiverNext

(***************************************************************************)
(* The invariant holds in every behaviour.                                 *)
(***************************************************************************)
LEMMA Invariance == Spec => []IInv
  BY InitInv, InvStep, PTL DEF Spec

(***************************************************************************)
(* The variables of Receiver and Wire keep their types, whatever arrives.  *)
(***************************************************************************)
THEOREM TypeCorrect == Spec => []TypeOK
<1>1. IInv => TypeOK
  BY DEF IInv, PortTypeOK, TypeOK
<1> QED
  BY <1>1, Invariance, PTL

(***************************************************************************)
(* llread hands a body to its caller only when the last byte is the BCC2   *)
(* of the others and no byte is a flag: no line, however disturbed, makes  *)
(* the receiver accept a frame with another check byte, or two as one.     *)
(***************************************************************************)
THEOREM AcceptsOnlySound == Spec => []AcceptedSound
<1>1. IInv => AcceptedSound
  BY DEF IInv
<1> QED
  BY <1>1, Invariance, PTL

(***************************************************************************)
(* current_ctrl is the parity of the number of accepted frames.            *)
(***************************************************************************)
THEOREM BitIsParity == Spec => []BitCountsAccepted
<1>1. IInv => BitCountsAccepted
  BY DEF IInv
<1> QED
  BY <1>1, Invariance, PTL

(***************************************************************************)
(* The n-th accepted body and no other step of a living receiver that      *)
(* reads data writes an RR, and that RR carries the parity of n - 1.       *)
(***************************************************************************)
LEMMA AnswersFollow == IInv /\ [Next]_vars => [AnswerStep]_vars
<1> SUFFICES ASSUME IInv, Next, rPc = "reading" PROVE AnswerStep
  BY DEF AnswerStep
<1> DEFINE rr == rOut \o Supervision(ReceiverAddress, RR(Len(accepted) % 2))
<1>1. ASSUME accepted' = accepted, rOut' \in {rOut, << >>} PROVE AnswerStep
  BY <1>1 DEF AnswerStep
<1>2. CASE Parsing
  <2>1. PICK b \in Input : Moved \/ Collect(b) \/ Discard(b)
    BY <1>2, ParsingSteps DEF IInv
  <2>2. Step(dp')
    BY <2>1, CollectType, DiscardType DEF Moved, IInv
  <2> QED
    BY <1>1, <2>2 DEF Step
<1>3. CASE Accept
  <2>1. accepted \in Seq(Seq(Byte)) /\ dp.data \in Seq(Byte)
    BY DEF IInv, PortTypeOK, ReceiverTypeOK
  <2>2. accepted' = Append(accepted, dp.data)
    BY <1>3 DEF Accept
  <2>3. Len(accepted') = Len(accepted) + 1 /\ accepted' # accepted
    BY <2>1, <2>2
  <2>4. rOut' = rr
    BY <1>3 DEF Accept, AnswerRR, IInv, BitCountsAccepted
  <2> QED
    BY <2>3, <2>4 DEF AnswerStep
<1>4. CASE Crash
  BY <1>4 DEF Crash, AnswerStep
<1>5. CASE r_llopen \/ r_handshake \/ r_disconnect \/ r_verify_if_ua_received
  BY <1>5 DEF r_llopen, r_handshake, r_disconnect, r_verify_if_ua_received, Unrecognised,
              Recognised
<1>6. CASE Arrive \/ AnswersRead
  BY <1>1, <1>6 DEF Arrive, AnswersRead, receiver
<1> QED
  BY <1>2, <1>3, <1>4, <1>5, <1>6 DEF Next, ReceiverNext

\* Each accepted body is answered in the same step, with the RR of its parity
\* (r_receive_data): the action property RRNumbersAccepted.
THEOREM AnswersNumberAccepted == Spec => RRNumbersAccepted
  BY AnswersFollow, Invariance, PTL DEF Spec, RRNumbersAccepted

=============================================================================
