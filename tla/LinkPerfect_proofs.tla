------------------------- MODULE LinkPerfect_proofs -------------------------
(***************************************************************************)
(* Proofs about the whole system, for every file and everything the        *)
(* uninitialised buffers may hold: first on a cable that is never          *)
(* disturbed, where the system is always in one stage of a transfer; then  *)
(* on one that drops what it reads or flips its first byte, where what is  *)
(* on its way is a train of whole frames.                                  *)
(***************************************************************************)
EXTENDS Link_proofs

-----------------------------------------------------------------------------
\* The cable is never disturbed, the receiver has opened its port first, no
\* timeout is shorter than the way to the receiver and back, and llwrite waits
\* for an answer at least once.
Undisturbed == Modes = {"on"} /\ ReceiverFirst /\ ~Premature /\ NumTries > 0

\* What is on its way to the receiver and to the sender, wherever it is.
Down == rIn \o sOut
Up   == sIn \o rOut

SetFrame    == Supervision(SenderAddress, SET)
UaFrame     == Supervision(SenderAddress, UA)
DiscFrame   == Supervision(SenderAddress, DISC)
DiscAnswer  == Supervision(ReceiverAddress, DISC)
RRFrame(bit) == Supervision(ReceiverAddress, RR(bit))

\* The file after n messages.
Saved(n) == Transfer!UpTo(IF n <= Len(File) THEN n ELSE Len(File))

-----------------------------------------------------------------------------
\* An automaton of the receiver that waits for a supervision frame in pc; the
\* byte left in buf may still be there, and may look like the first flag.
Waits(pc) == rPc = pc /\ hs \in {"S", "F"} /\ (STOP => hs = "S")

\* An automaton before the k-th byte of the frame it waits for.
Hunt(k) == CASE k = 1 -> "S" [] k = 2 -> "F" [] k = 3 -> "A" [] k = 4 -> "C" [] k = 5 -> "B"
Hunts(pc, k) == IF k = 1 THEN Waits(pc) ELSE rPc = pc /\ ~STOP /\ hs = Hunt(k)

\* s_receive before the k-th byte of an answer with this control byte.
AnswerState(k) ==
  CASE k = 1 -> "Start" [] k = 2 -> "Flag" [] k = 3 -> "A" [] k = 4 -> "C" [] k = 5 -> "BCC"
ReadsAnswer(k, control) ==
  /\ ans.st = AnswerState(k) /\ ans.flags = (IF k = 2 THEN 1 ELSE 0)
  /\ ans.get = s_ctrl /\ (k > 3 => ans.control = control)

\* The parser somewhere in the frame of payload p, and the rest of it, then
\* more, on its way.
InFrame(p, bit, more) ==
  \E k \in 1 .. End(p) + 1 : Parses(p, k) /\ Down = Rest(DataFrame(p, bit), k) \o more

-----------------------------------------------------------------------------
\* The stages of a transfer.  Both ports are opened.
Calling ==
  /\ sPc = "closed" /\ sHs = "S" /\ rPc \in {"closed", "opening"} /\ ~STOP /\ hs = "S"
  /\ Down = << >> /\ Up = << >> /\ acked = 0 /\ Len(accepted) = 0

\* SET is on its way, then UA.
Greeting ==
  /\ sPc = "handshake" /\ sHs = "S" /\ Up = << >> /\ acked = 0 /\ Len(accepted) = 0
  /\ \E k \in 1 .. 5 : Hunts("opening", k) /\ Down = Rest(SetFrame, k)

Welcomed ==
  /\ sPc = "handshake" /\ Ready /\ Down = << >> /\ acked = 0 /\ Len(accepted) = 0
  /\ \E k \in 1 .. 5 : sHs = Hunt(k) /\ Up = Rest(UaFrame, k)

\* The frame of a message is on its way; only one that is lost is ever late.
Sending ==
  /\ Up = << >> /\ Len(accepted) = acked
  /\ \/ sPc = "send" /\ Ready /\ Down = << >>
     \/ sPc = "select" /\ InFrame(Message(msg), s_ctrl, << >>)
     \/ sPc = "sleep" /\ InFrame(Message(msg), s_ctrl, << >>) /\ Lost(Message(msg))
  /\ timeout_count > 0 \/ expired => Lost(Message(msg))

\* It has been accepted, and its RR is on its way.
Acknowledging ==
  /\ Down = << >> /\ Len(accepted) = acked + 1 /\ timeout_count = 0 /\ ~expired
  /\ IF msg <= Len(File) THEN Ready ELSE Waits("closing")
  /\ \/ sPc = "select" /\ Up = RRFrame(s_ctrl)
     \/ /\ sPc = "answer"
        /\ \E k \in 1 .. 5 : ReadsAnswer(k, RR(s_ctrl)) /\ Up = Rest(RRFrame(s_ctrl), k)

\* Every message has been acknowledged, so that both sides close.
Finished == acked = Len(File) + 1 /\ Len(accepted) = acked

Closing == sPc = "close" /\ Finished /\ Up = << >> /\ Down = << >> /\ Waits("closing")

\* DISC is on its way, then the answer to it, then UA.
Leaving ==
  /\ sPc = "disc" /\ Finished /\ Up = << >> /\ ReadsAnswer(1, DISC)
  /\ \E k \in 1 .. 5 : Hunts("closing", k) /\ Down = Rest(DiscFrame, k)

Dismissed ==
  /\ sPc = "disc" /\ Finished /\ Down = << >> /\ Waits("awaitUA")
  /\ \E k \in 1 .. 5 : ReadsAnswer(k, DISC) /\ Up = Rest(DiscAnswer, k)

Confirming ==
  /\ sPc = "success" /\ Finished /\ Up = << >>
  /\ \/ \E k \in 1 .. 5 : Hunts("awaitUA", k) /\ Down = Rest(UaFrame, k)
     \/ rPc = "done" /\ Down = << >>

\* The frame of a message was lost too often, and llclose called in the middle
\* of it: its DISC passes through the parser, for which temporary[2] is 0.
Passes(k) ==
  /\ rPc = "reading" /\ ~STOP
  /\ Dropped(CASE k = 3 -> 2 [] k = 4 -> 10 [] k = 5 -> 0 [] OTHER -> 1)

GivenUp ==
  /\ Up = << >> /\ Len(accepted) = acked /\ msg = acked + 1 /\ Lost(Message(msg))
  /\ \/ sPc = "close" /\ InFrame(Message(msg), s_ctrl, << >>)
     \/ /\ sPc = "disc"
        /\ \/ InFrame(Message(msg), s_ctrl, DiscFrame)
           \/ \E k \in 2 .. 6 : Passes(k) /\ Down = Rest(DiscFrame, k)

Stage ==
  \/ Calling \/ Greeting \/ Welcomed \/ Sending \/ Acknowledging
  \/ Closing \/ Leaving \/ Dismissed \/ Confirming \/ GivenUp

\* The counters and what they count.
Counted ==
  /\ sPc # "success" => s_ctrl = acked % 2
  /\ current_ctrl = Len(accepted) % 2
  /\ output = Saved(Len(accepted))
  /\ rPc = "reading" => hs = "S"
  /\ sPc \in {"closed", "handshake"} => timeout_count = 0 /\ ~expired

PerfectInv == Types /\ Stage /\ Counted

-----------------------------------------------------------------------------
(***************************************************************************)
(* Sequences: what is taken from the front of one, and put at its end.     *)
(***************************************************************************)
LEMMA HeadConcat ==
  ASSUME NEW s \in Seq(Byte), NEW t \in Seq(Byte), s # << >>
  PROVE  s \o t # << >> /\ Head(s \o t) = Head(s) /\ Tail(s \o t) = Tail(s) \o t
<1>1. /\ s \o t \in Seq(Byte) /\ Len(s \o t) = Len(s) + Len(t) /\ Len(s) \in Nat \ {0}
      /\ Len(t) \in Nat
      /\ \A i \in 1 .. Len(s) : (s \o t)[i] = s[i]
      /\ \A j \in 1 .. Len(t) : (s \o t)[Len(s) + j] = t[j]
  BY ConcatElements, EmptySeq
<1> DEFINE u == s \o t
<1>2. u \in Seq(Byte) /\ Len(u) = Len(s) + Len(t) /\ u # << >> /\ u[1] = s[1]
  BY <1>1, EmptySeq
<1>3. Head(u) = Head(s)
  BY <1>2
<1>4. /\ Tail(s) \in Seq(Byte) /\ Len(Tail(s)) = Len(s) - 1
      /\ \A i \in 1 .. Len(s) - 1 : Tail(s)[i] = s[i + 1]
  OBVIOUS
<1>5. /\ Tail(s) \o t \in Seq(Byte) /\ Len(Tail(s) \o t) = Len(s) - 1 + Len(t)
      /\ \A i \in 1 .. Len(s) - 1 : (Tail(s) \o t)[i] = s[i + 1]
      /\ \A j \in 1 .. Len(t) : (Tail(s) \o t)[Len(s) - 1 + j] = t[j]
  <2> DEFINE r == Tail(s)
  <2>1. r \in Seq(Byte)
    BY <1>4
  <2>2. /\ r \o t \in Seq(Byte) /\ Len(r \o t) = Len(r) + Len(t)
        /\ \A i \in 1 .. Len(r) : (r \o t)[i] = r[i]
        /\ \A j \in 1 .. Len(t) : (r \o t)[Len(r) + j] = t[j]
    BY <2>1, ConcatElements
  <2> HIDE DEF r
  <2> QED
    BY <1>4, <2>2 DEF r
<1>6. /\ Tail(u) \in Seq(Byte) /\ Len(Tail(u)) = Len(u) - 1
      /\ \A i \in 1 .. Len(u) - 1 : Tail(u)[i] = u[i + 1]
  <2> HIDE DEF u
  <2> QED
    BY <1>2
<1> DEFINE v == Tail(u)
           w == Tail(s) \o t
<1>7. ASSUME NEW i \in 1 .. Len(u) - 1 PROVE v[i] = w[i]
  <2>1. v[i] = u[i + 1]
    BY <1>6
  <2>2. CASE i \in 1 .. Len(s) - 1
    <3>1. i + 1 \in 1 .. Len(s)
      BY <1>1, <2>2
    <3> QED
      BY <1>1, <1>5, <2>1, <2>2, <3>1
  <2>3. CASE i \notin 1 .. Len(s) - 1
    <3> DEFINE j == i - (Len(s) - 1)
    <3>1. j \in 1 .. Len(t) /\ Len(s) - 1 + j = i /\ Len(s) + j = i + 1
      BY <1>1, <1>2, <2>3
    <3> HIDE DEF j
    <3> QED
      BY <1>1, <1>5, <2>1, <3>1
  <2> QED
    BY <2>2, <2>3
<1>8. v = w
  <2>1. v \in Seq(Byte) /\ w \in Seq(Byte) /\ Len(v) = Len(u) - 1 /\ Len(w) = Len(u) - 1
    BY <1>1, <1>2, <1>5, <1>6
  <2> HIDE DEF v, w
  <2> QED
    BY <1>7, <2>1, SameSequence
<1> QED
  BY <1>2, <1>3, <1>8

\* Nothing more is nothing, in front and at the end.
LEMMA EmptyConcat ==
  ASSUME NEW s \in Seq(Byte)
  PROVE  s \o << >> = s /\ << >> \o s = s
  OBVIOUS

\* Three sequences in a row.
LEMMA ConcatConcat ==
  ASSUME NEW s \in Seq(Byte), NEW t \in Seq(Byte), NEW u \in Seq(Byte)
  PROVE  (s \o t) \o u = s \o (t \o u) /\ s \o t \in Seq(Byte)
  OBVIOUS

\* A concatenation is empty when both parts are.
LEMMA EmptyBoth ==
  ASSUME NEW s \in Seq(Byte), NEW t \in Seq(Byte)
  PROVE  s \o t = << >> <=> s = << >> /\ t = << >>
<1>1. Len(s \o t) = Len(s) + Len(t) /\ Len(s) \in Nat /\ Len(t) \in Nat /\ s \o t \in Seq(Byte)
  OBVIOUS
<1>2. /\ s \o t = << >> <=> Len(s \o t) = 0
      /\ s = << >> <=> Len(s) = 0
      /\ t = << >> <=> Len(t) = 0
  BY <1>1, EmptySeq
<1> QED
  BY <1>1, <1>2

-----------------------------------------------------------------------------
(***************************************************************************)
(* The two ways of the line.                                               *)
(***************************************************************************)
LEMMA LineType ==
  ASSUME WireTypeOK
  PROVE  /\ {sOut, sIn, rOut, rIn} \subseteq Seq(Byte) /\ Down \in Seq(Byte) /\ Up \in Seq(Byte)
         /\ Down = << >> <=> rIn = << >> /\ sOut = << >>
         /\ Up = << >> <=> sIn = << >> /\ rOut = << >>
<1>1. {sOut, sIn, rOut, rIn} \subseteq Seq(Byte)
  BY DEF WireTypeOK
<1> QED
  BY <1>1, ConcatConcat, EmptyBoth DEF Down, Up

\* The receiver reads a byte of what is on its way to it.
LEMMA DownRead ==
  ASSUME WireTypeOK, rIn # << >>, rIn' = Tail(rIn), sOut' = sOut
  PROVE  Down # << >> /\ Head(Down) = Head(rIn) /\ Down' = Tail(Down)
  BY LineType, HeadConcat DEF Down

\* So does the transmitter.
LEMMA UpRead ==
  ASSUME WireTypeOK, sIn # << >>, sIn' = Tail(sIn), rOut' = rOut
  PROVE  Up # << >> /\ Head(Up) = Head(sIn) /\ Up' = Tail(Up)
  BY LineType, HeadConcat DEF Up

\* The transmitter writes.
LEMMA DownWritten ==
  ASSUME WireTypeOK, NEW x \in Seq(Byte), rIn' = rIn, sOut' = sOut \o x
  PROVE  Down' = Down \o x
<1>1. rIn \in Seq(Byte) /\ sOut \in Seq(Byte)
  BY LineType
<1>2. (rIn \o sOut) \o x = rIn \o (sOut \o x)
  BY SMTT(30), <1>1, ConcatConcat
<1> QED
  BY <1>2 DEF Down

\* The receiver writes.
LEMMA UpWritten ==
  ASSUME WireTypeOK, NEW x \in Seq(Byte), sIn' = sIn, rOut' = rOut \o x
  PROVE  Up' = Up \o x
<1>1. sIn \in Seq(Byte) /\ rOut \in Seq(Byte)
  BY LineType
<1>2. (sIn \o rOut) \o x = sIn \o (rOut \o x)
  BY SMTT(30), <1>1, ConcatConcat
<1> QED
  BY <1>2 DEF Up

(***************************************************************************)
(* A cable that is on carries everything, in order.                        *)
(***************************************************************************)
LEMMA CableCarries ==
  ASSUME Types, Undisturbed, CableNext
  PROVE  Down' = Down /\ Up' = Up
<1>1. connection = "on" /\ WireTypeOK
  BY DEF Types, TypeOK, CableTypeOK, Undisturbed
<1>2. {sOut, sIn, rOut, rIn} \subseteq Seq(Byte)
  BY <1>1, LineType
<1>3. ASSUME NEW from \in Seq(Byte), NEW n \in 1 .. Len(from)
      PROVE  /\ SubSeq(from, 1, n) \o SubSeq(from, n + 1, Len(from)) = from
             /\ SubSeq(from, 1, n) \in Seq(Byte) /\ SubSeq(from, n + 1, Len(from)) \in Seq(Byte)
             /\ Carried(SubSeq(from, 1, n)) = SubSeq(from, 1, n)
  <2> DEFINE a == SubSeq(from, 1, n)
             b == SubSeq(from, n + 1, Len(from))
  <2>0. Len(from) \in Nat /\ n \in Nat /\ n + (Len(from) - n) = Len(from)
    OBVIOUS
  <2>1. /\ a \in Seq(Byte) /\ Len(a) = n /\ \A i \in 1 .. n : a[i] = from[i]
        /\ b \in Seq(Byte) /\ Len(b) = Len(from) - n
        /\ \A i \in 1 .. Len(from) - n : b[i] = from[n + i]
    OBVIOUS
  <2>2. Carried(a) = a
    BY <1>1 DEF Carried
  <2> HIDE DEF a, b
  <2>3. /\ a \o b \in Seq(Byte) /\ Len(a \o b) = Len(from)
        /\ \A i \in 1 .. n : (a \o b)[i] = a[i]
        /\ \A j \in 1 .. Len(from) - n : (a \o b)[n + j] = b[j]
    <3>1. a \in Seq(Byte) /\ b \in Seq(Byte)
      BY <2>1
    <3>2. /\ a \o b \in Seq(Byte) /\ Len(a \o b) = Len(a) + Len(b)
          /\ \A i \in 1 .. Len(a) : (a \o b)[i] = a[i]
          /\ \A j \in 1 .. Len(b) : (a \o b)[Len(a) + j] = b[j]
      BY <3>1, ConcatElements
    <3> QED
      BY <2>0, <2>1, <3>2
  <2> DEFINE c == a \o b
  <2>6. /\ c \in Seq(Byte) /\ Len(c) = Len(from)
        /\ \A i \in 1 .. n : c[i] = from[i]
        /\ \A j \in 1 .. Len(from) - n : c[n + j] = from[n + j]
    BY <2>1, <2>3
  <2> HIDE DEF c
  <2>4. ASSUME NEW i \in 1 .. Len(from) PROVE c[i] = from[i]
    <3>1. CASE i <= n
      BY <2>0, <2>6, <3>1
    <3>2. CASE i > n
      <4> DEFINE j == i - n
      <4>1. j \in 1 .. Len(from) - n /\ n + j = i
        BY <3>2
      <4> HIDE DEF j
      <4> QED
        BY <2>6, <4>1
    <3>3. i \in Int
      BY <2>0
    <3> QED
      BY <2>0, <3>1, <3>2, <3>3
  <2>5. c = from
    BY <2>4, <2>6, SameSequence
  <2> QED
    BY <2>1, <2>2, <2>5 DEF a, b, c
<1>4. CASE TxToRx
  <2>1. PICK n \in 1 .. Len(sOut) : /\ sOut' = SubSeq(sOut, n + 1, Len(sOut))
                                    /\ rIn' = rIn \o Carried(SubSeq(sOut, 1, n))
                                    /\ UNCHANGED << sIn, rOut >>
    BY <1>4 DEF TxToRx
  <2>2. rIn' = rIn \o SubSeq(sOut, 1, n)
    BY <1>2, <1>3, <2>1
  <2>4. /\ SubSeq(sOut, 1, n) \in Seq(Byte) /\ SubSeq(sOut, n + 1, Len(sOut)) \in Seq(Byte)
        /\ SubSeq(sOut, 1, n) \o SubSeq(sOut, n + 1, Len(sOut)) = sOut
        /\ rIn \in Seq(Byte) /\ sIn \in Seq(Byte)
    BY <1>2, <1>3
  <2>3. (rIn \o SubSeq(sOut, 1, n)) \o SubSeq(sOut, n + 1, Len(sOut)) = rIn \o sOut
    <3> DEFINE a == SubSeq(sOut, 1, n)
               b == SubSeq(sOut, n + 1, Len(sOut))
    <3> HIDE DEF a, b
    <3>1. a \in Seq(Byte) /\ b \in Seq(Byte) /\ a \o b = sOut
      BY <2>4 DEF a, b
    <3>2. rIn \in Seq(Byte)
      BY <2>4
    <3>3. (rIn \o a) \o b = rIn \o (a \o b)
      BY <3>1, <3>2, ConcatConcat
    <3>4. rIn \o (a \o b) = rIn \o sOut
      BY <3>1, Zenon
    <3> QED
      BY <3>3, <3>4 DEF a, b
  <2> QED
    BY <2>1, <2>2, <2>3 DEF Down, Up
<1>5. CASE RxToTx
  <2>1. PICK n \in 1 .. Len(rOut) : /\ rOut' = SubSeq(rOut, n + 1, Len(rOut))
                                    /\ sIn' = sIn \o Carried(SubSeq(rOut, 1, n))
                                    /\ UNCHANGED << sOut, rIn >>
    BY <1>5 DEF RxToTx
  <2>2. sIn' = sIn \o SubSeq(rOut, 1, n)
    BY <1>2, <1>3, <2>1
  <2>4. /\ SubSeq(rOut, 1, n) \in Seq(Byte) /\ SubSeq(rOut, n + 1, Len(rOut)) \in Seq(Byte)
        /\ SubSeq(rOut, 1, n) \o SubSeq(rOut, n + 1, Len(rOut)) = rOut
        /\ rIn \in Seq(Byte) /\ sIn \in Seq(Byte)
    BY <1>2, <1>3
  <2>3. (sIn \o SubSeq(rOut, 1, n)) \o SubSeq(rOut, n + 1, Len(rOut)) = sIn \o rOut
    <3> DEFINE a == SubSeq(rOut, 1, n)
               b == SubSeq(rOut, n + 1, Len(rOut))
    <3> HIDE DEF a, b
    <3>1. a \in Seq(Byte) /\ b \in Seq(Byte) /\ a \o b = rOut
      BY <2>4 DEF a, b
    <3>2. sIn \in Seq(Byte)
      BY <2>4
    <3>3. (sIn \o a) \o b = sIn \o (a \o b)
      BY <3>1, <3>2, ConcatConcat
    <3>4. sIn \o (a \o b) = sIn \o rOut
      BY <3>1, Zenon
    <3> QED
      BY <3>3, <3>4 DEF a, b
  <2> QED
    BY <2>1, <2>2, <2>3 DEF Down, Up
<1>6. CASE \E mode \in Modes : Press(mode)
  BY <1>6 DEF Press, wire, Down, Up
<1> QED
  BY <1>4, <1>5, <1>6 DEF CableNext

(***************************************************************************)
(* The five bytes of a supervision frame, and what is left of it.          *)
(***************************************************************************)
LEMMA SupervisionRest ==
  ASSUME NEW address \in {SenderAddress, ReceiverAddress}, NEW control \in Byte
  PROVE  LET frame == Supervision(address, control)
         IN  /\ frame \in Seq(Byte) /\ Len(frame) = 5
             /\ frame[1] = FLAG /\ frame[2] = address /\ frame[3] = control
             /\ frame[4] = Xor(address, control) /\ frame[5] = FLAG
             /\ Rest(frame, 1) = frame
             /\ \A k \in 1 .. 6 : Rest(frame, k) = << >> <=> k = 6
             /\ \A k \in 1 .. 5 : /\ Head(Rest(frame, k)) = frame[k]
                                  /\ Tail(Rest(frame, k)) = Rest(frame, k + 1)
<1> DEFINE frame == Supervision(address, control)
<1>1. address \in Byte /\ FLAG \in Byte
  BY DEF SenderAddress, ReceiverAddress, FLAG, Byte
<1>2. Xor(address, control) \in Byte
  BY <1>1, XorByte
<1>3. /\ frame \in Seq(Byte) /\ Len(frame) = 5
      /\ frame[1] = FLAG /\ frame[2] = address /\ frame[3] = control
      /\ frame[4] = Xor(address, control) /\ frame[5] = FLAG
  <2> DEFINE x == Xor(address, control)
  <2>1. frame = << FLAG, address, control, x, FLAG >> /\ x \in Byte
    BY <1>2 DEF Supervision
  <2> HIDE DEF x, frame
  <2> QED
    BY <1>1, <2>1 DEF x
<1> HIDE DEF frame
<1>4. Rest(frame, 1) = frame
  BY <1>3, RestAll
<1> DEFINE n == Len(frame)
<1>5. /\ \A k \in 1 .. n + 1 : Rest(frame, k) = << >> <=> k = n + 1
      /\ \A k \in 1 .. n + 1 : k <= n => /\ Head(Rest(frame, k)) = frame[k]
                                         /\ Tail(Rest(frame, k)) = Rest(frame, k + 1)
  BY <1>3, RestStep
<1>6. n = 5
  BY <1>3
<1> HIDE DEF n
<1>7. n + 1 = 6 /\ \A k \in 1 .. 5 : k \in 1 .. 6 /\ k <= 5
  BY <1>6
<1> QED
  BY <1>3, <1>4, <1>5, <1>6, <1>7 DEF frame

-----------------------------------------------------------------------------
(***************************************************************************)
(* What each program can do depends on where it is.                        *)
(***************************************************************************)
LEMMA SenderDoes ==
  ASSUME SenderStep
  PROVE  /\ UNCHANGED << receiver, cable >>
         /\ sPc \in {"closed", "handshake", "send", "select", "sleep", "answer", "close", "disc"}
         /\ sPc = "closed" => s_llopen /\ (ReceiverFirst => rPc # "closed")
         /\ sPc = "handshake" => s_handshake
         /\ sPc = "send" => s_send_data
         /\ sPc = "select" => SelectReady \/ (SelectTimeout /\ TimeoutPossible)
         /\ sPc = "sleep" => Sleep /\ SleepPossible
         /\ sPc = "close" => s_disconnect
         /\ sPc \in {"answer", "disc"} => s_receive
<1>1. /\ s_llopen => sPc = "closed"
      /\ s_handshake => sPc = "handshake"
      /\ s_send_data => sPc = "send"
      /\ SelectReady => sPc = "select"
      /\ SelectTimeout => sPc = "select"
      /\ Sleep => sPc = "sleep"
      /\ s_disconnect => sPc = "close"
      /\ s_receive => sPc \in {"answer", "disc"}
  BY DEF s_llopen, s_handshake, s_send_data, SelectReady, SelectTimeout, Sleep, s_disconnect,
         s_receive, AnswerByte, TwoFlags, UnknownControl, AnswerEnd, Receiving
<1> QED
  BY <1>1 DEF SenderStep

\* The same of the receiver.
LEMMA ReceiverDoes ==
  ASSUME ReceiverNext
  PROVE  /\ rPc \in {"closed", "opening", "reading", "closing", "awaitUA"}
         /\ rPc = "closed" => r_llopen
         /\ rPc = "opening" => r_handshake
         /\ rPc = "reading" => Reads
         /\ rPc = "closing" => r_disconnect
         /\ rPc = "awaitUA" => r_verify_if_ua_received
<1>1. /\ r_llopen => rPc = "closed"
      /\ r_handshake => rPc = "opening"
      /\ Parsing \/ Accept \/ Crash => rPc = "reading"
      /\ r_disconnect => rPc = "closing"
      /\ r_verify_if_ua_received => rPc = "awaitUA"
  BY DEF r_llopen, r_handshake, Parsing, Accept, Crash, r_disconnect, r_verify_if_ua_received,
         Unrecognised, Recognised
<1> QED
  BY <1>1 DEF ReceiverNext, Reads

-----------------------------------------------------------------------------
\* The control bytes the two sides look for and answer with are bytes.
LEMMA Controls ==
  /\ {SET, UA, DISC, FLAG} \subseteq Byte /\ \A bit \in {0, 1} : RR(bit) \in Byte
  BY DEF SET, UA, DISC, FLAG, RR, Byte

(***************************************************************************)
(* The automata of both sides, on the frame they wait for; and that of the *)
(* receiver on whatever byte is left in buf.                               *)
(***************************************************************************)
LEMMA Recognises ==
  ASSUME NEW control \in {SET, UA, DISC}
  PROVE  /\ \A b : r_Recognise("S", b, control) = IF b = FLAG THEN "F" ELSE "S"
         /\ r_Recognise("F", FLAG, control) = "F"
         /\ r_Recognise("F", SenderAddress, control) = "A"
         /\ r_Recognise("A", control, control) = "C"
         /\ r_Recognise("C", Xor(SenderAddress, control), control) = "B"
         /\ r_Recognise("B", FLAG, control) = "Z"
         /\ s_Recognise("S", FLAG, control) = "F"
         /\ s_Recognise("F", SenderAddress, control) = "A"
         /\ s_Recognise("A", control, control) = "C"
         /\ s_Recognise("C", Xor(SenderAddress, control), control) = "B"
         /\ s_Recognise("B", FLAG, control) = "Z"
<1>1. /\ Expected("S", control) = FLAG /\ Expected("F", control) = SenderAddress
      /\ Expected("A", control) = control /\ Expected("B", control) = FLAG
      /\ Expected("C", control) = Xor(SenderAddress, control)
  BY DEF Expected
<1>2. /\ Advance("S") = "F" /\ Advance("F") = "A" /\ Advance("A") = "C"
      /\ Advance("C") = "B" /\ Advance("B") = "Z"
  BY DEF Advance
<1>3. FLAG # SenderAddress
  BY DEF FLAG, SenderAddress
<1>4. ASSUME NEW b PROVE r_Recognise("S", b, control) = IF b = FLAG THEN "F" ELSE "S"
  BY <1>1, <1>2 DEF r_Recognise
<1>5. r_Recognise("F", FLAG, control) = "F"
  BY <1>1, <1>3 DEF r_Recognise
<1>6. /\ r_Recognise("F", SenderAddress, control) = "A"
      /\ r_Recognise("A", control, control) = "C"
      /\ r_Recognise("C", Xor(SenderAddress, control), control) = "B"
      /\ r_Recognise("B", FLAG, control) = "Z"
  BY <1>1, <1>2 DEF r_Recognise
<1>7. /\ s_Recognise("S", FLAG, control) = "F"
      /\ s_Recognise("F", SenderAddress, control) = "A"
      /\ s_Recognise("A", control, control) = "C"
      /\ s_Recognise("C", Xor(SenderAddress, control), control) = "B"
      /\ s_Recognise("B", FLAG, control) = "Z"
  BY <1>1, <1>2 DEF s_Recognise
<1> QED
  BY <1>4, <1>5, <1>6, <1>7

\* The states of an automaton along the frame.
LEMMA HuntStates ==
  /\ Hunt(1) = "S" /\ Hunt(2) = "F" /\ Hunt(3) = "A" /\ Hunt(4) = "C" /\ Hunt(5) = "B"
  /\ \A k \in 1 .. 5 : Hunt(k) # "Z"
<1>1. Hunt(1) = "S" /\ Hunt(2) = "F" /\ Hunt(3) = "A" /\ Hunt(4) = "C" /\ Hunt(5) = "B"
  BY DEF Hunt
<1> QED
  BY <1>1

(***************************************************************************)
(* The byte left in buf leaves an automaton of the receiver waiting, and   *)
(* without one it cannot move while nothing comes.                         *)
(***************************************************************************)
LEMMA WaitStep ==
  ASSUME NEW pc, NEW control \in {SET, UA, DISC}, NEW answer, NEW next, Waits(pc),
         STOP \in BOOLEAN, rIn = << >> \/ STOP,
         Unrecognised(pc, control) \/ Recognised(pc, control, answer, next)
  PROVE  Waits(pc)' /\ UNCHANGED << wire, dp, current_ctrl, accepted, output >>
<1>1. STOP /\ hs = "S"
  BY DEF Waits, Unrecognised, Recognised, Input
<1>2. r_Recognise(hs, FLAG, control) = "F" /\ \A b : b # FLAG => r_Recognise(hs, b, control) = "S"
  BY <1>1, Recognises
<1>3. ~Recognised(pc, control, answer, next)
  BY <1>1, <1>2 DEF Recognised
<1>4. Unrecognised(pc, control)
  BY <1>3
<1>5. PICK b \in Input : hs' = r_Recognise(hs, b, control) /\ Consume(FALSE)
  BY <1>4 DEF Unrecognised
<1>6. hs' \in {"S", "F"}
  BY <1>2, <1>5
<1>7. /\ rIn' = rIn /\ STOP' = FALSE /\ rPc = pc
      /\ UNCHANGED << sIn, sOut, rOut, rPc, dp, current_ctrl, accepted, output >>
  BY <1>1, <1>4, <1>5 DEF Unrecognised, Consume
<1> QED
  BY <1>6, <1>7 DEF Waits, wire

(***************************************************************************)
(* An automaton of the receiver takes the frame it waits for.              *)
(***************************************************************************)
LEMMA HuntStep ==
  ASSUME WireTypeOK, STOP \in BOOLEAN,
         NEW pc, NEW control \in {SET, UA, DISC}, NEW answer, NEW next,
         NEW k \in 1 .. 5, Hunts(pc, k), Down = Rest(Supervision(SenderAddress, control), k),
         Unrecognised(pc, control) \/ Recognised(pc, control, answer, next)
  PROVE  \/ /\ \E j \in 1 .. 5 : /\ Hunts(pc, j)'
                                 /\ Down' = Rest(Supervision(SenderAddress, control), j)
            /\ UNCHANGED << sIn, rOut, dp, current_ctrl, accepted, output >>
         \/ Recognised(pc, control, answer, next) /\ Down' = << >>
<1> DEFINE frame == Supervision(SenderAddress, control)
<1>1. CASE STOP
  <2>1. k = 1 /\ Waits(pc)
    BY <1>1 DEF Hunts
  <2>2. Waits(pc)' /\ UNCHANGED << wire, dp, current_ctrl, accepted, output >>
    BY <1>1, <2>1, WaitStep
  <2>3. Hunts(pc, 1)' /\ Down' = Down /\ 1 \in 1 .. 5
    BY <2>2 DEF Hunts, wire, Down
  <2> QED
    BY <2>1, <2>2, <2>3 DEF wire
<1>2. CASE ~STOP
  <2>1. PICK b \in Input : TRUE
    BY DEF Unrecognised, Recognised
  <2>2. rIn # << >> /\ Input = { Head(rIn) }
    BY <1>2, <2>1 DEF Input
  <2>3. rIn' = Tail(rIn) /\ sOut' = sOut
    BY <1>2 DEF Unrecognised, Recognised, Consume
  <2>4. Down # << >> /\ Head(Down) = Head(rIn) /\ Down' = Tail(Down)
    BY <2>2, <2>3, DownRead
  <2>5. control \in Byte
    BY Controls
  <2>6. /\ frame[1] = FLAG /\ frame[2] = SenderAddress /\ frame[3] = control
        /\ frame[4] = Xor(SenderAddress, control) /\ frame[5] = FLAG
        /\ \A j \in 1 .. 6 : Rest(frame, j) = << >> <=> j = 6
        /\ \A j \in 1 .. 5 : /\ Head(Rest(frame, j)) = frame[j]
                            /\ Tail(Rest(frame, j)) = Rest(frame, j + 1)
    BY <2>5, SupervisionRest
  <2>7. Down = Rest(frame, k)
    OBVIOUS
  <2> HIDE DEF frame
  <2>8. Head(Rest(frame, k)) = frame[k] /\ Tail(Rest(frame, k)) = Rest(frame, k + 1)
    BY <2>6
  <2>9. Rest(frame, 6) = << >>
    BY <2>6
  <2>10. Head(rIn) = frame[k] /\ Down' = Rest(frame, k + 1) /\ Rest(frame, 6) = << >>
    BY <2>4, <2>7, <2>8, <2>9
  <2>11. hs = Hunt(k) \/ (k = 1 /\ hs = "F")
    BY HuntStates DEF Hunts, Waits
  <2>12. IF k = 5 THEN r_Recognise(hs, Head(rIn), control) = "Z"
                 ELSE r_Recognise(hs, Head(rIn), control) = Hunt(k + 1)
    <3>1. CASE k = 1
      BY <2>6, <2>10, <2>11, <3>1, HuntStates, Recognises
    <3>2. CASE k = 2
      BY <2>6, <2>10, <2>11, <3>2, HuntStates, Recognises
    <3>3. CASE k = 3
      BY <2>6, <2>10, <2>11, <3>3, HuntStates, Recognises
    <3>4. CASE k = 4
      BY SMTT(30), <2>6, <2>10, <2>11, <3>4, HuntStates, Recognises
    <3>5. CASE k = 5
      BY <2>6, <2>10, <2>11, <3>5, HuntStates, Recognises
    <3> QED
      BY <3>1, <3>2, <3>3, <3>4, <3>5
  <2>13. CASE k = 5
    <3>1. ~Unrecognised(pc, control)
      BY <2>2, <2>12, <2>13 DEF Unrecognised
    <3>2. Down' = << >>
      BY <2>10, <2>13
    <3> QED
      BY <3>1, <3>2
  <2>14. CASE k # 5
    <3>1. k + 1 \in 1 .. 5 /\ k + 1 # 1 /\ Hunt(k + 1) # "Z"
      BY <2>14, HuntStates
    <3>2. Unrecognised(pc, control)
      BY <2>2, <2>12, <2>14, <3>1 DEF Recognised
    <3>3. /\ hs' = Hunt(k + 1) /\ STOP' = FALSE /\ rPc' = rPc /\ rPc = pc
          /\ UNCHANGED << sIn, rOut, dp, current_ctrl, accepted, output >>
      BY <2>2, <2>12, <2>14, <3>2 DEF Unrecognised, Consume
    <3>4. Hunts(pc, k + 1)'
      BY <3>1, <3>3 DEF Hunts
    <3> QED
      BY <2>10, <3>1, <3>3, <3>4 DEF frame
  <2> QED
    BY <2>13, <2>14
<1> QED
  BY <1>1, <1>2

-----------------------------------------------------------------------------
(***************************************************************************)
(* s_handshake takes the UA.                                               *)
(***************************************************************************)
LEMMA WelcomeStep ==
  ASSUME WireTypeOK, NEW k \in 1 .. 5, sHs = Hunt(k), Up = Rest(UaFrame, k), s_handshake
  PROVE  /\ Up' = Rest(UaFrame, k + 1)
         /\ IF k = 5 THEN sPc' = "send" /\ Up' = << >> ELSE sPc' = sPc /\ sHs' = Hunt(k + 1)
         /\ UNCHANGED << sOut, rIn, rOut, s_ctrl, ans, timeout_count, expired, msg, acked >>
<1> DEFINE frame == UaFrame
<1>1. UA \in Byte /\ SenderAddress \in {SenderAddress, ReceiverAddress} /\ UA \in {SET, UA, DISC}
  BY Controls
<1>2. /\ frame[1] = FLAG /\ frame[2] = SenderAddress /\ frame[3] = UA
      /\ frame[4] = Xor(SenderAddress, UA) /\ frame[5] = FLAG
      /\ \A j \in 1 .. 6 : Rest(frame, j) = << >> <=> j = 6
      /\ \A j \in 1 .. 5 : /\ Head(Rest(frame, j)) = frame[j]
                           /\ Tail(Rest(frame, j)) = Rest(frame, j + 1)
  BY <1>1, SupervisionRest DEF UaFrame
<1>3. Up = Rest(frame, k)
  OBVIOUS
<1> HIDE DEF frame
<1>4. sIn # << >> /\ sIn' = Tail(sIn) /\ rOut' = rOut
  BY DEF s_handshake
<1>5. Head(Up) = Head(sIn) /\ Up' = Tail(Up)
  BY <1>4, UpRead
<1>6. Head(Rest(frame, k)) = frame[k] /\ Tail(Rest(frame, k)) = Rest(frame, k + 1)
  BY <1>2
<1>7. Head(sIn) = frame[k] /\ Up' = Rest(frame, k + 1)
  BY <1>3, <1>5, <1>6
<1>8. IF k = 5 THEN s_Recognise(sHs, Head(sIn), UA) = "Z"
               ELSE s_Recognise(sHs, Head(sIn), UA) = Hunt(k + 1)
  <2>1. CASE k = 1
    BY <1>1, <1>2, <1>7, <2>1, HuntStates, Recognises
  <2>2. CASE k = 2
    BY <1>1, <1>2, <1>7, <2>2, HuntStates, Recognises
  <2>3. CASE k = 3
    BY <1>1, <1>2, <1>7, <2>3, HuntStates, Recognises
  <2>4. CASE k = 4
    BY <1>1, <1>2, <1>7, <2>4, HuntStates, Recognises
  <2>5. CASE k = 5
    BY <1>1, <1>2, <1>7, <2>5, HuntStates, Recognises
  <2> QED
    BY <2>1, <2>2, <2>3, <2>4, <2>5
<1>9. k = 5 => Rest(frame, k + 1) = << >>
  <2>1. Rest(frame, 6) = << >>
    BY <1>2
  <2> QED
    BY <2>1
<1>10. k # 5 => Hunt(k + 1) # "Z"
  <2>1. k # 5 => k + 1 \in 1 .. 5
    OBVIOUS
  <2> QED
    BY <2>1, HuntStates
<1> QED
  BY <1>7, <1>8, <1>9, <1>10 DEF s_handshake, frame

\* The states of s_receive along an answer.
LEMMA AnswerStates ==
  AnswerState(1) = "Start" /\ AnswerState(2) = "Flag" /\ AnswerState(3) = "A"
  /\ AnswerState(4) = "C" /\ AnswerState(5) = "BCC"
  BY DEF AnswerState

\* The bytes of the answers the transmitter waits for.
LEMMA AnswerNumbers ==
  ASSUME NEW control \in {RR(0), RR(1), DISC}
  PROVE  /\ control \in AnswerControls /\ control \in Byte
         /\ control # FLAG /\ ReceiverAddress # FLAG /\ Xor(ReceiverAddress, control) # FLAG
<1>1. control \in {1, 17, 10} /\ control \in AnswerControls
  BY DEF RR, DISC, AnswerControls
<1>2. Xor(3, 1) # 92 /\ Xor(3, 17) # 92 /\ Xor(3, 10) # 92
  BY DEF Xor
<1> QED
  BY <1>1, <1>2 DEF Byte, FLAG, ReceiverAddress

(***************************************************************************)
(* s_receive takes the answer it waits for, and returns it.                *)
(***************************************************************************)
LEMMA TakesAnswer ==
  ASSUME WireTypeOK, SenderTypeOK, NEW k \in 1 .. 5, NEW control \in {RR(0), RR(1), DISC},
         control # DISC => control = RR(s_ctrl),
         ReadsAnswer(k, control), Up = Rest(Supervision(ReceiverAddress, control), k), s_receive
  PROVE  IF k = 5
         THEN /\ Up' = << >> /\ s_ctrl' = 1 - s_ctrl /\ Return(control)
              /\ UNCHANGED << rIn, rOut, sHs, ans >>
         ELSE /\ ReadsAnswer(k + 1, control)'
              /\ Up' = Rest(Supervision(ReceiverAddress, control), k + 1)
              /\ UNCHANGED << sOut, rIn, rOut, sPc, s_ctrl, sHs,
                              timeout_count, expired, msg, acked >>
<1> DEFINE frame == Supervision(ReceiverAddress, control)
<1>1. /\ control \in AnswerControls /\ control \in Byte
      /\ control # FLAG /\ ReceiverAddress # FLAG /\ Xor(ReceiverAddress, control) # FLAG
  BY AnswerNumbers
<1>2. /\ frame[1] = FLAG /\ frame[2] = ReceiverAddress /\ frame[3] = control
      /\ frame[4] = Xor(ReceiverAddress, control) /\ frame[5] = FLAG
      /\ \A j \in 1 .. 6 : Rest(frame, j) = << >> <=> j = 6
      /\ \A j \in 1 .. 5 : /\ Head(Rest(frame, j)) = frame[j]
                           /\ Tail(Rest(frame, j)) = Rest(frame, j + 1)
  BY <1>1, SupervisionRest
<1>3. Up = Rest(frame, k)
  OBVIOUS
<1> HIDE DEF frame
<1>4. /\ Receiving /\ sIn # << >> /\ sIn' = Tail(sIn) /\ rOut' = rOut
      /\ AnswerByte \/ TwoFlags \/ UnknownControl \/ AnswerEnd
  BY DEF s_receive, AnswerByte, TwoFlags, UnknownControl, AnswerEnd, Receiving
<1>5. Head(Up) = Head(sIn) /\ Up' = Tail(Up)
  BY <1>4, UpRead
<1>6. Head(Rest(frame, k)) = frame[k] /\ Tail(Rest(frame, k)) = Rest(frame, k + 1)
  BY <1>2
<1>7. Head(sIn) = frame[k] /\ Up' = Rest(frame, k + 1)
  BY <1>3, <1>5, <1>6
<1>8. /\ ans.st = AnswerState(k) /\ ans.flags = (IF k = 2 THEN 1 ELSE 0)
      /\ ans.get = s_ctrl /\ (k > 3 => ans.control = control) /\ s_ctrl \in {0, 1}
  BY DEF ReadsAnswer, SenderTypeOK
<1>9. ~TwoFlags
  <2>1. ASSUME SecondFlag(Head(sIn)) PROVE FALSE
    <3>1. k = 2
      BY <1>8, <2>1 DEF SecondFlag
    <3> QED
      BY <1>1, <1>2, <1>7, <2>1, <3>1 DEF SecondFlag
  <2> QED
    BY <2>1 DEF TwoFlags
<1>10. ~UnknownControl
  <2>1. ASSUME UnknownControl PROVE FALSE
    <3>1. ans.st = "A" /\ Head(sIn) \notin AnswerControls
      BY <2>1 DEF UnknownControl
    <3>2. k = 3
      <4>1. k = 1 \/ k = 2 \/ k = 3 \/ k = 4 \/ k = 5
        OBVIOUS
      <4> QED
        BY <1>8, <3>1, <4>1, AnswerStates
    <3> QED
      BY <1>1, <1>2, <1>7, <3>1, <3>2
  <2> QED
    BY <2>1
<1>11. CASE k = 5
  <2>1. ans.st = "BCC" /\ Head(sIn) = FLAG
    BY <1>2, <1>7, <1>8, <1>11, AnswerStates
  <2>2. AnswerEnd
    BY <1>4, <1>9, <1>10, <2>1 DEF AnswerByte
  <2>3. /\ s_ctrl' = 1 - s_ctrl /\ Return(ans.control)
        /\ UNCHANGED << rIn, rOut, sHs, ans >>
    BY <1>8, <2>2 DEF AnswerEnd
  <2>4. ans.control = control
    BY <1>8, <1>11
  <2>5. Up' = << >>
    <3>1. Rest(frame, 6) = << >>
      BY <1>2
    <3> QED
      BY <1>7, <1>11, <3>1
  <2> QED
    BY <1>11, <2>3, <2>4, <2>5
<1>12. CASE k # 5
  <2>0. k = 1 \/ k = 2 \/ k = 3 \/ k = 4
    BY <1>12
  <2>1. ans.st # "BCC"
    BY <1>8, <2>0, AnswerStates
  <2>2. AnswerByte
    BY <1>4, <1>9, <1>10, <2>1 DEF AnswerEnd
  <2> DEFINE b == Head(sIn)
             read == ans.st = "A" /\ b # FLAG
             st == CASE ans.st = "Start" -> IF b = FLAG THEN "Flag" ELSE "Start"
                     [] ans.st = "Flag"  -> IF b = ReceiverAddress THEN "A" ELSE "Start"
                     [] ans.st = "A"     -> IF b = FLAG THEN "Flag" ELSE "C"
                     [] ans.st = "C"     -> IF b = Xor(ReceiverAddress, ans.control)
                                            THEN "BCC" ELSE "Start"
                     [] ans.st = "BCC"   -> "Start"
             flags == IF b = FLAG THEN 1 ELSE 0
             ctrl == IF read THEN b ELSE ans.control
             get == IF read THEN Get(b) ELSE ans.get
  <2>3. /\ ans' = [ st |-> st, flags |-> flags, control |-> ctrl, get |-> get ]
        /\ UNCHANGED << sOut, rIn, rOut, sPc, s_ctrl, sHs, timeout_count, expired, msg, acked >>
    BY <2>2, Zenon DEF AnswerByte
  <2>4. b = frame[k]
    BY <1>7
  <2>5. st = AnswerState(k + 1)
    <3>1. CASE k = 1
      BY SMTT(30), <1>2, <1>8, <2>4, <3>1, AnswerStates
    <3>2. CASE k = 2
      BY SMTT(30), <1>1, <1>2, <1>8, <2>4, <3>2, AnswerStates
    <3>3. CASE k = 3
      BY <1>1, <1>2, <1>8, <2>4, <3>3, AnswerStates
    <3>4. CASE k = 4
      BY SMTT(30), <1>1, <1>2, <1>8, <2>4, <3>4, AnswerStates
    <3> QED
      BY <2>0, <3>1, <3>2, <3>3, <3>4
  <2>6. flags = IF k + 1 = 2 THEN 1 ELSE 0
    BY SMTT(30), <1>1, <1>2, <2>0, <2>4
  <2>7. k + 1 > 3 => ctrl = control
    BY <1>1, <1>2, <1>8, <2>0, <2>4, AnswerStates
  <2>8. get = s_ctrl
    <3>1. read => b = control
      BY <1>2, <1>8, <2>0, <2>4, AnswerStates
    <3>2. Get(control) = s_ctrl
      <4>1. CASE control = DISC
        BY <1>8, <4>1 DEF Get, DISC, RR, REJ
      <4>2. CASE control = RR(s_ctrl)
        BY <1>8, <4>2 DEF Get, DISC, RR, REJ
      <4> QED
        BY <4>1, <4>2
    <3> QED
      BY <1>8, <3>1, <3>2
  <2> HIDE DEF st, flags, ctrl, get, b, read
  <2>9. /\ ans'.st = AnswerState(k + 1) /\ ans'.flags = (IF k + 1 = 2 THEN 1 ELSE 0)
        /\ (k + 1 > 3 => ans'.control = control) /\ ans'.get = s_ctrl
    BY <2>3, <2>5, <2>6, <2>7, <2>8
  <2>10. ReadsAnswer(k + 1, control)'
    BY <2>3, <2>9 DEF ReadsAnswer
  <2> QED
    BY <1>7, <1>12, <2>3, <2>10 DEF frame
<1> QED
  BY <1>11, <1>12

-----------------------------------------------------------------------------
\* The payloads of main, and the chunk that each of them carries.
LEMMA MessageParts ==
  ASSUME NEW i \in 1 .. Len(File) + 1
  PROVE  /\ Message(i) \in Seq(Byte) /\ Message(i) # << >>
         /\ i <= Len(File) => Message(i)[1] = 1 /\ Tail(Message(i)) = File[i]
         /\ ~(i <= Len(File)) => Message(i)[1] = 0
<1>1. i \in Nat \ {0} /\ Len(File) \in Nat
  BY SenderAssumption
<1>2. Message(i) \in Seq(Byte)
  BY <1>1, MessageType
<1>3. CASE i <= Len(File)
  <2>1. File[i] \in Seq(Byte)
    BY <1>1, <1>3, SenderAssumption
  <2> DEFINE one == << 1 >>
  <2>2. one \in Seq(Byte) /\ one # << >> /\ Head(one) = 1 /\ Tail(one) = << >>
    BY DEF Byte
  <2> HIDE DEF one
  <2>3. /\ one \o File[i] # << >> /\ Head(one \o File[i]) = 1
        /\ Tail(one \o File[i]) = << >> \o File[i]
    BY <2>1, <2>2, HeadConcat
  <2>4. << >> \o File[i] = File[i]
    BY <2>1, EmptyConcat
  <2>5. Message(i) = one \o File[i]
    BY <1>3 DEF Message, one
  <2>6. Head(Message(i)) = Message(i)[1]
    BY <1>2, <2>3, <2>5
  <2> QED
    BY <1>2, <1>3, <2>3, <2>4, <2>5, <2>6
<1>4. CASE ~(i <= Len(File))
  <2>1. Message(i) = << 0 >>
    BY <1>4 DEF Message
  <2> QED
    BY <1>2, <1>4, <2>1
<1> QED
  BY <1>3, <1>4

\* What the abstract transfer calls the file up to a chunk.
LEMMA UpToFlattens ==
  ASSUME NEW n
  PROVE  Transfer!UpTo(n) = FlattenSeq(SubSeq(File, 1, n))
  BY DEF Transfer!UpTo, Transfer!FlattenSeq, FlattenSeq

\* The file grows by the chunk of the message.
LEMMA SavedGrows ==
  ASSUME NEW n \in 0 .. Len(File)
  PROVE  Saved(n + 1) = IF n + 1 <= Len(File) THEN Saved(n) \o File[n + 1] ELSE Saved(n)
<1>1. Len(File) \in Nat /\ File \in Seq(Seq(Byte))
  BY SenderAssumption
<1>2. CASE n + 1 <= Len(File)
  <2> DEFINE before == SubSeq(File, 1, n)
             k == n + 1
  <2>1. before \in Seq(Seq(Byte)) /\ File[k] \in Seq(Byte)
    BY <1>1, <1>2
  <2>2. SubSeq(File, 1, k) = Append(before, File[k])
    <3> DEFINE s == SubSeq(File, 1, k)
               t == Append(before, File[k])
    <3>1. /\ s \in Seq(Seq(Byte)) /\ Len(s) = k
          /\ \A i \in 1 .. k : s[i] = File[i]
      BY <1>1, <1>2
    <3>2. /\ before \in Seq(Seq(Byte)) /\ Len(before) = n
          /\ \A i \in 1 .. n : before[i] = File[i]
      BY <1>1, <1>2
    <3> HIDE DEF s, before
    <3>3. /\ t \in Seq(Seq(Byte)) /\ Len(t) = n + 1 /\ t[n + 1] = File[k]
          /\ \A i \in 1 .. n : t[i] = before[i]
      BY <2>1, <3>2
    <3> HIDE DEF t
    <3>4. ASSUME NEW i \in 1 .. k PROVE s[i] = t[i]
      <4>1. CASE i = k
        BY <3>1, <3>3, <4>1
      <4>2. CASE i # k
        <5>1. i \in 1 .. n
          BY <4>2
        <5> QED
          BY <3>1, <3>2, <3>3, <5>1
      <4> QED
        BY <4>1, <4>2
    <3>5. s = t
      BY <3>1, <3>3, <3>4, SameSequence
    <3> QED
      BY <3>5 DEF s, t
  <2>3. FlattenSeq(Append(before, File[k])) = FlattenSeq(before) \o File[k]
    BY <2>1, FlattenAppend
  <2>4. Saved(n) = FlattenSeq(before) /\ Saved(n + 1) = FlattenSeq(SubSeq(File, 1, k))
    <3>1. n <= Len(File) /\ n + 1 <= Len(File)
      BY <1>1, <1>2
    <3>2. Saved(n) = Transfer!UpTo(n) /\ Saved(n + 1) = Transfer!UpTo(n + 1)
      BY <3>1 DEF Saved
    <3> QED
      BY <3>2, UpToFlattens
  <2> HIDE DEF before
  <2> QED
    BY <1>2, <2>2, <2>3, <2>4
<1>3. CASE ~(n + 1 <= Len(File))
  <2>1. n = Len(File)
    BY <1>1, <1>3
  <2> QED
    BY <1>1, <1>3, <2>1 DEF Saved
<1> QED
  BY <1>2, <1>3

\* Nothing is saved at first.
LEMMA SavedNothing == Saved(0) = << >>
<1>1. Len(File) \in Nat /\ 0 <= Len(File)
  BY SenderAssumption
<1>2. Saved(0) = FlattenSeq(SubSeq(File, 1, 0))
  <2>1. Saved(0) = Transfer!UpTo(0)
    BY <1>1 DEF Saved
  <2> QED
    BY <2>1, UpToFlattens
<1>3. SubSeq(File, 1, 0) = << >>
  BY SenderAssumption
<1> QED
  BY <1>2, <1>3, FlattenEmpty

-----------------------------------------------------------------------------
\* The types the stages rest on.
LEMMA Known ==
  ASSUME PerfectInv
  PROVE  /\ WireTypeOK /\ SenderTypeOK /\ PortTypeOK /\ STOP \in BOOLEAN
         /\ Len(File) \in Nat /\ NumTries \in Nat
         /\ acked \in 0 .. Len(File) + 1 /\ msg \in 1 .. Len(File) + 1
         /\ timeout_count \in 0 .. NumTries /\ expired \in BOOLEAN
         /\ s_ctrl \in {0, 1} /\ current_ctrl \in {0, 1}
         /\ MsgFollows /\ Counted /\ accepted \in Seq(Seq(Byte))
  BY SenderAssumption
  DEF PerfectInv, Types, TypeOK, PortTypeOK, SenderTypeOK, ReceiverTypeOK

\* Nothing is counted in most of the steps.
LEMMA SameCount ==
  ASSUME Counted, UNCHANGED << s_ctrl, acked, current_ctrl, accepted, output >>,
         sPc' # "success" => sPc # "success", rPc' = "reading" => hs' = "S",
         sPc' \in {"closed", "handshake"} =>
           sPc \in {"closed", "handshake"} /\ UNCHANGED << timeout_count, expired >>
  PROVE  Counted'
  BY DEF Counted

\* Without anything to read, and without a byte in buf, nothing is recognised.
LEMMA NothingComes ==
  ASSUME ~STOP, rIn = << >>, NEW pc, NEW control, NEW answer, NEW next
  PROVE  ~Unrecognised(pc, control) /\ ~Recognised(pc, control, answer, next)
<1>1. Input = {}
  BY DEF Input
<1> QED
  BY <1>1 DEF Unrecognised, Recognised

(***************************************************************************)
(* Both ports are opened, the receiver's first, and SET is written.        *)
(***************************************************************************)
LEMMA CallingStep ==
  ASSUME PerfectInv, Undisturbed, Calling, SenderStep \/ ReceiverStep
  PROVE  Stage' /\ Counted'
<1>1. WireTypeOK /\ Counted /\ SET \in Byte
  BY Known, Controls
<1>2. sOut = << >> /\ sIn = << >> /\ rOut = << >> /\ rIn = << >>
  BY <1>1, LineType DEF Calling
<1>3. /\ sPc = "closed" /\ sHs = "S" /\ rPc \in {"closed", "opening"} /\ ~STOP /\ hs = "S"
      /\ acked = 0 /\ Len(accepted) = 0
  BY DEF Calling
<1>4. CASE SenderStep
  <2>1. s_llopen /\ UNCHANGED receiver /\ rPc = "opening"
    BY <1>3, <1>4, SenderDoes DEF Undisturbed
  <2>2. sIn' = << >> /\ sOut' = SetFrame /\ rIn' = << >> /\ rOut' = << >>
    BY <1>2, <2>1 DEF s_llopen, SetFrame
  <2>3. SetFrame \in Seq(Byte) /\ Rest(SetFrame, 1) = SetFrame
    BY <1>1, SupervisionRest DEF SetFrame
  <2>4. Down' = Rest(SetFrame, 1) /\ Up' = << >>
    BY <2>2, <2>3, EmptyConcat DEF Down, Up
  <2>5. /\ sPc' = "handshake" /\ sHs' = "S" /\ acked' = 0 /\ Len(accepted') = 0
        /\ rPc' = "opening" /\ hs' = "S" /\ ~STOP'
        /\ UNCHANGED << s_ctrl, acked, current_ctrl, accepted, output, timeout_count, expired >>
    BY <1>3, <2>1 DEF s_llopen, receiver
  <2>6. Hunts("opening", 1)' /\ 1 \in 1 .. 5
    BY <2>5 DEF Hunts, Waits
  <2>7. Greeting'
    BY <2>4, <2>5, <2>6 DEF Greeting
  <2>8. Counted'
    BY <1>1, <1>3, <2>5, SameCount
  <2> QED
    BY <2>7, <2>8 DEF Stage
<1>5. CASE ReceiverStep
  <2>1. ReceiverNext /\ UNCHANGED sender
    BY <1>5 DEF ReceiverStep
  <2>2. rPc = "closed"
    <3>1. ASSUME rPc = "opening" PROVE FALSE
      BY <1>2, <1>3, <2>1, <3>1, ReceiverDoes, NothingComes DEF r_handshake
    <3> QED
      BY <1>3, <3>1
  <2>3. r_llopen
    BY <2>1, <2>2, ReceiverDoes
  <2>4. /\ rIn' = << >> /\ rOut' = << >> /\ sIn' = << >> /\ sOut' = << >>
        /\ rPc' = "opening" /\ current_ctrl' = 0
        /\ UNCHANGED << STOP, hs, accepted, output >>
    BY <1>2, <2>3 DEF r_llopen
  <2>5. Down' = << >> /\ Up' = << >>
    BY <1>2, <2>4 DEF Down, Up
  <2>6. Calling'
    BY <1>3, <2>1, <2>4, <2>5 DEF Calling, sender
  <2>7. current_ctrl = 0
    BY <1>1, <1>3 DEF Counted
  <2>8. Counted'
    BY <1>1, <2>1, <2>4, <2>7, SameCount DEF sender
  <2> QED
    BY <2>6, <2>8 DEF Stage
<1> QED
  BY <1>4, <1>5

(***************************************************************************)
(* The receiver takes SET and writes UA; the transmitter waits for it.     *)
(***************************************************************************)
LEMMA GreetingStep ==
  ASSUME PerfectInv, Greeting, SenderStep \/ ReceiverStep
  PROVE  Stage' /\ Counted'
<1>1. WireTypeOK /\ Counted /\ SET \in {SET, UA, DISC} /\ UA \in Byte /\ STOP \in BOOLEAN
  BY Known, Controls
<1>2. sIn = << >> /\ rOut = << >>
  BY <1>1, LineType DEF Greeting
<1>3. sPc = "handshake" /\ sHs = "S" /\ acked = 0 /\ Len(accepted) = 0
  BY DEF Greeting
<1>4. ~SenderStep
  BY <1>2, <1>3, SenderDoes DEF s_handshake
<1>5. ReceiverNext /\ UNCHANGED sender
  BY <1>4 DEF ReceiverStep
<1>6. PICK k \in 1 .. 5 : Hunts("opening", k) /\ Down = Rest(SetFrame, k)
  BY DEF Greeting
<1>7. rPc = "opening"
  BY <1>6 DEF Hunts, Waits
<1>8. r_handshake
  BY <1>5, <1>7, ReceiverDoes
<1> DEFINE answer == UaFrame
<1>9. \/ Unrecognised("opening", SET)
      \/ Recognised("opening", SET, answer, "reading")
  BY <1>8 DEF r_handshake, UaFrame
<1>10. \/ /\ \E j \in 1 .. 5 : Hunts("opening", j)' /\ Down' = Rest(SetFrame, j)
          /\ UNCHANGED << sIn, rOut, dp, current_ctrl, accepted, output >>
       \/ Recognised("opening", SET, answer, "reading") /\ Down' = << >>
  BY <1>1, <1>6, <1>9, HuntStep DEF SetFrame
<1>11. CASE /\ \E j \in 1 .. 5 : Hunts("opening", j)' /\ Down' = Rest(SetFrame, j)
            /\ UNCHANGED << sIn, rOut, dp, current_ctrl, accepted, output >>
  <2>1. Greeting'
    BY <1>2, <1>3, <1>5, <1>11 DEF Greeting, sender, Up
  <2>2. rPc' # "reading"
    BY <1>11 DEF Hunts, Waits
  <2>3. Counted'
    BY <1>1, <1>5, <1>11, <2>2, SameCount DEF sender
  <2> QED
    BY <2>1, <2>3 DEF Stage
<1>12. CASE Recognised("opening", SET, answer, "reading") /\ Down' = << >>
  <2>1. /\ rPc' = "reading" /\ STOP' = TRUE /\ hs' = "S" /\ rOut' = rOut \o UaFrame
        /\ UNCHANGED << sIn, sOut, current_ctrl, accepted, output >>
    BY <1>12 DEF Recognised, Consume
  <2>2. UaFrame \in Seq(Byte) /\ Rest(UaFrame, 1) = UaFrame
    BY <1>1, SupervisionRest DEF UaFrame
  <2>3. Up' = Rest(UaFrame, 1)
    BY <1>2, <2>1, <2>2, EmptyConcat DEF Up
  <2>4. NewParser
    <3>1. ~Unrecognised("opening", SET)
      BY <1>7, <2>1 DEF Unrecognised
    <3> QED
      BY <1>8, <3>1 DEF r_handshake
  <2>5. Ready'
    <3>1. PICK t2 \in Garbage : dp' = Parser(t2)
      BY <2>4 DEF NewParser
    <3> QED
      BY <2>1, <3>1 DEF Ready, Blank, Parser
  <2>6. sHs' = Hunt(1) /\ 1 \in 1 .. 5
    BY <1>3, <1>5, HuntStates DEF sender
  <2>7. Welcomed'
    BY <1>3, <1>5, <1>12, <2>1, <2>3, <2>5, <2>6 DEF Welcomed, sender
  <2>8. Counted'
    BY <1>1, <1>5, <2>1, SameCount DEF sender
  <2> QED
    BY <2>7, <2>8 DEF Stage
<1> QED
  BY <1>10, <1>11, <1>12

\* A parser that waits, while nothing comes, at most looks at the byte in buf.
LEMMA ReadyIdles ==
  ASSUME PortTypeOK, Ready, rIn = << >>, Reads
  PROVE  Ready' /\ UNCHANGED << wire, rPc, hs, current_ctrl, accepted, output >>
<1>1. STOP
  BY Starved
<1>2. Ready' /\ Step(dp')
  BY <1>1, LeftOver
<1> QED
  BY <1>1, <1>2, StepEffect DEF wire

(***************************************************************************)
(* The transmitter takes UA and is ready to send the first message.        *)
(***************************************************************************)
LEMMA WelcomedStep ==
  ASSUME PerfectInv, Welcomed, SenderStep \/ ReceiverStep
  PROVE  Stage' /\ Counted'
<1>1. WireTypeOK /\ Counted /\ PortTypeOK
  BY Known
<1>2. rIn = << >> /\ sOut = << >>
  BY <1>1, LineType DEF Welcomed
<1>3. /\ sPc = "handshake" /\ Ready /\ acked = 0 /\ Len(accepted) = 0 /\ rPc = "reading"
      /\ hs = "S" /\ timeout_count = 0 /\ ~expired
  BY <1>1 DEF Welcomed, Ready, Counted
<1>4. PICK k \in 1 .. 5 : sHs = Hunt(k) /\ Up = Rest(UaFrame, k)
  BY DEF Welcomed
<1>5. CASE SenderStep
  <2>1. s_handshake /\ UNCHANGED receiver
    BY <1>3, <1>5, SenderDoes
  <2>2. /\ Up' = Rest(UaFrame, k + 1)
        /\ IF k = 5 THEN sPc' = "send" /\ Up' = << >> ELSE sPc' = sPc /\ sHs' = Hunt(k + 1)
        /\ UNCHANGED << sOut, rIn, rOut, s_ctrl, ans, timeout_count, expired, msg, acked >>
    BY <1>1, <1>4, <2>1, WelcomeStep
  <2>3. Ready' /\ rPc' = rPc /\ hs' = hs /\ UNCHANGED << current_ctrl, accepted, output >>
    BY <1>3, <2>1 DEF receiver, Ready, Blank
  <2>4. Down' = << >>
    BY <1>2, <2>2, EmptyConcat DEF Down
  <2>5. Counted'
    BY <1>1, <1>3, <2>2, <2>3, SameCount
  <2>6. CASE k = 5
    <3>1. Sending'
      BY <1>3, <2>2, <2>3, <2>4, <2>6 DEF Sending
    <3> QED
      BY <2>5, <3>1 DEF Stage
  <2>7. CASE k # 5
    <3>1. k + 1 \in 1 .. 5
      BY <2>7
    <3>2. Welcomed'
      BY <1>3, <2>2, <2>3, <2>4, <2>7, <3>1 DEF Welcomed
    <3> QED
      BY <2>5, <3>2 DEF Stage
  <2> QED
    BY <2>6, <2>7
<1>6. CASE ReceiverStep
  <2>1. ReceiverNext /\ UNCHANGED sender
    BY <1>6 DEF ReceiverStep
  <2>2. Reads
    BY <1>3, <2>1, ReceiverDoes
  <2>3. Ready' /\ UNCHANGED << wire, rPc, hs, current_ctrl, accepted, output >>
    BY <1>1, <1>2, <1>3, <2>2, ReadyIdles
  <2>4. Welcomed'
    BY <1>3, <1>4, <2>1, <2>3 DEF Welcomed, sender, wire, Down, Up
  <2>5. Counted'
    BY <1>1, <1>3, <2>1, <2>3, SameCount DEF sender
  <2> QED
    BY <2>4, <2>5 DEF Stage
<1> QED
  BY <1>5, <1>6

-----------------------------------------------------------------------------
\* A payload, its frame and the place of the closing flag.
LEMMA FrameKnown ==
  ASSUME NEW p \in Seq(Byte), NEW bit \in {0, 1}
  PROVE  /\ DataFrame(p, bit) \in Seq(Byte) /\ Len(DataFrame(p, bit)) = End(p)
         /\ End(p) \in Nat \ {0}
         /\ Rest(DataFrame(p, bit), 1) = DataFrame(p, bit)
         /\ Rest(DataFrame(p, bit), End(p) + 1) = << >>
         /\ \A k \in 1 .. End(p) + 1 : /\ Rest(DataFrame(p, bit), k) \in Seq(Byte)
                                       /\ Rest(DataFrame(p, bit), k) = << >> <=> k = End(p) + 1
<1> DEFINE frame == DataFrame(p, bit)
<1>1. frame \in Seq(Byte) /\ Len(frame) = End(p) /\ End(p) \in Nat \ {0}
  BY FrameBytes, SealedBytes DEF End
<1>2. Rest(frame, 1) = frame
  BY <1>1, RestAll
<1>3. \A k \in 1 .. End(p) + 1 : /\ Rest(frame, k) \in Seq(Byte)
                                 /\ Rest(frame, k) = << >> <=> k = End(p) + 1
  BY <1>1, RestStep
<1>4. End(p) + 1 \in 1 .. End(p) + 1
  BY <1>1
<1> HIDE DEF frame
<1>5. Rest(frame, End(p) + 1) = << >>
  BY <1>3, <1>4
<1> QED
  BY <1>1, <1>2, <1>3, <1>5 DEF frame

(***************************************************************************)
(* A byte of the frame of p takes the parser one place further, or ends it *)
(* with the body of p.                                                     *)
(***************************************************************************)
LEMMA FrameStep ==
  ASSUME WireTypeOK, PortTypeOK, STOP \in BOOLEAN, Reads,
         NEW p \in Seq(Byte), NEW bit \in {0, 1}, bit = current_ctrl, NEW more \in Seq(Byte),
         NEW k \in 1 .. End(p), Parses(p, k), Down = Rest(DataFrame(p, bit), k) \o more
  PROVE  \/ /\ InFrame(p, bit, more)'
            /\ UNCHANGED << sIn, rOut, rPc, hs, current_ctrl, accepted, output >>
         \/ ~Lost(p) /\ Accept /\ dp.data = Sealed(p) /\ Down' = more
<1> DEFINE frame == DataFrame(p, bit)
<1>1. frame \in Seq(Byte) /\ Len(frame) = End(p) /\ End(p) \in Nat \ {0}
  BY FrameKnown
<1>2. Down = Rest(frame, k) \o more
  OBVIOUS
<1>3. frame = DataFrame(p, current_ctrl)
  OBVIOUS
<1> HIDE DEF frame
<1>4. CASE STOP
  <2>1. k = 1 /\ Ready
    BY <1>4 DEF Parses
  <2>2. Ready' /\ Step(dp')
    BY <1>4, <2>1, LeftOver
  <2>3. UNCHANGED << wire, rPc, hs, current_ctrl, accepted, output >>
    BY <1>4, <2>2, StepEffect DEF wire
  <2>4. Parses(p, 1)' /\ 1 \in 1 .. End(p) + 1
    BY <1>1, <2>2 DEF Parses
  <2>5. Down' = Rest(frame, 1) \o more
    BY <1>2, <2>1, <2>3 DEF wire, Down
  <2>6. InFrame(p, bit, more)'
    BY <2>4, <2>5 DEF InFrame, frame
  <2> QED
    BY <2>3, <2>6 DEF wire
<1>5. CASE ~STOP
  <2>1. /\ Rest(frame, k) \in Seq(Byte) /\ Rest(frame, k) # << >>
        /\ Head(Rest(frame, k)) = frame[k] /\ Tail(Rest(frame, k)) = Rest(frame, k + 1)
    <3>1. k \in 1 .. Len(frame) + 1 /\ k <= Len(frame) /\ k # Len(frame) + 1
      BY <1>1
    <3> QED
      BY <1>1, <3>1, RestStep
  <2>2. rIn # << >>
    BY <1>5, Starved
  <2>3. Head(rIn) = Head(Down) /\ Head(Down) = frame[k] /\ Tail(Down) = Rest(frame, k + 1) \o more
    <3>1. Head(rIn) = Head(Down)
      BY <2>2, LineType, HeadConcat DEF Down
    <3>2. /\ Head(Rest(frame, k) \o more) = Head(Rest(frame, k))
          /\ Tail(Rest(frame, k) \o more) = Tail(Rest(frame, k)) \o more
      BY <2>1, HeadConcat
    <3> QED
      BY <1>2, <2>1, <3>1, <3>2
  <2>4. Head(rIn) = DataFrame(p, current_ctrl)[k]
    BY <1>3, <2>3
  <2>5. \/ Step(dp') /\ Parses(p, k + 1)'
        \/ k = End(p) /\ ~Lost(p) /\ Accept /\ dp.data = Sealed(p)
    BY <1>5, <2>4, FrameByte
  <2>6. rIn' = Tail(rIn) /\ sOut' = sOut => Down' = Rest(frame, k + 1) \o more
    BY <2>2, <2>3, DownRead
  <2>7. STOP = FALSE
    BY <1>5
  <2>8. CASE Step(dp') /\ Parses(p, k + 1)'
    <3>1. /\ rIn' = Tail(rIn)
          /\ UNCHANGED << sIn, sOut, rOut, rPc, hs, current_ctrl, accepted, output >>
      BY <2>7, <2>8, StepEffect
    <3>2. k + 1 \in 1 .. End(p) + 1
      BY <1>1
    <3>3. InFrame(p, bit, more)'
      BY <2>6, <2>8, <3>1, <3>2 DEF InFrame, frame
    <3> QED
      BY <3>1, <3>3
  <2>9. CASE k = End(p) /\ ~Lost(p) /\ Accept /\ dp.data = Sealed(p)
    <3>1. rIn' = Tail(rIn) /\ sOut' = sOut
      BY <2>7, <2>9 DEF Accept, Consume
    <3>2. Rest(frame, k + 1) = << >>
      BY <2>9, FrameKnown DEF frame
    <3>3. Down' = more
      BY <2>6, <3>1, <3>2, EmptyConcat
    <3> QED
      BY <2>9, <3>3
  <2> QED
    BY <2>5, <2>8, <2>9
<1> QED
  BY <1>4, <1>5

\* Whatever the transmitter does, the parser stays where it is.
LEMMA ParserStays ==
  ASSUME NEW p, NEW k, Parses(p, k), UNCHANGED receiver
  PROVE  Parses(p, k)'
  BY DEF Parses, Ready, Blank, Collecting, Dropped, receiver

\* The rest of the frame may be followed by more.
LEMMA FrameFollowed ==
  ASSUME NEW p \in Seq(Byte), NEW bit \in {0, 1}, NEW x \in Seq(Byte),
         InFrame(p, bit, << >>), Down' = Down \o x, UNCHANGED receiver
  PROVE  InFrame(p, bit, x)'
<1>1. PICK k \in 1 .. End(p) + 1 : Parses(p, k) /\ Down = Rest(DataFrame(p, bit), k) \o << >>
  BY DEF InFrame
<1>2. Rest(DataFrame(p, bit), k) \in Seq(Byte)
  BY FrameKnown
<1>3. Down' = Rest(DataFrame(p, bit), k) \o x
  BY <1>1, <1>2, EmptyConcat
<1>4. Parses(p, k)'
  BY <1>1, ParserStays
<1> QED
  BY <1>3, <1>4 DEF InFrame

\* When nothing of the frame is left, its body has been thrown away.
LEMMA FrameOver ==
  ASSUME NEW p \in Seq(Byte), NEW bit \in {0, 1}, InFrame(p, bit, << >>), Down = << >>
  PROVE  Lost(p) /\ Ready /\ ~STOP
<1>1. PICK k \in 1 .. End(p) + 1 : Parses(p, k) /\ Down = Rest(DataFrame(p, bit), k) \o << >>
  BY DEF InFrame
<1>2. Rest(DataFrame(p, bit), k) = << >> /\ End(p) \in Nat \ {0}
  BY <1>1, FrameKnown, EmptyConcat
<1>3. k = End(p) + 1
  BY <1>2, FrameKnown
<1>4. Lost(p) /\ Dropped(1) /\ rPc = "reading" /\ ~STOP
  BY <1>2, <1>1, <1>3 DEF Parses
<1>5. Blank /\ dp.st = 1
  BY <1>4 DEF Dropped, Parser, Blank
<1> QED
  BY <1>4, <1>5 DEF Ready

-----------------------------------------------------------------------------
\* The frame that is being sent has not been counted yet.
LEMMA SendingKnown ==
  ASSUME PerfectInv, Sending
  PROVE  /\ sPc \in {"send", "select", "sleep"} /\ msg = acked + 1 /\ msg \in 1 .. Len(File) + 1
         /\ Message(msg) \in Seq(Byte) /\ Message(msg) # << >>
         /\ current_ctrl = s_ctrl /\ s_ctrl \in {0, 1} /\ rPc = "reading" /\ hs = "S"
         /\ Len(accepted) = acked /\ acked \in 0 .. Len(File)
<1>1. Counted /\ msg \in 1 .. Len(File) + 1 /\ s_ctrl \in {0, 1} /\ MsgFollows /\ Len(File) \in Nat
      /\ acked \in 0 .. Len(File) + 1
  BY Known
<1>2. sPc \in {"send", "select", "sleep"} /\ Len(accepted) = acked
  BY DEF Sending
<1>3. msg = acked + 1 /\ current_ctrl = s_ctrl
  BY <1>1, <1>2 DEF MsgFollows, Counted
<1>4. rPc = "reading"
  BY DEF Sending, InFrame, Ready, Parses
<1> QED
  BY <1>1, <1>2, <1>3, <1>4, MessageParts DEF Counted

(***************************************************************************)
(* The transmitter writes the frame, and sends it again only when it has   *)
(* been read to its end, which a parser has thrown away.                   *)
(***************************************************************************)
LEMMA SenderSends ==
  ASSUME PerfectInv, Undisturbed, Sending, SenderStep
  PROVE  Stage' /\ Counted'
<1>1. /\ sPc \in {"send", "select", "sleep"} /\ msg = acked + 1 /\ msg \in 1 .. Len(File) + 1
      /\ Message(msg) \in Seq(Byte) /\ s_ctrl \in {0, 1} /\ rPc = "reading" /\ hs = "S"
      /\ Len(accepted) = acked
  BY SendingKnown
<1>2. /\ WireTypeOK /\ Counted /\ NumTries \in Nat /\ timeout_count \in 0 .. NumTries
  BY Known
<1>3. PICK p \in Seq(Byte) : p = Message(msg)
  BY <1>1
<1>4. PICK bit \in {0, 1} : bit = s_ctrl
  BY <1>1
<1>5. Up = << >> /\ sIn = << >> /\ rOut = << >> /\ (timeout_count > 0 \/ expired => Lost(p))
  BY <1>2, <1>3, LineType DEF Sending
<1>6. UNCHANGED receiver /\ UNCHANGED << current_ctrl, accepted, output, rPc, hs >>
  BY SenderDoes DEF receiver
<1>7. ASSUME UNCHANGED wire PROVE Down' = Down /\ Up' = Up
  BY <1>7 DEF wire, Down, Up
<1>8. ASSUME InFrame(p, bit, << >>), UNCHANGED wire PROVE InFrame(p, bit, << >>)'
  <2>1. Down' = Down \o << >> /\ << >> \in Seq(Byte)
    BY <1>2, <1>7, <1>8, LineType, EmptyConcat
  <2> QED
    BY <1>6, <1>8, <2>1, FrameFollowed
<1>9. CASE sPc = "send"
  <2>1. s_send_data /\ Ready /\ Down = << >>
    BY <1>1, <1>9, SenderDoes DEF Sending
  <2>2. /\ sPc' = "select" /\ sOut' = sOut \o DataFrame(p, bit) /\ rIn' = rIn
        /\ UNCHANGED << sIn, rOut, s_ctrl, timeout_count, expired, msg, acked >>
    BY <1>3, <1>4, <2>1 DEF s_send_data
  <2>3. DataFrame(p, bit) \in Seq(Byte) /\ Rest(DataFrame(p, bit), 1) = DataFrame(p, bit)
        /\ End(p) \in Nat \ {0}
    BY FrameKnown
  <2>4. Down' = Rest(DataFrame(p, bit), 1) \o << >>
    BY <1>2, <2>1, <2>2, <2>3, DownWritten, EmptyConcat
  <2>5. Parses(p, 1)' /\ 1 \in 1 .. End(p) + 1
    <3>1. Parses(p, 1)
      BY <2>1 DEF Parses
    <3> QED
      BY <1>6, <2>3, <3>1, ParserStays
  <2>6. InFrame(p, bit, << >>)'
    BY <2>4, <2>5 DEF InFrame
  <2>7. Up' = << >>
    BY <1>5, <2>2 DEF Up
  <2>8. Sending'
    BY <1>1, <1>3, <1>4, <1>5, <1>6, <2>2, <2>6, <2>7 DEF Sending
  <2>9. Counted'
    BY <1>1, <1>2, <1>6, <2>2, SameCount
  <2> QED
    BY <2>8, <2>9 DEF Stage
<1>10. CASE sPc = "select"
  <2>1. InFrame(p, bit, << >>)
    BY <1>3, <1>4, <1>10 DEF Sending
  <2>2. ~SelectReady
    BY <1>5 DEF SelectReady, VMIN
  <2>3. SelectTimeout /\ TimeoutPossible
    BY <1>10, <2>2, SenderDoes
  <2>4. Lost(p)
    <3>1. CASE expired
      BY <1>5, <3>1
    <3>2. CASE Settled
      <4>1. rIn = << >> /\ sOut = << >>
        BY <1>1, <3>2 DEF Settled, ReceiverIdle, ReceiverEnded
      <4>2. Down = << >>
        BY <1>2, <4>1, LineType
      <4> QED
        BY <2>1, <4>2, FrameOver
    <3> QED
      BY <2>3, <3>1, <3>2 DEF TimeoutPossible, Undisturbed
  <2>5. CASE GiveUp
    <3>1. /\ sPc' = "close" /\ UNCHANGED << msg, timeout_count, expired, acked, s_ctrl >>
          /\ UNCHANGED wire
      BY <2>5 DEF GiveUp, LlwriteReturns, wire
    <3>2. InFrame(p, bit, << >>)' /\ Up' = << >>
      BY <1>5, <1>7, <1>8, <2>1, <3>1
    <3>3. GivenUp'
      BY <1>1, <1>3, <1>4, <1>6, <2>4, <3>1, <3>2 DEF GivenUp
    <3>4. Counted'
      BY <1>1, <1>2, <1>6, <3>1, SameCount
    <3> QED
      BY <3>3, <3>4 DEF Stage
  <2>6. CASE ~GiveUp
    <3>1. /\ sPc' = "sleep" /\ UNCHANGED << msg, acked, s_ctrl >> /\ UNCHANGED wire
      BY <2>3, <2>6 DEF SelectTimeout
    <3>2. InFrame(p, bit, << >>)' /\ Up' = << >>
      BY <1>5, <1>7, <1>8, <2>1, <3>1
    <3>3. Sending'
      BY <1>1, <1>3, <1>4, <1>6, <2>4, <3>1, <3>2 DEF Sending
    <3>4. Counted'
      BY <1>1, <1>2, <1>6, <3>1, SameCount
    <3> QED
      BY <3>3, <3>4 DEF Stage
  <2> QED
    BY <2>5, <2>6
<1>11. CASE sPc = "sleep"
  <2>1. InFrame(p, bit, << >>) /\ Lost(p)
    BY <1>3, <1>4, <1>11 DEF Sending
  <2>2. Sleep /\ Settled
    BY <1>11, SenderDoes DEF SleepPossible, Undisturbed
  <2>3. Down = << >>
    <3>1. rIn = << >> /\ sOut = << >>
      BY <1>1, <2>2 DEF Settled, ReceiverIdle, ReceiverEnded
    <3> QED
      BY <1>2, <3>1, LineType
  <2>4. Ready
    BY <2>1, <2>3, FrameOver
  <2>5. sPc' = "send" /\ UNCHANGED << s_ctrl, timeout_count, expired, msg, acked >> /\ UNCHANGED wire
    BY <2>2 DEF Sleep
  <2>6. Ready'
    BY <1>6, <2>4 DEF Ready, Blank, receiver
  <2>7. Sending'
    BY <1>1, <1>3, <1>5, <1>6, <1>7, <2>1, <2>3, <2>5, <2>6 DEF Sending
  <2>8. Counted'
    BY <1>1, <1>2, <1>6, <2>5, SameCount
  <2> QED
    BY <2>7, <2>8 DEF Stage
<1> QED
  BY <1>1, <1>9, <1>10, <1>11

(***************************************************************************)
(* The receiver reads the frame; at its closing flag it has accepted the   *)
(* message, written its chunk and the RR of its bit.                       *)
(***************************************************************************)
LEMMA ReceiverReads ==
  ASSUME PerfectInv, Sending, ReceiverStep
  PROVE  Stage' /\ Counted'
<1>1. /\ sPc \in {"send", "select", "sleep"} /\ msg = acked + 1 /\ msg \in 1 .. Len(File) + 1
      /\ Message(msg) \in Seq(Byte) /\ Message(msg) # << >>
      /\ current_ctrl = s_ctrl /\ s_ctrl \in {0, 1} /\ rPc = "reading" /\ hs = "S"
      /\ Len(accepted) = acked /\ acked \in 0 .. Len(File)
  BY SendingKnown
<1>2. /\ WireTypeOK /\ PortTypeOK /\ Counted /\ NumTries \in Nat /\ timeout_count \in 0 .. NumTries
      /\ STOP \in BOOLEAN /\ accepted \in Seq(Seq(Byte))
  BY Known
<1>3. PICK p \in Seq(Byte) : p = Message(msg) /\ p # << >>
  BY <1>1
<1>4. PICK bit \in {0, 1} : bit = s_ctrl /\ bit = current_ctrl
  BY <1>1
<1>5. Up = << >> /\ sIn = << >> /\ rOut = << >> /\ (timeout_count > 0 \/ expired => Lost(p))
  BY <1>2, <1>3, LineType DEF Sending
<1>6. Reads /\ UNCHANGED sender
  BY <1>1, ReceiverDoes DEF ReceiverStep
<1>7. UNCHANGED << sPc, s_ctrl, timeout_count, expired, msg, acked >>
  BY <1>6 DEF sender
<1>8. ASSUME UNCHANGED << sIn, rOut, rPc, hs, current_ctrl, accepted, output >>
      PROVE  Counted' /\ Up' = << >> /\ Len(accepted') = acked'
  BY <1>1, <1>2, <1>5, <1>7, <1>8, SameCount DEF Up
<1>9. CASE sPc = "send"
  <2>1. Ready /\ Down = << >>
    BY <1>9 DEF Sending
  <2>2. rIn = << >>
    BY <1>2, <2>1, LineType
  <2>3. Ready' /\ UNCHANGED << wire, rPc, hs, current_ctrl, accepted, output >>
    BY <1>2, <1>6, <2>1, <2>2, ReadyIdles
  <2>4. Counted' /\ Up' = << >> /\ Len(accepted') = acked' /\ Down' = << >>
    BY <1>8, <2>1, <2>3 DEF wire, Down
  <2>5. Sending'
    BY <1>3, <1>5, <1>7, <1>9, <2>3, <2>4 DEF Sending
  <2> QED
    BY <2>4, <2>5 DEF Stage
<1>10. CASE sPc # "send"
  <2>1. InFrame(p, bit, << >>) /\ (sPc = "sleep" => Lost(p))
    BY <1>1, <1>3, <1>4, <1>10 DEF Sending
  <2>2. PICK k \in 1 .. End(p) + 1 : Parses(p, k) /\ Down = Rest(DataFrame(p, bit), k) \o << >>
    BY <2>1 DEF InFrame
  <2>3. k \in 1 .. End(p)
    <3>1. ASSUME k = End(p) + 1 PROVE FALSE
      <4>1. Rest(DataFrame(p, bit), k) = << >> /\ End(p) \in Nat \ {0}
        BY <3>1, FrameKnown
      <4>2. Down = << >> /\ ~STOP
        BY <2>2, <3>1, <4>1, EmptyConcat DEF Parses
      <4>3. rIn = << >>
        BY <1>2, <4>2, LineType
      <4> QED
        BY <1>6, <4>2, <4>3, Starved
    <3>2. End(p) \in Nat
      BY FrameKnown
    <3> QED
      BY <3>1, <3>2
  <2>4. << >> \in Seq(Byte)
    OBVIOUS
  <2>5. \/ /\ InFrame(p, bit, << >>)'
           /\ UNCHANGED << sIn, rOut, rPc, hs, current_ctrl, accepted, output >>
        \/ ~Lost(p) /\ Accept /\ dp.data = Sealed(p) /\ Down' = << >>
    BY <1>2, <1>4, <1>6, <2>2, <2>3, <2>4, FrameStep
  <2>6. CASE /\ InFrame(p, bit, << >>)'
             /\ UNCHANGED << sIn, rOut, rPc, hs, current_ctrl, accepted, output >>
    <3>1. Counted' /\ Up' = << >> /\ Len(accepted') = acked'
      BY <1>8, <2>6
    <3>2. Sending'
      BY <1>1, <1>3, <1>4, <1>5, <1>7, <1>10, <2>1, <2>6, <3>1 DEF Sending
    <3> QED
      BY <3>1, <3>2 DEF Stage
  <2>7. CASE ~Lost(p) /\ Accept /\ dp.data = Sealed(p) /\ Down' = << >>
    <3>1. /\ STOP' = TRUE /\ accepted' = Append(accepted, Sealed(p))
          /\ rOut' = rOut \o Supervision(ReceiverAddress, RR(current_ctrl))
          /\ current_ctrl' = 1 - current_ctrl
          /\ output' = IF p[1] = 1 THEN output \o Tail(p) ELSE output
          /\ IF p[1] = 0 THEN rPc' = "closing" ELSE rPc' = "reading" /\ Ready'
          /\ UNCHANGED << sIn, sOut, hs >>
      BY <1>3, <2>7, AcceptEffect
    <3>2. sPc' = "select" /\ timeout_count' = 0 /\ ~expired' /\ sPc = "select"
      BY <1>1, <1>2, <1>5, <1>7, <1>10, <2>1, <2>7
    <3>3. RRFrame(bit) \in Seq(Byte)
      <4>1. RR(bit) \in Byte /\ ReceiverAddress \in {SenderAddress, ReceiverAddress}
        BY Controls
      <4> QED
        BY <4>1, SupervisionRest DEF RRFrame
    <3>4. Up' = RRFrame(s_ctrl')
      <4>1. rOut' = << >> \o RRFrame(bit) /\ sIn' = << >>
        BY <1>4, <1>5, <3>1 DEF RRFrame
      <4>2. Up' = RRFrame(bit)
        BY <3>3, <4>1, EmptyConcat DEF Up
      <4> QED
        BY <1>4, <1>7, <4>2
    <3>5. Len(accepted') = acked + 1
      <4>1. Sealed(p) \in Seq(Byte)
        BY SealedBytes
      <4>2. Len(Append(accepted, Sealed(p))) = Len(accepted) + 1
        BY <1>2, <4>1
      <4> QED
        BY <1>1, <3>1, <4>2
    <3>6. /\ msg <= Len(File) => p[1] = 1 /\ Tail(p) = File[msg]
          /\ ~(msg <= Len(File)) => p[1] = 0
      BY <1>1, <1>3, MessageParts
    <3>7. IF msg <= Len(File) THEN Ready' ELSE Waits("closing")'
      BY <1>1, <3>1, <3>6 DEF Waits
    <3>8. output' = Saved(acked + 1)
      <4>1. output = Saved(acked)
        BY <1>1, <1>2 DEF Counted
      <4>2. Saved(acked + 1) = IF acked + 1 <= Len(File) THEN Saved(acked) \o File[acked + 1]
                                                         ELSE Saved(acked)
        BY <1>1, SavedGrows
      <4>3. msg = acked + 1
        BY <1>1
      <4>7. output' = IF p[1] = 1 THEN output \o Tail(p) ELSE output
        BY <3>1, Zenon
      <4>4. output' = IF msg <= Len(File) THEN output \o File[msg] ELSE output
        <5>1. CASE msg <= Len(File)
          <6>1. output' = output \o Tail(p) /\ Tail(p) = File[msg]
            BY <3>6, <4>7, <5>1, Zenon
          <6> QED
            BY <5>1, <6>1, Zenon
        <5>2. CASE ~(msg <= Len(File))
          <6>1. p[1] = 0 /\ p[1] # 1
            BY <3>6, <5>2
          <6>2. output' = output
            BY <4>7, <6>1, Zenon
          <6> QED
            BY <5>2, <6>2, Zenon
        <5> QED
          BY <5>1, <5>2
      <4>5. CASE msg <= Len(File)
        <5>1. Saved(acked + 1) = Saved(acked) \o File[msg]
          BY <4>2, <4>3, <4>5
        <5>2. output' = output \o File[msg]
          BY <4>4, <4>5
        <5> QED
          BY <4>1, <5>1, <5>2
      <4>6. CASE ~(msg <= Len(File))
        BY <4>1, <4>2, <4>3, <4>4, <4>6
      <4> QED
        BY <4>5, <4>6
    <3>9. Acknowledging'
      BY <1>7, <2>7, <3>2, <3>4, <3>5, <3>7 DEF Acknowledging
    <3>10. current_ctrl' = Len(accepted') % 2
      <4>1. current_ctrl = acked % 2 /\ acked \in Nat
        BY <1>1, <1>2 DEF Counted
      <4>2. PICK n \in Nat : n = acked
        BY <4>1
      <4>3. (n + 1) % 2 = 1 - (n % 2)
        OBVIOUS
      <4>5. current_ctrl' = 1 - current_ctrl
        BY <3>1, Zenon
      <4>4. current_ctrl' = 1 - (n % 2) /\ Len(accepted') = n + 1
        BY <3>5, <4>1, <4>2, <4>5
      <4> QED
        BY <4>3, <4>4
    <3>11. Counted'
      BY <1>1, <1>2, <1>7, <3>1, <3>2, <3>5, <3>8, <3>10 DEF Counted
    <3> QED
      BY <3>9, <3>11 DEF Stage
  <2> QED
    BY <2>5, <2>6, <2>7
<1> QED
  BY <1>9, <1>10

-----------------------------------------------------------------------------
(***************************************************************************)
(* While the RR is on its way the receiver only waits.                     *)
(***************************************************************************)
LEMMA ReceiverAcknowledges ==
  ASSUME PerfectInv, Acknowledging, ReceiverStep
  PROVE  Stage' /\ Counted'
<1>1. WireTypeOK /\ PortTypeOK /\ Counted /\ STOP \in BOOLEAN
  BY Known
<1>2. rIn = << >> /\ sOut = << >> /\ sPc \in {"select", "answer"}
  BY <1>1, LineType DEF Acknowledging
<1>3. ReceiverNext /\ UNCHANGED sender
  BY DEF ReceiverStep
<1>4. ASSUME IF msg <= Len(File) THEN Ready' ELSE Waits("closing")',
             rPc' = "reading" => hs' = "S",
             UNCHANGED << wire, current_ctrl, accepted, output >>
      PROVE  Stage' /\ Counted'
  <2>1. UNCHANGED << sPc, s_ctrl, timeout_count, expired, msg, acked, ans >>
    BY <1>3 DEF sender
  <2>2. Down' = Down /\ Up' = Up
    BY <1>4 DEF wire, Down, Up
  <2>3. \A k, control : ReadsAnswer(k, control) => ReadsAnswer(k, control)'
    BY <2>1 DEF ReadsAnswer
  <2>4. Acknowledging'
    <3>1. PICK bit : bit = s_ctrl /\ bit = s_ctrl'
      BY <2>1
    <3>2. CASE sPc = "select"
      BY <1>4, <2>1, <2>2, <3>2 DEF Acknowledging
    <3>3. CASE sPc = "answer"
      <4>1. PICK k \in 1 .. 5 : ReadsAnswer(k, RR(bit)) /\ Up = Rest(RRFrame(bit), k)
        BY <3>1, <3>3 DEF Acknowledging
      <4>2. ReadsAnswer(k, RR(bit))' /\ Up' = Rest(RRFrame(bit), k)
        BY <2>2, <2>3, <4>1
      <4> QED
        BY <1>4, <2>1, <2>2, <3>1, <3>3, <4>2 DEF Acknowledging
    <3> QED
      BY <1>2, <3>2, <3>3
  <2>5. Counted'
    BY <1>1, <1>2, <1>4, <2>1, SameCount
  <2> QED
    BY <2>4, <2>5 DEF Stage
<1>5. CASE msg <= Len(File)
  <2>1. Ready /\ rPc = "reading" /\ hs = "S"
    BY <1>1, <1>5 DEF Acknowledging, Ready, Counted
  <2>2. Reads
    BY <1>3, <2>1, ReceiverDoes
  <2>3. Ready' /\ UNCHANGED << wire, rPc, hs, current_ctrl, accepted, output >>
    BY <1>1, <1>2, <2>1, <2>2, ReadyIdles
  <2> QED
    BY <1>4, <1>5, <2>1, <2>3
<1>6. CASE ~(msg <= Len(File))
  <2>1. Waits("closing")
    BY <1>6 DEF Acknowledging
  <2>2. r_disconnect
    BY <1>3, <2>1, ReceiverDoes DEF Waits
  <2>3. Waits("closing")' /\ UNCHANGED << wire, dp, current_ctrl, accepted, output >>
    BY <1>1, <1>2, <2>1, <2>2, WaitStep, NothingComes DEF r_disconnect
  <2>4. rPc' # "reading"
    BY <2>3 DEF Waits
  <2> QED
    BY <1>4, <1>6, <2>3, <2>4
<1> QED
  BY <1>5, <1>6

(***************************************************************************)
(* The RR is awaited, read and reported; the next message follows, or the  *)
(* end of the connection.                                                  *)
(***************************************************************************)
LEMMA SenderAcknowledged ==
  ASSUME PerfectInv, Undisturbed, Acknowledging, SenderStep
  PROVE  Stage' /\ Counted'
<1>1. /\ WireTypeOK /\ SenderTypeOK /\ Counted /\ NumTries \in Nat /\ s_ctrl \in {0, 1}
      /\ Len(File) \in Nat /\ msg \in 1 .. Len(File) + 1 /\ acked \in 0 .. Len(File) + 1
      /\ MsgFollows
  BY Known
<1>2. rIn = << >> /\ sOut = << >> /\ sPc \in {"select", "answer"} /\ msg = acked + 1
  BY <1>1, LineType DEF Acknowledging, MsgFollows
<1>3. PICK bit \in {0, 1} : bit = s_ctrl
  BY <1>1
<1>4. UNCHANGED receiver /\ UNCHANGED << current_ctrl, accepted, output, rPc, hs, STOP >>
  BY SenderDoes DEF receiver
<1>5. IF msg <= Len(File) THEN Ready' ELSE Waits("closing")'
  BY <1>4 DEF Acknowledging, receiver, Ready, Blank, Waits
<1>6. /\ timeout_count = 0 /\ ~expired /\ Len(accepted) = acked + 1
  BY DEF Acknowledging
<1>7. RR(bit) \in Byte /\ RR(bit) \in {RR(0), RR(1), DISC} /\ RR(bit) \in {RR(0), RR(1)}
  BY Controls
<1>8. RRFrame(bit) \in Seq(Byte) /\ Len(RRFrame(bit)) = 5 /\ Rest(RRFrame(bit), 1) = RRFrame(bit)
  BY <1>7, SupervisionRest DEF RRFrame
<1>9. CASE sPc = "select"
  <2>1. Up = RRFrame(bit)
    BY <1>3, <1>9 DEF Acknowledging
  <2>2. ~(SelectTimeout /\ TimeoutPossible)
    <3>1. ASSUME SelectTimeout, TimeoutPossible PROVE FALSE
      <4>1. rOut = << >> /\ Len(sIn) < 5
        BY <1>6, <3>1 DEF TimeoutPossible, Undisturbed, Settled, SelectTimeout, VMIN
      <4>2. Up = sIn
        BY <1>1, <4>1, LineType, EmptyConcat DEF Up
      <4> QED
        BY SMTT(30), <1>8, <2>1, <4>1, <4>2
    <3> QED
      BY <3>1
  <2>3. SelectReady
    BY <1>9, <2>2, SenderDoes
  <2>4. ~GiveUp
    <3>1. timeout_count # NumTries
      BY <1>1, <1>6 DEF Undisturbed
    <3> QED
      BY <3>1 DEF GiveUp
  <2>5. /\ sPc' = "answer" /\ ans' = Answer(s_ctrl)
        /\ UNCHANGED << wire, s_ctrl, sHs, timeout_count, expired, msg, acked >>
    BY <2>3, <2>4 DEF SelectReady
  <2>6. Down' = Down /\ Up' = Up
    BY <2>5 DEF wire, Down, Up
  <2>7. ReadsAnswer(1, RR(bit))'
    BY <1>3, <2>5, AnswerStates DEF ReadsAnswer, Answer
  <2>8. Acknowledging'
    BY <1>3, <1>4, <1>5, <1>6, <1>8, <2>1, <2>5, <2>6, <2>7 DEF Acknowledging
  <2>9. Counted'
    BY <1>1, <1>4, <1>9, <2>5, SameCount DEF Counted
  <2> QED
    BY <2>8, <2>9 DEF Stage
<1>10. CASE sPc = "answer"
  <2>1. s_receive
    BY <1>10, SenderDoes
  <2>2. PICK k \in 1 .. 5 : ReadsAnswer(k, RR(bit)) /\ Up = Rest(RRFrame(bit), k)
    BY <1>3, <1>10 DEF Acknowledging
  <2>3. IF k = 5
        THEN /\ Up' = << >> /\ s_ctrl' = 1 - s_ctrl /\ Return(RR(bit))
             /\ UNCHANGED << rIn, rOut, sHs, ans >>
        ELSE /\ ReadsAnswer(k + 1, RR(bit))'
             /\ Up' = Rest(RRFrame(bit), k + 1)
             /\ UNCHANGED << sOut, rIn, rOut, sPc, s_ctrl, sHs,
                             timeout_count, expired, msg, acked >>
    BY <1>1, <1>3, <1>7, <2>1, <2>2, TakesAnswer DEF RRFrame
  <2>4. CASE k # 5
    <3>1. /\ ReadsAnswer(k + 1, RR(bit))' /\ Up' = Rest(RRFrame(bit), k + 1) /\ k + 1 \in 1 .. 5
          /\ UNCHANGED << sOut, rIn, rOut, sPc, s_ctrl, sHs, timeout_count, expired, msg, acked >>
      BY <2>3, <2>4
    <3>2. Down' = << >>
      BY <1>2, <3>1, EmptyConcat DEF Down
    <3>3. s_ctrl' = bit /\ sPc' = "answer"
      BY <1>3, <1>10, <3>1
    <3>4. Acknowledging'
      BY <1>4, <1>5, <1>6, <3>1, <3>2, <3>3 DEF Acknowledging
    <3>5. Counted'
      BY <1>1, <1>4, <1>10, <3>1, SameCount DEF Counted
    <3> QED
      BY <3>4, <3>5 DEF Stage
  <2>5. CASE k = 5
    <3>1. /\ Up' = << >> /\ s_ctrl' = 1 - s_ctrl /\ UNCHANGED << rIn, sOut >>
          /\ LlwriteReturns(TRUE)
      BY <1>7, <1>10, <2>3, <2>5 DEF Return, IsRR
    <3>2. Down' = << >>
      BY <1>2, <3>1, EmptyConcat DEF Down
    <3>3. acked' = acked + 1 /\ Len(accepted') = acked'
      BY <1>4, <1>6, <3>1 DEF LlwriteReturns
    <3>4. /\ msg <= Len(File) => sPc' = "send" /\ timeout_count' = 0 /\ ~expired'
          /\ ~(msg <= Len(File)) => sPc' = "close"
      BY <3>1 DEF LlwriteReturns
    <3>5. Sending' \/ Closing'
      <4>1. CASE msg <= Len(File)
        BY <1>5, <3>1, <3>2, <3>3, <3>4, <4>1 DEF Sending
      <4>2. CASE ~(msg <= Len(File))
        <5>1. acked' = Len(File) + 1
          BY <1>1, <1>2, <3>3, <4>2
        <5> QED
          BY <1>5, <3>1, <3>2, <3>3, <3>4, <4>2, <5>1 DEF Closing, Finished
      <4> QED
        BY <4>1, <4>2
    <3>6. s_ctrl' = acked' % 2
      <4>1. PICK n \in Nat : n = acked
        BY <1>1
      <4>2. s_ctrl = n % 2 /\ acked' = n + 1 /\ s_ctrl' = 1 - s_ctrl
        BY <1>1, <1>10, <3>1, <3>3, <4>1 DEF Counted
      <4>3. (n + 1) % 2 = 1 - (n % 2)
        OBVIOUS
      <4> QED
        BY <4>2, <4>3
    <3>7. sPc' \in {"send", "close"}
      BY <3>4
    <3>8. Counted'
      BY <1>1, <1>4, <3>6, <3>7 DEF Counted
    <3> QED
      BY <3>5, <3>8 DEF Stage
  <2> QED
    BY <2>4, <2>5
<1> QED
  BY <1>2, <1>9, <1>10

(***************************************************************************)
(* The disconnection: DISC, the answer to it, and the last UA.             *)
(***************************************************************************)
LEMMA ClosingStep ==
  ASSUME PerfectInv, Closing, SenderStep \/ ReceiverStep
  PROVE  Stage' /\ Counted'
<1>1. WireTypeOK /\ Counted /\ STOP \in BOOLEAN /\ DISC \in Byte /\ DISC \in {SET, UA, DISC}
  BY Known, Controls
<1>2. rIn = << >> /\ sOut = << >> /\ sIn = << >> /\ rOut = << >>
  BY <1>1, LineType DEF Closing
<1>3. sPc = "close" /\ Finished /\ Waits("closing")
  BY DEF Closing
<1>4. CASE SenderStep
  <2>1. s_disconnect /\ UNCHANGED receiver
    BY <1>3, <1>4, SenderDoes
  <2>2. /\ sPc' = "disc" /\ sOut' = << >> \o DiscFrame /\ ans' = Answer(s_ctrl)
        /\ UNCHANGED << sIn, rIn, rOut, s_ctrl, sHs, timeout_count, expired, msg, acked >>
    BY <1>2, <2>1 DEF s_disconnect, DiscFrame
  <2>3. DiscFrame \in Seq(Byte) /\ Rest(DiscFrame, 1) = DiscFrame
    BY <1>1, SupervisionRest DEF DiscFrame
  <2>4. Down' = Rest(DiscFrame, 1) /\ Up' = << >>
    BY <1>2, <2>2, <2>3, EmptyConcat DEF Down, Up
  <2>5. ReadsAnswer(1, DISC)'
    BY <2>2, AnswerStates DEF ReadsAnswer, Answer
  <2>6. Hunts("closing", 1)' /\ Finished' /\ 1 \in 1 .. 5
    BY <1>3, <2>1, <2>2 DEF Hunts, Waits, Finished, receiver
  <2>7. Leaving'
    BY <2>2, <2>4, <2>5, <2>6 DEF Leaving
  <2>8. Counted'
    BY <1>1, <1>3, <2>1, <2>2, SameCount DEF receiver, Waits
  <2> QED
    BY <2>7, <2>8 DEF Stage
<1>5. CASE ReceiverStep
  <2>1. ReceiverNext /\ UNCHANGED sender
    BY <1>5 DEF ReceiverStep
  <2>2. r_disconnect
    BY <1>3, <2>1, ReceiverDoes DEF Waits
  <2>3. Waits("closing")' /\ UNCHANGED << wire, dp, current_ctrl, accepted, output >>
    BY <1>1, <1>2, <1>3, <2>2, WaitStep, NothingComes DEF r_disconnect
  <2>4. Closing'
    BY <1>3, <2>1, <2>3 DEF Closing, Finished, sender, wire, Down, Up
  <2>5. Counted'
    BY <1>1, <1>3, <2>1, <2>3, SameCount DEF sender, Waits
  <2> QED
    BY <2>4, <2>5 DEF Stage
<1> QED
  BY <1>4, <1>5

\* The receiver takes DISC and writes its own.
LEMMA LeavingStep ==
  ASSUME PerfectInv, Leaving, SenderStep \/ ReceiverStep
  PROVE  Stage' /\ Counted'
<1>1. WireTypeOK /\ Counted /\ STOP \in BOOLEAN /\ DISC \in Byte /\ DISC \in {SET, UA, DISC}
  BY Known, Controls
<1>2. sIn = << >> /\ rOut = << >>
  BY <1>1, LineType DEF Leaving
<1>3. sPc = "disc" /\ Finished /\ ReadsAnswer(1, DISC)
  BY DEF Leaving
<1>4. ~SenderStep
  BY <1>2, <1>3, SenderDoes
  DEF s_receive, AnswerByte, TwoFlags, UnknownControl, AnswerEnd, Receiving
<1>5. ReceiverNext /\ UNCHANGED sender
  BY <1>4 DEF ReceiverStep
<1>6. PICK k \in 1 .. 5 : Hunts("closing", k) /\ Down = Rest(DiscFrame, k)
  BY DEF Leaving
<1>7. r_disconnect
  BY <1>5, <1>6, ReceiverDoes DEF Hunts, Waits
<1> DEFINE answer == DiscAnswer
<1>8. \/ Unrecognised("closing", DISC)
      \/ Recognised("closing", DISC, answer, "awaitUA")
  BY <1>7 DEF r_disconnect, DiscAnswer
<1>9. \/ /\ \E j \in 1 .. 5 : Hunts("closing", j)' /\ Down' = Rest(DiscFrame, j)
         /\ UNCHANGED << sIn, rOut, dp, current_ctrl, accepted, output >>
      \/ Recognised("closing", DISC, answer, "awaitUA") /\ Down' = << >>
  BY <1>1, <1>6, <1>8, HuntStep DEF DiscFrame
<1>10. UNCHANGED << sPc, s_ctrl, ans, timeout_count, expired, msg, acked >>
  BY <1>5 DEF sender
<1>11. CASE /\ \E j \in 1 .. 5 : Hunts("closing", j)' /\ Down' = Rest(DiscFrame, j)
            /\ UNCHANGED << sIn, rOut, dp, current_ctrl, accepted, output >>
  <2>1. Up' = << >> /\ Finished' /\ ReadsAnswer(1, DISC)'
    BY <1>2, <1>3, <1>10, <1>11 DEF Up, Finished, ReadsAnswer
  <2>2. Leaving'
    BY <1>3, <1>10, <1>11, <2>1 DEF Leaving
  <2>3. rPc' # "reading"
    BY <1>11 DEF Hunts, Waits
  <2>4. Counted'
    BY <1>1, <1>3, <1>10, <1>11, <2>3, SameCount
  <2> QED
    BY <2>2, <2>4 DEF Stage
<1>12. CASE Recognised("closing", DISC, answer, "awaitUA") /\ Down' = << >>
  <2>1. /\ rPc' = "awaitUA" /\ STOP' = TRUE /\ hs' = "S" /\ rOut' = rOut \o DiscAnswer
        /\ UNCHANGED << sIn, sOut, current_ctrl, accepted, output >>
    BY <1>12 DEF Recognised, Consume
  <2>2. DiscAnswer \in Seq(Byte) /\ Rest(DiscAnswer, 1) = DiscAnswer
    BY <1>1, SupervisionRest DEF DiscAnswer
  <2>3. Up' = Rest(DiscAnswer, 1) /\ 1 \in 1 .. 5
    BY <1>2, <2>1, <2>2, EmptyConcat DEF Up
  <2>4. Waits("awaitUA")' /\ Finished' /\ ReadsAnswer(1, DISC)'
    BY <1>3, <1>10, <2>1 DEF Waits, Finished, ReadsAnswer
  <2>5. Dismissed'
    BY <1>3, <1>10, <1>12, <2>3, <2>4 DEF Dismissed
  <2>6. Counted'
    BY <1>1, <1>3, <1>10, <2>1, SameCount
  <2> QED
    BY <2>5, <2>6 DEF Stage
<1> QED
  BY <1>9, <1>11, <1>12

\* The transmitter takes the answer, writes UA and has closed.
LEMMA DismissedStep ==
  ASSUME PerfectInv, Dismissed, SenderStep \/ ReceiverStep
  PROVE  Stage' /\ Counted'
<1>1. /\ WireTypeOK /\ SenderTypeOK /\ Counted /\ STOP \in BOOLEAN /\ UA \in Byte
      /\ UA \in {SET, UA, DISC} /\ DISC \in {RR(0), RR(1), DISC}
  BY Known, Controls
<1>2. rIn = << >> /\ sOut = << >>
  BY <1>1, LineType DEF Dismissed
<1>3. sPc = "disc" /\ Finished /\ Waits("awaitUA")
  BY DEF Dismissed
<1>4. PICK k \in 1 .. 5 : ReadsAnswer(k, DISC) /\ Up = Rest(DiscAnswer, k)
  BY DEF Dismissed
<1>5. CASE SenderStep
  <2>1. s_receive /\ UNCHANGED receiver
    BY <1>3, <1>5, SenderDoes
  <2>2. UNCHANGED << rPc, hs, STOP, current_ctrl, accepted, output >> /\ Waits("awaitUA")'
    BY <1>3, <2>1 DEF receiver, Waits
  <2>3. IF k = 5
        THEN /\ Up' = << >> /\ s_ctrl' = 1 - s_ctrl /\ Return(DISC)
             /\ UNCHANGED << rIn, rOut, sHs, ans >>
        ELSE /\ ReadsAnswer(k + 1, DISC)'
             /\ Up' = Rest(DiscAnswer, k + 1)
             /\ UNCHANGED << sOut, rIn, rOut, sPc, s_ctrl, sHs,
                             timeout_count, expired, msg, acked >>
    BY <1>1, <1>4, <2>1, TakesAnswer DEF DiscAnswer
  <2>4. CASE k # 5
    <3>1. /\ ReadsAnswer(k + 1, DISC)' /\ Up' = Rest(DiscAnswer, k + 1) /\ k + 1 \in 1 .. 5
          /\ UNCHANGED << sOut, rIn, sPc, s_ctrl, timeout_count, expired, msg, acked >>
      BY <2>3, <2>4
    <3>2. Down' = << >> /\ Finished' /\ sPc' = "disc"
      BY <1>2, <1>3, <2>2, <3>1, EmptyConcat DEF Down, Finished
    <3>3. Dismissed'
      BY <2>2, <3>1, <3>2 DEF Dismissed
    <3>4. Counted'
      BY <1>1, <1>3, <2>2, <3>1, SameCount DEF Waits
    <3> QED
      BY <3>3, <3>4 DEF Stage
  <2>5. CASE k = 5
    <3>1. /\ Up' = << >> /\ rIn' = rIn
          /\ sPc' = "success" /\ sOut' = sOut \o UaFrame
          /\ UNCHANGED << timeout_count, expired, msg, acked >>
      BY <1>3, <2>3, <2>5 DEF Return, CloseResult, IsDisc, UaFrame
    <3>2. UaFrame \in Seq(Byte) /\ Rest(UaFrame, 1) = UaFrame /\ 1 \in 1 .. 5
      BY <1>1, SupervisionRest DEF UaFrame
    <3>3. Down' = Rest(UaFrame, 1)
      BY <1>2, <3>1, <3>2, EmptyConcat DEF Down
    <3>4. Hunts("awaitUA", 1)' /\ Finished'
      BY <1>3, <2>2, <3>1 DEF Hunts, Finished
    <3>5. Confirming'
      BY <3>1, <3>2, <3>3, <3>4 DEF Confirming
    <3>6. Counted'
      BY <1>1, <1>3, <2>2, <3>1 DEF Counted, Waits
    <3> QED
      BY <3>5, <3>6 DEF Stage
  <2> QED
    BY <2>4, <2>5
<1>6. CASE ReceiverStep
  <2>1. ReceiverNext /\ UNCHANGED sender
    BY <1>6 DEF ReceiverStep
  <2>2. r_verify_if_ua_received
    BY <1>3, <2>1, ReceiverDoes DEF Waits
  <2> DEFINE answer == << >>
  <2>3. \/ Unrecognised("awaitUA", UA)
        \/ Recognised("awaitUA", UA, answer, "done")
    BY <2>2 DEF r_verify_if_ua_received
  <2>4. Waits("awaitUA")' /\ UNCHANGED << wire, dp, current_ctrl, accepted, output >>
    BY <1>1, <1>2, <1>3, <2>3, WaitStep, NothingComes
  <2>5. UNCHANGED << sPc, s_ctrl, ans, timeout_count, expired, msg, acked >>
    BY <2>1 DEF sender
  <2>6. Up' = Up /\ Down' = << >> /\ Finished' /\ ReadsAnswer(k, DISC)'
    BY <1>3, <1>4, <2>4, <2>5 DEF wire, Up, Down, Finished, ReadsAnswer, Dismissed
  <2>7. Dismissed'
    BY <1>3, <1>4, <2>4, <2>5, <2>6 DEF Dismissed
  <2>8. Counted'
    BY <1>1, <1>3, <2>4, <2>5, SameCount DEF Waits
  <2> QED
    BY <2>7, <2>8 DEF Stage
<1> QED
  BY <1>5, <1>6

\* The receiver takes the last UA, and has closed.
LEMMA ConfirmingStep ==
  ASSUME PerfectInv, Confirming, SenderStep \/ ReceiverStep
  PROVE  Stage' /\ Counted'
<1>1. WireTypeOK /\ Counted /\ STOP \in BOOLEAN /\ UA \in {SET, UA, DISC}
  BY Known
<1>2. sIn = << >> /\ rOut = << >>
  BY <1>1, LineType DEF Confirming
<1>3. sPc = "success" /\ Finished
  BY DEF Confirming
<1>4. ~SenderStep
  BY <1>3, SenderDoes
<1>5. ReceiverNext /\ UNCHANGED sender
  BY <1>4 DEF ReceiverStep
<1>6. rPc # "done"
  BY <1>5, ReceiverDoes
<1>7. PICK k \in 1 .. 5 : Hunts("awaitUA", k) /\ Down = Rest(UaFrame, k)
  BY <1>6 DEF Confirming
<1>8. r_verify_if_ua_received
  BY <1>5, <1>7, ReceiverDoes DEF Hunts, Waits
<1> DEFINE answer == << >>
<1>9. \/ Unrecognised("awaitUA", UA)
      \/ Recognised("awaitUA", UA, answer, "done")
  BY <1>8 DEF r_verify_if_ua_received
<1> HIDE DEF answer
<1>10. \/ /\ \E j \in 1 .. 5 : Hunts("awaitUA", j)' /\ Down' = Rest(UaFrame, j)
          /\ UNCHANGED << sIn, rOut, dp, current_ctrl, accepted, output >>
       \/ Recognised("awaitUA", UA, answer, "done") /\ Down' = << >>
  BY <1>1, <1>7, <1>9, HuntStep DEF UaFrame
<1>11. UNCHANGED << sPc, s_ctrl, timeout_count, expired, msg, acked >>
  BY <1>5 DEF sender
<1>12. CASE /\ \E j \in 1 .. 5 : Hunts("awaitUA", j)' /\ Down' = Rest(UaFrame, j)
            /\ UNCHANGED << sIn, rOut, dp, current_ctrl, accepted, output >>
  <2>1. Up' = << >> /\ Finished'
    BY <1>2, <1>3, <1>11, <1>12 DEF Up, Finished
  <2>2. Confirming'
    BY <1>3, <1>11, <1>12, <2>1 DEF Confirming
  <2>3. rPc' # "reading"
    BY <1>12 DEF Hunts, Waits
  <2>4. Counted'
    BY <1>1, <1>3, <1>11, <1>12, <2>3, SameCount
  <2> QED
    BY <2>2, <2>4 DEF Stage
<1>13. CASE Recognised("awaitUA", UA, answer, "done") /\ Down' = << >>
  <2>1. /\ rPc' = "done" /\ rOut' = << >> \o << >>
        /\ UNCHANGED << sIn, current_ctrl, accepted, output >>
    BY <1>2, <1>13 DEF Recognised, answer
  <2>2. Up' = << >> /\ Finished'
    BY <1>2, <1>3, <1>11, <2>1 DEF Up, Finished
  <2>3. Confirming'
    BY <1>3, <1>11, <1>13, <2>1, <2>2 DEF Confirming
  <2>4. Counted'
    BY <1>1, <1>3, <1>11, <2>1, SameCount
  <2> QED
    BY <2>3, <2>4 DEF Stage
<1> QED
  BY <1>10, <1>12, <1>13

(***************************************************************************)
(* A DISC that comes where an information frame is expected.               *)
(***************************************************************************)
LEMMA PassStep ==
  ASSUME WireTypeOK, PortTypeOK, Reads, NEW k \in 2 .. 6, Passes(k), Down = Rest(DiscFrame, k)
  PROVE  /\ \E j \in 2 .. 6 : Passes(j)' /\ Down' = Rest(DiscFrame, j)
         /\ UNCHANGED << sIn, rOut, rPc, hs, current_ctrl, accepted, output >>
<1> DEFINE frame == DiscFrame
<1>1. DISC \in Byte /\ SenderAddress \in {SenderAddress, ReceiverAddress}
  BY Controls
<1>2. /\ frame[2] = SenderAddress /\ frame[3] = DISC /\ frame[4] = Xor(SenderAddress, DISC)
      /\ frame[5] = FLAG
      /\ \A j \in 1 .. 6 : Rest(frame, j) = << >> <=> j = 6
      /\ \A j \in 1 .. 5 : /\ Head(Rest(frame, j)) = frame[j]
                           /\ Tail(Rest(frame, j)) = Rest(frame, j + 1)
  BY <1>1, SupervisionRest DEF DiscFrame
<1>3. Down = Rest(frame, k)
  OBVIOUS
<1> HIDE DEF frame
<1>4. /\ rPc = "reading" /\ STOP = FALSE /\ ~STOP
      /\ Dropped(CASE k = 3 -> 2 [] k = 4 -> 10 [] k = 5 -> 0 [] OTHER -> 1)
  BY DEF Passes, PortTypeOK, ReceiverTypeOK
<1>5. rIn # << >> /\ Input = { Head(rIn) }
  BY <1>4, Starved
<1>6. Down # << >> /\ Head(Down) = Head(rIn)
  BY <1>5, LineType, HeadConcat DEF Down
<1>7. k # 6 /\ k \in 1 .. 5 /\ k + 1 \in 2 .. 6
  <2>1. k # 6
    BY <1>2, <1>3, <1>6
  <2> QED
    BY <2>1
<1>8. Head(rIn) = frame[k] /\ Tail(Down) = Rest(frame, k + 1)
  <2>1. Head(Rest(frame, k)) = frame[k] /\ Tail(Rest(frame, k)) = Rest(frame, k + 1)
    BY <1>2, <1>7
  <2> QED
    BY <1>3, <1>6, <2>1
<1>9. ASSUME NEW st \in ParserStates, Goto(st), Dropped(st)' => Passes(k + 1)'
      PROVE  /\ \E j \in 2 .. 6 : Passes(j)' /\ Down' = Rest(DiscFrame, j)
             /\ UNCHANGED << sIn, rOut, rPc, hs, current_ctrl, accepted, output >>
  <2>1. PICK old \in ParserStates : Dropped(old)
    <3>1. dp.st \in ParserStates
      BY DEF PortTypeOK, ReceiverTypeOK
    <3>2. Dropped(dp.st)
      BY <1>4 DEF Dropped, Parser
    <3> QED
      BY <3>1, <3>2
  <2>2. dp \in DataParser
    BY DEF PortTypeOK, ReceiverTypeOK, DataParser
  <2>3. Step(dp') /\ dp' = [ dp EXCEPT !.st = st ]
    BY <1>9, <2>2, GotoEffect
  <2>4. Dropped(st)'
    BY <2>1, <2>3 DEF Dropped, Parser
  <2>5. /\ rIn' = Tail(rIn)
        /\ UNCHANGED << sIn, sOut, rOut, rPc, hs, current_ctrl, accepted, output >>
    BY <1>4, <2>3, StepEffect
  <2>6. Down' = Rest(frame, k + 1)
    BY <1>5, <1>8, <2>5, DownRead
  <2> QED
    BY <1>7, <1>9, <2>4, <2>5, <2>6 DEF frame
<1>10. ASSUME Step(dp') PROVE rPc' = "reading" /\ ~STOP'
  BY <1>4, <1>10, StepEffect
<1>11. ASSUME NEW st, Goto(st) PROVE Step(dp')
  BY <1>11 DEF Goto, Step
<1>12. CASE k = 2
  <2>1. Dropped(1)
    BY <1>4, <1>12
  <2>2. dp.st = 1 /\ Head(rIn) = SenderAddress
    BY <1>2, <1>8, <1>12, <2>1 DEF Dropped, Parser
  <2>3. WaitAddress(Head(rIn))
    BY <1>5, <2>2, ByState
  <2>4. SenderAddress # FLAG
    BY DEF SenderAddress, FLAG
  <2>5. Goto(2)
    BY <2>2, <2>3, <2>4, Zenon DEF WaitAddress
  <2>6. Dropped(2)' => Passes(k + 1)'
    BY <1>10, <1>11, <1>12, <2>5 DEF Passes
  <2> QED
    BY <1>9, <2>5, <2>6 DEF ParserStates
<1>13. CASE k = 3
  <2>1. Dropped(2)
    BY <1>4, <1>13
  <2>2. dp.st = 2 /\ Head(rIn) = DISC
    BY <1>2, <1>8, <1>13, <2>1 DEF Dropped, Parser
  <2>3. WaitControl(DISC)
    BY <1>5, <2>2, ByState
  <2>4. DISC # I(current_ctrl) /\ DISC # SenderAddress
    BY DEF DISC, I, SenderAddress
  <2>5. Goto(10)
    BY <2>3, <2>4 DEF WaitControl
  <2>6. Dropped(10)' => Passes(k + 1)'
    BY <1>10, <1>11, <1>13, <2>5 DEF Passes
  <2> QED
    BY <1>9, <2>5, <2>6 DEF ParserStates
<1>14. CASE k = 4
  <2>1. Dropped(10)
    BY <1>4, <1>14
  <2>2. dp.st = 10 /\ dp.t2 = 0 /\ Head(rIn) = Xor(SenderAddress, DISC)
    BY <1>2, <1>8, <1>14, <2>1 DEF Dropped, Parser
  <2>3. WaitDiscBcc(Head(rIn))
    BY <1>5, <2>2, ByState
  <2>4. Head(rIn) # SenderAddress
    BY <2>2 DEF Xor, SenderAddress, DISC
  <2>5. Step([ dp EXCEPT !.st = 0, !.t2 = 0 ])
    BY <2>2, <2>3, <2>4 DEF WaitDiscBcc
  <2>6. [ dp EXCEPT !.st = 0, !.t2 = 0 ] = [ dp EXCEPT !.st = 0 ]
    BY <2>2 DEF PortTypeOK, ReceiverTypeOK
  <2>7. Goto(0)
    BY <2>5, <2>6 DEF Goto
  <2>8. Dropped(0)' => Passes(k + 1)'
    BY <1>10, <1>11, <1>14, <2>7 DEF Passes
  <2> QED
    BY <1>9, <2>7, <2>8 DEF ParserStates
<1>15. CASE k = 5
  <2>1. Dropped(0)
    BY <1>4, <1>15
  <2>2. dp.st = 0 /\ Head(rIn) = FLAG
    BY <1>2, <1>8, <1>15, <2>1 DEF Dropped, Parser
  <2>3. Goto(1)
    BY <1>5, <2>2, ByState DEF WaitFlag
  <2>4. Dropped(1)' => Passes(k + 1)'
    BY <1>10, <1>11, <1>15, <2>3 DEF Passes
  <2> QED
    BY <1>9, <2>3, <2>4 DEF ParserStates
<1> QED
  BY <1>7, <1>12, <1>13, <1>14, <1>15

(***************************************************************************)
(* A message that is lost is lost for good: the transmitter waits for an   *)
(* answer to DISC, and the receiver for an information frame.              *)
(***************************************************************************)
LEMMA GivenUpStep ==
  ASSUME PerfectInv, GivenUp, SenderStep \/ ReceiverStep
  PROVE  Stage' /\ Counted'
<1>1. /\ WireTypeOK /\ PortTypeOK /\ Counted /\ STOP \in BOOLEAN /\ s_ctrl \in {0, 1}
      /\ msg \in 1 .. Len(File) + 1 /\ DISC \in Byte
  BY Known, Controls
<1>2. /\ Up = << >> /\ Len(accepted) = acked /\ msg = acked + 1 /\ Lost(Message(msg))
      /\ sPc \in {"close", "disc"}
  BY DEF GivenUp
<1>3. sIn = << >> /\ rOut = << >>
  BY <1>1, <1>2, LineType
<1>4. PICK p \in Seq(Byte) : p = Message(msg)
  BY <1>1, MessageParts
<1>5. PICK bit \in {0, 1} : bit = s_ctrl
  BY <1>1
<1>6. current_ctrl = bit
  BY <1>1, <1>2, <1>5 DEF Counted
<1>7. Lost(p)
  BY <1>2, <1>4
<1>8. rPc = "reading" /\ hs = "S"
  BY <1>1 DEF GivenUp, InFrame, Parses, Ready, Passes, Counted
<1>9. DiscFrame \in Seq(Byte) /\ \A j \in 1 .. 5 : Tail(Rest(DiscFrame, j)) = Rest(DiscFrame, j + 1)
  BY <1>1, SupervisionRest DEF DiscFrame
<1>10. DiscFrame # << >> /\ Head(DiscFrame) = FLAG /\ Tail(DiscFrame) = Rest(DiscFrame, 2)
  <2>1. /\ Rest(DiscFrame, 1) = DiscFrame /\ Head(Rest(DiscFrame, 1)) = DiscFrame[1]
        /\ DiscFrame[1] = FLAG /\ Tail(Rest(DiscFrame, 1)) = Rest(DiscFrame, 2)
        /\ Len(DiscFrame) = 5
    BY SMTT(30), <1>1, SupervisionRest DEF DiscFrame
  <2>2. Len(DiscFrame) # 0
    BY <2>1
  <2> QED
    BY <1>9, <2>1, <2>2, EmptySeq
<1>11. CASE SenderStep
  <2>1. UNCHANGED receiver /\ UNCHANGED << current_ctrl, accepted, output, rPc, hs >>
    BY <1>11, SenderDoes DEF receiver
  <2>2. ~s_receive
    BY <1>3 DEF s_receive, AnswerByte, TwoFlags, UnknownControl, AnswerEnd, Receiving
  <2>3. s_disconnect /\ sPc = "close"
    BY <1>2, <1>11, <2>2, SenderDoes
  <2>4. InFrame(p, bit, << >>)
    BY <1>4, <1>5, <2>3 DEF GivenUp
  <2>5. /\ sPc' = "disc" /\ sOut' = sOut \o DiscFrame
        /\ UNCHANGED << sIn, rIn, rOut, s_ctrl, timeout_count, expired, msg, acked >>
    BY <2>3 DEF s_disconnect, DiscFrame
  <2>6. Down' = Down \o DiscFrame /\ Up' = << >>
    BY <1>1, <1>2, <1>9, <2>5, DownWritten DEF Up
  <2>7. InFrame(p, bit, DiscFrame)'
    BY <1>9, <2>1, <2>4, <2>6, FrameFollowed
  <2>8. GivenUp'
    <3>1. Message(msg)' = p /\ s_ctrl' = bit /\ Lost(Message(msg))'
      BY <1>4, <1>5, <1>7, <2>5
    <3>2. Len(accepted') = acked' /\ msg' = acked' + 1
      BY <1>2, <2>1, <2>5
    <3> QED
      BY <1>4, <1>5, <2>5, <2>6, <2>7, <3>1, <3>2 DEF GivenUp
  <2>9. Counted'
    <3>1. sPc' # "success" /\ sPc # "success" /\ sPc' \notin {"closed", "handshake"}
      BY <2>3, <2>5
    <3>2. rPc' = "reading" => hs' = "S"
      BY <1>8, <2>1
    <3> QED
      BY <1>1, <2>1, <2>5, <3>1, <3>2, SameCount
  <2> QED
    BY <2>8, <2>9 DEF Stage
<1>12. CASE ReceiverStep
  <2>1. Reads /\ UNCHANGED sender
    BY <1>8, <1>12, ReceiverDoes DEF ReceiverStep
  <2>2. UNCHANGED << sPc, s_ctrl, timeout_count, expired, msg, acked >>
    BY <2>1 DEF sender
  <2>3. ASSUME UNCHANGED << sIn, rOut, rPc, hs, current_ctrl, accepted, output >>
        PROVE  Counted' /\ Up' = << >> /\ Len(accepted') = acked' /\ msg' = acked' + 1
               /\ Lost(Message(msg))'
    <3>1. Lost(Message(msg))'
      BY <1>2, <1>4, <1>7, <2>2
    <3> QED
      BY <1>1, <1>2, <1>3, <1>8, <2>2, <2>3, <3>1, SameCount DEF Up
  <2>4. ASSUME NEW more \in Seq(Byte), InFrame(p, bit, more),
               sPc = "close" => more = << >>, sPc = "disc" => more = DiscFrame
        PROVE  Stage' /\ Counted'
    <3>1. PICK k \in 1 .. End(p) + 1 : Parses(p, k) /\ Down = Rest(DataFrame(p, bit), k) \o more
      BY <2>4 DEF InFrame
    <3>2. End(p) \in Nat \ {0}
      BY FrameKnown
    <3>3. CASE k \in 1 .. End(p)
      <4>1. /\ InFrame(p, bit, more)'
            /\ UNCHANGED << sIn, rOut, rPc, hs, current_ctrl, accepted, output >>
        BY <1>1, <1>6, <1>7, <2>1, <3>1, <3>3, FrameStep
      <4>2. Counted' /\ Up' = << >> /\ Len(accepted') = acked' /\ msg' = acked' + 1
            /\ Lost(Message(msg))'
        BY <2>3, <4>1
      <4>3. GivenUp'
        BY <1>2, <1>4, <1>5, <2>2, <2>4, <4>1, <4>2 DEF GivenUp
      <4> QED
        BY <4>2, <4>3 DEF Stage
    <3>4. CASE k = End(p) + 1
      <4>1. Rest(DataFrame(p, bit), k) = << >>
        BY <3>4, FrameKnown
      <4>2. Down = more
        BY <2>4, <3>1, <4>1, EmptyConcat
      <4>3. Dropped(1) /\ rPc = "reading" /\ ~STOP /\ STOP = FALSE
        BY <1>1, <3>1, <3>2, <3>4 DEF Parses
      <4>4. rIn # << >> /\ Input = { Head(rIn) }
        BY <2>1, <4>3, Starved
      <4>5. Down # << >> /\ Head(Down) = Head(rIn)
        BY <1>1, <4>4, LineType, HeadConcat DEF Down
      <4>6. more = DiscFrame /\ sPc = "disc" /\ Head(rIn) = FLAG
        BY <1>2, <1>10, <2>4, <4>2, <4>5
      <4>7. dp.st = 1 /\ dp \in DataParser
        BY <1>1, <4>3 DEF Dropped, Parser, PortTypeOK, ReceiverTypeOK, DataParser
      <4>8. WaitAddress(FLAG)
        BY <2>1, <4>4, <4>6, <4>7, ByState
      <4>9. Goto(1)
        <5>1. FLAG # SenderAddress
          BY DEF FLAG, SenderAddress
        <5> QED
          BY <4>8, <5>1, Zenon DEF WaitAddress
      <4>10. Step(dp') /\ dp' = [ dp EXCEPT !.st = 1 ]
        BY <4>7, <4>9, GotoEffect
      <4>11. Dropped(1)'
        BY <4>3, <4>10 DEF Dropped, Parser
      <4>12. /\ rIn' = Tail(rIn) /\ ~STOP'
             /\ UNCHANGED << sIn, sOut, rOut, rPc, hs, current_ctrl, accepted, output >>
        BY <4>3, <4>10, StepEffect
      <4>13. Passes(2)' /\ 2 \in 2 .. 6
        BY <4>3, <4>11, <4>12 DEF Passes
      <4>14. Down' = Rest(DiscFrame, 2)
        BY <1>1, <1>10, <4>2, <4>4, <4>6, <4>12, DownRead
      <4>15. Counted' /\ Up' = << >> /\ Len(accepted') = acked' /\ msg' = acked' + 1
             /\ Lost(Message(msg))'
        BY <2>3, <4>12
      <4>16. GivenUp'
        BY <2>2, <4>6, <4>13, <4>14, <4>15 DEF GivenUp
      <4> QED
        BY <4>15, <4>16 DEF Stage
    <3> QED
      BY <3>1, <3>2, <3>3, <3>4
  <2>5. ASSUME NEW k \in 2 .. 6, Passes(k), Down = Rest(DiscFrame, k), sPc = "disc"
        PROVE  Stage' /\ Counted'
    <3>1. /\ \E j \in 2 .. 6 : Passes(j)' /\ Down' = Rest(DiscFrame, j)
          /\ UNCHANGED << sIn, rOut, rPc, hs, current_ctrl, accepted, output >>
      BY <1>1, <2>1, <2>5, PassStep
    <3>2. Counted' /\ Up' = << >> /\ Len(accepted') = acked' /\ msg' = acked' + 1
          /\ Lost(Message(msg))'
      BY <2>3, <3>1
    <3>3. GivenUp'
      BY <2>2, <2>5, <3>1, <3>2 DEF GivenUp
    <3> QED
      BY <3>2, <3>3 DEF Stage
  <2>7. CASE sPc = "close"
    <3> DEFINE none == << >>
    <3>1. InFrame(p, bit, none) /\ none \in Seq(Byte)
      BY <1>4, <1>5, <2>7 DEF GivenUp
    <3>2. none = << >>
      OBVIOUS
    <3> HIDE DEF none
    <3> QED
      BY <2>4, <2>7, <3>1, <3>2
  <2>8. CASE sPc = "disc"
    <3>1. \/ InFrame(p, bit, DiscFrame)
          \/ \E k \in 2 .. 6 : Passes(k) /\ Down = Rest(DiscFrame, k)
      BY <1>4, <1>5, <2>8 DEF GivenUp
    <3> QED
      BY <1>9, <2>4, <2>5, <2>8, <3>1
  <2> QED
    BY <1>2, <2>7, <2>8
<1> QED
  BY <1>11, <1>12

-----------------------------------------------------------------------------
\* A stage does not depend on where on the line the bytes are.
LEMMA StageStays ==
  ASSUME PerfectInv, Down' = Down, Up' = Up, UNCHANGED << sender, receiver >>
  PROVE  Stage' /\ Counted'
<1>1. /\ UNCHANGED << sPc, s_ctrl, sHs, ans, timeout_count, expired, msg, acked >>
      /\ UNCHANGED << rPc, STOP, hs, dp, current_ctrl, accepted, output >>
  BY DEF sender, receiver
<1>2. ASSUME NEW k, NEW control, ReadsAnswer(k, control) PROVE ReadsAnswer(k, control)'
  BY <1>1, <1>2 DEF ReadsAnswer
<1>3. ASSUME NEW pc, NEW k, Hunts(pc, k) PROVE Hunts(pc, k)'
  BY <1>1, <1>3 DEF Hunts, Waits
<1>4. ASSUME NEW p, NEW bit, NEW more, InFrame(p, bit, more) PROVE InFrame(p, bit, more)'
  <2>1. PICK k \in 1 .. End(p) + 1 : Parses(p, k) /\ Down = Rest(DataFrame(p, bit), k) \o more
    BY <1>4 DEF InFrame
  <2>2. Parses(p, k)'
    BY <2>1, ParserStays
  <2>3. Down' = Rest(DataFrame(p, bit), k) \o more
    BY <2>1
  <2> QED
    BY <2>2, <2>3 DEF InFrame
<1>5. ASSUME NEW k, Passes(k) PROVE Passes(k)'
  BY <1>1, <1>5 DEF Passes, Dropped
<1>6. /\ Ready => Ready'
      /\ \A pc : Waits(pc) => Waits(pc)'
      /\ Finished => Finished'
  BY <1>1 DEF Ready, Blank, Waits, Finished
<1>7. Counted'
  BY <1>1 DEF PerfectInv, Counted
<1>8. PICK p : p = Message(msg)
  OBVIOUS
<1>9. PICK bit : bit = s_ctrl
  OBVIOUS
<1>10. p = Message(msg)' /\ bit = s_ctrl'
  BY <1>1, <1>8, <1>9
<1>11. CASE Calling
  BY <1>1, <1>7, <1>11 DEF Calling, Stage
<1>12. CASE Greeting
  BY <1>1, <1>3, <1>7, <1>12 DEF Greeting, Stage
<1>13. CASE Welcomed
  BY <1>1, <1>6, <1>7, <1>13 DEF Welcomed, Stage
<1>14. CASE Sending
  <2>1. Sending'
    BY <1>1, <1>4, <1>6, <1>8, <1>9, <1>10, <1>14 DEF Sending
  <2> QED
    BY <1>7, <2>1 DEF Stage
<1>15. CASE Acknowledging
  <2>1. IF msg <= Len(File) THEN Ready' ELSE Waits("closing")'
    BY <1>6, <1>15 DEF Acknowledging
  <2>2. \/ sPc = "select" /\ Up = RRFrame(bit)
        \/ /\ sPc = "answer"
           /\ \E k \in 1 .. 5 : ReadsAnswer(k, RR(bit)) /\ Up = Rest(RRFrame(bit), k)
    BY <1>9, <1>15 DEF Acknowledging
  <2>3. \/ sPc' = "select" /\ Up' = RRFrame(bit)
        \/ /\ sPc' = "answer"
           /\ \E k \in 1 .. 5 : ReadsAnswer(k, RR(bit))' /\ Up' = Rest(RRFrame(bit), k)
    BY <1>1, <1>2, <2>2
  <2>4. Acknowledging'
    BY <1>1, <1>10, <1>15, <2>1, <2>3 DEF Acknowledging
  <2> QED
    BY <1>7, <2>4 DEF Stage
<1>16. CASE Closing
  BY <1>1, <1>6, <1>7, <1>16 DEF Closing, Stage
<1>17. CASE Leaving
  BY <1>1, <1>2, <1>3, <1>6, <1>7, <1>17 DEF Leaving, Stage
<1>18. CASE Dismissed
  BY <1>1, <1>2, <1>6, <1>7, <1>18 DEF Dismissed, Stage
<1>19. CASE Confirming
  BY <1>1, <1>3, <1>6, <1>7, <1>19 DEF Confirming, Stage
<1>20. CASE GivenUp
  <2>1. Lost(Message(msg))'
    BY <1>8, <1>10, <1>20 DEF GivenUp
  <2>2. GivenUp'
    BY <1>1, <1>4, <1>5, <1>8, <1>9, <1>10, <1>20, <2>1 DEF GivenUp
  <2> QED
    BY <1>7, <2>2 DEF Stage
<1> QED
  BY <1>11, <1>12, <1>13, <1>14, <1>15, <1>16, <1>17, <1>18, <1>19, <1>20 DEF PerfectInv, Stage

\* Both programs are closed at first, and nothing is on its way.
LEMMA PerfectInit == Init => PerfectInv
<1> SUFFICES ASSUME Init PROVE PerfectInv
  OBVIOUS
<1>1. Types
  BY TypesInit
<1>2. Down = << >> /\ Up = << >>
  BY DEF Init, WireInit, Down, Up
<1>3. Calling
  BY <1>2 DEF Init, SenderInit, ReceiverInit, Calling
<1>4. Counted
  BY SavedNothing DEF Init, SenderInit, ReceiverInit, Counted
<1> QED
  BY <1>1, <1>3, <1>4 DEF PerfectInv, Stage

\* Every step of the system goes from a stage to one of them.
LEMMA PerfectNext ==
  ASSUME Undisturbed, PerfectInv, [Next]_vars
  PROVE  PerfectInv'
<1>1. Types'
  BY TypesNext DEF PerfectInv
<1>2. CASE SenderStep \/ ReceiverStep
  <2> SUFFICES Stage' /\ Counted'
    BY <1>1 DEF PerfectInv
  <2>1. CASE Calling
    BY <1>2, <2>1, CallingStep
  <2>2. CASE Greeting
    BY <1>2, <2>2, GreetingStep
  <2>3. CASE Welcomed
    BY <1>2, <2>3, WelcomedStep
  <2>4. CASE Sending
    BY <1>2, <2>4, SenderSends, ReceiverReads
  <2>5. CASE Acknowledging
    BY <1>2, <2>5, SenderAcknowledged, ReceiverAcknowledges
  <2>6. CASE Closing
    BY <1>2, <2>6, ClosingStep
  <2>7. CASE Leaving
    BY <1>2, <2>7, LeavingStep
  <2>8. CASE Dismissed
    BY <1>2, <2>8, DismissedStep
  <2>9. CASE Confirming
    BY <1>2, <2>9, ConfirmingStep
  <2>10. CASE GivenUp
    BY <1>2, <2>10, GivenUpStep
  <2> QED
    BY <2>1, <2>2, <2>3, <2>4, <2>5, <2>6, <2>7, <2>8, <2>9, <2>10 DEF PerfectInv, Stage
<1>3. CASE CableStep
  <2>1. CableNext /\ UNCHANGED << sender, receiver >>
    BY <1>3 DEF CableStep
  <2>2. Down' = Down /\ Up' = Up
    BY <2>1, CableCarries DEF PerfectInv
  <2>3. Stage' /\ Counted'
    BY <2>1, <2>2, StageStays
  <2> QED
    BY <1>1, <2>3 DEF PerfectInv
<1>4. CASE UNCHANGED vars
  <2>1. UNCHANGED << sender, receiver >> /\ Down' = Down /\ Up' = Up
    BY <1>4 DEF vars, wire, Down, Up
  <2>2. Stage' /\ Counted'
    BY <2>1, StageStays
  <2> QED
    BY <1>1, <2>2 DEF PerfectInv
<1> QED
  BY <1>2, <1>3, <1>4 DEF Next, Terminated

(***************************************************************************)
(* What every stage has in common.                                         *)
(***************************************************************************)
LEMMA StageFacts ==
  ASSUME PerfectInv
  PROVE  /\ Len(accepted) \in {acked, acked + 1}
         /\ sPc \notin {"failure", "exited"} /\ rPc # "crashed"
         /\ sPc = "success" => rPc \in {"awaitUA", "done"}
         /\ rPc = "done" => sPc = "success"
         /\ sPc = "success" => Finished
<1>1. Stage /\ acked \in Nat
  BY DEF PerfectInv, Types, TypeOK, SenderTypeOK
<1>2. \A p, bit, more : InFrame(p, bit, more) => rPc = "reading"
  BY DEF InFrame, Parses, Ready
<1>3. CASE Calling \/ Greeting \/ Welcomed
  BY <1>1, <1>3 DEF Calling, Greeting, Welcomed, Hunts, Waits, Ready
<1>4. CASE Sending
  BY <1>1, <1>2, <1>4 DEF Sending, Ready
<1>5. CASE Acknowledging
  <2>1. rPc \in {"reading", "closing"}
    BY <1>5 DEF Acknowledging, Ready, Waits
  <2> QED
    BY <1>1, <1>5, <2>1 DEF Acknowledging
<1>6. CASE Closing \/ Leaving \/ Dismissed
  BY <1>1, <1>6 DEF Closing, Leaving, Dismissed, Hunts, Waits, Finished
<1>7. CASE Confirming
  BY <1>1, <1>7 DEF Confirming, Hunts, Waits, Finished
<1>8. CASE GivenUp
  BY <1>1, <1>2, <1>8 DEF GivenUp, Passes
<1> QED
  BY <1>1, <1>3, <1>4, <1>5, <1>6, <1>7, <1>8 DEF Stage

(***************************************************************************)
(* On a cable that is never disturbed the system is always in one of the   *)
(* stages of a transfer: nobody fails, exits or crashes, but a message     *)
(* whose check byte is the flag is given up, and s_llclose then waits.     *)
(***************************************************************************)
THEOREM TransferStages ==
  ASSUME Undisturbed
  PROVE  Spec => []PerfectInv
<1>1. Init => PerfectInv
  BY PerfectInit
<1>2. PerfectInv /\ [Next]_vars => PerfectInv'
  BY PerfectNext
<1> QED
  BY <1>1, <1>2, PTL DEF Spec

(***************************************************************************)
(* llread has accepted every frame that llwrite has reported, and at most  *)
(* the one that is being written besides.                                  *)
(***************************************************************************)
THEOREM StopsAndWaits ==
  ASSUME Undisturbed
  PROVE  Spec => []StopAndWait
<1>1. PerfectInv => StopAndWait
  <2> SUFFICES ASSUME PerfectInv PROVE StopAndWait
    OBVIOUS
  <2>1. acked \in Nat /\ Len(accepted) \in {acked, acked + 1}
    BY StageFacts DEF PerfectInv, Types, TypeOK, SenderTypeOK
  <2> QED
    BY <2>1 DEF StopAndWait
<1> QED
  BY <1>1, TransferStages, PTL

(***************************************************************************)
(* The two sequence bits count what is acknowledged and what is accepted.  *)
(***************************************************************************)
THEOREM BitsCount ==
  ASSUME Undisturbed
  PROVE  Spec => []SequenceBits
<1>1. PerfectInv => SequenceBits
  BY DEF PerfectInv, Counted, SequenceBits, Writing
<1> QED
  BY <1>1, TransferStages, PTL

(***************************************************************************)
(* s_llclose succeeds only against a receiver that has answered DISC,      *)
(* r_llclose only after an s_llclose that has succeeded.                   *)
(***************************************************************************)
THEOREM ClosesAgree ==
  ASSUME Undisturbed
  PROVE  Spec => []CloseAgreement
<1>1. PerfectInv => CloseAgreement
  BY StageFacts DEF CloseAgreement
<1> QED
  BY <1>1, TransferStages, PTL

-----------------------------------------------------------------------------
\* Only the acceptance of a message writes to the file, and only the end of
\* r_llclose makes the receiver successful.
LEMMA ReceiverGrows ==
  ASSUME Types, ReceiverNext
  PROVE  \/ output' = output
         \/ rPc = "reading" /\ rPc' \in {"reading", "closing"} /\ Len(accepted') = Len(accepted) + 1
<1>1. r_llopen \/ r_handshake \/ r_disconnect \/ r_verify_if_ua_received \/ Crash => output' = output
  BY DEF r_llopen, r_handshake, r_disconnect, r_verify_if_ua_received, Crash,
         Unrecognised, Recognised
<1>2. CASE Parsing
  <2>1. ASSUME NEW next, Step(next) PROVE output' = output
    BY <2>1, StepEffect
  <2>2. ASSUME NEW st, Goto(st) PROVE output' = output
    BY <2>1, <2>2 DEF Goto
  <2> QED
    BY <1>2, <2>1, <2>2
    DEF Parsing, WaitFlag, WaitAddress, WaitControl, WaitBcc1, Collect, Discard,
        WaitDiscBcc, WaitDiscFlag
<1>3. CASE Accept
  <2>1. rPc = "reading" /\ rPc' \in {"reading", "closing"} /\ accepted' = Append(accepted, dp.data)
    BY <1>3, Zenon DEF Accept
  <2>2. accepted \in Seq(Seq(Byte)) /\ dp.data \in Seq(Byte)
    BY DEF Types, TypeOK, ReceiverTypeOK
  <2>3. Len(Append(accepted, dp.data)) = Len(accepted) + 1
    BY <2>2
  <2> QED
    BY <2>1, <2>3
<1> QED
  BY <1>1, <1>2, <1>3 DEF ReceiverNext

\* Nobody fails, and a success is one of the whole file.
WholeOrNothing ==
  /\ sPc \notin {"failure", "exited"} /\ rPc # "crashed"
  /\ sPc = "success" \/ rPc = "done" => output = Transfer!Whole

\* So it is in every stage.
LEMMA SuccessWhole ==
  ASSUME PerfectInv
  PROVE  WholeOrNothing
<1>1. ASSUME sPc = "success" \/ rPc = "done" PROVE output = Transfer!Whole
  <2>1. Len(accepted) = Len(File) + 1 /\ Counted /\ Len(File) \in Nat
    BY <1>1, Known, StageFacts DEF Finished
  <2>2. output = Transfer!UpTo(Len(File))
    BY <2>1 DEF Counted, Saved
  <2> QED
    BY <2>2 DEF Transfer!Whole
<1> QED
  BY <1>1, StageFacts DEF WholeOrNothing

(***************************************************************************)
(* The pair of programs implements the abstract transfer of the file.      *)
(***************************************************************************)
THEOREM Implements ==
  ASSUME Undisturbed
  PROVE  Spec => ImplementsTransfer
<1>1. Init => Transfer!Init
  <2> SUFFICES ASSUME Init PROVE Transfer!Init
    OBVIOUS
  <2>1. sPc = "closed" /\ rPc = "closed" /\ output = << >>
    BY DEF Init, SenderInit, ReceiverInit
  <2> QED
    BY <2>1 DEF Transfer!Init, Outcome
<1>2. PerfectInv => WholeOrNothing
  BY SuccessWhole
<1>3. PerfectInv' => WholeOrNothing'
  BY <1>2, PTL
<1>4. ASSUME PerfectInv, PerfectInv', [Next]_vars
      PROVE  [Transfer!Next]_Transfer!vars
  <2>1. /\ sPc \notin {"failure", "exited"} /\ rPc # "crashed"
        /\ sPc' \notin {"failure", "exited"} /\ rPc' # "crashed"
    BY <1>4, <1>2, <1>3 DEF WholeOrNothing
  <2> DEFINE sent == Outcome(sPc = "success", sPc \in {"failure", "exited"})
             received == Outcome(rPc = "done", rPc = "crashed")
  <2>2. /\ sent = IF sPc = "success" THEN "success" ELSE "running"
        /\ sent' = IF sPc' = "success" THEN "success" ELSE "running"
        /\ received = IF rPc = "done" THEN "success" ELSE "running"
        /\ received' = IF rPc' = "done" THEN "success" ELSE "running"
    BY <2>1 DEF Outcome
  <2>3. /\ Transfer!vars = << output, sent, received >>
        /\ Transfer!vars' = << output', sent', received' >>
    BY DEF Transfer!vars
  <2>4. Transfer!Deliver <=>
          /\ received = "running"
          /\ \E i \in 1 .. Len(File) : output = Transfer!UpTo(i - 1) /\ output' = Transfer!UpTo(i)
          /\ UNCHANGED << sent, received >>
    BY DEF Transfer!Deliver
  <2>5. Transfer!SendEnds <=>
          /\ sent = "running" /\ sent' \in {"success", "failure"}
          /\ sent' = "success" => output = Transfer!Whole
          /\ UNCHANGED << output, received >>
    BY DEF Transfer!SendEnds
  <2>6. Transfer!ReceiveEnds <=>
          /\ received = "running" /\ received' \in {"success", "failure"}
          /\ received' = "success" => output = Transfer!Whole
          /\ UNCHANGED << output, sent >>
    BY DEF Transfer!ReceiveEnds
  <2> HIDE DEF sent, received
  <2>7. CASE SenderStep
    <3>1. rPc' = rPc /\ output' = output
      BY <2>7, SenderDoes DEF receiver
    <3>2. received' = received /\ sPc # "success"
      BY <2>2, <2>7, <3>1, SenderDoes
    <3>3. CASE sPc' = "success"
      <4>1. output' = Transfer!Whole
        BY <1>4, <1>3, <3>3 DEF WholeOrNothing
      <4> QED
        BY <2>2, <2>5, <3>1, <3>2, <3>3, <4>1 DEF Transfer!Next
    <3>4. CASE sPc' # "success"
      BY <2>2, <2>3, <3>1, <3>2, <3>4
    <3> QED
      BY <3>3, <3>4
  <2>8. CASE ReceiverStep
    <3>1. ReceiverNext /\ sPc' = sPc
      BY <2>8 DEF ReceiverStep, sender
    <3>2. sent' = sent /\ rPc # "done"
      BY <2>2, <3>1, ReceiverDoes
    <3>3. CASE output' = output /\ rPc' = "done"
      <4>1. output' = Transfer!Whole
        BY <1>4, <1>3, <3>3 DEF WholeOrNothing
      <4> QED
        BY <2>2, <2>6, <3>2, <3>3, <4>1 DEF Transfer!Next
    <3>4. CASE output' = output /\ rPc' # "done"
      BY <2>2, <2>3, <3>2, <3>4
    <3>5. CASE output' # output
      <4>1. /\ rPc = "reading" /\ rPc' \in {"reading", "closing"}
            /\ Len(accepted') = Len(accepted) + 1
        BY <1>4, <3>1, <3>5, ReceiverGrows DEF PerfectInv
      <4>2. PICK n \in Nat : n = Len(accepted)
        BY <1>4 DEF PerfectInv, Types, TypeOK, ReceiverTypeOK
      <4>3. output = Saved(n) /\ output' = Saved(n + 1)
        BY <1>4, <4>1, <4>2 DEF PerfectInv, Counted
      <4>4. n + 1 \in 1 .. Len(File) /\ (n + 1) - 1 = n
        <5>1. Len(File) \in Nat
          BY SenderAssumption
        <5>2. n < Len(File)
          BY <3>5, <4>3, <5>1 DEF Saved
        <5> QED
          BY <5>1, <5>2
      <4>5. output = Transfer!UpTo(n) /\ output' = Transfer!UpTo(n + 1)
        BY <4>3, <4>4 DEF Saved
      <4>6. Transfer!Deliver
        BY <2>2, <2>4, <3>2, <4>1, <4>4, <4>5
      <4> QED
        BY <4>6 DEF Transfer!Next
    <3> QED
      BY <3>3, <3>4, <3>5
  <2>9. CASE CableStep \/ UNCHANGED vars
    <3>1. sPc' = sPc /\ rPc' = rPc /\ output' = output
      BY <2>9 DEF CableStep, vars, sender, receiver
    <3> QED
      BY <2>2, <2>3, <3>1
  <2> QED
    BY <1>4, <2>7, <2>8, <2>9 DEF Next, Terminated
<1> QED
  BY <1>1, <1>4, TransferStages, PTL DEF Spec, ImplementsTransfer, Transfer!Spec

-----------------------------------------------------------------------------
(***************************************************************************)
(* A disturbed cable.  Each read takes all that was written (~Partial), so *)
(* a frame arrives whole, not at all, or with its first flag flipped.  The *)
(* invariant, LossyInv, says which frames are on their way and where the   *)
(* parser of the receiver is in the one it reads.                          *)
(***************************************************************************)

\* A sequence is its first element and the others.
LEMMA OneAndRest ==
  ASSUME NEW T, NEW s \in Seq(T), s # << >>
  PROVE  /\ Head(s) \in T /\ Tail(s) \in Seq(T) /\ << Head(s) >> \in Seq(T)
         /\ s = << Head(s) >> \o Tail(s)
OBVIOUS

\* Flattening one sequence.
LEMMA FlattenOne ==
  ASSUME NEW T, NEW x \in Seq(T)
  PROVE  FlattenSeq(<< x >>) = x
<1>1. << >> \in Seq(Seq(T)) /\ Append(<< >>, x) = << x >>
  OBVIOUS
<1>2. FlattenSeq(Append(<< >>, x)) = FlattenSeq(<< >>) \o x
  BY <1>1, FlattenAppend
<1>3. << >> \o x = x
  OBVIOUS
<1> QED
  BY <1>1, <1>2, <1>3, FlattenEmpty

(***************************************************************************)
(* Flattening two sequences of sequences in a row.                         *)
(***************************************************************************)
LEMMA FlattenConcat ==
  ASSUME NEW T, NEW a \in Seq(Seq(T)), NEW b \in Seq(Seq(T))
  PROVE  FlattenSeq(a \o b) = FlattenSeq(a) \o FlattenSeq(b)
<1> DEFINE Part(n) == SubSeq(b, 1, n)
           Bad == { n \in 0 .. Len(b) : FlattenSeq(a \o Part(n)) # FlattenSeq(a) \o FlattenSeq(Part(n)) }
<1>1. Len(b) \in Nat /\ Bad \subseteq Nat
  OBVIOUS
<1>2. FlattenSeq(a) \in Seq(T)
  BY FlattenType
<1>3. 0 \notin Bad
  <2>1. Part(0) = << >> /\ a \o << >> = a
    OBVIOUS
  <2>2. FlattenSeq(a) \o << >> = FlattenSeq(a)
    BY <1>2
  <2> QED
    BY <2>1, <2>2, FlattenEmpty
<1>4. ASSUME NEW n \in 0 .. Len(b), n # 0, n - 1 \notin Bad
      PROVE  n \notin Bad
  <2>1. /\ n - 1 \in 0 .. Len(b) /\ Part(n - 1) \in Seq(Seq(T)) /\ b[n] \in Seq(T)
        /\ Part(n) = Append(Part(n - 1), b[n])
    BY <1>4
  <2>2. FlattenSeq(a \o Part(n - 1)) = FlattenSeq(a) \o FlattenSeq(Part(n - 1))
    BY <1>4, <2>1
  <2> HIDE DEF Part, Bad
  <2>3. a \o Part(n) = Append(a \o Part(n - 1), b[n]) /\ a \o Part(n - 1) \in Seq(Seq(T))
    BY <2>1, SMTT(30)
  <2>4. FlattenSeq(a \o Part(n)) = FlattenSeq(a \o Part(n - 1)) \o b[n]
    BY <2>1, <2>3, FlattenAppend
  <2>5. FlattenSeq(Part(n)) = FlattenSeq(Part(n - 1)) \o b[n]
    BY <2>1, FlattenAppend
  <2>6. PICK x \in Seq(T) : x = FlattenSeq(Part(n - 1))
    BY <2>1, FlattenType
  <2>7. PICK y \in Seq(T) : y = FlattenSeq(a)
    BY <1>2
  <2>8. PICK z \in Seq(T) : z = b[n]
    BY <2>1
  <2>9. (y \o x) \o z = y \o (x \o z)
    OBVIOUS
  <2> QED
    BY <2>2, <2>4, <2>5, <2>6, <2>7, <2>8, <2>9 DEF Bad
<1>5. Bad = {}
  <2> SUFFICES ASSUME Bad # {} PROVE FALSE
    OBVIOUS
  <2>1. PICK m \in Bad : \A k \in Bad : ~ (k < m)
    BY <1>1, LeastElement
  <2>2. m \in 0 .. Len(b) /\ m # 0
    BY <1>3
  <2>3. m - 1 \notin Bad
    BY <1>1, <2>1, <2>2, SMTT(30)
  <2> QED
    BY <1>4, <2>2, <2>3
<1>6. Part(Len(b)) = b
  OBVIOUS
<1> HIDE DEF Part
<1>7. Len(b) \in 0 .. Len(b) /\ Len(b) \notin Bad
  BY <1>1, <1>5
<1> QED
  BY <1>6, <1>7

-----------------------------------------------------------------------------
\* What travels to the receiver after the opening: the frame of a message, or
\* DISC, with its first byte flipped or not.
Bye == Len(File) + 2
Tokens == [ of : 1 .. Bye, noisy : BOOLEAN ]

BitOf(m) == (m - 1) % 2
Wagon(m) == IF m = Bye THEN DiscFrame ELSE DataFrame(Message(m), BitOf(m))
Item(t) == IF t.noisy THEN [ Wagon(t.of) EXCEPT ![1] = Xor(@, 255) ] ELSE Wagon(t.of)

\* A sequence of them.
Cars(q)  == [ i \in 1 .. Len(q) |-> Item(q[i]) ]
Train(q) == FlattenSeq(Cars(q))

\* The parts of what travels.
LEMMA WagonParts ==
  ASSUME NEW m \in 1 .. Bye
  PROVE  /\ Wagon(m) \in Seq(Byte) /\ Len(Wagon(m)) >= 5
         /\ m = Bye => Wagon(m) = DiscFrame /\ Len(Wagon(m)) = 5
         /\ m # Bye => /\ m \in 1 .. Len(File) + 1 /\ BitOf(m) \in {0, 1}
                       /\ Message(m) \in Seq(Byte)
                       /\ Wagon(m) = DataFrame(Message(m), BitOf(m))
                       /\ Len(Wagon(m)) = End(Message(m))
         /\ Wagon(m)[1] = FLAG /\ Wagon(m)[2] = SenderAddress /\ Wagon(m)[Len(Wagon(m))] = FLAG
         /\ \A k \in 2 .. Len(Wagon(m)) - 2 : Wagon(m)[k] # FLAG
<1>0. Len(File) \in Nat
  BY SenderAssumption
<1>1. CASE m = Bye
  <2>1. /\ DiscFrame \in Seq(Byte) /\ Len(DiscFrame) = 5 /\ DiscFrame[1] = FLAG
        /\ DiscFrame[2] = SenderAddress /\ DiscFrame[3] = DISC /\ DiscFrame[5] = FLAG
    BY SupervisionRest, Controls DEF DiscFrame
  <2>2. \A k \in 2 .. 3 : DiscFrame[k] # FLAG
    BY <2>1 DEF SenderAddress, DISC, FLAG
  <2>3. Wagon(m) = DiscFrame
    BY <1>1 DEF Wagon
  <2>4. \A k \in 2 .. Len(DiscFrame) - 2 : DiscFrame[k] # FLAG
    BY <2>1, <2>2
  <2> HIDE DEF DiscFrame
  <2>5. PICK f \in Seq(Byte) : f = DiscFrame
    BY <2>1
  <2>6. /\ f = Wagon(m) /\ Len(f) = 5 /\ f[1] = FLAG /\ f[2] = SenderAddress /\ f[5] = FLAG
        /\ \A k \in 2 .. Len(f) - 2 : f[k] # FLAG
    BY <2>1, <2>3, <2>4, <2>5
  <2> QED
    BY <1>1, <2>3, <2>6
<1>2. CASE m # Bye
  <2>1. m \in 1 .. Len(File) + 1 /\ BitOf(m) \in {0, 1}
    BY <1>0, <1>2 DEF Bye, BitOf
  <2> DEFINE p == Message(m)
             f == DataFrame(p, BitOf(m))
             n == Len(Sealed(p))
  <2>2. p \in Seq(Byte)
    BY <2>1, MessageParts
  <2>3. /\ f \in Seq(Byte) /\ Len(f) = n + 5 /\ f[1] = FLAG /\ f[2] = SenderAddress
        /\ f[3] = I(BitOf(m)) /\ f[4] = Xor(SenderAddress, I(BitOf(m)))
        /\ \A k \in 5 .. n + 4 : f[k] = Sealed(p)[k - 4]
        /\ f[n + 5] = FLAG
    BY <2>1, <2>2, FrameBytes
  <2>4. n \in Nat \ {0} /\ \A i \in 1 .. n : Sealed(p)[i] = FLAG => i = n
    BY <2>2, SealedBytes
  <2>5. Xor(SenderAddress, I(BitOf(m))) # FLAG /\ I(BitOf(m)) # FLAG /\ SenderAddress # FLAG
    <3>1. Xor(1, 192) = 193 /\ Xor(1, 128) = 129
      BY DEF Xor
    <3> QED
      BY <2>1, <3>1 DEF I, SenderAddress, FLAG
  <2> HIDE DEF f, n, p
  <2>6. ASSUME NEW k \in 2 .. n + 3 PROVE f[k] # FLAG
    <3>1. CASE k \in 5 .. n + 3
      <4>1. k - 4 \in 1 .. n /\ k - 4 # n /\ k \in 5 .. n + 4
        BY <2>4, <3>1
      <4> QED
        BY <2>3, <2>4, <4>1
    <3>2. CASE k \in {2, 3, 4}
      BY <2>3, <2>5, <3>2
    <3> QED
      BY <2>4, <3>1, <3>2
  <2>7. Wagon(m) = f /\ Len(f) = End(p)
    BY <1>2, <2>3 DEF Wagon, f, p, n, End
  <2> QED
    BY <1>2, <2>1, <2>2, <2>3, <2>4, <2>6, <2>7 DEF f, p
<1> QED
  BY <1>1, <1>2

\* The same of an item, disturbed or not.
LEMMA ItemParts ==
  ASSUME NEW t \in Tokens
  PROVE  /\ t.of \in 1 .. Bye /\ t.noisy \in BOOLEAN
         /\ Item(t) \in Seq(Byte) /\ Item(t) # << >>
         /\ Len(Item(t)) = Len(Wagon(t.of)) /\ Len(Item(t)) >= 5
         /\ Item(t)[Len(Item(t))] = FLAG
         /\ ~t.noisy => Item(t) = Wagon(t.of)
         /\ t.noisy => /\ Item(t)[1] \notin {FLAG, SenderAddress}
                       /\ \A k \in 1 .. Len(Item(t)) - 2 : Item(t)[k] # FLAG
<1>1. t.of \in 1 .. Bye /\ t.noisy \in BOOLEAN
  BY DEF Tokens
<1> DEFINE f == Wagon(t.of)
<1>2. /\ f \in Seq(Byte) /\ Len(f) >= 5 /\ f[1] = FLAG /\ f[Len(f)] = FLAG
      /\ \A k \in 2 .. Len(f) - 2 : f[k] # FLAG
  BY <1>1, WagonParts
<1>3. PICK b \in Byte : b = Xor(f[1], 255) /\ b = 163
  <2>1. Xor(92, 255) = 163
    BY SMTT(30) DEF Xor
  <2> QED
    BY <1>2, <2>1 DEF FLAG, Byte
<1>4. Item(t) = IF t.noisy THEN [ f EXCEPT ![1] = b ] ELSE f
  BY <1>3, Zenon DEF Item
<1> HIDE DEF f
<1>5. CASE t.noisy
  <2>1. /\ Item(t) \in Seq(Byte) /\ Len(Item(t)) = Len(f)
        /\ \A k \in 1 .. Len(f) : Item(t)[k] = IF k = 1 THEN b ELSE f[k]
    BY <1>2, <1>4, <1>5
  <2>2. b \notin {FLAG, SenderAddress}
    BY <1>3 DEF FLAG, SenderAddress
  <2>3. Item(t) # << >>
    BY <1>2, <2>1
  <2>4. Item(t)[Len(Item(t))] = FLAG
    BY <1>2, <2>1
  <2>5. \A k \in 1 .. Len(Item(t)) - 2 : Item(t)[k] # FLAG
    BY <1>2, <2>1, <2>2
  <2> QED
    BY <1>1, <1>2, <1>5, <2>1, <2>2, <2>3, <2>4, <2>5 DEF f
<1>6. CASE ~t.noisy
  BY <1>1, <1>2, <1>4, <1>6 DEF f
<1> QED
  BY <1>5, <1>6

\* An element of two sequences in a row.
LEMMA ConcatAt ==
  ASSUME NEW T, NEW s \in Seq(T), NEW t \in Seq(T)
  PROVE  /\ s \o t \in Seq(T) /\ Len(s \o t) = Len(s) + Len(t)
         /\ Len(s) \in Nat /\ Len(t) \in Nat
         /\ \A i \in 1 .. Len(s) + Len(t) : (s \o t)[i] = IF i <= Len(s) THEN s[i] ELSE t[i - Len(s)]
OBVIOUS

\* A train is made of its cars.
LEMMA CarsType ==
  ASSUME NEW q \in Seq(Tokens)
  PROVE  Cars(q) \in Seq(Seq(Byte)) /\ Len(Cars(q)) = Len(q)
<1>1. ASSUME NEW i \in 1 .. Len(q) PROVE Item(q[i]) \in Seq(Byte)
  <2>1. q[i] \in Tokens
    OBVIOUS
  <2> QED
    BY <2>1, ItemParts
<1> QED
  BY <1>1 DEF Cars

\* What is on the line behind another train.
LEMMA TrainConcat ==
  ASSUME NEW q \in Seq(Tokens), NEW r \in Seq(Tokens)
  PROVE  /\ Train(q) \in Seq(Byte) /\ Train(r) \in Seq(Byte)
         /\ Train(q \o r) = Train(q) \o Train(r)
<1>1. /\ Cars(q) \in Seq(Seq(Byte)) /\ Len(Cars(q)) = Len(q)
      /\ Cars(r) \in Seq(Seq(Byte)) /\ Len(Cars(r)) = Len(r)
  BY CarsType
<1>2. Cars(q \o r) = Cars(q) \o Cars(r)
  <2>1. q \o r \in Seq(Tokens) /\ Len(q \o r) = Len(q) + Len(r)
    OBVIOUS
  <2>2. Cars(q \o r) \in Seq(Seq(Byte)) /\ Len(Cars(q \o r)) = Len(q) + Len(r)
    BY <2>1, CarsType
  <2>3. Cars(q) \o Cars(r) \in Seq(Seq(Byte)) /\ Len(Cars(q) \o Cars(r)) = Len(q) + Len(r)
    <3>1. PICK c \in Seq(Seq(Byte)), d \in Seq(Seq(Byte)) : c = Cars(q) /\ d = Cars(r)
      BY <1>1
    <3>2. c \o d \in Seq(Seq(Byte)) /\ Len(c \o d) = Len(c) + Len(d)
      BY ConcatAt
    <3> QED
      BY <1>1, <3>1, <3>2
  <2>4. ASSUME NEW i \in 1 .. Len(q) + Len(r)
        PROVE  Cars(q \o r)[i] = (Cars(q) \o Cars(r))[i]
    <3>1. (q \o r)[i] = IF i <= Len(q) THEN q[i] ELSE r[i - Len(q)]
      OBVIOUS
    <3>2. (Cars(q) \o Cars(r))[i] = IF i <= Len(q) THEN Cars(q)[i] ELSE Cars(r)[i - Len(q)]
      <4>1. PICK c \in Seq(Seq(Byte)), d \in Seq(Seq(Byte)) : c = Cars(q) /\ d = Cars(r)
        BY <1>1
      <4>2. \A j \in 1 .. Len(c) + Len(d) : (c \o d)[j] = IF j <= Len(c) THEN c[j] ELSE d[j - Len(c)]
        BY ConcatAt
      <4> QED
        BY <1>1, <4>1, <4>2
    <3>3. Cars(q \o r)[i] = Item((q \o r)[i])
      BY <2>1 DEF Cars
    <3>4. CASE i <= Len(q)
      BY <3>1, <3>2, <3>3, <3>4 DEF Cars
    <3>5. CASE ~(i <= Len(q))
      <4>1. i - Len(q) \in 1 .. Len(r)
        BY <3>5
      <4> QED
        BY <3>1, <3>2, <3>3, <3>5, <4>1 DEF Cars
    <3> QED
      BY <3>4, <3>5
  <2> QED
    BY <2>2, <2>3, <2>4, SameSequence
<1> QED
  BY <1>1, <1>2, FlattenConcat, FlattenType DEF Train

\* No car, and one.
LEMMA TrainShort ==
  /\ Train(<< >>) = << >>
  /\ \A t \in Tokens : Train(<< t >>) = Item(t)
<1>1. Train(<< >>) = << >>
  <2>1. Cars(<< >>) = << >>
    BY DEF Cars
  <2> QED
    BY <2>1, FlattenEmpty DEF Train
<1>2. ASSUME NEW t \in Tokens PROVE Train(<< t >>) = Item(t)
  <2>1. Cars(<< t >>) = << Item(t) >>
    <3>1. Len(<< t >>) = 1 /\ << t >>[1] = t
      OBVIOUS
    <3>2. Cars(<< t >>) = [ i \in 1 .. 1 |-> Item(<< t >>[i]) ]
      BY <3>1 DEF Cars
    <3> QED
      BY <3>1, <3>2
  <2>2. Item(t) \in Seq(Byte)
    BY ItemParts
  <2> QED
    BY <2>1, <2>2, FlattenOne DEF Train
<1> QED
  BY <1>1, <1>2

\* The first car, and those behind it.
LEMMA TrainHead ==
  ASSUME NEW q \in Seq(Tokens), q # << >>
  PROVE  /\ Head(q) \in Tokens /\ Tail(q) \in Seq(Tokens)
         /\ Train(Tail(q)) \in Seq(Byte) /\ Train(q) # << >>
         /\ Train(q) = Item(Head(q)) \o Train(Tail(q))
<1>1. /\ Head(q) \in Tokens /\ Tail(q) \in Seq(Tokens) /\ << Head(q) >> \in Seq(Tokens)
      /\ q = << Head(q) >> \o Tail(q)
  BY OneAndRest
<1>2. /\ Train(Tail(q)) \in Seq(Byte)
      /\ Train(<< Head(q) >> \o Tail(q)) = Train(<< Head(q) >>) \o Train(Tail(q))
  BY <1>1, TrainConcat
<1>3. Train(<< Head(q) >>) = Item(Head(q))
  BY <1>1, TrainShort
<1>4. Item(Head(q)) \in Seq(Byte) /\ Item(Head(q)) # << >>
  BY <1>1, ItemParts
<1>5. Item(Head(q)) \o Train(Tail(q)) # << >>
  BY <1>2, <1>4, EmptyBoth
<1> QED
  BY <1>1, <1>2, <1>3, <1>5

-----------------------------------------------------------------------------
\* The parser in a frame whose first flag was flipped: it sees no flag before
\* the check byte.
Blind(k, n) ==
  /\ rPc = "reading" /\ ~STOP /\ Blank
  /\ dp.st \in {0, 1} /\ (k < n => dp.st = 0)

\* The parser in a DISC: what temporary[2] holds decides on the fourth byte.
PassStates(k) == CASE k = 2 -> {1} [] k = 3 -> {2} [] k = 4 -> {10} [] k = 5 -> {0, 11}
Passing(k) == rPc = "reading" /\ ~STOP /\ Blank /\ dp.st \in PassStates(k)

\* The parser before the k-th byte of t; a frame of the other bit is read up
\* to its control field.
Within(t, k) ==
  IF k = 1 THEN Ready
  ELSE IF t.noisy THEN Blind(k, Len(Item(t)))
  ELSE IF t.of = Bye THEN Passing(k)
  ELSE Parses(Message(t.of), k) /\ (BitOf(t.of) # current_ctrl => k <= 3)

\* A parser that waits for a flag, or has seen one and waits for the address.
LEMMA WaitingByte ==
  ASSUME PortTypeOK, Reads, ~STOP, Blank, dp.st \in {0, 1}
  PROVE  /\ Head(rIn) = FLAG => Step(dp') /\ Blank' /\ dp'.st = 1
         /\ Head(rIn) # FLAG /\ (dp.st = 1 => Head(rIn) # SenderAddress)
              => Step(dp') /\ Blank' /\ dp'.st = 0
<1>1. dp \in DataParser
  BY DEF PortTypeOK, ReceiverTypeOK, DataParser
<1>2. rIn # << >> /\ Input = { Head(rIn) }
  BY Starved
<1> DEFINE b == Head(rIn)
<1>3. \/ dp.st = 0 /\ WaitFlag(b)
      \/ dp.st = 1 /\ WaitAddress(b)
  <2>1. CASE dp.st = 0
    BY <1>2, <2>1, ByState
  <2>2. CASE dp.st = 1
    BY <1>2, <2>2, ByState
  <2> QED
    BY <2>1, <2>2
<1>4. ASSUME NEW st, Goto(st) PROVE Step(dp') /\ Blank' /\ dp'.st = st
  BY <1>1, <1>4, GotoEffect DEF Blank
<1> HIDE DEF b
<1>5. FLAG # SenderAddress
  BY DEF FLAG, SenderAddress
<1>6. CASE b = FLAG
  <2>1. Goto(1)
    BY <1>3, <1>5, <1>6, Zenon DEF WaitFlag, WaitAddress
  <2> QED
    BY <1>4, <1>6, <2>1 DEF b
<1>7. CASE b # FLAG /\ (dp.st = 1 => b # SenderAddress)
  <2>1. Goto(0)
    <3>1. CASE dp.st = 0 /\ WaitFlag(b)
      BY <1>7, <3>1, Zenon DEF WaitFlag
    <3>2. CASE dp.st = 1 /\ WaitAddress(b)
      BY <1>7, <3>2, Zenon DEF WaitAddress
    <3> QED
      BY <1>3, <3>1, <3>2
  <2> QED
    BY <1>4, <1>7, <2>1 DEF b
<1> QED
  BY <1>6, <1>7 DEF b

(***************************************************************************)
(* Where the parser returns a negative number its process ends.            *)
(***************************************************************************)
LEMMA CrashOnly ==
  ASSUME Reads, NEW b, Input = {b},
         \/ dp.st = 11 /\ b = FLAG
         \/ dp.st = 2 /\ b \notin {DISC, I(current_ctrl), SenderAddress}
  PROVE  Crash
<1>1. ~Accept
  <2>1. Accept => dp.st = 4
    BY Zenon DEF Accept
  <2> QED
    BY <2>1
<1>2. ~Parsing
  BY DEF Parsing, WaitFlag, WaitAddress, WaitControl, WaitBcc1, Collect, Discard,
         WaitDiscBcc, WaitDiscFlag
<1> QED
  BY <1>1, <1>2 DEF Reads

\* A step of the parser, and the process lives.
LEMMA StepLives ==
  ASSUME rPc = "reading", Step(dp')
  PROVE  rPc' = "reading" /\ ~STOP' /\ current_ctrl' = current_ctrl
  BY StepEffect

(***************************************************************************)
(* A byte of a frame with a flipped flag.                                  *)
(***************************************************************************)
LEMMA NoisyByte ==
  ASSUME PortTypeOK, Reads, ~STOP, NEW t \in Tokens, t.noisy, NEW k \in 1 .. Len(Item(t)),
         Within(t, k), Head(rIn) = Item(t)[k]
  PROVE  Step(dp') /\ IF k < Len(Item(t)) THEN Within(t, k + 1)' ELSE Ready'
<1>1. PICK n \in Nat : n = Len(Item(t)) /\ n >= 5
  BY ItemParts
<1>2. /\ Item(t)[n] = FLAG /\ Item(t)[1] \notin {FLAG, SenderAddress}
      /\ \A i \in 1 .. n - 2 : Item(t)[i] # FLAG
  BY <1>1, ItemParts
<1>3. rPc = "reading" /\ Blank /\ dp.st \in {0, 1} /\ (k # 1 /\ k < n => dp.st = 0)
  BY <1>1 DEF Within, Ready, Blind
<1>4. Step(dp') /\ Blank' /\ dp'.st \in {0, 1} /\ (k <= n - 2 => dp'.st = 0) /\ (k = n => dp'.st = 1)
  <2>1. CASE k = 1
    <3>1. Head(rIn) # FLAG /\ Head(rIn) # SenderAddress
      BY <1>2, <2>1
    <3> QED
      BY <1>1, <1>3, <2>1, <3>1, WaitingByte
  <2>2. CASE k # 1 /\ k <= n - 2
    <3>1. k \in 1 .. n - 2 /\ k < n
      BY <1>1, <2>2
    <3>2. Head(rIn) # FLAG /\ dp.st = 0
      BY <1>2, <1>3, <2>2, <3>1
    <3> QED
      BY <1>1, <1>3, <3>1, <3>2, WaitingByte
  <2>3. CASE k = n - 1
    <3>1. dp.st = 0 /\ k # n /\ ~(k <= n - 2)
      BY <1>1, <1>3, <2>3
    <3> QED
      BY <1>3, <3>1, WaitingByte
  <2>4. CASE k = n
    <3>1. Head(rIn) = FLAG /\ ~(k <= n - 2)
      BY <1>1, <1>2, <2>4
    <3> QED
      BY <1>3, <3>1, WaitingByte
  <2> QED
    BY <1>1, <2>1, <2>2, <2>3, <2>4
<1>5. rPc' = "reading" /\ ~STOP'
  BY <1>3, <1>4, StepLives
<1>6. CASE k < n
  <2>1. k + 1 # 1 /\ (k + 1 < n => dp'.st = 0)
    BY <1>1, <1>4, <1>6
  <2>2. Blind(k + 1, n)'
    BY <1>4, <1>5, <2>1 DEF Blind
  <2> QED
    BY <1>1, <1>4, <1>6, <2>1, <2>2 DEF Within
<1>7. CASE ~(k < n)
  BY <1>1, <1>4, <1>5, <1>7 DEF Ready
<1> QED
  BY <1>1, <1>6, <1>7

\* What the parser makes of the check byte of a DISC.
LEMMA DiscCheck ==
  ASSUME dp \in DataParser, NEW b, WaitDiscBcc(b), Blank
  PROVE  Step(dp') /\ Blank' /\ dp'.st \in {0, 11}
<1>1. CASE Goto(11)
  BY <1>1, GotoEffect DEF Blank
<1>2. CASE Step([ dp EXCEPT !.st = 0, !.t2 = 0 ])
  <2>1. dp' = [ dp EXCEPT !.st = 0, !.t2 = 0 ] /\ Step(dp')
    BY <1>2 DEF Step
  <2>2. dp'.st = 0 /\ dp'.data = dp.data /\ dp'.mxor = dp.mxor /\ dp'.toggle = dp.toggle
    BY <2>1 DEF DataParser
  <2> QED
    BY <2>1, <2>2 DEF Blank
<1> QED
  BY <1>1, <1>2 DEF WaitDiscBcc

(***************************************************************************)
(* A byte of a DISC: it is passed over, or the process ends.               *)
(***************************************************************************)
LEMMA DiscByte ==
  ASSUME PortTypeOK, Reads, ~STOP, NEW t \in Tokens, ~t.noisy, t.of = Bye,
         NEW k \in 1 .. 5, Within(t, k), Head(rIn) = DiscFrame[k]
  PROVE  \/ Step(dp') /\ IF k < 5 THEN Within(t, k + 1)' ELSE Ready'
         \/ Crash
<1>1. dp \in DataParser /\ current_ctrl \in {0, 1}
  BY DEF PortTypeOK, ReceiverTypeOK, DataParser
<1>2. rIn # << >> /\ Input = { Head(rIn) }
  BY Starved
<1>3. /\ DiscFrame[1] = FLAG /\ DiscFrame[2] = SenderAddress /\ DiscFrame[3] = DISC
      /\ DiscFrame[5] = FLAG
  BY Controls, SupervisionRest DEF DiscFrame
<1>4. rPc = "reading" /\ Blank
  BY DEF Within, Ready, Passing
<1>5. k # 1 => dp.st \in PassStates(k)
  BY DEF Within, Passing
<1>6. /\ PassStates(2) = {1} /\ PassStates(3) = {2} /\ PassStates(4) = {10}
      /\ PassStates(5) = {0, 11}
  BY DEF PassStates
<1>7. ASSUME Step(dp'), Blank', NEW j \in 2 .. 5, j = k + 1, dp'.st \in PassStates(j)
      PROVE  Step(dp') /\ IF k < 5 THEN Within(t, k + 1)' ELSE Ready'
  <2>1. Passing(j)'
    BY <1>4, <1>7, StepLives DEF Passing
  <2> QED
    BY <1>7, <2>1 DEF Within
<1>8. ASSUME NEW st, Goto(st) PROVE Step(dp') /\ Blank' /\ dp'.st = st
  BY <1>1, <1>4, <1>8, GotoEffect DEF Blank
<1>9. CASE k = 1
  <2>1. Ready /\ Head(rIn) = FLAG
    BY <1>3, <1>9 DEF Within
  <2>2. Step(dp') /\ Blank' /\ dp'.st = 1
    BY <2>1, WaitingByte DEF Ready
  <2> QED
    BY <1>6, <1>7, <1>9, <2>2
<1>10. CASE k = 2
  <2>1. dp.st = 1 /\ Head(rIn) = SenderAddress
    BY <1>3, <1>5, <1>6, <1>10
  <2>2. WaitAddress(Head(rIn))
    BY <1>2, <2>1, ByState
  <2>3. SenderAddress # FLAG
    BY DEF SenderAddress, FLAG
  <2>4. Goto(2)
    BY <2>1, <2>2, <2>3, Zenon DEF WaitAddress
  <2>5. Step(dp') /\ Blank' /\ dp'.st \in PassStates(3)
    BY <1>6, <1>8, <2>4
  <2> QED
    BY <1>7, <1>10, <2>5
<1>11. CASE k = 3
  <2>1. dp.st = 2 /\ Head(rIn) = DISC
    BY <1>3, <1>5, <1>6, <1>11
  <2>2. WaitControl(DISC)
    BY <1>2, <2>1, ByState
  <2>3. DISC # I(current_ctrl) /\ DISC # SenderAddress
    BY DEF DISC, I, SenderAddress
  <2>4. Goto(10)
    BY <2>2, <2>3 DEF WaitControl
  <2>5. Step(dp') /\ Blank' /\ dp'.st \in PassStates(4)
    BY <1>6, <1>8, <2>4
  <2> QED
    BY <1>7, <1>11, <2>5
<1>12. CASE k = 4
  <2>1. dp.st = 10
    BY <1>5, <1>6, <1>12
  <2>2. WaitDiscBcc(Head(rIn))
    BY <1>2, <2>1, ByState
  <2>3. Step(dp') /\ Blank' /\ dp'.st \in PassStates(5)
    BY <1>1, <1>4, <1>6, <2>2, DiscCheck
  <2> QED
    BY <1>7, <1>12, <2>3
<1>13. CASE k = 5
  <2>1. dp.st \in {0, 11} /\ Head(rIn) = FLAG
    BY <1>3, <1>5, <1>6, <1>13
  <2>2. CASE dp.st = 0
    <3>1. Step(dp') /\ Blank' /\ dp'.st = 1
      BY <1>4, <2>1, <2>2, WaitingByte
    <3>2. Ready'
      BY <1>4, <3>1, StepLives DEF Ready
    <3> QED
      BY <1>13, <3>1, <3>2
  <2>3. CASE dp.st = 11
    BY <1>2, <2>1, <2>3, CrashOnly
  <2> QED
    BY <2>1, <2>2, <2>3
<1> QED
  BY <1>9, <1>10, <1>11, <1>12, <1>13

(***************************************************************************)
(* A byte of the frame of a message: with the bit the receiver expects it  *)
(* is read to its end, and accepted there unless it is lost; with the      *)
(* other bit its control field ends the process.                           *)
(***************************************************************************)
LEMMA DataByte ==
  ASSUME PortTypeOK, Reads, ~STOP, NEW t \in Tokens, ~t.noisy, t.of # Bye,
         NEW k \in 1 .. End(Message(t.of)), Within(t, k),
         Head(rIn) = DataFrame(Message(t.of), BitOf(t.of))[k]
  PROVE  \/ Step(dp') /\ IF k < End(Message(t.of)) THEN Within(t, k + 1)' ELSE Ready'
         \/ /\ k = End(Message(t.of)) /\ BitOf(t.of) = current_ctrl
            /\ Accept /\ dp.data = Sealed(Message(t.of))
         \/ Crash
<1>0. /\ t.of \in 1 .. Len(File) + 1 /\ BitOf(t.of) \in {0, 1} /\ Message(t.of) \in Seq(Byte)
  BY ItemParts, WagonParts
<1>1. PICK p \in Seq(Byte) : p = Message(t.of)
  BY <1>0
<1>2. PICK bit \in {0, 1} : bit = BitOf(t.of)
  BY <1>0
<1>3. End(p) \in Nat /\ End(p) >= 6
  BY SealedBytes DEF End
<1>4. current_ctrl \in {0, 1} /\ dp \in DataParser
  BY DEF PortTypeOK, ReceiverTypeOK, DataParser
<1>5. rIn # << >> /\ Input = { Head(rIn) }
  BY Starved
<1>6. k \in 1 .. End(p) /\ Head(rIn) = DataFrame(p, bit)[k]
  BY <1>1, <1>2
<1>7. Parses(p, k) /\ (bit # current_ctrl => k <= 3)
  <2>1. CASE k = 1
    BY <2>1 DEF Within, Parses
  <2>2. CASE k # 1
    BY <1>1, <1>2, <2>2 DEF Within
  <2> QED
    BY <2>1, <2>2
<1>8. rPc = "reading"
  BY <1>7 DEF Parses, Ready
<1>9. CASE bit = current_ctrl
  <2>1. Head(rIn) = DataFrame(p, current_ctrl)[k]
    BY <1>6, <1>9
  <2>2. \/ Step(dp') /\ Parses(p, k + 1)'
        \/ k = End(p) /\ ~Lost(p) /\ Accept /\ dp.data = Sealed(p)
    BY <1>6, <1>7, <2>1, FrameByte
  <2>3. CASE Step(dp') /\ Parses(p, k + 1)' /\ k < End(p)
    <3>1. k + 1 # 1 /\ current_ctrl' = bit
      BY <1>8, <1>9, <2>3, StepLives
    <3>2. Within(t, k + 1)'
      BY <1>1, <1>2, <2>3, <3>1 DEF Within
    <3> QED
      BY <1>1, <2>3, <3>2
  <2>4. CASE Step(dp') /\ Parses(p, k + 1)' /\ ~(k < End(p))
    <3>1. k + 1 = End(p) + 1 /\ k + 1 # 1
      BY <1>3, <1>6, <2>4
    <3>2. Dropped(1)' /\ rPc' = "reading" /\ ~STOP'
      BY <1>3, <2>4, <3>1 DEF Parses
    <3>3. Ready'
      BY <3>2 DEF Dropped, Parser, Ready, Blank
    <3> QED
      BY <1>1, <2>4, <3>3
  <2>5. CASE k = End(p) /\ ~Lost(p) /\ Accept /\ dp.data = Sealed(p)
    BY <1>1, <1>2, <1>9, <2>5
  <2> QED
    BY <2>2, <2>3, <2>4, <2>5
<1>10. CASE bit # current_ctrl
  <2>1. /\ DataFrame(p, bit)[1] = FLAG /\ DataFrame(p, bit)[2] = SenderAddress
        /\ DataFrame(p, bit)[3] = I(bit)
    BY FrameBytes
  <2>2. /\ DataFrame(p, current_ctrl)[1] = FLAG
        /\ DataFrame(p, current_ctrl)[2] = SenderAddress
    BY <1>4, FrameBytes
  <2>3. k \in {1, 2, 3}
    BY <1>6, <1>7, <1>10
  <2>4. CASE k = 3
    <3>1. Head(rIn) = I(bit) /\ dp.st = 2
      BY <1>6, <1>7, <2>1, <2>4 DEF Parses
    <3>2. I(bit) \notin {DISC, I(current_ctrl), SenderAddress}
      BY <1>4, <1>10 DEF I, DISC, SenderAddress
    <3> QED
      BY <1>5, <3>1, <3>2, CrashOnly
  <2>5. CASE k # 3
    <3>1. k \in {1, 2} /\ k \in 1 .. 4
      BY <2>3, <2>5
    <3>2. Head(rIn) = DataFrame(p, current_ctrl)[k]
      BY <1>6, <2>1, <2>2, <3>1
    <3>3. Step(dp') /\ Blank' /\ dp'.st = k
      BY <1>7, <3>1, <3>2, HeaderByte
    <3>4. rPc' = "reading" /\ ~STOP'
      BY <1>8, <3>3, StepLives
    <3>5. Parses(p, k + 1)'
      BY <1>3, <3>1, <3>3, <3>4 DEF Parses
    <3>6. k + 1 # 1 /\ k + 1 <= 3 /\ k < End(p)
      BY <1>3, <3>1
    <3>7. Within(t, k + 1)'
      BY <1>1, <3>5, <3>6 DEF Within
    <3> QED
      BY <1>1, <3>3, <3>6, <3>7
  <2> QED
    BY <2>4, <2>5
<1> QED
  BY <1>9, <1>10

(***************************************************************************)
(* A byte of whatever travels to the receiver.                             *)
(***************************************************************************)
LEMMA ItemByte ==
  ASSUME PortTypeOK, Reads, ~STOP, NEW t \in Tokens, NEW k \in 1 .. Len(Item(t)),
         Within(t, k), Head(rIn) = Item(t)[k]
  PROVE  \/ Step(dp') /\ IF k < Len(Item(t)) THEN Within(t, k + 1)' ELSE Ready'
         \/ /\ k = Len(Item(t)) /\ t.of # Bye /\ BitOf(t.of) = current_ctrl
            /\ Accept /\ dp.data = Sealed(Message(t.of))
         \/ Crash
<1>1. /\ t.of \in 1 .. Bye /\ t.noisy \in BOOLEAN /\ Len(Item(t)) = Len(Wagon(t.of))
      /\ ~t.noisy => Item(t) = Wagon(t.of)
  BY ItemParts
<1>2. CASE t.noisy
  BY <1>2, NoisyByte
<1>3. CASE ~t.noisy /\ t.of = Bye
  <2>1. Wagon(t.of) = DiscFrame /\ Len(Item(t)) = 5 /\ Item(t) = DiscFrame
    BY <1>1, <1>3, WagonParts
  <2>2. k \in 1 .. 5 /\ Head(rIn) = DiscFrame[k]
    BY <2>1
  <2> QED
    BY <1>3, <2>1, <2>2, DiscByte
<1>4. CASE ~t.noisy /\ t.of # Bye
  <2>1. /\ Wagon(t.of) = DataFrame(Message(t.of), BitOf(t.of))
        /\ Len(Wagon(t.of)) = End(Message(t.of))
    BY <1>1, <1>4, WagonParts
  <2>2. /\ k \in 1 .. End(Message(t.of)) /\ Len(Item(t)) = End(Message(t.of))
        /\ Head(rIn) = DataFrame(Message(t.of), BitOf(t.of))[k]
    BY <1>1, <1>4, <2>1
  <2> QED
    BY <1>4, <2>2, DataByte
<1> QED
  BY <1>1, <1>2, <1>3, <1>4

-----------------------------------------------------------------------------
\* What is on its way fits the counters of both sides: only the message that
\* is being sent, and the one before it, in the order they were written; and
\* DISC, once s_disconnect has written it.
Left == {"disc", "failure", "exited"}
Fits(w) ==
  /\ \A i \in 1 .. Len(w) :
       \/ w[i].of = Bye /\ sPc \in Left
       \/ w[i].of <= msg /\ w[i].of \in Len(accepted) .. Len(accepted) + 1
  /\ \A i, j \in 1 .. Len(w) : i <= j => w[i].of <= w[j].of

\* The item the parser is in, and what is left of it.
Reader(p, x) ==
  \/ p = << >> /\ x = << >> /\ Ready
  \/ \E t \in Tokens : \E k \in 2 .. Len(Item(t)) :
       p = << t >> /\ x = Rest(Item(t), k) /\ Within(t, k)

\* Everything that is on its way to the parser: what it is in, what is on the
\* line, and what the cable has not read yet, which nothing has disturbed.
Pipeline ==
  \E p \in Seq(Tokens), q \in Seq(Tokens), r \in Seq(Tokens), x \in Seq(Byte) :
    /\ Reader(p, x) /\ rIn = x \o Train(q) /\ sOut = Train(r)
    /\ \A i \in 1 .. Len(r) : ~r[i].noisy
    /\ Fits((p \o q) \o r)

\* The numbers these rest on.
Numbers ==
  /\ Len(accepted) \in Nat /\ msg \in 1 .. Len(File) + 1 /\ Len(File) \in Nat
  /\ msg' \in 1 .. Len(File) + 1

\* What is left of it fits as well, in the same order, and when the counters
\* of the transmitter have moved on.
LEMMA FitsPart ==
  ASSUME NEW w \in Seq(Tokens), NEW v \in Seq(Tokens), NEW f \in [ 1 .. Len(v) -> 1 .. Len(w) ],
         \A i \in 1 .. Len(v) : v[i].of = w[f[i]].of,
         \A i, j \in 1 .. Len(v) : i <= j => f[i] <= f[j],
         Numbers, Fits(w), msg <= msg', accepted' = accepted, sPc \in Left => sPc' \in Left
  PROVE  Fits(v)'
<1>1. ASSUME NEW i \in 1 .. Len(v)
      PROVE  \/ v[i].of = Bye /\ sPc' \in Left
             \/ v[i].of <= msg' /\ v[i].of \in Len(accepted) .. Len(accepted) + 1
  <2>1. f[i] \in 1 .. Len(w) /\ v[i].of = w[f[i]].of
    OBVIOUS
  <2>2. \/ w[f[i]].of = Bye /\ sPc \in Left
        \/ w[f[i]].of <= msg /\ w[f[i]].of \in Len(accepted) .. Len(accepted) + 1
    BY <2>1 DEF Fits
  <2>3. PICK m : m = w[f[i]].of /\ m = v[i].of
    BY <2>1
  <2>4. \/ m = Bye /\ sPc \in Left
        \/ m <= msg /\ m \in Len(accepted) .. Len(accepted) + 1
    BY <2>2, <2>3
  <2>5. \/ m = Bye /\ sPc' \in Left
        \/ m <= msg' /\ m \in Len(accepted) .. Len(accepted) + 1
    BY <2>4 DEF Numbers
  <2> QED
    BY <2>3, <2>5
<1>2. ASSUME NEW i \in 1 .. Len(v), NEW j \in 1 .. Len(v), i <= j
      PROVE  v[i].of <= v[j].of
  <2>1. f[i] \in 1 .. Len(w) /\ f[j] \in 1 .. Len(w) /\ f[i] <= f[j]
    BY <1>2
  <2>2. w[f[i]].of <= w[f[j]].of
    BY <2>1 DEF Fits
  <2> QED
    BY <2>2
<1> QED
  BY <1>1, <1>2 DEF Fits

\* What is on its way stays, while the transmitter's counters move on.
LEMMA FitsStays ==
  ASSUME NEW w \in Seq(Tokens), Numbers, Fits(w), msg <= msg', accepted' = accepted,
         sPc \in Left => sPc' \in Left
  PROVE  Fits(w)'
<1> DEFINE f == [ i \in 1 .. Len(w) |-> i ]
<1>1. /\ f \in [ 1 .. Len(w) -> 1 .. Len(w) ]
      /\ \A i \in 1 .. Len(w) : w[i].of = w[f[i]].of
      /\ \A i, j \in 1 .. Len(w) : i <= j => f[i] <= f[j]
  OBVIOUS
<1> HIDE DEF f
<1> QED
  BY <1>1, FitsPart

\* The first one has been read.
LEMMA FitsRest ==
  ASSUME NEW t \in Tokens, NEW v \in Seq(Tokens), Numbers, Fits(<< t >> \o v), msg <= msg',
         accepted' = accepted, sPc \in Left => sPc' \in Left
  PROVE  Fits(v)'
<1> DEFINE w == << t >> \o v
           f == [ i \in 1 .. Len(v) |-> i + 1 ]
<1>1. << t >> \in Seq(Tokens) /\ Len(<< t >>) = 1
  OBVIOUS
<1>2. /\ w \in Seq(Tokens) /\ Len(w) = 1 + Len(v) /\ Len(v) \in Nat
      /\ \A i \in 1 .. Len(v) : w[i + 1] = v[i]
  <2>1. PICK s \in Seq(Tokens) : s = << t >> /\ Len(s) = 1
    BY <1>1
  <2>2. /\ s \o v \in Seq(Tokens) /\ Len(s \o v) = Len(s) + Len(v) /\ Len(v) \in Nat
        /\ \A i \in 1 .. Len(s) + Len(v) :
             (s \o v)[i] = IF i <= Len(s) THEN s[i] ELSE v[i - Len(s)]
    BY ConcatAt
  <2>3. ASSUME NEW i \in 1 .. Len(v) PROVE (s \o v)[i + 1] = v[i]
    <3>1. i + 1 \in 1 .. Len(s) + Len(v) /\ ~(i + 1 <= Len(s)) /\ i + 1 - Len(s) = i
      BY <2>1, <2>2
    <3> QED
      BY <2>2, <3>1
  <2> QED
    BY <2>1, <2>2, <2>3
<1>3. Fits(w)
  OBVIOUS
<1> HIDE DEF w
<1>4. f \in [ 1 .. Len(v) -> 1 .. Len(w) ]
  BY <1>2
<1>5. /\ \A i \in 1 .. Len(v) : v[i].of = w[f[i]].of
      /\ \A i, j \in 1 .. Len(v) : i <= j => f[i] <= f[j]
  BY <1>2
<1> HIDE DEF f
<1> QED
  BY <1>2, <1>3, <1>4, <1>5, FitsPart

\* The last ones have been dropped.
LEMMA FitsFront ==
  ASSUME NEW u \in Seq(Tokens), NEW v \in Seq(Tokens), Numbers, Fits(u \o v), msg <= msg',
         accepted' = accepted, sPc \in Left => sPc' \in Left
  PROVE  Fits(u)'
<1> DEFINE w == u \o v
           f == [ i \in 1 .. Len(u) |-> i ]
<1>1. /\ w \in Seq(Tokens) /\ Len(w) = Len(u) + Len(v) /\ Len(u) \in Nat /\ Len(v) \in Nat
      /\ \A i \in 1 .. Len(u) : w[i] = u[i]
  OBVIOUS
<1>2. Fits(w)
  OBVIOUS
<1> HIDE DEF w
<1>3. f \in [ 1 .. Len(u) -> 1 .. Len(w) ]
  BY <1>1
<1>4. /\ \A i \in 1 .. Len(u) : u[i].of = w[f[i]].of
      /\ \A i, j \in 1 .. Len(u) : i <= j => f[i] <= f[j]
  BY <1>1
<1> HIDE DEF f
<1> QED
  BY <1>1, <1>2, <1>3, <1>4, FitsPart

\* One more is written.
LEMMA FitsAppend ==
  ASSUME NEW w \in Seq(Tokens), NEW t \in Tokens, Numbers, Fits(w), msg' = msg,
         accepted' = accepted, sPc \notin Left,
         \/ t.of = Bye /\ sPc' \in Left
         \/ t.of = msg /\ msg \in Len(accepted) .. Len(accepted) + 1
  PROVE  Fits(Append(w, t))'
<1> DEFINE v == Append(w, t)
           n == Len(w)
<1>1. /\ v \in Seq(Tokens) /\ Len(v) = n + 1 /\ n \in Nat /\ v[n + 1] = t
      /\ \A i \in 1 .. n : v[i] = w[i]
  OBVIOUS
<1> HIDE DEF v, n
<1>2. ASSUME NEW i \in 1 .. n PROVE v[i].of <= msg /\ v[i].of \in Len(accepted) .. Len(accepted) + 1
  BY <1>1 DEF Fits, n
<1>3. \/ t.of = Bye /\ sPc' \in Left
      \/ t.of <= msg /\ t.of \in Len(accepted) .. Len(accepted) + 1
  BY DEF Numbers
<1>4. t.of >= msg /\ t.of \in Int
  <2>1. CASE t.of = Bye
    BY <2>1 DEF Numbers, Bye
  <2>2. CASE t.of = msg
    BY <2>2 DEF Numbers
  <2> QED
    BY <2>1, <2>2
<1>5. ASSUME NEW i \in 1 .. n + 1
      PROVE  \/ v[i].of = Bye /\ sPc' \in Left
             \/ v[i].of <= msg' /\ v[i].of \in Len(accepted) .. Len(accepted) + 1
  <2>1. CASE i = n + 1
    BY <1>1, <1>3, <2>1
  <2>2. CASE i # n + 1
    <3>1. i \in 1 .. n
      BY <1>1, <2>2
    <3> QED
      BY <1>2, <3>1
  <2> QED
    BY <2>1, <2>2
<1>6. ASSUME NEW i \in 1 .. n + 1, NEW j \in 1 .. n + 1, i <= j
      PROVE  v[i].of <= v[j].of
  <2>1. CASE j = n + 1 /\ i = n + 1
    BY <1>1, <1>4, <2>1
  <2>2. CASE j = n + 1 /\ i # n + 1
    <3>1. i \in 1 .. n
      BY <1>1, <2>2
    <3>2. v[i].of <= msg /\ v[i].of \in Int
      BY <1>2, <3>1 DEF Numbers
    <3>3. v[j] = t
      BY <1>1, <2>2
    <3> QED
      BY <1>4, <3>2, <3>3 DEF Numbers
  <2>3. CASE j # n + 1
    <3>1. i \in 1 .. n /\ j \in 1 .. n
      BY <1>1, <1>6, <2>3
    <3>2. w[i].of <= w[j].of
      BY <1>6, <3>1 DEF Fits, n
    <3> QED
      BY <1>1, <3>1, <3>2
  <2> QED
    BY <2>1, <2>2, <2>3
<1> QED
  BY <1>1, <1>5, <1>6 DEF Fits, v

\* The first one has been accepted.
LEMMA FitsAccepted ==
  ASSUME NEW t \in Tokens, NEW v \in Seq(Tokens), Numbers, Fits(<< t >> \o v), msg' = msg,
         t.of # Bye, BitOf(t.of) = Len(accepted) % 2,
         Len(accepted') = Len(accepted) + 1, sPc' = sPc
  PROVE  /\ t.of = Len(accepted) + 1 /\ t.of <= msg
         /\ Fits(v)'
<1> DEFINE w == << t >> \o v
<1>1. << t >> \in Seq(Tokens) /\ Len(<< t >>) = 1
  OBVIOUS
<1>2. /\ w \in Seq(Tokens) /\ Len(w) = 1 + Len(v) /\ Len(v) \in Nat /\ w[1] = t
      /\ \A i \in 1 .. Len(v) : w[i + 1] = v[i]
  <2>1. PICK s \in Seq(Tokens) : s = << t >> /\ Len(s) = 1 /\ s[1] = t
    BY <1>1
  <2>2. /\ s \o v \in Seq(Tokens) /\ Len(s \o v) = Len(s) + Len(v) /\ Len(v) \in Nat
        /\ \A i \in 1 .. Len(s) + Len(v) :
             (s \o v)[i] = IF i <= Len(s) THEN s[i] ELSE v[i - Len(s)]
    BY ConcatAt
  <2>3. ASSUME NEW i \in 1 .. Len(v) PROVE (s \o v)[i + 1] = v[i]
    <3>1. i + 1 \in 1 .. Len(s) + Len(v) /\ ~(i + 1 <= Len(s)) /\ i + 1 - Len(s) = i
      BY <2>1, <2>2
    <3> QED
      BY <2>2, <3>1
  <2>4. 1 \in 1 .. Len(s) + Len(v) /\ 1 <= Len(s)
    BY <2>1, <2>2
  <2>5. (s \o v)[1] = t
    BY <2>1, <2>2, <2>4
  <2> QED
    BY <2>1, <2>2, <2>3, <2>5
<1>3. Fits(w)
  OBVIOUS
<1> HIDE DEF w
<1>4. PICK n \in Nat : n = Len(accepted)
  BY DEF Numbers
<1>5. 1 \in 1 .. Len(w)
  BY <1>2
<1>6. t.of <= msg /\ t.of \in n .. n + 1
  BY <1>2, <1>3, <1>4, <1>5 DEF Fits
<1>7. t.of = n + 1
  <2>1. ASSUME t.of = n PROVE FALSE
    <3>1. (n - 1) % 2 = n % 2
      BY <1>4, <2>1 DEF BitOf
    <3>2. (n - 1) % 2 # n % 2
      OBVIOUS
    <3> QED
      BY <3>1, <3>2
  <2> QED
    BY <1>6, <2>1
<1>8. ASSUME NEW i \in 1 .. Len(v)
      PROVE  \/ v[i].of = Bye /\ sPc' \in Left
             \/ v[i].of <= msg' /\ v[i].of \in n + 1 .. n + 2
  <2>1. i + 1 \in 1 .. Len(w) /\ w[i + 1] = v[i] /\ 1 <= i + 1
    BY <1>2
  <2>2. \/ v[i].of = Bye /\ sPc \in Left
        \/ v[i].of <= msg /\ v[i].of \in n .. n + 1
    BY <1>3, <1>4, <2>1 DEF Fits
  <2>3. w[1].of <= w[i + 1].of
    BY <1>3, <1>5, <2>1 DEF Fits
  <2>4. n + 1 <= v[i].of
    BY <1>2, <1>7, <2>1, <2>3
  <2> QED
    BY <2>2, <2>4
<1>9. ASSUME NEW i \in 1 .. Len(v), NEW j \in 1 .. Len(v), i <= j
      PROVE  v[i].of <= v[j].of
  <2>1. i + 1 \in 1 .. Len(w) /\ j + 1 \in 1 .. Len(w) /\ i + 1 <= j + 1
        /\ w[i + 1] = v[i] /\ w[j + 1] = v[j]
    BY <1>2, <1>9
  <2>2. w[i + 1].of <= w[j + 1].of
    BY <1>3, <2>1 DEF Fits
  <2> QED
    BY <2>1, <2>2
<1>10. Len(accepted') = n + 1 /\ (n + 1) + 1 = n + 2
  BY <1>4
<1> QED
  BY <1>4, <1>6, <1>7, <1>8, <1>9, <1>10 DEF Fits

-----------------------------------------------------------------------------
\* Sequences in a row: their type, and where the brackets are.
LEMMA ConcatType ==
  ASSUME NEW T, NEW a \in Seq(T), NEW b \in Seq(T)
  PROVE  a \o b \in Seq(T)
OBVIOUS

\* Three in a row.
LEMMA ConcatThree ==
  ASSUME NEW T, NEW a \in Seq(T), NEW b \in Seq(T), NEW c \in Seq(T)
  PROVE  (a \o b) \o c \in Seq(T) /\ (a \o b) \o c = a \o (b \o c)
OBVIOUS

\* The brackets may be moved.
LEMMA ConcatMoves ==
  ASSUME NEW T, NEW a \in Seq(T), NEW b \in Seq(T), NEW c \in Seq(T), NEW d, d = b \o c
  PROVE  (a \o b) \o c = a \o d
OBVIOUS

\* One more at the end of the second.
LEMMA ConcatAppend ==
  ASSUME NEW T, NEW a \in Seq(T), NEW b \in Seq(T), NEW t \in T
  PROVE  /\ a \o Append(b, t) = Append(a \o b, t)
         /\ Append(b, t) = b \o << t >> /\ Append(b, t) \in Seq(T) /\ << t >> \in Seq(T)
OBVIOUS

\* One in front of a sequence.
LEMMA ConcatFront ==
  ASSUME NEW T, NEW t \in T, NEW b \in Seq(T)
  PROVE  << t >> \o b \in Seq(T) /\ << t >> \in Seq(T)
OBVIOUS

\* Nothing in front, and nothing at the end.
LEMMA ConcatNothing ==
  ASSUME NEW T, NEW a \in Seq(T)
  PROVE  a \o << >> = a /\ << >> \o a = a /\ << >> \in Seq(T)
OBVIOUS

-----------------------------------------------------------------------------
\* Whatever the others do, the parser stays where it is.
LEMMA ReaderStays ==
  ASSUME NEW p, NEW x, Reader(p, x), UNCHANGED receiver
  PROVE  Reader(p, x)'
<1>1. UNCHANGED << rPc, STOP, dp, current_ctrl >>
  BY DEF receiver
<1>2. Ready => Ready'
  BY <1>1 DEF Ready, Blank
<1>3. ASSUME NEW t, NEW k, Within(t, k) PROVE Within(t, k)'
  <2>1. \A n : Blind(k, n) => Blind(k, n)'
    BY <1>1 DEF Blind, Blank
  <2>2. Passing(k) => Passing(k)'
    BY <1>1 DEF Passing, Blank
  <2>3. \A m : Parses(m, k) => Parses(m, k)'
    BY ParserStays
  <2> QED
    BY <1>1, <1>2, <1>3, <2>1, <2>2, <2>3 DEF Within
<1> QED
  BY <1>2, <1>3 DEF Reader

\* Neither the line nor what the cable has to read changes.
LEMMA PipelineStays ==
  ASSUME Numbers, Pipeline, rIn' = rIn, sOut' = sOut, UNCHANGED receiver,
         msg <= msg', sPc \in Left => sPc' \in Left
  PROVE  Pipeline'
<1>1. PICK p \in Seq(Tokens), q \in Seq(Tokens), r \in Seq(Tokens), x \in Seq(Byte) :
        /\ Reader(p, x) /\ rIn = x \o Train(q) /\ sOut = Train(r)
        /\ \A i \in 1 .. Len(r) : ~r[i].noisy
        /\ Fits((p \o q) \o r)
  BY DEF Pipeline
<1>2. PICK w \in Seq(Tokens) : w = (p \o q) \o r
  BY ConcatThree
<1>3. Fits(w)' /\ Reader(p, x)'
  BY <1>1, <1>2, FitsStays, ReaderStays DEF receiver
<1>4. rIn' = x \o Train(q) /\ sOut' = Train(r)
  BY <1>1
<1>5. Fits((p \o q) \o r)'
  BY <1>2, <1>3
<1> QED
  BY <1>1, <1>3, <1>4, <1>5 DEF Pipeline

(***************************************************************************)
(* The transmitter writes the frame of its message, or DISC.               *)
(***************************************************************************)
LEMMA PipelineWritten ==
  ASSUME Numbers, Pipeline, rIn' = rIn, UNCHANGED receiver, sPc \notin Left, msg' = msg,
         NEW m \in 1 .. Bye, sOut' = sOut \o Wagon(m),
         \/ m = Bye /\ sPc' \in Left
         \/ m = msg /\ msg \in Len(accepted) .. Len(accepted) + 1
  PROVE  Pipeline'
<1>1. PICK p \in Seq(Tokens), q \in Seq(Tokens), r \in Seq(Tokens), x \in Seq(Byte) :
        /\ Reader(p, x) /\ rIn = x \o Train(q) /\ sOut = Train(r)
        /\ \A i \in 1 .. Len(r) : ~r[i].noisy
        /\ Fits((p \o q) \o r)
  BY DEF Pipeline
<1>2. PICK w \in Seq(Tokens) : w = (p \o q) \o r
  BY ConcatThree
<1>3. PICK t \in Tokens : t.of = m /\ t.noisy = FALSE
  <2>1. [ of |-> m, noisy |-> FALSE ] \in Tokens
    BY DEF Tokens
  <2> QED
    BY <2>1
<1>4. PICK s \in Seq(Tokens) : s = Append(r, t) /\ s = r \o << t >>
  <2>1. PICK s \in Seq(Tokens) : s = Append(r, t)
    BY ConcatAppend
  <2>2. Append(r, t) = r \o << t >>
    BY ConcatAppend
  <2> QED
    BY <2>1, <2>2
<1>5. (p \o q) \o s = Append(w, t)
  <2>1. PICK u \in Seq(Tokens) : u = p \o q
    BY ConcatType
  <2>2. u \o Append(r, t) = Append(u \o r, t)
    BY ConcatAppend
  <2> QED
    BY <1>2, <1>4, <2>1, <2>2
<1>6. Fits(Append(w, t))'
  <2>1. /\ Fits(w) /\ accepted' = accepted
        /\ \/ t.of = Bye /\ sPc' \in Left
           \/ t.of = msg /\ msg \in Len(accepted) .. Len(accepted) + 1
    BY <1>1, <1>2, <1>3 DEF receiver
  <2> QED
    BY <2>1, FitsAppend
<1>7. Train(s) = sOut'
  <2>1. << t >> \in Seq(Tokens)
    OBVIOUS
  <2>2. Train(r \o << t >>) = Train(r) \o Train(<< t >>)
    BY <2>1, TrainConcat
  <2>3. Train(<< t >>) = Wagon(m)
    BY <1>3, TrainShort, ItemParts
  <2> QED
    BY <1>1, <1>4, <2>2, <2>3
<1>8. \A i \in 1 .. Len(s) : ~s[i].noisy
  <2>1. ASSUME NEW i \in 1 .. Len(s) PROVE ~s[i].noisy
    <3>1. s[i] = IF i = Len(r) + 1 THEN t ELSE r[i]
      BY <1>4
    <3>2. i # Len(r) + 1 => i \in 1 .. Len(r)
      BY <1>4
    <3> QED
      BY <1>1, <1>3, <3>1, <3>2
  <2> QED
    BY <2>1
<1>9. Reader(p, x)' /\ rIn' = x \o Train(q)
  BY <1>1, ReaderStays
<1>10. Fits((p \o q) \o s)'
  BY <1>5, <1>6
<1> QED
  BY <1>7, <1>8, <1>9, <1>10 DEF Pipeline

(***************************************************************************)
(* One read of everything that was written: it is carried, dropped, or     *)
(* carried with its first byte flipped.                                    *)
(***************************************************************************)
LEMMA PipelineCarried ==
  ASSUME Numbers, Pipeline, UNCHANGED << sender, receiver >>, ~Partial, Len(sOut) <= CableBuffer,
         CableTypeOK, TxToRx
  PROVE  Pipeline'
<1>1. PICK p \in Seq(Tokens), q \in Seq(Tokens), r \in Seq(Tokens), x \in Seq(Byte) :
        /\ Reader(p, x) /\ rIn = x \o Train(q) /\ sOut = Train(r)
        /\ \A i \in 1 .. Len(r) : ~r[i].noisy
        /\ Fits((p \o q) \o r)
  BY DEF Pipeline
<1>2. Train(q) \in Seq(Byte) /\ Train(r) \in Seq(Byte)
  BY TrainConcat
<1>3. PICK out \in Seq(Byte), line \in Seq(Byte) :
        out = sOut /\ out = Train(r) /\ line = Train(q) /\ rIn = x \o line
  BY <1>1, <1>2
<1>4. PICK n \in 1 .. Len(out) : /\ Carry(sOut, n)
                                 /\ sOut' = SubSeq(out, n + 1, Len(out))
                                 /\ rIn' = rIn \o Carried(SubSeq(out, 1, n))
  BY <1>3 DEF TxToRx
<1>5. n = Len(out)
  <2>1. n <= CableBuffer /\ (n = CableBuffer \/ n = Len(out)) /\ Len(out) <= CableBuffer
    BY <1>3, <1>4 DEF Carry
  <2> QED
    BY <1>3, <2>1, CableAssumption
<1>6. SubSeq(out, 1, n) = out /\ SubSeq(out, n + 1, Len(out)) = << >> /\ out # << >>
  BY <1>5
<1>7. sOut' = << >> /\ rIn' = rIn \o Carried(out)
  BY <1>4, <1>6
<1>8. sOut' = Train(<< >>) /\ << >> \in Seq(Tokens)
  BY <1>7, TrainShort
<1>9. Reader(p, x)' /\ msg' = msg /\ accepted' = accepted /\ sPc' = sPc
  BY <1>1, ReaderStays DEF sender, receiver
<1>10. msg <= msg'
  BY <1>9 DEF Numbers
<1>11. ASSUME NEW s \in Seq(Tokens), rIn' = x \o Train(q \o s), Fits((p \o q) \o s)'
       PROVE  Pipeline'
  <2>1. PICK v \in Seq(Tokens) : v = q \o s
    BY ConcatType
  <2>2. PICK e \in Seq(Tokens) : e = << >> /\ Len(e) = 0
    BY <1>8
  <2>3. (p \o v) \o e = (p \o q) \o s
    <3>1. (p \o q) \o s = p \o v
      BY <2>1, ConcatMoves, SMTT(30)
    <3>2. PICK u \in Seq(Tokens) : u = p \o v
      BY ConcatType
    <3>3. u \o << >> = u
      BY ConcatNothing
    <3> QED
      BY <2>2, <3>1, <3>2, <3>3
  <2>4. Fits((p \o v) \o e)'
    BY <1>11, <2>3
  <2>5. sOut' = Train(e) /\ rIn' = x \o Train(v) /\ \A i \in 1 .. Len(e) : ~e[i].noisy
    BY <1>8, <1>11, <2>1, <2>2
  <2> QED
    BY <1>9, <2>4, <2>5 DEF Pipeline
<1>12. ASSUME NEW s \in Seq(Tokens), Carried(out) = Train(s)
       PROVE  rIn' = x \o Train(q \o s)
  <2>1. PICK y \in Seq(Byte) : y = Train(s)
    BY TrainConcat
  <2>2. (x \o line) \o y = x \o (line \o y)
    BY SMTT(30)
  <2>3. Train(q \o s) = line \o y
    BY <1>3, <2>1, TrainConcat
  <2> QED
    BY <1>3, <1>7, <1>12, <2>1, <2>2, <2>3
<1>13. PICK w \in Seq(Tokens) : w = p \o q
  BY ConcatType
<1>14. CASE connection = "on"
  <2>1. Carried(out) = Train(r)
    BY <1>3, <1>14 DEF Carried
  <2>2. PICK u \in Seq(Tokens) : u = w \o r
    BY ConcatType
  <2>3. Fits(u)'
    BY <1>1, <1>9, <1>10, <1>13, <2>2, FitsStays
  <2>4. Fits((p \o q) \o r)'
    BY <1>13, <2>2, <2>3
  <2> QED
    BY <1>11, <1>12, <2>1, <2>4
<1>15. CASE connection = "off"
  <2>1. Carried(out) = Train(<< >>)
    BY <1>15, TrainShort DEF Carried
  <2>2. Fits(w)'
    BY <1>1, <1>9, <1>10, <1>13, FitsFront
  <2>3. w \o << >> = w
    BY ConcatNothing
  <2>4. Fits((p \o q) \o << >>)'
    BY <1>13, <2>2, <2>3
  <2> QED
    BY <1>8, <1>11, <1>12, <2>1, <2>4
<1>16. CASE connection = "noise"
  <2>1. r # << >>
    BY <1>3, <1>6, TrainShort
  <2>2. PICK t \in Tokens, s \in Seq(Tokens) : t = Head(r) /\ s = Tail(r) /\ r = << t >> \o s
    BY <2>1, OneAndRest
  <2>3. ~t.noisy
    <3>1. Len(r) \in Nat /\ Len(r) # 0 /\ t = r[1]
      BY <2>1, <2>2
    <3>2. 1 \in 1 .. Len(r)
      BY <3>1
    <3> QED
      BY <1>1, <3>1, <3>2
  <2>4. PICK v \in Tokens : v.of = t.of /\ v.noisy = TRUE
    <3>1. [ of |-> t.of, noisy |-> TRUE ] \in Tokens
      BY ItemParts DEF Tokens
    <3> QED
      BY <3>1
  <2>5. PICK y \in Seq(Byte), z \in Seq(Byte), n1 \in Seq(Byte) :
          y = Item(t) /\ z = Train(s) /\ n1 = Item(v)
    BY ItemParts, TrainConcat
  <2>6. out = y \o z /\ y # << >> /\ Len(y) \in Nat \ {0}
    <3>1. Train(r) = Item(t) \o Train(s)
      BY <2>1, <2>2, TrainHead
    <3>2. y # << >>
      BY <2>5, ItemParts
    <3> QED
      BY <1>3, <2>5, <3>1, <3>2, EmptySeq
  <2>7. n1 = [ y EXCEPT ![1] = Xor(@, 255) ]
    BY <2>3, <2>4, <2>5 DEF Item
  <2>8. Carried(out) = n1 \o z
    <3>1. Carried(out) = [ out EXCEPT ![1] = Xor(@, 255) ]
      BY <1>16, Zenon DEF Carried
    <3>2. PICK b : b = Xor(y[1], 255)
      OBVIOUS
    <3>3. n1 = [ y EXCEPT ![1] = b ] /\ Len(n1) = Len(y)
      BY <2>5, <2>6, <2>7, <3>2
    <3>4. /\ y \o z \in Seq(Byte) /\ Len(y \o z) = Len(y) + Len(z)
          /\ Len(y) \in Nat /\ Len(z) \in Nat
          /\ \A i \in 1 .. Len(y) + Len(z) : (y \o z)[i] = IF i <= Len(y) THEN y[i] ELSE z[i - Len(y)]
      BY ConcatAt
    <3>5. /\ n1 \o z \in Seq(Byte) /\ Len(n1 \o z) = Len(y) + Len(z)
          /\ \A i \in 1 .. Len(y) + Len(z) :
               (n1 \o z)[i] = IF i <= Len(y) THEN n1[i] ELSE z[i - Len(y)]
      BY <3>3, ConcatAt
    <3>6. PICK c : c = [ out EXCEPT ![1] = Xor(@, 255) ]
      OBVIOUS
    <3>7. out[1] = y[1] /\ 1 \in 1 .. Len(out) /\ Len(out) = Len(y) + Len(z)
      BY <2>6, <3>4
    <3>8. c = [ out EXCEPT ![1] = b ]
      BY <3>2, <3>6, <3>7
    <3>9. b \in Byte
      <4>1. 1 \in 1 .. Len(y) /\ n1[1] = b
        BY <2>6, <3>3
      <4> QED
        BY <2>5, <3>3, <4>1
    <3>10. /\ c \in Seq(Byte) /\ Len(c) = Len(out)
           /\ \A i \in 1 .. Len(out) : c[i] = IF i = 1 THEN b ELSE out[i]
      BY <3>7, <3>8, <3>9
    <3>11. ASSUME NEW i \in 1 .. Len(y) + Len(z) PROVE c[i] = (n1 \o z)[i]
      <4>1. out[i] = IF i <= Len(y) THEN y[i] ELSE z[i - Len(y)]
        BY <2>6, <3>4
      <4>2. c[i] = IF i = 1 THEN b ELSE out[i]
        BY <3>7, <3>10
      <4>3. i <= Len(y) => n1[i] = IF i = 1 THEN b ELSE y[i]
        BY <3>3, <3>4
      <4>4. i = 1 => i <= Len(y)
        BY <2>6
      <4> QED
        BY <3>5, <4>1, <4>2, <4>3, <4>4
    <3>12. PICK d \in Seq(Byte) : d = n1 \o z
      BY <3>5
    <3>13. c = d
      <4>1. Len(d) = Len(c)
        BY <3>5, <3>7, <3>10, <3>12
      <4>2. \A i \in 1 .. Len(c) : c[i] = d[i]
        BY <3>7, <3>10, <3>11, <3>12
      <4> QED
        BY <3>10, <4>1, <4>2, SameSequence
    <3> QED
      BY <3>1, <3>6, <3>12, <3>13
  <2>9. PICK a \in Seq(Tokens) : a = << v >> \o s
    BY ConcatFront
  <2>10. Carried(out) = Train(a)
    <3>1. << v >> \in Seq(Tokens)
      OBVIOUS
    <3>2. Train(<< v >> \o s) = Train(<< v >>) \o Train(s) /\ Train(<< v >>) = Item(v)
      BY <3>1, TrainConcat, TrainShort
    <3> QED
      BY <2>5, <2>8, <2>9, <3>2
  <2>11. Fits(w \o a)'
    <3>1. PICK u \in Seq(Tokens), g \in Seq(Tokens) : u = w \o r /\ g = w \o a
      BY ConcatType
    <3>2. /\ Len(a) = Len(r) /\ Len(r) \in Nat
          /\ \A i \in 1 .. Len(r) : a[i].of = r[i].of
      <4>1. /\ Len(r) = Len(s) + 1 /\ Len(a) = Len(s) + 1 /\ Len(s) \in Nat
            /\ r[1] = t /\ a[1] = v
            /\ \A i \in 2 .. Len(s) + 1 : r[i] = s[i - 1] /\ a[i] = s[i - 1]
        BY <2>2, <2>9
      <4> QED
        BY <2>4, <4>1, SMTT(30)
    <3>3. /\ Len(u) = Len(w) + Len(r) /\ Len(g) = Len(w) + Len(r) /\ Len(w) \in Nat
          /\ \A i \in 1 .. Len(w) + Len(r) :
               /\ u[i] = IF i <= Len(w) THEN w[i] ELSE r[i - Len(w)]
               /\ g[i] = IF i <= Len(w) THEN w[i] ELSE a[i - Len(w)]
      <4>1. /\ Len(w \o r) = Len(w) + Len(r) /\ Len(w) \in Nat
            /\ \A i \in 1 .. Len(w) + Len(r) :
                 (w \o r)[i] = IF i <= Len(w) THEN w[i] ELSE r[i - Len(w)]
        BY ConcatAt
      <4>2. /\ Len(w \o a) = Len(w) + Len(a)
            /\ \A i \in 1 .. Len(w) + Len(a) :
                 (w \o a)[i] = IF i <= Len(w) THEN w[i] ELSE a[i - Len(w)]
        BY ConcatAt
      <4>3. /\ Len(u) = Len(w) + Len(r) /\ Len(w) \in Nat
            /\ \A i \in 1 .. Len(w) + Len(r) : u[i] = IF i <= Len(w) THEN w[i] ELSE r[i - Len(w)]
        BY <3>1, <4>1
      <4>4. /\ Len(g) = Len(w) + Len(r)
            /\ \A i \in 1 .. Len(w) + Len(r) : g[i] = IF i <= Len(w) THEN w[i] ELSE a[i - Len(w)]
        BY <3>1, <3>2, <4>2
      <4> QED
        BY <4>3, <4>4
    <3>4. ASSUME NEW i \in 1 .. Len(g) PROVE g[i].of = u[i].of
      <4>1. CASE i <= Len(w)
        BY <3>3, <4>1
      <4>2. CASE ~(i <= Len(w))
        <5>1. i - Len(w) \in 1 .. Len(r)
          BY <3>2, <3>3, <4>2
        <5>2. g[i] = a[i - Len(w)] /\ u[i] = r[i - Len(w)]
          BY <3>3, <4>2
        <5> QED
          BY <3>2, <5>1, <5>2
      <4> QED
        BY <4>1, <4>2
    <3> DEFINE f == [ i \in 1 .. Len(g) |-> i ]
    <3>5. /\ f \in [ 1 .. Len(g) -> 1 .. Len(u) ]
          /\ \A i \in 1 .. Len(g) : f[i] = i
          /\ \A i, j \in 1 .. Len(g) : i <= j => f[i] <= f[j]
      BY <3>3
    <3> HIDE DEF f
    <3>6. \A i \in 1 .. Len(g) : g[i].of = u[f[i]].of
      BY <3>4, <3>5
    <3>7. Fits(u)
      BY <1>1, <1>13, <3>1
    <3>8. Fits(g)'
      BY <1>9, <1>10, <3>5, <3>6, <3>7, FitsPart
    <3> QED
      BY <3>1, <3>8
  <2>12. Fits((p \o q) \o a)'
    BY <1>13, <2>11
  <2> QED
    BY <1>11, <1>12, <2>10, <2>12
<1> QED
  BY <1>14, <1>15, <1>16, CableAssumption DEF CableTypeOK

-----------------------------------------------------------------------------
\* A byte waits in buf only between two items.
LEMMA NothingLeftInside ==
  ASSUME NEW t, NEW k, k # 1, Within(t, k)
  PROVE  ~STOP
BY DEF Within, Blind, Passing, Parses

\* The parser reads on: the item it is in or begins, and the ones behind it.
LEMMA NextItem ==
  ASSUME NEW p \in Seq(Tokens), NEW q \in Seq(Tokens), NEW x \in Seq(Byte),
         Reader(p, x), rIn = x \o Train(q), rIn # << >>
  PROVE  \E t \in Tokens, v \in Seq(Tokens) : \E k \in 1 .. Len(Item(t)) :
           /\ Within(t, k) /\ rIn = Rest(Item(t), k) \o Train(v) /\ p \o q = << t >> \o v
<1>1. CASE p = << >> /\ x = << >> /\ Ready
  <2>1. PICK y \in Seq(Byte) : y = Train(q)
    BY TrainConcat
  <2>2. rIn = y
    BY <1>1, <2>1, ConcatNothing
  <2>3. q # << >>
    BY <2>1, <2>2, TrainShort, SMTT(30)
  <2>4. PICK t \in Tokens, v \in Seq(Tokens) : t = Head(q) /\ v = Tail(q) /\ q = << t >> \o v
    <3>1. Head(q) \in Tokens /\ Tail(q) \in Seq(Tokens) /\ q = << Head(q) >> \o Tail(q)
      BY <2>3, OneAndRest
    <3> QED
      BY <3>1
  <2>5. rIn = Item(t) \o Train(v)
    BY <2>1, <2>2, <2>3, <2>4, TrainHead
  <2>6. Rest(Item(t), 1) = Item(t) /\ 1 \in 1 .. Len(Item(t))
    BY ItemParts, RestAll
  <2>7. p \o q = q
    BY <1>1, ConcatNothing
  <2>8. Within(t, 1)
    BY <1>1 DEF Within
  <2>9. rIn = Rest(Item(t), 1) \o Train(v) /\ p \o q = << t >> \o v
    BY <2>4, <2>5, <2>6, <2>7
  <2> QED
    BY <2>6, <2>8, <2>9
<1>2. CASE \E t \in Tokens : \E k \in 2 .. Len(Item(t)) :
             p = << t >> /\ x = Rest(Item(t), k) /\ Within(t, k)
  <2>1. PICK t \in Tokens : \E k \in 2 .. Len(Item(t)) :
          p = << t >> /\ x = Rest(Item(t), k) /\ Within(t, k)
    BY <1>2
  <2>2. PICK k \in 2 .. Len(Item(t)) : p = << t >> /\ x = Rest(Item(t), k) /\ Within(t, k)
    BY <2>1
  <2>3. k \in 1 .. Len(Item(t))
    OBVIOUS
  <2> QED
    BY <2>2, <2>3
<1> QED
  BY <1>1, <1>2 DEF Reader

\* What the parser has taken of an item leaves the rest of it.
LEMMA ItemRead ==
  ASSUME NEW t \in Tokens, NEW k \in 1 .. Len(Item(t)), NEW v \in Seq(Tokens),
         rIn = Rest(Item(t), k) \o Train(v)
  PROVE  /\ Head(rIn) = Item(t)[k] /\ Rest(Item(t), k + 1) \in Seq(Byte)
         /\ Tail(rIn) = Rest(Item(t), k + 1) \o Train(v)
         /\ k = Len(Item(t)) => Rest(Item(t), k + 1) = << >>
<1>1. PICK f \in Seq(Byte) : f = Item(t)
  BY ItemParts
<1>2. k \in 1 .. Len(f) /\ Len(f) \in Nat
  BY <1>1
<1>3. k \in 1 .. Len(f) + 1 /\ k + 1 \in 1 .. Len(f) + 1 /\ k <= Len(f) /\ k # Len(f) + 1
  BY <1>2
<1>4. /\ Rest(f, k) # << >> /\ Rest(f, k) \in Seq(Byte)
      /\ Head(Rest(f, k)) = f[k] /\ Tail(Rest(f, k)) = Rest(f, k + 1)
      /\ Rest(f, k + 1) \in Seq(Byte)
      /\ Rest(f, k + 1) = << >> <=> k + 1 = Len(f) + 1
  BY <1>3, RestStep
<1>5. PICK y \in Seq(Byte), a \in Seq(Byte) : y = Train(v) /\ a = Rest(f, k)
  BY <1>4, TrainConcat
<1>6. a # << >> /\ rIn = a \o y
  BY <1>1, <1>4, <1>5
<1>7. Head(rIn) = Head(a) /\ Tail(rIn) = Tail(a) \o y
  BY <1>6, HeadConcat
<1> QED
  BY <1>1, <1>4, <1>5, <1>7

(***************************************************************************)
(* The receiver reads a byte: it stays in the pipeline, or accepts the     *)
(* message that its counter is at, or its process ends.                    *)
(***************************************************************************)
LEMMA PipelineRead ==
  ASSUME PortTypeOK, WireTypeOK, Reads, Numbers, Pipeline, UNCHANGED sender,
         current_ctrl = Len(accepted) % 2, accepted \in Seq(Seq(Byte))
  PROVE  \/ Step(dp') /\ Pipeline'
         \/ Crash
         \/ \E m \in 1 .. Len(File) + 1 :
              /\ m = Len(accepted) + 1 /\ m <= msg
              /\ Accept /\ dp.data = Sealed(Message(m))
              /\ rPc' = "reading" => Pipeline'
<1>1. PICK p \in Seq(Tokens), q \in Seq(Tokens), r \in Seq(Tokens), x \in Seq(Byte) :
        /\ Reader(p, x) /\ rIn = x \o Train(q) /\ sOut = Train(r)
        /\ \A i \in 1 .. Len(r) : ~r[i].noisy
        /\ Fits((p \o q) \o r)
  BY DEF Pipeline
<1>2. msg' = msg /\ sPc' = sPc /\ msg <= msg'
  BY DEF sender, Numbers
<1>3. CASE STOP
  <2>1. p = << >> /\ x = << >> /\ Ready
    BY <1>1, <1>3, NothingLeftInside DEF Reader
  <2>2. Ready' /\ Step(dp')
    BY <1>3, <2>1, LeftOver
  <2>3. rIn' = rIn /\ sOut' = sOut /\ accepted' = accepted
    BY <1>3, <2>2, StepEffect
  <2>4. PICK w \in Seq(Tokens) : w = (p \o q) \o r
    BY ConcatThree
  <2>5. Fits(w)'
    BY <1>1, <1>2, <2>3, <2>4, FitsStays
  <2>6. Reader(p, x)' /\ rIn' = x \o Train(q) /\ sOut' = Train(r) /\ Fits((p \o q) \o r)'
    BY <1>1, <2>1, <2>2, <2>3, <2>4, <2>5 DEF Reader
  <2> QED
    BY <1>1, <2>2, <2>6 DEF Pipeline
<1>4. CASE ~STOP
  <2>1. rIn # << >>
    BY <1>4, Starved
  <2>2. PICK t \in Tokens, v \in Seq(Tokens) : \E k \in 1 .. Len(Item(t)) :
          /\ Within(t, k) /\ rIn = Rest(Item(t), k) \o Train(v) /\ p \o q = << t >> \o v
    BY <1>1, <2>1, NextItem
  <2>3. PICK k \in 1 .. Len(Item(t)) :
          /\ Within(t, k) /\ rIn = Rest(Item(t), k) \o Train(v) /\ p \o q = << t >> \o v
    BY <2>2
  <2>4. /\ Head(rIn) = Item(t)[k] /\ Rest(Item(t), k + 1) \in Seq(Byte)
        /\ Tail(rIn) = Rest(Item(t), k + 1) \o Train(v)
        /\ k = Len(Item(t)) => Rest(Item(t), k + 1) = << >>
    BY <2>3, ItemRead
  <2>5. PICK z \in Seq(Tokens), one \in Seq(Tokens), w \in Seq(Tokens) :
          z = v \o r /\ one = << t >> /\ w = << t >> \o z
    BY ConcatType, ConcatFront
  <2>6. (one \o v) \o r = one \o z
    BY <2>5, ConcatMoves, SMTT(30)
  <2>7. Fits(w) /\ Fits(<< t >> \o z) /\ (one \o v) \o r = w
    BY <1>1, <2>3, <2>5, <2>6
  <2>8. ASSUME Fits(z)', Ready', rIn' = << >> \o Train(v), sOut' = Train(r)
        PROVE  Pipeline'
    <3>1. PICK e \in Seq(Tokens), y \in Seq(Byte) : e = << >> /\ y = << >>
      <4>1. << >> \in Seq(Tokens) /\ << >> \in Seq(Byte)
        BY ConcatNothing
      <4> QED
        BY <4>1
    <3>2. e \o v = v
      BY <3>1, ConcatNothing
    <3>3. Reader(e, y)'
      BY <2>8, <3>1 DEF Reader
    <3>4. rIn' = y \o Train(v) /\ Fits((e \o v) \o r)'
      BY <2>5, <2>8, <3>1, <3>2
    <3> QED
      BY <1>1, <2>8, <3>3, <3>4 DEF Pipeline
  <2>9. \/ Step(dp') /\ IF k < Len(Item(t)) THEN Within(t, k + 1)' ELSE Ready'
        \/ /\ k = Len(Item(t)) /\ t.of # Bye /\ BitOf(t.of) = current_ctrl
           /\ Accept /\ dp.data = Sealed(Message(t.of))
        \/ Crash
    BY <1>4, <2>3, <2>4, ItemByte
  <2>10. Len(Item(t)) \in Nat
    BY ItemParts
  <2>11. CASE Step(dp') /\ k < Len(Item(t)) /\ Within(t, k + 1)'
    <3>1. rIn' = Tail(rIn) /\ sOut' = sOut /\ accepted' = accepted
      BY <1>4, <2>11, StepEffect
    <3>2. k + 1 \in 2 .. Len(Item(t))
      BY <2>10, <2>11
    <3>3. PICK y \in Seq(Byte) : y = Rest(Item(t), k + 1)
      BY <2>4
    <3>4. Reader(one, y)'
      BY <2>5, <2>11, <3>2, <3>3 DEF Reader
    <3>5. Fits((one \o v) \o r)'
      BY <1>2, <2>7, <3>1, FitsStays
    <3>6. rIn' = y \o Train(v) /\ sOut' = Train(r)
      BY <1>1, <2>4, <3>1, <3>3
    <3> QED
      BY <1>1, <2>11, <3>4, <3>5, <3>6 DEF Pipeline
  <2>12. CASE Step(dp') /\ ~(k < Len(Item(t))) /\ Ready'
    <3>1. rIn' = Tail(rIn) /\ sOut' = sOut /\ accepted' = accepted
      BY <1>4, <2>12, StepEffect
    <3>2. k = Len(Item(t))
      BY <2>10, <2>12
    <3>3. rIn' = << >> \o Train(v) /\ sOut' = Train(r)
      BY <1>1, <2>4, <3>1, <3>2
    <3>4. Fits(z)'
      BY <1>2, <2>7, <3>1, FitsRest
    <3> QED
      BY <2>8, <2>12, <3>3, <3>4
  <2>13. CASE /\ k = Len(Item(t)) /\ t.of # Bye /\ BitOf(t.of) = current_ctrl
              /\ Accept /\ dp.data = Sealed(Message(t.of))
    <3>1. t.of \in 1 .. Len(File) + 1
      BY <2>13, ItemParts, SMTT(30) DEF Bye, Numbers
    <3>2. PICK m \in 1 .. Len(File) + 1 : m = t.of
      BY <3>1
    <3>3. PICK f \in Seq(Byte) : f = Message(m) /\ f # << >>
      BY MessageParts
    <3>4. dp.data = Sealed(f) /\ Accept
      BY <2>13, <3>2, <3>3
    <3>5. /\ rIn' = IF STOP THEN rIn ELSE Tail(rIn)
          /\ accepted' = Append(accepted, Sealed(f)) /\ sOut' = sOut
          /\ rPc' = "reading" => Ready'
      BY <3>3, <3>4, AcceptEffect
    <3>6. Len(accepted') = Len(accepted) + 1
      <4>1. Sealed(f) \in Seq(Byte)
        BY SealedBytes
      <4> QED
        BY <3>5, <4>1
    <3>7. t.of = Len(accepted) + 1 /\ t.of <= msg /\ Fits(z)'
      BY <1>2, <2>7, <2>13, <3>6, FitsAccepted
    <3>8. rIn' = << >> \o Train(v) /\ sOut' = Train(r)
      BY <1>1, <1>4, <2>4, <2>13, <3>5
    <3>9. rPc' = "reading" => Pipeline'
      BY <2>8, <3>5, <3>7, <3>8
    <3> QED
      BY <2>13, <3>2, <3>7, <3>9
  <2> QED
    BY <2>9, <2>11, <2>12, <2>13
<1> QED
  BY <1>3, <1>4

-----------------------------------------------------------------------------
\* How far r_handshake is in SET.
Progress ==
  CASE hs = "S" -> 0 [] hs = "F" -> 1 [] hs = "A" -> 2 [] hs = "C" -> 3 [] hs = "B" -> 4

\* Nothing but SET is written before it is answered.
Greets ==
  /\ ~STOP /\ accepted = << >>
  /\ Len(rIn) + Len(sOut) + Progress <= 5
  /\ sPc = "closed" => rIn = << >> /\ sOut = << >> /\ hs = "S"

\* What is accepted is saved; while the receiver reads, everything on its way
\* to it fits the counters.
LossyInv ==
  /\ NumberInv /\ BitFollows
  /\ output = Saved(Len(accepted)) /\ Len(accepted) <= Len(File) + 1 /\ Len(accepted) <= msg
  /\ rPc \in {"closed", "opening"} => Greets
  /\ rPc = "reading" => Len(accepted) <= Len(File) /\ sPc # "closed" /\ Pipeline
  /\ rPc \in {"closing", "awaitUA", "done"} => Len(accepted) = Len(File) + 1

\* The types these rest on, and what the accounts say of the transmitter.
LEMMA LossyKnown ==
  ASSUME LossyInv
  PROVE  /\ Types /\ Balance /\ UaBalance /\ (DiscSent => Disconnected)
         /\ (~Disconnected => SenderBit) /\ MsgFollows
         /\ WireTypeOK /\ PortTypeOK /\ CableTypeOK /\ hs \in Hunting
         /\ rIn \in Seq(Byte) /\ sOut \in Seq(Byte) /\ accepted \in Seq(Seq(Byte))
         /\ Len(accepted) \in Nat /\ Len(File) \in Nat /\ msg \in 1 .. Len(File) + 1
         /\ acked \in Nat
<1>1. Types /\ Balance /\ UaBalance /\ (DiscSent => Disconnected) /\ (~Disconnected => SenderBit)
  BY DEF LossyInv, NumberInv, ClosingInv, IInv, Numbered
<1>2. /\ WireTypeOK /\ PortTypeOK /\ CableTypeOK /\ hs \in Hunting /\ MsgFollows
      /\ accepted \in Seq(Seq(Byte)) /\ msg \in 1 .. Len(File) + 1 /\ acked \in 0 .. Len(File) + 1
  BY <1>1 DEF Types, TypeOK, PortTypeOK, SenderTypeOK, ReceiverTypeOK
<1>3. Len(File) \in Nat /\ rIn \in Seq(Byte) /\ sOut \in Seq(Byte)
  BY <1>2, SenderAssumption DEF WireTypeOK
<1> QED
  BY <1>1, <1>2, <1>3

\* The transmitter does not write before its handshake has had the UA, and
\* llwrite is at most one frame ahead of llread.
LEMMA SenderKnown ==
  ASSUME LossyInv
  PROVE  /\ rPc \in {"closed", "opening"} => sPc \in {"closed", "handshake"}
         /\ rPc = "reading" /\ sPc = "send" => /\ msg \in Len(accepted) .. Len(accepted) + 1
                                               /\ BitOf(msg) = s_ctrl
<1>1. UaSpent \in {0, 1} /\ Greeted \in {0, 1} /\ Uas(sIn) \in Nat /\ Uas(rOut) \in Nat /\ UaBalance
  BY LossyKnown, UaTerms
<1>2. rPc \in {"closed", "opening"} => sPc \in {"closed", "handshake"}
  BY <1>1 DEF UaBalance, UaSpent, Greeted
<1>3. ASSUME rPc = "reading", sPc = "send"
      PROVE  msg \in Len(accepted) .. Len(accepted) + 1 /\ BitOf(msg) = s_ctrl
  <2>1. /\ acked \in Nat /\ Len(accepted) \in Nat /\ Count(sIn) \in Nat /\ Count(rOut) \in Nat
        /\ Opened = 1 /\ Pending = 0 /\ Greeted = 1 /\ Dying = 0 /\ Balance
    BY <1>3, LossyKnown, Terms DEF Opened, Pending, Greeted, Dying
  <2>2. acked <= Len(accepted)
    BY <2>1 DEF Balance
  <2>3. msg = acked + 1 /\ s_ctrl = acked % 2
    BY <1>3, LossyKnown DEF MsgFollows, Disconnected, SenderBit
  <2>4. Len(accepted) <= msg
    BY <1>3 DEF LossyInv
  <2>5. BitOf(msg) = s_ctrl
    <3>1. (acked + 1) - 1 = acked
      BY <2>1
    <3> QED
      BY <2>3, <3>1 DEF BitOf
  <2> QED
    BY <2>1, <2>2, <2>3, <2>4, <2>5
<1> QED
  BY <1>2, <1>3

\* main never goes back to an earlier message.
LEMMA MessagesFollow ==
  ASSUME LossyInv, SenderStep
  PROVE  msg <= msg'
<1>1. msg \in Int /\ msg <= msg /\ msg <= msg + 1
  BY LossyKnown
<1>2. msg' = msg \/ msg' = msg + 1
  BY DEF SenderStep, s_llopen, s_handshake, s_send_data, SelectReady, SelectTimeout, GiveUp,
         LlwriteReturns, Sleep, s_disconnect, s_receive, AnswerByte, TwoFlags, UnknownControl,
         AnswerEnd, Return
<1> QED
  BY <1>1, <1>2

(***************************************************************************)
(* What the transmitter does to the line while the receiver reads.         *)
(***************************************************************************)
LEMMA SenderWrites ==
  ASSUME LossyInv, SenderStep, rPc = "reading"
  PROVE  /\ rIn' = rIn /\ sPc' # "closed" /\ msg <= msg' /\ (sPc \in Left => sPc' \in Left)
         /\ \/ sOut' = sOut
            \/ /\ sPc = "send" /\ sPc' = "select" /\ msg' = msg
               /\ sOut' = sOut \o DataFrame(Message(msg), s_ctrl)
            \/ sPc = "close" /\ sPc' = "disc" /\ msg' = msg /\ sOut' = sOut \o DiscFrame
<1>1. /\ sPc # "closed" /\ msg \in 1 .. Len(File) + 1 /\ Len(File) \in Nat /\ msg \in Int
      /\ (DiscSent => Disconnected)
  BY LossyKnown DEF LossyInv
<1>2. ~DiscSent
  BY <1>1 DEF Disconnected
<1>3. msg <= msg
  BY <1>1
<1>4. CASE s_handshake
  BY <1>1, <1>3, <1>4 DEF s_handshake, Left
<1>5. CASE s_send_data
  BY <1>1, <1>3, <1>5 DEF s_send_data, Left
<1>6. ASSUME NEW ok \in BOOLEAN, LlwriteReturns(ok)
      PROVE  sPc' \in {"send", "close"} /\ msg <= msg'
  BY <1>1, <1>6 DEF LlwriteReturns
<1>7. CASE SelectReady \/ SelectTimeout
  BY <1>1, <1>3, <1>6, <1>7 DEF SelectReady, SelectTimeout, GiveUp, Left, wire
<1>8. CASE Sleep
  BY <1>1, <1>3, <1>8 DEF Sleep, Left, wire
<1>9. CASE s_disconnect
  BY <1>1, <1>3, <1>9 DEF s_disconnect, DiscFrame, Left
<1>10. CASE s_receive
  <2>1. ASSUME NEW c, c # DISC, Return(c), Receiving
        PROVE  /\ sPc' # "closed" /\ msg <= msg' /\ (sPc \in Left => sPc' \in Left)
               /\ sOut' = sOut
    <3>1. CASE sPc = "answer"
      BY <1>3, <1>6, <2>1, <3>1 DEF Return, Left
    <3>2. CASE sPc = "disc"
      BY <1>3, <2>1, <3>2 DEF Return, Left, IsDisc, CloseResult
    <3> QED
      BY <2>1, <3>1, <3>2 DEF Receiving
  <2>2. CASE AnswerByte
    BY <1>1, <1>3, <2>2 DEF AnswerByte
  <2>3. CASE TwoFlags
    BY <2>1, <2>3 DEF TwoFlags, DISC
  <2>4. CASE UnknownControl
    BY <1>1, <1>3, <2>4 DEF UnknownControl, Left
  <2>5. CASE AnswerEnd
    <3>1. ans.control # DISC
      BY <1>2 DEF DiscSent
    <3>2. Receiving /\ rIn' = rIn /\ (Return(ans.control) \/ Return(-1))
      BY <2>5 DEF AnswerEnd
    <3> QED
      BY <2>1, <3>1, <3>2 DEF DISC
  <2> QED
    BY <1>10, <2>2, <2>3, <2>4, <2>5 DEF s_receive
<1> QED
  BY <1>1, <1>4, <1>5, <1>7, <1>8, <1>9, <1>10 DEF SenderStep, s_llopen

(***************************************************************************)
(* Every step of the transmitter.                                          *)
(***************************************************************************)
LEMMA LossySender ==
  ASSUME LossyInv, NumberInv', SenderStep
  PROVE  LossyInv'
<1>1. UNCHANGED receiver /\ UNCHANGED << rPc, STOP, hs, current_ctrl, accepted, output >>
  BY SenderDoes DEF receiver
<1>2. /\ Len(accepted) \in Nat /\ msg \in 1 .. Len(File) + 1 /\ Len(File) \in Nat
      /\ rIn \in Seq(Byte) /\ sOut \in Seq(Byte)
  BY LossyKnown
<1>3. msg' \in 1 .. Len(File) + 1
  BY DEF NumberInv, ClosingInv, IInv, Types, TypeOK, SenderTypeOK
<1>4. /\ BitFollows' /\ output' = Saved(Len(accepted')) /\ Len(accepted') <= Len(File) + 1
      /\ Len(accepted') <= msg'
  <2>1. /\ BitFollows' /\ output' = Saved(Len(accepted')) /\ Len(accepted') <= Len(File) + 1
        /\ Len(accepted') <= msg
    BY <1>1 DEF LossyInv, BitFollows
  <2>2. Len(accepted') \in Nat /\ msg <= msg'
    BY <1>1, <1>2, MessagesFollow
  <2> QED
    BY <1>2, <1>3, <2>1, <2>2
<1>5. ASSUME rPc' \in {"closed", "opening"} PROVE Greets'
  <2>1. Greets /\ sPc \in {"closed", "handshake"} /\ Progress' = Progress
    BY <1>1, <1>5, SenderKnown DEF LossyInv, Progress
  <2>2. CASE sPc = "closed"
    <3>1. s_llopen
      BY <2>2, SenderDoes
    <3>2. sOut' = SetFrame /\ rIn' = rIn /\ sPc' = "handshake"
      BY <3>1 DEF s_llopen, SetFrame
    <3>3. Len(SetFrame) = 5
      <4>1. SET \in Byte /\ SenderAddress \in {SenderAddress, ReceiverAddress}
        BY Controls
      <4> QED
        BY <4>1, SupervisionRest DEF SetFrame
    <3>4. rIn = << >> /\ hs = "S" /\ Progress = 0
      BY <2>1, <2>2 DEF Greets, Progress
    <3>5. Len(rIn') + Len(sOut') + Progress' <= 5
      BY <2>1, <3>2, <3>3, <3>4
    <3> QED
      BY <1>1, <2>1, <3>2, <3>5 DEF Greets
  <2>3. CASE sPc = "handshake"
    <3>1. s_handshake
      BY <2>3, SenderDoes
    <3>2. sOut' = sOut /\ rIn' = rIn /\ sPc' # "closed"
      BY <2>3, <3>1 DEF s_handshake
    <3> QED
      BY <1>1, <2>1, <3>2 DEF Greets
  <2> QED
    BY <2>1, <2>2, <2>3
<1>6. ASSUME rPc' = "reading"
      PROVE  Len(accepted') <= Len(File) /\ sPc' # "closed" /\ Pipeline'
  <2>1. /\ Len(accepted) <= Len(File) /\ Len(accepted) <= msg /\ Pipeline /\ rPc = "reading"
    BY <1>1, <1>6 DEF LossyInv
  <2>2. Numbers
    BY <1>2, <1>3 DEF Numbers
  <2>3. rIn' = rIn /\ sPc' # "closed" /\ msg <= msg' /\ (sPc \in Left => sPc' \in Left)
    BY <2>1, SenderWrites
  <2>4. ASSUME sOut' = sOut PROVE Pipeline'
    BY <1>1, <2>1, <2>2, <2>3, <2>4, PipelineStays
  <2>5. ASSUME sPc = "send", sPc' = "select", msg' = msg,
               sOut' = sOut \o DataFrame(Message(msg), s_ctrl)
        PROVE  Pipeline'
    <3>1. msg \in Len(accepted) .. Len(accepted) + 1 /\ BitOf(msg) = s_ctrl
      BY <2>1, <2>5, SenderKnown
    <3>2. msg \in 1 .. Bye /\ msg # Bye
      BY <1>2 DEF Bye
    <3>3. Wagon(msg) = DataFrame(Message(msg), s_ctrl)
      BY <3>1, <3>2 DEF Wagon
    <3>4. PICK m \in 1 .. Bye : m = msg
      BY <3>2
    <3>5. sOut' = sOut \o Wagon(m) /\ sPc \notin Left
      BY <2>5, <3>3, <3>4 DEF Left
    <3> QED
      BY <1>1, <2>1, <2>2, <2>3, <2>5, <3>1, <3>4, <3>5, PipelineWritten
  <2>6. ASSUME sPc = "close", sPc' = "disc", msg' = msg, sOut' = sOut \o DiscFrame
        PROVE  Pipeline'
    <3>1. PICK m \in 1 .. Bye : m = Bye
      BY <1>2 DEF Bye
    <3>2. sOut' = sOut \o Wagon(m) /\ sPc \notin Left /\ sPc' \in Left
      BY <2>6, <3>1 DEF Wagon, Left
    <3> QED
      BY <1>1, <2>1, <2>2, <2>3, <2>6, <3>1, <3>2, PipelineWritten
  <2>7. Pipeline'
    BY <2>1, <2>4, <2>5, <2>6, SenderWrites
  <2> QED
    BY <1>1, <2>1, <2>3, <2>7
<1>7. rPc' \in {"closing", "awaitUA", "done"} => Len(accepted') = Len(File) + 1
  BY <1>1 DEF LossyInv
<1> QED
  BY <1>4, <1>5, <1>6, <1>7 DEF LossyInv

-----------------------------------------------------------------------------
\* A byte takes r_handshake one state further at most.
LEMMA ProgressStep ==
  ASSUME hs \in Hunting, NEW b, hs' = r_Recognise(hs, b, SET), hs' # "Z"
  PROVE  Progress \in 0 .. 4 /\ Progress' \in 0 .. 4 /\ Progress' <= Progress + 1
<1>1. Progress \in 0 .. 4 /\ (hs = "S" => Progress = 0) /\ (hs = "F" => Progress = 1)
      /\ (hs = "A" => Progress = 2) /\ (hs = "C" => Progress = 3) /\ (hs = "B" => Progress = 4)
  BY DEF Progress, Hunting
<1>2. /\ (hs' = "S" => Progress' = 0) /\ (hs' = "F" => Progress' = 1)
      /\ (hs' = "A" => Progress' = 2) /\ (hs' = "C" => Progress' = 3) /\ (hs' = "B" => Progress' = 4)
  BY DEF Progress
<1>3. hs' = Advance(hs) \/ hs' = "S" \/ (hs' = "F" /\ hs # "S")
  BY DEF r_Recognise
<1>4. CASE hs' = Advance(hs)
  <2>1. /\ Advance("S") = "F" /\ Advance("F") = "A" /\ Advance("A") = "C"
        /\ Advance("C") = "B" /\ Advance("B") = "Z"
    BY DEF Advance
  <2>2. \/ hs = "S" /\ hs' = "F"
        \/ hs = "F" /\ hs' = "A"
        \/ hs = "A" /\ hs' = "C"
        \/ hs = "C" /\ hs' = "B"
    BY <1>4, <2>1 DEF Hunting
  <2> QED
    BY <1>1, <1>2, <2>2
<1>5. CASE hs' = "S"
  BY <1>1, <1>2, <1>5
<1>6. CASE hs' = "F" /\ hs # "S"
  BY <1>1, <1>2, <1>6 DEF Hunting
<1> QED
  BY <1>3, <1>4, <1>5, <1>6

\* Nothing is on its way, and the parser waits for the first frame.
LEMMA PipelineEmpty ==
  ASSUME Ready', rIn' = << >>, sOut' = << >>
  PROVE  Pipeline'
<1>1. << >> \in Seq(Tokens) /\ << >> \in Seq(Byte)
  OBVIOUS
<1>2. PICK e \in Seq(Tokens), y \in Seq(Byte) : e = << >> /\ y = << >> /\ Len(e) = 0
  BY <1>1
<1>3. (e \o e) \o e = e
  BY <1>2, ConcatNothing
<1>4. Fits(e)'
  BY <1>2 DEF Fits
<1>5. Train(e) = y /\ y \o Train(e) = y
  BY <1>2, TrainShort, ConcatNothing
<1>6. Reader(e, y)' /\ Fits((e \o e) \o e)' /\ rIn' = y \o Train(e) /\ sOut' = Train(e)
  BY <1>2, <1>3, <1>4, <1>5 DEF Reader
<1>7. \A i \in 1 .. Len(e) : ~e[i].noisy
  BY <1>2
<1> QED
  BY <1>6, <1>7 DEF Pipeline

(***************************************************************************)
(* The receiver is opened and greeted.                                     *)
(***************************************************************************)
LEMMA LossyGreeted ==
  ASSUME LossyInv, NumberInv', BitFollows', UNCHANGED sender, r_llopen \/ r_handshake
  PROVE  LossyInv'
<1>1. /\ hs \in Hunting /\ rIn \in Seq(Byte) /\ sOut \in Seq(Byte) /\ Len(File) \in Nat
      /\ msg \in 1 .. Len(File) + 1
  BY LossyKnown
<1>2. Greets /\ rPc \in {"closed", "opening"} /\ output = Saved(Len(accepted))
      /\ accepted' = accepted /\ output' = output /\ sOut' = sOut
  BY DEF LossyInv, r_llopen, r_handshake, Unrecognised, Recognised
<1>3. sPc' = sPc /\ msg' = msg
  BY DEF sender
<1>4. accepted = << >> /\ ~STOP /\ Len(rIn) + Len(sOut) + Progress <= 5
      /\ (sPc = "closed" => rIn = << >> /\ sOut = << >> /\ hs = "S")
  BY <1>2 DEF Greets
<1>5. output' = Saved(Len(accepted')) /\ Len(accepted') = 0 /\ 0 <= Len(File) /\ 0 <= msg'
  BY <1>1, <1>2, <1>3, <1>4
<1>6. Len(rIn) \in Nat /\ Len(sOut) \in Nat
  BY <1>1
<1>7. CASE r_llopen
  <2>1. rIn' = << >> /\ Len(rIn') = 0 /\ rPc' = "opening" /\ STOP' = STOP /\ hs' = hs
    BY <1>7 DEF r_llopen
  <2>2. Progress' = Progress
    BY <2>1 DEF Progress
  <2>3. Progress \in 0 .. 4
    BY <1>1 DEF Progress, Hunting
  <2>4. Len(rIn') + Len(sOut') + Progress' <= 5
    BY <1>2, <1>4, <1>6, <2>1, <2>2, <2>3
  <2>5. Greets'
    BY <1>2, <1>3, <1>4, <2>1, <2>4 DEF Greets
  <2> QED
    BY <1>1, <1>5, <2>1, <2>5 DEF LossyInv
<1>8. CASE Unrecognised("opening", SET)
  <2>1. PICK b \in Input : hs' = r_Recognise(hs, b, SET) /\ hs' # "Z" /\ Consume(FALSE)
    BY <1>8 DEF Unrecognised
  <2>2. rIn # << >> /\ rIn' = Tail(rIn) /\ STOP' = FALSE /\ rPc' = "opening"
    BY <1>4, <1>8, <2>1 DEF Unrecognised, Input, Consume
  <2>3. Len(rIn') = Len(rIn) - 1
    BY <1>1, <2>2
  <2>4. Progress \in 0 .. 4 /\ Progress' \in 0 .. 4 /\ Progress' <= Progress + 1
    BY <1>1, <2>1, ProgressStep
  <2>5. Len(rIn') + Len(sOut') + Progress' <= 5
    BY <1>2, <1>4, <1>6, <2>3, <2>4
  <2>6. Greets'
    BY <1>2, <1>3, <1>4, <2>2, <2>5 DEF Greets
  <2> QED
    BY <1>1, <1>5, <2>2, <2>6 DEF LossyInv
<1>9. CASE /\ Recognised("opening", SET, Supervision(SenderAddress, UA), "reading")
           /\ NewParser
  <2>1. PICK b \in Input : r_Recognise(hs, b, SET) = "Z" /\ Consume(TRUE)
    BY <1>9 DEF Recognised
  <2>2. rIn # << >> /\ rIn' = Tail(rIn) /\ rPc' = "reading"
    BY <1>4, <1>9, <2>1 DEF Recognised, Input, Consume
  <2>3. hs = "B"
    BY <1>1, <2>1 DEF r_Recognise, Advance, Hunting
  <2>4. Progress = 4
    BY <2>3 DEF Progress
  <2>5. Len(rIn) = 1 /\ Len(sOut) = 0
    <3>1. Len(rIn) # 0
      BY <1>1, <2>2
    <3>2. Len(rIn) + Len(sOut) + 4 <= 5
      BY <1>4, <2>4
    <3> QED
      BY <1>6, <3>1, <3>2
  <2>6. rIn' = << >> /\ sOut' = << >>
    BY <1>1, <1>2, <2>2, <2>5
  <2>7. Ready'
    BY <1>9, <2>2, NewParserReady
  <2>8. Pipeline' /\ sPc' # "closed"
    BY <1>3, <1>4, <2>2, <2>6, <2>7, PipelineEmpty
  <2> QED
    BY <1>1, <1>5, <2>2, <2>8 DEF LossyInv
<1> QED
  BY <1>7, <1>8, <1>9 DEF r_handshake

(***************************************************************************)
(* A message is accepted: it is the next one, and its chunk is saved.      *)
(***************************************************************************)
LEMMA LossyAccept ==
  ASSUME LossyInv, NumberInv', BitFollows', UNCHANGED sender, rPc = "reading",
         NEW m \in 1 .. Len(File) + 1, m = Len(accepted) + 1, m <= msg,
         Accept, dp.data = Sealed(Message(m)), rPc' = "reading" => Pipeline'
  PROVE  LossyInv'
<1>1. /\ Len(accepted) \in Nat /\ Len(File) \in Nat /\ accepted \in Seq(Seq(Byte))
      /\ Len(accepted) <= Len(File) /\ sPc # "closed" /\ output = Saved(Len(accepted))
  BY LossyKnown DEF LossyInv
<1>2. sPc' = sPc /\ msg' = msg
  BY DEF sender
<1>3. PICK n \in 0 .. Len(File) : n = Len(accepted) /\ m = n + 1 /\ n + 1 <= msg
  BY <1>1
<1>4. PICK p \in Seq(Byte) : p = Message(m) /\ p # << >>
  BY MessageParts
<1>5. /\ accepted' = Append(accepted, Sealed(p))
      /\ output' = IF p[1] = 1 THEN output \o Tail(p) ELSE output
      /\ IF p[1] = 0 THEN rPc' = "closing" ELSE rPc' = "reading"
  BY <1>4, AcceptEffect
<1>6. /\ m <= Len(File) => p[1] = 1 /\ Tail(p) = File[m]
      /\ ~(m <= Len(File)) => p[1] = 0
  BY <1>4, MessageParts
<1>7. Len(accepted') = n + 1
  <2>1. Sealed(p) \in Seq(Byte)
    BY SealedBytes
  <2>2. Len(Append(accepted, Sealed(p))) = Len(accepted) + 1
    BY <1>1, <2>1
  <2> QED
    BY <1>3, <1>5, <2>2
<1>8. Saved(n + 1) = IF n + 1 <= Len(File) THEN Saved(n) \o File[n + 1] ELSE Saved(n)
  BY SavedGrows
<1>9. output = Saved(n)
  BY <1>1, <1>3
<1>10. output' = IF p[1] = 1 THEN output \o Tail(p) ELSE output
  BY <1>5, Zenon
<1>11. IF p[1] = 0 THEN rPc' = "closing" ELSE rPc' = "reading"
  BY <1>5, Zenon
<1>12. CASE m <= Len(File)
  <2>1. p[1] = 1 /\ p[1] # 0 /\ Tail(p) = File[m]
    BY <1>6, <1>12
  <2>2. output' = Saved(n) \o File[m]
    BY <1>9, <1>10, <2>1, Zenon
  <2>3. Saved(n + 1) = Saved(n) \o File[m]
    BY <1>3, <1>8, <1>12
  <2>4. rPc' = "reading"
    BY <1>11, <2>1, Zenon
  <2>5. output' = Saved(Len(accepted'))
    BY <1>7, <2>2, <2>3
  <2>6. Len(accepted') <= Len(File) /\ Len(accepted') <= msg' /\ Len(accepted') <= Len(File) + 1
    BY <1>1, <1>2, <1>3, <1>7, <1>12
  <2> QED
    BY <1>1, <1>2, <2>4, <2>5, <2>6 DEF LossyInv
<1>13. CASE ~(m <= Len(File))
  <2>1. p[1] = 0 /\ p[1] # 1
    BY <1>6, <1>13
  <2>2. output' = Saved(n)
    BY <1>9, <1>10, <2>1, Zenon
  <2>3. Saved(n + 1) = Saved(n)
    BY <1>3, <1>8, <1>13
  <2>4. rPc' = "closing"
    BY <1>11, <2>1, Zenon
  <2>5. output' = Saved(Len(accepted'))
    BY <1>7, <2>2, <2>3
  <2>6. /\ Len(accepted') = Len(File) + 1 /\ Len(accepted') <= Len(File) + 1
        /\ Len(accepted') <= msg'
    BY <1>1, <1>2, <1>3, <1>7, <1>13
  <2> QED
    BY <2>4, <2>5, <2>6 DEF LossyInv
<1> QED
  BY <1>12, <1>13

(***************************************************************************)
(* Every step of the receiver.                                             *)
(***************************************************************************)
LEMMA LossyReceiver ==
  ASSUME LossyInv, NumberInv', ReceiverStep
  PROVE  LossyInv'
<1>1. /\ ReceiverNext /\ UNCHANGED sender /\ Types /\ BitFollows /\ PortTypeOK /\ WireTypeOK
      /\ accepted \in Seq(Seq(Byte)) /\ Len(accepted) \in Nat /\ Len(File) \in Nat
      /\ msg \in 1 .. Len(File) + 1
  BY LossyKnown DEF LossyInv, ReceiverStep
<1>2. BitFollows' /\ msg' = msg /\ sPc' = sPc
  BY <1>1, BitStep DEF sender
<1>3. ASSUME accepted' = accepted, output' = output, rPc' = "crashed"
      PROVE  LossyInv'
  BY <1>2, <1>3 DEF LossyInv
<1>4. CASE rPc \in {"closed", "opening"}
  <2>1. r_llopen \/ r_handshake
    BY <1>1, <1>4, ReceiverDoes
  <2> QED
    BY <1>1, <1>2, <2>1, LossyGreeted
<1>5. CASE rPc = "reading"
  <2>1. Reads /\ Pipeline /\ current_ctrl = Len(accepted) % 2
    BY <1>1, <1>5, ReceiverDoes DEF LossyInv, BitFollows
  <2>2. Numbers
    BY <1>1, <1>2 DEF Numbers
  <2>3. \/ Step(dp') /\ Pipeline'
        \/ Crash
        \/ \E m \in 1 .. Len(File) + 1 :
             /\ m = Len(accepted) + 1 /\ m <= msg
             /\ Accept /\ dp.data = Sealed(Message(m))
             /\ rPc' = "reading" => Pipeline'
    BY <1>1, <2>1, <2>2, PipelineRead
  <2>4. CASE Step(dp') /\ Pipeline'
    <3>1. accepted' = accepted /\ output' = output /\ rPc' = rPc
      BY <2>4, StepEffect
    <3> QED
      BY <1>2, <1>5, <2>4, <3>1 DEF LossyInv
  <2>5. CASE Crash
    <3>1. accepted' = accepted /\ output' = output /\ rPc' = "crashed"
      BY <2>5 DEF Crash
    <3> QED
      BY <1>3, <3>1
  <2>6. CASE \E m \in 1 .. Len(File) + 1 :
               /\ m = Len(accepted) + 1 /\ m <= msg
               /\ Accept /\ dp.data = Sealed(Message(m))
               /\ rPc' = "reading" => Pipeline'
    BY <1>1, <1>2, <1>5, <2>6, LossyAccept
  <2> QED
    BY <2>3, <2>4, <2>5, <2>6
<1>6. CASE rPc \in {"closing", "awaitUA"}
  <2>1. r_disconnect \/ r_verify_if_ua_received
    BY <1>1, <1>6, ReceiverDoes
  <2>2. accepted' = accepted /\ output' = output /\ rPc' \in {"closing", "awaitUA", "done"}
    BY <2>1 DEF r_disconnect, r_verify_if_ua_received, Unrecognised, Recognised
  <2> QED
    BY <1>2, <1>6, <2>2 DEF LossyInv
<1> QED
  BY <1>1, <1>4, <1>5, <1>6, ReceiverDoes

-----------------------------------------------------------------------------
\* A read of the cable never makes more of what it has read.
LEMMA CarriedLength ==
  ASSUME connection \in Modes, NEW chunk \in Seq(Byte), chunk # << >>
  PROVE  Len(Carried(chunk)) \in 0 .. Len(chunk)
<1>1. connection \in {"on", "off", "noise"} /\ Len(chunk) \in Nat
  BY CableAssumption
<1>2. CASE connection = "on"
  BY <1>1, <1>2 DEF Carried
<1>3. CASE connection = "off"
  BY <1>1, <1>3 DEF Carried
<1>4. CASE connection = "noise"
  <2>1. PICK b : b = Xor(chunk[1], 255)
    OBVIOUS
  <2>2. Carried(chunk) = [ chunk EXCEPT ![1] = b ]
    BY <1>4, <2>1, Zenon DEF Carried
  <2>3. Len([ chunk EXCEPT ![1] = b ]) = Len(chunk)
    OBVIOUS
  <2> QED
    BY <1>1, <2>2, <2>3
<1> QED
  BY <1>1, <1>2, <1>3, <1>4

\* So less is on the line to the receiver, and what it reads is of that line.
LEMMA CarriesLess ==
  ASSUME Types, TxToRx
  PROVE  Len(rIn') + Len(sOut') <= Len(rIn) + Len(sOut) /\ sOut # << >>
<1>1. rIn \in Seq(Byte) /\ sOut \in Seq(Byte) /\ connection \in Modes
  BY DEF Types, TypeOK, WireTypeOK, CableTypeOK
<1>2. PICK n \in 1 .. Len(sOut) :
        /\ sOut' = SubSeq(sOut, n + 1, Len(sOut))
        /\ rIn' = rIn \o Carried(SubSeq(sOut, 1, n))
  BY DEF TxToRx
<1>3. PICK chunk \in Seq(Byte) : chunk = SubSeq(sOut, 1, n) /\ Len(chunk) = n /\ chunk # << >>
  <2>1. SubSeq(sOut, 1, n) \in Seq(Byte) /\ Len(SubSeq(sOut, 1, n)) = n
    BY <1>1
  <2>2. SubSeq(sOut, 1, n) # << >>
    BY <2>1
  <2> QED
    BY <2>1, <2>2
<1>4. PICK more \in Seq(Byte) : more = Carried(chunk) /\ Len(more) \in 0 .. n
  BY <1>1, <1>3, CarriedType, CarriedLength
<1>5. Len(rIn \o more) = Len(rIn) + Len(more) /\ Len(rIn) \in Nat
  BY <1>1, ConcatAt
<1>6. Len(sOut') = Len(sOut) - n /\ Len(sOut) \in Nat /\ sOut # << >>
  BY <1>1, <1>2
<1>7. rIn' = rIn \o more
  BY <1>2, <1>3, <1>4
<1>8. Len(rIn') = Len(rIn) + Len(more)
  BY <1>5, <1>7
<1>9. Len(rIn) + Len(more) + (Len(sOut) - n) <= Len(rIn) + Len(sOut)
  BY <1>4, <1>5, <1>6
<1>10. Len(rIn') + Len(sOut') <= Len(rIn) + Len(sOut)
  BY <1>6, <1>8, <1>9
<1> QED
  BY <1>6, <1>10

(***************************************************************************)
(* Every step of the cable, when a read takes all that was written.        *)
(***************************************************************************)
LEMMA LossyCable ==
  ASSUME LossyInv, NumberInv', CableStep, ~Partial, Len(sOut) <= CableBuffer
  PROVE  LossyInv'
<1>1. /\ CableNext /\ UNCHANGED << sender, receiver >>
      /\ UNCHANGED << sPc, msg, rPc, STOP, hs, current_ctrl, accepted, output >>
  BY DEF CableStep, sender, receiver
<1>2. /\ Types /\ Len(accepted) \in Nat /\ msg \in 1 .. Len(File) + 1 /\ Len(File) \in Nat
      /\ rIn \in Seq(Byte) /\ sOut \in Seq(Byte) /\ CableTypeOK
  BY LossyKnown
<1>3. BitFollows' /\ Progress' = Progress
  BY <1>1 DEF LossyInv, BitFollows, Progress
<1>4. Numbers /\ msg <= msg'
  BY <1>1, <1>2 DEF Numbers
<1>5. (rIn' = rIn /\ sOut' = sOut) \/ TxToRx
  BY <1>1 DEF CableNext, Press, RxToTx, wire
<1>6. ASSUME rPc = "reading", Pipeline PROVE Pipeline'
  <2>1. CASE rIn' = rIn /\ sOut' = sOut
    BY <1>1, <1>4, <1>6, <2>1, PipelineStays
  <2>2. CASE TxToRx
    BY <1>1, <1>2, <1>4, <1>6, <2>2, PipelineCarried
  <2> QED
    BY <1>5, <2>1, <2>2
<1>7. ASSUME Greets PROVE Greets'
  <2>1. CASE rIn' = rIn /\ sOut' = sOut
    BY <1>1, <1>3, <1>7, <2>1 DEF Greets
  <2>2. CASE TxToRx
    <3>1. Len(rIn') + Len(sOut') <= Len(rIn) + Len(sOut) /\ sOut # << >>
      BY <1>2, <2>2, CarriesLess
    <3>2. Len(rIn) + Len(sOut) + Progress <= 5 /\ sPc # "closed"
      BY <1>7, <3>1 DEF Greets
    <3>3. Progress \in 0 .. 4
      BY LossyKnown DEF Progress, Hunting
    <3>4. Len(rIn) \in Nat /\ Len(sOut) \in Nat /\ Len(rIn') \in Nat /\ Len(sOut') \in Nat
      <4>1. rIn' \in Seq(Byte) /\ sOut' \in Seq(Byte)
        BY DEF NumberInv, ClosingInv, IInv, Types, TypeOK, WireTypeOK
      <4> QED
        BY <1>2, <4>1
    <3>5. Len(rIn') + Len(sOut') + Progress' <= 5
      BY <1>3, <3>1, <3>2, <3>3, <3>4
    <3> QED
      BY <1>1, <1>7, <3>2, <3>5 DEF Greets
  <2> QED
    BY <1>5, <2>1, <2>2
<1> QED
  BY <1>1, <1>3, <1>6, <1>7 DEF LossyInv

\* It holds at first.
LEMMA LossyInit == Init => LossyInv
<1> SUFFICES ASSUME Init PROVE LossyInv
  OBVIOUS
<1>1. /\ rIn = << >> /\ sOut = << >> /\ sPc = "closed" /\ rPc = "closed" /\ hs = "S" /\ STOP = FALSE
      /\ accepted = << >> /\ output = << >> /\ current_ctrl = 0
  BY DEF Init, WireInit, SenderInit, ReceiverInit
<1>2. Len(accepted) = 0 /\ Len(File) \in Nat /\ Len(rIn) = 0 /\ Len(sOut) = 0 /\ Progress = 0
  BY <1>1, SenderAssumption DEF Progress
<1>3. /\ output = Saved(Len(accepted)) /\ Len(accepted) <= Len(File) + 1 /\ Len(accepted) <= msg
  <2>1. msg = 1
    BY DEF Init, SenderInit
  <2> QED
    BY <1>1, <1>2, <2>1, SavedNothing
<1>4. Greets /\ BitFollows
  BY <1>1, <1>2 DEF Greets, BitFollows
<1> QED
  BY <1>1, <1>3, <1>4, NumberInit DEF LossyInv

(***************************************************************************)
(* Every step of the system keeps it, while a read of the cable takes all  *)
(* that was written.                                                       *)
(***************************************************************************)
LEMMA LossyNext ==
  ASSUME ~Partial
  PROVE  LossyInv /\ Len(sOut) <= CableBuffer /\ [Next]_vars => LossyInv'
<1> SUFFICES ASSUME LossyInv, Len(sOut) <= CableBuffer, [Next]_vars PROVE LossyInv'
  OBVIOUS
<1>1. NumberInv'
  BY NumberNext DEF LossyInv
<1>2. CASE SenderStep
  BY <1>1, <1>2, LossySender
<1>3. CASE ReceiverStep
  BY <1>1, <1>3, LossyReceiver
<1>4. CASE CableStep
  BY <1>1, <1>4, LossyCable
<1>5. CASE UNCHANGED vars
  <2>1. /\ UNCHANGED << sPc, msg, rPc, STOP, hs, current_ctrl, accepted, output >>
        /\ UNCHANGED receiver /\ rIn' = rIn /\ sOut' = sOut
    BY <1>5 DEF vars, sender, receiver, wire
  <2>2. Numbers /\ msg <= msg'
    BY <2>1, LossyKnown DEF Numbers
  <2>3. Pipeline => Pipeline'
    BY <2>1, <2>2, PipelineStays
  <2>4. Progress' = Progress
    BY <2>1 DEF Progress
  <2>5. (Greets => Greets') /\ (BitFollows => BitFollows')
    BY <2>1, <2>4 DEF Greets, BitFollows
  <2> QED
    BY <1>1, <2>1, <2>3, <2>5 DEF LossyInv
<1> QED
  BY <1>2, <1>3, <1>4, <1>5 DEF Next, Terminated

\* A success is one of the whole file.
SuccessIsWhole == sPc = "success" \/ rPc = "done" => output = Transfer!Whole

\* So the invariant says.
LEMMA LossyWhole ==
  ASSUME LossyInv
  PROVE  SuccessIsWhole
<1> SUFFICES ASSUME sPc = "success" \/ rPc = "done" PROVE output = Transfer!Whole
  BY DEF SuccessIsWhole
<1>1. rPc \in {"awaitUA", "done"}
  BY LossyKnown DEF DiscSent, Disconnected
<1>2. Len(accepted) = Len(File) + 1 /\ Len(File) \in Nat /\ output = Saved(Len(accepted))
  BY <1>1, LossyKnown DEF LossyInv
<1>3. output = Transfer!UpTo(Len(File))
  BY <1>2 DEF Saved
<1> QED
  BY <1>3 DEF Transfer!Whole

(***************************************************************************)
(* The pair of programs implements the abstract transfer of the file on a  *)
(* cable that may drop what it reads or flip its first byte, at any time   *)
(* and any number of times, and however early select gives up: the file    *)
(* grows by whole chunks, in order and each once, and nobody succeeds      *)
(* without the whole of it.  The cable program must take with each read    *)
(* all that was written, and that must fit its buffer: then a read never   *)
(* divides a frame.                                                        *)
(***************************************************************************)
THEOREM ImplementsDisturbed ==
  ASSUME ~Partial
  PROVE  Spec /\ [](Len(sOut) <= CableBuffer) => ImplementsTransfer
<1>1. Init => Transfer!Init
  <2> SUFFICES ASSUME Init PROVE Transfer!Init
    OBVIOUS
  <2>1. sPc = "closed" /\ rPc = "closed" /\ output = << >>
    BY DEF Init, SenderInit, ReceiverInit
  <2> QED
    BY <2>1 DEF Transfer!Init, Outcome
<1>2. LossyInv => SuccessIsWhole
  BY LossyWhole
<1>3. LossyInv' => SuccessIsWhole'
  BY <1>2, PTL
<1>4. ASSUME LossyInv, LossyInv', [Next]_vars
      PROVE  [Transfer!Next]_Transfer!vars
  <2> DEFINE sent == Outcome(sPc = "success", sPc \in {"failure", "exited"})
             received == Outcome(rPc = "done", rPc = "crashed")
  <2>1. SuccessIsWhole'
    BY <1>3, <1>4
  <2>2. /\ sent = IF sPc = "success" THEN "success"
                  ELSE IF sPc \in {"failure", "exited"} THEN "failure" ELSE "running"
        /\ sent' = IF sPc' = "success" THEN "success"
                   ELSE IF sPc' \in {"failure", "exited"} THEN "failure" ELSE "running"
        /\ received = IF rPc = "done" THEN "success"
                      ELSE IF rPc = "crashed" THEN "failure" ELSE "running"
        /\ received' = IF rPc' = "done" THEN "success"
                       ELSE IF rPc' = "crashed" THEN "failure" ELSE "running"
    BY DEF Outcome
  <2>3. /\ Transfer!vars = << output, sent, received >>
        /\ Transfer!vars' = << output', sent', received' >>
    BY DEF Transfer!vars
  <2>4. Transfer!Deliver <=>
          /\ received = "running"
          /\ \E i \in 1 .. Len(File) : output = Transfer!UpTo(i - 1) /\ output' = Transfer!UpTo(i)
          /\ UNCHANGED << sent, received >>
    BY DEF Transfer!Deliver
  <2>5. Transfer!SendEnds <=>
          /\ sent = "running" /\ sent' \in {"success", "failure"}
          /\ sent' = "success" => output = Transfer!Whole
          /\ UNCHANGED << output, received >>
    BY DEF Transfer!SendEnds
  <2>6. Transfer!ReceiveEnds <=>
          /\ received = "running" /\ received' \in {"success", "failure"}
          /\ received' = "success" => output = Transfer!Whole
          /\ UNCHANGED << output, sent >>
    BY DEF Transfer!ReceiveEnds
  <2> HIDE DEF sent, received
  <2>7. CASE SenderStep
    <3>1. rPc' = rPc /\ output' = output
      BY <2>7, SenderDoes DEF receiver
    <3>2. received' = received /\ sent = "running"
      <4>1. sPc \notin {"success", "failure", "exited"}
        BY <2>7, SenderDoes
      <4> QED
        BY <2>2, <3>1, <4>1
    <3>3. sent' = "success" => output = Transfer!Whole
      BY <2>1, <2>2, <3>1 DEF SuccessIsWhole
    <3>4. sent' \in {"success", "failure", "running"}
      BY <2>2
    <3>5. CASE sent' \in {"success", "failure"}
      BY <2>5, <3>1, <3>2, <3>3, <3>5 DEF Transfer!Next
    <3>6. CASE sent' = "running"
      BY <2>3, <3>1, <3>2, <3>6
    <3> QED
      BY <3>4, <3>5, <3>6
  <2>8. CASE ReceiverStep
    <3>1. ReceiverNext /\ sPc' = sPc
      BY <2>8 DEF ReceiverStep, sender
    <3>2. sent' = sent /\ received = "running"
      <4>1. rPc \notin {"done", "crashed"}
        BY <3>1, ReceiverDoes
      <4> QED
        BY <2>2, <3>1, <4>1
    <3>3. received' = "success" => output' = Transfer!Whole
      BY <2>1, <2>2 DEF SuccessIsWhole
    <3>4. received' \in {"success", "failure", "running"}
      BY <2>2
    <3>5. CASE output' = output /\ received' \in {"success", "failure"}
      BY <2>6, <3>2, <3>3, <3>5 DEF Transfer!Next
    <3>6. CASE output' = output /\ received' = "running"
      BY <2>3, <3>2, <3>6
    <3>7. CASE output' # output
      <4>1. /\ rPc = "reading" /\ rPc' \in {"reading", "closing"}
            /\ Len(accepted') = Len(accepted) + 1
        BY <1>4, <3>1, <3>7, ReceiverGrows, LossyKnown
      <4>2. PICK n \in Nat : n = Len(accepted)
        BY <1>4, LossyKnown
      <4>3. output = Saved(n) /\ output' = Saved(n + 1)
        BY <1>4, <4>1, <4>2 DEF LossyInv
      <4>4. n + 1 \in 1 .. Len(File) /\ (n + 1) - 1 = n
        <5>1. Len(File) \in Nat
          BY SenderAssumption
        <5>2. n < Len(File)
          BY <3>7, <4>3, <5>1 DEF Saved
        <5> QED
          BY <5>1, <5>2
      <4>5. output = Transfer!UpTo(n) /\ output' = Transfer!UpTo(n + 1)
        BY <4>3, <4>4 DEF Saved
      <4>6. received' = "running"
        BY <2>2, <4>1
      <4>7. Transfer!Deliver
        BY <2>4, <3>2, <4>4, <4>5, <4>6
      <4> QED
        BY <4>7 DEF Transfer!Next
    <3> QED
      BY <3>4, <3>5, <3>6, <3>7
  <2>9. CASE CableStep \/ UNCHANGED vars
    <3>1. sPc' = sPc /\ rPc' = rPc /\ output' = output
      BY <2>9 DEF CableStep, vars, sender, receiver
    <3> QED
      BY <2>2, <2>3, <3>1
  <2> QED
    BY <1>4, <2>7, <2>8, <2>9 DEF Next, Terminated
<1>5. LossyInv /\ Len(sOut) <= CableBuffer /\ [Next]_vars => LossyInv'
  BY LossyNext
<1> QED
  BY <1>1, <1>4, <1>5, LossyInit, PTL DEF Spec, ImplementsTransfer, Transfer!Spec

-----------------------------------------------------------------------------
\* Stop and wait, while llwrite has not ended and the receiving process lives.
LEMMA LossyWaits ==
  ASSUME LossyInv
  PROVE  Writing /\ rPc # "crashed" => StopAndWait
<1> SUFFICES ASSUME Writing, rPc # "crashed" PROVE StopAndWait
  OBVIOUS
<1>1. /\ acked \in Nat /\ Len(accepted) \in Nat /\ Count(sIn) \in Nat /\ Count(rOut) \in Nat
      /\ Opened = 1 /\ Pending \in {0, 1} /\ Greeted \in {0, 1} /\ Dying = 0 /\ Balance
  BY LossyKnown, Terms DEF Opened, Writing, Dying
<1>2. acked <= Len(accepted)
  BY <1>1 DEF Balance
<1>3. msg = acked + 1 /\ Len(accepted) <= msg
  BY LossyKnown DEF MsgFollows, Writing, LossyInv
<1> QED
  BY <1>1, <1>2, <1>3 DEF StopAndWait

\* The same on a disturbed cable: llread has accepted what llwrite has
\* reported, and at most the frame that is being written besides.
THEOREM StopsAndWaitsDisturbed ==
  ASSUME ~Partial
  PROVE  Spec /\ [](Len(sOut) <= CableBuffer)
           => [](Writing /\ rPc # "crashed" => StopAndWait)
<1>1. LossyInv => (Writing /\ rPc # "crashed" => StopAndWait)
  BY LossyWaits
<1>2. LossyInv /\ Len(sOut) <= CableBuffer /\ [Next]_vars => LossyInv'
  BY LossyNext
<1> QED
  BY <1>1, <1>2, LossyInit, PTL DEF Spec

-----------------------------------------------------------------------------
\* No frame with the control field c in s: where the flag and the address of one
\* are followed by a third byte, it is not c, nor another address, on which the
\* automata of the receiver start again.
Calm(s, c) ==
  \A i \in 1 .. Len(s) - 1 :
    s[i] = FLAG /\ s[i + 1] = SenderAddress => i + 2 <= Len(s) /\ s[i + 2] \notin {c, SenderAddress}

\* No such frame is on the way to the receiver.
Quiet(c) == Calm(rIn, c) /\ Calm(sOut, c) /\ (sOut # << >> => sOut[1] = FLAG)

\* The automaton that waits for c has not got beyond an address, and will not,
\* even when it starts on an uninitialised byte that happens to be the flag.
Unmet(c) ==
  /\ hs \in {"S", "F", "A"} /\ (STOP => hs = "S")
  /\ STOP \/ hs = "F" => Calm(<< FLAG >> \o rIn, c)
  /\ hs = "A" => rIn # << >> /\ rIn[1] \notin {c, SenderAddress}

\* Until s_llclose has written its DISC, r_disconnect finds none.
Unasked ==
  /\ rPc \notin {"awaitUA", "done"} /\ Quiet(DISC)
  /\ rPc = "reading" => hs = "S" /\ (STOP => dp.st = 0)
  /\ rPc = "closing" => Unmet(DISC)

\* Until s_llclose has its answer, r_verify_if_ua_received finds no UA.
Unanswered ==
  /\ rPc # "done" /\ Quiet(UA)
  /\ rPc = "reading" => hs = "S"
  /\ rPc = "closing" /\ STOP => hs = "S"
  /\ rPc = "awaitUA" => Unmet(UA)

AgreeInv ==
  /\ NumberInv
  /\ sPc # "success" => Unanswered
  /\ sPc \notin {"disc", "success", "failure", "exited"} => Unasked

\* Two calm lines in a row are one, if the second does not start with an address.
LEMMA CalmConcat ==
  ASSUME NEW c, NEW s \in Seq(Byte), NEW t \in Seq(Byte), Calm(s, c), Calm(t, c),
         t # << >> => t[1] # SenderAddress
  PROVE  Calm(s \o t, c)
<1> DEFINE u == s \o t
<1>1. /\ Len(u) = Len(s) + Len(t) /\ Len(s) \in Nat /\ Len(t) \in Nat
      /\ \A i \in 1 .. Len(s) + Len(t) : u[i] = IF i <= Len(s) THEN s[i] ELSE t[i - Len(s)]
  BY ConcatAt
<1> HIDE DEF u
<1> SUFFICES ASSUME NEW i \in 1 .. Len(u) - 1, u[i] = FLAG, u[i + 1] = SenderAddress
             PROVE  i + 2 <= Len(u) /\ u[i + 2] \notin {c, SenderAddress}
  BY DEF Calm, u
<1>2. CASE i + 1 <= Len(s)
  <2>1. i \in 1 .. Len(s) - 1 /\ s[i] = FLAG /\ s[i + 1] = SenderAddress
    BY <1>1, <1>2
  <2>2. i + 2 <= Len(s) /\ s[i + 2] \notin {c, SenderAddress}
    BY <2>1 DEF Calm
  <2> QED
    BY <1>1, <2>2
<1>3. CASE i = Len(s)
  <2>1. u[i + 1] = t[1] /\ t # << >>
    BY <1>1, <1>3
  <2> QED
    BY <2>1
<1>4. CASE i > Len(s)
  <2>0. i - Len(s) \in 1 .. Len(t) - 1
    BY <1>1, <1>4
  <2>1. PICK j \in 1 .. Len(t) - 1 : j = i - Len(s)
    BY <2>0
  <2>2. u[i] = t[j] /\ u[i + 1] = t[j + 1]
    BY <1>1, <1>4, <2>1
  <2>3. j + 2 <= Len(t) /\ t[j + 2] \notin {c, SenderAddress}
    BY <2>1, <2>2 DEF Calm
  <2>4. u[i + 2] = t[j + 2]
    BY <1>1, <1>4, <2>1, <2>3
  <2> QED
    BY <1>1, <2>1, <2>3, <2>4
<1> QED
  BY <1>1, <1>2, <1>3, <1>4

\* What is left of a calm line is calm.
LEMMA CalmTail ==
  ASSUME NEW c, NEW s \in Seq(Byte), s # << >>, Calm(s, c)
  PROVE  Calm(Tail(s), c) /\ Tail(s) \in Seq(Byte)
<1>1. /\ Tail(s) \in Seq(Byte) /\ Len(Tail(s)) = Len(s) - 1 /\ Len(s) \in Nat
      /\ \A i \in 1 .. Len(s) - 1 : Tail(s)[i] = s[i + 1]
  OBVIOUS
<1> SUFFICES ASSUME NEW i \in 1 .. Len(Tail(s)) - 1, Tail(s)[i] = FLAG, Tail(s)[i + 1] = SenderAddress
             PROVE  i + 2 <= Len(Tail(s)) /\ Tail(s)[i + 2] \notin {c, SenderAddress}
  BY <1>1 DEF Calm
<1>2. i + 1 \in 1 .. Len(s) - 1 /\ s[i + 1] = FLAG /\ s[(i + 1) + 1] = SenderAddress
  BY <1>1
<1>3. (i + 1) + 2 <= Len(s) /\ s[(i + 1) + 2] \notin {c, SenderAddress}
  BY <1>2 DEF Calm
<1>4. Tail(s)[i + 2] = s[(i + 1) + 2]
  BY <1>1, <1>3
<1> QED
  BY <1>1, <1>3, <1>4

\* A flag that has been read is still in front of what follows it.
LEMMA FlagBefore ==
  ASSUME NEW c, NEW s \in Seq(Byte), s # << >>, s[1] = FLAG, Calm(s, c)
  PROVE  Calm(<< FLAG >> \o Tail(s), c)
<1>1. << FLAG >> \o Tail(s) = s
  <2>1. FLAG \in Byte
    BY Controls
  <2>2. PICK x \in Byte : x = FLAG
    BY <2>1
  <2>3. << x >> \o Tail(s) = s
    BY <2>2
  <2> QED
    BY <2>2, <2>3
<1> QED
  BY <1>1

\* A calm line whose first byte the cable has flipped is calm.
LEMMA CalmFlipped ==
  ASSUME NEW c, NEW s \in Seq(Byte), Calm(s, c), NEW b \in Byte, b # FLAG
  PROVE  Calm([ s EXCEPT ![1] = b ], c)
<1>1. PICK t : t = [ s EXCEPT ![1] = b ]
  OBVIOUS
<1>2. Len(t) = Len(s) /\ Len(s) \in Nat /\ \A i \in 1 .. Len(s) : t[i] = IF i = 1 THEN b ELSE s[i]
  BY <1>1
<1> SUFFICES ASSUME NEW i \in 1 .. Len(t) - 1, t[i] = FLAG, t[i + 1] = SenderAddress
             PROVE  i + 2 <= Len(t) /\ t[i + 2] \notin {c, SenderAddress}
  BY <1>1 DEF Calm
<1>3. i # 1 /\ s[i] = FLAG /\ s[i + 1] = SenderAddress
  BY <1>2
<1>4. i + 2 <= Len(s) /\ s[i + 2] \notin {c, SenderAddress}
  BY <1>2, <1>3 DEF Calm
<1> QED
  BY <1>2, <1>4

\* A frame is calm whose third byte is neither: no flag but those at its ends
\* and its check byte.
LEMMA CalmFrame ==
  ASSUME NEW c, NEW f \in Seq(Byte), Len(f) >= 5, f[3] \notin {c, SenderAddress},
         \A k \in 2 .. Len(f) - 2 : f[k] # FLAG, f[Len(f)] = FLAG
  PROVE  Calm(f, c)
<1> SUFFICES ASSUME NEW i \in 1 .. Len(f) - 1, f[i] = FLAG, f[i + 1] = SenderAddress
             PROVE  i + 2 <= Len(f) /\ f[i + 2] \notin {c, SenderAddress}
  BY DEF Calm
<1>1. Len(f) \in Nat /\ FLAG # SenderAddress
  BY DEF FLAG, SenderAddress
<1>2. i # Len(f) - 1
  BY <1>1
<1>3. i \notin 2 .. Len(f) - 2
  OBVIOUS
<1>4. i = 1
  BY <1>1, <1>2, <1>3
<1> QED
  BY <1>1, <1>4

\* The frames the transmitter writes have their own control fields and no others.
LEMMA CalmWritten ==
  ASSUME NEW c \in {UA, DISC}
  PROVE  /\ \A control \in {SET, DISC} :
              control # c => LET f == Supervision(SenderAddress, control)
                             IN  f \in Seq(Byte) /\ f # << >> /\ Calm(f, c) /\ f[1] = FLAG
         /\ \A p \in Seq(Byte), bit \in {0, 1} :
              LET f == DataFrame(p, bit)
              IN  f \in Seq(Byte) /\ f # << >> /\ Calm(f, c) /\ f[1] = FLAG
<1>1. ASSUME NEW control \in {SET, DISC}, control # c
      PROVE  LET f == Supervision(SenderAddress, control)
             IN  f \in Seq(Byte) /\ f # << >> /\ Calm(f, c) /\ f[1] = FLAG
  <2>1. PICK f : f = Supervision(SenderAddress, control)
    OBVIOUS
  <2>2. control \in Byte
    BY Controls
  <2>3. /\ f \in Seq(Byte) /\ Len(f) = 5 /\ f[1] = FLAG /\ f[2] = SenderAddress /\ f[3] = control
        /\ f[5] = FLAG
    BY <2>1, <2>2, SupervisionRest
  <2>4. control \notin {c, SenderAddress, FLAG} /\ SenderAddress # FLAG
    BY <1>1 DEF SET, DISC, UA, SenderAddress, FLAG
  <2>5. \A k \in 2 .. Len(f) - 2 : f[k] # FLAG
    BY <2>3, <2>4
  <2>6. f[3] \notin {c, SenderAddress} /\ f[Len(f)] = FLAG /\ Len(f) >= 5 /\ f # << >>
    BY <2>3, <2>4
  <2>7. Calm(f, c)
    BY <2>3, <2>5, <2>6, CalmFrame
  <2> QED
    BY <2>1, <2>3, <2>6, <2>7
<1>2. ASSUME NEW p \in Seq(Byte), NEW bit \in {0, 1}
      PROVE  LET f == DataFrame(p, bit)
             IN  f \in Seq(Byte) /\ f # << >> /\ Calm(f, c) /\ f[1] = FLAG
  <2>1. PICK f : f = DataFrame(p, bit)
    OBVIOUS
  <2>2. PICK s \in Seq(Byte) : s = Sealed(p)
    BY SealedBytes
  <2>3. PICK n \in Nat \ {0} : n = Len(s)
    BY <2>2, SealedBytes
  <2>4. /\ f \in Seq(Byte) /\ Len(f) = n + 5 /\ f[1] = FLAG /\ f[2] = SenderAddress
        /\ f[3] = I(bit) /\ f[4] = Xor(SenderAddress, I(bit))
        /\ \A k \in 5 .. n + 4 : f[k] = s[k - 4]
        /\ f[n + 5] = FLAG
    BY <2>1, <2>2, <2>3, FrameBytes
  <2>5. \A i \in 1 .. n : s[i] = FLAG => i = n
    BY <2>2, <2>3, SealedBytes
  <2>6. /\ Xor(SenderAddress, I(bit)) # FLAG /\ SenderAddress # FLAG
        /\ I(bit) \notin {FLAG, c, SenderAddress}
    <3>1. Xor(1, 192) = 193 /\ Xor(1, 128) = 129
      BY DEF Xor
    <3> QED
      BY <3>1 DEF I, SenderAddress, FLAG, UA, DISC
  <2>7. ASSUME NEW k \in 2 .. n + 3 PROVE f[k] # FLAG
    <3>1. CASE k \in 5 .. n + 3
      <4>1. k - 4 \in 1 .. n /\ k - 4 # n /\ k \in 5 .. n + 4
        BY <3>1
      <4> QED
        BY <2>4, <2>5, <4>1
    <3>2. CASE k \in {2, 3, 4}
      BY <2>4, <2>6, <3>2
    <3> QED
      BY <3>1, <3>2
  <2>8. Calm(f, c) /\ f # << >>
    BY <2>4, <2>6, <2>7, CalmFrame
  <2> QED
    BY <2>1, <2>4, <2>8
<1> QED
  BY <1>1, <1>2

-----------------------------------------------------------------------------
\* What the transmitter writes before its DISC is no DISC, and before its UA no UA.
LEMMA SenderQuiet ==
  ASSUME Types, SenderStep, NEW c \in {UA, DISC}, Quiet(c), sPc' # "success",
         c = DISC => sPc' # "disc"
  PROVE  Quiet(c)' /\ UNCHANGED << rIn, rPc, STOP, hs, dp >>
<1>1. /\ UNCHANGED << rPc, STOP, hs, dp >>
      /\ sPc = "closed" => s_llopen
      /\ sPc = "handshake" => s_handshake
      /\ sPc = "send" => s_send_data
      /\ sPc = "select" => SelectReady \/ SelectTimeout
      /\ sPc = "sleep" => Sleep
      /\ sPc = "close" => s_disconnect
      /\ sPc \in {"answer", "disc"} => s_receive
      /\ sPc \in {"closed", "handshake", "send", "select", "sleep", "answer", "close", "disc"}
  BY SenderDoes DEF receiver
<1>2. /\ rIn \in Seq(Byte) /\ sOut \in Seq(Byte) /\ s_ctrl \in {0, 1}
      /\ Message(msg) \in Seq(Byte)
  BY MessageParts DEF Types, TypeOK, WireTypeOK, SenderTypeOK
<1>3. ASSUME NEW f \in Seq(Byte), Calm(f, c), f # << >>, f[1] = FLAG, sOut' = sOut \o f, rIn' = rIn
      PROVE  Quiet(c)' /\ rIn' = rIn
  <2>1. FLAG # SenderAddress
    BY DEF FLAG, SenderAddress
  <2>2. Calm(sOut \o f, c)
    BY <1>2, <1>3, <2>1, CalmConcat DEF Quiet
  <2>3. (sOut \o f)[1] = FLAG
    <3>1. /\ Len(sOut) \in Nat /\ Len(f) \in Nat \ {0}
          /\ (sOut \o f)[1] = IF 1 <= Len(sOut) THEN sOut[1] ELSE f[1 - Len(sOut)]
      BY <1>2, <1>3, ConcatAt
    <3>2. CASE 1 <= Len(sOut)
      BY <1>2, <3>1, <3>2 DEF Quiet
    <3>3. CASE ~(1 <= Len(sOut))
      BY <1>3, <3>1, <3>3
    <3> QED
      BY <3>2, <3>3
  <2> QED
    BY <1>1, <1>3, <2>2, <2>3 DEF Quiet
<1>4. ASSUME sOut' = sOut, rIn' = rIn PROVE Quiet(c)' /\ rIn' = rIn
  BY <1>1, <1>4 DEF Quiet
<1>5. CASE s_llopen
  <2>1. sOut' = Supervision(SenderAddress, SET) /\ rIn' = rIn
    BY <1>5 DEF s_llopen
  <2>2. Calm(sOut', c) /\ sOut'[1] = FLAG
    <3>1. SET # c
      BY DEF SET, UA, DISC
    <3> QED
      BY <2>1, <3>1, CalmWritten
  <2> QED
    BY <1>1, <2>1, <2>2 DEF Quiet
<1>6. CASE s_send_data
  BY <1>1, <1>2, <1>3, <1>6, CalmWritten DEF s_send_data
<1>7. CASE s_disconnect
  BY <1>1, <1>3, <1>7, CalmWritten DEF s_disconnect, UA, DISC
<1>8. CASE s_handshake \/ SelectReady \/ SelectTimeout \/ Sleep
  BY <1>1, <1>4, <1>8 DEF s_handshake, SelectReady, SelectTimeout, GiveUp, Sleep, wire
<1>9. CASE s_receive
  <2>1. ASSUME NEW control, Return(control) PROVE sOut' = sOut
    BY <2>1 DEF Return, CloseResult
  <2>2. CASE AnswerByte \/ UnknownControl
    BY <1>1, <1>4, <2>2 DEF AnswerByte, UnknownControl
  <2>3. CASE TwoFlags
    BY <1>1, <1>4, <2>1, <2>3 DEF TwoFlags
  <2>4. CASE AnswerEnd
    <3>1. rIn' = rIn /\ (Return(ans.control) \/ Return(-1))
      BY <2>4 DEF AnswerEnd
    <3> QED
      BY <1>1, <1>4, <2>1, <3>1
  <2> QED
    BY <1>9, <2>2, <2>3, <2>4 DEF s_receive
<1> QED
  BY <1>1, <1>5, <1>6, <1>7, <1>8, <1>9

\* A byte that has been used up leaves a calm line.
LEMMA ConsumeCalm ==
  ASSUME NEW c, Calm(rIn, c), rIn \in Seq(Byte), STOP \in BOOLEAN,
         NEW b \in Input, NEW returns, Consume(returns)
  PROVE  /\ Calm(rIn', c) /\ STOP' = returns
         /\ STOP => rIn' = rIn
         /\ ~STOP => /\ rIn # << >> /\ b = rIn[1] /\ rIn' = Tail(rIn)
                     /\ b = FLAG => Calm(<< FLAG >> \o rIn', c)
<1>1. STOP' = returns
  BY DEF Consume
<1>2. CASE STOP
  BY <1>1, <1>2 DEF Consume
<1>3. CASE ~STOP
  <2>1. rIn # << >> /\ b = Head(rIn) /\ rIn' = Tail(rIn)
    BY <1>3 DEF Input, Consume
  <2>2. b = rIn[1]
    BY <2>1
  <2> QED
    BY <1>1, <1>3, <2>1, <2>2, CalmTail, FlagBefore
<1> QED
  BY <1>2, <1>3

\* The automaton does not get beyond the address.
LEMMA UnmetStep ==
  ASSUME rIn \in Seq(Byte), STOP \in BOOLEAN, NEW c \in {UA, DISC}, Calm(rIn, c), Unmet(c),
         NEW b \in Input
  PROVE  /\ r_Recognise(hs, b, c) # "Z"
         /\ hs' = r_Recognise(hs, b, c) /\ Consume(FALSE) => Unmet(c)' /\ Calm(rIn', c)
<1>1. hs \in {"S", "F", "A"} /\ c \notin {FLAG, SenderAddress}
  BY DEF Unmet, UA, DISC, FLAG, SenderAddress
<1>2. /\ Expected("S", c) = FLAG /\ Expected("F", c) = SenderAddress /\ Expected("A", c) = c
      /\ Advance("S") = "F" /\ Advance("F") = "A" /\ Advance("A") = "C"
      /\ FLAG # SenderAddress
  BY DEF Expected, Advance, FLAG, SenderAddress
<1>3. ASSUME NEW x
      PROVE  /\ r_Recognise("S", x, c) = IF x = FLAG THEN "F" ELSE "S"
             /\ r_Recognise("F", x, c) = IF x = SenderAddress THEN "A" ELSE IF x = FLAG THEN "F" ELSE "S"
             /\ r_Recognise("A", x, c) = IF x = c THEN "C" ELSE IF x = SenderAddress THEN "F" ELSE "S"
  BY <1>2 DEF r_Recognise
<1>4. r_Recognise(hs, b, c) # "Z"
  BY <1>1, <1>3
<1>5. SUFFICES ASSUME hs' = r_Recognise(hs, b, c), Consume(FALSE) PROVE Unmet(c)' /\ Calm(rIn', c)
  BY <1>4
<1>6. /\ Calm(rIn', c) /\ STOP' = FALSE /\ (STOP => rIn' = rIn)
      /\ ~STOP => /\ rIn # << >> /\ b = rIn[1] /\ rIn' = Tail(rIn)
                  /\ b = FLAG => Calm(<< FLAG >> \o rIn', c)
  BY <1>5, ConsumeCalm
<1>7. SUFFICES /\ hs' \in {"S", "F", "A"} /\ (hs' = "F" => Calm(<< FLAG >> \o rIn', c))
               /\ hs' = "A" => rIn' # << >> /\ rIn'[1] \notin {c, SenderAddress}
  BY <1>6 DEF Unmet
<1>8. CASE STOP
  <2>1. hs = "S" /\ Calm(<< FLAG >> \o rIn, c) /\ rIn' = rIn
    BY <1>6, <1>8 DEF Unmet
  <2>2. hs' \in {"S", "F"}
    BY <1>3, <1>5, <2>1
  <2> QED
    BY <2>1, <2>2
<1>9. CASE ~STOP /\ hs = "S"
  BY <1>3, <1>5, <1>6, <1>9
<1>10. CASE ~STOP /\ hs = "F"
  <2>1. CASE b = SenderAddress
    <3>1. hs' = "A" /\ Calm(<< FLAG >> \o rIn, c) /\ rIn[1] = SenderAddress /\ rIn' = Tail(rIn) /\ rIn # << >>
      BY <1>2, <1>3, <1>5, <1>6, <1>10, <2>1 DEF Unmet
    <3>2. PICK u : u = << FLAG >> \o rIn
      OBVIOUS
    <3>3. Len(u) = Len(rIn) + 1 /\ u[1] = FLAG /\ \A i \in 1 .. Len(rIn) : u[i + 1] = rIn[i]
      <4>1. FLAG \in Byte
        BY Controls
      <4>2. << FLAG >> \in Seq(Byte) /\ Len(<< FLAG >>) = 1 /\ << FLAG >>[1] = FLAG
        BY <4>1
      <4>3. /\ Len(u) = 1 + Len(rIn) /\ Len(rIn) \in Nat
            /\ \A i \in 1 .. 1 + Len(rIn) : u[i] = IF i <= 1 THEN << FLAG >>[i] ELSE rIn[i - 1]
        BY <3>2, <4>2, ConcatAt
      <4> QED
        BY <4>2, <4>3
    <3>4. 1 \in 1 .. Len(u) - 1 /\ u[2] = SenderAddress /\ Len(rIn) \in Nat
      <4>1. Len(rIn) \in Nat \ {0}
        BY <3>1
      <4>2. u[1 + 1] = rIn[1]
        BY <3>3, <4>1
      <4> QED
        BY <3>1, <3>3, <4>1, <4>2
    <3>5. 1 + 2 <= Len(u) /\ u[1 + 2] \notin {c, SenderAddress}
      <4>1. Calm(u, c)
        BY <3>1, <3>2
      <4> QED
        BY <3>3, <3>4, <4>1 DEF Calm
    <3>6. Len(rIn) >= 2 /\ u[2 + 1] = rIn[2]
      BY <3>3, <3>4, <3>5
    <3>7. Tail(rIn) # << >> /\ Tail(rIn)[1] = rIn[2]
      BY <3>1, <3>6
    <3> QED
      BY <3>1, <3>5, <3>6, <3>7
  <2>2. CASE b # SenderAddress
    BY <1>3, <1>5, <1>6, <1>10, <2>2
  <2> QED
    BY <2>1, <2>2
<1>11. CASE ~STOP /\ hs = "A"
  <2>1. b \notin {c, SenderAddress}
    BY <1>6, <1>11 DEF Unmet
  <2> QED
    BY <1>3, <1>5, <1>11, <2>1
<1> QED
  BY <1>1, <1>8, <1>9, <1>10, <1>11

-----------------------------------------------------------------------------
\* Every step of the receiver but the flush takes at most a byte off the line.
LEMMA ReceiverUses ==
  ASSUME ReceiverNext
  PROVE  /\ sOut' = sOut
         /\ r_llopen \/ \E b \in Input, returns \in BOOLEAN : Consume(returns)
         /\ rPc = "reading" => /\ hs' = hs /\ rPc' \in {"reading", "closing", "crashed"}
                               /\ Parsing \/ Accept \/ Crash
<1>1. ASSUME NEW next, Step(next)
      PROVE  sOut' = sOut /\ Consume(FALSE) /\ hs' = hs /\ rPc' = rPc
  BY <1>1 DEF Step
<1>2. CASE Parsing
  <2>1. PICK b \in Input : \E next : Step(next)
    BY <1>2 DEF Parsing, WaitFlag, WaitAddress, WaitControl, WaitBcc1, Collect, Discard,
                WaitDiscBcc, WaitDiscFlag, Goto
  <2> QED
    BY <1>1, <1>2, <2>1
<1>3. CASE Accept
  <2>1. /\ sOut' = sOut /\ FLAG \in Input /\ Consume(TRUE) /\ hs' = hs
        /\ rPc' \in {"reading", "closing"}
    BY <1>3, Zenon DEF Accept
  <2> QED
    BY <1>3, <2>1
<1>4. CASE Crash
  BY <1>4 DEF Crash
<1>5. ASSUME NEW pc, NEW control, Unrecognised(pc, control)
      PROVE  rPc = pc /\ sOut' = sOut /\ \E b \in Input : Consume(FALSE)
  BY <1>5 DEF Unrecognised
<1>6. ASSUME NEW pc, NEW control, NEW answer, NEW next, Recognised(pc, control, answer, next)
      PROVE  rPc = pc /\ sOut' = sOut /\ \E b \in Input : Consume(TRUE)
  BY <1>6 DEF Recognised
<1>7. CASE r_handshake \/ r_disconnect \/ r_verify_if_ua_received
  <2>1. PICK pc \in {"opening", "closing", "awaitUA"} :
          \/ \E control : Unrecognised(pc, control)
          \/ \E control, answer, next : Recognised(pc, control, answer, next)
    BY <1>7 DEF r_handshake, r_disconnect, r_verify_if_ua_received
  <2>2. rPc = pc /\ sOut' = sOut /\ \E b \in Input, returns \in BOOLEAN : Consume(returns)
    BY <1>5, <1>6, <2>1
  <2> QED
    BY <2>2
<1>8. CASE r_llopen
  BY <1>8 DEF r_llopen
<1> QED
  BY <1>2, <1>3, <1>4, <1>7, <1>8 DEF ReceiverNext

\* What it leaves on the line is as quiet as before.
LEMMA ReceiverQuiet ==
  ASSUME Types, ReceiverNext, NEW c, Quiet(c)
  PROVE  Quiet(c)'
<1>1. rIn \in Seq(Byte) /\ STOP \in BOOLEAN /\ Calm(rIn, c)
  BY DEF Types, TypeOK, WireTypeOK, ReceiverTypeOK, Quiet
<1>2. sOut' = sOut /\ (r_llopen \/ \E b \in Input, returns \in BOOLEAN : Consume(returns))
  BY ReceiverUses
<1>3. CASE r_llopen
  <2>1. rIn' = << >>
    BY <1>3 DEF r_llopen
  <2> QED
    BY <1>2, <2>1 DEF Quiet, Calm
<1>4. ASSUME NEW b \in Input, NEW returns \in BOOLEAN, Consume(returns) PROVE Quiet(c)'
  <2>1. Calm(rIn', c)
    BY <1>1, <1>4, ConsumeCalm
  <2> QED
    BY <1>2, <2>1 DEF Quiet
<1> QED
  BY <1>2, <1>3, <1>4

\* A frame has been recognised: its closing flag came from the line, and what
\* follows begins behind a flag.
LEMMA RecognisedCalm ==
  ASSUME Types, NEW c, Calm(rIn, c), STOP => hs = "S", NEW b \in Input, NEW control,
         r_Recognise(hs, b, control) = "Z", Consume(TRUE)
  PROVE  Calm(<< FLAG >> \o rIn', c)
<1>1. rIn \in Seq(Byte) /\ STOP \in BOOLEAN /\ hs \in Hunting
  BY DEF Types, TypeOK, WireTypeOK, ReceiverTypeOK
<1>2. hs = "B" /\ b = FLAG
  <2>1. /\ Advance("S") = "F" /\ Advance("F") = "A" /\ Advance("A") = "C" /\ Advance("C") = "B"
        /\ Expected("B", control) = FLAG
    BY DEF Advance, Expected
  <2> QED
    BY <1>1, <2>1 DEF r_Recognise, Hunting
<1> QED
  BY <1>1, <1>2, ConsumeCalm

\* Every step of the receiver before the UA.
LEMMA ReceiverUnanswered ==
  ASSUME Types, ReceiverNext, Unanswered
  PROVE  Unanswered'
<1>1. /\ rIn \in Seq(Byte) /\ STOP \in BOOLEAN /\ Calm(rIn, UA) /\ Quiet(UA)
      /\ Quiet(UA)'
  BY ReceiverQuiet DEF Types, TypeOK, WireTypeOK, ReceiverTypeOK, Unanswered, Quiet
<1>2. CASE r_llopen
  BY <1>1, <1>2 DEF r_llopen, Unanswered
<1>3. ASSUME NEW pc, NEW control, Unrecognised(pc, control), pc \in {"opening", "closing"}
      PROVE  Unanswered'
  <2>1. rPc' = pc /\ STOP' = FALSE
    BY <1>3 DEF Unrecognised, Consume
  <2> QED
    BY <1>1, <1>3, <2>1 DEF Unanswered
<1>4. ASSUME NEW answer, Recognised("opening", SET, answer, "reading")
      PROVE  Unanswered'
  BY <1>1, <1>4 DEF Recognised, Unanswered
<1>5. ASSUME NEW answer, Recognised("closing", DISC, answer, "awaitUA")
      PROVE  Unanswered'
  <2>1. PICK b \in Input : r_Recognise(hs, b, DISC) = "Z" /\ Consume(TRUE)
    BY <1>5 DEF Recognised
  <2>2. rPc = "closing" /\ rPc' = "awaitUA" /\ hs' = "S"
    BY <1>5 DEF Recognised
  <2>3. Calm(<< FLAG >> \o rIn', UA)
    BY <1>1, <2>1, <2>2, RecognisedCalm DEF Unanswered
  <2> QED
    BY <1>1, <2>2, <2>3 DEF Unanswered, Unmet
<1>6. CASE r_verify_if_ua_received
  <2>1. rPc = "awaitUA" /\ Unmet(UA)
    BY <1>6 DEF r_verify_if_ua_received, Unrecognised, Recognised, Unanswered
  <2>2. \A b \in Input : r_Recognise(hs, b, UA) # "Z"
    BY <1>1, <2>1, UnmetStep
  <2>3. Unrecognised("awaitUA", UA)
    BY <1>6, <2>2 DEF r_verify_if_ua_received, Recognised
  <2>4. PICK b \in Input : hs' = r_Recognise(hs, b, UA) /\ Consume(FALSE)
    BY <2>3 DEF Unrecognised
  <2>5. rPc' = "awaitUA" /\ Unmet(UA)'
    BY <1>1, <2>1, <2>3, <2>4, UnmetStep DEF Unrecognised
  <2> QED
    BY <1>1, <2>5 DEF Unanswered
<1>7. CASE Parsing \/ Accept \/ Crash
  <2>1. rPc = "reading"
    BY <1>7 DEF Parsing, Accept, Crash
  <2>2. hs' = "S" /\ rPc' \in {"reading", "closing", "crashed"}
    BY <2>1, ReceiverUses DEF Unanswered
  <2> QED
    BY <1>1, <2>2 DEF Unanswered
<1> QED
  BY <1>2, <1>3, <1>4, <1>5, <1>6, <1>7 DEF ReceiverNext, r_handshake, r_disconnect

\* Every step of the receiver before the DISC.
LEMMA ReceiverUnasked ==
  ASSUME Types, ReceiverNext, Unasked
  PROVE  Unasked'
<1>1. /\ rIn \in Seq(Byte) /\ STOP \in BOOLEAN /\ Calm(rIn, DISC) /\ Quiet(DISC)
      /\ Quiet(DISC)'
  BY ReceiverQuiet DEF Types, TypeOK, WireTypeOK, ReceiverTypeOK, Unasked, Quiet
<1>2. CASE r_llopen
  BY <1>1, <1>2 DEF r_llopen, Unasked
<1>3. CASE r_handshake
  <2>1. CASE Unrecognised("opening", SET)
    <3>1. rPc' = "opening"
      BY <2>1 DEF Unrecognised
    <3> QED
      BY <1>1, <3>1 DEF Unasked
  <2>2. CASE Recognised("opening", SET, Supervision(SenderAddress, UA), "reading") /\ NewParser
    <3>1. rPc' = "reading" /\ hs' = "S"
      BY <2>2 DEF Recognised
    <3>2. dp'.st = 0
      BY <2>2 DEF NewParser, Parser
    <3> QED
      BY <1>1, <3>1, <3>2 DEF Unasked
  <2> QED
    BY <1>3, <2>1, <2>2 DEF r_handshake
<1>4. CASE r_disconnect
  <2>1. rPc = "closing" /\ Unmet(DISC)
    BY <1>4 DEF r_disconnect, Unrecognised, Recognised, Unasked
  <2>2. \A b \in Input : r_Recognise(hs, b, DISC) # "Z"
    BY <1>1, <2>1, UnmetStep
  <2>3. Unrecognised("closing", DISC)
    BY <1>4, <2>2 DEF r_disconnect, Recognised
  <2>4. PICK b \in Input : hs' = r_Recognise(hs, b, DISC) /\ Consume(FALSE)
    BY <2>3 DEF Unrecognised
  <2>5. rPc' = "closing" /\ Unmet(DISC)'
    BY <1>1, <2>1, <2>3, <2>4, UnmetStep DEF Unrecognised
  <2> QED
    BY <1>1, <2>5 DEF Unasked
<1>5. ~r_verify_if_ua_received
  BY DEF r_verify_if_ua_received, Unrecognised, Recognised, Unasked
<1>6. CASE Parsing
  <2>1. rPc' = "reading" /\ STOP' = FALSE
    <3>1. ASSUME NEW next, Step(next) PROVE rPc' = rPc /\ STOP' = FALSE
      BY <3>1, StepEffect
    <3> QED
      BY <1>6, <3>1 DEF Parsing, WaitFlag, WaitAddress, WaitControl, WaitBcc1, Collect, Discard,
                        WaitDiscBcc, WaitDiscFlag, Goto
  <2>2. hs' = "S"
    BY <1>6, ReceiverUses DEF Unasked, Parsing
  <2> QED
    BY <1>1, <2>1, <2>2 DEF Unasked
<1>7. CASE Accept
  <2>1. /\ rPc = "reading" /\ dp.st = 4 /\ FLAG \in Input /\ Consume(TRUE)
        /\ rPc' = "closing" \/ (rPc' = "reading" /\ NewParser)
    BY <1>7, Zenon DEF Accept
  <2>2. hs' = "S" /\ ~STOP
    BY <2>1, ReceiverUses DEF Unasked
  <2>3. Calm(<< FLAG >> \o rIn', DISC)
    BY <1>1, <2>1, <2>2, ConsumeCalm
  <2>4. NewParser => dp'.st = 0
    BY DEF NewParser, Parser
  <2> QED
    BY <1>1, <2>1, <2>2, <2>3, <2>4 DEF Unasked, Unmet
<1>8. CASE Crash
  BY <1>1, <1>8 DEF Crash, Unasked
<1> QED
  BY <1>2, <1>3, <1>4, <1>5, <1>6, <1>7, <1>8 DEF ReceiverNext

-----------------------------------------------------------------------------
\* A read that takes all that was written carries, drops or flips a calm line.
LEMMA CableQuiet ==
  ASSUME Types, NEW c \in {UA, DISC}, Quiet(c), CableStep, ~Partial, Len(sOut) <= CableBuffer
  PROVE  Quiet(c)' /\ (Unmet(c) => Unmet(c)') /\ UNCHANGED << sPc, rPc, STOP, hs, dp >>
<1>1. CableNext /\ UNCHANGED << sPc, rPc, STOP, hs, dp >>
  BY DEF CableStep, sender, receiver
<1>2. /\ rIn \in Seq(Byte) /\ sOut \in Seq(Byte) /\ connection \in Modes
      /\ Calm(rIn, c) /\ Calm(sOut, c) /\ (sOut # << >> => sOut[1] = FLAG)
  BY DEF Types, TypeOK, WireTypeOK, CableTypeOK, Quiet
<1>3. CASE rIn' = rIn /\ sOut' = sOut
  BY <1>1, <1>3 DEF Quiet, Unmet
<1>4. CASE TxToRx
  <2>1. PICK n \in 1 .. Len(sOut) : /\ Carry(sOut, n)
                                    /\ sOut' = SubSeq(sOut, n + 1, Len(sOut))
                                    /\ rIn' = rIn \o Carried(SubSeq(sOut, 1, n))
    BY <1>4 DEF TxToRx
  <2>2. n = Len(sOut)
    <3>1. n <= CableBuffer /\ (n = CableBuffer \/ n = Len(sOut)) /\ Len(sOut) \in Nat
      BY <1>2, <2>1 DEF Carry
    <3> QED
      BY <2>1, <3>1, CableAssumption
  <2>3. SubSeq(sOut, 1, n) = sOut /\ sOut' = << >> /\ sOut # << >>
    BY <1>2, <2>1, <2>2
  <2>4. PICK t \in Seq(Byte) : t = Carried(sOut) /\ Calm(t, c) /\ (t # << >> => t[1] # SenderAddress)
    <3>1. connection \in {"on", "off", "noise"}
      BY <1>2, CableAssumption
    <3>2. CASE connection = "on"
      <4>1. Carried(sOut) = sOut /\ FLAG # SenderAddress
        BY <3>2 DEF Carried, FLAG, SenderAddress
      <4> QED
        BY <1>2, <2>3, <4>1
    <3>3. CASE connection = "off"
      <4>1. Carried(sOut) = << >> /\ Calm(<< >>, c)
        BY <3>3 DEF Carried, Calm
      <4>2. PICK t \in Seq(Byte) : t = << >>
        <5>1. << >> \in Seq(Byte)
          OBVIOUS
        <5> QED
          BY <5>1
      <4> QED
        BY <4>1, <4>2
    <3>4. CASE connection = "noise"
      <4>1. PICK b \in Byte : b = Xor(sOut[1], 255) /\ b # FLAG /\ b # SenderAddress
        <5>1. Xor(92, 255) = 163
          BY DEF Xor
        <5> QED
          BY <1>2, <2>3, <5>1 DEF FLAG, SenderAddress, Byte
      <4>2. Carried(sOut) = [ sOut EXCEPT ![1] = b ]
        BY <3>4, <4>1, Zenon DEF Carried
      <4>3. PICK t \in Seq(Byte) : t = [ sOut EXCEPT ![1] = b ] /\ t[1] = b
        <5>1. [ sOut EXCEPT ![1] = b ] \in Seq(Byte)
          BY <1>2
        <5>2. Len(sOut) \in Nat \ {0}
          BY <1>2, <2>3
        <5>3. [ sOut EXCEPT ![1] = b ][1] = b
          BY <1>2, <5>2
        <5> QED
          BY <5>1, <5>3
      <4>4. Calm(t, c)
        BY <1>2, <4>1, <4>3, CalmFlipped
      <4> QED
        BY <4>1, <4>2, <4>3, <4>4
    <3> QED
      BY <3>1, <3>2, <3>3, <3>4
  <2>5. rIn' = rIn \o t
    BY <2>1, <2>3, <2>4
  <2>6. Calm(rIn \o t, c)
    BY <1>2, <2>4, CalmConcat
  <2>7. ASSUME Calm(<< FLAG >> \o rIn, c) PROVE Calm(<< FLAG >> \o (rIn \o t), c)
    <3>1. << FLAG >> \in Seq(Byte)
      <4>1. FLAG \in Byte
        BY Controls
      <4> QED
        BY <4>1
    <3>2. PICK f \in Seq(Byte) : f = << FLAG >>
      BY <3>1
    <3>3. PICK u \in Seq(Byte) : u = f \o rIn
      BY <1>2, ConcatType
    <3>4. Calm(u \o t, c)
      BY <2>4, <2>7, <3>2, <3>3, CalmConcat
    <3>5. u \o t = f \o (rIn \o t)
      BY <1>2, <2>4, <3>2, <3>3, ConcatThree, SMTT(30)
    <3> QED
      BY <3>2, <3>4, <3>5
  <2>8. ASSUME rIn # << >> PROVE rIn \o t # << >> /\ (rIn \o t)[1] = rIn[1]
    <3>1. Len(rIn) \in Nat \ {0}
      BY <1>2, <2>8
    <3>2. /\ Len(rIn \o t) = Len(rIn) + Len(t) /\ Len(t) \in Nat
          /\ \A i \in 1 .. Len(rIn) + Len(t) : (rIn \o t)[i] = IF i <= Len(rIn) THEN rIn[i] ELSE t[i - Len(rIn)]
      BY <1>2, <2>4, ConcatAt
    <3>3. PICK u \in Seq(Byte) : u = rIn \o t
      BY <1>2, <2>4, ConcatType
    <3>4. Len(u) # 0 /\ u[1] = rIn[1]
      BY <3>1, <3>2, <3>3
    <3>5. u # << >>
      BY <3>4
    <3> QED
      BY <3>3, <3>4, <3>5
  <2>9. Calm(sOut', c)
    BY <2>3 DEF Calm
  <2>10. PICK line \in Seq(Byte) : line = rIn \o t
    BY <1>2, <2>4, ConcatType
  <2>11. /\ rIn' = line /\ Calm(line, c)
         /\ Calm(<< FLAG >> \o rIn, c) => Calm(<< FLAG >> \o line, c)
         /\ rIn # << >> => line # << >> /\ line[1] = rIn[1]
    BY <2>5, <2>6, <2>7, <2>8, <2>10
  <2> QED
    BY <1>1, <2>3, <2>9, <2>11 DEF Quiet, Unmet
<1> QED
  BY <1>1, <1>3, <1>4 DEF CableNext, Press, RxToTx, wire

-----------------------------------------------------------------------------
\* It holds at first.
LEMMA AgreeInit == Init => AgreeInv
<1> SUFFICES ASSUME Init PROVE Unanswered /\ Unasked
  BY NumberInit DEF AgreeInv
<1>1. rIn = << >> /\ sOut = << >> /\ rPc = "closed"
  BY DEF Init, WireInit, ReceiverInit
<1> QED
  BY <1>1 DEF Unanswered, Unasked, Quiet, Calm

\* Every step keeps it, while a read of the cable takes all that was written:
\* after its DISC, and after its success, the transmitter never comes back.
LEMMA AgreeNext ==
  ASSUME ~Partial
  PROVE  AgreeInv /\ Len(sOut) <= CableBuffer /\ [Next]_vars => AgreeInv'
<1> DEFINE Gone(pc) == pc \in {"disc", "success", "failure", "exited"}
<1> SUFFICES ASSUME AgreeInv, Len(sOut) <= CableBuffer, [Next]_vars
             PROVE  /\ sPc' # "success" => Unanswered'
                    /\ ~Gone(sPc') => Unasked'
  BY NumberNext DEF AgreeInv
<1>1. /\ Types
      /\ sPc # "success" => Unanswered
      /\ ~Gone(sPc) => Unasked
  BY DEF AgreeInv, NumberInv, ClosingInv, IInv
<1>2. CASE SenderStep
  <2>1. ASSUME Gone(sPc) PROVE Gone(sPc')
    <3>1. sPc = "disc" /\ s_receive
      BY <1>2, <2>1, SenderDoes
    <3>2. ASSUME NEW control, Return(control) PROVE sPc' \in {"success", "failure"}
      BY <3>1, <3>2 DEF Return, CloseResult
    <3> QED
      BY <3>1, <3>2 DEF s_receive, AnswerByte, TwoFlags, UnknownControl, AnswerEnd
  <2>2. sPc # "success"
    BY <1>2, SenderDoes
  <2>3. ASSUME sPc' # "success" PROVE Unanswered'
    <3>1. Quiet(UA)' /\ UNCHANGED << rIn, rPc, STOP, hs, dp >>
      <4>1. UA # DISC
        BY DEF UA, DISC
      <4> QED
        BY <1>1, <1>2, <2>2, <2>3, <4>1, SenderQuiet DEF Unanswered
    <3> QED
      BY <1>1, <2>2, <3>1 DEF Unanswered, Unmet
  <2>4. ASSUME ~Gone(sPc') PROVE Unasked'
    <3>1. Quiet(DISC)' /\ UNCHANGED << rIn, rPc, STOP, hs, dp >>
      BY <1>1, <1>2, <2>1, <2>4, SenderQuiet DEF Unasked
    <3> QED
      BY <1>1, <2>1, <2>4, <3>1 DEF Unasked, Unmet
  <2> QED
    BY <2>3, <2>4
<1>3. CASE ReceiverStep
  <2>1. ReceiverNext /\ sPc' = sPc
    BY <1>3 DEF ReceiverStep, sender
  <2> QED
    BY <1>1, <2>1, ReceiverUnanswered, ReceiverUnasked
<1>4. CASE CableStep
  <2>1. sPc' = sPc
    BY <1>4 DEF CableStep, sender
  <2>2. ASSUME Unanswered PROVE Unanswered'
    BY <1>1, <1>4, <2>2, CableQuiet DEF Unanswered
  <2>3. ASSUME Unasked PROVE Unasked'
    BY <1>1, <1>4, <2>3, CableQuiet DEF Unasked
  <2> QED
    BY <1>1, <2>1, <2>2, <2>3
<1>5. CASE UNCHANGED vars
  <2>1. UNCHANGED << sPc, rPc, STOP, hs, dp, rIn, sOut >>
    BY <1>5 DEF vars, sender, receiver, wire
  <2> QED
    BY <1>1, <2>1 DEF Unanswered, Unasked, Quiet, Unmet
<1> QED
  BY <1>2, <1>3, <1>4, <1>5 DEF Next, Terminated

(***************************************************************************)
(* s_llclose succeeds only against a receiver that has answered DISC, and  *)
(* r_llclose only after the UA of an s_llclose that has succeeded, however *)
(* often the cable drops what it reads or flips its first byte, and        *)
(* whatever uninitialised byte the automata start on: nothing else the     *)
(* transmitter writes can be taken for that UA.                            *)
(***************************************************************************)
THEOREM ClosesAgreeDisturbed ==
  ASSUME ~Partial
  PROVE  Spec /\ [](Len(sOut) <= CableBuffer) => []CloseAgreement
<1>1. AgreeInv => CloseAgreement
  BY DEF AgreeInv, NumberInv, ClosingInv, DiscSent, Disconnected, Unanswered, CloseAgreement
<1>2. AgreeInv /\ Len(sOut) <= CableBuffer /\ [Next]_vars => AgreeInv'
  BY AgreeNext
<1> QED
  BY <1>1, <1>2, AgreeInit, PTL DEF Spec

(***************************************************************************)
(* The two sequence bits count what is acknowledged and what is accepted,  *)
(* on the same cables: the receiver answers no DISC before the transmitter *)
(* has written it, and till then only the RRs of SenderBitCounts toggle    *)
(* s_ctrl.                                                                 *)
(***************************************************************************)
THEOREM BitsCountDisturbed ==
  ASSUME ~Partial
  PROVE  Spec /\ [](Len(sOut) <= CableBuffer) => []SequenceBits
<1>1. AgreeInv /\ current_ctrl = Len(accepted) % 2 => SequenceBits
  <2> SUFFICES ASSUME AgreeInv, Writing PROVE s_ctrl = acked % 2
    BY DEF SequenceBits
  <2>1. ~Disconnected
    BY DEF AgreeInv, Unasked, Writing, Disconnected
  <2>2. SenderBit
    BY <2>1 DEF AgreeInv, NumberInv, Numbered
  <2> QED
    BY <2>2 DEF SenderBit, Writing
<1>2. AgreeInv /\ Len(sOut) <= CableBuffer /\ [Next]_vars => AgreeInv'
  BY AgreeNext
<1> QED
  BY <1>1, <1>2, AgreeInit, ReceiverBitCounts, PTL DEF Spec

=============================================================================
