------------------------------ MODULE OldLink ------------------------------
(***************************************************************************)
(* The earlier programs, writenoncanonical.c and noncanonical.c, on either *)
(* side of the cable (Work3/cable.c: on and off), in both states of theirs *)
(* that the repository keeps.                                              *)
(***************************************************************************)
EXTENDS FirstSender, FirstReceiver, Cable

VARIABLE version    \* which state of the pair is run; it never changes

vars == << wire, sender, receiver, cable, version >>

Init ==
  /\ WireInit /\ SenderInit /\ ReceiverInit /\ CableInit
  /\ version \in {"first", "second"}

\* Whatever was under way has arrived and been dealt with.
Settled == sOut = << >> /\ rOut = << >> /\ ReceiverIdle

\* As in Link: a select that waits, and a sleep, are longer than the way to the
\* receiver and back.  A bound: copies do not pile up where nobody reads.
TimeoutPossible == expired \/ Settled
SleepPossible   == Settled /\ (ReceiverEnded => rIn = << >>)

\* The transmitter is started when the receiver waits for it.
SecondSenderNext ==
  \/ Connect \/ s_send_data \/ SelectReady
  \/ SelectTimeout /\ TimeoutPossible
  \/ Sleep /\ SleepPossible
  \/ s_disconnect \/ s_receive

SenderStep ==
  /\ rPc # "closed"
  /\ IF version = "first" THEN FirstSenderNext ELSE SecondSenderNext
  /\ UNCHANGED << receiver, cable, version >>

ReceiverStep ==
  /\ IF version = "first" THEN FirstReceiverNext ELSE ReceiverNext
  /\ UNCHANGED << sender, cable, version >>

CableStep == CableNext /\ UNCHANGED << sender, receiver, version >>

Next == SenderStep \/ ReceiverStep \/ CableStep

Spec == Init /\ [][Next]_vars

FairSpec ==
  /\ Spec /\ WF_vars(SenderStep) /\ WF_vars(ReceiverStep)
  /\ WF_vars(TxToRx /\ UNCHANGED << sender, receiver, version >>)
  /\ WF_vars(RxToTx /\ UNCHANGED << sender, receiver, version >>)

-----------------------------------------------------------------------------
(***************************************************************************)
(* Nobody touches the cable: every message is received, once, and the two  *)
(* programs end.  The second state of the pair prints the messages and no  *)
(* more; the first begins each line with one, and goes on with what was in *)
(* its buffer.  There the frame that receive_rr writes after an RR has no  *)
(* body; where the receiver finds ' ' in a stack byte it has not written,  *)
(* it takes that for BCC2 and crashes instead.                             *)
(***************************************************************************)
PrintedAll ==
  /\ DOMAIN printed = DOMAIN Messages
  /\ \A i \in DOMAIN printed :
       /\ printed[i].message = Messages[i]
       /\ IsPrefix(Messages[i], printed[i].line)
       /\ version = "second" => printed[i].line = Messages[i]

Undisturbed ==
  [](connection = "on") =>
    <>(\/ sPc = "success" /\ rPc = "done" /\ PrintedAll
       \/ version = "first" /\ rPc = "crashed")

(***************************************************************************)
(* Whatever one read of the cable takes away, part of a frame or several   *)
(* frames: the receiver copies only messages of main, and never an earlier *)
(* one after a later one.  It may miss some and copy some twice.  What the *)
(* second state of the pair prints is what it has copied; a line the first *)
(* prints begins with it, and nothing is said of how it goes on.  There a  *)
(* frame that is accepted with the length 0 copies nothing, and a message  *)
(* may come with a header before it: the header of the frame receive_rr    *)
(* writes, whose bytes cancel out in BCC2, when the flags between that     *)
(* frame and the next are lost.                                            *)
(***************************************************************************)
CopiedFor(m) ==
  IF version = "first" THEN {m, << SenderAddress, I(0), Xor(SenderAddress, I(0)) >> \o m} ELSE {m}

InOrder ==
  LET lines == SelectSeq(printed, LAMBDA p : version = "second" \/ p.message # << >>)
  IN  \E which \in [ DOMAIN lines -> DOMAIN Messages ] :
        /\ \A i, j \in DOMAIN lines : i <= j => which[i] <= which[j]
        /\ \A i \in DOMAIN lines :
             /\ lines[i].message \in CopiedFor(Messages[which[i]])
             /\ IsPrefix(lines[i].message, lines[i].line)
             /\ version = "second" => lines[i].line = lines[i].message

=============================================================================
