-------------------------------- MODULE Link --------------------------------
(***************************************************************************)
(* The whole system: the transmitting and the receiving program joined by  *)
(* the cable program.                                                      *)
(***************************************************************************)
EXTENDS Sender, Receiver, Cable

CONSTANTS
  ReceiverFirst,   \* the receiver has opened its port before the transmitter
  Premature        \* select may time out while an answer is still on its way

ASSUME LinkAssumption == {ReceiverFirst, Premature} \subseteq BOOLEAN

vars == << wire, sender, receiver, cable >>

TypeOK == WireTypeOK /\ SenderTypeOK /\ ReceiverTypeOK /\ CableTypeOK

Init == WireInit /\ SenderInit /\ ReceiverInit /\ CableInit

\* Whatever was under way has arrived and been dealt with.
Settled == sOut = << >> /\ rOut = << >> /\ ReceiverIdle

\* The first select of an llwrite waits for timeOut seconds, a later one does
\* not wait at all; after a timeout the transmitter sleeps for a second.  Both
\* are longer than the way to the receiver and back, unless Premature.
TimeoutPossible == expired \/ Premature \/ Settled
SleepPossible   == Premature \/ Settled

SenderStep ==
  /\ \/ s_llopen /\ (ReceiverFirst => rPc # "closed")
     \/ s_handshake \/ s_send_data \/ SelectReady
     \/ SelectTimeout /\ TimeoutPossible
     \/ Sleep /\ SleepPossible
     \/ s_disconnect \/ s_receive
  /\ UNCHANGED << receiver, cable >>

ReceiverStep == ReceiverNext /\ UNCHANGED << sender, cable >>

CableStep == CableNext /\ UNCHANGED << sender, receiver >>

\* Both programs have ended and the line is empty, or nobody is left to read it.
Terminated == SenderEnded /\ ReceiverEnded /\ sOut = << >> /\ rOut = << >> /\ UNCHANGED vars

Next == SenderStep \/ ReceiverStep \/ CableStep \/ Terminated

Spec == Init /\ [][Next]_vars

\* Each program runs as long as it can; the cable program keeps carrying, and
\* whoever disturbed the cable connects it again.
Fairness ==
  /\ WF_vars(SenderStep) /\ WF_vars(ReceiverStep)
  /\ WF_vars(TxToRx /\ UNCHANGED << sender, receiver >>)
  /\ WF_vars(RxToTx /\ UNCHANGED << sender, receiver >>)
  /\ WF_vars(Press("on") /\ UNCHANGED << sender, receiver >>)

FairSpec == Spec /\ Fairness

-----------------------------------------------------------------------------
\* The abstract file transfer this system is meant to be.
Outcome(ok, failed) == IF ok THEN "success" ELSE IF failed THEN "failure" ELSE "running"

Transfer == INSTANCE FileTransfer WITH
  Chunks   <- File,
  output   <- output,
  sent     <- Outcome(sPc = "success", sPc \in {"failure", "exited"}),
  received <- Outcome(rPc = "done", rPc = "crashed")

(***************************************************************************)
(* The pair of programs implements the abstract transfer: main's file      *)
(* grows by whole chunks, in order and each once, and neither r_llclose    *)
(* nor s_llclose returns a success before the file is complete.            *)
(***************************************************************************)
ImplementsTransfer == Transfer!Spec

(***************************************************************************)
(* Both llclose calls return, and with success: no handshake, llwrite,     *)
(* llread or disconnection waits for ever or fails.                        *)
(***************************************************************************)
Completes == Transfer!Complete

(***************************************************************************)
(* Stop and wait: llread has accepted every frame llwrite has reported as  *)
(* written, and at most the one that is being written besides.             *)
(***************************************************************************)
StopAndWait == Len(accepted) \in acked .. acked + 1

(***************************************************************************)
(* llwrite reports a positive number only for a frame llread has accepted. *)
(***************************************************************************)
AckedIsAccepted == acked <= Len(accepted)

(***************************************************************************)
(* The same, as long as the receiving process lives: what lets an answer   *)
(* to an old copy count for a new frame is only ever written by a receiver *)
(* that dies with that answer.                                             *)
(***************************************************************************)
AckedWhileAlive == rPc # "crashed" => AckedIsAccepted

Writing == sPc \in {"send", "select", "sleep", "answer"}

(***************************************************************************)
(* The two sequence bits count what was acknowledged and what was accepted *)
(* (s_ctrl until llclose, where s_receive toggles it once more): no answer *)
(* makes one of them move without the frame it stands for.                 *)
(***************************************************************************)
SequenceBits ==
  /\ Writing => s_ctrl = acked % 2
  /\ current_ctrl = Len(accepted) % 2

(***************************************************************************)
(* The closing exchange: s_llclose succeeds only against a receiver that   *)
(* has answered DISC, r_llclose only after the UA of an s_llclose that has *)
(* succeeded.                                                              *)
(***************************************************************************)
CloseAgreement ==
  /\ sPc = "success" => rPc \in {"awaitUA", "done"}
  /\ rPc = "done" => sPc = "success"

(***************************************************************************)
(* Every llwrite returns: the retransmissions of s_send_msg come to an end *)
(* with an answer or with the last timeout.                                *)
(***************************************************************************)
WriteReturns == Writing ~> ~Writing

(***************************************************************************)
(* "should have received a nice looking penguin even if cable disconnected *)
(* or noise added" (rcom1/setup): the receiver ends with the whole file.   *)
(***************************************************************************)
PenguinArrives == <>(rPc = "done" /\ output = Transfer!Whole)

=============================================================================
