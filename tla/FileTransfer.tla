---------------------------- MODULE FileTransfer ----------------------------
(***************************************************************************)
(* What the pair of programs promises its users: the file the receiver     *)
(* writes grows chunk by chunk into the file that was sent, and whoever    *)
(* ends with a success ends with the whole file.                           *)
(***************************************************************************)
EXTENDS Integers, Sequences, SequencesExt

CONSTANT Chunks      \* the chunks of the file that is sent

VARIABLES
  output,            \* the bytes the receiving application has written
  sent,              \* "running", "success" or "failure" of the transmitter
  received           \* and of the receiver

vars == << output, sent, received >>

\* The file up to and including its i-th chunk.
UpTo(i) == FlattenSeq(SubSeq(Chunks, 1, i))

Whole == UpTo(Len(Chunks))

Init == output = << >> /\ sent = "running" /\ received = "running"

Deliver ==
  /\ received = "running"
  /\ \E i \in 1 .. Len(Chunks) : output = UpTo(i - 1) /\ output' = UpTo(i)
  /\ UNCHANGED << sent, received >>

SendEnds ==
  /\ sent = "running"
  /\ sent' \in {"success", "failure"}
  /\ sent' = "success" => output = Whole
  /\ UNCHANGED << output, received >>

ReceiveEnds ==
  /\ received = "running"
  /\ received' \in {"success", "failure"}
  /\ received' = "success" => output = Whole
  /\ UNCHANGED << output, sent >>

Next == Deliver \/ SendEnds \/ ReceiveEnds

Spec == Init /\ [][Next]_vars

\* On a cable that is never disturbed both programs end, and with success.
Complete == <>(sent = "success" /\ received = "success")

=============================================================================
