------------------------------- MODULE Signals -------------------------------
(***************************************************************************)
(* The two course examples in which a handler and a loop share a variable, *)
(* side by side: they have nothing to do with each other.                  *)
(***************************************************************************)
EXTENDS Asynchronous, Alarm

vars == << asynchronous, alarme >>

Init == AsynchronousInit /\ AlarmInit

AsynchronousStep == AsynchronousNext /\ UNCHANGED alarme
AlarmStep        == AlarmNext /\ UNCHANGED asynchronous

Next == AsynchronousStep \/ AlarmStep

Spec == Init /\ [][Next]_vars

\* The programs run, signals are delivered, and time passes.
FairSpec ==
  /\ Spec
  /\ WF_vars(Main /\ UNCHANGED alarme)
  /\ WF_vars(signal_handler_IO /\ UNCHANGED alarme)
  /\ WF_vars(AlarmMain /\ UNCHANGED asynchronous)
  /\ WF_vars(atende /\ UNCHANGED asynchronous)

=============================================================================
