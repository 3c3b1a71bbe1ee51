------------------------------ MODULE Download ------------------------------
(***************************************************************************)
(* What a download promises: the local file grows into the one on the      *)
(* server, and a success means that it is complete.                        *)
(***************************************************************************)
EXTENDS Sequences, SequencesExt

CONSTANT File

VARIABLES saved, outcome

Init == saved = << >> /\ outcome = "running"

Save ==
  /\ outcome = "running"
  /\ IsPrefix(saved', File) /\ IsStrictPrefix(saved, saved')
  /\ UNCHANGED outcome

End ==
  /\ outcome = "running"
  /\ outcome' \in {"success", "failure"}
  /\ outcome' = "success" => saved = File
  /\ UNCHANGED saved

Spec == Init /\ [][Save \/ End]_<< saved, outcome >>

=============================================================================
