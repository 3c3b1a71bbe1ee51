------------------------------- MODULE MCLink -------------------------------
(***************************************************************************)
(* Files and bounds for checking Link.                                     *)
(***************************************************************************)
EXTENDS Link

\* FLAG and ESC exercise the stuffing.
TwoChunks == << << FLAG >>, << ESC, 65 >> >>

OneChunk == << << FLAG >> >>

\* An uninitialised byte that is a flag, and one that is not.
FlagOrZero == {FLAG, 0}

=============================================================================
