----------------------------- MODULE MCOldLink -----------------------------
(***************************************************************************)
(* Messages for checking OldLink.                                          *)
(***************************************************************************)
EXTENDS OldLink

\* The first byte of " " equals the seed of BCC2.
TwoMessages == << << 32 >>, << 72 >> >>

\* A flag, the seed of BCC2, and a byte that is neither.
Telling == {FLAG, Seed, 0}

=============================================================================
