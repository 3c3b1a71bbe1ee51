-------------------------------- MODULE Wire --------------------------------
(***************************************************************************)
(* The two pseudo-terminals between the programs: what each program has    *)
(* written and the cable program has not read yet (sOut, rOut), and what   *)
(* the cable has written and the program has not read yet (sIn, rIn).      *)
(***************************************************************************)
EXTENDS Bytes

VARIABLES sOut, sIn, rOut, rIn

wire == << sOut, sIn, rOut, rIn >>

WireInit == sOut = << >> /\ sIn = << >> /\ rOut = << >> /\ rIn = << >>

WireTypeOK == {sOut, sIn, rOut, rIn} \subseteq Seq(Byte)

=============================================================================
