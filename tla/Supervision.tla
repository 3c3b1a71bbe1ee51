---------------------------- MODULE Supervision ----------------------------
(***************************************************************************)
(* The byte automata that recognise a supervision frame FLAG A C BCC1 FLAG *)
(* in Work3/application.c.  The receiver has three textual copies of one   *)
(* automaton (r_handshake for SET, r_disconnect for DISC,                  *)
(* r_verify_if_ua_received for UA); the sender has its own, for UA, in     *)
(* s_handshake.  The two differ in what they do with an unexpected byte.   *)
(***************************************************************************)
EXTENDS Bytes

\* States: S nothing yet, F flag, A address, C control, B check byte, Z done.
Hunting == {"S", "F", "A", "C", "B"}

Expected(state, control) ==
  [ S |-> FLAG, F |-> SenderAddress, A |-> control,
    C |-> Xor(SenderAddress, control), B |-> FLAG ][state]

Advance(state) == [ S |-> "F", F |-> "A", A |-> "C", C |-> "B", B |-> "Z" ][state]

\* The receiver: after the flag of a new frame a FLAG byte is not recognised
\* as one in A and C, the address byte is, and B falls back to F on any byte.
r_Recognise(state, byte, control) ==
  IF byte = Expected(state, control) THEN Advance(state)
  ELSE IF \/ state = "F" /\ byte = FLAG
          \/ state \in {"A", "C"} /\ byte = SenderAddress
          \/ state = "B"
       THEN "F" ELSE "S"

\* The sender: a FLAG byte is the start of a frame in every state.
s_Recognise(state, byte, control) ==
  IF byte = Expected(state, control) THEN Advance(state)
  ELSE IF byte = FLAG THEN "F" ELSE "S"

=============================================================================
