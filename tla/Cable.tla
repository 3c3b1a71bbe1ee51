------------------------------- MODULE Cable -------------------------------
(***************************************************************************)
(* The cable program (application_code/rcom1/cable/cable.c) between the    *)
(* two pseudo-terminals: it carries what it reads in one go, drops it      *)
(* while the cable is off and flips its first byte while there is noise.   *)
(***************************************************************************)
EXTENDS Wire, FiniteSets

CONSTANTS
  Modes,         \* the console commands in use: "on", and "off", "noise"
  CableBuffer,   \* the most bytes one read returns (512 in the source)
  Partial,       \* a read may find only part of what the programs have written
  MaxFaults      \* bound: how many reads are dropped or flipped in a behaviour

ASSUME CableAssumption ==
  /\ Modes \subseteq {"on", "off", "noise"} /\ "on" \in Modes
  /\ CableBuffer \in Nat \ {0} /\ MaxFaults \in Nat /\ Partial \in BOOLEAN

VARIABLES connection, faults

cable == << connection, faults >>

CableTypeOK == connection \in Modes /\ faults \in 0 .. MaxFaults

CableInit == connection = "on" /\ faults = 0

\* A console command; the cable is only disturbed while faults remain.
Press(mode) ==
  /\ connection # mode /\ connection' = mode
  /\ mode # "on" => faults < MaxFaults
  /\ UNCHANGED << wire, faults >>

\* What comes out of the cable for the bytes of one read.
Carried(chunk) ==
  CASE connection = "on"    -> chunk
    [] connection = "off"   -> << >>
    [] connection = "noise" -> [ chunk EXCEPT ![1] = Xor(@, 255) ]

\* One read of 1 to CableBuffer of the bytes in from, written to into.
Carry(from, n) ==
  /\ n <= CableBuffer
  /\ Partial \/ n = CableBuffer \/ n = Len(from)
  /\ connection # "on" => faults < MaxFaults
  /\ faults' = IF connection = "on" THEN faults ELSE faults + 1
  /\ UNCHANGED connection

TxToRx ==
  \E n \in 1 .. Len(sOut) :
    /\ Carry(sOut, n)
    /\ sOut' = SubSeq(sOut, n + 1, Len(sOut))
    /\ rIn' = rIn \o Carried(SubSeq(sOut, 1, n))
    /\ UNCHANGED << sIn, rOut >>

RxToTx ==
  \E n \in 1 .. Len(rOut) :
    /\ Carry(rOut, n)
    /\ rOut' = SubSeq(rOut, n + 1, Len(rOut))
    /\ sIn' = sIn \o Carried(SubSeq(rOut, 1, n))
    /\ UNCHANGED << sOut, rIn >>

CableNext == (\E mode \in Modes : Press(mode)) \/ TxToRx \/ RxToTx

=============================================================================
