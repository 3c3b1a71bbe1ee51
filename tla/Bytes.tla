------------------------------- MODULE Bytes -------------------------------
(***************************************************************************)
(* The bytes of the serial protocol of Work3/application.c: the framing    *)
(* constants, the control fields of every frame and the exclusive or the   *)
(* two check bytes (BCC1, BCC2) are built from.                            *)
(***************************************************************************)
EXTENDS Integers, Sequences

Byte == 0 .. 255

FLAG == 92          \* 0x5c, opens and closes every frame
ESC  == 93          \* 0x5d, escapes FLAG and itself inside a payload
Seed == 32          \* ' ', the value BCC2 is accumulated from

SenderAddress   == 1     \* address field of what the transmitter writes
ReceiverAddress == 3     \* address field of the receiver's answers

SET  == 8
UA   == 6
DISC == 10

\* Control fields indexed by the sequence bit (0 or 1).
SameI(bit) == 128     \* variant: frames are not numbered
I(bit)   == IF bit = 1 THEN 192 ELSE 128     \* 0xc0, 0x80
RR(bit)  == IF bit = 1 THEN 17 ELSE 1        \* 0x11, 0x01
REJ(bit) == IF bit = 1 THEN 21 ELSE 5        \* 0x15, 0x05

(***************************************************************************)
(* C's ^ on two bytes.  Bit p of the result is the parity of the sum of    *)
(* the two bits p; no recursion, so that proofs can expand it.             *)
(***************************************************************************)
Xor(x, y) ==
  LET bit(p) == p * (((x \div p) + (y \div p)) % 2)
  IN  bit(1) + bit(2) + bit(4) + bit(8) + bit(16) + bit(32) + bit(64) + bit(128)

\* The five bytes of a frame without payload: FLAG A C BCC1 FLAG.
Supervision(address, control) ==
  << FLAG, address, control, Xor(address, control), FLAG >>

=============================================================================
