------------------------------ MODULE Framing ------------------------------
(***************************************************************************)
(* How Work3/application.c turns a payload into an information frame and   *)
(* the body of an accepted frame back into a payload.  BCC2 is computed    *)
(* over the stuffed bytes and is itself written without stuffing.          *)
(***************************************************************************)
EXTENDS Bytes, SequencesExt

\* Variant: only the flag is escaped.
StuffFlags(input) ==
  FlattenSeq([ i \in DOMAIN input |->
      IF input[i] = FLAG THEN << ESC, Xor(input[i], 32) >> ELSE << input[i] >> ])

s_ByteStuffing(input) ==
  FlattenSeq([ i \in DOMAIN input |->
      IF input[i] \in {FLAG, ESC} THEN << ESC, Xor(input[i], 32) >>
                                  ELSE << input[i] >> ])

Bcc2(stuffed) ==
  LET bcc2[i \in 0 .. Len(stuffed)] ==
        IF i = 0 THEN Seed ELSE Xor(stuffed[i], bcc2[i - 1])
  IN  bcc2[Len(stuffed)]

\* What s_send_data writes for a payload under the sequence bit.
DataFrame(payload, bit) ==
  LET body == s_ByteStuffing(payload)
  IN  << FLAG, SenderAddress, I(bit), Xor(SenderAddress, I(bit)) >>
        \o body \o << Bcc2(body), FLAG >>

\* Variant: an escaped ESC is not looked for.
FlagPairAt(str, i) == i \in 1 .. Len(str) - 1 /\ str[i] = ESC /\ str[i + 1] = 124

\* An escape pair starts at i.  Its second byte never starts one.
PairAt(str, i) ==
  i \in 1 .. Len(str) - 1 /\ str[i] = ESC /\ str[i + 1] \in {124, 125}

\* Destuffing of a frame body that ends in BCC2: the loop, and the counter - 1
\* that drops the last byte it produced.
r_ByteStuffing(str) ==
  Front(FlattenSeq([ i \in DOMAIN str |->
      CASE PairAt(str, i - 1) -> << >>
        [] PairAt(str, i)     -> << Xor(str[i + 1], 32) >>
        [] OTHER              -> << str[i] >> ]))

=============================================================================
