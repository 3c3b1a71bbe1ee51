--------------------------- MODULE ReceiverLemmas ---------------------------
(***************************************************************************)
(* What the proofs use of frames and of the receiving program, whatever it *)
(* is joined to: bytes and check bytes, byte stuffing and its inverse, the *)
(* types the steps keep, and the way of the parser through one frame.      *)
(***************************************************************************)
EXTENDS Receiver, WellFoundedInduction, TLAPS

(***************************************************************************)
(* The exclusive or of two bytes is a byte.                                *)
(***************************************************************************)
LEMMA XorByte ==
  ASSUME NEW x \in Byte, NEW y \in Byte
  PROVE  Xor(x, y) \in Byte
  BY SMTT(60) DEF Xor, Byte

(***************************************************************************)
(* The exclusive or of two bytes vanishes just when they are equal: what   *)
(* makes the comparison of a byte with moving_xor a comparison of the new  *)
(* moving_xor with 0.                                                      *)
(***************************************************************************)
LEMMA XorZero ==
  ASSUME NEW x \in Byte, NEW y \in Byte
  PROVE  Xor(x, y) = 0 <=> x = y
  BY SMTT(120) DEF Xor, Byte

(***************************************************************************)
(* The control fields are bytes, and so are those of a supervision frame.  *)
(***************************************************************************)
LEMMA ControlBytes ==
  ASSUME NEW bit \in {0, 1}
  PROVE  {I(bit), RR(bit), REJ(bit), SET, UA, DISC, SenderAddress, ReceiverAddress, FLAG, Seed}
           \subseteq Byte
  BY DEF I, RR, REJ, SET, UA, DISC, SenderAddress, ReceiverAddress, FLAG, Seed, Byte

\* A supervision frame built from bytes consists of bytes.
LEMMA SupervisionBytes ==
  ASSUME NEW address \in Byte, NEW control \in Byte
  PROVE  Supervision(address, control) \in Seq(Byte)
<1>1. FLAG \in Byte
  BY ControlBytes
<1>2. Xor(address, control) \in Byte
  BY XorByte
<1> QED
  BY <1>1, <1>2 DEF Supervision

-----------------------------------------------------------------------------
\* x holds the successive values of moving_xor over the bytes of body.
Running(x, body) ==
  x = [ i \in 0 .. Len(body) |-> IF i = 0 THEN Seed ELSE Xor(body[i], x[i - 1]) ]

(***************************************************************************)
(* A non-empty set of natural numbers has a least element.                 *)
(***************************************************************************)
LEMMA LeastElement ==
  ASSUME NEW T, T \subseteq Nat, T # {}
  PROVE  \E m \in T : \A k \in T : ~ (k < m)
<1> DEFINE R == { ss \in Nat \X Nat : ss[1] < ss[2] }
<1>1. IsWellFoundedOn(R, Nat)
  BY NatLessThanWellFounded, Zenon DEF OpToRel
<1>2. PICK m \in T : \A k \in T : << k, m >> \notin R
  <2> HIDE DEF R
  <2> QED
    BY <1>1, WFMin
<1>3. ASSUME NEW k \in T PROVE ~ (k < m)
  BY <1>2
<1> QED
  BY <1>3

(***************************************************************************)
(* Bytes determine the successive values: otherwise there is a least index *)
(* at which two such functions differ.                                     *)
(***************************************************************************)
LEMMA RunningUnique ==
  ASSUME NEW body \in Seq(Byte), NEW x, NEW y, Running(x, body), Running(y, body)
  PROVE  x = y
<1> DEFINE differ == { i \in 0 .. Len(body) : x[i] # y[i] }
<1>1. ASSUME differ # {} PROVE FALSE
  <2>1. differ \subseteq Nat
    OBVIOUS
  <2>2. PICK m \in differ : \A k \in differ : ~ (k < m)
    BY <1>1, <2>1, LeastElement
  <2>3. m # 0
    BY <2>2 DEF Running
  <2>4. m - 1 \in 0 .. Len(body) /\ m - 1 < m
    BY <2>3
  <2>5. m - 1 \notin differ
    BY <2>2, <2>4
  <2>6. x[m - 1] = y[m - 1]
    BY <2>4, <2>5
  <2> QED
    BY <2>3, <2>6 DEF Running
<1>2. \A i \in 0 .. Len(body) : x[i] = y[i]
  BY <1>1
<1> QED
  BY <1>2 DEF Running

(***************************************************************************)
(* moving_xor after the whole body is the value BCC2 is computed to.       *)
(***************************************************************************)
LEMMA RunningIsBcc2 ==
  ASSUME NEW body \in Seq(Byte), NEW x, Running(x, body)
  PROVE  Bcc2(body) = x[Len(body)]
<1> DEFINE y == CHOOSE z : Running(z, body)
<1>1. Running(y, body)
  OBVIOUS
<1>2. y = x
  BY <1>1, RunningUnique
<1>3. Bcc2(body) = y[Len(body)]
  BY DEF Bcc2, Running
<1> QED
  BY <1>2, <1>3

(***************************************************************************)
(* One more byte, one more value.                                          *)
(***************************************************************************)
LEMMA RunningAppend ==
  ASSUME NEW body \in Seq(Byte), NEW x, Running(x, body), NEW b \in Byte
  PROVE  \E y : /\ Running(y, Append(body, b))
                /\ y[Len(body) + 1] = Xor(b, x[Len(body)])
<1> DEFINE n == Len(body) + 1
           y == [ i \in 0 .. n |-> IF i = n THEN Xor(b, x[n - 1]) ELSE x[i] ]
<1>1. Len(Append(body, b)) = n /\ n \in Nat \ {0}
  OBVIOUS
<1>2. ASSUME NEW i \in 0 .. n
      PROVE  y[i] = IF i = 0 THEN Seed ELSE Xor(Append(body, b)[i], y[i - 1])
  <2>1. CASE i = n
    BY <2>1, <1>1
  <2>2. CASE i = 0
    BY <2>2, <1>1 DEF Running
  <2>3. CASE i \in 1 .. Len(body)
    BY <2>3, <1>1 DEF Running
  <2> QED
    BY <2>1, <2>2, <2>3
<1>3. Running(y, Append(body, b))
  BY <1>1, <1>2 DEF Running
<1> QED
  BY <1>1, <1>3

\* The xor over an empty body is the seed.
LEMMA RunningEmpty == \E x : Running(x, << >>) /\ x[0] = Seed
<1> DEFINE x == [ i \in 0 .. 0 |-> Seed ]
<1>1. Running(x, << >>)
  BY DEF Running
<1> QED
  BY <1>1

(***************************************************************************)
(* Every sequence of bytes has such values, and they are bytes: otherwise  *)
(* there is a shortest piece of it without them.                           *)
(***************************************************************************)
LEMMA RunningExists ==
  ASSUME NEW body \in Seq(Byte)
  PROVE  \E x : Running(x, body)
<1> DEFINE piece(n) == SubSeq(body, 1, n)
           without == { n \in 0 .. Len(body) : ~ \E x : Running(x, piece(n)) }
<1>1. ASSUME without # {} PROVE FALSE
  <2>1. without \subseteq Nat
    OBVIOUS
  <2>2. PICK m \in without : \A k \in without : ~ (k < m)
    BY <1>1, <2>1, LeastElement
  <2>3. m # 0
    <3>1. piece(0) = << >>
      OBVIOUS
    <3> QED
      BY <2>2, <3>1, RunningEmpty
  <2>4. m - 1 \in 0 .. Len(body) /\ m - 1 < m /\ m \in 1 .. Len(body)
    BY <2>3
  <2>5. PICK x : Running(x, piece(m - 1))
    BY <2>2, <2>4
  <2>6. /\ piece(m - 1) \in Seq(Byte) /\ body[m] \in Byte
        /\ Append(piece(m - 1), body[m]) = piece(m)
    BY <2>4
  <2>7. \E y : Running(y, piece(m))
    BY <2>5, <2>6, RunningAppend
  <2> QED
    BY <2>2, <2>7
<1>2. Len(body) \in 0 .. Len(body) /\ piece(Len(body)) = body
  OBVIOUS
<1> QED
  BY <1>1, <1>2

\* The check byte of a sequence of bytes is a byte.
LEMMA Bcc2Type ==
  ASSUME NEW body \in Seq(Byte)
  PROVE  Bcc2(body) \in Byte
<1>1. PICK x : Running(x, body)
  BY RunningExists
<1> DEFINE wrong == { i \in 0 .. Len(body) : x[i] \notin Byte }
<1>2. ASSUME wrong # {} PROVE FALSE
  <2>1. wrong \subseteq Nat
    OBVIOUS
  <2>2. PICK m \in wrong : \A k \in wrong : ~ (k < m)
    BY <1>2, <2>1, LeastElement
  <2>3. Seed \in Byte
    BY ControlBytes
  <2>4. m # 0
    BY <1>1, <2>2, <2>3 DEF Running
  <2>5. m - 1 \in 0 .. Len(body) /\ m - 1 < m /\ m \in 1 .. Len(body)
    BY <2>4
  <2>6. x[m - 1] \in Byte /\ body[m] \in Byte
    BY <2>2, <2>5
  <2>7. x[m] = Xor(body[m], x[m - 1])
    BY <1>1, <2>4 DEF Running
  <2> QED
    BY <2>2, <2>6, <2>7, XorByte
<1>3. Bcc2(body) = x[Len(body)]
  BY <1>1, RunningIsBcc2
<1> QED
  BY <1>2, <1>3

-----------------------------------------------------------------------------
\* f holds what FlattenSeq makes of the first n sequences of ss.
Flat(f, ss, n) == f = [ i \in 1 .. n |-> IF i = 1 THEN ss[i] ELSE f[i - 1] \o ss[i] ]

\* Every sequence of sequences can be flattened.
LEMMA FlatExists ==
  ASSUME NEW T, NEW ss \in Seq(Seq(T))
  PROVE  \E f : Flat(f, ss, Len(ss))
<1> DEFINE without == { n \in 0 .. Len(ss) : ~ \E f : Flat(f, ss, n) }
<1>1. ASSUME without # {} PROVE FALSE
  <2>1. without \subseteq Nat
    OBVIOUS
  <2>2. PICK m \in without : \A k \in without : ~ (k < m)
    BY <1>1, <2>1, LeastElement
  <2>3. m # 0
    <3>1. Flat([ i \in 1 .. 0 |-> 0 ], ss, 0)
      BY DEF Flat
    <3> QED
      BY <2>2, <3>1
  <2>4. m - 1 \in 0 .. Len(ss) /\ m - 1 < m /\ m \in 1 .. Len(ss)
    BY <2>3
  <2>5. PICK f : Flat(f, ss, m - 1)
    BY <2>2, <2>4
  <2> DEFINE g == [ i \in 1 .. m |->
                      IF i = m THEN IF m = 1 THEN ss[m] ELSE f[m - 1] \o ss[m] ELSE f[i] ]
  <2>6. ASSUME NEW i \in 1 .. m
        PROVE  g[i] = IF i = 1 THEN ss[i] ELSE g[i - 1] \o ss[i]
    <3>1. CASE i = m
      BY <2>4, <3>1
    <3>2. CASE i \in 1 .. m - 1
      <4>1. f[i] = IF i = 1 THEN ss[i] ELSE f[i - 1] \o ss[i]
        BY <2>5, <3>2 DEF Flat
      <4>2. g[i] = f[i] /\ (i # 1 => g[i - 1] = f[i - 1])
        BY <2>4, <3>2
      <4> QED
        BY <4>1, <4>2
    <3> QED
      BY <2>4, <3>1, <3>2
  <2>7. Flat(g, ss, m)
    BY <2>6 DEF Flat
  <2> QED
    BY <2>2, <2>7
<1>2. Len(ss) \in 0 .. Len(ss)
  OBVIOUS
<1> QED
  BY <1>1, <1>2

(***************************************************************************)
(* Flattening sequences over a set gives a sequence over that set.         *)
(***************************************************************************)
LEMMA FlattenType ==
  ASSUME NEW T, NEW ss \in Seq(Seq(T))
  PROVE  FlattenSeq(ss) \in Seq(T)
<1>1. CASE Len(ss) = 0
  BY <1>1 DEF FlattenSeq
<1>2. CASE Len(ss) # 0
  <2> DEFINE f == CHOOSE g : Flat(g, ss, Len(ss))
             wrong == { i \in 1 .. Len(ss) : f[i] \notin Seq(T) }
  <2>1. Flat(f, ss, Len(ss))
    BY FlatExists
  <2>2. FlattenSeq(ss) = f[Len(ss)]
    BY <1>2 DEF FlattenSeq, Flat
  <2> HIDE DEF f
  <2>3. ASSUME wrong # {} PROVE FALSE
    <3>1. wrong \subseteq Nat
      OBVIOUS
    <3>2. PICK m \in wrong : \A k \in wrong : ~ (k < m)
      BY <2>3, <3>1, LeastElement
    <3>3. f[m] = IF m = 1 THEN ss[m] ELSE f[m - 1] \o ss[m]
      BY <2>1 DEF Flat
    <3>4. ss[m] \in Seq(T)
      OBVIOUS
    <3>5. m # 1 => f[m - 1] \in Seq(T)
      BY <3>2
    <3>6. m # 1 => f[m - 1] \o ss[m] \in Seq(T)
      BY <3>4, <3>5
    <3>7. f[m] \in Seq(T)
      BY <3>3, <3>4, <3>6
    <3> QED
      BY <3>2, <3>7
  <2> QED
    BY <1>2, <2>2, <2>3
<1> QED
  BY <1>1, <1>2

\* Sequences of one element and of two.
LEMMA Singles ==
  ASSUME NEW T, NEW a \in T, NEW b \in T
  PROVE  << a >> \in Seq(T) /\ << a, b >> \in Seq(T)
  OBVIOUS

(***************************************************************************)
(* Stuffing a payload leaves no flag in it, whatever the payload: only     *)
(* BCC2 can end a frame before its closing flag (s_ByteStuffing).          *)
(***************************************************************************)
THEOREM StuffedHasNoFlag ==
  ASSUME NEW payload \in Seq(Byte)
  PROVE  s_ByteStuffing(payload) \in Seq(Byte \ {FLAG})
<1> DEFINE T == Byte \ {FLAG}
           ss == [ i \in DOMAIN payload |->
                     IF payload[i] \in {FLAG, ESC} THEN << ESC, Xor(payload[i], 32) >>
                                                   ELSE << payload[i] >> ]
<1>1. Xor(FLAG, 32) \in T /\ Xor(ESC, 32) \in T /\ ESC \in T
  BY DEF Xor, FLAG, ESC, Byte
<1>2. ASSUME NEW i \in 1 .. Len(payload) PROVE ss[i] \in Seq(T)
  <2>1. payload[i] \in Byte /\ i \in DOMAIN payload
    OBVIOUS
  <2>2. CASE payload[i] \in {FLAG, ESC}
    <3>1. Xor(payload[i], 32) \in T
      BY <1>1, <2>2
    <3>2. ss[i] = << ESC, Xor(payload[i], 32) >>
      BY <2>1, <2>2, Zenon
    <3> QED
      BY <1>1, <3>1, <3>2, Singles
  <2>3. CASE payload[i] \notin {FLAG, ESC}
    <3>1. payload[i] \in T
      BY <2>1, <2>3
    <3>2. ss[i] = << payload[i] >>
      BY <2>1, <2>3, Zenon
    <3> QED
      BY <3>1, <3>2, Singles
  <2> QED
    BY <2>2, <2>3
<1>3. ss \in Seq(Seq(T))
  <2>1. Len(payload) \in Nat /\ DOMAIN payload = 1 .. Len(payload)
    OBVIOUS
  <2> HIDE DEF T
  <2>2. ss \in [ 1 .. Len(payload) -> Seq(T) ]
    BY <1>2, <2>1
  <2> QED
    BY <2>1, <2>2
<1>4. s_ByteStuffing(payload) = FlattenSeq(ss)
  BY DEF s_ByteStuffing
<1> HIDE DEF ss, T
<1>5. s_ByteStuffing(payload) \in Seq(T)
  BY <1>3, <1>4, FlattenType
<1> QED
  BY <1>5 DEF T

\* A frame consists of bytes.
LEMMA DataFrameType ==
  ASSUME NEW payload \in Seq(Byte), NEW bit \in {0, 1}
  PROVE  DataFrame(payload, bit) \in Seq(Byte)
<1> DEFINE body == s_ByteStuffing(payload)
<1>1. body \in Seq(Byte)
  BY StuffedHasNoFlag
<1> HIDE DEF body
<1>2. Bcc2(body) \in Byte /\ FLAG \in Byte /\ SenderAddress \in Byte /\ I(bit) \in Byte
  BY <1>1, Bcc2Type, ControlBytes
<1>3. Xor(SenderAddress, I(bit)) \in Byte
  BY <1>2, XorByte
<1>4. << FLAG, SenderAddress, I(bit), Xor(SenderAddress, I(bit)) >> \in Seq(Byte)
  BY <1>2, <1>3
<1>5. << Bcc2(body), FLAG >> \in Seq(Byte)
  BY <1>2
<1>6. DataFrame(payload, bit)
        = << FLAG, SenderAddress, I(bit), Xor(SenderAddress, I(bit)) >>
            \o body \o << Bcc2(body), FLAG >>
  BY DEF DataFrame, body
<1> QED
  BY <1>1, <1>4, <1>5, <1>6

(***************************************************************************)
(* The sequences determine what FlattenSeq makes of them.                  *)
(***************************************************************************)
LEMMA FlatUnique ==
  ASSUME NEW ss, NEW n \in Nat, NEW f, NEW g, Flat(f, ss, n), Flat(g, ss, n)
  PROVE  f = g
<1> DEFINE differ == { i \in 1 .. n : f[i] # g[i] }
<1>1. ASSUME differ # {} PROVE FALSE
  <2>1. differ \subseteq Nat
    OBVIOUS
  <2>2. PICK m \in differ : \A k \in differ : ~ (k < m)
    BY <1>1, <2>1, LeastElement
  <2>3. m # 1
    BY <2>2 DEF Flat
  <2>4. m - 1 \in 1 .. n /\ m - 1 < m
    BY <2>3
  <2>5. f[m - 1] = g[m - 1]
    BY <2>2, <2>4
  <2>6. m \in 1 .. n /\ f[m] # g[m]
    OBVIOUS
  <2>7. f[m] = f[m - 1] \o ss[m]
    <3> HIDE DEF differ
    <3> QED
      BY <2>3, <2>6 DEF Flat
  <2>8. g[m] = g[m - 1] \o ss[m]
    <3> HIDE DEF differ
    <3> QED
      BY <2>3, <2>6 DEF Flat
  <2> QED
    BY <2>5, <2>6, <2>7, <2>8
<1>2. \A i \in 1 .. n : f[i] = g[i]
  BY <1>1
<1> QED
  BY <1>2 DEF Flat

(***************************************************************************)
(* FlattenSeq appends the last sequence to what it makes of the others.    *)
(***************************************************************************)
LEMMA FlattenAppend ==
  ASSUME NEW T, NEW ss \in Seq(Seq(T)), NEW x \in Seq(T)
  PROVE  FlattenSeq(Append(ss, x)) = FlattenSeq(ss) \o x
<1> DEFINE n == Len(ss)
           tt == Append(ss, x)
<1>1. /\ tt \in Seq(Seq(T)) /\ Len(tt) = n + 1 /\ n \in Nat /\ tt[n + 1] = x
      /\ \A i \in 1 .. n : tt[i] = ss[i]
  OBVIOUS
<1> DEFINE f == CHOOSE h : Flat(h, ss, n)
           g == CHOOSE h : Flat(h, tt, n + 1)
<1>2. Flat(f, ss, n)
  BY FlatExists
<1>3. Flat(g, tt, n + 1)
  BY <1>1, FlatExists
<1>4. FlattenSeq(tt) = g[n + 1]
  <2>1. Len(tt) # 0
    BY <1>1
  <2>2. FlattenSeq(tt) = g[Len(tt)]
    <3> HIDE DEF tt
    <3> QED
      BY <1>1, <2>1 DEF FlattenSeq, Flat
  <2> QED
    BY <1>1, <2>2
<1>5. n # 0 => FlattenSeq(ss) = f[n]
  BY <1>1 DEF FlattenSeq, Flat
<1> HIDE DEF f, g, tt
<1>6. CASE n = 0
  <2>1. g[n + 1] = tt[n + 1]
    BY <1>3, <1>6 DEF Flat
  <2>2. ss = << >> /\ FlattenSeq(ss) = << >>
    BY <1>6 DEF FlattenSeq
  <2>3. << >> \o x = x
    OBVIOUS
  <2> QED
    BY <1>1, <1>4, <2>1, <2>2, <2>3 DEF tt
<1>7. CASE n # 0
  <2> DEFINE h == [ i \in 1 .. n |-> g[i] ]
  <2>1. ASSUME NEW i \in 1 .. n PROVE h[i] = IF i = 1 THEN ss[i] ELSE h[i - 1] \o ss[i]
    <3>1. i \in 1 .. n + 1 /\ (i # 1 => i - 1 \in 1 .. n)
      BY <1>1
    <3>2. g[i] = IF i = 1 THEN tt[i] ELSE g[i - 1] \o tt[i]
      BY <1>3, <3>1 DEF Flat
    <3> QED
      BY <1>1, <3>1, <3>2
  <2>2. Flat(h, ss, n)
    BY <2>1 DEF Flat
  <2>3. h = f
    BY <1>1, <1>2, <2>2, FlatUnique
  <2>4. g[n + 1] = g[n] \o tt[n + 1]
    <3>1. n + 1 \in 1 .. n + 1 /\ n + 1 # 1 /\ n + 1 - 1 = n
      BY <1>1, <1>7
    <3>2. ASSUME NEW i \in 1 .. n + 1
          PROVE  g[i] = IF i = 1 THEN tt[i] ELSE g[i - 1] \o tt[i]
      BY <1>3 DEF Flat
    <3> DEFINE k == n + 1
    <3>3. k \in 1 .. n + 1 /\ k # 1 /\ k - 1 = n
      BY <3>1
    <3> HIDE DEF k
    <3>4. g[k] = g[k - 1] \o tt[k]
      BY <3>2, <3>3
    <3> QED
      BY <3>3, <3>4 DEF k
  <2>5. g[n] = f[n]
    <3>1. n \in 1 .. n
      BY <1>1, <1>7
    <3> QED
      BY <2>3, <3>1
  <2> QED
    BY <1>1, <1>4, <1>5, <1>7, <2>4, <2>5 DEF tt
<1> QED
  BY <1>6, <1>7

\* Flattening nothing.
LEMMA FlattenEmpty == FlattenSeq(<< >>) = << >>
  BY DEF FlattenSeq

-----------------------------------------------------------------------------
(***************************************************************************)
(* The check byte of one byte more.                                        *)
(***************************************************************************)
LEMMA Bcc2Append ==
  ASSUME NEW body \in Seq(Byte), NEW b \in Byte
  PROVE  Bcc2(Append(body, b)) = Xor(b, Bcc2(body))
<1>1. PICK x : Running(x, body)
  BY RunningExists
<1>2. PICK y : Running(y, Append(body, b)) /\ y[Len(body) + 1] = Xor(b, x[Len(body)])
  BY <1>1, RunningAppend
<1>3. Append(body, b) \in Seq(Byte) /\ Len(Append(body, b)) = Len(body) + 1
  OBVIOUS
<1> QED
  BY <1>1, <1>2, <1>3, RunningIsBcc2

\* The check byte of nothing.
LEMMA Bcc2Empty == Bcc2(<< >>) = Seed
<1>1. PICK x : Running(x, << >>) /\ x[0] = Seed
  BY RunningEmpty
<1>2. << >> \in Seq(Byte) /\ Len(<< >>) = 0
  OBVIOUS
<1> QED
  BY <1>1, <1>2, RunningIsBcc2

\* Two sequences with the same elements are the same.
LEMMA SameSequence ==
  ASSUME NEW T, NEW s \in Seq(T), NEW t \in Seq(T), Len(s) = Len(t),
         \A i \in 1 .. Len(s) : s[i] = t[i]
  PROVE  s = t
<1>1. s = [ i \in 1 .. Len(s) |-> s[i] ] /\ t = [ i \in 1 .. Len(s) |-> t[i] ]
  OBVIOUS
<1> QED
  BY <1>1

-----------------------------------------------------------------------------
\* What s_ByteStuffing makes of one byte.
Stuff(x) == IF x \in {FLAG, ESC} THEN << ESC, Xor(x, 32) >> ELSE << x >>

\* Stuffing a byte gives bytes.
LEMMA StuffType == ASSUME NEW x \in Byte PROVE Stuff(x) \in Seq(Byte)
<1>1. ESC \in Byte /\ 32 \in Byte
  BY DEF ESC, Byte
<1>2. Xor(x, 32) \in Byte
  BY <1>1, XorByte
<1> QED
  BY <1>1, <1>2 DEF Stuff

(***************************************************************************)
(* s_ByteStuffing stuffs byte after byte.                                  *)
(***************************************************************************)
LEMMA StuffAppend ==
  ASSUME NEW p \in Seq(Byte), NEW x \in Byte
  PROVE  s_ByteStuffing(Append(p, x)) = s_ByteStuffing(p) \o Stuff(x)
<1> DEFINE ss == [ i \in DOMAIN p |-> Stuff(p[i]) ]
           tt == [ i \in DOMAIN Append(p, x) |-> Stuff(Append(p, x)[i]) ]
<1>1. s_ByteStuffing(p) = FlattenSeq(ss) /\ s_ByteStuffing(Append(p, x)) = FlattenSeq(tt)
  BY DEF s_ByteStuffing, Stuff
<1>2. \A i \in 1 .. Len(p) : Stuff(p[i]) \in Seq(Byte)
  BY StuffType
<1>3. ss \in Seq(Seq(Byte)) /\ Len(ss) = Len(p)
  <2>1. ss \in [ 1 .. Len(p) -> Seq(Byte) ]
    BY <1>2
  <2> QED
    BY <2>1
<1>4. tt = Append(ss, Stuff(x))
  <2>1. /\ Append(p, x) \in Seq(Byte) /\ Len(Append(p, x)) = Len(p) + 1
        /\ Append(p, x)[Len(p) + 1] = x
        /\ \A i \in 1 .. Len(p) : Append(p, x)[i] = p[i]
    OBVIOUS
  <2>2. DOMAIN tt = 1 .. Len(p) + 1
    BY <2>1
  <2>3. DOMAIN Append(ss, Stuff(x)) = 1 .. Len(p) + 1
    BY <1>3
  <2>4. ASSUME NEW i \in 1 .. Len(p) PROVE tt[i] = Append(ss, Stuff(x))[i]
    <3>1. tt[i] = Stuff(p[i])
      BY <2>1, <2>2
    <3>2. Append(ss, Stuff(x))[i] = ss[i]
      BY <1>3
    <3> QED
      BY <3>1, <3>2
  <2>5. tt[Len(p) + 1] = Stuff(x)
    BY <2>1, <2>2
  <2>6. Append(ss, Stuff(x))[Len(p) + 1] = Stuff(x)
    BY <1>3
  <2>7. \A i \in 1 .. Len(p) + 1 : tt[i] = Append(ss, Stuff(x))[i]
    BY <2>4, <2>5, <2>6
  <2>8. Append(ss, Stuff(x)) = [ i \in 1 .. Len(p) + 1 |-> Append(ss, Stuff(x))[i] ]
    BY <1>3
  <2>9. tt = [ i \in 1 .. Len(p) + 1 |-> tt[i] ]
    BY <2>2
  <2> QED
    BY <2>7, <2>8, <2>9
<1> HIDE DEF ss, tt
<1> QED
  BY <1>1, <1>3, <1>4, StuffType, FlattenAppend

\* Nothing is stuffed to nothing.
LEMMA StuffEmpty == s_ByteStuffing(<< >>) = << >>
<1>1. [ i \in DOMAIN << >> |-> IF << >>[i] \in {FLAG, ESC} THEN << ESC, Xor(<< >>[i], 32) >>
                                                       ELSE << << >>[i] >> ] = << >>
  OBVIOUS
<1> QED
  BY <1>1, FlattenEmpty DEF s_ByteStuffing

-----------------------------------------------------------------------------
\* What the loop of r_ByteStuffing makes of each byte.
Pieces(str) ==
  [ i \in DOMAIN str |->
      CASE PairAt(str, i - 1) -> << >>
        [] PairAt(str, i)     -> << Xor(str[i + 1], 32) >>
        [] OTHER              -> << str[i] >> ]

EndsPlain(str) == str = << >> \/ str[Len(str)] # ESC

\* The pieces of a sequence of bytes are sequences of bytes.
LEMMA PiecesType ==
  ASSUME NEW str \in Seq(Byte)
  PROVE  Pieces(str) \in Seq(Seq(Byte)) /\ Len(Pieces(str)) = Len(str)
<1>1. ASSUME NEW i \in 1 .. Len(str) PROVE Pieces(str)[i] \in Seq(Byte)
  <2>1. str[i] \in Byte /\ << >> \in Seq(Byte) /\ << str[i] >> \in Seq(Byte)
    OBVIOUS
  <2>2. ASSUME PairAt(str, i) PROVE << Xor(str[i + 1], 32) >> \in Seq(Byte)
    <3>1. str[i + 1] \in Byte /\ 32 \in Byte
      BY <2>2 DEF PairAt, Byte
    <3>2. Xor(str[i + 1], 32) \in Byte
      BY <3>1, XorByte
    <3> QED
      BY <3>2, Singles
  <2>3. Pieces(str)[i] = CASE PairAt(str, i - 1) -> << >>
                           [] PairAt(str, i)     -> << Xor(str[i + 1], 32) >>
                           [] OTHER              -> << str[i] >>
    BY DEF Pieces
  <2> QED
    BY <2>1, <2>2, <2>3, Zenon
<1>2. DOMAIN Pieces(str) = 1 .. Len(str) /\ Len(str) \in Nat
  BY DEF Pieces
<1>3. Pieces(str) = [ i \in 1 .. Len(str) |-> Pieces(str)[i] ]
  BY <1>2 DEF Pieces
<1> HIDE DEF Pieces
<1>4. Pieces(str) \in [ 1 .. Len(str) -> Seq(Byte) ]
  BY <1>1, <1>3
<1> QED
  BY <1>2, <1>4

(***************************************************************************)
(* What follows a byte that escapes nothing changes no piece before it.    *)
(***************************************************************************)
LEMMA PiecesBefore ==
  ASSUME NEW str \in Seq(Byte), NEW new \in Seq(Byte), EndsPlain(str),
         Len(new) > Len(str), \A i \in 1 .. Len(str) : new[i] = str[i]
  PROVE  /\ ~PairAt(new, Len(str))
         /\ \A i \in 1 .. Len(str) : Pieces(new)[i] = Pieces(str)[i]
<1> DEFINE n == Len(str)
<1>1. /\ Len(new) \in Nat /\ n \in Nat /\ Len(new) > n
      /\ \A i \in 1 .. n : new[i] = str[i]
  OBVIOUS
<1>2. ~PairAt(str, n)
  BY <1>1 DEF PairAt
<1>3. n \in 1 .. n => str[n] # ESC
  BY <1>1 DEF EndsPlain
<1> HIDE DEF n
<1>4. ~PairAt(new, n)
  BY <1>1, <1>3 DEF PairAt
<1>5. ASSUME NEW i \in 0 .. n PROVE PairAt(new, i) <=> PairAt(str, i)
  <2>1. CASE i = n
    BY <1>2, <1>4, <2>1
  <2>2. CASE i # n
    <3>1. /\ i \in 1 .. Len(new) - 1 <=> i \in 1 .. Len(str) - 1
          /\ i \in 1 .. Len(str) - 1 => new[i] = str[i] /\ new[i + 1] = str[i + 1]
      BY <1>1, <2>2 DEF n
    <3> QED
      BY <3>1 DEF PairAt
  <2> QED
    BY <2>1, <2>2
<1>6. ASSUME NEW i \in 1 .. n PROVE Pieces(new)[i] = Pieces(str)[i]
  <2>1. i \in DOMAIN str /\ i \in DOMAIN new /\ i - 1 \in 0 .. n /\ i \in 0 .. n
    BY <1>1 DEF n
  <2>2. Pieces(str)[i] = CASE PairAt(str, i - 1) -> << >>
                           [] PairAt(str, i)     -> << Xor(str[i + 1], 32) >>
                           [] OTHER              -> << str[i] >>
    BY <2>1 DEF Pieces
  <2>3. Pieces(new)[i] = CASE PairAt(new, i - 1) -> << >>
                           [] PairAt(new, i)     -> << Xor(new[i + 1], 32) >>
                           [] OTHER              -> << new[i] >>
    BY <2>1 DEF Pieces
  <2>4. PairAt(new, i - 1) <=> PairAt(str, i - 1)
    BY <1>5, <2>1
  <2>5. PairAt(new, i) <=> PairAt(str, i)
    BY <1>5, <2>1
  <2>6. new[i] = str[i] /\ (PairAt(str, i) => new[i + 1] = str[i + 1])
    BY <1>1 DEF PairAt, n
  <2> HIDE DEF PairAt
  <2> QED
    BY <2>2, <2>3, <2>4, <2>5, <2>6
<1> QED
  BY <1>4, <1>6 DEF n

(***************************************************************************)
(* A byte after one that escapes nothing is a piece of its own.            *)
(***************************************************************************)
LEMMA PiecesAppend ==
  ASSUME NEW str \in Seq(Byte), NEW b \in Byte, EndsPlain(str)
  PROVE  Pieces(Append(str, b)) = Append(Pieces(str), << b >>)
<1> DEFINE n == Len(str)
           new == Append(str, b)
           both == Append(Pieces(str), << b >>)
<1>1. /\ new \in Seq(Byte) /\ Len(new) = n + 1 /\ n \in Nat
      /\ new[n + 1] = b /\ \A i \in 1 .. n : new[i] = str[i]
  OBVIOUS
<1>2. << b >> \in Seq(Byte)
  OBVIOUS
<1>3. /\ both \in Seq(Seq(Byte)) /\ Len(both) = n + 1
      /\ both[n + 1] = << b >> /\ \A i \in 1 .. n : both[i] = Pieces(str)[i]
  BY <1>2, PiecesType
<1> HIDE DEF n, new, both
<1>4. ~PairAt(new, n) /\ \A i \in 1 .. n : Pieces(new)[i] = Pieces(str)[i]
  <2>1. Len(new) > Len(str)
    BY <1>1 DEF n
  <2> QED
    BY <1>1, <2>1, PiecesBefore DEF n
<1>5. Pieces(new) \in Seq(Seq(Byte)) /\ Len(Pieces(new)) = n + 1
  BY <1>1, PiecesType
<1>6. ASSUME NEW k, k = n + 1 PROVE Pieces(new)[k] = << b >>
  <2>1. k \in DOMAIN new /\ k - 1 = n /\ ~PairAt(new, k)
    BY <1>1, <1>6 DEF PairAt
  <2>2. Pieces(new)[k] = CASE PairAt(new, k - 1) -> << >>
                           [] PairAt(new, k)     -> << Xor(new[k + 1], 32) >>
                           [] OTHER              -> << new[k] >>
    BY <2>1 DEF Pieces
  <2> QED
    BY <1>1, <1>4, <1>6, <2>1, <2>2
<1>7. ASSUME NEW i \in 1 .. n + 1 PROVE Pieces(new)[i] = both[i]
  <2>1. i \in 1 .. n \/ i = n + 1
    BY <1>1
  <2> QED
    BY <1>3, <1>4, <1>6, <2>1
<1>8. Pieces(new) = both
  BY <1>3, <1>5, <1>7, SameSequence
<1> QED
  BY <1>8 DEF new, both

(***************************************************************************)
(* An escape pair there is a piece of one byte and an empty one.           *)
(***************************************************************************)
LEMMA PiecesPair ==
  ASSUME NEW str \in Seq(Byte), NEW y, y \in {124, 125}, EndsPlain(str)
  PROVE  Pieces(str \o << ESC, y >>) = Append(Append(Pieces(str), << Xor(y, 32) >>), << >>)
<1> DEFINE n == Len(str)
           new == str \o << ESC, y >>
           both == Append(Append(Pieces(str), << Xor(y, 32) >>), << >>)
<1>1. ESC \in Byte /\ y \in Byte /\ 32 \in Byte
  BY DEF ESC, Byte
<1>2. /\ new \in Seq(Byte) /\ Len(new) = n + 2 /\ n \in Nat
      /\ new[n + 1] = ESC /\ new[n + 2] = y /\ \A i \in 1 .. n : new[i] = str[i]
  BY <1>1
<1>3. << Xor(y, 32) >> \in Seq(Byte) /\ << >> \in Seq(Byte)
  BY <1>1, XorByte
<1>4. /\ both \in Seq(Seq(Byte)) /\ Len(both) = n + 2
      /\ both[n + 1] = << Xor(y, 32) >> /\ both[n + 2] = << >>
      /\ \A i \in 1 .. n : both[i] = Pieces(str)[i]
  BY <1>3, PiecesType
<1> HIDE DEF n, new, both
<1>5. ~PairAt(new, n) /\ \A i \in 1 .. n : Pieces(new)[i] = Pieces(str)[i]
  <2>1. Len(new) > Len(str)
    BY <1>2 DEF n
  <2> QED
    BY <1>2, <2>1, PiecesBefore DEF n
<1>6. Pieces(new) \in Seq(Seq(Byte)) /\ Len(Pieces(new)) = n + 2
  BY <1>2, PiecesType
<1>7. ASSUME NEW k \in DOMAIN new
      PROVE  Pieces(new)[k] = CASE PairAt(new, k - 1) -> << >>
                                [] PairAt(new, k)     -> << Xor(new[k + 1], 32) >>
                                [] OTHER              -> << new[k] >>
  BY DEF Pieces
<1>8. ASSUME NEW k, k = n + 1 PROVE Pieces(new)[k] = << Xor(y, 32) >>
  <2>1. k \in DOMAIN new /\ k - 1 = n /\ PairAt(new, k) /\ new[k + 1] = y
    BY <1>2, <1>8 DEF PairAt
  <2> QED
    BY <1>5, <1>7, <2>1
<1>9. ASSUME NEW k, k = n + 2 PROVE Pieces(new)[k] = << >>
  <2>1. k \in DOMAIN new /\ PairAt(new, k - 1)
    BY <1>2, <1>9 DEF PairAt
  <2>2. ~PairAt(new, k)
    BY <1>2, <1>9 DEF PairAt
  <2> HIDE DEF PairAt
  <2> QED
    BY <1>7, <2>1, <2>2
<1>10. ASSUME NEW i \in 1 .. n + 2 PROVE Pieces(new)[i] = both[i]
  <2>1. i \in 1 .. n \/ i = n + 1 \/ i = n + 2
    BY <1>2
  <2> QED
    BY <1>4, <1>5, <1>8, <1>9, <2>1
<1>11. Pieces(new) = both
  BY <1>4, <1>6, <1>10, SameSequence
<1> QED
  BY <1>11 DEF new, both

-----------------------------------------------------------------------------
\* What the loop of r_ByteStuffing makes of a whole body.
Destuffed(str) == FlattenSeq(Pieces(str))

\* One byte, or one escape pair, more.
LEMMA DestuffOne ==
  ASSUME NEW str \in Seq(Byte), NEW b \in Byte, EndsPlain(str)
  PROVE  Destuffed(Append(str, b)) = Append(Destuffed(str), b)
<1>1. << b >> \in Seq(Byte) /\ Pieces(str) \in Seq(Seq(Byte))
  BY PiecesType
<1>2. Destuffed(Append(str, b)) = Destuffed(str) \o << b >>
  BY <1>1, PiecesAppend, FlattenAppend DEF Destuffed
<1>3. Destuffed(str) \in Seq(Byte)
  BY <1>1, FlattenType DEF Destuffed
<1> HIDE DEF Destuffed
<1> QED
  BY <1>2, <1>3

\* The pair before the last byte: destuffing drops the check byte, not the pair.
LEMMA DestuffPair ==
  ASSUME NEW str \in Seq(Byte), NEW y, y \in {124, 125}, EndsPlain(str)
  PROVE  Destuffed(str \o << ESC, y >>) = Append(Destuffed(str), Xor(y, 32))
<1>1. Xor(y, 32) \in Byte
  <2>1. y \in Byte /\ 32 \in Byte
    BY DEF Byte
  <2> QED
    BY <2>1, XorByte
<1> DEFINE z == Xor(y, 32)
<1>2. << z >> \in Seq(Byte) /\ << >> \in Seq(Byte) /\ Pieces(str) \in Seq(Seq(Byte))
  BY <1>1, PiecesType
<1>3. Append(Pieces(str), << z >>) \in Seq(Seq(Byte))
  BY <1>2
<1>4. Destuffed(str \o << ESC, y >>) = FlattenSeq(Append(Pieces(str), << z >>)) \o << >>
  <2> DEFINE ss == Append(Pieces(str), << z >>)
  <2>1. Pieces(str \o << ESC, y >>) = Append(ss, << >>)
    BY PiecesPair
  <2> HIDE DEF ss
  <2>2. FlattenSeq(Append(ss, << >>)) = FlattenSeq(ss) \o << >>
    BY <1>2, <1>3, FlattenAppend DEF ss
  <2> QED
    BY <2>1, <2>2 DEF Destuffed, ss
<1>5. FlattenSeq(Append(Pieces(str), << z >>)) = Destuffed(str) \o << z >>
  BY <1>2, FlattenAppend DEF Destuffed
<1>6. Destuffed(str) \in Seq(Byte)
  BY <1>2, FlattenType DEF Destuffed
<1> HIDE DEF Destuffed, z
<1>7. Destuffed(str) \o << z >> = Append(Destuffed(str), z)
  BY <1>1, <1>6 DEF z
<1>8. (Destuffed(str) \o << z >>) \o << >> = Destuffed(str) \o << z >>
  BY <1>2, <1>6
<1> QED
  BY <1>4, <1>5, <1>7, <1>8 DEF z

(***************************************************************************)
(* Destuffing undoes the stuffing: otherwise there is a shortest piece of  *)
(* a payload for which it does not.                                        *)
(***************************************************************************)
LEMMA DestuffStuffed ==
  ASSUME NEW p \in Seq(Byte)
  PROVE  EndsPlain(s_ByteStuffing(p)) /\ Destuffed(s_ByteStuffing(p)) = p
<1> DEFINE piece(n) == SubSeq(p, 1, n)
           undone(q) == EndsPlain(s_ByteStuffing(q)) /\ Destuffed(s_ByteStuffing(q)) = q
           wrong == { n \in 0 .. Len(p) : ~ undone(piece(n)) }
<1>1. ASSUME wrong # {} PROVE FALSE
  <2>1. wrong \subseteq Nat
    OBVIOUS
  <2>2. PICK m \in wrong : \A k \in wrong : ~ (k < m)
    BY <1>1, <2>1, LeastElement
  <2>3. m # 0
    <3>1. piece(0) = << >>
      OBVIOUS
    <3>2. Pieces(<< >>) = << >>
      <4>1. << >> \in Seq(Byte) /\ Len(<< >>) = 0
        OBVIOUS
      <4>2. Pieces(<< >>) \in Seq(Seq(Byte)) /\ Len(Pieces(<< >>)) = 0
        BY <4>1, PiecesType
      <4> QED
        BY <4>2
    <3>3. undone(<< >>)
      BY <3>2, StuffEmpty, FlattenEmpty DEF EndsPlain, Destuffed
    <3> QED
      BY <2>2, <3>1, <3>3
  <2>4. m - 1 \in 0 .. Len(p) /\ m - 1 < m /\ m \in 1 .. Len(p)
    BY <2>3
  <2> DEFINE q == piece(m - 1)
             x == p[m]
             s == s_ByteStuffing(q)
  <2>5. EndsPlain(s) /\ Destuffed(s) = q
    BY <2>2, <2>4
  <2>6. q \in Seq(Byte) /\ x \in Byte /\ piece(m) = Append(q, x)
    BY <2>4
  <2> HIDE DEF q, x, piece
  <2>7. s \in Seq(Byte)
    BY <2>6, StuffedHasNoFlag
  <2>8. s_ByteStuffing(piece(m)) = s \o Stuff(x)
    BY <2>6, StuffAppend
  <2> HIDE DEF s
  <2>9. CASE x \in {FLAG, ESC}
    <3> DEFINE y == Xor(x, 32)
    <3>1. y \in {124, 125} /\ Xor(y, 32) = x
      BY <2>9 DEF Xor, FLAG, ESC
    <3>2. Stuff(x) = << ESC, y >>
      BY <2>9 DEF Stuff
    <3> HIDE DEF y
    <3>3. Destuffed(s \o << ESC, y >>) = Append(q, x)
      BY <2>5, <2>7, <3>1, DestuffPair
    <3>4. EndsPlain(s \o << ESC, y >>)
      <4>1. /\ Len(s \o << ESC, y >>) = Len(s) + 2
            /\ (s \o << ESC, y >>)[Len(s) + 2] = y
        BY <2>7
      <4> QED
        BY <3>1, <4>1 DEF EndsPlain, ESC
    <3> QED
      BY <2>2, <2>6, <2>8, <3>2, <3>3, <3>4
  <2>10. CASE x \notin {FLAG, ESC}
    <3>1. s \o Stuff(x) = Append(s, x)
      BY <2>6, <2>7, <2>10 DEF Stuff
    <3>2. Destuffed(Append(s, x)) = Append(q, x)
      BY <2>5, <2>6, <2>7, DestuffOne
    <3>3. EndsPlain(Append(s, x))
      <4>1. Len(Append(s, x)) = Len(s) + 1 /\ Append(s, x)[Len(s) + 1] = x
        BY <2>6, <2>7
      <4> QED
        BY <2>10, <4>1 DEF EndsPlain
    <3> QED
      BY <2>2, <2>6, <2>8, <3>1, <3>2, <3>3
  <2> QED
    BY <2>9, <2>10
<1>2. Len(p) \in 0 .. Len(p) /\ piece(Len(p)) = p
  OBVIOUS
<1>3. undone(piece(Len(p)))
  BY <1>1, <1>2
<1> HIDE DEF undone
<1>4. undone(p)
  BY <1>2, <1>3
<1> QED
  BY <1>4 DEF undone

(***************************************************************************)
(* Whatever the payload and whatever the check byte after it: destuffing   *)
(* the body of a frame gives back the payload (r_ByteStuffing against      *)
(* s_ByteStuffing, BCC2 written without stuffing and dropped at the end).  *)
(***************************************************************************)
THEOREM StuffingRoundTrip ==
  ASSUME NEW payload \in Seq(Byte), NEW bcc2 \in Byte
  PROVE  r_ByteStuffing(Append(s_ByteStuffing(payload), bcc2)) = payload
<1> DEFINE s == s_ByteStuffing(payload)
<1>1. s \in Seq(Byte)
  BY StuffedHasNoFlag
<1>2. EndsPlain(s) /\ Destuffed(s) = payload
  BY DestuffStuffed
<1> HIDE DEF s
<1>3. Destuffed(Append(s, bcc2)) = Append(payload, bcc2)
  BY <1>1, <1>2, DestuffOne
<1>4. r_ByteStuffing(Append(s, bcc2)) = Front(Destuffed(Append(s, bcc2)))
  BY DEF r_ByteStuffing, Destuffed, Pieces
<1>5. Front(Append(payload, bcc2)) = payload
  BY DEF Front
<1> QED
  BY <1>3, <1>4, <1>5 DEF s

\* The types of what the receiving program reads and writes.
PortTypeOK == WireTypeOK /\ ReceiverTypeOK

-----------------------------------------------------------------------------
(***************************************************************************)
(* A supervision automaton stays among its states until it is done.        *)
(***************************************************************************)
LEMMA RecogniseType ==
  ASSUME NEW state \in Hunting, NEW byte, NEW control
  PROVE  r_Recognise(state, byte, control) \in Hunting \cup {"Z"}
<1>1. Advance(state) \in Hunting \cup {"Z"}
  BY DEF Advance, Hunting
<1>2. {"S", "F"} \subseteq Hunting
  BY DEF Hunting
<1> QED
  BY <1>1, <1>2 DEF r_Recognise

(***************************************************************************)
(* The next byte of a parser, from the line or left over, is a byte, and   *)
(* reading it leaves bytes on the line.                                    *)
(***************************************************************************)
LEMMA InputType ==
  ASSUME PortTypeOK PROVE Input \subseteq Byte
  BY GarbageAssumption DEF PortTypeOK, WireTypeOK, Input

\* Using up a byte keeps the type of the line and of STOP.
LEMMA ConsumeType ==
  ASSUME PortTypeOK, NEW b \in Input, NEW returns \in BOOLEAN, Consume(returns)
  PROVE  rIn' \in Seq(Byte) /\ STOP' \in BOOLEAN
  BY DEF PortTypeOK, WireTypeOK, Input, Consume

(***************************************************************************)
(* The locals a parser starts from are of their types.                     *)
(***************************************************************************)
DataParser == [ st : ParserStates, mxor : Byte, toggle : {0, 1}, data : Seq(Byte), t2 : Byte ]

\* A parser that starts has the type of its locals.
LEMMA ParserType ==
  ASSUME NEW t2 \in Byte PROVE Parser(t2) \in DataParser
<1>1. Seed \in Byte /\ 0 \in ParserStates /\ << >> \in Seq(Byte)
  BY ControlBytes DEF ParserStates
<1> QED
  BY <1>1 DEF Parser, DataParser

\* So has one with uninitialised locals.
LEMMA NewParserType == NewParser => dp' \in DataParser
  BY ParserType, GarbageAssumption DEF NewParser

(***************************************************************************)
(* What the supervision automata write is a sequence of bytes.             *)
(***************************************************************************)
LEMMA AnswersType ==
  /\ Supervision(SenderAddress, UA) \in Seq(Byte)
  /\ Supervision(ReceiverAddress, DISC) \in Seq(Byte)
  /\ \A bit \in {0, 1} : Supervision(ReceiverAddress, RR(bit)) \in Seq(Byte)
  BY ControlBytes, SupervisionBytes

-----------------------------------------------------------------------------
\* The parser moves to another state with what it has collected.
Kept == /\ dp' \in DataParser
        /\ dp'.data = dp.data /\ dp'.mxor = dp.mxor /\ dp'.toggle = dp.toggle

Moved == dp.st # 4 /\ Step(dp') /\ Kept

\* A change of state alone is a step that keeps what was collected.
LEMMA GotoKeeps ==
  ASSUME dp \in DataParser, NEW st \in ParserStates, Goto(st)
  PROVE  Step(dp') /\ Kept
<1>1. dp' = [ dp EXCEPT !.st = st ] /\ Step(dp')
  BY DEF Goto, Step
<1>2. Kept
  BY <1>1 DEF Kept, DataParser
<1> QED
  BY <1>1, <1>2

(***************************************************************************)
(* A step of the parser that returns nothing to its caller adds a byte to  *)
(* the body, starts over or leaves the body alone.                         *)
(***************************************************************************)
LEMMA ParsingSteps ==
  ASSUME PortTypeOK, Parsing
  PROVE  \E b \in Input : Moved \/ Collect(b) \/ Discard(b)
<1>1. PICK b \in Input :
        \/ WaitFlag(b) \/ WaitAddress(b) \/ WaitControl(b) \/ WaitBcc1(b)
        \/ Collect(b) \/ Discard(b) \/ WaitDiscBcc(b) \/ WaitDiscFlag(b)
  BY DEF Parsing
<1>2. dp \in DataParser /\ b \in Byte
  BY InputType DEF PortTypeOK, ReceiverTypeOK, DataParser
<1>3. {0, 1, 2, 3, 4, 10, 11} \subseteq ParserStates
  BY DEF ParserStates
<1>4. ASSUME NEW st \in ParserStates, Goto(st) PROVE Step(dp') /\ Kept
  BY <1>2, <1>4, GotoKeeps
<1>5. CASE WaitFlag(b)
  BY <1>3, <1>4, <1>5 DEF WaitFlag, Moved
<1>6. CASE WaitAddress(b)
  <2>1. \E st \in ParserStates : Goto(st)
    BY <1>3, <1>6, Zenon DEF WaitAddress
  <2>2. dp.st # 4
    BY <1>6 DEF WaitAddress
  <2> QED
    BY <1>4, <2>1, <2>2 DEF Moved
<1>7. CASE WaitControl(b)
  <2>1. dp.st # 4
    BY <1>7 DEF WaitControl
  <2>2. CASE \E st \in ParserStates : Goto(st)
    BY <1>4, <2>1, <2>2 DEF Moved
  <2>3. CASE Step([ dp EXCEPT !.st = 3, !.t2 = b ])
    <3>1. dp' = [ dp EXCEPT !.st = 3, !.t2 = b ] /\ Step(dp')
      BY <2>3 DEF Step
    <3>2. Kept
      BY <1>2, <1>3, <3>1 DEF Kept, DataParser
    <3> QED
      BY <2>1, <3>1, <3>2 DEF Moved
  <2> QED
    BY <1>3, <1>7, <2>2, <2>3 DEF WaitControl
<1>8. CASE WaitBcc1(b)
  <2>1. \E st \in ParserStates : Goto(st)
    BY <1>3, <1>8, Zenon DEF WaitBcc1
  <2>2. dp.st # 4
    BY <1>8 DEF WaitBcc1
  <2> QED
    BY <1>4, <2>1, <2>2 DEF Moved
<1>9. CASE WaitDiscBcc(b)
  <2>1. dp.st # 4
    BY <1>9 DEF WaitDiscBcc
  <2>2. CASE Goto(11)
    BY <1>3, <1>4, <2>1, <2>2 DEF Moved
  <2>3. CASE Step([ dp EXCEPT !.st = 0, !.t2 = 0 ])
    <3>1. dp' = [ dp EXCEPT !.st = 0, !.t2 = 0 ] /\ Step(dp')
      BY <2>3 DEF Step
    <3>2. 0 \in Byte
      BY DEF Byte
    <3>3. Kept
      BY <1>2, <1>3, <3>1, <3>2 DEF Kept, DataParser
    <3> QED
      BY <2>1, <3>1, <3>3 DEF Moved
  <2> QED
    BY <1>9, <2>2, <2>3, Zenon DEF WaitDiscBcc
<1>10. CASE WaitDiscFlag(b)
  BY <1>3, <1>4, <1>10 DEF WaitDiscFlag, Moved
<1> QED
  BY <1>1, <1>5, <1>6, <1>7, <1>8, <1>9, <1>10

-----------------------------------------------------------------------------
(***************************************************************************)
(* One byte through a supervision automaton, and the last one.             *)
(***************************************************************************)
LEMMA UnrecognisedType ==
  ASSUME PortTypeOK, NEW pc, NEW control, Unrecognised(pc, control)
  PROVE  PortTypeOK'
<1>1. PICK b \in Input : /\ hs' = r_Recognise(hs, b, control) /\ hs' # "Z"
                         /\ Consume(FALSE)
  BY DEF Unrecognised
<1>2. hs' \in Hunting
  BY <1>1, RecogniseType DEF PortTypeOK, ReceiverTypeOK
<1>3. rIn' \in Seq(Byte) /\ STOP' \in BOOLEAN
  BY <1>1, ConsumeType
<1> QED
  BY <1>2, <1>3 DEF Unrecognised, PortTypeOK, WireTypeOK, ReceiverTypeOK

\* The end of an exchange writes bytes and keeps the types.
LEMMA RecognisedType ==
  ASSUME PortTypeOK, NEW pc, NEW control, NEW answer \in Seq(Byte),
         NEW next \in {"reading", "awaitUA", "done"},
         Recognised(pc, control, answer, next), dp' \in DataParser
  PROVE  PortTypeOK'
<1>1. rIn' \in Seq(Byte) /\ STOP' \in BOOLEAN
  BY ConsumeType DEF Recognised
<1>2. hs' \in Hunting
  BY DEF Recognised, Hunting
<1>3. rOut' \in Seq(Byte)
  BY DEF Recognised, PortTypeOK, WireTypeOK
<1> QED
  BY <1>1, <1>2, <1>3 DEF Recognised, PortTypeOK, WireTypeOK, ReceiverTypeOK, DataParser

\* A step of the parser to well-typed locals keeps PortTypeOK.
LEMMA StepType ==
  ASSUME PortTypeOK, NEW b \in Input, Step(dp'), dp' \in DataParser
  PROVE  PortTypeOK'
<1>1. rIn' \in Seq(Byte) /\ STOP' \in BOOLEAN
  BY ConsumeType DEF Step
<1> QED
  BY <1>1 DEF Step, PortTypeOK, WireTypeOK, ReceiverTypeOK, DataParser

\* Collecting a byte keeps the type of the locals.
LEMMA CollectType ==
  ASSUME PortTypeOK, NEW b \in Input, Collect(b)
  PROVE  /\ Step(dp') /\ dp' \in DataParser
         /\ dp'.st = 4 /\ dp'.data = Append(dp.data, b) /\ dp'.mxor = Xor(b, dp.mxor)
         /\ dp'.toggle = IF b = dp.mxor THEN 1 ELSE 0
<1>1. dp \in DataParser /\ dp.data \in Seq(Byte) /\ dp.mxor \in Byte /\ b \in Byte
  BY InputType DEF PortTypeOK, ReceiverTypeOK, DataParser
<1>2. Xor(b, dp.mxor) \in Byte /\ Append(dp.data, b) \in Seq(Byte)
  BY <1>1, XorByte
<1>3. PICK t \in {0, 1} : t = IF b = dp.mxor THEN 1 ELSE 0
  OBVIOUS
<1>4. PICK m \in Byte : m = Xor(b, dp.mxor)
  BY <1>2
<1>5. PICK d \in Seq(Byte) : d = Append(dp.data, b)
  BY <1>2
<1>6. dp' = [ dp EXCEPT !.data = d, !.mxor = m, !.toggle = t ]
  BY <1>3, <1>4, <1>5, Zenon DEF Collect, Step
<1>7. dp' \in DataParser
  BY <1>1, <1>6 DEF DataParser
<1>8. dp'.st = dp.st /\ dp'.data = d /\ dp'.mxor = m /\ dp'.toggle = t
  BY <1>1, <1>6 DEF DataParser
<1>9. Step(dp') /\ dp.st = 4
  BY DEF Collect, Step
<1> QED
  BY <1>3, <1>4, <1>5, <1>7, <1>8, <1>9

\* Starting over is a step to the locals of a fresh parser.
LEMMA DiscardType ==
  ASSUME NEW b, Discard(b)
  PROVE  Step(dp') /\ dp' = Parser(0) /\ dp' \in DataParser
<1>1. 0 \in Byte
  BY DEF Byte
<1> QED
  BY <1>1, ParserType DEF Discard, Step

(***************************************************************************)
(* Every step of the receiving program leaves the variables in their types.*)
(***************************************************************************)
LEMMA ReceiverTypes ==
  ASSUME PortTypeOK, ReceiverNext PROVE PortTypeOK'
<1>0. dp \in DataParser
  BY DEF PortTypeOK, ReceiverTypeOK, DataParser
<1>1. CASE r_llopen
  BY <1>1 DEF r_llopen, PortTypeOK, WireTypeOK, ReceiverTypeOK
<1>2. CASE r_handshake
  BY <1>2, UnrecognisedType, RecognisedType, AnswersType, NewParserType DEF r_handshake
<1>3. CASE r_disconnect
  BY <1>0, <1>3, UnrecognisedType, RecognisedType, AnswersType DEF r_disconnect
<1>4. CASE r_verify_if_ua_received
  <2>1. << >> \in Seq(Byte)
    OBVIOUS
  <2> QED
    BY <1>0, <1>4, <2>1, UnrecognisedType, RecognisedType DEF r_verify_if_ua_received
<1>5. CASE Parsing
  <2>1. PICK b \in Input : Moved \/ Collect(b) \/ Discard(b)
    BY <1>5, ParsingSteps
  <2>2. Step(dp') /\ dp' \in DataParser
    BY <2>1, CollectType, DiscardType DEF Moved, Kept
  <2> QED
    BY <2>2, StepType
<1>6. CASE Accept
  <2>1. rIn' \in Seq(Byte) /\ STOP' \in BOOLEAN
    BY <1>6, ConsumeType DEF Accept
  <2>2. rOut' \in Seq(Byte)
    BY <1>6, AnswersType DEF Accept, AnswerRR, PortTypeOK, WireTypeOK, ReceiverTypeOK
  <2>3. dp' \in DataParser /\ rPc' \in {"closing", "reading"}
    BY <1>0, <1>6, NewParserType, Zenon DEF Accept
  <2>4. accepted' \in Seq(Seq(Byte)) /\ current_ctrl' \in {0, 1}
    BY <1>0, <1>6 DEF Accept, ToggleCtrl, PortTypeOK, ReceiverTypeOK, DataParser
  <2>5. sIn' = sIn /\ sOut' = sOut /\ hs' = hs
    BY <1>6 DEF Accept
  <2> QED
    BY <2>1, <2>2, <2>3, <2>4, <2>5 DEF PortTypeOK, WireTypeOK, ReceiverTypeOK, DataParser
<1>7. CASE Crash
  <2>1. rIn' \in Seq(Byte) /\ STOP' \in BOOLEAN
    BY <1>7, ConsumeType DEF Crash
  <2>2. rOut' \in Seq(Byte)
    BY <1>7, AnswersType DEF Crash, AnswerRR, PortTypeOK, WireTypeOK, ReceiverTypeOK
  <2> QED
    BY <1>7, <2>1, <2>2 DEF Crash, PortTypeOK, WireTypeOK, ReceiverTypeOK
<1> QED
  BY <1>1, <1>2, <1>3, <1>4, <1>5, <1>6, <1>7 DEF ReceiverNext

\* The receiving program starts with variables of their types.
LEMMA ReceiverTypesInit ==
  ASSUME WireInit, ReceiverInit PROVE PortTypeOK
<1>1. dp = Parser(0) /\ Parser(0) \in DataParser
  <2>1. 0 \in Byte
    BY DEF Byte
  <2> QED
    BY <2>1, ParserType DEF ReceiverInit
<1>2. << >> \in Seq(Byte) /\ << >> \in Seq(Seq(Byte))
  OBVIOUS
<1>3. WireTypeOK
  BY <1>2 DEF WireInit, WireTypeOK
<1>4. rPc = "closed" /\ STOP = FALSE /\ hs = "S" /\ current_ctrl = 0 /\ accepted = << >>
  BY DEF ReceiverInit
<1>5. dp \in DataParser /\ hs \in Hunting
  BY <1>1, <1>4 DEF Hunting
<1> QED
  BY <1>2, <1>3, <1>4, <1>5 DEF PortTypeOK, ReceiverTypeOK, DataParser

-----------------------------------------------------------------------------
\* The elements of two sequences in a row.
LEMMA ConcatElements ==
  ASSUME NEW s \in Seq(Byte), NEW t \in Seq(Byte)
  PROVE  /\ s \o t \in Seq(Byte) /\ Len(s \o t) = Len(s) + Len(t)
         /\ \A i \in 1 .. Len(s) : (s \o t)[i] = s[i]
         /\ \A j \in 1 .. Len(t) : (s \o t)[Len(s) + j] = t[j]
  OBVIOUS

\* What is left of a frame from its k-th byte on.
Rest(frame, k) == SubSeq(frame, k, Len(frame))

\* Reading the next byte of what is left.
LEMMA RestStep ==
  ASSUME NEW T, NEW frame \in Seq(T), NEW k \in 1 .. Len(frame) + 1
  PROVE  /\ Rest(frame, k) = << >> <=> k = Len(frame) + 1
         /\ Rest(frame, k) \in Seq(T) /\ Len(Rest(frame, k)) = Len(frame) + 1 - k
         /\ k <= Len(frame) => /\ Head(Rest(frame, k)) = frame[k]
                               /\ Tail(Rest(frame, k)) = Rest(frame, k + 1)
<1>1. Rest(frame, k) \in Seq(T) /\ Len(Rest(frame, k)) = Len(frame) + 1 - k
  BY DEF Rest
<1>2. Rest(frame, k) = << >> <=> k = Len(frame) + 1
  BY <1>1
<1>3. ASSUME k <= Len(frame)
      PROVE  /\ Head(Rest(frame, k)) = frame[k]
             /\ Tail(Rest(frame, k)) = Rest(frame, k + 1)
  <2>1. Head(Rest(frame, k)) = frame[k]
    BY <1>1, <1>3 DEF Rest
  <2>2. Rest(frame, k + 1) \in Seq(T) /\ Len(Rest(frame, k + 1)) = Len(frame) - k
    BY <1>3 DEF Rest
  <2>3. Tail(Rest(frame, k)) \in Seq(T) /\ Len(Tail(Rest(frame, k))) = Len(frame) - k
    BY <1>1, <1>3
  <2>4. ASSUME NEW i \in 1 .. Len(frame) - k
        PROVE  Tail(Rest(frame, k))[i] = Rest(frame, k + 1)[i]
    <3>1. Tail(Rest(frame, k))[i] = Rest(frame, k)[i + 1]
      BY <1>1, <1>3
    <3>2. Rest(frame, k)[i + 1] = frame[k + i]
      BY <1>3 DEF Rest
    <3>3. Rest(frame, k + 1)[i] = frame[k + i]
      BY <1>3 DEF Rest
    <3> QED
      BY <3>1, <3>2, <3>3
  <2>5. Tail(Rest(frame, k)) = Rest(frame, k + 1)
    BY <2>2, <2>3, <2>4, SameSequence
  <2> QED
    BY <2>1, <2>5
<1> QED
  BY <1>1, <1>2, <1>3

\* A frame is what is left of it from its first byte on.
LEMMA RestAll ==
  ASSUME NEW T, NEW frame \in Seq(T)
  PROVE  Rest(frame, 1) = frame
  BY DEF Rest

-----------------------------------------------------------------------------
\* The body of the frame of a payload, up to the closing flag.
Sealed(p) == Append(s_ByteStuffing(p), Bcc2(s_ByteStuffing(p)))

\* The check byte is a flag: no copy of the frame is ever accepted.
Lost(p) == Bcc2(s_ByteStuffing(p)) = FLAG

(***************************************************************************)
(* Only the last byte of a body may be a flag, and the xor over the whole  *)
(* body is 0.                                                              *)
(***************************************************************************)
LEMMA SealedBytes ==
  ASSUME NEW p \in Seq(Byte)
  PROVE  /\ Sealed(p) \in Seq(Byte) /\ Len(Sealed(p)) \in Nat \ {0}
         /\ \A i \in 1 .. Len(Sealed(p)) : Sealed(p)[i] = FLAG <=> i = Len(Sealed(p)) /\ Lost(p)
         /\ Bcc2(SubSeq(Sealed(p), 1, Len(Sealed(p)) - 1)) = Bcc2(s_ByteStuffing(p))
         /\ Bcc2(Sealed(p)) = 0
<1> DEFINE s == s_ByteStuffing(p)
           c == Bcc2(s)
<1>1. s \in Seq(Byte) /\ s \in Seq(Byte \ {FLAG})
  BY StuffedHasNoFlag
<1>2. c \in Byte
  BY <1>1, Bcc2Type
<1>3. Sealed(p) = Append(s, c) /\ (Lost(p) <=> c = FLAG)
  BY DEF Sealed, Lost
<1>4. Bcc2(Append(s, c)) = 0
  BY <1>1, <1>2, Bcc2Append, XorZero
<1> HIDE DEF s, c
<1>5. /\ Append(s, c) \in Seq(Byte) /\ Len(Append(s, c)) = Len(s) + 1 /\ Len(s) \in Nat
      /\ Append(s, c)[Len(s) + 1] = c /\ \A i \in 1 .. Len(s) : Append(s, c)[i] = s[i]
  BY <1>1, <1>2
<1>6. \A i \in 1 .. Len(s) : s[i] # FLAG
  BY <1>1
<1>7. ASSUME NEW i \in 1 .. Len(s) + 1
      PROVE  Append(s, c)[i] = FLAG <=> i = Len(s) + 1 /\ c = FLAG
  <2>1. i \in 1 .. Len(s) \/ i = Len(s) + 1
    BY <1>5
  <2> QED
    BY <1>5, <1>6, <2>1
<1>8. SubSeq(Append(s, c), 1, Len(s)) = s
  BY <1>1, <1>2
<1>9. Len(s) + 1 - 1 = Len(s) /\ Len(s) + 1 \in Nat \ {0}
  BY <1>5
<1>10. c = Bcc2(s_ByteStuffing(p))
  BY DEF s, c
<1>11. Bcc2(s) = c
  BY DEF c
<1> HIDE DEF s
<1> DEFINE b == Append(s, c)
<1>12. /\ b \in Seq(Byte) /\ Len(b) = Len(s) + 1 /\ SubSeq(b, 1, Len(s)) = s /\ Bcc2(b) = 0
       /\ \A i \in 1 .. Len(s) + 1 : b[i] = FLAG <=> i = Len(s) + 1 /\ Lost(p)
       /\ Sealed(p) = b
  BY <1>3, <1>4, <1>5, <1>7, <1>8
<1> HIDE DEF b
<1>13. Len(b) - 1 = Len(s)
  BY <1>9, <1>12
<1>14. Bcc2(SubSeq(b, 1, Len(b) - 1)) = Bcc2(s_ByteStuffing(p))
  BY <1>10, <1>11, <1>12, <1>13
<1> QED
  BY <1>9, <1>12, <1>14

(***************************************************************************)
(* The bytes of an information frame, one by one.                          *)
(***************************************************************************)
LEMMA FrameBytes ==
  ASSUME NEW p \in Seq(Byte), NEW bit \in {0, 1}
  PROVE  /\ DataFrame(p, bit) \in Seq(Byte)
         /\ Len(DataFrame(p, bit)) = Len(Sealed(p)) + 5
         /\ DataFrame(p, bit)[1] = FLAG /\ DataFrame(p, bit)[2] = SenderAddress
         /\ DataFrame(p, bit)[3] = I(bit) /\ DataFrame(p, bit)[4] = Xor(SenderAddress, I(bit))
         /\ \A k \in 5 .. Len(Sealed(p)) + 4 : DataFrame(p, bit)[k] = Sealed(p)[k - 4]
         /\ DataFrame(p, bit)[Len(Sealed(p)) + 5] = FLAG
<1> DEFINE s == s_ByteStuffing(p)
           c == Bcc2(s)
           x == Xor(SenderAddress, I(bit))
           h == << FLAG, SenderAddress, I(bit), x >>
           t == << c, FLAG >>
<1>1. s \in Seq(Byte)
  BY StuffedHasNoFlag
<1>2. c \in Byte /\ FLAG \in Byte /\ SenderAddress \in Byte /\ I(bit) \in Byte
  BY <1>1, Bcc2Type, ControlBytes
<1>3. x \in Byte
  BY <1>2, XorByte
<1>4. DataFrame(p, bit) = h \o s \o t /\ Sealed(p) = Append(s, c)
  BY DEF DataFrame, Sealed
<1> HIDE DEF s, c, x
<1>5. h \in Seq(Byte) /\ Len(h) = 4
  BY <1>2, <1>3
<1>6. t \in Seq(Byte) /\ Len(t) = 2 /\ t[1] = c /\ t[2] = FLAG
  BY <1>2
<1>7. h[1] = FLAG /\ h[2] = SenderAddress /\ h[3] = I(bit) /\ h[4] = x
  OBVIOUS
<1>8. /\ Append(s, c) \in Seq(Byte) /\ Len(Append(s, c)) = Len(s) + 1 /\ Len(s) \in Nat
      /\ Append(s, c)[Len(s) + 1] = c /\ \A i \in 1 .. Len(s) : Append(s, c)[i] = s[i]
  BY <1>1, <1>2
<1> HIDE DEF h, t
<1>9. /\ h \o s \in Seq(Byte) /\ Len(h \o s) = Len(s) + 4
      /\ \A k \in 1 .. 4 : (h \o s)[k] = h[k]
      /\ \A k \in 5 .. Len(s) + 4 : (h \o s)[k] = s[k - 4]
  <2>1. s \in Seq(Byte) /\ Len(s) \in Nat
    BY <1>1
  <2> HIDE DEF h, s
  <2> DEFINE m == Len(h)
  <2>2. /\ h \o s \in Seq(Byte) /\ Len(h \o s) = m + Len(s)
        /\ \A i \in 1 .. m : (h \o s)[i] = h[i]
        /\ \A j \in 1 .. Len(s) : (h \o s)[m + j] = s[j]
    BY <1>5, <2>1, ConcatElements
  <2>4. m = 4
    BY <1>5
  <2> HIDE DEF m
  <2>3. ASSUME NEW k \in 5 .. Len(s) + 4 PROVE (h \o s)[k] = s[k - 4]
    <3>1. k - 4 \in 1 .. Len(s) /\ 4 + (k - 4) = k
      BY <2>1
    <3>2. (h \o s)[4 + (k - 4)] = s[k - 4]
      BY <2>2, <2>4, <3>1
    <3> QED
      BY <3>1, <3>2
  <2> QED
    BY <2>1, <2>2, <2>3, <2>4
<1> DEFINE f == (h \o s) \o t
<1>10. /\ f \in Seq(Byte) /\ Len(f) = Len(s) + 6
       /\ \A k \in 1 .. Len(s) + 4 : f[k] = (h \o s)[k]
       /\ f[Len(s) + 5] = c /\ f[Len(s) + 6] = FLAG
  <2> DEFINE n == Len(s) + 4
  <2>1. n \in Nat /\ n + 1 = Len(s) + 5 /\ n + 2 = Len(s) + 6
    BY <1>8
  <2>2. /\ f \in Seq(Byte) /\ Len(f) = n + 2
        /\ \A i \in 1 .. n : f[i] = (h \o s)[i]
        /\ \A j \in 1 .. 2 : f[n + j] = t[j]
    <3>1. Len(h \o s) = n /\ h \o s \in Seq(Byte)
      BY <1>9
    <3> HIDE DEF n
    <3> DEFINE hs2 == h \o s
    <3>2. hs2 \in Seq(Byte) /\ Len(hs2) = n
      BY <3>1
    <3>3. f = hs2 \o t
      BY DEF f
    <3> HIDE DEF hs2
    <3> DEFINE m == Len(t)
    <3>4. /\ f \in Seq(Byte) /\ Len(f) = Len(hs2) + m
          /\ \A i \in 1 .. Len(hs2) : f[i] = hs2[i]
          /\ \A j \in 1 .. m : f[Len(hs2) + j] = t[j]
      <4>1. t \in Seq(Byte)
        BY <1>6
      <4> QED
        BY <3>2, <3>3, <4>1, ConcatElements
    <3>5. m = 2
      BY <1>6
    <3> HIDE DEF m
    <3> QED
      BY <3>2, <3>4, <3>5 DEF hs2
  <2> HIDE DEF f, n
  <2>3. f[n + 1] = t[1] /\ f[n + 2] = t[2]
    BY <2>2
  <2> QED
    BY <1>6, <2>1, <2>2, <2>3 DEF n
<1> HIDE DEF f
<1>11. f[1] = FLAG /\ f[2] = SenderAddress /\ f[3] = I(bit) /\ f[4] = x
  BY <1>7, <1>8, <1>9, <1>10
<1>12. ASSUME NEW k \in 5 .. Len(s) + 5 PROVE f[k] = Append(s, c)[k - 4]
  <2>1. CASE k = Len(s) + 5
    <3>1. k - 4 = Len(s) + 1
      BY <1>8, <2>1
    <3> QED
      BY <1>8, <1>10, <2>1, <3>1
  <2>2. CASE k # Len(s) + 5
    <3>1. k \in 5 .. Len(s) + 4 /\ k \in 1 .. Len(s) + 4 /\ k - 4 \in 1 .. Len(s)
      BY <1>8, <2>2
    <3> QED
      BY <1>8, <1>9, <1>10, <3>1
  <2> QED
    BY <2>1, <2>2
<1>13. DataFrame(p, bit) = f
  BY <1>4 DEF f
<1>14. Len(Sealed(p)) + 5 = Len(s) + 6 /\ Len(Sealed(p)) + 4 = Len(s) + 5
  BY <1>4, <1>8
<1>15. Xor(SenderAddress, I(bit)) = x
  BY DEF x
<1> HIDE DEF x
<1> QED
  BY <1>4, <1>10, <1>11, <1>12, <1>13, <1>14, <1>15

-----------------------------------------------------------------------------
\* The parser running over the frame of a payload.  It has collected nothing
\* and waits for a frame; the byte left in buf may still be there.
Blank == dp.data = << >> /\ dp.mxor = Seed /\ dp.toggle = 0
Ready == rPc = "reading" /\ Blank /\ dp.st \in {0, 1} /\ (STOP => dp.st = 0)

\* Its locals before the k-th byte of the frame, in the body; and after it has
\* thrown the body away.
Collecting(p, k) ==
  /\ dp.st = 4 /\ dp.data = SubSeq(Sealed(p), 1, k - 5)
  /\ dp.mxor = Bcc2(dp.data)
  /\ dp.toggle = IF dp.mxor = 0 THEN 1 ELSE 0

Dropped(st) == dp = [ Parser(0) EXCEPT !.st = st ]

\* The place of the closing flag.
End(p) == Len(Sealed(p)) + 5

\* The parser is before the k-th byte of the frame.
Parses(p, k) ==
  IF k = 1 THEN Ready
  ELSE /\ rPc = "reading" /\ ~STOP
       /\ k \in 2 .. 4 => Blank /\ dp.st = k - 1
       /\ k \in 5 .. End(p) - 1 => Collecting(p, k)
       /\ k = End(p) => IF Lost(p) THEN Dropped(0) ELSE Collecting(p, k)
       /\ k = End(p) + 1 => Lost(p) /\ Dropped(1)

\* A step of the parser, or of its caller when it returns.
Reads == Parsing \/ Accept \/ Crash

(***************************************************************************)
(* The parser does what its state says.                                    *)
(***************************************************************************)
LEMMA ByState ==
  ASSUME Reads
  PROVE  \E b \in Input :
           \/ dp.st = 0 /\ WaitFlag(b)
           \/ dp.st = 1 /\ WaitAddress(b)
           \/ dp.st = 2 /\ (WaitControl(b) \/ b \notin {DISC, I(current_ctrl), SenderAddress})
           \/ dp.st = 3 /\ WaitBcc1(b)
           \/ dp.st = 4 /\ (Collect(b) \/ Discard(b) \/ (Accept /\ b = FLAG /\ dp.toggle = 1))
           \/ dp.st = 10 /\ WaitDiscBcc(b)
           \/ dp.st = 11 /\ (WaitDiscFlag(b) \/ b = FLAG)
<1>1. CASE Parsing
  <2>1. PICK b \in Input :
        \/ WaitFlag(b) \/ WaitAddress(b) \/ WaitControl(b) \/ WaitBcc1(b)
        \/ Collect(b) \/ Discard(b) \/ WaitDiscBcc(b) \/ WaitDiscFlag(b)
    BY <1>1 DEF Parsing
  <2>2. /\ WaitFlag(b) => dp.st = 0
        /\ WaitAddress(b) => dp.st = 1
        /\ WaitControl(b) => dp.st = 2
        /\ WaitBcc1(b) => dp.st = 3
        /\ Collect(b) => dp.st = 4
        /\ Discard(b) => dp.st = 4
        /\ WaitDiscBcc(b) => dp.st = 10
        /\ WaitDiscFlag(b) => dp.st = 11
    BY DEF WaitFlag, WaitAddress, WaitControl, WaitBcc1, Collect, Discard, WaitDiscBcc, WaitDiscFlag
  <2> QED
    BY <2>1, <2>2
<1>2. CASE Accept
  <2>1. FLAG \in Input /\ dp.st = 4 /\ dp.toggle = 1
    BY <1>2 DEF Accept
  <2> QED
    BY <1>2, <2>1
<1>3. CASE Crash
  BY <1>3 DEF Crash
<1> QED
  BY <1>1, <1>2, <1>3 DEF Reads

\* What a step to other locals leaves alone.
LEMMA StepEffect ==
  ASSUME NEW next, Step(next)
  PROVE  /\ dp' = next /\ STOP' = FALSE /\ rIn' = IF STOP THEN rIn ELSE Tail(rIn)
         /\ UNCHANGED << sIn, sOut, rOut, rPc, hs, current_ctrl, accepted, output >>
  BY DEF Step, Consume

\* A change of the parser's state alone.
LEMMA GotoEffect ==
  ASSUME NEW st, dp \in DataParser, Goto(st)
  PROVE  /\ Step(dp') /\ dp'.st = st /\ dp' = [ dp EXCEPT !.st = st ]
         /\ dp'.data = dp.data /\ dp'.mxor = dp.mxor /\ dp'.toggle = dp.toggle
         /\ dp'.t2 = dp.t2
  BY DEF Goto, Step, DataParser

(***************************************************************************)
(* The byte left in buf takes a waiting parser to one that waits or has    *)
(* seen a flag.                                                            *)
(***************************************************************************)
LEMMA LeftOver ==
  ASSUME PortTypeOK, Ready, STOP, Reads
  PROVE  Ready' /\ Step(dp')
<1>1. dp.st = 0 /\ dp \in DataParser
  BY DEF Ready, PortTypeOK, ReceiverTypeOK, DataParser
<1>2. PICK b \in Input : WaitFlag(b)
  BY <1>1, ByState
<1>3. PICK st \in {0, 1} : Goto(st)
  BY <1>2 DEF WaitFlag
<1>4. /\ Step(dp') /\ dp'.st = st
      /\ dp'.data = dp.data /\ dp'.mxor = dp.mxor /\ dp'.toggle = dp.toggle
  BY <1>1, <1>3, GotoEffect
<1>5. rPc' = rPc /\ STOP' = FALSE
  BY <1>4, StepEffect
<1> QED
  BY <1>4, <1>5 DEF Ready, Blank

\* Nothing on the line and nothing left over: the parser cannot move.
LEMMA Starved == ASSUME Reads, ~STOP PROVE rIn # << >> /\ Input = { Head(rIn) }
<1>1. PICK b \in Input : TRUE
  BY ByState
<1> QED
  BY <1>1 DEF Input

(***************************************************************************)
(* The parser in the header of the frame.                                  *)
(***************************************************************************)
LEMMA HeaderByte ==
  ASSUME PortTypeOK, NEW p \in Seq(Byte), NEW k \in 1 .. 4, Parses(p, k), ~STOP, Reads,
         rIn # << >> => Head(rIn) = DataFrame(p, current_ctrl)[k]
  PROVE  Step(dp') /\ Blank' /\ dp'.st = k
<1>1. dp \in DataParser /\ current_ctrl \in {0, 1}
  BY DEF PortTypeOK, ReceiverTypeOK, DataParser
<1>2. rIn # << >> /\ Input = { Head(rIn) }
  BY Starved
<1> DEFINE b == Head(rIn)
<1>3. b = << FLAG, SenderAddress, I(current_ctrl), Xor(SenderAddress, I(current_ctrl)) >>[k]
  BY <1>1, <1>2, FrameBytes
<1>4. Blank /\ (k = 1 => dp.st \in {0, 1}) /\ (k # 1 => dp.st = k - 1)
  BY DEF Parses, Ready
<1>5. \/ dp.st = 0 /\ WaitFlag(b)
      \/ dp.st = 1 /\ WaitAddress(b)
      \/ dp.st = 2 /\ (WaitControl(b) \/ b \notin {DISC, I(current_ctrl), SenderAddress})
      \/ dp.st = 3 /\ WaitBcc1(b)
  <2>1. dp.st \in 0 .. 3
    BY <1>4
  <2> QED
    BY <1>2, <2>1, ByState
<1>6. ASSUME Goto(k) PROVE Step(dp') /\ Blank' /\ dp'.st = k
  BY <1>1, <1>4, <1>6, GotoEffect DEF Blank
<1> HIDE DEF b
<1>7. CASE k = 1
  <2>1. b = FLAG /\ FLAG # SenderAddress
    BY <1>3, <1>7 DEF FLAG, SenderAddress
  <2>2. Goto(1)
    BY <1>4, <1>5, <1>7, <2>1 DEF WaitFlag, WaitAddress
  <2> QED
    BY <1>6, <1>7, <2>2
<1>8. CASE k = 2
  <2>1. b = SenderAddress /\ dp.st = 1 /\ FLAG # SenderAddress
    BY <1>3, <1>4, <1>8 DEF FLAG, SenderAddress
  <2>2. WaitAddress(b)
    BY <1>5, <2>1
  <2>3. Goto(2)
    BY <2>1, <2>2, Zenon DEF WaitAddress
  <2> QED
    BY <1>6, <1>8, <2>3
<1>9. CASE k = 3
  <2>1. b = I(current_ctrl) /\ dp.st = 2
    BY <1>3, <1>4, <1>9
  <2>2. b \notin {DISC, SenderAddress}
    BY <2>1 DEF I, DISC, SenderAddress
  <2>3. Step([ dp EXCEPT !.st = 3, !.t2 = b ])
    BY <1>5, <2>1, <2>2 DEF WaitControl
  <2>4. dp' = [ dp EXCEPT !.st = 3, !.t2 = b ] /\ Step(dp')
    BY <2>3 DEF Step
  <2>5. dp'.st = 3 /\ dp'.data = dp.data /\ dp'.mxor = dp.mxor /\ dp'.toggle = dp.toggle
    BY <1>1, <2>4 DEF DataParser
  <2> QED
    BY <1>4, <1>9, <2>4, <2>5 DEF Blank
<1>10. CASE k = 4
  <2>1. b = Xor(SenderAddress, I(current_ctrl)) /\ dp.st = 3
    BY <1>3, <1>4, <1>10
  <2>2. WaitBcc1(b)
    BY <1>5, <2>1
  <2>3. Xor(SenderAddress, I(current_ctrl)) # I(current_ctrl)
    BY <1>1 DEF Xor, I, SenderAddress
  <2>4. Goto(4)
    BY <2>1, <2>2, <2>3, Zenon DEF WaitBcc1
  <2> QED
    BY <1>6, <1>10, <2>4
<1> QED
  BY <1>7, <1>8, <1>9, <1>10

(***************************************************************************)
(* The parser in the body: it collects byte after byte, accepts the whole  *)
(* body at the closing flag, and throws it away at a check byte that is a  *)
(* flag, which it takes for the closing one.                               *)
(***************************************************************************)
LEMMA BodyByte ==
  ASSUME PortTypeOK, NEW p \in Seq(Byte), NEW k \in 5 .. End(p), ~STOP, Reads,
         Collecting(p, k), k = End(p) => ~Lost(p),
         rIn # << >> => Head(rIn) = DataFrame(p, current_ctrl)[k]
  PROVE  \/ /\ k < End(p) /\ ~(k = End(p) - 1 /\ Lost(p))
            /\ Step(dp') /\ Collecting(p, k + 1)'
         \/ k = End(p) - 1 /\ Lost(p) /\ Step(dp') /\ dp' = Parser(0)
         \/ k = End(p) /\ Accept /\ dp.data = Sealed(p)
<1> DEFINE body == Sealed(p)
           n == Len(body)
           b == Head(rIn)
<1>1. current_ctrl \in {0, 1} /\ dp \in DataParser
  BY DEF PortTypeOK, ReceiverTypeOK, DataParser
<1>2. /\ body \in Seq(Byte) /\ n \in Nat \ {0}
      /\ \A i \in 1 .. n : body[i] = FLAG <=> i = n /\ Lost(p)
      /\ Bcc2(SubSeq(body, 1, n - 1)) = Bcc2(s_ByteStuffing(p)) /\ Bcc2(body) = 0
  BY SealedBytes
<1>3. rIn # << >> /\ Input = { b }
  BY Starved
<1>4. /\ k \in 5 .. n + 4 => b = body[k - 4]
      /\ k = n + 5 => b = FLAG
  BY <1>1, <1>3, FrameBytes
<1>5. dp.st = 4 /\ dp.data = SubSeq(body, 1, k - 5)
  BY DEF Collecting
<1>6. Collect(b) \/ Discard(b) \/ (Accept /\ b = FLAG /\ dp.toggle = 1)
  BY <1>3, <1>5, ByState
<1>7. b \in Byte
  BY <1>3 DEF PortTypeOK, WireTypeOK
<1>8. End(p) = n + 5
  BY DEF End
<1> HIDE DEF body, b
<1>9. CASE k = n + 5
  <2>1. dp.data = body
    BY <1>2, <1>5, <1>9
  <2>2. dp.toggle = 1
    BY <1>2, <2>1 DEF Collecting
  <2>3. ~Collect(b) /\ ~Discard(b)
    BY <1>4, <1>9, <2>2 DEF Collect, Discard
  <2> QED
    BY <1>6, <1>8, <1>9, <2>1, <2>3 DEF body
<1>10. CASE k = n + 4 /\ Lost(p)
  <2>1. k - 4 = n /\ n \in 1 .. n /\ k \in 5 .. n + 4 /\ k - 5 = n - 1
    BY <1>2, <1>10
  <2>2. b = FLAG
    BY <1>2, <1>4, <1>10, <2>1
  <2>3. Bcc2(dp.data) = FLAG
    BY <1>2, <1>5, <1>10, <2>1 DEF Lost
  <2>4. dp.toggle = 0
    BY <2>3 DEF Collecting, FLAG
  <2>5. Discard(b)
    BY <1>6, <2>2, <2>4 DEF Collect
  <2>6. Step(dp') /\ dp' = Parser(0)
    BY <2>5, DiscardType
  <2> QED
    BY <1>2, <1>8, <1>10, <2>6
<1>11. CASE k \in 5 .. n + 4 /\ ~(k = n + 4 /\ Lost(p))
  <2> DEFINE i == k - 4
  <2>1. i \in 1 .. n /\ k = i + 4 /\ k - 5 = i - 1 /\ k + 1 - 5 = i
    BY <1>2, <1>11
  <2>2. b = body[i] /\ b # FLAG
    BY <1>2, <1>4, <1>11, <2>1
  <2>3. Collect(b)
    BY <1>6, <2>2 DEF Discard
  <2>4. b \in Input
    BY <1>3
  <2>5. /\ Step(dp') /\ dp'.st = 4 /\ dp'.data = Append(dp.data, b) /\ dp'.mxor = Xor(b, dp.mxor)
        /\ dp'.toggle = IF b = dp.mxor THEN 1 ELSE 0
    BY <2>3, <2>4, CollectType
  <2>6. dp.data \in Seq(Byte) /\ dp.mxor \in Byte /\ dp.mxor = Bcc2(dp.data)
    BY <1>1 DEF Collecting, DataParser
  <2>7. dp'.data = SubSeq(body, 1, i)
    <3> HIDE DEF i
    <3>1. Append(SubSeq(body, 1, i - 1), body[i]) = SubSeq(body, 1, i)
      BY <1>2, <2>1
    <3> QED
      BY <1>5, <2>1, <2>2, <2>5, <3>1
  <2>8. dp'.mxor = Bcc2(dp'.data)
    BY <1>7, <2>5, <2>6, Bcc2Append
  <2>9. dp'.toggle = IF dp'.mxor = 0 THEN 1 ELSE 0
    BY <1>7, <2>5, <2>6, XorZero
  <2>10. Collecting(p, k + 1)'
    BY <2>1, <2>5, <2>7, <2>8, <2>9 DEF Collecting, body
  <2>11. k < End(p) /\ ~(k = End(p) - 1 /\ Lost(p))
    BY <1>2, <1>8, <1>11
  <2> QED
    BY <2>5, <2>10, <2>11
<1>12. k = n + 5 \/ k \in 5 .. n + 4
  BY <1>2, <1>8
<1> QED
  BY <1>9, <1>10, <1>11, <1>12

(***************************************************************************)
(* One byte of the frame: the parser goes from one place to the next, or   *)
(* returns the body to its caller.                                         *)
(***************************************************************************)
LEMMA FrameByte ==
  ASSUME PortTypeOK, NEW p \in Seq(Byte), NEW k \in 1 .. End(p), Parses(p, k), ~STOP, Reads,
         rIn # << >> => Head(rIn) = DataFrame(p, current_ctrl)[k]
  PROVE  /\ rIn # << >>
         /\ \/ Step(dp') /\ Parses(p, k + 1)'
            \/ k = End(p) /\ ~Lost(p) /\ Accept /\ dp.data = Sealed(p)
<1>0. End(p) \in Nat /\ End(p) >= 6
  BY SealedBytes DEF End
<1>1. rIn # << >> /\ Input = { Head(rIn) }
  BY Starved
<1>2. ASSUME Step(dp') PROVE rPc' = rPc /\ ~STOP'
  BY <1>2, StepEffect
<1>3. rPc = "reading"
  BY DEF Parses, Ready
<1>4. CASE k \in 1 .. 4
  <2>1. Step(dp') /\ Blank' /\ dp'.st = k
    BY <1>4, HeaderByte
  <2>2. CASE k \in 1 .. 3
    BY <1>0, <1>1, <1>2, <1>3, <2>1, <2>2 DEF Parses
  <2>3. CASE k = 4
    <3>1. dp'.data = SubSeq(Sealed(p), 1, 0)
      <4>1. Sealed(p) \in Seq(Byte)
        BY SealedBytes
      <4> QED
        BY <2>1, <4>1 DEF Blank
    <3>2. dp'.mxor = Bcc2(dp'.data) /\ dp'.mxor # 0
      BY <2>1, Bcc2Empty DEF Blank, Seed
    <3>3. Collecting(p, 5)'
      BY <2>1, <2>3, <3>1, <3>2 DEF Collecting, Blank
    <3> QED
      BY <1>0, <1>1, <1>2, <1>3, <2>1, <2>3, <3>3 DEF Parses
  <2> QED
    BY <1>1, <1>4, <2>1, <2>2, <2>3
<1>5. CASE k \in 5 .. End(p) /\ ~(k = End(p) /\ Lost(p))
  <2>1. Collecting(p, k)
    BY <1>0, <1>5 DEF Parses
  <2>2. CASE /\ k < End(p) /\ ~(k = End(p) - 1 /\ Lost(p))
             /\ Step(dp') /\ Collecting(p, k + 1)'
    BY <1>0, <1>1, <1>2, <1>3, <1>5, <2>2 DEF Parses
  <2>3. CASE k = End(p) - 1 /\ Lost(p) /\ Step(dp') /\ dp' = Parser(0)
    <3>1. Dropped(0)'
      BY <2>3 DEF Dropped, Parser
    <3> QED
      BY <1>0, <1>1, <1>2, <1>3, <1>5, <2>3, <3>1 DEF Parses
  <2>4. CASE k = End(p) /\ Accept /\ dp.data = Sealed(p)
    BY <1>1, <1>5, <2>4
  <2> QED
    BY <1>5, <2>1, <2>2, <2>3, <2>4, BodyByte
<1>6. CASE k = End(p) /\ Lost(p)
  <2>1. Dropped(0)
    BY <1>0, <1>6 DEF Parses
  <2>2. dp.st = 0 /\ dp \in DataParser
    BY <2>1 DEF Dropped, Parser, PortTypeOK, ReceiverTypeOK, DataParser
  <2>3. Head(rIn) = FLAG
    <3>1. current_ctrl \in {0, 1}
      BY DEF PortTypeOK, ReceiverTypeOK
    <3> QED
      BY <1>1, <1>6, <3>1, FrameBytes DEF End
  <2>4. Goto(1)
    BY <1>1, <2>2, <2>3, ByState DEF WaitFlag
  <2>5. Step(dp') /\ dp' = [ dp EXCEPT !.st = 1 ]
    BY <2>2, <2>4, GotoEffect
  <2>6. Dropped(1)'
    BY <2>1, <2>5 DEF Dropped, Parser
  <2> QED
    BY <1>0, <1>1, <1>2, <1>3, <1>6, <2>5, <2>6 DEF Parses
<1> QED
  BY <1>0, <1>4, <1>5, <1>6

\* A parser that starts waits for a frame.
LEMMA NewParserReady ==
  ASSUME NewParser, rPc' = "reading" PROVE Ready'
<1>1. PICK t2 \in Garbage : dp' = Parser(t2)
  BY DEF NewParser
<1> QED
  BY <1>1 DEF Ready, Blank, Parser

(***************************************************************************)
(* The caller of the parser destuffs the body, answers and toggles the     *)
(* bit; what main does depends on the payload the frame was made from.     *)
(***************************************************************************)
LEMMA AcceptEffect ==
  ASSUME NEW p \in Seq(Byte), p # << >>, Accept, dp.data = Sealed(p)
  PROVE  /\ STOP' = TRUE /\ rIn' = IF STOP THEN rIn ELSE Tail(rIn)
         /\ accepted' = Append(accepted, Sealed(p))
         /\ rOut' = rOut \o Supervision(ReceiverAddress, RR(current_ctrl))
         /\ current_ctrl' = 1 - current_ctrl
         /\ output' = IF p[1] = 1 THEN output \o Tail(p) ELSE output
         /\ IF p[1] = 0 THEN rPc' = "closing" ELSE rPc' = "reading" /\ Ready'
         /\ UNCHANGED << sIn, sOut, hs >>
<1> DEFINE q == r_ByteStuffing(dp.data)
           first(b) == q # << >> /\ q[1] = b
<1>1. /\ output' = IF first(1) THEN output \o Tail(q) ELSE output
      /\ IF first(0) THEN rPc' = "closing" /\ UNCHANGED dp
                     ELSE rPc' = "reading" /\ NewParser
  BY DEF Accept
<1>2. q = p
  <2>1. s_ByteStuffing(p) \in Seq(Byte)
    BY StuffedHasNoFlag
  <2>2. Bcc2(s_ByteStuffing(p)) \in Byte
    BY <2>1, Bcc2Type
  <2> QED
    BY <2>2, StuffingRoundTrip DEF Sealed
<1> HIDE DEF q
<1>3. output' = IF p[1] = 1 THEN output \o Tail(p) ELSE output
  BY <1>1, <1>2
<1>4. IF p[1] = 0 THEN rPc' = "closing" ELSE rPc' = "reading" /\ NewParser
  BY <1>1, <1>2
<1>5. IF p[1] = 0 THEN rPc' = "closing" ELSE rPc' = "reading" /\ Ready'
  BY <1>4, NewParserReady
<1>6. /\ STOP' = TRUE /\ rIn' = IF STOP THEN rIn ELSE Tail(rIn)
      /\ accepted' = Append(accepted, Sealed(p))
      /\ rOut' = rOut \o Supervision(ReceiverAddress, RR(current_ctrl))
      /\ current_ctrl' = 1 - current_ctrl
      /\ UNCHANGED << sIn, sOut, hs >>
  BY DEF Accept, Consume, AnswerRR, ToggleCtrl
<1> QED
  BY <1>3, <1>5, <1>6

=============================================================================
