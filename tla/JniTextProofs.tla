--------------------------- MODULE JniTextProofs ---------------------------
(***************************************************************************)
(* Proofs about JniText, for strings of any length and content.            *)
(*                                                                         *)
(* A code point that is encoded is decoded again.  The loops stay inside   *)
(* their strings, as what lies behind a string (Ends) goes on with its     *)
(* last sequence only where it completes a pair in an array that is read   *)
(* in place; and what they write is UTF-8, sequence by sequence.           *)
(*                                                                         *)
(* That a string comes back as it was needs no induction over it: the      *)
(* places at which the first loop stood in the string it read and in the   *)
(* one it wrote form a set of pairs (Linked), and the second loop goes     *)
(* through that set, the other way round.                                  *)
(***************************************************************************)
EXTENDS JniText, SequenceTheorems, TLAPS

-----------------------------------------------------------------------------
(* UTF-8.                                                                  *)

\* e is one well-formed sequence.
IsChar(e) ==
    \/ Len(e) = 1 /\ e[1] < 128
    \/ /\ Len(e) \in 2..4 /\ e[1] \in 194..244 /\ Width(e[1]) = Len(e) /\ Follows(e, 1, e[2])
       /\ \A d \in 2..Len(e) : Cont(e[d])

\* The code units of e stand at index n of s, before index l.
Piece(s, n, l, e) == n + Len(e) <= l /\ \A k \in 1..Len(e) : s[n + k] = e[k]

LEMMA Digits2 ==
  ASSUME NEW pt \in Nat, 128 <= pt, pt < 2048
  PROVE  /\ pt \div 64 + 192 \in 194..223 /\ (pt % 64) + 128 \in 128..191
         /\ ((pt \div 64 + 192) % 32) * 64 + (((pt % 64) + 128) % 64) = pt
BY SMTT(30)

LEMMA Digits3 ==
  ASSUME NEW pt \in Nat, 2048 <= pt, pt < 65536
  PROVE  /\ pt \div 4096 + 224 \in 224..239
         /\ ((pt \div 64) % 64) + 128 \in 128..191 /\ (pt % 64) + 128 \in 128..191
         /\ ((pt \div 4096 + 224) % 16) * 4096 + ((((pt \div 64) % 64) + 128) % 64) * 64
            + (((pt % 64) + 128) % 64) = pt
         /\ pt \div 4096 + 224 = 224 => ((pt \div 64) % 64) + 128 \in 160..191
         /\ pt \div 4096 + 224 = 237 /\ ~High(pt) /\ ~Low(pt) => ((pt \div 64) % 64) + 128 \in 128..159
<1>1. /\ pt \div 4096 + 224 \in 224..239
      /\ ((pt \div 64) % 64) + 128 \in 128..191 /\ (pt % 64) + 128 \in 128..191
  BY SMTT(30)
<1>2. ((pt \div 4096 + 224) % 16) * 4096 + ((((pt \div 64) % 64) + 128) % 64) * 64
      + (((pt % 64) + 128) % 64) = pt
  BY SMTT(30)
<1>3. pt \div 4096 + 224 = 224 => ((pt \div 64) % 64) + 128 \in 160..191
  BY SMTT(30)
<1>4. pt \div 4096 + 224 = 237 /\ ~High(pt) /\ ~Low(pt) => ((pt \div 64) % 64) + 128 \in 128..159
  BY SMTT(30) DEF High, Low
<1> QED BY <1>1, <1>2, <1>3, <1>4

LEMMA Digits4 ==
  ASSUME NEW pt \in Nat, 65536 <= pt, pt < 1114112
  PROVE  /\ pt \div 262144 + 240 \in 240..244
         /\ ((pt \div 4096) % 64) + 128 \in 128..191
         /\ ((pt \div 64) % 64) + 128 \in 128..191 /\ (pt % 64) + 128 \in 128..191
         /\ ((pt \div 262144 + 240) % 8) * 262144 + ((((pt \div 4096) % 64) + 128) % 64) * 4096
            + ((((pt \div 64) % 64) + 128) % 64) * 64 + (((pt % 64) + 128) % 64) = pt
         /\ pt \div 262144 + 240 = 240 => ((pt \div 4096) % 64) + 128 \in 144..191
         /\ pt \div 262144 + 240 = 244 => ((pt \div 4096) % 64) + 128 \in 128..143
<1>1. pt \div 262144 \in 0..4
  BY SMTT(30)
<1>2. /\ ((pt \div 4096) % 64) + 128 \in 128..191
      /\ ((pt \div 64) % 64) + 128 \in 128..191 /\ (pt % 64) + 128 \in 128..191
  BY SMTT(30)
<1>3. (pt \div 262144 + 240) % 8 = pt \div 262144
  BY <1>1, SMTT(30)
<1>4. /\ (((pt \div 4096) % 64) + 128) % 64 = (pt \div 4096) % 64
      /\ (((pt \div 64) % 64) + 128) % 64 = (pt \div 64) % 64
      /\ ((pt % 64) + 128) % 64 = pt % 64
  BY SMTT(30)
<1>5. (pt \div 262144) * 262144 + ((pt \div 4096) % 64) * 4096 + ((pt \div 64) % 64) * 64
      + (pt % 64) = pt
  BY SMTT(30)
<1>6. pt \div 262144 + 240 = 240 => ((pt \div 4096) % 64) + 128 \in 144..191
  BY SMTT(30)
<1>7. pt \div 262144 + 240 = 244 => ((pt \div 4096) % 64) + 128 \in 128..143
  BY SMTT(30)
<1> QED BY <1>1, <1>2, <1>3, <1>4, <1>5, <1>6, <1>7, SMTT(30)

\* What utf8_encode() makes of a scalar value is a well-formed sequence, from
\* which the value is computed.
LEMMA Encoded ==
  ASSUME NEW pt \in Nat, Scalar(pt)
  PROVE  /\ utf8_encode(pt) \in Seq(Byte) /\ Len(utf8_encode(pt)) \in 1..4
         /\ IsChar(utf8_encode(pt)) /\ Width(utf8_encode(pt)[1]) = Len(utf8_encode(pt))
         /\ Value(utf8_encode(pt), 0, Len(utf8_encode(pt))) = pt
         /\ Least(Len(utf8_encode(pt))) <= pt
<1> DEFINE e == utf8_encode(pt)
<1>0. pt < 1114112 /\ ~High(pt) /\ ~Low(pt)
  BY DEF Scalar
<1>1. CASE pt < 128
  <2>1. e = <<pt>>
    BY <1>1, SMT DEF utf8_encode
  <2> QED BY <1>1, <2>1, SMT DEF IsChar, Width, Value, Least, At, Byte
<1>2. CASE 128 <= pt /\ pt < 2048
  <2> DEFINE a == pt \div 64 + 192
             b == (pt % 64) + 128
  <2>1. e = <<a, b>>
    BY <1>2, SMT DEF utf8_encode
  <2>2. a \in 194..223 /\ b \in 128..191 /\ (a % 32) * 64 + (b % 64) = pt
    BY <1>2, Digits2
  <2> HIDE DEF a, b, e
  <2>3. Cont(b)
    BY <2>2, SMT DEF Cont
  <2>4. e \in Seq(Byte) /\ Len(e) = 2 /\ e[1] = a /\ e[2] = b
    BY <2>1, <2>2, SMT DEF Byte
  <2>5. Width(a) = 2
    BY <2>2, SMT DEF Width
  <2>6. Value(e, 0, 2) = pt
    BY <2>2, <2>4, SMT DEF Value, At, Bits
  <2>7. IsChar(e)
    <3>1. Follows(e, 1, e[2])
      BY <2>2, <2>4, SMT DEF Follows
    <3>2. \A k \in 2..Len(e) : Cont(e[k])
      BY <2>3, <2>4, SMT
    <3> QED BY <2>2, <2>4, <2>5, <3>1, <3>2, SMT DEF IsChar
  <2> QED BY <1>2, <2>4, <2>5, <2>6, <2>7, SMT DEF Least, e
<1>3. CASE 2048 <= pt /\ pt < 65536
  <2> DEFINE a == pt \div 4096 + 224
             b == ((pt \div 64) % 64) + 128
             c == (pt % 64) + 128
  <2>1. e = <<a, b, c>>
    BY <1>3, SMT DEF utf8_encode
  <2>2. /\ a \in 224..239 /\ b \in 128..191 /\ c \in 128..191
        /\ (a % 16) * 4096 + (b % 64) * 64 + (c % 64) = pt
        /\ a = 224 => b \in 160..191
        /\ a = 237 => b \in 128..159
    BY <1>0, <1>3, Digits3
  <2> HIDE DEF a, b, c, e
  <2>3. Cont(b) /\ Cont(c)
    BY <2>2, SMT DEF Cont
  <2>4. e \in Seq(Byte) /\ Len(e) = 3 /\ e[1] = a /\ e[2] = b /\ e[3] = c
    BY <2>1, <2>2, SMT DEF Byte
  <2>5. Width(a) = 3
    BY <2>2, SMT DEF Width
  <2>6. Value(e, 0, 3) = pt
    BY <2>2, <2>4, SMT DEF Value, At, Bits
  <2>7. IsChar(e)
    <3>1. Follows(e, 1, e[2])
      BY <2>2, <2>4, SMT DEF Follows
    <3>2. \A k \in 2..Len(e) : Cont(e[k])
      BY <2>3, <2>4, SMT
    <3> QED BY <2>2, <2>4, <2>5, <3>1, <3>2, SMT DEF IsChar
  <2> QED BY <1>3, <2>4, <2>5, <2>6, <2>7, SMT DEF Least, e
<1>4. CASE 65536 <= pt
  <2> DEFINE a == pt \div 262144 + 240
             b == ((pt \div 4096) % 64) + 128
             c == ((pt \div 64) % 64) + 128
             d == (pt % 64) + 128
  <2>1. e = <<a, b, c, d>>
    BY <1>0, <1>4, SMT DEF utf8_encode
  <2>2. /\ a \in 240..244 /\ b \in 128..191 /\ c \in 128..191 /\ d \in 128..191
        /\ (a % 8) * 262144 + (b % 64) * 4096 + (c % 64) * 64 + (d % 64) = pt
        /\ a = 240 => b \in 144..191
        /\ a = 244 => b \in 128..143
    BY <1>0, <1>4, Digits4
  <2> HIDE DEF a, b, c, d, e
  <2>3. Cont(b) /\ Cont(c) /\ Cont(d)
    BY <2>2, SMT DEF Cont
  <2>4. e \in Seq(Byte) /\ Len(e) = 4 /\ e[1] = a /\ e[2] = b /\ e[3] = c /\ e[4] = d
    BY <2>1, <2>2, SMT DEF Byte
  <2>5. Width(a) = 4
    BY <2>2, SMT DEF Width
  <2>6. Value(e, 0, 4) = pt
    BY <2>2, <2>4, SMT DEF Value, At, Bits
  <2>7. IsChar(e)
    <3>1. Follows(e, 1, e[2])
      BY <2>2, <2>4, SMT DEF Follows
    <3>2. \A k \in 2..Len(e) : Cont(e[k])
      BY <2>3, <2>4, SMT
    <3> QED BY <2>2, <2>4, <2>5, <3>1, <3>2, SMT DEF IsChar
  <2> QED BY <1>4, <2>4, <2>5, <2>6, <2>7, SMT DEF Least, e
<1> QED BY <1>1, <1>2, <1>3, <1>4, SMT

\* The value of a sequence depends on its bytes only.
LEMMA ValueOfPiece ==
  ASSUME NEW s, NEW n \in Nat, NEW e, Len(e) \in 1..4, Piece(s, n, Len(s), e)
  PROVE  Value(s, n, Len(e)) = Value(e, 0, Len(e))
<1>1. \A k \in 1..Len(e) : s[n + k] = e[k]
  BY DEF Piece
<1>2. CASE Len(e) = 1
  BY <1>1, <1>2, SMT DEF Value, At
<1>3. CASE Len(e) = 2
  <2>1. s[n + 1] = e[1] /\ s[n + 2] = e[2]
    BY <1>1, <1>3
  <2>2. (n + 1) + 1 = n + 2 /\ 0 + 1 = 1 /\ (0 + 1) + 1 = 2
    OBVIOUS
  <2> QED BY <1>3, <2>1, <2>2, SMT DEF Value, At
<1>4. CASE Len(e) = 3
  <2>1. s[n + 1] = e[1] /\ s[n + 2] = e[2] /\ s[n + 3] = e[3]
    BY <1>1, <1>4
  <2>2. (n + 1) + 1 = n + 2 /\ (n + 2) + 1 = n + 3
    OBVIOUS
  <2> QED BY <1>4, <2>1, <2>2, SMT DEF Value, At
<1>5. CASE Len(e) = 4
  <2>1. s[n + 1] = e[1] /\ s[n + 2] = e[2] /\ s[n + 3] = e[3] /\ s[n + 4] = e[4]
    BY <1>1, <1>5
  <2>2. (n + 1) + 1 = n + 2 /\ (n + 2) + 1 = n + 3 /\ (n + 3) + 1 = n + 4
    OBVIOUS
  <2> QED BY <1>5, <2>1, <2>2, SMT DEF Value, At
<1> QED BY <1>2, <1>3, <1>4, <1>5

\* Decoding finds the code point that was encoded, in UTF-8 (utf8_encode() and
\* utf8_decode_check()).
THEOREM DecodeEncoded8 ==
  ASSUME NEW s, NEW n \in Nat, NEW pt \in Nat, Scalar(pt), Piece(s, n, Len(s), utf8_encode(pt))
  PROVE  utf8_decode_check(s, n) = [offset |-> Len(utf8_encode(pt)), pt |-> pt]
<1> DEFINE e == utf8_encode(pt)
           w == Len(e)
<1>1. /\ w \in 1..4 /\ IsChar(e) /\ Width(e[1]) = w /\ Value(e, 0, w) = pt /\ Least(w) <= pt
      /\ pt < 1114112
  BY Encoded DEF Scalar
<1> HIDE DEF e
<1>2. \A k \in 1..w : s[n + k] = e[k]
  BY DEF Piece, e
<1>3. At(s, n) = e[1]
  BY <1>1, <1>2 DEF At
<1>4. Whole(s, n, w)
  <2>1. ASSUME NEW k \in 1..(w - 1) PROVE Cont(At(s, n + k))
    <3>1. k + 1 \in 2..w /\ n + (k + 1) = (n + k) + 1
      BY <1>1
    <3>2. Cont(e[k + 1])
      BY <1>1, <3>1 DEF IsChar
    <3>3. s[n + (k + 1)] = e[k + 1]
      BY <1>1, <1>2, <3>1
    <3> QED BY <3>1, <3>2, <3>3 DEF At
  <2> QED BY <1>1, <2>1 DEF Whole
<1>5. Value(s, n, w) = pt
  BY <1>1, ValueOfPiece DEF e
<1> QED BY <1>1, <1>3, <1>4, <1>5, SMT DEF utf8_decode_check, e

LEMMA SumsAreNat ==
  ASSUME NEW a \in Nat, NEW b \in Nat, NEW c \in Nat, NEW d \in Nat
  PROVE  /\ (a % 32) * 64 + (b % 64) \in Nat
         /\ (a % 16) * 4096 + (b % 64) * 64 + (c % 64) \in Nat
         /\ (a % 8) * 262144 + (b % 64) * 4096 + (c % 64) * 64 + (d % 64) \in Nat
BY SMT

\* A sequence that is cut short ends at the NUL, so that decoding stays inside.
LEMMA Decoded8 ==
  ASSUME NEW s \in Seq(Byte), NEW n \in Nat, n < Len(s) - 1, s[Len(s)] = 0
  PROVE  LET r == utf8_decode_check(s, n) IN
         \/ r = invalid_pt
         \/ /\ r.offset \in 1..4 /\ n + r.offset <= Len(s) - 1
            /\ r.pt \in Nat /\ r.pt < 1114112
<1> DEFINE w == Width(At(s, n))
           r == utf8_decode_check(s, n)
<1>1. CASE ~(Whole(s, n, w) /\ Least(w) <= Value(s, n, w) /\ Value(s, n, w) < 1114112)
  BY <1>1, SMT DEF utf8_decode_check
<1>2. CASE Whole(s, n, w) /\ Least(w) <= Value(s, n, w) /\ Value(s, n, w) < 1114112
  <2>1. r = [offset |-> w, pt |-> Value(s, n, w)]
    BY <1>2, SMT DEF utf8_decode_check
  <2>2. w \in 1..4
    BY <1>2, SMT DEF Whole, Width
  <2> HIDE DEF w
  <2>3. n + w <= Len(s) - 1
    <3>1. SUFFICES ASSUME n + w > Len(s) - 1 PROVE FALSE
      BY <2>2
    <3> DEFINE k == (Len(s) - 1) - n
    <3>2. k \in 1..(w - 1) /\ (n + k) + 1 = Len(s)
      BY <2>2, <3>1
    <3> HIDE DEF k
    <3>3. Cont(At(s, n + k))
      BY <1>2, <3>2 DEF Whole
    <3>4. Cont(0)
      BY <3>2, <3>3 DEF At
    <3> QED BY <3>4, SMT DEF Cont
  <2>4. Value(s, n, w) \in Nat
    <3>1. ASSUME NEW k \in 0..3, k < w PROVE At(s, n + k) \in Nat
      <4>1. (n + k) + 1 \in 1..Len(s)
        BY <2>2, <2>3, <3>1
      <4>2. s[(n + k) + 1] \in Byte
        BY <4>1
      <4>3. \A x \in Byte : x \in Nat
        BY DEF Byte
      <4> QED BY <4>2, <4>3 DEF At
    <3>2. At(s, n) \in Nat
      BY <2>2, <3>1, n + 0 = n
    <3>3. CASE w = 1
      BY <3>2, <3>3, SMT DEF Value
    <3>4. CASE w = 2
      <4>1. At(s, n + 1) \in Nat
        BY <3>1, <3>4
      <4> QED BY <3>2, <3>4, <4>1, SumsAreNat, SMT DEF Value, Bits
    <3>5. CASE w = 3
      <4>1. At(s, n + 1) \in Nat /\ At(s, n + 2) \in Nat
        BY <3>1, <3>5
      <4> QED BY <3>2, <3>5, <4>1, SumsAreNat, SMT DEF Value, Bits
    <3>6. CASE w = 4
      <4>1. At(s, n + 1) \in Nat /\ At(s, n + 2) \in Nat /\ At(s, n + 3) \in Nat
        BY <3>1, <3>6
      <4>2. (At(s, n) % 8) * 262144 + (At(s, n + 1) % 64) * 4096
            + (At(s, n + 2) % 64) * 64 + (At(s, n + 3) % 64) \in Nat
        <5> DEFINE a == At(s, n)
                   b == At(s, n + 1)
                   c == At(s, n + 2)
                   d == At(s, n + 3)
        <5>1. a \in Nat /\ b \in Nat /\ c \in Nat /\ d \in Nat
          BY <3>2, <4>1, SMT
        <5> HIDE DEF a, b, c, d
        <5>2. (a % 8) * 262144 + (b % 64) * 4096 + (c % 64) * 64 + (d % 64) \in Nat
          BY <5>1, SMT
        <5> QED BY <5>2, SMT DEF a, b, c, d
      <4> QED BY <3>6, <4>2, SMT DEF Value, Bits
    <3> QED BY <2>2, <3>3, <3>4, <3>5, <3>6
  <2> QED BY <1>2, <2>1, <2>2, <2>3, <2>4, SMT
<1> QED BY <1>1, <1>2

-----------------------------------------------------------------------------
(* UTF-16.                                                                 *)

LEMMA Halves ==
  ASSUME NEW pt \in Nat, 65536 <= pt, pt < 1114112
  PROVE  /\ (pt - 65536) \div 1024 + 55296 \in Nat /\ (pt % 1024) + 56320 \in Nat
         /\ High((pt - 65536) \div 1024 + 55296) /\ Low((pt % 1024) + 56320)
         /\ (((pt - 65536) \div 1024 + 55296) - 55296) * 1024
            + (((pt % 1024) + 56320) - 56320) + 65536 = pt
<1>1. (pt - 65536) \div 1024 \in 0..1023 /\ pt % 1024 \in 0..1023
  BY SMTT(30)
<1>2. ((pt - 65536) \div 1024) * 1024 + (pt % 1024) + 65536 = pt
  BY SMTT(30)
<1> QED BY <1>1, <1>2, SMTT(30) DEF High, Low

\* What utf16_encode() makes of a code point.
LEMMA Encoded16 ==
  ASSUME NEW pt \in Nat, pt < 1114112
  PROVE  /\ utf16_encode(pt) \in Seq(Unit)
         /\ pt < 65536 => utf16_encode(pt) = <<pt>>
         /\ 65536 <= pt => /\ Len(utf16_encode(pt)) = 2
                           /\ High(utf16_encode(pt)[1]) /\ Low(utf16_encode(pt)[2])
                           /\ (utf16_encode(pt)[1] - 55296) * 1024
                              + (utf16_encode(pt)[2] - 56320) + 65536 = pt
<1>1. CASE pt < 65536
  BY <1>1, SMT DEF utf16_encode, Unit
<1>2. CASE 65536 <= pt
  <2> DEFINE h == (pt - 65536) \div 1024 + 55296
             l == (pt % 1024) + 56320
  <2>1. utf16_encode(pt) = <<h, l>>
    BY <1>2, SMT DEF utf16_encode
  <2>2. /\ h \in Nat /\ l \in Nat /\ High(h) /\ Low(l)
        /\ (h - 55296) * 1024 + (l - 56320) + 65536 = pt
    BY <1>2, Halves, SMT
  <2> HIDE DEF h, l
  <2>3. h \in Unit /\ l \in Unit
    <3>1. h < 65536 /\ l < 65536
      BY <2>2, SMT DEF High, Low
    <3> QED BY <2>2, <3>1, SMT DEF Unit
  <2>4. <<h, l>> \in Seq(Unit) /\ Len(<<h, l>>) = 2 /\ <<h, l>>[1] = h /\ <<h, l>>[2] = l
    BY <2>3, SMT
  <2> QED BY <1>2, <2>1, <2>2, <2>4, SMT
<1> QED BY <1>1, <1>2, SMT

\* Decoding finds the code point that was encoded, in UTF-16 (utf16_encode() and
\* utf16_decode_check()).
THEOREM DecodeEncoded16 ==
  ASSUME NEW s, NEW n \in Nat, NEW pt \in Nat, Scalar(pt), Piece(s, n, Len(s), utf16_encode(pt))
  PROVE  utf16_decode_check(s, n) = [offset |-> Len(utf16_encode(pt)), pt |-> pt]
<1>1. pt < 1114112 /\ ~High(pt) /\ ~Low(pt)
  BY DEF Scalar
<1>2. CASE pt < 65536
  <2>1. utf16_encode(pt) = <<pt>> /\ Len(<<pt>>) = 1 /\ <<pt>>[1] = pt
    BY <1>1, <1>2, Encoded16, SMT
  <2>2. At(s, n) = pt
    BY <2>1, SMT DEF Piece, At
  <2> QED BY <1>1, <2>1, <2>2, SMT DEF utf16_decode_check
<1>3. CASE 65536 <= pt
  <2> DEFINE e == utf16_encode(pt)
  <2>1. /\ Len(e) = 2 /\ High(e[1]) /\ Low(e[2])
        /\ (e[1] - 55296) * 1024 + (e[2] - 56320) + 65536 = pt
    BY <1>1, <1>3, Encoded16, SMT
  <2>2. s[n + 1] = e[1] /\ s[n + 2] = e[2] /\ (n + 1) + 1 = n + 2
    BY <2>1, SMT DEF Piece
  <2>3. At(s, n) = e[1] /\ At(s, n + 1) = e[2]
    BY <2>2, SMT DEF At
  <2> QED BY <2>1, <2>3, SMT DEF utf16_decode_check, PairAt
<1> QED BY <1>1, <1>2, <1>3, SMT

\* Two surrogates are read together only within the string, if none lies behind
\* it; what is read is no surrogate.
\* Decoding goes on inside s, or has taken along the half of a pair that lies
\* behind it.
Inside(s, n) == n <= Len(s) - 1 \/ (n = Len(s) /\ EndsInPair(s))

LEMMA Decoded16 ==
  ASSUME NEW s \in Seq(Unit), NEW n \in Nat, n < Len(s) - 1
  PROVE  LET r == utf16_decode_check(s, n) IN
         \/ r = invalid_pt
         \/ /\ r.offset \in 1..2 /\ Inside(s, n + r.offset)
            /\ r.pt \in Nat /\ Scalar(r.pt)
<1>1. At(s, n) \in Unit /\ At(s, n + 1) \in Unit
  <2>1. n + 1 \in 1..Len(s) /\ (n + 1) + 1 \in 1..Len(s)
    OBVIOUS
  <2> QED BY <2>1 DEF At
<1> DEFINE h == At(s, n)
           l == At(s, n + 1)
<1>2. CASE High(h) /\ Low(l)
  <2>1. utf16_decode_check(s, n) = [offset |-> 2, pt |-> PairAt(s, n)]
    BY <1>2, SMT DEF utf16_decode_check
  <2>2. Inside(s, n + 2)
    <3>1. CASE n + 2 > Len(s) - 1
      <4>1. (n + 1) + 1 = Len(s) /\ n + 1 = Len(s) - 1 /\ n + 2 = Len(s) /\ Len(s) > 1
        BY <3>1
      <4>2. High(s[Len(s) - 1]) /\ Low(s[Len(s)])
        BY <1>2, <4>1 DEF At
      <4> QED BY <4>1, <4>2 DEF Inside, EndsInPair
    <3>2. CASE ~(n + 2 > Len(s) - 1)
      BY <3>2 DEF Inside
    <3> QED BY <3>1, <3>2
  <2>3. PairAt(s, n) \in Nat /\ Scalar(PairAt(s, n))
    <3>1. h \in Nat /\ l \in Nat
      BY <1>1, SMT DEF Unit
    <3> QED BY <1>2, <3>1, SMT DEF PairAt, Scalar, High, Low
  <2>4. utf16_decode_check(s, n).offset = 2 /\ utf16_decode_check(s, n).pt = PairAt(s, n)
    BY <2>1
  <2>5. 2 \in 1..2
    OBVIOUS
  <2> QED BY <2>2, <2>3, <2>4, <2>5
<1>3. CASE ~(High(h) /\ Low(l)) /\ (High(h) \/ Low(h))
  BY <1>3, SMT DEF utf16_decode_check
<1>4. CASE ~High(h) /\ ~Low(h)
  <2>1. utf16_decode_check(s, n) = [offset |-> 1, pt |-> h]
    BY <1>4, SMT DEF utf16_decode_check
  <2>2. h \in Nat /\ Scalar(h)
    <3>1. h \in Nat /\ h < 65536
      BY <1>1, SMT DEF Unit
    <3> QED BY <1>4, <3>1, SMT DEF Scalar
  <2>3. utf16_decode_check(s, n).offset = 1 /\ utf16_decode_check(s, n).pt = h
    BY <2>1
  <2>4. 1 \in 1..2 /\ Inside(s, n + 1)
    BY DEF Inside
  <2> QED BY <2>2, <2>3, <2>4
<1> QED BY <1>2, <1>3, <1>4


-----------------------------------------------------------------------------
(* The loops.                                                              *)

LEMMA LeadWidth ==
  ASSUME NEW b \in 194..244
  PROVE  Width(b) \in 2..4
BY SMT DEF Width

LEMMA FromTheLead ==
  ASSUME NEW m \in Nat, NEW l \in 2..4, NEW j \in 2..l
  PROVE  LET d == j - 1 IN
         d \in 1..3 /\ d < m + j /\ (m + j) - d = m + 1 /\ d < l
BY SMT

\* A well-formed string stays one with another sequence behind it.
LEMMA WellFormedAppend ==
  ASSUME NEW s \in Seq(Byte), NEW e \in Seq(Byte), WellFormed(s), IsChar(e)
  PROVE  WellFormed(s \o e)
<1> DEFINE r == s \o e
           m == Len(s)
<1>1. /\ m \in Nat /\ Len(e) \in Nat /\ Len(r) = m + Len(e)
      /\ \A k \in 1..m : r[k] = s[k]
      /\ \A k \in 1..Len(e) : r[m + k] = e[k]
  BY SMT
<1> HIDE DEF r, m
<1> DEFINE Ok(q, k) ==
             \/ q[k] < 128
             \/ /\ q[k] \in 194..244
                /\ k + Width(q[k]) - 1 <= Len(q) /\ Follows(q, k, q[k + 1])
                /\ \A d \in 1..(Width(q[k]) - 1) : Cont(q[k + d])
             \/ /\ Cont(q[k])
                /\ \E d \in 1..3 : d < k /\ d < Width(q[k - d]) /\ q[k - d] \in 194..244
<1>2. ASSUME NEW k \in 1..m PROVE Ok(r, k)
  <2>1. r[k] = s[k] /\ k \in 1..Len(r)
    BY <1>1, SMT
  <2>2. Ok(s, k)
    BY DEF WellFormed, m
  <2>3. CASE s[k] < 128
    BY <2>1, <2>3
  <2>4. CASE /\ s[k] \in 194..244
             /\ k + Width(s[k]) - 1 <= Len(s) /\ Follows(s, k, s[k + 1])
             /\ \A d \in 1..(Width(s[k]) - 1) : Cont(s[k + d])
    <3>1. Width(s[k]) \in 2..4
      BY <2>4, LeadWidth
    <3>2. k + Width(r[k]) - 1 <= Len(r)
      BY <1>1, <2>1, <2>4, <3>1, SMT DEF m
    <3>3. \A d \in 1..(Width(s[k]) - 1) : r[k + d] = s[k + d]
      BY <1>1, <2>4, <3>1, SMT DEF m
    <3>4. r[k + 1] = s[k + 1]
      BY <3>1, <3>3, SMT
    <3>5. Follows(r, k, r[k + 1])
      BY <2>1, <2>4, <3>4 DEF Follows
    <3>6. \A d \in 1..(Width(r[k]) - 1) : Cont(r[k + d])
      BY <2>1, <2>4, <3>3
    <3> QED BY <2>1, <2>4, <3>2, <3>5, <3>6
  <2>5. CASE Cont(s[k]) /\ \E d \in 1..3 : d < k /\ d < Width(s[k - d]) /\ s[k - d] \in 194..244
    <3>1. PICK d \in 1..3 : d < k /\ d < Width(s[k - d]) /\ s[k - d] \in 194..244
      BY <2>5
    <3>2. r[k - d] = s[k - d]
      BY <1>1, <3>1, SMT
    <3> QED BY <2>1, <2>5, <3>1, <3>2
  <2> QED BY <2>2, <2>3, <2>4, <2>5
<1>3. ASSUME NEW j \in 1..Len(e) PROVE Ok(r, m + j)
  <2>1. r[m + j] = e[j] /\ r[m + 1] = e[1]
    BY <1>1, SMT
  <2>2. CASE Len(e) = 1 /\ e[1] < 128
    BY <2>1, <2>2, SMT
  <2>3. CASE /\ Len(e) \in 2..4 /\ e[1] \in 194..244 /\ Width(e[1]) = Len(e)
             /\ Follows(e, 1, e[2]) /\ \A d \in 2..Len(e) : Cont(e[d])
    <3>1. CASE j = 1
      <4>1. (m + 1) + Width(r[m + 1]) - 1 <= Len(r)
        BY <1>1, <2>1, <2>3, SMT
      <4>2. \A d \in 1..(Len(e) - 1) : r[(m + 1) + d] = e[d + 1]
        BY <1>1, <2>3, SMT
      <4>3. r[(m + 1) + 1] = e[2]
        BY <2>3, <4>2, SMT
      <4>4. Follows(r, m + 1, r[(m + 1) + 1])
        BY <2>1, <2>3, <4>3 DEF Follows
      <4>5. ASSUME NEW d \in 1..(Width(r[m + 1]) - 1) PROVE Cont(r[(m + 1) + d])
        <5>1. d \in 1..(Len(e) - 1) /\ d + 1 \in 2..Len(e)
          BY <2>1, <2>3, SMT
        <5> QED BY <2>3, <4>2, <5>1
      <4> QED BY <2>1, <2>3, <3>1, <4>1, <4>4, <4>5
    <3>2. CASE j # 1
      <4> DEFINE d == j - 1
      <4>1. /\ d \in 1..3 /\ d < m + j /\ (m + j) - d = m + 1 /\ d < Len(e)
            /\ j \in 2..Len(e)
        <5>1. j \in 2..Len(e) /\ Len(e) \in 2..4 /\ m \in Nat
          <6>1. m \in Nat
            BY <1>1
          <6>2. Len(e) \in 2..4
            BY <2>3
          <6>3. j \in 1..Len(e)
            BY <1>3
          <6> QED BY <3>2, <6>1, <6>2, <6>3, SMT
        <5> QED BY <5>1, FromTheLead
      <4> HIDE DEF d
      <4> QED BY <2>1, <2>3, <4>1
    <3> QED BY <3>1, <3>2
  <2> QED BY <2>2, <2>3 DEF IsChar
<1>4. ASSUME NEW k \in 1..Len(r) PROVE Ok(r, k)
  <2>1. CASE k <= m
    BY <1>1, <1>2, <2>1, SMT
  <2>2. CASE k > m
    <3>1. k - m \in 1..Len(e) /\ m + (k - m) = k
      BY <1>1, <2>2, SMT
    <3> HIDE DEF Ok
    <3>2. Ok(r, m + (k - m))
      BY <1>3, <3>1
    <3> QED BY <3>1, <3>2
  <2> QED BY <1>1, <2>1, <2>2, SMT
<1> QED BY <1>4 DEF WellFormed, r


\* What decoding at index n of s returns, s being followed by a NUL.
LEMMA Step8 ==
  ASSUME NEW s \in Seq(Byte), NEW n \in Nat, n < Len(s) - 1, s[Len(s)] = 0
  PROVE  LET d == decode(utf8_decode_check(s, n), n) IN
         d.at \in Nat /\ d.at <= Len(s) - 1 /\ d.pt \in Nat /\ d.pt < 1114112
<1> DEFINE r == utf8_decode_check(s, n)
<1>1. CASE r = invalid_pt
  <2>1. decode(r, n) = [at |-> n + 1, pt |-> 65533]
    BY <1>1, SMT DEF decode, invalid_pt, REPLACEMENT
  <2> QED BY <2>1, SMT
<1>2. CASE /\ r.offset \in 1..4 /\ n + r.offset <= Len(s) - 1
           /\ r.pt \in Nat /\ r.pt < 1114112
  <2>1. decode(r, n) = [at |-> n + r.offset, pt |-> r.pt]
    BY <1>2, SMT DEF decode
  <2>2. decode(r, n).at = n + r.offset /\ decode(r, n).pt = r.pt
    BY <2>1, SMT
  <2>3. n + r.offset \in Nat
    BY <1>2, SMT
  <2> QED BY <1>2, <2>2, <2>3, SMT
<1> QED BY <1>1, <1>2, Decoded8, SMT

\* The same in UTF-16.
LEMMA Step16 ==
  ASSUME NEW s \in Seq(Unit), NEW n \in Nat, n < Len(s) - 1
  PROVE  LET d == decode(utf16_decode_check(s, n), n) IN
         d.at \in Nat /\ Inside(s, d.at) /\ d.pt \in Nat /\ Scalar(d.pt)
<1> DEFINE r == utf16_decode_check(s, n)
<1>1. CASE r = invalid_pt
  <2>1. decode(r, n) = [at |-> n + 1, pt |-> 65533]
    BY <1>1, SMT DEF decode, invalid_pt, REPLACEMENT
  <2>2. decode(r, n).at = n + 1 /\ decode(r, n).pt = 65533
    BY <2>1
  <2>3. Scalar(65533) /\ 65533 \in Nat
    BY SMT DEF Scalar, High, Low
  <2>4. n + 1 \in Nat /\ Inside(s, n + 1)
    BY DEF Inside
  <2> HIDE DEF r
  <2> QED BY <2>2, <2>3, <2>4 DEF r
<1>2. CASE /\ r.offset \in 1..2 /\ Inside(s, n + r.offset)
           /\ r.pt \in Nat /\ Scalar(r.pt)
  <2>1. decode(r, n) = [at |-> n + r.offset, pt |-> r.pt]
    BY <1>2, SMT DEF decode
  <2>2. decode(r, n).at = n + r.offset /\ decode(r, n).pt = r.pt
    BY <2>1
  <2>3. n + r.offset \in Nat
    BY <1>2
  <2> QED BY <1>2, <2>2, <2>3, Zenon
<1> QED BY <1>1, <1>2, Decoded16

\* utf16_encode() writes code units for every char32_t.
LEMMA Units16 ==
  ASSUME NEW pt \in Nat
  PROVE  utf16_encode(pt) \in Seq(Unit)
<1>1. CASE pt < 1114112
  BY <1>1, Encoded16, SMT
<1>2. CASE ~(pt < 1114112)
  <2>1. utf16_encode(pt) = <<65533>>
    BY <1>2, SMT DEF utf16_encode, REPLACEMENT
  <2>2. 65533 \in Unit
    BY SMT DEF Unit
  <2> QED BY <2>1, <2>2, SMT
<1> QED BY <1>1, <1>2

-----------------------------------------------------------------------------
(* The invariant.                                                          *)

\* What lies behind the string that is converted.
Ends == leg # "done" => str[Len(str)] \in Behind(now)

IInv == TypeOK /\ IndexInRange /\ Ends /\ OnlyUTF8

LEMMA BehindTyped ==
  ASSUME NEW c \in Conversions
  PROVE  Behind(c) \subseteq From(c)
<1>1. AfterChars \subseteq Unit
  BY TextAssumption
<1>2. 0 \in Byte /\ 0 \in Unit /\ 0 \in Wide
  BY SMT DEF Byte, Unit, Wide
<1>3. From(c) \in {Byte, Unit, Wide}
  BY DEF From, Conversions
<1>4. c = "WStringFromString" => From(c) = Unit
  BY DEF From
<1> QED BY <1>1, <1>2, <1>3, <1>4 DEF Behind

\* No pair ends behind a std::u16string.
LEMMA NoPairBehind ==
  ASSUME NEW s, s[Len(s)] = 0
  PROVE  ~EndsInPair(s)
<1>1. ~Low(0)
  BY SMT DEF Low
<1> QED BY <1>1 DEF EndsInPair

LEMMA AppendTyped ==
  ASSUME NEW S, NEW s \in Seq(S), NEW b \in S
  PROVE  /\ Append(s, b) \in Seq(S) /\ Append(s, b) # <<>>
         /\ Len(Append(s, b)) = Len(s) + 1 /\ Append(s, b)[Len(Append(s, b))] = b
         /\ Len(s) \in Nat
BY SMT

LEMMA EmptyWellFormed ==
  WellFormed(<<>>)
BY SMT DEF WellFormed

LEMMA InitIInv ==
  ASSUME Init
  PROVE  IInv
<1>1. first \in Conversions /\ sent \in Sends(first) /\ leg = "there" /\ i = 0 /\ out = <<>>
  BY DEF Init
<1>2. now = first
  BY <1>1 DEF now
<1>3. sent \in Seq(From(first))
  BY <1>1, TextAssumption DEF Sends, From, Conversions
<1>4. PICK b \in Behind(first) : str = Append(sent, b)
  BY DEF Init
<1>5. b \in From(first)
  BY <1>1, <1>4, BehindTyped
<1>6. /\ str \in Seq(From(first)) /\ str # <<>> /\ Len(str) = Len(sent) + 1 /\ str[Len(str)] = b
      /\ Len(sent) \in Nat
  BY <1>3, <1>4, <1>5, AppendTyped
<1>7. out \in Seq(To(now))
  BY <1>1
<1>8. TypeOK
  BY <1>1, <1>2, <1>3, <1>6, <1>7, SMT DEF TypeOK
<1>9. IndexInRange
  BY <1>1, <1>6, SMT DEF IndexInRange, Length
<1>10. Ends
  BY <1>2, <1>4, <1>6 DEF Ends
<1>11. OnlyUTF8
  BY <1>1, EmptyWellFormed DEF OnlyUTF8
<1> QED BY <1>8, <1>9, <1>10, <1>11 DEF IInv

\* A round of a loop that stays inside the string and writes what belongs there.
LEMMA RoundIInv ==
  ASSUME IInv, leg # "done", NEW d, NEW piece, Round(d, piece),
         d.at \in Nat, d.at <= Length \/ (now = "WStringFromString" /\ Inside(str, d.at)),
         piece \in Seq(To(now)),
         now = "UTF8FromString" => IsChar(piece)
  PROVE  IInv'
<1>1. /\ i' = d.at /\ out' = out \o piece
      /\ first' = first /\ sent' = sent /\ leg' = leg /\ str' = str
  BY DEF Round
<1>2. now' = now /\ Length' = Length
  BY <1>1 DEF now, Length
<1>3. out \in Seq(To(now))
  BY DEF IInv, TypeOK
<1>4. out' \in Seq(To(now))
  BY <1>1, <1>3
<1>5. TypeOK'
  <2>1. /\ first \in Conversions /\ sent \in Seq(From(first)) /\ leg \in {"there", "back", "done"}
        /\ str # <<>> /\ str \in Seq(From(now))
    BY DEF IInv, TypeOK
  <2> QED BY <1>1, <1>2, <1>4, <2>1 DEF TypeOK
<1>6. IndexInRange'
  BY <1>1, <1>2 DEF IndexInRange, Inside, Length
<1>7. Ends'
  BY <1>1, <1>2 DEF IInv, Ends
<1>8. OnlyUTF8'
  <2>1. SUFFICES ASSUME now = "UTF8FromString" PROVE WellFormed(out')
    BY <1>1, <1>2 DEF OnlyUTF8
  <2>2. To(now) = Byte
    BY <2>1 DEF To
  <2>3. WellFormed(out)
    BY <2>1 DEF IInv, OnlyUTF8
  <2>4. IsChar(piece)
    BY <2>1
  <2> QED BY <1>1, <1>3, <2>2, <2>3, <2>4, WellFormedAppend
<1> QED BY <1>5, <1>6, <1>7, <1>8 DEF IInv

LEMMA Reading ==
  ASSUME IInv, NEW c \in Conversions, Doing(c)
  PROVE  /\ leg # "done" /\ now = c /\ str \in Seq(From(c)) /\ i \in Nat /\ i < Len(str) - 1
         /\ str[Len(str)] \in Behind(c)
BY DEF Doing, IInv, TypeOK, Ends, Length

LEMMA NextIInv ==
  ASSUME IInv, [Next]_vars
  PROVE  IInv'
<1>1. CASE StringFromUTF8
  <2> DEFINE c == "StringFromUTF8"
             d == decode(utf8_decode_check(str, i), i)
  <2>1. c \in Conversions /\ Doing(c) /\ From(c) = Byte /\ To(c) = Unit /\ Behind(c) = {0}
    BY <1>1 DEF StringFromUTF8, Conversions, From, To, Behind
  <2>2. /\ leg # "done" /\ now = c /\ str \in Seq(Byte) /\ i \in Nat /\ i < Len(str) - 1
        /\ str[Len(str)] = 0
    BY <2>1, Reading
  <2>3. Round(d, utf16_encode(d.pt))
    BY <1>1 DEF StringFromUTF8
  <2>4. d.at \in Nat /\ d.at <= Len(str) - 1 /\ d.pt \in Nat
    BY <2>2, Step8
  <2> HIDE DEF d
  <2>5. utf16_encode(d.pt) \in Seq(To(now))
    BY <2>1, <2>2, <2>4, Units16
  <2>6. d.at <= Length /\ now # "UTF8FromString"
    BY <2>2, <2>4 DEF Length
  <2> QED BY <2>2, <2>3, <2>4, <2>5, <2>6, RoundIInv
<1>2. CASE UTF8FromString
  <2> DEFINE c == "UTF8FromString"
             d == decode(utf16_decode_check(str, i), i)
  <2>1. c \in Conversions /\ Doing(c) /\ From(c) = Unit /\ To(c) = Byte
    BY <1>2 DEF UTF8FromString, Conversions, From, To
  <2>2. /\ leg # "done" /\ now = c /\ str \in Seq(Unit) /\ i \in Nat /\ i < Len(str) - 1
        /\ str[Len(str)] \in Behind(c)
    BY <2>1, Reading
  <2>3. Round(d, utf8_encode(d.pt))
    BY <1>2 DEF UTF8FromString
  <2>4. ~EndsInPair(str)
    BY <2>2, NoPairBehind DEF Behind
  <2>5. d.at \in Nat /\ Inside(str, d.at) /\ d.pt \in Nat /\ Scalar(d.pt)
    BY <2>2, Step16
  <2> HIDE DEF d
  <2>6. utf8_encode(d.pt) \in Seq(To(now)) /\ IsChar(utf8_encode(d.pt))
    BY <2>1, <2>2, <2>5, Encoded
  <2>7. d.at <= Length
    BY <2>4, <2>5 DEF Length, Inside
  <2> QED BY <2>2, <2>3, <2>5, <2>6, <2>7, RoundIInv
<1>3. CASE StringFromWString
  <2> DEFINE c == "StringFromWString"
             d == [at |-> i + 1]
  <2>1. c \in Conversions /\ Doing(c) /\ From(c) = Wide /\ To(c) = Unit
    BY <1>3 DEF StringFromWString, Conversions, From, To
  <2>2. leg # "done" /\ now = c /\ str \in Seq(Wide) /\ i \in Nat /\ i < Len(str) - 1
    BY <2>1, Reading
  <2>3. Round(d, utf16_encode(At(str, i)))
    BY <1>3 DEF StringFromWString
  <2>4. At(str, i) \in Nat
    BY <2>2 DEF At, Wide
  <2>5. utf16_encode(At(str, i)) \in Seq(To(now))
    BY <2>1, <2>2, <2>4, Units16
  <2>6. d.at \in Nat /\ d.at <= Length /\ now # "UTF8FromString"
    BY <2>2 DEF Length
  <2> HIDE DEF d
  <2> QED BY <2>2, <2>3, <2>5, <2>6, RoundIInv
<1>4. CASE WStringFromString
  <2> DEFINE c == "WStringFromString"
             d == decode(utf16_decode_check(str, i), i)
  <2>1. c \in Conversions /\ Doing(c) /\ From(c) = Unit /\ To(c) = Wide
    BY <1>4 DEF WStringFromString, Conversions, From, To
  <2>2. /\ leg # "done" /\ now = c /\ str \in Seq(Unit) /\ i \in Nat /\ i < Len(str) - 1
        /\ str[Len(str)] \in Behind(c)
    BY <2>1, Reading
  <2>3. Round(d, <<d.pt>>)
    BY <1>4 DEF WStringFromString
  <2>4. d.at \in Nat /\ Inside(str, d.at) /\ d.pt \in Nat
    BY <2>2, Step16
  <2> HIDE DEF d
  <2>5. <<d.pt>> \in Seq(To(now)) /\ now # "UTF8FromString"
    BY <2>1, <2>2, <2>4 DEF Wide
  <2> QED BY <2>2, <2>3, <2>4, <2>5, RoundIInv
<1>5. CASE Return
  <2> DEFINE c == Back(first)
  <2>1. /\ first \in Conversions /\ sent \in Seq(From(first)) /\ leg \in {"there", "back"}
        /\ out \in Seq(To(now))
    BY <1>5 DEF Return, IInv, TypeOK
  <2>2. c \in Conversions /\ From(c) = To(first) /\ To(c) = From(first)
    BY <2>1 DEF Back, From, To, Conversions
  <2>3. first' = first /\ sent' = sent /\ i' = 0 /\ out' = <<>>
    BY <1>5 DEF Return
  <2>4. CASE leg = "there"
    <3>1. leg' = "back" /\ now = first /\ now' = c
      BY <1>5, <2>3, <2>4 DEF Return, now
    <3>2. PICK b \in Behind(c) : str' = Append(out, b)
      BY <1>5, <2>4 DEF Return
    <3>3. b \in From(c) /\ out \in Seq(From(c))
      BY <2>1, <2>2, <3>1, <3>2, BehindTyped
    <3>4. /\ str' \in Seq(From(c)) /\ str' # <<>> /\ Len(str') = Len(out) + 1
          /\ str'[Len(str')] = b /\ Len(out) \in Nat
      BY <3>2, <3>3, AppendTyped
    <3>5. TypeOK'
      BY <2>1, <2>3, <3>1, <3>4, SMT DEF TypeOK
    <3>6. IndexInRange'
      BY <2>3, <3>4, SMT DEF IndexInRange, Length
    <3>7. Ends'
      BY <3>1, <3>2, <3>4 DEF Ends
    <3>8. OnlyUTF8'
      BY <2>3, EmptyWellFormed DEF OnlyUTF8
    <3> QED BY <3>5, <3>6, <3>7, <3>8 DEF IInv
  <2>5. CASE leg = "back"
    <3>1. leg' = "done" /\ now = c
      BY <1>5, <2>5 DEF Return, now
    <3>2. str' = Append(out, 0)
      BY <1>5, <2>5 DEF Return
    <3>3. 0 \in From(first)
      <4>1. 0 \in Byte /\ 0 \in Unit /\ 0 \in Wide
        BY SMT DEF Byte, Unit, Wide
      <4> QED BY <4>1 DEF From
    <3>4. /\ str' \in Seq(From(first)) /\ str' # <<>> /\ Len(str') = Len(out) + 1
          /\ Len(out) \in Nat
      BY <2>1, <2>2, <3>1, <3>2, <3>3, AppendTyped
    <3>5. TypeOK'
      BY <2>1, <2>3, <3>1, <3>4, SMT DEF TypeOK
    <3>6. IndexInRange'
      BY <2>3, <3>4, SMT DEF IndexInRange, Length
    <3>7. Ends' /\ OnlyUTF8'
      BY <3>1 DEF Ends, OnlyUTF8
    <3> QED BY <3>5, <3>6, <3>7 DEF IInv
  <2> QED BY <2>1, <2>4, <2>5
<1>6. CASE UNCHANGED vars
  BY <1>6 DEF IInv, TypeOK, IndexInRange, Ends, OnlyUTF8, vars, now, Length
<1> QED BY <1>1, <1>2, <1>3, <1>4, <1>5, <1>6 DEF Next


THEOREM Invariance ==
  Spec => []IInv
<1>1. Init => IInv
  BY InitIInv
<1>2. IInv /\ [Next]_vars => IInv'
  BY NextIInv
<1> QED BY <1>1, <1>2, PTL DEF Spec

\* Each conversion reads and writes code units of its encodings, for strings of
\* any length and content: no value leaves the range of char16_t or char.
THEOREM TypeCorrect ==
  Spec => []TypeOK
<1>1. IInv => TypeOK
  BY DEF IInv
<1> QED BY <1>1, Invariance, PTL

\* The loops of jniStringFromUTF8(), jniUTF8FromString(), jniStringFromWString()
\* and jniWStringFromString() never step over the end of their string; but for
\* the last one, by the one unit that completes a pair, where it lies behind the
\* array of GetStringChars.
THEOREM StaysInside ==
  Spec => []IndexInRange
<1>1. IInv => IndexInRange
  BY DEF IInv
<1> QED BY <1>1, Invariance, PTL

\* What jniUTF8FromString() returns is well-formed UTF-8, whatever Java sends.
THEOREM WritesUTF8 ==
  Spec => []OnlyUTF8
<1>1. IInv => OnlyUTF8
  BY DEF IInv
<1> QED BY <1>1, Invariance, PTL

-----------------------------------------------------------------------------
(* UTF-8: encoding what was decoded.                                       *)

\* A well-formed sequence begins at index n of s.
CharAt(s, n) ==
    \/ s[n + 1] < 128
    \/ /\ s[n + 1] \in 194..244 /\ n + Width(s[n + 1]) <= Len(s) /\ Follows(s, n + 1, s[n + 2])
       /\ \A d \in 1..(Width(s[n + 1]) - 1) : Cont(s[n + 1 + d])

\* Encoding makes the bytes again that were decoded, of each length.
LEMMA Encodes1 ==
  ASSUME NEW a \in Nat, a < 128
  PROVE  Scalar(a) /\ utf8_encode(a) = <<a>>
BY SMT DEF utf8_encode, Scalar, High, Low

LEMMA Encodes2 ==
  ASSUME NEW a \in 194..223, NEW b \in 128..191
  PROVE  \E pt \in Nat : Scalar(pt) /\ utf8_encode(pt) = <<a, b>>
<1> DEFINE x == a - 192
           y == b - 128
           pt == x * 64 + y
<1>1. /\ x \in 2..31 /\ y \in 0..63 /\ x \in Nat /\ a = x + 192 /\ b = y + 128
      /\ pt = x * 64 + y
  BY SMT
<1> HIDE DEF x, y, pt
<1>2. pt \div 64 = x /\ pt % 64 = y
  BY <1>1, SMTT(30)
<1>3. pt \in Nat /\ 128 <= pt /\ pt < 2048
  BY <1>1, SMT
<1>4. pt \div 64 + 192 = a /\ (pt % 64) + 128 = b
  BY <1>1, <1>2, SMT
<1>5. utf8_encode(pt) = <<a, b>>
  BY <1>3, <1>4, SMT DEF utf8_encode
<1>6. Scalar(pt)
  BY <1>3, SMT DEF Scalar, High, Low
<1> QED BY <1>3, <1>5, <1>6

LEMMA Encodes3 ==
  ASSUME NEW a \in 224..239, NEW b \in 128..191, NEW c \in 128..191,
         a = 224 => b >= 160, a = 237 => b < 160
  PROVE  \E pt \in Nat : Scalar(pt) /\ utf8_encode(pt) = <<a, b, c>>
<1> DEFINE x == a - 224
           y == b - 128
           z == c - 128
           pt == x * 4096 + y * 64 + z
<1>1. /\ x \in 0..15 /\ y \in 0..63 /\ z \in 0..63 /\ x \in Nat
      /\ a = x + 224 /\ b = y + 128 /\ c = z + 128
      /\ (x = 0 => y >= 32) /\ (x = 13 => y < 32)
      /\ pt = x * 4096 + y * 64 + z
  BY SMT
<1> HIDE DEF x, y, z, pt
<1>2. /\ pt = (x * 64 + y) * 64 + z /\ x * 64 + y \in Nat
      /\ pt = x * 4096 + (y * 64 + z) /\ y * 64 + z \in Nat /\ y * 64 + z < 4096
  BY <1>1, SMT
<1>3. pt \div 64 = x * 64 + y /\ pt % 64 = z
  BY <1>1, <1>2, SMTT(30)
<1>4. (x * 64 + y) % 64 = y
  BY <1>1, SMTT(30)
<1>5. pt \div 4096 = x
  BY <1>1, <1>2, SMTT(30)
<1>6. pt \in Nat /\ 2048 <= pt /\ pt < 65536
  BY <1>1, SMT
<1>7. pt \div 4096 + 224 = a /\ ((pt \div 64) % 64) + 128 = b /\ (pt % 64) + 128 = c
  BY <1>1, <1>3, <1>4, <1>5, SMT
<1>8. utf8_encode(pt) = <<a, b, c>>
  BY <1>6, <1>7, SMT DEF utf8_encode
<1>9. ~High(pt) /\ ~Low(pt)
  <2>1. CASE x < 13
    BY <1>1, <2>1, SMT DEF High, Low
  <2>2. CASE x = 13
    BY <1>1, <2>2, SMT DEF High, Low
  <2>3. CASE x > 13
    BY <1>1, <2>3, SMT DEF High, Low
  <2> QED BY <1>1, <2>1, <2>2, <2>3, SMT
<1>10. Scalar(pt)
  BY <1>6, <1>9, SMT DEF Scalar
<1> QED BY <1>6, <1>8, <1>10

LEMMA Encodes4 ==
  ASSUME NEW a \in 240..244, NEW b \in 128..191, NEW c \in 128..191, NEW d \in 128..191,
         a = 240 => b >= 144, a = 244 => b < 144
  PROVE  \E pt \in Nat : Scalar(pt) /\ utf8_encode(pt) = <<a, b, c, d>>
<1> DEFINE x == a - 240
           y == b - 128
           z == c - 128
           t == d - 128
           pt == x * 262144 + y * 4096 + z * 64 + t
<1>1. /\ x \in 0..4 /\ y \in 0..63 /\ z \in 0..63 /\ t \in 0..63 /\ x \in Nat
      /\ a = x + 240 /\ b = y + 128 /\ c = z + 128 /\ d = t + 128
      /\ (x = 0 => y >= 16) /\ (x = 4 => y < 16)
      /\ pt = x * 262144 + y * 4096 + z * 64 + t
  BY SMT
<1> HIDE DEF x, y, z, t, pt
<1>2. /\ pt = ((x * 64 + y) * 64 + z) * 64 + t
      /\ x * 64 + y \in Nat /\ (x * 64 + y) * 64 + z \in Nat
  BY <1>1, SMT
<1>3. /\ pt = (x * 64 + y) * 4096 + (z * 64 + t)
      /\ z * 64 + t \in Nat /\ z * 64 + t < 4096
  BY <1>1, SMT
<1>4. /\ pt = x * 262144 + (y * 4096 + z * 64 + t)
      /\ y * 4096 + z * 64 + t \in Nat /\ y * 4096 + z * 64 + t < 262144
  BY <1>1, SMT
<1>5. pt \div 64 = (x * 64 + y) * 64 + z /\ pt % 64 = t
  BY <1>1, <1>2, SMTT(30)
<1>6. ((x * 64 + y) * 64 + z) % 64 = z /\ (x * 64 + y) % 64 = y
  BY <1>1, <1>2, SMTT(30)
<1>7. pt \div 4096 = x * 64 + y
  BY <1>2, <1>3, SMTT(30)
<1>8. pt \div 262144 = x
  BY <1>1, <1>4, SMTT(30)
<1>9. pt \in Nat /\ 65536 <= pt /\ pt < 1114112
  <2>1. CASE x = 0
    BY <1>1, <2>1, SMT
  <2>2. CASE x = 4
    BY <1>1, <2>2, SMT
  <2>3. CASE x \in 1..3
    BY <1>1, <2>3, SMT
  <2> QED BY <1>1, <2>1, <2>2, <2>3, SMT
<1>10. /\ pt \div 262144 + 240 = a /\ ((pt \div 4096) % 64) + 128 = b
       /\ ((pt \div 64) % 64) + 128 = c /\ (pt % 64) + 128 = d
  BY <1>1, <1>5, <1>6, <1>7, <1>8, SMT
<1>11. utf8_encode(pt) = <<a, b, c, d>>
  BY <1>9, <1>10, SMT DEF utf8_encode
<1>12. Scalar(pt)
  BY <1>9, SMT DEF Scalar, High, Low
<1> QED BY <1>9, <1>11, <1>12

LEMMA WidthOf ==
  ASSUME NEW b
  PROVE  /\ (b \in 194..223 => Width(b) = 2) /\ (b \in 224..239 => Width(b) = 3)
         /\ (b \in 240..244 => Width(b) = 4)
BY SMT DEF Width

LEMMA ContByte ==
  ASSUME NEW b \in 0..255, Cont(b)
  PROVE  b \in 128..191
BY SMT DEF Cont

\* A byte of a string.
LEMMA ByteAt ==
  ASSUME NEW s \in Seq(Byte), NEW k \in 1..Len(s)
  PROVE  s[k] \in 0..255 /\ s[k] \in Nat
<1>1. s[k] \in Byte
  OBVIOUS
<1>2. s[k] \in 0..255
  BY <1>1 DEF Byte
<1>3. \A x \in 0..255 : x \in Nat
  BY SMT
<1> QED BY <1>2, <1>3

LEMMA Piece1 ==
  ASSUME NEW s, NEW n \in Nat, n < Len(s), Len(s) \in Nat
  PROVE  Piece(s, n, Len(s), <<s[n + 1]>>) /\ Len(<<s[n + 1]>>) = 1
BY SMT DEF Piece

LEMMA Piece2 ==
  ASSUME NEW s, NEW n \in Nat, n + 2 <= Len(s), Len(s) \in Nat
  PROVE  Piece(s, n, Len(s), <<s[n + 1], s[n + 2]>>) /\ Len(<<s[n + 1], s[n + 2]>>) = 2
BY SMT DEF Piece

LEMMA Piece3 ==
  ASSUME NEW s, NEW n \in Nat, n + 3 <= Len(s), Len(s) \in Nat
  PROVE  LET e == <<s[n + 1], s[n + 2], s[n + 3]>> IN Piece(s, n, Len(s), e) /\ Len(e) = 3
BY SMT DEF Piece

LEMMA Piece4 ==
  ASSUME NEW s, NEW n \in Nat, n + 4 <= Len(s), Len(s) \in Nat
  PROVE  LET e == <<s[n + 1], s[n + 2], s[n + 3], s[n + 4]>>
         IN  Piece(s, n, Len(s), e) /\ Len(e) = 4
BY SMT DEF Piece

\* Where a well-formed sequence begins, the encoding of a code point stands.
LEMMA EncodeDecoded8 ==
  ASSUME NEW s \in Seq(Byte), NEW n \in Nat, n < Len(s), CharAt(s, n)
  PROVE  \E pt \in Nat :
            /\ Scalar(pt) /\ Piece(s, n, Len(s), utf8_encode(pt))
            /\ Len(utf8_encode(pt)) = Width(s[n + 1])
<1> DEFINE a == s[n + 1]
           b == s[n + 2]
           c == s[n + 3]
           d == s[n + 4]
           w == Width(a)
<1>0. n + 1 \in 1..Len(s) /\ Len(s) \in Nat
  OBVIOUS
<1>1. a \in 0..255 /\ a \in Nat
  BY <1>0, ByteAt
<1>2. CASE a < 128
  <2>1. a \in Nat
    BY <1>1
  <2>2. w = 1
    BY <1>1, <1>2, SMT DEF Width
  <2> HIDE DEF a
  <2>4. utf8_encode(a) = <<a>> /\ Scalar(a)
    BY <1>2, <2>1, Encodes1
  <2>3. Piece(s, n, Len(s), <<a>>) /\ Len(<<a>>) = 1
    BY <1>0, Piece1 DEF a
  <2> QED BY <2>1, <2>2, <2>3, <2>4 DEF a
<1>3. CASE ~(a < 128)
  <2>1. /\ a \in 194..244 /\ n + w <= Len(s) /\ Follows(s, n + 1, b)
        /\ \A k \in 1..(w - 1) : Cont(s[n + 1 + k])
    BY <1>3 DEF CharAt
  <2>2. /\ b \in 128..191 /\ (a = 224 => b >= 160) /\ (a = 237 => b < 160)
        /\ (a = 240 => b >= 144) /\ (a = 244 => b < 144)
    BY <2>1 DEF Follows
  <2>3. w \in 2..4
    BY <2>1, LeadWidth
  <2>4. /\ (a \in 194..223 => w = 2) /\ (a \in 224..239 => w = 3)
        /\ (a \in 240..244 => w = 4)
    BY WidthOf
  <2> HIDE DEF w
  <2>5. ASSUME NEW k \in 1..(w - 1) PROVE s[n + 1 + k] \in 128..191
    <3>1. n + 1 + k \in 1..Len(s)
      BY <1>0, <2>1, <2>3
    <3>2. s[n + 1 + k] \in 0..255
      BY <3>1, ByteAt
    <3>3. Cont(s[n + 1 + k])
      BY <2>1
    <3> QED BY <3>2, <3>3, ContByte
  <2>6. CASE a \in 194..223
    <3>1. PICK pt \in Nat : Scalar(pt) /\ utf8_encode(pt) = <<a, b>>
      BY <2>2, <2>6, Encodes2
    <3>2. Piece(s, n, Len(s), <<a, b>>) /\ Len(<<a, b>>) = 2
      BY <1>0, <2>1, <2>4, <2>6, Piece2
    <3> QED BY <2>4, <2>6, <3>1, <3>2 DEF w
  <2>7. CASE a \in 224..239
    <3>1. c \in 128..191
      <4>1. n + 1 + 2 = n + 3 /\ 2 \in 1..(w - 1)
        BY <2>4, <2>7
      <4> QED BY <2>5, <4>1
    <3>2. PICK pt \in Nat : Scalar(pt) /\ utf8_encode(pt) = <<a, b, c>>
      BY <2>2, <2>7, <3>1, Encodes3
    <3>3. Piece(s, n, Len(s), <<a, b, c>>) /\ Len(<<a, b, c>>) = 3
      BY <1>0, <2>1, <2>4, <2>7, Piece3
    <3> QED BY <2>4, <2>7, <3>2, <3>3 DEF w
  <2>8. CASE a \in 240..244
    <3>0. w = 4
      BY <2>4, <2>8
    <3>1. c \in 128..191 /\ d \in 128..191
      <4>1. /\ n + 1 + 2 = n + 3 /\ 2 \in 1..(w - 1)
            /\ n + 1 + 3 = n + 4 /\ 3 \in 1..(w - 1)
        BY <3>0
      <4> QED BY <2>5, <4>1
    <3>2. PICK pt \in Nat : Scalar(pt) /\ utf8_encode(pt) = <<a, b, c, d>>
      BY <2>2, <2>8, <3>1, Encodes4
    <3>3. Piece(s, n, Len(s), <<a, b, c, d>>) /\ Len(<<a, b, c, d>>) = 4
      BY <1>0, <2>1, <2>4, <2>8, Piece4
    <3> QED BY <2>4, <2>8, <3>2, <3>3 DEF w
  <2>9. a \in 194..223 \/ a \in 224..239 \/ a \in 240..244
    BY <2>1
  <2> QED BY <2>6, <2>7, <2>8, <2>9
<1> QED BY <1>2, <1>3

-----------------------------------------------------------------------------
(* UTF-16: the same.                                                       *)

LEMMA Paired ==
  ASSUME NEW h \in Nat, NEW l \in Nat, High(h), Low(l), NEW pt,
         pt = (h - 55296) * 1024 + (l - 56320) + 65536
  PROVE  /\ pt \in Nat /\ 65536 <= pt /\ pt < 1114112
         /\ (pt - 65536) \div 1024 + 55296 = h /\ (pt % 1024) + 56320 = l
<1>1. pt \in Nat /\ 65536 <= pt /\ pt < 1114112
  BY SMTT(30) DEF High, Low
<1>2. (pt - 65536) \div 1024 = h - 55296
  BY SMTT(30) DEF High, Low
<1>3. pt % 1024 = l - 56320
  BY SMTT(30) DEF High, Low
<1> QED BY <1>1, <1>2, <1>3, SMT

-----------------------------------------------------------------------------
(* What the loops read and write for a code point, and where they stand.   *)

Java == {"UTF8FromString", "WStringFromString"}

\* What a conversion writes for a code point; what it reads for one is what the
\* way back writes.
Writes(c, pt) ==
    CASE c \in {"StringFromUTF8", "StringFromWString"} -> utf16_encode(pt)
      [] c = "UTF8FromString" -> utf8_encode(pt)
      [] OTHER -> <<pt>>
Reads(c, pt) == Writes(Back(c), pt)

\* What is to come back of s; and the strings of which anything is to.
Expected(c, s) == IF c \in Java THEN Repaired(s) ELSE s
Sound(c, s) ==
    /\ c = "StringFromUTF8" => WellFormed(s)
    /\ c = "StringFromWString" => \A k \in 1..Len(s) : Scalar(s[k])

\* Index n of s is not in the middle of a sequence or of a pair.
Border(c, s, n) ==
    n < Len(s) =>
        /\ c = "StringFromUTF8" => ~Cont(s[n + 1])
        /\ c \in Java /\ n > 0 => ~(High(s[n]) /\ Low(s[n + 1]))

LEMMA WritesTyped ==
  ASSUME NEW c \in Conversions, NEW pt \in Nat, Scalar(pt)
  PROVE  Writes(c, pt) \in Seq(To(c)) /\ Len(Writes(c, pt)) \in 1..4
<1>1. pt < 1114112
  BY DEF Scalar
<1>2. CASE c \in {"StringFromUTF8", "StringFromWString"}
  <2>1. Writes(c, pt) = utf16_encode(pt) /\ To(c) = Unit
    BY <1>2 DEF Writes, To
  <2>2. utf16_encode(pt) \in Seq(Unit)
    BY <1>1, Encoded16
  <2>3. Len(utf16_encode(pt)) \in 1..2
    <3>1. CASE pt < 65536
      <4>1. utf16_encode(pt) = <<pt>>
        BY <1>1, <3>1, Encoded16
      <4> QED BY <4>1
    <3>2. CASE 65536 <= pt
      BY <1>1, <3>2, Encoded16
    <3> QED BY <3>1, <3>2, SMT
  <2> QED BY <2>1, <2>2, <2>3, SMT
<1>3. CASE c = "UTF8FromString"
  <2>1. Writes(c, pt) = utf8_encode(pt) /\ To(c) = Byte
    BY <1>3 DEF Writes, To
  <2> QED BY <2>1, Encoded
<1>4. CASE c = "WStringFromString"
  <2>1. Writes(c, pt) = <<pt>> /\ To(c) = Wide
    BY <1>4 DEF Writes, To
  <2>2. <<pt>> \in Seq(Wide) /\ Len(<<pt>>) = 1
    BY DEF Wide
  <2> QED BY <2>1, <2>2, SMT
<1> QED BY <1>2, <1>3, <1>4 DEF Conversions

LEMMA BackAndForth ==
  ASSUME NEW c \in Conversions
  PROVE  /\ Back(c) \in Conversions /\ Back(Back(c)) = c
         /\ From(Back(c)) = To(c) /\ To(Back(c)) = From(c)
BY DEF Back, From, To, Conversions

\* A piece of a string is one of every string that is the same up to there.
LEMMA PieceOfLonger ==
  ASSUME NEW s, NEW t, NEW n \in Nat, NEW l \in Nat, NEW k \in Nat, l <= k,
         NEW e, Len(e) \in Nat, Piece(s, n, l, e), \A j \in 1..l : t[j] = s[j]
  PROVE  Piece(t, n, k, e)
<1>1. n + Len(e) <= l /\ \A j \in 1..Len(e) : s[n + j] = e[j]
  BY DEF Piece
<1>2. ASSUME NEW j \in 1..Len(e) PROVE t[n + j] = e[j]
  <2>1. n + j \in 1..l
    BY <1>1
  <2> QED BY <1>1, <2>1
<1> QED BY <1>1, <1>2 DEF Piece

\* A round of a loop that finds the code point pt: the next index is behind it, and
\* it is written.
LEMMA RoundOf ==
  ASSUME NEW c \in Conversions, Doing(c), Next, i \in Nat, str \in Seq(From(c)),
         NEW pt \in Nat, Scalar(pt), Piece(str, i, Len(str), Reads(c, pt))
  PROVE  /\ i' = i + Len(Reads(c, pt)) /\ out' = out \o Writes(c, pt)
         /\ first' = first /\ sent' = sent /\ leg' = leg /\ str' = str
<1>1. /\ leg # "done" /\ now = c /\ i < Length
  BY DEF Doing
<1>2. ~Return
  <2>1. SUFFICES ASSUME i >= Length, i < Length PROVE FALSE
    BY <1>1 DEF Return
  <2>2. Length \in Int
    BY DEF Length
  <2> QED BY <2>1, <2>2
<1>3. ASSUME NEW r, r = [offset |-> Len(Reads(c, pt)), pt |-> pt], Len(Reads(c, pt)) \in 1..4
      PROVE  decode(r, i).at = i + Len(Reads(c, pt)) /\ decode(r, i).pt = pt
  <2>1. r.offset = Len(Reads(c, pt)) /\ r.pt = pt
    BY <1>3
  <2>2. ~(r.offset < 0)
    BY <1>3, <2>1
  <2>3. decode(r, i) = [at |-> i + r.offset, pt |-> r.pt]
    BY <2>2 DEF decode
  <2> QED BY <2>1, <2>3
<1>4. Len(Reads(c, pt)) \in 1..4
  BY BackAndForth, WritesTyped DEF Reads
<1>5. CASE c = "StringFromUTF8"
  <2> DEFINE d == decode(utf8_decode_check(str, i), i)
  <2>1. Reads(c, pt) = utf8_encode(pt) /\ Writes(c, pt) = utf16_encode(pt)
    BY <1>5 DEF Reads, Writes, Back
  <2>2. utf8_decode_check(str, i) = [offset |-> Len(Reads(c, pt)), pt |-> pt]
    BY <2>1, DecodeEncoded8
  <2>3. d.at = i + Len(Reads(c, pt)) /\ d.pt = pt
    BY <1>3, <1>4, <2>2
  <2>4. StringFromUTF8
    BY <1>1, <1>2, <1>5
       DEF Next, Doing, UTF8FromString, StringFromWString, WStringFromString
  <2>5. Round(d, utf16_encode(d.pt))
    BY <2>4 DEF StringFromUTF8
  <2> HIDE DEF d
  <2> QED BY <2>1, <2>3, <2>5 DEF Round
<1>6. CASE c \in Java
  <2> DEFINE d == decode(utf16_decode_check(str, i), i)
  <2>1. Reads(c, pt) = utf16_encode(pt)
    BY <1>6 DEF Reads, Writes, Back, Java
  <2>2. utf16_decode_check(str, i) = [offset |-> Len(Reads(c, pt)), pt |-> pt]
    BY <2>1, DecodeEncoded16
  <2>3. d.at = i + Len(Reads(c, pt)) /\ d.pt = pt
    BY <1>3, <1>4, <2>2
  <2>4. Round(d, Writes(c, d.pt))
    <3>1. CASE c = "UTF8FromString"
      <4>1. UTF8FromString
        BY <1>1, <1>2, <3>1
           DEF Next, Doing, StringFromUTF8, StringFromWString, WStringFromString
      <4>2. Writes(c, d.pt) = utf8_encode(d.pt)
        BY <3>1 DEF Writes
      <4> QED BY <4>1, <4>2 DEF UTF8FromString
    <3>2. CASE c = "WStringFromString"
      <4>1. WStringFromString
        BY <1>1, <1>2, <3>2
           DEF Next, Doing, StringFromUTF8, StringFromWString, UTF8FromString
      <4>2. Writes(c, d.pt) = <<d.pt>>
        BY <3>2 DEF Writes
      <4> QED BY <4>1, <4>2 DEF WStringFromString
    <3> QED BY <1>6, <3>1, <3>2 DEF Java
  <2> HIDE DEF d
  <2> QED BY <2>3, <2>4 DEF Round
<1>7. CASE c = "StringFromWString"
  <2> DEFINE d == [at |-> i + 1]
  <2>1. Reads(c, pt) = <<pt>> /\ Writes(c, pt) = utf16_encode(pt)
    BY <1>7 DEF Reads, Writes, Back
  <2>2. At(str, i) = pt
    BY <2>1 DEF Piece, At
  <2>3. StringFromWString
    BY <1>1, <1>2, <1>7
       DEF Next, Doing, StringFromUTF8, UTF8FromString, WStringFromString
  <2>4. Round(d, utf16_encode(At(str, i)))
    BY <2>3 DEF StringFromWString
  <2>5. d.at = i + 1 /\ Len(<<pt>>) = 1
    OBVIOUS
  <2> HIDE DEF d
  <2> QED BY <2>1, <2>2, <2>4, <2>5 DEF Round
<1> QED BY <1>5, <1>6, <1>7 DEF Conversions, Java

-----------------------------------------------------------------------------
(* What the first loop finds at a border: the encoding of a code point, with a *)
(* border behind it.                                                       *)

LEMMA LeadNotCont ==
  ASSUME NEW b \in 194..244
  PROVE  ~Cont(b) /\ ~(b < 128)
BY SMT DEF Cont

LEMMA AsciiNotCont ==
  ASSUME NEW b \in Nat, b < 128
  PROVE  ~Cont(b)
BY SMT DEF Cont

\* In UTF-8: no sequence goes on behind the end of another.
LEMMA BorderBehind8 ==
  ASSUME NEW s \in Seq(Byte), WellFormed(s), NEW n \in Nat, n < Len(s), ~Cont(s[n + 1]),
         NEW w \in 1..4, w = Width(s[n + 1]), n + w < Len(s)
  PROVE  ~Cont(s[n + w + 1])
<1>1. SUFFICES ASSUME Cont(s[n + w + 1]) PROVE FALSE
  OBVIOUS
<1> DEFINE k == n + w + 1
<1>2. k \in 1..Len(s) /\ n + 1 \in 1..Len(s) /\ Len(s) \in Nat
  OBVIOUS
<1>3. s[k] \in Nat /\ Cont(s[k])
  BY <1>1, <1>2, ByteAt
<1>4. \E d \in 1..3 : d < k /\ d < Width(s[k - d]) /\ s[k - d] \in 194..244
  <2>1. ~(s[k] < 128) /\ ~(s[k] \in 194..244)
    BY <1>3, LeadNotCont, AsciiNotCont
  <2> QED BY <1>2, <2>1 DEF WellFormed
<1>5. PICK d \in 1..3 : d < k /\ d < Width(s[k - d]) /\ s[k - d] \in 194..244
  BY <1>4
<1> DEFINE p == k - d
<1>6. p \in 1..Len(s) /\ p < k /\ p + d = k /\ d < Width(s[p]) /\ s[p] \in 194..244
  BY <1>2, <1>5
<1> HIDE DEF p
<1>7. ASSUME NEW e \in 1..(Width(s[p]) - 1) PROVE Cont(s[p + e])
  <2>1. ~Cont(s[p]) /\ ~(s[p] < 128)
    <3>1. s[p] \in 194..244
      BY <1>6
    <3> QED BY <3>1, LeadNotCont
  <2>2. \A d1 \in 1..(Width(s[p]) - 1) : Cont(s[p + d1])
    BY <1>6, <2>1 DEF WellFormed
  <2> QED BY <2>2
<1>8. CASE p = n + 1
  BY <1>6, <1>8
<1>9. CASE p < n + 1
  <2>1. (n + 1) - p \in 1..(d - 1) /\ p + ((n + 1) - p) = n + 1
    BY <1>6, <1>9
  <2>2. Width(s[p]) \in 2..4
    BY <1>6, LeadWidth
  <2>3. (n + 1) - p \in 1..(Width(s[p]) - 1)
    BY <1>6, <2>1, <2>2
  <2> QED BY <1>7, <2>1, <2>3
<1>10. CASE p > n + 1
  <2>1. p - (n + 1) \in 1..(w - 1) /\ (n + 1) + (p - (n + 1)) = p
    BY <1>6, <1>10
  <2>2. w # 1
    BY <2>1
  <2>3. ~(s[n + 1] < 128)
    <3>1. s[n + 1] < 128 => Width(s[n + 1]) = 1
      BY DEF Width
    <3> QED BY <2>2, <3>1
  <2>4. \A e \in 1..(Width(s[n + 1]) - 1) : Cont(s[(n + 1) + e])
    BY <1>2, <2>3 DEF WellFormed
  <2>5. Cont(s[p])
    BY <2>1, <2>4
  <2> QED BY <1>6, <2>5, LeadNotCont
<1> QED BY <1>6, <1>8, <1>9, <1>10

\* What StringFromUTF8 finds in a well-formed string.
LEMMA FindsIn8 ==
  ASSUME NEW s \in Seq(Byte), WellFormed(s), NEW n \in Nat, n < Len(s), ~Cont(s[n + 1])
  PROVE  \E pt \in Nat :
            /\ Scalar(pt) /\ Piece(s, n, Len(s), utf8_encode(pt))
            /\ n + Len(utf8_encode(pt)) < Len(s) => ~Cont(s[n + Len(utf8_encode(pt)) + 1])
<1>1. n + 1 \in 1..Len(s)
  OBVIOUS
<1>2. CharAt(s, n)
  <2>1. \/ s[n + 1] < 128
        \/ /\ s[n + 1] \in 194..244
           /\ (n + 1) + Width(s[n + 1]) - 1 <= Len(s) /\ Follows(s, n + 1, s[(n + 1) + 1])
           /\ \A d \in 1..(Width(s[n + 1]) - 1) : Cont(s[(n + 1) + d])
    BY <1>1 DEF WellFormed
  <2>2. CASE s[n + 1] < 128
    BY <2>2 DEF CharAt
  <2>3. CASE /\ s[n + 1] \in 194..244
             /\ (n + 1) + Width(s[n + 1]) - 1 <= Len(s) /\ Follows(s, n + 1, s[(n + 1) + 1])
             /\ \A d \in 1..(Width(s[n + 1]) - 1) : Cont(s[(n + 1) + d])
    <3>1. Width(s[n + 1]) \in 2..4
      BY <2>3, LeadWidth
    <3>2. n + Width(s[n + 1]) <= Len(s)
      BY <2>3, <3>1
    <3>3. (n + 1) + 1 = n + 2
      OBVIOUS
    <3>4. Follows(s, n + 1, s[n + 2])
      BY <2>3, <3>3
    <3> QED BY <2>3, <3>2, <3>4 DEF CharAt
  <2> QED BY <2>1, <2>2, <2>3
<1>3. PICK pt \in Nat : /\ Scalar(pt) /\ Piece(s, n, Len(s), utf8_encode(pt))
                       /\ Len(utf8_encode(pt)) = Width(s[n + 1])
  BY <1>2, EncodeDecoded8
<1>4. Len(utf8_encode(pt)) \in 1..4
  BY <1>3, Encoded
<1>5. ASSUME n + Len(utf8_encode(pt)) < Len(s) PROVE ~Cont(s[n + Len(utf8_encode(pt)) + 1])
  BY <1>3, <1>4, <1>5, BorderBehind8
<1> QED BY <1>3, <1>5

LEMMA SurrogatesDiffer ==
  ASSUME NEW c \in Nat
  PROVE  /\ ~(High(c) /\ Low(c)) /\ ~High(65533) /\ ~Low(65533) /\ Scalar(65533)
         /\ c < 65536 /\ ~High(c) /\ ~Low(c) => Scalar(c)
BY SMT DEF High, Low, Scalar

LEMMA EncodesUnit ==
  ASSUME NEW pt \in Nat, pt < 65536
  PROVE  utf16_encode(pt) = <<pt>> /\ Len(<<pt>>) = 1 /\ <<pt>>[1] = pt
BY SMT DEF utf16_encode

LEMMA EncodesPair ==
  ASSUME NEW h \in Nat, NEW l \in Nat, High(h), Low(l), NEW pt,
         pt = (h - 55296) * 1024 + (l - 56320) + 65536
  PROVE  utf16_encode(pt) = <<h, l>> /\ pt \in Nat /\ Scalar(pt)
<1>1. /\ pt \in Nat /\ 65536 <= pt /\ pt < 1114112
      /\ (pt - 65536) \div 1024 + 55296 = h /\ (pt % 1024) + 56320 = l
  BY Paired
<1>2. utf16_encode(pt) = <<h, l>>
  BY <1>1, SMT DEF utf16_encode
<1>3. Scalar(pt)
  BY <1>1, SMT DEF Scalar, High, Low
<1> QED BY <1>1, <1>2, <1>3

LEMMA UnitAt ==
  ASSUME NEW s \in Seq(Unit), NEW k \in 1..Len(s)
  PROVE  s[k] \in Nat /\ s[k] < 65536
<1>1. s[k] \in Unit
  OBVIOUS
<1> QED BY <1>1 DEF Unit

\* What UTF8FromString and WStringFromString find in a string of Java's: its code
\* points, or U+FFFD for half a pair.
LEMMA FindsIn16 ==
  ASSUME NEW s \in Seq(Unit), NEW t, NEW n \in Nat, n < Len(s),
         \A k \in 1..Len(s) : t[k] = s[k], ~(High(s[Len(s)]) /\ Low(t[Len(s) + 1])),
         n > 0 => ~(High(s[n]) /\ Low(s[n + 1]))
  PROVE  LET d == decode(utf16_decode_check(t, n), n) IN
         /\ d.pt \in Nat /\ Scalar(d.pt) /\ d.at = n + Len(utf16_encode(d.pt))
         /\ Piece(Repaired(s), n, Len(s), utf16_encode(d.pt))
         /\ d.at < Len(s) => ~(High(s[d.at]) /\ Low(s[d.at + 1]))
<1> DEFINE h == s[n + 1]
           l == t[n + 2]
           r == utf16_decode_check(t, n)
           d == decode(r, n)
           q == Repaired(s)
<1>1. /\ n + 1 \in 1..Len(s) /\ Len(s) \in Nat /\ (n + 1) + 1 = n + 2
      /\ h \in Nat /\ h < 65536
  BY UnitAt
<1>2. At(t, n) = h /\ At(t, n + 1) = l
  BY <1>1 DEF At
<1>3. High(h) /\ Low(l) => n + 2 \in 1..Len(s) /\ l = s[n + 2]
  <2>1. (n + 1 = Len(s) /\ n + 2 = Len(s) + 1) \/ n + 2 \in 1..Len(s)
    BY <1>1
  <2> QED BY <1>1, <2>1
<1>4. \A k \in 1..Len(s) : q[k] = IF Lone(s, k) THEN 65533 ELSE s[k]
  BY DEF Repaired, REPLACEMENT
<1> HIDE DEF q
<1>5. CASE High(h) /\ Low(l)
  <2> DEFINE pt == PairAt(t, n)
  <2>1. n + 2 \in 1..Len(s) /\ l = s[n + 2] /\ l \in Nat
    BY <1>3, <1>5, UnitAt
  <2>2. pt = (h - 55296) * 1024 + (l - 56320) + 65536
    BY <1>2, SMT DEF PairAt
  <2>3. r = [offset |-> 2, pt |-> pt]
    BY <1>2, <1>5, SMT DEF utf16_decode_check
  <2> HIDE DEF pt, r, h, l
  <2>4. utf16_encode(pt) = <<h, l>> /\ pt \in Nat /\ Scalar(pt)
    BY <1>1, <1>5, <2>1, <2>2, EncodesPair
  <2>5. d.at = n + 2 /\ d.pt = pt
    BY <2>3, SMT DEF decode
  <2>6. ~Low(h) /\ ~High(l)
    BY <1>1, <1>5, <2>1, SurrogatesDiffer
  <2>7. ~Lone(s, n + 1)
    <3>1. (n + 1) < Len(s)
      BY <1>1, <2>1
    <3>2. Low(s[(n + 1) + 1])
      BY <1>1, <1>5, <2>1
    <3> QED BY <2>6, <3>1, <3>2 DEF Lone, h
  <2>8. ~Lone(s, n + 2)
    <3>1. n + 2 > 1 /\ (n + 2) - 1 = n + 1
      OBVIOUS
    <3> QED BY <1>5, <2>1, <2>6, <3>1 DEF Lone, h
  <2>9. q[n + 1] = h /\ q[n + 2] = l
    BY <1>1, <1>4, <2>1, <2>7, <2>8 DEF h
  <2>10. Len(<<h, l>>) = 2 /\ <<h, l>>[1] = h /\ <<h, l>>[2] = l
    OBVIOUS
  <2>11. Piece(q, n, Len(s), <<h, l>>)
    <3>1. n + 2 <= Len(s)
      BY <2>1
    <3>2. \A k \in 1..2 : k = 1 \/ k = 2
      OBVIOUS
    <3> HIDE DEF d
    <3> QED BY <2>9, <2>10, <3>1, <3>2 DEF Piece
  <2>12. ~High(s[n + 2])
    BY <2>1, <2>6
  <2> HIDE DEF d
  <2> QED BY <2>4, <2>5, <2>10, <2>11, <2>12 DEF d, r, q
<1>6. CASE ~(High(h) /\ Low(l)) /\ (High(h) \/ Low(h))
  <2> DEFINE x == 65533
  <2>1. r = invalid_pt
    BY <1>2, <1>6, SMT DEF utf16_decode_check
  <2>2. d.at = n + 1 /\ d.pt = x
    BY <2>1, SMT DEF decode, invalid_pt, REPLACEMENT
  <2>3. utf16_encode(x) = <<x>> /\ Len(<<x>>) = 1 /\ <<x>>[1] = x
    BY EncodesUnit, SMT
  <2>4. Lone(s, n + 1)
    <3>1. CASE High(h)
      <4>1. ~((n + 1) < Len(s) /\ Low(s[(n + 1) + 1]))
        <5>1. ASSUME (n + 1) < Len(s) PROVE ~Low(s[(n + 1) + 1])
          <6>1. n + 2 \in 1..Len(s)
            BY <1>1, <5>1
          <6> QED BY <1>1, <1>6, <3>1, <6>1
        <5> QED BY <5>1
      <4> QED BY <3>1, <4>1 DEF Lone
    <3>2. CASE Low(h)
      <4>1. ~((n + 1) > 1 /\ High(s[(n + 1) - 1]))
        <5>1. ASSUME (n + 1) > 1 PROVE ~High(s[(n + 1) - 1])
          <6>1. n > 0 /\ (n + 1) - 1 = n
            BY <5>1
          <6> QED BY <3>2, <6>1
        <5> QED BY <5>1
      <4> QED BY <3>2, <4>1 DEF Lone
    <3> QED BY <1>6, <3>1, <3>2
  <2>5. q[n + 1] = x
    BY <1>1, <1>4, <2>4
  <2>6. Piece(q, n, Len(s), <<x>>)
    <3>1. n + 1 <= Len(s)
      OBVIOUS
    <3> QED BY <2>3, <2>5, <3>1, SMT DEF Piece
  <2>7. ASSUME n + 1 < Len(s) PROVE ~(High(s[n + 1]) /\ Low(s[(n + 1) + 1]))
    <3>1. n + 2 \in 1..Len(s)
      BY <1>1, <2>7
    <3> QED BY <1>1, <1>6, <3>1
  <2>8. x \in Nat /\ Scalar(x)
    BY SurrogatesDiffer, SMT
  <2> HIDE DEF d, x
  <2> QED BY <2>2, <2>3, <2>6, <2>7, <2>8 DEF d, r, q
<1>7. CASE ~High(h) /\ ~Low(h)
  <2>1. r = [offset |-> 1, pt |-> h]
    BY <1>2, <1>7, SMT DEF utf16_decode_check
  <2> HIDE DEF r, h
  <2>2. d.at = n + 1 /\ d.pt = h
    BY <2>1, SMT DEF decode
  <2>3. utf16_encode(h) = <<h>> /\ Len(<<h>>) = 1 /\ <<h>>[1] = h
    BY <1>1, EncodesUnit
  <2>4. ~Lone(s, n + 1)
    BY <1>7 DEF Lone, h
  <2>5. q[n + 1] = h
    BY <1>1, <1>4, <2>4 DEF h
  <2>6. Piece(q, n, Len(s), <<h>>)
    BY <1>1, <2>3, <2>5 DEF Piece
  <2>7. Scalar(h)
    BY <1>1, <1>7, SurrogatesDiffer
  <2>8. ~High(s[n + 1])
    BY <1>7 DEF h
  <2> HIDE DEF d
  <2> QED BY <1>1, <2>2, <2>3, <2>6, <2>7, <2>8 DEF d, r, q
<1> QED BY <1>5, <1>6, <1>7

-----------------------------------------------------------------------------
(* The borders of the string that is sent, paired with those of what is made of it. *)

\* P relates the borders of e up to l with those of b up to lb: at each of them
\* stands the same code point, read by c in e and written by c in b.
Linked(P, c, e, l, b, lb) ==
    /\ <<0, 0>> \in P
    /\ \A m, n \in Nat : <<m, n>> \in P =>
         \/ m = l /\ n = lb
         \/ \E pt \in Nat : /\ Scalar(pt)
                            /\ Piece(e, m, l, Reads(c, pt)) /\ Piece(b, n, lb, Writes(c, pt))
                            /\ <<m + Len(Reads(c, pt)), n + Len(Writes(c, pt))>> \in P

\* What the first loop reads as its string: the one that is sent, or one unit more
\* where that completes a pair in an array that is read in place.
Source(s) ==
    /\ s \in Seq(From(first)) /\ Sound(first, s)
    /\ \/ s = sent
       \/ /\ first = "WStringFromString" /\ EndsInPair(s)
          /\ \E b \in AfterChars : s = Append(sent, b)

\* The first loop is at a border of s, which is linked with the end of its result.
Going(s) ==
    /\ Source(s) /\ \A k \in 1..Len(s) : str[k] = s[k]
    /\ \/ Len(s) = Length /\ (first \in Java => ~EndsInPair(str))
       \/ Len(s) = Length + 1 /\ first \in Java /\ EndsInPair(s)
    /\ Border(first, s, i)
    /\ \E P : Linked(P, first, Expected(first, s), i, out, Len(out))

\* The second loop goes from border to border, and its result is what is expected up
\* to the border that is linked with the one it is at.
Coming(s) ==
    /\ Source(s)
    /\ \E P : /\ Linked(P, first, Expected(first, s), Len(s), str, Length)
             /\ <<Len(out), i>> \in P
    /\ \A k \in 1..Len(out) : out[k] = Expected(first, s)[k]

BInv ==
    /\ Sound(first, sent) /\ leg = "there" => \E s : Going(s)
    /\ Sound(first, sent) /\ leg = "back" => \E s : Coming(s)
    /\ StringsComeBack

LEMMA LinkedStart ==
  ASSUME NEW c, NEW e
  PROVE  Linked({<<0, 0>>}, c, e, 0, <<>>, Len(<<>>))
<1>1. \A m, n \in Nat : <<m, n>> \in {<<0, 0>>} => m = 0 /\ n = 0
  OBVIOUS
<1>2. Len(<<>>) = 0
  OBVIOUS
<1> QED BY <1>1, <1>2, Zenon DEF Linked

\* A round of the first loop adds a pair of borders.
LEMMA LinkedRound ==
  ASSUME NEW c \in Conversions, NEW e, NEW l \in Nat, NEW b \in Seq(To(c)), NEW pt \in Nat,
         Scalar(pt), NEW P, Linked(P, c, e, l, b, Len(b)),
         NEW n1 \in Nat, n1 = l + Len(Reads(c, pt)), Piece(e, l, n1, Reads(c, pt)),
         NEW b1, b1 = b \o Writes(c, pt)
  PROVE  Linked(P \cup {<<n1, Len(b1)>>}, c, e, n1, b1, Len(b1))
<1> DEFINE w == Writes(c, pt)
           Q == P \cup {<<n1, Len(b1)>>}
<1>1. /\ w \in Seq(To(c)) /\ Len(w) \in 1..4 /\ Len(b) \in Nat
      /\ Len(Reads(c, pt)) \in 1..4
  BY WritesTyped, BackAndForth DEF Reads
<1> HIDE DEF w
<1>2. /\ Len(b1) = Len(b) + Len(w) /\ \A k \in 1..Len(b) : b1[k] = b[k]
      /\ \A k \in 1..Len(w) : b1[Len(b) + k] = w[k]
  BY <1>1, SMT DEF w
<1>3. Piece(b1, Len(b), Len(b1), w)
  BY <1>1, <1>2 DEF Piece
<1>4. <<0, 0>> \in Q
  BY DEF Linked
<1>5. ASSUME NEW m \in Nat, NEW n \in Nat, <<m, n>> \in Q, ~(m = n1 /\ n = Len(b1))
      PROVE  \E x \in Nat : /\ Scalar(x)
                           /\ Piece(e, m, n1, Reads(c, x)) /\ Piece(b1, n, Len(b1), Writes(c, x))
                           /\ <<m + Len(Reads(c, x)), n + Len(Writes(c, x))>> \in Q
  <2>1. <<m, n>> \in P
    BY <1>5
  <2>2. CASE m = l /\ n = Len(b)
    <3>1. <<m + Len(Reads(c, pt)), n + Len(w)>> \in Q
      BY <1>2, <2>2
    <3>2. Piece(e, m, n1, Reads(c, pt)) /\ Piece(b1, n, Len(b1), w)
      BY <1>3, <2>2
    <3> QED BY <3>1, <3>2 DEF w
  <2>3. CASE ~(m = l /\ n = Len(b))
    <3>1. PICK x \in Nat :
             /\ Scalar(x)
             /\ Piece(e, m, l, Reads(c, x)) /\ Piece(b, n, Len(b), Writes(c, x))
             /\ <<m + Len(Reads(c, x)), n + Len(Writes(c, x))>> \in P
      BY <2>1, <2>3 DEF Linked
    <3>2. Len(Reads(c, x)) \in Nat /\ Len(Writes(c, x)) \in Nat
      <4>1. Len(Reads(c, x)) \in 1..4 /\ Len(Writes(c, x)) \in 1..4
        BY <3>1, WritesTyped, BackAndForth DEF Reads
      <4> QED BY <4>1
    <3>3. Piece(e, m, n1, Reads(c, x))
      <4>1. l <= n1 /\ \A j \in 1..l : e[j] = e[j]
        BY <1>1
      <4> QED BY <3>1, <3>2, <4>1, PieceOfLonger
    <3>4. Piece(b1, n, Len(b1), Writes(c, x))
      <4>1. Len(b) \in Nat /\ Len(b1) \in Nat /\ Len(b) <= Len(b1)
        BY <1>1, <1>2
      <4>2. \A j \in 1..Len(b) : b1[j] = b[j]
        BY <1>2
      <4>3. Len(Writes(c, x)) \in Nat /\ Piece(b, n, Len(b), Writes(c, x))
        BY <3>1, <3>2
      <4> QED BY <4>1, <4>2, <4>3, PieceOfLonger
    <3> QED BY <3>1, <3>3, <3>4
  <2> QED BY <2>2, <2>3
<1> HIDE DEF Q
<1>6. Linked(Q, c, e, n1, b1, Len(b1))
  BY <1>4, <1>5, Zenon DEF Linked
<1> QED BY <1>6 DEF Q

\* The first loop: what it finds, with the border behind it.
LEMMA Finds ==
  ASSUME IInv, Next, leg = "there", i < Length, NEW s, Going(s)
  PROVE  \E pt \in Nat :
            /\ Scalar(pt)
            /\ Piece(Expected(first, s), i, Len(s), Reads(first, pt))
            /\ i' = i + Len(Reads(first, pt)) /\ out' = out \o Writes(first, pt)
            /\ first' = first /\ sent' = sent /\ leg' = leg /\ str' = str
            /\ Border(first, s, i + Len(Reads(first, pt)))
<1> DEFINE c == first
<1>1. /\ c \in Conversions /\ now = c /\ Doing(c) /\ i \in Nat /\ str \in Seq(From(c))
      /\ s \in Seq(From(c)) /\ Len(s) \in Nat /\ Len(str) \in Nat
  BY DEF IInv, TypeOK, now, Doing, Going, Source
<1>2. /\ i < Len(s) /\ Len(s) <= Len(str) /\ Sound(c, s)
      /\ \A k \in 1..Len(s) : str[k] = s[k]
  BY <1>1 DEF Going, Source, Length
<1>3. Border(c, s, i)
  BY DEF Going
<1>4. ASSUME NEW pt \in Nat, Scalar(pt), Piece(s, i, Len(s), Reads(c, pt))
      PROVE  /\ i' = i + Len(Reads(c, pt)) /\ out' = out \o Writes(c, pt)
             /\ first' = first /\ sent' = sent /\ leg' = leg /\ str' = str
  <2>1. Len(Reads(c, pt)) \in Nat
    <3>1. Len(Reads(c, pt)) \in 1..4
      BY <1>1, <1>4, WritesTyped, BackAndForth DEF Reads
    <3> QED BY <3>1
  <2>2. Piece(str, i, Len(str), Reads(c, pt))
    <3>1. Len(s) \in Nat /\ Len(str) \in Nat /\ Len(s) <= Len(str)
      BY <1>1, <1>2
    <3>2. \A k \in 1..Len(s) : str[k] = s[k]
      BY <1>2
    <3>3. Piece(s, i, Len(s), Reads(c, pt)) /\ i \in Nat
      BY <1>1, <1>4
    <3> QED BY <2>1, <3>1, <3>2, <3>3, PieceOfLonger
  <2> QED BY <1>1, <1>4, <2>2, RoundOf
<1>5. CASE c = "StringFromUTF8"
  <2>1. /\ WellFormed(s) /\ s \in Seq(Byte) /\ ~Cont(s[i + 1])
        /\ Expected(c, s) = s
    BY <1>1, <1>2, <1>3, <1>5 DEF Sound, From, Border, Expected, Java
  <2>2. PICK pt \in Nat :
            /\ Scalar(pt) /\ Piece(s, i, Len(s), utf8_encode(pt))
            /\ i + Len(utf8_encode(pt)) < Len(s)
                  => ~Cont(s[i + Len(utf8_encode(pt)) + 1])
    BY <1>1, <1>2, <2>1, FindsIn8
  <2>3. Reads(c, pt) = utf8_encode(pt)
    BY <1>5 DEF Reads, Writes, Back
  <2>4. Border(c, s, i + Len(Reads(c, pt)))
    BY <1>5, <2>2, <2>3 DEF Border, Java
  <2> QED BY <1>4, <2>1, <2>2, <2>3, <2>4
<1>6. CASE c = "StringFromWString"
  <2> DEFINE pt == s[i + 1]
  <2>1. i + 1 \in 1..Len(s) /\ From(c) = Wide
    BY <1>1, <1>2, <1>6 DEF From
  <2>2. pt \in Nat /\ Scalar(pt) /\ Expected(c, s) = s
    BY <1>1, <1>2, <1>6, <2>1 DEF Sound, Expected, Java, Wide
  <2>3. Reads(c, pt) = <<pt>>
    BY <1>6 DEF Reads, Writes, Back
  <2>4. Piece(s, i, Len(s), <<pt>>)
    BY <1>1, <1>2, Piece1
  <2>5. Border(c, s, i + Len(Reads(c, pt)))
    BY <1>6 DEF Border, Java
  <2> HIDE DEF pt
  <2> QED BY <1>4, <2>2, <2>3, <2>4, <2>5
<1>7. CASE c \in Java
  <2> DEFINE d == decode(utf16_decode_check(str, i), i)
  <2>1. /\ From(c) = Unit /\ Expected(c, s) = Repaired(s)
        /\ i > 0 => ~(High(s[i]) /\ Low(s[i + 1]))
    BY <1>2, <1>3, <1>7 DEF From, Expected, Border, Java
  <2>2. ~(High(s[Len(s)]) /\ Low(str[Len(s) + 1]))
    <3>1. CASE Len(s) = Length /\ ~EndsInPair(str)
      <4>1. Len(str) = Len(s) + 1 /\ Len(str) - 1 = Len(s) /\ Len(str) > 1
        BY <1>1, <1>2, <3>1 DEF Length
      <4>2. str[Len(str) - 1] = s[Len(s)]
        BY <1>1, <1>2, <4>1
      <4> QED BY <3>1, <4>1, <4>2 DEF EndsInPair
    <3>2. CASE EndsInPair(s)
      <4>1. Len(s) \in 1..Len(s)
        BY <1>1, <3>2 DEF EndsInPair
      <4>2. s[Len(s)] \in Nat
        BY <1>1, <2>1, <4>1, UnitAt
      <4> QED BY <3>2, <4>2, SurrogatesDiffer DEF EndsInPair
    <3> QED BY <1>7, <3>1, <3>2 DEF Going
  <2>3. /\ d.pt \in Nat /\ Scalar(d.pt) /\ d.at = i + Len(utf16_encode(d.pt))
        /\ Piece(Repaired(s), i, Len(s), utf16_encode(d.pt))
        /\ d.at < Len(s) => ~(High(s[d.at]) /\ Low(s[d.at + 1]))
    BY <1>1, <1>2, <2>1, <2>2, FindsIn16
  <2>4. Reads(c, d.pt) = utf16_encode(d.pt)
    BY <1>7 DEF Reads, Writes, Back, Java
  <2>5. /\ i' = d.at /\ out' = out \o Writes(c, d.pt)
        /\ first' = first /\ sent' = sent /\ leg' = leg /\ str' = str
    <3>1. ~Return
      BY <1>1 DEF Return, Length
    <3>2. Round(d, Writes(c, d.pt))
      <4>1. CASE c = "UTF8FromString"
        <5>1. UTF8FromString
          BY <1>1, <3>1, <4>1
             DEF Next, Doing, StringFromUTF8, StringFromWString, WStringFromString
        <5>2. Writes(c, d.pt) = utf8_encode(d.pt)
          BY <4>1 DEF Writes
        <5> QED BY <5>1, <5>2 DEF UTF8FromString
      <4>2. CASE c = "WStringFromString"
        <5>1. WStringFromString
          BY <1>1, <3>1, <4>2
             DEF Next, Doing, StringFromUTF8, StringFromWString, UTF8FromString
        <5>2. Writes(c, d.pt) = <<d.pt>>
          BY <4>2 DEF Writes
        <5> QED BY <5>1, <5>2 DEF WStringFromString
      <4> QED BY <1>7, <4>1, <4>2 DEF Java
    <3> HIDE DEF d
    <3> QED BY <3>2 DEF Round
  <2>6. Border(c, s, d.at)
    BY <1>7, <2>3 DEF Border, Java
  <2> HIDE DEF d
  <2> QED BY <2>1, <2>3, <2>4, <2>5, <2>6
<1> QED BY <1>1, <1>5, <1>6, <1>7 DEF Conversions, Java

-----------------------------------------------------------------------------
(* The invariant.                                                          *)

LEMMA FirstBorder ==
  ASSUME NEW c \in Conversions, NEW s \in Seq(From(c)), Sound(c, s)
  PROVE  Border(c, s, 0)
<1>1. ASSUME c = "StringFromUTF8", 0 < Len(s) PROVE ~Cont(s[1])
  <2>1. 1 \in 1..Len(s) /\ s \in Seq(Byte) /\ WellFormed(s)
    BY <1>1 DEF From, Sound
  <2>2. s[1] \in Nat
    BY <2>1, ByteAt
  <2>3. CASE s[1] < 128
    BY <2>2, <2>3, AsciiNotCont
  <2>4. CASE s[1] \in 194..244
    BY <2>4, LeadNotCont
  <2>5. CASE \E d \in 1..3 : d < 1
    BY <2>5
  <2> QED BY <2>1, <2>3, <2>4, <2>5 DEF WellFormed
<1>2. 0 + 1 = 1 /\ ~(0 > 0)
  OBVIOUS
<1> QED BY <1>1, <1>2 DEF Border

LEMMA InitBInv ==
  ASSUME Init, IInv
  PROVE  BInv
<1>1. leg = "there" /\ i = 0 /\ out = <<>> /\ Len(<<>>) = 0
  BY DEF Init
<1>2. first \in Conversions /\ sent \in Seq(From(first)) /\ Len(sent) \in Nat
  BY DEF IInv, TypeOK
<1>3. PICK b \in Behind(first) : str = Append(sent, b)
  BY DEF Init
<1>4. /\ Len(str) = Len(sent) + 1 /\ Length = Len(sent) /\ str[Len(str)] = b
      /\ \A k \in 1..Len(sent) : str[k] = sent[k]
  BY <1>2, <1>3, SMT DEF Length
<1>5. ASSUME Sound(first, sent) PROVE \E s : Going(s)
  <2>1. ASSUME NEW s, s \in Seq(From(first)), Sound(first, s)
        PROVE  /\ Border(first, s, i)
               /\ \E P : Linked(P, first, Expected(first, s), i, out, Len(out))
    <3>1. Border(first, s, i)
      BY <1>1, <1>2, <2>1, FirstBorder
    <3>2. Linked({<<0, 0>>}, first, Expected(first, s), i, out, Len(out))
      BY <1>1, LinkedStart
    <3> QED BY <3>1, <3>2
  <2>2. CASE first \in Java /\ EndsInPair(str)
    <3>1. first = "WStringFromString" /\ b \in AfterChars
      <4>1. first # "WStringFromString" => str[Len(str)] = 0
        BY <1>3, <1>4 DEF Behind
      <4>2. first = "WStringFromString"
        BY <2>2, <4>1, NoPairBehind
      <4> QED BY <1>3, <4>2 DEF Behind
    <3>2. str \in Seq(From(first)) /\ Sound(first, str)
      BY <1>1, <3>1 DEF IInv, TypeOK, now, Sound
    <3>3. Source(str)
      BY <1>3, <2>2, <3>1, <3>2 DEF Source
    <3>4. Len(str) = Length + 1 /\ \A k \in 1..Len(str) : str[k] = str[k]
      BY <1>4
    <3>5. Going(str)
      BY <2>1, <2>2, <3>2, <3>3, <3>4 DEF Going
    <3> QED BY <3>5
  <2>3. CASE ~(first \in Java /\ EndsInPair(str))
    <3>1. Source(sent)
      BY <1>2, <1>5 DEF Source
    <3>2. Going(sent)
      BY <1>2, <1>4, <1>5, <2>1, <2>3, <3>1 DEF Going
    <3> QED BY <3>2
  <2> QED BY <2>2, <2>3
<1> QED BY <1>1, <1>5 DEF BInv, StringsComeBack

\* A round of the first loop.
LEMMA GoingRound ==
  ASSUME IInv, Next, leg = "there", i < Length, NEW s, Going(s)
  PROVE  Going(s)' /\ leg' = leg
<1>1. PICK pt \in Nat :
         /\ Scalar(pt)
         /\ Piece(Expected(first, s), i, Len(s), Reads(first, pt))
         /\ i' = i + Len(Reads(first, pt)) /\ out' = out \o Writes(first, pt)
         /\ first' = first /\ sent' = sent /\ leg' = leg /\ str' = str
         /\ Border(first, s, i + Len(Reads(first, pt)))
  BY Finds
<1>2. PICK P : Linked(P, first, Expected(first, s), i, out, Len(out))
  BY DEF Going
<1>3. first \in Conversions /\ i \in Nat /\ out \in Seq(To(first))
  BY DEF IInv, TypeOK, now
<1>4. Len(Reads(first, pt)) \in 1..4
  BY <1>1, <1>3, WritesTyped, BackAndForth DEF Reads
<1>5. i' \in Nat
  BY <1>1, <1>3, <1>4
<1>6. Piece(Expected(first, s), i, i', Reads(first, pt))
  BY <1>1, <1>3, <1>4 DEF Piece
<1>7. Linked(P \cup {<<i', Len(out')>>}, first, Expected(first, s), i', out', Len(out'))
  BY <1>1, <1>2, <1>3, <1>5, <1>6, LinkedRound
<1>8. \E Q : Linked(Q, first', Expected(first', s), i', out', Len(out'))
  BY <1>1, <1>7
<1>9. Border(first', s, i')
  BY <1>1
<1>10. /\ Source(s)' /\ \A k \in 1..Len(s) : str'[k] = s[k]
       /\ \/ Len(s) = Length' /\ (first' \in Java => ~EndsInPair(str'))
          \/ Len(s) = Length' + 1 /\ first' \in Java /\ EndsInPair(s)
  BY <1>1 DEF Going, Source, Length
<1> QED BY <1>1, <1>8, <1>9, <1>10 DEF Going

\* The second loop begins.
LEMMA GoingReturns ==
  ASSUME IInv, Return, leg = "there", NEW s, Going(s)
  PROVE  Coming(s)' /\ leg' = "back"
<1>1. /\ leg' = "back" /\ i' = 0 /\ out' = <<>> /\ first' = first /\ sent' = sent
      /\ \E b : str' = Append(out, b)
  BY DEF Return
<1>2. PICK b : str' = Append(out, b)
  BY <1>1
<1>3. PICK P : Linked(P, first, Expected(first, s), i, out, Len(out))
  BY DEF Going
<1>4. /\ first \in Conversions /\ i \in Nat /\ out \in Seq(To(first)) /\ Len(out) \in Nat
      /\ s \in Seq(From(first)) /\ Len(s) \in Nat /\ Length \in Int
  BY DEF IInv, TypeOK, now, Going, Source, Length
<1>5. i = Len(s)
  <2>1. i >= Length /\ (i <= Length \/ (i = Length + 1 /\ EndsInPair(str)))
    BY <1>4 DEF Return, IInv, IndexInRange, Length
  <2>2. CASE Len(s) = Length /\ (first \in Java => ~EndsInPair(str))
    <3>1. i <= Length
      <4>1. i <= Length \/ (now = "WStringFromString" /\ EndsInPair(str))
        BY DEF IInv, IndexInRange
      <4>2. now = "WStringFromString" => first \in Java
        BY DEF now, Java
      <4> QED BY <2>2, <4>1, <4>2
    <3> QED BY <1>4, <2>1, <2>2, <3>1
  <2>3. CASE Len(s) = Length + 1 /\ first \in Java /\ EndsInPair(s)
    <3>1. SUFFICES ASSUME i # Len(s) PROVE FALSE
      OBVIOUS
    <3>2. /\ i + 1 = Len(s) /\ i = Len(s) - 1 /\ i > 0 /\ i < Len(s)
      BY <1>4, <2>1, <2>3, <3>1 DEF EndsInPair
    <3>3. High(s[i]) /\ Low(s[i + 1])
      BY <2>3, <3>2 DEF EndsInPair
    <3> QED BY <2>3, <3>2, <3>3 DEF Going, Border
  <2> QED BY <2>2, <2>3 DEF Going
<1>6. Length' = Len(out) /\ \A k \in 1..Len(out) : str'[k] = out[k]
  BY <1>2, <1>4, SMT DEF Length
<1>7. Linked(P, first, Expected(first, s), Len(s), str', Len(out))
  <2> DEFINE e == Expected(first, s)
  <2>1. ASSUME NEW m \in Nat, NEW n \in Nat, <<m, n>> \in P, ~(m = Len(s) /\ n = Len(out))
        PROVE  \E x \in Nat :
                  /\ Scalar(x) /\ Piece(e, m, Len(s), Reads(first, x))
                  /\ Piece(str', n, Len(out), Writes(first, x))
                  /\ <<m + Len(Reads(first, x)), n + Len(Writes(first, x))>> \in P
    <3>1. PICK x \in Nat :
             /\ Scalar(x)
             /\ Piece(e, m, i, Reads(first, x)) /\ Piece(out, n, Len(out), Writes(first, x))
             /\ <<m + Len(Reads(first, x)), n + Len(Writes(first, x))>> \in P
      BY <1>3, <1>5, <2>1, Zenon DEF Linked
    <3>2. Len(Writes(first, x)) \in Nat
      <4>1. Len(Writes(first, x)) \in 1..4
        BY <1>4, <3>1, WritesTyped
      <4> QED BY <4>1
    <3>3. Piece(out, n, Len(out), Writes(first, x)) /\ Len(out) <= Len(out)
      BY <1>4, <3>1
    <3>4. Piece(str', n, Len(out), Writes(first, x))
      BY <1>4, <1>6, <3>2, <3>3, PieceOfLonger
    <3> QED BY <1>5, <3>1, <3>4
  <2>2. <<0, 0>> \in P
    BY <1>3 DEF Linked
  <2> HIDE DEF e
  <2>3. Linked(P, first, e, Len(s), str', Len(out))
    BY <2>1, <2>2, Zenon DEF Linked
  <2> QED BY <2>3 DEF e
<1>8. <<Len(out'), i'>> \in P
  <2>1. <<0, 0>> \in P /\ Len(out') = 0
    BY <1>1, <1>3 DEF Linked
  <2> QED BY <1>1, <2>1
<1>9. \E Q : /\ Linked(Q, first', Expected(first', s), Len(s), str', Length')
             /\ <<Len(out'), i'>> \in Q
  BY <1>1, <1>6, <1>7, <1>8
<1>10. \A k \in 1..Len(out') : out'[k] = Expected(first', s)[k]
  BY <1>1
<1>11. Source(s)'
  BY <1>1 DEF Going, Source
<1> QED BY <1>1, <1>9, <1>10, <1>11 DEF Coming

\* A round of the second loop.
LEMMA ComingRound ==
  ASSUME IInv, Next, leg = "back", i < Length, NEW s, Coming(s)
  PROVE  Coming(s)' /\ leg' = leg
<1> DEFINE c == Back(first)
           e == Expected(first, s)
<1>1. /\ first \in Conversions /\ c \in Conversions /\ now = c /\ Doing(c)
      /\ i \in Nat /\ str \in Seq(From(c)) /\ out \in Seq(To(c))
      /\ Len(out) \in Nat /\ Len(str) \in Nat
  BY BackAndForth DEF IInv, TypeOK, now, Doing
<1>2. PICK P : Linked(P, first, e, Len(s), str, Length) /\ <<Len(out), i>> \in P
  BY DEF Coming
<1>3. i # Length
  BY <1>1 DEF Length
<1>4. PICK pt \in Nat :
         /\ Scalar(pt) /\ Piece(e, Len(out), Len(s), Reads(first, pt))
         /\ Piece(str, i, Length, Writes(first, pt))
         /\ <<Len(out) + Len(Reads(first, pt)), i + Len(Writes(first, pt))>> \in P
  BY <1>1, <1>2, <1>3, Zenon DEF Linked
<1>5. Reads(c, pt) = Writes(first, pt) /\ Writes(c, pt) = Reads(first, pt)
  BY <1>1, BackAndForth DEF Reads
<1>6. /\ Len(Writes(c, pt)) \in Nat /\ Writes(c, pt) \in Seq(To(c))
      /\ Len(Writes(first, pt)) \in Nat
  <2>1. /\ Len(Writes(c, pt)) \in 1..4 /\ Writes(c, pt) \in Seq(To(c))
        /\ Len(Writes(first, pt)) \in 1..4
    BY <1>1, <1>4, WritesTyped
  <2> QED BY <2>1
<1>7. Piece(str, i, Len(str), Reads(c, pt))
  <2>1. Length \in Nat /\ Length <= Len(str) /\ \A k \in 1..Length : str[k] = str[k]
    BY <1>1 DEF Length, Doing
  <2> QED BY <1>1, <1>4, <1>5, <1>6, <2>1, PieceOfLonger
<1>8. /\ i' = i + Len(Reads(c, pt)) /\ out' = out \o Writes(c, pt)
      /\ first' = first /\ sent' = sent /\ leg' = leg /\ str' = str
  BY <1>1, <1>4, <1>7, RoundOf
<1> DEFINE w == Writes(c, pt)
<1> HIDE DEF c, e, w
<1>9. /\ Len(out') = Len(out) + Len(w)
      /\ \A k \in 1..Len(out) : out'[k] = out[k]
      /\ \A k \in 1..Len(w) : out'[Len(out) + k] = w[k]
  BY <1>1, <1>6, <1>8, SMT DEF w
<1>10. <<Len(out'), i'>> \in P
  BY <1>4, <1>5, <1>8, <1>9 DEF w
<1>11. ASSUME NEW k \in 1..Len(out') PROVE out'[k] = e[k]
  <2>1. CASE k \in 1..Len(out)
    BY <1>9, <2>1 DEF Coming, e
  <2>2. CASE k \notin 1..Len(out)
    <3>1. k - Len(out) \in 1..Len(w) /\ Len(out) + (k - Len(out)) = k
      BY <1>1, <1>6, <1>9, <2>2 DEF w
    <3>2. out'[Len(out) + (k - Len(out))] = w[k - Len(out)]
      BY <1>9, <3>1
    <3>3. e[Len(out) + (k - Len(out))] = w[k - Len(out)]
      BY <1>4, <1>5, <3>1 DEF Piece, w
    <3> QED BY <3>1, <3>2, <3>3
  <2> QED BY <2>1, <2>2
<1>12. \E Q : /\ Linked(Q, first', Expected(first', s), Len(s), str', Length')
              /\ <<Len(out'), i'>> \in Q
  BY <1>2, <1>8, <1>10 DEF Length, e
<1>13. \A k \in 1..Len(out') : out'[k] = Expected(first', s)[k]
  BY <1>8, <1>11 DEF e
<1>14. Source(s)'
  BY <1>8 DEF Coming, Source
<1> QED BY <1>8, <1>12, <1>13, <1>14 DEF Coming

\* A sequence is what its length and its elements make it.
LEMMA SameSequence ==
  ASSUME NEW S, NEW s \in Seq(S), NEW n \in Nat, NEW f, f = [k \in 1..n |-> f[k]],
         Len(s) = n, \A k \in 1..n : s[k] = f[k]
  PROVE  s = f
<1>1. s = [k \in 1..n |-> s[k]]
  BY SMT
<1>2. [k \in 1..n |-> s[k]] = [k \in 1..n |-> f[k]]
  OBVIOUS
<1> QED BY <1>1, <1>2

LEMMA WithoutTheLast ==
  ASSUME NEW S, NEW s \in Seq(S), NEW b
  PROVE  SubSeq(Append(s, b), 1, Len(Append(s, b)) - 1) = s
<1>1. Len(Append(s, b)) - 1 = Len(s) /\ Len(s) \in Nat
  BY SMT
<1>2. \A k \in 1..Len(s) : Append(s, b)[k] = s[k]
  BY SMT
<1>3. SubSeq(Append(s, b), 1, Len(s)) = [k \in 1..Len(s) |-> Append(s, b)[k]]
  BY <1>1, SMT
<1>4. s = [k \in 1..Len(s) |-> s[k]]
  BY SMT
<1> QED BY <1>1, <1>2, <1>3, <1>4

\* The second loop is over: what came back is what is expected.
LEMMA ComesBack ==
  ASSUME IInv, Return, leg = "back", NEW s, Coming(s)
  PROVE  Result' = Expected(first, s)
<1> DEFINE e == Expected(first, s)
<1>1. /\ first \in Conversions /\ s \in Seq(From(first)) /\ i \in Nat
      /\ out \in Seq(To(Back(first))) /\ Len(out) \in Nat /\ Len(s) \in Nat
      /\ Len(str) \in Nat
  BY BackAndForth DEF IInv, TypeOK, now, Coming, Source
<1>2. i >= Length /\ Length \in Int
  BY <1>1 DEF Return, Length
<1>3. PICK P : Linked(P, first, e, Len(s), str, Length) /\ <<Len(out), i>> \in P
  BY DEF Coming
<1>4. Len(out) = Len(s)
  <2>1. SUFFICES ASSUME ~(Len(out) = Len(s) /\ i = Length) PROVE FALSE
    OBVIOUS
  <2>2. PICK pt \in Nat : Scalar(pt) /\ Piece(str, i, Length, Writes(first, pt))
    BY <1>1, <1>3, <2>1, Zenon DEF Linked
  <2>3. Len(Writes(first, pt)) \in 1..4
    BY <1>1, <2>2, WritesTyped
  <2>4. i + Len(Writes(first, pt)) <= Length
    BY <2>2 DEF Piece
  <2> DEFINE n == Len(Writes(first, pt))
  <2> HIDE DEF n
  <2>5. i \in Nat /\ n \in 1..4 /\ i + n <= Length /\ i >= Length /\ Length \in Int
    BY <1>1, <1>2, <2>3, <2>4 DEF n
  <2> QED BY <2>5, SMT
<1>5. e = [k \in 1..Len(s) |-> e[k]]
  <2>1. CASE first \in Java
    <3>1. e = [k \in 1..Len(s) |-> IF Lone(s, k) THEN 65533 ELSE s[k]]
      BY <2>1 DEF Expected, Repaired, REPLACEMENT
    <3> HIDE DEF e
    <3> QED BY <3>1
  <2>2. CASE first \notin Java
    <3>1. e = s
      BY <2>2 DEF Expected
    <3>2. s = [k \in 1..Len(s) |-> s[k]]
      BY <1>1, SMT
    <3> QED BY <3>1, <3>2
  <2> QED BY <2>1, <2>2
<1>6. \A k \in 1..Len(s) : out[k] = e[k]
  BY <1>4 DEF Coming
<1> HIDE DEF e
<1>7. out = e
  BY <1>1, <1>4, <1>5, <1>6, SameSequence
<1>8. str' = Append(out, 0)
  BY DEF Return
<1>9. Result' = SubSeq(Append(out, 0), 1, Len(Append(out, 0)) - 1)
  BY <1>8 DEF Result, Length
<1>10. Result' = out
  BY <1>1, <1>9, WithoutTheLast
<1> QED BY <1>7, <1>10 DEF e

LEMMA NextBInv ==
  ASSUME IInv, BInv, [Next]_vars
  PROVE  BInv'
<1>1. /\ leg \in {"there", "back", "done"} /\ i \in Nat /\ Length \in Int
      /\ first \in Conversions
  BY DEF IInv, TypeOK, Length
<1>2. CASE UNCHANGED vars
  BY <1>2 DEF BInv, Going, Coming, Source, StringsComeBack, JavaComesBack, CppComesBack, Result,
     Length, vars
<1>3. CASE Next /\ ~Sound(first, sent)
  <2>1. /\ first' = first /\ sent' = sent /\ leg # "done"
    BY <1>3 DEF Next, StringFromUTF8, UTF8FromString, StringFromWString, WStringFromString,
       Round, Return, Doing
  <2>2. first \notin Java
    BY <1>3 DEF Sound, Java
  <2>3. JavaComesBack'
    BY <2>1, <2>2 DEF JavaComesBack, Java
  <2>4. CppComesBack'
    BY <1>3, <2>1 DEF CppComesBack, Sound
  <2> QED BY <1>3, <2>1, <2>3, <2>4 DEF BInv, StringsComeBack
<1>4. CASE Next /\ Sound(first, sent) /\ leg = "there"
  <2>1. PICK s : Going(s)
    BY <1>4 DEF BInv
  <2>2. CASE i < Length
    <3>1. Going(s)' /\ leg' = "there"
      BY <1>4, <2>1, <2>2, GoingRound
    <3> QED BY <3>1 DEF BInv, StringsComeBack
  <2>3. CASE ~(i < Length)
    <3>1. Return
      BY <1>4, <2>3 DEF Next, Doing, StringFromUTF8, UTF8FromString, StringFromWString,
         WStringFromString
    <3>2. Coming(s)' /\ leg' = "back"
      BY <1>4, <2>1, <3>1, GoingReturns
    <3> QED BY <3>2 DEF BInv, StringsComeBack
  <2> QED BY <2>2, <2>3
<1>5. CASE Next /\ Sound(first, sent) /\ leg = "back"
  <2>1. PICK s : Coming(s)
    BY <1>5 DEF BInv
  <2>2. CASE i < Length
    <3>1. Coming(s)' /\ leg' = "back"
      BY <1>5, <2>1, <2>2, ComingRound
    <3> QED BY <3>1 DEF BInv, StringsComeBack
  <2>3. CASE ~(i < Length)
    <3>1. Return
      BY <1>5, <2>3 DEF Next, Doing, StringFromUTF8, UTF8FromString, StringFromWString,
         WStringFromString
    <3>2. Result' = Expected(first, s) /\ Source(s)
      BY <1>5, <2>1, <3>1, ComesBack DEF Coming
    <3>3. first' = first /\ sent' = sent /\ leg' = "done"
      BY <1>5, <3>1 DEF Return
    <3>4. JavaComesBack'
      <4>1. CASE first \in Java /\ s = sent
        BY <3>2, <3>3, <4>1 DEF JavaComesBack, Expected
      <4>2. CASE first \in Java /\ s # sent
        <5>1. /\ first = "WStringFromString" /\ EndsInPair(s)
              /\ \E b \in AfterChars : s = Append(sent, b)
          BY <3>2, <4>2 DEF Source
        <5>2. Result' = Repaired(s)
          BY <3>2, <4>2 DEF Expected
        <5> QED BY <3>3, <5>1, <5>2, Zenon DEF JavaComesBack
      <4>3. CASE first \notin Java
        BY <3>3, <4>3 DEF JavaComesBack, Java
      <4> QED BY <4>1, <4>2, <4>3
    <3>5. CppComesBack'
      <4>1. first \notin Java => s = sent
        BY <3>2 DEF Source, Java
      <4> QED BY <3>2, <3>3, <4>1 DEF CppComesBack, Expected, Java
    <3> QED BY <3>3, <3>4, <3>5 DEF BInv, StringsComeBack
  <2> QED BY <2>2, <2>3
<1>6. CASE Next /\ leg = "done"
  BY <1>6 DEF Next, Doing, Return, StringFromUTF8, UTF8FromString, StringFromWString,
     WStringFromString
<1> QED BY <1>1, <1>2, <1>3, <1>4, <1>5, <1>6

\* The conversions of a pair undo each other (jniStringFromUTF8() and
\* jniUTF8FromString(), jniStringFromWString() and jniWStringFromString()), for
\* strings of any length: well-formed strings of C++'s come back from Java as they
\* were, and strings of Java's from C++ but for halves of pairs, and but for a unit
\* behind the array of GetStringChars that jniWStringFromString() may take along.
THEOREM RoundTrip ==
  Spec => []StringsComeBack
<1>1. Init => IInv /\ BInv
  BY InitIInv, InitBInv
<1>2. IInv /\ BInv /\ [Next]_vars => IInv' /\ BInv'
  BY NextIInv, NextBInv
<1>3. IInv /\ BInv => StringsComeBack
  BY DEF BInv
<1> QED BY <1>1, <1>2, <1>3, PTL DEF Spec
=============================================================================
