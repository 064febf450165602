------------------------------ MODULE JniText ------------------------------
(***************************************************************************)
(* Strings on their way between C++ and Java: the loops of                 *)
(* support-lib/jni/djinni_support.cpp that convert UTF-8 and, where        *)
(* wchar_t has 32 bits, std::wstring to the UTF-16 of Java and back.       *)
(*                                                                         *)
(* A string goes to the other language and comes back, one round of a loop *)
(* at a time.  What lies behind its last code unit counts, as decoding     *)
(* looks at it: a NUL behind a std::string, but nothing that JNI promises  *)
(* behind the array of GetStringChars.                                     *)
(***************************************************************************)
EXTENDS Integers, Sequences

CONSTANTS
    Utf8Strings,   \* strings of bytes that C++ sends
    WideStrings,   \* strings of 32-bit wchar_t that C++ sends
    JavaStrings,   \* strings of UTF-16 code units that Java sends
    AfterChars     \* code units that may lie behind the array of GetStringChars

Byte == 0..255
Unit == {c \in Nat : c < 65536}
Wide == Nat   \* as char32_t: a negative wchar_t is a large one

ASSUME TextAssumption ==
    /\ Utf8Strings \subseteq Seq(Byte) /\ WideStrings \subseteq Seq(Wide)
    /\ JavaStrings \subseteq Seq(Unit) /\ AfterChars \subseteq Unit

Conversions == {"StringFromUTF8", "UTF8FromString", "StringFromWString", "WStringFromString"}

\* What a conversion reads and writes, and the way back.
From(c) == CASE c = "StringFromUTF8" -> Byte [] c = "StringFromWString" -> Wide [] OTHER -> Unit
To(c)   == CASE c = "UTF8FromString" -> Byte [] c = "WStringFromString" -> Wide [] OTHER -> Unit
Back(c) == CASE c = "StringFromUTF8" -> "UTF8FromString"
             [] c = "UTF8FromString" -> "StringFromUTF8"
             [] c = "StringFromWString" -> "WStringFromString"
             [] c = "WStringFromString" -> "StringFromWString"

VARIABLES
    first,  \* the conversion that the sender needs
    sent,   \* the string that is sent to the other language
    leg,    \* "there", "back" or "done"
    str,    \* what is converted now, and what lies behind it
    i,      \* the index of the loop
    out     \* its result so far

vars == <<first, sent, leg, str, i, out>>

now    == IF leg = "there" THEN first ELSE Back(first)
Length == Len(str) - 1
Doing(c) == leg # "done" /\ now = c /\ i < Length

TypeOK ==
    /\ first \in Conversions /\ sent \in Seq(From(first)) /\ leg \in {"there", "back", "done"}
    /\ str # <<>> /\ i \in Nat
    /\ leg # "done" => str \in Seq(From(now)) /\ out \in Seq(To(now))
    /\ leg = "done" => str \in Seq(From(first)) /\ out = <<>>

Sends(c) == CASE c = "StringFromUTF8" -> Utf8Strings [] c = "StringFromWString" -> WideStrings
              [] OTHER -> JavaStrings

\* jniUTF8FromString() copies the array of GetStringChars to a std::u16string;
\* jniWStringFromString() reads it where it is.
Behind(c) == IF c = "WStringFromString" THEN AfterChars ELSE {0}

Init ==
    /\ first \in Conversions /\ sent \in Sends(first) /\ leg = "there"
    /\ \E b \in Behind(first) : str = Append(sent, b)
    /\ i = 0 /\ out = <<>>

-----------------------------------------------------------------------------
(* Code points: decoding at index n of a string s, encoding.               *)

At(s, n) == s[n + 1]

invalid_pt == [offset |-> -1, pt |-> 0]

\* The length of a sequence that begins with byte b, if one does.
Width(b) == IF b < 128 THEN 1
            ELSE IF b \in 192..223 THEN 2
            ELSE IF b \in 224..239 THEN 3
            ELSE IF b \in 240..247 THEN 4 ELSE 0
Least(w) == CASE w = 1 -> 0 [] w = 2 -> 128 [] w = 3 -> 2048 [] w = 4 -> 65536

Cont(b) == b \div 64 = 2
Bits(b) == b % 64

Value(s, n, w) ==
    CASE w = 1 -> At(s, n)
      [] w = 2 -> (At(s, n) % 32) * 64 + Bits(At(s, n + 1))
      [] w = 3 -> (At(s, n) % 16) * 4096 + Bits(At(s, n + 1)) * 64 + Bits(At(s, n + 2))
      [] w = 4 -> (At(s, n) % 8) * 262144 + Bits(At(s, n + 1)) * 4096
                  + Bits(At(s, n + 2)) * 64 + Bits(At(s, n + 3))

\* A byte is looked at only when the one before it calls for it: the NUL ends a
\* sequence that is cut short.
Whole(s, n, w) == w > 0 /\ \A k \in 1..(w - 1) : Cont(At(s, n + k))

utf8_decode_check(s, n) ==
    LET w == Width(At(s, n))
    IN  IF Whole(s, n, w) /\ Least(w) <= Value(s, n, w) /\ Value(s, n, w) < 1114112
        THEN [offset |-> w, pt |-> Value(s, n, w)] ELSE invalid_pt

High(c) == 55296 <= c /\ c < 56320
Low(c)  == 56320 <= c /\ c < 57344

PairAt(s, n) == (At(s, n) - 55296) * 1024 + (At(s, n + 1) - 56320) + 65536

\* Mutant: what follows a high surrogate is not looked at.
utf16_decode_check_Unpaired(s, n) ==
    IF High(At(s, n)) THEN [offset |-> 2, pt |-> PairAt(s, n)]
    ELSE IF Low(At(s, n)) THEN invalid_pt
    ELSE [offset |-> 1, pt |-> At(s, n)]
\* Mutant: a surrogate without its other half is a code point.
utf16_decode_check_Lone(s, n) ==
    IF High(At(s, n)) /\ Low(At(s, n + 1)) THEN [offset |-> 2, pt |-> PairAt(s, n)]
    ELSE [offset |-> 1, pt |-> At(s, n)]
utf16_decode_check(s, n) ==
    IF High(At(s, n)) /\ Low(At(s, n + 1)) THEN [offset |-> 2, pt |-> PairAt(s, n)]
    ELSE IF High(At(s, n)) \/ Low(At(s, n)) THEN invalid_pt
    ELSE [offset |-> 1, pt |-> At(s, n)]

REPLACEMENT == 65533

\* utf8_decode() and utf16_decode(): the next index and the code point.
decode(res, n) ==
    IF res.offset < 0 THEN [at |-> n + 1, pt |-> REPLACEMENT]
                      ELSE [at |-> n + res.offset, pt |-> res.pt]

\* Mutant: 0x10000 is not taken off.
utf16_encode_Whole(pt) ==
    IF pt < 65536 THEN <<pt>>
    ELSE IF pt < 1114112 THEN <<pt \div 1024 + 55296, (pt % 1024) + 56320>>
    ELSE <<REPLACEMENT>>
utf16_encode(pt) ==
    IF pt < 65536 THEN <<pt>>
    ELSE IF pt < 1114112 THEN <<(pt - 65536) \div 1024 + 55296, (pt % 1024) + 56320>>
    ELSE <<REPLACEMENT>>

\* Mutant: the bits above are left in the second byte of three.
utf8_encode_Unmasked(pt) ==
    IF pt < 128 THEN <<pt>>
    ELSE IF pt < 2048 THEN <<pt \div 64 + 192, (pt % 64) + 128>>
    ELSE <<pt \div 4096 + 224, pt \div 64 + 128, (pt % 64) + 128>>
utf8_encode(pt) ==
    IF pt < 128 THEN <<pt>>
    ELSE IF pt < 2048 THEN <<pt \div 64 + 192, (pt % 64) + 128>>
    ELSE IF pt < 65536 THEN <<pt \div 4096 + 224, ((pt \div 64) % 64) + 128, (pt % 64) + 128>>
    ELSE IF pt < 1114112
    THEN <<pt \div 262144 + 240, ((pt \div 4096) % 64) + 128, ((pt \div 64) % 64) + 128,
           (pt % 64) + 128>>
    ELSE <<239, 191, 189>>

-----------------------------------------------------------------------------
(* The loops.                                                              *)

Round(d, piece) ==
    /\ i' = d.at /\ out' = out \o piece
    /\ UNCHANGED <<first, sent, leg, str>>

StringFromUTF8 ==
    /\ Doing("StringFromUTF8")
    /\ LET d == decode(utf8_decode_check(str, i), i) IN Round(d, utf16_encode(d.pt))

UTF8FromString ==
    /\ Doing("UTF8FromString")
    /\ LET d == decode(utf16_decode_check(str, i), i) IN Round(d, utf8_encode(d.pt))

StringFromWString ==
    /\ Doing("StringFromWString")
    /\ Round([at |-> i + 1], utf16_encode(At(str, i)))

WStringFromString ==
    /\ Doing("WStringFromString")
    /\ LET d == decode(utf16_decode_check(str, i), i) IN Round(d, <<d.pt>>)

\* The loop is over, and the other language sends back what it got.
Return ==
    /\ leg # "done" /\ i >= Length
    /\ leg' = IF leg = "there" THEN "back" ELSE "done"
    /\ \E b \in IF leg = "there" THEN Behind(Back(first)) ELSE {0} : str' = Append(out, b)
    /\ i' = 0 /\ out' = <<>>
    /\ UNCHANGED <<first, sent>>

Next == StringFromUTF8 \/ UTF8FromString \/ StringFromWString \/ WStringFromString \/ Return

Spec == Init /\ [][Next]_vars

-----------------------------------------------------------------------------
(* Properties.                                                             *)

\* The other half of a pair lies behind a string that ends with the first one.
EndsInPair(s) == Len(s) > 1 /\ High(s[Len(s) - 1]) /\ Low(s[Len(s)])

\* A loop stays inside its string: no sequence that is cut short makes it pass
\* the end.  The one that does is the loop of jniWStringFromString(), by one unit,
\* where the array of GetStringChars ends with half a pair and the other half
\* happens to lie behind it.
IndexInRange ==
    \/ i <= Length
    \/ now = "WStringFromString" /\ i = Len(str) /\ EndsInPair(str)

\* What C++ gets is UTF-8 as Unicode defines it, whatever Java sends: every
\* sequence is whole, of the shortest form, and of no surrogate.
Follows(s, k, b) ==
    /\ b \in 128..191
    /\ s[k] = 224 => b >= 160
    /\ s[k] = 237 => b < 160
    /\ s[k] = 240 => b >= 144
    /\ s[k] = 244 => b < 144

WellFormed(s) ==
    \A k \in 1..Len(s) :
        \/ s[k] < 128
        \/ /\ s[k] \in 194..244
           /\ k + Width(s[k]) - 1 <= Len(s) /\ Follows(s, k, s[k + 1])
           /\ \A d \in 1..(Width(s[k]) - 1) : Cont(s[k + d])
        \/ /\ Cont(s[k])
           /\ \E d \in 1..3 : d < k /\ d < Width(s[k - d]) /\ s[k - d] \in 194..244

OnlyUTF8 == leg # "done" /\ now = "UTF8FromString" => WellFormed(out)

\* A string of Java's comes back from C++ as it was, but for surrogates without
\* their other half, which become U+FFFD one by one.  From jniWStringFromString()
\* it may come back one unit longer, with the other half of its last surrogate
\* if that lay behind the array of GetStringChars; nothing else changes it.
Lone(s, k) ==
    \/ High(s[k]) /\ ~(k < Len(s) /\ Low(s[k + 1]))
    \/ Low(s[k]) /\ ~(k > 1 /\ High(s[k - 1]))

Repaired(s) == [k \in 1..Len(s) |-> IF Lone(s, k) THEN REPLACEMENT ELSE s[k]]

Result == SubSeq(str, 1, Length)

JavaComesBack ==
    first \in {"UTF8FromString", "WStringFromString"} =>
        \/ Result = Repaired(sent)
        \/ /\ first = "WStringFromString"
           /\ \E b \in AfterChars : /\ EndsInPair(Append(sent, b))
                                  /\ Result = Repaired(Append(sent, b))

\* A string of C++'s that is well-formed comes back from Java as it was.
Scalar(c) == c < 1114112 /\ ~High(c) /\ ~Low(c)

CppComesBack ==
    /\ first = "StringFromUTF8" /\ WellFormed(sent) => Result = sent
    /\ first = "StringFromWString" /\ (\A k \in 1..Len(sent) : Scalar(sent[k]))
           => Result = sent

\* A string that has been to the other language and back is what it was: the
\* conversions of a pair undo each other, whatever borders of sequences, of
\* surrogates and of the string they meet on the way.  Only what lies behind the
\* array that jniWStringFromString() reads in place may be taken along.
StringsComeBack == leg = "done" => JavaComesBack /\ CppComesBack
=============================================================================
