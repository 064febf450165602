----------------------------- MODULE MCJniText -----------------------------
(***************************************************************************)
(* Strings between C++ and Java, of code units at the borders of the       *)
(* ranges that the conversions tell apart.                                 *)
(***************************************************************************)
EXTENDS JniText, SequencesExt

CONSTANTS
    Bytes, Units, Points,   \* code units of UTF-8, UTF-16 and wchar_t
    MaxBytes, MaxUnits      \* bounds: the length of strings

\* Pairs of surrogates that each were encoded by itself, which C++ may send.
Pairs == {<<237, 160, 128, 237, 176, 128>>, <<237, 175, 191, 237, 191, 191>>}

MCUtf8Strings == SeqOf(Bytes, MaxBytes) \cup Pairs
MCWideStrings == SeqOf(Points, MaxUnits)
MCJavaStrings == SeqOf(Units, MaxUnits)
=============================================================================
