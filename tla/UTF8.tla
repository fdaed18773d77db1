-------------------------------- MODULE UTF8 --------------------------------
(***************************************************************************)
(* What the fetcher uses of Go's unicode/utf8: a body is a sequence of     *)
(* bytes, and text if the bytes form runes of one to four bytes.  A rune   *)
(* has the shortest form it can be given, is no surrogate and lies below   *)
(* U+110000; bytes that no rune begins with or holds make a body binary.   *)
(***************************************************************************)
EXTENDS Integers, Sequences

Byte == 0 .. 255

\* utf8.RuneStart: not a continuation byte.
RuneStart(b) == b \notin 128 .. 191

\* The bytes a rune begins with.
Lead == 0 .. 127 \cup 194 .. 244

\* The number of bytes of the rune a byte begins.
width(b) == IF b < 128 THEN 1 ELSE IF b < 224 THEN 2 ELSE IF b < 240 THEN 3 ELSE 4

\* Its second byte: after some bytes a part of the range would be a longer form
\* than is needed, a surrogate, or beyond the last rune.
Second(b) ==
    CASE b = 224 -> 160 .. 191
      [] b = 237 -> 128 .. 159
      [] b = 240 -> 144 .. 191
      [] b = 244 -> 128 .. 143
      [] OTHER   -> 128 .. 191

\* A rune of s begins at i and is complete.
runeAt(s, i) ==
    /\ s[i] \in Lead
    /\ i + width(s[i]) - 1 <= Len(s)
    /\ width(s[i]) > 1 => s[i + 1] \in Second(s[i])
    /\ \A j \in i + 1 .. i + width(s[i]) - 1 : ~ RuneStart(s[j])

\* utf8.Valid: every byte begins a rune or belongs to the rune before it.
Valid(s) ==
    \A i \in 1 .. Len(s) :
        \/ runeAt(s, i)
        \/ /\ ~ RuneStart(s[i])
           /\ \E k \in {i - 1, i - 2, i - 3} : k >= 1 /\ runeAt(s, k) /\ i < k + width(s[k])
=============================================================================
