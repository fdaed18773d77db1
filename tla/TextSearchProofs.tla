-------------------------- MODULE TextSearchProofs --------------------------
(***************************************************************************)
(* Theorems about TextSearch, for every body, query and limit.             *)
(***************************************************************************)
EXTENDS TextSearch, SequenceTheorems, WellFoundedInduction, TLAPS

-----------------------------------------------------------------------------
(***************************************************************************)
(* The least and the greatest of some numbers.                             *)
(***************************************************************************)

LEMMA LeastExists ==
    ASSUME NEW S, S \subseteq Nat, S # {}
    PROVE  \E x \in S : \A y \in S : x <= y
<1>1. PICK x \in S : \A y \in S : <<y, x>> \notin OpToRel(<, Nat)
    BY NatLessThanWellFounded, WFMin
<1>2. \A y \in S : ~ (y < x)
    BY <1>1 DEF OpToRel
<1> QED
    BY <1>2

LEMMA MinIsLeast ==
    ASSUME NEW S, S \subseteq Nat, S # {}
    PROVE  Min(S) \in S /\ \A y \in S : Min(S) <= y
BY LeastExists DEF Min

LEMMA MaxIsGreatest ==
    ASSUME NEW n \in Nat, NEW S, S \subseteq 0 .. n, S # {}
    PROVE  Max(S) \in S /\ \A y \in S : y <= Max(S)
<1> DEFINE T == {n - x : x \in S}
<1>1. T \subseteq Nat /\ T # {}
  <2>1. \A x \in S : n - x \in Nat
      OBVIOUS
  <2> QED
      BY <2>1
<1>2. PICK t \in T : \A u \in T : t <= u
    BY <1>1, LeastExists
<1>3. PICK x \in S : t = n - x
    OBVIOUS
<1>4. \A y \in S : x >= y
    BY <1>2, <1>3
<1> QED
    BY <1>4 DEF Max
-----------------------------------------------------------------------------
(***************************************************************************)
(* Cutting a text between two runes.                                       *)
(***************************************************************************)

LEMMA Slice ==
    ASSUME NEW s \in Seq(Byte), NEW o \in Nat, NEW n \in Nat, o + n <= Len(s)
    PROVE  /\ bytesAt(s, o, n) \in Seq(Byte) /\ Len(bytesAt(s, o, n)) = n
           /\ \A i \in 1 .. n : bytesAt(s, o, n)[i] = s[o + i]
<1>1. Len(s) \in Nat
    BY LenProperties
<1>2. o + 1 \in 1 .. Len(s) + 1 /\ o + n \in o .. Len(s)
    BY <1>1
<1> QED
    BY <1>1, <1>2, SubSeqProperties DEF bytesAt

\* An offset between two runes of s.
Between(s, o) == o = 0 \/ o = Len(s) \/ RuneStart(s[o + 1])

LEMMA SliceOfText ==
    ASSUME NEW s \in Seq(Byte), Valid(s), NEW o \in Nat, NEW e \in Nat, o <= e, e <= Len(s),
           Between(s, o), Between(s, e)
    PROVE  Valid(bytesAt(s, o, e - o))
<1> DEFINE n == e - o
           t == bytesAt(s, o, n)
<1>1. Len(s) \in Nat /\ n \in Nat /\ \A i \in 1 .. Len(s) : s[i] \in Byte
    BY LenProperties
<1>2. Len(t) = n /\ \A i \in 1 .. n : t[i] = s[o + i]
  <2>1. o + n <= Len(s)
      OBVIOUS
  <2> HIDE DEF n
  <2> QED
      BY <1>1, <2>1, Slice
<1> HIDE DEF t
<1>3. ASSUME NEW i \in 1 .. n, runeAt(s, o + i)
      PROVE  runeAt(t, i) /\ width(t[i]) = width(s[o + i])
  <2>1. o + i + width(s[o + i]) - 1 <= e
    <3>1. e < Len(s) => e + 1 \notin o + i + 1 .. o + i + width(s[o + i]) - 1
        BY <1>1, <1>3 DEF runeAt, Between
    <3>2. width(s[o + i]) \in Nat \ {0} /\ o + i + width(s[o + i]) - 1 <= Len(s)
        BY <1>3 DEF width, runeAt
    <3> QED
        BY <1>1, <3>1, <3>2
  <2>2. t[i] = s[o + i] /\ s[o + i] \in Lead
      BY <1>2, <1>3 DEF runeAt
  <2> DEFINE w == width(s[o + i])
  <2>3. w \in 1 .. 4 /\ o + i + w - 1 <= e
      BY <2>1 DEF width
  <2>4. /\ \A k \in o + i + 1 .. o + i + w - 1 : ~ RuneStart(s[k])
        /\ w > 1 => s[o + i + 1] \in Second(s[o + i])
      BY <1>3 DEF runeAt
  <2> HIDE DEF w
  <2>5. o + i + w - 1 <= o + n
      BY <2>3
  <2> HIDE DEF n
  <2>6. i + w - 1 <= n
      BY <1>1, <2>3, <2>5
  <2>7. ASSUME NEW k \in i + 1 .. i + w - 1
        PROVE  ~ RuneStart(t[k])
    <3>1. o + k \in o + i + 1 .. o + i + w - 1 /\ k \in 1 .. n
        BY <1>1, <2>3, <2>6
    <3> QED
        BY <1>2, <2>4, <3>1
  <2>8. ASSUME w > 1
        PROVE  t[i + 1] \in Second(t[i])
    <3>1. i + 1 \in 1 .. n /\ o + (i + 1) = o + i + 1
        BY <1>1, <2>3, <2>6, <2>8
    <3> QED
        BY <1>2, <2>2, <2>4, <2>8, <3>1
  <2> QED
      BY <1>2, <2>2, <2>6, <2>7, <2>8 DEF runeAt, w
<1>4. ASSUME NEW i \in 1 .. n
      PROVE  \/ runeAt(t, i)
             \/ /\ ~ RuneStart(t[i])
                /\ \E k \in {i - 1, i - 2, i - 3} :
                      k >= 1 /\ runeAt(t, k) /\ i < k + width(t[k])
  <2>1. CASE runeAt(s, o + i)
      BY <1>3, <2>1
  <2>2. CASE /\ ~ RuneStart(s[o + i])
             /\ \E k \in {o + i - 1, o + i - 2, o + i - 3} :
                   k >= 1 /\ runeAt(s, k) /\ o + i < k + width(s[k])
    <3>1. PICK k \in {o + i - 1, o + i - 2, o + i - 3} :
                   k >= 1 /\ runeAt(s, k) /\ o + i < k + width(s[k])
        BY <2>2
    <3>2. k > o
      <4>1. o = 0 \/ RuneStart(s[o + 1])
          BY <1>1 DEF Between
      <4>2. o # 0 => o + 1 \notin k + 1 .. k + width(s[k]) - 1
          BY <3>1, <4>1 DEF runeAt
      <4>3. width(s[k]) \in Nat
          BY DEF width
      <4> QED
          BY <1>1, <3>1, <4>2, <4>3
    <3> DEFINE l == k - o
    <3>3. l \in 1 .. n /\ l \in {i - 1, i - 2, i - 3} /\ k = o + l
        BY <1>1, <3>1, <3>2
    <3>4. runeAt(t, l) /\ width(t[l]) = width(s[k])
        BY <1>3, <3>1, <3>3
    <3> HIDE DEF l
    <3>5. width(s[k]) \in Nat
        BY DEF width
    <3>6. i < l + width(t[l])
        BY <1>1, <3>1, <3>3, <3>4, <3>5
    <3>7. ~ RuneStart(t[i]) /\ l >= 1
        BY <1>2, <2>2, <3>3
    <3> QED
        BY <3>3, <3>4, <3>6, <3>7
  <2>3. o + i \in 1 .. Len(s)
      BY <1>1
  <2> QED
      BY <2>1, <2>2, <2>3 DEF Valid
<1> QED
    BY <1>2, <1>4 DEF Valid, t

\* A rune begins with no continuation byte, and its others are nothing else.
LEMMA RuneBytes ==
    ASSUME NEW s \in Seq(Byte), NEW k \in Nat, runeAt(s, k)
    PROVE  /\ RuneStart(s[k]) /\ width(s[k]) \in 1 .. 4
           /\ k + width(s[k]) - 1 <= Len(s)
           /\ \A j \in k + 1 .. k + width(s[k]) - 1 : ~ RuneStart(s[j])
<1>1. \A b \in Lead : RuneStart(b) /\ width(b) \in 1 .. 4
    BY DEF Lead, RuneStart, width
<1> QED
    BY <1>1 DEF runeAt

\* At most three bytes lie before the start of a rune or the end.
LEMMA RuneNear ==
    ASSUME NEW s \in Seq(Byte), Valid(s), NEW o \in 0 .. Len(s)
    PROVE  /\ \E b \in 0 .. o : Between(s, b) /\ o <= b + 3
           /\ \E e \in o .. Len(s) : Between(s, e) /\ e <= o + 3
<1>1. Len(s) \in Nat /\ o \in Nat
    BY LenProperties
<1>2. CASE Between(s, o)
    BY <1>1, <1>2
<1>3. CASE ~ Between(s, o)
  <2>1. o + 1 \in 1 .. Len(s) /\ ~ RuneStart(s[o + 1]) /\ o >= 1
      BY <1>1, <1>3 DEF Between
  <2>2. PICK k \in {o, o - 1, o - 2} : k >= 1 /\ runeAt(s, k) /\ o + 1 < k + width(s[k])
    <3>1. ~ runeAt(s, o + 1)
        BY <1>1, <2>1, RuneBytes
    <3>2. PICK k \in {(o + 1) - 1, (o + 1) - 2, (o + 1) - 3} :
                 k >= 1 /\ runeAt(s, k) /\ o + 1 < k + width(s[k])
        BY <2>1, <3>1 DEF Valid
    <3>3. k \in {o, o - 1, o - 2}
        BY <1>1, <3>2
    <3> QED
        BY <3>2, <3>3
  <2> DEFINE w == width(s[k])
             e == k + w - 1
  <2>3. k \in Nat /\ k >= 1 /\ k <= o /\ o <= k + 2
      BY <1>1, <2>2
  <2>4. /\ RuneStart(s[k]) /\ w \in 1 .. 4 /\ e <= Len(s)
        /\ \A j \in k + 1 .. e : ~ RuneStart(s[j])
      BY <2>2, <2>3, RuneBytes
  <2>5. Between(s, k - 1) /\ k - 1 \in 0 .. o /\ o <= (k - 1) + 3
    <3>1. (k - 1) + 1 = k
        BY <2>3
    <3> QED
        BY <1>1, <2>3, <2>4, <3>1 DEF Between
  <2>6. o + 1 < k + w
      BY <2>2
  <2> HIDE DEF w
  <2>7. e \in o .. Len(s) /\ e <= o + 3 /\ e \in Nat
      BY <1>1, <2>3, <2>4, <2>6
  <2>8. Between(s, e)
    <3>1. SUFFICES ASSUME e < Len(s), ~ RuneStart(s[e + 1]) PROVE FALSE
        BY <1>1, <2>7 DEF Between
    <3>2. e + 1 \in 1 .. Len(s) /\ ~ runeAt(s, e + 1)
        BY <1>1, <2>7, <3>1, RuneBytes
    <3> HIDE DEF e
    <3>3. PICK l \in {(e + 1) - 1, (e + 1) - 2, (e + 1) - 3} :
                 l >= 1 /\ runeAt(s, l) /\ e + 1 < l + width(s[l])
        BY <3>1, <3>2 DEF Valid
    <3>4. /\ l \in Nat /\ l <= e /\ RuneStart(s[l]) /\ width(s[l]) \in 1 .. 4
          /\ \A j \in l + 1 .. l + width(s[l]) - 1 : ~ RuneStart(s[j])
      <4>1. l \in Nat /\ l <= e
          BY <2>7, <3>3
      <4> QED
          BY <3>3, <4>1, RuneBytes
    <3>5. l <= k
      <4>1. l \notin k + 1 .. e
          BY <2>4, <3>4
      <4> QED
          BY <2>3, <2>7, <3>4, <4>1
    <3>6. k <= e
        BY <2>3, <2>7
    <3>7. k <= l
      <4>1. k \notin l + 1 .. l + width(s[l]) - 1
          BY <2>4, <3>4
      <4>2. k < l + width(s[l])
          BY <2>3, <2>7, <3>3, <3>4, <3>6
      <4> QED
          BY <2>3, <3>4, <4>1, <4>2
    <3>8. l = k
        BY <2>3, <3>4, <3>5, <3>7
    <3>9. e + 1 < k + w
        BY <3>3, <3>8 DEF w
    <3> QED
        BY <2>3, <2>4, <3>9 DEF e
  <2> QED
      BY <2>5, <2>7, <2>8
<1> QED
    BY <1>2, <1>3
-----------------------------------------------------------------------------
(***************************************************************************)
(* One match.                                                              *)
(***************************************************************************)

\* What is true of a call whose arguments were accepted.
Accepted == validSearch /\ body \in Seq(Byte) /\ searchInput.query \in Seq(Byte)
            /\ searchInput.caseSensitive \in BOOLEAN

LEMMA Folding ==
    ASSUME NEW s \in Seq(Byte), searchInput.caseSensitive \in BOOLEAN
    PROVE  /\ folded(s) \in Seq(Byte) /\ Len(folded(s)) = Len(s)
           /\ \A i \in 1 .. Len(s) :
                 folded(s)[i] = IF ~ searchInput.caseSensitive /\ s[i] \in 65 .. 90 THEN s[i] + 32 ELSE s[i]
<1>1. Len(s) \in Nat /\ DOMAIN s = 1 .. Len(s) /\ \A i \in 1 .. Len(s) : s[i] \in Byte
    BY LenProperties
<1>2. \A i \in 1 .. Len(s) : (IF s[i] \in 65 .. 90 THEN s[i] + 32 ELSE s[i]) \in Byte
  <2>1. \A b \in Byte : (IF b \in 65 .. 90 THEN b + 32 ELSE b) \in Byte
      BY DEF Byte
  <2> QED
      BY <1>1, <2>1
<1>3. asciiLowerCopy(s) \in Seq(Byte) /\ Len(asciiLowerCopy(s)) = Len(s)
    BY <1>1, <1>2 DEF asciiLowerCopy
<1> QED
    BY <1>1, <1>3 DEF folded, asciiLowerCopy

LEMMA OccurrenceBytes ==
    ASSUME Accepted, NEW o \in Occurrences
    PROVE  /\ size \in Nat \ {0} /\ o \in Nat /\ o + size <= Len(body)
           /\ \A k \in 1 .. size : folded(body)[o + k] = folded(searchInput.query)[k]
<1>1. Len(body) \in Nat /\ Len(searchInput.query) \in Nat /\ size \in Nat \ {0}
    BY LenProperties, SearchAssumption DEF Accepted, validSearch, size
<1>2. o \in 0 .. Len(body) - size /\ bytesAt(folded(body), o, size) = folded(searchInput.query)
    BY DEF Occurrences
<1>3. o \in Nat /\ o + size <= Len(body)
    BY <1>1, <1>2
<1>4. folded(body) \in Seq(Byte) /\ Len(folded(body)) = Len(body)
    BY Folding DEF Accepted
<1> QED
    BY <1>1, <1>2, <1>3, <1>4, Slice

LEMMA WindowStart ==
    ASSUME Accepted, contextBytes \in Nat, NEW o \in Nat, o < Len(body)
    PROVE  windowStart(o) \in 0 .. o /\ Between(body, windowStart(o))
           /\ o - windowStart(o) <= contextBytes + 3
<1> DEFINE start == IF o < contextBytes THEN 0 ELSE o - contextBytes
           S == {0} \cup {s \in 1 .. start : RuneStart(body[s + 1])}
<1>1. Len(body) \in Nat /\ start \in 0 .. o /\ o - start <= contextBytes
    BY LenProperties DEF Accepted
<1> HIDE DEF start
<1>2. S \subseteq 0 .. start /\ S # {} /\ start \in Nat
    BY <1>1
<1>3. windowStart(o) = Max(S)
    BY DEF windowStart, start
<1>4. PICK b \in 0 .. start : Between(body, b) /\ start <= b + 3
  <2>1. start \in 0 .. Len(body) /\ body \in Seq(Byte) /\ Valid(body)
      BY <1>1 DEF Accepted, validSearch
  <2> QED
      BY <2>1, RuneNear
<1>5. b \in S
    BY <1>1, <1>4 DEF Between
<1>6. \A s \in S : Between(body, s)
    BY DEF Between
<1> HIDE DEF S
<1>7. Max(S) \in S /\ b <= Max(S)
    BY <1>2, <1>5, MaxIsGreatest
<1>8. windowStart(o) \in 0 .. start /\ Between(body, windowStart(o)) /\ start <= windowStart(o) + 3
  <2>1. Max(S) \in 0 .. start /\ Between(body, Max(S))
      BY <1>2, <1>6, <1>7
  <2>2. start <= Max(S) + 3
      BY <1>2, <1>4, <1>7, <2>1
  <2> QED
      BY <1>3, <2>1, <2>2
<1> QED
    BY <1>1, <1>8

LEMMA WindowEnd ==
    ASSUME Accepted, contextBytes \in Nat, NEW o \in Occurrences
    PROVE  /\ windowEnd(o) \in o + size .. Len(body)
           /\ windowEnd(o) - (o + size) <= contextBytes + 3
           /\ Valid(bytesAt(body, windowStart(o), windowEnd(o) - windowStart(o)))
<1> DEFINE s == windowStart(o)
           end == Min({o + size + contextBytes, Len(body)})
           S == {Len(body)} \cup {e \in end .. Len(body) : Valid(bytesAt(body, s, e - s))}
<1>1. Len(body) \in Nat /\ o \in Nat /\ size \in Nat \ {0} /\ o + size <= Len(body)
    BY OccurrenceBytes, LenProperties DEF Accepted
<1>2. s \in 0 .. o /\ Between(body, s)
    BY <1>1, WindowStart
<1>3. end \in o + size .. Len(body) /\ end <= o + size + contextBytes
  <2>1. {o + size + contextBytes, Len(body)} \subseteq Nat
      BY <1>1
  <2>2. end \in {o + size + contextBytes, Len(body)} /\ end <= Len(body)
        /\ end <= o + size + contextBytes
      BY <2>1, MinIsLeast
  <2> HIDE DEF end
  <2> QED
      BY <1>1, <2>2
<1>4. windowEnd(o) = Min(S)
    BY DEF windowEnd
<1> HIDE DEF s, end
<1>5. ASSUME NEW e \in end .. Len(body), Between(body, e)
      PROVE  Valid(bytesAt(body, s, e - s))
    BY <1>1, <1>2, <1>3, <1>5, SliceOfText DEF Accepted, validSearch
<1>6. Valid(bytesAt(body, s, Len(body) - s))
    BY <1>1, <1>3, <1>5 DEF Between
<1>7. PICK e \in end .. Len(body) : Between(body, e) /\ e <= end + 3
    BY <1>1, <1>3, RuneNear DEF Accepted, validSearch
<1>8. S \subseteq Nat /\ S # {} /\ e \in S
    BY <1>1, <1>3, <1>5, <1>7
<1>9. \A x \in S : x \in end .. Len(body) /\ Valid(bytesAt(body, s, x - s))
    BY <1>1, <1>3, <1>6
<1> HIDE DEF S
<1>10. Min(S) \in S /\ Min(S) <= e
    BY <1>8, MinIsLeast
<1>11. windowEnd(o) \in end .. Len(body) /\ windowEnd(o) <= e
       /\ Valid(bytesAt(body, s, windowEnd(o) - s))
    BY <1>4, <1>9, <1>10
<1> QED
    BY <1>1, <1>3, <1>7, <1>11 DEF s

\* A match and its context, as ContextIsText asks for it.
ContextOK(m) ==
    /\ Valid(bytesAt(body, m.start, m.end - m.start))
    /\ m.start <= m.offset /\ m.offset + size <= m.end /\ m.end <= Len(body)
    /\ m.offset - m.start <= contextBytes + 3
    /\ m.end - (m.offset + size) <= contextBytes + 3
    /\ RuneStart(body[m.offset + 1])
    /\ \A k \in 1 .. size :
          \/ body[m.offset + k] = searchInput.query[k]
          \/ /\ ~ searchInput.caseSensitive
             /\ {body[m.offset + k], searchInput.query[k]} \in {{c, c + 32} : c \in 65 .. 90}

LEMMA SameLetters ==
    ASSUME Accepted, NEW o \in Occurrences, NEW k \in 1 .. size
    PROVE  /\ \/ body[o + k] = searchInput.query[k]
              \/ /\ ~ searchInput.caseSensitive
                 /\ {body[o + k], searchInput.query[k]} \in {{c, c + 32} : c \in 65 .. 90}
           /\ RuneStart(body[o + k]) <=> RuneStart(searchInput.query[k])
<1> DEFINE x == body[o + k]
           y == searchInput.query[k]
<1>1. Len(body) \in Nat /\ o \in Nat /\ size \in Nat /\ o + size <= Len(body)
      /\ size = Len(searchInput.query)
    BY OccurrenceBytes, LenProperties DEF Accepted, size
<1>2. o + k \in 1 .. Len(body) /\ k \in 1 .. Len(searchInput.query)
    BY <1>1
<1>3. x \in Byte /\ y \in Byte
    BY <1>2, LenProperties DEF Accepted
<1>4. (IF ~ searchInput.caseSensitive /\ x \in 65 .. 90 THEN x + 32 ELSE x)
      = (IF ~ searchInput.caseSensitive /\ y \in 65 .. 90 THEN y + 32 ELSE y)
  <2>1. folded(body)[o + k] = folded(searchInput.query)[k]
      BY OccurrenceBytes
  <2>2. folded(body)[o + k] = IF ~ searchInput.caseSensitive /\ x \in 65 .. 90 THEN x + 32 ELSE x
      BY <1>2, Folding DEF Accepted
  <2>3. folded(searchInput.query)[k] = IF ~ searchInput.caseSensitive /\ y \in 65 .. 90 THEN y + 32 ELSE y
      BY <1>2, Folding DEF Accepted
  <2> QED
      BY <2>1, <2>2, <2>3
<1> HIDE DEF x, y
<1>5. \/ x = y
      \/ ~ searchInput.caseSensitive /\ x \in 65 .. 90 /\ y = x + 32
      \/ ~ searchInput.caseSensitive /\ y \in 65 .. 90 /\ x = y + 32
    BY <1>3, <1>4 DEF Byte
<1>6. RuneStart(x) <=> RuneStart(y)
    BY <1>3, <1>5 DEF Byte, RuneStart
<1>7. \/ x = y
      \/ ~ searchInput.caseSensitive /\ {x, y} \in {{c, c + 32} : c \in 65 .. 90}
  <2>1. y = x + 32 => {x, y} = {x, x + 32}
      OBVIOUS
  <2>2. x = y + 32 => {x, y} = {y, y + 32}
      OBVIOUS
  <2> QED
      BY <1>5, <2>1, <2>2
<1> QED
    BY <1>6, <1>7 DEF x, y

LEMMA MatchOK ==
    ASSUME Accepted, NEW o \in Occurrences
    PROVE  LET m == [offset |-> o, start |-> windowStart(o), end |-> windowEnd(o)]
           IN  m \in [offset : Nat, start : Nat, end : Nat] /\ ContextOK(m)
<1>1. contextBytes \in Nat /\ Len(body) \in Nat /\ o \in Nat /\ size \in Nat \ {0}
      /\ o + size <= Len(body)
    BY OccurrenceBytes, LenProperties, SearchAssumption DEF Accepted, validSearch
<1>2. windowStart(o) \in 0 .. o /\ o - windowStart(o) <= contextBytes + 3
    BY <1>1, WindowStart
<1>3. /\ windowEnd(o) \in o + size .. Len(body)
      /\ windowEnd(o) - (o + size) <= contextBytes + 3
      /\ Valid(bytesAt(body, windowStart(o), windowEnd(o) - windowStart(o)))
    BY <1>1, WindowEnd
<1>4. RuneStart(body[o + 1])
  <2>1. Valid(searchInput.query) /\ 1 \in 1 .. size /\ 1 \in 1 .. Len(searchInput.query)
      BY <1>1 DEF Accepted, validSearch, size
  <2>2. RuneStart(searchInput.query[1])
    <3>1. \/ runeAt(searchInput.query, 1)
          \/ \E k \in {1 - 1, 1 - 2, 1 - 3} : k >= 1
        BY <2>1 DEF Valid
    <3>2. runeAt(searchInput.query, 1)
        BY <3>1
    <3> QED
        BY <3>2, RuneBytes DEF Accepted
  <2> QED
      BY <2>1, <2>2, SameLetters
<1>5. windowStart(o) \in Nat /\ windowEnd(o) \in Nat /\ windowStart(o) <= o
      /\ o + size <= windowEnd(o) /\ windowEnd(o) <= Len(body)
    BY <1>1, <1>2, <1>3
<1> QED
    BY <1>1, <1>2, <1>3, <1>4, <1>5, SameLetters DEF ContextOK
-----------------------------------------------------------------------------
(***************************************************************************)
(* The loop.  Until it ends, every occurrence before searchFrom has been   *)
(* reported or overlaps one that has.                                      *)
(***************************************************************************)

MatchRecord == [offset : Nat, start : Nat, end : Nat]

\* Every match is an occurrence before searchFrom, with its context.
Reported ==
    \A i \in DOMAIN matches :
        /\ matches[i].offset \in Occurrences
        /\ matches[i].offset + size <= searchFrom
        /\ ContextOK(matches[i])

\* No two matches overlap.
Apart ==
    \A i, j \in DOMAIN matches : i < j => matches[i].offset + size <= matches[j].offset

\* No occurrence has been passed over that does not overlap a match.
Covered ==
    \A o \in Occurrences : o < searchFrom =>
        \E i \in DOMAIN matches : matches[i].offset <= o /\ o < matches[i].offset + size

Searching ==
    /\ SearchTypeOK
    /\ searchPc \in {"searching", "done"} => validSearch /\ Len(matches) <= maxMatches
    /\ searchPc \in {"called", "failed"} => matches = <<>> /\ searchFrom = 0
    /\ Reported /\ Apart /\ Covered
    /\ searchPc = "done" => over /\ (searchLimited <=> Found # {})

LEMMA Accepting ==
    ASSUME Searching, validSearch
    PROVE  Accepted
BY SearchAssumption DEF Searching, SearchTypeOK, Accepted

LEMMA SearchingInit == SearchInit => Searching
<1> SUFFICES ASSUME SearchInit PROVE Searching
    OBVIOUS
<1>1. SearchTypeOK
  <2>1. matches \in Seq([offset : Nat, start : Nat, end : Nat]) /\ Len(matches) = 0
      BY DEF SearchInit
  <2>2. 0 <= maxSearchMatches
      BY SearchAssumption
  <2> QED
      BY <2>1, <2>2 DEF SearchInit, SearchTypeOK
<1>2. \A o \in Occurrences : ~ (o < 0)
    BY DEF Occurrences
<1> QED
    BY <1>1, <1>2 DEF SearchInit, Searching, Reported, Apart, Covered

\* A step that leaves the matches alone.
LEMMA SearchingKept ==
    ASSUME Searching, UNCHANGED <<body, searchInput, searchFrom, matches>>,
           searchPc' \in {"called", "searching", "done", "failed"}, searchLimited' \in BOOLEAN,
           searchPc' \in {"searching", "done"} => validSearch /\ Len(matches) <= maxMatches,
           searchPc' \in {"called", "failed"} => matches = <<>> /\ searchFrom = 0,
           searchPc' = "done" => over /\ (searchLimited' <=> Found # {})
    PROVE  Searching'
<1>1. /\ validSearch' = validSearch /\ maxMatches' = maxMatches
      /\ Occurrences' = Occurrences /\ Found' = Found /\ over' = over
    BY DEF validSearch, maxMatches, contextBytes, Occurrences, folded, size, Found, over, full
<1>2. Reported' /\ Apart' /\ Covered'
    BY <1>1 DEF Searching, Reported, Apart, Covered, ContextOK, contextBytes, size
<1>3. SearchTypeOK'
    BY DEF Searching, SearchTypeOK
<1> QED
    BY <1>1, <1>2, <1>3 DEF Searching

LEMMA NextIsLeast ==
    ASSUME Accepted, Found # {}
    PROVE  next \in Found /\ \A o \in Found : next <= o
<1>1. Found \subseteq Nat
    BY OccurrenceBytes DEF Found
<1> QED
    BY <1>1, LeastExists DEF next

LEMMA SearchingMatch == Searching /\ Match => Searching'
<1> SUFFICES ASSUME Searching, Match PROVE Searching'
    OBVIOUS
<1> DEFINE m == [offset |-> next, start |-> windowStart(next), end |-> windowEnd(next)]
<1>1. Accepted /\ validSearch /\ Found # {} /\ Len(matches) <= maxMatches
      /\ Len(matches) # maxMatches
    BY Accepting DEF Match, Searching, full
<1>2. next \in Occurrences /\ searchFrom <= next /\ \A o \in Found : next <= o
    BY <1>1, NextIsLeast DEF Found
<1>3. next \in Nat /\ size \in Nat \ {0} /\ \A o \in Occurrences : o \in Nat
    BY <1>1, <1>2, OccurrenceBytes
<1>4. m \in MatchRecord /\ m.offset = next /\ ContextOK(m)
    BY <1>1, <1>2, MatchOK DEF MatchRecord
<1>5. /\ matches' = Append(matches, m) /\ searchFrom' = next + size
      /\ UNCHANGED <<searchPc, body, searchInput, searchLimited>> /\ searchPc = "searching"
    BY DEF Match, pastMatch
<1> HIDE DEF m
<1>6. matches \in Seq(MatchRecord) /\ Len(matches) \in Nat /\ searchFrom \in Nat
      /\ maxMatches \in Nat /\ maxMatches <= maxSearchMatches /\ maxSearchMatches \in Nat
    BY <1>1, LenProperties, SearchAssumption DEF Searching, SearchTypeOK, MatchRecord, validSearch
<1>7. /\ matches' \in Seq(MatchRecord) /\ Len(matches') = Len(matches) + 1
      /\ DOMAIN matches' = 1 .. Len(matches) + 1 /\ DOMAIN matches = 1 .. Len(matches)
      /\ \A i \in 1 .. Len(matches) : matches'[i] = matches[i]
      /\ matches'[Len(matches) + 1] = m
    BY <1>4, <1>5, <1>6, AppendProperties, LenProperties
<1>8. /\ validSearch' = validSearch /\ maxMatches' = maxMatches
      /\ Occurrences' = Occurrences /\ size' = size
      /\ \A x : ContextOK(x)' = ContextOK(x)
    BY <1>5 DEF validSearch, maxMatches, contextBytes, Occurrences, folded, size, ContextOK
<1>9. Len(matches') <= maxMatches
  <2>1. \A k, n \in Nat : k <= n /\ k # n => k + 1 <= n
      OBVIOUS
  <2>2. Len(matches) + 1 <= maxMatches
      BY <1>1, <1>6, <2>1
  <2> QED
      BY <1>7, <2>2
<1>10. SearchTypeOK'
  <2>1. searchFrom' \in Nat
      BY <1>3, <1>5
  <2>2. Len(matches') <= maxSearchMatches
      BY <1>6, <1>7, <1>9
  <2> QED
      BY <1>5, <1>7, <2>1, <2>2 DEF Searching, SearchTypeOK, MatchRecord
<1>11. \A i \in 1 .. Len(matches) : /\ matches[i].offset \in Occurrences
                                    /\ matches[i].offset + size <= next
                                    /\ matches[i].offset + size <= next + size
                                    /\ ContextOK(matches[i])
  <2> SUFFICES ASSUME NEW i \in 1 .. Len(matches)
               PROVE  /\ matches[i].offset \in Occurrences
                      /\ matches[i].offset + size <= next
                      /\ matches[i].offset + size <= next + size
                      /\ ContextOK(matches[i])
      OBVIOUS
  <2>1. /\ matches[i].offset \in Occurrences
        /\ matches[i].offset + size <= searchFrom
        /\ ContextOK(matches[i])
      BY <1>7 DEF Searching, Reported
  <2>2. matches[i].offset \in Nat
      BY <1>3, <2>1
  <2> QED
      BY <1>2, <1>3, <1>6, <2>1, <2>2
<1>12. Reported'
  <2> SUFFICES ASSUME NEW i \in 1 .. Len(matches) + 1
               PROVE  /\ matches'[i].offset \in Occurrences
                      /\ matches'[i].offset + size <= next + size
                      /\ ContextOK(matches'[i])
      BY <1>5, <1>7, <1>8 DEF Reported
  <2>1. CASE i \in 1 .. Len(matches)
      BY <1>7, <1>11, <2>1
  <2>2. CASE i = Len(matches) + 1
      BY <1>2, <1>3, <1>4, <1>7, <2>2
  <2> QED
      BY <1>6, <2>1, <2>2
<1>13. Apart'
  <2> SUFFICES ASSUME NEW i \in 1 .. Len(matches) + 1, NEW j \in 1 .. Len(matches) + 1, i < j
               PROVE  matches'[i].offset + size <= matches'[j].offset
      BY <1>7, <1>8 DEF Apart
  <2>1. i \in 1 .. Len(matches)
      BY <1>6
  <2>2. CASE j \in 1 .. Len(matches)
      BY <1>7, <2>1, <2>2 DEF Searching, Apart
  <2>3. CASE j = Len(matches) + 1
      BY <1>4, <1>7, <1>11, <2>1, <2>3
  <2> QED
      BY <1>6, <2>2, <2>3
<1>14. Covered'
  <2> SUFFICES ASSUME NEW o \in Occurrences, o < next + size
               PROVE  \E i \in 1 .. Len(matches) + 1 :
                         matches'[i].offset <= o /\ o < matches'[i].offset + size
      BY <1>5, <1>7, <1>8 DEF Covered
  <2>1. CASE o < searchFrom
    <3>1. PICK i \in 1 .. Len(matches) : matches[i].offset <= o /\ o < matches[i].offset + size
        BY <1>7, <2>1 DEF Searching, Covered
    <3> QED
        BY <1>6, <1>7, <3>1
  <2>2. CASE o >= searchFrom
    <3>1. next <= o
        BY <1>2, <2>2 DEF Found
    <3> QED
        BY <1>4, <1>6, <1>7, <3>1
  <2> QED
      BY <1>3, <1>6, <2>1, <2>2
<1> QED
    BY <1>1, <1>5, <1>8, <1>9, <1>10, <1>12, <1>13, <1>14 DEF Searching

\* Every step of the loop keeps what has been found true.
THEOREM SearchingInvariance == SearchSpec => []Searching
<1>1. Searching /\ [SearchNext]_searchVars => Searching'
  <2> SUFFICES ASSUME Searching, [SearchNext]_searchVars PROVE Searching'
      OBVIOUS
  <2>1. CASE Begin
    <3>1. /\ UNCHANGED <<body, searchInput, searchFrom, matches, searchLimited>> /\ matches = <<>>
          /\ searchFrom = 0 /\ searchLimited \in BOOLEAN
          /\ searchPc' = IF validSearch THEN "searching" ELSE "failed"
        BY <2>1 DEF Begin, Searching, SearchTypeOK
    <3>2. validSearch => Len(matches) <= maxMatches
        BY <3>1, SearchAssumption DEF validSearch
    <3> QED
        BY <3>1, <3>2, SearchingKept
  <2>2. CASE Match
      BY <2>2, SearchingMatch
  <2>3. CASE End
    <3>1. /\ UNCHANGED <<body, searchInput, searchFrom, matches>> /\ searchPc' = "done" /\ searchPc = "searching"
          /\ over /\ searchLimited' = (Found # {})
        BY <2>3 DEF End, limitedWhenFound
    <3>2. validSearch /\ Len(matches) <= maxMatches /\ searchLimited' \in BOOLEAN
        BY <3>1 DEF Searching
    <3> QED
        BY <3>1, <3>2, SearchingKept
  <2>4. CASE UNCHANGED searchVars
    <3>1. UNCHANGED <<body, searchInput, searchFrom, matches, searchPc, searchLimited>>
        BY <2>4 DEF searchVars
    <3> QED
        BY <3>1, SearchingKept DEF Searching, SearchTypeOK
  <2> QED
      BY <2>1, <2>2, <2>3, <2>4 DEF SearchNext
<1> QED
    BY <1>1, SearchingInit, PTL DEF SearchSpec

\* The matches are those a reader marks from left to right, as many as were
\* asked for, and the result is limited iff there is another.
THEOREM MatchesLeftmost == SearchSpec => []LeftmostMatches
<1>1. Searching => LeftmostMatches
  <2> SUFFICES ASSUME Searching, searchPc = "done" PROVE LeftmostMatches
      BY DEF LeftmostMatches, SearchDone
  <2>1. Accepted /\ Len(matches) <= maxMatches /\ (Found = {} \/ full) /\ (searchLimited <=> Found # {})
      BY Accepting DEF Searching, over
  <2>2. searchFrom \in Nat /\ size \in Nat /\ (Occurrences # {} => size \in Nat \ {0})
        /\ \A o \in Occurrences : o \in Nat
      BY <2>1, OccurrenceBytes, LenProperties DEF Searching, SearchTypeOK, Accepted, size
  <2>3. Offsets \subseteq Occurrences /\ \A m \in Offsets : m + size <= searchFrom
      BY DEF Searching, Reported, Offsets
  <2>4. \A i, j \in DOMAIN matches : i < j => matches[i].offset + size <= matches[j].offset
      BY DEF Searching, Apart
  <2>5. ASSUME NEW o \in Occurrences \ Offsets
        PROVE  \/ \E m \in Offsets : m < o /\ o < m + size
               \/ searchLimited /\ \A m \in Offsets : m + size <= o
    <3>1. CASE o < searchFrom
      <4>1. PICK i \in DOMAIN matches : matches[i].offset <= o /\ o < matches[i].offset + size
          BY <3>1 DEF Searching, Covered
      <4>2. matches[i].offset \in Offsets /\ matches[i].offset # o
          BY DEF Offsets
      <4>3. matches[i].offset \in Nat /\ o \in Nat
          BY <2>2, <2>3, <4>2
      <4> QED
          BY <4>1, <4>2, <4>3
    <3>2. CASE o >= searchFrom
      <4>1. o \in Found
          BY <3>2 DEF Found
      <4>2. \A m \in Offsets : m \in Nat
          BY <2>2, <2>3
      <4> QED
          BY <2>1, <2>2, <2>3, <3>2, <4>1, <4>2
    <3> QED
        BY <2>2, <3>1, <3>2
  <2>6. searchLimited => \E o \in Occurrences : \A m \in Offsets : m + size <= o
    <3> SUFFICES ASSUME searchLimited PROVE \E o \in Occurrences : \A m \in Offsets : m + size <= o
        OBVIOUS
    <3>1. PICK o \in Found : o \in Occurrences /\ searchFrom <= o
        BY <2>1 DEF Found
    <3>2. \A m \in Offsets : m \in Nat
        BY <2>2, <2>3
    <3> QED
        BY <2>2, <2>3, <3>1, <3>2
  <2>7. searchLimited => Len(matches) = maxMatches
      BY <2>1 DEF full
  <2> QED
      BY <2>1, <2>3, <2>4, <2>5, <2>6, <2>7 DEF LeftmostMatches
<1> QED
    BY <1>1, SearchingInvariance, PTL

\* Every context is text around its match, no wider than was asked for but for
\* the rest of a rune at either end, and the match reads like the query.
THEOREM ContextsAreText == SearchSpec => []ContextIsText
<1>1. Searching => ContextIsText
    BY DEF Searching, Reported, ContextOK, ContextIsText
<1> QED
    BY <1>1, SearchingInvariance, PTL

\* The bytes still to be searched, and the steps to begin and to end.
Rank ==
    CASE searchPc = "called"    -> Len(body) + 2
      [] searchPc = "searching" -> Len(body) + 1 - searchFrom
      [] OTHER            -> 0

\* A match ends behind searchFrom, and within the body.
LEMMA MatchWithin ==
    ASSUME Searching, Match
    PROVE  searchFrom' \in Nat /\ searchFrom < searchFrom' /\ searchFrom' <= Len(body)
<1>1. Accepted /\ Found # {} /\ searchFrom' = next + size
    BY Accepting DEF Match, pastMatch, Searching
<1>2. next \in 0 .. Len(body) - size /\ next >= searchFrom
    BY <1>1, NextIsLeast DEF Found, Occurrences
<1>3. Len(searchInput.query) \in 1 .. maxSearchQueryBytes /\ maxSearchQueryBytes \in Nat
    BY <1>1, SearchAssumption DEF Accepted, validSearch
<1>4. size \in Nat \ {0}
    BY <1>3 DEF size
<1>5. Len(body) \in Nat /\ searchFrom \in Nat
    BY SearchAssumption DEF Searching, SearchTypeOK
<1> HIDE DEF size
<1> QED
    BY <1>1, <1>2, <1>4, <1>5

\* The search stays within the body.
LEMMA Within == SearchSpec => [](searchFrom <= Len(body))
<1>1. SearchInit => searchFrom <= Len(body)
  <2> SUFFICES ASSUME SearchInit PROVE searchFrom <= Len(body)
      OBVIOUS
  <2>1. Len(body) \in Nat
      BY SearchAssumption DEF SearchInit
  <2> QED
      BY <2>1 DEF SearchInit
<1>2. Searching /\ searchFrom <= Len(body) /\ [SearchNext]_searchVars => (searchFrom <= Len(body))'
  <2> SUFFICES ASSUME Searching, searchFrom <= Len(body), [SearchNext]_searchVars
               PROVE  searchFrom' <= Len(body)'
      OBVIOUS
  <2>1. CASE UNCHANGED <<body, searchFrom>>
      BY <2>1
  <2>2. CASE Match
      BY <2>2, MatchWithin DEF Match
  <2> QED
      BY <2>1, <2>2 DEF SearchNext, Begin, End, searchVars
<1> QED
    BY <1>1, <1>2, SearchingInvariance, PTL DEF SearchSpec

\* A query that matches everywhere cannot keep a search going: every step takes
\* it nearer to its end, behind every match by a byte at least.
THEOREM Progress == SearchSpec => [][Rank' \in Nat /\ Rank' < Rank]_searchVars
<1>1. ASSUME Searching, searchFrom <= Len(body), SearchNext
      PROVE  Rank' \in Nat /\ Rank' < Rank
  <2>1. Len(body) \in Nat /\ searchFrom \in Nat /\ body' = body
      BY <1>1, SearchAssumption DEF Searching, SearchTypeOK, SearchNext, Begin, Match, End
  <2>2. CASE Begin
    <3>1. searchPc = "called" /\ searchFrom = 0 /\ searchFrom' = 0
        BY <1>1, <2>2 DEF Begin, Searching
    <3> QED
        BY <2>1, <2>2, <3>1 DEF Begin, Rank
  <2>3. CASE Match
    <3>1. Rank = Len(body) + 1 - searchFrom /\ Rank' = Len(body) + 1 - searchFrom'
        BY <2>1, <2>3 DEF Match, Rank
    <3>2. searchFrom' \in Nat /\ searchFrom < searchFrom' /\ searchFrom' <= Len(body)
        BY <1>1, <2>3, MatchWithin
    <3> QED
        BY <2>1, <3>1, <3>2
  <2>4. CASE End
      BY <1>1, <2>1, <2>4 DEF End, Rank
  <2> QED
      BY <1>1, <2>2, <2>3, <2>4 DEF SearchNext
<1> QED
    BY <1>1, SearchingInvariance, Within, PTL DEF SearchSpec
=============================================================================
