-------------------------- MODULE ExtractionProofs --------------------------
(***************************************************************************)
(* Theorems about Extraction: what an output says of its own size, its     *)
(* counts and its flags is true, for any queries, documents and limits.    *)
(*                                                                         *)
(* The sizes are sums over sequences and contain the digits of numbers.    *)
(* Both are recursive functions, which TLA+ defines with CHOOSE; the first *)
(* two sections show that the functions chosen exist and satisfy their     *)
(* recursion equations, and what the model needs of them.                  *)
(***************************************************************************)
EXTENDS Extraction, WellFoundedInduction, TLAPS

\* What replaces induction: a set of naturals that is not empty has a least
\* element, so there is a least counterexample to whatever is claimed.
LEMMA LeastExists ==
    ASSUME NEW S, S \subseteq Nat, S # {}
    PROVE  \E x \in S : \A y \in S : x <= y
<1>1. PICK x \in S : \A y \in S : <<y, x>> \notin OpToRel(<, Nat)
    BY NatLessThanWellFounded, WFMin
<1>2. \A y \in S : ~ (y < x)
    BY <1>1 DEF OpToRel
<1> QED
    BY <1>2

-----------------------------------------------------------------------------
(***************************************************************************)
(* The digits of a number.                                                 *)
(***************************************************************************)

\* The argument of the recursive call is smaller.
LEMMA Tenth == ASSUME NEW n \in Nat, n >= 10 PROVE n \div 10 \in 1 .. n - 1
OBVIOUS

\* g is the function "digits" on the numbers up to n.
Counts(g, n) ==
    /\ g \in [0 .. n -> Nat]
    /\ \A k \in 0 .. n : g[k] = IF k < 10 THEN 1 ELSE 1 + g[k \div 10]

\* There is such a function up to every n ...
LEMMA CountExists == \A n \in Nat : \E g : Counts(g, n)
<1> DEFINE Bad == {n \in Nat : ~ \E g : Counts(g, n)}
<1>1. SUFFICES ASSUME Bad # {} PROVE FALSE
    OBVIOUS
<1>2. PICK n \in Bad : \A m \in Bad : n <= m
    BY <1>1, LeastExists
<1>3. CASE n = 0
  <2>1. Counts([k \in 0 .. n |-> 1], n)
      BY <1>3 DEF Counts
  <2> QED
      BY <2>1
<1>4. CASE n # 0
  <2>1. PICK h : Counts(h, n - 1)
      BY <1>2, <1>4
  <2> DEFINE g == [k \in 0 .. n |-> IF k < n THEN h[k] ELSE IF n < 10 THEN 1 ELSE 1 + h[n \div 10]]
  <2>2. g \in [0 .. n -> Nat]
      BY <2>1, Tenth DEF Counts
  <2>3. ASSUME NEW k \in 0 .. n
        PROVE  g[k] = IF k < 10 THEN 1 ELSE 1 + g[k \div 10]
      BY <2>1, Tenth DEF Counts
  <2>4. Counts(g, n)
      BY <2>2, <2>3 DEF Counts
  <2> QED
      BY <2>4
<1> QED
    BY <1>2, <1>3, <1>4

\* ... and two of them agree where both are defined ...
LEMMA CountUnique ==
    ASSUME NEW n \in Nat, NEW m \in Nat, NEW g, NEW h, Counts(g, n), Counts(h, m)
    PROVE  \A k \in (0 .. n) \cap (0 .. m) : g[k] = h[k]
<1> DEFINE Bad == {k \in (0 .. n) \cap (0 .. m) : g[k] # h[k]}
<1>1. SUFFICES ASSUME Bad # {} PROVE FALSE
    OBVIOUS
<1>2. PICK k \in Bad : \A i \in Bad : k <= i
  <2>1. Bad \subseteq Nat
      OBVIOUS
  <2> QED
      BY <1>1, <2>1, LeastExists
<1>3. CASE k < 10
    BY <1>3 DEF Counts
<1>4. CASE k >= 10
  <2>1. k \div 10 \notin Bad /\ k \div 10 \in (0 .. n) \cap (0 .. m)
      BY <1>2, <1>4, Tenth
  <2> QED
      BY <2>1, <1>4 DEF Counts
<1> QED
    BY <1>3, <1>4

\* ... so together they make the function that the definition of "digits" chooses.
LEMMA DigitsDef == 
    /\ digits \in [Nat -> Nat]
    /\ \A n \in Nat : digits[n] = IF n < 10 THEN 1 ELSE 1 + digits[n \div 10]
<1> DEFINE 
      c(n) == CHOOSE g : Counts(g, n)
      G == [n \in Nat |-> c(n)[n]]
      F(g) == [n \in Nat |-> IF n < 10 THEN 1 ELSE 1 + g[n \div 10]]
<1>1. \A n \in Nat : Counts(c(n), n)
    BY CountExists
<1>2. G \in [Nat -> Nat]
  <2>1. \A n \in Nat : c(n)[n] \in Nat
      BY <1>1 DEF Counts
  <2> QED
      BY <2>1
<1>3. ASSUME NEW n \in Nat
      PROVE  G[n] = IF n < 10 THEN 1 ELSE 1 + G[n \div 10]
  <2>1. c(n)[n] = IF n < 10 THEN 1 ELSE 1 + c(n)[n \div 10]
    <3>1. Counts(c(n), n) /\ n \in 0 .. n
        BY <1>1
    <3> HIDE DEF c
    <3> QED
        BY <3>1 DEF Counts
  <2>2. ASSUME n >= 10 PROVE c(n)[n \div 10] = c(n \div 10)[n \div 10]
    <3>1. n \div 10 \in Nat /\ n \div 10 \in (0 .. n) \cap (0 .. n \div 10)
        BY <2>2, Tenth
    <3> HIDE DEF c
    <3> QED
        BY <3>1, <1>1, CountUnique
  <2> HIDE DEF c
  <2> QED
      BY <2>1, <2>2, Tenth
<1>4. G = F(G)
  <2> HIDE DEF c
  <2>1. F(G) \in [Nat -> Nat]
      BY <1>2, <1>3 
  <2> QED
      BY <1>2, <1>3
<1>5. digits = F(digits)
  <2> HIDE DEF G
  <2>1. \E g : g = F(g)
      BY <1>4
  <2>2. digits = CHOOSE g : g = F(g)
      BY DEF digits
  <2> QED
      BY <2>1, <2>2
<1>6. \A n \in Nat : digits[n] = IF n < 10 THEN 1 ELSE 1 + digits[n \div 10]
    BY <1>5
<1>7. \A n \in Nat : digits[n] \in Nat
  <2> DEFINE Bad == {n \in Nat : digits[n] \notin Nat}
  <2>1. SUFFICES ASSUME Bad # {} PROVE FALSE
      OBVIOUS
  <2>2. PICK n \in Bad : \A m \in Bad : n <= m
    <3>1. Bad \subseteq Nat
        OBVIOUS
    <3> QED
        BY <2>1, <3>1, LeastExists
  <2> QED
      BY <1>6, <2>2, Tenth
<1> QED
    BY <1>5, <1>6, <1>7

LEMMA DigitsPositive == \A n \in Nat : digits[n] \in Nat \ {0}
BY DigitsDef, Tenth

LEMMA DigitsMonotone == \A m, n \in Nat : m <= n => digits[m] <= digits[n]
<1> DEFINE Bad == {n \in Nat : \E m \in Nat : m <= n /\ digits[m] > digits[n]}
<1>1. SUFFICES ASSUME Bad # {} PROVE FALSE
    BY DigitsDef
<1>2. PICK n \in Bad : \A k \in Bad : n <= k
    BY <1>1, LeastExists
<1>3. PICK m \in Nat : m <= n /\ digits[m] > digits[n]
    OBVIOUS
<1>4. CASE m < 10
    BY <1>3, <1>4, DigitsDef, DigitsPositive
<1>5. CASE m >= 10
  <2>1. /\ n \div 10 \in Nat /\ m \div 10 \in Nat /\ n \div 10 < n
        /\ m \div 10 <= n \div 10
      BY <1>3, <1>5
  <2>2. digits[m \div 10] <= digits[n \div 10]
      BY <1>2, <2>1, DigitsDef
  <2> QED
      BY <1>3, <1>5, <2>1, <2>2, DigitsDef
<1> QED
    BY <1>3, <1>4, <1>5

LEMMA DigitsTenfold == \A n \in Nat \ {0} : digits[10 * n] = digits[n] + 1
<1> SUFFICES ASSUME NEW n \in Nat \ {0} PROVE digits[10 * n] = digits[n] + 1
    OBVIOUS
<1>1. 10 * n \in Nat /\ 10 * n >= 10 /\ (10 * n) \div 10 = n
    OBVIOUS
<1> QED
    BY <1>1, DigitsDef

\* The digits of the counts of an output.
LEMMA DigitsOfCounts ==
    /\ \A n \in Nat : n <= 100 => digits[n] <= 3
    /\ \A n \in Nat : n <= 1600 => digits[n] <= 4
<1>1. digits[1] = 1
    BY DigitsDef
<1>2. digits[10] = 2 /\ digits[100] = 3 /\ digits[1000] = 4
  <2>1. digits[10 * 1] = 2 /\ digits[10 * 10] = digits[10] + 1 /\ digits[10 * 100] = digits[100] + 1
      BY <1>1, DigitsTenfold
  <2> QED
      BY <2>1
<1>3. digits[1600] = 4
  <2>1. 1600 \div 10 = 160 /\ 160 \div 10 = 16 /\ 16 \div 10 = 1
      OBVIOUS
  <2>2. digits[16] = 2 /\ digits[160] = 1 + digits[16] /\ digits[1600] = 1 + digits[160]
      BY <1>1, <2>1, DigitsDef
  <2> QED
      BY <2>2
<1>4. \A n \in Nat : n <= 100 => digits[n] <= digits[100]
    BY DigitsMonotone
<1>5. \A n \in Nat : n <= 1600 => digits[n] <= digits[1600]
    BY DigitsMonotone
<1> QED
    BY <1>2, <1>3, <1>4, <1>5
-----------------------------------------------------------------------------
(***************************************************************************)
(* Folds over sequences.                                                   *)
(***************************************************************************)

LEMMA MaxTop ==
    ASSUME NEW n \in Nat, NEW s \in SUBSET (1 .. n), n \in s
    PROVE  Max(s) = n
<1>1. n \in s /\ \A y \in s : n >= y
    OBVIOUS
<1>2. \A x \in s : (\A y \in s : x >= y) => x = n
    OBVIOUS
<1> QED
    BY <1>1, <1>2 DEF Max

\* g is the recursive function inside FoldLeft on the sets of indices up to n,
\* where step[i] adds the i-th element to what was made of those before it.
Folds(g, n, S, base, step) ==
    /\ g \in [SUBSET (1 .. n) -> S]
    /\ \A s \in SUBSET (1 .. n) :
          g[s] = IF s = {} THEN base ELSE step[Max(s)][g[s \ {Max(s)}]]

\* There is such a function.
LEMMA FoldExists ==
    ASSUME NEW n \in Nat, NEW S, NEW base \in S, NEW step \in [1 .. n -> [S -> S]]
    PROVE  \E g : Folds(g, n, S, base, step)
<1> DEFINE Bad == {m \in 0 .. n : ~ \E g : Folds(g, m, S, base, step)}
<1>1. SUFFICES ASSUME Bad # {} PROVE FALSE
    OBVIOUS
<1>2. PICK m \in Bad : \A i \in Bad : m <= i
  <2>1. Bad \subseteq Nat
      OBVIOUS
  <2> HIDE DEF Bad
  <2> QED
      BY <1>1, <2>1, LeastExists
<1>3. CASE m = 0
  <2>1. \A s \in SUBSET (1 .. m) : s = {}
      BY <1>3
  <2>2. Folds([s \in SUBSET (1 .. m) |-> base], m, S, base, step)
      BY <2>1 DEF Folds
  <2> QED
      BY <2>2
<1>4. CASE m # 0
  <2>1. m - 1 \in 0 .. n /\ m - 1 \notin Bad /\ m \in 1 .. n
      BY <1>2, <1>4
  <2>2. PICK h : Folds(h, m - 1, S, base, step)
      BY <2>1
  <2> DEFINE g == [s \in SUBSET (1 .. m) |-> IF m \in s THEN step[m][h[s \ {m}]] ELSE h[s]]
  <2>3. \A s \in SUBSET (1 .. m) : s \ {m} \in SUBSET (1 .. m - 1) 
      BY <2>1
  <2>4. g \in [SUBSET (1 .. m) -> S]
    <3>1. ASSUME NEW s \in SUBSET (1 .. m) 
          PROVE  (IF m \in s THEN step[m][h[s \ {m}]] ELSE h[s]) \in S
      <4>1. CASE m \in s
          BY <4>1, <2>1, <2>2, <2>3 DEF Folds
      <4>2. CASE m \notin s
        <5>1. s = s \ {m}
            BY <4>2
        <5> QED
            BY <5>1, <4>2, <2>2, <2>3 DEF Folds
      <4> QED
          BY <4>1, <4>2
    <3> QED
        BY <3>1
  <2>5. ASSUME NEW s \in SUBSET (1 .. m)
        PROVE  g[s] = IF s = {} THEN base ELSE step[Max(s)][g[s \ {Max(s)}]]
    <3>1. CASE m \in s
      <4>1. Max(s) = m
          BY <3>1, <2>1, MaxTop
      <4>2. g[s \ {m}] = h[s \ {m}]
          BY <2>3
      <4> QED
          BY <3>1, <4>1, <4>2
    <3>2. CASE m \notin s
      <4>1. s \in SUBSET (1 .. m - 1)
          BY <3>2, <2>3
      <4>2. h[s] = IF s = {} THEN base ELSE step[Max(s)][h[s \ {Max(s)}]]
          BY <4>1, <2>2 DEF Folds
      <4>3. g[s \ {Max(s)}] = h[s \ {Max(s)}]
          BY <3>2
      <4> QED
          BY <3>2, <4>2, <4>3
    <3> QED
        BY <3>1, <3>2
  <2>6. Folds(g, m, S, base, step)
    <3> HIDE DEF g
    <3> QED
      BY <2>4, <2>5 DEF Folds
  <2> QED
      BY <2>6
<1> QED
    BY <1>3, <1>4

LEMMA MaxIn ==
    ASSUME NEW n \in Nat, NEW s \in SUBSET (1 .. n), s # {}
    PROVE  Max(s) \in s /\ \A y \in s : y <= Max(s)
<1> DEFINE T == {n - x : x \in s}
<1>1. T \subseteq Nat /\ T # {}
  <2>1. \A x \in s : n - x \in Nat
      OBVIOUS
  <2> QED
      BY <2>1
<1>2. PICK t \in T : \A u \in T : t <= u
    BY <1>1, LeastExists
<1>3. PICK x \in s : t = n - x
    OBVIOUS
<1>4. ASSUME NEW y \in s PROVE x >= y
  <2>1. n - y \in T /\ x \in Nat /\ y \in Nat
      OBVIOUS
  <2> QED
      BY <1>2, <1>3, <2>1
<1>5. \A y \in s : y \in Nat
    OBVIOUS
<1>6. Max(s) \in s /\ \A y \in s : Max(s) >= y
    BY <1>4 DEF Max
<1> QED
    BY <1>5, <1>6

\* Total adds up the elements one by one.
LEMMA TotalDef ==
    ASSUME NEW seq \in Seq(Nat)
    PROVE  \E f \in [0 .. Len(seq) -> Nat] :
             /\ f[0] = 0
             /\ \A i \in 1 .. Len(seq) : f[i] = f[i - 1] + seq[i]
             /\ Total(seq) = f[Len(seq)]
<1> DEFINE n == Len(seq)
           F(g) == [s \in SUBSET (DOMAIN seq) |->
                       IF s = {} THEN 0 ELSE g[s \ {Max(s)}] + seq[Max(s)]]
           step == [i \in 1 .. n |-> [a \in Nat |-> a + seq[i]]]
           sum == CHOOSE g : g = F(g)
           f == [i \in 0 .. n |-> sum[1 .. i]]
<1>1. n \in Nat /\ DOMAIN seq = 1 .. n /\ \A i \in 1 .. n : seq[i] \in Nat
    OBVIOUS
<1>2. PICK h : Folds(h, n, Nat, 0, step)
  <2>1. step \in [1 .. n -> [Nat -> Nat]]
      BY <1>1
  <2> HIDE DEF step, n
  <2> QED
      BY <1>1, <2>1, FoldExists
<1>3. ASSUME NEW g, Folds(g, n, Nat, 0, step)
      PROVE  g = F(g)
  <2>1. ASSUME NEW s \in SUBSET (1 .. n), s # {}
        PROVE  g[s] = g[s \ {Max(s)}] + seq[Max(s)]
    <3>1. Max(s) \in 1 .. n
        BY <1>1, <2>1, MaxIn
    <3>2. g[s \ {Max(s)}] \in Nat
        BY <1>3 DEF Folds
    <3>3. g[s] = step[Max(s)][g[s \ {Max(s)}]]
        BY <1>3, <2>1 DEF Folds
    <3> QED
        BY <3>1, <3>2, <3>3
  <2>2. g \in [SUBSET (1 .. n) -> Nat] /\ g[{}] = 0
      BY <1>3 DEF Folds
  <2> HIDE DEF step
  <2> QED
      BY <1>1, <2>1, <2>2
<1>4. sum = F(sum)
  <2>1. h = F(h)
      BY <1>2, <1>3
  <2> HIDE DEF F
  <2> QED
      BY <2>1
<1>5. Total(seq) = sum[DOMAIN seq]
    BY DEF Total, FoldLeft, MapThenFoldSet
<1> HIDE DEF sum
<1>6. f[0] = 0
  <2>1. 1 .. 0 = {}
      OBVIOUS
  <2> QED
      BY <1>1, <1>4, <2>1
<1>7. \A i \in 1 .. n : f[i] = f[i - 1] + seq[i]
  <2> SUFFICES ASSUME NEW i \in 1 .. n PROVE f[i] = f[i - 1] + seq[i]
      OBVIOUS
  <2>1. /\ 1 .. i \in SUBSET (DOMAIN seq) /\ i \in 1 .. i /\ i \in Nat
        /\ (1 .. i) \ {i} = 1 .. i - 1 /\ i - 1 \in 0 .. n
    <3>1. i \in Nat /\ i >= 1 /\ i <= n
        BY <1>1
    <3> HIDE DEF n
    <3>2. (1 .. i) \ {i} = 1 .. i - 1
        BY <3>1
    <3> QED
        BY <1>1, <3>1, <3>2
  <2>2. Max(1 .. i) = i
      BY <2>1, MaxTop
  <2>3. sum[1 .. i] = sum[1 .. i - 1] + seq[i]
      BY <1>4, <2>1, <2>2
  <2> QED
      BY <2>1, <2>3
<1>8. f \in [0 .. n -> Nat]
  <2> DEFINE Bad == {i \in 0 .. n : f[i] \notin Nat}
  <2> HIDE DEF f
  <2>1. SUFFICES ASSUME Bad # {} PROVE FALSE
      BY DEF f
  <2>2. PICK i \in Bad : \A k \in Bad : i <= k
    <3>1. Bad \subseteq Nat
        OBVIOUS
    <3> QED
        BY <2>1, <3>1, LeastExists
  <2>3. i # 0
      BY <1>6
  <2>4. i - 1 \in 0 .. n /\ f[i - 1] \in Nat /\ i \in 1 .. n
      BY <2>2, <2>3
  <2> QED
      BY <1>1, <1>7, <2>4
<1>9. Total(seq) = f[n]
    BY <1>1, <1>5
<1> HIDE DEF f, n
<1> QED
    BY <1>6, <1>7, <1>8, <1>9 DEF n

LEMMA TotalIsNat == ASSUME NEW seq \in Seq(Nat) PROVE Total(seq) \in Nat
BY TotalDef

LEMMA TotalBound ==
    ASSUME NEW seq \in Seq(Nat), NEW c \in Nat, \A i \in 1 .. Len(seq) : seq[i] <= c
    PROVE  Total(seq) <= Len(seq) * c
<1>1. PICK f \in [0 .. Len(seq) -> Nat] :
          /\ f[0] = 0
          /\ \A i \in 1 .. Len(seq) : f[i] = f[i - 1] + seq[i]
          /\ Total(seq) = f[Len(seq)]
    BY TotalDef
<1> DEFINE Bad == {i \in 0 .. Len(seq) : f[i] > i * c}
<1>2. ASSUME Bad # {} PROVE FALSE
  <2>1. PICK i \in Bad : \A k \in Bad : i <= k
    <3>1. Bad \subseteq Nat
        OBVIOUS
    <3> HIDE DEF Bad
    <3> QED
        BY <1>2, <3>1, LeastExists
  <2>2. i # 0
      BY <1>1
  <2>3. i \in 1 .. Len(seq) /\ i - 1 \in 0 .. Len(seq) /\ i - 1 \notin Bad
      BY <2>1, <2>2
  <2>5. (i - 1) * c + c = i * c
      BY <2>3
  <2>6. f[i] \in Nat /\ f[i - 1] \in Nat /\ seq[i] \in Nat /\ i * c \in Nat /\ (i - 1) * c \in Nat
    <3>1. i \in 0 .. Len(seq) /\ i \in Nat /\ i - 1 \in Nat
        BY <2>3
    <3>2. f[i] \in Nat /\ f[i - 1] \in Nat
        BY <2>3, <3>1
    <3>3. seq[i] \in Nat
        BY <2>3
    <3>4. i * c \in Nat /\ (i - 1) * c \in Nat
        BY <3>1
    <3> QED
        BY <3>2, <3>3, <3>4
  <2>7. f[i] > i * c
      OBVIOUS
  <2>4. f[i] = f[i - 1] + seq[i] /\ f[i - 1] <= (i - 1) * c /\ seq[i] <= c
    <3>1. ~ (f[i - 1] > (i - 1) * c)
        BY <2>3
    <3> QED
        BY <1>1, <2>3, <2>6, <3>1
  <2> HIDE DEF Bad
  <2> QED
      BY <2>4, <2>5, <2>6, <2>7
<1>3. Len(seq) \notin Bad
    BY <1>2
<1> QED
    BY <1>1, <1>3

\* Two sequences that differ in one place differ in their sums by as much.
LEMMA TotalLess ==
    ASSUME NEW s \in Seq(Nat), NEW t \in Seq(Nat), Len(s) = Len(t), NEW k \in 1 .. Len(s),
           s[k] = t[k] + 1, \A i \in 1 .. Len(s) : i # k => s[i] = t[i]
    PROVE  Total(s) = Total(t) + 1
<1> DEFINE n == Len(s)
<1>1. PICK f \in [0 .. n -> Nat] :
          /\ f[0] = 0
          /\ \A i \in 1 .. n : f[i] = f[i - 1] + s[i]
          /\ Total(s) = f[n]
    BY TotalDef
<1>2. PICK g \in [0 .. n -> Nat] :
          /\ g[0] = 0
          /\ \A i \in 1 .. n : g[i] = g[i - 1] + t[i]
          /\ Total(t) = g[n]
    BY TotalDef
<1>3. n \in Nat /\ \A i \in 1 .. n : s[i] \in Nat /\ t[i] \in Nat
    OBVIOUS
<1> DEFINE d(i) == IF i < k THEN 0 ELSE 1
           Bad == {i \in 0 .. n : f[i] # g[i] + d(i)}
<1>4. ASSUME Bad # {} PROVE FALSE
  <2>1. PICK i \in Bad : \A j \in Bad : i <= j
    <3>1. Bad \subseteq Nat
        OBVIOUS
    <3> HIDE DEF Bad
    <3> QED
        BY <1>4, <3>1, LeastExists
  <2>2. i # 0
      BY <1>1, <1>2
  <2>3. i \in 1 .. n /\ i - 1 \in 0 .. n /\ i - 1 \notin Bad
      BY <1>3, <2>1, <2>2
  <2>4. f[i] = f[i - 1] + s[i] /\ g[i] = g[i - 1] + t[i]
      BY <1>1, <1>2, <2>3
  <2>5. f[i - 1] = g[i - 1] + d(i - 1) /\ f[i] # g[i] + d(i)
      BY <2>3
  <2>6. i \in Nat /\ k \in Nat
      BY <2>3
  <2>7. s[i] \in Nat /\ t[i] \in Nat
      BY <1>3, <2>3
  <2>8. d(i) \in Nat /\ d(i - 1) \in Nat
      OBVIOUS
  <2>9. s[i] + d(i - 1) = t[i] + d(i)
    <3>1. CASE i = k
      <4>1. s[i] = t[i] + 1
          BY <3>1
      <4>2. d(i) = 1 /\ d(i - 1) = 0
          BY <2>6, <3>1
      <4> HIDE DEF d
      <4> QED
          BY <2>7, <4>1, <4>2
    <3>2. CASE i # k
      <4>1. s[i] = t[i]
          BY <2>3, <3>2
      <4>2. d(i) = d(i - 1)
          BY <2>6, <3>2
      <4> HIDE DEF d
      <4> QED
          BY <4>1, <4>2
    <3> QED
        BY <3>1, <3>2
  <2> HIDE DEF Bad, n, d
  <2>10. f[i] \in Nat /\ f[i - 1] \in Nat /\ g[i] \in Nat /\ g[i - 1] \in Nat
    <3>1. i \in 0 .. n
        BY <2>3
    <3> QED
        BY <2>3, <3>1
  <2>11. g[i] + d(i) = g[i - 1] + d(i - 1) + s[i]
    <3> DEFINE gi == g[i]  g0 == g[i - 1]  si == s[i]  ti == t[i]  di == d(i)  d0 == d(i - 1)
    <3>1. gi \in Nat /\ g0 \in Nat /\ si \in Nat /\ ti \in Nat /\ di \in Nat /\ d0 \in Nat
        BY <2>7, <2>8, <2>10
    <3>2. gi = g0 + ti /\ si + d0 = ti + di
        BY <2>4, <2>9
    <3> HIDE DEF gi, g0, si, ti, di, d0
    <3>3. gi + di = g0 + d0 + si
        BY <3>1, <3>2
    <3> QED
        BY <3>3 DEF gi, g0, si, di, d0
  <2> QED
      BY <2>4, <2>5, <2>11
<1>5. n \notin Bad
    BY <1>4
<1> QED
    BY <1>1, <1>2, <1>3, <1>5

\* The nodes with the attribute are nodes of the document.
LEMMA ExtractableType == \A q \in Query : extractable(q) \in Seq(Node)
<1> SUFFICES ASSUME NEW q \in Query PROVE extractable(q) \in Seq(Node)
    OBVIOUS
<1> DEFINE seq == q.nodes
           n == Len(seq)
           F(g) == [s \in SUBSET (DOMAIN seq) |->
                      IF s = {} THEN <<>>
                      ELSE IF seq[Max(s)].kind = "bare" THEN g[s \ {Max(s)}]
                           ELSE Append(g[s \ {Max(s)}], seq[Max(s)])]
           step == [i \in 1 .. n |-> [a \in Seq(Node) |->
                      IF seq[i].kind = "bare" THEN a ELSE Append(a, seq[i])]]
           kept == CHOOSE g : g = F(g)
           f == [i \in 0 .. n |-> kept[1 .. i]]
<1>1. seq \in Seq(Node)
    BY ExtractionAssumption
<1>2. n \in Nat /\ DOMAIN seq = 1 .. n /\ \A i \in 1 .. n : seq[i] \in Node
    BY <1>1
<1>3. PICK h : Folds(h, n, Seq(Node), <<>>, step)
  <2>1. step \in [1 .. n -> [Seq(Node) -> Seq(Node)]]
    <3> HIDE DEF seq, n
    <3> QED
      BY <1>2
  <2>2. <<>> \in Seq(Node)
      OBVIOUS
  <2> HIDE DEF step, n
  <2> QED
      BY <1>2, <2>1, <2>2, FoldExists
<1>4. h = F(h)
  <2>1. ASSUME NEW s \in SUBSET (1 .. n), s # {}
        PROVE  h[s] = IF seq[Max(s)].kind = "bare" THEN h[s \ {Max(s)}]
                      ELSE Append(h[s \ {Max(s)}], seq[Max(s)])
    <3>1. Max(s) \in 1 .. n
        BY <1>2, <2>1, MaxIn
    <3>2. h[s \ {Max(s)}] \in Seq(Node)
        BY <1>3 DEF Folds
    <3>3. h[s] = step[Max(s)][h[s \ {Max(s)}]]
        BY <1>3, <2>1 DEF Folds
    <3> HIDE DEF seq, n
    <3> QED
        BY <3>1, <3>2, <3>3
  <2>2. h \in [SUBSET (1 .. n) -> Seq(Node)] /\ h[{}] = <<>>
      BY <1>3 DEF Folds
  <2> HIDE DEF step, seq, n
  <2> QED
      BY <1>2, <2>1, <2>2
<1>5. kept = F(kept)
  <2> HIDE DEF F
  <2> QED
      BY <1>4
<1>6. q.mode = "attribute" => extractable(q) = kept[DOMAIN seq]
    BY DEF extractable, FoldLeft, MapThenFoldSet
<1> HIDE DEF kept, step
<1>7. f[0] = <<>>
  <2>1. 1 .. 0 = {}
      OBVIOUS
  <2> QED
      BY <1>2, <1>5, <2>1
<1>8. \A i \in 1 .. n : f[i] = f[i - 1] \/ f[i] = Append(f[i - 1], seq[i])
  <2> SUFFICES ASSUME NEW i \in 1 .. n PROVE f[i] = f[i - 1] \/ f[i] = Append(f[i - 1], seq[i])
      OBVIOUS
  <2>1. /\ 1 .. i \in SUBSET (DOMAIN seq) /\ i \in 1 .. i /\ i \in Nat
        /\ (1 .. i) \ {i} = 1 .. i - 1 /\ i - 1 \in 0 .. n
    <3>1. i \in Nat /\ i >= 1 /\ i <= n
        BY <1>2
    <3> HIDE DEF n
    <3>2. (1 .. i) \ {i} = 1 .. i - 1
        BY <3>1
    <3> QED
        BY <1>2, <3>1, <3>2
  <2>2. Max(1 .. i) = i
      BY <2>1, MaxTop
  <2>3. \/ kept[1 .. i] = kept[1 .. i - 1]
        \/ kept[1 .. i] = Append(kept[1 .. i - 1], seq[i])
    <3> HIDE DEF n
    <3> QED
      BY <1>5, <2>1, <2>2
  <2> QED
      BY <2>1, <2>3
<1>9. \A i \in 0 .. n : f[i] \in Seq(Node)
  <2> DEFINE Bad == {i \in 0 .. n : f[i] \notin Seq(Node)}
  <2> HIDE DEF f, n, seq
  <2>1. SUFFICES ASSUME Bad # {} PROVE FALSE
      OBVIOUS
  <2>2. PICK i \in Bad : \A k \in Bad : i <= k
    <3>1. Bad \subseteq Nat
        BY <1>2
    <3> HIDE DEF Bad
    <3> QED
        BY <2>1, <3>1, LeastExists
  <2>3. f[i] \notin Seq(Node)
      OBVIOUS
  <2>4. i # 0
    <3>1. <<>> \in Seq(Node)
        OBVIOUS
    <3> QED
        BY <1>7, <2>3, <3>1
  <2>5. i - 1 \in 0 .. n /\ f[i - 1] \in Seq(Node) /\ i \in 1 .. n
      BY <1>2, <2>2, <2>4
  <2>6. seq[i] \in Node
      BY <1>2, <2>5
  <2>7. Append(f[i - 1], seq[i]) \in Seq(Node)
      BY <2>5, <2>6
  <2> QED
      BY <1>8, <2>3, <2>5, <2>7
<1>10. f[n] = kept[DOMAIN seq]
    BY <1>2
<1> HIDE DEF f, n, seq
<1>11. f[n] \in Seq(Node)
    BY <1>2, <1>9
<1> QED
    BY <1>1, <1>6, <1>10, <1>11 DEF extractable, seq

-----------------------------------------------------------------------------
(***************************************************************************)
(* The invariant.                                                          *)
(***************************************************************************)

Result == [values : Seq(0 .. MaxSize), limited : BOOLEAN, all : Seq(0 .. MaxSize)]

\* No output is as long as this.
Largest == 10000 * MaxSize

TypeInv ==
    /\ extractPc \in {"called", "measuring", "measured", "done", "failed"}
    /\ request \in Requests
    /\ results \in Seq(Result) /\ Len(results) <= maxExtractQueries
    /\ returned \in Nat /\ limited \in BOOLEAN
    /\ outputBytes \in 0 .. Largest /\ round \in 0 .. 3 /\ previous \in Int

Limits == resultLimit \in 1 .. maxExtractResults /\ permitted(outputLimit)

\* What a query returns is the beginning of what it matches, and its flag tells
\* whether there is more.
Selected ==
    \A i \in DOMAIN results :
        /\ Len(results[i].values) <= Granted(i)
        /\ \A k \in 1 .. Len(results[i].values) : results[i].values[k] = results[i].all[k]
        /\ results[i].limited <=> Len(results[i].values) < Len(results[i].all)

Counted ==
    /\ limited <=> \E i \in DOMAIN results : results[i].limited
    /\ returned = Total([i \in DOMAIN results |-> Len(results[i].values)])

\* A query that lost a value leaves none to a later query.
LastCut ==
    \A i \in Cut : \A j \in DOMAIN results : i < j => results[j].values = <<>>

\* The last value dropped did not fit.
NotInVain ==
    Cut # {} =>
        LET size == besides(OneMore, returned + 1,
                         \E i \in DOMAIN OneMore : OneMore[i].limited)
        IN  \E d \in 1 .. 20 : digits[size + d] = d /\ size + d > outputLimit

\* The length of the output without its own length.
Rest == besides(results, returned, limited)

\* The numbers that are marshalled, one after the other.  The first differs
\* from the body by the digits of an older number, the second by one of two
\* numbers of digits; the third or the fourth is the one before.
Settling ==
    /\ round = 0 => previous = -1
    /\ round >= 1 => previous = outputBytes /\ previous \in Rest + 1 .. Rest + 20
    /\ round >= 2 => previous \in {Rest + digits[Rest + 1], Rest + digits[Rest + 1] + 1}
    /\ round = 3 => previous = Rest + digits[previous]

Settled == previous = outputBytes /\ outputBytes = Rest + digits[outputBytes]

IInv ==
    /\ TypeInv
    /\ extractPc = "called" => outputBytes = 0 /\ round = 0 /\ previous = -1
    /\ extractPc \in {"measuring", "measured", "done"} =>
          Limits /\ Selected /\ Counted /\ LastCut /\ NotInVain
    /\ extractPc = "measuring" => Settling
    /\ extractPc \in {"measured", "done"} => Settled
    /\ extractPc = "done" => ~ tooLarge

-----------------------------------------------------------------------------
(***************************************************************************)
(* The size of an output.                                                  *)
(***************************************************************************)

LEMMA DigitsBounded == \A n \in 0 .. Largest : digits[n] \in 1 .. 19
<1> DEFINE Within(n, k) == n \in Nat \ {0} /\ digits[n] <= k
<1>1. ASSUME NEW n, NEW k \in Nat, Within(n, k) PROVE Within(10 * n, k + 1)
  <2>1. digits[n] \in Nat /\ digits[10 * n] = digits[n] + 1 /\ 10 * n \in Nat \ {0}
      BY <1>1, DigitsDef, DigitsTenfold
  <2> QED
      BY <1>1, <2>1
<1>2. Within(MaxSize, 15)
    BY SizeAssumption
<1> HIDE DEF Within
<1>3. Within(10 * (10 * MaxSize), 15 + 1 + 1)
    BY <1>1, <1>2
<1>4. Within(10 * (10 * (10 * (10 * MaxSize))), 15 + 1 + 1 + 1 + 1)
    BY <1>1, <1>3
<1>5. 10 * (10 * (10 * (10 * MaxSize))) = Largest /\ Largest \in Nat
    BY SizeAssumption DEF Largest
<1>6. digits[Largest] <= 19
    BY <1>4, <1>5 DEF Within
<1>7. ASSUME NEW n \in 0 .. Largest PROVE digits[n] \in 1 .. 19
  <2>1. digits[n] <= digits[Largest] /\ digits[n] \in Nat \ {0} /\ digits[Largest] \in Nat
      BY <1>5, <1>7, DigitsMonotone, DigitsPositive
  <2> QED
      BY <1>6, <2>1
<1> QED
    BY <1>7

\* The numbers that follow a body shortly have one of two numbers of digits.
LEMMA TwoLengths ==
    ASSUME NEW b \in Nat, b >= 5, NEW x \in b + 1 .. b + 20
    PROVE  digits[x] \in {digits[b + 1], digits[b + 1] + 1}
<1>1. /\ b + 1 \in Nat \ {0} /\ x \in Nat /\ 10 * (b + 1) \in Nat
      /\ b + 1 <= x /\ x <= 10 * (b + 1)
    OBVIOUS
<1>2. /\ digits[b + 1] <= digits[x] /\ digits[x] <= digits[10 * (b + 1)]
      /\ digits[10 * (b + 1)] = digits[b + 1] + 1
    BY <1>1, DigitsMonotone, DigitsTenfold
<1>3. digits[b + 1] \in Nat /\ digits[x] \in Nat
    BY <1>1, DigitsDef
<1> QED
    BY <1>2, <1>3

\* After two numbers with one of two lengths the third is the last: with a
\* longer number the next is no shorter, with a shorter one no longer.
LEMMA ThirdIsLast ==
    ASSUME NEW b \in Nat, b >= 5,
           NEW x \in b + 1 .. b + 20, NEW y \in b + 1 .. b + 20,
           x \in {b + digits[b + 1], b + digits[b + 1] + 1},
           y = b + digits[x], y # x
    PROVE  y = b + digits[y]
<1>1. /\ digits[x] \in {digits[b + 1], digits[b + 1] + 1}
      /\ digits[y] \in {digits[b + 1], digits[b + 1] + 1}
    BY TwoLengths
<1>2. digits[b + 1] \in Nat /\ digits[x] \in Nat /\ digits[y] \in Nat
    BY DigitsDef
<1>3. x <= y => digits[x] <= digits[y]
    BY DigitsMonotone
<1>4. y <= x => digits[y] <= digits[x]
    BY DigitsMonotone
<1> QED
    BY <1>1, <1>2, <1>3, <1>4

LEMMA ResultSizeBound ==
    ASSUME NEW r \in Result, Len(r.values) <= 100
    PROVE  resultSize(r) \in 0 .. 100 * MaxSize + 107
<1>1. r.values \in Seq(Nat) /\ \A i \in 1 .. Len(r.values) : r.values[i] <= MaxSize
    BY SizeAssumption DEF Result
<1>2. Total(r.values) \in Nat /\ Total(r.values) <= Len(r.values) * MaxSize
    BY <1>1, SizeAssumption, TotalIsNat, TotalBound
<1> DEFINE t == Total(r.values)
           n == Len(r.values)
           d == digits[n]
           g == flag(r.limited)
<1>3. n \in Nat /\ n <= 100
    BY <1>1
<1>4. t \in Nat /\ t <= n * MaxSize
    BY <1>2
<1>5. resultSize(r) = t + (IF n > 1 THEN n - 1 ELSE 0) + d + g
    BY DEF resultSize
<1>6. g \in 4 .. 5
    BY DEF flag
<1> HIDE DEF t, n, g
<1>7. d \in Nat /\ d <= 3
    BY <1>3, DigitsOfCounts, DigitsDef
<1> HIDE DEF d
<1>8. n * MaxSize <= 100 * MaxSize /\ n * MaxSize \in Nat
    BY <1>3, SizeAssumption
<1>9. t <= 100 * MaxSize
    BY <1>4, <1>8, SizeAssumption
<1> QED
    BY <1>3, <1>4, <1>5, <1>6, <1>7, <1>9, SizeAssumption

LEMMA MinLess ==
    ASSUME NEW m \in Nat, NEW n \in Nat
    PROVE  Min({m, n}) = IF m <= n THEN m ELSE n
<1> DEFINE x == IF m <= n THEN m ELSE n
<1>1. x \in {m, n} /\ \A y \in {m, n} : x <= y
    OBVIOUS
<1>2. \A z \in {m, n} : (\A y \in {m, n} : z <= y) => z = x
    OBVIOUS
<1> QED
    BY <1>1, <1>2 DEF Min

\* The body of an output: neither too small for its digits nor too large.
LEMMA RestBound ==
    ASSUME TypeInv, Limits, Selected, Counted
    PROVE  Rest \in Nat /\ Rest >= 5 /\ Rest + 20 <= Largest /\ returned <= 1600
<1>1. Len(results) \in Nat /\ Len(results) <= 16 /\ DOMAIN results = 1 .. Len(results)
  <2>1. /\ Len(results) \in Nat /\ DOMAIN results = 1 .. Len(results)
        /\ Len(results) <= maxExtractQueries
      BY DEF TypeInv
  <2>2. maxExtractQueries \in 1 .. 16
      BY ExtractionAssumption
  <2> QED
      BY <2>1, <2>2
<1>2. ASSUME NEW i \in DOMAIN results
      PROVE  /\ results[i] \in Result
             /\ Len(results[i].values) \in Nat /\ Len(results[i].values) <= 100
  <2>1. results[i] \in Result
      BY <1>1 DEF TypeInv
  <2>2. Len(results[i].values) \in Nat /\ Len(results[i].all) \in Nat
      BY <2>1 DEF Result
  <2>3. Len(results[i].values) <= Granted(i)
      BY DEF Selected
  <2>4. resultLimit \in 1 .. maxExtractResults /\ maxExtractResults \in 1 .. 100
      BY ExtractionAssumption DEF Limits
  <2>5. Granted(i) \in Nat /\ Granted(i) <= 100
      BY <2>2, <2>4, MinLess DEF Granted
  <2> HIDE DEF Granted
  <2> QED
      BY <2>1, <2>2, <2>3, <2>5
<1> DEFINE lens == [i \in DOMAIN results |-> Len(results[i].values)]
           parts == [i \in DOMAIN results |-> resultSize(results[i])]
<1>3. lens \in Seq(Nat) /\ Len(lens) = Len(results) /\ \A i \in 1 .. Len(lens) : lens[i] <= 100
  <2>1. /\ \A i \in 1 .. Len(results) :
              Len(results[i].values) \in Nat /\ Len(results[i].values) <= 100
        /\ Len(results) \in Nat
      BY <1>1, <1>2
  <2>2. lens = [i \in 1 .. Len(results) |-> Len(results[i].values)]
      BY <1>1
  <2> QED
      BY <2>1, <2>2
<1>4. returned \in Nat /\ returned <= 1600
  <2>1. returned = Total(lens)
      BY DEF Counted
  <2> HIDE DEF lens
  <2>2. Total(lens) \in Nat /\ Total(lens) <= Len(lens) * 100
      BY <1>3, TotalIsNat, TotalBound
  <2> DEFINE n == Len(lens)
             t == Total(lens)
  <2>4. n \in Nat /\ n <= 16 /\ t \in Nat /\ t <= n * 100 /\ returned = t
      BY <1>1, <1>3, <2>1, <2>2
  <2> HIDE DEF n, t
  <2> QED
      BY <2>4
<1>5. /\ parts \in Seq(Nat) /\ Len(parts) = Len(results)
      /\ \A i \in 1 .. Len(parts) : parts[i] <= 100 * MaxSize + 107
  <2>1. ASSUME NEW i \in DOMAIN results
        PROVE  resultSize(results[i]) \in 0 .. 100 * MaxSize + 107
    <3>1. results[i] \in Result /\ Len(results[i].values) <= 100
        BY <1>2
    <3> QED
        BY <3>1, ResultSizeBound
  <2>2. parts = [i \in 1 .. Len(results) |-> resultSize(results[i])] /\ Len(results) \in Nat
      BY <1>1
  <2>3. \A i \in 1 .. Len(results) :
            resultSize(results[i]) \in Nat /\ resultSize(results[i]) <= 100 * MaxSize + 107
      BY <1>1, <2>1, SizeAssumption
  <2> QED
      BY <2>2, <2>3
<1>6. Total(parts) \in Nat /\ Total(parts) <= 1600 * MaxSize + 1712
  <2> HIDE DEF parts
  <2> DEFINE c == 100 * MaxSize + 107
             n == Len(parts)
  <2>1. c \in Nat /\ n \in Nat /\ n <= 16
    <3>1. n \in Nat /\ n <= 16
        BY <1>1, <1>5
    <3> HIDE DEF n
    <3> QED
        BY <3>1, SizeAssumption
  <2>2. Total(parts) \in Nat /\ Total(parts) <= n * c
      BY <1>5, <2>1, TotalIsNat, TotalBound
  <2>3. n * c <= 16 * c /\ n * c \in Nat
    <3> HIDE DEF c, n
    <3> QED
      BY <2>1
  <2>4. 16 * c = 1600 * MaxSize + 1712
      BY SizeAssumption
  <2> HIDE DEF c, n
  <2> QED
      BY <2>1, <2>2, <2>3, <2>4, SizeAssumption
<1>7. digits[returned] \in 1 .. 4
  <2>1. digits[returned] \in Nat \ {0} /\ digits[returned] <= 4
      BY <1>4, DigitsOfCounts, DigitsPositive
  <2> QED
      BY <2>1
<1>8. flag(limited) \in 4 .. 5
    BY DEF flag
<1>9. request.metadata \in 0 .. MaxSize
    BY ExtractionAssumption DEF TypeInv, Requests
<1>10. Rest = request.metadata + Total(parts) + digits[returned] + flag(limited)
    BY DEF Rest, besides
<1> HIDE DEF parts
<1> QED
    BY <1>4, <1>6, <1>7, <1>8, <1>9, <1>10, SizeAssumption DEF Largest

-----------------------------------------------------------------------------
(***************************************************************************)
(* The steps.                                                              *)
(***************************************************************************)

Answer == <<request, results, returned, limited>>

LEMMA SameAnswer ==
    ASSUME UNCHANGED Answer
    PROVE  /\ Rest' = Rest /\ outputLimit' = outputLimit /\ resultLimit' = resultLimit
           /\ Limits' = Limits /\ Selected' = Selected /\ Counted' = Counted
           /\ LastCut' = LastCut /\ NotInVain' = NotInVain
<1>1. /\ outputLimit' = outputLimit /\ resultLimit' = resultLimit
      /\ \A res, count, lim : besides(res, count, lim)' = besides(res, count, lim)
    BY DEF Answer, outputLimit, resultLimit, besides
<1>2. \A i : Granted(i)' = Granted(i)
    BY <1>1 DEF Answer, Granted
<1>3. Cut' = Cut
    BY <1>2 DEF Answer, Cut
<1>4. OneMore' = OneMore
    BY <1>3 DEF Answer, OneMore
<1>5. Rest' = Rest /\ Limits' = Limits
    BY <1>1 DEF Answer, Rest, Limits
<1>6. Selected' = Selected
    BY <1>2 DEF Answer, Selected
<1>7. Counted' = Counted /\ LastCut' = LastCut
    BY <1>3 DEF Answer, Counted, LastCut
<1>8. NotInVain' = NotInVain
    BY <1>1, <1>3, <1>4 DEF Answer, NotInVain
<1> QED
    BY <1>1, <1>5, <1>6, <1>7, <1>8

\* A marshal of an output that is as long as the one before ends the loop, and
\* the fourth is.
LEMMA MeasureStep == IInv /\ Measure => IInv'
<1> SUFFICES ASSUME IInv, Measure PROVE IInv'
    OBVIOUS
<1>1. /\ TypeInv /\ Limits /\ Selected /\ Counted /\ LastCut /\ NotInVain /\ Settling
      /\ extractPc = "measuring" /\ round \in 0 .. 3 /\ UNCHANGED Answer
    BY DEF IInv, TypeInv, Measure, Answer
<1>2. Rest \in Nat /\ Rest >= 5 /\ Rest + 20 <= Largest
    BY <1>1, RestBound
<1>3. /\ Rest' = Rest /\ Limits' /\ Selected' /\ Counted' /\ LastCut' /\ NotInVain'
    BY <1>1, SameAnswer
<1> DEFINE size == Rest + digits[outputBytes]
<1>4. marshalled = size
    BY DEF marshalled, Rest
<1>5. digits[outputBytes] \in 1 .. 19 /\ outputBytes \in Nat
    BY <1>1, DigitsBounded DEF TypeInv, Largest
<1>6. size \in Rest + 1 .. Rest + 20 /\ size \in 0 .. Largest /\ size \in Nat
    BY <1>2, <1>5, SizeAssumption DEF Largest
<1>7. previous' = size
    BY <1>4 DEF Measure
<1>8. CASE settled
  <2>1. size = previous /\ round >= 1
      BY <1>1, <1>4, <1>6, <1>8 DEF settled, Settling
  <2>2. extractPc' = "measured" /\ UNCHANGED <<outputBytes, round>>
      BY <1>8 DEF Measure
  <2>3. previous = outputBytes
      BY <1>1, <2>1 DEF Settling
  <2>4. Settled'
      BY <1>3, <1>7, <2>1, <2>2, <2>3 DEF Settled
  <2>5. TypeInv'
      BY <1>1, <1>6, <1>7, <2>2 DEF TypeInv, Answer
  <2> QED
      BY <1>1, <1>3, <2>2, <2>4, <2>5 DEF IInv, Settling
<1>9. CASE ~ settled
  <2>1. outputBytes' = size /\ round' = round + 1 /\ extractPc' = "measuring" /\ size # previous
      BY <1>4, <1>9 DEF Measure, settled
  <2>2. round \in 0 .. 2
      BY <1>1, <2>1 DEF Settling
  <2>3. ASSUME round >= 1
        PROVE  size \in {Rest + digits[Rest + 1], Rest + digits[Rest + 1] + 1}
    <3>1. outputBytes \in Rest + 1 .. Rest + 20
        BY <1>1, <2>3 DEF Settling
    <3>2. digits[outputBytes] \in {digits[Rest + 1], digits[Rest + 1] + 1}
        BY <1>2, <3>1, TwoLengths
    <3>3. digits[Rest + 1] \in Nat
        BY <1>2, DigitsDef
    <3> QED
        BY <1>2, <3>2, <3>3
  <2>4. ASSUME round = 2
        PROVE  size = Rest + digits[size]
    <3>1. /\ outputBytes \in Rest + 1 .. Rest + 20 /\ outputBytes # size
          /\ outputBytes \in {Rest + digits[Rest + 1], Rest + digits[Rest + 1] + 1}
        BY <1>1, <2>1, <2>4 DEF Settling
    <3> HIDE DEF size
    <3>2. size = Rest + digits[outputBytes]
        BY DEF size
    <3> QED
        BY <1>2, <1>6, <3>1, <3>2, ThirdIsLast
  <2>5. Settling'
    <3> HIDE DEF size
    <3> QED
        BY <1>3, <1>6, <1>7, <2>1, <2>2, <2>3, <2>4 DEF Settling
  <2>6. TypeInv'
      BY <1>1, <1>6, <1>7, <2>1, <2>2 DEF TypeInv, Answer
  <2> QED
      BY <1>3, <2>1, <2>5, <2>6 DEF IInv
<1> QED
    BY <1>8, <1>9

LEMMA EndStep == IInv /\ (RejectRequest \/ Fit \/ TooSmall \/ UNCHANGED extractionVars) => IInv'
<1> SUFFICES ASSUME IInv, RejectRequest \/ Fit \/ TooSmall \/ UNCHANGED extractionVars PROVE IInv'
    OBVIOUS
<1>1. UNCHANGED Answer
    BY DEF RejectRequest, Fit, TooSmall, extractionVars, fitting, Answer
<1>2. CASE RejectRequest \/ TooSmall
    BY <1>2 DEF RejectRequest, TooSmall, fitting, IInv, TypeInv
<1>3. CASE Fit
  <2>1. /\ extractPc = "measured" /\ extractPc' = "done" /\ ~ tooLarge
        /\ outputBytes' = previous /\ UNCHANGED <<round, previous>>
      BY <1>3 DEF Fit
  <2>2. Settled' /\ outputBytes' = outputBytes
      BY <1>1, <2>1, SameAnswer DEF IInv, Settled
  <2>3. ~ tooLarge'
      BY <1>1, <2>1, SameAnswer DEF tooLarge
  <2>4. TypeInv'
      BY <1>1, <2>1, <2>2 DEF IInv, TypeInv, Answer
  <2> QED
      BY <1>1, <2>1, <2>2, <2>3, <2>4, SameAnswer DEF IInv
<1>4. CASE UNCHANGED extractionVars
  <2>1. UNCHANGED <<extractPc, outputBytes, round, previous>>
      BY <1>4 DEF extractionVars
  <2>2. TypeInv' /\ tooLarge' = tooLarge
      BY <1>1, <2>1, SameAnswer DEF IInv, TypeInv, Answer, tooLarge
  <2>3. Settling' = Settling /\ Settled' = Settled
      BY <1>1, <2>1, SameAnswer DEF Settling, Settled
  <2> QED
      BY <1>1, <2>1, <2>2, <2>3, SameAnswer DEF IInv
<1> QED
    BY <1>2, <1>3, <1>4

LEMMA SizesType ==
    ASSUME NEW nodes \in Seq(Node)
    PROVE  /\ sizes(nodes) \in Seq(0 .. MaxSize) /\ Len(sizes(nodes)) = Len(nodes)
           /\ \A k \in 1 .. Len(nodes) : sizes(nodes)[k] = nodes[k].size
<1>1. Len(nodes) \in Nat /\ DOMAIN nodes = 1 .. Len(nodes)
    OBVIOUS
<1>2. \A k \in 1 .. Len(nodes) : nodes[k].size \in 0 .. MaxSize
  <2>1. \A k \in 1 .. Len(nodes) : nodes[k] \in Node
      OBVIOUS
  <2> QED
      BY <2>1 DEF Node
<1>3. sizes(nodes) = [k \in 1 .. Len(nodes) |-> nodes[k].size]
    BY <1>1 DEF sizes
<1> DEFINE n == Len(nodes)
           s == [k \in 1 .. n |-> nodes[k].size]
<1>4. s \in Seq(0 .. MaxSize) /\ Len(s) = n
  <2>1. n \in Nat /\ \A k \in 1 .. n : nodes[k].size \in 0 .. MaxSize
      BY <1>1, <1>2
  <2> HIDE DEF n
  <2> QED
      BY <2>1
<1> QED
    BY <1>3, <1>4

\* What a query is granted: the first of its values, and a flag for the others.
LEMMA ExtractResult ==
    ASSUME NEW q \in Query, resultLimit \in Nat
    PROVE  LET r == extract(q)
           IN  /\ r \in Result
               /\ Len(r.values) = Min({resultLimit, Len(r.all)})
               /\ \A k \in 1 .. Len(r.values) : r.values[k] = r.all[k]
               /\ r.limited <=> Len(r.values) < Len(r.all)
<1> DEFINE all == extractable(q)
           m == Min({resultLimit, Len(all)})
<1>1. all \in Seq(Node) /\ Len(all) \in Nat
    BY ExtractableType
<1>2. m \in Nat /\ m <= Len(all) /\ (m < Len(all) <=> Len(all) > resultLimit)
    BY <1>1, MinLess
<1>3. taken(q) = SubSeq(all, 1, m)
    BY DEF taken, AtMost
<1> HIDE DEF all, m
<1>4. /\ taken(q) \in Seq(Node) /\ Len(taken(q)) = m
      /\ \A k \in 1 .. m : taken(q)[k] = all[k]
    BY <1>1, <1>2, <1>3
<1>5. /\ sizes(taken(q)) \in Seq(0 .. MaxSize) /\ Len(sizes(taken(q))) = m
      /\ \A k \in 1 .. m : sizes(taken(q))[k] = taken(q)[k].size
    BY <1>2, <1>4, SizesType
<1>6. /\ sizes(all) \in Seq(0 .. MaxSize) /\ Len(sizes(all)) = Len(all)
      /\ \A k \in 1 .. Len(all) : sizes(all)[k] = all[k].size
    BY <1>1, SizesType
<1>7. extract(q) = [values |-> sizes(taken(q)), limited |-> Len(all) > resultLimit,
                    all |-> sizes(all)]
    BY DEF extract, all
<1>8. extract(q) \in Result
  <2>1. (Len(all) > resultLimit) \in BOOLEAN
      OBVIOUS
  <2> QED
      BY <1>5, <1>6, <1>7, <2>1 DEF Result
<1>9. m = Min({resultLimit, Len(sizes(all))})
    BY <1>6 DEF m
<1>10. \A k \in 1 .. m : sizes(taken(q))[k] = sizes(all)[k]
    BY <1>1, <1>2, <1>4, <1>5, <1>6
<1> DEFINE r == extract(q)
<1>11. /\ r.values = sizes(taken(q)) /\ r.all = sizes(all)
       /\ r.limited = (Len(all) > resultLimit)
    BY <1>7
<1> HIDE DEF r
<1>12. /\ r \in Result
       /\ Len(r.values) = Min({resultLimit, Len(r.all)})
       /\ \A k \in 1 .. Len(r.values) : r.values[k] = r.all[k]
       /\ r.limited <=> Len(r.values) < Len(r.all)
    BY <1>2, <1>5, <1>6, <1>8, <1>9, <1>10, <1>11 DEF r
<1> QED
    BY <1>12 DEF r

LEMMA ExtractStep == IInv /\ Extract => IInv'
<1> SUFFICES ASSUME IInv, Extract PROVE IInv'
    OBVIOUS
<1> DEFINE queries == request.queries
           n == Len(queries)
<1>1. /\ extractPc = "called" /\ extractPc' = "measuring" /\ validArguments /\ TypeInv
      /\ UNCHANGED <<request, outputBytes, round, previous>>
      /\ outputBytes = 0 /\ round = 0 /\ previous = -1
    BY DEF Extract, IInv
<1>2. n \in Nat /\ n <= maxExtractQueries /\ DOMAIN queries = 1 .. n
      /\ \A i \in 1 .. n : queries[i] \in Query
  <2>1. PICK l \in 0 .. maxExtractQueries + 1 : queries \in [1 .. l -> Query]
      BY <1>1 DEF TypeInv, Requests
  <2>2. n = l /\ n \in Nat /\ n <= maxExtractQueries
      BY <1>1, <2>1, ExtractionAssumption DEF validArguments, validQueries
  <2> HIDE DEF n, queries
  <2> QED
      BY <2>1, <2>2
<1>3. Limits /\ resultLimit \in Nat
    BY <1>1, ExtractionAssumption DEF validArguments, Limits
<1>4. /\ outputLimit' = outputLimit /\ resultLimit' = resultLimit
    BY <1>1 DEF outputLimit, resultLimit
<1>5. results' = [i \in 1 .. n |-> extract(queries[i])]
    BY <1>2 DEF Extract
<1>6. ASSUME NEW i \in 1 .. n
      PROVE  /\ results'[i] \in Result
             /\ Len(results'[i].values) = Min({resultLimit, Len(results'[i].all)})
             /\ \A k \in 1 .. Len(results'[i].values) : results'[i].values[k] = results'[i].all[k]
             /\ results'[i].limited <=> Len(results'[i].values) < Len(results'[i].all)
  <2> HIDE DEF n, queries
  <2>1. results'[i] = extract(queries[i]) /\ queries[i] \in Query
      BY <1>2, <1>5
  <2> QED
      BY <1>3, <2>1, ExtractResult
<1> HIDE DEF n, queries
<1>7. results' \in Seq(Result) /\ Len(results') = n /\ DOMAIN results' = 1 .. n
  <2>1. /\ n \in Nat /\ results' = [i \in 1 .. n |-> extract(queries[i])]
        /\ \A i \in 1 .. n : extract(queries[i]) \in Result
      BY <1>2, <1>5, <1>6
  <2> QED
      BY <2>1
<1>8. \A i \in 1 .. n : /\ Len(results'[i].values) \in Nat
                        /\ Granted(i)' = Len(results'[i].values)
    BY <1>4, <1>6 DEF Result, Granted
<1>9. Cut' = {}
    BY <1>7, <1>8 DEF Cut
<1>10. Selected'
  <2>1. ASSUME NEW i \in 1 .. n
        PROVE  /\ Len(results'[i].values) <= Granted(i)'
               /\ \A k \in 1 .. Len(results'[i].values) :
                     results'[i].values[k] = results'[i].all[k]
               /\ results'[i].limited <=> Len(results'[i].values) < Len(results'[i].all)
    <3>1. Len(results'[i].values) \in Nat /\ Granted(i)' = Len(results'[i].values)
        BY <1>8
    <3>2. Len(results'[i].values) <= Granted(i)'
        BY <3>1
    <3> QED
        BY <1>6, <3>2
  <2> QED
      BY <1>7, <2>1 DEF Selected
<1>11. Counted'
    BY DEF Extract, Counted
<1>12. LastCut' /\ NotInVain'
    BY <1>9 DEF LastCut, NotInVain
<1>13. returned' \in Nat
  <2>1. [i \in DOMAIN results' |-> Len(results'[i].values)] \in Seq(Nat)
      BY <1>2, <1>7, <1>8
  <2>2. returned' = Total([i \in DOMAIN results' |-> Len(results'[i].values)])
      BY DEF Extract
  <2> QED
      BY <2>1, <2>2, TotalIsNat
<1>14. TypeInv'
  <2>1. limited' \in BOOLEAN
      BY DEF Extract
  <2> QED
      BY <1>1, <1>2, <1>7, <1>13, <2>1 DEF TypeInv
<1>15. Limits'
    BY <1>3, <1>4 DEF Limits, permitted
<1>16. Settling'
    BY <1>1 DEF Settling
<1> QED
    BY <1>1, <1>10, <1>11, <1>12, <1>14, <1>15, <1>16 DEF IInv

\* The last query that has a value: there is one as there are finitely many.
LEMMA LastFilled ==
    ASSUME TypeInv, Filled # {}
    PROVE  lastFilled \in Filled /\ \A j \in Filled : j <= lastFilled
<1> DEFINE n == Len(results)
<1>1. n \in Nat /\ Filled \in SUBSET (1 .. n)
    BY DEF TypeInv, Filled
<1>2. Max(Filled) \in Filled /\ \A j \in Filled : j <= Max(Filled)
  <2> HIDE DEF n
  <2> QED
      BY <1>1, MaxIn
<1> QED
    BY <1>2 DEF lastFilled

LEMMA FrontDef ==
    ASSUME NEW S, NEW s \in Seq(S), s # <<>>
    PROVE  /\ Front(s) \in Seq(S) /\ Len(Front(s)) = Len(s) - 1
           /\ \A j \in 1 .. Len(s) - 1 : Front(s)[j] = s[j]
<1>1. Len(s) \in Nat \ {0}
    OBVIOUS
<1> DEFINE m == Len(s) - 1
<1>2. m \in Nat /\ m <= Len(s)
    BY <1>1
<1>3. Front(s) = SubSeq(s, 1, m)
    BY DEF Front
<1> HIDE DEF m
<1>4. Front(s) \in Seq(S) /\ Len(Front(s)) = m /\ \A j \in 1 .. m : Front(s)[j] = s[j]
    BY <1>1, <1>2, <1>3
<1> QED
    BY <1>4 DEF m

\* What a dropped value leaves: of the last query that has one all values but
\* the last, of the others what there was.
LEMMA Dropped ==
    ASSUME TypeInv, Selected, Limits, Drop
    PROVE  LET k == lastFilled
               l == Len(results[k].values)
           IN  /\ k \in 1 .. Len(results) /\ l \in Nat \ {0}
               /\ results' \in Seq(Result) /\ Len(results') = Len(results)
               /\ Len(results'[k].values) = l - 1
               /\ \A j \in 1 .. l - 1 : results'[k].values[j] = results[k].values[j]
               /\ results'[k].limited = TRUE /\ results'[k].all = results[k].all
               /\ results' = [results EXCEPT ![k] = results'[k]]
               /\ \A i \in 1 .. Len(results) : i # k => results'[i] = results[i]
<1> DEFINE k == lastFilled
           n == Len(results)
           v == results[k].values
           l == Len(v)
<1>1. k \in Filled
    BY LastFilled DEF Drop
<1>2. n \in Nat /\ DOMAIN results = 1 .. n /\ k \in 1 .. n /\ results[k] \in Result /\ v # <<>>
    BY <1>1 DEF TypeInv, Filled
<1>3. v \in Seq(0 .. MaxSize)
    BY <1>2 DEF Result
<1>4. l \in Nat \ {0}
    BY <1>2, <1>3
<1>5. results' = [results EXCEPT ![k] = shortened(results[k])]
    BY DEF Drop
<1> HIDE DEF k, n, l
<1>6. /\ Front(v) \in Seq(0 .. MaxSize) /\ Len(Front(v)) = l - 1
      /\ \A j \in 1 .. l - 1 : Front(v)[j] = v[j]
  <2> HIDE DEF v
  <2>1. v \in Seq(0 .. MaxSize) /\ v # <<>>
      BY <1>2, <1>3
  <2> QED
      BY <2>1, FrontDef DEF l
<1>7. /\ shortened(results[k]).values = Front(v) /\ shortened(results[k]).limited = TRUE
      /\ shortened(results[k]).all = results[k].all /\ shortened(results[k]) \in Result
    BY <1>2, <1>6 DEF shortened, Result
<1>8. /\ results'[k] = shortened(results[k])
      /\ \A i \in 1 .. n : i # k => results'[i] = results[i]
      /\ results' = [results EXCEPT ![k] = results'[k]]
    BY <1>2, <1>5
<1>9. results' \in Seq(Result) /\ Len(results') = n
  <2>1. results \in Seq(Result) /\ Len(results) = n
      BY DEF TypeInv, n
  <2> QED
      BY <1>2, <1>5, <1>7, <2>1
<1> QED
    BY <1>2, <1>4, <1>6, <1>7, <1>8, <1>9 DEF k, n, l

\* The last value is dropped only if the output with it did not fit, and it is
\* the one that OneMore puts back.
LEMMA DropStep == IInv /\ Drop => IInv'
<1> SUFFICES ASSUME IInv, Drop PROVE IInv'
    OBVIOUS
<1> PICK k : k = lastFilled
    OBVIOUS
<1> DEFINE n == Len(results)
           l == Len(results[k].values)
<1>1. /\ extractPc = "measured" /\ extractPc' = "measuring" /\ tooLarge /\ Filled # {}
      /\ returned' = returned - 1 /\ limited' = TRUE /\ round' = 0 /\ previous' = -1
      /\ UNCHANGED <<request, outputBytes>>
    BY DEF Drop, returnedLess
<1>2. TypeInv /\ Limits /\ Selected /\ Counted /\ LastCut /\ NotInVain /\ Settled
    BY <1>1 DEF IInv
<1>3. /\ k \in 1 .. n /\ l \in Nat \ {0}
      /\ results' \in Seq(Result) /\ Len(results') = n
      /\ Len(results'[k].values) = l - 1
      /\ \A j \in 1 .. l - 1 : results'[k].values[j] = results[k].values[j]
      /\ results'[k].limited = TRUE /\ results'[k].all = results[k].all
      /\ results' = [results EXCEPT ![k] = results'[k]]
      /\ \A i \in 1 .. n : i # k => results'[i] = results[i]
    BY <1>2, Dropped
<1>4. k \in Filled /\ \A j \in Filled : j <= k
    BY <1>1, <1>2, LastFilled
<1>5. n \in Nat /\ DOMAIN results = 1 .. n /\ DOMAIN results' = 1 .. n
      /\ \A i \in 1 .. n : results[i] \in Result /\ results'[i] \in Result
  <2>1. results \in Seq(Result)
      BY <1>2 DEF TypeInv
  <2> QED
      BY <2>1, <1>3
<1>6. resultLimit' = resultLimit /\ outputLimit' = outputLimit
    BY <1>1 DEF resultLimit, outputLimit
<1> HIDE DEF l, n
<1>7. \A i \in 1 .. n : Granted(i)' = Granted(i)
    BY <1>3, <1>6 DEF Granted
<1>8. /\ l <= Granted(k) /\ Granted(k) \in Nat /\ Granted(k) <= Len(results[k].all)
      /\ Len(results[k].all) \in Nat
  <2>1. Len(results[k].all) \in Nat
      BY <1>3, <1>5 DEF Result
  <2>2. resultLimit \in Nat
      BY <1>2, ExtractionAssumption DEF Limits
  <2>3. Granted(k) \in Nat /\ Granted(k) <= Len(results[k].all)
      BY <2>1, <2>2, MinLess DEF Granted
  <2>4. l <= Granted(k)
      BY <1>2, <1>3, <1>5 DEF Selected, l
  <2> QED
      BY <2>1, <2>3, <2>4
<1>9. Selected'
  <2>1. ASSUME NEW i \in 1 .. n
        PROVE  /\ Len(results'[i].values) <= Granted(i)'
               /\ \A j \in 1 .. Len(results'[i].values) :
                     results'[i].values[j] = results'[i].all[j]
               /\ results'[i].limited <=> Len(results'[i].values) < Len(results'[i].all)
    <3>1. CASE i # k
      <4>1. results'[i] = results[i] /\ Granted(i)' = Granted(i) /\ i \in DOMAIN results
          BY <3>1, <1>3, <1>5, <1>7
      <4> QED
          BY <4>1, <1>2 DEF Selected
    <3>2. CASE i = k
      <4>1. \A j \in 1 .. l : results[k].values[j] = results[k].all[j]
          BY <1>2, <1>3, <1>5 DEF Selected, l
      <4>2. l - 1 <= Granted(k)' /\ l - 1 < Len(results'[k].all)
          BY <1>3, <1>7, <1>8
      <4>3. \A j \in 1 .. l - 1 : j \in 1 .. l
          BY <1>3
      <4>4. /\ Len(results'[k].values) = l - 1 /\ results'[k].limited = TRUE
            /\ \A j \in 1 .. l - 1 : results'[k].values[j] = results'[k].all[j]
          BY <4>1, <4>3, <1>3
      <4> QED
          BY <3>2, <4>2, <4>4
    <3> QED
        BY <3>1, <3>2
  <2> QED
      BY <1>5, <2>1 DEF Selected
<1> DEFINE lens == [i \in 1 .. n |-> Len(results[i].values)]
           left == [i \in 1 .. n |-> Len(results'[i].values)]
<1>10. /\ lens \in Seq(Nat) /\ Len(lens) = n /\ left \in Seq(Nat) /\ Len(left) = n
  <2>1. \A i \in 1 .. n : Len(results[i].values) \in Nat /\ Len(results'[i].values) \in Nat
      BY <1>5 DEF Result
  <2>2. lens \in [1 .. n -> Nat] /\ left \in [1 .. n -> Nat]
      BY <2>1
  <2>3. n \in Nat
      BY <1>5
  <2> HIDE DEF lens, left, n
  <2> QED
      BY <2>2, <2>3
<1>11. returned = Total(lens)
    BY <1>2, <1>5 DEF Counted
<1>12. Total(lens) = Total(left) + 1
  <2>1. lens[k] = left[k] + 1
      BY <1>3 DEF l
  <2>2. \A i \in 1 .. n : i # k => lens[i] = left[i]
      BY <1>3
  <2> HIDE DEF lens, left
  <2>3. k \in 1 .. Len(lens) /\ Len(lens) = Len(left)
      BY <1>3, <1>10
  <2>4. \A i \in 1 .. Len(lens) : i # k => lens[i] = left[i]
      BY <1>10, <2>2
  <2> QED
      BY <1>10, <2>1, <2>3, <2>4, TotalLess
<1>13. returned' = Total(left) /\ returned' \in Nat
  <2> HIDE DEF lens, left
  <2>1. Total(left) \in Nat
      BY <1>10, TotalIsNat
  <2> QED
      BY <1>1, <1>11, <1>12, <2>1
<1>14. Counted'
  <2>1. limited' <=> \E i \in DOMAIN results' : results'[i].limited
      BY <1>1, <1>3, <1>5
  <2>2. returned' = Total([i \in DOMAIN results' |-> Len(results'[i].values)])
      BY <1>5, <1>13
  <2> QED
      BY <2>1, <2>2 DEF Counted
<1> HIDE DEF lens, left
<1>15. \A i \in 1 .. n : i > k => results[i].values = <<>> /\ results'[i].values = <<>>
  <2> SUFFICES ASSUME NEW i \in 1 .. n, i > k
               PROVE  results[i].values = <<>> /\ results'[i].values = <<>>
      OBVIOUS
  <2>1. i \notin Filled /\ i # k
      BY <1>3, <1>4
  <2> QED
      BY <2>1, <1>3, <1>5 DEF Filled
<1>16. k \in Cut' /\ \A i \in Cut' : i \in 1 .. n /\ k <= i
  <2>1. k \in Cut'
      BY <1>3, <1>5, <1>7, <1>8 DEF Cut
  <2>2. ASSUME NEW i \in Cut', i < k PROVE FALSE
    <3>1. i \in 1 .. n /\ i # k
        BY <1>3, <1>5, <2>2 DEF Cut
    <3>2. i \in Cut
        BY <1>3, <1>5, <1>7, <3>1 DEF Cut
    <3>3. results[k].values = <<>>
        BY <1>2, <1>3, <1>5, <2>2, <3>2 DEF LastCut
    <3> QED
        BY <1>4, <3>3 DEF Filled
  <2>3. \A i \in Cut' : i \in 1 .. n
      BY <1>5 DEF Cut
  <2>4. \A i \in Cut' : k <= i
      BY <1>3, <2>2, <2>3
  <2> QED
      BY <2>1, <2>3, <2>4
<1>17. LastCut'
  <2>1. ASSUME NEW i \in Cut', NEW j \in 1 .. n, i < j
        PROVE  results'[j].values = <<>>
    <3>1. k <= i /\ i \in 1 .. n
        BY <1>16
    <3>2. j > k
        BY <1>3, <2>1, <3>1
    <3> QED
        BY <1>15, <3>2
  <2> QED
      BY <1>5, <2>1 DEF LastCut

<1>18. OneMore' = results
  <2> DEFINE first == CHOOSE i \in Cut' : \A j \in Cut' : i <= j
  <2>1. first = k
    <3>1. \A i \in Cut' : (\A j \in Cut' : i <= j) => i = k
        BY <1>3, <1>5, <1>16
    <3> QED
        BY <1>16, <3>1
  <2>2. OneMore' = [results' EXCEPT
                      ![k].values = SubSeq(results'[k].all, 1, Len(results'[k].values) + 1),
                      ![k].limited = Len(results'[k].values) + 1 < Len(results'[k].all)]
      BY <2>1 DEF OneMore
  <2>3. Len(results'[k].values) + 1 = l
      BY <1>3
  <2>4. SubSeq(results[k].all, 1, l) = results[k].values
    <3>1. results[k].all \in Seq(0 .. MaxSize) /\ results[k].values \in Seq(0 .. MaxSize)
        BY <1>3, <1>5 DEF Result
    <3>2. l \in Nat /\ l <= Len(results[k].all)
        BY <1>3, <1>8
    <3>3. \A j \in 1 .. l : results[k].values[j] = results[k].all[j]
        BY <1>2, <1>3, <1>5 DEF Selected, l
    <3>4. Len(results[k].values) = l
        BY DEF l
    <3> DEFINE a == results[k].all
               v == results[k].values
    <3> HIDE DEF a, v
    <3>5. SubSeq(a, 1, l) = v
        BY <3>1, <3>2, <3>3, <3>4 DEF a, v
    <3> QED
        BY <3>5 DEF a, v
  <2>5. results[k].limited = (l < Len(results[k].all))
    <3>1. results[k].limited <=> l < Len(results[k].all)
        BY <1>2, <1>3, <1>5 DEF Selected, l
    <3>2. results[k].limited \in BOOLEAN
        BY <1>3, <1>5 DEF Result
    <3> QED
        BY <3>1, <3>2
  <2>6. OneMore' = [results' EXCEPT ![k].values = results[k].values,
                                    ![k].limited = results[k].limited]
      BY <1>3, <2>2, <2>3, <2>4, <2>5
  <2>7. [results'[k] EXCEPT !.values = results[k].values, !.limited = results[k].limited]
           = results[k]
    <3>1. results'[k] \in Result /\ results[k] \in Result /\ results'[k].all = results[k].all
        BY <1>3, <1>5
    <3> QED
        BY <3>1 DEF Result
  <2>8. OneMore' = [results' EXCEPT ![k] = results[k]]
      BY <1>3, <1>5, <2>6, <2>7
  <2>9. results' = [i \in 1 .. n |-> results'[i]] /\ results = [i \in 1 .. n |-> results[i]]
    <3>1. results' \in Seq(Result) /\ results \in Seq(Result)
        BY <1>2, <1>3 DEF TypeInv
    <3> QED
        BY <1>5, <3>1
  <2> QED
      BY <1>3, <1>5, <2>8, <2>9
<1>19. NotInVain'
  <2>1. returned' + 1 = returned
      BY <1>1, <1>2 DEF TypeInv
  <2>2. (\E i \in DOMAIN results : results[i].limited) = limited
      BY <1>2 DEF Counted, TypeInv
  <2>3. besides(OneMore, returned + 1, \E i \in DOMAIN OneMore : OneMore[i].limited)' = Rest
      BY <1>1, <1>18, <2>1, <2>2 DEF besides, Rest
  <2> DEFINE d == digits[previous]
  <2>4. previous \in 0 .. Largest /\ previous = Rest + d
      BY <1>2 DEF TypeInv, Settled
  <2>5. d \in 1 .. 20 /\ digits[Rest + d] = d /\ Rest + d > outputLimit'
    <3>1. d \in 1 .. 19
        BY <2>4, DigitsBounded
    <3> QED
        BY <1>1, <1>6, <2>4, <3>1 DEF tooLarge
  <2> HIDE DEF d
  <2> QED
      BY <2>3, <2>5 DEF NotInVain
<1>20. TypeInv'
    BY <1>1, <1>2, <1>3, <1>13 DEF TypeInv, n
<1>21. Limits' /\ Settling'
    BY <1>1, <1>2, <1>6 DEF Limits, permitted, Settling
<1> QED
    BY <1>1, <1>9, <1>14, <1>17, <1>19, <1>20, <1>21 DEF IInv

LEMMA InitIInv == ExtractionInit => IInv
<1> SUFFICES ASSUME ExtractionInit PROVE IInv
    OBVIOUS
<1>1. 0 \in 0 .. Largest
    BY SizeAssumption DEF Largest
<1>2. results \in Seq(Result) /\ Len(results) <= maxExtractQueries
  <2>1. <<>> \in Seq(Result) /\ Len(<<>>) = 0
      OBVIOUS
  <2>2. 0 <= maxExtractQueries
      BY ExtractionAssumption
  <2> QED
      BY <2>1, <2>2 DEF ExtractionInit
<1>3. /\ extractPc \in {"called", "measuring", "measured", "done", "failed"} /\ request \in Requests
      /\ returned \in Nat /\ limited \in BOOLEAN
    BY DEF ExtractionInit
<1>4. outputBytes \in 0 .. Largest /\ round \in 0 .. 3 /\ previous \in Int
    BY <1>1 DEF ExtractionInit
<1>5. TypeInv
    BY <1>2, <1>3, <1>4 DEF TypeInv
<1> QED
    BY <1>5 DEF ExtractionInit, IInv

LEMMA NextIInv == IInv /\ [ExtractionNext]_extractionVars => IInv'
<1> SUFFICES ASSUME IInv, [ExtractionNext]_extractionVars PROVE IInv'
    OBVIOUS
<1>1. CASE Extract
    BY <1>1, ExtractStep
<1>2. CASE Measure
    BY <1>2, MeasureStep
<1>3. CASE Drop
    BY <1>3, DropStep
<1>4. CASE RejectRequest \/ Fit \/ TooSmall \/ UNCHANGED extractionVars
    BY <1>4, EndStep
<1> QED
    BY <1>1, <1>2, <1>3, <1>4 DEF ExtractionNext

\* Every state that an extraction reaches satisfies the inductive invariant.
THEOREM Invariance == ExtractionSpec => []IInv
<1>1. ExtractionInit => IInv
    BY InitIInv
<1>2. IInv /\ [ExtractionNext]_extractionVars => IInv'
    BY NextIInv
<1> QED
    BY <1>1, <1>2, PTL DEF ExtractionSpec

-----------------------------------------------------------------------------
(***************************************************************************)
(* The theorems.                                                           *)
(***************************************************************************)

\* What is returned has exactly the size it says and keeps to both limits
\* (extractionOutputSize, fitExtractionOutput), for any sizes of values.
THEOREM Exact == ExtractionSpec => []OutputExact
<1>1. IInv => OutputExact
  <2> SUFFICES ASSUME IInv, Done
               PROVE  /\ outputBytes = marshalled
                      /\ marshalled <= outputLimit /\ marshalled <= MaxReadBytes
                      /\ \A i \in DOMAIN results : Len(results[i].values) <= maxExtractResults
      BY DEF OutputExact
  <2>1. TypeInv /\ Limits /\ Selected /\ Settled /\ ~ tooLarge
      BY DEF Done, IInv
  <2>2. marshalled = outputBytes /\ previous = outputBytes /\ previous \in Int
      BY <2>1 DEF marshalled, Rest, Settled, TypeInv
  <2>3. previous <= outputLimit /\ outputLimit <= MaxReadBytes
      BY <2>1, <2>2, ExtractionAssumption DEF tooLarge, Limits, permitted
  <2>4. outputLimit \in Int /\ MaxReadBytes \in Int
      BY <2>1, ExtractionAssumption DEF Limits, permitted
  <2>5. ASSUME NEW i \in DOMAIN results
        PROVE  Len(results[i].values) <= maxExtractResults
    <3>1. results[i] \in Result
        BY <2>1 DEF TypeInv
    <3>2. Len(results[i].values) \in Nat /\ Len(results[i].all) \in Nat
        BY <3>1 DEF Result
    <3>3. Len(results[i].values) <= Granted(i)
        BY <2>1 DEF Selected
    <3>4. resultLimit \in Nat /\ resultLimit <= maxExtractResults /\ maxExtractResults \in Nat
        BY <2>1, ExtractionAssumption DEF Limits
    <3>5. Granted(i) \in Nat /\ Granted(i) <= resultLimit
        BY <3>2, <3>4, MinLess DEF Granted
    <3> HIDE DEF Granted
    <3> QED
        BY <3>2, <3>3, <3>4, <3>5
  <2> QED
      BY <2>2, <2>3, <2>4, <2>5
<1> QED
    BY <1>1, Invariance, PTL

\* A query is limited iff one of its values is missing, the output iff one of
\* its queries is, and the count is that of the values that are left.
THEOREM Flags == ExtractionSpec => []FlagsTell
<1>1. IInv => FlagsTell
  <2> SUFFICES ASSUME IInv, Done
               PROVE  /\ \A i \in DOMAIN results :
                            results[i].limited <=>
                               Len(results[i].values) < Len(results[i].all)
                      /\ limited <=> \E i \in DOMAIN results : results[i].limited
                      /\ returned = Total([i \in DOMAIN results |-> Len(results[i].values)])
      BY DEF FlagsTell
  <2>1. Selected /\ Counted
      BY DEF Done, IInv
  <2> QED
      BY <2>1 DEF Selected, Counted
<1> QED
    BY <1>1, Invariance, PTL

\* What a query returns is the beginning of what it matches, and after a query
\* that lost a value no other has one.
THEOREM FromTheEnd == ExtractionSpec => []CutFromTheEnd
<1>1. IInv => CutFromTheEnd
  <2> SUFFICES ASSUME IInv, Done, NEW i \in DOMAIN results
               PROVE  /\ IsPrefix(results[i].values, results[i].all)
                      /\ Len(results[i].values) < Granted(i) =>
                            \A j \in DOMAIN results : j > i => results[j].values = <<>>
      BY DEF CutFromTheEnd
  <2>1. TypeInv /\ Limits /\ Selected /\ LastCut
      BY DEF Done, IInv
  <2> DEFINE v == results[i].values
             a == results[i].all
  <2>2. DOMAIN results \subseteq Nat /\ v \in Seq(0 .. MaxSize) /\ a \in Seq(0 .. MaxSize)
    <3>1. results[i] \in Result /\ DOMAIN results \subseteq Nat
        BY <2>1 DEF TypeInv
    <3> QED
        BY <3>1 DEF Result
  <2>3. Len(v) <= Granted(i) /\ \A k \in 1 .. Len(v) : v[k] = a[k]
      BY <2>1 DEF Selected
  <2>4. Len(v) \in Nat /\ Len(a) \in Nat /\ Len(v) <= Len(a)
    <3>1. Len(v) \in Nat /\ Len(a) \in Nat
        BY <2>2
    <3>2. resultLimit \in Nat
        BY <2>1, ExtractionAssumption DEF Limits
    <3>3. Granted(i) \in Nat /\ Granted(i) <= Len(a)
        BY <3>1, <3>2, MinLess DEF Granted
    <3> HIDE DEF Granted, v, a
    <3> QED
        BY <2>3, <3>1, <3>3
  <2>5. Len(v) < Granted(i) => \A j \in DOMAIN results : j > i => results[j].values = <<>>
    <3>1. \A j \in DOMAIN results : j > i => i < j
        BY <2>2
    <3> QED
        BY <2>1, <3>1 DEF LastCut, Cut
  <2> HIDE DEF v, a
  <2>6. SubSeq(v, 1, Len(v)) = SubSeq(a, 1, Len(v))
      BY <2>2, <2>3, <2>4
  <2>7. IsPrefix(v, a)
      BY <2>4, <2>6 DEF IsPrefix
  <2> QED
      BY <2>5, <2>7 DEF v, a
<1> QED
    BY <1>1, Invariance, PTL

\* The last value dropped did not fit: no answer is shorter than it has to be.
THEOREM InVain == ExtractionSpec => []NotCutInVain
<1>1. IInv => NotCutInVain
    BY DEF IInv, NotCutInVain, NotInVain, Done
<1> QED
    BY <1>1, Invariance, PTL

\* The size of an output is found with four marshals at most: that there might
\* be a fifth, with a number that is not the size of the output, is a case
\* extractionOutputSize provides for and never meets.
THEOREM FourMarshals == ExtractionSpec => [](round <= 3)
<1>1. IInv => round <= 3
    BY DEF IInv, TypeInv
<1> QED
    BY <1>1, Invariance, PTL

\* Six steps for each value that may be dropped: four marshals at most, the
\* comparison with the limit, and the value.
Rank ==
    CASE extractPc = "called"    -> 6 * 1600 + 6
      [] extractPc = "measuring" -> 6 * returned + 5 - round
      [] extractPc = "measured"  -> 6 * returned + 1
      [] OTHER            -> 0

LEMMA ReturnedBound == IInv /\ extractPc = "measuring" => returned <= 1600
BY RestBound DEF IInv

LEMMA RankDecreases == IInv /\ IInv' /\ ExtractionNext => Rank' \in Nat /\ Rank' < Rank
<1> SUFFICES ASSUME IInv, IInv', ExtractionNext PROVE Rank' \in Nat /\ Rank' < Rank
    OBVIOUS
<1>1. /\ returned \in Nat /\ round \in 0 .. 3 /\ returned' \in Nat /\ round' \in 0 .. 3
    BY DEF IInv, TypeInv
<1>2. CASE RejectRequest
  <2>1. Rank = 9606 /\ Rank' = 0
      BY <1>2 DEF RejectRequest, Rank
  <2> QED
      BY <2>1
<1>3. CASE Extract
  <2>1. extractPc = "called" /\ extractPc' = "measuring"
      BY <1>3 DEF Extract
  <2>2. (IInv /\ extractPc = "measuring")'
      BY <2>1
  <2>3. (returned <= 1600)'
      BY <2>2, ReturnedBound, PTL
  <2>4. returned' <= 1600
      BY <2>3
  <2>5. Rank = 9606 /\ Rank' = 6 * returned' + 5 - round'
      BY <2>1 DEF Rank
  <2> DEFINE a == returned'
             b == round'
  <2>6. a \in Nat /\ b \in 0 .. 3 /\ a <= 1600 /\ Rank = 9606 /\ Rank' = 6 * a + 5 - b
      BY <1>1, <2>4, <2>5
  <2> HIDE DEF a, b
  <2>7. 6 * a + 5 - b \in Nat /\ 6 * a + 5 - b < 9606
      BY <2>6
  <2> QED
      BY <2>6, <2>7
<1>4. CASE Measure
  <2>1. extractPc = "measuring" /\ returned' = returned
      BY <1>4 DEF Measure
  <2>2. Rank = 6 * returned + 5 - round
      BY <2>1 DEF Rank
  <2>3. CASE extractPc' = "measured"
    <3>1. Rank' = 6 * returned + 1
        BY <2>1, <2>3 DEF Rank
    <3> QED
        BY <1>1, <2>2, <3>1
  <2>4. CASE extractPc' = "measuring" /\ round' = round + 1
    <3>1. Rank' = 6 * returned + 5 - round'
        BY <2>1, <2>4 DEF Rank
    <3> QED
        BY <1>1, <2>2, <2>4, <3>1
  <2> QED
      BY <1>4, <2>1, <2>3, <2>4 DEF Measure
<1>5. CASE Fit \/ TooSmall
  <2>1. Rank = 6 * returned + 1 /\ Rank' = 0
      BY <1>5 DEF Fit, TooSmall, Rank
  <2> QED
      BY <1>1, <2>1
<1>6. CASE Drop
  <2>1. extractPc = "measured" /\ extractPc' = "measuring" /\ returned' = returned - 1 /\ round' = 0
      BY <1>6 DEF Drop, returnedLess
  <2>2. Rank = 6 * returned + 1 /\ Rank' = 6 * returned' + 5 - round'
      BY <2>1 DEF Rank
  <2> QED
      BY <1>1, <2>1, <2>2
<1> QED
    BY <1>2, <1>3, <1>4, <1>5, <1>6 DEF ExtractionNext

\* Measuring and dropping do not go round for ever: every step takes the call
\* nearer to its end, and no call has more than 9606.
THEOREM Progress == ExtractionSpec => [][Rank' \in Nat /\ Rank' < Rank]_extractionVars
<1>1. IInv /\ IInv' /\ [ExtractionNext]_extractionVars => [Rank' \in Nat /\ Rank' < Rank]_extractionVars
    BY RankDecreases
<1> QED
    BY <1>1, Invariance, PTL DEF ExtractionSpec
=============================================================================
