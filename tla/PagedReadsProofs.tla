-------------------------- MODULE PagedReadsProofs --------------------------
(***************************************************************************)
(* Theorems about PagedReads.  What is needed of the store is taken from   *)
(* ResponseStoreProofs: a read does no more to it than a lookup.           *)
(***************************************************************************)
EXTENDS PagedReads, SequenceTheorems, TLAPS

\* The store with its theorems.
StoreP == INSTANCE ResponseStoreProofs
-----------------------------------------------------------------------------
(***************************************************************************)
(* One range.                                                              *)
(***************************************************************************)

\* A range that passes the checks ends within the body and the server's limit.
LEMMA RangeEnds ==
    ASSUME NEW h \in Handle, NEW o \in Int, NEW n \in MaxBytes, validRange(h, o, n)
    PROVE  /\ o \in Nat /\ total(h) \in Nat /\ o <= total(h) /\ total(h) <= MaxInt
           /\ endOf(h, o, n) \in Int
           /\ sliceable(h, o, n) => /\ endOf(h, o, n) \in o .. total(h)
                                    /\ endOf(h, o, n) - o <= MaxReadBytes
           /\ ~ sliceable(h, o, n) => o > MaxInt - MaxReadBytes
<1>1. total(h) \in Nat /\ total(h) <= MaxInt
    BY ReadAssumption, LenProperties DEF total
<1>2. o \in 0 .. total(h) /\ limit(n) \in 0 .. MaxReadBytes
    BY DEF validRange
<1>3. MaxInt \in Nat /\ MaxReadBytes \in Nat /\ MaxReadBytes <= MaxInt
    BY ReadAssumption
<1>4. plus(o, limit(n)) = o + limit(n) \/ (plus(o, limit(n)) < o /\ o + limit(n) > MaxInt)
    BY <1>1, <1>2, <1>3 DEF plus
<1>5. plus(o, limit(n)) \in Int
    BY <1>1, <1>2, <1>3 DEF plus
<1> QED
    BY <1>1, <1>2, <1>3, <1>4, <1>5 DEF endOf, sliceable

\* What is cut out of a body, and what has been cut out before and is continued.
LEMMA Chunk ==
    ASSUME NEW h \in Handle, NEW o \in 0 .. total(h), NEW e \in o .. total(h)
    PROVE  /\ chunk(h, o, e) \in Seq(Byte) /\ Len(chunk(h, o, e)) = e - o
           /\ <<>> \o chunk(h, o, e) = SubSeq(Body[h], o + 1, e)
           /\ \A f \in 0 .. o : SubSeq(Body[h], f + 1, o) \o chunk(h, o, e) = SubSeq(Body[h], f + 1, e)
<1>1. Body[h] \in Seq(Byte) /\ Len(Body[h]) = total(h) /\ total(h) \in Nat
    BY ReadAssumption, LenProperties DEF total
<1>2. \A i \in o + 1 .. e : Body[h][i] \in Byte
    BY <1>1, LenProperties
<1>3. chunk(h, o, e) \in Seq(Byte) /\ Len(chunk(h, o, e)) = e - o
    BY <1>1, <1>2, SubSeqProperties DEF chunk
<1>4. \A f \in 0 .. o : SubSeq(Body[h], f + 1, o) \o chunk(h, o, e) = SubSeq(Body[h], f + 1, e)
    BY <1>1, ConcatAdjacentSubSeq DEF chunk
<1>5. <<>> \o chunk(h, o, e) = SubSeq(Body[h], o + 1, e)
    BY <1>3, ConcatEmptySeq DEF chunk
<1> QED
    BY <1>3, <1>4, <1>5

\* No page is longer than the encoding of a full one.
LEMMA PageSize ==
    ASSUME NEW bytes \in Seq(Byte), Len(bytes) <= MaxReadBytes
    PROVE  encodeBody(bytes).size <=
              IF encodeBody(bytes).text THEN MaxReadBytes ELSE base64(MaxReadBytes)
<1>1. Len(bytes) \in Nat /\ MaxReadBytes \in Nat
    BY ReadAssumption, LenProperties
<1>2. (Len(bytes) + 2) \div 3 <= (MaxReadBytes + 2) \div 3
    BY <1>1
<1>3. base64(Len(bytes)) <= base64(MaxReadBytes)
    BY <1>1, <1>2 DEF base64
<1> QED
    BY <1>3 DEF encodeBody
-----------------------------------------------------------------------------
(***************************************************************************)
(* A client.                                                               *)
(***************************************************************************)

\* A client has received what lies between the offset it began at and the one
\* it asks for next.
Progress(r) ==
    \/ received[r] = <<>> /\ offset[r] = first[r] /\ phase[r] # "eof"
    \/ /\ offset[r] \in 0 .. total(handle[r]) /\ first[r] \in 0 .. offset[r]
       /\ received[r] = SubSeq(Body[handle[r]], first[r] + 1, offset[r])
       /\ phase[r] = "eof" => offset[r] = total(handle[r])

\* Its last page is as long as a full one at most, encoded if it is no text.
Bounded(r) == page[r].size <= IF page[r].text THEN MaxReadBytes ELSE base64(MaxReadBytes)

\* The end of the range that made the server panic was no int64.
Overflown(r) == phase[r] = "panicked" => offset[r] > MaxInt - MaxReadBytes

Reading ==
    /\ handle \in [Reader -> Handle] /\ first \in [Reader -> Offset] /\ asked \in [Reader -> MaxBytes]
    /\ offset \in [Reader -> Int] /\ phase \in [Reader -> Phase]
    /\ DOMAIN received = Reader /\ DOMAIN page = Reader
    /\ \A r \in Reader : Progress(r) /\ Bounded(r) /\ Overflown(r)

LEMMA ReadingInit == Init => Reading
<1> SUFFICES ASSUME Init PROVE Reading
    OBVIOUS
<1>1. MaxReadBytes \in Nat /\ Offset \subseteq Int
  <2>1. MaxInt \in Nat /\ Offset \subseteq -(MaxInt + 1) .. MaxInt /\ MaxReadBytes \in 1 .. MaxInt
      BY ReadAssumption
  <2> QED
      BY <2>1
<1>2. base64(MaxReadBytes) >= 0
    BY <1>1 DEF base64
<1>3. offset \in [Reader -> Int] /\ offset = first /\ first \in [Reader -> Offset]
    BY <1>1 DEF Init
<1>4. ASSUME NEW r \in Reader PROVE Progress(r) /\ Bounded(r) /\ Overflown(r)
    BY <1>1, <1>2, <1>3 DEF Init, Progress, Bounded, Overflown
<1> QED
    BY <1>3, <1>4 DEF Init, Reading, Phase

LEMMA ReadingStep ==
    ASSUME Reading, NEW r \in Reader, Open(r) \/ Read(r)
    PROVE  Reading'
<1> USE DEF Reading
<1>1. CASE Open(r)
    BY <1>1 DEF Open, Progress, Bounded, Overflown, Phase
<1>2. CASE ReadGone(r) \/ ReadRejected(r)
    BY <1>2 DEF ReadGone, ReadRejected, Ask, Progress, Bounded, Overflown, Phase
<1>3. CASE ReadPanics(r)
  <2>1. offset[r] > MaxInt - MaxReadBytes
      BY <1>3, RangeEnds DEF ReadPanics
  <2> QED
      BY <1>3, <2>1 DEF ReadPanics, Ask, Progress, Bounded, Overflown, Phase
<1>4. CASE ReadPage(r)
  <2> DEFINE h == handle[r]
             o == offset[r]
             e == endOf(h, o, asked[r])
  <2>1. o \in 0 .. total(h) /\ e \in o .. total(h) /\ e - o <= MaxReadBytes
      BY <1>4, RangeEnds DEF ReadPage
  <2>2. /\ handle' = handle /\ first' = first /\ asked' = asked
        /\ phase' = [phase EXCEPT ![r] = IF e = total(h) THEN "eof" ELSE "reading"]
        /\ offset' = [offset EXCEPT ![r] = e]
        /\ received' = [received EXCEPT ![r] = @ \o chunk(h, o, e)]
        /\ page' = [page EXCEPT ![r] = encodeBody(chunk(h, o, e))]
      BY <1>4 DEF ReadPage, Ask
  <2>3. total(h) \in Nat
      BY ReadAssumption, LenProperties DEF total
  <2>4. chunk(h, o, e) \in Seq(Byte) /\ Len(chunk(h, o, e)) = e - o
      BY <2>1, Chunk
  <2>5. first[r] \in 0 .. e /\ received'[r] = SubSeq(Body[h], first[r] + 1, e)
    <3>1. CASE received[r] = <<>> /\ offset[r] = first[r]
      <4>1. received'[r] = <<>> \o chunk(h, o, e)
          BY <2>2, <3>1
      <4>2. first[r] = o /\ first[r] \in 0 .. e
          BY <2>1, <2>3, <3>1
      <4> QED
          BY <2>1, <4>1, <4>2, Chunk
    <3>2. CASE first[r] \in 0 .. o /\ received[r] = SubSeq(Body[h], first[r] + 1, o)
      <4>1. SubSeq(Body[h], first[r] + 1, o) \o chunk(h, o, e) = SubSeq(Body[h], first[r] + 1, e)
          BY <2>1, <3>2, Chunk
      <4>2. received'[r] = received[r] \o chunk(h, o, e)
          BY <2>2
      <4>3. first[r] \in 0 .. e
          BY <2>1, <2>3, <3>2
      <4> QED
          BY <3>2, <4>1, <4>2, <4>3
    <3> QED
        BY <3>1, <3>2 DEF Progress
  <2>6. Progress(r)'
    <3>1. offset'[r] = e /\ first'[r] = first[r] /\ handle'[r] = h
        BY <2>2
    <3>2. phase'[r] = "eof" => e = total(h)
        BY <2>2
    <3>3. total(handle[r])' = total(h)
        BY <3>1 DEF total
    <3> QED
        BY <2>1, <2>3, <2>5, <3>1, <3>2, <3>3 DEF Progress
  <2>7. Bounded(r)'
      BY <2>1, <2>2, <2>4, PageSize DEF Bounded
  <2>8. Overflown(r)'
      BY <2>2 DEF Overflown
  <2>9. \A x \in Reader \ {r} : Progress(x)' /\ Bounded(x)' /\ Overflown(x)'
      BY <2>2 DEF Progress, Bounded, Overflown, total
  <2>10. offset' \in [Reader -> Int] /\ phase' \in [Reader -> Phase]
      BY <2>1, <2>2, <2>3 DEF Phase
  <2> QED
      BY <2>2, <2>6, <2>7, <2>8, <2>9, <2>10
<1> QED
    BY <1>1, <1>2, <1>3, <1>4 DEF Read

LEMMA ReadingInvariance == Spec => []Reading
<1>1. Reading /\ [Next]_vars => Reading'
  <2> SUFFICES ASSUME Reading, [Next]_vars PROVE Reading'
      OBVIOUS
  <2>1. CASE StoreStep \/ UNCHANGED vars
      BY <2>1 DEF StoreStep, reading, vars, Reading, Progress, Bounded, Overflown, total
  <2> QED
      BY <2>1, ReadingStep DEF Next
<1> QED
    BY <1>1, ReadingInit, PTL DEF Spec

\* Following next_offset gives the bytes of the body in order, none twice and
\* none left out, and eof comes with the last of them.
THEOREM Reassembled == Spec => []PagesReassemble
<1>1. Reading => PagesReassemble
  <2> SUFFICES ASSUME Reading, NEW r \in Reader
               PROVE  LET body == Body[handle[r]]
                      IN  /\ received[r] # <<>> => received[r] = SubSeq(body, first[r] + 1, offset[r])
                          /\ phase[r] = "eof" => offset[r] = Len(body)
                                              /\ Len(received[r]) = Len(body) - first[r]
      BY DEF PagesReassemble
  <2>1. Progress(r) /\ handle[r] \in Handle
      BY DEF Reading
  <2>2. Len(Body[handle[r]]) = total(handle[r]) /\ total(handle[r]) \in Nat
      BY <2>1, ReadAssumption, LenProperties DEF total
  <2>3. ASSUME phase[r] = "eof" PROVE Len(received[r]) = total(handle[r]) - first[r]
    <3>1. CASE received[r] = SubSeq(Body[handle[r]], first[r] + 1, total(handle[r]))
      <4>1. Body[handle[r]] \in Seq(Byte) /\ first[r] \in 0 .. total(handle[r])
          BY <2>1, <2>2, <2>3, ReadAssumption DEF Progress
      <4> QED
          BY <2>2, <3>1, <4>1
    <3> QED
        BY <2>1, <2>3, <3>1 DEF Progress
  <2> QED
      BY <2>1, <2>2, <2>3 DEF Progress
<1> QED
    BY <1>1, ReadingInvariance, PTL

\* How far a page may exceed the limit of the server: a text keeps to it, and
\* anything else is as long as the base64 encoding of so many bytes at most.
THEOREM PagesBounded == Spec => []\A r \in Reader : Bounded(r)
<1>1. Reading => \A r \in Reader : Bounded(r)
    BY DEF Reading
<1> QED
    BY <1>1, ReadingInvariance, PTL

\* A range that passes the checks is served unless the limit of the server is so
\* large that the end of the range is beyond the largest int64.
THEOREM PanicsExplained == Spec => []\A r \in Reader : Overflown(r)
<1>1. Reading => \A r \in Reader : Overflown(r)
    BY DEF Reading
<1> QED
    BY <1>1, ReadingInvariance, PTL

\* The bytes of its body that a client has not been given.
Left(r) ==
    IF offset[r] \in 0 .. total(handle[r]) THEN total(handle[r]) - offset[r] ELSE 0

Rank(r) ==
    CASE phase[r] = "idle"    -> Left(r) + 2
      [] phase[r] = "reading" -> Left(r) + 1
      [] OTHER                -> 0

\* A page that is not the last has a byte at least.
LEMMA PageNotEmpty ==
    ASSUME NEW h \in Handle, NEW o \in Int, NEW n \in MaxBytes, validRange(h, o, n),
           sliceable(h, o, n), endOf(h, o, n) # total(h)
    PROVE  o < endOf(h, o, n) /\ endOf(h, o, n) < total(h)
<1>1. total(h) \in Nat /\ total(h) <= MaxInt
    BY ReadAssumption, LenProperties DEF total
<1>2. o \in 0 .. total(h) /\ limit(n) \in 0 .. MaxReadBytes
    BY DEF validRange
<1>3. /\ MaxInt \in Nat /\ MaxReadBytes \in Nat \ {0} /\ MaxReadBytes <= MaxInt
      /\ defaultResponseReadBytes \in Nat \ {0}
    BY ReadAssumption
<1>4. limit(n) # 0
    BY <1>3 DEF limit
<1>5. plus(o, limit(n)) \in Int /\ plus(o, limit(n)) # o
    BY <1>1, <1>2, <1>3, <1>4 DEF plus
<1> QED
    BY <1>1, <1>2, <1>5 DEF endOf, sliceable

LEMMA LeftIsNat == ASSUME Reading, NEW r \in Reader PROVE Left(r) \in Nat /\ Rank(r) \in Nat
<1>1. total(handle[r]) \in Nat
    BY ReadAssumption, LenProperties DEF total, Reading
<1>2. Left(r) \in Nat
    BY <1>1 DEF Left
<1> QED
    BY <1>2 DEF Rank

LEMMA ReadAdvances ==
    ASSUME Reading, NEW r \in Reader, Open(r) \/ Read(r)
    PROVE  Rank(r)' \in Nat /\ Rank(r)' < Rank(r)
<1>1. Left(r) \in Nat
    BY LeftIsNat
<1>2. phase \in [Reader -> Phase] /\ handle[r] \in Handle
    BY DEF Reading
<1>3. CASE Open(r)
  <2>1. Left(r)' = Left(r)
      BY <1>3 DEF Open, Left, total
  <2>2. phase[r] = "idle" /\ phase'[r] = "reading"
      BY <1>2, <1>3 DEF Open
  <2> QED
      BY <1>1, <2>1, <2>2 DEF Rank
<1>4. CASE Read(r) /\ phase'[r] # "reading"
  <2>1. phase[r] = "reading" /\ phase'[r] # "idle"
      BY <1>2, <1>4 DEF Read, ReadGone, ReadRejected, ReadPanics, ReadPage, Ask
  <2> QED
      BY <1>1, <1>4, <2>1 DEF Rank
<1>5. CASE Read(r) /\ phase'[r] = "reading"
  <2> DEFINE h == handle[r]
             o == offset[r]
             e == endOf(h, o, asked[r])
  <2>1. ReadPage(r) /\ phase[r] = "reading" /\ e # total(h)
      BY <1>2, <1>5 DEF Read, ReadGone, ReadRejected, ReadPanics, ReadPage, Ask
  <2>2. /\ validRange(h, o, asked[r]) /\ sliceable(h, o, asked[r])
        /\ offset' = [offset EXCEPT ![r] = e] /\ handle' = handle
      BY <2>1 DEF ReadPage, Ask
  <2>3. o \in Int /\ asked[r] \in MaxBytes /\ offset'[r] = e /\ total(h) \in Nat
      BY <1>2, <2>2, ReadAssumption, LenProperties DEF Reading, total
  <2>4. o \in 0 .. total(h) /\ o < e /\ e < total(h) /\ e \in Int
      BY <1>2, <2>1, <2>2, <2>3, PageNotEmpty, RangeEnds
  <2> HIDE DEF h, o, e
  <2>5. Left(r) = total(h) - o /\ Left(r)' = total(h) - e
    <3>1. total(handle[r])' = total(h)
        BY <2>2 DEF total, h
    <3>2. e \in 0 .. total(h)
        BY <2>3, <2>4
    <3> QED
        BY <2>3, <2>4, <3>1, <3>2 DEF Left, h, o
  <2>6. Rank(r) = Left(r) + 1 /\ Rank(r)' = Left(r)' + 1
      BY <1>5, <2>1 DEF Rank
  <2> QED
      BY <2>3, <2>4, <2>5, <2>6
<1> QED
    BY <1>3, <1>4, <1>5

\* Every page takes a client nearer to the end of the body, whatever it asks
\* for, and nothing that goes on in the store takes it further from it.
THEOREM ReadingAdvances ==
    Spec => [][\A r \in Reader : /\ Rank(r)' \in Nat /\ Rank(r)' <= Rank(r)
                                 /\ Open(r) \/ Read(r) => Rank(r)' < Rank(r)]_vars
<1>1. ASSUME Reading, NEW r \in Reader, Next
      PROVE  /\ Rank(r)' \in Nat /\ Rank(r)' <= Rank(r)
             /\ Open(r) \/ Read(r) => Rank(r)' < Rank(r)
  <2>1. Rank(r) \in Nat
      BY <1>1, LeftIsNat
  <2>2. CASE Open(r) \/ Read(r)
      BY <1>1, <2>1, <2>2, ReadAdvances
  <2>3. CASE ~ (Open(r) \/ Read(r))
    <3>1. UNCHANGED <<handle[r], offset[r], phase[r]>>
      <4>1. CASE StoreStep
          BY <4>1 DEF StoreStep, reading
      <4>2. ASSUME NEW x \in Reader, Open(x) \/ Read(x)
            PROVE  UNCHANGED <<handle[r], offset[r], phase[r]>>
          BY <1>1, <2>3, <4>2 DEF Reading, Open, Read, ReadGone, ReadRejected, ReadPanics, ReadPage, Ask
      <4> QED
          BY <1>1, <4>1, <4>2 DEF Next
    <3>2. Rank(r)' = Rank(r)
        BY <3>1 DEF Rank, Left, total
    <3> QED
        BY <2>1, <2>3, <3>2
  <2> QED
      BY <2>2, <2>3
<1>2. Reading /\ Next =>
         \A r \in Reader : /\ Rank(r)' \in Nat /\ Rank(r)' <= Rank(r)
                           /\ Open(r) \/ Read(r) => Rank(r)' < Rank(r)
    BY <1>1
<1> QED
    BY <1>2, ReadingInvariance, PTL DEF Spec
-----------------------------------------------------------------------------
(***************************************************************************)
(* The store.                                                              *)
(***************************************************************************)

\* A step is a step of the store, or leaves it alone.
LEMMA StoreImplemented == Spec => StoreP!Spec
<1>1. Init => StoreP!Init
    BY DEF Init, Store!Init, StoreP!Init
<1>2. [Next]_vars => [Store!Next]_(Store!vars)
    BY DEF Next, vars, StoreStep, stored, reading, Open, Read, ReadGone, ReadRejected, ReadPanics,
           ReadPage, Ask, Lookup, Store!Next, Store!vars
<1>3. [Store!Next]_(Store!vars) => [StoreP!Next]_(StoreP!vars)
  <2> SUFFICES ASSUME [Store!Next]_(Store!vars) PROVE [StoreP!Next]_(StoreP!vars)
      OBVIOUS
  <2> USE DEF Store!Unexpired, StoreP!Unexpired
  <2>1. CASE UNCHANGED Store!vars
      BY <2>1 DEF Store!vars, StoreP!vars
  <2>2. CASE Store!Tick
      BY <2>2 DEF Store!Tick, StoreP!Tick, StoreP!Next
  <2>3. CASE Store!Lookup
      BY <2>3 DEF Store!Lookup, StoreP!Lookup, Store!Restrict, StoreP!Restrict, StoreP!Next
  <2>4. ASSUME NEW h \in Handle, Store!NoHandle(h) \/ Store!Date(h) PROVE StoreP!Next
      BY <2>4 DEF Store!NoHandle, StoreP!NoHandle, Store!Date, StoreP!Date, Store!Instant,
                  StoreP!Instant, StoreP!Next
  <2>5. ASSUME NEW h \in Handle, Store!Insert(h) PROVE StoreP!Next
      BY <2>5 DEF Store!Insert, StoreP!Insert, Store!Evictions, StoreP!Evictions, Store!Kept,
                  StoreP!Kept, Store!Older, StoreP!Older, Store!NewResponse, StoreP!NewResponse,
                  Store!DateOf, StoreP!DateOf, Store!Cardinality, StoreP!Cardinality, StoreP!Next
  <2> QED
      BY <2>1, <2>2, <2>3, <2>4, <2>5 DEF Store!Next
<1> QED
    BY <1>1, <1>2, <1>3, PTL DEF Spec, StoreP!Spec

\* A client reads a handle it was given.
Given == \A r \in Reader : phase[r] = "reading" => pc[handle[r]] = "stored"

LEMMA GivenInvariance == Spec => []Given
<1>1. Init => Given
    BY DEF Init, Given
<1>2. Given /\ Reading /\ StoreP!TypeOK /\ [Next]_vars => Given'
  <2> SUFFICES ASSUME Given, Reading, StoreP!TypeOK, [Next]_vars PROVE Given'
      OBVIOUS
  <2> USE DEF Given, Reading
  <2>1. CASE UNCHANGED vars
      BY <2>1 DEF vars, stored, reading
  <2>2. CASE StoreStep
      BY <2>2 DEF StoreStep, reading, Store!Next, Store!Tick, Store!NoHandle, Store!Date,
                  Store!Insert, Store!Lookup, StoreP!TypeOK
  <2>3. ASSUME NEW r \in Reader, Open(r) \/ Read(r) PROVE Given'
      BY <2>3 DEF Open, Read, ReadGone, ReadRejected, ReadPanics, ReadPage, Ask, Lookup,
                  Store!Lookup, stored
  <2> QED
      BY <2>1, <2>2, <2>3 DEF Next
<1>3. StoreP!Spec => []StoreP!TypeOK
    BY ReadAssumption, StoreP!TypeCorrect
<1> QED
    BY <1>1, <1>2, <1>3, ReadingInvariance, StoreImplemented, PTL DEF Spec

\* Only live records are served, and a reading ends half way only when its
\* record is due or was evicted.
THEOREM ServedAlive == Spec => ServedWhileAlive
<1> DEFINE Served == \A r \in Reader :
          LET h     == handle[r]
              alive == h \in DOMAIN responses /\ responses[h].expiresAt > clock
          IN  /\ received'[r] # received[r] => alive
              /\ phase'[r] = "gone" /\ phase[r] # "gone" =>
                    h \in evicted \/ now[h] + ResponseTTL <= clock
<1>1. Given /\ Reading /\ StoreP!ServedUntilDue /\ (StoreP!ServedUntilDue)' /\ [Next]_vars => [Served]_vars
  <2> SUFFICES ASSUME Given, Reading, StoreP!ServedUntilDue, (StoreP!ServedUntilDue)', [Next]_vars,
                      NEW r \in Reader
               PROVE  LET h     == handle[r]
                          alive == h \in DOMAIN responses /\ responses[h].expiresAt > clock
                      IN  /\ received'[r] # received[r] => alive
                          /\ phase'[r] = "gone" /\ phase[r] # "gone" =>
                                h \in evicted \/ now[h] + ResponseTTL <= clock
      OBVIOUS
  <2>1. CASE StoreStep \/ UNCHANGED vars
      BY <2>1 DEF StoreStep, vars, reading
  <2>2. ASSUME NEW x \in Reader, x # r, Open(x) \/ Read(x)
        PROVE  received'[r] = received[r] /\ phase'[r] = phase[r]
      BY <2>2 DEF Reading, Open, Read, ReadGone, ReadRejected, ReadPanics, ReadPage, Ask
  <2>3. CASE Open(r)
      BY <2>3 DEF Open, Reading
  <2>4. CASE Read(r)
    <3>1. /\ responses' = [h \in Store!Unexpired(clock) |-> responses[h]]
          /\ UNCHANGED <<clock, pc, now, evicted, handle>> /\ phase[r] = "reading"
        BY <2>4 DEF Read, ReadGone, ReadRejected, ReadPanics, ReadPage, Ask, Lookup, Store!Lookup,
                    Store!Restrict
    <3>2. ASSUME handle[r] \in DOMAIN responses'
          PROVE  handle[r] \in DOMAIN responses /\ responses[handle[r]].expiresAt > clock
        BY <3>1, <3>2 DEF Store!Unexpired
    <3>3. ASSUME handle[r] \notin DOMAIN responses'
          PROVE  handle[r] \in evicted \/ now[handle[r]] + ResponseTTL <= clock
        BY <3>1, <3>3 DEF Given, Reading, StoreP!ServedUntilDue, StoreP!Stored
    <3>4. received'[r] # received[r] => handle[r] \in DOMAIN responses'
        BY <2>4 DEF Read, ReadGone, ReadRejected, ReadPanics, ReadPage
    <3>5. phase'[r] = "gone" => handle[r] \notin DOMAIN responses'
        BY <2>4 DEF Read, ReadGone, ReadRejected, ReadPanics, ReadPage, Ask, Reading
    <3> QED
        BY <3>2, <3>3, <3>4, <3>5
  <2> QED
      BY <2>1, <2>2, <2>3, <2>4 DEF Next
<1>2. StoreP!Spec => []StoreP!ServedUntilDue
    BY ReadAssumption, StoreP!Served
<1> QED
    BY <1>1, <1>2, GivenInvariance, ReadingInvariance, StoreImplemented, PTL DEF Spec, ServedWhileAlive
=============================================================================
