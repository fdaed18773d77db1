------------------------- MODULE ResponseStoreProofs -------------------------
(***************************************************************************)
(* Proofs about ResponseStore, for every set of handles and every limit.   *)
(***************************************************************************)
EXTENDS ResponseStore, FiniteSetTheorems, TLAPS

Created(h) == responses[h].createdAt

\* The inductive invariant: RecordOfHandle ties the table to the calls that
\* stored; the sets that are counted are finite.
Inv ==
    /\ TypeOK
    /\ RecordOfHandle
    /\ ServedUntilDue
    /\ EvictionNeedsPressure
    /\ IsFiniteSet(Stored)
    /\ StoreBound

\* The table is part of what was stored, so it can be counted.
LEMMA TableFinite ==
    ASSUME Inv
    PROVE  /\ DOMAIN responses \subseteq Stored
           /\ IsFiniteSet(DOMAIN responses)
           /\ Cardinality(DOMAIN responses) \in Nat
BY FS_Subset, FS_CardinalityType DEF Inv, RecordOfHandle

\* A larger finite set counts for at least as much.
LEMMA CountGrows ==
    ASSUME NEW S, NEW T, IsFiniteSet(T), S \subseteq T, NEW n \in Nat, Cardinality(S) >= n
    PROVE  Cardinality(T) >= n
<1>1. IsFiniteSet(S) /\ Cardinality(S) <= Cardinality(T)
    BY FS_Subset
<1>2. Cardinality(S) \in Nat /\ Cardinality(T) \in Nat
    BY <1>1, FS_CardinalityType
<1> QED
    BY <1>1, <1>2

LimitNat == MaxResponses \in Nat /\ MaxResponses >= 1 /\ MaxResponses - 1 \in Nat

\* The limit leaves room for one response at least (config.go:104).
LEMMA Limit == LimitNat
BY ConfigAssumption DEF LimitNat

\* The starting state satisfies the invariant: the table is empty.
LEMMA InitInv == Init => Inv
<1> SUFFICES ASSUME Init PROVE Inv
    OBVIOUS
<1>1. DOMAIN responses = {} /\ Stored = {}
    BY DEF Init, Stored
<1>2. TypeOK
    BY <1>1 DEF Init, TypeOK, Phase
<1>3. RecordOfHandle /\ ServedUntilDue /\ EvictionNeedsPressure
    BY <1>1 DEF Init, RecordOfHandle, ServedUntilDue, EvictionNeedsPressure
<1>4. IsFiniteSet(Stored) /\ StoreBound
    BY <1>1, FS_EmptySet, Limit DEF StoreBound, LimitNat
<1> QED
    BY <1>2, <1>3, <1>4 DEF Inv

-----------------------------------------------------------------------------
\* Time passing keeps the invariant.
LEMMA TickInv == Inv /\ Tick => Inv'
<1> SUFFICES ASSUME Inv, Tick PROVE Inv'
    OBVIOUS
<1>1. clock' \in Nat /\ clock <= clock' /\ clock \in Nat
    BY DEF Tick, Inv, TypeOK
<1>2. UNCHANGED <<responses, pc, now, evicted, Stored>>
    BY DEF Tick, Stored
<1>3. TypeOK'
    BY <1>1, <1>2 DEF Inv, TypeOK
<1>4. ServedUntilDue'
  <2>1. \A h \in Stored : now[h] + ResponseTTL \in Nat
      BY ConfigAssumption DEF Inv, TypeOK, Stored
  <2> QED
      BY <1>1, <1>2, <2>1 DEF Inv, ServedUntilDue
<1>5. (RecordOfHandle /\ EvictionNeedsPressure /\ IsFiniteSet(Stored) /\ StoreBound)'
    BY <1>2 DEF Inv, RecordOfHandle, EvictionNeedsPressure, StoreBound, NewResponse
<1> QED
    BY <1>3, <1>4, <1>5 DEF Inv

\* Dating a record, or failing to make a handle, keeps the invariant: neither
\* call is one that stored.
LEMMA BeginInv ==
    ASSUME NEW h \in Handle, Inv, NoHandle(h) \/ Date(h)
    PROVE  Inv'
<1>1. /\ pc' \in [Handle -> Phase]
      /\ now' \in [Handle -> Nat]
      /\ \A x \in Handle : now'[x] <= clock
      /\ UNCHANGED <<clock, responses, evicted>>
    BY DEF NoHandle, Date, Instant, Inv, TypeOK, Phase
<1>2. UNCHANGED Stored
    BY DEF NoHandle, Date, Instant, Inv, TypeOK, Stored
<1>3. \A x \in Stored : now'[x] = now[x]
    BY DEF NoHandle, Date, Instant, Inv, TypeOK, Stored
<1>4. TypeOK'
    BY <1>1 DEF Inv, TypeOK
<1>5. RecordOfHandle' /\ ServedUntilDue' /\ StoreBound' /\ IsFiniteSet(Stored)'
    BY <1>1, <1>2, <1>3 DEF Inv, RecordOfHandle, ServedUntilDue, StoreBound, NewResponse
<1>6. EvictionNeedsPressure'
  <2> SUFFICES ASSUME NEW x \in evicted
               PROVE  /\ x \in Stored
                      /\ Cardinality(Stored \ {x}) >= MaxResponses
                      /\ Cardinality({k \in Stored \ {x} : now'[k] >= now'[x]}) >= MaxResponses - 1
      BY <1>1, <1>2 DEF EvictionNeedsPressure
  <2>1. x \in Stored
      BY DEF Inv, EvictionNeedsPressure
  <2>2. {k \in Stored \ {x} : now'[k] >= now'[x]} = {k \in Stored \ {x} : now[k] >= now[x]}
      BY <1>3, <2>1
  <2> QED
      BY <2>1, <2>2 DEF Inv, EvictionNeedsPressure
<1> QED
    BY <1>4, <1>5, <1>6 DEF Inv

\* A lookup keeps the invariant: what its purge removes is due.
LEMMA LookupInv == Inv /\ Lookup => Inv'
<1> SUFFICES ASSUME Inv, Lookup PROVE Inv'
    OBVIOUS
<1>1. /\ DOMAIN responses' = Unexpired(clock)
      /\ Unexpired(clock) \subseteq DOMAIN responses
      /\ \A x \in Unexpired(clock) : responses'[x] = responses[x]
      /\ UNCHANGED <<clock, pc, now, evicted, Stored>>
    BY DEF Lookup, Restrict, Unexpired, Stored
<1>2. TypeOK' /\ RecordOfHandle'
    BY <1>1 DEF Inv, TypeOK, RecordOfHandle, NewResponse
<1>3. ServedUntilDue'
  <2> SUFFICES ASSUME NEW x \in Stored \ evicted, x \notin Unexpired(clock)
               PROVE  now[x] + ResponseTTL <= clock
      BY <1>1 DEF ServedUntilDue
  <2>1. CASE x \notin DOMAIN responses
      BY <2>1 DEF Inv, ServedUntilDue
  <2>2. CASE x \in DOMAIN responses
    <3>1. responses[x].expiresAt = now[x] + ResponseTTL
        BY <2>2 DEF Inv, RecordOfHandle, NewResponse
    <3>2. now[x] + ResponseTTL \in Nat /\ clock \in Nat
        BY ConfigAssumption DEF Inv, TypeOK, Stored
    <3> QED
        BY <2>2, <3>1, <3>2 DEF Unexpired
  <2> QED
      BY <2>1, <2>2
<1>4. EvictionNeedsPressure' /\ IsFiniteSet(Stored)'
    BY <1>1 DEF Inv, EvictionNeedsPressure
<1>5. StoreBound'
  <2>1. /\ IsFiniteSet(DOMAIN responses')
        /\ Cardinality(DOMAIN responses') <= Cardinality(DOMAIN responses)
      BY <1>1, TableFinite, FS_Subset
  <2>2. Cardinality(DOMAIN responses') \in Nat
      BY <2>1, FS_CardinalityType
  <2> QED
      BY <2>1, <2>2, TableFinite, Limit DEF Inv, StoreBound, LimitNat
<1> QED
    BY <1>2, <1>3, <1>4, <1>5 DEF Inv

-----------------------------------------------------------------------------
\* What the eviction loop leaves: below the limit, and no younger than what it
\* removed.
LEMMA EvictionFacts ==
    ASSUME NEW S, NEW E \in Evictions(S), IsFiniteSet(S)
    PROVE  /\ E \subseteq S
           /\ IsFiniteSet(S \ E) /\ Cardinality(S \ E) \in Nat
           /\ Cardinality(S \ E) < MaxResponses
           /\ E # {} => Cardinality(S \ E) = MaxResponses - 1
           /\ \A e \in E, r \in S \ E : Created(e) <= Created(r)
<1>1. E \subseteq S /\ \A e \in E, r \in S \ E : Created(e) <= Created(r)
    BY DEF Evictions, Older, Created
<1>2. Cardinality(S \ E) = IF Cardinality(S) < MaxResponses
                           THEN Cardinality(S) ELSE MaxResponses - 1
    BY DEF Evictions, Kept
<1>3. /\ IsFiniteSet(S \ E) /\ Cardinality(S \ E) \in Nat
      /\ Cardinality(S) \in Nat
      /\ (S \ E = S \/ Cardinality(S \ E) < Cardinality(S))
    BY <1>1, FS_Subset, FS_CardinalityType
<1>4. Cardinality(S \ E) < MaxResponses
    BY <1>2, <1>3, Limit DEF LimitNat
<1>5. E # {} => S \ E # S
    BY <1>1
<1> QED
    BY <1>1, <1>2, <1>3, <1>4, <1>5, Limit DEF LimitNat

\* Storing a response keeps the invariant.
LEMMA InsertInv ==
    ASSUME NEW h \in Handle, Inv, Insert(h)
    PROVE  Inv'
<1> DEFINE U == Unexpired(now[h])
<1>1. PICK E \in Evictions(U) :
          /\ responses' = [x \in (U \ E) \cup {h} |->
                              IF x = h THEN NewResponse(now[h]) ELSE responses[x]]
          /\ evicted' = evicted \cup E
    BY DEF Insert, DateOf
<1>2. U \subseteq DOMAIN responses /\ IsFiniteSet(U)
    BY TableFinite, FS_Subset DEF Unexpired
<1> DEFINE R == U \ E
<1>3. /\ E \subseteq U
      /\ IsFiniteSet(R) /\ Cardinality(R) \in Nat
      /\ Cardinality(R) < MaxResponses
      /\ E # {} => Cardinality(R) = MaxResponses - 1
      /\ \A e \in E, r \in R : Created(e) <= Created(r)
    BY <1>2, EvictionFacts
<1>4. /\ DOMAIN responses' = R \cup {h}
      /\ \A x \in R : x # h => responses'[x] = responses[x]
      /\ responses'[h] = NewResponse(now[h])
    BY <1>1
<1>5. /\ h \notin Stored
      /\ Stored' = Stored \cup {h}
      /\ UNCHANGED <<clock, now>>
      /\ pc' \in [Handle -> Phase]
    BY DEF Insert, Inv, TypeOK, Stored, Phase
<1>6. /\ R \subseteq Stored \ evicted /\ E \subseteq Stored \ evicted
      /\ U \subseteq Stored /\ h \notin R /\ h \notin E /\ h \notin evicted
    BY <1>2, <1>3, <1>5 DEF Inv, RecordOfHandle, EvictionNeedsPressure
<1>7. \A x \in U : responses[x] = NewResponse(now[x]) /\ Created(x) = now[x]
    BY <1>2 DEF Inv, RecordOfHandle, NewResponse, Created
<1> HIDE DEF U, R
<1>8. now[h] \in Nat /\ now[h] <= clock /\ clock \in Nat
      /\ NewResponse(now[h]) \in StoredResponse
  <2>1. now[h] \in Nat /\ now[h] + ResponseTTL \in Nat
      BY ConfigAssumption DEF Inv, TypeOK
  <2> QED
      BY <2>1 DEF Inv, TypeOK, NewResponse, StoredResponse
<1>9. TypeOK'
  <2>1. /\ DOMAIN responses' \subseteq Handle
        /\ \A x \in DOMAIN responses' : responses'[x] \in StoredResponse
      BY <1>2, <1>4, <1>6, <1>8 DEF Inv, TypeOK, R
  <2>2. evicted' \subseteq Handle
      BY <1>1, <1>6 DEF Inv, TypeOK, Stored
  <2> QED
      BY <1>5, <2>1, <2>2 DEF Inv, TypeOK
<1>10. RecordOfHandle'
    BY <1>1, <1>3, <1>4, <1>5, <1>6, <1>7 DEF RecordOfHandle, NewResponse, R
<1>11. ServedUntilDue'
  <2> SUFFICES ASSUME NEW x \in Stored', x \notin evicted', x \notin DOMAIN responses'
               PROVE  now[x] + ResponseTTL <= clock
      BY <1>5 DEF ServedUntilDue
  <2>1. x \in Stored \ evicted /\ x \notin E /\ x \notin U
      BY <1>1, <1>4, <1>5 DEF R
  <2>2. CASE x \notin DOMAIN responses
      BY <2>1, <2>2 DEF Inv, ServedUntilDue
  <2>3. CASE x \in DOMAIN responses
    <3>1. responses[x].expiresAt = now[x] + ResponseTTL
        BY <2>3 DEF Inv, RecordOfHandle, NewResponse
    <3>2. now[x] + ResponseTTL \in Nat
        BY <2>1, ConfigAssumption DEF Inv, TypeOK, Stored
    <3> QED
        BY <1>8, <2>1, <2>3, <3>1, <3>2 DEF Unexpired, U
  <2> QED
      BY <2>2, <2>3
<1>12. IsFiniteSet(Stored')
    BY <1>5, FS_AddElement DEF Inv
<1>13. EvictionNeedsPressure'
  <2> SUFFICES ASSUME NEW x \in evicted'
               PROVE  /\ x \in Stored'
                      /\ Cardinality(Stored' \ {x}) >= MaxResponses
                      /\ Cardinality({k \in Stored' \ {x} : now[k] >= now[x]}) >= MaxResponses - 1
      BY <1>5 DEF EvictionNeedsPressure
  <2>1. IsFiniteSet(Stored' \ {x}) /\ IsFiniteSet({k \in Stored' \ {x} : now[k] >= now[x]})
      BY <1>12, FS_Subset
  <2>2. CASE x \in evicted
    <3>1. /\ x \in Stored
          /\ Cardinality(Stored \ {x}) >= MaxResponses
          /\ Cardinality({k \in Stored \ {x} : now[k] >= now[x]}) >= MaxResponses - 1
        BY <2>2 DEF Inv, EvictionNeedsPressure
    <3>2. /\ Stored \ {x} \subseteq Stored' \ {x}
          /\ {k \in Stored \ {x} : now[k] >= now[x]} \subseteq {k \in Stored' \ {x} : now[k] >= now[x]}
        BY <1>5
    <3>3. Cardinality(Stored' \ {x}) >= MaxResponses
        BY <2>1, <3>1, <3>2, CountGrows, Limit DEF LimitNat
    <3>4. Cardinality({k \in Stored' \ {x} : now[k] >= now[x]}) >= MaxResponses - 1
        BY <2>1, <3>1, <3>2, CountGrows, Limit DEF LimitNat
    <3> QED
        BY <1>5, <3>1, <3>3, <3>4
  <2>3. CASE x \in E
    <3>1. Cardinality(R) = MaxResponses - 1 /\ x \in U /\ x \in Stored /\ x \notin R /\ x # h
        BY <1>3, <1>6, <2>3 DEF R
    <3>2. R \subseteq {k \in Stored' \ {x} : now[k] >= now[x]}
      <4> SUFFICES ASSUME NEW r \in R PROVE r \in Stored /\ r # x /\ now[r] >= now[x]
          BY <1>5
      <4>1. Created(x) <= Created(r) /\ r \in U /\ r \in Stored /\ r # x
          BY <1>3, <1>6, <2>3, <3>1 DEF R
      <4>2. now[r] \in Nat /\ now[x] \in Nat
          BY <3>1, <4>1 DEF Inv, TypeOK, Stored
      <4> QED
          BY <1>7, <3>1, <4>1, <4>2
    <3>3. Cardinality({k \in Stored' \ {x} : now[k] >= now[x]}) >= MaxResponses - 1
        BY <2>1, <3>1, <3>2, CountGrows, Limit DEF LimitNat
    <3>4. IsFiniteSet(R \cup {h}) /\ Cardinality(R \cup {h}) = MaxResponses
        BY <1>3, <1>6, <3>1, FS_AddElement, Limit DEF LimitNat
    <3>5. R \cup {h} \subseteq Stored' \ {x}
        BY <1>5, <1>6, <3>1
    <3>6. Cardinality(Stored' \ {x}) >= MaxResponses
        BY <2>1, <3>4, <3>5, CountGrows, Limit DEF LimitNat
    <3> QED
        BY <1>5, <3>1, <3>3, <3>6
  <2> QED
      BY <1>1, <2>2, <2>3
<1>14. StoreBound'
  <2>1. Cardinality(R \cup {h}) = Cardinality(R) + 1
      BY <1>3, <1>6, FS_AddElement
  <2> QED
      BY <1>3, <1>4, <2>1, Limit DEF StoreBound, LimitNat
<1> QED
    BY <1>9, <1>10, <1>11, <1>12, <1>13, <1>14 DEF Inv

-----------------------------------------------------------------------------
\* The invariant holds in every reachable state.
THEOREM Invariance == Spec => []Inv
<1>1. Inv /\ [Next]_vars => Inv'
  <2> SUFFICES ASSUME Inv, [Next]_vars PROVE Inv'
      OBVIOUS
  <2>1. CASE Tick
      BY <2>1, TickInv
  <2>2. CASE \E h \in Handle : NoHandle(h) \/ Date(h) \/ Insert(h)
      BY <2>2, BeginInv, InsertInv
  <2>3. CASE Lookup
      BY <2>3, LookupInv
  <2>4. CASE UNCHANGED vars
      BY <2>4 DEF vars, Inv, TypeOK, RecordOfHandle, ServedUntilDue, EvictionNeedsPressure,
          StoreBound, Stored, NewResponse
  <2> QED
      BY <2>1, <2>2, <2>3, <2>4 DEF Next
<1> QED
    BY InitInv, <1>1, PTL DEF Spec

\* The variables keep their types.
THEOREM TypeCorrect == Spec => []TypeOK
<1>1. Inv => TypeOK
    BY DEF Inv
<1> QED
    BY Invariance, <1>1, PTL

\* The table holds the records of the calls that stored one and were not
\* evicted, with the date the call read.
THEOREM Records == Spec => []RecordOfHandle
<1>1. Inv => RecordOfHandle
    BY DEF Inv
<1> QED
    BY Invariance, <1>1, PTL

\* The table is well typed and bounded, and its records are true, at any time.
THEOREM TableCorrect == Spec => []TableOK
<1>1. Inv => TableOK
    BY DEF Inv, TableOK
<1> QED
    BY Invariance, <1>1, PTL

\* The table stays within MaxResponses (response_store.go:133).
THEOREM Bounded == Spec => []StoreBound
<1>1. Inv => StoreBound
    BY DEF Inv
<1> QED
    BY Invariance, <1>1, PTL

\* A handle that was given out is served until it is due or evicted, whatever
\* stale clocks the purges use.
THEOREM Served == Spec => []ServedUntilDue
<1>1. Inv => ServedUntilDue
    BY DEF Inv
<1> QED
    BY Invariance, <1>1, PTL

\* A handle is evicted only when as many others were stored as the table
\* holds, all but one of them no older.
THEOREM EvictionJustified == Spec => []EvictionNeedsPressure
<1>1. Inv => EvictionNeedsPressure
    BY DEF Inv
<1> QED
    BY Invariance, <1>1, PTL

\* A live body is evicted only when no expired one is left.
THEOREM ExpiredEvictedFirst == Spec => ExpiredGoFirst
<1>1. Inv /\ [Next]_vars => [ExpiredFirst]_vars
  <2> SUFFICES ASSUME Inv, Next, NEW h \in Unexpired(clock), h \notin DOMAIN responses',
                      NEW r \in DOMAIN responses \cap DOMAIN responses'
               PROVE  responses[r].expiresAt > clock
      BY DEF ExpiredFirst, Unexpired
  <2>0. /\ h \in DOMAIN responses
        /\ \A x \in DOMAIN responses : /\ x \in Stored /\ now[x] \in Nat
                                       /\ responses[x].expiresAt = now[x] + ResponseTTL
                                       /\ Created(x) = now[x]
        /\ responses[h].expiresAt > clock
        /\ clock \in Nat /\ ResponseTTL \in Nat
      BY ConfigAssumption DEF Unexpired, Inv, TypeOK, RecordOfHandle, NewResponse, Created, Stored
  <2>1. PICK k \in Handle : Insert(k)
      BY <2>0 DEF Next, Tick, NoHandle, Date, Lookup, Restrict
  <2>2. PICK E \in Evictions(Unexpired(now[k])) :
            DOMAIN responses' = (Unexpired(now[k]) \ E) \cup {k}
      BY <2>1 DEF Insert
  <2>3. h \in Unexpired(now[k])
    <3>1. now[k] \in Nat /\ now[k] <= clock
        BY DEF Inv, TypeOK
    <3> QED
        BY <2>0, <3>1 DEF Unexpired
  <2>4. r # k
      BY <2>0, <2>1 DEF Insert, Stored
  <2>5. Created(h) <= Created(r)
    <3>1. h \in E /\ r \in Unexpired(now[k]) \ E
        BY <2>2, <2>3, <2>4
    <3> QED
        BY <3>1 DEF Evictions, Older, Created
  <2> QED
      BY <2>0, <2>5
<1> QED
    BY Invariance, <1>1, PTL DEF Spec, ExpiredGoFirst

-----------------------------------------------------------------------------
(***************************************************************************)
(* The stored responses implement the abstract lease table.                *)
(***************************************************************************)

\* The abstract table counts as the responses do.
LEMMA SameCardinality == ASSUME NEW S PROVE Leases!Cardinality(S) = Cardinality(S)
BY DEF Leases!Cardinality, Cardinality, Leases!IsFiniteSet, IsFiniteSet

\* What purgeExpiredResponsesLocked removes is over, also by a clock that was
\* read some time ago.
LEMMA PurgedAreOver ==
    ASSUME Inv, NEW t \in Nat, t <= clock
    PROVE  DOMAIN responses \ Unexpired(t) \subseteq Leases!Over
<1> SUFFICES ASSUME NEW h \in DOMAIN responses \ Unexpired(t)
             PROVE  h \in Leases!Over
    OBVIOUS
<1>1. responses[h].expiresAt \in Nat /\ clock \in Nat
    BY DEF Inv, TypeOK, StoredResponse
<1>2. responses[h].expiresAt <= clock
    BY <1>1 DEF Unexpired
<1> QED
    BY <1>2 DEF Leases!Over, Leased

\* Storing a response grants a lease, after a sweep and the displacement of
\* the entries that are due first.
LEMMA InsertGrants ==
    ASSUME NEW h \in Handle, Inv, Insert(h)
    PROVE  \E E \in SUBSET DOMAIN Leased :
               Leases!Grant(h, h, DOMAIN responses \ Unexpired(now[h]), E)
<1> DEFINE U == Unexpired(now[h])
           gone == DOMAIN responses \ U
           lease == [item |-> h, until |-> now[h] + ResponseTTL]
<1>1. PICK E \in Evictions(U) :
          responses' = [x \in (U \ E) \cup {h} |->
                           IF x = h THEN NewResponse(now[h]) ELSE responses[x]]
    BY DEF Insert, DateOf
<1>2. /\ now[h] \in Nat /\ clock \in Nat /\ now[h] <= clock /\ ResponseTTL \in Nat
      /\ U \subseteq DOMAIN responses /\ IsFiniteSet(U)
      /\ DOMAIN Leased = DOMAIN responses
    BY TableFinite, FS_Subset, ConfigAssumption DEF Inv, TypeOK, Unexpired, Leased
<1>3. /\ E \subseteq U
      /\ Cardinality(U \ E) < MaxResponses
      /\ E # {} => Cardinality(U \ E) = MaxResponses - 1
      /\ \A e \in E, r \in U \ E : Created(e) <= Created(r)
    BY <1>2, EvictionFacts
<1>4. gone \subseteq Leases!Over
    BY <1>2, PurgedAreOver
<1>5. DOMAIN Leased \ (gone \cup E) = U \ E /\ E \subseteq DOMAIN Leased \ gone
    BY <1>2, <1>3
<1>6. \A e \in E, r \in U \ E : Leased[e].until <= Leased[r].until
  <2> SUFFICES ASSUME NEW e \in E, NEW r \in U \ E
               PROVE  Leased[e].until <= Leased[r].until
      OBVIOUS
  <2>1. \A x \in U : /\ now[x] \in Nat /\ Created(x) = now[x]
                     /\ Leased[x].until = now[x] + ResponseTTL
      BY <1>2 DEF Inv, TypeOK, RecordOfHandle, Stored, NewResponse, Created, Leased
  <2>2. Created(e) <= Created(r)
      BY <1>3
  <2> QED
      BY <1>2, <1>3, <2>1, <2>2
<1>7. h \notin U /\ h \notin Stored /\ Stored' = Stored \cup {h} /\ UNCHANGED clock
    BY <1>2 DEF Insert, Inv, TypeOK, RecordOfHandle, Stored
<1>8. Leased' = [x \in (U \ E) \cup {h} |-> IF x = h THEN lease ELSE Leased[x]]
    BY <1>1, <1>2 DEF Leased, NewResponse
<1>9. lease \in Leases!Lease(h)
    BY <1>2 DEF Leases!Lease
<1>10. Leases!Grant(h, h, gone, E)
  <2> HIDE DEF U, gone, lease
  <2>1. \E l \in Leases!Lease(h) :
            Leased' = [x \in (DOMAIN Leased \ (gone \cup E)) \cup {h} |->
                          IF x = h THEN l ELSE Leased[x]]
      BY <1>5, <1>8, <1>9
  <2>2. E # {} => TRUE /\ Leases!Cardinality(DOMAIN Leased \ (gone \cup E)) = MaxResponses - 1
      BY <1>3, <1>5, SameCardinality
  <2>3. Leases!Cardinality(DOMAIN Leased \ (gone \cup E)) < MaxResponses
      BY <1>3, <1>5, SameCardinality
  <2>4. h \notin DOMAIN Leased \ (gone \cup E)
      BY <1>5, <1>7
  <2> QED
      BY <1>4, <1>5, <1>6, <1>7, <2>1, <2>2, <2>3, <2>4 DEF Leases!Grant
<1> QED
    BY <1>2, <1>3, <1>10

\* Every behaviour of the response store is a behaviour of the lease table.
THEOREM Refinement == Spec => LeaseRefinement
<1>1. Init => Leases!Init
    BY DEF Init, Leases!Init, Leased, Stored
<1>2. Inv /\ [Next]_vars => [Leases!Next]_<<clock, Leased, Stored>>
  <2> SUFFICES ASSUME Inv, [Next]_vars, ~ UNCHANGED <<clock, Leased, Stored>>
               PROVE  Leases!Next
      OBVIOUS
  <2>0. /\ DOMAIN Leased = DOMAIN responses
        /\ \A t : DOMAIN responses \ Unexpired(t) \in SUBSET DOMAIN Leased
      BY DEF Leased
  <2>1. CASE Tick
    <3>1. clock' \in Nat /\ clock' > clock /\ UNCHANGED <<Leased, Stored>>
        BY <2>1 DEF Tick, Inv, TypeOK, Leased, Stored
    <3> QED
        BY <3>1 DEF Leases!Next, Leases!Advance
  <2>2. ASSUME NEW h \in Handle, NoHandle(h) \/ Date(h)
        PROVE  UNCHANGED <<clock, Leased, Stored>>
      BY <2>2 DEF NoHandle, Date, Instant, Inv, TypeOK, Leased, Stored
  <2>3. ASSUME NEW h \in Handle, Insert(h)
        PROVE  Leases!Next
      BY <2>0, <2>3, InsertGrants DEF Leases!Next
  <2>4. CASE Lookup
    <3>1. DOMAIN responses \ Unexpired(clock) \subseteq Leases!Over
        BY PurgedAreOver DEF Inv, TypeOK
    <3>2. Leased' = Leases!Without(DOMAIN responses \ Unexpired(clock))
        BY <2>4 DEF Lookup, Restrict, Unexpired, Leased, Leases!Without, Leases!Restrict
    <3>3. UNCHANGED <<clock, Stored>>
        BY <2>4 DEF Lookup, Stored
    <3> QED
        BY <2>0, <3>1, <3>2, <3>3 DEF Leases!Next, Leases!Sweep
  <2>5. CASE UNCHANGED vars
      BY <2>5 DEF vars, Leased, Stored
  <2> QED
      BY <2>1, <2>2, <2>3, <2>4, <2>5 DEF Next
<1> QED
    BY Invariance, <1>1, <1>2, PTL DEF Spec, LeaseRefinement, Leases!Spec
=============================================================================
