------------------------ MODULE CookieSessionsProofs ------------------------
(***************************************************************************)
(* Proofs about CookieSessions, for every set of calls and identifiers and *)
(* every limit: the table bound, and what becomes of the cookies.          *)
(***************************************************************************)
EXTENDS CookieSessions, FiniteSetTheorems, TLAPS

\* The inductive invariant: Linkage says how jars, calls and table hang
\* together; the table is finite, so its bound can be counted.
Inv ==
    /\ TypeOK
    /\ Linkage
    /\ IsFiniteSet(DOMAIN sessions)
    /\ SessionBound

-----------------------------------------------------------------------------
\* A purge keeps entries as they are and removes only expired ones
\* (session.go:108).
LEMMA PurgeKeeps ==
    ASSUME NEW t
    PROVE  /\ DOMAIN PurgeExpired(t) = Unexpired(t)
           /\ DOMAIN PurgeExpired(t) \subseteq DOMAIN sessions
           /\ \A s \in DOMAIN PurgeExpired(t) : PurgeExpired(t)[s] = sessions[s]
BY DEF PurgeExpired, Restrict, Unexpired

\* A use renews a lease and leaves the rest of the session alone.
LEMMA UsedState ==
    ASSUME NEW state \in SessionState, NEW t \in Nat
    PROVE  /\ Used(state, t) \in SessionState
           /\ Used(state, t).jar = state.jar
           /\ Used(state, t).createdAt = state.createdAt
           /\ Used(state, t).lastUsed = t
           /\ Used(state, t).expiresAt = t + SessionTTL
<1>1. t + SessionTTL \in Nat
    BY ConfigAssumption
<1> QED
    BY <1>1 DEF SessionState, Used

\* A table that is not full has room for one more.
LEMMA RoomLeft ==
    ASSUME Inv, NEW t, ~ Full(PurgeExpired(t))
    PROVE  /\ IsFiniteSet(DOMAIN PurgeExpired(t))
           /\ Cardinality(DOMAIN PurgeExpired(t)) < MaxSessions
<1>1. IsFiniteSet(DOMAIN PurgeExpired(t))
    BY PurgeKeeps, FS_Subset DEF Inv
<1>2. Cardinality(DOMAIN PurgeExpired(t)) \in Nat /\ MaxSessions \in Nat
    BY <1>1, FS_CardinalityType, ConfigAssumption
<1> QED
    BY <1>1, <1>2 DEF Full

\* A table that does not grow stays finite and within the limit.
LEMMA ShrinkBound ==
    ASSUME Inv, DOMAIN sessions' \subseteq DOMAIN sessions
    PROVE  IsFiniteSet(DOMAIN sessions') /\ SessionBound'
<1>1. /\ IsFiniteSet(DOMAIN sessions')
      /\ Cardinality(DOMAIN sessions') <= Cardinality(DOMAIN sessions)
    BY FS_Subset DEF Inv
<1>2. Cardinality(DOMAIN sessions') \in Nat /\ Cardinality(DOMAIN sessions) \in Nat
    BY <1>1, FS_CardinalityType DEF Inv
<1>3. MaxSessions \in Nat
    BY ConfigAssumption
<1> QED
    BY <1>1, <1>2, <1>3 DEF Inv, SessionBound

\* The starting state satisfies the invariant: nothing is in use.
LEMMA InitInv == Init => Inv
<1> SUFFICES ASSUME Init PROVE Inv
    OBVIOUS
<1>0. DOMAIN sessions = {}
    BY DEF Init
<1>1. TypeOK
    BY <1>0 DEF Init, TypeOK, Phase
<1>2. Linkage
    BY <1>0 DEF Init, Linkage, JarOfSession, JarOfCall, CookieOwner, Attached,
        LeaseOfSession, Holding
<1>3. IsFiniteSet(DOMAIN sessions) /\ SessionBound
    BY <1>0, FS_EmptySet, ConfigAssumption DEF SessionBound
<1> QED
    BY <1>1, <1>2, <1>3 DEF Inv

-----------------------------------------------------------------------------
\* Time passing keeps the invariant: no date lies in the future.
LEMMA TickInv == Inv /\ Tick => Inv'
<1> SUFFICES ASSUME Inv, Tick PROVE Inv'
    OBVIOUS
<1>1. clock' \in Nat /\ clock <= clock'
    BY DEF Tick, Inv, TypeOK
<1>2. TypeOK'
    BY <1>1 DEF Tick, Inv, TypeOK
<1>3. LeaseOfSession'
    BY <1>1 DEF Tick, Inv, TypeOK, SessionState, Linkage, LeaseOfSession
<1>4. Linkage'
    BY <1>3 DEF Tick, Inv, Linkage, JarOfSession, JarOfCall, CookieOwner, Attached
<1>5. (IsFiniteSet(DOMAIN sessions) /\ SessionBound)'
    BY DEF Tick, Inv, SessionBound
<1> QED
    BY <1>2, <1>4, <1>5 DEF Inv

\* Reading the clock keeps the invariant.
LEMMA EnterInv ==
    ASSUME NEW c \in Call, Inv, Enter(c)
    PROVE  Inv'
<1>1. TypeOK'
    BY DEF Enter, Instant, Inv, TypeOK, Phase
<1>2. \A x \in Call : pc'[x] \in Holding <=> pc[x] \in Holding
    BY DEF Enter, Instant, Inv, TypeOK, Holding
<1>3. Linkage'
    BY <1>2 DEF Enter, Instant, Inv, TypeOK, SessionState, Linkage, JarOfSession, JarOfCall,
        CookieOwner, Attached, LeaseOfSession
<1>4. (IsFiniteSet(DOMAIN sessions) /\ SessionBound)'
    BY DEF Enter, Instant, Inv, SessionBound
<1> QED
    BY <1>1, <1>3, <1>4 DEF Inv

\* Handing out the jar of a live session keeps the invariant.
LEMMA ReuseInv ==
    ASSUME NEW c \in Call, Inv, Reuse(c)
    PROVE  Inv'
<1> DEFINE kept == PurgeExpired(now[c])
           s == input[c]
<1>0. /\ DOMAIN kept \subseteq DOMAIN sessions
      /\ s \in DOMAIN kept
      /\ DOMAIN sessions' = DOMAIN kept
      /\ \A x \in DOMAIN kept : sessions'[x] =
            IF x = s THEN Used(sessions[x], now[c]) ELSE sessions[x]
    BY PurgeKeeps DEF Reuse
<1>1. /\ Used(sessions[s], now[c]) \in SessionState
      /\ Used(sessions[s], now[c]).jar = sessions[s].jar
      /\ Used(sessions[s], now[c]).createdAt = sessions[s].createdAt
      /\ Used(sessions[s], now[c]).lastUsed = now[c]
      /\ Used(sessions[s], now[c]).expiresAt = now[c] + SessionTTL
    BY <1>0, UsedState DEF Inv, TypeOK
<1>2. /\ pc[c] = "entered" /\ pc'[c] = "exchanging"
      /\ jar'[c] = sessions[s].jar
      /\ \A x \in Call \ {c} : pc'[x] = pc[x] /\ jar'[x] = jar[x]
      /\ sessions[s].jar # c
    BY <1>0, PurgeKeeps DEF Reuse, Inv, TypeOK, SessionState, Linkage, JarOfSession, Holding
<1>3. \A x \in DOMAIN sessions' : x \in DOMAIN sessions /\ sessions'[x].jar = sessions[x].jar
    BY <1>0, <1>1
<1>4. TypeOK'
  <2>1. DOMAIN sessions' \subseteq SessionID /\ \A x \in DOMAIN sessions' : sessions'[x] \in SessionState
      BY <1>0, <1>1 DEF Inv, TypeOK
  <2>2. jar' \in [Call -> Call] /\ pc' \in [Call -> Phase]
      BY <1>0, <1>2 DEF Reuse, Inv, TypeOK, SessionState, Phase
  <2>3. purged' \subseteq Call
      BY DEF Reuse, Severed, Inv, TypeOK
  <2> QED
      BY <2>1, <2>2, <2>3 DEF Reuse, Inv, TypeOK
<1>5. JarOfSession'
    BY <1>2, <1>3 DEF Reuse, Inv, TypeOK, SessionState, Linkage, JarOfSession, Holding
<1>6. JarOfCall'
    BY <1>0, <1>2 DEF Reuse, Inv, TypeOK, SessionState, Linkage, JarOfCall, JarOfSession, Holding
<1>7. CookieOwner'
    BY <1>2 DEF Reuse, Inv, TypeOK, Linkage, CookieOwner, Holding
<1>8. Attached'
  <2> SUFFICES ASSUME NEW x \in (cleared \cup purged)'
               PROVE  /\ pc'[x] \in Holding
                      /\ input'[x] \in DOMAIN sessions' => sessions'[input'[x]].jar # jar'[x]
      BY DEF Attached
  <2>1. x \in cleared \cup purged \/ x \in Severed(DOMAIN sessions \ DOMAIN kept)
      BY DEF Reuse
  <2>2. x \in Call /\ x # c /\ pc[x] \in Holding
      BY <2>1, <1>2 DEF Severed, Inv, TypeOK, Linkage, Attached, Holding
  <2>3. input' = input
      BY DEF Reuse
  <2> QED
      BY <2>1, <2>2, <2>3, <1>0, <1>2, <1>3 DEF Severed, Inv, Linkage, Attached
<1>9. LeaseOfSession'
    BY <1>0, <1>1 DEF Reuse, Inv, TypeOK, Linkage, LeaseOfSession
<1>10. (IsFiniteSet(DOMAIN sessions) /\ SessionBound)'
    BY <1>0, ShrinkBound
<1> QED
    BY <1>4, <1>5, <1>6, <1>7, <1>8, <1>9, <1>10 DEF Inv, Linkage

\* Creating a session keeps the invariant: its jar is one no cookie is in and
\* no call was given.
LEMMA CreateInv ==
    ASSUME NEW c \in Call, Inv, Create(c)
    PROVE  Inv'
<1> DEFINE kept == PurgeExpired(now[c])
           s == input[c]
<1>0. /\ DOMAIN kept \subseteq DOMAIN sessions
      /\ s \notin DOMAIN kept
      /\ Cardinality(DOMAIN kept) < MaxSessions
      /\ DOMAIN sessions' = DOMAIN kept \cup {s}
      /\ \A x \in DOMAIN kept : sessions'[x] = sessions[x]
      /\ sessions'[s] = NewSession(c, now[c])
    BY PurgeKeeps, RoomLeft DEF Create, Insert
<1>1. /\ NewSession(c, now[c]) \in SessionState
      /\ NewSession(c, now[c]).jar = c
      /\ NewSession(c, now[c]).createdAt = now[c]
      /\ NewSession(c, now[c]).lastUsed = now[c]
      /\ NewSession(c, now[c]).expiresAt = now[c] + SessionTTL
  <2>1. now[c] \in Nat /\ now[c] + SessionTTL \in Nat
      BY ConfigAssumption DEF Inv, TypeOK
  <2> QED
      BY <2>1 DEF NewSession, SessionState
<1>2. /\ pc[c] \notin Holding /\ pc'[c] = "exchanging"
      /\ jar'[c] = c
      /\ \A x \in Call \ {c} : pc'[x] = pc[x] /\ jar'[x] = jar[x]
    BY DEF Create, Inv, TypeOK, Holding
<1>3. TypeOK'
  <2>1. DOMAIN sessions' \subseteq SessionID /\ \A x \in DOMAIN sessions' : sessions'[x] \in SessionState
      BY <1>0, <1>1 DEF Inv, TypeOK
  <2>2. jar' \in [Call -> Call] /\ pc' \in [Call -> Phase]
      BY DEF Create, Inv, TypeOK, Phase
  <2>3. purged' \subseteq Call
      BY DEF Create, Severed, Inv, TypeOK
  <2> QED
      BY <2>1, <2>2, <2>3 DEF Create, Inv, TypeOK
<1>4. \A x \in DOMAIN kept : sessions[x].jar \in Call /\ sessions[x].jar # c
    BY <1>0, <1>2 DEF Inv, TypeOK, SessionState, Linkage, JarOfSession
<1>5. \A x \in Call : pc[x] \in Holding => jar[x] \in Call /\ jar[x] # c
    BY <1>2 DEF Inv, TypeOK, Linkage, JarOfCall
<1>6. JarOfSession'
  <2> SUFFICES ASSUME NEW x \in DOMAIN sessions'
               PROVE  /\ pc'[sessions'[x].jar] \in Holding
                      /\ input'[sessions'[x].jar] = x
                      /\ jar'[sessions'[x].jar] = sessions'[x].jar
      BY DEF JarOfSession
  <2>1. CASE x \in DOMAIN kept
      BY <2>1, <1>0, <1>2, <1>4 DEF Create, Inv, Linkage, JarOfSession
  <2>2. CASE x = s
      BY <2>2, <1>0, <1>1, <1>2 DEF Create, Holding
  <2> QED
      BY <2>1, <2>2, <1>0
<1>7. JarOfCall'
    BY <1>2, <1>5 DEF Create, Inv, Linkage, JarOfCall, Holding
<1>8. CookieOwner'
    BY <1>2 DEF Create, Inv, TypeOK, Linkage, CookieOwner, Holding
<1>9. Attached'
  <2> SUFFICES ASSUME NEW x \in (cleared \cup purged)'
               PROVE  /\ pc'[x] \in Holding
                      /\ input'[x] \in DOMAIN sessions' => sessions'[input'[x]].jar # jar'[x]
      BY DEF Attached
  <2>1. x \in cleared \cup purged \/ x \in Severed(DOMAIN sessions \ DOMAIN kept)
      BY DEF Create
  <2>2. x \in Call /\ x # c /\ pc[x] \in Holding
      BY <2>1, <1>2 DEF Severed, Inv, TypeOK, Linkage, Attached
  <2>3. input' = input
      BY DEF Create
  <2>4. CASE input[x] = s
      BY <2>2, <2>3, <2>4, <1>0, <1>1, <1>2, <1>5
  <2>5. CASE input[x] # s
      BY <2>1, <2>2, <2>3, <2>5, <1>0, <1>2 DEF Severed, Inv, Linkage, Attached
  <2> QED
      BY <2>4, <2>5
<1>10. LeaseOfSession'
  <2>1. \A x \in DOMAIN kept : /\ sessions'[x].expiresAt = sessions'[x].lastUsed + SessionTTL
                              /\ sessions'[x].createdAt <= clock
                              /\ sessions'[x].lastUsed <= clock
      BY <1>0 DEF Inv, Linkage, LeaseOfSession
  <2>2. now[c] <= clock /\ clock' = clock
      BY DEF Create, Inv, TypeOK
  <2> QED
      BY <1>0, <1>1, <2>1, <2>2 DEF LeaseOfSession
<1>11. IsFiniteSet(DOMAIN sessions') /\ SessionBound'
  <2>1. IsFiniteSet(DOMAIN kept)
      BY <1>0, FS_Subset DEF Inv
  <2>2. /\ IsFiniteSet(DOMAIN kept \cup {s})
        /\ Cardinality(DOMAIN kept \cup {s}) = Cardinality(DOMAIN kept) + 1
      BY <2>1, <1>0, FS_AddElement
  <2>3. Cardinality(DOMAIN kept) \in Nat /\ MaxSessions \in Nat
      BY <2>1, FS_CardinalityType, ConfigAssumption
  <2> HIDE DEF kept, s
  <2> QED
      BY <1>0, <2>2, <2>3 DEF SessionBound
<1> QED
    BY <1>3, <1>6, <1>7, <1>8, <1>9, <1>10, <1>11 DEF Inv, Linkage

-----------------------------------------------------------------------------
\* Removing sessions keeps the invariant when the calls that held one of them
\* are the ones the history variables gain.
LEMMA RemovalInv ==
    ASSUME NEW gone, Inv,
           DOMAIN sessions' \subseteq DOMAIN sessions \ gone,
           \A x \in DOMAIN sessions' : sessions'[x] = sessions[x],
           pc' \in [Call -> Phase],
           \A x \in Call : pc'[x] \in Holding <=> pc[x] \in Holding,
           UNCHANGED <<clock, cookies, input, now, jar>>,
           (cleared \cup purged)' \subseteq cleared \cup purged \cup Severed(gone)
    PROVE  Inv'
<1>1. TypeOK'
  <2>1. (cleared \cup purged)' \subseteq Call
      BY DEF Severed, Inv, TypeOK
  <2>2. cleared' \subseteq Call /\ purged' \subseteq Call
      BY <2>1
  <2> QED
      BY <2>2 DEF Inv, TypeOK
<1>2. JarOfSession' /\ JarOfCall' /\ CookieOwner'
    BY DEF Inv, TypeOK, SessionState, Linkage, JarOfSession, JarOfCall, CookieOwner
<1>3. Attached'
    BY DEF Severed, Inv, TypeOK, Linkage, Attached
<1>4. LeaseOfSession'
    BY DEF Inv, Linkage, LeaseOfSession
<1>5. IsFiniteSet(DOMAIN sessions') /\ SessionBound'
    BY ShrinkBound
<1> QED
    BY <1>1, <1>2, <1>3, <1>4, <1>5 DEF Inv, Linkage

\* A refusal keeps the invariant; it may have purged.
LEMMA RefuseInv ==
    ASSUME NEW c \in Call, Inv, Refuse(c)
    PROVE  Inv'
<1> DEFINE kept == PurgeExpired(now[c])
           gone == DOMAIN sessions \ DOMAIN kept
<1>1. /\ DOMAIN sessions' \subseteq DOMAIN sessions \ gone
      /\ \A x \in DOMAIN sessions' : sessions'[x] = sessions[x]
    BY PurgeKeeps DEF Refuse
<1>2. /\ pc' \in [Call -> Phase]
      /\ \A x \in Call : pc'[x] \in Holding <=> pc[x] \in Holding
    BY DEF Refuse, Inv, TypeOK, Phase, Holding
<1>3. /\ UNCHANGED <<clock, cookies, input, now, jar>>
      /\ (cleared \cup purged)' \subseteq cleared \cup purged \cup Severed(gone)
    BY DEF Refuse
<1> HIDE DEF gone
<1> QED
    BY <1>1, <1>2, <1>3, RemovalInv

\* Clearing a session keeps the invariant: the calls that still hold its jar
\* are recorded, and their jar is not in the table.
LEMMA ClearInv ==
    ASSUME NEW s \in SessionID, Inv, ClearSession(s)
    PROVE  Inv'
<1> DEFINE kept == PurgeExpired(clock)
           gone == (DOMAIN sessions \ DOMAIN kept) \cup {s}
<1>1. /\ DOMAIN sessions' = DOMAIN kept \ {s}
      /\ \A x \in DOMAIN sessions' : sessions'[x] = kept[x]
    BY DEF ClearSession, Restrict
<1>2. /\ DOMAIN sessions' \subseteq DOMAIN sessions \ gone
      /\ \A x \in DOMAIN sessions' : sessions'[x] = sessions[x]
    BY <1>1, PurgeKeeps
<1>3. /\ pc' \in [Call -> Phase]
      /\ \A x \in Call : pc'[x] \in Holding <=> pc[x] \in Holding
    BY DEF ClearSession, Inv, TypeOK
<1>4. UNCHANGED <<clock, cookies, input, now, jar>>
    BY DEF ClearSession
<1>5. (cleared \cup purged)' \subseteq cleared \cup purged \cup Severed(gone)
    BY DEF ClearSession, Severed
<1> HIDE DEF gone
<1> QED
    BY <1>2, <1>3, <1>4, <1>5, RemovalInv

\* Inspecting a session keeps the invariant; it may have purged.
LEMMA InfoInv == Inv /\ SessionInfo => Inv'
<1> SUFFICES ASSUME Inv, SessionInfo PROVE Inv'
    OBVIOUS
<1> DEFINE kept == PurgeExpired(clock)
           gone == DOMAIN sessions \ DOMAIN kept
<1>1. /\ DOMAIN sessions' \subseteq DOMAIN sessions \ gone
      /\ \A x \in DOMAIN sessions' : sessions'[x] = sessions[x]
    BY PurgeKeeps DEF SessionInfo
<1>2. /\ pc' \in [Call -> Phase]
      /\ \A x \in Call : pc'[x] \in Holding <=> pc[x] \in Holding
    BY DEF SessionInfo, Inv, TypeOK
<1>3. /\ UNCHANGED <<clock, cookies, input, now, jar>>
      /\ (cleared \cup purged)' \subseteq cleared \cup purged \cup Severed(gone)
    BY DEF SessionInfo
<1> HIDE DEF gone
<1> QED
    BY <1>1, <1>2, <1>3, RemovalInv

\* Storing a cookie keeps the invariant: it goes in the jar of its call.
LEMMA ReceiveInv ==
    ASSUME NEW c \in Call, Inv, ReceiveCookies(c)
    PROVE  Inv'
<1>1. /\ cookies' \in [Call -> SUBSET Call]
      /\ \A j \in Call : \A k \in cookies'[j] : k \in cookies[j] \/ (k = c /\ j = jar[c])
    BY DEF ReceiveCookies, CookieJar, Inv, TypeOK
<1>2. TypeOK'
    BY <1>1 DEF ReceiveCookies, CookieJar, Inv, TypeOK
<1>3. CookieOwner'
    BY <1>1 DEF ReceiveCookies, CookieJar, Inv, Linkage, CookieOwner, Holding
<1>4. Linkage'
    BY <1>3 DEF ReceiveCookies, CookieJar, Inv, Linkage, JarOfSession, JarOfCall, Attached, LeaseOfSession
<1>5. (IsFiniteSet(DOMAIN sessions) /\ SessionBound)'
    BY DEF ReceiveCookies, CookieJar, Inv, SessionBound
<1> QED
    BY <1>2, <1>4, <1>5 DEF Inv

\* Ending the request, with an error or with a response, keeps the invariant.
LEMMA EndInv ==
    ASSUME NEW c \in Call, Inv, Fail(c) \/ Finish(c)
    PROVE  Inv'
<1>1. /\ pc' \in [Call -> Phase]
      /\ \A x \in Call : pc'[x] \in Holding <=> pc[x] \in Holding
    BY DEF Fail, Finish, Instant, Inv, TypeOK, Phase, Holding
<1>2. now' \in [Call -> Nat] /\ \A x \in Call : now'[x] <= clock
    BY DEF Fail, Finish, Instant, Inv, TypeOK
<1>3. UNCHANGED <<clock, sessions, cookies, input, jar, cleared, purged>>
    BY DEF Fail, Finish
<1>4. TypeOK'
    BY <1>1, <1>2, <1>3 DEF Inv, TypeOK
<1>5. Linkage'
    BY <1>1, <1>3 DEF Inv, TypeOK, SessionState, Linkage, JarOfSession, JarOfCall,
        CookieOwner, Attached, LeaseOfSession
<1>6. (IsFiniteSet(DOMAIN sessions) /\ SessionBound)'
    BY <1>3 DEF Inv, SessionBound
<1> QED
    BY <1>4, <1>5, <1>6 DEF Inv

\* Touching a name keeps the invariant, whatever became of the session the
\* call was given: a touch changes dates only.
LEMMA TouchInv ==
    ASSUME NEW c \in Call, Inv, Touch(c)
    PROVE  Inv'
<1>1. /\ pc' \in [Call -> Phase]
      /\ \A x \in Call : pc'[x] \in Holding <=> pc[x] \in Holding
    BY DEF Touch, Touched, Inv, TypeOK, Phase, Holding
<1>2. /\ DOMAIN sessions' = DOMAIN sessions
      /\ \A x \in DOMAIN sessions :
            sessions'[x] = sessions[x] \/ sessions'[x] = Used(sessions[x], now[c])
    BY DEF Touch, Touched
<1>3. \A x \in DOMAIN sessions : /\ sessions'[x] \in SessionState
                                /\ sessions'[x].jar = sessions[x].jar
  <2>1. now[c] \in Nat /\ \A x \in DOMAIN sessions : sessions[x] \in SessionState
      BY DEF Inv, TypeOK
  <2>2. \A x \in DOMAIN sessions : /\ Used(sessions[x], now[c]) \in SessionState
                                  /\ Used(sessions[x], now[c]).jar = sessions[x].jar
      BY <2>1, UsedState
  <2> QED
      BY <1>2, <2>1, <2>2
<1>4. TypeOK'
    BY <1>1, <1>2, <1>3 DEF Touch, Touched, Inv, TypeOK
<1>5. LeaseOfSession'
  <2> SUFFICES ASSUME NEW x \in DOMAIN sessions
               PROVE  /\ sessions'[x].expiresAt = sessions'[x].lastUsed + SessionTTL
                      /\ sessions'[x].createdAt <= clock
                      /\ sessions'[x].lastUsed <= clock
      BY <1>2 DEF LeaseOfSession, Touch
  <2>1. sessions[x] \in SessionState /\ now[c] \in Nat /\ now[c] <= clock
      BY DEF Inv, TypeOK
  <2>2. CASE sessions'[x] = sessions[x]
      BY <2>2 DEF Inv, Linkage, LeaseOfSession
  <2>3. CASE sessions'[x] = Used(sessions[x], now[c])
      BY <2>1, <2>3, UsedState DEF Inv, Linkage, LeaseOfSession
  <2> QED
      BY <1>2, <2>2, <2>3
<1>6. Linkage'
    BY <1>1, <1>2, <1>3, <1>5 DEF Touch, Touched, Inv, TypeOK, SessionState, Linkage, JarOfSession,
        JarOfCall, CookieOwner, Attached
<1>7. (IsFiniteSet(DOMAIN sessions) /\ SessionBound)'
    BY <1>2 DEF Inv, SessionBound
<1> QED
    BY <1>4, <1>6, <1>7 DEF Inv

-----------------------------------------------------------------------------
\* The invariant holds in every reachable state.
THEOREM Invariance == Spec => []Inv
<1>1. Inv /\ [Next]_vars => Inv'
  <2> SUFFICES ASSUME Inv, [Next]_vars PROVE Inv'
      OBVIOUS
  <2>1. CASE Tick
      BY <2>1, TickInv
  <2>2. CASE \E c \in Call : CallStep(c)
    <3> PICK c \in Call : CallStep(c)
        BY <2>2
    <3> QED
        BY EnterInv, ReuseInv, CreateInv, RefuseInv, ReceiveInv, EndInv, TouchInv DEF CallStep
  <2>3. CASE \E s \in SessionID : ClearSession(s)
      BY <2>3, ClearInv
  <2>4. CASE SessionInfo
      BY <2>4, InfoInv
  <2>5. CASE UNCHANGED vars
      BY <2>5 DEF vars, Inv, TypeOK, Linkage, JarOfSession, JarOfCall, CookieOwner, Attached,
          LeaseOfSession, SessionBound
  <2> QED
      BY <2>1, <2>2, <2>3, <2>4, <2>5 DEF Next
<1> QED
    BY InitInv, <1>1, PTL DEF Spec

\* The variables keep their types.
THEOREM TypeCorrect == Spec => []TypeOK
<1>1. Inv => TypeOK
    BY DEF Inv
<1> QED
    BY Invariance, <1>1, PTL

\* Table, jars and running calls hang together as the other results need it.
THEOREM Linked == Spec => []Linkage
<1>1. Inv => Linkage
    BY DEF Inv
<1> QED
    BY Invariance, <1>1, PTL

\* The table is well typed, bounded and linked up with the calls at any time.
THEOREM TableCorrect == Spec => []TableOK
<1>1. Inv => TableOK
    BY DEF Inv, TableOK
<1> QED
    BY Invariance, <1>1, PTL

\* However many calls race for it, the table stays within MaxSessions
\* (session.go:82).
THEOREM Bounded == Spec => []SessionBound
<1>1. Inv => SessionBound
    BY DEF Inv
<1> QED
    BY Invariance, <1>1, PTL

\* No jar mixes the cookies of two identifiers, in the table or in the hands of
\* a running call.
THEOREM Isolation == Spec => []CookieIsolation
<1>1. Inv => CookieIsolation
  <2> SUFFICES ASSUME Inv PROVE CookieIsolation
      OBVIOUS
  <2>1. \A j \in Call : \A k \in cookies[j] : k \in Call /\ input[j] = input[k]
      BY DEF Inv, TypeOK, Linkage, CookieOwner, JarOfCall
  <2>2. \A s \in DOMAIN sessions : \A k \in cookies[sessions[s].jar] : input[k] = s
      BY <2>1 DEF Inv, TypeOK, SessionState, Linkage, JarOfSession
  <2>3. \A c \in Call : pc[c] \in Holding => \A k \in cookies[jar[c]] : input[k] = input[c]
      BY <2>1 DEF Inv, TypeOK, Linkage, JarOfCall
  <2> QED
      BY <2>2, <2>3 DEF CookieIsolation
<1> QED
    BY Invariance, <1>1, PTL

\* The cookies of a session that was cleared, or purged after it had expired,
\* never show up in the table again, also those its running calls still receive.
THEOREM GoneForGood == Spec => []GoneCookiesStayGone
<1>1. Inv => GoneCookiesStayGone
  <2> SUFFICES ASSUME Inv, NEW s \in DOMAIN sessions,
                      NEW k \in cookies[sessions[s].jar], k \in cleared \cup purged
               PROVE  FALSE
      BY DEF GoneCookiesStayGone
  <2>1. k \in Call /\ sessions[s].jar \in Call
      BY DEF Inv, TypeOK, SessionState
  <2>2. jar[k] = sessions[s].jar /\ input[k] = s
      BY <2>1 DEF Inv, Linkage, CookieOwner, JarOfCall, JarOfSession
  <2> QED
      BY <2>1, <2>2 DEF Inv, Linkage, Attached
<1> QED
    BY Invariance, <1>1, PTL

-----------------------------------------------------------------------------
\* A live session leaves the table only when it is cleared by name, and its
\* jar is never replaced: a clock that was read too early purges too little,
\* never too much.
THEOREM LiveSessionsKept == Spec => LiveSessionKeepsJar
<1>1. Inv /\ [Next]_vars => [JarKept]_vars
  <2> SUFFICES ASSUME Inv, Next, NEW s \in Unexpired(clock), ~ ClearSession(s)
               PROVE  s \in DOMAIN sessions' /\ sessions'[s].jar = sessions[s].jar
      BY DEF JarKept
  <2>0. /\ s \in DOMAIN sessions
        /\ sessions[s] \in SessionState
        /\ clock \in Nat
        /\ sessions[s].expiresAt > clock
      BY DEF Unexpired, Inv, TypeOK
  <2>1. ASSUME NEW t \in Nat, t <= clock
        PROVE  s \in DOMAIN PurgeExpired(t) /\ PurgeExpired(t)[s] = sessions[s]
    <3>1. sessions[s].expiresAt \in Nat
        BY <2>0 DEF SessionState
    <3>2. s \in Unexpired(t)
        BY <2>0, <2>1, <3>1 DEF Unexpired
    <3> QED
        BY <3>2, PurgeKeeps
  <2>2. \A c \in Call : now[c] \in Nat /\ now[c] <= clock
      BY DEF Inv, TypeOK
  <2>3. ASSUME NEW c \in Call, CallStep(c)
        PROVE  s \in DOMAIN sessions' /\ sessions'[s].jar = sessions[s].jar
    <3>1. now[c] \in Nat /\ Used(sessions[s], now[c]).jar = sessions[s].jar
        BY <2>0, <2>2, UsedState
    <3>2. CASE Reuse(c)
        BY <2>1, <2>2, <3>1, <3>2 DEF Reuse
    <3>3. CASE Create(c)
        BY <2>1, <2>2, <3>3 DEF Create, Insert
    <3>4. CASE Refuse(c)
        BY <2>1, <2>2, <3>4 DEF Refuse
    <3>5. CASE Touch(c)
        BY <2>0, <3>1, <3>5 DEF Touch, Touched
    <3> QED
        BY <2>0, <2>3, <3>2, <3>3, <3>4, <3>5 DEF CallStep, Enter, Instant, ReceiveCookies, Fail, Finish
  <2>4. ASSUME NEW x \in SessionID, ClearSession(x)
        PROVE  s \in DOMAIN sessions' /\ sessions'[s].jar = sessions[s].jar
    <3>1. x # s
        BY <2>4
    <3> QED
        BY <2>0, <2>1, <2>4, <3>1 DEF ClearSession, Restrict
  <2> QED
      BY <2>0, <2>1, <2>3, <2>4 DEF Next, Tick, SessionInfo
<1> QED
    BY Invariance, <1>1, PTL DEF Spec, LiveSessionKeepsJar

-----------------------------------------------------------------------------
(***************************************************************************)
(* The sessions implement the abstract lease table: every step of a call   *)
(* grants, renews, revokes or sweeps, or leaves the abstract state alone.  *)
(***************************************************************************)

\* What purgeExpiredSessionsLocked removes is over, also by a clock that was
\* read some time ago.
LEMMA PurgedAreOver ==
    ASSUME Inv, NEW t \in Nat, t <= clock
    PROVE  DOMAIN sessions \ DOMAIN PurgeExpired(t) \subseteq Leases!Over
<1> SUFFICES ASSUME NEW s \in DOMAIN sessions \ Unexpired(t)
             PROVE  s \in Leases!Over
    BY PurgeKeeps
<1>1. sessions[s].expiresAt \in Nat /\ clock \in Nat
    BY DEF Inv, TypeOK, SessionState
<1>2. sessions[s].expiresAt <= clock
    BY <1>1 DEF Unexpired
<1> QED
    BY <1>2 DEF Leases!Over, Leased

\* A purge is a sweep.
LEMMA PurgeIsSweep ==
    ASSUME Inv, NEW t \in Nat, t <= clock, sessions' = PurgeExpired(t),
           UNCHANGED <<clock, Issued>>
    PROVE  Leases!Sweep(DOMAIN sessions \ DOMAIN PurgeExpired(t))
<1>1. Leased' = Leases!Without(DOMAIN sessions \ DOMAIN PurgeExpired(t))
    BY PurgeKeeps DEF Leased, Leases!Without, Leases!Restrict
<1> QED
    BY <1>1, PurgedAreOver DEF Leases!Sweep

\* Reuse renews the lease.
LEMMA ReuseRenews ==
    ASSUME NEW c \in Call, Inv, Reuse(c)
    PROVE  Leases!Renew(input[c], DOMAIN sessions \ DOMAIN PurgeExpired(now[c]))
<1> DEFINE kept == PurgeExpired(now[c])
           s == input[c]
           gone == DOMAIN sessions \ DOMAIN kept
           lease == [item |-> sessions[s].jar, until |-> now[c] + SessionTTL]
<1>0. /\ now[c] \in Nat /\ clock \in Nat /\ now[c] <= clock
      /\ s \in DOMAIN kept /\ DOMAIN kept \subseteq DOMAIN sessions
      /\ sessions[s] \in SessionState
    BY PurgeKeeps DEF Reuse, Inv, TypeOK
<1>1. gone \subseteq Leases!Over
    BY <1>0, PurgedAreOver
<1>2. s \in DOMAIN Leased \ gone
    BY <1>0 DEF Leased
<1>3. lease \in Leases!Lease(Leased[s].item)
    BY <1>0 DEF Leased, Leases!Lease
<1>4. Leased' = [Leases!Without(gone) EXCEPT ![s] = lease]
  <2>1. /\ DOMAIN sessions' = DOMAIN kept
        /\ \A x \in DOMAIN kept : sessions'[x] =
              IF x = s THEN Used(sessions[x], now[c]) ELSE sessions[x]
      BY PurgeKeeps DEF Reuse
  <2>2. /\ Used(sessions[s], now[c]).jar = sessions[s].jar
        /\ Used(sessions[s], now[c]).expiresAt = now[c] + SessionTTL
      BY <1>0, UsedState
  <2>3. Leased' = [x \in DOMAIN kept |->
                                  IF x = s THEN lease ELSE Leased[x]]
      BY <1>0, <2>1, <2>2 DEF Leased
  <2>4. Leases!Without(gone) = [x \in DOMAIN kept |-> Leased[x]]
      BY <1>0 DEF Leased, Leases!Without, Leases!Restrict
  <2> HIDE DEF kept, lease, gone
  <2> QED
      BY <2>3, <2>4
<1>5. sessions[s].jar # c
    BY <1>0 DEF Reuse, Inv, TypeOK, Linkage, JarOfSession, Holding
<1>6. UNCHANGED <<clock, Issued>>
    BY <1>0, <1>5, PurgeKeeps DEF Reuse, Inv, TypeOK, Issued, Holding
<1> QED
    BY <1>1, <1>2, <1>3, <1>4, <1>6 DEF Leases!Renew

\* The abstract table counts as the sessions do.
LEMMA SameCardinality == ASSUME NEW S PROVE Leases!Cardinality(S) = Cardinality(S)
BY DEF Leases!Cardinality, Cardinality, Leases!IsFiniteSet, IsFiniteSet

\* Create grants a lease on a new jar and displaces nothing.
LEMMA CreateGrants ==
    ASSUME NEW c \in Call, Inv, Create(c)
    PROVE  Leases!Grant(input[c], c, DOMAIN sessions \ DOMAIN PurgeExpired(now[c]), {})
<1> DEFINE kept == PurgeExpired(now[c])
           s == input[c]
           gone == DOMAIN sessions \ DOMAIN kept
           lease == [item |-> c, until |-> now[c] + SessionTTL]
<1>0. /\ now[c] \in Nat /\ clock \in Nat /\ now[c] <= clock
      /\ s \notin DOMAIN kept /\ DOMAIN kept \subseteq DOMAIN sessions
    BY PurgeKeeps DEF Create, Inv, TypeOK
<1>1. gone \subseteq Leases!Over
    BY <1>0, PurgedAreOver
<1>2. DOMAIN Leased \ (gone \cup {}) = DOMAIN kept
    BY <1>0 DEF Leased
<1>3. lease \in Leases!Lease(c)
    BY <1>0 DEF Leases!Lease
<1>4. Leased' = [x \in DOMAIN kept \cup {s} |->
                                IF x = s THEN lease ELSE Leased[x]]
    BY <1>0, PurgeKeeps DEF Create, Insert, NewSession, Leased
<1>5. c \notin Issued /\ Issued' = Issued \cup {c} /\ clock' = clock
    BY DEF Create, Inv, TypeOK, Issued, Holding
<1>6. Leases!Cardinality(DOMAIN kept) < MaxSessions
    BY SameCardinality, RoomLeft DEF Create
<1>7. Leases!Grant(s, c, gone, {})
  <2> HIDE DEF kept, s, gone, lease
  <2>1. \E l \in Leases!Lease(c) :
            Leased' = [x \in (DOMAIN Leased \ (gone \cup {})) \cup {s} |->
                          IF x = s THEN l ELSE Leased[x]]
      BY <1>2, <1>3, <1>4
  <2> QED
      BY <1>0, <1>1, <1>2, <1>5, <1>6, <2>1 DEF Leases!Grant
<1> QED
    BY <1>7

\* A touch renews the lease of the name, if there is one.
LEMMA TouchRenews ==
    ASSUME NEW c \in Call, Inv, Touch(c)
    PROVE  Leases!Renew(input[c], {}) \/ UNCHANGED <<clock, Leased, Issued>>
<1> DEFINE s == input[c]
           lease == [item |-> sessions[s].jar, until |-> now[c] + SessionTTL]
<1>0. /\ now[c] \in Nat /\ clock \in Nat /\ now[c] <= clock
      /\ \A x \in DOMAIN sessions : sessions[x] \in SessionState
    BY DEF Inv, TypeOK
<1>1. UNCHANGED <<clock, Issued>>
    BY DEF Touch, Touched, Inv, TypeOK, Issued, Holding
<1>2. CASE s \notin DOMAIN sessions
    BY <1>1, <1>2 DEF Touch, Touched, Leased
<1>3. CASE s \in DOMAIN sessions
  <2>1. /\ DOMAIN sessions' = DOMAIN sessions
        /\ \A x \in DOMAIN sessions : sessions'[x] =
              IF x = s THEN Used(sessions[x], now[c]) ELSE sessions[x]
      BY <1>3 DEF Touch, Touched
  <2>2. /\ Used(sessions[s], now[c]).jar = sessions[s].jar
        /\ Used(sessions[s], now[c]).expiresAt = now[c] + SessionTTL
      BY <1>0, <1>3, UsedState
  <2>3. Leased' = [x \in DOMAIN sessions |-> IF x = s THEN lease ELSE Leased[x]]
      BY <1>3, <2>1, <2>2 DEF Leased
  <2>4. Leases!Without({}) = [x \in DOMAIN sessions |-> Leased[x]]
      BY DEF Leased, Leases!Without, Leases!Restrict
  <2>5. lease \in Leases!Lease(Leased[s].item) /\ s \in DOMAIN Leased
      BY <1>0, <1>3 DEF Leased, Leases!Lease
  <2>6. Leases!Renew(s, {})
    <3> HIDE DEF s, lease
    <3>1. Leased' = [Leases!Without({}) EXCEPT ![s] = lease]
        BY <2>3, <2>4
    <3> QED
        BY <1>1, <2>5, <3>1 DEF Leases!Renew
  <2> QED
      BY <2>6
<1> QED
    BY <1>2, <1>3

\* Clearing revokes, and sweeps what has expired.
LEMMA ClearRevokes ==
    ASSUME NEW s \in SessionID, Inv, ClearSession(s)
    PROVE  Leases!Revoke(s, DOMAIN sessions \ DOMAIN PurgeExpired(clock))
<1> DEFINE kept == PurgeExpired(clock)
           gone == DOMAIN sessions \ DOMAIN kept
<1>1. gone \subseteq Leases!Over
    BY PurgedAreOver DEF Inv, TypeOK
<1>2. /\ DOMAIN sessions' = DOMAIN sessions \ (gone \cup {s})
      /\ \A x \in DOMAIN sessions' : sessions'[x] = sessions[x]
    BY PurgeKeeps DEF ClearSession, Restrict
<1>3. Leased' = Leases!Without(gone \cup {s})
  <2> HIDE DEF gone
  <2> QED
      BY <1>2 DEF Leased, Leases!Without, Leases!Restrict
<1>4. UNCHANGED <<clock, Issued>>
    BY DEF ClearSession, Issued
<1> QED
    BY <1>1, <1>3, <1>4 DEF Leases!Revoke

\* Every behaviour of the sessions is a behaviour of the lease table.
THEOREM Refinement == Spec => LeaseRefinement
<1>1. Init => Leases!Init
    BY DEF Init, Leases!Init, Leased, Issued, Holding
<1>2. Inv /\ [Next]_vars => [Leases!Next]_<<clock, Leased, Issued>>
  <2> SUFFICES ASSUME Inv, [Next]_vars,
                      ~ UNCHANGED <<clock, Leased, Issued>>
               PROVE  Leases!Next
      OBVIOUS
  <2> DEFINE gone(t) == DOMAIN sessions \ DOMAIN PurgeExpired(t)
  <2>0. /\ DOMAIN Leased = DOMAIN sessions
        /\ {} \in SUBSET DOMAIN Leased
        /\ \A t : gone(t) \in SUBSET DOMAIN Leased
      BY DEF Leased
  <2>1. CASE Tick
    <3>1. clock' \in Nat /\ clock' > clock /\ UNCHANGED <<Leased, Issued>>
        BY <2>1 DEF Tick, Inv, TypeOK, Leased, Issued
    <3> QED
        BY <3>1 DEF Leases!Next, Leases!Advance
  <2>2. ASSUME NEW c \in Call, CallStep(c)
        PROVE  Leases!Next
    <3>0. input[c] \in SessionID /\ now[c] \in Nat /\ now[c] <= clock
        BY DEF Inv, TypeOK
    <3>1. CASE Enter(c) \/ ReceiveCookies(c) \/ Fail(c) \/ Finish(c)
      <4>1. \A x \in Call : pc'[x] \in Holding <=> pc[x] \in Holding
          BY <3>1 DEF Enter, Instant, ReceiveCookies, Fail, Finish, Instant, Inv, TypeOK, Holding
      <4>2. UNCHANGED <<clock, sessions, jar>>
          BY <3>1 DEF Enter, Instant, ReceiveCookies, Fail, Finish
      <4> QED
          BY <4>1, <4>2 DEF Leased, Issued
    <3>2. CASE Reuse(c)
        BY <2>0, <3>0, <3>2, ReuseRenews DEF Leases!Next
    <3>3. CASE Create(c)
        BY <2>0, <3>0, <3>3, CreateGrants DEF Leases!Next
    <3>4. CASE Refuse(c)
      <4>1. UNCHANGED <<clock, Issued>>
          BY <3>4 DEF Refuse, Inv, TypeOK, Issued, Holding
      <4>2. Leases!Sweep(gone(now[c]))
          BY <3>0, <3>4, <4>1, PurgeIsSweep DEF Refuse
      <4> QED
          BY <2>0, <4>2 DEF Leases!Next
    <3>5. CASE Touch(c)
        BY <2>0, <3>0, <3>5, TouchRenews DEF Leases!Next
    <3> QED
        BY <2>2, <3>1, <3>2, <3>3, <3>4, <3>5 DEF CallStep
  <2>3. ASSUME NEW s \in SessionID, ClearSession(s)
        PROVE  Leases!Next
      BY <2>0, <2>3, ClearRevokes DEF Leases!Next
  <2>4. CASE SessionInfo
    <3>1. clock \in Nat /\ UNCHANGED <<clock, Issued>> /\ sessions' = PurgeExpired(clock)
        BY <2>4 DEF SessionInfo, Inv, TypeOK, Issued
    <3>2. Leases!Sweep(gone(clock))
        BY <3>1, PurgeIsSweep
    <3> QED
        BY <2>0, <3>2 DEF Leases!Next
  <2>5. CASE UNCHANGED vars
      BY <2>5 DEF vars, Leased, Issued
  <2> QED
      BY <2>1, <2>2, <2>3, <2>4, <2>5 DEF Next
<1> QED
    BY Invariance, <1>1, <1>2, PTL DEF Spec, LeaseRefinement, Leases!Spec
=============================================================================
