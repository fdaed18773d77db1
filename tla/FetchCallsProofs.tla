-------------------------- MODULE FetchCallsProofs --------------------------
(***************************************************************************)
(* Theorems about FetchCalls.  What holds of the two tables is taken from  *)
(* CookieSessionsProofs and ResponseStoreProofs: every step of a call is a *)
(* step of each table or leaves it alone.                                  *)
(***************************************************************************)
EXTENDS FetchCalls, SequenceTheorems, TLAPS

\* The tables with their theorems.
TableP == INSTANCE CookieSessionsProofs
StoreP == INSTANCE ResponseStoreProofs WITH Handle <- Call, pc <- storing, now <- dated
-----------------------------------------------------------------------------
(***************************************************************************)
(* The tables.                                                             *)
(***************************************************************************)

\* A step is a step of the sessions, or leaves them alone.
LEMMA TableStep == [Next]_vars => [Table!Next]_(Table!vars)
<1> SUFFICES ASSUME [Next]_vars PROVE [Table!Next]_(Table!vars)
    OBVIOUS
<1>1. CASE UNCHANGED vars
    BY <1>1 DEF vars, table, Table!vars
<1>2. CASE Environment
    BY <1>2 DEF Environment, Table!vars, Table!Next, table, Store!Lookup
<1>3. ASSUME NEW c \in Call, CallStep(c) PROVE [Table!Next]_(Table!vars)
  <2>1. CASE Check(c)
      BY <2>1 DEF Check, Table!vars, table
  <2>2. CASE EnterSession(c) \/ ReceiveCookies(c) \/ RefuseSession(c)
      BY <2>2 DEF EnterSession, ReceiveCookies, RefuseSession, Table!Next, Table!CallStep
  <2>3. CASE OpenSession(c)
      BY <2>3 DEF OpenSession, Table!Next, Table!CallStep, Table!vars, table
  <2>4. CASE Break(c)
      BY <2>4 DEF Break, Table!Next, Table!CallStep, Table!vars, table
  <2>5. CASE Answer(c)
      BY <2>5 DEF Answer, Table!vars, table
  <2>6. CASE Sum(c)
      BY <2>6 DEF Sum, Table!Next, Table!CallStep, Table!vars, table
  <2>7. CASE Touch(c)
      BY <2>7 DEF Touch, Table!Next, Table!CallStep, Table!vars, table
  <2>8. CASE DateRecord(c) \/ NoHandle(c)
      BY <2>8 DEF DateRecord, NoHandle, Table!vars, table, Store!Date, Store!NoHandle
  <2>9. CASE Return(c)
      BY <2>9 DEF Return, Table!vars, table, Store!Insert
  <2> QED
      BY <1>3, <2>1, <2>2, <2>3, <2>4, <2>5, <2>6, <2>7, <2>8, <2>9 DEF CallStep
<1> QED
    BY <1>1, <1>2, <1>3 DEF Next

\* A step is a step of the stored responses, or leaves them alone.
LEMMA StoreStep == [Next]_vars => [Store!Next]_(Store!vars)
<1> SUFFICES ASSUME [Next]_vars PROVE [Store!Next]_(Store!vars)
    OBVIOUS
<1>1. CASE UNCHANGED vars
    BY <1>1 DEF vars, store, Store!vars
<1>2. CASE Environment
    BY <1>2 DEF Environment, Store!vars, Store!Next, store, Table!SessionInfo, Table!ClearSession
<1>3. ASSUME NEW c \in Call, CallStep(c) PROVE [Store!Next]_(Store!vars)
  <2>1. CASE Check(c) \/ Answer(c)
      BY <2>1 DEF Check, Answer, Store!vars, store
  <2>2. CASE EnterSession(c) \/ ReceiveCookies(c) \/ RefuseSession(c)
      BY <2>2 DEF EnterSession, ReceiveCookies, RefuseSession, Table!Enter, Table!ReceiveCookies,
                  Table!Refuse, Store!vars, store
  <2>3. CASE OpenSession(c) \/ Break(c)
      BY <2>3 DEF OpenSession, Break, Table!Reuse, Table!Create, Table!Fail, Store!vars, store
  <2>4. CASE Sum(c) \/ Touch(c)
      BY <2>4 DEF Sum, Touch, Table!Finish, Table!Touch, Store!vars, store
  <2>5. CASE DateRecord(c) \/ NoHandle(c)
      BY <2>5 DEF DateRecord, NoHandle, Store!Next
  <2>6. CASE Return(c)
      BY <2>6 DEF Return, Store!Next, Store!vars, store
  <2> QED
      BY <1>3, <2>1, <2>2, <2>3, <2>4, <2>5, <2>6 DEF CallStep
<1> QED
    BY <1>1, <1>2, <1>3 DEF Next

\* FetchCalls is composed of the actions of both tables, so the theorems about
\* them hold here as well.
LEMMA TablesImplemented == Spec => Table!Spec /\ Store!Spec
<1>1. Init => Table!Init /\ Store!Init
    BY DEF Init
<1> QED
    BY <1>1, TableStep, StoreStep, PTL DEF Spec, Table!Spec, Store!Spec
-----------------------------------------------------------------------------
(***************************************************************************)
(* What is known of the tables.                                            *)
(***************************************************************************)

\* The sessions of FetchCalls are those CookieSessionsProofs is about.
LEMMA SameTable == Table!Spec => TableP!Spec
<1>1. Table!Init => TableP!Init
    BY DEF Table!Init, TableP!Init
<1>2. [Table!Next]_(Table!vars) => [TableP!Next]_(TableP!vars)
  <2> SUFFICES ASSUME [Table!Next]_(Table!vars) PROVE [TableP!Next]_(TableP!vars)
      OBVIOUS
  <2> USE DEF Table!PurgeExpired, TableP!PurgeExpired, Table!Unexpired, TableP!Unexpired,
              Table!Severed, TableP!Severed, Table!Holding, TableP!Holding,
              Table!Restrict, TableP!Restrict
  <2>1. CASE UNCHANGED Table!vars
      BY <2>1 DEF Table!vars, TableP!vars
  <2>2. CASE Table!Tick
      BY <2>2 DEF Table!Tick, TableP!Tick, TableP!Next
  <2>3. ASSUME NEW s \in SessionID, Table!ClearSession(s) PROVE TableP!Next
      BY <2>3 DEF Table!ClearSession, TableP!ClearSession, TableP!Next
  <2>4. CASE Table!SessionInfo
      BY <2>4 DEF Table!SessionInfo, TableP!SessionInfo, TableP!Next
  <2>5. ASSUME NEW c \in Call, Table!CallStep(c) PROVE TableP!CallStep(c)
    <3>1. CASE Table!Enter(c)
        BY <3>1 DEF Table!Enter, TableP!Enter, Table!Instant, TableP!Instant, TableP!CallStep
    <3>2. CASE Table!Reuse(c)
        BY <3>2 DEF Table!Reuse, TableP!Reuse, Table!Used, TableP!Used, TableP!CallStep
    <3>3. CASE Table!Create(c)
        BY <3>3 DEF Table!Create, TableP!Create, Table!Insert, TableP!Insert,
                    Table!NewSession, TableP!NewSession, Table!Full, TableP!Full,
                    Table!Cardinality, TableP!Cardinality, TableP!CallStep
    <3>4. CASE Table!Refuse(c)
        BY <3>4 DEF Table!Refuse, TableP!Refuse, Table!Full, TableP!Full,
                    Table!Cardinality, TableP!Cardinality, TableP!CallStep
    <3>5. CASE Table!ReceiveCookies(c)
        BY <3>5 DEF Table!ReceiveCookies, TableP!ReceiveCookies, Table!CookieJar,
                    TableP!CookieJar, TableP!CallStep
    <3>6. CASE Table!Fail(c)
        BY <3>6 DEF Table!Fail, TableP!Fail, TableP!CallStep
    <3>7. CASE Table!Finish(c)
        BY <3>7 DEF Table!Finish, TableP!Finish, Table!Instant, TableP!Instant, TableP!CallStep
    <3>8. CASE Table!Touch(c)
        BY <3>8 DEF Table!Touch, TableP!Touch, Table!Touched, TableP!Touched,
                    Table!Used, TableP!Used, TableP!CallStep
    <3> QED
        BY <2>5, <3>1, <3>2, <3>3, <3>4, <3>5, <3>6, <3>7, <3>8 DEF Table!CallStep
  <2> QED
      BY <2>1, <2>2, <2>3, <2>4, <2>5 DEF Table!Next, TableP!Next
<1> QED
    BY <1>1, <1>2, PTL DEF Table!Spec, TableP!Spec

\* The same for the stored responses.
LEMMA SameStore == Store!Spec => StoreP!Spec
<1>1. Store!Init => StoreP!Init
    BY DEF Store!Init, StoreP!Init
<1>2. [Store!Next]_(Store!vars) => [StoreP!Next]_(StoreP!vars)
  <2> SUFFICES ASSUME [Store!Next]_(Store!vars) PROVE [StoreP!Next]_(StoreP!vars)
      OBVIOUS
  <2> USE DEF Store!Unexpired, StoreP!Unexpired
  <2>1. CASE UNCHANGED Store!vars
      BY <2>1 DEF Store!vars, StoreP!vars
  <2>2. CASE Store!Tick
      BY <2>2 DEF Store!Tick, StoreP!Tick, StoreP!Next
  <2>3. CASE Store!Lookup
      BY <2>3 DEF Store!Lookup, StoreP!Lookup, Store!Restrict, StoreP!Restrict, StoreP!Next
  <2>4. ASSUME NEW h \in Call, Store!NoHandle(h) \/ Store!Date(h) PROVE StoreP!Next
      BY <2>4 DEF Store!NoHandle, StoreP!NoHandle, Store!Date, StoreP!Date, Store!Instant,
                  StoreP!Instant, StoreP!Next
  <2>5. ASSUME NEW h \in Call, Store!Insert(h) PROVE StoreP!Next
      BY <2>5 DEF Store!Insert, StoreP!Insert, Store!Evictions, StoreP!Evictions, Store!Kept,
                  StoreP!Kept, Store!Older, StoreP!Older, Store!NewResponse, StoreP!NewResponse,
                  Store!DateOf, StoreP!DateOf, Store!Cardinality, StoreP!Cardinality, StoreP!Next
  <2> QED
      BY <2>1, <2>2, <2>3, <2>4, <2>5 DEF Store!Next
<1> QED
    BY <1>1, <1>2, PTL DEF Store!Spec, StoreP!Spec

\* What the calls rely on.
TablesInv ==
    /\ TableP!TypeOK /\ TableP!Linkage /\ TableP!CookieIsolation
    /\ StoreP!TypeOK /\ StoreP!RecordOfHandle

LEMMA TablesInvariance == Spec => []TablesInv
<1>1. Spec => TableP!Spec /\ StoreP!Spec
    BY TablesImplemented, SameTable, SameStore, PTL
<1>2. TableP!Spec => []TableP!TypeOK
    BY CallAssumption, TableP!TypeCorrect
<1>3. TableP!Spec => []TableP!Linkage
    BY CallAssumption, TableP!Linked
<1>4. TableP!Spec => []TableP!CookieIsolation
    BY CallAssumption, TableP!Isolation
<1>5. StoreP!Spec => []StoreP!TypeOK
    BY CallAssumption, StoreP!TypeCorrect
<1>6. StoreP!Spec => []StoreP!RecordOfHandle
    BY CallAssumption, StoreP!Records
<1> QED
    BY <1>1, <1>2, <1>3, <1>4, <1>5, <1>6, PTL DEF TablesInv
-----------------------------------------------------------------------------
(***************************************************************************)
(* The order of the steps of a call.                                       *)
(***************************************************************************)

\* How far a call is in each table, by how far it is in Do.
Stage(c) ==
    /\ step[c] = "called" => pc[c] = "idle"
    /\ step[c] = "checked" => pc[c] \in {"idle", "entered"}
    /\ step[c] \in {"open", "answered"} => pc[c] = IF args[c].session THEN "exchanging" ELSE "idle"
    /\ step[c] = "summed" => pc[c] = IF args[c].session THEN "touching" ELSE "idle"
    /\ step[c] \in {"touched", "done"} => pc[c] = IF args[c].session THEN "done" ELSE "idle"
    /\ step[c] = "failed" => pc[c] \in {"idle", "refused", "done"}
    /\ pc[c] # "idle" => args[c].session
    /\ step[c] \notin {"touched", "done", "failed"} => storing[c] = "idle"
    /\ step[c] = "touched" => storing[c] \in {"idle", "dated"}
    /\ step[c] = "failed" => storing[c] \in {"idle", "failed"}
    /\ storing[c] = "stored" => step[c] = "done" /\ args[c].store

Stages ==
    /\ args \in [Call -> Arguments]
    /\ step \in [Call -> Step]
    /\ \A c \in Call : Stage(c)

\* A step of one call changes what concerns it alone.
LEMMA OwnStep ==
    ASSUME NEW c \in Call, CallStep(c), NEW x \in Call, x # c,
           step \in [Call -> Step], TablesInv
    PROVE  /\ step'[x] = step[x] /\ pc'[x] = pc[x] /\ storing'[x] = storing[x]
           /\ now'[x] = now[x] /\ jar'[x] = jar[x]
           /\ args' = args /\ input' = input
<1> USE DEF TablesInv, TableP!TypeOK, StoreP!TypeOK
<1>1. CASE Check(c) \/ Answer(c)
    BY <1>1 DEF Check, Answer, table, store
<1>2. CASE EnterSession(c)
    BY <1>2 DEF EnterSession, Table!Enter, store, call
<1>3. CASE OpenSession(c)
    BY <1>3 DEF OpenSession, Table!Reuse, Table!Create, table, store
<1>4. CASE RefuseSession(c)
    BY <1>4 DEF RefuseSession, Table!Refuse, store
<1>5. CASE ReceiveCookies(c)
    BY <1>5 DEF ReceiveCookies, Table!ReceiveCookies, store, call
<1>6. CASE Break(c)
    BY <1>6 DEF Break, Table!Fail, table, store
<1>7. CASE Sum(c)
    BY <1>7 DEF Sum, Table!Finish, table, store
<1>8. CASE Touch(c)
    BY <1>8 DEF Touch, Table!Touch, table, store
<1>9. CASE DateRecord(c)
    BY <1>9 DEF DateRecord, Store!Date, table, call
<1>10. CASE NoHandle(c)
    BY <1>10 DEF NoHandle, Store!NoHandle, table
<1>11. CASE Return(c)
    BY <1>11 DEF Return, Store!Insert, table, store
<1> QED
    BY <1>1, <1>2, <1>3, <1>4, <1>5, <1>6, <1>7, <1>8, <1>9, <1>10, <1>11 DEF CallStep

LEMMA EnvironmentKeepsCalls ==
    Environment => UNCHANGED <<args, step, output, pc, storing, now, jar, input, cookies>>
BY DEF Environment, Table!Tick, Store!Tick, Table!SessionInfo, Table!ClearSession, Store!Lookup,
       table, store, call

LEMMA CallStages ==
    ASSUME NEW c \in Call, CallStep(c), Stages, TablesInv
    PROVE  Stages'
<1>1. ASSUME NEW x \in Call, x # c PROVE Stage(x)'
  <2>1. /\ step'[x] = step[x] /\ pc'[x] = pc[x] /\ storing'[x] = storing[x]
        /\ args' = args
      BY <1>1, OwnStep DEF Stages
  <2> QED
      BY <2>1 DEF Stages, Stage
<1>2. step' \in [Call -> Step] /\ Stage(c)'
  <2> USE DEF Stages, Stage, Step, TablesInv, TableP!TypeOK, StoreP!TypeOK
  <2>1. CASE Check(c)
    <3>1. PICK p \in {"checked", "failed"} : step' = [step EXCEPT ![c] = p]
        BY <2>1 DEF Check
    <3>2. step[c] = "called" /\ UNCHANGED <<args, pc, storing>>
        BY <2>1 DEF Check, table, store
    <3> QED
        BY <3>1, <3>2
  <2>12. CASE Answer(c)
      BY <2>12 DEF Answer, table, store
  <2>2. CASE EnterSession(c)
      BY <2>2 DEF EnterSession, Table!Enter, store, call
  <2>3. CASE OpenSession(c)
      BY <2>3 DEF OpenSession, Table!Reuse, Table!Create, table, store
  <2>4. CASE RefuseSession(c)
      BY <2>4 DEF RefuseSession, Table!Refuse, store
  <2>5. CASE ReceiveCookies(c)
      BY <2>5 DEF ReceiveCookies, Table!ReceiveCookies, store, call
  <2>6. CASE Break(c)
      BY <2>6 DEF Break, Table!Fail, table, store
  <2>7. CASE Sum(c)
      BY <2>7 DEF Sum, Table!Finish, table, store
  <2>8. CASE Touch(c)
      BY <2>8 DEF Touch, Table!Touch, table, store
  <2>9. CASE DateRecord(c)
      BY <2>9 DEF DateRecord, Store!Date, table, call
  <2>10. CASE NoHandle(c)
      BY <2>10 DEF NoHandle, Store!NoHandle, table
  <2>11. CASE Return(c)
      BY <2>11 DEF Return, Store!Insert, table, store
  <2> QED
      BY <2>1, <2>2, <2>3, <2>4, <2>5, <2>6, <2>7, <2>8, <2>9, <2>10, <2>11, <2>12 DEF CallStep
<1>3. args' \in [Call -> Arguments]
    BY DEF CallStep, Stages, Check, Answer, EnterSession, OpenSession, RefuseSession, ReceiveCookies,
           Break, Sum, Touch, DateRecord, NoHandle, Return, call
<1> QED
    BY <1>1, <1>2, <1>3 DEF Stages

LEMMA StagesInvariance == Spec => []Stages
<1>1. Init => Stages
    BY DEF Init, Table!Init, Store!Init, Stages, Stage, Step
<1>2. Stages /\ TablesInv /\ [Next]_vars => Stages'
  <2> SUFFICES ASSUME Stages, TablesInv, [Next]_vars PROVE Stages'
      OBVIOUS
  <2>1. CASE Environment \/ UNCHANGED vars
      BY <2>1, EnvironmentKeepsCalls DEF vars, table, store, call, Stages, Stage
  <2> QED
      BY <2>1, CallStages DEF Next
<1> QED
    BY <1>1, <1>2, TablesInvariance, PTL DEF Spec

\* A call that fails has stored nothing, and one refused early has left no session.
THEOREM StoredBySuccess == Spec => []FailureStoresNothing
<1>1. Stages /\ TablesInv => FailureStoresNothing
  <2> SUFFICES ASSUME Stages, TablesInv, NEW c \in Call
               PROVE  /\ step[c] \in {"called", "checked"} => \A s \in DOMAIN sessions : sessions[s].jar # c
                      /\ step[c] = "failed" /\ pc[c] = "idle" => \A s \in DOMAIN sessions : sessions[s].jar # c
                      /\ c \in DOMAIN responses => step[c] = "done" /\ args[c].store
      BY DEF FailureStoresNothing
  <2>1. \A s \in DOMAIN sessions : pc[sessions[s].jar] \notin {"idle", "entered"}
      BY DEF TablesInv, TableP!Linkage, TableP!JarOfSession, TableP!Holding
  <2>2. c \in DOMAIN responses => storing[c] = "stored"
      BY DEF TablesInv, StoreP!RecordOfHandle, StoreP!Stored
  <2> QED
      BY <2>1, <2>2 DEF Stages, Stage
<1> QED
    BY <1>1, StagesInvariance, TablesInvariance, PTL
-----------------------------------------------------------------------------
(***************************************************************************)
(* Leases.                                                                 *)
(***************************************************************************)

\* The exchange of c has succeeded.
Past(c) == step[c] \in {"answered", "summed", "touched", "done"} \/ storing[c] # "idle"

\* Every lease counts from the entry of one of the calls that use the session,
\* unless the exchange of one of them has succeeded.
Renewal ==
    \A s \in DOMAIN sessions : \E c \in Call :
        /\ input[c] = s /\ pc[c] \in TableP!Holding
        /\ Past(c) \/ sessions[s].lastUsed = now[c]

\* Who vouches for a lease still does when another call has taken a step.
LEMMA WitnessKept ==
    ASSUME NEW c \in Call, CallStep(c), Stages, TablesInv, Renewal,
           NEW s \in DOMAIN sessions', s \in DOMAIN sessions,
           sessions'[s].lastUsed = sessions[s].lastUsed,
           pc[c] \in TableP!Holding => pc'[c] \in TableP!Holding /\ (Past(c)' \/ (~ Past(c) /\ now'[c] = now[c]))
    PROVE  \E x \in Call : /\ input'[x] = s /\ pc'[x] \in TableP!Holding
                           /\ Past(x)' \/ sessions'[s].lastUsed = now'[x]
<1>1. PICK x \in Call : /\ input[x] = s /\ pc[x] \in TableP!Holding
                        /\ Past(x) \/ sessions[s].lastUsed = now[x]
    BY DEF Renewal
<1>2. input' = input
    BY DEF CallStep, Check, Answer, EnterSession, OpenSession, RefuseSession, ReceiveCookies, Break,
           Sum, Touch, DateRecord, NoHandle, Return, Table!Enter, Table!Reuse, Table!Create,
           Table!Refuse, Table!ReceiveCookies, Table!Fail, Table!Finish, Table!Touch, table
<1>3. CASE x = c
    BY <1>1, <1>2, <1>3
<1>4. CASE x # c
  <2>1. step'[x] = step[x] /\ pc'[x] = pc[x] /\ storing'[x] = storing[x] /\ now'[x] = now[x]
      BY <1>4, OwnStep DEF Stages
  <2> QED
      BY <1>1, <1>2, <2>1 DEF Past
<1> QED
    BY <1>3, <1>4

LEMMA RenewalStep ==
    ASSUME NEW c \in Call, CallStep(c), Stages, TablesInv, Renewal
    PROVE  Renewal'
<1> SUFFICES ASSUME NEW s \in DOMAIN sessions'
             PROVE  \E x \in Call : /\ input'[x] = s /\ pc'[x] \in TableP!Holding
                                    /\ Past(x)' \/ sessions'[s].lastUsed = now'[x]
    BY DEF Renewal
<1> DEFINE Same == s \in DOMAIN sessions /\ sessions'[s].lastUsed = sessions[s].lastUsed
           Vouches == pc[c] \in TableP!Holding =>
                          pc'[c] \in TableP!Holding /\ (Past(c)' \/ (~ Past(c) /\ now'[c] = now[c]))
<1> USE DEF Stages, Stage, Past, TableP!Holding, TablesInv, TableP!TypeOK, StoreP!TypeOK
<1>1. ASSUME Same, Vouches
      PROVE  \E x \in Call : /\ input'[x] = s /\ pc'[x] \in TableP!Holding
                             /\ Past(x)' \/ sessions'[s].lastUsed = now'[x]
    BY <1>1, WitnessKept
<1>2. CASE Check(c) \/ EnterSession(c)
    BY <1>1, <1>2 DEF Check, EnterSession, Table!Enter, table, store, call
<1>3. CASE OpenSession(c)
  <2>1. CASE ~ args[c].session
      BY <1>1, <1>3, <2>1 DEF OpenSession, table, store
  <2>2. CASE args[c].session /\ s # input[c]
    <3>1. s \in DOMAIN sessions /\ sessions'[s] = sessions[s]
      <4> DEFINE kept == Table!PurgeExpired(now[c])
      <4>1. \A k \in DOMAIN kept : k \in DOMAIN sessions /\ kept[k] = sessions[k]
          BY DEF Table!PurgeExpired, Table!Unexpired, Table!Restrict
      <4>2. CASE Table!Reuse(c)
        <5>1. sessions' = [kept EXCEPT ![input[c]] = Table!Used(@, now[c])]
            BY <4>2 DEF Table!Reuse
        <5> QED
            BY <4>1, <5>1, <2>2
      <4>3. CASE Table!Create(c)
          BY <4>1, <4>3, <2>2 DEF Table!Create, Table!Insert
      <4> QED
          BY <1>3, <2>2, <4>2, <4>3 DEF OpenSession
    <3>2. pc[c] = "entered"
        BY <1>3, <2>2 DEF OpenSession, Table!Reuse, Table!Create
    <3> QED
        BY <1>1, <3>1, <3>2
  <2>3. CASE args[c].session /\ s = input[c]
    <3>1. sessions'[s].lastUsed = now[c]
      <4>1. CASE Table!Reuse(c)
        <5>1. s \in DOMAIN Table!PurgeExpired(now[c])
            BY <4>1, <2>3 DEF Table!Reuse
        <5>2. sessions[s] \in TableP!SessionState /\ Table!PurgeExpired(now[c])[s] = sessions[s]
            BY <5>1 DEF Table!PurgeExpired, Table!Unexpired, Table!Restrict
        <5>3. sessions'[s] = Table!Used(sessions[s], now[c])
            BY <4>1, <5>1, <5>2, <2>3 DEF Table!Reuse
        <5> QED
            BY <5>2, <5>3 DEF Table!Used, TableP!SessionState
      <4>2. CASE Table!Create(c)
          BY <4>2, <2>3 DEF Table!Create, Table!Insert, Table!NewSession
      <4> QED
          BY <1>3, <2>3, <4>1, <4>2 DEF OpenSession
    <3>2. input' = input /\ now' = now /\ pc'[c] = "exchanging"
        BY <1>3, <2>3 DEF OpenSession, Table!Reuse, Table!Create
    <3> QED
        BY <2>3, <3>1, <3>2
  <2> QED
      BY <2>1, <2>2, <2>3
<1>4. CASE RefuseSession(c)
  <2>1. /\ pc[c] = "entered"
        /\ s \in DOMAIN sessions /\ sessions'[s] = sessions[s]
      BY <1>4 DEF RefuseSession, Table!Refuse, Table!PurgeExpired, Table!Unexpired, Table!Restrict
  <2>2. Vouches
      BY <2>1
  <2> QED
      BY <1>1, <2>1, <2>2
<1>5. CASE ReceiveCookies(c) \/ Break(c) \/ Answer(c)
  <2>1. CASE ReceiveCookies(c)
      BY <1>1, <2>1 DEF ReceiveCookies, Table!ReceiveCookies, store, call
  <2>2. CASE Break(c)
      BY <1>1, <2>2 DEF Break, Table!Fail, table, store
  <2>3. CASE Answer(c)
      BY <1>1, <2>3 DEF Answer, table, store
  <2> QED
      BY <1>5, <2>1, <2>2, <2>3
<1>6. CASE Sum(c)
    BY <1>1, <1>6 DEF Sum, Table!Finish, table, store
<1>7. CASE Touch(c)
  <2>1. Vouches
      BY <1>7 DEF Touch, Table!Touch, table, store
  <2>2. CASE args[c].session /\ s = input[c]
    <3>1. pc'[c] = "done" /\ step'[c] = "touched" /\ input' = input
        BY <1>7, <2>2 DEF Touch, Table!Touch
    <3> QED
        BY <2>2, <3>1
  <2>3. CASE ~ (args[c].session /\ s = input[c])
    <3>1. Same
        BY <1>7, <2>3 DEF Touch, Table!Touch, Table!Touched, table
    <3> QED
        BY <1>1, <2>1, <3>1
  <2> QED
      BY <2>2, <2>3
<1>8. CASE DateRecord(c) \/ NoHandle(c) \/ Return(c)
    BY <1>1, <1>8 DEF DateRecord, NoHandle, Return, Store!Date, Store!NoHandle, Store!Insert,
                      table, store, call
<1> QED
    BY <1>2, <1>3, <1>4, <1>5, <1>6, <1>7, <1>8 DEF CallStep

\* A call that fails after it was given a session has not prolonged the lease.
THEOREM LeasesUnrenewed == Spec => []FailureRenewsNothing
<1>1. Init => Renewal
    BY DEF Init, Table!Init, Renewal
<1>2. Renewal /\ Stages /\ TablesInv /\ [Next]_vars => Renewal'
  <2> SUFFICES ASSUME Renewal, Stages, TablesInv, [Next]_vars PROVE Renewal'
      OBVIOUS
  <2>1. CASE UNCHANGED vars
      BY <2>1 DEF vars, table, store, call, Renewal, Past
  <2>2. CASE Environment
    <3>1. \A s \in DOMAIN sessions' : s \in DOMAIN sessions /\ sessions'[s] = sessions[s]
        BY <2>2 DEF Environment, Table!Tick, Table!SessionInfo, Table!ClearSession, Table!PurgeExpired,
                    Table!Unexpired, Table!Restrict, table
    <3>2. UNCHANGED <<step, pc, storing, now, input>>
        BY <2>2, EnvironmentKeepsCalls
    <3> QED
        BY <3>1, <3>2 DEF Renewal, Past
  <2> QED
      BY <2>1, <2>2, RenewalStep DEF Next
<1>3. Renewal => FailureRenewsNothing
    BY DEF Renewal, Past, FailureRenewsNothing, Table!Holding, TableP!Holding
<1> QED
    BY <1>1, <1>2, <1>3, StagesInvariance, TablesInvariance, PTL DEF Spec
-----------------------------------------------------------------------------
(***************************************************************************)
(* The body.                                                               *)
(***************************************************************************)

\* The first bytes of a text are text if they end where a rune does.
LEMMA ValidPrefix ==
    ASSUME NEW s \in Seq(Byte), Valid(s), NEW n \in 1 .. Len(s) - 1, RuneStart(s[n + 1])
    PROVE  Valid(SubSeq(s, 1, n))
<1> DEFINE t == SubSeq(s, 1, n)
<1>1. Len(s) \in Nat /\ \A i \in 1 .. Len(s) : s[i] \in Byte
    BY LenProperties
<1>2. Len(t) = n /\ \A i \in 1 .. n : t[i] = s[i]
    BY <1>1, SubSeqProperties
<1> HIDE DEF t
<1>3. ASSUME NEW i \in 1 .. n, runeAt(s, i) PROVE runeAt(t, i) /\ width(t[i]) = width(s[i])
  <2> DEFINE w == width(s[i])
  <2>1. w \in 1 .. 4
      BY DEF width
  <2>2. /\ s[i] \in Lead
        /\ w > 1 => s[i + 1] \in Second(s[i])
        /\ \A j \in i + 1 .. i + w - 1 : ~ RuneStart(s[j])
      BY <1>3 DEF runeAt
  <2> HIDE DEF w
  <2>3. i + w - 1 <= n
    <3>1. n + 1 \notin i + 1 .. i + w - 1
        BY <2>2
    <3> QED
        BY <1>1, <2>1, <3>1
  <2>4. t[i] = s[i] /\ (w > 1 => t[i + 1] \in Second(t[i]))
    <3>1. w > 1 => i + 1 \in 1 .. n
        BY <1>1, <2>1, <2>3
    <3> QED
        BY <1>2, <2>2, <3>1
  <2>5. \A j \in i + 1 .. i + w - 1 : ~ RuneStart(t[j])
    <3>1. \A j \in i + 1 .. i + w - 1 : j \in 1 .. n
        BY <1>1, <2>1, <2>3
    <3> QED
        BY <1>2, <2>2, <3>1
  <2> QED
      BY <1>2, <2>2, <2>3, <2>4, <2>5 DEF runeAt, w
<1>4. ASSUME NEW i \in 1 .. n
      PROVE  \/ runeAt(t, i)
             \/ /\ ~ RuneStart(t[i])
                /\ \E k \in {i - 1, i - 2, i - 3} :
                      k >= 1 /\ runeAt(t, k) /\ i < k + width(t[k])
  <2>1. CASE runeAt(s, i)
      BY <1>3, <2>1
  <2>2. CASE /\ ~ RuneStart(s[i])
             /\ \E k \in {i - 1, i - 2, i - 3} :
                   k >= 1 /\ runeAt(s, k) /\ i < k + width(s[k])
    <3>1. PICK k \in {i - 1, i - 2, i - 3} : k >= 1 /\ runeAt(s, k) /\ i < k + width(s[k])
        BY <2>2
    <3>2. k \in 1 .. n
        BY <1>1, <3>1
    <3>3. runeAt(t, k) /\ width(t[k]) = width(s[k])
        BY <1>3, <3>1, <3>2
    <3> QED
        BY <1>2, <2>2, <3>1, <3>3
  <2>3. i \in 1 .. Len(s)
      BY <1>1
  <2> QED
      BY <2>1, <2>2, <2>3 DEF Valid
<1> QED
    BY <1>2, <1>4 DEF Valid, t

\* What is kept of a body that is read with the limit n, and whether more was seen.
LEMMA ReadAndCut ==
    ASSUME NEW s \in Seq(Byte), Len(s) <= MaxInt, NEW n \in 1 .. MaxInt
    PROVE  LET bytes == readAll(s, n)
               least == IF Len(s) < n THEN Len(s) ELSE n
           IN  /\ cut(bytes, n) \in Seq(Byte)
               /\ n < MaxInt => /\ cut(bytes, n) = SubSeq(s, 1, least)
                                /\ Len(bytes) > n <=> least < Len(s)
               /\ n = MaxInt => cut(bytes, n) = <<>> /\ ~ (Len(bytes) > n)
               /\ \/ cut(bytes, n) \in {s, <<>>}
                  \/ n < Len(s) /\ cut(bytes, n) = SubSeq(s, 1, n) /\ Len(bytes) > n
<1> DEFINE bytes == readAll(s, n)
           most == IF Len(s) < readOneMore(n) THEN Len(s) ELSE readOneMore(n)
<1>1. Len(s) \in Nat /\ MaxInt \in Nat /\ \A i \in 1 .. Len(s) : s[i] \in Byte
    BY CallAssumption, LenProperties
<1>2. bytes = SubSeq(s, 1, most) /\ most \in Int /\ most <= Len(s)
    BY <1>1 DEF readAll, readOneMore
<1>3. bytes \in Seq(Byte) /\ Len(bytes) = IF 1 <= most THEN most ELSE 0
    BY <1>1, <1>2, SubSeqProperties
<1>4. CASE n = MaxInt
  <2>1. most < 1
      BY <1>1, <1>4 DEF readOneMore
  <2>2. bytes = <<>> /\ Len(bytes) = 0
      BY <1>2, <1>3, <2>1, SubSeqEmpty
  <2>3. cut(bytes, n) = <<>> /\ ~ (Len(bytes) > n)
    <3> HIDE DEF bytes
    <3> QED
        BY <1>1, <1>4, <2>2 DEF cut
  <2>4. ~ (n < MaxInt)
      BY <1>4
  <2> HIDE DEF bytes
  <2> QED
      BY <2>3, <2>4 DEF bytes
<1>5. CASE n < MaxInt /\ Len(s) <= n
  <2>1. most = Len(s)
      BY <1>1, <1>5 DEF readOneMore
  <2>2. bytes = s
      BY <1>2, <2>1, SubSeqFull
  <2>3. cut(s, n) = s /\ SubSeq(s, 1, Len(s)) = s
      BY <1>1, <1>5, SubSeqFull DEF cut
  <2>4. (IF Len(s) < n THEN Len(s) ELSE n) = Len(s) /\ ~ (Len(s) > n) /\ ~ (Len(s) < Len(s))
      BY <1>1, <1>5
  <2>5. n # MaxInt
      BY <1>1, <1>5
  <2> HIDE DEF bytes
  <2> QED
      BY <2>2, <2>3, <2>4, <2>5 DEF bytes
<1>6. CASE n < MaxInt /\ n < Len(s)
  <2>1. most = n + 1
      BY <1>1, <1>6 DEF readOneMore
  <2>2. Len(bytes) = n + 1 /\ bytes = SubSeq(s, 1, n + 1)
      BY <1>1, <1>2, <1>3, <2>1
  <2>3. cut(bytes, n) = SubSeq(bytes, 1, n)
      BY <2>2 DEF cut
  <2>4. SubSeq(SubSeq(s, 1, n + 1), 1, n) = SubSeq(s, 1, n)
      BY <1>1, <1>6, SubSeqOfSubSeq
  <2>5. SubSeq(s, 1, n) \in Seq(Byte)
      BY <1>1, <1>6, SubSeqProperties
  <2>6. (IF Len(s) < n THEN Len(s) ELSE n) = n
      BY <1>1, <1>6
  <2> HIDE DEF bytes
  <2>7. Len(bytes) > n
      BY <2>2
  <2>8. cut(bytes, n) = SubSeq(s, 1, n)
      BY <2>2, <2>3, <2>4
  <2>9. n # MaxInt
      BY <1>1, <1>6
  <2> QED
      BY <1>6, <2>5, <2>6, <2>7, <2>8, <2>9 DEF bytes
<1> QED
    BY <1>1, <1>4, <1>5, <1>6
-----------------------------------------------------------------------------
(***************************************************************************)
(* What a call has found out.                                              *)
(***************************************************************************)

\* The cookies c reports are of its session, with its own if it has one.
Reported(c) ==
    /\ \A k \in output[c].cookies : args[c].session /\ input[k] = input[c]
    /\ step[c] \in {"summed", "touched", "done"} /\ c \in cookies[jar[c]]
          => c \in output[c].cookies

\* c has no body yet, or what ReadAndCut says of its limit.
Told(c) ==
    LET o == output[c]
        n == responseLimit(c)
        least == IF Len(o.source) < n THEN Len(o.source) ELSE n
    IN  \/ o.source = <<>> /\ o.body = <<>> /\ ~ o.truncated
        \/ /\ validArguments(c)
           /\ n < MaxInt =>
                  o.body = SubSeq(o.source, 1, least) /\ (o.truncated <=> least < Len(o.source))
           /\ n = MaxInt => o.body = <<>> /\ ~ o.truncated
           /\ \/ o.body \in {o.source, <<>>}
              \/ n < Len(o.source) /\ o.body = SubSeq(o.source, 1, n) /\ o.truncated

Outputs ==
    /\ output \in [Call -> Output]
    /\ \A c \in Call : /\ step[c] \notin {"called", "failed"} => validArguments(c)
                       /\ Reported(c)
                       /\ Told(c)

LEMMA OutputWithBody ==
    ASSUME NEW o \in Output, NEW s \in Bodies, NEW n \in 1 .. MaxInt
    PROVE  [o EXCEPT !.source = s, !.body = cut(readAll(s, n), n),
                     !.truncated = Len(readAll(s, n)) > n] \in Output
<1>1. cut(readAll(s, n), n) \in Seq(Byte)
    BY CallAssumption, ReadAndCut
<1>2. (Len(readAll(s, n)) > n) \in BOOLEAN
    OBVIOUS
<1>3. \A b \in Seq(Byte), t \in BOOLEAN :
        [o EXCEPT !.source = s, !.body = b, !.truncated = t] \in Output
    BY DEF Output
<1> QED
    BY <1>1, <1>2, <1>3

LEMMA SameArguments ==
    ASSUME NEW c \in Call, args' = args
    PROVE  responseLimit(c)' = responseLimit(c) /\ (validArguments(c)' <=> validArguments(c))
BY DEF responseLimit, validArguments

LEMMA ToldAgain ==
    ASSUME NEW c \in Call, Told(c), args' = args, output'[c].source = output[c].source,
           output'[c].body = output[c].body, output'[c].truncated = output[c].truncated
    PROVE  Told(c)'
BY SameArguments DEF Told

\* A step that leaves the outputs alone keeps them true.
LEMMA OutputsKept ==
    ASSUME Outputs, Stages, TablesInv, UNCHANGED <<args, output, input>>,
           \A c \in Call : step'[c] \notin {"called", "failed"} => validArguments(c),
           \A c \in Call : step'[c] \in {"summed", "touched", "done"} /\ c \in cookies'[jar'[c]]
                              => step[c] \in {"summed", "touched", "done"} /\ c \in cookies[jar[c]]
    PROVE  Outputs'
<1>1. ASSUME NEW c \in Call
      PROVE  Told(c)' /\ (step'[c] \notin {"called", "failed"} => validArguments(c)')
    BY ToldAgain, SameArguments DEF Outputs
<1>2. ASSUME NEW c \in Call PROVE Reported(c)'
    BY DEF Outputs, Reported
<1> QED
    BY <1>1, <1>2 DEF Outputs

LEMMA OutputsStep ==
    ASSUME NEW c \in Call, CallStep(c), Outputs, Stages, TablesInv
    PROVE  Outputs'
<1> USE DEF Stages, TablesInv, TableP!TypeOK, StoreP!TypeOK
<1>1. \A x \in Call \ {c} : step'[x] = step[x] /\ jar'[x] = jar[x]
    BY OwnStep
<1>2. CASE Check(c)
  <2>1. step[c] = "called" /\ step'[c] = IF validArguments(c) THEN "checked" ELSE "failed"
      BY <1>2 DEF Check, Step
  <2>2. UNCHANGED <<args, output, input, cookies, jar>>
      BY <1>2 DEF Check, table
  <2> QED
      BY <1>1, <2>1, <2>2, OutputsKept DEF Outputs
<1>3. CASE EnterSession(c)
    BY <1>3, OutputsKept DEF EnterSession, Table!Enter, call, Outputs
<1>4. CASE OpenSession(c)
  <2>1. UNCHANGED <<args, output, input, cookies>> /\ step[c] = "checked" /\ step'[c] = "open"
      BY <1>4 DEF OpenSession, Table!Reuse, Table!Create, table
  <2> QED
      BY <1>1, <2>1, OutputsKept DEF Outputs
<1>5. CASE RefuseSession(c) \/ Break(c)
  <2>1. UNCHANGED <<args, output, input, cookies, jar>> /\ step'[c] = "failed"
      BY <1>5 DEF RefuseSession, Break, Table!Refuse, Table!Fail, table
  <2> QED
      BY <1>1, <2>1, OutputsKept DEF Outputs
<1>6. CASE ReceiveCookies(c)
  <2>1. UNCHANGED <<args, output, input, step, jar>> /\ step[c] = "open"
      BY <1>6 DEF ReceiveCookies, Table!ReceiveCookies, call
  <2>2. \A x \in Call : x # c /\ x \in cookies'[jar[x]] => x \in cookies[jar[x]]
      BY <1>6 DEF ReceiveCookies, Table!ReceiveCookies, Table!CookieJar
  <2> QED
      BY <2>1, <2>2, OutputsKept DEF Outputs
<1>7. CASE Touch(c) \/ DateRecord(c) \/ NoHandle(c) \/ Return(c)
  <2>1. /\ UNCHANGED <<args, output, input, cookies, jar>>
        /\ step[c] \in {"summed", "touched"} /\ step'[c] \in {"touched", "failed", "done"}
      BY <1>7 DEF Touch, DateRecord, NoHandle, Return, Table!Touch, table, call
  <2> QED
      BY <1>1, <2>1, OutputsKept DEF Outputs
<1>8. CASE Answer(c)
  <2> DEFINE n == responseLimit(c)
  <2>1. PICK body \in Bodies :
            output' = [output EXCEPT ![c].source = body,
                          ![c].body = cut(readAll(body, n), n),
                          ![c].truncated = Len(readAll(body, n)) > n]
      BY <1>8 DEF Answer
  <2>2. UNCHANGED <<args, input, cookies, jar>> /\ step[c] = "open" /\ step'[c] = "answered"
      BY <1>8 DEF Answer, table
  <2>3. body \in Seq(Byte) /\ Len(body) <= MaxInt /\ n \in 1 .. MaxResponseBytes
        /\ MaxResponseBytes \in 1 .. MaxInt /\ MaxInt \in Nat /\ validArguments(c)
      BY <2>2, CallAssumption DEF Outputs, validArguments
  <2>4. n \in 1 .. MaxInt
      BY <2>3
  <2>5. cut(readAll(body, n), n) \in Seq(Byte)
      BY <2>3, <2>4, ReadAndCut
  <2>6. output'[c] = [output[c] EXCEPT !.source = body, !.body = cut(readAll(body, n), n),
                                       !.truncated = Len(readAll(body, n)) > n]
        /\ \A x \in Call \ {c} : output'[x] = output[x]
      BY <2>1 DEF Outputs
  <2>7. output[c] \in Output /\ output'[c] \in Output /\ output' \in [Call -> Output]
    <3> HIDE DEF n
    <3>1. output[c] \in Output
        BY DEF Outputs
    <3>2. output'[c] \in Output
      <4>1. [output[c] EXCEPT !.source = body, !.body = cut(readAll(body, n), n),
                              !.truncated = Len(readAll(body, n)) > n] \in Output
          BY <2>1, <2>4, <3>1, OutputWithBody
      <4> QED
          BY <2>6, <4>1
    <3>3. output' = [x \in Call |-> output'[x]]
        BY <2>1 DEF Outputs
    <3>4. \A x \in Call : output'[x] \in Output
        BY <2>6, <3>2 DEF Outputs
    <3> QED
        BY <3>1, <3>2, <3>3, <3>4
  <2>8. Told(c)'
    <3>1. /\ output'[c].source = body /\ output'[c].body = cut(readAll(body, n), n)
          /\ output'[c].truncated = (Len(readAll(body, n)) > n)
        BY <2>6, <2>7 DEF Output
    <3>2. responseLimit(c)' = n /\ validArguments(c)'
        BY <2>2, <2>3 DEF responseLimit, validArguments
    <3>3. MaxResponseBytes < MaxInt => n < MaxInt
        BY <2>3
    <3> HIDE DEF n
    <3> QED
        BY <2>3, <2>4, <3>1, <3>2, <3>3, ReadAndCut DEF Told
  <2>9. output'[c].cookies = output[c].cookies
      BY <2>6, <2>7 DEF Output
  <2>10. \A x \in Call : Reported(x)' /\ (step'[x] \notin {"called", "failed"} => validArguments(x)')
    <3> SUFFICES ASSUME NEW x \in Call
                 PROVE  Reported(x)' /\ (step'[x] \notin {"called", "failed"} => validArguments(x)')
        OBVIOUS
    <3>1. output'[x].cookies = output[x].cookies
        BY <2>6, <2>9
    <3>2. step'[x] \in {"summed", "touched", "done"} => step[x] = step'[x]
        BY <1>1, <2>2
    <3>3. step'[x] \notin {"called", "failed"} => validArguments(x)
        BY <1>1, <2>2, <2>3 DEF Outputs
    <3> QED
        BY <2>2, <3>1, <3>2, <3>3, SameArguments DEF Outputs, Reported
  <2>11. \A x \in Call \ {c} : Told(x)'
      BY <2>2, <2>6, ToldAgain DEF Outputs
  <2> QED
      BY <2>7, <2>8, <2>10, <2>11 DEF Outputs
<1>9. CASE Sum(c)
  <2>1. UNCHANGED <<args, input, cookies, jar>> /\ step[c] = "answered" /\ step'[c] = "summed"
      BY <1>9 DEF Sum, Table!Finish, table
  <2>2. CASE ~ args[c].session
    <3>1. output' = output /\ pc[c] = "idle"
        BY <1>9, <2>1, <2>2 DEF Sum, Stage
    <3>2. c \notin cookies[jar[c]]
        BY <3>1 DEF TableP!Linkage, TableP!CookieOwner, TableP!Holding
    <3> QED
        BY <1>1, <2>1, <3>1, <3>2, OutputsKept DEF Outputs
  <2>3. CASE args[c].session
    <3>1. output' = [output EXCEPT ![c].cookies = cookies[jar[c]]] /\ pc[c] = "exchanging"
        BY <1>9, <2>3 DEF Sum, cookieSummary, Table!Finish
    <3>2. \A k \in cookies[jar[c]] : input[k] = input[c]
        BY <3>1 DEF TableP!CookieIsolation, TableP!Holding
    <3>3. cookies[jar[c]] \subseteq Call
        OBVIOUS
    <3>4. output'[c] = [output[c] EXCEPT !.cookies = cookies[jar[c]]]
          /\ \A x \in Call \ {c} : output'[x] = output[x]
        BY <3>1 DEF Outputs
    <3>5. output[c] \in Output /\ output' \in [Call -> Output]
      <4>1. output[c] \in Output
          BY DEF Outputs
      <4>2. output'[c] \in Output
          BY <3>3, <3>4, <4>1 DEF Output
      <4>3. output' = [x \in Call |-> output'[x]]
          BY <3>1 DEF Outputs
      <4>4. \A x \in Call : output'[x] \in Output
          BY <3>4, <4>2 DEF Outputs
      <4> QED
          BY <4>1, <4>3, <4>4
    <3>6. /\ output'[c].cookies = cookies[jar[c]] /\ output'[c].source = output[c].source
          /\ output'[c].body = output[c].body /\ output'[c].truncated = output[c].truncated
        BY <3>4, <3>5 DEF Output
    <3>7. \A x \in Call : Reported(x)' /\ (step'[x] \notin {"called", "failed"} => validArguments(x)')
      <4>1. Reported(c)' /\ validArguments(c)'
          BY <2>1, <2>3, <3>2, <3>6, SameArguments DEF Outputs, Reported
      <4>2. ASSUME NEW x \in Call, x # c
            PROVE  Reported(x)' /\ (step'[x] \notin {"called", "failed"} => validArguments(x)')
          BY <1>1, <2>1, <3>4, <4>2, SameArguments DEF Outputs, Reported
      <4> QED
          BY <4>1, <4>2
    <3>8. \A x \in Call : Told(x)'
        BY <2>1, <3>4, <3>6, ToldAgain DEF Outputs
    <3> QED
        BY <3>5, <3>7, <3>8 DEF Outputs
  <2> QED
      BY <2>2, <2>3
<1> QED
    BY <1>2, <1>3, <1>4, <1>5, <1>6, <1>7, <1>8, <1>9 DEF CallStep

LEMMA OutputsInvariance == Spec => []Outputs
<1>1. Init => Outputs
  <2> SUFFICES ASSUME Init PROVE Outputs
      OBVIOUS
  <2>1. \A c \in Call : output[c] = Nothing /\ step[c] = "called"
      BY DEF Init
  <2>2. Nothing \in Output
      BY DEF Nothing, Output
  <2> QED
      BY <2>1, <2>2 DEF Init, Outputs, Reported, Told, Nothing
<1>2. Outputs /\ Stages /\ TablesInv /\ [Next]_vars => Outputs'
  <2> SUFFICES ASSUME Outputs, Stages, TablesInv, [Next]_vars PROVE Outputs'
      OBVIOUS
  <2>1. CASE Environment \/ UNCHANGED vars
    <3>1. UNCHANGED <<args, step, output, input, cookies, jar>>
        BY <2>1, EnvironmentKeepsCalls DEF vars, table, call
    <3> QED
        BY <3>1, OutputsKept DEF Outputs
  <2> QED
      BY <2>1, OutputsStep DEF Next
<1> QED
    BY <1>1, <1>2, StagesInvariance, TablesInvariance, PTL DEF Spec

\* The cookies a call reports are those of its own session.
THEOREM OwnSummary == Spec => []SummaryOfOwnSession
<1>1. Outputs => SummaryOfOwnSession
    BY DEF Outputs, Reported, SummaryOfOwnSession
<1> QED
    BY <1>1, OutputsInvariance, PTL

\* The output holds the first bytes of the body and says whether there are
\* more; a text comes as base64 only if the limit cuts a rune.
THEOREM TruncationReported == Spec => []TruncationTold
<1>1. Outputs => TruncationTold
  <2> SUFFICES ASSUME Outputs PROVE TruncationTold
      OBVIOUS
  <2>1. ASSUME NEW c \in Call, step[c] = "done"
        PROVE  IF responseLimit(c) < MaxInt THEN BodyTold(c)
               ELSE output[c].body = <<>> /\ ~ output[c].truncated
    <3>1. responseLimit(c) \in 1 .. MaxResponseBytes /\ MaxResponseBytes \in 1 .. MaxInt
          /\ MaxInt \in Nat
        BY <2>1, CallAssumption DEF Outputs, validArguments
    <3>2. CASE output[c].source = <<>> /\ output[c].body = <<>> /\ ~ output[c].truncated
      <4>1. Len(output[c].source) = 0 /\ SubSeq(<<>>, 1, 0) = <<>>
          BY <3>2, SubSeqEmpty
      <4> QED
          BY <3>1, <3>2, <4>1 DEF BodyTold
    <3>3. CASE ~ (output[c].source = <<>> /\ output[c].body = <<>> /\ ~ output[c].truncated)
      <4>1. responseLimit(c) < MaxInt \/ responseLimit(c) = MaxInt
          BY <3>1
      <4> QED
          BY <2>1, <3>3, <4>1 DEF Outputs, Told, BodyTold
    <3> QED
        BY <3>2, <3>3
  <2>2. ASSUME NEW c \in Call, Valid(output[c].source), ~ Valid(output[c].body)
        PROVE  output[c].truncated /\ ~ RuneStart(output[c].source[Len(output[c].body) + 1])
    <3> DEFINE o == output[c]
               n == responseLimit(c)
    <3>1. Valid(<<>>)
        BY DEF Valid
    <3>2. validArguments(c) /\ n < Len(o.source) /\ o.body = SubSeq(o.source, 1, n) /\ o.truncated
        BY <2>2, <3>1 DEF Outputs, Told
    <3>3. o.source \in Seq(Byte) /\ Len(o.source) \in Nat /\ n \in 1 .. MaxResponseBytes
          /\ MaxResponseBytes \in Nat
      <4>1. o.source \in Bodies \cup {<<>>}
          BY DEF Outputs, Output
      <4> QED
          BY <3>2, <4>1, CallAssumption, LenProperties DEF validArguments
    <3>4. Len(o.body) = n
        BY <3>2, <3>3, LenProperties, SubSeqProperties
    <3>5. n \in 1 .. Len(o.source) - 1
        BY <3>2, <3>3
    <3>6. ~ RuneStart(o.source[n + 1])
        BY <2>2, <3>2, <3>3, <3>5, ValidPrefix
    <3> QED
        BY <3>2, <3>4, <3>6
  <2> QED
      BY <2>1, <2>2 DEF TruncationTold
<1> QED
    BY <1>1, OutputsInvariance, PTL
-----------------------------------------------------------------------------
(***************************************************************************)
(* The end of a call.                                                      *)
(***************************************************************************)

\* The steps a call has before it, at most.
Ahead(c) ==
    CASE step[c] = "called"   -> 10
      [] step[c] = "checked"  -> IF pc[c] = "idle" THEN 9 ELSE 8
      [] step[c] = "open"     -> IF c \in cookies[jar[c]] THEN 6 ELSE 7
      [] step[c] = "answered" -> 5
      [] step[c] = "summed"   -> 4
      [] step[c] = "touched"  -> IF storing[c] = "idle" THEN 3 ELSE 2
      [] OTHER                -> 0

\* No cookie is taken out of a jar.
LEMMA CookiesStay ==
    ASSUME NEW c \in Call, CallStep(c), TablesInv
    PROVE  \A j \in Call : cookies[j] \subseteq cookies'[j]
<1>1. CASE ReceiveCookies(c)
    BY <1>1 DEF ReceiveCookies, Table!ReceiveCookies, TablesInv, TableP!TypeOK
<1>2. CASE ~ ReceiveCookies(c)
  <2>1. cookies' = cookies
      BY <1>2 DEF CallStep, Check, EnterSession, OpenSession, RefuseSession, Break, Answer, Sum,
          Touch, DateRecord, NoHandle, Return, table, Table!Enter, Table!Reuse, Table!Create,
          Table!Refuse, Table!Fail, Table!Finish, Table!Touch
  <2> QED
      BY <2>1
<1> QED
    BY <1>1, <1>2

LEMMA OwnStepAdvances ==
    ASSUME NEW c \in Call, CallStep(c), Stages, TablesInv, ~ UNCHANGED vars
    PROVE  Ahead(c)' < Ahead(c)
<1>1. step \in [Call -> Step] /\ DOMAIN pc = Call /\ DOMAIN storing = Call
    BY DEF Stages, TablesInv, TableP!TypeOK, TableP!Phase, StoreP!TypeOK, StoreP!Phase
<1>2. CASE Check(c)
    BY <1>1, <1>2 DEF Check, Ahead, table
<1>3. CASE EnterSession(c)
  <2>1. step[c] = "checked" /\ step'[c] = "checked" /\ pc[c] = "idle" /\ pc'[c] = "entered"
      BY <1>1, <1>3 DEF EnterSession, Table!Enter, call
  <2> QED
      BY <2>1 DEF Ahead
<1>4. CASE OpenSession(c)
  <2>1. step[c] = "checked" /\ step'[c] = "open"
      BY <1>1, <1>4 DEF OpenSession
  <2> QED
      BY <2>1 DEF Ahead
<1>5. CASE RefuseSession(c)
  <2>1. step[c] = "checked" /\ step'[c] = "failed"
      BY <1>1, <1>5 DEF RefuseSession
  <2> QED
      BY <2>1 DEF Ahead
<1>6. CASE ReceiveCookies(c)
  <2>1. /\ step[c] = "open" /\ step'[c] = "open" /\ jar' = jar /\ jar[c] \in Call
        /\ cookies' = [cookies EXCEPT ![jar[c]] = @ \cup {c}] /\ DOMAIN cookies = Call
      BY <1>6 DEF ReceiveCookies, Table!ReceiveCookies, Table!CookieJar, call, TablesInv, TableP!TypeOK
  <2>2. c \in cookies'[jar'[c]]
      BY <2>1
  <2>3. c \notin cookies[jar[c]]
    <3>1. SUFFICES ASSUME c \in cookies[jar[c]] PROVE UNCHANGED vars
        OBVIOUS
    <3>2. cookies[jar[c]] \cup {c} = cookies[jar[c]]
        BY <3>1
    <3>3. cookies' = cookies
        BY <2>1, <3>2 DEF TablesInv, TableP!TypeOK
    <3> QED
        BY <1>6, <3>3 DEF ReceiveCookies, Table!ReceiveCookies, vars, table, store, call
  <2> QED
      BY <2>1, <2>2, <2>3 DEF Ahead
<1>7. CASE Break(c)
  <2>1. step[c] = "open" /\ step'[c] = "failed"
      BY <1>1, <1>7 DEF Break
  <2> QED
      BY <2>1 DEF Ahead
<1>8. CASE Answer(c)
  <2>1. step[c] = "open" /\ step'[c] = "answered"
      BY <1>1, <1>8 DEF Answer
  <2> QED
      BY <2>1 DEF Ahead
<1>9. CASE Sum(c)
  <2>1. step[c] = "answered" /\ step'[c] = "summed"
      BY <1>1, <1>9 DEF Sum
  <2> QED
      BY <2>1 DEF Ahead
<1>10. CASE Touch(c)
  <2>1. step[c] = "summed" /\ step'[c] = "touched"
      BY <1>1, <1>10 DEF Touch
  <2> QED
      BY <2>1 DEF Ahead
<1>11. CASE DateRecord(c)
  <2>1. step[c] = "touched" /\ step'[c] = "touched" /\ storing[c] = "idle" /\ storing'[c] = "dated"
      BY <1>1, <1>11 DEF DateRecord, Store!Date, call
  <2> QED
      BY <2>1 DEF Ahead
<1>12. CASE NoHandle(c) \/ Return(c)
  <2>1. step[c] = "touched" /\ step'[c] \in {"failed", "done"}
      BY <1>1, <1>12 DEF NoHandle, Return
  <2> QED
      BY <2>1 DEF Ahead
<1> QED
    BY <1>2, <1>3, <1>4, <1>5, <1>6, <1>7, <1>8, <1>9, <1>10, <1>11, <1>12 DEF CallStep

\* Calls do not hinder one another: whatever the others do, the clock and the
\* clearing of sessions, a call is no further from its return, and each of its
\* own steps, ten at most, takes it nearer.
THEOREM CallsAdvance ==
    Spec => [][\A c \in Call : /\ Ahead(c)' \in Nat /\ Ahead(c)' <= Ahead(c)
                               /\ CallStep(c) => Ahead(c)' < Ahead(c)]_vars
<1>1. ASSUME Stages, TablesInv, Next, ~ UNCHANGED vars, NEW c \in Call
      PROVE  /\ Ahead(c)' \in Nat /\ Ahead(c)' <= Ahead(c)
             /\ CallStep(c) => Ahead(c)' < Ahead(c)
  <2>1. Ahead(c) \in Nat /\ Ahead(c)' \in Nat
      BY DEF Ahead
  <2>2. CASE CallStep(c)
    <3>1. Ahead(c)' < Ahead(c)
        BY <1>1, <2>2, OwnStepAdvances
    <3> QED
        BY <2>1, <3>1
  <2>3. CASE ~ CallStep(c)
    <3>1. CASE Environment
      <4>1. Ahead(c)' = Ahead(c)
          BY <3>1, EnvironmentKeepsCalls DEF Ahead
      <4> QED
          BY <2>1, <2>3, <4>1
    <3>2. ASSUME NEW x \in Call, CallStep(x)
          PROVE  Ahead(c)' <= Ahead(c)
      <4>1. x # c
          BY <2>3, <3>2
      <4>2. step'[c] = step[c] /\ pc'[c] = pc[c] /\ storing'[c] = storing[c] /\ jar'[c] = jar[c]
          BY <1>1, <3>2, <4>1, OwnStep DEF Stages
      <4>3. cookies[jar[c]] \subseteq cookies'[jar[c]]
          BY <1>1, <3>2, CookiesStay DEF TablesInv, TableP!TypeOK
      <4>4. CASE step[c] # "open"
          BY <2>1, <4>2, <4>4 DEF Ahead
      <4>5. CASE step[c] = "open"
          BY <4>2, <4>3, <4>5 DEF Ahead
      <4> QED
          BY <4>4, <4>5
    <3> QED
        BY <1>1, <2>1, <2>3, <3>1, <3>2 DEF Next
  <2> QED
      BY <2>2, <2>3
<1>2. Stages /\ TablesInv /\ Next /\ ~ UNCHANGED vars =>
         \A c \in Call : /\ Ahead(c)' \in Nat /\ Ahead(c)' <= Ahead(c)
                         /\ CallStep(c) => Ahead(c)' < Ahead(c)
    BY <1>1
<1> QED
    BY <1>2, StagesInvariance, TablesInvariance, PTL DEF Spec
=============================================================================
