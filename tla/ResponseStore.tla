---------------------------- MODULE ResponseStore ----------------------------
(***************************************************************************)
(* The stored responses of the fetcher: the table f.responses of           *)
(* internal/fetch/response_store.go, the calls that store a body and the   *)
(* lookups of the calls that read, search or extract one.                  *)
(*                                                                         *)
(* storeResponse reads the clock, copies the body and only then takes      *)
(* f.mu, so a record can enter the table after younger ones, and even      *)
(* after its own expiry.  A lookup purges and looks up in one critical     *)
(* section, with a clock read inside it.                                   *)
(*                                                                         *)
(* Abstractions: time is a natural number; a handle is named after the     *)
(* call it was made for (newResponseID draws 128 random bits, taken to be  *)
(* distinct); a body never changes once it is stored, so it is identified  *)
(* with its handle.                                                        *)
(***************************************************************************)
EXTENDS Naturals, FiniteSets, Functions

CONSTANTS
    Handle,         \* the calls that store a response, and their handles
    MaxResponses,   \* Config.MaxResponses
    ResponseTTL,    \* Config.ResponseTTL
    MaxClock        \* bound on the clock

\* Config.withDefaults and envPositiveInt leave no limit below one.
ASSUME ConfigAssumption ==
    /\ MaxResponses \in Nat \ {0}
    /\ ResponseTTL \in Nat \ {0}
    /\ MaxClock \in Nat

VARIABLES
    clock,      \* what f.now() returns
    responses,  \* Fetcher.responses: a function on the handles in the table
    pc,         \* pc[h]: the phase of the call that stores h
    now,        \* now[h]: its local variable "now"
    evicted     \* history: the handles evicted to make room

vars == <<clock, responses, pc, now, evicted>>

StoredResponse == [createdAt : Nat, expiresAt : Nat]

Phase == {"idle", "dated", "failed", "stored"}
-----------------------------------------------------------------------------
(***************************************************************************)
(* Table operations.                                                       *)
(***************************************************************************)

\* Faulty variant: a record is dropped one unit before it is due.
UnexpiredEarly(t) == {h \in DOMAIN responses : responses[h].expiresAt > t + 1}

\* Handles that purgeExpiredResponsesLocked(t) keeps.
Unexpired(t) == {h \in DOMAIN responses : responses[h].expiresAt > t}

\* Faulty variant: the comparison of evictOldestResponseLocked turned round.
Younger(e, r) == responses[e].createdAt >= responses[r].createdAt

\* Neither of two records of one instant comes before the other: which goes
\* first is up to the iteration order of a Go map.
Older(e, r) == responses[e].createdAt <= responses[r].createdAt

\* Faulty variant: room is made although there is some.
KeptTooFew(S) == IF Cardinality(S) < MaxResponses - 1 THEN Cardinality(S) ELSE MaxResponses - 2

\* Faulty variant: no room is made.
KeptAll(S) == Cardinality(S)

\* How many of the handles S the eviction loop keeps: it stops below the limit.
Kept(S) == IF Cardinality(S) < MaxResponses THEN Cardinality(S) ELSE MaxResponses - 1

\* What the eviction loop may remove from a table with the handles S.
Evictions(S) ==
    {E \in SUBSET S : Cardinality(S \ E) = Kept(S) /\ \A e \in E, r \in S \ E : Older(e, r)}

NewResponse(t) == [createdAt |-> t, expiresAt |-> t + ResponseTTL]

\* Faulty variant: the record is dated once the lock is held.
DatedLate(h) == clock

\* The date of the record of h, read before the lock is taken.
DateOf(h) == now[h]

\* Faulty variant: the time is rounded up to the next unit.
RoundedUp == clock + 1

\* What a call gets from f.now().
Instant == clock
-----------------------------------------------------------------------------
Init ==
    /\ clock = 0
    /\ responses = [h \in {} |-> {}]
    /\ pc = [h \in Handle |-> "idle"]
    /\ now = [h \in Handle |-> 0]
    /\ evicted = {}

Tick ==
    /\ clock < MaxClock
    /\ clock' = clock + 1
    /\ UNCHANGED <<responses, pc, now, evicted>>

\* newResponseID fails; Do reports the error and nothing is stored.
NoHandle(h) ==
    /\ pc[h] = "idle"
    /\ pc' = [pc EXCEPT ![h] = "failed"]
    /\ UNCHANGED <<clock, responses, now, evicted>>

\* storeResponse dates the record before it takes the lock.
Date(h) ==
    /\ pc[h] = "idle"
    /\ pc' = [pc EXCEPT ![h] = "dated"]
    /\ now' = [now EXCEPT ![h] = Instant]
    /\ UNCHANGED <<clock, responses, evicted>>

\* The critical section of storeResponse: purge, make room, insert.
Insert(h) ==
    /\ pc[h] = "dated"
    /\ \E E \in Evictions(Unexpired(now[h])) :
          /\ responses' = [x \in (Unexpired(now[h]) \ E) \cup {h} |->
                              IF x = h THEN NewResponse(DateOf(h)) ELSE responses[x]]
          /\ evicted' = evicted \cup E
    /\ pc' = [pc EXCEPT ![h] = "stored"]
    /\ UNCHANGED <<clock, now>>

\* response(): a lookup changes nothing but what its purge removes, whatever
\* handle it is for; it finds the handles that are left.
Lookup ==
    /\ responses' = Restrict(responses, Unexpired(clock))
    /\ UNCHANGED <<clock, pc, now, evicted>>

Next ==
    \/ Tick
    \/ \E h \in Handle : NoHandle(h) \/ Date(h) \/ Insert(h)
    \/ Lookup

Spec == Init /\ [][Next]_vars

\* Time passes and a call that has begun to store goes on: a goroutine waits
\* for a mutex that is held for a few map operations.  Nothing makes a client
\* ask for another response.
Fairness ==
    /\ WF_vars(Tick)
    /\ \A h \in Handle : WF_vars(Insert(h))

FairSpec == Spec /\ Fairness
-----------------------------------------------------------------------------
(***************************************************************************)
(* Invariants.                                                             *)
(***************************************************************************)

\* Every variable has its type, and no date is ahead of the clock
\* (response_store.go:119).
TypeOK ==
    /\ clock \in Nat
    /\ DOMAIN responses \subseteq Handle
    /\ \A h \in DOMAIN responses : responses[h] \in StoredResponse
    /\ pc \in [Handle -> Phase]
    /\ now \in [Handle -> Nat]
    /\ evicted \subseteq Handle
    /\ \A h \in Handle : now[h] <= clock

\* The table never holds more than Config.MaxResponses bodies, in whatever
\* order the calls that store get the lock (response_store.go:133).
StoreBound == Cardinality(DOMAIN responses) <= MaxResponses

\* The calls whose record went in.
Stored == {h \in Handle : pc[h] = "stored"}

\* A handle that was given out can be looked up until it is due, unless it was
\* evicted: no purge, whatever stale clock it uses, drops it before its time.
ServedUntilDue ==
    \A h \in Stored \ evicted : h \notin DOMAIN responses => now[h] + ResponseTTL <= clock

\* A handle is evicted only under pressure: as many others as the table holds
\* were stored, and all of them but the one it made room for are as young.
EvictionNeedsPressure ==
    \A h \in evicted :
        /\ h \in Stored
        /\ Cardinality(Stored \ {h}) >= MaxResponses
        /\ Cardinality({k \in Stored \ {h} : now[k] >= now[h]}) >= MaxResponses - 1

\* The table holds the records of stored calls, dated when the call read the
\* clock, and none of a handle that was evicted.
RecordOfHandle ==
    \A h \in DOMAIN responses :
        /\ h \in Stored \ evicted
        /\ responses[h] = NewResponse(now[h])

\* The state of the table at any time: well typed, bounded, every record true.
TableOK == TypeOK /\ StoreBound /\ RecordOfHandle
-----------------------------------------------------------------------------
(***************************************************************************)
(* What the table promises: a table of leases that displaces at capacity.  *)
(***************************************************************************)
Leased == [h \in DOMAIN responses |-> [item |-> h, until |-> responses[h].expiresAt]]

Leases == INSTANCE LeaseTable WITH
    Key <- Handle,
    Item <- Handle,
    Capacity <- MaxResponses,
    TTL <- ResponseTTL,
    MayDisplace <- TRUE,
    time <- clock,
    table <- Leased,
    issued <- Stored

\* The stored responses implement the abstract lease table: a body goes only
\* when it is due or, at capacity, as the one that is due first, and a handle
\* that is gone never leads to a body again.
LeaseRefinement == Leases!Spec
-----------------------------------------------------------------------------
(***************************************************************************)
(* Action properties and liveness.                                         *)
(***************************************************************************)

\* A live body is evicted only when no expired one is left to evict, although
\* the call that evicts purged with a clock it read before it waited for the
\* lock (response_store.go:119, 132-135).
ExpiredFirst ==
    \A h \in Unexpired(clock) : h \notin DOMAIN responses'
        => \A r \in DOMAIN responses \cap DOMAIN responses' : r \in Unexpired(clock)

ExpiredGoFirst == [][ExpiredFirst]_vars

\* SECURITY.md: "Temporary response handles retain the already-bounded body in
\* process memory until their TTL expires or the server stops."  A body that
\* is due is eventually let go.
DueBodiesGo ==
    \A h \in Handle :
        (h \in DOMAIN responses /\ responses[h].expiresAt <= clock)
            ~> (h \notin DOMAIN responses)
=============================================================================
