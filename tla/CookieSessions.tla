--------------------------- MODULE CookieSessions ---------------------------
(***************************************************************************)
(* The cookie sessions of the fetcher: the table f.sessions of             *)
(* internal/fetch/session.go and the life of every tool call that names a  *)
(* session (Fetcher.Do in internal/fetch/fetch.go).                        *)
(*                                                                         *)
(* Tool calls run concurrently.  The mutex f.mu protects the table, so a   *)
(* critical section is one action.  What it does not protect is the clock: *)
(* session() and touchSession() read f.now() BEFORE they take the lock, so *)
(* reading the clock and using it are two actions and anything may happen  *)
(* between them.  The request itself runs without the lock, on a jar the   *)
(* call took out of the table earlier.                                     *)
(*                                                                         *)
(* Abstractions: time is a natural number; a cookie is named after the     *)
(* call that received it; a jar is named after the call that created it    *)
(* (a call creates at most one).                                           *)
(***************************************************************************)
EXTENDS Naturals, FiniteSets, Functions

CONSTANTS
    SessionID,      \* identifiers that pass validateSessionID
    Call,           \* tool calls that carry a session_id
    MaxSessions,    \* Config.MaxSessions
    SessionTTL,     \* Config.SessionTTL
    MaxClock        \* bound on the clock

\* Config.withDefaults and envPositiveInt leave no limit below one.
ASSUME ConfigAssumption ==
    /\ MaxSessions \in Nat \ {0}
    /\ SessionTTL \in Nat \ {0}
    /\ MaxClock \in Nat

VARIABLES
    clock,      \* what f.now() returns
    sessions,   \* Fetcher.sessions: a function on the identifiers in use
    cookies,    \* cookies[j]: the content of jar j
    input,      \* input[c]: the session_id argument of call c
    pc,         \* pc[c]: the phase of call c
    now,        \* now[c]: the local variable "now" of call c
    jar,        \* jar[c]: the local variable "sessionJar" of call c
    cleared,    \* history: calls whose session was cleared by name
    purged      \* history: calls whose session was purged, having expired

vars == <<clock, sessions, cookies, input, pc, now, jar, cleared, purged>>

SessionState ==
    [jar : Call, createdAt : Nat, lastUsed : Nat, expiresAt : Nat]

Phase == {"idle", "entered", "refused", "exchanging", "touching", "done"}

\* The phases of a call that has been given a jar.
Holding == {"exchanging", "touching", "done"}

\* The calls cut off when the sessions in S are removed from the table.
Severed(S) ==
    {c \in Call : /\ pc[c] \in Holding
                  /\ input[c] \in S
                  /\ c \notin cleared \cup purged}
-----------------------------------------------------------------------------
(***************************************************************************)
(* Table operations.                                                       *)
(***************************************************************************)

\* Identifiers that purgeExpiredSessionsLocked(t) keeps.
Unexpired(t) == {s \in DOMAIN sessions : sessions[s].expiresAt > t}

\* Faulty variant: the age of a session counts, not its last use.
PurgeByAge(t) ==
    Restrict(sessions, {s \in DOMAIN sessions : sessions[s].createdAt + SessionTTL > t})

PurgeExpired(t) == Restrict(sessions, Unexpired(t))

\* Faulty variant: a use adds to the lease instead of restarting it.
UsedAdds(state, t) ==
    [state EXCEPT !.lastUsed = t, !.expiresAt = @ + SessionTTL]

\* A session used at time t.
Used(state, t) == [state EXCEPT !.lastUsed = t, !.expiresAt = t + SessionTTL]

\* Faulty variant: all sessions share one jar.
SharedJar(j, t) ==
    [jar |-> CHOOSE c \in Call : TRUE,
     createdAt |-> t, lastUsed |-> t, expiresAt |-> t + SessionTTL]

\* A session created at time t around jar j.
NewSession(j, t) ==
    [jar |-> j, createdAt |-> t, lastUsed |-> t, expiresAt |-> t + SessionTTL]

Insert(table, s, state) ==
    [k \in DOMAIN table \cup {s} |-> IF k = s THEN state ELSE table[k]]

\* Faulty variant: one session too many.
OverFull(table) == Cardinality(DOMAIN table) > MaxSessions

Full(table) == Cardinality(DOMAIN table) >= MaxSessions

\* Faulty variant: a session that is gone is put back with the jar of the call.
Resurrected(c) == Insert(sessions, input[c], NewSession(jar[c], now[c]))

\* What touchSession makes of the table: it does not purge, and it renews
\* whatever session goes by the name now.
Touched(c) ==
    IF input[c] \in DOMAIN sessions
    THEN [sessions EXCEPT ![input[c]] = Used(@, now[c])]
    ELSE sessions

\* Faulty variant: cookies go to the session that has the name now.
JarByName(c) == IF input[c] \in DOMAIN sessions THEN sessions[input[c]].jar ELSE jar[c]

\* The jar client.Do stores cookies in: the one the call was given.
CookieJar(c) == jar[c]

\* Faulty variant: the time is rounded up to the next unit.
RoundedUp == clock + 1

\* What a call gets from f.now().
Instant == clock
-----------------------------------------------------------------------------
Init ==
    /\ clock = 0
    /\ sessions = [s \in {} |-> {}]
    /\ cookies = [j \in Call |-> {}]
    /\ input \in [Call -> SessionID]
    /\ pc = [c \in Call |-> "idle"]
    /\ now = [c \in Call |-> 0]
    /\ jar = [c \in Call |-> c]
    /\ cleared = {}
    /\ purged = {}

Tick ==
    /\ clock < MaxClock
    /\ clock' = clock + 1
    /\ UNCHANGED <<sessions, cookies, input, pc, now, jar, cleared, purged>>

\* Do calls session(), which reads the clock before it locks.
Enter(c) ==
    /\ pc[c] = "idle"
    /\ pc' = [pc EXCEPT ![c] = "entered"]
    /\ now' = [now EXCEPT ![c] = Instant]
    /\ UNCHANGED <<clock, sessions, cookies, input, jar, cleared, purged>>

\* session() finds the session: its lease is renewed and its jar handed out.
Reuse(c) ==
    LET kept == PurgeExpired(now[c])
        s == input[c]
    IN  /\ pc[c] = "entered"
        /\ s \in DOMAIN kept
        /\ sessions' = [kept EXCEPT ![s] = Used(@, now[c])]
        /\ jar' = [jar EXCEPT ![c] = kept[s].jar]
        /\ pc' = [pc EXCEPT ![c] = "exchanging"]
        /\ purged' = purged \cup Severed(DOMAIN sessions \ DOMAIN kept)
        /\ UNCHANGED <<clock, cookies, input, now, cleared>>

\* session() creates the session around a new jar, which is empty.
Create(c) ==
    LET kept == PurgeExpired(now[c])
        s == input[c]
    IN  /\ pc[c] = "entered"
        /\ s \notin DOMAIN kept
        /\ ~ Full(kept)
        /\ sessions' = Insert(kept, s, NewSession(c, now[c]))
        /\ jar' = [jar EXCEPT ![c] = c]
        /\ pc' = [pc EXCEPT ![c] = "exchanging"]
        /\ purged' = purged \cup Severed(DOMAIN sessions \ DOMAIN kept)
        /\ UNCHANGED <<clock, cookies, input, now, cleared>>

\* session() reports that the limit is reached; what it purged stays purged.
Refuse(c) ==
    LET kept == PurgeExpired(now[c])
    IN  /\ pc[c] = "entered"
        /\ input[c] \notin DOMAIN kept
        /\ Full(kept)
        /\ sessions' = kept
        /\ pc' = [pc EXCEPT ![c] = "refused"]
        /\ purged' = purged \cup Severed(DOMAIN sessions \ DOMAIN kept)
        /\ UNCHANGED <<clock, cookies, input, now, jar, cleared>>

\* client.Do stores the cookies of a response.
ReceiveCookies(c) ==
    /\ pc[c] = "exchanging"
    /\ cookies' = [cookies EXCEPT ![CookieJar(c)] = @ \cup {c}]
    /\ UNCHANGED <<clock, sessions, input, pc, now, jar, cleared, purged>>

\* An error after session(): a rejected proxy or header, a failed request or
\* read.  Do returns without touching the session.
Fail(c) ==
    /\ pc[c] = "exchanging"
    /\ pc' = [pc EXCEPT ![c] = "done"]
    /\ UNCHANGED <<clock, sessions, cookies, input, now, jar, cleared, purged>>

\* The body is read; touchSession reads the clock before it locks.
Finish(c) ==
    /\ pc[c] = "exchanging"
    /\ pc' = [pc EXCEPT ![c] = "touching"]
    /\ now' = [now EXCEPT ![c] = Instant]
    /\ UNCHANGED <<clock, sessions, cookies, input, jar, cleared, purged>>

\* The critical section of touchSession.
Touch(c) ==
    /\ pc[c] = "touching"
    /\ pc' = [pc EXCEPT ![c] = "done"]
    /\ sessions' = Touched(c)
    /\ UNCHANGED <<clock, cookies, input, now, jar, cleared, purged>>

ClearSession(s) ==
    LET kept == PurgeExpired(clock)
    IN  /\ sessions' = Restrict(kept, DOMAIN kept \ {s})
        /\ purged' = purged \cup Severed(DOMAIN sessions \ (DOMAIN kept \cup {s}))
        /\ cleared' = cleared \cup Severed({s})
        /\ UNCHANGED <<clock, cookies, input, pc, now, jar>>

\* SessionInfo changes nothing but what its purge removes, and that is the
\* same whatever identifier it is asked about.
SessionInfo ==
    LET kept == PurgeExpired(clock)
    IN  /\ sessions' = kept
        /\ purged' = purged \cup Severed(DOMAIN sessions \ DOMAIN kept)
        /\ UNCHANGED <<clock, cookies, input, pc, now, jar, cleared>>

CallStep(c) ==
    \/ Enter(c) \/ Reuse(c) \/ Create(c) \/ Refuse(c)
    \/ ReceiveCookies(c) \/ Fail(c) \/ Finish(c) \/ Touch(c)

Next ==
    \/ Tick
    \/ \E c \in Call : CallStep(c)
    \/ \E s \in SessionID : ClearSession(s)
    \/ SessionInfo

Spec == Init /\ [][Next]_vars
-----------------------------------------------------------------------------
(***************************************************************************)
(* Invariants.                                                             *)
(***************************************************************************)

\* Every variable has its type; in particular the clock a call holds is never
\* ahead of the clock (session.go:73, 99).
TypeOK ==
    /\ clock \in Nat
    /\ DOMAIN sessions \subseteq SessionID
    /\ \A s \in DOMAIN sessions : sessions[s] \in SessionState
    /\ cookies \in [Call -> SUBSET Call]
    /\ input \in [Call -> SessionID]
    /\ pc \in [Call -> Phase]
    /\ now \in [Call -> Nat]
    /\ jar \in [Call -> Call]
    /\ cleared \subseteq Call
    /\ purged \subseteq Call
    /\ \A c \in Call : now[c] <= clock

\* The table never holds more sessions than Config.MaxSessions, however many
\* calls race for the last free slot (session.go:82).
SessionBound == Cardinality(DOMAIN sessions) <= MaxSessions

\* A jar only ever holds cookies of calls that named the same session: neither
\* the jar a later call would be given nor the one a running call was given
\* mixes the cookies of two identifiers.
CookieIsolation ==
    /\ \A s \in DOMAIN sessions :
          \A k \in cookies[sessions[s].jar] : input[k] = s
    /\ \A c \in Call : pc[c] \in Holding =>
          \A k \in cookies[jar[c]] : input[k] = input[c]

\* Once a session is gone from the table, cleared by name or purged, no cookie
\* received for it is ever seen through the table again, although a request that
\* was running when it went keeps storing cookies and touches the name afterwards.
\* (A session that has expired and is not purged yet is not gone: touchSession,
\* which checks no expiry, and a session() call with an earlier clock renew it
\* with its cookies; session.go:73, 102.)
GoneCookiesStayGone ==
    \A s \in DOMAIN sessions :
        cookies[sessions[s].jar] \cap (cleared \cup purged) = {}

\* The jar in the table was made by a call that named this session.
JarOfSession ==
    \A s \in DOMAIN sessions :
        LET j == sessions[s].jar
        IN  pc[j] \in Holding /\ input[j] = s /\ jar[j] = j

\* The jar a call was given was made by a call that named the same session.
JarOfCall ==
    \A c \in Call : pc[c] \in Holding =>
        pc[jar[c]] \in Holding /\ input[jar[c]] = input[c] /\ jar[jar[c]] = jar[c]

\* A cookie is in no jar but the one its call was given.
CookieOwner ==
    \A j \in Call : \A k \in cookies[j] : pc[k] \in Holding /\ jar[k] = j

\* A call that still shares the jar of the table was never cut off from it.
Attached ==
    \A c \in cleared \cup purged :
        /\ pc[c] \in Holding
        /\ input[c] \in DOMAIN sessions => sessions[input[c]].jar # jar[c]

\* A lease is counted from the last use, which is not in the future.
LeaseOfSession ==
    \A s \in DOMAIN sessions :
        /\ sessions[s].expiresAt = sessions[s].lastUsed + SessionTTL
        /\ sessions[s].createdAt <= clock
        /\ sessions[s].lastUsed <= clock

\* How the table, the jars and the running calls hang together; with TypeOK
\* and SessionBound it is inductive, and the other invariants follow from it.
Linkage ==
    /\ JarOfSession
    /\ JarOfCall
    /\ CookieOwner
    /\ Attached
    /\ LeaseOfSession

\* The state of the table at any time: well typed, bounded and linked up.
TableOK == TypeOK /\ SessionBound /\ Linkage
-----------------------------------------------------------------------------
(***************************************************************************)
(* What the table promises: a table of leases that refuses at capacity.    *)
(***************************************************************************)
Leased == [s \in DOMAIN sessions |->
              [item |-> sessions[s].jar, until |-> sessions[s].expiresAt]]

Issued == {c \in Call : pc[c] \in Holding /\ jar[c] = c}

Leases == INSTANCE LeaseTable WITH
    Key <- SessionID,
    Item <- Call,
    Capacity <- MaxSessions,
    TTL <- SessionTTL,
    MayDisplace <- FALSE,
    time <- clock,
    table <- Leased,
    issued <- Issued

\* The sessions implement the abstract lease table: whatever the order of
\* critical sections, an entry goes only by expiry or by name, keeps its jar
\* while it stays, and a jar that is gone never comes back.
LeaseRefinement == Leases!Spec
-----------------------------------------------------------------------------
(***************************************************************************)
(* Action properties.                                                      *)
(***************************************************************************)

\* A session that has not expired leaves the table only when it is cleared by
\* name; no other step replaces its jar, so the cookies of a live session are
\* never lost to the traffic of other sessions.
JarKept ==
    \A s \in Unexpired(clock) :
        \/ s \in DOMAIN sessions' /\ sessions'[s].jar = sessions[s].jar
        \/ ClearSession(s)

LiveSessionKeepsJar == [][JarKept]_vars

\* README, "Sliding idle TTL for cookie sessions": using a session never
\* brings its expiry nearer.
SlidingTTL ==
    [][\A s \in DOMAIN sessions \cap DOMAIN sessions' :
          sessions'[s].jar = sessions[s].jar
          => sessions'[s].expiresAt >= sessions[s].expiresAt]_vars

\* README on tls_session_warmup, "retains cookies in the provided session_id":
\* when a warmup completes and nobody cleared its session, the cookies it
\* received are in the session of that name.
WarmupRetains ==
    [][\A c \in Call :
          (pc[c] = "touching" /\ pc'[c] = "done" /\ c \notin cleared
              /\ c \in cookies[jar[c]])
          => /\ input[c] \in DOMAIN sessions'
             /\ c \in cookies'[sessions'[input[c]].jar]]_vars
=============================================================================
