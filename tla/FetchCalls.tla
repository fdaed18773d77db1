----------------------------- MODULE FetchCalls -----------------------------
(***************************************************************************)
(* Calls of Fetcher.Do (internal/fetch/fetch.go) from their arguments to   *)
(* their output, over the two tables they share: the composition of        *)
(* CookieSessions and ResponseStore under one clock.                       *)
(*                                                                         *)
(* Every step that touches a table is the step of that module.  What is    *)
(* added is the order of the steps, the places where a call can fail, and  *)
(* what the output says of the body and of the cookies.  The exchange      *)
(* itself is in Exchange; here it fails or is answered.  Left out: what    *)
(* include_body = false hides, and the header fields of the output.        *)
(***************************************************************************)
EXTENDS UTF8

CONSTANTS
    SessionID, Call, MaxSessions, SessionTTL, MaxClock,     \* of CookieSessions
    MaxResponses, ResponseTTL,                              \* of ResponseStore
    Bodies,             \* bodies of responses
    Arguments,          \* the arguments calls are made with
    MaxResponseBytes,   \* Config.MaxResponseBytes
    MaxInt              \* the largest int64

ASSUME CallAssumption ==
    /\ MaxSessions \in Nat \ {0} /\ SessionTTL \in Nat \ {0} /\ MaxClock \in Nat
    /\ MaxResponses \in Nat \ {0} /\ ResponseTTL \in Nat \ {0}
    /\ MaxInt \in Nat
    /\ Bodies \subseteq Seq(Byte) /\ \A b \in Bodies : Len(b) <= MaxInt
    /\ Arguments \subseteq [session : BOOLEAN, store : BOOLEAN, maxBytes : Int]
    /\ MaxResponseBytes \in 1 .. MaxInt

VARIABLES
    clock,
    sessions, cookies, input, pc, now, jar, cleared, purged,    \* of CookieSessions
    responses, storing, dated, evicted,                         \* of ResponseStore
    args,       \* args[c]: of the other arguments of c, whether it names a
                \* session, store_response and max_response_bytes
    step,       \* step[c]: how far Do is
    output      \* output[c]: what Do has found out so far

Table == INSTANCE CookieSessions

Store == INSTANCE ResponseStore WITH Handle <- Call, pc <- storing, now <- dated

table == <<sessions, cookies, input, pc, now, jar, cleared, purged>>
store == <<responses, storing, dated, evicted>>
call == <<args, step, output>>
vars == <<clock, table, store, call>>

Step == {"called", "checked", "open", "answered", "summed", "touched", "done", "failed"}

Output == [source : Bodies \cup {<<>>}, body : Seq(Byte), truncated : BOOLEAN,
           cookies : SUBSET Call]

Nothing == [source |-> <<>>, body |-> <<>>, truncated |-> FALSE, cookies |-> {}]
-----------------------------------------------------------------------------
(***************************************************************************)
(* The body.                                                               *)
(***************************************************************************)
responseLimit(c) == IF args[c].maxBytes = 0 THEN MaxResponseBytes ELSE args[c].maxBytes

validArguments(c) == responseLimit(c) \in 1 .. MaxResponseBytes

\* Faulty variant: no byte beyond the limit is asked for.
readAtMost(n) == n

\* n + 1 in int64
readOneMore(n) == IF n + 1 > MaxInt THEN n + 1 - 2 * (MaxInt + 1) ELSE n + 1

\* io.ReadAll of a body through a LimitReader: nothing if the limit is negative.
readAll(body, n) ==
    SubSeq(body, 1, IF Len(body) < readOneMore(n) THEN Len(body) ELSE readOneMore(n))

\* Faulty variant: the byte read to detect truncation is left in the body.
bounded(bytes, n) == bytes

cut(bytes, n) == IF Len(bytes) > n THEN SubSeq(bytes, 1, n) ELSE bytes
-----------------------------------------------------------------------------
Init ==
    /\ Table!Init
    /\ Store!Init
    /\ args \in [Call -> Arguments]
    /\ step = [c \in Call |-> "called"]
    /\ output = [c \in Call |-> Nothing]

\* What happens besides the calls of Do.
Environment ==
    /\ \/ Table!Tick /\ Store!Tick /\ UNCHANGED <<table, store>>
       \/ /\ Table!SessionInfo \/ \E s \in SessionID : Table!ClearSession(s)
          /\ UNCHANGED store
       \/ Store!Lookup /\ UNCHANGED table
    /\ UNCHANGED call

\* The arguments are checked before anything is changed: a refused maxBytes
\* stands for a refused url, method, profile, timeout or session_id.
Check(c) ==
    /\ step[c] = "called"
    /\ step' = [step EXCEPT ![c] = IF validArguments(c) THEN "checked" ELSE "failed"]
    /\ UNCHANGED <<clock, table, store, args, output>>

EnterSession(c) ==
    /\ step[c] = "checked" /\ args[c].session
    /\ Table!Enter(c)
    /\ UNCHANGED <<store, call>>

OpenSession(c) ==
    /\ step[c] = "checked"
    /\ step' = [step EXCEPT ![c] = "open"]
    /\ IF args[c].session THEN Table!Reuse(c) \/ Table!Create(c) ELSE UNCHANGED <<clock, table>>
    /\ UNCHANGED <<store, args, output>>

\* Faulty variant: a call waits for a slot.
RefuseNever(c) == FALSE

RefuseSession(c) ==
    /\ step[c] = "checked"
    /\ step' = [step EXCEPT ![c] = "failed"]
    /\ Table!Refuse(c)
    /\ UNCHANGED <<store, args, output>>

ReceiveCookies(c) ==
    /\ step[c] = "open" /\ args[c].session
    /\ Table!ReceiveCookies(c)
    /\ UNCHANGED <<store, call>>

\* Faulty variant: the session is touched although the call failed.
BreakTouches(c) ==
    /\ step[c] = "open"
    /\ step' = [step EXCEPT ![c] = "failed"]
    /\ sessions' = [s \in DOMAIN sessions |->
                       IF args[c].session /\ s = input[c] THEN Table!Used(sessions[s], clock)
                       ELSE sessions[s]]
    /\ UNCHANGED <<clock, cookies, input, pc, now, jar, cleared, purged, store, args, output>>

\* The proxy or a header is rejected, the request or the reading of the body
\* fails: Do returns, and the session stays as it is.
Break(c) ==
    /\ step[c] = "open"
    /\ step' = [step EXCEPT ![c] = "failed"]
    /\ IF args[c].session THEN Table!Fail(c) ELSE UNCHANGED <<clock, table>>
    /\ UNCHANGED <<store, args, output>>

\* The response has come, and its body is read up to the limit.
Answer(c) ==
    /\ step[c] = "open"
    /\ step' = [step EXCEPT ![c] = "answered"]
    /\ \E body \in Bodies :
          LET bytes == readAll(body, responseLimit(c))
          IN  output' = [output EXCEPT ![c].source = body,
                            ![c].body = cut(bytes, responseLimit(c)),
                            ![c].truncated = Len(bytes) > responseLimit(c)]
    /\ UNCHANGED <<clock, table, store, args>>

\* Faulty variant: the cookies are looked up by the name of the session.
summaryByName(c) ==
    IF input[c] \in DOMAIN sessions THEN cookies[sessions[input[c]].jar] ELSE {}

\* cookieSummary of the jar the call was given.
cookieSummary(c) == cookies[jar[c]]

\* The cookies are listed, and touchSession reads the clock.
Sum(c) ==
    /\ step[c] = "answered"
    /\ step' = [step EXCEPT ![c] = "summed"]
    /\ IF args[c].session
       THEN Table!Finish(c) /\ output' = [output EXCEPT ![c].cookies = cookieSummary(c)]
       ELSE UNCHANGED <<clock, table, output>>
    /\ UNCHANGED <<store, args>>

Touch(c) ==
    /\ step[c] = "summed"
    /\ step' = [step EXCEPT ![c] = "touched"]
    /\ IF args[c].session THEN Table!Touch(c) ELSE UNCHANGED <<clock, table>>
    /\ UNCHANGED <<store, args, output>>

DateRecord(c) ==
    /\ step[c] = "touched" /\ args[c].store
    /\ Store!Date(c)
    /\ UNCHANGED <<table, call>>

\* No handle can be made: the call fails with its session touched.
NoHandle(c) ==
    /\ step[c] = "touched" /\ args[c].store
    /\ step' = [step EXCEPT ![c] = "failed"]
    /\ Store!NoHandle(c)
    /\ UNCHANGED <<table, args, output>>

\* Faulty variant: the record is stored before the answer is complete.
ReturnEarly(c) ==
    /\ step[c] \in {"answered", "touched"}
    /\ step' = [step EXCEPT ![c] = IF step[c] = "touched" THEN "done" ELSE @]
    /\ IF args[c].store /\ storing[c] # "stored" THEN Store!Date(c) \/ Store!Insert(c)
       ELSE UNCHANGED <<clock, store>>
    /\ UNCHANGED <<table, args, output>>

\* The output is returned, with a handle if the body was to be stored.
Return(c) ==
    /\ step[c] = "touched"
    /\ step' = [step EXCEPT ![c] = "done"]
    /\ IF args[c].store THEN Store!Insert(c) ELSE UNCHANGED <<clock, store>>
    /\ UNCHANGED <<table, args, output>>

CallStep(c) ==
    \/ Check(c) \/ EnterSession(c) \/ OpenSession(c) \/ RefuseSession(c)
    \/ ReceiveCookies(c) \/ Break(c) \/ Answer(c) \/ Sum(c) \/ Touch(c)
    \/ DateRecord(c) \/ NoHandle(c) \/ Return(c)

Next == Environment \/ \E c \in Call : CallStep(c)

Spec == Init /\ [][Next]_vars

\* A call runs on: no lock is held for long, and an exchange ends (Exchange).
FairSpec == Spec /\ \A c \in Call : WF_vars(CallStep(c))
-----------------------------------------------------------------------------
(***************************************************************************)
(* Properties.                                                             *)
(***************************************************************************)

\* Every variable of the calls has its type.
TypeOK ==
    /\ args \in [Call -> Arguments]
    /\ step \in [Call -> Step]
    /\ output \in [Call -> Output]
    /\ \A c \in Call : Len(output[c].body) <= MaxResponseBytes

\* A call refused for its arguments leaves nothing behind, and a handle leads
\* to a body only if its call has returned it: a call that fails stores nothing.
FailureStoresNothing ==
    \A c \in Call :
        /\ step[c] \in {"called", "checked"} => \A s \in DOMAIN sessions : sessions[s].jar # c
        /\ step[c] = "failed" /\ pc[c] = "idle" => \A s \in DOMAIN sessions : sessions[s].jar # c
        /\ c \in DOMAIN responses => step[c] = "done" /\ args[c].store

\* A call that fails after it was given a session does not prolong the lease:
\* a session only such calls have used, or are using, is leased from the
\* instant one of them entered (fetch.go:173, 243).
FailureRenewsNothing ==
    \A s \in DOMAIN sessions :
        LET users == {c \in Call : input[c] = s /\ pc[c] \in Table!Holding}
        IN  (\A c \in users : step[c] \in {"open", "failed"} /\ storing[c] = "idle")
            => \E c \in users : sessions[s].lastUsed = now[c]

\* The cookies a call reports belong to its session, its own among them if it
\* received any, even when the session is cleared, has expired or has been
\* made anew in the meantime.
SummaryOfOwnSession ==
    \A c \in Call :
        /\ \A k \in output[c].cookies : args[c].session /\ input[k] = input[c]
        /\ step[c] \in {"summed", "touched", "done"} /\ c \in cookies[jar[c]]
              => c \in output[c].cookies

\* The output of c holds the first bytes of the body, as many as the limit of
\* c allows, and is called truncated iff there are more.
BodyTold(c) ==
    LET o == output[c]
        n == IF Len(o.source) < responseLimit(c) THEN Len(o.source) ELSE responseLimit(c)
    IN  o.body = SubSeq(o.source, 1, n) /\ (o.truncated <=> n < Len(o.source))

\* tools.go:19, max_response_bytes, "Maximum response bytes to return or store":
\* a call under any limit below the largest int64 tells its body, whatever the
\* limit of the server is; under that one a byte more cannot be asked for, and
\* the call reads nothing and says that nothing is missing (fetch.go:227-231;
\* EveryLimitTold).  A text is returned as base64 only if the limit cuts one of
\* its runes in two (fetch.go:231-236).
TruncationTold ==
    \A c \in Call :
        LET o == output[c]
        IN  /\ step[c] = "done" =>
                  IF responseLimit(c) < MaxInt THEN BodyTold(c)
                  ELSE o.body = <<>> /\ ~ o.truncated
            /\ Valid(o.source) /\ ~ Valid(o.body)
                  => o.truncated /\ ~ RuneStart(o.source[Len(o.body) + 1])

\* README.md:45-47, structured responses: "returned bytes, [...] truncation
\* state", under every limit the server accepts, the largest int64 included.
EveryLimitTold == \A c \in Call : step[c] = "done" => BodyTold(c)

\* Every call returns, with an output or an error.
Returns == \A c \in Call : <>(step[c] \in {"done", "failed"})
=============================================================================
