# A TLA+ verification of tls-fetch-mcp

tls-fetch-mcp is an MCP server, written in Go, that fetches web pages with a
browser-like TLS fingerprint on behalf of tools.  This directory holds TLA+
models of its core, TLC configurations that check them on small instances, and
proofs of their main properties that TLAPS checks for every instance.

## 1. Inventory

Paths are below `internal/fetch/` unless stated otherwise.

| Component | State | Operations | Works with |
|---|---|---|---|
| Calls of `Do` (`fetch.go`) | locals of each call | argument checks, the steps of a call in order, its error returns | all of the following |
| Cookie sessions (`session.go`) | `f.sessions`: name to jar, creation, last use, expiry; the jars | `session`, `touchSession`, `ClearSession`, `SessionInfo`, purge | called by `Do` before and after a request; the HTTP client uses the jar without the lock |
| Stored responses (`response_store.go`) | `f.responses`: handle to body and metadata, creation, expiry | `storeResponse`, `response` (lookup), purge, eviction | filled by `Do`; looked up by read, search and extract |
| HTTP exchange and network policy (`fetch.go`, `policy.go`) | per call: URL, redirects so far, redirect history, connections | URL check, proxy check, dial, redirect function | name server, HTTP client |
| Request headers (`fetch.go`) | none | `setHeaders` | called by `Do` |
| Response redaction (`response_store.go`) | none | `sanitizeResponseHeaders` | called by `Do` and by the store |
| Range reads (`response_store.go`) | none; the client's offset | `ReadResponse` | lookup in the store |
| Text search (`response_store.go`) | locals of the loop | `SearchResponse` | lookup in the store |
| Structured extraction (`extract.go`) | the results being trimmed | `ExtractResponse`: argument checks, selection of values, fitting to the limit | lookup in the store; HTML, CSS, JSONPath libraries |
| Configuration (`config.go`) | constant after start | `ConfigFromEnv`, `withDefaults` | every limit above |
| Tools and server (`tools.go`, `cmd/tls-fetch-mcp/main.go`) | none of its own | what each tool accepts and forwards | calls the above, concurrently |
| TLS client and profiles | - | - | a dependency |
| Packaging (`scripts/`, `Makefile`) | - | - | - |

One mutex, `f.mu`, protects both tables.  Tool calls run in goroutines of
their own.  What makes the code hard to test:

- the clock is read *before* the mutex is taken in `session`, `touchSession`
  and `storeResponse`, so every table operation may work with a stale instant;
- a request runs without the lock on a jar it took from the table earlier, and
  its session may be cleared, expire, or be created again meanwhile;
- a call may fail after each of its steps, with what it has done so far left behind;
- purging is lazy and happens with the clock of whoever comes along;
- the name server may change its answers between the check of a URL and its
  dial, and every redirect is a new URL;
- a client reads a stored body page by page while others evict it, and pages,
  limits and contexts may cut the runes of a text;
- headers are Go maps, iterated in any order;
- the output of an extraction contains its own size, and is cut until it fits;
- limits are `int64` and may be configured up to the largest one.

What makes the components correct is stated in section 4.  The complete list of
hazards, each with its source line and the properties that cover it, is in
`PROJECT.json`.

## 2. Modules

| Module | What it is |
|---|---|
| `LeaseTable` | abstract specification of both tables: a bounded table of leases on items that are issued once |
| `CookieSessions` | the session table and the calls that use it; implements `LeaseTable` with `MayDisplace = FALSE` |
| `ResponseStore` | the table of stored responses; implements `LeaseTable` with `MayDisplace = TRUE` |
| `FetchCalls` | whole calls of `Do` over both tables, composed of the actions of `CookieSessions` and `ResponseStore` |
| `Exchange` | one HTTP exchange under the network policy |
| `PagedReads` | clients that page through stored responses; uses `ResponseStore` |
| `UTF8` | what the code uses of `unicode/utf8` |
| `TextSearch` | one call of `tls_response_search` |
| `Extraction` | one call of `tls_response_extract` |
| `RequestHeaders`, `ResponseHeaders` | `setHeaders` and `sanitizeResponseHeaders` |
| `ToolCalls` | environment, configuration, tools, and the limits of a request |
| `Edges` | `RequestHeaders`, `ResponseHeaders` and `ToolCalls` side by side: the parts of a call that keep nothing for the next one |
| `CallParts` | `Edges`, `Exchange`, `TextSearch` and `Extraction` side by side: the parts of a call that share no state |
| `...Proofs` | theorems about the module of that name |
| `MC...` | instances for TLC |

Definitions named "Faulty variant" in a comment are used by no specification.
Each differs from the definition after it in the way a plausible mistake would
make the code differ; with it in place TLC reports the property that
`PROJECT.json` pairs with it ("mutants"), which shows that the property is not
satisfied by just anything.

### CookieSessions

A critical section is one action; reading the clock is another, because
anything may happen between the two.

| Action | Code |
|---|---|
| `Enter` | `Do` calls `session()`; `now := f.now()` (session.go:73) |
| `Reuse`, `Create`, `Refuse` | the three ways through its critical section, each with its purge |
| `ReceiveCookies` | the HTTP client stores cookies in the jar the call holds |
| `Fail` | any error return after `session()`: the session is not touched |
| `Finish`, `Touch` | `touchSession`: the clock, then the critical section |
| `ClearSession`, `SessionInfo` | each with its purge, the clock read under the lock |
| `Tick` | time |

A jar is named after the call that created it, a cookie after the call that
received it.  `cleared` and `purged` are history variables: the calls whose
session has gone since they got their jar.  Clearing by name counts as cleared
also when the session had expired and was still in the table.  A session that has
expired and was not purged is not gone: `touchSession` (session.go:102) checks no expiry
and renews it with its cookies, and so does a `session()` call with an older clock.

### ResponseStore

| Action | Code |
|---|---|
| `NoHandle` | `newResponseID` fails |
| `Date` | the record is dated and the body copied, before the lock |
| `Insert` | critical section of `storeResponse`: purge, evict, insert |
| `Lookup` | `response()`: its purge; the read, search and extract tools start here |

`Evictions` is the result of the eviction loop as a set of records: as many as
it takes, the oldest first.  Of records of one instant any may go first, since
Go iterates over a map in an arbitrary order.

### FetchCalls

The steps of `Do` for several calls at once, under one clock.  A step that
touches a table is the action of its module (`Table!Enter`, `Store!Insert`); what the
module adds is the order of the steps, the failures, and the output.

| Action | Code |
|---|---|
| `Check` | the argument checks, before anything is changed; they all end the call the same way, so that of `max_response_bytes` stands for all |
| `EnterSession`, `OpenSession`, `RefuseSession` | `session()`, if the call names one |
| `ReceiveCookies` | the client, while the exchange runs |
| `Break` | a rejected proxy or header, a failed request or read |
| `Answer` | `io.ReadAll` through the limit reader, and the cut (fetch.go:227) |
| `Sum` | `cookieSummary` of the call's jar; `touchSession` reads the clock |
| `Touch` | its critical section |
| `DateRecord`, `NoHandle`, `Return` | `storeResponse`, if asked for, and the return |

### Exchange

The name server is an actor (`Rebind`); so are the servers, which may answer
with any redirect.  The HTTP client is outside the repository and is modelled
from how `Do` configures it: it dials through `policy.dialContext` unless there
is a proxy (`Dial`), may use a kept connection for another request to the same
host (`ReuseConnection`), and calls the redirect function before it follows a
redirect (`Redirect`).  `CheckURL`, `ChooseRoute` and `Fail` are the code of `Do`
around it.  An address is identified with what `validateIP` can tell of it; a host
is a sequence of labels, after the lower-casing and trimming the code does.

### PagedReads

A client is given a handle when its response is stored (`Open`) and then asks for
`next_offset` again and again (`Read`, which is one of `ReadGone`, `ReadRejected`,
`ReadPanics`, `ReadPage`).  All of `ResponseStore` goes on at the same time.  A record
never changes, so what `ReadResponse` does after the lookup needs no interleaving.
Offsets are machine integers (`plus` wraps); slicing with an end before the start is
the panic Go makes of it.

### UTF8

Bytes are 0 to 255, and `Valid` is `utf8.Valid` with runes of one to four bytes: shortest
forms, no surrogates, nothing above U+10FFFF.

### TextSearch

`Begin` is the checks, `Match` one turn of the loop, `End` its two ends.  `bytes.Index` is
described by what it finds, on bodies folded the way `asciiLowerCopy` does; the two
loops of `validUTF8Window` are the last rune start before and the first text end after
the window.

### Extraction

`RejectRequest` and `Extract` are the checks and the selection of values, `Measure` is
one `json.Marshal` of `extractionOutputSize`, `Fit`, `Drop` and `TooSmall` are the
ways on in the loop of `fitExtractionOutput`.  The parsers and selectors are
libraries: a query is given with the nodes it matches, and a node is the size of
its serialized value and whether it has the attribute asked for.  Sizes are
modelled to the byte, because the decisions of the loop depend on the digits of
the counts, on `true` and `false`, and on commas.  All other parts of the output
are one number, `metadata`.  `document` is the record that was found: the class
of its media type and what the first byte of its body suggests, from which
`format` is detected as in `detectExtractFormat`; the formats it parses as, none
when it is not UTF-8; and whether its final URL is absolute.  A selector that
does not compile ends the call as invalid options do.

### RequestHeaders, ResponseHeaders

The iteration over a map is a set of names left, from which any may come next.
A supplied name is its trimmed lower-case form with a spelling: other case, spaces
around it, a line break in it.  `key` is what `http.Header.Set` makes of it: a name
with spaces is no token and stays a key of its own.  `ResponseHeaders` has the insertion
sort of the redacted names step by step.

### ToolCalls

`Stop` and `Start` are `ConfigFromEnv` and `New`, `Call` is one of the four tools that send
requests being called with any arguments, `Refuse` and `Send` what comes of it.  Requests
that redirects lead to are added to `sent` with the method the HTTP client gives them.

### Edges, CallParts

The three modules above share no variable, so a behaviour of `Edges` is one of any of
them, with the other two at rest.  `CallParts` puts `Exchange`, `TextSearch` and `Extraction`
beside it in the same way, each from all of its initial states and with its own fairness;
one run serves for all.  The theorems are about the modules by themselves.

## 3. Runs

| Run | Instance | Distinct states | Shows |
|---|---|---|---|
| `CookieSessions.cfg` | 3 calls, 2 names, 1 slot, TTL 2, clock to 3 | about 1 000 000 | section 4, *sessions* |
| `ResponseStore.cfg` | 5 handles, 3 places, TTL 2, clock to 4 | about 20 000 | section 4, *responses* |
| `FetchCalls.cfg` | 2 calls, 2 names, 1 slot in each table, TTLs 1, clock to 1, a text with a four-byte rune and a binary body, limits of 1, 3, 5, none and -1, `MaxInt` 7 | about 810 000 | section 4, *calls* |
| `PagedReads.cfg` | 2 responses, 1 place, 1 client, `MaxInt` 5 | about 76 000 | section 4, *range reads* |
| `CallParts.cfg`, of which: | | about 1 870 000 | |
| - `Exchange` | 3 hosts (one below another), 3 addresses, limit of 3 requests, allowlist, one proxy | about 110 000 | section 4, *exchange* |
| - `TextSearch` | all texts of up to 5 bytes over two letters and a rune of two bytes, some with runes of three and four bytes, and bodies that are no text | about 120 000 | section 4, *search* |
| - `Extraction` | one or two queries of 4 kinds (none and three are refused), 7 documents, 4 formats asked for, 5 result limits, 6 output limits, 4 metadata sizes | about 600 000 | section 4, *extraction* |
| - `Edges` | 3 supplied headers of 4 fields and 4 spellings; 8 response headers; 2 variables set, every tool and argument | about 1 000 000 | section 4, *headers* and *tools* |
| `CookieSlidingTTL.cfg` | 2 calls | stops at the counterexample | finding 1 |
| `CookieWarmup.cfg` | 2 calls, TTL 1 | stops at the counterexample | finding 2 |
| `ResponseRetention.cfg` | 2 handles, fairness | counterexample | finding 3 |
| `RedirectCount.cfg` | 1 host, the code's limit of 10 | counterexample | finding 4 |
| `PageSize.cfg` | a page of 2 bytes that cuts a rune, limit of 2 | counterexample | finding 5 |
| `RangePanic.cfg` | server limit of the largest integer, offset 2 | counterexample | finding 6 |
| `LargestLimit.cfg` | 1 call, server limit of the largest integer | counterexample | finding 7 |

*Bounds.*  Two names and one slot are enough for a call to be refused, and for
a slot to change hands; the third call can interleave with two that
share a session, or work with a second incarnation of it.  A TTL of 2 and a
clock to 3 allow a stale reading, a renewal and an expiry in one behaviour.
`FetchCalls` has only two calls and a clock to 1: what three calls and
more time can do to a table is in the other two runs, whose actions it uses; here a
call can fail at each step, or be overtaken by another that clears, expires or takes over
its session or evicts its record.  Its limits cut the rune of the text and end behind it,
and the server's limit is the largest integer, so that `responseLimit+1` overflows for a
call that asks for no limit and for no other.  With five handles and three places an
insertion can evict while there are both expired and live records, and twice in
a row.  A host below another and a foreign one exercise both kinds of allowlist
patterns.  In `PagedReads` pages of one to three bytes cut the rune of a text at each
place, the default page exceeds the server's limit, and `MaxInt` equals the length of the
longer body, so the addition wraps as it does in the code with a limit near the largest
`int64`.  In `TextSearch` a query can
overlap itself, stand next to a rune or equal one, and windows end inside runes of
two, three and four bytes and grow by up to three.  In `Extraction` the sizes put outputs on both sides
of 999 and 1000 bytes, where two sizes can be consistent; 2 stands for the limits
of 16 queries and 100 values.  `MaxSize`, above
which no value is, is 999: it is in no action, only in the assumption the proofs need.
The documents include JSON that is labelled HTML, JSON that
was cut off, and bodies whose format nothing tells.  In `Edges` one field is of each kind (blank, forbidden,
default, other), so two spellings of one field and a bad header can meet in one
request; two variables are enough to set one timeout, the other, or both.  The bounds on clocks
(`MaxClock`) are in the guard of `Tick` only; `MaxSupplied`, `MaxOrder` and `MaxSet` are in
`Init` only.  Calls, handles and session names are interchangeable, so
symmetry is used where only safety is checked.

*Fairness.*  Safety needs none.  `Exchange` assumes weak fairness of the steps of
the call: lookups, dials and waits end in a result or in an error, that of the
whole-request timeout if no other.  `Rebind` is not fair.  `FetchCalls` assumes weak fairness
of each call for the same reason, and because no critical section waits for anything;
clearing, inspecting, looking up and time are not fair.  `Extraction` and
`TextSearch` are sequential code and run on.  `PagedReads` assumes that a client that has
begun to read goes on, and nothing of the others.  `ResponseStore` assumes for the retention
run that time passes and that a call which has dated its record gets the lock;
nothing obliges a client to ask for another response, and that is what the run is about.

*Deadlock.*  All specifications end (calls are finished, the clock is at its
bound), so deadlock is not checked; progress is what `ExchangeEnds`, `SearchEnds`,
`ExtractionEnds`, `Returns` and `ReadingEnds` state.

## 4. Properties

*Sessions* (`CookieSessions`).  `TableOK`: never more than `MaxSessions`, no call holds an instant
ahead of the clock, and table, jars and running calls hang together.  `CookieIsolation`:
no jar mixes two names.  `GoneCookiesStayGone`: cookies of a session that was cleared, or purged
after it expired, never come back, although running requests keep storing and then touch the
name.  `LiveSessionKeepsJar`, `LeaseRefinement`.  That a call with a stale clock may be refused
although the sessions that fill the table have expired meanwhile (session.go:76) is true of
the code and not excluded by any property.

*Responses* (`ResponseStore`).  `TableOK`; `ServedUntilDue`; `EvictionNeedsPressure`; `ExpiredGoFirst`
(although the evicting call purged with an old clock, an expired record is always
evicted before a live one); `LeaseRefinement`.

*Calls* (`FetchCalls`).  `FailureStoresNothing`: a handle leads to a body only if its call returned it, and a call
refused early leaves no session.  `FailureRenewsNothing`: failing calls do not prolong a
lease.  `SummaryOfOwnSession`: the cookies a call reports are of its own session whatever became
of the name meanwhile.  `TruncationTold`: under every limit below the largest integer the output
holds the first bytes the limit allows and says whether there are more (under the largest it
says what the code does instead, finding 7); a text comes as base64 only if a rune was cut.
`Returns`.

*Exchange.*  `OnlyPermittedAddresses`; `OnlyAllowedRequests`; `RedirectBound`; `HistoryIsPath`;
`ExchangeEnds`.

*Range reads* (`PagedReads`).  `PagesReassemble`: following `next_offset` gives the body, no byte twice
and none left out.  `ServedWhileAlive`: only eviction or expiry ends a reading half way,
and nothing is served after it.  `ReadingEnds`.  `PageWithinLimit` and `ValidRangesServed` do
not hold (findings 5 and 6).

*Search* (`TextSearch`).  `LeftmostMatches`: the matches are those a reader marks from left to right,
and `limited` is true iff there is another.  `ContextIsText`: contexts begin and end between runes,
hold their match, and are at most three bytes wider at either end than asked for; case folding has
moved nothing.  `SearchEnds`.

*Extraction.*  `OutputExact` (the size an output states of itself is its size, and the
server's limits hold); `FlagsTell`; `CutFromTheEnd`; `NotCutInVain`; `ExtractionEnds`.
`NotCutInVain` is stated with care: at a power of ten an output can have two
consistent sizes, and the loop may meet the larger, which still holds the digits
of an earlier round, although the smaller would have fitted the limit.

*Headers.*  `RefusedForItsHeaders`: the order of the map does not decide whether a request is
refused.  `NoForbiddenHeader`; `SuppliedOverDefault`: it decides only which of two spellings
of one key wins.  `NothingLostOrLeaked` (`ResponseHeaders`).

*Tools* (`ToolCalls`).  `WithinServerLimits`: no environment, default or argument makes a request exceed
the server's limits.  `ToolIntent`: tools announced as read-only, and the warmup, send `GET` and
`HEAD` only, after redirects too.

## 5. Findings

1. `SlidingTTL`.  README.md:400 documents a "Sliding idle TTL for cookie
   sessions".  A call that read the clock and then waited for the mutex
   overwrites the lease of a later call with an older one.  The loss is as long as
   the wait, so it is small, but `expires_at` and `last_used_at` do go back.
2. `WarmupRetains`.  README.md:296 says a warmup "retains cookies in the provided
   `session_id`".  If the session expires while the request runs and another call
   purges it, the warmup succeeds and the cookies are gone.  This takes a session
   TTL as short as a request may last; with the default values (1800 s and a
   maximal timeout far below that) it does not happen.  In the trace time passes between
   the clock reading of `session()` and its critical section; it may as well pass during
   the request.
3. `DueBodiesGo`.  SECURITY.md:59 says that bodies stay in memory "until their TTL
   expires or the server stops".  They stay until the next access to the
   store after that.
4. `FollowsUpToLimit`.  README.md:248 says "Follow up to ten policy-checked
   redirects".  `len(via) >= 10` counts the first request too: nine are followed.
5. `PageWithinLimit`.  README.md:403 documents `MCP_TLS_FETCH_MAX_RESPONSE_READ_BYTES` as
   "Maximum bytes returned by one response-read or extraction call".  `ReadResponse` compares
   the raw bytes with it (as the schema of `max_bytes` says, response_store.go:52) and encodes
   them afterwards: a page that is no text, or cuts a rune of one, is returned in base64
   and a third longer (four characters for every three bytes begun).  `PagesBounded` proves how much longer; an extraction does
   keep the limit (`OutputExact`).
6. `ValidRangesServed`.  README.md:381 says that `tls_response_read` reads "from a zero-based byte
   `offset`, up to `max_bytes`".  `input.Offset + maxBytes` (response_store.go:158) wraps when both
   pass their checks under a `MaxReadBytes` of nearly the largest `int64`, which
   `envPositiveInt64` accepts, and slicing the body panics.  `PanicsExplained` proves that no
   other limit leads there.
7. `EveryLimitTold`.  README.md:45-47 lists "returned bytes" and "truncation state" in the output.
   `responseLimit+1` (fetch.go:227) wraps when the limit is the largest `int64`; the limit
   reader then reads nothing, and the output is an empty body with `truncated` false.

A TTL of more than about 9.2e9 seconds overflows when multiplied into nanoseconds
(session.go:79); `CookieSessions` takes leases for what they are meant to be.

## 6. Proofs

TLAPS proves the following for all values of the constants that satisfy the
assumption of the module (limits of at least one, well-formed hosts and patterns,
bodies no longer than the largest integer, ...; TLC evaluates the assumptions in the
runs).

- `CookieSessionsProofs`: the inductive invariant is `TableOK` with the finiteness of
  the table.  `Linkage` is what the others need: the
  jar in the table was made by a call that named the session (`JarOfSession`), so was
  the jar of every running call (`JarOfCall`), a cookie lies only in the jar its call
  was given (`CookieOwner`), a call that was cut off does not share the jar of the table
  (`Attached`), and a lease counts from the last use (`LeaseOfSession`).  `CookieIsolation`
  and `GoneCookiesStayGone` follow from it without induction.  The action
  property and the refinement of `LeaseTable` use the invariant and the fact
  that an instant held by a call is never ahead of the clock: a stale clock
  purges too little, never too much.
- `ResponseStoreProofs`: the invariant is `TableOK`, `ServedUntilDue`,
  `EvictionNeedsPressure` and finiteness of what was stored.
  `RecordOfHandle` ties
  expiry to date, so that the oldest record is the one that is due first;
  `ExpiredGoFirst` and the refinement rest on it.
- `FetchCallsProofs`: every step of a call is a step or a stutter of each table
  (`TablesImplemented`), so the invariants proved of the tables hold here too.  On top of
  them, `Stages` ties how far a call is to its phase in each table, `Renewal` to the
  lease of its session, and `Outputs` says what a call has found out by then.
  That no text is returned as base64 unless cut inside a rune rests on `ValidPrefix`: a
  text cut before the start of a rune is a text; it holds for runes of up to four bytes.
- `ExchangeProofs`: the invariant is the conjunction of the properties, with the
  fact that a URL on its way has passed the check; it is inductive although the
  name server changes its answers at will.
- `PagedReadsProofs`: the invariant is that what was received is the part of the body
  between the first and the next offset; a step of a reader is a step of the store
  or leaves it alone, so `ServedWhileAlive` follows from the theorems about the store.
  `PagesBounded` and `PanicsExplained` say how far findings 5 and 6 reach.
- `TextSearchProofs`: the invariant of the loop is that what lies before `searchFrom` has
  been reported or overlaps a match.  `SliceOfText` (a text cut between runes is
  a text) and `RuneNear` (there is such a place within three bytes) give the contexts; that a
  set of offsets has a least and a greatest comes from the well-foundedness of the
  natural numbers.
- `ExtractionProofs`: the size of an output depends on its own digits, so the loop looks for
  a fixed point.  `Settling` says where it is after each marshal: the first number differs
  from the right one by the digits of an older number, the next is one of two neighbours,
  because a length and the same length with its digits added have equally many digits or
  one apart; so the third or fourth equals the one before it.  `FourMarshals` follows: the
  loop of `extractionOutputSize` always returns from within, and the marshal after it
  (extract.go:476) is never reached.  `Selected` (what is returned is the beginning of what
  matched), `Counted` (flags and counts), `LastCut` (after a query that lost a value none
  returns any) and `NotInVain` (the value dropped last did not fit) are what dropping a
  value must keep; that `returned` falls by exactly one is `TotalLess`.  `digits` and the
  sums are recursive functions over numbers; the few facts needed of them come from a least
  counterexample, which exists because the natural numbers are well-founded (`LeastExists`).
  The one assumption is that no value is longer than 15 digits can tell, a petabyte:
  then every length has at most 19 digits, the width of Go's `int`.
- `EdgesProofs`: the configuration in use is consistent and every request granted by it; the
  invariant of the insertion sort; a key holds a supplied value as soon as one of its
  spellings has been passed, and all names before a refusal were good.  The theorems on
  request headers hold of `RequestHeaders` by itself and within `Edges`.

*Progress.*  Liveness under fairness is out of the prover's reach, but the part of it that
could fail in this code needs no fairness.  Each of the properties `ExchangeEnds`, `SearchEnds`,
`ExtractionEnds`, `Returns` and `ReadingEnds` says that some step is always possible and will be taken, and that this cannot
go on for ever.  The second half is proved with a ranking: a natural number that each own
step of a call makes smaller and that no step of anybody else makes larger.

| Theorem | Rank | What could have gone wrong |
|---|---|---|
| `ExchangeProofs` `Progress` | requests left, then the stage of the request | redirects in circles, answers that change |
| `FetchCallsProofs` `CallsAdvance` | own steps left, at most ten | other calls clearing or expiring the session |
| `PagedReadsProofs` `ReadingAdvances` | bytes left | an empty page, an offset that wraps |
| `TextSearchProofs` `Progress` | bytes behind `searchFrom` | an empty match, a match found again |
| `ExtractionProofs` `Progress` | values left, then marshals left | a size that never settles |

Only model-checked: the first half, that a call which has not ended can take a step and, being
scheduled fairly, does (the properties just named).  It needs
`ENABLED` and fairness, which the prover does not handle.  Every invariant and every action
property of the passing runs is stated by a theorem.

## 7. Not modelled, and what could follow

Not modelled: the TLS client and its profiles and the MCP library (dependencies), HTML
parsing, CSS and JSONPath evaluation (dependencies), the splitting of the allowlist from its variable, the wording of errors, packaging.
What happens after a request was handed to a proxy is up to the client and the proxy.
Several calls of `ExtractResponse` or `SearchResponse` at a time are not composed: after their
lookup they work on a record that never changes, so they cannot influence each other.

What could follow: `FetchCalls` with the exchange of `Exchange` in place of `Break` and `Answer`, which multiplies
the states of both without a property that relates them.
