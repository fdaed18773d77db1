----------------------------- MODULE PagedReads -----------------------------
(***************************************************************************)
(* tls_response_read: clients that read a stored response page by page     *)
(* (ReadResponse of internal/fetch/response_store.go), while other calls   *)
(* store responses, time passes and records are purged and evicted.        *)
(*                                                                         *)
(* The store is that of ResponseStore.  response() looks the record up     *)
(* under the lock; what is done with it afterwards needs none, because a   *)
(* record never changes, so a read is one action.  Integers are signed     *)
(* machine integers: MaxInt is the largest.                                *)
(***************************************************************************)
EXTENDS UTF8

CONSTANTS
    Handle, MaxResponses, ResponseTTL, MaxClock,    \* of ResponseStore
    Body,           \* Body[h]: the bytes stored under h
    Reader,         \* clients, each reading one response
    Offset,         \* where a client may begin
    MaxBytes,       \* the max_bytes a client may ask for
    MaxReadBytes,   \* Config.MaxReadBytes
    defaultResponseReadBytes,   \* 64 KiB in the code
    MaxInt          \* the largest int64

ASSUME ReadAssumption ==
    /\ MaxResponses \in Nat \ {0} /\ ResponseTTL \in Nat \ {0} /\ MaxClock \in Nat
    /\ MaxInt \in Nat
    /\ Body \in [Handle -> Seq(Byte)] /\ \A h \in Handle : Len(Body[h]) <= MaxInt
    /\ Offset \subseteq -(MaxInt + 1) .. MaxInt /\ MaxBytes \subseteq -(MaxInt + 1) .. MaxInt
    /\ MaxReadBytes \in 1 .. MaxInt /\ defaultResponseReadBytes \in 1 .. MaxInt

VARIABLES
    clock, responses, pc, now, evicted,     \* of ResponseStore
    handle,     \* handle[r]: the response_id of r
    first,      \* first[r]: the offset r began at
    asked,      \* asked[r]: the max_bytes r asks for
    offset,     \* offset[r]: the offset r asks for next
    received,   \* received[r]: the bytes of its pages, decoded and put together
    page,       \* page[r]: the last answer
    phase       \* phase[r]: how far r is

Store == INSTANCE ResponseStore

stored == <<clock, responses, pc, now, evicted>>
reading == <<handle, first, asked, offset, received, page, phase>>
vars == <<stored, reading>>

Phase == {"idle", "reading", "eof", "gone", "rejected", "panicked"}
-----------------------------------------------------------------------------
(***************************************************************************)
(* One range.                                                              *)
(***************************************************************************)

\* int64 addition
plus(m, n) == IF m + n > MaxInt THEN m + n - 2 * (MaxInt + 1) ELSE m + n

\* Faulty variant: there is no default.
limitAsAsked(n) == n

\* The local variable maxBytes.
limit(n) ==
    IF n # 0 THEN n
    ELSE IF defaultResponseReadBytes > MaxReadBytes THEN MaxReadBytes
    ELSE defaultResponseReadBytes

total(h) == Len(Body[h])

\* The end of the range, which is the next offset.
endOf(h, o, n) ==
    LET end == plus(o, limit(n)) IN IF end > total(h) THEN total(h) ELSE end

validRange(h, o, n) ==
    /\ o \in 0 .. total(h)
    /\ limit(n) \in 0 .. MaxReadBytes

\* Slicing with an end before the start panics.
sliceable(h, o, n) == o <= endOf(h, o, n)

\* Faulty variant: the slice ends one byte early.
chunkShort(h, o, end) == SubSeq(Body[h], o + 1, end - 1)

chunk(h, o, end) == SubSeq(Body[h], o + 1, end)

\* The length of the base64 encoding of n bytes: four characters for every
\* three bytes begun.
base64(n) == 4 * ((n + 2) \div 3)

\* encodeBody: text as it is, anything else in base64.
encodeBody(bytes) ==
    [size |-> IF Valid(bytes) THEN Len(bytes) ELSE base64(Len(bytes)),
     text |-> Valid(bytes)]
-----------------------------------------------------------------------------
Init ==
    /\ Store!Init
    /\ handle \in [Reader -> Handle]
    /\ first \in [Reader -> Offset] /\ offset = first
    /\ asked \in [Reader -> MaxBytes]
    /\ received = [r \in Reader |-> <<>>]
    /\ page = [r \in Reader |-> [size |-> 0, text |-> TRUE]]
    /\ phase = [r \in Reader |-> "idle"]

StoreStep == Store!Next /\ UNCHANGED reading

\* A client has been given its handle.
Open(r) ==
    /\ phase[r] = "idle"
    /\ pc[handle[r]] = "stored"
    /\ phase' = [phase EXCEPT ![r] = "reading"]
    /\ UNCHANGED <<stored, handle, first, asked, offset, received, page>>

\* Faulty variant: what is due is still served.
LookupLenient == UNCHANGED stored

Lookup == Store!Lookup

\* A read of r looks the record up and leads to phase p.
Ask(r, p) ==
    /\ phase[r] = "reading"
    /\ Lookup
    /\ phase' = [phase EXCEPT ![r] = p]
    /\ UNCHANGED <<handle, first, asked>>

\* The record has expired or was evicted.
ReadGone(r) ==
    /\ Ask(r, "gone")
    /\ handle[r] \notin DOMAIN responses'
    /\ UNCHANGED <<offset, received, page>>

ReadRejected(r) ==
    /\ Ask(r, "rejected")
    /\ handle[r] \in DOMAIN responses'
    /\ ~ validRange(handle[r], offset[r], asked[r])
    /\ UNCHANGED <<offset, received, page>>

ReadPanics(r) ==
    /\ Ask(r, "panicked")
    /\ handle[r] \in DOMAIN responses'
    /\ validRange(handle[r], offset[r], asked[r])
    /\ ~ sliceable(handle[r], offset[r], asked[r])
    /\ UNCHANGED <<offset, received, page>>

\* A page is returned; the client goes on where it ends.
ReadPage(r) ==
    LET h     == handle[r]
        end   == endOf(h, offset[r], asked[r])
        bytes == chunk(h, offset[r], end)
    IN  /\ Ask(r, IF end = total(h) THEN "eof" ELSE "reading")
        /\ h \in DOMAIN responses'
        /\ validRange(h, offset[r], asked[r])
        /\ sliceable(h, offset[r], asked[r])
        /\ offset' = [offset EXCEPT ![r] = end]
        /\ received' = [received EXCEPT ![r] = @ \o bytes]
        /\ page' = [page EXCEPT ![r] = encodeBody(bytes)]

Read(r) == ReadGone(r) \/ ReadRejected(r) \/ ReadPanics(r) \/ ReadPage(r)

Next == StoreStep \/ \E r \in Reader : Open(r) \/ Read(r)

Spec == Init /\ [][Next]_vars

\* A client that has begun goes on reading; nothing else is asked of anyone.
FairSpec == Spec /\ \A r \in Reader : WF_vars(Read(r))
-----------------------------------------------------------------------------
(***************************************************************************)
(* Properties.                                                             *)
(***************************************************************************)

\* Following next_offset, whatever the sizes of the pages and wherever they cut
\* a rune, gives the bytes of the body in order, none twice and none left out,
\* and eof comes with the last of them (response_store.go:158-171).
PagesReassemble ==
    \A r \in Reader :
        LET body == Body[handle[r]]
        IN  /\ received[r] # <<>> => received[r] = SubSeq(body, first[r] + 1, offset[r])
            /\ phase[r] = "eof" => offset[r] = Len(body)
                                /\ Len(received[r]) = Len(body) - first[r]

\* A page is served only while its record is alive, and only death of the
\* record ends a client's reading half way: it is due, or it was evicted.
ServedWhileAlive ==
    [][\A r \in Reader :
          LET h     == handle[r]
              alive == h \in DOMAIN responses /\ responses[h].expiresAt > clock
          IN  /\ received'[r] # received[r] => alive
              /\ phase'[r] = "gone" /\ phase[r] # "gone" =>
                    h \in evicted \/ now[h] + ResponseTTL <= clock]_vars

\* A client that goes on reading comes to an end: every page but the last has
\* a byte at least.
ReadingEnds == \A r \in Reader : phase[r] = "reading" ~> phase[r] # "reading"

\* README.md:403 of MCP_TLS_FETCH_MAX_RESPONSE_READ_BYTES: "Maximum bytes
\* returned by one response-read or extraction call".  No page is longer.
PageWithinLimit == \A r \in Reader : page[r].size <= MaxReadBytes

\* README.md:381, "from a zero-based byte offset, up to max_bytes": a range that
\* passes the checks of both is served (response_store.go:145-162).
ValidRangesServed == \A r \in Reader : phase[r] # "panicked"
=============================================================================
