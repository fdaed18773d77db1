----------------------------- MODULE TextSearch -----------------------------
(***************************************************************************)
(* tls_response_search (SearchResponse of internal/fetch/response_store.go *)
(* on a record that was found): the checks of the arguments, the loop that *)
(* collects matches, and the context cut around each of them.              *)
(*                                                                         *)
(* The loop works on a lower-case copy of the body and reports offsets and *)
(* contexts of the body itself.  Offsets count bytes from zero, as in the  *)
(* code; bytes.Index is described by what it finds.                        *)
(***************************************************************************)
EXTENDS UTF8, FiniteSetsExt

CONSTANTS
    Bodies,                 \* stored bodies
    Queries,                \* queries
    MaxMatches,             \* the max_matches a caller may ask for
    ContextBytes,           \* the context_bytes a caller may ask for
    maxSearchQueryBytes,    \* 1024 in the code
    maxSearchMatches,       \* 50 in the code
    defaultSearchMatches,   \* 20 in the code
    maxSearchContext,       \* 1024 in the code
    defaultSearchContext    \* 160 in the code

ASSUME SearchAssumption ==
    /\ Bodies \subseteq Seq(Byte) /\ Queries \subseteq Seq(Byte)
    /\ MaxMatches \subseteq Int /\ ContextBytes \subseteq Int
    /\ maxSearchQueryBytes \in Nat
    /\ maxSearchMatches \in Nat \ {0} /\ defaultSearchMatches \in 1 .. maxSearchMatches
    /\ maxSearchContext \in Nat /\ defaultSearchContext \in 0 .. maxSearchContext

VARIABLES
    searchPc,       \* "called", "searching", "done" or "failed"
    body,           \* record.body
    searchInput,    \* the arguments
    searchFrom,     \* the local variable of that name
    matches,        \* the offset and the window of each match
    searchLimited   \* the local variable "limited"

searchVars == <<searchPc, body, searchInput, searchFrom, matches, searchLimited>>

maxMatches == IF searchInput.maxMatches = 0 THEN defaultSearchMatches ELSE searchInput.maxMatches

contextBytes ==
    IF searchInput.contextBytes = 0 THEN defaultSearchContext ELSE searchInput.contextBytes

validSearch ==
    /\ Valid(body)
    /\ Len(searchInput.query) \in 1 .. maxSearchQueryBytes /\ Valid(searchInput.query)
    /\ maxMatches \in 1 .. maxSearchMatches
    /\ contextBytes \in 0 .. maxSearchContext
-----------------------------------------------------------------------------
\* n bytes of s from offset o.
bytesAt(s, o, n) == SubSeq(s, o + 1, o + n)

\* Faulty variant: the byte after Z is lowered too.
asciiLowerTooFar(s) == [i \in DOMAIN s |-> IF s[i] \in 65 .. 91 THEN s[i] + 32 ELSE s[i]]

asciiLowerCopy(s) == [i \in DOMAIN s |-> IF s[i] \in 65 .. 90 THEN s[i] + 32 ELSE s[i]]

folded(s) == IF searchInput.caseSensitive THEN s ELSE asciiLowerCopy(s)

size == Len(searchInput.query)

\* The offsets of the body at which the query is found.
Occurrences ==
    {o \in 0 .. Len(body) - size : bytesAt(folded(body), o, size) = folded(searchInput.query)}

\* What bytes.Index can still find, and the one it finds.
Found == {o \in Occurrences : o >= searchFrom}

next == CHOOSE o \in Found : \A p \in Found : o <= p

\* Faulty variant: the window may begin in the middle of a rune.
windowStartAnywhere(o) == IF o < contextBytes THEN 0 ELSE o - contextBytes

\* The start of a context, moved back to the start of a rune.
windowStart(o) ==
    LET start == IF o < contextBytes THEN 0 ELSE o - contextBytes
    IN  Max({0} \cup {s \in 1 .. start : RuneStart(body[s + 1])})

\* The end of a context, moved on until what is between is text.
windowEnd(o) ==
    LET end == Min({o + size + contextBytes, Len(body)})
        s == windowStart(o)
    IN  Min({Len(body)} \cup {e \in end .. Len(body) : Valid(bytesAt(body, s, e - s))})
-----------------------------------------------------------------------------
SearchInit ==
    /\ searchPc = "called"
    /\ body \in Bodies
    /\ searchInput \in [query : Queries, caseSensitive : BOOLEAN,
                  maxMatches : MaxMatches, contextBytes : ContextBytes]
    /\ searchFrom = 0 /\ matches = <<>> /\ searchLimited = FALSE

Begin ==
    /\ searchPc = "called"
    /\ searchPc' = IF validSearch THEN "searching" ELSE "failed"
    /\ UNCHANGED <<body, searchInput, searchFrom, matches, searchLimited>>

\* Faulty variant: the search goes on behind the first byte of the match.
pastFirstByte(o) == o + 1

pastMatch(o) == o + size

\* Faulty variant: room for one more match than was asked for.
fullLate == Len(matches) > maxMatches

full == Len(matches) = maxMatches

\* The next occurrence is reported; the search goes on behind it.
Match ==
    /\ searchPc = "searching"
    /\ Found # {}
    /\ ~ full
    /\ \E o \in {next} :
          /\ matches' = Append(matches, [offset |-> o, start |-> windowStart(o),
                                         end |-> windowEnd(o)])
          /\ searchFrom' = pastMatch(o)
    /\ UNCHANGED <<searchPc, body, searchInput, searchLimited>>

\* Faulty variant: a full list is reported as limited.
limitedWhenFull == full

limitedWhenFound == Found # {}

\* Faulty variant: the loop goes on when the list is full.
lastFound == Found = {}

over == Found = {} \/ full

\* There is no other occurrence, or no room for it.
End ==
    /\ searchPc = "searching"
    /\ over
    /\ searchLimited' = limitedWhenFound
    /\ searchPc' = "done"
    /\ UNCHANGED <<body, searchInput, searchFrom, matches>>

SearchNext == Begin \/ Match \/ End

SearchSpec == SearchInit /\ [][SearchNext]_searchVars

\* SearchResponse is sequential code and runs on.
SearchFairSpec == SearchSpec /\ WF_searchVars(SearchNext)
-----------------------------------------------------------------------------
(***************************************************************************)
(* Properties.                                                             *)
(***************************************************************************)

\* Every variable has its type; no list is longer than the server allows.
SearchTypeOK ==
    /\ searchPc \in {"called", "searching", "done", "failed"}
    /\ body \in Bodies
    /\ searchInput \in [query : Queries, caseSensitive : BOOLEAN,
                  maxMatches : MaxMatches, contextBytes : ContextBytes]
    /\ searchFrom \in Nat
    /\ matches \in Seq([offset : Nat, start : Nat, end : Nat]) /\ Len(matches) <= maxSearchMatches
    /\ searchLimited \in BOOLEAN

SearchDone == searchPc = "done"

Offsets == {matches[i].offset : i \in DOMAIN matches}

\* The matches are those a reader of the text would mark from left to right:
\* none overlaps another, and every occurrence is reported, overlaps one that
\* is reported and begins before it, or lies behind the last, which is when the
\* list is called limited and holds as many as were asked for.
LeftmostMatches ==
    SearchDone =>
        /\ Offsets \subseteq Occurrences
        /\ \A i, j \in DOMAIN matches : i < j => matches[i].offset + size <= matches[j].offset
        /\ \A o \in Occurrences \ Offsets :
              \/ \E m \in Offsets : m < o /\ o < m + size
              \/ searchLimited /\ \A m \in Offsets : m + size <= o
        /\ searchLimited => \E o \in Occurrences : \A m \in Offsets : m + size <= o
        /\ searchLimited => Len(matches) = maxMatches
        /\ Len(matches) <= maxMatches

\* A context is text, holds its match, and is no wider than was asked for but
\* for the rest of a rune at either end, three bytes at most (validUTF8Window).  Folding case has
\* moved nothing: at the offset a rune begins, and there is the query, but for
\* the case of its letters.
ContextIsText ==
    \A i \in DOMAIN matches :
        LET m == matches[i]
        IN  /\ Valid(bytesAt(body, m.start, m.end - m.start))
            /\ m.start <= m.offset /\ m.offset + size <= m.end /\ m.end <= Len(body)
            /\ m.offset - m.start <= contextBytes + 3
            /\ m.end - (m.offset + size) <= contextBytes + 3
            /\ RuneStart(body[m.offset + 1])
            /\ \A k \in 1 .. size :
                  \/ body[m.offset + k] = searchInput.query[k]
                  \/ /\ ~ searchInput.caseSensitive
                     /\ {body[m.offset + k], searchInput.query[k]}
                            \in {{c, c + 32} : c \in 65 .. 90}

\* A search ends, whatever repeats in the body.
SearchEnds == <>(searchPc \in {"done", "failed"})
=============================================================================
