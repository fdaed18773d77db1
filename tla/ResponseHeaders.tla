-------------------------- MODULE ResponseHeaders --------------------------
(***************************************************************************)
(* What the caller sees of the header of a response:                       *)
(* sanitizeResponseHeaders of internal/fetch/response_store.go, which      *)
(* splits a map iterated in any order and sorts the names it holds back    *)
(* with an insertion sort.                                                 *)
(*                                                                         *)
(* A name is given by the place of its lower-case form in the order of     *)
(* strings, and its spelling.                                              *)
(***************************************************************************)
EXTENDS Naturals, Sequences

CONSTANTS
    Place,          \* the places of lower-case names
    Sensitive       \* those in sensitiveResponseHeaders

\* What the constants are.
PlaceAssumption == Sensitive \subseteq Place /\ Place \subseteq Nat

Name == [place : Place, spelling : {"lower", "mixed"}]

VARIABLES
    headers,    \* the keys of resp.Header
    left,       \* those the loop has not come to
    safe,       \* the keys that are returned with their values
    redacted,   \* the names that are returned without
    i, j,       \* of sortStringsCaseInsensitive, counted from 1
    pc          \* "split", "sort" or "done"

vars == <<headers, left, safe, redacted, i, j, pc>>

\* Faulty variant: only the lower-case spelling is known.
sensitiveAsWritten(name) == name.place \in Sensitive /\ name.spelling = "lower"

sensitive(name) == name.place \in Sensitive

before(m, n) == m.place < n.place

\* Faulty variant: a name moves past one other at most.
movedOnce == j = i /\ j > 1 /\ before(redacted[j], redacted[j - 1])

\* The condition of the inner loop.
moves == j > 1 /\ before(redacted[j], redacted[j - 1])

\* Faulty variant: the name is copied over its neighbour.
overwritten == [redacted EXCEPT ![j - 1] = redacted[j]]

swapped == [redacted EXCEPT ![j] = redacted[j - 1], ![j - 1] = redacted[j]]
-----------------------------------------------------------------------------
Init ==
    /\ headers \in SUBSET Name
    /\ left = headers
    /\ safe = {}
    /\ redacted = <<>>
    /\ i = 2 /\ j = 2
    /\ pc = "split"

\* The body of the loop over the map.
Split(name) ==
    /\ pc = "split" /\ name \in left
    /\ left' = left \ {name}
    /\ IF sensitive(name)
       THEN redacted' = Append(redacted, name) /\ UNCHANGED safe
       ELSE safe' = safe \cup {name} /\ UNCHANGED redacted
    /\ UNCHANGED <<headers, i, j, pc>>

StartSort ==
    /\ pc = "split" /\ left = {}
    /\ pc' = "sort"
    /\ UNCHANGED <<headers, left, safe, redacted, i, j>>

Swap ==
    /\ pc = "sort" /\ i <= Len(redacted)
    /\ moves
    /\ redacted' = swapped
    /\ j' = j - 1
    /\ UNCHANGED <<headers, left, safe, i, pc>>

NextName ==
    /\ pc = "sort" /\ i <= Len(redacted)
    /\ ~ moves
    /\ i' = i + 1 /\ j' = i + 1
    /\ UNCHANGED <<headers, left, safe, redacted, pc>>

Finish ==
    /\ pc = "sort" /\ i > Len(redacted)
    /\ pc' = "done"
    /\ UNCHANGED <<headers, left, safe, redacted, i, j>>

Next == (\E name \in left : Split(name)) \/ StartSort \/ Swap \/ NextName \/ Finish

Spec == Init /\ [][Next]_vars
-----------------------------------------------------------------------------
(***************************************************************************)
(* Properties.                                                             *)
(***************************************************************************)

Redacted == {redacted[k] : k \in 1 .. Len(redacted)}

\* README.md:428, "Sensitive response headers are removed": whatever the order
\* of the map, every key is returned or redacted, never both and never lost
\* while the names are sorted, and no spelling of a sensitive one is returned.
\* The redacted names come out once each and in order, so the iteration of the
\* map can only show between two spellings of a name.
NothingLostOrLeaked ==
    /\ left \cup safe \cup Redacted = headers
    /\ left \cap (safe \cup Redacted) = {}
    /\ \A name \in safe : name.place \notin Sensitive
    /\ \A name \in Redacted : name.place \in Sensitive
    /\ pc = "done" => \A k, l \in 1 .. Len(redacted) : k < l =>
          redacted[k].place <= redacted[l].place /\ redacted[k] # redacted[l]
=============================================================================
