--------------------------- MODULE RequestHeaders ---------------------------
(***************************************************************************)
(* The header of a request: setHeaders of internal/fetch/fetch.go.         *)
(*                                                                         *)
(* The supplied headers are a Go map, so they come in any order, and two   *)
(* names that differ in case or in spaces are two entries of it.  A name   *)
(* is judged by its trimmed lower-case form, but http.Header.Set gets the  *)
(* name as it is: it ignores case only, and a name with spaces around it   *)
(* becomes a key of its own (a request with such a key fails later, in the *)
(* client).                                                                *)
(***************************************************************************)
EXTENDS Naturals, Sequences, FiniteSetsExt, SequencesExt

CONSTANTS
    Field,          \* trimmed lower-case names
    Blank,          \* the empty one
    Forbidden,      \* forbiddenRequestHeaders
    Default,        \* the fields of defaultHeaders
    Value,          \* values of headers
    Broken,         \* those that hold a line break
    Browser,        \* the value a default has for the profile of the call
    MaxSupplied,    \* bound on the number of supplied headers
    MaxOrder        \* bound on the length of header_order

ASSUME HeaderAssumption ==
    /\ Blank \in Field
    /\ Forbidden \subseteq Field \ {Blank}
    /\ Default \subseteq Field \ ({Blank} \cup Forbidden)
    /\ Broken \subseteq Value
    /\ MaxSupplied \in Nat /\ MaxOrder \in Nat

\* "lower" and "mixed" differ in case only, "padded" has spaces around it,
\* "broken" holds a line break.
Spelling == {"lower", "mixed", "padded", "broken"}

Name == [field : Field, spelling : Spelling]

VARIABLES
    supplied,   \* Input.Headers: a function on some names
    order,      \* Input.HeaderOrder
    left,       \* the names the loop has not come to
    header,     \* req.Header: a function on keys
    headerOrder,    \* req.Header[http.HeaderOrderKey]
    pc          \* "defaults", "supplied", "set" or "rejected"

vars == <<supplied, order, left, header, headerOrder, pc>>

\* http.CanonicalHeaderKey: a name that is no token is left alone.
key(name) ==
    IF name.spelling \in {"lower", "mixed"} THEN [name EXCEPT !.spelling = "mixed"] ELSE name

Key == {key(name) : name \in Name}

\* Faulty variant: a name is judged without trimming it.
forbiddenAsGiven(name) == name.field \in Forbidden /\ name.spelling # "padded"

forbidden(name) == name.field \in Forbidden

\* A header that setHeaders refuses.
bad(name) ==
    \/ name.field = Blank
    \/ forbidden(name)
    \/ name.spelling = "broken"
    \/ supplied[name] \in Broken

\* Faulty variant: a header that is set stays as it is.
setFirst(k, v) == [h \in DOMAIN header \cup {k} |-> IF h \in DOMAIN header THEN header[h] ELSE v]

\* http.Header.Set
set(k, v) == [h \in DOMAIN header \cup {k} |-> IF h = k THEN v ELSE header[h]]

defaultKey(field) == [field |-> field, spelling |-> "mixed"]

DefaultOrder == SetToSeq(Default)

\* The entries of an order that are not blank, trimmed and in lower case.
normalizedOrder ==
    SelectSeq(IF order = <<>> THEN DefaultOrder ELSE order, LAMBDA field : field # Blank)
-----------------------------------------------------------------------------
Init ==
    /\ \E n \in 0 .. MaxSupplied : \E names \in kSubset(n, Name) : supplied \in [names -> Value]
    /\ order \in SeqOf(Field, MaxOrder)
    /\ left = DOMAIN supplied
    /\ header = [k \in {} |-> Browser]
    /\ headerOrder = <<>>
    /\ pc = "defaults"

\* No two defaults share a key, so their order is immaterial.
SetDefaults ==
    /\ pc = "defaults"
    /\ header' = [k \in {defaultKey(field) : field \in Default} |-> Browser]
    /\ pc' = "supplied"
    /\ UNCHANGED <<supplied, order, left, headerOrder>>

Reject(name) ==
    /\ pc = "supplied" /\ name \in left
    /\ bad(name)
    /\ pc' = "rejected"
    /\ UNCHANGED <<supplied, order, left, header, headerOrder>>

SetSupplied(name) ==
    /\ pc = "supplied" /\ name \in left
    /\ ~ bad(name)
    /\ header' = set(key(name), supplied[name])
    /\ left' = left \ {name}
    /\ UNCHANGED <<supplied, order, headerOrder, pc>>

\* Faulty variant: the loop ends at the first name it has set.
passedSome == left # DOMAIN supplied \/ left = {}

passedAll == left = {}

SetOrder ==
    /\ pc = "supplied" /\ passedAll
    /\ headerOrder' = normalizedOrder
    /\ pc' = "set"
    /\ UNCHANGED <<supplied, order, left, header>>

Next ==
    \/ SetDefaults
    \/ \E name \in left : Reject(name) \/ SetSupplied(name)
    \/ SetOrder

Spec == Init /\ [][Next]_vars
-----------------------------------------------------------------------------
(***************************************************************************)
(* Properties.                                                             *)
(***************************************************************************)

\* Whether a request is refused does not depend on the order in which the map
\* is iterated: it is iff one of its headers is bad, wherever it comes.
RefusedForItsHeaders ==
    /\ pc = "set" => \A name \in DOMAIN supplied : ~ bad(name)
    /\ pc = "rejected" => \E name \in DOMAIN supplied : bad(name)

\* README.md:420, "transport-managed request headers cannot be overridden":
\* no spelling of a forbidden name gets into the header, nor a line break.
NoForbiddenHeader ==
    \A k \in DOMAIN header : k.field \notin Forbidden \cup {Blank} /\ k.spelling # "broken"

\* The value of every key of a request that is sent: what was supplied under
\* one of the spellings of the key, the browser default if nothing was
\* (fetch.go:330-341).  So the iteration order can only be seen where two
\* spellings of one key were supplied.
SuppliedOverDefault ==
    pc = "set" =>
        /\ DOMAIN header = {key(name) : name \in DOMAIN supplied}
                           \cup {defaultKey(field) : field \in Default}
        /\ \A k \in DOMAIN header :
              LET given == {supplied[name] : name \in {n \in DOMAIN supplied : key(n) = k}}
              IN  IF given = {} THEN header[k] = Browser ELSE header[k] \in given
=============================================================================
