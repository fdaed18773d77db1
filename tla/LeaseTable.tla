----------------------------- MODULE LeaseTable -----------------------------
(***************************************************************************)
(* What the fetcher promises of the two tables it keeps in memory, the     *)
(* cookie sessions and the stored responses: a bounded table of leases.    *)
(*                                                                         *)
(* An entry of the table gives a key the use of one item (a cookie jar, a  *)
(* response body) until some instant.  An entry goes when its lease is     *)
(* over, when its key is revoked, or, in a table that may displace, to     *)
(* make room at capacity, shortest lease first.  An item that is gone is   *)
(* never issued again.  The table is swept lazily: an entry whose lease is *)
(* over may stay, and may still be renewed, until a sweep meets it.        *)
(***************************************************************************)
EXTENDS Naturals, FiniteSets, Functions

CONSTANTS
    Key, Item,
    Capacity,       \* the most entries the table may hold
    TTL,            \* the length of a lease
    MayDisplace     \* whether a grant may displace entries at capacity

VARIABLES
    time,
    table,          \* table[k].item is leased to k until table[k].until
    issued          \* the items ever granted

Init ==
    /\ time = 0
    /\ table = [k \in {} |-> {}]
    /\ issued = {}

Over == {k \in DOMAIN table : table[k].until <= time}

Without(S) == Restrict(table, DOMAIN table \ S)

\* A lease counts from an instant that has come: a caller may be late, never
\* early.
Lease(i) == {[item |-> i, until |-> t + TTL] : t \in 0 .. time}

Advance ==
    /\ time' \in Nat /\ time' > time
    /\ UNCHANGED <<table, issued>>

Sweep(S) ==
    /\ S \subseteq Over
    /\ table' = Without(S)
    /\ UNCHANGED <<time, issued>>

\* S is swept and E displaced to make room.
Grant(k, i, S, E) ==
    /\ S \subseteq Over
    /\ E \subseteq DOMAIN table \ S
    /\ E # {} => /\ MayDisplace
                 /\ Cardinality(DOMAIN table \ (S \cup E)) = Capacity - 1
    /\ \A e \in E : \A r \in DOMAIN table \ (S \cup E) : table[e].until <= table[r].until
    /\ Cardinality(DOMAIN table \ (S \cup E)) < Capacity
    /\ k \notin DOMAIN table \ (S \cup E)
    /\ i \notin issued
    /\ \E lease \in Lease(i) :
          table' = [x \in (DOMAIN table \ (S \cup E)) \cup {k} |->
                       IF x = k THEN lease ELSE table[x]]
    /\ issued' = issued \cup {i}
    /\ UNCHANGED time

\* S is swept and the lease of k is renewed.
Renew(k, S) ==
    /\ S \subseteq Over
    /\ k \in DOMAIN table \ S
    /\ \E lease \in Lease(table[k].item) : table' = [Without(S) EXCEPT ![k] = lease]
    /\ UNCHANGED <<time, issued>>

Revoke(k, S) ==
    /\ S \subseteq Over
    /\ table' = Without(S \cup {k})
    /\ UNCHANGED <<time, issued>>

Next ==
    \/ Advance
    \/ \E S \in SUBSET DOMAIN table :
          \/ Sweep(S)
          \/ \E k \in Key : Renew(k, S) \/ Revoke(k, S)
          \/ \E k \in Key, i \in Item, E \in SUBSET DOMAIN table : Grant(k, i, S, E)

Spec == Init /\ [][Next]_<<time, table, issued>>
=============================================================================
