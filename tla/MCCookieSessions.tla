-------------------------- MODULE MCCookieSessions --------------------------
(* CookieSessions on small sets of calls and identifiers. *)
EXTENDS CookieSessions, TLC

\* Calls, and identifiers, are interchangeable.
Symmetry == Permutations(Call) \cup Permutations(SessionID)
=============================================================================
