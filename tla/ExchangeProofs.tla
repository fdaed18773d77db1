--------------------------- MODULE ExchangeProofs ---------------------------
(***************************************************************************)
(* Proofs about Exchange, for every DNS, policy and limit.                 *)
(***************************************************************************)
EXTENDS Exchange, TLAPS

\* The requests made or about to be made are acceptable, and the exchange has
\* room for them: what the parts of the inductive invariant rest on.
AskedProperly ==
    /\ \A i \in 1 .. Len(via) : via[i].proper /\ hostAllowed(via[i].host)
    /\ phase \in {"checked", "routed", "sent", "completed"}
           => target.proper /\ hostAllowed(target.host)

Unfollowed == phase \in {"called", "checked"} => via = <<>>

Inv ==
    /\ ExchangeTypeOK
    /\ OnlyPermittedAddresses
    /\ AskedProperly
    /\ Unfollowed
    /\ RedirectBound
    /\ HistoryIsPath

\* The starting state satisfies the invariant: nothing was sent.
LEMMA InitInv == ExchangeInit => Inv
<1> SUFFICES ASSUME ExchangeInit PROVE Inv
    OBVIOUS
<1>1. ExchangeTypeOK
    BY DEF ExchangeInit, ExchangeTypeOK, Phase
<1>2. OnlyPermittedAddresses /\ AskedProperly /\ Unfollowed /\ RedirectBound
    BY ExchangeAssumption DEF ExchangeInit, OnlyPermittedAddresses, AskedProperly, Unfollowed, RedirectBound
<1>3. HistoryIsPath
    BY <1>1 DEF ExchangeInit, HistoryIsPath, ExchangeTypeOK
<1> QED
    BY <1>1, <1>2, <1>3 DEF Inv

\* A step that changes the phase alone keeps the invariant if it leads where
\* no more is asked, or checks the URL.
LEMMA PhaseInv ==
    ASSUME Inv, Fail \/ CheckURL \/ ChooseRoute \/ ReuseConnection \/ SendToProxy \/ Complete
    PROVE  Inv'
<1>1. /\ phase' \in Phase
      /\ UNCHANGED <<dns, input, target, via, history, idle, dialled>>
    BY DEF Fail, CheckURL, ChooseRoute, ReuseConnection, SendToProxy, Complete, Phase, others
<1>2. \/ phase' = "failed"
      \/ phase = "called" /\ phase' = "checked" /\ validateParsedURL(target)
      \/ phase = "checked" /\ phase' = "routed"
      \/ phase = "routed" /\ phase' = "sent"
      \/ phase = "sent" /\ phase' = "completed"
    BY DEF Fail, CheckURL, ChooseRoute, ReuseConnection, SendToProxy, Complete
<1>3. ExchangeTypeOK' /\ OnlyPermittedAddresses'
    BY <1>1 DEF Inv, ExchangeTypeOK, OnlyPermittedAddresses
<1>4. AskedProperly' /\ Unfollowed'
    BY <1>1, <1>2 DEF Inv, AskedProperly, Unfollowed, validateParsedURL
<1>5. RedirectBound'
    BY <1>1, <1>2, ExchangeAssumption DEF Inv, ExchangeTypeOK, Unfollowed, RedirectBound
<1>6. HistoryIsPath'
    BY <1>1, <1>2 DEF Inv, HistoryIsPath
<1> QED
    BY <1>3, <1>4, <1>5, <1>6 DEF Inv

\* A dial keeps the invariant: each address is checked when it is dialled.
LEMMA DialInv ==
    ASSUME Inv, Dial
    PROVE  Inv'
<1>1. PICK a \in DialContext(target.host) :
          /\ idle' = idle \cup {<<target.host, a>>}
          /\ dialled' = dialled \cup {a}
    BY DEF Dial
<1>2. a \in Address /\ validateIP(a) /\ target.host \in Host
    BY DEF DialContext, Inv, ExchangeTypeOK, URL
<1>3. /\ phase = "routed" /\ phase' = "sent"
      /\ UNCHANGED <<dns, input, target, via, history>>
    BY DEF Dial
<1>4. ExchangeTypeOK' /\ OnlyPermittedAddresses'
    BY <1>1, <1>2, <1>3 DEF Inv, ExchangeTypeOK, Phase, OnlyPermittedAddresses
<1>5. AskedProperly' /\ Unfollowed' /\ RedirectBound' /\ HistoryIsPath'
    BY <1>3 DEF Inv, AskedProperly, Unfollowed, RedirectBound, HistoryIsPath
<1> QED
    BY <1>4, <1>5 DEF Inv

\* A redirect keeps the invariant, refused or followed.
LEMMA RedirectInv ==
    ASSUME NEW url \in URL, Inv, Redirect(url)
    PROVE  Inv'
<1>1. /\ phase = "sent"
      /\ via' = Append(via, target)
      /\ UNCHANGED <<dns, input, idle, dialled>>
    BY DEF Redirect
<1>2. /\ via \in Seq(URL) /\ target \in URL /\ history \in Seq(URL)
      /\ Len(via) < RedirectLimit /\ RedirectLimit \in Nat
      /\ <<input.url>> \o history = Append(via, target)
    BY <1>1, ExchangeAssumption DEF Inv, ExchangeTypeOK, RedirectBound, HistoryIsPath
<1>3. /\ via' \in Seq(URL) /\ Len(via') = Len(via) + 1 /\ Len(via') <= RedirectLimit
      /\ \A i \in 1 .. Len(via') : via'[i].proper /\ hostAllowed(via'[i].host)
    BY <1>1, <1>2 DEF Inv, AskedProperly
<1>4. CASE phase' = "failed" /\ UNCHANGED <<history, target>>
    BY <1>1, <1>2, <1>3, <1>4 DEF Inv, ExchangeTypeOK, Phase, OnlyPermittedAddresses, AskedProperly,
        Unfollowed, RedirectBound, HistoryIsPath
<1>5. CASE /\ Len(via') < RedirectLimit /\ validateParsedURL(url)
           /\ phase' = "routed" /\ history' = Append(history, url) /\ target' = url
  <2>1. ExchangeTypeOK' /\ OnlyPermittedAddresses'
      BY <1>1, <1>2, <1>3, <1>5 DEF Inv, ExchangeTypeOK, Phase, OnlyPermittedAddresses
  <2>2. AskedProperly' /\ Unfollowed' /\ RedirectBound'
      BY <1>1, <1>3, <1>5 DEF AskedProperly, Unfollowed, RedirectBound, validateParsedURL
  <2>3. <<input.url>> \o Append(history, url) = Append(<<input.url>> \o history, url)
      BY <1>2 DEF Inv, ExchangeTypeOK
  <2>4. HistoryIsPath'
      BY <1>1, <1>2, <1>5, <2>3 DEF HistoryIsPath
  <2> QED
      BY <2>1, <2>2, <2>4 DEF Inv
<1> QED
    BY <1>4, <1>5 DEF Redirect, mayFollow, recorded

\* The invariant holds in every reachable state.
THEOREM Invariance == ExchangeSpec => []Inv
<1>1. Inv /\ [ExchangeNext]_exchangeVars => Inv'
  <2> SUFFICES ASSUME Inv, [ExchangeNext]_exchangeVars PROVE Inv'
      OBVIOUS
  <2>1. CASE CallStep
      BY <2>1, PhaseInv, DialInv, RedirectInv DEF CallStep
  <2>2. ASSUME NEW host \in Host, Rebind(host)
        PROVE  Inv'
    <3>1. /\ dns' \in [Host -> SUBSET Address]
          /\ UNCHANGED <<phase, input, target, via, history, idle, dialled>>
        BY <2>2 DEF Rebind, Inv, ExchangeTypeOK
    <3> QED
        BY <3>1 DEF Inv, ExchangeTypeOK, OnlyPermittedAddresses, AskedProperly, Unfollowed,
            RedirectBound, HistoryIsPath
  <2>3. CASE UNCHANGED exchangeVars
      BY <2>3 DEF exchangeVars, Inv, ExchangeTypeOK, OnlyPermittedAddresses, AskedProperly, Unfollowed,
          RedirectBound, HistoryIsPath
  <2> QED
      BY <2>1, <2>2, <2>3 DEF ExchangeNext
<1> QED
    BY InitInv, <1>1, PTL DEF ExchangeSpec

\* The variables keep their types.
THEOREM TypeCorrect == ExchangeSpec => []ExchangeTypeOK
<1>1. Inv => ExchangeTypeOK
    BY DEF Inv
<1> QED
    BY Invariance, <1>1, PTL

\* Whatever the name server does, a direct exchange connects to permitted
\* addresses only (policy.go:141).
THEOREM PermittedAddresses == ExchangeSpec => []OnlyPermittedAddresses
<1>1. Inv => OnlyPermittedAddresses
    BY DEF Inv
<1> QED
    BY Invariance, <1>1, PTL

\* Every request goes to an allowed host, those of redirects included.
THEOREM AllowedRequests == ExchangeSpec => []OnlyAllowedRequests
<1>1. Inv => OnlyAllowedRequests
    BY DEF Inv, ExchangeTypeOK, AskedProperly, OnlyAllowedRequests, Requested, ToSet
<1> QED
    BY Invariance, <1>1, PTL

\* The number of requests is bounded, for every limit (fetch.go:184).
THEOREM BoundedRedirects == ExchangeSpec => []RedirectBound
<1>1. Inv => RedirectBound
    BY DEF Inv
<1> QED
    BY Invariance, <1>1, PTL

\* The redirect history is the path the exchange took (fetch.go:190, 246).
THEOREM FaithfulHistory == ExchangeSpec => []HistoryIsPath
<1>1. Inv => HistoryIsPath
    BY DEF Inv
<1> QED
    BY Invariance, <1>1, PTL

\* The requests that may still be sent, two steps for each, and the steps before
\* the first.
Rank ==
    CASE phase = "called"  -> 2 * RedirectLimit + 4
      [] phase = "checked" -> 2 * RedirectLimit + 3
      [] phase = "routed"  -> 2 * (RedirectLimit - Len(via)) + 2
      [] phase = "sent"    -> 2 * (RedirectLimit - Len(via)) + 1
      [] OTHER             -> 0

LEMMA RankFalls == Inv /\ Inv' /\ CallStep => Rank' \in Nat /\ Rank' < Rank
<1> SUFFICES ASSUME Inv, Inv', CallStep PROVE Rank' \in Nat /\ Rank' < Rank
    OBVIOUS
<1>1. RedirectLimit \in Nat /\ Len(via) \in Nat /\ Len(via') \in Nat
    BY ExchangeAssumption DEF Inv, ExchangeTypeOK
<1>2. Len(via) <= RedirectLimit /\ Len(via') <= RedirectLimit
    BY DEF Inv, RedirectBound
<1> DEFINE l == RedirectLimit
           v == Len(via)
           w == Len(via')
<1>3. /\ 2 * (l - v) + 2 \in Nat /\ 2 * (l - v) + 1 \in Nat /\ 2 * l + 3 \in Nat
      /\ 2 * (l - v) + 2 < 2 * l + 3
  <2> HIDE DEF l, v
  <2> QED
      BY <1>1, <1>2 DEF l, v
<1>4. CASE phase' = "failed"
  <2>1. Rank' = 0 /\ phase \in {"called", "checked", "routed", "sent"}
      BY <1>4 DEF CallStep, CheckURL, ChooseRoute, Dial, ReuseConnection, SendToProxy, Complete,
          Redirect, Fail, Rank, Inv, ExchangeTypeOK, Phase
  <2>2. Rank > 0
      BY <1>1, <1>3, <2>1 DEF Rank
  <2> QED
      BY <2>1, <2>2
<1>5. CASE CheckURL /\ phase' = "checked"
    BY <1>1, <1>5 DEF CheckURL, Rank
<1>6. CASE ChooseRoute /\ phase' = "routed"
    BY <1>1, <1>3, <1>6 DEF ChooseRoute, others, Rank
<1>7. CASE Dial \/ ReuseConnection \/ SendToProxy
    BY <1>1, <1>3, <1>7 DEF Dial, ReuseConnection, SendToProxy, others, Rank
<1>8. CASE Complete
    BY <1>1, <1>3, <1>8 DEF Complete, Rank
<1>9. ASSUME NEW url \in URL, Redirect(url), phase' = "routed"
      PROVE  Rank' \in Nat /\ Rank' < Rank
  <2>1. Len(via') = Len(via) + 1 /\ phase = "sent"
      BY <1>9 DEF Redirect, Inv, ExchangeTypeOK
  <2>2. Rank = 2 * (l - v) + 1 /\ Rank' = 2 * (l - w) + 2
      BY <1>9, <2>1 DEF Rank
  <2> HIDE DEF l, v, w
  <2> QED
      BY <1>1, <1>2, <2>1, <2>2 DEF l, v, w
<1> QED
    BY <1>4, <1>5, <1>6, <1>7, <1>8, <1>9 DEF CallStep, CheckURL, ChooseRoute, Fail, Redirect

\* Servers that redirect in circles and a name server that changes its answers
\* cannot keep a call going: each of its own steps takes it nearer to its end,
\* and what the name server does takes it no further from it.
THEOREM Progress ==
    ExchangeSpec => [][/\ CallStep => Rank' \in Nat /\ Rank' < Rank
               /\ \A host \in Host : Rebind(host) => Rank' = Rank]_exchangeVars
<1>1. \A host \in Host : Rebind(host) => Rank' = Rank
    BY DEF Rebind, Rank
<1>2. Inv /\ Inv' => (CallStep => Rank' \in Nat /\ Rank' < Rank)
    BY RankFalls
<1> QED
    BY <1>1, <1>2, Invariance, PTL DEF ExchangeSpec
=============================================================================
