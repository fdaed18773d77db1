------------------------------ MODULE Exchange ------------------------------
(***************************************************************************)
(* One HTTP exchange of Fetcher.Do (internal/fetch/fetch.go) under the     *)
(* network policy (internal/fetch/policy.go): the check of the URL, the    *)
(* choice of a route, and then, for the first request and every redirect,  *)
(* a connection and a response.                                            *)
(*                                                                         *)
(* Names are looked up twice, once when a URL is checked and once when it  *)
(* is dialled, and the answers may differ: the DNS is an actor of its own. *)
(* The HTTP client (tls-client) is external; what is used of it is that it *)
(* dials through policy.dialContext when there is no proxy, keeps a        *)
(* connection for the next request to the same host, and calls the         *)
(* redirect function before it follows a redirect.                         *)
(*                                                                         *)
(* Abstractions: an address is identified with what validateIP can tell of *)
(* it; a URL is its host and whether the rest of it is acceptable; a host  *)
(* is the sequence of its labels.                                          *)
(***************************************************************************)
EXTENDS Naturals, Sequences, FiniteSets, SequencesExt

CONSTANTS
    Host,           \* hosts, sequences of labels
    Address,        \* what a name may resolve to, a subset of Kind \X Nat
    AllowedHosts,   \* Config.AllowedHosts: patterns
    AllowPrivate,   \* Config.AllowPrivate
    AllowProxy,     \* Config.AllowProxy
    RedirectLimit,  \* the literal of the redirect function, 10 in the code
    ProxyHost       \* the hosts a caller may name in proxy_url

Kind == {"global", "private", "multicast", "other"}

\* A pattern is a name, or any name below a name ("*.name").
Pattern == [below : BOOLEAN, name : Seq(STRING)]

ASSUME ExchangeAssumption ==
    /\ Host \subseteq Seq(STRING) /\ ProxyHost \subseteq Host
    /\ \A a \in Address : a[1] \in Kind
    /\ \A p \in AllowedHosts : p \in Pattern
    /\ AllowPrivate \in BOOLEAN /\ AllowProxy \in BOOLEAN
    /\ RedirectLimit \in Nat \ {0}

\* proper: the scheme is http or https, there is a hostname and no user.
URL == [host : Host, proper : BOOLEAN]

VARIABLES
    dns,        \* dns[h]: the addresses the resolver has for h now
    phase,      \* how far the exchange is
    input,      \* the arguments of the call: url, follow_redirects, proxy_url
    target,     \* the URL of the request to be sent or answered
    via,        \* the URLs of the requests sent before it
    history,    \* the local variable redirectHistory
    idle,       \* connections the client keeps: pairs of a host and an address
    dialled     \* history: the addresses dialled directly

exchangeVars == <<dns, phase, input, target, via, history, idle, dialled>>

\* What a step leaves alone that only moves the exchange on.
others == <<dns, input, target, via, history, idle, dialled>>

Phase == {"called", "checked", "routed", "sent", "completed", "failed"}

Direct == <<>>     \* proxy_url is empty
-----------------------------------------------------------------------------
(***************************************************************************)
(* The policy.                                                             *)
(***************************************************************************)

validateIP(a) ==
    \/ a[1] = "global"
    \/ a[1] = "private" /\ AllowPrivate

Matches(host, pattern) ==
    IF pattern.below
    THEN pattern.name # <<>> /\ IsSuffix(pattern.name, host) /\ host # pattern.name
    ELSE host = pattern.name

hostAllowed(host) ==
    AllowedHosts = {} \/ \E pattern \in AllowedHosts : Matches(host, pattern)

\* A name that resolves to nothing is an error.
ResolvesSafely(host) ==
    dns[host] # {} /\ \A a \in dns[host] : validateIP(a)

\* Faulty variant: only the addresses are checked.
validateAddressesOnly(url) == url.proper /\ ResolvesSafely(url.host)

validateParsedURL(url) ==
    url.proper /\ hostAllowed(url.host) /\ ResolvesSafely(url.host)

\* Faulty variant: the addresses were checked with the URL.
DialTrustingly(host) == dns[host]

\* The addresses dialContext may end up connected to: it tries the addresses
\* of a second lookup in order, each after validateIP.
DialContext(host) == {a \in dns[host] : validateIP(a)}
-----------------------------------------------------------------------------
ExchangeInit ==
    /\ dns \in [Host -> SUBSET Address]
    /\ phase = "called"
    /\ input \in [url : URL, follow : BOOLEAN, proxy : ProxyHost \cup {Direct}]
    /\ target = input.url
    /\ via = <<>>
    /\ history = <<>>
    /\ idle = {}
    /\ dialled = {}

\* The name server changes its answer for a host.
Rebind(host) ==
    /\ \E answer \in SUBSET Address : dns' = [dns EXCEPT ![host] = answer]
    /\ UNCHANGED <<phase, input, target, via, history, idle, dialled>>

\* Any step of the call may end it with an error: an argument is rejected, a
\* lookup or a dial fails, the whole-request timeout fires.
Fail ==
    /\ phase \notin {"completed", "failed"}
    /\ phase' = "failed"
    /\ UNCHANGED others

CheckURL ==
    /\ phase = "called"
    /\ phase' = IF validateParsedURL(target) THEN "checked" ELSE "failed"
    /\ UNCHANGED others

\* A proxy must be permitted and its own name resolve to permitted addresses.
ChooseRoute ==
    /\ phase = "checked"
    /\ phase' = IF input.proxy = Direct \/ (AllowProxy /\ ResolvesSafely(input.proxy))
                THEN "routed" ELSE "failed"
    /\ UNCHANGED others

\* A connection is dialled for the request.
Dial ==
    /\ phase = "routed"
    /\ input.proxy = Direct
    /\ \E a \in DialContext(target.host) :
          /\ idle' = idle \cup {<<target.host, a>>}
          /\ dialled' = dialled \cup {a}
    /\ phase' = "sent"
    /\ UNCHANGED <<dns, input, target, via, history>>

\* A connection of an earlier request to the host is used again.
ReuseConnection ==
    /\ phase = "routed"
    /\ input.proxy = Direct
    /\ \E c \in idle : c[1] = target.host
    /\ phase' = "sent"
    /\ UNCHANGED others

\* The request goes through the proxy, which the client dials by itself.
SendToProxy ==
    /\ phase = "routed"
    /\ input.proxy # Direct
    /\ phase' = "sent"
    /\ UNCHANGED others

\* The response is not a redirect, or redirects are not followed.
Complete ==
    /\ phase = "sent"
    /\ phase' = "completed"
    /\ UNCHANGED others

\* Faulty variant: the limit lets one more request through.
mayFollowOneMore(requests) == Len(requests) <= RedirectLimit

mayFollow(requests) == Len(requests) < RedirectLimit

\* Faulty variant: the URL redirected from is recorded.
recordedSource(url) == target

\* What the redirect function adds to redirectHistory.
recorded(url) == url

\* Faulty variant: a redirect to the URL it came from is not counted.
RedirectUncounted(url) ==
    /\ phase = "sent" /\ input.follow /\ url = target
    /\ phase' = "routed"
    /\ UNCHANGED others

\* The response redirects to url: the redirect function refuses it or records
\* it, and the client goes on to the next request.
Redirect(url) ==
    /\ phase = "sent"
    /\ input.follow
    /\ via' = Append(via, target)
    /\ IF mayFollow(via') /\ validateParsedURL(url)
       THEN /\ phase' = "routed"
            /\ history' = Append(history, recorded(url))
            /\ target' = url
       ELSE /\ phase' = "failed"
            /\ UNCHANGED <<history, target>>
    /\ UNCHANGED <<dns, input, idle, dialled>>

CallStep ==
    \/ CheckURL \/ ChooseRoute
    \/ Dial \/ ReuseConnection \/ SendToProxy
    \/ Complete \/ \E url \in URL : Redirect(url)
    \/ Fail

ExchangeNext ==
    \/ CallStep
    \/ \E host \in Host : Rebind(host)

ExchangeSpec == ExchangeInit /\ [][ExchangeNext]_exchangeVars

\* The call does not stand still: a lookup, a dial and a wait for a response
\* end with a result or with an error, the timeout's if no other.
ExchangeFairSpec == ExchangeSpec /\ WF_exchangeVars(CallStep)
-----------------------------------------------------------------------------
(***************************************************************************)
(* Invariants.                                                             *)
(***************************************************************************)

\* Every variable has its type.
ExchangeTypeOK ==
    /\ dns \in [Host -> SUBSET Address]
    /\ phase \in Phase
    /\ input \in [url : URL, follow : BOOLEAN, proxy : ProxyHost \cup {Direct}]
    /\ target \in URL
    /\ via \in Seq(URL) /\ history \in Seq(URL)
    /\ idle \subseteq Host \X Address
    /\ dialled \subseteq Address

\* Whatever the name server answers between the check of a URL and its dial,
\* a direct exchange only ever connects to addresses the policy permits.
OnlyPermittedAddresses == \A a \in dialled : validateIP(a)

\* The requests sent so far, or about to be.
Requested == ToSet(via) \cup (IF phase \in {"routed", "sent", "completed"} THEN {target} ELSE {})

\* Every request, of the call or of a redirect, goes to an allowed host with an
\* acceptable URL, the requests that use a connection again included.
OnlyAllowedRequests == \A url \in Requested : url.proper /\ hostAllowed(url.host)

\* A call sends no more requests than the redirect function's limit.
RedirectBound ==
    /\ Len(via) <= RedirectLimit
    /\ phase \in {"routed", "sent", "completed"} => Len(via) < RedirectLimit

\* The redirect history that is returned, put after the URL asked for, is the
\* path the exchange took and ends in the final URL.
HistoryIsPath ==
    phase \in {"called", "checked", "routed", "sent", "completed"}
        => <<input.url>> \o history = Append(via, target)
-----------------------------------------------------------------------------
\* An exchange ends, however often servers redirect and in whatever circles.
ExchangeEnds == <>(phase \in {"completed", "failed"})

\* README.md, follow_redirects: "Follow up to ten policy-checked redirects".
\* When the redirect function stops for the number of redirects, that many
\* have been followed.
FollowsUpToLimit == Len(via) = RedirectLimit => Len(history) = RedirectLimit
=============================================================================
