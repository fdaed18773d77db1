----------------------------- MODULE EdgesProofs -----------------------------
(***************************************************************************)
(* Theorems about the edges of a call: the header of the request           *)
(* (RequestHeaders), the tools and the configuration (ToolCalls), and the  *)
(* header of the response (ResponseHeaders).                               *)
(***************************************************************************)
EXTENDS Edges, SequenceTheorems, TLAPS
-----------------------------------------------------------------------------
(***************************************************************************)
(* RequestHeaders.  Half way through the map the header is the one of the  *)
(* names passed so far.                                                    *)
(***************************************************************************)

\* The names the loop has passed.
Passed == DOMAIN supplied \ left

\* What was supplied for key k by the names in N.
Given(N, k) == {supplied[name] : name \in {n \in N : key(n) = k}}

DefaultKeys == {defaultKey(field) : field \in Default}

\* The header holds the passed names and the defaults.
Merged ==
    /\ DOMAIN header = {key(name) : name \in Passed} \cup DefaultKeys
    /\ \A k \in DOMAIN header :
          IF Given(Passed, k) = {} THEN header[k] = Browser ELSE header[k] \in Given(Passed, k)

\* The inductive invariant: half way through the map, the header is the one of
\* the names passed so far, none of which is bad.
RequestInv ==
    /\ DOMAIN supplied \subseteq Name
    /\ left \subseteq DOMAIN supplied
    /\ pc \in {"defaults", "supplied", "set", "rejected"}
    /\ pc = "defaults" => left = DOMAIN supplied /\ DOMAIN header = {}
    /\ pc \in {"supplied", "set"} => Merged
    /\ \A name \in Passed : ~ bad(name)
    /\ pc = "set" => left = {}
    /\ pc = "rejected" => \E name \in DOMAIN supplied : bad(name)
    /\ NoForbiddenHeader
-----------------------------------------------------------------------------
\* The key of a name that is not bad is fit for a header.
LEMMA GoodKey ==
    ASSUME NEW name \in Name, ~ bad(name)
    PROVE  key(name).field \notin Forbidden \cup {Blank} /\ key(name).spelling # "broken"
BY DEF bad, forbidden, key, Name, Spelling

LEMMA RequestInit == Init => RequestInv
<1> SUFFICES ASSUME Init PROVE RequestInv
    OBVIOUS
<1>1. PICK n \in 0 .. MaxSupplied : \E names \in kSubset(n, Name) : supplied \in [names -> Value]
    BY DEF Init
<1>2. DOMAIN supplied \subseteq Name
    BY <1>1 DEF kSubset
<1> QED
    BY <1>2 DEF Init, RequestInv, Passed, NoForbiddenHeader

LEMMA DefaultsStep == RequestInv /\ SetDefaults => RequestInv'
<1> SUFFICES ASSUME RequestInv, SetDefaults PROVE RequestInv'
    OBVIOUS
<1>1. Passed = {} /\ Passed' = {} /\ supplied' = supplied
    BY DEF RequestInv, SetDefaults, Passed
<1>2. header' = [k \in DefaultKeys |-> Browser]
    BY DEF SetDefaults, DefaultKeys
<1>3. Merged'
    BY <1>1, <1>2 DEF Merged, Given, DefaultKeys
<1>4. NoForbiddenHeader'
    BY <1>2, HeaderAssumption DEF NoForbiddenHeader, DefaultKeys, defaultKey
<1> QED
    BY <1>1, <1>3, <1>4 DEF RequestInv, SetDefaults

LEMMA SuppliedStep == ASSUME NEW name \in left PROVE RequestInv /\ SetSupplied(name) => RequestInv'
<1> SUFFICES ASSUME RequestInv, SetSupplied(name) PROVE RequestInv'
    OBVIOUS
<1> DEFINE k0 == key(name)
<1>1. /\ name \in DOMAIN supplied /\ name \in Name /\ name \notin Passed
      /\ Passed' = Passed \cup {name} /\ supplied' = supplied
      /\ header' = [h \in DOMAIN header \cup {k0} |-> IF h = k0 THEN supplied[name] ELSE header[h]]
      /\ pc = "supplied" /\ pc' = "supplied" /\ left' = left \ {name} /\ ~ bad(name)
    BY DEF RequestInv, SetSupplied, Passed, set
<1>2. \A n \in Name : bad(n)' <=> bad(n)
    BY <1>1 DEF bad, forbidden
<1>3. DOMAIN header' = {key(n) : n \in Passed'} \cup DefaultKeys
    BY <1>1 DEF RequestInv, Merged
<1>4. \A k : Given(Passed, k)' = IF k = k0 THEN Given(Passed, k) \cup {supplied[name]} ELSE Given(Passed, k)
    BY <1>1 DEF Given
<1>5. Merged'
  <2> SUFFICES ASSUME NEW k \in DOMAIN header'
               PROVE  IF Given(Passed, k)' = {} THEN header'[k] = Browser
                                               ELSE header'[k] \in Given(Passed, k)'
      BY <1>3 DEF Merged, DefaultKeys
  <2>1. CASE k = k0
      BY <1>1, <1>4, <2>1
  <2>2. CASE k # k0
      BY <1>1, <1>4, <2>2 DEF RequestInv, Merged
  <2> QED
      BY <2>1, <2>2
<1>6. NoForbiddenHeader'
    BY <1>1, GoodKey DEF RequestInv, NoForbiddenHeader
<1>7. \A n \in Passed' : ~ bad(n)'
    BY <1>1, <1>2 DEF RequestInv, Passed
<1>8. /\ (DOMAIN supplied \subseteq Name)'
      /\ (left \subseteq DOMAIN supplied)'
    BY <1>1 DEF RequestInv
<1> QED
    BY <1>1, <1>5, <1>6, <1>7, <1>8 DEF RequestInv

LEMMA RequestStep == RequestInv /\ [Next]_vars => RequestInv'
<1> SUFFICES ASSUME RequestInv, [Next]_vars PROVE RequestInv'
    OBVIOUS
<1>1. CASE SetDefaults
    BY <1>1, DefaultsStep
<1>2. CASE \E name \in left : Reject(name)
    BY <1>2 DEF RequestInv, Reject, Merged, Passed, Given, bad, forbidden, NoForbiddenHeader
<1>3. CASE \E name \in left : SetSupplied(name)
    BY <1>3, SuppliedStep
<1>4. CASE SetOrder
    BY <1>4 DEF RequestInv, SetOrder, passedAll, Merged, Passed, Given, bad, forbidden, NoForbiddenHeader
<1>5. CASE UNCHANGED vars
    BY <1>5 DEF RequestInv, vars, Merged, Passed, Given, bad, forbidden, NoForbiddenHeader
<1> QED
    BY <1>1, <1>2, <1>3, <1>4, <1>5 DEF Next
-----------------------------------------------------------------------------
(***************************************************************************)
(* ToolCalls.  The configuration in use is consistent, and every request   *)
(* is one the call may start with, but for the method of a redirect.       *)
(***************************************************************************)

ConfigOK ==
    /\ config \in [Tools!Limit -> 1 .. MaxInt]
    /\ config["DefaultTimeout"] <= config["MaxTimeout"]

\* A request, and what is known of its method.
Granted(request) ==
    /\ request.timeout \in Tools!timeout /\ request.limit \in Tools!responseLimit
    /\ Tools!chosenMethod \in Tools!ReadOnly => request.method \in Tools!ReadOnly

Request == [method : Tools!allowedMethods, timeout : Int, limit : Int]

ToolInv ==
    /\ ConfigOK
    /\ serving \in {"called", "refused", "sent"} => args \in Tools!Args
    /\ serving # "sent" => sent = {}
    /\ serving = "sent" => /\ Tools!toolAccepts(args.tool, args.method)
                           /\ \E request \in sent : request.method = Tools!chosenMethod
    /\ \A request \in sent : request \in Request /\ Granted(request)

LEMMA SameCall ==
    ASSUME UNCHANGED <<config, args>>
    PROVE  /\ ConfigOK' = ConfigOK
           /\ Tools!timeout' = Tools!timeout /\ Tools!responseLimit' = Tools!responseLimit
           /\ Tools!chosenMethod' = Tools!chosenMethod
           /\ \A r : Granted(r)' = Granted(r)
BY DEF ConfigOK, Tools!timeout, Tools!responseLimit, Tools!chosenMethod, Granted

LEMMA ToolStep == Tools!ToolAssumption /\ ToolInv /\ [Tools!Next]_(Tools!vars) => ToolInv'
<1> SUFFICES ASSUME Tools!ToolAssumption, ToolInv, [Tools!Next]_(Tools!vars) PROVE ToolInv'
    OBVIOUS
<1>1. CASE Tools!Stop \/ Tools!Refuse \/ UNCHANGED Tools!vars
  <2>1. UNCHANGED <<config, args, sent>>
      BY <1>1 DEF Tools!Stop, Tools!Refuse, Tools!vars
  <2>2. \/ serving' = serving
        \/ serving = "starting" /\ serving' = "stopped"
        \/ serving = "called" /\ serving' = "refused"
      BY <1>1 DEF Tools!Stop, Tools!Refuse, Tools!vars
  <2> QED
      BY <2>1, <2>2, SameCall DEF ToolInv
<1>2. CASE Tools!Start
  <2>1. /\ serving = "starting" /\ serving' = "serving" /\ sent' = sent
        /\ config' = Tools!withDefaults(Tools!configured)
        /\ Tools!understood /\ Tools!consistent(Tools!configured)
      BY <1>2 DEF Tools!Start
  <2>2. Tools!configured \in [Tools!Limit -> 1 .. MaxInt]
    <3>1. \A l \in Tools!Limit : l \notin Tools!Switch
        BY DEF Tools!Limit, Tools!Switch
    <3>2. \A l \in Tools!Limit : l \in DOMAIN env => env[l] \in 1 .. MaxInt
        BY <2>1, <3>1 DEF Tools!understood, Tools!positive
    <3> QED
        BY <3>2 DEF Tools!configured, Tools!ToolAssumption
  <2>3. \A l \in Tools!Limit : Tools!withDefaults(Tools!configured)[l] = Tools!configured[l]
      BY <2>2 DEF Tools!withDefaults, Tools!ToolAssumption
  <2>4. Tools!withDefaults(Tools!configured) \in [Tools!Limit -> 1 .. MaxInt]
      BY <2>2, <2>3 DEF Tools!withDefaults
  <2>5. ConfigOK'
      BY <2>1, <2>3, <2>4 DEF ConfigOK, Tools!consistent, Tools!Limit
  <2> QED
      BY <2>1, <2>5 DEF ToolInv
<1>3. CASE Tools!Call
    BY <1>3 DEF Tools!Call, ToolInv, ConfigOK
<1>4. CASE Tools!Send
  <2>1. PICK request \in Tools!accepted : sent' = {request}
      BY <1>4 DEF Tools!Send
  <2>2. UNCHANGED <<config, args>> /\ serving' = "sent" /\ args \in Tools!Args
      BY <1>4 DEF Tools!Send, ToolInv
  <2>3. Tools!timeout \subseteq Int /\ Tools!responseLimit \subseteq Int
    <3>1. args.timeout \in Int /\ args.maxBytes \in Int
        BY <2>2 DEF Tools!Args, Tools!ToolAssumption
    <3>2. config["DefaultTimeout"] \in Int /\ config["MaxResponseBytes"] \in Int
        BY DEF ToolInv, ConfigOK, Tools!Limit, Tools!ToolAssumption
    <3> QED
        BY <3>1, <3>2 DEF Tools!timeout, Tools!responseLimit, Tools!granted
  <2>4. /\ request \in Request /\ Granted(request) /\ request.method = Tools!chosenMethod
        /\ Tools!toolAccepts(args.tool, args.method)
      BY <2>1, <2>3 DEF Tools!accepted, Request, Granted
  <2> QED
      BY <2>1, <2>2, <2>4, SameCall DEF ToolInv
<1>5. CASE Tools!FollowRedirect
  <2>1. PICK request \in sent : \E method \in Tools!redirected(request.method) :
            sent' = sent \cup {[request EXCEPT !.method = method]}
      BY <1>5 DEF Tools!FollowRedirect
  <2>2. PICK method \in Tools!redirected(request.method) :
            sent' = sent \cup {[request EXCEPT !.method = method]}
      BY <2>1
  <2>3. UNCHANGED <<config, args, serving>> /\ serving = "sent"
      BY <1>5 DEF Tools!FollowRedirect
  <2>4. request \in Request /\ Granted(request)
      BY DEF ToolInv
  <2>5. /\ method \in Tools!allowedMethods
        /\ (request.method \in Tools!ReadOnly => method \in Tools!ReadOnly)
      BY <2>4 DEF Tools!redirected, Tools!allowedMethods, Tools!ReadOnly, Request
  <2>6. [request EXCEPT !.method = method] \in Request
        /\ Granted([request EXCEPT !.method = method])
      BY <2>4, <2>5 DEF Request, Granted
  <2> QED
      BY <2>2, <2>3, <2>6, SameCall DEF ToolInv
<1> QED
    BY <1>1, <1>2, <1>3, <1>4, <1>5 DEF Tools!Next
-----------------------------------------------------------------------------
(***************************************************************************)
(* ResponseHeaders.  The names before the i-th are in order but for the    *)
(* j-th, which comes before all those between them.                        *)
(***************************************************************************)

Names == Response!Name

Distinct == \A k, l \in 1 .. Len(redacted) : redacted[k] = redacted[l] => k = l

InOrder ==
    /\ \A k, l \in 1 .. Len(redacted) :
          k < l /\ l <= i /\ k # j /\ l # j => redacted[k].place <= redacted[l].place
    /\ \A l \in 1 .. Len(redacted) :
          j < l /\ l <= i => redacted[j].place < redacted[l].place

HeadersInv ==
    /\ headers \subseteq Names /\ unread \subseteq headers
    /\ redacted \in Seq(Names)
    /\ unread \cup safe \cup Response!Redacted = headers
    /\ unread \cap (safe \cup Response!Redacted) = {}
    /\ \A name \in safe : name.place \notin Sensitive
    /\ \A name \in Response!Redacted : name.place \in Sensitive
    /\ Distinct
    /\ i \in Nat /\ j \in Nat /\ 1 <= j /\ j <= i /\ 2 <= i
    /\ sorting = "split" => i = 2 /\ j = 2
    /\ sorting # "split" => InOrder /\ (i > Len(redacted) => j = i)
    /\ sorting = "done" => i > Len(redacted)

LEMMA HeadersInit ==
    ASSUME Response!PlaceAssumption, Response!Init
    PROVE  HeadersInv
BY DEF Response!Init, HeadersInv, Response!Redacted, Distinct, Names

LEMMA SplitStep ==
    ASSUME HeadersInv, NEW name \in unread, Response!Split(name)
    PROVE  HeadersInv'
<1>1. /\ name \in unread /\ unread' = unread \ {name} /\ UNCHANGED <<headers, i, j, sorting>>
      /\ sorting = "split" /\ name \in Names
    BY DEF Response!Split, HeadersInv
<1>2. CASE Response!sensitive(name)
  <2>1. redacted' = Append(redacted, name) /\ safe' = safe /\ redacted \in Seq(Names)
      BY <1>2 DEF Response!Split, HeadersInv
  <2>2. /\ redacted' \in Seq(Names) /\ Len(redacted) \in Nat /\ Len(redacted') = Len(redacted) + 1
        /\ \A k \in 1 .. Len(redacted) : redacted'[k] = redacted[k]
        /\ redacted'[Len(redacted) + 1] = name
      BY <1>1, <2>1, AppendProperties, LenProperties
  <2>3. Response!Redacted' = Response!Redacted \cup {name}
      BY <2>2 DEF Response!Redacted
  <2>4. Distinct'
    <3>1. \A k \in 1 .. Len(redacted) : redacted[k] # name
        BY <1>1 DEF HeadersInv, Response!Redacted
    <3> QED
        BY <2>2, <3>1 DEF HeadersInv, Distinct
  <2> QED
      BY <1>1, <1>2, <2>1, <2>2, <2>3, <2>4 DEF HeadersInv, Response!sensitive
<1>3. CASE ~ Response!sensitive(name)
  <2>1. redacted' = redacted /\ safe' = safe \cup {name}
      BY <1>3 DEF Response!Split
  <2>2. Response!Redacted' = Response!Redacted /\ (Distinct' <=> Distinct)
      BY <2>1 DEF Response!Redacted, Distinct
  <2> QED
      BY <1>1, <1>3, <2>1, <2>2 DEF HeadersInv, Response!sensitive
<1> QED
    BY <1>2, <1>3

LEMMA SwapStep ==
    ASSUME Response!PlaceAssumption, HeadersInv, Response!Swap
    PROVE  HeadersInv'
<1> DEFINE n == Len(redacted)
<1>1. /\ UNCHANGED <<headers, unread, safe, i, sorting>> /\ sorting = "sort" /\ i <= n
      /\ j > 1 /\ redacted[j].place < redacted[j - 1].place /\ j' = j - 1
      /\ redacted' = [redacted EXCEPT ![j] = redacted[j - 1], ![j - 1] = redacted[j]]
    BY DEF Response!Swap, Response!moves, Response!before, Response!swapped
<1>2. /\ redacted \in Seq(Names) /\ n \in Nat /\ i \in Nat /\ j \in Nat /\ j <= i /\ 2 <= i
      /\ DOMAIN redacted = 1 .. n /\ \A k \in 1 .. n : redacted[k] \in Names
    BY LenProperties DEF HeadersInv
<1>3. j \in 1 .. n /\ j - 1 \in 1 .. n /\ j - 1 # j
    BY <1>1, <1>2
<1>4. /\ redacted' \in Seq(Names) /\ Len(redacted') = n
      /\ redacted'[j] = redacted[j - 1] /\ redacted'[j - 1] = redacted[j]
      /\ \A k \in 1 .. n : k # j /\ k # j - 1 => redacted'[k] = redacted[k]
    BY <1>1, <1>2, <1>3
<1>5. \A k \in 1 .. n : redacted[k].place \in Nat
    BY <1>2 DEF Names, Response!Name, Response!PlaceAssumption
<1> HIDE DEF n
<1>6. Response!Redacted' = Response!Redacted
  <2>1. Response!Redacted = {redacted[k] : k \in 1 .. n} /\ Response!Redacted' = {redacted'[k] : k \in 1 .. n}
      BY <1>4 DEF Response!Redacted, n
  <2>2. \A k \in 1 .. n : \E l \in 1 .. n : redacted'[k] = redacted[l]
      BY <1>3, <1>4
  <2>3. \A k \in 1 .. n : \E l \in 1 .. n : redacted[k] = redacted'[l]
      BY <1>3, <1>4
  <2> QED
      BY <2>1, <2>2, <2>3
<1>7. Distinct'
  <2>1. \A k, l \in 1 .. n : redacted[k] = redacted[l] => k = l
      BY DEF HeadersInv, Distinct, n
  <2> QED
      BY <1>3, <1>4, <2>1 DEF Distinct
<1>8. /\ \A k, l \in 1 .. n :
            k < l /\ l <= i /\ k # j /\ l # j => redacted[k].place <= redacted[l].place
      /\ \A l \in 1 .. n : j < l /\ l <= i => redacted[j].place < redacted[l].place
    BY <1>1 DEF HeadersInv, InOrder, n
<1>9. InOrder'
  <2>1. ASSUME NEW k \in 1 .. n, NEW l \in 1 .. n, k < l, l <= i, k # j - 1, l # j - 1
        PROVE  redacted'[k].place <= redacted'[l].place
    <3>1. CASE l = j
        BY <1>1, <1>2, <1>3, <1>4, <1>5, <1>8, <2>1, <3>1
    <3>2. CASE k = j
        BY <1>1, <1>2, <1>3, <1>4, <1>5, <1>8, <2>1, <3>2
    <3>3. CASE k # j /\ l # j
        BY <1>4, <1>8, <2>1, <3>3
    <3> QED
        BY <3>1, <3>2, <3>3
  <2>2. ASSUME NEW l \in 1 .. n, j - 1 < l, l <= i
        PROVE  redacted'[j - 1].place < redacted'[l].place
    <3>1. CASE l = j
        BY <1>1, <1>4, <3>1
    <3>2. CASE l # j
        BY <1>2, <1>3, <1>4, <1>8, <2>2, <3>2
    <3> QED
        BY <3>1, <3>2
  <2> QED
      BY <1>1, <1>4, <2>1, <2>2 DEF InOrder
<1>10. j' \in Nat /\ 1 <= j' /\ j' <= i /\ ~ (i > Len(redacted'))
    BY <1>1, <1>2, <1>4 DEF n
<1> QED
    BY <1>1, <1>2, <1>4, <1>6, <1>7, <1>9, <1>10 DEF HeadersInv

LEMMA NextNameStep ==
    ASSUME Response!PlaceAssumption, HeadersInv, Response!NextName
    PROVE  HeadersInv'
<1> DEFINE n == Len(redacted)
<1>1. /\ UNCHANGED <<headers, unread, safe, redacted, sorting>> /\ sorting = "sort" /\ i <= n
      /\ i' = i + 1 /\ j' = i + 1
      /\ ~ (j > 1 /\ redacted[j].place < redacted[j - 1].place)
    BY DEF Response!NextName, Response!moves, Response!before
<1>2. /\ n \in Nat /\ i \in Nat /\ j \in Nat /\ 1 <= j /\ j <= i /\ 2 <= i
      /\ \A k \in 1 .. n : redacted[k].place \in Nat
  <2>1. redacted \in Seq(Names) /\ n \in Nat /\ \A k \in 1 .. n : redacted[k] \in Names
      BY LenProperties DEF HeadersInv
  <2>2. \A k \in 1 .. n : redacted[k].place \in Nat
      BY <2>1 DEF Names, Response!Name, Response!PlaceAssumption
  <2> QED
      BY <2>1, <2>2 DEF HeadersInv
<1>3. /\ \A k, l \in 1 .. n :
            k < l /\ l <= i /\ k # j /\ l # j => redacted[k].place <= redacted[l].place
      /\ \A l \in 1 .. n : j < l /\ l <= i => redacted[j].place < redacted[l].place
    BY <1>1 DEF HeadersInv, InOrder
<1> HIDE DEF n
<1>4. j > 1 => redacted[j - 1].place <= redacted[j].place
    BY <1>1, <1>2
<1>5. ASSUME NEW k \in 1 .. n, NEW l \in 1 .. n, k < l, l <= i
      PROVE  redacted[k].place <= redacted[l].place
  <2>1. CASE l = j
    <3>1. k = j - 1 \/ (k < j - 1 /\ j - 1 \in 1 .. n)
        BY <1>1, <1>2, <1>5, <2>1
    <3>2. k < j - 1 => redacted[k].place <= redacted[j - 1].place
        BY <1>2, <1>3, <1>5, <2>1, <3>1
    <3> QED
        BY <1>2, <1>4, <1>5, <2>1, <3>1, <3>2
  <2>2. CASE k = j
      BY <1>2, <1>3, <1>5, <2>2
  <2>3. CASE k # j /\ l # j
      BY <1>3, <1>5, <2>3
  <2> QED
      BY <2>1, <2>2, <2>3
<1>6. InOrder'
    BY <1>1, <1>2, <1>5 DEF InOrder, n
<1>7. Response!Redacted' = Response!Redacted /\ (Distinct' <=> Distinct)
    BY <1>1 DEF Response!Redacted, Distinct
<1> QED
    BY <1>1, <1>2, <1>6, <1>7 DEF HeadersInv

LEMMA StartSortStep ==
    ASSUME HeadersInv, Response!StartSort
    PROVE  HeadersInv'
<1>1. /\ UNCHANGED <<headers, unread, safe, redacted, i, j>> /\ i = 2 /\ j = 2 /\ sorting' = "sort"
    BY DEF Response!StartSort, HeadersInv
<1>2. Len(redacted) \in Nat
    BY LenProperties DEF HeadersInv
<1>3. InOrder'
    BY <1>1, <1>2 DEF InOrder
<1>4. Response!Redacted' = Response!Redacted /\ (Distinct' <=> Distinct)
    BY <1>1 DEF Response!Redacted, Distinct
<1> QED
    BY <1>1, <1>3, <1>4 DEF HeadersInv

LEMMA HeadersStep ==
    ASSUME Response!PlaceAssumption, HeadersInv, [Response!Next]_(Response!vars)
    PROVE  HeadersInv'
<1>1. CASE Response!Finish \/ UNCHANGED Response!vars
  <2>1. /\ UNCHANGED <<headers, unread, safe, redacted, i, j>>
        /\ \/ sorting' = sorting
           \/ sorting = "sort" /\ sorting' = "done" /\ i > Len(redacted)
      BY <1>1 DEF Response!Finish, Response!vars
  <2>2. /\ Response!Redacted' = Response!Redacted /\ (Distinct' <=> Distinct)
        /\ (InOrder' <=> InOrder)
      BY <2>1 DEF Response!Redacted, Distinct, InOrder
  <2> QED
      BY <2>1, <2>2 DEF HeadersInv
<1> QED
    BY <1>1, SplitStep, StartSortStep, SwapStep, NextNameStep DEF Response!Next
-----------------------------------------------------------------------------
(***************************************************************************)
(* All together.                                                           *)
(***************************************************************************)

\* The invariants hold whichever part runs.
THEOREM EdgesInvariance == EdgesSpec => [](RequestInv /\ ToolInv /\ HeadersInv)
<1>1. EdgesInit => RequestInv /\ ToolInv /\ HeadersInv
  <2>1. Tools!Init => ToolInv
      BY EdgeAssumption DEF Tools!Init, ToolInv, ConfigOK, Tools!ToolAssumption
  <2>2. ToolsRest => ToolInv
      BY EdgeAssumption DEF ToolsRest, ToolInv, ConfigOK, Tools!ToolAssumption
  <2>3. Response!Init => HeadersInv
      BY EdgeAssumption, HeadersInit
  <2>4. ResponseRests => HeadersInv
      BY DEF ResponseRests, HeadersInv, Response!Redacted, Distinct, InOrder, Names
  <2>5. RequestRests => RequestInv
    <3> SUFFICES ASSUME RequestRests PROVE RequestInv
        OBVIOUS
    <3>1. DOMAIN supplied = {} /\ Passed = {} /\ header = [k \in DefaultKeys |-> Browser]
        BY DEF RequestRests, Passed, DefaultKeys
    <3>2. Merged
        BY <3>1 DEF Merged, Given
    <3>3. NoForbiddenHeader
        BY <3>1, HeaderAssumption DEF NoForbiddenHeader, DefaultKeys, defaultKey
    <3> QED
        BY <3>1, <3>2, <3>3 DEF RequestRests, RequestInv
  <2> QED
      BY <2>1, <2>2, <2>3, <2>4, <2>5, RequestInit DEF EdgesInit
<1>2. RequestInv /\ ToolInv /\ HeadersInv /\ [EdgesNext]_<<vars, responseVars, toolVars>>
        => RequestInv' /\ ToolInv' /\ HeadersInv'
  <2> SUFFICES ASSUME RequestInv, ToolInv, HeadersInv,
                      [EdgesNext]_<<vars, responseVars, toolVars>>
               PROVE  RequestInv' /\ ToolInv' /\ HeadersInv'
      OBVIOUS
  <2>1. [Next]_vars /\ [Tools!Next]_(Tools!vars) /\ [Response!Next]_(Response!vars)
      BY DEF EdgesNext, vars, responseVars, toolVars, Tools!vars, Response!vars
  <2> QED
      BY <2>1, EdgeAssumption, RequestStep, ToolStep, HeadersStep
<1> QED
    BY <1>1, <1>2, PTL DEF EdgesSpec

\* The header of the request on its own keeps its invariant too.
LEMMA RequestInvariance == Spec => []RequestInv
BY RequestInit, RequestStep, PTL DEF Spec

\* A request is refused iff one of its headers is bad, whatever the order in
\* which setHeaders comes to them.
THEOREM Refused == (Spec \/ EdgesSpec) => []RefusedForItsHeaders
<1>1. RequestInv => RefusedForItsHeaders
    BY DEF RequestInv, RefusedForItsHeaders, Passed
<1> QED
    BY <1>1, RequestInvariance, EdgesInvariance, PTL

\* No spelling of a forbidden name reaches the header of a request.
THEOREM NoForbidden == (Spec \/ EdgesSpec) => []NoForbiddenHeader
<1>1. RequestInv => NoForbiddenHeader
    BY DEF RequestInv
<1> QED
    BY <1>1, RequestInvariance, EdgesInvariance, PTL

\* Every key has a value that was supplied for it, or the default.
THEOREM Overridden == (Spec \/ EdgesSpec) => []SuppliedOverDefault
<1>1. ASSUME RequestInv, pc = "set" PROVE SuppliedOverDefault
  <2>1. Passed = DOMAIN supplied /\ Merged
      BY <1>1 DEF RequestInv, Passed
  <2> QED
      BY <2>1 DEF SuppliedOverDefault, Merged, Given, DefaultKeys
<1>2. RequestInv => SuppliedOverDefault
    BY <1>1 DEF SuppliedOverDefault
<1> QED
    BY <1>2, RequestInvariance, EdgesInvariance, PTL

\* For every environment, every default and every argument, a request is sent
\* within the limits of the server, and a stricter one asked for is kept.
THEOREM LimitsKept == EdgesSpec => []WithinServerLimits
<1>1. ToolInv => WithinServerLimits
  <2> SUFFICES ASSUME ToolInv, NEW request \in sent
               PROVE  /\ request.timeout \in 1 .. config["MaxTimeout"]
                      /\ request.limit \in 1 .. config["MaxResponseBytes"]
                      /\ args.timeout # 0 => request.timeout = args.timeout
                      /\ args.maxBytes # 0 => request.limit = args.maxBytes
      BY DEF WithinServerLimits, Tools!WithinServerLimits
  <2>1. request.timeout \in Tools!timeout /\ request.limit \in Tools!responseLimit
      BY DEF ToolInv, Granted
  <2>2. args.timeout \in Int /\ args.maxBytes \in Int
      BY EdgeAssumption DEF ToolInv, Tools!Args, Tools!ToolAssumption
  <2>3. /\ config["DefaultTimeout"] \in 1 .. MaxInt /\ config["MaxTimeout"] \in 1 .. MaxInt
        /\ config["MaxResponseBytes"] \in 1 .. MaxInt
        /\ config["DefaultTimeout"] <= config["MaxTimeout"] /\ MaxInt \in Nat
      BY EdgeAssumption DEF ToolInv, ConfigOK, Tools!Limit, Tools!ToolAssumption
  <2> QED
      BY <2>1, <2>2, <2>3 DEF Tools!timeout, Tools!responseLimit, Tools!granted
<1> QED
    BY <1>1, EdgesInvariance, PTL

\* No environment, argument or redirect makes a tool announced as read-only,
\* or a warmup, send a method that changes anything.
THEOREM IntentKept == EdgesSpec => []ToolIntent
<1>1. ToolInv => ToolIntent
  <2> SUFFICES ASSUME ToolInv, sent # {} PROVE ToolIntent
      BY DEF ToolIntent, Tools!ToolIntent
  <2>1. /\ Tools!toolAccepts(args.tool, args.method) /\ args \in Tools!Args
        /\ \E request \in sent : request.method = Tools!chosenMethod
      BY DEF ToolInv
  <2>2. args.tool \in Tools!readOnlyHint \cup {"tls_session_warmup"}
          => Tools!chosenMethod \in Tools!ReadOnly
      BY <2>1 DEF Tools!toolAccepts, Tools!chosenMethod, Tools!readOnlyHint, Tools!ReadOnly
  <2>3. args.tool = "tls_request" => Tools!chosenMethod \notin Tools!ReadOnly
      BY <2>1 DEF Tools!toolAccepts, Tools!chosenMethod, Tools!ReadOnly
  <2> QED
      BY <2>1, <2>2, <2>3 DEF ToolInv, Granted, ToolIntent, Tools!ToolIntent
<1> QED
    BY <1>1, EdgesInvariance, PTL

\* Whatever the order of the map, no key is lost or returned twice, no spelling
\* of a sensitive name is returned, and the redacted names come out sorted.
THEOREM HeadersSplit == EdgesSpec => []NothingLostOrLeaked
<1>1. HeadersInv => NothingLostOrLeaked
  <2> SUFFICES ASSUME HeadersInv PROVE Response!NothingLostOrLeaked
      BY DEF NothingLostOrLeaked
  <2>1. Len(redacted) \in Nat /\ i \in Nat /\ j \in Nat
      BY LenProperties DEF HeadersInv
  <2>2. ASSUME sorting = "done", NEW k \in 1 .. Len(redacted), NEW l \in 1 .. Len(redacted), k < l
        PROVE  redacted[k].place <= redacted[l].place /\ redacted[k] # redacted[l]
    <3>1. i > Len(redacted) /\ j = i /\ InOrder /\ Distinct
        BY <2>2 DEF HeadersInv
    <3>2. k # j /\ l # j /\ l <= i /\ k # l
        BY <2>1, <2>2, <3>1
    <3> QED
        BY <2>2, <3>1, <3>2 DEF InOrder, Distinct
  <2> QED
      BY <2>2 DEF HeadersInv, Response!NothingLostOrLeaked
<1> QED
    BY <1>1, EdgesInvariance, PTL
=============================================================================
