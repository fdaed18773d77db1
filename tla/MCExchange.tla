----------------------------- MODULE MCExchange -----------------------------
(* Exchange on three hosts, one below another, and three addresses. *)
EXTENDS Exchange

site == <<"example">>
shop == <<"shop", "example">>
other == <<"other">>

MCHosts == {site, shop, other}
MCSite == {site}
MCNoProxy == {}
MCProxies == {other}

MCAddresses == {<<"global", 1>>, <<"private", 1>>, <<"multicast", 1>>}
MCGlobal == {<<"global", 1>>}

\* the site itself, and the names below it
MCAllowed == {[below |-> FALSE, name |-> site], [below |-> TRUE, name |-> site]}
MCAnyHost == {}
=============================================================================
