---------------------------- MODULE MCCallParts ----------------------------
(* The small instances of the parts: of Edges, one field of each kind, four *)
(* places in two spellings and limits that the environment may set to       *)
(* anything; of Exchange, the hosts of MCExchange; of TextSearch, all short *)
(* texts over a letter in both cases and a rune of two bytes, and some with *)
(* longer runes; of Extraction, queries and documents whose outputs lie on  *)
(* both sides of 999 and 1000, where the length of output_bytes changes.    *)
EXTENDS CallParts, MCExchange

CONSTANTS Yes, No

\* Edges

MCField == {"", "host", "accept", "dnt"}
MCForbidden == {"host"}
MCDefault == {"accept"}
MCPlace == 1 .. 4
MCSensitive == {1, 2, 4}
MCFallback ==
    [MaxResponseBytes |-> 3, DefaultTimeout |-> 2, MaxTimeout |-> 3, MaxSessions |-> 3,
     SessionTTL |-> 3, MaxResponses |-> 3, ResponseTTL |-> 3, MaxReadBytes |-> 3]
MCSetting == {0, 1, 4, 16, Yes, No}
MCTruth == {1, Yes}
MCFalsehood == {0, No}
MCAsked == {-1, 0, 1, 3, 4}
-----------------------------------------------------------------------------
\* TextSearch

UpTo(n, S) == UNION {[1 .. k -> S] : k \in 0 .. n}

A == 65
a == 97
Trail == 130
Two == <<195, Trail>>
Three == <<226, Trail, Trail>>
Four == <<240, 159, 152, Trail>>

Short(n) == {s \in UpTo(n, {A, a, 195, Trail}) : Valid(s)}

\* Besides the short texts: punctuation behind Z and z, texts with longer runes
\* at either end of a context, and three that are no text.
MCBodies ==
    Short(5) \cup
    { <<91, 123>>, <<a, a>> \o Two \o <<a, a>>, <<a>> \o Three \o <<a>>,
      Three \o <<A>> \o Three, Four \o <<A>> \o Four, <<a>> \o Four \o <<a, A>>,
      <<a, Trail>>, <<195>>, <<A, 255>> }
MCQueries ==
    Short(2) \cup {<<123>>, <<Trail>>, <<a, a, a>>, <<a>> \o Two, Three, <<a, a, a, a>>}
MCMaxMatches == {-1, 0, 2, 3}
MCContextBytes == {-1, 0, 2, 3}
-----------------------------------------------------------------------------
\* Extraction

Plain(n) == [size |-> n, kind |-> "plain"]

Text(name, nodes) ==
    [name |-> name, mode |-> "", attribute |-> "", resolve |-> FALSE, nodes |-> nodes]

MCQuery ==
    { Text("title", <<Plain(34), Plain(35), Plain(36)>>),
      Text("price", <<Plain(33)>>),
      [name |-> "link", mode |-> "attribute", attribute |-> "href", resolve |-> TRUE,
       nodes |-> <<[size |-> 0, kind |-> "bare"], Plain(40), [size |-> 34, kind |-> "malformed"],
                   Plain(41)>>],
      [name |-> "title", mode |-> "attribute", attribute |-> "", resolve |-> FALSE,
       nodes |-> <<>>] }

Record(type, first, parses, base) ==
    [mediaType |-> type, begins |-> first, parses |-> parses, hasBase |-> base]

\* Pages with and without an absolute URL, JSON that says so, JSON sent as HTML,
\* a body nothing is told of, JSON that was cut off and a body that is no text.
MCDocument ==
    { Record("html", "html", {"html"}, TRUE), Record("unknown", "html", {"html"}, FALSE),
      Record("json", "unknown", {"html", "json"}, TRUE),
      Record("html", "json", {"html", "json"}, TRUE),
      Record("unknown", "unknown", {"html"}, TRUE),
      Record("json", "json", {"html"}, TRUE), Record("html", "html", {}, TRUE) }

MCAskedBytes == {-1, 0, 850, 999, 1000, 1200}
MCMetadata == {880, 900, 916, 999}
=============================================================================
