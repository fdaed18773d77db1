------------------------------ MODULE CallParts ------------------------------
(***************************************************************************)
(* The parts of a call that share no state, side by side: the tools, the   *)
(* configuration and the headers (Edges), an exchange under the network    *)
(* policy (Exchange), a search (TextSearch) and an extraction (Extraction) *)
(* over a stored response.  What passes between two of them in the code is *)
(* an argument, and each starts from every argument it can be given; so    *)
(* one of them runs in a behaviour and the others stay where a call ended. *)
(***************************************************************************)
EXTENDS Edges, Exchange, TextSearch, Extraction

ExchangeRests ==
    /\ dns = [h \in Host |-> {}] /\ phase = "failed"
    /\ input = CHOOSE x \in [url : URL, follow : BOOLEAN, proxy : ProxyHost \cup {Direct}] : TRUE
    /\ target = input.url /\ via = <<>> /\ history = <<>>
    /\ idle = {} /\ dialled = {}

SearchRests ==
    /\ searchPc = "failed"
    /\ body = CHOOSE b \in Bodies : TRUE
    /\ searchInput = CHOOSE x \in [query : Queries, caseSensitive : BOOLEAN,
                                   maxMatches : MaxMatches, contextBytes : ContextBytes] : TRUE
    /\ searchFrom = 0 /\ matches = <<>> /\ searchLimited = FALSE

ExtractionRests ==
    /\ extractPc = "failed"
    /\ request = CHOOSE x \in Requests : TRUE
    /\ results = <<>> /\ returned = 0 /\ limited = FALSE
    /\ outputBytes = 0 /\ round = 0 /\ previous = -1

EdgesRest == RequestRests /\ ResponseRests /\ ToolsRest

edgesVars == <<vars, responseVars, toolVars>>

PartsInit ==
    \/ ExchangeRests /\ SearchRests /\ ExtractionRests /\ EdgesInit
    \/ EdgesRest /\ SearchRests /\ ExtractionRests /\ ExchangeInit
    \/ EdgesRest /\ ExchangeRests /\ ExtractionRests /\ SearchInit
    \/ EdgesRest /\ ExchangeRests /\ SearchRests /\ ExtractionInit

\* The name server is at work only while an exchange is.
PartsNext ==
    \/ EdgesNext /\ UNCHANGED <<exchangeVars, searchVars, extractionVars>>
    \/ /\ phase \notin {"completed", "failed"} /\ ExchangeNext
       /\ UNCHANGED <<edgesVars, searchVars, extractionVars>>
    \/ SearchNext /\ UNCHANGED <<edgesVars, exchangeVars, extractionVars>>
    \/ ExtractionNext /\ UNCHANGED <<edgesVars, exchangeVars, searchVars>>

\* The fairness each part has by itself.
PartsSpec ==
    /\ PartsInit /\ [][PartsNext]_<<edgesVars, exchangeVars, searchVars, extractionVars>>
    /\ WF_exchangeVars(CallStep) /\ WF_searchVars(SearchNext)
    /\ WF_extractionVars(ExtractionNext)
=============================================================================
