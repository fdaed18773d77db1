----------------------------- MODULE Extraction -----------------------------
(***************************************************************************)
(* tls_response_extract (internal/fetch/extract.go): the checks of the     *)
(* arguments, the values each query takes from a stored body, and the loop *)
(* that drops values until the serialized output fits.                     *)
(*                                                                         *)
(* The output contains its own size (output_bytes), its own counts and its *)
(* own "limited" flags, so its size is a fixed point and changes with      *)
(* every value dropped.  Lengths are therefore modelled to the byte where  *)
(* the code's decisions depend on them: the digits of the numbers, "true"  *)
(* and "false", and the commas between values.                             *)
(*                                                                         *)
(* Abstractions: a document is, for each query, the list of nodes its      *)
(* selector matches; a node is the size of its value once serialized and   *)
(* whether it has the attribute asked for.  Of the stored record there is  *)
(* what its format is told from, and what it can be parsed as.             *)
(***************************************************************************)
EXTENDS Integers, Sequences, FiniteSets, SequencesExt

CONSTANTS
    Query,                  \* queries, with the nodes they match
    Document,               \* stored records
    maxExtractQueries,      \* 16 in the code
    maxExtractResults,      \* 100 in the code
    defaultExtractResults,  \* 20 in the code
    defaultExtractOutputBytes, \* 64 KiB in the code
    MaxReadBytes,           \* Config.MaxReadBytes
    AskedBytes,             \* the max_output_bytes a caller may ask for
    Metadata,               \* sizes of the rest of the output
    MaxSize                 \* no value and no metadata is longer

Node == [size : 0 .. MaxSize, kind : {"plain", "bare", "malformed"}]

ASSUME ExtractionAssumption ==
    /\ maxExtractQueries \in 1 .. 16 /\ maxExtractResults \in 1 .. 100
    /\ defaultExtractResults \in 1 .. maxExtractResults
    /\ defaultExtractOutputBytes \in Nat \ {0} /\ MaxReadBytes \in Nat \ {0}
    /\ Document \subseteq [mediaType : {"html", "json", "unknown"},
                           begins : {"html", "json", "unknown"},
                           parses : SUBSET {"html", "json"}, hasBase : BOOLEAN]
    /\ Query \subseteq [name : STRING, mode : STRING, attribute : STRING,
                        resolve : BOOLEAN, nodes : Seq(Node)]
    /\ AskedBytes \subseteq Int /\ Metadata \subseteq 0 .. MaxSize

VARIABLES
    extractPc,  \* where ExtractResponse is
    request,    \* the arguments, and what is found in the store
    results,    \* output.Results: values, flag and what there was to extract
    returned,   \* output.ReturnedCount
    limited,    \* output.Limited
    outputBytes,\* output.OutputBytes
    round,      \* marshals done by extractionOutputSize
    previous    \* its local variable "previous"

extractionVars == <<extractPc, request, results, returned, limited, outputBytes, round, previous>>
fitting == <<results, returned, limited, outputBytes, round, previous>>
-----------------------------------------------------------------------------
(***************************************************************************)
(* Arguments.                                                              *)
(***************************************************************************)

\* Names are compared after trimming; a selector is present and compiles.
validQueries(queries) ==
    /\ Len(queries) \in 1 .. maxExtractQueries
    /\ \A i, j \in DOMAIN queries : i # j => queries[i].name # queries[j].name

resultLimit == IF request.maxResults = 0 THEN defaultExtractResults ELSE request.maxResults

outputLimit ==
    IF request.maxOutputBytes = 0
    THEN IF defaultExtractOutputBytes > MaxReadBytes THEN MaxReadBytes
         ELSE defaultExtractOutputBytes
    ELSE request.maxOutputBytes

\* Faulty variant: an explicit limit is not compared with the server's.
positive(bytes) == bytes >= 1

permitted(bytes) == bytes \in 1 .. MaxReadBytes

\* An explicit format, else the media type, else the first byte of the body
\* that is not a space decides; "unknown" when nothing does.
format ==
    LET doc == request.document
    IN  CASE request.format # "auto" -> request.format
          [] request.format = "auto" /\ doc.mediaType # "unknown" -> doc.mediaType
          [] OTHER -> doc.begins

\* A record that is not UTF-8 parses as nothing.
validArguments ==
    /\ format \in request.document.parses
    /\ validQueries(request.queries)
    /\ resultLimit \in 1 .. maxExtractResults
    /\ permitted(outputLimit)

\* JSON queries take no HTML options.
jsonOptions(q) == q.mode = "" /\ q.attribute = "" /\ ~ q.resolve

htmlURLAttributes == {"action", "cite", "data", "formaction", "href", "poster", "src"}

\* A relative URL needs a base, the absolute final URL of the response.
htmlOptions(q) ==
    \/ /\ q.mode \in {"", "text", "inner_html", "outer_html"}
       /\ q.attribute = "" /\ ~ q.resolve
    \/ /\ q.mode = "attribute" /\ q.attribute # ""
       /\ q.resolve => q.attribute \in htmlURLAttributes /\ request.document.hasBase

validOptions(q) == IF format = "json" THEN jsonOptions(q) ELSE htmlOptions(q)
-----------------------------------------------------------------------------
(***************************************************************************)
(* Values.                                                                 *)
(***************************************************************************)

\* The nodes a query can take a value from.
extractable(q) ==
    IF q.mode = "attribute"
    THEN FoldLeft(LAMBDA kept, n : IF n.kind = "bare" THEN kept ELSE Append(kept, n),
                  <<>>, q.nodes)
    ELSE q.nodes

\* The first n elements, or all of them.
AtMost(n, seq) == SubSeq(seq, 1, Min({n, Len(seq)}))

\* Faulty variant: attributes are looked for among the first matches only.
takenAmongFirst(q) ==
    SelectSeq(AtMost(resultLimit, q.nodes),
              LAMBDA n : q.mode = "attribute" => n.kind # "bare")

\* The first values, as many as may be returned.
taken(q) == AtMost(resultLimit, extractable(q))

\* A reference that is to be resolved has to parse.
resolves(q) == q.resolve => \A i \in DOMAIN taken(q) : taken(q)[i].kind # "malformed"

sizes(nodes) == [i \in DOMAIN nodes |-> nodes[i].size]

\* One query's result, in extractJSON and, of the values above, in extractHTML;
\* "all" is not part of the output.
extract(q) ==
    [values |-> sizes(taken(q)), limited |-> Len(extractable(q)) > resultLimit,
     all |-> sizes(extractable(q))]
-----------------------------------------------------------------------------
(***************************************************************************)
(* Sizes.                                                                  *)
(***************************************************************************)
Total(seq) == FoldLeft(LAMBDA x, y : x + y, 0, seq)

digits[n \in Nat] == IF n < 10 THEN 1 ELSE 1 + digits[n \div 10]

\* A value of a petabyte: with as many of them as are allowed the length of an
\* output, an int in Go, has no more than 19 digits.
ASSUME SizeAssumption == MaxSize \in Nat \ {0} /\ digits[MaxSize] <= 15

flag(b) == IF b THEN 4 ELSE 5

\* The serialized length of one query's result, besides its metadata.
resultSize(r) ==
    LET n == Len(r.values)
    IN  Total(r.values) + (IF n > 1 THEN n - 1 ELSE 0) + digits[n] + flag(r.limited)

\* The serialized length of the output, besides the digits of output_bytes.
besides(res, count, lim) ==
    request.metadata + Total([i \in DOMAIN res |-> resultSize(res[i])])
        + digits[count] + flag(lim)

\* len(json.Marshal(output))
marshalled == besides(results, returned, limited) + digits[outputBytes]
-----------------------------------------------------------------------------
Requests ==
    [format : {"auto", "html", "json", "unknown"}, document : Document,
     queries : UNION {[1 .. n -> Query] : n \in 0 .. maxExtractQueries + 1},
     maxResults : -1 .. maxExtractResults + 1,
     maxOutputBytes : AskedBytes, metadata : Metadata]

ExtractionInit ==
    /\ extractPc = "called"
    /\ request \in Requests
    /\ results = <<>> /\ returned = 0 /\ limited = FALSE
    /\ outputBytes = 0 /\ round = 0 /\ previous = -1

\* An argument is rejected, or a reference does not parse: nothing is returned,
\* however many queries succeeded before.
RejectRequest ==
    /\ extractPc = "called"
    /\ \/ ~ validArguments
       \/ \E i \in DOMAIN request.queries :
             LET q == request.queries[i] IN ~ validOptions(q) \/ ~ resolves(q)
    /\ extractPc' = "failed"
    /\ UNCHANGED <<request, fitting>>

\* All queries are answered and their counts added up.
Extract ==
    /\ extractPc = "called"
    /\ validArguments
    /\ \A i \in DOMAIN request.queries :
          LET q == request.queries[i] IN validOptions(q) /\ resolves(q)
    /\ results' = [i \in DOMAIN request.queries |-> extract(request.queries[i])]
    /\ returned' = Total([i \in DOMAIN results' |-> Len(results'[i].values)])
    /\ limited' = \E i \in DOMAIN results' : results'[i].limited
    /\ extractPc' = "measuring"
    /\ UNCHANGED <<request, outputBytes, round, previous>>

\* Faulty variant: the first length that is found is taken.
settledAtOnce == TRUE

\* The length is the one written into the output before, or rounds are up.
settled == marshalled = previous \/ round = 4

\* One marshal of extractionOutputSize.
Measure ==
    /\ extractPc = "measuring"
    /\ previous' = marshalled
    /\ IF settled
       THEN extractPc' = "measured" /\ UNCHANGED <<outputBytes, round>>
       ELSE /\ outputBytes' = marshalled
            /\ round' = round + 1
            /\ UNCHANGED extractPc
    /\ UNCHANGED <<request, results, returned, limited>>

\* Faulty variant: an output of exactly the limit is cut as well.
notBelowLimit == previous >= outputLimit

\* "previous" is the size fitExtractionOutput was told.
tooLarge == previous > outputLimit

\* fitExtractionOutput is done.
Fit ==
    /\ extractPc = "measured"
    /\ ~ tooLarge
    /\ outputBytes' = previous
    /\ extractPc' = "done"
    /\ UNCHANGED <<request, results, returned, limited, round, previous>>

\* The queries that have a value left.
Filled == {i \in DOMAIN results : results[i].values # <<>>}

\* Faulty variant: values are dropped from the first query on.
firstFilled == CHOOSE i \in Filled : \A j \in Filled : i <= j

lastFilled == CHOOSE i \in Filled : \A j \in Filled : j <= i

\* Faulty variant: the flag of the query is not set.
shortenedSilently(r) == [r EXCEPT !.values = Front(@)]

\* A query's result without its last value.
shortened(r) == [r EXCEPT !.values = Front(@), !.limited = TRUE]

returnedLess == returned - 1

\* The last value of the last query that has one is dropped.
Drop ==
    /\ extractPc = "measured"
    /\ tooLarge
    /\ Filled # {}
    /\ results' = [results EXCEPT ![lastFilled] = shortened(@)]
    /\ returned' = returnedLess
    /\ limited' = TRUE
    /\ round' = 0 /\ previous' = -1
    /\ extractPc' = "measuring"
    /\ UNCHANGED <<request, outputBytes>>

\* Faulty variant: the loop gives up only when there is no query at all.
unqueried == results = <<>>

exhausted == Filled = {}

\* There is nothing left to drop.
TooSmall ==
    /\ extractPc = "measured"
    /\ tooLarge
    /\ exhausted
    /\ extractPc' = "failed"
    /\ UNCHANGED <<request, fitting>>

ExtractionNext == RejectRequest \/ Extract \/ Measure \/ Fit \/ Drop \/ TooSmall

ExtractionSpec == ExtractionInit /\ [][ExtractionNext]_extractionVars

\* ExtractResponse is sequential code and runs on.
ExtractionFairSpec == ExtractionSpec /\ WF_extractionVars(ExtractionNext)
-----------------------------------------------------------------------------
(***************************************************************************)
(* Properties.                                                             *)
(***************************************************************************)

Done == extractPc = "done"

\* What is returned has exactly the size it says, although that number is part
\* of what is measured; it keeps to the limit that was asked for and, whatever
\* that is, to the server's (extractionOutputSize, fitExtractionOutput,
\* extractOutputLimit, extractResultLimit).
OutputExact ==
    Done => /\ outputBytes = marshalled
            /\ marshalled <= outputLimit /\ marshalled <= MaxReadBytes
            /\ \A i \in DOMAIN results : Len(results[i].values) <= maxExtractResults

\* The counts and flags tell exactly what is missing, whether the result limit
\* or the output limit took it: a query is limited iff a value its selector
\* matches is not returned, the output iff one of its queries is.
FlagsTell ==
    Done =>
        /\ \A i \in DOMAIN results :
              results[i].limited <=> Len(results[i].values) < Len(results[i].all)
        /\ limited <=> \E i \in DOMAIN results : results[i].limited
        /\ returned = Total([i \in DOMAIN results |-> Len(results[i].values)])

\* The values query i was granted before the output was measured.
Granted(i) == Min({resultLimit, Len(results[i].all)})

\* Values are cut from the end: what a query returns is the beginning of what
\* it matches, and a query that lost a value leaves none to a later query.
CutFromTheEnd ==
    Done => \A i \in DOMAIN results :
              /\ IsPrefix(results[i].values, results[i].all)
              /\ Len(results[i].values) < Granted(i) =>
                    \A j \in DOMAIN results : j > i => results[j].values = <<>>

\* The results with one more value: the last that was dropped.
Cut == {i \in DOMAIN results : Len(results[i].values) < Granted(i)}

OneMore ==
    LET first == CHOOSE i \in Cut : \A j \in Cut : i <= j
        n     == Len(results[first].values) + 1
    IN  [results EXCEPT ![first].values = SubSeq(results[first].all, 1, n),
                        ![first].limited = n < Len(results[first].all)]

\* No value is dropped in vain: with the last one dropped there is a size the
\* output may state of itself that exceeds the limit.  (At a power of ten there
\* can be two such sizes, and the code may have met the larger.)
NotCutInVain ==
    Done /\ Cut # {} =>
        LET size == besides(OneMore, returned + 1,
                         \E i \in DOMAIN OneMore : OneMore[i].limited)
        IN  \E d \in 1 .. 20 : digits[size + d] = d /\ size + d > outputLimit

\* Every call ends, with an answer or an error: measuring and dropping cannot
\* go round for ever.
ExtractionEnds == <>(extractPc \in {"done", "failed"})
=============================================================================
