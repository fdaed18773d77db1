------------------------------ MODULE ToolCalls ------------------------------
(***************************************************************************)
(* From the environment to a request: the server reads its limits          *)
(* (internal/fetch/config.go), registers its tools (cmd/tls-fetch-mcp), and *)
(* the four tools that send requests turn their arguments into an Input of *)
(* Fetcher.Do (internal/fetch/tools.go), which checks it against the       *)
(* limits (internal/fetch/fetch.go).                                       *)
(*                                                                         *)
(* The strings of the environment and of the methods are trimmed and have  *)
(* lost their case.  Arguments a tool hands on unchanged are left out.     *)
(***************************************************************************)
EXTENDS Integers, FiniteSetsExt

CONSTANTS
    Fallback,       \* Fallback[l]: the default of limit l
    MaxInt,         \* the largest int64
    Setting,        \* what a variable may be set to: numbers and other strings
    Truth,          \* the settings ParseBool takes for true
    Falsehood,      \* and for false
    Asked,          \* the numbers a caller may ask for
    MaxSet          \* bound on the number of variables that are set

Limit == {"MaxResponseBytes", "DefaultTimeout", "MaxTimeout", "MaxSessions",
          "SessionTTL", "MaxResponses", "ResponseTTL", "MaxReadBytes"}

Switch == {"AllowPrivate", "AllowProxy"}

\* What the constants are.
ToolAssumption ==
    /\ MaxInt \in Nat
    /\ Fallback \in [Limit -> 1 .. MaxInt]
    /\ Fallback["DefaultTimeout"] <= Fallback["MaxTimeout"]
    /\ Truth \subseteq Setting /\ Falsehood \subseteq Setting
    /\ Asked \subseteq Int
    /\ MaxSet \in Nat

Tool == {"tls_get", "tls_request", "tls_fetch", "tls_session_warmup"}

ReadOnly == {"GET", "HEAD"}

allowedMethods == ReadOnly \cup {"POST", "PUT", "PATCH", "DELETE", "OPTIONS"}

\* The tools that send requests and are registered with ReadOnlyHint.
readOnlyHint == {"tls_get"}

\* A method is given or not; "TRACE" stands for the ones that are not allowed.
Method == allowedMethods \cup {"", "TRACE"}

\* A session_id is missing, passes validateSessionID or does not.
Args == [tool : Tool, method : Method, timeout : Asked, maxBytes : Asked,
         session : {"none", "valid", "invalid"}]

VARIABLES
    env,        \* the variables that are set, to what
    config,     \* Fetcher.config
    args,       \* the arguments of the call
    sent,       \* the requests it has sent: method, timeout and body limit
    pc          \* how far the server, then the call, is

vars == <<env, config, args, sent, pc>>
-----------------------------------------------------------------------------
(***************************************************************************)
(* The configuration.                                                      *)
(***************************************************************************)

\* envPositiveInt and envPositiveInt64 accept the setting.
positive(v) == v \in 1 .. MaxInt

\* envBoolean accepts the setting.
boolean(v) == v \in Truth \cup Falsehood

\* Faulty variant: the two timeouts are not compared.
consistentAnyway(cfg) == TRUE

consistent(cfg) == cfg["DefaultTimeout"] <= cfg["MaxTimeout"]

\* Every variable that is set can be understood.
understood ==
    \A name \in DOMAIN env :
        IF name \in Switch THEN boolean(env[name]) ELSE positive(env[name])

\* The Config of ConfigFromEnv when every variable is understood.
configured == [l \in Limit |-> IF l \in DOMAIN env THEN env[l] ELSE Fallback[l]]

\* Config.withDefaults
withDefaults(cfg) == [l \in Limit |-> IF cfg[l] <= 0 THEN Fallback[l] ELSE cfg[l]]
-----------------------------------------------------------------------------
(***************************************************************************)
(* The arguments.                                                          *)
(***************************************************************************)

\* Faulty variant: tls_get leaves the check of the method to Do.
toolTrustsDo(tool, method) == tool = "tls_request" => method \notin {""} \cup ReadOnly

\* DoGet and DoRequest accept the method.  A warmup has none to choose.
toolAccepts(tool, method) ==
    CASE tool = "tls_get" -> method \in {""} \cup ReadOnly
      [] tool = "tls_request" -> method \notin {""} \cup ReadOnly
      [] OTHER -> TRUE

\* The method Do is called with, in the end.
chosenMethod ==
    IF args.tool = "tls_session_warmup" \/ args.method = "" THEN "GET" ELSE args.method

\* validateSessionID, before the request for a warmup and inside Do if there is one.
sessionAccepted == IF args.tool = "tls_session_warmup" THEN args.session = "valid"
                                                       ELSE args.session # "invalid"

\* Fetcher.timeout and Fetcher.responseLimit: what is granted, or nothing.
granted(asked, default, max) ==
    IF asked = 0 THEN {default} ELSE IF asked < 0 \/ asked > max THEN {} ELSE {asked}

timeout == granted(args.timeout, config["DefaultTimeout"], config["MaxTimeout"])

responseLimit == granted(args.maxBytes, config["MaxResponseBytes"], config["MaxResponseBytes"])

\* The requests a call may start with: one, or none if it is refused.
accepted ==
    {r \in [method : {chosenMethod} \cap allowedMethods, timeout : timeout, limit : responseLimit] :
        toolAccepts(args.tool, args.method) /\ sessionAccepted}

\* The client turns other methods into GET for status 301, 302 and 303, and
\* keeps the method for 307 and 308.
redirected(method) == {method, IF method = "HEAD" THEN "HEAD" ELSE "GET"}
-----------------------------------------------------------------------------
Init ==
    /\ \E n \in 0 .. MaxSet : \E names \in kSubset(n, Limit \cup Switch) : env \in [names -> Setting]
    /\ config = Fallback
    /\ args = CHOOSE a \in Args : TRUE
    /\ sent = {}
    /\ pc = "starting"

\* log.Fatal: the server does not start.
Stop ==
    /\ pc = "starting"
    /\ ~ (understood /\ consistent(configured))
    /\ pc' = "stopped"
    /\ UNCHANGED <<env, config, args, sent>>

Start ==
    /\ pc = "starting"
    /\ understood /\ consistent(configured)
    /\ config' = withDefaults(configured)
    /\ env' = [name \in {} |-> 0]
    /\ pc' = "serving"
    /\ UNCHANGED <<args, sent>>

\* The handler a tool was registered with is called.
Call ==
    /\ pc = "serving"
    /\ args' \in Args
    /\ pc' = "called"
    /\ UNCHANGED <<env, config, sent>>

Refuse ==
    /\ pc = "called" /\ accepted = {}
    /\ pc' = "refused"
    /\ UNCHANGED <<env, config, args, sent>>

Send ==
    /\ pc = "called"
    /\ \E request \in accepted : sent' = {request}
    /\ pc' = "sent"
    /\ UNCHANGED <<env, config, args>>

FollowRedirect ==
    /\ pc = "sent"
    /\ \E request \in sent : \E method \in redirected(request.method) :
          sent' = sent \cup {[request EXCEPT !.method = method]}
    /\ UNCHANGED <<env, config, args, pc>>

\* Requests are kept as a set: how many redirects there are is in Exchange.
Next == Stop \/ Start \/ Call \/ Refuse \/ Send \/ FollowRedirect

Spec == Init /\ [][Next]_vars
-----------------------------------------------------------------------------
(***************************************************************************)
(* Properties.                                                             *)
(***************************************************************************)

\* README.md:388, callers "may choose stricter request limits but cannot exceed
\* these values": whatever the environment holds and whatever is asked for, or
\* left to the defaults, a request is sent within the limits of the server, and
\* a stricter one that was asked for is kept (config.go:81, fetch.go:306-324).
WithinServerLimits ==
    \A request \in sent :
        /\ request.timeout \in 1 .. config["MaxTimeout"]
        /\ request.limit \in 1 .. config["MaxResponseBytes"]
        /\ args.timeout # 0 => request.timeout = args.timeout
        /\ args.maxBytes # 0 => request.limit = args.maxBytes

\* README.md:31, "read-only GET/HEAD traffic is isolated": no environment, no
\* argument and no redirect makes a tool that is announced as read-only, or a
\* warmup, send a method that changes anything, and tls_request is not a way
\* to start with one that does not.
ToolIntent ==
    /\ args.tool \in readOnlyHint \cup {"tls_session_warmup"} =>
          \A request \in sent : request.method \in ReadOnly
    /\ args.tool = "tls_request" /\ sent # {} =>
          \E request \in sent : request.method \notin ReadOnly
=============================================================================
