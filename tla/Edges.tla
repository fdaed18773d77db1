-------------------------------- MODULE Edges --------------------------------
(***************************************************************************)
(* The parts of a call that keep nothing for the next one: the tools and   *)
(* the configuration (ToolCalls), the header of the request                *)
(* (RequestHeaders), and that of the response (ResponseHeaders).  None of  *)
(* them reads what another writes, so one of them runs in a behaviour,     *)
(* from any of its initial states; the other two stay where they ended.    *)
(***************************************************************************)
EXTENDS RequestHeaders

CONSTANTS Place, Sensitive, Fallback, MaxInt, Setting, Truth, Falsehood, Asked, MaxSet

VARIABLES headers, unread, safe, redacted, i, j, sorting, env, config, args, sent, serving

responseVars == <<headers, unread, safe, redacted, i, j, sorting>>

toolVars == <<env, config, args, sent, serving>>

Response == INSTANCE ResponseHeaders WITH left <- unread, pc <- sorting

Tools == INSTANCE ToolCalls WITH pc <- serving

ASSUME EdgeAssumption == Response!PlaceAssumption /\ Tools!ToolAssumption

\* The request header is finished.
RequestRests ==
    /\ supplied = [n \in {} |-> Browser] /\ order = <<>> /\ left = {}
    /\ header = [k \in {defaultKey(field) : field \in Default} |-> Browser]
    /\ headerOrder = normalizedOrder /\ pc = "set"

\* So is that of the response.
ResponseRests ==
    /\ headers = {} /\ unread = {} /\ safe = {} /\ redacted = <<>>
    /\ i = 2 /\ j = 2 /\ sorting = "done"

\* No tool is called.
ToolsRest ==
    /\ env = [n \in {} |-> 0] /\ config = Fallback /\ args = CHOOSE a \in Tools!Args : TRUE
    /\ sent = {} /\ serving = "stopped"

EdgesInit ==
    \/ Init /\ ResponseRests /\ ToolsRest
    \/ RequestRests /\ Response!Init /\ ToolsRest
    \/ RequestRests /\ ResponseRests /\ Tools!Init

EdgesNext ==
    \/ Next /\ UNCHANGED <<responseVars, toolVars>>
    \/ Response!Next /\ UNCHANGED <<vars, toolVars>>
    \/ Tools!Next /\ UNCHANGED <<vars, responseVars>>

EdgesSpec == EdgesInit /\ [][EdgesNext]_<<vars, responseVars, toolVars>>
-----------------------------------------------------------------------------
\* The properties of the response header and of the tools, under their names.
NothingLostOrLeaked == Response!NothingLostOrLeaked
WithinServerLimits == Tools!WithinServerLimits
ToolIntent == Tools!ToolIntent
=============================================================================
