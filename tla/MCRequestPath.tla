--------------------------- MODULE MCRequestPath ----------------------------
(***************************************************************************)
(* What a request passes, for TLC: the token it offers and its rotation,   *)
(* its route, retries and handlers, the rules that decide about it, and    *)
(* the stdio connection of its service.                                    *)
(*                                                                         *)
(* The parts share no variable, so their product says nothing that they    *)
(* do not say alone.  A behaviour explores one, its focus, while the       *)
(* others rest in one initial state.                                       *)
(***************************************************************************)
EXTENDS TokenStore, Requests, StdioTransport

VARIABLE focus

pathVars == <<focus, tokenVars, requestVars, policyCase, transportVars>>

NoPolicies == \A p \in {policyCase.cli, policyCase.daemon} : p.allow = NoList /\ p.block = NoList

PathInit ==
    /\ focus \in {"tokens", "rules", "calls", "transport"}
    /\ TokenInit
    /\ TransportInit
    /\ RulesInit
    /\ focus # "rules" => policyCase.seen = {} /\ ~policyCase.keyed /\ NoPolicies
    /\ RequestInit
    /\ focus # "calls" => route = "local" /\ ~unhosted /\ ~missing

PathNext ==
    /\ UNCHANGED <<focus, policyCase>>
    /\ \/ focus = "tokens" /\ TokenNext /\ UNCHANGED <<requestVars, transportVars>>
       \/ focus = "calls" /\ RequestNext /\ UNCHANGED <<tokenVars, transportVars>>
       \/ focus = "transport" /\ TransportNext /\ UNCHANGED <<tokenVars, requestVars>>

PathSpec ==
    PathInit /\ [][PathNext]_pathVars /\ TokenFairness /\ RequestFairness /\ TransportFairness
=============================================================================
