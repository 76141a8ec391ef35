---------------------------- MODULE RequestRules -----------------------------
(***************************************************************************)
(* What is decided about one request before and while it is served: which  *)
(* daemon it goes to (process/client.ts, process/remote-discovery.ts,      *)
(* cli/commands/remote-routing.ts), which tool a name stands for           *)
(* (schema/introspect.ts) and what the access policy of the service lets   *)
(* through (access/filter.ts), in the CLI and in the daemon.               *)
(*                                                                         *)
(* A tool name is a base with the service's prefix some times before it.   *)
(* A pattern of a policy is the set of names that it matches, so a list of *)
(* patterns is one set; NoList stands for no list and for an empty one.    *)
(***************************************************************************)
EXTENDS Naturals, FiniteSets

CONSTANTS Bases, NoList

VARIABLE policyCase \* one service: the tools seen, the key they are stored under, the two policies

-------------------------------------------------------------------------------
(* Routing *)

\* An entry of services.json, or its absence, and what discovery says of the name
ServiceEntries ==
    [present : {TRUE}, source : {"none", "local", "remote", "remote-local"},
     platforms : {"any", "here", "elsewhere"},
     availability : {"hosted", "not-hosted", "unknown", "no-remote"}]
    \cup [present : {FALSE}, source : {"none"}, platforms : {"any"},
          availability : {"hosted", "not-hosted", "unknown", "no-remote"}]

\* resolveSource, and the default of fetchDaemon
RouteOf(svc) ==
    LET remote == svc.availability # "no-remote"
        source == IF svc.source # "none" THEN svc.source
                  ELSE IF svc.platforms = "here" THEN "local"
                  ELSE IF svc.platforms = "elsewhere"
                  THEN IF svc.availability = "hosted" THEN "remote" ELSE "local"
                  ELSE IF svc.availability = "hosted"
                  THEN IF svc.present THEN "remote-local" ELSE "remote"
                  ELSE IF svc.present \/ svc.availability = "not-hosted" THEN "local"
                  ELSE "remote-local"
    IN  IF remote THEN source ELSE "local"

-------------------------------------------------------------------------------
(* Names and policies *)

ToolNames == [base : Bases, prefixes : 0..1]
Prefixed(n) == [n EXCEPT !.prefixes = @ + 1]

\* resolveToolName; resolveToolNameCached goes on with the name itself when no tool has it
ResolveToolName(tools, prefixes, n) ==
    IF n \in tools THEN n
    ELSE IF prefixes /\ Prefixed(n) \in tools THEN Prefixed(n)
    ELSE n

CheckToolAccess(n, policy) ==
    /\ policy.allow = NoList \/ n \in policy.allow
    /\ policy.block = NoList \/ n \notin policy.block

FilterTools(tools, policy) == {n \in tools : CheckToolAccess(n, policy)}

\* handleServiceHelp, for a service that the CLI's services.json lacks as well: that is a policy
\* without lists.  POST /list-tools tells c.seen, whatever the policies are.
Listed(c) == FilterTools(c.seen, c.cli)
Hidden(c) == c.seen \ Listed(c)

\* Mutant: the daemon asks about the name of the request
DaemonCallsNamed(c, n) ==
    {tool \in {ResolveToolName(c.seen, ~c.keyed, n)} : CheckToolAccess(n, c.daemon)}

\* The handler of POST /call asks about the tool that the name stands for.  It resolves with the pool key
\* for a prefix, so under the key of a credential no short name stands for anything.
DaemonCalls(c, n) ==
    {tool \in {ResolveToolName(c.seen, ~c.keyed, n)} : CheckToolAccess(tool, c.daemon)}

\* handleToolCall asks about the name it is given before it sends it, or resolves and calls it directly;
\* batch only sends
ToolCalls(c, n) == IF CheckToolAccess(n, c.cli) THEN DaemonCalls(c, n) ELSE {}
DirectCalls(c, n) ==
    IF CheckToolAccess(n, c.cli) THEN {ResolveToolName(c.seen, TRUE, n)} ELSE {}
BatchCalls(c, n) == DaemonCalls(c, n)

PolicyLists == {NoList} \cup SUBSET ToolNames
Policies == [allow : PolicyLists, block : PolicyLists]

\* The tools of the schema cache or of the backend, none when both fail
RulesInit ==
    policyCase \in [seen : SUBSET ToolNames, keyed : BOOLEAN, cli : Policies, daemon : Policies]

-------------------------------------------------------------------------------
\* What the two policies of a service add up to, asked as they are about different names at different
\* moments (service-help.ts 34-76, tool-call.ts 151-161 and 278-288, batch.ts 64, server.ts 294-321):
\*   - a listed tool, called by the name it is listed under, is called itself or refused by the policy of
\*     the daemon, and a direct call of it always goes through;
\*   - through a daemon no name reaches a tool that the daemon blocks, and, where both have one policy,
\*     none that help hides, not from batch either;
\*   - a command reaches a tool that help hides by no name but its short one, and a direct call does so
\*     exactly when the short name passes and is no tool of its own: the check comes before the resolution.
PolicyDecides ==
    LET c == policyCase IN
    /\ \A n \in Listed(c) :
          /\ ToolCalls(c, n) = {tool \in {n} : CheckToolAccess(tool, c.daemon)}
          /\ DirectCalls(c, n) = {n}
    /\ \A n \in ToolNames : \A tool \in BatchCalls(c, n) \cup ToolCalls(c, n) :
          /\ CheckToolAccess(tool, c.daemon)
          /\ c.cli = c.daemon => tool \notin Hidden(c)
    /\ \A n \in ToolNames :
          /\ \A tool \in ToolCalls(c, n) \cap Hidden(c) : tool = Prefixed(n) /\ ~c.keyed
          /\ DirectCalls(c, n) \cap Hidden(c) # {} <=>
                n \notin c.seen /\ CheckToolAccess(n, c.cli) /\ Prefixed(n) \in Hidden(c)
==============================================================================
