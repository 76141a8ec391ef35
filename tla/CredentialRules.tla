--------------------------- MODULE CredentialRules ---------------------------
(***************************************************************************)
(* Which credential a caller of one service gets, and under which pool key *)
(* its connection is kept (credentials/credential-manager.ts,              *)
(* daemon/credential-merge.ts, resolveCredentialPool of daemon/server.ts). *)
(*                                                                         *)
(* A credentials configuration, for the one service:                       *)
(*   creds    the credential of each user and each group, 0 for none       *)
(*   groups   the groups in the order of the file, [name, members]         *)
(*   default  the default credential, 0 for none                           *)
(***************************************************************************)
EXTENDS Naturals, Sequences, SequencesExt, FiniteSetsExt

CONSTANTS Users, Groups

Identities == Users \cup Groups

GroupNames(c) == {g.name : g \in ToSet(c.groups)}
Members(c, g) == UNION {h.members : h \in {i \in ToSet(c.groups) : i.name = g}}

Resolution(source, identity, cred) == [source |-> source, identity |-> identity, cred |-> cred]
NoResolution == Resolution("none", "none", 0)

\* Mutant: only the first group of the user is looked at
ResolveFirstGroup(c, u) ==
    LET mine == {i \in DOMAIN c.groups : u \in c.groups[i].members}
        group == c.groups[Min(mine)].name
    IN  IF c.creds[u] # 0 THEN Resolution("user", u, c.creds[u])
        ELSE IF mine # {} /\ c.creds[group] # 0 THEN Resolution("group", group, c.creds[group])
        ELSE IF c.default # 0 THEN Resolution("default", "default", c.default)
        ELSE NoResolution

\* resolveWithSource: the user's own, else that of the first group that has one, else the default
Resolve(c, u) ==
    LET able == {i \in DOMAIN c.groups : u \in c.groups[i].members /\ c.creds[c.groups[i].name] # 0}
        group == c.groups[Min(able)].name
    IN  IF c.creds[u] # 0 THEN Resolution("user", u, c.creds[u])
        ELSE IF able # {} THEN Resolution("group", group, c.creds[group])
        ELSE IF c.default # 0 THEN Resolution("default", "default", c.default)
        ELSE NoResolution

\* The source that GET /api/credentials/resolve reports, which it works out by itself
ReportedSource(c, u) ==
    IF Resolve(c, u) = NoResolution THEN "none"
    ELSE IF c.creds[u] # 0 THEN "user"
    ELSE IF \E g \in GroupNames(c) : u \in Members(c, g) /\ c.creds[g] # 0 THEN "group"
    ELSE "default"

\* userPoolKey encodes what it is given injectively; the bare service name is the key of everybody else.
\* What it is given is a user id for a caller, and "user:" or "group:" with a name for a credential: a user
\* whose id itself begins so would share a key, which is left out (server.ts 141-165).
BareKey == <<"bare", "bare">>
PoolKeys == {BareKey} \cup ({"user", "caller"} \X Users) \cup ({"group"} \X Groups)

\* resolveCredentialPool of a caller whose call is not refused. templated: the configuration of the
\* service has ${caller.} templates.
PoolKey(c, u, templated) ==
    LET r == Resolve(c, u) IN
    IF r.source \in {"user", "group"} THEN <<r.source, r.identity>>
    ELSE IF r.source = "none" /\ templated THEN <<"caller", u>>
    ELSE BareKey

\* The credential that a connection under key should have
KeyCredential(c, key) ==
    IF key[1] \in {"user", "group"} THEN c.creds[key[2]]
    ELSE IF key[1] = "bare" THEN c.default ELSE 0
===============================================================================
