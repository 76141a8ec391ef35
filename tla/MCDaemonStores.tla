--------------------------- MODULE MCDaemonStores ---------------------------
(***************************************************************************)
(* What a daemon stores, for TLC: the configurations of its services, the  *)
(* credentials, the schema cache, the skill files, the audit log, and the  *)
(* rules over them.                                                        *)
(*                                                                         *)
(* The parts share no variable.  A behaviour explores one, its focus,      *)
(* while the others rest in one initial state.                             *)
(***************************************************************************)
EXTENDS ConfigStore, CredentialStore, SchemaCache, SkillFiles, AuditLog, StoreRules

VARIABLE focus

storeVars == <<focus, configVars, credVars, cacheVars, skillVars, auditVars, storeCase>>

Resting(part) == focus # part

\* Bound: the credentials that a behaviour starts with
SmallCredConfig ==
    /\ Cardinality({i \in Identities : credConfig.creds[i] # 0}) <= 1
    /\ \A i \in DOMAIN credConfig.groups : credConfig.groups[i].members # {}

StoresInit ==
    /\ focus \in {"config", "credentials", "cache", "skills", "audit", "rules"}
    /\ ConfigInit /\ (Resting("config") => config = Empty /\ configFile = Empty)
    /\ CredInit /\ SmallCredConfig
    /\ Resting("credentials") =>
          credConfig = [creds |-> [i \in Identities |-> 0], groups |-> <<>>, default |-> 0] /\ ~credWatched
    /\ CacheInit /\ (Resting("cache") => cacheFile = cacheTmp)
    /\ SkillInit /\ (Resting("skills") => skillFile = NoFile)
    /\ AuditInit
    /\ StoreRulesInit /\ (Resting("rules") => storeCase.kind = "skill" /\ storeCase.before = {} /\ storeCase.now = {})

StoresNext ==
    /\ UNCHANGED <<focus, storeCase>>
    /\ \/ focus = "config" /\ ConfigNext /\ UNCHANGED <<credVars, cacheVars, skillVars, auditVars>>
       \/ focus = "credentials" /\ CredNext /\ UNCHANGED <<configVars, cacheVars, skillVars, auditVars>>
       \/ focus = "cache" /\ CacheNext /\ UNCHANGED <<configVars, credVars, skillVars, auditVars>>
       \/ focus = "skills" /\ SkillNext /\ UNCHANGED <<configVars, credVars, cacheVars, auditVars>>
       \/ focus = "audit" /\ AuditNext /\ UNCHANGED <<configVars, credVars, cacheVars, skillVars>>

StoresSpec == StoresInit /\ [][StoresNext]_storeVars
=============================================================================
