------------------------------ MODULE TokenStore ------------------------------
(***************************************************************************)
(* The bearer tokens of a daemon: tokens.json, the entries that            *)
(* TokenAuthProvider keeps of it, the map it authenticates against, token  *)
(* rotation, and the reload by the file watcher (daemon/auth-provider.ts,  *)
(* daemon/file-watch.ts, the login and refresh routes of daemon/server.ts).*)
(*                                                                         *)
(* An action is the code between two awaits.  An entry is an id and a      *)
(* token; tokens are numbered in the order they are issued, since 32       *)
(* random bytes do not repeat.  The clock is left out: a token that is     *)
(* found may be refused as expired, without expiry or not near expiry.     *)
(***************************************************************************)
EXTENDS Naturals, FiniteSets, Sequences

CONSTANTS TokenIds,   \* the ids of the entries
          Refreshes,  \* calls of refreshBearerToken
          MaxToken,   \* bound: tokens issued
          NoContent   \* a reader that has read nothing

VARIABLES tokenFile,    \* the set of entries in tokens.json
          entries,      \* this.entries, as a set
          tokenMap,     \* this.tokenMap
          issued,       \* the number of tokens in existence
          refreshQueue, \* the chain of withRefreshLock
          refresh,      \* each refresh: pc, token offered, content read or written
          tokenTimer,   \* the debounce timer runs
          tokenReader,  \* what the watcher's reload has read and not applied
          clobbered     \* history: refreshes whose entries a reload replaced before they were written

tokenVars == <<tokenFile, entries, tokenMap, issued, refreshQueue, refresh,
               tokenTimer, tokenReader, clobbered>>

Entry(i, t) == [id |-> i, token |-> t]
Tokens == 1..MaxToken
Contents == SUBSET [id : TokenIds, token : Tokens]

ASSUME NothingRead == \A f \in Contents : f # NoContent
ASSUME TokenBounds == IsFiniteSet(TokenIds) /\ MaxToken \in Nat

\* A refresh: where it is, the token offered, the content read or written
Refresh(pc, offered, content) == [pc |-> pc, offered |-> offered, content |-> content]

\* validateTokensConfig: ids and tokens are unique
ValidTokens(f) == \A e1, e2 \in f : e1 # e2 => e1.id # e2.id /\ e1.token # e2.token

Authenticates(t) == \E e \in tokenMap : e.token = t

TokenInit ==
    /\ tokenFile \in {f \in Contents : /\ ValidTokens(f)
                                     /\ {e.id : e \in f} = TokenIds
                                     /\ {e.token : e \in f} = 1..Cardinality(TokenIds)}
    /\ entries = tokenFile
    /\ tokenMap = tokenFile
    /\ issued = Cardinality(TokenIds)
    /\ refreshQueue = <<>>
    /\ refresh = [r \in Refreshes |-> Refresh("idle", 0, NoContent)]
    /\ tokenTimer = FALSE
    /\ tokenReader = NoContent
    /\ clobbered = {}

HoldsRefreshLock(r) == refreshQueue # <<>> /\ Head(refreshQueue) = r

\* Mutant: the lock is released on success only
EndRefreshIfOk(r, end) ==
    /\ refresh' = [refresh EXCEPT ![r] = Refresh(end, refresh[r].offered, NoContent)]
    /\ refreshQueue' = IF end = "ok" THEN Tail(refreshQueue) ELSE refreshQueue

\* The lock is released when the refresh ends, whichever way
EndRefresh(r, end) ==
    /\ refresh' = [refresh EXCEPT ![r] = Refresh(end, refresh[r].offered, NoContent)]
    /\ refreshQueue' = Tail(refreshQueue)

-------------------------------------------------------------------------------
\* POST /api/auth/refresh with a token that authenticates, or while no token is configured
AskRefresh(r, t) ==
    /\ refresh[r].pc = "idle"
    /\ Authenticates(t) \/ tokenMap = {}
    /\ refresh' = [refresh EXCEPT ![r] = Refresh("queued", t, NoContent)]
    /\ refreshQueue' = Append(refreshQueue, r)
    /\ UNCHANGED <<tokenFile, entries, tokenMap, issued, tokenTimer, tokenReader, clobbered>>

\* Mutant: no lock
ReadTokensUnlocked(r) ==
    /\ refresh[r].pc = "queued"
    /\ refresh' = [refresh EXCEPT ![r] = Refresh("read", refresh[r].offered, tokenFile)]
    /\ UNCHANGED <<tokenFile, entries, tokenMap, issued, refreshQueue, tokenTimer, tokenReader, clobbered>>

\* The lock is taken, the file is read
ReadTokens(r) ==
    /\ HoldsRefreshLock(r)
    /\ refresh[r].pc = "queued"
    /\ refresh' = [refresh EXCEPT ![r] = Refresh("read", refresh[r].offered, tokenFile)]
    /\ UNCHANGED <<tokenFile, entries, tokenMap, issued, refreshQueue, tokenTimer, tokenReader, clobbered>>

\* The content is applied, and the offered token refused: invalid file, unknown token, or its expiry
RefuseRefresh(r) ==
    LET f == refresh[r].content IN
    /\ refresh[r].pc = "read"
    /\ IF ValidTokens(f) THEN entries' = f /\ tokenMap' = f ELSE UNCHANGED <<entries, tokenMap>>
    /\ EndRefresh(r, "refused")
    /\ UNCHANGED <<tokenFile, issued, tokenTimer, tokenReader, clobbered>>

\* The content is applied, and the entry of the offered token gets a new token, in entries only
Rotate(r) ==
    LET f == refresh[r].content IN
    /\ refresh[r].pc = "read"
    /\ ValidTokens(f)
    /\ issued < MaxToken
    /\ \E e \in f :
          /\ e.token = refresh[r].offered
          /\ entries' = (f \ {e}) \cup {Entry(e.id, issued + 1)}
    /\ tokenMap' = f
    /\ issued' = issued + 1
    /\ refresh' = [refresh EXCEPT ![r] = Refresh("opening", refresh[r].offered, NoContent)]
    /\ UNCHANGED <<tokenFile, refreshQueue, tokenTimer, tokenReader, clobbered>>

\* persistTokens: the temporary file is open, the entries of this moment are written to it
WriteTokens(r) ==
    /\ refresh[r].pc = "opening"
    /\ refresh' = [refresh EXCEPT ![r] = Refresh("written", refresh[r].offered, entries)]
    /\ UNCHANGED <<tokenFile, entries, tokenMap, issued, refreshQueue, tokenTimer, tokenReader, clobbered>>

\* persistTokens throws: no rename, and the entries keep the new token
FailToPersist(r) ==
    /\ refresh[r].pc \in {"opening", "written"}
    /\ EndRefresh(r, "failed")
    /\ UNCHANGED <<tokenFile, entries, tokenMap, issued, tokenTimer, tokenReader, clobbered>>

RenameTokens(r) ==
    /\ refresh[r].pc = "written"
    /\ tokenFile' = refresh[r].content
    /\ tokenTimer' = TRUE
    /\ refresh' = [refresh EXCEPT ![r] = Refresh("renamed", refresh[r].offered, refresh[r].content)]
    /\ UNCHANGED <<entries, tokenMap, issued, refreshQueue, tokenReader, clobbered>>

\* rebuildMaps, and the answer
ReturnToken(r) ==
    /\ refresh[r].pc = "renamed"
    /\ tokenMap' = entries
    /\ EndRefresh(r, "ok")
    /\ UNCHANGED <<tokenFile, entries, issued, tokenTimer, tokenReader, clobbered>>

-------------------------------------------------------------------------------
\* An administrator adds an entry or removes one; nothing keeps an edit from being invalid
EditTokens ==
    /\ \/ \E e \in tokenFile : tokenFile' = tokenFile \ {e} /\ UNCHANGED issued
       \/ /\ issued < MaxToken
          /\ \E i \in TokenIds : tokenFile' = tokenFile \cup {Entry(i, issued + 1)}
          /\ issued' = issued + 1
    /\ tokenTimer' = TRUE
    /\ UNCHANGED <<entries, tokenMap, refreshQueue, refresh, tokenReader, clobbered>>

\* Mutant: the timer that fires during a reload starts none and is forgotten
TokenTimerSkips ==
    /\ tokenTimer
    /\ tokenTimer' = FALSE
    /\ tokenReader' = IF tokenReader = NoContent THEN tokenFile ELSE tokenReader
    /\ UNCHANGED <<tokenFile, entries, tokenMap, issued, refreshQueue, refresh, clobbered>>

\* The debounce timer fires 100 ms after the last change and the reload reads the file. A read takes
\* less: one that began before the change has been applied.
TokenTimerFires ==
    /\ tokenTimer
    /\ tokenReader = NoContent
    /\ \A r \in Refreshes : refresh[r].pc = "read" => refresh[r].content = tokenFile
    /\ tokenTimer' = FALSE
    /\ tokenReader' = tokenFile
    /\ UNCHANGED <<tokenFile, entries, tokenMap, issued, refreshQueue, refresh, clobbered>>

\* reloadFromDisk applies what it read, or throws and changes nothing
ReloadTokens ==
    /\ tokenReader # NoContent
    /\ tokenReader' = NoContent
    /\ IF ValidTokens(tokenReader)
       THEN /\ entries' = tokenReader
            /\ tokenMap' = tokenReader
            /\ clobbered' = clobbered \cup {r \in Refreshes : refresh[r].pc = "opening"}
       ELSE UNCHANGED <<entries, tokenMap, clobbered>>
    /\ UNCHANGED <<tokenFile, issued, refreshQueue, refresh, tokenTimer>>

RefreshStep(r) ==
    \/ ReadTokens(r) \/ RefuseRefresh(r) \/ Rotate(r) \/ WriteTokens(r)
    \/ FailToPersist(r) \/ RenameTokens(r) \/ ReturnToken(r)

TokenNext ==
    \/ \E r \in Refreshes : (\E t \in Tokens : AskRefresh(r, t)) \/ RefreshStep(r)
    \/ EditTokens \/ TokenTimerFires \/ ReloadTokens

\* A started refresh goes on, the timer fires and a read ends; nobody has to ask or to edit
TokenFairness ==
    /\ \A r \in Refreshes : WF_tokenVars(RefreshStep(r))
    /\ WF_tokenVars(TokenTimerFires) /\ WF_tokenVars(ReloadTokens)

TokenSpec == TokenInit /\ [][TokenNext]_tokenVars /\ TokenFairness
-------------------------------------------------------------------------------
Refreshing == {r \in Refreshes : refresh[r].pc \in {"read", "opening", "written", "renamed"}}
TokensSettled == ~tokenTimer /\ tokenReader = NoContent /\ Refreshing = {}

\* Once no change waits for its reload and no refresh is under way, the daemon accepts exactly the
\* tokens of the file, whatever edits, rotations and failed writes there were (auth-provider.ts 222,
\* 275; file-watch.ts 25).
AcceptsTheFile == TokensSettled /\ ValidTokens(tokenFile) => tokenMap = tokenFile

\* A token is exchanged for a new one at most once (auth-provider.ts 239, 274), as long as no reload
\* falls between a rotation and its write. Requests that offer the same token at the same time get
\* one answer with a token and refusals.
RotatedOnce ==
    clobbered = {} =>
        \A r1, r2 \in Refreshes :
            /\ refresh[r1].pc = "ok" /\ refresh[r2].pc = "ok"
            /\ refresh[r1].offered = refresh[r2].offered
            => r1 = r2

\* Every refresh that was asked for ends, also behind one whose write failed (auth-provider.ts 282).
RefreshesEnd ==
    \A r \in Refreshes : refresh[r].pc = "queued" ~> refresh[r].pc \in {"ok", "refused", "failed"}
===============================================================================
