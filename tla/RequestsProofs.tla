---------------------------- MODULE RequestsProofs ----------------------------
(***************************************************************************)
(* Where a request goes, how often its tool runs and which connection is   *)
(* kept, for any number of calls, attempts and connections; which tools a  *)
(* policy lists; and which tokens a daemon accepts and exchanges, for any  *)
(* number of entries, refreshes and tokens.                                *)
(***************************************************************************)
EXTENDS Requests, TokenStore, FiniteSetTheorems, TLAPS

(***************************************************************************)
(* The inductive invariant.                                                *)
(***************************************************************************)

CallRecords == [pc : {"idle", "waiting", "ended"}, target : Daemons \cup {"direct"},
                attempt : Attempts, heard : SUBSET {"auth"}]
Phases == {"idle", "connecting", "resolving", "calling", "closing", "done",
           "shaking hands", "falling back", "last try"}
Replies == {"none", "unauthorized", "forbidden", "connection", "timeout", "result"}
HandlerRecords == [pc : Phases, conn : 0..MaxConn, reply : Replies, ran : BOOLEAN]

TypeInv ==
    /\ route \in {"local", "remote", "remote-local"}
    /\ call \in [Calls -> CallRecords]
    /\ handler \in [Requests -> HandlerRecords]
    /\ pooledConn \in [Daemons -> 0..MaxConn]
    /\ connState \in [Daemons \cup {"direct"} -> [Conns -> {"none", "open", "broken", "closed"}]]

(* Whether call c has come to attempt n at daemon d.                       *)
Reached(c, d, n) ==
    /\ call[c].pc # "idle"
    /\ \/ d = "remote" /\ call[c].target = "remote" /\ n <= call[c].attempt
       \/ d = "remote" /\ call[c].target = "local" /\ route # "local"
       \/ d = "local" /\ call[c].target = "local" /\ n <= call[c].attempt

(* No request is used twice: what a call has not come to is idle.          *)
FreshInv ==
    \A c \in Calls :
        /\ call[c].pc = "idle" => call[c].attempt = 1 /\ call[c].target = "local"
        /\ call[c].target = "direct" => call[c].attempt = 1
        /\ call[c].target # "direct" => handler[<<c, "direct", 1>>] = IdleHandler
        /\ \A d \in Daemons, n \in Attempts : ~Reached(c, d, n) => handler[<<c, d, n>>] = IdleHandler

(* A call is sent on only where it may be served, unless it never was sent. *)
RouteInv ==
    /\ unhosted => route = "local"
    /\ \A c \in Calls :
        /\ route = "local" => call[c].target # "remote"
        /\ "auth" \in call[c].heard => call[c].pc = "ended" /\ call[c].target = "remote"
        /\ route # "local" /\ call[c].target = "local"
              => \/ route = "remote-local" /\ ~credentialed
                 \/ /\ call[c].pc \in {"idle", "ended"}
                    /\ \A d \in Daemons, n \in Attempts : handler[<<c, d, n>>] = IdleHandler

(* What is sent again was refused, and a refused request has run nothing.  *)
RefusedInv ==
    /\ \A q \in Asked : handler[q].reply = "unauthorized" => handler[q].pc = "done" /\ ~handler[q].ran
    /\ \A c \in Calls : route = "local" /\ call[c].target = "local" =>
          \A n \in Attempts : n < call[c].attempt =>
              handler[<<c, "local", n>>].pc = "done" /\ ~handler[<<c, "local", n>>].ran

(* A connection is made once, and one on which a call timed out is dropped. *)
Dropped(q) ==
    /\ handler[q].conn # 0 => connState[q[2]][handler[q].conn] # "none"
    /\ handler[q].pc \in {"resolving", "calling", "closing"} => handler[q].conn # 0
    /\ handler[q].pc = "closing" \/ handler[q].reply = "timeout"
          => handler[q].conn # 0 /\ handler[q].conn # pooledConn[q[2]]
    /\ handler[q].reply = "timeout" => handler[q].pc = "done"

DroppedInv ==
    /\ \A d \in Daemons : pooledConn[d] # 0 => connState[d][pooledConn[d]] # "none"
    /\ \A q \in Asked : Dropped(q)

IInv == TypeInv /\ FreshInv /\ RouteInv /\ RefusedInv /\ DroppedInv

(***************************************************************************)
(* What the steps may do, in the terms the invariant needs.                *)
(***************************************************************************)

(* Everything but a call and one of its handlers stays.                    *)
OthersStay ==
    UNCHANGED <<route, missing, unhosted, credentialed, pooledConn, connState>>

(* Call c ends, and may have heard that it is refused.                     *)
CallEnds(c) ==
    /\ handler' = handler
    /\ \/ call' = [call EXCEPT ![c].pc = "ended"]
       \/ /\ call[c].target = "remote"
          /\ call' = [call EXCEPT ![c].pc = "ended", ![c].heard = @ \cup {"auth"}]

(* Call c comes to a request that it has not sent before.                  *)
CallGoesOn(c, d, n) ==
    /\ Send(c, d, n)
    /\ d \in Daemons /\ n \in Attempts
    /\ call[c].pc # "ended"
    /\ \/ call[c].pc = "idle" /\ n = 1 /\ d = (IF route = "local" THEN "local" ELSE "remote")
       \/ /\ call[c].pc = "waiting" /\ call[c].target = "remote" /\ d = "remote"
          /\ n = call[c].attempt + 1
       \/ /\ call[c].pc = "waiting" /\ call[c].target = "remote" /\ d = "local" /\ n = 1
          /\ route = "remote-local" /\ ~credentialed
       \/ /\ call[c].pc = "waiting" /\ call[c].target = "local" /\ d = "local"
          /\ call[c].attempt = 1 /\ n = 2
          /\ handler[<<c, "local", 1>>].reply = "unauthorized"

CallStep(c) ==
    \/ CallConfigured(c) \/ CallMissing(c) \/ CallDirect(c) \/ CallInBatch(c) \/ ClientStep(c)

LEMMA CallSummary ==
    ASSUME NEW c \in Calls, CallStep(c), TypeInv
    PROVE  /\ OthersStay /\ call[c].pc # "ended"
           /\ \/ CallEnds(c)
              \/ \E d \in Daemons, n \in Attempts : CallGoesOn(c, d, n)
              \/ /\ call[c].pc = "idle"
                 /\ call' = [call EXCEPT ![c].pc = "waiting", ![c].target = "direct"]
                 /\ handler' = [handler EXCEPT ![<<c, "direct", 1>>].pc = "connecting"]
<1> DEFINE Goal == \/ CallEnds(c)
                   \/ \E d \in Daemons, n \in Attempts : CallGoesOn(c, d, n)
<1>0. /\ 1 \in Attempts /\ 2 \in Attempts
      /\ call[c] \in CallRecords
      /\ MaxAttempts \in Attempts
  BY RequestBounds DEF TypeInv, Attempts, MaxAttempts
<1>1. ASSUME call[c].pc = "idle", SendFirst(c)
      PROVE  Goal
  BY <1>0, <1>1 DEF SendFirst, CallGoesOn, Daemons
<1>2. ASSUME Ended(c)
      PROVE  Goal
  BY <1>2 DEF Ended, CallEnds
<1>3. ASSUME call[c].pc = "waiting", call[c].target = "remote", RemoteError(c)
      PROVE  Goal
  <2>1. CASE call[c].attempt < MaxAttempts /\ Send(c, "remote", call[c].attempt + 1)
    <3>1. call[c].attempt + 1 \in Attempts
      BY <1>0, <2>1, RequestBounds DEF Attempts, CallRecords
    <3> QED BY <1>3, <2>1, <3>1 DEF CallGoesOn, Daemons
  <2>2. CASE route = "remote-local" /\ ~credentialed /\ Send(c, "local", 1)
    BY <1>0, <1>3, <2>2 DEF CallGoesOn, Daemons
  <2>3. CASE Ended(c)
    BY <1>2, <2>3
  <2> QED BY <1>3, <2>1, <2>2, <2>3 DEF RemoteError
<1>10. call[c].pc # "ended"
  BY DEF CallStep, CallConfigured, CallMissing, CallDirect, CallInBatch, ClientStep,
         LoseRequest, ReceiveLocal, ReceiveRemote, ReceiveDirect
<1>4. CASE CallConfigured(c) \/ CallMissing(c) \/ CallInBatch(c)
  BY <1>1, <1>2, <1>4 DEF CallConfigured, CallMissing, CallInBatch, OthersStay
<1>5. CASE CallDirect(c)
  BY <1>2, <1>5 DEF CallDirect, OthersStay
<1>6. CASE LoseRequest(c)
  <2>1. call[c].target = "local" \/ call[c].target = "remote"
    BY <1>6 DEF LoseRequest, Daemons
  <2> QED BY <1>2, <1>3, <1>6, <2>1 DEF LoseRequest, OthersStay
<1>7. CASE ReceiveLocal(c)
  <2>1. CASE handler[Request(c)].reply = "unauthorized" /\ call[c].attempt = 1 /\ Send(c, "local", 2)
    <3>1. Request(c) = <<c, "local", 1>>
      BY <1>7, <2>1 DEF ReceiveLocal, Request
    <3>2. CallGoesOn(c, "local", 2)
      BY <1>0, <1>7, <2>1, <3>1 DEF ReceiveLocal, CallGoesOn, Daemons
    <3> QED BY <1>0, <1>7, <3>2 DEF ReceiveLocal, OthersStay, Daemons
  <2>2. CASE Ended(c)
    BY <1>2, <1>7, <2>2 DEF ReceiveLocal, OthersStay
  <2> QED BY <1>7, <2>1, <2>2 DEF ReceiveLocal
<1>8. CASE ReceiveRemote(c)
  <2>1. CASE call' = [call EXCEPT ![c].pc = "ended", ![c].heard = @ \cup {"auth"}] /\ UNCHANGED handler
    BY <1>8, <2>1 DEF ReceiveRemote, CallEnds, OthersStay
  <2>2. CASE RemoteError(c)
    BY <1>3, <1>8, <2>2 DEF ReceiveRemote, OthersStay
  <2>3. CASE Ended(c)
    BY <1>2, <1>8, <2>3 DEF ReceiveRemote, OthersStay
  <2> QED BY <1>8, <2>1, <2>2, <2>3 DEF ReceiveRemote
<1>9. CASE ReceiveDirect(c)
  BY <1>2, <1>9 DEF ReceiveDirect, OthersStay
<1> QED BY <1>10, <1>4, <1>5, <1>6, <1>7, <1>8, <1>9 DEF CallStep, ClientStep

(* A reply ends the handler, and only that of a timeout keeps a connection. *)
LEMMA ReplySummary ==
    ASSUME NEW q \in Requests, NEW reply \in Replies, TypeInv, Reply(q, reply)
    PROVE  /\ handler' \in [Requests -> HandlerRecords]
           /\ \A p \in Requests \ {q} : handler'[p] = handler[p]
           /\ handler'[q].pc = "done" /\ handler'[q].reply = reply
           /\ handler'[q].ran = handler[q].ran
           /\ handler'[q].conn = IF reply = "timeout" THEN handler[q].conn ELSE 0
<1> DEFINE r == [pc |-> "done", reply |-> reply, ran |-> handler[q].ran,
                 conn |-> IF reply = "timeout" THEN handler[q].conn ELSE 0]
<1>1. handler \in [Requests -> HandlerRecords] /\ handler' = [handler EXCEPT ![q] = r]
  BY DEF TypeInv, Reply
<1>2. handler[q] \in HandlerRecords
  BY <1>1
<1>3. handler[q].ran \in BOOLEAN /\ handler[q].conn \in 0..MaxConn
  BY <1>2 DEF HandlerRecords
<1>4. 0 \in 0..MaxConn
  BY RequestBounds
<1>5. r.conn \in 0..MaxConn
  BY <1>3, <1>4
<1>6. r \in HandlerRecords
  BY <1>3, <1>5 DEF HandlerRecords, Phases
<1> QED BY <1>1, <1>6

(* A handler goes on.                                                       *)
LEMMA MoveSummary ==
    ASSUME NEW q \in Requests, NEW pc \in Phases, TypeInv,
           handler' = [handler EXCEPT ![q].pc = pc]
    PROVE  /\ handler' \in [Requests -> HandlerRecords]
           /\ \A p \in Requests \ {q} : handler'[p] = handler[p]
           /\ handler'[q].pc = pc /\ handler'[q].reply = handler[q].reply
           /\ handler'[q].ran = handler[q].ran /\ handler'[q].conn = handler[q].conn
<1>1. handler \in [Requests -> HandlerRecords]
  BY DEF TypeInv
<1>2. handler[q] \in HandlerRecords /\ handler'[q] = [handler[q] EXCEPT !.pc = pc]
  BY <1>1
<1>3. handler'[q] \in HandlerRecords
  BY <1>2 DEF HandlerRecords
<1>4. /\ handler'[q].pc = pc /\ handler'[q].reply = handler[q].reply
      /\ handler'[q].conn = handler[q].conn
  BY <1>2 DEF HandlerRecords
<1>5. handler'[q].ran = handler[q].ran
  BY <1>2 DEF HandlerRecords
<1> QED BY <1>1, <1>2, <1>3, <1>4, <1>5

(* The same with another connection.                                        *)
LEMMA ConnectSummary ==
    ASSUME NEW q \in Requests, NEW pc \in Phases, NEW i \in 0..MaxConn, TypeInv,
           handler' = [handler EXCEPT ![q].pc = pc, ![q].conn = i]
    PROVE  /\ handler' \in [Requests -> HandlerRecords]
           /\ \A p \in Requests \ {q} : handler'[p] = handler[p]
           /\ handler'[q].pc = pc /\ handler'[q].reply = handler[q].reply
           /\ handler'[q].ran = handler[q].ran /\ handler'[q].conn = i
<1>1. handler \in [Requests -> HandlerRecords]
  BY DEF TypeInv
<1>2. handler[q] \in HandlerRecords
      /\ handler'[q] = [[handler[q] EXCEPT !.pc = pc] EXCEPT !.conn = i]
  BY <1>1
<1>3. handler'[q] \in HandlerRecords
  BY <1>2 DEF HandlerRecords
<1>4. /\ handler'[q].pc = pc /\ handler'[q].reply = handler[q].reply
      /\ handler'[q].conn = i
  BY <1>2 DEF HandlerRecords
<1>5. handler'[q].ran = handler[q].ran
  BY <1>2 DEF HandlerRecords
<1> QED BY <1>1, <1>2, <1>3, <1>4, <1>5

(* A request that arrives is idle, is let in or is refused at the door.    *)
LEMMA ArriveSummary ==
    ASSUME NEW q \in Requests, TypeInv, handler[q] = IdleHandler,
           Arrive(q) \/ UNCHANGED handler
    PROVE  /\ handler' \in [Requests -> HandlerRecords]
           /\ \A p \in Requests \ {q} : handler'[p] = handler[p]
           /\ handler'[q].conn = 0 /\ handler'[q].ran = FALSE
           /\ \/ handler'[q] = IdleHandler
              \/ handler'[q].pc = "done" /\ handler'[q].reply \in {"unauthorized", "forbidden"}
              \/ handler'[q].pc = "connecting" /\ handler'[q].reply = "none"
<1>1. handler \in [Requests -> HandlerRecords] /\ IdleHandler \in HandlerRecords
  BY RequestBounds DEF TypeInv, IdleHandler, HandlerRecords, Phases, Replies
<1>2. CASE UNCHANGED handler
  BY <1>1, <1>2 DEF IdleHandler
<1>3. CASE handler' = [handler EXCEPT ![q].pc = "connecting"]
  <2>1. "connecting" \in Phases
    BY DEF Phases
  <2>2. /\ handler' \in [Requests -> HandlerRecords]
        /\ \A p \in Requests \ {q} : handler'[p] = handler[p]
        /\ handler'[q].pc = "connecting" /\ handler'[q].reply = handler[q].reply
        /\ handler'[q].ran = handler[q].ran /\ handler'[q].conn = handler[q].conn
    BY <1>3, <2>1, MoveSummary
  <2> QED BY <2>2 DEF IdleHandler
<1>4. ASSUME NEW reply \in {"unauthorized", "forbidden"}, Reply(q, reply)
      PROVE  handler'[q].reply \in {"unauthorized", "forbidden"} /\ handler'[q].pc = "done"
  BY <1>4, ReplySummary DEF Replies
<1>5. CASE \E reply \in {"unauthorized", "forbidden"} : Reply(q, reply)
  BY <1>1, <1>4, <1>5, ReplySummary DEF IdleHandler, Replies
<1> QED BY <1>2, <1>3, <1>5 DEF Arrive

(* The same when the tool is called.                                       *)
LEMMA RunSummary ==
    ASSUME NEW q \in Requests, NEW ran \in BOOLEAN, TypeInv,
           handler' = [handler EXCEPT ![q].pc = "calling", ![q].ran = ran]
    PROVE  /\ handler' \in [Requests -> HandlerRecords]
           /\ \A p \in Requests \ {q} : handler'[p] = handler[p]
           /\ handler'[q].pc = "calling" /\ handler'[q].reply = handler[q].reply
           /\ handler'[q].conn = handler[q].conn
<1>1. handler \in [Requests -> HandlerRecords]
  BY DEF TypeInv
<1>2. handler[q] \in HandlerRecords
      /\ handler'[q] = [[handler[q] EXCEPT !.pc = "calling"] EXCEPT !.ran = ran]
  BY <1>1
<1>3. handler'[q] \in HandlerRecords
  <2>1. "calling" \in Phases
    BY DEF Phases
  <2>2. [handler[q] EXCEPT !.pc = "calling"] \in HandlerRecords
    BY <1>2, <2>1 DEF HandlerRecords
  <2>3. \A h \in HandlerRecords : [h EXCEPT !.ran = ran] \in HandlerRecords
    BY DEF HandlerRecords
  <2> QED BY <1>2, <2>2, <2>3
<1>4. /\ handler'[q].pc = "calling" /\ handler'[q].reply = handler[q].reply
      /\ handler'[q].conn = handler[q].conn
  BY <1>2 DEF HandlerRecords
<1> QED BY <1>1, <1>2, <1>3, <1>4

(* A call that ends keeps its target.                                      *)
LEMMA EndSummary ==
    ASSUME NEW c \in Calls, TypeInv, CallEnds(c)
    PROVE  /\ handler' = handler
           /\ call' \in [Calls -> CallRecords]
           /\ \A b \in Calls \ {c} : call'[b] = call[b]
           /\ call'[c].pc = "ended" /\ call'[c].target = call[c].target
           /\ call'[c].attempt = call[c].attempt
           /\ call'[c].heard = call[c].heard \/ call[c].target = "remote"
<1>1. call \in [Calls -> CallRecords] /\ call[c] \in CallRecords
  BY DEF TypeInv
<1>2. CASE call' = [call EXCEPT ![c].pc = "ended"]
  <2>1. call'[c] = [call[c] EXCEPT !.pc = "ended"]
    BY <1>1, <1>2
  <2>2. call'[c] \in CallRecords
    BY <1>1, <2>1 DEF CallRecords
  <2> QED BY <1>1, <1>2, <2>1, <2>2 DEF CallEnds, CallRecords
<1>3. CASE /\ call[c].target = "remote"
           /\ call' = [call EXCEPT ![c].pc = "ended", ![c].heard = @ \cup {"auth"}]
  <2>1. call'[c] = [[call[c] EXCEPT !.pc = "ended"] EXCEPT !.heard = call[c].heard \cup {"auth"}]
    BY <1>1, <1>3 DEF CallRecords
  <2>2. call[c].heard \cup {"auth"} \in SUBSET {"auth"}
    BY <1>1 DEF CallRecords
  <2>3. call'[c] \in CallRecords
    BY <1>1, <2>1, <2>2 DEF CallRecords
  <2> QED BY <1>1, <1>3, <2>1, <2>3 DEF CallEnds, CallRecords
<1> QED BY <1>2, <1>3 DEF CallEnds

(* A call that goes on waits for the request it has come to.               *)
LEMMA SendSummary ==
    ASSUME NEW c \in Calls, NEW d \in Daemons, NEW n \in Attempts, TypeInv, Send(c, d, n)
    PROVE  /\ call' \in [Calls -> CallRecords]
           /\ \A b \in Calls \ {c} : call'[b] = call[b]
           /\ call'[c].pc = "waiting" /\ call'[c].target = d /\ call'[c].attempt = n
           /\ call'[c].heard = call[c].heard
<1>1. call \in [Calls -> CallRecords] /\ call[c] \in CallRecords
  BY DEF TypeInv
<1>2. call'[c] = [[[call[c] EXCEPT !.pc = "waiting"] EXCEPT !.target = d] EXCEPT !.attempt = n]
  BY <1>1 DEF Send
<1>3. call'[c] \in CallRecords
  BY <1>1, <1>2 DEF CallRecords
<1> QED BY <1>1, <1>2, <1>3 DEF Send, CallRecords

(* What a handler's step leaves of the handlers: one that has begun and not *)
(* ended goes on, and a reply that it gives is not 401.                     *)
HandlerGoesOn(q) ==
    /\ handler' \in [Requests -> HandlerRecords]
    /\ \A p \in Requests \ {q} : handler'[p] = handler[p]
    /\ handler[q].pc \notin {"idle", "done"}
    /\ handler'[q].reply \in {handler[q].reply, "forbidden", "connection", "result", "timeout"}

LEMMA HandlerSummary ==
    ASSUME NEW q \in Asked, HandlerStep(q) \/ AnswerCall(q), TypeInv, DroppedInv
    PROVE  /\ UNCHANGED <<route, missing, unhosted, credentialed, call>>
           /\ HandlerGoesOn(q)
<1> DEFINE Phase4 == handler[q].pc \in {"connecting", "resolving", "calling", "closing"}
<1>0. q \in Requests /\ handler[q] \in HandlerRecords /\ q[2] \in Daemons
  BY DEF Requests, Asked, TypeInv
<1>1. \A phase \in {"resolving", "calling", "closing"} : phase \in Phases
  BY DEF Phases
<1>2. \A reply \in {"forbidden", "connection", "result", "timeout"} :
         Phase4 /\ Reply(q, reply) => HandlerGoesOn(q)
  <2> SUFFICES ASSUME NEW reply \in {"forbidden", "connection", "result", "timeout"},
                      Phase4, Reply(q, reply)
               PROVE  HandlerGoesOn(q)
    OBVIOUS
  <2>1. reply \in Replies
    BY DEF Replies
  <2>2. /\ handler' \in [Requests -> HandlerRecords]
        /\ \A p \in Requests \ {q} : handler'[p] = handler[p]
        /\ handler'[q].reply = reply
    BY <1>0, <2>1, ReplySummary
  <2> QED BY <2>2 DEF HandlerGoesOn
<1>3. CASE Connect(q)
  <2>0. UNCHANGED <<route, missing, unhosted, credentialed, call>> /\ Phase4
    BY <1>3 DEF Connect
  <2>1. ASSUME NEW i \in 0..MaxConn,
               handler' = [handler EXCEPT ![q].pc = "resolving", ![q].conn = i]
        PROVE  HandlerGoesOn(q)
    <3>1. /\ handler' \in [Requests -> HandlerRecords]
          /\ \A p \in Requests \ {q} : handler'[p] = handler[p]
          /\ handler'[q].reply = handler[q].reply
      BY <1>0, <1>1, <2>1, ConnectSummary
    <3> QED BY <2>0, <3>1 DEF HandlerGoesOn
  <2>2. pooledConn[q[2]] \in 0..MaxConn /\ \A i \in Conns : i \in 0..MaxConn
    BY <1>0, RequestBounds DEF TypeInv, Conns
  <2>3. \/ handler' = [handler EXCEPT ![q].pc = "resolving", ![q].conn = pooledConn[q[2]]]
        \/ \E i \in Conns : handler' = [handler EXCEPT ![q].pc = "resolving", ![q].conn = i]
        \/ \E reply \in {"connection", "result"} : Reply(q, reply)
    BY <1>3 DEF Connect
  <2> QED BY <1>2, <2>0, <2>1, <2>2, <2>3
<1>4. CASE CallTool(q)
  <2>0. UNCHANGED <<route, missing, unhosted, credentialed, call>> /\ Phase4
    BY <1>4 DEF CallTool
  <2>1. CASE Reply(q, "forbidden")
    BY <1>2, <2>0, <2>1
  <2>2. ASSUME NEW ran \in BOOLEAN,
               handler' = [handler EXCEPT ![q].pc = "calling", ![q].ran = ran]
        PROVE  HandlerGoesOn(q)
    <3>1. /\ handler' \in [Requests -> HandlerRecords]
          /\ \A p \in Requests \ {q} : handler'[p] = handler[p]
          /\ handler'[q].reply = handler[q].reply
      BY <1>0, <2>2, RunSummary
    <3> QED BY <2>0, <3>1 DEF HandlerGoesOn
  <2>3. MayRun(connState[q[2]][handler[q].conn]) \subseteq BOOLEAN
    BY DEF MayRun
  <2> QED BY <1>4, <2>0, <2>1, <2>2, <2>3 DEF CallTool
<1>5. CASE AnswerCall(q)
  BY <1>2, <1>5 DEF AnswerCall
<1>6. CASE TimeOut(q)
  <2>1. /\ handler' \in [Requests -> HandlerRecords]
        /\ \A p \in Requests \ {q} : handler'[p] = handler[p]
        /\ handler'[q].reply = handler[q].reply
    BY <1>0, <1>1, <1>6, MoveSummary DEF TimeOut
  <2> QED BY <1>6, <2>1 DEF TimeOut, HandlerGoesOn
<1>7. CASE ReplyTimeout(q)
  BY <1>2, <1>7 DEF ReplyTimeout
<1> QED BY <1>3, <1>4, <1>5, <1>6, <1>7 DEF HandlerStep

(* A process's own connection is none of a daemon's.                       *)
LEMMA DirectSummary ==
    ASSUME NEW q \in Direct, DirectStep(q), TypeInv
    PROVE  /\ UNCHANGED <<route, missing, unhosted, credentialed, call, pooledConn>>
           /\ HandlerGoesOn(q)
           /\ \A d \in Daemons : connState'[d] = connState[d]
           /\ connState' \in [Daemons \cup {"direct"} ->
                                [Conns -> {"none", "open", "broken", "closed"}]]
<1>0. q \in Requests /\ handler[q] \in HandlerRecords
  BY DEF Requests, TypeInv
<1>1. \A phase \in {"shaking hands", "last try", "resolving", "falling back", "calling", "closing"} :
         phase \in Phases
  BY DEF Phases
<1>2. \A reply \in {"connection", "result"} :
         handler[q].pc \notin {"idle", "done"} /\ Reply(q, reply) => HandlerGoesOn(q)
  <2> SUFFICES ASSUME NEW reply \in {"connection", "result"},
                      handler[q].pc \notin {"idle", "done"}, Reply(q, reply)
               PROVE  HandlerGoesOn(q)
    OBVIOUS
  <2>1. reply \in Replies
    BY DEF Replies
  <2>2. /\ handler' \in [Requests -> HandlerRecords]
        /\ \A p \in Requests \ {q} : handler'[p] = handler[p]
        /\ handler'[q].reply = reply
    BY <1>0, <2>1, ReplySummary
  <2> QED BY <2>2 DEF HandlerGoesOn
<1>3. ASSUME handler[q].pc \notin {"idle", "done"}, NEW phase \in Phases,
             handler' = [handler EXCEPT ![q].pc = phase]
      PROVE  HandlerGoesOn(q)
  <2>1. /\ handler' \in [Requests -> HandlerRecords]
        /\ \A p \in Requests \ {q} : handler'[p] = handler[p]
        /\ handler'[q].reply = handler[q].reply
    BY <1>0, <1>3, MoveSummary
  <2> QED BY <1>3, <2>1 DEF HandlerGoesOn
<1>4. ASSUME NEW i, NEW s \in {"open", "closed"},
             connState' = [connState EXCEPT !["direct"][i] = s]
      PROVE  /\ \A d \in Daemons : connState'[d] = connState[d]
             /\ connState' \in [Daemons \cup {"direct"} ->
                                  [Conns -> {"none", "open", "broken", "closed"}]]
  <2>1. connState["direct"] \in [Conns -> {"none", "open", "broken", "closed"}]
    BY DEF TypeInv
  <2>2. [connState["direct"] EXCEPT ![i] = s] \in [Conns -> {"none", "open", "broken", "closed"}]
    BY <2>1
  <2> QED BY <1>4, <2>2 DEF TypeInv, Daemons
<1>5. CASE ShakeHands(q)
  BY <1>1, <1>3, <1>5 DEF ShakeHands, TypeInv
<1>6. CASE \E timedOut \in BOOLEAN : FailHttp(q, timedOut)
  BY <1>1, <1>2, <1>3, <1>6 DEF FailHttp, TypeInv
<1>7. CASE RunDirect(q)
  <2>1. ASSUME NEW ran \in BOOLEAN, handler[q].pc \notin {"idle", "done"},
               handler' = [handler EXCEPT ![q].pc = "calling", ![q].ran = ran]
        PROVE  HandlerGoesOn(q)
    <3>1. /\ handler' \in [Requests -> HandlerRecords]
          /\ \A p \in Requests \ {q} : handler'[p] = handler[p]
          /\ handler'[q].reply = handler[q].reply
      BY <1>0, <2>1, RunSummary
    <3> QED BY <2>1, <3>1 DEF HandlerGoesOn
  <2>2. MayRun(connState["direct"][handler[q].conn]) \subseteq BOOLEAN
    BY DEF MayRun
  <2>3. handler[q].pc \notin {"idle", "done"}
    BY <1>7 DEF RunDirect
  <2>4. HandlerGoesOn(q)
    BY <1>1, <1>3, <1>7, <2>1, <2>2, <2>3 DEF RunDirect
  <2> QED BY <1>7, <2>4 DEF RunDirect, TypeInv
<1>8. CASE EndDirect(q)
  BY <1>1, <1>3, <1>8 DEF EndDirect, TypeInv
<1>9. CASE OpenTransport(q)
  <2>1. PICK i \in Conns :
          /\ connState' = [connState EXCEPT !["direct"][i] = "open"]
          /\ handler' = [handler EXCEPT
                ![q].pc = IF @ = "connecting" THEN "shaking hands" ELSE "last try", ![q].conn = i]
    BY <1>9 DEF OpenTransport
  <2>2. i \in 0..MaxConn
    BY RequestBounds DEF Conns
  <2>3. (IF handler[q].pc = "connecting" THEN "shaking hands" ELSE "last try") \in Phases
    BY <1>1
  <2>4. /\ handler' \in [Requests -> HandlerRecords]
        /\ \A p \in Requests \ {q} : handler'[p] = handler[p]
        /\ handler'[q].reply = handler[q].reply
    BY <1>0, <2>1, <2>2, <2>3, ConnectSummary
  <2> QED BY <1>4, <1>9, <2>1, <2>4 DEF OpenTransport, HandlerGoesOn
<1>10. ASSUME FailStdio(q) \/ CloseDirect(q)
       PROVE  /\ \A d \in Daemons : connState'[d] = connState[d]
              /\ connState' \in [Daemons \cup {"direct"} ->
                                   [Conns -> {"none", "open", "broken", "closed"}]]
  BY <1>4, <1>10 DEF FailStdio, CloseDirect
<1>11. CASE FailStdio(q)
  BY <1>2, <1>10, <1>11 DEF FailStdio
<1>12. CASE CloseDirect(q)
  BY <1>2, <1>10, <1>12 DEF CloseDirect
<1> QED BY <1>5, <1>6, <1>7, <1>8, <1>9, <1>11, <1>12 DEF DirectStep

(***************************************************************************)
(* The steps keep the invariant.                                           *)
(***************************************************************************)

LEMMA InitInv == RequestInit => IInv
<1> SUFFICES ASSUME RequestInit PROVE IInv
  OBVIOUS
<1>1. route \in {"local", "remote", "remote-local"} /\ (unhosted => route = "local")
  BY DEF RequestInit, ServiceEntries, RouteOf
<1>2. /\ 0 \in 0..MaxConn /\ 1 \in Attempts
      /\ IdleHandler \in HandlerRecords
  BY RequestBounds DEF IdleHandler, HandlerRecords, Phases, Replies, Attempts
<1>3. \A c \in Calls : call[c] = [pc |-> "idle", target |-> "local", attempt |-> 1, heard |-> {}]
  BY DEF RequestInit
<1>4. \A q \in Requests : handler[q] = IdleHandler
  BY DEF RequestInit
<1>5. \A c \in Calls, d \in Daemons, n \in Attempts : <<c, d, n>> \in Requests
  BY DEF Requests, Asked
<1>6. \A c \in Calls : <<c, "direct", 1>> \in Requests
  BY DEF Requests, Direct
<1>7. TypeInv
  <2>1. call \in [Calls -> CallRecords]
    <3>1. [pc |-> "idle", target |-> "local", attempt |-> 1, heard |-> {}] \in CallRecords
      BY <1>2 DEF CallRecords, Daemons
    <3> QED BY <3>1 DEF RequestInit
  <2> QED BY <1>1, <1>2, <2>1 DEF TypeInv, RequestInit
<1>8. FreshInv
  <2>1. \A c \in Calls, d \in Daemons, n \in Attempts : handler[<<c, d, n>>] = IdleHandler
    BY <1>4, <1>5
  <2>2. \A c \in Calls : handler[<<c, "direct", 1>>] = IdleHandler
    BY <1>4, <1>6
  <2>3. \A c \in Calls : call[c].target = "local" /\ call[c].attempt = 1
    BY <1>3
  <2> QED BY <2>1, <2>2, <2>3 DEF FreshInv
<1>9. RouteInv
  BY <1>1, <1>3, <1>4, <1>5 DEF RouteInv
<1>10. RefusedInv
  BY <1>3, <1>4 DEF RefusedInv, IdleHandler, Requests, Attempts
<1>11. DroppedInv
  BY <1>4 DEF DroppedInv, Dropped, RequestInit, IdleHandler, Requests
<1> QED BY <1>7, <1>8, <1>9, <1>10, <1>11 DEF IInv

(* Only handlers that have begun and not ended change.                     *)
LEMMA GoesOnKeeps ==
    ASSUME IInv, NEW q \in Requests, HandlerGoesOn(q),
           UNCHANGED <<route, missing, unhosted, credentialed, call>>
    PROVE  FreshInv' /\ RouteInv' /\ RefusedInv'
<1>1. \A p \in Requests : handler[p].pc \in {"idle", "done"} => handler'[p] = handler[p]
  BY DEF HandlerGoesOn
<1>2. \A p \in Requests : handler[p] = IdleHandler => handler'[p] = IdleHandler
  BY <1>1 DEF IdleHandler
<1>3. \A c \in Calls, d \in Daemons, n \in Attempts : <<c, d, n>> \in Requests
  BY DEF Requests, Asked
<1>4. \A c \in Calls : <<c, "direct", 1>> \in Requests
  BY DEF Requests, Direct
<1>5. FreshInv'
  BY <1>2, <1>3, <1>4 DEF IInv, FreshInv, Reached
<1>6. RouteInv'
  BY <1>2, <1>3 DEF IInv, RouteInv
<1>7. RefusedInv'
  <2>1. \A p \in Asked : handler'[p].reply = "unauthorized" => handler'[p] = handler[p]
    BY <1>1 DEF IInv, RefusedInv, HandlerGoesOn, Requests
  <2>2. \A p \in Asked :
          handler'[p].reply = "unauthorized" => handler'[p].pc = "done" /\ ~handler'[p].ran
    BY <2>1 DEF IInv, RefusedInv
  <2>3. \A c \in Calls, n \in Attempts :
          handler[<<c, "local", n>>].pc = "done" => handler'[<<c, "local", n>>] = handler[<<c, "local", n>>]
    BY <1>1, <1>3 DEF Daemons
  <2> QED BY <2>2, <2>3 DEF IInv, RefusedInv
<1> QED BY <1>5, <1>6, <1>7

(* What a step leaves alone stays dropped, if no connection is unmade and   *)
(* only a new one is pooled.                                                *)
LEMMA StaysDropped ==
    ASSUME IInv, NEW p \in Asked, handler'[p] = handler[p],
           \A d \in Daemons, i \in Conns : connState[d][i] # "none" => connState'[d][i] # "none",
           \A d \in Daemons : \/ pooledConn'[d] \in {pooledConn[d], 0}
                               \/ connState[d][pooledConn'[d]] = "none"
    PROVE  Dropped(p)'
<1>1. p[2] \in Daemons /\ handler[p].conn \in 0..MaxConn
  BY DEF IInv, TypeInv, Asked, Requests, HandlerRecords
<1>2. handler[p].conn # 0 => handler[p].conn \in Conns
  BY <1>1, RequestBounds DEF Conns
<1>3. Dropped(p)
  BY DEF IInv, DroppedInv
<1> QED BY <1>1, <1>2, <1>3 DEF Dropped

(* A handler of a daemon keeps the connections' records true.              *)
LEMMA HandlerKeepsConns ==
    ASSUME IInv, NEW q \in Asked, HandlerStep(q) \/ AnswerCall(q)
    PROVE  /\ pooledConn' \in [Daemons -> 0..MaxConn]
           /\ connState' \in [Daemons \cup {"direct"} ->
                                [Conns -> {"none", "open", "broken", "closed"}]]
           /\ DroppedInv'
<1>0. /\ q \in Requests /\ q[2] \in Daemons /\ handler[q] \in HandlerRecords
      /\ TypeInv /\ DroppedInv /\ Dropped(q)
      /\ handler[q].pc \notin {"idle", "done"}
      /\ \A p \in Asked \ {q} : handler'[p] = handler[p]
  BY HandlerSummary DEF Requests, Asked, IInv, TypeInv, HandlerGoesOn, DroppedInv
<1>1. handler[q].reply # "timeout"
  BY <1>0 DEF Dropped
<1>2. ASSUME UNCHANGED <<pooledConn, connState>>, Dropped(q)'
      PROVE  /\ pooledConn' \in [Daemons -> 0..MaxConn]
             /\ connState' \in [Daemons \cup {"direct"} ->
                                  [Conns -> {"none", "open", "broken", "closed"}]]
             /\ DroppedInv'
  BY <1>0, <1>2, StaysDropped DEF TypeInv, DroppedInv
<1>3. ASSUME NEW reply \in {"forbidden", "connection", "result"}, Reply(q, reply)
      PROVE  Dropped(q)'
  <2>1. reply \in Replies
    BY DEF Replies
  <2>2. handler'[q].pc = "done" /\ handler'[q].reply = reply /\ handler'[q].conn = 0
    BY <1>0, <1>3, <2>1, ReplySummary
  <2> QED BY <2>2 DEF Dropped
<1>4. CASE CallTool(q)
  <2>1. CASE Reply(q, "forbidden")
    BY <1>2, <1>3, <1>4, <2>1 DEF CallTool
  <2>2. ASSUME NEW ran \in BOOLEAN,
               handler' = [handler EXCEPT ![q].pc = "calling", ![q].ran = ran]
        PROVE  Dropped(q)'
    <3>1. /\ handler'[q].pc = "calling" /\ handler'[q].reply = handler[q].reply
          /\ handler'[q].conn = handler[q].conn
      BY <1>0, <2>2, RunSummary
    <3>2. handler[q].pc = "resolving" /\ UNCHANGED <<pooledConn, connState>>
      BY <1>4 DEF CallTool
    <3> QED BY <1>0, <1>1, <3>1, <3>2 DEF Dropped
  <2>3. MayRun(connState[q[2]][handler[q].conn]) \subseteq BOOLEAN
    BY DEF MayRun
  <2>4. CASE \E ran \in BOOLEAN :
               handler' = [handler EXCEPT ![q].pc = "calling", ![q].ran = ran]
    BY <1>2, <1>4, <2>2, <2>4 DEF CallTool
  <2> QED BY <1>4, <2>1, <2>3, <2>4 DEF CallTool
<1>5. CASE AnswerCall(q)
  BY <1>2, <1>3, <1>5 DEF AnswerCall
<1>6. CASE ReplyTimeout(q)
  <2>1. "timeout" \in Replies
    BY DEF Replies
  <2>2. /\ handler'[q].pc = "done" /\ handler'[q].reply = "timeout"
        /\ handler'[q].conn = handler[q].conn
    BY <1>0, <1>6, <2>1, ReplySummary DEF ReplyTimeout
  <2>3. Dropped(q)'
    BY <1>0, <1>6, <2>2 DEF ReplyTimeout, Dropped
  <2> QED BY <1>2, <1>6, <2>3 DEF ReplyTimeout
<1>7. CASE TimeOut(q)
  <2>1. "closing" \in Phases
    BY DEF Phases
  <2>2. /\ handler'[q].pc = "closing" /\ handler'[q].reply = handler[q].reply
        /\ handler'[q].conn = handler[q].conn
    BY <1>0, <1>7, <2>1, MoveSummary DEF TimeOut
  <2>3. pooledConn' \in [Daemons -> 0..MaxConn]
    BY <1>7, RequestBounds, <1>0 DEF TimeOut, TypeInv
  <2>4. connState' \in [Daemons \cup {"direct"} ->
                         [Conns -> {"none", "open", "broken", "closed"}]]
    BY <1>0, <1>7 DEF TimeOut, TypeInv
  <2>5. \A d \in Daemons, i \in Conns : connState[d][i] # "none" => connState'[d][i] # "none"
    BY <1>0, <1>7 DEF TimeOut, TypeInv
  <2>6. \A d \in Daemons : pooledConn'[d] \in {pooledConn[d], 0}
    BY <1>0, <1>7 DEF TimeOut, TypeInv
  <2>7. \A p \in Asked \ {q} : Dropped(p)'
    BY <1>0, <2>5, <2>6, StaysDropped
  <2>8. handler[q].conn \in Conns /\ pooledConn'[q[2]] = 0
    BY <1>0, <1>7, RequestBounds DEF TimeOut, TypeInv, Dropped, Conns, HandlerRecords
  <2>9. Dropped(q)'
    BY <1>0, <1>1, <2>2, <2>5, <2>8, RequestBounds DEF Dropped, Conns
  <2>10. \A d \in Daemons : pooledConn'[d] # 0 => connState'[d][pooledConn'[d]] # "none"
    BY <1>0, <2>3, <2>5, <2>6, RequestBounds DEF DroppedInv, Conns
  <2> QED BY <2>3, <2>4, <2>7, <2>9, <2>10 DEF DroppedInv
<1>10. ASSUME NEW i \in 0..MaxConn,
             handler' = [handler EXCEPT ![q].pc = "resolving", ![q].conn = i]
      PROVE  /\ handler'[q].pc = "resolving" /\ handler'[q].reply = handler[q].reply
             /\ handler'[q].conn = i
  <2>1. "resolving" \in Phases
    BY DEF Phases
  <2>2. TypeInv /\ q \in Requests
    BY <1>0
  <2>3. handler'[q].pc = "resolving" /\ handler'[q].reply = handler[q].reply
    BY <1>10, <2>1, <2>2, ConnectSummary
  <2>4. handler'[q] = [[handler[q] EXCEPT !.pc = "resolving"] EXCEPT !.conn = i]
    BY <1>10, <2>2 DEF TypeInv
  <2>5. handler'[q].conn = i
    BY <1>0, <2>4 DEF HandlerRecords
  <2> QED BY <2>3, <2>5
<1>8. CASE Connect(q)
  <2> DEFINE d == q[2]
  <2>0. "resolving" \in Phases /\ (\A i \in Conns : i \in 0..MaxConn /\ i # 0)
    BY RequestBounds DEF Phases, Conns
  <2>1. CASE \E reply \in {"connection", "result"} :
               Reply(q, reply) /\ UNCHANGED <<pooledConn, connState>>
    BY <1>2, <1>3, <2>1
  <2>2. CASE /\ pooledConn[d] # 0
             /\ handler' = [handler EXCEPT ![q].pc = "resolving", ![q].conn = pooledConn[d]]
             /\ UNCHANGED <<pooledConn, connState>>
    <3>1. pooledConn[d] \in 0..MaxConn
      BY <1>0 DEF TypeInv
    <3>2. /\ handler'[q].pc = "resolving" /\ handler'[q].reply = handler[q].reply
          /\ handler'[q].conn = pooledConn[d]
      BY <1>10, <2>2, <3>1
    <3>3. Dropped(q)'
      BY <1>0, <1>1, <2>2, <3>2 DEF Dropped, DroppedInv
    <3> QED BY <1>2, <2>2, <3>3
  <2>3. ASSUME NEW i \in Conns,
               connState[d][i] = "none",
               handler' = [handler EXCEPT ![q].pc = "resolving", ![q].conn = i],
               connState' = [connState EXCEPT ![d] =
                  [j \in Conns |-> IF j = i THEN "open" ELSE IF j = pooledConn[d] THEN "closed" ELSE @[j]]],
               pooledConn' = [pooledConn EXCEPT ![d] = i]
        PROVE  /\ pooledConn' \in [Daemons -> 0..MaxConn]
               /\ connState' \in [Daemons \cup {"direct"} ->
                                    [Conns -> {"none", "open", "broken", "closed"}]]
               /\ DroppedInv'
    <3>1. pooledConn' \in [Daemons -> 0..MaxConn]
      BY <1>0, <2>0, <2>3 DEF TypeInv
    <3>2. connState' \in [Daemons \cup {"direct"} ->
                           [Conns -> {"none", "open", "broken", "closed"}]]
      BY <1>0, <2>3 DEF TypeInv
    <3>3. \A e \in Daemons, j \in Conns : connState[e][j] # "none" => connState'[e][j] # "none"
      BY <1>0, <2>3 DEF TypeInv
    <3>4. \A e \in Daemons : \/ pooledConn'[e] \in {pooledConn[e], 0}
                              \/ connState[e][pooledConn'[e]] = "none"
      BY <1>0, <2>3 DEF TypeInv
    <3>5. \A p \in Asked \ {q} : Dropped(p)'
      BY <1>0, <3>3, <3>4, StaysDropped
    <3>6. connState'[d][i] = "open" /\ pooledConn'[d] = i
      BY <1>0, <2>3 DEF TypeInv
    <3>7. /\ handler'[q].pc = "resolving" /\ handler'[q].reply = handler[q].reply
          /\ handler'[q].conn = i
      BY <1>10, <2>0, <2>3
    <3>8. Dropped(q)'
      BY <1>1, <3>6, <3>7, <2>0 DEF Dropped
    <3>9. \A e \in Daemons \ {d} : pooledConn'[e] = pooledConn[e] /\ connState'[e] = connState[e]
      BY <1>0, <2>3 DEF TypeInv
    <3>10. \A e \in Daemons : pooledConn'[e] # 0 => connState'[e][pooledConn'[e]] # "none"
      BY <1>0, <3>6, <3>9 DEF DroppedInv
    <3> QED BY <3>1, <3>2, <3>5, <3>8, <3>10 DEF DroppedInv
  <2>4. CASE \E i \in Conns :
               /\ connState[d][i] = "none"
               /\ handler' = [handler EXCEPT ![q].pc = "resolving", ![q].conn = i]
               /\ connState' = [connState EXCEPT ![d] =
                    [j \in Conns |-> IF j = i THEN "open" ELSE IF j = pooledConn[d] THEN "closed" ELSE @[j]]]
               /\ pooledConn' = [pooledConn EXCEPT ![d] = i]
    BY <2>3, <2>4
  <2> QED BY <1>8, <2>1, <2>2, <2>4 DEF Connect
<1> QED BY <1>4, <1>5, <1>6, <1>7, <1>8 DEF HandlerStep

(* A call that ends, or goes on with a request of its own.                 *)
LEMMA CallKeeps ==
    ASSUME IInv, NEW c \in Calls, CallStep(c)
    PROVE  IInv'
<1>0. /\ TypeInv /\ FreshInv /\ RouteInv /\ RefusedInv /\ DroppedInv
      /\ OthersStay /\ call[c].pc # "ended"
      /\ call[c] \in CallRecords
  BY CallSummary DEF IInv, TypeInv
<1>1. \A b \in Calls, d \in Daemons, n \in Attempts : <<b, d, n>> \in Requests /\ <<b, d, n>> \in Asked
  BY DEF Requests, Asked
<1>2. \A b \in Calls : <<b, "direct", 1>> \in Requests \ Asked
  BY DEF Requests, Direct, Asked, Daemons
<1>3. CASE CallEnds(c)
  <2>1. /\ handler' = handler
        /\ call' \in [Calls -> CallRecords]
        /\ \A b \in Calls \ {c} : call'[b] = call[b]
        /\ call'[c].pc = "ended" /\ call'[c].target = call[c].target
        /\ call'[c].attempt = call[c].attempt
        /\ call'[c].heard = call[c].heard \/ call[c].target = "remote"
    BY <1>0, <1>3, EndSummary
  <2>2. TypeInv'
    BY <1>0, <2>1 DEF TypeInv, OthersStay
  <2>3. FreshInv'
    <3>1. \A b \in Calls, d \in Daemons, n \in Attempts : Reached(b, d, n) => Reached(b, d, n)'
      BY <1>0, <2>1 DEF Reached, OthersStay
    <3>2. ASSUME NEW b \in Calls
          PROVE  /\ call'[b].target = call[b].target /\ call'[b].attempt = call[b].attempt
                 /\ call'[b].pc = "idle" => call[b].pc = "idle"
      BY <2>1
    <3> QED BY <1>0, <2>1, <3>1, <3>2 DEF FreshInv
  <2>4. RouteInv'
    BY <1>0, <2>1 DEF RouteInv, OthersStay
  <2>5. RefusedInv'
    BY <1>0, <2>1 DEF RefusedInv, OthersStay
  <2>6. DroppedInv'
    BY <1>0, <2>1 DEF DroppedInv, Dropped, OthersStay
  <2> QED BY <2>2, <2>3, <2>4, <2>5, <2>6 DEF IInv
<1>4. ASSUME NEW d \in Daemons, NEW n \in Attempts, CallGoesOn(c, d, n)
      PROVE  IInv'
  <2> DEFINE q == <<c, d, n>>
  <2>0. q \in Requests /\ q \in Asked /\ Send(c, d, n)
    BY <1>1, <1>4 DEF CallGoesOn
  <2>1. /\ call' \in [Calls -> CallRecords]
        /\ \A b \in Calls \ {c} : call'[b] = call[b]
        /\ call'[c].pc = "waiting" /\ call'[c].target = d /\ call'[c].attempt = n
        /\ call'[c].heard = call[c].heard
    BY <1>0, <2>0, SendSummary
  <2>2. ~Reached(c, d, n)
    <3>1. call[c].attempt \in Nat /\ n \in Nat
      BY <1>0, RequestBounds DEF CallRecords, Attempts
    <3>2. CASE call[c].pc = "idle"
      BY <3>2 DEF Reached
    <3>3. CASE call[c].pc = "waiting"
      BY <1>0, <1>4, <3>1, <3>3 DEF CallGoesOn, Reached, RouteInv
    <3> QED BY <1>0, <3>2, <3>3 DEF CallRecords
  <2>3. handler[q] = IdleHandler
    BY <1>0, <2>2 DEF FreshInv
  <2>4. /\ handler' \in [Requests -> HandlerRecords]
        /\ \A p \in Requests \ {q} : handler'[p] = handler[p]
        /\ handler'[q].conn = 0 /\ handler'[q].ran = FALSE
        /\ \/ handler'[q] = IdleHandler
           \/ handler'[q].pc = "done" /\ handler'[q].reply \in {"unauthorized", "forbidden"}
           \/ handler'[q].pc = "connecting" /\ handler'[q].reply = "none"
    BY <1>0, <2>0, <2>3, ArriveSummary DEF Send
  <2>5. TypeInv'
    BY <1>0, <2>1, <2>4 DEF TypeInv, OthersStay
  <2>6. FreshInv'
    <3>1. \A b \in Calls, e \in Daemons, m \in Attempts : Reached(b, e, m) => Reached(b, e, m)'
      <4>1. ASSUME NEW b \in Calls \ {c}, NEW e \in Daemons, NEW m \in Attempts, Reached(b, e, m)
            PROVE  Reached(b, e, m)'
        BY <1>0, <2>1, <4>1 DEF Reached, OthersStay
      <4>2. ASSUME NEW e \in Daemons, NEW m \in Attempts, Reached(c, e, m)
            PROVE  Reached(c, e, m)'
        <5>1. call[c].attempt \in Nat /\ m \in Nat /\ n \in Nat
          BY <1>0, RequestBounds DEF CallRecords, Attempts
        <5> QED BY <1>0, <1>4, <2>1, <4>2, <5>1 DEF CallGoesOn, Reached, OthersStay, RouteInv
      <4> QED BY <4>1, <4>2
    <3>2. Reached(c, d, n)'
      BY <2>1, RequestBounds DEF Reached, Attempts, Daemons
    <3>3. ASSUME NEW b \in Calls, NEW e \in Daemons, NEW m \in Attempts, ~Reached(b, e, m)'
          PROVE  handler'[<<b, e, m>>] = IdleHandler
      BY <1>0, <1>1, <2>4, <3>1, <3>2, <3>3 DEF FreshInv
    <3>4. ASSUME NEW b \in Calls, call'[b].target # "direct"
          PROVE  handler'[<<b, "direct", 1>>] = IdleHandler
      <4>1. call[b].target # "direct"
        BY <1>0, <1>4, <2>1, <3>4 DEF CallGoesOn, FreshInv
      <4> QED BY <1>0, <1>2, <2>0, <2>4, <4>1 DEF FreshInv
    <3>5. \A b \in Calls : /\ call'[b].pc = "idle" => call'[b].attempt = 1 /\ call'[b].target = "local"
                           /\ call'[b].target = "direct" => call'[b].attempt = 1
      <4>1. call'[c].pc # "idle" /\ call'[c].target # "direct"
        BY <2>1 DEF Daemons
      <4>2. ASSUME NEW b \in Calls \ {c}
            PROVE  /\ call'[b].pc = "idle" => call'[b].attempt = 1 /\ call'[b].target = "local"
                   /\ call'[b].target = "direct" => call'[b].attempt = 1
        BY <1>0, <2>1 DEF FreshInv
      <4> QED BY <4>1, <4>2
    <3> QED BY <3>3, <3>4, <3>5 DEF FreshInv
  <2>7. RouteInv'
    <3>1. ASSUME NEW b \in Calls \ {c}, NEW e \in Daemons, NEW m \in Attempts
          PROVE  handler'[<<b, e, m>>] = handler[<<b, e, m>>]
      BY <1>1, <2>4
    <3>2. /\ route = "local" => call'[c].target # "remote"
          /\ "auth" \notin call'[c].heard
          /\ route # "local" /\ call'[c].target = "local" => route = "remote-local" /\ ~credentialed
      BY <1>0, <1>4, <2>1 DEF CallGoesOn, RouteInv
    <3>3. unhosted => route = "local"
      BY <1>0 DEF RouteInv
    <3>4. ASSUME NEW b \in Calls \ {c}
          PROVE  /\ route = "local" => call'[b].target # "remote"
                 /\ "auth" \in call'[b].heard => call'[b].pc = "ended" /\ call'[b].target = "remote"
                 /\ route # "local" /\ call'[b].target = "local"
                      => \/ route = "remote-local" /\ ~credentialed
                         \/ /\ call'[b].pc \in {"idle", "ended"}
                            /\ \A e \in Daemons, m \in Attempts : handler'[<<b, e, m>>] = IdleHandler
      BY <1>0, <2>1, <3>1 DEF RouteInv
    <3> QED BY <1>0, <3>2, <3>3, <3>4 DEF RouteInv, OthersStay
  <2>8. RefusedInv'
    <3>1. ASSUME NEW p \in Asked, handler'[p].reply = "unauthorized"
          PROVE  handler'[p].pc = "done" /\ ~handler'[p].ran
      <4>1. CASE p = q
        BY <2>4, <3>1, <4>1 DEF IdleHandler
      <4>2. CASE p # q
        BY <1>0, <2>4, <3>1, <4>2 DEF RefusedInv, Requests
      <4> QED BY <4>1, <4>2
    <3>2. ASSUME route = "local", NEW b \in Calls, call'[b].target = "local",
                 NEW m \in Attempts, m < call'[b].attempt
          PROVE  handler'[<<b, "local", m>>].pc = "done" /\ ~handler'[<<b, "local", m>>].ran
      <4>1. CASE b # c
        BY <1>0, <1>1, <2>1, <2>4, <3>2, <4>1 DEF RefusedInv, Daemons
      <4>2. CASE b = c
        <5>1. m \in Nat /\ m >= 1 /\ n \in Nat
          BY RequestBounds DEF Attempts
        <5>2. d = "local" /\ m < n
          BY <2>1, <3>2, <4>2
        <5>3. n = 2 /\ handler[<<c, "local", 1>>].reply = "unauthorized"
          BY <1>0, <1>4, <3>2, <5>1, <5>2 DEF CallGoesOn, RouteInv
        <5>4. m = 1
          BY <5>1, <5>2, <5>3
        <5>5. handler'[<<c, "local", m>>] = handler[<<c, "local", m>>]
          BY <1>1, <2>4, <5>2, <5>3, <5>4 DEF Daemons
        <5> QED BY <1>0, <1>1, <4>2, <5>3, <5>4, <5>5 DEF RefusedInv, Daemons
      <4> QED BY <4>1, <4>2
    <3> QED BY <1>0, <3>1, <3>2 DEF RefusedInv, OthersStay
  <2>9. DroppedInv'
    <3>1. Dropped(q)'
      BY <2>4 DEF Dropped, IdleHandler
    <3>2. \A p \in Asked \ {q} : Dropped(p)'
      BY <1>0, <2>4 DEF DroppedInv, Dropped, OthersStay, Requests
    <3> QED BY <1>0, <3>1, <3>2 DEF DroppedInv, OthersStay
  <2> QED BY <2>5, <2>6, <2>7, <2>8, <2>9 DEF IInv
<1>5. ASSUME call[c].pc = "idle",
             call' = [call EXCEPT ![c].pc = "waiting", ![c].target = "direct"],
             handler' = [handler EXCEPT ![<<c, "direct", 1>>].pc = "connecting"]
      PROVE  IInv'
  <2> DEFINE q == <<c, "direct", 1>>
  <2>1. call'[c] = [[call[c] EXCEPT !.pc = "waiting"] EXCEPT !.target = "direct"]
    BY <1>0, <1>5 DEF TypeInv
  <2>2. /\ call' \in [Calls -> CallRecords]
        /\ \A b \in Calls \ {c} : call'[b] = call[b]
        /\ call'[c].pc = "waiting" /\ call'[c].target = "direct"
        /\ call'[c].attempt = call[c].attempt /\ call'[c].heard = call[c].heard
    <3>1. call'[c] \in CallRecords
      BY <1>0, <2>1 DEF CallRecords
    <3> QED BY <1>0, <1>5, <2>1, <3>1 DEF TypeInv, CallRecords
  <2>3. /\ handler' \in [Requests -> HandlerRecords]
        /\ \A p \in Requests \ {q} : handler'[p] = handler[p]
    <3>1. "connecting" \in Phases
      BY DEF Phases
    <3> QED BY <1>0, <1>2, <1>5, <3>1, MoveSummary
  <2>4. \A p \in Asked : handler'[p] = handler[p]
    BY <1>2, <2>3 DEF Requests
  <2>5. TypeInv'
    BY <1>0, <2>2, <2>3 DEF TypeInv, OthersStay
  <2>6. FreshInv'
    <3>1. ASSUME NEW e \in Daemons, NEW m \in Attempts
          PROVE  ~Reached(c, e, m)
      BY <1>5 DEF Reached
    <3>2. ASSUME NEW e \in Daemons, NEW m \in Attempts
          PROVE  handler'[<<c, e, m>>] = IdleHandler
      BY <1>0, <1>1, <2>4, <3>1 DEF FreshInv
    <3>3. ASSUME NEW b \in Calls \ {c}, NEW e \in Daemons, NEW m \in Attempts, ~Reached(b, e, m)'
          PROVE  handler'[<<b, e, m>>] = IdleHandler
      <4>1. ~Reached(b, e, m)
        BY <1>0, <2>2, <3>3 DEF Reached, OthersStay
      <4> QED BY <1>0, <1>1, <2>4, <4>1 DEF FreshInv
    <3>4. ASSUME NEW b \in Calls, call'[b].target # "direct"
          PROVE  handler'[<<b, "direct", 1>>] = IdleHandler
      <4>1. b # c
        BY <2>2, <3>4
      <4>2. <<b, "direct", 1>> \in Requests \ {q}
        BY <1>2, <4>1
      <4> QED BY <1>0, <2>2, <2>3, <3>4, <4>1, <4>2 DEF FreshInv
    <3>5. \A b \in Calls : /\ call'[b].pc = "idle" => call'[b].attempt = 1 /\ call'[b].target = "local"
                           /\ call'[b].target = "direct" => call'[b].attempt = 1
      BY <1>0, <1>5, <2>2 DEF FreshInv
    <3> QED BY <3>2, <3>3, <3>4, <3>5 DEF FreshInv
  <2>7. RouteInv'
    BY <1>0, <1>1, <1>5, <2>2, <2>4 DEF RouteInv, OthersStay
  <2>8. RefusedInv'
    BY <1>0, <1>1, <2>2, <2>4 DEF RefusedInv, OthersStay, Daemons
  <2>9. DroppedInv'
    BY <1>0, <2>4 DEF DroppedInv, Dropped, OthersStay
  <2> QED BY <2>5, <2>6, <2>7, <2>8, <2>9 DEF IInv
<1> QED BY <1>3, <1>4, <1>5, CallSummary DEF IInv

(***************************************************************************)
(* The theorems.                                                           *)
(***************************************************************************)

(* No step breaks the invariant.                                           *)
LEMMA NextInv == IInv /\ [RequestNext]_requestVars => IInv'
<1> SUFFICES ASSUME IInv, [RequestNext]_requestVars PROVE IInv'
  OBVIOUS
<1>1. CASE \E c \in Calls : CallStep(c)
  BY <1>1, CallKeeps
<1>2. ASSUME NEW q \in Asked, HandlerStep(q) \/ AnswerCall(q)
      PROVE  IInv'
  <2>1. q \in Requests
    BY DEF Requests
  <2>2. UNCHANGED <<route, missing, unhosted, credentialed, call>> /\ HandlerGoesOn(q)
    BY <1>2, HandlerSummary DEF IInv
  <2>3. FreshInv' /\ RouteInv' /\ RefusedInv'
    BY <2>1, <2>2, GoesOnKeeps
  <2>4. /\ pooledConn' \in [Daemons -> 0..MaxConn]
        /\ connState' \in [Daemons \cup {"direct"} ->
                             [Conns -> {"none", "open", "broken", "closed"}]]
        /\ DroppedInv'
    BY <1>2, HandlerKeepsConns
  <2>5. TypeInv'
    BY <2>2, <2>4 DEF IInv, TypeInv, HandlerGoesOn
  <2> QED BY <2>3, <2>4, <2>5 DEF IInv
<1>3. ASSUME NEW q \in Direct, DirectStep(q)
      PROVE  IInv'
  <2>1. q \in Requests /\ q \notin Asked
    BY DEF Requests, Direct, Asked, Daemons
  <2>2. /\ UNCHANGED <<route, missing, unhosted, credentialed, call, pooledConn>>
        /\ HandlerGoesOn(q)
        /\ \A d \in Daemons : connState'[d] = connState[d]
        /\ connState' \in [Daemons \cup {"direct"} ->
                             [Conns -> {"none", "open", "broken", "closed"}]]
    BY <1>3, DirectSummary DEF IInv
  <2>3. FreshInv' /\ RouteInv' /\ RefusedInv'
    BY <2>1, <2>2, GoesOnKeeps
  <2>4. \A p \in Asked : handler'[p] = handler[p]
    BY <2>1, <2>2 DEF HandlerGoesOn, Requests
  <2>5. \A p \in Asked : Dropped(p)'
    BY <2>2, <2>4, StaysDropped
  <2>6. DroppedInv'
    BY <2>2, <2>5 DEF IInv, DroppedInv
  <2>7. TypeInv'
    BY <2>2 DEF IInv, TypeInv, HandlerGoesOn
  <2> QED BY <2>3, <2>6, <2>7 DEF IInv
<1>4. ASSUME NEW d \in DOMAIN connState, NEW i \in Conns, BreakConnection(d, i)
      PROVE  IInv'
  <2>1. UNCHANGED <<route, missing, unhosted, credentialed, call, handler, pooledConn>>
    BY <1>4 DEF BreakConnection
  <2>2. /\ connState' \in [Daemons \cup {"direct"} ->
                             [Conns -> {"none", "open", "broken", "closed"}]]
        /\ \A e \in Daemons, j \in Conns : connState[e][j] # "none" => connState'[e][j] # "none"
    BY <1>4 DEF BreakConnection, IInv, TypeInv
  <2>3. TypeInv'
    BY <2>1, <2>2 DEF IInv, TypeInv
  <2>4. FreshInv' /\ RouteInv' /\ RefusedInv'
    BY <2>1 DEF IInv, FreshInv, Reached, RouteInv, RefusedInv
  <2>5. \A p \in Asked : Dropped(p)'
    BY <2>1, <2>2, StaysDropped
  <2>6. ASSUME NEW e \in Daemons, pooledConn'[e] # 0
        PROVE  connState'[e][pooledConn'[e]] # "none"
    BY <2>1, <2>2, <2>6, RequestBounds DEF IInv, TypeInv, DroppedInv, Conns
  <2> QED BY <2>3, <2>4, <2>5, <2>6 DEF IInv, DroppedInv
<1>5. CASE UNCHANGED requestVars
  BY <1>5 DEF requestVars, IInv, TypeInv, FreshInv, Reached, RouteInv, RefusedInv, DroppedInv, Dropped
<1> QED BY <1>1, <1>2, <1>3, <1>4, <1>5 DEF RequestNext, CallStep

(* The invariant holds in every reachable state.                           *)
LEMMA SpecInv == RequestSpec => []IInv
<1> QED BY InitInv, NextInv, PTL DEF RequestSpec

(* A caller that is told of a timeout leaves no trace of its connection in *)
(* the daemon's pool (server.ts 355-364), however many calls use, replace  *)
(* or close connections of that service meanwhile.                         *)
THEOREM TimedOutIsDropped == RequestSpec => []TimedOutDropped
<1>1. IInv => TimedOutDropped
  BY DEF IInv, DroppedInv, Dropped, TimedOutDropped
<1> QED BY <1>1, SpecInv, PTL

(* A request goes only to a daemon that may serve it (client.ts 339-360,   *)
(* 488-505), for any number of attempts of any number of calls.            *)
THEOREM SentOnlyWhereServed == RequestSpec => []SentWhereServed
<1>1. IInv => SentWhereServed
  <2> SUFFICES ASSUME IInv, NEW c \in Calls
               PROVE  /\ unhosted => \A n \in Attempts : handler[<<c, "remote", n>>].pc = "idle"
                      /\ route # "local" /\ handler[<<c, "local", 1>>].pc # "idle"
                            => route = "remote-local" /\ ~credentialed /\ "auth" \notin call[c].heard
    BY DEF SentWhereServed
  <2>1. IdleHandler.pc = "idle" /\ "remote" \in Daemons /\ "local" \in Daemons
    BY DEF IdleHandler, Daemons
  <2>2. ASSUME unhosted, NEW n \in Attempts
        PROVE  handler[<<c, "remote", n>>].pc = "idle"
    <3>1. ~Reached(c, "remote", n)
      BY <2>2 DEF IInv, RouteInv, Reached
    <3> QED BY <2>1, <3>1 DEF IInv, FreshInv
  <2>3. ASSUME route # "local", handler[<<c, "local", 1>>].pc # "idle"
        PROVE  route = "remote-local" /\ ~credentialed /\ "auth" \notin call[c].heard
    <3>1. 1 \in Attempts
      BY RequestBounds DEF Attempts
    <3>2. call[c].target = "local"
      BY <2>1, <2>3, <3>1 DEF IInv, FreshInv, Reached
    <3> QED BY <2>1, <2>3, <3>1, <3>2 DEF IInv, RouteInv
  <2> QED BY <2>2, <2>3
<1> QED BY <1>1, SpecInv, PTL

(* A call that no remote daemon serves runs its tool at most once          *)
(* (client.ts 360-393): what fetchLocal sends again had been refused.      *)
THEOREM LocalCallRunsOnce == RequestSpec => []LocalRunsOnce
<1>1. IInv => LocalRunsOnce
  <2> SUFFICES ASSUME IInv, route = "local", NEW c \in Calls
               PROVE  Cardinality(Ran(c)) <= 1
    BY DEF LocalRunsOnce
  <2>1. ASSUME NEW q \in Ran(c)
        PROVE  q = Request(c)
    <3>1. q \in Requests /\ q[1] = c /\ handler[q] # IdleHandler
      BY <2>1 DEF Ran, IdleHandler
    <3>2. CASE q \in Direct
      <4>1. q = <<c, "direct", 1>>
        BY <3>1, <3>2 DEF Direct
      <4>2. call[c].target = "direct" /\ call[c].attempt = 1
        BY <3>1, <4>1 DEF IInv, FreshInv
      <4> QED BY <4>1, <4>2 DEF Request
    <3>3. CASE q \in Asked
      <4>1. PICK d \in Daemons, n \in Attempts : q = <<c, d, n>>
        BY <3>1, <3>3 DEF Asked
      <4>2. Reached(c, d, n)
        <5>1. handler[<<c, d, n>>] # IdleHandler
          BY <3>1, <4>1
        <5> QED BY <5>1 DEF IInv, FreshInv
      <4>3. d = "local" /\ call[c].target = "local" /\ n <= call[c].attempt
        BY <4>2 DEF IInv, RouteInv, Reached
      <4>4. ~(n < call[c].attempt)
        BY <2>1, <4>1, <4>3 DEF IInv, RefusedInv, Ran
      <4>5. n \in Nat /\ call[c].attempt \in Nat
        BY RequestBounds DEF IInv, TypeInv, CallRecords, Attempts
      <4> QED BY <4>1, <4>3, <4>4, <4>5 DEF Request
    <3> QED BY <3>1, <3>2, <3>3 DEF Requests
  <2>2. Ran(c) = {} \/ Ran(c) = {Request(c)}
    BY <2>1
  <2>3. Cardinality({}) = 0 /\ Cardinality({Request(c)}) = 1
    BY FS_EmptySet, FS_Singleton
  <2> QED BY <2>2, <2>3
<1> QED BY <1>1, SpecInv, PTL


(***************************************************************************)
(* Names and policies.                                                     *)
(***************************************************************************)

(* What the policies of the CLI and of the daemon add up to, for all tools, *)
(* policies, keys and names: a listed tool is called itself under its own  *)
(* name or refused by the daemon; through it no name reaches a tool that   *)
(* it blocks; a hidden one is reached only by its short name, directly by  *)
(* it exactly when that passes and is no tool (service-help.ts 34-76,      *)
(* tool-call.ts 151-161 and 278-288, batch.ts 64, server.ts 294-321).      *)
THEOREM PoliciesDecide == PolicyDecides
<1> DEFINE c == policyCase
<1>1. ASSUME NEW n \in Listed(c)
      PROVE  /\ ToolCalls(c, n) = {tool \in {n} : CheckToolAccess(tool, c.daemon)}
             /\ DirectCalls(c, n) = {n}
  <2>1. n \in c.seen /\ CheckToolAccess(n, c.cli)
    BY DEF Listed, FilterTools
  <2>2. \A b : ResolveToolName(c.seen, b, n) = n
    BY <2>1 DEF ResolveToolName
  <2> QED BY <2>1, <2>2 DEF ToolCalls, DirectCalls, DaemonCalls
<1>2. ASSUME NEW n \in ToolNames, NEW tool \in BatchCalls(c, n) \cup ToolCalls(c, n)
      PROVE  /\ CheckToolAccess(tool, c.daemon)
             /\ c.cli = c.daemon => tool \notin Hidden(c)
  <2>1. tool \in DaemonCalls(c, n)
    BY <1>2 DEF BatchCalls, ToolCalls
  <2>2. CheckToolAccess(tool, c.daemon)
    BY <2>1 DEF DaemonCalls
  <2>3. ASSUME c.cli = c.daemon PROVE tool \notin Hidden(c)
    BY <2>2, <2>3 DEF Hidden, Listed, FilterTools
  <2> QED BY <2>2, <2>3
<1>3. ASSUME NEW n \in ToolNames
      PROVE  /\ \A tool \in ToolCalls(c, n) \cap Hidden(c) : tool = Prefixed(n) /\ ~c.keyed
             /\ DirectCalls(c, n) \cap Hidden(c) # {} <=>
                   n \notin c.seen /\ CheckToolAccess(n, c.cli) /\ Prefixed(n) \in Hidden(c)
  <2>1. CheckToolAccess(n, c.cli) => n \notin Hidden(c)
    BY DEF Hidden, Listed, FilterTools
  <2>2. \A b \in BOOLEAN : ResolveToolName(c.seen, b, n) # n =>
           b /\ n \notin c.seen /\ ResolveToolName(c.seen, b, n) = Prefixed(n)
    BY DEF ResolveToolName
  <2>3. ASSUME NEW tool \in ToolCalls(c, n) \cap Hidden(c)
        PROVE  tool = Prefixed(n) /\ ~c.keyed
    <3>1. CheckToolAccess(n, c.cli) /\ tool = ResolveToolName(c.seen, ~c.keyed, n)
      BY <2>3 DEF ToolCalls, DaemonCalls
    <3>2. tool # n
      BY <2>1, <2>3, <3>1
    <3> QED BY <2>2, <3>1, <3>2
  <2>4. ASSUME DirectCalls(c, n) \cap Hidden(c) # {}
        PROVE  n \notin c.seen /\ CheckToolAccess(n, c.cli) /\ Prefixed(n) \in Hidden(c)
    <3>1. /\ CheckToolAccess(n, c.cli)
          /\ ResolveToolName(c.seen, TRUE, n) \in Hidden(c)
      BY <2>4 DEF DirectCalls
    <3>2. ResolveToolName(c.seen, TRUE, n) # n
      BY <2>1, <3>1
    <3> QED BY <2>2, <3>1, <3>2
  <2>5. ASSUME n \notin c.seen, CheckToolAccess(n, c.cli), Prefixed(n) \in Hidden(c)
        PROVE  DirectCalls(c, n) \cap Hidden(c) # {}
    <3>1. Prefixed(n) \in c.seen
      BY <2>5 DEF Hidden
    <3>2. DirectCalls(c, n) = {Prefixed(n)}
      BY <2>5, <3>1 DEF DirectCalls, ResolveToolName
    <3> QED BY <2>5, <3>2
  <2> QED BY <2>3, <2>4, <2>5
<1> QED BY <1>1, <1>2, <1>3 DEF PolicyDecides

(***************************************************************************)
(* The inductive invariant of the tokens.                                  *)
(***************************************************************************)

RefreshPhases == {"idle", "queued", "read", "opening", "written", "renamed", "ok", "refused", "failed"}
RefreshRecords == [pc : RefreshPhases, offered : Nat, content : Contents \cup {NoContent}]

TokenTypes ==
    /\ tokenFile \in Contents /\ entries \in Contents /\ tokenMap \in Contents
    /\ issued \in Nat
    /\ refreshQueue \in Seq(Refreshes)
    /\ refresh \in [Refreshes -> RefreshRecords]
    /\ \A r \in Refreshes : refresh[r].pc \in {"read", "written", "renamed"} => refresh[r].content \in Contents
    /\ tokenTimer \in BOOLEAN
    /\ tokenReader \in Contents \cup {NoContent}
    /\ clobbered \in SUBSET Refreshes

(* A refresh under way holds the lock.                                     *)
Exclusive == \A r \in Refreshing : refreshQueue # <<>> /\ Head(refreshQueue) = r

(* Without a change that waits for its reload, what was read is the file.  *)
FreshReads ==
    ~tokenTimer =>
        /\ \A r \in Refreshes : refresh[r].pc = "read" => refresh[r].content = tokenFile
        /\ tokenReader # NoContent => tokenReader = tokenFile

(* Once that is applied, the map is the file, and will be.                 *)
MapFollows ==
    ~tokenTimer /\ tokenReader = NoContent /\ ValidTokens(tokenFile) =>
        /\ tokenMap = tokenFile
        /\ \A r \in Refreshes : refresh[r].pc = "renamed" => entries = tokenFile

(* Every token was issued.                                                 *)
Known(f) == \A e \in f : e.token <= issued
AllKnown ==
    /\ Known(tokenFile) /\ Known(entries)
    /\ tokenReader # NoContent => Known(tokenReader)
    /\ \A r \in Refreshes : refresh[r].pc \in {"read", "written", "renamed"} => Known(refresh[r].content)

(* A token that was exchanged is in no file, and nothing puts it back.     *)
Absent(t, f) == \A e \in f : e.token # t
Gone(t) ==
    /\ Absent(t, tokenFile)
    /\ \A r \in Refreshes :
          /\ refresh[r].pc = "opening" => Absent(t, entries)
          /\ refresh[r].pc \in {"read", "written"} => Absent(t, refresh[r].content)
Stored(r) == refresh[r].pc \in {"renamed", "ok"}
Rotated(r) == refresh[r].pc \in {"opening", "written", "renamed", "ok"}
Leaves(r) ==
    /\ Rotated(r) => refresh[r].offered <= issued
    /\ refresh[r].pc = "opening" => Absent(refresh[r].offered, entries)
    /\ refresh[r].pc = "written" => Absent(refresh[r].offered, refresh[r].content)
    /\ Stored(r) => Gone(refresh[r].offered)
ExchangedOnce ==
    clobbered = {} =>
        /\ \A r \in Refreshes : Leaves(r)
        /\ \A r, q \in Refreshes : Stored(r) /\ Rotated(q) /\ r # q => refresh[r].offered # refresh[q].offered

TokenInv == TokenTypes /\ Exclusive /\ FreshReads /\ MapFollows /\ AllKnown /\ ExchangedOnce

(***************************************************************************)
(* The tokens: types.                                                      *)
(***************************************************************************)

LEMMA RefreshType ==
    ASSUME NEW pc \in RefreshPhases, NEW t \in Nat, NEW c \in Contents \cup {NoContent}
    PROVE  /\ Refresh(pc, t, c) \in RefreshRecords
           /\ Refresh(pc, t, c).pc = pc /\ Refresh(pc, t, c).offered = t /\ Refresh(pc, t, c).content = c
  BY DEF Refresh, RefreshRecords

LEMMA EntryType ==
    ASSUME NEW i \in TokenIds, issued \in Nat, issued < MaxToken
    PROVE  /\ Entry(i, issued + 1) \in [id : TokenIds, token : Tokens]
           /\ Entry(i, issued + 1).token = issued + 1
  BY TokenBounds DEF Entry, Tokens

LEMMA QueueStep ==
    ASSUME refreshQueue \in Seq(Refreshes), NEW r \in Refreshes
    PROVE  /\ Append(refreshQueue, r) \in Seq(Refreshes)
           /\ refreshQueue # <<>> => /\ Tail(refreshQueue) \in Seq(Refreshes)
                                     /\ Append(refreshQueue, r) # <<>>
                                     /\ Head(Append(refreshQueue, r)) = Head(refreshQueue)
  OBVIOUS

(***************************************************************************)
(* A step of one refresh: the new record, and the queue.                   *)
(***************************************************************************)

(* r comes to pc with content c and keeps the token it offers.             *)
GoesTo(r, pc, c) ==
    /\ refresh'[r].pc = pc /\ refresh'[r].offered = refresh[r].offered /\ refresh'[r].content = c
    /\ \A q \in Refreshes : q # r => refresh'[q] = refresh[q]

LEMMA Goes ==
    ASSUME TokenTypes, NEW r \in Refreshes, NEW pc \in RefreshPhases, NEW c \in Contents \cup {NoContent},
           refresh' = [refresh EXCEPT ![r] = Refresh(pc, refresh[r].offered, c)],
           pc \in {"read", "written", "renamed"} => c \in Contents
    PROVE  /\ refresh' \in [Refreshes -> RefreshRecords]
           /\ GoesTo(r, pc, c)
           /\ \A q \in Refreshes : refresh'[q].pc \in {"read", "written", "renamed"} => refresh'[q].content \in Contents
<1> DEFINE R == Refresh(pc, refresh[r].offered, c)
<1>1. refresh[r].offered \in Nat
  BY DEF TokenTypes, RefreshRecords
<1>2. R \in RefreshRecords /\ R.pc = pc /\ R.offered = refresh[r].offered /\ R.content = c
  BY <1>1, RefreshType
<1>3. refresh' = [refresh EXCEPT ![r] = R]
  OBVIOUS
<1> HIDE DEF R
<1>4. refresh'[r] = R /\ \A q \in Refreshes : q # r => refresh'[q] = refresh[q]
  BY <1>3 DEF TokenTypes
<1>5. refresh' \in [Refreshes -> RefreshRecords]
  BY <1>2, <1>3 DEF TokenTypes
<1> QED  BY <1>2, <1>4, <1>5 DEF GoesTo, TokenTypes

(* A refresh that ends lets the next one in.                               *)
LEMMA Ends ==
    ASSUME TokenTypes, Exclusive, NEW r \in Refreshing, NEW pc \in {"ok", "refused", "failed"}, EndRefresh(r, pc)
    PROVE  /\ refresh' \in [Refreshes -> RefreshRecords]
           /\ refreshQueue' \in Seq(Refreshes)
           /\ GoesTo(r, pc, NoContent)
           /\ \A q \in Refreshes : q \notin Refreshing'
           /\ \A q \in Refreshes : refresh'[q].pc \in {"read", "written", "renamed"} => refresh'[q].content \in Contents
<1>1. r \in Refreshes /\ pc \in RefreshPhases
  BY DEF Refreshing, RefreshPhases
<1>2. refresh' = [refresh EXCEPT ![r] = Refresh(pc, refresh[r].offered, NoContent)]
      /\ refreshQueue' = Tail(refreshQueue)
  BY DEF EndRefresh
<1>3. /\ refresh' \in [Refreshes -> RefreshRecords]
      /\ GoesTo(r, pc, NoContent)
      /\ \A q \in Refreshes : refresh'[q].pc \in {"read", "written", "renamed"} => refresh'[q].content \in Contents
  BY <1>1, <1>2, Goes
<1>4. refreshQueue' \in Seq(Refreshes)
  BY <1>1, <1>2, QueueStep DEF Exclusive, TokenTypes
<1>5. \A q \in Refreshes : q \notin Refreshing'
  BY <1>3 DEF GoesTo, Refreshing, Exclusive
<1> QED  BY <1>3, <1>4, <1>5

(***************************************************************************)
(* The steps of the tokens.                                                *)
(***************************************************************************)

LEMMA AskStep ==
    ASSUME TokenInv, NEW r \in Refreshes, NEW t \in Tokens, AskRefresh(r, t)
    PROVE  TokenInv'
<1> USE DEF TokenInv
<1> DEFINE R == Refresh("queued", t, NoContent)
<1>1. R \in RefreshRecords /\ R.pc = "queued"
  BY RefreshType, TokenBounds DEF Tokens, RefreshPhases
<1>2. refresh' = [refresh EXCEPT ![r] = R]
  BY DEF AskRefresh
<1> HIDE DEF R
<1>3. refresh'[r].pc = "queued" /\ \A q \in Refreshes : q # r => refresh'[q] = refresh[q]
  BY <1>1, <1>2 DEF TokenTypes
<1>4. TokenTypes'
  <2>1. refresh' \in [Refreshes -> RefreshRecords]
    BY <1>1, <1>2 DEF TokenTypes
  <2>2. refreshQueue' \in Seq(Refreshes)
    BY QueueStep DEF AskRefresh, TokenTypes
  <2> QED  BY <1>3, <2>1, <2>2 DEF AskRefresh, TokenTypes
<1>5. Exclusive'
  <2>1. \A q \in Refreshes : q \in Refreshing' => q \in Refreshing
    BY <1>3 DEF Refreshing
  <2>2. refreshQueue # <<>> => refreshQueue' # <<>> /\ Head(refreshQueue') = Head(refreshQueue)
    BY QueueStep DEF AskRefresh, TokenTypes
  <2> QED  BY <2>1, <2>2 DEF Exclusive, Refreshing
<1>6. FreshReads' /\ MapFollows' /\ AllKnown'
  BY <1>3 DEF AskRefresh, FreshReads, MapFollows, ValidTokens, AllKnown, Known
<1>7. ExchangedOnce'
  BY <1>3 DEF AskRefresh, ExchangedOnce, Leaves, Gone, Absent, Stored, Rotated
<1> QED  BY <1>4, <1>5, <1>6, <1>7

LEMMA ReadStep ==
    ASSUME TokenInv, NEW r \in Refreshes, ReadTokens(r)
    PROVE  TokenInv'
<1> USE DEF TokenInv
<1>1. /\ refresh' \in [Refreshes -> RefreshRecords]
      /\ GoesTo(r, "read", tokenFile)
      /\ \A q \in Refreshes : refresh'[q].pc \in {"read", "written", "renamed"} => refresh'[q].content \in Contents
  BY Goes DEF ReadTokens, TokenTypes, RefreshPhases
<1>2. TokenTypes'
  BY <1>1 DEF ReadTokens, TokenTypes
<1>3. Exclusive'
  BY <1>1 DEF ReadTokens, HoldsRefreshLock, Exclusive, Refreshing, GoesTo
<1>4. FreshReads' /\ MapFollows' /\ AllKnown'
  BY <1>1 DEF ReadTokens, GoesTo, FreshReads, MapFollows, ValidTokens, AllKnown, Known
<1>5. ExchangedOnce'
  BY <1>1 DEF ReadTokens, GoesTo, ExchangedOnce, Leaves, Gone, Absent, Stored, Rotated
<1> QED  BY <1>2, <1>3, <1>4, <1>5

LEMMA RefuseStep ==
    ASSUME TokenInv, NEW r \in Refreshes, RefuseRefresh(r)
    PROVE  TokenInv'
<1> USE DEF TokenInv
<1>1. r \in Refreshing /\ refresh[r].pc = "read" /\ EndRefresh(r, "refused")
  BY DEF RefuseRefresh, Refreshing
<1>2. /\ refresh' \in [Refreshes -> RefreshRecords]
      /\ refreshQueue' \in Seq(Refreshes)
      /\ GoesTo(r, "refused", NoContent)
      /\ \A q \in Refreshes : q \notin Refreshing'
      /\ \A q \in Refreshes : refresh'[q].pc \in {"read", "written", "renamed"} => refresh'[q].content \in Contents
  BY <1>1, Ends
<1>3. \A q \in Refreshes : refresh'[q].pc \notin {"read", "opening", "written", "renamed"}
  BY <1>2 DEF Refreshing
<1>4. TokenTypes'
  BY <1>1, <1>2 DEF RefuseRefresh, TokenTypes
<1>5. Exclusive'
  BY <1>2 DEF Exclusive, Refreshing
<1>6. FreshReads' /\ MapFollows'
  BY <1>1, <1>3 DEF RefuseRefresh, FreshReads, MapFollows, ValidTokens
<1>7. AllKnown'
  BY <1>1, <1>3 DEF RefuseRefresh, AllKnown, Known
<1>8. ExchangedOnce'
  BY <1>2, <1>3 DEF RefuseRefresh, GoesTo, ExchangedOnce, Leaves, Gone, Absent, Stored, Rotated
<1> QED  BY <1>4, <1>5, <1>6, <1>7, <1>8

LEMMA RotateStep ==
    ASSUME TokenInv, NEW r \in Refreshes, Rotate(r)
    PROVE  TokenInv'
<1> USE DEF TokenInv
<1> DEFINE f == refresh[r].content
           t == refresh[r].offered
<1>1. r \in Refreshing /\ refresh[r].pc = "read" /\ f \in Contents /\ ValidTokens(f) /\ Known(f) /\ t \in Nat
  BY DEF Rotate, Refreshing, TokenTypes, AllKnown, RefreshRecords
<1>2. PICK e \in f : e.token = t /\ entries' = (f \ {e}) \cup {Entry(e.id, issued + 1)}
  BY DEF Rotate
<1>3. e.id \in TokenIds /\ e.token \in Nat /\ e.token <= issued
  BY <1>1, <1>2 DEF Contents, Known, Tokens
<1>4. Entry(e.id, issued + 1) \in [id : TokenIds, token : Tokens] /\ Entry(e.id, issued + 1).token = issued + 1
  BY <1>3, EntryType DEF Rotate, TokenTypes
<1>5. /\ refresh' \in [Refreshes -> RefreshRecords]
      /\ GoesTo(r, "opening", NoContent)
      /\ \A q \in Refreshes : refresh'[q].pc \in {"read", "written", "renamed"} => refresh'[q].content \in Contents
  BY Goes DEF Rotate, TokenTypes, RefreshPhases
<1>6. \A q \in Refreshes : q # r => q \notin Refreshing /\ q \notin Refreshing'
  BY <1>1, <1>5 DEF Exclusive, GoesTo, Refreshing
<1>7. \A q \in Refreshes : refresh'[q].pc \notin {"read", "written", "renamed"}
  BY <1>5, <1>6 DEF GoesTo, Refreshing
<1>8. entries' \in Contents /\ \A d \in entries' : d.token = issued + 1 \/ (d \in f /\ d # e)
  BY <1>1, <1>2, <1>4 DEF Contents
<1>9. issued' = issued + 1 /\ issued \in Nat
  BY DEF Rotate, TokenTypes
<1>10. \A d \in f : d.token \in Nat /\ d.token <= issued /\ (d # e => d.token # t)
  BY <1>1, <1>2 DEF ValidTokens, Known, Contents, Tokens
<1> HIDE DEF f, t
<1>11. TokenTypes'
  BY <1>1, <1>5, <1>8, <1>9 DEF Rotate, TokenTypes, f
<1>12. Exclusive'
  BY <1>1, <1>5, <1>6 DEF Rotate, Exclusive, GoesTo, Refreshing
<1>13. FreshReads'
  BY <1>7 DEF Rotate, FreshReads
<1>14. MapFollows'
  BY <1>1, <1>7 DEF Rotate, FreshReads, MapFollows, ValidTokens, f
<1>15. AllKnown'
  <2>1. Known(entries)'
    BY <1>8, <1>9, <1>10 DEF Known
  <2>2. Known(tokenFile)'
    BY <1>9 DEF Rotate, AllKnown, Known, TokenTypes, Contents, Tokens
  <2>3. (tokenReader # NoContent => Known(tokenReader))'
    BY <1>9 DEF Rotate, AllKnown, Known, TokenTypes, Contents, Tokens
  <2> QED  BY <1>7, <2>1, <2>2, <2>3 DEF AllKnown
<1>16. ASSUME clobbered = {}
       PROVE  \A q \in Refreshes : Leaves(q)'
  <2>1. ASSUME NEW q \in Refreshes, q # r
        PROVE  Leaves(q)'
    <3>1. refresh'[q] = refresh[q] /\ refresh[q].pc \notin {"read", "opening", "written", "renamed"}
      BY <1>5, <1>6, <2>1 DEF GoesTo, Refreshing
    <3>2. CASE refresh[q].pc = "ok"
      <4> DEFINE u == refresh[q].offered
      <4>1. u \in Nat /\ u <= issued /\ Absent(u, tokenFile) /\ Absent(u, f)
        BY <1>1, <1>16, <3>2 DEF ExchangedOnce, Leaves, Rotated, Stored, Gone, TokenTypes, RefreshRecords, f
      <4>2. Absent(u, entries')
        BY <1>8, <1>9, <4>1 DEF Absent
      <4>3. Absent(u, tokenFile')
        BY <4>1 DEF Rotate
      <4> HIDE DEF u
      <4>4. /\ Absent(u, tokenFile')
            /\ \A p \in Refreshes :
                  /\ refresh'[p].pc = "opening" => Absent(u, entries')
                  /\ refresh'[p].pc \in {"read", "written"} => Absent(u, refresh'[p].content)
        BY <1>7, <4>2, <4>3
      <4>5. refresh'[q].offered = u /\ u <= issued'
        BY <1>9, <3>1, <4>1 DEF u
      <4> QED  BY <3>1, <3>2, <4>4, <4>5 DEF Leaves, Gone, Rotated, Stored, Absent
    <3> QED  BY <3>1, <3>2 DEF Leaves, Rotated, Stored
  <2>2. Leaves(r)'
    <3>1. refresh'[r].pc = "opening" /\ refresh'[r].offered = t
      BY <1>5 DEF GoesTo, t
    <3>2. t <= issued'
      BY <1>2, <1>3, <1>9
    <3>3. \A d \in entries' : d.token # t
      BY <1>1, <1>2, <1>3, <1>8, <1>9, <1>10
    <3> QED  BY <3>1, <3>2, <3>3 DEF Leaves, Rotated, Stored, Absent
  <2> QED  BY <2>1, <2>2
<1>17. ASSUME clobbered = {}, NEW p \in Refreshes, NEW q \in Refreshes, Stored(p)', Rotated(q)', p # q
       PROVE  refresh'[p].offered # refresh'[q].offered
  <2>1. p # r /\ refresh'[p] = refresh[p] /\ Stored(p)
    BY <1>5, <1>17 DEF Stored, GoesTo
  <2>2. CASE q = r
    <3>1. Absent(refresh[p].offered, f)
      BY <1>1, <1>17, <2>1 DEF ExchangedOnce, Leaves, Gone, f
    <3>2. refresh[p].offered # t
      BY <1>2, <3>1 DEF Absent
    <3> QED  BY <1>5, <2>1, <2>2, <3>2 DEF GoesTo, t
  <2>3. CASE q # r
    BY <1>5, <1>17, <2>1, <2>3 DEF GoesTo, Rotated, ExchangedOnce
  <2> QED  BY <2>2, <2>3
<1>18. ExchangedOnce'
  BY <1>16, <1>17 DEF Rotate, ExchangedOnce
<1> QED  BY <1>11, <1>12, <1>13, <1>14, <1>15, <1>18

LEMMA WriteStep ==
    ASSUME TokenInv, NEW r \in Refreshes, WriteTokens(r)
    PROVE  TokenInv'
<1> USE DEF TokenInv
<1>1. /\ refresh' \in [Refreshes -> RefreshRecords]
      /\ GoesTo(r, "written", entries)
      /\ \A q \in Refreshes : refresh'[q].pc \in {"read", "written", "renamed"} => refresh'[q].content \in Contents
  BY Goes DEF WriteTokens, TokenTypes, RefreshPhases
<1>2. TokenTypes'
  BY <1>1 DEF WriteTokens, TokenTypes
<1>3. Exclusive'
  BY <1>1 DEF WriteTokens, Exclusive, Refreshing, GoesTo
<1>4. FreshReads' /\ MapFollows' /\ AllKnown'
  BY <1>1 DEF WriteTokens, GoesTo, FreshReads, MapFollows, ValidTokens, AllKnown, Known
<1>5. ExchangedOnce'
  BY <1>1 DEF WriteTokens, GoesTo, ExchangedOnce, Leaves, Gone, Absent, Stored, Rotated
<1> QED  BY <1>2, <1>3, <1>4, <1>5

LEMMA FailStep ==
    ASSUME TokenInv, NEW r \in Refreshes, FailToPersist(r)
    PROVE  TokenInv'
<1> USE DEF TokenInv
<1>1. r \in Refreshing /\ EndRefresh(r, "failed")
  BY DEF FailToPersist, Refreshing
<1>2. /\ refresh' \in [Refreshes -> RefreshRecords]
      /\ refreshQueue' \in Seq(Refreshes)
      /\ GoesTo(r, "failed", NoContent)
      /\ \A q \in Refreshes : q \notin Refreshing'
      /\ \A q \in Refreshes : refresh'[q].pc \in {"read", "written", "renamed"} => refresh'[q].content \in Contents
  BY <1>1, Ends
<1>3. \A q \in Refreshes : refresh'[q].pc \notin {"read", "opening", "written", "renamed"}
  BY <1>2 DEF Refreshing
<1>4. TokenTypes'
  BY <1>1, <1>2 DEF FailToPersist, TokenTypes
<1>5. Exclusive'
  BY <1>2 DEF Exclusive, Refreshing
<1>6. FreshReads' /\ MapFollows' /\ AllKnown'
  BY <1>3 DEF FailToPersist, FreshReads, MapFollows, ValidTokens, AllKnown, Known
<1>7. ExchangedOnce'
  BY <1>2, <1>3 DEF FailToPersist, GoesTo, ExchangedOnce, Leaves, Gone, Absent, Stored, Rotated
<1> QED  BY <1>4, <1>5, <1>6, <1>7

LEMMA RenameStep ==
    ASSUME TokenInv, NEW r \in Refreshes, RenameTokens(r)
    PROVE  TokenInv'
<1> USE DEF TokenInv
<1>1. refresh[r].content \in Contents /\ Known(refresh[r].content) /\ refresh[r].pc = "written"
  BY DEF RenameTokens, TokenTypes, AllKnown
<1>2. /\ refresh' \in [Refreshes -> RefreshRecords]
      /\ GoesTo(r, "renamed", refresh[r].content)
      /\ \A q \in Refreshes : refresh'[q].pc \in {"read", "written", "renamed"} => refresh'[q].content \in Contents
  BY <1>1, Goes DEF RenameTokens, RefreshPhases
<1>3. TokenTypes'
  BY <1>1, <1>2 DEF RenameTokens, TokenTypes
<1>4. \A q \in Refreshes : q # r => refresh'[q].pc \notin {"read", "opening", "written", "renamed"}
  BY <1>1, <1>2 DEF Exclusive, GoesTo, Refreshing
<1>5. Exclusive'
  BY <1>1, <1>2 DEF RenameTokens, Exclusive, Refreshing, GoesTo
<1>6. FreshReads' /\ MapFollows'
  BY DEF RenameTokens, FreshReads, MapFollows
<1>7. AllKnown'
  BY <1>1, <1>2 DEF RenameTokens, GoesTo, AllKnown, Known
<1>8. ExchangedOnce'
  BY <1>1, <1>2, <1>4 DEF RenameTokens, GoesTo, ExchangedOnce, Leaves, Gone, Absent, Stored, Rotated
<1> QED  BY <1>3, <1>5, <1>6, <1>7, <1>8

LEMMA ReturnStep ==
    ASSUME TokenInv, NEW r \in Refreshes, ReturnToken(r)
    PROVE  TokenInv'
<1> USE DEF TokenInv
<1>1. r \in Refreshing /\ refresh[r].pc = "renamed" /\ EndRefresh(r, "ok")
  BY DEF ReturnToken, Refreshing
<1>2. /\ refresh' \in [Refreshes -> RefreshRecords]
      /\ refreshQueue' \in Seq(Refreshes)
      /\ GoesTo(r, "ok", NoContent)
      /\ \A q \in Refreshes : q \notin Refreshing'
      /\ \A q \in Refreshes : refresh'[q].pc \in {"read", "written", "renamed"} => refresh'[q].content \in Contents
  BY <1>1, Ends
<1>3. \A q \in Refreshes : refresh'[q].pc \notin {"read", "opening", "written", "renamed"}
  BY <1>2 DEF Refreshing
<1>4. TokenTypes'
  BY <1>1, <1>2 DEF ReturnToken, TokenTypes
<1>5. Exclusive'
  BY <1>2 DEF Exclusive, Refreshing
<1>6. FreshReads' /\ MapFollows' /\ AllKnown'
  BY <1>1, <1>3 DEF ReturnToken, FreshReads, MapFollows, ValidTokens, AllKnown, Known
<1>7. ExchangedOnce'
  BY <1>1, <1>2, <1>3 DEF ReturnToken, GoesTo, ExchangedOnce, Leaves, Gone, Absent, Stored, Rotated
<1> QED  BY <1>4, <1>5, <1>6, <1>7

LEMMA EditStep ==
    ASSUME TokenInv, EditTokens
    PROVE  TokenInv'
<1> USE DEF TokenInv
<1>1. /\ tokenFile' \in Contents /\ issued' \in Nat /\ issued <= issued'
      /\ \A e \in tokenFile' : e \in tokenFile \/ (e.token = issued + 1 /\ issued' = issued + 1)
  <2>1. CASE \E e \in tokenFile : tokenFile' = tokenFile \ {e} /\ UNCHANGED issued
    BY <2>1 DEF TokenTypes, Contents
  <2>2. ASSUME NEW i \in TokenIds, issued < MaxToken,
               tokenFile' = tokenFile \cup {Entry(i, issued + 1)}, issued' = issued + 1
        PROVE  <1>1
    <3>1. Entry(i, issued + 1) \in [id : TokenIds, token : Tokens] /\ Entry(i, issued + 1).token = issued + 1
      BY <2>2, EntryType DEF TokenTypes
    <3> QED  BY <2>2, <3>1 DEF TokenTypes, Contents
  <2> QED  BY <2>1, <2>2 DEF EditTokens
<1>2. TokenTypes'
  BY <1>1 DEF EditTokens, TokenTypes
<1>3. Exclusive' /\ FreshReads' /\ MapFollows'
  BY DEF EditTokens, Exclusive, Refreshing, FreshReads, MapFollows
<1>4. \A g \in Contents : Known(g) => \A e \in g : e.token <= issued'
  BY <1>1 DEF Known, TokenTypes, Contents, Tokens
<1>5. AllKnown'
  <2>1. Known(tokenFile)'
    BY <1>1, <1>4 DEF AllKnown, Known, TokenTypes
  <2>2. Known(entries)' /\ (tokenReader # NoContent => Known(tokenReader))'
    BY <1>4 DEF EditTokens, AllKnown, Known, TokenTypes
  <2>3. \A r \in Refreshes : (refresh[r].pc \in {"read", "written", "renamed"} => Known(refresh[r].content))'
    BY <1>4 DEF EditTokens, AllKnown, Known, TokenTypes
  <2> QED  BY <2>1, <2>2, <2>3 DEF AllKnown
<1>6. ExchangedOnce'
  <2>1. \A t \in Nat : t <= issued /\ Absent(t, tokenFile) => Absent(t, tokenFile')
    BY <1>1 DEF Absent, TokenTypes
  <2>2. \A r \in Refreshes : refresh[r].offered \in Nat
    BY DEF TokenTypes, RefreshRecords
  <2>3. ASSUME clobbered = {}, NEW r \in Refreshes
        PROVE  Leaves(r)'
    <3>1. Leaves(r) /\ (Stored(r) => Rotated(r))
      BY <2>3 DEF ExchangedOnce, Stored, Rotated
    <3>2. Rotated(r) => refresh[r].offered <= issued'
      BY <1>1, <2>2, <3>1 DEF Leaves, TokenTypes
    <3>3. Stored(r) => Absent(refresh[r].offered, tokenFile')
      BY <2>1, <2>2, <3>1 DEF Leaves, Gone
    <3> QED  BY <3>1, <3>2, <3>3 DEF EditTokens, Leaves, Gone, Absent, Rotated, Stored
  <2> QED  BY <2>3 DEF EditTokens, ExchangedOnce, Rotated, Stored
<1> QED  BY <1>2, <1>3, <1>5, <1>6

LEMMA WatchStep ==
    ASSUME TokenInv, TokenTimerFires \/ ReloadTokens \/ UNCHANGED tokenVars
    PROVE  TokenInv'
<1> USE DEF TokenInv
<1>1. CASE TokenTimerFires
  <2>1. tokenFile # NoContent
    BY NothingRead DEF TokenTypes
  <2>2. TokenTypes' /\ Exclusive' /\ FreshReads' /\ MapFollows' /\ AllKnown'
    BY <1>1, <2>1 DEF TokenTimerFires, TokenTypes, Exclusive, Refreshing, FreshReads, MapFollows, AllKnown, Known
  <2>3. ExchangedOnce'
    BY <1>1 DEF TokenTimerFires, ExchangedOnce, Leaves, Gone, Absent, Stored, Rotated
  <2> QED  BY <2>2, <2>3
<1>2. CASE ReloadTokens
  <2>1. TokenTypes' /\ Exclusive'
    BY <1>2 DEF ReloadTokens, TokenTypes, Exclusive, Refreshing
  <2>2. FreshReads' /\ MapFollows' /\ AllKnown'
    BY <1>2 DEF ReloadTokens, FreshReads, MapFollows, ValidTokens, AllKnown, Known
  <2>3. ExchangedOnce'
    <3>1. CASE entries' = entries /\ clobbered' = clobbered
      BY <1>2, <3>1 DEF ReloadTokens, ExchangedOnce, Leaves, Gone, Absent, Stored, Rotated
    <3>2. CASE clobbered' = clobbered \cup {r \in Refreshes : refresh[r].pc = "opening"}
      <4> SUFFICES ASSUME clobbered' = {}
                   PROVE  ExchangedOnce'
        BY DEF ExchangedOnce
      <4>1. clobbered = {} /\ \A r \in Refreshes : refresh[r].pc # "opening"
        BY <3>2
      <4> QED  BY <1>2, <4>1 DEF ReloadTokens, ExchangedOnce, Leaves, Gone, Absent, Stored, Rotated
    <3> QED  BY <1>2, <3>1, <3>2 DEF ReloadTokens
  <2> QED  BY <2>1, <2>2, <2>3
<1>3. CASE UNCHANGED tokenVars
  <2>1. TokenTypes' /\ Exclusive' /\ FreshReads' /\ MapFollows' /\ AllKnown'
    BY <1>3 DEF tokenVars, TokenTypes, Exclusive, Refreshing, FreshReads, MapFollows, ValidTokens, AllKnown, Known
  <2>2. ExchangedOnce'
    BY <1>3 DEF tokenVars, ExchangedOnce, Leaves, Gone, Absent, Stored, Rotated
  <2> QED  BY <2>1, <2>2
<1> QED  BY <1>1, <1>2, <1>3

(***************************************************************************)
(* The theorems about the tokens.                                          *)
(***************************************************************************)

LEMMA TokenInitInv ==
    ASSUME TokenInit
    PROVE  TokenInv
<1>1. tokenFile \in Contents /\ ValidTokens(tokenFile) /\ entries = tokenFile /\ tokenMap = tokenFile
      /\ {e.token : e \in tokenFile} = 1..Cardinality(TokenIds)
  BY DEF TokenInit
<1>2. issued = Cardinality(TokenIds) /\ issued \in Nat
  BY TokenBounds, FS_CardinalityType DEF TokenInit
<1>3. Known(tokenFile)
  BY <1>1, <1>2 DEF Known
<1>4. Refresh("idle", 0, NoContent) \in RefreshRecords /\ Refresh("idle", 0, NoContent).pc = "idle"
  BY RefreshType DEF RefreshPhases
<1>5. refresh \in [Refreshes -> RefreshRecords] /\ \A r \in Refreshes : refresh[r].pc = "idle"
  BY <1>4 DEF TokenInit
<1>6. TokenTypes
  <2>1. refreshQueue = <<>> /\ tokenTimer = FALSE /\ tokenReader = NoContent /\ clobbered = {}
    BY DEF TokenInit
  <2>2. refreshQueue \in Seq(Refreshes)
    BY <2>1
  <2>3. tokenTimer \in BOOLEAN
    BY <2>1
  <2>4. tokenReader \in Contents \cup {NoContent} /\ clobbered \in SUBSET Refreshes
    BY <2>1
  <2> QED  BY <1>1, <1>2, <1>5, <2>2, <2>3, <2>4 DEF TokenTypes
<1>7. Exclusive /\ FreshReads /\ MapFollows /\ AllKnown /\ ExchangedOnce
  BY <1>1, <1>3, <1>5 DEF TokenInit, Exclusive, Refreshing, FreshReads, MapFollows, AllKnown, ExchangedOnce, Leaves, Rotated, Stored
<1> QED  BY <1>6, <1>7 DEF TokenInv

LEMMA TokenNextInv ==
    ASSUME TokenInv, [TokenNext]_tokenVars
    PROVE  TokenInv'
  BY AskStep, ReadStep, RefuseStep, RotateStep, WriteStep, FailStep, RenameStep, ReturnStep, EditStep, WatchStep
     DEF TokenNext, RefreshStep

LEMMA TokenSpecInv == TokenSpec => []TokenInv
  BY TokenInitInv, TokenNextInv, PTL DEF TokenSpec

(* Once no change waits for its reload and no refresh is under way, the    *)
(* daemon accepts exactly the tokens of its file (auth-provider.ts 222,    *)
(* 275; file-watch.ts 25).                                                 *)
THEOREM AcceptsWhatTheFileHas == TokenSpec => []AcceptsTheFile
<1>1. TokenInv => AcceptsTheFile
  BY DEF TokenInv, MapFollows, TokensSettled, AcceptsTheFile
<1> QED  BY <1>1, TokenSpecInv, PTL

(* A token is exchanged for a new one at most once, as long as no reload   *)
(* falls between a rotation and its write (auth-provider.ts 239, 274).     *)
THEOREM TokenExchangedOnce == TokenSpec => []RotatedOnce
<1>1. TokenInv => RotatedOnce
  BY DEF TokenInv, ExchangedOnce, Stored, Rotated, RotatedOnce
<1> QED  BY <1>1, TokenSpecInv, PTL
==============================================================================
