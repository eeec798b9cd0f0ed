-------------------------- MODULE ProxyHandlerProofs --------------------------
(***************************************************************************)
(* Theorems about ProxyHandler, for any set of requests, keys and domains  *)
(* and every configuration.                                                *)
(*                                                                         *)
(* The inductive invariant IInv adds two parts to the properties.  Stages  *)
(* says what a request holds at each stage of the pipeline: what it has    *)
(* not reached yet is empty, and the debug path and the singleflight path  *)
(* do not mix.  Held says that a result a caller has been sent comes from  *)
(* a finished fetch of the caller's own key.                               *)
(***************************************************************************)
EXTENDS ProxyHandler, TLAPS

Early == {"new", "circuit", "blacklist", "l1", "l2", "join"}

Stages ==
    \A r \in Request :
        /\ pc[r] \in Early => fetch[r] = "none" /\ got[r] = NoRequest
        /\ pc[r] \in {"l1", "l2", "join", "wait"} => ~ask[r].debug
        /\ pc[r] = "debug" => ask[r].debug
        /\ pc[r] # "answered" => pending[r] = {} /\ answer[r] = NoAnswer
        /\ fetch[r] \in {"none", "fetching", "converting"} => result[r] = NoResult

Held ==
    \A r \in Request :
        pc[r] = "wait" /\ got[r] # NoRequest =>
            /\ KeyOf(got[r]) = KeyOf(r)
            /\ ~ask[got[r]].debug
            /\ fetch[got[r]] = "done"

IInv ==
    /\ TypeOK
    /\ Stages
    /\ SingleFlight
    /\ NoLostWaiter
    /\ Held
    /\ OnlyGoodMediaCached
    /\ LongCachingIsEarned

-----------------------------------------------------------------------------
(* What the operators of the pipeline and of its stores return.            *)

\* Every answer the handler can build is one, errors of every kind included.
LEMMA Replies ==
    /\ NoAnswer \in Answer
    /\ \A s \in Nat, via \in Via : StatusReply(s, via) \in Answer
    /\ \A res \in Result, fallback \in BOOLEAN : ErrorReply(res, fallback) \in Answer
<1>1. NoAnswer \in Answer
  BY DEF NoAnswer, Reply, Answer, CacheControl, Via, Image
<1>2. \A s \in Nat, via \in Via : StatusReply(s, via) \in Answer
  BY DEF StatusReply, Reply, Answer, CacheControl, Via, Image
<1>3. ASSUME NEW res \in Result, NEW fallback \in BOOLEAN
      PROVE  ErrorReply(res, fallback) \in Answer
  <2>1. res.status \in Nat
    <3>1. \A s \in Status : s \in Nat
      BY ProxyAssumption
    <3>2. res.status \in Status \cup {0}
      <4>1. res \in [kind: Kind, status: Status \cup {0}]
        BY DEF Result
      <4> QED
        BY <4>1, Zenon
    <3> QED
      BY <3>1, <3>2
  <2>2. StatusReply(res.status, "origin") \in Answer
    BY <1>2, <2>1 DEF Via
  <2> QED
    BY <2>1, <2>2 DEF ErrorReply, Reply, Answer, CacheControl, Via, Image
<1> QED
  BY <1>1, <1>2, <1>3

\* The breaker's methods keep its entries well typed, whatever the threshold.
LEMMA BreakerEntries ==
    ASSUME now \in Nat
    PROVE  /\ CB!NoEntry \in CB!Entry
           /\ \A e \in CB!Entry :
                 CB!AfterAllow(e) \in CB!Entry /\ CB!AfterFailure(e) \in CB!Entry
<1>1. CB!NoEntry \in CB!Entry
  BY DEF CB!NoEntry, CB!Entry, CB!State
<1>2. ASSUME NEW e \in CB!Entry
      PROVE  CB!AfterAllow(e) \in CB!Entry
  BY <1>2 DEF CB!AfterAllow, CB!Entry, CB!State
<1>3. ASSUME NEW e \in CB!Entry
      PROVE  CB!AfterFailure(e) \in CB!Entry
  BY <1>3, ProxyAssumption DEF CB!AfterFailure, CB!Entry, CB!State
<1> QED
  BY <1>1, <1>2, <1>3

\* The negative cache's entries are well typed, whatever the times to live.
LEMMA NegativeEntries ==
    ASSUME now \in Nat
    PROVE  /\ NC!NoEntry \in NC!Entry
           /\ \A s \in Status : NC!EntryFor(s) \in NC!Entry
BY ProxyAssumption DEF NC!NoEntry, NC!EntryFor, NC!Entry, NC!NoStatus, NC!Ttl

-----------------------------------------------------------------------------
LEMMA TypeInit == Init => TypeOK
<1> SUFFICES ASSUME Init PROVE TypeOK
  OBVIOUS
<1>1. CB!NoEntry \in CB!Entry
  BY DEF CB!NoEntry, CB!Entry, CB!State
<1>2. NC!NoEntry \in NC!Entry
  BY DEF NC!NoEntry, NC!Entry, NC!NoStatus
<1>3. NoResult \in Result
  BY DEF NoResult, Outcome, Result, Kind
<1> QED
  BY <1>1, <1>2, <1>3, Replies DEF Init, TypeOK, Stage

LEMMA TypeStep == TypeOK /\ [Next]_vars => TypeOK'
<1> SUFFICES ASSUME TypeOK, [Next]_vars PROVE TypeOK'
  OBVIOUS
<1>0. /\ \A r \in Request : ask[r] \in Ask /\ KeyOf(r) \in Key /\ HostOf(r) \in Domain
      /\ NoRequest \notin Request
      /\ Status \subseteq Nat
  BY ProxyAssumption DEF TypeOK, Ask, KeyOf, HostOf
<1>1. \A r \in Request : \A a \in Answer :
          Respond(r, a) => pc' \in [Request -> Stage] /\ answer' \in [Request -> Answer]
  BY DEF TypeOK, Respond, Stage
<1>2. \A r \in Request : \A s \in Stage :
          Goto(r, s) => pc' \in [Request -> Stage] /\ answer' \in [Request -> Answer]
  BY DEF TypeOK, Goto
<1>3. ASSUME NEW r \in Request, NEW kind \in Kind, NEW s \in Status \cup {0},
             Return(r, Outcome(kind, s))
      PROVE  /\ fetch' \in [Request -> {"none", "fetching", "converting", "returned", "done"}]
             /\ result' \in [Request -> Result]
  BY <1>3 DEF TypeOK, Return, Outcome, Result
<1>4. \A r \in Request : RecordFailure(HostOf(r)) => breaker' \in [Domain -> CB!Entry]
  BY <1>0, BreakerEntries DEF TypeOK, RecordFailure
<1>5. CASE UNCHANGED vars
  BY <1>5 DEF TypeOK, vars, reqVars, fetchVars, cacheVars, storeVars
<1>6. ASSUME NEW r \in Request, ContextDone(r) PROVE TypeOK'
  BY <1>6 DEF TypeOK, ContextDone, fetchVars, cacheVars, storeVars
<1>7. ASSUME NEW r \in Request, Handler(r) PROVE TypeOK'
  <2> USE DEF fetchVars, cacheVars, storeVars
  <2>1. CASE CheckNegative(r)
    <3>1. NC!Hit(KeyOf(r)) => neg[KeyOf(r)].status \in Nat
      BY <1>0 DEF TypeOK, NC!Entry, NC!Hit, NC!NoStatus
    <3>2. pc' \in [Request -> Stage] /\ answer' \in [Request -> Answer]
      <4>1. NC!Hit(KeyOf(r)) =>
               (IF ask[r].fallback THEN Reply(200, "failover", "negative", "fallback")
                ELSE StatusReply(neg[KeyOf(r)].status, "negative")) \in Answer
        BY <3>1, Replies DEF Reply, Answer, CacheControl, Via, Image
      <4>2. "circuit" \in Stage
        BY DEF Stage
      <4>3. CASE NC!Hit(KeyOf(r)) /\ ~ask[r].debug
        <5> DEFINE a == IF ask[r].fallback
                          THEN Reply(200, "failover", "negative", "fallback")
                          ELSE StatusReply(neg[KeyOf(r)].status, "negative")
        <5>1. Respond(r, a)
          BY <2>1, <4>3 DEF CheckNegative
        <5>2. a \in Answer
          BY <4>1, <4>3
        <5> QED
          BY <5>1, <5>2, <1>1, Zenon
      <4>4. CASE ~(NC!Hit(KeyOf(r)) /\ ~ask[r].debug)
        <5>1. Goto(r, "circuit")
          BY <2>1, <4>4 DEF CheckNegative
        <5> QED
          BY <5>1, <4>2, <1>2, Zenon
      <4> QED
        BY <4>3, <4>4, Zenon
    <3> QED
      BY <2>1, <3>2 DEF TypeOK, CheckNegative
  <2>2. CASE CheckCircuit(r)
    <3>1. pc' \in [Request -> Stage] /\ answer' \in [Request -> Answer]
      <4>1. Reply(503, "wait", "wait", "none") \in Answer
        BY DEF Reply, Answer, CacheControl, Via, Image
      <4> QED
        BY <2>2, <4>1, <1>1, <1>2 DEF CheckCircuit, Stage
    <3>2. breaker' \in [Domain -> CB!Entry]
      BY <2>2, <1>0, BreakerEntries DEF TypeOK, CheckCircuit
    <3> QED
      BY <2>2, <3>1, <3>2 DEF TypeOK, CheckCircuit
  <2>3. CASE CheckBlacklist(r)
    <3>1. pc' \in [Request -> Stage] /\ answer' \in [Request -> Answer]
      <4>1. Reply(403, "deny", "blacklist", "none") \in Answer
        BY DEF Reply, Answer, CacheControl, Via, Image
      <4> QED
        BY <2>3, <4>1, <1>1, <1>2 DEF CheckBlacklist, Stage
    <3> QED
      BY <2>3, <3>1 DEF TypeOK, CheckBlacklist
  <2>4. CASE LookupL1(r)
    <3>1. pc' \in [Request -> Stage] /\ answer' \in [Request -> Answer]
      <4>1. /\ Reply(200, "success", "l1", "media") \in Answer
            /\ Reply(304, "success", "l1", "none") \in Answer
        BY DEF Reply, Answer, CacheControl, Via, Image
      <4> QED
        BY <2>4, <4>1, <1>1, <1>2 DEF LookupL1, Stage
    <3> QED
      BY <2>4, <3>1, <1>0 DEF TypeOK, LookupL1
  <2>5. CASE LookupL2(r)
    <3>1. pc' \in [Request -> Stage] /\ answer' \in [Request -> Answer]
      <4>1. Reply(200, "success", "l2", "media") \in Answer
        BY DEF Reply, Answer, CacheControl, Via, Image
      <4> QED
        BY <2>5, <4>1, <1>1, <1>2 DEF LookupL2, Stage
    <3> QED
      BY <2>5, <3>1, <1>0 DEF TypeOK, LookupL2
  <2>6. CASE Join(r)
    BY <2>6, <1>0, <1>2 DEF TypeOK, Join, Stage
  <2>7. CASE Receive(r)
    <3>1. pc' \in [Request -> Stage] /\ answer' \in [Request -> Answer]
      <4>1. Reply(200, "success", "origin", "media") \in Answer
        BY DEF Reply, Answer, CacheControl, Via, Image
      <4>2. ErrorReply(result[got[r]], ask[r].fallback) \in Answer
        BY <2>7, <1>0, Replies DEF TypeOK, Receive, Ask
      <4> QED
        BY <2>7, <4>1, <4>2, <1>1 DEF Receive
    <3> QED
      BY <2>7, <3>1 DEF TypeOK, Receive
  <2>8. CASE GiveUp(r)
    <3>1. Reply(504, "5xx", "timeout", "none") \in Answer
      BY DEF Reply, Answer, CacheControl, Via, Image
    <3> QED
      BY <2>8, <3>1, <1>1 DEF TypeOK, GiveUp
  <2>9. CASE DebugAnswer(r)
    <3>1. pc' \in [Request -> Stage] /\ answer' \in [Request -> Answer]
      <4>1. Reply(200, "no-store", "origin", "media") \in Answer
        BY DEF Reply, Answer, CacheControl, Via, Image
      <4>2. ErrorReply(result[r], ask[r].fallback) \in Answer
        BY <1>0, Replies DEF TypeOK, Ask
      <4> QED
        BY <2>9, <4>1, <4>2, <1>1 DEF DebugAnswer
    <3> QED
      BY <2>9, <3>1 DEF TypeOK, DebugAnswer
  <2> QED
    BY <1>7, <2>1, <2>2, <2>3, <2>4, <2>5, <2>6, <2>7, <2>8, <2>9 DEF Handler
<1>8. ASSUME NEW r \in Request, OriginFetch(r) PROVE TypeOK'
  <2> USE DEF reqVars, cacheVars, storeVars
  <2>0. {"tooLarge", "network", "status", "contentType", "ok", "conversion"} \subseteq Kind
    BY DEF Kind
  <2>1. CASE FetchTooLarge(r)
    BY <2>1, <2>0, <1>3 DEF TypeOK, FetchTooLarge
  <2>2. CASE FetchFails(r) \/ FetchAborted(r)
    BY <2>2, <2>0, <1>3, <1>4 DEF TypeOK, FetchFails, FetchAborted
  <2>3. ASSUME NEW s \in Status, FetchStatus(r, s) PROVE TypeOK'
    BY <2>3, <2>0, <1>0, <1>3, <1>4, NegativeEntries DEF TypeOK, FetchStatus
  <2>4. ASSUME NEW isMedia \in BOOLEAN, FetchBody(r, isMedia) PROVE TypeOK'
    <3>1. breaker' \in [Domain -> CB!Entry]
      BY <2>4, <1>0, BreakerEntries DEF TypeOK, FetchBody
    <3> QED
      BY <2>4, <3>1, <2>0, <1>3 DEF TypeOK, FetchBody
  <2>5. CASE Convert(r)
    BY <2>5, <2>0, <1>3 DEF TypeOK, Convert
  <2>6. CASE ConvertPanics(r)
    <3>1. pc' \in [Request -> Stage] /\ answer' \in [Request -> Answer]
      <4>1. Reply(500, "none", "panic", "none") \in Answer
        BY DEF Reply, Answer, CacheControl, Via, Image
      <4>2. CASE ask[r].debug
        <5>1. Respond(r, Reply(500, "none", "panic", "none"))
          BY <2>6, <4>2 DEF ConvertPanics
        <5> QED
          BY <5>1, <4>1, <1>1, Zenon
      <4>3. CASE ~ask[r].debug
        BY <2>6, <4>3 DEF TypeOK, ConvertPanics
      <4> QED
        BY <4>2, <4>3
    <3> QED
      BY <2>6, <3>1 DEF TypeOK, ConvertPanics
  <2> QED
    BY <1>8, <2>1, <2>2, <2>3, <2>4, <2>5, <2>6 DEF OriginFetch
<1>9. ASSUME NEW r \in Request, FlightEnds(r) PROVE TypeOK'
  BY <1>9 DEF TypeOK, FlightEnds, cacheVars, storeVars
<1>10. ASSUME NEW r \in Request, AsyncWrites(r) PROVE TypeOK'
  BY <1>10, <1>0 DEF TypeOK, AsyncWrites, PutL1, PutL2, SetTracker, PutFails, Finish,
     reqVars, fetchVars, storeVars
<1>11. ASSUME NEW k \in Key, Evict(k) PROVE TypeOK'
  BY <1>11 DEF TypeOK, Evict, reqVars, fetchVars, storeVars
<1>12. CASE CollectBreaker
  BY <1>12, BreakerEntries DEF TypeOK, CollectBreaker, CB!Collected, reqVars, fetchVars, cacheVars
<1>13. CASE CollectNegative
  BY <1>13, NegativeEntries DEF TypeOK, CollectNegative, NC!Collected, reqVars, fetchVars, cacheVars
<1>14. CASE Tick
  BY <1>14 DEF TypeOK, Tick, reqVars, fetchVars, cacheVars, storeVars
<1> QED
  BY <1>5, <1>6, <1>7, <1>8, <1>9, <1>10, <1>11, <1>12, <1>13, <1>14 DEF Next

-----------------------------------------------------------------------------
\* A request goes through the stages in order, and nothing of a later stage is
\* there early.
LEMMA StagesStep == TypeOK /\ Stages /\ [Next]_vars => Stages'
<1> SUFFICES ASSUME TypeOK, Stages, [Next]_vars PROVE Stages'
  OBVIOUS
<1> USE DEF Stages, Early, KeyOf
<1>1. CASE UNCHANGED vars
  BY <1>1 DEF vars, reqVars, fetchVars, cacheVars
<1>2. ASSUME NEW r \in Request, Handler(r) PROVE Stages'
  <2> USE DEF TypeOK, Goto, Respond, fetchVars, cacheVars
  <2>1. CASE CheckNegative(r) \/ CheckCircuit(r) \/ CheckBlacklist(r)
    BY <2>1 DEF CheckNegative, CheckCircuit, CheckBlacklist
  <2>2. CASE LookupL1(r)
    BY <2>2 DEF LookupL1
  <2>3. CASE LookupL2(r)
    BY <2>3 DEF LookupL2
  <2>4. CASE Join(r)
    BY <2>4 DEF Join
  <2>5. CASE Receive(r) \/ GiveUp(r) \/ DebugAnswer(r)
    BY <2>5 DEF Receive, GiveUp, DebugAnswer
  <2> QED
    BY <1>2, <2>1, <2>2, <2>3, <2>4, <2>5 DEF Handler
<1>3. ASSUME NEW r \in Request, OriginFetch(r) PROVE Stages'
  <2> USE DEF TypeOK, Return, reqVars, cacheVars
  <2>1. CASE FetchTooLarge(r) \/ FetchFails(r) \/ FetchAborted(r) \/ Convert(r)
    BY <2>1 DEF FetchTooLarge, FetchFails, FetchAborted, Convert
  <2>2. ASSUME NEW s \in Status, FetchStatus(r, s) PROVE Stages'
    BY <2>2 DEF FetchStatus
  <2>3. ASSUME NEW isMedia \in BOOLEAN, FetchBody(r, isMedia) PROVE Stages'
    BY <2>3 DEF FetchBody
  <2>4. CASE ConvertPanics(r)
    <3>1. \/ UNCHANGED <<pc, answer>>
          \/ Respond(r, Reply(500, "none", "panic", "none"))
      BY <2>4 DEF ConvertPanics
    <3>2. fetch[r] = "converting" /\ fetch' = [fetch EXCEPT ![r] = "done"]
      BY <2>4 DEF ConvertPanics
    <3>3. UNCHANGED <<ask, got, pending, result>>
      BY <2>4 DEF ConvertPanics
    <3> QED
      BY <3>1, <3>2, <3>3 DEF Respond
  <2> QED
    BY <1>3, <2>1, <2>2, <2>3, <2>4 DEF OriginFetch
<1>4. ASSUME NEW r \in Request, FlightEnds(r) PROVE Stages'
  BY <1>4 DEF TypeOK, FlightEnds, Waiting, cacheVars
<1>5. ASSUME NEW r \in Request, AsyncWrites(r) PROVE Stages'
  BY <1>5 DEF TypeOK, AsyncWrites, PutL1, PutL2, SetTracker, PutFails, Finish, reqVars, fetchVars
<1>6. ASSUME NEW r \in Request, ContextDone(r) PROVE Stages'
  BY <1>6 DEF ContextDone, fetchVars, cacheVars
<1>7. CASE (\E k \in Key : Evict(k)) \/ CollectBreaker \/ CollectNegative \/ Tick
  BY <1>7 DEF Evict, CollectBreaker, CollectNegative, Tick, reqVars, fetchVars, cacheVars
<1> QED
  BY <1>1, <1>2, <1>3, <1>4, <1>5, <1>6, <1>7 DEF Next

-----------------------------------------------------------------------------
\* The flight of a key changes hands only when it is free, and is freed only by
\* its own fetch.
LEMMA SingleFlightStep ==
    TypeOK /\ Stages /\ SingleFlight /\ [Next]_vars => SingleFlight'
<1> SUFFICES ASSUME TypeOK, Stages, SingleFlight, [Next]_vars PROVE SingleFlight'
  OBVIOUS
<1>0. /\ NoRequest \notin Request
      /\ \A r \in Request : KeyOf(r) \in Key
  BY ProxyAssumption DEF TypeOK, Ask, KeyOf
<1> USE DEF SingleFlight, Running, KeyOf
<1>1. CASE UNCHANGED <<ask, fetch, flight, up>>
  BY <1>1
<1>2. ASSUME NEW r \in Request, CheckBlacklist(r) PROVE SingleFlight'
  BY <1>2 DEF TypeOK, CheckBlacklist, Stages, Early
<1>3. ASSUME NEW r \in Request, Join(r) PROVE SingleFlight'
  BY <1>3, <1>0 DEF TypeOK, Join, Stages, Early
<1>4. ASSUME NEW r \in Request, DebugAnswer(r) PROVE SingleFlight'
  BY <1>4 DEF TypeOK, DebugAnswer, Stages
<1>5. ASSUME NEW r \in Request, OriginFetch(r) PROVE SingleFlight'
  <2> USE DEF TypeOK, Return, reqVars
  <2>1. CASE FetchTooLarge(r)
    BY <2>1 DEF FetchTooLarge
  <2>2. CASE FetchFails(r)
    BY <2>2 DEF FetchFails
  <2>3. CASE FetchAborted(r)
    BY <2>3 DEF FetchAborted
  <2>4. CASE Convert(r)
    BY <2>4 DEF Convert
  <2>5. ASSUME NEW s \in Status, FetchStatus(r, s) PROVE SingleFlight'
    BY <2>5 DEF FetchStatus
  <2>6. ASSUME NEW isMedia \in BOOLEAN, FetchBody(r, isMedia) PROVE SingleFlight'
    BY <2>6 DEF FetchBody
  <2>7. CASE ConvertPanics(r)
    BY <2>7 DEF ConvertPanics
  <2> QED
    BY <1>5, <2>1, <2>2, <2>3, <2>4, <2>5, <2>6, <2>7 DEF OriginFetch
<1>6. ASSUME NEW r \in Request, FlightEnds(r) PROVE SingleFlight'
  BY <1>6, <1>0 DEF TypeOK, FlightEnds
<1>7. ASSUME NEW r \in Request,
             \/ ContextDone(r) \/ CheckNegative(r) \/ CheckCircuit(r)
             \/ LookupL1(r) \/ LookupL2(r) \/ Receive(r) \/ GiveUp(r) \/ AsyncWrites(r)
      PROVE  UNCHANGED <<ask, fetch, flight, up>>
  BY <1>7 DEF ContextDone, CheckNegative, CheckCircuit, LookupL1, LookupL2, Receive, GiveUp,
     AsyncWrites, PutL1, PutL2, SetTracker, PutFails, reqVars, fetchVars
<1>8. (\E k \in Key : Evict(k)) \/ CollectBreaker \/ CollectNegative \/ Tick
         => UNCHANGED <<ask, fetch, flight, up>>
  BY DEF Evict, CollectBreaker, CollectNegative, Tick, reqVars, fetchVars
<1>9. UNCHANGED vars => UNCHANGED <<ask, fetch, flight, up>>
  BY DEF vars, reqVars, fetchVars
<1> QED
  BY <1>1, <1>2, <1>3, <1>4, <1>5, <1>6, <1>7, <1>8, <1>9 DEF Next, Handler

-----------------------------------------------------------------------------
\* A caller joins the flight that is there or starts one; the end of a flight
\* serves everybody who waits for its key.
LEMMA NoLostWaiterStep ==
    TypeOK /\ Stages /\ NoLostWaiter /\ [Next]_vars => NoLostWaiter'
<1> SUFFICES ASSUME TypeOK, Stages, NoLostWaiter, [Next]_vars PROVE NoLostWaiter'
  OBVIOUS
<1>0. /\ NoRequest \notin Request
      /\ \A r \in Request : KeyOf(r) \in Key
  BY ProxyAssumption DEF TypeOK, Ask, KeyOf
<1> USE DEF NoLostWaiter, KeyOf
<1>1. CASE UNCHANGED <<ask, pc, got, flight>> /\ (up' => up)
  BY <1>1
<1>2. ASSUME NEW r \in Request, Handler(r) PROVE NoLostWaiter'
  <2> DEFINE Elsewhere == Stage \ {"wait"}
             Moves == /\ UNCHANGED <<ask, flight, up>>
                      /\ \E stage \in Elsewhere : pc' = [pc EXCEPT ![r] = stage]
                      /\ \A q \in Request \ {r} : got'[q] = got[q]
  <2>1. CASE Moves
    <3>1. pc'[r] # "wait" /\ \A q \in Request \ {r} : pc'[q] = pc[q]
      BY <2>1 DEF TypeOK
    <3> QED
      BY <2>1, <3>1
  <2>2. {"answered", "circuit", "blacklist", "debug", "l1", "l2", "join"} \subseteq Elsewhere
    BY DEF Stage
  <2> HIDE DEF Elsewhere
  <2>3. ASSUME CheckNegative(r) \/ CheckCircuit(r) \/ CheckBlacklist(r) PROVE Moves
    BY <2>2, <2>3 DEF CheckNegative, CheckCircuit, CheckBlacklist, Goto, Respond, fetchVars
  <2>4. ASSUME LookupL1(r) PROVE Moves
    BY <2>2, <2>4 DEF LookupL1, Goto, Respond, fetchVars, TypeOK
  <2>5. ASSUME LookupL2(r) PROVE Moves
    BY <2>2, <2>5 DEF LookupL2, Goto, Respond, fetchVars, TypeOK
  <2>6. CASE Join(r)
    <3>1. /\ flight[KeyOf(r)] = NoRequest => flight' = [flight EXCEPT ![KeyOf(r)] = r]
          /\ flight[KeyOf(r)] # NoRequest => flight' = flight
          /\ pc' = [pc EXCEPT ![r] = "wait"] /\ UNCHANGED <<ask, got, up>> /\ up
      BY <2>6 DEF Join, Goto
    <3>2. /\ flight'[KeyOf(r)] # NoRequest
          /\ \A k \in Key : flight[k] # NoRequest => flight'[k] # NoRequest
      BY <3>1, <1>0 DEF TypeOK
    <3>3. \A q \in Request \ {r} : pc'[q] = pc[q]
      BY <3>1 DEF TypeOK
    <3> QED
      BY <1>0, <3>1, <3>2, <3>3
  <2>7. ASSUME Receive(r) \/ GiveUp(r) PROVE Moves
    BY <2>2, <2>7 DEF Receive, GiveUp, Respond, fetchVars
  <2>8. ASSUME DebugAnswer(r) PROVE Moves
    BY <2>2, <2>8 DEF DebugAnswer, Respond, TypeOK
  <2> HIDE DEF Moves
  <2> QED
    BY <1>2, <2>1, <2>3, <2>4, <2>5, <2>6, <2>7, <2>8 DEF Handler
<1>3. ASSUME NEW r \in Request, FlightEnds(r) PROVE NoLostWaiter'
  BY <1>3, <1>0 DEF TypeOK, FlightEnds, Waiting
<1>4. ASSUME NEW r \in Request, ConvertPanics(r) PROVE NoLostWaiter'
  BY <1>4 DEF TypeOK, ConvertPanics, Respond
<1>5. ASSUME NEW r \in Request,
             \/ FetchTooLarge(r) \/ FetchFails(r) \/ FetchAborted(r) \/ Convert(r)
             \/ \E s \in Status : FetchStatus(r, s)
             \/ \E isMedia \in BOOLEAN : FetchBody(r, isMedia)
             \/ ContextDone(r) \/ AsyncWrites(r)
      PROVE  UNCHANGED <<ask, pc, got, flight>> /\ (up' => up)
  BY <1>5 DEF FetchTooLarge, FetchFails, FetchAborted, Convert, FetchStatus, FetchBody,
     ContextDone, AsyncWrites, PutL1, PutL2, SetTracker, PutFails, reqVars, fetchVars
<1>6. (\E k \in Key : Evict(k)) \/ CollectBreaker \/ CollectNegative \/ Tick
         => UNCHANGED <<ask, pc, got, flight>> /\ (up' => up)
  BY DEF Evict, CollectBreaker, CollectNegative, Tick, reqVars, fetchVars
<1>7. UNCHANGED vars => UNCHANGED <<ask, pc, got, flight>> /\ (up' => up)
  BY DEF vars, reqVars, fetchVars
<1> QED
  BY <1>1, <1>2, <1>3, <1>4, <1>5, <1>6, <1>7 DEF Next, OriginFetch

-----------------------------------------------------------------------------
\* What a waiting caller has been sent comes from a finished fetch of its key.
LEMMA HeldStep == TypeOK /\ Stages /\ Held /\ [Next]_vars => Held'
<1> SUFFICES ASSUME TypeOK, Stages, Held, [Next]_vars PROVE Held'
  OBVIOUS
<1>0. NoRequest \notin Request
  BY ProxyAssumption
<1> USE DEF Held, KeyOf
<1>1. CASE UNCHANGED <<ask, pc, got, fetch>>
  BY <1>1
<1>2. ASSUME NEW r \in Request, Handler(r) PROVE Held'
  <2> USE DEF TypeOK, Stages, Early, Goto, Respond, fetchVars
  <2>1. CASE CheckNegative(r) \/ CheckCircuit(r)
    BY <2>1 DEF CheckNegative, CheckCircuit
  <2>2. CASE CheckBlacklist(r)
    BY <2>2 DEF CheckBlacklist
  <2>3. CASE LookupL1(r) \/ LookupL2(r)
    BY <2>3 DEF LookupL1, LookupL2
  <2>4. CASE Join(r)
    BY <2>4 DEF Join
  <2>5. CASE Receive(r) \/ GiveUp(r) \/ DebugAnswer(r)
    BY <2>5 DEF Receive, GiveUp, DebugAnswer
  <2> QED
    BY <1>2, <2>1, <2>2, <2>3, <2>4, <2>5 DEF Handler
<1>3. ASSUME NEW r \in Request, OriginFetch(r) PROVE Held'
  <2>1. /\ fetch[r] \in {"fetching", "converting"}
        /\ UNCHANGED <<ask, got>>
        /\ \A q \in Request : q # r => fetch'[q] = fetch[q]
        /\ \A q \in Request : pc'[q] = "wait" => pc[q] = "wait"
    BY <1>3 DEF TypeOK, OriginFetch, FetchTooLarge, FetchFails, FetchAborted, FetchStatus,
       FetchBody, Convert, ConvertPanics, Respond, Return, reqVars
  <2> QED
    BY <2>1 DEF TypeOK
<1>4. ASSUME NEW r \in Request, FlightEnds(r) PROVE Held'
  BY <1>4, <1>0 DEF TypeOK, FlightEnds, Waiting
<1>5. ASSUME NEW r \in Request, ContextDone(r) \/ AsyncWrites(r)
      PROVE  UNCHANGED <<ask, pc, got, fetch>>
  BY <1>5 DEF ContextDone, AsyncWrites, PutL1, PutL2, SetTracker, PutFails, reqVars, fetchVars
<1>6. (\E k \in Key : Evict(k)) \/ CollectBreaker \/ CollectNegative \/ Tick
         => UNCHANGED <<ask, pc, got, fetch>>
  BY DEF Evict, CollectBreaker, CollectNegative, Tick, reqVars, fetchVars
<1>7. UNCHANGED vars => UNCHANGED <<ask, pc, got, fetch>>
  BY DEF vars, reqVars, fetchVars
<1> QED
  BY <1>1, <1>2, <1>3, <1>4, <1>5, <1>6, <1>7 DEF Next

-----------------------------------------------------------------------------
\* The outcome of a fetch is final, and so is its being good media of a key.
LEMMA ResultStable ==
    ASSUME TypeOK, Stages, [Next]_vars
    PROVE  /\ UNCHANGED ask
           /\ \A r \in Request : result[r].kind # "none" => result'[r] = result[r]
           /\ \A k \in Key, r \in Request : GoodMedia(k, r) => GoodMedia(k, r)'
<1>1. UNCHANGED ask
  BY DEF Next, vars, reqVars, ContextDone, Handler, CheckNegative, CheckCircuit, CheckBlacklist,
     LookupL1, LookupL2, Join, Receive, GiveUp, DebugAnswer, OriginFetch, FetchTooLarge,
     FetchFails, FetchAborted, FetchStatus, FetchBody, Convert, ConvertPanics, FlightEnds,
     AsyncWrites, PutL1, PutL2, SetTracker, PutFails, Evict, CollectBreaker, CollectNegative,
     Tick
<1>2. \/ UNCHANGED result
      \/ \E r \in Request :
            /\ fetch[r] \in {"fetching", "converting"}
            /\ \A q \in Request : q # r => result'[q] = result[q]
  <2>1. ASSUME NEW r \in Request, OriginFetch(r)
        PROVE  /\ fetch[r] \in {"fetching", "converting"}
               /\ \A q \in Request : q # r => result'[q] = result[q]
    BY <2>1 DEF TypeOK, OriginFetch, FetchTooLarge, FetchFails, FetchAborted, FetchStatus,
       FetchBody, Convert, ConvertPanics, Return
  <2>2. ASSUME NEW r \in Request,
               ContextDone(r) \/ Handler(r) \/ FlightEnds(r) \/ AsyncWrites(r)
        PROVE  UNCHANGED result
    BY <2>2 DEF ContextDone, Handler, CheckNegative, CheckCircuit, CheckBlacklist, LookupL1,
       LookupL2, Join, Receive, GiveUp, DebugAnswer, FlightEnds, AsyncWrites, PutL1, PutL2,
       SetTracker, PutFails, fetchVars
  <2>3. (\E k \in Key : Evict(k)) \/ CollectBreaker \/ CollectNegative \/ Tick \/ UNCHANGED vars
           => UNCHANGED result
    BY DEF Evict, CollectBreaker, CollectNegative, Tick, vars, fetchVars
  <2> QED
    BY <2>1, <2>2, <2>3 DEF Next
<1>3. \A r \in Request : result[r].kind # "none" => result'[r] = result[r]
  BY <1>2 DEF Stages, NoResult, Outcome
<1> QED
  BY <1>1, <1>3 DEF GoodMedia, KeyOf

\* Media that is good now is good after the step, so only what a step stores or
\* promises to store has to be looked at.
LEMMA OnlyGoodMediaStep ==
    TypeOK /\ Stages /\ Held /\ OnlyGoodMediaCached /\ [Next]_vars => OnlyGoodMediaCached'
<1> SUFFICES ASSUME TypeOK, Stages, Held, OnlyGoodMediaCached, [Next]_vars
             PROVE  OnlyGoodMediaCached'
  OBVIOUS
<1> DEFINE Stored(k, r) == r = NoRequest \/ GoodMedia(k, r)
           Promised(r) == pending[r] # {} => got[r] # NoRequest /\ GoodMedia(KeyOf(r), got[r])
<1>0. /\ NoRequest \notin Request
      /\ \A r \in Request : KeyOf(r) \in Key
      /\ \A r \in Request : KeyOf(r)' = KeyOf(r)
  BY ProxyAssumption, ResultStable DEF TypeOK, Ask, KeyOf
<1>1. \A k \in Key, r \in Request : GoodMedia(k, r) => GoodMedia(k, r)'
  BY ResultStable
<1>2. /\ \A k \in Key : l1'[k] # l1[k] => Stored(k, l1'[k])
      /\ \A k \in Key : l2'[k] # l2[k] => Stored(k, l2'[k])
  <2>1. ASSUME NEW r \in Request, PutL1(r) \/ PutL2(r)
        PROVE  /\ \A k \in Key : l1'[k] # l1[k] => Stored(k, l1'[k])
               /\ \A k \in Key : l2'[k] # l2[k] => Stored(k, l2'[k])
    <3>1. got[r] # NoRequest /\ GoodMedia(KeyOf(r), got[r])
      BY <2>1 DEF PutL1, PutL2, Finish, OnlyGoodMediaCached
    <3> QED
      BY <2>1, <3>1, <1>0 DEF TypeOK, PutL1, PutL2
  <2>2. ASSUME NEW k \in Key, Evict(k)
        PROVE  \A j \in Key : l1'[j] \in {l1[j], NoRequest} /\ l2'[j] \in {l2[j], NoRequest}
    BY <2>2 DEF TypeOK, Evict
  <2>3. ASSUME NEW r \in Request,
               \/ ContextDone(r) \/ Handler(r) \/ OriginFetch(r) \/ FlightEnds(r)
               \/ SetTracker(r) \/ PutFails(r)
        PROVE  UNCHANGED <<l1, l2>>
    BY <2>3 DEF ContextDone, Handler, CheckNegative, CheckCircuit, CheckBlacklist, LookupL1,
       LookupL2, Join, Receive, GiveUp, DebugAnswer, OriginFetch, FetchTooLarge, FetchFails,
       FetchAborted, FetchStatus, FetchBody, Convert, ConvertPanics, FlightEnds, SetTracker,
       PutFails, cacheVars
  <2>4. CollectBreaker \/ CollectNegative \/ Tick \/ UNCHANGED vars => UNCHANGED <<l1, l2>>
    BY DEF CollectBreaker, CollectNegative, Tick, vars, cacheVars
  <2> QED
    BY <2>1, <2>2, <2>3, <2>4 DEF Next, AsyncWrites
<1>3. ASSUME NEW q \in Request, pending'[q] # {}
      PROVE  /\ got'[q] # NoRequest
             /\ GoodMedia(KeyOf(q), got'[q])
  <2> USE DEF TypeOK
  <2>0. Promised(q)
    BY DEF OnlyGoodMediaCached
  <2>1. CASE UNCHANGED <<pending, got>>
    BY <2>0, <2>1, <1>3
  <2>2. ASSUME NEW r \in Request, LookupL1(r) \/ LookupL2(r)
        PROVE  got'[q] # NoRequest /\ GoodMedia(KeyOf(q), got'[q])
    <3>1. CASE q = r
      BY <2>2, <3>1, <1>0, <1>3 DEF LookupL1, LookupL2, Stages, OnlyGoodMediaCached
    <3>2. CASE q # r
      BY <2>2, <3>2, <2>0, <1>3 DEF LookupL1, LookupL2
    <3> QED
      BY <3>1, <3>2
  <2>3. ASSUME NEW r \in Request, Receive(r)
        PROVE  got'[q] # NoRequest /\ GoodMedia(KeyOf(q), got'[q])
    <3>1. CASE q = r
      BY <2>3, <3>1, <1>3 DEF Receive, Held, Stages, GoodMedia
    <3>2. CASE q # r
      BY <2>3, <3>2, <2>0, <1>3 DEF Receive
    <3> QED
      BY <3>1, <3>2
  <2>4. ASSUME NEW r \in Request, DebugAnswer(r)
        PROVE  got'[q] # NoRequest /\ GoodMedia(KeyOf(q), got'[q])
    BY <2>4, <2>0, <1>3 DEF DebugAnswer, Stages, cacheVars
  <2>5. ASSUME NEW r \in Request, FlightEnds(r)
        PROVE  got'[q] # NoRequest /\ GoodMedia(KeyOf(q), got'[q])
    BY <2>5, <2>0, <1>3 DEF FlightEnds, Waiting, Stages, cacheVars
  <2>6. ASSUME NEW r \in Request, AsyncWrites(r)
        PROVE  got'[q] # NoRequest /\ GoodMedia(KeyOf(q), got'[q])
    <3>1. UNCHANGED got /\ pending[q] # {}
      BY <2>6, <1>3 DEF AsyncWrites, PutL1, PutL2, SetTracker, PutFails, Finish, reqVars
    <3> QED
      BY <3>1, <2>0
  <2>7. ASSUME NEW r \in Request,
               \/ ContextDone(r) \/ CheckNegative(r) \/ CheckCircuit(r) \/ CheckBlacklist(r)
               \/ Join(r) \/ GiveUp(r) \/ OriginFetch(r)
        PROVE  UNCHANGED <<pending, got>>
    BY <2>7 DEF ContextDone, CheckNegative, CheckCircuit, CheckBlacklist, Join, GiveUp,
       OriginFetch, FetchTooLarge, FetchFails, FetchAborted, FetchStatus, FetchBody, Convert,
       ConvertPanics, reqVars, cacheVars
  <2>8. (\E k \in Key : Evict(k)) \/ CollectBreaker \/ CollectNegative \/ Tick \/ UNCHANGED vars
           => UNCHANGED <<pending, got>>
    BY DEF Evict, CollectBreaker, CollectNegative, Tick, vars, reqVars, cacheVars
  <2> QED
    BY <2>1, <2>2, <2>3, <2>4, <2>5, <2>6, <2>7, <2>8 DEF Next, Handler
<1>4. TypeOK'
  BY TypeStep
<1>5. \A k \in Key : /\ l1'[k] # NoRequest => GoodMedia(k, l1'[k])
                     /\ l2'[k] # NoRequest => GoodMedia(k, l2'[k])
  BY <1>2 DEF OnlyGoodMediaCached
<1>6. \A k \in Key : l1'[k] \in Request \cup {NoRequest} /\ l2'[k] \in Request \cup {NoRequest}
  BY <1>4 DEF TypeOK
<1>7. \A r \in Request : pending'[r] # {} => got'[r] \in Request
  BY <1>3, <1>4 DEF TypeOK
<1>8. ASSUME NEW k \in Key PROVE l1'[k] # NoRequest => GoodMedia(k, l1[k])'
  BY <1>1, <1>5, <1>6 DEF GoodMedia, KeyOf
<1>9. ASSUME NEW k \in Key PROVE l2'[k] # NoRequest => GoodMedia(k, l2[k])'
  BY <1>1, <1>5, <1>6 DEF GoodMedia, KeyOf
<1>10. ASSUME NEW r \in Request, pending'[r] # {}
       PROVE  got'[r] # NoRequest /\ GoodMedia(KeyOf(r), got[r])'
  BY <1>0, <1>1, <1>3, <1>7, <1>10 DEF GoodMedia, KeyOf
<1> QED
  BY <1>8, <1>9, <1>10, Zenon DEF OnlyGoodMediaCached

-----------------------------------------------------------------------------
\* Of the answers to errors only that to a 410 may be kept for long.
LEMMA LongErrors ==
    /\ \A s, via : StatusReply(s, via).cc = "success" =>
          StatusReply(s, via).status = 410 /\ StatusReply(s, via).image = "none"
    /\ \A res, fallback : ErrorReply(res, fallback).cc = "success" =>
          ErrorReply(res, fallback).status = 410 /\ ErrorReply(res, fallback).image = "none"
<1>1. \A s, via : StatusReply(s, via).cc = "success" =>
          StatusReply(s, via).status = 410 /\ StatusReply(s, via).image = "none"
  BY DEF StatusReply, Reply
<1> QED
  BY <1>1 DEF ErrorReply, Reply

LEMMA LongCachingStep ==
    TypeOK /\ Stages /\ Held /\ OnlyGoodMediaCached /\ LongCachingIsEarned /\ [Next]_vars
        => LongCachingIsEarned'
<1> SUFFICES ASSUME TypeOK, Stages, Held, OnlyGoodMediaCached, LongCachingIsEarned, [Next]_vars
             PROVE  LongCachingIsEarned'
  OBVIOUS
<1> DEFINE Earned(a, k, g) ==
               \/ a.status = 410 /\ a.image = "none"
               \/ a.status \in {200, 304} /\ g # NoRequest /\ GoodMedia(k, g)
<1>1. /\ \A k \in Key, r \in Request : GoodMedia(k, r) => GoodMedia(k, r)'
      /\ \A r \in Request : KeyOf(r) \in Key /\ KeyOf(r)' = KeyOf(r)
  BY ProxyAssumption, ResultStable DEF TypeOK, Ask, KeyOf
<1>2. ASSUME NEW q \in Request, answer'[q].cc = "success"
      PROVE  Earned(answer'[q], KeyOf(q), got'[q])
  <2> USE DEF TypeOK, Respond, Goto
  <2>0. /\ answer[q].cc = "success" => Earned(answer[q], KeyOf(q), got[q])
        /\ answer[q].cc = "success" => pc[q] = "answered"
    BY DEF LongCachingIsEarned, Stages, NoAnswer, Reply
  <2>1. CASE UNCHANGED <<answer, got>>
    BY <2>0, <2>1, <1>2
  <2>2. ASSUME NEW r \in Request, CheckNegative(r) \/ CheckCircuit(r) \/ CheckBlacklist(r)
        PROVE  Earned(answer'[q], KeyOf(q), got'[q])
    <3>1. CASE q = r
      <4>1. \/ answer'[q] = answer[q]
            \/ answer'[q] = StatusReply(neg[KeyOf(r)].status, "negative")
            \/ answer'[q].cc \in {"failover", "wait", "deny"}
        BY <2>2, <3>1 DEF CheckNegative, CheckCircuit, CheckBlacklist, Reply
      <4>2. UNCHANGED got
        BY <2>2 DEF CheckNegative, CheckCircuit, CheckBlacklist
      <4> QED
        BY <4>1, <4>2, <2>0, <1>2, LongErrors
    <3>2. CASE q # r
      BY <2>2, <3>2, <2>0, <1>2 DEF CheckNegative, CheckCircuit, CheckBlacklist
    <3> QED
      BY <3>1, <3>2
  <2>3. ASSUME NEW r \in Request, LookupL1(r) \/ LookupL2(r)
        PROVE  Earned(answer'[q], KeyOf(q), got'[q])
    <3>1. CASE q = r
      <4>1. \/ UNCHANGED <<answer, got>>
            \/ /\ answer'[q].status \in {200, 304}
               /\ got'[q] \in {l1[KeyOf(q)], l2[KeyOf(q)]}
               /\ got'[q] # NoRequest
        BY <2>3, <3>1 DEF LookupL1, LookupL2, Reply
      <4> QED
        BY <4>1, <2>0, <1>1, <1>2 DEF OnlyGoodMediaCached
    <3>2. CASE q # r
      BY <2>3, <3>2, <2>0, <1>2 DEF LookupL1, LookupL2
    <3> QED
      BY <3>1, <3>2
  <2>4. ASSUME NEW r \in Request, Receive(r)
        PROVE  Earned(answer'[q], KeyOf(q), got'[q])
    <3>1. CASE q = r
      <4>1. \/ answer'[q] = ErrorReply(result[got[r]], ask[r].fallback)
            \/ answer'[q] = Reply(200, "success", "origin", "media") /\ result[got[r]].kind = "ok"
        BY <2>4, <3>1 DEF Receive
      <4>2. UNCHANGED got /\ got[r] # NoRequest /\ pc[r] = "wait"
        BY <2>4 DEF Receive
      <4> QED
        BY <4>1, <4>2, <3>1, <1>2, LongErrors DEF Held, GoodMedia, Reply
    <3>2. CASE q # r
      BY <2>4, <3>2, <2>0, <1>2 DEF Receive
    <3> QED
      BY <3>1, <3>2
  <2>5. ASSUME NEW r \in Request, DebugAnswer(r)
        PROVE  Earned(answer'[q], KeyOf(q), got'[q])
    <3>1. CASE q = r
      <4>1. \/ answer'[q] = ErrorReply(result[r], ask[r].fallback)
            \/ answer'[q] = Reply(200, "no-store", "origin", "media")
        BY <2>5, <3>1 DEF DebugAnswer
      <4> QED
        BY <4>1, <1>2, LongErrors DEF Reply
    <3>2. CASE q # r
      BY <2>5, <3>2, <2>0, <1>2 DEF DebugAnswer
    <3> QED
      BY <3>1, <3>2
  <2>6. ASSUME NEW r \in Request, GiveUp(r) \/ ConvertPanics(r)
        PROVE  Earned(answer'[q], KeyOf(q), got'[q])
    <3>1. UNCHANGED got /\ (answer'[q] = answer[q] \/ answer'[q].cc \in {"5xx", "none"})
      BY <2>6 DEF GiveUp, ConvertPanics, Reply
    <3> QED
      BY <3>1, <2>0, <1>2
  <2>7. ASSUME NEW r \in Request, FlightEnds(r)
        PROVE  Earned(answer'[q], KeyOf(q), got'[q])
    <3>1. UNCHANGED answer /\ (pc[q] = "answered" => got'[q] = got[q])
      BY <2>7 DEF FlightEnds, Waiting
    <3> QED
      BY <3>1, <2>0, <1>2
  <2>8. ASSUME NEW r \in Request,
               \/ ContextDone(r) \/ Join(r) \/ AsyncWrites(r)
               \/ FetchTooLarge(r) \/ FetchFails(r) \/ FetchAborted(r) \/ Convert(r)
               \/ \E s \in Status : FetchStatus(r, s)
               \/ \E isMedia \in BOOLEAN : FetchBody(r, isMedia)
        PROVE  UNCHANGED <<answer, got>>
    BY <2>8 DEF ContextDone, Join, AsyncWrites, PutL1, PutL2, SetTracker, PutFails,
       FetchTooLarge, FetchFails, FetchAborted, Convert, FetchStatus, FetchBody, reqVars
  <2>9. (\E k \in Key : Evict(k)) \/ CollectBreaker \/ CollectNegative \/ Tick \/ UNCHANGED vars
           => UNCHANGED <<answer, got>>
    BY DEF Evict, CollectBreaker, CollectNegative, Tick, vars, reqVars
  <2> QED
    BY <2>1, <2>2, <2>3, <2>4, <2>5, <2>6, <2>7, <2>8, <2>9 DEF Next, Handler, OriginFetch
<1>3. TypeOK'
  BY TypeStep
<1>4. SUFFICES ASSUME NEW q \in Request, answer'[q].cc = "success"
               PROVE  \/ answer'[q].status = 410 /\ answer'[q].image = "none"
                      \/ /\ answer'[q].status \in {200, 304}
                         /\ got'[q] # NoRequest /\ GoodMedia(KeyOf(q), got[q])'
  BY DEF LongCachingIsEarned
<1>5. CASE got'[q] # NoRequest /\ GoodMedia(KeyOf(q), got'[q])
  <2>1. got'[q] \in Request
    BY <1>3, <1>5 DEF TypeOK
  <2> QED
    BY <1>1, <1>2, <1>4, <1>5, <2>1 DEF GoodMedia, KeyOf
<1>6. CASE ~(got'[q] # NoRequest /\ GoodMedia(KeyOf(q), got'[q]))
  BY <1>2, <1>4, <1>6
<1> QED
  BY <1>5, <1>6

-----------------------------------------------------------------------------
LEMMA InitIInv == Init => IInv
<1> SUFFICES ASSUME Init PROVE IInv
  OBVIOUS
<1>1. TypeOK
  BY TypeInit
<1>2. Stages
  BY DEF Init, Stages
<1>3. SingleFlight
  <2>1. NoRequest \notin Request /\ \A r \in Request : KeyOf(r) \in Key
    BY <1>1, ProxyAssumption DEF TypeOK, Ask, KeyOf
  <2> QED
    BY <2>1 DEF Init, SingleFlight, Running
<1>4. NoLostWaiter /\ Held
  BY DEF Init, NoLostWaiter, Held
<1>5. OnlyGoodMediaCached
  BY DEF Init, OnlyGoodMediaCached
<1>6. LongCachingIsEarned
  BY DEF Init, LongCachingIsEarned, NoAnswer, Reply
<1> QED
  BY <1>1, <1>2, <1>3, <1>4, <1>5, <1>6 DEF IInv

LEMMA StepIInv == IInv /\ [Next]_vars => IInv'
BY TypeStep, StagesStep, SingleFlightStep, NoLostWaiterStep, HeldStep, OnlyGoodMediaStep,
   LongCachingStep DEF IInv

\* The conjunction of the properties and of Stages and Held is inductive.
THEOREM Inductive == Spec => []IInv
BY InitIInv, StepIInv, PTL DEF Spec

\* The pipeline's state, the stores' entries included, stays well typed for any
\* thresholds, timeouts and times to live of the configuration.
THEOREM TypeCorrect == Spec => []TypeOK
BY Inductive, PTL DEF IInv

\* For any number of requests, at most one fetch per key is under way outside
\* debug requests, and it is the one singleflight knows (proxy.go:236-267).
THEOREM OneFetchPerKey == Spec => []SingleFlight
BY Inductive, PTL DEF IInv

\* No caller waits for a flight that is no longer there (proxy.go:247-267).
THEOREM WaitersHaveAFlight == Spec => []NoLostWaiter
BY Inductive, PTL DEF IInv

\* What L1 and L2 hold or are about to be given is media of the key from a fetch
\* that succeeded and was not a debug request's (proxy.go:275-282, 374-377).
THEOREM CachesHoldGoodMedia == Spec => []OnlyGoodMediaCached
BY Inductive, PTL DEF IInv

\* The year-long Cache-Control is sent with good media, a 304 for it or a 410
\* only, whichever stage answers (proxy.go:687-696).
THEOREM LongCachingOnlyIfEarned == Spec => []LongCachingIsEarned
BY Inductive, PTL DEF IInv
=============================================================================
