----------------------- MODULE ProxyRefinementProofs -----------------------
(***************************************************************************)
(* ProxyHandler implements the two abstract specifications it is composed  *)
(* of.                                                                     *)
(*                                                                         *)
(* CircuitBreaker: under the refinement mapping Admission every step of    *)
(* the pipeline is a step of the breaker's own specification or leaves     *)
(* what that one sees alone.  What is proved of CircuitBreaker therefore   *)
(* holds of the breaker inside the pipeline.  The mapping is a function of *)
(* the request's stage, so a step is given by how it moves the Admission   *)
(* of the one request that takes it.                                       *)
(*                                                                         *)
(* ExpiringMap, which hides the clean-up of the negative cache: what the   *)
(* pipeline can read in MemoryNegativeCache it could have read there.      *)
(* Only three actions of the pipeline touch the map or the clock; that the *)
(* others do not is lemma OthersLeaveIt.                                   *)
(***************************************************************************)
EXTENDS ProxyHandlerProofs, FiniteSetTheorems

\* A request that was refused before or by the breaker never fetches.
Refused ==
    \A r \in Request :
        answer[r].via \in {"negative", "wait"} => pc[r] = "answered" /\ fetch[r] = "none"

\* The breaker's view of the requests.
Calls == [r \in Request |-> Admission(r)]

-----------------------------------------------------------------------------
\* Which stage an answer names.
LEMMA ViaOf ==
    /\ \A s, via : StatusReply(s, via).via = via
    /\ \A res, fallback : ErrorReply(res, fallback).via = "origin"
<1>1. \A s, via : StatusReply(s, via).via = via
  BY DEF StatusReply, Reply
<1> QED
  BY <1>1 DEF ErrorReply, Reply

LEMMA RefusedStep == TypeOK /\ Stages /\ Refused /\ [Next]_vars => Refused'
<1> SUFFICES ASSUME TypeOK, Stages, Refused, [Next]_vars PROVE Refused'
  OBVIOUS
<1> USE DEF Refused
<1>1. CASE UNCHANGED <<pc, answer, fetch>>
  BY <1>1
<1>2. ASSUME NEW r \in Request, Handler(r) PROVE Refused'
  <2> USE DEF TypeOK, Stages, Early, Goto, Respond, NoAnswer, fetchVars
  <2>1. CASE CheckNegative(r) \/ CheckCircuit(r)
    BY <2>1 DEF CheckNegative, CheckCircuit
  <2>2. CASE CheckBlacklist(r)
    BY <2>2 DEF CheckBlacklist, Reply
  <2>3. CASE LookupL1(r) \/ LookupL2(r)
    BY <2>3 DEF LookupL1, LookupL2, Reply
  <2>4. CASE Join(r)
    BY <2>4 DEF Join, Reply
  <2>5. CASE Receive(r)
    BY <2>5, ViaOf DEF Receive, Reply
  <2>6. CASE GiveUp(r)
    BY <2>6 DEF GiveUp, Reply
  <2>7. CASE DebugAnswer(r)
    BY <2>7, ViaOf DEF DebugAnswer, Reply
  <2> QED
    BY <1>2, <2>1, <2>2, <2>3, <2>4, <2>5, <2>6, <2>7 DEF Handler
<1>3. ASSUME NEW r \in Request, OriginFetch(r) PROVE Refused'
  <2>1. /\ fetch[r] \in {"fetching", "converting"}
        /\ \A q \in Request : q # r => fetch'[q] = fetch[q] /\ pc'[q] = pc[q]
        /\ \A q \in Request : answer'[q] = answer[q] \/ answer'[q].via = "panic"
        /\ pc'[r] \in {pc[r], "answered"}
    BY <1>3 DEF TypeOK, OriginFetch, FetchTooLarge, FetchFails, FetchAborted, FetchStatus,
       FetchBody, Convert, ConvertPanics, Respond, Reply, Return, reqVars
  <2> QED
    BY <2>1
<1>4. ASSUME NEW r \in Request, FlightEnds(r) PROVE Refused'
  BY <1>4 DEF TypeOK, FlightEnds
<1>5. ASSUME NEW r \in Request, ContextDone(r) \/ AsyncWrites(r)
      PROVE  UNCHANGED <<pc, answer, fetch>>
  BY <1>5 DEF ContextDone, AsyncWrites, PutL1, PutL2, SetTracker, PutFails, reqVars, fetchVars
<1>6. (\E k \in Key : Evict(k)) \/ CollectBreaker \/ CollectNegative \/ Tick \/ UNCHANGED vars
         => UNCHANGED <<pc, answer, fetch>>
  BY DEF Evict, CollectBreaker, CollectNegative, Tick, vars, reqVars, fetchVars
<1> QED
  BY <1>1, <1>2, <1>3, <1>4, <1>5, <1>6 DEF Next

-----------------------------------------------------------------------------
\* Each step of the pipeline is a step of the breaker's specification.
LEMMA BreakerStep ==
    TypeOK /\ Stages /\ Refused /\ [Next]_vars => [CB!Next]_(CB!vars)
<1> SUFFICES ASSUME TypeOK, Stages, Refused, [Next]_vars PROVE [CB!Next]_(CB!vars)
  OBVIOUS
<1>0. /\ \A q \in Request : HostOf(q) \in Domain /\ HostOf(q)' = HostOf(q)
      /\ \A q \in Request : HostOf(q) \notin {"new", "done"}
  <2>1. \A q \in Request : HostOf(q) \in Domain
    BY ProxyAssumption DEF TypeOK, Ask, KeyOf, HostOf
  <2>2. \A q \in Request : HostOf(q)' = HostOf(q)
    BY ResultStable DEF KeyOf, HostOf
  <2> QED
    BY <2>1, <2>2, ProxyAssumption
\* It is enough to say how one call moves, and what becomes of the entries.
<1>1. ASSUME NEW r \in Request, NEW a, Admission(r)' = a,
             \A q \in Request : q # r => Admission(q)' = Admission(q)
      PROVE  Calls' = [Calls EXCEPT ![r] = a]
  BY <1>1 DEF Calls
<1>2. ASSUME UNCHANGED <<breaker, now>>, \A q \in Request : Admission(q)' = Admission(q)
      PROVE  UNCHANGED CB!vars
  BY <1>2 DEF CB!vars
<1>3. ASSUME NEW r \in Request, UNCHANGED <<breaker, now>>, Admission(r) = HostOf(r),
             Admission(r)' \in {HostOf(r), "done"},
             \A q \in Request : q # r => Admission(q)' = Admission(q)
      PROVE  [CB!Next]_(CB!vars)
  <2>1. CASE Admission(r)' = HostOf(r)
    BY <1>2, <1>3, <2>1
  <2>2. CASE Admission(r)' = "done"
    <3>1. Calls' = [Calls EXCEPT ![r] = "done"]
      BY <1>1, <1>3, <2>2
    <3>2. CB!RecordNothing(r, HostOf(r))
      BY <1>3, <3>1 DEF CB!RecordNothing, Calls
    <3> QED
      BY <3>2, <1>0 DEF CB!Next
  <2> QED
    BY <1>3, <2>1, <2>2
<1>4. CASE UNCHANGED <<ask, pc, answer, fetch, breaker, now>>
  <2>1. \A q \in Request : Admission(q)' = Admission(q)
    BY <1>4, <1>0 DEF Admission
  <2> QED
    BY <1>2, <1>4, <2>1
<1>5. ASSUME NEW r \in Request, Handler(r) PROVE [CB!Next]_(CB!vars)
  <2> USE DEF TypeOK, Goto, Respond, fetchVars, storeVars
  <2>0. ASSUME \A q \in Request : q # r =>
                  pc'[q] = pc[q] /\ answer'[q] = answer[q] /\ fetch'[q] = fetch[q]
        PROVE  \A q \in Request : q # r => Admission(q)' = Admission(q)
    BY <2>0, <1>0 DEF Admission
  <2>1. CASE CheckNegative(r)
    <3>1. Admission(r) = "new"
      BY <2>1 DEF CheckNegative, Admission
    <3>2. Admission(r)' = "new"
      BY <2>1, ViaOf DEF CheckNegative, Admission, Reply
    <3>3. \A q \in Request : q # r => Admission(q)' = Admission(q)
      BY <2>0, <2>1 DEF CheckNegative
    <3> QED
      BY <1>2, <2>1, <3>1, <3>2, <3>3 DEF CheckNegative
  <2>2. CASE CheckCircuit(r)
    <3>1. Admission(r) = "new"
      BY <2>2 DEF CheckCircuit, Admission
    <3>2. \A q \in Request : q # r => Admission(q)' = Admission(q)
      BY <2>0, <2>2 DEF CheckCircuit
    <3>3. CASE CB!Denied(HostOf(r))
      <4>1. Admission(r)' = "new"
        BY <2>2, <3>3 DEF CheckCircuit, Admission, Reply
      <4> QED
        BY <1>2, <2>2, <3>1, <3>2, <3>3, <4>1 DEF CheckCircuit
    <3>4. CASE ~CB!Denied(HostOf(r))
      <4>1. Admission(r)' = HostOf(r)
        BY <2>2, <3>4, <1>0 DEF CheckCircuit, Admission, Stages, NoAnswer, Reply
      <4>2. Calls' = [Calls EXCEPT ![r] = HostOf(r)]
        BY <1>1, <3>2, <4>1
      <4>3. CB!Allow(r, HostOf(r))
        BY <2>2, <3>1, <3>4, <4>2 DEF CheckCircuit, CB!Allow, Calls
      <4> QED
        BY <4>3, <1>0 DEF CB!Next
    <3> QED
      BY <3>3, <3>4
  <2>3. CASE CheckBlacklist(r) \/ LookupL1(r) \/ LookupL2(r) \/ Join(r)
    <3>1. /\ pc[r] \in {"blacklist", "l1", "l2", "join"}
          /\ UNCHANGED <<breaker, now>>
      BY <2>3 DEF CheckBlacklist, LookupL1, LookupL2, Join
    <3>2. Admission(r) = HostOf(r)
      BY <3>1 DEF Admission, Stages, NoAnswer, Reply
    <3>3. Admission(r)' \in {HostOf(r), "done"}
      <4>1. /\ answer'[r].via \in {"none", "blacklist", "l1", "l2"}
            /\ pc'[r] \notin {"new", "circuit"}
        BY <2>3, <3>1 DEF CheckBlacklist, LookupL1, LookupL2, Join, Stages, NoAnswer, Reply
      <4> QED
        BY <4>1, <1>0 DEF Admission
    <3>4. \A q \in Request : q # r => Admission(q)' = Admission(q)
      BY <2>0, <2>3 DEF CheckBlacklist, LookupL1, LookupL2, Join
    <3> QED
      BY <1>3, <3>1, <3>2, <3>3, <3>4
  <2>4. CASE Receive(r) \/ GiveUp(r) \/ DebugAnswer(r)
    <3>1. /\ pc[r] \in {"wait", "debug"} /\ pc'[r] = "answered"
          /\ answer[r].via = "none" /\ answer'[r].via \in {"origin", "timeout"}
          /\ fetch[r] = "fetching" <=> fetch'[r] = "fetching"
          /\ UNCHANGED <<breaker, now>>
      BY <2>4, ViaOf DEF Receive, GiveUp, DebugAnswer, Stages, NoAnswer, Reply
    <3>2. Admission(r)' = Admission(r)
      BY <3>1, <1>0 DEF Admission
    <3>3. \A q \in Request : q # r => Admission(q)' = Admission(q)
      BY <2>0, <2>4 DEF Receive, GiveUp, DebugAnswer
    <3> QED
      BY <1>2, <3>1, <3>2, <3>3
  <2> QED
    BY <1>5, <2>1, <2>2, <2>3, <2>4 DEF Handler
<1>6. ASSUME NEW r \in Request, OriginFetch(r) PROVE [CB!Next]_(CB!vars)
  <2> USE DEF TypeOK, Return, reqVars, storeVars
  <2>1. /\ fetch[r] \in {"fetching", "converting"}
        /\ pc[r] \notin Early
        /\ answer[r].via \notin {"negative", "wait"}
    BY <1>6 DEF OriginFetch, FetchTooLarge, FetchFails, FetchAborted, FetchStatus, FetchBody,
       Convert, ConvertPanics, Stages, Refused
  <2>2. /\ pc'[r] \notin Early
        /\ answer'[r].via \notin {"negative", "wait"}
        /\ fetch'[r] # "fetching"
        /\ \A q \in Request : q # r =>
              pc'[q] = pc[q] /\ answer'[q] = answer[q] /\ fetch'[q] = fetch[q]
        /\ UNCHANGED now
    BY <1>6, <2>1 DEF OriginFetch, FetchTooLarge, FetchFails, FetchAborted, FetchStatus,
       FetchBody, Convert, ConvertPanics, Respond, Reply, Early
  <2>3. /\ Admission(r) = IF fetch[r] = "fetching" THEN HostOf(r) ELSE "done"
        /\ Admission(r)' = "done"
        /\ \A q \in Request : q # r => Admission(q)' = Admission(q)
    BY <1>0, <2>1, <2>2 DEF Admission, Early
  <2>4. Calls' = [Calls EXCEPT ![r] = "done"]
    BY <1>1, <2>3
  <2>5. CASE FetchTooLarge(r)
    BY <2>5, <2>3, <1>3 DEF FetchTooLarge
  <2>6. CASE fetch[r] = "fetching" /\ RecordFailure(HostOf(r))
    <3>1. CB!RecordFailure(r, HostOf(r))
      BY <2>2, <2>3, <2>4, <2>6 DEF RecordFailure, CB!RecordFailure, Calls
    <3> QED
      BY <3>1, <1>0 DEF CB!Next
  <2>7. ASSUME NEW s \in Status, FetchStatus(r, s) PROVE [CB!Next]_(CB!vars)
    <3>1. CASE UNCHANGED breaker
      BY <2>7, <3>1, <2>2, <2>3, <1>3 DEF FetchStatus
    <3> QED
      BY <2>6, <2>7, <3>1 DEF FetchStatus
  <2>8. ASSUME NEW isMedia \in BOOLEAN, FetchBody(r, isMedia) PROVE [CB!Next]_(CB!vars)
    <3>1. CB!RecordSuccess(r, HostOf(r))
      BY <2>8, <2>2, <2>3, <2>4 DEF FetchBody, CB!RecordSuccess, Calls
    <3> QED
      BY <3>1, <1>0 DEF CB!Next
  <2>9. CASE Convert(r) \/ ConvertPanics(r)
    BY <2>9, <2>3, <1>2 DEF Convert, ConvertPanics
  <2> QED
    BY <1>6, <2>5, <2>6, <2>7, <2>8, <2>9 DEF OriginFetch, FetchFails, FetchAborted
<1>7. ASSUME NEW r \in Request, FlightEnds(r) PROVE [CB!Next]_(CB!vars)
  <2>1. \A q \in Request : Admission(q)' = Admission(q)
    BY <1>7, <1>0 DEF TypeOK, FlightEnds, Admission, Stages, Early, Refused
  <2> QED
    BY <1>2, <1>7, <2>1 DEF FlightEnds, storeVars
<1>8. CASE CollectBreaker \/ Tick
  <2>1. UNCHANGED Calls
    BY <1>8, <1>0 DEF CollectBreaker, Tick, Calls, Admission, reqVars, fetchVars
  <2>2. CollectBreaker => CB!GC
    BY <2>1 DEF CollectBreaker, CB!GC, Calls
  <2>3. Tick => CB!Tick
    BY <2>1 DEF Tick, CB!Tick, Calls, storeVars
  <2> QED
    BY <1>8, <2>2, <2>3 DEF CB!Next
<1>9. ASSUME NEW r \in Request, ContextDone(r) \/ AsyncWrites(r)
      PROVE  UNCHANGED <<ask, pc, answer, fetch, breaker, now>>
  BY <1>9 DEF ContextDone, AsyncWrites, PutL1, PutL2, SetTracker, PutFails, reqVars, fetchVars,
     storeVars
<1>10. (\E k \in Key : Evict(k)) \/ CollectNegative \/ UNCHANGED vars
          => UNCHANGED <<ask, pc, answer, fetch, breaker, now>>
  BY DEF Evict, CollectNegative, vars, reqVars, fetchVars, storeVars
<1> QED
  BY <1>4, <1>5, <1>6, <1>7, <1>8, <1>9, <1>10 DEF Next

-----------------------------------------------------------------------------
LEMMA BreakerInit == Init => CB!Init /\ Refused
BY DEF Init, CB!Init, Admission, Refused, NoAnswer, Reply

\* For any number of requests, keys and domains and any configuration, the
\* pipeline uses the breaker as CircuitBreaker specifies: every report comes from
\* an admitted request, once, on the domain it was admitted for
\* (proxy.go:142-150, 308-337).
THEOREM BreakerRefinement == Spec => BreakerProtocol
<1>1. Spec => []Refused
  <2>1. IInv /\ Refused /\ [Next]_vars => Refused'
    BY RefusedStep DEF IInv
  <2> QED
    BY <2>1, Inductive, BreakerInit, PTL DEF Spec
<1>2. IInv /\ Refused /\ [Next]_vars => [CB!Next]_(CB!vars)
  BY BreakerStep DEF IInv
<1>3. Spec => CB!Spec
  BY <1>1, <1>2, Inductive, BreakerInit, PTL DEF Spec, CB!Spec
<1> QED
  BY <1>3 DEF BreakerProtocol

-----------------------------------------------------------------------------
\* The fetches whose failure counts against a domain.
FailedOn(d) == {r \in Request : HostOf(r) = d /\ Failed(r)}

\* What one step does to the failures of a domain: none is added, or one is, by a
\* fetch that had no result before and failed.
LEMMA FailureStep ==
    ASSUME TypeOK, Stages, [Next]_vars, NEW d \in Domain
    PROVE  \/ breaker'[d].failures = breaker[d].failures \/ breaker'[d].failures = 0
           \/ /\ breaker'[d].failures = breaker[d].failures + 1
              /\ \E r \in FailedOn(d)' : r \notin FailedOn(d)
<1> DEFINE Kept == breaker'[d].failures = breaker[d].failures \/ breaker'[d].failures = 0
<1>0. /\ \A r \in Request : HostOf(r) \in Domain /\ HostOf(r)' = HostOf(r)
      /\ breaker \in [Domain -> CB!Entry] /\ result \in [Request -> Result]
      /\ CB!NoEntry.failures = 0
  BY ProxyAssumption, ResultStable DEF TypeOK, Ask, KeyOf, HostOf, CB!NoEntry
<1>1. \A e \in CB!Entry : CB!AfterAllow(e).failures = e.failures
  BY DEF CB!AfterAllow, CB!Entry
<1>2. \A e \in CB!Entry : CB!AfterFailure(e).failures = e.failures + 1
  BY DEF CB!AfterFailure, CB!Entry
<1>3. ASSUME NEW r \in Request, OriginFetch(r)
      PROVE  Kept \/ /\ breaker'[d].failures = breaker[d].failures + 1
                     /\ \E q \in FailedOn(d)' : q \notin FailedOn(d)
  <2>1. CASE fetch[r] = "fetching" /\ RecordFailure(HostOf(r)) /\ Failed(r)'
    <3>1. ~ Failed(r)
      BY <2>1 DEF Stages, Failed, NoResult, Outcome
    <3>2. HostOf(r) = d => r \in FailedOn(d)' /\ r \notin FailedOn(d)
      BY <2>1, <3>1, <1>0 DEF FailedOn
    <3>3. breaker'[d] = IF d = HostOf(r) THEN CB!AfterFailure(breaker[d]) ELSE breaker[d]
      BY <2>1, <1>0 DEF RecordFailure
    <3> QED
      BY <3>2, <3>3, <1>0, <1>2
  <2>2. CASE FetchFails(r) \/ FetchAborted(r)
    <3>1. Failed(r)'
      BY <2>2, <1>0 DEF FetchFails, FetchAborted, Return, Failed, Outcome
    <3> QED
      BY <2>1, <2>2, <3>1 DEF FetchFails, FetchAborted
  <2>3. ASSUME NEW s \in Status, FetchStatus(r, s), s >= 500
        PROVE  fetch[r] = "fetching" /\ RecordFailure(HostOf(r)) /\ Failed(r)'
    BY <2>3, <1>0 DEF FetchStatus, Return, Failed, Outcome
  <2>4. ASSUME NEW s \in Status, FetchStatus(r, s), ~ s >= 500 PROVE Kept
    BY <2>4 DEF FetchStatus
  <2>5. ASSUME NEW isMedia \in BOOLEAN, FetchBody(r, isMedia) PROVE Kept
    BY <2>5, <1>0 DEF FetchBody
  <2>6. CASE FetchTooLarge(r) \/ Convert(r) \/ ConvertPanics(r)
    BY <2>6 DEF FetchTooLarge, Convert, ConvertPanics, storeVars
  <2> QED
    BY <1>3, <2>1, <2>2, <2>3, <2>4, <2>5, <2>6 DEF OriginFetch
<1>4. ASSUME NEW r \in Request, CheckCircuit(r) PROVE Kept
  BY <1>4, <1>0, <1>1 DEF CheckCircuit
<1>5. CASE CollectBreaker
  BY <1>5, <1>0 DEF CollectBreaker, CB!Collected
<1>6. CASE UNCHANGED breaker
  BY <1>6
<1>7. ASSUME NEW r \in Request,
             \/ ContextDone(r) \/ AsyncWrites(r) \/ FlightEnds(r)
             \/ CheckNegative(r) \/ CheckBlacklist(r) \/ LookupL1(r) \/ LookupL2(r)
             \/ Join(r) \/ Receive(r) \/ GiveUp(r) \/ DebugAnswer(r)
      PROVE  UNCHANGED breaker
  BY <1>7 DEF ContextDone, AsyncWrites, PutL1, PutL2, SetTracker, PutFails, FlightEnds,
     CheckNegative, CheckBlacklist, LookupL1, LookupL2, Join, Receive, GiveUp, DebugAnswer,
     storeVars
<1>8. (\E k \in Key : Evict(k)) \/ CollectNegative \/ Tick \/ UNCHANGED vars
         => UNCHANGED breaker
  BY DEF Evict, CollectNegative, Tick, vars, storeVars
<1> QED
  BY <1>3, <1>4, <1>5, <1>6, <1>7, <1>8 DEF Next, Handler

LEMMA CountStep ==
    ASSUME IsFiniteSet(Request), TypeOK, Stages, EachFailureCountedOnce, [Next]_vars
    PROVE  EachFailureCountedOnce'
<1> SUFFICES ASSUME NEW d \in Domain
             PROVE  breaker'[d].failures <= Cardinality(FailedOn(d)')
  BY DEF EachFailureCountedOnce, FailedOn
<1>0. breaker[d].failures \in Int /\ breaker[d].failures <= Cardinality(FailedOn(d))
  BY DEF EachFailureCountedOnce, FailedOn, TypeOK, CB!Entry
<1>1. FailedOn(d) \subseteq FailedOn(d)'
  BY ResultStable DEF FailedOn, Failed, HostOf, KeyOf
<1>2. /\ IsFiniteSet(FailedOn(d)) /\ IsFiniteSet(FailedOn(d)')
  <2>1. FailedOn(d) \subseteq Request /\ FailedOn(d)' \subseteq Request
    BY DEF FailedOn
  <2> QED
    BY <2>1, FS_Subset
<1>3. /\ Cardinality(FailedOn(d)) \in Nat /\ Cardinality(FailedOn(d)') \in Nat
      /\ Cardinality(FailedOn(d)) <= Cardinality(FailedOn(d)')
  BY <1>1, <1>2, FS_Subset, FS_CardinalityType
<1>4. ASSUME NEW r \in FailedOn(d)', r \notin FailedOn(d)
      PROVE  Cardinality(FailedOn(d)) < Cardinality(FailedOn(d)')
  <2>1. FailedOn(d) # FailedOn(d)'
    BY <1>4
  <2> QED
    BY <1>1, <1>2, <1>3, <2>1, FS_Subset
<1> QED
  BY <1>0, <1>3, <1>4, FailureStep

\* However many callers share a fetch and however late it fails, the breaker
\* holds no more failures of a domain than fetches of it have failed
\* (proxy.go:308-337), for any finite number of requests.
THEOREM FailuresCountedOnce ==
    ASSUME IsFiniteSet(Request)
    PROVE  Spec => []EachFailureCountedOnce
<1>1. Init => EachFailureCountedOnce
  <2> SUFFICES ASSUME Init, NEW d \in Domain
               PROVE  0 <= Cardinality(FailedOn(d)) /\ breaker[d].failures = 0
    BY DEF EachFailureCountedOnce, FailedOn
  <2>1. FailedOn(d) \subseteq Request
    BY DEF FailedOn
  <2>2. Cardinality(FailedOn(d)) \in Nat
    BY <2>1, FS_Subset, FS_CardinalityType
  <2> QED
    BY <2>2 DEF Init, CB!NoEntry
<1>2. IInv /\ EachFailureCountedOnce /\ [Next]_vars => EachFailureCountedOnce'
  BY CountStep DEF IInv
<1> QED
  BY <1>1, <1>2, Inductive, PTL DEF Spec

-----------------------------------------------------------------------------
(* The negative cache.                                                     *)

\* Setting an entry is one step of the abstract map, an expired one and the
\* same key included.
LEMMA SetRefines ==
    ASSUME NEW k \in Key, NEW s \in Status, TypeOK,
           neg' = [neg EXCEPT ![k] = NC!EntryFor(s)], UNCHANGED now
    PROVE  Visible!Set(k, s)
<1>1. s # 0 /\ NegativeTtl(s) \in Int /\ now \in Nat
  BY ProxyAssumption DEF NegativeTtl, NC!Ttl, TypeOK
<1>2. neg' = [neg EXCEPT ![k] = [status |-> s, expireAt |-> now + NegativeTtl(s)]]
  BY DEF NC!EntryFor, NegativeTtl
<1>3. ASSUME NEW x \in Key
      PROVE  /\ neg'[x].status = IF x = k THEN s ELSE neg[x].status
             /\ neg'[x].expireAt = IF x = k THEN now + NegativeTtl(s) ELSE neg[x].expireAt
             /\ NC!Hit(x)' <=> IF x = k THEN ~(now > now + NegativeTtl(s)) ELSE NC!Hit(x)
  BY <1>1, <1>2 DEF NC!Hit, NC!Expired, NC!NoStatus, TypeOK, NC!Entry
<1> QED
  BY <1>1, <1>3 DEF Visible!Set

\* GC takes nothing that could still be read.
LEMMA GCIsInvisible ==
    ASSUME TypeOK, CollectNegative
    PROVE  UNCHANGED Visible!vars
<1>1. neg' = [k \in Key |-> IF NC!Expired(neg[k]) THEN NC!NoEntry ELSE neg[k]] /\ now' = now
  BY DEF CollectNegative, NC!Collected
<1>2. ASSUME NEW k \in Key
      PROVE  /\ NC!Hit(k)' <=> NC!Hit(k)
             /\ NC!Hit(k) => neg'[k] = neg[k]
  BY <1>1 DEF NC!Hit, NC!Expired, NC!NoEntry, NC!NoStatus, TypeOK, NC!Entry
<1> QED
  BY <1>1, <1>2 DEF Visible!vars

\* A tick hides just the entries whose deadline it passes.
LEMMA TickLapses ==
    ASSUME TypeOK, Tick
    PROVE  Visible!Tick
<1>1. neg' = neg /\ now' = now + 1
  BY DEF Tick, storeVars
<1>2. ASSUME NEW k \in Key
      PROVE  NC!Hit(k)' <=> NC!Hit(k) /\ ~(now + 1 > neg[k].expireAt)
  BY <1>1 DEF NC!Hit, NC!Expired, TypeOK, NC!Entry
<1>3. ASSUME NEW k \in Key, NC!Hit(k)
      PROVE  neg[k].status # NC!NoStatus
  BY <1>3 DEF NC!Hit
<1> QED
  BY <1>1, <1>2, <1>3 DEF Visible!Tick, Visible!Lapses

LEMMA OthersLeaveIt ==
    ASSUME [Next]_vars,
           ~ \E r \in Request, s \in Status : FetchStatus(r, s),
           ~ CollectNegative, ~ Tick
    PROVE  UNCHANGED <<neg, now>>
<1>1. CASE UNCHANGED vars
  BY <1>1 DEF vars, storeVars
<1>2. ASSUME NEW r \in Request, ContextDone(r) PROVE UNCHANGED <<neg, now>>
  BY <1>2 DEF ContextDone, storeVars
<1>3. ASSUME NEW r \in Request, Handler(r) PROVE UNCHANGED <<neg, now>>
  BY <1>3 DEF Handler, CheckNegative, CheckCircuit, CheckBlacklist, LookupL1, LookupL2, Join,
     Receive, GiveUp, DebugAnswer, storeVars
<1>4. ASSUME NEW r \in Request, OriginFetch(r) PROVE UNCHANGED <<neg, now>>
  BY <1>4 DEF OriginFetch, FetchTooLarge, FetchFails, FetchAborted, FetchBody, Convert,
     ConvertPanics, storeVars
<1>5. ASSUME NEW r \in Request, FlightEnds(r) \/ AsyncWrites(r)
      PROVE  UNCHANGED <<neg, now>>
  BY <1>5 DEF FlightEnds, AsyncWrites, PutL1, PutL2, SetTracker, PutFails, storeVars
<1>6. ASSUME (\E k \in Key : Evict(k)) \/ CollectBreaker PROVE UNCHANGED <<neg, now>>
  BY <1>6 DEF Evict, CollectBreaker, storeVars
<1> QED
  BY <1>1, <1>2, <1>3, <1>4, <1>5, <1>6 DEF Next

-----------------------------------------------------------------------------
\* Readers of the negative cache cannot tell it from a map whose entries
\* vanish by themselves exactly when their TTL is over (negative.go:45-80,
\* proxy.go:120, 321).
THEOREM NegativeRefinement == Spec => NegativeEntriesLapse
<1>1. Init => Visible!Init
  BY DEF Init, Visible!Init, NC!NoEntry, NC!Hit, NC!Expired, NC!NoStatus
<1>2. TypeOK /\ [Next]_vars => [Visible!Next]_(Visible!vars)
  <2> SUFFICES ASSUME TypeOK, [Next]_vars PROVE [Visible!Next]_(Visible!vars)
    OBVIOUS
  <2>1. ASSUME NEW r \in Request, NEW s \in Status, FetchStatus(r, s)
        PROVE  Visible!Next
    <3>1. KeyOf(r) \in Key
      BY ProxyAssumption DEF TypeOK, Ask, KeyOf
    <3>2. neg' = [neg EXCEPT ![KeyOf(r)] = NC!EntryFor(s)] /\ now' = now
      BY <2>1 DEF FetchStatus
    <3>3. Visible!Set(KeyOf(r), s)
      BY <3>1, <3>2, SetRefines
    <3> QED
      BY <3>1, <3>3 DEF Visible!Next
  <2>2. CASE CollectNegative
    BY <2>2, GCIsInvisible
  <2>3. CASE Tick
    BY <2>3, TickLapses DEF Visible!Next
  <2>4. CASE UNCHANGED <<neg, now>>
    <3>1. \A k \in Key : NC!Hit(k)' <=> NC!Hit(k)
      BY <2>4 DEF NC!Hit, NC!Expired
    <3> QED
      BY <2>4, <3>1 DEF Visible!vars
  <2> QED
    BY <2>1, <2>2, <2>3, <2>4, OthersLeaveIt
<1>3. Spec => Visible!Spec
  BY <1>1, <1>2, TypeCorrect, PTL DEF Spec, Visible!Spec
<1> QED
  BY <1>3 DEF NegativeEntriesLapse
=============================================================================
