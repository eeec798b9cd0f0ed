----------------------------- MODULE ServerProofs -----------------------------
(***************************************************************************)
(* Theorems about Server, for any numbers of requests and of background    *)
(* loops.  Neither property is inductive: that the WaitGroup is not added  *)
(* to during the wait rests on what the two Shutdowns before it achieved.  *)
(* Quiet says what has come to rest by each phase of an orderly shutdown.  *)
(***************************************************************************)
EXTENDS Server, TLAPS

Quiet ==
    /\ phase \in {"serving", "failed"} => ~orderly
    /\ phase \in {"stop admin", "wait", "returned", "exited"} /\ orderly =>
          Active(ProxyRequest) = {}
    /\ phase \in {"wait", "returned", "exited"} /\ orderly => Active(AdminRequest) = {}
    /\ phase \in {"returned", "exited"} /\ orderly => writes = {}

IInv == TypeOK /\ Quiet

-----------------------------------------------------------------------------
LEMMA InitIInv == Init => IInv
BY DEF Init, IInv, TypeOK, Quiet, Request, RequestState, LoopState, Phase

LEMMA TypeStep == TypeOK /\ [Next]_vars => TypeOK'
<1> SUFFICES ASSUME TypeOK, [Next]_vars PROVE TypeOK'
  OBVIOUS
<1> USE DEF TypeOK, RequestState, LoopState, Phase
<1>1. CASE UNCHANGED vars
  BY <1>1 DEF vars, runVars
<1>2. ASSUME NEW r \in Request,
             \/ Arrive(r) \/ StartFetch(r) \/ FetchEnds(r)
             \/ AnswerAndWrite(r) \/ Answer(r) \/ WritesEnd(r)
      PROVE  TypeOK'
  <2>1. UNCHANGED <<phase, expired, orderly, cancelled, loop>>
    BY <1>2 DEF Arrive, StartFetch, FetchEnds, AnswerAndWrite, Answer, WritesEnd, runVars
  <2>2. /\ request' \in [Request -> RequestState]
        /\ fetching' \subseteq ProxyRequest
        /\ writes' \subseteq ProxyRequest
    BY <1>2 DEF Arrive, StartFetch, FetchEnds, AnswerAndWrite, Answer, WritesEnd
  <2> QED
    BY <2>1, <2>2
<1>3. ASSUME NEW b \in Background, LoopRuns(b) \/ LoopWaits(b) \/ LoopLeaves(b)
      PROVE  TypeOK'
  <2>1. UNCHANGED <<phase, expired, orderly, cancelled, request, fetching, writes>>
    BY <1>3 DEF LoopRuns, LoopWaits, LoopLeaves, runVars
  <2>2. loop' \in [Background -> LoopState]
    BY <1>3 DEF LoopRuns, LoopWaits, LoopLeaves
  <2> QED
    BY <2>1, <2>2
<1>4. CASE Signal \/ ListenFails \/ DeadlinePasses \/ WaitForWrites \/ CancelBackground \/ Exit
  BY <1>4 DEF Signal, ListenFails, DeadlinePasses, WaitForWrites, CancelBackground, Exit, Goto
<1>5. CASE StopProxy \/ StopAdmin
  BY <1>5 DEF StopProxy, StopAdmin, Stopped, Goto
<1> QED
  BY <1>1, <1>2, <1>3, <1>4, <1>5 DEF Next, ShuttingDown

\* Once a server has been shut down in time no request of it becomes active, so
\* nothing is left that could start writes.
LEMMA QuietStep == IInv /\ [Next]_vars => Quiet'
<1> SUFFICES ASSUME TypeOK, Quiet, [Next]_vars PROVE Quiet'
  BY DEF IInv
<1> USE DEF Quiet, Active
<1>1. CASE UNCHANGED <<phase, orderly, request, writes>>
  BY <1>1
<1>2. ASSUME NEW r \in Request, Arrive(r) PROVE Quiet'
  <2>1. /\ UNCHANGED <<phase, orderly, writes>>
        /\ Listening(r)
        /\ \A q \in Request : q # r => request'[q] = request[q]
    BY <1>2 DEF TypeOK, Arrive, runVars
  <2>2. ProxyRequest \subseteq Request /\ AdminRequest \subseteq Request
    BY DEF Request
  <2> QED
    BY <2>1, <2>2, ServerAssumption DEF Listening
<1>3. ASSUME NEW r \in Request, StartFetch(r) PROVE Quiet'
  <2>1. /\ UNCHANGED <<phase, orderly, writes>>
        /\ request[r] = "active"
        /\ \A q \in Request : q # r => request'[q] = request[q]
    BY <1>3 DEF TypeOK, StartFetch, runVars
  <2>2. ProxyRequest \subseteq Request /\ AdminRequest \subseteq Request
    BY DEF Request
  <2>3. \A S : S \subseteq Request /\ Active(S) = {} => Active(S)' = {}
    BY <2>1
  <2> QED
    BY <2>1, <2>2, <2>3
<1>4. ASSUME NEW r \in Request, AnswerAndWrite(r) \/ Answer(r) \/ WritesEnd(r) PROVE Quiet'
  <2>1. /\ UNCHANGED <<phase, orderly>>
        /\ \A q \in Request : request'[q] \in {"active", "waiting"} =>
                                request[q] \in {"active", "waiting"}
    BY <1>4 DEF TypeOK, AnswerAndWrite, Answer, WritesEnd, runVars
  <2>2. ProxyRequest \subseteq Request /\ AdminRequest \subseteq Request
    BY DEF Request
  <2>3. writes' \subseteq writes \/ Active(ProxyRequest) # {}
    BY <1>4 DEF AnswerAndWrite, Answer, WritesEnd
  <2> QED
    BY <2>1, <2>2, <2>3
<1>5. CASE Signal \/ ListenFails \/ Exit
  <2>1. UNCHANGED <<request, writes>>
    BY <1>5 DEF Signal, ListenFails, Exit, Goto
  <2>2. CASE Signal \/ ListenFails
    <3>1. CASE Signal
      <4>1. phase' = "stop proxy"
        BY <3>1 DEF Signal, Goto
      <4> QED
        BY <4>1
    <3>2. CASE ListenFails
      <4>1. phase' = "failed" /\ orderly' = orderly /\ ~orderly
        BY <3>2 DEF ListenFails, Goto
      <4>2. ~orderly'
        BY <4>1, Zenon
      <4> QED
        BY <4>1, <4>2
    <3> QED
      BY <2>2, <3>1, <3>2
  <2>3. CASE Exit
    BY <2>1, <2>3 DEF Exit, Goto
  <2> QED
    BY <1>5, <2>2, <2>3
<1>6. CASE StopProxy \/ StopAdmin
  BY <1>6 DEF StopProxy, StopAdmin, Stopped, Goto
<1>7. CASE WaitForWrites
  BY <1>7 DEF WaitForWrites, Goto
<1>8. DeadlinePasses \/ CancelBackground \/ UNCHANGED vars
         => UNCHANGED <<phase, orderly, request, writes>>
  BY DEF DeadlinePasses, CancelBackground, vars, runVars
<1>9. /\ \A r \in Request : FetchEnds(r) => UNCHANGED <<phase, orderly, request, writes>>
      /\ \A b \in Background : LoopRuns(b) \/ LoopWaits(b) \/ LoopLeaves(b) =>
            UNCHANGED <<phase, orderly, request, writes>>
  BY DEF FetchEnds, LoopRuns, LoopWaits, LoopLeaves, runVars
<1> QED
  BY <1>1, <1>2, <1>3, <1>4, <1>5, <1>6, <1>7, <1>8, <1>9 DEF Next, ShuttingDown

THEOREM Inductive == Spec => []IInv
<1>1. IInv /\ [Next]_vars => IInv'
  BY TypeStep, QuietStep DEF IInv
<1> QED
  BY <1>1, InitIInv, PTL DEF Spec

\* The state of a shutdown is well typed: only proxy requests have fetches and
\* writes, and nothing is set before the signal.
THEOREM TypeCorrect == Spec => []TypeOK
BY Inductive, PTL DEF IInv

\* A Run that the deadline did not cut short has let every request and every
\* asynchronous write finish (server.go:89-114).
THEOREM OrderlyExit == Spec => []OrderlyExitCompletesAll
<1>1. IInv => OrderlyExitCompletesAll
  BY DEF IInv, Quiet, OrderlyExitCompletesAll, Active, Request
<1> QED
  BY <1>1, Inductive, PTL

\* The WaitGroup is not added to while it is waited for (server.go:100-114).
THEOREM WaitGroupRule == Spec => NoAddDuringWait
<1>1. IInv /\ [Next]_vars => [phase = "wait" /\ orderly => writes' \subseteq writes]_vars
  <2> SUFFICES ASSUME IInv, Next, phase = "wait", orderly PROVE writes' \subseteq writes
    OBVIOUS
  <2>1. \A r \in ProxyRequest : request[r] \notin {"active", "waiting"}
    BY DEF IInv, Quiet, Active
  <2>2. ASSUME NEW r \in Request,
               \/ Arrive(r) \/ StartFetch(r) \/ FetchEnds(r)
               \/ AnswerAndWrite(r) \/ Answer(r) \/ WritesEnd(r)
        PROVE  writes' \subseteq writes
    BY <2>1, <2>2 DEF Arrive, StartFetch, FetchEnds, AnswerAndWrite, Answer, WritesEnd
  <2>3. ASSUME NEW b \in Background, LoopRuns(b) \/ LoopWaits(b) \/ LoopLeaves(b)
        PROVE  writes' \subseteq writes
    BY <2>3 DEF LoopRuns, LoopWaits, LoopLeaves
  <2>4. Signal \/ ListenFails \/ ShuttingDown => UNCHANGED writes
    BY DEF Signal, ListenFails, ShuttingDown, DeadlinePasses, StopProxy, StopAdmin, Stopped,
       WaitForWrites, CancelBackground, Exit, Goto
  <2> QED
    BY <2>2, <2>3, <2>4 DEF Next
<1> QED
  BY <1>1, Inductive, PTL DEF Spec, NoAddDuringWait
=============================================================================
