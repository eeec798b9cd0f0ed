------------------------ MODULE CircuitBreakerProofs ------------------------
(***************************************************************************)
(* Theorems about CircuitBreaker, for every set of domains and calls and   *)
(* every Threshold and Timeout the configuration accepts.  The inductive   *)
(* invariant is IInv: TypeOK alone does not bound the failure count of an  *)
(* entry by its state, and neither of the two safety invariants is         *)
(* preserved without TypeOK.                                               *)
(***************************************************************************)
EXTENDS CircuitBreaker, TLAPS

IInv == TypeOK /\ BlockedOnEvidence /\ HalfOpenAfterTimeout

-----------------------------------------------------------------------------
(* What the three entry transformers keep. *)

\* The absent entry is a consistent entry.
LEMMA NoEntryGood ==
    ASSUME now \in Nat
    PROVE  NoEntry \in Entry /\ EvidenceFor(NoEntry) /\ WaitOf(NoEntry)
  BY DEF NoEntry, Entry, State, EvidenceFor, WaitOf

\* Admitting a call leaves an entry consistent: the probe state is entered
\* only when the wait is over.
LEMMA AfterAllowGood ==
    ASSUME NEW e \in Entry, now \in Nat, ~Blocks(e), EvidenceFor(e), WaitOf(e)
    PROVE  /\ AfterAllow(e) \in Entry
           /\ EvidenceFor(AfterAllow(e))
           /\ WaitOf(AfterAllow(e))
  <1>1. CASE e.state = "OPEN"
    <2>1. /\ AfterAllow(e) = [e EXCEPT !.state = "HALF-OPEN"]
          /\ now > e.openUntil
      BY <1>1 DEF AfterAllow, Blocks
    <2>2. AfterAllow(e) \in Entry
      BY <2>1 DEF Entry, State
    <2>3. EvidenceFor(AfterAllow(e))
      BY <1>1, <2>1 DEF EvidenceFor, Entry
    <2>4. WaitOf(AfterAllow(e))
      BY <1>1, <2>1, BreakerAssumption DEF WaitOf, Entry
    <2> QED BY <2>2, <2>3, <2>4
  <1>2. CASE e.state # "OPEN"
    BY <1>2 DEF AfterAllow
  <1> QED BY <1>1, <1>2

\* Counting a failure leaves an entry consistent.
LEMMA AfterFailureGood ==
    ASSUME NEW e \in Entry, now \in Nat, EvidenceFor(e), WaitOf(e)
    PROVE  /\ AfterFailure(e) \in Entry
           /\ EvidenceFor(AfterFailure(e))
           /\ WaitOf(AfterFailure(e))
  <1> DEFINE f == AfterFailure(e)
  <1>0. e.failures \in Nat /\ e.state \in State /\ e.openUntil \in Int
    BY DEF Entry
  <1>1. CASE e.failures + 1 >= Threshold
    <2>1. f = [state |-> "OPEN", failures |-> e.failures + 1,
               lastFailed |-> now, openUntil |-> now + Timeout]
      BY <1>1 DEF AfterFailure
    <2>2. f \in Entry
      BY <1>0, <2>1, BreakerAssumption DEF Entry, State
    <2>3. EvidenceFor(f)
      BY <1>0, <1>1, <2>1, BreakerAssumption DEF EvidenceFor
    <2>4. WaitOf(f)
      BY <2>1 DEF WaitOf
    <2> QED BY <2>2, <2>3, <2>4
  <1>2. CASE ~(e.failures + 1 >= Threshold)
    <2>1. e.state \in {"NONE", "CLOSED"}
      BY <1>0, <1>2, BreakerAssumption DEF EvidenceFor, State
    <2>2. f = [state |-> "CLOSED", failures |-> e.failures + 1,
               lastFailed |-> now, openUntil |-> e.openUntil]
      BY <1>2, <2>1 DEF AfterFailure
    <2>3. f \in Entry
      BY <1>0, <2>2 DEF Entry, State
    <2>4. EvidenceFor(f)
      BY <1>0, <1>2, <2>2, BreakerAssumption DEF EvidenceFor
    <2>5. WaitOf(f)
      BY <2>2 DEF WaitOf
    <2> QED BY <2>3, <2>4, <2>5
  <1> QED BY <1>1, <1>2

-----------------------------------------------------------------------------
LEMMA InitIInv == Init => IInv
  BY BreakerAssumption
     DEF Init, IInv, TypeOK, BlockedOnEvidence, HalfOpenAfterTimeout,
         NoEntry, Entry, State, EvidenceFor, WaitOf

\* A step that leaves the clock alone keeps IInv when the entry it writes is
\* a good one.
LEMMA OneEntrySuffices ==
    ASSUME IInv, now' = now, call' \in [Call -> {"new", "done"} \cup Domain],
           NEW d \in Domain, NEW e \in Entry, EvidenceFor(e), WaitOf(e),
           breaker' = [breaker EXCEPT ![d] = e]
    PROVE  IInv'
  <1>1. TypeOK'
    BY DEF IInv, TypeOK
  <1>2. ASSUME NEW x \in Domain
        PROVE  EvidenceFor(breaker'[x]) /\ WaitOf(breaker'[x])
    <2>1. breaker'[x] = IF x = d THEN e ELSE breaker[x]
      BY DEF IInv, TypeOK
    <2> QED BY <2>1 DEF IInv, BlockedOnEvidence, HalfOpenAfterTimeout
  <1>3. BlockedOnEvidence' /\ HalfOpenAfterTimeout'
    BY <1>2 DEF BlockedOnEvidence, HalfOpenAfterTimeout, EvidenceFor, WaitOf
  <1> QED BY <1>1, <1>3 DEF IInv

LEMMA NextIInv == IInv /\ [Next]_vars => IInv'
  <1> SUFFICES ASSUME IInv, [Next]_vars PROVE IInv'
    OBVIOUS
  <1> USE DEF IInv
  <1>0. now \in Nat /\ \A d \in Domain : breaker[d] \in Entry
                           /\ EvidenceFor(breaker[d]) /\ WaitOf(breaker[d])
    BY DEF TypeOK, BlockedOnEvidence, HalfOpenAfterTimeout
  <1>1. ASSUME NEW c \in Call, NEW d \in Domain, Allow(c, d) PROVE IInv'
    <2>1. /\ AfterAllow(breaker[d]) \in Entry
          /\ EvidenceFor(AfterAllow(breaker[d]))
          /\ WaitOf(AfterAllow(breaker[d]))
      BY <1>0, <1>1, AfterAllowGood DEF Allow, Denied
    <2>2. call' \in [Call -> {"new", "done"} \cup Domain]
      BY <1>1 DEF Allow, TypeOK
    <2>3. now' = now /\ breaker' = [breaker EXCEPT ![d] = AfterAllow(breaker[d])]
      BY <1>1 DEF Allow
    <2> HIDE DEF IInv
    <2> QED BY <2>1, <2>2, <2>3, OneEntrySuffices
  <1>2. ASSUME NEW c \in Call, NEW d \in Domain, RecordSuccess(c, d) PROVE IInv'
    <2>1. NoEntry \in Entry /\ EvidenceFor(NoEntry) /\ WaitOf(NoEntry)
      BY <1>0, NoEntryGood
    <2>2. call' \in [Call -> {"new", "done"} \cup Domain]
      BY <1>2 DEF RecordSuccess, TypeOK
    <2>3. now' = now /\ breaker' = [breaker EXCEPT ![d] = NoEntry]
      BY <1>2 DEF RecordSuccess
    <2> HIDE DEF IInv
    <2> QED BY <2>1, <2>2, <2>3, OneEntrySuffices
  <1>3. ASSUME NEW c \in Call, NEW d \in Domain, RecordFailure(c, d) PROVE IInv'
    <2>1. /\ AfterFailure(breaker[d]) \in Entry
          /\ EvidenceFor(AfterFailure(breaker[d]))
          /\ WaitOf(AfterFailure(breaker[d]))
      BY <1>0, AfterFailureGood
    <2>2. call' \in [Call -> {"new", "done"} \cup Domain]
      BY <1>3 DEF RecordFailure, TypeOK
    <2>3. now' = now /\ breaker' = [breaker EXCEPT ![d] = AfterFailure(breaker[d])]
      BY <1>3 DEF RecordFailure
    <2> HIDE DEF IInv
    <2> QED BY <2>1, <2>2, <2>3, OneEntrySuffices
  <1>4. ASSUME NEW c \in Call, NEW d \in Domain, RecordNothing(c, d) PROVE IInv'
    BY <1>4 DEF RecordNothing, TypeOK, BlockedOnEvidence, HalfOpenAfterTimeout,
                EvidenceFor, WaitOf
  <1>5. ASSUME GC PROVE IInv'
    <2>1. \A d \in Domain : breaker'[d] \in Entry
                               /\ EvidenceFor(breaker'[d]) /\ WaitOf(breaker'[d])
      BY <1>0, <1>5, NoEntryGood DEF GC, Collected
    <2>2. TypeOK'
      BY <1>5, <2>1 DEF GC, Collected, TypeOK
    <2>3. BlockedOnEvidence' /\ HalfOpenAfterTimeout'
      BY <1>5, <2>1 DEF GC, BlockedOnEvidence, HalfOpenAfterTimeout, EvidenceFor, WaitOf
    <2> QED BY <2>2, <2>3
  <1>6. ASSUME Tick PROVE IInv'
    <2>1. now' = now + 1 /\ UNCHANGED <<breaker, call>>
      BY <1>6 DEF Tick
    <2>2. TypeOK'
      BY <2>1 DEF TypeOK
    <2>3. ASSUME NEW d \in Domain
          PROVE  EvidenceFor(breaker[d])' /\ WaitOf(breaker[d])'
      BY <1>0, <2>1, BreakerAssumption DEF EvidenceFor, WaitOf, Entry
    <2>4. BlockedOnEvidence' /\ HalfOpenAfterTimeout'
      BY <2>3 DEF BlockedOnEvidence, HalfOpenAfterTimeout
    <2> QED BY <2>2, <2>4
  <1>7. CASE UNCHANGED vars
    BY <1>7 DEF vars, TypeOK, BlockedOnEvidence, HalfOpenAfterTimeout, EvidenceFor, WaitOf
  <1> QED BY <1>1, <1>2, <1>3, <1>4, <1>5, <1>6, <1>7 DEF Next

-----------------------------------------------------------------------------
\* IInv holds in every reachable state.
THEOREM Inductive == Spec => []IInv
  BY InitIInv, NextIInv, PTL DEF Spec

\* Every variable of the breaker keeps its type, the failure count included.
THEOREM TypeCorrect == Spec => []TypeOK
  BY Inductive, PTL DEF IInv

\* A domain is refused only on Threshold failures without a success between.
THEOREM BlocksAreEarned == Spec => []BlockedOnEvidence
  BY Inductive, PTL DEF IInv

\* A domain is HALF-OPEN only when Timeout has passed since its last failure.
THEOREM ProbesWait == Spec => []HalfOpenAfterTimeout
  BY Inductive, PTL DEF IInv

\* Only a recorded success readmits a denied domain while the clock stands
\* still: Allow is refused, a failure renews the block, GC skips OPEN entries.
\* It needs Timeout >= 0: with a negative one a failure reopens into the past.
THEOREM SuccessAloneUnblocks ==
    ASSUME Timeout >= 0 PROVE Spec => OnlySuccessUnblocks
  <1>1. ASSUME IInv, Next
        PROVE  \A d \in Domain :
                  Denied(d) /\ ~Denied(d)' =>
                      \/ now' > now
                      \/ breaker'[d] = NoEntry /\ \E c \in Call : Reports(c, d)
    <2> SUFFICES ASSUME NEW d \in Domain, Denied(d), ~Denied(d)'
                 PROVE  \/ now' > now
                        \/ breaker'[d] = NoEntry /\ \E c \in Call : Reports(c, d)
      OBVIOUS
    <2>0. now \in Nat /\ breaker[d] \in Entry /\ breaker \in [Domain -> Entry]
      BY <1>1 DEF IInv, TypeOK
    <2>1. ASSUME NEW c \in Call, NEW x \in Domain, Allow(c, x) PROVE FALSE
      BY <2>0, <2>1 DEF Allow, Denied, Blocks
    <2>2. ASSUME NEW c \in Call, NEW x \in Domain, RecordSuccess(c, x)
          PROVE  breaker'[d] = NoEntry /\ Reports(c, d)
      <3>1. x = d
        BY <2>0, <2>2 DEF RecordSuccess, Denied, Blocks
      <3> QED BY <1>1, <2>0, <2>2, <3>1 DEF RecordSuccess, Reports, IInv, TypeOK
    <2>3. ASSUME NEW c \in Call, NEW x \in Domain, RecordFailure(c, x) PROVE FALSE
      <3>1. x = d
        BY <2>0, <2>3 DEF RecordFailure, Denied, Blocks
      <3>2. breaker'[d] = AfterFailure(breaker[d]) /\ now' = now
        BY <2>0, <2>3, <3>1 DEF RecordFailure
      <3>3. breaker[d].failures + 1 >= Threshold
        BY <1>1, <2>0, BreakerAssumption
           DEF IInv, BlockedOnEvidence, EvidenceFor, Denied, Blocks, Entry
      <3>4. breaker'[d].state = "OPEN" /\ breaker'[d].openUntil = now + Timeout
        BY <3>2, <3>3 DEF AfterFailure
      <3> QED BY <2>0, <3>2, <3>4, BreakerAssumption DEF Denied, Blocks
    <2>4. ASSUME NEW c \in Call, NEW x \in Domain, RecordNothing(c, x) PROVE FALSE
      BY <2>4 DEF RecordNothing, Denied, Blocks
    <2>5. ASSUME GC PROVE FALSE
      BY <2>0, <2>5 DEF GC, Collected, Stale, Denied, Blocks
    <2>6. ASSUME Tick PROVE now' > now
      BY <2>0, <2>6 DEF Tick
    <2> QED BY <1>1, <2>1, <2>2, <2>3, <2>4, <2>5, <2>6 DEF Next
  <1> QED BY <1>1, Inductive, PTL DEF Spec, OnlySuccessUnblocks

\* A failure while HALF-OPEN always reopens for a full Timeout.
THEOREM ProbeFailureReopens == Spec => FailedProbeReopens
  <1>1. ASSUME IInv, Next
        PROVE  \A d \in Domain :
                 breaker[d].state = "HALF-OPEN"
                   /\ breaker'[d].failures > breaker[d].failures
                 => breaker'[d].state = "OPEN" /\ breaker'[d].openUntil = now + Timeout
    <2> SUFFICES ASSUME NEW d \in Domain, breaker[d].state = "HALF-OPEN",
                        breaker'[d].failures > breaker[d].failures
                 PROVE  breaker'[d].state = "OPEN"
                          /\ breaker'[d].openUntil = now + Timeout
      OBVIOUS
    <2>0. now \in Nat /\ breaker[d] \in Entry /\ breaker \in [Domain -> Entry]
      BY <1>1 DEF IInv, TypeOK
    <2>1. ASSUME NEW c \in Call, NEW x \in Domain, Allow(c, x) PROVE FALSE
      BY <2>0, <2>1 DEF Allow, AfterAllow, Entry
    <2>2. ASSUME NEW c \in Call, NEW x \in Domain, RecordSuccess(c, x) PROVE FALSE
      BY <2>0, <2>2 DEF RecordSuccess, NoEntry, Entry
    <2>3. ASSUME NEW c \in Call, NEW x \in Domain, RecordFailure(c, x)
          PROVE  breaker'[d].state = "OPEN" /\ breaker'[d].openUntil = now + Timeout
      <3>1. x = d
        BY <2>0, <2>3 DEF RecordFailure, Entry
      <3>2. breaker'[d] = AfterFailure(breaker[d])
        BY <2>0, <2>3, <3>1 DEF RecordFailure
      <3>3. breaker[d].failures + 1 >= Threshold
        BY <1>1, <2>0, BreakerAssumption
           DEF IInv, BlockedOnEvidence, EvidenceFor, Entry
      <3> QED BY <3>2, <3>3 DEF AfterFailure
    <2>4. ASSUME NEW c \in Call, NEW x \in Domain, RecordNothing(c, x) PROVE FALSE
      BY <2>0, <2>4 DEF RecordNothing, Entry
    <2>5. ASSUME GC PROVE FALSE
      BY <2>0, <2>5 DEF GC, Collected, NoEntry, Stale, Entry
    <2>6. ASSUME Tick PROVE FALSE
      BY <2>0, <2>6 DEF Tick, Entry
    <2> QED BY <1>1, <2>1, <2>2, <2>3, <2>4, <2>5, <2>6 DEF Next
  <1> QED BY <1>1, Inductive, PTL DEF Spec, FailedProbeReopens
=============================================================================
