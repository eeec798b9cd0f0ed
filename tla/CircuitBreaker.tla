--------------------------- MODULE CircuitBreaker ---------------------------
(***************************************************************************)
(* The per-domain circuit breaker of internal/store/circuit.go             *)
(* (MemoryCircuitBreaker), driven by the calls the proxy makes on it.      *)
(*                                                                         *)
(* A call stands for one request's dealings with the breaker: Allow admits *)
(* it (internal/handler/proxy.go:145), later the origin fetch it leads     *)
(* records a success or a failure (proxy.go:317, 326, 337), or the call    *)
(* ends and records nothing: a cache hit, a 3xx/4xx, a body that is too    *)
(* large, a caller that only waited for another caller's fetch.  Any       *)
(* number of admitted calls may be in flight at once.                      *)
(*                                                                         *)
(* Every method body runs under the breaker's mutex, so a method is one    *)
(* action.  A rejected Allow changes nothing and is no action.             *)
(***************************************************************************)
EXTENDS Integers

CONSTANTS
    Domain,     \* host names, the keys of the breaker's map
    Call,       \* the calls of a behaviour; each is made at most once
    Threshold,  \* CIRCUIT_BREAKER_THRESHOLD, any integer (config.getEnvInt)
    Timeout,    \* CIRCUIT_BREAKER_TIMEOUT, in ticks, any duration
    StaleAge,   \* the 24 h after which GC drops a CLOSED entry, in ticks
    MaxTime     \* bound: the clock goes past it only while a block's end is ahead

ASSUME BreakerAssumption ==
    /\ {"new", "done"} \cap Domain = {}
    /\ Threshold \in Int
    /\ Timeout \in Int
    /\ StaleAge \in Nat
    /\ MaxTime \in Nat

VARIABLES
    breaker,  \* [Domain -> Entry]; the state "NONE" stands for "not in the map"
    now,      \* the wall clock, time.Now()
    call      \* [Call -> {"new", "done"} \cup Domain]: a domain while admitted

vars == <<breaker, now, call>>

-----------------------------------------------------------------------------
(* CircuitEntry.  lastFailed and openUntil are 0 where Go has a zero Time. *)

State == {"NONE", "CLOSED", "OPEN", "HALF-OPEN"}
Entry == [state: State, failures: Nat, lastFailed: Nat, openUntil: Int]

NoEntry == [state |-> "NONE", failures |-> 0, lastFailed |-> 0, openUntil |-> 0]

\* Mutant: the block never lapses.
Bug_Blocks(e) == e.state = "OPEN"

\* Allow answers false: OPEN and not yet past OpenUntil.
Blocks(e) == e.state = "OPEN" /\ ~(now > e.openUntil)

Denied(d) == Blocks(breaker[d])

\* Mutant: the probe starts with a clean record.
Bug_AfterAllow(e) ==
    IF e.state = "OPEN" THEN [e EXCEPT !.state = "HALF-OPEN", !.failures = 0] ELSE e

\* What an Allow that answers true leaves in the map.
AfterAllow(e) == IF e.state = "OPEN" THEN [e EXCEPT !.state = "HALF-OPEN"] ELSE e

\* Mutant: the failure of a probe starts a new count.
Bug_AfterFailureAfresh(e) ==
    LET n     == IF e.state = "HALF-OPEN" THEN 1 ELSE e.failures + 1
        opens == n >= Threshold
    IN  [state      |-> IF opens THEN "OPEN"
                        ELSE IF e.state = "NONE" THEN "CLOSED" ELSE e.state,
         failures   |-> n,
         lastFailed |-> now,
         openUntil  |-> IF opens THEN now + Timeout ELSE e.openUntil]

\* Mutant: a failure reported while OPEN does not extend the block.
Bug_AfterFailureNoExtend(e) ==
    LET n     == e.failures + 1
        opens == n >= Threshold /\ e.state # "OPEN"
    IN  [state      |-> IF opens THEN "OPEN"
                        ELSE IF e.state = "NONE" THEN "CLOSED" ELSE e.state,
         failures   |-> n,
         lastFailed |-> now,
         openUntil  |-> IF opens THEN now + Timeout ELSE e.openUntil]

\* A failure on a domain without an entry first makes a CLOSED one.  The
\* threshold opens, not one more than it (README.md:302 reads otherwise).
AfterFailure(e) ==
    LET n     == e.failures + 1
        opens == n >= Threshold
    IN  [state      |-> IF opens THEN "OPEN"
                        ELSE IF e.state = "NONE" THEN "CLOSED" ELSE e.state,
         failures   |-> n,
         lastFailed |-> now,
         openUntil  |-> IF opens THEN now + Timeout ELSE e.openUntil]

\* Mutant: GC looks at the age alone.
Bug_Stale(e) == e.state # "NONE" /\ e.lastFailed < now - StaleAge

Stale(e) == e.state = "CLOSED" /\ e.lastFailed < now - StaleAge

Collected == [d \in Domain |-> IF Stale(breaker[d]) THEN NoEntry ELSE breaker[d]]

-----------------------------------------------------------------------------

Init ==
    /\ breaker = [d \in Domain |-> NoEntry]
    /\ now = 0
    /\ call = [c \in Call |-> "new"]

Allow(c, d) ==
    /\ call[c] = "new"
    /\ ~Denied(d)
    /\ breaker' = [breaker EXCEPT ![d] = AfterAllow(@)]
    /\ call' = [call EXCEPT ![c] = d]
    /\ UNCHANGED now

\* Mutant: a success takes one failure back instead of deleting the entry.
Bug_RecordSuccess(c, d) ==
    /\ call[c] = d
    /\ breaker' = [breaker EXCEPT ![d].failures = @ - 1]
    /\ call' = [call EXCEPT ![c] = "done"]
    /\ UNCHANGED now

RecordSuccess(c, d) ==
    /\ call[c] = d
    /\ breaker' = [breaker EXCEPT ![d] = NoEntry]
    /\ call' = [call EXCEPT ![c] = "done"]
    /\ UNCHANGED now

RecordFailure(c, d) ==
    /\ call[c] = d
    /\ breaker' = [breaker EXCEPT ![d] = AfterFailure(@)]
    /\ call' = [call EXCEPT ![c] = "done"]
    /\ UNCHANGED now

\* The caller records neither outcome.
RecordNothing(c, d) ==
    /\ call[c] = d
    /\ call' = [call EXCEPT ![c] = "done"]
    /\ UNCHANGED <<breaker, now>>

\* runCircuitBreakerGC calls it every 10 minutes; here it may run at any time.
GC ==
    /\ breaker' = Collected
    /\ UNCHANGED <<now, call>>

\* Some block ends at a time that is not past.
BlockAhead == \E d \in Domain : breaker[d].state = "OPEN" /\ now <= breaker[d].openUntil

Tick ==
    /\ now < MaxTime \/ BlockAhead
    /\ now' = now + 1
    /\ UNCHANGED <<breaker, call>>

Next ==
    \/ \E c \in Call, d \in Domain :
          \/ Allow(c, d)
          \/ RecordSuccess(c, d)
          \/ RecordFailure(c, d)
          \/ RecordNothing(c, d)
    \/ GC
    \/ Tick

Spec == Init /\ [][Next]_vars

\* Time passes.  Nothing is assumed of callers: a fetch may never report.
FairSpec == Spec /\ WF_vars(Tick)

-----------------------------------------------------------------------------
TypeOK ==
    /\ breaker \in [Domain -> Entry]
    /\ now \in Nat
    /\ call \in [Call -> {"new", "done"} \cup Domain]

(***************************************************************************)
(* A domain is only ever refused on evidence: an OPEN or HALF-OPEN entry   *)
(* holds at least Threshold failures with no success since the first, a    *)
(* CLOSED one at least one and fewer than Threshold, and no entry is ahead *)
(* of the clock.  Multi-step: Allow, GC and late reports of calls admitted *)
(* long ago all touch the entry between the first failure and the block.   *)
(* That Threshold failures are enough is circuit.go:118 and README.md:585; *)
(* README.md:302, 307 have the breaker open when they are exceeded.        *)
(***************************************************************************)
EvidenceFor(e) ==
    /\ e.state = "NONE" => e = NoEntry
    /\ e.state = "CLOSED" => e.failures \in 1 .. (Threshold - 1)
    /\ e.state \in {"OPEN", "HALF-OPEN"} => e.failures >= 1 /\ e.failures >= Threshold
    /\ e.lastFailed <= now

BlockedOnEvidence == \A d \in Domain : EvidenceFor(breaker[d])

(***************************************************************************)
(* A domain is HALF-OPEN only when Timeout has passed since the most       *)
(* recent failure, also one reported late by a call admitted before the    *)
(* breaker opened: such a report moves the end of the block.               *)
(***************************************************************************)
WaitOf(e) ==
    /\ e.state \in {"OPEN", "HALF-OPEN"} => e.openUntil = e.lastFailed + Timeout
    /\ e.state = "HALF-OPEN" => now > e.lastFailed + Timeout

HalfOpenAfterTimeout == \A d \in Domain : WaitOf(breaker[d])

(***************************************************************************)
(* While the clock stands still, only a recorded success readmits a denied *)
(* domain: neither GC nor another failure nor Allow ever does.             *)
(***************************************************************************)
Reports(c, d) == call[c] = d /\ call'[c] = "done"

OnlySuccessUnblocks ==
    [][\A d \in Domain :
          Denied(d) /\ ~Denied(d)' =>
              \/ now' > now
              \/ breaker'[d] = NoEntry /\ \E c \in Call : Reports(c, d)]_vars

(***************************************************************************)
(* One failure is enough to close the door again while a domain is being   *)
(* probed: the failure count survives the move to HALF-OPEN, so the next   *)
(* failure reopens for a full Timeout.                                     *)
(***************************************************************************)
FailedProbeReopens ==
    [][\A d \in Domain :
          breaker[d].state = "HALF-OPEN" /\ breaker'[d].failures > breaker[d].failures
              => breaker'[d].state = "OPEN" /\ breaker'[d].openUntil = now + Timeout]_vars

(***************************************************************************)
(* No domain is refused for ever: once denied, and although late failures  *)
(* may extend the block, Allow would eventually answer true.               *)
(***************************************************************************)
BlockEnds == \A d \in Domain : Denied(d) ~> ~Denied(d)
=============================================================================
