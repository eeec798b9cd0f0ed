--------------------------- MODULE FetcherProofs ---------------------------
(***************************************************************************)
(* Theorems about Fetcher and the Blacklist it runs with, for any hosts,   *)
(* addresses, rules, requests and bounds.                                  *)
(*                                                                         *)
(* Loading says why no write is missed: from an edit of the watched file   *)
(* until the next load there is an event to come, and what is in force is  *)
(* what the last load gave, be it a part.  Vetting follows a request from  *)
(* IsDenied to the connection it gets.  The steps of the loader and of the *)
(* file's writers reach the requests only through the rules in force.      *)
(***************************************************************************)
EXTENDS Fetcher, TLAPS

Loading ==
    /\ events <= edits
    /\ loaded \subseteq found
    /\ loader \in {"start", "idle", "reload", "ended"} => inForce = EnvRules \cup loaded
    /\ watch = "on" /\ events = 0 /\ loader = "restore" => found = file
    /\ watch = "on" /\ AtRest /\ ~gap => found = file

Checking ==
    \A r \in Request :
        /\ stage[r] = "check" => inForce \in during[r]
        /\ stage[r] = "resolve" =>
              /\ rules[r] \in during[r]
              /\ target[r] \notin rules[r]

Hops ==
    \A r \in Request :
        /\ stage[r] = "sent" => hops[r] > 0
        /\ stage[r] \in {"new", "check", "resolve"} => hops[r] = 0
        /\ stage[r] = "connect" => hops[r] < MaxHops

Kept == \A t \in Target : pool[t] # NoAddress => CheckIP(pool[t])

BlacklistInv == BlacklistTypeOK /\ Loading
Vetting == Checking /\ OneRuleSetDecides /\ Hops /\ Kept /\ DialsAreVetted /\ BodiesAreWhole

IInv == BlacklistInv /\ FetchTypeOK /\ Vetting

-----------------------------------------------------------------------------
(* The rules.                                                              *)

LEMMA InitBlacklist == BlacklistInit => BlacklistInv
<1> SUFFICES ASSUME BlacklistInit PROVE BlacklistInv
  OBVIOUS
<1>1. present \in BOOLEAN /\ gap \in BOOLEAN
  BY Zenon DEF BlacklistInit
<1>2. Loading
  BY DEF BlacklistInit, Loading, AtRest
<1>3. BlacklistTypeOK
  BY <1>1, BlacklistAssumption DEF BlacklistInit, BlacklistTypeOK, Rules
<1> QED
  BY <1>2, <1>3 DEF BlacklistInv

LEMMA StepBlacklist == BlacklistInv /\ [BlacklistNext]_blacklistVars => BlacklistInv'
<1> SUFFICES ASSUME BlacklistInv, [BlacklistNext]_blacklistVars PROVE BlacklistInv'
  OBVIOUS
<1> USE BlacklistAssumption
        DEF BlacklistInv, BlacklistTypeOK, Loading, AtRest, Rules
<1>1. CASE UNCHANGED blacklistVars
  BY <1>1 DEF blacklistVars
<1>2. ASSUME NEW lines \in SUBSET file, LoadFile(lines) PROVE BlacklistInv'
  BY <1>2 DEF LoadFile
<1>3. CASE Store
  BY <1>3 DEF Store, Merged
<1>4. CASE StartWatch
  BY <1>4 DEF StartWatch
<1>5. CASE WatchFails
  BY <1>5 DEF WatchFails
<1>6. CASE TakeEvent
  BY <1>6 DEF TakeEvent
<1>7. CASE Truncate
  BY <1>7 DEF Truncate, Edit, Notified
<1>8. ASSUME NEW l \in Line, WriteLine(l) PROVE BlacklistInv'
  BY <1>8 DEF WriteLine, Edit, Notified
<1>9. ASSUME NEW version \in SUBSET Line, Replace(version) PROVE BlacklistInv'
  BY <1>9 DEF Replace, Edit, LoseWatch
<1>10. CASE RemoveFile
  <2>1. present' \in BOOLEAN
    BY <1>10, Zenon DEF RemoveFile
  <2> QED
    BY <1>10, <2>1 DEF RemoveFile, Edit, LoseWatch
<1> QED
  BY <1>1, <1>2, <1>3, <1>4, <1>5, <1>6, <1>7, <1>8, <1>9, <1>10
  DEF BlacklistNext, Loader, Load, LoadFails, Writer

-----------------------------------------------------------------------------
(* What the requests' steps are made of.                                   *)

LEMMA Bounds ==
    /\ MaxHops \in Nat /\ MaxHops >= 1
    /\ \A h \in Nat : h >= 1 /\ ~ h >= MaxRedirects => h < MaxHops
BY FetcherAssumption DEF MaxHops

LEMMA NoRuleIsNoAddress == \A R \in Rules : NoAddress \notin R
BY FetcherAssumption DEF Rules

LEMMA Results ==
    /\ Nothing \in Fetched /\ Nothing.kind = "none" /\ Nothing.read = 0
    /\ Failure \in Fetched /\ Failure.kind = "error" /\ Failure.read = 0
    /\ [Nothing EXCEPT !.kind = "result"] \in Fetched
    /\ [Nothing EXCEPT !.kind = "result"].read = 0
    /\ [Nothing EXCEPT !.kind = "result"].sent = 0
BY FetcherAssumption DEF Nothing, Failure, Fetched, Size

\* The reader lets a byte more than MaxFileSize through, so what it returns
\* within the limit is all there was.
LEMMA ReadBodyWhole ==
    ASSUME NEW size \in Size
    PROVE  /\ ReadBody(size) \in Fetched
           /\ ReadBody(size).kind = "result" => ReadBody(size).read = ReadBody(size).sent
           /\ ReadBody(size).read <= MaxFileSize
<1>1. CASE size > MaxFileSize
  <2>1. ReadBody(size) = [Nothing EXCEPT !.kind = "tooLarge"]
    BY <1>1, FetcherAssumption DEF ReadBody, Size
  <2> QED
    BY <2>1, FetcherAssumption DEF Nothing, Fetched, Size
<1>2. CASE ~ size > MaxFileSize
  <2>1. ReadBody(size) = [kind |-> "result", sent |-> size, read |-> size]
    BY <1>2, FetcherAssumption DEF ReadBody, Size
  <2> QED
    BY <1>2, <2>1, FetcherAssumption DEF Fetched, Size
<1> QED
  BY <1>1, <1>2

LEMMA Lookups ==
    ASSUME NEW addrs \in Lookup, addrs # <<>>
    PROVE  addrs[1] \in Address /\ 1 \in DOMAIN addrs
BY DEF Lookup

-----------------------------------------------------------------------------
LEMMA InitIInv == Init => IInv
<1> SUFFICES ASSUME Init PROVE IInv
  OBVIOUS
<1>1. BlacklistInv
  BY InitBlacklist DEF Init
<1>2. FetchTypeOK
  BY Results, Bounds DEF Init, FetchTypeOK, Rules
<1>3. Vetting
  BY Results, Bounds, FetcherAssumption
  DEF Init, Vetting, Checking, OneRuleSetDecides, Hops, Kept, DialsAreVetted, BodiesAreWhole
<1> QED
  BY <1>1, <1>2, <1>3 DEF IInv

\* A step of a request leaves the rules alone.
LEMMA RequestStep ==
    ASSUME IInv, NEW r \in Request,
           \/ Arrive(r) \/ LoadRules(r) \/ ResolveForRules(r)
           \/ Dial(r) \/ Reuse(r) \/ Fail(r) \/ Answered(r)
           \/ \E t \in Target : Redirected(r, t)
    PROVE  FetchTypeOK' /\ Vetting'
<1> USE DEF IInv, BlacklistInv
<1>r. inForce \in Rules /\ target[r] \in Target /\ hops[r] \in 0 .. MaxHops
  BY DEF BlacklistTypeOK, FetchTypeOK
<1>1. CASE Arrive(r)
  <2>1. FetchTypeOK'
    BY <1>1, <1>r DEF Arrive, Goto, FetchTypeOK
  <2>2. Vetting'
    BY <1>1 DEF Arrive, Goto, FetchTypeOK, blacklistVars, Vetting, Checking, OneRuleSetDecides,
       Hops, Kept, DialsAreVetted, BodiesAreWhole
  <2> QED
    BY <2>1, <2>2
<1>2. ASSUME NEW a \in Address \cup {NoAddress}, NEW R \in during[r],
             Decide(r, DeniedBy(R, target[r], a), a),
             stage[r] \in {"check", "resolve"},
             rules' = rules \/ rules' = [rules EXCEPT ![r] = inForce],
             UNCHANGED <<blacklistVars, target, hops, peer, fetched, pool, during>>
      PROVE  FetchTypeOK' /\ Vetting'
  <2>1. FetchTypeOK'
    <3> DEFINE d == DeniedBy(R, target[r], a)
               v == [denied |-> d, of |-> a]
    <3>1. d \in BOOLEAN
      BY Zenon DEF DeniedBy
    <3> HIDE DEF d
    <3>2. v \in [denied: BOOLEAN, of: Address \cup {NoAddress}]
      BY <3>1
    <3>3. verdict' = [verdict EXCEPT ![r] = v]
      BY <1>2 DEF Decide, d
    <3>4. stage' = [stage EXCEPT ![r] = "denied"] \/ stage' = [stage EXCEPT ![r] = "connect"]
      BY <1>2 DEF Decide, Goto
    <3> HIDE DEF v
    <3> QED
      BY <1>2, <1>r, <3>2, <3>3, <3>4 DEF FetchTypeOK
  <2>2. Checking' /\ Hops'
    BY <1>2, Bounds DEF Decide, Goto, FetchTypeOK, blacklistVars, Vetting, Checking, Hops
  <2>3. OneRuleSetDecides'
    BY <1>2 DEF Decide, Goto, FetchTypeOK, Vetting, OneRuleSetDecides
  <2>4. Kept' /\ DialsAreVetted' /\ BodiesAreWhole'
    BY <1>2 DEF Vetting, Kept, DialsAreVetted, BodiesAreWhole
  <2> QED
    BY <2>1, <2>2, <2>3, <2>4 DEF Vetting
<1>3. CASE LoadRules(r)
  <2>1. inForce \in during[r] /\ hops[r] = 0
    BY <1>3 DEF LoadRules, Vetting, Checking, Hops
  <2>2. CASE target[r] \in inForce \/ target[r] \in Address
    <3> DEFINE a == IF target[r] \in Address THEN target[r] ELSE NoAddress
    <3>1. (target[r] \in inForce) = DeniedBy(inForce, target[r], a)
      BY <1>r, NoRuleIsNoAddress DEF DeniedBy
    <3>2. a \in Address \cup {NoAddress}
      OBVIOUS
    <3>3. Decide(r, DeniedBy(inForce, target[r], a), a)
      BY <1>3, <2>2, <3>1, Zenon DEF LoadRules
    <3> HIDE DEF a
    <3> QED
      BY <1>2, <1>3, <2>1, <3>2, <3>3 DEF LoadRules
  <2>3. CASE ~ (target[r] \in inForce \/ target[r] \in Address)
    <3>1. FetchTypeOK'
      BY <1>3, <1>r, <2>3 DEF LoadRules, Goto, FetchTypeOK
    <3>2. Checking' /\ Hops'
      BY <1>3, <2>1, <2>3 DEF LoadRules, Goto, FetchTypeOK, blacklistVars, Vetting, Checking, Hops
    <3>3. OneRuleSetDecides'
      BY <1>3, <2>3 DEF LoadRules, Goto, FetchTypeOK, blacklistVars, Vetting, OneRuleSetDecides
    <3>4. Kept' /\ DialsAreVetted' /\ BodiesAreWhole'
      BY <1>3, <2>3 DEF LoadRules, Goto, Vetting, Kept, DialsAreVetted, BodiesAreWhole
    <3> QED
      BY <3>1, <3>2, <3>3, <3>4 DEF Vetting
  <2> QED
    BY <2>2, <2>3
<1>4. CASE ResolveForRules(r)
  <2>1. rules[r] \in during[r] /\ rules[r] \in Rules /\ target[r] \notin rules[r]
    BY <1>4 DEF ResolveForRules, Vetting, Checking, FetchTypeOK
  <2>2. PICK addrs \in Lookup :
          IF addrs = <<>> THEN Decide(r, FALSE, NoAddress)
          ELSE Decide(r, addrs[1] \in rules[r], addrs[1])
    BY <1>4 DEF ResolveForRules
  <2>3. CASE addrs = <<>>
    <3>1. FALSE = DeniedBy(rules[r], target[r], NoAddress)
      BY <2>1, NoRuleIsNoAddress DEF DeniedBy
    <3>2. Decide(r, DeniedBy(rules[r], target[r], NoAddress), NoAddress)
      BY <2>2, <2>3, <3>1, Zenon
    <3> QED
      BY <1>2, <1>4, <2>1, <3>2 DEF ResolveForRules
  <2>4. CASE addrs # <<>>
    <3>1. (addrs[1] \in rules[r]) = DeniedBy(rules[r], target[r], addrs[1])
      BY <2>1 DEF DeniedBy
    <3>2. addrs[1] \in Address
      BY <2>4, Lookups
    <3>3. Decide(r, DeniedBy(rules[r], target[r], addrs[1]), addrs[1])
      BY <2>2, <2>4, <3>1, Zenon
    <3> QED
      BY <1>2, <1>4, <2>1, <3>2, <3>3 DEF ResolveForRules
  <2> QED
    BY <2>3, <2>4
<1>5. ASSUME NEW a \in Address, CheckIP(a), Send(r, a), stage[r] = "connect",
             pool' = pool \/ pool' = [pool EXCEPT ![target[r]] = a]
      PROVE  FetchTypeOK' /\ Vetting'
  <2>0. hops[r] < MaxHops
    BY <1>5 DEF Vetting, Hops
  <2>1. FetchTypeOK'
    BY <1>5, <1>r, <2>0, Bounds DEF Send, Goto, FetchTypeOK, denyVars
  <2>2. Checking' /\ OneRuleSetDecides'
    BY <1>5 DEF Send, Goto, FetchTypeOK, blacklistVars, denyVars, Vetting, Checking,
       OneRuleSetDecides
  <2>3. Hops'
    BY <1>5, <1>r, Bounds DEF Send, Goto, FetchTypeOK, Vetting, Hops
  <2>4. Kept' /\ DialsAreVetted' /\ BodiesAreWhole'
    BY <1>5, <1>r DEF Send, FetchTypeOK, Vetting, Kept, DialsAreVetted, BodiesAreWhole, CheckIP
  <2> QED
    BY <2>1, <2>2, <2>3, <2>4 DEF Vetting
<1>6. CASE Dial(r)
  <2>1. PICK addrs \in IF target[r] \in Address THEN {<<target[r]>>} ELSE Lookup \ {<<>>} :
          /\ \A i \in DOMAIN addrs : CheckIP(addrs[i])
          /\ pool' = [pool EXCEPT ![target[r]] = addrs[1]]
          /\ Send(r, addrs[1])
    BY <1>6 DEF Dial
  <2>2. addrs[1] \in Address /\ 1 \in DOMAIN addrs
    BY Lookups
  <2> QED
    BY <1>5, <1>6, <2>1, <2>2 DEF Dial
<1>7. CASE Reuse(r)
  <2>1. pool[target[r]] \in Address /\ CheckIP(pool[target[r]])
    BY <1>7, <1>r DEF Reuse, FetchTypeOK, Vetting, Kept
  <2> QED
    BY <1>5, <1>7, <2>1 DEF Reuse
<1>8. ASSUME NEW f \in Fetched, Finish(r, f), f.kind = "result" => f.read = f.sent,
             f.read <= MaxFileSize
      PROVE  FetchTypeOK' /\ Vetting'
  <2>1. FetchTypeOK'
    BY <1>8 DEF Finish, Goto, FetchTypeOK, denyVars
  <2>2. Checking' /\ OneRuleSetDecides' /\ Hops'
    BY <1>8 DEF Finish, Goto, FetchTypeOK, blacklistVars, denyVars, Vetting, Checking,
       OneRuleSetDecides, Hops
  <2>3. Kept' /\ DialsAreVetted'
    BY <1>8 DEF Finish, Vetting, Kept, DialsAreVetted
  <2>4. BodiesAreWhole'
    BY <1>8 DEF Finish, FetchTypeOK, Vetting, BodiesAreWhole
  <2> QED
    BY <2>1, <2>2, <2>3, <2>4 DEF Vetting
<1>f. Finish(r, Failure) => FetchTypeOK' /\ Vetting'
  BY <1>8, Results, FetcherAssumption
<1>9. CASE Fail(r)
  BY <1>9, <1>f DEF Fail
<1>10. CASE Answered(r)
  <2>1. CASE Finish(r, [Nothing EXCEPT !.kind = "result"])
    <3> DEFINE bare == [Nothing EXCEPT !.kind = "result"]
    <3>1. bare \in Fetched /\ bare.read = 0 /\ bare.sent = 0 /\ Finish(r, bare)
      BY <2>1, Results
    <3> HIDE DEF bare
    <3> QED
      BY <1>8, <3>1, FetcherAssumption
  <2>2. ASSUME NEW size \in Size, Finish(r, ReadBody(size))
        PROVE  FetchTypeOK' /\ Vetting'
    BY <1>8, <2>2, ReadBodyWhole
  <2> QED
    BY <1>10, <2>1, <2>2 DEF Answered
<1>11. ASSUME NEW t \in Target, Redirected(r, t) PROVE FetchTypeOK' /\ Vetting'
  <2>1. CASE hops[r] >= MaxRedirects
    BY <1>11, <1>f, <2>1 DEF Redirected
  <2>2. CASE ~ hops[r] >= MaxRedirects
    <3>1. hops[r] > 0 /\ hops[r] < MaxHops
      BY <1>11, <1>r, <2>2, Bounds DEF Redirected, Vetting, Hops
    <3>2. FetchTypeOK'
      BY <1>11, <2>2 DEF Redirected, Goto, FetchTypeOK, denyVars
    <3>3. /\ stage' = [stage EXCEPT ![r] = "connect"] /\ target' = [target EXCEPT ![r] = t]
          /\ UNCHANGED <<inForce, hops, peer, fetched, pool, rules, during, verdict>>
      BY <1>11, <2>2 DEF Redirected, Goto, blacklistVars, denyVars
    <3>4. Checking' /\ OneRuleSetDecides'
      BY <3>1, <3>3 DEF FetchTypeOK, Vetting, Checking, OneRuleSetDecides
    <3>5. Hops'
      BY <3>1, <3>3 DEF FetchTypeOK, Vetting, Hops
    <3>6. Kept' /\ DialsAreVetted' /\ BodiesAreWhole'
      BY <3>3 DEF Vetting, Kept, DialsAreVetted, BodiesAreWhole
    <3> QED
      BY <3>2, <3>4, <3>5, <3>6 DEF Vetting
  <2> QED
    BY <2>1, <2>2
<1> QED
  BY <1>1, <1>3, <1>4, <1>6, <1>7, <1>9, <1>10, <1>11

LEMMA StepIInv == IInv /\ [Next]_vars => IInv'
<1> SUFFICES ASSUME IInv, [Next]_vars PROVE IInv'
  OBVIOUS
<1>1. BlacklistInv'
  <2>1. [BlacklistNext]_blacklistVars
    BY DEF Next, vars, Watch, Arrive, LoadRules, ResolveForRules, Dial, Reuse, Send, Fail,
       Finish, Answered, Redirected, Idle
  <2> QED
    BY <2>1, StepBlacklist DEF IInv
<1>2. CASE UNCHANGED vars
  BY <1>1, <1>2 DEF vars, fetchVars, denyVars, blacklistVars, IInv, FetchTypeOK, Vetting, Checking,
     OneRuleSetDecides, Hops, Kept, DialsAreVetted, BodiesAreWhole
<1>3. CASE Watch
  <2>1. inForce' \in Rules
    BY <1>1 DEF BlacklistInv, BlacklistTypeOK
  <2>2. FetchTypeOK'
    BY <1>3, <2>1 DEF Watch, fetchVars, IInv, FetchTypeOK
  <2>3. Checking' /\ OneRuleSetDecides'
    BY <1>3 DEF Watch, fetchVars, IInv, FetchTypeOK, Vetting, Checking, OneRuleSetDecides
  <2>4. Hops' /\ Kept' /\ DialsAreVetted' /\ BodiesAreWhole'
    BY <1>3 DEF Watch, fetchVars, IInv, Vetting, Hops, Kept, DialsAreVetted, BodiesAreWhole
  <2> QED
    BY <1>1, <2>2, <2>3, <2>4 DEF IInv, Vetting
<1>4. ASSUME NEW r \in Request,
             \/ Arrive(r) \/ LoadRules(r) \/ ResolveForRules(r)
             \/ Dial(r) \/ Reuse(r) \/ Fail(r) \/ Answered(r)
             \/ \E t \in Target : Redirected(r, t)
      PROVE  IInv'
  BY <1>1, <1>4, RequestStep DEF IInv
<1>5. ASSUME NEW t \in Target, Idle(t) PROVE IInv'
  <2>1. FetchTypeOK'
    BY <1>5 DEF Idle, denyVars, IInv, FetchTypeOK
  <2>2. Vetting'
    BY <1>5 DEF Idle, denyVars, blacklistVars, IInv, FetchTypeOK, Vetting, Checking,
       OneRuleSetDecides, Hops, Kept, DialsAreVetted, BodiesAreWhole
  <2> QED
    BY <1>1, <2>1, <2>2 DEF IInv
<1> QED
  BY <1>2, <1>3, <1>4, <1>5 DEF Next

LEMMA Inductive == Spec => []IInv
BY InitIInv, StepIInv, PTL DEF Spec

-----------------------------------------------------------------------------
(***************************************************************************)
(* The state keeps its types; no fetch sends more requests than            *)
(* CheckRedirect allows (MaxHops).                                         *)
(***************************************************************************)
THEOREM TypeCorrect == Spec => []TypeOK
<1>1. IInv => TypeOK
  BY DEF IInv, BlacklistInv, FetchTypeOK, TypeOK
<1> QED
  BY <1>1, Inductive, PTL

(***************************************************************************)
(* With the watch holding, the rules at rest are those of the environment  *)
(* and of the file, or of the part of it that the last load could read,    *)
(* and no older ones: watch reloads once for every event it has not        *)
(* received, whatever is written during a reload.                          *)
(***************************************************************************)
THEOREM Fresh == Spec => []FreshWhenWatched
<1>1. IInv => FreshWhenWatched
  BY DEF IInv, BlacklistInv, Loading, FreshWhenWatched, AtRest
<1> QED
  BY <1>1, Inductive, PTL

(***************************************************************************)
(* IsDenied's answer is that of one version of the rules, in force while   *)
(* it ran, through the lookup and any number of reloads.                   *)
(***************************************************************************)
THEOREM OneSetDecides == Spec => []OneRuleSetDecides
<1>1. IInv => OneRuleSetDecides
  BY DEF IInv, Vetting
<1> QED
  BY <1>1, Inductive, PTL

(***************************************************************************)
(* Every connection of Fetch goes to an address that checkIP has passed,   *)
(* for any answers of DNS and any redirects.                               *)
(***************************************************************************)
THEOREM Vetted == Spec => []DialsAreVetted
<1>1. IInv => DialsAreVetted
  BY DEF IInv, Vetting
<1> QED
  BY <1>1, Inductive, PTL

(***************************************************************************)
(* Fetch returns whole bodies of at most MaxFileSize, for every limit.     *)
(***************************************************************************)
THEOREM WholeBodies == Spec => []BodiesAreWhole
<1>1. IInv => BodiesAreWhole
  BY DEF IInv, Vetting
<1> QED
  BY <1>1, Inductive, PTL
=============================================================================
