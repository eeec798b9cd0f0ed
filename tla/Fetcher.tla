------------------------------ MODULE Fetcher ------------------------------
(***************************************************************************)
(* How a request reaches its origin: Blacklist.IsDenied, on the rules of   *)
(* module Blacklist while they are reloaded, and then HTTPFetcher.Fetch    *)
(* with the dialler of internal/fetcher/ssrf.go.                           *)
(*                                                                         *)
(* A URL is its target: a host name, or an address written as such.  DNS   *)
(* answers every lookup as it likes, twice in a row differently too.  What *)
(* an origin answers is a choice; sizes count from 0 to just over          *)
(* MaxFileSize.  Connections are kept and used again for the same target.  *)
(* The environment's HTTP proxy, which is dialled instead when there is    *)
(* one, headers and IPv4 against IPv6 are left out.                        *)
(***************************************************************************)
EXTENDS Blacklist, Sequences

CONSTANTS
    Request,
    Host, Address,     \* what a URL's host can be; rules name either
    NoAddress,
    BlockedCIDRs,      \* addresses in the built-in list of checkIP
    AllowedCIDRs,      \* addresses in FETCH_ALLOWED_PRIVATE_CIDRS
    MaxRedirects,      \* FETCH_MAX_REDIRECTS
    MaxFileSize

ASSUME FetcherAssumption ==
    /\ Line \cup EnvRules \subseteq Host \cup Address
    /\ Host \cap Address = {}
    /\ NoAddress \notin Host \cup Address
    /\ BlockedCIDRs \subseteq Address
    /\ AllowedCIDRs \subseteq Address
    /\ MaxRedirects \in Nat
    /\ MaxFileSize \in Nat

VARIABLES
    stage,    \* where the request is
    target,   \* the host of its URL, then of the redirect it follows
    hops,     \* requests sent for it, len(via) in CheckRedirect
    peer,     \* the address its connection goes to
    fetched,  \* what Fetch returned
    pool,     \* [Target -> the address of a kept connection, or NoAddress]
    rules,    \* the snapshot IsDenied works on
    during,   \* history: the rules in force since the request came
    verdict   \* history: what IsDenied said, and of which address

fetchVars == <<stage, target, hops, peer, fetched, pool>>
denyVars == <<rules, during, verdict>>
vars == <<blacklistVars, fetchVars, denyVars>>

Target == Host \cup Address

\* Up to two addresses, in an order; none stands for a lookup that fails.
Lookup == {<<>>} \cup {<<a>> : a \in Address} \cup (Address \X Address)

\* What Fetch returns, with the size of the body the origin sent and of the
\* one the result holds.
Size == 0 .. MaxFileSize + 2
Fetched == [kind: {"none", "result", "tooLarge", "error"}, sent: Size, read: Size]
Nothing == [kind |-> "none", sent |-> 0, read |-> 0]
Failure == [Nothing EXCEPT !.kind = "error"]

\* checkIP: the configured exemptions come before the built-in list.
CheckIP(a) == a \in AllowedCIDRs \/ a \notin BlockedCIDRs

\* Mutant: a body of the maximal size is cut by the limit of the reader.
Bug_ReadBody(size) ==
    LET read == IF size > MaxFileSize THEN MaxFileSize ELSE size
    IN  IF read > MaxFileSize THEN [Nothing EXCEPT !.kind = "tooLarge"]
        ELSE [kind |-> "result", sent |-> size, read |-> read]

\* The LimitReader lets one byte more than the limit through.
ReadBody(size) ==
    LET read == IF size > MaxFileSize + 1 THEN MaxFileSize + 1 ELSE size
    IN  IF read > MaxFileSize THEN [Nothing EXCEPT !.kind = "tooLarge"]
        ELSE [kind |-> "result", sent |-> size, read |-> read]

-----------------------------------------------------------------------------
Init ==
    /\ BlacklistInit
    /\ stage = [r \in Request |-> "new"]
    /\ target \in [Request -> Target]
    /\ hops = [r \in Request |-> 0]
    /\ peer = [r \in Request |-> NoAddress]
    /\ fetched = [r \in Request |-> Nothing]
    /\ pool = [t \in Target |-> NoAddress]
    /\ rules = [r \in Request |-> {}]
    /\ during = [r \in Request |-> {}]
    /\ verdict = [r \in Request |-> [denied |-> FALSE, of |-> NoAddress]]

Goto(r, s) == stage' = [stage EXCEPT ![r] = s]

\* The server accepts requests when New has returned.
Arrive(r) ==
    /\ stage[r] = "new"
    /\ loader \notin {"load", "store"}
    /\ Goto(r, "check")
    /\ during' = [during EXCEPT ![r] = {inForce}]
    /\ UNCHANGED <<blacklistVars, target, hops, peer, fetched, pool, rules, verdict>>

Decide(r, denied, address) ==
    /\ verdict' = [verdict EXCEPT ![r] = [denied |-> denied, of |-> address]]
    /\ Goto(r, IF denied THEN "denied" ELSE "connect")

\* IsDenied takes the rules once.  A host that the rules do not name, and
\* that is not an address itself, is looked up.
LoadRules(r) ==
    /\ stage[r] = "check"
    /\ rules' = [rules EXCEPT ![r] = inForce]
    /\ IF target[r] \in inForce \/ target[r] \in Address
       THEN Decide(r, target[r] \in inForce,
                   IF target[r] \in Address THEN target[r] ELSE NoAddress)
       ELSE Goto(r, "resolve") /\ UNCHANGED verdict
    /\ UNCHANGED <<blacklistVars, target, hops, peer, fetched, pool, during>>

\* Mutant: the rules are taken again after the lookup.
Bug_ResolveForRules(r) ==
    /\ stage[r] = "resolve"
    /\ \E addrs \in Lookup :
          IF addrs = <<>> THEN Decide(r, FALSE, NoAddress)
          ELSE Decide(r, addrs[1] \in inForce, addrs[1])
    /\ UNCHANGED <<blacklistVars, target, hops, peer, fetched, pool, rules, during>>

\* Only the first address is held against the rules; a lookup that fails
\* denies nothing.
ResolveForRules(r) ==
    /\ stage[r] = "resolve"
    /\ \E addrs \in Lookup :
          IF addrs = <<>> THEN Decide(r, FALSE, NoAddress)
          ELSE Decide(r, addrs[1] \in rules[r], addrs[1])
    /\ UNCHANGED <<blacklistVars, target, hops, peer, fetched, pool, rules, during>>

-----------------------------------------------------------------------------
(* Fetch.  The blacklist is not asked again, whatever the redirects.       *)

Send(r, a) ==
    /\ peer' = [peer EXCEPT ![r] = a]
    /\ hops' = [hops EXCEPT ![r] = @ + 1]
    /\ Goto(r, "sent")
    /\ UNCHANGED <<blacklistVars, target, fetched, denyVars>>

Finish(r, result) ==
    /\ fetched' = [fetched EXCEPT ![r] = result]
    /\ Goto(r, "ended")
    /\ UNCHANGED <<blacklistVars, target, hops, peer, pool, denyVars>>

\* Mutant: the name is resolved again to be dialled.
Bug_Dial(r) ==
    /\ stage[r] = "connect"
    /\ \E addrs \in IF target[r] \in Address THEN {<<target[r]>>} ELSE Lookup \ {<<>>} :
          /\ \A i \in DOMAIN addrs : CheckIP(addrs[i])
          /\ \E a \in IF target[r] \in Address THEN {target[r]} ELSE Address :
                /\ pool' = [pool EXCEPT ![target[r]] = a]
                /\ Send(r, a)

\* dialContext: every address of the lookup must pass, and the first is
\* dialled as it is, without another lookup.
Dial(r) ==
    /\ stage[r] = "connect"
    /\ \E addrs \in IF target[r] \in Address THEN {<<target[r]>>} ELSE Lookup \ {<<>>} :
          /\ \A i \in DOMAIN addrs : CheckIP(addrs[i])
          /\ pool' = [pool EXCEPT ![target[r]] = addrs[1]]
          /\ Send(r, addrs[1])

Reuse(r) ==
    /\ stage[r] = "connect"
    /\ pool[target[r]] # NoAddress
    /\ UNCHANGED pool
    /\ Send(r, pool[target[r]])

\* An address refused, a lookup that fails or finds nothing, no connection,
\* FETCH_TIMEOUT, a done context, a body that breaks off.
Fail(r) ==
    /\ stage[r] \in {"connect", "sent"}
    /\ Finish(r, Failure)

\* Mutant: a limit of n follows n redirects.
Bug_Redirected(r, t) ==
    /\ stage[r] = "sent"
    /\ IF hops[r] > MaxRedirects
       THEN Finish(r, Failure)
       ELSE /\ target' = [target EXCEPT ![r] = t]
            /\ Goto(r, "connect")
            /\ UNCHANGED <<blacklistVars, hops, peer, fetched, pool, denyVars>>

\* CheckRedirect counts the requests sent, not the redirects followed.
Redirected(r, t) ==
    /\ stage[r] = "sent"
    /\ IF hops[r] >= MaxRedirects
       THEN Finish(r, Failure)
       ELSE /\ target' = [target EXCEPT ![r] = t]
            /\ Goto(r, "connect")
            /\ UNCHANGED <<blacklistVars, hops, peer, fetched, pool, denyVars>>

\* A status below 200 or from 600 on comes without its body.
Answered(r) ==
    /\ stage[r] = "sent"
    /\ \/ Finish(r, [Nothing EXCEPT !.kind = "result"])
       \/ \E size \in Size : Finish(r, ReadBody(size))

\* The connection is closed after a while, or by the origin.
Idle(t) ==
    /\ pool[t] # NoAddress
    /\ pool' = [pool EXCEPT ![t] = NoAddress]
    /\ UNCHANGED <<blacklistVars, stage, target, hops, peer, fetched, denyVars>>

\* The requests that are being checked see what a reload puts in force.
Watch ==
    /\ BlacklistNext
    /\ during' = [r \in Request |->
                    IF stage[r] \in {"check", "resolve"} THEN during[r] \cup {inForce'}
                    ELSE during[r]]
    /\ UNCHANGED <<fetchVars, rules, verdict>>

Next ==
    \/ Watch
    \/ \E r \in Request :
          \/ Arrive(r) \/ LoadRules(r) \/ ResolveForRules(r)
          \/ Dial(r) \/ Reuse(r) \/ Fail(r) \/ Answered(r)
          \/ \E t \in Target : Redirected(r, t)
    \/ \E t \in Target : Idle(t)

Spec == Init /\ [][Next]_vars /\ LoaderFairness

-----------------------------------------------------------------------------
\* Requests sent for one fetch: a limit of n follows n - 1 redirects.
MaxHops == IF MaxRedirects = 0 THEN 1 ELSE MaxRedirects

FetchTypeOK ==
    /\ stage \in [Request -> {"new", "check", "resolve", "denied", "connect", "sent", "ended"}]
    /\ target \in [Request -> Target]
    /\ hops \in [Request -> 0 .. MaxHops]
    /\ peer \in [Request -> Address \cup {NoAddress}]
    /\ fetched \in [Request -> Fetched]
    /\ pool \in [Target -> Address \cup {NoAddress}]
    /\ rules \in [Request -> Rules]
    /\ during \in [Request -> SUBSET Rules]
    /\ verdict \in [Request -> [denied: BOOLEAN, of: Address \cup {NoAddress}]]

TypeOK == BlacklistTypeOK /\ FetchTypeOK

(***************************************************************************)
(* IsDenied decides by one set of rules, one that was in force while it    *)
(* ran: a reload in the middle of it never mixes the hosts of one version  *)
(* with the addresses of another.                                          *)
(***************************************************************************)
DeniedBy(R, t, a) == t \in R \/ a \in R

OneRuleSetDecides ==
    \A r \in Request :
        stage[r] \in {"denied", "connect"} /\ hops[r] = 0 =>
            \E R \in during[r] :
                verdict[r].denied = DeniedBy(R, target[r], verdict[r].of)

(***************************************************************************)
(* No connection, new or kept, of the first request or of a redirect, goes *)
(* to an address that checkIP refuses, whatever DNS answers from one       *)
(* lookup to the next (ssrf.go:72-73).  A URL's host that is an address    *)
(* itself is treated alike: it is dialled if checkIP passes it             *)
(* (ssrf.go:81-87), though the comment at ssrf.go:80 and README.md:680     *)
(* have every such URL refused.                                            *)
(***************************************************************************)
DialsAreVetted ==
    \A r \in Request :
        peer[r] # NoAddress => peer[r] \in AllowedCIDRs \/ peer[r] \notin BlockedCIDRs

(***************************************************************************)
(* A result holds the whole of the origin's body, also one of exactly the  *)
(* maximal size; a larger one is an error and not a shorter body.          *)
(***************************************************************************)
BodiesAreWhole ==
    \A r \in Request :
        /\ fetched[r].kind = "result" => fetched[r].read = fetched[r].sent
        /\ fetched[r].read <= MaxFileSize
=============================================================================
