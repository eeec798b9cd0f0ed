---------------------------- MODULE ProxyHandler ----------------------------
(***************************************************************************)
(* The request pipeline of internal/handler/proxy.go: ServeHTTP,           *)
(* originFetch, handleOriginError and the asynchronous cache writes, for   *)
(* any number of concurrent requests, composed with the negative cache,    *)
(* the circuit breaker and singleflight.                                   *)
(*                                                                         *)
(* One request is one goroutine; a step is one access to state that other  *)
(* goroutines can change.  originFetch runs with the context of its first  *)
(* caller (proxy.go:239-246), so a fetch is identified by the request that *)
(* started it, and the media a fetch produced by that request too:         *)
(* l1[k] = r says that the file of key k was written from r's fetch.       *)
(*                                                                         *)
(* Left to other modules: the two files of an L1 entry and their eviction, *)
(* conditional requests, the hot reload of the blacklist, shutdown.  Here  *)
(* L1 is a map, the blacklist a constant, the converter's semaphore part   *)
(* of the time a conversion takes.                                         *)
(***************************************************************************)
EXTENDS Integers, FiniteSets

CONSTANTS
    Request,      \* the requests of a behaviour; each is made once
    NoRequest,    \* not a request: no flight, no entry, nothing received
    Key, Domain,
    DomainOf,     \* [Key -> Domain]: the host of the key's url
    Converted,    \* keys whose variant.NeedsConversion()
    Asks,         \* what clients ask for: records in Ask
    Blacklisted,  \* domains that Blacklist.IsDenied refuses
    Status,       \* statuses outside 200..299 that Fetch may return
    L2Enabled,    \* S3_ENABLED
    CanPanic,     \* whether a conversion may panic
    Threshold, Timeout, StaleAge, Ttl40X, Ttl5XX, MaxTime

Ask == [key: Key, debug: BOOLEAN, fallback: BOOLEAN]

ASSUME ProxyAssumption ==
    /\ NoRequest \notin Request
    /\ DomainOf \in [Key -> Domain]
    /\ Converted \subseteq Key
    /\ Asks \subseteq Ask
    /\ Status \subseteq Nat \ ({0} \cup 200 .. 299)
    /\ L2Enabled \in BOOLEAN
    /\ CanPanic \in BOOLEAN
    /\ {"new", "done"} \cap Domain = {}
    /\ {Threshold, Timeout, Ttl40X, Ttl5XX} \subseteq Int
    /\ {StaleAge, MaxTime} \subseteq Nat

VARIABLES
    ask,      \* [Request -> Asks], the parsed query; never changes
    pc,       \* where ServeHTTP is
    gone,     \* requests whose context is done: client left, REQUEST_TIMEOUT
    got,      \* the fetch whose media or result the request holds
    answer,   \* what the request was answered
    flight,   \* singleflight: [Key -> the fetch in flight, or NoRequest]
    fetch,    \* the stage of the request's own originFetch
    result,   \* what originFetch returned
    pending,  \* asynchronous writes the request has started and not finished
    l1, l2,   \* [Key -> the fetch whose media is stored, or NoRequest]
    tracked,  \* keys with an AccessTracker entry
    breaker, neg, now,
    up        \* the process is running

reqVars   == <<ask, pc, gone, got, answer>>
fetchVars == <<flight, fetch, result>>
cacheVars == <<pending, l1, l2, tracked>>
storeVars == <<breaker, neg>>
vars == <<reqVars, fetchVars, cacheVars, storeVars, now, up>>

KeyOf(r) == ask[r].key
HostOf(r) == DomainOf[KeyOf(r)]

(* The stores.  A request stands for its dealings with the breaker: not    *)
(* yet admitted, able to report on its domain, or past the last report.    *)
Admission(r) ==
    IF pc[r] \in {"new", "circuit"} \/ answer[r].via \in {"negative", "wait"} THEN "new"
    ELSE IF pc[r] \in {"blacklist", "l1", "l2", "join"} \/ fetch[r] = "fetching"
    THEN HostOf(r)
    ELSE "done"

CB == INSTANCE CircuitBreaker WITH
          Call <- Request, call <- [r \in Request |-> Admission(r)]
NC == INSTANCE NegativeCache

-----------------------------------------------------------------------------
(* Answers: the status, the Cache-Control class, the stage that answered   *)
(* (Nmd-Cache) and the kind of body.                                       *)

Via == {"none", "negative", "wait", "blacklist", "l1", "l2", "origin",
        "timeout", "panic"}
CacheControl == {"none", "success", "4xx", "5xx", "failover", "deny", "wait", "no-store"}
Image == {"none", "media", "original", "fallback"}
Answer == [status: Nat, cc: CacheControl, via: Via, image: Image]

Reply(status, cc, via, image) ==
    [status |-> status, cc |-> cc, via |-> via, image |-> image]

NoAnswer == Reply(0, "none", "none", "none")

\* Mutant: a redirect that was not followed is cached like a success.
Bug_StatusReply(s, via) ==
    IF s = 410 \/ s < 400 THEN Reply(s, "success", via, "none")
    ELSE IF s >= 500 THEN Reply(502, "5xx", via, "none")
    ELSE Reply(s, "4xx", via, "none")

\* errorCacheControl: 410 is cached like a success, 5xx becomes 502.
StatusReply(s, via) ==
    IF s = 410 THEN Reply(410, "success", via, "none")
    ELSE IF s >= 500 THEN Reply(502, "5xx", via, "none")
    ELSE Reply(s, "4xx", via, "none")

(* What originFetch returns; status is the origin's when kind = "status".  *)
Kind == {"none", "ok", "tooLarge", "network", "status", "contentType", "conversion"}
Result == [kind: Kind, status: Status \cup {0}]
Outcome(kind, status) == [kind |-> kind, status |-> status]
NoResult == Outcome("none", 0)

\* handleOriginError.
ErrorReply(res, fallback) ==
    IF res.kind = "tooLarge" THEN Reply(413, "4xx", "origin", "none")
    ELSE IF res.kind = "contentType" THEN Reply(422, "deny", "origin", "none")
    ELSE IF fallback /\ res.kind = "conversion"
    THEN Reply(200, "failover", "origin", "original")
    ELSE IF fallback THEN Reply(200, "failover", "origin", "fallback")
    ELSE IF res.kind = "status" THEN StatusReply(res.status, "origin")
    ELSE Reply(502, "5xx", "origin", "none")

-----------------------------------------------------------------------------
Init ==
    /\ ask \in [Request -> Asks]
    /\ pc = [r \in Request |-> "new"]
    /\ gone = {}
    /\ got = [r \in Request |-> NoRequest]
    /\ answer = [r \in Request |-> NoAnswer]
    /\ flight = [k \in Key |-> NoRequest]
    /\ fetch = [r \in Request |-> "none"]
    /\ result = [r \in Request |-> NoResult]
    /\ pending = [r \in Request |-> {}]
    /\ l1 = [k \in Key |-> NoRequest]
    /\ l2 = [k \in Key |-> NoRequest]
    /\ tracked = {}
    /\ breaker = [d \in Domain |-> CB!NoEntry]
    /\ neg = [k \in Key |-> NC!NoEntry]
    /\ now = 0
    /\ up = TRUE

Goto(r, stage) ==
    /\ pc' = [pc EXCEPT ![r] = stage]
    /\ UNCHANGED answer

Respond(r, a) ==
    /\ pc' = [pc EXCEPT ![r] = "answered"]
    /\ answer' = [answer EXCEPT ![r] = a]

\* WithTimeout of the REQUEST_TIMEOUT middleware, or the client disconnects.
ContextDone(r) ==
    /\ up
    /\ r \notin gone
    /\ pc[r] \notin {"new", "answered"} \/ fetch[r] \in {"fetching", "converting"}
    /\ gone' = gone \cup {r}
    /\ UNCHANGED <<ask, pc, got, answer, fetchVars, cacheVars, storeVars, now, up>>

\* Arrival and the negative cache check, which a debug request ignores.
CheckNegative(r) ==
    /\ up
    /\ pc[r] = "new"
    /\ IF NC!Hit(KeyOf(r)) /\ ~ask[r].debug
       THEN Respond(r, IF ask[r].fallback
                       THEN Reply(200, "failover", "negative", "fallback")
                       ELSE StatusReply(neg[KeyOf(r)].status, "negative"))
       ELSE Goto(r, "circuit")
    /\ UNCHANGED <<ask, gone, got, fetchVars, cacheVars, storeVars, now, up>>

\* Mutant: the answer of Allow is ignored.
Bug_CheckCircuit(r) ==
    /\ up
    /\ pc[r] = "circuit"
    /\ Goto(r, "blacklist")
    /\ breaker' = [breaker EXCEPT ![HostOf(r)] = CB!AfterAllow(@)]
    /\ UNCHANGED <<ask, gone, got, fetchVars, cacheVars, neg, now, up>>

CheckCircuit(r) ==
    /\ up
    /\ pc[r] = "circuit"
    /\ IF CB!Denied(HostOf(r))
       THEN /\ Respond(r, Reply(503, "wait", "wait", "none"))
            /\ UNCHANGED breaker
       ELSE /\ Goto(r, "blacklist")
            /\ breaker' = [breaker EXCEPT ![HostOf(r)] = CB!AfterAllow(@)]
    /\ UNCHANGED <<ask, gone, got, fetchVars, cacheVars, neg, now, up>>

CheckBlacklist(r) ==
    /\ up
    /\ pc[r] = "blacklist"
    /\ IF HostOf(r) \in Blacklisted
       THEN /\ Respond(r, Reply(403, "deny", "blacklist", "none"))
            /\ UNCHANGED fetch
       ELSE IF ask[r].debug
       THEN /\ Goto(r, "debug")
            /\ fetch' = [fetch EXCEPT ![r] = "fetching"]
       ELSE /\ Goto(r, "l1")
            /\ UNCHANGED fetch
    /\ UNCHANGED <<ask, gone, got, flight, result, cacheVars, storeVars, now, up>>

\* A hit is answered from the file, or by 304 when the validators match.
\* A read error counts as a miss.
LookupL1(r) ==
    /\ up
    /\ pc[r] = "l1"
    /\ \/ /\ l1[KeyOf(r)] # NoRequest
          /\ got' = [got EXCEPT ![r] = l1[KeyOf(r)]]
          /\ pending' = [pending EXCEPT ![r] = {"tracker"}]
          /\ \/ Respond(r, Reply(200, "success", "l1", "media"))
             \/ Respond(r, Reply(304, "success", "l1", "none"))
       \/ /\ Goto(r, IF L2Enabled THEN "l2" ELSE "join")
          /\ UNCHANGED <<got, pending>>
    /\ UNCHANGED <<ask, gone, fetchVars, l1, l2, tracked, storeVars, now, up>>

\* An error, or a body that cannot be read, counts as a miss.
LookupL2(r) ==
    /\ up
    /\ pc[r] = "l2"
    /\ \/ /\ l2[KeyOf(r)] # NoRequest
          /\ got' = [got EXCEPT ![r] = l2[KeyOf(r)]]
          /\ pending' = [pending EXCEPT ![r] = {"l1", "tracker"}]
          /\ Respond(r, Reply(200, "success", "l2", "media"))
       \/ /\ Goto(r, "join")
          /\ UNCHANGED <<got, pending>>
    /\ UNCHANGED <<ask, gone, fetchVars, l1, l2, tracked, storeVars, now, up>>

\* Mutant: a flight of the key is not looked for.
Bug_Join(r) ==
    /\ up
    /\ pc[r] = "join"
    /\ Goto(r, "wait")
    /\ flight' = [flight EXCEPT ![KeyOf(r)] = r]
    /\ fetch' = [fetch EXCEPT ![r] = "fetching"]
    /\ UNCHANGED <<ask, gone, got, result, cacheVars, storeVars, now, up>>

\* DoChan: the first caller of a key starts the fetch, the others wait for it.
Join(r) ==
    /\ up
    /\ pc[r] = "join"
    /\ Goto(r, "wait")
    /\ IF flight[KeyOf(r)] = NoRequest
       THEN /\ flight' = [flight EXCEPT ![KeyOf(r)] = r]
            /\ fetch' = [fetch EXCEPT ![r] = "fetching"]
       ELSE UNCHANGED <<flight, fetch>>
    /\ UNCHANGED <<ask, gone, got, result, cacheVars, storeVars, now, up>>

-----------------------------------------------------------------------------
(* originFetch.  A non-2xx answer writes the negative cache and then the   *)
(* breaker; the goroutine reads nothing between the two, so one step will  *)
(* do.  The write of the breaker and the return are one step likewise.     *)

Return(r, res) ==
    /\ fetch' = [fetch EXCEPT ![r] = "returned"]
    /\ result' = [result EXCEPT ![r] = res]

RecordFailure(d) == breaker' = [breaker EXCEPT ![d] = CB!AfterFailure(@)]

FetchTooLarge(r) ==
    /\ up
    /\ fetch[r] = "fetching"
    /\ Return(r, Outcome("tooLarge", 0))
    /\ UNCHANGED <<reqVars, flight, cacheVars, storeVars, now, up>>

\* DNS, TCP, TLS, FETCH_TIMEOUT, too many redirects.
FetchFails(r) ==
    /\ up
    /\ fetch[r] = "fetching"
    /\ r \notin gone
    /\ Return(r, Outcome("network", 0))
    /\ RecordFailure(HostOf(r))
    /\ UNCHANGED <<reqVars, flight, cacheVars, neg, now, up>>

\* The HTTP client gives up because the first caller's context is done: to
\* originFetch an error like any other.
FetchAborted(r) ==
    /\ up
    /\ fetch[r] = "fetching"
    /\ r \in gone
    /\ Return(r, Outcome("network", 0))
    /\ RecordFailure(HostOf(r))
    /\ UNCHANGED <<reqVars, flight, cacheVars, neg, now, up>>

FetchStatus(r, s) ==
    /\ up
    /\ fetch[r] = "fetching"
    /\ Return(r, Outcome("status", s))
    /\ neg' = [neg EXCEPT ![KeyOf(r)] = NC!EntryFor(s)]
    /\ IF s >= 500 THEN RecordFailure(HostOf(r)) ELSE UNCHANGED breaker
    /\ UNCHANGED <<reqVars, flight, cacheVars, now, up>>

\* Mutant: a success takes one failure back.
Bug_FetchBody(r, isMedia) ==
    /\ up
    /\ fetch[r] = "fetching"
    /\ breaker' = [breaker EXCEPT ![HostOf(r)].failures = @ - 1]
    /\ Return(r, Outcome(IF isMedia THEN "ok" ELSE "contentType", 0))
    /\ UNCHANGED <<reqVars, flight, cacheVars, neg, now, up>>

\* A 2xx: the breaker forgets the domain, whatever the body turns out to be.
\* isMedia is the header's verdict or, failing that, the sniffed one.
FetchBody(r, isMedia) ==
    /\ up
    /\ fetch[r] = "fetching"
    /\ breaker' = [breaker EXCEPT ![HostOf(r)] = CB!NoEntry]
    /\ IF ~isMedia /\ ~ask[r].debug THEN Return(r, Outcome("contentType", 0))
       ELSE IF KeyOf(r) \in Converted
       THEN /\ fetch' = [fetch EXCEPT ![r] = "converting"]
            /\ UNCHANGED result
       ELSE Return(r, Outcome("ok", 0))
    /\ UNCHANGED <<reqVars, flight, cacheVars, neg, now, up>>

\* Convert fails on an undecodable body, or while it waits for a slot of the
\* semaphore when the context is done.
Convert(r) ==
    /\ up
    /\ fetch[r] = "converting"
    /\ \E kind \in {"ok", "conversion"} : Return(r, Outcome(kind, 0))
    /\ UNCHANGED <<reqVars, flight, cacheVars, storeVars, now, up>>

\* A panic in libvips or in a decoder.  A debug request converts on its own
\* goroutine, where the Recovery middleware answers 500; singleflight runs
\* the others on a goroutine of its own, where nothing recovers.
ConvertPanics(r) ==
    /\ up
    /\ CanPanic
    /\ fetch[r] = "converting"
    /\ fetch' = [fetch EXCEPT ![r] = "done"]
    /\ IF ask[r].debug
       THEN /\ Respond(r, Reply(500, "none", "panic", "none"))
            /\ UNCHANGED up
       ELSE /\ up' = FALSE
            /\ UNCHANGED <<pc, answer>>
    /\ UNCHANGED <<ask, gone, got, flight, result, cacheVars, storeVars, now>>

-----------------------------------------------------------------------------
\* Requests that wait for the flight of k and have received nothing yet.
Waiting(k) == {r \in Request : pc[r] = "wait" /\ KeyOf(r) = k /\ got[r] = NoRequest}

\* Mutant: only the first caller is sent the result.
Bug_FlightEnds(r) ==
    /\ up
    /\ fetch[r] = "returned"
    /\ ~ask[r].debug
    /\ fetch' = [fetch EXCEPT ![r] = "done"]
    /\ flight' = [flight EXCEPT ![KeyOf(r)] = NoRequest]
    /\ got' = [got EXCEPT ![r] = r]
    /\ UNCHANGED <<ask, pc, gone, answer, result, cacheVars, storeVars, now, up>>

\* Mutant: the key is not forgotten.
Bug_FlightEndsKeepsKey(r) ==
    /\ up
    /\ fetch[r] = "returned"
    /\ ~ask[r].debug
    /\ fetch' = [fetch EXCEPT ![r] = "done"]
    /\ got' = [w \in Request |-> IF w \in Waiting(KeyOf(r)) THEN r ELSE got[w]]
    /\ UNCHANGED <<ask, pc, gone, answer, flight, result, cacheVars, storeVars, now, up>>

\* singleflight forgets the key and sends the result to every caller, under
\* its own lock.  The channels are buffered: nobody need be listening.
FlightEnds(r) ==
    /\ up
    /\ fetch[r] = "returned"
    /\ ~ask[r].debug
    /\ fetch' = [fetch EXCEPT ![r] = "done"]
    /\ flight' = [flight EXCEPT ![KeyOf(r)] = NoRequest]
    /\ got' = [w \in Request |-> IF w \in Waiting(KeyOf(r)) THEN r ELSE got[w]]
    /\ UNCHANGED <<ask, pc, gone, answer, result, cacheVars, storeVars, now, up>>

\* Mutant: every result goes to the caches.
Bug_Receive(r) ==
    /\ up
    /\ pc[r] = "wait"
    /\ got[r] # NoRequest
    /\ pending' = [pending EXCEPT ![r] =
                     IF L2Enabled THEN {"l1", "l2", "tracker"} ELSE {"l1", "tracker"}]
    /\ IF result[got[r]].kind = "ok"
       THEN Respond(r, Reply(200, "success", "origin", "media"))
       ELSE Respond(r, ErrorReply(result[got[r]], ask[r].fallback))
    /\ UNCHANGED <<ask, gone, got, fetchVars, l1, l2, tracked, storeVars, now, up>>

\* Mutant: the breaker is told of the failure by every caller.
Bug_ReceiveRecords(r) ==
    /\ up
    /\ pc[r] = "wait"
    /\ got[r] # NoRequest
    /\ Respond(r, ErrorReply(result[got[r]], ask[r].fallback))
    /\ IF result[got[r]].kind = "network" THEN RecordFailure(HostOf(r)) ELSE UNCHANGED breaker
    /\ UNCHANGED <<ask, gone, got, fetchVars, cacheVars, neg, now, up>>

\* Every caller of the flight, not only the first, starts its own writes.
Receive(r) ==
    /\ up
    /\ pc[r] = "wait"
    /\ got[r] # NoRequest
    /\ IF result[got[r]].kind = "ok"
       THEN /\ Respond(r, Reply(200, "success", "origin", "media"))
            /\ pending' = [pending EXCEPT ![r] =
                  IF L2Enabled THEN {"l1", "l2", "tracker"} ELSE {"l1", "tracker"}]
       ELSE /\ Respond(r, ErrorReply(result[got[r]], ask[r].fallback))
            /\ UNCHANGED pending
    /\ UNCHANGED <<ask, gone, got, fetchVars, l1, l2, tracked, storeVars, now, up>>

\* The caller's own context is done; with a result at hand select may choose
\* either case.
GiveUp(r) ==
    /\ up
    /\ pc[r] = "wait"
    /\ r \in gone
    /\ Respond(r, Reply(504, "5xx", "timeout", "none"))
    /\ UNCHANGED <<ask, gone, got, fetchVars, cacheVars, storeVars, now, up>>

\* Mutant: the error of a debug fetch is not answered.
Bug_DebugAnswer(r) ==
    /\ up
    /\ pc[r] = "debug"
    /\ fetch[r] = "returned"
    /\ result[r].kind = "ok"
    /\ fetch' = [fetch EXCEPT ![r] = "done"]
    /\ got' = [got EXCEPT ![r] = r]
    /\ Respond(r, Reply(200, "no-store", "origin", "media"))
    /\ UNCHANGED <<ask, gone, flight, result, cacheVars, storeVars, now, up>>

\* A debug request runs originFetch itself; skipCache is set, so it starts no
\* writes.  Only its 200 carries Debug, that is no-store.
DebugAnswer(r) ==
    /\ up
    /\ pc[r] = "debug"
    /\ fetch[r] = "returned"
    /\ fetch' = [fetch EXCEPT ![r] = "done"]
    /\ got' = [got EXCEPT ![r] = r]
    /\ Respond(r, IF result[r].kind = "ok"
                  THEN Reply(200, "no-store", "origin", "media")
                  ELSE ErrorReply(result[r], ask[r].fallback))
    /\ UNCHANGED <<ask, gone, flight, result, cacheVars, storeVars, now, up>>

-----------------------------------------------------------------------------
(* asyncL1Put, asyncL2Put and asyncTrackerSet: goroutines of their own that *)
(* outlive the request.  A failed Put is logged and forgotten.              *)

Finish(r, write) ==
    /\ write \in pending[r]
    /\ pending' = [pending EXCEPT ![r] = @ \ {write}]

PutL1(r) ==
    /\ up
    /\ Finish(r, "l1")
    /\ l1' = [l1 EXCEPT ![KeyOf(r)] = got[r]]
    /\ UNCHANGED <<reqVars, fetchVars, l2, tracked, storeVars, now, up>>

PutL2(r) ==
    /\ up
    /\ Finish(r, "l2")
    /\ l2' = [l2 EXCEPT ![KeyOf(r)] = got[r]]
    /\ UNCHANGED <<reqVars, fetchVars, l1, tracked, storeVars, now, up>>

SetTracker(r) ==
    /\ up
    /\ Finish(r, "tracker")
    /\ tracked' = tracked \cup {KeyOf(r)}
    /\ UNCHANGED <<reqVars, fetchVars, l1, l2, storeVars, now, up>>

PutFails(r) ==
    /\ up
    /\ \E write \in {"l1", "l2"} : Finish(r, write)
    /\ UNCHANGED <<reqVars, fetchVars, l1, l2, tracked, storeVars, now, up>>

-----------------------------------------------------------------------------
(* The rest of the process, as far as the pipeline can see it.             *)

\* The cleaner evicts a key together with its tracker entry, a purge of one
\* key leaves the entry; S3 expires its objects by itself.
Evict(k) ==
    /\ up
    /\ \/ /\ l1[k] # NoRequest
          /\ l1' = [l1 EXCEPT ![k] = NoRequest]
          /\ tracked' \in {tracked, tracked \ {k}}
          /\ UNCHANGED l2
       \/ /\ l2[k] # NoRequest
          /\ l2' = [l2 EXCEPT ![k] = NoRequest]
          /\ UNCHANGED <<l1, tracked>>
    /\ UNCHANGED <<reqVars, fetchVars, pending, storeVars, now, up>>

CollectBreaker ==
    /\ up
    /\ breaker' = CB!Collected
    /\ UNCHANGED <<reqVars, fetchVars, cacheVars, neg, now, up>>

CollectNegative ==
    /\ up
    /\ neg' = NC!Collected
    /\ UNCHANGED <<reqVars, fetchVars, cacheVars, breaker, now, up>>

Tick ==
    /\ up
    /\ now < MaxTime \/ CB!BlockAhead
    /\ now' = now + 1
    /\ UNCHANGED <<reqVars, fetchVars, cacheVars, storeVars, up>>

Handler(r) ==
    \/ CheckNegative(r) \/ CheckCircuit(r) \/ CheckBlacklist(r)
    \/ LookupL1(r) \/ LookupL2(r) \/ Join(r)
    \/ Receive(r) \/ GiveUp(r) \/ DebugAnswer(r)

OriginFetch(r) ==
    \/ FetchTooLarge(r) \/ FetchFails(r) \/ FetchAborted(r)
    \/ \E s \in Status : FetchStatus(r, s)
    \/ \E isMedia \in BOOLEAN : FetchBody(r, isMedia)
    \/ Convert(r) \/ ConvertPanics(r)

AsyncWrites(r) == PutL1(r) \/ PutL2(r) \/ SetTracker(r) \/ PutFails(r)

Next ==
    \/ \E r \in Request :
          ContextDone(r) \/ Handler(r) \/ OriginFetch(r) \/ FlightEnds(r) \/ AsyncWrites(r)
    \/ \E k \in Key : Evict(k)
    \/ CollectBreaker
    \/ CollectNegative
    \/ Tick

Spec == Init /\ [][Next]_vars

\* The REQUEST_TIMEOUT middleware ends every context; the HTTP client returns
\* once the context of its request is done; goroutines that can run, run, and
\* conversions end.  Nothing is assumed of origins or of the clock.
FairSpec ==
    /\ Spec
    /\ \A r \in Request :
          /\ WF_vars(ContextDone(r))
          /\ WF_vars(Handler(r))
          /\ WF_vars(FetchAborted(r))
          /\ WF_vars(Convert(r))
          /\ WF_vars(FlightEnds(r))

-----------------------------------------------------------------------------
Stage == {"new", "circuit", "blacklist", "l1", "l2", "join", "wait", "debug", "answered"}

TypeOK ==
    /\ ask \in [Request -> Asks]
    /\ pc \in [Request -> Stage]
    /\ gone \subseteq Request
    /\ got \in [Request -> Request \cup {NoRequest}]
    /\ answer \in [Request -> Answer]
    /\ flight \in [Key -> Request \cup {NoRequest}]
    /\ fetch \in [Request -> {"none", "fetching", "converting", "returned", "done"}]
    /\ result \in [Request -> Result]
    /\ pending \in [Request -> SUBSET {"l1", "l2", "tracker"}]
    /\ l1 \in [Key -> Request \cup {NoRequest}]
    /\ l2 \in [Key -> Request \cup {NoRequest}]
    /\ tracked \subseteq Key
    /\ breaker \in [Domain -> CB!Entry]
    /\ neg \in [Key -> NC!Entry]
    /\ now \in Nat
    /\ up \in BOOLEAN

Running(r) == fetch[r] \in {"fetching", "converting", "returned"}

(***************************************************************************)
(* At most one fetch per key is under way outside debug requests, and it   *)
(* is the one singleflight knows: also when its first caller was answered  *)
(* long ago, and when a caller joins between the return of the fetch and   *)
(* the end of the flight.                                                  *)
(***************************************************************************)
SingleFlight ==
    up => \A r \in Request :
             (Running(r) /\ ~ask[r].debug) <=> flight[KeyOf(r)] = r

(***************************************************************************)
(* A caller that waits and has received nothing waits for a flight of its  *)
(* own key that still exists: no caller falls between joining a flight and *)
(* the end of it.                                                          *)
(***************************************************************************)
NoLostWaiter ==
    up => \A r \in Request :
             pc[r] = "wait" /\ got[r] = NoRequest => flight[KeyOf(r)] # NoRequest

(***************************************************************************)
(* What the caches hold, and what the writes still on their way would put  *)
(* there, is media of that key from a fetch that went through the whole    *)
(* pipeline: never an error, never a body that failed to convert (the      *)
(* comment at proxy.go:374-377), never what a debug request fetched.       *)
(***************************************************************************)
GoodMedia(k, r) == KeyOf(r) = k /\ result[r].kind = "ok" /\ ~ask[r].debug

OnlyGoodMediaCached ==
    /\ \A k \in Key :
          /\ l1[k] # NoRequest => GoodMedia(k, l1[k])
          /\ l2[k] # NoRequest => GoodMedia(k, l2[k])
    /\ \A r \in Request :
          pending[r] # {} => got[r] # NoRequest /\ GoodMedia(KeyOf(r), got[r])

(***************************************************************************)
(* Downstream caches keep only what may be kept: the year-long immutable   *)
(* Cache-Control goes out with media of the right key from a good fetch,   *)
(* with a 304, or with a 410; never with a fallback image, an unconverted  *)
(* original or another error, whichever stage answered.                    *)
(***************************************************************************)
LongCachingIsEarned ==
    \A r \in Request :
        answer[r].cc = "success" =>
            \/ answer[r].status = 410 /\ answer[r].image = "none"
            \/ /\ answer[r].status \in {200, 304}
               /\ got[r] # NoRequest /\ GoodMedia(KeyOf(r), got[r])

(***************************************************************************)
(* A failed fetch counts once against its domain, however many callers     *)
(* share it and however long ago its first caller left.                    *)
(***************************************************************************)
Failed(r) ==
    \/ result[r].kind = "network"
    \/ result[r].kind = "status" /\ result[r].status >= 500

EachFailureCountedOnce ==
    \A d \in Domain :
        breaker[d].failures <= Cardinality({r \in Request : HostOf(r) = d /\ Failed(r)})

(***************************************************************************)
(* The pipeline uses the breaker as the breaker's own specification says:  *)
(* every fetch was admitted, reports at most once, and only on its domain; *)
(* callers that were refused, or that shared a fetch, report nothing.      *)
(***************************************************************************)
BreakerProtocol == CB!Spec

(***************************************************************************)
(* What the pipeline can read in the negative cache lives exactly its TTL: *)
(* from the fetch that met the status, or a later one that met another, to *)
(* the tick that passes its deadline.  GC, which runs whenever it likes,   *)
(* and expired entries still in the map are invisible.                     *)
(***************************************************************************)
NegativeTtl(s) == NC!Ttl(s)

Visible == INSTANCE ExpiringMap WITH
    Value   <- Status,
    Ttl     <- NegativeTtl,
    None    <- NC!NoStatus,
    visible <- [k \in Key |-> IF NC!Hit(k) THEN neg[k].status ELSE NC!NoStatus],
    until   <- [k \in Key |-> IF NC!Hit(k) THEN neg[k].expireAt ELSE 0]

NegativeEntriesLapse == Visible!Spec

\* Every request is answered, whatever origins do (REQUEST_TIMEOUT).
EveryoneAnswered == \A r \in Request : pc[r] # "new" ~> pc[r] = "answered"

\* No flight outlives its fetch for ever: the key can be fetched again.
FlightsEnd == \A k \in Key : flight[k] # NoRequest ~> flight[k] = NoRequest

-----------------------------------------------------------------------------
(* What the repository says of the pipeline and the code does otherwise.   *)

\* README.md:33: a debug request caches nothing.
DebugCachesNothing ==
    [][\A r \in Request :
          ask[r].debug /\ fetch[r] = "fetching" /\ fetch'[r] # "fetching"
          => UNCHANGED <<l1, l2, neg>>]_vars

\* recovery.go:8-10: the middleware keeps a panic, libvips' in particular, from
\* crashing the process.
PanicsAreRecovered == up
=============================================================================
