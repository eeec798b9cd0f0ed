# TLA+ models of media-delivery

This directory holds TLA+ specifications of the media proxy in `src/` (Go), the
TLC configurations that model-check them, and theorems about them that TLAPS
checks. Paths such as `proxy.go:244` are under `src/internal/` or `src/cmd/` and
refer to the code as it is; the modules are written from the code, and where the
repository's documents say something else it is listed under
[Disagreements](#disagreements).

## 1. The system and what can go wrong in it

A client asks for `?url=...` with a few flags. The proxy answers from a disk cache
(L1), an object store (L2) or the origin, converting images on the way. Everything
below runs in one process; a request is a goroutine, a shared origin fetch is
another, and every cache write is a third.

| Component (source) | State | Operations | Talks to |
|---|---|---|---|
| Proxy handler (`handler/proxy.go`) | none of its own; the stage of each request | `ServeHTTP`, `originFetch`, `handleOriginError`, async L1/L2/tracker writes | all the stores, singleflight, fetcher, converter |
| singleflight (library, `proxy.go:236-267`) | key → flight | `DoChan` | runs `originFetch` on its own goroutine with the first caller's context |
| Circuit breaker (`store/circuit.go`) | host → state, failures, times | `Allow`, `RecordSuccess`, `RecordFailure`, `GC` | called by the handler; GC by a ticker |
| Negative cache (`store/negative.go`, `addNegativeCache`) | key → status, deadline | `Set`, `Get`, `GC` | handler; GC by a ticker |
| Access tracker (`store/tracker.go`) | key → last access | `Set`, `DeleteKeys`, `GCOrphans` | handler, cleaner, purges |
| L1 (`cache/l1/l1.go`) | two files per key | `Put`, `Get`, `Delete`, directory scan | handler, cleaner, purges: no lock |
| L1 cleaner (`cache/l1/cleanup.go`) | a list made at the start of a run | `runOnce`, `gcOrphans` | L1, tracker |
| Admin purges (`cmd/media-delivery/admin.go`, `purge.go`) | none | delete one key, delete all; the purge command for a label or all labels of a URL | L1, tracker |
| Server lifecycle (`server/server.go`, `serve.go`) | phase, WaitGroup, contexts | `Run`, the two `Shutdown`s, deferred calls | everything |
| L2 (`cache/l2`) | key → object | `Get`, `Put` | handler (this commit ships the interface and a no-op store) |
| Blacklist (`blacklist/`) | the rules in force, a watch on a file | `New`, `watch`, `IsDenied` | handler; the file's writers through fsnotify |
| Fetcher, SSRF guard (`fetcher/`) | kept connections | `Fetch`, redirects, `dialContext` | DNS, origins |
| Converter, semaphore (`converter/`) | slots in use | `Convert`, `Shutdown` | `originFetch`; image inspection; libvips |
| Image inspection (`imageinfo/`) | none | `IsAnimated`, `DetectContentType` on bytes | converter, `originFetch` |
| Variants, keys, formats (`variant/`, `cachekey/`, `format/`) | none | `ParseQuery`, `CacheString`, `FromFilename`, `Compute` | handler, purge command |
| Middleware (`middleware/`) | none | timeout, recovery, CDN-Loop | wraps the handler |
| Response, config, fallback images, statistics, CLI | none | formatting, reading the environment | |

The behaviours that are hard to test:

* requests, a shared fetch, cache writes, the cleaner, purges and GC interleave
  freely; only the stores' maps have locks, and only around one method;
* a fetch belongs to a flight but runs with the context of its first caller, which
  may time out or disconnect while others wait;
* state read early is used late: the negative cache is read on arrival, the
  cleaner works from a list, DNS is asked before a connection is made, the
  blacklist is reloaded while a check waits for DNS, validators come from the file
  as it was;
* different queries meet under one key, in a flight and in L1, and each caller must
  get what its own query asks for;
* failures in the middle: a conversion fails after the bytes have come, the second
  of two files cannot be written, some deletions of a run fail, the process dies
  between two renames, a conversion panics on a goroutine nobody watches;
* late events: a failure or a success of a call that was admitted before the
  breaker opened; a cache write that ends after its key was purged; writes that
  are started while the server is shutting down.

What makes each component correct, in a sentence each: the *breaker* refuses a
domain only on evidence and never for ever; the *negative cache* is a map with
deadlines; the *handler* runs one fetch per key, loses no waiter, caches nothing
but good media, lets only good media be cached for long downstream, counts each
failure once, and answers everybody with what its query asked for; the *blacklist*
follows its file and decides by one version of it; the *fetcher* connects to
permitted addresses only and delivers whole bodies; the *converter* keeps
animations, fits sizes and loses no slot; *L1* serves complete files only; the *cleaner*
brings the disk under its limit, evicts no more than it must and keeps tracker and
disk in step; a *shutdown* within its deadline completes every request and write,
and every shutdown ends.

## 2. The modules

Definitions carry the names of the code where TLA+ allows it; `PROJECT.json` maps
each to its lines. Definitions named `Bug_...` are plausible bugs of the
definition that follows; no specification uses them. They document what each
property is able to detect.

* **CircuitBreaker**: `MemoryCircuitBreaker`. `breaker[d]` is the `CircuitEntry`
  of a domain, with the state `"NONE"` for a domain that is not in the map; each
  method is one action, since its body is under the mutex. A *call* is a request's
  dealings with the breaker: `Allow` admits it, and later it reports a success, a
  failure or nothing. Any number of admitted calls are open at once, which is
  where the late reports come from. A negative `Timeout` and a `Threshold` of
  zero are accepted by the configuration, hence by the model.
* **NegativeCache** and **ExpiringMap**: the operators of the map of `negative.go`
  with the TTL that `addNegativeCache` chooses, which ProxyHandler uses, and the
  abstract specification: a map whose entries are readable exactly until their
  deadline. GC, and expired entries that are still in the map, are invisible in it.
* **ProxyHandler**: `ServeHTTP` and `originFetch` for concurrent requests, composed
  with the two stores above (`CB == INSTANCE CircuitBreaker`, `NC == INSTANCE
  NegativeCache`), with singleflight, L1, L2 and the tracker as maps. A step is one
  access to shared state. `pc[r]` is the stage of a request, `fetch[r]` the stage
  of the `originFetch` it started, `flight[k]` the fetch singleflight knows,
  `got[r]` the fetch whose result or media the request holds, `pending[r]` its
  asynchronous writes. Media are identified by the request whose fetch produced
  them, so the cache contents tell whose bytes they are. Clients that leave and
  `REQUEST_TIMEOUT` are `ContextDone`; the cleaner and purges are `Evict`.
  **MCProxyHandler** defines the instances.
* **L1Cache**: `Put`, `Get` and `Delete` on the two files of an entry, one action
  per system call, with write failures, read failures and a crash that leaves
  temporary files. `alone` and `mixable` are history variables.
* **Cleaner**: a run of `runOnce` (listing, one `Info` per file, threshold, one
  eviction at a time, `DeleteKeys`, `gcOrphans`) among requests that hit or fetch,
  their asynchronous writes, and the two purges of the admin server. `scan`,
  `todo`, `remaining` and `deleted` are the run's local variables. `written` and
  `absent` are history variables, for the properties only.
* **Server**: from the signal to the end of the process: `http.Server.Shutdown` of
  the proxy and then of the admin server, the wait for the WaitGroup, the one
  deadline all three share, and the deferred calls of `runServe`, among requests,
  fetches, writes and background loops.
* **Blacklist**: `New` and the goroutine of `watch`, among the writers of the file.
  A rewrite in place is a truncation and one step per line, each of them a Write
  event that the kernel may merge with one still in the queue; a version moved over
  the file, or its removal, ends the watch. A load gives the file's lines (`Load`), or any part
  of them if the file cannot be opened or read to its end (`LoadFails`). `found` and `gap`
  are history variables: what the file held at the last load, and that it changed
  between `New`'s load and the watch.
* **Fetcher** extends Blacklist with a request that goes through `IsDenied` and
  `Fetch`: the snapshot of the rules, the lookup for them, `dialContext` with a lookup
  of its own, kept connections, redirects and the limit on the body. DNS answers
  every lookup as it likes. `during` and `verdict` are history variables.
* **Variants**, **ImageInfo**, **Converter**: pure operators. Variants is what a query
  asks for and the key of its answer, and the keys the purge command computes.
  ImageInfo is the walks over PNG, WebP and GIF bytes, as recursive functions on
  offsets. Converter is every result `Convert` may return for an image, with both
  values where floating point may lose a unit.
* **Renditions** composes these three: requests with different queries for one URL,
  their flights, L1, the semaphore's slots and the purge command. A request with
  `?fallback` gets the original when its conversion has failed. The instance
  (image, queries, labels to purge, who asks with `?fallback`) is chosen in `Init`.
  `late` is a history variable.
  **MCRenditions** holds the instances: ten small files of the three formats, of
  AVIF, of a page and of a page that its origin passes off as an image, with bytes that
  mislead a reader that loses its place; every beginning of six of them; awkward sizes;
  and pairs of queries.
* **CircuitBreakerProofs**, **ProxyHandlerProofs**, **ProxyRefinementProofs**,
  **L1CacheProofs**, **CleanerProofs**, **FetcherProofs**, **ServerProofs**,
  **RenditionsProofs**: the theorems.

How they fit together: ProxyHandler instantiates CircuitBreaker and NegativeCache.
It is shown to use the breaker as that module's specification allows
(`BreakerProtocol`), so that the breaker can be checked, and proved about, apart; and
what it can read in the negative cache is shown to implement ExpiringMap
(`NegativeEntriesLapse`). L1Cache and Cleaner refine what ProxyHandler keeps as `l1`,
`l2`, `tracked` and `Evict`: there a `Get` is atomic and an eviction may happen at any
time, which is what these two modules look into. Fetcher refines the constant set
of blacklisted hosts and the outcomes of a fetch; Renditions refines the key, which
ProxyHandler chooses freely, and the media, which it only tells apart by their
fetch, and keeps of the pipeline what brings callers together. Server looks at the
same requests and writes from the outside.

## 3. What TLC checks

Eight runs pass and four find what section 5 describes.

| Run | Properties | Instance, distinct states |
|---|---|---|
| CircuitBreaker | `TypeOK`, `BlockedOnEvidence`, `HalfOpenAfterTimeout`, `OnlySuccessUnblocks`, `FailedProbeReopens`, `BlockEnds` | 4 calls, 2 domains, threshold 2, clock to 4: 18 030 |
| ProxyHandler | `TypeOK`, `SingleFlight`, `NoLostWaiter`, `OnlyGoodMediaCached`, `EachFailureCountedOnce`, `BreakerProtocol`, `NegativeEntriesLapse` | 3 requests with or without `?debug` for one key, panics, 404 and 503, TTLs of 1 and 0: 1 795 088 (up to symmetry) |
| ProxyTiers | `LongCachingIsEarned`, `EveryoneAnswered`, `FlightsEnd` | 2 requests of every kind, 3 keys, 2 domains (one blacklisted), L2, 304 and 410: 613 440 |
| L1Cache | `TypeOK`, `HitsAreComplete`, `PutsKeepTheOld`, `MixedOnlyWhenDisturbed` | 2 Puts, a Get, a Delete, a crash on one key: 249 780 |
| Cleaner | `TypeOK`, `DiskWithinLimit`, `EvictsNoMoreThanNeeded`, `StoredKeysStayTracked`, `OrphansCollected` | 3 keys, limit 2, target 1, one request, deletions that fail: 707 029 |
| Server | `TypeOK`, `OrderlyExitCompletesAll`, `NoAddDuringWait`, `ShutdownEnds` | 3 proxy requests, 1 admin request, 1 loop: 28 882 |
| Fetcher | `TypeOK`, `FreshWhenWatched`, `OneRuleSetDecides`, `DialsAreVetted`, `BodiesAreWhole`, `WatchedEditsTakeEffect` | 1 request, 2 hosts, 2 private addresses (one exempted), limit of 2 redirects, 3 edits: 1 437 082 |
| Renditions | `TypeOK`, `AnswersMatchTheQuery`, `AnimationIsKept`, `PurgeIsComplete`, `SlotsComeBack` | 726 instances of 1 or 2 requests, 1 slot, one deletion that fails: 481 093 |

What they show:

* **CircuitBreaker.** Whatever late reports, probes and GC do between the first
  failure and the block, an OPEN or HALF-OPEN entry holds at least `Threshold`
  failures without a success in between; a domain is probed only when `Timeout`
  has passed since its *latest* failure; while the clock stands still only a
  success readmits a denied domain; one failed probe closes the door for another
  `Timeout`; and no block lasts for ever.
* **ProxyHandler.** Outside debug requests there is never a second fetch of a key,
  also when callers join while the fetch is returning or its first caller is gone;
  nobody waits for a flight that has ended; caches and pending writes hold media of
  their own key from a successful ordinary fetch only; a fetch that fails counts
  once however many share it; the handler's dealings with the breaker are those
  CircuitBreaker allows; and an error recorded for a key is read until its deadline
  and not beyond, whatever GC does and whoever overwrites it.
* **ProxyTiers.** The year-long `Cache-Control` is given to good media, to a 304 for
  it and to a 410, by whichever stage answers; every request is answered although
  origins may never answer; a flight always ends, so its key can be fetched again.
* **L1Cache.** A hit is two complete files, and a file disappears only by a Delete
  of its key: a Put that fails or dies leaves the old entry. A body lies beside the
  type of another Put only after two Puts of the key overlapped or one was cut
  off between its renames, and the next undisturbed Put mends it.
* **Cleaner.** A run leaves no more than its limit, or what it could not delete, and
  what was written meanwhile, although it goes by an old list. The limit is the target
  once something has been evicted and otherwise the greater of the two configured
  numbers, since the target may be above the maximum (section 5). It evicts nothing it
  need not; a key it drops from the tracker has been without a file since the
  listing; an entry without a file is dropped in the end or gets its file.
* **Server.** A shutdown that its deadline does not cut short completes every request and
  every write; every shutdown ends; the WaitGroup's `Add` never races its `Wait`.
* **Fetcher.** As long as the watch holds, no write of the blacklist's file is
  missed, also one that comes while another is loaded or is half done: at rest the last
  load was of the file as it is, and the rules in force are the environment's and
  those of the file, all of them if that load read the file to its end and a part if it
  could not. Each write is followed by a load; it takes effect unless that
  load fails. A check is
  decided by one version of the rules; no connection, of a redirect or a kept one
  included, goes to an address that `checkIP` refuses, though DNS may answer
  differently each time, whereas a URL that names a permitted address is dialled
  (section 5); a body comes whole or not at all.
* **Renditions.** Whoever joins a flight or hits L1 gets the type, the size and the
  animation that its own query stands for, or, with `?fallback` only, the original of a
  conversion that failed; what is no media goes to debug requests only, unless the
  origin declares it as media (section 5); an emoji or avatar is the original
  exactly if it is an animation within the limit and no still was asked for, and a
  file cut off anywhere is never taken for an animation that it was not; the purge
  of a URL reaches every key that a query can produce, and reports what it skipped;
  each conversion that waits gets a slot, though others fail, panic or lose
  their callers.

### Bounds and why they are enough

Each request is made once, the clock stops at `MaxTime` (the breaker's only when
no block's end is ahead, so that `BlockEnds` is not cut short), the cleaner's runs are
not bounded but `MaxRequests` is. The breaker's interesting histories need two
failures to open (`Threshold = 2`), a third to arrive late and one more call to
probe or to succeed: four calls. In ProxyHandler the first caller, a second that
joins and a third that comes after the flight or beside it as a debug request are
the roles there are; a second key would only add independent requests, so ProxyTiers
has several keys and one request fewer, and turns on what the other leaves out
(`?fallback`, L2, blacklist, redirects). A TTL of one tick for a 404 and none for a
503 lets an entry be read, lapse, be overwritten with an earlier deadline and be
collected. L1 has no interplay between keys, and two
writers with one reader and one deleter give every overlap of two calls and of
three. In Cleaner, with three files of size 1, a limit of 2 and a target of 1, a
run must evict two files and not the third; one request during the run is enough to
rewrite, to touch or to add a key, and purges are not bounded. Sizes are small
because only sums against the two thresholds matter. In Server the requests differ only
in where they stand when the signal comes; one for each stage does.

In Fetcher three edits (`MaxEdits`) are a rewrite in place, a truncation and a
line, with an edit before or after it. Requests do not touch each other but for
the kept connections, which one request fills and uses again when it is redirected.
A name has up to two addresses, of which one is refused and one exempted, and sizes run
from zero to two beyond the limit of 1. In Renditions two requests are a caller and one
that joins, follows or competes for the slot; the pairs are all those of queries
whose parameters contain each other's, which is where a key or a priority can
go wrong. The configured concurrency is 0, of which `New` makes 1: the least, where
a lost slot shows. `MaxSkips` lets one deletion of a purge fail. The files have at most
a few dozen bytes: long enough for two chunks or frames and a payload that looks like
another.

Symmetry is used for the requests of ProxyHandler, a run without liveness
properties. Deadlock is not checked where the system may really stop: in ProxyHandler when a
panic ends the process, in Server at the end of it, in Fetcher and Renditions when
every request has been answered and the bounded writers and purges are done.

### Fairness

* CircuitBreaker: time passes. Nothing is assumed of callers.
* ProxyHandler: `WF` of a request's own steps and of the end of a flight, since
  runnable goroutines run; of `ContextDone`, because `REQUEST_TIMEOUT` ends every
  context (`timeout.go`); of `FetchAborted`, because the HTTP client returns once
  its context is done; of `Convert`, because a conversion ends. Origins, clients,
  clocks and cache writes get none: the answers do not depend on them.
* Cleaner: the ticker fires for ever and a run does not block.
* Blacklist, Fetcher: the goroutines of `New` and `watch` run, one weak fairness for
  the loader as a whole. Nothing of the file's writers, of DNS and of requests.
* Renditions: a conversion that can have the slot takes it (a channel send that stays
  possible is made), and conversions end. Nothing of origins, of clients and
  of the timeout, so that a slot is not got by giving up.
* Server: the steps of `Run` and of the deadline. Requests, fetches and writes may
  hang for ever; that is what `ShutdownEnds` is about.

## 4. What is proved

The theorems hold for every set of requests, calls, keys and domains and for every
value of the configuration; the assumptions are the named `ASSUME`s of the modules,
which only say that the constants have their types (of Renditions' images: at least
one pixel each way; of its instances: that they name an image, queries and a label),
that a directory has finitely many keys, and that markers such as `NoRequest` are not
elements. Four theorems state a further hypothesis, which their run's instance
satisfies: `SuccessAloneUnblocks` that `Timeout` is not negative,
`FailuresCountedOnce` finitely many requests, and two of RenditionsProofs what is
said there.

* **CircuitBreakerProofs.** `TypeCorrect`, `BlocksAreEarned`, `ProbesWait`,
  `SuccessAloneUnblocks`, `ProbeFailureReopens`.
  The inductive invariant is the type invariant with `BlockedOnEvidence` and
  `HalfOpenAfterTimeout`: the failure count and the end of the block are tied to
  the state of the entry, which is what a late report must not break. Three lemmas say
  that the entry transformers `NoEntry`, `AfterAllow` and `AfterFailure` keep it.
* **ProxyRefinementProofs**, the negative cache. `NegativeRefinement`: every step of the pipeline is a step of
  ExpiringMap on the entries that can be read, or invisible there. A fetch that meets
  a status sets the entry (`SetRefines`), GC removes nothing that can be read
  (`GCIsInvisible`), the clock lets what is past its deadline lapse (`TickLapses`), and no other
  action touches the map or the clock (`OthersLeaveIt`).
* **ProxyHandlerProofs.** `SingleFlight`, `NoLostWaiter`, `OnlyGoodMediaCached` and
  `LongCachingIsEarned`. None is inductive alone. `Stages` adds that a request that has
  not reached `Join` has no fetch and no result, that the debug path and the
  singleflight path do not mix, and that an unfinished fetch has no outcome; without
  it a request could start a second fetch of its own. `Held` adds that a result a
  waiting caller was sent is from a finished, ordinary fetch of its key; without it
  `Receive` could cache somebody else's media. The argument for the caches is that
  the outcome of a fetch is final (`ResultStable`), so media that is good stays good
  and only what a step newly stores or promises to store has to be looked at.
* **ProxyRefinementProofs**, the breaker. `BreakerRefinement`: `Spec => CB!Spec`. The mapping
  `Admission` gives the breaker's view of a request from its stage. The invariant
  `Refused` (a request answered from the negative cache or refused by the breaker never
  fetches) is what makes the mapping well defined over time. With it the theorems
  about CircuitBreaker hold of the breaker inside the pipeline. `FailuresCountedOnce`
  compares the breaker's count with the set of failed fetches: a step adds one to the
  first only when it adds a request to the second (`FailureStep`), since the outcome of
  a fetch is set once.
* **L1CacheProofs.** `TypeCorrect`, `HitsComplete`, `PutsKeep` and `MixingIsDisturbance`.
  Hits are complete because no file ever holds part of a version, and what a `Get` has
  read was a file. That versions mix only after a disturbance rests on three facts
  about Puts under way: one that nobody has overlapped is alone on its key (`Alone`),
  every other one has made its key mixable (`Counted`), and one that is alone and has
  replaced the body still finds its own body there, or none (`Halfway`); with them
  a key that is not mixable has one version whenever no Put is between its renames
  (`Settled`).
* **CleanerProofs.** `TypeCorrect`, `DiskStaysWithinLimit`, `NoEvictionTooMany`,
  `TrackedStay`. First the sums: the recursive function by which `Bytes` adds up a
  directory is shown to exist for every finite one, to take off a set any of its keys
  and not only the one it picks (`SumsAre`), and so to be additive on disjoint parts
  (`PartSums`). Then the invariant: during an eviction `remaining` is the sum of what is
  listed and not deleted (`Counted`), which makes an eviction needed when it is
  made; and the files that are not as the list has them weigh no more than what was written
  since (`FreshIsWritten`). At the end of a run each file is one or the other, hence the
  limit. `TrackedStay` rests on `Listed`: a key that is neither in the run's list nor
  still to be listed has been without a file since the run began, whatever was
  written, purged or evicted meanwhile.
* **FetcherProofs.** `TypeCorrect` (which bounds the requests a fetch sends), `Fresh`,
  `OneSetDecides`, `Vetted` and `WholeBodies`. Freshness rests on `Loading`: if no event
  is to come, what the last load found is still what the file holds, and what is in force
  is what that load gave, be it a part of it. The others follow a request
  from the check to its connection: the rules it works on were in force while it did,
  a kept connection was vetted when it was made, and the limited reader lets
  through one byte more than the limit, so that nothing within the limit was cut.
* **ServerProofs.** `OrderlyExit` and `WaitGroupRule`, from `Quiet`, which says what has
  come to rest by each phase of an orderly shutdown: that nobody adds to the
  WaitGroup during the wait rests on the two Shutdowns before it.
* **RenditionsProofs.** `TypeCorrect`, `SlotsAreThoseOfConversions`,
  `PurgeLeavesNothing`, `AnswersMatch`, `AnimationsAreKept`.
  - *Walks.* A walk over bytes that only moves forward has a result (`WalksExist`,
    `WalksDecide`, by `NoEndlessWalk`: a set of offsets cannot have a later one for each
    of its members). A walk over the beginning of a file takes the steps that the walk over
    the whole takes, so `CutOff`: if the beginning passes for an animation, the whole
    does, and has the same type. This is the claim of `imageinfo` that matters, and it is
    proved for all bytes of the three formats.
  - *Keys and sizes.* Queries with the same key ask for the same answer of every image
    (`KeyTells`, `SameResults`): `static` is in the label exactly where it makes a
    difference. `fitDimensions` stays in its box and gives at least one pixel
    (`Boxed`), whichever way floating point errs.
  - *The invariant.* `Traced`: what a request was sent or a fetch is about to return is
    one of the results that the request's own query may have, or a failure, and what it is
    given for a failed conversion is the original. It is only inductive with
    the stages: a request that has not joined has no fetch, or `Join` would overwrite
    one that holds a slot. `Kept` says the same of what L1 holds and what is on its way
    there. `SlotsCounted` says that the slots taken are the conversions that run, and
    `PurgeTracked` that an entry under a purged key is newer than the purge's turn for it, was
    skipped, or is still to come.
  - *Hypotheses.* `AnswersMatch` assumes that bytes with the magic number of a media type
    are media (`SniffedIsMedia`): a page that looks like media is answered as such. What
    the origin declares as media is answered unseen, and is excepted in the property.
    `AnimationsAreKept` assumes that `imageinfo` judges complete files rightly
    (`FilesAreJudged`), as the ten of the run are; that of every beginning of such a
    file is then proved.

Model-checked only: the liveness properties (`BlockEnds`, `EveryoneAnswered`,
`FlightsEnd`, `OrphansCollected`, `WatchedEditsTakeEffect`, `SlotsComeBack`,
`ShutdownEnds`), since liveness under fairness is beyond the prover as installed. Every
invariant, action property and refinement of the passing runs is a theorem. TLC also
has the word on the hypotheses of the last two theorems: that the walks find the
animation in a complete file that holds one, and nothing in one that does not, is
checked on files and not proved, for want of a definition of these formats other than the
walks.

The library's induction theorems take an operator as a parameter, which the provers here
cannot instantiate. `Induct`, `SubsetInduct` and `NoEndlessWalk` are stated with a
set in its place and derived from the well-foundedness of `<` on the naturals and from
facts on cardinalities.

## 5. Disagreements

Between the code and what the repository says of it. Four have a run that exhibits
them:

* `ProxyDebugNegative`: a debug request writes the negative cache
  (`proxy.go:321`), though `README.md:33` says that nothing is cached. The entry then
  hides a good L1 file from ordinary requests.
* `ProxyPanic`: a panic in a conversion is on singleflight's goroutine, where the
  Recovery middleware (`recovery.go:8-10`) cannot see it, and ends the process.
* `CleanerLru`: eviction goes by mtime, which only a write changes, though
  `README.md:232` and `tracker.go:11` speak of the last access (`cleanup.go:77`).
* `BlacklistReload`: the blacklist is said to be reloaded while the program runs
  (`README.md:695`), but the watch is on the file and not on its name
  (`blacklist.go:89-99`): when a new version is moved over the file, the reloads have
  ended for good.

Others were met while modelling; the models behave as the code does, and they have no
run:

* An origin fetch that is cancelled because its client left counts as a failure of
  the domain (`proxy.go:317`), though the comment at `proxy.go:322-324` restricts the
  breaker to server-side and network failures.
* `README.md:195-197` has every 40x and 5xx recorded as a failure of the domain; the code
  counts 5xx and network errors only (`proxy.go:322-327`), as its comment says, and
  `EachFailureCountedOnce` does.
* `README.md:302` and `307` have the breaker open when the failures *exceed*
  `CIRCUIT_BREAKER_THRESHOLD`; it opens when they reach it (`circuit.go:118`), as
  `README.md:585` says and `BlockedOnEvidence` has it.
* "Put atomically writes body and meta files" (`l1.go:76`): each file, not the two
  together; `MixedOnlyWhenDisturbed` says what holds instead.
* A success of a call admitted earlier deletes an OPEN entry (`circuit.go:100`); the
  diagram at `README.md:303-311` has only the timeout lead out of OPEN.
* `README.md:295-296` gives TTLs of 1800 and 120 seconds for recorded errors; the defaults
  are 24 hours and 5 minutes (`config.go:181-182`, `README.md:576-577`).
* The negative cache is read once, on arrival (`proxy.go:120`), so a request that
  overlaps the one that records the error fetches the dead URL again within the
  TTL (`README.md:290`).
* The comment at `proxy.go:257-260` says that a fetch sees the cancellation of a
  caller that gives up; it sees that of the first caller only.
* The errors of a debug request do not carry `no-store` (`README.md:33`); nor does
  `NegativeEntry`'s comment, "4xx or 5xx", mention the redirects that are stored.
* `gcOrphans` compares the tracker with the directory as it was when the run began
  (`cleanup.go:108`), so a key written meanwhile can lose its entry.
* `ShutdownCtx` is cancelled when `Run` has returned (`serve.go:116`), not when the
  shutdown begins (`proxy.go:62-64`); nobody waits for the background loops
  (`serve.go:113-114`), nor for a fetch whose callers have all given up, so
  `converter.Shutdown` may come during a conversion.
* "Reject direct IP addresses" (`ssrf.go:80`), and 403 for an IP literal and for a failed
  lookup (`README.md:680-681`): an address in a URL is dialled if `checkIP` passes it
  (`ssrf.go:81-87`), which `DialsAreVetted` allows. A refusal or a failed lookup
  is a network error: it counts as a failure of the domain (`proxy.go:317`) and is
  answered with 502 or a fallback image (`proxy.go:419-448`).
* The comment at `proxy.go:339-345` has responses "whose bytes are not media" rejected; a
  body is sniffed only if its declared type is not that of media (`proxy.go:346-353`),
  so that a page declared as `image/png` is answered to a raw request and cached.
  `AnswersMatchTheQuery` excepts it.
* A reload of the blacklist that cannot open the file, or meets a read error or a line of
  more than 64 KB, puts in force no rule of the file or only those before the error,
  without a word (`blacklist.go:143-146`, `149-162`), until the next write.
* The blacklist is asked about the URL of the request only, not about the redirects that
  its fetch follows; what was written to its file between the load and the watch
  (`blacklist.go:37-40`, `89`) is seen with the next write.
* `FETCH_MAX_REDIRECTS=n` follows n-1 redirects, since `CheckRedirect` counts the
  requests already sent (`fetcher.go:60`, `README.md:223`, `README.md:563`).
* "Malformed or truncated data reports false" (`imageinfo.go:13-15`): an animation that is
  cut off after its `acTL`, `ANIM` or second image descriptor reports true. No still
  image does, wherever it is cut.
* `README.md:731-735` has the proxy append itself to the `CDN-Loop` it received; the
  received header is not handed to the fetcher, which always starts a new one
  (`fetcher.go:88-96`), so that each of two proxies in a loop sees the other one only.
  `CDNLoopHeaderValue` and `CONVERT_ANIM_QUALITY` are used nowhere, and `CDN_NAME`
  is not required (`README.md:579`, `config.go:190-207`).
* Nothing keeps `CACHE_TARGET_BYTES` from exceeding `CACHE_MAX_BYTES`.

## 6. What is not modelled, and the plan

Left out for good: configuration, logging, statistics, fallback images and static
assets (read once or formatting); libvips, net/http and DNS, which are external to the models
and answer as they like.

Abstracted: in ProxyHandler the blacklist is a constant set, a conversion succeeds, fails or
panics after any time, and the verdict on a body's type is a choice, for all of which
Fetcher and Renditions have the detail; L1 reads are atomic there. In Fetcher the
environment's HTTP proxy, which would be dialled in place of the origin, request headers,
and the address families are left out. In Converter bimg delivers the size it is asked for: that it turns
images by their EXIF orientation is not looked at. `MagicType` knows the formats of the
instances, and of each family of ISO media brands there is one.

Not modelled: conditional requests (ETag and Last-Modified in whole seconds; a 304 is one of
two answers to a hit), the bad-request answers, CDN-Loop, and purges in L2, for which the
repository has no store.

What is left, in this order:

1. **Proofs**: that L1Cache and Cleaner implement what ProxyHandler takes for one step,
   a read of L1 and `Evict`.
2. **Conditional requests**: which validators may match another body.
3. **CDN-Loop**: two proxies that redirect to each other.
