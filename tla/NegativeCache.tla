--------------------------- MODULE NegativeCache ---------------------------
(***************************************************************************)
(* The negative cache: MemoryNegativeCache of internal/store/negative.go   *)
(* and the proxy's addNegativeCache (internal/handler/proxy.go:547), which *)
(* chooses the time to live.  An expired entry stays in the map until GC   *)
(* or another Set; Get does not report it.  Every method runs under the    *)
(* map's mutex, so each is an operator that ProxyHandler uses in one step: *)
(* Get is Hit, Set stores EntryFor, GC leaves Collected.                   *)
(***************************************************************************)
EXTENDS Integers

CONSTANTS
    Key,      \* cache keys
    Status,   \* origin status codes outside 200..299 that are stored
    Ttl40X,   \* NEGATIVE_CACHE_TTL_40X in ticks, any duration
    Ttl5XX    \* NEGATIVE_CACHE_TTL_5XX in ticks, any duration

VARIABLES
    neg,   \* [Key -> Entry]; status 0 stands for "not in the map"
    now

NoStatus == 0
NoEntry == [status |-> NoStatus, expireAt |-> 0]
Entry == [status: Status \cup {NoStatus}, expireAt: Int]

\* Get reports an entry until the clock is strictly past ExpireAt.
Expired(e) == now > e.expireAt
Hit(k) == neg[k].status # NoStatus /\ ~Expired(neg[k])

\* Everything outside 400..499, a redirect that was not followed included,
\* gets the TTL of a 5xx.
Ttl(s) == IF s \in 400 .. 499 THEN Ttl40X ELSE Ttl5XX

\* Mutant: keeps the class of the status instead of the status.
Bug_EntryFor(s) == [status |-> s \div 100, expireAt |-> now + Ttl(s)]

\* A second error for the key replaces the first, with its own deadline.
EntryFor(s) == [status |-> s, expireAt |-> now + Ttl(s)]

\* Mutant: GC also drops an entry in its last tick.
Bug_Collected ==
    [k \in Key |-> IF now >= neg[k].expireAt THEN NoEntry ELSE neg[k]]

\* GC; runNegCacheGC calls it every 5 minutes.
Collected == [k \in Key |-> IF Expired(neg[k]) THEN NoEntry ELSE neg[k]]
=============================================================================
