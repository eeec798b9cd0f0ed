------------------------------ MODULE Cleaner ------------------------------
(***************************************************************************)
(* The periodic clean-up of the L1 disk cache, internal/cache/l1/          *)
(* cleanup.go, with the access tracker (internal/store/tracker.go) it      *)
(* keeps in step with the disk.  A run lists the directory once and works  *)
(* from that list while requests, their asynchronous writes and the admin  *)
(* server's purges go on changing both the disk and the tracker.           *)
(*                                                                         *)
(* Here an entry of the cache is its body file, the one that is listed and *)
(* counted; module L1Cache looks at the two files of an entry.             *)
(***************************************************************************)
EXTENDS Naturals, FiniteSets, FiniteSetsExt, Functions

CONSTANTS
    Key,
    Size,          \* sizes of bodies, in some unit
    MaxBytes,      \* above this a run evicts ...
    TgtBytes,      \* ... down to this
    CanFail,       \* may the file system refuse a write or a removal?
    MaxTime,       \* bound on the clock
    MaxRequests    \* bound on the requests of a behaviour

ASSUME CleanerAssumption ==
    /\ IsFiniteSet(Key)
    /\ Size \subseteq Nat \ {0}
    /\ {MaxBytes, TgtBytes, MaxTime, MaxRequests} \subseteq Nat
    /\ CanFail \in BOOLEAN

VARIABLES
    file,       \* the keys on disk, each with the size and mtime of its body
    tracker,    \* the tracked keys, each with its last access
    puts,       \* keys of the asynchronous L1 writes under way
    touches,    \* keys of the asynchronous tracker writes under way
    cpc,        \* where the run is
    scan,       \* keysWithSize
    todo,       \* keys of the list a loop of the run has not come to
    remaining,
    deleted,
    purge,      \* the purge of everything: keys listed, keys still to delete
    now,
    requests

cleanerVars == <<cpc, scan, todo, remaining, deleted>>

VARIABLES
    \* History since the run's listing, for the properties only.
    written,    \* bytes written to the disk
    absent      \* keys that have been without a file at some moment

vars == <<file, tracker, puts, touches, cleanerVars, purge, now, requests, written, absent>>

Entry == [size: Size, mtime: 0 .. MaxTime]
PartialFunction(S, T) == UNION {[D -> T] : D \in SUBSET S}
Empty == [k \in {} |-> 0]

Without(f, S) == Restrict(f, DOMAIN f \ S)
With(f, k, v) == [j \in DOMAIN f \cup {k} |-> IF j = k THEN v ELSE f[j]]
Bytes(f) == MapThenSumSet(LAMBDA k : f[k].size, DOMAIN f)

NoPurge == [active |-> FALSE, listed |-> {}, todo |-> {}]

\* The disk survives a restart, the tracker does not.
Init ==
    /\ file \in PartialFunction(Key, [size: Size, mtime: {0}])
    /\ tracker = Empty
    /\ puts = {}
    /\ touches = {}
    /\ cpc = "idle"
    /\ scan = Empty
    /\ todo = {}
    /\ remaining = 0
    /\ deleted = {}
    /\ purge = NoPurge
    /\ now = 0
    /\ requests = 0
    /\ written = 0
    /\ absent = {}

RemoveFiles(S) ==
    /\ file' = Without(file, S)
    /\ absent' = absent \cup S

-----------------------------------------------------------------------------
(* Requests and what they leave behind, internal/handler/proxy.go.         *)

Hit(k) ==
    /\ requests < MaxRequests
    /\ k \in DOMAIN file
    /\ touches' = touches \cup {k}
    /\ requests' = requests + 1
    /\ UNCHANGED <<file, tracker, puts, cleanerVars, purge, now, written, absent>>

\* A fetched entry is written and tracked by two goroutines.  One write per key
\* is under way at a time: a bound.
Fetched(k) ==
    /\ requests < MaxRequests
    /\ k \notin puts
    /\ puts' = puts \cup {k}
    /\ touches' = touches \cup {k}
    /\ requests' = requests + 1
    /\ UNCHANGED <<file, tracker, cleanerVars, purge, now, written, absent>>

AsyncL1Put(k, size) ==
    /\ k \in puts
    /\ puts' = puts \ {k}
    /\ file' = With(file, k, [size |-> size, mtime |-> now])
    /\ written' = written + size
    /\ UNCHANGED <<tracker, touches, cleanerVars, purge, now, requests, absent>>

AsyncL1PutFails(k) ==
    /\ CanFail
    /\ k \in puts
    /\ puts' = puts \ {k}
    /\ UNCHANGED <<file, tracker, touches, cleanerVars, purge, now, requests, written, absent>>

AsyncTrackerSet(k) ==
    /\ k \in touches
    /\ touches' = touches \ {k}
    /\ tracker' = With(tracker, k, now)
    /\ UNCHANGED <<file, puts, cleanerVars, purge, now, requests, written, absent>>

-----------------------------------------------------------------------------
(* The admin server's purges, cmd/media-delivery/admin.go.  The purge of   *)
(* one key does not touch the tracker.                                     *)

Purge(k) ==
    /\ k \in DOMAIN file
    /\ RemoveFiles({k})
    /\ UNCHANGED <<tracker, puts, touches, cleanerVars, purge, now, requests, written>>

PurgeAllLists ==
    /\ ~purge.active
    /\ purge' = [active |-> TRUE, listed |-> DOMAIN file, todo |-> DOMAIN file]
    /\ UNCHANGED <<file, tracker, puts, touches, cleanerVars, now, requests, written, absent>>

\* Whether the file could be removed is not looked at.
PurgeAllDeletes(k) ==
    /\ k \in purge.todo
    /\ purge' = [purge EXCEPT !.todo = @ \ {k}]
    /\ \/ RemoveFiles({k})
       \/ CanFail /\ UNCHANGED <<file, absent>>
    /\ UNCHANGED <<tracker, puts, touches, cleanerVars, now, requests, written>>

PurgeAllEnds ==
    /\ purge.active
    /\ purge.todo = {}
    /\ tracker' = Without(tracker, purge.listed)
    /\ purge' = NoPurge
    /\ UNCHANGED <<file, puts, touches, cleanerVars, now, requests, written, absent>>

-----------------------------------------------------------------------------
(* A run of the cleaner.                                                   *)

\* A listing that fails ends the run, which is as if it had not begun.
ListDir ==
    /\ cpc = "idle"
    /\ cpc' = "list"
    /\ scan' = Empty
    /\ todo' = DOMAIN file
    /\ deleted' = {}
    /\ remaining' = 0
    /\ written' = 0
    /\ absent' = Key \ DOMAIN file
    /\ UNCHANGED <<file, tracker, puts, touches, purge, now, requests>>

\* Mutant: a file that vanished is listed with nothing in it.
Bug_Info(k) ==
    /\ cpc = "list"
    /\ k \in todo
    /\ todo' = todo \ {k}
    /\ scan' = With(scan, k, IF k \in DOMAIN file THEN file[k] ELSE [size |-> 0, mtime |-> now])
    /\ UNCHANGED <<file, tracker, puts, touches, cpc, remaining, deleted, purge, now, requests,
                   written, absent>>

\* KeysWithSize leaves out a file that vanished after its name was read.
Info(k) ==
    /\ cpc = "list"
    /\ k \in todo
    /\ todo' = todo \ {k}
    /\ scan' = IF k \in DOMAIN file THEN With(scan, k, file[k]) ELSE scan
    /\ UNCHANGED <<file, tracker, puts, touches, cpc, remaining, deleted, purge, now, requests,
                   written, absent>>

\* Mutant: the bytes that remain are counted from nothing.
Bug_CheckThreshold ==
    /\ cpc = "list"
    /\ todo = {}
    /\ remaining' = 0
    /\ todo' = DOMAIN scan
    /\ cpc' = IF Bytes(scan) <= MaxBytes THEN "gc" ELSE "evict"
    /\ UNCHANGED <<file, tracker, puts, touches, scan, deleted, purge, now, requests, written,
                   absent>>

CheckThreshold ==
    /\ cpc = "list"
    /\ todo = {}
    /\ remaining' = Bytes(scan)
    /\ todo' = DOMAIN scan
    /\ cpc' = IF Bytes(scan) <= MaxBytes THEN "gc" ELSE "evict"
    /\ UNCHANGED <<file, tracker, puts, touches, scan, deleted, purge, now, requests, written,
                   absent>>

\* The keys that may come next in the list sorted by mtime.
Oldest == {k \in todo : \A j \in todo : scan[k].mtime <= scan[j].mtime}

\* Mutant: the size of an evicted file is not taken off.
Bug_Evict(k) ==
    /\ cpc = "evict"
    /\ remaining > TgtBytes
    /\ k \in Oldest
    /\ RemoveFiles({k})
    /\ todo' = todo \ {k}
    /\ deleted' = deleted \cup {k}
    /\ UNCHANGED <<tracker, puts, touches, cpc, scan, remaining, purge, now, requests, written>>

\* Delete finds the file by its key: what it removes may be newer than the list.
Evict(k) ==
    /\ cpc = "evict"
    /\ remaining > TgtBytes
    /\ k \in Oldest
    /\ RemoveFiles({k})
    /\ todo' = todo \ {k}
    /\ deleted' = deleted \cup {k}
    /\ remaining' = remaining - scan[k].size
    /\ UNCHANGED <<tracker, puts, touches, cpc, scan, purge, now, requests, written>>

\* Mutant: a key that could not be deleted is taken for deleted.
Bug_EvictFails(k) ==
    /\ CanFail
    /\ cpc = "evict"
    /\ remaining > TgtBytes
    /\ k \in Oldest
    /\ todo' = todo \ {k}
    /\ deleted' = deleted \cup {k}
    /\ remaining' = remaining - scan[k].size
    /\ UNCHANGED <<file, absent, tracker, puts, touches, cpc, scan, purge, now, requests, written>>

\* Nothing is removed, or the body is and the meta file is not.
EvictFails(k) ==
    /\ CanFail
    /\ cpc = "evict"
    /\ remaining > TgtBytes
    /\ k \in Oldest
    /\ RemoveFiles({k}) \/ UNCHANGED <<file, absent>>
    /\ todo' = todo \ {k}
    /\ UNCHANGED <<tracker, puts, touches, cpc, scan, deleted, remaining, purge, now, requests,
                   written>>

ForgetDeleted ==
    /\ cpc = "evict"
    /\ remaining <= TgtBytes \/ todo = {}
    /\ tracker' = Without(tracker, deleted)
    /\ scan' = Without(scan, deleted)
    /\ cpc' = "gc"
    /\ UNCHANGED <<file, puts, touches, todo, deleted, remaining, purge, now, requests, written,
                   absent>>

\* Mutant: only the keys evicted in this run are looked at.
Bug_GcOrphans ==
    /\ cpc = "gc"
    /\ tracker' = Without(tracker, deleted)
    /\ cpc' = "idle"
    /\ UNCHANGED <<file, puts, touches, scan, todo, deleted, remaining, purge, now, requests,
                   written, absent>>

GcOrphans ==
    /\ cpc = "gc"
    /\ tracker' = Without(tracker, DOMAIN tracker \ DOMAIN scan)
    /\ cpc' = "idle"
    /\ UNCHANGED <<file, puts, touches, scan, todo, deleted, remaining, purge, now, requests,
                   written, absent>>

-----------------------------------------------------------------------------
Tick ==
    /\ now < MaxTime
    /\ now' = now + 1
    /\ UNCHANGED <<file, tracker, puts, touches, cleanerVars, purge, requests, written, absent>>

RunOnce ==
    \/ ListDir
    \/ \E k \in Key : Info(k) \/ Evict(k) \/ EvictFails(k)
    \/ CheckThreshold
    \/ ForgetDeleted
    \/ GcOrphans

Requests ==
    \E k \in Key :
        \/ Hit(k)
        \/ Fetched(k)
        \/ \E size \in Size : AsyncL1Put(k, size)
        \/ AsyncL1PutFails(k)
        \/ AsyncTrackerSet(k)

Admin ==
    \/ \E k \in Key : Purge(k) \/ PurgeAllDeletes(k)
    \/ PurgeAllLists
    \/ PurgeAllEnds

Next == RunOnce \/ Requests \/ Admin \/ Tick

Spec == Init /\ [][Next]_vars

\* The ticker fires for ever and a run does not block.
FairSpec == Spec /\ WF_vars(RunOnce)

-----------------------------------------------------------------------------
TypeOK ==
    /\ file \in PartialFunction(Key, Entry)
    /\ tracker \in PartialFunction(Key, 0 .. MaxTime)
    /\ puts \subseteq Key
    /\ touches \subseteq Key
    /\ cpc \in {"idle", "list", "evict", "gc"}
    /\ scan \in PartialFunction(Key, Entry)
    /\ todo \subseteq Key
    /\ deleted \subseteq DOMAIN scan \/ cpc \in {"idle", "gc"}
    /\ remaining \in Nat
    /\ purge \in [active: BOOLEAN, listed: SUBSET Key, todo: SUBSET Key]
    /\ now \in 0 .. MaxTime
    /\ requests \in 0 .. MaxRequests
    /\ written \in Nat
    /\ absent \subseteq Key

(***************************************************************************)
(* A run leaves on the disk no more than its limit, or what it could not   *)
(* delete, and what was written while it ran; although it works from an    *)
(* old list, and the file it deletes may not be the one it listed.         *)
(***************************************************************************)
Limit == IF deleted = {} THEN Max({MaxBytes, TgtBytes}) ELSE TgtBytes
Undeletable == Bytes(Without(scan, todo))

DiskWithinLimit ==
    cpc = "gc" => Bytes(file) <= Max({Limit, Undeletable}) + written

(***************************************************************************)
(* A run evicts no more than it must: without the last eviction the bytes  *)
(* it listed would still be above the target.                              *)
(***************************************************************************)
EvictsNoMoreThanNeeded ==
    cpc = "evict" /\ deleted # {} =>
        \E last \in deleted : Bytes(Without(scan, deleted \ {last})) > TgtBytes

(***************************************************************************)
(* The cleaner drops a key from the tracker only if the key has been       *)
(* without a file since the run listed the directory: an entry that stays  *)
(* on the disk, or that could not be deleted, stays tracked.               *)
(***************************************************************************)
StoredKeysStayTracked ==
    [][cpc' # cpc => DOMAIN tracker \ DOMAIN tracker' \subseteq absent]_vars

(***************************************************************************)
(* A key that is tracked without being on the disk (the entry was purged,  *)
(* or its write failed or lost a race) is dropped or gets its file.        *)
(***************************************************************************)
Orphan(k) == k \in DOMAIN tracker \ DOMAIN file

OrphansCollected == \A k \in Key : Orphan(k) ~> ~Orphan(k)

(***************************************************************************)
(* README.md:232 and 832, tracker.go:11: the cleaner goes by the last      *)
(* access and not by mtime, so it does not evict a key while one it may    *)
(* evict was accessed longer ago.  The code sorts by mtime, which only a   *)
(* write changes.                                                          *)
(***************************************************************************)
EvictsLeastRecentlyUsed ==
    [][\A k \in deleted' \ deleted :
          k \in DOMAIN tracker =>
              \A j \in todo' \cap DOMAIN tracker : tracker[k] <= tracker[j]]_vars
=============================================================================
