------------------------------ MODULE L1Cache ------------------------------
(***************************************************************************)
(* The files of the L1 disk cache, internal/cache/l1/l1.go.  An entry is   *)
(* two files, KEY.body and KEY.meta (the content type).  Put replaces each *)
(* by writing a temporary file and renaming it; Get and Delete touch the   *)
(* two files one after the other.  There is no lock: request goroutines,   *)
(* asynchronous writes, the cleaner and the admin server all call these    *)
(* methods on one directory, and a system call is a step.                  *)
(*                                                                         *)
(* A version is what one Put was given: a body together with its type.     *)
(***************************************************************************)
EXTENDS Naturals

CONSTANTS
    Key,
    Version,     \* the contents that Puts are given
    None,        \* no file
    Writer,      \* goroutines in Put
    Reader,      \* goroutines in Get
    Deleter,     \* goroutines in Delete: cleaner, purges
    MaxCrashes   \* bound on the crashes of a behaviour

ASSUME L1Assumption ==
    /\ Key # {} /\ Version # {}
    /\ None \notin Version
    /\ MaxCrashes \in Nat

VARIABLES
    file,     \* [{"body", "meta"} -> [Key -> Content]]: the directory
    put,      \* [Writer -> PutState]
    get,      \* [Reader -> GetState]
    del,      \* [Deleter -> DeleteState]
    crashes,
    alone,    \* history: Puts that no other Put of their key has overlapped
    mixable   \* history: keys with an overlapped or half-done Put since the
              \* last one that was neither

vars == <<file, put, get, del, crashes, alone, mixable>>
history == <<alone, mixable>>

Part == {"body", "meta"}
\* A file holds the whole of a version, or the part that was written so far.
Content == [of: Version \cup {None}, whole: BOOLEAN]
Absent == [of |-> None, whole |-> TRUE]

\* part is the file that writeAtomic is busy with, tmp its temporary file.
PutState == [part: Part \cup {"none"}, key: Key, version: Version,
             tmp: {"none", "partial", "whole"}]
\* at is the system call to come; stat, body and meta are what was seen.
GetState == [at: {"stat", "body", "meta", "hit", "miss", "error"}, key: Key,
             stat: Content, body: Content, meta: Content]
DeleteState == [part: Part \cup {"none"}, key: Key]

SomeKey == CHOOSE k \in Key : TRUE
NoPut == [part |-> "none", key |-> SomeKey, version |-> CHOOSE v \in Version : TRUE,
          tmp |-> "none"]
NoDelete == [part |-> "none", key |-> SomeKey]
Fresh(k) == [at |-> "stat", key |-> k, stat |-> Absent, body |-> Absent, meta |-> Absent]
Idle(r) == get[r].at \in {"hit", "miss", "error"}

Init ==
    /\ file = [p \in Part |-> [k \in Key |-> Absent]]
    /\ put = [w \in Writer |-> NoPut]
    /\ get = [r \in Reader |-> [Fresh(SomeKey) EXCEPT !.at = "miss"]]
    /\ del = [d \in Deleter |-> NoDelete]
    /\ crashes = 0
    /\ alone = {}
    /\ mixable = {}

-----------------------------------------------------------------------------
(* Put: writeAtomic of the body, then writeAtomic of the meta file.        *)

Overlapped(w, k) == {x \in Writer \ {w} : put[x].part # "none" /\ put[x].key = k}

BeginPut(w, k, v) ==
    /\ put[w].part = "none"
    /\ put' = [put EXCEPT ![w] = [part |-> "body", key |-> k, version |-> v, tmp |-> "none"]]
    /\ IF Overlapped(w, k) = {}
       THEN alone' = alone \cup {w} /\ UNCHANGED mixable
       ELSE alone' = alone \ Overlapped(w, k) /\ mixable' = mixable \cup {k}
    /\ UNCHANGED <<file, get, del, crashes>>

\* Mutant: the destination is removed before the temporary file is complete.
Bug_CreateTemp(w) ==
    /\ put[w].part # "none"
    /\ put[w].tmp = "none"
    /\ put' = [put EXCEPT ![w].tmp = "partial"]
    /\ file' = [file EXCEPT ![put[w].part][put[w].key] = Absent]
    /\ UNCHANGED <<get, del, crashes, history>>

CreateTemp(w) ==
    /\ put[w].part # "none"
    /\ put[w].tmp = "none"
    /\ put' = [put EXCEPT ![w].tmp = "partial"]
    /\ UNCHANGED <<file, get, del, crashes, history>>

WriteTemp(w) ==
    /\ put[w].tmp = "partial"
    /\ put' = [put EXCEPT ![w].tmp = "whole"]
    /\ UNCHANGED <<file, get, del, crashes, history>>

\* No room, no permission: the temporary file is removed and Put returns,
\* possibly with the body replaced and the meta file not.
PutFails(w) ==
    /\ put[w].part # "none"
    /\ put' = [put EXCEPT ![w] = NoPut]
    /\ alone' = alone \ {w}
    /\ mixable' = IF put[w].part = "meta" THEN mixable \cup {put[w].key} ELSE mixable
    /\ UNCHANGED <<file, get, del, crashes>>

Replace(w) ==
    file' = [file EXCEPT ![put[w].part][put[w].key] = [of |-> put[w].version, whole |-> TRUE]]

\* The end of a Put that was alone leaves the key with one version.
Settle(w) ==
    IF put[w].part = "body" THEN UNCHANGED history
    ELSE /\ alone' = alone \ {w}
         /\ mixable' = IF w \in alone THEN mixable \ {put[w].key} ELSE mixable

\* Mutant: a meta file that is there is kept.
Bug_Rename(w) ==
    /\ put[w].tmp = "whole"
    /\ IF put[w].part = "meta" /\ file["meta"][put[w].key] # Absent
       THEN UNCHANGED file ELSE Replace(w)
    /\ put' = [put EXCEPT ![w] =
                 IF @.part = "body" THEN [@ EXCEPT !.part = "meta", !.tmp = "none"] ELSE NoPut]
    /\ Settle(w)
    /\ UNCHANGED <<get, del, crashes>>

Rename(w) ==
    /\ put[w].tmp = "whole"
    /\ Replace(w)
    /\ put' = [put EXCEPT ![w] =
                 IF @.part = "body" THEN [@ EXCEPT !.part = "meta", !.tmp = "none"] ELSE NoPut]
    /\ Settle(w)
    /\ UNCHANGED <<get, del, crashes>>

-----------------------------------------------------------------------------
(* Get: stat the body, read the body, read the meta file.                  *)

BeginGet(r, k) ==
    /\ Idle(r)
    /\ get' = [get EXCEPT ![r] = Fresh(k)]
    /\ UNCHANGED <<file, put, del, crashes, history>>

\* A missing body is a miss.
Stat(r) ==
    /\ get[r].at = "stat"
    /\ LET f == file["body"][get[r].key] IN
       get' = [get EXCEPT ![r].stat = f, ![r].at = IF f = Absent THEN "miss" ELSE "body"]
    /\ UNCHANGED <<file, put, del, crashes, history>>

\* From here on a missing file is an error; the caller treats it as a miss.
ReadBody(r) ==
    /\ get[r].at = "body"
    /\ LET f == file["body"][get[r].key] IN
       get' = [get EXCEPT ![r].body = f, ![r].at = IF f = Absent THEN "error" ELSE "meta"]
    /\ UNCHANGED <<file, put, del, crashes, history>>

\* Mutant: a missing meta file is read as an empty one.
Bug_ReadMeta(r) ==
    /\ get[r].at = "meta"
    /\ get' = [get EXCEPT ![r].meta = file["meta"][get[r].key], ![r].at = "hit"]
    /\ UNCHANGED <<file, put, del, crashes, history>>

ReadMeta(r) ==
    /\ get[r].at = "meta"
    /\ LET f == file["meta"][get[r].key] IN
       get' = [get EXCEPT ![r].meta = f, ![r].at = IF f = Absent THEN "error" ELSE "hit"]
    /\ UNCHANGED <<file, put, del, crashes, history>>

ReadFails(r) ==
    /\ ~Idle(r)
    /\ get' = [get EXCEPT ![r].at = "error"]
    /\ UNCHANGED <<file, put, del, crashes, history>>

-----------------------------------------------------------------------------
(* Delete: remove the body, then the meta file; either may be missing, and *)
(* an error on the first does not keep it from trying the second.          *)

BeginDelete(d, k) ==
    /\ del[d].part = "none"
    /\ del' = [del EXCEPT ![d] = [part |-> "body", key |-> k]]
    /\ UNCHANGED <<file, put, get, crashes, history>>

\* Mutant: the removal of the meta file is not the last.
Bug_Remove(d) ==
    /\ del[d].part # "none"
    /\ file' \in {file, [file EXCEPT ![del[d].part][del[d].key] = Absent]}
    /\ del' = [del EXCEPT ![d].part = IF @ = "body" THEN "meta" ELSE "tmp"]
    /\ UNCHANGED <<put, get, crashes, history>>

Remove(d) ==
    /\ del[d].part # "none"
    /\ file' \in {file, [file EXCEPT ![del[d].part][del[d].key] = Absent]}
    /\ del' = [del EXCEPT ![d] =
                 IF @.part = "body" THEN [@ EXCEPT !.part = "meta"] ELSE NoDelete]
    /\ UNCHANGED <<put, get, crashes, history>>

\* The process dies and is started again on the same directory: the files stay.
\* So do temporary files, which nothing ever looks at again.
Crash ==
    /\ crashes < MaxCrashes
    /\ crashes' = crashes + 1
    /\ put' = [w \in Writer |-> NoPut]
    /\ get' = [r \in Reader |-> [Fresh(SomeKey) EXCEPT !.at = "miss"]]
    /\ del' = [d \in Deleter |-> NoDelete]
    /\ alone' = {}
    /\ mixable' = mixable \cup {put[w].key : w \in {x \in Writer : put[x].part = "meta"}}
    /\ UNCHANGED file

Next ==
    \/ \E w \in Writer :
          \/ \E k \in Key, v \in Version : BeginPut(w, k, v)
          \/ CreateTemp(w)
          \/ WriteTemp(w)
          \/ PutFails(w)
          \/ Rename(w)
    \/ \E r \in Reader :
          \/ \E k \in Key : BeginGet(r, k)
          \/ Stat(r)
          \/ ReadBody(r)
          \/ ReadMeta(r)
          \/ ReadFails(r)
    \/ \E d \in Deleter :
          \/ \E k \in Key : BeginDelete(d, k)
          \/ Remove(d)
    \/ Crash

Spec == Init /\ [][Next]_vars

-----------------------------------------------------------------------------
TypeOK ==
    /\ file \in [Part -> [Key -> Content]]
    /\ put \in [Writer -> PutState]
    /\ get \in [Reader -> GetState]
    /\ del \in [Deleter -> DeleteState]
    /\ crashes \in 0 .. MaxCrashes
    /\ alone \subseteq Writer
    /\ mixable \subseteq Key

(***************************************************************************)
(* A hit consists of two complete files, through crashes, failed writes    *)
(* and deletions at any moment: what is served is never cut short and      *)
(* never lacks its content type.                                           *)
(***************************************************************************)
Whole(c) == c.of # None /\ c.whole

HitsAreComplete ==
    \A r \in Reader :
        get[r].at = "hit" => Whole(get[r].stat) /\ Whole(get[r].body) /\ Whole(get[r].meta)

(***************************************************************************)
(* A file once there disappears only through a Delete of its key: a Put    *)
(* that fails or dies half-way leaves the previous one in place.           *)
(***************************************************************************)
PutsKeepTheOld ==
    [][\A p \in Part, k \in Key :
          file[p][k] # Absent /\ file'[p][k] = Absent =>
              \E d \in Deleter : del[d] = [part |-> p, key |-> k]]_vars

(***************************************************************************)
(* With nobody writing or deleting, the body of one Put has the type of    *)
(* another only after two Puts of the key overlapped, or one failed or     *)
(* died between its two renames; and the next Put that is left to itself   *)
(* puts that right, whatever deletions, failed or not, run beside it.      *)
(***************************************************************************)
Quiet ==
    /\ \A w \in Writer : put[w].part = "none"
    /\ \A d \in Deleter : del[d].part = "none"

MixedOnlyWhenDisturbed ==
    Quiet => \A k \in Key :
        Whole(file["body"][k]) /\ Whole(file["meta"][k]) /\ k \notin mixable =>
            file["body"][k].of = file["meta"][k].of
=============================================================================
