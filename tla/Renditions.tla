----------------------------- MODULE Renditions -----------------------------
(***************************************************************************)
(* The renditions of one URL: requests with different queries for it, the  *)
(* keys under which their answers meet, in flights and in L1, the slots of *)
(* the converter, and the purge command.                                   *)
(*                                                                         *)
(* The steps before the L1 lookup and L2 are in module ProxyHandler, the   *)
(* files of an entry in L1Cache.  Of the failures that the handler tells   *)
(* apart, only that of the conversion is one of its own here, since the    *)
(* requests with ?fallback answer it with the original; the others, with a *)
(* dummy image or not, are answered with no rendition of the URL.  An      *)
(* ordinary request whose conversion panics ends the process               *)
(* (ProxyHandler) and does not panic here.                                 *)
(***************************************************************************)
EXTENDS Converter, Integers, FiniteSets

CONSTANTS
    Request,
    Images,        \* the images an origin may serve, by name
    Truth,         \* what they are: [type, animated, whole], for the properties
    Inputs,        \* instances: [source: name, query: [requests -> Query], purge, fallback]
    Concurrency,   \* CONVERT_CONCURRENCY
    MaxSkips       \* bound on the deletions of a purge that fail

\* Media types that isAllowedContentType lets pass.
AllowedType == {"image/png", "image/gif", "image/webp", "image/avif", "image/heic",
                "image/heif", "video/mp4", "audio/mpeg"}

\* What answers carry: no media, or a type that an origin declares, that is
\* sniffed or that the converter makes.
MediaType == AllowedType \cup {Images[n].declared : n \in DOMAIN Images} \cup {"error", "none"}
Rendition == [type: MediaType, width: Nat, height: Nat, original: BOOLEAN]

\* Whatever CacheString returns.
Labels == {AllCacheStrings[i] : i \in DOMAIN AllCacheStrings}

ASSUME RenditionsAssumption ==
    /\ Concurrency \in Int
    /\ AnimMaxSize \in Int
    /\ MaxSkips \in Nat
    /\ \A name \in DOMAIN Images : Images[name] \in Image
    /\ DOMAIN Truth = DOMAIN Images
    /\ \A i \in Inputs :
          /\ i.source \in DOMAIN Images
          /\ DOMAIN i.query \subseteq Request /\ i.query \in [DOMAIN i.query -> Query]
          /\ i.purge \in {"none", "all"} \cup Labels
          /\ i.fallback \subseteq DOMAIN i.query

VARIABLES
    source,    \* the name of the image at the URL; never changes
    query,     \* [the requests of the instance -> Query]; never changes
    pc,        \* where ServeHTTP is
    gone,      \* requests whose context is done
    fetch,     \* the stage of the request's own originFetch
    answer,    \* what the request received, and then answered
    pending,   \* requests whose asyncL1Put is on its way
    stored,    \* [Keys -> what L1 holds]
    slots,     \* elements in the semaphore's channel
    purge,     \* the labels to purge: "none", "all" or one of them
    fallback,  \* the requests with ?fallback; never changes
    todo,      \* keys that the command has not come to yet
    skipped,   \* keys whose deletion failed
    late       \* history: keys stored since the purge began, and not deleted

inputs == <<source, query, purge, fallback>>
vars == <<inputs, pc, gone, fetch, answer, pending, stored, slots, todo, skipped, late>>
purgeVars == <<todo, skipped, late>>

Client == DOMAIN query
KeyOf(r) == Key(query[r])
Keys == {Key(q) : q \in Query}
image == Images[source]

\* The type the origin declares, unless only the sniffed one is media.
OriginType ==
    IF image.declared \notin AllowedType /\ DetectContentType(image.data) # ""
    THEN DetectContentType(image.data) ELSE image.declared

\* The command also deletes keys that no query has, such as raw AVIF.
PurgedKeys == Labels \X {"webp", "avif"}

NoAnswer == [type |-> "none", width |-> 0, height |-> 0, original |-> FALSE]

\* A conversionError: no rendition, but the bytes that were to be converted.
Unconverted == [NoRendition EXCEPT !.original = TRUE]

\* Mutant: the configured number, zero included.
Bug_Slots == Concurrency

\* New makes at least one.
Slots == IF Concurrency <= 0 THEN 1 ELSE Concurrency

PurgeKeys(labels) ==
    IF labels = "none" THEN <<>>
    ELSE IF labels = "all" THEN AllVariantKeys ELSE LabelKeys(labels)

Init ==
    /\ \E i \in Inputs : /\ source = i.source /\ query = i.query
                        /\ purge = i.purge /\ fallback = i.fallback
    /\ pc = [r \in Client |-> "new"]
    /\ gone = {}
    /\ fetch = [r \in Client |-> "none"]
    /\ answer = [r \in Client |-> NoAnswer]
    /\ pending = {}
    /\ stored = [k \in Keys |-> NoAnswer]
    /\ slots = 0
    /\ todo = PurgeKeys(purge)
    /\ skipped = {}
    /\ late = {}

-----------------------------------------------------------------------------
(* ServeHTTP.                                                              *)

ContextDone(r) ==
    /\ r \notin gone
    /\ pc[r] \in {"join", "wait", "debug"} \/ fetch[r] \in {"fetching", "slot", "converting"}
    /\ gone' = gone \cup {r}
    /\ UNCHANGED <<inputs, pc, fetch, answer, pending, stored, slots, purgeVars>>

\* A conversion that failed is an error, or with ?fallback the original.
Respond(r, a) ==
    LET degrades == a = Unconverted /\ r \in fallback
        sent == IF degrades THEN Original(image, OriginType)
                ELSE IF a = Unconverted THEN NoRendition ELSE a
    IN  /\ pc' = [pc EXCEPT ![r] = IF degrades THEN "degraded" ELSE "answered"]
        /\ answer' = [answer EXCEPT ![r] = sent]

\* A debug request goes to the origin straight away; for the others an error
\* of L1 counts as a miss.
Lookup(r) ==
    /\ pc[r] = "new"
    /\ \/ /\ query[r].debug
          /\ pc' = [pc EXCEPT ![r] = "debug"]
          /\ fetch' = [fetch EXCEPT ![r] = "fetching"]
          /\ UNCHANGED answer
       \/ /\ ~query[r].debug
          /\ stored[KeyOf(r)] # NoAnswer
          /\ Respond(r, stored[KeyOf(r)])
          /\ UNCHANGED fetch
       \/ /\ ~query[r].debug
          /\ pc' = [pc EXCEPT ![r] = "join"]
          /\ UNCHANGED <<fetch, answer>>
    /\ UNCHANGED <<inputs, gone, pending, stored, slots, purgeVars>>

\* Requests with a flight of the key.
Flying(k) ==
    {r \in Client : /\ fetch[r] \in {"fetching", "slot", "converting"}
                    /\ ~query[r].debug
                    /\ KeyOf(r) = k}

Join(r) ==
    /\ pc[r] = "join"
    /\ pc' = [pc EXCEPT ![r] = "wait"]
    /\ fetch' = IF Flying(KeyOf(r)) = {} THEN [fetch EXCEPT ![r] = "fetching"] ELSE fetch
    /\ UNCHANGED <<inputs, gone, answer, pending, stored, slots, purgeVars>>

\* Mutant: what goes out with a status of 200 is stored.
Bug_Receive(r) ==
    /\ pc[r] = "wait"
    /\ answer[r] # NoAnswer
    /\ Respond(r, answer[r])
    /\ pending' = IF answer'[r] = NoRendition THEN pending ELSE pending \cup {r}
    /\ UNCHANGED <<inputs, gone, fetch, stored, slots, purgeVars>>

\* Every caller that has received media starts a write of its own; the
\* original of a failed conversion is answered and not stored.
Receive(r) ==
    /\ pc[r] = "wait"
    /\ answer[r] # NoAnswer
    /\ Respond(r, answer[r])
    /\ pending' = IF answer[r] \in {NoRendition, Unconverted} THEN pending ELSE pending \cup {r}
    /\ UNCHANGED <<inputs, gone, fetch, stored, slots, purgeVars>>

GiveUp(r) ==
    /\ pc[r] = "wait"
    /\ r \in gone
    /\ Respond(r, NoRendition)
    /\ UNCHANGED <<inputs, gone, fetch, pending, stored, slots, purgeVars>>

PutL1(r) ==
    /\ r \in pending
    /\ pending' = pending \ {r}
    /\ stored' = [stored EXCEPT ![KeyOf(r)] = answer[r]]
    /\ late' = IF todo # PurgeKeys(purge) THEN late \cup {KeyOf(r)} ELSE late
    /\ UNCHANGED <<inputs, pc, gone, fetch, answer, slots, todo, skipped>>

-----------------------------------------------------------------------------
(* originFetch, and the semaphore around Convert.                          *)

\* A debug request ran it itself and answers; otherwise singleflight sends
\* the result to all that wait, whether they still listen or not.
Return(r, result) ==
    /\ fetch' = [fetch EXCEPT ![r] = "done"]
    /\ IF query[r].debug
       THEN Respond(r, result)
       ELSE /\ answer' = [w \in Client |->
                            IF pc[w] = "wait" /\ KeyOf(w) = KeyOf(r) /\ answer[w] = NoAnswer
                            THEN result ELSE answer[w]]
            /\ UNCHANGED pc
    /\ UNCHANGED <<inputs, gone, pending, stored, purgeVars>>

FetchFails(r) ==
    /\ fetch[r] = "fetching"
    /\ Return(r, NoRendition)
    /\ UNCHANGED slots

FetchBody(r) ==
    /\ fetch[r] = "fetching"
    /\ IF ~query[r].debug /\ OriginType \notin AllowedType
       THEN Return(r, NoRendition)
       ELSE IF ~NeedsConversion(ParseVariant(query[r]))
       THEN Return(r, Original(image, OriginType))
       ELSE /\ fetch' = [fetch EXCEPT ![r] = "slot"]
            /\ UNCHANGED <<inputs, pc, gone, answer, pending, stored, purgeVars>>
    /\ UNCHANGED slots

\* Mutant: there is no limit.
Bug_Acquire(r) ==
    /\ fetch[r] = "slot"
    /\ slots' = slots + 1
    /\ fetch' = [fetch EXCEPT ![r] = "converting"]
    /\ UNCHANGED <<inputs, pc, gone, answer, pending, stored, purgeVars>>

\* With a free slot and a done context, select takes either.
Acquire(r) ==
    /\ fetch[r] = "slot"
    /\ slots < Slots
    /\ slots' = slots + 1
    /\ fetch' = [fetch EXCEPT ![r] = "converting"]
    /\ UNCHANGED <<inputs, pc, gone, answer, pending, stored, purgeVars>>

\* Convert's error like any other.
AcquireFails(r) ==
    /\ fetch[r] = "slot"
    /\ r \in gone
    /\ Return(r, Unconverted)
    /\ UNCHANGED slots

\* What originFetch makes of Convert's result.
Outcome(result) == IF result = NoRendition THEN Unconverted ELSE result

\* Mutant: Release is not deferred, and a failed conversion returns early.
Bug_Convert(r) ==
    /\ fetch[r] = "converting"
    /\ LET q == query[r] IN
       \E result \in Conversions(image, ParseVariant(q), Format(q), NoAnim(q)) :
          /\ Return(r, Outcome(result))
          /\ slots' = IF result = NoRendition THEN slots ELSE slots - 1

\* libvips does not look at the context: a conversion runs to its end.
Convert(r) ==
    /\ fetch[r] = "converting"
    /\ LET q == query[r] IN
       \E result \in Conversions(image, ParseVariant(q), Format(q), NoAnim(q)) :
          Return(r, Outcome(result))
    /\ slots' = slots - 1

\* Release is deferred; the Recovery middleware answers.
ConvertPanics(r) ==
    /\ fetch[r] = "converting"
    /\ query[r].debug
    /\ Return(r, NoRendition)
    /\ slots' = slots - 1

-----------------------------------------------------------------------------
\* The purge command: one key after the other; an error is printed and the
\* key skipped.
PurgeNext ==
    /\ todo # <<>>
    /\ todo' = Tail(todo)
    /\ \/ /\ stored' = [k \in Keys |-> IF k = Head(todo) THEN NoAnswer ELSE stored[k]]
          /\ late' = late \ {Head(todo)}
          /\ UNCHANGED skipped
       \/ /\ Cardinality(skipped) < MaxSkips
          /\ skipped' = skipped \cup {Head(todo)}
          /\ UNCHANGED <<stored, late>>
    /\ UNCHANGED <<inputs, pc, gone, fetch, answer, pending, slots>>

OriginFetch(r) ==
    FetchFails(r) \/ FetchBody(r) \/ Acquire(r) \/ AcquireFails(r) \/ Convert(r) \/ ConvertPanics(r)

Next ==
    \/ \E r \in Client :
          \/ ContextDone(r) \/ Lookup(r) \/ Join(r) \/ Receive(r) \/ GiveUp(r) \/ PutL1(r)
          \/ OriginFetch(r)
    \/ PurgeNext

\* A conversion that can have a slot takes one, and conversions end.  Nothing
\* is assumed of origins, of clients and of REQUEST_TIMEOUT.
Spec ==
    /\ Init /\ [][Next]_vars
    /\ \A r \in Request :
          /\ WF_vars(r \in Client /\ Acquire(r))
          /\ WF_vars(r \in Client /\ (Convert(r) \/ ConvertPanics(r)))

-----------------------------------------------------------------------------
Stage == {"new", "join", "wait", "debug", "answered", "degraded"}

TypeOK ==
    /\ source \in DOMAIN Images
    /\ Client \subseteq Request
    /\ query \in [Client -> Query]
    /\ fallback \subseteq Client
    /\ pc \in [Client -> Stage]
    /\ gone \subseteq Client
    /\ fetch \in [Client -> {"none", "fetching", "slot", "converting", "done"}]
    /\ answer \in [Client -> Rendition]
    /\ pending \subseteq Client
    /\ stored \in [Keys -> Rendition]
    /\ slots \in 0 .. Slots
    /\ todo \in Seq(PurgedKeys)
    /\ skipped \subseteq PurgedKeys
    /\ late \subseteq Keys

\* An answer with media, made for this request or for another of its key.
Delivered(r) == pc[r] = "answered" /\ answer[r] # NoRendition

\* In the box, no larger than the source, and filling the box in one
\* direction, but for one pixel, unless the size was kept.
FillsBox(a, w, h) ==
    /\ a.width \in 1 .. w /\ a.height \in 1 .. h
    /\ a.width <= image.width /\ a.height <= image.height
    /\ \/ a.width = image.width /\ a.height = image.height
       \/ a.width >= w - 1 \/ a.height >= h - 1

(***************************************************************************)
(* Whoever shares a flight or an L1 entry asked for the same thing: an     *)
(* answer has the type and the size that README.md:20-31 promise for its   *)
(* own query, whichever request it was made for, and is a still image      *)
(* wherever a still was asked for.  Only who asked with ?fallback gets the *)
(* original of a conversion that failed instead (README.md:32), and not    *)
(* who shares its flight or comes later.                                   *)
(*                                                                         *)
(* What is no media goes to debug requests only, unless its origin         *)
(* declares it as media, which the code takes on trust (proxy.go:346-347). *)
(***************************************************************************)
Box == [emoji |-> <<128, 128>>, avatar |-> <<320, 320>>, preview |-> <<200, 200>>,
        ogp |-> <<1200, 4096>>]

Matches(a, q) ==
    LET v == ParseVariant(q)
        mayBeAVIF == q.avif /\ v \in {"emoji", "avatar", "preview"}
    IN  /\ a.original => v = "raw" \/ (v \in {"emoji", "avatar"} /\ "static" \notin q.params)
        /\ v = "raw" => a.original
        /\ ~a.original /\ v \in DOMAIN Box => FillsBox(a, Box[v][1], Box[v][2])
        /\ v = "badge" => <<a.type, a.width, a.height>> = <<"image/png", 96, 96>>
        /\ v = "static" => <<a.width, a.height>> = <<image.width, image.height>>
        /\ ~a.original /\ v # "badge" =>
              a.type = IF mayBeAVIF THEN "image/avif" ELSE "image/webp"

PassesAsMedia(q) ==
    q.debug \/ Truth[source].type # "" \/ image.declared \in AllowedType

AnswersMatchTheQuery ==
    \A r \in Client :
        /\ Delivered(r) => Matches(answer[r], query[r]) /\ PassesAsMedia(query[r])
        /\ pc[r] = "degraded" =>
              /\ r \in fallback /\ ParseVariant(query[r]) # "raw"
              /\ answer[r] = Original(image, OriginType) /\ PassesAsMedia(query[r])

(***************************************************************************)
(* README.md:113-119: an emoji or avatar is the original exactly if the    *)
(* source is an animation up to the limit and ?static is not given; then   *)
(* it goes out with the type of its bytes, whatever its origin declared.   *)
(* An original that stands in for a failed conversion is apart from this.  *)
(* A file that was cut off is not taken for an animation if it was none.   *)
(***************************************************************************)
AnimationIsKept ==
    \A r \in Client :
        Delivered(r) /\ ParseVariant(query[r]) \in {"emoji", "avatar"} =>
            LET keep == /\ Truth[source].animated
                        /\ "static" \notin query[r].params
                        /\ AnimMaxSize > 0 => Len(image.data) <= AnimMaxSize
            IN  /\ answer[r].original => keep /\ answer[r].type = Truth[source].type
                /\ keep /\ Truth[source].whole => answer[r].original

(***************************************************************************)
(* When the purge of all variants has ended, L1 holds nothing of the URL,  *)
(* whatever queries put it there, but what was stored since its key was    *)
(* deleted and what the command reported as skipped; likewise for a label. *)
(***************************************************************************)
Purged(k) == purge = "all" \/ k[1] = purge

PurgeIsComplete ==
    todo = <<>> =>
        \A k \in Keys : Purged(k) /\ stored[k] # NoAnswer => k \in late \cup skipped

(***************************************************************************)
(* A conversion that waits for a slot comes to its end without the help of *)
(* its request's timeout: no slot is lost to a conversion that failed,     *)
(* that panicked or whose request is gone, and there is always one.        *)
(***************************************************************************)
WaitsForSlot(r) == r \in Client /\ fetch[r] = "slot"

SlotsComeBack ==
    \A r \in Request : WaitsForSlot(r) ~> r \notin Client \/ fetch[r] = "done"
=============================================================================
