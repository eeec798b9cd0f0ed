------------------------------ MODULE Variants ------------------------------
(***************************************************************************)
(* What a query asks for and under which key the answer is kept:           *)
(* internal/variant, internal/format and internal/cachekey, with the first *)
(* lines of ServeHTTP and the keys that the purge command computes.        *)
(*                                                                         *)
(* A query is the set of its parameters, the extension of its file name    *)
(* and whether its debug key is the right one.  Its URL is left out, and   *)
(* so is SHA-256: no label holds a "|", so that a key is a label and a     *)
(* format.  ?fallback, which changes neither, is a request's own affair    *)
(* (ProxyHandler, Renditions).                                             *)
(***************************************************************************)
EXTENDS Naturals, Sequences

Param == {"emoji", "avatar", "preview", "badge", "static", "ogp"}
Query == [params: SUBSET Param, avif: BOOLEAN, debug: BOOLEAN]

\* The switch of ParseQuery, first to last.
Priority == <<"emoji", "avatar", "preview", "badge", "static", "ogp">>

ParseVariant(q) ==
    LET won(i) == Priority[i] \in q.params /\ \A j \in 1 .. i - 1 : Priority[j] \notin q.params
    IN  IF q.params = {} THEN "raw" ELSE Priority[CHOOSE i \in DOMAIN Priority : won(i)]

\* Set even if another variant has won.
NoAnim(q) == "static" \in q.params

KeepsAnimation(v) == v \in {"emoji", "avatar"}
SupportsAVIF(v) == v \in {"emoji", "avatar", "preview"}
NeedsConversion(v) == v # "raw"

StaticLabel == [emoji |-> "emoji-static", avatar |-> "avatar-static"]

\* Mutant: the label does not tell a still emoji from a moving one.
Bug_CacheString(v, noAnim) == v

CacheString(v, noAnim) ==
    IF noAnim /\ KeepsAnimation(v) THEN StaticLabel[v] ELSE v

\* FromFilename, and ServeHTTP's return to WebP.
Format(q) == IF q.avif /\ SupportsAVIF(ParseVariant(q)) THEN "avif" ELSE "webp"

Key(q) == <<CacheString(ParseVariant(q), NoAnim(q)), Format(q)>>

-----------------------------------------------------------------------------
(* The purge command.                                                      *)

\* Mutant: the labels of the variants, without those of their still forms.
Bug_AllCacheStrings ==
    <<"raw", "emoji", "avatar", "preview", "badge", "static", "ogp">>

AllCacheStrings ==
    <<"raw", "emoji", "avatar", "preview", "badge", "static", "ogp",
      CacheString("emoji", TRUE), CacheString("avatar", TRUE)>>

\* The keys of one label, in the order in which they are deleted.
LabelKeys(label) == << <<label, "webp">>, <<label, "avif">> >>

AllVariantKeys ==
    [i \in 1 .. 2 * Len(AllCacheStrings) |->
        LabelKeys(AllCacheStrings[(i + 1) \div 2])[2 - (i % 2)]]
=============================================================================
