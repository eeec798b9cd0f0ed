---------------------------- MODULE MCRenditions ----------------------------
(***************************************************************************)
(* Instances of Renditions for TLC: small files of the three formats that  *)
(* can be animations, written as their formats prescribe, with bytes that  *)
(* would mislead a reader that loses its place; every beginning of such a  *)
(* file; images of awkward sizes; and pairs of requests.                   *)
(***************************************************************************)
EXTENDS Renditions

\* PNG: length, name, payload, checksum.  The payload spells acTL.
Chunk(name, payload) == <<0, 0, 0, Len(payload)>> \o name \o payload \o <<1, 2, 3, 4>>
fcTL == <<102, 99, 84, 76>>
fdAT == <<102, 100, 65, 84>>
IHDR == <<73, 72, 68, 82>>
PNG(chunks) == PNGSignature \o Chunk(IHDR, acTL \o <<5>>) \o chunks
StillPNG == PNG(Chunk(IDAT, acTL) \o Chunk(acTL, <<1>>))
AnimatedPNG == PNG(Chunk(acTL, <<2>>) \o Chunk(fcTL, <<>>) \o Chunk(IDAT, <<7>>)
                   \o Chunk(fdAT, <<7>>))

\* WebP: name, length, payload padded to an even length.
WebPChunk(name, payload) ==
    name \o <<Len(payload), 0, 0, 0>> \o payload \o IF Len(payload) % 2 = 1 THEN <<0>> ELSE <<>>
VP8 == <<86, 80, 56, 32>>
ICCP == <<73, 67, 67, 80>>
WebPFile(chunks) == RIFF \o <<Len(chunks) + 4, 0, 0, 0>> \o WEBP \o chunks
StillWebP == WebPFile(WebPChunk(ICCP, <<9>>) \o WebPChunk(VP8, ANIM \o ANIM))
AnimatedWebP == WebPFile(WebPChunk(ICCP, <<9, 9, 9>>) \o WebPChunk(ANIM, <<0>>))

\* GIF: an extension with two sub-blocks, then frames of one sub-block each.
\* Sub-blocks and colour tables hold the bytes of image descriptors.
Frame(packed) ==
    <<44, 0, 0, 0, 0, 1, 0, 1, 0, packed>>
    \o [i \in 1 .. ColourTable(packed) |-> 44] \o <<2, 2, 44, 44, 0>>
Extension == <<33, 254, 1, 44, 2, 44, 44, 0>>
GIF(header, packed, frames) ==
    header \o <<1, 0, 1, 0, packed, 0, 0>> \o [i \in 1 .. ColourTable(packed) |-> 44]
    \o Extension \o frames \o <<59>>
StillGIF == GIF(GIF89a, 128, Frame(129)) \o Frame(0)
AnimatedGIF == GIF(GIF87a, 0, Frame(128) \o Extension \o Frame(0))
LargeGIF == GIF(GIF89a, 128, Frame(129) \o Frame(0) \o Frame(0))

\* An AVIF, and a page, under a type that says nothing; and a page that its
\* origin passes off as an image.
AVIFFile == <<0, 0, 0, 12>> \o ftyp \o avif
Page == <<60, 104, 116, 109, 108, 62>>

File == [png  |-> StillPNG,  apng  |-> AnimatedPNG,  webp |-> StillWebP,
         webpA |-> AnimatedWebP, gif |-> StillGIF, gifA |-> AnimatedGIF,
         gifL |-> LargeGIF, avif |-> AVIFFile, page |-> Page,
         feigned |-> Page]
Type == [png |-> "image/png", apng |-> "image/png", webp |-> "image/webp",
         webpA |-> "image/webp", gif |-> "image/gif", gifA |-> "image/gif",
         gifL |-> "image/gif", avif |-> "image/avif", page |-> "",
         feigned |-> ""]
Generic == "binary/octet-stream"
Declared == [png |-> "image/png", apng |-> Generic, webp |-> "image/webp",
             webpA |-> "image/png", gif |-> Generic, gifA |-> "image/gif",
             gifL |-> "image/gif", avif |-> Generic, page |-> Generic,
             feigned |-> "image/png"]
Moving == {"apng", "webpA", "gifA", "gifL"}

\* Between the two longest animations that are to be kept and LargeGIF.
MCAnimMaxSize == Len(LargeGIF) - 1
ASSUME LimitTellsApart == Len(AnimatedGIF) <= MCAnimMaxSize /\ Len(AnimatedPNG) <= MCAnimMaxSize

\* Names: the file, how much of it there is, width, height.
Small == <<64, 32>>
Whole(f) == <<f, Len(File[f])>> \o Small
Beginnings == UNION {{<<f, n>> \o Small : n \in 1 .. Len(File[f]) - 1} :
                   f \in DOMAIN File \ {"gifL", "avif", "page", "feigned"}}
\* Sizes at which floating point loses a unit, that fit only one way, that
\* fit just so or just not, and that would vanish.
Size == {<<161, 100>>, <<100, 289>>, <<581, 581>>, <<2191, 5000>>, <<1, 5000>>,
         <<9000, 2>>, <<1200, 4097>>, <<129, 128>>}
Sized == {<<"png", Len(StillPNG)>> \o s : s \in Size}
Names == Beginnings \cup Sized \cup {Whole(f) : f \in DOMAIN File}

MCImages == [n \in Names |-> [data |-> SubSeq(File[n[1]], 1, n[2]), declared |-> Declared[n[1]],
                              width |-> n[3], height |-> n[4]]]
MCTruth == [n \in Names |-> [type |-> Type[n[1]], animated |-> n[1] \in Moving,
                             whole |-> n[2] = Len(File[n[1]])]]

-----------------------------------------------------------------------------
Ask(params, isAVIF, debug) == [params |-> params, avif |-> isAVIF, debug |-> debug]
Plain == {{}, {"emoji"}, {"avatar"}, {"preview"}, {"badge"}, {"static"}, {"ogp"},
          {"emoji", "static"}, {"avatar", "static"}, {"emoji", "avatar"}}
Queries == {Ask(p, a, FALSE) : p \in Plain, a \in BOOLEAN}

Instance(name, q, labels) == [source |-> name, query |-> q, purge |-> labels, fallback |-> {}]

\* Every pair of a query with one that can be confused with it.
Pairs == {<<p, q>> \in Queries \X Queries :
             \/ p.params \subseteq q.params /\ p.params # {}
             \/ p.params = {} /\ q.params = {"static"}}
Meetings == {Instance(Whole(f), q, "none") : f \in {"png", "gifA"}, q \in Pairs}

\* One request for every beginning of a file and for every size.
Cuts == {Instance(n, <<Ask({p}, FALSE, FALSE)>>, "none") : n \in Beginnings, p \in {"emoji"}}
Scalings == {Instance(n, <<Ask({p}, TRUE, FALSE)>>, "none") :
                n \in Sized, p \in {"emoji", "avatar", "preview", "ogp"}}
Kinds == {Instance(Whole(f), <<Ask(p, FALSE, d)>>, "none") :
             f \in DOMAIN File, p \in Plain, d \in BOOLEAN}

\* Two requests, one of them with ?debug, for the one slot.
Slotting == {Instance(Whole("gifA"), <<Ask({"badge"}, FALSE, TRUE), q>>, "none") :
                q \in {Ask({"badge"}, FALSE, FALSE), Ask({"ogp"}, FALSE, FALSE)}}

\* Requests while the command runs.
Purges == {Instance(Whole("gifA"), <<Ask({"emoji"}, FALSE, FALSE), q>>, "all") :
              q \in {Ask({"emoji", "static"}, TRUE, FALSE), Ask({"emoji"}, FALSE, FALSE)}}
          \cup {Instance(Whole("gifA"), <<q>>, "all") : q \in Queries}
          \cup {Instance(Whole("gifA"), <<Ask({"emoji"}, TRUE, FALSE),
                                          Ask({"emoji", "static"}, FALSE, FALSE)>>, "emoji")}

\* The first of two requests with ?fallback, or a debug request alone.
Fallbacks == {[Instance(Whole(f), q, "none") EXCEPT !.fallback = {1}] :
                 f \in {"png", "gifA", "feigned"},
                 q \in {<<Ask({p}, FALSE, FALSE), Ask({p}, FALSE, FALSE)>> : p \in {"preview", "emoji"}}
                       \cup {<<Ask({"badge"}, FALSE, TRUE)>>}}

MCInputs ==
    Meetings \cup Cuts \cup Scalings \cup Kinds \cup Slotting \cup Purges \cup Fallbacks
=============================================================================
