----------------------------- MODULE ImageInfo -----------------------------
(***************************************************************************)
(* internal/imageinfo: whether the bytes of an image are an animation, and *)
(* which media type they are of, found without decoding them.              *)
(*                                                                         *)
(* Data are sequences of bytes, offsets count from 0 as in the code.  Go's *)
(* int has 64 bits and lengths in a file have 32, so the guards against an *)
(* overflow never fire and are left out.                                   *)
(***************************************************************************)
EXTENDS Naturals, Sequences

Byte == 0 .. 255
At(data, p) == data[p + 1]
HasAt(data, p, bytes) ==
    p + Len(bytes) <= Len(data) /\ SubSeq(data, p + 1, p + Len(bytes)) = bytes

\* Names of chunks and formats, in ASCII.
PNGSignature == <<137, 80, 78, 71, 13, 10, 26, 10>>
acTL == <<97, 99, 84, 76>>
IDAT == <<73, 68, 65, 84>>
GIF87a == <<71, 73, 70, 56, 55, 97>>
GIF89a == <<71, 73, 70, 56, 57, 97>>
RIFF == <<82, 73, 70, 70>>
WEBP == <<87, 69, 66, 80>>
ANIM == <<65, 78, 73, 77>>
ftyp == <<102, 116, 121, 112>>
avif == <<97, 118, 105, 102>>
heic == <<104, 101, 105, 99>>
mif1 == <<109, 105, 102, 49>>

BE32(data, p) ==
    ((At(data, p) * 256 + At(data, p + 1)) * 256 + At(data, p + 2)) * 256 + At(data, p + 3)
LE32(data, p) ==
    ((At(data, p + 3) * 256 + At(data, p + 2)) * 256 + At(data, p + 1)) * 256 + At(data, p)

-----------------------------------------------------------------------------
\* Chunk by chunk until acTL, which must precede the first IDAT.
IsAnimatedPNG(data) ==
    LET walk[p \in Nat] ==
            /\ p + 8 <= Len(data)
            /\ ~HasAt(data, p + 4, IDAT)
            /\ HasAt(data, p + 4, acTL) \/ walk[p + 12 + BE32(data, p)]
    IN  walk[8]

\* Mutant: payloads are not padded.
Bug_Padded(size) == size

Padded(size) == size + (size % 2)

IsAnimatedWebP(data) ==
    LET walk[p \in Nat] ==
            /\ p + 8 <= Len(data)
            /\ HasAt(data, p, ANIM) \/ walk[p + 8 + Padded(LE32(data, p + 4))]
    IN  walk[12]

\* Bytes of the colour table that a packed field announces: three for each of
\* its colours, whose number is a power of two.
Colours == <<2, 4, 8, 16, 32, 64, 128, 256>>
ColourTable(packed) == IF packed >= 128 THEN 3 * Colours[(packed % 8) + 1] ELSE 0

\* Where a chain of sub-blocks beginning at p ends; 0 if the data end first.
AfterSubBlocks(data, p0) ==
    LET skip[p \in Nat] ==
            IF p >= Len(data) THEN 0
            ELSE IF At(data, p) = 0 THEN p + 1
            ELSE skip[p + 1 + At(data, p)]
    IN  skip[p0]

\* Block by block until the second image descriptor.
IsAnimatedGIF(data) ==
    LET resume(p) == AfterSubBlocks(data, p)
        afterImage(p) == resume(p + 10 + ColourTable(At(data, p + 9)) + 1)
        walk[at \in Nat \X (0 .. 1)] ==
            LET p == at[1]
                frames == at[2]
            IN  /\ p < Len(data)
                /\ \/ /\ At(data, p) = 33              \* an extension
                      /\ resume(p + 2) # 0
                      /\ walk[<<resume(p + 2), frames>>]
                   \/ /\ At(data, p) = 44              \* an image descriptor
                      /\ \/ frames = 1
                         \/ /\ p + 10 <= Len(data)
                            /\ afterImage(p) # 0
                            /\ walk[<<afterImage(p), 1>>]
    IN  Len(data) >= 13 /\ walk[<<13 + ColourTable(At(data, 10)), 0>>]

IsAnimated(data) ==
    \/ HasAt(data, 0, PNGSignature) /\ IsAnimatedPNG(data)
    \/ (HasAt(data, 0, GIF87a) \/ HasAt(data, 0, GIF89a)) /\ IsAnimatedGIF(data)
    \/ HasAt(data, 0, RIFF) /\ HasAt(data, 8, WEBP) /\ IsAnimatedWebP(data)

-----------------------------------------------------------------------------
(* Media types; "" is that of data which are no image, video or audio.     *)

\* The brand of an ISO base media file; one of each family.
IsobmffContentType(data) ==
    IF ~HasAt(data, 4, ftyp) THEN ""
    ELSE IF HasAt(data, 8, avif) THEN "image/avif"
    ELSE IF HasAt(data, 8, heic) THEN "image/heic"
    ELSE IF HasAt(data, 8, mif1) THEN "image/heif"
    ELSE ""

\* The media type by the magic bytes: net/http's, and bimg's of an image.
MagicType(data) ==
    IF HasAt(data, 0, PNGSignature) THEN "image/png"
    ELSE IF HasAt(data, 0, GIF87a) \/ HasAt(data, 0, GIF89a) THEN "image/gif"
    ELSE IF HasAt(data, 0, RIFF) /\ HasAt(data, 8, WEBP) THEN "image/webp"
    ELSE ""

DetectContentType(data) ==
    IF IsobmffContentType(data) # "" THEN IsobmffContentType(data) ELSE MagicType(data)
=============================================================================
