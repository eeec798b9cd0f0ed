----------------------------- MODULE Converter -----------------------------
(***************************************************************************)
(* What Convert of internal/converter makes of an image, apart from its    *)
(* semaphore: the choice between the original and a still, the format and  *)
(* the size.  An image is its bytes, the type its origin declares, and its *)
(* size in pixels.                                                         *)
(*                                                                         *)
(* bimg (libvips) is external: it may fail on any data, and delivers the   *)
(* type and the size it is asked for, a badge with a margin where needed.  *)
(***************************************************************************)
EXTENDS Variants, ImageInfo

CONSTANT AnimMaxSize   \* CONVERT_ANIM_MAX_SIZE

Image == [data: Seq(Byte), declared: STRING, width: Nat \ {0}, height: Nat \ {0}]

\* What a fetch or a conversion delivers; "error" is the type of none.
NoRendition == [type |-> "error", width |-> 0, height |-> 0, original |-> FALSE]

Original(image, type) ==
    [type |-> type, width |-> image.width, height |-> image.height, original |-> TRUE]
Still(type, w, h) == [type |-> type, width |-> w, height |-> h, original |-> FALSE]

Max1(n) == IF n > 1 THEN n ELSE 1

\* int(float64(n) * (float64(num) / float64(den))): rounding can only lose
\* the last unit, and only where the division leaves no remainder.
Scaled(n, num, den) ==
    LET q == (n * num) \div den
    IN  IF (n * num) % den = 0 THEN {q} \cup ({q - 1} \cap Nat) ELSE {q}

\* Mutant: the ratio of the width decides alone.
Bug_FitDimensions(w, h, maxW, maxH) ==
    IF w <= maxW /\ h <= maxH THEN {<<w, h>>}
    ELSE {<<Max1(x), Max1(y)>> : x \in Scaled(w, maxW, w), y \in Scaled(h, maxW, w)}

\* The sizes that fitDimensions may return, the smaller ratio deciding.
FitDimensions(w, h, maxW, maxH) ==
    LET byHeight == maxH * w < maxW * h
        num == IF byHeight THEN maxH ELSE maxW
        den == IF byHeight THEN h ELSE w
    IN  IF w <= maxW /\ h <= maxH THEN {<<w, h>>}
        ELSE {<<Max1(x), Max1(y)>> : x \in Scaled(w, num, den), y \in Scaled(h, num, den)}

\* convertWebP, convertAVIF and convertOGP with a box to fit into.
Fitted(image, type, maxW, maxH) ==
    {Still(type, d[1], d[2]) : d \in FitDimensions(image.width, image.height, maxW, maxH)}

OutputType(format) == IF format = "avif" THEN "image/avif" ELSE "image/webp"

\* Mutant: the cap is not looked at.
Bug_KeepAnimation(image, noAnim) == ~noAnim /\ IsAnimated(image.data)

KeepAnimation(image, noAnim) ==
    /\ ~noAnim
    /\ ~(AnimMaxSize > 0 /\ Len(image.data) > AnimMaxSize)
    /\ IsAnimated(image.data)

\* emoji and avatar.
KeptOrFitted(image, format, noAnim, box) ==
    IF KeepAnimation(image, noAnim)
    THEN {Original(image, MagicType(image.data))}
    ELSE Fitted(image, OutputType(format), box, box)

\* The results that Convert may return.
Conversions(image, v, format, noAnim) ==
    {NoRendition} \cup
    CASE v = "badge"   -> {Still("image/png", 96, 96)}
      [] v = "emoji"   -> KeptOrFitted(image, format, noAnim, 128)
      [] v = "avatar"  -> KeptOrFitted(image, format, noAnim, 320)
      [] v = "preview" -> Fitted(image, OutputType(format), 200, 200)
      [] v = "static"  -> {Still("image/webp", image.width, image.height)}
      [] v = "ogp"     -> Fitted(image, "image/webp", 1200, 4096)
=============================================================================
