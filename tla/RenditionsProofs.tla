-------------------------- MODULE RenditionsProofs --------------------------
(***************************************************************************)
(* Theorems about module Renditions and the modules it is built on.        *)
(*                                                                         *)
(* In this order: what the walks through the blocks of a file do to one    *)
(* that was cut off (ImageInfo), what a key tells of a query (Variants),   *)
(* what fitDimensions and Convert return (Converter), and the invariant    *)
(* and what follows from it (Renditions).                                  *)
(***************************************************************************)
EXTENDS Renditions, FiniteSetTheorems, NaturalsInduction, WellFoundedInduction, TLAPS

-----------------------------------------------------------------------------
(* The walks of imageinfo.  Each is a recursive function: it exists since  *)
(* every step gets further into the data and none is taken behind their    *)
(* end.                                                                    *)

\* From n to n + 1.
LEMMA Induct ==
    ASSUME NEW T, 0 \in T, \A n \in Nat : n \in T => n + 1 \in T
    PROVE  Nat \subseteq T
<1> SUFFICES ASSUME Nat \ T # {} PROVE FALSE
  OBVIOUS
<1>1. PICK Less : /\ IsWellFoundedOn(Less, Nat)
                  /\ \A m, n \in Nat : m < n => <<m, n>> \in Less
  BY NatLessThanWellFounded DEF OpToRel
<1>2. \E n \in Nat \ T : \A m \in Nat \ T : ~ (<<m, n>> \in Less)
  <2>1. Nat \ T \subseteq Nat
    OBVIOUS
  <2> QED
    BY <1>1, <2>1, WFMin, Zenon
<1>3. \A n \in Nat \ T : n - 1 \in Nat \ T /\ n - 1 < n
  <2>1. \A n \in Nat : n = 0 \/ (n - 1 \in Nat /\ n - 1 < n /\ (n - 1) + 1 = n)
    OBVIOUS
  <2> QED
    BY <2>1
<1> QED
  BY <1>1, <1>2, <1>3

\* A walk that always gets further ends before the data do.
LEMMA NoEndlessWalk ==
    ASSUME NEW D \in Nat, NEW Bad, NEW m,
           \A x \in Bad : /\ m[x] \in Nat /\ m[x] < D
                          /\ \E y \in Bad : m[y] > m[x]
    PROVE  Bad = {}
<1> DEFINE T == {n \in Nat : \A x \in Bad : m[x] < D - n}
<1>1. 0 \in T
  OBVIOUS
<1>2. ASSUME NEW n \in Nat, n \in T PROVE n + 1 \in T
  <2> SUFFICES ASSUME NEW x \in Bad PROVE m[x] < D - (n + 1)
    OBVIOUS
  <2>1. PICK y \in Bad : m[y] > m[x]
    OBVIOUS
  <2>2. m[y] < D - n /\ m[y] \in Nat /\ m[x] \in Nat
    BY <1>2
  <2> QED
    BY <2>1, <2>2
<1>3. D \in T
  <2> HIDE DEF T
  <2> QED
    BY <1>1, <1>2, Induct
<1> SUFFICES ASSUME NEW x \in Bad PROVE FALSE
  OBVIOUS
<1>4. m[x] < D - D /\ m[x] \in Nat
  BY <1>3
<1> QED
  BY <1>4

\* The equation of a walk: it ends at x with val[x], or goes on.
Walk(S, stop, val, nxt, f) == [x \in S |-> IF x \in stop THEN val[x] ELSE f[nxt[x]]]

Ends(S, stop, nxt, m, D) ==
    /\ D \in Nat
    /\ \A x \in S : m[x] \in Nat
    /\ \A x \in S \ stop : m[x] < D /\ nxt[x] \in S /\ m[nxt[x]] > m[x]

LEMMA WalksExist ==
    ASSUME NEW S, NEW stop, NEW val, NEW nxt, NEW m, NEW D, Ends(S, stop, nxt, m, D)
    PROVE  \E f : f = Walk(S, stop, val, nxt, f)
<1> USE DEF Ends
<1> DEFINE UpTo(n) == {x \in S : D - m[x] <= n}
           Solves(f, n) == \A x \in UpTo(n) : f[x] = Walk(S, stop, val, nxt, f)[x]
           Good == {n \in Nat : \E f : Solves(f, n)}
<1>1. 0 \in Good
  <2>1. \A x \in UpTo(0) : x \in stop
    OBVIOUS
  <2>2. \A x \in UpTo(0) : [y \in S |-> val[y]][x] = Walk(S, stop, val, nxt, [y \in S |-> val[y]])[x]
    BY <2>1 DEF Walk
  <2>3. Solves([y \in S |-> val[y]], 0)
    BY <2>2
  <2> QED
    BY <2>3
<1>2. ASSUME NEW n \in Nat, n \in Good PROVE n + 1 \in Good
  <2>1. PICK g : Solves(g, n)
    BY <1>2
  <2> DEFINE h == [x \in S |-> IF x \in UpTo(n) THEN g[x] ELSE Walk(S, stop, val, nxt, g)[x]]
  <2>2. \A x \in S : h[x] = Walk(S, stop, val, nxt, g)[x]
    BY <2>1
  <2>3. ASSUME NEW x \in UpTo(n + 1), x \notin stop PROVE h[nxt[x]] = g[nxt[x]]
    <3>1. nxt[x] \in S /\ m[nxt[x]] \in Nat /\ m[x] \in Nat /\ m[nxt[x]] > m[x]
      BY <2>3
    <3>2. D - m[nxt[x]] <= n
      BY <2>3, <3>1
    <3> QED
      BY <3>1, <3>2
  <2>4. ASSUME NEW x \in UpTo(n + 1)
        PROVE  Walk(S, stop, val, nxt, h)[x] = Walk(S, stop, val, nxt, g)[x]
    <3> HIDE DEF h
    <3> QED
      BY <2>3 DEF Walk
  <2>5. Solves(h, n + 1)
    <3> HIDE DEF h
    <3> QED
      BY <2>2, <2>4
  <2> HIDE DEF h, Solves
  <2> QED
    BY <2>5
<1>3. D \in Good
  <2> HIDE DEF Good
  <2> QED
    BY <1>1, <1>2, Induct
<1>4. PICK f : Solves(f, D)
  BY <1>3
<1>5. \A x \in S : x \in UpTo(D)
  OBVIOUS
<1> DEFINE h == [x \in S |-> f[x]]
<1>6. h = Walk(S, stop, val, nxt, h)
  <2>1. \A x \in S : f[x] = Walk(S, stop, val, nxt, f)[x]
    BY <1>4, <1>5
  <2> QED
    BY <2>1 DEF Walk
<1> HIDE DEF h
<1> QED
  BY <1>6

LEMMA WalksDecide ==
    ASSUME NEW S, NEW stop, NEW val, NEW nxt, NEW m, NEW D, Ends(S, stop, nxt, m, D),
           \A x \in S : val[x] \in BOOLEAN
    PROVE  \E f : f = Walk(S, stop, val, nxt, f) /\ f \in [S -> BOOLEAN]
<1>1. PICK f : f = Walk(S, stop, val, nxt, f)
  BY WalksExist
<1>2. /\ f = [x \in S |-> f[x]]
      /\ \A x \in S : f[x] = IF x \in stop THEN val[x] ELSE f[nxt[x]]
  BY <1>1 DEF Walk
<1> DEFINE Bad == {x \in S : f[x] \notin BOOLEAN}
<1>3. ASSUME NEW x \in Bad
      PROVE  m[x] \in Nat /\ m[x] < D /\ \E y \in Bad : m[y] > m[x]
  <2>1. x \in S \ stop
    BY <1>2, <1>3
  <2>2. nxt[x] \in Bad
    BY <1>2, <1>3, <2>1 DEF Ends
  <2> QED
    BY <2>1, <2>2 DEF Ends
<1>4. Bad = {}
  <2> HIDE DEF Bad
  <2>1. D \in Nat
    BY DEF Ends
  <2> QED
    BY <1>3, <2>1, NoEndlessWalk
<1> QED
  BY <1>1, <1>2, <1>4

-----------------------------------------------------------------------------
Beginning(d, e) ==
    /\ d \in Seq(Byte) /\ e \in Seq(Byte)
    /\ Len(d) <= Len(e)
    /\ \A i \in 1 .. Len(d) : d[i] = e[i]

LEMMA SameParts ==
    ASSUME NEW d, NEW e, Beginning(d, e), NEW p \in Nat, NEW n \in Nat, p + n <= Len(d)
    PROVE  SubSeq(d, p + 1, p + n) = SubSeq(e, p + 1, p + n)
<1> SUFFICES ASSUME d \in Seq(Byte), e \in Seq(Byte), Len(d) <= Len(e),
                    \A i \in 1 .. Len(d) : d[i] = e[i]
             PROVE  SubSeq(d, p + 1, p + n) = SubSeq(e, p + 1, p + n)
  BY DEF Beginning
<1> QED
  OBVIOUS

LEMMA SameBytes ==
    ASSUME NEW d, NEW e, Beginning(d, e), NEW p \in Nat, NEW bytes \in Seq(Byte),
           p + Len(bytes) <= Len(d)
    PROVE  HasAt(d, p, bytes) <=> HasAt(e, p, bytes)
<1>1. Len(bytes) \in Nat /\ Len(d) \in Nat /\ Len(e) \in Nat
  BY DEF Beginning
<1>2. \A n \in Nat : p + n <= Len(d) => SubSeq(d, p + 1, p + n) = SubSeq(e, p + 1, p + n)
  <2> TAKE n \in Nat
  <2> HAVE p + n <= Len(d)
  <2> QED
    BY SameParts, Zenon
<1>3. SubSeq(d, p + 1, p + Len(bytes)) = SubSeq(e, p + 1, p + Len(bytes))
  BY <1>1, <1>2, Zenon
<1>4. p + Len(bytes) <= Len(d) /\ p + Len(bytes) <= Len(e)
  BY <1>1 DEF Beginning
<1> QED
  BY <1>3, <1>4, Zenon DEF HasAt

LEMMA Names ==
    /\ acTL \in Seq(Byte) /\ Len(acTL) = 4 /\ IDAT \in Seq(Byte) /\ Len(IDAT) = 4
    /\ ANIM \in Seq(Byte) /\ Len(ANIM) = 4 /\ RIFF \in Seq(Byte) /\ Len(RIFF) = 4
    /\ WEBP \in Seq(Byte) /\ Len(WEBP) = 4
    /\ GIF87a \in Seq(Byte) /\ Len(GIF87a) = 6 /\ GIF89a \in Seq(Byte) /\ Len(GIF89a) = 6
    /\ PNGSignature \in Seq(Byte) /\ Len(PNGSignature) = 8
  BY DEF acTL, IDAT, ANIM, RIFF, WEBP, GIF87a, GIF89a, PNGSignature, Byte

LEMMA Number ==
    ASSUME NEW a \in Byte, NEW b \in Byte, NEW c \in Byte, NEW z \in Byte
    PROVE  ((a * 256 + b) * 256 + c) * 256 + z \in Nat
  BY DEF Byte

LEMMA Words ==
    ASSUME NEW data \in Seq(Byte), NEW p \in Nat, p + 4 <= Len(data)
    PROVE  BE32(data, p) \in Nat /\ LE32(data, p) \in Nat
<1> DEFINE a == At(data, p)
           b == At(data, p + 1)
           c == At(data, p + 2)
           z == At(data, p + 3)
<1>1. a \in Byte /\ b \in Byte /\ c \in Byte /\ z \in Byte
  BY DEF At
<1>2. /\ BE32(data, p) = ((a * 256 + b) * 256 + c) * 256 + z
      /\ LE32(data, p) = ((z * 256 + c) * 256 + b) * 256 + a
  BY DEF BE32, LE32
<1> HIDE DEF a, b, c, z
<1> QED
  BY <1>1, <1>2, Number

LEMMA SameWords ==
    ASSUME NEW d, NEW e, Beginning(d, e), NEW p \in Nat, p + 4 <= Len(d)
    PROVE  BE32(d, p) = BE32(e, p) /\ LE32(d, p) = LE32(e, p)
<1>1. /\ d[p + 1] = e[p + 1] /\ d[p + 2] = e[p + 2] /\ d[p + 3] = e[p + 3]
      /\ d[p + 4] = e[p + 4]
  BY DEF Beginning
<1>2. \A x : /\ At(x, p) = x[p + 1] /\ At(x, p + 1) = x[p + 2]
             /\ At(x, p + 2) = x[p + 3] /\ At(x, p + 3) = x[p + 4]
  BY DEF At
<1> QED
  BY <1>1, <1>2 DEF BE32, LE32

-----------------------------------------------------------------------------
PNGWalk(data, f) ==
    [p \in Nat |-> /\ p + 8 <= Len(data)
                   /\ ~HasAt(data, p + 4, IDAT)
                   /\ HasAt(data, p + 4, acTL) \/ f[p + 12 + BE32(data, p)]]

LEMMA PNGWalks ==
    ASSUME NEW data \in Seq(Byte)
    PROVE  \E f : f = PNGWalk(data, f) /\ (IsAnimatedPNG(data) <=> f[8])
<1> DEFINE ok == {p \in Nat : p + 8 <= Len(data) /\ ~HasAt(data, p + 4, IDAT)}
           hit == {p \in Nat : HasAt(data, p + 4, acTL)}
           stop == (Nat \ ok) \cup hit
           val == [p \in Nat |-> p \in ok]
           nxt == [p \in Nat |-> p + 12 + BE32(data, p)]
           m == [p \in Nat |-> p]
<1>1. Ends(Nat, stop, nxt, m, Len(data))
  <2>1. ASSUME NEW p \in Nat \ stop
        PROVE  m[p] < Len(data) /\ nxt[p] \in Nat /\ m[nxt[p]] > m[p]
    <3>1. p + 8 <= Len(data) /\ Len(data) \in Nat
      BY <2>1
    <3>2. BE32(data, p) \in Nat
      BY <3>1, Words
    <3> QED
      BY <3>1, <3>2
  <2>2. \A p \in Nat : m[p] \in Nat
    OBVIOUS
  <2> HIDE DEF m, nxt, stop
  <2> QED
    BY <2>1, <2>2 DEF Ends
<1>2. \A p \in Nat : val[p] \in BOOLEAN
  OBVIOUS
<1>3. \E f : f = Walk(Nat, stop, val, nxt, f) /\ f \in [Nat -> BOOLEAN]
  <2> HIDE DEF m, nxt, stop, val
  <2> QED
    BY <1>1, <1>2, WalksDecide
<1>4. PICK f : f = Walk(Nat, stop, val, nxt, f) /\ f \in [Nat -> BOOLEAN]
  BY <1>3
<1>5. \A p \in Nat : f[p] = IF p \in stop THEN p \in ok ELSE f[nxt[p]]
  BY <1>4 DEF Walk
<1>6. f = PNGWalk(data, f)
  <2>1. ASSUME NEW p \in Nat
        PROVE  f[p] = (/\ p + 8 <= Len(data)
                       /\ ~HasAt(data, p + 4, IDAT)
                       /\ HasAt(data, p + 4, acTL) \/ f[p + 12 + BE32(data, p)])
    <3>1. f[p] \in BOOLEAN
      BY <1>4
    <3>2. CASE p \in stop
      BY <1>5, <3>1, <3>2
    <3>3. CASE p \notin stop
      <4>1. f[p] = f[p + 12 + BE32(data, p)]
        BY <1>5, <3>3
      <4> QED
        BY <3>1, <3>3, <4>1
    <3> QED
      BY <3>2, <3>3
  <2>2. f = [p \in Nat |-> f[p]]
    BY <1>4
  <2> QED
    BY <2>1, <2>2 DEF PNGWalk
<1> DEFINE walk == CHOOSE g : g = PNGWalk(data, g)
<1>7. walk = PNGWalk(data, walk)
  BY <1>6
<1>8. IsAnimatedPNG(data) <=> walk[8]
  BY DEF IsAnimatedPNG, PNGWalk
<1> HIDE DEF walk
<1> QED
  BY <1>7, <1>8

LEMMA CutOffPNG ==
    ASSUME NEW d, NEW e, Beginning(d, e), IsAnimatedPNG(d)
    PROVE  IsAnimatedPNG(e)
<1>1. /\ d \in Seq(Byte) /\ e \in Seq(Byte) /\ Len(d) \in Nat /\ Len(e) \in Nat
      /\ Len(d) <= Len(e)
  BY DEF Beginning
<1>2. PICK f : f = PNGWalk(d, f) /\ (IsAnimatedPNG(d) <=> f[8])
  BY <1>1, PNGWalks
<1>3. PICK g : g = PNGWalk(e, g) /\ (IsAnimatedPNG(e) <=> g[8])
  BY <1>1, PNGWalks
<1> DEFINE Bad == {p \in Nat : f[p] /\ ~g[p]}
           m == [p \in Nat |-> p]
<1>4. ASSUME NEW p \in Bad
      PROVE  m[p] \in Nat /\ m[p] < Len(d) /\ \E q \in Bad : m[q] > m[p]
  <2> DEFINE q == p + 12 + BE32(d, p)
  <2>1. p \in Nat /\ f[p] /\ ~g[p]
    OBVIOUS
  <2>2. /\ p + 8 <= Len(d) /\ ~HasAt(d, p + 4, IDAT)
        /\ HasAt(d, p + 4, acTL) \/ f[q]
    BY <1>2, <2>1 DEF PNGWalk
  <2>3. /\ HasAt(d, p + 4, IDAT) <=> HasAt(e, p + 4, IDAT)
        /\ HasAt(d, p + 4, acTL) <=> HasAt(e, p + 4, acTL)
    <3>1. p + 4 \in Nat /\ p + 4 + Len(IDAT) <= Len(d) /\ p + 4 + Len(acTL) <= Len(d)
      BY <1>1, <2>1, <2>2, Names
    <3> QED
      BY <3>1, Names, SameBytes
  <2>4. BE32(d, p) = BE32(e, p) /\ BE32(d, p) \in Nat
    <3>1. p + 4 <= Len(d)
      BY <1>1, <2>1, <2>2
    <3> QED
      BY <1>1, <2>1, <3>1, Words, SameWords
  <2>5. p + 8 <= Len(e) /\ q \in Nat /\ q > p /\ q = p + 12 + BE32(e, p)
    BY <1>1, <2>1, <2>2, <2>4
  <2>6. g[p] <=> HasAt(e, p + 4, acTL) \/ g[q]
    <3>1. g[p] <=> /\ p + 8 <= Len(e)
                   /\ ~HasAt(e, p + 4, IDAT)
                   /\ HasAt(e, p + 4, acTL) \/ g[p + 12 + BE32(e, p)]
      BY <1>3, <2>1 DEF PNGWalk
    <3> HIDE DEF q
    <3> QED
      BY <2>2, <2>3, <2>5, <3>1
  <2> HIDE DEF q
  <2>7. q \in Bad
    BY <2>1, <2>2, <2>3, <2>5, <2>6
  <2>8. m[p] = p /\ m[q] = q
    BY <2>1, <2>5
  <2> QED
    BY <1>1, <2>1, <2>2, <2>5, <2>7, <2>8
<1>5. Bad = {}
  <2> HIDE DEF Bad, m
  <2> QED
    BY <1>1, <1>4, NoEndlessWalk
<1> QED
  BY <1>2, <1>3, <1>5

-----------------------------------------------------------------------------
WebPWalk(data, f) ==
    [p \in Nat |-> /\ p + 8 <= Len(data)
                   /\ HasAt(data, p, ANIM) \/ f[p + 8 + Padded(LE32(data, p + 4))]]

LEMMA PaddedNat ==
    ASSUME NEW size \in Nat
    PROVE  Padded(size) \in Nat
  BY DEF Padded

LEMMA WebPWalks ==
    ASSUME NEW data \in Seq(Byte)
    PROVE  \E f : f = WebPWalk(data, f) /\ (IsAnimatedWebP(data) <=> f[12])
<1> DEFINE ok == {p \in Nat : p + 8 <= Len(data)}
           hit == {p \in Nat : HasAt(data, p, ANIM)}
           stop == (Nat \ ok) \cup hit
           val == [p \in Nat |-> p \in ok]
           nxt == [p \in Nat |-> p + 8 + Padded(LE32(data, p + 4))]
           m == [p \in Nat |-> p]
<1>1. Ends(Nat, stop, nxt, m, Len(data))
  <2>1. ASSUME NEW p \in Nat \ stop
        PROVE  m[p] < Len(data) /\ nxt[p] \in Nat /\ m[nxt[p]] > m[p]
    <3>1. p + 8 <= Len(data) /\ Len(data) \in Nat
      BY <2>1
    <3>2. Padded(LE32(data, p + 4)) \in Nat
      <4>1. p + 4 \in Nat /\ p + 4 + 4 <= Len(data)
        BY <2>1, <3>1
      <4>2. LE32(data, p + 4) \in Nat
        BY <4>1, Words
      <4> QED
        BY <4>2, PaddedNat
    <3> QED
      BY <3>1, <3>2
  <2>2. \A p \in Nat : m[p] \in Nat
    OBVIOUS
  <2> HIDE DEF m, nxt, stop
  <2> QED
    BY <2>1, <2>2 DEF Ends
<1>2. \A p \in Nat : val[p] \in BOOLEAN
  OBVIOUS
<1>3. \E f : f = Walk(Nat, stop, val, nxt, f) /\ f \in [Nat -> BOOLEAN]
  <2> HIDE DEF m, nxt, stop, val
  <2> QED
    BY <1>1, <1>2, WalksDecide
<1>4. PICK f : f = Walk(Nat, stop, val, nxt, f) /\ f \in [Nat -> BOOLEAN]
  BY <1>3
<1>5. \A p \in Nat : f[p] = IF p \in stop THEN p \in ok ELSE f[nxt[p]]
  BY <1>4 DEF Walk
<1>6. f = WebPWalk(data, f)
  <2>1. ASSUME NEW p \in Nat
        PROVE  f[p] = (/\ p + 8 <= Len(data)
                       /\ HasAt(data, p, ANIM) \/ f[p + 8 + Padded(LE32(data, p + 4))])
    <3>1. f[p] \in BOOLEAN
      BY <1>4
    <3>2. CASE p \in stop
      BY <1>5, <3>1, <3>2
    <3>3. CASE p \notin stop
      <4>1. f[p] = f[p + 8 + Padded(LE32(data, p + 4))]
        BY <1>5, <3>3
      <4> QED
        BY <3>1, <3>3, <4>1
    <3> QED
      BY <3>2, <3>3
  <2>2. f = [p \in Nat |-> f[p]]
    BY <1>4
  <2> QED
    BY <2>1, <2>2 DEF WebPWalk
<1> DEFINE walk == CHOOSE g : g = WebPWalk(data, g)
<1>7. walk = WebPWalk(data, walk)
  BY <1>6
<1>8. IsAnimatedWebP(data) <=> walk[12]
  BY DEF IsAnimatedWebP, WebPWalk
<1> HIDE DEF walk
<1> QED
  BY <1>7, <1>8

LEMMA CutOffWebP ==
    ASSUME NEW d, NEW e, Beginning(d, e), IsAnimatedWebP(d)
    PROVE  IsAnimatedWebP(e)
<1>1. /\ d \in Seq(Byte) /\ e \in Seq(Byte) /\ Len(d) \in Nat /\ Len(e) \in Nat
      /\ Len(d) <= Len(e)
  BY DEF Beginning
<1>2. PICK f : f = WebPWalk(d, f) /\ (IsAnimatedWebP(d) <=> f[12])
  BY <1>1, WebPWalks
<1>3. PICK g : g = WebPWalk(e, g) /\ (IsAnimatedWebP(e) <=> g[12])
  BY <1>1, WebPWalks
<1> DEFINE Bad == {p \in Nat : f[p] /\ ~g[p]}
           m == [p \in Nat |-> p]
<1>4. ASSUME NEW p \in Bad
      PROVE  m[p] \in Nat /\ m[p] < Len(d) /\ \E q \in Bad : m[q] > m[p]
  <2> DEFINE q == p + 8 + Padded(LE32(d, p + 4))
  <2>1. p \in Nat /\ f[p] /\ ~g[p]
    OBVIOUS
  <2>2. /\ p + 8 <= Len(d)
        /\ HasAt(d, p, ANIM) \/ f[q]
    BY <1>2, <2>1 DEF WebPWalk
  <2>3. HasAt(d, p, ANIM) <=> HasAt(e, p, ANIM)
    <3>1. p + Len(ANIM) <= Len(d)
      BY <1>1, <2>1, <2>2, Names
    <3> QED
      BY <2>1, <3>1, Names, SameBytes
  <2>4. LE32(d, p + 4) = LE32(e, p + 4) /\ Padded(LE32(d, p + 4)) \in Nat
    <3>1. p + 4 \in Nat /\ p + 4 + 4 <= Len(d)
      BY <1>1, <2>1, <2>2
    <3>2. LE32(d, p + 4) = LE32(e, p + 4) /\ LE32(d, p + 4) \in Nat
      BY <1>1, <3>1, Words, SameWords
    <3> QED
      BY <3>2, PaddedNat
  <2>5. p + 8 <= Len(e) /\ q \in Nat /\ q > p /\ q = p + 8 + Padded(LE32(e, p + 4))
    BY <1>1, <2>1, <2>2, <2>4
  <2>6. g[p] <=> HasAt(e, p, ANIM) \/ g[q]
    <3>1. g[p] <=> /\ p + 8 <= Len(e)
                   /\ HasAt(e, p, ANIM) \/ g[p + 8 + Padded(LE32(e, p + 4))]
      BY <1>3, <2>1 DEF WebPWalk
    <3> HIDE DEF q
    <3> QED
      BY <2>2, <2>3, <2>5, <3>1
  <2> HIDE DEF q
  <2>7. q \in Bad
    BY <2>1, <2>2, <2>3, <2>5, <2>6
  <2>8. m[p] = p /\ m[q] = q
    BY <2>1, <2>5
  <2> QED
    BY <1>1, <2>1, <2>2, <2>5, <2>7, <2>8
<1>5. Bad = {}
  <2> HIDE DEF Bad, m
  <2> QED
    BY <1>1, <1>4, NoEndlessWalk
<1> QED
  BY <1>2, <1>3, <1>5

-----------------------------------------------------------------------------
SkipWalk(data, f) ==
    [p \in Nat |-> IF p >= Len(data) THEN 0
                   ELSE IF At(data, p) = 0 THEN p + 1
                   ELSE f[p + 1 + At(data, p)]]

LEMMA Bytes ==
    ASSUME NEW data \in Seq(Byte), NEW p \in Nat, p < Len(data)
    PROVE  At(data, p) \in Nat /\ At(data, p) \in Byte
<1>1. data[p + 1] \in Byte
  OBVIOUS
<1>2. At(data, p) \in Byte
  BY <1>1 DEF At
<1>3. \A b \in Byte : b \in Nat
  BY DEF Byte
<1> QED
  BY <1>2, <1>3

LEMMA SameByte ==
    ASSUME NEW d, NEW e, Beginning(d, e), NEW p \in Nat, p < Len(d)
    PROVE  At(d, p) = At(e, p)
<1>1. p + 1 \in 1 .. Len(d)
  BY DEF Beginning
<1> QED
  BY <1>1 DEF Beginning, At

LEMMA Skips ==
    ASSUME NEW data \in Seq(Byte)
    PROVE  \E f : /\ f = SkipWalk(data, f)
                  /\ \A p \in Nat : AfterSubBlocks(data, p) = f[p]
<1> DEFINE stop == {p \in Nat : p >= Len(data) \/ At(data, p) = 0}
           val == [p \in Nat |-> IF p >= Len(data) THEN 0 ELSE p + 1]
           nxt == [p \in Nat |-> p + 1 + At(data, p)]
           m == [p \in Nat |-> p]
<1>1. Ends(Nat, stop, nxt, m, Len(data))
  <2>1. ASSUME NEW p \in Nat \ stop
        PROVE  m[p] < Len(data) /\ nxt[p] \in Nat /\ m[nxt[p]] > m[p]
    <3>1. p < Len(data) /\ Len(data) \in Nat
      BY <2>1
    <3>2. At(data, p) \in Nat
      BY <3>1, Bytes
    <3> QED
      BY <3>1, <3>2
  <2>2. \A p \in Nat : m[p] \in Nat
    OBVIOUS
  <2> HIDE DEF m, nxt, stop
  <2> QED
    BY <2>1, <2>2 DEF Ends
<1>2. \E f : f = Walk(Nat, stop, val, nxt, f)
  <2> HIDE DEF m, nxt, stop, val
  <2> QED
    BY <1>1, WalksExist
<1>3. PICK f : f = Walk(Nat, stop, val, nxt, f)
  BY <1>2
<1>4. f = SkipWalk(data, f)
  <2>1. ASSUME NEW p \in Nat
        PROVE  (IF p \in stop THEN val[p] ELSE f[nxt[p]]) =
                 IF p >= Len(data) THEN 0
                 ELSE IF At(data, p) = 0 THEN p + 1
                 ELSE f[p + 1 + At(data, p)]
    OBVIOUS
  <2> HIDE DEF stop, val, nxt
  <2> QED
    BY <1>3, <2>1 DEF Walk, SkipWalk
<1> DEFINE skip == CHOOSE g : g = SkipWalk(data, g)
<1>5. skip = SkipWalk(data, skip)
  BY <1>4
<1>6. \A p \in Nat : AfterSubBlocks(data, p) = skip[p]
  BY DEF AfterSubBlocks, SkipWalk
<1> HIDE DEF skip
<1> QED
  BY <1>5, <1>6

\* A chain of sub-blocks ends behind its beginning.
LEMMA SkipsForward ==
    ASSUME NEW data \in Seq(Byte), NEW p0 \in Nat
    PROVE  /\ AfterSubBlocks(data, p0) \in Nat
           /\ AfterSubBlocks(data, p0) # 0 => AfterSubBlocks(data, p0) > p0
<1>1. PICK f : /\ f = SkipWalk(data, f)
               /\ \A p \in Nat : AfterSubBlocks(data, p) = f[p]
  BY Skips
<1> DEFINE fine(p) == f[p] \in Nat /\ (f[p] # 0 => f[p] > p)
           Bad == {p \in Nat : ~fine(p)}
           m == [p \in Nat |-> p]
<1>2. Len(data) \in Nat
  OBVIOUS
<1>3. ASSUME NEW p \in Bad
      PROVE  m[p] \in Nat /\ m[p] < Len(data) /\ \E q \in Bad : m[q] > m[p]
  <2> DEFINE q == p + 1 + At(data, p)
  <2>1. p \in Nat /\ ~fine(p)
    OBVIOUS
  <2>2. f[p] = IF p >= Len(data) THEN 0 ELSE IF At(data, p) = 0 THEN p + 1 ELSE f[q]
    BY <1>1, <2>1 DEF SkipWalk
  <2>3. p < Len(data)
    BY <1>2, <2>1, <2>2
  <2>4. q \in Nat /\ q > p
    <3>1. At(data, p) \in Nat
      BY <2>1, <2>3, Bytes
    <3> QED
      BY <2>1, <3>1
  <2>5. f[p] = f[q]
    <3> HIDE DEF q
    <3> QED
      BY <1>2, <2>1, <2>2, <2>3
  <2> HIDE DEF q
  <2>6. q \in Bad
    BY <2>1, <2>4, <2>5
  <2> QED
    BY <2>1, <2>3, <2>4, <2>6
<1>4. Bad = {}
  <2> HIDE DEF Bad, m
  <2> QED
    BY <1>2, <1>3, NoEndlessWalk
<1>5. fine(p0)
  BY <1>4
<1> QED
  BY <1>1, <1>5

\* It ends there in a longer file as well.
LEMMA SkipsAlike ==
    ASSUME NEW d, NEW e, Beginning(d, e), NEW p0 \in Nat, AfterSubBlocks(d, p0) # 0
    PROVE  AfterSubBlocks(e, p0) = AfterSubBlocks(d, p0)
<1>1. /\ d \in Seq(Byte) /\ e \in Seq(Byte) /\ Len(d) \in Nat /\ Len(e) \in Nat
      /\ Len(d) <= Len(e)
  BY DEF Beginning
<1>2. PICK f : /\ f = SkipWalk(d, f)
               /\ \A p \in Nat : AfterSubBlocks(d, p) = f[p]
  BY <1>1, Skips
<1>3. PICK g : /\ g = SkipWalk(e, g)
               /\ \A p \in Nat : AfterSubBlocks(e, p) = g[p]
  BY <1>1, Skips
<1> DEFINE Bad == {p \in Nat : f[p] # 0 /\ g[p] # f[p]}
           m == [p \in Nat |-> p]
<1>4. ASSUME NEW p \in Bad
      PROVE  m[p] \in Nat /\ m[p] < Len(d) /\ \E q \in Bad : m[q] > m[p]
  <2> DEFINE q == p + 1 + At(d, p)
  <2>1. p \in Nat /\ f[p] # 0 /\ g[p] # f[p]
    OBVIOUS
  <2>2. f[p] = IF p >= Len(d) THEN 0 ELSE IF At(d, p) = 0 THEN p + 1 ELSE f[q]
    BY <1>2, <2>1 DEF SkipWalk
  <2>3. p < Len(d)
    BY <1>1, <2>1, <2>2
  <2>4. At(d, p) = At(e, p)
    BY <2>1, <2>3, SameByte
  <2>5. q \in Nat /\ q > p
    <3>1. At(d, p) \in Nat
      BY <1>1, <2>1, <2>3, Bytes
    <3> QED
      BY <2>1, <3>1
  <2>6. g[p] = IF p >= Len(e) THEN 0 ELSE IF At(d, p) = 0 THEN p + 1 ELSE g[q]
    BY <1>3, <2>1, <2>4 DEF SkipWalk
  <2> HIDE DEF q
  <2>7. ~(p >= Len(e)) /\ ~(p >= Len(d))
    BY <1>1, <2>1, <2>3
  <2>8. f[p] = f[q] /\ g[p] = g[q]
    BY <2>1, <2>2, <2>6, <2>7
  <2>9. q \in Bad
    BY <2>1, <2>5, <2>8
  <2> QED
    BY <2>1, <2>3, <2>5, <2>9
<1>5. Bad = {}
  <2> HIDE DEF Bad, m
  <2> QED
    BY <1>1, <1>4, NoEndlessWalk
<1> QED
  BY <1>2, <1>3, <1>5

AfterImage(data, p) == AfterSubBlocks(data, p + 10 + ColourTable(At(data, p + 9)) + 1)

Place == Nat \X (0 .. 1)

\* What the walk meets at p with so many frames behind it: the end, one way
\* or the other, or something to pass.
Block(data, f, p, frames) ==
    /\ p < Len(data)
    /\ \/ /\ At(data, p) = 33
          /\ AfterSubBlocks(data, p + 2) # 0
          /\ f[<<AfterSubBlocks(data, p + 2), frames>>]
       \/ /\ At(data, p) = 44
          /\ \/ frames = 1
             \/ /\ p + 10 <= Len(data)
                /\ AfterImage(data, p) # 0
                /\ f[<<AfterImage(data, p), 1>>]

GIFWalk(data, f) == [at \in Place |-> Block(data, f, at[1], at[2])]

LEMMA ColourTables ==
    ASSUME NEW packed \in Byte
    PROVE  ColourTable(packed) \in Nat
<1>1. CASE packed < 128
  BY <1>1 DEF ColourTable, Byte
<1>2. CASE packed >= 128
  <2>1. (packed % 8) + 1 \in 1 .. 8
    BY DEF Byte
  <2>2. \A i \in 1 .. 8 : Colours[i] \in Nat
    BY DEF Colours
  <2>3. Colours[(packed % 8) + 1] \in Nat
    BY <2>1, <2>2
  <2>4. \A n \in Nat : 3 * n \in Nat
    OBVIOUS
  <2> QED
    BY <1>2, <2>3, <2>4 DEF ColourTable
<1> QED
  BY <1>1, <1>2 DEF Byte

\* Where an image descriptor at p has its data.
LEMMA ImageData ==
    ASSUME NEW data \in Seq(Byte), NEW p \in Nat, p + 10 <= Len(data)
    PROVE  /\ p + 10 + ColourTable(At(data, p + 9)) + 1 \in Nat
           /\ AfterImage(data, p) \in Nat
           /\ AfterImage(data, p) # 0 => AfterImage(data, p) > p
<1>1. p + 9 \in Nat /\ p + 9 < Len(data)
  OBVIOUS
<1>2. At(data, p + 9) \in Byte
  BY <1>1, Bytes
<1>3. ColourTable(At(data, p + 9)) \in Nat
  BY <1>2, ColourTables
<1> DEFINE q == p + 10 + ColourTable(At(data, p + 9)) + 1
<1>4. q \in Nat /\ q > p
  BY <1>3
<1> HIDE DEF q
<1>5. AfterSubBlocks(data, q) \in Nat /\ (AfterSubBlocks(data, q) # 0 => AfterSubBlocks(data, q) > q)
  BY <1>4, SkipsForward
<1> QED
  BY <1>4, <1>5 DEF AfterImage, q

LEMMA GIFWalks ==
    ASSUME NEW data \in Seq(Byte)
    PROVE  \E f : /\ f = GIFWalk(data, f)
                  /\ IsAnimatedGIF(data) <=>
                        Len(data) >= 13 /\ f[<<13 + ColourTable(At(data, 10)), 0>>]
<1> DEFINE after(p) == AfterSubBlocks(data, p + 2)
           ext == {x \in Place : x[1] < Len(data) /\ At(data, x[1]) = 33 /\ after(x[1]) # 0}
           img == {x \in Place : /\ x[1] < Len(data) /\ At(data, x[1]) = 44 /\ x[2] # 1
                                 /\ x[1] + 10 <= Len(data) /\ AfterImage(data, x[1]) # 0}
           stop == Place \ (ext \cup img)
           val == [x \in Place |-> x[1] < Len(data) /\ At(data, x[1]) = 44 /\ x[2] = 1]
           nxt == [x \in Place |-> IF x \in ext THEN <<after(x[1]), x[2]>>
                                   ELSE <<AfterImage(data, x[1]), 1>>]
           m == [x \in Place |-> x[1]]
<1>0. \A x \in Place : x[1] \in Nat /\ x[2] \in 0 .. 1 /\ x = <<x[1], x[2]>>
  BY DEF Place
<1>1. Ends(Place, stop, nxt, m, Len(data))
  <2>1. ASSUME NEW x \in ext
        PROVE  m[x] < Len(data) /\ nxt[x] \in Place /\ m[nxt[x]] > m[x]
    <3>1. x[1] \in Nat /\ x[2] \in 0 .. 1 /\ x[1] + 2 \in Nat
      BY <1>0
    <3>2. after(x[1]) \in Nat /\ after(x[1]) > x[1] + 2
      BY <3>1, SkipsForward
    <3>3. nxt[x] = <<after(x[1]), x[2]>> /\ m[x] = x[1]
      OBVIOUS
    <3>4. nxt[x] \in Place /\ nxt[x][1] = after(x[1])
      BY <3>1, <3>2, <3>3 DEF Place
    <3>5. m[nxt[x]] = after(x[1])
      BY <3>4
    <3> QED
      BY <3>1, <3>2, <3>3, <3>4, <3>5
  <2>2. ASSUME NEW x \in img
        PROVE  m[x] < Len(data) /\ nxt[x] \in Place /\ m[nxt[x]] > m[x]
    <3>1. x[1] \in Nat /\ x[1] + 10 <= Len(data) /\ AfterImage(data, x[1]) # 0
      BY <1>0
    <3>2. AfterImage(data, x[1]) \in Nat /\ AfterImage(data, x[1]) > x[1]
      BY <3>1, ImageData
    <3>3. nxt[x] = <<AfterImage(data, x[1]), 1>> /\ m[x] = x[1]
      <4>1. x \notin ext
        OBVIOUS
      <4> HIDE DEF ext
      <4> QED
        BY <4>1
    <3>4. nxt[x] \in Place /\ nxt[x][1] = AfterImage(data, x[1])
      BY <3>2, <3>3 DEF Place
    <3>5. m[nxt[x]] = AfterImage(data, x[1])
      BY <3>4
    <3> QED
      BY <3>1, <3>2, <3>3, <3>4, <3>5
  <2>3. \A x \in Place : m[x] \in Nat
    BY <1>0
  <2>4. \A x \in Place \ stop : x \in ext \/ x \in img
    OBVIOUS
  <2> HIDE DEF m, nxt, stop, ext, img
  <2> QED
    BY <2>1, <2>2, <2>3, <2>4 DEF Ends
<1>2. \A x \in Place : val[x] \in BOOLEAN
  OBVIOUS
<1>3. \E f : f = Walk(Place, stop, val, nxt, f) /\ f \in [Place -> BOOLEAN]
  <2> HIDE DEF m, nxt, stop, val
  <2> QED
    BY <1>1, <1>2, WalksDecide
<1>4. PICK f : f = Walk(Place, stop, val, nxt, f) /\ f \in [Place -> BOOLEAN]
  BY <1>3
<1>5. \A x \in Place : f[x] = IF x \in stop THEN val[x] ELSE f[nxt[x]]
  <2> HIDE DEF stop, val, nxt
  <2> QED
    BY <1>4 DEF Walk
<1>6. f = GIFWalk(data, f)
  <2>1. ASSUME NEW x \in Place
        PROVE  f[x] = Block(data, f, x[1], x[2])
    <3>1. f[x] \in BOOLEAN
      BY <1>4
    <3>2. CASE x \in ext
      <4>1. f[x] = f[<<after(x[1]), x[2]>>]
        BY <1>5, <3>2
      <4>2. x[1] < Len(data) /\ At(data, x[1]) = 33 /\ after(x[1]) # 0
        BY <3>2
      <4>3. At(data, x[1]) # 44
        BY <4>2
      <4>4. Block(data, f, x[1], x[2]) <=> f[<<after(x[1]), x[2]>>]
        BY <4>2, <4>3, Zenon DEF Block
      <4>5. Block(data, f, x[1], x[2]) \in BOOLEAN
        BY Zenon DEF Block
      <4> QED
        BY <3>1, <4>1, <4>4, <4>5, Zenon
    <3>3. CASE x \in img
      <4>2. /\ x[1] < Len(data) /\ At(data, x[1]) = 44 /\ x[2] # 1
            /\ x[1] + 10 <= Len(data) /\ AfterImage(data, x[1]) # 0
        BY <3>3
      <4>3. At(data, x[1]) # 33
        BY <4>2
      <4>6. x \in Place \ stop /\ x \notin ext
        BY <3>3, <4>3
      <4>1. f[x] = f[<<AfterImage(data, x[1]), 1>>]
        <5>1. nxt[x] = <<AfterImage(data, x[1]), 1>>
          <6> HIDE DEF ext, stop
          <6> QED
            BY <4>6
        <5> HIDE DEF nxt, stop
        <5> QED
          BY <1>5, <4>6, <5>1
      <4>4. Block(data, f, x[1], x[2]) <=> f[<<AfterImage(data, x[1]), 1>>]
        BY <4>2, <4>3, Zenon DEF Block
      <4>5. Block(data, f, x[1], x[2]) \in BOOLEAN
        BY Zenon DEF Block
      <4> QED
        BY <3>1, <4>1, <4>4, <4>5, Zenon
    <3>4. CASE x \notin ext /\ x \notin img
      <4>1. f[x] = val[x]
        BY <1>5, <3>4
      <4>2. Block(data, f, x[1], x[2]) = val[x]
        BY <3>4 DEF Block
      <4> QED
        BY <4>1, <4>2
    <3> QED
      BY <3>2, <3>3, <3>4
  <2>2. f = [x \in Place |-> f[x]]
    BY <1>4
  <2> QED
    BY <2>1, <2>2 DEF GIFWalk
<1> DEFINE walk == CHOOSE g : g = GIFWalk(data, g)
<1>7. walk = GIFWalk(data, walk)
  BY <1>6
<1>8. IsAnimatedGIF(data) <=> Len(data) >= 13 /\ walk[<<13 + ColourTable(At(data, 10)), 0>>]
  BY DEF IsAnimatedGIF, GIFWalk, Block, Place, AfterImage
<1> HIDE DEF walk
<1> QED
  BY <1>7, <1>8

LEMMA CutOffGIF ==
    ASSUME NEW d, NEW e, Beginning(d, e), IsAnimatedGIF(d)
    PROVE  IsAnimatedGIF(e)
<1>1. /\ d \in Seq(Byte) /\ e \in Seq(Byte) /\ Len(d) \in Nat /\ Len(e) \in Nat
      /\ Len(d) <= Len(e)
  BY DEF Beginning
<1>2. PICK f : /\ f = GIFWalk(d, f)
               /\ IsAnimatedGIF(d) <=>
                     Len(d) >= 13 /\ f[<<13 + ColourTable(At(d, 10)), 0>>]
  BY <1>1, GIFWalks
<1>3. PICK g : /\ g = GIFWalk(e, g)
               /\ IsAnimatedGIF(e) <=>
                     Len(e) >= 13 /\ g[<<13 + ColourTable(At(e, 10)), 0>>]
  BY <1>1, GIFWalks
<1> DEFINE Bad == {x \in Place : f[x] /\ ~g[x]}
           m == [x \in Place |-> x[1]]
<1>4. ASSUME NEW x \in Bad
      PROVE  m[x] \in Nat /\ m[x] < Len(d) /\ \E y \in Bad : m[y] > m[x]
  <2> DEFINE p == x[1]
             frames == x[2]
  <2>1. p \in Nat /\ frames \in 0 .. 1 /\ f[x] /\ ~g[x] /\ m[x] = p
    BY DEF Place
  <2>2. Block(d, f, p, frames) /\ ~Block(e, g, p, frames)
    BY <1>2, <1>3, <2>1 DEF GIFWalk
  <2>3. p < Len(d) /\ p < Len(e)
    <3>1. p < Len(d)
      BY <2>2 DEF Block
    <3> HIDE DEF p
    <3> QED
      BY <1>1, <2>1, <3>1
  <2>4. At(d, p) = At(e, p)
    BY <2>1, <2>3, SameByte
  <2> HIDE DEF p, frames
  <2>5. ASSUME NEW q \in Nat, q > p, NEW n \in 0 .. 1, f[<<q, n>>], ~g[<<q, n>>]
        PROVE  \E y \in Bad : m[y] > m[x]
    <3>1. <<q, n>> \in Place /\ <<q, n>>[1] = q
      BY DEF Place
    <3>2. m[<<q, n>>] = q /\ <<q, n>> \in Bad
      BY <2>5, <3>1
    <3> QED
      BY <2>1, <2>5, <3>2
  <2>6. CASE /\ At(d, p) = 33 /\ AfterSubBlocks(d, p + 2) # 0
             /\ f[<<AfterSubBlocks(d, p + 2), frames>>]
    <3> DEFINE q == AfterSubBlocks(d, p + 2)
    <3>1. p + 2 \in Nat
      BY <2>1
    <3>2. q \in Nat /\ q > p + 2
      BY <1>1, <2>6, <3>1, SkipsForward
    <3>3. AfterSubBlocks(e, p + 2) = q
      BY <2>6, <3>1, SkipsAlike
    <3>4. ~g[<<q, frames>>]
      BY <2>2, <2>3, <2>4, <2>6, <3>3, Zenon DEF Block
    <3>5. f[<<q, frames>>]
      BY <2>6
    <3> HIDE DEF q
    <3>6. q > p
      BY <2>1, <3>2
    <3>7. \E y \in Bad : m[y] > m[x]
      BY <2>1, <2>5, <3>2, <3>4, <3>5, <3>6
    <3> HIDE DEF Bad, m
    <3> QED
      BY <2>1, <2>3, <3>7
  <2>7. CASE At(d, p) = 44 /\ frames = 1
    BY <2>2, <2>3, <2>4, <2>7, Zenon DEF Block
  <2>8. CASE /\ At(d, p) = 44 /\ p + 10 <= Len(d) /\ AfterImage(d, p) # 0
             /\ f[<<AfterImage(d, p), 1>>]
    <3> DEFINE q == AfterImage(d, p)
    <3>1. q \in Nat /\ q > p
      BY <1>1, <2>1, <2>8, ImageData
    <3>2. AfterImage(e, p) = q
      <4>1. p + 9 \in Nat /\ p + 9 < Len(d)
        BY <1>1, <2>1, <2>8
      <4>2. At(d, p + 9) = At(e, p + 9)
        BY <4>1, SameByte
      <4>3. p + 10 + ColourTable(At(d, p + 9)) + 1 \in Nat
        BY <1>1, <2>1, <2>8, ImageData
      <4> QED
        BY <2>8, <4>2, <4>3, SkipsAlike DEF AfterImage
    <3>3. p + 10 <= Len(e)
      BY <1>1, <2>1, <2>8
    <3>4. ~g[<<q, 1>>]
      BY <2>2, <2>3, <2>4, <2>8, <3>2, <3>3, Zenon DEF Block
    <3>5. f[<<q, 1>>]
      BY <2>8
    <3> HIDE DEF q
    <3>6. \E y \in Bad : m[y] > m[x]
      <4>1. 1 \in 0 .. 1
        OBVIOUS
      <4> HIDE DEF Bad, m
      <4> QED
        BY <2>5, <3>1, <3>4, <3>5, <4>1
    <3> HIDE DEF Bad, m
    <3> QED
      BY <2>1, <2>3, <3>6
  <2> QED
    BY <2>2, <2>6, <2>7, <2>8, Zenon DEF Block
<1>5. Bad = {}
  <2> HIDE DEF Bad, m
  <2> QED
    BY <1>1, <1>4, NoEndlessWalk
<1>6. At(d, 10) = At(e, 10) /\ ColourTable(At(d, 10)) \in Nat /\ Len(d) >= 13
  <2>1. Len(d) >= 13 /\ 10 \in Nat /\ 10 < Len(d)
    BY <1>1, <1>2
  <2>2. At(d, 10) \in Byte
    BY <1>1, <2>1, Bytes
  <2> QED
    BY <2>1, <2>2, SameByte, ColourTables
<1>7. <<13 + ColourTable(At(d, 10)), 0>> \in Place
  BY <1>6 DEF Place
<1>8. f[<<13 + ColourTable(At(d, 10)), 0>>]
  BY <1>2
<1>9. g[<<13 + ColourTable(At(e, 10)), 0>>] /\ Len(e) >= 13
  <2> DEFINE start == <<13 + ColourTable(At(d, 10)), 0>>
  <2>1. start \in Place /\ f[start]
    BY <1>7, <1>8
  <2>2. start = <<13 + ColourTable(At(e, 10)), 0>>
    BY <1>6
  <2> HIDE DEF start
  <2>3. g[start]
    BY <2>1, <1>5, Zenon
  <2>4. Len(e) >= 13
    BY <1>1, <1>6
  <2> QED
    BY <2>2, <2>3, <2>4
<1> QED
  BY <1>3, <1>9

-----------------------------------------------------------------------------
\* A file that was cut off is not taken for an animation if the whole is none,
\* and is then of the same type.
LEMMA CutOff ==
    ASSUME NEW d, NEW e, Beginning(d, e), IsAnimated(d)
    PROVE  IsAnimated(e) /\ MagicType(d) = MagicType(e)
<1>1. \A p \in Nat : \A bytes \in Seq(Byte) : HasAt(d, p, bytes) => HasAt(e, p, bytes)
  <2> SUFFICES ASSUME NEW p \in Nat, NEW bytes \in Seq(Byte), HasAt(d, p, bytes)
               PROVE  HasAt(e, p, bytes)
    OBVIOUS
  <2>1. p + Len(bytes) <= Len(d)
    BY DEF HasAt
  <2> QED
    BY <2>1, SameBytes
<1>2. /\ HasAt(d, 0, PNGSignature) => HasAt(e, 0, PNGSignature)
      /\ HasAt(d, 0, GIF87a) => HasAt(e, 0, GIF87a)
      /\ HasAt(d, 0, GIF89a) => HasAt(e, 0, GIF89a)
      /\ HasAt(d, 0, RIFF) => HasAt(e, 0, RIFF)
      /\ HasAt(d, 8, WEBP) => HasAt(e, 8, WEBP)
  <2>1. 0 \in Nat /\ 8 \in Nat
    OBVIOUS
  <2> QED
    BY <1>1, <2>1, Names
<1>3. IsAnimated(e)
  BY <1>2, CutOffPNG, CutOffGIF, CutOffWebP DEF IsAnimated
<1>4. e \in Seq(Byte)
  BY DEF Beginning
<1>5. ASSUME NEW z, z \in Seq(Byte), HasAt(e, 0, z), Len(z) >= 1 PROVE z[1] = e[1]
  <2>1. 0 + Len(z) <= Len(e) /\ SubSeq(e, 0 + 1, 0 + Len(z)) = z
    BY <1>5 DEF HasAt
  <2>2. SubSeq(e, 1, Len(z)) = z /\ Len(z) \in Nat /\ Len(e) \in Nat
    BY <1>4, <2>1
  <2> QED
    BY <1>4, <1>5, <2>1, <2>2
<1>6. PNGSignature[1] = 137 /\ GIF87a[1] = 71 /\ GIF89a[1] = 71 /\ RIFF[1] = 82
  BY DEF PNGSignature, GIF87a, GIF89a, RIFF
<1>7. /\ HasAt(e, 0, PNGSignature) => e[1] = 137
      /\ HasAt(e, 0, GIF87a) \/ HasAt(e, 0, GIF89a) => e[1] = 71
      /\ HasAt(e, 0, RIFF) => e[1] = 82
  <2>1. /\ PNGSignature \in Seq(Byte) /\ Len(PNGSignature) >= 1
        /\ GIF87a \in Seq(Byte) /\ Len(GIF87a) >= 1
        /\ GIF89a \in Seq(Byte) /\ Len(GIF89a) >= 1
        /\ RIFF \in Seq(Byte) /\ Len(RIFF) >= 1
    BY Names
  <2>2. ASSUME HasAt(e, 0, PNGSignature) PROVE e[1] = 137
    BY <1>5, <1>6, <2>1, <2>2
  <2>3. ASSUME HasAt(e, 0, GIF87a) PROVE e[1] = 71
    BY <1>5, <1>6, <2>1, <2>3
  <2>4. ASSUME HasAt(e, 0, GIF89a) PROVE e[1] = 71
    BY <1>5, <1>6, <2>1, <2>4
  <2>5. ASSUME HasAt(e, 0, RIFF) PROVE e[1] = 82
    BY <1>5, <1>6, <2>1, <2>5
  <2> QED
    BY <2>2, <2>3, <2>4, <2>5
<1>9. /\ ~(HasAt(e, 0, PNGSignature) /\ (HasAt(e, 0, GIF87a) \/ HasAt(e, 0, GIF89a)))
      /\ ~(HasAt(e, 0, PNGSignature) /\ HasAt(e, 0, RIFF))
      /\ ~(HasAt(e, 0, RIFF) /\ (HasAt(e, 0, GIF87a) \/ HasAt(e, 0, GIF89a)))
  BY <1>7
<1>8. MagicType(d) = MagicType(e)
  <2>1. CASE HasAt(d, 0, PNGSignature)
    BY <1>2, <2>1 DEF MagicType
  <2>2. CASE HasAt(d, 0, GIF87a) \/ HasAt(d, 0, GIF89a)
    BY <1>2, <1>9, <2>2 DEF MagicType
  <2>3. CASE HasAt(d, 0, RIFF) /\ HasAt(d, 8, WEBP)
    BY <1>2, <1>9, <2>3 DEF MagicType
  <2> QED
    BY <2>1, <2>2, <2>3 DEF IsAnimated
<1> QED
  BY <1>3, <1>8

-----------------------------------------------------------------------------
(* Variants and keys.                                                      *)

Variant == {"raw", "emoji", "avatar", "preview", "badge", "static", "ogp"}

\* Every query has one of the seven variants.
LEMMA Variants ==
    ASSUME NEW q \in Query
    PROVE  ParseVariant(q) \in Variant
<1> DEFINE won(i) == Priority[i] \in q.params /\ \A j \in 1 .. i - 1 : Priority[j] \notin q.params
<1>1. DOMAIN Priority = 1 .. 6
  BY DEF Priority
<1>2. \A i \in 1 .. 6 : Priority[i] \in Variant
  BY DEF Priority, Variant
<1>3. q.params \subseteq Param
  BY DEF Query
<1>4. ASSUME q.params # {} PROVE \E i \in 1 .. 6 : won(i)
  <2>1. CASE "emoji" \in q.params
    <3>1. won(1)
      BY <2>1 DEF Priority
    <3> QED
      BY <3>1
  <2>2. CASE "avatar" \in q.params /\ "emoji" \notin q.params
    <3>1. won(2)
      BY <2>2 DEF Priority
    <3> QED
      BY <3>1
  <2>3. CASE "preview" \in q.params /\ q.params \cap {"emoji", "avatar"} = {}
    <3>1. won(3)
      BY <2>3 DEF Priority
    <3> QED
      BY <3>1
  <2>4. CASE "badge" \in q.params /\ q.params \cap {"emoji", "avatar", "preview"} = {}
    <3>1. won(4)
      BY <2>4 DEF Priority
    <3> QED
      BY <3>1
  <2>5. CASE /\ "static" \in q.params
             /\ q.params \cap {"emoji", "avatar", "preview", "badge"} = {}
    <3>1. won(5)
      BY <2>5 DEF Priority
    <3> QED
      BY <3>1
  <2>6. CASE /\ "ogp" \in q.params
             /\ q.params \cap {"emoji", "avatar", "preview", "badge", "static"} = {}
    <3>1. won(6)
      BY <2>6 DEF Priority
    <3> QED
      BY <3>1
  <2> QED
    BY <1>3, <1>4, <2>1, <2>2, <2>3, <2>4, <2>5, <2>6 DEF Param
<1>5. q.params = {} => ParseVariant(q) = "raw"
  BY DEF ParseVariant
<1>6. ASSUME q.params # {}
      PROVE  ParseVariant(q) = Priority[CHOOSE i \in DOMAIN Priority : won(i)]
  BY <1>6 DEF ParseVariant
<1> HIDE DEF won
<1> QED
  BY <1>1, <1>2, <1>4, <1>5, <1>6 DEF Variant

Formats == {"webp", "avif"}
LabelOf(q) == CacheString(ParseVariant(q), NoAnim(q))

LEMMA Nine ==
    Labels = {"raw", "emoji", "avatar", "preview", "badge", "static", "ogp",
              "emoji-static", "avatar-static"}
<1>1. CacheString("emoji", TRUE) = "emoji-static" /\ CacheString("avatar", TRUE) = "avatar-static"
  BY DEF CacheString, KeepsAnimation, StaticLabel
<1>2. AllCacheStrings =
        <<"raw", "emoji", "avatar", "preview", "badge", "static", "ogp", "emoji-static", "avatar-static">>
  BY <1>1 DEF AllCacheStrings
<1> QED
  BY <1>2 DEF Labels

LEMMA KeyParts ==
    ASSUME NEW q \in Query
    PROVE  Key(q) = <<LabelOf(q), Format(q)>> /\ LabelOf(q) \in Labels /\ Format(q) \in Formats
<1>1. ParseVariant(q) \in Variant
  BY Variants
<1>2. LabelOf(q) \in Labels
  <2>1. CASE ~(NoAnim(q) /\ KeepsAnimation(ParseVariant(q)))
    BY <1>1, <2>1, Nine DEF LabelOf, CacheString, Variant
  <2>2. CASE NoAnim(q) /\ KeepsAnimation(ParseVariant(q))
    BY <1>1, <2>2, Nine DEF LabelOf, CacheString, StaticLabel, KeepsAnimation
  <2> QED
    BY <2>1, <2>2
<1> QED
  BY <1>2 DEF Key, LabelOf, Format, Formats

\* A key tells the variant, the format and, where it matters, the still.
LEMMA KeyTells ==
    ASSUME NEW p \in Query, NEW q \in Query, Key(p) = Key(q)
    PROVE  /\ ParseVariant(p) = ParseVariant(q)
           /\ Format(p) = Format(q)
           /\ KeepsAnimation(ParseVariant(q)) => (NoAnim(p) <=> NoAnim(q))
<1>1. ParseVariant(p) \in Variant /\ ParseVariant(q) \in Variant
  BY Variants
<1>2. LabelOf(p) = LabelOf(q) /\ Format(p) = Format(q)
  BY KeyParts
<1> QED
  BY <1>1, <1>2 DEF Variant, LabelOf, CacheString, StaticLabel, KeepsAnimation

-----------------------------------------------------------------------------
LEMMA Products ==
    ASSUME NEW a \in Nat, NEW b \in Nat, NEW c \in Nat
    PROVE  /\ a * c \in Nat /\ a * c = c * a
           /\ a <= b => a * c <= b * c
           /\ a < b /\ c > 0 => a * c < b * c
<1>1. a * c \in Nat /\ a * c = c * a
  BY SMT
<1>2. a <= b => a * c <= b * c
  <2> SUFFICES ASSUME a <= b PROVE a * c <= b * c
    OBVIOUS
  <2>1. b - a \in Nat
    BY SMT
  <2>2. (b - a) * c \in Nat
    BY <2>1, SMT
  <2>3. (b - a) * c = b * c - a * c
    BY SMT
  <2> QED
    BY <2>2, <2>3, SMT
<1>3. a < b /\ c > 0 => a * c < b * c
  <2> SUFFICES ASSUME a < b, c > 0 PROVE a * c < b * c
    OBVIOUS
  <2>1. b - a - 1 \in Nat
    BY SMT
  <2>2. (b - a - 1) * c \in Nat
    BY <2>1, SMT
  <2>3. (b - a - 1) * c = b * c - a * c - c
    BY SMT
  <2> QED
    BY <2>2, <2>3, SMT
<1> QED
  BY <1>1, <1>2, <1>3

LEMMA Division ==
    ASSUME NEW a \in Nat, NEW d \in Nat \ {0}
    PROVE  /\ a \div d \in Nat
           /\ d * (a \div d) <= a
           /\ a < d * (a \div d) + d
  BY SMT

LEMMA Quotient ==
    ASSUME NEW a \in Nat, NEW c \in Nat, NEW d \in Nat \ {0}, a <= c * d
    PROVE  /\ a \div d \in Nat
           /\ a \div d <= c
           /\ a = c * d => a \div d = c
<1> DEFINE q == a \div d
<1>1. q \in Nat /\ d * q <= a /\ a < d * q + d
  BY Division
<1> HIDE DEF q
<1>2. q * d \in Nat /\ q * d = d * q /\ c * d \in Nat /\ (q + 1) * d = d * q + d
  BY <1>1, SMT
<1>3. q <= c
  <2> SUFFICES ASSUME c < q PROVE FALSE
    BY <1>1
  <2>1. c + 1 \in Nat /\ c + 1 <= q
    BY <1>1
  <2>2. (c + 1) * d <= q * d
    BY <1>1, <2>1, Products
  <2>3. (c + 1) * d = c * d + d
    BY SMT
  <2> QED
    BY <1>1, <1>2, <2>2, <2>3
<1>4. a = c * d => q = c
  <2> SUFFICES ASSUME a = c * d, q < c PROVE FALSE
    BY <1>1, <1>3
  <2>1. q + 1 \in Nat /\ q + 1 <= c
    BY <1>1
  <2>2. (q + 1) * d <= c * d
    BY <1>1, <2>1, Products
  <2> QED
    BY <1>1, <1>2, <2>2
<1> QED
  BY <1>1, <1>3, <1>4 DEF q

Fits(d, w, h, maxW, maxH) ==
    /\ d[1] \in 1 .. maxW /\ d[2] \in 1 .. maxH
    /\ d[1] <= w /\ d[2] <= h
    /\ \/ d[1] = w /\ d[2] = h
       \/ d[1] >= maxW - 1 \/ d[2] >= maxH - 1

\* A length scaled by a ratio of at most one.
LEMMA ScaledDown ==
    ASSUME NEW n \in Nat \ {0}, NEW num \in Nat \ {0}, NEW den \in Nat \ {0}, num <= den,
           NEW c \in Nat \ {0}, n * num <= c * den, NEW x \in Scaled(n, num, den)
    PROVE  /\ Max1(x) \in 1 .. c /\ Max1(x) <= n
           /\ n = den => Max1(x) >= num - 1
<1> DEFINE q == (n * num) \div den
<1>1. n * num \in Nat /\ num * n \in Nat /\ n * num = num * n
  BY SMT
<1>2. q \in Nat /\ q <= c
  BY <1>1, Quotient
<1>3. n * num <= n * den
  BY Products, SMT
<1>4. q <= n
  BY <1>1, <1>3, Quotient
<1>5. n = den => q = num
  BY <1>1, Quotient
<1>6. x = q \/ (x = q - 1 /\ x \in Nat)
  BY DEF Scaled
<1> HIDE DEF q
<1> QED
  BY <1>2, <1>4, <1>5, <1>6 DEF Max1


LEMMA Boxed ==
    ASSUME NEW w \in Nat \ {0}, NEW h \in Nat \ {0}, NEW maxW \in Nat \ {0}, NEW maxH \in Nat \ {0},
           NEW d \in FitDimensions(w, h, maxW, maxH)
    PROVE  Fits(d, w, h, maxW, maxH)
<1>1. CASE w <= maxW /\ h <= maxH
  BY <1>1 DEF FitDimensions, Fits
<1>2. CASE ~(w <= maxW /\ h <= maxH) /\ maxH * w < maxW * h
  <2>1. PICK x \in Scaled(w, maxH, h), y \in Scaled(h, maxH, h) : d = <<Max1(x), Max1(y)>>
    BY <1>2 DEF FitDimensions
  <2>2. maxH <= h
    <3> SUFFICES ASSUME h < maxH, maxW < w PROVE FALSE
      BY <1>2
    <3>1. h * maxW <= maxH * maxW
      BY Products, SMT
    <3>2. maxW * maxH <= w * maxH
      BY Products, SMT
    <3>3. /\ h * maxW = maxW * h /\ maxH * maxW = maxW * maxH /\ w * maxH = maxH * w
          /\ maxW * h \in Nat /\ maxW * maxH \in Nat /\ maxH * w \in Nat
      BY SMT
    <3> QED
      BY <1>2, <3>1, <3>2, <3>3
  <2>3. w * maxH <= maxW * h /\ h * maxH <= maxH * h
    <3>1. /\ w * maxH = maxH * w /\ maxH * w \in Nat /\ maxW * h \in Nat
          /\ h * maxH = maxH * h /\ h * maxH \in Nat
      BY SMT
    <3> QED
      BY <1>2, <3>1
  <2>4. Max1(x) \in 1 .. maxW /\ Max1(x) <= w
    BY <2>1, <2>2, <2>3, ScaledDown
  <2>5. Max1(y) \in 1 .. maxH /\ Max1(y) <= h /\ Max1(y) >= maxH - 1
    BY <2>1, <2>2, <2>3, ScaledDown
  <2>6. d[1] = Max1(x) /\ d[2] = Max1(y)
    BY <2>1
  <2> QED
    BY <2>4, <2>5, <2>6 DEF Fits
<1>3. CASE ~(w <= maxW /\ h <= maxH) /\ ~(maxH * w < maxW * h)
  <2>1. PICK x \in Scaled(w, maxW, w), y \in Scaled(h, maxW, w) : d = <<Max1(x), Max1(y)>>
    BY <1>3 DEF FitDimensions
  <2>0. maxW * h <= maxH * w
    <3>1. maxW * h \in Nat /\ maxH * w \in Nat
      BY SMT
    <3> QED
      BY <1>3, <3>1
  <2>2. maxW <= w
    <3> SUFFICES ASSUME w < maxW, maxH < h PROVE FALSE
      BY <1>3
    <3>1. w * h < maxW * h
      BY Products, SMT
    <3>2. maxH * w <= h * w
      BY Products, SMT
    <3>3. h * w = w * h /\ maxW * h \in Nat /\ maxH * w \in Nat /\ w * h \in Nat
      BY SMT
    <3> QED
      BY <2>0, <3>1, <3>2, <3>3
  <2>3. w * maxW <= maxW * w /\ h * maxW <= maxH * w
    <3>1. /\ w * maxW = maxW * w /\ w * maxW \in Nat
          /\ h * maxW = maxW * h /\ maxW * h \in Nat
      BY SMT
    <3> QED
      BY <2>0, <3>1
  <2>4. Max1(x) \in 1 .. maxW /\ Max1(x) <= w /\ Max1(x) >= maxW - 1
    BY <2>1, <2>2, <2>3, ScaledDown
  <2>5. Max1(y) \in 1 .. maxH /\ Max1(y) <= h
    BY <2>1, <2>2, <2>3, ScaledDown
  <2>6. d[1] = Max1(x) /\ d[2] = Max1(y)
    BY <2>1
  <2> QED
    BY <2>4, <2>5, <2>6 DEF Fits
<1> QED
  BY <1>1, <1>2, <1>3

-----------------------------------------------------------------------------
Results(im, type, q) ==
    IF ParseVariant(q) = "raw" THEN {Original(im, type)}
    ELSE Conversions(im, ParseVariant(q), Format(q), NoAnim(q))

LEMMA SameResults ==
    ASSUME NEW p \in Query, NEW q \in Query, Key(p) = Key(q), NEW im, NEW type
    PROVE  Results(im, type, p) = Results(im, type, q)
<1>1. /\ ParseVariant(p) = ParseVariant(q) /\ Format(p) = Format(q)
      /\ KeepsAnimation(ParseVariant(q)) => (NoAnim(p) <=> NoAnim(q))
  BY KeyTells
<1>2. ParseVariant(q) \in Variant
  BY Variants
<1>3. CASE KeepsAnimation(ParseVariant(q))
  <2>1. NoAnim(p) = NoAnim(q)
    BY <1>1, <1>3 DEF NoAnim
  <2> QED
    BY <1>1, <2>1 DEF Results
<1>4. CASE ~KeepsAnimation(ParseVariant(q))
  BY <1>1, <1>2, <1>4 DEF Results, Conversions, KeepsAnimation, Variant
<1> QED
  BY <1>3, <1>4

IsMedia(a) == a \notin {NoAnswer, NoRendition, Unconverted}

\* What a fetch for the query may return.
Got(a, im, type, q) ==
    /\ a \in Results(im, type, q) \cup {NoRendition, Unconverted}
    /\ a # NoRendition /\ ~q.debug => type \in AllowedType
    /\ a = Unconverted => ParseVariant(q) # "raw"

\* Whoever has the key may have it.
LEMMA Shared ==
    ASSUME NEW p \in Query, NEW q \in Query, Key(p) = Key(q), ~p.debug, ~q.debug,
           NEW im, NEW type, NEW a, Got(a, im, type, p)
    PROVE  Got(a, im, type, q)
<1>1. Results(im, type, p) = Results(im, type, q)
  BY SameResults
<1>2. ParseVariant(p) = ParseVariant(q)
  BY KeyTells
<1> QED
  BY <1>1, <1>2 DEF Got

\* What Convert promises of an answer with media.
Serves(a, im, q) ==
    LET v == ParseVariant(q)
        size == <<a.width, a.height>>
    IN  /\ a.original => v = "raw" \/ (v \in {"emoji", "avatar"} /\ "static" \notin q.params)
        /\ v = "raw" => a.original
        /\ ~a.original /\ v \in DOMAIN Box =>
              Fits(size, im.width, im.height, Box[v][1], Box[v][2])
        /\ v = "badge" => <<a.type, a.width, a.height>> = <<"image/png", 96, 96>>
        /\ v = "static" => size = <<im.width, im.height>>
        /\ ~a.original /\ v # "badge" => a.type = OutputType(Format(q))
        /\ v \in {"emoji", "avatar"} =>
              /\ a.original <=> KeepAnimation(im, NoAnim(q))
              /\ a.original => a.type = MagicType(im.data)

LEMMA Stills ==
    ASSUME NEW im \in Image, NEW type \in MediaType, NEW maxW \in Nat \ {0}, NEW maxH \in Nat \ {0},
           NEW a \in Fitted(im, type, maxW, maxH)
    PROVE  /\ a \in Rendition /\ IsMedia(a)
           /\ ~a.original /\ a.type = type
           /\ Fits(<<a.width, a.height>>, im.width, im.height, maxW, maxH)
<1>1. im.width \in Nat \ {0} /\ im.height \in Nat \ {0}
  BY DEF Image
<1>2. PICK d \in FitDimensions(im.width, im.height, maxW, maxH) : a = Still(type, d[1], d[2])
  BY DEF Fitted
<1>3. Fits(d, im.width, im.height, maxW, maxH)
  BY <1>1, Boxed
<1>4. Fits(<<d[1], d[2]>>, im.width, im.height, maxW, maxH)
  BY <1>3 DEF Fits
<1>5. d[1] \in Nat \ {0} /\ d[2] \in Nat \ {0}
  BY <1>3 DEF Fits
<1>6. /\ a.width = d[1] /\ a.height = d[2] /\ a.type = type /\ a.original = FALSE
      /\ a \in Rendition
  BY <1>2, <1>5 DEF Still, Rendition
<1>7. NoAnswer.width = 0 /\ NoRendition.width = 0 /\ Unconverted.width = 0
  BY DEF NoAnswer, NoRendition, Unconverted
<1> QED
  BY <1>4, <1>5, <1>6, <1>7 DEF IsMedia

LEMMA Originals ==
    ASSUME NEW im \in Image, NEW type \in MediaType
    PROVE  /\ Original(im, type) \in Rendition /\ IsMedia(Original(im, type))
           /\ Original(im, type).original = TRUE /\ Original(im, type).type = type
<1>1. NoAnswer.width = 0 /\ NoRendition.width = 0 /\ Unconverted.width = 0
  BY DEF NoAnswer, NoRendition, Unconverted
<1>2. /\ Original(im, type).original = TRUE /\ Original(im, type).type = type
      /\ Original(im, type).width # 0
  BY DEF Original, Image
<1>3. Original(im, type) \in Rendition
  BY DEF Original, Rendition, Image
<1> QED
  BY <1>1, <1>2, <1>3 DEF IsMedia

LEMMA ByVariant ==
    ASSUME NEW im, NEW f, NEW noAnim
    PROVE  /\ Conversions(im, "badge", f, noAnim) = {NoRendition, Still("image/png", 96, 96)}
           /\ Conversions(im, "emoji", f, noAnim) =
                 {NoRendition} \cup KeptOrFitted(im, f, noAnim, 128)
           /\ Conversions(im, "avatar", f, noAnim) =
                 {NoRendition} \cup KeptOrFitted(im, f, noAnim, 320)
           /\ Conversions(im, "preview", f, noAnim) =
                 {NoRendition} \cup Fitted(im, OutputType(f), 200, 200)
           /\ Conversions(im, "static", f, noAnim) =
                 {NoRendition, Still("image/webp", im.width, im.height)}
           /\ Conversions(im, "ogp", f, noAnim) =
                 {NoRendition} \cup Fitted(im, "image/webp", 1200, 4096)
<1>1. Conversions(im, "badge", f, noAnim) = {NoRendition, Still("image/png", 96, 96)}
  BY DEF Conversions
<1>2. Conversions(im, "emoji", f, noAnim) = {NoRendition} \cup KeptOrFitted(im, f, noAnim, 128)
  BY DEF Conversions
<1>3. Conversions(im, "avatar", f, noAnim) = {NoRendition} \cup KeptOrFitted(im, f, noAnim, 320)
  BY DEF Conversions
<1>4. Conversions(im, "preview", f, noAnim) =
        {NoRendition} \cup Fitted(im, OutputType(f), 200, 200)
  BY DEF Conversions
<1>5. Conversions(im, "static", f, noAnim) =
        {NoRendition, Still("image/webp", im.width, im.height)}
  BY DEF Conversions
<1>6. Conversions(im, "ogp", f, noAnim) =
        {NoRendition} \cup Fitted(im, "image/webp", 1200, 4096)
  BY DEF Conversions
<1> QED
  BY <1>1, <1>2, <1>3, <1>4, <1>5, <1>6

LEMMA Constants ==
    /\ NoAnswer \in Rendition /\ NoRendition \in Rendition
    /\ Unconverted \in Rendition
    /\ NoAnswer # NoRendition /\ NoAnswer # Unconverted /\ NoRendition # Unconverted
    /\ ~IsMedia(NoAnswer) /\ ~IsMedia(NoRendition) /\ ~IsMedia(Unconverted)
<1>1. NoRendition \in Rendition
  BY DEF Rendition, NoRendition, MediaType
<1>3. NoAnswer.type = "none" /\ NoRendition.type = "error" /\ NoAnswer \in Rendition
  BY DEF NoAnswer, NoRendition, Rendition, MediaType
<1>4. Unconverted \in Rendition /\ Unconverted.type = "error" /\ Unconverted.original = TRUE
  BY <1>1 DEF Unconverted, NoRendition, Rendition
<1>5. NoRendition.original = FALSE
  BY DEF NoRendition
<1> QED
  BY <1>1, <1>3, <1>4, <1>5 DEF IsMedia

\* A conversion or an original serves its query.
LEMMA Served ==
    ASSUME NEW im \in Image, NEW type \in MediaType, NEW q \in Query,
           NEW a \in Results(im, type, q), a # NoRendition
    PROVE  a \in Rendition /\ IsMedia(a) /\ Serves(a, im, q)
<1> DEFINE v == ParseVariant(q)
           f == Format(q)
<1>1. v \in Variant
  BY Variants
<1>2. im.width \in Nat \ {0} /\ im.height \in Nat \ {0} /\ im.data \in Seq(Byte)
  BY DEF Image
<1>3. OutputType(f) \in MediaType /\ "image/png" \in MediaType /\ "image/webp" \in MediaType
  BY DEF OutputType, MediaType, AllowedType
<1>20. IsAnimated(im.data) => MagicType(im.data) \in MediaType
  BY DEF IsAnimated, MagicType, MediaType, AllowedType
<1>4. ASSUME NEW box \in {128, 320}, a \in KeptOrFitted(im, f, NoAnim(q), box),
             v \in {"emoji", "avatar"}, Box[v] = <<box, box>>
      PROVE  a \in Rendition /\ IsMedia(a) /\ Serves(a, im, q)
  <2>1. CASE KeepAnimation(im, NoAnim(q))
    <3>1. a = Original(im, MagicType(im.data))
      BY <1>4, <2>1 DEF KeptOrFitted
    <3>4. MagicType(im.data) \in MediaType
      BY <1>20, <2>1 DEF KeepAnimation
    <3>2. a \in Rendition /\ IsMedia(a) /\ a.original = TRUE /\ a.type = MagicType(im.data)
      <4>1. a \in Rendition /\ IsMedia(a)
        BY <3>1, <3>4, Originals, Zenon
      <4>2. a.original = TRUE /\ a.type = MagicType(im.data)
        BY <3>1 DEF Original
      <4> QED
        BY <4>1, <4>2
    <3>3. "static" \notin q.params
      BY <2>1 DEF KeepAnimation, NoAnim
    <3> QED
      BY <1>4, <2>1, <3>2, <3>3 DEF Serves
  <2>2. CASE ~KeepAnimation(im, NoAnim(q))
    <3>1. a \in Fitted(im, OutputType(f), box, box)
      BY <1>4, <2>2 DEF KeptOrFitted
    <3>2. box \in Nat \ {0}
      BY <1>4
    <3>3. /\ a \in Rendition /\ IsMedia(a) /\ ~a.original /\ a.type = OutputType(f)
          /\ Fits(<<a.width, a.height>>, im.width, im.height, box, box)
      BY <1>3, <3>1, <3>2, Stills
    <3>4. Box[v][1] = box /\ Box[v][2] = box
      BY <1>4
    <3> QED
      BY <1>4, <2>2, <3>3, <3>4 DEF Serves
  <2> QED
    BY <2>1, <2>2
<1>5. ASSUME NEW t \in MediaType, NEW x \in Nat \ {0}, NEW y \in Nat \ {0}, a \in Fitted(im, t, x, y),
             v \in {"preview", "ogp"}, Box[v] = <<x, y>>, t = OutputType(f)
      PROVE  a \in Rendition /\ IsMedia(a) /\ Serves(a, im, q)
  <2>1. /\ a \in Rendition /\ IsMedia(a) /\ ~a.original /\ a.type = t
        /\ Fits(<<a.width, a.height>>, im.width, im.height, x, y)
    BY <1>5, Stills
  <2>2. Box[v][1] = x /\ Box[v][2] = y
    BY <1>5
  <2> QED
    BY <1>5, <2>1, <2>2 DEF Serves
<1>6. ASSUME NEW t \in MediaType, NEW x \in Nat \ {0}, NEW y \in Nat \ {0}, a = Still(t, x, y),
             v \in {"badge", "static"},
             v = "badge" => <<t, x, y>> = <<"image/png", 96, 96>>,
             v = "static" => t = OutputType(f) /\ x = im.width /\ y = im.height
      PROVE  a \in Rendition /\ IsMedia(a) /\ Serves(a, im, q)
  <2>1. /\ a \in Rendition /\ a.type = t /\ a.width = x /\ a.height = y /\ a.original = FALSE
    BY <1>6 DEF Still, Rendition
  <2>2. NoAnswer.width = 0 /\ NoRendition.width = 0 /\ Unconverted.width = 0
    BY DEF NoAnswer, NoRendition, Unconverted
  <2>3. IsMedia(a)
    BY <2>1, <2>2 DEF IsMedia
  <2> QED
    BY <1>6, <2>1, <2>3 DEF Serves, Box
<1>7. CASE v = "raw"
  <2>1. a = Original(im, type)
    BY <1>7 DEF Results
  <2>2. a \in Rendition /\ IsMedia(a) /\ a.original = TRUE
    BY <2>1, Originals
  <2> QED
    BY <1>7, <2>2 DEF Serves
<1>8. v # "raw" => a \in Conversions(im, v, f, NoAnim(q))
  BY DEF Results
<1>9. v \in {"badge", "static", "ogp"} => f = "webp"
  BY DEF Format, SupportsAVIF
<1>10. OutputType("webp") = "image/webp"
  BY DEF OutputType
<1>11. /\ Box["emoji"] = <<128, 128>> /\ Box["avatar"] = <<320, 320>>
       /\ Box["preview"] = <<200, 200>> /\ Box["ogp"] = <<1200, 4096>>
  BY DEF Box
<1>12. CASE v = "emoji"
  <2>1. a \in KeptOrFitted(im, f, NoAnim(q), 128)
    BY <1>8, <1>12, ByVariant
  <2> QED
    BY <1>4, <1>11, <1>12, <2>1
<1>13. CASE v = "avatar"
  <2>1. a \in KeptOrFitted(im, f, NoAnim(q), 320)
    BY <1>8, <1>13, ByVariant
  <2> QED
    BY <1>4, <1>11, <1>13, <2>1
<1>14. CASE v = "preview"
  <2>1. a \in Fitted(im, OutputType(f), 200, 200)
    BY <1>8, <1>14, ByVariant
  <2> QED
    BY <1>3, <1>5, <1>11, <1>14, <2>1
<1>15. CASE v = "ogp"
  <2>1. a \in Fitted(im, "image/webp", 1200, 4096)
    BY <1>8, <1>15, ByVariant
  <2> QED
    BY <1>3, <1>5, <1>9, <1>10, <1>11, <1>15, <2>1
<1>16. CASE v = "badge"
  <2>1. a = Still("image/png", 96, 96)
    BY <1>8, <1>16, ByVariant
  <2> QED
    BY <1>3, <1>6, <1>16, <2>1
<1>17. CASE v = "static"
  <2>1. a = Still("image/webp", im.width, im.height)
    BY <1>8, <1>17, ByVariant
  <2> QED
    BY <1>2, <1>3, <1>6, <1>9, <1>10, <1>17, <2>1
<1> QED
  BY <1>1, <1>7, <1>12, <1>13, <1>14, <1>15, <1>16, <1>17 DEF Variant

-----------------------------------------------------------------------------
Converting == {r \in Client : fetch[r] = "converting"}
SlotsCounted == IsFiniteSet(Converting) /\ slots = Cardinality(Converting)

\* What a request holds was made of the image, by its own fetch or by one for
\* the same key, and is media unless the request is for debugging; or it is
\* the image, for want of a conversion.
Traced(r) ==
    /\ answer[r] # NoAnswer /\ pc[r] # "degraded" => Got(answer[r], image, OriginType, query[r])
    /\ pc[r] = "degraded" => /\ r \in fallback /\ answer[r] = Original(image, OriginType)
                             /\ Got(Unconverted, image, OriginType, query[r])
    /\ pc[r] \in {"join", "wait"} => ~query[r].debug
    /\ r \in pending => pc[r] = "answered" /\ IsMedia(answer[r]) /\ ~query[r].debug
    /\ fetch[r] \in {"slot", "converting"} => Got(Unconverted, image, OriginType, query[r])
    /\ pc[r] \in {"new", "join"} => fetch[r] = "none"
    /\ pc[r] = "answered" => answer[r] \notin {NoAnswer, Unconverted}

\* What L1 holds was made of it too, under whatever key it is found.
Kept ==
    \A q \in Query : stored[Key(q)] # NoAnswer =>
        /\ IsMedia(stored[Key(q)])
        /\ stored[Key(q)] \in Results(image, OriginType, q)
        /\ OriginType \in AllowedType

\* A key that is still to be purged may hold an older entry.
ToDo == {todo[i] : i \in DOMAIN todo}
PurgeTracked ==
    \A k \in Keys : Purged(k) /\ stored[k] # NoAnswer => k \in late \cup skipped \cup ToDo

IInv ==
    /\ TypeOK
    /\ SlotsCounted
    /\ \A r \in Client : Traced(r)
    /\ Kept
    /\ PurgeTracked

-----------------------------------------------------------------------------
LEMMA OriginTyped ==
    ASSUME source \in DOMAIN Images
    PROVE  image \in Image /\ OriginType \in MediaType
<1>1. image \in Image
  BY RenditionsAssumption DEF image
<1>2. image.declared \in MediaType
  BY DEF image, MediaType
<1>3. DetectContentType(image.data) # "" => DetectContentType(image.data) \in MediaType
  BY DEF DetectContentType, IsobmffContentType, MagicType, MediaType, AllowedType
<1> QED
  BY <1>1, <1>2, <1>3 DEF OriginType

LEMMA InputsStay ==
    ASSUME inputs' = inputs
    PROVE  /\ source' = source /\ query' = query /\ purge' = purge /\ fallback' = fallback
           /\ Client' = Client /\ image' = image /\ OriginType' = OriginType
<1>1. source' = source /\ query' = query /\ purge' = purge /\ fallback' = fallback
  BY DEF inputs
<1>2. image' = image
  BY <1>1 DEF image
<1>3. OriginType' = OriginType
  BY <1>2 DEF OriginType
<1> QED
  BY <1>1, <1>2, <1>3 DEF Client

\* The answer to what a request has got.
LEMMA Responded ==
    ASSUME IInv, NEW r \in Client, NEW a, a # NoAnswer, Respond(r, a), inputs' = inputs,
           Got(a, image, OriginType, query[r]), r \notin pending',
           fetch'[r] \in {"none", "fetching", "slot", "converting", "done"},
           fetch'[r] \in {"slot", "converting"} => fetch'[r] = fetch[r]
    PROVE  /\ pc' \in [Client -> Stage] /\ answer' \in [Client -> Rendition]
           /\ \A s \in Client : s # r => pc'[s] = pc[s] /\ answer'[s] = answer[s]
           /\ Traced(r)'
<1>1. /\ query \in [Client -> Query] /\ source \in DOMAIN Images
      /\ answer \in [Client -> Rendition] /\ pc \in [Client -> Stage] /\ Traced(r)
  BY DEF IInv, TypeOK
<1>2. /\ source' = source /\ query' = query /\ fallback' = fallback
      /\ Client' = Client /\ image' = image /\ OriginType' = OriginType
  BY InputsStay
<1>3. image \in Image /\ OriginType \in MediaType
  BY <1>1, OriginTyped
<1>4. fetch'[r] \in {"slot", "converting"} => Got(Unconverted, image, OriginType, query[r])
  BY <1>1 DEF Traced
<1>5. CASE a = Unconverted /\ r \in fallback
  <2>1. /\ pc' = [pc EXCEPT ![r] = "degraded"]
        /\ answer' = [answer EXCEPT ![r] = Original(image, OriginType)]
    BY <1>5 DEF Respond
  <2>2. Original(image, OriginType) \in Rendition
    BY <1>3, Originals
  <2>3. pc'[r] = "degraded" /\ answer'[r] = Original(image, OriginType)
    BY <1>1, <2>1
  <2>4. Traced(r)'
    BY <1>2, <1>4, <1>5, <2>3 DEF Traced
  <2> QED
    BY <1>1, <2>1, <2>2, <2>4 DEF Stage
<1>6. CASE ~(a = Unconverted /\ r \in fallback)
  <2> DEFINE sent == IF a = Unconverted THEN NoRendition ELSE a
  <2>1. pc' = [pc EXCEPT ![r] = "answered"] /\ answer' = [answer EXCEPT ![r] = sent]
    BY <1>6 DEF Respond
  <2>2. sent \notin {NoAnswer, Unconverted} /\ Got(sent, image, OriginType, query[r])
    BY Constants DEF Got
  <2>3. sent \in Rendition
    <3>1. CASE sent = NoRendition
      BY <3>1, Constants
    <3>2. CASE sent # NoRendition
      BY <1>1, <1>3, <2>2, <3>2, Served DEF Got
    <3> QED
      BY <3>1, <3>2
  <2> HIDE DEF sent
  <2>4. pc'[r] = "answered" /\ answer'[r] = sent
    BY <1>1, <2>1
  <2>5. Traced(r)'
    BY <1>2, <1>4, <2>2, <2>4 DEF Traced
  <2> QED
    BY <1>1, <2>1, <2>3, <2>5 DEF Stage
<1> QED
  BY <1>5, <1>6

\* One fetch ends: its request, or all that wait for its key, have the result.
LEMMA Returned ==
    ASSUME IInv, NEW r \in Client, NEW result, Got(result, image, OriginType, query[r]),
           Return(r, result), fetch[r] \in {"fetching", "slot", "converting"}
    PROVE  /\ inputs' = inputs /\ UNCHANGED <<gone, pending, stored, purgeVars>>
           /\ pc' \in [Client -> Stage]
           /\ fetch' = [fetch EXCEPT ![r] = "done"]
           /\ answer' \in [Client -> Rendition]
           /\ \A s \in Client : Traced(s)'
<1>1. /\ query \in [Client -> Query] /\ source \in DOMAIN Images
      /\ answer \in [Client -> Rendition] /\ pc \in [Client -> Stage]
      /\ fetch \in [Client -> {"none", "fetching", "slot", "converting", "done"}]
  BY DEF IInv, TypeOK
<1>2. /\ inputs' = inputs /\ UNCHANGED <<gone, pending, stored, purgeVars>>
      /\ fetch' = [fetch EXCEPT ![r] = "done"]
  BY DEF Return
<1>3. /\ source' = source /\ query' = query /\ fallback' = fallback
      /\ Client' = Client /\ image' = image /\ OriginType' = OriginType
  BY <1>2, InputsStay
<1>4. result \in Rendition /\ result # NoAnswer
  <2>1. image \in Image /\ OriginType \in MediaType
    BY <1>1, OriginTyped
  <2>2. CASE result \in {NoRendition, Unconverted}
    BY <2>2, Constants
  <2>3. CASE result \notin {NoRendition, Unconverted}
    <3>1. query[r] \in Query /\ result \in Results(image, OriginType, query[r])
      BY <1>1, <2>3 DEF Got
    <3>2. result \in Rendition /\ IsMedia(result)
      BY <2>1, <2>3, <3>1, Served
    <3> QED
      BY <3>2 DEF IsMedia
  <2> QED
    BY <2>2, <2>3
<1>5. CASE query[r].debug
  <2>1. Respond(r, result)
    BY <1>5 DEF Return
  <2>2. r \notin pending'
    BY <1>2, <1>5 DEF IInv, Traced
  <2>3. fetch'[r] = "done"
    BY <1>1, <1>2
  <2>4. /\ pc' \in [Client -> Stage] /\ answer' \in [Client -> Rendition]
        /\ \A s \in Client : s # r => pc'[s] = pc[s] /\ answer'[s] = answer[s]
        /\ Traced(r)'
    BY <1>2, <1>4, <2>1, <2>2, <2>3, Responded
  <2>5. ASSUME NEW s \in Client, s # r PROVE Traced(s)'
    <3>1. Traced(s)
      BY DEF IInv
    <3>2. pc'[s] = pc[s] /\ answer'[s] = answer[s] /\ fetch'[s] = fetch[s]
      BY <1>1, <1>2, <2>4, <2>5
    <3> QED
      BY <1>2, <1>3, <3>1, <3>2 DEF Traced, IsMedia
  <2> QED
    BY <1>2, <1>3, <2>4, <2>5
<1>6. CASE ~query[r].debug
  <2> DEFINE served(w) == pc[w] = "wait" /\ KeyOf(w) = KeyOf(r) /\ answer[w] = NoAnswer
  <2>1. /\ pc' = pc
        /\ answer' = [w \in Client |-> IF served(w) THEN result ELSE answer[w]]
    BY <1>6 DEF Return
  <2>2. pc' \in [Client -> Stage] /\ answer' \in [Client -> Rendition]
    BY <1>1, <1>4, <2>1 DEF Stage
  <2>3. ASSUME NEW s \in Client PROVE Traced(s)'
    <3>1. Traced(s)
      BY DEF IInv
    <3>0. fetch'[s] \in {"slot", "converting"} => fetch[s] = fetch'[s]
      BY <1>1, <1>2
    <3>2. CASE served(s)
      <4>1. pc'[s] = "wait" /\ answer'[s] = result
        BY <1>1, <1>2, <2>1, <3>2
      <4>2. s \notin pending' /\ ~query[s].debug
        BY <1>2, <3>1, <3>2 DEF Traced
      <4>3. Got(result, image, OriginType, query[s])
        <5>1. query[r] \in Query /\ query[s] \in Query
          BY <1>1
        <5>2. Key(query[s]) = Key(query[r])
          BY <3>2 DEF KeyOf
        <5> QED
          BY <1>6, <4>2, <5>1, <5>2, Shared
      <4> QED
        BY <1>3, <1>4, <3>0, <3>1, <4>1, <4>2, <4>3 DEF Traced
    <3>3. CASE ~served(s)
      <4>1. pc'[s] = pc[s] /\ answer'[s] = answer[s]
        BY <1>1, <1>2, <2>1, <3>3
      <4> QED
        BY <1>2, <1>3, <3>0, <3>1, <4>1 DEF Traced, IsMedia
    <3> QED
      BY <3>2, <3>3
  <2> QED
    BY <1>2, <2>2, <2>3
<1> QED
  BY <1>5, <1>6

-----------------------------------------------------------------------------
\* The semaphore's channel holds one element for each running conversion.
LEMMA SlotsSame ==
    ASSUME SlotsCounted, Client' = Client, slots' = slots,
           \A r \in Client : fetch'[r] = "converting" <=> fetch[r] = "converting"
    PROVE  SlotsCounted'
<1>1. Converting' = Converting
  BY DEF Converting
<1> QED
  BY <1>1 DEF SlotsCounted

LEMMA SlotTaken ==
    ASSUME SlotsCounted, NEW r \in Client, Client' = Client, slots' = slots + 1,
           fetch[r] # "converting", fetch'[r] = "converting",
           \A s \in Client : s # r => fetch'[s] = fetch[s]
    PROVE  SlotsCounted'
<1>1. Converting' = Converting \cup {r} /\ r \notin Converting
  BY DEF Converting
<1>2. /\ IsFiniteSet(Converting \cup {r})
      /\ Cardinality(Converting \cup {r}) = Cardinality(Converting) + 1
  BY <1>1, FS_AddElement DEF SlotsCounted
<1> QED
  BY <1>1, <1>2 DEF SlotsCounted

LEMMA SlotFreed ==
    ASSUME SlotsCounted, NEW r \in Client, Client' = Client, slots' = slots - 1,
           fetch[r] = "converting", fetch'[r] # "converting",
           \A s \in Client : s # r => fetch'[s] = fetch[s]
    PROVE  SlotsCounted' /\ slots >= 1
<1>1. Converting' = Converting \ {r} /\ r \in Converting
  BY DEF Converting
<1>2. /\ IsFiniteSet(Converting \ {r})
      /\ Cardinality(Converting \ {r}) = Cardinality(Converting) - 1
  BY <1>1, FS_RemoveElement DEF SlotsCounted
<1>3. slots \in Nat /\ slots # 0
  BY <1>1, FS_CardinalityType, FS_EmptySet DEF SlotsCounted
<1> QED
  BY <1>1, <1>2, <1>3 DEF SlotsCounted

-----------------------------------------------------------------------------
\* The keys that the command comes to.
LEMMA HalvesOf ==
    ASSUME NEW i \in 1 .. 9
    PROVE  /\ 2 * i - 1 \in 1 .. 18 /\ 2 * i \in 1 .. 18
           /\ (2 * i - 1 + 1) \div 2 = i /\ (2 * i + 1) \div 2 = i
           /\ 2 - ((2 * i - 1) % 2) = 1 /\ 2 - ((2 * i) % 2) = 2
  OBVIOUS

LEMMA PurgeList ==
    ASSUME NEW labels \in {"none", "all"} \cup Labels
    PROVE  /\ PurgeKeys(labels) \in Seq(PurgedKeys)
           /\ \A label \in Labels : \A f \in Formats :
                labels = "all" \/ labels = label =>
                  \E i \in DOMAIN PurgeKeys(labels) : PurgeKeys(labels)[i] = <<label, f>>
<1>1. Len(AllCacheStrings) = 9 /\ DOMAIN AllCacheStrings = 1 .. 9
  BY DEF AllCacheStrings
<1>2. "none" \notin Labels /\ "all" \notin Labels
  BY Nine
<1>3. ASSUME NEW label \in Labels
      PROVE  /\ LabelKeys(label) \in Seq(PurgedKeys)
             /\ DOMAIN LabelKeys(label) = 1 .. 2
             /\ LabelKeys(label)[1] = <<label, "webp">> /\ LabelKeys(label)[2] = <<label, "avif">>
             /\ LabelKeys(label)[1] \in PurgedKeys /\ LabelKeys(label)[2] \in PurgedKeys
  BY DEF LabelKeys, PurgedKeys
<1>4. CASE labels = "none"
  BY <1>2, <1>4 DEF PurgeKeys
<1>5. CASE labels = "all"
  <2>1. PurgeKeys(labels) = AllVariantKeys
    BY <1>5 DEF PurgeKeys
  <2>2. /\ DOMAIN AllVariantKeys = 1 .. 18
        /\ AllVariantKeys = [i \in 1 .. 18 |->
             LabelKeys(AllCacheStrings[(i + 1) \div 2])[2 - (i % 2)]]
    BY <1>1 DEF AllVariantKeys
  <2>3. ASSUME NEW i \in 1 .. 18 PROVE AllVariantKeys[i] \in PurgedKeys
    <3>1. (i + 1) \div 2 \in 1 .. 9 /\ 2 - (i % 2) \in {1, 2}
      OBVIOUS
    <3>2. AllCacheStrings[(i + 1) \div 2] \in Labels
      BY <1>1, <3>1 DEF Labels
    <3>3. LabelKeys(AllCacheStrings[(i + 1) \div 2])[2 - (i % 2)] \in PurgedKeys
      BY <1>3, <3>1, <3>2
    <3> QED
      BY <2>2, <3>3
  <2>4. AllVariantKeys \in Seq(PurgedKeys)
    BY <2>2, <2>3
  <2>5. ASSUME NEW label \in Labels, NEW f \in Formats
        PROVE  \E i \in 1 .. 18 : AllVariantKeys[i] = <<label, f>>
    <3>1. PICK i \in 1 .. 9 : AllCacheStrings[i] = label
      BY <1>1 DEF Labels
    <3>2. AllVariantKeys[2 * i - 1] = <<label, "webp">>
      BY <1>3, <2>2, <3>1, HalvesOf
    <3>3. AllVariantKeys[2 * i] = <<label, "avif">>
      BY <1>3, <2>2, <3>1, HalvesOf
    <3>4. 2 * i - 1 \in 1 .. 18 /\ 2 * i \in 1 .. 18
      BY HalvesOf
    <3> QED
      BY <3>2, <3>3, <3>4 DEF Formats
  <2> QED
    BY <1>2, <1>5, <2>1, <2>2, <2>4, <2>5
<1>6. CASE labels \in Labels
  <2>1. PurgeKeys(labels) = LabelKeys(labels)
    BY <1>2, <1>6 DEF PurgeKeys
  <2> QED
    BY <1>2, <1>3, <1>6, <2>1 DEF Formats
<1> QED
  BY <1>4, <1>5, <1>6

LEMMA KeysAre ==
    ASSUME NEW k \in Keys
    PROVE  \E label \in Labels, f \in Formats : k = <<label, f>>
<1>1. PICK q \in Query : k = Key(q)
  BY DEF Keys
<1> QED
  BY <1>1, KeyParts

LEMMA AtFirst == Init => IInv
<1> SUFFICES ASSUME Init PROVE IInv
  OBVIOUS
<1>1. PICK i \in Inputs : /\ source = i.source /\ query = i.query
                         /\ purge = i.purge /\ fallback = i.fallback
  BY DEF Init
<1>2. /\ source \in DOMAIN Images
      /\ Client \subseteq Request /\ query \in [Client -> Query]
      /\ purge \in {"none", "all"} \cup Labels /\ fallback \subseteq Client
  BY <1>1, RenditionsAssumption DEF Client
<1>3. todo \in Seq(PurgedKeys)
  BY <1>2, PurgeList DEF Init
<1>4. 0 \in 0 .. Slots
  BY RenditionsAssumption DEF Slots
<1>5. TypeOK
  BY <1>2, <1>3, <1>4, Constants DEF TypeOK, Init, Stage
<1>6. Converting = {}
  BY DEF Converting, Init
<1>7. SlotsCounted
  BY <1>6, FS_EmptySet DEF SlotsCounted, Init
<1>8. ASSUME NEW r \in Client PROVE Traced(r)
  <2>1. pc[r] = "new" /\ fetch[r] = "none" /\ answer[r] = NoAnswer /\ r \notin pending
    BY DEF Init
  <2> QED
    BY <2>1, Constants DEF Traced
<1>9. \A k \in Keys : stored[k] = NoAnswer
  BY DEF Init
<1>10. Kept
  BY <1>9 DEF Kept, Keys
<1>11. PurgeTracked
  BY <1>9 DEF PurgeTracked
<1> QED
  BY <1>5, <1>7, <1>8, <1>10, <1>11 DEF IInv

\* Who only waits, or has what it asked for.
LEMMA Arrivals ==
    ASSUME IInv, NEW r \in Client,
           ContextDone(r) \/ Lookup(r) \/ Join(r) \/ Receive(r) \/ GiveUp(r)
    PROVE  IInv'
<1>1. /\ query \in [Client -> Query] /\ source \in DOMAIN Images /\ Client \subseteq Request
      /\ answer \in [Client -> Rendition] /\ pc \in [Client -> Stage]
      /\ gone \subseteq Client /\ pending \subseteq Client /\ stored \in [Keys -> Rendition]
      /\ fetch \in [Client -> {"none", "fetching", "slot", "converting", "done"}]
  BY DEF IInv, TypeOK
<1>2. inputs' = inputs /\ UNCHANGED <<stored, slots, purgeVars>>
  BY DEF ContextDone, Lookup, Join, Receive, GiveUp
<1>3. /\ source' = source /\ query' = query /\ purge' = purge /\ fallback' = fallback
      /\ Client' = Client /\ image' = image /\ OriginType' = OriginType
  BY <1>2, InputsStay
<1>4. SlotsCounted /\ Kept /\ PurgeTracked /\ TypeOK /\ \A s \in Client : Traced(s)
  BY DEF IInv
<1>5. Kept' /\ PurgeTracked'
  BY <1>2, <1>3, <1>4 DEF Kept, PurgeTracked, Purged, ToDo, purgeVars
<1>6. \A s \in Client : fetch'[s] = "converting" <=> fetch[s] = "converting"
  <2>1. \/ fetch' = fetch
        \/ (Lookup(r) \/ Join(r)) /\ fetch' = [fetch EXCEPT ![r] = "fetching"]
    BY DEF ContextDone, Lookup, Join, Receive, GiveUp
  <2>2. CASE fetch' = fetch
    BY <2>2
  <2>3. CASE (Lookup(r) \/ Join(r)) /\ fetch' = [fetch EXCEPT ![r] = "fetching"]
    <3>1. pc[r] \in {"new", "join"}
      BY <2>3 DEF Lookup, Join
    <3>2. fetch[r] # "converting"
      BY <1>4, <3>1 DEF Traced
    <3> QED
      BY <1>1, <2>3, <3>2
  <2> QED
    BY <2>1, <2>2, <2>3
<1>7. SlotsCounted'
  BY <1>2, <1>3, <1>4, <1>6, SlotsSame
<1>9. ASSUME NEW a, Got(a, image, OriginType, query[r]), a # NoAnswer, Respond(r, a),
             fetch' = fetch, r \notin pending'
      PROVE  /\ pc' \in [Client -> Stage] /\ answer' \in [Client -> Rendition]
             /\ \A s \in Client : s # r => pc'[s] = pc[s] /\ answer'[s] = answer[s]
             /\ Traced(r)'
  <2>1. fetch'[r] = fetch[r] /\ fetch'[r] \in {"none", "fetching", "slot", "converting", "done"}
    BY <1>1, <1>9
  <2> QED
    BY <1>2, <1>9, <2>1, Responded
<1> DEFINE Stays == /\ pc' \in [Client -> Stage] /\ answer' \in [Client -> Rendition]
                    /\ \A s \in Client : s # r => pc'[s] = pc[s] /\ answer'[s] = answer[s]
                    /\ Traced(r)'
<1>10. Traced(r)
  BY <1>4
<1>12. Stays
  <2>1. CASE ContextDone(r)
    BY <1>1, <1>3, <1>10, <2>1 DEF Traced, IsMedia, ContextDone
  <2>2. CASE Lookup(r)
    <3>1. pc[r] = "new" /\ r \notin pending /\ pending' = pending
      BY <1>10, <2>2 DEF Lookup, Traced
    <3>2. CASE query[r].debug /\ answer' = answer
      <4>1. pc' = [pc EXCEPT ![r] = "debug"] /\ fetch' = [fetch EXCEPT ![r] = "fetching"]
        BY <2>2, <3>2 DEF Lookup
      <4>2. pc'[r] = "debug" /\ fetch'[r] = "fetching"
        BY <1>1, <4>1
      <4>3. Traced(r)'
        BY <1>3, <1>10, <3>1, <3>2, <4>2 DEF Traced
      <4> QED
        BY <1>1, <3>2, <4>1, <4>3 DEF Stage
    <3>3. CASE ~query[r].debug /\ pc' = [pc EXCEPT ![r] = "join"] /\ UNCHANGED <<fetch, answer>>
      <4>1. pc'[r] = "join"
        BY <1>1, <3>3
      <4>2. Traced(r)'
        BY <1>3, <1>10, <3>1, <3>3, <4>1 DEF Traced
      <4> QED
        BY <1>1, <3>3, <4>2 DEF Stage
    <3>4. CASE /\ ~query[r].debug /\ stored[KeyOf(r)] # NoAnswer
               /\ Respond(r, stored[KeyOf(r)]) /\ UNCHANGED fetch
      <4>1. Got(stored[KeyOf(r)], image, OriginType, query[r])
        BY <1>1, <1>4, <3>4 DEF Kept, KeyOf, IsMedia, Got
      <4> QED
        BY <1>9, <3>1, <3>4, <4>1
    <3> QED
      BY <2>2, <3>2, <3>3, <3>4 DEF Lookup
  <2>3. CASE Join(r)
    <3>1. /\ pc[r] = "join" /\ pc' = [pc EXCEPT ![r] = "wait"]
          /\ answer' = answer /\ pending' = pending
          /\ fetch' = fetch \/ fetch' = [fetch EXCEPT ![r] = "fetching"]
      BY <2>3 DEF Join
    <3>2. pc'[r] = "wait" /\ (fetch'[r] = fetch[r] \/ fetch'[r] = "fetching")
      BY <1>1, <3>1
    <3>3. Traced(r)'
      BY <1>3, <1>10, <3>1, <3>2 DEF Traced
    <3> QED
      BY <1>1, <3>1, <3>3 DEF Stage
  <2>4. CASE Receive(r)
    <3>1. /\ pc[r] = "wait" /\ answer[r] # NoAnswer /\ r \notin pending /\ ~query[r].debug
          /\ Respond(r, answer[r]) /\ fetch' = fetch
          /\ Got(answer[r], image, OriginType, query[r])
      BY <1>10, <2>4 DEF Receive, Traced
    <3>2. CASE answer[r] \in {NoRendition, Unconverted}
      <4>1. r \notin pending'
        BY <2>4, <3>1, <3>2 DEF Receive
      <4> QED
        BY <1>9, <3>1, <4>1
    <3>3. CASE answer[r] \notin {NoRendition, Unconverted}
      <4>1. pc' = [pc EXCEPT ![r] = "answered"] /\ answer' = [answer EXCEPT ![r] = answer[r]]
        BY <3>1, <3>3 DEF Respond
      <4>2. pc'[r] = "answered" /\ answer' = answer /\ IsMedia(answer[r])
        BY <1>1, <3>1, <3>3, <4>1 DEF IsMedia
      <4>3. Traced(r)'
        BY <1>3, <1>10, <3>1, <3>3, <4>2 DEF Traced, IsMedia
      <4> QED
        BY <1>1, <4>1, <4>2, <4>3 DEF Stage
    <3> QED
      BY <3>2, <3>3
  <2>5. CASE GiveUp(r)
    <3>1. /\ pc[r] = "wait" /\ Respond(r, NoRendition) /\ pending' = pending /\ fetch' = fetch
      BY <2>5 DEF GiveUp
    <3>2. r \notin pending'
      BY <1>10, <3>1 DEF Traced
    <3>3. Got(NoRendition, image, OriginType, query[r])
      BY Constants DEF Got
    <3> QED
      BY <1>9, <3>1, <3>2, <3>3, Constants
  <2> QED
    BY <2>1, <2>2, <2>3, <2>4, <2>5
<1>13. /\ gone' \subseteq Client /\ pending' \subseteq Client
       /\ fetch' \in [Client -> {"none", "fetching", "slot", "converting", "done"}]
  BY <1>1 DEF ContextDone, Lookup, Join, Receive, GiveUp
<1>14. TypeOK'
  BY <1>2, <1>3, <1>4, <1>12, <1>13 DEF TypeOK, purgeVars
<1>15. ASSUME NEW s \in Client, s # r PROVE Traced(s)'
  <2>1. fetch'[s] = fetch[s] /\ (s \in pending' <=> s \in pending)
    BY <1>1, <1>15 DEF ContextDone, Lookup, Join, Receive, GiveUp
  <2>2. pc'[s] = pc[s] /\ answer'[s] = answer[s]
    BY <1>12, <1>15
  <2> QED
    BY <1>3, <1>4, <2>1, <2>2 DEF Traced, IsMedia
<1> QED
  BY <1>3, <1>5, <1>7, <1>12, <1>14, <1>15 DEF IInv

\* The invariant after a fetch that has ended, but for its slot.
LEMMA Ended ==
    ASSUME IInv, NEW r \in Client,
           NEW result, Got(result, image, OriginType, query[r]),
           Return(r, result), fetch[r] \in {"fetching", "slot", "converting"},
           slots' = IF fetch[r] = "converting" THEN slots - 1 ELSE slots
    PROVE  IInv'
<1>1. /\ inputs' = inputs /\ UNCHANGED <<gone, pending, stored, purgeVars>>
      /\ pc' \in [Client -> Stage]
      /\ fetch' = [fetch EXCEPT ![r] = "done"]
      /\ answer' \in [Client -> Rendition]
      /\ \A s \in Client : Traced(s)'
  BY Returned
<1>2. /\ source' = source /\ query' = query /\ purge' = purge /\ fallback' = fallback
      /\ Client' = Client /\ image' = image /\ OriginType' = OriginType
  BY <1>1, InputsStay
<1>3. /\ SlotsCounted /\ Kept /\ PurgeTracked /\ TypeOK
      /\ fetch \in [Client -> {"none", "fetching", "slot", "converting", "done"}]
      /\ slots \in 0 .. Slots
  BY DEF IInv, TypeOK
<1>4. Kept' /\ PurgeTracked'
  BY <1>1, <1>2, <1>3 DEF Kept, PurgeTracked, Purged, ToDo, purgeVars
<1>5. fetch'[r] = "done" /\ \A s \in Client : s # r => fetch'[s] = fetch[s]
  BY <1>1, <1>3
<1>6. SlotsCounted' /\ slots' \in 0 .. Slots
  <2>1. CASE fetch[r] = "converting"
    <3>1. SlotsCounted' /\ slots >= 1
      BY <1>2, <1>3, <1>5, <2>1, SlotFreed
    <3> QED
      BY <1>3, <2>1, <3>1, RenditionsAssumption DEF Slots
  <2>2. CASE fetch[r] # "converting"
    BY <1>2, <1>3, <1>5, <2>2, SlotsSame
  <2> QED
    BY <2>1, <2>2
<1>7. TypeOK'
  BY <1>1, <1>2, <1>3, <1>6 DEF TypeOK, purgeVars
<1> QED
  BY <1>1, <1>2, <1>4, <1>6, <1>7 DEF IInv

\* The fetch goes on to the semaphore, or has passed it.
LEMMA Onwards ==
    ASSUME IInv, NEW r \in Client,
           \/ /\ fetch[r] = "fetching" /\ fetch' = [fetch EXCEPT ![r] = "slot"]
              /\ Got(Unconverted, image, OriginType, query[r])
              /\ slots' = slots
           \/ /\ fetch[r] = "slot" /\ fetch' = [fetch EXCEPT ![r] = "converting"]
              /\ slots < Slots /\ slots' = slots + 1,
           UNCHANGED <<inputs, pc, gone, answer, pending, stored, purgeVars>>
    PROVE  IInv'
<1>1. inputs' = inputs /\ UNCHANGED <<pc, gone, answer, pending, stored, purgeVars>>
  OBVIOUS
<1>2. /\ source' = source /\ query' = query /\ purge' = purge /\ fallback' = fallback
      /\ Client' = Client /\ image' = image /\ OriginType' = OriginType
  BY <1>1, InputsStay
<1>3. /\ SlotsCounted /\ Kept /\ PurgeTracked /\ TypeOK
      /\ fetch \in [Client -> {"none", "fetching", "slot", "converting", "done"}]
      /\ slots \in 0 .. Slots
      /\ \A s \in Client : Traced(s)
  BY DEF IInv, TypeOK
<1>4. Kept' /\ PurgeTracked'
  BY <1>1, <1>2, <1>3 DEF Kept, PurgeTracked, Purged, ToDo, purgeVars
<1>5. \A s \in Client : s # r => fetch'[s] = fetch[s]
  BY <1>3
<1>6. \/ fetch[r] = "fetching" /\ fetch'[r] = "slot"
      \/ fetch[r] = "slot" /\ fetch'[r] = "converting"
  BY <1>3
<1>7. SlotsCounted' /\ slots' \in 0 .. Slots
  <2>1. CASE fetch[r] = "slot"
    <3>1. fetch'[r] = "converting" /\ slots < Slots /\ slots' = slots + 1
      BY <1>3, <2>1
    <3>2. SlotsCounted'
      BY <1>2, <1>3, <1>5, <2>1, <3>1, SlotTaken
    <3> QED
      BY <1>3, <3>1, <3>2, RenditionsAssumption DEF Slots
  <2>2. CASE fetch[r] = "fetching"
    <3>1. fetch'[r] = "slot" /\ slots' = slots
      BY <1>3, <2>2
    <3> QED
      BY <1>2, <1>3, <1>5, <2>2, <3>1, SlotsSame
  <2> QED
    BY <1>6, <2>1, <2>2
<1>8. ASSUME NEW s \in Client PROVE Traced(s)'
  <2>1. Traced(s)
    BY <1>3
  <2>2. CASE s # r
    BY <1>1, <1>2, <1>5, <2>1, <2>2 DEF Traced, IsMedia
  <2>3. CASE s = r
    <3>1. Got(Unconverted, image, OriginType, query[r])
      BY <2>1, <2>3 DEF Traced
    <3>2. fetch[r] # "none" /\ fetch'[r] \in {"slot", "converting"}
      BY <1>6
    <3> QED
      BY <1>1, <1>2, <2>1, <2>3, <3>1, <3>2 DEF Traced, IsMedia
  <2> QED
    BY <2>2, <2>3
<1>9. TypeOK'
  BY <1>1, <1>2, <1>3, <1>7 DEF TypeOK, purgeVars
<1> QED
  BY <1>2, <1>4, <1>7, <1>8, <1>9 DEF IInv

LEMMA Fetches ==
    ASSUME IInv, NEW r \in Client, OriginFetch(r)
    PROVE  IInv'
<1>1. Traced(r)
  BY DEF IInv
<1>0. Got(NoRendition, image, OriginType, query[r])
  BY Constants DEF Got
<1>2. CASE FetchFails(r)
  BY <1>0, <1>2, Ended DEF FetchFails
<1>3. CASE AcquireFails(r)
  <2>1. fetch[r] = "slot" /\ Got(Unconverted, image, OriginType, query[r])
    BY <1>1, <1>3 DEF AcquireFails, Traced
  <2> QED
    BY <1>3, <2>1, Ended DEF AcquireFails
<1>4. CASE ConvertPanics(r)
  BY <1>0, <1>4, Ended DEF ConvertPanics
<1>5. CASE Convert(r)
  <2>1. fetch[r] = "converting" /\ slots' = slots - 1
    BY <1>5 DEF Convert
  <2>2. PICK result \in Conversions(image, ParseVariant(query[r]), Format(query[r]), NoAnim(query[r])) :
           Return(r, Outcome(result))
    BY <1>5 DEF Convert
  <2>3. Got(Unconverted, image, OriginType, query[r])
    BY <1>1, <2>1 DEF Traced
  <2>4. Got(Outcome(result), image, OriginType, query[r])
    <3>1. result \in Results(image, OriginType, query[r])
      BY <2>2, <2>3 DEF Results, Got
    <3> QED
      BY <2>3, <3>1, Constants DEF Got, Outcome
  <2> QED
    BY <2>1, <2>2, <2>3, <2>4, Ended
<1>6. CASE Acquire(r)
  BY <1>6, Onwards DEF Acquire
<1>7. CASE FetchBody(r)
  <2>1. fetch[r] = "fetching" /\ slots' = slots
    BY <1>7 DEF FetchBody
  <2>2. CASE ~query[r].debug /\ OriginType \notin AllowedType
    <3>1. Return(r, NoRendition)
      BY <1>7, <2>2 DEF FetchBody
    <3> QED
      BY <1>0, <2>1, <3>1, Ended
  <2>3. CASE /\ ~(~query[r].debug /\ OriginType \notin AllowedType)
             /\ ~NeedsConversion(ParseVariant(query[r]))
    <3>1. Return(r, Original(image, OriginType))
      BY <1>7, <2>3 DEF FetchBody
    <3>2. Got(Original(image, OriginType), image, OriginType, query[r])
      <4>1. Original(image, OriginType) \in Results(image, OriginType, query[r])
        BY <2>3 DEF NeedsConversion, Results
      <4>2. Original(image, OriginType) # Unconverted
        BY OriginTyped, Originals DEF IsMedia, IInv, TypeOK
      <4> QED
        BY <2>3, <4>1, <4>2 DEF Got
    <3> QED
      BY <2>1, <2>3, <3>1, <3>2, Ended
  <2>4. CASE /\ ~(~query[r].debug /\ OriginType \notin AllowedType)
             /\ NeedsConversion(ParseVariant(query[r]))
    <3>1. /\ fetch' = [fetch EXCEPT ![r] = "slot"]
          /\ UNCHANGED <<inputs, pc, gone, answer, pending, stored, purgeVars>>
      BY <1>7, <2>4 DEF FetchBody
    <3>2. Got(Unconverted, image, OriginType, query[r])
      BY <2>4 DEF NeedsConversion, Got
    <3> QED
      BY <2>1, <2>4, <3>1, <3>2, Onwards
  <2> QED
    BY <2>2, <2>3, <2>4
<1> QED
  BY <1>2, <1>3, <1>4, <1>5, <1>6, <1>7 DEF OriginFetch

\* A late write of L1 serves every query that finds it.
LEMMA Writes ==
    ASSUME IInv, NEW r \in Client, PutL1(r)
    PROVE  IInv'
<1>1. /\ query \in [Client -> Query] /\ answer \in [Client -> Rendition]
      /\ stored \in [Keys -> Rendition]
  BY DEF IInv, TypeOK
<1>2. inputs' = inputs /\ UNCHANGED <<pc, gone, fetch, answer, slots, todo, skipped>>
  BY DEF PutL1
<1>3. /\ source' = source /\ query' = query /\ purge' = purge /\ fallback' = fallback
      /\ Client' = Client /\ image' = image /\ OriginType' = OriginType
  BY <1>2, InputsStay
<1>4. /\ SlotsCounted /\ Kept /\ PurgeTracked /\ TypeOK
      /\ \A s \in Client : Traced(s)
  BY DEF IInv
<1>5. /\ r \in pending /\ pending' = pending \ {r}
      /\ stored' = [stored EXCEPT ![KeyOf(r)] = answer[r]]
      /\ late' = IF todo # PurgeKeys(purge) THEN late \cup {KeyOf(r)} ELSE late
  BY DEF PutL1
<1>6. query[r] \in Query /\ KeyOf(r) = Key(query[r]) /\ KeyOf(r) \in Keys
  BY <1>1 DEF KeyOf, Keys
<1>7. SlotsCounted'
  BY <1>2, <1>3, <1>4, SlotsSame
<1>8. \A s \in Client : Traced(s)'
  BY <1>2, <1>3, <1>4, <1>5 DEF Traced, IsMedia
<1>9. /\ IsMedia(answer[r])
      /\ answer[r] \in Results(image, OriginType, query[r]) /\ OriginType \in AllowedType
  BY <1>4, <1>5 DEF Traced, IsMedia, Got
<1>10. Kept'
  <2>1. ASSUME NEW q \in Query, stored'[Key(q)] # NoAnswer
        PROVE  /\ IsMedia(stored'[Key(q)])
               /\ stored'[Key(q)] \in Results(image, OriginType, q)
               /\ OriginType \in AllowedType
    <3>1. Key(q) \in Keys
      BY DEF Keys
    <3>2. CASE Key(q) = KeyOf(r)
      <4>1. Results(image, OriginType, q) = Results(image, OriginType, query[r])
        BY <1>6, <3>2, SameResults
      <4>2. stored'[KeyOf(r)] = answer[r]
        BY <1>1, <1>5, <1>6
      <4> QED
        BY <1>9, <3>2, <4>1, <4>2
    <3>3. CASE Key(q) # KeyOf(r)
      <4>1. stored'[Key(q)] = stored[Key(q)]
        BY <1>1, <1>5, <3>1, <3>3
      <4> QED
        BY <1>4, <2>1, <4>1 DEF Kept
    <3> QED
      BY <3>2, <3>3
  <2> QED
    BY <1>3, <2>1 DEF Kept
<1>11. TypeOK'
  BY <1>1, <1>2, <1>3, <1>4, <1>5, <1>6 DEF TypeOK
<1>12. PurgeTracked'
  <2>1. ToDo' = ToDo /\ skipped' = skipped /\ late \subseteq late'
    BY <1>2, <1>5 DEF ToDo
  <2>2. ASSUME NEW k \in Keys, Purged(k), stored'[k] # NoAnswer
        PROVE  k \in late' \cup skipped \cup ToDo
    <3>1. CASE k # KeyOf(r)
      <4>1. stored'[k] = stored[k]
        BY <1>1, <1>5, <3>1
      <4> QED
        BY <1>4, <2>1, <2>2, <4>1 DEF PurgeTracked
    <3>2. CASE k = KeyOf(r) /\ todo # PurgeKeys(purge)
      BY <1>5, <3>2
    <3>3. CASE k = KeyOf(r) /\ todo = PurgeKeys(purge)
      <4>1. PICK label \in Labels, f \in Formats : k = <<label, f>>
        BY KeysAre
      <4>2. purge = "all" \/ purge = label
        BY <2>2, <4>1 DEF Purged
      <4>3. \E i \in DOMAIN PurgeKeys(purge) : PurgeKeys(purge)[i] = <<label, f>>
        BY <4>1, <4>2, PurgeList
      <4> QED
        BY <3>3, <4>1, <4>3 DEF ToDo
    <3> QED
      BY <3>1, <3>2, <3>3
  <2> QED
    BY <1>2, <1>3, <2>1, <2>2 DEF PurgeTracked, Purged
<1> QED
  BY <1>3, <1>7, <1>8, <1>10, <1>11, <1>12 DEF IInv

LEMMA Purges ==
    ASSUME IInv, PurgeNext
    PROVE  IInv'
<1>1. stored \in [Keys -> Rendition] /\ todo \in Seq(PurgedKeys) /\ todo # <<>>
  BY DEF IInv, TypeOK, PurgeNext
<1>2. inputs' = inputs /\ UNCHANGED <<pc, gone, fetch, answer, pending, slots>>
  BY DEF PurgeNext
<1>3. /\ source' = source /\ query' = query /\ purge' = purge /\ fallback' = fallback
      /\ Client' = Client /\ image' = image /\ OriginType' = OriginType
  BY <1>2, InputsStay
<1>4. /\ SlotsCounted /\ Kept /\ PurgeTracked /\ TypeOK
      /\ \A s \in Client : Traced(s)
  BY DEF IInv
<1>5. SlotsCounted'
  BY <1>2, <1>3, <1>4, SlotsSame
<1>6. \A s \in Client : Traced(s)'
  BY <1>2, <1>3, <1>4 DEF Traced, IsMedia
<1> DEFINE first == Head(todo)
<1>7. /\ first \in PurgedKeys /\ todo' \in Seq(PurgedKeys)
      /\ \A k \in ToDo : k = first \/ k \in ToDo'
  <2>1. todo' = Tail(todo)
    BY DEF PurgeNext
  <2>2. first = todo[1] /\ first \in PurgedKeys /\ todo' \in Seq(PurgedKeys)
    BY <1>1, <2>1
  <2>3. /\ DOMAIN todo = 1 .. Len(todo) /\ Len(todo) \in Nat /\ DOMAIN todo' = 1 .. Len(todo) - 1
        /\ \A i \in 1 .. Len(todo) - 1 : todo'[i] = todo[i + 1]
    BY <1>1, <2>1
  <2>4. ASSUME NEW k \in ToDo, k # first PROVE k \in ToDo'
    <3>1. PICK i \in DOMAIN todo : k = todo[i]
      BY DEF ToDo
    <3>2. i - 1 \in DOMAIN todo' /\ todo'[i - 1] = k
      BY <2>2, <2>3, <2>4, <3>1
    <3> QED
      BY <3>2 DEF ToDo
  <2> QED
    BY <2>2, <2>4
<1>8. \/ /\ stored' = [k \in Keys |-> IF k = first THEN NoAnswer ELSE stored[k]]
         /\ late' = late \ {first} /\ skipped' = skipped
      \/ stored' = stored /\ late' = late /\ skipped' = skipped \cup {first}
  BY DEF PurgeNext
<1> HIDE DEF first
<1>9. \A k \in Keys : stored'[k] = stored[k] \/ stored'[k] = NoAnswer
  BY <1>8
<1>10. Kept'
  BY <1>3, <1>4, <1>9 DEF Kept, Keys
<1>11. TypeOK'
  <2>1. stored' \in [Keys -> Rendition] /\ skipped' \subseteq PurgedKeys /\ late' \subseteq Keys
    BY <1>1, <1>4, <1>7, <1>8, Constants DEF TypeOK
  <2> QED
    BY <1>2, <1>3, <1>4, <1>7, <2>1 DEF TypeOK
<1>12. PurgeTracked'
  <2>1. ASSUME NEW k \in Keys, Purged(k), stored'[k] # NoAnswer
        PROVE  k \in late' \cup skipped' \cup ToDo'
    <3>1. k \in late \cup skipped \cup ToDo
      BY <1>4, <1>9, <2>1 DEF PurgeTracked
    <3>2. CASE /\ stored' = [l \in Keys |-> IF l = first THEN NoAnswer ELSE stored[l]]
               /\ late' = late \ {first} /\ skipped' = skipped
      <4>1. k # first
        BY <2>1, <3>2
      <4> QED
        BY <1>7, <3>1, <3>2, <4>1
    <3>3. CASE stored' = stored /\ late' = late /\ skipped' = skipped \cup {first}
      BY <1>7, <3>1, <3>3
    <3> QED
      BY <1>8, <3>2, <3>3
  <2> QED
    BY <1>3, <2>1 DEF PurgeTracked, Purged
<1> QED
  BY <1>3, <1>5, <1>6, <1>10, <1>11, <1>12 DEF IInv

-----------------------------------------------------------------------------
(***************************************************************************)
(* IInv is an invariant: whatever a request has received and whatever L1   *)
(* holds was made of the image by a fetch for the same key, every slot of  *)
(* the converter belongs to one running conversion, and a purged key with  *)
(* an entry is new, was reported as skipped, or is still to come.          *)
(***************************************************************************)
THEOREM Inductive == Spec => []IInv
<1>1. Init => IInv
  BY AtFirst
<1>2. IInv /\ [Next]_vars => IInv'
  <2> SUFFICES ASSUME IInv, [Next]_vars PROVE IInv'
    OBVIOUS
  <2>1. ASSUME NEW r \in Client,
               ContextDone(r) \/ Lookup(r) \/ Join(r) \/ Receive(r) \/ GiveUp(r)
        PROVE  IInv'
    BY <2>1, Arrivals
  <2>2. ASSUME NEW r \in Client, PutL1(r) PROVE IInv'
    BY <2>2, Writes
  <2>3. ASSUME NEW r \in Client, OriginFetch(r) PROVE IInv'
    BY <2>3, Fetches
  <2>4. CASE PurgeNext
    BY <2>4, Purges
  <2>5. CASE UNCHANGED vars
    <3>1. inputs' = inputs /\ UNCHANGED <<pc, gone, fetch, answer, pending, stored, slots, todo,
                                          skipped, late>>
      BY <2>5 DEF vars
    <3>2. /\ source' = source /\ query' = query /\ purge' = purge /\ fallback' = fallback
          /\ Client' = Client /\ image' = image /\ OriginType' = OriginType
      BY <3>1, InputsStay
    <3>3. TypeOK' /\ SlotsCounted'
      BY <3>1, <3>2 DEF IInv, TypeOK, SlotsCounted, Converting
    <3>4. Kept' /\ PurgeTracked' /\ \A r \in Client : Traced(r)'
      BY <3>1, <3>2 DEF IInv, Kept, PurgeTracked, Purged, ToDo, Traced, IsMedia
    <3> QED
      BY <3>2, <3>3, <3>4 DEF IInv
  <2> QED
    BY <2>1, <2>2, <2>3, <2>4, <2>5 DEF Next
<1>3. Spec => Init /\ [][Next]_vars
  BY PTL DEF Spec
<1> QED
  BY <1>1, <1>2, <1>3, PTL

\* The types of all variables: no more conversions than CONVERT_CONCURRENCY
\* allows, and answers only with types of media that an origin declared or
\* that were sniffed or made.
THEOREM TypeCorrect == Spec => []TypeOK
<1>1. IInv => TypeOK
  BY DEF IInv
<1> QED
  BY <1>1, Inductive, PTL

\* A slot is taken exactly as long as a conversion runs, whatever ends it.
THEOREM SlotsAreThoseOfConversions == Spec => []SlotsCounted
<1>1. IInv => SlotsCounted
  BY DEF IInv
<1> QED
  BY <1>1, Inductive, PTL

\* The purge of a URL or of one of its labels leaves nothing behind but what
\* came after it and what it reports.
THEOREM PurgeLeavesNothing == Spec => []PurgeIsComplete
<1>1. ASSUME IInv PROVE PurgeIsComplete
  <2>1. todo = <<>> => ToDo = {}
    BY DEF ToDo
  <2> QED
    BY <1>1, <2>1 DEF IInv, PurgeTracked, PurgeIsComplete
<1> QED
  BY <1>1, Inductive, PTL

\* What an answered request with media has.
LEMMA AnsweredWith ==
    ASSUME IInv, NEW r \in Client, Delivered(r)
    PROVE  /\ Serves(answer[r], image, query[r])
           /\ ~query[r].debug => OriginType \in AllowedType
           /\ query[r] \in Query /\ source \in DOMAIN Images
<1>1. /\ Traced(r) /\ query[r] \in Query /\ source \in DOMAIN Images
  BY DEF IInv, TypeOK
<1>2. /\ answer[r] \in Results(image, OriginType, query[r]) /\ answer[r] # NoRendition
      /\ ~query[r].debug => OriginType \in AllowedType
  BY <1>1 DEF Traced, Delivered, Got
<1>3. image \in Image /\ OriginType \in MediaType
  BY <1>1, OriginTyped
<1>4. Serves(answer[r], image, query[r])
  BY <1>1, <1>2, <1>3, Served
<1> QED
  BY <1>1, <1>2, <1>4

\* Bytes that are recognised as media are media.
SniffedIsMedia ==
    \A n \in DOMAIN Images : DetectContentType(Images[n].data) # "" => Truth[n].type # ""

\* A type that passes for that of media is one, or the origin vouches for it.
LEMMA Vouched ==
    ASSUME SniffedIsMedia, source \in DOMAIN Images, NEW q,
           ~q.debug => OriginType \in AllowedType
    PROVE  PassesAsMedia(q)
<1>1. CASE image.declared \notin AllowedType /\ ~q.debug
  <2>1. DetectContentType(image.data) # ""
    BY <1>1 DEF OriginType
  <2> QED
    BY <2>1 DEF SniffedIsMedia, image, PassesAsMedia
<1>2. CASE ~(image.declared \notin AllowedType /\ ~q.debug)
  BY <1>2 DEF PassesAsMedia
<1> QED
  BY <1>1, <1>2

(***************************************************************************)
(* Every answer has the variant, type and size of its own query, however   *)
(* it came about, or is the original of a failed conversion and goes to    *)
(* who asked with ?fallback; and what is no media goes to debug requests   *)
(* only, unless the origin declares it as media.  For every image, if only *)
(* no bytes that are not media have the magic number of some.              *)
(***************************************************************************)
THEOREM AnswersMatch ==
    ASSUME SniffedIsMedia
    PROVE  Spec => []AnswersMatchTheQuery
<1>1. ASSUME IInv, NEW r \in Client, Delivered(r)
      PROVE  Matches(answer[r], query[r]) /\ PassesAsMedia(query[r])
  <2> DEFINE a == answer[r]
             q == query[r]
             v == ParseVariant(q)
  <2>1. /\ Serves(a, image, q) /\ source \in DOMAIN Images
        /\ ~q.debug => OriginType \in AllowedType
    BY <1>1, AnsweredWith
  <2>2. PassesAsMedia(q)
    BY <2>1, Vouched
  <2>3. ~a.original /\ v \in DOMAIN Box => FillsBox(a, Box[v][1], Box[v][2])
    BY <2>1 DEF Serves, Fits, FillsBox
  <2>4. OutputType(Format(q)) =
          IF q.avif /\ v \in {"emoji", "avatar", "preview"} THEN "image/avif" ELSE "image/webp"
    BY DEF OutputType, Format, SupportsAVIF
  <2>5. Matches(a, q)
    BY <2>1, <2>3, <2>4 DEF Serves, Matches
  <2> QED
    BY <2>2, <2>5
<1>2. ASSUME IInv, NEW r \in Client, pc[r] = "degraded"
      PROVE  /\ r \in fallback /\ ParseVariant(query[r]) # "raw"
             /\ answer[r] = Original(image, OriginType) /\ PassesAsMedia(query[r])
  <2>1. Traced(r) /\ source \in DOMAIN Images
    BY <1>2 DEF IInv, TypeOK
  <2>2. /\ r \in fallback /\ answer[r] = Original(image, OriginType)
        /\ ParseVariant(query[r]) # "raw" /\ (~query[r].debug => OriginType \in AllowedType)
    BY <1>2, <2>1, Constants DEF Traced, Got
  <2> QED
    BY <2>1, <2>2, Vouched
<1>3. IInv => AnswersMatchTheQuery
  BY <1>1, <1>2 DEF AnswersMatchTheQuery
<1> QED
  BY <1>3, Inductive, PTL

\* Every image is a complete file or the beginning of one, and imageinfo judges
\* complete files rightly.
FilesAreJudged ==
    \A n \in DOMAIN Images : \E file \in DOMAIN Images :
        /\ Truth[file].whole /\ Beginning(Images[n].data, Images[file].data)
        /\ Truth[n].whole => Images[n].data = Images[file].data
        /\ Truth[n].animated <=> Truth[file].animated
        /\ Truth[n].type = Truth[file].type
        /\ IsAnimated(Images[file].data) <=> Truth[file].animated
        /\ Truth[file].animated => MagicType(Images[file].data) = Truth[file].type

\* Then it takes no beginning of a file for an animation that is none.
LEMMA WalksTell ==
    ASSUME FilesAreJudged, NEW n \in DOMAIN Images
    PROVE  /\ IsAnimated(Images[n].data) =>
                 Truth[n].animated /\ MagicType(Images[n].data) = Truth[n].type
           /\ Truth[n].animated /\ Truth[n].whole => IsAnimated(Images[n].data)
<1>1. PICK file \in DOMAIN Images :
        /\ Truth[file].whole /\ Beginning(Images[n].data, Images[file].data)
        /\ Truth[n].whole => Images[n].data = Images[file].data
        /\ Truth[n].animated <=> Truth[file].animated
        /\ Truth[n].type = Truth[file].type
        /\ IsAnimated(Images[file].data) <=> Truth[file].animated
        /\ Truth[file].animated => MagicType(Images[file].data) = Truth[file].type
  BY DEF FilesAreJudged
<1>2. IsAnimated(Images[n].data) =>
        /\ IsAnimated(Images[file].data)
        /\ MagicType(Images[n].data) = MagicType(Images[file].data)
  BY <1>1, CutOff
<1> QED
  BY <1>1, <1>2

(***************************************************************************)
(* Animations are kept as README.md:113-119 say, for every limit, all      *)
(* complete files that imageinfo judges rightly and all beginnings of      *)
(* them: no flight and no entry of L1 gives one query the still or the     *)
(* animation of another, and no file that was cut off is passed on as an   *)
(* animation that it never was.                                            *)
(***************************************************************************)
THEOREM AnimationsAreKept ==
    ASSUME FilesAreJudged
    PROVE  Spec => []AnimationIsKept
<1>1. ASSUME IInv PROVE AnimationIsKept
  <2>1. SUFFICES
          ASSUME NEW r \in Client, Delivered(r), ParseVariant(query[r]) \in {"emoji", "avatar"}
          PROVE  LET keep == /\ Truth[source].animated
                             /\ "static" \notin query[r].params
                             /\ AnimMaxSize > 0 => Len(image.data) <= AnimMaxSize
                 IN  /\ answer[r].original => keep /\ answer[r].type = Truth[source].type
                     /\ keep /\ Truth[source].whole => answer[r].original
    BY DEF AnimationIsKept
  <2>2. Serves(answer[r], image, query[r]) /\ source \in DOMAIN Images
    BY <1>1, <2>1, AnsweredWith
  <2>3. /\ answer[r].original <=> KeepAnimation(image, NoAnim(query[r]))
        /\ answer[r].original => answer[r].type = MagicType(image.data)
    BY <2>1, <2>2 DEF Serves
  <2>4. /\ IsAnimated(image.data) =>
             Truth[source].animated /\ MagicType(image.data) = Truth[source].type
        /\ Truth[source].animated /\ Truth[source].whole => IsAnimated(image.data)
    BY <2>2, WalksTell DEF image
  <2>5. AnimMaxSize \in Int /\ Len(image.data) \in Nat
    <3>1. image \in Image
      BY <2>2, OriginTyped
    <3> QED
      BY <3>1, RenditionsAssumption DEF Image
  <2>6. ~(AnimMaxSize > 0 /\ Len(image.data) > AnimMaxSize)
          <=> (AnimMaxSize > 0 => Len(image.data) <= AnimMaxSize)
    BY <2>5
  <2> QED
    BY <2>3, <2>4, <2>6 DEF KeepAnimation, NoAnim
<1> QED
  BY <1>1, Inductive, PTL
=============================================================================
