--------------------------- MODULE CleanerProofs ---------------------------
(***************************************************************************)
(* The cleaner keeps its promises about the disk and the tracker, for any  *)
(* keys, sizes, limits and numbers of requests.                            *)
(*                                                                         *)
(* The list a run works from is old, and two things make up for it.  A key *)
(* that is not in it, and that the listing will not come to any more, had  *)
(* no file at some moment since the run began (Listed).  And a file that   *)
(* is not as the list has it was written since (FreshIsWritten).           *)
(*                                                                         *)
(* The bytes of a run are sums over its list, which a recursive function   *)
(* computes.  The first part of this module shows that such a sum does not *)
(* depend on the order in which it picks the keys (PartSums); the rest     *)
(* uses only what follows from it, BytesNat to BytesWith.                  *)
(***************************************************************************)
EXTENDS Cleaner, FiniteSetTheorems, WellFoundedInduction, TLAPS

-----------------------------------------------------------------------------
(* Induction, for a property given as the set of the values that have it.  *)

\* From n to n + 1.
LEMMA Induct ==
    ASSUME NEW T, 0 \in T, \A n \in Nat : n \in T => n + 1 \in T
    PROVE  Nat \subseteq T
<1> SUFFICES ASSUME Nat \ T # {} PROVE FALSE
  OBVIOUS
<1>1. PICK Less : /\ IsWellFoundedOn(Less, Nat)
                  /\ \A m, n \in Nat : m < n => <<m, n>> \in Less
  BY NatLessThanWellFounded DEF OpToRel
<1>2. \E n \in Nat \ T : \A m \in Nat \ T : ~ (<<m, n>> \in Less)
  <2>1. Nat \ T \subseteq Nat
    OBVIOUS
  <2> QED
    BY <1>1, <2>1, WFMin, Zenon
<1>3. \A n \in Nat \ T : n - 1 \in Nat \ T /\ n - 1 < n
  <2>1. \A n \in Nat : n = 0 \/ (n - 1 \in Nat /\ n - 1 < n /\ (n - 1) + 1 = n)
    OBVIOUS
  <2> QED
    BY <2>1
<1> QED
  BY <1>1, <1>2, <1>3

\* From a subset of a finite set to one with one element more.
LEMMA SubsetInduct ==
    ASSUME NEW S, IsFiniteSet(S), NEW P, {} \in P,
           \A T \in SUBSET S, x \in S : x \notin T /\ T \in P => T \cup {x} \in P
    PROVE  SUBSET S \subseteq P
<1> DEFINE Good == {n \in Nat : \A T \in SUBSET S : Cardinality(T) = n => T \in P}
<1>1. \A T \in SUBSET S : IsFiniteSet(T) /\ Cardinality(T) \in Nat
  BY FS_Subset, FS_CardinalityType
<1>2. 0 \in Good
  BY <1>1, FS_EmptySet
<1>3. ASSUME NEW n \in Nat, n \in Good PROVE n + 1 \in Good
  <2> SUFFICES ASSUME NEW T \in SUBSET S, Cardinality(T) = n + 1 PROVE T \in P
    OBVIOUS
  <2>1. T # {}
    <3>1. T = {} => Cardinality(T) = 0
      BY FS_EmptySet, Zenon
    <3>2. n + 1 # 0
      OBVIOUS
    <3> QED
      BY <3>1, <3>2, Zenon
  <2>. PICK x : x \in T
    BY <2>1
  <2>2. Cardinality(T \ {x}) = n /\ T \ {x} \in SUBSET S
    <3>1. Cardinality(T \ {x}) = Cardinality(T) - 1
      BY <1>1, FS_RemoveElement
    <3> QED
      BY <3>1
  <2>3. T \ {x} \in P
    BY <1>3, <2>2
  <2>4. (T \ {x}) \cup {x} = T
    BY <2>1
  <2> QED
    BY <2>2, <2>3, <2>4
<1>4. Nat \subseteq Good
  <2> HIDE DEF Good
  <2> QED
    BY <1>2, <1>3, Induct
<1> QED
  BY <1>1, <1>4

-----------------------------------------------------------------------------
(* Sums of bytes: what Bytes computes, on a table of any size.             *)

\* The equation the recursive function in Bytes solves.
Pick(T) == CHOOSE x \in T : TRUE
Sums(f, g) ==
    [T \in SUBSET DOMAIN f |-> IF T = {} THEN 0 ELSE f[Pick(T)].size + g[T \ {Pick(T)}]]

\* It has a solution: one for the sets of at most n keys gives one for the sets
\* of at most n + 1.
LEMMA SumsExist ==
    ASSUME NEW f, IsFiniteSet(DOMAIN f)
    PROVE  \E g : g = Sums(f, g)
<1> DEFINE S == SUBSET DOMAIN f
           UpTo(n) == {T \in S : Cardinality(T) <= n}
           Good == {n \in Nat : \E g : \A T \in UpTo(n) : g[T] = Sums(f, g)[T]}
<1>1. \A T \in S : IsFiniteSet(T) /\ Cardinality(T) \in Nat /\ Cardinality(T) <= Cardinality(DOMAIN f)
  BY FS_Subset, FS_CardinalityType
<1>2. ASSUME NEW T \in S, T # {}
      PROVE  T \ {Pick(T)} \in S /\ Cardinality(T \ {Pick(T)}) = Cardinality(T) - 1
  BY <1>1, <1>2, FS_RemoveElement DEF Pick
<1>3. 0 \in Good
  <2>1. \A T \in UpTo(0) : T = {}
    BY <1>1, FS_EmptySet
  <2>2. \A T \in UpTo(0) : [T1 \in S |-> 0][T] = Sums(f, [T1 \in S |-> 0])[T]
    BY <2>1 DEF Sums
  <2> QED
    BY <2>2
<1>4. ASSUME NEW n \in Nat, n \in Good PROVE n + 1 \in Good
  <2>1. PICK g : \A T \in UpTo(n) : g[T] = Sums(f, g)[T]
    BY <1>4
  <2> DEFINE h == [T \in S |-> IF T \in UpTo(n) THEN g[T] ELSE Sums(f, g)[T]]
  <2>2. \A T \in S : h[T] = Sums(f, g)[T]
    BY <2>1
  <2>3. ASSUME NEW T \in UpTo(n + 1), T # {} PROVE h[T \ {Pick(T)}] = g[T \ {Pick(T)}]
    BY <1>1, <1>2, <2>3
  <2>4. ASSUME NEW T \in UpTo(n + 1) PROVE Sums(f, h)[T] = Sums(f, g)[T]
    <3> HIDE DEF h
    <3> QED
      BY <2>3 DEF Sums
  <2>5. \A T \in UpTo(n + 1) : h[T] = Sums(f, h)[T]
    BY <2>2, <2>4
  <2> HIDE DEF h
  <2> QED
    BY <2>5
<1>5. Cardinality(DOMAIN f) \in Good
  <2> HIDE DEF Good
  <2> QED
    BY <1>3, <1>4, Induct, FS_CardinalityType
<1>6. PICK g : \A T \in S : g[T] = Sums(f, g)[T]
  BY <1>1, <1>5
<1> DEFINE h == [T \in S |-> g[T]]
<1>7. h = Sums(f, h)
  BY <1>6 DEF Sums, Pick
<1> HIDE DEF h
<1> QED
  BY <1>7

Sized(f) == IsFiniteSet(DOMAIN f) /\ \A k \in DOMAIN f : f[k].size \in Nat

IsSum(f, g) ==
    /\ g \in [SUBSET DOMAIN f -> Nat]
    /\ g[{}] = 0
    /\ \A T \in SUBSET DOMAIN f : \A x \in T : g[T] = f[x].size + g[T \ {x}]

\* The solution takes off a set any of its keys, not only the one it picks.
LEMMA SumsAre ==
    ASSUME NEW f, Sized(f)
    PROVE  \E g : Bytes(f) = g[DOMAIN f] /\ IsSum(f, g)
<1> USE DEF Sized
<1> DEFINE g == CHOOSE g : g = Sums(f, g)
           S == SUBSET DOMAIN f
           UpTo(n) == {T \in S : Cardinality(T) <= n}
           Fine(T) == g[T] \in Nat /\ \A x \in T : g[T] = f[x].size + g[T \ {x}]
           Good == {n \in Nat : \A T \in UpTo(n) : Fine(T)}
<1>1. Bytes(f) = g[DOMAIN f]
  BY DEF Bytes, MapThenSumSet, MapThenFoldSet, Sums, Pick
<1>2. g = Sums(f, g)
  BY SumsExist
<1> HIDE DEF g
<1>3. \A T \in S : IsFiniteSet(T) /\ Cardinality(T) \in Nat
  BY FS_Subset, FS_CardinalityType
<1>4. ASSUME NEW T \in S, NEW x \in T
      PROVE  T \ {x} \in S /\ Cardinality(T \ {x}) = Cardinality(T) - 1
  BY <1>3, <1>4, FS_RemoveElement
<1>5. ASSUME NEW T \in S, T # {}
      PROVE Pick(T) \in T /\ g[T] = f[Pick(T)].size + g[T \ {Pick(T)}]
  BY <1>2, <1>5 DEF Sums, Pick
<1>6. g[{}] = 0
  BY <1>2 DEF Sums
<1>7. ASSUME NEW n \in Nat, \A T \in UpTo(n) : Fine(T), NEW T \in UpTo(n + 1), T # {}
      PROVE  Fine(T)
  <2>1. ASSUME NEW x \in T
        PROVE  T \ {x} \in UpTo(n) /\ Fine(T \ {x}) /\ f[x].size \in Nat
    <3>1. Cardinality(T) \in Nat /\ Cardinality(T) <= n + 1
      BY <1>3
    <3>2. T \ {x} \in S /\ Cardinality(T \ {x}) = Cardinality(T) - 1
      BY <1>4
    <3>3. T \ {x} \in UpTo(n)
      <4>1. Cardinality(T \ {x}) <= n
        BY <3>1, <3>2
      <4> QED
        BY <3>2, <4>1
    <3> QED
      BY <3>3, <1>7
  <2>2. PICK p \in T : g[T] = f[p].size + g[T \ {p}]
    BY <1>5, <1>7
  <2>3. g[T] \in Nat
    <3>1. f[p].size \in Nat /\ g[T \ {p}] \in Nat
      BY <2>1
    <3> QED
      BY <2>2, <3>1
  <2>4. ASSUME NEW x \in T, x # p PROVE g[T] = f[x].size + g[T \ {x}]
    <3>1. (T \ {p}) \ {x} = (T \ {x}) \ {p}
      OBVIOUS
    <3>2. (T \ {x}) \ {p} \in UpTo(n)
      <4>1. T \ {x} \in S /\ Cardinality(T \ {x}) <= n
        BY <2>1
      <4>2. (T \ {x}) \ {p} \in S /\ Cardinality((T \ {x}) \ {p}) <= Cardinality(T \ {x})
        <5> DEFINE R == T \ {x}
        <5>1. R \in S /\ p \in R
          BY <4>1, <2>4
        <5> HIDE DEF R, S
        <5>2. R \ {p} \in S /\ Cardinality(R \ {p}) = Cardinality(R) - 1 /\ Cardinality(R) \in Nat
          BY <5>1, <1>3, <1>4
        <5> QED
          BY <5>2 DEF R
      <4>3. Cardinality((T \ {x}) \ {p}) \in Nat /\ Cardinality(T \ {x}) \in Nat
        BY <1>3, <4>1, <4>2
      <4> QED
        BY <4>1, <4>2, <4>3
    <3>3. g[(T \ {x}) \ {p}] \in Nat
      BY <1>7, <3>2
    <3>4. g[T \ {p}] = f[x].size + g[(T \ {x}) \ {p}]
      BY <2>1, <2>4, <3>1
    <3>5. g[T \ {x}] = f[p].size + g[(T \ {x}) \ {p}]
      BY <2>1, <2>4
    <3>6. f[x].size \in Nat /\ f[p].size \in Nat
      BY <2>1
    <3> QED
      BY <2>2, <3>3, <3>4, <3>5, <3>6
  <2> QED
    BY <2>2, <2>3, <2>4
<1>8. Nat \subseteq Good
  <2>1. 0 \in Good
    BY <1>3, <1>6, FS_EmptySet
  <2>2. ASSUME NEW n \in Nat, n \in Good PROVE n + 1 \in Good
    <3>1. \A T \in UpTo(n) : Fine(T)
      BY <2>2
    <3>2. ASSUME NEW T \in UpTo(n + 1) PROVE Fine(T)
      <4>1. CASE T = {}
        BY <4>1, <1>6
      <4>2. CASE T # {}
        <5> HIDE DEF UpTo, Fine
        <5> QED
          BY <4>2, <3>1, <1>7
      <4> QED
        BY <4>1, <4>2
    <3> QED
      BY <3>2
  <2> HIDE DEF Good
  <2> QED
    BY <2>1, <2>2, Induct
<1>9. \A T \in S : Fine(T)
  BY <1>3, <1>8
<1>10. IsSum(f, g)
  BY <1>2, <1>6, <1>9 DEF IsSum, Sums
<1> QED
  BY <1>1, <1>10

\* h has some of the keys of f, with the same sizes.
Part(h, f) == DOMAIN h \subseteq DOMAIN f /\ \A k \in DOMAIN h : h[k].size = f[k].size

IsMeasure(f, g) ==
    /\ g \in [SUBSET DOMAIN f -> Nat]
    /\ g[{}] = 0
    /\ \A k \in DOMAIN f : g[{k}] = f[k].size
    /\ \A A, B \in SUBSET DOMAIN f : A \cap B = {} => g[A \cup B] = g[A] + g[B]
    /\ \A h : Part(h, f) => Bytes(h) = g[DOMAIN h]

\* One additive function on sets of keys gives the bytes of every part of f.
LEMMA PartSums ==
    ASSUME NEW f, Sized(f)
    PROVE  \E g : IsMeasure(f, g)
<1> DEFINE S == SUBSET DOMAIN f
<1>1. PICK g : IsSum(f, g)
  BY SumsAre
<1>2. g \in [S -> Nat] /\ g[{}] = 0
  BY <1>1 DEF IsSum
<1>3. ASSUME NEW k \in DOMAIN f PROVE g[{k}] = f[k].size
  <2>1. {k} \in S /\ {k} \ {k} = {} /\ f[k].size \in Nat
    BY DEF Sized
  <2>2. g[{k}] = f[k].size + g[{k} \ {k}]
    BY <1>1, <2>1 DEF IsSum
  <2>3. g[{k} \ {k}] = 0
    BY <1>2, <2>1
  <2> QED
    BY <2>1, <2>2, <2>3
<1>4. ASSUME NEW A \in S, NEW B \in S, A \cap B = {} PROVE g[A \cup B] = g[A] + g[B]
  <2> DEFINE P == {T \in SUBSET A : g[T \cup B] = g[T] + g[B]}
  <2>1. {} \in P
    <3>1. {} \cup B = B /\ g[B] \in Nat
      BY <1>2
    <3> QED
      BY <1>2, <3>1
  <2>2. ASSUME NEW T \in SUBSET A, NEW x \in A, x \notin T, T \in P PROVE T \cup {x} \in P
    <3>1. /\ (T \cup {x}) \cup B \in S
          /\ ((T \cup {x}) \cup B) \ {x} = T \cup B
          /\ T \cup {x} \in S /\ (T \cup {x}) \ {x} = T
      BY <1>4, <2>2
    <3>2. g[(T \cup {x}) \cup B] = f[x].size + g[T \cup B]
      BY <1>1, <3>1 DEF IsSum
    <3>3. g[T \cup {x}] = f[x].size + g[T]
      BY <1>1, <3>1 DEF IsSum
    <3>4. f[x].size \in Nat /\ g[T] \in Nat /\ g[B] \in Nat
      BY <1>2 DEF Sized
    <3> QED
      BY <2>2, <3>2, <3>3, <3>4
  <2>3. IsFiniteSet(A)
    BY FS_Subset DEF Sized
  <2>4. SUBSET A \subseteq P
    <3> HIDE DEF P
    <3> QED
      BY <2>1, <2>2, <2>3, SubsetInduct
  <2> QED
    BY <2>4
<1>5. ASSUME NEW h, Part(h, f) PROVE Bytes(h) = g[DOMAIN h]
  <2>1. Sized(h)
    BY <1>5, FS_Subset DEF Part, Sized
  <2>2. PICK e : Bytes(h) = e[DOMAIN h] /\ IsSum(h, e)
    BY <2>1, SumsAre
  <2> DEFINE D == DOMAIN h
             P == {T \in SUBSET D : e[T] = g[T]}
  <2>3. {} \in P
    BY <1>2, <2>2 DEF IsSum
  <2>4. ASSUME NEW T \in SUBSET D, NEW x \in D, x \notin T, T \in P
        PROVE  T \cup {x} \in P
    <3>1. T \cup {x} \in SUBSET DOMAIN h /\ T \cup {x} \in S /\ (T \cup {x}) \ {x} = T
      BY <1>5, <2>4 DEF Part
    <3>2. e[T \cup {x}] = h[x].size + e[T] /\ g[T \cup {x}] = f[x].size + g[T]
      BY <1>1, <2>2, <3>1 DEF IsSum
    <3> QED
      BY <1>5, <2>4, <3>1, <3>2 DEF Part
  <2>5. SUBSET D \subseteq P
    <3>1. IsFiniteSet(D)
      BY <2>1 DEF Sized
    <3> HIDE DEF P, D
    <3> QED
      BY <3>1, <2>3, <2>4, SubsetInduct
  <2> QED
    BY <2>2, <2>5
<1> QED
  BY <1>2, <1>3, <1>4, <1>5 DEF IsMeasure

LEMMA BytesNat ==
    ASSUME NEW f, Sized(f)
    PROVE  Bytes(f) \in Nat /\ (DOMAIN f = {} => Bytes(f) = 0)
<1>. PICK g : IsMeasure(f, g)
  BY PartSums
<1>1. Part(f, f)
  BY DEF Part
<1> QED
  BY <1>1 DEF IsMeasure

LEMMA BytesPart ==
    ASSUME NEW f, Sized(f), NEW h, Part(h, f)
    PROVE  Bytes(h) <= Bytes(f) /\ (DOMAIN f = DOMAIN h => Bytes(h) = Bytes(f))
<1>1. PICK g : IsMeasure(f, g)
  BY PartSums
<1> DEFINE A == DOMAIN h
           B == DOMAIN f \ DOMAIN h
<1>2. Bytes(h) = g[A] /\ Bytes(f) = g[DOMAIN f]
  BY <1>1 DEF IsMeasure, Part
<1>3. A \cup B = DOMAIN f /\ A \cap B = {} /\ A \in SUBSET DOMAIN f /\ B \in SUBSET DOMAIN f
  BY DEF Part
<1>4. g[A] \in Nat /\ g[B] \in Nat /\ g[A \cup B] = g[A] + g[B]
  BY <1>1, <1>3 DEF IsMeasure
<1> QED
  BY <1>2, <1>3, <1>4

LEMMA BytesSplit ==
    ASSUME NEW f, Sized(f), NEW d, Part(d, f), NEW e, Part(e, f),
           DOMAIN d \cap DOMAIN e = {}, DOMAIN d \cup DOMAIN e = DOMAIN f
    PROVE  Bytes(f) = Bytes(d) + Bytes(e)
<1>. PICK g : IsMeasure(f, g)
  BY PartSums
<1> DEFINE A == DOMAIN d
           B == DOMAIN e
<1>1. Part(f, f) /\ A \in SUBSET DOMAIN f /\ B \in SUBSET DOMAIN f
  BY DEF Part
<1>2. Bytes(f) = g[DOMAIN f] /\ Bytes(d) = g[A] /\ Bytes(e) = g[B]
  BY <1>1 DEF IsMeasure
<1>3. A \cap B = {} /\ A \cup B = DOMAIN f
  OBVIOUS
<1> HIDE DEF A, B
<1>4. g[A \cup B] = g[A] + g[B]
  BY <1>1, <1>3 DEF IsMeasure
<1> QED
  BY <1>2, <1>3, <1>4

LEMMA BytesOne ==
    ASSUME NEW f, NEW k, Sized(f), DOMAIN f = {k}
    PROVE  Bytes(f) = f[k].size
<1>. PICK g : IsMeasure(f, g)
  BY PartSums
<1>1. Part(f, f)
  BY DEF Part
<1> QED
  BY <1>1 DEF IsMeasure

LEMMA PartSized ==
    ASSUME NEW f, Sized(f), NEW h, Part(h, f)
    PROVE  Sized(h)
BY FS_Subset DEF Part, Sized

\* Writing one entry adds at most its size.
LEMMA BytesWith ==
    ASSUME NEW f, Sized(f), NEW k, NEW v, v.size \in Nat
    PROVE  /\ Sized(With(f, k, v))
           /\ Bytes(With(f, k, v)) <= Bytes(f) + v.size
<1> DEFINE g == With(f, k, v)
           d == Restrict(g, {k})
           e == Restrict(g, DOMAIN f \ {k})
<1>1. DOMAIN g = DOMAIN f \cup {k} /\ g[k] = v /\ \A j \in DOMAIN f \ {k} : g[j] = f[j]
  BY DEF With
<1>2. Sized(g)
  BY <1>1, FS_AddElement DEF Sized
<1>3. DOMAIN d = {k} /\ d[k] = v /\ Part(d, g)
  BY <1>1 DEF Restrict, Part
<1>4. DOMAIN e = DOMAIN f \ {k} /\ Part(e, g) /\ Part(e, f)
  BY <1>1 DEF Restrict, Part
<1> HIDE DEF g, d, e
<1>5. Bytes(g) = Bytes(d) + Bytes(e)
  <2>1. DOMAIN d \cap DOMAIN e = {} /\ DOMAIN d \cup DOMAIN e = DOMAIN g
    BY <1>1, <1>3, <1>4
  <2>2. Part(d, g) /\ Part(e, g)
    BY <1>3, <1>4
  <2> QED
    BY <1>2, <2>1, <2>2, BytesSplit
<1>6. Sized(d) /\ Bytes(d) = v.size
  <2>1. IsFiniteSet({k})
    BY FS_Singleton
  <2>2. DOMAIN d = {k} /\ d[k].size \in Nat
    BY <1>3
  <2>3. Sized(d)
    BY <2>1, <2>2 DEF Sized
  <2> QED
    BY <1>3, <2>2, <2>3, BytesOne
<1>7. Sized(e)
  BY <1>4, FS_RemoveElement DEF Sized, Part
<1>8. Bytes(e) \in Nat /\ Bytes(f) \in Nat /\ Bytes(e) <= Bytes(f)
  BY <1>4, <1>7, BytesNat, BytesPart
<1>9. Bytes(g) <= Bytes(f) + v.size
  BY <1>5, <1>6, <1>8
<1> QED
  BY <1>2, <1>9 DEF g

LEMMA WithoutParts ==
    ASSUME NEW f, Sized(f), NEW A
    PROVE  Sized(Without(f, A)) /\ Part(Without(f, A), f) /\ Bytes(Without(f, A)) \in Nat
<1>1. Part(Without(f, A), f)
  BY DEF Part, Without, Restrict
<1> QED
  BY <1>1, PartSized, BytesNat

\* Taking one more key out takes off just its size.
LEMMA OneLess ==
    ASSUME NEW f, Sized(f), NEW A, NEW k \in DOMAIN f \ A
    PROVE  Bytes(Without(f, A)) = f[k].size + Bytes(Without(f, A \cup {k}))
<1> DEFINE g == Without(f, A)
           d == Restrict(f, {k})
           e == Without(f, A \cup {k})
<1>1. Sized(g) /\ Sized(e)
  BY WithoutParts
<1>2. /\ DOMAIN g = DOMAIN f \ A
      /\ DOMAIN d = {k} /\ d[k] = f[k] /\ Part(d, g)
      /\ DOMAIN e = DOMAIN g \ {k} /\ Part(e, g)
  BY DEF Without, Restrict, Part
<1> HIDE DEF g, d, e
<1>3. Bytes(g) = Bytes(d) + Bytes(e)
  BY <1>1, <1>2, BytesSplit
<1>4. Sized(d)
  BY <1>1, <1>2, PartSized
<1>5. Bytes(d) = f[k].size
  BY <1>2, <1>4, BytesOne
<1> QED
  BY <1>3, <1>5 DEF g, e

-----------------------------------------------------------------------------
(* Types.                                                                  *)

LEMMA MaxOfTwo ==
    ASSUME NEW a \in Nat, NEW b \in Nat
    PROVE  Max({a, b}) \in Nat /\ a <= Max({a, b}) /\ b <= Max({a, b})
<1>1. \E x \in {a, b} : \A y \in {a, b} : x >= y
  <2>1. CASE a >= b
    BY <2>1
  <2>2. CASE b >= a
    BY <2>2
  <2> QED
    BY <2>1, <2>2
<1> QED
  BY <1>1 DEF Max

LEMMA PartialFunctions ==
    ASSUME NEW S, NEW T
    PROVE  /\ Empty \in PartialFunction(S, T)
           /\ \A f \in PartialFunction(S, T) : DOMAIN f \subseteq S /\ \A k \in DOMAIN f : f[k] \in T
           /\ \A f \in PartialFunction(S, T) : \A A : Without(f, A) \in PartialFunction(S, T)
           /\ \A f \in PartialFunction(S, T), k \in S, v \in T : With(f, k, v) \in PartialFunction(S, T)
<1>1. \A D \in SUBSET S : \A f \in [D -> T] : f \in PartialFunction(S, T)
  BY DEF PartialFunction
<1>2. \A f \in PartialFunction(S, T) : DOMAIN f \in SUBSET S /\ f \in [DOMAIN f -> T]
  BY DEF PartialFunction
<1>3. Empty \in PartialFunction(S, T)
  <2>1. Empty \in [{} -> T]
    BY DEF Empty
  <2> QED
    BY <1>1, <2>1
<1>4. ASSUME NEW f \in PartialFunction(S, T), NEW A PROVE Without(f, A) \in PartialFunction(S, T)
  <2>1. Without(f, A) \in [DOMAIN f \ A -> T]
    BY <1>2 DEF Without, Restrict
  <2> QED
    BY <1>1, <1>2, <2>1
<1>5. ASSUME NEW f \in PartialFunction(S, T), NEW k \in S, NEW v \in T
      PROVE  With(f, k, v) \in PartialFunction(S, T)
  <2>1. With(f, k, v) \in [DOMAIN f \cup {k} -> T]
    BY <1>2 DEF With
  <2>2. DOMAIN f \cup {k} \in SUBSET S
    BY <1>2
  <2> QED
    BY <1>1, <2>1, <2>2
<1> QED
  BY <1>2, <1>3, <1>4, <1>5

LEMMA Entries ==
    ASSUME TypeOK
    PROVE  \A f : f \in {file, scan} => Sized(f)
<1>1. ASSUME NEW f \in PartialFunction(Key, Entry) PROVE Sized(f)
  <2>1. DOMAIN f \in SUBSET Key /\ \A k \in DOMAIN f : f[k].size \in Nat
    <3>1. DOMAIN f \in SUBSET Key /\ \A k \in DOMAIN f : f[k] \in Entry
      BY PartialFunctions
    <3> QED
      BY <3>1, CleanerAssumption DEF Entry
  <2> QED
    BY <2>1, FS_Subset, CleanerAssumption DEF Sized
<1> QED
  BY <1>1 DEF TypeOK

-----------------------------------------------------------------------------
(* The inductive invariant.                                                *)

\* What a run has counted, at each of its stages.
Counted ==
    /\ cpc = "list" => deleted = {}
    /\ cpc = "evict" =>
        /\ todo \subseteq DOMAIN scan \ deleted
        /\ deleted \subseteq DOMAIN scan
        /\ remaining = Bytes(Without(scan, deleted))
    /\ cpc = "gc" =>
        /\ DOMAIN scan \cap deleted = {}
        /\ todo \subseteq DOMAIN scan
        /\ todo = {} \/ Bytes(scan) <= Limit

\* The files that are not as the list has them.
Fresh ==
    {k \in DOMAIN file :
        /\ ~ (k \in DOMAIN scan \ deleted /\ scan[k].size = file[k].size)
        /\ ~ (cpc = "list" /\ k \in todo)}

FreshIsWritten == cpc # "idle" => Bytes(Restrict(file, Fresh)) <= written

Listed ==
    cpc # "idle" =>
        /\ Key \ DOMAIN file \subseteq absent
        /\ Key \ (DOMAIN scan \cup (IF cpc = "list" THEN todo ELSE {})) \subseteq absent
        /\ deleted \subseteq absent

IInv == TypeOK /\ Counted /\ EvictsNoMoreThanNeeded /\ FreshIsWritten /\ Listed

LEMMA InitIInv == Init => IInv
<1> SUFFICES ASSUME Init PROVE IInv
  OBVIOUS
<1> USE DEF Init
<1>1. file \in PartialFunction(Key, Entry)
  <2>1. [size: Size, mtime: {0}] \subseteq Entry
    BY CleanerAssumption DEF Entry
  <2> QED
    BY <2>1 DEF PartialFunction
<1>2. tracker \in PartialFunction(Key, 0 .. MaxTime) /\ scan \in PartialFunction(Key, Entry)
  BY PartialFunctions
<1>3. TypeOK
  BY <1>1, <1>2, CleanerAssumption DEF TypeOK, NoPurge
<1> QED
  BY <1>3 DEF IInv, Counted, EvictsNoMoreThanNeeded, FreshIsWritten, Listed

LEMMA TypeStep == TypeOK /\ Counted /\ [Next]_vars => TypeOK'
<1> SUFFICES ASSUME TypeOK, Counted, [Next]_vars PROVE TypeOK'
  OBVIOUS
<1>1. /\ \A A : Without(file, A) \in PartialFunction(Key, Entry)
      /\ \A A : Without(scan, A) \in PartialFunction(Key, Entry)
      /\ \A A : Without(tracker, A) \in PartialFunction(Key, 0 .. MaxTime)
  BY PartialFunctions DEF TypeOK
<1>2. /\ DOMAIN file \subseteq Key /\ \A k \in DOMAIN file : file[k] \in Entry
      /\ DOMAIN scan \subseteq Key /\ \A k \in DOMAIN scan : scan[k] \in Entry
  BY PartialFunctions DEF TypeOK
<1>3. Sized(file) /\ Sized(scan)
  BY Entries
<1>4. CASE UNCHANGED vars
  BY <1>4 DEF vars, cleanerVars, TypeOK
<1>5. CASE Requests
  <2> PICK k \in Key : \/ Hit(k) \/ Fetched(k) \/ \E size \in Size : AsyncL1Put(k, size)
                       \/ AsyncL1PutFails(k) \/ AsyncTrackerSet(k)
    BY <1>5 DEF Requests
  <2> USE DEF cleanerVars, TypeOK
  <2>1. CASE Hit(k) \/ Fetched(k) \/ AsyncL1PutFails(k)
    <3>1. CASE Hit(k)
      BY <3>1, CleanerAssumption DEF Hit
    <3>2. CASE Fetched(k)
      BY <3>2, CleanerAssumption DEF Fetched
    <3>3. CASE AsyncL1PutFails(k)
      BY <3>3 DEF AsyncL1PutFails
    <3> QED
      BY <2>1, <3>1, <3>2, <3>3, Zenon
  <2>2. ASSUME NEW size \in Size, AsyncL1Put(k, size) PROVE TypeOK'
    <3>1. [size |-> size, mtime |-> now] \in Entry /\ size \in Nat
      BY CleanerAssumption DEF Entry
    <3>2. With(file, k, [size |-> size, mtime |-> now]) \in PartialFunction(Key, Entry)
      BY <3>1, PartialFunctions
    <3> QED
      BY <2>2, <3>1, <3>2 DEF AsyncL1Put
  <2>3. CASE AsyncTrackerSet(k)
    <3>1. With(tracker, k, now) \in PartialFunction(Key, 0 .. MaxTime)
      BY PartialFunctions
    <3> QED
      BY <2>3, <3>1 DEF AsyncTrackerSet
  <2> QED
    BY <2>1, <2>2, <2>3
<1>6. CASE Admin
  <2> USE DEF cleanerVars, TypeOK, RemoveFiles
  <2>1. ASSUME NEW k \in Key, Purge(k) PROVE TypeOK'
    BY <2>1, <1>1 DEF Purge
  <2>2. CASE PurgeAllLists
    BY <2>2, <1>2 DEF PurgeAllLists
  <2>3. ASSUME NEW k \in Key, PurgeAllDeletes(k) PROVE TypeOK'
    <3>1. purge' \in [active: BOOLEAN, listed: SUBSET Key, todo: SUBSET Key]
      BY <2>3 DEF PurgeAllDeletes
    <3> QED
      BY <2>3, <3>1, <1>1 DEF PurgeAllDeletes
  <2>4. CASE PurgeAllEnds
    BY <2>4, <1>1 DEF PurgeAllEnds, NoPurge
  <2> QED
    BY <1>6, <2>1, <2>2, <2>3, <2>4 DEF Admin
<1>7. CASE Tick
  BY <1>7, CleanerAssumption DEF Tick, cleanerVars, TypeOK
<1>8. CASE RunOnce
  <2> USE DEF TypeOK, RemoveFiles
  <2>1. CASE ListDir
    BY <2>1, <1>2, PartialFunctions DEF ListDir
  <2>2. ASSUME NEW k \in Key, Info(k) PROVE TypeOK'
    <3>1. scan' \in PartialFunction(Key, Entry)
      BY <2>2, <1>2, PartialFunctions DEF Info
    <3>2. deleted' \subseteq DOMAIN scan'
      BY <2>2 DEF Info, Counted
    <3> QED
      BY <2>2, <3>1, <3>2 DEF Info
  <2>3. CASE CheckThreshold
    <3>1. Bytes(scan) \in Nat
      BY <1>3, BytesNat
    <3> QED
      BY <2>3, <3>1, <1>2 DEF CheckThreshold
  <2>4. ASSUME NEW k \in Key, Evict(k) PROVE TypeOK'
    <3>1. k \in DOMAIN scan \ deleted /\ remaining = Bytes(Without(scan, deleted))
      BY <2>4 DEF Evict, Oldest, Counted
    <3>2. remaining = scan[k].size + Bytes(Without(scan, deleted \cup {k}))
      BY <3>1, <1>3, OneLess
    <3>3. Bytes(Without(scan, deleted \cup {k})) \in Nat /\ scan[k].size \in Nat
      BY <3>1, <1>3, WithoutParts DEF Sized
    <3>4. remaining - scan[k].size \in Nat
      BY <3>2, <3>3
    <3> QED
      BY <2>4, <3>1, <3>4, <1>1 DEF Evict
  <2>5. ASSUME NEW k \in Key, EvictFails(k) PROVE TypeOK'
    BY <2>5, <1>1 DEF EvictFails
  <2>6. CASE ForgetDeleted
    BY <2>6, <1>1 DEF ForgetDeleted
  <2>7. CASE GcOrphans
    BY <2>7, <1>1 DEF GcOrphans
  <2> QED
    BY <1>8, <2>1, <2>2, <2>3, <2>4, <2>5, <2>6, <2>7 DEF RunOnce
<1> QED
  BY <1>4, <1>5, <1>6, <1>7, <1>8 DEF Next

LEMMA OthersLeaveTheRun ==
    ASSUME [Next]_vars, ~RunOnce
    PROVE  UNCHANGED cleanerVars
BY DEF Next, Requests, Hit, Fetched, AsyncL1Put, AsyncL1PutFails, AsyncTrackerSet, Admin, Purge,
   PurgeAllDeletes, PurgeAllLists, PurgeAllEnds, Tick, vars, cleanerVars

LEMMA CountedStep ==
    TypeOK /\ Counted /\ EvictsNoMoreThanNeeded /\ [Next]_vars =>
        Counted' /\ EvictsNoMoreThanNeeded'
<1> SUFFICES ASSUME TypeOK, Counted, EvictsNoMoreThanNeeded, [Next]_vars
             PROVE  Counted' /\ EvictsNoMoreThanNeeded'
  OBVIOUS
<1>1. Sized(scan)
  BY Entries
<1>2. /\ Max({MaxBytes, TgtBytes}) \in Nat
      /\ MaxBytes <= Max({MaxBytes, TgtBytes})
      /\ TgtBytes <= Max({MaxBytes, TgtBytes})
      /\ MaxBytes \in Nat /\ TgtBytes \in Nat
  BY MaxOfTwo, CleanerAssumption
<1>3. Without(scan, {}) = scan
  BY PartialFunctions DEF Without, Restrict, TypeOK, PartialFunction
<1>4. CASE UNCHANGED cleanerVars
  BY <1>4 DEF cleanerVars, Counted, EvictsNoMoreThanNeeded, Limit
<1>5. CASE ListDir
  BY <1>5 DEF ListDir, Counted, EvictsNoMoreThanNeeded
<1>6. ASSUME NEW k \in Key, Info(k) PROVE Counted' /\ EvictsNoMoreThanNeeded'
  BY <1>6 DEF Info, Counted, EvictsNoMoreThanNeeded
<1>7. CASE CheckThreshold
  <2>1. /\ cpc = "list" /\ todo' = DOMAIN scan /\ remaining' = Bytes(scan)
        /\ scan' = scan /\ deleted' = deleted
        /\ cpc' = IF Bytes(scan) <= MaxBytes THEN "gc" ELSE "evict"
    BY <1>7 DEF CheckThreshold
  <2>2. deleted = {} /\ Limit' = Max({MaxBytes, TgtBytes}) /\ Bytes(scan) \in Nat
    BY <2>1, <1>1, BytesNat DEF Counted, Limit
  <2>3. cpc' = "gc" => Bytes(scan) <= Limit'
    BY <2>1, <2>2, <1>2
  <2> QED
    BY <2>1, <2>2, <2>3, <1>3 DEF Counted, EvictsNoMoreThanNeeded
<1>8. ASSUME NEW k \in Key, Evict(k) PROVE Counted' /\ EvictsNoMoreThanNeeded'
  <2>1. /\ cpc = "evict" /\ k \in todo /\ remaining > TgtBytes /\ cpc' = "evict"
        /\ todo' = todo \ {k} /\ deleted' = deleted \cup {k} /\ scan' = scan
        /\ remaining' = remaining - scan[k].size
    BY <1>8 DEF Evict, Oldest
  <2>2. /\ k \in DOMAIN scan \ deleted /\ remaining = Bytes(Without(scan, deleted))
        /\ todo \subseteq DOMAIN scan \ deleted /\ deleted \subseteq DOMAIN scan
    BY <2>1 DEF Counted
  <2>3. remaining = scan[k].size + Bytes(Without(scan, deleted \cup {k}))
    BY <2>2, <1>1, OneLess
  <2>4. Bytes(Without(scan, deleted \cup {k})) \in Nat /\ scan[k].size \in Nat
    BY <2>2, <1>1, WithoutParts DEF Sized
  <2>5. remaining' = Bytes(Without(scan, deleted'))
    BY <2>1, <2>3, <2>4
  <2>6. deleted' \ {k} = deleted
    BY <2>1, <2>2
  <2>7. Bytes(Without(scan, deleted' \ {k})) > TgtBytes
    BY <2>1, <2>2, <2>6
  <2>8. todo' \subseteq DOMAIN scan' \ deleted' /\ deleted' \subseteq DOMAIN scan'
    BY <2>1, <2>2
  <2>9. remaining' = Bytes(Without(scan', deleted')) /\ cpc' = "evict"
    BY <2>1, <2>5
  <2>10. Counted'
    BY <2>8, <2>9 DEF Counted
  <2> QED
    BY <2>1, <2>7, <2>10 DEF EvictsNoMoreThanNeeded
<1>9. ASSUME NEW k \in Key, EvictFails(k) PROVE Counted' /\ EvictsNoMoreThanNeeded'
  BY <1>9 DEF EvictFails, Counted, EvictsNoMoreThanNeeded
<1>10. CASE ForgetDeleted
  <2>1. /\ cpc = "evict" /\ cpc' = "gc" /\ todo' = todo /\ deleted' = deleted
        /\ scan' = Without(scan, deleted) /\ DOMAIN scan' = DOMAIN scan \ deleted
        /\ remaining <= TgtBytes \/ todo = {}
    BY <1>10 DEF ForgetDeleted, Without, Restrict
  <2>2. remaining = Bytes(scan') /\ todo \subseteq DOMAIN scan \ deleted /\ remaining \in Nat
    BY <2>1 DEF Counted, TypeOK
  <2>3. TgtBytes <= Limit'
    BY <1>2 DEF Limit
  <2>4. Limit' \in Nat
    BY <1>2 DEF Limit
  <2>5. todo' = {} \/ Bytes(scan') <= Limit'
    BY <1>2, <2>1, <2>2, <2>3, <2>4
  <2> QED
    BY <2>1, <2>2, <2>5 DEF Counted, EvictsNoMoreThanNeeded
<1>11. CASE GcOrphans
  BY <1>11 DEF GcOrphans, Counted, EvictsNoMoreThanNeeded
<1> QED
  BY <1>4, <1>5, <1>6, <1>7, <1>8, <1>9, <1>10, <1>11, OthersLeaveTheRun DEF RunOnce

\* Steps that write nothing: what the disk loses it loses from Fresh as well.
LEMMA FreshShrinks ==
    ASSUME TypeOK, FreshIsWritten, cpc # "idle", written' = written, TypeOK',
           Part(file', file), Fresh' \subseteq Fresh
    PROVE  FreshIsWritten'
<1> DEFINE d == Restrict(file, Fresh)
           e == Restrict(file', Fresh')
<1>1. Part(d, file) /\ Part(e, d)
  BY DEF Part, Restrict, Fresh
<1>2. Sized(d) /\ Sized(e)
  BY <1>1, Entries, PartSized
<1> HIDE DEF d, e
<1>3. Bytes(e) <= Bytes(d) /\ Bytes(e) \in Nat /\ Bytes(d) \in Nat
  BY <1>1, <1>2, BytesPart, BytesNat
<1> QED
  BY <1>3 DEF FreshIsWritten, d, e, TypeOK

LEMMA FreshStep == TypeOK /\ Counted /\ FreshIsWritten /\ [Next]_vars /\ TypeOK' => FreshIsWritten'
<1> SUFFICES ASSUME TypeOK, Counted, FreshIsWritten, [Next]_vars, TypeOK', cpc' # "idle"
             PROVE  FreshIsWritten'
  BY DEF FreshIsWritten
<1>1. \A A : Part(Without(file, A), file)
  BY DEF Part, Without, Restrict
<1>2. Part(file, file)
  BY DEF Part
<1>3. ASSUME UNCHANGED cleanerVars, written' = written, Part(file', file) PROVE FreshIsWritten'
  <2>1. Fresh' \subseteq Fresh
    BY <1>3 DEF Fresh, Part, cleanerVars
  <2>2. cpc # "idle"
    BY <1>3 DEF cleanerVars
  <2> QED
    BY <1>3, <2>1, <2>2, FreshShrinks
<1>4. CASE UNCHANGED vars
  BY <1>4, <1>2, <1>3 DEF vars
<1>5. CASE Requests
  <2>1. ASSUME NEW k \in Key, NEW size \in Size, AsyncL1Put(k, size) PROVE FreshIsWritten'
    <3> DEFINE v == [size |-> size, mtime |-> now]
               d == Restrict(file, Fresh)
               g == With(d, k, v)
               e == Restrict(file', Fresh')
    <3>1. /\ UNCHANGED cleanerVars /\ written' = written + size /\ v.size = size
          /\ file' = With(file, k, v) /\ size \in Nat
      BY <2>1, CleanerAssumption DEF AsyncL1Put
    <3>2. Fresh' \subseteq Fresh \cup {k}
      BY <3>1 DEF Fresh, With, cleanerVars
    <3>3. Part(d, file) /\ Part(e, g)
      <4>1. Part(d, file)
        BY DEF Part, Restrict, Fresh
      <4> HIDE DEF v
      <4>2. DOMAIN e = Fresh' /\ DOMAIN g = Fresh \cup {k}
        BY DEF Restrict, With
      <4>3. ASSUME NEW j \in Fresh' PROVE e[j] = g[j]
        BY <3>1, <3>2 DEF Restrict, With, Fresh
      <4> QED
        BY <4>1, <4>2, <4>3, <3>2 DEF Part
    <3>4. Sized(d)
      BY <3>3, Entries, PartSized
    <3> HIDE DEF v, d, g, e
    <3>5. Sized(g) /\ Bytes(g) <= Bytes(d) + size
      BY <3>1, <3>4, BytesWith DEF g
    <3>6. Sized(e)
      BY <3>3, <3>5, PartSized
    <3>7. /\ Bytes(e) <= Bytes(g)
          /\ Bytes(e) \in Nat /\ Bytes(g) \in Nat /\ Bytes(d) \in Nat
      BY <3>3, <3>4, <3>5, <3>6, BytesPart, BytesNat
    <3>8. Bytes(d) <= written /\ written \in Nat
      BY <3>1 DEF FreshIsWritten, d, cleanerVars, TypeOK
    <3>9. Bytes(e) <= written'
      BY <3>1, <3>5, <3>7, <3>8
    <3> QED
      BY <3>9 DEF FreshIsWritten, e
  <2> QED
    BY <1>2, <1>3, <1>5, <2>1 DEF Requests, Hit, Fetched, AsyncL1PutFails, AsyncTrackerSet
<1>6. CASE Admin \/ Tick
  BY <1>1, <1>2, <1>3, <1>6 DEF Admin, Purge, PurgeAllDeletes, PurgeAllLists, PurgeAllEnds, Tick,
     RemoveFiles
<1>7. CASE ListDir
  <2>1. Fresh' = {} /\ written' = 0
    BY <1>7 DEF ListDir, Fresh, Empty
  <2>2. DOMAIN Restrict(file', Fresh') = {}
    BY <2>1 DEF Restrict
  <2>3. Sized(Restrict(file', Fresh'))
    BY <2>2, FS_EmptySet DEF Sized
  <2> QED
    BY <2>1, <2>2, <2>3, BytesNat DEF FreshIsWritten
<1>8. ASSUME NEW k \in Key, Info(k) PROVE FreshIsWritten'
  <2>1. Fresh' \subseteq Fresh
    BY <1>8 DEF Info, Fresh, With, Counted
  <2> QED
    BY <1>2, <1>8, <2>1, FreshShrinks DEF Info
<1>9. CASE CheckThreshold
  <2>1. Fresh' \subseteq Fresh
    BY <1>9 DEF CheckThreshold, Fresh
  <2> QED
    BY <1>2, <1>9, <2>1, FreshShrinks DEF CheckThreshold
<1>10. ASSUME NEW k \in Key, Evict(k) PROVE FreshIsWritten'
  <2>1. Fresh' \subseteq Fresh
    BY <1>10 DEF Evict, RemoveFiles, Fresh, Without, Restrict
  <2> QED
    BY <1>1, <1>10, <2>1, FreshShrinks DEF Evict, RemoveFiles
<1>11. ASSUME NEW k \in Key, EvictFails(k) PROVE FreshIsWritten'
  <2>1. Fresh' \subseteq Fresh
    BY <1>11 DEF EvictFails, RemoveFiles, Fresh, Without, Restrict
  <2> QED
    BY <1>1, <1>2, <1>11, <2>1, FreshShrinks DEF EvictFails, RemoveFiles
<1>12. CASE ForgetDeleted
  <2>1. Fresh' \subseteq Fresh
    BY <1>12 DEF ForgetDeleted, Fresh, Without, Restrict
  <2> QED
    BY <1>2, <1>12, <2>1, FreshShrinks DEF ForgetDeleted
<1>13. CASE GcOrphans
  BY <1>13 DEF GcOrphans
<1> QED
  BY <1>4, <1>5, <1>6, <1>7, <1>8, <1>9, <1>10, <1>11, <1>12, <1>13 DEF Next, RunOnce

LEMMA ListedStep == Listed /\ [Next]_vars => Listed'
<1> SUFFICES ASSUME Listed, [Next]_vars PROVE Listed'
  OBVIOUS
<1> USE DEF Listed, RemoveFiles, Without, With, Restrict
<1>1. ASSUME UNCHANGED cleanerVars,
             DOMAIN file \subseteq DOMAIN file' \cup absent',
             absent \subseteq absent'
      PROVE  Listed'
  BY <1>1 DEF cleanerVars
<1>2. CASE Requests
  BY <1>1, <1>2 DEF Requests, Hit, Fetched, AsyncL1Put, AsyncL1PutFails, AsyncTrackerSet
<1>3. CASE Admin \/ Tick
  <2>1. CASE \E k \in Key : Purge(k)
    BY <1>1, <2>1 DEF Purge
  <2>2. CASE \E k \in Key : PurgeAllDeletes(k)
    BY <1>1, <2>2 DEF PurgeAllDeletes
  <2>3. CASE PurgeAllLists \/ PurgeAllEnds
    BY <1>1, <2>3 DEF PurgeAllLists, PurgeAllEnds
  <2>4. CASE Tick
    BY <1>1, <2>4 DEF Tick
  <2> QED
    BY <1>3, <2>1, <2>2, <2>3, <2>4, Zenon DEF Admin
<1>4. CASE UNCHANGED vars
  <2>1. UNCHANGED cleanerVars /\ UNCHANGED <<file, absent>>
    BY <1>4 DEF vars, cleanerVars
  <2> QED
    BY <1>1, <2>1
<1>5. CASE ListDir
  BY <1>5 DEF ListDir, Empty
<1>6. ASSUME NEW k \in Key, Info(k) PROVE Listed'
  BY <1>6 DEF Info
<1>7. CASE CheckThreshold
  BY <1>7 DEF CheckThreshold
<1>8. ASSUME NEW k \in Key, Evict(k) PROVE Listed'
  BY <1>8 DEF Evict
<1>9. ASSUME NEW k \in Key, EvictFails(k) PROVE Listed'
  BY <1>9 DEF EvictFails
<1>10. CASE ForgetDeleted
  BY <1>10 DEF ForgetDeleted
<1>11. CASE GcOrphans
  BY <1>11 DEF GcOrphans
<1> QED
  BY <1>2, <1>3, <1>4, <1>5, <1>6, <1>7, <1>8, <1>9, <1>10, <1>11 DEF Next, RunOnce

LEMMA StepIInv == IInv /\ [Next]_vars => IInv'
BY TypeStep, CountedStep, FreshStep, ListedStep DEF IInv

\* At the end of a run a file is fresh, and written since, or it is on the list
\* as it is.
LEMMA WithinLimit ==
    ASSUME IInv
    PROVE  DiskWithinLimit
<1> SUFFICES ASSUME cpc = "gc" PROVE Bytes(file) <= Max({Limit, Undeletable}) + written
  BY DEF DiskWithinLimit
<1> USE DEF IInv
<1> DEFINE d == Restrict(file, Fresh)
           e == Restrict(file, DOMAIN file \ Fresh)
<1>1. Part(d, file) /\ Part(e, file) /\ Part(e, scan)
      /\ DOMAIN d \cap DOMAIN e = {} /\ DOMAIN d \cup DOMAIN e = DOMAIN file
  BY DEF Part, Restrict, Fresh
<1>2. Sized(file) /\ Sized(scan) /\ Sized(d) /\ Sized(e)
  BY <1>1, Entries, PartSized
<1>3. Bytes(d) <= written /\ written \in Nat
  BY DEF FreshIsWritten, TypeOK
<1> HIDE DEF d, e
<1>4. Bytes(file) = Bytes(d) + Bytes(e) /\ Bytes(e) <= Bytes(scan)
  BY <1>1, <1>2, BytesSplit, BytesPart
<1>5. Bytes(d) \in Nat /\ Bytes(e) \in Nat /\ Bytes(scan) \in Nat
  BY <1>2, BytesNat
<1>6. Limit \in Nat
  BY MaxOfTwo, CleanerAssumption DEF Limit
<1>7. Undeletable \in Nat /\ (todo = {} => Undeletable = Bytes(scan))
  <2>1. Sized(Without(scan, todo)) /\ Bytes(Without(scan, todo)) \in Nat /\ Part(Without(scan, todo), scan)
    BY <1>2, WithoutParts
  <2>2. todo = {} => DOMAIN Without(scan, todo) = DOMAIN scan
    BY DEF Without, Restrict
  <2> QED
    BY <2>1, <2>2, <1>2, BytesPart DEF Undeletable
<1>8. Bytes(scan) <= Limit \/ Bytes(scan) = Undeletable
  BY <1>7 DEF Counted
<1>9. /\ Max({Limit, Undeletable}) \in Nat
      /\ Limit <= Max({Limit, Undeletable})
      /\ Undeletable <= Max({Limit, Undeletable})
  BY <1>6, <1>7, MaxOfTwo
<1> QED
  BY <1>3, <1>4, <1>5, <1>6, <1>7, <1>8, <1>9

-----------------------------------------------------------------------------
\* The parts of the invariant hold together.
THEOREM Inductive == Spec => []IInv
BY InitIInv, StepIInv, PTL DEF Spec

\* The variables of the cleaner have their types: what remains is never negative.
THEOREM TypeCorrect == Spec => []TypeOK
<1>1. IInv => TypeOK
  BY DEF IInv
<1> QED
  BY <1>1, Inductive, PTL

\* runOnce leaves on the disk no more than its limit, or what it could not
\* delete, and what was written while it ran (cleanup.go:45-92).
THEOREM DiskStaysWithinLimit == Spec => []DiskWithinLimit
<1>1. IInv => DiskWithinLimit
  BY WithinLimit
<1> QED
  BY <1>1, Inductive, PTL

\* runOnce evicts no file too many (cleanup.go:80-91).
THEOREM NoEvictionTooMany == Spec => []EvictsNoMoreThanNeeded
<1>1. IInv => EvictsNoMoreThanNeeded
  BY DEF IInv
<1> QED
  BY <1>1, Inductive, PTL

(***************************************************************************)
(* DeleteKeys and gcOrphans drop only keys that have been without a file   *)
(* since the run listed the directory, whatever requests and purges do     *)
(* during the run: an entry that stays on the disk stays tracked.          *)
(***************************************************************************)
THEOREM TrackedStay == Spec => StoredKeysStayTracked
<1> DEFINE Drops == cpc' # cpc => DOMAIN tracker \ DOMAIN tracker' \subseteq absent
<1>1. ASSUME IInv, [Next]_vars PROVE Drops
  <2> SUFFICES ASSUME cpc' # cpc PROVE DOMAIN tracker \ DOMAIN tracker' \subseteq absent
    OBVIOUS
  <2>1. CASE ForgetDeleted
    BY <1>1, <2>1 DEF ForgetDeleted, IInv, Listed, Without, Restrict
  <2>2. CASE GcOrphans
    <3>1. DOMAIN tracker \subseteq Key
      BY <1>1, PartialFunctions DEF IInv, TypeOK
    <3> QED
      BY <1>1, <2>2, <3>1 DEF GcOrphans, IInv, Listed, Without, Restrict
  <2>3. CASE ListDir \/ CheckThreshold
    BY <2>3 DEF ListDir, CheckThreshold
  <2>4. \/ ForgetDeleted \/ GcOrphans \/ ListDir \/ CheckThreshold
    BY <1>1 DEF Next, RunOnce, Info, Evict, EvictFails, Requests, Hit, Fetched, AsyncL1Put,
       AsyncL1PutFails, AsyncTrackerSet, Admin, Purge, PurgeAllDeletes, PurgeAllLists,
       PurgeAllEnds, Tick, cleanerVars, vars
  <2> QED
    BY <2>1, <2>2, <2>3, <2>4
<1>2. IInv /\ [Next]_vars => [Drops]_vars
  BY <1>1
<1> QED
  BY <1>2, Inductive, PTL DEF Spec, StoredKeysStayTracked
=============================================================================
