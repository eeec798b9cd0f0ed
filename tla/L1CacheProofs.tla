--------------------------- MODULE L1CacheProofs ---------------------------
(***************************************************************************)
(* Theorems about L1Cache, for any numbers of keys, versions, goroutines   *)
(* and crashes.                                                            *)
(*                                                                         *)
(* A hit is complete because no file ever holds a part of a version        *)
(* (Complete), and what a Get has seen so far was a file (Seen).  That two *)
(* versions of a key mix only after a disturbance rests on three facts     *)
(* about Puts under way: one that no other has overlapped is the only one  *)
(* of its key (Alone); every other one has made its key mixable (Counted); *)
(* and one that is alone and has replaced the body is the last to have     *)
(* done so (Halfway).                                                      *)
(***************************************************************************)
EXTENDS L1Cache, TLAPS

Busy(w, k) == put[w].part # "none" /\ put[w].key = k

Complete == \A p \in Part, k \in Key : file[p][k] = Absent \/ Whole(file[p][k])

Seen ==
    \A r \in Reader :
        /\ get[r].at \in {"body", "meta", "hit"} => Whole(get[r].stat)
        /\ get[r].at \in {"meta", "hit"} => Whole(get[r].body)
        /\ get[r].at = "hit" => Whole(get[r].meta)

Alone ==
    \A w \in alone :
        /\ put[w].part # "none"
        /\ \A x \in Writer : Busy(x, put[w].key) => x = w

Counted == \A w \in Writer : put[w].part # "none" => w \in alone \/ put[w].key \in mixable

Halfway ==
    \A w \in alone :
        put[w].part = "meta" =>
            file["body"][put[w].key] = Absent \/ file["body"][put[w].key].of = put[w].version

Settled ==
    \A k \in Key :
        k \notin mixable /\ ~ (\E w \in Writer : put[w].part = "meta" /\ put[w].key = k) =>
            \/ file["body"][k] = Absent
            \/ file["meta"][k] = Absent
            \/ file["body"][k].of = file["meta"][k].of

IInv == TypeOK /\ Complete /\ Seen
Started == \A w \in Writer : put[w].tmp # "none" => put[w].part # "none"

Mixing == Started /\ Alone /\ Counted /\ Halfway /\ Settled

-----------------------------------------------------------------------------
LEMMA Constants ==
    /\ SomeKey \in Key
    /\ NoPut \in PutState /\ NoPut.part = "none"
    /\ NoDelete \in DeleteState /\ NoDelete.part = "none"
    /\ Absent \in Content
    /\ \A k \in Key : Fresh(k) \in GetState /\ Fresh(k).at = "stat"
<1>1. SomeKey \in Key
  BY L1Assumption DEF SomeKey
<1>2. (CHOOSE v \in Version : TRUE) \in Version
  BY L1Assumption
<1>3. Absent \in Content
  BY DEF Absent, Content
<1> QED
  BY <1>1, <1>2, <1>3 DEF NoPut, PutState, NoDelete, DeleteState, Fresh, GetState, Part

LEMMA InitIInv == Init => IInv
<1> SUFFICES ASSUME Init PROVE IInv
  OBVIOUS
<1>1. TypeOK
  BY Constants, L1Assumption DEF Init, TypeOK, GetState
<1>2. Complete /\ Seen
  BY Constants DEF Init, Complete, Seen, Absent, GetState
<1> QED
  BY <1>1, <1>2 DEF IInv

\* What one step does to the files: nothing, one file replaced, one removed.
LEMMA FileStep ==
    ASSUME TypeOK, [Next]_vars
    PROVE  \/ UNCHANGED file
           \/ \E w \in Writer : put[w].tmp = "whole" /\ Replace(w)
           \/ \E d \in Deleter :
                 del[d].part # "none" /\ file' = [file EXCEPT ![del[d].part][del[d].key] = Absent]
BY DEF Next, vars, BeginPut, CreateTemp, WriteTemp, PutFails, Rename, BeginGet, Stat, ReadBody,
   ReadMeta, ReadFails, BeginDelete, Remove, Crash

LEMMA FilesStayTyped ==
    ASSUME TypeOK, Complete, [Next]_vars
    PROVE  file' \in [Part -> [Key -> Content]] /\ Complete'
<1>1. CASE UNCHANGED file
  BY <1>1 DEF TypeOK, Complete
<1>2. ASSUME NEW w \in Writer, put[w].tmp = "whole", Replace(w)
      PROVE  file' \in [Part -> [Key -> Content]] /\ Complete'
  <2>1. put[w] \in PutState
    BY DEF TypeOK
  <2> DEFINE new == [of |-> put[w].version, whole |-> TRUE]
  <2>2. new \in Content /\ Whole(new)
    BY <2>1, L1Assumption DEF Content, Whole, PutState
  <2>3. file' = [file EXCEPT ![put[w].part][put[w].key] = new]
    BY <1>2 DEF Replace
  <2> HIDE DEF new
  <2> QED
    BY <2>2, <2>3 DEF TypeOK, Complete
<1>3. ASSUME NEW d \in Deleter, file' = [file EXCEPT ![del[d].part][del[d].key] = Absent]
      PROVE  file' \in [Part -> [Key -> Content]] /\ Complete'
  BY <1>3, Constants DEF TypeOK, Complete
<1> QED
  BY <1>1, <1>2, <1>3, FileStep

LEMMA StepIInv == IInv /\ [Next]_vars => IInv'
<1> SUFFICES ASSUME TypeOK, Complete, Seen, [Next]_vars PROVE IInv'
  BY DEF IInv
<1>1. file' \in [Part -> [Key -> Content]] /\ Complete'
  BY FilesStayTyped
<1> SUFFICES /\ put' \in [Writer -> PutState]
             /\ get' \in [Reader -> GetState] /\ Seen'
             /\ del' \in [Deleter -> DeleteState]
             /\ crashes' \in 0 .. MaxCrashes
             /\ alone' \subseteq Writer
             /\ mixable' \subseteq Key
  BY <1>1 DEF IInv, TypeOK
<1>2. CASE UNCHANGED vars
  BY <1>2 DEF vars, TypeOK, Seen, history
<1>3. ASSUME NEW w \in Writer,
             \/ \E k \in Key, v \in Version : BeginPut(w, k, v)
             \/ CreateTemp(w) \/ WriteTemp(w) \/ PutFails(w) \/ Rename(w)
      PROVE  /\ put' \in [Writer -> PutState]
             /\ UNCHANGED <<get, del, crashes>>
             /\ alone' \subseteq Writer
             /\ mixable' \subseteq Key
  <2>1. ASSUME NEW k \in Key, NEW v \in Version, BeginPut(w, k, v)
        PROVE  /\ put' \in [Writer -> PutState]
               /\ UNCHANGED <<get, del, crashes>>
               /\ alone' \subseteq Writer
               /\ mixable' \subseteq Key
    <3>1. [part |-> "body", key |-> k, version |-> v, tmp |-> "none"] \in PutState
      BY DEF PutState, Part
    <3> QED
      BY <2>1, <3>1 DEF BeginPut, TypeOK
  <2>2. CASE CreateTemp(w) \/ WriteTemp(w)
    <3>1. \A tmp \in {"partial", "whole"} : [put[w] EXCEPT !.tmp = tmp] \in PutState
      BY DEF TypeOK, PutState
    <3> QED
      BY <2>2, <3>1 DEF CreateTemp, WriteTemp, TypeOK, history
  <2>3. CASE PutFails(w)
    BY <2>3, Constants DEF PutFails, TypeOK, PutState
  <2>4. CASE Rename(w)
    <3>1. [put[w] EXCEPT !.part = "meta", !.tmp = "none"] \in PutState
      BY DEF TypeOK, PutState, Part
    <3>2. put' \in [Writer -> PutState]
      BY <2>4, <3>1, Constants DEF Rename, TypeOK
    <3>3. alone' \subseteq Writer /\ mixable' \subseteq Key
      BY <2>4 DEF Rename, Settle, history, TypeOK
    <3> QED
      BY <2>4, <3>2, <3>3 DEF Rename
  <2> QED
    BY <1>3, <2>1, <2>2, <2>3, <2>4
<1>4. ASSUME NEW r \in Reader,
             \/ \E k \in Key : BeginGet(r, k)
             \/ Stat(r) \/ ReadBody(r) \/ ReadMeta(r) \/ ReadFails(r)
      PROVE  /\ get' \in [Reader -> GetState]
             /\ Seen'
             /\ UNCHANGED <<put, del, crashes, alone, mixable>>
  <2>0. get[r] \in GetState /\ get[r].key \in Key
    BY DEF TypeOK, GetState
  <2>1. CASE \E k \in Key : BeginGet(r, k)
    BY <2>1, Constants DEF BeginGet, TypeOK, Seen, history
  <2>2. CASE Stat(r)
    BY <2>2, <2>0 DEF Stat, TypeOK, Complete, Seen, GetState, history, Part
  <2>3. CASE ReadBody(r)
    BY <2>3, <2>0 DEF ReadBody, TypeOK, Complete, Seen, GetState, history, Part
  <2>4. CASE ReadMeta(r)
    BY <2>4, <2>0 DEF ReadMeta, TypeOK, Complete, Seen, GetState, history, Part
  <2>5. CASE ReadFails(r)
    BY <2>5 DEF ReadFails, TypeOK, Seen, GetState, history
  <2> QED
    BY <1>4, <2>1, <2>2, <2>3, <2>4, <2>5
<1>5. ASSUME NEW d \in Deleter, (\E k \in Key : BeginDelete(d, k)) \/ Remove(d)
      PROVE  /\ del' \in [Deleter -> DeleteState]
             /\ UNCHANGED <<put, get, crashes, alone, mixable>>
  BY <1>5, Constants DEF BeginDelete, Remove, TypeOK, DeleteState, Part, history
<1>6. CASE Crash
  <2>1. /\ put' \in [Writer -> PutState]
        /\ del' \in [Deleter -> DeleteState]
        /\ get' \in [Reader -> GetState] /\ Seen'
    BY <1>6, Constants DEF Crash, Seen, GetState
  <2>2. crashes' \in 0 .. MaxCrashes
    BY <1>6, L1Assumption DEF Crash, TypeOK
  <2>3. mixable' \subseteq Key
    BY <1>6 DEF Crash, TypeOK, PutState
  <2> QED
    BY <1>6, <2>1, <2>2, <2>3 DEF Crash
<1> QED
  BY <1>2, <1>3, <1>4, <1>5, <1>6 DEF Next, TypeOK, Seen

LEMMA Inductive == Spec => []IInv
BY InitIInv, StepIInv, PTL DEF Spec

(***************************************************************************)
(* Every behaviour of Put, Get and Delete keeps the types of the state.    *)
(***************************************************************************)
THEOREM TypeCorrect == Spec => []TypeOK
<1>1. IInv => TypeOK
  BY DEF IInv
<1> QED
  BY <1>1, Inductive, PTL

(***************************************************************************)
(* A Get that hits has read two complete files: neither a crash nor a Put  *)
(* that fails leaves a part of a version under the entry's name.           *)
(***************************************************************************)
THEOREM HitsComplete == Spec => []HitsAreComplete
<1>1. IInv => HitsAreComplete
  BY DEF IInv, Seen, HitsAreComplete
<1> QED
  BY <1>1, Inductive, PTL

(***************************************************************************)
(* A file of the cache is removed by Delete alone; Put replaces it with a  *)
(* rename or leaves it.                                                    *)
(***************************************************************************)
THEOREM PutsKeep == Spec => PutsKeepTheOld
<1> DEFINE Kept == \A p \in Part, k \in Key :
                      file[p][k] # Absent /\ file'[p][k] = Absent =>
                          \E d \in Deleter : del[d] = [part |-> p, key |-> k]
<1>1. ASSUME IInv, [Next]_vars PROVE Kept
  <2> SUFFICES ASSUME NEW p \in Part, NEW k \in Key,
                      file[p][k] # Absent, file'[p][k] = Absent
               PROVE  \E d \in Deleter : del[d] = [part |-> p, key |-> k]
    OBVIOUS
  <2>0. TypeOK
    BY <1>1 DEF IInv
  <2>1. CASE UNCHANGED file
    BY <2>1
  <2>2. ASSUME NEW w \in Writer, put[w].tmp = "whole", Replace(w) PROVE FALSE
    <3>1. put[w].version # None
      BY <2>0, L1Assumption DEF TypeOK, PutState
    <3>2. [of |-> put[w].version, whole |-> TRUE] # Absent
      BY <3>1 DEF Absent
    <3> QED
      BY <2>0, <2>2, <3>2 DEF Replace, TypeOK
  <2>3. ASSUME NEW d \in Deleter, del[d].part # "none",
               file' = [file EXCEPT ![del[d].part][del[d].key] = Absent]
        PROVE  del[d] = [part |-> p, key |-> k]
    <3>1. del[d] \in DeleteState
      BY <2>0 DEF TypeOK
    <3>2. del[d].part = p /\ del[d].key = k
      BY <2>0, <2>3, <3>1 DEF TypeOK, DeleteState
    <3> QED
      BY <3>1, <3>2 DEF DeleteState
  <2> QED
    BY <1>1, <2>0, <2>1, <2>2, <2>3, FileStep
<1>2. IInv /\ [Next]_vars => [Kept]_vars
  BY <1>1
<1> QED
  BY <1>2, Inductive, PTL DEF Spec, PutsKeepTheOld

-----------------------------------------------------------------------------
LEMMA InitMixing == Init => Mixing
BY Constants, L1Assumption DEF Init, Mixing, Started, Alone, Counted, Halfway, Settled, Part, NoPut

LEMMA StepMixing == TypeOK /\ Mixing /\ [Next]_vars => Mixing'
<1> SUFFICES ASSUME TypeOK, Started, Alone, Counted, Halfway, Settled, [Next]_vars
             PROVE  Mixing'
  BY DEF Mixing
<1> USE DEF Mixing
<1>t. /\ \A w \in Writer : put[w] \in PutState /\ put[w].key \in Key
      /\ alone \subseteq Writer /\ mixable \subseteq Key
      /\ file \in [Part -> [Key -> Content]]
      /\ put \in [Writer -> PutState]
  BY DEF TypeOK, PutState
<1>1. CASE UNCHANGED <<file, put, alone, mixable>>
  BY <1>1 DEF Started, Alone, Busy, Counted, Halfway, Settled
<1>2. ASSUME NEW w \in Writer, NEW k \in Key, NEW v \in Version, BeginPut(w, k, v)
      PROVE  Mixing'
  <2> DEFINE new == [part |-> "body", key |-> k, version |-> v, tmp |-> "none"]
  <2>1. /\ put[w].part = "none" /\ file' = file
        /\ \A x \in Writer : put'[x] = IF x = w THEN new ELSE put[x]
        /\ new.part = "body" /\ new.key = k /\ new.tmp = "none"
    BY <1>2, <1>t DEF BeginPut
  <2> HIDE DEF new
  <2>a. w \notin alone
    BY <2>1 DEF Alone
  <2>2. Started'
    BY <2>1 DEF Started
  <2>3. CASE Overlapped(w, k) = {}
    <3>1. alone' = alone \cup {w} /\ mixable' = mixable
      BY <1>2, <2>3 DEF BeginPut
    <3>2. \A x \in Writer \ {w} : ~ Busy(x, k)
      BY <2>3 DEF Overlapped, Busy
    <3>3. Alone'
      BY <2>1, <3>1, <3>2, <2>a, <1>t DEF Alone, Busy
    <3>4. Counted' /\ Halfway' /\ Settled'
      BY <2>1, <3>1, <2>a, <1>t DEF Counted, Halfway, Settled
    <3> QED
      BY <2>2, <3>3, <3>4
  <2>4. CASE Overlapped(w, k) # {}
    <3>1. alone' = alone \ Overlapped(w, k) /\ mixable' = mixable \cup {k}
      BY <1>2, <2>4 DEF BeginPut
    <3>2. \A x \in Writer : x \in Overlapped(w, k) <=> x # w /\ Busy(x, k)
      BY DEF Overlapped, Busy
    <3>3. Alone'
      BY <2>1, <3>1, <3>2, <2>a, <1>t DEF Alone, Busy
    <3>4. Counted'
      BY <2>1, <3>1, <3>2, <1>t DEF Counted, Busy
    <3>5. Halfway' /\ Settled'
      BY <2>1, <3>1, <2>a, <1>t DEF Halfway, Settled
    <3> QED
      BY <2>2, <3>3, <3>4, <3>5
  <2> QED
    BY <2>3, <2>4
<1>3. ASSUME NEW w \in Writer, CreateTemp(w) \/ WriteTemp(w)
      PROVE  Mixing'
  <2>1. /\ put[w].part # "none" /\ UNCHANGED <<file, alone, mixable>>
        /\ \A x \in Writer : /\ put'[x].part = put[x].part
                             /\ put'[x].key = put[x].key
                             /\ put'[x].version = put[x].version
                             /\ x # w => put'[x].tmp = put[x].tmp
    BY <1>3, <1>t DEF CreateTemp, WriteTemp, history, Started, PutState
  <2> QED
    BY <2>1, <1>t DEF Started, Alone, Busy, Counted, Halfway, Settled
<1>4. ASSUME NEW w \in Writer, PutFails(w)
      PROVE  Mixing'
  <2>1. /\ \A x \in Writer : put'[x] = IF x = w THEN NoPut ELSE put[x]
        /\ alone' = alone \ {w} /\ file' = file
        /\ mixable' = IF put[w].part = "meta" THEN mixable \cup {put[w].key} ELSE mixable
        /\ NoPut.part = "none" /\ NoPut.tmp = "none"
    BY <1>4, <1>t DEF PutFails, NoPut
  <2>2. Started' /\ Alone' /\ Counted' /\ Halfway'
    BY <2>1, <1>t DEF Started, Alone, Busy, Counted, Halfway
  <2>3. Settled'
    BY <2>1, <1>t DEF Settled
  <2> QED
    BY <2>2, <2>3
<1>5. ASSUME NEW w \in Writer, Rename(w)
      PROVE  Mixing'
  <2> DEFINE k == put[w].key
             v == put[w].version
  <2>1. put[w].part \in Part /\ v \in Version /\ k \in Key
    BY <1>5, <1>t DEF Rename, Started, PutState, Part
  <2>2. \A p \in Part, j \in Key :
           file'[p][j] = IF p = put[w].part /\ j = k THEN [of |-> v, whole |-> TRUE]
                                                    ELSE file[p][j]
    BY <1>5, <1>t, <2>1 DEF Rename, Replace
  <2>3. \A x \in Writer \ {w} : put'[x] = put[x]
    BY <1>5, <1>t DEF Rename
  <2>4. \A x \in alone \ {w} : put[x].key # k
    BY <2>1 DEF Alone, Busy, Part
  <2>5. CASE put[w].part = "body"
    <3>1. /\ alone' = alone /\ mixable' = mixable
          /\ put'[w].part = "meta" /\ put'[w].tmp = "none"
          /\ put'[w].key = k /\ put'[w].version = v
      BY <1>5, <1>t, <2>5 DEF Rename, Settle, history, PutState
    <3> HIDE DEF k, v
    <3>2. Started' /\ Counted'
      BY <2>3, <2>5, <3>1 DEF Started, Counted, k
    <3>3. Alone'
      BY <1>t, <2>3, <2>5, <3>1 DEF Alone, Busy, k
    <3>4. Halfway'
      BY <1>t, <2>1, <2>2, <2>3, <2>4, <2>5, <3>1 DEF Halfway, Part
    <3>5. Settled'
      BY <1>t, <2>1, <2>2, <2>3, <2>5, <3>1 DEF Settled, Part
    <3> QED
      BY <3>2, <3>3, <3>4, <3>5
  <2>6. CASE put[w].part = "meta"
    <3>1. /\ alone' = alone \ {w}
          /\ mixable' = IF w \in alone THEN mixable \ {k} ELSE mixable
          /\ put'[w] = NoPut /\ NoPut.part = "none" /\ NoPut.tmp = "none"
      BY <1>5, <1>t, <2>6 DEF Rename, Settle, NoPut
    <3>2. Started'
      BY <2>3, <3>1 DEF Started
    <3>3. Alone'
      BY <1>t, <2>3, <3>1 DEF Alone, Busy
    <3>4. Counted'
      <4>1. ASSUME NEW x \in Writer, x # w, put[x].part # "none"
            PROVE  x \in alone' \/ put[x].key \in mixable'
        <5>1. w \in alone => put[x].key # k
          BY <4>1, <2>6 DEF Alone, Busy
        <5> QED
          BY <4>1, <5>1, <3>1 DEF Counted
      <4> QED
        BY <4>1, <2>3, <3>1 DEF Counted
    <3>5. Halfway'
      BY <1>t, <2>1, <2>2, <2>3, <2>6, <3>1 DEF Halfway, Part
    <3>6. Settled'
      <4>1. ASSUME NEW j \in Key, j \notin mixable',
                   ~ (\E x \in Writer : put'[x].part = "meta" /\ put'[x].key = j)
            PROVE  \/ file'["body"][j] = Absent
                   \/ file'["meta"][j] = Absent
                   \/ file'["body"][j].of = file'["meta"][j].of
        <5>1. CASE j = k
          <6>1. w \in alone
            BY <5>1, <4>1, <3>1, <2>6 DEF Counted
          <6>2. file["body"][k] = Absent \/ file["body"][k].of = v
            BY <6>1, <2>6 DEF Halfway
          <6>3. file'["body"][k] = file["body"][k] /\ file'["meta"][k].of = v
            BY <2>1, <2>2, <2>6 DEF Part
          <6> QED
            BY <5>1, <6>2, <6>3
        <5>2. CASE j # k
          <6>1. file'["body"][j] = file["body"][j] /\ file'["meta"][j] = file["meta"][j]
            BY <5>2, <2>2 DEF Part
          <6>2. j \notin mixable
            BY <4>1, <3>1, <5>2
          <6>3. ~ (\E x \in Writer : put[x].part = "meta" /\ put[x].key = j)
            BY <4>1, <2>3, <5>2
          <6> QED
            BY <6>1, <6>2, <6>3 DEF Settled
        <5> QED
          BY <5>1, <5>2
      <4> QED
        BY <4>1 DEF Settled
    <3> QED
      BY <3>2, <3>3, <3>4, <3>5, <3>6
  <2> QED
    BY <2>1, <2>5, <2>6 DEF Part
<1>6. ASSUME NEW d \in Deleter, Remove(d)
      PROVE  Mixing'
  <2>1. /\ UNCHANGED <<put, alone, mixable>>
        /\ \A p \in Part, j \in Key : file'[p][j] = Absent \/ file'[p][j] = file[p][j]
    BY <1>6, <1>t DEF Remove, history
  <2> QED
    BY <2>1, <1>t DEF Started, Alone, Busy, Counted, Halfway, Settled, Part
<1>7. CASE Crash
  <2>1. /\ \A w \in Writer : put'[w].part = "none" /\ put'[w].tmp = "none"
        /\ alone' = {} /\ file' = file
        /\ mixable' = mixable \cup {put[w].key : w \in {x \in Writer : put[x].part = "meta"}}
    BY <1>7 DEF Crash, NoPut
  <2>2. Started' /\ Alone' /\ Counted' /\ Halfway'
    BY <2>1 DEF Started, Alone, Counted, Halfway
  <2>3. Settled'
    BY <2>1 DEF Settled
  <2> QED
    BY <2>2, <2>3
<1>8. (\E r \in Reader : \/ \E k \in Key : BeginGet(r, k)
                         \/ Stat(r) \/ ReadBody(r) \/ ReadMeta(r) \/ ReadFails(r))
      \/ (\E d \in Deleter, k \in Key : BeginDelete(d, k))
      \/ UNCHANGED vars
      => UNCHANGED <<file, put, alone, mixable>>
  BY DEF BeginGet, Stat, ReadBody, ReadMeta, ReadFails, BeginDelete, history, vars
<1> QED
  BY <1>1, <1>2, <1>3, <1>4, <1>5, <1>6, <1>7, <1>8 DEF Next

(***************************************************************************)
(* With nobody at work, a body and a meta file of different Puts are found *)
(* only under a key where two Puts overlapped, or one ended between its    *)
(* renames, since the last Put that was left to itself.                    *)
(***************************************************************************)
THEOREM MixingIsDisturbance == Spec => []MixedOnlyWhenDisturbed
<1>1. Mixing => MixedOnlyWhenDisturbed
  BY DEF Mixing, Settled, MixedOnlyWhenDisturbed, Quiet, Whole, Absent
<1>2. IInv => TypeOK
  BY DEF IInv
<1> QED
  BY <1>1, <1>2, InitMixing, StepMixing, Inductive, PTL DEF Spec
=============================================================================
