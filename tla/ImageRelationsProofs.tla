------------------------ MODULE ImageRelationsProofs ------------------------
(***************************************************************************)
(* Safety of ImageRelations for any number of requests, objects and images *)
(* and for requests about any number of images.                            *)
(***************************************************************************)
EXTENDS ImageRelations, FiniteSetTheorems, WellFoundedInduction, TLAPS

(* A request that has locked its object.                                   *)
HasTarget(x) == x.at \in {"rows", "commit"} /\ x.op # "delete"
Locked(t) == HasTarget(txn[t])

(* What is right about the relations of one object: places are distinct    *)
(* and have a highest one, and there is one cover at most.                 *)
Bounded(f) == \E n \in Nat : \A i \in Attached(f) : f[i].order <= n
Good(f) ==
    /\ f \in Relations /\ DistinctOrders(f) /\ Bounded(f)
    /\ \A i, j \in Covers(f) : i = j

(* So it is for every object.                                              *)
RelationsGood == \A o \in Objects : Good(rel[o])

(* What a request is about, by its statement and operation.                *)
Fits(x) ==
    /\ x.op # "delete" => x.obj \in Objects
    /\ x.op # "unset_cover" => x.ids \in Lists(Images)
    /\ x.op = "set_cover" => \E i \in Images : Range(x.ids) = {i}
    /\ x.op = "delete" => x.at = "rows"
    /\ x.at = "target" => x.held = {} /\ x.view = [i \in Images |-> NoRel]
    /\ x.at = "commit" => x.op = "attach" /\ Range(x.ids) \subseteq Own
TxnsFit == \A t \in Txns : Active(t) => Fits(txn[t])

(* The object is locked by one request, and so is an image.                *)
TargetsHeld ==
    \A s, t \in Txns :
        Locked(s) /\ Locked(t) /\ txn[s].obj = txn[t].obj => s = t
RowsHeld ==
    \A s, t \in Txns :
        Active(s) /\ Active(t) /\ s # t => txn[s].held \cap txn[t].held = {}

(* What a request has read and locked is as it was, and the rest of the    *)
(* relations it has yet to lock; there is none when it writes.             *)
Sees(x, f) ==
    /\ \A i \in Images :
          /\ x.view[i] = IF i \in x.held THEN f[i] ELSE NoRel
          /\ f[i] # NoRel => i \in x.todo \cup x.held
    /\ x.at = "commit" => \A i \in x.todo : f[i] = NoRel
Seen == \A t \in Txns : Locked(t) => Sees(txn[t], rel[txn[t].obj])

(* The inductive invariant.                                                *)
IInv ==
    /\ TypeOK /\ RelationsGood /\ TxnsFit /\ TargetsHeld /\ RowsHeld /\ Seen

-----------------------------------------------------------------------------
(* What a step does.                                                       *)

Others(t) == txn' = [txn EXCEPT ![t] = txn'[t]]
Begins(t) ==
    /\ txn'[t] \in Txn /\ Fits(txn'[t]) /\ txn'[t].held = {}
    /\ txn'[t].at = "target" \/ txn'[t].op = "delete"
    /\ requests < MaxRequests /\ requests' = requests + 1
    /\ Others(t) /\ UNCHANGED <<images, objects, rel>>
Ends(t) ==
    txn'[t] = Idle /\ Others(t) /\ UNCHANGED <<images, objects, rel, requests>>

(* The object is locked, and its relations are read next.                  *)
TakesTarget(t) ==
    LET o == txn[t].obj IN
    /\ txn[t].at = "target" /\ Blockers(t) = {}
    /\ txn'[t] = [txn[t] EXCEPT !.at = "rows", !.todo = Attached(rel[o])]
    /\ Others(t) /\ UNCHANGED <<images, objects, rel, requests>>

(* An object that gets an image has one cover, the one it had if any.      *)
CoverStays(f, g) ==
    Attached(f) # Attached(g) /\ Attached(f) \subseteq Attached(g) =>
        Cardinality(Covers(g)) = 1 /\ Covers(f) \subseteq Covers(g)

(* A request that has locked and read all there is writes.                 *)
Writes(t, f) ==
    LET o == txn[t].obj IN
    /\ Locked(t) /\ txn'[t] = Idle /\ Others(t)
    /\ Good(f) /\ Attached(f) \subseteq images \cap Own
    /\ CoverStays(rel[o], f)
    /\ rel' = [rel EXCEPT ![o] = f]
    /\ UNCHANGED <<images, objects, requests>>

Effect ==
    \/ \E t \in Txns : \/ Begins(t) \/ Ends(t) \/ TakesTarget(t)
                       \/ \E i \in Images : LockRow(t, i)
                       \/ ReadImages(t) \/ \E f \in Relations : Writes(t, f)
                       \/ DeleteImages(t)
    \/ \E o \in Objects : DeleteObject(o)

-----------------------------------------------------------------------------
(* Numbers and places.                                                     *)

(* A set of naturals that is not empty has a least element.                *)
LEMMA NatLeast ==
  ASSUME NEW S \in SUBSET Nat, S # {}
  PROVE  \E n \in S : \A m \in S : n <= m
<1> DEFINE R == StrictSubsetOrdering(Nat)
           T == {1..n : n \in S}
<1>1. IsWellFoundedOn(R, FiniteSubsetsOf(Nat))
  BY FS_StrictSubsetOrderingWellFounded
<1>2. T \subseteq FiniteSubsetsOf(Nat) /\ T # {}
  <2>1. ASSUME NEW n \in S PROVE 1..n \in FiniteSubsetsOf(Nat)
    <3>1. IsFiniteSet(1..n)
      BY FS_Interval
    <3> QED
      BY <3>1 DEF FiniteSubsetsOf
  <2> QED
    BY <2>1
<1>3. PICK x \in T : \A y \in T : <<y, x>> \notin R
  BY ONLY <1>1, <1>2, WFMin
<1>4. PICK n \in S : x = 1..n
  OBVIOUS
<1>5. ASSUME NEW m \in S PROVE n <= m
  <2>1. <<1..m, 1..n>> \notin R
    BY <1>3, <1>4
  <2>2. ~(1..m \subseteq 1..n /\ 1..m # 1..n)
    BY <2>1 DEF StrictSubsetOrdering
  <2>3. m \in Nat /\ n \in Nat
    OBVIOUS
  <2>4. ASSUME m < n PROVE FALSE
    <3>1. n \in 1..n /\ n \notin 1..m
      BY <2>3, <2>4
    <3>2. 1..m \subseteq 1..n
      BY <2>3, <2>4
    <3> QED
      BY <2>2, <3>1, <3>2
  <2> QED
    BY <2>3, <2>4
<1> QED
  BY <1>5

(* LastOrder is the highest place, or -1.                                  *)
LEMMA LastOrderIs ==
  ASSUME NEW f \in Relations, Bounded(f)
  PROVE  /\ LastOrder(f) \in Nat \cup {-1}
         /\ \A i \in Attached(f) : f[i].order <= LastOrder(f)
<1>0. Orders(f) \in SUBSET Nat
  BY NoRelAssumption DEF Orders, Attached, Relations, Relation
<1>1. \E n \in Orders(f) \cup {-1} : \A m \in Orders(f) : m <= n
  <2>1. CASE Orders(f) = {}
    BY <2>1
  <2>2. CASE Orders(f) # {}
    <3>1. PICK b \in Nat : \A m \in Orders(f) : m <= b
      BY DEF Bounded, Orders
    <3> DEFINE S == {b - m : m \in Orders(f)}
    <3>2. S \in SUBSET Nat /\ S # {}
      BY <1>0, <2>2, <3>1
    <3>3. PICK x \in S : \A y \in S : x <= y
      BY ONLY <3>2, NatLeast
    <3>4. PICK n \in Orders(f) : x = b - n
      BY <3>3
    <3>5. ASSUME NEW m \in Orders(f) PROVE m <= n
      <4>1. b - n <= b - m
        BY <3>3, <3>4
      <4> QED
        BY <1>0, <3>1, <4>1
    <3> QED
      BY <3>5
  <2> QED
    BY <2>1, <2>2
<1>2. /\ LastOrder(f) \in Orders(f) \cup {-1}
      /\ \A m \in Orders(f) : m <= LastOrder(f)
  BY <1>1 DEF LastOrder
<1> QED
  BY <1>0, <1>2 DEF Orders

(* The places of the images of a request are distinct.                     *)
LEMMA Places ==
  ASSUME NEW ids \in Lists(Images)
  PROVE  /\ Range(ids) \subseteq Images
         /\ IsFiniteSet(Range(ids)) /\ DOMAIN ids \subseteq Nat \ {0}
         /\ 1 \in DOMAIN ids
         /\ \A i \in Range(ids) : Place(ids, i) \in DOMAIN ids
                                  /\ ids[Place(ids, i)] = i
         /\ \A i, j \in Range(ids) : Place(ids, i) = Place(ids, j) => i = j
<1>1. PICK n \in 1..MaxIds : ids \in [1..n -> Images]
  BY DEF Lists
<1>2. n \in Nat \ {0} /\ DOMAIN ids = 1..n
  BY <1>1, ConstantsAssumption
<1>3. IsFiniteSet(Range(ids))
  <2>1. IsFiniteSet(1..n)
    BY <1>2, FS_Interval
  <2>2. ids \in Surjection(1..n, Range(ids))
    BY <1>1 DEF Surjection, Range
  <2> QED
    BY <2>1, <2>2, FS_Surjection
<1>4. \A i \in Range(ids) : Place(ids, i) \in DOMAIN ids
                            /\ ids[Place(ids, i)] = i
  <2> TAKE i \in Range(ids)
  <2>1. \E m \in DOMAIN ids : ids[m] = i
    BY DEF Range
  <2> QED
    BY <2>1 DEF Place
<1> QED
  BY <1>1, <1>2, <1>3, <1>4 DEF Range

(* New relations are counted in the order of the request.                  *)
LEMMA Ranks ==
  ASSUME NEW t \in Txns, txn[t].ids \in Lists(Images)
  PROVE  /\ IsFiniteSet(ToAttach(t)) /\ Cardinality(ToAttach(t)) \in Nat
         /\ \A i \in ToAttach(t) :
              /\ Cardinality(Earlier(t, i)) \in Nat
              /\ Cardinality(Earlier(t, i)) <= Cardinality(ToAttach(t))
         /\ \A i, j \in ToAttach(t) : i # j =>
              Cardinality(Earlier(t, i)) # Cardinality(Earlier(t, j))
         /\ \A i, j \in ToAttach(t) :
              Earlier(t, i) = {} /\ Earlier(t, j) = {} => i = j
         /\ ToAttach(t) # {} => \E i \in ToAttach(t) : Earlier(t, i) = {}
<1> DEFINE ids == txn[t].ids
           place(i) == Place(ids, i)
<1>1. /\ ToAttach(t) \subseteq Range(ids) /\ IsFiniteSet(Range(ids))
      /\ \A i \in ToAttach(t) : place(i) \in Nat
      /\ \A i, j \in ToAttach(t) : place(i) = place(j) => i = j
  BY Places DEF ToAttach
<1>2. IsFiniteSet(ToAttach(t)) /\ Cardinality(ToAttach(t)) \in Nat
  BY <1>1, FS_Subset, FS_CardinalityType
<1>3. ASSUME NEW i \in ToAttach(t)
      PROVE  /\ IsFiniteSet(Earlier(t, i)) /\ Cardinality(Earlier(t, i)) \in Nat
             /\ Cardinality(Earlier(t, i)) <= Cardinality(ToAttach(t))
  <2>1. Earlier(t, i) \in SUBSET ToAttach(t)
    BY DEF Earlier
  <2> QED
    BY <1>2, <2>1, FS_Subset, FS_CardinalityType
<1>4. ASSUME NEW i \in ToAttach(t), NEW j \in ToAttach(t), place(i) < place(j)
      PROVE  Cardinality(Earlier(t, i)) < Cardinality(Earlier(t, j))
  <2>1. Earlier(t, i) \in SUBSET Earlier(t, j)
    BY <1>1, <1>4 DEF Earlier
  <2>2. i \in Earlier(t, j) /\ i \notin Earlier(t, i)
    BY <1>1, <1>4 DEF Earlier
  <2>3. Cardinality(Earlier(t, i)) # Cardinality(Earlier(t, j))
    BY <1>3, <2>1, <2>2, FS_Subset
  <2>4. Cardinality(Earlier(t, i)) <= Cardinality(Earlier(t, j))
    BY <1>3, <2>1, FS_Subset
  <2> QED
    BY <1>3, <2>3, <2>4
<1>5. ASSUME NEW i \in ToAttach(t), NEW j \in ToAttach(t), i # j
      PROVE  place(i) < place(j) \/ place(j) < place(i)
  BY <1>1, <1>5
<1>6. ASSUME NEW i \in ToAttach(t), NEW j \in ToAttach(t), i # j
      PROVE  Cardinality(Earlier(t, i)) # Cardinality(Earlier(t, j))
  BY <1>3, <1>4, <1>5, <1>6
<1>7. ASSUME NEW i \in ToAttach(t), NEW j \in ToAttach(t),
             Earlier(t, i) = {}, Earlier(t, j) = {}
      PROVE  i = j
  BY <1>6, <1>7
<1>8. ASSUME ToAttach(t) # {}
      PROVE  \E i \in ToAttach(t) : Earlier(t, i) = {}
  <2> DEFINE S == {place(i) : i \in ToAttach(t)}
  <2>1. S \in SUBSET Nat /\ S # {}
    BY <1>1, <1>8
  <2>2. PICK n \in S : \A m \in S : n <= m
    BY ONLY <2>1, NatLeast
  <2>3. PICK i \in ToAttach(t) : n = place(i)
    BY <2>2
  <2>4. \A j \in ToAttach(t) : ~(place(j) < place(i))
    BY <1>1, <2>2, <2>3
  <2> QED
    BY <2>4 DEF Earlier
<1> QED
  BY <1>2, <1>3, <1>6, <1>7, <1>8

-----------------------------------------------------------------------------
(* What the relations of an object become.                                 *)

(* The relations of an object without those of some images.                *)
Without(f, S) == [i \in Images |-> IF i \in S THEN NoRel ELSE f[i]]

(* Relations that go leave the others as they are.                         *)
LEMMA WithoutGood ==
  ASSUME NEW f, Good(f), NEW S
  PROVE  /\ Good(Without(f, S)) /\ Attached(Without(f, S)) = Attached(f) \ S
         /\ CoverStays(f, Without(f, S))
<1> DEFINE g == Without(f, S)
<1>1. g \in Relations
  BY DEF Without, Good, Relations
<1>2. Attached(g) = Attached(f) \ S
  BY DEF Without, Attached
<1>3. \A i \in Attached(g) : g[i] = f[i] /\ i \in Attached(f)
  BY <1>2 DEF Without, Attached
<1>4. DistinctOrders(g)
  BY <1>3 DEF Good, DistinctOrders
<1>5. Bounded(g)
  BY <1>3 DEF Good, Bounded
<1>6. \A i, j \in Covers(g) : i = j
  BY <1>3 DEF Good, Covers
<1>7. CoverStays(f, g)
  BY <1>2 DEF CoverStays
<1> QED
  BY <1>1, <1>2, <1>4, <1>5, <1>6, <1>7 DEF Good

(* A change of the cover leaves places alone.                              *)
LEMMA WithCoverGood ==
  ASSUME NEW f \in Relations, DistinctOrders(f), Bounded(f),
         NEW c, \A i, j \in c : i = j
  PROVE  Good(WithCover(f, c)) /\ Attached(WithCover(f, c)) = Attached(f)
<1> DEFINE g == WithCover(f, c)
<1>1. ASSUME NEW i \in Images
      PROVE  /\ f[i] = NoRel => g[i] = NoRel
             /\ f[i] # NoRel => /\ g[i] \in Relation /\ g[i].order = f[i].order
                                /\ g[i].cover = (i \in c)
  <2>1. g[i] = IF f[i] = NoRel THEN NoRel
                               ELSE [f[i] EXCEPT !.cover = i \in c]
    BY DEF WithCover
  <2>2. ASSUME f[i] # NoRel
        PROVE  /\ g[i] \in Relation /\ g[i].order = f[i].order
               /\ g[i].cover = (i \in c)
    <3>1. f[i] \in [order : Nat, cover : BOOLEAN]
      BY <2>2 DEF Relations, Relation
    <3> DEFINE b == i \in c
    <3>2. b \in BOOLEAN
      OBVIOUS
    <3> HIDE DEF b
    <3>3. g[i] = [f[i] EXCEPT !.cover = b]
      BY <2>1, <2>2 DEF b
    <3>4. g[i] = [order |-> f[i].order, cover |-> b]
      BY <3>1, <3>3
    <3>5. g[i].cover = b /\ g[i].order = f[i].order
      BY <3>4
    <3>6. g[i] \in Relation
      BY <3>1, <3>2, <3>4 DEF Relation
    <3> QED
      BY <3>5, <3>6 DEF b
  <2> QED
    BY <2>1, <2>2
<1>2. g \in Relations
  BY <1>1 DEF WithCover, Relations
<1>3. Attached(g) = Attached(f)
  BY <1>1, NoRelAssumption DEF Attached
<1>4. DistinctOrders(g)
  BY <1>1, <1>3 DEF DistinctOrders, Attached
<1>5. Bounded(g)
  BY <1>1, <1>3 DEF Bounded, Attached
<1>6. \A i, j \in Covers(g) : i = j
  BY <1>1, <1>3 DEF Covers, Attached
<1> QED
  BY <1>2, <1>3, <1>4, <1>5, <1>6 DEF Good

-----------------------------------------------------------------------------
(* What a request has.                                                     *)

(* A request at work is well formed.                                       *)
LEMMA Shape ==
  ASSUME IInv, NEW t \in Txns, Active(t)
  PROVE  txn[t] \in Txn /\ Fits(txn[t])
BY DEF IInv, TypeOK, TxnsFit, Active

(* A request at a statement is at work.                                    *)
LEMMA AtWork ==
  ASSUME NEW t \in Txns, txn[t].at \in {"target", "rows", "commit"}
  PROVE  Active(t)
BY DEF Active, Idle

(* A request that has locked its object is about one, whose relations are  *)
(* as they should be.                                                      *)
LEMMA LockedShape ==
  ASSUME IInv, NEW t \in Txns, Locked(t)
  PROVE  /\ Active(t) /\ txn[t] \in Txn /\ Fits(txn[t])
         /\ txn[t].obj \in Objects /\ txn[t].view \in Relations
         /\ rel[txn[t].obj] \in Relations /\ Good(rel[txn[t].obj])
         /\ Attached(rel[txn[t].obj]) \subseteq images \cap Own
<1>1. Active(t)
  BY AtWork DEF Locked, HasTarget
<1>2. txn[t] \in Txn /\ Fits(txn[t])
  BY <1>1, Shape
<1>3. txn[t].obj \in Objects /\ txn[t].view \in Relations
  BY <1>2 DEF Fits, Locked, HasTarget, Txn
<1> QED
  BY <1>1, <1>2, <1>3 DEF IInv, TypeOK, RelationsGood

(* What a request has read when it has locked all there is, is what there  *)
(* is.                                                                     *)
LEMMA ViewIs ==
  ASSUME IInv, NEW t \in Txns, Locked(t), Left(t) = {}
  PROVE  txn[t].view = rel[txn[t].obj]
<1> DEFINE o == txn[t].obj
<1>1. txn[t].view \in Relations /\ rel[o] \in Relations
  BY LockedShape
<1>2. ASSUME NEW i \in Images PROVE txn[t].view[i] = rel[o][i]
  <2>1. /\ txn[t].view[i] = IF i \in txn[t].held THEN rel[o][i] ELSE NoRel
        /\ rel[o][i] # NoRel => i \in txn[t].todo \cup txn[t].held
    BY DEF IInv, Seen, Sees
  <2>2. i \in txn[t].todo => rel[o][i] = NoRel
    BY DEF Left, Locked, HasTarget
  <2> QED
    BY <2>1, <2>2
<1> QED
  BY <1>1, <1>2 DEF Relations

(* So it is when the relations are locked,                                 *)
LEMMA RowsLockedIs ==
  ASSUME IInv, NEW t \in Txns, RowsLocked(t), txn[t].op # "delete"
  PROVE  Locked(t) /\ txn[t].view = rel[txn[t].obj]
<1>1. Locked(t) /\ Left(t) = {}
  BY DEF RowsLocked, Locked, HasTarget
<1> QED
  BY <1>1, ViewIs

(* and when an attach inserts, which is about images of the organization.  *)
LEMMA CommitIs ==
  ASSUME IInv, NEW t \in Txns, txn[t].at = "commit"
  PROVE  /\ Locked(t) /\ txn[t].view = rel[txn[t].obj]
         /\ txn[t].ids \in Lists(Images) /\ Range(txn[t].ids) \subseteq Own
<1>1. Active(t)
  BY AtWork
<1>2. txn[t].op = "attach" /\ Range(txn[t].ids) \subseteq Own
      /\ txn[t].ids \in Lists(Images)
  BY <1>1, Shape DEF Fits
<1>3. Locked(t)
  BY <1>2 DEF Locked, HasTarget
<1>4. Left(t) = {}
  BY <1>2, <1>3 DEF IInv, Seen, Sees, Left
<1> QED
  BY <1>2, <1>3, <1>4, ViewIs

-----------------------------------------------------------------------------
(* Each action has one of the effects.                                     *)

(* What an operation has to show of the relations it leaves.               *)
LEMMA FinishWrites ==
  ASSUME IInv, NEW t \in Txns, Locked(t), NEW f, Finish(t, f),
         Good(f), Attached(f) \subseteq images \cap Own,
         CoverStays(rel[txn[t].obj], f), UNCHANGED <<images, objects, requests>>
  PROVE  \E g \in Relations : Writes(t, g)
<1>1. txn'[t] = Idle /\ Others(t)
  BY DEF Finish, Go, Others, IInv, TypeOK
<1>2. Writes(t, f)
  BY <1>1 DEF Writes, Finish
<1> QED
  BY <1>2 DEF Good

(* The new relations of an object: distinct places behind those there are. *)
LEMMA AttachGood ==
  ASSUME IInv, NEW t \in Txns, txn[t].at = "commit",
         ToAttach(t) \subseteq images,
         NEW f, f = [i \in Images |->
                       IF i \in ToAttach(t) THEN NewRelation(t, i)
                                            ELSE rel[txn[t].obj][i]]
  PROVE  /\ Good(f) /\ Attached(f) \subseteq images \cap Own
         /\ CoverStays(rel[txn[t].obj], f)
<1> DEFINE g == rel[txn[t].obj]
           A == ToAttach(t)
           last == LastOrder(g)
           rank(i) == Cardinality(Earlier(t, i))
<1>1. /\ Locked(t) /\ txn[t].view = g
      /\ txn[t].ids \in Lists(Images) /\ Range(txn[t].ids) \subseteq Own
  BY CommitIs
<1>2. g \in Relations /\ Good(g) /\ Attached(g) \subseteq images \cap Own
  BY <1>1, LockedShape
<1>3. /\ last \in Nat \cup {-1}
      /\ \A i \in Attached(g) : g[i].order <= last
  BY <1>2, LastOrderIs DEF Good
<1>4. A \subseteq Own /\ A \cap Attached(g) = {} /\ A \subseteq Images
  BY <1>1 DEF ToAttach, Own
<1>5. /\ Cardinality(A) \in Nat
      /\ \A i \in A : rank(i) \in Nat /\ rank(i) <= Cardinality(A)
      /\ \A i, j \in A : i # j => rank(i) # rank(j)
      /\ \A i, j \in A : Earlier(t, i) = {} /\ Earlier(t, j) = {} => i = j
      /\ A # {} => \E i \in A : Earlier(t, i) = {}
  BY <1>1, Ranks
<1>6. ASSUME NEW i \in A
      PROVE  /\ f[i] \in Relation /\ f[i] # NoRel
             /\ f[i].order = last + 1 + rank(i)
             /\ f[i].cover = (Earlier(t, i) = {} /\ Covers(g) = {})
  <2>1. f[i] = [order |-> last + 1 + rank(i),
                cover |-> Earlier(t, i) = {} /\ Covers(g) = {}]
    BY <1>1, <1>4 DEF NewRelation
  <2>2. last + 1 + rank(i) \in Nat
    BY <1>3, <1>5
  <2>3. f[i] \in Relation
    <3> DEFINE b == Earlier(t, i) = {} /\ Covers(g) = {}
               n == last + 1 + rank(i)
    <3>1. b \in BOOLEAN
      OBVIOUS
    <3> HIDE DEF b, n
    <3>2. f[i] = [order |-> n, cover |-> b]
      BY <2>1 DEF b, n
    <3>3. n \in Nat
      BY <2>2 DEF n
    <3> QED
      BY <3>1, <3>2, <3>3 DEF Relation
  <2> QED
    BY <2>1, <2>3, NoRelAssumption
<1>7. ASSUME NEW i \in Images \ A PROVE f[i] = g[i]
  BY <1>7
<1>8. f \in Relations
  BY <1>2, <1>6, <1>7 DEF Relations
<1>9. Attached(f) = Attached(g) \cup A
  BY <1>4, <1>6, <1>7 DEF Attached
<1>10. \A i \in Attached(g) : f[i] = g[i] /\ i \notin A /\ g[i].order \in Nat
  BY <1>2, <1>4, <1>7, NoRelAssumption DEF Attached, Relations, Relation
<1>11. DistinctOrders(f)
  <2>1. SUFFICES ASSUME NEW i \in Attached(f), NEW j \in Attached(f),
                        f[i].order = f[j].order
                 PROVE  i = j
    BY DEF DistinctOrders
  <2>2. CASE i \in A /\ j \in A
    BY <1>3, <1>5, <1>6, <2>1, <2>2
  <2>3. CASE i \in Attached(g) /\ j \in Attached(g)
    BY <1>2, <1>10, <2>1, <2>3 DEF Good, DistinctOrders
  <2>4. CASE i \in A /\ j \in Attached(g)
    BY <1>3, <1>5, <1>6, <1>10, <2>1, <2>4
  <2>5. CASE i \in Attached(g) /\ j \in A
    BY <1>3, <1>5, <1>6, <1>10, <2>1, <2>5
  <2> QED
    BY <1>9, <2>2, <2>3, <2>4, <2>5
<1>12. Bounded(f)
  <2> DEFINE n == last + 1 + Cardinality(A)
  <2>1. n \in Nat
    BY <1>3, <1>5
  <2>2. ASSUME NEW i \in A PROVE f[i].order <= n
    BY <1>3, <1>5, <1>6
  <2>3. ASSUME NEW i \in Attached(g) PROVE f[i].order <= n
    BY <1>3, <1>5, <1>10
  <2> QED
    BY <1>9, <2>1, <2>2, <2>3 DEF Bounded
<1>13. Covers(g) # {} => Covers(f) = Covers(g)
  BY <1>6, <1>9, <1>10 DEF Covers
<1>14. Covers(g) = {} => Covers(f) = {i \in A : Earlier(t, i) = {}}
  BY <1>6, <1>9, <1>10 DEF Covers
<1>15. \A i, j \in Covers(f) : i = j
  BY <1>2, <1>5, <1>13, <1>14 DEF Good
<1>16. CoverStays(g, f)
  <2>1. SUFFICES ASSUME Attached(g) # Attached(f)
                 PROVE  /\ Cardinality(Covers(f)) = 1
                        /\ Covers(g) \subseteq Covers(f)
    BY DEF CoverStays
  <2>2. A # {}
    BY <1>9, <2>1
  <2>3. PICK c : c \in Covers(f)
    BY <1>5, <1>13, <1>14, <2>2
  <2>4. Covers(f) = {c}
    BY <1>15, <2>3
  <2>5. Cardinality({c}) = 1
    BY FS_Singleton
  <2> QED
    BY <1>13, <2>4, <2>5
<1> QED
  BY <1>2, <1>4, <1>8, <1>9, <1>11, <1>12, <1>15, <1>16 DEF Good

(* An attach inserts, or fails and changes nothing.                        *)
LEMMA AttachEffect ==
  ASSUME IInv, NEW t \in Txns, Attach(t)
  PROVE  Ends(t) \/ \E f \in Relations : Writes(t, f)
<1> DEFINE f == [i \in Images |->
                   IF i \in ToAttach(t) THEN NewRelation(t, i)
                                        ELSE rel[txn[t].obj][i]]
<1>1. txn[t].at = "commit" /\ Locked(t)
  BY CommitIs DEF Attach
<1>2. CASE Go(t, Idle) /\ UNCHANGED rel
  BY <1>2 DEF Attach, Go, Ends, Others, IInv, TypeOK
<1>3. CASE ToAttach(t) \subseteq images /\ Finish(t, f)
  <2> HIDE DEF f
  <2>1. /\ Good(f) /\ Attached(f) \subseteq images \cap Own
        /\ CoverStays(rel[txn[t].obj], f)
    BY <1>1, <1>3, AttachGood DEF f
  <2>2. UNCHANGED <<images, objects, requests>>
    BY DEF Attach
  <2> QED
    BY <1>1, <1>3, <2>1, <2>2, FinishWrites
<1> QED
  BY <1>2, <1>3 DEF Attach

(* A detach takes relations away.                                          *)
LEMMA DetachEffect ==
  ASSUME IInv, NEW t \in Txns, Detach(t)
  PROVE  \E f \in Relations : Writes(t, f)
<1> DEFINE g == rel[txn[t].obj]
           gone == Range(txn[t].ids) \cap Attached(txn[t].view)
<1>1. Locked(t)
  BY RowsLockedIs DEF Detach, Ready
<1>2. Good(g) /\ Attached(g) \subseteq images \cap Own
  BY <1>1, LockedShape
<1> HIDE DEF gone
<1>3. Finish(t, Without(g, gone)) /\ UNCHANGED <<images, objects, requests>>
  BY DEF Detach, Ready, Without, gone
<1>4. /\ Good(Without(g, gone))
      /\ Attached(Without(g, gone)) \subseteq images \cap Own
      /\ CoverStays(g, Without(g, gone))
  BY <1>2, WithoutGood
<1> QED
  BY <1>1, <1>3, <1>4, FinishWrites

(* A change of covers.                                                     *)
LEMMA CoverWrites ==
  ASSUME IInv, NEW t \in Txns, Locked(t), NEW c, \A i, j \in c : i = j,
         NEW f \in Relations, DistinctOrders(f), Bounded(f),
         Attached(f) = Attached(rel[txn[t].obj]),
         Finish(t, WithCover(f, c)), UNCHANGED <<images, objects, requests>>
  PROVE  \E g \in Relations : Writes(t, g)
<1>1. /\ Good(WithCover(f, c))
      /\ Attached(WithCover(f, c)) = Attached(rel[txn[t].obj])
  BY WithCoverGood
<1>2. Attached(WithCover(f, c)) \subseteq images \cap Own
  BY <1>1, LockedShape
<1>3. CoverStays(rel[txn[t].obj], WithCover(f, c))
  BY <1>1 DEF CoverStays
<1> QED
  BY <1>1, <1>2, <1>3, FinishWrites

(* A cover that is set is one image.                                       *)
LEMMA SetCoverEffect ==
  ASSUME IInv, NEW t \in Txns, SetCover(t)
  PROVE  \E f \in Relations : Writes(t, f)
<1>1. Locked(t) /\ txn[t].op = "set_cover"
  BY RowsLockedIs DEF SetCover, Ready
<1>2. rel[txn[t].obj] \in Relations /\ Good(rel[txn[t].obj]) /\ Fits(txn[t])
  BY <1>1, LockedShape
<1>3. \A i, j \in Range(txn[t].ids) : i = j
  BY <1>1, <1>2 DEF Fits
<1> QED
  BY <1>1, <1>2, <1>3, CoverWrites DEF SetCover, Ready, Good

(* A cover that is taken away leaves none.                                 *)
LEMMA UnsetCoverEffect ==
  ASSUME IInv, NEW t \in Txns, UnsetCover(t)
  PROVE  \E f \in Relations : Writes(t, f)
<1>1. Locked(t)
  BY RowsLockedIs DEF UnsetCover, Ready
<1>2. rel[txn[t].obj] \in Relations /\ Good(rel[txn[t].obj])
  BY <1>1, LockedShape
<1> QED
  BY <1>1, <1>2, CoverWrites DEF UnsetCover, Ready, Good

(* A reordering is of all the images of the object, whose places in the    *)
(* request are distinct.                                                   *)
LEMMA ReorderEffect ==
  ASSUME IInv, NEW t \in Txns, Reorder(t)
  PROVE  \E f \in Relations : Writes(t, f)
<1> DEFINE ids == txn[t].ids
           now == rel[txn[t].obj]
           placed == [i \in Images |->
                        IF i \in Range(ids) /\ now[i] # NoRel
                        THEN [now[i] EXCEPT !.order = Place(ids, i) - 1]
                        ELSE now[i]]
<1>1. Locked(t) /\ txn[t].op = "reorder" /\ txn[t].view = now /\ ~Refused(t)
  BY RowsLockedIs DEF Reorder, Ready
<1>2. /\ now \in Relations /\ Good(now) /\ Fits(txn[t])
      /\ Attached(now) \subseteq images \cap Own
  BY <1>1, LockedShape
<1>3. ids \in Lists(Images)
  BY <1>1, <1>2 DEF Fits
<1>4. UNCHANGED <<images, objects, requests>>
  BY DEF Reorder, Ready
<1>5. CASE Attached(now) = {}
  <2>1. Finish(t, now)
    BY <1>1, <1>5 DEF Reorder
  <2>2. CoverStays(now, now)
    BY DEF CoverStays
  <2> QED
    BY <1>1, <1>2, <1>4, <2>1, <2>2, FinishWrites
<1>6. CASE Attached(now) # {}
  <2>1. Range(ids) = Attached(now)
    BY <1>1, <1>6 DEF Refused
  <2>2. Finish(t, WithCover(placed, {ids[1]}))
    BY <1>1, <1>6 DEF Reorder
  <2>3. /\ \A i \in Range(ids) : Place(ids, i) \in Nat \ {0}
        /\ \A i, j \in Range(ids) : Place(ids, i) = Place(ids, j) => i = j
    BY <1>3, Places
  <2>4. ASSUME NEW i \in Attached(now)
        PROVE  /\ placed[i] \in Relation /\ placed[i] # NoRel
               /\ placed[i].order = Place(ids, i) - 1
    <3>1. now[i] \in Relation /\ now[i] # NoRel /\ i \in Images
      BY <1>2 DEF Attached, Relations
    <3>2. placed[i] = [now[i] EXCEPT !.order = Place(ids, i) - 1]
      BY <2>1, <3>1
    <3>3. Place(ids, i) - 1 \in Nat
      BY <2>1, <2>3
    <3> QED
      BY <3>1, <3>2, <3>3, NoRelAssumption DEF Relation
  <2>5. ASSUME NEW i \in Images \ Attached(now) PROVE placed[i] = NoRel
    BY <2>5 DEF Attached
  <2>6. placed \in Relations /\ Attached(placed) = Attached(now)
    BY <2>4, <2>5 DEF Relations, Attached
  <2>7. \A i \in Attached(placed) : i \in Range(ids)
                                  /\ placed[i].order = Place(ids, i) - 1
    BY <2>1, <2>4, <2>6
  <2> HIDE DEF placed, ids
  <2>8. DistinctOrders(placed)
    BY <2>3, <2>7 DEF DistinctOrders
  <2>9. Bounded(placed)
    <3>1. PICK n \in 1..MaxIds : DOMAIN ids = 1..n
      BY <1>3 DEF Lists
    <3>2. \A i \in Range(ids) : Place(ids, i) \in 1..n
      BY <1>3, <3>1, Places
    <3>3. n \in Nat
      BY <3>1, ConstantsAssumption
    <3>4. \A i \in Attached(placed) : placed[i].order <= n
      BY <2>7, <3>2, <3>3
    <3> QED
      BY <3>3, <3>4 DEF Bounded
  <2> QED
    BY <1>1, <1>4, <2>2, <2>6, <2>8, <2>9, CoverWrites
<1> QED
  BY <1>5, <1>6

(* Requests about images of the organization are among those about         *)
(* images.                                                                 *)
LEMMA OwnLists == Lists(Own) \subseteq Lists(Images)
<1>1. Own \subseteq Images
  BY DEF Own
<1>2. ASSUME NEW s \in Lists(Own) PROVE s \in Lists(Images)
  <2>1. PICK n \in 1..MaxIds : s \in [1..n -> Own]
    BY DEF Lists
  <2>2. s \in [1..n -> Images]
    BY <1>1, <2>1
  <2> QED
    BY <2>2 DEF Lists
<1> QED
  BY <1>2

(* A request for an object is well formed and holds nothing yet.           *)
LEMMA StartBegins ==
  ASSUME IInv, NEW t \in Txns, NEW o \in Objects,
         NEW op \in {"attach", "detach", "reorder", "set_cover", "unset_cover"},
         NEW ids, op # "unset_cover" => ids \in Lists(Images),
         op = "unset_cover" => ids = <<>>,
         op = "set_cover" => \E i \in Images : Range(ids) = {i},
         Start(t, op, o, ids)
  PROVE  Begins(t)
<1> DEFINE none == [i \in Images |-> NoRel]
           x == [at |-> "target", op |-> op, obj |-> o, ids |-> ids,
                 todo |-> {}, held |-> {}, view |-> none]
<1>1. txn' = [txn EXCEPT ![t] = x]
  BY DEF Start, Starting, Go
<1>2. txn'[t] = x /\ Others(t)
  BY <1>1 DEF Others, IInv, TypeOK
<1>3. none \in Relations
  BY DEF Relations
<1>4. ids \in Lists(Images) \cup {<<>>}
  OBVIOUS
<1>5. x \in Txn
  <2> HIDE DEF none
  <2> QED
    BY <1>3, <1>4 DEF Txn
<1>6. Fits(x)
  BY DEF Fits
<1> QED
  BY <1>2, <1>5, <1>6 DEF Begins, Start, Starting

(* So is the deletion of images.                                           *)
LEMMA StartDeleteBegins ==
  ASSUME IInv, NEW t \in Txns, NEW ids \in Lists(Own), StartDelete(t, ids)
  PROVE  Begins(t)
<1> DEFINE none == [i \in Images |-> NoRel]
           x == [at |-> "rows", op |-> "delete", obj |-> NoObject, ids |-> ids,
                 todo |-> Range(ids), held |-> {}, view |-> none]
<1>1. txn' = [txn EXCEPT ![t] = x]
  BY DEF StartDelete, Starting, Go
<1>2. txn'[t] = x /\ Others(t)
  BY <1>1 DEF Others, IInv, TypeOK
<1>3. none \in Relations
  BY DEF Relations
<1>4. ids \in Lists(Images) /\ Range(ids) \subseteq Images
  BY OwnLists, Places
<1>5. x \in Txn
  <2> HIDE DEF none
  <2> QED
    BY <1>3, <1>4 DEF Txn
<1>6. Fits(x)
  BY <1>4 DEF Fits
<1> QED
  BY <1>2, <1>5, <1>6 DEF Begins, StartDelete, Starting

(* The object is locked, or has gone.                                      *)
LEMMA LockTargetEffect ==
  ASSUME IInv, NEW t \in Txns, LockTarget(t)
  PROVE  Ends(t) \/ TakesTarget(t)
<1> DEFINE o == txn[t].obj
           x == [txn[t] EXCEPT !.at = "rows", !.todo = Attached(rel[o])]
<1>1. Go(t, IF o \in objects THEN x ELSE Idle)
  BY DEF LockTarget
<1>2. txn'[t] = (IF o \in objects THEN x ELSE Idle) /\ Others(t)
  BY <1>1 DEF Go, Others, IInv, TypeOK
<1> QED
  BY <1>2 DEF LockTarget, TakesTarget, Ends

(* Every route begins a well formed request.                               *)
LEMMA StartSteps ==
  ASSUME IInv, NEW t \in Txns, NEW o \in Objects,
         \/ StartAttach(t, o) \/ StartDetach(t, o) \/ StartReorder(t, o)
         \/ StartSetCover(t, o) \/ StartUnsetCover(t, o)
  PROVE  Begins(t)
<1>1. CASE StartAttach(t, o)
  <2>1. PICK ids \in Lists(Images) : Start(t, "attach", o, ids)
    BY <1>1 DEF StartAttach
  <2> QED
    BY <2>1, StartBegins
<1>2. CASE StartDetach(t, o)
  <2>1. PICK ids \in Lists(Own) : Start(t, "detach", o, ids)
    BY <1>2 DEF StartDetach
  <2> QED
    BY <2>1, StartBegins, OwnLists
<1>3. CASE StartReorder(t, o)
  <2>1. PICK ids \in Lists(Own) : Start(t, "reorder", o, ids)
    BY <1>3 DEF StartReorder
  <2> QED
    BY <2>1, StartBegins, OwnLists
<1>4. CASE StartUnsetCover(t, o)
  BY <1>4, StartBegins DEF StartUnsetCover
<1>5. CASE StartSetCover(t, o)
  <2>1. PICK i \in Own : Start(t, "set_cover", o, <<i>>)
    BY <1>5 DEF StartSetCover
  <2>2. i \in Images
    BY DEF Own
  <2>3. Range(<<i>>) = {i}
    BY DEF Range
  <2>4. <<i>> \in Lists(Images)
    <3>1. <<i>> \in [1..1 -> Images] /\ IsInjective(<<i>>)
      BY <2>2 DEF IsInjective
    <3>2. 1 \in 1..MaxIds
      BY ConstantsAssumption
    <3> QED
      BY <3>1, <3>2 DEF Lists
  <2> QED
    BY <2>1, <2>2, <2>3, <2>4, StartBegins
<1> QED
  BY <1>1, <1>2, <1>3, <1>4, <1>5

(* Every action has one of the effects.                                    *)
LEMMA NextEffect ==
  ASSUME IInv, Next
  PROVE  Effect
<1>1. ASSUME NEW o \in Objects, DeleteObject(o) PROVE Effect
  BY <1>1 DEF Effect
<1>2. ASSUME NEW t \in Txns, NEW o \in Objects,
             \/ StartAttach(t, o) \/ StartDetach(t, o) \/ StartReorder(t, o)
             \/ StartSetCover(t, o) \/ StartUnsetCover(t, o)
      PROVE  Effect
  BY <1>2, StartSteps DEF Effect
<1>3. ASSUME NEW t \in Txns, NEW ids \in Lists(Own), StartDelete(t, ids)
      PROVE  Effect
  BY <1>3, StartDeleteBegins DEF Effect
<1>4. ASSUME NEW t \in Txns, LockTarget(t) PROVE Effect
  BY <1>4, LockTargetEffect DEF Effect
<1>5. ASSUME NEW t \in Txns, Refuse(t) \/ BreakDeadlock(t) \/ Abort(t)
      PROVE  Effect
  <2>1. Ends(t)
    BY <1>5 DEF Refuse, BreakDeadlock, Abort, Go, Ends, Others, IInv, TypeOK
  <2> QED
    BY <2>1 DEF Effect
<1>6. ASSUME NEW t \in Txns, NEW i \in Images, LockRow(t, i) PROVE Effect
  BY <1>6 DEF Effect
<1>7. ASSUME NEW t \in Txns, ReadImages(t) \/ DeleteImages(t) PROVE Effect
  BY <1>7 DEF Effect
<1>8. ASSUME NEW t \in Txns, Attach(t) PROVE Effect
  BY <1>8, AttachEffect DEF Effect
<1>9. ASSUME NEW t \in Txns,
             \/ Detach(t) \/ Reorder(t) \/ SetCover(t) \/ UnsetCover(t)
      PROVE  Effect
  BY <1>9, DetachEffect, ReorderEffect, SetCoverEffect, UnsetCoverEffect
     DEF Effect
<1> QED
  BY <1>1, <1>2, <1>3, <1>4, <1>5, <1>6, <1>7, <1>8, <1>9 DEF Next

-----------------------------------------------------------------------------
(* The invariant is inductive.                                             *)

(* A request that is not at work has locked nothing.                       *)
LEMMA IdleIs ==
  /\ ~HasTarget(Idle) /\ Idle.at = "idle"
  /\ \A x \in Txn : x # Idle
BY DEF HasTarget, Idle, Txn

(* The invariant holds when no request is at work.                         *)
LEMMA InitIInv == Init => IInv
<1> SUFFICES ASSUME Init PROVE IInv
  OBVIOUS
<1>1. ASSUME NEW o \in Objects
      PROVE  Good(rel[o]) /\ Attached(rel[o]) \subseteq images \cap Own
  <2>1. /\ rel[o] \in [Images -> [order : 0..2, cover : BOOLEAN] \cup {NoRel}]
        /\ Attached(rel[o]) \cap Foreign = {} /\ DistinctOrders(rel[o])
        /\ \A i, j \in Covers(rel[o]) : i = j
    BY DEF Init
  <2>2. rel[o] \in Relations
    BY <2>1 DEF Relations, Relation
  <2>3. \A i \in Attached(rel[o]) : rel[o][i].order <= 2 /\ i \in Images
    BY <2>1 DEF Attached
  <2>4. Bounded(rel[o])
    BY <2>3 DEF Bounded
  <2> QED
    BY <2>1, <2>2, <2>3, <2>4 DEF Good, Init, Own
<1>2. rel \in [Objects -> Relations]
  BY <1>1 DEF Init, Good
<1>3. \A t \in Txns : txn[t] = Idle
  BY DEF Init
<1>4. TypeOK
  BY <1>1, <1>2, ConstantsAssumption DEF Init, TypeOK
<1>5. RelationsGood
  BY <1>1 DEF RelationsGood
<1>6. TxnsFit /\ TargetsHeld /\ RowsHeld /\ Seen
  BY <1>3, IdleIs DEF TxnsFit, TargetsHeld, RowsHeld, Seen, Active, Locked
<1> QED
  BY <1>4, <1>5, <1>6 DEF IInv

(* A step of one request that leaves images and relations alone.           *)
LEMMA QuietStep ==
  ASSUME IInv, NEW t \in Txns, NEW x \in {Idle} \cup Txn,
         txn' = [txn EXCEPT ![t] = x],
         UNCHANGED <<images, objects, rel>>, requests' \in 0..MaxRequests,
         x # Idle => Fits(x),
         HasTarget(x) =>
            /\ Sees(x, rel[x.obj])
            /\ \A s \in Txns \ {t} : ~(Locked(s) /\ txn[s].obj = x.obj),
         \A s \in Txns \ {t} :
            x # Idle /\ Active(s) => txn[s].held \cap x.held = {}
  PROVE  IInv'
<1>1. txn \in [Txns -> {Idle} \cup Txn]
  BY DEF IInv, TypeOK
<1>2. txn'[t] = x /\ \A s \in Txns \ {t} : txn'[s] = txn[s]
  BY <1>1
<1>3. TypeOK'
  BY <1>1 DEF IInv, TypeOK
<1>4. RelationsGood'
  BY DEF IInv, RelationsGood
<1>5. TxnsFit'
  BY <1>2 DEF IInv, TxnsFit, Active
<1>6. TargetsHeld'
  <2>1. SUFFICES ASSUME NEW p \in Txns, NEW q \in Txns,
                        HasTarget(txn'[p]), HasTarget(txn'[q]),
                        txn'[p].obj = txn'[q].obj
                 PROVE  p = q
    BY DEF TargetsHeld, Locked
  <2>2. CASE p # t /\ q # t
    BY <1>2, <2>1, <2>2 DEF IInv, TargetsHeld, Locked
  <2>3. CASE p = t /\ q # t
    BY <1>2, <2>1, <2>3 DEF Locked
  <2>4. CASE p # t /\ q = t
    BY <1>2, <2>1, <2>4 DEF Locked
  <2> QED
    BY <2>2, <2>3, <2>4
<1>7. RowsHeld'
  <2>1. SUFFICES ASSUME NEW p \in Txns, NEW q \in Txns, p # q,
                        txn'[p] # Idle, txn'[q] # Idle
                 PROVE  txn'[p].held \cap txn'[q].held = {}
    BY DEF RowsHeld, Active
  <2>2. CASE p # t /\ q # t
    BY <1>2, <2>1, <2>2 DEF IInv, RowsHeld, Active
  <2>3. CASE p = t
    BY <1>2, <2>1, <2>3 DEF Active
  <2>4. CASE q = t
    BY <1>2, <2>1, <2>4 DEF Active
  <2> QED
    BY <2>2, <2>3, <2>4
<1>8. Seen'
  <2>1. SUFFICES ASSUME NEW p \in Txns, HasTarget(txn'[p])
                 PROVE  Sees(txn'[p], rel[txn'[p].obj])
    BY DEF Seen, Locked
  <2>2. CASE p = t
    BY <1>2, <2>1, <2>2
  <2>3. CASE p # t
    BY <1>2, <2>1, <2>3 DEF IInv, Seen, Locked
  <2> QED
    BY <2>2, <2>3
<1> QED
  BY <1>3, <1>4, <1>5, <1>6, <1>7, <1>8 DEF IInv

(* A request that begins holds nothing.                                    *)
LEMMA BeginsStep ==
  ASSUME IInv, NEW t \in Txns, Begins(t)
  PROVE  IInv'
<1> DEFINE x == txn'[t]
<1>1. /\ x \in Txn /\ Fits(x) /\ x.held = {} /\ txn' = [txn EXCEPT ![t] = x]
      /\ UNCHANGED <<images, objects, rel>>
  BY DEF Begins, Others
<1>2. ~HasTarget(x)
  BY DEF Begins, HasTarget
<1>3. requests' \in 0..MaxRequests
  BY ConstantsAssumption DEF Begins, IInv, TypeOK
<1> HIDE DEF x
<1> QED
  BY <1>1, <1>2, <1>3, QuietStep

(* A request that ends gives up what it holds.                             *)
LEMMA EndsStep ==
  ASSUME IInv, NEW t \in Txns, Ends(t)
  PROVE  IInv'
<1>1. txn' = [txn EXCEPT ![t] = Idle] /\ UNCHANGED <<images, objects, rel>>
  BY DEF Ends, Others
<1>2. requests' \in 0..MaxRequests
  BY DEF Ends, IInv, TypeOK
<1> QED
  BY <1>1, <1>2, IdleIs, QuietStep

(* The object was not locked by another request, and what this one has     *)
(* yet to lock is all there is.                                            *)
LEMMA TakesTargetStep ==
  ASSUME IInv, NEW t \in Txns, TakesTarget(t)
  PROVE  IInv'
<1> DEFINE o == txn[t].obj
           x == [txn[t] EXCEPT !.at = "rows", !.todo = Attached(rel[o])]
<1>1. Active(t) /\ txn[t].at = "target"
  BY AtWork DEF TakesTarget
<1>2. /\ txn[t] \in Txn /\ Fits(txn[t]) /\ o \in Objects
      /\ txn[t].op # "delete"
      /\ txn[t].held = {} /\ txn[t].view = [i \in Images |-> NoRel]
  BY <1>1, Shape DEF Fits
<1>3. /\ x.at = "rows" /\ x.op = txn[t].op /\ x.obj = o /\ x.ids = txn[t].ids
      /\ x.todo = Attached(rel[o]) /\ x.held = {} /\ x.view = txn[t].view
      /\ x \in Txn
  BY <1>2 DEF Txn, Attached
<1>4. txn' = [txn EXCEPT ![t] = x] /\ UNCHANGED <<images, objects, rel>>
  BY DEF TakesTarget, Others
<1>5. requests' \in 0..MaxRequests
  BY DEF TakesTarget, IInv, TypeOK
<1> HIDE DEF x
<1>6. Fits(x)
  BY <1>1, <1>2, <1>3 DEF Fits
<1>7. Sees(x, rel[x.obj])
  BY <1>2, <1>3 DEF Sees, Attached
<1>8. \A s \in Txns \ {t} : ~(Locked(s) /\ txn[s].obj = x.obj)
  <2>1. SUFFICES ASSUME NEW s \in Txns \ {t}, Locked(s), txn[s].obj = o
                 PROVE  FALSE
    BY <1>3
  <2>2. Active(s) /\ txn[s].at # "target"
    BY <2>1, AtWork DEF Locked, HasTarget
  <2>3. s \in Blockers(t)
    BY <1>1, <2>1, <2>2 DEF Blockers, LocksTarget
  <2> QED
    BY <2>3 DEF TakesTarget
<1> QED
  BY <1>3, <1>4, <1>5, <1>6, <1>7, <1>8, QuietStep

(* The image was not locked by another request, and is read as it is.      *)
LEMMA LockRowStep ==
  ASSUME IInv, NEW t \in Txns, NEW i \in Images, LockRow(t, i)
  PROVE  IInv'
<1> DEFINE old == txn[t]
           f == rel[old.obj]
           view == IF old.op = "delete" THEN old.view
                   ELSE [old.view EXCEPT ![i] = f[i]]
           x == [old EXCEPT !.todo = @ \ {i}, !.held = @ \cup {i},
                            !.view = IF old.op = "delete" THEN @
                                     ELSE [@ EXCEPT ![i] = f[i]]]
<1>1. Active(t) /\ old.at = "rows" /\ i \in Left(t) /\ Blockers(t) = {}
  BY AtWork DEF LockRow, IsNext
<1>2. old \in Txn /\ Fits(old)
  BY <1>1, Shape
<1>3. old.op # "delete" => /\ Locked(t) /\ old.obj \in Objects
                           /\ f \in Relations /\ Sees(old, f) /\ f[i] # NoRel
  BY <1>1, <1>2
     DEF Locked, HasTarget, Fits, IInv, TypeOK, Seen, Left
<1>4. view \in Relations
  BY <1>2, <1>3 DEF Txn, Relations
<1>5. x = [old EXCEPT !.todo = old.todo \ {i}, !.held = old.held \cup {i},
                      !.view = view]
  BY <1>2 DEF Txn
<1>6. txn' = [txn EXCEPT ![t] = x] /\ UNCHANGED <<images, objects, rel>>
  BY DEF LockRow, Go
<1>7. requests' \in 0..MaxRequests
  BY DEF LockRow, IInv, TypeOK
<1> HIDE DEF x, view
<1>8. /\ x.at = "rows" /\ x.op = old.op /\ x.obj = old.obj /\ x.ids = old.ids
      /\ x.todo = old.todo \ {i} /\ x.held = old.held \cup {i} /\ x.view = view
      /\ x \in Txn
  BY <1>1, <1>2, <1>4, <1>5 DEF Txn
<1>9. Fits(x)
  BY <1>1, <1>2, <1>8 DEF Fits
<1>10. ASSUME old.op # "delete"
       PROVE  /\ Sees(x, rel[x.obj])
              /\ \A s \in Txns \ {t} : ~(Locked(s) /\ txn[s].obj = x.obj)
  <2>1. view = [old.view EXCEPT ![i] = f[i]] /\ old.view \in Relations
    BY <1>2, <1>10 DEF view, Txn
  <2>2. \A j \in Images : view[j] = IF j = i THEN f[i] ELSE old.view[j]
    BY <2>1 DEF Relations
  <2>3. Sees(x, f)
    BY <1>3, <1>8, <1>10, <2>2 DEF Sees
  <2> QED
    BY <1>3, <1>8, <1>10, <2>3 DEF IInv, TargetsHeld
<1>11. ASSUME NEW s \in Txns \ {t}, Active(s)
       PROVE  txn[s].held \cap x.held = {}
  <2>1. s \notin Blockers(t) /\ IsNext(t, i)
    BY <1>1 DEF LockRow
  <2>2. i \notin txn[s].held
    BY <1>1, <1>11, <2>1 DEF Blockers, LocksImage
  <2> QED
    BY <1>1, <1>8, <1>11, <2>2 DEF IInv, RowsHeld
<1>12. HasTarget(x) => old.op # "delete"
  BY <1>8 DEF HasTarget
<1> HIDE DEF old, f
<1>13. x \in {Idle} \cup Txn
  BY <1>8
<1> QED
  BY <1>6, <1>7, <1>9, <1>10, <1>11, <1>12, <1>13, QuietStep

(* An attach goes on with all relations locked.                            *)
LEMMA ReadImagesStep ==
  ASSUME IInv, NEW t \in Txns, ReadImages(t)
  PROVE  IInv'
<1> DEFINE old == txn[t]
           f == rel[old.obj]
           x == [old EXCEPT !.at = "commit"]
<1>1. /\ Active(t) /\ old.at = "rows" /\ old.op = "attach" /\ Left(t) = {}
      /\ Range(old.ids) \subseteq images \cap Own
  BY AtWork DEF ReadImages, Ready, RowsLocked, Refused
<1>2. old \in Txn /\ Fits(old)
  BY <1>1, Shape
<1>3. Locked(t) /\ Sees(old, f)
  BY <1>1 DEF Locked, HasTarget, IInv, Seen
<1>4. txn' = [txn EXCEPT ![t] = x] /\ UNCHANGED <<images, objects, rel>>
  BY DEF ReadImages, Ready, Go
<1>5. requests' \in 0..MaxRequests
  BY DEF ReadImages, Ready, IInv, TypeOK
<1> HIDE DEF x
<1>6. /\ x.at = "commit" /\ x.op = old.op /\ x.obj = old.obj /\ x.ids = old.ids
      /\ x.todo = old.todo /\ x.held = old.held
      /\ x.view = old.view /\ x \in Txn
  BY <1>2 DEF Txn, x
<1>7. Fits(x)
  BY <1>1, <1>2, <1>6 DEF Fits
<1>8. \A i \in old.todo : f[i] = NoRel
  BY <1>1 DEF Left
<1>9. Sees(x, rel[x.obj])
  BY <1>3, <1>6, <1>8 DEF Sees
<1>10. \A s \in Txns \ {t} : ~(Locked(s) /\ txn[s].obj = x.obj)
  BY <1>3, <1>6 DEF IInv, TargetsHeld
<1>11. \A s \in Txns \ {t} : Active(s) => txn[s].held \cap x.held = {}
  BY <1>1, <1>6 DEF IInv, RowsHeld
<1> HIDE DEF old, f
<1>12. x \in {Idle} \cup Txn
  BY <1>6
<1> QED
  BY <1>4, <1>5, <1>7, <1>9, <1>10, <1>11, <1>12, QuietStep

(* The deletion of an object changes no relation.                          *)
LEMMA DeleteObjectStep ==
  ASSUME IInv, NEW o \in Objects, DeleteObject(o)
  PROVE  IInv'
<1>1. TypeOK'
  BY DEF DeleteObject, IInv, TypeOK
<1>2. UNCHANGED <<rel, txn>>
  BY DEF DeleteObject
<1> QED
  BY <1>1, <1>2
     DEF IInv, RelationsGood, TxnsFit, TargetsHeld, RowsHeld, Seen, Active,
         Locked

(* A request ends and others go on: what they have, they keep.             *)
LEMMA EndedKeeps ==
  ASSUME IInv, NEW t \in Txns, txn'[t] = Idle, Others(t)
  PROVE  /\ txn' \in [Txns -> {Idle} \cup Txn]
         /\ \A s \in Txns : HasTarget(txn'[s]) => s # t /\ txn'[s] = txn[s]
         /\ TxnsFit' /\ TargetsHeld' /\ RowsHeld'
<1>1. txn' = [txn EXCEPT ![t] = Idle] /\ txn \in [Txns -> {Idle} \cup Txn]
  BY DEF Others, IInv, TypeOK
<1>2. \A s \in Txns : txn'[s] = IF s = t THEN Idle ELSE txn[s]
  BY <1>1
<1>3. \A s \in Txns : HasTarget(txn'[s]) => s # t /\ txn'[s] = txn[s]
  BY <1>2, IdleIs
<1>4. TargetsHeld'
  BY <1>3 DEF IInv, TargetsHeld, Locked
<1>5. TxnsFit' /\ RowsHeld'
  BY <1>2 DEF IInv, TxnsFit, RowsHeld, Active
<1> QED
  BY <1>1, <1>3, <1>4, <1>5

(* A write is about an object that no other request has locked.            *)
LEMMA WritesStep ==
  ASSUME IInv, NEW t \in Txns, NEW f \in Relations, Writes(t, f)
  PROVE  IInv'
<1> DEFINE o == txn[t].obj
<1>1. /\ rel' = [rel EXCEPT ![o] = f]
      /\ UNCHANGED <<images, objects, requests>>
      /\ Good(f) /\ Attached(f) \subseteq images \cap Own
      /\ Locked(t) /\ txn'[t] = Idle /\ Others(t)
  BY DEF Writes
<1>2. o \in Objects
  BY <1>1, LockedShape
<1>3. \A p \in Objects : rel'[p] = IF p = o THEN f ELSE rel[p]
  BY <1>1 DEF IInv, TypeOK
<1>4. rel' \in [Objects -> Relations]
  BY <1>1 DEF IInv, TypeOK
<1>5. /\ txn' \in [Txns -> {Idle} \cup Txn]
      /\ \A s \in Txns : HasTarget(txn'[s]) => s # t /\ txn'[s] = txn[s]
      /\ TxnsFit' /\ TargetsHeld' /\ RowsHeld'
  BY <1>1, EndedKeeps
<1>6. TypeOK'
  BY <1>1, <1>3, <1>4, <1>5 DEF IInv, TypeOK
<1>7. RelationsGood'
  BY <1>1, <1>3 DEF IInv, RelationsGood
<1>8. Seen'
  <2>1. SUFFICES ASSUME NEW s \in Txns, HasTarget(txn'[s])
                 PROVE  Sees(txn'[s], rel'[txn'[s].obj])
    BY DEF Seen, Locked
  <2>2. s # t /\ txn'[s] = txn[s] /\ Locked(s)
    BY <1>5, <2>1 DEF Locked
  <2>3. txn[s].obj # o /\ txn[s].obj \in Objects
    BY <1>1, <2>2, LockedShape DEF IInv, TargetsHeld
  <2> QED
    BY <1>3, <2>2, <2>3 DEF IInv, Seen
<1> QED
  BY <1>5, <1>6, <1>7, <1>8 DEF IInv

(* A deletion is of images that no other request has locked.               *)
LEMMA DeleteImagesStep ==
  ASSUME IInv, NEW t \in Txns, DeleteImages(t)
  PROVE  IInv'
<1> DEFINE gone == txn[t].held
<1>1. /\ txn' = [txn EXCEPT ![t] = Idle] /\ txn[t].at = "rows"
      /\ images' = images \ gone /\ UNCHANGED <<objects, requests>>
      /\ rel' = [o \in Objects |-> Without(rel[o], gone)]
  BY DEF DeleteImages, RowsLocked, Go, Without
<1>2. txn'[t] = Idle /\ Others(t)
  BY <1>1 DEF Others, IInv, TypeOK
<1>3. /\ txn' \in [Txns -> {Idle} \cup Txn]
      /\ \A s \in Txns : HasTarget(txn'[s]) => s # t /\ txn'[s] = txn[s]
      /\ TxnsFit' /\ TargetsHeld' /\ RowsHeld'
  BY <1>2, EndedKeeps
<1>4. ASSUME NEW o \in Objects
      PROVE  /\ rel'[o] = Without(rel[o], gone) /\ Good(rel'[o])
             /\ Attached(rel'[o]) = Attached(rel[o]) \ gone
  <2>1. rel'[o] = Without(rel[o], gone)
    BY <1>1
  <2>2. Good(rel[o])
    BY DEF IInv, RelationsGood
  <2> QED
    BY <2>1, <2>2, WithoutGood
<1>5. rel' \in [Objects -> Relations]
  BY <1>1, <1>4 DEF Good
<1>6. TypeOK'
  BY <1>1, <1>3, <1>4, <1>5 DEF IInv, TypeOK
<1>7. RelationsGood'
  BY <1>4 DEF RelationsGood
<1>8. Seen'
  <2>1. SUFFICES ASSUME NEW s \in Txns, HasTarget(txn'[s])
                 PROVE  Sees(txn'[s], rel'[txn'[s].obj])
    BY DEF Seen, Locked
  <2> DEFINE x == txn[s]
             f == rel[x.obj]
  <2>2. s # t /\ txn'[s] = x /\ Locked(s)
    BY <1>3, <2>1 DEF Locked
  <2>3. x.obj \in Objects /\ Active(s) /\ Active(t)
    BY <1>1, <2>2, LockedShape, AtWork
  <2>4. x.held \cap gone = {}
    BY <2>2, <2>3 DEF IInv, RowsHeld
  <2>5. Sees(x, f)
    BY <2>2 DEF IInv, Seen
  <2>6. \A i \in Images : rel'[x.obj][i] = IF i \in gone THEN NoRel ELSE f[i]
    BY <1>4, <2>3 DEF Without
  <2>7. x.todo \subseteq Images
    BY <2>2, LockedShape DEF Txn
  <2> HIDE DEF x
  <2>8. Sees(x, rel'[x.obj])
    BY <2>4, <2>5, <2>6, <2>7 DEF Sees
  <2> QED
    BY <2>2, <2>8 DEF x
<1> QED
  BY <1>3, <1>6, <1>7, <1>8 DEF IInv

(* Every step keeps the invariant.                                         *)
LEMMA NextIInv == IInv /\ [Next]_vars => IInv'
<1> SUFFICES ASSUME IInv, [Next]_vars PROVE IInv'
  OBVIOUS
<1>1. CASE UNCHANGED vars
  BY <1>1
     DEF vars, IInv, TypeOK, RelationsGood, TxnsFit, TargetsHeld, RowsHeld,
              Seen, Active, Locked
<1>2. CASE Next
  <2>1. Effect
    BY <1>2, NextEffect
  <2> QED
    BY <2>1, BeginsStep, EndsStep, TakesTargetStep, LockRowStep,
       ReadImagesStep,
       WritesStep, DeleteImagesStep, DeleteObjectStep DEF Effect
<1> QED
  BY <1>1, <1>2

(* The relations of objects and the requests at work on them agree, as     *)
(* IInv says, whatever requests, deletions and failures come.              *)
THEOREM Inductive == Spec => []IInv
<1>1. Init => IInv
  BY InitIInv
<1>2. IInv /\ [Next]_vars => IInv'
  BY NextIInv
<1> QED
  BY <1>1, <1>2, PTL DEF Spec

(* The rows and what requests hold have their types, and only images of    *)
(* the organization that are there have relations (operations.py:75-79).   *)
THEOREM TypeCorrect == Spec => []TypeOK
<1>1. IInv => TypeOK
  BY DEF IInv
<1> QED
  BY <1>1, Inductive, PTL

(* Attaches, detaches, reorders and deletions, however many come at once   *)
(* and of however many images, never give two images of an object the same *)
(* place (operations.py:87, 173-179).                                      *)
THEOREM PlacesDistinct == Spec => []OrdersDistinct
<1>1. IInv => OrdersDistinct
  BY DEF IInv, RelationsGood, Good, OrdersDistinct
<1> QED
  BY <1>1, Inductive, PTL

(* What a request has read and locked is current when it writes            *)
(* (operations.py:36-41).                                                  *)
THEOREM ViewsStay == Spec => []ViewCurrent
<1>1. ASSUME IInv, NEW t \in Txns, RowsLocked(t) \/ txn[t].at = "commit",
             txn[t].op # "delete"
      PROVE  txn[t].view = rel[txn[t].obj]
  BY <1>1, RowsLockedIs, CommitIs
<1>2. IInv => ViewCurrent
  BY <1>1 DEF ViewCurrent
<1> QED
  BY <1>2, Inductive, PTL

(* An attach never runs into images_relation_unique or                     *)
(* uniq_primary_per_object (operations.py:70-74, 94-100).                  *)
THEOREM AttachNeverConflicts == Spec => []ConstraintsNeverHit
<1>1. ASSUME IInv, NEW t \in Txns, txn[t].at = "commit"
      PROVE  ~Conflict(t)
  <2> DEFINE now == rel[txn[t].obj]
  <2>1. txn[t].view = now
    BY <1>1, CommitIs
  <2>2. ToAttach(t) \cap Attached(now) = {}
    BY <2>1 DEF ToAttach
  <2>3. \A i \in ToAttach(t) : NewRelation(t, i).cover => Covers(now) = {}
    BY <2>1 DEF NewRelation
  <2> QED
    BY <2>2, <2>3 DEF Conflict
<1>2. IInv => ConstraintsNeverHit
  BY <1>1 DEF ConstraintsNeverHit
<1> QED
  BY <1>2, Inductive, PTL

(* An object that gets an image has exactly one cover from then on, and    *)
(* keeps the one it had (operations.py:83, 99, 103).                       *)
THEOREM CoversKept == Spec => CoverAfterAttach
<1>1. ASSUME IInv, [Next]_vars, NEW o \in Objects
      PROVE  CoverStays(rel[o], rel'[o])
  <2>1. CASE UNCHANGED rel
    BY <2>1 DEF CoverStays
  <2>2. ASSUME NEW t \in Txns, NEW f \in Relations, Writes(t, f)
        PROVE  CoverStays(rel[o], rel'[o])
    <3>1. /\ rel' = [rel EXCEPT ![txn[t].obj] = f]
          /\ CoverStays(rel[txn[t].obj], f)
      BY <2>2 DEF Writes
    <3>2. rel'[o] = IF o = txn[t].obj THEN f ELSE rel[o]
      BY <1>1, <3>1 DEF IInv, TypeOK
    <3>3. CASE o = txn[t].obj
      BY <3>1, <3>2, <3>3
    <3>4. CASE o # txn[t].obj
      <4>1. rel'[o] = rel[o]
        BY <3>2, <3>4
      <4> QED
        BY <4>1 DEF CoverStays
    <3> QED
      BY <3>3, <3>4
  <2>3. ASSUME NEW t \in Txns, DeleteImages(t)
        PROVE  CoverStays(rel[o], rel'[o])
    <3>1. rel'[o] = Without(rel[o], txn[t].held)
      BY <2>3 DEF DeleteImages, Without
    <3>2. Good(rel[o])
      BY <1>1 DEF IInv, RelationsGood
    <3> QED
      BY <3>1, <3>2, WithoutGood
  <2>4. UNCHANGED vars \/ Effect
    BY <1>1, NextEffect
  <2> QED
    BY <2>1, <2>2, <2>3, <2>4
       DEF vars, Effect, Begins, Ends, TakesTarget, LockRow, ReadImages, Ready,
           DeleteObject
<1>2. IInv /\ [Next]_vars =>
        \A o \in Objects :
          Attached(rel[o]) # Attached(rel'[o])
            /\ Attached(rel[o]) \subseteq Attached(rel'[o])
          => /\ Cardinality(Covers(rel'[o])) = 1
             /\ Covers(rel[o]) \subseteq Covers(rel'[o])
  BY <1>1 DEF CoverStays
<1> QED
  BY <1>2, Inductive, PTL DEF Spec, CoverAfterAttach

=============================================================================
