--------------------------- MODULE ImageRelations ---------------------------
(***************************************************************************)
(* The images of an object (a contact, or the organization): the           *)
(* transactions of images/operations.py and their routes, concurrent with  *)
(* each other and with the deletion of images and of the object.           *)
(*                                                                         *)
(* Locks are those of PostgreSQL in READ COMMITTED.  _lock_target locks    *)
(* the object's row.  _locked_relations locks relation by relation, in     *)
(* display order, and with each its image, which select_related joins; a   *)
(* deleted image locks its relations and its row.  One lock per image      *)
(* stands for both.  Writes are seen by others, and foreign keys checked,  *)
(* at the commit.                                                          *)
(***************************************************************************)
EXTENDS Integers, FiniteSets, Functions

CONSTANTS
    Txns,          \* requests being served at the same time
    Objects, Images,
    Foreign,       \* images of other organizations
    NoObject, NoRel,
    MaxIds,        \* bound: images of a request
    MaxRequests    \* bound: requests

ASSUME ConstantsAssumption ==
    /\ Foreign \subseteq Images /\ NoObject \notin Objects
    /\ MaxIds \in Nat \ {0} /\ MaxRequests \in Nat

Relation == [order : Nat, cover : BOOLEAN]
Relations == [Images -> Relation \cup {NoRel}]

ASSUME NoRelAssumption == NoRel \notin Relation

(* The image ids of a request; bulk_attach drops duplicates. *)
Lists(S) == {s \in UNION {[1..n -> S] : n \in 1..MaxIds} : IsInjective(s)}
Own == Images \ Foreign

VARIABLES
    images,      \* Image rows
    objects,     \* Contact or Organization rows
    rel,         \* PolymorphicImageRelation rows by object and image
    txn,         \* what each request has locked, read and still to lock
    requests     \* requests so far

vars == <<images, objects, rel, txn, requests>>

Idle == [at |-> "idle"]
Txn == [at : {"target", "rows", "commit"},
        op : {"attach", "detach", "reorder", "set_cover", "unset_cover",
              "delete"},
        obj : Objects \cup {NoObject}, ids : Lists(Images) \cup {<<>>},
        todo : SUBSET Images, held : SUBSET Images, view : Relations]

Attached(f) == {i \in Images : f[i] # NoRel}
Covers(f) == {i \in Attached(f) : f[i].cover}
DistinctOrders(f) == \A i, j \in Attached(f) : f[i].order = f[j].order => i = j
Place(ids, i) == CHOOSE n \in DOMAIN ids : ids[n] = i

TypeOK ==
    /\ images \subseteq Images /\ objects \subseteq Objects
    /\ rel \in [Objects -> Relations]
    /\ txn \in [Txns -> {Idle} \cup Txn]
    /\ requests \in 0..MaxRequests
    /\ \A o \in Objects : Attached(rel[o]) \subseteq images \cap Own

(* Objects may have images already. *)
Init ==
    /\ images = Images /\ objects = Objects
    /\ rel \in [Objects ->
                  {f \in [Images -> [order : 0..2, cover : BOOLEAN] \cup {NoRel}] :
                     /\ Attached(f) \cap Foreign = {}
                     /\ DistinctOrders(f)
                     /\ \A i, j \in Covers(f) : i = j}]
    /\ txn = [t \in Txns |-> Idle]
    /\ requests = 0

-----------------------------------------------------------------------------
(* Locks                                                                   *)

Active(t) == txn[t] # Idle

LocksNone(t, o) == FALSE
LocksTarget(t, o) ==
    Active(t) /\ txn[t].obj = o /\ txn[t].at # "target"

LocksNoRow(t, i) == FALSE
LocksImage(t, i) == Active(t) /\ i \in txn[t].held

(* Rows yet to be locked: relations in display order, images of a deletion *)
(* in the order asked for.  One deleted meanwhile is passed over.          *)
Left(t) ==
    {i \in txn[t].todo : IF txn[t].op = "delete" THEN i \in images
                                                 ELSE rel[txn[t].obj][i] # NoRel}
Before(t, i, j) ==
    IF txn[t].op = "delete"
    THEN Place(txn[t].ids, i) < Place(txn[t].ids, j)
    ELSE rel[txn[t].obj][i].order < rel[txn[t].obj][j].order
IsNext(t, i) == i \in Left(t) /\ \A j \in Left(t) \ {i} : Before(t, i, j)

(* Images whose foreign key the commit checks: it waits for whoever has    *)
(* them locked.                                                            *)
ToAttach(t) == Range(txn[t].ids) \ Attached(txn[t].view)

Blockers(t) ==
    {p \in Txns \ {t} :
       \/ txn[t].at = "target" /\ LocksTarget(p, txn[t].obj)
       \/ /\ txn[t].at = "rows"
          /\ \E i \in Left(t) : IsNext(t, i) /\ LocksImage(p, i)
       \/ /\ txn[t].at = "commit"
          /\ \E i \in ToAttach(t) : LocksImage(p, i)}

Deadlocked(t) ==
    \E W \in SUBSET Txns : t \in W /\ \A w \in W : Blockers(w) \cap W # {}

Go(t, r) == txn' = [txn EXCEPT ![t] = r]

(* PostgreSQL aborts one of the transactions that wait for each other. *)
BreakDeadlock(t) ==
    /\ Deadlocked(t)
    /\ Go(t, Idle)
    /\ UNCHANGED <<images, objects, rel, requests>>

-----------------------------------------------------------------------------
(* Requests                                                                *)

Starting(t, at, op, o, ids, todo) ==
    /\ txn[t] = Idle /\ requests < MaxRequests
    /\ requests' = requests + 1
    /\ Go(t, [at |-> at, op |-> op, obj |-> o, ids |-> ids, todo |-> todo,
              held |-> {}, view |-> [i \in Images |-> NoRel]])
    /\ UNCHANGED <<images, objects, rel>>

(* The route finds the object in its organization, without a lock. *)
Start(t, op, o, ids) ==
    /\ o \in objects
    /\ Starting(t, "target", op, o, ids, {})

(* attach_images and bulk_attach_images, bulk_detach_images and            *)
(* remove_image_from_object, and the routes of images/api/ordering.py.     *)
StartAttach(t, o) == \E ids \in Lists(Images) : Start(t, "attach", o, ids)
StartDetach(t, o) == \E ids \in Lists(Own) : Start(t, "detach", o, ids)
StartReorder(t, o) == \E ids \in Lists(Own) : Start(t, "reorder", o, ids)
StartSetCover(t, o) == \E i \in Own : Start(t, "set_cover", o, <<i>>)
StartUnsetCover(t, o) == Start(t, "unset_cover", o, <<>>)

(* delete_image, and bulk_delete_images with several ids: one transaction, *)
(* image by image in the order given.                                      *)
StartDelete(t, ids) ==
    Starting(t, "rows", "delete", NoObject, ids, Range(ids))

(* _lock_target, and the statement of _locked_relations begins.  If the    *)
(* object has gone meanwhile the request fails.                            *)
LockTarget(t) ==
    LET o == txn[t].obj IN
    /\ txn[t].at = "target" /\ Blockers(t) = {}
    /\ Go(t, IF o \in objects
             THEN [txn[t] EXCEPT !.at = "rows", !.todo = Attached(rel[o])]
             ELSE Idle)
    /\ UNCHANGED <<images, objects, rel, requests>>

(* The next relation or image, as it is once the lock is granted.          *)
LockRow(t, i) ==
    /\ txn[t].at = "rows" /\ IsNext(t, i) /\ Blockers(t) = {}
    /\ Go(t, [txn[t] EXCEPT
                !.todo = @ \ {i}, !.held = @ \cup {i},
                !.view = IF txn[t].op = "delete" THEN @
                         ELSE [@ EXCEPT ![i] = rel[txn[t].obj][i]]])
    /\ UNCHANGED <<images, objects, rel, requests>>

RowsLocked(t) == txn[t].at = "rows" /\ Left(t) = {}

RefusesNothing(t) == FALSE

(* Refusals of the operations: nothing is changed. *)
Refused(t) ==
    LET ids == Range(txn[t].ids)
        there == Attached(txn[t].view)
    IN CASE txn[t].op = "attach" -> ~ ids \subseteq images \cap Own
         [] txn[t].op = "reorder" -> there # {} /\ ids # there
         [] txn[t].op = "set_cover" -> ~ ids \subseteq there
         [] OTHER -> FALSE

Refuse(t) ==
    /\ RowsLocked(t) /\ Refused(t)
    /\ Go(t, Idle)
    /\ UNCHANGED <<images, objects, rel, requests>>

Ready(t, op) ==
    /\ RowsLocked(t) /\ txn[t].op = op /\ ~Refused(t)
    /\ UNCHANGED <<images, objects, requests>>

Finish(t, f) ==
    /\ rel' = [rel EXCEPT ![txn[t].obj] = f]
    /\ Go(t, Idle)

(* The images have been read; the relations are inserted next. *)
ReadImages(t) ==
    /\ Ready(t, "attach")
    /\ Go(t, [txn[t] EXCEPT !.at = "commit"])
    /\ UNCHANGED rel

Orders(view) == {view[i].order : i \in Attached(view)}
CountOf(view) == Cardinality(Attached(view)) - 1
LastOrder(view) ==
    CHOOSE n \in Orders(view) \cup {-1} : \A m \in Orders(view) : m <= n

(* New relations come behind the others, in the order of the request, and  *)
(* the first is the cover of an object without one.                        *)
Earlier(t, i) ==
    {j \in ToAttach(t) : Place(txn[t].ids, j) < Place(txn[t].ids, i)}
NewRelation(t, i) ==
    [order |-> LastOrder(txn[t].view) + 1 + Cardinality(Earlier(t, i)),
     cover |-> Earlier(t, i) = {} /\ Covers(txn[t].view) = {}]

(* images_relation_unique and uniq_primary_per_object. *)
Conflict(t) ==
    LET now == rel[txn[t].obj]
    IN \/ ToAttach(t) \cap Attached(now) # {}
       \/ /\ \E i \in ToAttach(t) : NewRelation(t, i).cover
          /\ Covers(now) # {}

(* A conflict, or an image that has been deleted meanwhile, fails it all. *)
Attach(t) ==
    /\ txn[t].at = "commit" /\ Blockers(t) = {}
    /\ IF Conflict(t) \/ ~ ToAttach(t) \subseteq images
       THEN Go(t, Idle) /\ UNCHANGED rel
       ELSE Finish(t, [i \in Images |->
                         IF i \in ToAttach(t) THEN NewRelation(t, i)
                                              ELSE rel[txn[t].obj][i]])
    /\ UNCHANGED <<images, objects, requests>>

(* No other image takes the place or the cover of a detached one. *)
Detach(t) ==
    LET gone == Range(txn[t].ids) \cap Attached(txn[t].view) IN
    /\ Ready(t, "detach")
    /\ Finish(t, [i \in Images |->
                    IF i \in gone THEN NoRel ELSE rel[txn[t].obj][i]])

WithCover(f, c) ==
    [i \in Images |-> IF f[i] = NoRel THEN NoRel
                      ELSE [f[i] EXCEPT !.cover = i \in c]]

(* bulk_update, then the two updates that move the cover. *)
Reorder(t) ==
    LET ids == txn[t].ids
        now == rel[txn[t].obj]
        placed == [i \in Images |->
                     IF i \in Range(ids) /\ now[i] # NoRel
                     THEN [now[i] EXCEPT !.order = Place(ids, i) - 1]
                     ELSE now[i]]
    IN
    /\ Ready(t, "reorder")
    /\ Finish(t, IF Attached(txn[t].view) = {} THEN now
                 ELSE WithCover(placed, {ids[1]}))

SetCover(t) ==
    /\ Ready(t, "set_cover")
    /\ Finish(t, WithCover(rel[txn[t].obj], Range(txn[t].ids)))

UnsetCover(t) ==
    /\ Ready(t, "unset_cover")
    /\ Finish(t, WithCover(rel[txn[t].obj], {}))

(* The rows of the images go with their relations. *)
DeleteImages(t) ==
    /\ RowsLocked(t) /\ txn[t].op = "delete"
    /\ images' = images \ txn[t].held
    /\ rel' = [o \in Objects |-> [i \in Images |->
                 IF i \in txn[t].held THEN NoRel ELSE rel[o][i]]]
    /\ Go(t, Idle)
    /\ UNCHANGED <<objects, requests>>

(* delete_contact.  Nothing ties relations to the object they name, so its *)
(* relations stay.                                                         *)
DeleteObject(o) ==
    /\ o \in objects
    /\ \A t \in Txns : ~LocksTarget(t, o)
    /\ objects' = objects \ {o}
    /\ UNCHANGED <<images, rel, txn, requests>>

(* A killed worker or a lost connection. *)
Abort(t) ==
    /\ Active(t)
    /\ Go(t, Idle)
    /\ UNCHANGED <<images, objects, rel, requests>>

Next ==
    \/ \E t \in Txns :
         \/ \E o \in Objects :
              \/ StartAttach(t, o) \/ StartDetach(t, o) \/ StartReorder(t, o)
              \/ StartSetCover(t, o) \/ StartUnsetCover(t, o)
         \/ \E ids \in Lists(Own) : StartDelete(t, ids)
         \/ LockTarget(t) \/ Refuse(t)
         \/ \E i \in Images : LockRow(t, i)
         \/ ReadImages(t) \/ Attach(t) \/ Detach(t) \/ Reorder(t)
         \/ SetCover(t) \/ UnsetCover(t) \/ DeleteImages(t)
         \/ BreakDeadlock(t) \/ Abort(t)
    \/ \E o \in Objects : DeleteObject(o)

Spec == Init /\ [][Next]_vars

-----------------------------------------------------------------------------
(* Properties                                                              *)

(* Concurrent attaches and reorders never give two images of an object the *)
(* same place, which no constraint of the table forbids                    *)
(* (operations.py:87, 173-179).                                            *)
OrdersDistinct == \A o \in Objects : DistinctOrders(rel[o])

(* An attach never runs into a unique constraint, which would answer 500:  *)
(* what it has read under the lock of the object still holds when it       *)
(* inserts (operations.py:70-74, 94-100).                                  *)
ConstraintsNeverHit ==
    \A t \in Txns : txn[t].at = "commit" => ~Conflict(t)

(* What a request has read and locked stays as it is until it writes: no   *)
(* operation on the object, and no deletion of an image, comes between     *)
(* (operations.py:36-41).                                                  *)
ViewCurrent ==
    \A t \in Txns :
        /\ RowsLocked(t) \/ txn[t].at = "commit"
        /\ txn[t].op # "delete"
        => txn[t].view = rel[txn[t].obj]

(* An object that gets an image has exactly one cover from then on, and    *)
(* keeps one it had (operations.py:83, 99, 103).                           *)
CoverAfterAttach ==
    [][\A o \in Objects :
          Attached(rel[o]) # Attached(rel'[o])
            /\ Attached(rel[o]) \subseteq Attached(rel'[o])
          => /\ Cardinality(Covers(rel'[o])) = 1
             /\ Covers(rel[o]) \subseteq Covers(rel'[o])]_vars
=============================================================================
