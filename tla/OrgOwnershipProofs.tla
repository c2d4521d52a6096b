------------------------- MODULE OrgOwnershipProofs -------------------------
(***************************************************************************)
(* Safety of OrgOwnership for any number of transactions, users and        *)
(* groups.                                                                 *)
(***************************************************************************)
EXTENDS OrgOwnership, FiniteSetTheorems, WellFoundedInduction, TLAPS

(* How far a transaction of each kind can be. *)
Staged(p) ==
    /\ Kind(p) = "none" => at[p] = "idle"
    /\ Kind(p) = "role" => at[p] \in {"groups", "row", "guard", "commit"}
    /\ Kind(p) = "edit" =>
          at[p] \in {"row", "groups", "keys", "guard", "commit"}
    /\ Kind(p) = "create" => at[p] \in {"keys", "guard", "commit"}
    /\ Kind(p) = "activate" => at[p] \in {"user", "guard", "commit"}
    /\ Kind(p) = "deactivate" =>
          at[p] \in {"groups", "row", "user", "guard", "commit"}
    /\ Kind(p) = "delete" =>
          at[p] \in {"groups", "user", "check", "rows", "guard", "commit"}
    /\ Kind(p) = "form" =>
          at[p] \in {"user", "read", "groups", "row", "guard", "commit"}

(* Statements after which a transaction has locked its user.               *)
UserLocked(p) ==
    \/ Kind(p) \in {"activate", "deactivate"} /\ at[p] \in {"guard", "commit"}
    \/ Kind(p) = "delete" /\ at[p] \in {"check", "rows", "guard", "commit"}
    \/ Kind(p) = "form" /\ at[p] # "user"

(* Statements after which a "role" or "edit" has its row. *)
RowDone(p) ==
    \/ at[p] = "groups" /\ todo[p] = {}
    \/ at[p] \in {"keys", "guard", "commit"}

(* What a transaction may lock: its user, its organizations, rows of its   *)
(* user.                                                                   *)
Owned(p, x) ==
    \/ x = User(Subject(p)) /\ UserLocked(p)
    \/ \E g \in Groups :
         \/ x = Group(g) /\ Kind(p) \in {"role", "deactivate", "delete", "form"}
         \/ x = Row(g, Subject(p))

(* What a transaction holds at each statement. The last part is the order  *)
(* of the locks on organizations: what it has yet to lock comes after all  *)
(* it has.                                                                 *)
Locks(p) ==
    /\ \A x \in held[p] : Owned(p, x)
    /\ UserLocked(p) => User(Subject(p)) \in held[p]
    /\ Kind(p) \in {"role", "edit"} =>
          /\ todo[p] = IF RowDone(p) THEN {} ELSE {op[p].group}
          /\ \A g \in Groups :
               /\ Row(g, Subject(p)) \in held[p] <=> RowDone(p) /\ g = op[p].group
               /\ Group(g) \in held[p] <=>
                    /\ Kind(p) = "role" /\ g = op[p].group
                    /\ (at[p] = "row" \/ RowDone(p))
    /\ Kind(p) \in {"none", "create", "activate"} =>
          \A g \in Groups : Row(g, Subject(p)) \notin held[p]
    /\ Kind(p) = "delete" /\ at[p] \in {"groups", "user", "check"} =>
          \A g \in Groups : Row(g, Subject(p)) \notin held[p]
    /\ Kind(p) = "edit" /\ at[p] = "groups" => todo[p] = {}
    /\ Kind(p) = "form" /\ at[p] \in {"user", "read"} =>
          \A g \in Groups : Group(g) \notin held[p]
    /\ Kind(p) \in {"deactivate", "form"} =>
          \A g \in Groups : Row(g, Subject(p)) \in held[p] => Group(g) \in held[p]
    /\ Kind(p) \in {"deactivate", "form"} /\ at[p] = "row" =>
          todo[p] # {} /\ Group(Least(todo[p])) \in held[p]
    /\ Kind(p) \in {"deactivate", "delete", "form"} /\ at[p] \in {"groups", "row"}
       => \A g \in Groups, h \in todo[p] : Group(g) \in held[p] =>
              g < h \/ (at[p] = "row" /\ g = h /\ g = Least(todo[p]))

LocksFit == \A p \in Txns : Staged(p) /\ Locks(p)

(* A row is locked by one transaction, or shared for its key.              *)
Exclusive ==
    \A p, q \in Txns : p # q => held[p] \cap (held[q] \cup Shared(q)) = {}

(* What a transaction is about exists; a creation has a group of its own.  *)
Known(p) ==
    /\ Kind(p) \in {"role", "edit"} => op[p].group \in made
    /\ Kind(p) = "create" =>
          /\ op[p].group \notin made /\ op[p].role = "owner"
          /\ \A q \in Txns \ {p} : op[q].group # op[p].group
    /\ todo[p] \subseteq made
    /\ \A g \in Groups :
          Group(g) \in held[p] \/ Row(g, Subject(p)) \in held[p] => g \in made

(* What a transaction has read under its locks stays true.                 *)
Stands(p) ==
    /\ Kind(p) = "role" /\ at[p] \in {"guard", "commit"} =>
          role[op[p].group][Subject(p)] # "none"
    /\ UserLocked(p) => account[Subject(p)] # "gone"
    /\ Inserts(p) /\ at[p] \in {"guard", "commit"} => account[Subject(p)] # "gone"
    /\ Kind(p) = "delete" /\ at[p] = "commit" =>
          \A g \in Groups : role[g][Subject(p)] # "none" =>
              Row(g, Subject(p)) \in held[p]

(* The invariant that the locks give, whatever overlaps.                   *)
LockInv ==
    TypeOK /\ LocksFit /\ Exclusive /\ \A p \in Txns : Known(p) /\ Stands(p)

(* No two open transactions are of a kind that the locks do not keep       *)
(* apart.                                                                  *)
Separate ==
    \A p, q \in Txns :
        p # q /\ at[p] # "idle" /\ at[q] # "idle" => ~Clash(op[p], op[q])

(* Who retires an account has locked, or is about to lock, every           *)
(* organization the account owns: nobody makes it the owner of one more.   *)
Covered(p) ==
    Kind(p) \in {"deactivate", "delete"} =>
        \A g \in OwnedBy(Subject(p)) :
            \/ Group(g) \in held[p]
            \/ at[p] \in {"groups", "row"} /\ g \in todo[p]

Checked(p) ==
    \/ Kind(p) = "deactivate" /\ at[p] \in {"user", "guard", "commit"}
    \/ Kind(p) = "delete" /\ at[p] \in {"rows", "guard", "commit"}

(* What a transaction has checked is still true when it commits.           *)
Decided(p) ==
    /\ Kind(p) = "role" /\ at[p] \in {"guard", "commit"} /\ op[p].role # "owner" =>
         Succeeded(op[p].group, Subject(p))
    /\ Checked(p) => AllSucceeded(p)
    /\ Kind(p) = "create" => account[Subject(p)] = "active"
    /\ Kind(p) \in AdminKinds /\ at[p] = "commit" => TriggersPass(p)

(* The inductive invariant, if nothing overlaps that the locks do not      *)
(* keep apart.                                                             *)
OwnInv ==
    /\ LockInv /\ Separate /\ GroupsHaveOwner
    /\ \A p \in Txns : Covered(p) /\ Decided(p)

-----------------------------------------------------------------------------

(* Locks on organizations, rows and users are different, and are what      *)
(* they lock.                                                              *)
LEMMA ResourceShape ==
  /\ \A g, h : Group(g) = Group(h) => g = h
  /\ \A u, v : User(u) = User(v) => u = v
  /\ \A g, h, u, v : Row(g, u) = Row(h, v) => g = h /\ u = v
  /\ \A g, h, u : Group(g) # Row(h, u)
  /\ \A g, u : Group(g) # User(u)
  /\ \A g, u, v : Row(g, u) # User(v)
BY DEF Group, User, Row

(* The operations by kind.                                                 *)
LEMMA OpShape ==
  ASSUME NEW o \in Ops
  PROVE  /\ o.kind \in MembershipKinds \cup AccountKinds \cup {"none"}
         /\ o.kind \in MembershipKinds =>
               o.group \in Groups /\ o.user \in Users /\ o.role \in Roles
         /\ o.kind \in AccountKinds =>
               o.group = NoGroup /\ o.user \in Users /\ o.role = "none"
         /\ o.kind = "none" => o = NoOp
BY DEF Ops, NoOp, Membership, Account, MembershipKinds, AccountKinds

LEMMA MembershipFields ==
  ASSUME NEW k \in MembershipKinds, NEW g \in Groups, NEW u \in Users,
         NEW r \in Roles
  PROVE  LET o == Membership(k, g, u, r) IN
         o \in Ops /\ o.kind = k /\ o.group = g /\ o.user = u /\ o.role = r
BY DEF Ops, Membership

LEMMA AccountFields ==
  ASSUME NEW k \in AccountKinds, NEW u \in Users
  PROVE  LET o == Account(k, u) IN
         /\ o \in Ops /\ o.kind = k /\ o.group = NoGroup /\ o.user = u
         /\ o.role = "none"
BY DEF Ops, Account

LEMMA NoOpFields ==
  /\ NoOp \in Ops /\ NoOp.kind = "none" /\ NoOp.group = NoGroup
  /\ NoOp.user = NoUser /\ NoOp.role = "none"
BY DEF Ops, NoOp

(* A set of numbers that is not empty has a least element.                 *)
LEMMA NatLeast ==
  ASSUME NEW S \in SUBSET Nat, S # {}
  PROVE  \E n \in S : \A m \in S : n <= m
<1>1. PICK R : R = OpToRel(<, Nat)
  OBVIOUS
<1>2. IsWellFoundedOn(R, Nat)
  BY <1>1, NatLessThanWellFounded
<1>3. PICK n \in S : \A m \in S : <<m, n>> \notin R
  BY ONLY <1>2, S \subseteq Nat, S # {}, WFMin
<1>4. \A x, y \in Nat : x < y => <<x, y>> \in R
  BY ONLY <1>1, Zenon DEF OpToRel
<1>5. ASSUME NEW m \in S PROVE n <= m
  <2>1. m \in Nat /\ n \in Nat
    OBVIOUS
  <2>2. ~(m < n)
    BY <1>3, <1>4, <2>1, Zenon
  <2> QED
    BY <2>1, <2>2
<1> QED
  BY <1>5

(* Least is in its set, and at most each of its members.                   *)
LEMMA LeastOf ==
  ASSUME NEW S \in SUBSET Groups, S # {}
  PROVE  Least(S) \in S /\ \A h \in S : Least(S) <= h
<1>1. \E g \in S : \A h \in S : g <= h
  BY ConstantsAssumption, NatLeast
<1> QED
  BY <1>1 DEF Least

(* The part of TypeOK that is about transactions.                          *)
LocalTypes ==
    /\ op \in [Txns -> Ops]
    /\ at \in [Txns -> {"idle", "groups", "row", "check", "user", "read",
                        "rows", "keys", "guard", "commit"}]
    /\ todo \in [Txns -> SUBSET Groups]
    /\ held \in [Txns -> SUBSET Resources]

(* A step changes the state of one transaction.                            *)
Only(p) ==
    \A q \in Txns \ {p} :
        /\ op'[q] = op[q] /\ at'[q] = at[q]
        /\ todo'[q] = todo[q] /\ held'[q] = held[q]

(* The steps of a transaction.                                             *)
Acts(p) ==
    \/ /\ at[p] = "idle"
       /\ \E u \in Users :
            \/ \E g \in Groups :
                 \/ \E r \in Roles :
                      BeginRole(p, g, u, r) \/ BeginEdit(p, g, u, r)
                 \/ BeginCreate(p, g, u)
            \/ BeginDeactivate(p, u) \/ BeginActivate(p, u)
            \/ BeginDelete(p, u) \/ BeginForm(p, u)
    \/ LockGroup(p) \/ LockRow(p) \/ ChangeRole(p) \/ EditMembership(p)
    \/ TakeKeys(p) \/ CheckOwned(p) \/ GroupsLocked(p) \/ LockUser(p)
    \/ ReadOwned(p) \/ CheckDeletion(p) \/ DeleteRow(p) \/ RowsDeleted(p)
    \/ FireTriggers(p) \/ Commit(p) \/ Rollback(p)

(* Staged and Locks are about one transaction only.                        *)
LEMMA OthersKeep ==
  ASSUME NEW p \in Txns, NEW q \in Txns \ {p}, Only(p), Staged(q), Locks(q)
  PROVE  (Staged(q) /\ Locks(q))'
<1>1. /\ op'[q] = op[q] /\ at'[q] = at[q]
      /\ todo'[q] = todo[q] /\ held'[q] = held[q]
  BY DEF Only
<1>2. Staged(q)'
  BY <1>1 DEF Staged, Kind
<1>3. Locks(q)'
  BY <1>1 DEF Locks, Kind, Subject, UserLocked, RowDone, Owned
<1> QED
  BY <1>2, <1>3

(* What an open transaction is about, and where its next lock is.          *)
LEMMA Parties ==
  ASSUME LocalTypes, LocksFit, NEW p \in Txns, at[p] # "idle"
  PROVE  /\ Subject(p) \in Users /\ Kind(p) \in MembershipKinds \cup AccountKinds
         /\ Kind(p) \in MembershipKinds =>
               op[p].group \in Groups /\ op[p].role \in Roles
         /\ Kind(p) \in AccountKinds =>
               op[p].group = NoGroup /\ op[p].role = "none"
         /\ todo[p] # {} => Least(todo[p]) \in todo[p]
         /\ todo[p] # {} => Least(todo[p]) \in Groups
         /\ at[p] = "row" => todo[p] # {}
<1>1. op[p] \in Ops /\ todo[p] \in SUBSET Groups /\ Staged(p) /\ Locks(p)
  BY DEF LocalTypes, LocksFit
<1>2. Kind(p) # "none"
  BY <1>1 DEF Staged, NoOp
<1>3. /\ Subject(p) \in Users /\ Kind(p) \in MembershipKinds \cup AccountKinds
      /\ Kind(p) \in MembershipKinds =>
            op[p].group \in Groups /\ op[p].role \in Roles
      /\ Kind(p) \in AccountKinds => op[p].group = NoGroup /\ op[p].role = "none"
  <2>1. LET o == op[p] IN
         /\ o.kind \in MembershipKinds \cup AccountKinds \cup {"none"}
         /\ o.kind \in MembershipKinds =>
               o.group \in Groups /\ o.user \in Users /\ o.role \in Roles
         /\ o.kind \in AccountKinds =>
               o.group = NoGroup /\ o.user \in Users /\ o.role = "none"
    BY <1>1, OpShape
  <2> QED
    BY <2>1, <1>2 DEF Kind, Subject
<1>4. todo[p] # {} => Least(todo[p]) \in todo[p]
  BY <1>1, LeastOf
<1>5. at[p] = "row" => todo[p] # {}
  BY <1>1, <1>3 DEF Locks, Staged, RowDone, MembershipKinds, AccountKinds
<1> QED
  BY <1>1, <1>3, <1>4, <1>5

(* A step keeps the types of what transactions have, and changes one of    *)
(* them.                                                                   *)
LEMMA TypesStep ==
  ASSUME LocalTypes, LocksFit, NEW p \in Txns, Acts(p)
  PROVE  LocalTypes' /\ Only(p)
<1> USE ConstantsAssumption, MembershipFields, AccountFields, NoOpFields
    DEF LocalTypes, Only, Go, Take, End, Resources, MembershipKinds,
       AccountKinds, Roles
<1>1. ASSUME NEW g \in Groups, NEW u \in Users, NEW r \in Roles,
            BeginRole(p, g, u, r)
      PROVE  LocalTypes' /\ Only(p)
  BY <1>1 DEF BeginRole, Begin
<1>2. ASSUME NEW g \in Groups, NEW u \in Users, NEW r \in Roles,
            BeginEdit(p, g, u, r)
      PROVE  LocalTypes' /\ Only(p)
  BY <1>2 DEF BeginEdit, Begin
<1>3. ASSUME NEW g \in Groups, NEW u \in Users,
            BeginCreate(p, g, u)
      PROVE  LocalTypes' /\ Only(p)
  BY <1>3 DEF BeginCreate, Begin
<1>4. ASSUME NEW u \in Users,
            BeginDeactivate(p, u)
      PROVE  LocalTypes' /\ Only(p)
  BY <1>4 DEF BeginDeactivate, Begin, OwnedBy
<1>5. ASSUME NEW u \in Users,
            BeginActivate(p, u)
      PROVE  LocalTypes' /\ Only(p)
  BY <1>5 DEF BeginActivate, Begin
<1>6. ASSUME NEW u \in Users,
            BeginDelete(p, u)
      PROVE  LocalTypes' /\ Only(p)
  BY <1>6 DEF BeginDelete, Begin, OwnedBy
<1>7. ASSUME NEW u \in Users,
            BeginForm(p, u)
      PROVE  LocalTypes' /\ Only(p)
  BY <1>7 DEF BeginForm, Begin
<1>8. CASE LockGroup(p)
  <2>0. at[p] # "idle" /\ todo[p] # {}
    BY <1>8, Parties DEF LockGroup
  <2>1. Least(todo[p]) \in Groups /\ Subject(p) \in Users
    BY <2>0, Parties
  <2> QED
    BY <1>8, <2>1 DEF LockGroup
<1>9. CASE LockRow(p)
  <2>0. at[p] # "idle" /\ todo[p] # {}
    BY <1>9, Parties DEF LockRow
  <2>1. Least(todo[p]) \in Groups /\ Subject(p) \in Users
    BY <2>0, Parties
  <2> QED
    BY <1>9, <2>1 DEF LockRow
<1>10. CASE ChangeRole(p)
  BY <1>10 DEF ChangeRole
<1>11. CASE EditMembership(p)
  BY <1>11 DEF EditMembership
<1>12. CASE TakeKeys(p)
  BY <1>12 DEF TakeKeys
<1>13. CASE CheckOwned(p)
  BY <1>13 DEF CheckOwned
<1>14. CASE GroupsLocked(p)
  BY <1>14 DEF GroupsLocked
<1>15. CASE LockUser(p)
  <2>0. at[p] # "idle"
    BY <1>15, Parties DEF LockUser
  <2>1. Subject(p) \in Users
    BY <2>0, Parties
  <2> QED
    BY <1>15, <2>1 DEF LockUser
<1>16. CASE ReadOwned(p)
  BY <1>16 DEF ReadOwned, OwnedBy
<1>17. CASE CheckDeletion(p)
  <2>1. {g \in Groups : role[g][Subject(p)] # "none"} \in SUBSET Groups
    OBVIOUS
  <2>2. /\ op' = op /\ held' = held /\ at' = [at EXCEPT ![p] = "rows"]
        /\ todo' = [todo EXCEPT ![p] =
                         {g \in Groups : role[g][Subject(p)] # "none"}]
    BY <1>17 DEF CheckDeletion
  <2> QED
    BY ONLY LocalTypes, <2>1, <2>2 DEF LocalTypes, Only
<1>18. CASE DeleteRow(p)
  <2>0. at[p] # "idle" /\ todo[p] # {}
    BY <1>18, Parties DEF DeleteRow
  <2>1. Least(todo[p]) \in Groups /\ Subject(p) \in Users
    BY <2>0, Parties
  <2> QED
    BY <1>18, <2>1 DEF DeleteRow
<1>19. CASE RowsDeleted(p)
  BY <1>19 DEF RowsDeleted
<1>20. CASE FireTriggers(p)
  BY <1>20 DEF FireTriggers
<1>21. CASE Commit(p)
  BY <1>21 DEF Commit
<1>22. CASE Rollback(p)
  BY <1>22 DEF Rollback
<1> QED
  BY ONLY <1>1, <1>2, <1>3, <1>4, <1>5, <1>6, <1>7, <1>8, <1>9, <1>10,
     <1>11, <1>12, <1>13, <1>14, <1>15, <1>16, <1>17, <1>18, <1>19, <1>20,
     <1>21, <1>22, Acts(p)
    DEF Acts

LEMMA IdleHoldsNothing ==
  ASSUME LocalTypes, LocksFit, NEW p \in Txns, at[p] = "idle"
  PROVE  held[p] = {} /\ Kind(p) = "none"
<1>1. op[p] \in Ops /\ Staged(p) /\ Locks(p)
  BY DEF LocalTypes, LocksFit
<1>2. Kind(p) \in MembershipKinds \cup AccountKinds \cup {"none"}
  BY <1>1, OpShape DEF Kind
<1>3. Kind(p) = "none"
  BY <1>1, <1>2 DEF Staged, MembershipKinds, AccountKinds
<1>4. \A x \in held[p] : FALSE
  BY <1>1, <1>3 DEF Locks, Owned, UserLocked
<1> QED
  BY <1>3, <1>4

(* The step of a transaction keeps what it holds in line with how far it   *)
(* is.                                                                     *)
LEMMA OwnLocks ==
  ASSUME LocalTypes, LocksFit, NEW p \in Txns, Acts(p)
  PROVE  (Staged(p) /\ Locks(p))'
<1>0. LocalTypes /\ LocalTypes'
  BY TypesStep
<1> USE ConstantsAssumption, MembershipFields, AccountFields, NoOpFields,
        ResourceShape
    DEF Go, Take, End, MembershipKinds, AccountKinds, Roles
<1>1. ASSUME NEW g \in Groups, NEW u \in Users, NEW r \in Roles,
            BeginRole(p, g, u, r)
      PROVE  (Staged(p) /\ Locks(p))'
  <2>0. Staged(p) /\ Locks(p) /\ LocalTypes /\ LocalTypes'
    BY <1>0 DEF LocksFit
  <2>2. Staged(p)'
    <3>1. op'[p].kind = "role" /\ at'[p] = "groups"
      BY <1>1, <1>0 DEF BeginRole, Begin, LocalTypes
    <3> QED
      BY ONLY <3>1 DEF Staged, Kind
  <2>4. held'[p] = {}
    BY <1>1, <1>0, IdleHoldsNothing DEF BeginRole, Begin
  <2>3. Locks(p)'
    BY <1>1, <2>0, <2>4
      DEF BeginRole, Begin, OwnedBy, Staged, Locks, Kind, Subject,
          LocalTypes, UserLocked, RowDone, Owned
  <2> QED
    BY <2>2, <2>3
<1>2. ASSUME NEW g \in Groups, NEW u \in Users, NEW r \in Roles,
            BeginEdit(p, g, u, r)
      PROVE  (Staged(p) /\ Locks(p))'
  <2>0. Staged(p) /\ Locks(p) /\ LocalTypes /\ LocalTypes'
    BY <1>0 DEF LocksFit
  <2>2. Staged(p)'
    <3>1. op'[p].kind = "edit" /\ at'[p] = "row"
      BY <1>2, <1>0 DEF BeginEdit, Begin, LocalTypes
    <3> QED
      BY ONLY <3>1 DEF Staged, Kind
  <2>4. held'[p] = {}
    BY <1>2, <1>0, IdleHoldsNothing DEF BeginEdit, Begin
  <2>3. Locks(p)'
    BY <1>2, <2>0, <2>4
      DEF BeginEdit, Begin, OwnedBy, Staged, Locks, Kind, Subject,
          LocalTypes, UserLocked, RowDone, Owned
  <2> QED
    BY <2>2, <2>3
<1>3. ASSUME NEW g \in Groups, NEW u \in Users,
            BeginCreate(p, g, u)
      PROVE  (Staged(p) /\ Locks(p))'
  <2>0. Staged(p) /\ Locks(p) /\ LocalTypes /\ LocalTypes'
    BY <1>0 DEF LocksFit
  <2>2. Staged(p)'
    <3>1. op'[p].kind = "create" /\ at'[p] = "keys"
      BY <1>3, <1>0 DEF BeginCreate, Begin, LocalTypes
    <3> QED
      BY ONLY <3>1 DEF Staged, Kind
  <2>4. held'[p] = {}
    BY <1>3, <1>0, IdleHoldsNothing DEF BeginCreate, Begin
  <2>3. Locks(p)'
    BY <1>3, <2>0, <2>4
      DEF BeginCreate, Begin, OwnedBy, Staged, Locks, Kind, Subject,
          LocalTypes, UserLocked, RowDone, Owned
  <2> QED
    BY <2>2, <2>3
<1>4. ASSUME NEW u \in Users,
            BeginDeactivate(p, u)
      PROVE  (Staged(p) /\ Locks(p))'
  <2>0. Staged(p) /\ Locks(p) /\ LocalTypes /\ LocalTypes'
    BY <1>0 DEF LocksFit
  <2>2. Staged(p)'
    <3>1. op'[p].kind = "deactivate" /\ at'[p] = "groups"
      BY <1>4, <1>0 DEF BeginDeactivate, Begin, LocalTypes
    <3> QED
      BY ONLY <3>1 DEF Staged, Kind
  <2>4. held'[p] = {}
    BY <1>4, <1>0, IdleHoldsNothing DEF BeginDeactivate, Begin
  <2>3. Locks(p)'
    BY <1>4, <2>0, <2>4
      DEF BeginDeactivate, Begin, OwnedBy, Staged, Locks, Kind, Subject,
          LocalTypes, UserLocked, RowDone, Owned
  <2> QED
    BY <2>2, <2>3
<1>5. ASSUME NEW u \in Users,
            BeginActivate(p, u)
      PROVE  (Staged(p) /\ Locks(p))'
  <2>0. Staged(p) /\ Locks(p) /\ LocalTypes /\ LocalTypes'
    BY <1>0 DEF LocksFit
  <2>2. Staged(p)'
    <3>1. op'[p].kind = "activate" /\ at'[p] = "user"
      BY <1>5, <1>0 DEF BeginActivate, Begin, LocalTypes
    <3> QED
      BY ONLY <3>1 DEF Staged, Kind
  <2>4. held'[p] = {}
    BY <1>5, <1>0, IdleHoldsNothing DEF BeginActivate, Begin
  <2>3. Locks(p)'
    BY <1>5, <2>0, <2>4
      DEF BeginActivate, Begin, OwnedBy, Staged, Locks, Kind, Subject,
          LocalTypes, UserLocked, RowDone, Owned
  <2> QED
    BY <2>2, <2>3
<1>6. ASSUME NEW u \in Users,
            BeginDelete(p, u)
      PROVE  (Staged(p) /\ Locks(p))'
  <2>0. Staged(p) /\ Locks(p) /\ LocalTypes /\ LocalTypes'
    BY <1>0 DEF LocksFit
  <2>2. Staged(p)'
    <3>1. op'[p].kind = "delete" /\ at'[p] = "groups"
      BY <1>6, <1>0 DEF BeginDelete, Begin, LocalTypes
    <3> QED
      BY ONLY <3>1 DEF Staged, Kind
  <2>4. held'[p] = {}
    BY <1>6, <1>0, IdleHoldsNothing DEF BeginDelete, Begin
  <2>3. Locks(p)'
    BY <1>6, <2>0, <2>4
      DEF BeginDelete, Begin, OwnedBy, Staged, Locks, Kind, Subject,
          LocalTypes, UserLocked, RowDone, Owned
  <2> QED
    BY <2>2, <2>3
<1>7. ASSUME NEW u \in Users,
            BeginForm(p, u)
      PROVE  (Staged(p) /\ Locks(p))'
  <2>0. Staged(p) /\ Locks(p) /\ LocalTypes /\ LocalTypes'
    BY <1>0 DEF LocksFit
  <2>2. Staged(p)'
    <3>1. op'[p].kind = "form" /\ at'[p] = "user"
      BY <1>7, <1>0 DEF BeginForm, Begin, LocalTypes
    <3> QED
      BY ONLY <3>1 DEF Staged, Kind
  <2>4. held'[p] = {}
    BY <1>7, <1>0, IdleHoldsNothing DEF BeginForm, Begin
  <2>3. Locks(p)'
    BY <1>7, <2>0, <2>4
      DEF BeginForm, Begin, OwnedBy, Staged, Locks, Kind, Subject,
          LocalTypes, UserLocked, RowDone, Owned
  <2> QED
    BY <2>2, <2>3
<1>8. CASE LockGroup(p)
  <2>0. Staged(p) /\ Locks(p) /\ LocalTypes /\ LocalTypes'
    BY <1>0 DEF LocksFit
  <2>2. Staged(p)'
    BY <1>8, <2>0, Parties DEF LockGroup, Staged, Kind, LocalTypes
  <2>6. at[p] # "idle" /\ todo[p] \in SUBSET Groups /\ todo[p] # {}
    BY <1>8, <2>0, Parties DEF LockGroup, LocalTypes
  <2>4. PICK l \in todo[p] : l = Least(todo[p]) /\ \A h \in todo[p] : l <= h
    BY <2>6, LeastOf
  <2>5. Subject(p) \in Users /\ todo[p] \subseteq Nat /\ l \in Groups
    BY <1>0, <2>4, <2>6, Parties
  <2>3. Locks(p)'
    <3>1. CASE Kind(p) = "role"
      BY ONLY <1>8, <2>0, <2>4, <2>5, <3>1, ResourceShape,
         ConstantsAssumption
        DEF LockGroup, Go, Take, Staged, Locks, Kind, Subject, LocalTypes,
            UserLocked, RowDone, Owned
    <3>2. CASE Kind(p) = "edit"
      BY ONLY <1>8, <2>0, <2>4, <2>5, <3>2, ResourceShape,
         ConstantsAssumption
        DEF LockGroup, Go, Take, Staged, Locks, Kind, Subject, LocalTypes,
            UserLocked, RowDone, Owned
    <3>3. CASE Kind(p) = "deactivate"
      BY ONLY <1>8, <2>0, <2>4, <2>5, <3>3, ResourceShape,
         ConstantsAssumption
        DEF LockGroup, Go, Take, Staged, Locks, Kind, Subject, LocalTypes,
            UserLocked, RowDone, Owned
    <3>4. CASE Kind(p) = "delete"
      BY ONLY <1>8, <2>0, <2>4, <2>5, <3>4, ResourceShape,
         ConstantsAssumption
        DEF LockGroup, Go, Take, Staged, Locks, Kind, Subject, LocalTypes,
            UserLocked, RowDone, Owned
    <3>5. CASE Kind(p) = "form"
      BY ONLY <1>8, <2>0, <2>4, <2>5, <3>5, ResourceShape,
         ConstantsAssumption
        DEF LockGroup, Go, Take, Staged, Locks, Kind, Subject, LocalTypes,
            UserLocked, RowDone, Owned
    <3> QED
      BY <1>8, <2>0, <3>1, <3>2, <3>3, <3>4, <3>5, Parties
        DEF LockGroup, Staged
  <2> QED
    BY <2>2, <2>3
<1>9. CASE LockRow(p)
  <2>0. Staged(p) /\ Locks(p) /\ LocalTypes /\ LocalTypes'
    BY <1>0 DEF LocksFit
  <2>2. Staged(p)'
    BY <1>9, <2>0, Parties DEF LockRow, Staged, Kind, LocalTypes
  <2>6. at[p] # "idle" /\ todo[p] \in SUBSET Groups /\ todo[p] # {}
    BY <1>9, <2>0, Parties DEF LockRow, LocalTypes
  <2>4. PICK l \in todo[p] : l = Least(todo[p]) /\ \A h \in todo[p] : l <= h
    BY <2>6, LeastOf
  <2>5. Subject(p) \in Users /\ todo[p] \subseteq Nat /\ l \in Groups
    BY <1>0, <2>4, <2>6, Parties
  <2>3. Locks(p)'
    <3>1. CASE Kind(p) = "role"
      BY ONLY <1>9, <2>0, <2>4, <2>5, <3>1, ResourceShape,
         ConstantsAssumption
        DEF LockRow, Go, Take, Staged, Locks, Kind, Subject, LocalTypes,
            UserLocked, RowDone, Owned
    <3>2. CASE Kind(p) = "edit"
      BY ONLY <1>9, <2>0, <2>4, <2>5, <3>2, ResourceShape,
         ConstantsAssumption
        DEF LockRow, Go, Take, Staged, Locks, Kind, Subject, LocalTypes,
            UserLocked, RowDone, Owned
    <3>3. CASE Kind(p) = "deactivate"
      BY ONLY <1>9, <2>0, <2>4, <2>5, <3>3, ResourceShape,
         ConstantsAssumption
        DEF LockRow, Go, Take, Staged, Locks, Kind, Subject, LocalTypes,
            UserLocked, RowDone, Owned
    <3>4. CASE Kind(p) = "form"
      BY ONLY <1>9, <2>0, <2>4, <2>5, <3>4, ResourceShape,
         ConstantsAssumption
        DEF LockRow, Go, Take, Staged, Locks, Kind, Subject, LocalTypes,
            UserLocked, RowDone, Owned
    <3> QED
      BY <1>9, <2>0, <3>1, <3>2, <3>3, <3>4, Parties DEF LockRow, Staged
  <2> QED
    BY <2>2, <2>3
<1>10. CASE ChangeRole(p)
  <2>0. Staged(p) /\ Locks(p) /\ LocalTypes /\ LocalTypes'
    BY <1>0 DEF LocksFit
  <2>2. Staged(p)'
    BY <1>10, <2>0, Parties DEF ChangeRole, Staged, Kind, LocalTypes
  <2>3. Locks(p)'
    BY <1>10, <2>0, Parties
      DEF ChangeRole, Staged, Locks, Kind, Subject, LocalTypes, UserLocked,
          RowDone, Owned
  <2> QED
    BY <2>2, <2>3
<1>11. CASE EditMembership(p)
  <2>0. Staged(p) /\ Locks(p) /\ LocalTypes /\ LocalTypes'
    BY <1>0 DEF LocksFit
  <2>2. Staged(p)'
    BY <1>11, <2>0, Parties DEF EditMembership, Staged, Kind, LocalTypes
  <2>3. Locks(p)'
    BY <1>11, <2>0, Parties
      DEF EditMembership, Staged, Locks, Kind, Subject, LocalTypes,
          UserLocked, RowDone, Owned
  <2> QED
    BY <2>2, <2>3
<1>12. CASE TakeKeys(p)
  <2>0. Staged(p) /\ Locks(p) /\ LocalTypes /\ LocalTypes'
    BY <1>0 DEF LocksFit
  <2>2. Staged(p)'
    BY <1>12, <2>0, Parties DEF TakeKeys, Staged, Kind, LocalTypes
  <2>3. Locks(p)'
    BY <1>12, <2>0, Parties
      DEF TakeKeys, Staged, Locks, Kind, Subject, LocalTypes, UserLocked,
          RowDone, Owned
  <2> QED
    BY <2>2, <2>3
<1>13. CASE CheckOwned(p)
  <2>0. Staged(p) /\ Locks(p) /\ LocalTypes /\ LocalTypes'
    BY <1>0 DEF LocksFit
  <2>2. Staged(p)'
    BY <1>13, <2>0, Parties DEF CheckOwned, Staged, Kind, LocalTypes
  <2>3. Locks(p)'
    BY <1>13, <2>0, Parties
      DEF CheckOwned, Staged, Locks, Kind, Subject, LocalTypes, UserLocked,
          RowDone, Owned
  <2> QED
    BY <2>2, <2>3
<1>14. CASE GroupsLocked(p)
  <2>0. Staged(p) /\ Locks(p) /\ LocalTypes /\ LocalTypes'
    BY <1>0 DEF LocksFit
  <2>2. Staged(p)'
    BY <1>14, <2>0, Parties DEF GroupsLocked, Staged, Kind, LocalTypes
  <2>3. Locks(p)'
    BY <1>14, <2>0, Parties
      DEF GroupsLocked, Staged, Locks, Kind, Subject, LocalTypes,
          UserLocked, RowDone, Owned
  <2> QED
    BY <2>2, <2>3
<1>15. CASE LockUser(p)
  <2>0. Staged(p) /\ Locks(p) /\ LocalTypes /\ LocalTypes'
    BY <1>0 DEF LocksFit
  <2>2. Staged(p)'
    BY <1>15, <2>0, Parties DEF LockUser, Staged, Kind, LocalTypes
  <2>3. Locks(p)'
    BY <1>15, <2>0, Parties
      DEF LockUser, Staged, Locks, Kind, Subject, LocalTypes, UserLocked,
          RowDone, Owned
  <2> QED
    BY <2>2, <2>3
<1>16. CASE ReadOwned(p)
  <2>0. Staged(p) /\ Locks(p) /\ LocalTypes /\ LocalTypes'
    BY <1>0 DEF LocksFit
  <2>2. Staged(p)'
    BY <1>16, <2>0, Parties DEF ReadOwned, Staged, Kind, LocalTypes
  <2>3. Locks(p)'
    BY <1>16, <2>0, Parties
      DEF ReadOwned, Staged, Locks, Kind, Subject, LocalTypes, UserLocked,
          RowDone, Owned, OwnedBy
  <2> QED
    BY <2>2, <2>3
<1>17. CASE CheckDeletion(p)
  <2>0. Staged(p) /\ Locks(p) /\ LocalTypes /\ LocalTypes'
    BY <1>0 DEF LocksFit
  <2>2. Staged(p)'
    BY <1>17, <2>0, Parties DEF CheckDeletion, Staged, Kind, LocalTypes
  <2>3. Locks(p)'
    BY <1>17, <2>0, Parties
      DEF CheckDeletion, Staged, Locks, Kind, Subject, LocalTypes,
          UserLocked, RowDone, Owned
  <2> QED
    BY <2>2, <2>3
<1>18. CASE DeleteRow(p)
  <2>0. Staged(p) /\ Locks(p) /\ LocalTypes /\ LocalTypes'
    BY <1>0 DEF LocksFit
  <2>2. Staged(p)'
    BY <1>18, <2>0, Parties DEF DeleteRow, Staged, Kind, LocalTypes
  <2>6. at[p] # "idle" /\ todo[p] \in SUBSET Groups /\ todo[p] # {}
    BY <1>18, <2>0, Parties DEF DeleteRow, LocalTypes
  <2>4. PICK l \in todo[p] : l = Least(todo[p]) /\ \A h \in todo[p] : l <= h
    BY <2>6, LeastOf
  <2>5. Subject(p) \in Users /\ todo[p] \subseteq Nat /\ l \in Groups
    BY <1>0, <2>4, <2>6, Parties
  <2>3. Locks(p)'
    <3>1. CASE Kind(p) = "delete"
      BY ONLY <1>18, <2>0, <2>4, <2>5, <3>1, ResourceShape,
         ConstantsAssumption
        DEF DeleteRow, Go, Take, Staged, Locks, Kind, Subject, LocalTypes,
            UserLocked, RowDone, Owned
    <3> QED
      BY <1>18, <2>0, <3>1, Parties DEF DeleteRow, Staged
  <2> QED
    BY <2>2, <2>3
<1>19. CASE RowsDeleted(p)
  <2>0. Staged(p) /\ Locks(p) /\ LocalTypes /\ LocalTypes'
    BY <1>0 DEF LocksFit
  <2>2. Staged(p)'
    BY <1>19, <2>0, Parties DEF RowsDeleted, Staged, Kind, LocalTypes
  <2>3. Locks(p)'
    BY <1>19, <2>0, Parties
      DEF RowsDeleted, Staged, Locks, Kind, Subject, LocalTypes, UserLocked,
          RowDone, Owned
  <2> QED
    BY <2>2, <2>3
<1>20. CASE FireTriggers(p)
  <2>0. Staged(p) /\ Locks(p) /\ LocalTypes /\ LocalTypes'
    BY <1>0 DEF LocksFit
  <2>2. Staged(p)'
    BY <1>20, <2>0, Parties DEF FireTriggers, Staged, Kind, LocalTypes
  <2>3. Locks(p)'
    BY <1>20, <2>0, Parties
      DEF FireTriggers, Staged, Locks, Kind, Subject, LocalTypes,
          UserLocked, RowDone, Owned
  <2> QED
    BY <2>2, <2>3
<1>21. CASE Commit(p)
  <2>0. Staged(p) /\ Locks(p) /\ LocalTypes /\ LocalTypes'
    BY <1>0 DEF LocksFit
  <2>2. Staged(p)'
    BY <1>21, <2>0, Parties DEF Commit, Staged, Kind, LocalTypes
  <2>3. Locks(p)'
    BY <1>21, <2>0, Parties
      DEF Commit, Staged, Locks, Kind, Subject, LocalTypes, UserLocked,
          RowDone, Owned
  <2> QED
    BY <2>2, <2>3
<1>22. CASE Rollback(p)
  <2>0. Staged(p) /\ Locks(p) /\ LocalTypes /\ LocalTypes'
    BY <1>0 DEF LocksFit
  <2>2. Staged(p)'
    BY <1>22, <2>0, Parties DEF Rollback, Staged, Kind, LocalTypes
  <2>3. Locks(p)'
    BY <1>22, <2>0, Parties
      DEF Rollback, Staged, Locks, Kind, Subject, LocalTypes, UserLocked,
          RowDone, Owned
  <2> QED
    BY <2>2, <2>3
<1> QED
  BY ONLY <1>1, <1>2, <1>3, <1>4, <1>5, <1>6, <1>7, <1>8, <1>9, <1>10,
     <1>11, <1>12, <1>13, <1>14, <1>15, <1>16, <1>17, <1>18, <1>19, <1>20,
     <1>21, <1>22, Acts(p)
    DEF Acts

LEMMA LocksStep ==
  ASSUME LocalTypes, LocksFit, NEW p \in Txns, Acts(p)
  PROVE  LocksFit'
BY OwnLocks, TypesStep, OthersKeep DEF LocksFit

(* A step takes only locks that are free, and writes rows only at COMMIT.  *)
LEMMA Effect ==
  ASSUME LocalTypes, LocksFit, NEW p \in Txns, Acts(p)
  PROVE  /\ \A x \in held'[p] : x \in held[p] \/ Free(p, x)
         /\ \A x \in Shared(p)' :
              x \in Shared(p) \/ \A q \in Txns \ {p} : x \notin held[q]
         /\ UNCHANGED rows \/ Commit(p)
<1>0. LocalTypes /\ LocalTypes'
  BY TypesStep
<1> DEFINE Fair ==
           /\ \A x \in held'[p] : x \in held[p] \/ Free(p, x)
           /\ \A x \in Shared(p)' :
                x \in Shared(p) \/ \A q \in Txns \ {p} : x \notin held[q]
           /\ UNCHANGED rows \/ Commit(p)
<1>1. ASSUME NEW g \in Groups, NEW u \in Users, NEW r \in Roles,
            BeginRole(p, g, u, r)
      PROVE  Fair
  <2>0. Staged(p) /\ LocalTypes /\ LocalTypes'
    BY <1>0 DEF LocksFit
  <2>2. \A x \in held'[p] : x \in held[p] \/ Free(p, x)
    BY <1>1, <2>0 DEF BeginRole, Begin, LocalTypes, Take, End
  <2>3. UNCHANGED rows \/ Commit(p)
    BY <1>1 DEF BeginRole, Begin, rows
  <2>4. \A x \in Shared(p)' :
          x \in Shared(p) \/ \A q \in Txns \ {p} : x \notin held[q]
    BY <1>1, <2>0, MembershipFields, AccountFields, NoOpFields
      DEF BeginRole, Begin, LocalTypes, Staged, Kind, Subject, Shared, Keys,
          Inserts, Go, Take, End, rows, MembershipKinds, AccountKinds, Roles
  <2> QED
    BY <2>2, <2>3, <2>4
<1>2. ASSUME NEW g \in Groups, NEW u \in Users, NEW r \in Roles,
            BeginEdit(p, g, u, r)
      PROVE  Fair
  <2>0. Staged(p) /\ LocalTypes /\ LocalTypes'
    BY <1>0 DEF LocksFit
  <2>2. \A x \in held'[p] : x \in held[p] \/ Free(p, x)
    BY <1>2, <2>0 DEF BeginEdit, Begin, LocalTypes, Take, End
  <2>3. UNCHANGED rows \/ Commit(p)
    BY <1>2 DEF BeginEdit, Begin, rows
  <2>4. \A x \in Shared(p)' :
          x \in Shared(p) \/ \A q \in Txns \ {p} : x \notin held[q]
    BY <1>2, <2>0, MembershipFields, AccountFields, NoOpFields
      DEF BeginEdit, Begin, LocalTypes, Staged, Kind, Subject, Shared, Keys,
          Inserts, Go, Take, End, rows, MembershipKinds, AccountKinds, Roles
  <2> QED
    BY <2>2, <2>3, <2>4
<1>3. ASSUME NEW g \in Groups, NEW u \in Users,
            BeginCreate(p, g, u)
      PROVE  Fair
  <2>0. Staged(p) /\ LocalTypes /\ LocalTypes'
    BY <1>0 DEF LocksFit
  <2>2. \A x \in held'[p] : x \in held[p] \/ Free(p, x)
    BY <1>3, <2>0 DEF BeginCreate, Begin, LocalTypes, Take, End
  <2>3. UNCHANGED rows \/ Commit(p)
    BY <1>3 DEF BeginCreate, Begin, rows
  <2>4. \A x \in Shared(p)' :
          x \in Shared(p) \/ \A q \in Txns \ {p} : x \notin held[q]
    BY <1>3, <2>0, MembershipFields, AccountFields, NoOpFields
      DEF BeginCreate, Begin, LocalTypes, Staged, Kind, Subject, Shared,
          Keys, Inserts, Go, Take, End, rows, MembershipKinds, AccountKinds,
          Roles
  <2> QED
    BY <2>2, <2>3, <2>4
<1>4. ASSUME NEW u \in Users,
            BeginDeactivate(p, u)
      PROVE  Fair
  <2>0. Staged(p) /\ LocalTypes /\ LocalTypes'
    BY <1>0 DEF LocksFit
  <2>2. \A x \in held'[p] : x \in held[p] \/ Free(p, x)
    BY <1>4, <2>0 DEF BeginDeactivate, Begin, LocalTypes, Take, End
  <2>3. UNCHANGED rows \/ Commit(p)
    BY <1>4 DEF BeginDeactivate, Begin, rows
  <2>4. \A x \in Shared(p)' :
          x \in Shared(p) \/ \A q \in Txns \ {p} : x \notin held[q]
    BY <1>4, <2>0, MembershipFields, AccountFields, NoOpFields
      DEF BeginDeactivate, Begin, LocalTypes, Staged, Kind, Subject, Shared,
          Keys, Inserts, Go, Take, End, rows, MembershipKinds, AccountKinds,
          Roles
  <2> QED
    BY <2>2, <2>3, <2>4
<1>5. ASSUME NEW u \in Users,
            BeginActivate(p, u)
      PROVE  Fair
  <2>0. Staged(p) /\ LocalTypes /\ LocalTypes'
    BY <1>0 DEF LocksFit
  <2>2. \A x \in held'[p] : x \in held[p] \/ Free(p, x)
    BY <1>5, <2>0 DEF BeginActivate, Begin, LocalTypes, Take, End
  <2>3. UNCHANGED rows \/ Commit(p)
    BY <1>5 DEF BeginActivate, Begin, rows
  <2>4. \A x \in Shared(p)' :
          x \in Shared(p) \/ \A q \in Txns \ {p} : x \notin held[q]
    BY <1>5, <2>0, MembershipFields, AccountFields, NoOpFields
      DEF BeginActivate, Begin, LocalTypes, Staged, Kind, Subject, Shared,
          Keys, Inserts, Go, Take, End, rows, MembershipKinds, AccountKinds,
          Roles
  <2> QED
    BY <2>2, <2>3, <2>4
<1>6. ASSUME NEW u \in Users,
            BeginDelete(p, u)
      PROVE  Fair
  <2>0. Staged(p) /\ LocalTypes /\ LocalTypes'
    BY <1>0 DEF LocksFit
  <2>2. \A x \in held'[p] : x \in held[p] \/ Free(p, x)
    BY <1>6, <2>0 DEF BeginDelete, Begin, LocalTypes, Take, End
  <2>3. UNCHANGED rows \/ Commit(p)
    BY <1>6 DEF BeginDelete, Begin, rows
  <2>4. \A x \in Shared(p)' :
          x \in Shared(p) \/ \A q \in Txns \ {p} : x \notin held[q]
    BY <1>6, <2>0, MembershipFields, AccountFields, NoOpFields
      DEF BeginDelete, Begin, LocalTypes, Staged, Kind, Subject, Shared,
          Keys, Inserts, Go, Take, End, rows, MembershipKinds, AccountKinds,
          Roles
  <2> QED
    BY <2>2, <2>3, <2>4
<1>7. ASSUME NEW u \in Users,
            BeginForm(p, u)
      PROVE  Fair
  <2>0. Staged(p) /\ LocalTypes /\ LocalTypes'
    BY <1>0 DEF LocksFit
  <2>2. \A x \in held'[p] : x \in held[p] \/ Free(p, x)
    BY <1>7, <2>0 DEF BeginForm, Begin, LocalTypes, Take, End
  <2>3. UNCHANGED rows \/ Commit(p)
    BY <1>7 DEF BeginForm, Begin, rows
  <2>4. \A x \in Shared(p)' :
          x \in Shared(p) \/ \A q \in Txns \ {p} : x \notin held[q]
    BY <1>7, <2>0, MembershipFields, AccountFields, NoOpFields
      DEF BeginForm, Begin, LocalTypes, Staged, Kind, Subject, Shared, Keys,
          Inserts, Go, Take, End, rows, MembershipKinds, AccountKinds, Roles
  <2> QED
    BY <2>2, <2>3, <2>4
<1>8. CASE LockGroup(p)
  <2>0. Staged(p) /\ LocalTypes /\ LocalTypes'
    BY <1>0 DEF LocksFit
  <2>2. \A x \in held'[p] : x \in held[p] \/ Free(p, x)
    BY <1>8, <2>0 DEF LockGroup, LocalTypes, Take, End
  <2>3. UNCHANGED rows \/ Commit(p)
    BY <1>8 DEF LockGroup, rows
  <2>4. \A x \in Shared(p)' :
          x \in Shared(p) \/ \A q \in Txns \ {p} : x \notin held[q]
    BY <1>8, <2>0, MembershipFields, AccountFields, NoOpFields
      DEF LockGroup, LocalTypes, Staged, Kind, Subject, Shared, Keys,
          Inserts, Go, Take, End, rows, MembershipKinds, AccountKinds, Roles
  <2> QED
    BY <2>2, <2>3, <2>4
<1>9. CASE LockRow(p)
  <2>0. Staged(p) /\ LocalTypes /\ LocalTypes'
    BY <1>0 DEF LocksFit
  <2>2. \A x \in held'[p] : x \in held[p] \/ Free(p, x)
    BY <1>9, <2>0 DEF LockRow, LocalTypes, Take, End
  <2>3. UNCHANGED rows \/ Commit(p)
    BY <1>9 DEF LockRow, rows
  <2>4. \A x \in Shared(p)' :
          x \in Shared(p) \/ \A q \in Txns \ {p} : x \notin held[q]
    BY <1>9, <2>0, MembershipFields, AccountFields, NoOpFields
      DEF LockRow, LocalTypes, Staged, Kind, Subject, Shared, Keys, Inserts,
          Go, Take, End, rows, MembershipKinds, AccountKinds, Roles
  <2> QED
    BY <2>2, <2>3, <2>4
<1>10. CASE ChangeRole(p)
  <2>0. Staged(p) /\ LocalTypes /\ LocalTypes'
    BY <1>0 DEF LocksFit
  <2>2. \A x \in held'[p] : x \in held[p] \/ Free(p, x)
    BY <1>10, <2>0 DEF ChangeRole, LocalTypes, Take, End
  <2>3. UNCHANGED rows \/ Commit(p)
    BY <1>10 DEF ChangeRole, rows
  <2>4. \A x \in Shared(p)' :
          x \in Shared(p) \/ \A q \in Txns \ {p} : x \notin held[q]
    BY <1>10, <2>0, MembershipFields, AccountFields, NoOpFields
      DEF ChangeRole, LocalTypes, Staged, Kind, Subject, Shared, Keys,
          Inserts, Go, Take, End, rows, MembershipKinds, AccountKinds, Roles
  <2> QED
    BY <2>2, <2>3, <2>4
<1>11. CASE EditMembership(p)
  <2>0. Staged(p) /\ LocalTypes /\ LocalTypes'
    BY <1>0 DEF LocksFit
  <2>2. \A x \in held'[p] : x \in held[p] \/ Free(p, x)
    BY <1>11, <2>0 DEF EditMembership, LocalTypes, Take, End
  <2>3. UNCHANGED rows \/ Commit(p)
    BY <1>11 DEF EditMembership, rows
  <2>4. \A x \in Shared(p)' :
          x \in Shared(p) \/ \A q \in Txns \ {p} : x \notin held[q]
    BY <1>11, <2>0, MembershipFields, AccountFields, NoOpFields
      DEF EditMembership, LocalTypes, Staged, Kind, Subject, Shared, Keys,
          Inserts, Go, Take, End, rows, MembershipKinds, AccountKinds, Roles
  <2> QED
    BY <2>2, <2>3, <2>4
<1>12. CASE TakeKeys(p)
  <2>0. Staged(p) /\ LocalTypes /\ LocalTypes'
    BY <1>0 DEF LocksFit
  <2>2. \A x \in held'[p] : x \in held[p] \/ Free(p, x)
    BY <1>12, <2>0 DEF TakeKeys, LocalTypes, Take, End
  <2>3. UNCHANGED rows \/ Commit(p)
    BY <1>12 DEF TakeKeys, rows
  <2>4. \A x \in Shared(p)' :
          x \in Shared(p) \/ \A q \in Txns \ {p} : x \notin held[q]
    BY <1>12, <2>0, MembershipFields, AccountFields, NoOpFields
      DEF TakeKeys, LocalTypes, Staged, Kind, Subject, Shared, Keys,
          Inserts, Go, Take, End, rows, MembershipKinds, AccountKinds, Roles
  <2> QED
    BY <2>2, <2>3, <2>4
<1>13. CASE CheckOwned(p)
  <2>0. Staged(p) /\ LocalTypes /\ LocalTypes'
    BY <1>0 DEF LocksFit
  <2>2. \A x \in held'[p] : x \in held[p] \/ Free(p, x)
    BY <1>13, <2>0 DEF CheckOwned, LocalTypes, Take, End
  <2>3. UNCHANGED rows \/ Commit(p)
    BY <1>13 DEF CheckOwned, rows
  <2>4. \A x \in Shared(p)' :
          x \in Shared(p) \/ \A q \in Txns \ {p} : x \notin held[q]
    BY <1>13, <2>0, MembershipFields, AccountFields, NoOpFields
      DEF CheckOwned, LocalTypes, Staged, Kind, Subject, Shared, Keys,
          Inserts, Go, Take, End, rows, MembershipKinds, AccountKinds, Roles
  <2> QED
    BY <2>2, <2>3, <2>4
<1>14. CASE GroupsLocked(p)
  <2>0. Staged(p) /\ LocalTypes /\ LocalTypes'
    BY <1>0 DEF LocksFit
  <2>2. \A x \in held'[p] : x \in held[p] \/ Free(p, x)
    BY <1>14, <2>0 DEF GroupsLocked, LocalTypes, Take, End
  <2>3. UNCHANGED rows \/ Commit(p)
    BY <1>14 DEF GroupsLocked, rows
  <2>4. \A x \in Shared(p)' :
          x \in Shared(p) \/ \A q \in Txns \ {p} : x \notin held[q]
    BY <1>14, <2>0, MembershipFields, AccountFields, NoOpFields
      DEF GroupsLocked, LocalTypes, Staged, Kind, Subject, Shared, Keys,
          Inserts, Go, Take, End, rows, MembershipKinds, AccountKinds, Roles
  <2> QED
    BY <2>2, <2>3, <2>4
<1>15. CASE LockUser(p)
  <2>0. Staged(p) /\ LocalTypes /\ LocalTypes'
    BY <1>0 DEF LocksFit
  <2>2. \A x \in held'[p] : x \in held[p] \/ Free(p, x)
    BY <1>15, <2>0 DEF LockUser, LocalTypes, Take, End
  <2>3. UNCHANGED rows \/ Commit(p)
    BY <1>15 DEF LockUser, rows
  <2>4. \A x \in Shared(p)' :
          x \in Shared(p) \/ \A q \in Txns \ {p} : x \notin held[q]
    BY <1>15, <2>0, MembershipFields, AccountFields, NoOpFields
      DEF LockUser, LocalTypes, Staged, Kind, Subject, Shared, Keys,
          Inserts, Go, Take, End, rows, MembershipKinds, AccountKinds, Roles
  <2> QED
    BY <2>2, <2>3, <2>4
<1>16. CASE ReadOwned(p)
  <2>0. Staged(p) /\ LocalTypes /\ LocalTypes'
    BY <1>0 DEF LocksFit
  <2>2. \A x \in held'[p] : x \in held[p] \/ Free(p, x)
    BY <1>16, <2>0 DEF ReadOwned, LocalTypes, Take, End
  <2>3. UNCHANGED rows \/ Commit(p)
    BY <1>16 DEF ReadOwned, rows
  <2>4. \A x \in Shared(p)' :
          x \in Shared(p) \/ \A q \in Txns \ {p} : x \notin held[q]
    BY <1>16, <2>0, MembershipFields, AccountFields, NoOpFields
      DEF ReadOwned, LocalTypes, Staged, Kind, Subject, Shared, Keys,
          Inserts, Go, Take, End, rows, MembershipKinds, AccountKinds, Roles
  <2> QED
    BY <2>2, <2>3, <2>4
<1>17. CASE CheckDeletion(p)
  <2>0. Staged(p) /\ LocalTypes /\ LocalTypes'
    BY <1>0 DEF LocksFit
  <2>2. \A x \in held'[p] : x \in held[p] \/ Free(p, x)
    BY <1>17, <2>0 DEF CheckDeletion, LocalTypes, Take, End
  <2>3. UNCHANGED rows \/ Commit(p)
    BY <1>17 DEF CheckDeletion, rows
  <2>4. \A x \in Shared(p)' :
          x \in Shared(p) \/ \A q \in Txns \ {p} : x \notin held[q]
    BY <1>17, <2>0, MembershipFields, AccountFields, NoOpFields
      DEF CheckDeletion, LocalTypes, Staged, Kind, Subject, Shared, Keys,
          Inserts, Go, Take, End, rows, MembershipKinds, AccountKinds, Roles
  <2> QED
    BY <2>2, <2>3, <2>4
<1>18. CASE DeleteRow(p)
  <2>0. Staged(p) /\ LocalTypes /\ LocalTypes'
    BY <1>0 DEF LocksFit
  <2>2. \A x \in held'[p] : x \in held[p] \/ Free(p, x)
    BY <1>18, <2>0 DEF DeleteRow, LocalTypes, Take, End
  <2>3. UNCHANGED rows \/ Commit(p)
    BY <1>18 DEF DeleteRow, rows
  <2>4. \A x \in Shared(p)' :
          x \in Shared(p) \/ \A q \in Txns \ {p} : x \notin held[q]
    BY <1>18, <2>0, MembershipFields, AccountFields, NoOpFields
      DEF DeleteRow, LocalTypes, Staged, Kind, Subject, Shared, Keys,
          Inserts, Go, Take, End, rows, MembershipKinds, AccountKinds, Roles
  <2> QED
    BY <2>2, <2>3, <2>4
<1>19. CASE RowsDeleted(p)
  <2>0. Staged(p) /\ LocalTypes /\ LocalTypes'
    BY <1>0 DEF LocksFit
  <2>2. \A x \in held'[p] : x \in held[p] \/ Free(p, x)
    BY <1>19, <2>0 DEF RowsDeleted, LocalTypes, Take, End
  <2>3. UNCHANGED rows \/ Commit(p)
    BY <1>19 DEF RowsDeleted, rows
  <2>4. \A x \in Shared(p)' :
          x \in Shared(p) \/ \A q \in Txns \ {p} : x \notin held[q]
    BY <1>19, <2>0, MembershipFields, AccountFields, NoOpFields
      DEF RowsDeleted, LocalTypes, Staged, Kind, Subject, Shared, Keys,
          Inserts, Go, Take, End, rows, MembershipKinds, AccountKinds, Roles
  <2> QED
    BY <2>2, <2>3, <2>4
<1>20. CASE FireTriggers(p)
  <2>0. Staged(p) /\ LocalTypes /\ LocalTypes'
    BY <1>0 DEF LocksFit
  <2>2. \A x \in held'[p] : x \in held[p] \/ Free(p, x)
    BY <1>20, <2>0 DEF FireTriggers, LocalTypes, Take, End
  <2>3. UNCHANGED rows \/ Commit(p)
    BY <1>20 DEF FireTriggers, rows
  <2>4. \A x \in Shared(p)' :
          x \in Shared(p) \/ \A q \in Txns \ {p} : x \notin held[q]
    BY <1>20, <2>0, MembershipFields, AccountFields, NoOpFields
      DEF FireTriggers, LocalTypes, Staged, Kind, Subject, Shared, Keys,
          Inserts, Go, Take, End, rows, MembershipKinds, AccountKinds, Roles
  <2> QED
    BY <2>2, <2>3, <2>4
<1>21. CASE Commit(p)
  <2>0. Staged(p) /\ LocalTypes /\ LocalTypes'
    BY <1>0 DEF LocksFit
  <2>2. \A x \in held'[p] : x \in held[p] \/ Free(p, x)
    BY <1>21, <2>0 DEF Commit, LocalTypes, Take, End
  <2>3. UNCHANGED rows \/ Commit(p)
    BY <1>21 DEF Commit, rows
  <2>4. \A x \in Shared(p)' :
          x \in Shared(p) \/ \A q \in Txns \ {p} : x \notin held[q]
    BY <1>21, <2>0, MembershipFields, AccountFields, NoOpFields
      DEF Commit, LocalTypes, Staged, Kind, Subject, Shared, Keys, Inserts,
          Go, Take, End, rows, MembershipKinds, AccountKinds, Roles
  <2> QED
    BY <2>2, <2>3, <2>4
<1>22. CASE Rollback(p)
  <2>0. Staged(p) /\ LocalTypes /\ LocalTypes'
    BY <1>0 DEF LocksFit
  <2>2. \A x \in held'[p] : x \in held[p] \/ Free(p, x)
    BY <1>22, <2>0 DEF Rollback, LocalTypes, Take, End
  <2>3. UNCHANGED rows \/ Commit(p)
    BY <1>22 DEF Rollback, rows
  <2>4. \A x \in Shared(p)' :
          x \in Shared(p) \/ \A q \in Txns \ {p} : x \notin held[q]
    BY <1>22, <2>0, MembershipFields, AccountFields, NoOpFields
      DEF Rollback, LocalTypes, Staged, Kind, Subject, Shared, Keys,
          Inserts, Go, Take, End, rows, MembershipKinds, AccountKinds, Roles
  <2> QED
    BY <2>2, <2>3, <2>4
<1> QED
  BY ONLY <1>1, <1>2, <1>3, <1>4, <1>5, <1>6, <1>7, <1>8, <1>9, <1>10,
     <1>11, <1>12, <1>13, <1>14, <1>15, <1>16, <1>17, <1>18, <1>19, <1>20,
     <1>21, <1>22, Acts(p)
    DEF Acts

(* A transaction writes only rows it has locked, or those of the group it  *)
(* makes.                                                                  *)
LEMMA CommitEffect ==
  ASSUME TypeOK, LocksFit, NEW p \in Txns, Commit(p)
  PROVE  /\ role' \in [Groups -> [Users -> Roles]]
         /\ account' \in [Users -> {"active", "inactive", "gone"}]
         /\ made' \in SUBSET Groups /\ made \subseteq made'
         /\ \A g \in Groups, u \in Users : role'[g][u] # role[g][u] =>
              /\ u = Subject(p) /\ role'[g][u] = op[p].role
              /\ \/ Kind(p) \in {"role", "edit", "delete"} /\ Row(g, u) \in held[p]
                 \/ Kind(p) = "create" /\ g = op[p].group
              /\ Kind(p) # "delete" => g = op[p].group
         /\ \A u \in Users : account'[u] # account[u] =>
              /\ u = Subject(p) /\ User(u) \in held[p]
              /\ Kind(p) \in AccountKinds
<1>1. /\ Staged(p) /\ Locks(p) /\ LocalTypes /\ at[p] = "commit"
      /\ made \in SUBSET Groups
      /\ role \in [Groups -> [Users -> Roles]]
      /\ account \in [Users -> {"active", "inactive", "gone"}]
  BY DEF LocksFit, TypeOK, LocalTypes, Commit
<1>2. /\ Subject(p) \in Users /\ op[p].role \in Roles
      /\ Kind(p) \in MembershipKinds \cup AccountKinds
      /\ Kind(p) \in MembershipKinds => op[p].group \in Groups
      /\ Kind(p) \in AccountKinds => op[p].role = "none"
  BY <1>1, Parties DEF Roles
<1>3. role' = RoleAfter(p) /\ account' = AccountAfter(p)
  BY DEF Commit
<1>4. /\ role' \in [Groups -> [Users -> Roles]]
      /\ \A g \in Groups, u \in Users :
            role'[g][u] = IF Writes(p, g, u) THEN op[p].role ELSE role[g][u]
  BY <1>1, <1>2, <1>3 DEF RoleAfter
<1>5. ASSUME NEW g \in Groups, NEW u \in Users, role'[g][u] # role[g][u]
      PROVE  /\ u = Subject(p) /\ role'[g][u] = op[p].role
             /\ \/ Kind(p) \in {"role", "edit", "delete"} /\ Row(g, u) \in held[p]
                \/ Kind(p) = "create" /\ g = op[p].group
             /\ Kind(p) # "delete" => g = op[p].group
  <2>1. Writes(p, g, u) /\ role'[g][u] = op[p].role
    BY <1>4, <1>5
  <2>2. CASE Kind(p) = "delete"
    BY <2>1, <2>2 DEF Writes, MembershipKinds
  <2>3. CASE Kind(p) \in MembershipKinds
    BY <1>1, <2>1, <2>3 DEF Writes, MembershipKinds, Locks, RowDone
  <2> QED
    BY <2>1, <2>2, <2>3 DEF Writes
<1>6. account' \in [Users -> {"active", "inactive", "gone"}]
  BY <1>1, <1>2, <1>3 DEF AccountAfter
<1>7. ASSUME NEW u \in Users, account'[u] # account[u]
      PROVE  u = Subject(p) /\ User(u) \in held[p] /\ Kind(p) \in AccountKinds
  <2>1. u = Subject(p) /\ Kind(p) \in AccountKinds
    BY <1>1, <1>2, <1>3, <1>7 DEF AccountAfter, AccountKinds
  <2>2. UserLocked(p)
    BY <1>1, <2>1 DEF UserLocked, AccountKinds
  <2> QED
    BY <1>1, <2>1, <2>2 DEF Locks
<1>8. made' \in SUBSET Groups /\ made \subseteq made'
  BY <1>1, <1>2 DEF Commit, MembershipKinds
<1> QED
  BY <1>4, <1>5, <1>6, <1>7, <1>8

(* The keys a transaction has locked do not depend on the commits of       *)
(* others.                                                                 *)
LEMMA OthersShare ==
  ASSUME TypeOK, LocksFit, Exclusive, \A p \in Txns : Known(p),
         NEW p \in Txns, NEW q \in Txns \ {p}, Acts(p)
  PROVE  /\ (at[q] \in {"guard", "commit"} => (Inserts(q)' <=> Inserts(q)))
         /\ Shared(q)' = Shared(q)
<1>0. LocalTypes
  BY DEF TypeOK, LocalTypes
<1>1. op'[q] = op[q] /\ at'[q] = at[q]
  BY <1>0, TypesStep DEF Only
<1>2. CASE UNCHANGED rows
  BY <1>1, <1>2 DEF rows, Shared, Inserts, Keys, Kind, Subject
<1>3. CASE Commit(p)
  <2>1. CASE Kind(q) = "edit" /\ at[q] \in {"guard", "commit"}
    <3>1. /\ Subject(q) \in Users /\ op[q].group \in Groups
      BY <2>1, Parties DEF TypeOK, LocalTypes, MembershipKinds
    <3>2. Row(op[q].group, Subject(q)) \in held[q]
      BY <2>1, <3>1 DEF LocksFit, Locks, RowDone
    <3>3. role'[op[q].group][Subject(q)] = role[op[q].group][Subject(q)]
      <4>1. Row(op[q].group, Subject(q)) \notin held[p]
        BY <3>2 DEF Exclusive
      <4>2. ~(Kind(p) = "create" /\ op[q].group = op[p].group)
        BY DEF Known
      <4> QED
        BY <1>3, <3>1, <4>1, <4>2, CommitEffect
    <3> QED
      BY <1>1, <2>1, <3>3 DEF Shared, Inserts, Keys, Kind, Subject
  <2>2. CASE ~(Kind(q) = "edit" /\ at[q] \in {"guard", "commit"})
    BY <1>1, <2>2 DEF Shared, Inserts, Keys, Kind, Subject
  <2> QED
    BY <2>1, <2>2
<1> QED
  BY <1>0, <1>2, <1>3, Effect

LEMMA ExclusiveStep ==
  ASSUME TypeOK, LocksFit, Exclusive, \A p \in Txns : Known(p),
         NEW p \in Txns, Acts(p)
  PROVE  Exclusive'
<1>1. /\ \A x \in held'[p] : x \in held[p] \/ Free(p, x)
      /\ \A x \in Shared(p)' :
           x \in Shared(p) \/ \A q \in Txns \ {p} : x \notin held[q]
  BY Effect DEF TypeOK, LocalTypes
<1>2. \A q \in Txns \ {p} : held'[q] = held[q] /\ Shared(q)' = Shared(q)
  BY TypesStep, OthersShare DEF Only, TypeOK, LocalTypes
<1>3. ASSUME NEW q \in Txns, NEW r \in Txns, q # r
      PROVE  held'[q] \cap (held'[r] \cup Shared(r)') = {}
  <2>1. CASE q # p /\ r # p
    BY <1>2, <1>3, <2>1 DEF Exclusive
  <2>2. CASE q = p
    BY <1>1, <1>2, <1>3, <2>2 DEF Exclusive, Free
  <2>3. CASE r = p
    BY <1>1, <1>2, <1>3, <2>3 DEF Exclusive, Free
  <2> QED
    BY <2>1, <2>2, <2>3
<1> QED
  BY <1>3 DEF Exclusive

(* The transaction that takes a step finds what it is about, and what it   *)
(* read.                                                                   *)
LEMMA KnownStep ==
  ASSUME TypeOK, LocksFit, \A p \in Txns : Known(p) /\ Stands(p),
         NEW p \in Txns, Acts(p)
  PROVE  /\ Known(p)' /\ Stands(p)'
         /\ \A q \in Txns \ {p} :
               Kind(q) = "create" => op'[p].group # op[q].group
<1>0. LocalTypes /\ LocalTypes'
  BY TypesStep DEF TypeOK, LocalTypes
<1>a. \A u \in Users : OwnedBy(u) \subseteq made
  BY DEF OwnedBy, Owns, TypeOK
<1>b. \A u \in Users : {g \in Groups : role[g][u] # "none"} \subseteq made
  BY DEF TypeOK
<1>c. \A g \in Groups, u \in Users : role[g][u] # "none" => g \in made
  BY DEF TypeOK
<1>d. \A q \in Txns : Kind(q) = "create" => op[q].group \in Groups \ made
  <2>1. SUFFICES ASSUME NEW q \in Txns, Kind(q) = "create"
                 PROVE  op[q].group \in Groups \ made
    OBVIOUS
  <2>2. at[q] # "idle"
    BY <2>1 DEF LocksFit, Staged
  <2> QED
    BY <1>0, <2>1, <2>2, Parties DEF Known, MembershipKinds
<1> USE <1>0, <1>a, <1>b, <1>c, ConstantsAssumption, MembershipFields,
        AccountFields, NoOpFields, ResourceShape, Parties
    DEF MembershipKinds, AccountKinds, Roles, Go, Take, End, rows
<1> DEFINE Fair ==
           /\ Known(p)' /\ Stands(p)'
           /\ \A q \in Txns \ {p} :
                 Kind(q) = "create" => op'[p].group # op[q].group
<1>1. ASSUME NEW g \in Groups, NEW u \in Users, NEW r \in Roles,
            BeginRole(p, g, u, r)
      PROVE  Fair
  <2>0. Staged(p) /\ Locks(p) /\ Known(p) /\ Stands(p)
    BY DEF LocksFit
  <2>1. Known(p)'
    <3>1. held'[p] = {}
      BY <1>1, <1>a, IdleHoldsNothing DEF BeginRole, Begin
    <3> QED
      BY <1>1, <2>0, <3>1
        DEF BeginRole, Begin, Known, Kind, Subject, LocalTypes
  <2>2. Stands(p)'
    BY <1>1, <2>0
      DEF BeginRole, Begin, Stands, Kind, Subject, LocalTypes, Staged,
          UserLocked, Inserts
  <2>3. \A q \in Txns \ {p} : Kind(q) = "create" => op'[p].group # op[q].group
    BY <1>1, <2>0, <1>d DEF BeginRole, Begin, Known, Kind, LocalTypes
  <2> QED
    BY <2>1, <2>2, <2>3
<1>2. ASSUME NEW g \in Groups, NEW u \in Users, NEW r \in Roles,
            BeginEdit(p, g, u, r)
      PROVE  Fair
  <2>0. Staged(p) /\ Locks(p) /\ Known(p) /\ Stands(p)
    BY DEF LocksFit
  <2>1. Known(p)'
    <3>1. held'[p] = {}
      BY <1>2, <1>a, IdleHoldsNothing DEF BeginEdit, Begin
    <3> QED
      BY <1>2, <2>0, <3>1
        DEF BeginEdit, Begin, Known, Kind, Subject, LocalTypes
  <2>2. Stands(p)'
    BY <1>2, <2>0
      DEF BeginEdit, Begin, Stands, Kind, Subject, LocalTypes, Staged,
          UserLocked, Inserts
  <2>3. \A q \in Txns \ {p} : Kind(q) = "create" => op'[p].group # op[q].group
    BY <1>2, <2>0, <1>d DEF BeginEdit, Begin, Known, Kind, LocalTypes
  <2> QED
    BY <2>1, <2>2, <2>3
<1>3. ASSUME NEW g \in Groups, NEW u \in Users,
            BeginCreate(p, g, u)
      PROVE  Fair
  <2>0. Staged(p) /\ Locks(p) /\ Known(p) /\ Stands(p)
    BY DEF LocksFit
  <2>1. Known(p)'
    <3>1. held'[p] = {}
      BY <1>3, <1>a, IdleHoldsNothing DEF BeginCreate, Begin
    <3> QED
      BY <1>3, <2>0, <3>1
        DEF BeginCreate, Begin, Known, Kind, Subject, LocalTypes
  <2>2. Stands(p)'
    BY <1>3, <2>0
      DEF BeginCreate, Begin, Stands, Kind, Subject, LocalTypes, Staged,
          UserLocked, Inserts
  <2>3. \A q \in Txns \ {p} : Kind(q) = "create" => op'[p].group # op[q].group
    BY <1>3, <2>0, <1>d DEF BeginCreate, Begin, Known, Kind, LocalTypes
  <2> QED
    BY <2>1, <2>2, <2>3
<1>4. ASSUME NEW u \in Users,
            BeginDeactivate(p, u)
      PROVE  Fair
  <2>0. Staged(p) /\ Locks(p) /\ Known(p) /\ Stands(p)
    BY DEF LocksFit
  <2>1. Known(p)'
    <3>1. held'[p] = {}
      BY <1>4, <1>a, IdleHoldsNothing DEF BeginDeactivate, Begin
    <3> QED
      BY <1>4, <2>0, <3>1
        DEF BeginDeactivate, Begin, Known, Kind, Subject, LocalTypes
  <2>2. Stands(p)'
    BY <1>4, <2>0
      DEF BeginDeactivate, Begin, Stands, Kind, Subject, LocalTypes, Staged,
          UserLocked, Inserts
  <2>3. \A q \in Txns \ {p} : Kind(q) = "create" => op'[p].group # op[q].group
    <3>1. op'[p].group = NoGroup
      BY <1>4, <1>a DEF BeginDeactivate, Begin, LocalTypes
    <3> QED
      BY ONLY <3>1, <1>d, ConstantsAssumption
  <2> QED
    BY <2>1, <2>2, <2>3
<1>5. ASSUME NEW u \in Users,
            BeginActivate(p, u)
      PROVE  Fair
  <2>0. Staged(p) /\ Locks(p) /\ Known(p) /\ Stands(p)
    BY DEF LocksFit
  <2>1. Known(p)'
    <3>1. held'[p] = {}
      BY <1>5, <1>a, IdleHoldsNothing DEF BeginActivate, Begin
    <3> QED
      BY <1>5, <2>0, <3>1
        DEF BeginActivate, Begin, Known, Kind, Subject, LocalTypes
  <2>2. Stands(p)'
    BY <1>5, <2>0
      DEF BeginActivate, Begin, Stands, Kind, Subject, LocalTypes, Staged,
          UserLocked, Inserts
  <2>3. \A q \in Txns \ {p} : Kind(q) = "create" => op'[p].group # op[q].group
    <3>1. op'[p].group = NoGroup
      BY <1>5, <1>a DEF BeginActivate, Begin, LocalTypes
    <3> QED
      BY ONLY <3>1, <1>d, ConstantsAssumption
  <2> QED
    BY <2>1, <2>2, <2>3
<1>6. ASSUME NEW u \in Users,
            BeginDelete(p, u)
      PROVE  Fair
  <2>0. Staged(p) /\ Locks(p) /\ Known(p) /\ Stands(p)
    BY DEF LocksFit
  <2>1. Known(p)'
    <3>1. held'[p] = {}
      BY <1>6, <1>a, IdleHoldsNothing DEF BeginDelete, Begin
    <3> QED
      BY <1>6, <2>0, <3>1
        DEF BeginDelete, Begin, Known, Kind, Subject, LocalTypes
  <2>2. Stands(p)'
    BY <1>6, <2>0
      DEF BeginDelete, Begin, Stands, Kind, Subject, LocalTypes, Staged,
          UserLocked, Inserts
  <2>3. \A q \in Txns \ {p} : Kind(q) = "create" => op'[p].group # op[q].group
    <3>1. op'[p].group = NoGroup
      BY <1>6, <1>a DEF BeginDelete, Begin, LocalTypes
    <3> QED
      BY ONLY <3>1, <1>d, ConstantsAssumption
  <2> QED
    BY <2>1, <2>2, <2>3
<1>7. ASSUME NEW u \in Users,
            BeginForm(p, u)
      PROVE  Fair
  <2>0. Staged(p) /\ Locks(p) /\ Known(p) /\ Stands(p)
    BY DEF LocksFit
  <2>1. Known(p)'
    <3>1. held'[p] = {}
      BY <1>7, <1>a, IdleHoldsNothing DEF BeginForm, Begin
    <3> QED
      BY <1>7, <2>0, <3>1
        DEF BeginForm, Begin, Known, Kind, Subject, LocalTypes
  <2>2. Stands(p)'
    BY <1>7, <2>0
      DEF BeginForm, Begin, Stands, Kind, Subject, LocalTypes, Staged,
          UserLocked, Inserts
  <2>3. \A q \in Txns \ {p} : Kind(q) = "create" => op'[p].group # op[q].group
    <3>1. op'[p].group = NoGroup
      BY <1>7, <1>a DEF BeginForm, Begin, LocalTypes
    <3> QED
      BY ONLY <3>1, <1>d, ConstantsAssumption
  <2> QED
    BY <2>1, <2>2, <2>3
<1>8. CASE LockGroup(p)
  <2>0. Staged(p) /\ Locks(p) /\ Known(p) /\ Stands(p)
    BY DEF LocksFit
  <2>1. Known(p)'
    <3>1. at[p] # "idle" /\ todo[p] # {}
      BY <1>8, <1>a, Parties DEF LockGroup
    <3>2. /\ Least(todo[p]) \in todo[p] /\ Least(todo[p]) \in made
          /\ todo[p] \subseteq made
      BY <1>a, <2>0, <3>1, Parties DEF Known
    <3> QED
      BY <1>8, <2>0, <3>2 DEF LockGroup, Known, Kind, Subject, LocalTypes
  <2>2. Stands(p)'
    BY <1>8, <2>0
      DEF LockGroup, Stands, Kind, Subject, LocalTypes, Staged, UserLocked,
          Inserts
  <2>3. \A q \in Txns \ {p} : Kind(q) = "create" => op'[p].group # op[q].group
    BY <1>8, <2>0, <1>d DEF LockGroup, Known, Kind, LocalTypes
  <2> QED
    BY <2>1, <2>2, <2>3
<1>9. CASE LockRow(p)
  <2>0. Staged(p) /\ Locks(p) /\ Known(p) /\ Stands(p)
    BY DEF LocksFit
  <2>1. Known(p)'
    <3>1. at[p] # "idle" /\ todo[p] # {}
      BY <1>9, <1>a, Parties DEF LockRow
    <3>2. /\ Least(todo[p]) \in todo[p] /\ Least(todo[p]) \in made
          /\ todo[p] \subseteq made
      BY <1>a, <2>0, <3>1, Parties DEF Known
    <3> QED
      BY <1>9, <2>0, <3>2 DEF LockRow, Known, Kind, Subject, LocalTypes
  <2>2. Stands(p)'
    BY <1>9, <2>0
      DEF LockRow, Stands, Kind, Subject, LocalTypes, Staged, UserLocked,
          Inserts
  <2>3. \A q \in Txns \ {p} : Kind(q) = "create" => op'[p].group # op[q].group
    BY <1>9, <2>0, <1>d DEF LockRow, Known, Kind, LocalTypes
  <2> QED
    BY <2>1, <2>2, <2>3
<1>10. CASE ChangeRole(p)
  <2>0. Staged(p) /\ Locks(p) /\ Known(p) /\ Stands(p)
    BY DEF LocksFit
  <2>1. Known(p)'
    BY <1>10, <2>0 DEF ChangeRole, Known, Kind, Subject, LocalTypes
  <2>2. Stands(p)'
    BY <1>10, <2>0
      DEF ChangeRole, Stands, Kind, Subject, LocalTypes, Staged, UserLocked,
          Inserts
  <2>3. \A q \in Txns \ {p} : Kind(q) = "create" => op'[p].group # op[q].group
    BY <1>10, <2>0, <1>d DEF ChangeRole, Known, Kind, LocalTypes
  <2> QED
    BY <2>1, <2>2, <2>3
<1>11. CASE EditMembership(p)
  <2>0. Staged(p) /\ Locks(p) /\ Known(p) /\ Stands(p)
    BY DEF LocksFit
  <2>1. Known(p)'
    BY <1>11, <2>0 DEF EditMembership, Known, Kind, Subject, LocalTypes
  <2>2. Stands(p)'
    BY <1>11, <2>0
      DEF EditMembership, Stands, Kind, Subject, LocalTypes, Staged,
          UserLocked, Inserts
  <2>3. \A q \in Txns \ {p} : Kind(q) = "create" => op'[p].group # op[q].group
    BY <1>11, <2>0, <1>d DEF EditMembership, Known, Kind, LocalTypes
  <2> QED
    BY <2>1, <2>2, <2>3
<1>12. CASE TakeKeys(p)
  <2>0. Staged(p) /\ Locks(p) /\ Known(p) /\ Stands(p)
    BY DEF LocksFit
  <2>1. Known(p)'
    BY <1>12, <2>0 DEF TakeKeys, Known, Kind, Subject, LocalTypes
  <2>2. Stands(p)'
    BY <1>12, <2>0
      DEF TakeKeys, Stands, Kind, Subject, LocalTypes, Staged, UserLocked,
          Inserts
  <2>3. \A q \in Txns \ {p} : Kind(q) = "create" => op'[p].group # op[q].group
    BY <1>12, <2>0, <1>d DEF TakeKeys, Known, Kind, LocalTypes
  <2> QED
    BY <2>1, <2>2, <2>3
<1>13. CASE CheckOwned(p)
  <2>0. Staged(p) /\ Locks(p) /\ Known(p) /\ Stands(p)
    BY DEF LocksFit
  <2>1. Known(p)'
    BY <1>13, <2>0 DEF CheckOwned, Known, Kind, Subject, LocalTypes
  <2>2. Stands(p)'
    BY <1>13, <2>0
      DEF CheckOwned, Stands, Kind, Subject, LocalTypes, Staged, UserLocked,
          Inserts
  <2>3. \A q \in Txns \ {p} : Kind(q) = "create" => op'[p].group # op[q].group
    BY <1>13, <2>0, <1>d DEF CheckOwned, Known, Kind, LocalTypes
  <2> QED
    BY <2>1, <2>2, <2>3
<1>14. CASE GroupsLocked(p)
  <2>0. Staged(p) /\ Locks(p) /\ Known(p) /\ Stands(p)
    BY DEF LocksFit
  <2>1. Known(p)'
    BY <1>14, <2>0 DEF GroupsLocked, Known, Kind, Subject, LocalTypes
  <2>2. Stands(p)'
    BY <1>14, <2>0
      DEF GroupsLocked, Stands, Kind, Subject, LocalTypes, Staged,
          UserLocked, Inserts
  <2>3. \A q \in Txns \ {p} : Kind(q) = "create" => op'[p].group # op[q].group
    BY <1>14, <2>0, <1>d DEF GroupsLocked, Known, Kind, LocalTypes
  <2> QED
    BY <2>1, <2>2, <2>3
<1>15. CASE LockUser(p)
  <2>0. Staged(p) /\ Locks(p) /\ Known(p) /\ Stands(p)
    BY DEF LocksFit
  <2>1. Known(p)'
    BY <1>15, <2>0 DEF LockUser, Known, Kind, Subject, LocalTypes
  <2>2. Stands(p)'
    BY <1>15, <2>0
      DEF LockUser, Stands, Kind, Subject, LocalTypes, Staged, UserLocked,
          Inserts
  <2>3. \A q \in Txns \ {p} : Kind(q) = "create" => op'[p].group # op[q].group
    BY <1>15, <2>0, <1>d DEF LockUser, Known, Kind, LocalTypes
  <2> QED
    BY <2>1, <2>2, <2>3
<1>16. CASE ReadOwned(p)
  <2>0. Staged(p) /\ Locks(p) /\ Known(p) /\ Stands(p)
    BY DEF LocksFit
  <2>1. Known(p)'
    BY <1>16, <2>0 DEF ReadOwned, Known, Kind, Subject, LocalTypes
  <2>2. Stands(p)'
    BY <1>16, <2>0
      DEF ReadOwned, Stands, Kind, Subject, LocalTypes, Staged, UserLocked,
          Inserts
  <2>3. \A q \in Txns \ {p} : Kind(q) = "create" => op'[p].group # op[q].group
    BY <1>16, <2>0, <1>d DEF ReadOwned, Known, Kind, LocalTypes
  <2> QED
    BY <2>1, <2>2, <2>3
<1>17. CASE CheckDeletion(p)
  <2>0. Staged(p) /\ Locks(p) /\ Known(p) /\ Stands(p)
    BY DEF LocksFit
  <2>1. Known(p)'
    BY <1>17, <2>0 DEF CheckDeletion, Known, Kind, Subject, LocalTypes
  <2>2. Stands(p)'
    BY <1>17, <2>0
      DEF CheckDeletion, Stands, Kind, Subject, LocalTypes, Staged,
          UserLocked, Inserts
  <2>3. \A q \in Txns \ {p} : Kind(q) = "create" => op'[p].group # op[q].group
    BY <1>17, <2>0, <1>d DEF CheckDeletion, Known, Kind, LocalTypes
  <2> QED
    BY <2>1, <2>2, <2>3
<1>18. CASE DeleteRow(p)
  <2>0. Staged(p) /\ Locks(p) /\ Known(p) /\ Stands(p)
    BY DEF LocksFit
  <2>1. Known(p)'
    <3>1. at[p] # "idle" /\ todo[p] # {}
      BY <1>18, <1>a, Parties DEF DeleteRow
    <3>2. /\ Least(todo[p]) \in todo[p] /\ Least(todo[p]) \in made
          /\ todo[p] \subseteq made
      BY <1>a, <2>0, <3>1, Parties DEF Known
    <3> QED
      BY <1>18, <2>0, <3>2 DEF DeleteRow, Known, Kind, Subject, LocalTypes
  <2>2. Stands(p)'
    BY <1>18, <2>0
      DEF DeleteRow, Stands, Kind, Subject, LocalTypes, Staged, UserLocked,
          Inserts
  <2>3. \A q \in Txns \ {p} : Kind(q) = "create" => op'[p].group # op[q].group
    BY <1>18, <2>0, <1>d DEF DeleteRow, Known, Kind, LocalTypes
  <2> QED
    BY <2>1, <2>2, <2>3
<1>19. CASE RowsDeleted(p)
  <2>0. Staged(p) /\ Locks(p) /\ Known(p) /\ Stands(p)
    BY DEF LocksFit
  <2>1. Known(p)'
    BY <1>19, <2>0 DEF RowsDeleted, Known, Kind, Subject, LocalTypes
  <2>2. Stands(p)'
    BY <1>19, <2>0
      DEF RowsDeleted, Stands, Kind, Subject, LocalTypes, Staged,
          UserLocked, Inserts
  <2>3. \A q \in Txns \ {p} : Kind(q) = "create" => op'[p].group # op[q].group
    BY <1>19, <2>0, <1>d DEF RowsDeleted, Known, Kind, LocalTypes
  <2> QED
    BY <2>1, <2>2, <2>3
<1>20. CASE FireTriggers(p)
  <2>0. Staged(p) /\ Locks(p) /\ Known(p) /\ Stands(p)
    BY DEF LocksFit
  <2>1. Known(p)'
    BY <1>20, <2>0 DEF FireTriggers, Known, Kind, Subject, LocalTypes
  <2>2. Stands(p)'
    <3>1. Kind(p) = "delete" => \A g \in Groups :
             role[g][Subject(p)] # "none" => Row(g, Subject(p)) \in held[p]
      <4>1. SUFFICES ASSUME Kind(p) = "delete", NEW g \in Groups,
                            role[g][Subject(p)] # "none"
                     PROVE  Row(g, Subject(p)) \in held[p]
        OBVIOUS
      <4>2. Subject(p) \in Users
        BY <1>20, <1>0 DEF FireTriggers
      <4>3. RoleAfter(p)[g][Subject(p)] = "none"
        BY <1>20, <4>1 DEF FireTriggers, KeysPass
      <4>4. Writes(p, g, Subject(p))
        BY <4>1, <4>2, <4>3 DEF RoleAfter
      <4> QED
        BY <4>1, <4>4 DEF Writes
    <3> QED
      BY <1>20, <2>0, <3>1
        DEF FireTriggers, Stands, Kind, Subject, LocalTypes, Staged,
            UserLocked, Inserts
  <2>3. \A q \in Txns \ {p} : Kind(q) = "create" => op'[p].group # op[q].group
    BY <1>20, <2>0, <1>d DEF FireTriggers, Known, Kind, LocalTypes
  <2> QED
    BY <2>1, <2>2, <2>3
<1>21. CASE Commit(p)
  <2>0. Staged(p) /\ Locks(p) /\ Known(p) /\ Stands(p)
    BY DEF LocksFit
  <2>1. Known(p)'
    BY <1>21, <2>0 DEF Commit, Known, Kind, Subject, LocalTypes
  <2>2. Stands(p)'
    BY <1>21, <2>0
      DEF Commit, Stands, Kind, Subject, LocalTypes, Staged, UserLocked,
          Inserts
  <2>3. \A q \in Txns \ {p} : Kind(q) = "create" => op'[p].group # op[q].group
    <3>1. op'[p].group = NoGroup
      BY <1>21, <1>0 DEF Commit, LocalTypes
    <3> QED
      BY ONLY <3>1, <1>d, ConstantsAssumption
  <2> QED
    BY <2>1, <2>2, <2>3
<1>22. CASE Rollback(p)
  <2>0. Staged(p) /\ Locks(p) /\ Known(p) /\ Stands(p)
    BY DEF LocksFit
  <2>1. Known(p)'
    BY <1>22, <2>0 DEF Rollback, Known, Kind, Subject, LocalTypes
  <2>2. Stands(p)'
    BY <1>22, <2>0
      DEF Rollback, Stands, Kind, Subject, LocalTypes, Staged, UserLocked,
          Inserts
  <2>3. \A q \in Txns \ {p} : Kind(q) = "create" => op'[p].group # op[q].group
    <3>1. op'[p].group = NoGroup
      BY <1>22, <1>0 DEF Rollback, LocalTypes
    <3> QED
      BY ONLY <3>1, <1>d, ConstantsAssumption
  <2> QED
    BY <2>1, <2>2, <2>3
<1> QED
  BY ONLY <1>1, <1>2, <1>3, <1>4, <1>5, <1>6, <1>7, <1>8, <1>9, <1>10,
     <1>11, <1>12, <1>13, <1>14, <1>15, <1>16, <1>17, <1>18, <1>19, <1>20,
     <1>21, <1>22, Acts(p)
    DEF Acts

(* Its step takes nothing away from what others are about.                 *)
LEMMA KnownOthers ==
  ASSUME LockInv, NEW p \in Txns, Acts(p), NEW q \in Txns \ {p}
  PROVE  Known(q)'
<1>1. /\ LocalTypes /\ TypeOK /\ LocksFit /\ \A r \in Txns : Known(r) /\ Stands(r)
      /\ Known(q)
  BY DEF LockInv, TypeOK, LocalTypes
<1>2. \A r \in Txns \ {p} : op'[r] = op[r] /\ at'[r] = at[r]
          /\ todo'[r] = todo[r] /\ held'[r] = held[r]
  BY <1>1, TypesStep DEF Only
<1>3. \/ made' = made
      \/ Kind(p) = "create" /\ made' = made \cup {op[p].group}
  <2>1. UNCHANGED rows \/ Commit(p)
    BY <1>1, Effect
  <2> QED
    BY <2>1 DEF rows, Commit
<1>4. Kind(q) = "create" => op'[p].group # op[q].group
  BY <1>1, KnownStep
<1>5. Kind(q) = "create" /\ Kind(p) = "create" => op[p].group # op[q].group
  BY <1>1 DEF Known
<1> QED
  BY <1>1, <1>2, <1>3, <1>4, <1>5 DEF Known, Kind, Subject

(* A commit changes nothing that another transaction has read under its    *)
(* locks.                                                                  *)
LEMMA StandsOthers ==
  ASSUME LockInv, NEW p \in Txns, Acts(p), NEW q \in Txns \ {p}
  PROVE  Stands(q)'
<1>1. /\ LocalTypes /\ TypeOK /\ LocksFit /\ Exclusive
      /\ \A r \in Txns : Known(r) /\ Stands(r)
      /\ Stands(q) /\ Staged(q) /\ Locks(q)
  BY DEF LockInv, TypeOK, LocalTypes, LocksFit
<1>2. /\ op'[q] = op[q] /\ at'[q] = at[q] /\ todo'[q] = todo[q]
      /\ held'[q] = held[q]
  BY <1>1, TypesStep DEF Only
<1>3. at[q] \in {"guard", "commit"} => (Inserts(q)' <=> Inserts(q))
  BY <1>1, OthersShare
<1>4. CASE UNCHANGED rows
  BY <1>1, <1>2, <1>3, <1>4 DEF Stands, Kind, Subject, UserLocked, rows
<1>5. CASE Commit(p)
  <2>1. at[q] # "idle" => Subject(q) \in Users
    BY <1>1, Parties
  <2>2. /\ Staged(p) /\ Locks(p) /\ Subject(p) \in Users
        /\ at[p] = "commit" /\ Kind(p) \in MembershipKinds \cup AccountKinds
        /\ Kind(p) \in MembershipKinds => op[p].group \in Groups
        /\ Kind(p) \in AccountKinds => op[p].role = "none"
    BY <1>1, <1>5, Parties DEF Commit, LocksFit
  <2>3. Kind(q) = "role" /\ at[q] \in {"guard", "commit"} =>
          role'[op[q].group][Subject(q)] = role[op[q].group][Subject(q)]
    <3>1. SUFFICES ASSUME Kind(q) = "role", at[q] \in {"guard", "commit"}
                   PROVE  role'[op[q].group][Subject(q)]
                             = role[op[q].group][Subject(q)]
      OBVIOUS
    <3>2. op[q].group \in Groups
      BY <1>1, <3>1, Parties DEF MembershipKinds
    <3>3. Row(op[q].group, Subject(q)) \in held[q]
      BY <1>1, <3>1, <3>2 DEF Locks, RowDone
    <3>4. Row(op[q].group, Subject(q)) \notin held[p]
      BY <1>1, <3>3 DEF Exclusive
    <3>5. op[q].group \in made
      BY <1>1, <3>1 DEF Known
    <3>6. ~(Kind(p) = "create" /\ op[q].group = op[p].group)
      BY <1>1, <3>5 DEF Known
    <3> QED
      BY <1>1, <1>5, <2>1, <3>1, <3>2, <3>4, <3>6, CommitEffect
  <2>4. ASSUME UserLocked(q) \/ (at[q] \in {"guard", "commit"} /\ Inserts(q))
        PROVE  account'[Subject(q)] # "gone"
    <3>1. User(Subject(q)) \in held[q] \cup Shared(q)
      BY <1>1, <2>4 DEF Locks, Shared, Keys
    <3>2. User(Subject(q)) \notin held[p]
      BY <1>1, <3>1 DEF Exclusive
    <3>3. at[q] # "idle"
      BY <1>1, <2>4 DEF UserLocked, Staged
    <3>4. account'[Subject(q)] = account[Subject(q)]
      BY <1>1, <1>5, <2>1, <3>2, <3>3, CommitEffect
    <3>5. account[Subject(q)] # "gone"
      BY <1>1, <2>4 DEF Stands
    <3> QED
      BY <3>4, <3>5
  <2>5. ASSUME Kind(q) = "delete", at[q] = "commit", NEW g \in Groups,
               role'[g][Subject(q)] # "none"
        PROVE  Row(g, Subject(q)) \in held[q]
    <3>1. SUFFICES role[g][Subject(q)] # "none"
      BY <1>1, <2>5 DEF Stands
    <3>2. SUFFICES ASSUME role[g][Subject(q)] = "none" PROVE FALSE
      OBVIOUS
    <3>3. Subject(q) \in Users /\ User(Subject(q)) \in held[q]
      BY <1>1, <2>1, <2>5 DEF Locks, UserLocked
    <3>4. /\ Subject(q) = Subject(p) /\ op[p].role # "none"
          /\ Kind(p) # "delete" => g = op[p].group
      BY <1>1, <1>5, <2>5, <3>2, <3>3, CommitEffect
    <3>5. Kind(p) \in MembershipKinds /\ g = op[p].group
      BY <2>2, <3>4 DEF MembershipKinds, AccountKinds
    <3>6. Kind(p) # "role"
      BY <1>1, <2>2, <3>2, <3>4, <3>5 DEF Stands
    <3>7. Inserts(p)
      BY <3>2, <3>4, <3>5, <3>6 DEF Inserts, MembershipKinds
    <3>8. User(Subject(p)) \in Shared(p)
      BY <2>2, <3>7 DEF Shared, Keys
    <3> QED
      BY <1>1, <3>3, <3>4, <3>8 DEF Exclusive
  <2>6. Stands(q)'
    <3>1. Kind(q) = "role" /\ at[q] \in {"guard", "commit"} =>
            role'[op[q].group][Subject(q)] # "none"
      BY <1>1, <2>3 DEF Stands
    <3>2. /\ UserLocked(q) => account'[Subject(q)] # "gone"
          /\ Inserts(q) /\ at[q] \in {"guard", "commit"} =>
                account'[Subject(q)] # "gone"
      BY <2>4
    <3> QED
      BY <1>2, <1>3, <2>5, <3>1, <3>2 DEF Stands, Kind, Subject, UserLocked
  <2> QED
    BY <2>6
<1> QED
  BY <1>1, <1>4, <1>5, Effect

(* Rows refer to organizations and users that exist.                       *)
LEMMA TypeStep ==
  ASSUME LockInv, NEW p \in Txns, Acts(p)
  PROVE  TypeOK'
<1>1. /\ LocalTypes /\ TypeOK /\ LocksFit /\ Exclusive /\ Known(p) /\ Stands(p)
  BY DEF LockInv, TypeOK, LocalTypes
<1>2. LocalTypes'
  BY <1>1, TypesStep
<1>3. CASE UNCHANGED rows
  BY <1>1, <1>2, <1>3 DEF TypeOK, LocalTypes, rows
<1>4. CASE Commit(p)
  <2>1. /\ role' \in [Groups -> [Users -> Roles]]
        /\ account' \in [Users -> {"active", "inactive", "gone"}]
        /\ made' \in SUBSET Groups /\ made \subseteq made'
    BY <1>1, <1>4, CommitEffect
  <2>2. /\ at[p] = "commit" /\ Kind(p) \in MembershipKinds \cup AccountKinds
        /\ Kind(p) \in AccountKinds => op[p].role = "none"
        /\ Subject(p) \in Users
    BY <1>1, <1>4, Parties DEF Commit
  <2>3. ASSUME NEW g \in Groups, NEW u \in Users, role'[g][u] # "none"
        PROVE  g \in made' /\ account'[u] # "gone"
    <3>1. CASE role'[g][u] # role[g][u]
      <4>1. /\ u = Subject(p) /\ op[p].role # "none"
            /\ Kind(p) # "delete" => g = op[p].group
        BY <1>1, <1>4, <2>3, <3>1, CommitEffect
      <4>2. Kind(p) \in MembershipKinds /\ g = op[p].group
        BY <2>2, <4>1 DEF AccountKinds
      <4>3. g \in made'
        BY <1>1, <1>4, <2>1, <4>2 DEF Known, Commit, MembershipKinds
      <4>4. account'[u] = account[u]
        BY <1>1, <1>4, <4>2, CommitEffect DEF MembershipKinds, AccountKinds
      <4>5. account[u] # "gone"
        <5>1. CASE role[g][u] # "none"
          BY <1>1, <5>1 DEF TypeOK
        <5>2. CASE role[g][u] = "none"
          BY <1>1, <2>2, <4>1, <4>2, <5>2 DEF Stands, Inserts, MembershipKinds
        <5> QED
          BY <5>1, <5>2
      <4> QED
        BY <4>3, <4>4, <4>5
    <3>2. CASE role'[g][u] = role[g][u]
      <4>1. g \in made /\ account[u] # "gone"
        BY <1>1, <2>3, <3>2 DEF TypeOK
      <4>2. ASSUME account'[u] = "gone" PROVE FALSE
        <5>1. u = Subject(p) /\ Kind(p) \in AccountKinds
          BY <1>1, <1>4, <4>1, <4>2, CommitEffect
        <5>2. Kind(p) = "delete"
          BY <1>1, <1>4, <4>2, <5>1
            DEF Commit, AccountAfter, AccountKinds, TypeOK
        <5>3. Row(g, u) \in held[p]
          BY <1>1, <2>2, <2>3, <3>2, <5>1, <5>2 DEF Stands
        <5>4. Writes(p, g, u)
          BY <5>1, <5>2, <5>3 DEF Writes
        <5> QED
          BY <1>4, <2>2, <2>3, <5>1, <5>4 DEF Commit, RoleAfter
      <4> QED
        BY <2>1, <4>1, <4>2
    <3> QED
      BY <3>1, <3>2
  <2> QED
    BY <1>2, <2>1, <2>3 DEF TypeOK, LocalTypes
<1> QED
  BY <1>1, <1>3, <1>4, Effect

LEMMA LockStutter ==
  ASSUME LockInv, UNCHANGED vars
  PROVE  LockInv'
<1>1. UNCHANGED <<made, role, account, op, at, todo, held>>
  BY DEF vars, rows
<1>2. TypeOK'
  BY <1>1 DEF LockInv, TypeOK
<1>3. LocksFit'
  BY <1>1 DEF LockInv, LocksFit, Staged, Locks, Kind, Subject, UserLocked,
              RowDone, Owned
<1>4. Exclusive'
  BY <1>1 DEF LockInv, Exclusive, Shared, Inserts, Keys, Kind, Subject
<1>5. (\A p \in Txns : Known(p) /\ Stands(p))'
  BY <1>1 DEF LockInv, Known, Stands, Kind, Subject, UserLocked, Inserts
<1> QED
  BY <1>2, <1>3, <1>4, <1>5 DEF LockInv

LEMMA LockInit ==
  Init => LockInv
<1> SUFFICES ASSUME Init PROVE LockInv
  OBVIOUS
<1>1. /\ \A p \in Txns : /\ op[p] = NoOp /\ at[p] = "idle" 
                         /\ todo[p] = {} /\ held[p] = {}
      /\ op \in [Txns -> Ops]
  BY NoOpFields DEF Init
<1>2. TypeOK
  BY <1>1 DEF Init, TypeOK, Roles, HasOwner
<1>3. LocksFit
  BY <1>1, NoOpFields DEF LocksFit, Staged, Locks, Kind, UserLocked
<1>4. Exclusive
  BY <1>1, NoOpFields DEF Exclusive, Shared
<1>5. \A p \in Txns : Known(p) /\ Stands(p)
  BY <1>1, NoOpFields DEF Known, Stands, Kind, UserLocked, Inserts
<1> QED
  BY <1>2, <1>3, <1>4, <1>5 DEF LockInv

LEMMA LockStep ==
  LockInv /\ [Next]_vars => LockInv'
<1> SUFFICES ASSUME LockInv, [Next]_vars PROVE LockInv'
  OBVIOUS
<1>1. ASSUME NEW p \in Txns, Acts(p) PROVE LockInv'
  <2>1. /\ TypeOK /\ LocksFit /\ Exclusive /\ \A q \in Txns : Known(q) /\ Stands(q)
        /\ LocalTypes
    BY DEF LockInv, TypeOK, LocalTypes
  <2>2. \A q \in Txns : Known(q)' /\ Stands(q)'
    BY <1>1, <2>1, KnownStep, KnownOthers, StandsOthers
  <2> QED
    BY <1>1, <2>1, <2>2, TypeStep, LocksStep, ExclusiveStep DEF LockInv
<1>2. (\E p \in Txns : Acts(p)) \/ UNCHANGED vars
  BY DEF Next, Acts
<1> QED
  BY <1>1, <1>2, LockStutter

(* Locks exclude each other, and what is read under them stays true, with  *)
(* all transactions that may overlap.                                      *)
THEOREM LocksHold ==
  Spec => []LockInv
BY LockInit, LockStep, PTL DEF Spec

(* TypeOK holds: in particular every membership refers to a group and to   *)
(* a user that exist (the CASCADE of a deleted user leaves no row          *)
(* behind).                                                                *)
THEOREM TypeCorrect ==
  Spec => []TypeOK
<1>1. LockInv => TypeOK
  BY DEF LockInv
<1> QED
  BY <1>1, LocksHold, PTL

LEMMA Facts ==
  ASSUME LockInv
  PROVE  /\ LocalTypes /\ TypeOK /\ LocksFit /\ Exclusive
         /\ \A p \in Txns : Staged(p) /\ Locks(p) /\ Known(p) /\ Stands(p)
BY DEF LockInv, TypeOK, LocalTypes, LocksFit

(* A commit of the services takes no active owner away from an             *)
(* organization that somebody else has locked.                             *)
LEMMA OwnerStays ==
  ASSUME LockInv, NEW p \in Txns, Commit(p),
         Kind(p) \notin AdminKinds, Covered(p),
         NEW g \in made, Group(g) \notin held[p],
         NEW v \in Users, ActiveOwner(g, v)
  PROVE  ActiveOwner(g, v)'
<1>1. /\ LocalTypes /\ TypeOK /\ LocksFit /\ Staged(p) /\ Locks(p) /\ Known(p)
      /\ g \in Groups
  BY Facts DEF TypeOK
<1>2. /\ at[p] = "commit" /\ Kind(p) \in MembershipKinds \cup AccountKinds
      /\ Kind(p) \in MembershipKinds => op[p].group \in Groups
  BY <1>1, Parties DEF Commit
<1>3. role[g][v] = "owner" /\ account[v] = "active"
  BY DEF ActiveOwner, Owns
<1>4. role'[g][v] = role[g][v]
  <2>1. SUFFICES ASSUME role'[g][v] # role[g][v] PROVE FALSE
    OBVIOUS
  <2>2. /\ v = Subject(p)
        /\ \/ Kind(p) \in {"role", "edit", "delete"} /\ Row(g, v) \in held[p]
           \/ Kind(p) = "create" /\ g = op[p].group
        /\ Kind(p) # "delete" => g = op[p].group
    BY <1>1, <2>1, CommitEffect
  <2>3. CASE Kind(p) = "role"
    BY <1>1, <1>2, <2>2, <2>3 DEF Locks, RowDone
  <2>4. CASE Kind(p) = "create"
    BY <1>1, <2>2, <2>4 DEF Known
  <2>5. CASE Kind(p) = "delete"
    BY <1>1, <1>2, <1>3, <2>2, <2>5 DEF Covered, OwnedBy, Owns
  <2> QED
    BY <2>2, <2>3, <2>4, <2>5 DEF AdminKinds
<1>5. account'[v] = "active"
  <2>1. SUFFICES ASSUME account'[v] # "active" PROVE FALSE
    OBVIOUS
  <2>2. v = Subject(p) /\ Kind(p) \in AccountKinds
    BY <1>1, <1>3, <2>1, CommitEffect
  <2>3. Kind(p) \in {"deactivate", "delete"}
    BY <1>1, <2>1, <2>2
      DEF Commit, AccountAfter, AccountKinds, AdminKinds, TypeOK
  <2> QED
    BY <1>1, <1>2, <1>3, <2>2, <2>3 DEF Covered, OwnedBy, Owns
<1> QED
  BY <1>3, <1>4, <1>5 DEF ActiveOwner, Owns

(* A user becomes an owner only by a transaction that makes this user      *)
(* one.                                                                    *)
LEMMA NoNewOwnership ==
  ASSUME LockInv, NEW p \in Txns, Commit(p),
         NEW u \in Users, ~(MakesOwner(op[p]) /\ Subject(p) = u),
         NEW g \in Groups, Owns(g, u)'
  PROVE  Owns(g, u)
<1>1. /\ LocalTypes /\ TypeOK /\ LocksFit
  BY Facts
<1>2. /\ Kind(p) \in MembershipKinds \cup AccountKinds
      /\ Kind(p) \in AccountKinds => op[p].role = "none"
  BY <1>1, Parties DEF Commit
<1>3. CASE role'[g][u] # role[g][u]
  <2>1. u = Subject(p) /\ op[p].role = "owner"
    BY <1>1, <1>3, CommitEffect DEF Owns
  <2> QED
    BY <1>2, <2>1 DEF MakesOwner, Kind
<1> QED
  BY <1>3 DEF Owns

(* What the services let through passes the triggers.                      *)
LEMMA TriggersAgree ==
  ASSUME LockInv, GroupsHaveOwner, NEW p \in Txns, Covered(p), Decided(p),
         at[p] \in {"guard", "commit"}, Kind(p) \notin AdminKinds
  PROVE  TriggersPass(p)
<1>1. /\ LocalTypes /\ TypeOK /\ LocksFit /\ Staged(p) /\ Locks(p)
      /\ Known(p) /\ Stands(p)
  BY Facts
<1>2. /\ Kind(p) \in MembershipKinds \cup AccountKinds
      /\ Kind(p) \in MembershipKinds => op[p].group \in Groups
      /\ Kind(p) \in AccountKinds => op[p].role = "none"
      /\ Subject(p) \in Users
  BY <1>1, Parties
<1>3. ASSUME NEW g \in made, NEW u \in Users, ActiveOwner(g, u), u # Subject(p)
      PROVE  RoleAfter(p)[g][u] = "owner" /\ AccountAfter(p)[u] = "active"
  <2>1. g \in Groups /\ role[g][u] = "owner" /\ account[u] = "active"
    BY <1>1, <1>3 DEF ActiveOwner, Owns, TypeOK
  <2>2. RoleAfter(p)[g][u] = "owner"
    BY <1>3, <2>1 DEF RoleAfter, Writes
  <2>3. AccountAfter(p)[u] = "active"
    BY <1>1, <1>3, <2>1 DEF AccountAfter, TypeOK
  <2> QED
    BY <2>2, <2>3
<1>4. ASSUME NEW g \in made, Succeeded(g, Subject(p))
      PROVE  \E u \in Users : /\ RoleAfter(p)[g][u] = "owner"
                              /\ AccountAfter(p)[u] = "active"
  <2>1. PICK v \in Users : ActiveOwner(g, v)
    BY <1>4 DEF GroupsHaveOwner, HasOwner
  <2>2. \E u \in Users \ {Subject(p)} : ActiveOwner(g, u)
    BY <1>2, <1>4, <2>1 DEF Succeeded, OtherOwner, ActiveOwner
  <2> QED
    BY <1>3, <2>2
<1>5. CASE Kind(p) = "role"
  <2>1. op[p].group \in made /\ Watched(p) = {op[p].group}
    BY <1>1, <1>5 DEF Known, Watched, MembershipKinds
  <2>2. CASE op[p].role # "owner"
    BY <1>4, <1>5, <2>1, <2>2 DEF TriggersPass, Decided
  <2>3. CASE op[p].role = "owner"
    <3>1. PICK v \in Users : ActiveOwner(op[p].group, v)
      BY <2>1 DEF GroupsHaveOwner, HasOwner
    <3>2. CASE v = Subject(p)
      <4>1. RoleAfter(p)[op[p].group][v] = "owner"
        BY <1>2, <1>5, <2>3, <3>2 DEF RoleAfter, Writes, MembershipKinds
      <4>2. AccountAfter(p)[v] = "active"
        BY <1>5, <3>1 DEF AccountAfter, ActiveOwner
      <4> QED
        BY <2>1, <4>1, <4>2 DEF TriggersPass
    <3>3. CASE v # Subject(p)
      BY <1>3, <2>1, <3>1, <3>3 DEF TriggersPass
    <3> QED
      BY <3>2, <3>3
  <2> QED
    BY <2>2, <2>3
<1>6. CASE Kind(p) = "create"
  <2>1. op[p].role = "owner" /\ account[Subject(p)] = "active"
    BY <1>1, <1>6 DEF Known, Decided
  <2>2. RoleAfter(p)[op[p].group][Subject(p)] = "owner"
    BY <1>2, <1>6, <2>1 DEF RoleAfter, Writes, MembershipKinds
  <2>3. AccountAfter(p)[Subject(p)] = "active"
    BY <1>6, <2>1 DEF AccountAfter
  <2> QED
    BY <1>2, <1>6, <2>2, <2>3 DEF TriggersPass, Watched, MembershipKinds
<1>7. CASE Kind(p) = "activate"
  BY <1>7 DEF TriggersPass, Watched, MembershipKinds
<1>8. CASE Kind(p) \in {"deactivate", "delete"}
  <2>1. AllSucceeded(p)
    BY <1>1, <1>8 DEF Decided, Checked
  <2>2. ASSUME NEW g \in Watched(p) PROVE g \in made /\ Succeeded(g, Subject(p))
    <3>1. g \in Groups /\ g \in made
      BY <1>1, <1>2, <1>8, <2>2
        DEF Watched, MembershipKinds, Known, OwnedBy, Owns, TypeOK
    <3>2. Owns(g, Subject(p)) => Group(g) \in held[p]
      BY <1>1, <1>2, <1>8, <3>1 DEF Covered, OwnedBy
    <3> QED
      BY <2>1, <3>1, <3>2 DEF AllSucceeded, Succeeded
  <2> QED
    BY <1>4, <2>2 DEF TriggersPass
<1> QED
  BY <1>2, <1>5, <1>6, <1>7, <1>8 DEF MembershipKinds, AccountKinds, AdminKinds

(* A commit that passes the triggers leaves every group with an active     *)
(* owner: the groups the triggers do not look at lose none.                *)
LEMMA OwnersStep ==
  ASSUME LockInv, GroupsHaveOwner, NEW p \in Txns, Commit(p), TriggersPass(p)
  PROVE  GroupsHaveOwner'
<1>1. /\ LocalTypes /\ TypeOK /\ LocksFit /\ Staged(p) /\ Locks(p)
      /\ Known(p) /\ Stands(p)
  BY Facts
<1>2. /\ Kind(p) \in MembershipKinds \cup AccountKinds
      /\ Kind(p) \in MembershipKinds => op[p].group \in Groups
      /\ Subject(p) \in Users /\ at[p] = "commit"
  BY <1>1, Parties DEF Commit
<1>3. role' = RoleAfter(p) /\ account' = AccountAfter(p)
  BY DEF Commit
<1>4. SUFFICES ASSUME NEW g \in made' PROVE HasOwner(g)'
  BY DEF GroupsHaveOwner
<1>5. CASE g \in Watched(p)
  BY <1>3, <1>5 DEF TriggersPass, HasOwner, ActiveOwner, Owns
<1>6. CASE g \notin Watched(p)
  <2>1. g \in made /\ g \in Groups
    BY <1>1, <1>6 DEF Commit, Watched, MembershipKinds, TypeOK
  <2>2. PICK v \in Users : ActiveOwner(g, v)
    BY <2>1 DEF GroupsHaveOwner, HasOwner
  <2>3. role[g][v] = "owner" /\ account[v] = "active"
    BY <2>2 DEF ActiveOwner, Owns
  <2>4. role'[g][v] = role[g][v]
    <3>1. SUFFICES ASSUME role'[g][v] # role[g][v] PROVE FALSE
      OBVIOUS
    <3>2. /\ v = Subject(p)
          /\ \/ Kind(p) \in {"role", "edit", "delete"} /\ Row(g, v) \in held[p]
             \/ Kind(p) = "create" /\ g = op[p].group
          /\ Kind(p) # "delete" => g = op[p].group
      BY <1>1, <2>1, <3>1, CommitEffect
    <3> QED
      BY <1>6, <2>1, <3>2 DEF Watched, MembershipKinds
  <2>5. account'[v] = "active"
    <3>1. SUFFICES ASSUME account'[v] # "active" PROVE FALSE
      OBVIOUS
    <3>2. v = Subject(p) /\ Kind(p) \in AccountKinds
      BY <1>1, <2>3, <3>1, CommitEffect
    <3>3. Kind(p) \in {"deactivate", "delete", "form"}
      BY <1>1, <1>3, <3>1, <3>2 DEF AccountAfter, AccountKinds, TypeOK
    <3>4. CASE Kind(p) = "delete"
      BY <1>1, <1>2, <1>6, <2>1, <2>3, <3>2, <3>4
        DEF Stands, Watched, MembershipKinds
    <3>5. CASE Kind(p) \in {"deactivate", "form"}
      BY <1>6, <2>1, <2>3, <3>2, <3>5
        DEF Watched, MembershipKinds, OwnedBy, Owns
    <3> QED
      BY <3>3, <3>4, <3>5
  <2> QED
    BY <2>3, <2>4, <2>5 DEF HasOwner, ActiveOwner, Owns
<1> QED
  BY <1>5, <1>6

LEMMA SeparateStep ==
  ASSUME LockInv, ~Overlap, Separate, NEW p \in Txns, Acts(p)
  PROVE  Separate'
<1>a. LocalTypes /\ LocalTypes' /\ Only(p)
  BY Facts, TypesStep
<1>b. \/ at[p] = "idle" /\ Apart(op'[p])
      \/ at[p] # "idle" /\ op'[p] = op[p]
      \/ at'[p] = "idle"
  <2> USE <1>a
<2>1. ASSUME NEW g \in Groups, NEW u \in Users, NEW r \in Roles,
            BeginRole(p, g, u, r)
      PROVE  \/ at[p] = "idle" /\ Apart(op'[p])
             \/ at[p] # "idle" /\ op'[p] = op[p]
             \/ at'[p] = "idle"
    <3>1. op'[p] = Membership("role", g, u, r)
      BY <2>1, <1>a DEF BeginRole, Begin, LocalTypes
    <3>2. at[p] = "idle" /\ Apart(Membership("role", g, u, r))
      BY <2>1 DEF BeginRole, Begin
    <3> QED
      BY ONLY <3>1, <3>2 DEF Apart
<2>2. ASSUME NEW g \in Groups, NEW u \in Users, NEW r \in Roles,
            BeginEdit(p, g, u, r)
      PROVE  \/ at[p] = "idle" /\ Apart(op'[p])
             \/ at[p] # "idle" /\ op'[p] = op[p]
             \/ at'[p] = "idle"
    <3>1. op'[p] = Membership("edit", g, u, r)
      BY <2>2, <1>a DEF BeginEdit, Begin, LocalTypes
    <3>2. at[p] = "idle" /\ Apart(Membership("edit", g, u, r))
      BY <2>2 DEF BeginEdit, Begin
    <3> QED
      BY ONLY <3>1, <3>2 DEF Apart
<2>3. ASSUME NEW g \in Groups, NEW u \in Users,
            BeginCreate(p, g, u)
      PROVE  \/ at[p] = "idle" /\ Apart(op'[p])
             \/ at[p] # "idle" /\ op'[p] = op[p]
             \/ at'[p] = "idle"
    <3>1. op'[p] = Membership("create", g, u, "owner")
      BY <2>3, <1>a DEF BeginCreate, Begin, LocalTypes
    <3>2. at[p] = "idle" /\ Apart(Membership("create", g, u, "owner"))
      BY <2>3 DEF BeginCreate, Begin
    <3> QED
      BY ONLY <3>1, <3>2 DEF Apart
<2>4. ASSUME NEW u \in Users,
            BeginDeactivate(p, u)
      PROVE  \/ at[p] = "idle" /\ Apart(op'[p])
             \/ at[p] # "idle" /\ op'[p] = op[p]
             \/ at'[p] = "idle"
    <3>1. op'[p] = Account("deactivate", u)
      BY <2>4, <1>a DEF BeginDeactivate, Begin, LocalTypes
    <3>2. at[p] = "idle" /\ Apart(Account("deactivate", u))
      BY <2>4 DEF BeginDeactivate, Begin
    <3> QED
      BY ONLY <3>1, <3>2 DEF Apart
<2>5. ASSUME NEW u \in Users,
            BeginActivate(p, u)
      PROVE  \/ at[p] = "idle" /\ Apart(op'[p])
             \/ at[p] # "idle" /\ op'[p] = op[p]
             \/ at'[p] = "idle"
    <3>1. op'[p] = Account("activate", u)
      BY <2>5, <1>a DEF BeginActivate, Begin, LocalTypes
    <3>2. at[p] = "idle" /\ Apart(Account("activate", u))
      BY <2>5 DEF BeginActivate, Begin
    <3> QED
      BY ONLY <3>1, <3>2 DEF Apart
<2>6. ASSUME NEW u \in Users,
            BeginDelete(p, u)
      PROVE  \/ at[p] = "idle" /\ Apart(op'[p])
             \/ at[p] # "idle" /\ op'[p] = op[p]
             \/ at'[p] = "idle"
    <3>1. op'[p] = Account("delete", u)
      BY <2>6, <1>a DEF BeginDelete, Begin, LocalTypes
    <3>2. at[p] = "idle" /\ Apart(Account("delete", u))
      BY <2>6 DEF BeginDelete, Begin
    <3> QED
      BY ONLY <3>1, <3>2 DEF Apart
<2>7. ASSUME NEW u \in Users,
            BeginForm(p, u)
      PROVE  \/ at[p] = "idle" /\ Apart(op'[p])
             \/ at[p] # "idle" /\ op'[p] = op[p]
             \/ at'[p] = "idle"
    <3>1. op'[p] = Account("form", u)
      BY <2>7, <1>a DEF BeginForm, Begin, LocalTypes
    <3>2. at[p] = "idle" /\ Apart(Account("form", u))
      BY <2>7 DEF BeginForm, Begin
    <3> QED
      BY ONLY <3>1, <3>2 DEF Apart
<2>8. CASE LockGroup(p)
    BY <2>8 DEF LockGroup, LocalTypes, Go, Take, End
<2>9. CASE LockRow(p)
    BY <2>9 DEF LockRow, LocalTypes, Go, Take, End
<2>10. CASE ChangeRole(p)
    BY <2>10 DEF ChangeRole, LocalTypes, Go, Take, End
<2>11. CASE EditMembership(p)
    BY <2>11 DEF EditMembership, LocalTypes, Go, Take, End
<2>12. CASE TakeKeys(p)
    BY <2>12 DEF TakeKeys, LocalTypes, Go, Take, End
<2>13. CASE CheckOwned(p)
    BY <2>13 DEF CheckOwned, LocalTypes, Go, Take, End
<2>14. CASE GroupsLocked(p)
    BY <2>14 DEF GroupsLocked, LocalTypes, Go, Take, End
<2>15. CASE LockUser(p)
    BY <2>15 DEF LockUser, LocalTypes, Go, Take, End
<2>16. CASE ReadOwned(p)
    BY <2>16 DEF ReadOwned, LocalTypes, Go, Take, End
<2>17. CASE CheckDeletion(p)
    BY <2>17 DEF CheckDeletion, LocalTypes, Go, Take, End
<2>18. CASE DeleteRow(p)
    BY <2>18 DEF DeleteRow, LocalTypes, Go, Take, End
<2>19. CASE RowsDeleted(p)
    BY <2>19 DEF RowsDeleted, LocalTypes, Go, Take, End
<2>20. CASE FireTriggers(p)
    BY <2>20 DEF FireTriggers, LocalTypes, Go, Take, End
<2>21. CASE Commit(p)
    BY <2>21 DEF Commit, LocalTypes, Go, Take, End
<2>22. CASE Rollback(p)
    BY <2>22 DEF Rollback, LocalTypes, Go, Take, End
<2> QED
    BY ONLY <2>1, <2>2, <2>3, <2>4, <2>5, <2>6, <2>7, <2>8, <2>9, <2>10,
       <2>11, <2>12, <2>13, <2>14, <2>15, <2>16, <2>17, <2>18, <2>19, <2>20,
       <2>21, <2>22, Acts(p)
      DEF Acts
<1>c. \A q, r \in Txns : Clash(op[q], op[r]) <=> Clash(op[r], op[q])
  BY DEF Clash
<1>d. \A q \in Txns \ {p} : op'[q] = op[q] /\ at'[q] = at[q]
  BY <1>a DEF Only
<1>e. SUFFICES ASSUME NEW q \in Txns, NEW r \in Txns, q # r,
                      at'[q] # "idle", at'[r] # "idle"
               PROVE  ~Clash(op'[q], op'[r])
  BY DEF Separate
<1>f. CASE q # p /\ r # p
  BY <1>d, <1>e, <1>f DEF Separate
<1>g. CASE q = p
  BY <1>b, <1>d, <1>e, <1>g DEF Separate, Apart
<1>h. CASE r = p
  <2>1. ~Clash(op'[r], op'[q])
    BY <1>b, <1>d, <1>e, <1>h DEF Separate, Apart
  <2> QED
    BY <2>1 DEF Clash
<1> QED
  BY <1>f, <1>g, <1>h

(* The locks of the transaction that retires an account.                   *)
LEMMA CoveredOwn ==
  ASSUME LockInv, NEW p \in Txns, Acts(p), Covered(p)
  PROVE  Covered(p)'
<1>a. LocalTypes /\ LocalTypes' /\ LocksFit /\ LockInv
  BY Facts, TypesStep
<1> USE <1>a, ConstantsAssumption, MembershipFields, AccountFields, NoOpFields,
        ResourceShape
    DEF MembershipKinds, AccountKinds, Roles, LocalTypes, Go, Take, End, rows
<1>1. ASSUME NEW g \in Groups, NEW u \in Users, NEW r \in Roles,
            BeginRole(p, g, u, r)
      PROVE  Covered(p)'
  <2>1. op'[p].kind \notin {"deactivate", "delete"}
    BY <1>1 DEF BeginRole, Begin
  <2> QED
    BY <2>1 DEF Covered, Kind
<1>2. ASSUME NEW g \in Groups, NEW u \in Users, NEW r \in Roles,
            BeginEdit(p, g, u, r)
      PROVE  Covered(p)'
  <2>1. op'[p].kind \notin {"deactivate", "delete"}
    BY <1>2 DEF BeginEdit, Begin
  <2> QED
    BY <2>1 DEF Covered, Kind
<1>3. ASSUME NEW g \in Groups, NEW u \in Users,
            BeginCreate(p, g, u)
      PROVE  Covered(p)'
  <2>1. op'[p].kind \notin {"deactivate", "delete"}
    BY <1>3 DEF BeginCreate, Begin
  <2> QED
    BY <2>1 DEF Covered, Kind
<1>4. ASSUME NEW u \in Users,
            BeginDeactivate(p, u)
      PROVE  Covered(p)'
  <2>0. Staged(p) /\ Locks(p) /\ Covered(p)
    BY <1>a, Facts
  <2> QED
    BY <1>4, <2>0
      DEF BeginDeactivate, Begin, Covered, OwnedBy, Owns, Staged, Kind,
          Subject
<1>5. ASSUME NEW u \in Users,
            BeginActivate(p, u)
      PROVE  Covered(p)'
  <2>1. op'[p].kind \notin {"deactivate", "delete"}
    BY <1>5 DEF BeginActivate, Begin
  <2> QED
    BY <2>1 DEF Covered, Kind
<1>6. ASSUME NEW u \in Users,
            BeginDelete(p, u)
      PROVE  Covered(p)'
  <2>0. Staged(p) /\ Locks(p) /\ Covered(p)
    BY <1>a, Facts
  <2> QED
    BY <1>6, <2>0
      DEF BeginDelete, Begin, Covered, OwnedBy, Owns, Staged, Kind, Subject
<1>7. ASSUME NEW u \in Users,
            BeginForm(p, u)
      PROVE  Covered(p)'
  <2>1. op'[p].kind \notin {"deactivate", "delete"}
    BY <1>7 DEF BeginForm, Begin
  <2> QED
    BY <2>1 DEF Covered, Kind
<1>8. CASE LockGroup(p)
  <2>0. Staged(p) /\ Locks(p) /\ Covered(p)
    BY <1>a, Facts
  <2>1. at[p] # "idle" /\ todo[p] # {}
    BY <1>8, <1>a, Parties DEF LockGroup
  <2>2. Least(todo[p]) \in todo[p] /\ Subject(p) \in Users
    BY <1>a, <2>1, Parties
  <2>3. at[p] = "row" /\ Kind(p) \in {"deactivate", "form"} =>
          Group(Least(todo[p])) \in held[p]
    BY <2>0 DEF Locks
  <2> QED
    BY <1>8, <2>0, <2>1, <2>2, <2>3
      DEF LockGroup, Covered, OwnedBy, Owns, Staged, Kind, Subject
<1>9. CASE LockRow(p)
  <2>0. Staged(p) /\ Locks(p) /\ Covered(p)
    BY <1>a, Facts
  <2>1. /\ op' = op /\ role' = role /\ at[p] = "row" /\ at'[p] = "groups"
        /\ todo'[p] = todo[p] \ {Least(todo[p])} /\ held[p] \subseteq held'[p]
    BY <1>9 DEF LockRow
  <2>2. ASSUME Kind(p) \in {"deactivate", "delete"}, NEW g \in Groups,
               Owns(g, Subject(p))
        PROVE  Group(g) \in held'[p] \/ g \in todo'[p]
    <3>1. Group(Least(todo[p])) \in held[p]
      BY <2>0, <2>1, <2>2 DEF Locks, Staged
    <3> QED
      BY <2>0, <2>1, <2>2, <3>1 DEF Covered, OwnedBy
  <2>3. Kind(p)' = Kind(p) /\ Subject(p)' = Subject(p)
    BY <2>1 DEF Kind, Subject
  <2>4. OwnedBy(Subject(p))' = OwnedBy(Subject(p))
    BY <2>1, <2>3 DEF OwnedBy, Owns
  <2> QED
    BY <2>1, <2>2, <2>3, <2>4 DEF Covered, OwnedBy
<1>10. CASE ChangeRole(p)
  <2>0. Staged(p) /\ Locks(p) /\ Covered(p)
    BY <1>a, Facts
  <2> QED
    BY <1>10, <2>0
      DEF ChangeRole, Covered, OwnedBy, Owns, Staged, Kind, Subject
<1>11. CASE EditMembership(p)
  <2>0. Staged(p) /\ Locks(p) /\ Covered(p)
    BY <1>a, Facts
  <2> QED
    BY <1>11, <2>0
      DEF EditMembership, Covered, OwnedBy, Owns, Staged, Kind, Subject
<1>12. CASE TakeKeys(p)
  <2>0. Staged(p) /\ Locks(p) /\ Covered(p)
    BY <1>a, Facts
  <2> QED
    BY <1>12, <2>0 DEF TakeKeys, Covered, OwnedBy, Owns, Staged, Kind, Subject
<1>13. CASE CheckOwned(p)
  <2>0. Staged(p) /\ Locks(p) /\ Covered(p)
    BY <1>a, Facts
  <2> QED
    BY <1>13, <2>0
      DEF CheckOwned, Covered, OwnedBy, Owns, Staged, Kind, Subject
<1>14. CASE GroupsLocked(p)
  <2>0. Staged(p) /\ Locks(p) /\ Covered(p)
    BY <1>a, Facts
  <2> QED
    BY <1>14, <2>0
      DEF GroupsLocked, Covered, OwnedBy, Owns, Staged, Kind, Subject
<1>15. CASE LockUser(p)
  <2>0. Staged(p) /\ Locks(p) /\ Covered(p)
    BY <1>a, Facts
  <2> QED
    BY <1>15, <2>0 DEF LockUser, Covered, OwnedBy, Owns, Staged, Kind, Subject
<1>16. CASE ReadOwned(p)
  <2>0. Staged(p) /\ Locks(p) /\ Covered(p)
    BY <1>a, Facts
  <2> QED
    BY <1>16, <2>0 DEF ReadOwned, Covered, OwnedBy, Owns, Staged, Kind, Subject
<1>17. CASE CheckDeletion(p)
  <2>0. Staged(p) /\ Locks(p) /\ Covered(p)
    BY <1>a, Facts
  <2> QED
    BY <1>17, <2>0
      DEF CheckDeletion, Covered, OwnedBy, Owns, Staged, Kind, Subject
<1>18. CASE DeleteRow(p)
  <2>0. Staged(p) /\ Locks(p) /\ Covered(p)
    BY <1>a, Facts
  <2>1. /\ op' = op /\ role' = role /\ at[p] = "rows" /\ at' = at
        /\ held[p] \subseteq held'[p]
    BY <1>18 DEF DeleteRow
  <2>2. Kind(p)' = Kind(p) /\ Subject(p)' = Subject(p)
    BY <2>1 DEF Kind, Subject
  <2>3. OwnedBy(Subject(p))' = OwnedBy(Subject(p))
    BY <2>1, <2>2 DEF OwnedBy, Owns
  <2> QED
    BY <2>0, <2>1, <2>2, <2>3 DEF Covered
<1>19. CASE RowsDeleted(p)
  <2>0. Staged(p) /\ Locks(p) /\ Covered(p)
    BY <1>a, Facts
  <2> QED
    BY <1>19, <2>0
      DEF RowsDeleted, Covered, OwnedBy, Owns, Staged, Kind, Subject
<1>20. CASE FireTriggers(p)
  <2>0. Staged(p) /\ Locks(p) /\ Covered(p)
    BY <1>a, Facts
  <2> QED
    BY <1>20, <2>0
      DEF FireTriggers, Covered, OwnedBy, Owns, Staged, Kind, Subject
<1>21. CASE Commit(p)
  <2>1. op'[p] = NoOp
    BY <1>21 DEF Commit
  <2>2. Kind(p)' = "none"
    BY <2>1 DEF Kind
  <2> QED
    BY <2>2 DEF Covered
<1>22. CASE Rollback(p)
  <2>1. op'[p] = NoOp
    BY <1>22 DEF Rollback
  <2>2. Kind(p)' = "none"
    BY <2>1 DEF Kind
  <2> QED
    BY <2>2 DEF Covered
<1> QED
  BY ONLY <1>1, <1>2, <1>3, <1>4, <1>5, <1>6, <1>7, <1>8, <1>9, <1>10,
     <1>11, <1>12, <1>13, <1>14, <1>15, <1>16, <1>17, <1>18, <1>19, <1>20,
     <1>21, <1>22, Acts(p)
    DEF Acts

(* No commit of others gives that account an organization.                 *)
LEMMA CoveredOthers ==
  ASSUME LockInv, Separate, NEW p \in Txns, Acts(p),
         NEW q \in Txns \ {p}, Covered(q)
  PROVE  Covered(q)'
<1>1. /\ LocalTypes /\ LocksFit /\ Only(p) /\ Staged(q)
      /\ UNCHANGED rows \/ Commit(p)
  BY Facts, TypesStep, Effect
<1>2. /\ op'[q] = op[q] /\ at'[q] = at[q] /\ todo'[q] = todo[q]
      /\ held'[q] = held[q]
  BY <1>1 DEF Only
<1>3. SUFFICES ASSUME Kind(q) \in {"deactivate", "delete"},
                      NEW g \in Groups, Owns(g, Subject(q))'
               PROVE  Owns(g, Subject(q))
  BY <1>2 DEF Covered, OwnedBy, Kind, Subject
<1>4. CASE UNCHANGED rows
  BY <1>2, <1>3, <1>4 DEF rows, Owns, Subject
<1>5. CASE Commit(p)
  <2>1. at[q] # "idle" /\ at[p] # "idle"
    BY <1>1, <1>3, <1>5 DEF Staged, Commit
  <2>2. Subject(q) \in Users /\ Subject(q)' = Subject(q)
    BY <1>1, <1>2, <2>1, Parties DEF Subject
  <2>3. ~(MakesOwner(op[p]) /\ Subject(p) = Subject(q))
    BY <1>3, <2>1 DEF Separate, Clash, Retires, Kind, Subject
  <2>4. Owns(g, Subject(q))' => role'[g][Subject(q)] = "owner"
    BY <2>2 DEF Owns
  <2> QED
    BY <1>3, <1>5, <2>2, <2>3, <2>4, NoNewOwnership DEF Owns
<1> QED
  BY <1>1, <1>4, <1>5

(* The checks of each operation.                                           *)
LEMMA DecidedOwn ==
  ASSUME LockInv, NEW p \in Txns, Acts(p), Decided(p)
  PROVE  Decided(p)'
<1>a. LocalTypes /\ LocalTypes' /\ LocksFit /\ LockInv
  BY Facts, TypesStep
<1> USE <1>a, ConstantsAssumption, MembershipFields, AccountFields, NoOpFields,
        ResourceShape
    DEF MembershipKinds, AccountKinds, AdminKinds, Roles, LocalTypes, Go,
       Take, End, rows
<1>1. ASSUME NEW g \in Groups, NEW u \in Users, NEW r \in Roles,
            BeginRole(p, g, u, r)
      PROVE  Decided(p)'
  <2>1. /\ op'[p] = Membership("role", g, u, r)
        /\ at'[p] \notin {"guard", "commit"} /\ UNCHANGED rows
    BY <1>1 DEF BeginRole, Begin
  <2>2. /\ at'[p] \notin {"guard", "commit"} /\ ~Checked(p)'
        /\ Kind(p)' = "create" => account[Subject(p)'] = "active"
    BY <1>1, <2>1 DEF BeginRole, Begin, Checked, Kind, Subject
  <2> QED
    BY <2>1, <2>2 DEF Decided, Kind, Subject
<1>2. ASSUME NEW g \in Groups, NEW u \in Users, NEW r \in Roles,
            BeginEdit(p, g, u, r)
      PROVE  Decided(p)'
  <2>1. /\ op'[p] = Membership("edit", g, u, r)
        /\ at'[p] \notin {"guard", "commit"} /\ UNCHANGED rows
    BY <1>2 DEF BeginEdit, Begin
  <2>2. /\ at'[p] \notin {"guard", "commit"} /\ ~Checked(p)'
        /\ Kind(p)' = "create" => account[Subject(p)'] = "active"
    BY <1>2, <2>1 DEF BeginEdit, Begin, Checked, Kind, Subject
  <2> QED
    BY <2>1, <2>2 DEF Decided, Kind, Subject
<1>3. ASSUME NEW g \in Groups, NEW u \in Users,
            BeginCreate(p, g, u)
      PROVE  Decided(p)'
  <2>1. /\ op'[p] = Membership("create", g, u, "owner")
        /\ at'[p] \notin {"guard", "commit"} /\ UNCHANGED rows
    BY <1>3 DEF BeginCreate, Begin
  <2>2. /\ at'[p] \notin {"guard", "commit"} /\ ~Checked(p)'
        /\ Kind(p)' = "create" => account[Subject(p)'] = "active"
    BY <1>3, <2>1 DEF BeginCreate, Begin, Checked, Kind, Subject
  <2> QED
    BY <2>1, <2>2 DEF Decided, Kind, Subject
<1>4. ASSUME NEW u \in Users,
            BeginDeactivate(p, u)
      PROVE  Decided(p)'
  <2>1. /\ op'[p] = Account("deactivate", u)
        /\ at'[p] \notin {"guard", "commit"} /\ UNCHANGED rows
    BY <1>4 DEF BeginDeactivate, Begin
  <2>2. /\ at'[p] \notin {"guard", "commit"} /\ ~Checked(p)'
        /\ Kind(p)' = "create" => account[Subject(p)'] = "active"
    BY <1>4, <2>1 DEF BeginDeactivate, Begin, Checked, Kind, Subject
  <2> QED
    BY <2>1, <2>2 DEF Decided, Kind, Subject
<1>5. ASSUME NEW u \in Users,
            BeginActivate(p, u)
      PROVE  Decided(p)'
  <2>1. /\ op'[p] = Account("activate", u) /\ at'[p] \notin {"guard", "commit"}
        /\ UNCHANGED rows
    BY <1>5 DEF BeginActivate, Begin
  <2>2. /\ at'[p] \notin {"guard", "commit"} /\ ~Checked(p)'
        /\ Kind(p)' = "create" => account[Subject(p)'] = "active"
    BY <1>5, <2>1 DEF BeginActivate, Begin, Checked, Kind, Subject
  <2> QED
    BY <2>1, <2>2 DEF Decided, Kind, Subject
<1>6. ASSUME NEW u \in Users,
            BeginDelete(p, u)
      PROVE  Decided(p)'
  <2>1. /\ op'[p] = Account("delete", u) /\ at'[p] \notin {"guard", "commit"}
        /\ UNCHANGED rows
    BY <1>6 DEF BeginDelete, Begin
  <2>2. /\ at'[p] \notin {"guard", "commit"} /\ ~Checked(p)'
        /\ Kind(p)' = "create" => account[Subject(p)'] = "active"
    BY <1>6, <2>1 DEF BeginDelete, Begin, Checked, Kind, Subject
  <2> QED
    BY <2>1, <2>2 DEF Decided, Kind, Subject
<1>7. ASSUME NEW u \in Users,
            BeginForm(p, u)
      PROVE  Decided(p)'
  <2>1. /\ op'[p] = Account("form", u) /\ at'[p] \notin {"guard", "commit"}
        /\ UNCHANGED rows
    BY <1>7 DEF BeginForm, Begin
  <2>2. /\ at'[p] \notin {"guard", "commit"} /\ ~Checked(p)'
        /\ Kind(p)' = "create" => account[Subject(p)'] = "active"
    BY <1>7, <2>1 DEF BeginForm, Begin, Checked, Kind, Subject
  <2> QED
    BY <2>1, <2>2 DEF Decided, Kind, Subject
<1>8. CASE LockGroup(p)
  <2>0. /\ Staged(p) /\ Locks(p) /\ Known(p) /\ Decided(p)
        /\ Kind(p)' = Kind(p) /\ Subject(p)' = Subject(p)
    BY <1>8, <1>a, Facts DEF LockGroup, Kind, Subject
  <2>1. at'[p] # "commit"
    BY <1>8, <2>0 DEF LockGroup
  <2>2. ~Checked(p)' /\ at'[p] \notin {"guard", "commit"} /\ account' = account
    BY <1>8, <2>0 DEF LockGroup, Checked
  <2> QED
    BY <2>0, <2>2 DEF Decided
<1>9. CASE LockRow(p)
  <2>0. /\ Staged(p) /\ Locks(p) /\ Known(p) /\ Decided(p)
        /\ Kind(p)' = Kind(p) /\ Subject(p)' = Subject(p)
    BY <1>9, <1>a, Facts DEF LockRow, Kind, Subject
  <2>1. at'[p] # "commit"
    BY <1>9, <2>0 DEF LockRow
  <2>2. AllSucceeded(p) => AllSucceeded(p)'
    BY <1>9, <2>0
      DEF LockRow, Succeeded, AllSucceeded, OtherOwner, ActiveOwner, Owns
  <2> QED
    BY <1>9, <2>0, <2>1, <2>2
      DEF LockRow, Decided, Checked, Staged, Succeeded, AllSucceeded,
          OtherOwner, ActiveOwner, Owns
<1>10. CASE ChangeRole(p)
  <2>0. /\ Staged(p) /\ Locks(p) /\ Known(p) /\ Decided(p)
        /\ Kind(p)' = Kind(p) /\ Subject(p)' = Subject(p)
    BY <1>10, <1>a, Facts DEF ChangeRole, Kind, Subject
  <2>1. at'[p] # "commit"
    BY <1>10, <2>0 DEF ChangeRole
  <2>2. AllSucceeded(p) => AllSucceeded(p)'
    BY <1>10, <2>0
      DEF ChangeRole, Succeeded, AllSucceeded, OtherOwner, ActiveOwner, Owns
  <2> QED
    BY <1>10, <2>0, <2>1, <2>2
      DEF ChangeRole, Decided, Checked, Staged, Succeeded, AllSucceeded,
          OtherOwner, ActiveOwner, Owns
<1>11. CASE EditMembership(p)
  <2>0. /\ Staged(p) /\ Locks(p) /\ Known(p) /\ Decided(p)
        /\ Kind(p)' = Kind(p) /\ Subject(p)' = Subject(p)
    BY <1>11, <1>a, Facts DEF EditMembership, Kind, Subject
  <2>1. at'[p] # "commit"
    BY <1>11, <2>0 DEF EditMembership
  <2>2. AllSucceeded(p) => AllSucceeded(p)'
    BY <1>11, <2>0
      DEF EditMembership, Succeeded, AllSucceeded, OtherOwner, ActiveOwner,
          Owns
  <2> QED
    BY <1>11, <2>0, <2>1, <2>2
      DEF EditMembership, Decided, Checked, Staged, Succeeded, AllSucceeded,
          OtherOwner, ActiveOwner, Owns
<1>12. CASE TakeKeys(p)
  <2>0. /\ Staged(p) /\ Locks(p) /\ Known(p) /\ Decided(p)
        /\ Kind(p)' = Kind(p) /\ Subject(p)' = Subject(p)
    BY <1>12, <1>a, Facts DEF TakeKeys, Kind, Subject
  <2>1. at'[p] # "commit"
    BY <1>12, <2>0 DEF TakeKeys
  <2>2. AllSucceeded(p) => AllSucceeded(p)'
    BY <1>12, <2>0
      DEF TakeKeys, Succeeded, AllSucceeded, OtherOwner, ActiveOwner, Owns
  <2> QED
    BY <1>12, <2>0, <2>1, <2>2
      DEF TakeKeys, Decided, Checked, Staged, Succeeded, AllSucceeded,
          OtherOwner, ActiveOwner, Owns
<1>13. CASE CheckOwned(p)
  <2>0. /\ Staged(p) /\ Locks(p) /\ Known(p) /\ Decided(p)
        /\ Kind(p)' = Kind(p) /\ Subject(p)' = Subject(p)
    BY <1>13, <1>a, Facts DEF CheckOwned, Kind, Subject
  <2>1. at'[p] # "commit"
    BY <1>13, <2>0 DEF CheckOwned
  <2>2. AllSucceeded(p) => AllSucceeded(p)'
    BY <1>13, <2>0
      DEF CheckOwned, Succeeded, AllSucceeded, OtherOwner, ActiveOwner, Owns
  <2> QED
    BY <1>13, <2>0, <2>1, <2>2
      DEF CheckOwned, Decided, Checked, Staged, Succeeded, AllSucceeded,
          OtherOwner, ActiveOwner, Owns
<1>14. CASE GroupsLocked(p)
  <2>0. /\ Staged(p) /\ Locks(p) /\ Known(p) /\ Decided(p)
        /\ Kind(p)' = Kind(p) /\ Subject(p)' = Subject(p)
    BY <1>14, <1>a, Facts DEF GroupsLocked, Kind, Subject
  <2>1. at'[p] # "commit"
    BY <1>14, <2>0 DEF GroupsLocked
  <2>2. AllSucceeded(p) => AllSucceeded(p)'
    BY <1>14, <2>0
      DEF GroupsLocked, Succeeded, AllSucceeded, OtherOwner, ActiveOwner,
          Owns
  <2> QED
    BY <1>14, <2>0, <2>1, <2>2
      DEF GroupsLocked, Decided, Checked, Staged, Succeeded, AllSucceeded,
          OtherOwner, ActiveOwner, Owns
<1>15. CASE LockUser(p)
  <2>0. /\ Staged(p) /\ Locks(p) /\ Known(p) /\ Decided(p)
        /\ Kind(p)' = Kind(p) /\ Subject(p)' = Subject(p)
    BY <1>15, <1>a, Facts DEF LockUser, Kind, Subject
  <2>1. at'[p] # "commit"
    BY <1>15, <2>0 DEF LockUser
  <2>2. AllSucceeded(p) => AllSucceeded(p)'
    BY <1>15, <2>0
      DEF LockUser, Succeeded, AllSucceeded, OtherOwner, ActiveOwner, Owns
  <2> QED
    BY <1>15, <2>0, <2>1, <2>2
      DEF LockUser, Decided, Checked, Staged, Succeeded, AllSucceeded,
          OtherOwner, ActiveOwner, Owns
<1>16. CASE ReadOwned(p)
  <2>0. /\ Staged(p) /\ Locks(p) /\ Known(p) /\ Decided(p)
        /\ Kind(p)' = Kind(p) /\ Subject(p)' = Subject(p)
    BY <1>16, <1>a, Facts DEF ReadOwned, Kind, Subject
  <2>1. at'[p] # "commit"
    BY <1>16, <2>0 DEF ReadOwned
  <2>2. AllSucceeded(p) => AllSucceeded(p)'
    BY <1>16, <2>0
      DEF ReadOwned, Succeeded, AllSucceeded, OtherOwner, ActiveOwner, Owns
  <2> QED
    BY <1>16, <2>0, <2>1, <2>2
      DEF ReadOwned, Decided, Checked, Staged, Succeeded, AllSucceeded,
          OtherOwner, ActiveOwner, Owns
<1>17. CASE CheckDeletion(p)
  <2>0. /\ Staged(p) /\ Locks(p) /\ Known(p) /\ Decided(p)
        /\ Kind(p)' = Kind(p) /\ Subject(p)' = Subject(p)
    BY <1>17, <1>a, Facts DEF CheckDeletion, Kind, Subject
  <2>1. at'[p] # "commit"
    BY <1>17, <2>0 DEF CheckDeletion
  <2>2. AllSucceeded(p) => AllSucceeded(p)'
    BY <1>17, <2>0
      DEF CheckDeletion, Succeeded, AllSucceeded, OtherOwner, ActiveOwner,
          Owns
  <2> QED
    BY <1>17, <2>0, <2>1, <2>2
      DEF CheckDeletion, Decided, Checked, Staged, Succeeded, AllSucceeded,
          OtherOwner, ActiveOwner, Owns
<1>18. CASE DeleteRow(p)
  <2>0. /\ Staged(p) /\ Locks(p) /\ Known(p) /\ Decided(p)
        /\ Kind(p)' = Kind(p) /\ Subject(p)' = Subject(p)
    BY <1>18, <1>a, Facts DEF DeleteRow, Kind, Subject
  <2>1. at'[p] # "commit"
    BY <1>18, <2>0 DEF DeleteRow
  <2>2. AllSucceeded(p) => AllSucceeded(p)'
    BY <1>18, <2>0
      DEF DeleteRow, Succeeded, AllSucceeded, OtherOwner, ActiveOwner, Owns
  <2> QED
    BY <1>18, <2>0, <2>1, <2>2
      DEF DeleteRow, Decided, Checked, Staged, Succeeded, AllSucceeded,
          OtherOwner, ActiveOwner, Owns
<1>19. CASE RowsDeleted(p)
  <2>0. /\ Staged(p) /\ Locks(p) /\ Known(p) /\ Decided(p)
        /\ Kind(p)' = Kind(p) /\ Subject(p)' = Subject(p)
    BY <1>19, <1>a, Facts DEF RowsDeleted, Kind, Subject
  <2>1. at'[p] # "commit"
    BY <1>19, <2>0 DEF RowsDeleted
  <2>2. AllSucceeded(p) => AllSucceeded(p)'
    BY <1>19, <2>0
      DEF RowsDeleted, Succeeded, AllSucceeded, OtherOwner, ActiveOwner,
          Owns
  <2> QED
    BY <1>19, <2>0, <2>1, <2>2
      DEF RowsDeleted, Decided, Checked, Staged, Succeeded, AllSucceeded,
          OtherOwner, ActiveOwner, Owns
<1>20. CASE FireTriggers(p)
  <2>0. /\ Staged(p) /\ Locks(p) /\ Known(p) /\ Decided(p)
        /\ Kind(p)' = Kind(p) /\ Subject(p)' = Subject(p)
    BY <1>20, <1>a, Facts DEF FireTriggers, Kind, Subject
  <2>1. /\ TriggersPass(p) /\ op' = op /\ held' = held /\ role' = role
        /\ account' = account
    BY <1>20 DEF FireTriggers
  <2>2. Watched(p)' = Watched(p)
    BY <2>1 DEF Watched, OwnedBy, Owns, Kind, Subject
  <2>3. RoleAfter(p)' = RoleAfter(p)
    BY <2>1 DEF RoleAfter, Writes, Kind, Subject
  <2>4. AccountAfter(p)' = AccountAfter(p)
    BY <2>1 DEF AccountAfter, Kind, Subject
  <2>5. TriggersPass(p)'
    BY <2>1, <2>2, <2>3, <2>4 DEF TriggersPass
  <2>6. AllSucceeded(p) => AllSucceeded(p)'
    BY <2>0, <2>1 DEF AllSucceeded, Succeeded, OtherOwner, ActiveOwner, Owns
  <2> QED
    BY <1>20, <2>0, <2>1, <2>5, <2>6
      DEF FireTriggers, Decided, Checked, Staged, Succeeded, OtherOwner,
          ActiveOwner, Owns
<1>21. CASE Commit(p)
  <2>1. op'[p] = NoOp
    BY <1>21 DEF Commit
  <2>2. Kind(p)' = "none"
    BY <2>1 DEF Kind
  <2> QED
    BY <2>2 DEF Decided, Checked
<1>22. CASE Rollback(p)
  <2>1. op'[p] = NoOp
    BY <1>22 DEF Rollback
  <2>2. Kind(p)' = "none"
    BY <2>1 DEF Kind
  <2> QED
    BY <2>2 DEF Decided, Checked
<1> QED
  BY ONLY <1>1, <1>2, <1>3, <1>4, <1>5, <1>6, <1>7, <1>8, <1>9, <1>10,
     <1>11, <1>12, <1>13, <1>14, <1>15, <1>16, <1>17, <1>18, <1>19, <1>20,
     <1>21, <1>22, Acts(p)
    DEF Acts

(* A commit of another transaction does not undo what was checked.         *)
LEMMA DecidedOthers ==
  ASSUME LockInv, Separate, GroupsHaveOwner, NEW p \in Txns, Acts(p), Covered(p),
         NEW q \in Txns \ {p}, Decided(q), Covered(q)
  PROVE  Decided(q)'
<1>1. /\ LocalTypes /\ TypeOK /\ LocksFit /\ Only(p) /\ Staged(q) /\ Locks(q)
      /\ Known(q) /\ Exclusive
      /\ UNCHANGED rows \/ Commit(p)
  BY Facts, TypesStep, Effect
<1>2. /\ op'[q] = op[q] /\ at'[q] = at[q] /\ todo'[q] = todo[q]
      /\ held'[q] = held[q]
  BY <1>1 DEF Only
<1>3. /\ /\ Kind(q)' = Kind(q) /\ Subject(q)' = Subject(q)
      /\ Checked(q)' = Checked(q)
  BY <1>2 DEF Kind, Subject, Checked
<1>4. CASE UNCHANGED rows
  <2>1. role' = role /\ account' = account
    BY <1>4 DEF rows
  <2>2. Watched(q)' = Watched(q)
    BY <1>2, <2>1 DEF Watched, OwnedBy, Owns, Kind, Subject
  <2>3. RoleAfter(q)' = RoleAfter(q)
    BY <1>2, <2>1 DEF RoleAfter, Writes, Kind, Subject
  <2>4. AccountAfter(q)' = AccountAfter(q)
    BY <1>2, <2>1 DEF AccountAfter, Kind, Subject
  <2>5. TriggersPass(q) => TriggersPass(q)'
    BY <2>2, <2>3, <2>4 DEF TriggersPass
  <2>6. \A g : Succeeded(g, Subject(q)) => Succeeded(g, Subject(q))'
    BY <1>3, <2>1 DEF Succeeded, OtherOwner, ActiveOwner, Owns
  <2>7. AllSucceeded(q) => AllSucceeded(q)'
    BY <1>2, <2>6 DEF AllSucceeded
  <2> QED
    BY <1>2, <1>3, <2>1, <2>5, <2>6, <2>7 DEF Decided
<1>5. CASE Commit(p) /\ at[q] = "idle"
  <2>1. Kind(q) = "none"
    BY <1>1, <1>5, IdleHoldsNothing
  <2> QED
    BY <1>3, <2>1 DEF Decided, Checked, AdminKinds
<1>6. CASE Commit(p) /\ at[q] # "idle"
  <2>1. /\ at[p] = "commit" /\ Subject(q) \in Users /\ Staged(p) /\ Locks(p)
        /\ Kind(q) \in MembershipKinds => op[q].group \in Groups
    BY <1>1, <1>6, Parties DEF Commit, LocksFit
  <2>2. ~Clash(op[p], op[q])
    BY <1>6, <2>1 DEF Separate
  <2>3. Kind(p) \notin AdminKinds /\ Kind(q) \notin AdminKinds
    BY <2>2 DEF Clash, Kind
  <2>4. ASSUME NEW g \in Groups, Group(g) \in held[q],
               NEW v \in Users, ActiveOwner(g, v)
        PROVE  ActiveOwner(g, v)'
    <3>1. Group(g) \notin held[p] /\ g \in made
      BY <1>1, <2>4 DEF Exclusive, Known
    <3> QED
      BY <1>6, <2>3, <2>4, <3>1, OwnerStays
  <2>5. ASSUME NEW g \in Groups, Group(g) \in held[q], Succeeded(g, Subject(q)),
               Owns(g, Subject(q))' => Owns(g, Subject(q))
        PROVE  Succeeded(g, Subject(q))'
    BY <1>3, <2>4, <2>5 DEF Succeeded, OtherOwner
  <2>6. ASSUME Kind(q) = "role", at[q] \in {"guard", "commit"},
               op[q].role # "owner"
        PROVE  Succeeded(op[q].group, Subject(q))'
    <3>1. /\ op[q].group \in Groups /\ Group(op[q].group) \in held[q]
          /\ Row(op[q].group, Subject(q)) \in held[q]
      BY <1>1, <2>1, <2>6 DEF MembershipKinds, Locks, RowDone
    <3>2. Row(op[q].group, Subject(q)) \notin held[p] /\ op[q].group \in made
      BY <1>1, <2>6, <3>1 DEF Exclusive, Known
    <3>3. role'[op[q].group][Subject(q)] = role[op[q].group][Subject(q)]
      <4>1. ~(Kind(p) = "create" /\ op[q].group = op[p].group)
        BY <3>2, Facts DEF Known
      <4> QED
        BY <1>1, <1>6, <2>1, <3>1, <3>2, <4>1, CommitEffect
    <3>4. Owns(op[q].group, Subject(q))' => Owns(op[q].group, Subject(q))
      BY <1>2, <1>3, <3>3 DEF Owns
    <3>5. Succeeded(op[q].group, Subject(q))
      BY <2>6 DEF Decided
    <3> QED
      BY <1>2, <1>3, <2>4, <3>1, <3>3, <3>5 DEF Succeeded, OtherOwner, Owns
  <2>7. Retires(op[q]) => ~(MakesOwner(op[p]) /\ Subject(p) = Subject(q))
    BY <2>2 DEF Clash, Subject
  <2>8. ASSUME Checked(q) PROVE AllSucceeded(q)'
    <3>1. Retires(op[q])
      BY <2>8 DEF Checked, Retires, Kind
    <3>2. ASSUME NEW g \in Groups, Owns(g, Subject(q))' PROVE Owns(g, Subject(q))
      <4>1. role'[g][Subject(q)] = "owner"
        BY <1>3, <3>2 DEF Owns
      <4> QED
        BY <1>6, <2>1, <2>7, <3>1, <4>1, NoNewOwnership DEF Owns
    <3>3. AllSucceeded(q)
      BY <2>8 DEF Decided
    <3> QED
      BY <1>2, <2>5, <3>2, <3>3 DEF AllSucceeded
  <2>9. ASSUME Kind(q) = "create" PROVE account'[Subject(q)] = "active"
    <3>1. account[Subject(q)] = "active" /\ MakesOwner(op[q])
      BY <1>1, <2>9 DEF Decided, Known, MakesOwner, MembershipKinds, Kind
    <3>2. ~(Retires(op[p]) /\ Subject(p) = Subject(q))
      BY <2>2, <3>1 DEF Clash, Subject
    <3>3. SUFFICES ASSUME account'[Subject(q)] # "active" PROVE FALSE
      OBVIOUS
    <3>4. Subject(p) = Subject(q) /\ Kind(p) \in AccountKinds
      BY <1>1, <1>6, <2>1, <3>1, <3>3, CommitEffect
    <3>5. Kind(p) = "activate"
      BY <3>2, <3>4 DEF AccountKinds, Retires, Kind
    <3> QED
      BY <1>1, <1>6, <2>1, <3>3, <3>4, <3>5 DEF Commit, AccountAfter, TypeOK
  <2> QED
    BY <1>2, <1>3, <2>3, <2>6, <2>8, <2>9 DEF Decided
<1> QED
  BY <1>1, <1>4, <1>5, <1>6

LEMMA OwnInit ==
  Init => OwnInv
<1> SUFFICES ASSUME Init PROVE OwnInv
  OBVIOUS
<1>1. \A p \in Txns : Kind(p) = "none" /\ at[p] = "idle"
  BY NoOpFields DEF Init, Kind
<1>2. LockInv
  BY LockInit
<1>3. Separate
  BY <1>1 DEF Separate
<1>4. GroupsHaveOwner
  BY DEF Init, GroupsHaveOwner
<1>5. \A p \in Txns : Covered(p) /\ Decided(p)
  BY <1>1 DEF Covered, Decided, Checked, AdminKinds
<1> QED
  BY <1>2, <1>3, <1>4, <1>5 DEF OwnInv

LEMMA OwnStutter ==
  ASSUME OwnInv, UNCHANGED vars
  PROVE  OwnInv'
<1>1. UNCHANGED <<made, role, account, op, at, todo, held>>
  BY DEF vars, rows
<1>2. LockInv'
  BY LockStutter DEF OwnInv
<1>3. Separate' /\ GroupsHaveOwner'
  BY <1>1 DEF OwnInv, Separate, GroupsHaveOwner, HasOwner, ActiveOwner, Owns
<1>4. ASSUME NEW p \in Txns PROVE Covered(p)'
  BY <1>1 DEF OwnInv, Covered, OwnedBy, Owns, Kind, Subject
<1>5. ASSUME NEW p \in Txns PROVE Decided(p)'
  <2>1. Decided(p)
    BY DEF OwnInv
  <2>2. /\ /\ Kind(p)' = Kind(p) /\ Subject(p)' = Subject(p)
        /\ Checked(p)' = Checked(p)
    BY <1>1 DEF Kind, Subject, Checked
  <2>3. Watched(p)' = Watched(p) /\ RoleAfter(p)' = RoleAfter(p)
        /\ AccountAfter(p)' = AccountAfter(p)
    BY <1>1
      DEF Watched, OwnedBy, RoleAfter, Writes, AccountAfter, Owns, Kind,
          Subject
  <2>4. TriggersPass(p) => TriggersPass(p)'
    BY <2>3 DEF TriggersPass
  <2>5. \A g : Succeeded(g, Subject(p)) => Succeeded(g, Subject(p))'
    BY <1>1, <2>2 DEF Succeeded, OtherOwner, ActiveOwner, Owns
  <2>6. AllSucceeded(p) => AllSucceeded(p)'
    BY <1>1, <2>5 DEF AllSucceeded
  <2> QED
    BY <1>1, <2>1, <2>2, <2>4, <2>5, <2>6 DEF Decided
<1> QED
  BY <1>2, <1>3, <1>4, <1>5 DEF OwnInv

LEMMA OwnStep ==
  ASSUME ~Overlap
  PROVE  OwnInv /\ [Next]_vars => OwnInv'
<1> SUFFICES ASSUME OwnInv, [Next]_vars PROVE OwnInv'
  OBVIOUS
<1>1. ASSUME NEW p \in Txns, Acts(p) PROVE OwnInv'
  <2>1. /\ LockInv /\ Separate /\ GroupsHaveOwner
        /\ \A q \in Txns : Covered(q) /\ Decided(q)
    BY DEF OwnInv
  <2>2. LockInv'
    <3>1. Next
      BY <1>1 DEF Acts, Next
    <3> QED
      BY <2>1, <3>1, LockStep
  <2>3. \A q \in Txns : Covered(q)' /\ Decided(q)'
    BY <1>1, <2>1, CoveredOwn, CoveredOthers, DecidedOwn, DecidedOthers
  <2>4. GroupsHaveOwner'
    <3>1. CASE UNCHANGED rows
      BY <2>1, <3>1 DEF rows, GroupsHaveOwner, HasOwner, ActiveOwner, Owns
    <3>2. CASE Commit(p)
      <4>1. TriggersPass(p)
        BY <2>1, <3>2, TriggersAgree DEF Commit, Decided
      <4> QED
        BY <2>1, <3>2, <4>1, OwnersStep
    <3> QED
      BY <1>1, <2>1, <3>1, <3>2, Facts, Effect
  <2> QED
    BY <1>1, <2>1, <2>2, <2>3, <2>4, SeparateStep DEF OwnInv
<1>2. (\E p \in Txns : Acts(p)) \/ UNCHANGED vars
  BY DEF Next, Acts
<1> QED
  BY <1>1, <1>2, OwnStutter

(* OwnInv is invariant as long as nothing overlaps that the locks do not   *)
(* keep apart.                                                             *)
THEOREM Inductive ==
  ASSUME ~Overlap
  PROVE  Spec => []OwnInv
BY OwnInit, OwnStep, PTL DEF Spec

(* Every group organization has an owner whose account is active, for any  *)
(* number of concurrent transactions, users and groups.                    *)
THEOREM OwnersRemain ==
  ASSUME ~Overlap
  PROVE  Spec => []GroupsHaveOwner
<1>1. OwnInv => GroupsHaveOwner
  BY DEF OwnInv
<1> QED
  BY <1>1, Inductive, PTL

(* What change_membership_role, remove_membership, the deactivation and    *)
(* the deletion of an account let through is never refused by a deferred   *)
(* trigger.                                                                *)
THEOREM TriggersNeverNeeded ==
  ASSUME ~Overlap
  PROVE  Spec => []ServicesRefuseFirst
<1>1. OwnInv => ServicesRefuseFirst
  <2>1. SUFFICES ASSUME OwnInv, NEW p \in Txns, at[p] = "guard",
                        Kind(p) \in {"role", "deactivate", "delete"}
                 PROVE  TriggersPass(p)
    BY DEF ServicesRefuseFirst
  <2>2. Kind(p) \notin AdminKinds
    BY <2>1 DEF AdminKinds
  <2> QED
    BY <2>1, <2>2, TriggersAgree DEF OwnInv
<1> QED
  BY <1>1, Inductive, PTL

(* A set of numbers in a finite set, with a greater one for each, is       *)
(* empty.                                                                  *)
LEMMA NoAscent ==
  ASSUME NEW G, IsFiniteSet(G), G \subseteq Nat,
         NEW M \in SUBSET G, \A m \in M : \E n \in M : m < n
  PROVE  M = {}
<1>1. SUFFICES ASSUME M # {} PROVE FALSE
  OBVIOUS
<1> DEFINE Above(m) == {g \in G : m < g}
<1>2. \A m \in M : IsFiniteSet(Above(m)) /\ Cardinality(Above(m)) \in Nat
  BY FS_Subset, FS_CardinalityType
<1>3. PICK c \in {Cardinality(Above(m)) : m \in M} :
          \A d \in {Cardinality(Above(m)) : m \in M} : c <= d
  <2> HIDE DEF Above
  <2>1. {Cardinality(Above(m)) : m \in M} \in SUBSET Nat
    BY <1>2
  <2>2. {Cardinality(Above(m)) : m \in M} # {}
    BY <1>1
  <2> QED
    BY <2>1, <2>2, NatLeast
<1>4. PICK m \in M : c = Cardinality(Above(m))
  BY <1>3
<1>5. PICK n \in M : m < n
  BY <1>4
<1>6. Above(n) \subseteq Above(m) /\ n \in Above(m) /\ n \notin Above(n)
  <2>1. m \in Nat /\ n \in Nat /\ n \in G
    OBVIOUS
  <2>2. ASSUME NEW g \in G, n < g PROVE m < g
    <3>1. g \in Nat
      OBVIOUS
    <3> QED
      BY <1>5, <2>1, <2>2, <3>1
  <2>3. Above(n) \subseteq Above(m)
    BY <2>2
  <2>4. n \in Above(m)
    BY <1>5, <2>1
  <2>5. n \notin Above(n)
    BY <2>1
  <2> QED
    BY <2>3, <2>4, <2>5
<1>7. Cardinality(Above(n)) < Cardinality(Above(m))
  <2>1. /\ Cardinality(Above(n)) <= Cardinality(Above(m))
        /\ Cardinality(Above(n)) = Cardinality(Above(m)) => Above(n) = Above(m)
    BY <1>2, <1>6, FS_Subset
  <2>2. Above(n) # Above(m)
    BY <1>6
  <2> HIDE DEF Above
  <2>3. Cardinality(Above(n)) \in Nat /\ Cardinality(Above(m)) \in Nat
    BY <1>2
  <2> QED
    BY <2>1, <2>2, <2>3
<1>8. Cardinality(Above(m)) <= Cardinality(Above(n))
  BY <1>3, <1>4
<1> HIDE DEF Above
<1> QED
  BY <1>2, <1>7, <1>8

(* Who may hold what.                                                      *)
LEMMA Holders ==
  ASSUME LockInv, NEW p \in Txns
  PROVE  /\ \A u \in Users : User(u) \in held[p] =>
               u = Subject(p) /\ UserLocked(p)
         /\ \A g \in Groups, u \in Users : Row(g, u) \in held[p] =>
               u = Subject(p)
         /\ \A g \in Groups : Group(g) \in held[p] =>
               Kind(p) \in {"role", "deactivate", "delete", "form"}
         /\ Shared(p) # {} => at[p] \in {"guard", "commit"}
<1>1. \A x \in held[p] : Owned(p, x)
  BY Facts DEF Locks
<1>2. Shared(p) # {} => at[p] \in {"guard", "commit"}
  BY DEF Shared
<1> QED
  BY <1>1, <1>2, ResourceShape DEF Owned

(* Where a transaction may wait, and for what.                             *)
LEMMA Waiting ==
  ASSUME LockInv, NEW p \in Txns, NEW q \in Txns, Waits(p, q)
  PROVE  /\ at[p] \in {"groups", "row", "rows", "user", "keys"}
         /\ at[p] \in {"groups", "row", "rows"} =>
               /\ todo[p] # {}
               /\ Least(todo[p]) \in Groups /\ Least(todo[p]) \in todo[p]
         /\ Subject(p) \in Users /\ Kind(p) \in MembershipKinds \cup AccountKinds
<1>1. LocalTypes /\ LocksFit /\ Staged(p) /\ Locks(p)
  BY Facts
<1>2. at[p] \in {"groups", "row", "rows", "user", "keys"}
  BY DEF Waits, Wanted
<1>3. at[p] \in {"groups", "row", "rows"} => todo[p] # {}
  BY DEF Waits, Wanted
<1> QED
  BY <1>1, <1>2, <1>3, Parties

(* In a circle without two transactions that retire one account, all wait  *)
(* for an organization: who has a membership row or a user does not wait.  *)
LEMMA OnlyGroupsWait ==
  ASSUME LockInv, Separate, NEW S \in SUBSET Txns, Circle(S),
         \A p, q \in S : p # q /\ Subject(p) = Subject(q) =>
             ~(Retires(op[p]) /\ Retires(op[q])),
         NEW p \in S
  PROVE  at[p] = "groups"
<1> DEFINE Ok(r) == Kind(r) \in {"role", "create", "activate",
                                  "deactivate", "delete"}
<1>1. \A r \in Txns : Staged(r) /\ Locks(r) /\ Known(r)
  BY Facts
<1>2. \A r \in S : \E q \in S \ {r} : Waits(r, q)
  BY DEF Circle
<1>3. ASSUME NEW r \in S
      PROVE  /\ at[r] \in {"groups", "row", "rows", "user", "keys"}
             /\ at[r] \in {"groups", "row", "rows"} =>
                   todo[r] # {} /\ Least(todo[r]) \in Groups
             /\ Subject(r) \in Users /\ Kind(r) \in MembershipKinds \cup AccountKinds
  BY <1>2, Waiting
<1>4. ASSUME NEW r \in S PROVE Ok(r)
  <2>1. PICK q \in S \ {r} : Waits(r, q)
    BY <1>2
  <2>2. ~Clash(op[r], op[q])
    BY <1>3, <2>1 DEF Separate
  <2> QED
    BY <1>3, <2>2 DEF Clash, Kind, MembershipKinds, AccountKinds, AdminKinds
<1>5. ASSUME NEW r \in S PROVE Shared(r) = {}
  BY <1>3, Holders
<1>6. ASSUME NEW r \in S, NEW u \in Users, User(u) \in held[r]
      PROVE  u = Subject(r) /\ Kind(r) = "delete" /\ at[r] = "rows"
  BY <1>3, <1>4, <1>6, Holders DEF UserLocked
<1>7. ASSUME NEW r \in S PROVE at[r] # "rows"
  <2>1. SUFFICES ASSUME at[r] = "rows" PROVE FALSE
    OBVIOUS
  <2>2. Kind(r) = "delete"
    BY <1>1, <1>4, <2>1 DEF Staged
  <2>3. PICK q \in S \ {r} : Row(Least(todo[r]), Subject(r)) \in held[q]
    BY <1>2, <1>3, <1>5, <2>1 DEF Waits, Wanted
  <2>4. Subject(q) = Subject(r)
    BY <1>3, <2>1, <2>3, Holders
  <2>5. Kind(q) \in {"deactivate", "delete"}
    <3>1. CASE Kind(q) = "role"
      <4>1. RowDone(q)
        BY <1>1, <1>3, <2>1, <2>3, <2>4, <3>1 DEF Locks
      <4> QED
        BY <1>1, <1>3, <3>1, <4>1 DEF RowDone, Staged
    <3>2. CASE Kind(q) \in {"create", "activate"}
      BY <1>1, <1>3, <2>1, <2>3, <2>4, <3>2 DEF Locks
    <3> QED
      BY <1>4, <3>1, <3>2
  <2> QED
    BY <2>2, <2>3, <2>4, <2>5 DEF Retires, Kind
<1>8. ASSUME NEW r \in S PROVE at[r] \notin {"user", "keys"}
  <2>1. SUFFICES ASSUME at[r] \in {"user", "keys"} PROVE FALSE
    OBVIOUS
  <2>2. at[r] = "keys" => Keys(r) = {User(Subject(r))}
    BY <1>4 DEF Keys
  <2>3. PICK q \in S \ {r} : User(Subject(r)) \in held[q]
    BY <1>2, <1>5, <2>1, <2>2 DEF Waits, Wanted
  <2> QED
    BY <1>3, <1>6, <1>7, <2>3
<1>9. ASSUME NEW r \in S PROVE at[r] # "row"
  <2>1. SUFFICES ASSUME at[r] = "row" PROVE FALSE
    OBVIOUS
  <2>2. Kind(r) \in {"role", "deactivate"}
    BY <1>1, <1>4, <2>1 DEF Staged
  <2>3. PICK q \in S \ {r} : Row(Least(todo[r]), Subject(r)) \in held[q]
    BY <1>2, <1>3, <1>5, <2>1 DEF Waits, Wanted
  <2>4. Subject(q) = Subject(r)
    BY <1>3, <2>1, <2>3, Holders
  <2>5. Group(Least(todo[r])) \in held[r]
    <3>1. CASE Kind(r) = "role"
      <4>1. todo[r] = {op[r].group}
        BY <1>1, <2>1, <3>1 DEF Locks, RowDone
      <4>2. Least(todo[r]) = op[r].group
        BY <1>2, <2>1, <4>1, Waiting
      <4> QED
        <5>1. op[r].group \in Groups
          BY <1>3, <2>1, <4>2
        <5>2. Group(op[r].group) \in held[r]
          BY <1>1, <2>1, <3>1, <5>1 DEF Locks
        <5> QED
          BY <4>2, <5>2
    <3>2. CASE Kind(r) = "deactivate"
      BY <1>1, <2>1, <3>2 DEF Locks
    <3> QED
      BY <2>2, <3>1, <3>2
  <2>6. Group(Least(todo[r])) \notin held[q]
    BY <2>3, <2>5, Facts DEF Exclusive
  <2>7. Kind(q) = "role"
    <3>1. CASE Kind(q) = "deactivate"
      BY <1>1, <1>3, <2>1, <2>3, <2>4, <2>6, <3>1 DEF Locks
    <3>2. CASE Kind(q) = "delete"
      BY <1>1, <1>3, <1>7, <2>1, <2>3, <2>4, <3>2 DEF Locks, Staged
    <3>3. CASE Kind(q) \in {"create", "activate"}
      BY <1>1, <1>3, <2>1, <2>3, <2>4, <3>3 DEF Locks
    <3> QED
      BY <1>4, <3>1, <3>2, <3>3
  <2>8. RowDone(q)
    BY <1>1, <1>3, <2>1, <2>3, <2>4, <2>7 DEF Locks
  <2> QED
    BY <1>1, <1>3, <2>7, <2>8 DEF RowDone, Staged
<1> QED
  BY <1>3, <1>7, <1>8, <1>9

(* And organizations are locked in the order of their keys, so that each   *)
(* of these would wait for one that waits for a later key.                 *)
LEMMA OnlyRetirersDeadlock ==
  ASSUME LockInv, Separate
  PROVE  GroupsLockedInOrder
<1>1. SUFFICES ASSUME NEW S \in SUBSET Txns, Circle(S),
                      \A p, q \in S : p # q /\ Subject(p) = Subject(q) =>
                          ~(Retires(op[p]) /\ Retires(op[q]))
               PROVE  FALSE
  BY DEF GroupsLockedInOrder
<1>2. \A p \in S : at[p] = "groups"
  BY <1>1, OnlyGroupsWait
<1> DEFINE M == {Least(todo[p]) : p \in S}
<1>3. ASSUME NEW p \in S
      PROVE  \E q \in S : Least(todo[p]) < Least(todo[q])
  <2>1. PICK q \in S \ {p} : Waits(p, q)
    BY <1>1 DEF Circle
  <2>2. PICK r \in S : Waits(q, r)
    BY <1>1 DEF Circle
  <2>3. /\ Least(todo[p]) \in Groups
        /\ todo[q] # {} /\ Least(todo[q]) \in todo[q]
        /\ Kind(q) \in MembershipKinds \cup AccountKinds
    BY <1>2, <2>1, <2>2, Waiting
  <2>4. Shared(q) = {}
    BY <1>2, Holders
  <2>5. Group(Least(todo[p])) \in held[q]
    BY <1>2, <2>1, <2>4 DEF Waits, Wanted
  <2>6. Kind(q) \in {"role", "deactivate", "delete", "form"} /\ Locks(q)
    BY <2>3, <2>5, Holders, Facts
  <2>7. Kind(q) # "role"
    BY <1>2, <2>3, <2>5, <2>6 DEF Locks, RowDone
  <2>8. Least(todo[p]) < Least(todo[q])
    BY <1>2, <2>3, <2>5, <2>6, <2>7 DEF Locks
  <2> QED
    BY <2>8
<1>4. M \in SUBSET Groups
  <2>1. ASSUME NEW p \in S PROVE Least(todo[p]) \in Groups
    BY <1>1, <1>2, Waiting DEF Circle
  <2> QED
    BY <2>1
<1>5. \A m \in M : \E n \in M : m < n
  BY <1>3
<1>6. M = {}
  <2> HIDE DEF M
  <2> QED
    BY <1>4, <1>5, NoAscent, ConstantsAssumption
<1> QED
  BY <1>1, <1>6 DEF Circle

(* GroupsLockedInOrder holds: only transactions that deactivate or delete  *)
(* one account can wait for each other in a circle.                        *)
THEOREM LockingOrder ==
  ASSUME ~Overlap
  PROVE  Spec => []GroupsLockedInOrder
<1>1. OwnInv => GroupsLockedInOrder
  BY OnlyRetirersDeadlock DEF OwnInv
<1> QED
  BY <1>1, Inductive, PTL

=============================================================================
