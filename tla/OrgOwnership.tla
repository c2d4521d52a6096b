----------------------------- MODULE OrgOwnership -----------------------------
(***************************************************************************)
(* Who owns the group organizations: organizations/services.py, the        *)
(* activation and deletion of accounts in accounts/services.py, the admin  *)
(* site, and the deferred triggers of the migrations.                      *)
(*                                                                         *)
(* Transactions run in READ COMMITTED.  A transaction holds the row locks  *)
(* it took until it ends; what it writes is seen by others when it ends.   *)
(* At COMMIT the deferred triggers read what is committed then, and only   *)
(* after that does the transaction become visible: between the two others  *)
(* may commit.                                                             *)
(***************************************************************************)
EXTENDS Integers, FiniteSets

CONSTANTS
    Txns,      \* concurrent transactions
    Users,
    Groups,    \* primary keys of group organizations
    NoUser, NoGroup,
    Overlap    \* whether the admin site, or somebody becoming an owner, may
               \* come in between other transactions: see Apart

ASSUME ConstantsAssumption ==
    /\ Groups \subseteq Nat /\ IsFiniteSet(Groups)
    /\ NoUser \notin Users /\ NoGroup \notin Groups
    /\ Overlap \in BOOLEAN

Roles == {"owner", "member", "none"}   \* "member" stands for admin, too

VARIABLES
    made,     \* groups that exist
    role,     \* membership rows, "none" where there is no row
    account,  \* user rows: "active", "inactive" or "gone"
    op, at,   \* transactions: what for, and the statement that comes next
    todo,     \* groups a transaction has yet to lock, or rows of theirs
    held      \* rows a transaction has locked FOR UPDATE, or written

rows == <<made, role, account>>
vars == <<rows, op, at, todo, held>>

Group(g) == <<"group", g>>
Row(g, u) == <<"row", g, u>>
User(u) == <<"user", u>>

Resources ==
    {Group(g) : g \in Groups} \cup {User(u) : u \in Users}
        \cup {Row(g, u) : g \in Groups, u \in Users}

(* "role": change_membership_role and remove_membership; "edit": the       *)
(* membership forms of the admin site; "form": its user form.              *)
MembershipKinds == {"role", "edit", "create"}
AccountKinds == {"activate", "deactivate", "delete", "form"}
AdminKinds == {"edit", "form"}

NoOp == [kind |-> "none", user |-> NoUser, group |-> NoGroup, role |-> "none"]
Membership(k, g, u, r) == [kind |-> k, user |-> u, group |-> g, role |-> r]
Account(k, u) == [kind |-> k, user |-> u, group |-> NoGroup, role |-> "none"]

Ops ==
    {NoOp}
    \cup {Membership(k, g, u, r) : k \in MembershipKinds, g \in Groups,
                                   u \in Users, r \in Roles}
    \cup {Account(k, u) : k \in AccountKinds, u \in Users}

Owns(g, u) == role[g][u] = "owner"
OwnedBy(u) == {g \in Groups : Owns(g, u)}
ActiveOwner(g, u) == Owns(g, u) /\ account[u] = "active"

(* Mutant: an owner whose account is inactive counts. *)
AnyOtherOwner(g, u) == \E v \in Users \ {u} : Owns(g, v)

(* _has_other_active_owner, has_successor. *)
OtherOwner(g, u) == \E v \in Users \ {u} : ActiveOwner(g, v)

TypeOK ==
    /\ made \subseteq Groups
    /\ role \in [Groups -> [Users -> Roles]]
    /\ account \in [Users -> {"active", "inactive", "gone"}]
    /\ op \in [Txns -> Ops]
    /\ at \in [Txns -> {"idle", "groups", "row", "check", "user", "read",
                        "rows", "keys", "guard", "commit"}]
    /\ todo \in [Txns -> SUBSET Groups]
    /\ held \in [Txns -> SUBSET Resources]
    /\ \A g \in Groups, u \in Users :
          role[g][u] # "none" => g \in made /\ account[u] # "gone"

HasOwner(g) == \E u \in Users : ActiveOwner(g, u)

Init ==
    /\ made \in SUBSET Groups
    /\ role \in [Groups -> [Users -> Roles]]
    /\ account \in [Users -> {"active", "inactive"}]
    /\ \A g \in Groups : IF g \in made
                         THEN HasOwner(g)
                         ELSE \A u \in Users : role[g][u] = "none"
    /\ op = [p \in Txns |-> NoOp]
    /\ at = [p \in Txns |-> "idle"]
    /\ todo = [p \in Txns |-> {}]
    /\ held = [p \in Txns |-> {}]

-----------------------------------------------------------------------------
(* Locks. *)

Kind(p) == op[p].kind
Subject(p) == op[p].user

(* A foreign key of an inserted row is checked at COMMIT, and its target   *)
(* locked FOR KEY SHARE from then on.                                      *)
Inserts(p) ==
    \/ Kind(p) = "create"
    \/ /\ Kind(p) = "edit" /\ op[p].role # "none"
       /\ role[op[p].group][Subject(p)] = "none"

Keys(p) == {User(Subject(p))}
               \cup (IF Kind(p) = "edit" THEN {Group(op[p].group)} ELSE {})

Shared(p) == IF Inserts(p) /\ at[p] \in {"guard", "commit"} THEN Keys(p) ELSE {}

Free(p, x) == \A q \in Txns \ {p} : x \notin held[q] \cup Shared(q)

Least(S) == CHOOSE g \in S : \A h \in S : g <= h

(* The rows a transaction waits for before it can go on. *)
Wanted(p) ==
    CASE at[p] = "groups" /\ todo[p] # {} -> {Group(Least(todo[p]))}
      [] at[p] \in {"row", "rows"} /\ todo[p] # {} ->
             {Row(Least(todo[p]), Subject(p))}
      [] at[p] = "user" -> {User(Subject(p))}
      [] OTHER -> {}

Waits(p, q) ==
    \/ Wanted(p) \cap (held[q] \cup Shared(q)) # {}
    \/ at[p] = "keys" /\ Keys(p) \cap held[q] # {}

Go(p, l) == at' = [at EXCEPT ![p] = l]

Take(p, x) ==
    /\ Free(p, x)
    /\ held' = [held EXCEPT ![p] = @ \cup {x}]

End(p) ==
    /\ Go(p, "idle")
    /\ op' = [op EXCEPT ![p] = NoOp]
    /\ todo' = [todo EXCEPT ![p] = {}]
    /\ held' = [held EXCEPT ![p] = {}]

-----------------------------------------------------------------------------
(* Transactions begin, with the unlocked read their locks depend on.       *)

MakesOwner(o) == o.kind \in MembershipKinds /\ o.role = "owner"
Retires(o) == o.kind \in {"deactivate", "delete", "form"}

(* Operations that the locks do not keep apart. *)
Clash(o, m) ==
    \/ o.kind \in AdminKinds \/ m.kind \in AdminKinds
    \/ /\ o.user = m.user
       /\ \/ MakesOwner(o) /\ Retires(m)
          \/ MakesOwner(m) /\ Retires(o)

Apart(o) == \A q \in Txns : at[q] # "idle" => ~Clash(o, op[q])

Begin(p, o, l, groups) ==
    /\ at[p] = "idle"
    /\ Overlap \/ Apart(o)
    /\ op' = [op EXCEPT ![p] = o]
    /\ todo' = [todo EXCEPT ![p] = groups]
    /\ Go(p, l)
    /\ UNCHANGED <<rows, held>>

(* Mutant: only the membership row is locked. *)
BeginRoleUnlocked(p, g, u, r) ==
    /\ role[g][u] # "none"
    /\ Begin(p, Membership("role", g, u, r), "row", {g})

(* change_membership_role, and remove_membership if r is "none". *)
BeginRole(p, g, u, r) ==
    /\ role[g][u] # "none"
    /\ Begin(p, Membership("role", g, u, r), "groups", {g})

(* MembershipAdmin inserts, changes or deletes a row; only the triggers    *)
(* watch it.                                                               *)
BeginEdit(p, g, u, r) ==
    /\ g \in made /\ account[u] # "gone" /\ role[g][u] # r
    /\ Begin(p, Membership("edit", g, u, r), "row", {g})

(* create_group_organization, given an instance of its owner. *)
BeginCreate(p, g, u) ==
    /\ g \notin made /\ \A q \in Txns : op[q].group # g
    /\ account[u] = "active"
    /\ Begin(p, Membership("create", g, u, "owner"), "keys", {})

(* set_user_active_status(is_active=False); the snapshot of the query in   *)
(* assert_user_can_be_deactivated.                                         *)
BeginDeactivate(p, u) ==
    /\ account[u] # "gone"
    /\ Begin(p, Account("deactivate", u), "groups", OwnedBy(u))

BeginActivate(p, u) ==
    /\ account[u] # "gone"
    /\ Begin(p, Account("activate", u), "user", {})

(* delete_user_account. *)
BeginDelete(p, u) ==
    /\ account[u] # "gone"
    /\ Begin(p, Account("delete", u), "groups", OwnedBy(u))

(* UserAdmin.save_model with is_active unticked. *)
BeginForm(p, u) ==
    /\ account[u] = "active"
    /\ Begin(p, Account("form", u), "user", {})

-----------------------------------------------------------------------------
(* Statements. *)

(* Mutant: no ORDER BY. *)
LockAnyGroup(p) ==
    /\ at[p] = "groups" /\ todo[p] # {}
    /\ \E g \in todo[p] :
          /\ Take(p, Group(g))
          /\ IF Kind(p) = "delete"
             THEN todo' = [todo EXCEPT ![p] = @ \ {g}] /\ UNCHANGED at
             ELSE Go(p, "row") /\ UNCHANGED todo
    /\ UNCHANGED <<rows, op>>

(* Groups are locked in the order of their keys. *)
LockGroup(p) ==
    /\ at[p] = "groups" /\ todo[p] # {}
    /\ Take(p, Group(Least(todo[p])))
    /\ IF Kind(p) = "delete"
       THEN /\ todo' = [todo EXCEPT ![p] = @ \ {Least(@)}]
            /\ UNCHANGED at
       ELSE Go(p, "row") /\ UNCHANGED todo
    /\ UNCHANGED <<rows, op>>

(* The membership row, locked next to its group by the join in             *)
(* assert_user_can_be_deactivated.                                         *)
LockRow(p) ==
    /\ at[p] = "row"
    /\ Take(p, Row(Least(todo[p]), Subject(p)))
    /\ todo' = [todo EXCEPT ![p] = @ \ {Least(@)}]
    /\ Go(p, "groups")
    /\ UNCHANGED <<rows, op>>

(* The owner's row is gone, or another active owner stays. *)
Succeeded(g, u) == Owns(g, u) => OtherOwner(g, u)

(* Mutant: the membership is not read again under the locks. *)
ChangeStaleRole(p) ==
    /\ at[p] = "groups" /\ todo[p] = {} /\ Kind(p) = "role"
    /\ op[p].role # "owner" => Succeeded(op[p].group, Subject(p))
    /\ Go(p, "guard")
    /\ UNCHANGED <<rows, op, todo, held>>

(* The statements of change_membership_role and remove_membership after    *)
(* the locks.                                                              *)
ChangeRole(p) ==
    /\ at[p] = "groups" /\ todo[p] = {} /\ Kind(p) = "role"
    /\ role[op[p].group][Subject(p)] # "none"
    /\ op[p].role # "owner" => Succeeded(op[p].group, Subject(p))
    /\ Go(p, "guard")
    /\ UNCHANGED <<rows, op, todo, held>>

EditMembership(p) ==
    /\ at[p] = "groups" /\ todo[p] = {} /\ Kind(p) = "edit"
    /\ Go(p, IF Inserts(p) THEN "keys" ELSE "guard")
    /\ UNCHANGED <<rows, op, todo, held>>

TakeKeys(p) ==
    /\ at[p] = "keys"
    /\ account[Subject(p)] # "gone"
    /\ \A q \in Txns \ {p} : Keys(p) \cap held[q] = {}
    /\ Go(p, "guard")
    /\ UNCHANGED <<rows, op, todo, held>>

(* The check of every group that is locked. *)
AllSucceeded(p) ==
    \A g \in Groups : Group(g) \in held[p] => Succeeded(g, Subject(p))

CheckOwned(p) ==
    /\ at[p] = "groups" /\ todo[p] = {} /\ Kind(p) \in {"deactivate", "form"}
    /\ AllSucceeded(p)
    /\ Go(p, IF Kind(p) = "form" THEN "guard" ELSE "user")
    /\ UNCHANGED <<rows, op, todo, held>>

GroupsLocked(p) ==
    /\ at[p] = "groups" /\ todo[p] = {} /\ Kind(p) = "delete"
    /\ Go(p, "user")
    /\ UNCHANGED <<rows, op, todo, held>>

(* SELECT ... FOR UPDATE of the user; the UPDATE of the admin's form. *)
LockUser(p) ==
    /\ at[p] = "user"
    /\ account[Subject(p)] # "gone"
    /\ Take(p, User(Subject(p)))
    /\ Go(p, CASE Kind(p) = "delete" -> "check"
               [] Kind(p) = "form" -> "read"
               [] OTHER -> "guard")
    /\ UNCHANGED <<rows, op, todo>>

(* save_model calls set_user_active_status after it has saved. *)
ReadOwned(p) ==
    /\ at[p] = "read"
    /\ todo' = [todo EXCEPT ![p] = OwnedBy(Subject(p))]
    /\ Go(p, "groups")
    /\ UNCHANGED <<rows, op, held>>

(* The check of delete_user_account, and what the cascade is to delete. *)
CheckDeletion(p) ==
    /\ at[p] = "check"
    /\ AllSucceeded(p)
    /\ todo' = [todo EXCEPT ![p] =
                   {g \in Groups : role[g][Subject(p)] # "none"}]
    /\ Go(p, "rows")
    /\ UNCHANGED <<rows, op, held>>

DeleteRow(p) ==
    /\ at[p] = "rows" /\ todo[p] # {}
    /\ Take(p, Row(Least(todo[p]), Subject(p)))
    /\ todo' = [todo EXCEPT ![p] = @ \ {Least(@)}]
    /\ UNCHANGED <<rows, op, at>>

RowsDeleted(p) ==
    /\ at[p] = "rows" /\ todo[p] = {}
    /\ Go(p, "guard")
    /\ UNCHANGED <<rows, op, todo, held>>

-----------------------------------------------------------------------------
(* The end of a transaction. *)

Writes(p, g, u) ==
    /\ u = Subject(p)
    /\ \/ Kind(p) \in MembershipKinds /\ g = op[p].group
       \/ Kind(p) = "delete" /\ Row(g, u) \in held[p]

RoleAfter(p) ==
    [g \in Groups |-> [u \in Users |->
        IF Writes(p, g, u) THEN op[p].role ELSE role[g][u]]]

AccountAfter(p) ==
    CASE Kind(p) \in {"deactivate", "form"} ->
             [account EXCEPT ![Subject(p)] = "inactive"]
      [] Kind(p) = "activate" -> [account EXCEPT ![Subject(p)] = "active"]
      [] Kind(p) = "delete" -> [account EXCEPT ![Subject(p)] = "gone"]
      [] OTHER -> account

(* The groups the triggers look at. *)
Watched(p) ==
    CASE Kind(p) \in MembershipKinds -> {op[p].group}
      [] Kind(p) = "delete" -> {g \in Groups : Row(g, Subject(p)) \in held[p]}
      [] Kind(p) \in {"deactivate", "form"} ->
             IF account[Subject(p)] = "active" THEN OwnedBy(Subject(p)) ELSE {}
      [] OTHER -> {}

(* organizations_check_active_owner. *)
TriggersPass(p) ==
    \A g \in Watched(p) :
        \E u \in Users : /\ RoleAfter(p)[g][u] = "owner"
                         /\ AccountAfter(p)[u] = "active"

(* No row refers to a user who is deleted. *)
KeysPass(p) ==
    Kind(p) = "delete" =>
        \A g \in Groups : RoleAfter(p)[g][Subject(p)] = "none"

FireTriggers(p) ==
    /\ at[p] = "guard"
    /\ TriggersPass(p) /\ KeysPass(p)
    /\ Go(p, "commit")
    /\ UNCHANGED <<rows, op, todo, held>>

Commit(p) ==
    /\ at[p] = "commit"
    /\ role' = RoleAfter(p)
    /\ account' = AccountAfter(p)
    /\ made' = IF Kind(p) = "create" THEN made \cup {op[p].group} ELSE made
    /\ End(p)

(* Refused by a check, a trigger or a key; a row is missing; an error; a   *)
(* deadlock broken by PostgreSQL: all is rolled back.                      *)
Rollback(p) ==
    /\ at[p] # "idle"
    /\ End(p)
    /\ UNCHANGED rows

-----------------------------------------------------------------------------

Next ==
    \E p \in Txns :
        \/ /\ at[p] = "idle"
           /\ \E u \in Users :
                \/ \E g \in Groups :
                     \/ \E r \in Roles :
                          BeginRole(p, g, u, r) \/ BeginEdit(p, g, u, r)
                     \/ BeginCreate(p, g, u)
                \/ BeginDeactivate(p, u) \/ BeginActivate(p, u)
                \/ BeginDelete(p, u) \/ BeginForm(p, u)
        \/ LockGroup(p) \/ LockRow(p) \/ ChangeRole(p) \/ EditMembership(p)
        \/ TakeKeys(p) \/ CheckOwned(p) \/ GroupsLocked(p) \/ LockUser(p)
        \/ ReadOwned(p) \/ CheckDeletion(p) \/ DeleteRow(p) \/ RowsDeleted(p)
        \/ FireTriggers(p) \/ Commit(p) \/ Rollback(p)

Spec == Init /\ [][Next]_vars

-----------------------------------------------------------------------------
(* Correctness. *)

(* Every group has an owner whose account is active: whatever is demoted,  *)
(* removed, deactivated and deleted at the same time.                      *)
GroupsHaveOwner == \A g \in made : HasOwner(g)

(* The services refuse on their own: a change they let through does not    *)
(* fail in a trigger, that is, with a database error.                      *)
ServicesRefuseFirst ==
    \A p \in Txns :
        at[p] = "guard" /\ Kind(p) \in {"role", "deactivate", "delete"}
            => TriggersPass(p)

Circle(S) == S # {} /\ \A p \in S : \E q \in S \ {p} : Waits(p, q)

(* Rows that depend on a user are locked only after the user               *)
(* (docs/improvements.md:52).                                              *)
UsersBeforeRows ==
    \A p \in Txns, g \in Groups :
        at[p] = "user" => Row(g, Subject(p)) \notin held[p]

(* Only transactions that deactivate or delete one account wait for each   *)
(* other in a circle: the join of assert_user_can_be_deactivated locks     *)
(* membership rows before the user, a deletion locks them after it.        *)
GroupsLockedInOrder ==
    \A S \in SUBSET Txns : Circle(S) =>
        \E p, q \in S : /\ p # q /\ Subject(p) = Subject(q)
                        /\ Retires(op[p]) /\ Retires(op[q])
=============================================================================
