---------------------------- MODULE AccountNames ----------------------------
(***************************************************************************)
(* Usernames, and the personal organization every account has:             *)
(* create_user of accounts/models.py, create_personal_organization,        *)
(* make_it_unique and accounts/username.py.                                *)
(*                                                                         *)
(* Rows of users are those of Contacts.  A registration is one transaction *)
(* in READ COMMITTED: it draws names from what is committed, and a unique  *)
(* index makes its insert wait for whoever has inserted the same name and  *)
(* not committed.  A conflict undoes the insert and nothing before it.     *)
(* Addresses are those of AccountOperations and differ here; the routing   *)
(* slug of a user, which never changes, is left out.                       *)
(***************************************************************************)
EXTENDS Naturals

CONSTANTS
    Registrars,    \* registrations and renames being served at a time
    UserIds, Names, Texts,
    NoRow, NoAvatar, NoOrg,
    Attempts       \* inserts of a creation, 5 in the code

VARIABLES
    rows, created, \* Contact and User rows, primary keys (module Contacts)
    personal,      \* personal organizations by their creator, who owns them
    groups,        \* slugs of group organizations
    act            \* registrations and renames

nameVars == <<personal, groups, act>>

NoAct == [at |-> "idle"]
Drawing == [at : {"user"}, name : Names, tried : 0..(Attempts - 1)]
Creating == [at : {"org", "commit"}, name : Names, tried : 0..(Attempts - 1),
             user : UserIds, slug : Names, slugsTried : 0..(Attempts - 1)]
Renaming == [at : {"rename"}, user : UserIds, name : Names]
Org == [slug : Names, name : Names]

Users == {u \in UserIds : rows[u] # NoRow}
Usernames(S) == {rows[u].name : u \in Users \cap S}
OrgSlugs == {personal[u].slug : u \in {v \in UserIds : personal[v] # NoOrg}}
              \cup groups

NamesTypeOK ==
    /\ personal \in [UserIds -> Org \cup {NoOrg}] /\ groups \subseteq Names
    /\ act \in [Registrars -> {NoAct} \cup Drawing \cup Creating \cup Renaming]
    /\ \A u, v \in UserIds :
         /\ personal[u] # NoOrg /\ personal[v] # NoOrg
         /\ personal[u].slug = personal[v].slug
         => u = v

NamesInit ==
    /\ personal = [u \in UserIds |->
                     IF rows[u] = NoRow THEN NoOrg
                     ELSE [slug |-> 0, name |-> rows[u].name]]
    /\ groups = {}
    /\ act = [r \in Registrars |-> NoAct]

Go(r, a) == act' = [act EXCEPT ![r] = a]
KeepAccounts == UNCHANGED <<rows, created, personal, groups>>

(* make_it_unique: the base, or the base with the first free suffix. *)
FirstFree(used) == CHOOSE n \in Names : /\ n \notin used
                                        /\ \A m \in 0..(n - 1) : m \in used

(* Names inserted and not committed. *)
Pending(r) == act[r].at \in {"org", "commit"}
HoldsUsername(r, n) == Pending(r) /\ act[r].name = n
HoldsSlug(r, n) == act[r].at = "commit" /\ act[r].slug = n

-----------------------------------------------------------------------------
(* create_user                                                             *)

Register(r) ==
    /\ act[r] = NoAct
    /\ Go(r, [at |-> "user", name |-> FirstFree(Usernames(UserIds)),
              tried |-> 0])
    /\ KeepAccounts

(* Once more with a random suffix, or the creation fails. *)
TryAgain(r, n) ==
    Go(r, IF act[r].tried + 1 < Attempts
          THEN [at |-> "user", name |-> n, tried |-> act[r].tried + 1]
          ELSE NoAct)

InsertUser(r) ==
    LET u == CHOOSE v \in UserIds \ created : TRUE IN
    /\ act[r].at = "user"
    /\ \A p \in Registrars : ~HoldsUsername(p, act[r].name)
    /\ act[r].name \notin Usernames(UserIds)
    /\ ~ UserIds \subseteq created
    /\ created' = created \cup {u}
    /\ OrgSlugs # Names    \* bound: slugs of organizations
    /\ Go(r, [at |-> "org", name |-> act[r].name, tried |-> act[r].tried,
              user |-> u, slug |-> FirstFree(OrgSlugs), slugsTried |-> 0])
    /\ UNCHANGED <<rows, personal, groups>>

InsertUserConflicts(r, n) ==
    /\ act[r].at = "user"
    /\ act[r].name \in Usernames(UserIds)
    /\ TryAgain(r, n)
    /\ KeepAccounts

(* create_personal_organization: organization and membership. *)
InsertOrg(r) ==
    /\ act[r].at = "org" /\ act[r].slug \notin OrgSlugs
    /\ \A p \in Registrars : ~HoldsSlug(p, act[r].slug)
    /\ Go(r, [act[r] EXCEPT !.at = "commit"])
    /\ KeepAccounts

(* Five conflicts of its own, and the user is undone, too. *)
InsertOrgConflicts(r, n) ==
    /\ act[r].at = "org" /\ act[r].slug \in OrgSlugs
    /\ IF act[r].slugsTried + 1 < Attempts
       THEN Go(r, [act[r] EXCEPT !.slug = n, !.slugsTried = @ + 1])
       ELSE TryAgain(r, n)
    /\ KeepAccounts

CommitRegistration(r, x) ==
    LET u == act[r].user IN
    /\ act[r].at = "commit"
    /\ rows' = [rows EXCEPT ![u] =
                  [name |-> act[r].name, text |-> x, avatar |-> NoAvatar]]
    /\ personal' = [personal EXCEPT ![u] =
                      [slug |-> act[r].slug, name |-> act[r].name]]
    /\ Go(r, NoAct)
    /\ UNCHANGED <<created, groups>>

(* create_group_organization, with a slug that is free. *)
CreateGroup(n) ==
    /\ n \notin OrgSlugs /\ OrgSlugs \cup {n} # Names
    /\ \A r \in Registrars : ~HoldsSlug(r, n)
    /\ groups' = groups \cup {n}
    /\ UNCHANGED <<rows, created, personal, act>>

-----------------------------------------------------------------------------
(* update_username and the end of an account                               *)

(* The user is authenticated, and nobody else has the name. *)
CheckName(r, u, n) ==
    /\ act[r] = NoAct /\ u \in Users
    /\ n \notin Usernames(UserIds \ {u})
    /\ Go(r, [at |-> "rename", user |-> u, name |-> n])
    /\ KeepAccounts

NameOnly(u, n) == personal
NameBoth(u, n) == [personal EXCEPT ![u].name = n]

(* The two updates of one transaction, the second under the row lock of    *)
(* the first.  It fails if the name is taken by now, and if there is no    *)
(* row to update or no organization.                                       *)
Rename(r) ==
    LET u == act[r].user
        n == act[r].name
    IN
    /\ act[r].at = "rename"
    /\ \A p \in Registrars : ~HoldsUsername(p, n)
    /\ IF /\ n \notin Usernames(UserIds \ {u})
          /\ u \in Users /\ personal[u] # NoOrg
       THEN /\ rows' = [rows EXCEPT ![u].name = n]
            /\ personal' = NameBoth(u, n)
       ELSE UNCHANGED <<rows, personal>>
    /\ Go(r, NoAct)
    /\ UNCHANGED <<created, groups>>

Abort(r) ==
    /\ act[r] # NoAct
    /\ Go(r, NoAct)
    /\ KeepAccounts

(* delete_user_account deletes the personal organization of the user. *)
UserDeleted(u) ==
    /\ personal' = [personal EXCEPT ![u] = NoOrg]
    /\ UNCHANGED <<groups, act>>

BeginName ==
    \/ \E r \in Registrars :
         \/ Register(r)
         \/ \E u \in UserIds, n \in Names : CheckName(r, u, n)
    \/ \E n \in Names : CreateGroup(n)

NameStep ==
    \E r \in Registrars :
        \/ InsertUser(r) \/ InsertOrg(r) \/ Rename(r) \/ Abort(r)
        \/ \E n \in Names :
             InsertUserConflicts(r, n) \/ InsertOrgConflicts(r, n)
        \/ \E x \in Texts : CommitRegistration(r, x)
=============================================================================
