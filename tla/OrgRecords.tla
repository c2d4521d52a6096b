----------------------------- MODULE OrgRecords -----------------------------
(***************************************************************************)
(* Rows that several requests write: Contacts, with the avatars of users,  *)
(* Tags, and AccountNames.  Tags are put on contacts that are deleted      *)
(* meanwhile; usernames are columns of rows that profiles are saved over,  *)
(* and personal organizations go with their users.                         *)
(***************************************************************************)
EXTENDS Contacts

CONSTANTS
    Assigners, TagIds, TagSlugs, Variants, MaxTags, NoTag,
    Registrars, NoOrg,
    MaxRequests    \* bound: requests

VARIABLES tags, drawnTags, items, asg, late, personal, groups, act, requests

T == INSTANCE Tags WITH present <- PresentContacts
N == INSTANCE AccountNames

tagVars == <<tags, drawnTags, items, asg, late>>
nameVars == <<personal, groups, act>>
notNames == <<files, drawn, req, overwritten, stray, tagVars>>
vars == <<contactVars, tagVars, nameVars, requests>>

ASSUME RecordsAssumption ==
    /\ TagIds # {} /\ NoTag \notin T!Name /\ NoOrg \notin N!Org
    /\ MaxTags \in Nat /\ MaxRequests \in Nat

TypeOK == ContactsTypeOK /\ T!TagsTypeOK /\ N!NamesTypeOK
          /\ requests \in 0..MaxRequests

Init == ContactsInit /\ T!TagsInit /\ N!NamesInit /\ requests = 0

(* The route of a request finds what it is about. *)
Receive ==
    /\ requests < MaxRequests
    /\ requests' = requests + 1
    /\ \/ BeginContact /\ UNCHANGED <<tagVars, nameVars>>
       \/ T!BeginTag /\ UNCHANGED <<contactVars, nameVars>>
       \/ N!BeginName /\ UNCHANGED notNames

(* contact.delete() deletes the items of its GenericRelation too. *)
DeleteContact(q) ==
    /\ Delete(q)
    /\ T!ContactDeleted(req[q].contact)
    /\ UNCHANGED <<nameVars, requests>>

(* A username that is inserted and not committed makes others wait. *)
SaveRow(q) ==
    /\ req[q].at = "save"
    /\ req[q].contact \in UserIds =>
           \A r \in Registrars : ~ N!HoldsUsername(r, req[q].seen.name)
    /\ Save(q)
    /\ UNCHANGED <<tagVars, nameVars, requests>>

(* The account of a user, with the personal organization. *)
DeleteAccount(q, u) ==
    /\ requests < MaxRequests
    /\ requests' = requests + 1
    /\ DeleteUser(q, u)
    /\ N!UserDeleted(u)
    /\ UNCHANGED tagVars

Step ==
    /\ \/ ContactStep /\ UNCHANGED <<tagVars, nameVars>>
       \/ T!TagStep /\ UNCHANGED <<contactVars, nameVars>>
       \/ N!NameStep /\ UNCHANGED notNames
    /\ UNCHANGED requests

Next ==
    \/ Receive \/ Step
    \/ \E q \in Requests : DeleteContact(q) \/ SaveRow(q)
    \/ \E q \in Requests, u \in UserIds : DeleteAccount(q, u)

Spec == Init /\ [][Next]_vars

-----------------------------------------------------------------------------
(* Properties                                                              *)

(* The properties of Tags, with the contacts of Contacts. *)
AnswersTrue == T!AnswersTrue
ItemsFollowContacts == T!ItemsFollowContacts

(* Every account has its personal organization, under its username, and    *)
(* no such organization outlives its account: both are written in one      *)
(* transaction, whatever creations, renames and deletions race             *)
(* (accounts/models.py:64-70, username.py:43-57, signals.py:11-18).        *)
(* Excused is a row a stale profile was saved over.                        *)
AccountsWhole ==
    \A u \in UserIds \ overwritten :
        IF u \in Present
        THEN personal[u] # NoOrg /\ personal[u].name = rows[u].name
        ELSE personal[u] = NoOrg
=============================================================================
