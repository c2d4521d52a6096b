--------------------------- MODULE OrgRecordsProofs ---------------------------
(***************************************************************************)
(* Safety of OrgRecords for any contacts, users, names, avatars and tags.  *)
(* The three components share rows, so each has a part of the inductive    *)
(* invariant, and the parts need each other where a row of one is a row    *)
(* of another.                                                             *)
(***************************************************************************)
EXTENDS OrgRecords, FiniteSetTheorems, WellFoundedInduction, TLAPS

(* Requests about a row, and those that delete the files of an old avatar. *)
About(q) == req[q] \in Routed
Cleans(q) == req[q] \in Cleaning

(* Who names an avatar: a row; a request that has read the row, has put a  *)
(* new one, or is about to delete an old one.                              *)
Sees(q) == IF About(q) THEN req[q].seen.avatar ELSE NoAvatar
Puts(q) == IF req[q].at = "save_avatar" THEN req[q].new ELSE NoAvatar
Drops(q) == IF Cleans(q) THEN req[q].old ELSE NoAvatar

(* What is named has been drawn, and what has been put is there. *)
AvatarsDrawn ==
    /\ \A c \in Owners : Current(c) \in drawn \cup {NoAvatar}
    /\ \A q \in Requests : /\ Sees(q) \in drawn \cup {NoAvatar}
                           /\ Puts(q) \in files \cup {NoAvatar}
                           /\ Drops(q) \in drawn \cup {NoAvatar}

(* A new avatar is named by its upload only. *)
NewUnknown ==
    \A q \in Requests : Puts(q) # NoAvatar =>
        /\ \A c \in Owners : Current(c) # Puts(q)
        /\ \A p \in Requests : /\ Sees(p) # Puts(q) /\ Drops(p) # Puts(q)
                               /\ p # q => Puts(p) # Puts(q)

(* The avatar a row has, or had when a request read it, is of no other row. *)
OneOwner ==
    /\ \A c, d \in Owners :
          Current(c) = Current(d) /\ Current(c) # NoAvatar => c = d
    /\ \A p \in Requests : Sees(p) # NoAvatar =>
          /\ \A c \in Owners : Current(c) = Sees(p) => c = req[p].contact
          /\ \A q \in Requests :
                Sees(q) = Sees(p) => req[q].contact = req[p].contact

(* What is being deleted has been replaced. *)
OldReplaced ==
    \A q \in Requests, c \in Owners :
        Drops(q) # NoAvatar /\ Current(c) = Drops(q) => c \in overwritten

(* AvatarFilesMatch by who names what. *)
NamedThere ==
    \A c \in Owners \ overwritten : Current(c) \in files \cup {NoAvatar}

(* Each file that is not stray is named by a row, an upload or a           *)
(* clean-up.                                                               *)
FilesNamed ==
    \A a \in files \ stray :
        \/ \E c \in Owners : Current(c) = a
        \/ \E q \in Requests : Puts(q) = a \/ Drops(q) = a

(* An upload that has put an avatar has one. *)
PutsOne ==
    \A q \in Requests : req[q].at = "save_avatar" => req[q].new \in Avatars

(* Only contacts are deleted by a request that has read them before. *)
DeletesContacts ==
    \A q \in Requests : req[q].at = "delete" => req[q].contact \in ContactIds

(* Contacts: the types, and who names which avatar.                        *)
ContactInv ==
    /\ ContactsTypeOK /\ AvatarsDrawn /\ NewUnknown /\ OneOwner /\ OldReplaced
    /\ NamedThere /\ FilesNamed /\ PutsOne /\ DeletesContacts

(* A user that is inserted and not committed: nobody sees it, and the names *)
(* it has drawn are its own.                                                *)
Reserved ==
    \A r \in Registrars : N!Pending(r) =>
        LET u == act[r].user IN
        /\ u \in created /\ rows[u] = NoRow /\ personal[u] = NoOrg
        /\ act[r].name \notin N!Usernames(UserIds)
        /\ act[r].at = "commit" => act[r].slug \notin N!OrgSlugs
        /\ \A q \in Requests : About(q) => req[q].contact # u
        /\ \A p \in Registrars \ {r} : N!Pending(p) =>
              /\ act[p].user # u /\ act[p].name # act[r].name
              /\ act[p].at = "commit" /\ act[r].at = "commit" =>
                    act[p].slug # act[r].slug

(* Requests are about rows that were created, and only created users have  *)
(* a personal organization.                                                *)
KnownRows ==
    /\ \A q \in Requests : About(q) => req[q].contact \in created
    /\ \A u \in UserIds \ created : personal[u] = NoOrg

(* Accounts: what registrations have drawn is theirs, and AccountsWhole.   *)
NameInv == N!NamesTypeOK /\ Reserved /\ KnownRows /\ AccountsWhole

(* Tags that an assignment has inserted and not committed. *)
MadeWell ==
    \A q \in Assigners : asg[q] # T!NoAssignment => \A m \in asg[q].made :
        /\ \E i \in DOMAIN asg[q].names \ asg[q].todo : m[2] = asg[q].names[i]
        /\ \A l \in asg[q].made : l[1] = m[1] \/ l[2] = m[2] => l = m
        /\ T!Running(q) =>
              /\ m[1] \in drawnTags /\ tags[m[1]] = NoTag
              /\ ~T!SlugTaken(m[2].slug)
              /\ \A p \in Assigners \ {q} : T!Running(p) =>
                    \A l \in asg[p].made : l[1] # m[1] /\ l[2].slug # m[2].slug

(* The names left to do are names asked for, and there are none once all   *)
(* are inserted; before, nothing has been made.                            *)
TodoOfNames ==
    \A q \in Assigners : asg[q] # T!NoAssignment =>
        /\ asg[q].todo \subseteq DOMAIN asg[q].names
        /\ asg[q].at # "create" => asg[q].todo = {}
        /\ asg[q].at = "existing" => asg[q].made = {}

(* What an assignment that nobody disturbs has read stays true, and so does *)
(* its answer.                                                              *)
Undisturbed(q) == asg[q] # T!NoAssignment /\ ~asg[q].disturbed

(* The names an assignment is done with have a tag.                        *)
NamesThere(q) ==
    asg[q].at \in {"create", "reread"} =>
        \A i \in DOMAIN asg[q].names \ asg[q].todo :
           \E v \in T!Visible(q) : v[2].slug = asg[q].names[i].slug

(* The tags it has read again are those of the names it was asked for.     *)
ChosenNamed(q) ==
    asg[q].at \in {"items", "commit"} =>
        /\ \A n \in T!Asked(q) : \E t \in asg[q].chosen :
              <<t, n>> \in T!Visible(q)
        /\ \A t \in asg[q].chosen : \E n \in T!Asked(q) :
              <<t, n>> \in T!Visible(q)

(* The items it has read are there until it commits.                       *)
HadThere(q) ==
    asg[q].at = "commit" =>
       \A t \in asg[q].had : <<t, asg[q].contact>> \in items

(* Once it has answered, each name asked for is assigned.                  *)
Assigned(q) ==
    asg[q].at = "assigned" =>
        \A n \in T!Asked(q) : \E t \in T!Rows(TagIds) :
            tags[t] = n /\ <<t, asg[q].contact>> \in items

(* It refuses only for a tag that clashes with a name, and never fails.    *)
Refused(q) ==
    asg[q].at \in {"refused", "failed"} =>
        /\ asg[q].at = "refused"
        /\ \E t \in T!Rows(TagIds), n \in T!Asked(q) : T!Clash(n, tags[t])

(* All that an undisturbed assignment relies on.                           *)
Stands(q) ==
    Undisturbed(q) =>
        /\ NamesThere(q) /\ ChosenNamed(q) /\ HadThere(q)
        /\ Assigned(q) /\ Refused(q)

(* Stands, for every assignment.                                           *)
ReadsStand == \A q \in Assigners : Stands(q)

(* Tags: the types, what assignments have made and read, and               *)
(* ItemsFollowContacts.                                                    *)
TagInv ==
    /\ T!TagsTypeOK /\ MadeWell /\ TodoOfNames /\ ReadsStand
    /\ ItemsFollowContacts

(* The inductive invariant: one part for each component, and the bound of  *)
(* the requests.                                                           *)
IInv == ContactInv /\ NameInv /\ TagInv /\ requests \in 0..MaxRequests

(* A request about a row whose name no registration holds uncommitted. *)
Unheld(q) ==
    req[q].contact \in UserIds =>
        \A r \in Registrars : ~N!HoldsUsername(r, req[q].seen.name)

(* The steps by what they are about.  All others leave rows and names alone. *)
ContactNext ==
    /\ UNCHANGED <<tagVars, nameVars>>
    /\ \E q \in Requests :
         \/ \E x \in Texts : BeginCreate(q, x)
         \/ \E c \in Owners, at \in {"save", "put", "clear_avatar", "delete"},
               x \in Texts \cup {Unset} :
              Begin(q, c, at, x) /\ (at = "delete" => c \in ContactIds)
         \/ Insert(q) \/ \E n \in Names : InsertConflicts(q, n)
         \/ PutAvatar(q) \/ \E landed \in BOOLEAN : PutFails(q, landed)
         \/ SaveAvatar(q) \/ SaveAvatarReplyLost(q) \/ ClearAvatar(q)
         \/ \E fails \in BOOLEAN :
              SaveAvatarFails(q, fails) \/ DeleteFiles(q, fails)
         \/ Unheld(q) /\ Save(q)
         \/ Fail(q)

(* The deletion of a contact, with its tagged items.                       *)
ContactEnds ==
    /\ UNCHANGED nameVars
    /\ \E q \in Requests : Delete(q) /\ T!ContactDeleted(req[q].contact)

(* Registrations and renames.                                              *)
NameNext ==
    /\ UNCHANGED <<files, drawn, req, overwritten, stray, tagVars>>
    /\ \/ \E r \in Registrars :
            \/ N!Register(r) \/ N!InsertUser(r) \/ N!InsertOrg(r)
            \/ N!Rename(r) \/ N!Abort(r)
            \/ \E u \in UserIds, n \in Names : N!CheckName(r, u, n)
            \/ \E n \in Names :
                 N!InsertUserConflicts(r, n) \/ N!InsertOrgConflicts(r, n)
            \/ \E x \in Texts : N!CommitRegistration(r, x)
       \/ \E n \in Names : N!CreateGroup(n)

(* The deletion of an account, with its personal organization.             *)
AccountEnds ==
    /\ UNCHANGED tagVars
    /\ \E q \in Requests, u \in UserIds : DeleteUser(q, u) /\ N!UserDeleted(u)

(* Steps of tags and assignments.                                          *)
TagNext ==
    /\ UNCHANGED <<contactVars, nameVars>>
    /\ \/ \E n \in T!Name : T!CreateTag(n)
       \/ \E t \in TagIds : T!DeleteTag(t) \/ \E n \in T!Name : T!RenameTag(t, n)
       \/ \E c \in ContactIds, S \in SUBSET T!Rows(TagIds) : T!Unassign(c, S)
       \/ \E q \in Assigners :
            \/ \E c \in ContactIds, s \in T!NameLists : T!Assign(q, c, s)
            \/ T!ReadExisting(q) \/ T!InsertTag(q) \/ T!AllInserted(q)
            \/ T!Reread(q) \/ T!ReadItems(q) \/ T!CommitAssignment(q)
            \/ T!Answer(q) \/ T!Abort(q)

(* Every step is one of the five kinds.                                    *)
LEMMA Steps ==
  ASSUME Next
  PROVE  ContactNext \/ ContactEnds \/ NameNext \/ AccountEnds \/ TagNext
<1>1. CASE Receive
  <2>1. CASE BeginContact /\ UNCHANGED <<tagVars, nameVars>>
    <3>1. ASSUME NEW q \in Requests, NEW x \in Texts, BeginCreate(q, x)
          PROVE  ContactNext
      BY <2>1, <3>1 DEF ContactNext
    <3>2. ASSUME NEW q \in Requests, NEW c \in Owners,
                 NEW at \in {"save", "put", "clear_avatar", "delete"},
                 NEW x \in Texts \cup {Unset}, Begin(q, c, at, x),
                 at = "delete" => c \in ContactIds
          PROVE  ContactNext
      BY <2>1, <3>2 DEF ContactNext
    <3>3. ASSUME NEW q \in Requests, NEW c \in ContactIds,
                 NEW x \in Texts \cup {Unset},
                 \/ BeginEdit(q, c, x)
                 \/ BeginUpload(q, c) \/ BeginClear(q, c) \/ BeginDelete(q, c)
          PROVE  ContactNext
      BY <3>2, <3>3 DEF BeginEdit, BeginUpload, BeginClear, BeginDelete, Owners
    <3>4. ASSUME NEW q \in Requests, NEW u \in UserIds,
                 NEW x \in Texts \cup {Unset},
                 \/ BeginProfile(q, u, x)
                 \/ BeginUserUpload(q, u) \/ BeginUserClear(q, u)
          PROVE  ContactNext
      BY <3>2, <3>4 DEF BeginProfile, BeginUserUpload, BeginUserClear, Owners
    <3> QED
      BY ONLY <2>1, <3>1, <3>3, <3>4 DEF BeginContact
  <2>2. CASE T!BeginTag /\ UNCHANGED <<contactVars, nameVars>>
    BY <2>2 DEF T!BeginTag, T!PostTag, T!PatchTag, T!RemoveTag, T!UnassignTags,
       T!AssignTags, TagNext
  <2>3. CASE N!BeginName /\ UNCHANGED notNames
    BY <2>3 DEF N!BeginName, NameNext, notNames
  <2> QED
    BY <1>1, <2>1, <2>2, <2>3 DEF Receive
<1>2. CASE Step
  <2>1. CASE ContactStep /\ UNCHANGED <<tagVars, nameVars>>
    BY <2>1 DEF ContactStep, ContactNext
  <2>2. CASE T!TagStep /\ UNCHANGED <<contactVars, nameVars>>
    BY <2>2 DEF T!TagStep, TagNext
  <2>3. CASE N!NameStep /\ UNCHANGED notNames
    BY <2>3 DEF N!NameStep, NameNext, notNames
  <2> QED
    BY <1>2, <2>1, <2>2, <2>3 DEF Step
<1>3. ASSUME NEW q \in Requests, DeleteContact(q)
      PROVE  ContactEnds
  BY <1>3 DEF DeleteContact, ContactEnds
<1>4. ASSUME NEW q \in Requests, SaveRow(q)
      PROVE  ContactNext
  BY <1>4 DEF SaveRow, ContactNext, Unheld
<1>5. ASSUME NEW q \in Requests, NEW u \in UserIds, DeleteAccount(q, u)
      PROVE  AccountEnds
  BY <1>5 DEF DeleteAccount, AccountEnds
<1> QED
  BY <1>1, <1>2, <1>3, <1>4, <1>5 DEF Next

(* The fields of rows and organizations, which differ from their absence.  *)
LEMMA RowShape ==
  /\ \A x \in Row : /\ x.name \in Names /\ x.text \in Texts
                    /\ x.avatar \in Avatars \cup {NoAvatar} /\ x # NoRow
  /\ \A x \in N!Org : x.slug \in Names /\ x.name \in Names /\ x # NoOrg
BY NoRowAssumption, RecordsAssumption DEF Row, N!Org

(* What the step of a request says about its record.                       *)
WellFormed(x) ==
    /\ x.at = "idle" <=> x = Idle
    /\ x.at = "insert" <=> x \in Creation
    /\ x.at = "cleanup" <=> x \in Cleaning
    /\ x.at \in {"save", "put", "save_avatar", "clear_avatar", "delete"}
          <=> x \in Routed
    /\ x.at \in {"idle", "insert", "cleanup", "save", "put", "save_avatar",
                 "clear_avatar", "delete"}
    /\ x \in Creation => /\ x.name \in Names /\ x.text \in Texts
                         /\ x.tried \in 0..(Attempts - 1)
    /\ x \in Routed =>
          /\ x.contact \in Owners /\ x.seen \in Row
          /\ x.seen.name \in Names /\ x.seen.text \in Texts
          /\ x.seen.avatar \in Avatars \cup {NoAvatar}
          /\ x.text \in Texts \cup {Unset}
          /\ x.new \in Avatars \cup {NoAvatar}
    /\ x \in Cleaning => x.old \in Avatars

(* The records of requests are well formed.                                *)
LEMMA RequestShape ==
  ASSUME NEW x \in {Idle} \cup Creation \cup Routed \cup Cleaning
  PROVE  WellFormed(x)
BY RowShape DEF WellFormed, Idle, Creation, Routed, Cleaning

(* What the step of a registration says about its record.                  *)
ActFormed(x) ==
    /\ x.at = "idle" <=> x = N!NoAct
    /\ x.at = "user" <=> x \in N!Drawing
    /\ x.at \in {"org", "commit"} <=> x \in N!Creating
    /\ x.at = "rename" <=> x \in N!Renaming
    /\ x.at \in {"idle", "user", "org", "commit", "rename"}
    /\ x \in N!Drawing => x.name \in Names /\ x.tried \in 0..(Attempts - 1)
    /\ x \in N!Creating =>
          /\ x.name \in Names /\ x.tried \in 0..(Attempts - 1)
          /\ x.user \in UserIds /\ x.slug \in Names
          /\ x.slugsTried \in 0..(Attempts - 1)
    /\ x \in N!Renaming => x.user \in UserIds /\ x.name \in Names

(* The records of registrations are well formed.                           *)
LEMMA ActShape ==
  ASSUME NEW x \in {N!NoAct} \cup N!Drawing \cup N!Creating \cup N!Renaming
  PROVE  ActFormed(x)
BY DEF ActFormed, N!NoAct, N!Drawing, N!Creating, N!Renaming

(* A set of naturals that is not empty has a least element.                *)
LEMMA NatLeast ==
  ASSUME NEW S \in SUBSET Nat, S # {}
  PROVE  \E n \in S : \A m \in S : n <= m
<1>1. PICK R : R = OpToRel(<, Nat)
  OBVIOUS
<1>2. IsWellFoundedOn(R, Nat)
  BY <1>1, NatLessThanWellFounded
<1>3. PICK n \in S : \A m \in S : <<m, n>> \notin R
  BY ONLY <1>2, S \subseteq Nat, S # {}, WFMin
<1>4. \A x, y \in Nat : x < y => <<x, y>> \in R
  BY ONLY <1>1, Zenon DEF OpToRel
<1>5. ASSUME NEW m \in S PROVE n <= m
  <2>1. m \in Nat /\ n \in Nat
    OBVIOUS
  <2>2. ~(m < n)
    BY <1>3, <1>4, <2>1, Zenon
  <2> QED
    BY <2>1, <2>2
<1> QED
  BY <1>5

(* There are finitely many users, whose number bounds the names.           *)
LEMMA UsersFinite == Cardinality(UserIds) \in Nat
BY ContactsAssumption, FS_CardinalityType

(* FirstFree, of contacts and of names, is a name that is not used, if     *)
(* there is one.                                                           *)
LEMMA FirstFreeIsFree ==
  ASSUME NEW used, Names \ used # {}
  PROVE  /\ FirstFree(used) \in Names \ used
         /\ N!FirstFree(used) \in Names \ used
<1>1. Names \subseteq Nat
  BY UsersFinite DEF Names
<1>2. PICK n \in Names \ used : \A m \in Names \ used : n <= m
  <2> DEFINE S == Names \ used
  <2>1. S \in SUBSET Nat /\ S # {}
    BY <1>1
  <2>2. \E n \in S : \A m \in S : n <= m
    BY ONLY <2>1, NatLeast
  <2> QED
    BY <2>2
<1>3. \A m \in 0..(n - 1) : m \in used
  BY <1>1, <1>2, UsersFinite DEF Names
<1>4. n \in Names /\ n \notin used
  BY <1>2
<1> QED
  BY <1>3, <1>4 DEF FirstFree, N!FirstFree

(* There is one more name than rows of a kind: a name is always free for   *)
(* a row.                                                                  *)
LEMMA ANameIsFree ==
  ASSUME rows \in [Owners -> Row \cup {NoRow}], NEW S \in {ContactIds, UserIds}
  PROVE  Names \ Taken(S) # {}
<1> DEFINE P == Present \cap S
           f == [c \in P |-> rows[c].name]
<1>1. IsFiniteSet(S) /\ Cardinality(S) <= Cardinality(UserIds)
      /\ Cardinality(S) \in Nat
  BY ContactsAssumption, FS_CardinalityType
<1>2. IsFiniteSet(P) /\ Cardinality(P) <= Cardinality(S)
      /\ Cardinality(P) \in Nat
  <2> HIDE DEF P
  <2>1. P \in SUBSET S
    BY DEF P
  <2> QED
    BY <1>1, <2>1, FS_Subset, FS_CardinalityType
<1>3. f \in Surjection(P, Taken(S))
  <2>1. f \in [P -> Taken(S)]
    BY DEF Taken
  <2>2. \A n \in Taken(S) : \E c \in P : f[c] = n
    BY DEF Taken
  <2> QED
    BY <2>1, <2>2 DEF Surjection
<1>4. IsFiniteSet(Taken(S)) /\ Cardinality(Taken(S)) <= Cardinality(P)
      /\ Cardinality(Taken(S)) \in Nat
  <2> HIDE DEF f, P
  <2> QED
    BY <1>2, <1>3, FS_Surjection, FS_CardinalityType
<1>5. Cardinality(Names) = Cardinality(UserIds) + 1
  BY UsersFinite, FS_Interval DEF Names
<1> SUFFICES ASSUME Names \subseteq Taken(S)
             PROVE  FALSE
  OBVIOUS
<1>6. Cardinality(Names) <= Cardinality(Taken(S))
  BY <1>4, FS_Subset
<1> QED
  BY <1>1, <1>2, <1>4, <1>5, <1>6, UsersFinite

(* Fresh is an element that is not used, if there is one.                  *)
LEMMA FreshIs ==
  ASSUME NEW S, NEW used, ~(S \subseteq used)
  PROVE  Fresh(S, used) \in S /\ Fresh(S, used) \notin used
BY DEF Fresh

(* Every request is well formed.                                           *)
LEMMA AtRequest ==
  ASSUME ContactsTypeOK
  PROVE  \A q \in Requests : WellFormed(req[q])
<1>1. ASSUME NEW q \in Requests PROVE WellFormed(req[q])
  <2>1. req[q] \in {Idle} \cup Creation \cup Routed \cup Cleaning
    BY DEF ContactsTypeOK
  <2> QED
    BY <2>1, RequestShape
<1> QED
  BY <1>1

(* The next avatar is new.                                                 *)
LEMMA AvatarLeft ==
  ASSUME ContactsTypeOK, drawn # Avatars
  PROVE  Fresh(Avatars, drawn) \in Avatars /\ Fresh(Avatars, drawn) \notin drawn
<1>1. ~(Avatars \subseteq drawn)
  BY DEF ContactsTypeOK
<1> QED
  BY <1>1, FreshIs

(* Every registration is well formed.                                      *)
LEMMA AtAct ==
  ASSUME N!NamesTypeOK
  PROVE  \A r \in Registrars : ActFormed(act[r])
<1>1. ASSUME NEW r \in Registrars PROVE ActFormed(act[r])
  <2>1. act[r] \in {N!NoAct} \cup N!Drawing \cup N!Creating \cup N!Renaming
    BY DEF N!NamesTypeOK
  <2> QED
    BY <2>1, ActShape
<1> QED
  BY <1>1

(* Rows of a kind have different names.                                    *)
Distinct ==
    \A c, d \in Present :
         Kin(c) = Kin(d) /\ rows[c].name = rows[d].name => c = d

(* A row that gets another avatar keeps its name.                          *)
LEMMA WithAvatar ==
  ASSUME NEW x \in Row, NEW a \in Avatars \cup {NoAvatar}
  PROVE  /\ [x EXCEPT !.avatar = a] \in Row
         /\ [x EXCEPT !.avatar = a].avatar = a
         /\ [x EXCEPT !.avatar = a].name = x.name
BY DEF Row

(* A row that gets another name keeps its avatar.                          *)
LEMMA WithName ==
  ASSUME NEW x \in Row, NEW n \in Names
  PROVE  /\ [x EXCEPT !.name = n] \in Row
         /\ [x EXCEPT !.name = n].name = n
         /\ [x EXCEPT !.name = n].avatar = x.avatar
BY DEF Row

(* A full save writes back the name and the avatar that were read.         *)
LEMMA SavedRow ==
  ASSUME ContactsTypeOK, NEW q \in Requests, req[q].at = "save"
  PROVE  /\ Saved(q) \in Row
         /\ Saved(q).name = req[q].seen.name
         /\ Saved(q).avatar = req[q].seen.avatar
<1>1. req[q] \in Routed /\ req[q].seen \in Row
      /\ req[q].text \in Texts \cup {Unset}
  BY AtRequest DEF WellFormed
<1> QED
  BY <1>1 DEF Saved, Row

(* The types of contacts, users and their requests. A name is inserted     *)
(* only when it is free: the unique constraint refuses it otherwise.       *)
LEMMA ContactTypeStep ==
  ASSUME ContactsTypeOK, PutsOne, NameInv, Next
  PROVE  ContactsTypeOK'
<1> USE DEF contactVars
<1>1. ASSUME NEW q \in Requests, NEW x \in Texts,
             BeginCreate(q, x), UNCHANGED nameVars
      PROVE  ContactsTypeOK'
  <2>0. WellFormed(req[q])
    BY AtRequest
  <2>a. FirstFree(Taken(ContactIds)) \in Names
    BY ANameIsFree, FirstFreeIsFree DEF ContactsTypeOK
  <2>1. req' \in [Requests -> {Idle} \cup Creation \cup Routed \cup Cleaning]
    BY <1>1, <2>0, <2>a, ContactsAssumption
       DEF BeginCreate, Active, Go, KeepRows, KeepBucket, WellFormed, Idle,
           Creation, Routed, Cleaning, ContactsTypeOK, Present
  <2>2. rows' \in [Owners -> Row \cup {NoRow}]
    BY <1>1, <2>0, <2>a, FreshIs
       DEF BeginCreate, Active, Go, KeepRows, KeepBucket, WellFormed, Row,
           ContactsTypeOK
  <2>3. /\ Present' \subseteq created' /\ created' \subseteq Owners
        /\ files' \subseteq drawn' /\ drawn' \subseteq Avatars
        /\ overwritten' \subseteq Owners /\ stray' \subseteq Avatars
    BY <1>1, <2>0, <2>a
       DEF BeginCreate, Active, Go, KeepRows, KeepBucket, WellFormed,
           ContactsTypeOK, Present, Row
  <2>4. Distinct'
    BY <1>1, <2>0, <2>a, ContactsAssumption
       DEF BeginCreate, Active, Go, KeepRows, KeepBucket, WellFormed, Distinct,
           Kin, Taken, ContactsTypeOK, Present, Owners
  <2> QED
    BY <2>1, <2>2, <2>3, <2>4 DEF Distinct, ContactsTypeOK
<1>2. ASSUME NEW q \in Requests, NEW c \in Owners,
             NEW at \in {"save", "put", "clear_avatar", "delete"},
             NEW x \in Texts \cup {Unset},
             Begin(q, c, at, x), at = "delete" =>
                c \in ContactIds, UNCHANGED nameVars
      PROVE  ContactsTypeOK'
  <2>0. WellFormed(req[q])
    BY AtRequest
  <2>1. req' \in [Requests -> {Idle} \cup Creation \cup Routed \cup Cleaning]
    BY <1>2, <2>0
       DEF Begin, Active, Go, KeepRows, KeepBucket, WellFormed, Idle, Creation,
           Routed, Cleaning, ContactsTypeOK, Present
  <2>2. rows' \in [Owners -> Row \cup {NoRow}]
    BY <1>2, <2>0, FreshIs
       DEF Begin, Active, Go, KeepRows, KeepBucket, WellFormed, Row,
           ContactsTypeOK
  <2>3. /\ Present' \subseteq created' /\ created' \subseteq Owners
        /\ files' \subseteq drawn' /\ drawn' \subseteq Avatars
        /\ overwritten' \subseteq Owners /\ stray' \subseteq Avatars
    BY <1>2, <2>0
       DEF Begin, Active, Go, KeepRows, KeepBucket, WellFormed, ContactsTypeOK,
           Present, Row
  <2>4. Distinct'
    BY <1>2, <2>0, ContactsAssumption
       DEF Begin, Active, Go, KeepRows, KeepBucket, WellFormed, Distinct, Kin,
           Taken, ContactsTypeOK, Present, Owners
  <2> QED
    BY <2>1, <2>2, <2>3, <2>4 DEF Distinct, ContactsTypeOK
<1>3. ASSUME NEW q \in Requests,
             Insert(q), UNCHANGED nameVars
      PROVE  ContactsTypeOK'
  <2>0. WellFormed(req[q])
    BY AtRequest
  <2>1. req' \in [Requests -> {Idle} \cup Creation \cup Routed \cup Cleaning]
    BY <1>3, <2>0
       DEF Insert, Go, KeepRows, KeepBucket, WellFormed, Idle, Creation,
           Routed, Cleaning, ContactsTypeOK, Present
  <2>2. rows' \in [Owners -> Row \cup {NoRow}]
    BY <1>3, <2>0, FreshIs
       DEF Insert, Go, KeepRows, KeepBucket, WellFormed, Row, ContactsTypeOK
  <2>a. /\ Fresh(ContactIds, created) \in Owners
        /\ Fresh(ContactIds, created) \notin created
    BY <1>3, FreshIs DEF Insert, Go, KeepRows, KeepBucket, Owners
  <2>3. /\ Present' \subseteq created' /\ created' \subseteq Owners
        /\ files' \subseteq drawn' /\ drawn' \subseteq Avatars
        /\ overwritten' \subseteq Owners /\ stray' \subseteq Avatars
    BY <1>3, <2>0, <2>a
       DEF Insert, Go, KeepRows, KeepBucket, WellFormed, ContactsTypeOK,
           Present, Row
  <2>4. Distinct'
    BY <1>3, <2>0, <2>a, NoRowAssumption, FreshIs, ContactsAssumption
       DEF Insert, Go, KeepRows, KeepBucket, WellFormed, Distinct, Kin, Taken,
           ContactsTypeOK, Present, Owners
  <2> QED
    BY <2>1, <2>2, <2>3, <2>4 DEF Distinct, ContactsTypeOK
<1>4. ASSUME NEW q \in Requests, NEW n \in Names,
             InsertConflicts(q, n), UNCHANGED nameVars
      PROVE  ContactsTypeOK'
  <2>0. WellFormed(req[q])
    BY AtRequest
  <2>a. /\ req[q] \in Creation /\ req[q].tried \in 0..(Attempts - 1)
        /\ req[q].tried + 1 < Attempts =>
              req[q].tried + 1 \in 0..(Attempts - 1)
    BY <1>4, <2>0, ContactsAssumption
       DEF InsertConflicts, Go, KeepRows, KeepBucket, WellFormed
  <2>1. req' \in [Requests -> {Idle} \cup Creation \cup Routed \cup Cleaning]
    BY <1>4, <2>0, <2>a
       DEF InsertConflicts, Go, KeepRows, KeepBucket, WellFormed, Idle,
           Creation, Routed, Cleaning, ContactsTypeOK, Present
  <2>2. rows' \in [Owners -> Row \cup {NoRow}]
    BY <1>4, <2>0, FreshIs
       DEF InsertConflicts, Go, KeepRows, KeepBucket, WellFormed, Row,
           ContactsTypeOK
  <2>3. /\ Present' \subseteq created' /\ created' \subseteq Owners
        /\ files' \subseteq drawn' /\ drawn' \subseteq Avatars
        /\ overwritten' \subseteq Owners /\ stray' \subseteq Avatars
    BY <1>4, <2>0
       DEF InsertConflicts, Go, KeepRows, KeepBucket, WellFormed,
           ContactsTypeOK, Present, Row
  <2>4. Distinct'
    BY <1>4, <2>0, ContactsAssumption
       DEF InsertConflicts, Go, KeepRows, KeepBucket, WellFormed, Distinct,
           Kin, Taken, ContactsTypeOK, Present, Owners
  <2> QED
    BY <2>1, <2>2, <2>3, <2>4 DEF Distinct, ContactsTypeOK
<1>5. ASSUME NEW q \in Requests,
             PutAvatar(q), UNCHANGED nameVars
      PROVE  ContactsTypeOK'
  <2>0. WellFormed(req[q])
    BY AtRequest
  <2>a. drawn # Avatars
    BY <1>5 DEF PutAvatar, Go, KeepRows, KeepBucket
  <2>b. Fresh(Avatars, drawn) \in Avatars
    BY <2>a, AvatarLeft
  <2>1. req' \in [Requests -> {Idle} \cup Creation \cup Routed \cup Cleaning]
    BY <1>5, <2>0, <2>b
       DEF PutAvatar, Go, KeepRows, KeepBucket, WellFormed, Idle, Creation,
           Routed, Cleaning, ContactsTypeOK, Present
  <2>2. rows' \in [Owners -> Row \cup {NoRow}]
    BY <1>5, <2>0, <2>b, FreshIs
       DEF PutAvatar, Go, KeepRows, KeepBucket, WellFormed, Row, ContactsTypeOK
  <2>3. /\ Present' \subseteq created' /\ created' \subseteq Owners
        /\ files' \subseteq drawn' /\ drawn' \subseteq Avatars
        /\ overwritten' \subseteq Owners /\ stray' \subseteq Avatars
    BY <1>5, <2>0, <2>b
       DEF PutAvatar, Go, KeepRows, KeepBucket, WellFormed, ContactsTypeOK,
           Present, Row
  <2>4. Distinct'
    BY <1>5, <2>0, <2>b, ContactsAssumption
       DEF PutAvatar, Go, KeepRows, KeepBucket, WellFormed, Distinct, Kin,
           Taken, ContactsTypeOK, Present, Owners
  <2> QED
    BY <2>1, <2>2, <2>3, <2>4 DEF Distinct, ContactsTypeOK
<1>6. ASSUME NEW q \in Requests, NEW landed \in BOOLEAN,
             PutFails(q, landed), UNCHANGED nameVars
      PROVE  ContactsTypeOK'
  <2>0. WellFormed(req[q])
    BY AtRequest
  <2>a. drawn # Avatars
    BY <1>6 DEF PutFails, Go, KeepRows, KeepBucket
  <2>b. Fresh(Avatars, drawn) \in Avatars
    BY <2>a, AvatarLeft
  <2>1. req' \in [Requests -> {Idle} \cup Creation \cup Routed \cup Cleaning]
    BY <1>6, <2>0, <2>b
       DEF PutFails, Go, KeepRows, KeepBucket, WellFormed, Idle, Creation,
           Routed, Cleaning, ContactsTypeOK, Present
  <2>2. rows' \in [Owners -> Row \cup {NoRow}]
    BY <1>6, <2>0, <2>b, FreshIs
       DEF PutFails, Go, KeepRows, KeepBucket, WellFormed, Row, ContactsTypeOK
  <2>3. /\ Present' \subseteq created' /\ created' \subseteq Owners
        /\ files' \subseteq drawn' /\ drawn' \subseteq Avatars
        /\ overwritten' \subseteq Owners /\ stray' \subseteq Avatars
    BY <1>6, <2>0, <2>b
       DEF PutFails, Go, KeepRows, KeepBucket, WellFormed, ContactsTypeOK,
           Present, Row
  <2>4. Distinct'
    BY <1>6, <2>0, <2>b, ContactsAssumption
       DEF PutFails, Go, KeepRows, KeepBucket, WellFormed, Distinct, Kin,
           Taken, ContactsTypeOK, Present, Owners
  <2> QED
    BY <2>1, <2>2, <2>3, <2>4 DEF Distinct, ContactsTypeOK
<1>7. ASSUME NEW q \in Requests,
             SaveAvatar(q), UNCHANGED nameVars
      PROVE  ContactsTypeOK'
  <2>0. WellFormed(req[q])
    BY AtRequest
  <2>1. req' \in [Requests -> {Idle} \cup Creation \cup Routed \cup Cleaning]
    BY <1>7, <2>0
       DEF SaveAvatar, SetAvatar, Lose, Current, CleanUp, Go, KeepRows,
           KeepBucket, WellFormed, Idle, Cleaning, ContactsTypeOK
  <2>2. /\ req[q].contact \in Present /\ rows[req[q].contact] \in Row
        /\ req[q].new \in Avatars \cup {NoAvatar}
    BY <1>7, <2>0
       DEF SaveAvatar, SetAvatar, Lose, Current, CleanUp, Go, KeepRows,
           KeepBucket, WellFormed, ContactsTypeOK, Present, PutsOne
  <2>3. [rows[req[q].contact] EXCEPT !.avatar = req[q].new] \in Row
    BY <2>2, WithAvatar
  <2>4. rows' = [rows EXCEPT ![req[q].contact] =
                   [rows[req[q].contact] EXCEPT !.avatar = req[q].new]]
    BY <1>7, <2>2
       DEF SaveAvatar, SetAvatar, Lose, Current, CleanUp, Go, KeepRows,
           KeepBucket
  <2>5. rows' \in [Owners -> Row \cup {NoRow}] /\ Present' = Present
    BY <2>2, <2>3, <2>4, NoRowAssumption DEF Present, ContactsTypeOK
  <2>6. Distinct'
    BY <2>2, <2>4, <2>5, WithAvatar DEF Distinct, Kin, Present, ContactsTypeOK
  <2>7. /\ created' \subseteq Owners /\ Present' \subseteq created'
        /\ files' \subseteq drawn' /\ drawn' \subseteq Avatars
        /\ overwritten' \subseteq Owners /\ stray' \subseteq Avatars
    BY <1>7, <2>0, <2>2, <2>5
       DEF SaveAvatar, SetAvatar, Lose, Current, CleanUp, Go, KeepRows,
           KeepBucket, WellFormed, ContactsTypeOK, Row
  <2> QED
    BY <2>1, <2>5, <2>6, <2>7 DEF Distinct, ContactsTypeOK
<1>8. ASSUME NEW q \in Requests,
             SaveAvatarReplyLost(q), UNCHANGED nameVars
      PROVE  ContactsTypeOK'
  <2>0. WellFormed(req[q])
    BY AtRequest
  <2>1. req' \in [Requests -> {Idle} \cup Creation \cup Routed \cup Cleaning]
    BY <1>8, <2>0
       DEF SaveAvatarReplyLost, Go, KeepRows, KeepBucket, WellFormed, Idle,
           Cleaning, ContactsTypeOK
  <2>2. /\ req[q].contact \in Present /\ rows[req[q].contact] \in Row
        /\ req[q].new \in Avatars \cup {NoAvatar}
    BY <1>8, <2>0
       DEF SaveAvatarReplyLost, Go, KeepRows, KeepBucket, WellFormed,
           ContactsTypeOK, Present, PutsOne
  <2>3. [rows[req[q].contact] EXCEPT !.avatar = req[q].new] \in Row
    BY <2>2, WithAvatar
  <2>4. rows' = [rows EXCEPT ![req[q].contact] =
                   [rows[req[q].contact] EXCEPT !.avatar = req[q].new]]
    BY <1>8, <2>2 DEF SaveAvatarReplyLost, Go, KeepRows, KeepBucket
  <2>5. rows' \in [Owners -> Row \cup {NoRow}] /\ Present' = Present
    BY <2>2, <2>3, <2>4, NoRowAssumption DEF Present, ContactsTypeOK
  <2>6. Distinct'
    BY <2>2, <2>4, <2>5, WithAvatar DEF Distinct, Kin, Present, ContactsTypeOK
  <2>7. /\ created' \subseteq Owners /\ Present' \subseteq created'
        /\ files' \subseteq drawn' /\ drawn' \subseteq Avatars
        /\ overwritten' \subseteq Owners /\ stray' \subseteq Avatars
    BY <1>8, <2>0, <2>2, <2>5
       DEF SaveAvatarReplyLost, Go, KeepRows, KeepBucket, WellFormed,
           ContactsTypeOK, Row
  <2> QED
    BY <2>1, <2>5, <2>6, <2>7 DEF Distinct, ContactsTypeOK
<1>9. ASSUME NEW q \in Requests,
             ClearAvatar(q), UNCHANGED nameVars
      PROVE  ContactsTypeOK'
  <2>0. WellFormed(req[q])
    BY AtRequest
  <2>1. req' \in [Requests -> {Idle} \cup Creation \cup Routed \cup Cleaning]
    BY <1>9, <2>0
       DEF ClearAvatar, SetAvatar, Lose, Current, CleanUp, Go, KeepRows,
           KeepBucket, WellFormed, Idle, Cleaning, ContactsTypeOK
  <2>2. /\ req[q].contact \in Present /\ rows[req[q].contact] \in Row
        /\ NoAvatar \in Avatars \cup {NoAvatar}
    BY <1>9, <2>0
       DEF ClearAvatar, SetAvatar, Lose, Current, CleanUp, Go, KeepRows,
           KeepBucket, WellFormed, ContactsTypeOK, Present, PutsOne
  <2>3. [rows[req[q].contact] EXCEPT !.avatar = NoAvatar] \in Row
    BY <2>2, WithAvatar
  <2>4. rows' = [rows EXCEPT ![req[q].contact] =
                   [rows[req[q].contact] EXCEPT !.avatar = NoAvatar]]
    BY <1>9, <2>2
       DEF ClearAvatar, SetAvatar, Lose, Current, CleanUp, Go, KeepRows,
           KeepBucket
  <2>5. rows' \in [Owners -> Row \cup {NoRow}] /\ Present' = Present
    BY <2>2, <2>3, <2>4, NoRowAssumption DEF Present, ContactsTypeOK
  <2>6. Distinct'
    BY <2>2, <2>4, <2>5, WithAvatar DEF Distinct, Kin, Present, ContactsTypeOK
  <2>7. /\ created' \subseteq Owners /\ Present' \subseteq created'
        /\ files' \subseteq drawn' /\ drawn' \subseteq Avatars
        /\ overwritten' \subseteq Owners /\ stray' \subseteq Avatars
    BY <1>9, <2>0, <2>2, <2>5
       DEF ClearAvatar, SetAvatar, Lose, Current, CleanUp, Go, KeepRows,
           KeepBucket, WellFormed, ContactsTypeOK, Row
  <2> QED
    BY <2>1, <2>5, <2>6, <2>7 DEF Distinct, ContactsTypeOK
<1>10. ASSUME NEW q \in Requests, NEW fails \in BOOLEAN,
             SaveAvatarFails(q, fails), UNCHANGED nameVars
      PROVE  ContactsTypeOK'
  <2>0. WellFormed(req[q])
    BY AtRequest
  <2>1. req' \in [Requests -> {Idle} \cup Creation \cup Routed \cup Cleaning]
    BY <1>10, <2>0
       DEF SaveAvatarFails, Go, KeepRows, KeepBucket, WellFormed, Idle,
           Creation, Routed, Cleaning, ContactsTypeOK, Present
  <2>2. rows' \in [Owners -> Row \cup {NoRow}]
    BY <1>10, <2>0, FreshIs
       DEF SaveAvatarFails, Go, KeepRows, KeepBucket, WellFormed, Row,
           ContactsTypeOK
  <2>3. /\ Present' \subseteq created' /\ created' \subseteq Owners
        /\ files' \subseteq drawn' /\ drawn' \subseteq Avatars
        /\ overwritten' \subseteq Owners /\ stray' \subseteq Avatars
    BY <1>10, <2>0
       DEF SaveAvatarFails, Go, KeepRows, KeepBucket, WellFormed,
           ContactsTypeOK, Present, PutsOne
  <2>4. Distinct'
    BY <1>10, <2>0, ContactsAssumption
       DEF SaveAvatarFails, Go, KeepRows, KeepBucket, WellFormed, Distinct,
           Kin, Taken, ContactsTypeOK, Present, Owners
  <2> QED
    BY <2>1, <2>2, <2>3, <2>4 DEF Distinct, ContactsTypeOK
<1>11. ASSUME NEW q \in Requests, NEW fails \in BOOLEAN,
             DeleteFiles(q, fails), UNCHANGED nameVars
      PROVE  ContactsTypeOK'
  <2>0. WellFormed(req[q])
    BY AtRequest
  <2>1. req' \in [Requests -> {Idle} \cup Creation \cup Routed \cup Cleaning]
    BY <1>11, <2>0
       DEF DeleteFiles, Go, KeepRows, KeepBucket, WellFormed, Idle, Creation,
           Routed, Cleaning, ContactsTypeOK, Present
  <2>2. rows' \in [Owners -> Row \cup {NoRow}]
    BY <1>11, <2>0, FreshIs
       DEF DeleteFiles, Go, KeepRows, KeepBucket, WellFormed, Row,
           ContactsTypeOK
  <2>3. /\ Present' \subseteq created' /\ created' \subseteq Owners
        /\ files' \subseteq drawn' /\ drawn' \subseteq Avatars
        /\ overwritten' \subseteq Owners /\ stray' \subseteq Avatars
    BY <1>11, <2>0
       DEF DeleteFiles, Go, KeepRows, KeepBucket, WellFormed, ContactsTypeOK,
           Present, Row
  <2>4. Distinct'
    BY <1>11, <2>0, ContactsAssumption
       DEF DeleteFiles, Go, KeepRows, KeepBucket, WellFormed, Distinct, Kin,
           Taken, ContactsTypeOK, Present, Owners
  <2> QED
    BY <2>1, <2>2, <2>3, <2>4 DEF Distinct, ContactsTypeOK
<1>12. ASSUME NEW q \in Requests,
             Unheld(q), Save(q), UNCHANGED nameVars
      PROVE  ContactsTypeOK'
  <2>0. WellFormed(req[q])
    BY AtRequest
  <2>1. req' \in [Requests -> {Idle} \cup Creation \cup Routed \cup Cleaning]
    BY <1>12 DEF Save, Go, ContactsTypeOK
  <2>2. CASE rows' = rows /\ UNCHANGED <<created, overwritten, files, drawn, stray>>
    BY <2>1, <2>2 DEF ContactsTypeOK, Present
  <2>3. CASE /\ req[q].seen.name \notin Taken(Kin(req[q].contact) \ {req[q].contact})
             /\ rows' = [rows EXCEPT ![req[q].contact] = Saved(q)]
             /\ overwritten' \subseteq overwritten \cup {req[q].contact}
             /\ Lose(q) /\ UNCHANGED <<created, files, drawn>>
    <3>1. /\ req[q].contact \in Owners /\ req[q].contact \in created
          /\ Saved(q) \in Row /\ Saved(q).name = req[q].seen.name
      BY <1>12, <2>0, SavedRow DEF Save, WellFormed, NameInv, KnownRows, About
    <3>2. /\ rows' \in [Owners -> Row \cup {NoRow}]
          /\ Present' = Present \cup {req[q].contact}
      BY <2>3, <3>1, NoRowAssumption DEF ContactsTypeOK, Present
    <3>3. stray' \subseteq Avatars
      BY <2>3, <3>1 DEF Lose, Current, ContactsTypeOK, Row
    <3>4. Distinct'
      <4> DEFINE c == req[q].contact
      <4>1. ASSUME NEW d \in Present, d # c, Kin(d) = Kin(c)
            PROVE  rows[d].name # Saved(q).name
        <5>1. d \in Present \cap (Kin(c) \ {c})
          BY <4>1 DEF Kin, Present, Owners
        <5> QED
          BY <2>3, <3>1, <5>1 DEF Taken
      <4>2. \A d \in Present' : d # c => d \in Present /\ rows'[d] = rows[d]
        BY <2>3, <3>1, <3>2 DEF ContactsTypeOK
      <4>3. rows'[c] = Saved(q)
        BY <2>3, <3>1 DEF ContactsTypeOK
      <4> QED
        BY <4>1, <4>2, <4>3 DEF Distinct, Kin, ContactsTypeOK
    <3>5. /\ Present' \subseteq created' /\ created' \subseteq Owners
          /\ files' \subseteq drawn' /\ drawn' \subseteq Avatars
          /\ overwritten' \subseteq Owners
      BY <2>3, <3>1, <3>2 DEF ContactsTypeOK
    <3> QED
      BY <2>1, <3>2, <3>3, <3>4, <3>5 DEF Distinct, ContactsTypeOK
  <2> QED
    BY <1>12, <2>2, <2>3 DEF Save, KeepRows, KeepBucket
<1>13. ASSUME NEW q \in Requests,
             Fail(q), UNCHANGED nameVars
      PROVE  ContactsTypeOK'
  <2>0. WellFormed(req[q])
    BY AtRequest
  <2>1. req' \in [Requests -> {Idle} \cup Creation \cup Routed \cup Cleaning]
    BY <1>13, <2>0
       DEF Fail, Active, Go, KeepRows, KeepBucket, WellFormed, Idle, Creation,
           Routed, Cleaning, ContactsTypeOK, Present
  <2>2. rows' \in [Owners -> Row \cup {NoRow}]
    BY <1>13, <2>0, FreshIs
       DEF Fail, Active, Go, KeepRows, KeepBucket, WellFormed, Row,
           ContactsTypeOK
  <2>3. /\ Present' \subseteq created' /\ created' \subseteq Owners
        /\ files' \subseteq drawn' /\ drawn' \subseteq Avatars
        /\ overwritten' \subseteq Owners /\ stray' \subseteq Avatars
    BY <1>13, <2>0
       DEF Fail, Active, Go, KeepRows, KeepBucket, WellFormed, ContactsTypeOK,
           Present, PutsOne
  <2>4. Distinct'
    BY <1>13, <2>0, ContactsAssumption
       DEF Fail, Active, Go, KeepRows, KeepBucket, WellFormed, Distinct, Kin,
           Taken, ContactsTypeOK, Present, Owners
  <2> QED
    BY <2>1, <2>2, <2>3, <2>4 DEF Distinct, ContactsTypeOK
<1>14. ASSUME NEW r \in Registrars,
             N!Register(r),
             UNCHANGED <<files, drawn, req, overwritten, stray>>
      PROVE  ContactsTypeOK'
  BY <1>14 DEF N!Register, N!KeepAccounts, N!Go, ContactsTypeOK, Present
<1>15. ASSUME NEW r \in Registrars,
             N!InsertUser(r),
             UNCHANGED <<files, drawn, req, overwritten, stray>>
      PROVE  ContactsTypeOK'
  <2>0. ActFormed(act[r])
    BY AtAct DEF NameInv
  <2>2. rows' \in [Owners -> Row \cup {NoRow}]
    BY <1>15, <2>0, FreshIs
       DEF N!InsertUser, N!Go, ActFormed, Row, ContactsTypeOK, NameInv,
           N!NamesTypeOK
  <2>3. Present' \subseteq created' /\ created' \subseteq Owners
    BY <1>15, <2>0
       DEF N!InsertUser, N!Go, ActFormed, NameInv, N!NamesTypeOK, Reserved,
           N!Pending, ContactsTypeOK, Present, Owners
  <2>4. Distinct'
    BY <1>15, <2>0, ContactsAssumption
       DEF N!InsertUser, N!Go, ActFormed, Distinct, Kin, NameInv, Reserved,
           N!Pending, N!Usernames, N!Users, ContactsTypeOK, Present, Owners
  <2> QED
    BY <1>15, <2>2, <2>3, <2>4 DEF Distinct, ContactsTypeOK
<1>16. ASSUME NEW r \in Registrars,
             N!InsertOrg(r),
             UNCHANGED <<files, drawn, req, overwritten, stray>>
      PROVE  ContactsTypeOK'
  BY <1>16 DEF N!InsertOrg, N!KeepAccounts, N!Go, ContactsTypeOK, Present
<1>17. ASSUME NEW r \in Registrars,
             N!Rename(r),
             UNCHANGED <<files, drawn, req, overwritten, stray>>
      PROVE  ContactsTypeOK'
  <2>0. ActFormed(act[r])
    BY AtAct DEF NameInv
  <2>1. CASE rows' = rows
    BY <1>17, <2>1 DEF N!Rename, ContactsTypeOK, Present
  <2>2. CASE /\ act[r].name \notin N!Usernames(UserIds \ {act[r].user})
             /\ act[r].user \in N!Users
             /\ rows' = [rows EXCEPT ![act[r].user].name = act[r].name]
    <3>1. /\ act[r].user \in UserIds /\ act[r].user \in Present
          /\ rows[act[r].user] \in Row /\ act[r].name \in Names
      BY <1>17, <2>0, <2>2 DEF N!Rename, ActFormed, N!Users, Present, Owners,
         ContactsTypeOK
    <3>2. rows' = [rows EXCEPT ![act[r].user] =
                     [rows[act[r].user] EXCEPT !.name = act[r].name]]
      BY <2>2
    <3>3. rows' \in [Owners -> Row \cup {NoRow}] /\ Present' = Present
      BY <3>1, <3>2, WithName, NoRowAssumption DEF Present, ContactsTypeOK
    <3>4. Distinct'
      BY <2>2, <3>1, <3>2, <3>3, WithName, ContactsAssumption
         DEF Distinct, Kin, Present, N!Usernames, N!Users, ContactsTypeOK, Owners
    <3> QED
      BY <1>17, <3>3, <3>4 DEF N!Rename, Distinct, ContactsTypeOK
  <2> QED
    BY <1>17, <2>1, <2>2 DEF N!Rename
<1>18. ASSUME NEW r \in Registrars,
             N!Abort(r),
             UNCHANGED <<files, drawn, req, overwritten, stray>>
      PROVE  ContactsTypeOK'
  BY <1>18 DEF N!Abort, N!KeepAccounts, N!Go, ContactsTypeOK, Present
<1>19. ASSUME NEW r \in Registrars, NEW u \in UserIds, NEW n \in Names,
             N!CheckName(r, u, n),
             UNCHANGED <<files, drawn, req, overwritten, stray>>
      PROVE  ContactsTypeOK'
  BY <1>19 DEF N!CheckName, N!KeepAccounts, N!Go, ContactsTypeOK, Present
<1>20. ASSUME NEW r \in Registrars, NEW n \in Names,
             N!InsertUserConflicts(r, n),
             UNCHANGED <<files, drawn, req, overwritten, stray>>
      PROVE  ContactsTypeOK'
  BY <1>20
     DEF N!InsertUserConflicts, N!TryAgain, N!KeepAccounts, N!Go,
         ContactsTypeOK, Present
<1>21. ASSUME NEW r \in Registrars, NEW n \in Names,
             N!InsertOrgConflicts(r, n),
             UNCHANGED <<files, drawn, req, overwritten, stray>>
      PROVE  ContactsTypeOK'
  BY <1>21
     DEF N!InsertOrgConflicts, N!TryAgain, N!KeepAccounts, N!Go,
         ContactsTypeOK, Present
<1>22. ASSUME NEW r \in Registrars, NEW x \in Texts,
             N!CommitRegistration(r, x),
             UNCHANGED <<files, drawn, req, overwritten, stray>>
      PROVE  ContactsTypeOK'
  <2>0. ActFormed(act[r])
    BY AtAct DEF NameInv
  <2>2. rows' \in [Owners -> Row \cup {NoRow}]
    BY <1>22, <2>0, FreshIs
       DEF N!CommitRegistration, N!Go, ActFormed, Row, ContactsTypeOK, NameInv,
           N!NamesTypeOK
  <2>3. Present' \subseteq created' /\ created' \subseteq Owners
    BY <1>22, <2>0
       DEF N!CommitRegistration, N!Go, ActFormed, NameInv, N!NamesTypeOK,
           Reserved, N!Pending, ContactsTypeOK, Present, Owners
  <2>4. Distinct'
    BY <1>22, <2>0, ContactsAssumption
       DEF N!CommitRegistration, N!Go, ActFormed, Distinct, Kin, NameInv,
           Reserved, N!Pending, N!Usernames, N!Users, ContactsTypeOK, Present,
           Owners
  <2> QED
    BY <1>22, <2>2, <2>3, <2>4 DEF Distinct, ContactsTypeOK
<1>23. ASSUME NEW n \in Names,
             N!CreateGroup(n),
             UNCHANGED <<files, drawn, req, overwritten, stray>>
      PROVE  ContactsTypeOK'
  BY <1>23 DEF N!CreateGroup, N!Go, ContactsTypeOK, Present
<1>24. ASSUME NEW q \in Requests,
             Delete(q), T!ContactDeleted(req[q].contact), UNCHANGED nameVars
      PROVE  ContactsTypeOK'
  <2>0. WellFormed(req[q])
    BY AtRequest
  <2>1. req' \in [Requests -> {Idle} \cup Creation \cup Routed \cup Cleaning]
    BY <1>24, <2>0
       DEF Delete, Lose, Current, CleanUp, Go, WellFormed, Idle, Creation,
           Routed, Cleaning, ContactsTypeOK, Present
  <2>2. rows' \in [Owners -> Row \cup {NoRow}]
    BY <1>24, <2>0, FreshIs
       DEF Delete, Lose, Current, CleanUp, Go, WellFormed, Row, ContactsTypeOK
  <2>3. /\ Present' \subseteq created' /\ created' \subseteq Owners
        /\ files' \subseteq drawn' /\ drawn' \subseteq Avatars
        /\ overwritten' \subseteq Owners /\ stray' \subseteq Avatars
    BY <1>24, <2>0
       DEF Delete, Lose, Current, CleanUp, Go, WellFormed, ContactsTypeOK,
           Present, Row
  <2>4. Distinct'
    BY <1>24, <2>0, ContactsAssumption
       DEF Delete, Lose, Current, CleanUp, Go, WellFormed, Distinct, Kin,
           Taken, ContactsTypeOK, Present, Owners
  <2> QED
    BY <2>1, <2>2, <2>3, <2>4 DEF Distinct, ContactsTypeOK
<1>25. ASSUME NEW q \in Requests, NEW u \in UserIds,
             DeleteUser(q, u), N!UserDeleted(u)
      PROVE  ContactsTypeOK'
  <2>0. WellFormed(req[q])
    BY AtRequest
  <2>a. rows[u] \in Row /\ rows[u].avatar \in Avatars \cup {NoAvatar}
    BY <1>25, NoRowAssumption
       DEF DeleteUser, N!UserDeleted, CleanUp, Active, Go, KeepBucket,
           ContactsTypeOK, Present, Row
  <2>1. req' \in [Requests -> {Idle} \cup Creation \cup Routed \cup Cleaning]
    BY <1>25, <2>0, <2>a
       DEF DeleteUser, N!UserDeleted, CleanUp, Active, Go, KeepBucket,
           WellFormed, Idle, Creation, Routed, Cleaning, ContactsTypeOK,
           Present
  <2>2. rows' \in [Owners -> Row \cup {NoRow}]
    BY <1>25, <2>0, FreshIs
       DEF DeleteUser, N!UserDeleted, CleanUp, Active, Go, KeepBucket,
           WellFormed, Row, ContactsTypeOK
  <2>3. /\ Present' \subseteq created' /\ created' \subseteq Owners
        /\ files' \subseteq drawn' /\ drawn' \subseteq Avatars
        /\ overwritten' \subseteq Owners /\ stray' \subseteq Avatars
    BY <1>25, <2>0
       DEF DeleteUser, N!UserDeleted, CleanUp, Active, Go, KeepBucket,
           WellFormed, ContactsTypeOK, Present, Row
  <2>4. Distinct'
    BY <1>25, <2>0, ContactsAssumption
       DEF DeleteUser, N!UserDeleted, CleanUp, Active, Go, KeepBucket,
           WellFormed, Distinct, Kin, Taken, ContactsTypeOK, Present, Owners
  <2> QED
    BY <2>1, <2>2, <2>3, <2>4 DEF Distinct, ContactsTypeOK
<1>26. CASE UNCHANGED <<contactVars, nameVars>>
  BY <1>26 DEF contactVars, nameVars, ContactsTypeOK, Present
<1> QED
  BY ONLY <1>1, <1>2, <1>3, <1>4, <1>5, <1>6, <1>7, <1>8, <1>9, <1>10, <1>11,
          <1>12, <1>13, <1>14, <1>15, <1>16, <1>17, <1>18, <1>19, <1>20, <1>21,
          <1>22, <1>23, <1>24, <1>25, <1>26, Steps, Next
     DEF ContactNext, ContactEnds, NameNext, AccountEnds, TagNext

(* What a step does to the names of avatars. *)
Held == [c \in Owners |-> Current(c)]

(* Rows name what they named.                                              *)
SameNames == \A c \in Owners : Current(c)' = Current(c)

(* One row names something else.                                           *)
SetsName(c, x) ==
    Held'[c] = x /\ \A d \in Owners \ {c} : Current(d)' = Current(d)

(* A request names what it named.                                          *)
Same(p) == /\ req'[p].contact = req[p].contact /\ Sees(p)' = Sees(p)
           /\ Puts(p)' = Puts(p) /\ Drops(p)' = Drops(p)

(* One request names something else.                                       *)
Becomes(q, sees, puts, drops) ==
    /\ Sees(q)' = sees /\ Puts(q)' = puts /\ Drops(q)' = drops
    /\ \A p \in Requests \ {q} : Same(p)

(* A request names nothing any more.                                       *)
Ends(q) == Becomes(q, NoAvatar, NoAvatar, NoAvatar)

(* What a row loses when it is overwritten by a request that has read it   *)
(* earlier.                                                                *)
Lost(c, q) == {Current(c)} \ {NoAvatar, Sees(q)}

(* A request has only read.                                                *)
NothingNew(q) == Puts(q) = NoAvatar /\ Drops(q) = NoAvatar

(* Nothing; or a request ends, leaving behind what it had. *)
Nothing ==
    /\ SameNames /\ \A p \in Requests : Same(p)
    /\ UNCHANGED <<files, drawn, overwritten, stray>>

(* A request ends; what it had put or was to delete is stray.              *)
Leaves(q) ==
    /\ SameNames /\ Ends(q) /\ overwritten' = overwritten
    /\ files \subseteq files' /\ drawn \subseteq drawn'
    /\ stray \subseteq stray'
    /\ files' \ files \subseteq stray' \cap (Avatars \ drawn)
    /\ {Puts(q), Drops(q)} \subseteq stray' \cup {NoAvatar}

(* A request reads a row.                                                  *)
Reads(q, c) ==
    /\ SameNames /\ Becomes(q, Current(c), NoAvatar, NoAvatar)
    /\ req'[q].contact = c /\ NothingNew(q)
    /\ UNCHANGED <<files, drawn, overwritten, stray>>

(* An upload puts a new avatar.                                            *)
Draws(q, a) ==
    /\ SameNames /\ Becomes(q, Sees(q), a, NoAvatar)
    /\ req'[q].contact = req[q].contact /\ NothingNew(q)
    /\ a \notin drawn /\ files' = files \cup {a} /\ drawn' = drawn \cup {a}
    /\ UNCHANGED <<overwritten, stray>>

(* The row gets what has been put, or nothing; what it had, as it was read, *)
(* will be deleted.                                                         *)
Replaces(q, c, x) ==
    /\ About(q) /\ c = req[q].contact /\ x \in {Puts(q), NoAvatar}
    /\ Puts(q) \in {x, NoAvatar}
    /\ SetsName(c, x) /\ Becomes(q, NoAvatar, NoAvatar, Sees(q))
    /\ stray' = stray \cup Lost(c, q) /\ Drops(q) = NoAvatar
    /\ UNCHANGED <<files, drawn, overwritten>>

(* A request deletes a row, and will delete its avatar.                    *)
Removes(q, u) ==
    /\ NothingNew(q) /\ SetsName(u, NoAvatar)
    /\ Becomes(q, NoAvatar, NoAvatar, Current(u))
    /\ UNCHANGED <<files, drawn, overwritten, stray>>

(* A full save writes back the avatar that was read, whatever the row has  *)
(* now.                                                                    *)
WritesBack(q, c) ==
    /\ About(q) /\ c = req[q].contact /\ NothingNew(q)
    /\ SetsName(c, Sees(q)) /\ Ends(q)
    /\ overwritten \subseteq overwritten'
    /\ Current(c) # Sees(q) => c \in overwritten'
    /\ stray' = stray \cup Lost(c, q)
    /\ UNCHANGED <<files, drawn>>

(* The commit of an upload succeeds and its reply is lost: the upload      *)
(* deletes what it has put, and the row names it.                          *)
LosesReply(q, c) ==
    /\ Puts(q) # NoAvatar /\ Drops(q) = NoAvatar
    /\ SetsName(c, Puts(q)) /\ Ends(q)
    /\ files' = files \ {Puts(q)} /\ drawn' = drawn
    /\ overwritten' = overwritten \cup {c}
    /\ stray' = stray \cup ({Current(c)} \ {NoAvatar})

(* A file is deleted, or its deletion fails and leaves it stray.           *)
DeletesFile(q, a) ==
    /\ SameNames /\ Ends(q)
    /\ a # NoAvatar /\ {Puts(q), Drops(q)} = {a, NoAvatar}
    /\ \/ files' = files \ {a} /\ stray' = stray
       \/ files' = files /\ stray' = stray \cup {a}
    /\ UNCHANGED <<drawn, overwritten>>

(* The effects, one of which every step has.                               *)
Custody ==
    \/ Nothing
    \/ \E q \in Requests :
         \/ Leaves(q)
         \/ \E c \in Owners : \/ Reads(q, c) \/ Removes(q, c)
                              \/ WritesBack(q, c) \/ LosesReply(q, c)
                              \/ \E x \in Avatars \cup {NoAvatar} :
                                    Replaces(q, c, x)
         \/ \E a \in Avatars : Draws(q, a) \/ DeletesFile(q, a)

(* No effect names what has not been drawn.                                *)
LEMMA AvatarsDrawnStep ==
  ASSUME files \subseteq drawn, drawn \subseteq Avatars, AvatarsDrawn,
         NewUnknown, Custody
  PROVE  AvatarsDrawn'
<1> USE ContactsAssumption
        DEF AvatarsDrawn, NewUnknown, SameNames, SetsName, Held, Same, Becomes,
        Ends, Lost, NothingNew
<1>1. CASE Nothing
  BY <1>1 DEF Nothing
<1>2. ASSUME NEW q \in Requests, Leaves(q)
      PROVE  AvatarsDrawn'
  BY <1>2 DEF Leaves
<1>3. ASSUME NEW q \in Requests, NEW c \in Owners, Reads(q, c)
      PROVE  AvatarsDrawn'
  BY <1>3 DEF Reads
<1>4. ASSUME NEW q \in Requests, NEW c \in Owners, Removes(q, c)
      PROVE  AvatarsDrawn'
  BY <1>4 DEF Removes
<1>5. ASSUME NEW q \in Requests, NEW c \in Owners, WritesBack(q, c)
      PROVE  AvatarsDrawn'
  BY <1>5 DEF WritesBack
<1>6. ASSUME NEW q \in Requests, NEW c \in Owners, LosesReply(q, c)
      PROVE  AvatarsDrawn'
  BY <1>6 DEF LosesReply
<1>7. ASSUME NEW q \in Requests, NEW c \in Owners,
             NEW x \in Avatars \cup {NoAvatar}, Replaces(q, c, x)
      PROVE  AvatarsDrawn'
  BY <1>7 DEF Replaces
<1>8. ASSUME NEW q \in Requests, NEW a \in Avatars, Draws(q, a)
      PROVE  AvatarsDrawn'
  BY <1>8 DEF Draws
<1>9. ASSUME NEW q \in Requests, NEW a \in Avatars, DeletesFile(q, a)
      PROVE  AvatarsDrawn'
  BY <1>9 DEF DeletesFile
<1> QED
  BY ONLY <1>1, <1>2, <1>3, <1>4, <1>5, <1>6, <1>7, <1>8, <1>9, Custody
          DEF Custody

(* What one upload draws, nobody else names until it commits.              *)
LEMMA NewUnknownStep ==
  ASSUME files \subseteq drawn, drawn \subseteq Avatars, AvatarsDrawn,
         NewUnknown, OneOwner, Custody
  PROVE  NewUnknown'
<1> USE ContactsAssumption
        DEF AvatarsDrawn, NewUnknown, OneOwner, SameNames, SetsName, Held,
            Same, Becomes,
        Ends, Lost, NothingNew
<1>1. CASE Nothing
  BY <1>1 DEF Nothing
<1>2. ASSUME NEW q \in Requests, Leaves(q)
      PROVE  NewUnknown'
  BY <1>2 DEF Leaves
<1>3. ASSUME NEW q \in Requests, NEW c \in Owners, Reads(q, c)
      PROVE  NewUnknown'
  BY <1>3 DEF Reads
<1>4. ASSUME NEW q \in Requests, NEW c \in Owners, Removes(q, c)
      PROVE  NewUnknown'
  BY <1>4 DEF Removes
<1>5. ASSUME NEW q \in Requests, NEW c \in Owners, WritesBack(q, c)
      PROVE  NewUnknown'
  BY <1>5 DEF WritesBack
<1>6. ASSUME NEW q \in Requests, NEW c \in Owners, LosesReply(q, c)
      PROVE  NewUnknown'
  BY <1>6 DEF LosesReply
<1>7. ASSUME NEW q \in Requests, NEW c \in Owners,
             NEW x \in Avatars \cup {NoAvatar}, Replaces(q, c, x)
      PROVE  NewUnknown'
  BY <1>7 DEF Replaces
<1>8. ASSUME NEW q \in Requests, NEW a \in Avatars, Draws(q, a)
      PROVE  NewUnknown'
  BY <1>8 DEF Draws
<1>9. ASSUME NEW q \in Requests, NEW a \in Avatars, DeletesFile(q, a)
      PROVE  NewUnknown'
  BY <1>9 DEF DeletesFile
<1> QED
  BY ONLY <1>1, <1>2, <1>3, <1>4, <1>5, <1>6, <1>7, <1>8, <1>9, Custody
          DEF Custody

(* An avatar passes from an upload to one row, and is read from there      *)
(* only.                                                                   *)
LEMMA OneOwnerStep ==
  ASSUME files \subseteq drawn, drawn \subseteq Avatars, AvatarsDrawn,
         NewUnknown, OneOwner, Custody
  PROVE  OneOwner'
<1> USE ContactsAssumption
        DEF AvatarsDrawn, NewUnknown, OneOwner, SameNames, SetsName, Held,
            Same, Becomes,
        Ends, Lost, NothingNew
<1>1. CASE Nothing
  BY <1>1 DEF Nothing
<1>2. ASSUME NEW q \in Requests, Leaves(q)
      PROVE  OneOwner'
  BY <1>2 DEF Leaves
<1>3. ASSUME NEW q \in Requests, NEW c \in Owners, Reads(q, c)
      PROVE  OneOwner'
  BY <1>3 DEF Reads
<1>4. ASSUME NEW q \in Requests, NEW c \in Owners, Removes(q, c)
      PROVE  OneOwner'
  BY <1>4 DEF Removes
<1>5. ASSUME NEW q \in Requests, NEW c \in Owners, WritesBack(q, c)
      PROVE  OneOwner'
  BY <1>5 DEF WritesBack
<1>6. ASSUME NEW q \in Requests, NEW c \in Owners, LosesReply(q, c)
      PROVE  OneOwner'
  BY <1>6 DEF LosesReply
<1>7. ASSUME NEW q \in Requests, NEW c \in Owners,
             NEW x \in Avatars \cup {NoAvatar}, Replaces(q, c, x)
      PROVE  OneOwner'
  BY <1>7 DEF Replaces
<1>8. ASSUME NEW q \in Requests, NEW a \in Avatars, Draws(q, a)
      PROVE  OneOwner'
  BY <1>8 DEF Draws
<1>9. ASSUME NEW q \in Requests, NEW a \in Avatars, DeletesFile(q, a)
      PROVE  OneOwner'
  BY <1>9 DEF DeletesFile
<1> QED
  BY ONLY <1>1, <1>2, <1>3, <1>4, <1>5, <1>6, <1>7, <1>8, <1>9, Custody
          DEF Custody

(* What is handed to a clean-up, its row has no longer, unless a full      *)
(* save has written it back.                                               *)
LEMMA OldReplacedStep ==
  ASSUME files \subseteq drawn, drawn \subseteq Avatars, AvatarsDrawn,
         NewUnknown, OneOwner, OldReplaced, Custody
  PROVE  OldReplaced'
<1> USE ContactsAssumption
        DEF AvatarsDrawn, NewUnknown, OneOwner, OldReplaced, SameNames,
            SetsName, Held, Same, Becomes,
        Ends, Lost, NothingNew
<1>1. CASE Nothing
  BY <1>1 DEF Nothing
<1>2. ASSUME NEW q \in Requests, Leaves(q)
      PROVE  OldReplaced'
  BY <1>2 DEF Leaves
<1>3. ASSUME NEW q \in Requests, NEW c \in Owners, Reads(q, c)
      PROVE  OldReplaced'
  BY <1>3 DEF Reads
<1>4. ASSUME NEW q \in Requests, NEW c \in Owners, Removes(q, c)
      PROVE  OldReplaced'
  BY <1>4 DEF Removes
<1>5. ASSUME NEW q \in Requests, NEW c \in Owners, WritesBack(q, c)
      PROVE  OldReplaced'
  BY <1>5 DEF WritesBack
<1>6. ASSUME NEW q \in Requests, NEW c \in Owners, LosesReply(q, c)
      PROVE  OldReplaced'
  BY <1>6 DEF LosesReply
<1>7. ASSUME NEW q \in Requests, NEW c \in Owners,
             NEW x \in Avatars \cup {NoAvatar}, Replaces(q, c, x)
      PROVE  OldReplaced'
  BY <1>7 DEF Replaces
<1>8. ASSUME NEW q \in Requests, NEW a \in Avatars, Draws(q, a)
      PROVE  OldReplaced'
  BY <1>8 DEF Draws
<1>9. ASSUME NEW q \in Requests, NEW a \in Avatars, DeletesFile(q, a)
      PROVE  OldReplaced'
  BY <1>9 DEF DeletesFile
<1> QED
  BY ONLY <1>1, <1>2, <1>3, <1>4, <1>5, <1>6, <1>7, <1>8, <1>9, Custody
          DEF Custody

(* Files are deleted by uploads that failed and clean-ups only, and no     *)
(* row that was not overwritten names those.                               *)
LEMMA NamedThereStep ==
  ASSUME files \subseteq drawn, drawn \subseteq Avatars, AvatarsDrawn,
         NewUnknown, OneOwner, OldReplaced, NamedThere, Custody
  PROVE  NamedThere'
<1> USE ContactsAssumption
        DEF AvatarsDrawn, NewUnknown, OneOwner, OldReplaced, NamedThere,
            SameNames, SetsName, Held, Same, Becomes,
        Ends, Lost, NothingNew
<1>1. CASE Nothing
  BY <1>1 DEF Nothing
<1>2. ASSUME NEW q \in Requests, Leaves(q)
      PROVE  NamedThere'
  BY <1>2 DEF Leaves
<1>3. ASSUME NEW q \in Requests, NEW c \in Owners, Reads(q, c)
      PROVE  NamedThere'
  BY <1>3 DEF Reads
<1>4. ASSUME NEW q \in Requests, NEW c \in Owners, Removes(q, c)
      PROVE  NamedThere'
  BY <1>4 DEF Removes
<1>5. ASSUME NEW q \in Requests, NEW c \in Owners, WritesBack(q, c)
      PROVE  NamedThere'
  BY <1>5 DEF WritesBack
<1>6. ASSUME NEW q \in Requests, NEW c \in Owners, LosesReply(q, c)
      PROVE  NamedThere'
  BY <1>6 DEF LosesReply
<1>7. ASSUME NEW q \in Requests, NEW c \in Owners,
             NEW x \in Avatars \cup {NoAvatar}, Replaces(q, c, x)
      PROVE  NamedThere'
  BY <1>7 DEF Replaces
<1>8. ASSUME NEW q \in Requests, NEW a \in Avatars, Draws(q, a)
      PROVE  NamedThere'
  BY <1>8 DEF Draws
<1>9. ASSUME NEW q \in Requests, NEW a \in Avatars, DeletesFile(q, a)
      PROVE  NamedThere'
  BY <1>9 DEF DeletesFile
<1> QED
  BY ONLY <1>1, <1>2, <1>3, <1>4, <1>5, <1>6, <1>7, <1>8, <1>9, Custody
          DEF Custody

(* A file that nobody names any more is stray.                             *)
LEMMA FilesNamedStep ==
  ASSUME files \subseteq drawn, drawn \subseteq Avatars, AvatarsDrawn,
         FilesNamed, Custody
  PROVE  FilesNamed'
<1> USE ContactsAssumption
        DEF AvatarsDrawn, FilesNamed, SameNames, SetsName, Held, Same, Becomes,
        Ends, Lost, NothingNew
<1>1. CASE Nothing
  BY <1>1 DEF Nothing
<1>2. ASSUME NEW q \in Requests, Leaves(q)
      PROVE  FilesNamed'
  BY <1>2 DEF Leaves
<1>3. ASSUME NEW q \in Requests, NEW c \in Owners, Reads(q, c)
      PROVE  FilesNamed'
  BY <1>3 DEF Reads
<1>4. ASSUME NEW q \in Requests, NEW c \in Owners, Removes(q, c)
      PROVE  FilesNamed'
  BY <1>4 DEF Removes
<1>5. ASSUME NEW q \in Requests, NEW c \in Owners, WritesBack(q, c)
      PROVE  FilesNamed'
  BY <1>5 DEF WritesBack
<1>6. ASSUME NEW q \in Requests, NEW c \in Owners, LosesReply(q, c)
      PROVE  FilesNamed'
  BY <1>6 DEF LosesReply
<1>7. ASSUME NEW q \in Requests, NEW c \in Owners,
             NEW x \in Avatars \cup {NoAvatar}, Replaces(q, c, x)
      PROVE  FilesNamed'
  BY <1>7 DEF Replaces
<1>8. ASSUME NEW q \in Requests, NEW a \in Avatars, Draws(q, a)
      PROVE  FilesNamed'
  BY <1>8 DEF Draws
<1>9. ASSUME NEW q \in Requests, NEW a \in Avatars, DeletesFile(q, a)
      PROVE  FilesNamed'
  BY <1>9 DEF DeletesFile
<1> QED
  BY ONLY <1>1, <1>2, <1>3, <1>4, <1>5, <1>6, <1>7, <1>8, <1>9, Custody
          DEF Custody

(* A request before and after it moves on. *)
LEMMA Views ==
  ASSUME ContactsTypeOK, NEW q \in Requests
  PROVE  /\ WellFormed(req[q])
         /\ req[q] = Idle \/ req[q] \in Creation =>
               Sees(q) = NoAvatar /\ Puts(q) = NoAvatar /\ Drops(q) = NoAvatar
         /\ req[q] \in Routed =>
               /\ About(q) /\ Sees(q) = req[q].seen.avatar
               /\ Drops(q) = NoAvatar
               /\ Puts(q) = IF req[q].at = "save_avatar" THEN req[q].new
                            ELSE NoAvatar
         /\ req[q] \in Cleaning =>
               /\ Sees(q) = NoAvatar /\ Puts(q) = NoAvatar
               /\ Drops(q) = req[q].old
<1>1. WellFormed(req[q])
  BY AtRequest
<1> QED
  BY <1>1 DEF WellFormed, Sees, Puts, Drops, About, Cleans

(* A request that moves on changes what it names, and nothing that others  *)
(* name.                                                                   *)
LEMMA MovesOn ==
  ASSUME ContactsTypeOK, NEW q \in Requests,
         NEW x \in {Idle} \cup Creation \cup Routed \cup Cleaning, Go(q, x)
  PROVE  /\ req'[q] = x
         /\ \A p \in Requests \ {q} : Same(p) /\ req'[p] = req[p]
         /\ x = Idle \/ x \in Creation => Ends(q)
         /\ x \in Routed =>
               Becomes(q, x.seen.avatar,
                       IF x.at = "save_avatar" THEN x.new ELSE NoAvatar, NoAvatar)
         /\ x \in Cleaning => Becomes(q, NoAvatar, NoAvatar, x.old)
<1>1. WellFormed(x)
  BY RequestShape
<1>2. req'[q] = x /\ \A p \in Requests \ {q} : req'[p] = req[p]
  BY DEF Go, ContactsTypeOK
<1>3. \A p \in Requests \ {q} : Same(p)
  BY <1>2 DEF Same, Sees, Puts, Drops, About, Cleans
<1> QED
  BY <1>1, <1>2, <1>3
     DEF WellFormed, Ends, Becomes, Sees, Puts, Drops, About, Cleans

(* A request that cleans up names the old avatar only.                     *)
LEMMA MovesToCleanUp ==
  ASSUME ContactsTypeOK, NEW q \in Requests, NEW a \in Avatars \cup {NoAvatar},
         Go(q, CleanUp(a))
  PROVE  Becomes(q, NoAvatar, NoAvatar, a)
<1>1. CASE a = NoAvatar
  BY <1>1, MovesOn DEF CleanUp, Ends
<1>2. CASE a # NoAvatar
  <2>1. [at |-> "cleanup", old |-> a] \in Cleaning
    BY <1>2 DEF Cleaning
  <2> HIDE DEF Go
  <2>2. Go(q, [at |-> "cleanup", old |-> a])
    BY <1>2 DEF CleanUp
  <2> QED
    BY <2>1, <2>2, MovesOn
<1> QED
  BY <1>1, <1>2

(* To update an avatar is to name another one.                             *)
LEMMA SetsAnAvatar ==
  ASSUME ContactsTypeOK, NEW c \in Present, NEW a \in Avatars \cup {NoAvatar},
         rows' = [rows EXCEPT ![c].avatar = a]
  PROVE  SetsName(c, a)
<1>1. c \in Owners /\ rows[c] \in Row
  BY DEF Present, ContactsTypeOK
<1>2. /\ rows'[c] \in Row /\ rows'[c].avatar = a
      /\ \A d \in Owners \ {c} : rows'[d] = rows[d]
  BY <1>1, WithAvatar DEF ContactsTypeOK
<1> QED
  BY <1>1, <1>2, NoRowAssumption DEF SetsName, Held, Current

(* A row that is deleted names nothing.                                    *)
LEMMA RemovesARow ==
  ASSUME ContactsTypeOK, NEW c \in Owners, rows' = [rows EXCEPT ![c] = NoRow]
  PROVE  SetsName(c, NoAvatar)
BY DEF SetsName, Held, Current, ContactsTypeOK

(* Rows that stay name what they named.                                    *)
LEMMA RowsStay ==
  ASSUME rows' = rows
  PROVE  SameNames
BY DEF SameNames, Current

(* Each step has one of the effects on the names of avatars.               *)
LEMMA CustodyStep ==
  ASSUME ContactsTypeOK, PutsOne, NameInv, Next
  PROVE  Custody
<1>1. ASSUME NEW q \in Requests, NEW x \in Texts,
             BeginCreate(q, x), UNCHANGED nameVars
      PROVE  Custody
  <2>0. /\ WellFormed(req[q])
        /\ rows' = rows => SameNames
    BY AtRequest, RowsStay
  <2>1. FirstFree(Taken(ContactIds)) \in Names
    BY ANameIsFree, FirstFreeIsFree DEF ContactsTypeOK
  <2>2. req'[q] \in Creation /\ Go(q, req'[q])
    BY <1>1, <2>1, ContactsAssumption
       DEF BeginCreate, Go, Creation, ContactsTypeOK
  <2>3. Ends(q) /\ NothingNew(q)
    BY <1>1, <2>0, <2>2, MovesOn, Views DEF BeginCreate, Active, NothingNew
  <2>4. Leaves(q)
    BY <1>1, <2>0, <2>3
       DEF BeginCreate, KeepRows, KeepBucket, Leaves, NothingNew
  <2> QED
    BY <2>4 DEF Custody
<1>2. ASSUME NEW q \in Requests, NEW c \in Owners,
             NEW at \in {"save", "put", "clear_avatar", "delete"},
             NEW x \in Texts \cup {Unset},
             Begin(q, c, at, x), at = "delete" =>
                c \in ContactIds, UNCHANGED nameVars
      PROVE  Custody
  <2>0. /\ WellFormed(req[q])
        /\ rows' = rows => SameNames
    BY AtRequest, RowsStay
  <2> DEFINE y == [at |-> at, contact |-> c, seen |-> rows[c], text |-> x,
                   new |-> NoAvatar]
  <2>1. rows[c] \in Row /\ y \in Routed /\ Go(q, y)
    BY <1>2 DEF Begin, Present, ContactsTypeOK, Routed
  <2>2. /\ y.contact = c /\ y.seen = rows[c] /\ y.new = NoAvatar
    OBVIOUS
  <2> HIDE DEF y
  <2>3. /\ Becomes(q, rows[c].avatar, NoAvatar, NoAvatar)
        /\ req'[q].contact = c
    BY <2>1, <2>2, MovesOn
  <2>4. Current(c) = rows[c].avatar /\ NothingNew(q)
    BY <1>2, <2>1, Views, NoRowAssumption
       DEF Begin, Active, Current, NothingNew
  <2>5. Reads(q, c)
    BY <1>2, <2>0, <2>3, <2>4 DEF Begin, KeepRows, KeepBucket, Reads
  <2> QED
    BY <2>5 DEF Custody
<1>3. ASSUME NEW q \in Requests,
             Insert(q), UNCHANGED nameVars
      PROVE  Custody
  <2>0. /\ WellFormed(req[q])
        /\ rows' = rows => SameNames
    BY AtRequest, RowsStay
  <2>1. Fresh(ContactIds, created) \in Owners \ created
    BY <1>3, FreshIs DEF Insert, Owners
  <2>2. req[q] \in Creation /\ Go(q, Idle)
    BY <1>3, <2>0 DEF Insert, WellFormed
  <2>3. Ends(q) /\ NothingNew(q)
    BY <2>2, MovesOn, Views DEF NothingNew
  <2>4. SameNames
    <3>1. rows[Fresh(ContactIds, created)] = NoRow
      BY <2>1 DEF ContactsTypeOK, Present
    <3> DEFINE x == rows'[Fresh(ContactIds, created)]
    <3>2. /\ x \in Row /\ x.avatar = NoAvatar
          /\ \A d \in Owners \ {Fresh(ContactIds, created)} : rows'[d] = rows[d]
      BY <1>3, <2>0, <2>1, <2>2 DEF Insert, WellFormed, Row, ContactsTypeOK
    <3> QED
      BY <2>1, <3>1, <3>2, NoRowAssumption DEF SameNames, Current
  <2>5. Leaves(q)
    BY <1>3, <2>3, <2>4 DEF Insert, KeepBucket, Leaves, NothingNew
  <2> QED
    BY <2>5 DEF Custody
<1>4. ASSUME NEW q \in Requests, NEW n \in Names,
             InsertConflicts(q, n), UNCHANGED nameVars
      PROVE  Custody
  <2>0. /\ WellFormed(req[q])
        /\ rows' = rows => SameNames
    BY AtRequest, RowsStay
  <2>1. req[q] \in Creation /\ req[q].tried \in 0..(Attempts - 1)
    BY <1>4, <2>0 DEF InsertConflicts, WellFormed
  <2>2. req'[q] \in Creation \cup {Idle} /\ Go(q, req'[q])
    <3>1. /\ Attempts \in Nat \ {0}
          /\ req[q].tried + 1 < Attempts =>
                req[q].tried + 1 \in 0..(Attempts - 1)
      BY <2>1, ContactsAssumption
    <3> QED
      BY <1>4, <2>1, <3>1 DEF InsertConflicts, Go, Creation, ContactsTypeOK
  <2>3. Ends(q) /\ NothingNew(q)
    BY <2>1, <2>2, MovesOn, Views DEF NothingNew
  <2>4. Leaves(q)
    BY <1>4, <2>0, <2>3
       DEF InsertConflicts, KeepRows, KeepBucket, Leaves, NothingNew
  <2> QED
    BY <2>4 DEF Custody
<1>5. ASSUME NEW q \in Requests,
             PutAvatar(q), UNCHANGED nameVars
      PROVE  Custody
  <2>0. /\ WellFormed(req[q])
        /\ rows' = rows => SameNames
    BY AtRequest, RowsStay
  <2> DEFINE a == Fresh(Avatars, drawn)
           y == [req[q] EXCEPT !.at = "save_avatar", !.new = a]
  <2>1. a \in Avatars /\ a \notin drawn
    BY <1>5, AvatarLeft DEF PutAvatar
  <2>2. req[q] \in Routed
    BY <1>5, <2>0 DEF PutAvatar, WellFormed
  <2>3. /\ y \in Routed /\ y.at = "save_avatar" /\ y.new = a
        /\ y.contact = req[q].contact /\ y.seen = req[q].seen
    BY <2>1, <2>2 DEF Routed
  <2>4. Go(q, y) /\ files' = files \cup {a} /\ drawn' = drawn \cup {a}
    BY <1>5 DEF PutAvatar
  <2> HIDE DEF y, a
  <2>5. /\ Becomes(q, Sees(q), a, NoAvatar) /\ req'[q].contact = req[q].contact
        /\ NothingNew(q)
    BY <1>5, <2>2, <2>3, <2>4, MovesOn, Views DEF NothingNew, PutAvatar
  <2>6. Draws(q, a)
    BY <1>5, <2>0, <2>1, <2>4, <2>5 DEF PutAvatar, KeepRows, Draws
  <2> QED
    BY <2>1, <2>6 DEF Custody
<1>6. ASSUME NEW q \in Requests, NEW landed \in BOOLEAN,
             PutFails(q, landed), UNCHANGED nameVars
      PROVE  Custody
  <2>0. /\ WellFormed(req[q])
        /\ rows' = rows => SameNames
    BY AtRequest, RowsStay
  <2> DEFINE a == Fresh(Avatars, drawn)
  <2>1. a \in Avatars /\ a \notin drawn
    BY <1>6, AvatarLeft DEF PutFails
  <2>2. Ends(q) /\ NothingNew(q)
    BY <1>6, <2>0, MovesOn, Views DEF PutFails, WellFormed, NothingNew
  <2>3. Leaves(q)
    BY <1>6, <2>0, <2>1, <2>2 DEF PutFails, KeepRows, Leaves, NothingNew
  <2> QED
    BY <2>3 DEF Custody
<1>7. ASSUME NEW q \in Requests,
             SaveAvatar(q), UNCHANGED nameVars
      PROVE  Custody
  <2>0. /\ WellFormed(req[q])
        /\ rows' = rows => SameNames
    BY AtRequest, RowsStay
  <2>1. /\ req[q] \in Routed /\ req[q].contact \in Present
        /\ req[q].new \in Avatars \cup {NoAvatar} /\ Puts(q) = req[q].new
        /\ About(q) /\ Sees(q) = req[q].seen.avatar /\ Drops(q) = NoAvatar
        /\ Sees(q) \in Avatars \cup {NoAvatar} /\ req[q].contact \in Owners
    BY <1>7, <2>0, Views DEF SaveAvatar, WellFormed
  <2>2. SetsName(req[q].contact, req[q].new)
    BY <1>7, <2>1, SetsAnAvatar DEF SaveAvatar, SetAvatar
  <2>3. Becomes(q, NoAvatar, NoAvatar, Sees(q))
    BY <1>7, <2>1, MovesToCleanUp DEF SaveAvatar
  <2>4. Replaces(q, req[q].contact, req[q].new)
    BY <1>7, <2>1, <2>2, <2>3 DEF SaveAvatar, SetAvatar, Lose, Lost, Replaces
  <2> QED
    BY <2>1, <2>4 DEF Custody
<1>8. ASSUME NEW q \in Requests,
             SaveAvatarReplyLost(q), UNCHANGED nameVars
      PROVE  Custody
  <2>0. /\ WellFormed(req[q])
        /\ rows' = rows => SameNames
    BY AtRequest, RowsStay
  <2>1. /\ req[q] \in Routed /\ req[q].contact \in Present
        /\ req[q].new \in Avatars /\ Puts(q) = req[q].new
        /\ Drops(q) = NoAvatar /\ req[q].contact \in Owners
        /\ rows[req[q].contact] # NoRow
    BY <1>8, <2>0, Views DEF SaveAvatarReplyLost, WellFormed, PutsOne, Present
  <2>2. SetsName(req[q].contact, req[q].new)
    BY <1>8, <2>1, SetsAnAvatar DEF SaveAvatarReplyLost
  <2>3. Ends(q)
    BY <1>8, MovesOn DEF SaveAvatarReplyLost
  <2> DEFINE c == req[q].contact
  <2>a. /\ Current(c) = rows[c].avatar /\ Puts(q) # NoAvatar
        /\ files' = files \ {Puts(q)} /\ drawn' = drawn
        /\ overwritten' = overwritten \cup {c}
        /\ stray' = stray \cup ({rows[c].avatar} \ {NoAvatar})
    BY <1>8, <2>1, ContactsAssumption DEF SaveAvatarReplyLost, Current
  <2>4. LosesReply(q, c)
    BY <2>1, <2>2, <2>3, <2>a DEF LosesReply
  <2> QED
    BY <2>1, <2>4 DEF Custody
<1>9. ASSUME NEW q \in Requests,
             ClearAvatar(q), UNCHANGED nameVars
      PROVE  Custody
  <2>0. /\ WellFormed(req[q])
        /\ rows' = rows => SameNames
    BY AtRequest, RowsStay
  <2>1. /\ req[q] \in Routed /\ req[q].contact \in Present
        /\ NoAvatar \in Avatars \cup {NoAvatar} /\ Puts(q) = NoAvatar
        /\ About(q) /\ Sees(q) = req[q].seen.avatar /\ Drops(q) = NoAvatar
        /\ Sees(q) \in Avatars \cup {NoAvatar} /\ req[q].contact \in Owners
    BY <1>9, <2>0, Views DEF ClearAvatar, WellFormed
  <2>2. SetsName(req[q].contact, NoAvatar)
    BY <1>9, <2>1, SetsAnAvatar DEF ClearAvatar, SetAvatar
  <2>3. Becomes(q, NoAvatar, NoAvatar, Sees(q))
    BY <1>9, <2>1, MovesToCleanUp DEF ClearAvatar
  <2>4. Replaces(q, req[q].contact, NoAvatar)
    BY <1>9, <2>1, <2>2, <2>3 DEF ClearAvatar, SetAvatar, Lose, Lost, Replaces
  <2> QED
    BY <2>1, <2>4 DEF Custody
<1>10. ASSUME NEW q \in Requests, NEW fails \in BOOLEAN,
             SaveAvatarFails(q, fails), UNCHANGED nameVars
      PROVE  Custody
  <2>0. /\ WellFormed(req[q])
        /\ rows' = rows => SameNames
    BY AtRequest, RowsStay
  <2>1. /\ req[q].new \in Avatars
        /\ {Puts(q), Drops(q)} = {req[q].new, NoAvatar}
    BY <1>10, <2>0, Views DEF SaveAvatarFails, WellFormed, PutsOne
  <2>2. Ends(q)
    BY <1>10, MovesOn DEF SaveAvatarFails
  <2>3. DeletesFile(q, req[q].new)
    BY <1>10, <2>0, <2>1, <2>2, ContactsAssumption
       DEF SaveAvatarFails, KeepRows, DeletesFile
  <2> QED
    BY <2>1, <2>3 DEF Custody
<1>11. ASSUME NEW q \in Requests, NEW fails \in BOOLEAN,
             DeleteFiles(q, fails), UNCHANGED nameVars
      PROVE  Custody
  <2>0. /\ WellFormed(req[q])
        /\ rows' = rows => SameNames
    BY AtRequest, RowsStay
  <2>1. /\ req[q].old \in Avatars
        /\ {Puts(q), Drops(q)} = {req[q].old, NoAvatar}
    BY <1>11, <2>0, Views DEF DeleteFiles, WellFormed, PutsOne
  <2>2. Ends(q)
    BY <1>11, MovesOn DEF DeleteFiles
  <2>3. DeletesFile(q, req[q].old)
    BY <1>11, <2>0, <2>1, <2>2, ContactsAssumption
       DEF DeleteFiles, KeepRows, DeletesFile
  <2> QED
    BY <2>1, <2>3 DEF Custody
<1>12. ASSUME NEW q \in Requests,
             Unheld(q), Save(q), UNCHANGED nameVars
      PROVE  Custody
  <2>0. /\ WellFormed(req[q])
        /\ rows' = rows => SameNames
    BY AtRequest, RowsStay
  <2> DEFINE c == req[q].contact
  <2>1. /\ req[q] \in Routed /\ c \in Owners /\ NothingNew(q) /\ About(q)
        /\ Sees(q) = req[q].seen.avatar /\ Ends(q)
        /\ req[q].seen \in Row
    BY <1>12, <2>0, Views, MovesOn DEF Save, WellFormed, NothingNew
  <2>2. CASE KeepRows /\ KeepBucket
    <3>1. Leaves(q)
      BY <2>0, <2>1, <2>2 DEF KeepRows, KeepBucket, Leaves, NothingNew
    <3> QED
      BY <3>1 DEF Custody
  <2>3. CASE /\ rows' = [rows EXCEPT ![c] = Saved(q)]
             /\ overwritten' = IF SetsBack(q) THEN overwritten \cup {c}
                               ELSE overwritten
             /\ Lose(q) /\ UNCHANGED <<created, files, drawn>>
    <3>1. Saved(q) \in Row /\ Saved(q).avatar = Sees(q)
      BY <1>12, <2>1, SavedRow DEF Save
    <3>a. rows'[c] = Saved(q) /\ \A d \in Owners \ {c} : rows'[d] = rows[d]
      BY <2>1, <2>3 DEF ContactsTypeOK
    <3>2. SetsName(c, Sees(q))
      BY <2>1, <3>1, <3>a, NoRowAssumption DEF SetsName, Held, Current
    <3>3. Current(c) # Sees(q) => SetsBack(q)
      BY <2>1 DEF SetsBack, Current
    <3>4. WritesBack(q, c)
      BY <2>1, <2>3, <3>2, <3>3 DEF WritesBack, Lose, Lost
    <3> QED
      BY <2>1, <3>4 DEF Custody
  <2> QED
    BY <1>12, <2>2, <2>3 DEF Save
<1>13. ASSUME NEW q \in Requests,
             Fail(q), UNCHANGED nameVars
      PROVE  Custody
  <2>0. /\ WellFormed(req[q])
        /\ rows' = rows => SameNames
    BY AtRequest, RowsStay
  <2>1. Ends(q)
    BY <1>13, MovesOn DEF Fail
  <2>2. {Puts(q), Drops(q)} \subseteq stray' \cup {NoAvatar}
    BY <1>13, <2>0, Views DEF Fail, WellFormed
  <2>3. Leaves(q)
    BY <1>13, <2>0, <2>1, <2>2 DEF Fail, KeepRows, Leaves
  <2> QED
    BY <2>3 DEF Custody
<1>14. ASSUME NEW r \in Registrars,
             N!Register(r),
             UNCHANGED <<files, drawn, req, overwritten, stray>>
      PROVE  Custody
  <2>1. \A p \in Requests : Same(p)
    BY <1>14 DEF Same, Sees, Puts, Drops, About, Cleans
  <2>2. SameNames
    BY <1>14, RowsStay DEF N!Register, N!KeepAccounts, N!Go
  <2> QED
    BY <1>14, <2>1, <2>2 DEF Custody, Nothing
<1>15. ASSUME NEW r \in Registrars,
             N!InsertUser(r),
             UNCHANGED <<files, drawn, req, overwritten, stray>>
      PROVE  Custody
  <2>1. \A p \in Requests : Same(p)
    BY <1>15 DEF Same, Sees, Puts, Drops, About, Cleans
  <2>2. SameNames
    BY <1>15, RowsStay DEF N!InsertUser, N!Go
  <2> QED
    BY <1>15, <2>1, <2>2 DEF Custody, Nothing
<1>16. ASSUME NEW r \in Registrars,
             N!InsertOrg(r),
             UNCHANGED <<files, drawn, req, overwritten, stray>>
      PROVE  Custody
  <2>1. \A p \in Requests : Same(p)
    BY <1>16 DEF Same, Sees, Puts, Drops, About, Cleans
  <2>2. SameNames
    BY <1>16, RowsStay DEF N!InsertOrg, N!KeepAccounts, N!Go
  <2> QED
    BY <1>16, <2>1, <2>2 DEF Custody, Nothing
<1>17. ASSUME NEW r \in Registrars,
             N!Rename(r),
             UNCHANGED <<files, drawn, req, overwritten, stray>>
      PROVE  Custody
  <2>1. \A p \in Requests : Same(p)
    BY <1>17 DEF Same, Sees, Puts, Drops, About, Cleans
  <2>2. SameNames
    <3>1. CASE rows' = rows
      BY <3>1, RowsStay
    <3>2. CASE /\ act[r].user \in N!Users
               /\ rows' = [rows EXCEPT ![act[r].user].name = act[r].name]
      <4> DEFINE u == act[r].user
      <4>1. ActFormed(act[r])
        BY AtAct DEF NameInv
      <4>2. u \in Owners /\ rows[u] \in Row /\ act[r].name \in Names
        BY <1>17, <3>2, <4>1
           DEF N!Rename, ActFormed, N!Users, Owners, ContactsTypeOK
      <4>3. /\ rows'[u] \in Row /\ rows'[u].avatar = rows[u].avatar
            /\ \A d \in Owners \ {u} : rows'[d] = rows[d]
        BY <3>2, <4>2, WithName DEF ContactsTypeOK
      <4> QED
        BY <4>2, <4>3, NoRowAssumption DEF SameNames, Current
    <3> QED
      BY <1>17, <3>1, <3>2 DEF N!Rename
  <2> QED
    BY <1>17, <2>1, <2>2 DEF Custody, Nothing
<1>18. ASSUME NEW r \in Registrars,
             N!Abort(r),
             UNCHANGED <<files, drawn, req, overwritten, stray>>
      PROVE  Custody
  <2>1. \A p \in Requests : Same(p)
    BY <1>18 DEF Same, Sees, Puts, Drops, About, Cleans
  <2>2. SameNames
    BY <1>18, RowsStay DEF N!Abort, N!KeepAccounts, N!Go
  <2> QED
    BY <1>18, <2>1, <2>2 DEF Custody, Nothing
<1>19. ASSUME NEW r \in Registrars, NEW u \in UserIds, NEW n \in Names,
             N!CheckName(r, u, n),
             UNCHANGED <<files, drawn, req, overwritten, stray>>
      PROVE  Custody
  <2>1. \A p \in Requests : Same(p)
    BY <1>19 DEF Same, Sees, Puts, Drops, About, Cleans
  <2>2. SameNames
    BY <1>19, RowsStay DEF N!CheckName, N!KeepAccounts, N!Go
  <2> QED
    BY <1>19, <2>1, <2>2 DEF Custody, Nothing
<1>20. ASSUME NEW r \in Registrars, NEW n \in Names,
             N!InsertUserConflicts(r, n),
             UNCHANGED <<files, drawn, req, overwritten, stray>>
      PROVE  Custody
  <2>1. \A p \in Requests : Same(p)
    BY <1>20 DEF Same, Sees, Puts, Drops, About, Cleans
  <2>2. SameNames
    BY <1>20, RowsStay
       DEF N!InsertUserConflicts, N!TryAgain, N!KeepAccounts, N!Go
  <2> QED
    BY <1>20, <2>1, <2>2 DEF Custody, Nothing
<1>21. ASSUME NEW r \in Registrars, NEW n \in Names,
             N!InsertOrgConflicts(r, n),
             UNCHANGED <<files, drawn, req, overwritten, stray>>
      PROVE  Custody
  <2>1. \A p \in Requests : Same(p)
    BY <1>21 DEF Same, Sees, Puts, Drops, About, Cleans
  <2>2. SameNames
    BY <1>21, RowsStay
       DEF N!InsertOrgConflicts, N!TryAgain, N!KeepAccounts, N!Go
  <2> QED
    BY <1>21, <2>1, <2>2 DEF Custody, Nothing
<1>22. ASSUME NEW r \in Registrars, NEW x \in Texts,
             N!CommitRegistration(r, x),
             UNCHANGED <<files, drawn, req, overwritten, stray>>
      PROVE  Custody
  <2>1. \A p \in Requests : Same(p)
    BY <1>22 DEF Same, Sees, Puts, Drops, About, Cleans
  <2>2. SameNames
    <3> DEFINE u == act[r].user
    <3>1. u \in UserIds /\ rows[u] = NoRow
      BY <1>22, AtAct DEF N!CommitRegistration, NameInv, Reserved, N!Pending,
         ActFormed
    <3>2. ActFormed(act[r])
      BY AtAct DEF NameInv
    <3>3. /\ u \in Owners /\ rows'[u] \in Row /\ rows'[u].avatar = NoAvatar
          /\ \A d \in Owners \ {u} : rows'[d] = rows[d]
      BY <1>22, <3>1, <3>2 DEF N!CommitRegistration, ActFormed, Owners, Row,
         ContactsTypeOK
    <3> QED
      BY <3>1, <3>3, NoRowAssumption DEF SameNames, Current
  <2> QED
    BY <1>22, <2>1, <2>2 DEF Custody, Nothing
<1>23. ASSUME NEW n \in Names,
             N!CreateGroup(n),
             UNCHANGED <<files, drawn, req, overwritten, stray>>
      PROVE  Custody
  <2>1. \A p \in Requests : Same(p)
    BY <1>23 DEF Same, Sees, Puts, Drops, About, Cleans
  <2>2. SameNames
    BY <1>23, RowsStay DEF N!CreateGroup, N!Go
  <2> QED
    BY <1>23, <2>1, <2>2 DEF Custody, Nothing
<1>24. ASSUME NEW q \in Requests,
             Delete(q), T!ContactDeleted(req[q].contact), UNCHANGED nameVars
      PROVE  Custody
  <2>0. /\ WellFormed(req[q])
        /\ rows' = rows => SameNames
    BY AtRequest, RowsStay
  <2>1. /\ req[q] \in Routed /\ Puts(q) = NoAvatar
        /\ About(q) /\ Sees(q) = req[q].seen.avatar /\ Drops(q) = NoAvatar
        /\ Sees(q) \in Avatars \cup {NoAvatar} /\ req[q].contact \in Owners
    BY <1>24, <2>0, Views DEF Delete, WellFormed
  <2>2. SetsName(req[q].contact, NoAvatar)
    BY <1>24, <2>1, RemovesARow DEF Delete
  <2>3. Becomes(q, NoAvatar, NoAvatar, Sees(q))
    BY <1>24, <2>1, MovesToCleanUp DEF Delete
  <2>4. Replaces(q, req[q].contact, NoAvatar)
    BY <1>24, <2>1, <2>2, <2>3 DEF Delete, Lose, Lost, Replaces
  <2> QED
    BY <2>1, <2>4 DEF Custody
<1>25. ASSUME NEW q \in Requests, NEW u \in UserIds,
             DeleteUser(q, u), N!UserDeleted(u)
      PROVE  Custody
  <2>0. /\ WellFormed(req[q])
        /\ rows' = rows => SameNames
    BY AtRequest, RowsStay
  <2>1. /\ Current(u) = rows[u].avatar
        /\ Current(u) \in Avatars \cup {NoAvatar}
        /\ u \in Owners /\ NothingNew(q)
    BY <1>25, Views, NoRowAssumption
       DEF DeleteUser, Active, Present, Owners, Current,
       NothingNew, ContactsTypeOK, Row
  <2>2. SetsName(u, NoAvatar)
    BY <1>25, <2>1, RemovesARow DEF DeleteUser
  <2>3. Becomes(q, NoAvatar, NoAvatar, Current(u))
    BY <1>25, <2>1, MovesToCleanUp DEF DeleteUser
  <2>4. Removes(q, u)
    BY <1>25, <2>1, <2>2, <2>3 DEF DeleteUser, KeepBucket, Removes
  <2> QED
    BY <2>1, <2>4 DEF Custody
<1>26. CASE UNCHANGED <<contactVars, nameVars>>
  <2>1. \A p \in Requests : Same(p)
    BY <1>26 DEF contactVars, Same, Sees, Puts, Drops, About, Cleans
  <2> QED
    BY <1>26, <2>1, RowsStay DEF contactVars, Custody, Nothing
<1> QED
  BY ONLY <1>1, <1>2, <1>3, <1>4, <1>5, <1>6, <1>7, <1>8, <1>9, <1>10, <1>11,
          <1>12, <1>13, <1>14, <1>15, <1>16, <1>17, <1>18, <1>19, <1>20, <1>21,
          <1>22, <1>23, <1>24, <1>25, <1>26, Steps, Next
     DEF ContactNext, ContactEnds, NameNext, AccountEnds, TagNext

(* A request is about to save an avatar only after it has put one.         *)
LEMMA PutsOneStep ==
  ASSUME ContactsTypeOK, PutsOne, Next
  PROVE  PutsOne'
<1>1. ASSUME NEW q \in Requests, NEW x \in Texts,
             BeginCreate(q, x), UNCHANGED nameVars
      PROVE  PutsOne'
  <2>0. WellFormed(req[q])
    BY AtRequest
  <2>1. \A p \in Requests \ {q} : req'[p] = req[p]
    BY <1>1 DEF BeginCreate, Active, Go, KeepRows, KeepBucket, ContactsTypeOK
  <2>2. req'[q].at = "save_avatar" => req'[q].new \in Avatars
    BY <1>1, <2>0
       DEF BeginCreate, Active, Go, KeepRows, KeepBucket, WellFormed, Idle,
           Routed, Creation, Cleaning, CleanUp, ContactsTypeOK
  <2> QED
    BY <2>1, <2>2 DEF PutsOne
<1>2. ASSUME NEW q \in Requests, NEW c \in Owners,
             NEW at \in {"save", "put", "clear_avatar", "delete"},
             NEW x \in Texts \cup {Unset},
             Begin(q, c, at, x), at = "delete" =>
                c \in ContactIds, UNCHANGED nameVars
      PROVE  PutsOne'
  <2>0. WellFormed(req[q])
    BY AtRequest
  <2>1. \A p \in Requests \ {q} : req'[p] = req[p]
    BY <1>2 DEF Begin, Active, Go, KeepRows, KeepBucket, ContactsTypeOK
  <2>2. req'[q].at = "save_avatar" => req'[q].new \in Avatars
    BY <1>2, <2>0
       DEF Begin, Active, Go, KeepRows, KeepBucket, WellFormed, Idle, Routed,
           Creation, Cleaning, CleanUp, ContactsTypeOK
  <2> QED
    BY <2>1, <2>2 DEF PutsOne
<1>3. ASSUME NEW q \in Requests,
             Insert(q), UNCHANGED nameVars
      PROVE  PutsOne'
  <2>0. WellFormed(req[q])
    BY AtRequest
  <2>1. \A p \in Requests \ {q} : req'[p] = req[p]
    BY <1>3 DEF Insert, Go, KeepRows, KeepBucket, ContactsTypeOK
  <2>2. req'[q].at = "save_avatar" => req'[q].new \in Avatars
    BY <1>3, <2>0
       DEF Insert, Go, KeepRows, KeepBucket, WellFormed, Idle, Routed,
           Creation, Cleaning, CleanUp, ContactsTypeOK
  <2> QED
    BY <2>1, <2>2 DEF PutsOne
<1>4. ASSUME NEW q \in Requests, NEW n \in Names,
             InsertConflicts(q, n), UNCHANGED nameVars
      PROVE  PutsOne'
  <2>0. WellFormed(req[q])
    BY AtRequest
  <2>1. \A p \in Requests \ {q} : req'[p] = req[p]
    BY <1>4 DEF InsertConflicts, Go, KeepRows, KeepBucket, ContactsTypeOK
  <2>2. req'[q].at = "save_avatar" => req'[q].new \in Avatars
    BY <1>4, <2>0
       DEF InsertConflicts, Go, KeepRows, KeepBucket, WellFormed, Idle, Routed,
           Creation, Cleaning, CleanUp, ContactsTypeOK
  <2> QED
    BY <2>1, <2>2 DEF PutsOne
<1>5. ASSUME NEW q \in Requests,
             PutAvatar(q), UNCHANGED nameVars
      PROVE  PutsOne'
  <2>0. WellFormed(req[q])
    BY AtRequest
  <2>1. \A p \in Requests \ {q} : req'[p] = req[p]
    BY <1>5 DEF PutAvatar, Go, KeepRows, KeepBucket, ContactsTypeOK
  <2>2. req'[q].at = "save_avatar" => req'[q].new \in Avatars
    BY <1>5, <2>0, AvatarLeft
       DEF PutAvatar, Go, KeepRows, KeepBucket, WellFormed, Idle, Routed,
           Creation, Cleaning, CleanUp, ContactsTypeOK
  <2> QED
    BY <2>1, <2>2 DEF PutsOne
<1>6. ASSUME NEW q \in Requests, NEW landed \in BOOLEAN,
             PutFails(q, landed), UNCHANGED nameVars
      PROVE  PutsOne'
  <2>0. WellFormed(req[q])
    BY AtRequest
  <2>1. \A p \in Requests \ {q} : req'[p] = req[p]
    BY <1>6 DEF PutFails, Go, KeepRows, KeepBucket, ContactsTypeOK
  <2>2. req'[q].at = "save_avatar" => req'[q].new \in Avatars
    BY <1>6, <2>0
       DEF PutFails, Go, KeepRows, KeepBucket, WellFormed, Idle, Routed,
           Creation, Cleaning, CleanUp, ContactsTypeOK
  <2> QED
    BY <2>1, <2>2 DEF PutsOne
<1>7. ASSUME NEW q \in Requests,
             SaveAvatar(q), UNCHANGED nameVars
      PROVE  PutsOne'
  <2>0. WellFormed(req[q])
    BY AtRequest
  <2>1. \A p \in Requests \ {q} : req'[p] = req[p]
    BY <1>7
       DEF SaveAvatar, SetAvatar, Lose, Current, CleanUp, Go, KeepRows,
           KeepBucket, ContactsTypeOK
  <2>2. req'[q].at = "save_avatar" => req'[q].new \in Avatars
    BY <1>7, <2>0
       DEF SaveAvatar, SetAvatar, Lose, Current, CleanUp, Go, KeepRows,
           KeepBucket, WellFormed, Idle, Routed, Creation, Cleaning, CleanUp,
           ContactsTypeOK
  <2> QED
    BY <2>1, <2>2 DEF PutsOne
<1>8. ASSUME NEW q \in Requests,
             SaveAvatarReplyLost(q), UNCHANGED nameVars
      PROVE  PutsOne'
  <2>0. WellFormed(req[q])
    BY AtRequest
  <2>1. \A p \in Requests \ {q} : req'[p] = req[p]
    BY <1>8 DEF SaveAvatarReplyLost, Go, KeepRows, KeepBucket, ContactsTypeOK
  <2>2. req'[q].at = "save_avatar" => req'[q].new \in Avatars
    BY <1>8, <2>0
       DEF SaveAvatarReplyLost, Go, KeepRows, KeepBucket, WellFormed, Idle,
           Routed, Creation, Cleaning, CleanUp, ContactsTypeOK
  <2> QED
    BY <2>1, <2>2 DEF PutsOne
<1>9. ASSUME NEW q \in Requests,
             ClearAvatar(q), UNCHANGED nameVars
      PROVE  PutsOne'
  <2>0. WellFormed(req[q])
    BY AtRequest
  <2>1. \A p \in Requests \ {q} : req'[p] = req[p]
    BY <1>9
       DEF ClearAvatar, SetAvatar, Lose, Current, CleanUp, Go, KeepRows,
           KeepBucket, ContactsTypeOK
  <2>2. req'[q].at = "save_avatar" => req'[q].new \in Avatars
    BY <1>9, <2>0
       DEF ClearAvatar, SetAvatar, Lose, Current, CleanUp, Go, KeepRows,
           KeepBucket, WellFormed, Idle, Routed, Creation, Cleaning, CleanUp,
           ContactsTypeOK
  <2> QED
    BY <2>1, <2>2 DEF PutsOne
<1>10. ASSUME NEW q \in Requests, NEW fails \in BOOLEAN,
             SaveAvatarFails(q, fails), UNCHANGED nameVars
      PROVE  PutsOne'
  <2>0. WellFormed(req[q])
    BY AtRequest
  <2>1. \A p \in Requests \ {q} : req'[p] = req[p]
    BY <1>10 DEF SaveAvatarFails, Go, KeepRows, KeepBucket, ContactsTypeOK
  <2>2. req'[q].at = "save_avatar" => req'[q].new \in Avatars
    BY <1>10, <2>0
       DEF SaveAvatarFails, Go, KeepRows, KeepBucket, WellFormed, Idle, Routed,
           Creation, Cleaning, CleanUp, ContactsTypeOK
  <2> QED
    BY <2>1, <2>2 DEF PutsOne
<1>11. ASSUME NEW q \in Requests, NEW fails \in BOOLEAN,
             DeleteFiles(q, fails), UNCHANGED nameVars
      PROVE  PutsOne'
  <2>0. WellFormed(req[q])
    BY AtRequest
  <2>1. \A p \in Requests \ {q} : req'[p] = req[p]
    BY <1>11 DEF DeleteFiles, Go, KeepRows, KeepBucket, ContactsTypeOK
  <2>2. req'[q].at = "save_avatar" => req'[q].new \in Avatars
    BY <1>11, <2>0
       DEF DeleteFiles, Go, KeepRows, KeepBucket, WellFormed, Idle, Routed,
           Creation, Cleaning, CleanUp, ContactsTypeOK
  <2> QED
    BY <2>1, <2>2 DEF PutsOne
<1>12. ASSUME NEW q \in Requests,
             Unheld(q), Save(q), UNCHANGED nameVars
      PROVE  PutsOne'
  <2>0. WellFormed(req[q])
    BY AtRequest
  <2>1. \A p \in Requests \ {q} : req'[p] = req[p]
    BY <1>12
       DEF Save, Saved, SetsBack, Lose, Current, Go, KeepRows, KeepBucket,
           ContactsTypeOK
  <2>2. req'[q].at = "save_avatar" => req'[q].new \in Avatars
    BY <1>12, <2>0
       DEF Save, Saved, SetsBack, Lose, Current, Go, KeepRows, KeepBucket,
           WellFormed, Idle, Routed, Creation, Cleaning, CleanUp,
           ContactsTypeOK
  <2> QED
    BY <2>1, <2>2 DEF PutsOne
<1>13. ASSUME NEW q \in Requests,
             Fail(q), UNCHANGED nameVars
      PROVE  PutsOne'
  <2>0. WellFormed(req[q])
    BY AtRequest
  <2>1. \A p \in Requests \ {q} : req'[p] = req[p]
    BY <1>13 DEF Fail, Active, Go, KeepRows, KeepBucket, ContactsTypeOK
  <2>2. req'[q].at = "save_avatar" => req'[q].new \in Avatars
    BY <1>13, <2>0
       DEF Fail, Active, Go, KeepRows, KeepBucket, WellFormed, Idle, Routed,
           Creation, Cleaning, CleanUp, ContactsTypeOK
  <2> QED
    BY <2>1, <2>2 DEF PutsOne
<1>14. ASSUME NEW r \in Registrars,
             N!Register(r),
             UNCHANGED <<files, drawn, req, overwritten, stray>>
      PROVE  PutsOne'
  BY <1>14 DEF PutsOne
<1>15. ASSUME NEW r \in Registrars,
             N!InsertUser(r),
             UNCHANGED <<files, drawn, req, overwritten, stray>>
      PROVE  PutsOne'
  BY <1>15 DEF PutsOne
<1>16. ASSUME NEW r \in Registrars,
             N!InsertOrg(r),
             UNCHANGED <<files, drawn, req, overwritten, stray>>
      PROVE  PutsOne'
  BY <1>16 DEF PutsOne
<1>17. ASSUME NEW r \in Registrars,
             N!Rename(r),
             UNCHANGED <<files, drawn, req, overwritten, stray>>
      PROVE  PutsOne'
  BY <1>17 DEF PutsOne
<1>18. ASSUME NEW r \in Registrars,
             N!Abort(r),
             UNCHANGED <<files, drawn, req, overwritten, stray>>
      PROVE  PutsOne'
  BY <1>18 DEF PutsOne
<1>19. ASSUME NEW r \in Registrars, NEW u \in UserIds, NEW n \in Names,
             N!CheckName(r, u, n),
             UNCHANGED <<files, drawn, req, overwritten, stray>>
      PROVE  PutsOne'
  BY <1>19 DEF PutsOne
<1>20. ASSUME NEW r \in Registrars, NEW n \in Names,
             N!InsertUserConflicts(r, n),
             UNCHANGED <<files, drawn, req, overwritten, stray>>
      PROVE  PutsOne'
  BY <1>20 DEF PutsOne
<1>21. ASSUME NEW r \in Registrars, NEW n \in Names,
             N!InsertOrgConflicts(r, n),
             UNCHANGED <<files, drawn, req, overwritten, stray>>
      PROVE  PutsOne'
  BY <1>21 DEF PutsOne
<1>22. ASSUME NEW r \in Registrars, NEW x \in Texts,
             N!CommitRegistration(r, x),
             UNCHANGED <<files, drawn, req, overwritten, stray>>
      PROVE  PutsOne'
  BY <1>22 DEF PutsOne
<1>23. ASSUME NEW n \in Names,
             N!CreateGroup(n),
             UNCHANGED <<files, drawn, req, overwritten, stray>>
      PROVE  PutsOne'
  BY <1>23 DEF PutsOne
<1>24. ASSUME NEW q \in Requests,
             Delete(q), T!ContactDeleted(req[q].contact), UNCHANGED nameVars
      PROVE  PutsOne'
  <2>0. WellFormed(req[q])
    BY AtRequest
  <2>1. \A p \in Requests \ {q} : req'[p] = req[p]
    BY <1>24 DEF Delete, Lose, Current, CleanUp, Go, ContactsTypeOK
  <2>2. req'[q].at = "save_avatar" => req'[q].new \in Avatars
    BY <1>24, <2>0
       DEF Delete, Lose, Current, CleanUp, Go, WellFormed, Idle, Routed,
           Creation, Cleaning, CleanUp, ContactsTypeOK
  <2> QED
    BY <2>1, <2>2 DEF PutsOne
<1>25. ASSUME NEW q \in Requests, NEW u \in UserIds,
             DeleteUser(q, u), N!UserDeleted(u)
      PROVE  PutsOne'
  <2>0. WellFormed(req[q])
    BY AtRequest
  <2>1. \A p \in Requests \ {q} : req'[p] = req[p]
    BY <1>25
       DEF DeleteUser, N!UserDeleted, CleanUp, Active, Go, KeepBucket,
           ContactsTypeOK
  <2>2. req'[q].at = "save_avatar" => req'[q].new \in Avatars
    BY <1>25, <2>0
       DEF DeleteUser, N!UserDeleted, CleanUp, Active, Go, KeepBucket,
           WellFormed, Idle, Routed, Creation, Cleaning, CleanUp,
           ContactsTypeOK
  <2> QED
    BY <2>1, <2>2 DEF PutsOne
<1>26. CASE UNCHANGED <<contactVars, nameVars>>
  BY <1>26 DEF contactVars, PutsOne
<1> QED
  BY ONLY <1>1, <1>2, <1>3, <1>4, <1>5, <1>6, <1>7, <1>8, <1>9, <1>10, <1>11,
          <1>12, <1>13, <1>14, <1>15, <1>16, <1>17, <1>18, <1>19, <1>20, <1>21,
          <1>22, <1>23, <1>24, <1>25, <1>26, Steps, Next
     DEF ContactNext, ContactEnds, NameNext, AccountEnds, TagNext

(* Requests that delete begin about a contact and keep their row.          *)
LEMMA DeletesContactsStep ==
  ASSUME ContactsTypeOK, DeletesContacts, Next
  PROVE  DeletesContacts'
<1>1. ASSUME NEW q \in Requests, NEW x \in Texts,
             BeginCreate(q, x), UNCHANGED nameVars
      PROVE  DeletesContacts'
  <2>0. WellFormed(req[q])
    BY AtRequest
  <2>1. \A p \in Requests \ {q} : req'[p] = req[p]
    BY <1>1 DEF BeginCreate, Active, Go, KeepRows, KeepBucket, ContactsTypeOK
  <2>2. req'[q].at = "delete" => req'[q].contact \in ContactIds
    BY <1>1, <2>0
       DEF BeginCreate, Active, Go, KeepRows, KeepBucket, WellFormed, Idle,
           Routed, Creation, Cleaning, CleanUp, ContactsTypeOK
  <2> QED
    BY <2>1, <2>2 DEF DeletesContacts
<1>2. ASSUME NEW q \in Requests, NEW c \in Owners,
             NEW at \in {"save", "put", "clear_avatar", "delete"},
             NEW x \in Texts \cup {Unset},
             Begin(q, c, at, x), at = "delete" =>
                c \in ContactIds, UNCHANGED nameVars
      PROVE  DeletesContacts'
  <2>0. WellFormed(req[q])
    BY AtRequest
  <2>1. \A p \in Requests \ {q} : req'[p] = req[p]
    BY <1>2 DEF Begin, Active, Go, KeepRows, KeepBucket, ContactsTypeOK
  <2>2. req'[q].at = "delete" => req'[q].contact \in ContactIds
    BY <1>2, <2>0
       DEF Begin, Active, Go, KeepRows, KeepBucket, WellFormed, Idle, Routed,
           Creation, Cleaning, CleanUp, ContactsTypeOK
  <2> QED
    BY <2>1, <2>2 DEF DeletesContacts
<1>3. ASSUME NEW q \in Requests,
             Insert(q), UNCHANGED nameVars
      PROVE  DeletesContacts'
  <2>0. WellFormed(req[q])
    BY AtRequest
  <2>1. \A p \in Requests \ {q} : req'[p] = req[p]
    BY <1>3 DEF Insert, Go, KeepRows, KeepBucket, ContactsTypeOK
  <2>2. req'[q].at = "delete" => req'[q].contact \in ContactIds
    BY <1>3, <2>0
       DEF Insert, Go, KeepRows, KeepBucket, WellFormed, Idle, Routed,
           Creation, Cleaning, CleanUp, ContactsTypeOK
  <2> QED
    BY <2>1, <2>2 DEF DeletesContacts
<1>4. ASSUME NEW q \in Requests, NEW n \in Names,
             InsertConflicts(q, n), UNCHANGED nameVars
      PROVE  DeletesContacts'
  <2>0. WellFormed(req[q])
    BY AtRequest
  <2>1. \A p \in Requests \ {q} : req'[p] = req[p]
    BY <1>4 DEF InsertConflicts, Go, KeepRows, KeepBucket, ContactsTypeOK
  <2>2. req'[q].at = "delete" => req'[q].contact \in ContactIds
    BY <1>4, <2>0
       DEF InsertConflicts, Go, KeepRows, KeepBucket, WellFormed, Idle, Routed,
           Creation, Cleaning, CleanUp, ContactsTypeOK
  <2> QED
    BY <2>1, <2>2 DEF DeletesContacts
<1>5. ASSUME NEW q \in Requests,
             PutAvatar(q), UNCHANGED nameVars
      PROVE  DeletesContacts'
  <2>0. WellFormed(req[q])
    BY AtRequest
  <2>1. \A p \in Requests \ {q} : req'[p] = req[p]
    BY <1>5 DEF PutAvatar, Go, KeepRows, KeepBucket, ContactsTypeOK
  <2>2. req'[q].at = "delete" => req'[q].contact \in ContactIds
    BY <1>5, <2>0
       DEF PutAvatar, Go, KeepRows, KeepBucket, WellFormed, Idle, Routed,
           Creation, Cleaning, CleanUp, ContactsTypeOK
  <2> QED
    BY <2>1, <2>2 DEF DeletesContacts
<1>6. ASSUME NEW q \in Requests, NEW landed \in BOOLEAN,
             PutFails(q, landed), UNCHANGED nameVars
      PROVE  DeletesContacts'
  <2>0. WellFormed(req[q])
    BY AtRequest
  <2>1. \A p \in Requests \ {q} : req'[p] = req[p]
    BY <1>6 DEF PutFails, Go, KeepRows, KeepBucket, ContactsTypeOK
  <2>2. req'[q].at = "delete" => req'[q].contact \in ContactIds
    BY <1>6, <2>0
       DEF PutFails, Go, KeepRows, KeepBucket, WellFormed, Idle, Routed,
           Creation, Cleaning, CleanUp, ContactsTypeOK
  <2> QED
    BY <2>1, <2>2 DEF DeletesContacts
<1>7. ASSUME NEW q \in Requests,
             SaveAvatar(q), UNCHANGED nameVars
      PROVE  DeletesContacts'
  <2>0. WellFormed(req[q])
    BY AtRequest
  <2>1. \A p \in Requests \ {q} : req'[p] = req[p]
    BY <1>7
       DEF SaveAvatar, SetAvatar, Lose, Current, CleanUp, Go, KeepRows,
           KeepBucket, ContactsTypeOK
  <2>2. req'[q].at = "delete" => req'[q].contact \in ContactIds
    BY <1>7, <2>0
       DEF SaveAvatar, SetAvatar, Lose, Current, CleanUp, Go, KeepRows,
           KeepBucket, WellFormed, Idle, Routed, Creation, Cleaning, CleanUp,
           ContactsTypeOK
  <2> QED
    BY <2>1, <2>2 DEF DeletesContacts
<1>8. ASSUME NEW q \in Requests,
             SaveAvatarReplyLost(q), UNCHANGED nameVars
      PROVE  DeletesContacts'
  <2>0. WellFormed(req[q])
    BY AtRequest
  <2>1. \A p \in Requests \ {q} : req'[p] = req[p]
    BY <1>8 DEF SaveAvatarReplyLost, Go, KeepRows, KeepBucket, ContactsTypeOK
  <2>2. req'[q].at = "delete" => req'[q].contact \in ContactIds
    BY <1>8, <2>0
       DEF SaveAvatarReplyLost, Go, KeepRows, KeepBucket, WellFormed, Idle,
           Routed, Creation, Cleaning, CleanUp, ContactsTypeOK
  <2> QED
    BY <2>1, <2>2 DEF DeletesContacts
<1>9. ASSUME NEW q \in Requests,
             ClearAvatar(q), UNCHANGED nameVars
      PROVE  DeletesContacts'
  <2>0. WellFormed(req[q])
    BY AtRequest
  <2>1. \A p \in Requests \ {q} : req'[p] = req[p]
    BY <1>9
       DEF ClearAvatar, SetAvatar, Lose, Current, CleanUp, Go, KeepRows,
           KeepBucket, ContactsTypeOK
  <2>2. req'[q].at = "delete" => req'[q].contact \in ContactIds
    BY <1>9, <2>0
       DEF ClearAvatar, SetAvatar, Lose, Current, CleanUp, Go, KeepRows,
           KeepBucket, WellFormed, Idle, Routed, Creation, Cleaning, CleanUp,
           ContactsTypeOK
  <2> QED
    BY <2>1, <2>2 DEF DeletesContacts
<1>10. ASSUME NEW q \in Requests, NEW fails \in BOOLEAN,
             SaveAvatarFails(q, fails), UNCHANGED nameVars
      PROVE  DeletesContacts'
  <2>0. WellFormed(req[q])
    BY AtRequest
  <2>1. \A p \in Requests \ {q} : req'[p] = req[p]
    BY <1>10 DEF SaveAvatarFails, Go, KeepRows, KeepBucket, ContactsTypeOK
  <2>2. req'[q].at = "delete" => req'[q].contact \in ContactIds
    BY <1>10, <2>0
       DEF SaveAvatarFails, Go, KeepRows, KeepBucket, WellFormed, Idle, Routed,
           Creation, Cleaning, CleanUp, ContactsTypeOK
  <2> QED
    BY <2>1, <2>2 DEF DeletesContacts
<1>11. ASSUME NEW q \in Requests, NEW fails \in BOOLEAN,
             DeleteFiles(q, fails), UNCHANGED nameVars
      PROVE  DeletesContacts'
  <2>0. WellFormed(req[q])
    BY AtRequest
  <2>1. \A p \in Requests \ {q} : req'[p] = req[p]
    BY <1>11 DEF DeleteFiles, Go, KeepRows, KeepBucket, ContactsTypeOK
  <2>2. req'[q].at = "delete" => req'[q].contact \in ContactIds
    BY <1>11, <2>0
       DEF DeleteFiles, Go, KeepRows, KeepBucket, WellFormed, Idle, Routed,
           Creation, Cleaning, CleanUp, ContactsTypeOK
  <2> QED
    BY <2>1, <2>2 DEF DeletesContacts
<1>12. ASSUME NEW q \in Requests,
             Unheld(q), Save(q), UNCHANGED nameVars
      PROVE  DeletesContacts'
  <2>0. WellFormed(req[q])
    BY AtRequest
  <2>1. \A p \in Requests \ {q} : req'[p] = req[p]
    BY <1>12
       DEF Save, Saved, SetsBack, Lose, Current, Go, KeepRows, KeepBucket,
           ContactsTypeOK
  <2>2. req'[q].at = "delete" => req'[q].contact \in ContactIds
    BY <1>12, <2>0
       DEF Save, Saved, SetsBack, Lose, Current, Go, KeepRows, KeepBucket,
           WellFormed, Idle, Routed, Creation, Cleaning, CleanUp,
           ContactsTypeOK
  <2> QED
    BY <2>1, <2>2 DEF DeletesContacts
<1>13. ASSUME NEW q \in Requests,
             Fail(q), UNCHANGED nameVars
      PROVE  DeletesContacts'
  <2>0. WellFormed(req[q])
    BY AtRequest
  <2>1. \A p \in Requests \ {q} : req'[p] = req[p]
    BY <1>13 DEF Fail, Active, Go, KeepRows, KeepBucket, ContactsTypeOK
  <2>2. req'[q].at = "delete" => req'[q].contact \in ContactIds
    BY <1>13, <2>0
       DEF Fail, Active, Go, KeepRows, KeepBucket, WellFormed, Idle, Routed,
           Creation, Cleaning, CleanUp, ContactsTypeOK
  <2> QED
    BY <2>1, <2>2 DEF DeletesContacts
<1>14. ASSUME NEW r \in Registrars,
             N!Register(r),
             UNCHANGED <<files, drawn, req, overwritten, stray>>
      PROVE  DeletesContacts'
  BY <1>14 DEF DeletesContacts
<1>15. ASSUME NEW r \in Registrars,
             N!InsertUser(r),
             UNCHANGED <<files, drawn, req, overwritten, stray>>
      PROVE  DeletesContacts'
  BY <1>15 DEF DeletesContacts
<1>16. ASSUME NEW r \in Registrars,
             N!InsertOrg(r),
             UNCHANGED <<files, drawn, req, overwritten, stray>>
      PROVE  DeletesContacts'
  BY <1>16 DEF DeletesContacts
<1>17. ASSUME NEW r \in Registrars,
             N!Rename(r),
             UNCHANGED <<files, drawn, req, overwritten, stray>>
      PROVE  DeletesContacts'
  BY <1>17 DEF DeletesContacts
<1>18. ASSUME NEW r \in Registrars,
             N!Abort(r),
             UNCHANGED <<files, drawn, req, overwritten, stray>>
      PROVE  DeletesContacts'
  BY <1>18 DEF DeletesContacts
<1>19. ASSUME NEW r \in Registrars, NEW u \in UserIds, NEW n \in Names,
             N!CheckName(r, u, n),
             UNCHANGED <<files, drawn, req, overwritten, stray>>
      PROVE  DeletesContacts'
  BY <1>19 DEF DeletesContacts
<1>20. ASSUME NEW r \in Registrars, NEW n \in Names,
             N!InsertUserConflicts(r, n),
             UNCHANGED <<files, drawn, req, overwritten, stray>>
      PROVE  DeletesContacts'
  BY <1>20 DEF DeletesContacts
<1>21. ASSUME NEW r \in Registrars, NEW n \in Names,
             N!InsertOrgConflicts(r, n),
             UNCHANGED <<files, drawn, req, overwritten, stray>>
      PROVE  DeletesContacts'
  BY <1>21 DEF DeletesContacts
<1>22. ASSUME NEW r \in Registrars, NEW x \in Texts,
             N!CommitRegistration(r, x),
             UNCHANGED <<files, drawn, req, overwritten, stray>>
      PROVE  DeletesContacts'
  BY <1>22 DEF DeletesContacts
<1>23. ASSUME NEW n \in Names,
             N!CreateGroup(n),
             UNCHANGED <<files, drawn, req, overwritten, stray>>
      PROVE  DeletesContacts'
  BY <1>23 DEF DeletesContacts
<1>24. ASSUME NEW q \in Requests,
             Delete(q), T!ContactDeleted(req[q].contact), UNCHANGED nameVars
      PROVE  DeletesContacts'
  <2>0. WellFormed(req[q])
    BY AtRequest
  <2>1. \A p \in Requests \ {q} : req'[p] = req[p]
    BY <1>24 DEF Delete, Lose, Current, CleanUp, Go, ContactsTypeOK
  <2>2. req'[q].at = "delete" => req'[q].contact \in ContactIds
    BY <1>24, <2>0
       DEF Delete, Lose, Current, CleanUp, Go, WellFormed, Idle, Routed,
           Creation, Cleaning, CleanUp, ContactsTypeOK
  <2> QED
    BY <2>1, <2>2 DEF DeletesContacts
<1>25. ASSUME NEW q \in Requests, NEW u \in UserIds,
             DeleteUser(q, u), N!UserDeleted(u)
      PROVE  DeletesContacts'
  <2>0. WellFormed(req[q])
    BY AtRequest
  <2>1. \A p \in Requests \ {q} : req'[p] = req[p]
    BY <1>25
       DEF DeleteUser, N!UserDeleted, CleanUp, Active, Go, KeepBucket,
           ContactsTypeOK
  <2>2. req'[q].at = "delete" => req'[q].contact \in ContactIds
    BY <1>25, <2>0
       DEF DeleteUser, N!UserDeleted, CleanUp, Active, Go, KeepBucket,
           WellFormed, Idle, Routed, Creation, Cleaning, CleanUp,
           ContactsTypeOK
  <2> QED
    BY <2>1, <2>2 DEF DeletesContacts
<1>26. CASE UNCHANGED <<contactVars, nameVars>>
  BY <1>26 DEF contactVars, DeletesContacts
<1> QED
  BY ONLY <1>1, <1>2, <1>3, <1>4, <1>5, <1>6, <1>7, <1>8, <1>9, <1>10, <1>11,
          <1>12, <1>13, <1>14, <1>15, <1>16, <1>17, <1>18, <1>19, <1>20, <1>21,
          <1>22, <1>23, <1>24, <1>25, <1>26, Steps, Next
     DEF ContactNext, ContactEnds, NameNext, AccountEnds, TagNext

(* Contacts keep their invariant.                                          *)
LEMMA ContactInvStep ==
  ASSUME ContactInv, NameInv, Next
  PROVE  ContactInv'
<1>1. ContactsTypeOK' /\ PutsOne' /\ DeletesContacts' /\ Custody
  BY ContactTypeStep, PutsOneStep, DeletesContactsStep, CustodyStep
     DEF ContactInv
<1>2. files \subseteq drawn /\ drawn \subseteq Avatars
  BY DEF ContactInv, ContactsTypeOK
<1>3. AvatarsDrawn' /\ NewUnknown' /\ OneOwner' /\ OldReplaced' /\ NamedThere'
      /\ FilesNamed'
  BY <1>1, <1>2, AvatarsDrawnStep, NewUnknownStep, OneOwnerStep,
     OldReplacedStep,
     NamedThereStep, FilesNamedStep DEF ContactInv
<1> QED
  BY <1>1, <1>3 DEF ContactInv

(* AvatarFilesMatch follows from who names what.                           *)
LEMMA MatchesByNames ==
  ASSUME ContactInv
  PROVE  AvatarFilesMatch
<1>1. ContactsTypeOK /\ NamedThere /\ FilesNamed
  BY DEF ContactInv
<1>2. AvatarsThere
  BY <1>1 DEF NamedThere, AvatarsThere, Present, Current, ContactsTypeOK
<1>3. ASSUME NEW a \in files \ (Referenced \cup stray)
      PROVE  \E q \in Requests : \/ req[q].at = "save_avatar" /\ req[q].new = a
                                 \/ req[q].at = "cleanup" /\ req[q].old = a
  <2>0. a \in Avatars /\ a # NoAvatar
    BY <1>1, <1>3, ContactsAssumption DEF ContactsTypeOK
  <2>1. ASSUME NEW c \in Owners, Current(c) = a
        PROVE  FALSE
    BY <1>1, <1>3, <2>0, <2>1 DEF Current, Referenced, Present
  <2>2. PICK q \in Requests : Puts(q) = a \/ Drops(q) = a
    BY <1>1, <1>3, <2>1 DEF FilesNamed
  <2>3. WellFormed(req[q])
    BY <1>1, AtRequest
  <2> QED
    BY <2>0, <2>2, <2>3 DEF Puts, Drops, Cleans, WellFormed
<1> QED
  BY <1>2, <1>3 DEF AvatarFilesMatch, NoUnexplainedFile

(* What a step of a contact does to the rows of users, and to requests. *)
UsersKept ==
    \A u \in UserIds : /\ rows'[u] = NoRow <=> rows[u] = NoRow
                       /\ rows[u] # NoRow => rows'[u].name = rows[u].name

(* A full save writes back the username it has read.                       *)
SavesOver(q, u) ==
    /\ About(q) /\ req[q].contact = u /\ u \in UserIds
    /\ rows'[u] # NoRow /\ rows'[u].name = req[q].seen.name
    /\ \A v \in UserIds \ {u} : rows'[v] = rows[v]
    /\ \A r \in Registrars : ~N!HoldsUsername(r, rows'[u].name)
    /\ \/ u \in overwritten'
       \/ rows[u] # NoRow /\ rows'[u].name = rows[u].name

(* What a step of contacts does as accounts see it.                        *)
Apart ==
    /\ created' \cap UserIds = created \cap UserIds
    /\ created \subseteq created'
    /\ overwritten \subseteq overwritten' /\ UNCHANGED nameVars
    /\ UsersKept \/ \E q \in Requests, u \in UserIds : SavesOver(q, u)

(* Requests are about rows that were there when they began.                *)
RequestsFollow ==
    \A q \in Requests : About(q)' =>
        \/ About(q) /\ req'[q].contact = req[q].contact
        \/ req'[q].contact \in Present

(* Every step lets requests follow their rows.                             *)
LEMMA FollowStep ==
  ASSUME ContactsTypeOK, Next
  PROVE  RequestsFollow
<1>1. ASSUME NEW q \in Requests, NEW x \in Texts,
             BeginCreate(q, x), UNCHANGED nameVars
      PROVE  RequestsFollow
  <2>0. WellFormed(req[q])
    BY AtRequest
  <2>1. \A p \in Requests \ {q} : req'[p] = req[p]
    BY <1>1 DEF BeginCreate, Active, Go, KeepRows, KeepBucket, ContactsTypeOK
  <2>2. req'[q] \in Routed =>
          \/ req[q] \in Routed /\ req'[q].contact = req[q].contact
          \/ req'[q].contact \in Present
    BY <1>1, <2>0
       DEF BeginCreate, Active, Go, KeepRows, KeepBucket, WellFormed, Idle,
           Routed, Creation, Cleaning, CleanUp,
       ContactsTypeOK
  <2> QED
    BY <2>1, <2>2 DEF RequestsFollow, About
<1>2. ASSUME NEW q \in Requests, NEW c \in Owners,
             NEW at \in {"save", "put", "clear_avatar", "delete"},
             NEW x \in Texts \cup {Unset},
             Begin(q, c, at, x), at = "delete" =>
                c \in ContactIds, UNCHANGED nameVars
      PROVE  RequestsFollow
  <2>0. WellFormed(req[q])
    BY AtRequest
  <2>1. \A p \in Requests \ {q} : req'[p] = req[p]
    BY <1>2 DEF Begin, Active, Go, KeepRows, KeepBucket, ContactsTypeOK
  <2>2. req'[q] \in Routed =>
          \/ req[q] \in Routed /\ req'[q].contact = req[q].contact
          \/ req'[q].contact \in Present
    BY <1>2, <2>0
       DEF Begin, Active, Go, KeepRows, KeepBucket, WellFormed, Idle, Routed,
           Creation, Cleaning, CleanUp,
       ContactsTypeOK
  <2> QED
    BY <2>1, <2>2 DEF RequestsFollow, About
<1>3. ASSUME NEW q \in Requests,
             Insert(q), UNCHANGED nameVars
      PROVE  RequestsFollow
  <2>0. WellFormed(req[q])
    BY AtRequest
  <2>1. \A p \in Requests \ {q} : req'[p] = req[p]
    BY <1>3 DEF Insert, Go, KeepRows, KeepBucket, ContactsTypeOK
  <2>2. req'[q] \in Routed =>
          \/ req[q] \in Routed /\ req'[q].contact = req[q].contact
          \/ req'[q].contact \in Present
    BY <1>3, <2>0
       DEF Insert, Go, KeepRows, KeepBucket, WellFormed, Idle, Routed,
           Creation, Cleaning, CleanUp,
       ContactsTypeOK
  <2> QED
    BY <2>1, <2>2 DEF RequestsFollow, About
<1>4. ASSUME NEW q \in Requests, NEW n \in Names,
             InsertConflicts(q, n), UNCHANGED nameVars
      PROVE  RequestsFollow
  <2>0. WellFormed(req[q])
    BY AtRequest
  <2>1. \A p \in Requests \ {q} : req'[p] = req[p]
    BY <1>4 DEF InsertConflicts, Go, KeepRows, KeepBucket, ContactsTypeOK
  <2>2. req'[q] \in Routed =>
          \/ req[q] \in Routed /\ req'[q].contact = req[q].contact
          \/ req'[q].contact \in Present
    BY <1>4, <2>0
       DEF InsertConflicts, Go, KeepRows, KeepBucket, WellFormed, Idle, Routed,
           Creation, Cleaning, CleanUp,
       ContactsTypeOK
  <2> QED
    BY <2>1, <2>2 DEF RequestsFollow, About
<1>5. ASSUME NEW q \in Requests,
             PutAvatar(q), UNCHANGED nameVars
      PROVE  RequestsFollow
  <2>0. WellFormed(req[q])
    BY AtRequest
  <2>1. \A p \in Requests \ {q} : req'[p] = req[p]
    BY <1>5 DEF PutAvatar, Go, KeepRows, KeepBucket, ContactsTypeOK
  <2>2. req'[q] \in Routed =>
          \/ req[q] \in Routed /\ req'[q].contact = req[q].contact
          \/ req'[q].contact \in Present
    BY <1>5, <2>0, AvatarLeft
       DEF PutAvatar, Go, KeepRows, KeepBucket, WellFormed, Idle, Routed,
           Creation, Cleaning, CleanUp,
       ContactsTypeOK
  <2> QED
    BY <2>1, <2>2 DEF RequestsFollow, About
<1>6. ASSUME NEW q \in Requests, NEW landed \in BOOLEAN,
             PutFails(q, landed), UNCHANGED nameVars
      PROVE  RequestsFollow
  <2>0. WellFormed(req[q])
    BY AtRequest
  <2>1. \A p \in Requests \ {q} : req'[p] = req[p]
    BY <1>6 DEF PutFails, Go, KeepRows, KeepBucket, ContactsTypeOK
  <2>2. req'[q] \in Routed =>
          \/ req[q] \in Routed /\ req'[q].contact = req[q].contact
          \/ req'[q].contact \in Present
    BY <1>6, <2>0
       DEF PutFails, Go, KeepRows, KeepBucket, WellFormed, Idle, Routed,
           Creation, Cleaning, CleanUp,
       ContactsTypeOK
  <2> QED
    BY <2>1, <2>2 DEF RequestsFollow, About
<1>7. ASSUME NEW q \in Requests,
             SaveAvatar(q), UNCHANGED nameVars
      PROVE  RequestsFollow
  <2>0. WellFormed(req[q])
    BY AtRequest
  <2>1. \A p \in Requests \ {q} : req'[p] = req[p]
    BY <1>7
       DEF SaveAvatar, SetAvatar, Lose, Current, CleanUp, Go, KeepRows,
           KeepBucket, ContactsTypeOK
  <2>2. req'[q] \in Routed =>
          \/ req[q] \in Routed /\ req'[q].contact = req[q].contact
          \/ req'[q].contact \in Present
    BY <1>7, <2>0
       DEF SaveAvatar, SetAvatar, Lose, Current, CleanUp, Go, KeepRows,
           KeepBucket, WellFormed, Idle, Routed, Creation, Cleaning, CleanUp,
       ContactsTypeOK
  <2> QED
    BY <2>1, <2>2 DEF RequestsFollow, About
<1>8. ASSUME NEW q \in Requests,
             SaveAvatarReplyLost(q), UNCHANGED nameVars
      PROVE  RequestsFollow
  <2>0. WellFormed(req[q])
    BY AtRequest
  <2>1. \A p \in Requests \ {q} : req'[p] = req[p]
    BY <1>8 DEF SaveAvatarReplyLost, Go, KeepRows, KeepBucket, ContactsTypeOK
  <2>2. req'[q] \in Routed =>
          \/ req[q] \in Routed /\ req'[q].contact = req[q].contact
          \/ req'[q].contact \in Present
    BY <1>8, <2>0
       DEF SaveAvatarReplyLost, Go, KeepRows, KeepBucket, WellFormed, Idle,
           Routed, Creation, Cleaning, CleanUp,
       ContactsTypeOK
  <2> QED
    BY <2>1, <2>2 DEF RequestsFollow, About
<1>9. ASSUME NEW q \in Requests,
             ClearAvatar(q), UNCHANGED nameVars
      PROVE  RequestsFollow
  <2>0. WellFormed(req[q])
    BY AtRequest
  <2>1. \A p \in Requests \ {q} : req'[p] = req[p]
    BY <1>9
       DEF ClearAvatar, SetAvatar, Lose, Current, CleanUp, Go, KeepRows,
           KeepBucket, ContactsTypeOK
  <2>2. req'[q] \in Routed =>
          \/ req[q] \in Routed /\ req'[q].contact = req[q].contact
          \/ req'[q].contact \in Present
    BY <1>9, <2>0
       DEF ClearAvatar, SetAvatar, Lose, Current, CleanUp, Go, KeepRows,
           KeepBucket, WellFormed, Idle, Routed, Creation, Cleaning, CleanUp,
       ContactsTypeOK
  <2> QED
    BY <2>1, <2>2 DEF RequestsFollow, About
<1>10. ASSUME NEW q \in Requests, NEW fails \in BOOLEAN,
             SaveAvatarFails(q, fails), UNCHANGED nameVars
      PROVE  RequestsFollow
  <2>0. WellFormed(req[q])
    BY AtRequest
  <2>1. \A p \in Requests \ {q} : req'[p] = req[p]
    BY <1>10 DEF SaveAvatarFails, Go, KeepRows, KeepBucket, ContactsTypeOK
  <2>2. req'[q] \in Routed =>
          \/ req[q] \in Routed /\ req'[q].contact = req[q].contact
          \/ req'[q].contact \in Present
    BY <1>10, <2>0
       DEF SaveAvatarFails, Go, KeepRows, KeepBucket, WellFormed, Idle, Routed,
           Creation, Cleaning, CleanUp,
       ContactsTypeOK
  <2> QED
    BY <2>1, <2>2 DEF RequestsFollow, About
<1>11. ASSUME NEW q \in Requests, NEW fails \in BOOLEAN,
             DeleteFiles(q, fails), UNCHANGED nameVars
      PROVE  RequestsFollow
  <2>0. WellFormed(req[q])
    BY AtRequest
  <2>1. \A p \in Requests \ {q} : req'[p] = req[p]
    BY <1>11 DEF DeleteFiles, Go, KeepRows, KeepBucket, ContactsTypeOK
  <2>2. req'[q] \in Routed =>
          \/ req[q] \in Routed /\ req'[q].contact = req[q].contact
          \/ req'[q].contact \in Present
    BY <1>11, <2>0
       DEF DeleteFiles, Go, KeepRows, KeepBucket, WellFormed, Idle, Routed,
           Creation, Cleaning, CleanUp,
       ContactsTypeOK
  <2> QED
    BY <2>1, <2>2 DEF RequestsFollow, About
<1>12. ASSUME NEW q \in Requests,
             Unheld(q), Save(q), UNCHANGED nameVars
      PROVE  RequestsFollow
  <2>0. WellFormed(req[q])
    BY AtRequest
  <2>1. \A p \in Requests \ {q} : req'[p] = req[p]
    BY <1>12
       DEF Save, Saved, SetsBack, Lose, Current, Go, KeepRows, KeepBucket,
           ContactsTypeOK
  <2>2. req'[q] \in Routed =>
          \/ req[q] \in Routed /\ req'[q].contact = req[q].contact
          \/ req'[q].contact \in Present
    BY <1>12, <2>0
       DEF Save, Saved, SetsBack, Lose, Current, Go, KeepRows, KeepBucket,
           WellFormed, Idle, Routed, Creation, Cleaning, CleanUp,
       ContactsTypeOK
  <2> QED
    BY <2>1, <2>2 DEF RequestsFollow, About
<1>13. ASSUME NEW q \in Requests,
             Fail(q), UNCHANGED nameVars
      PROVE  RequestsFollow
  <2>0. WellFormed(req[q])
    BY AtRequest
  <2>1. \A p \in Requests \ {q} : req'[p] = req[p]
    BY <1>13 DEF Fail, Active, Go, KeepRows, KeepBucket, ContactsTypeOK
  <2>2. req'[q] \in Routed =>
          \/ req[q] \in Routed /\ req'[q].contact = req[q].contact
          \/ req'[q].contact \in Present
    BY <1>13, <2>0
       DEF Fail, Active, Go, KeepRows, KeepBucket, WellFormed, Idle, Routed,
           Creation, Cleaning, CleanUp,
       ContactsTypeOK
  <2> QED
    BY <2>1, <2>2 DEF RequestsFollow, About
<1>14. ASSUME NEW r \in Registrars,
             N!Register(r),
             UNCHANGED <<files, drawn, req, overwritten, stray>>
      PROVE  RequestsFollow
  BY <1>14 DEF RequestsFollow, About
<1>15. ASSUME NEW r \in Registrars,
             N!InsertUser(r),
             UNCHANGED <<files, drawn, req, overwritten, stray>>
      PROVE  RequestsFollow
  BY <1>15 DEF RequestsFollow, About
<1>16. ASSUME NEW r \in Registrars,
             N!InsertOrg(r),
             UNCHANGED <<files, drawn, req, overwritten, stray>>
      PROVE  RequestsFollow
  BY <1>16 DEF RequestsFollow, About
<1>17. ASSUME NEW r \in Registrars,
             N!Rename(r),
             UNCHANGED <<files, drawn, req, overwritten, stray>>
      PROVE  RequestsFollow
  BY <1>17 DEF RequestsFollow, About
<1>18. ASSUME NEW r \in Registrars,
             N!Abort(r),
             UNCHANGED <<files, drawn, req, overwritten, stray>>
      PROVE  RequestsFollow
  BY <1>18 DEF RequestsFollow, About
<1>19. ASSUME NEW r \in Registrars, NEW u \in UserIds, NEW n \in Names,
             N!CheckName(r, u, n),
             UNCHANGED <<files, drawn, req, overwritten, stray>>
      PROVE  RequestsFollow
  BY <1>19 DEF RequestsFollow, About
<1>20. ASSUME NEW r \in Registrars, NEW n \in Names,
             N!InsertUserConflicts(r, n),
             UNCHANGED <<files, drawn, req, overwritten, stray>>
      PROVE  RequestsFollow
  BY <1>20 DEF RequestsFollow, About
<1>21. ASSUME NEW r \in Registrars, NEW n \in Names,
             N!InsertOrgConflicts(r, n),
             UNCHANGED <<files, drawn, req, overwritten, stray>>
      PROVE  RequestsFollow
  BY <1>21 DEF RequestsFollow, About
<1>22. ASSUME NEW r \in Registrars, NEW x \in Texts,
             N!CommitRegistration(r, x),
             UNCHANGED <<files, drawn, req, overwritten, stray>>
      PROVE  RequestsFollow
  BY <1>22 DEF RequestsFollow, About
<1>23. ASSUME NEW n \in Names,
             N!CreateGroup(n),
             UNCHANGED <<files, drawn, req, overwritten, stray>>
      PROVE  RequestsFollow
  BY <1>23 DEF RequestsFollow, About
<1>24. ASSUME NEW q \in Requests,
             Delete(q), T!ContactDeleted(req[q].contact), UNCHANGED nameVars
      PROVE  RequestsFollow
  <2>0. WellFormed(req[q])
    BY AtRequest
  <2>1. \A p \in Requests \ {q} : req'[p] = req[p]
    BY <1>24 DEF Delete, Lose, Current, CleanUp, Go, ContactsTypeOK
  <2>2. req'[q] \in Routed =>
          \/ req[q] \in Routed /\ req'[q].contact = req[q].contact
          \/ req'[q].contact \in Present
    BY <1>24, <2>0
       DEF Delete, Lose, Current, CleanUp, Go, WellFormed, Idle, Routed,
           Creation, Cleaning, CleanUp,
       ContactsTypeOK
  <2> QED
    BY <2>1, <2>2 DEF RequestsFollow, About
<1>25. ASSUME NEW q \in Requests, NEW u \in UserIds,
             DeleteUser(q, u), N!UserDeleted(u)
      PROVE  RequestsFollow
  <2>0. WellFormed(req[q])
    BY AtRequest
  <2>1. \A p \in Requests \ {q} : req'[p] = req[p]
    BY <1>25
       DEF DeleteUser, N!UserDeleted, CleanUp, Active, Go, KeepBucket,
           ContactsTypeOK
  <2>2. req'[q] \in Routed =>
          \/ req[q] \in Routed /\ req'[q].contact = req[q].contact
          \/ req'[q].contact \in Present
    BY <1>25, <2>0
       DEF DeleteUser, N!UserDeleted, CleanUp, Active, Go, KeepBucket,
           WellFormed, Idle, Routed, Creation, Cleaning, CleanUp,
       ContactsTypeOK
  <2> QED
    BY <2>1, <2>2 DEF RequestsFollow, About
<1>26. CASE UNCHANGED <<contactVars, nameVars>>
  BY <1>26 DEF contactVars, RequestsFollow, About
<1> QED
  BY ONLY <1>1, <1>2, <1>3, <1>4, <1>5, <1>6, <1>7, <1>8, <1>9, <1>10, <1>11,
          <1>12, <1>13, <1>14, <1>15, <1>16, <1>17, <1>18, <1>19, <1>20, <1>21,
          <1>22, <1>23, <1>24, <1>25, <1>26, Steps, Next
     DEF ContactNext, ContactEnds, NameNext, AccountEnds, TagNext

(* Steps of contacts, and those of nobody, are Apart.                      *)
LEMMA ContactsApart ==
  ASSUME ContactsTypeOK, PutsOne, DeletesContacts,
         ContactNext \/ ContactEnds \/ UNCHANGED <<contactVars, nameVars>>
  PROVE  Apart
<1>1. ASSUME NEW q \in Requests, NEW x \in Texts,
             BeginCreate(q, x), UNCHANGED nameVars
      PROVE  Apart
  BY <1>1
     DEF Apart, UsersKept, BeginCreate, Active, Go, KeepRows, KeepBucket,
         KeepRows
<1>2. ASSUME NEW q \in Requests, NEW c \in Owners,
             NEW at \in {"save", "put", "clear_avatar", "delete"},
             NEW x \in Texts \cup {Unset},
             Begin(q, c, at, x), at = "delete" =>
                c \in ContactIds, UNCHANGED nameVars
      PROVE  Apart
  BY <1>2
     DEF Apart, UsersKept, Begin, Active, Go, KeepRows, KeepBucket, KeepRows
<1>3. ASSUME NEW q \in Requests,
             Insert(q), UNCHANGED nameVars
      PROVE  Apart
  <2>1. Fresh(ContactIds, created) \in ContactIds
    BY <1>3, FreshIs DEF Insert
  <2>2. \A u \in UserIds : u # Fresh(ContactIds, created)
    BY <2>1, ContactsAssumption
  <2> HIDE DEF Fresh
  <2>3. \A u \in UserIds : rows'[u] = rows[u]
    BY <1>3, <2>2 DEF Insert, Owners, ContactsTypeOK
  <2> QED
    BY <1>3, <2>1, <2>2, <2>3 DEF Apart, UsersKept, Insert
<1>4. ASSUME NEW q \in Requests, NEW n \in Names,
             InsertConflicts(q, n), UNCHANGED nameVars
      PROVE  Apart
  BY <1>4
     DEF Apart, UsersKept, InsertConflicts, Go, KeepRows, KeepBucket, KeepRows
<1>5. ASSUME NEW q \in Requests,
             PutAvatar(q), UNCHANGED nameVars
      PROVE  Apart
  BY <1>5 DEF Apart, UsersKept, PutAvatar, Go, KeepRows, KeepBucket, KeepRows
<1>6. ASSUME NEW q \in Requests, NEW landed \in BOOLEAN,
             PutFails(q, landed), UNCHANGED nameVars
      PROVE  Apart
  BY <1>6 DEF Apart, UsersKept, PutFails, Go, KeepRows, KeepBucket, KeepRows
<1>7. ASSUME NEW q \in Requests,
             SaveAvatar(q), UNCHANGED nameVars
      PROVE  Apart
  <2> DEFINE c == req[q].contact
  <2>0. WellFormed(req[q])
    BY AtRequest
  <2>1. /\ c \in Owners /\ rows[c] \in Row
        /\ req[q].new \in Avatars \cup {NoAvatar}
    BY <1>7, <2>0
       DEF SaveAvatar, SetAvatar, Lose, Current, CleanUp, Go, KeepRows,
           KeepBucket, WellFormed, Present, ContactsTypeOK
  <2>2. /\ rows'[c] \in Row /\ rows'[c].name = rows[c].name
        /\ \A d \in Owners \ {c} : rows'[d] = rows[d]
    BY <1>7, <2>1, WithAvatar
       DEF SaveAvatar, SetAvatar, Lose, Current, CleanUp, Go, KeepRows,
           KeepBucket, ContactsTypeOK
  <2>3. UsersKept
    BY <2>1, <2>2, NoRowAssumption DEF UsersKept, Owners
  <2> QED
    BY <1>7, <2>3
       DEF Apart, SaveAvatar, SetAvatar, Lose, Current, CleanUp, Go, KeepRows,
           KeepBucket
<1>8. ASSUME NEW q \in Requests,
             SaveAvatarReplyLost(q), UNCHANGED nameVars
      PROVE  Apart
  <2> DEFINE c == req[q].contact
  <2>0. WellFormed(req[q])
    BY AtRequest
  <2>1. /\ c \in Owners /\ rows[c] \in Row
        /\ req[q].new \in Avatars \cup {NoAvatar}
    BY <1>8, <2>0
       DEF SaveAvatarReplyLost, Go, KeepRows, KeepBucket, WellFormed, Present,
           ContactsTypeOK
  <2>2. /\ rows'[c] \in Row /\ rows'[c].name = rows[c].name
        /\ \A d \in Owners \ {c} : rows'[d] = rows[d]
    BY <1>8, <2>1, WithAvatar
       DEF SaveAvatarReplyLost, Go, KeepRows, KeepBucket, ContactsTypeOK
  <2>3. UsersKept
    BY <2>1, <2>2, NoRowAssumption DEF UsersKept, Owners
  <2> QED
    BY <1>8, <2>3 DEF Apart, SaveAvatarReplyLost, Go, KeepRows, KeepBucket
<1>9. ASSUME NEW q \in Requests,
             ClearAvatar(q), UNCHANGED nameVars
      PROVE  Apart
  <2> DEFINE c == req[q].contact
  <2>0. WellFormed(req[q])
    BY AtRequest
  <2>1. c \in Owners /\ rows[c] \in Row /\ NoAvatar \in Avatars \cup {NoAvatar}
    BY <1>9, <2>0
       DEF ClearAvatar, SetAvatar, Lose, Current, CleanUp, Go, KeepRows,
           KeepBucket, WellFormed, Present, ContactsTypeOK
  <2>2. /\ rows'[c] \in Row /\ rows'[c].name = rows[c].name
        /\ \A d \in Owners \ {c} : rows'[d] = rows[d]
    BY <1>9, <2>1, WithAvatar
       DEF ClearAvatar, SetAvatar, Lose, Current, CleanUp, Go, KeepRows,
           KeepBucket, ContactsTypeOK
  <2>3. UsersKept
    BY <2>1, <2>2, NoRowAssumption DEF UsersKept, Owners
  <2> QED
    BY <1>9, <2>3
       DEF Apart, ClearAvatar, SetAvatar, Lose, Current, CleanUp, Go, KeepRows,
           KeepBucket
<1>10. ASSUME NEW q \in Requests, NEW fails \in BOOLEAN,
             SaveAvatarFails(q, fails), UNCHANGED nameVars
      PROVE  Apart
  BY <1>10
     DEF Apart, UsersKept, SaveAvatarFails, Go, KeepRows, KeepBucket, KeepRows
<1>11. ASSUME NEW q \in Requests, NEW fails \in BOOLEAN,
             DeleteFiles(q, fails), UNCHANGED nameVars
      PROVE  Apart
  BY <1>11
     DEF Apart, UsersKept, DeleteFiles, Go, KeepRows, KeepBucket, KeepRows
<1>12. ASSUME NEW q \in Requests,
             Unheld(q), Save(q), UNCHANGED nameVars
      PROVE  Apart
  <2> DEFINE c == req[q].contact
  <2>0. /\ c \in Owners /\ About(q) /\ Saved(q) \in Row
        /\ Saved(q).name = req[q].seen.name
    BY <1>12, AtRequest, SavedRow DEF Save, WellFormed, About
  <2>1. CASE KeepRows
    BY <1>12, <2>1 DEF Apart, UsersKept, KeepRows
  <2>2. CASE /\ rows' = [rows EXCEPT ![c] = Saved(q)]
             /\ overwritten' = IF SetsBack(q) THEN overwritten \cup {c}
                               ELSE overwritten
             /\ UNCHANGED created
    <3>1. /\ rows'[c] = Saved(q) /\ rows'[c] # NoRow
          /\ \A d \in Owners \ {c} : rows'[d] = rows[d]
      BY <2>0, <2>2, NoRowAssumption DEF ContactsTypeOK
    <3>2. CASE c \in UserIds
      <4>1. \/ c \in overwritten'
            \/ rows[c] # NoRow /\ rows'[c].name = rows[c].name
        <5>1. CASE SetsBack(q)
          BY <2>2, <5>1
        <5>2. CASE ~SetsBack(q)
          BY <2>0, <3>1, <5>2 DEF SetsBack
        <5> QED
          BY <5>1, <5>2
      <4>2. \A r \in Registrars : ~N!HoldsUsername(r, req[q].seen.name)
        BY <1>12, <3>2 DEF Unheld
      <4> HIDE DEF c
      <4>3. SavesOver(q, c)
        BY <2>0, <3>1, <3>2, <4>1, <4>2 DEF SavesOver, Owners, c
      <4> QED
        BY <1>12, <2>2, <3>2, <4>3 DEF Apart
    <3>3. CASE c \notin UserIds
      <4>1. UsersKept
        BY <3>1, <3>3 DEF UsersKept, Owners
      <4> QED
        BY <1>12, <2>2, <4>1 DEF Apart
    <3> QED
      BY <3>2, <3>3
  <2> QED
    BY <1>12, <2>1, <2>2 DEF Save
<1>13. ASSUME NEW q \in Requests,
             Fail(q), UNCHANGED nameVars
      PROVE  Apart
  BY <1>13
     DEF Apart, UsersKept, Fail, Active, Go, KeepRows, KeepBucket, KeepRows
<1>14. ASSUME NEW q \in Requests,
             Delete(q), T!ContactDeleted(req[q].contact), UNCHANGED nameVars
      PROVE  Apart
  <2>1. req[q].contact \notin UserIds
    BY <1>14, ContactsAssumption DEF Delete, DeletesContacts
  <2> QED
    BY <1>14, <2>1 DEF Apart, UsersKept, Delete, ContactsTypeOK, Owners
<1>15. CASE UNCHANGED <<contactVars, nameVars>>
  BY <1>15 DEF Apart, UsersKept, contactVars
<1> QED
  BY ONLY <1>1, <1>2, <1>3, <1>4, <1>5, <1>6, <1>7, <1>8, <1>9, <1>10, <1>11,
          <1>12, <1>13, <1>14, <1>15,
     ContactNext \/ ContactEnds \/ UNCHANGED <<contactVars, nameVars>>
     DEF ContactNext, ContactEnds

(* A registration that moves on leaves the others alone.                   *)
LEMMA ActsOn ==
  ASSUME N!NamesTypeOK, NEW r \in Registrars, NEW x, N!Go(r, x)
  PROVE  act'[r] = x /\ \A p \in Registrars \ {r} : act'[p] = act[p]
BY DEF N!Go, N!NamesTypeOK

(* The slugs in use are names.                                             *)
LEMMA SlugsAre ==
  ASSUME N!NamesTypeOK
  PROVE  /\ N!OrgSlugs \subseteq Names
         /\ \A u \in UserIds : personal[u] # NoOrg =>
               personal[u] \in N!Org /\ personal[u].slug \in N!OrgSlugs
BY RowShape DEF N!NamesTypeOK, N!OrgSlugs

(* A registration that tries again draws another name, or gives up, and    *)
(* holds no row.                                                           *)
LEMMA TryingAgain ==
  ASSUME N!NamesTypeOK, NEW r \in Registrars, NEW n \in Names,
         act[r].at \in {"user", "org"}, N!TryAgain(r, n)
  PROVE  /\ act'[r] \in {N!NoAct} \cup N!Drawing /\ ~N!Pending(r)'
         /\ \A p \in Registrars \ {r} : act'[p] = act[p]
<1>1. ActFormed(act[r])
  BY AtAct
<1>2. /\ act[r].tried \in 0..(Attempts - 1) /\ Attempts \in Nat \ {0}
      /\ act[r].tried + 1 < Attempts => act[r].tried + 1 \in 0..(Attempts - 1)
  BY <1>1, ContactsAssumption DEF ActFormed
<1>3. act'[r] \in {N!NoAct} \cup N!Drawing
  BY <1>2, ActsOn DEF N!TryAgain, N!Drawing
<1>4. ~N!Pending(r)'
  BY <1>3, ActShape DEF ActFormed, N!Pending
<1> QED
  BY <1>3, <1>4, ActsOn DEF N!TryAgain

(* The types of usernames, slugs and registrations.                        *)
LEMMA NamesTypeStep ==
  ASSUME ContactsTypeOK, PutsOne, DeletesContacts, NameInv, Next
  PROVE  N!NamesTypeOK'
<1> USE DEF NameInv
<1>1. CASE Apart
  BY <1>1 DEF Apart, nameVars, N!NamesTypeOK
<1>2. ASSUME NEW r \in Registrars,
             N!Register(r), UNCHANGED overwritten
      PROVE  N!NamesTypeOK'
  <2>1. N!FirstFree(N!Usernames(UserIds)) \in Names
    <3>1. N!Usernames(UserIds) = Taken(UserIds)
      BY DEF N!Usernames, N!Users, Taken, Present, Owners
    <3> QED
      BY <3>1, ANameIsFree, FirstFreeIsFree DEF ContactsTypeOK
  <2>2. act'[r] \in N!Drawing
    BY <1>2, <2>1, ActsOn, ContactsAssumption DEF N!Register, N!Drawing
  <2> QED
    BY <1>2, <2>2, ActsOn DEF N!Register, N!KeepAccounts, N!Go, N!NamesTypeOK
<1>3. ASSUME NEW r \in Registrars,
             N!InsertUser(r), UNCHANGED overwritten
      PROVE  N!NamesTypeOK'
  <2> DEFINE u == CHOOSE v \in UserIds \ created : TRUE
  <2>0. ActFormed(act[r]) /\ u \in UserIds
    BY <1>3, AtAct DEF N!InsertUser
  <2>1. N!FirstFree(N!OrgSlugs) \in Names
    <3>1. Names \ N!OrgSlugs # {}
      BY <1>3, SlugsAre DEF N!InsertUser
    <3> QED
      BY <3>1, FirstFreeIsFree
  <2>2. act'[r] \in N!Creating
    BY <1>3, <2>0, <2>1, ActsOn, ContactsAssumption
       DEF N!InsertUser, ActFormed, N!Creating
  <2> QED
    BY <1>3, <2>2 DEF N!InsertUser, N!Go, N!NamesTypeOK
<1>4. ASSUME NEW r \in Registrars,
             N!InsertOrg(r), UNCHANGED overwritten
      PROVE  N!NamesTypeOK'
  <2>0. ActFormed(act[r])
    BY AtAct
  <2>1. act'[r] \in {N!NoAct} \cup N!Drawing \cup N!Creating \cup N!Renaming
    BY <1>4, <2>0, ActsOn
       DEF N!InsertOrg, N!KeepAccounts, N!Go, ActFormed, N!Drawing, N!Creating,
           N!Renaming
  <2> QED
    BY <1>4, <2>1, ActsOn DEF N!InsertOrg, N!KeepAccounts, N!Go, N!NamesTypeOK
<1>5. ASSUME NEW r \in Registrars,
             N!Rename(r), UNCHANGED overwritten
      PROVE  N!NamesTypeOK'
  <2> DEFINE u == act[r].user
  <2>0. /\ ActFormed(act[r]) /\ u \in UserIds /\ act[r].name \in Names
        /\ act'[r] = N!NoAct
    BY <1>5, AtAct, ActsOn DEF N!Rename, ActFormed
  <2>1. CASE personal' = personal
    BY <1>5, <2>0, <2>1 DEF N!Rename, N!Go, N!NamesTypeOK
  <2>2. CASE /\ personal[u] # NoOrg
             /\ personal' = [personal EXCEPT ![u].name = act[r].name]
    <3>1. /\ personal' \in [UserIds -> N!Org \cup {NoOrg}]
          /\ \A v \in UserIds : personal'[v] # NoOrg =>
                personal[v] # NoOrg /\ personal'[v].slug = personal[v].slug
      BY <2>0, <2>2 DEF N!NamesTypeOK, N!Org
    <3> QED
      BY <1>5, <2>0, <3>1 DEF N!Rename, N!Go, N!NamesTypeOK
  <2> QED
    BY <1>5, <2>1, <2>2 DEF N!Rename, N!NameBoth
<1>6. ASSUME NEW r \in Registrars,
             N!Abort(r), UNCHANGED overwritten
      PROVE  N!NamesTypeOK'
  <2>0. ActFormed(act[r])
    BY AtAct
  <2>1. act'[r] \in {N!NoAct} \cup N!Drawing \cup N!Creating \cup N!Renaming
    BY <1>6, <2>0, ActsOn
       DEF N!Abort, N!KeepAccounts, N!Go, ActFormed, N!Drawing, N!Creating,
           N!Renaming
  <2> QED
    BY <1>6, <2>1, ActsOn DEF N!Abort, N!KeepAccounts, N!Go, N!NamesTypeOK
<1>7. ASSUME NEW r \in Registrars, NEW u \in UserIds, NEW n \in Names,
             N!CheckName(r, u, n), UNCHANGED overwritten
      PROVE  N!NamesTypeOK'
  <2>0. ActFormed(act[r])
    BY AtAct
  <2>1. act'[r] \in {N!NoAct} \cup N!Drawing \cup N!Creating \cup N!Renaming
    BY <1>7, <2>0, ActsOn
       DEF N!CheckName, N!KeepAccounts, N!Go, ActFormed, N!Drawing, N!Creating,
           N!Renaming
  <2> QED
    BY <1>7, <2>1, ActsOn DEF N!CheckName, N!KeepAccounts, N!Go, N!NamesTypeOK
<1>8. ASSUME NEW r \in Registrars, NEW n \in Names,
             N!InsertUserConflicts(r, n), UNCHANGED overwritten
      PROVE  N!NamesTypeOK'
  <2>1. act'[r] \in {N!NoAct} \cup N!Drawing
    BY <1>8, TryingAgain DEF N!InsertUserConflicts
  <2> QED
    BY <1>8, <2>1
       DEF N!InsertUserConflicts, N!TryAgain, N!KeepAccounts, N!Go,
           N!NamesTypeOK
<1>9. ASSUME NEW r \in Registrars, NEW n \in Names,
             N!InsertOrgConflicts(r, n), UNCHANGED overwritten
      PROVE  N!NamesTypeOK'
  <2>0. /\ ActFormed(act[r]) /\ act[r] \in N!Creating
        /\ act[r].slugsTried \in 0..(Attempts - 1) /\ Attempts \in Nat
        /\ act[r].slugsTried + 1 < Attempts =>
              act[r].slugsTried + 1 \in 0..(Attempts - 1)
    BY <1>9, AtAct, ContactsAssumption DEF N!InsertOrgConflicts, ActFormed
  <2>1. act'[r] \in {N!NoAct} \cup N!Drawing \cup N!Creating
    <3>1. CASE N!TryAgain(r, n)
      BY <1>9, <3>1, TryingAgain DEF N!InsertOrgConflicts
    <3>2. CASE /\ act[r].slugsTried + 1 < Attempts
               /\ N!Go(r, [act[r] EXCEPT !.slug = n, !.slugsTried = @ + 1])
      <4> DEFINE y == [act[r] EXCEPT !.slug = n, !.slugsTried = @ + 1]
      <4>1. y \in N!Creating
        BY <2>0, <3>2 DEF N!Creating
      <4> QED
        BY <3>2, <4>1, ActsOn
    <3> QED
      BY <1>9, <3>1, <3>2 DEF N!InsertOrgConflicts
  <2> QED
    BY <1>9, <2>1
       DEF N!InsertOrgConflicts, N!TryAgain, N!KeepAccounts, N!Go,
           N!NamesTypeOK
<1>10. ASSUME NEW r \in Registrars, NEW x \in Texts,
             N!CommitRegistration(r, x), UNCHANGED overwritten
      PROVE  N!NamesTypeOK'
  <2> DEFINE u == act[r].user
  <2>0. /\ ActFormed(act[r]) /\ u \in UserIds
        /\ act[r].slug \in Names \ N!OrgSlugs /\ act[r].name \in Names
        /\ act'[r] = N!NoAct
    BY <1>10, AtAct, ActsOn
       DEF N!CommitRegistration, ActFormed, Reserved, N!Pending
  <2>1. /\ personal' = [personal EXCEPT ![u] =
                          [slug |-> act[r].slug, name |-> act[r].name]]
        /\ [slug |-> act[r].slug, name |-> act[r].name] \in N!Org
    BY <1>10, <2>0 DEF N!CommitRegistration, N!Org
  <2>2. \A v \in UserIds : personal[v] # NoOrg =>
           personal[v].slug # act[r].slug
    BY <2>0, SlugsAre
  <2>3. personal' \in [UserIds -> N!Org \cup {NoOrg}]
    BY <2>0, <2>1 DEF N!NamesTypeOK
  <2>4. ASSUME NEW v \in UserIds, NEW w \in UserIds,
               personal'[v] # NoOrg, personal'[w] # NoOrg,
               personal'[v].slug = personal'[w].slug
        PROVE  v = w
    BY <2>0, <2>1, <2>2, <2>4 DEF N!NamesTypeOK
  <2> QED
    BY <1>10, <2>0, <2>3, <2>4 DEF N!CommitRegistration, N!Go, N!NamesTypeOK
<1>11. ASSUME NEW n \in Names,
             N!CreateGroup(n), UNCHANGED overwritten
      PROVE  N!NamesTypeOK'
  BY <1>11 DEF N!CreateGroup, N!NamesTypeOK
<1>12. ASSUME NEW q \in Requests, NEW u \in UserIds,
             DeleteUser(q, u), N!UserDeleted(u)
      PROVE  N!NamesTypeOK'
  BY <1>12 DEF N!UserDeleted, N!NamesTypeOK
<1>e. Apart \/ NameNext \/ AccountEnds
  BY Steps, ContactsApart DEF TagNext
<1> QED
  BY ONLY <1>1, <1>2, <1>3, <1>4, <1>5, <1>6, <1>7, <1>8, <1>9, <1>10, <1>11,
          <1>12, <1>e
          DEF NameNext, AccountEnds

(* A row that has been created has been created.                           *)
LEMMA CreatedGrows ==
  ASSUME ContactsTypeOK, PutsOne, DeletesContacts, Next
  PROVE  created \subseteq created'
<1>1. CASE Apart
  BY <1>1 DEF Apart
<1>2. ASSUME NEW r \in Registrars,
             N!Register(r), UNCHANGED overwritten
      PROVE  created \subseteq created'
  BY <1>2 DEF N!Register, N!KeepAccounts, N!Go
<1>3. ASSUME NEW r \in Registrars,
             N!InsertUser(r), UNCHANGED overwritten
      PROVE  created \subseteq created'
  BY <1>3 DEF N!InsertUser, N!Go
<1>4. ASSUME NEW r \in Registrars,
             N!InsertOrg(r), UNCHANGED overwritten
      PROVE  created \subseteq created'
  BY <1>4 DEF N!InsertOrg, N!KeepAccounts, N!Go
<1>5. ASSUME NEW r \in Registrars,
             N!Rename(r), UNCHANGED overwritten
      PROVE  created \subseteq created'
  BY <1>5 DEF N!Rename, N!NameBoth, N!Go
<1>6. ASSUME NEW r \in Registrars,
             N!Abort(r), UNCHANGED overwritten
      PROVE  created \subseteq created'
  BY <1>6 DEF N!Abort, N!KeepAccounts, N!Go
<1>7. ASSUME NEW r \in Registrars, NEW u \in UserIds, NEW n \in Names,
             N!CheckName(r, u, n), UNCHANGED overwritten
      PROVE  created \subseteq created'
  BY <1>7 DEF N!CheckName, N!KeepAccounts, N!Go
<1>8. ASSUME NEW r \in Registrars, NEW n \in Names,
             N!InsertUserConflicts(r, n), UNCHANGED overwritten
      PROVE  created \subseteq created'
  BY <1>8 DEF N!InsertUserConflicts, N!TryAgain, N!KeepAccounts, N!Go
<1>9. ASSUME NEW r \in Registrars, NEW n \in Names,
             N!InsertOrgConflicts(r, n), UNCHANGED overwritten
      PROVE  created \subseteq created'
  BY <1>9 DEF N!InsertOrgConflicts, N!TryAgain, N!KeepAccounts, N!Go
<1>10. ASSUME NEW r \in Registrars, NEW x \in Texts,
             N!CommitRegistration(r, x), UNCHANGED overwritten
      PROVE  created \subseteq created'
  BY <1>10 DEF N!CommitRegistration, N!Go
<1>11. ASSUME NEW n \in Names,
             N!CreateGroup(n), UNCHANGED overwritten
      PROVE  created \subseteq created'
  BY <1>11 DEF N!CreateGroup, N!Go
<1>12. ASSUME NEW q \in Requests, NEW u \in UserIds,
             DeleteUser(q, u), N!UserDeleted(u)
      PROVE  created \subseteq created'
  BY <1>12 DEF DeleteUser
<1>e. Apart \/ NameNext \/ AccountEnds
  BY Steps, ContactsApart DEF TagNext
<1> QED
  BY ONLY <1>1, <1>2, <1>3, <1>4, <1>5, <1>6, <1>7, <1>8, <1>9, <1>10, <1>11,
          <1>12, <1>e
          DEF NameNext, AccountEnds

(* Requests follow their rows, and rows are created with their             *)
(* organization.                                                           *)
LEMMA KnownRowsStep ==
  ASSUME ContactsTypeOK, PutsOne, DeletesContacts, NameInv, Next
  PROVE  KnownRows'
<1> USE DEF NameInv
<1>a. \A q \in Requests : About(q)' => req'[q].contact \in created'
  <2>1. created \subseteq created' /\ Present \subseteq created
    BY CreatedGrows DEF ContactsTypeOK
  <2> QED
    BY <2>1, FollowStep DEF RequestsFollow, KnownRows
<1>0. \A u \in UserIds \ created : personal[u] = NoOrg
  BY DEF KnownRows
<1> SUFFICES \A u \in UserIds \ created' : personal'[u] = NoOrg
  BY <1>a DEF KnownRows
<1> USE DEF KnownRows
<1>1. CASE Apart
  BY <1>1 DEF Apart, KnownRows, nameVars
<1>2. ASSUME NEW r \in Registrars,
             N!Register(r), UNCHANGED overwritten
      PROVE  \A v \in UserIds \ created' : personal'[v] = NoOrg
  BY <1>2, <1>0 DEF N!Register, N!KeepAccounts, N!Go, KnownRows
<1>3. ASSUME NEW r \in Registrars,
             N!InsertUser(r), UNCHANGED overwritten
      PROVE  \A v \in UserIds \ created' : personal'[v] = NoOrg
  BY <1>3 DEF N!InsertUser, KnownRows, N!NamesTypeOK
<1>4. ASSUME NEW r \in Registrars,
             N!InsertOrg(r), UNCHANGED overwritten
      PROVE  \A v \in UserIds \ created' : personal'[v] = NoOrg
  BY <1>4, <1>0 DEF N!InsertOrg, N!KeepAccounts, N!Go, KnownRows
<1>5. ASSUME NEW r \in Registrars,
             N!Rename(r), UNCHANGED overwritten
      PROVE  \A v \in UserIds \ created' : personal'[v] = NoOrg
  BY <1>5, AtAct DEF N!Rename, N!NameBoth, ActFormed, KnownRows, N!NamesTypeOK
<1>6. ASSUME NEW r \in Registrars,
             N!Abort(r), UNCHANGED overwritten
      PROVE  \A v \in UserIds \ created' : personal'[v] = NoOrg
  BY <1>6, <1>0 DEF N!Abort, N!KeepAccounts, N!Go, KnownRows
<1>7. ASSUME NEW r \in Registrars, NEW u \in UserIds, NEW n \in Names,
             N!CheckName(r, u, n), UNCHANGED overwritten
      PROVE  \A v \in UserIds \ created' : personal'[v] = NoOrg
  BY <1>7, <1>0 DEF N!CheckName, N!KeepAccounts, N!Go, KnownRows
<1>8. ASSUME NEW r \in Registrars, NEW n \in Names,
             N!InsertUserConflicts(r, n), UNCHANGED overwritten
      PROVE  \A v \in UserIds \ created' : personal'[v] = NoOrg
  BY <1>8, <1>0
     DEF N!InsertUserConflicts, N!TryAgain, N!KeepAccounts, N!Go, KnownRows
<1>9. ASSUME NEW r \in Registrars, NEW n \in Names,
             N!InsertOrgConflicts(r, n), UNCHANGED overwritten
      PROVE  \A v \in UserIds \ created' : personal'[v] = NoOrg
  BY <1>9, <1>0
     DEF N!InsertOrgConflicts, N!TryAgain, N!KeepAccounts, N!Go, KnownRows
<1>10. ASSUME NEW r \in Registrars, NEW x \in Texts,
             N!CommitRegistration(r, x), UNCHANGED overwritten
      PROVE  \A v \in UserIds \ created' : personal'[v] = NoOrg
  BY <1>10, AtAct
     DEF N!CommitRegistration, KnownRows, Reserved, N!Pending, N!NamesTypeOK
<1>11. ASSUME NEW n \in Names,
             N!CreateGroup(n), UNCHANGED overwritten
      PROVE  \A v \in UserIds \ created' : personal'[v] = NoOrg
  BY <1>11, <1>0 DEF N!CreateGroup, N!Go, KnownRows
<1>12. ASSUME NEW q \in Requests, NEW u \in UserIds,
             DeleteUser(q, u), N!UserDeleted(u)
      PROVE  \A v \in UserIds \ created' : personal'[v] = NoOrg
  BY <1>12 DEF DeleteUser, N!UserDeleted, N!NamesTypeOK, KnownRows
<1>e. Apart \/ NameNext \/ AccountEnds
  BY Steps, ContactsApart DEF TagNext
<1> QED
  BY ONLY <1>1, <1>2, <1>3, <1>4, <1>5, <1>6, <1>7, <1>8, <1>9, <1>10, <1>11,
          <1>12, <1>e
          DEF NameNext, AccountEnds

(* A name is inserted only if no registration holds it uncommitted: the    *)
(* unique index makes the second insertion wait for the first              *)
(* transaction.                                                            *)
LEMMA ReservedStep ==
  ASSUME ContactsTypeOK, PutsOne, DeletesContacts, NameInv, Next
  PROVE  Reserved'
<1> USE DEF NameInv
<1>a. \A r \in Registrars : N!Pending(r) =>
        \A q \in Requests : About(q)' => req'[q].contact # act[r].user
  BY FollowStep DEF RequestsFollow, Reserved, Present
<1>1. CASE Apart
  <2>1. act' = act /\ personal' = personal /\ N!OrgSlugs' = N!OrgSlugs
    BY <1>1 DEF Apart, nameVars, N!OrgSlugs
  <2>2. \A r \in Registrars : N!Pending(r) =>
          /\ rows'[act[r].user] = NoRow
          /\ act[r].name \notin N!Usernames(UserIds)'
    <3>1. CASE UsersKept
      BY <3>1, AtAct
         DEF UsersKept, Reserved, N!Pending, ActFormed, N!Usernames, N!Users
    <3>2. ASSUME NEW q \in Requests, NEW u \in UserIds, SavesOver(q, u)
          PROVE  \A r \in Registrars : N!Pending(r) =>
                    /\ rows'[act[r].user] = NoRow
                    /\ act[r].name \notin N!Usernames(UserIds)'
      BY <3>2, AtAct
         DEF SavesOver, Reserved, N!Pending, N!HoldsUsername, ActFormed,
         N!Usernames, N!Users
    <3> QED
      BY <1>1, <3>1, <3>2 DEF Apart
  <2> QED
    BY <1>1, <2>1, <2>2, <1>a DEF Apart, Reserved, N!Pending
<1>2. ASSUME NEW r \in Registrars,
             N!Register(r), UNCHANGED overwritten
      PROVE  Reserved'
  <2>1. ~N!Pending(r)' /\ \A p \in Registrars \ {r} : act'[p] = act[p]
    BY <1>2, ActsOn DEF N!Register, N!KeepAccounts, N!Pending, N!NoAct
  <2>2. /\ N!Usernames(UserIds)' = N!Usernames(UserIds)
        /\ N!OrgSlugs' = N!OrgSlugs
    BY <1>2
       DEF N!Register, N!KeepAccounts, N!Go, N!Usernames, N!Users, N!OrgSlugs
  <2> QED
    BY <1>2, <2>1, <2>2, <1>a
       DEF N!Register, N!KeepAccounts, Reserved, N!Pending
<1>3. ASSUME NEW r \in Registrars,
             N!InsertUser(r), UNCHANGED overwritten
      PROVE  Reserved'
  <2> DEFINE u == CHOOSE v \in UserIds \ created : TRUE
  <2>1. /\ u \in UserIds \ created /\ rows[u] = NoRow /\ personal[u] = NoOrg
    BY <1>3 DEF N!InsertUser, ContactsTypeOK, Present, Owners, KnownRows
  <2>2. /\ act'[r].at = "org" /\ act'[r].user = u /\ act'[r].name = act[r].name
        /\ \A p \in Registrars \ {r} : act'[p] = act[p]
        /\ created' = created \cup {u} /\ UNCHANGED <<rows, personal, groups>>
        /\ act[r].name \notin N!Usernames(UserIds)
        /\ \A p \in Registrars : ~N!HoldsUsername(p, act[r].name)
    BY <1>3, ActsOn DEF N!InsertUser
  <2>3. /\ N!Usernames(UserIds)' = N!Usernames(UserIds)
        /\ N!OrgSlugs' = N!OrgSlugs
    BY <2>2 DEF N!Usernames, N!Users, N!OrgSlugs
  <2>4. \A q \in Requests : About(q)' => req'[q].contact \in created
    BY FollowStep DEF RequestsFollow, KnownRows, ContactsTypeOK
  <2> HIDE DEF u
  <2> QED
    BY <2>1, <2>2, <2>3, <2>4, <1>a DEF Reserved, N!Pending, N!HoldsUsername
<1>4. ASSUME NEW r \in Registrars,
             N!InsertOrg(r), UNCHANGED overwritten
      PROVE  Reserved'
  <2>1. /\ act'[r] = [act[r] EXCEPT !.at = "commit"] /\ act[r].at = "org"
        /\ \A p \in Registrars \ {r} : act'[p] = act[p]
        /\ act[r].slug \notin N!OrgSlugs
        /\ \A p \in Registrars : ~N!HoldsSlug(p, act[r].slug)
        /\ UNCHANGED <<rows, created, personal, groups>>
    BY <1>4, ActsOn DEF N!InsertOrg, N!KeepAccounts
  <2>2. act[r] \in N!Creating
    BY <2>1, AtAct DEF ActFormed
  <2>3. /\ act'[r].at = "commit" /\ act'[r].slug = act[r].slug
        /\ act'[r].user = act[r].user /\ act'[r].name = act[r].name
    BY <2>1, <2>2 DEF N!Creating
  <2>4. /\ N!Usernames(UserIds)' = N!Usernames(UserIds)
        /\ N!OrgSlugs' = N!OrgSlugs
    BY <2>1 DEF N!Usernames, N!Users, N!OrgSlugs
  <2>5. \A p \in Registrars \ {r} : act[p].at = "commit" =>
           act[p].slug # act[r].slug
    BY <2>1 DEF N!HoldsSlug
  <2>6. N!Pending(r) /\ \A p \in Registrars : N!Pending(p)' <=> N!Pending(p)
    BY <2>1, <2>3 DEF N!Pending
  <2>7. \A p \in Registrars : /\ act'[p].user = act[p].user
                              /\ act'[p].name = act[p].name
                              /\ act'[p].slug = act[p].slug
                              /\ p # r => act'[p].at = act[p].at
    BY <2>1, <2>3
  <2>8. UNCHANGED <<rows, created, personal>>
    BY <2>1
  <2>9. \A q \in Requests, p \in Registrars : N!Pending(p) /\ About(q)' =>
          req'[q].contact # act[p].user
    BY <1>a
  <2>b. ASSUME NEW s \in Registrars, N!Pending(s)'
        PROVE  /\ act'[s].user \in created' /\ rows'[act'[s].user] = NoRow
               /\ personal'[act'[s].user] = NoOrg
               /\ act'[s].name \notin N!Usernames(UserIds)'
               /\ act'[s].at = "commit" => act'[s].slug \notin N!OrgSlugs'
               /\ \A q \in Requests : About(q)' =>
                     req'[q].contact # act'[s].user
    <3>1. N!Pending(s)
      BY <2>b, <2>6
    <3>2. act'[s].at = "commit" => act[s].slug \notin N!OrgSlugs
      BY <2>1, <2>7, <3>1 DEF Reserved
    <3> QED
      BY <2>4, <2>7, <2>8, <2>9, <3>1, <3>2 DEF Reserved
  <2>c. ASSUME NEW s \in Registrars, N!Pending(s)',
               NEW p \in Registrars \ {s}, N!Pending(p)'
        PROVE  /\ act'[p].user # act'[s].user /\ act'[p].name # act'[s].name
               /\ act'[p].at = "commit" /\ act'[s].at = "commit" =>
                     act'[p].slug # act'[s].slug
    <3>1. N!Pending(s) /\ N!Pending(p)
      BY <2>b, <2>c, <2>6
    <3>2. /\ act[p].user # act[s].user /\ act[p].name # act[s].name
          /\ act[p].at = "commit" /\ act[s].at = "commit" =>
                act[p].slug # act[s].slug
      BY <3>1 DEF Reserved
    <3> QED
      BY <2>5, <2>7, <3>2
  <2> QED
    BY <2>b, <2>c DEF Reserved
<1>5. ASSUME NEW r \in Registrars,
             N!Rename(r), UNCHANGED overwritten
      PROVE  Reserved'
  <2> DEFINE u == act[r].user
  <2>1. /\ ~N!Pending(r)' /\ \A p \in Registrars \ {r} : act'[p] = act[p]
        /\ u \in UserIds /\ u \in Owners /\ act[r].name \in Names
        /\ groups' = groups /\ created' = created
    BY <1>5, ActsOn, AtAct DEF N!Rename, N!Pending, N!NoAct, ActFormed, Owners
  <2>2. CASE UNCHANGED <<rows, personal>>
    <3>1. /\ N!Usernames(UserIds)' = N!Usernames(UserIds)
          /\ N!OrgSlugs' = N!OrgSlugs
      BY <2>1, <2>2 DEF N!Usernames, N!Users, N!OrgSlugs
    <3> QED
      BY <2>1, <2>2, <3>1, <1>a DEF Reserved, N!Pending
  <2>3. CASE /\ u \in N!Users /\ personal[u] # NoOrg
             /\ rows' = [rows EXCEPT ![u].name = act[r].name]
             /\ personal' = [personal EXCEPT ![u].name = act[r].name]
    <3>1. /\ rows[u] # NoRow /\ rows[u] \in Row /\ personal[u] \in N!Org
      BY <2>1, <2>3 DEF N!Users, ContactsTypeOK, N!NamesTypeOK
    <3>2. /\ rows'[u].name = act[r].name
          /\ personal'[u].slug = personal[u].slug
          /\ \A v \in UserIds \ {u} : rows'[v] = rows[v] /\ personal'[v] = personal[v]
      BY <2>1, <2>3, <3>1, WithName
         DEF ContactsTypeOK, N!NamesTypeOK, Owners, N!Org
    <3>3. /\ N!Usernames(UserIds)' \subseteq N!Usernames(UserIds) \cup {act[r].name}
          /\ N!OrgSlugs' \subseteq N!OrgSlugs
      BY <2>1, <2>3, <3>2 DEF N!Usernames, N!Users, N!OrgSlugs
    <3>4. \A p \in Registrars : N!Pending(p) =>
             /\ act[p].user \in UserIds /\ act[p].user # u
             /\ act[p].name # act[r].name
      BY <1>5, <3>1, AtAct DEF Reserved, N!Pending, ActFormed, N!Rename,
         N!HoldsUsername
    <3> HIDE DEF u
    <3> QED
      BY <2>1, <3>2, <3>3, <3>4, <1>a DEF Reserved, N!Pending
  <2> QED
    BY <1>5, <2>2, <2>3 DEF N!Rename, N!NameBoth
<1>6. ASSUME NEW r \in Registrars,
             N!Abort(r), UNCHANGED overwritten
      PROVE  Reserved'
  <2>1. ~N!Pending(r)' /\ \A p \in Registrars \ {r} : act'[p] = act[p]
    BY <1>6, ActsOn DEF N!Abort, N!KeepAccounts, N!Pending, N!NoAct
  <2>2. /\ N!Usernames(UserIds)' = N!Usernames(UserIds)
        /\ N!OrgSlugs' = N!OrgSlugs
    BY <1>6 DEF N!Abort, N!KeepAccounts, N!Go, N!Usernames, N!Users, N!OrgSlugs
  <2> QED
    BY <1>6, <2>1, <2>2, <1>a DEF N!Abort, N!KeepAccounts, Reserved, N!Pending
<1>7. ASSUME NEW r \in Registrars, NEW u \in UserIds, NEW n \in Names,
             N!CheckName(r, u, n), UNCHANGED overwritten
      PROVE  Reserved'
  <2>1. ~N!Pending(r)' /\ \A p \in Registrars \ {r} : act'[p] = act[p]
    BY <1>7, ActsOn DEF N!CheckName, N!KeepAccounts, N!Pending, N!NoAct
  <2>2. /\ N!Usernames(UserIds)' = N!Usernames(UserIds)
        /\ N!OrgSlugs' = N!OrgSlugs
    BY <1>7
       DEF N!CheckName, N!KeepAccounts, N!Go, N!Usernames, N!Users, N!OrgSlugs
  <2> QED
    BY <1>7, <2>1, <2>2, <1>a
       DEF N!CheckName, N!KeepAccounts, Reserved, N!Pending
<1>8. ASSUME NEW r \in Registrars, NEW n \in Names,
             N!InsertUserConflicts(r, n), UNCHANGED overwritten
      PROVE  Reserved'
  <2>1. ~N!Pending(r)' /\ \A p \in Registrars \ {r} : act'[p] = act[p]
    BY <1>8, TryingAgain
       DEF N!InsertUserConflicts, N!KeepAccounts, N!Pending, N!NoAct
  <2>2. /\ N!Usernames(UserIds)' = N!Usernames(UserIds)
        /\ N!OrgSlugs' = N!OrgSlugs
    BY <1>8
       DEF N!InsertUserConflicts, N!TryAgain, N!KeepAccounts, N!Go,
           N!Usernames, N!Users, N!OrgSlugs
  <2> QED
    BY <1>8, <2>1, <2>2, <1>a
       DEF N!InsertUserConflicts, N!TryAgain, N!KeepAccounts, Reserved,
           N!Pending
<1>9. ASSUME NEW r \in Registrars, NEW n \in Names,
             N!InsertOrgConflicts(r, n), UNCHANGED overwritten
      PROVE  Reserved'
  <2>1. /\ N!Usernames(UserIds)' = N!Usernames(UserIds)
        /\ N!OrgSlugs' = N!OrgSlugs
    BY <1>9
       DEF N!InsertOrgConflicts, N!TryAgain, N!KeepAccounts, N!Go, N!Usernames,
           N!Users, N!OrgSlugs
  <2>2. CASE N!TryAgain(r, n)
    <3>1. ~N!Pending(r)' /\ \A p \in Registrars \ {r} : act'[p] = act[p]
      BY <1>9, <2>2, TryingAgain DEF N!InsertOrgConflicts
    <3> QED
      BY <1>9, <2>1, <3>1, <1>a
         DEF N!InsertOrgConflicts, N!KeepAccounts, Reserved,
         N!Pending
  <2>3. CASE N!Go(r, [act[r] EXCEPT !.slug = n, !.slugsTried = @ + 1])
    <3>1. act[r] \in N!Creating /\ act[r].at = "org"
      BY <1>9, AtAct DEF N!InsertOrgConflicts, ActFormed
    <3>2. /\ act'[r].at = "org" /\ act'[r].user = act[r].user
          /\ act'[r].name = act[r].name
          /\ \A p \in Registrars \ {r} : act'[p] = act[p]
      <4> DEFINE y == [act[r] EXCEPT !.slug = n, !.slugsTried = @ + 1]
      <4>1. y.at = "org" /\ y.user = act[r].user /\ y.name = act[r].name
        BY <3>1 DEF N!Creating
      <4> HIDE DEF y
      <4>2. N!Go(r, y)
        BY <2>3 DEF y
      <4> QED
        BY <4>1, <4>2, ActsOn
    <3> QED
      BY <1>9, <2>1, <3>1, <3>2, <1>a DEF N!InsertOrgConflicts, N!KeepAccounts,
         Reserved, N!Pending
  <2> QED
    BY <1>9, <2>2, <2>3 DEF N!InsertOrgConflicts
<1>10. ASSUME NEW r \in Registrars, NEW x \in Texts,
             N!CommitRegistration(r, x), UNCHANGED overwritten
      PROVE  Reserved'
  <2> DEFINE u == act[r].user
  <2>1. /\ ~N!Pending(r)' /\ \A p \in Registrars \ {r} : act'[p] = act[p]
        /\ act[r].at = "commit" /\ u \in UserIds /\ u \in Owners
    BY <1>10, ActsOn, AtAct
       DEF N!CommitRegistration, N!Pending, N!NoAct, ActFormed,
       Owners
  <2>2. /\ rows'[u].name = act[r].name
        /\ \A v \in UserIds \ {u} : rows'[v] = rows[v] /\ personal'[v] = personal[v]
        /\ personal'[u].slug = act[r].slug
        /\ groups' = groups /\ created' = created
    BY <1>10, <2>1
       DEF N!CommitRegistration, ContactsTypeOK, N!NamesTypeOK, Owners
  <2>3. /\ N!Usernames(UserIds)' \subseteq N!Usernames(UserIds) \cup {act[r].name}
        /\ N!OrgSlugs' \subseteq N!OrgSlugs \cup {act[r].slug}
    BY <2>1, <2>2 DEF N!Usernames, N!Users, N!OrgSlugs
  <2>4. \A p \in Registrars \ {r} : N!Pending(p) =>
           act[p].user \in UserIds /\ act[p].user # u
    BY <2>1, AtAct DEF Reserved, N!Pending, ActFormed
  <2> HIDE DEF u
  <2> QED
    BY <2>1, <2>2, <2>3, <2>4, <1>a DEF Reserved, N!Pending
<1>11. ASSUME NEW n \in Names,
             N!CreateGroup(n), UNCHANGED overwritten
      PROVE  Reserved'
  <2>1. N!Usernames(UserIds)' = N!Usernames(UserIds)
        /\ N!OrgSlugs' = N!OrgSlugs \cup {n}
    BY <1>11 DEF N!CreateGroup, N!Usernames, N!Users, N!OrgSlugs
  <2> QED
    BY <1>11, <2>1, <1>a DEF N!CreateGroup, N!HoldsSlug, Reserved, N!Pending
<1>12. ASSUME NEW q \in Requests, NEW u \in UserIds,
             DeleteUser(q, u), N!UserDeleted(u)
      PROVE  Reserved'
  <2>1. /\ N!Usernames(UserIds)' \subseteq N!Usernames(UserIds)
        /\ N!OrgSlugs' \subseteq N!OrgSlugs
        /\ \A v \in UserIds \ {u} : rows'[v] = rows[v] /\ personal'[v] = personal[v]
        /\ act' = act /\ created' = created /\ rows[u] # NoRow
    BY <1>12
       DEF DeleteUser, N!UserDeleted, N!Usernames, N!Users, N!OrgSlugs, Owners,
       ContactsTypeOK, N!NamesTypeOK, Present
  <2>2. \A r \in Registrars : N!Pending(r) =>
           act[r].user \in UserIds /\ act[r].user # u
    BY <2>1, AtAct DEF Reserved, N!Pending, ActFormed
  <2> QED
    BY <2>1, <2>2, <1>a DEF Reserved, N!Pending
<1>e. Apart \/ NameNext \/ AccountEnds
  BY Steps, ContactsApart DEF TagNext
<1> QED
  BY ONLY <1>1, <1>2, <1>3, <1>4, <1>5, <1>6, <1>7, <1>8, <1>9, <1>10, <1>11,
          <1>12, <1>e
          DEF NameNext, AccountEnds

(* A commit inserts the account whole, a deletion deletes it whole, and a  *)
(* full save brings no deleted user back that was not overwritten.         *)
LEMMA AccountsWholeStep ==
  ASSUME ContactsTypeOK, PutsOne, DeletesContacts, NameInv, Next
  PROVE  AccountsWhole'
<1> USE DEF NameInv
<1>1. CASE Apart
  <2>1. personal' = personal /\ overwritten \subseteq overwritten'
    BY <1>1 DEF Apart, nameVars
  <2>2. CASE UsersKept
    BY <2>1, <2>2 DEF UsersKept, AccountsWhole, Present, Owners
  <2>3. ASSUME NEW q \in Requests, NEW u \in UserIds, SavesOver(q, u)
        PROVE  AccountsWhole'
    BY <2>1, <2>3 DEF SavesOver, AccountsWhole, Present, Owners
  <2> QED
    BY <1>1, <2>2, <2>3 DEF Apart
<1>2. ASSUME NEW r \in Registrars,
             N!Register(r), UNCHANGED overwritten
      PROVE  AccountsWhole'
  BY <1>2 DEF N!Register, N!KeepAccounts, N!Go, AccountsWhole, Present
<1>3. ASSUME NEW r \in Registrars,
             N!InsertUser(r), UNCHANGED overwritten
      PROVE  AccountsWhole'
  BY <1>3 DEF N!InsertUser, N!Go, AccountsWhole, Present
<1>4. ASSUME NEW r \in Registrars,
             N!InsertOrg(r), UNCHANGED overwritten
      PROVE  AccountsWhole'
  BY <1>4 DEF N!InsertOrg, N!KeepAccounts, N!Go, AccountsWhole, Present
<1>5. ASSUME NEW r \in Registrars,
             N!Rename(r), UNCHANGED overwritten
      PROVE  AccountsWhole'
  <2> DEFINE u == act[r].user
  <2>1. u \in UserIds /\ u \in Owners /\ act[r].name \in Names
    BY <1>5, AtAct DEF N!Rename, ActFormed, Owners
  <2>2. CASE UNCHANGED <<rows, personal>>
    BY <1>5, <2>2 DEF AccountsWhole, Present
  <2>3. CASE /\ u \in N!Users /\ personal[u] # NoOrg
             /\ rows' = [rows EXCEPT ![u].name = act[r].name]
             /\ personal' = [personal EXCEPT ![u].name = act[r].name]
    <3>1. /\ rows[u] # NoRow /\ rows[u] \in Row /\ personal[u] \in N!Org
      BY <2>1, <2>3 DEF N!Users, ContactsTypeOK, N!NamesTypeOK
    <3>2. /\ rows'[u] \in Row /\ rows'[u].name = act[r].name
          /\ personal'[u] \in N!Org /\ personal'[u].name = act[r].name
          /\ \A v \in UserIds \ {u} : rows'[v] = rows[v] /\ personal'[v] = personal[v]
      BY <2>1, <2>3, <3>1, WithName
         DEF ContactsTypeOK, N!NamesTypeOK, Owners, N!Org
    <3> HIDE DEF u
    <3> QED
      BY <1>5, <2>1, <3>1, <3>2, RowShape DEF AccountsWhole, Present, Owners
  <2> QED
    BY <1>5, <2>2, <2>3 DEF N!Rename, N!NameBoth
<1>6. ASSUME NEW r \in Registrars,
             N!Abort(r), UNCHANGED overwritten
      PROVE  AccountsWhole'
  BY <1>6 DEF N!Abort, N!KeepAccounts, N!Go, AccountsWhole, Present
<1>7. ASSUME NEW r \in Registrars, NEW u \in UserIds, NEW n \in Names,
             N!CheckName(r, u, n), UNCHANGED overwritten
      PROVE  AccountsWhole'
  BY <1>7 DEF N!CheckName, N!KeepAccounts, N!Go, AccountsWhole, Present
<1>8. ASSUME NEW r \in Registrars, NEW n \in Names,
             N!InsertUserConflicts(r, n), UNCHANGED overwritten
      PROVE  AccountsWhole'
  BY <1>8
     DEF N!InsertUserConflicts, N!TryAgain, N!KeepAccounts, N!Go,
         AccountsWhole, Present
<1>9. ASSUME NEW r \in Registrars, NEW n \in Names,
             N!InsertOrgConflicts(r, n), UNCHANGED overwritten
      PROVE  AccountsWhole'
  BY <1>9
     DEF N!InsertOrgConflicts, N!TryAgain, N!KeepAccounts, N!Go, AccountsWhole,
         Present
<1>10. ASSUME NEW r \in Registrars, NEW x \in Texts,
             N!CommitRegistration(r, x), UNCHANGED overwritten
      PROVE  AccountsWhole'
  <2> DEFINE u == act[r].user
  <2>1. u \in UserIds /\ u \in Owners
    BY <1>10, AtAct DEF N!CommitRegistration, ActFormed, Owners
  <2>2. ActFormed(act[r])
    BY AtAct
  <2>3. /\ rows'[u] \in Row /\ rows'[u].name = act[r].name
        /\ personal'[u] \in N!Org /\ personal'[u].name = act[r].name
        /\ \A v \in UserIds \ {u} : rows'[v] = rows[v] /\ personal'[v] = personal[v]
    BY <1>10, <2>1, <2>2
       DEF N!CommitRegistration, ContactsTypeOK, N!NamesTypeOK, Owners,
       Row, N!Org, ActFormed
  <2> HIDE DEF u
  <2> QED
    BY <1>10, <2>1, <2>3, RowShape DEF AccountsWhole, Present, Owners
<1>11. ASSUME NEW n \in Names,
             N!CreateGroup(n), UNCHANGED overwritten
      PROVE  AccountsWhole'
  BY <1>11 DEF N!CreateGroup, N!Go, AccountsWhole, Present
<1>12. ASSUME NEW q \in Requests, NEW u \in UserIds,
             DeleteUser(q, u), N!UserDeleted(u)
      PROVE  AccountsWhole'
  <2>1. /\ rows'[u] = NoRow /\ personal'[u] = NoOrg
        /\ overwritten' = overwritten
        /\ \A v \in UserIds \ {u} : rows'[v] = rows[v] /\ personal'[v] = personal[v]
    BY <1>12
       DEF DeleteUser, N!UserDeleted, Owners, ContactsTypeOK, N!NamesTypeOK
  <2> QED
    BY <2>1 DEF AccountsWhole, Present, Owners
<1>e. Apart \/ NameNext \/ AccountEnds
  BY Steps, ContactsApart DEF TagNext
<1> QED
  BY ONLY <1>1, <1>2, <1>3, <1>4, <1>5, <1>6, <1>7, <1>8, <1>9, <1>10, <1>11,
          <1>12, <1>e
          DEF NameNext, AccountEnds

(* An assignment, by its fields. *)
WellAssigned(x) ==
    /\ x.at \in {"existing", "create", "reread", "items", "commit",
                 "assigned", "refused", "failed"}
    /\ x.contact \in ContactIds /\ x.names \in T!NameLists
    /\ x.todo \in SUBSET (1..MaxTags) /\ x.made \in SUBSET (TagIds \X T!Name)
    /\ x.chosen \in SUBSET TagIds /\ x.had \in SUBSET TagIds
    /\ x.disturbed \in BOOLEAN
    /\ x # T!NoAssignment /\ x.at # "idle" /\ x \in T!Assigning

(* The records of assignments, which differ from none.                     *)
LEMMA AssignmentShape ==
  ASSUME NEW x \in T!Assigning
  PROVE  WellAssigned(x)
<1>1. x.at # "idle"
  BY DEF T!Assigning
<1>2. T!NoAssignment.at = "idle"
  BY DEF T!NoAssignment
<1>3. x # T!NoAssignment
  BY <1>1, <1>2
<1> QED
  BY <1>1, <1>3 DEF T!Assigning, WellAssigned

(* Every assignment is none or well formed.                                *)
LEMMA AtAssignment ==
  ASSUME T!TagsTypeOK, NEW q \in Assigners
  PROVE  /\ \/ asg[q] = T!NoAssignment /\ asg[q].at = "idle"
            \/ asg[q] # T!NoAssignment /\ WellAssigned(asg[q])
<1>1. asg[q] = T!NoAssignment \/ asg[q] \in T!Assigning
  BY DEF T!TagsTypeOK
<1>2. T!NoAssignment.at = "idle"
  BY DEF T!NoAssignment
<1> QED
  BY <1>1, <1>2, AssignmentShape DEF WellAssigned

(* The names asked for: at most MaxTags, with different slugs.             *)
LEMMA NamesAsked ==
  ASSUME NEW s \in T!NameLists
  PROVE  /\ DOMAIN s \subseteq 1..MaxTags
         /\ DOMAIN s \in SUBSET Nat
         /\ \A i \in DOMAIN s : s[i] \in T!Name /\ s[i].slug \in TagSlugs
         /\ \A i, j \in DOMAIN s : s[i].slug = s[j].slug => i = j
         /\ T!Range(s) \subseteq T!Name
         /\ \A i \in DOMAIN s : s[i] \in T!Range(s)
         /\ \A n \in T!Range(s) : \E i \in DOMAIN s : s[i] = n
<1>1. PICK n \in 1..MaxTags : s \in [1..n -> T!Name]
  BY DEF T!NameLists
<1>2. 1..n \subseteq 1..MaxTags /\ 1..n \in SUBSET Nat
  BY <1>1, RecordsAssumption
<1>3. \A i, j \in DOMAIN s : s[i].slug = s[j].slug => i = j
  BY DEF T!NameLists
<1> QED
  BY <1>1, <1>2, <1>3 DEF T!Range, T!Name

(* A name of a tag is not the absence of a tag.                            *)
LEMMA TagShape ==
  /\ \A n \in T!Name : n.slug \in TagSlugs /\ n.variant \in Variants /\ n # NoTag
BY RecordsAssumption DEF T!Name

(* An assignment that moves on leaves the others alone.                    *)
LEMMA AssignmentMoves ==
  ASSUME T!TagsTypeOK, NEW q \in Assigners, NEW x, T!Go(q, x)
  PROVE  asg'[q] = x /\ \A p \in Assigners \ {q} : asg'[p] = asg[p]
BY DEF T!Go, T!TagsTypeOK

(* A disturbance marks all assignments, and changes nothing else of them.  *)
LEMMA AssignmentDisturbed ==
  ASSUME T!TagsTypeOK, T!Disturb
  PROVE  /\ asg' \in [Assigners -> {T!NoAssignment} \cup T!Assigning]
         /\ \A q \in Assigners :
              \/ asg[q] = T!NoAssignment /\ asg'[q] = T!NoAssignment
              \/ /\ asg[q] # T!NoAssignment /\ asg'[q] # T!NoAssignment
                 /\ asg'[q].disturbed /\ asg'[q].at = asg[q].at
                 /\ asg'[q].contact = asg[q].contact
                 /\ asg'[q].names = asg[q].names /\ asg'[q].todo = asg[q].todo
                 /\ asg'[q].made = asg[q].made /\ asg'[q].had = asg[q].had
                 /\ asg'[q].chosen = asg[q].chosen
<1>1. ASSUME NEW x \in T!Assigning
      PROVE  LET y == [x EXCEPT !.disturbed = TRUE] IN
             /\ y \in T!Assigning /\ y.disturbed /\ y.at = x.at
             /\ y.contact = x.contact /\ y.names = x.names /\ y.todo = x.todo
             /\ y.made = x.made /\ y.had = x.had /\ y.chosen = x.chosen
  BY DEF T!Assigning
<1>2. ASSUME NEW q \in Assigners
      PROVE  \/ asg[q] = T!NoAssignment /\ asg'[q] = T!NoAssignment
             \/ /\ asg[q] \in T!Assigning /\ asg[q] # T!NoAssignment
                /\ asg'[q] = [asg[q] EXCEPT !.disturbed = TRUE]
  BY DEF T!Disturb, T!TagsTypeOK
<1>3. asg' = [q \in Assigners |-> asg'[q]]
  BY DEF T!Disturb
<1>4. \A q \in Assigners : asg'[q] \in {T!NoAssignment} \cup T!Assigning
  BY <1>1, <1>2
<1>5. asg' \in [Assigners -> {T!NoAssignment} \cup T!Assigning]
  BY <1>3, <1>4
<1>6. \A x \in T!Assigning : x # T!NoAssignment
  BY AssignmentShape DEF WellAssigned
<1>7. ASSUME NEW q \in Assigners
      PROVE  \/ asg[q] = T!NoAssignment /\ asg'[q] = T!NoAssignment
             \/ /\ asg[q] # T!NoAssignment /\ asg'[q] # T!NoAssignment
                /\ asg'[q].disturbed /\ asg'[q].at = asg[q].at
                /\ asg'[q].contact = asg[q].contact
                /\ asg'[q].names = asg[q].names /\ asg'[q].todo = asg[q].todo
                /\ asg'[q].made = asg[q].made /\ asg'[q].had = asg[q].had
                /\ asg'[q].chosen = asg[q].chosen
  <2>1. CASE asg[q] = T!NoAssignment
    BY <1>2, <2>1
  <2>2. CASE asg[q] \in T!Assigning
    <3>1. /\ asg'[q] = [asg[q] EXCEPT !.disturbed = TRUE]
          /\ asg[q] # T!NoAssignment
      BY <1>2, <1>6, <2>2
    <3>2. asg'[q] \in T!Assigning
      BY <1>1, <2>2, <3>1
    <3> QED
      BY <1>1, <1>6, <2>2, <3>1, <3>2
  <2> QED
    BY <2>1, <2>2 DEF T!TagsTypeOK
<1> QED
  BY <1>5, <1>7

(* The next tag is new, and not there.                                     *)
LEMMA TagLeft ==
  ASSUME T!TagsTypeOK, drawnTags # TagIds
  PROVE  T!NextTag \in TagIds /\ T!NextTag \notin drawnTags
         /\ tags[T!NextTag] = NoTag
<1>1. \E t \in TagIds : t \notin drawnTags
  BY DEF T!TagsTypeOK
<1>2. T!NextTag \in TagIds \ drawnTags
  BY <1>1 DEF T!NextTag
<1> QED
  BY <1>2 DEF T!TagsTypeOK, T!Rows

(* The next name of an assignment. *)
First(q) == CHOOSE j \in asg[q].todo : \A k \in asg[q].todo : j <= k

(* The next name is one that was asked for.                                *)
LEMMA FirstIs ==
  ASSUME T!TagsTypeOK, TodoOfNames, NEW q \in Assigners, asg[q].at = "create",
         asg[q].todo # {}
  PROVE  /\ First(q) \in asg[q].todo /\ First(q) \in DOMAIN asg[q].names
         /\ asg[q].names[First(q)] \in T!Name
<1>1. WellAssigned(asg[q])
  BY AtAssignment
<1>2. asg[q].todo \subseteq DOMAIN asg[q].names
  BY <1>1 DEF TodoOfNames, WellAssigned
<1>3. /\ DOMAIN asg[q].names \in SUBSET Nat
      /\ \A i \in DOMAIN asg[q].names : asg[q].names[i] \in T!Name
  BY <1>1, NamesAsked DEF WellAssigned
<1>4. asg[q].todo \in SUBSET Nat
  BY <1>2, <1>3
<1>5. \E j \in asg[q].todo : \A k \in asg[q].todo : j <= k
  BY <1>4, NatLeast
<1>6. First(q) \in asg[q].todo
  BY <1>5 DEF First
<1> QED
  BY <1>2, <1>3, <1>6

(* What the assignment of a step has made is written by its commit. *)
LEMMA MadeIsChosen ==
  ASSUME MadeWell, NEW q \in Assigners, asg[q] # T!NoAssignment,
         NEW m \in asg[q].made
  PROVE  (CHOOSE l \in asg[q].made : l[1] = m[1]) = m
<1>1. \A l \in asg[q].made : l[1] = m[1] => l = m
  BY DEF MadeWell
<1> QED
  BY <1>1

(* What a step is for tags: nothing, with contacts staying; the end of a  *)
(* contact; or a step of the tags, with contacts as they are.             *)
TagEffect ==
    \/ UNCHANGED tagVars /\ PresentContacts \subseteq PresentContacts'
    \/ \E c \in ContactIds : /\ T!ContactDeleted(c)
                             /\ PresentContacts \ {c} \subseteq PresentContacts'
    \/ TagNext /\ PresentContacts' = PresentContacts

(* Only the deletion of a contact takes a contact away.                    *)
LEMMA ContactsStay ==
  ASSUME ContactsTypeOK, PutsOne, NameInv,
         ContactNext \/ NameNext \/ AccountEnds
  PROVE  PresentContacts \subseteq PresentContacts'
<1>1. ASSUME NEW q \in Requests, NEW x \in Texts,
             BeginCreate(q, x)
      PROVE  PresentContacts \subseteq PresentContacts'
  BY <1>1
     DEF BeginCreate, Active, Go, KeepRows, KeepBucket, PresentContacts,
         Present
<1>2. ASSUME NEW q \in Requests, NEW c \in Owners,
             NEW at \in {"save", "put", "clear_avatar", "delete"},
             NEW x \in Texts \cup {Unset},
             Begin(q, c, at, x), at = "delete" => c \in ContactIds
      PROVE  PresentContacts \subseteq PresentContacts'
  BY <1>2 DEF Begin, Active, Go, KeepRows, KeepBucket, PresentContacts, Present
<1>3. ASSUME NEW q \in Requests,
             Insert(q)
      PROVE  PresentContacts \subseteq PresentContacts'
  <2> HIDE DEF Fresh
  <2>1. \A d \in Owners : rows'[d] # rows[d] =>
           rows'[d] = [name |-> req[q].name,
             text |-> req[q].text, avatar |-> NoAvatar]
    BY <1>3 DEF Insert, ContactsTypeOK
  <2>2. [name |-> req[q].name, text |-> req[q].text, avatar |-> NoAvatar] \in Row
    BY <1>3, AtRequest DEF Insert, WellFormed, Row
  <2> QED
    BY <2>1, <2>2, NoRowAssumption DEF PresentContacts, Present
<1>4. ASSUME NEW q \in Requests, NEW n \in Names,
             InsertConflicts(q, n)
      PROVE  PresentContacts \subseteq PresentContacts'
  BY <1>4
     DEF InsertConflicts, Go, KeepRows, KeepBucket, PresentContacts, Present
<1>5. ASSUME NEW q \in Requests,
             PutAvatar(q)
      PROVE  PresentContacts \subseteq PresentContacts'
  BY <1>5 DEF PutAvatar, Go, KeepRows, KeepBucket, PresentContacts, Present
<1>6. ASSUME NEW q \in Requests, NEW landed \in BOOLEAN,
             PutFails(q, landed)
      PROVE  PresentContacts \subseteq PresentContacts'
  BY <1>6 DEF PutFails, Go, KeepRows, KeepBucket, PresentContacts, Present
<1>7. ASSUME NEW q \in Requests,
             SaveAvatar(q)
      PROVE  PresentContacts \subseteq PresentContacts'
  <2> DEFINE c == req[q].contact
  <2>0. WellFormed(req[q])
    BY AtRequest
  <2>1. /\ c \in Owners /\ rows[c] \in Row
        /\ req[q].new \in Avatars \cup {NoAvatar}
    BY <1>7, <2>0
       DEF SaveAvatar, SetAvatar, Lose, Current, CleanUp, Go, KeepRows,
           KeepBucket, WellFormed, Present, ContactsTypeOK
  <2>2. /\ rows'[c] \in Row
        /\ \A d \in Owners \ {c} : rows'[d] = rows[d]
    BY <1>7, <2>1, WithAvatar
       DEF SaveAvatar, SetAvatar, Lose, Current, CleanUp, Go, KeepRows,
           KeepBucket, ContactsTypeOK
  <2> QED
    BY <2>1, <2>2, NoRowAssumption DEF PresentContacts, Present
<1>8. ASSUME NEW q \in Requests,
             SaveAvatarReplyLost(q)
      PROVE  PresentContacts \subseteq PresentContacts'
  <2> DEFINE c == req[q].contact
  <2>0. WellFormed(req[q])
    BY AtRequest
  <2>1. /\ c \in Owners /\ rows[c] \in Row
        /\ req[q].new \in Avatars \cup {NoAvatar}
    BY <1>8, <2>0
       DEF SaveAvatarReplyLost, Go, KeepRows, KeepBucket, WellFormed, Present,
           ContactsTypeOK
  <2>2. /\ rows'[c] \in Row
        /\ \A d \in Owners \ {c} : rows'[d] = rows[d]
    BY <1>8, <2>1, WithAvatar
       DEF SaveAvatarReplyLost, Go, KeepRows, KeepBucket, ContactsTypeOK
  <2> QED
    BY <2>1, <2>2, NoRowAssumption DEF PresentContacts, Present
<1>9. ASSUME NEW q \in Requests,
             ClearAvatar(q)
      PROVE  PresentContacts \subseteq PresentContacts'
  <2> DEFINE c == req[q].contact
  <2>0. WellFormed(req[q])
    BY AtRequest
  <2>1. c \in Owners /\ rows[c] \in Row /\ NoAvatar \in Avatars \cup {NoAvatar}
    BY <1>9, <2>0
       DEF ClearAvatar, SetAvatar, Lose, Current, CleanUp, Go, KeepRows,
           KeepBucket, WellFormed, Present, ContactsTypeOK
  <2>2. /\ rows'[c] \in Row
        /\ \A d \in Owners \ {c} : rows'[d] = rows[d]
    BY <1>9, <2>1, WithAvatar
       DEF ClearAvatar, SetAvatar, Lose, Current, CleanUp, Go, KeepRows,
           KeepBucket, ContactsTypeOK
  <2> QED
    BY <2>1, <2>2, NoRowAssumption DEF PresentContacts, Present
<1>10. ASSUME NEW q \in Requests, NEW fails \in BOOLEAN,
             SaveAvatarFails(q, fails)
      PROVE  PresentContacts \subseteq PresentContacts'
  BY <1>10
     DEF SaveAvatarFails, Go, KeepRows, KeepBucket, PresentContacts, Present
<1>11. ASSUME NEW q \in Requests, NEW fails \in BOOLEAN,
             DeleteFiles(q, fails)
      PROVE  PresentContacts \subseteq PresentContacts'
  BY <1>11 DEF DeleteFiles, Go, KeepRows, KeepBucket, PresentContacts, Present
<1>12. ASSUME NEW q \in Requests,
             Unheld(q), Save(q)
      PROVE  PresentContacts \subseteq PresentContacts'
  <2> DEFINE c == req[q].contact
  <2>1. CASE KeepRows
    BY <1>12, <2>1 DEF KeepRows, PresentContacts, Present
  <2>2. CASE rows' = [rows EXCEPT ![c] = Saved(q)]
    <3>1. Saved(q) # NoRow
      BY <1>12, SavedRow, NoRowAssumption DEF Save
    <3> QED
      BY <2>2, <3>1 DEF PresentContacts, Present, ContactsTypeOK
  <2> QED
    BY <1>12, <2>1, <2>2 DEF Save
<1>13. ASSUME NEW q \in Requests,
             Fail(q)
      PROVE  PresentContacts \subseteq PresentContacts'
  BY <1>13 DEF Fail, Active, Go, KeepRows, KeepBucket, PresentContacts, Present
<1>14. ASSUME NEW r \in Registrars,
             N!Register(r)
      PROVE  PresentContacts \subseteq PresentContacts'
  BY <1>14 DEF N!Register, N!KeepAccounts, N!Go, PresentContacts, Present
<1>15. ASSUME NEW r \in Registrars,
             N!InsertUser(r)
      PROVE  PresentContacts \subseteq PresentContacts'
  BY <1>15 DEF N!InsertUser, N!Go, PresentContacts, Present
<1>16. ASSUME NEW r \in Registrars,
             N!InsertOrg(r)
      PROVE  PresentContacts \subseteq PresentContacts'
  BY <1>16 DEF N!InsertOrg, N!KeepAccounts, N!Go, PresentContacts, Present
<1>17. ASSUME NEW r \in Registrars,
             N!Rename(r)
      PROVE  PresentContacts \subseteq PresentContacts'
  <2>1. act[r].user \in UserIds
    BY <1>17, AtAct DEF N!Rename, ActFormed, NameInv
  <2> QED
    BY <1>17, <2>1, ContactsAssumption DEF N!Rename, PresentContacts, Present,
       ContactsTypeOK, Owners
<1>18. ASSUME NEW r \in Registrars,
             N!Abort(r)
      PROVE  PresentContacts \subseteq PresentContacts'
  BY <1>18 DEF N!Abort, N!KeepAccounts, N!Go, PresentContacts, Present
<1>19. ASSUME NEW r \in Registrars, NEW u \in UserIds, NEW n \in Names,
             N!CheckName(r, u, n)
      PROVE  PresentContacts \subseteq PresentContacts'
  BY <1>19 DEF N!CheckName, N!KeepAccounts, N!Go, PresentContacts, Present
<1>20. ASSUME NEW r \in Registrars, NEW n \in Names,
             N!InsertUserConflicts(r, n)
      PROVE  PresentContacts \subseteq PresentContacts'
  BY <1>20
     DEF N!InsertUserConflicts, N!TryAgain, N!KeepAccounts, N!Go,
         PresentContacts, Present
<1>21. ASSUME NEW r \in Registrars, NEW n \in Names,
             N!InsertOrgConflicts(r, n)
      PROVE  PresentContacts \subseteq PresentContacts'
  BY <1>21
     DEF N!InsertOrgConflicts, N!TryAgain, N!KeepAccounts, N!Go,
         PresentContacts, Present
<1>22. ASSUME NEW r \in Registrars, NEW x \in Texts,
             N!CommitRegistration(r, x)
      PROVE  PresentContacts \subseteq PresentContacts'
  <2>1. act[r].user \in UserIds
    BY <1>22, AtAct DEF N!CommitRegistration, ActFormed, NameInv
  <2> QED
    BY <1>22, <2>1, ContactsAssumption
       DEF N!CommitRegistration, PresentContacts, Present,
       ContactsTypeOK, Owners
<1>23. ASSUME NEW n \in Names,
             N!CreateGroup(n)
      PROVE  PresentContacts \subseteq PresentContacts'
  BY <1>23 DEF N!CreateGroup, N!Go, PresentContacts, Present
<1>24. ASSUME NEW q \in Requests, NEW u \in UserIds,
             DeleteUser(q, u)
      PROVE  PresentContacts \subseteq PresentContacts'
  BY <1>24, ContactsAssumption
     DEF DeleteUser, PresentContacts, Present, ContactsTypeOK, Owners
<1> QED
  BY ONLY <1>1, <1>2, <1>3, <1>4, <1>5, <1>6, <1>7, <1>8, <1>9, <1>10, <1>11,
          <1>12, <1>13, <1>14, <1>15, <1>16, <1>17, <1>18, <1>19, <1>20, <1>21,
          <1>22, <1>23, <1>24,
     ContactNext \/ NameNext \/ AccountEnds DEF ContactNext, NameNext, AccountEnds

(* Every step is one of the three for tags.                                *)
LEMMA TagEffects ==
  ASSUME ContactsTypeOK, PutsOne, DeletesContacts, NameInv, Next
  PROVE  TagEffect
<1>1. CASE ContactNext \/ NameNext \/ AccountEnds
  <2>1. UNCHANGED tagVars
    BY <1>1 DEF ContactNext, NameNext, AccountEnds
  <2> QED
    BY <1>1, <2>1, ContactsStay DEF TagEffect
<1>2. CASE ContactEnds
  <2>1. PICK q \in Requests : Delete(q) /\ T!ContactDeleted(req[q].contact)
    BY <1>2 DEF ContactEnds
  <2>2. req[q].contact \in ContactIds
    BY <2>1 DEF Delete, DeletesContacts
  <2>3. PresentContacts \ {req[q].contact} \subseteq PresentContacts'
    BY <2>1 DEF Delete, PresentContacts, Present, ContactsTypeOK
  <2> QED
    BY <2>1, <2>2, <2>3 DEF TagEffect
<1>3. CASE TagNext
  BY <1>3 DEF TagNext, TagEffect, contactVars, PresentContacts, Present
<1> QED
  BY <1>1, <1>2, <1>3, Steps

(* An assignment that moves on, with what it keeps. *)
LEMMA MovesTo ==
  ASSUME T!TagsTypeOK, NEW q \in Assigners, asg[q] # T!NoAssignment,
         NEW at \in {"existing", "create", "reread", "items", "commit",
                     "assigned", "refused", "failed"}, T!Move(q, at)
  PROVE  /\ asg'[q] \in T!Assigning /\ asg'[q] # T!NoAssignment /\ asg'[q].at = at
         /\ asg'[q].contact = asg[q].contact /\ asg'[q].names = asg[q].names
         /\ asg'[q].todo = asg[q].todo /\ asg'[q].made = asg[q].made
         /\ asg'[q].chosen = asg[q].chosen /\ asg'[q].had = asg[q].had
         /\ asg'[q].disturbed = asg[q].disturbed
         /\ \A p \in Assigners \ {q} : asg'[p] = asg[p]
         /\ asg' \in [Assigners -> {T!NoAssignment} \cup T!Assigning]
<1> DEFINE y == [asg[q] EXCEPT !.at = at]
<1>1. asg[q] \in T!Assigning
  BY DEF T!TagsTypeOK
<1>2. /\ y \in T!Assigning /\ y.at = at /\ y.contact = asg[q].contact
      /\ y.names = asg[q].names /\ y.todo = asg[q].todo /\ y.made = asg[q].made
      /\ y.chosen = asg[q].chosen /\ y.had = asg[q].had
      /\ y.disturbed = asg[q].disturbed
  BY <1>1 DEF T!Assigning
<1> HIDE DEF y
<1>3. T!Go(q, y)
  BY DEF T!Move, y
<1>4. asg'[q] = y /\ \A p \in Assigners \ {q} : asg'[p] = asg[p]
  BY <1>3, AssignmentMoves
<1>5. asg' \in [Assigners -> {T!NoAssignment} \cup T!Assigning]
  BY <1>2, <1>3 DEF T!Go, T!TagsTypeOK
<1>6. y # T!NoAssignment
  BY <1>2, AssignmentShape DEF WellAssigned
<1> QED
  BY <1>2, <1>4, <1>5, <1>6

(* The tags and items a commit writes. *)
Writes(q) ==
    LET c == asg[q].contact
        own == {m[1] : m \in asg[q].made}
        new == (asg[q].chosen \ asg[q].had) \X {c}
    IN
    /\ tags' = [t \in TagIds |->
                  IF t \in own THEN (CHOOSE m \in asg[q].made : m[1] = t)[2]
                  ELSE tags[t]]
    /\ items' = items \cup new
    /\ late' = IF c \in PresentContacts THEN late ELSE late \cup new

(* A commit inserts the tags that were made, and changes no other.         *)
LEMMA WritesMade ==
  ASSUME T!TagsTypeOK, MadeWell, NEW q \in Assigners, asg[q] # T!NoAssignment,
         Writes(q)
  PROVE  /\ \A m \in asg[q].made : tags'[m[1]] = m[2]
         /\ \A t \in TagIds \ {m[1] : m \in asg[q].made} : tags'[t] = tags[t]
         /\ tags' \in [TagIds -> T!Name \cup {NoTag}]
<1>0. WellAssigned(asg[q])
  BY AtAssignment
<1>1. \A m \in asg[q].made : (CHOOSE l \in asg[q].made : l[1] = m[1]) = m
  BY MadeIsChosen
<1>2. \A m \in asg[q].made : m[1] \in TagIds /\ m[2] \in T!Name
  BY <1>0 DEF WellAssigned
<1>3. ASSUME NEW m \in asg[q].made
      PROVE  tags'[m[1]] = m[2]
  BY <1>1, <1>2 DEF Writes
<1>4. ASSUME NEW t \in TagIds
      PROVE  /\ t \notin {m[1] : m \in asg[q].made} => tags'[t] = tags[t]
             /\ tags'[t] \in T!Name \cup {NoTag}
  <2>1. CASE t \in {m[1] : m \in asg[q].made}
    BY <1>2, <1>3, <2>1
  <2>2. CASE t \notin {m[1] : m \in asg[q].made}
    BY <2>2 DEF Writes, T!TagsTypeOK
  <2> QED
    BY <2>1, <2>2
<1>5. tags' = [t \in TagIds |-> tags'[t]]
  BY DEF Writes
<1> QED
  BY <1>3, <1>4, <1>5

(* The tags an assignment has made have different slugs.                   *)
LEMMA SlugsMade ==
  ASSUME T!TagsTypeOK, MadeWell, NEW q \in Assigners, asg[q] # T!NoAssignment
  PROVE  \A m, l \in asg[q].made : m[2].slug = l[2].slug => l = m
<1>1. asg[q].names \in T!NameLists
  BY AtAssignment DEF WellAssigned
<1>2. \A i, j \in DOMAIN asg[q].names :
        asg[q].names[i].slug = asg[q].names[j].slug => i = j
  BY <1>1, NamesAsked
<1>3. ASSUME NEW m \in asg[q].made, NEW l \in asg[q].made,
             m[2].slug = l[2].slug
      PROVE  l = m
  <2>1. m[2] = l[2]
    BY <1>2, <1>3 DEF MadeWell
  <2> QED
    BY <2>1 DEF MadeWell
<1> QED
  BY <1>3

(* The types of tags, items and assignments.                               *)
LEMMA TagsTypeStep ==
  ASSUME T!TagsTypeOK, MadeWell, TodoOfNames, TagEffect
  PROVE  T!TagsTypeOK'
<1>1. CASE UNCHANGED tagVars /\ PresentContacts \subseteq PresentContacts'
  BY <1>1 DEF tagVars, T!TagsTypeOK, T!Rows
<1>2. ASSUME NEW c \in ContactIds, T!ContactDeleted(c),
             PresentContacts \ {c} \subseteq PresentContacts'
      PROVE  T!TagsTypeOK'
  <2>1. asg' \in [Assigners -> {T!NoAssignment} \cup T!Assigning]
    BY <1>2, AssignmentDisturbed DEF T!ContactDeleted
  <2>2. /\ tags' \in [TagIds -> T!Name \cup {NoTag}]
        /\ drawnTags' \subseteq TagIds /\ T!Rows(TagIds)' \subseteq drawnTags'
        /\ items' \subseteq TagIds \X ContactIds /\ late' \subseteq items'
        /\ \A x \in items' : tags'[x[1]] # NoTag
        /\ \A v, w \in T!Rows(TagIds)' : tags'[v].slug = tags'[w].slug => v = w
    BY <1>2
       DEF T!ContactDeleted, T!Cascade, T!Without, T!KeepTags, T!TagsTypeOK,
           T!Rows
  <2> QED
    BY <2>1, <2>2 DEF T!TagsTypeOK
<1>3. ASSUME NEW n \in T!Name, T!CreateTag(n),
             PresentContacts' = PresentContacts
      PROVE  T!TagsTypeOK'
  <2>1. asg' \in [Assigners -> {T!NoAssignment} \cup T!Assigning]
    BY <1>3 DEF T!CreateTag, T!TagsTypeOK
  <2>2. /\ tags' \in [TagIds -> T!Name \cup {NoTag}]
        /\ drawnTags' \subseteq TagIds /\ T!Rows(TagIds)' \subseteq drawnTags'
        /\ items' \subseteq TagIds \X ContactIds /\ late' \subseteq items'
        /\ \A x \in items' : tags'[x[1]] # NoTag
        /\ \A v, w \in T!Rows(TagIds)' : tags'[v].slug = tags'[w].slug => v = w
    <3> DEFINE t == T!NextTag
    <3>1. t \in TagIds /\ t \notin drawnTags /\ tags[t] = NoTag /\ n # NoTag
      BY <1>3, TagLeft, TagShape DEF T!CreateTag
    <3>2. \A u \in TagIds : tags[u] # NoTag => tags[u].slug # n.slug
      BY <1>3 DEF T!CreateTag, T!SlugTaken, T!Rows
    <3>3. /\ tags' = [tags EXCEPT ![t] = n] /\ drawnTags' = drawnTags \cup {t}
          /\ items' = items /\ late' = late
      BY <1>3 DEF T!CreateTag, T!KeepItems
    <3> HIDE DEF t
    <3> QED
      BY <3>1, <3>2, <3>3 DEF T!TagsTypeOK, T!Rows
  <2> QED
    BY <2>1, <2>2 DEF T!TagsTypeOK
<1>4. ASSUME NEW t \in TagIds, T!DeleteTag(t),
             PresentContacts' = PresentContacts
      PROVE  T!TagsTypeOK'
  <2>1. asg' \in [Assigners -> {T!NoAssignment} \cup T!Assigning]
    BY <1>4, AssignmentDisturbed DEF T!DeleteTag
  <2>2. /\ tags' \in [TagIds -> T!Name \cup {NoTag}]
        /\ drawnTags' \subseteq TagIds /\ T!Rows(TagIds)' \subseteq drawnTags'
        /\ items' \subseteq TagIds \X ContactIds /\ late' \subseteq items'
        /\ \A x \in items' : tags'[x[1]] # NoTag
        /\ \A v, w \in T!Rows(TagIds)' : tags'[v].slug = tags'[w].slug => v = w
    BY <1>4 DEF T!DeleteTag, T!TakeItems, T!Without, T!TagsTypeOK, T!Rows
  <2> QED
    BY <2>1, <2>2 DEF T!TagsTypeOK
<1>5. ASSUME NEW t \in TagIds, NEW n \in T!Name, T!RenameTag(t, n),
             PresentContacts' = PresentContacts
      PROVE  T!TagsTypeOK'
  <2>1. asg' \in [Assigners -> {T!NoAssignment} \cup T!Assigning]
    BY <1>5, AssignmentDisturbed DEF T!RenameTag
  <2>2. /\ tags' \in [TagIds -> T!Name \cup {NoTag}]
        /\ drawnTags' \subseteq TagIds /\ T!Rows(TagIds)' \subseteq drawnTags'
        /\ items' \subseteq TagIds \X ContactIds /\ late' \subseteq items'
        /\ \A x \in items' : tags'[x[1]] # NoTag
        /\ \A v, w \in T!Rows(TagIds)' : tags'[v].slug = tags'[w].slug => v = w
    BY <1>5, TagShape
       DEF T!RenameTag, T!KeepItems, T!SlugTaken, T!TagsTypeOK, T!Rows
  <2> QED
    BY <2>1, <2>2 DEF T!TagsTypeOK
<1>6. ASSUME NEW c \in ContactIds, NEW S \in SUBSET T!Rows(TagIds),
             T!Unassign(c, S),
             PresentContacts' = PresentContacts
      PROVE  T!TagsTypeOK'
  <2>1. asg' \in [Assigners -> {T!NoAssignment} \cup T!Assigning]
    BY <1>6, AssignmentDisturbed DEF T!Unassign
  <2>2. /\ tags' \in [TagIds -> T!Name \cup {NoTag}]
        /\ drawnTags' \subseteq TagIds /\ T!Rows(TagIds)' \subseteq drawnTags'
        /\ items' \subseteq TagIds \X ContactIds /\ late' \subseteq items'
        /\ \A x \in items' : tags'[x[1]] # NoTag
        /\ \A v, w \in T!Rows(TagIds)' : tags'[v].slug = tags'[w].slug => v = w
    BY <1>6 DEF T!Unassign, T!Without, T!KeepTags, T!TagsTypeOK, T!Rows
  <2> QED
    BY <2>1, <2>2 DEF T!TagsTypeOK
<1>7. ASSUME NEW q \in Assigners, NEW c \in ContactIds, NEW s \in T!NameLists,
             T!Assign(q, c, s),
             PresentContacts' = PresentContacts
      PROVE  T!TagsTypeOK'
  <2>1. asg' \in [Assigners -> {T!NoAssignment} \cup T!Assigning]
    <3>1. {} \in SUBSET (1..MaxTags)
      OBVIOUS
    <3> QED
      BY <1>7, <3>1 DEF T!Assign, T!Go, T!TagsTypeOK, T!Assigning
  <2>2. /\ tags' \in [TagIds -> T!Name \cup {NoTag}]
        /\ drawnTags' \subseteq TagIds /\ T!Rows(TagIds)' \subseteq drawnTags'
        /\ items' \subseteq TagIds \X ContactIds /\ late' \subseteq items'
        /\ \A x \in items' : tags'[x[1]] # NoTag
        /\ \A v, w \in T!Rows(TagIds)' : tags'[v].slug = tags'[w].slug => v = w
    BY <1>7 DEF T!Assign, T!KeepTags, T!KeepItems, T!TagsTypeOK, T!Rows
  <2> QED
    BY <2>1, <2>2 DEF T!TagsTypeOK
<1>8. ASSUME NEW q \in Assigners, T!ReadExisting(q),
             PresentContacts' = PresentContacts
      PROVE  T!TagsTypeOK'
  <2>1. asg' \in [Assigners -> {T!NoAssignment} \cup T!Assigning]
    <3>0. /\ asg[q] \in T!Assigning /\ asg[q] # T!NoAssignment
          /\ WellAssigned(asg[q])
      BY <1>8, AtAssignment DEF T!ReadExisting, T!TagsTypeOK, WellAssigned
    <3> DEFINE S == {i \in DOMAIN asg[q].names : ~T!SlugTaken(asg[q].names[i].slug)}
    <3>1. CASE T!Move(q, "refused")
      BY <3>0, <3>1, MovesTo
    <3>2. CASE T!Go(q, [asg[q] EXCEPT !.at = "create", !.todo = S])
      <4>1. S \in SUBSET (1..MaxTags)
        BY <3>0, NamesAsked DEF WellAssigned
      <4> HIDE DEF S
      <4>2. [asg[q] EXCEPT !.at = "create", !.todo = S] \in T!Assigning
        BY <3>0, <4>1 DEF T!Assigning
      <4> QED
        BY <3>2, <4>2 DEF T!Go, T!TagsTypeOK
    <3> QED
      BY <1>8, <3>1, <3>2 DEF T!ReadExisting
  <2>2. /\ tags' \in [TagIds -> T!Name \cup {NoTag}]
        /\ drawnTags' \subseteq TagIds /\ T!Rows(TagIds)' \subseteq drawnTags'
        /\ items' \subseteq TagIds \X ContactIds /\ late' \subseteq items'
        /\ \A x \in items' : tags'[x[1]] # NoTag
        /\ \A v, w \in T!Rows(TagIds)' : tags'[v].slug = tags'[w].slug => v = w
    BY <1>8 DEF T!ReadExisting, T!KeepTags, T!KeepItems, T!TagsTypeOK, T!Rows
  <2> QED
    BY <2>1, <2>2 DEF T!TagsTypeOK
<1>9. ASSUME NEW q \in Assigners, T!InsertTag(q),
             PresentContacts' = PresentContacts
      PROVE  T!TagsTypeOK'
  <2>0. /\ asg[q] \in T!Assigning /\ First(q) \in asg[q].todo
        /\ asg[q].names[First(q)] \in T!Name
    BY <1>9, AtAssignment, FirstIs DEF T!InsertTag, T!TagsTypeOK, WellAssigned
  <2>1. asg' \in [Assigners -> {T!NoAssignment} \cup T!Assigning]
    <3> DEFINE n == asg[q].names[First(q)]
    <3>1. CASE T!Go(q, [asg[q] EXCEPT !.todo = @ \ {First(q)}])
      <4>1. [asg[q] EXCEPT !.todo = @ \ {First(q)}] \in T!Assigning
        BY <2>0 DEF T!Assigning
      <4> QED
        BY <3>1, <4>1 DEF T!Go, T!TagsTypeOK
    <3>2. CASE /\ drawnTags # TagIds
               /\ T!Go(q, [asg[q] EXCEPT !.todo = @ \ {First(q)},
                                         !.made = @ \cup {<<T!NextTag, n>>}])
      <4>1. T!NextTag \in TagIds /\ n \in T!Name
        BY <2>0, <3>2, TagLeft
      <4> HIDE DEF n
      <4> DEFINE A == asg[q].todo \ {First(q)}
                 B == asg[q].made \cup {<<T!NextTag, n>>}
      <4>2. A \in SUBSET (1..MaxTags) /\ B \in SUBSET (TagIds \X T!Name)
        BY <2>0, <4>1, AssignmentShape DEF WellAssigned
      <4>3. T!Go(q, [asg[q] EXCEPT !.todo = A, !.made = B])
        BY <3>2
      <4> HIDE DEF A, B
      <4>4. [asg[q] EXCEPT !.todo = A, !.made = B] \in T!Assigning
        BY <2>0, <4>2 DEF T!Assigning
      <4> QED
        BY <4>3, <4>4 DEF T!Go, T!TagsTypeOK
    <3> QED
      BY <1>9, <3>1, <3>2 DEF T!InsertTag, First
  <2>2. /\ tags' \in [TagIds -> T!Name \cup {NoTag}]
        /\ drawnTags' \subseteq TagIds /\ T!Rows(TagIds)' \subseteq drawnTags'
        /\ items' \subseteq TagIds \X ContactIds /\ late' \subseteq items'
        /\ \A x \in items' : tags'[x[1]] # NoTag
        /\ \A v, w \in T!Rows(TagIds)' : tags'[v].slug = tags'[w].slug => v = w
    <3>1. tags' = tags /\ items' = items /\ late' = late
          /\ \/ drawnTags' = drawnTags
             \/ drawnTags # TagIds /\ drawnTags' = drawnTags \cup {T!NextTag}
      BY <1>9 DEF T!InsertTag, T!KeepItems
    <3> QED
      BY <3>1, TagLeft DEF T!TagsTypeOK, T!Rows
  <2> QED
    BY <2>1, <2>2 DEF T!TagsTypeOK
<1>10. ASSUME NEW q \in Assigners, T!AllInserted(q),
             PresentContacts' = PresentContacts
      PROVE  T!TagsTypeOK'
  <2>1. asg' \in [Assigners -> {T!NoAssignment} \cup T!Assigning]
    BY <1>10, MovesTo, AtAssignment DEF T!AllInserted
  <2>2. /\ tags' \in [TagIds -> T!Name \cup {NoTag}]
        /\ drawnTags' \subseteq TagIds /\ T!Rows(TagIds)' \subseteq drawnTags'
        /\ items' \subseteq TagIds \X ContactIds /\ late' \subseteq items'
        /\ \A x \in items' : tags'[x[1]] # NoTag
        /\ \A v, w \in T!Rows(TagIds)' : tags'[v].slug = tags'[w].slug => v = w
    BY <1>10 DEF T!AllInserted, T!KeepTags, T!KeepItems, T!TagsTypeOK, T!Rows
  <2> QED
    BY <2>1, <2>2 DEF T!TagsTypeOK
<1>11. ASSUME NEW q \in Assigners, T!Reread(q),
             PresentContacts' = PresentContacts
      PROVE  T!TagsTypeOK'
  <2>1. asg' \in [Assigners -> {T!NoAssignment} \cup T!Assigning]
    <3>0. asg[q] \in T!Assigning /\ asg[q] # T!NoAssignment
      BY <1>11, AtAssignment DEF T!Reread, T!TagsTypeOK, WellAssigned
    <3> DEFINE S == {m[1] : m \in T!Matches(q)}
    <3>1. CASE T!Move(q, "refused")
      BY <3>0, <3>1, MovesTo
    <3>2. CASE T!Go(q, [asg[q] EXCEPT !.at = "items", !.chosen = S])
      <4>1. S \in SUBSET TagIds
        BY DEF T!Matches
      <4> HIDE DEF S
      <4>2. [asg[q] EXCEPT !.at = "items", !.chosen = S] \in T!Assigning
        BY <3>0, <4>1 DEF T!Assigning
      <4> QED
        BY <3>2, <4>2 DEF T!Go, T!TagsTypeOK
    <3> QED
      BY <1>11, <3>1, <3>2 DEF T!Reread
  <2>2. /\ tags' \in [TagIds -> T!Name \cup {NoTag}]
        /\ drawnTags' \subseteq TagIds /\ T!Rows(TagIds)' \subseteq drawnTags'
        /\ items' \subseteq TagIds \X ContactIds /\ late' \subseteq items'
        /\ \A x \in items' : tags'[x[1]] # NoTag
        /\ \A v, w \in T!Rows(TagIds)' : tags'[v].slug = tags'[w].slug => v = w
    BY <1>11 DEF T!Reread, T!KeepTags, T!KeepItems, T!TagsTypeOK, T!Rows
  <2> QED
    BY <2>1, <2>2 DEF T!TagsTypeOK
<1>12. ASSUME NEW q \in Assigners, T!ReadItems(q),
             PresentContacts' = PresentContacts
      PROVE  T!TagsTypeOK'
  <2>1. asg' \in [Assigners -> {T!NoAssignment} \cup T!Assigning]
    <3>0. asg[q] \in T!Assigning
      BY <1>12, AtAssignment DEF T!ReadItems, T!TagsTypeOK, WellAssigned
    <3> DEFINE S == {t \in asg[q].chosen : <<t, asg[q].contact>> \in items}
    <3>1. S \in SUBSET TagIds
      BY <3>0 DEF T!Assigning
    <3> HIDE DEF S
    <3>2. [asg[q] EXCEPT !.at = "commit", !.had = S] \in T!Assigning
      BY <3>0, <3>1 DEF T!Assigning
    <3>3. T!Go(q, [asg[q] EXCEPT !.at = "commit", !.had = S])
      BY <1>12 DEF T!ReadItems, S
    <3> QED
      BY <3>2, <3>3 DEF T!Go, T!TagsTypeOK
  <2>2. /\ tags' \in [TagIds -> T!Name \cup {NoTag}]
        /\ drawnTags' \subseteq TagIds /\ T!Rows(TagIds)' \subseteq drawnTags'
        /\ items' \subseteq TagIds \X ContactIds /\ late' \subseteq items'
        /\ \A x \in items' : tags'[x[1]] # NoTag
        /\ \A v, w \in T!Rows(TagIds)' : tags'[v].slug = tags'[w].slug => v = w
    BY <1>12 DEF T!ReadItems, T!KeepTags, T!KeepItems, T!TagsTypeOK, T!Rows
  <2> QED
    BY <2>1, <2>2 DEF T!TagsTypeOK
<1>13. ASSUME NEW q \in Assigners, T!CommitAssignment(q),
             PresentContacts' = PresentContacts
      PROVE  T!TagsTypeOK'
  <2>1. asg' \in [Assigners -> {T!NoAssignment} \cup T!Assigning]
    BY <1>13, MovesTo, AtAssignment DEF T!CommitAssignment
  <2>2. /\ tags' \in [TagIds -> T!Name \cup {NoTag}]
        /\ drawnTags' \subseteq TagIds /\ T!Rows(TagIds)' \subseteq drawnTags'
        /\ items' \subseteq TagIds \X ContactIds /\ late' \subseteq items'
        /\ \A x \in items' : tags'[x[1]] # NoTag
        /\ \A v, w \in T!Rows(TagIds)' : tags'[v].slug = tags'[w].slug => v = w
    <3> DEFINE c == asg[q].contact
               own == {m[1] : m \in asg[q].made}
               new == (asg[q].chosen \ asg[q].had) \X {c}
    <3>0. /\ WellAssigned(asg[q]) /\ asg[q] # T!NoAssignment /\ T!Running(q)
          /\ drawnTags' = drawnTags
      BY <1>13, AtAssignment DEF T!CommitAssignment, T!Running
    <3>1. CASE UNCHANGED tags /\ T!KeepItems
      BY <3>0, <3>1 DEF T!KeepItems, T!TagsTypeOK, T!Rows
    <3>2. CASE /\ \A x \in new : x[1] \in own \/ tags[x[1]] # NoTag
               /\ Writes(q)
      <4>1. /\ \A m \in asg[q].made : tags'[m[1]] = m[2]
            /\ \A t \in TagIds \ own : tags'[t] = tags[t]
            /\ tags' \in [TagIds -> T!Name \cup {NoTag}]
        BY <3>0, <3>2, WritesMade
      <4>2. /\ \A m \in asg[q].made : /\ m[1] \in TagIds /\ m[2] \in T!Name
                                      /\ m[1] \in drawnTags /\ m[2] # NoTag
            /\ \A m \in asg[q].made, t \in TagIds :
                  tags[t] # NoTag => t # m[1] /\ tags[t].slug # m[2].slug
            /\ \A m, l \in asg[q].made : m[2].slug = l[2].slug => l = m
        BY <3>0, TagShape, SlugsMade
           DEF WellAssigned, MadeWell, T!SlugTaken, T!Rows
      <4>3. \A t \in TagIds : tags'[t] # NoTag =>
               \/ tags[t] # NoTag /\ tags'[t] = tags[t]
               \/ \E m \in asg[q].made : m[1] = t /\ tags'[t] = m[2]
        BY <4>1
      <4>4. items' = items \cup new /\ late' \subseteq late \cup new
            /\ late \subseteq late'
        BY <3>2 DEF Writes
      <4>5. new \subseteq TagIds \X ContactIds
        BY <3>0 DEF WellAssigned
      <4>6. \A x \in items' : tags'[x[1]] # NoTag
        <5>1. \A t \in own : tags'[t] # NoTag
          BY <4>1, <4>2
        <5>2. \A t \in TagIds : tags[t] # NoTag => tags'[t] # NoTag
          BY <4>1, <4>2
        <5>3. \A x \in items : x[1] \in TagIds /\ tags[x[1]] # NoTag
          BY DEF T!TagsTypeOK
        <5> HIDE DEF new, own
        <5> QED
          BY <3>2, <4>4, <4>5, <5>1, <5>2, <5>3
      <4>7. T!Rows(TagIds)' \subseteq drawnTags'
        BY <3>0, <4>2, <4>3 DEF T!Rows, T!TagsTypeOK
      <4>8. \A v, w \in T!Rows(TagIds)' : tags'[v].slug = tags'[w].slug =>
               v = w
        BY <4>2, <4>3 DEF T!Rows, T!TagsTypeOK
      <4>9. items' \subseteq TagIds \X ContactIds /\ late' \subseteq items'
        <5> HIDE DEF new
        <5> QED
          BY <3>2, <4>4, <4>5 DEF Writes, T!TagsTypeOK
      <4> QED
        BY <3>0, <4>1, <4>6, <4>7, <4>8, <4>9 DEF T!TagsTypeOK
    <3> QED
      BY <1>13, <3>1, <3>2 DEF T!CommitAssignment, Writes
  <2> QED
    BY <2>1, <2>2 DEF T!TagsTypeOK
<1>14. ASSUME NEW q \in Assigners, T!Answer(q),
             PresentContacts' = PresentContacts
      PROVE  T!TagsTypeOK'
  <2>1. asg' \in [Assigners -> {T!NoAssignment} \cup T!Assigning]
    BY <1>14 DEF T!Answer, T!Go, T!TagsTypeOK
  <2>2. /\ tags' \in [TagIds -> T!Name \cup {NoTag}]
        /\ drawnTags' \subseteq TagIds /\ T!Rows(TagIds)' \subseteq drawnTags'
        /\ items' \subseteq TagIds \X ContactIds /\ late' \subseteq items'
        /\ \A x \in items' : tags'[x[1]] # NoTag
        /\ \A v, w \in T!Rows(TagIds)' : tags'[v].slug = tags'[w].slug => v = w
    BY <1>14 DEF T!Answer, T!KeepTags, T!KeepItems, T!TagsTypeOK, T!Rows
  <2> QED
    BY <2>1, <2>2 DEF T!TagsTypeOK
<1>15. ASSUME NEW q \in Assigners, T!Abort(q),
             PresentContacts' = PresentContacts
      PROVE  T!TagsTypeOK'
  <2>1. asg' \in [Assigners -> {T!NoAssignment} \cup T!Assigning]
    BY <1>15 DEF T!Abort, T!Go, T!TagsTypeOK
  <2>2. /\ tags' \in [TagIds -> T!Name \cup {NoTag}]
        /\ drawnTags' \subseteq TagIds /\ T!Rows(TagIds)' \subseteq drawnTags'
        /\ items' \subseteq TagIds \X ContactIds /\ late' \subseteq items'
        /\ \A x \in items' : tags'[x[1]] # NoTag
        /\ \A v, w \in T!Rows(TagIds)' : tags'[v].slug = tags'[w].slug => v = w
    BY <1>15 DEF T!Abort, T!KeepTags, T!KeepItems, T!TagsTypeOK, T!Rows
  <2> QED
    BY <2>1, <2>2 DEF T!TagsTypeOK
<1> QED
  BY ONLY <1>1, <1>2, <1>3, <1>4, <1>5, <1>6, <1>7, <1>8, <1>9, <1>10, <1>11,
          <1>12, <1>13, <1>14, <1>15, TagEffect
          DEF TagEffect, TagNext

(* An assignment that keeps what it has made. *)
Keeps(q) ==
    asg'[q] # T!NoAssignment =>
        \/ asg'[q].made = {}
        \/ /\ asg[q] # T!NoAssignment /\ asg'[q].made = asg[q].made
           /\ asg'[q].names = asg[q].names
           /\ asg'[q].todo \subseteq asg[q].todo
           /\ T!Running(q)' => T!Running(q)

(* What was made stays well made if nothing is made and nobody takes its   *)
(* slug.                                                                   *)
LEMMA MadeKept ==
  ASSUME MadeWell, \A q \in Assigners : Keeps(q),
         drawnTags \subseteq drawnTags',
         \A q \in Assigners : asg[q] # T!NoAssignment /\ T!Running(q) /\ T!Running(q)' =>
            \A m \in asg[q].made : tags'[m[1]] = NoTag /\ ~T!SlugTaken(m[2].slug)'
  PROVE  MadeWell'
<1>0. ASSUME NEW q \in Assigners, T!Running(q)'
      PROVE  asg'[q] # T!NoAssignment
  BY <1>0 DEF T!Running, T!NoAssignment
<1>1. ASSUME NEW q \in Assigners, asg'[q] # T!NoAssignment,
             NEW m \in asg'[q].made
      PROVE  /\ \E i \in DOMAIN asg'[q].names \ asg'[q].todo :
                   m[2] = asg'[q].names[i]
             /\ \A l \in asg'[q].made : l[1] = m[1] \/ l[2] = m[2] => l = m
             /\ T!Running(q)' =>
                   /\ m[1] \in drawnTags' /\ tags'[m[1]] = NoTag
                   /\ ~T!SlugTaken(m[2].slug)'
  <2>1. /\ asg[q] # T!NoAssignment /\ asg'[q].made = asg[q].made
        /\ asg'[q].names = asg[q].names /\ asg'[q].todo \subseteq asg[q].todo
        /\ T!Running(q)' => T!Running(q)
    BY <1>1 DEF Keeps
  <2> QED
    BY <1>1, <2>1 DEF MadeWell
<1>2. ASSUME NEW q \in Assigners, asg'[q] # T!NoAssignment,
             NEW m \in asg'[q].made,
             T!Running(q)', NEW p \in Assigners \ {q}, T!Running(p)',
             NEW l \in asg'[p].made
      PROVE  l[1] # m[1] /\ l[2].slug # m[2].slug
  <2>1. /\ asg[q] # T!NoAssignment /\ m \in asg[q].made /\ T!Running(q)
        /\ T!Running(p) /\ l \in asg[p].made
    BY <1>0, <1>2 DEF Keeps
  <2> QED
    BY <2>1 DEF MadeWell
<1> QED
  BY <1>1, <1>2 DEF MadeWell

(* Nor is it disturbed when the tags stay as they are.                     *)
LEMMA QuietMade ==
  ASSUME MadeWell, \A q \in Assigners : Keeps(q), UNCHANGED <<tags, drawnTags>>
  PROVE  MadeWell'
<1>1. \A q \in Assigners : asg[q] # T!NoAssignment /\ T!Running(q) /\ T!Running(q)' =>
        \A m \in asg[q].made : tags'[m[1]] = NoTag /\ ~T!SlugTaken(m[2].slug)'
  BY DEF MadeWell, T!SlugTaken, T!Rows
<1> QED
  BY <1>1, MadeKept

(* A disturbance makes no tag.                                             *)
LEMMA DisturbKeeps ==
  ASSUME T!TagsTypeOK, T!Disturb
  PROVE  \A q \in Assigners : Keeps(q)
<1>1. ASSUME NEW q \in Assigners PROVE Keeps(q)
  <2>1. CASE asg'[q] = T!NoAssignment
    BY <2>1 DEF Keeps
  <2>2. CASE asg'[q] # T!NoAssignment
    BY <2>2, AssignmentDisturbed DEF Keeps, T!Running
  <2> QED
    BY <2>1, <2>2
<1> QED
  BY <1>1

(* A tag is inserted only if its slug is taken neither by a row nor by     *)
(* what another assignment holds uncommitted (tags: unique slug).          *)
LEMMA MadeWellStep ==
  ASSUME T!TagsTypeOK, MadeWell, TodoOfNames, TagEffect
  PROVE  MadeWell'
<1>1. CASE UNCHANGED tagVars /\ PresentContacts \subseteq PresentContacts'
  <2>1. \A q \in Assigners : Keeps(q)
    BY <1>1 DEF tagVars, Keeps, T!Running
  <2> QED
    BY <1>1, <2>1, QuietMade DEF tagVars
<1>2. ASSUME NEW c \in ContactIds, T!ContactDeleted(c),
             PresentContacts \ {c} \subseteq PresentContacts'
      PROVE  MadeWell'
  BY <1>2, DisturbKeeps, QuietMade DEF T!ContactDeleted, T!KeepTags
<1>3. ASSUME NEW n \in T!Name, T!CreateTag(n),
             PresentContacts' = PresentContacts
      PROVE  MadeWell'
  <2> DEFINE t == T!NextTag
  <2>1. \A q \in Assigners : Keeps(q)
    BY <1>3 DEF T!CreateTag, Keeps, T!Running
  <2>2. t \notin drawnTags /\ tags' = [tags EXCEPT ![t] = n] /\ t \in TagIds
        /\ drawnTags' = drawnTags \cup {t}
    BY <1>3, TagLeft DEF T!CreateTag
  <2>3. ASSUME NEW q \in Assigners, asg[q] # T!NoAssignment, T!Running(q),
               NEW m \in asg[q].made
        PROVE  tags'[m[1]] = NoTag /\ ~T!SlugTaken(m[2].slug)'
    <3>1. m[2].slug # n.slug
      BY <1>3, <2>3 DEF T!CreateTag, T!Free, T!Inserted
    <3>2. /\ m[1] # t /\ tags[m[1]] = NoTag /\ ~T!SlugTaken(m[2].slug)
          /\ m[1] \in TagIds
      BY <2>2, <2>3, AtAssignment DEF MadeWell, WellAssigned
    <3> HIDE DEF t
    <3> QED
      BY <2>2, <3>1, <3>2 DEF T!SlugTaken, T!Rows, T!TagsTypeOK
  <2> QED
    BY <2>1, <2>2, <2>3, MadeKept
<1>4. ASSUME NEW t \in TagIds, T!DeleteTag(t),
             PresentContacts' = PresentContacts
      PROVE  MadeWell'
  <2>1. \A q \in Assigners : Keeps(q)
    BY <1>4, DisturbKeeps DEF T!DeleteTag
  <2>3. ASSUME NEW q \in Assigners, asg[q] # T!NoAssignment, T!Running(q),
               NEW m \in asg[q].made
        PROVE  tags'[m[1]] = NoTag /\ ~T!SlugTaken(m[2].slug)'
    <3>2. tags[m[1]] = NoTag /\ ~T!SlugTaken(m[2].slug) /\ m[1] \in TagIds
      BY <1>4, <2>3, AtAssignment DEF MadeWell, WellAssigned
    <3> QED
      BY <1>4, <3>2 DEF T!DeleteTag, T!SlugTaken, T!Rows, T!TagsTypeOK
  <2> QED
    BY <1>4, <2>1, <2>3, MadeKept DEF T!DeleteTag
<1>5. ASSUME NEW t \in TagIds, NEW n \in T!Name, T!RenameTag(t, n),
             PresentContacts' = PresentContacts
      PROVE  MadeWell'
  <2>1. \A q \in Assigners : Keeps(q)
    BY <1>5, DisturbKeeps DEF T!RenameTag
  <2>3. ASSUME NEW q \in Assigners, asg[q] # T!NoAssignment, T!Running(q),
               NEW m \in asg[q].made
        PROVE  tags'[m[1]] = NoTag /\ ~T!SlugTaken(m[2].slug)'
    <3>1. m[2].slug # n.slug
      BY <1>5, <2>3 DEF T!RenameTag, T!Free, T!Inserted
    <3>2. /\ m[1] # t /\ tags[m[1]] = NoTag /\ ~T!SlugTaken(m[2].slug)
          /\ m[1] \in TagIds
      BY <1>5, <2>3, AtAssignment DEF MadeWell, WellAssigned, T!RenameTag
    <3> QED
      BY <1>5, <3>1, <3>2 DEF T!RenameTag, T!SlugTaken, T!Rows, T!TagsTypeOK
  <2> QED
    BY <1>5, <2>1, <2>3, MadeKept DEF T!RenameTag
<1>6. ASSUME NEW c \in ContactIds, NEW S \in SUBSET T!Rows(TagIds),
             T!Unassign(c, S),
             PresentContacts' = PresentContacts
      PROVE  MadeWell'
  BY <1>6, DisturbKeeps, QuietMade DEF T!Unassign, T!KeepTags
<1>7. ASSUME NEW q \in Assigners, NEW c \in ContactIds, NEW s \in T!NameLists,
             T!Assign(q, c, s),
             PresentContacts' = PresentContacts
      PROVE  MadeWell'
  <2>1. \A p \in Assigners : Keeps(p)
    BY <1>7, AssignmentMoves DEF T!Assign, Keeps, T!Running
  <2> QED
    BY <1>7, <2>1, QuietMade DEF T!Assign, T!KeepTags
<1>8. ASSUME NEW q \in Assigners, T!ReadExisting(q),
             PresentContacts' = PresentContacts
      PROVE  MadeWell'
  <2>0. asg[q] \in T!Assigning /\ asg[q] # T!NoAssignment /\ T!Running(q)
    BY <1>8, AtAssignment
       DEF T!ReadExisting, T!TagsTypeOK, WellAssigned, T!Running
  <2>1. CASE T!Move(q, "refused")
    <3>1. \A p \in Assigners : Keeps(p)
      BY <2>0, <2>1, MovesTo DEF Keeps, T!Running
    <3> QED
      BY <1>8, <3>1, QuietMade DEF T!ReadExisting, T!KeepTags
  <2>2. ASSUME NEW S, T!Go(q, [asg[q] EXCEPT !.at = "create", !.todo = S])
        PROVE  MadeWell'
    <3> DEFINE y == [asg[q] EXCEPT !.at = "create", !.todo = S]
    <3>1. y.made = {}
      BY <1>8, <2>0 DEF T!Assigning, T!ReadExisting, TodoOfNames
    <3> HIDE DEF y
    <3>2. T!Go(q, y)
      BY <2>2 DEF y
    <3>3. \A p \in Assigners : Keeps(p)
      BY <2>0, <3>1, <3>2, AssignmentMoves DEF Keeps, T!Running
    <3> QED
      BY <1>8, <3>3, QuietMade DEF T!ReadExisting, T!KeepTags
  <2> QED
    BY <1>8, <2>1, <2>2 DEF T!ReadExisting
<1>9. ASSUME NEW q \in Assigners, T!InsertTag(q),
             PresentContacts' = PresentContacts
      PROVE  MadeWell'
  <2>0. /\ asg[q] \in T!Assigning /\ First(q) \in asg[q].todo
        /\ First(q) \in DOMAIN asg[q].names
        /\ asg[q].names[First(q)] \in T!Name /\ asg[q].at = "create"
        /\ asg[q].names \in T!NameLists /\ asg[q] # T!NoAssignment
    BY <1>9, AtAssignment, FirstIs DEF T!InsertTag, T!TagsTypeOK, WellAssigned
  <2> DEFINE n == asg[q].names[First(q)]
             t == T!NextTag
  <2>1. CASE T!Go(q, [asg[q] EXCEPT !.todo = @ \ {First(q)}])
             /\ UNCHANGED drawnTags
    <3> DEFINE y == [asg[q] EXCEPT !.todo = @ \ {First(q)}]
    <3>1. /\ y.made = asg[q].made /\ y.names = asg[q].names
          /\ y.todo \subseteq asg[q].todo
          /\ y.at = "create"
      BY <2>0 DEF T!Assigning
    <3> HIDE DEF y
    <3>2. T!Go(q, y)
      BY <2>1 DEF y
    <3>3. \A p \in Assigners : Keeps(p)
      BY <2>0, <3>1, <3>2, AssignmentMoves DEF Keeps, T!Running
    <3> QED
      BY <1>9, <2>1, <3>3, QuietMade DEF T!InsertTag
  <2>2. CASE /\ drawnTags # TagIds /\ ~T!SlugTaken(n.slug)
             /\ T!Go(q, [asg[q] EXCEPT !.todo = @ \ {First(q)},
                                       !.made = @ \cup {<<t, n>>}])
             /\ drawnTags' = drawnTags \cup {t}
    <3> DEFINE y == [asg[q] EXCEPT !.todo = @ \ {First(q)},
                                   !.made = @ \cup {<<t, n>>}]
    <3>1. /\ y.made = asg[q].made \cup {<<t, n>>} /\ y.names = asg[q].names
          /\ y.todo = asg[q].todo \ {First(q)} /\ y.at = "create"
      BY <2>0 DEF T!Assigning
    <3>2. t \in TagIds /\ t \notin drawnTags /\ tags[t] = NoTag
      BY <2>2, TagLeft
    <3>3. \A p \in Assigners \ {q} : T!Running(p) =>
             \A l \in asg[p].made : l[2].slug # n.slug
      <4>1. T!Waits(q, n.slug) = {}
        BY <1>9 DEF T!InsertTag, First
      <4> HIDE DEF n
      <4> QED
        BY <4>1 DEF T!Waits, T!Inserted
    <3>4. \A m \in asg[q].made :
             \E i \in DOMAIN asg[q].names : m[2] = asg[q].names[i] /\ m[2].slug # n.slug
      BY <2>0, NamesAsked DEF MadeWell
    <3>5. \A p \in Assigners : asg[p] # T!NoAssignment /\ T!Running(p) =>
             \A l \in asg[p].made : l[1] # t
      BY <3>2 DEF MadeWell
    <3>6. UNCHANGED tags
      BY <1>9 DEF T!InsertTag
    <3>7. /\ asg'[q] = y
          /\ \A p \in Assigners \ {q} : asg'[p] = asg[p]
      <4> HIDE DEF y
      <4>1. T!Go(q, y)
        BY <2>2 DEF y
      <4> QED
        BY <4>1, AssignmentMoves
    <3>8. T!Running(q) /\ \A p \in Assigners : T!Running(p) =>
             asg[p] # T!NoAssignment
      BY <2>0 DEF T!Running, T!NoAssignment
    <3> HIDE DEF y, t, n
    <3>9. ASSUME NEW m \in y.made
          PROVE  /\ \E i \in DOMAIN y.names \ y.todo : m[2] = y.names[i]
                 /\ \A l \in y.made : l[1] = m[1] \/ l[2] = m[2] => l = m
                 /\ m[1] \in drawnTags' /\ tags'[m[1]] = NoTag
                 /\ ~T!SlugTaken(m[2].slug)'
                 /\ \A p \in Assigners \ {q} : T!Running(p) =>
                       \A l \in asg[p].made : l[1] # m[1] /\ l[2].slug # m[2].slug
      <4>0. T!SlugTaken(m[2].slug)' <=> T!SlugTaken(m[2].slug)
        BY <3>6 DEF T!SlugTaken, T!Rows
      <4>1. CASE m \in asg[q].made
        <5>1. \E i \in DOMAIN y.names \ y.todo : m[2] = y.names[i]
          BY <2>0, <3>1, <4>1 DEF MadeWell
        <5>2. m[1] # t /\ m[2] # n
          BY <2>0, <3>4, <3>5, <3>8, <4>1
        <5>3. \A l \in y.made : l[1] = m[1] \/ l[2] = m[2] => l = m
          BY <2>0, <3>1, <4>1, <5>2 DEF MadeWell
        <5> QED
          BY <2>0, <2>2, <3>6, <3>8, <4>0, <4>1, <5>1, <5>3 DEF MadeWell
      <4>2. CASE m = <<t, n>>
        <5>1. m[1] = t /\ m[2] = n
          BY <4>2
        <5>2. \E i \in DOMAIN y.names \ y.todo : m[2] = y.names[i]
          BY <2>0, <3>1, <5>1 DEF n
        <5>3. \A l \in y.made : l[1] = m[1] \/ l[2] = m[2] => l = m
          BY <2>0, <3>1, <3>4, <3>5, <3>8, <4>2, <5>1
        <5> QED
          BY <2>2, <3>2, <3>3, <3>5, <3>6, <3>8, <4>0, <5>1, <5>2, <5>3
      <4> QED
        BY <3>1, <4>1, <4>2
    <3>10. ASSUME NEW p \in Assigners \ {q}, asg'[p] # T!NoAssignment,
                  NEW m \in asg'[p].made
           PROVE  /\ \E i \in DOMAIN asg'[p].names \ asg'[p].todo :
                        m[2] = asg'[p].names[i]
                  /\ \A l \in asg'[p].made : l[1] = m[1] \/ l[2] = m[2] =>
                        l = m
                  /\ T!Running(p)' =>
                       /\ m[1] \in drawnTags' /\ tags'[m[1]] = NoTag
                       /\ ~T!SlugTaken(m[2].slug)'
                       /\ \A r \in Assigners \ {p} : T!Running(r)' =>
                            \A l \in asg'[r].made :
                               l[1] # m[1] /\ l[2].slug # m[2].slug
      <4>0. T!SlugTaken(m[2].slug)' <=> T!SlugTaken(m[2].slug)
        BY <3>6 DEF T!SlugTaken, T!Rows
      <4>1. /\ asg[p] = asg'[p] /\ asg[p] # T!NoAssignment /\ m \in asg[p].made
            /\ T!Running(p)' <=> T!Running(p)
        BY <3>7, <3>10 DEF T!Running
      <4>2. ASSUME NEW r \in Assigners \ {p}, T!Running(p), T!Running(r)',
                   NEW l \in asg'[r].made
            PROVE  l[1] # m[1] /\ l[2].slug # m[2].slug
        <5>1. CASE r = q
          BY <3>7, <3>9, <4>1, <4>2, <5>1
        <5>2. CASE r # q
          <6>1. asg'[r] = asg[r] /\ T!Running(r)
            BY <3>7, <4>2, <5>2 DEF T!Running
          <6> QED
            BY <4>1, <4>2, <6>1 DEF MadeWell
        <5> QED
          BY <5>1, <5>2
      <4> QED
        BY <2>2, <3>6, <4>0, <4>1, <4>2 DEF MadeWell
    <3>11. \A p \in Assigners \ {q} : T!Running(p)' <=> T!Running(p)
      BY <3>7 DEF T!Running
    <3> QED
      BY <3>7, <3>9, <3>10, <3>11 DEF MadeWell
  <2> QED
    BY <1>9, <2>1, <2>2 DEF T!InsertTag, First
<1>10. ASSUME NEW q \in Assigners, T!AllInserted(q),
             PresentContacts' = PresentContacts
      PROVE  MadeWell'
  <2>1. \A p \in Assigners : Keeps(p)
    BY <1>10, MovesTo, AtAssignment DEF T!AllInserted, Keeps, T!Running
  <2> QED
    BY <1>10, <2>1, QuietMade DEF T!AllInserted, T!KeepTags
<1>11. ASSUME NEW q \in Assigners, T!Reread(q),
             PresentContacts' = PresentContacts
      PROVE  MadeWell'
  <2>0. asg[q] \in T!Assigning /\ asg[q] # T!NoAssignment /\ T!Running(q)
    BY <1>11, AtAssignment DEF T!Reread, T!TagsTypeOK, WellAssigned, T!Running
  <2>1. CASE T!Move(q, "refused")
    <3>1. \A p \in Assigners : Keeps(p)
      BY <2>0, <2>1, MovesTo DEF Keeps, T!Running
    <3> QED
      BY <1>11, <3>1, QuietMade DEF T!Reread, T!KeepTags
  <2>2. ASSUME NEW S, T!Go(q, [asg[q] EXCEPT !.at = "items", !.chosen = S])
        PROVE  MadeWell'
    <3> DEFINE y == [asg[q] EXCEPT !.at = "items", !.chosen = S]
    <3>1. /\ y.made = asg[q].made /\ y.names = asg[q].names
          /\ y.todo = asg[q].todo
      BY <1>11, <2>0 DEF T!Assigning, T!Reread, TodoOfNames
    <3> HIDE DEF y
    <3>2. T!Go(q, y)
      BY <2>2 DEF y
    <3>3. \A p \in Assigners : Keeps(p)
      BY <2>0, <3>1, <3>2, AssignmentMoves DEF Keeps, T!Running
    <3> QED
      BY <1>11, <3>3, QuietMade DEF T!Reread, T!KeepTags
  <2> QED
    BY <1>11, <2>1, <2>2 DEF T!Reread
<1>12. ASSUME NEW q \in Assigners, T!ReadItems(q),
             PresentContacts' = PresentContacts
      PROVE  MadeWell'
  <2>0. asg[q] \in T!Assigning /\ asg[q] # T!NoAssignment /\ T!Running(q)
    BY <1>12, AtAssignment
       DEF T!ReadItems, T!TagsTypeOK, WellAssigned, T!Running
  <2>2. ASSUME NEW S, T!Go(q, [asg[q] EXCEPT !.at = "commit", !.had = S])
        PROVE  MadeWell'
    <3> DEFINE y == [asg[q] EXCEPT !.at = "commit", !.had = S]
    <3>1. /\ y.made = asg[q].made /\ y.names = asg[q].names
          /\ y.todo = asg[q].todo
      BY <1>12, <2>0 DEF T!Assigning, T!ReadItems, TodoOfNames
    <3> HIDE DEF y
    <3>2. T!Go(q, y)
      BY <2>2 DEF y
    <3>3. \A p \in Assigners : Keeps(p)
      BY <2>0, <3>1, <3>2, AssignmentMoves DEF Keeps, T!Running
    <3> QED
      BY <1>12, <3>3, QuietMade DEF T!ReadItems, T!KeepTags
  <2> QED
    BY <1>12, <2>2 DEF T!ReadItems
<1>13. ASSUME NEW q \in Assigners, T!CommitAssignment(q),
             PresentContacts' = PresentContacts
      PROVE  MadeWell'
  <2>0. /\ asg[q] # T!NoAssignment /\ WellAssigned(asg[q]) /\ T!Running(q)
        /\ drawnTags' = drawnTags
    BY <1>13, AtAssignment DEF T!CommitAssignment, T!Running
  <2>1. \A p \in Assigners : Keeps(p)
    BY <1>13, <2>0, MovesTo DEF T!CommitAssignment, Keeps, T!Running
  <2>2. CASE UNCHANGED tags
    BY <2>0, <2>1, <2>2, QuietMade
  <2>3. CASE Writes(q) /\ T!Move(q, "assigned")
    <3>1. ~T!Running(q)'
      BY <2>0, <2>3, MovesTo DEF T!Running
    <3>2. \A t \in TagIds : \/ tags'[t] = tags[t]
                            \/ \E l \in asg[q].made : l[1] = t /\ tags'[t] = l[2]
      BY <2>0, <2>3, WritesMade
    <3>3. ASSUME NEW p \in Assigners, asg[p] # T!NoAssignment, T!Running(p),
                 T!Running(p)', NEW m \in asg[p].made
          PROVE  tags'[m[1]] = NoTag /\ ~T!SlugTaken(m[2].slug)'
      <4>1. \A l \in asg[q].made : l[1] # m[1] /\ l[2].slug # m[2].slug
        BY <2>0, <3>1, <3>3 DEF MadeWell
      <4>2. tags[m[1]] = NoTag /\ ~T!SlugTaken(m[2].slug) /\ m[1] \in TagIds
        BY <3>3, AtAssignment DEF MadeWell, WellAssigned
      <4> QED
        BY <3>2, <4>1, <4>2 DEF T!SlugTaken, T!Rows
    <3> QED
      BY <2>0, <2>1, <3>3, MadeKept
  <2> QED
    BY <1>13, <2>2, <2>3 DEF T!CommitAssignment, Writes
<1>14. ASSUME NEW q \in Assigners, T!Answer(q),
             PresentContacts' = PresentContacts
      PROVE  MadeWell'
  <2>1. \A p \in Assigners : Keeps(p)
    BY <1>14, AssignmentMoves DEF T!Answer, Keeps, T!Running
  <2> QED
    BY <1>14, <2>1, QuietMade DEF T!Answer, T!KeepTags
<1>15. ASSUME NEW q \in Assigners, T!Abort(q),
             PresentContacts' = PresentContacts
      PROVE  MadeWell'
  <2>1. \A p \in Assigners : Keeps(p)
    BY <1>15, AssignmentMoves DEF T!Abort, Keeps, T!Running
  <2> QED
    BY <1>15, <2>1, QuietMade DEF T!Abort, T!KeepTags
<1> QED
  BY ONLY <1>1, <1>2, <1>3, <1>4, <1>5, <1>6, <1>7, <1>8, <1>9, <1>10, <1>11,
          <1>12, <1>13, <1>14, <1>15, TagEffect
          DEF TagEffect, TagNext

(* What is left to do shrinks to nothing before the tags are read again.   *)
LEMMA TodoOfNamesStep ==
  ASSUME T!TagsTypeOK, TodoOfNames, TagEffect
  PROVE  TodoOfNames'
<1>1. CASE UNCHANGED tagVars /\ PresentContacts \subseteq PresentContacts'
  BY <1>1 DEF tagVars, TodoOfNames
<1>2. ASSUME NEW c \in ContactIds, T!ContactDeleted(c),
             PresentContacts \ {c} \subseteq PresentContacts'
      PROVE  TodoOfNames'
  <2>1. \A p \in Assigners : asg'[p] # T!NoAssignment =>
          /\ asg'[p].todo \subseteq DOMAIN asg'[p].names
          /\ asg'[p].at # "create" => asg'[p].todo = {}
          /\ asg'[p].at = "existing" => asg'[p].made = {}
    BY <1>2, AssignmentDisturbed DEF T!ContactDeleted, TodoOfNames
  <2> QED
    BY <2>1 DEF TodoOfNames
<1>3. ASSUME NEW n \in T!Name, T!CreateTag(n),
             PresentContacts' = PresentContacts
      PROVE  TodoOfNames'
  BY <1>3 DEF T!CreateTag, TodoOfNames
<1>4. ASSUME NEW t \in TagIds, T!DeleteTag(t),
             PresentContacts' = PresentContacts
      PROVE  TodoOfNames'
  <2>1. \A p \in Assigners : asg'[p] # T!NoAssignment =>
          /\ asg'[p].todo \subseteq DOMAIN asg'[p].names
          /\ asg'[p].at # "create" => asg'[p].todo = {}
          /\ asg'[p].at = "existing" => asg'[p].made = {}
    BY <1>4, AssignmentDisturbed DEF T!DeleteTag, TodoOfNames
  <2> QED
    BY <2>1 DEF TodoOfNames
<1>5. ASSUME NEW t \in TagIds, NEW n \in T!Name, T!RenameTag(t, n),
             PresentContacts' = PresentContacts
      PROVE  TodoOfNames'
  <2>1. \A p \in Assigners : asg'[p] # T!NoAssignment =>
          /\ asg'[p].todo \subseteq DOMAIN asg'[p].names
          /\ asg'[p].at # "create" => asg'[p].todo = {}
          /\ asg'[p].at = "existing" => asg'[p].made = {}
    BY <1>5, AssignmentDisturbed DEF T!RenameTag, TodoOfNames
  <2> QED
    BY <2>1 DEF TodoOfNames
<1>6. ASSUME NEW c \in ContactIds, NEW S \in SUBSET T!Rows(TagIds),
             T!Unassign(c, S),
             PresentContacts' = PresentContacts
      PROVE  TodoOfNames'
  <2>1. \A p \in Assigners : asg'[p] # T!NoAssignment =>
          /\ asg'[p].todo \subseteq DOMAIN asg'[p].names
          /\ asg'[p].at # "create" => asg'[p].todo = {}
          /\ asg'[p].at = "existing" => asg'[p].made = {}
    BY <1>6, AssignmentDisturbed DEF T!Unassign, TodoOfNames
  <2> QED
    BY <2>1 DEF TodoOfNames
<1>7. ASSUME NEW q \in Assigners, NEW c \in ContactIds, NEW s \in T!NameLists,
             T!Assign(q, c, s),
             PresentContacts' = PresentContacts
      PROVE  TodoOfNames'
  <2>1. \A p \in Assigners : asg'[p] # T!NoAssignment =>
          /\ asg'[p].todo \subseteq DOMAIN asg'[p].names
          /\ asg'[p].at # "create" => asg'[p].todo = {}
          /\ asg'[p].at = "existing" => asg'[p].made = {}
    <3> DEFINE y == [at |-> "existing", contact |-> c, names |-> s, todo |-> {},
                     made |-> {}, chosen |-> {}, had |-> {}, disturbed |-> FALSE]
    <3>1. y.todo = {} /\ y.at = "existing" /\ y.made = {}
      OBVIOUS
    <3> HIDE DEF y
    <3>2. T!Go(q, y)
      BY <1>7 DEF T!Assign, y
    <3> QED
      BY <3>1, <3>2, AssignmentMoves DEF TodoOfNames
  <2> QED
    BY <2>1 DEF TodoOfNames
<1>8. ASSUME NEW q \in Assigners, T!ReadExisting(q),
             PresentContacts' = PresentContacts
      PROVE  TodoOfNames'
  <2>1. \A p \in Assigners : asg'[p] # T!NoAssignment =>
          /\ asg'[p].todo \subseteq DOMAIN asg'[p].names
          /\ asg'[p].at # "create" => asg'[p].todo = {}
          /\ asg'[p].at = "existing" => asg'[p].made = {}
    <3>0. /\ asg[q] \in T!Assigning /\ asg[q] # T!NoAssignment
          /\ WellAssigned(asg[q])
      BY <1>8, AtAssignment DEF T!ReadExisting, T!TagsTypeOK, WellAssigned
    <3>1. CASE T!Move(q, "refused")
      BY <1>8, <3>0, <3>1, MovesTo DEF TodoOfNames, T!ReadExisting
    <3>2. ASSUME NEW S, S \subseteq DOMAIN asg[q].names,
                 T!Go(q, [asg[q] EXCEPT !.at = "create", !.todo = S])
          PROVE  \A p \in Assigners : asg'[p] # T!NoAssignment =>
                   /\ asg'[p].todo \subseteq DOMAIN asg'[p].names
                   /\ asg'[p].at # "create" => asg'[p].todo = {}
                   /\ asg'[p].at = "existing" => asg'[p].made = {}
      <4> DEFINE y == [asg[q] EXCEPT !.at = "create", !.todo = S]
      <4>1. y.at = "create" /\ y.names = asg[q].names /\ y.todo = S
        BY <3>0 DEF T!Assigning
      <4> HIDE DEF y
      <4>2. T!Go(q, y)
        BY <3>2 DEF y
      <4>3. asg[q].at # "create" => asg[q].todo = {}
        BY <3>0 DEF TodoOfNames
      <4> QED
        BY <1>8, <3>0, <3>2, <4>1, <4>2, <4>3, AssignmentMoves
           DEF TodoOfNames, T!ReadExisting
    <3> QED
      BY <1>8, <3>1, <3>2 DEF T!ReadExisting
  <2> QED
    BY <2>1 DEF TodoOfNames
<1>9. ASSUME NEW q \in Assigners, T!InsertTag(q),
             PresentContacts' = PresentContacts
      PROVE  TodoOfNames'
  <2>1. \A p \in Assigners : asg'[p] # T!NoAssignment =>
          /\ asg'[p].todo \subseteq DOMAIN asg'[p].names
          /\ asg'[p].at # "create" => asg'[p].todo = {}
          /\ asg'[p].at = "existing" => asg'[p].made = {}
    <3>0. /\ asg[q] \in T!Assigning /\ asg[q] # T!NoAssignment
          /\ asg[q].at = "create"
      BY <1>9, AtAssignment DEF T!InsertTag, T!TagsTypeOK, WellAssigned
    <3>1. /\ asg'[q].names = asg[q].names /\ asg'[q].at = "create"
          /\ asg'[q].todo = asg[q].todo \ {First(q)}
      <4> DEFINE A == asg[q].todo \ {First(q)}
                 B == asg[q].made \cup {<<T!NextTag, asg[q].names[First(q)]>>}
      <4>1. \/ T!Go(q, [asg[q] EXCEPT !.todo = A])
            \/ T!Go(q, [asg[q] EXCEPT !.todo = A, !.made = B])
        BY <1>9 DEF T!InsertTag, First
      <4>2. \/ asg'[q] = [asg[q] EXCEPT !.todo = A]
            \/ asg'[q] = [asg[q] EXCEPT !.todo = A, !.made = B]
        BY <4>1, AssignmentMoves
      <4> HIDE DEF A, B
      <4>3. /\ asg'[q].names = asg[q].names /\ asg'[q].at = "create"
            /\ asg'[q].todo = A
        BY <3>0, <4>2 DEF T!Assigning
      <4> QED
        BY <4>3 DEF A
    <3>2. \A p \in Assigners \ {q} : asg'[p] = asg[p]
      BY <1>9, AssignmentMoves DEF T!InsertTag
    <3> QED
      BY <3>0, <3>1, <3>2 DEF TodoOfNames
  <2> QED
    BY <2>1 DEF TodoOfNames
<1>10. ASSUME NEW q \in Assigners, T!AllInserted(q),
             PresentContacts' = PresentContacts
      PROVE  TodoOfNames'
  <2>1. \A p \in Assigners : asg'[p] # T!NoAssignment =>
          /\ asg'[p].todo \subseteq DOMAIN asg'[p].names
          /\ asg'[p].at # "create" => asg'[p].todo = {}
          /\ asg'[p].at = "existing" => asg'[p].made = {}
    BY <1>10, MovesTo, AtAssignment DEF T!AllInserted, TodoOfNames
  <2> QED
    BY <2>1 DEF TodoOfNames
<1>11. ASSUME NEW q \in Assigners, T!Reread(q),
             PresentContacts' = PresentContacts
      PROVE  TodoOfNames'
  <2>1. \A p \in Assigners : asg'[p] # T!NoAssignment =>
          /\ asg'[p].todo \subseteq DOMAIN asg'[p].names
          /\ asg'[p].at # "create" => asg'[p].todo = {}
          /\ asg'[p].at = "existing" => asg'[p].made = {}
    <3>0. /\ asg[q] \in T!Assigning /\ asg[q] # T!NoAssignment
          /\ WellAssigned(asg[q])
      BY <1>11, AtAssignment DEF T!Reread, T!TagsTypeOK, WellAssigned
    <3>1. CASE T!Move(q, "refused")
      BY <1>11, <3>0, <3>1, MovesTo DEF TodoOfNames, T!Reread
    <3>2. ASSUME NEW S,
                 T!Go(q, [asg[q] EXCEPT !.at = "items", !.chosen = S])
          PROVE  \A p \in Assigners : asg'[p] # T!NoAssignment =>
                   /\ asg'[p].todo \subseteq DOMAIN asg'[p].names
                   /\ asg'[p].at # "create" => asg'[p].todo = {}
                   /\ asg'[p].at = "existing" => asg'[p].made = {}
      <4> DEFINE y == [asg[q] EXCEPT !.at = "items", !.chosen = S]
      <4>1. y.at = "items" /\ y.names = asg[q].names /\ y.todo = asg[q].todo
        BY <3>0 DEF T!Assigning
      <4> HIDE DEF y
      <4>2. T!Go(q, y)
        BY <3>2 DEF y
      <4>3. asg[q].at # "create" => asg[q].todo = {}
        BY <3>0 DEF TodoOfNames
      <4> QED
        BY <1>11, <3>0, <3>2, <4>1, <4>2, <4>3, AssignmentMoves
           DEF TodoOfNames, T!Reread
    <3> QED
      BY <1>11, <3>1, <3>2 DEF T!Reread
  <2> QED
    BY <2>1 DEF TodoOfNames
<1>12. ASSUME NEW q \in Assigners, T!ReadItems(q),
             PresentContacts' = PresentContacts
      PROVE  TodoOfNames'
  <2>1. \A p \in Assigners : asg'[p] # T!NoAssignment =>
          /\ asg'[p].todo \subseteq DOMAIN asg'[p].names
          /\ asg'[p].at # "create" => asg'[p].todo = {}
          /\ asg'[p].at = "existing" => asg'[p].made = {}
    <3>0. /\ asg[q] \in T!Assigning /\ asg[q] # T!NoAssignment
          /\ WellAssigned(asg[q])
      BY <1>12, AtAssignment DEF T!ReadItems, T!TagsTypeOK, WellAssigned
    <3>2. ASSUME NEW S,
                 T!Go(q, [asg[q] EXCEPT !.at = "commit", !.had = S])
          PROVE  \A p \in Assigners : asg'[p] # T!NoAssignment =>
                   /\ asg'[p].todo \subseteq DOMAIN asg'[p].names
                   /\ asg'[p].at # "create" => asg'[p].todo = {}
                   /\ asg'[p].at = "existing" => asg'[p].made = {}
      <4> DEFINE y == [asg[q] EXCEPT !.at = "commit", !.had = S]
      <4>1. y.at = "commit" /\ y.names = asg[q].names /\ y.todo = asg[q].todo
        BY <3>0 DEF T!Assigning
      <4> HIDE DEF y
      <4>2. T!Go(q, y)
        BY <3>2 DEF y
      <4>3. asg[q].at # "create" => asg[q].todo = {}
        BY <3>0 DEF TodoOfNames
      <4> QED
        BY <1>12, <3>0, <3>2, <4>1, <4>2, <4>3, AssignmentMoves
           DEF TodoOfNames, T!ReadItems
    <3> QED
      BY <1>12, <3>2 DEF T!ReadItems
  <2> QED
    BY <2>1 DEF TodoOfNames
<1>13. ASSUME NEW q \in Assigners, T!CommitAssignment(q),
             PresentContacts' = PresentContacts
      PROVE  TodoOfNames'
  <2>1. \A p \in Assigners : asg'[p] # T!NoAssignment =>
          /\ asg'[p].todo \subseteq DOMAIN asg'[p].names
          /\ asg'[p].at # "create" => asg'[p].todo = {}
          /\ asg'[p].at = "existing" => asg'[p].made = {}
    <3>1. /\ asg[q] # T!NoAssignment /\ asg[q].at = "commit"
          /\ T!Move(q, "assigned") \/ T!Move(q, "failed")
      BY <1>13, AtAssignment DEF T!CommitAssignment
    <3> QED
      BY <3>1, MovesTo DEF TodoOfNames
  <2> QED
    BY <2>1 DEF TodoOfNames
<1>14. ASSUME NEW q \in Assigners, T!Answer(q),
             PresentContacts' = PresentContacts
      PROVE  TodoOfNames'
  <2>1. \A p \in Assigners : asg'[p] # T!NoAssignment =>
          /\ asg'[p].todo \subseteq DOMAIN asg'[p].names
          /\ asg'[p].at # "create" => asg'[p].todo = {}
          /\ asg'[p].at = "existing" => asg'[p].made = {}
    BY <1>14, AssignmentMoves DEF T!Answer, TodoOfNames
  <2> QED
    BY <2>1 DEF TodoOfNames
<1>15. ASSUME NEW q \in Assigners, T!Abort(q),
             PresentContacts' = PresentContacts
      PROVE  TodoOfNames'
  <2>1. \A p \in Assigners : asg'[p] # T!NoAssignment =>
          /\ asg'[p].todo \subseteq DOMAIN asg'[p].names
          /\ asg'[p].at # "create" => asg'[p].todo = {}
          /\ asg'[p].at = "existing" => asg'[p].made = {}
    BY <1>15, AssignmentMoves DEF T!Abort, TodoOfNames
  <2> QED
    BY <2>1 DEF TodoOfNames
<1> QED
  BY ONLY <1>1, <1>2, <1>3, <1>4, <1>5, <1>6, <1>7, <1>8, <1>9, <1>10, <1>11,
          <1>12, <1>13, <1>14, <1>15, TagEffect
          DEF TagEffect, TagNext

(* A deleted contact takes its items along, and items of a contact that    *)
(* is gone are late ones.                                                  *)
LEMMA ItemsFollowStep ==
  ASSUME T!TagsTypeOK, ItemsFollowContacts, TagEffect
  PROVE  ItemsFollowContacts'
<1>1. CASE UNCHANGED tagVars /\ PresentContacts \subseteq PresentContacts'
  BY <1>1 DEF tagVars, ItemsFollowContacts, T!ItemsFollowContacts
<1>2. ASSUME NEW c \in ContactIds, T!ContactDeleted(c),
             PresentContacts \ {c} \subseteq PresentContacts'
      PROVE  ItemsFollowContacts'
  BY <1>2
     DEF T!ContactDeleted, T!Cascade, T!TagsTypeOK, T!Without,
         ItemsFollowContacts, T!ItemsFollowContacts
<1>3. ASSUME NEW n \in T!Name, T!CreateTag(n),
             PresentContacts' = PresentContacts
      PROVE  ItemsFollowContacts'
  BY <1>3
     DEF T!CreateTag, T!KeepItems, ItemsFollowContacts, T!ItemsFollowContacts
<1>4. ASSUME NEW t \in TagIds, T!DeleteTag(t),
             PresentContacts' = PresentContacts
      PROVE  ItemsFollowContacts'
  BY <1>4
     DEF T!DeleteTag, T!TakeItems, T!Without, ItemsFollowContacts,
         T!ItemsFollowContacts
<1>5. ASSUME NEW t \in TagIds, NEW n \in T!Name, T!RenameTag(t, n),
             PresentContacts' = PresentContacts
      PROVE  ItemsFollowContacts'
  BY <1>5
     DEF T!RenameTag, T!KeepItems, ItemsFollowContacts, T!ItemsFollowContacts
<1>6. ASSUME NEW c \in ContactIds, NEW S \in SUBSET T!Rows(TagIds),
             T!Unassign(c, S),
             PresentContacts' = PresentContacts
      PROVE  ItemsFollowContacts'
  BY <1>6 DEF T!Unassign, T!Without, ItemsFollowContacts, T!ItemsFollowContacts
<1>7. ASSUME NEW q \in Assigners, NEW c \in ContactIds, NEW s \in T!NameLists,
             T!Assign(q, c, s),
             PresentContacts' = PresentContacts
      PROVE  ItemsFollowContacts'
  BY <1>7 DEF T!Assign, T!KeepItems, ItemsFollowContacts, T!ItemsFollowContacts
<1>8. ASSUME NEW q \in Assigners, T!ReadExisting(q),
             PresentContacts' = PresentContacts
      PROVE  ItemsFollowContacts'
  BY <1>8
     DEF T!ReadExisting, T!KeepItems, ItemsFollowContacts,
         T!ItemsFollowContacts
<1>9. ASSUME NEW q \in Assigners, T!InsertTag(q),
             PresentContacts' = PresentContacts
      PROVE  ItemsFollowContacts'
  BY <1>9
     DEF T!InsertTag, T!KeepItems, ItemsFollowContacts, T!ItemsFollowContacts
<1>10. ASSUME NEW q \in Assigners, T!AllInserted(q),
             PresentContacts' = PresentContacts
      PROVE  ItemsFollowContacts'
  BY <1>10
     DEF T!AllInserted, T!KeepItems, ItemsFollowContacts, T!ItemsFollowContacts
<1>11. ASSUME NEW q \in Assigners, T!Reread(q),
             PresentContacts' = PresentContacts
      PROVE  ItemsFollowContacts'
  BY <1>11
     DEF T!Reread, T!KeepItems, ItemsFollowContacts, T!ItemsFollowContacts
<1>12. ASSUME NEW q \in Assigners, T!ReadItems(q),
             PresentContacts' = PresentContacts
      PROVE  ItemsFollowContacts'
  BY <1>12
     DEF T!ReadItems, T!KeepItems, ItemsFollowContacts, T!ItemsFollowContacts
<1>13. ASSUME NEW q \in Assigners, T!CommitAssignment(q),
             PresentContacts' = PresentContacts
      PROVE  ItemsFollowContacts'
  <2>1. CASE T!KeepItems
    BY <1>13, <2>1 DEF T!KeepItems, ItemsFollowContacts, T!ItemsFollowContacts
  <2>2. CASE Writes(q)
    <3>1. \A x \in items' \ items : x[2] = asg[q].contact
      BY <2>2 DEF Writes
    <3>2. /\ late \subseteq late'
          /\ asg[q].contact \in PresentContacts \/ items' \ items \subseteq late'
      BY <2>2 DEF Writes
    <3> QED
      BY <1>13, <3>1, <3>2 DEF ItemsFollowContacts, T!ItemsFollowContacts
  <2> QED
    BY <1>13, <2>1, <2>2 DEF T!CommitAssignment, Writes
<1>14. ASSUME NEW q \in Assigners, T!Answer(q),
             PresentContacts' = PresentContacts
      PROVE  ItemsFollowContacts'
  BY <1>14
     DEF T!Answer, T!KeepItems, ItemsFollowContacts, T!ItemsFollowContacts
<1>15. ASSUME NEW q \in Assigners, T!Abort(q),
             PresentContacts' = PresentContacts
      PROVE  ItemsFollowContacts'
  BY <1>15 DEF T!Abort, T!KeepItems, ItemsFollowContacts, T!ItemsFollowContacts
<1> QED
  BY ONLY <1>1, <1>2, <1>3, <1>4, <1>5, <1>6, <1>7, <1>8, <1>9, <1>10, <1>11,
          <1>12, <1>13, <1>14, <1>15, TagEffect
          DEF TagEffect, TagNext

(* Rows and items are added only. *)
OnlyMore ==
    /\ \A t \in TagIds : tags[t] # NoTag => tags'[t] = tags[t]
    /\ items \subseteq items'

(* What an assignment has read stands while tags and items are only        *)
(* added.                                                                  *)
LEMMA StandsOn ==
  ASSUME OnlyMore, NEW q \in Assigners, Stands(q), asg'[q] = asg[q]
  PROVE  Stands(q)'
<1> SUFFICES ASSUME Undisturbed(q)'
             PROVE  Stands(q)'
  BY DEF Stands
<1>0. Undisturbed(q) /\ T!Asked(q)' = T!Asked(q)
  BY DEF Undisturbed, T!Asked
<1>1. T!Visible(q) \subseteq T!Visible(q)'
  BY DEF T!Visible, T!Rows, OnlyMore
<1>2. \A t \in T!Rows(TagIds) : t \in T!Rows(TagIds)' /\ tags'[t] = tags[t]
  BY DEF T!Rows, OnlyMore
<1>3. NamesThere(q)'
  BY <1>0, <1>1 DEF Stands, NamesThere
<1>4. ChosenNamed(q)'
  BY <1>0, <1>1 DEF Stands, ChosenNamed
<1>5. HadThere(q)'
  BY <1>0 DEF Stands, HadThere, OnlyMore
<1>6. Assigned(q)'
  BY <1>0, <1>2 DEF Stands, Assigned, OnlyMore
<1>7. Refused(q)'
  BY <1>0, <1>2 DEF Stands, Refused
<1> QED
  BY <1>3, <1>4, <1>5, <1>6, <1>7 DEF Stands

(* So a step of one assignment that only adds leaves the others standing.  *)
LEMMA OthersStand ==
  ASSUME OnlyMore, ReadsStand, NEW q \in Assigners,
         \A p \in Assigners \ {q} : asg'[p] = asg[p], Stands(q)'
  PROVE  ReadsStand'
<1>1. \A p \in Assigners \ {q} : Stands(p)'
  BY StandsOn DEF ReadsStand
<1> QED
  BY <1>1 DEF ReadsStand

(* After a disturbance nothing is claimed of the assignments under way.    *)
LEMMA NoneUndisturbed ==
  ASSUME T!TagsTypeOK, T!Disturb
  PROVE  ReadsStand'
<1>1. \A q \in Assigners : ~Undisturbed(q)'
  BY AssignmentDisturbed DEF Undisturbed
<1> QED
  BY <1>1 DEF ReadsStand, Stands

(* What is asked for, and what an assignment sees of it. *)
LEMMA AskedAre ==
  ASSUME NEW q \in Assigners, WellAssigned(asg[q])
  PROVE  /\ T!Asked(q) \subseteq T!Name
         /\ \A i \in DOMAIN asg[q].names : asg[q].names[i] \in T!Asked(q)
         /\ \A n \in T!Asked(q) : \E i \in DOMAIN asg[q].names : asg[q].names[i] = n
         /\ \A n, m \in T!Asked(q) : n.slug = m.slug => n = m
<1>1. asg[q].names \in T!NameLists
  BY DEF WellAssigned
<1> QED
  BY <1>1, NamesAsked DEF T!Asked

(* A match is missing because of another tag with the slug. *)
LEMMA MissingForCause ==
  ASSUME T!TagsTypeOK, MadeWell, NEW q \in Assigners, asg[q] # T!NoAssignment,
         NEW n \in T!Asked(q), \A m \in T!Matches(q) : m[2] # n,
         \E v \in T!Visible(q) : v[2].slug = n.slug
  PROVE  \E t \in T!Rows(TagIds) : T!Clash(n, tags[t])
<1>0. WellAssigned(asg[q])
  BY AtAssignment
<1>1. PICK v \in T!Visible(q) : v[2].slug = n.slug
  OBVIOUS
<1>2. v \notin asg[q].made
  <2> SUFFICES ASSUME v \in asg[q].made
               PROVE  FALSE
    OBVIOUS
  <2>1. v[2] \in T!Asked(q) /\ v \in TagIds \X T!Name
    BY <1>0, AskedAre DEF MadeWell, WellAssigned
  <2>2. v[2] = n
    BY <1>0, <1>1, <2>1, AskedAre
  <2>3. v \in T!Matches(q)
    BY <2>1, <2>2 DEF T!Matches, T!Visible
  <2> QED
    BY <2>2, <2>3
<1>3. PICK t \in T!Rows(TagIds) : v = <<t, tags[t]>>
  BY <1>1, <1>2 DEF T!Visible
<1>4. tags[t] # n
  <2> SUFFICES ASSUME tags[t] = n
               PROVE  FALSE
    OBVIOUS
  <2>1. v \in T!Matches(q) /\ v[2] = n
    BY <1>3 DEF T!Matches, T!Rows
  <2> QED
    BY <2>1
<1> QED
  BY <1>1, <1>3, <1>4 DEF T!Clash

(* What is read stays true while nobody disturbs it: each step of an       *)
(* assignment establishes what the next one relies on, and the steps of    *)
(* others only add.                                                        *)
LEMMA ReadsStandStep ==
  ASSUME T!TagsTypeOK, MadeWell, TodoOfNames, ReadsStand, TagEffect
  PROVE  ReadsStand'
<1>1. CASE UNCHANGED tagVars /\ PresentContacts \subseteq PresentContacts'
  <2>1. OnlyMore /\ \A q \in Assigners : asg'[q] = asg[q]
    BY <1>1 DEF tagVars, OnlyMore
  <2> QED
    BY <2>1, StandsOn DEF ReadsStand
<1>2. ASSUME NEW c \in ContactIds, T!ContactDeleted(c),
             PresentContacts \ {c} \subseteq PresentContacts'
      PROVE  ReadsStand'
  BY <1>2, NoneUndisturbed DEF T!ContactDeleted
<1>3. ASSUME NEW n \in T!Name, T!CreateTag(n),
             PresentContacts' = PresentContacts
      PROVE  ReadsStand'
  <2>1. OnlyMore
    BY <1>3, TagLeft DEF T!CreateTag, T!KeepItems, OnlyMore, T!TagsTypeOK
  <2>2. \A q \in Assigners : asg'[q] = asg[q]
    BY <1>3 DEF T!CreateTag
  <2> QED
    BY <2>1, <2>2, StandsOn DEF ReadsStand
<1>4. ASSUME NEW t \in TagIds, T!DeleteTag(t),
             PresentContacts' = PresentContacts
      PROVE  ReadsStand'
  BY <1>4, NoneUndisturbed DEF T!DeleteTag
<1>5. ASSUME NEW t \in TagIds, NEW n \in T!Name, T!RenameTag(t, n),
             PresentContacts' = PresentContacts
      PROVE  ReadsStand'
  BY <1>5, NoneUndisturbed DEF T!RenameTag
<1>6. ASSUME NEW c \in ContactIds, NEW S \in SUBSET T!Rows(TagIds),
             T!Unassign(c, S),
             PresentContacts' = PresentContacts
      PROVE  ReadsStand'
  BY <1>6, NoneUndisturbed DEF T!Unassign
<1>7. ASSUME NEW q \in Assigners, NEW c \in ContactIds, NEW s \in T!NameLists,
             T!Assign(q, c, s),
             PresentContacts' = PresentContacts
      PROVE  ReadsStand'
  <2>1. OnlyMore /\ UNCHANGED <<tags, items>>
    BY <1>7 DEF T!Assign, T!KeepTags, T!KeepItems, OnlyMore
  <2>2. \A p \in Assigners \ {q} : asg'[p] = asg[p]
    BY <1>7, AssignmentMoves DEF T!Assign, T!Move
  <2>3. Stands(q)'
    <3> DEFINE y == [at |-> "existing", contact |-> c, names |-> s, todo |-> {},
                     made |-> {}, chosen |-> {}, had |-> {}, disturbed |-> FALSE]
    <3>1. y.at = "existing"
      OBVIOUS
    <3> HIDE DEF y
    <3>2. T!Go(q, y)
      BY <1>7 DEF T!Assign, y
    <3>3. asg'[q].at = "existing"
      BY <3>1, <3>2, AssignmentMoves
    <3> QED
      BY <3>3 DEF Stands, NamesThere, ChosenNamed, HadThere, Assigned, Refused
  <2> QED
    BY <1>7, <2>1, <2>2, <2>3, OthersStand
<1>8. ASSUME NEW q \in Assigners, T!ReadExisting(q),
             PresentContacts' = PresentContacts
      PROVE  ReadsStand'
  <2>0. /\ asg[q] \in T!Assigning /\ asg[q] # T!NoAssignment
        /\ WellAssigned(asg[q])
    BY <1>8, AtAssignment DEF T!ReadExisting, T!TagsTypeOK, WellAssigned
  <2>1. OnlyMore /\ UNCHANGED <<tags, items>>
    BY <1>8 DEF T!ReadExisting, T!KeepTags, T!KeepItems, OnlyMore
  <2>2. \A p \in Assigners \ {q} : asg'[p] = asg[p]
    BY <1>8, AssignmentMoves DEF T!ReadExisting, T!Move
  <2> DEFINE S == {i \in DOMAIN asg[q].names : ~T!SlugTaken(asg[q].names[i].slug)}
  <2>a. CASE /\ \E t \in T!Rows(TagIds), n \in T!Asked(q) : T!Clash(n, tags[t])
             /\ T!Move(q, "refused")
    <3>1. asg'[q].at = "refused" /\ asg'[q].names = asg[q].names
      BY <2>0, <2>a, MovesTo
    <3>2. T!Asked(q)' = T!Asked(q) /\ T!Rows(TagIds)' = T!Rows(TagIds)
      BY <2>1, <3>1 DEF T!Asked, T!Rows
    <3>3. Refused(q)'
      BY <2>1, <2>a, <3>1, <3>2 DEF Refused
    <3>4. Stands(q)'
      BY <3>1, <3>3 DEF Stands, NamesThere, ChosenNamed, HadThere, Assigned
    <3> QED
      BY <1>8, <2>1, <2>2, <3>4, OthersStand
  <2>b. CASE T!Go(q, [asg[q] EXCEPT !.at = "create", !.todo = S])
    <3>1. /\ asg'[q].at = "create" /\ asg'[q].todo = S
          /\ asg'[q].names = asg[q].names /\ asg'[q].made = asg[q].made
          /\ asg'[q].disturbed = asg[q].disturbed
          /\ asg'[q].contact = asg[q].contact
          /\ asg'[q].chosen = asg[q].chosen
      <4> DEFINE y == [asg[q] EXCEPT !.at = "create", !.todo = S]
      <4>1. /\ y.at = "create" /\ y.todo = S /\ y.names = asg[q].names
            /\ y.made = asg[q].made /\ y.disturbed = asg[q].disturbed
            /\ y.contact = asg[q].contact /\ y.chosen = asg[q].chosen
        BY <2>0 DEF T!Assigning
      <4>2. T!Go(q, y)
        BY <2>b DEF T!ReadExisting
      <4> HIDE DEF y
      <4> QED
        BY <4>1, <4>2, AssignmentMoves
    <3>2. ASSUME NEW i \in DOMAIN asg[q].names \ S
          PROVE  \E v \in T!Visible(q)' : v[2].slug = asg[q].names[i].slug
      <4>1. T!SlugTaken(asg[q].names[i].slug)
        BY <3>2
      <4>2. PICK t \in T!Rows(TagIds) : tags[t].slug = asg[q].names[i].slug
        BY <4>1 DEF T!SlugTaken
      <4>3. <<t, tags[t]>> \in T!Visible(q)'
        BY <2>1, <4>2 DEF T!Visible, T!Rows
      <4> QED
        BY <4>2, <4>3
    <3> HIDE DEF S
    <3>3. NamesThere(q)'
      BY <3>1, <3>2 DEF NamesThere
    <3>4. Stands(q)'
      BY <3>1, <3>3 DEF Stands, ChosenNamed, HadThere, Assigned, Refused
    <3> QED
      BY <1>8, <2>1, <2>2, <3>4, OthersStand
  <2> QED
    BY <1>8, <2>a, <2>b DEF T!ReadExisting
<1>9. ASSUME NEW q \in Assigners, T!InsertTag(q),
             PresentContacts' = PresentContacts
      PROVE  ReadsStand'
  <2>0. /\ asg[q] \in T!Assigning /\ asg[q] # T!NoAssignment
        /\ WellAssigned(asg[q])
    BY <1>9, AtAssignment DEF T!InsertTag, T!TagsTypeOK, WellAssigned
  <2>1. OnlyMore /\ UNCHANGED <<tags, items>>
    BY <1>9 DEF T!InsertTag, T!KeepItems, OnlyMore
  <2>2. \A p \in Assigners \ {q} : asg'[p] = asg[p]
    BY <1>9, AssignmentMoves DEF T!InsertTag, T!Move
  <2>3. Stands(q)'
    <3> DEFINE n == asg[q].names[First(q)]
               A == asg[q].todo \ {First(q)}
               B == asg[q].made \cup {<<T!NextTag, n>>}
    <3>0. First(q) \in asg[q].todo /\ asg[q].at = "create"
      BY <1>9, FirstIs DEF T!InsertTag
    <3>1. \/ T!SlugTaken(n.slug) /\ T!Go(q, [asg[q] EXCEPT !.todo = A])
          \/ T!Go(q, [asg[q] EXCEPT !.todo = A, !.made = B])
      BY <1>9 DEF T!InsertTag, First
    <3>2. \/ T!SlugTaken(n.slug) /\ asg'[q] = [asg[q] EXCEPT !.todo = A]
          \/ asg'[q] = [asg[q] EXCEPT !.todo = A, !.made = B]
      BY <3>1, AssignmentMoves
    <3>a. <<T!NextTag, n>> \in B /\ asg[q].made \subseteq B
          /\ asg[q].todo \subseteq A \cup {First(q)}
      OBVIOUS
    <3> HIDE DEF A, B, n
    <3>3. /\ asg'[q].names = asg[q].names /\ asg'[q].at = "create"
          /\ asg'[q].todo = A /\ asg'[q].disturbed = asg[q].disturbed
          /\ \/ T!SlugTaken(n.slug) /\ asg'[q].made = asg[q].made
             \/ asg'[q].made = B
      <4>1. CASE T!SlugTaken(n.slug) /\ asg'[q] = [asg[q] EXCEPT !.todo = A]
        BY <2>0, <3>0, <4>1 DEF T!Assigning
      <4>2. CASE asg'[q] = [asg[q] EXCEPT !.todo = A, !.made = B]
        BY <2>0, <3>0, <4>2 DEF T!Assigning
      <4> QED
        BY <3>2, <4>1, <4>2
    <3>4. T!Visible(q) \subseteq T!Visible(q)'
      BY <2>1, <3>3, <3>a DEF T!Visible, T!Rows
    <3>5. \E v \in T!Visible(q)' : v[2].slug = n.slug
      <4>1. CASE T!SlugTaken(n.slug)
        <5>1. PICK t \in T!Rows(TagIds) : tags[t].slug = n.slug
          BY <4>1 DEF T!SlugTaken
        <5>2. <<t, tags[t]>> \in T!Visible(q)
          BY <5>1 DEF T!Visible
        <5> QED
          BY <3>4, <5>1, <5>2
      <4>2. CASE asg'[q].made = B
        <5>1. <<T!NextTag, n>> \in T!Visible(q)'
          BY <3>a, <4>2 DEF T!Visible
        <5>2. <<T!NextTag, n>>[2] = n
          OBVIOUS
        <5> QED
          BY <5>1, <5>2
      <4> QED
        BY <3>3, <4>1, <4>2
    <3>6. Undisturbed(q)' => NamesThere(q)'
      <4> SUFFICES ASSUME Undisturbed(q)', NEW i \in DOMAIN asg[q].names \ A
                   PROVE  \E v \in T!Visible(q)' : v[2].slug = asg[q].names[i].slug
        BY <3>3 DEF NamesThere
      <4>1. CASE i = First(q)
        BY <3>5, <4>1 DEF n
      <4>2. CASE i # First(q)
        <5>1. i \notin asg[q].todo /\ Undisturbed(q)
          BY <2>0, <3>3, <3>a, <4>2 DEF Undisturbed
        <5>2. \E v \in T!Visible(q) : v[2].slug = asg[q].names[i].slug
          BY <3>0, <5>1 DEF ReadsStand, Stands, NamesThere
        <5> QED
          BY <3>4, <5>2
      <4> QED
        BY <4>1, <4>2
    <3> QED
      BY <3>3, <3>6 DEF Stands, ChosenNamed, HadThere, Assigned, Refused
  <2> QED
    BY <1>9, <2>1, <2>2, <2>3, OthersStand
<1>10. ASSUME NEW q \in Assigners, T!AllInserted(q),
             PresentContacts' = PresentContacts
      PROVE  ReadsStand'
  <2>0. /\ asg[q] \in T!Assigning /\ asg[q] # T!NoAssignment
        /\ WellAssigned(asg[q])
    BY <1>10, AtAssignment DEF T!AllInserted, T!TagsTypeOK, WellAssigned
  <2>1. OnlyMore /\ UNCHANGED <<tags, items>>
    BY <1>10 DEF T!AllInserted, T!KeepTags, T!KeepItems, OnlyMore
  <2>2. \A p \in Assigners \ {q} : asg'[p] = asg[p]
    BY <1>10, AssignmentMoves DEF T!AllInserted, T!Move
  <2>3. Stands(q)'
    <3>1. /\ asg'[q].at = "reread" /\ asg'[q].names = asg[q].names
          /\ asg'[q].todo = asg[q].todo /\ asg'[q].made = asg[q].made
          /\ asg'[q].disturbed = asg[q].disturbed /\ asg[q].at = "create"
      BY <1>10, <2>0, MovesTo DEF T!AllInserted
    <3>2. T!Visible(q)' = T!Visible(q)
      BY <2>1, <3>1 DEF T!Visible, T!Rows
    <3>3. Undisturbed(q)' => NamesThere(q)'
      BY <2>0, <3>1, <3>2 DEF ReadsStand, Stands, Undisturbed, NamesThere
    <3> QED
      BY <3>1, <3>3
         DEF Stands, NamesThere, ChosenNamed, HadThere, Assigned, Refused
  <2> QED
    BY <1>10, <2>1, <2>2, <2>3, OthersStand
<1>11. ASSUME NEW q \in Assigners, T!Reread(q),
             PresentContacts' = PresentContacts
      PROVE  ReadsStand'
  <2>0. /\ asg[q] \in T!Assigning /\ asg[q] # T!NoAssignment
        /\ WellAssigned(asg[q])
    BY <1>11, AtAssignment DEF T!Reread, T!TagsTypeOK, WellAssigned
  <2>1. OnlyMore /\ UNCHANGED <<tags, items>>
    BY <1>11 DEF T!Reread, T!KeepTags, T!KeepItems, OnlyMore
  <2>2. \A p \in Assigners \ {q} : asg'[p] = asg[p]
    BY <1>11, AssignmentMoves DEF T!Reread, T!Move
  <2> DEFINE S == {m[1] : m \in T!Matches(q)}
  <2>a. CASE /\ \E n \in T!Asked(q) : \A m \in T!Matches(q) : m[2] # n
             /\ T!Move(q, "refused")
    <3>1. /\ asg'[q].at = "refused" /\ asg'[q].names = asg[q].names
          /\ asg'[q].disturbed = asg[q].disturbed
      BY <2>0, <2>a, MovesTo
    <3>2. T!Asked(q)' = T!Asked(q) /\ T!Rows(TagIds)' = T!Rows(TagIds)
      BY <2>1, <3>1 DEF T!Asked, T!Rows
    <3>3. ASSUME Undisturbed(q)'
          PROVE  Refused(q)'
      <4>0. Undisturbed(q) /\ asg[q].todo = {} /\ asg[q].at = "reread"
        BY <1>11, <2>0, <3>1, <3>3 DEF Undisturbed, TodoOfNames, T!Reread
      <4>1. PICK n \in T!Asked(q) : \A m \in T!Matches(q) : m[2] # n
        BY <2>a
      <4>2. PICK i \in DOMAIN asg[q].names : asg[q].names[i] = n
        BY <2>0, AskedAre
      <4>3. \E v \in T!Visible(q) : v[2].slug = n.slug
        BY <4>0, <4>2 DEF ReadsStand, Stands, NamesThere
      <4>4. \E t \in T!Rows(TagIds) : T!Clash(n, tags[t])
        BY <2>0, <4>1, <4>3, MissingForCause
      <4> QED
        BY <2>1, <3>1, <3>2, <4>4 DEF Refused
    <3>4. Stands(q)'
      BY <3>1, <3>3 DEF Stands, NamesThere, ChosenNamed, HadThere, Assigned
    <3> QED
      BY <1>11, <2>1, <2>2, <3>4, OthersStand
  <2>b. CASE /\ \A n \in T!Asked(q) : \E m \in T!Matches(q) : m[2] = n
             /\ T!Go(q, [asg[q] EXCEPT !.at = "items", !.chosen = S])
    <3>1. /\ asg'[q].at = "items" /\ asg'[q].chosen = S
          /\ asg'[q].names = asg[q].names /\ asg'[q].made = asg[q].made
          /\ asg'[q].disturbed = asg[q].disturbed
          /\ asg'[q].contact = asg[q].contact
          /\ asg'[q].todo = asg[q].todo
      <4> DEFINE y == [asg[q] EXCEPT !.at = "items", !.chosen = S]
      <4>1. /\ y.at = "items" /\ y.chosen = S /\ y.names = asg[q].names
            /\ y.made = asg[q].made /\ y.disturbed = asg[q].disturbed
            /\ y.contact = asg[q].contact /\ y.todo = asg[q].todo
        BY <2>0 DEF T!Assigning
      <4>2. T!Go(q, y)
        BY <2>b DEF T!Reread
      <4> HIDE DEF y
      <4> QED
        BY <4>1, <4>2, AssignmentMoves
    <3>2. T!Visible(q)' = T!Visible(q) /\ T!Asked(q)' = T!Asked(q)
      BY <2>1, <3>1 DEF T!Visible, T!Rows, T!Asked
    <3>3. \A m \in T!Matches(q) : /\ m[1] \in S /\ m[2] \in T!Asked(q)
                                  /\ <<m[1], m[2]>> \in T!Visible(q)
      BY DEF T!Matches
    <3>4. \A t \in S : \E m \in T!Matches(q) : m[1] = t
      OBVIOUS
    <3> HIDE DEF S
    <3>5. ChosenNamed(q)'
      <4>1. ASSUME NEW n \in T!Asked(q)
            PROVE  \E t \in S : <<t, n>> \in T!Visible(q)
        <5>1. PICK m \in T!Matches(q) : m[2] = n
          BY <2>b
        <5> QED
          BY <3>3, <5>1
      <4>2. ASSUME NEW t \in S
            PROVE  \E n \in T!Asked(q) : <<t, n>> \in T!Visible(q)
        <5>1. PICK m \in T!Matches(q) : m[1] = t
          BY <3>4
        <5> QED
          BY <3>3, <5>1
      <4> QED
        BY <3>1, <3>2, <4>1, <4>2 DEF ChosenNamed
    <3>6. Stands(q)'
      BY <3>1, <3>5 DEF Stands, NamesThere, HadThere, Assigned, Refused
    <3> QED
      BY <1>11, <2>1, <2>2, <3>6, OthersStand
  <2> QED
    BY <1>11, <2>a, <2>b DEF T!Reread
<1>12. ASSUME NEW q \in Assigners, T!ReadItems(q),
             PresentContacts' = PresentContacts
      PROVE  ReadsStand'
  <2>0. /\ asg[q] \in T!Assigning /\ asg[q] # T!NoAssignment
        /\ WellAssigned(asg[q])
    BY <1>12, AtAssignment DEF T!ReadItems, T!TagsTypeOK, WellAssigned
  <2>1. OnlyMore /\ UNCHANGED <<tags, items>>
    BY <1>12 DEF T!ReadItems, T!KeepTags, T!KeepItems, OnlyMore
  <2>2. \A p \in Assigners \ {q} : asg'[p] = asg[p]
    BY <1>12, AssignmentMoves DEF T!ReadItems, T!Move
  <2> DEFINE S == {t \in asg[q].chosen : <<t, asg[q].contact>> \in items}
  <2>3. Stands(q)'
    <3>1. /\ asg'[q].at = "commit" /\ asg'[q].had = S
          /\ asg'[q].names = asg[q].names /\ asg'[q].made = asg[q].made
          /\ asg'[q].disturbed = asg[q].disturbed
          /\ asg'[q].contact = asg[q].contact
          /\ asg'[q].chosen = asg[q].chosen
      <4> DEFINE y == [asg[q] EXCEPT !.at = "commit", !.had = S]
      <4>1. /\ y.at = "commit" /\ y.had = S /\ y.names = asg[q].names
            /\ y.made = asg[q].made /\ y.disturbed = asg[q].disturbed
            /\ y.contact = asg[q].contact /\ y.chosen = asg[q].chosen
        BY <2>0 DEF T!Assigning
      <4>2. T!Go(q, y)
        BY <1>12 DEF T!ReadItems
      <4> HIDE DEF y
      <4> QED
        BY <4>1, <4>2, AssignmentMoves
    <3>2. T!Visible(q)' = T!Visible(q) /\ T!Asked(q)' = T!Asked(q)
      BY <2>1, <3>1 DEF T!Visible, T!Rows, T!Asked
    <3>3. HadThere(q)'
      BY <2>1, <3>1 DEF HadThere
    <3> HIDE DEF S
    <3>4. Undisturbed(q)' => ChosenNamed(q)'
      BY <1>12, <2>0, <3>1, <3>2
         DEF T!ReadItems, ReadsStand, Stands, Undisturbed, ChosenNamed
    <3> QED
      BY <3>1, <3>3, <3>4 DEF Stands, NamesThere, Assigned, Refused
  <2> QED
    BY <1>12, <2>1, <2>2, <2>3, OthersStand
<1>13. ASSUME NEW q \in Assigners, T!CommitAssignment(q),
             PresentContacts' = PresentContacts
      PROVE  ReadsStand'
  <2>0. /\ asg[q] \in T!Assigning /\ asg[q] # T!NoAssignment
        /\ WellAssigned(asg[q])
    BY <1>13, AtAssignment DEF T!CommitAssignment, T!TagsTypeOK, WellAssigned
  <2>a. T!Running(q) /\ asg[q].at = "commit"
    BY <1>13 DEF T!CommitAssignment, T!Running
  <2> DEFINE c == asg[q].contact
             own == {m[1] : m \in asg[q].made}
             new == (asg[q].chosen \ asg[q].had) \X {c}
  <2>1. \A p \in Assigners \ {q} : asg'[p] = asg[p]
    BY <1>13, AssignmentMoves DEF T!CommitAssignment, T!Move
  <2>2. CASE /\ Writes(q) /\ T!Move(q, "assigned")
             /\ \A x \in new : x[1] \in own \/ tags[x[1]] # NoTag
    <3>1. /\ \A m \in asg[q].made : tags'[m[1]] = m[2]
          /\ \A t \in TagIds \ own : tags'[t] = tags[t]
      BY <2>0, <2>2, WritesMade
    <3>2. \A m \in asg[q].made : /\ m[1] \in TagIds /\ tags[m[1]] = NoTag
                                 /\ m[2] # NoTag
      BY <2>0, <2>a, TagShape DEF MadeWell, WellAssigned
    <3>3. items' = items \cup new
      BY <2>2 DEF Writes
    <3>4. OnlyMore
      BY <3>1, <3>2, <3>3 DEF OnlyMore
    <3>5. /\ asg'[q].at = "assigned" /\ asg'[q].names = asg[q].names
          /\ asg'[q].contact = asg[q].contact
          /\ asg'[q].disturbed = asg[q].disturbed
      BY <2>0, <2>2, MovesTo
    <3>6. T!Asked(q)' = T!Asked(q)
      BY <3>5 DEF T!Asked
    <3>7. ASSUME Undisturbed(q)', NEW n \in T!Asked(q)
          PROVE  \E t \in T!Rows(TagIds)' : tags'[t] = n /\ <<t, c>> \in items'
      <4>0. ChosenNamed(q) /\ HadThere(q)
        BY <2>0, <3>5, <3>7 DEF ReadsStand, Stands, Undisturbed
      <4>1. PICK t \in asg[q].chosen : <<t, n>> \in T!Visible(q)
        BY <2>a, <4>0 DEF ChosenNamed
      <4>2. t \in TagIds /\ n # NoTag
        BY <2>0, <4>1, AskedAre, TagShape DEF WellAssigned
      <4>3. tags'[t] = n
        <5>1. CASE <<t, n>> \in asg[q].made
          <6>1. <<t, n>>[1] = t /\ <<t, n>>[2] = n
            OBVIOUS
          <6> QED
            BY <3>1, <5>1, <6>1
        <5>2. CASE t \in T!Rows(TagIds) /\ tags[t] = n
          BY <3>4, <4>2, <5>2 DEF OnlyMore, T!Rows
        <5> QED
          BY <4>1, <5>1, <5>2 DEF T!Visible
      <4>4. <<t, c>> \in items'
        BY <2>a, <3>3, <4>0, <4>1 DEF HadThere
      <4> QED
        BY <4>2, <4>3, <4>4 DEF T!Rows
    <3>8. Undisturbed(q)' => Assigned(q)'
      BY <3>5, <3>6, <3>7 DEF Assigned
    <3>9. Stands(q)'
      BY <3>5, <3>8 DEF Stands, NamesThere, ChosenNamed, HadThere, Refused
    <3> QED
      BY <2>1, <3>4, <3>9, OthersStand
  <2>3. CASE /\ T!Move(q, "failed") /\ UNCHANGED tags /\ T!KeepItems
             /\ ~ \A x \in new : x[1] \in own \/ tags[x[1]] # NoTag
    <3>1. OnlyMore
      BY <2>3 DEF OnlyMore, T!KeepItems
    <3>2. asg'[q].disturbed = asg[q].disturbed
      BY <2>0, <2>3, MovesTo
    <3>3. ASSUME Undisturbed(q)
          PROVE  FALSE
      <4>1. PICK x \in new : x[1] \notin own /\ tags[x[1]] = NoTag
        BY <2>3
      <4>2. x[1] \in asg[q].chosen
        BY <4>1
      <4>3. PICK n \in T!Asked(q) : <<x[1], n>> \in T!Visible(q)
        BY <2>a, <3>3, <4>2 DEF ReadsStand, Stands, ChosenNamed
      <4>4. <<x[1], n>>[1] = x[1]
        OBVIOUS
      <4> QED
        BY <4>1, <4>3, <4>4 DEF T!Visible, T!Rows
    <3>4. Stands(q)'
      BY <2>0, <3>2, <3>3 DEF Stands, Undisturbed
    <3> QED
      BY <2>1, <3>1, <3>4, OthersStand
  <2> QED
    BY <1>13, <2>2, <2>3 DEF T!CommitAssignment, Writes
<1>14. ASSUME NEW q \in Assigners, T!Answer(q),
             PresentContacts' = PresentContacts
      PROVE  ReadsStand'
  <2>1. OnlyMore /\ UNCHANGED <<tags, items>>
    BY <1>14 DEF T!Answer, T!KeepTags, T!KeepItems, OnlyMore
  <2>2. \A p \in Assigners \ {q} : asg'[p] = asg[p]
    BY <1>14, AssignmentMoves DEF T!Answer, T!Move
  <2>3. Stands(q)'
    <3>1. asg'[q] = T!NoAssignment
      BY <1>14, AssignmentMoves DEF T!Answer
    <3> QED
      BY <3>1 DEF Stands, Undisturbed
  <2> QED
    BY <1>14, <2>1, <2>2, <2>3, OthersStand
<1>15. ASSUME NEW q \in Assigners, T!Abort(q),
             PresentContacts' = PresentContacts
      PROVE  ReadsStand'
  <2>1. OnlyMore /\ UNCHANGED <<tags, items>>
    BY <1>15 DEF T!Abort, T!KeepTags, T!KeepItems, OnlyMore
  <2>2. \A p \in Assigners \ {q} : asg'[p] = asg[p]
    BY <1>15, AssignmentMoves DEF T!Abort, T!Move
  <2>3. Stands(q)'
    <3>1. asg'[q] = T!NoAssignment
      BY <1>15, AssignmentMoves DEF T!Abort
    <3> QED
      BY <3>1 DEF Stands, Undisturbed
  <2> QED
    BY <1>15, <2>1, <2>2, <2>3, OthersStand
<1> QED
  BY ONLY <1>1, <1>2, <1>3, <1>4, <1>5, <1>6, <1>7, <1>8, <1>9, <1>10, <1>11,
          <1>12, <1>13, <1>14, <1>15, TagEffect
          DEF TagEffect, TagNext

(* Tags keep their invariant.                                              *)
LEMMA TagInvStep ==
  ASSUME TagInv, TagEffect
  PROVE  TagInv'
<1>1. /\ T!TagsTypeOK /\ MadeWell /\ TodoOfNames /\ ReadsStand
      /\ ItemsFollowContacts
  BY DEF TagInv
<1> QED
  BY <1>1, TagsTypeStep, MadeWellStep, TodoOfNamesStep, ReadsStandStep,
     ItemsFollowStep DEF TagInv

(* AnswersTrue is what ReadsStand says of an assignment that has           *)
(* answered.                                                               *)
LEMMA AnswersByReads ==
  ASSUME TagInv
  PROVE  AnswersTrue
<1>1. ASSUME NEW q \in Assigners, asg[q].at \in {"assigned", "refused",
             "failed"},
             ~asg[q].disturbed
      PROVE  Assigned(q) /\ Refused(q)
  <2>1. asg[q] # T!NoAssignment
    BY <1>1 DEF T!NoAssignment
  <2> QED
    BY <1>1, <2>1 DEF TagInv, ReadsStand, Stands, Undisturbed
<1> QED
  BY <1>1
     DEF AnswersTrue, T!AnswersTrue, T!AssignmentTakesEffect,
         T!RefusedForCause,
     Assigned, Refused

(* Accounts keep their invariant.                                          *)
LEMMA NameInvStep ==
  ASSUME ContactInv, NameInv, Next
  PROVE  NameInv'
<1>1. ContactsTypeOK /\ PutsOne /\ DeletesContacts
  BY DEF ContactInv
<1> QED
  BY <1>1, NamesTypeStep, ReservedStep, KnownRowsStep, AccountsWholeStep
     DEF NameInv

(* Requests are counted up to the bound.                                   *)
LEMMA RequestsStep ==
  ASSUME requests \in 0..MaxRequests, Next
  PROVE  requests' \in 0..MaxRequests
<1>1. \/ requests' = requests
      \/ requests < MaxRequests /\ requests' = requests + 1
  <2>1. CASE Receive
    BY <2>1 DEF Receive
  <2>2. CASE Step
    BY <2>2 DEF Step
  <2>3. ASSUME NEW q \in Requests, DeleteContact(q) \/ SaveRow(q)
        PROVE  requests' = requests
    BY <2>3 DEF DeleteContact, SaveRow
  <2>4. ASSUME NEW q \in Requests, NEW u \in UserIds, DeleteAccount(q, u)
        PROVE  requests < MaxRequests /\ requests' = requests + 1
    BY <2>4 DEF DeleteAccount
  <2> QED
    BY <2>1, <2>2, <2>3, <2>4 DEF Next
<1> QED
  BY <1>1, RecordsAssumption

(* At first there is a contact, a user and an avatar, and nothing is       *)
(* under way.                                                              *)
LEMMA InvInit ==
  ASSUME Init
  PROVE  IInv
<1> DEFINE c == Fresh(ContactIds, {})
           u == Fresh(UserIds, {})
           a == Fresh(Avatars, {})
<1>1. c \in ContactIds /\ u \in UserIds /\ a \in Avatars
  BY FreshIs, ContactsAssumption
<1>2. c # u /\ a # NoAvatar /\ c \in Owners /\ u \in Owners /\ c \notin UserIds
      /\ u \notin ContactIds
  BY <1>1, ContactsAssumption DEF Owners
<1>3. 0 \in Names
  BY UsersFinite DEF Names
<1> HIDE DEF c, u, a
<1>4. PICK x \in Texts :
        LET row == [name |-> 0, text |-> x, avatar |-> NoAvatar] IN
        /\ rows = [o \in Owners |-> IF o = c THEN [row EXCEPT !.avatar = a] ELSE
                                    IF o = u THEN row ELSE NoRow]
        /\ created = {c, u} /\ files = {a} /\ drawn = {a}
        /\ req = [q \in Requests |-> Idle]
        /\ overwritten = {} /\ stray = {}
  BY DEF Init, ContactsInit, c, u, a
<1>5. /\ rows[c] \in Row /\ rows[u] \in Row /\ rows[c].avatar = a
      /\ rows[u].avatar = NoAvatar /\ rows[u].name = 0
      /\ \A o \in Owners \ {c, u} : rows[o] = NoRow
      /\ rows \in [Owners -> Row \cup {NoRow}]
  BY <1>1, <1>2, <1>3, <1>4 DEF Row
<1>6. Present = {c, u} /\ PresentContacts = {c}
  BY <1>1, <1>2, <1>5, NoRowAssumption DEF Present, PresentContacts
<1>7. \A q \in Requests : /\ req[q] = Idle /\ Sees(q) = NoAvatar /\ ~About(q)
                          /\ Puts(q) = NoAvatar /\ Drops(q) = NoAvatar
                          /\ req[q].at = "idle"
  <2>1. ASSUME NEW q \in Requests
        PROVE  req[q] = Idle /\ req[q].at = "idle"
    BY <1>4 DEF Idle
  <2>2. ASSUME NEW q \in Requests
        PROVE  ~About(q) /\ ~Cleans(q)
    BY <2>1, RequestShape DEF WellFormed, About, Cleans, Idle
  <2> QED
    BY <2>1, <2>2 DEF Sees, Puts, Drops
<1>8. ContactsTypeOK
  BY <1>1, <1>2, <1>4, <1>5, <1>6 DEF ContactsTypeOK, Kin
<1>9. Current(c) = a /\ \A o \in Owners \ {c} : Current(o) = NoAvatar
  BY <1>1, <1>2, <1>5, NoRowAssumption DEF Current
<1>10. ContactInv
  <2>1. AvatarsDrawn /\ NewUnknown /\ OneOwner /\ OldReplaced
    BY <1>4, <1>7, <1>9 DEF AvatarsDrawn, NewUnknown, OneOwner, OldReplaced
  <2>2. NamedThere /\ FilesNamed /\ PutsOne /\ DeletesContacts
    BY <1>2, <1>4, <1>7, <1>9
       DEF NamedThere, FilesNamed, PutsOne, DeletesContacts
  <2> QED
    BY <1>8, <2>1, <2>2 DEF ContactInv
<1>11. NameInv
  <2>1. /\ personal = [v \in UserIds |-> IF rows[v] = NoRow THEN NoOrg
                                         ELSE [slug |-> 0, name |-> rows[v].name]]
        /\ groups = {} /\ act = [r \in Registrars |-> N!NoAct]
    BY DEF Init, N!NamesInit
  <2>2. [slug |-> 0, name |-> 0] \in N!Org
    BY <1>3 DEF N!Org
  <2>3. /\ personal[u] = [slug |-> 0, name |-> 0] /\ personal[u] # NoOrg
        /\ \A v \in UserIds \ {u} : personal[v] = NoOrg
        /\ personal \in [UserIds -> N!Org \cup {NoOrg}]
    BY <1>1, <1>2, <1>5, <2>1, <2>2, NoRowAssumption, RowShape DEF Owners
  <2>4. N!NamesTypeOK
    BY <2>1, <2>3 DEF N!NamesTypeOK
  <2>5. Reserved
    BY <2>1 DEF Reserved, N!Pending, N!NoAct
  <2>6. KnownRows
    BY <1>1, <1>4, <1>7, <2>3 DEF KnownRows
  <2>7. AccountsWhole
    BY <1>1, <1>2, <1>5, <1>6, <2>3 DEF AccountsWhole
  <2> QED
    BY <2>4, <2>5, <2>6, <2>7 DEF NameInv
<1>12. TagInv
  <2> DEFINE t == CHOOSE v \in TagIds : TRUE
  <2>1. t \in TagIds
    BY RecordsAssumption
  <2> HIDE DEF t
  <2>2. PICK n \in T!Name, C \in SUBSET PresentContacts :
          /\ tags = [v \in TagIds |-> IF v = t THEN n ELSE NoTag]
          /\ drawnTags = {t} /\ items = {t} \X C /\ late = {}
          /\ asg = [q \in Assigners |-> T!NoAssignment]
    BY DEF Init, T!TagsInit, t
  <2>3. \A q \in Assigners : asg[q] = T!NoAssignment
    BY <2>2
  <2>4. n # NoTag /\ PresentContacts \subseteq ContactIds
    BY TagShape DEF PresentContacts
  <2>5. T!TagsTypeOK
    BY <2>1, <2>2, <2>4 DEF T!TagsTypeOK, T!Rows
  <2>6. MadeWell /\ TodoOfNames /\ ReadsStand
    BY <2>3 DEF MadeWell, TodoOfNames, ReadsStand, Stands, Undisturbed
  <2>7. ItemsFollowContacts
    BY <2>2 DEF ItemsFollowContacts, T!ItemsFollowContacts
  <2> QED
    BY <2>5, <2>6, <2>7 DEF TagInv
<1>13. requests \in 0..MaxRequests
  BY RecordsAssumption DEF Init
<1> QED
  BY <1>10, <1>11, <1>12, <1>13 DEF IInv

(* Every step keeps the invariant.                                         *)
LEMMA InvStep ==
  ASSUME IInv, [Next]_vars
  PROVE  IInv'
<1>1. CASE Next
  <2>0. ContactInv /\ NameInv /\ TagInv /\ requests \in 0..MaxRequests
    BY DEF IInv
  <2>1. TagEffect
    BY <1>1, <2>0, TagEffects DEF ContactInv
  <2> QED
    BY <1>1, <2>0, <2>1, ContactInvStep, NameInvStep, TagInvStep, RequestsStep
       DEF IInv
<1>2. CASE UNCHANGED vars
  <2>0. ContactInv /\ NameInv /\ TagInv /\ requests \in 0..MaxRequests
    BY DEF IInv
  <2>1. UNCHANGED contactVars /\ UNCHANGED nameVars /\ UNCHANGED tagVars
        /\ requests' = requests
    BY <1>2 DEF vars
  <2>2. ContactInv'
    BY <2>0, <2>1
       DEF contactVars, ContactInv, ContactsTypeOK, Present, AvatarsDrawn,
       NewUnknown, OneOwner, OldReplaced, NamedThere, FilesNamed, PutsOne,
       DeletesContacts, Current, Sees, Puts, Drops, About, Cleans
  <2>3. NameInv'
    BY <2>0, <2>1 DEF contactVars, nameVars, NameInv, N!NamesTypeOK, Reserved,
       KnownRows, AccountsWhole, N!Pending, N!Usernames, N!Users, N!OrgSlugs, About,
       Present
  <2>4. TagInv'
    <3>1. PresentContacts' = PresentContacts
      BY <2>1 DEF contactVars, PresentContacts, Present
    <3>2. TagEffect
      BY <2>1, <3>1 DEF TagEffect
    <3> QED
      BY <2>0, <3>2, TagInvStep
  <2> QED
    BY <2>0, <2>1, <2>2, <2>3, <2>4 DEF IInv
<1> QED
  BY <1>1, <1>2

(* IInv is invariant.                                                      *)
THEOREM Inductive == Spec => []IInv
<1>1. Init => IInv
  BY InvInit
<1>2. IInv /\ [Next]_vars => IInv'
  BY InvStep
<1> QED
  BY <1>1, <1>2, PTL DEF Spec

(* TypeOK holds, for any contacts, users, names and avatars.               *)
THEOREM TypeCorrect == Spec => []TypeOK
<1>1. IInv => TypeOK
  BY DEF IInv, ContactInv, NameInv, TagInv, TypeOK
<1> QED
  BY <1>1, Inductive, PTL

(* AvatarFilesMatch: a row that no full save has overwritten names an      *)
(* avatar whose file is there, and a file that nobody will delete is       *)
(* explained (avatar.py:34-43).                                            *)
THEOREM AvatarsMatch == Spec => []AvatarFilesMatch
<1>1. IInv => AvatarFilesMatch
  BY MatchesByNames DEF IInv
<1> QED
  BY <1>1, Inductive, PTL

(* AccountsWhole: in all interleavings of registrations, renames, saves    *)
(* and deletions (accounts/models.py:64-70, username.py:43-57).            *)
THEOREM AccountsStayWhole == Spec => []AccountsWhole
<1>1. IInv => AccountsWhole
  BY DEF IInv, NameInv
<1> QED
  BY <1>1, Inductive, PTL

(* ItemsFollowContacts: an item of a contact that is gone was assigned     *)
(* late.                                                                   *)
THEOREM ItemsFollow == Spec => []ItemsFollowContacts
<1>1. IInv => ItemsFollowContacts
  BY DEF IInv, TagInv
<1> QED
  BY <1>1, Inductive, PTL

(* AnswersTrue: an assignment that nobody disturbs has the effect it       *)
(* answers, and is refused only for a tag that clashes                     *)
(* (tags/services.py).                                                     *)
THEOREM AnswersStayTrue == Spec => []AnswersTrue
<1>1. IInv => AnswersTrue
  BY AnswersByReads DEF IInv
<1> QED
  BY <1>1, Inductive, PTL

=============================================================================
