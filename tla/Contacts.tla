------------------------------ MODULE Contacts ------------------------------
(***************************************************************************)
(* The contacts of an organization, and the avatars of contacts and users: *)
(* contacts/api.py, contacts/services.py, core/utils/avatar.py and         *)
(* accounts/users_api.py.  Both have the same row here: its name is the    *)
(* slug of a contact, or the username of a user.                           *)
(*                                                                         *)
(* A route reads its row without a lock, works on the row it has read, *)
(* and writes later.  PUT and PATCH write the whole row; the avatar routes *)
(* only its path.  An avatar stands for the two files of one upload.  The  *)
(* name n stands for the n-th candidate of one display name: the base, the *)
(* base with -1, ...; a random suffix may give any of them.                *)
(***************************************************************************)
EXTENDS Naturals, FiniteSets

CONSTANTS
    Requests,      \* requests being served at the same time
    ContactIds, UserIds, Avatars,
    NoRow, NoAvatar,
    Texts,         \* values of the other fields
    Unset,         \* a PATCH without the field
    Attempts       \* inserts of a creation, 5 in the code

ASSUME ContactsAssumption ==
    /\ ContactIds # {} /\ UserIds # {} /\ Avatars # {}
    /\ ContactIds \cap UserIds = {}
    /\ IsFiniteSet(ContactIds) /\ IsFiniteSet(UserIds)
    /\ Cardinality(ContactIds) <= Cardinality(UserIds)
    /\ NoAvatar \notin Avatars /\ Unset \notin Texts
    /\ Attempts \in Nat \ {0}

Owners == ContactIds \cup UserIds
Names == 0..Cardinality(UserIds)
Row == [name : Names, text : Texts, avatar : Avatars \cup {NoAvatar}]

ASSUME NoRowAssumption == NoRow \notin Row

VARIABLES
    rows,         \* Contact and User rows by primary key
    created,      \* primary keys that have been given out
    files,        \* avatars in the public bucket
    drawn,        \* avatars whose name has been drawn
    req,          \* requests
    overwritten,  \* history: those whose name or avatar a stale row has set
                  \* back, or whose avatar went after a lost reply
    stray         \* history: avatars left by an error, a killed request or
                  \* two requests that read the same row

contactVars == <<rows, created, files, drawn, req, overwritten, stray>>

Idle == [at |-> "idle"]
Creation ==
    [at : {"insert"}, name : Names, text : Texts, tried : 0..(Attempts - 1)]
Routed ==
    [at : {"save", "put", "save_avatar", "clear_avatar", "delete"},
     contact : Owners, seen : Row, text : Texts \cup {Unset},
     new : Avatars \cup {NoAvatar}]
Cleaning == [at : {"cleanup"}, old : Avatars]

Present == {c \in Owners : rows[c] # NoRow}
PresentContacts == Present \cap ContactIds
Kin(c) == IF c \in ContactIds THEN ContactIds ELSE UserIds
Taken(S) == {rows[c].name : c \in Present \cap S}
Referenced == {rows[c].avatar : c \in Present} \ {NoAvatar}

ContactsTypeOK ==
    /\ rows \in [Owners -> Row \cup {NoRow}]
    /\ Present \subseteq created /\ created \subseteq Owners
    /\ files \subseteq drawn /\ drawn \subseteq Avatars
    /\ req \in [Requests -> {Idle} \cup Creation \cup Routed \cup Cleaning]
    /\ overwritten \subseteq Owners /\ stray \subseteq Avatars
    /\ \A c, d \in Present :
         Kin(c) = Kin(d) /\ rows[c].name = rows[d].name => c = d

(* Keys and file names are drawn one after the other, none twice. *)
Fresh(S, used) == CHOOSE x \in S \ used : TRUE

(* A user is there, and a contact with an avatar. *)
ContactsInit ==
    \E x \in Texts :
        LET c == Fresh(ContactIds, {})
            u == Fresh(UserIds, {})
            a == Fresh(Avatars, {})
            row == [name |-> 0, text |-> x, avatar |-> NoAvatar]
        IN
        /\ rows = [o \in Owners |-> IF o = c THEN [row EXCEPT !.avatar = a] ELSE
                                    IF o = u THEN row ELSE NoRow]
        /\ created = {c, u} /\ files = {a} /\ drawn = {a}
        /\ req = [q \in Requests |-> Idle]
        /\ overwritten = {} /\ stray = {}

(* The avatar of a row, and the one that is written over unseen. *)
Current(c) == IF rows[c] = NoRow THEN NoAvatar ELSE rows[c].avatar
SetsBack(q) ==
    LET now == rows[req[q].contact]
        seen == req[q].seen
    IN  now = NoRow \/ <<now.name, now.avatar>> # <<seen.name, seen.avatar>>
Lose(q) ==
    stray' = stray \cup ({Current(req[q].contact)}
                          \ {NoAvatar, req[q].seen.avatar})

Go(q, r) == req' = [req EXCEPT ![q] = r]
Active(q) == req[q] # Idle
KeepBucket == UNCHANGED <<files, drawn, stray>>
KeepRows == UNCHANGED <<rows, created, overwritten>>

-----------------------------------------------------------------------------
(* Creation                                                                *)

(* unique_contact_slug, make_it_unique: the first candidate that is not in *)
(* use.                                                                    *)
FirstFree(used) == CHOOSE n \in Names : /\ n \notin used
                                        /\ \A m \in 0..(n - 1) : m \in used

BeginCreate(q, x) ==
    /\ ~Active(q)
    /\ Go(q, [at |-> "insert", name |-> FirstFree(Taken(ContactIds)),
              text |-> x, tried |-> 0])
    /\ KeepRows /\ KeepBucket

Insert(q) ==
    LET c == Fresh(ContactIds, created) IN
    /\ req[q].at = "insert" /\ req[q].name \notin Taken(ContactIds)
    /\ ~ ContactIds \subseteq created
    /\ rows' = [rows EXCEPT ![c] = [name |-> req[q].name, text |-> req[q].text,
                                    avatar |-> NoAvatar]]
    /\ created' = created \cup {c}
    /\ Go(q, Idle)
    /\ UNCHANGED overwritten /\ KeepBucket

(* Somebody took the slug: again with a random suffix, or 409. *)
InsertConflicts(q, n) ==
    /\ req[q].at = "insert" /\ req[q].name \in Taken(ContactIds)
    /\ Go(q, IF req[q].tried + 1 < Attempts
             THEN [req[q] EXCEPT !.name = n, !.tried = @ + 1] ELSE Idle)
    /\ KeepRows /\ KeepBucket

-----------------------------------------------------------------------------
(* PUT and PATCH                                                           *)

(* The contact is found by slug and read, or the user at authentication,   *)
(* for any of the routes below.                                            *)
Begin(q, c, at, text) ==
    /\ ~Active(q) /\ c \in Present
    /\ Go(q, [at |-> at, contact |-> c, seen |-> rows[c], text |-> text,
              new |-> NoAvatar])
    /\ KeepRows /\ KeepBucket

BeginEdit(q, c, text) == Begin(q, c, "save", text)
BeginProfile(q, u, text) == Begin(q, u, "save", text)

Saved(q) ==
    [req[q].seen EXCEPT !.text = IF req[q].text = Unset THEN @ ELSE req[q].text]

(* contact.save(), or user.save(), writes every column as it was read.  A  *)
(* row that has been deleted is inserted again.  It is refused if somebody *)
(* else has the name by now.                                               *)
Save(q) ==
    LET c == req[q].contact
        refused == req[q].seen.name \in Taken(Kin(c) \ {c})
    IN
    /\ req[q].at = "save"
    /\ Go(q, Idle)
    /\ IF refused THEN KeepRows /\ KeepBucket
       ELSE /\ rows' = [rows EXCEPT ![c] = Saved(q)]
            /\ overwritten' = IF SetsBack(q) THEN overwritten \cup {c}
                              ELSE overwritten
            /\ Lose(q)
            /\ UNCHANGED <<created, files, drawn>>

-----------------------------------------------------------------------------
(* Avatars                                                                 *)

BeginUpload(q, c) == Begin(q, c, "put", Unset)
BeginUserUpload(q, u) == Begin(q, u, "put", Unset)

PutAvatar(q) ==
    LET a == Fresh(Avatars, drawn) IN
    /\ req[q].at = "put" /\ drawn # Avatars
    /\ files' = files \cup {a} /\ drawn' = drawn \cup {a}
    /\ Go(q, [req[q] EXCEPT !.at = "save_avatar", !.new = a])
    /\ UNCHANGED stray /\ KeepRows

(* What one upload has written is deleted again when a later step fails;   *)
(* a put that failed may have written its file.                            *)
PutFails(q, landed) ==
    LET a == Fresh(Avatars, drawn) IN
    /\ req[q].at = "put" /\ drawn # Avatars
    /\ drawn' = drawn \cup {a}
    /\ files' = IF landed THEN files \cup {a} ELSE files
    /\ stray' = IF landed THEN stray \cup {a} ELSE stray
    /\ Go(q, Idle)
    /\ KeepRows

CleanUpNothing(a) == Idle
CleanUp(a) == IF a = NoAvatar THEN Idle ELSE [at |-> "cleanup", old |-> a]

(* save(update_fields=...) of a path, and the deletion of the files of the *)
(* old path as it was read; whichever path has been written meanwhile is   *)
(* lost.                                                                   *)
SetAvatar(q, a) ==
    LET c == req[q].contact IN
    /\ rows' = [rows EXCEPT ![c].avatar = a]
    /\ Lose(q)
    /\ UNCHANGED <<created, drawn>>

SaveAvatar(q) ==
    /\ req[q].at = "save_avatar" /\ req[q].contact \in Present
    /\ SetAvatar(q, req[q].new)
    /\ Go(q, CleanUp(req[q].seen.avatar))
    /\ UNCHANGED <<overwritten, files>>

(* The row is gone, or the database fails before the commit: the new   *)
(* files are deleted, or one of those deletions fails.                     *)
SaveAvatarFails(q, fails) ==
    /\ req[q].at = "save_avatar"
    /\ files' = IF fails THEN files ELSE files \ {req[q].new}
    /\ stray' = IF fails THEN stray \cup {req[q].new} ELSE stray
    /\ Go(q, Idle)
    /\ UNCHANGED drawn /\ KeepRows

(* The commit succeeds and its reply is lost. *)
SaveAvatarReplyLost(q) ==
    LET c == req[q].contact IN
    /\ req[q].at = "save_avatar" /\ c \in Present
    /\ rows' = [rows EXCEPT ![c].avatar = req[q].new]
    /\ files' = files \ {req[q].new}
    /\ overwritten' = overwritten \cup {c}
    /\ stray' = stray \cup ({rows[c].avatar} \ {NoAvatar})
    /\ Go(q, Idle)
    /\ UNCHANGED <<created, drawn>>

ClearFilesFirst(q, c) ==
    /\ ~Active(q) /\ c \in Present
    /\ Go(q, [at |-> "clear_avatar", contact |-> c, seen |-> rows[c],
              text |-> Unset, new |-> NoAvatar])
    /\ files' = files \ {rows[c].avatar}
    /\ UNCHANGED <<drawn, stray>> /\ KeepRows

BeginClear(q, c) ==
    rows[c] # NoRow /\ rows[c].avatar # NoAvatar
      /\ Begin(q, c, "clear_avatar", Unset)

(* Of a user, with or without an avatar. *)
BeginUserClear(q, u) == Begin(q, u, "clear_avatar", Unset)

ClearAvatar(q) ==
    /\ req[q].at = "clear_avatar" /\ req[q].contact \in Present
    /\ SetAvatar(q, NoAvatar)
    /\ Go(q, CleanUp(req[q].seen.avatar))
    /\ UNCHANGED <<overwritten, files>>

BeginDelete(q, c) == Begin(q, c, "delete", Unset)

(* The row, and after the commit the avatar of the row that was read. *)
Delete(q) ==
    LET c == req[q].contact IN
    /\ req[q].at = "delete"
    /\ rows' = [rows EXCEPT ![c] = NoRow]
    /\ Lose(q)
    /\ Go(q, CleanUp(req[q].seen.avatar))
    /\ UNCHANGED <<created, overwritten, files, drawn>>

(* delete_user_account reads the user again under a lock. *)
DeleteUser(q, u) ==
    /\ ~Active(q) /\ u \in Present
    /\ rows' = [rows EXCEPT ![u] = NoRow]
    /\ Go(q, CleanUp(rows[u].avatar))
    /\ UNCHANGED <<created, overwritten>> /\ KeepBucket

(* After the commit; a failure is logged. *)
DeleteFiles(q, fails) ==
    /\ req[q].at = "cleanup"
    /\ files' = IF fails THEN files ELSE files \ {req[q].old}
    /\ stray' = IF fails THEN stray \cup {req[q].old} ELSE stray
    /\ Go(q, Idle)
    /\ UNCHANGED drawn /\ KeepRows

(* An error, the row that is gone, a killed worker. *)
Fail(q) ==
    /\ Active(q)
    /\ stray' = stray \cup (IF req[q].at = "save_avatar" THEN {req[q].new} ELSE
                            IF req[q].at = "cleanup" THEN {req[q].old} ELSE {})
    /\ Go(q, Idle)
    /\ UNCHANGED <<files, drawn>> /\ KeepRows

-----------------------------------------------------------------------------

BeginContact ==
    \E q \in Requests :
        \/ \E x \in Texts : BeginCreate(q, x)
        \/ \E c \in ContactIds :
             \/ \E x \in Texts \cup {Unset} : BeginEdit(q, c, x)
             \/ BeginUpload(q, c) \/ BeginClear(q, c) \/ BeginDelete(q, c)
        \/ \E u \in UserIds :
             \/ \E x \in Texts \cup {Unset} : BeginProfile(q, u, x)
             \/ BeginUserUpload(q, u) \/ BeginUserClear(q, u)

ContactStep ==
    \E q \in Requests :
        \/ Insert(q)
        \/ \E n \in Names : InsertConflicts(q, n)
        \/ PutAvatar(q) \/ \E landed \in BOOLEAN : PutFails(q, landed)
        \/ \E fails \in BOOLEAN :
             SaveAvatarFails(q, fails) \/ DeleteFiles(q, fails)
        \/ SaveAvatar(q) \/ SaveAvatarReplyLost(q)
        \/ ClearAvatar(q) \/ Fail(q)

-----------------------------------------------------------------------------
(* Properties                                                              *)

(* The avatar that a contact or user names can be fetched, whatever        *)
(* requests overlap: files are deleted only after the path to them was     *)
(* replaced (contacts/api.py:214-218, 243-246, avatar.py:34-43).  Excused  *)
(* is a row that a stale PUT or PATCH has written back.                    *)
AvatarsThere ==
    \A c \in Present \ overwritten :
        rows[c].avatar \in files \cup {NoAvatar}

(* A file no row names is about to be deleted or saved, or an error or *)
(* two requests on one row have left it: a request by itself that      *)
(* replaces, removes or fails to save an avatar leaves nothing.            *)
NoUnexplainedFile ==
    \A a \in files \ (Referenced \cup stray) :
        \E q \in Requests :
            \/ req[q].at = "save_avatar" /\ req[q].new = a
            \/ req[q].at = "cleanup" /\ req[q].old = a

(* Bucket and rows agree in both directions. *)
AvatarFilesMatch == AvatarsThere /\ NoUnexplainedFile
=============================================================================
