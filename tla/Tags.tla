-------------------------------- MODULE Tags --------------------------------
(***************************************************************************)
(* The tags of an organization and the contacts they are on: tags/api.py   *)
(* and tags/services.py.                                                   *)
(*                                                                         *)
(* A name stands for its slug and what else tells it from names with the   *)
(* same slug, case aside.  Names that differ in case only have one slug,   *)
(* so the two unique constraints amount to one tag for a slug.             *)
(* assign_tags_to_object runs statement by statement in READ COMMITTED;    *)
(* the other operations are one statement, or as good as one.  INSERT ...  *)
(* ON CONFLICT DO NOTHING waits for whoever has inserted the slug and not  *)
(* committed.  Foreign keys are checked at the commit.                     *)
(***************************************************************************)
EXTENDS Naturals, Functions

CONSTANTS
    Assigners,     \* assignments being served at the same time
    TagIds, ContactIds,
    TagSlugs, Variants,
    MaxTags,       \* of one assignment: MAX_TAGS_PER_ASSIGNMENT
    NoTag

Name == [slug : TagSlugs, variant : Variants]

(* What is asked for, duplicates dropped.  Two names with one slug are     *)
(* refused beforehand.                                                     *)
NameLists ==
    {s \in UNION {[1..n -> Name] : n \in 1..MaxTags} :
       \A i, j \in DOMAIN s : s[i].slug = s[j].slug => i = j}

VARIABLES
    present,     \* Contact rows (module Contacts)
    tags,        \* Tag rows by primary key
    drawnTags,   \* primary keys that have been given out
    items,       \* TaggedItem rows: tag and contact
    asg,         \* assignments
    late         \* history: items of contacts that went meanwhile

tagVars == <<tags, drawnTags, items, asg, late>>

NoAssignment == [at |-> "idle"]
Assigning == [at : {"existing", "create", "reread", "items", "commit",
                    "assigned", "refused", "failed"},
              contact : ContactIds, names : NameLists, todo : SUBSET (1..MaxTags),
              made : SUBSET (TagIds \X Name), chosen : SUBSET TagIds,
              had : SUBSET TagIds, disturbed : BOOLEAN]

Rows(S) == {t \in S : tags[t] # NoTag}
SlugTaken(s) == \E t \in Rows(TagIds) : tags[t].slug = s

TagsTypeOK ==
    /\ tags \in [TagIds -> Name \cup {NoTag}]
    /\ drawnTags \subseteq TagIds /\ Rows(TagIds) \subseteq drawnTags
    /\ items \subseteq TagIds \X ContactIds /\ late \subseteq items
    /\ asg \in [Assigners -> {NoAssignment} \cup Assigning]
    /\ \A x \in items : tags[x[1]] # NoTag
    /\ \A t, u \in Rows(TagIds) : tags[t].slug = tags[u].slug => t = u

NextTag == CHOOSE t \in TagIds \ drawnTags : TRUE

(* One tag is there, on contacts or on none. *)
TagsInit ==
    \E n \in Name, C \in SUBSET present :
        LET t == CHOOSE u \in TagIds : TRUE IN
        /\ tags = [u \in TagIds |-> IF u = t THEN n ELSE NoTag]
        /\ drawnTags = {t} /\ items = {t} \X C /\ late = {}
        /\ asg = [q \in Assigners |-> NoAssignment]

Go(q, r) == asg' = [asg EXCEPT ![q] = r]
Move(q, at) == Go(q, [asg[q] EXCEPT !.at = at])
KeepTags == UNCHANGED <<tags, drawnTags>>
KeepItems == UNCHANGED <<items, late>>

Running(q) ==
    asg[q].at \in {"existing", "create", "reread", "items", "commit"}

(* A rename, a deletion or an unassignment: assignments that overlap with  *)
(* it may find things as before or as after.                               *)
Disturb ==
    asg' = [q \in Assigners |-> IF asg[q] = NoAssignment THEN asg[q]
                                ELSE [asg[q] EXCEPT !.disturbed = TRUE]]

(* Slugs that a running assignment has inserted and not committed. *)
Inserted(q) ==
    IF Running(q) THEN {m[2].slug : m \in asg[q].made} ELSE {}
Waits(q, s) == {p \in Assigners \ {q} : s \in Inserted(p)}
Free(s) == \A p \in Assigners : s \notin Inserted(p)

-----------------------------------------------------------------------------
(* Tags                                                                    *)

(* A name that is taken answers 409 and changes nothing. *)
CreateTag(n) ==
    LET t == NextTag IN
    /\ drawnTags # TagIds /\ Free(n.slug) /\ ~SlugTaken(n.slug)
    /\ tags' = [tags EXCEPT ![t] = n]
    /\ drawnTags' = drawnTags \cup {t}
    /\ UNCHANGED asg /\ KeepItems

RenameTag(t, n) ==
    /\ tags[t] \notin {NoTag, n} /\ Free(n.slug)
    /\ SlugTaken(n.slug) => tags[t].slug = n.slug
    /\ tags' = [tags EXCEPT ![t] = n]
    /\ Disturb
    /\ UNCHANGED drawnTags /\ KeepItems

(* A statement that deletes items. *)
Without(P(_)) ==
    /\ items' = {x \in items : ~P(x)}
    /\ late' = late \cap items'

LeaveItems(t) == KeepItems
TakeItems(t) == Without(LAMBDA x : x[1] = t)

DeleteTag(t) ==
    /\ tags[t] # NoTag
    /\ tags' = [tags EXCEPT ![t] = NoTag]
    /\ TakeItems(t)
    /\ Disturb
    /\ UNCHANGED drawnTags

(* unassign_tags, or unassign_tag_by_slug of one. *)
Unassign(c, S) ==
    /\ c \in present
    /\ Without(LAMBDA x : x[1] \in S /\ x[2] = c)
    /\ Disturb
    /\ KeepTags

CascadeNothing(c) == KeepItems
Cascade(c) == Without(LAMBDA x : x[2] = c)

(* The deletion of a contact takes its items along; one that is written    *)
(* back has none.                                                          *)
ContactDeleted(c) == Cascade(c) /\ Disturb /\ KeepTags

-----------------------------------------------------------------------------
(* assign_tags_to_object                                                   *)

Assign(q, c, names) ==
    /\ asg[q] = NoAssignment /\ c \in present
    /\ Go(q, [at |-> "existing", contact |-> c, names |-> names, todo |-> {},
              made |-> {}, chosen |-> {}, had |-> {}, disturbed |-> FALSE])
    /\ KeepTags /\ KeepItems

Asked(q) == Range(asg[q].names)
Clash(n, m) == n.slug = m.slug /\ n # m

ReadExisting(q) ==
    /\ asg[q].at = "existing"
    /\ IF \E t \in Rows(TagIds), n \in Asked(q) : Clash(n, tags[t])
       THEN Move(q, "refused")
       ELSE Go(q, [asg[q] EXCEPT !.at = "create",
                     !.todo = {i \in DOMAIN asg[q].names :
                                 ~SlugTaken(asg[q].names[i].slug)}])
    /\ KeepTags /\ KeepItems

(* One row of bulk_create(ignore_conflicts=True). *)
InsertTag(q) ==
    LET i == CHOOSE j \in asg[q].todo : \A k \in asg[q].todo : j <= k
        n == asg[q].names[i]
        t == NextTag
    IN
    /\ asg[q].at = "create" /\ asg[q].todo # {}
    /\ Waits(q, n.slug) = {}
    /\ IF SlugTaken(n.slug)
       THEN /\ Go(q, [asg[q] EXCEPT !.todo = @ \ {i}])
            /\ UNCHANGED drawnTags
       ELSE /\ drawnTags # TagIds
            /\ Go(q, [asg[q] EXCEPT !.todo = @ \ {i}, !.made = @ \cup {<<t, n>>}])
            /\ drawnTags' = drawnTags \cup {t}
    /\ UNCHANGED tags /\ KeepItems

AllInserted(q) ==
    /\ asg[q].at = "create" /\ asg[q].todo = {}
    /\ Move(q, "reread")
    /\ KeepTags /\ KeepItems

(* Rows a statement of the assignment sees: committed ones and its own. *)
CreatedHere(q) == asg[q].made
Visible(q) == {<<t, tags[t]>> : t \in Rows(TagIds)} \cup asg[q].made

Matches(q) == Visible(q) \cap (TagIds \X Asked(q))

(* The tags are read again by slug, and their names compared. *)
Reread(q) ==
    /\ asg[q].at = "reread"
    /\ IF \E n \in Asked(q) : \A m \in Matches(q) : m[2] # n
       THEN Move(q, "refused")
       ELSE Go(q, [asg[q] EXCEPT !.at = "items",
                     !.chosen = {m[1] : m \in Matches(q)}])
    /\ KeepTags /\ KeepItems

ReadItems(q) ==
    /\ asg[q].at = "items"
    /\ Go(q, [asg[q] EXCEPT !.at = "commit",
                !.had = {t \in asg[q].chosen : <<t, asg[q].contact>> \in items}])
    /\ KeepTags /\ KeepItems

(* The missing items and the commit.  A tag that has been deleted since    *)
(* fails the foreign key, and the whole assignment with it.                *)
CommitAssignment(q) ==
    LET c == asg[q].contact
        own == {m[1] : m \in asg[q].made}
        new == (asg[q].chosen \ asg[q].had) \X {c}
    IN
    /\ asg[q].at = "commit"
    /\ IF \A x \in new : x[1] \in own \/ tags[x[1]] # NoTag
       THEN /\ tags' = [t \in TagIds |->
                          IF t \in own
                          THEN (CHOOSE m \in asg[q].made : m[1] = t)[2]
                          ELSE tags[t]]
            /\ items' = items \cup new
            /\ late' = IF c \in present THEN late ELSE late \cup new
            /\ Move(q, "assigned")
       ELSE /\ Move(q, "failed")
            /\ UNCHANGED tags /\ KeepItems
    /\ UNCHANGED drawnTags

Answer(q) ==
    /\ asg[q].at \in {"assigned", "refused", "failed"}
    /\ Go(q, NoAssignment)
    /\ KeepTags /\ KeepItems

(* A killed worker, or one of several assignments that wait for each       *)
(* other, which PostgreSQL aborts: nothing of it stays.                    *)
Abort(q) ==
    /\ Running(q)
    /\ Go(q, NoAssignment)
    /\ KeepTags /\ KeepItems

-----------------------------------------------------------------------------

(* The routes of tags/api.py; a PATCH without a name changes nothing. *)
PostTag == \E n \in Name : CreateTag(n)
PatchTag == \E t \in TagIds, n \in Name : RenameTag(t, n)
RemoveTag == \E t \in TagIds : DeleteTag(t)
UnassignTags ==
    \E c \in ContactIds, S \in SUBSET Rows(TagIds) \ {{}} : Unassign(c, S)
AssignTags ==
    \E q \in Assigners, c \in ContactIds, s \in NameLists : Assign(q, c, s)

BeginTag == PostTag \/ PatchTag \/ RemoveTag \/ UnassignTags \/ AssignTags

TagStep ==
    \E q \in Assigners :
        \/ ReadExisting(q) \/ InsertTag(q) \/ AllInserted(q) \/ Reread(q) \/ ReadItems(q)
        \/ CommitAssignment(q) \/ Answer(q) \/ Abort(q)

-----------------------------------------------------------------------------
(* Properties                                                              *)

(* An assignment that has been answered with its tags has put each name    *)
(* asked for on the contact, whatever other assignments and creations      *)
(* insert the same names meanwhile (services.py:146-165), unless a rename, *)
(* a deletion or an unassignment overlapped.                               *)
AssignmentTakesEffect ==
    \A q \in Assigners :
        asg[q].at = "assigned" /\ ~asg[q].disturbed =>
            \A n \in Asked(q) : \E t \in Rows(TagIds) :
                tags[t] = n /\ <<t, asg[q].contact>> \in items

(* An assignment that nothing of that sort disturbs is refused only for a  *)
(* different tag with the slug, and never fails: losing the race to create *)
(* a tag is no error (services.py:152, 161-165).                           *)
RefusedForCause ==
    \A q \in Assigners :
        asg[q].at \in {"refused", "failed"} /\ ~asg[q].disturbed =>
            /\ asg[q].at = "refused"
            /\ \E t \in Rows(TagIds), n \in Asked(q) : Clash(n, tags[t])

(* What an assignment answers is true, in both cases. *)
AnswersTrue == AssignmentTakesEffect /\ RefusedForCause

(* No item outlives its contact but of an assignment that found the        *)
(* contact before it was deleted: object_id is no foreign key              *)
(* (models.py:33-34, contacts/models.py:38).                               *)
ItemsFollowContacts == \A x \in items \ late : x[2] \in present
=============================================================================
