---------------------------- MODULE MediaObjects ----------------------------
(***************************************************************************)
(* Image rows and the objects they name in the private bucket: uploads,    *)
(* deletions, and the commands audit_media and backfill_image_variants.    *)
(* The bucket has no transactions: what it is told happens at once, and a  *)
(* call that fails may have taken effect.                                  *)
(*                                                                         *)
(* An image stands for a row and the key its upload draws; "variant" for   *)
(* the four variants.  No two images share a key.                          *)
(***************************************************************************)
EXTENDS Naturals, FiniteSets

CONSTANTS
    Images,
    NoImage,
    MaxFiles       \* bound: files of a bulk upload

Parts == {"original", "variant"}
Keys == Images \X Parts
KeysOf(S) == S \X Parts

(* A file by itself, several, or several under an Idempotency-Key. *)
Modes == {"single", "bulk", "keyed"}

ASSUME ConstantsAssumption == NoImage \notin Images /\ MaxFiles \in Nat

VARIABLES
    status,      \* of Image rows; a "new" one has a key and is not
                 \* committed, a "legacy" one is of before there were variants
    objects,     \* keys in the bucket
    aged,        \* those older than --minimum-age-hours
    upload, deletion, audit, backfill,
    reported,    \* history: images an upload has reported as saved
    excused      \* history: images a storage or database call failed on,
                 \* whose request was killed or rolled back, or whose row
                 \* was deleted by itself

others == <<deletion, audit, backfill>>
vars == <<status, objects, aged, upload, others, reported, excused>>

Idle == [at |-> "idle"]
Rows == {i \in Images : status[i] \in {"row", "legacy"}}

Upload == [at : {"files"}, mode : Modes, left : 0..MaxFiles,
           image : Images \cup {NoImage}, stored : SUBSET Parts,
           done : SUBSET Images, broken : BOOLEAN]
Deletion ==
    [at : {"open", "committed"}, images : SUBSET Images, keys : SUBSET Keys]
Audit == [at : {"checking", "deleting"}, referenced : SUBSET Images,
          known : SUBSET Images, doomed : SUBSET Keys]

Uploading == IF upload = Idle THEN {}
             ELSE upload.done \cup ({upload.image} \ {NoImage})

TypeOK ==
    /\ status \in [Images -> {"unused", "new", "row", "legacy", "deleted"}]
    /\ aged \subseteq objects /\ objects \subseteq Keys
    /\ upload = Idle \/ upload \in Upload
    /\ deletion = Idle \/ deletion \in Deletion
    /\ audit = Idle \/ audit \in Audit
    /\ backfill \in Images \cup {NoImage}
    /\ reported \in SUBSET (Modes \X Images)
    /\ excused \subseteq Images
    /\ \A k \in objects : status[k[1]] # "unused"
    /\ deletion # Idle /\ deletion.at = "open" => deletion.images \subseteq Rows
    /\ upload # Idle /\ upload.mode # "single" =>
           \A i \in upload.done : status[i] = "new"

Init ==
    /\ status \in [Images -> {"unused", "legacy"}]
    /\ objects = Rows \X {"original"}
    /\ aged \in {{}, objects}
    /\ upload = Idle /\ deletion = Idle /\ audit = Idle
    /\ backfill = NoImage
    /\ reported = {} /\ excused = {}

Excuse(S) == excused' = excused \cup S

-----------------------------------------------------------------------------
(* upload_image, bulk_upload_images and upload_image_file                  *)

(* Files that are no acceptable images change nothing and are not counted. *)
StartUpload(mode, n) ==
    /\ upload = Idle
    /\ mode = "single" => n = 1
    /\ n <= Cardinality({i \in Images : status[i] = "unused"})
    /\ upload' = [at |-> "files", mode |-> mode, left |-> n,
                  image |-> NoImage, stored |-> {}, done |-> {},
                  broken |-> FALSE]
    /\ UNCHANGED <<status, objects, aged, others, reported, excused>>

Between == upload # Idle /\ upload.image = NoImage

NextFile(i) ==
    /\ Between /\ upload.left > 0
    /\ status[i] = "unused"
    /\ status' = [status EXCEPT ![i] = "new"]
    /\ upload' = [upload EXCEPT !.left = @ - 1, !.image = i]
    /\ UNCHANGED <<objects, aged, others, reported, excused>>

NextPart == IF "original" \in upload.stored THEN "variant" ELSE "original"
InFile == upload # Idle /\ upload.image # NoImage

PutObject ==
    /\ InFile /\ upload.stored # Parts
    /\ objects' = objects \cup {<<upload.image, NextPart>>}
    /\ upload' = [upload EXCEPT !.stored = @ \cup {NextPart}]
    /\ UNCHANGED <<status, aged, others, reported, excused>>

CompensatesNothing == {}
Compensated == {upload.image} \X upload.stored

GiveUpFile(broken) ==
    upload' = [upload EXCEPT !.image = NoImage, !.stored = {},
                             !.broken = @ \/ broken]

(* A put fails, perhaps after it took effect: what is uploaded is deleted  *)
(* again, but the key that failed is not among the uploaded.               *)
PutFails(landed) ==
    /\ InFile /\ upload.stored # Parts
    /\ objects' = (objects \ Compensated)
                    \cup (IF landed THEN {<<upload.image, NextPart>>} ELSE {})
    /\ aged' = aged \ Compensated
    /\ Excuse(IF landed THEN {upload.image} ELSE {})
    /\ GiveUpFile(FALSE)
    /\ UNCHANGED <<status, others, reported>>

CommitsRow == TRUE
ByItself == upload.mode = "single"

(* By itself the row is committed at once; of several files it is part of  *)
(* the transaction of the request.                                         *)
CreateRow ==
    /\ InFile /\ upload.stored = Parts /\ ~upload.broken
    /\ status' = IF ByItself
                 THEN [status EXCEPT ![upload.image] = "row"] ELSE status
    /\ upload' = [upload EXCEPT !.done = @ \cup {upload.image},
                                !.image = NoImage, !.stored = {}]
    /\ UNCHANGED <<objects, aged, others, reported, excused>>

(* An error of the database (a file name longer than the title) breaks the *)
(* transaction it happens in: no later statement of it succeeds.           *)
CreateRowFails ==
    /\ InFile /\ upload.stored = Parts
    /\ objects' = objects \ Compensated
    /\ aged' = aged \ Compensated
    /\ GiveUpFile(upload.mode # "single")
    /\ UNCHANGED <<status, others, reported, excused>>

(* The insert is committed, its reply lost: the objects of the row go. *)
CreateRowReplyLost ==
    /\ InFile /\ upload.stored = Parts /\ upload.mode = "single"
    /\ status' = [status EXCEPT ![upload.image] = "row"]
    /\ objects' = objects \ Compensated
    /\ aged' = aged \ Compensated
    /\ Excuse({upload.image})
    /\ GiveUpFile(FALSE)
    /\ UNCHANGED <<others, reported>>

ReportsAlways == TRUE

(* Writing the idempotency record is a statement too, and fails in a       *)
(* broken transaction; without a key nothing does, and the block that ends *)
(* rolls back without an exception.                                        *)
Reports == upload.mode = "keyed" => ~upload.broken

(* The end of the transaction and the answer. *)
EndUpload ==
    LET saved == IF upload.broken THEN {} ELSE upload.done IN
    /\ Between /\ upload.left = 0
    /\ status' = [i \in Images |->
                    IF i \in saved /\ status[i] = "new" THEN "row"
                    ELSE status[i]]
    /\ reported' = reported \cup
                     (IF Reports THEN {upload.mode} \X upload.done ELSE {})
    /\ Excuse(upload.done \ saved)
    /\ upload' = Idle
    /\ UNCHANGED <<objects, aged, others>>

(* A failed deletion of what was uploaded, a failed commit, a killed       *)
(* worker: what has been uploaded and is not compensated stays.            *)
KillUpload(S) ==
    /\ upload # Idle
    /\ S = {} \/ (InFile /\ S \subseteq Compensated)
    /\ objects' = objects \ S
    /\ aged' = aged \ S
    /\ Excuse(Uploading \ Rows)
    /\ upload' = Idle
    /\ UNCHANGED <<status, others, reported>>

-----------------------------------------------------------------------------
(* delete_image, bulk_delete_images and delete_image_record                *)

OpenDeletion(S) ==
    /\ deletion = Idle
    /\ deletion' = [at |-> "open", images |-> S, keys |-> KeysOf(S)]
    /\ UNCHANGED <<status, objects, aged, upload, audit, backfill, reported,
                   excused>>

RollBackDeletion ==
    /\ deletion # Idle /\ deletion.at = "open"
    /\ deletion' = Idle
    /\ UNCHANGED <<status, objects, aged, upload, audit, backfill, reported,
                   excused>>

CommitDeletion ==
    /\ deletion # Idle /\ deletion.at = "open"
    /\ status' = [i \in Images |->
                    IF i \in deletion.images THEN "deleted" ELSE status[i]]
    /\ deletion' = [deletion EXCEPT !.at = "committed"]
    /\ UNCHANGED <<objects, aged, upload, audit, backfill, reported, excused>>

AtOnce == deletion # Idle
AfterCommit == deletion # Idle /\ deletion.at = "committed"

(* on_commit; a failure is logged and the next key is tried. *)
DeleteObject(k, fails) ==
    /\ AfterCommit /\ k \in deletion.keys
    /\ k[2] = "variant" => <<k[1], "original">> \notin deletion.keys
    /\ objects' = IF fails THEN objects ELSE objects \ {k}
    /\ aged' = IF fails THEN aged ELSE aged \ {k}
    /\ Excuse(IF fails THEN {k[1]} ELSE {})
    /\ deletion' = IF deletion.keys = {k} THEN Idle
                   ELSE [deletion EXCEPT !.keys = @ \ {k}]
    /\ UNCHANGED <<status, upload, audit, backfill, reported>>

KillDeletion ==
    /\ AfterCommit
    /\ Excuse({k[1] : k \in deletion.keys})
    /\ deletion' = Idle
    /\ UNCHANGED <<status, objects, aged, upload, audit, backfill, reported>>

(* Rows that go with their organization, as with the account of a personal *)
(* one, or in the admin site: nothing deletes their objects but an audit.  *)
DeleteRowsOnly(S) ==
    /\ deletion # Idle /\ deletion.at = "open" => S \cap deletion.images = {}
    /\ status' = [i \in Images |-> IF i \in S THEN "deleted" ELSE status[i]]
    /\ Excuse(S)
    /\ UNCHANGED <<objects, aged, upload, others, reported>>

-----------------------------------------------------------------------------
(* audit_media --delete-unreferenced                                       *)

(* The rows are read in one query.  known are the keys drawn by then whose *)
(* upload is over.                                                         *)
StartAudit ==
    /\ audit = Idle
    /\ audit' = [at |-> "checking", referenced |-> Rows,
                 known |-> {i \in Images : status[i] # "unused"} \ Uploading,
                 doomed |-> {}]
    /\ UNCHANGED <<status, objects, aged, upload, deletion, backfill, reported,
                   excused>>

AnyAge == objects
OldEnough == aged

(* After the existence checks the bucket is listed and the cutoff fixed. *)
ListBucket ==
    /\ audit # Idle /\ audit.at = "checking"
    /\ audit' = [audit EXCEPT !.at = "deleting",
                   !.doomed = OldEnough \ KeysOf(audit.referenced)]
    /\ UNCHANGED <<status, objects, aged, upload, deletion, backfill, reported,
                   excused>>

DeleteUnreferenced(k) ==
    /\ audit # Idle /\ k \in audit.doomed
    /\ objects' = objects \ ({k} \cap OldEnough)
    /\ aged' = aged \ {k}
    /\ audit' = [audit EXCEPT !.doomed = @ \ {k}]
    /\ UNCHANGED <<status, upload, deletion, backfill, reported, excused>>

(* Done, or an error. *)
EndAudit ==
    /\ audit # Idle
    /\ audit' = Idle
    /\ UNCHANGED <<status, objects, aged, upload, deletion, backfill, reported,
                   excused>>

(* The minimum age exceeds the time from an object's upload to the end of  *)
(* its transaction, and from there through the checks of an audit that did *)
(* not see the row.                                                        *)
Age(k) ==
    /\ k \in objects \ aged
    /\ k[1] \notin Uploading
    /\ audit # Idle /\ audit.at = "checking" => k[1] \in audit.known
    /\ aged' = aged \cup {k}
    /\ UNCHANGED <<status, objects, upload, others, reported, excused>>

-----------------------------------------------------------------------------
(* backfill_image_variants                                                 *)

CheckVariants(i) ==
    /\ backfill = NoImage
    /\ i \in Rows
    /\ <<i, "original">> \in objects /\ <<i, "variant">> \notin objects
    /\ backfill' = i
    /\ UNCHANGED <<status, objects, aged, upload, deletion, audit, reported,
                   excused>>

(* The image may have been deleted since. *)
PutVariants ==
    LET k == <<backfill, "variant">> IN
    /\ backfill # NoImage
    /\ objects' = objects \cup {k}
    /\ aged' = aged \ {k}
    /\ Excuse({backfill} \ Rows)
    /\ backfill' = NoImage
    /\ UNCHANGED <<status, upload, deletion, audit, reported>>

Next ==
    \/ \E m \in Modes, n \in 1..MaxFiles : StartUpload(m, n)
    \/ \E i \in Images : NextFile(i) \/ CheckVariants(i)
    \/ PutObject \/ PutFails(TRUE) \/ PutFails(FALSE)
    \/ CreateRow \/ CreateRowFails \/ CreateRowReplyLost \/ EndUpload
    \/ \E S \in SUBSET Keys : KillUpload(S)
    \/ \E S \in SUBSET Rows \ {{}} : OpenDeletion(S) \/ DeleteRowsOnly(S)
    \/ RollBackDeletion \/ CommitDeletion \/ KillDeletion
    \/ \E k \in Keys, fails \in BOOLEAN : DeleteObject(k, fails)
    \/ StartAudit \/ ListBucket \/ EndAudit
    \/ \E k \in Keys : DeleteUnreferenced(k) \/ Age(k)
    \/ PutVariants

Spec == Init /\ [][Next]_vars

-----------------------------------------------------------------------------
(* Properties                                                              *)

(* The objects of an image are there as long as its row, whatever uploads, *)
(* deletions, audits and backfills do meanwhile: no deletion precedes its  *)
(* commit, and no audit takes an image for unreferenced whose row it was   *)
(* too early to see (services.py:136-146, audit_media.py:61-76).  Only a   *)
(* lost reply to the insert is excused.                                    *)
ImagesHaveObjects ==
    \A i \in Rows \ excused :
        /\ <<i, "original">> \in objects
        /\ status[i] = "row" => <<i, "variant">> \in objects

(* An object without a row belongs to an upload or a deletion under way,   *)
(* unless a call failed, a request was killed or the row went with its     *)
(* organization: every other path deletes what it has uploaded             *)
(* (services.py:83-87).                                                    *)
NoUnexplainedOrphan ==
    \A k \in objects :
        \/ k[1] \in Rows \cup Uploading \cup excused
        \/ AfterCommit /\ k \in deletion.keys

Saved(m) == \A r \in reported : r[1] \in m => status[r[2]] # "new"

(* What a single upload or one with an Idempotency-Key reports as saved    *)
(* has been (uploads.py:142-152, idempotency.py:180-193).                  *)
KeyedReportsTrue == Saved({"single", "keyed"})

(* What any upload reports as saved has been.                              *)
ReportsTrue == Saved(Modes)
=============================================================================
