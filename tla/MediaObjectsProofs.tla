------------------------- MODULE MediaObjectsProofs -------------------------
(***************************************************************************)
(* Safety of MediaObjects for any set of images. The bucket has no         *)
(* transactions, so each object needs an account of who is responsible     *)
(* for it: an upload, a row, a deletion or an excuse.                      *)
(***************************************************************************)
EXTENDS MediaObjects, TLAPS

(* An upload: the file under way is new, what the bucket has of it is      *)
(* stored, and a finished one that is not committed has all its objects.   *)
UploadInv ==
    upload # Idle =>
        /\ upload.image = NoImage => upload.stored = {}
        /\ upload.image # NoImage =>
              /\ status[upload.image] = "new"
              /\ upload.image \notin upload.done
              /\ \A p \in Parts :
                    <<upload.image, p>> \in objects <=> p \in upload.stored
        /\ \A i \in upload.done :
              /\ status[i] # "unused"
              /\ status[i] = "new" => \A p \in Parts : <<i, p>> \in objects
        /\ upload.mode = "single" => ~upload.broken

(* A deletion touches no object before its rows are deleted.               *)
DeletionInv ==
    deletion # Idle =>
        /\ deletion.at = "open" => deletion.keys = KeysOf(deletion.images)
        /\ deletion.at = "committed" =>
              \A k \in deletion.keys : status[k[1]] = "deleted"

(* A key whose upload was over before an audit read the rows: its row was  *)
(* seen, or is deleted, or never comes.                                    *)
Settled(i) ==
    \/ i \in audit.referenced
    \/ status[i] = "deleted"
    \/ status[i] = "new" /\ i \notin Uploading

(* What an audit may delete was known when it read the rows.               *)
AuditInv ==
    /\ \A k \in aged : k[1] \notin Uploading
    /\ audit # Idle =>
          /\ \A i \in audit.known : Settled(i)
          /\ audit.at = "checking" =>
                audit.doomed = {} /\ \A k \in aged : k[1] \in audit.known
          /\ \A k \in audit.doomed :
                k[1] \in audit.known /\ k[1] \notin audit.referenced

(* A backfill is about an image that has had a row.                        *)
BackfillInv ==
    backfill # NoImage => status[backfill] \in {"row", "legacy", "deleted"}

(* What is reported has had its key drawn.                                 *)
ReportInv == \A r \in reported : status[r[2]] # "unused"

(* NoUnexplainedOrphan, where an upload explains only what is new.         *)
Explained(k) ==
    \/ k[1] \in Rows \cup excused
    \/ status[k[1]] = "new" /\ k[1] \in Uploading
    \/ AfterCommit /\ k \in deletion.keys

(* What NoUnexplainedOrphan follows from.                                  *)
OrphanInv == \A k \in objects : Explained(k)

(* The inductive invariant.                                                *)
IInv ==
    /\ TypeOK /\ UploadInv /\ DeletionInv /\ AuditInv /\ BackfillInv
    /\ ReportInv /\ OrphanInv /\ ImagesHaveObjects /\ KeyedReportsTrue

(* The fields of the records, which differ from Idle by their step.        *)
LEMMA Records ==
  /\ \A u \in Upload :
        /\ u # Idle /\ u.at = "files" /\ u.mode \in Modes
        /\ u.left \in 0..MaxFiles
        /\ u.image \in Images \cup {NoImage} /\ u.stored \in SUBSET Parts
        /\ u.done \in SUBSET Images /\ u.broken \in BOOLEAN
  /\ \A d \in Deletion : /\ d # Idle /\ d.at \in {"open", "committed"}
                         /\ d.images \in SUBSET Images
                         /\ d.keys \in SUBSET Keys
  /\ \A a \in Audit : /\ a # Idle /\ a.at \in {"checking", "deleting"}
                      /\ a.referenced \in SUBSET Images
                      /\ a.known \in SUBSET Images /\ a.doomed \in SUBSET Keys
BY DEF Upload, Deletion, Audit, Idle

(* What TypeOK says of each part of the state.                             *)
LEMMA Types ==
  ASSUME TypeOK
  PROVE  /\ status \in [Images -> {"unused", "new", "row", "legacy", "deleted"}]
         /\ aged \subseteq objects /\ objects \subseteq Images \X Parts
         /\ upload # Idle =>
               /\ upload \in Upload
               /\ upload.at = "files" /\ upload.mode \in Modes
               /\ upload.left \in 0..MaxFiles
               /\ upload.image \in Images \cup {NoImage}
               /\ upload.stored \in SUBSET Parts
               /\ upload.done \in SUBSET Images /\ upload.broken \in BOOLEAN
               /\ upload.mode # "single" =>
                     \A i \in upload.done : status[i] = "new"
         /\ deletion # Idle =>
               /\ deletion \in Deletion
               /\ deletion.at \in {"open", "committed"}
               /\ deletion.images \in SUBSET Images
               /\ deletion.keys \in SUBSET (Images \X Parts)
               /\ deletion.at = "open" => deletion.images \subseteq Rows
         /\ audit # Idle =>
               /\ audit \in Audit
               /\ audit.at \in {"checking", "deleting"}
               /\ audit.referenced \in SUBSET Images
               /\ audit.known \in SUBSET Images
               /\ audit.doomed \in SUBSET (Images \X Parts)
         /\ backfill \in Images \cup {NoImage}
         /\ reported \in SUBSET (Modes \X Images)
         /\ excused \subseteq Images
         /\ \A k \in objects : status[k[1]] # "unused"
BY Records DEF TypeOK, Keys

(* The types. Drawn keys stay drawn, and rows are not deleted twice.       *)
LEMMA TypeOKStep ==
  ASSUME TypeOK, UploadInv, BackfillInv, Next
  PROVE  TypeOK'
<1> USE ConstantsAssumption
        DEF TypeOK, Rows, others, Upload, Deletion, Audit, Idle, Keys, KeysOf,
            Parts, Modes, Uploading
<1>1. ASSUME NEW m \in Modes, NEW n \in 1..MaxFiles,
            StartUpload(m, n)
      PROVE  TypeOK'
  BY <1>1 DEF StartUpload
<1>2. ASSUME NEW i \in Images,
            NextFile(i)
      PROVE  TypeOK'
  <2>1. upload \in Upload
    BY <1>2 DEF NextFile, Between
  <2>2. upload' \in Upload
    <3>1. upload.left - 1 \in 0..MaxFiles
      BY <1>2, <2>1 DEF NextFile, Between
    <3> QED
      BY <1>2, <2>1, <3>1 DEF NextFile, Between
  <2>3. /\ status' \in [Images -> {"unused", "new", "row", "legacy", "deleted"}]
        /\ aged' \subseteq objects' /\ objects' \subseteq Keys
        /\ reported' \in SUBSET (Modes \X Images) /\ excused' \subseteq Images
        /\ deletion' = deletion /\ audit' = audit /\ backfill' = backfill
    BY <1>2, <2>1 DEF NextFile, Between
  <2>4. \A k \in objects' : status'[k[1]] # "unused"
    BY <1>2, <2>1 DEF NextFile, Between, UploadInv
  <2>5. deletion # Idle /\ deletion.at = "open" =>
           deletion.images \subseteq Rows'
    BY <1>2, <2>1 DEF NextFile, Between
  <2>6. upload'.mode # "single" => \A j \in upload'.done : status'[j] = "new"
    BY <1>2, <2>1 DEF NextFile, Between, UploadInv
  <2> QED
    BY <2>2, <2>3, <2>4, <2>5, <2>6
<1>3. ASSUME NEW i \in Images,
            CheckVariants(i)
      PROVE  TypeOK'
  BY <1>3 DEF CheckVariants
<1>4. CASE PutObject
  <2>1. upload \in Upload
    BY <1>4 DEF PutObject, InFile, NextPart
  <2>2. upload' \in Upload
    BY <1>4, <2>1 DEF PutObject, InFile, NextPart
  <2>3. /\ status' \in [Images -> {"unused", "new", "row", "legacy", "deleted"}]
        /\ aged' \subseteq objects' /\ objects' \subseteq Keys
        /\ reported' \in SUBSET (Modes \X Images) /\ excused' \subseteq Images
        /\ deletion' = deletion /\ audit' = audit /\ backfill' = backfill
    BY <1>4, <2>1 DEF PutObject, InFile, NextPart
  <2>4. \A k \in objects' : status'[k[1]] # "unused"
    BY <1>4, <2>1 DEF PutObject, InFile, NextPart, UploadInv
  <2>5. deletion # Idle /\ deletion.at = "open" =>
           deletion.images \subseteq Rows'
    BY <1>4, <2>1 DEF PutObject, InFile, NextPart
  <2>6. upload'.mode # "single" => \A j \in upload'.done : status'[j] = "new"
    BY <1>4, <2>1 DEF PutObject, InFile, NextPart, UploadInv
  <2> QED
    BY <2>2, <2>3, <2>4, <2>5, <2>6
<1>5. ASSUME NEW landed \in BOOLEAN,
            PutFails(landed)
      PROVE  TypeOK'
  <2>1. upload \in Upload
    BY <1>5 DEF PutFails, InFile, NextPart, Compensated, GiveUpFile, Excuse
  <2>2. upload' \in Upload
    BY <1>5, <2>1
       DEF PutFails, InFile, NextPart, Compensated, GiveUpFile, Excuse
  <2>3. /\ status' \in [Images -> {"unused", "new", "row", "legacy", "deleted"}]
        /\ aged' \subseteq objects' /\ objects' \subseteq Keys
        /\ reported' \in SUBSET (Modes \X Images) /\ excused' \subseteq Images
        /\ deletion' = deletion /\ audit' = audit /\ backfill' = backfill
    BY <1>5, <2>1
       DEF PutFails, InFile, NextPart, Compensated, GiveUpFile, Excuse
  <2>4. \A k \in objects' : status'[k[1]] # "unused"
    BY <1>5, <2>1
       DEF PutFails, InFile, NextPart, Compensated, GiveUpFile, Excuse,
           UploadInv
  <2>5. deletion # Idle /\ deletion.at = "open" =>
           deletion.images \subseteq Rows'
    BY <1>5, <2>1
       DEF PutFails, InFile, NextPart, Compensated, GiveUpFile, Excuse
  <2>6. upload'.mode # "single" => \A j \in upload'.done : status'[j] = "new"
    BY <1>5, <2>1
       DEF PutFails, InFile, NextPart, Compensated, GiveUpFile, Excuse,
           UploadInv
  <2> QED
    BY <2>2, <2>3, <2>4, <2>5, <2>6
<1>6. CASE CreateRow
  <2>1. upload \in Upload
    BY <1>6 DEF CreateRow, InFile, ByItself
  <2>2. upload' \in Upload
    BY <1>6, <2>1 DEF CreateRow, InFile, ByItself
  <2>3. /\ status' \in [Images -> {"unused", "new", "row", "legacy", "deleted"}]
        /\ aged' \subseteq objects' /\ objects' \subseteq Keys
        /\ reported' \in SUBSET (Modes \X Images) /\ excused' \subseteq Images
        /\ deletion' = deletion /\ audit' = audit /\ backfill' = backfill
    BY <1>6, <2>1 DEF CreateRow, InFile, ByItself
  <2>4. \A k \in objects' : status'[k[1]] # "unused"
    BY <1>6, <2>1 DEF CreateRow, InFile, ByItself, UploadInv
  <2>5. deletion # Idle /\ deletion.at = "open" =>
           deletion.images \subseteq Rows'
    BY <1>6, <2>1 DEF CreateRow, InFile, ByItself
  <2>6. upload'.mode # "single" => \A j \in upload'.done : status'[j] = "new"
    BY <1>6, <2>1 DEF CreateRow, InFile, ByItself, UploadInv
  <2> QED
    BY <2>2, <2>3, <2>4, <2>5, <2>6
<1>7. CASE CreateRowFails
  BY <1>7 DEF CreateRowFails, InFile, Compensated, GiveUpFile
<1>8. CASE CreateRowReplyLost
  <2>1. upload \in Upload
    BY <1>8 DEF CreateRowReplyLost, InFile, Compensated, GiveUpFile, Excuse
  <2>2. upload' \in Upload
    BY <1>8, <2>1
       DEF CreateRowReplyLost, InFile, Compensated, GiveUpFile, Excuse
  <2>3. /\ status' \in [Images -> {"unused", "new", "row", "legacy", "deleted"}]
        /\ aged' \subseteq objects' /\ objects' \subseteq Keys
        /\ reported' \in SUBSET (Modes \X Images) /\ excused' \subseteq Images
        /\ deletion' = deletion /\ audit' = audit /\ backfill' = backfill
    BY <1>8, <2>1
       DEF CreateRowReplyLost, InFile, Compensated, GiveUpFile, Excuse
  <2>4. \A k \in objects' : status'[k[1]] # "unused"
    BY <1>8, <2>1
       DEF CreateRowReplyLost, InFile, Compensated, GiveUpFile, Excuse,
           UploadInv
  <2>5. deletion # Idle /\ deletion.at = "open" =>
           deletion.images \subseteq Rows'
    BY <1>8, <2>1
       DEF CreateRowReplyLost, InFile, Compensated, GiveUpFile, Excuse
  <2>6. upload'.mode # "single" => \A j \in upload'.done : status'[j] = "new"
    BY <1>8, <2>1
       DEF CreateRowReplyLost, InFile, Compensated, GiveUpFile, Excuse,
           UploadInv
  <2> QED
    BY <2>2, <2>3, <2>4, <2>5, <2>6
<1>9. CASE EndUpload
  BY <1>9 DEF EndUpload, Between, Excuse, Reports
<1>10. ASSUME NEW S \in SUBSET Keys,
            KillUpload(S)
      PROVE  TypeOK'
  BY <1>10 DEF KillUpload, InFile, Compensated, Excuse
<1>11. ASSUME NEW S \in SUBSET Rows \ {{}},
            OpenDeletion(S)
      PROVE  TypeOK'
  BY <1>11 DEF OpenDeletion
<1>12. ASSUME NEW S \in SUBSET Rows \ {{}},
            DeleteRowsOnly(S)
      PROVE  TypeOK'
  BY <1>12 DEF DeleteRowsOnly, Excuse
<1>13. CASE RollBackDeletion
  BY <1>13 DEF RollBackDeletion
<1>14. CASE CommitDeletion
  BY <1>14 DEF CommitDeletion
<1>15. CASE KillDeletion
  BY <1>15 DEF KillDeletion, AfterCommit, Excuse
<1>16. ASSUME NEW key \in Keys, NEW fails \in BOOLEAN,
            DeleteObject(key, fails)
      PROVE  TypeOK'
  BY <1>16 DEF DeleteObject, AfterCommit, Excuse
<1>17. CASE StartAudit
  BY <1>17 DEF StartAudit
<1>18. CASE ListBucket
  BY <1>18 DEF ListBucket, OldEnough
<1>19. CASE EndAudit
  BY <1>19 DEF EndAudit
<1>20. ASSUME NEW key \in Keys,
            DeleteUnreferenced(key)
      PROVE  TypeOK'
  BY <1>20 DEF DeleteUnreferenced, OldEnough
<1>21. ASSUME NEW key \in Keys,
            Age(key)
      PROVE  TypeOK'
  BY <1>21 DEF Age
<1>22. CASE PutVariants
  <2>1. /\ aged' \subseteq objects' /\ objects' \subseteq Keys
        /\ excused' \subseteq Images
    BY <1>22 DEF PutVariants, Excuse
  <2>2. \A k \in objects' : status'[k[1]] # "unused"
    BY <1>22 DEF PutVariants, Excuse, BackfillInv
  <2> QED
    BY <1>22, <2>1, <2>2 DEF PutVariants, Excuse
<1> QED
  BY ONLY <1>1, <1>2, <1>3, <1>4, <1>5, <1>6, <1>7, <1>8, <1>9, <1>10, <1>11,
          <1>12, <1>13, <1>14, <1>15, <1>16, <1>17, <1>18, <1>19, <1>20, <1>21,
          <1>22, Next
          DEF Next

(* Nothing takes away what an upload under way has stored: an audit        *)
(* deletes only what was known before, a deletion only what had a row.     *)
LEMMA UploadInvStep ==
  ASSUME TypeOK, UploadInv, DeletionInv, AuditInv, BackfillInv, Next
  PROVE  UploadInv'
<1> USE Types, ConstantsAssumption DEF Rows, Parts, Keys, KeysOf, others
<1>1. ASSUME NEW m \in Modes, NEW n \in 1..MaxFiles,
            StartUpload(m, n)
      PROVE  UploadInv'
  BY <1>1 DEF StartUpload, UploadInv, Uploading, Compensated
<1>2. ASSUME NEW i \in Images,
            NextFile(i)
      PROVE  UploadInv'
  BY <1>2 DEF NextFile, Between, UploadInv, Uploading, Compensated
<1>3. ASSUME NEW i \in Images,
            CheckVariants(i)
      PROVE  UploadInv'
  BY <1>3 DEF CheckVariants, UploadInv, Uploading, Compensated
<1>4. CASE PutObject
  BY <1>4 DEF PutObject, InFile, NextPart, UploadInv, Uploading, Compensated
<1>5. ASSUME NEW landed \in BOOLEAN,
            PutFails(landed)
      PROVE  UploadInv'
  BY <1>5
     DEF PutFails, InFile, NextPart, Compensated, GiveUpFile, Excuse,
         UploadInv, Uploading, Compensated
<1>6. CASE CreateRow
  BY <1>6 DEF CreateRow, InFile, ByItself, UploadInv, Uploading, Compensated
<1>7. CASE CreateRowFails
  BY <1>7
     DEF CreateRowFails, InFile, Compensated, GiveUpFile, UploadInv, Uploading,
         Compensated
<1>8. CASE CreateRowReplyLost
  BY <1>8
     DEF CreateRowReplyLost, InFile, Compensated, GiveUpFile, Excuse,
         UploadInv, Uploading, Compensated
<1>9. CASE EndUpload
  BY <1>9
     DEF EndUpload, Between, Excuse, Reports, UploadInv, Uploading, Compensated
<1>10. ASSUME NEW S \in SUBSET Keys,
            KillUpload(S)
      PROVE  UploadInv'
  BY <1>10
     DEF KillUpload, InFile, Compensated, Excuse, UploadInv, Uploading,
         Compensated
<1>11. ASSUME NEW S \in SUBSET Rows \ {{}},
            OpenDeletion(S)
      PROVE  UploadInv'
  BY <1>11 DEF OpenDeletion, UploadInv, Uploading, Compensated
<1>12. ASSUME NEW S \in SUBSET Rows \ {{}},
            DeleteRowsOnly(S)
      PROVE  UploadInv'
  BY <1>12 DEF DeleteRowsOnly, Excuse, UploadInv, Uploading, Compensated
<1>13. CASE RollBackDeletion
  BY <1>13 DEF RollBackDeletion, UploadInv, Uploading, Compensated
<1>14. CASE CommitDeletion
  BY <1>14 DEF CommitDeletion, UploadInv, Uploading, Compensated
<1>15. CASE KillDeletion
  BY <1>15
     DEF KillDeletion, AfterCommit, Excuse, UploadInv, Uploading, Compensated
<1>16. ASSUME NEW key \in Keys, NEW fails \in BOOLEAN,
            DeleteObject(key, fails)
      PROVE  UploadInv'
  BY <1>16
     DEF DeleteObject, AfterCommit, Excuse, UploadInv, Uploading, Compensated,
         DeletionInv
<1>17. CASE StartAudit
  BY <1>17 DEF StartAudit, UploadInv, Uploading, Compensated
<1>18. CASE ListBucket
  BY <1>18 DEF ListBucket, OldEnough, UploadInv, Uploading, Compensated
<1>19. CASE EndAudit
  BY <1>19 DEF EndAudit, UploadInv, Uploading, Compensated
<1>20. ASSUME NEW key \in Keys,
            DeleteUnreferenced(key)
      PROVE  UploadInv'
  BY <1>20
     DEF DeleteUnreferenced, OldEnough, UploadInv, Uploading, Compensated,
         AuditInv, Settled
<1>21. ASSUME NEW key \in Keys,
            Age(key)
      PROVE  UploadInv'
  BY <1>21 DEF Age, UploadInv, Uploading, Compensated
<1>22. CASE PutVariants
  BY <1>22
     DEF PutVariants, Excuse, UploadInv, Uploading, Compensated, BackfillInv
<1> QED
  BY ONLY <1>1, <1>2, <1>3, <1>4, <1>5, <1>6, <1>7, <1>8, <1>9, <1>10, <1>11,
          <1>12, <1>13, <1>14, <1>15, <1>16, <1>17, <1>18, <1>19, <1>20, <1>21,
          <1>22, Next
          DEF Next

(* Rows that a committed deletion has taken do not come back.              *)
LEMMA DeletionInvStep ==
  ASSUME TypeOK, DeletionInv, UploadInv, Next
  PROVE  DeletionInv'
<1> USE Types, ConstantsAssumption DEF Rows, Parts, Keys, KeysOf, others
<1>1. ASSUME NEW m \in Modes, NEW n \in 1..MaxFiles,
            StartUpload(m, n)
      PROVE  DeletionInv'
  BY <1>1 DEF StartUpload, DeletionInv
<1>2. ASSUME NEW i \in Images,
            NextFile(i)
      PROVE  DeletionInv'
  BY <1>2 DEF NextFile, Between, DeletionInv
<1>3. ASSUME NEW i \in Images,
            CheckVariants(i)
      PROVE  DeletionInv'
  BY <1>3 DEF CheckVariants, DeletionInv
<1>4. CASE PutObject
  BY <1>4 DEF PutObject, InFile, NextPart, DeletionInv
<1>5. ASSUME NEW landed \in BOOLEAN,
            PutFails(landed)
      PROVE  DeletionInv'
  BY <1>5
     DEF PutFails, InFile, NextPart, Compensated, GiveUpFile, Excuse,
         DeletionInv
<1>6. CASE CreateRow
  BY <1>6 DEF CreateRow, InFile, ByItself, DeletionInv, UploadInv
<1>7. CASE CreateRowFails
  BY <1>7 DEF CreateRowFails, InFile, Compensated, GiveUpFile, DeletionInv
<1>8. CASE CreateRowReplyLost
  BY <1>8
     DEF CreateRowReplyLost, InFile, Compensated, GiveUpFile, Excuse,
         DeletionInv, UploadInv
<1>9. CASE EndUpload
  BY <1>9 DEF EndUpload, Between, Excuse, Reports, DeletionInv
<1>10. ASSUME NEW S \in SUBSET Keys,
            KillUpload(S)
      PROVE  DeletionInv'
  BY <1>10 DEF KillUpload, InFile, Compensated, Excuse, DeletionInv
<1>11. ASSUME NEW S \in SUBSET Rows \ {{}},
            OpenDeletion(S)
      PROVE  DeletionInv'
  BY <1>11 DEF OpenDeletion, DeletionInv
<1>12. ASSUME NEW S \in SUBSET Rows \ {{}},
            DeleteRowsOnly(S)
      PROVE  DeletionInv'
  BY <1>12 DEF DeleteRowsOnly, Excuse, DeletionInv
<1>13. CASE RollBackDeletion
  BY <1>13 DEF RollBackDeletion, DeletionInv
<1>14. CASE CommitDeletion
  BY <1>14 DEF CommitDeletion, DeletionInv
<1>15. CASE KillDeletion
  BY <1>15 DEF KillDeletion, AfterCommit, Excuse, DeletionInv
<1>16. ASSUME NEW key \in Keys, NEW fails \in BOOLEAN,
            DeleteObject(key, fails)
      PROVE  DeletionInv'
  BY <1>16 DEF DeleteObject, AfterCommit, Excuse, DeletionInv
<1>17. CASE StartAudit
  BY <1>17 DEF StartAudit, DeletionInv
<1>18. CASE ListBucket
  BY <1>18 DEF ListBucket, OldEnough, DeletionInv
<1>19. CASE EndAudit
  BY <1>19 DEF EndAudit, DeletionInv
<1>20. ASSUME NEW key \in Keys,
            DeleteUnreferenced(key)
      PROVE  DeletionInv'
  BY <1>20 DEF DeleteUnreferenced, OldEnough, DeletionInv
<1>21. ASSUME NEW key \in Keys,
            Age(key)
      PROVE  DeletionInv'
  BY <1>21 DEF Age, DeletionInv
<1>22. CASE PutVariants
  BY <1>22 DEF PutVariants, Excuse, DeletionInv
<1> QED
  BY ONLY <1>1, <1>2, <1>3, <1>4, <1>5, <1>6, <1>7, <1>8, <1>9, <1>10, <1>11,
          <1>12, <1>13, <1>14, <1>15, <1>16, <1>17, <1>18, <1>19, <1>20, <1>21,
          <1>22, Next
          DEF Next

(* What was settled when the audit read the rows remains so: an upload     *)
(* that was over commits no more rows.                                     *)
LEMMA AuditInvStep ==
  ASSUME TypeOK, AuditInv, UploadInv, Next
  PROVE  AuditInv'
<1> USE Types, ConstantsAssumption DEF Rows, Parts, Keys, KeysOf, others
<1>1. ASSUME NEW m \in Modes, NEW n \in 1..MaxFiles,
            StartUpload(m, n)
      PROVE  AuditInv'
  BY <1>1 DEF StartUpload, AuditInv, Settled, Uploading
<1>2. ASSUME NEW i \in Images,
            NextFile(i)
      PROVE  AuditInv'
  BY <1>2 DEF NextFile, Between, AuditInv, Settled, Uploading
<1>3. ASSUME NEW i \in Images,
            CheckVariants(i)
      PROVE  AuditInv'
  BY <1>3 DEF CheckVariants, AuditInv, Settled, Uploading
<1>4. CASE PutObject
  BY <1>4 DEF PutObject, InFile, NextPart, AuditInv, Settled, Uploading
<1>5. ASSUME NEW landed \in BOOLEAN,
            PutFails(landed)
      PROVE  AuditInv'
  BY <1>5
     DEF PutFails, InFile, NextPart, Compensated, GiveUpFile, Excuse, AuditInv,
         Settled, Uploading
<1>6. CASE CreateRow
  BY <1>6
     DEF CreateRow, InFile, ByItself, AuditInv, Settled, Uploading, UploadInv
<1>7. CASE CreateRowFails
  BY <1>7
     DEF CreateRowFails, InFile, Compensated, GiveUpFile, AuditInv, Settled,
         Uploading
<1>8. CASE CreateRowReplyLost
  BY <1>8
     DEF CreateRowReplyLost, InFile, Compensated, GiveUpFile, Excuse, AuditInv,
         Settled, Uploading, UploadInv
<1>9. CASE EndUpload
  BY <1>9 DEF EndUpload, Between, Excuse, Reports, AuditInv, Settled, Uploading
<1>10. ASSUME NEW S \in SUBSET Keys,
            KillUpload(S)
      PROVE  AuditInv'
  BY <1>10
     DEF KillUpload, InFile, Compensated, Excuse, AuditInv, Settled, Uploading
<1>11. ASSUME NEW S \in SUBSET Rows \ {{}},
            OpenDeletion(S)
      PROVE  AuditInv'
  BY <1>11 DEF OpenDeletion, AuditInv, Settled, Uploading
<1>12. ASSUME NEW S \in SUBSET Rows \ {{}},
            DeleteRowsOnly(S)
      PROVE  AuditInv'
  BY <1>12 DEF DeleteRowsOnly, Excuse, AuditInv, Settled, Uploading
<1>13. CASE RollBackDeletion
  BY <1>13 DEF RollBackDeletion, AuditInv, Settled, Uploading
<1>14. CASE CommitDeletion
  BY <1>14 DEF CommitDeletion, AuditInv, Settled, Uploading
<1>15. CASE KillDeletion
  BY <1>15 DEF KillDeletion, AfterCommit, Excuse, AuditInv, Settled, Uploading
<1>16. ASSUME NEW key \in Keys, NEW fails \in BOOLEAN,
            DeleteObject(key, fails)
      PROVE  AuditInv'
  BY <1>16 DEF DeleteObject, AfterCommit, Excuse, AuditInv, Settled, Uploading
<1>17. CASE StartAudit
  BY <1>17 DEF StartAudit, AuditInv, Settled, Uploading
<1>18. CASE ListBucket
  BY <1>18 DEF ListBucket, OldEnough, AuditInv, Settled, Uploading
<1>19. CASE EndAudit
  BY <1>19 DEF EndAudit, AuditInv, Settled, Uploading
<1>20. ASSUME NEW key \in Keys,
            DeleteUnreferenced(key)
      PROVE  AuditInv'
  BY <1>20 DEF DeleteUnreferenced, OldEnough, AuditInv, Settled, Uploading
<1>21. ASSUME NEW key \in Keys,
            Age(key)
      PROVE  AuditInv'
  BY <1>21 DEF Age, AuditInv, Settled, Uploading
<1>22. CASE PutVariants
  BY <1>22 DEF PutVariants, Excuse, AuditInv, Settled, Uploading
<1> QED
  BY ONLY <1>1, <1>2, <1>3, <1>4, <1>5, <1>6, <1>7, <1>8, <1>9, <1>10, <1>11,
          <1>12, <1>13, <1>14, <1>15, <1>16, <1>17, <1>18, <1>19, <1>20, <1>21,
          <1>22, Next
          DEF Next

(* A row that was read is there, or deleted.                               *)
LEMMA BackfillInvStep ==
  ASSUME TypeOK, BackfillInv, UploadInv, Next
  PROVE  BackfillInv'
<1> USE Types, ConstantsAssumption DEF Rows, Parts, Keys, KeysOf, others
<1>1. ASSUME NEW m \in Modes, NEW n \in 1..MaxFiles,
            StartUpload(m, n)
      PROVE  BackfillInv'
  BY <1>1 DEF StartUpload, BackfillInv
<1>2. ASSUME NEW i \in Images,
            NextFile(i)
      PROVE  BackfillInv'
  BY <1>2 DEF NextFile, Between, BackfillInv
<1>3. ASSUME NEW i \in Images,
            CheckVariants(i)
      PROVE  BackfillInv'
  BY <1>3 DEF CheckVariants, BackfillInv
<1>4. CASE PutObject
  BY <1>4 DEF PutObject, InFile, NextPart, BackfillInv
<1>5. ASSUME NEW landed \in BOOLEAN,
            PutFails(landed)
      PROVE  BackfillInv'
  BY <1>5
     DEF PutFails, InFile, NextPart, Compensated, GiveUpFile, Excuse,
         BackfillInv
<1>6. CASE CreateRow
  BY <1>6 DEF CreateRow, InFile, ByItself, BackfillInv
<1>7. CASE CreateRowFails
  BY <1>7 DEF CreateRowFails, InFile, Compensated, GiveUpFile, BackfillInv
<1>8. CASE CreateRowReplyLost
  BY <1>8
     DEF CreateRowReplyLost, InFile, Compensated, GiveUpFile, Excuse,
         BackfillInv
<1>9. CASE EndUpload
  BY <1>9 DEF EndUpload, Between, Excuse, Reports, BackfillInv
<1>10. ASSUME NEW S \in SUBSET Keys,
            KillUpload(S)
      PROVE  BackfillInv'
  BY <1>10 DEF KillUpload, InFile, Compensated, Excuse, BackfillInv
<1>11. ASSUME NEW S \in SUBSET Rows \ {{}},
            OpenDeletion(S)
      PROVE  BackfillInv'
  BY <1>11 DEF OpenDeletion, BackfillInv
<1>12. ASSUME NEW S \in SUBSET Rows \ {{}},
            DeleteRowsOnly(S)
      PROVE  BackfillInv'
  BY <1>12 DEF DeleteRowsOnly, Excuse, BackfillInv
<1>13. CASE RollBackDeletion
  BY <1>13 DEF RollBackDeletion, BackfillInv
<1>14. CASE CommitDeletion
  BY <1>14 DEF CommitDeletion, BackfillInv
<1>15. CASE KillDeletion
  BY <1>15 DEF KillDeletion, AfterCommit, Excuse, BackfillInv
<1>16. ASSUME NEW key \in Keys, NEW fails \in BOOLEAN,
            DeleteObject(key, fails)
      PROVE  BackfillInv'
  BY <1>16 DEF DeleteObject, AfterCommit, Excuse, BackfillInv
<1>17. CASE StartAudit
  BY <1>17 DEF StartAudit, BackfillInv
<1>18. CASE ListBucket
  BY <1>18 DEF ListBucket, OldEnough, BackfillInv
<1>19. CASE EndAudit
  BY <1>19 DEF EndAudit, BackfillInv
<1>20. ASSUME NEW key \in Keys,
            DeleteUnreferenced(key)
      PROVE  BackfillInv'
  BY <1>20 DEF DeleteUnreferenced, OldEnough, BackfillInv
<1>21. ASSUME NEW key \in Keys,
            Age(key)
      PROVE  BackfillInv'
  BY <1>21 DEF Age, BackfillInv
<1>22. CASE PutVariants
  BY <1>22 DEF PutVariants, Excuse, BackfillInv
<1> QED
  BY ONLY <1>1, <1>2, <1>3, <1>4, <1>5, <1>6, <1>7, <1>8, <1>9, <1>10, <1>11,
          <1>12, <1>13, <1>14, <1>15, <1>16, <1>17, <1>18, <1>19, <1>20, <1>21,
          <1>22, Next
          DEF Next

(* Keys are never given back.                                              *)
LEMMA ReportInvStep ==
  ASSUME TypeOK, ReportInv, UploadInv, Next
  PROVE  ReportInv'
<1> USE Types, ConstantsAssumption DEF Rows, Parts, Keys, KeysOf, others
<1>1. ASSUME NEW m \in Modes, NEW n \in 1..MaxFiles,
            StartUpload(m, n)
      PROVE  ReportInv'
  BY <1>1 DEF StartUpload, ReportInv
<1>2. ASSUME NEW i \in Images,
            NextFile(i)
      PROVE  ReportInv'
  BY <1>2 DEF NextFile, Between, ReportInv
<1>3. ASSUME NEW i \in Images,
            CheckVariants(i)
      PROVE  ReportInv'
  BY <1>3 DEF CheckVariants, ReportInv
<1>4. CASE PutObject
  BY <1>4 DEF PutObject, InFile, NextPart, ReportInv
<1>5. ASSUME NEW landed \in BOOLEAN,
            PutFails(landed)
      PROVE  ReportInv'
  BY <1>5
     DEF PutFails, InFile, NextPart, Compensated, GiveUpFile, Excuse, ReportInv
<1>6. CASE CreateRow
  BY <1>6 DEF CreateRow, InFile, ByItself, ReportInv
<1>7. CASE CreateRowFails
  BY <1>7 DEF CreateRowFails, InFile, Compensated, GiveUpFile, ReportInv
<1>8. CASE CreateRowReplyLost
  BY <1>8
     DEF CreateRowReplyLost, InFile, Compensated, GiveUpFile, Excuse, ReportInv
<1>9. CASE EndUpload
  BY <1>9 DEF EndUpload, Between, Excuse, Reports, ReportInv, UploadInv
<1>10. ASSUME NEW S \in SUBSET Keys,
            KillUpload(S)
      PROVE  ReportInv'
  BY <1>10 DEF KillUpload, InFile, Compensated, Excuse, ReportInv
<1>11. ASSUME NEW S \in SUBSET Rows \ {{}},
            OpenDeletion(S)
      PROVE  ReportInv'
  BY <1>11 DEF OpenDeletion, ReportInv
<1>12. ASSUME NEW S \in SUBSET Rows \ {{}},
            DeleteRowsOnly(S)
      PROVE  ReportInv'
  BY <1>12 DEF DeleteRowsOnly, Excuse, ReportInv
<1>13. CASE RollBackDeletion
  BY <1>13 DEF RollBackDeletion, ReportInv
<1>14. CASE CommitDeletion
  BY <1>14 DEF CommitDeletion, ReportInv
<1>15. CASE KillDeletion
  BY <1>15 DEF KillDeletion, AfterCommit, Excuse, ReportInv
<1>16. ASSUME NEW key \in Keys, NEW fails \in BOOLEAN,
            DeleteObject(key, fails)
      PROVE  ReportInv'
  BY <1>16 DEF DeleteObject, AfterCommit, Excuse, ReportInv
<1>17. CASE StartAudit
  BY <1>17 DEF StartAudit, ReportInv
<1>18. CASE ListBucket
  BY <1>18 DEF ListBucket, OldEnough, ReportInv
<1>19. CASE EndAudit
  BY <1>19 DEF EndAudit, ReportInv
<1>20. ASSUME NEW key \in Keys,
            DeleteUnreferenced(key)
      PROVE  ReportInv'
  BY <1>20 DEF DeleteUnreferenced, OldEnough, ReportInv
<1>21. ASSUME NEW key \in Keys,
            Age(key)
      PROVE  ReportInv'
  BY <1>21 DEF Age, ReportInv
<1>22. CASE PutVariants
  BY <1>22 DEF PutVariants, Excuse, ReportInv
<1> QED
  BY ONLY <1>1, <1>2, <1>3, <1>4, <1>5, <1>6, <1>7, <1>8, <1>9, <1>10, <1>11,
          <1>12, <1>13, <1>14, <1>15, <1>16, <1>17, <1>18, <1>19, <1>20, <1>21,
          <1>22, Next
          DEF Next

(* Each step that leaves an object without an explanation gives it         *)
(* another: the upload or the deletion it belongs to, or an excuse.        *)
LEMMA OrphanInvStep ==
  ASSUME TypeOK, OrphanInv, UploadInv, DeletionInv, BackfillInv, Next
  PROVE  OrphanInv'
<1> USE Types, ConstantsAssumption DEF Rows, Parts, Keys, KeysOf, others
<1>1. ASSUME NEW m \in Modes, NEW n \in 1..MaxFiles,
            StartUpload(m, n)
      PROVE  OrphanInv'
  BY <1>1 DEF StartUpload, OrphanInv, Explained, Uploading, AfterCommit
<1>2. ASSUME NEW i \in Images,
            NextFile(i)
      PROVE  OrphanInv'
  <2> SUFFICES ASSUME NEW k \in objects'
               PROVE  Explained(k)'
    BY DEF OrphanInv
  <2>1. k \in objects /\ upload # Idle /\ upload' # Idle
    BY <1>2 DEF NextFile, Between, Upload, Idle
  <2>2. Explained(k)
    BY <2>1 DEF OrphanInv
  <2>3. Uploading \subseteq Uploading'
    BY <1>2, <2>1 DEF NextFile, Between, Uploading
  <2>4. k[1] \in Images /\ status[k[1]] # "unused"
    BY <2>1
  <2>5. status'[k[1]] = status[k[1]] /\ excused' = excused
        /\ deletion' = deletion
    BY <1>2, <2>4 DEF NextFile, Between
  <2> QED
    BY <2>2, <2>3, <2>4, <2>5 DEF Explained, AfterCommit
<1>3. ASSUME NEW i \in Images,
            CheckVariants(i)
      PROVE  OrphanInv'
  BY <1>3 DEF CheckVariants, OrphanInv, Explained, Uploading, AfterCommit
<1>4. CASE PutObject
  <2> SUFFICES ASSUME NEW k \in objects'
               PROVE  Explained(k)'
    BY DEF OrphanInv
  <2>1. upload # Idle /\ upload' # Idle /\ upload.image # NoImage
    BY <1>4 DEF PutObject, InFile, NextPart, Upload, Idle
  <2>2. Uploading' = Uploading /\ upload.image \in Uploading
    BY <1>4, <2>1 DEF PutObject, InFile, NextPart, Uploading
  <2>3. CASE k \in objects
    <3>1. Explained(k)
      BY <2>3 DEF OrphanInv
    <3> QED
      BY <1>4, <3>1, <2>2
         DEF PutObject, InFile, NextPart, Explained, AfterCommit
  <2>4. CASE k \notin objects
    <3>1. k[1] = upload.image
      BY <1>4, <2>4 DEF PutObject, InFile, NextPart
    <3>2. status[k[1]] = "new"
      BY <2>1, <3>1 DEF UploadInv
    <3> QED
      BY <1>4, <3>1, <3>2, <2>2
         DEF PutObject, InFile, NextPart, Explained, AfterCommit
  <2> QED
    BY <2>3, <2>4
<1>5. ASSUME NEW landed \in BOOLEAN,
            PutFails(landed)
      PROVE  OrphanInv'
  <2> SUFFICES ASSUME NEW k \in objects'
               PROVE  Explained(k)'
    BY DEF OrphanInv
  <2>1. upload # Idle /\ upload.image \in Images /\ upload' # Idle
    BY <1>5
       DEF PutFails, InFile, NextPart, Compensated, GiveUpFile, Excuse, Upload,
           Idle
  <2>2. Uploading = upload.done \cup {upload.image} /\ Uploading' = upload.done
    BY <1>5, <2>1
       DEF PutFails, InFile, NextPart, Compensated, GiveUpFile, Excuse,
           Uploading
  <2>3. CASE k[1] = upload.image
    <3>1. landed
      <4>1. SUFFICES ASSUME ~landed
                     PROVE  FALSE
        OBVIOUS
      <4>2. k \in objects /\ k \notin Compensated
        BY <1>5, <4>1
           DEF PutFails, InFile, NextPart, Compensated, GiveUpFile, Excuse
      <4>3. k = <<upload.image, k[2]>> /\ k[2] \in Parts
        BY <4>2, <2>3
      <4> QED
        BY <2>1, <4>2, <4>3 DEF UploadInv, Compensated
    <3>2. upload.image \in excused'
      BY <1>5, <3>1
         DEF PutFails, InFile, NextPart, Compensated, GiveUpFile, Excuse
    <3> QED
      BY <2>3, <3>2 DEF Explained
  <2>4. CASE k[1] # upload.image
    <3>1. k \in objects
      BY <1>5, <2>4
         DEF PutFails, InFile, NextPart, Compensated, GiveUpFile, Excuse
    <3>2. Explained(k)
      BY <3>1 DEF OrphanInv
    <3> QED
      BY <1>5, <2>2, <2>4, <3>2
         DEF PutFails, InFile, NextPart, Compensated, GiveUpFile, Excuse,
             Explained, AfterCommit
  <2> QED
    BY <2>3, <2>4
<1>6. CASE CreateRow
  <2> SUFFICES ASSUME NEW k \in objects'
               PROVE  Explained(k)'
    BY DEF OrphanInv
  <2>1. upload # Idle /\ upload.image \in Images /\ upload' # Idle
    BY <1>6 DEF CreateRow, InFile, ByItself, Upload, Idle
  <2>2. Uploading' = Uploading
    BY <1>6, <2>1 DEF CreateRow, InFile, ByItself, Uploading
  <2>3. k \in objects /\ k[1] \in Images
    BY <1>6 DEF CreateRow, InFile, ByItself
  <2>4. Explained(k)
    BY <2>3 DEF OrphanInv
  <2>5. status'[k[1]] = status[k[1]] \/ status'[k[1]] = "row"
    BY <1>6, <2>3, <2>1 DEF CreateRow, InFile, ByItself
  <2>6. deletion' = deletion /\ excused' = excused
    BY <1>6 DEF CreateRow, InFile, ByItself
  <2> QED
    BY <2>2, <2>3, <2>4, <2>5, <2>6 DEF Explained, AfterCommit
<1>7. CASE CreateRowFails
  <2> SUFFICES ASSUME NEW k \in objects'
               PROVE  Explained(k)'
    BY DEF OrphanInv
  <2>1. upload # Idle /\ upload.image \in Images /\ upload' # Idle
    BY <1>7 DEF CreateRowFails, InFile, Compensated, GiveUpFile, Upload, Idle
  <2>2. Uploading = upload.done \cup {upload.image} /\ Uploading' = upload.done
    BY <1>7, <2>1
       DEF CreateRowFails, InFile, Compensated, GiveUpFile, Uploading
  <2>3. k \in objects /\ k \notin Compensated
    BY <1>7 DEF CreateRowFails, InFile, Compensated, GiveUpFile
  <2>4. Explained(k)
    BY <2>3 DEF OrphanInv
  <2>5. k = <<k[1], k[2]>> /\ k[1] \in Images /\ k[2] \in Parts
    BY <2>3
  <2>6. k[1] # upload.image
    BY <1>7, <2>1, <2>3, <2>5
       DEF CreateRowFails, InFile, Compensated, GiveUpFile, UploadInv
  <2> QED
    BY <1>7, <2>2, <2>4, <2>6
       DEF CreateRowFails, InFile, Compensated, GiveUpFile, Explained,
           AfterCommit
<1>8. CASE CreateRowReplyLost
  <2> SUFFICES ASSUME NEW k \in objects'
               PROVE  Explained(k)'
    BY DEF OrphanInv
  <2>1. upload # Idle /\ upload.image \in Images /\ upload' # Idle
    BY <1>8
       DEF CreateRowReplyLost, InFile, Compensated, GiveUpFile, Excuse, Upload,
           Idle
  <2>2. Uploading = upload.done \cup {upload.image} /\ Uploading' = upload.done
    BY <1>8, <2>1
       DEF CreateRowReplyLost, InFile, Compensated, GiveUpFile, Excuse,
           Uploading
  <2>3. k \in objects /\ k[1] \in Images
    BY <1>8 DEF CreateRowReplyLost, InFile, Compensated, GiveUpFile, Excuse
  <2>4. Explained(k)
    BY <2>3 DEF OrphanInv
  <2>5. CASE k[1] = upload.image
    BY <1>8, <2>5
       DEF CreateRowReplyLost, InFile, Compensated, GiveUpFile, Excuse,
           Explained
  <2>6. CASE k[1] # upload.image
    BY <1>8, <2>2, <2>3, <2>4, <2>6
       DEF CreateRowReplyLost, InFile, Compensated, GiveUpFile, Excuse,
           Explained, AfterCommit
  <2> QED
    BY <2>5, <2>6
<1>9. CASE EndUpload
  BY <1>9
     DEF EndUpload, Between, Excuse, Reports, OrphanInv, Explained, Uploading,
         AfterCommit
<1>10. ASSUME NEW S \in SUBSET Keys,
            KillUpload(S)
      PROVE  OrphanInv'
  BY <1>10
     DEF KillUpload, InFile, Compensated, Excuse, OrphanInv, Explained,
         Uploading, AfterCommit
<1>11. ASSUME NEW S \in SUBSET Rows \ {{}},
            OpenDeletion(S)
      PROVE  OrphanInv'
  BY <1>11 DEF OpenDeletion, OrphanInv, Explained, Uploading, AfterCommit
<1>12. ASSUME NEW S \in SUBSET Rows \ {{}},
            DeleteRowsOnly(S)
      PROVE  OrphanInv'
  BY <1>12
     DEF DeleteRowsOnly, Excuse, OrphanInv, Explained, Uploading, AfterCommit
<1>13. CASE RollBackDeletion
  BY <1>13 DEF RollBackDeletion, OrphanInv, Explained, Uploading, AfterCommit
<1>14. CASE CommitDeletion
  <2> SUFFICES ASSUME NEW k \in objects'
               PROVE  Explained(k)'
    BY DEF OrphanInv
  <2>1. /\ k \in objects /\ k = <<k[1], k[2]>> /\ k[1] \in Images
        /\ k[2] \in Parts
    BY <1>14 DEF CommitDeletion
  <2>2. Explained(k)
    BY <2>1 DEF OrphanInv
  <2>3. deletion' # Idle /\ deletion'.at = "committed"
        /\ deletion'.keys = deletion.keys
    BY <1>14 DEF CommitDeletion, Deletion, Idle
  <2>4. upload' = upload /\ excused' = excused /\ deletion.at = "open"
    BY <1>14 DEF CommitDeletion
  <2>5. CASE k[1] \in deletion.images
    <3>1. k \in deletion.keys
      BY <1>14, <2>1, <2>5, <2>4 DEF CommitDeletion, DeletionInv
    <3> QED
      BY <3>1, <2>3 DEF Explained, AfterCommit
  <2>6. CASE k[1] \notin deletion.images
    <3>1. status'[k[1]] = status[k[1]]
      BY <1>14, <2>1, <2>6 DEF CommitDeletion
    <3> QED
      BY <2>1, <2>2, <2>4, <3>1 DEF Explained, AfterCommit, Uploading
  <2> QED
    BY <2>5, <2>6
<1>15. CASE KillDeletion
  BY <1>15
     DEF KillDeletion, AfterCommit, Excuse, OrphanInv, Explained, Uploading,
         AfterCommit
<1>16. ASSUME NEW key \in Keys, NEW fails \in BOOLEAN,
            DeleteObject(key, fails)
      PROVE  OrphanInv'
  <2> SUFFICES ASSUME NEW k \in objects'
               PROVE  Explained(k)'
    BY DEF OrphanInv
  <2>1. k \in objects /\ k[1] \in Images
    BY <1>16 DEF DeleteObject, AfterCommit, Excuse
  <2>2. Explained(k)
    BY <2>1 DEF OrphanInv
  <2>3. /\ status' = status /\ upload' = upload
        /\ excused \subseteq excused'
    BY <1>16 DEF DeleteObject, AfterCommit, Excuse
  <2>4. CASE k = key
    <3>1. fails
      BY <1>16, <2>4 DEF DeleteObject, AfterCommit, Excuse
    <3> QED
      BY <1>16, <2>4, <3>1 DEF DeleteObject, AfterCommit, Excuse, Explained
  <2>5. CASE k # key /\ k \in deletion.keys
    <3>1. deletion' = [deletion EXCEPT !.keys = @ \ {key}]
      BY <1>16, <2>5 DEF DeleteObject, AfterCommit, Excuse
    <3>2. deletion' # Idle /\ deletion'.at = "committed"
          /\ k \in deletion'.keys
      BY <1>16, <3>1, <2>5
         DEF DeleteObject, AfterCommit, Excuse, Deletion, Idle
    <3> QED
      BY <3>2 DEF Explained, AfterCommit
  <2>6. CASE k \notin deletion.keys
    BY <2>1, <2>2, <2>3, <2>6 DEF Explained, AfterCommit, Uploading
  <2> QED
    BY <2>4, <2>5, <2>6
<1>17. CASE StartAudit
  BY <1>17 DEF StartAudit, OrphanInv, Explained, Uploading, AfterCommit
<1>18. CASE ListBucket
  BY <1>18
     DEF ListBucket, OldEnough, OrphanInv, Explained, Uploading, AfterCommit
<1>19. CASE EndAudit
  BY <1>19 DEF EndAudit, OrphanInv, Explained, Uploading, AfterCommit
<1>20. ASSUME NEW key \in Keys,
            DeleteUnreferenced(key)
      PROVE  OrphanInv'
  BY <1>20
     DEF DeleteUnreferenced, OldEnough, OrphanInv, Explained, Uploading,
         AfterCommit
<1>21. ASSUME NEW key \in Keys,
            Age(key)
      PROVE  OrphanInv'
  BY <1>21 DEF Age, OrphanInv, Explained, Uploading, AfterCommit
<1>22. CASE PutVariants
  BY <1>22
     DEF PutVariants, Excuse, OrphanInv, Explained, Uploading, AfterCommit
<1> QED
  BY ONLY <1>1, <1>2, <1>3, <1>4, <1>5, <1>6, <1>7, <1>8, <1>9, <1>10, <1>11,
          <1>12, <1>13, <1>14, <1>15, <1>16, <1>17, <1>18, <1>19, <1>20, <1>21,
          <1>22, Next
          DEF Next

(* No step deletes an object whose row is there: the compensation of an    *)
(* upload is about a row that is not, the keys of a deletion are about     *)
(* rows that are deleted, and the doomed of an audit were known, settled   *)
(* and not referenced.                                                     *)
LEMMA ImagesHaveObjectsStep ==
  ASSUME TypeOK, ImagesHaveObjects, UploadInv, DeletionInv, AuditInv, Next
  PROVE  ImagesHaveObjects'
<1> USE Types, ConstantsAssumption DEF Rows, Parts, Keys, KeysOf, others
<1>1. ASSUME NEW m \in Modes, NEW n \in 1..MaxFiles,
            StartUpload(m, n)
      PROVE  ImagesHaveObjects'
  BY <1>1 DEF StartUpload, ImagesHaveObjects, Uploading
<1>2. ASSUME NEW i \in Images,
            NextFile(i)
      PROVE  ImagesHaveObjects'
  BY <1>2 DEF NextFile, Between, ImagesHaveObjects, Uploading
<1>3. ASSUME NEW i \in Images,
            CheckVariants(i)
      PROVE  ImagesHaveObjects'
  BY <1>3 DEF CheckVariants, ImagesHaveObjects, Uploading
<1>4. CASE PutObject
  BY <1>4 DEF PutObject, InFile, NextPart, ImagesHaveObjects, Uploading
<1>5. ASSUME NEW landed \in BOOLEAN,
            PutFails(landed)
      PROVE  ImagesHaveObjects'
  BY <1>5
     DEF PutFails, InFile, NextPart, Compensated, GiveUpFile, Excuse,
         ImagesHaveObjects, Uploading, UploadInv
<1>6. CASE CreateRow
  BY <1>6
     DEF CreateRow, InFile, ByItself, ImagesHaveObjects, Uploading, UploadInv
<1>7. CASE CreateRowFails
  BY <1>7
     DEF CreateRowFails, InFile, Compensated, GiveUpFile, ImagesHaveObjects,
         Uploading, UploadInv
<1>8. CASE CreateRowReplyLost
  BY <1>8
     DEF CreateRowReplyLost, InFile, Compensated, GiveUpFile, Excuse,
         ImagesHaveObjects, Uploading
<1>9. CASE EndUpload
  BY <1>9
     DEF EndUpload, Between, Excuse, Reports, ImagesHaveObjects, Uploading,
         UploadInv
<1>10. ASSUME NEW S \in SUBSET Keys,
            KillUpload(S)
      PROVE  ImagesHaveObjects'
  BY <1>10
     DEF KillUpload, InFile, Compensated, Excuse, ImagesHaveObjects, Uploading,
         UploadInv
<1>11. ASSUME NEW S \in SUBSET Rows \ {{}},
            OpenDeletion(S)
      PROVE  ImagesHaveObjects'
  BY <1>11 DEF OpenDeletion, ImagesHaveObjects, Uploading
<1>12. ASSUME NEW S \in SUBSET Rows \ {{}},
            DeleteRowsOnly(S)
      PROVE  ImagesHaveObjects'
  BY <1>12 DEF DeleteRowsOnly, Excuse, ImagesHaveObjects, Uploading
<1>13. CASE RollBackDeletion
  BY <1>13 DEF RollBackDeletion, ImagesHaveObjects, Uploading
<1>14. CASE CommitDeletion
  BY <1>14 DEF CommitDeletion, ImagesHaveObjects, Uploading
<1>15. CASE KillDeletion
  BY <1>15 DEF KillDeletion, AfterCommit, Excuse, ImagesHaveObjects, Uploading
<1>16. ASSUME NEW key \in Keys, NEW fails \in BOOLEAN,
            DeleteObject(key, fails)
      PROVE  ImagesHaveObjects'
  <2>1. deletion # Idle /\ deletion.at = "committed"
        /\ key \in deletion.keys /\ status' = status
        /\ excused \subseteq excused'
    BY <1>16 DEF DeleteObject, AfterCommit, Excuse
  <2>2. status[key[1]] = "deleted"
    BY <2>1 DEF DeletionInv
  <2>3. \A i \in Rows : \A p \in Parts :
           <<i, p>> \in objects => <<i, p>> \in objects'
    BY <1>16, <2>2 DEF DeleteObject, AfterCommit, Excuse
  <2> QED
    BY <2>1, <2>3 DEF ImagesHaveObjects
<1>17. CASE StartAudit
  BY <1>17 DEF StartAudit, ImagesHaveObjects, Uploading
<1>18. CASE ListBucket
  BY <1>18 DEF ListBucket, OldEnough, ImagesHaveObjects, Uploading
<1>19. CASE EndAudit
  BY <1>19 DEF EndAudit, ImagesHaveObjects, Uploading
<1>20. ASSUME NEW key \in Keys,
            DeleteUnreferenced(key)
      PROVE  ImagesHaveObjects'
  <2>1. audit # Idle /\ key \in audit.doomed /\ status' = status
        /\ excused' = excused /\ key[1] \in Images
    BY <1>20 DEF DeleteUnreferenced, OldEnough
  <2>2. key[1] \notin Rows
    BY <2>1 DEF AuditInv, Settled
  <2>3. \A i \in Rows : \A p \in Parts :
           <<i, p>> \in objects => <<i, p>> \in objects'
    BY <1>20, <2>2 DEF DeleteUnreferenced, OldEnough
  <2> QED
    BY <2>1, <2>3 DEF ImagesHaveObjects
<1>21. ASSUME NEW key \in Keys,
            Age(key)
      PROVE  ImagesHaveObjects'
  BY <1>21 DEF Age, ImagesHaveObjects, Uploading
<1>22. CASE PutVariants
  BY <1>22 DEF PutVariants, Excuse, ImagesHaveObjects, Uploading
<1> QED
  BY ONLY <1>1, <1>2, <1>3, <1>4, <1>5, <1>6, <1>7, <1>8, <1>9, <1>10, <1>11,
          <1>12, <1>13, <1>14, <1>15, <1>16, <1>17, <1>18, <1>19, <1>20, <1>21,
          <1>22, Next
          DEF Next

(* What is reported at the end of a single upload or one with a key is a   *)
(* row, and was committed with it.                                         *)
LEMMA KeyedReportsTrueStep ==
  ASSUME TypeOK, KeyedReportsTrue, ReportInv, UploadInv, Next
  PROVE  KeyedReportsTrue'
<1> USE Types, ConstantsAssumption DEF Rows, Parts, Keys, KeysOf, others
<1>1. ASSUME NEW m \in Modes, NEW n \in 1..MaxFiles,
            StartUpload(m, n)
      PROVE  KeyedReportsTrue'
  BY <1>1 DEF StartUpload, KeyedReportsTrue, Saved, Modes
<1>2. ASSUME NEW i \in Images,
            NextFile(i)
      PROVE  KeyedReportsTrue'
  BY <1>2
     DEF NextFile, Between, KeyedReportsTrue, Saved, Modes, UploadInv,
         ReportInv
<1>3. ASSUME NEW i \in Images,
            CheckVariants(i)
      PROVE  KeyedReportsTrue'
  BY <1>3 DEF CheckVariants, KeyedReportsTrue, Saved, Modes
<1>4. CASE PutObject
  BY <1>4 DEF PutObject, InFile, NextPart, KeyedReportsTrue, Saved, Modes
<1>5. ASSUME NEW landed \in BOOLEAN,
            PutFails(landed)
      PROVE  KeyedReportsTrue'
  BY <1>5
     DEF PutFails, InFile, NextPart, Compensated, GiveUpFile, Excuse,
         KeyedReportsTrue, Saved, Modes
<1>6. CASE CreateRow
  BY <1>6 DEF CreateRow, InFile, ByItself, KeyedReportsTrue, Saved, Modes
<1>7. CASE CreateRowFails
  BY <1>7
     DEF CreateRowFails, InFile, Compensated, GiveUpFile, KeyedReportsTrue,
         Saved, Modes
<1>8. CASE CreateRowReplyLost
  BY <1>8
     DEF CreateRowReplyLost, InFile, Compensated, GiveUpFile, Excuse,
         KeyedReportsTrue, Saved, Modes
<1>9. CASE EndUpload
  BY <1>9
     DEF EndUpload, Between, Excuse, Reports, KeyedReportsTrue, Saved, Modes,
         UploadInv, ReportInv
<1>10. ASSUME NEW S \in SUBSET Keys,
            KillUpload(S)
      PROVE  KeyedReportsTrue'
  BY <1>10
     DEF KillUpload, InFile, Compensated, Excuse, KeyedReportsTrue, Saved,
         Modes
<1>11. ASSUME NEW S \in SUBSET Rows \ {{}},
            OpenDeletion(S)
      PROVE  KeyedReportsTrue'
  BY <1>11 DEF OpenDeletion, KeyedReportsTrue, Saved, Modes
<1>12. ASSUME NEW S \in SUBSET Rows \ {{}},
            DeleteRowsOnly(S)
      PROVE  KeyedReportsTrue'
  BY <1>12 DEF DeleteRowsOnly, Excuse, KeyedReportsTrue, Saved, Modes
<1>13. CASE RollBackDeletion
  BY <1>13 DEF RollBackDeletion, KeyedReportsTrue, Saved, Modes
<1>14. CASE CommitDeletion
  BY <1>14 DEF CommitDeletion, KeyedReportsTrue, Saved, Modes
<1>15. CASE KillDeletion
  BY <1>15
     DEF KillDeletion, AfterCommit, Excuse, KeyedReportsTrue, Saved, Modes
<1>16. ASSUME NEW key \in Keys, NEW fails \in BOOLEAN,
            DeleteObject(key, fails)
      PROVE  KeyedReportsTrue'
  BY <1>16
     DEF DeleteObject, AfterCommit, Excuse, KeyedReportsTrue, Saved, Modes
<1>17. CASE StartAudit
  BY <1>17 DEF StartAudit, KeyedReportsTrue, Saved, Modes
<1>18. CASE ListBucket
  BY <1>18 DEF ListBucket, OldEnough, KeyedReportsTrue, Saved, Modes
<1>19. CASE EndAudit
  BY <1>19 DEF EndAudit, KeyedReportsTrue, Saved, Modes
<1>20. ASSUME NEW key \in Keys,
            DeleteUnreferenced(key)
      PROVE  KeyedReportsTrue'
  BY <1>20 DEF DeleteUnreferenced, OldEnough, KeyedReportsTrue, Saved, Modes
<1>21. ASSUME NEW key \in Keys,
            Age(key)
      PROVE  KeyedReportsTrue'
  BY <1>21 DEF Age, KeyedReportsTrue, Saved, Modes
<1>22. CASE PutVariants
  BY <1>22 DEF PutVariants, Excuse, KeyedReportsTrue, Saved, Modes
<1> QED
  BY ONLY <1>1, <1>2, <1>3, <1>4, <1>5, <1>6, <1>7, <1>8, <1>9, <1>10, <1>11,
          <1>12, <1>13, <1>14, <1>15, <1>16, <1>17, <1>18, <1>19, <1>20, <1>21,
          <1>22, Next
          DEF Next

(* At first nothing is under way, and old images have their originals.     *)
LEMMA Initially == Init => IInv
<1> SUFFICES ASSUME Init
             PROVE  IInv
  OBVIOUS
<1> USE ConstantsAssumption DEF Init
<1>1. TypeOK
  BY DEF TypeOK, Rows, Keys, Parts, Modes, Idle
<1>2. UploadInv /\ DeletionInv /\ AuditInv /\ BackfillInv /\ ReportInv
  BY DEF UploadInv, DeletionInv, AuditInv, Uploading, BackfillInv, ReportInv
<1>3. OrphanInv
  BY DEF OrphanInv, Explained
<1>4. ImagesHaveObjects
  BY DEF ImagesHaveObjects, Rows
<1>5. KeyedReportsTrue
  BY DEF KeyedReportsTrue, Saved
<1> QED
  BY <1>1, <1>2, <1>3, <1>4, <1>5 DEF IInv

(* A step that changes nothing.                                            *)
LEMMA Stuttering ==
  ASSUME IInv, UNCHANGED vars
  PROVE  IInv'
BY DEF IInv, vars, others, TypeOK, UploadInv, DeletionInv, AuditInv, Settled,
       BackfillInv, ReportInv, OrphanInv, Explained, ImagesHaveObjects,
       KeyedReportsTrue, Saved, Rows, Uploading, AfterCommit

(* IInv is invariant.                                                      *)
THEOREM Inductive == Spec => []IInv
<1>1. IInv /\ [Next]_vars => IInv'
  <2> SUFFICES ASSUME IInv, [Next]_vars
               PROVE  IInv'
    OBVIOUS
  <2>1. CASE Next
    BY <2>1, TypeOKStep, UploadInvStep, DeletionInvStep, AuditInvStep,
       BackfillInvStep, ReportInvStep, OrphanInvStep, ImagesHaveObjectsStep,
       KeyedReportsTrueStep DEF IInv
  <2>2. CASE UNCHANGED vars
    BY <2>2, Stuttering
  <2> QED
    BY <2>1, <2>2
<1> QED
  BY <1>1, Initially, PTL DEF Spec

(* TypeOK holds, for any images and bulk uploads of any length.            *)
THEOREM TypeCorrect == Spec => []TypeOK
<1>1. IInv => TypeOK
  BY DEF IInv
<1> QED
  BY <1>1, Inductive, PTL

(* ImagesHaveObjects: no race of uploads, deletions, backfills and audits  *)
(* loses an object of an image whose row is there (services.py:136-146,    *)
(* audit_media.py:61-76).                                                  *)
THEOREM RowsKeepTheirObjects == Spec => []ImagesHaveObjects
<1>1. IInv => ImagesHaveObjects
  BY DEF IInv
<1> QED
  BY <1>1, Inductive, PTL

(* NoUnexplainedOrphan: what is in the bucket without a row belongs to an  *)
(* upload or a deletion under way, or is excused (services.py:83-87).      *)
THEOREM OrphansAreExplained == Spec => []NoUnexplainedOrphan
<1>1. IInv => NoUnexplainedOrphan
  BY DEF IInv, OrphanInv, Explained, NoUnexplainedOrphan
<1> QED
  BY <1>1, Inductive, PTL

(* KeyedReportsTrue: a single upload, or one with an Idempotency-Key,      *)
(* reports no image as saved that is not (uploads.py:142-152).             *)
THEOREM ReportsAreTrue == Spec => []KeyedReportsTrue
<1>1. IInv => KeyedReportsTrue
  BY DEF IInv
<1> QED
  BY <1>1, Inductive, PTL

=============================================================================
