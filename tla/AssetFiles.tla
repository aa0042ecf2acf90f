------------------------------ MODULE AssetFiles ------------------------------
(***************************************************************************)
(* Assets: the file of an asset is in R2, its record in the tenant's       *)
(* object, and nothing makes or removes both at once.  An upload puts the  *)
(* file first and creates the record then; a deletion takes the record     *)
(* first; operators remove files that no live record refers to.  Every     *)
(* request that stores a file does so under an id of its own, which is the *)
(* asset's: uploads and assets are the same set here.                      *)
(***************************************************************************)
CONSTANTS
  Assets,
  UploadTokens,
  Nobody       \* no token

ASSUME NobodyAssumption == Nobody \notin UploadTokens

VARIABLES
  tokenState,  \* asset_upload_tokens
  claimedBy,   \* the token an upload came with
  uploadAt,    \* where the upload is
  files,       \* the keys in R2
  assetRecord, \* records of type asset
  removals,    \* deletions that have still to remove the file
  cleaning,    \* removals of orphans under way: the keys that were looked up again
  exposed      \* history: deleted together with the file, or without a live
               \* record when its file was looked up for removal

uploadVars == <<tokenState, claimedBy, uploadAt>>
assetVars == <<uploadVars, files, assetRecord, removals, cleaning, exposed>>

LiveAssets == {a \in Assets : assetRecord[a] = "live"}

AssetsInit ==
  /\ tokenState = [t \in UploadTokens |-> "none"] /\ claimedBy = [a \in Assets |-> Nobody]
  /\ uploadAt = [a \in Assets |-> "new"] /\ files = {}
  /\ assetRecord = [a \in Assets |-> "none"] /\ removals = {}
  /\ cleaning = {} /\ exposed = {}

Moves(a, from, to) == uploadAt[a] = from /\ uploadAt' = [uploadAt EXCEPT ![a] = to]

(***************************************************************************)
(* Uploads.                                                                *)
(***************************************************************************)
CreateAssetUpload(t) ==
  /\ tokenState[t] = "none" /\ tokenState' = [tokenState EXCEPT ![t] = "open"]
  /\ UNCHANGED <<claimedBy, uploadAt, files, assetRecord, removals, cleaning, exposed>>

TokenExpires(t) ==
  /\ tokenState[t] = "open" /\ tokenState' = [tokenState EXCEPT ![t] = "closed"]
  /\ UNCHANGED <<claimedBy, uploadAt, files, assetRecord, removals, cleaning, exposed>>

\* Mistake: the token is closed once the upload has succeeded.
ClaimedLater(t) == tokenState' = tokenState

\* used_at is set in the transaction that looks at it, before anything is stored.
Claimed(t) == tokenState' = [tokenState EXCEPT ![t] = "closed"]

ClaimAssetUpload(a, t) ==
  /\ tokenState[t] = "open" /\ Claimed(t)
  /\ claimedBy' = [claimedBy EXCEPT ![a] = t] /\ Moves(a, "new", "claimed")
  /\ UNCHANGED <<files, assetRecord, removals, cleaning, exposed>>

\* Blocks, the issuer's token and role of now: an upload may be refused here,
\* and its token stays closed.
AdmitUpload(a) ==
  /\ Moves(a, "claimed", "admitted") \/ Moves(a, "claimed", "over")
  /\ UNCHANGED <<tokenState, claimedBy, files, assetRecord, removals, cleaning, exposed>>

\* The administrator's upload, or an import from a URL: no token of this kind.
StartUpload(a) ==
  /\ Moves(a, "new", "admitted")
  /\ UNCHANGED <<tokenState, claimedBy, files, assetRecord, removals, cleaning, exposed>>

PutFile(a) ==
  /\ \/ Moves(a, "admitted", "put") /\ files' = files \cup {a}
     \/ Moves(a, "admitted", "over") /\ files' \in {files, files \cup {a}}
  /\ UNCHANGED <<tokenState, claimedBy, assetRecord, removals, cleaning, exposed>>

\* Mistake: a call that throws counts as one that was refused.
AfterAnswerCaught(answer) == IF answer = "ok" THEN "over" ELSE "refused"

\* A call that throws leaves the request, whether or not the object did it.
AfterAnswer(answer) == IF answer = "refused" THEN "refused" ELSE "over"

CreateAssetRecord(a) ==
  /\ \E answer \in {"ok", "refused", "thrown"} :
       /\ Moves(a, "put", AfterAnswer(answer))
       /\ \/ answer # "refused" /\ assetRecord' = [assetRecord EXCEPT ![a] = "live"]
          \/ answer # "ok" /\ UNCHANGED assetRecord
  /\ UNCHANGED <<tokenState, claimedBy, files, removals, cleaning, exposed>>

RemoveRefusedFile(a) ==
  /\ Moves(a, "refused", "over")
  /\ files' \in {files, files \ {a}}
  /\ UNCHANGED <<tokenState, claimedBy, assetRecord, removals, cleaning, exposed>>

(***************************************************************************)
(* Deletion and restoration.                                               *)
(***************************************************************************)
\* By the administrator's route, which accepts a record deleted before.
DeleteAsset(a) ==
  /\ assetRecord[a] # "none" /\ assetRecord' = [assetRecord EXCEPT ![a] = "deleted"]
  /\ removals' = removals \cup {a} /\ exposed' = exposed \cup {a}
  /\ UNCHANGED <<uploadVars, files, cleaning>>

\* It does not look whether the record is back by now.
RemoveDeletedFile(a) ==
  /\ a \in removals /\ removals' = removals \ {a}
  /\ files' \in {files, files \ {a}}
  /\ UNCHANGED <<uploadVars, assetRecord, cleaning, exposed>>

\* Through the sync protocol or by an agent: the file stays.
DeleteAssetRecord(a) ==
  /\ assetRecord[a] = "live" /\ assetRecord' = [assetRecord EXCEPT ![a] = "deleted"]
  /\ UNCHANGED <<uploadVars, files, removals, cleaning, exposed>>

RestoreAsset(a) ==
  /\ assetRecord[a] = "deleted" /\ assetRecord' = [assetRecord EXCEPT ![a] = "live"]
  /\ UNCHANGED <<uploadVars, files, removals, cleaning, exposed>>

(***************************************************************************)
(* Files without a record.  The list of them is a read of the operator's:  *)
(* it writes nothing, and a removal takes any keys of the tenant, listed   *)
(* or not.  Several removals may be under way.                             *)
(***************************************************************************)
\* Mistake: what the operator asks for is removed without another look.
NotLookedAt(keys) == FALSE

StillReferenced(keys) == keys \cap LiveAssets # {}

LookAgain(keys) ==
  /\ keys # {} /\ ~ StillReferenced(keys)
  /\ cleaning' = cleaning \cup keys /\ exposed' = exposed \cup (keys \ LiveAssets)
  /\ UNCHANGED <<uploadVars, files, assetRecord, removals>>

\* Of one removal or of some; a call to R2 may fail in part, and another
\* removal of the same keys may still be to come.
RemoveOrphans ==
  /\ cleaning # {} /\ cleaning' \in SUBSET cleaning
  /\ \E gone \in SUBSET cleaning : files' = files \ gone
  /\ UNCHANGED <<uploadVars, assetRecord, removals, exposed>>

AssetsNext ==
  \/ \E t \in UploadTokens :
       CreateAssetUpload(t) \/ TokenExpires(t) \/ \E a \in Assets : ClaimAssetUpload(a, t)
  \/ \E a \in Assets :
       \/ AdmitUpload(a) \/ StartUpload(a) \/ PutFile(a) \/ CreateAssetRecord(a)
       \/ RemoveRefusedFile(a) \/ DeleteAsset(a) \/ RemoveDeletedFile(a)
       \/ DeleteAssetRecord(a) \/ RestoreAsset(a)
  \/ RemoveOrphans
  \/ \E keys \in SUBSET Assets : LookAgain(keys)

AssetsSpec == AssetsInit /\ [][AssetsNext]_assetVars

(***************************************************************************)
(* What is promised.                                                       *)
(***************************************************************************)
\* A live asset has its file, whatever requests fail or throw and however a
\* removal of orphans meets uploads, deletions and restorations; except for an
\* asset that the administrator's route has deleted before, or that had no live
\* record when the removal looked it up (routes/super.ts:320 and the README, section 6).
LiveAssetHasFile == \A a \in LiveAssets \ exposed : a \in files

\* An upload token makes one asset at most (do/asset-uploads.ts: used up before
\* anything is stored, and never to be used again, even if storing fails).
TokenUsedOnce ==
  \A a, b \in Assets :
    assetRecord[a] # "none" /\ claimedBy[a] # Nobody /\ claimedBy[b] = claimedBy[a] => a = b

\* Both: every asset is the outcome of one upload, and whole.
AssetsSound == LiveAssetHasFile /\ TokenUsedOnce

===============================================================================
