------------------------------ MODULE AssetStore ------------------------------
(***************************************************************************)
(* Uploaded files: the content on disk (assets.Store) and the row that     *)
(* describes it.  An upload writes the content first and the row           *)
(* afterwards, a deletion removes the content first and the row            *)
(* afterwards, and each of these can fail.  Store.total, which nothing     *)
(* compares with a limit, is left out.                                     *)
(*                                                                         *)
(* These are the steps of the handlers; Server puts them together.         *)
(***************************************************************************)
EXTENDS Naturals

CONSTANTS
  FileUsers, \* goroutines that serve requests
  Files      \* ids of uploads, each used once

VARIABLES
  disk,    \* the content: none, partial or whole
  rows,    \* files with a row
  used,    \* ids given out
  file,    \* the file a handler works on
  got,     \* what a download has opened
  removed  \* history: files somebody has asked to delete

assetVars == <<disk, rows, used, file, got, removed>>

NoFile == "no file"

AssetInit ==
  /\ disk = [f \in Files |-> "none"] /\ rows = {} /\ used = {}
  /\ file = [h \in FileUsers |-> NoFile] /\ got = [h \in FileUsers |-> "nothing"]
  /\ removed = {}

\* Mutant of Create: an id that may have been given out before.
CreateAnyId(h) ==
  /\ \E f \in Files :
       /\ disk' = [disk EXCEPT ![f] = "partial"]
       /\ file' = [file EXCEPT ![h] = f]
  /\ UNCHANGED <<rows, used, got, removed>>

\* Put: a new id and an empty file.
Create(h) ==
  /\ \E f \in Files \ used :
       /\ used' = used \union {f}
       /\ disk' = [disk EXCEPT ![f] = "partial"]
       /\ file' = [file EXCEPT ![h] = f]
  /\ UNCHANGED <<rows, got, removed>>

\* The loop that copies the body.  A body over the limit removes the file, an
\* error in reading or writing leaves what there is.
WriteAll(h) ==
  /\ disk' = [disk EXCEPT ![file[h]] = "whole"]
  /\ UNCHANGED <<rows, used, file, got, removed>>

WriteTooLarge(h) ==
  /\ disk' = [disk EXCEPT ![file[h]] = "none"]
  /\ UNCHANGED <<rows, used, file, got, removed>>

CreateRow(h) ==
  /\ rows' = rows \union {file[h]}
  /\ UNCHANGED <<disk, used, file, got, removed>>

\* Mutant of Preview: any content there is, an upload's in progress too.
PreviewAny(h) ==
  /\ \E f \in used :
       /\ file' = [file EXCEPT ![h] = f]
       /\ got' = [got EXCEPT ![h] = disk[f]]
  /\ UNCHANGED <<disk, rows, used, removed>>

\* HandleAssets opens the content of an id the client has seen, without a row.
Preview(h) ==
  /\ \E f \in rows \union removed :
       /\ file' = [file EXCEPT ![h] = f]
       /\ got' = [got EXCEPT ![h] = disk[f]]
  /\ UNCHANGED <<disk, rows, used, removed>>

\* GetFile by an id the client knows.
Find(h, f) ==
  /\ f \in rows
  /\ file' = [file EXCEPT ![h] = f]
  /\ UNCHANGED <<disk, rows, used, got, removed>>

\* An open file keeps its content when it is removed.
Open(h) ==
  /\ got' = [got EXCEPT ![h] = disk[file[h]]]
  /\ UNCHANGED <<disk, rows, used, file, removed>>

RemoveContent(h) ==
  /\ disk' = [disk EXCEPT ![file[h]] = "none"]
  /\ removed' = removed \union {file[h]}
  /\ UNCHANGED <<rows, used, file, got>>

DeleteRow(h) ==
  /\ rows' = rows \ {file[h]}
  /\ UNCHANGED <<disk, used, file, got, removed>>

\* What the handlers knew is gone, what is on disk stays.
StartAssets ==
  /\ file' = [h \in FileUsers |-> NoFile] /\ got' = [h \in FileUsers |-> "nothing"]
  /\ UNCHANGED <<disk, rows, used, removed>>

-----------------------------------------------------------------------------
(***************************************************************************)
(* A file that is listed has its whole content, unless somebody has begun  *)
(* to delete it: failed and interrupted uploads leave no row.              *)
(***************************************************************************)
RowsWhole == \A f \in rows : disk[f] = "whole" \/ f \in removed

(***************************************************************************)
(* What is downloaded equals what was uploaded (T036), whatever uploads    *)
(* and deletions of the file run at the same time.                         *)
(***************************************************************************)
DownloadWhole == \A h \in FileUsers : got[h] # "partial"

=============================================================================
