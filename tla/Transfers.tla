----------------------------- MODULE Transfers ------------------------------
(* aws/s3.go: S3DownloadFiles fetches objects into local files with a group  *)
(* of at most `maxWorkers` goroutines, each through a temporary file that is *)
(* renamed at the end; S3UploadFile sends a local file meanwhile.  An object *)
(* comes in two pieces.  Any call may fail, and the process may die between  *)
(* two steps; S3 and the file system are external.                           *)
EXTENDS Naturals, FiniteSets

CONSTANTS
  Reqs,        \* the requests of one call are 1..Reqs, in order
  File,        \* local files
  maxWorkers,  \* at least 1: S3DownloadFiles raises less to 1
  Old, None    \* what the files held before; nothing

VARIABLES
  target,   \* the LocalFilePath of every request
  pc,       \* where the goroutine of every request is
  temp,     \* the temporary files by name: [of, parts], or None
  disk,     \* what every local file holds: [of, parts]
  failed,   \* the context of the group is cancelled: its first error is set
  answer,   \* what S3DownloadFiles returned
  upload,   \* what the uploader reads
  bucket,   \* what the upload stored
  dead      \* the process died

vars == <<target, pc, temp, disk, failed, answer, upload, bucket, dead>>

Req == 1..Reqs
Whole(c) == c.parts = 2
Running == {r \in Req : pc[r] \notin {"new", "done"}}

Init ==
  /\ target \in [Req -> File]
  /\ pc = [r \in Req |-> "new"] /\ temp = [r \in Req |-> None]
  /\ disk = [f \in File |-> [of |-> Old, parts |-> 2]]
  /\ failed = FALSE /\ answer = None /\ upload = None /\ bucket = None /\ dead = FALSE

\* g.Go waits for a free worker; the requests are taken in order.
Go(r) ==
  /\ pc[r] = "new" /\ \A q \in 1..(r - 1) : pc[q] # "new"
  /\ Cardinality(Running) < maxWorkers
  /\ pc' = [pc EXCEPT ![r] = "go"]
  /\ UNCHANGED <<target, temp, disk, failed, answer, upload, bucket, dead>>

\* A goroutine returns an error; its deferred calls remove the temporary file.
Fail(r) ==
  /\ pc[r] \in {"create", "get", "copy", "rename"} \/ (pc[r] = "go" /\ failed)
  /\ pc' = [pc EXCEPT ![r] = "done"] /\ failed' = TRUE
  /\ temp' = [temp EXCEPT ![r] = None]
  /\ UNCHANGED <<target, disk, answer, upload, bucket, dead>>

\* Once the context is cancelled no download begins.
Check(r) ==
  /\ pc[r] = "go" /\ ~failed
  /\ pc' = [pc EXCEPT ![r] = "create"]
  /\ UNCHANGED <<target, temp, disk, failed, answer, upload, bucket, dead>>

CreateTemp(r) ==
  /\ pc[r] = "create"
  /\ temp' = [temp EXCEPT ![r] = [of |-> r, parts |-> 0]]
  /\ pc' = [pc EXCEPT ![r] = "get"]
  /\ UNCHANGED <<target, disk, failed, answer, upload, bucket, dead>>

\* GetObject answers, if the context allows.
GetObject(r) ==
  /\ pc[r] = "get" /\ ~failed
  /\ pc' = [pc EXCEPT ![r] = "copy"]
  /\ UNCHANGED <<target, temp, disk, failed, answer, upload, bucket, dead>>

\* io.Copy writes a piece, the last one and Close included.
Copy(r) ==
  /\ pc[r] = "copy"
  /\ temp' = [temp EXCEPT ![r].parts = @ + 1]
  /\ pc' = [pc EXCEPT ![r] = IF Whole(temp'[r]) THEN "rename" ELSE "copy"]
  /\ UNCHANGED <<target, disk, failed, answer, upload, bucket, dead>>

\* A fault of Rename: the file is put in place before all of it has come.
RenameEarly(r) ==
  /\ pc[r] \in {"copy", "rename"}
  /\ disk' = [disk EXCEPT ![target[r]] = temp[r]]
  /\ temp' = [temp EXCEPT ![r] = None]
  /\ pc' = [pc EXCEPT ![r] = "done"]
  /\ UNCHANGED <<target, failed, answer, upload, bucket, dead>>

\* Rename puts the whole file in place; nothing is left to remove.
Rename(r) ==
  /\ pc[r] = "rename"
  /\ disk' = [disk EXCEPT ![target[r]] = temp[r]]
  /\ temp' = [temp EXCEPT ![r] = None]
  /\ pc' = [pc EXCEPT ![r] = "done"]
  /\ UNCHANGED <<target, failed, answer, upload, bucket, dead>>

Wait ==
  /\ answer = None /\ \A r \in Req : pc[r] = "done"
  /\ answer' = IF failed THEN "error" ELSE "ok"
  /\ UNCHANGED <<target, pc, temp, disk, failed, upload, bucket, dead>>

\* S3UploadFile opens a file and reads what it opened, whatever is renamed over it.
Open(f) ==
  /\ upload = None /\ upload' = disk[f]
  /\ UNCHANGED <<target, pc, temp, disk, failed, answer, bucket, dead>>
Upload ==
  /\ upload # None /\ bucket = None /\ bucket' = upload
  /\ UNCHANGED <<target, pc, temp, disk, failed, answer, upload, dead>>

Die ==
  /\ dead' = TRUE
  /\ UNCHANGED <<target, pc, temp, disk, failed, answer, upload, bucket>>

Next ==
  /\ ~dead
  /\ \/ \E r \in Req :
          Go(r) \/ Check(r) \/ CreateTemp(r) \/ GetObject(r) \/ Copy(r) \/ Rename(r) \/ Fail(r)
     \/ Wait \/ Upload \/ Die
     \/ \E f \in File : Open(f)

Spec == Init /\ [][Next]_vars

-----------------------------------------------------------------------------
(* No more goroutines are at work than the group allows. *)
TypeOK ==
  /\ pc \in [Req -> {"new", "go", "create", "get", "copy", "rename", "done"}]
  /\ Cardinality(Running) <= maxWorkers

(* s3.go:66-93: whatever fails and whenever the process dies, a local file   *)
(* is the old one or an object that was asked for it, whole; an upload sends *)
(* such a file.                                                              *)
FilesWhole ==
  /\ \A f \in File : Whole(disk[f]) /\ (disk[f].of = Old \/ target[disk[f].of] = f)
  /\ bucket # None => Whole(bucket)

(* s3.go:32-52: S3DownloadFiles says all went well only when every file is   *)
(* in place, the last one renamed where two have the same path; when it      *)
(* returns, nobody is at work and no temporary file is left.                 *)
AnswerTrue ==
  answer # None =>
    /\ Running = {} /\ \A r \in Req : temp[r] = None
    /\ answer = "ok" => \A r \in Req : disk[target[r]].of # Old
-----------------------------------------------------------------------------
(* The inductive invariant.                                                   *)

\* A temporary file belongs to one request, exists while it is being fetched
\* and is whole when it is to be renamed.
TempOwned(r) ==
  IF pc[r] \in {"get", "copy", "rename"}
    THEN /\ temp[r] \in [of : Req, parts : 0..2] /\ temp[r].of = r
         /\ IF pc[r] = "rename" THEN Whole(temp[r]) ELSE temp[r].parts <= 1
    ELSE temp[r] = None

\* What a local file may hold, and what a request has left behind.
DiskWhole ==
  /\ disk \in [File -> [of : Req \union {Old}, parts : {2}]]
  /\ \A f \in File : disk[f].of = Old \/ target[disk[f].of] = f
  /\ \A r \in Req : pc[r] = "done" /\ ~failed => disk[target[r]].of # Old

TransferInv ==
  /\ target \in [Req -> File]
  /\ pc \in [Req -> {"new", "go", "create", "get", "copy", "rename", "done"}]
  /\ temp \in [Req -> [of : Req, parts : 0..2] \union {None}] /\ failed \in BOOLEAN
  /\ \A r \in Req : TempOwned(r)
  /\ DiskWhole
  /\ upload = None \/ Whole(upload)
  /\ bucket = None \/ Whole(bucket)
  /\ answer # None => (\A r \in Req : pc[r] = "done") /\ (answer = "ok" => ~failed)

TransfersAssumption == Reqs \in Nat /\ maxWorkers \in Nat \ {0} /\ Old \notin Req
=============================================================================
