-------------------------------- MODULE Media --------------------------------
(***************************************************************************)
(* The files of one material on the media volume: uploads streamed to a    *)
(* temporary file, the saved choice of its photos, deletion, the publisher *)
(* that reads the files one by one, and the daily cleanup.                 *)
(*                                                                         *)
(* The volume knows no transactions: every step of a process on it stands  *)
(* alone.  The lock around an upload lives in the memory of one API        *)
(* process, and production runs two of them.  A file is named by the       *)
(* upload that wrote it; names never repeat.                               *)
(***************************************************************************)
EXTENDS Naturals, FiniteSets

CONSTANTS
  Photos, Videos,  \* uploads of photos and of videos
  SourcePhotos,    \* photos of the collected post
  Processes,       \* API processes
  Nobody,          \* neither a process nor an upload
  MaxAttachments,  \* media_item_max_attachments
  PartAge,         \* media_temp_max_age_hours, in steps of Days
  OrphanAge,       \* media_orphan_max_age_days, in steps of Days
  MaxMessage       \* attachments MAX takes in one message

Uploads == Photos \cup Videos

ASSUME MediaAssumption ==
  /\ Photos \cap Videos = {} /\ Uploads \cap SourcePhotos = {}
  /\ IsFiniteSet(Uploads) /\ IsFiniteSet(SourcePhotos) /\ IsFiniteSet(Processes)
  /\ Nobody \notin Processes \cup Uploads
  /\ MaxAttachments \in Nat \ {0} /\ MaxMessage \in Nat
  /\ PartAge \in Nat \ {0} /\ OrphanAge \in Nat \ {0}

VARIABLES
  item,       \* the queue_items row as far as its media go
  file,       \* what is on disk for each upload: nothing, a part, the whole file
  age,        \* of each file since it was last written, to the larger of the two ages
  upload,     \* the request of each upload
  lock,       \* the upload that holds the material's lock in each process
  order,      \* the saved media_order, as a set
  orderAge,
  publisher,  \* a publication that reads the files
  cleaner     \* cleanup_media_once and the ids it has read

vars == <<item, file, age, upload, lock, order, orderAge, publisher, cleaner>>
files == <<file, age>>
state == <<order, orderAge>>

-----------------------------------------------------------------------------
\* A photo of the order: from the source, or a file under its name at the time.
Keys == (SourcePhotos \X {"source"}) \cup (Photos \X {"part", "whole"})

Init ==
  /\ item = "absent"
  /\ file = [u \in Uploads |-> "none"] /\ age = [u \in Uploads |-> 0]
  /\ upload = [u \in Uploads |-> [phase |-> "idle", process |-> Nobody]]
  /\ lock = [p \in Processes |-> Nobody]
  /\ order = [saved |-> FALSE, keys |-> {}] /\ orderAge = 0
  /\ publisher = [phase |-> "idle", todo |-> {}, taken |-> {}]
  /\ cleaner = [phase |-> "idle", spares |-> FALSE]

Create ==
  /\ item = "absent" /\ item' = "present"
  /\ UNCHANGED <<files, upload, lock, state, publisher, cleaner>>

\* ensure_not_reconciling also forbids changes while an outcome is in doubt,
\* which only takes behaviours away.
Editable == item = "present"

Stored(what) == {u \in Uploads : file[u] \in what}

Unlink(gone) ==
  /\ file' = [u \in Uploads |-> IF u \in gone THEN "none" ELSE file[u]]
  /\ age' = [u \in Uploads |-> IF u \in gone THEN 0 ELSE age[u]]
ForgetOrder == order' = [saved |-> FALSE, keys |-> {}] /\ orderAge' = 0

\* available_keys: every file of the photo directory, a temporary one too.
Available == (SourcePhotos \X {"source"})
               \cup {<<u, file[u]>> : u \in Photos \cap Stored({"part", "whole"})}

\* load_state
Selected == IF order.saved THEN order.keys \cap Available ELSE Available

-----------------------------------------------------------------------------
(* Uploads (media_upload.py, upload_queue_media, upload_queue_video).      *)

\* The material is loaded before the lock is waited for; which process serves the
\* request shows when it takes the lock.
BeginUpload(u) ==
  /\ upload[u].phase = "idle" /\ Editable
  /\ upload' = [upload EXCEPT ![u].phase = "waiting"]
  /\ UNCHANGED <<item, files, lock, state, publisher, cleaner>>

Attached == Cardinality(Selected \cap (SourcePhotos \X {"source"}))
              + Cardinality(Stored({"whole"}))

\* Fault: uploads of one process do not wait for each other.
OpenUploadUnlocked(u, p) ==
  /\ upload[u].phase = "waiting" /\ Attached < MaxAttachments
  /\ lock' = lock
  /\ upload' = [upload EXCEPT ![u] = [phase |-> "streaming", process |-> p]]
  /\ file' = [file EXCEPT ![u] = "part"] /\ age' = [age EXCEPT ![u] = 0]
  /\ UNCHANGED <<item, state, publisher, cleaner>>

\* The count, then mkdir and the temporary file, which also bring back the
\* directory of a material deleted meanwhile.
OpenUpload(u, p) ==
  /\ upload[u].phase = "waiting" /\ lock[p] = Nobody
  /\ Attached < MaxAttachments
  /\ lock' = [lock EXCEPT ![p] = u]
  /\ upload' = [upload EXCEPT ![u] = [phase |-> "streaming", process |-> p]]
  /\ file' = [file EXCEPT ![u] = "part"] /\ age' = [age EXCEPT ![u] = 0]
  /\ UNCHANGED <<item, state, publisher, cleaner>>

Leave(u) ==
  /\ upload' = [upload EXCEPT ![u] = [phase |-> "done", process |-> Nobody]]
  /\ lock' = [p \in Processes |-> IF lock[p] = u THEN Nobody ELSE lock[p]]
  /\ UNCHANGED <<item, state, publisher, cleaner>>

\* Too many attachments or uploads, or the client is gone, before the first byte.
RefuseUpload(u) ==
  /\ upload[u].phase = "waiting"
  /\ Leave(u) /\ UNCHANGED files

\* temporary.replace(final); it raises when the directory has gone.
FinishUpload(u) ==
  /\ upload[u].phase = "streaming"
  /\ Leave(u)
  /\ file' = [file EXCEPT ![u] = IF @ = "part" THEN "whole" ELSE @]
  /\ UNCHANGED age

\* Too large, not what it claims to be, no space, client gone: the part is removed.
AbortUpload(u) ==
  /\ upload[u].phase = "streaming"
  /\ Leave(u) /\ Unlink({u})

\* A crashed process forgets its locks and leaves its parts behind.
Crash(p) ==
  /\ \E u \in Uploads : upload[u].process = p
  /\ upload' = [u \in Uploads |-> IF upload[u].process = p
                                    THEN [phase |-> "done", process |-> Nobody] ELSE upload[u]]
  /\ lock' = [lock EXCEPT ![p] = Nobody]
  /\ UNCHANGED <<item, files, state, publisher, cleaner>>

-----------------------------------------------------------------------------
(* Editors (queue.py, queue_media_state.py, queue_video.py).               *)

DeleteMedia(u) ==
  /\ Editable /\ file[u] = "whole"
  /\ Unlink({u})
  /\ UNCHANGED <<item, upload, lock, state, publisher, cleaner>>

SaveOrder(keys) ==
  /\ Editable /\ keys \subseteq Available
  /\ order' = [saved |-> TRUE, keys |-> keys] /\ orderAge' = 0
  /\ UNCHANGED <<item, files, upload, lock, publisher, cleaner>>

\* The row goes first; the files may outlive it.
DeleteItem ==
  /\ Editable /\ item' = "deleted"
  /\ UNCHANGED <<files, upload, lock, state, publisher, cleaner>>

\* cleanup_queue_item_media of the request that deleted the row, unless it died.
PurgeDeleted ==
  /\ item = "deleted" /\ Unlink(Uploads) /\ ForgetOrder
  /\ UNCHANGED <<item, upload, lock, publisher, cleaner>>

-----------------------------------------------------------------------------
(* The publisher (publisher.py): _max_attachments after the reservation.   *)

StartPublishing ==
  /\ publisher.phase = "idle" /\ item = "present"
  /\ publisher' = [phase |-> "photos", todo |-> Selected, taken |-> {}]
  /\ UNCHANGED <<item, files, upload, lock, state, cleaner>>

Ends(phase) == publisher' = [phase |-> phase, todo |-> {}, taken |-> {}]
Fails == Ends("failed")
Takes(k) == publisher' = [publisher EXCEPT !.todo = @ \ {k}, !.taken = @ \cup {k}]
Skips(k) == publisher' = [publisher EXCEPT !.todo = @ \ {k}]

\* Fault: a file whose type is unknown is sent as it is.
ReadPhotoAnyType(k) ==
  /\ publisher.phase = "photos" /\ k \in publisher.todo
  /\ IF k \in Available THEN Takes(k) ELSE Skips(k)
  /\ UNCHANGED <<item, files, upload, lock, state, cleaner>>

\* A photo whose file has gone is left out; the type of a temporary file is
\* unknown, which ends the publication.
ReadPhoto(k) ==
  /\ publisher.phase = "photos" /\ k \in publisher.todo
  /\ CASE k \notin Available                      -> Skips(k)
       [] k \in Available /\ k[2] = "part"        -> Fails
       [] OTHER                                   -> Takes(k)
  /\ UNCHANGED <<item, files, upload, lock, state, cleaner>>

ListVideos ==
  /\ publisher.phase = "photos" /\ publisher.todo = {}
  /\ publisher' = [publisher EXCEPT !.phase = "videos",
                     !.todo = {<<u, file[u]>> : u \in Videos \cap Stored({"part", "whole"})}]
  /\ UNCHANGED <<item, files, upload, lock, state, cleaner>>

\* A video that has gone or is renamed since it was listed cannot be read.
ReadVideo(k) ==
  /\ publisher.phase = "videos" /\ k \in publisher.todo
  /\ IF k[2] = "whole" /\ file[k[1]] = "whole" THEN Takes(k) ELSE Fails
  /\ UNCHANGED <<item, files, upload, lock, state, cleaner>>

SendMessage ==
  /\ publisher.phase = "videos" /\ publisher.todo = {}
  /\ IF Cardinality(publisher.taken) > MaxMessage THEN Fails ELSE Ends("sent")
  /\ UNCHANGED <<item, files, upload, lock, state, cleaner>>

-----------------------------------------------------------------------------
(* The daily cleanup (media_cleanup.py).                                   *)

ReadIds ==
  /\ cleaner.phase = "idle"
  /\ cleaner' = [phase |-> "read", spares |-> item = "present"]
  /\ UNCHANGED <<item, files, upload, lock, state, publisher>>

ExpiredParts == {u \in Stored({"part"}) : age[u] >= PartAge}

\* Fault: what no row read before accounts for is an orphan.
OrphanedAnyAge == ~cleaner.spares

\* The newest file decides.
Orphaned == ~cleaner.spares /\ \A u \in Stored({"part", "whole"}) : age[u] >= OrphanAge

\* Fault: only directories are cleaned, not the saved choices.
CleanDirectories ==
  /\ cleaner.phase = "read"
  /\ Unlink(IF Orphaned THEN Uploads ELSE ExpiredParts)
  /\ cleaner' = [phase |-> "idle", spares |-> FALSE]
  /\ UNCHANGED <<item, upload, lock, state, publisher>>

Clean ==
  /\ cleaner.phase = "read"
  /\ Unlink(IF Orphaned THEN Uploads ELSE ExpiredParts)
  /\ IF ~cleaner.spares /\ orderAge >= OrphanAge THEN ForgetOrder ELSE UNCHANGED state
  /\ cleaner' = [phase |-> "idle", spares |-> FALSE]
  /\ UNCHANGED <<item, upload, lock, publisher>>

Older(a) == IF a < PartAge \/ a < OrphanAge THEN a + 1 ELSE a

\* Days pass.  An upload writes to its file all the time, and neither a request
\* nor a cleanup lasts that long.
Days ==
  /\ cleaner.phase = "idle" /\ \A u \in Uploads : upload[u].phase # "waiting"
  /\ age' = [u \in Uploads |-> IF file[u] = "none" \/ upload[u].phase = "streaming"
                                 THEN age[u] ELSE Older(age[u])]
  /\ orderAge' = IF order.saved THEN Older(orderAge) ELSE orderAge
  /\ UNCHANGED <<item, file, upload, lock, order, publisher, cleaner>>

-----------------------------------------------------------------------------
EndUpload(u) == RefuseUpload(u) \/ FinishUpload(u) \/ AbortUpload(u)

Next ==
  \/ Create \/ DeleteItem \/ PurgeDeleted
  \/ \E u \in Uploads : \/ BeginUpload(u) \/ EndUpload(u) \/ DeleteMedia(u)
                        \/ \E p \in Processes : OpenUpload(u, p)
  \/ \E p \in Processes : Crash(p)
  \/ \E keys \in SUBSET Keys : SaveOrder(keys)
  \/ StartPublishing \/ ListVideos \/ SendMessage
  \/ \E k \in Keys : ReadPhoto(k)
  \/ \E k \in Videos \X {"part", "whole"} : ReadVideo(k)
  \/ ReadIds \/ Clean \/ Days

Spec == Init /\ [][Next]_vars

\* Requests end, time passes and the daily task goes on; nobody has to publish.
Fairness ==
  /\ WF_vars(\E u \in Uploads : EndUpload(u))
  /\ SF_vars(Days) /\ WF_vars(ReadIds \/ Clean)

FairSpec == Spec /\ Fairness

-----------------------------------------------------------------------------
(* Properties.                                                             *)

\* Files, requests and locks have their types, and a lock is held by an upload
\* that streams in its process.
TypeOK ==
  /\ item \in {"absent", "present", "deleted"}
  /\ file \in [Uploads -> {"none", "part", "whole"}] /\ age \in [Uploads -> Nat]
  /\ upload \in [Uploads -> [phase : {"idle", "waiting", "streaming", "done"},
                             process : Processes \cup {Nobody}]]
  /\ lock \in [Processes -> Uploads \cup {Nobody}]
  /\ \A p \in Processes, u \in Uploads :
       lock[p] = u => upload[u] = [phase |-> "streaming", process |-> p]
  /\ order \in [saved : BOOLEAN, keys : SUBSET Keys] /\ orderAge \in Nat
  /\ publisher.phase \in {"idle", "photos", "videos", "sent", "failed"}
  /\ cleaner \in [phase : {"idle", "read"}, spares : BOOLEAN]

\* The limit of attachments is kept by each process for itself: every further
\* process can exceed it by the one upload it has let through (media_upload.py).
FilesWithinLimit ==
  Cardinality(Stored({"whole"})) <= MaxAttachments + Cardinality(Processes) - 1

\* No message carries an upload that is still being written, although the choice
\* of photos offers its temporary file (queue_media_state.py, publisher.py).
OnlyWholeFilesAreSent ==
  [][publisher'.phase = "sent" => \A k \in publisher.taken : k[2] # "part"]_vars

\* The cleanup never takes a file of a material that exists, not even one created
\* after the ids were read, nor the part of a running upload (media_cleanup.py).
CleanupSparesLiving ==
  [][Clean => \A u \in Uploads :
       file'[u] # file[u] => /\ item # "present" \/ file[u] = "part"
                             /\ upload[u].phase # "streaming" \/ item = "deleted"]_vars

\* Whatever dies or overlaps, nothing of a deleted material stays on the volume
\* for good (queue.py, media_cleanup.py).
DeletedLeavesNothing ==
  item = "deleted" ~> Stored({"part", "whole"}) = {} /\ ~order.saved
=============================================================================
