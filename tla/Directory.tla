------------------------------- MODULE Directory -------------------------------
(***************************************************************************)
(* Sources, channels (targets) and the links between them, and what hangs  *)
(* on them: posts, queue items and the directories of their files.         *)
(*                                                                         *)
(* Deleting a row deletes the rows that refer to it (ON DELETE CASCADE),   *)
(* but not files: the request reads the ids of the materials first and     *)
(* cleans up after its commit.  The ids of rows never repeat.  A source    *)
(* has one post here, so a material is a source and a channel.  What a     *)
(* unique constraint refuses leaves no trace.                              *)
(***************************************************************************)
EXTENDS Naturals, FiniteSets

CONSTANTS
  Sources, Channels,   \* ids of sources and targets
  Deletions,           \* requests that delete a source, a channel or a material
  Uploads,             \* requests that add a file to a material
  NoRow                \* not an id

Materials == Sources \X Channels

ASSUME DirectoryAssumption == Sources \cap Channels = {} /\ NoRow \notin Sources \cup Channels

VARIABLES
  entry,     \* sources and targets rows: not yet, active, paused, deleted
  link,      \* target_sources rows
  collected, \* sources whose post is stored
  material,  \* queue_items rows
  media,     \* materials with files on the volume
  loaded,    \* links the running pass of the collector has yet to serve
  deletion,  \* what each request has read
  upload,    \* the material each upload has found, and sends a file for
  excused    \* ghost: materials whose files a deletion may leave behind

directoryVars == <<entry, link, collected, material, media, loaded, deletion, upload, excused>>

-----------------------------------------------------------------------------
Present(id) == entry[id] \in {"active", "paused"}
Live == {m \in Materials : material[m] = "live"}

\* The materials that go with a row, and the links.
Covered(id) == {m \in Materials : id \in {m, m[1], m[2]}}

NoDeletion == [phase |-> "idle", id |-> NoRow, ids |-> {}]

DirectoryInit ==
  /\ entry = [id \in Sources \cup Channels |-> "none"]
  /\ link = [m \in Materials |-> "none"]
  /\ collected = {} /\ media = {} /\ loaded = {} /\ excused = {}
  /\ material = [m \in Materials |-> "none"]
  /\ deletion = [d \in Deletions |-> NoDeletion]
  /\ upload = [u \in Uploads |-> NoRow]

-----------------------------------------------------------------------------
(* Administration (sources.py, targets.py, target_sources.py).             *)

Puts(id, state) ==
  /\ entry' = [entry EXCEPT ![id] = state]
  /\ UNCHANGED <<link, collected, material, media, loaded, deletion, upload, excused>>

CreateSource(s, state) == entry[s] = "none" /\ Puts(s, state)
UpdateSource(s, state) == Present(s) /\ entry[s] # state /\ Puts(s, state)
CreateTarget(t, state) == entry[t] = "none" /\ Puts(t, state)
UpdateTarget(t, state) == Present(t) /\ entry[t] # state /\ Puts(t, state)

PutsLink(m, state) ==
  /\ link' = [link EXCEPT ![m] = state]
  /\ UNCHANGED <<entry, collected, material, media, loaded, deletion, upload, excused>>

CreateLink(s, t, state) ==
  Present(t) /\ Present(s) /\ link[<<s, t>>] = "none" /\ PutsLink(<<s, t>>, state)
UpdateLink(m, state) == link[m] \notin {"none", state} /\ PutsLink(m, state)
DeleteLink(m) == link[m] # "none" /\ PutsLink(m, "none")

-----------------------------------------------------------------------------
(* Materials: collected, created by hand, given files.                     *)

\* New materials that a deletion under way has not seen.
Unseen(new) ==
  {m \in new : \E d \in Deletions : deletion[d].phase = "read" /\ m \in Covered(deletion[d].id)}

Creates(new) ==
  /\ material' = [m \in Materials |-> IF m \in new THEN "live" ELSE material[m]]
  /\ excused' = excused \cup Unseen(new)

\* The pass reads the active links once.
LoadLinks ==
  /\ loaded = {}
  /\ loaded' = {m \in Materials : /\ link[m] = "active"
                                  /\ entry[m[1]] = "active" /\ entry[m[2]] = "active"}
  /\ UNCHANGED <<entry, link, collected, material, media, deletion, upload, excused>>

\* A link that was paused or deleted since still gets its material; a row that is
\* gone fails the whole source.
CollectSource(s) ==
  LET served == {m \in loaded : m[1] = s} IN
  /\ served # {} /\ loaded' = loaded \ served
  /\ IF s \notin collected /\ \A m \in served : Present(s) /\ Present(m[2])
       THEN collected' = collected \cup {s} /\ Creates({m \in served : material[m] = "none"})
       ELSE UNCHANGED <<collected, material, excused>>
  /\ UNCHANGED <<entry, link, media, deletion, upload>>

\* The source has no news or fails.
SkipSource(s) ==
  /\ \E m \in loaded : m[1] = s
  /\ loaded' = {m \in loaded : m[1] # s}
  /\ UNCHANGED <<entry, link, collected, material, media, deletion, upload, excused>>

CreateItem(m) ==
  /\ m[1] \in collected /\ Present(m[2]) /\ material[m] = "none"
  /\ Creates({m})
  /\ UNCHANGED <<entry, link, collected, media, loaded, deletion, upload>>

\* Whether the material exists is asked once, before the request waits for its slot and
\* its file comes in.
BeginUpload(u, m) ==
  /\ upload[u] = NoRow /\ m \in Live
  /\ upload' = [upload EXCEPT ![u] = m]
  /\ UNCHANGED <<entry, link, collected, material, media, loaded, deletion, excused>>

CleanedUp(m) ==
  \A d \in Deletions : deletion[d].phase = "deleted" => m \notin deletion[d].ids

\* The directory is made and the file comes in, even where a deletion has just cleaned up.
StoreFiles(u) ==
  LET m == upload[u] IN
  /\ m # NoRow /\ media' = media \cup {m}
  /\ upload' = [upload EXCEPT ![u] = NoRow]
  /\ excused' = IF m \notin Live /\ CleanedUp(m) THEN excused \cup {m} ELSE excused
  /\ UNCHANGED <<entry, link, collected, material, loaded, deletion>>

\* No slot, no space, a bad file, or its directory vanished under it.
RefuseUpload(u) ==
  /\ upload[u] # NoRow
  /\ upload' = [upload EXCEPT ![u] = NoRow]
  /\ UNCHANGED <<entry, link, collected, material, media, loaded, deletion, excused>>

-----------------------------------------------------------------------------
(* Deletion: the ids, the rows, the files.                                 *)

\* Fault: the ids are read after the rows have gone.
BeginDeletionBlind(d, id) ==
  /\ deletion[d].phase = "idle"
  /\ IF id \in Materials THEN id \in Live ELSE Present(id)
  /\ deletion' = [deletion EXCEPT ![d] = [phase |-> "read", id |-> id, ids |-> {}]]
  /\ UNCHANGED <<entry, link, collected, material, media, loaded, upload, excused>>

\* queue_item_ids
BeginDeletion(d, id) ==
  /\ deletion[d].phase = "idle"
  /\ IF id \in Materials THEN id \in Live ELSE Present(id)
  /\ deletion' = [deletion EXCEPT ![d] = [phase |-> "read", id |-> id,
                                          ids |-> Live \cap Covered(id)]]
  /\ UNCHANGED <<entry, link, collected, material, media, loaded, upload, excused>>

\* A row another request has deleted meanwhile makes no difference.
Cascade(id) ==
  /\ entry' = [e \in DOMAIN entry |-> IF e = id THEN "deleted" ELSE entry[e]]
  /\ link' = [m \in Materials |-> IF id \in {m[1], m[2]} THEN "none" ELSE link[m]]
  /\ collected' = collected \ {id}
  /\ material' = [m \in Materials |-> IF m \in Covered(id) THEN "deleted" ELSE material[m]]

DeleteRows(d) ==
  /\ deletion[d].phase = "read" /\ Cascade(deletion[d].id)
  /\ deletion' = [deletion EXCEPT ![d] = [phase |-> "deleted", id |-> NoRow, ids |-> @.ids]]
  /\ UNCHANGED <<media, loaded, upload, excused>>

\* cleanup_queue_items_media
CleanUp(d) ==
  /\ deletion[d].phase = "deleted"
  /\ media' = media \ deletion[d].ids
  /\ deletion' = [deletion EXCEPT ![d] = NoDeletion]
  /\ UNCHANGED <<entry, link, collected, material, loaded, upload, excused>>

\* One directory cannot be removed, which leaves the rest as well, or the process dies.
Breaks(d) ==
  /\ deletion[d].phase # "idle"
  /\ \E done \in SUBSET deletion[d].ids :
       media' = IF deletion[d].phase = "deleted" THEN media \ done ELSE media
  /\ excused' = IF deletion[d].phase = "deleted" THEN excused \cup deletion[d].ids ELSE excused
  /\ deletion' = [deletion EXCEPT ![d] = NoDeletion]
  /\ UNCHANGED <<entry, link, collected, material, loaded, upload>>

-----------------------------------------------------------------------------
DirectoryNext ==
  \/ \E state \in {"active", "paused"} :
       \/ \E s \in Sources : CreateSource(s, state) \/ UpdateSource(s, state)
       \/ \E t \in Channels : CreateTarget(t, state) \/ UpdateTarget(t, state)
       \/ \E s \in Sources, t \in Channels : CreateLink(s, t, state)
       \/ \E m \in Materials : UpdateLink(m, state)
  \/ \E m \in Materials : DeleteLink(m) \/ CreateItem(m)
  \/ \E u \in Uploads :
       \/ \E m \in Materials : BeginUpload(u, m)
       \/ StoreFiles(u) \/ RefuseUpload(u)
  \/ LoadLinks \/ \E s \in Sources : CollectSource(s) \/ SkipSource(s)
  \/ \E d \in Deletions :
       \/ \E id \in Sources \cup Channels \cup Materials : BeginDeletion(d, id)
       \/ DeleteRows(d) \/ CleanUp(d) \/ Breaks(d)

DirectorySpec == DirectoryInit /\ [][DirectoryNext]_directoryVars

-----------------------------------------------------------------------------
(* Property.                                                               *)

\* Whatever overlaps a deletion, no material or link outlives its source or channel,
\* and files outlive their material only while a request is about to remove them, or if
\* the material was created behind the back of the deletion, the cleanup broke off, or
\* an upload that had found the material stored its file after the cleanup (sources.py,
\* targets.py, queue.py, media_storage.py).
NothingOrphaned ==
  /\ \A m \in Materials : m \in Live \/ link[m] # "none" => Present(m[1]) /\ Present(m[2])
  /\ \A m \in media : \/ m \in Live \cup excused
                      \/ \E d \in Deletions : deletion[d].phase = "deleted" /\ m \in deletion[d].ids
=============================================================================
