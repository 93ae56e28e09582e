---------------------------- MODULE FilesProofs -----------------------------
(***************************************************************************)
(* Theorems about the files on the volume: Media, for every set of uploads *)
(* and processes, every limit and every age, and Avatars, for every set of *)
(* requests and any number of crashes, lost answers and failed writes.     *)
(*                                                                         *)
(* The limit of attachments is inductive together with the uploads that    *)
(* still stream, at most one in a process; the cleanup spares the living   *)
(* because nothing ages while it is on its way.                            *)
(*                                                                         *)
(* The row of an avatar and the volume agree because names are never used  *)
(* twice: what the row or a pending removal names was written by a request *)
(* that has committed, so neither is a file that a later request writes.   *)
(***************************************************************************)
EXTENDS Media, Avatars, FiniteSetTheorems, TLAPS

-----------------------------------------------------------------------------
(* Media.                                                                  *)

PublisherKeys == Keys \cup (Videos \X {"part", "whole"})

Orders == [saved : BOOLEAN, keys : SUBSET Keys]
Cleaners == [phase : {"idle", "read"}, spares : BOOLEAN]
Publishers == [phase : {"idle", "photos", "videos", "sent", "failed"},
               todo : SUBSET PublisherKeys, taken : SUBSET PublisherKeys]

MediaTyped ==
  /\ item \in {"absent", "present", "deleted"}
  /\ file \in [Uploads -> {"none", "part", "whole"}] /\ age \in [Uploads -> Nat]
  /\ upload \in [Uploads -> [phase : {"idle", "waiting", "streaming", "done"},
                             process : Processes \cup {Nobody}]]
  /\ lock \in [Processes -> Uploads \cup {Nobody}]
  /\ order \in Orders /\ orderAge \in Nat /\ publisher \in Publishers /\ cleaner \in Cleaners

\* A process lets one upload stream.
Streaming == {u \in Uploads : upload[u].phase = "streaming"}
LocksOK ==
  /\ \A p \in Processes, u \in Uploads :
       lock[p] = u => upload[u] = [phase |-> "streaming", process |-> p]
  /\ \A u \in Streaming : upload[u].process \in Processes /\ lock[upload[u].process] = u

Limit == MaxAttachments + Cardinality(Processes) - 1

\* What is stored and what may still be.
Busy == Stored({"whole"}) \cup Streaming
Bounded == Cardinality(Busy) <= Limit

\* Nothing ages while it is written, nor while a cleanup that has seen no material runs.
Young ==
  /\ \A u \in Streaming : age[u] = 0
  /\ item = "absent" =>
       \A u \in Uploads : /\ file[u] = "none" /\ age[u] = 0
                          /\ upload[u].phase = "idle" /\ upload[u].process = Nobody
  /\ cleaner.phase = "read" /\ ~cleaner.spares /\ item = "present" => \A u \in Uploads : age[u] = 0

TakenWhole == \A k \in publisher.taken : k[2] # "part"

MediaInv == MediaTyped /\ LocksOK /\ Bounded /\ Young /\ TakenWhole

-----------------------------------------------------------------------------
(* Lemmas about the limit.                                                 *)

LEMMA Finite ==
  ASSUME NEW S \in SUBSET Uploads
  PROVE  IsFiniteSet(S) /\ Cardinality(S) \in Nat
<1>1. IsFiniteSet(Uploads) BY MediaAssumption
<1>2. IsFiniteSet(S) BY <1>1, FS_Subset
<1> QED BY <1>2, FS_CardinalityType

LEMMA LimitType == Limit \in Nat
<1>1. Cardinality(Processes) \in Nat BY MediaAssumption, FS_CardinalityType
<1> QED BY <1>1, MediaAssumption DEF Limit

LEMMA Monotone ==
  ASSUME NEW S \in SUBSET Uploads, NEW T \in SUBSET S, Cardinality(S) <= Limit
  PROVE  Cardinality(T) <= Limit
<1>1. Cardinality(S) \in Nat /\ Cardinality(T) \in Nat /\ IsFiniteSet(S) BY Finite
<1>2. Cardinality(T) <= Cardinality(S) BY <1>1, FS_Subset
<1> QED BY <1>1, <1>2, LimitType

\* Few attachments, and no more uploads than processes, keep the limit.
LEMMA Adding ==
  ASSUME NEW W \in SUBSET Uploads, Cardinality(W) < MaxAttachments,
         NEW S \in SUBSET Uploads, Cardinality(S) <= Cardinality(Processes)
  PROVE  Cardinality(W \cup S) <= Limit
<1>1. IsFiniteSet(W) /\ IsFiniteSet(S) /\ Cardinality(W) \in Nat /\ Cardinality(S) \in Nat
  BY Finite
<1>2. Cardinality(W \cap S) \in Nat BY Finite
<1>3. Cardinality(W \cup S) = Cardinality(W) + Cardinality(S) - Cardinality(W \cap S)
  BY <1>1, FS_Union
<1>4. Cardinality(Processes) \in Nat BY MediaAssumption, FS_CardinalityType
<1> QED BY <1>1, <1>2, <1>3, <1>4, MediaAssumption DEF Limit

\* The locks let at most one upload stream in each process.
LEMMA OneByProcess == LocksOK => Cardinality(Streaming) <= Cardinality(Processes)
<1> SUFFICES ASSUME LocksOK PROVE Cardinality(Streaming) <= Cardinality(Processes)
  OBVIOUS
<1> DEFINE f == [u \in Streaming |-> upload[u].process]
<1>1. f \in Injection(Streaming, Processes)
  <2>1. f \in [Streaming -> Processes] BY DEF LocksOK
  <2>2. \A u, v \in Streaming : f[u] = f[v] => u = v BY DEF LocksOK
  <2> QED BY <2>1, <2>2 DEF Injection, IsInjective
<1>2. IsFiniteSet(Processes) BY MediaAssumption
<1> QED BY <1>1, <1>2, FS_Injection

\* The records that steps write.
LEMMA Records ==
  /\ [saved |-> FALSE, keys |-> {}] \in Orders
  /\ \A keys \in SUBSET Keys : [saved |-> TRUE, keys |-> keys] \in Orders
  /\ \A phase \in {"idle", "read"}, b \in BOOLEAN :
       /\ [phase |-> phase, spares |-> b] \in Cleaners
       /\ [phase |-> phase, spares |-> b].phase = phase /\ [phase |-> phase, spares |-> b].spares = b
  /\ \A phase \in {"idle", "sent", "failed"} : [phase |-> phase, todo |-> {}, taken |-> {}] \in Publishers
<1>1. [saved |-> FALSE, keys |-> {}] \in Orders BY DEF Orders
<1>2. \A keys \in SUBSET Keys : [saved |-> TRUE, keys |-> keys] \in Orders BY DEF Orders
<1>3. \A phase \in {"idle", "read"}, b \in BOOLEAN :
       /\ [phase |-> phase, spares |-> b] \in Cleaners
       /\ [phase |-> phase, spares |-> b].phase = phase /\ [phase |-> phase, spares |-> b].spares = b
  BY DEF Cleaners
<1>4. \A phase \in {"idle", "sent", "failed"} : [phase |-> phase, todo |-> {}, taken |-> {}] \in Publishers
  BY DEF Publishers
<1> QED BY <1>1, <1>2, <1>3, <1>4

-----------------------------------------------------------------------------
LEMMA MediaInitially == Init => MediaInv
<1> SUFFICES ASSUME Init PROVE MediaInv
  OBVIOUS
<1>1. MediaTyped /\ LocksOK /\ Young /\ TakenWhole
  BY MediaAssumption, Records DEF Init, MediaTyped, LocksOK, Young, TakenWhole, Streaming
<1>2. Busy = {}
  BY DEF Init, Busy, Stored, Streaming
<1> QED BY <1>1, <1>2, LimitType, FS_EmptySet DEF MediaInv, Bounded

\* Requests of uploads.
LEMMA BeginStep == ASSUME MediaInv, NEW u \in Uploads, BeginUpload(u) PROVE MediaInv'
<1>1. /\ upload[u].phase = "idle" /\ item = "present"
      /\ upload' = [upload EXCEPT ![u].phase = "waiting"]
      /\ UNCHANGED <<item, file, age, lock, order, orderAge, publisher, cleaner>>
  BY DEF BeginUpload, Editable, files, state
<1>2. MediaTyped' BY <1>1 DEF MediaInv, MediaTyped
<1>3. Streaming' = Streaming BY <1>1 DEF Streaming, MediaInv, MediaTyped
<1>4. \A v \in Uploads : upload[v].phase = "streaming" => upload'[v] = upload[v]
  BY <1>1 DEF MediaInv, MediaTyped
<1>5. LocksOK' BY <1>1, <1>3, <1>4 DEF MediaInv, LocksOK, Streaming
<1>6. Bounded' BY <1>1, <1>3 DEF MediaInv, Bounded, Busy, Stored
<1> QED BY <1>1, <1>2, <1>3, <1>5, <1>6 DEF MediaInv, Young, TakenWhole

LEMMA OpenStep == ASSUME MediaInv, NEW u \in Uploads, NEW p \in Processes, OpenUpload(u, p) PROVE MediaInv'
<1>1. /\ upload[u].phase = "waiting" /\ lock[p] = Nobody /\ Attached < MaxAttachments
      /\ lock' = [lock EXCEPT ![p] = u]
      /\ upload' = [upload EXCEPT ![u] = [phase |-> "streaming", process |-> p]]
      /\ file' = [file EXCEPT ![u] = "part"] /\ age' = [age EXCEPT ![u] = 0]
      /\ UNCHANGED <<item, order, orderAge, publisher, cleaner>>
  BY DEF OpenUpload, state
<1>2. MediaTyped' BY <1>1 DEF MediaInv, MediaTyped
<1>3. Streaming' = Streaming \cup {u} BY <1>1 DEF Streaming, MediaInv, MediaTyped
<1>4. LocksOK' BY <1>1, <1>3, MediaAssumption DEF MediaInv, MediaTyped, LocksOK, Streaming
<1>5. Young' BY <1>1, <1>3 DEF MediaInv, MediaTyped, Young
<1>6. Bounded'
  <2> DEFINE W == Stored({"whole"})
  <2>1. W \in SUBSET Uploads /\ Stored({"whole"})' \subseteq W BY <1>1 DEF Stored, MediaInv, MediaTyped
  <2>2. Cardinality(W) < MaxAttachments
    <3>1. Cardinality(W) \in Nat BY <2>1, Finite
    <3>2. Cardinality(Selected \cap (SourcePhotos \X {"source"})) \in Nat
      <4>1. IsFiniteSet(SourcePhotos \X {"source"})
        <5>1. IsFiniteSet({"source"}) BY FS_Singleton
        <5> QED BY <5>1, MediaAssumption, FS_Product
      <4> QED BY <4>1, FS_Subset, FS_CardinalityType
    <3> QED BY <1>1, <3>1, <3>2, MediaAssumption DEF Attached
  <2>3. Cardinality(W \cup Streaming') <= Limit
    <3>1. Cardinality(Streaming') <= Cardinality(Processes)
      <4>1. (LocksOK => Cardinality(Streaming) <= Cardinality(Processes))'
        BY OneByProcess, PTL
      <4> QED BY <1>4, <4>1
    <3>2. Streaming' \in SUBSET Uploads BY DEF Streaming
    <3> HIDE DEF W
    <3> QED BY <2>1, <2>2, <3>1, <3>2, Adding
  <2>4. Busy' \subseteq W \cup Streaming' /\ W \cup Streaming' \subseteq Uploads
    BY <2>1 DEF Busy, Streaming
  <2> QED BY <2>3, <2>4, Monotone DEF Bounded
<1> QED BY <1>1, <1>2, <1>4, <1>5, <1>6 DEF MediaInv, TakenWhole

\* A request that ends, with its file or without.
LEMMA LeaveStep == ASSUME MediaInv, NEW u \in Uploads, EndUpload(u) PROVE MediaInv'
<1>1. /\ upload' = [upload EXCEPT ![u] = [phase |-> "done", process |-> Nobody]]
      /\ lock' = [p \in Processes |-> IF lock[p] = u THEN Nobody ELSE lock[p]]
      /\ UNCHANGED <<item, order, orderAge, publisher, cleaner>>
      /\ upload[u].phase \in {"waiting", "streaming"}
  BY DEF EndUpload, RefuseUpload, FinishUpload, AbortUpload, Leave, state
<1>2. /\ file' \in [Uploads -> {"none", "part", "whole"}] /\ age' \in [Uploads -> Nat]
      /\ \A v \in Uploads : age'[v] = age[v] \/ age'[v] = 0
      /\ \A v \in Uploads : file'[v] = "whole" => file[v] = "whole" \/ (v = u /\ v \in Streaming)
  BY DEF EndUpload, RefuseUpload, FinishUpload, AbortUpload, Unlink, files, MediaInv, MediaTyped, Streaming
<1>3. MediaTyped' BY <1>1, <1>2 DEF MediaInv, MediaTyped
<1>4. Streaming' = Streaming \ {u} BY <1>1 DEF Streaming, MediaInv, MediaTyped
<1>5. LocksOK' BY <1>1, <1>4, MediaAssumption DEF MediaInv, MediaTyped, LocksOK, Streaming
<1>6. Young'
  <2>1. item # "absent" BY <1>1 DEF MediaInv, Young
  <2> QED BY <1>1, <1>2, <1>4, <2>1 DEF MediaInv, Young, Streaming
<1>7. Bounded'
  <2>1. Busy' \subseteq Busy /\ Busy \subseteq Uploads
    BY <1>2, <1>4 DEF Busy, Stored, Streaming
  <2> QED BY <2>1, Monotone DEF MediaInv, Bounded
<1> QED BY <1>1, <1>3, <1>5, <1>6, <1>7 DEF MediaInv, TakenWhole

LEMMA CrashStep == ASSUME MediaInv, NEW p \in Processes, Crash(p) PROVE MediaInv'
<1>1. /\ upload' = [u \in Uploads |-> IF upload[u].process = p
                                        THEN [phase |-> "done", process |-> Nobody] ELSE upload[u]]
      /\ lock' = [lock EXCEPT ![p] = Nobody]
      /\ UNCHANGED <<item, file, age, order, orderAge, publisher, cleaner>>
      /\ \E u \in Uploads : upload[u].process = p
  BY DEF Crash, files, state
<1>2. MediaTyped' BY <1>1 DEF MediaInv, MediaTyped
<1>3. Streaming' = {u \in Streaming : upload[u].process # p} BY <1>1 DEF Streaming
<1>4. LocksOK' BY <1>1, <1>3, MediaAssumption DEF MediaInv, MediaTyped, LocksOK, Streaming
<1>5. Bounded'
  <2>1. Busy' \subseteq Busy /\ Busy \subseteq Uploads
    BY <1>1, <1>3 DEF Busy, Stored, Streaming
  <2> QED BY <2>1, Monotone DEF MediaInv, Bounded
<1>6. Young'
  <2>1. item # "absent"
    BY <1>1, MediaAssumption DEF MediaInv, Young
  <2> QED BY <1>1, <1>3, <2>1 DEF MediaInv, Young, MediaTyped
<1> QED BY <1>1, <1>2, <1>4, <1>5, <1>6 DEF MediaInv, TakenWhole

\* Steps that remove files and leave the requests alone.
LEMMA RemovalStep ==
  ASSUME MediaInv, NEW gone \in SUBSET Uploads, Unlink(gone),
         item' = item, item # "absent",
         order' \in Orders, orderAge' \in Nat,
         cleaner' \in Cleaners, cleaner' = cleaner \/ cleaner'.phase = "idle",
         UNCHANGED <<upload, lock, publisher>>
  PROVE  MediaInv'
<1>1. /\ file' = [u \in Uploads |-> IF u \in gone THEN "none" ELSE file[u]]
      /\ age' = [u \in Uploads |-> IF u \in gone THEN 0 ELSE age[u]]
  BY DEF Unlink
<1>2. MediaTyped' BY <1>1 DEF MediaInv, MediaTyped
<1>3. Streaming' = Streaming BY DEF Streaming
<1>4. LocksOK' BY <1>3 DEF MediaInv, LocksOK
<1>5. Bounded'
  <2>1. Busy' \subseteq Busy /\ Busy \subseteq Uploads
    BY <1>1, <1>3 DEF Busy, Stored, Streaming
  <2> QED BY <2>1, Monotone DEF MediaInv, Bounded
<1>6. Young' BY <1>1, <1>3 DEF MediaInv, Young, Streaming
<1> QED BY <1>2, <1>4, <1>5, <1>6 DEF MediaInv, TakenWhole

\* Steps that change no file, no request and no lock.
LEMMA QuietStep ==
  ASSUME MediaInv, UNCHANGED <<file, age, upload, lock>>,
         item' \in {"absent", "present", "deleted"}, item' = "absent" => item = "absent",
         item = "deleted" => item' = "deleted",
         order' \in Orders, orderAge' \in Nat,
         publisher' \in Publishers, TakenWhole', cleaner' \in Cleaners,
         \/ cleaner' = cleaner
         \/ item' = item /\ (cleaner'.spares <=> item = "present")
  PROVE  MediaInv'
<1>1. MediaTyped' BY DEF MediaInv, MediaTyped
<1>2. Streaming' = Streaming BY DEF Streaming
<1>3. LocksOK' BY <1>2 DEF MediaInv, LocksOK
<1>4. Bounded' BY <1>2 DEF MediaInv, Bounded, Busy, Stored
<1>5. Young' BY <1>2 DEF MediaInv, MediaTyped, Young
<1> QED BY <1>1, <1>3, <1>4, <1>5 DEF MediaInv

LEMMA PublisherStep ==
  ASSUME MediaInv, \/ StartPublishing \/ ListVideos \/ SendMessage
                   \/ \E k \in Keys : ReadPhoto(k)
                   \/ \E k \in Videos \X {"part", "whole"} : ReadVideo(k)
  PROVE  MediaInv'
<1>1. /\ UNCHANGED <<item, file, age, upload, lock, order, orderAge, cleaner>>
      /\ item \in {"absent", "present", "deleted"}
      /\ order \in Orders /\ orderAge \in Nat /\ cleaner \in Cleaners
  BY DEF StartPublishing, ListVideos, SendMessage, ReadPhoto, ReadVideo, files, state, MediaInv, MediaTyped
<1>2. ASSUME NEW phase \in {"failed", "sent"}, Ends(phase) PROVE publisher' \in Publishers /\ TakenWhole'
  BY <1>2, Records DEF Ends, TakenWhole
<1>3. ASSUME NEW k \in PublisherKeys, Takes(k), k[2] # "part" PROVE publisher' \in Publishers /\ TakenWhole'
  BY <1>3 DEF Takes, TakenWhole, MediaInv, MediaTyped, Publishers
<1>4. ASSUME NEW k, Skips(k) PROVE publisher' \in Publishers /\ TakenWhole'
  BY <1>4 DEF Skips, TakenWhole, MediaInv, MediaTyped, Publishers
<1>5. ASSUME StartPublishing PROVE publisher' \in Publishers /\ TakenWhole'
  <2>1. Selected \subseteq PublisherKeys
    <3>1. Available \subseteq Keys BY DEF Available, Keys, Stored
    <3> QED BY <3>1 DEF Selected, PublisherKeys
  <2> QED BY <1>5, <2>1 DEF StartPublishing, TakenWhole, Publishers
<1>6. ASSUME ListVideos PROVE publisher' \in Publishers /\ TakenWhole'
  <2>1. {<<u, file[u]>> : u \in Videos \cap Stored({"part", "whole"})} \subseteq PublisherKeys
    BY DEF Stored, PublisherKeys
  <2> QED BY <1>6, <2>1 DEF ListVideos, TakenWhole, MediaInv, MediaTyped, Publishers
<1>7. ASSUME SendMessage PROVE publisher' \in Publishers /\ TakenWhole'
  BY <1>2, <1>7 DEF SendMessage, Fails
<1>8. ASSUME NEW k \in Keys, ReadPhoto(k) PROVE publisher' \in Publishers /\ TakenWhole'
  <2>1. k \in PublisherKeys BY DEF PublisherKeys
  <2> QED BY <1>2, <1>3, <1>4, <1>8, <2>1 DEF ReadPhoto, Fails
<1>9. ASSUME NEW k \in Videos \X {"part", "whole"}, ReadVideo(k) PROVE publisher' \in Publishers /\ TakenWhole'
  <2>1. k \in PublisherKeys BY DEF PublisherKeys
  <2> QED BY <1>2, <1>3, <1>9, <2>1 DEF ReadVideo, Fails
<1>10. publisher' \in Publishers /\ TakenWhole'
  BY <1>5, <1>6, <1>7, <1>8, <1>9
<1> QED BY <1>1, <1>10, QuietStep

LEMMA CleanStep == ASSUME MediaInv, Clean PROVE MediaInv'
<1> DEFINE gone == IF Orphaned THEN Uploads ELSE ExpiredParts
<1>1. gone \in SUBSET Uploads BY DEF ExpiredParts, Stored
<1>2. Unlink(gone) /\ cleaner' = [phase |-> "idle", spares |-> FALSE] /\ UNCHANGED <<item, upload, lock, publisher>>
  BY DEF Clean
<1>3. order' \in Orders /\ orderAge' \in Nat
  <2>1. CASE ForgetOrder
    <3>1. order' = [saved |-> FALSE, keys |-> {}] /\ orderAge' = 0 BY <2>1 DEF ForgetOrder
    <3> QED BY <3>1, Records
  <2>2. CASE UNCHANGED state
    BY <2>2 DEF state, MediaInv, MediaTyped
  <2> QED BY <2>1, <2>2 DEF Clean
<1>4. cleaner' \in Cleaners /\ cleaner'.phase = "idle" BY <1>2, Records
<1> HIDE DEF gone
<1>5. CASE item # "absent" BY <1>1, <1>2, <1>3, <1>4, <1>5, RemovalStep
<1>6. CASE item = "absent"
  <2>1. file' = file /\ age' = age
    <3>1. \A u \in Uploads : file[u] = "none" /\ age[u] = 0 BY <1>6 DEF MediaInv, Young
    <3> QED BY <1>2, <3>1 DEF Unlink, MediaInv, MediaTyped
  <2>2. MediaTyped' BY <1>2, <1>3, <1>4, <2>1 DEF MediaInv, MediaTyped
  <2> QED BY <1>2, <1>4, <1>6, <2>1, <2>2 DEF MediaInv, LocksOK, Bounded, Busy, Stored, Streaming, Young, TakenWhole
<1> QED BY <1>5, <1>6

LEMMA DaysStep == ASSUME MediaInv, Days PROVE MediaInv'
<1>1. /\ cleaner.phase = "idle"
      /\ age' = [u \in Uploads |-> IF file[u] = "none" \/ upload[u].phase = "streaming"
                                     THEN age[u] ELSE Older(age[u])]
      /\ orderAge' = IF order.saved THEN Older(orderAge) ELSE orderAge
      /\ UNCHANGED <<item, file, upload, lock, order, publisher, cleaner>>
  BY DEF Days
<1>2. MediaTyped' BY <1>1 DEF MediaInv, MediaTyped, Older
<1> QED BY <1>1, <1>2 DEF MediaInv, LocksOK, Bounded, Busy, Stored, Streaming, Young, TakenWhole

LEMMA EditorStep ==
  ASSUME MediaInv, \/ Create \/ DeleteItem \/ PurgeDeleted \/ ReadIds
                   \/ \E u \in Uploads : DeleteMedia(u)
                   \/ \E keys \in SUBSET Keys : SaveOrder(keys)
  PROVE  MediaInv'
<1>1. CASE Create BY <1>1, QuietStep DEF Create, files, state, MediaInv, MediaTyped, TakenWhole
<1>2. CASE DeleteItem BY <1>2, QuietStep DEF DeleteItem, Editable, files, state, MediaInv, MediaTyped, TakenWhole
<1>3. CASE PurgeDeleted BY <1>3, RemovalStep, Records DEF PurgeDeleted, ForgetOrder, MediaInv, MediaTyped
<1>4. CASE ReadIds
  <2>1. (item = "present") \in BOOLEAN /\ cleaner' = [phase |-> "read", spares |-> (item = "present")]
    BY <1>4 DEF ReadIds
  <2>2. cleaner' \in Cleaners /\ (cleaner'.spares <=> item = "present") BY <2>1, Records
  <2> QED BY <1>4, <2>2, QuietStep DEF ReadIds, files, state, MediaInv, MediaTyped, TakenWhole
<1>5. ASSUME NEW u \in Uploads, DeleteMedia(u) PROVE MediaInv'
  BY <1>5, RemovalStep DEF DeleteMedia, Editable, state, MediaInv, MediaTyped
<1>6. ASSUME NEW keys \in SUBSET Keys, SaveOrder(keys) PROVE MediaInv'
  BY <1>6, QuietStep, Records DEF SaveOrder, Editable, files, MediaInv, MediaTyped, TakenWhole
<1> QED BY <1>1, <1>2, <1>3, <1>4, <1>5, <1>6

LEMMA MediaInductive == MediaInv /\ [Next]_vars => MediaInv'
<1> SUFFICES ASSUME MediaInv, [Next]_vars PROVE MediaInv'
  OBVIOUS
<1>1. CASE UNCHANGED vars
  BY <1>1 DEF vars, MediaInv, MediaTyped, LocksOK, Bounded, Busy, Stored, Streaming, Young, TakenWhole
<1> QED BY <1>1, EditorStep, BeginStep, OpenStep, LeaveStep, CrashStep, PublisherStep, CleanStep, DaysStep
        DEF Next

-----------------------------------------------------------------------------
(* Theorems.                                                               *)

\* The inductive invariant holds in every reachable state.
THEOREM Invariance == Spec => []MediaInv
<1> QED BY MediaInitially, MediaInductive, PTL DEF Spec

\* Files, requests and locks have their types, and a lock is held by an upload that streams.
THEOREM TypeCorrect == Spec => []TypeOK
<1>1. MediaInv => TypeOK
  BY DEF MediaInv, MediaTyped, LocksOK, TypeOK, Orders, Publishers, Cleaners
<1> QED BY <1>1, Invariance, PTL

\* Processes that count for themselves exceed the limit of attachments by one upload each at
\* most, but for the first (media_upload.py).
THEOREM LimitKept == Spec => []FilesWithinLimit
<1>1. MediaInv => FilesWithinLimit
  <2> SUFFICES ASSUME MediaInv PROVE FilesWithinLimit
    OBVIOUS
  <2>1. Stored({"whole"}) \subseteq Busy /\ Busy \subseteq Uploads
    BY DEF Busy, Stored, Streaming
  <2> QED BY <2>1, Monotone DEF MediaInv, Bounded, FilesWithinLimit, Limit
<1> QED BY <1>1, Invariance, PTL

\* No message carries an upload that is still being written (publisher.py).
THEOREM WholeFilesAreSent == Spec => OnlyWholeFilesAreSent
<1>1. MediaInv /\ [Next]_vars => [publisher'.phase = "sent" => \A k \in publisher.taken : k[2] # "part"]_vars
  BY DEF MediaInv, TakenWhole
<1> QED BY <1>1, Invariance, PTL DEF Spec, OnlyWholeFilesAreSent

\* The cleanup takes nothing of a material that exists but parts nobody writes any more
\* (media_cleanup.py).
THEOREM LivingAreSpared == Spec => CleanupSparesLiving
<1> DEFINE Spares == Clean => \A u \in Uploads :
                       file'[u] # file[u] => /\ item # "present" \/ file[u] = "part"
                                             /\ upload[u].phase # "streaming" \/ item = "deleted"
<1>1. ASSUME MediaInv PROVE Spares
  <2> SUFFICES ASSUME Clean, NEW u \in Uploads, file'[u] # file[u]
               PROVE  /\ item # "present" \/ file[u] = "part"
                      /\ upload[u].phase # "streaming" \/ item = "deleted"
    OBVIOUS
  <2>1. /\ u \in (IF Orphaned THEN Uploads ELSE ExpiredParts)
        /\ file[u] # "none" /\ cleaner.phase = "read"
    BY <1>1 DEF Clean, Unlink, MediaInv, MediaTyped
  <2>2. item # "absent" /\ (upload[u].phase = "streaming" => age[u] = 0)
    BY <1>1, <2>1 DEF MediaInv, Young, Streaming
  <2>3. CASE Orphaned
    <3>1. ~cleaner.spares /\ age[u] >= OrphanAge
      BY <1>1, <2>1, <2>3 DEF Orphaned, Stored, MediaInv, MediaTyped
    <3>2. item # "present" BY <1>1, <2>1, <3>1, MediaAssumption DEF MediaInv, Young
    <3> QED BY <1>1, <2>2, <3>2 DEF MediaInv, MediaTyped
  <2>4. CASE ~Orphaned
    <3>1. file[u] = "part" /\ age[u] >= PartAge
      BY <2>1, <2>4 DEF ExpiredParts, Stored
    <3> QED BY <2>2, <3>1, MediaAssumption
  <2> QED BY <2>3, <2>4
<1>2. MediaInv /\ [Next]_vars => [Spares]_vars
  BY <1>1
<1> QED BY <1>2, Invariance, PTL DEF Spec, CleanupSparesLiving

-----------------------------------------------------------------------------
(* Avatars.                                                                *)

Phases == {"new", "ready", "replacing", "deleting", "committed", "ended"}

AvatarsTyped ==
  /\ user \in [key : Requests \cup {NoFile}, active : BOOLEAN]
  /\ images \in SUBSET Requests
  /\ request \in [Requests -> [phase : Phases, row : Requests \cup {NoFile},
                               previous : Requests \cup {NoFile}]]
  /\ broken \in [crashes : Nat, answers : Nat, files : Nat]

\* Whoever writes holds the row and knows its key.
HoldsUser == \A r \in Requests : Writing(r) => userLock = r /\ request[r].previous = user.key

\* Requests that have committed a file, whether or not they know it.
Past(f) == f \in Requests => request[f].phase \in {"committed", "ended"}

\* The row and the removals to come name files of requests that are past.
NamedIsPast ==
  /\ Past(user.key)
  /\ \A r \in Requests : request[r].phase = "committed" =>
       Past(request[r].previous) /\ request[r].previous \in {NoFile} \cup (Requests \ {user.key})
  /\ \A f \in images : request[f].phase \in {"replacing", "committed", "ended"}

\* The new file is there until its request has committed.
NewIsStored == \A r \in Requests : request[r].phase = "replacing" => r \in images

\* The two halves of AvatarAccounted.
KeyIsStored == user.key \in images \cup {NoFile} \/ broken.answers > 0
FewLeftovers ==
  IsFiniteSet(Leftovers) /\ Cardinality(Leftovers) <= broken.crashes + broken.answers + broken.files

AvatarsInv == AvatarsTyped /\ HoldsUser /\ NamedIsPast /\ NewIsStored /\ KeyIsStored /\ FewLeftovers

-----------------------------------------------------------------------------
LEMMA AvatarsInitially == AvatarsInit => AvatarsInv
<1> SUFFICES ASSUME AvatarsInit PROVE AvatarsInv
  OBVIOUS
<1>1. AvatarsTyped
  BY DEF AvatarsInit, AvatarsTyped, NewRequest, Phases
<1>2. HoldsUser /\ NamedIsPast /\ NewIsStored /\ KeyIsStored
  BY AvatarsAssumption
  DEF AvatarsInit, NewRequest, HoldsUser, Writing, NamedIsPast, Past, NewIsStored, KeyIsStored
<1>3. Leftovers = {}
  BY DEF AvatarsInit, Leftovers
<1>4. FewLeftovers
  BY <1>3, FS_EmptySet DEF AvatarsInit, FewLeftovers
<1> QED BY <1>1, <1>2, <1>4 DEF AvatarsInv

\* Steps that break nothing leave no more behind.
LEMMA NothingNew ==
  ASSUME AvatarsInv, Leftovers' \subseteq Leftovers, broken' = broken
  PROVE  FewLeftovers'
<1>1. IsFiniteSet(Leftovers) /\ Cardinality(Leftovers) <= broken.crashes + broken.answers + broken.files
      /\ broken.crashes + broken.answers + broken.files \in Nat
  BY DEF AvatarsInv, FewLeftovers, AvatarsTyped
<1>2. /\ IsFiniteSet(Leftovers') /\ Cardinality(Leftovers') <= Cardinality(Leftovers)
      /\ Cardinality(Leftovers) \in Nat /\ Cardinality(Leftovers') \in Nat
  BY <1>1, FS_Subset, FS_CardinalityType
<1> QED BY <1>1, <1>2 DEF FewLeftovers

\* A crash, a lost answer or a failed file operation leaves one file behind.
LEMMA OneMore ==
  ASSUME AvatarsInv, NEW f, NEW how \in {"crashes", "answers", "files"}, Breaks(how),
         Leftovers' \subseteq Leftovers \cup {f}
  PROVE  FewLeftovers'
<1>1. IsFiniteSet(Leftovers) /\ Cardinality(Leftovers) <= broken.crashes + broken.answers + broken.files
      /\ broken.crashes \in Nat /\ broken.answers \in Nat /\ broken.files \in Nat
  BY DEF AvatarsInv, FewLeftovers, AvatarsTyped
<1>2. broken'.crashes + broken'.answers + broken'.files
        = broken.crashes + broken.answers + broken.files + 1
  BY <1>1 DEF Breaks, AvatarsInv, AvatarsTyped
<1>3. /\ IsFiniteSet(Leftovers \cup {f}) /\ Cardinality(Leftovers) \in Nat
      /\ Cardinality(Leftovers \cup {f}) <= Cardinality(Leftovers) + 1
  <2>1. Cardinality(Leftovers) \in Nat
    BY <1>1, FS_CardinalityType
  <2>2. /\ IsFiniteSet(Leftovers \cup {f})
        /\ \/ Cardinality(Leftovers \cup {f}) = Cardinality(Leftovers)
           \/ Cardinality(Leftovers \cup {f}) = Cardinality(Leftovers) + 1
    BY <1>1, FS_AddElement, Zenon
  <2> QED BY <2>1, <2>2
<1>4. /\ IsFiniteSet(Leftovers') /\ Cardinality(Leftovers') <= Cardinality(Leftovers \cup {f})
      /\ Cardinality(Leftovers') \in Nat /\ Cardinality(Leftovers \cup {f}) \in Nat
  BY <1>3, FS_Subset, FS_CardinalityType
<1> QED BY <1>1, <1>2, <1>3, <1>4 DEF FewLeftovers

-----------------------------------------------------------------------------
(* Steps.                                                                  *)

\* Before a request has written anything it disturbs nothing.
LEMMA BeginAvatarStep ==
  ASSUME AvatarsInv, NEW r \in Requests, Authenticate(r) \/ RefuseAvatar(r)
  PROVE  AvatarsInv'
<1>1. /\ user' = user /\ images' = images /\ userLock' = userLock /\ broken' = broken
      /\ request[r].phase \in {"new", "ready"} /\ request'[r].phase \in {"ready", "ended"}
      /\ \A q \in Requests \ {r} : request'[q] = request[q]
  BY DEF Authenticate, RefuseAvatar, Ended, NewRequest, AvatarsInv, AvatarsTyped
<1>2. AvatarsTyped'
  BY DEF Authenticate, RefuseAvatar, Ended, NewRequest, AvatarsInv, AvatarsTyped, Phases
<1>3. HoldsUser' /\ NewIsStored' /\ KeyIsStored'
  BY <1>1 DEF AvatarsInv, HoldsUser, Writing, NewIsStored, KeyIsStored
<1>4. NamedIsPast'
  BY <1>1 DEF AvatarsInv, AvatarsTyped, NamedIsPast, Past
<1>5. Leftovers' \subseteq Leftovers
  BY <1>1 DEF Leftovers
<1> QED BY <1>1, <1>2, <1>3, <1>4, <1>5, NothingNew DEF AvatarsInv

\* A write that fails leaves at most the file of its own request.
LEMMA BadWriteStep ==
  ASSUME AvatarsInv, NEW r \in Requests, ReplaceFails(r)
  PROVE  AvatarsInv'
<1>1. /\ user' = user /\ userLock' = userLock
      /\ images' = images \/ images' = images \cup {r}
      /\ request[r].phase = "ready" /\ request'[r].phase = "ended"
      /\ \A q \in Requests \ {r} : request'[q] = request[q]
  BY DEF ReplaceFails, Ended, NewRequest, AvatarsInv, AvatarsTyped
<1>2. AvatarsTyped'
  BY DEF ReplaceFails, Ended, NewRequest, Breaks, AvatarsInv, AvatarsTyped, Phases
<1>3. HoldsUser' /\ NewIsStored'
  BY <1>1 DEF AvatarsInv, HoldsUser, Writing, NewIsStored
<1>4. KeyIsStored'
  BY <1>1 DEF ReplaceFails, Breaks, AvatarsInv, AvatarsTyped, KeyIsStored
<1>5. NamedIsPast'
  BY <1>1 DEF AvatarsInv, AvatarsTyped, NamedIsPast, Past
<1>6. Leftovers' \subseteq Leftovers \cup {r}
  BY <1>1 DEF Leftovers
<1>7. CASE UNCHANGED <<images, broken>>
  <2>1. Leftovers' \subseteq Leftovers
    BY <1>1, <1>7 DEF Leftovers
  <2> QED BY <1>2, <1>3, <1>4, <1>5, <1>7, <2>1, NothingNew DEF AvatarsInv
<1>8. CASE Breaks("files")
  BY <1>2, <1>3, <1>4, <1>5, <1>6, <1>8, OneMore DEF AvatarsInv
<1> QED BY <1>7, <1>8 DEF ReplaceFails

\* Only one request writes at a time.
LEMMA LockStep ==
  ASSUME AvatarsInv, NEW r \in Requests, Replace(r) \/ DeleteAvatar(r)
  PROVE  AvatarsInv'
<1>1. /\ user' = user /\ broken' = broken /\ userLock = NoFile /\ userLock' = r
      /\ images \subseteq images' /\ images' \subseteq images \cup {r}
      /\ request[r].phase = "ready" /\ request'[r].phase \in {"replacing", "deleting"}
      /\ request'[r].phase = "replacing" => r \in images'
      /\ request'[r].phase = "deleting" => images' = images
      /\ request'[r].previous = user.key
      /\ \A q \in Requests \ {r} : request'[q] = request[q]
  BY DEF Replace, DeleteAvatar, LockUser, AvatarsInv, AvatarsTyped
<1>2. AvatarsTyped'
  BY DEF Replace, DeleteAvatar, LockUser, AvatarsInv, AvatarsTyped, Phases
<1>3. HoldsUser' /\ NewIsStored' /\ KeyIsStored'
  BY <1>1, AvatarsAssumption DEF AvatarsInv, HoldsUser, Writing, NewIsStored, KeyIsStored
<1>4. NamedIsPast'
  BY <1>1 DEF AvatarsInv, AvatarsTyped, NamedIsPast, Past
<1>5. Leftovers' \subseteq Leftovers
  BY <1>1 DEF Leftovers, AvatarsInv, NamedIsPast
<1> QED BY <1>1, <1>2, <1>3, <1>4, <1>5, NothingNew DEF AvatarsInv

\* The key moves on, and the request that moved it knows what to remove.
LEMMA CommitStep ==
  ASSUME AvatarsInv, NEW r \in Requests, CommitAvatar(r)
  PROVE  AvatarsInv'
<1>1. /\ user'.key = NewKey(r) /\ images' = images /\ broken' = broken
      /\ Writing(r) /\ userLock = r
      /\ request'[r].phase = "committed" /\ request'[r].previous = user.key
      /\ \A q \in Requests \ {r} : request'[q] = request[q] /\ ~Writing(q)
  BY DEF CommitAvatar, Unlocks, AvatarsInv, AvatarsTyped, HoldsUser
<1>2. AvatarsTyped'
  BY DEF CommitAvatar, NewKey, AvatarsInv, AvatarsTyped, Phases
<1>3. /\ NewKey(r) \in {r, NoFile}
      /\ NewKey(r) = r => request[r].phase = "replacing" /\ r \in images
      /\ request[r].phase = "replacing" => NewKey(r) = r
  BY <1>1, AvatarsAssumption DEF NewKey, Writing, AvatarsInv, NewIsStored
<1>4. HoldsUser' /\ NewIsStored' /\ KeyIsStored'
  BY <1>1, <1>3 DEF AvatarsInv, HoldsUser, Writing, NewIsStored, KeyIsStored
<1>5. NamedIsPast'
  BY <1>1, <1>3, AvatarsAssumption DEF AvatarsInv, AvatarsTyped, NamedIsPast, Past, Writing
<1>6. Leftovers' \subseteq Leftovers
  BY <1>1, <1>3 DEF Leftovers, AvatarsInv, AvatarsTyped, NamedIsPast, Writing
<1> QED BY <1>1, <1>2, <1>4, <1>5, <1>6, NothingNew DEF AvatarsInv

\* A commit that fails takes its file back if it can; one whose answer is lost leaves
\* the previous file behind.
LEMMA FailStep ==
  ASSUME AvatarsInv, NEW r \in Requests, CommitFails(r)
  PROVE  AvatarsInv'
<1>1. /\ images \ {r} \subseteq images' /\ images' \subseteq images
      /\ Writing(r) /\ userLock = r
      /\ request'[r].phase = "ended"
      /\ \A q \in Requests \ {r} : request'[q] = request[q] /\ ~Writing(q)
  BY DEF CommitFails, Unlocks, Ended, AvatarsInv, AvatarsTyped, HoldsUser
<1>2. NewKey(r) \in {r, NoFile} /\ user.key # r
  BY <1>1 DEF NewKey, AvatarsInv, NamedIsPast, Past, Writing
<1>3. AvatarsTyped'
  BY <1>2 DEF CommitFails, Ended, NewRequest, Breaks, AvatarsInv, AvatarsTyped, Phases
<1>4. HoldsUser' /\ NewIsStored'
  BY <1>1 DEF AvatarsInv, HoldsUser, Writing, NewIsStored
<1>5. user'.key \in {user.key, NewKey(r)}
  BY DEF CommitFails, AvatarsInv, AvatarsTyped
<1>6. NamedIsPast'
  BY <1>1, <1>2, <1>5, AvatarsAssumption DEF AvatarsInv, AvatarsTyped, NamedIsPast, Past, Writing
<1>7. CASE images' = images \ {r} /\ UNCHANGED <<user, broken>>
  <2>1. KeyIsStored'
    BY <1>1, <1>2, <1>7 DEF AvatarsInv, KeyIsStored
  <2>2. Leftovers' \subseteq Leftovers
    BY <1>1, <1>7 DEF Leftovers, Writing
  <2> QED BY <1>3, <1>4, <1>6, <1>7, <2>1, <2>2, NothingNew DEF AvatarsInv
<1>8. CASE Breaks("answers") /\ user' = [user EXCEPT !.key = NewKey(r)]
  <2>1. KeyIsStored'
    BY <1>8 DEF AvatarsInv, AvatarsTyped, KeyIsStored, Breaks
  <2>2. user'.key = NewKey(r) /\ (r \in images => NewKey(r) = r)
    BY <1>1, <1>8 DEF NewKey, Writing, AvatarsInv, AvatarsTyped, NamedIsPast
  <2>3. Leftovers' \subseteq Leftovers \cup {user.key}
    BY <1>1, <2>2 DEF Leftovers, Writing
  <2> QED BY <1>3, <1>4, <1>6, <1>8, <2>1, <2>3, OneMore DEF AvatarsInv
<1>9. CASE Breaks("files") /\ UNCHANGED <<user, images>>
  <2>1. KeyIsStored'
    BY <1>9 DEF AvatarsInv, AvatarsTyped, KeyIsStored, Breaks
  <2>2. Leftovers' \subseteq Leftovers \cup {r}
    BY <1>1, <1>9 DEF Leftovers, Writing
  <2> QED BY <1>3, <1>4, <1>6, <1>9, <2>1, <2>2, OneMore DEF AvatarsInv
<1> QED BY <1>7, <1>8, <1>9 DEF CommitFails

LEMMA RemoveStep ==
  ASSUME AvatarsInv, NEW r \in Requests, DeletePrevious(r)
  PROVE  AvatarsInv'
<1>1. /\ user' = user /\ userLock' = userLock
      /\ images \ {request[r].previous} \subseteq images' /\ images' \subseteq images
      /\ request[r].phase = "committed" /\ request'[r].phase = "ended"
      /\ \A q \in Requests \ {r} : request'[q] = request[q]
  BY DEF DeletePrevious, Ended, AvatarsInv, AvatarsTyped
<1>2. AvatarsTyped'
  BY DEF DeletePrevious, Ended, NewRequest, Breaks, AvatarsInv, AvatarsTyped, Phases
<1>3. /\ request[r].previous \in {NoFile} \cup (Requests \ {user.key})
      /\ Past(request[r].previous)
  BY <1>1 DEF AvatarsInv, NamedIsPast
<1>4. HoldsUser' /\ NewIsStored'
  BY <1>1, <1>3 DEF AvatarsInv, AvatarsTyped, HoldsUser, Writing, NewIsStored, Past
<1>5. KeyIsStored'
  BY <1>1, <1>3 DEF DeletePrevious, Breaks, AvatarsInv, AvatarsTyped, KeyIsStored
<1>6. NamedIsPast'
  BY <1>1 DEF AvatarsInv, AvatarsTyped, NamedIsPast, Past
<1>7. CASE images' = images \ {request[r].previous} /\ UNCHANGED broken
  <2>1. Leftovers' \subseteq Leftovers
    BY <1>1, <1>7 DEF Leftovers
  <2> QED BY <1>2, <1>4, <1>5, <1>6, <1>7, <2>1, NothingNew DEF AvatarsInv
<1>8. CASE Breaks("files") /\ UNCHANGED images
  <2>1. Leftovers' \subseteq Leftovers \cup {request[r].previous}
    BY <1>1, <1>8 DEF Leftovers
  <2> QED BY <1>2, <1>4, <1>5, <1>6, <1>8, <2>1, OneMore DEF AvatarsInv
<1> QED BY <1>7, <1>8 DEF DeletePrevious

LEMMA CrashAvatarStep ==
  ASSUME AvatarsInv, NEW r \in Requests, CrashAvatar(r)
  PROVE  AvatarsInv'
<1>1. /\ user' = user /\ images' = images
      /\ Writing(r) \/ request[r].phase = "committed"
      /\ userLock' = IF userLock = r THEN NoFile ELSE userLock
      /\ request'[r].phase = "ended"
      /\ \A q \in Requests \ {r} : request'[q] = request[q]
  BY DEF CrashAvatar, Unlocks, Ended, AvatarsInv, AvatarsTyped
<1>2. AvatarsTyped'
  BY DEF CrashAvatar, Ended, NewRequest, Breaks, AvatarsInv, AvatarsTyped, Phases
<1>3. HoldsUser' /\ NewIsStored'
  BY <1>1 DEF AvatarsInv, HoldsUser, Writing, NewIsStored
<1>4. KeyIsStored'
  BY <1>1 DEF CrashAvatar, Breaks, AvatarsInv, AvatarsTyped, KeyIsStored
<1>5. NamedIsPast'
  BY <1>1 DEF AvatarsInv, AvatarsTyped, NamedIsPast, Past
<1>6. CASE Writing(r)
  <2>1. Leftovers' \subseteq Leftovers \cup {r}
    BY <1>1, <1>6 DEF Leftovers, Writing
  <2> QED BY <1>2, <1>3, <1>4, <1>5, <2>1, OneMore DEF CrashAvatar, AvatarsInv
<1>7. CASE request[r].phase = "committed"
  <2>1. Leftovers' \subseteq Leftovers \cup {request[r].previous}
    BY <1>1, <1>7 DEF Leftovers
  <2> QED BY <1>2, <1>3, <1>4, <1>5, <2>1, OneMore DEF CrashAvatar, AvatarsInv
<1> QED BY <1>1, <1>6, <1>7

LEMMA SwitchStep ==
  ASSUME AvatarsInv, SwitchUser \/ UNCHANGED avatarVars
  PROVE  AvatarsInv'
<1>1. user'.key = user.key /\ UNCHANGED <<images, request, broken, userLock>>
  BY DEF SwitchUser, avatarVars, AvatarsInv, AvatarsTyped
<1>2. AvatarsTyped'
  BY DEF SwitchUser, avatarVars, AvatarsInv, AvatarsTyped
<1>3. HoldsUser' /\ NamedIsPast' /\ NewIsStored' /\ KeyIsStored'
  BY <1>1 DEF AvatarsInv, HoldsUser, Writing, NamedIsPast, Past, NewIsStored, KeyIsStored
<1>4. Leftovers' \subseteq Leftovers
  BY <1>1 DEF Leftovers
<1> QED BY <1>1, <1>2, <1>3, <1>4, NothingNew DEF AvatarsInv

LEMMA AvatarsInductive == AvatarsInv /\ [AvatarsNext]_avatarVars => AvatarsInv'
<1> SUFFICES ASSUME AvatarsInv, [AvatarsNext]_avatarVars PROVE AvatarsInv'
  OBVIOUS
<1>1. ASSUME NEW r \in Requests, Authenticate(r) \/ RefuseAvatar(r)
      PROVE  AvatarsInv'
  BY <1>1, BeginAvatarStep
<1>2. ASSUME NEW r \in Requests, Replace(r) \/ ReplaceFails(r) \/ DeleteAvatar(r)
      PROVE  AvatarsInv'
  BY <1>2, LockStep, BadWriteStep
<1>3. ASSUME NEW r \in Requests,
             CommitAvatar(r) \/ CommitFails(r) \/ DeletePrevious(r) \/ CrashAvatar(r)
      PROVE  AvatarsInv'
  BY <1>3, CommitStep, FailStep, RemoveStep, CrashAvatarStep
<1>4. CASE SwitchUser \/ UNCHANGED avatarVars
  BY <1>4, SwitchStep
<1> QED BY <1>1, <1>2, <1>3, <1>4 DEF AvatarsNext

-----------------------------------------------------------------------------
(* Theorem.                                                                *)

\* The avatar of the row is on disk unless the answer of a commit was lost, and every
\* file left behind is paid for by a crash, by such a commit or by an operation that
\* failed on the volume (avatars.py).
THEOREM AvatarsAreAccounted == AvatarsSpec => []AvatarAccounted
<1>1. AvatarsSpec => []AvatarsInv
  BY AvatarsInitially, AvatarsInductive, PTL DEF AvatarsSpec
<1>2. AvatarsInv => AvatarAccounted
  BY DEF AvatarsInv, KeyIsStored, FewLeftovers, AvatarAccounted
<1> QED BY <1>1, <1>2, PTL
=============================================================================
