-------------------------------- MODULE Avatars --------------------------------
(***************************************************************************)
(* The avatar of one user: a key in the row of the user and a file on the  *)
(* media volume, which must agree although only the row is transactional.  *)
(*                                                                         *)
(* Every request that replaces the avatar writes a file under a name of    *)
(* its own (uuid4), so a file is named here by its request.                *)
(***************************************************************************)
EXTENDS Naturals, FiniteSets

CONSTANTS
  Requests,     \* uploads and deletions of the avatar
  NoFile,       \* no file, and nobody
  MaxBroken     \* bound: crashes, lost answers of commits and failed file operations

ASSUME AvatarsAssumption == NoFile \notin Requests /\ MaxBroken \in Nat

VARIABLES
  user,       \* the row: its key and whether it is active
  images,     \* files in the directory of the user
  request,    \* what each request has read and written
  userLock,   \* the request that holds FOR UPDATE on the row
  broken      \* crashes, commits whose answer was lost, and writes and removals that
              \* failed and left a file

avatarVars == <<user, images, request, userLock, broken>>

-----------------------------------------------------------------------------
NewRequest == [phase |-> "new", row |-> NoFile, previous |-> NoFile]

AvatarsInit ==
  /\ user = [key |-> NoFile, active |-> TRUE]
  /\ images = {}
  /\ request = [r \in Requests |-> NewRequest]
  /\ userLock = NoFile
  /\ broken = [crashes |-> 0, answers |-> 0, files |-> 0]

Unlocks(r) == userLock' = IF userLock = r THEN NoFile ELSE userLock
Ended(r) == request' = [request EXCEPT ![r] = [NewRequest EXCEPT !.phase = "ended"]]
Breaks(how) ==
  /\ broken.crashes + broken.answers + broken.files < MaxBroken
  /\ broken' = [broken EXCEPT ![how] = @ + 1]

\* get_current_auth loads the row of the user with the session.
Authenticate(r) ==
  /\ request[r].phase = "new" /\ user.active
  /\ request' = [request EXCEPT ![r].phase = "ready", ![r].row = user.key]
  /\ UNCHANGED <<user, images, userLock, broken>>

\* Fault: the row loaded with the session is not read again.
LockUserStale(r, phase) ==
  /\ request[r].phase = "ready" /\ userLock = NoFile /\ user.active
  /\ userLock' = r
  /\ request' = [request EXCEPT ![r].phase = phase, ![r].previous = request[r].row]

\* get_by_id_for_update reads the row again under the lock.
LockUser(r, phase) ==
  /\ request[r].phase = "ready" /\ userLock = NoFile /\ user.active
  /\ userLock' = r
  /\ request' = [request EXCEPT ![r].phase = phase, ![r].previous = user.key]

\* The new file is complete before the row names it.
Replace(r) ==
  /\ LockUser(r, "replacing") /\ images' = images \cup {r}
  /\ UNCHANGED <<user, broken>>

\* The write raises before anything catches it, and part of the file may stay.
ReplaceFails(r) ==
  /\ request[r].phase = "ready" /\ userLock = NoFile /\ user.active /\ Ended(r)
  /\ \/ UNCHANGED <<images, broken>>
     \/ Breaks("files") /\ images' = images \cup {r}
  /\ UNCHANGED <<user, userLock>>

DeleteAvatar(r) ==
  /\ LockUser(r, "deleting") /\ UNCHANGED <<user, images, broken>>

\* The account has been disabled since the session was validated, or the image is refused.
RefuseAvatar(r) ==
  /\ request[r].phase = "ready" /\ Ended(r)
  /\ UNCHANGED <<user, images, userLock, broken>>

NewKey(r) == IF request[r].phase = "replacing" THEN r ELSE NoFile
Writing(r) == request[r].phase \in {"replacing", "deleting"}

CommitAvatar(r) ==
  /\ Writing(r) /\ Unlocks(r)
  /\ user' = [user EXCEPT !.key = NewKey(r)]
  /\ request' = [request EXCEPT ![r].phase = "committed"]
  /\ UNCHANGED <<images, broken>>

\* The commit raises, and the new file is removed, which may fail as well.  If only the
\* answer was lost, the row names the file all the same.
CommitFails(r) ==
  /\ Writing(r) /\ Unlocks(r) /\ Ended(r)
  /\ \/ images' = images \ {r} /\ UNCHANGED <<user, broken>>
     \/ request[r].phase = "replacing" /\ Breaks("files") /\ UNCHANGED <<user, images>>
     \/ /\ Breaks("answers") /\ user' = [user EXCEPT !.key = NewKey(r)]
        /\ images' \in {images, images \ {r}}

\* _delete_storage_key: an error of the volume is passed over, and the file stays.
DeletePrevious(r) ==
  /\ request[r].phase = "committed" /\ Ended(r)
  /\ \/ images' = images \ {request[r].previous} /\ UNCHANGED broken
     \/ Breaks("files") /\ request[r].previous \in images /\ UNCHANGED images
  /\ UNCHANGED <<user, userLock>>

CrashAvatar(r) ==
  /\ Writing(r) \/ request[r].phase = "committed"
  /\ Breaks("crashes") /\ Unlocks(r) /\ Ended(r)
  /\ UNCHANGED <<user, images>>

\* An administrator disables or enables the account.
SwitchUser ==
  /\ userLock = NoFile /\ user' = [user EXCEPT !.active = ~@]
  /\ UNCHANGED <<images, request, userLock, broken>>

AvatarsNext ==
  \/ \E r \in Requests :
       \/ Authenticate(r) \/ Replace(r) \/ ReplaceFails(r) \/ DeleteAvatar(r)
       \/ RefuseAvatar(r) \/ CommitAvatar(r) \/ CommitFails(r) \/ DeletePrevious(r) \/ CrashAvatar(r)
  \/ SwitchUser

AvatarsSpec == AvatarsInit /\ [][AvatarsNext]_avatarVars

-----------------------------------------------------------------------------
(* Property.                                                               *)

\* Files that are neither the avatar nor in the hands of a request.
Leftovers ==
  {f \in images :
     /\ f # user.key
     /\ ~\E r \in Requests : \/ r = f /\ request[r].phase = "replacing"
                             \/ request[r].phase = "committed" /\ request[r].previous = f}

\* The row and the volume agree although requests overlap: the avatar in the row is on
\* disk unless the answer of a commit was lost, and a file is left behind only by a
\* crash, by such a commit, which forgets the previous one, or by a write or a removal
\* that failed on the volume: one file by each of them (avatars.py).
AvatarAccounted ==
  /\ user.key \in images \cup {NoFile} \/ broken.answers > 0
  /\ Cardinality(Leftovers) <= broken.crashes + broken.answers + broken.files
=============================================================================
