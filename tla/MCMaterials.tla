------------------------------ MODULE MCMaterials -----------------------------
(* Small instances of Moderation and of Directory in one run.  They share  *)
(* no state, so one of them, chosen at the start, moves and the other      *)
(* rests.  Of the directory, either two deletions overlap over one channel *)
(* or one deletion at a time meets two, of which none is paused.           *)
EXTENDS Moderation, Directory, TLC
CONSTANTS t1, t2, x1, x2, u1
VARIABLE moving
MCInit == Init /\ DirectoryInit /\ moving \in {"moderation", "overlap", "wide"}
MCNext ==
  /\ \/ moving = "moderation" /\ Next /\ UNCHANGED directoryVars
     \/ moving = "overlap" /\ DirectoryNext /\ (\E t \in Channels : entry'[t] = "none") /\ UNCHANGED vars
     \/ moving = "wide" /\ DirectoryNext /\ (\E d \in Deletions : deletion'[d] = NoDeletion)
          /\ (\A t \in Channels : entry'[t] # "paused") /\ UNCHANGED vars
  /\ UNCHANGED moving
MCSpec == MCInit /\ [][MCNext]_<<vars, directoryVars, moving>>
MCSymmetry == Permutations(Requests) \cup Permutations(Channels) \cup Permutations(Deletions)
=============================================================================
