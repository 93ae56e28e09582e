-------------------------- MODULE CollectionProofs --------------------------
(***************************************************************************)
(* Theorems about Collection, for any walls, pages, channels and number of *)
(* executors, and Schedule, for any length of the day, settings, poll and  *)
(* retry.                                                                  *)
(*                                                                         *)
(* What a pass has read (ReadInv) says which posts are still to come: one  *)
(* that lies between the checkpoint and a post already read has a rank     *)
(* that the next page starts at or before. The ranks of a wall have no     *)
(* gaps (RankReached), so that a page that reaches the checkpoint or finds *)
(* nothing leaves no such post out.                                        *)
(* A first reading leaves at most one newer post out, and only behind a    *)
(* pinned one (FirstStep, ReadNextStep).                                   *)
(*                                                                         *)
(* The loop of the scheduler asks at every moment because next_run_at      *)
(* finds the first one that has not passed (NextRunOf): its window is the  *)
(* first that has not ended, and rounding up loses no step of it. Until    *)
(* the loop wakes up nothing else is due (Covered).                        *)
(***************************************************************************)
EXTENDS Collection, Schedule, Integers, Extrema, FiniteSetTheorems, TLAPS

-----------------------------------------------------------------------------
(* Collection.                                                             *)

-----------------------------------------------------------------------------
(* Pages.                                                                  *)

LEMMA NewestOf ==
  ASSUME NEW S, S \subseteq Nat \ {0}, IsFiniteSet(S)
  PROVE  /\ Newest(S) \in Nat /\ \A x \in S : x <= Newest(S)
         /\ Newest(S) = 0 <=> S = {}
         /\ S # {} => Newest(S) \in S
BY MaxOf DEF Newest

Newer(s, p) == {q \in Ordinary(s) : q > p}

LEMMA OrdinaryFinite ==
  ASSUME NEW s, wall[s] \in Nat
  PROVE  /\ Ordinary(s) \subseteq Existing(s) /\ Existing(s) \subseteq 1..wall[s]
         /\ IsFiniteSet(Existing(s)) /\ IsFiniteSet(Ordinary(s))
         /\ Ordinary(s) \subseteq 1..wall[s] /\ Ordinary(s) \subseteq Nat
<1>1. /\ Ordinary(s) \subseteq Existing(s) /\ Existing(s) \subseteq 1..wall[s]
      /\ 1..wall[s] \subseteq Nat
  BY DEF Ordinary, Existing
<1>2. IsFiniteSet(1..wall[s])
  BY FS_Interval
<1> QED
  BY <1>1, <1>2, FS_Subset

LEMMA RankType ==
  ASSUME NEW s, wall[s] \in Nat, NEW p \in Nat
  PROVE  Rank(s, p) \in Nat /\ IsFiniteSet(Newer(s, p)) /\ Rank(s, p) = Cardinality(Newer(s, p))
<1>1. Newer(s, p) \subseteq Ordinary(s)
  BY DEF Newer
<1> QED
  BY <1>1, OrdinaryFinite, FS_Subset, FS_CardinalityType DEF Rank, Newer

\* Newer posts have lower ranks, and a rank is less than the number of posts.
LEMMA RankMonotone ==
  ASSUME NEW s, wall[s] \in Nat, NEW p \in Nat, NEW q \in Nat, p <= q
  PROVE  Rank(s, q) <= Rank(s, p)
<1>1. Newer(s, q) \subseteq Newer(s, p)
  BY OrdinaryFinite DEF Newer
<1> QED
  BY <1>1, RankType, FS_Subset

LEMMA RankStrict ==
  ASSUME NEW s, wall[s] \in Nat, NEW p \in Nat, NEW q \in Ordinary(s), p < q
  PROVE  Rank(s, q) < Rank(s, p)
<1>1. q \in Nat /\ IsFiniteSet(Newer(s, p)) /\ IsFiniteSet(Newer(s, q))
  BY OrdinaryFinite, RankType
<1>2. Newer(s, q) \subseteq Newer(s, p) \ {q} /\ q \in Newer(s, p)
  BY <1>1, OrdinaryFinite DEF Newer
<1>3. /\ IsFiniteSet(Newer(s, p) \ {q})
      /\ Cardinality(Newer(s, p) \ {q}) = Cardinality(Newer(s, p)) - 1
  BY <1>1, <1>2, FS_RemoveElement
<1>4. Cardinality(Newer(s, q)) <= Cardinality(Newer(s, p) \ {q})
  BY <1>2, <1>3, FS_Subset
<1> QED
  BY <1>1, <1>3, <1>4, RankType

LEMMA RankBound ==
  ASSUME NEW s, wall[s] \in Nat, NEW p \in Ordinary(s)
  PROVE  Rank(s, p) < Cardinality(Existing(s)) /\ Cardinality(Existing(s)) \in Nat
<1>1. p \in Nat /\ p \in Existing(s) /\ IsFiniteSet(Existing(s))
  BY OrdinaryFinite
<1>2. Newer(s, p) \subseteq Existing(s) \ {p}
  BY <1>1, OrdinaryFinite DEF Newer
<1>3. /\ IsFiniteSet(Existing(s) \ {p})
      /\ Cardinality(Existing(s) \ {p}) = Cardinality(Existing(s)) - 1
  BY <1>1, FS_RemoveElement
<1>4. Cardinality(Newer(s, p)) <= Cardinality(Existing(s) \ {p})
  BY <1>2, <1>3, FS_Subset
<1>5. Cardinality(Existing(s)) \in Nat
  BY <1>1, FS_CardinalityType
<1> QED
  BY <1>1, <1>3, <1>4, <1>5, RankType

\* Every rank up to one that occurs occurs.
LEMMA RankReached ==
  ASSUME NEW s, wall[s] \in Nat, NEW p \in Ordinary(s), NEW o \in Nat, o <= Rank(s, p)
  PROVE  \E q \in Ordinary(s) : Rank(s, q) = o
<1> DEFINE Q == {q \in Ordinary(s) : o <= Rank(s, q)}
<1>1. Q \subseteq Nat /\ IsFiniteSet(Q) /\ Q # {}
  BY OrdinaryFinite, FS_Subset
<1>2. PICK m \in Q : \A q \in Q : q <= m
  <2> HIDE DEF Q
  <2> QED
    BY <1>1, MaxOf
<1>3. m \in Nat /\ m \in Ordinary(s) /\ Rank(s, m) \in Nat /\ o <= Rank(s, m)
  BY <1>1, RankType
<1>4. ASSUME o < Rank(s, m) PROVE FALSE
  <2>1. Newer(s, m) # {}
    BY <1>3, <1>4, RankType, FS_EmptySet
  <2>2. Newer(s, m) \subseteq Nat /\ IsFiniteSet(Newer(s, m))
    BY <1>3, RankType, OrdinaryFinite DEF Newer
  <2>3. PICK n \in Newer(s, m) : \A q \in Newer(s, m) : n <= q
    BY <2>1, <2>2, MinOf
  <2>4. n \in Ordinary(s) /\ n \in Nat /\ n > m
    BY <2>2, <2>3 DEF Newer
  <2>5. Newer(s, n) = Newer(s, m) \ {n}
    BY <1>3, <2>2, <2>3, <2>4, OrdinaryFinite DEF Newer
  <2>6. Cardinality(Newer(s, n)) = Cardinality(Newer(s, m)) - 1
    BY <2>2, <2>3, <2>5, FS_RemoveElement
  <2>7. Rank(s, n) = Rank(s, m) - 1
    BY <1>3, <2>4, <2>6, RankType
  <2> QED
    BY <1>2, <1>3, <1>4, <2>4, <2>7
<1> QED
  BY <1>3, <1>4

LEMMA RankedOne ==
  ASSUME NEW s, wall[s] \in Nat, NEW p \in Ordinary(s), NEW q \in Ordinary(s),
         Rank(s, p) = Rank(s, q)
  PROVE  p = q
<1>1. p \in Nat /\ q \in Nat /\ Rank(s, p) \in Nat
  BY OrdinaryFinite, RankType
<1>2. ~(p < q) /\ ~(q < p)
  BY <1>1, RankStrict
<1> QED
  BY <1>1, <1>2

-----------------------------------------------------------------------------
(* The invariant.                                                          *)

Plain(s, p) == <<s, p>> \notin Unsteady      \* a post that stays an ordinary one
Locked(e) == pass[e].phase \in {"next", "asking", "pinned", "asked"}
Within(e) == pass[e].phase \in {"asking", "pinned", "asked"}

PlainStays ==
  \A s \in Sources : /\ pin[s] # 0 => ~Plain(s, pin[s])
                     /\ \A p \in gone[s] : ~Plain(s, p)

\* The queue has materials of stored posts only, and forgets none of them.
ItemsStored == \A i \in item \cup deleted : i[2] \in stored[i[1]]

QueuedAttempts == task.state = "queued" => task.attempts < MaxAttempts

\* What a pass holds in memory is still what the rows say, since it holds the lock.
PassHolds(e) ==
  /\ pass[e].todo \subseteq pass[e].sources
  /\ \A s \in Sources : pass[e].start[s] <= wall[s]
  /\ Within(e) =>
       /\ pass[e].todo # {}
       /\ pass[e].checkpoint = Newest(stored[Current(e)])
       /\ pass[e].batch \subseteq (pass[e].checkpoint + 1)..wall[Current(e)]
  /\ pass[e].phase = "asking" /\ pass[e].offset = 0 => pass[e].batch = {}
  /\ pass[e].phase = "pinned" =>
       pass[e].checkpoint = 0 /\ \A p, q \in pass[e].batch : p = q

\* A post older than one already read is read or still ahead.
Ahead(e) ==
  Within(e) /\ Current(e) \notin shifted =>
    IF pass[e].checkpoint = 0
      THEN \A p, q \in pass[e].batch : p = q
      ELSE \A p \in (pass[e].checkpoint + 1)..wall[Current(e)], q \in pass[e].batch :
             Plain(Current(e), p) /\ p < q /\ p \notin pass[e].batch
               => pass[e].phase = "asking" /\ pass[e].offset <= Rank(Current(e), p)

\* Posts of the wall a pass began with that its reading of the current source has not
\* come to.
Unread(e) ==
  {p \in 1..pass[e].start[Current(e)] :
     Plain(Current(e), p) /\ p > pass[e].checkpoint /\ \A b \in pass[e].batch : b < p}

\* As long as no source has failed, the posts that were on the wall of a source when the
\* pass began are behind its checkpoint or, while it is read, behind a post just read,
\* but for one post of a source that was skimmed.
Caught(e) ==
  Locked(e) =>
    /\ ~pass[e].failed =>
         \A s \in pass[e].sources \ pass[e].todo : \A p, q \in Missing(e, s) :
           s \in pass[e].skimmed /\ p = q
    /\ pass[e].phase = "asked" \/ (pass[e].phase = "asking" /\ pass[e].offset > 0) =>
         \A p, q \in Unread(e) : Current(e) \in pass[e].skimmed /\ p = q

CInv ==
  /\ TypeOK /\ PlainStays /\ ItemsStored /\ QueuedAttempts
  /\ NoPostSkipped /\ DeletedStaysDeleted
  /\ \A e \in Executors : PassHolds(e) /\ Ahead(e) /\ Caught(e)

LEMMA CurrentOf ==
  ASSUME TypeOK, NEW e \in Executors, pass[e].todo # {}
  PROVE  Current(e) \in pass[e].todo /\ Current(e) \in Sources
<1>1. pass[e].todo \subseteq Sources
  BY DEF TypeOK, PassState
<1>2. pass[e].todo \subseteq Nat /\ IsFiniteSet(pass[e].todo)
  BY <1>1, CollectionAssumption, FS_Subset
<1> QED
  BY <1>1, <1>2, MinOf DEF Current

LEMMA StoredOf ==
  ASSUME TypeOK, NEW s \in Sources
  PROVE  /\ wall[s] \in Nat \ {0} /\ stored[s] \subseteq 1..wall[s]
         /\ stored[s] \subseteq Nat \ {0} /\ IsFiniteSet(stored[s])
<1>1. /\ wall[s] \in Nat /\ MaxPosts[s] \in Nat /\ wall[s] \in 1..MaxPosts[s]
      /\ stored[s] \subseteq 1..wall[s]
  BY CollectionAssumption DEF TypeOK, Posts
<1>2. IsFiniteSet(1..wall[s])
  BY <1>1, FS_Interval
<1> QED
  BY <1>1, <1>2, FS_Subset

\* A post that stays an ordinary one is on the pages.
LEMMA PlainOrdinary ==
  ASSUME TypeOK, PlainStays, NEW s \in Sources, NEW p \in 1..wall[s], Plain(s, p)
  PROVE  p \in Ordinary(s) /\ p \in Nat
<1>1. wall[s] \in Nat
  BY DEF TypeOK
<1> QED
  BY <1>1 DEF PlainStays, Ordinary, Existing

LEMMA NoPassType == NoPass \in PassState
BY DEF NoPass, PassState

\* The rows of a pass that nothing about it or its sources has changed.
LEMMA PassKept ==
  ASSUME CInv, UNCHANGED <<wall, pin, gone, shifted, stored>>, NEW e \in Executors, pass'[e] = pass[e]
  PROVE  PassHolds(e)' /\ Ahead(e)' /\ Caught(e)'
<1>1. PassHolds(e) /\ Ahead(e) /\ Caught(e)
  BY DEF CInv
<1>2. /\ Current(e)' = Current(e) /\ Within(e)' = Within(e) /\ Locked(e)' = Locked(e)
      /\ \A s, p : Rank(s, p)' = Rank(s, p)
  BY DEF Current, Within, Locked, Rank, Ordinary, Existing
<1>3. PassHolds(e)'
  BY <1>1, <1>2 DEF PassHolds
<1>4. Ahead(e)'
  BY <1>1, <1>2 DEF Ahead
<1>5. Caught(e)'
  BY <1>1, <1>2 DEF Caught, Missing, Unread, Plain
<1> QED
  BY <1>3, <1>4, <1>5

\* An executor that is not in the lock holds nothing.
LEMMA PassOver ==
  ASSUME CInv, TypeOK', NEW e \in Executors,
         pass'[e].phase \in {"idle", "claimed", "ended"},
         pass'[e].todo \subseteq pass'[e].sources,
         \A s \in Sources : pass'[e].start[s] = 0
  PROVE  PassHolds(e)' /\ Ahead(e)' /\ Caught(e)'
<1>1. ~Within(e)' /\ ~Locked(e)'
  BY DEF Within, Locked
<1>2. \A s \in Sources : wall'[s] \in Nat
  BY DEF TypeOK
<1>3. pass'[e].phase # "asking"
  OBVIOUS
<1> QED
  BY <1>1, <1>2, <1>3 DEF PassHolds, Ahead, Caught

-----------------------------------------------------------------------------
(* Types.                                                                  *)

LEMMA LockShift ==
  ASSUME TypeOK, NEW e \in Executors, Release(e),
         \A x \in Executors \ {e} : pass'[x] = pass[x],
         pass'[e].phase \in {"idle", "claimed", "ended"}
  PROVE  \A x \in Executors : pass'[x].phase \in {"next", "asking", "pinned", "asked"} <=> lock' = x
BY CollectionAssumption DEF TypeOK, Release

LEMMA TaskTypes ==
  ASSUME TypeOK, QueuedAttempts
  PROVE  /\ Again \in TaskState
         /\ Again.state = "queued" => Again.attempts < MaxAttempts
         /\ task.state # "none" => Ended \in TaskState
         /\ Ended.state # "queued"
BY CollectionAssumption DEF TypeOK, QueuedAttempts, Again, Ended, TaskState

LEMMA EnvironmentType ==
  ASSUME TypeOK,
         \/ \E s \in Sources : \/ Appear(s) \/ Unpin(s) \/ Switch(s)
                               \/ \E p \in Posts(s) : Pin(s, p) \/ Vanish(s, p)
         \/ \E i \in item : DeleteItem(i)
  PROVE  TypeOK'
<1>1. ASSUME NEW s \in Sources, Appear(s) PROVE TypeOK'
  <2>1. wall[s] \in Nat /\ MaxPosts[s] \in Nat /\ wall[s] < MaxPosts[s]
    BY <1>1, CollectionAssumption DEF Appear, TypeOK
  <2>2. wall' \in [Sources -> Nat] /\ wall'[s] = wall[s] + 1
        /\ \A x \in Sources \ {s} : wall'[x] = wall[x]
    BY <1>1, <2>1 DEF Appear, TypeOK
  <2>3. \A x \in Sources : /\ wall'[x] \in Posts(x) /\ pin[x] <= wall'[x]
                           /\ stored[x] \cup gone[x] \subseteq 1..wall'[x]
    BY <2>1, <2>2 DEF TypeOK, Posts
  <2> QED
    BY <1>1, <2>2, <2>3 DEF Appear, TypeOK, Posts, rows
<1>2. ASSUME NEW s \in Sources, Switch(s) PROVE TypeOK'
  BY <1>2 DEF Switch, TypeOK, Posts, rows, vk
<1>3. ASSUME NEW s \in Sources, NEW p \in Posts(s), Pin(s, p) \/ Vanish(s, p) \/ Unpin(s) PROVE TypeOK'
  <2>1. /\ UNCHANGED <<wall, active, rows, task, lock, pass, run, faults>>
        /\ pin' \in [Sources -> Nat] /\ gone' \in [Sources -> SUBSET Nat] /\ shifted' \subseteq Sources
    <3>1. /\ p \in Nat /\ pin \in [Sources -> Nat] /\ gone \in [Sources -> SUBSET Nat]
          /\ shifted \subseteq Sources
      BY CollectionAssumption DEF TypeOK, Posts
    <3>2. CASE Pin(s, p)
      BY <3>1, <3>2 DEF Pin, Leaves
    <3>3. CASE Unpin(s)
      BY <3>1, <3>3 DEF Unpin
    <3>4. CASE Vanish(s, p)
      <4>1. gone' \in [Sources -> SUBSET Nat]
        BY <3>1, <3>4 DEF Vanish
      <4> QED
        BY <3>1, <3>4, <4>1 DEF Vanish, Leaves
    <3> QED
      BY <1>3, <3>2, <3>3, <3>4
  <2>2. \A x \in Sources \ {s} : pin'[x] = pin[x] /\ gone'[x] = gone[x]
    BY <1>3 DEF Pin, Vanish, Unpin, TypeOK
  <2>3. pin'[s] <= wall[s] /\ pin'[s] \notin gone'[s] /\ gone'[s] \subseteq 1..wall[s]
    <3>1. wall[s] \in Nat /\ pin[s] <= wall[s] /\ pin[s] \notin gone[s] /\ gone[s] \subseteq 1..wall[s]
      BY DEF TypeOK
    <3> QED
      BY <1>3, <3>1 DEF Pin, Vanish, Unpin, Ordinary, Existing, TypeOK
  <2>4. \A x \in Sources : /\ pin'[x] <= wall[x] /\ pin'[x] \notin gone'[x]
                           /\ stored[x] \cup gone'[x] \subseteq 1..wall[x]
    BY <2>2, <2>3 DEF TypeOK
  <2> QED
    BY <2>1, <2>4 DEF TypeOK, Posts, rows
<1>4. ASSUME NEW i \in item, DeleteItem(i) PROVE TypeOK'
  BY <1>4 DEF DeleteItem, TypeOK, Posts, vk
<1>5. ASSUME NEW s \in Sources, Unpin(s) PROVE TypeOK'
  <2>1. 1 \in Posts(s)
    BY CollectionAssumption DEF Posts
  <2> QED
    BY <1>3, <1>5, <2>1
<1> QED
  BY <1>1, <1>2, <1>3, <1>4, <1>5

\* What the steps of a task may change.
LEMMA TaskFrame ==
  ASSUME TypeOK, UNCHANGED <<wall, pin, gone, active, stored, item, deleted, shifted>>,
         task' \in TaskState, task'.state = "queued" => task'.attempts < MaxAttempts,
         run' \in [Executors -> RunState], pass' \in [Executors -> PassState],
         \A x \in Executors : pass'[x].phase \in {"next", "asking", "pinned", "asked"} <=> lock' = x
  PROVE  TypeOK' /\ QueuedAttempts'
BY DEF TypeOK, Posts, QueuedAttempts

LEMMA ScheduleType ==
  ASSUME TypeOK, QueuedAttempts, Enqueue \/ Expire
  PROVE  TypeOK' /\ QueuedAttempts'
<1>1. ASSUME Enqueue PROVE TypeOK' /\ QueuedAttempts'
  <2>1. task' \in TaskState /\ (task'.state = "queued" => task'.attempts < MaxAttempts)
    BY <1>1, CollectionAssumption DEF Enqueue, TaskState
  <2>2. run' \in [Executors -> RunState]
    BY <1>1 DEF Enqueue, TypeOK, RunState
  <2> QED
    BY <1>1, <2>1, <2>2, TaskFrame DEF Enqueue, TypeOK, rows, vk
<1>2. ASSUME Expire PROVE TypeOK' /\ QueuedAttempts'
  <2>1. run' \in [Executors -> RunState]
    BY <1>2 DEF Expire, TypeOK, RunState
  <2> QED
    BY <1>2, <2>1, TaskTypes, TaskFrame DEF Expire, TypeOK, rows, vk
<1> QED
  BY <1>1, <1>2

LEMMA TaskType ==
  ASSUME TypeOK, QueuedAttempts, NEW e \in Executors,
         Enqueue \/ Expire \/ Claim(e) \/ Busy(e) \/ EndTask(e) \/ Crash(e) \/ Cancelled(e)
  PROVE  TypeOK' /\ QueuedAttempts'
<1> DEFINE Rest == UNCHANGED <<wall, pin, gone, active, stored, item, deleted, shifted>>
<1>2. TaskEnds(e, Again) =>
        /\ task' \in TaskState
        /\ task'.state = "queued" => task'.attempts < MaxAttempts
  BY TaskTypes DEF TaskEnds, TypeOK, QueuedAttempts, Ended, TaskState
<1>3. ASSUME Enqueue \/ Expire PROVE TypeOK' /\ QueuedAttempts'
  BY <1>3, ScheduleType
<1>5. ASSUME Claim(e) PROVE TypeOK' /\ QueuedAttempts'
  <2>1. task' \in TaskState /\ task'.state = "running"
    BY <1>5, CollectionAssumption DEF Claim, TypeOK, TaskState, QueuedAttempts
  <2>2. pass' \in [Executors -> PassState]
    <3>0. pass[e] \in PassState
      BY DEF TypeOK
    <3>1. [pass[e] EXCEPT !.phase = "claimed"] \in PassState
      BY <3>0 DEF PassState
    <3> QED
      BY <1>5, <3>1 DEF Claim, TypeOK
  <2>3. \A x \in Executors : pass'[x].phase \in {"next", "asking", "pinned", "asked"} <=> lock' = x
    BY <1>5 DEF Claim, TypeOK
  <2> QED
    BY TaskFrame, <1>5, <2>1, <2>2, <2>3 DEF Claim, TypeOK, rows, vk
<1>6. ASSUME Busy(e) PROVE TypeOK' /\ QueuedAttempts'
  <2>1. \A x \in Executors : pass'[x].phase \in {"next", "asking", "pinned", "asked"} <=> lock' = x
    BY <1>6 DEF Busy, TypeOK, NoPass
  <2> QED
    <3>1. pass' \in [Executors -> PassState] /\ run' = run /\ Rest
      BY <1>6, NoPassType DEF Busy, TypeOK, rows, vk
    <3>2. task' \in TaskState /\ (task'.state = "queued" => task'.attempts < MaxAttempts)
      BY <1>2, <1>6 DEF Busy
    <3> QED
      BY TaskFrame, <2>1, <3>1, <3>2 DEF TypeOK
<1>7. ASSUME EndTask(e) PROVE TypeOK' /\ QueuedAttempts'
  <2>1. task' \in TaskState /\ (task'.state = "queued" => task'.attempts < MaxAttempts)
    BY <1>7 DEF EndTask, TypeOK, TaskEnds, Ended, TaskState, QueuedAttempts
  <2>2. \A x \in Executors : pass'[x].phase \in {"next", "asking", "pinned", "asked"} <=> lock' = x
    BY <1>7 DEF EndTask, TypeOK, NoPass
  <2> QED
    BY TaskFrame, <1>7, <2>1, <2>2, NoPassType DEF EndTask, TypeOK, rows, vk
<1>8. ASSUME Crash(e) \/ Cancelled(e) PROVE TypeOK' /\ QueuedAttempts'
  <2>1. pass' = [pass EXCEPT ![e] = NoPass] /\ Release(e) /\ Rest /\ run' = run
        /\ (TaskEnds(e, Again) \/ task' = task)
    BY <1>8 DEF Crash, Cancelled, rows, vk
  <2>2. /\ \A x \in Executors \ {e} : pass'[x] = pass[x]
        /\ pass'[e].phase = "idle" /\ pass' \in [Executors -> PassState]
    BY <2>1, NoPassType DEF TypeOK, NoPass
  <2>3. \A x \in Executors : pass'[x].phase \in {"next", "asking", "pinned", "asked"} <=> lock' = x
    BY <2>1, <2>2, LockShift
  <2>4. task' \in TaskState /\ (task'.state = "queued" => task'.attempts < MaxAttempts)
    BY <1>2, <2>1 DEF TypeOK, QueuedAttempts
  <2> QED
    BY TaskFrame, <2>1, <2>2, <2>3, <2>4 DEF TypeOK
<1> QED
  BY <1>3, <1>5, <1>6, <1>7, <1>8

\* A step inside the lock.
LEMMA InsideType ==
  ASSUME TypeOK, NEW e \in Executors, NEW r, pass' = [pass EXCEPT ![e] = r], r \in PassState,
         r.phase \in {"next", "asking", "pinned", "asked"}, pass[e].phase \in {"next", "asking", "pinned", "asked"},
         lock' = lock, UNCHANGED <<vk, active, rows, task, run>>
  PROVE  TypeOK'
BY DEF TypeOK, Posts, vk, rows

-----------------------------------------------------------------------------
(* Steps that leave walls and rows alone.                                  *)

RowsInv == PlainStays /\ ItemsStored /\ NoPostSkipped /\ DeletedStaysDeleted
PassInv(e) == PassHolds(e) /\ Ahead(e) /\ Caught(e)

LEMMA OneExecutor ==
  ASSUME CInv, TypeOK', QueuedAttempts', UNCHANGED <<vk, rows>>, NEW e \in Executors,
         \A x \in Executors \ {e} : pass'[x] = pass[x], PassInv(e)'
  PROVE  CInv'
<1>1. RowsInv'
  BY DEF CInv, RowsInv, PlainStays, Plain, ItemsStored, NoPostSkipped, DeletedStaysDeleted, vk, rows
<1>2. \A x \in Executors : PassInv(x)'
  BY PassKept DEF vk, rows, PassInv
<1> QED
  BY <1>1, <1>2 DEF CInv, RowsInv, PassInv

LEMMA SameExecutors ==
  ASSUME CInv, TypeOK', QueuedAttempts', UNCHANGED <<vk, rows>>, pass' = pass
  PROVE  CInv'
<1>1. RowsInv'
  BY DEF CInv, RowsInv, PlainStays, Plain, ItemsStored, NoPostSkipped, DeletedStaysDeleted, vk, rows
<1>2. \A x \in Executors : PassInv(x)'
  BY PassKept DEF vk, rows, PassInv
<1> QED
  BY <1>1, <1>2 DEF CInv, RowsInv, PassInv

LEMMA TaskStep ==
  ASSUME CInv, NEW e \in Executors,
         Enqueue \/ Expire \/ Claim(e) \/ Busy(e) \/ EndTask(e) \/ Crash(e) \/ Cancelled(e)
  PROVE  CInv'
<1>1. TypeOK' /\ QueuedAttempts' /\ UNCHANGED <<vk, rows>>
  BY TaskType DEF CInv, Enqueue, Expire, Claim, Busy, EndTask, Crash, Cancelled
<1>2. ASSUME pass' = [pass EXCEPT ![e] = NoPass] PROVE CInv'
  <2>1. pass'[e] = NoPass /\ \A x \in Executors \ {e} : pass'[x] = pass[x]
    BY <1>2 DEF CInv, TypeOK
  <2>2. PassInv(e)'
    BY <1>1, <2>1, PassOver DEF NoPass, PassInv
  <2> QED
    BY <1>1, <2>1, <2>2, OneExecutor
<1>3. ASSUME Claim(e) PROVE CInv'
  <2>1. pass' = [pass EXCEPT ![e].phase = "claimed"] /\ pass[e].phase = "idle"
    BY <1>3 DEF Claim
  <2>2. /\ pass'[e].phase = "claimed" /\ pass'[e].todo = pass[e].todo
        /\ pass'[e].sources = pass[e].sources /\ pass'[e].start = pass[e].start
        /\ \A x \in Executors \ {e} : pass'[x] = pass[x]
    BY <2>1 DEF CInv, TypeOK, PassState
  <2>3. PassInv(e)
    BY DEF CInv, PassInv
  <2>4. PassInv(e)'
    BY <1>1, <2>2, <2>3 DEF PassInv, PassHolds, Ahead, Caught, Within, Locked, vk
  <2> QED
    BY <1>1, <2>2, <2>4, OneExecutor
<1>4. ASSUME Enqueue \/ Expire PROVE CInv'
  BY <1>1, <1>4, SameExecutors DEF Enqueue, Expire
<1> QED
  BY <1>2, <1>3, <1>4 DEF Busy, EndTask, Crash, Cancelled

-----------------------------------------------------------------------------
(* VK and the editors.                                                     *)

LEMMA SwitchStep ==
  ASSUME CInv, NEW s \in Sources, Switch(s)
  PROVE  CInv'
<1>1. TypeOK' /\ QueuedAttempts'
  BY EnvironmentType DEF CInv, Switch, QueuedAttempts
<1> QED
  BY <1>1, SameExecutors DEF Switch

LEMMA DeleteStep ==
  ASSUME CInv, NEW i \in item, DeleteItem(i)
  PROVE  CInv'
<1>1. TypeOK' /\ QueuedAttempts'
  BY EnvironmentType DEF CInv, DeleteItem, QueuedAttempts
<1>2. RowsInv'
  BY DEF CInv, RowsInv, PlainStays, Plain, ItemsStored, NoPostSkipped, DeletedStaysDeleted,
         vk, DeleteItem
<1>3. \A x \in Executors : PassInv(x)'
  BY PassKept DEF vk, PassInv, DeleteItem
<1> QED
  BY <1>1, <1>2, <1>3 DEF CInv, RowsInv, PassInv

LEMMA RankPrimed ==
  ASSUME NEW s, wall'[s] \in Nat, NEW p \in Nat
  PROVE  IsFiniteSet(Newer(s, p)') /\ Rank(s, p)' = Cardinality(Newer(s, p)') /\ Rank(s, p)' \in Nat
<1>1. Newer(s, p)' \subseteq 1..wall'[s]
  BY DEF Newer, Ordinary, Existing
<1>2. IsFiniteSet(1..wall'[s])
  BY FS_Interval
<1>3. Rank(s, p)' = Cardinality(Newer(s, p)')
  BY DEF Rank, Newer
<1> QED
  BY <1>1, <1>2, <1>3, FS_Subset, FS_CardinalityType

\* A wall from which no ordinary post leaves only gets longer in front.
LEMMA LongerWall ==
  ASSUME NEW s, wall[s] \in Nat, wall'[s] \in Nat, Ordinary(s) \subseteq Ordinary(s)', NEW p \in Nat
  PROVE  Rank(s, p) <= Rank(s, p)'
<1>1. Newer(s, p) \subseteq Newer(s, p)'
  BY DEF Newer
<1>2. IsFiniteSet(Newer(s, p)') /\ Rank(s, p)' = Cardinality(Newer(s, p)') /\ Rank(s, p)' \in Nat
  BY RankPrimed
<1> QED
  BY <1>1, <1>2, RankType, FS_Subset

\* What holds of a pass still does when walls have only grown and no source it is in
\* the middle of has lost an ordinary post.
LEMMA WallStep ==
  ASSUME CInv, TypeOK', UNCHANGED <<rows, pass>>, shifted \subseteq shifted',
         \A s \in Sources : wall[s] <= wall'[s],
         NEW e \in Executors,
         \A s \in Sources \ shifted' : BetweenPages(e, s) => Ordinary(s) \subseteq Ordinary(s)'
  PROVE  PassInv(e)'
<1>1. PassHolds(e) /\ Ahead(e) /\ Caught(e) /\ TypeOK /\ pass[e] \in PassState
  BY DEF CInv, TypeOK
<1>2. /\ Current(e)' = Current(e) /\ Within(e)' = Within(e) /\ Locked(e)' = Locked(e)
      /\ pass' = pass /\ stored' = stored
  BY DEF Current, Within, Locked, rows
<1> PICK s : s = Current(e)
  OBVIOUS
<1>3. Within(e) => s \in Sources /\ wall[s] \in Nat /\ wall'[s] \in Nat /\ wall[s] <= wall'[s]
                   /\ pass[e].checkpoint \in Nat /\ pass[e].batch \subseteq Nat
  BY <1>1, CurrentOf DEF PassHolds, TypeOK, PassState
<1>4. PassHolds(e)'
  <2>1. \A x \in Sources : pass[e].start[x] <= wall'[x]
    BY <1>1 DEF PassHolds, TypeOK, PassState
  <2>2. Within(e) => pass[e].batch \subseteq (pass[e].checkpoint + 1)..wall'[s]
    BY <1>1, <1>3 DEF PassHolds
  <2> QED
    BY <1>1, <1>2, <2>1, <2>2 DEF PassHolds
<1>5. Ahead(e)'
  <2> SUFFICES ASSUME Within(e), s \notin shifted', pass[e].checkpoint # 0,
                      NEW p \in (pass[e].checkpoint + 1)..wall'[s], NEW q \in pass[e].batch,
                      Plain(s, p), p < q, p \notin pass[e].batch
               PROVE  pass[e].phase = "asking" /\ pass[e].offset <= Rank(s, p)'
    BY <1>1, <1>2 DEF Ahead, Plain
  <2>1. p \in (pass[e].checkpoint + 1)..wall[s] /\ p \in Nat /\ s \notin shifted
    BY <1>1, <1>3 DEF PassHolds
  <2>2. pass[e].phase = "asking" /\ pass[e].offset <= Rank(s, p)
    BY <1>1, <2>1 DEF Ahead
  <2>3. pass[e].offset > 0
    BY <1>1, <2>2 DEF PassHolds, PassState
  <2>4. Rank(s, p) <= Rank(s, p)' /\ Rank(s, p) \in Nat
    <3>1. Ordinary(s) \subseteq Ordinary(s)'
      BY <1>3, <2>2, <2>3 DEF BetweenPages
    <3> QED
      BY <1>3, <2>1, <3>1, LongerWall, RankType
  <2>5. Rank(s, p)' \in Nat /\ pass[e].offset \in Nat
    BY <1>1, <1>3, <2>1, RankPrimed DEF PassState
  <2> QED
    BY <2>2, <2>4, <2>5
<1>6. Caught(e)'
  BY <1>1, <1>2 DEF Caught, Missing, Unread, Plain
<1> QED
  BY <1>4, <1>5, <1>6 DEF PassInv

LEMMA AppearStep ==
  ASSUME CInv, NEW s \in Sources, Appear(s)
  PROVE  CInv'
<1>1. TypeOK' /\ QueuedAttempts' /\ TypeOK
  BY EnvironmentType DEF CInv, Appear, QueuedAttempts
<1>2. /\ wall'[s] = wall[s] + 1 /\ \A x \in Sources \ {s} : wall'[x] = wall[x]
      /\ \A x \in Sources : wall[x] \in Nat /\ wall'[x] \in Nat /\ wall[x] <= wall'[x]
      /\ pin' = pin /\ gone' = gone /\ shifted' = shifted /\ UNCHANGED rows /\ pass' = pass
  BY <1>1 DEF Appear, TypeOK
<1>3. \A x \in Sources : Ordinary(x) \subseteq Ordinary(x)'
  BY <1>2 DEF Ordinary, Existing
<1>4. \A x \in Executors : PassInv(x)'
  BY <1>1, <1>2, <1>3, WallStep
<1>5. RowsInv'
  <2>1. NoPostSkipped'
    <3> SUFFICES ASSUME NEW x \in Sources \ shifted, NEW p \in 1..wall'[x], Plain(x, p),
                        NEW q \in stored[x], NEW r \in stored[x], q < p, p < r
                 PROVE  p \in stored[x]
      BY <1>2 DEF NoPostSkipped, rows, Plain
    <3>1. p \in 1..wall[x]
      BY <1>1, <1>2, StoredOf
    <3> QED
      BY <3>1 DEF CInv, NoPostSkipped, Plain
  <2> QED
    BY <1>2, <2>1 DEF CInv, RowsInv, PlainStays, Plain, ItemsStored, DeletedStaysDeleted, rows
<1> QED
  BY <1>1, <1>4, <1>5 DEF CInv, RowsInv, PassInv

\* What VK does to a post: an ordinary one that leaves the pages shifts a reading under way.
LEMMA PinStep ==
  ASSUME CInv, NEW s \in Sources, NEW p \in Posts(s), Pin(s, p) \/ Vanish(s, p) \/ Unpin(s)
  PROVE  CInv'
<1>1. TypeOK' /\ QueuedAttempts' /\ TypeOK
  BY EnvironmentType DEF CInv, Pin, Vanish, Unpin, QueuedAttempts
<1>2. /\ wall' = wall /\ UNCHANGED rows /\ pass' = pass /\ shifted \subseteq shifted'
      /\ \A x \in Sources \ {s} : pin'[x] = pin[x] /\ gone'[x] = gone[x]
      /\ \A x \in Sources : wall[x] \in Nat
  BY <1>1 DEF Pin, Vanish, Unpin, Leaves, TypeOK
<1>3. Ordinary(s) \subseteq Ordinary(s)' \/ Leaves(s)
  <2>1. CASE Pin(s, p)
    BY <2>1 DEF Pin
  <2>2. CASE Unpin(s)
    <3>1. Existing(s)' = Existing(s) /\ pin'[s] = 0
      BY <1>1, <2>2 DEF Unpin, Existing, TypeOK
    <3>2. 0 \notin Existing(s)
      BY <1>1 DEF Existing, TypeOK
    <3> QED
      BY <3>1, <3>2 DEF Ordinary
  <2>3. CASE Vanish(s, p) /\ pin[s] = p
    <3>1. Existing(s)' = Existing(s) \ {p}
      BY <1>1, <2>3 DEF Vanish, Existing, TypeOK
    <3>2. pin'[s] = 0 /\ 0 \notin Existing(s)
      BY <1>1, <2>3 DEF Vanish, Existing, TypeOK
    <3> QED
      BY <2>3, <3>1, <3>2 DEF Ordinary
  <2>4. CASE Vanish(s, p) /\ pin[s] # p
    BY <2>4 DEF Vanish
  <2> QED
    BY <2>1, <2>2, <2>3, <2>4
<1>4. ASSUME NEW x \in Executors PROVE PassInv(x)'
  <2>1. ASSUME NEW y \in Sources \ shifted', BetweenPages(x, y)
        PROVE  Ordinary(y) \subseteq Ordinary(y)'
    <3>1. CASE y # s
      BY <1>2, <3>1 DEF Ordinary, Existing
    <3>2. CASE y = s
      BY <1>3, <2>1, <3>2 DEF Leaves
    <3> QED
      BY <3>1, <3>2
  <2> QED
    BY <1>1, <1>2, <2>1, WallStep
<1>5. RowsInv'
  <2>1. PlainStays'
    <3>1. /\ pin'[s] # 0 => ~Plain(s, pin'[s])
          /\ \A q \in gone'[s] : ~Plain(s, q)
      <4>1. /\ pin[s] # 0 => ~Plain(s, pin[s])
            /\ \A q \in gone[s] : ~Plain(s, q)
            /\ pin \in [Sources -> Nat] /\ gone \in [Sources -> SUBSET Nat]
        BY <1>1 DEF CInv, PlainStays, TypeOK
      <4>2. CASE Pin(s, p)
        <5>1. <<s, p>> \in Unsteady /\ pin'[s] = p /\ gone'[s] = gone[s]
          BY <4>1, <4>2 DEF Pin
        <5> QED
          BY <4>1, <5>1 DEF Plain
      <4>3. CASE Unpin(s)
        BY <4>1, <4>3 DEF Plain, Unpin
      <4>4. CASE Vanish(s, p)
        <5>1. /\ <<s, p>> \in Unsteady /\ gone'[s] = gone[s] \cup {p}
              /\ pin'[s] = 0 \/ pin'[s] = pin[s]
          BY <4>1, <4>4 DEF Vanish
        <5> QED
          BY <4>1, <5>1 DEF Plain
      <4> QED
        BY <4>2, <4>3, <4>4
    <3> QED
      BY <1>2, <3>1 DEF CInv, PlainStays, Plain
  <2>2. NoPostSkipped'
    BY <1>2 DEF CInv, NoPostSkipped, rows
  <2> QED
    BY <1>2, <2>1, <2>2 DEF CInv, RowsInv, ItemsStored, DeletedStaysDeleted, rows
<1> QED
  BY <1>1, <1>4, <1>5 DEF CInv, RowsInv, PassInv

-----------------------------------------------------------------------------
(* A pass.                                                                 *)

LEMMA StartStep ==
  ASSUME CInv, NEW e \in Executors, StartPass(e)
  PROVE  CInv'
<1> DEFINE new == [NoPass EXCEPT !.phase = "next", !.start = wall, !.todo = active,
                                 !.sources = active]
<1>1. TypeOK /\ new \in PassState /\ new.phase = "next" /\ new.todo = active
      /\ new.sources = active /\ new.start = wall /\ ~new.failed
  BY DEF CInv, TypeOK, NoPass, PassState
<1> HIDE DEF new
<1>2. pass' = [pass EXCEPT ![e] = new] /\ lock = Nobody /\ lock' = e
      /\ UNCHANGED <<vk, active, rows, task>>
  BY DEF StartPass, new
<1>3. pass'[e] = new /\ (\A x \in Executors \ {e} : pass'[x] = pass[x])
      /\ pass' \in [Executors -> PassState]
  BY <1>1, <1>2 DEF TypeOK
<1>4. \A x \in Executors : pass'[x].phase \in {"next", "asking", "pinned", "asked"} <=> lock' = x
  BY <1>1, <1>2, <1>3, CollectionAssumption DEF TypeOK
<1>5. run' \in [Executors -> RunState]
  BY <1>1 DEF StartPass, TypeOK, RunState
<1>6. TypeOK' /\ QueuedAttempts'
  BY <1>1, <1>2, <1>3, <1>4, <1>5 DEF CInv, TypeOK, QueuedAttempts, Posts, vk, rows
<1>7. PassInv(e)'
  <2>1. \A s \in Sources : wall[s] <= wall'[s]
    BY <1>1, <1>2 DEF TypeOK, vk
  <2> QED
    BY <1>1, <1>3, <2>1 DEF PassInv, PassHolds, Ahead, Caught, Within, Locked
<1> QED
  BY <1>2, <1>3, <1>6, <1>7, OneExecutor

\* The frame of a step inside the lock.
LEMMA InsideStep ==
  ASSUME CInv, NEW e \in Executors, NEW r, pass' = [pass EXCEPT ![e] = r], r \in PassState,
         r.phase \in {"next", "asking", "pinned", "asked"}, Locked(e),
         lock' = lock, UNCHANGED <<vk, active, rows, task, run>>,
         PassInv(e)'
  PROVE  CInv'
<1>1. TypeOK'
  BY InsideType DEF CInv, Locked
<1>2. QueuedAttempts'
  BY DEF CInv, QueuedAttempts
<1>3. \A x \in Executors \ {e} : pass'[x] = pass[x]
  BY DEF CInv, TypeOK
<1> QED
  BY <1>1, <1>2, <1>3, OneExecutor

LEMMA BeginStep ==
  ASSUME CInv, NEW e \in Executors, BeginSource(e)
  PROVE  CInv'
<1> PICK s : s = Current(e)
  OBVIOUS
<1> DEFINE new == [pass[e] EXCEPT !.phase = "asking", !.offset = 0, !.batch = {},
                                  !.checkpoint = Newest(stored[s])]
<1>1. TypeOK /\ PassHolds(e) /\ Caught(e) /\ pass[e] \in PassState /\ pass[e].todo # {}
      /\ pass[e].phase = "next"
  BY DEF CInv, TypeOK, BeginSource, Inside
<1>2. s \in Sources /\ Newest(stored[s]) \in Nat
  BY <1>1, CurrentOf, StoredOf, NewestOf
<1>3. /\ new \in PassState /\ new.phase = "asking" /\ new.offset = 0 /\ new.batch = {}
      /\ new.checkpoint = Newest(stored[s]) /\ new.todo = pass[e].todo
      /\ new.sources = pass[e].sources /\ new.start = pass[e].start /\ new.failed = pass[e].failed
      /\ new.skimmed = pass[e].skimmed
  BY <1>1, <1>2 DEF PassState
<1> HIDE DEF new
<1>4. pass' = [pass EXCEPT ![e] = new] /\ lock' = lock
      /\ UNCHANGED <<vk, active, rows, task, run>>
  BY DEF BeginSource, Inside, new
<1>5. pass'[e] = new /\ Current(e)' = s
  BY <1>1, <1>3, <1>4 DEF TypeOK, Current
<1>6. PassInv(e)'
  <2>1. PassHolds(e)'
    BY <1>1, <1>3, <1>4, <1>5 DEF PassHolds, vk, rows
  <2>2. Ahead(e)'
    BY <1>3, <1>5 DEF Ahead
  <2>3. Caught(e)'
    BY <1>1, <1>3, <1>4, <1>5 DEF Caught, Missing, Locked, rows, Plain
  <2> QED
    BY <2>1, <2>2, <2>3 DEF PassInv
<1> QED
  BY <1>1, <1>3, <1>4, <1>6, InsideStep DEF Locked

\* get_latest_post.
ReadFirst(row, ph, b, k) == [row EXCEPT !.phase = ph, !.batch = b, !.skimmed = k]

LEMMA FirstRead ==
  ASSUME NEW row \in PassState, NEW ph \in {"pinned", "asked"}, NEW b \in SUBSET Nat,
         NEW k \in SUBSET Sources
  PROVE  /\ ReadFirst(row, ph, b, k) \in PassState
         /\ ReadFirst(row, ph, b, k).phase = ph
         /\ ReadFirst(row, ph, b, k).batch = b
         /\ ReadFirst(row, ph, b, k).skimmed = k
         /\ ReadFirst(row, ph, b, k).offset = row.offset
         /\ ReadFirst(row, ph, b, k).checkpoint = row.checkpoint
         /\ ReadFirst(row, ph, b, k).todo = row.todo
         /\ ReadFirst(row, ph, b, k).sources = row.sources
         /\ ReadFirst(row, ph, b, k).start = row.start
         /\ ReadFirst(row, ph, b, k).failed = row.failed
BY DEF PassState, ReadFirst

\* A first reading: it takes one post at most, and once it is over leaves no newer one
\* out, or a single one if the source is skimmed.
LEMMA FirstStep ==
  ASSUME CInv, NEW e \in Executors, NEW ph \in {"pinned", "asked"}, NEW b, NEW k \in SUBSET Sources,
         pass' = [pass EXCEPT ![e] = ReadFirst(pass[e], ph, b, k)], lock' = lock,
         UNCHANGED <<vk, active, rows, task, run>>,
         Within(e), pass[e].checkpoint = 0, pass[e].skimmed \subseteq k,
         b \subseteq 1..wall[Current(e)], \A p, q \in b : p = q,
         ph = "asked" => \A p, q \in 1..wall[Current(e)] :
           /\ Plain(Current(e), p) /\ \A x \in b : x < p
           /\ Plain(Current(e), q) /\ \A x \in b : x < q
           => Current(e) \in k /\ p = q
  PROVE  CInv'
<1> PICK s : s = Current(e)
  OBVIOUS
<1> DEFINE new == ReadFirst(pass[e], ph, b, k)
<1>1. TypeOK /\ PassHolds(e) /\ Caught(e) /\ pass[e] \in PassState
  BY DEF CInv, TypeOK
<1>2. s \in Sources /\ wall[s] \in Nat \ {0}
  BY <1>1, CurrentOf, StoredOf DEF PassHolds
<1>3. b \in SUBSET Nat
  BY <1>2
<1>4. /\ new \in PassState /\ new.phase = ph /\ new.batch = b /\ new.skimmed = k
      /\ new.checkpoint = 0 /\ new.todo = pass[e].todo
      /\ new.sources = pass[e].sources /\ new.start = pass[e].start /\ new.failed = pass[e].failed
  BY <1>1, <1>3, FirstRead
<1>5. pass' = [pass EXCEPT ![e] = new]
  OBVIOUS
<1> HIDE DEF new
<1>6. pass'[e] = new /\ Current(e)' = s
  BY <1>1, <1>4, <1>5 DEF TypeOK, Current
<1>7. PassInv(e)'
  <2>1. PassHolds(e)'
    BY <1>1, <1>2, <1>4, <1>6 DEF PassHolds, vk, rows
  <2>2. Ahead(e)'
    BY <1>4, <1>6 DEF Ahead
  <2>3. \A p \in 1..pass[e].start[s] : p \in 1..wall[s]
    BY <1>1, <1>2 DEF PassHolds, PassState
  <2>4. ph = "asked" => \A p, q \in Unread(e)' : s \in k /\ p = q
    BY <1>4, <1>6, <2>3 DEF Unread, Plain
  <2>5. ~pass[e].failed => \A x \in pass[e].sources \ pass[e].todo : \A p, q \in Missing(e, x)' :
          x \in k /\ p = q
    BY <1>1, <1>4, <1>6 DEF Caught, Missing, Locked, Within, rows, Plain
  <2>6. Caught(e)'
    BY <1>4, <1>6, <2>4, <2>5 DEF Caught
  <2> QED
    BY <2>1, <2>2, <2>6 DEF PassInv
<1>8. ph \in {"next", "asking", "pinned", "asked"} /\ Locked(e)
  BY DEF Locked, Within
<1> QED
  BY <1>4, <1>5, <1>7, <1>8, InsideStep

LEMMA ReadLatestStep ==
  ASSUME CInv, NEW e \in Executors, ReadLatest(e)
  PROVE  CInv'
<1> PICK s : s = Current(e)
  OBVIOUS
<1>1. TypeOK /\ PassHolds(e) /\ PlainStays /\ pass[e] \in PassState /\ Within(e)
      /\ pass[e].checkpoint = 0
  BY DEF CInv, TypeOK, ReadLatest, Inside, Within
<1>2. s \in Sources /\ wall[s] \in Nat \ {0} /\ pin[s] \in Nat /\ pin[s] <= wall[s]
  BY <1>1, CurrentOf, StoredOf DEF TypeOK, PassHolds
<1>3. lock' = lock /\ UNCHANGED <<vk, active, rows, task, run>>
  BY DEF ReadLatest, Inside
<1>4. pass[e].skimmed \in SUBSET Sources
  BY <1>1 DEF PassState
<1>5. CASE pin[s] # 0
  <2> DEFINE b == {pin[s]}
  <2>1. pass' = [pass EXCEPT ![e] = ReadFirst(pass[e], "pinned", b, pass[e].skimmed)]
    <3>1. pass' = [pass EXCEPT ![e].phase = "pinned", ![e].batch = b]
      BY <1>5 DEF ReadLatest
    <3> QED
      BY <1>1, <3>1 DEF ReadFirst, PassState, TypeOK
  <2>2. b \subseteq 1..wall[s] /\ \A p, q \in b : p = q
    BY <1>2, <1>5
  <2> HIDE DEF b
  <2> QED
    BY <1>1, <1>3, <1>4, <2>1, <2>2, FirstStep
<1>6. CASE pin[s] = 0
  <2> DEFINE b == Ranked(s, 0)
  <2>1. pass' = [pass EXCEPT ![e] = ReadFirst(pass[e], "asked", b, pass[e].skimmed)]
    <3>1. pass' = [pass EXCEPT ![e].phase = "asked", ![e].batch = b]
      BY <1>6 DEF ReadLatest
    <3> QED
      BY <1>1, <3>1 DEF ReadFirst, PassState, TypeOK
  <2>2. b \subseteq 1..wall[s]
    BY <1>2, OrdinaryFinite DEF Ranked
  <2>3. ASSUME NEW p \in b, NEW q \in b PROVE p = q
    BY <1>2, RankedOne DEF Ranked
  <2>4. ASSUME NEW p \in 1..wall[s], Plain(s, p), \A x \in b : x < p PROVE FALSE
    <3>1. p \in Ordinary(s) /\ p \in Nat /\ Rank(s, p) \in Nat
      BY <1>1, <1>2, <2>4, PlainOrdinary, RankType
    <3>2. PICK m \in Ordinary(s) : Rank(s, m) = 0
      <4>1. 0 \in Nat /\ 0 <= Rank(s, p)
        BY <3>1
      <4> HIDE DEF b
      <4> QED
        BY <1>2, <3>1, <4>1, RankReached
    <3>3. m < p /\ m \in Nat
      BY <1>2, <2>4, <3>2, OrdinaryFinite DEF Ranked
    <3> QED
      BY <1>2, <3>1, <3>2, <3>3, RankStrict
  <2> HIDE DEF b
  <2> QED
    BY <1>1, <1>3, <1>4, <2>1, <2>2, <2>3, <2>4, FirstStep
<1> QED
  BY <1>5, <1>6

\* Behind a pinned post the second request passes over the newest one.
LEMMA ReadNextStep ==
  ASSUME CInv, NEW e \in Executors, ReadNext(e)
  PROVE  CInv'
<1> PICK s : s = Current(e)
  OBVIOUS
<1> DEFINE next == Ranked(s, 1)
           b == IF next = {} THEN pass[e].batch ELSE next
           k == pass[e].skimmed \cup {s}
<1>1. TypeOK /\ PassHolds(e) /\ Ahead(e) /\ PlainStays /\ pass[e] \in PassState /\ Within(e)
      /\ pass[e].phase = "pinned" /\ pass[e].checkpoint = 0
  BY DEF CInv, TypeOK, ReadNext, Inside, Within, PassHolds
<1>2. s \in Sources /\ wall[s] \in Nat \ {0} /\ pass[e].batch \subseteq 1..wall[s]
  BY <1>1, CurrentOf, StoredOf DEF PassHolds
<1>3. lock' = lock /\ UNCHANGED <<vk, active, rows, task, run>>
  BY DEF ReadNext, Inside
<1>4. k \in SUBSET Sources /\ pass[e].skimmed \subseteq k /\ s \in k
  BY <1>1, <1>2 DEF PassState
<1>5. pass' = [pass EXCEPT ![e] = ReadFirst(pass[e], "asked", b, k)]
  <2>1. pass' = [pass EXCEPT ![e].phase = "asked", ![e].batch = b, ![e].skimmed = k]
    BY DEF ReadNext
  <2> QED
    BY <1>1, <2>1 DEF ReadFirst, PassState, TypeOK
<1>6. b \subseteq 1..wall[s]
  BY <1>2, OrdinaryFinite DEF Ranked
<1>7. ASSUME NEW p \in b, NEW q \in b PROVE p = q
  <2>1. CASE next = {}
    BY <1>1, <1>7, <2>1 DEF PassHolds
  <2>2. CASE next # {}
    BY <1>2, <1>7, <2>2, RankedOne DEF Ranked
  <2> QED
    BY <2>1, <2>2
<1>8. ASSUME NEW p \in 1..wall[s], NEW q \in 1..wall[s], Plain(s, p), Plain(s, q),
             \A x \in b : x < p, \A x \in b : x < q, p < q
      PROVE  FALSE
  <2>1. /\ p \in Ordinary(s) /\ p \in Nat /\ Rank(s, p) \in Nat
        /\ q \in Ordinary(s) /\ q \in Nat /\ Rank(s, q) \in Nat
    BY <1>1, <1>2, <1>8, PlainOrdinary, RankType
  <2>2. Rank(s, q) < Rank(s, p)
    BY <1>2, <1>8, <2>1, RankStrict
  <2>3. PICK x \in Ordinary(s) : Rank(s, x) = 1
    BY <1>2, <2>1, <2>2, RankReached
  <2>4. x < p /\ x \in Nat
    BY <1>2, <1>8, <2>3, OrdinaryFinite DEF Ranked
  <2>5. Rank(s, p) < 1
    BY <1>2, <2>1, <2>3, <2>4, RankStrict
  <2> QED
    BY <2>1, <2>2, <2>5
<1>9. \A p, q \in 1..wall[s] :
        /\ Plain(s, p) /\ \A x \in b : x < p
        /\ Plain(s, q) /\ \A x \in b : x < q
        => s \in k /\ p = q
  <2> SUFFICES ASSUME NEW p \in 1..wall[s], NEW q \in 1..wall[s], Plain(s, p), Plain(s, q),
                      \A x \in b : x < p, \A x \in b : x < q, p # q
               PROVE  FALSE
    BY <1>4
  <2>1. p < q \/ q < p
    OBVIOUS
  <2> QED
    BY <1>8, <2>1
<1> HIDE DEF next, b, k
<1> QED
  BY <1>1, <1>3, <1>4, <1>5, <1>6, <1>7, <1>9, FirstStep

ReadRow(row, ph, o, b, again) ==
  [row EXCEPT !.phase = ph, !.offset = o, !.batch = b, !.repeated = again]

LEMMA PageRead ==
  ASSUME NEW row \in PassState, NEW ph \in {"asked", "asking"}, NEW o \in Nat,
         NEW b \in SUBSET Nat, NEW again \in BOOLEAN
  PROVE  /\ ReadRow(row, ph, o, b, again) \in PassState
         /\ ReadRow(row, ph, o, b, again).phase = ph
         /\ ReadRow(row, ph, o, b, again).batch = b
         /\ ReadRow(row, ph, o, b, again).offset = o
         /\ ReadRow(row, ph, o, b, again).checkpoint = row.checkpoint
         /\ ReadRow(row, ph, o, b, again).todo = row.todo
         /\ ReadRow(row, ph, o, b, again).sources = row.sources
         /\ ReadRow(row, ph, o, b, again).start = row.start
         /\ ReadRow(row, ph, o, b, again).failed = row.failed
         /\ ReadRow(row, ph, o, b, again).skimmed = row.skimmed
BY DEF PassState, ReadRow

\* get_posts_after: the page is what comes next, and the last page leaves nothing.
LEMMA ReadPageStep ==
  ASSUME CInv, NEW e \in Executors, ReadPage(e)
  PROVE  CInv'
<1> PICK s : s = Current(e)
  OBVIOUS
<1> PICK c, o, end, batch : /\ c = pass[e].checkpoint /\ o = pass[e].offset /\ batch = pass[e].batch
                            /\ end = o + PageSize
  OBVIOUS
<1> PICK page : page = Page(s, o)
  OBVIOUS
<1> PICK fresh : fresh = {p \in page : p > c}
  OBVIOUS
<1>last. PICK last \in BOOLEAN : last = (fresh # page \/ page = {} \/ end >= Cardinality(Existing(s)))
  OBVIOUS
<1>again. PICK again \in BOOLEAN : again = (pass[e].repeated \/ \E p \in batch \cap fresh : HasContent(s, p))
  BY DEF CInv, TypeOK, PassState
<1> DEFINE new == ReadRow(pass[e], IF last THEN "asked" ELSE "asking", end, batch \cup fresh, again)
<1>1. TypeOK /\ PassHolds(e) /\ Caught(e) /\ Ahead(e) /\ pass[e] \in PassState /\ Within(e)
      /\ pass[e].phase = "asking" /\ c > 0
  BY DEF CInv, TypeOK, ReadPage, Inside, Within
<1>2. /\ s \in Sources /\ wall[s] \in Nat \ {0} /\ c \in Nat /\ o \in Nat /\ batch \subseteq Nat
      /\ PageSize \in Nat \ {0} /\ end \in Nat /\ end > o
      /\ batch \subseteq (c + 1)..wall[s]
  <2>1. s \in Sources /\ wall[s] \in Nat \ {0}
    BY <1>1, CurrentOf, StoredOf DEF PassHolds
  <2>2. c \in Nat /\ o \in Nat /\ batch \subseteq Nat
    BY <1>1 DEF PassState
  <2>3. PageSize \in Nat \ {0} /\ end \in Nat /\ end > o
    BY <2>2, CollectionAssumption
  <2>4. batch \subseteq (c + 1)..wall[s]
    BY <1>1 DEF PassHolds
  <2> QED
    BY <2>1, <2>2, <2>3, <2>4
<1>3. /\ \A p : p \in page <=> p \in Ordinary(s) /\ Rank(s, p) >= o /\ Rank(s, p) < end
      /\ page \subseteq 1..wall[s] /\ fresh \subseteq page /\ fresh \subseteq (c + 1)..wall[s]
  <2>1. \A p \in Ordinary(s) : p \in 1..wall[s] /\ Rank(s, p) \in Nat
    BY <1>2, OrdinaryFinite, RankType
  <2>2. \A p : p \in page <=> p \in Ordinary(s) /\ Rank(s, p) \in o..(end - 1)
    BY <1>2 DEF Page
  <2> QED
    BY <1>2, <2>1, <2>2
<1>4. /\ new \in PassState /\ new.phase = (IF last THEN "asked" ELSE "asking")
      /\ new.batch = batch \cup fresh /\ new.offset = end
      /\ new.checkpoint = c /\ new.todo = pass[e].todo
      /\ new.sources = pass[e].sources /\ new.start = pass[e].start /\ new.failed = pass[e].failed
      /\ new.skimmed = pass[e].skimmed
  <2>1. batch \cup fresh \in SUBSET Nat
    BY <1>2, <1>3
  <2>2. (IF last THEN "asked" ELSE "asking") \in {"asked", "asking"}
    OBVIOUS
  <2> QED
    BY <1>1, <1>2, <2>1, <2>2, PageRead
<1>5. pass' = [pass EXCEPT ![e] = new] /\ lock' = lock
      /\ UNCHANGED <<vk, active, rows, task, run>>
  BY <1>last, <1>again DEF ReadPage, Inside, ReadRow
<1> HIDE DEF new
<1>6. pass'[e] = new /\ Current(e)' = s /\ \A p : Rank(s, p)' = Rank(s, p)
  BY <1>1, <1>4, <1>5 DEF TypeOK, Current, Rank, Ordinary, Existing, vk
<1>7. PassHolds(e)'
  BY <1>1, <1>2, <1>3, <1>4, <1>5, <1>6 DEF PassHolds, vk, rows
<1>8. ASSUME s \notin shifted, NEW p \in (c + 1)..wall[s], NEW q \in batch \cup fresh,
             Plain(s, p), p < q, p \notin batch \cup fresh
      PROVE  ~last /\ end <= Rank(s, p)
  <2>1. p \in Nat /\ p > c /\ p \in 1..wall[s] /\ q \in Nat /\ q \in 1..wall[s]
    BY <1>2, <1>3, <1>8
  <2>2. p \in Ordinary(s) /\ Rank(s, p) \in Nat
    BY <1>2, <1>8, <2>1, PlainOrdinary, RankType DEF CInv
  <2>3. o <= Rank(s, p)
    <3>1. CASE q \in batch
      BY <1>1, <1>2, <1>8, <3>1 DEF Ahead, Plain
    <3>2. CASE q \in fresh
      <4>1. Rank(s, q) >= o /\ Rank(s, q) \in Nat
        BY <1>2, <1>3, <2>1, <3>2, RankType
      <4>2. Rank(s, q) <= Rank(s, p)
        BY <1>2, <1>8, <2>1, RankMonotone
      <4> QED
        BY <1>2, <2>2, <4>1, <4>2
    <3> QED
      BY <1>8, <3>1, <3>2
  <2>4. p \notin page
    BY <1>8, <2>1
  <2>5. end <= Rank(s, p)
    BY <1>2, <1>3, <2>2, <2>3, <2>4
  <2>6. fresh = page
    <3> SUFFICES ASSUME NEW r \in page, r \notin fresh PROVE FALSE
      BY <1>3
    <3>1. r \in Nat /\ r <= c /\ Rank(s, r) < end
      BY <1>2, <1>3
    <3>2. Rank(s, p) <= Rank(s, r) /\ Rank(s, r) \in Nat
      BY <1>2, <2>1, <3>1, RankMonotone, RankType
    <3> QED
      BY <1>2, <2>2, <2>5, <3>1, <3>2
  <2>7. page # {}
    <3>1. PICK r \in Ordinary(s) : Rank(s, r) = o
      BY <1>2, <2>2, <2>3, RankReached
    <3> QED
      BY <1>2, <1>3, <3>1
  <2> QED
    <3>1. Rank(s, p) < Cardinality(Existing(s)) /\ Cardinality(Existing(s)) \in Nat
      BY <1>2, <2>2, RankBound
    <3>2. ~(end >= Cardinality(Existing(s)))
      BY <1>2, <2>2, <2>5, <3>1
    <3> QED
      BY <1>last, <2>5, <2>6, <2>7, <3>2
<1>9. Ahead(e)'
  <2> SUFFICES ASSUME s \notin shifted,
                      NEW p \in (c + 1)..wall[s], NEW q \in batch \cup fresh,
                      Plain(s, p), p < q, p \notin batch \cup fresh
               PROVE  new.phase = "asking" /\ end <= Rank(s, p)
    <3>1. Current(e)' = s /\ shifted' = shifted /\ wall' = wall /\ pass'[e].checkpoint # 0
      BY <1>1, <1>2, <1>4, <1>5, <1>6 DEF vk
    <3> QED
      BY <1>4, <1>6, <3>1 DEF Ahead, Plain
  <2> QED
    BY <1>4, <1>8
<1>10. ASSUME o = 0, NEW p \in 1..pass[e].start[s], Plain(s, p), p > c
       PROVE  \E q \in fresh : p <= q
  <2>1. p \in 1..wall[s] /\ p \in Nat
    BY <1>1, <1>2, <1>10 DEF PassHolds, PassState
  <2>2. p \in Ordinary(s) /\ Rank(s, p) \in Nat
    BY <1>2, <1>10, <2>1, PlainOrdinary, RankType DEF CInv
  <2>3. PICK m \in Ordinary(s) : Rank(s, m) = 0
    BY <1>2, <2>2, RankReached
  <2>4. m \in Nat /\ IsFiniteSet(Newer(s, m)) /\ Cardinality(Newer(s, m)) = 0
    BY <1>2, <2>3, OrdinaryFinite, RankType
  <2>5. Newer(s, m) = {}
    BY <2>4, FS_EmptySet
  <2>6. p <= m
    BY <2>1, <2>2, <2>4, <2>5 DEF Newer
  <2>7. m \in page
    BY <1>2, <1>3, <1>10, <2>3
  <2>8. m \in fresh
    BY <1>2, <1>10, <2>1, <2>4, <2>6, <2>7
  <2> QED
    BY <2>6, <2>8
<1>11. Caught(e)'
  <2>1. ~pass[e].failed => \A x \in pass[e].sources \ pass[e].todo : \A p, q \in Missing(e, x)' :
          x \in pass[e].skimmed /\ p = q
    BY <1>1, <1>4, <1>5, <1>6 DEF Caught, Missing, Locked, Within, rows
  <2>2. Unread(e)' \subseteq Unread(e)
    BY <1>4, <1>6 DEF Unread, Plain
  <2>3. CASE o > 0
    <3>1. \A p, q \in Unread(e) : s \in pass[e].skimmed /\ p = q
      BY <1>1, <2>3 DEF Caught, Locked, Within
    <3> QED
      BY <1>4, <1>6, <2>1, <2>2, <3>1 DEF Caught
  <2>4. CASE o = 0
    <3> SUFFICES ASSUME NEW p \in Unread(e)' PROVE FALSE
      BY <1>4, <1>6, <2>1 DEF Caught
    <3>1. /\ p \in 1..pass[e].start[s] /\ p \in Nat /\ Plain(s, p) /\ p > c
          /\ \A x \in batch \cup fresh : x < p
      <4>1. pass[e].start[s] \in Nat
        BY <1>1, <1>2 DEF PassState
      <4> QED
        BY <1>4, <1>6, <4>1 DEF Unread, Plain
    <3>2. PICK q \in fresh : p <= q
      BY <1>10, <2>4, <3>1
    <3>3. q < p /\ q \in Nat
      BY <1>2, <1>3, <3>1
    <3> QED
      BY <3>1, <3>2, <3>3
  <2> QED
    BY <1>2, <2>3, <2>4
<1> QED
  BY <1>1, <1>4, <1>5, <1>7, <1>9, <1>11, InsideStep DEF Locked, Within, PassInv

-----------------------------------------------------------------------------
(* The end of a source and of a pass.                                      *)

NextRow(row, s, ok) ==
  [row EXCEPT !.phase = "next", !.todo = @ \ {s}, !.offset = 0, !.batch = {}, !.checkpoint = 0,
              !.repeated = FALSE, !.succeeded = @ \/ ok, !.failed = @ \/ ~ok]

LEMMA SourceDone ==
  ASSUME NEW row \in PassState, NEW s, NEW ok \in BOOLEAN
  PROVE  /\ NextRow(row, s, ok) \in PassState
         /\ NextRow(row, s, ok).phase = "next"
         /\ NextRow(row, s, ok).todo = row.todo \ {s}
         /\ NextRow(row, s, ok).sources = row.sources
         /\ NextRow(row, s, ok).start = row.start
         /\ NextRow(row, s, ok).skimmed = row.skimmed
         /\ ok => NextRow(row, s, ok).failed = row.failed
         /\ ~ok => NextRow(row, s, ok).failed
<1>1. (row.succeeded \/ ok) \in BOOLEAN /\ (row.failed \/ ~ok) \in BOOLEAN
  OBVIOUS
<1>2. row.todo \ {s} \in SUBSET Sources
  BY DEF PassState
<1> QED
  BY <1>1, <1>2 DEF PassState, NextRow

LEMMA NextSourceRow ==
  ASSUME CInv, NEW e \in Executors, NEW ok \in BOOLEAN, NextSource(e, ok), Within(e)
  PROVE  \E new \in PassState :
           /\ pass' = [pass EXCEPT ![e] = new]
           /\ pass'[e] = new /\ \A x \in Executors \ {e} : pass'[x] = pass[x]
           /\ new.phase = "next" /\ new.todo = pass[e].todo \ {Current(e)}
           /\ new.sources = pass[e].sources /\ new.start = pass[e].start
           /\ new.skimmed = pass[e].skimmed
           /\ ok => new.failed = pass[e].failed
           /\ ~ok => new.failed
<1>1. pass[e] \in PassState /\ pass \in [Executors -> PassState]
  BY DEF CInv, TypeOK
<1>2. pass' = [pass EXCEPT ![e] = NextRow(pass[e], Current(e), ok)]
  BY DEF NextSource, NextRow
<1> QED
  BY <1>1, <1>2, SourceDone

LEMMA FailStep ==
  ASSUME CInv, NEW e \in Executors, SourceFails(e) \/ StoreFails(e)
  PROVE  CInv'
<1>1. Within(e) /\ NextSource(e, FALSE) /\ lock' = lock /\ UNCHANGED <<vk, active, rows, task, run>>
  BY DEF SourceFails, StoreFails, Asks, Inside, Within
<1>2. PICK new \in PassState :
        /\ pass' = [pass EXCEPT ![e] = new] /\ pass'[e] = new
        /\ new.phase = "next" /\ new.todo = pass[e].todo \ {Current(e)}
        /\ new.sources = pass[e].sources /\ new.start = pass[e].start /\ new.failed
  BY <1>1, NextSourceRow
<1>3. PassInv(e)'
  BY <1>1, <1>2 DEF CInv, PassInv, PassHolds, Ahead, Caught, Within, Locked, vk
<1> QED
  BY <1>1, <1>2, <1>3, InsideStep DEF Locked, Within

\* All of a source in one commit.
LEMMA StoreStep ==
  ASSUME CInv, NEW e \in Executors, StoreSource(e)
  PROVE  CInv'
<1> PICK s, c, batch : s = Current(e) /\ c = pass[e].checkpoint /\ batch = pass[e].batch
  OBVIOUS
<1>1. /\ Within(e) /\ pass[e].phase = "asked" /\ NextSource(e, TRUE)
      /\ UNCHANGED <<vk, active, task, deleted, lock, run>>
      /\ stored' = [stored EXCEPT ![s] = @ \cup batch]
      /\ item' = item \cup ItemsOf(s, batch)
  BY DEF StoreSource, Inside, Within
<1>2. PICK new \in PassState :
        /\ pass' = [pass EXCEPT ![e] = new] /\ pass'[e] = new
        /\ \A x \in Executors \ {e} : pass'[x] = pass[x]
        /\ new.phase = "next" /\ new.todo = pass[e].todo \ {s} /\ new.failed = pass[e].failed
        /\ new.sources = pass[e].sources /\ new.start = pass[e].start
        /\ new.skimmed = pass[e].skimmed
  BY <1>1, NextSourceRow
<1>3. pass[e] \in PassState
  BY DEF CInv, TypeOK
<1>4. TypeOK /\ PassHolds(e) /\ Ahead(e) /\ Caught(e)
  BY DEF CInv
<1>5. /\ s \in Sources /\ wall[s] \in Nat \ {0} /\ c \in Nat
      /\ batch \subseteq (c + 1)..wall[s] /\ batch \subseteq 1..wall[s] /\ batch \subseteq Nat \ {0}
      /\ stored[s] \subseteq 1..wall[s] /\ stored[s] \subseteq Nat \ {0} /\ IsFiniteSet(stored[s])
  <2>1. s \in Sources
    BY <1>1, <1>4, CurrentOf DEF PassHolds
  <2>2. c \in Nat /\ batch \subseteq (c + 1)..wall[s]
    BY <1>1, <1>3, <1>4 DEF PassHolds, PassState
  <2> QED
    BY <1>4, <2>1, <2>2, StoredOf
<1>6. c = Newest(stored[s]) /\ (\A p \in stored[s] : p <= c) /\ (c # 0 => c \in stored[s])
      /\ (c = 0 => stored[s] = {})
  <2>1. c = Newest(stored[s])
    BY <1>1, <1>4 DEF PassHolds
  <2> QED
    BY <1>5, <2>1, NewestOf
<1>7. /\ stored'[s] = stored[s] \cup batch
      /\ \A x \in Sources \ {s} : stored'[x] = stored[x]
      /\ stored' \in [Sources -> SUBSET Nat]
  BY <1>1, <1>4, <1>5 DEF TypeOK
<1>8. TypeOK'
  <2>1. \A x \in Sources : stored'[x] \subseteq 1..wall[x]
    BY <1>4, <1>5, <1>7 DEF TypeOK
  <2>2. item' \cup deleted' \subseteq Sources \X Nat \X Targets
    BY <1>1, <1>4, <1>5 DEF TypeOK, ItemsOf
  <2>3. pass' \in [Executors -> PassState]
    BY <1>2, <1>4 DEF TypeOK
  <2>4. \A x \in Executors : pass'[x].phase \in {"next", "asking", "pinned", "asked"} <=> lock' = x
    BY <1>1, <1>2, <1>4 DEF TypeOK
  <2> QED
    BY <1>1, <1>4, <1>7, <2>1, <2>2, <2>3, <2>4 DEF TypeOK, Posts, vk
<1>9. ItemsStored' /\ DeletedStaysDeleted'
  <2>1. ItemsStored'
    <3> SUFFICES ASSUME NEW i \in item' \cup deleted' PROVE i[2] \in stored'[i[1]]
      BY DEF ItemsStored
    <3>1. CASE i \in item \cup deleted
      <4>1. i \in Sources \X Nat \X Targets /\ i[2] \in stored[i[1]]
        BY <1>4, <3>1 DEF CInv, ItemsStored, TypeOK
      <4>2. i[1] \in Sources
        BY <4>1
      <4> QED
        BY <1>7, <4>1, <4>2
    <3>2. CASE i \notin item \cup deleted
      <4>1. PICK p \in batch, t \in Targets : i = <<s, p, t>>
        BY <1>1, <3>2 DEF ItemsOf
      <4> QED
        BY <1>7, <4>1
    <3> QED
      BY <3>1, <3>2
  <2>2. DeletedStaysDeleted'
    <3> SUFFICES ASSUME NEW p \in batch, NEW t \in Targets, <<s, p, t>> \in deleted PROVE FALSE
      BY <1>1 DEF CInv, DeletedStaysDeleted, ItemsOf
    <3>1. p \in stored[s]
      BY DEF CInv, ItemsStored
    <3> QED
      BY <1>5, <1>6, <3>1
  <2> QED
    BY <2>1, <2>2
<1>10. NoPostSkipped'
  <2> SUFFICES ASSUME NEW x \in Sources \ shifted, NEW p \in 1..wall[x], Plain(x, p),
                      NEW q \in stored'[x], NEW r \in stored'[x], q < p, p < r
               PROVE  p \in stored'[x]
    BY <1>1 DEF NoPostSkipped, Plain, vk
  <2>1. CASE x # s
    BY <1>7, <2>1 DEF CInv, NoPostSkipped, Plain
  <2>2. CASE x = s
    <3> SUFFICES ASSUME p \notin stored[s], p \notin batch PROVE FALSE
      BY <1>7, <2>2
    <3>1. /\ q \in stored[s] \cup batch /\ r \in stored[s] \cup batch /\ q \in Nat /\ r \in Nat
          /\ p \in Nat /\ p \in 1..wall[s]
      BY <1>5, <1>7, <2>2
    <3>2. \A y, z \in stored[s] : ~(y < p /\ p < z)
      BY <2>2, <3>1 DEF CInv, NoPostSkipped, Plain
    <3>3. CASE p <= c
      <4>1. q \in stored[s]
        BY <1>5, <3>1, <3>3
      <4>2. c \in stored[s] /\ p < c
        BY <1>5, <1>6, <3>1, <3>3, <4>1
      <4> QED
        BY <3>2, <4>1, <4>2
    <3>4. CASE p > c
      <4>1. r \in batch
        BY <1>5, <1>6, <3>1, <3>4
      <4>2. CASE c = 0
        <5>1. q \in batch
          BY <1>6, <3>1, <4>2
        <5> QED
          BY <1>1, <1>4, <2>2, <3>1, <4>1, <4>2, <5>1 DEF Ahead
      <4>3. CASE c # 0
        <5>1. p \in (c + 1)..wall[s]
          BY <1>5, <3>1, <3>4
        <5> QED
          BY <1>1, <1>4, <2>2, <4>1, <4>3, <5>1 DEF Ahead
      <4> QED
        BY <4>2, <4>3
    <3> QED
      BY <1>5, <3>1, <3>3, <3>4
  <2> QED
    BY <2>1, <2>2
<1>11. ASSUME NEW x \in Sources
       PROVE  Newest(stored[x]) <= Newest(stored'[x]) /\ Newest(stored[x]) \in Nat
              /\ Newest(stored'[x]) \in Nat /\ \A p \in stored'[x] : p <= Newest(stored'[x])
  <2>1. /\ stored[x] \subseteq Nat \ {0} /\ IsFiniteSet(stored[x])
        /\ stored'[x] \subseteq Nat \ {0} /\ IsFiniteSet(stored'[x])
    <3>1. IsFiniteSet(1..wall[x]) /\ 1..wall[x] \subseteq Nat \ {0}
      <4>1. wall[x] \in Nat
        BY <1>4, StoredOf
      <4>2. IsFiniteSet(1..wall[x])
        BY <4>1, FS_Interval
      <4> QED
        BY <4>1, <4>2
    <3>2. stored'[x] \subseteq 1..wall[x]
      BY <1>4, <1>5, <1>7 DEF TypeOK
    <3> QED
      BY <1>4, <3>1, <3>2, StoredOf, FS_Subset
  <2>2. stored[x] \subseteq stored'[x]
    BY <1>7
  <2> QED
    BY <2>1, <2>2, NewestOf
<1>12. ASSUME NEW x \in Executors PROVE PassInv(x)'
  <2>1. CASE x # e
    <3>1. pass'[x] = pass[x] /\ ~Locked(x) /\ PassHolds(x)
      BY <1>1, <1>2, <1>4, <2>1 DEF CInv, TypeOK, Locked, Within
    <3> QED
      BY <1>1, <3>1 DEF PassInv, PassHolds, Ahead, Caught, Within, Locked, vk
  <2>2. CASE x = e
    <3>1. PassHolds(e)' /\ Ahead(e)'
      BY <1>1, <1>2, <1>4 DEF PassHolds, Ahead, Within, vk
    <3>2. ASSUME ~pass[e].failed, NEW y \in pass[e].sources \ (pass[e].todo \ {s}),
                 NEW p \in Missing(e, y)', NEW q \in Missing(e, y)'
          PROVE  y \in pass[e].skimmed /\ p = q
      <4>1. y \in Sources /\ pass[e].start[y] \in Nat
        BY <1>3 DEF PassState
      <4>2. \A z \in Missing(e, y)' :
              z \in 1..pass[e].start[y] /\ z \in Nat /\ Plain(y, z) /\ z > Newest(stored'[y])
        BY <1>2, <4>1 DEF Missing, Plain
      <4>3. CASE y \notin pass[e].todo
        <5>1. Missing(e, y)' \subseteq Missing(e, y)
          BY <1>11, <4>1, <4>2 DEF Missing, Plain
        <5> QED
          BY <1>1, <1>4, <3>2, <4>3, <5>1 DEF Caught, Locked, Within
      <4>4. CASE y = s
        <5>1. ASSUME NEW z \in Missing(e, y)' PROVE z \in Unread(e)
          <6>1. z > c
            BY <1>5, <1>6, <1>11, <4>1, <4>2, <4>4
          <6>2. ASSUME NEW b \in batch PROVE b < z
            BY <1>5, <1>7, <1>11, <4>1, <4>2, <4>4
          <6> QED
            BY <4>2, <4>4, <6>1, <6>2 DEF Unread
        <5> QED
          BY <1>1, <1>4, <3>2, <4>4, <5>1 DEF Caught, Locked, Within
      <4> QED
        BY <4>3, <4>4
    <3>3. Caught(e)'
      BY <1>2, <3>2 DEF Caught
    <3> QED
      BY <2>2, <3>1, <3>3 DEF PassInv
  <2> QED
    BY <2>1, <2>2
<1> QED
  BY <1>1, <1>8, <1>9, <1>10, <1>12 DEF CInv, PassInv, PlainStays, Plain, QueuedAttempts, vk

LEMMA FinishStep ==
  ASSUME CInv, NEW e \in Executors, FinishRun(e)
  PROVE  CInv'
<1> DEFINE over == [NoPass EXCEPT !.phase = "ended"]
<1>1. /\ over \in PassState /\ over.phase = "ended" /\ over.todo = {} /\ over.sources = {}
      /\ \A s \in Sources : over.start[s] = 0
  BY DEF NoPass, PassState
<1> HIDE DEF over
<1>2. /\ TypeOK /\ pass' = [pass EXCEPT ![e] = over] /\ UNCHANGED <<vk, active, task, rows>>
      /\ Release(e) /\ run' = [run EXCEPT ![e].status = Outcome(e)]
  BY DEF CInv, FinishRun, Inside, over
<1>3. pass'[e] = over /\ (\A x \in Executors \ {e} : pass'[x] = pass[x])
      /\ pass' \in [Executors -> PassState]
  BY <1>1, <1>2 DEF TypeOK
<1>4. \A x \in Executors : pass'[x].phase \in {"next", "asking", "pinned", "asked"} <=> lock' = x
  BY <1>1, <1>2, <1>3, LockShift
<1>5. run' \in [Executors -> RunState]
  <2>1. Outcome(e) \in {"skipped", "success", "partial", "failed"}
    BY DEF Outcome
  <2> QED
    BY <1>2, <2>1 DEF TypeOK, RunState
<1>6. TypeOK' /\ QueuedAttempts'
  BY <1>2, <1>3, <1>4, <1>5 DEF CInv, TypeOK, QueuedAttempts, Posts, vk, rows
<1>7. PassInv(e)'
  BY <1>1, <1>3, <1>6, PassOver DEF PassInv
<1> QED
  BY <1>2, <1>3, <1>6, <1>7, OneExecutor

-----------------------------------------------------------------------------
(* The theorems.                                                           *)

LEMMA CollectionInit == Init => CInv
<1> SUFFICES ASSUME Init PROVE CInv
  OBVIOUS
<1>1. /\ \A s \in Sources : /\ wall[s] = 1 /\ pin[s] = 0 /\ stored[s] = {} /\ gone[s] = {}
                            /\ 1 \in Posts(s)
      /\ wall \in [Sources -> Nat] /\ pin \in [Sources -> Nat]
      /\ stored \in [Sources -> SUBSET Nat] /\ gone \in [Sources -> SUBSET Nat]
  BY CollectionAssumption DEF Init, Posts
<1>2. task \in TaskState /\ run \in [Executors -> RunState] /\ pass \in [Executors -> PassState]
  BY CollectionAssumption, NoPassType DEF Init, TaskState, RunState
<1>3. \A e \in Executors : pass[e] = NoPass /\ lock # e /\ pass[e].phase = "idle"
  BY CollectionAssumption DEF Init, NoPass
<1>4. TypeOK
  BY <1>1, <1>2, <1>3 DEF Init, TypeOK
<1>5. RowsInv /\ QueuedAttempts
  BY <1>1 DEF Init, RowsInv, PlainStays, ItemsStored, NoPostSkipped, DeletedStaysDeleted,
              QueuedAttempts
<1>6. \A e \in Executors : PassInv(e)
  BY <1>1, <1>3 DEF PassInv, PassHolds, Ahead, Caught, Within, Locked, NoPass
<1> QED
  BY <1>4, <1>5, <1>6 DEF CInv, RowsInv, PassInv

LEMMA CollectionStep == CInv /\ [Next]_vars => CInv'
<1> SUFFICES ASSUME CInv, [Next]_vars PROVE CInv'
  OBVIOUS
<1>1. CASE UNCHANGED vars
  <2>1. TypeOK' /\ QueuedAttempts'
    BY <1>1 DEF CInv, TypeOK, QueuedAttempts, Posts, vars
  <2> QED
    BY <1>1, <2>1, SameExecutors DEF vars, vk, rows
<1>2. ASSUME NEW s \in Sources,
             \/ Appear(s) \/ Unpin(s) \/ Switch(s)
             \/ \E p \in Posts(s) : Pin(s, p) \/ Vanish(s, p)
      PROVE  CInv'
  <2>1. 1 \in Posts(s)
    BY CollectionAssumption DEF Posts
  <2> QED
    BY <1>2, <2>1, AppearStep, SwitchStep, PinStep
<1>3. ASSUME NEW e \in Executors,
             Claim(e) \/ Step(e) \/ SourceFails(e) \/ Crash(e) \/ Cancelled(e)
      PROVE  CInv'
  BY <1>3, TaskStep, StartStep, BeginStep, ReadLatestStep, ReadNextStep, ReadPageStep, FailStep, StoreStep,
     FinishStep DEF Step
<1>4. ASSUME Enqueue \/ Expire PROVE CInv'
  <2>1. TypeOK' /\ QueuedAttempts'
    BY <1>4, ScheduleType DEF CInv
  <2> QED
    BY <1>4, <2>1, SameExecutors DEF Enqueue, Expire
<1> QED
  BY <1>1, <1>2, <1>3, <1>4, DeleteStep DEF Next

THEOREM CollectionInvariance == Spec => []CInv
BY CollectionInit, CollectionStep, PTL DEF Spec

\* Rows, tasks and passes keep their types, and passes take turns.
THEOREM CollectionTypeCorrect == Spec => []TypeOK
<1>1. CInv => TypeOK
  BY DEF CInv
<1> QED
  BY <1>1, CollectionInvariance, PTL

\* However long the walls and the pages, and whatever fails or appears meanwhile, no post
\* is jumped over, unless one was pinned or deleted between two pages.
THEOREM NothingIsSkipped == Spec => []NoPostSkipped
<1>1. CInv => NoPostSkipped
  BY DEF CInv
<1> QED
  BY <1>1, CollectionInvariance, PTL

\* A deleted material does not come back.
THEOREM DeletedIsGone == Spec => []DeletedStaysDeleted
<1>1. CInv => DeletedStaysDeleted
  BY DEF CInv
<1> QED
  BY <1>1, CollectionInvariance, PTL

\* A run is a success only when every source has caught up with the wall it began with,
\* but for one post of a source whose first reading met a pinned post.
THEOREM SuccessTells == Spec => SuccessIsComplete
<1>1. CInv /\ [Next]_vars =>
        [\A e \in Executors : run[e].status # "success" /\ run'[e].status = "success" =>
           \A s \in pass[e].sources : \A p, q \in Missing(e, s) :
             s \in pass[e].skimmed /\ p = q]_vars
  <2> SUFFICES ASSUME CInv, Next, NEW e \in Executors, run[e].status # "success",
                      run'[e].status = "success",
                      NEW s \in pass[e].sources,
                      NEW p \in Missing(e, s), NEW q \in Missing(e, s)
               PROVE  s \in pass[e].skimmed /\ p = q
    OBVIOUS
  <2>1. TypeOK /\ Caught(e) /\ run \in [Executors -> RunState]
    BY DEF CInv, TypeOK
  <2>2. FinishRun(e)
    <3>1. ASSUME Enqueue \/ Expire PROVE FALSE
      BY <2>1, <3>1 DEF Enqueue, Expire, RunState
    <3>2. ASSUME NEW x \in Executors, StartPass(x) PROVE FALSE
      BY <2>1, <3>2 DEF StartPass
    <3>3. ASSUME NEW x \in Executors, FinishRun(x) PROVE x = e
      BY <2>1, <3>3 DEF FinishRun
    <3>4. ASSUME run' = run PROVE FALSE
      BY <3>4
    <3>5. ASSUME NEW x \in Executors, Step(x) PROVE StartPass(x) \/ FinishRun(x) \/ run' = run
      BY <3>5 DEF Step, Busy, BeginSource, ReadLatest, ReadNext, ReadPage, StoreFails, StoreSource, EndTask,
                  Inside
    <3>6. ASSUME NEW x \in Executors, Claim(x) \/ SourceFails(x) \/ Crash(x) \/ Cancelled(x)
          PROVE  run' = run
      BY <3>6 DEF Claim, SourceFails, Asks, Crash, Cancelled, Inside
    <3>7. ASSUME NEW y \in Sources,
                 \/ Appear(y) \/ Unpin(y) \/ Switch(y)
                 \/ \E x \in Posts(y) : Pin(y, x) \/ Vanish(y, x)
          PROVE  run' = run
      BY <3>7 DEF Appear, Unpin, Switch, Pin, Vanish
    <3>8. ASSUME NEW i \in item, DeleteItem(i) PROVE run' = run
      BY <3>8 DEF DeleteItem
    <3> QED
      BY <3>1, <3>2, <3>3, <3>4, <3>5, <3>6, <3>7, <3>8 DEF Next
  <2>3. Outcome(e) = "success" /\ (pass[e].todo = {} \/ pass[e].failed) /\ pass[e].phase = "next"
    BY <2>1, <2>2 DEF FinishRun, Inside
  <2>4. ~pass[e].failed
    BY <2>3 DEF Outcome
  <2> QED
    BY <2>1, <2>3, <2>4 DEF Caught, Locked
<1> QED
  BY <1>1, CollectionInvariance, PTL DEF Spec, SuccessIsComplete

-----------------------------------------------------------------------------
(* Schedule.                                                               *)

-----------------------------------------------------------------------------
(* Arithmetic.                                                             *)

LEMMA DivisionOf ==
  ASSUME NEW a \in Nat, NEW b \in Nat \ {0}
  PROVE  /\ a \div b \in Nat /\ a % b \in 0..(b - 1) /\ (a \div b) * b \in Nat
         /\ a = (a \div b) * b + (a % b)
<1>1. a \div b \in Nat /\ a % b \in 0..(b - 1) /\ a = (a \div b) * b + (a % b)
  OBVIOUS
<1>2. \A q \in Nat : q * b \in Nat
  OBVIOUS
<1> QED
  BY <1>1, <1>2

LEMMA Apart ==
  ASSUME NEW a \in Int, NEW b \in Int, NEW d \in Nat, a < b
  PROVE  a * d + d <= b * d
<1>1. PICK n \in Nat : b = a + 1 + n
  <2>1. b - a - 1 \in Nat /\ b = a + 1 + (b - a - 1)
    OBVIOUS
  <2> QED
    BY <2>1
<1>2. (a + 1 + n) * d = a * d + d + n * d
  OBVIOUS
<1>3. n * d \in Nat
  OBVIOUS
<1> QED
  BY <1>1, <1>2, <1>3

LEMMA MultipleOf ==
  ASSUME NEW a \in Nat, NEW i \in Nat \ {0}
  PROVE  a % i = 0 <=> \E k \in Nat : a = k * i
<1>1. a \div i \in Nat /\ a % i \in 0..(i - 1) /\ a = (a \div i) * i + (a % i)
  BY DivisionOf
<1>2. ASSUME NEW k \in Nat, a = k * i PROVE a % i = 0
  <2>1. ~(a \div i < k)
    <3> SUFFICES ASSUME a \div i < k PROVE FALSE
      OBVIOUS
    <3>1. (a \div i) * i + i <= k * i
      BY <1>1, Apart
    <3> QED
      BY <1>1, <1>2, <3>1
  <2>2. ~(k < a \div i)
    <3> SUFFICES ASSUME k < a \div i PROVE FALSE
      OBVIOUS
    <3>1. k * i + i <= (a \div i) * i
      BY <1>1, Apart
    <3> QED
      BY <1>1, <1>2, <3>1
  <2>3. a \div i = k
    BY <1>1, <2>1, <2>2
  <2> QED
    BY <1>1, <1>2, <2>3
<1>3. ASSUME a % i = 0 PROVE \E k \in Nat : a = k * i
  <2>1. a = (a \div i) * i + 0 /\ (a \div i) * i \in Nat
    BY <1>1, <1>3, DivisionOf
  <2>2. a = (a \div i) * i
    BY <2>1
  <2> QED
    BY <1>1, <2>2
<1> QED
  BY <1>2, <1>3

\* Steps rounds up.
LEMMA StepsOf ==
  ASSUME NEW e \in Nat, NEW i \in Nat \ {0}
  PROVE  /\ Steps(e, i) \in Nat /\ Steps(e, i) * i \in Nat /\ e <= Steps(e, i) * i
         /\ \A k \in Nat : e <= k * i => Steps(e, i) * i <= k * i
<1> DEFINE q == (e + i - 1) \div i
<1>1. /\ q \in Nat /\ (e + i - 1) % i \in 0..(i - 1)
      /\ e + i - 1 = q * i + ((e + i - 1) % i)
  <2>1. e + i - 1 \in Nat
    OBVIOUS
  <2> HIDE DEF q
  <2> QED
    BY <2>1, DivisionOf DEF q
<1>2. q = Steps(e, i)
  BY DEF Steps
<1> HIDE DEF q
<1>3. q * i \in Nat
  BY <1>1
<1>4. e <= q * i
  BY <1>1, <1>3
<1>5. ASSUME NEW k \in Nat, e <= k * i PROVE q * i <= k * i
  <2> SUFFICES ASSUME k < q PROVE FALSE
    <3>1. q = k \/ q < k \/ k < q
      BY <1>1
    <3>2. ASSUME q < k PROVE q * i + i <= k * i
      BY <1>1, <3>2, Apart
    <3>3. k * i \in Nat
      OBVIOUS
    <3> QED
      BY <1>3, <3>1, <3>2, <3>3
  <2>1. k * i + i <= q * i /\ k * i \in Nat
    BY <1>1, Apart
  <2> QED
    BY <1>1, <1>3, <1>5, <2>1
<1> QED
  BY <1>1, <1>2, <1>3, <1>4, <1>5

\* Two times of one slot are less than an interval apart.
LEMMA SlotOf ==
  ASSUME NEW a \in Nat, NEW b \in Nat, NEW i \in Nat \ {0}, Slot(a, i) = Slot(b, i)
  PROVE  b < a + i
<1>1. a % i \in 0..(i - 1) /\ a = (a \div i) * i + (a % i) /\ (a \div i) * i \in Nat
  BY DivisionOf
<1>2. b % i \in 0..(i - 1) /\ b = (b \div i) * i + (b % i)
  BY DivisionOf
<1>3. a \div i = b \div i
  BY DEF Slot
<1> QED
  BY <1>1, <1>2, <1>3

-----------------------------------------------------------------------------
(* next_run_at finds the first moment that has not passed.                 *)

LEMMA ScheduleOf ==
  ASSUME NEW s \in Schedules
  PROVE  /\ Day \in Nat \ {0} /\ s.interval \in Nat \ {0}
         /\ s.start \in Nat /\ s.start < Day /\ s.end \in Nat /\ s.end < Day
         /\ s.start # s.end
BY ScheduleAssumption

LEMMA DayOf ==
  ASSUME NEW s \in Schedules, NEW d \in Nat
  PROVE  /\ d * Day \in Nat /\ (d + 1) * Day = d * Day + Day
         /\ Start(s, d) = d * Day + s.start
         /\ s.start < s.end => WindowEnd(s, d) = d * Day + s.end
         /\ s.end < s.start => WindowEnd(s, d) = d * Day + Day + s.end
<1>1. /\ d * Day \in Nat /\ (d + 1) * Day = d * Day + Day
  BY ScheduleOf
<1> QED
  BY <1>1, ScheduleOf DEF Start, WindowEnd, End

\* Windows follow each other.
LEMMA WindowsApart ==
  ASSUME NEW s \in Schedules, NEW c \in Nat, NEW d \in Nat, c < d
  PROVE  /\ WindowEnd(s, c) <= Start(s, d) /\ Start(s, c + 1) <= Start(s, d)
         /\ WindowEnd(s, c) + Day <= WindowEnd(s, d)
<1>1. c * Day + Day <= d * Day /\ c * Day \in Nat /\ d * Day \in Nat
  <2>1. Day \in Nat
    BY ScheduleOf
  <2>2. c * Day + Day <= d * Day
    BY <2>1, Apart
  <2> QED
    BY <2>2, DayOf
<1>2. Start(s, d) = d * Day + s.start /\ Start(s, c + 1) = c * Day + Day + s.start
  BY DayOf, c + 1 \in Nat
<1>3. s.start < s.end => WindowEnd(s, c) = c * Day + s.end /\ WindowEnd(s, d) = d * Day + s.end
  BY DayOf
<1>4. s.end < s.start =>
        WindowEnd(s, c) = c * Day + Day + s.end /\ WindowEnd(s, d) = d * Day + Day + s.end
  BY DayOf
<1> QED
  BY <1>1, <1>2, <1>3, <1>4, ScheduleOf

LEMMA WindowDayOf ==
  ASSUME NEW s \in Schedules, NEW now \in Nat, Day <= now
  PROVE  /\ WindowDay(now, s) \in Nat /\ now < WindowEnd(s, WindowDay(now, s))
         /\ \A c \in Nat : c < WindowDay(now, s) => WindowEnd(s, c) <= now
<1> DEFINE today == now \div Day
           clock == now % Day
<1>1. /\ Day \in Nat \ {0} /\ today \in Nat /\ clock \in 0..(Day - 1)
      /\ now = today * Day + clock /\ today * Day \in Nat
  <2>1. Day \in Nat \ {0}
    BY ScheduleOf
  <2> QED
    BY <2>1, DivisionOf
<1>2. today # 0
  BY <1>1
<1>3. /\ s.start < s.end => WindowDay(now, s) = IF now < End(s, today) THEN today ELSE today + 1
      /\ s.start > s.end /\ clock < s.end => WindowDay(now, s) = today - 1
      /\ s.start > s.end /\ ~(clock < s.end) => WindowDay(now, s) = today
  BY ScheduleOf DEF WindowDay
<1> HIDE DEF today, clock
<1>4. CASE s.start < s.end /\ now < End(s, today)
  <2>1. WindowDay(now, s) = today
    BY <1>3, <1>4
  <2>2. now < WindowEnd(s, today)
    BY <1>4 DEF WindowEnd
  <2>3. ASSUME NEW c \in Nat, c < today PROVE WindowEnd(s, c) <= now
    <3>1. c * Day + Day <= today * Day
      BY <1>1, <2>3, Apart
    <3>2. WindowEnd(s, c) = c * Day + s.end /\ c * Day \in Nat
      BY <1>4, DayOf
    <3> QED
      BY <1>1, <3>1, <3>2, ScheduleOf
  <2> QED
    BY <1>1, <2>1, <2>2, <2>3
<1>5. CASE s.start < s.end /\ ~(now < End(s, today))
  <2>1. WindowDay(now, s) = today + 1 /\ today + 1 \in Nat
    BY <1>1, <1>3, <1>5
  <2>2. now < WindowEnd(s, today + 1)
    BY <1>1, <1>5, <2>1, DayOf, ScheduleOf
  <2>3. ASSUME NEW c \in Nat, c < today + 1 PROVE WindowEnd(s, c) <= now
    <3>1. c = today \/ c < today
      BY <1>1, <2>3
    <3>2. c < today => c * Day + Day <= today * Day
      BY <1>1, Apart
    <3>3. today * Day + s.end <= now
      BY <1>1, <1>5, ScheduleOf DEF End
    <3>4. WindowEnd(s, c) = c * Day + s.end /\ c * Day \in Nat
      BY <1>5, DayOf
    <3> QED
      BY <1>1, <3>1, <3>2, <3>3, <3>4, ScheduleOf
  <2> QED
    BY <2>1, <2>2, <2>3
<1>6. CASE s.start > s.end /\ clock < s.end
  <2> DEFINE d == today - 1
  <2>1. WindowDay(now, s) = d /\ d \in Nat /\ today = d + 1
    BY <1>1, <1>2, <1>3, <1>6, ScheduleOf
  <2>2. today * Day = d * Day + Day
    BY <2>1, <1>1, DayOf
  <2> HIDE DEF d
  <2>3. now < WindowEnd(s, d)
    BY <1>1, <1>6, <2>1, <2>2, DayOf, ScheduleOf
  <2>4. ASSUME NEW c \in Nat, c < d PROVE WindowEnd(s, c) <= now
    <3>1. c * Day + Day <= d * Day
      BY <1>1, <2>1, <2>4, Apart
    <3>2. WindowEnd(s, c) = c * Day + Day + s.end /\ c * Day \in Nat /\ d * Day \in Nat
      BY <1>6, <2>1, DayOf, ScheduleOf
    <3> QED
      BY <1>1, <2>2, <3>1, <3>2, ScheduleOf
  <2> QED
    BY <2>1, <2>3, <2>4
<1>7. CASE s.start > s.end /\ ~(clock < s.end)
  <2>1. WindowDay(now, s) = today
    BY <1>3, <1>7, ScheduleOf
  <2>2. now < WindowEnd(s, today)
    BY <1>1, <1>7, DayOf, ScheduleOf
  <2>3. ASSUME NEW c \in Nat, c < today PROVE WindowEnd(s, c) <= now
    <3>1. c * Day + Day <= today * Day
      BY <1>1, <2>3, Apart
    <3>2. WindowEnd(s, c) = c * Day + Day + s.end /\ c * Day \in Nat
      BY <1>7, DayOf, ScheduleOf
    <3> QED
      BY <1>1, <1>7, <3>1, <3>2, ScheduleOf
  <2> QED
    BY <1>1, <2>1, <2>2, <2>3
<1>8. s.start < s.end \/ s.start > s.end
  BY ScheduleOf
<1> QED
  BY <1>4, <1>5, <1>6, <1>7, <1>8

LEMMA MomentOf ==
  ASSUME NEW s \in Schedules, NEW t \in Nat
  PROVE  Moment(t, s) <=>
           \E d \in Nat, k \in Nat : t < WindowEnd(s, d) /\ t = Start(s, d) + k * s.interval
<1>1. ASSUME NEW d \in Nat
      PROVE  (Start(s, d) <= t /\ (t - Start(s, d)) % s.interval = 0)
               <=> \E k \in Nat : t = Start(s, d) + k * s.interval
  <2>1. Start(s, d) \in Nat
    <3>1. Start(s, d) = d * Day + s.start /\ d * Day \in Nat
      BY DayOf
    <3> QED
      BY <3>1, ScheduleOf
  <2>2. \A k \in Nat : k * s.interval \in Nat
    BY ScheduleOf
  <2>3. ASSUME Start(s, d) <= t
        PROVE  (t - Start(s, d)) % s.interval = 0
                 <=> \E k \in Nat : t - Start(s, d) = k * s.interval
    <3>1. t - Start(s, d) \in Nat
      BY <2>1, <2>3
    <3> QED
      BY <3>1, MultipleOf, ScheduleOf
  <2> QED
    BY <2>1, <2>2, <2>3
<1>2. ASSUME NEW d \in Nat, Start(s, d) <= t PROVE d \in 0..(t \div Day)
  <2>1. /\ t \div Day \in Nat /\ t % Day \in 0..(Day - 1) /\ t = (t \div Day) * Day + (t % Day)
    BY DivisionOf, ScheduleOf
  <2>2. t \div Day < d => (t \div Day) * Day + Day <= d * Day
    BY <2>1, Apart, ScheduleOf
  <2>3. (t \div Day) * Day \in Nat /\ d * Day \in Nat /\ Start(s, d) = d * Day + s.start
    BY <2>1, DayOf
  <2> DEFINE q == t \div Day
             r == t % Day
  <2> HIDE DEF q, r
  <2>4. ~(q < d)
    <3>1. /\ q * Day \in Nat /\ t = q * Day + r /\ r \in 0..(Day - 1) /\ d * Day \in Nat
          /\ q < d => q * Day + Day <= d * Day
      BY <2>1, <2>2, <2>3 DEF q, r
    <3> QED
      BY <1>2, <2>3, <3>1, ScheduleOf
  <2> QED
    BY <2>1, <2>4 DEF q
<1>3. Moment(t, s) <=>
        \E d \in 0..(t \div Day) :
          Start(s, d) <= t /\ t < WindowEnd(s, d) /\ (t - Start(s, d)) % s.interval = 0
  <2>1. t \div Day \in Nat
    BY DivisionOf, ScheduleOf
  <2>2. 0..(t \div Day) \subseteq Nat
    BY <2>1
  <2>3. ASSUME NEW d \in 0..(t \div Day)
        PROVE  /\ Start(s, d) = d * Day + s.start /\ Start(s, d) \in Nat
               /\ WindowEnd(s, d) = d * Day + s.end + (IF s.end < s.start THEN Day ELSE 0)
    <3>1. d \in Nat
      BY <2>2
    <3>2. d * Day \in Nat /\ Start(s, d) = d * Day + s.start
      BY <3>1, DayOf
    <3>3. s.start < s.end => WindowEnd(s, d) = d * Day + s.end
      BY <3>1, DayOf
    <3>4. s.end < s.start => WindowEnd(s, d) = d * Day + Day + s.end
      BY <3>1, DayOf
    <3> QED
      BY <3>2, <3>3, <3>4, ScheduleOf
  <2> QED
    BY <2>3 DEF Moment
<1>4. \A d \in 0..(t \div Day) : d \in Nat
  BY DivisionOf, ScheduleOf
<1> QED
  BY <1>1, <1>2, <1>3, <1>4

LEMMA NextRunOf ==
  ASSUME NEW s \in Schedules, NEW now \in Nat, Day <= now
  PROVE  /\ NextRun(now, s) \in Nat /\ now <= NextRun(now, s) /\ Moment(NextRun(now, s), s)
         /\ \A m \in Nat : now <= m /\ m < NextRun(now, s) => ~Moment(m, s)
<1> DEFINE day == WindowDay(now, s)
           start == Start(s, day)
           steps == Steps(now - start, s.interval)
           candidate == start + steps * s.interval
<1>1. /\ day \in Nat /\ now < WindowEnd(s, day)
      /\ \A c \in Nat : c < day => WindowEnd(s, c) <= now
  BY WindowDayOf
<1>2. start \in Nat /\ start < WindowEnd(s, day) /\ WindowEnd(s, day) \in Nat /\ start < Start(s, day + 1)
      /\ Start(s, day + 1) \in Nat /\ Start(s, day + 1) < WindowEnd(s, day + 1)
  <2>1. /\ day * Day \in Nat /\ Start(s, day) = day * Day + s.start
        /\ day + 1 \in Nat /\ (day + 1) * Day = day * Day + Day
    BY <1>1, DayOf
  <2>2. Start(s, day + 1) = day * Day + Day + s.start
    BY <2>1, DayOf
  <2>3. s.start < s.end => WindowEnd(s, day) = day * Day + s.end
                           /\ WindowEnd(s, day + 1) = day * Day + Day + s.end
    BY <1>1, <2>1, DayOf
  <2>4. s.end < s.start => WindowEnd(s, day) = day * Day + Day + s.end
                           /\ WindowEnd(s, day + 1) = day * Day + Day + Day + s.end
    BY <1>1, <2>1, DayOf
  <2> QED
    BY <2>1, <2>2, <2>3, <2>4, ScheduleOf
<1> HIDE DEF day
<1>3. /\ Moment(start, s) /\ Moment(Start(s, day + 1), s)
  <2>1. 0 * s.interval = 0
    BY ScheduleOf
  <2>2. start = start + 0 * s.interval /\ Start(s, day + 1) = Start(s, day + 1) + 0 * s.interval
    BY <1>2, <2>1
  <2> QED
    BY <1>1, <1>2, <2>2, MomentOf, day + 1 \in Nat
\* No other window is open before the next one begins.
<1>4. ASSUME NEW m \in Nat, now <= m, m < Start(s, day + 1), Moment(m, s)
      PROVE  \E k \in Nat : m = start + k * s.interval /\ m < WindowEnd(s, day)
  <2>1. PICK d \in Nat, k \in Nat : m < WindowEnd(s, d) /\ m = Start(s, d) + k * s.interval
    BY <1>4, MomentOf
  <2>2. k * s.interval \in Nat
    BY ScheduleOf
  <2>3. d * Day \in Nat /\ Start(s, d) = d * Day + s.start
    BY DayOf
  <2>4. Start(s, d) \in Nat /\ Start(s, d) <= m
    BY <2>1, <2>2, <2>3, ScheduleOf
  <2>5. ~(d < day)
    <3>1. d < day => WindowEnd(s, d) <= now
      BY <1>1
    <3>2. WindowEnd(s, d) \in Nat
      <4>1. s.start < s.end => WindowEnd(s, d) = d * Day + s.end
        BY DayOf
      <4>2. s.end < s.start => WindowEnd(s, d) = d * Day + Day + s.end
        BY DayOf
      <4> QED
        BY <2>3, <4>1, <4>2, ScheduleOf
    <3> QED
      BY <1>4, <2>1, <3>1, <3>2
  <2>6. ~(day < d)
    <3>1. day < d => Start(s, day + 1) <= Start(s, d)
      BY <1>1, WindowsApart
    <3> QED
      BY <1>2, <1>4, <2>4, <3>1
  <2>7. d = day
    BY <1>1, <2>5, <2>6
  <2> QED
    BY <2>1, <2>7
<1>5. CASE now <= start
  <2>1. NextRun(now, s) = start
    BY <1>5 DEF NextRun, day
  <2>2. ASSUME NEW m \in Nat, now <= m, m < start PROVE ~Moment(m, s)
    <3> SUFFICES ASSUME Moment(m, s) PROVE FALSE
      OBVIOUS
    <3>1. PICK k \in Nat : m = start + k * s.interval
      BY <1>2, <1>4, <2>2
    <3>2. k * s.interval \in Nat
      BY ScheduleOf
    <3> QED
      BY <1>2, <2>2, <3>1, <3>2
  <2> QED
    BY <1>2, <1>3, <1>5, <2>1, <2>2
<1>6. CASE ~(now <= start)
  <2>1. NextRun(now, s) = IF candidate < WindowEnd(s, day) THEN candidate ELSE Start(s, day + 1)
    BY <1>6 DEF NextRun, day
  <2>2. now - start \in Nat /\ s.interval \in Nat \ {0}
    BY <1>2, <1>6, ScheduleOf
  <2>3. /\ steps \in Nat /\ steps * s.interval \in Nat /\ now - start <= steps * s.interval
        /\ \A k \in Nat : now - start <= k * s.interval => steps * s.interval <= k * s.interval
    BY <2>2, StepsOf
  <2> HIDE DEF steps
  <2>4. candidate \in Nat /\ now <= candidate
    BY <1>2, <2>2, <2>3
  <2>5. ASSUME NEW m \in Nat, now <= m, m < Start(s, day + 1), Moment(m, s)
        PROVE  candidate <= m /\ m < WindowEnd(s, day)
    <3>1. PICK k \in Nat : m = start + k * s.interval /\ m < WindowEnd(s, day)
      BY <1>4, <2>5
    <3>2. k * s.interval \in Nat
      BY <2>2
    <3>3. now - start <= k * s.interval
      BY <1>2, <2>5, <3>1, <3>2
    <3>4. steps * s.interval <= k * s.interval
      BY <2>3, <3>3
    <3> QED
      BY <1>2, <2>3, <3>1, <3>2, <3>4
  <2>6. CASE candidate < WindowEnd(s, day)
    <3>1. NextRun(now, s) = candidate
      BY <2>1, <2>6
    <3>2. Moment(candidate, s)
      BY <1>1, <2>3, <2>4, <2>6, MomentOf
    <3>3. WindowEnd(s, day) <= Start(s, day + 1)
      BY <1>1, WindowsApart, day + 1 \in Nat /\ day < day + 1
    <3> HIDE DEF candidate
    <3>4. ASSUME NEW m \in Nat, now <= m, m < candidate PROVE ~Moment(m, s)
      <4>1. m < Start(s, day + 1)
        BY <1>2, <2>4, <2>6, <3>3, <3>4
      <4> QED
        BY <2>4, <2>5, <3>4, <4>1
    <3> QED
      BY <2>4, <3>1, <3>2, <3>4
  <2>7. CASE ~(candidate < WindowEnd(s, day))
    <3>1. NextRun(now, s) = Start(s, day + 1)
      BY <2>1, <2>7
    <3>2. WindowEnd(s, day) <= Start(s, day + 1)
      BY <1>1, WindowsApart, day + 1 \in Nat /\ day < day + 1
    <3> HIDE DEF candidate
    <3>3. ASSUME NEW m \in Nat, now <= m, m < Start(s, day + 1) PROVE ~Moment(m, s)
      BY <1>2, <2>4, <2>5, <2>7, <3>3
    <3> QED
      BY <1>1, <1>2, <1>3, <3>1, <3>2, <3>3
  <2> QED
    BY <2>6, <2>7
<1> QED
  BY <1>5, <1>6

-----------------------------------------------------------------------------
(* The invariant.                                                          *)

ScheduleTyped ==
  /\ time \in Nat /\ Day <= time /\ settings \in Schedules
  /\ changed \in [at : Nat, times : Nat] /\ changed.at <= time
  /\ waker \in [phase : {"awake", "asleep", "asking"}, wake : Nat, due : BOOLEAN]
  /\ asked \in SUBSET Nat /\ missed \in SUBSET Nat /\ errors \in Nat
  /\ started \in SUBSET [time : Nat, interval : Nat \ {0}]
  /\ \A job \in started : job.time <= time

\* A time the loop may ask at, unless it has still to see the settings.
Right(t) == Settled(t) => settings.enabled /\ Moment(t, settings)

\* How long the loop sleeps, and what it wakes up for.
Planned ==
  /\ waker.phase = "asking" => Right(time)
  /\ waker.phase = "asleep" =>
       /\ time <= waker.wake
       /\ waker.wake <= time + Poll \/ \A t \in Nat : time <= t /\ t <= waker.wake => t \in missed
       /\ waker.due => waker.wake <= time + Poll /\ Right(waker.wake)

\* Until the loop wakes up nothing is due that it has not asked for or given up.
Planning == IF waker.phase = "asleep" THEN waker.wake ELSE time
Covered ==
  settings.enabled =>
    \A t \in Nat : t < Planning /\ Moment(t, settings) /\ Settled(t) => t \in asked \cup missed

Answered ==
  /\ \A t \in asked : Right(t)
  /\ \A t \in asked \ missed : Settled(t) =>
       \E job \in started : job.interval = settings.interval /\ job.time <= t
                             /\ t < job.time + settings.interval

ScheduleInv == ScheduleTyped /\ Planned /\ Covered /\ Answered

LEMMA BoundsNat == Day \in Nat \ {0} /\ Poll \in Nat \ {0} /\ Retry \in Nat \ {0}
BY ScheduleAssumption

LEMMA ScheduleInitially == ScheduleInit => ScheduleInv
<1> SUFFICES ASSUME ScheduleInit PROVE ScheduleInv
  OBVIOUS
<1>1. ScheduleTyped
  BY BoundsNat DEF ScheduleInit, ScheduleTyped
<1>2. Planned /\ Answered
  BY DEF ScheduleInit, Planned, Answered
<1>3. Covered
  BY BoundsNat DEF ScheduleInit, Covered, Planning, Settled
<1> QED
  BY <1>1, <1>2, <1>3 DEF ScheduleInv

LEMMA SaveSettingsStep ==
  ASSUME ScheduleInv, NEW s \in Schedules, SaveSettings(s)
  PROVE  ScheduleInv'
<1>1. ScheduleTyped'
  BY DEF ScheduleInv, ScheduleTyped, SaveSettings
<1>2. /\ time' = time /\ waker' = waker /\ missed' = missed /\ asked' = {}
      /\ time \in Nat /\ changed'.at = time /\ waker.wake \in Nat /\ Poll \in Nat
  BY BoundsNat DEF ScheduleInv, ScheduleTyped, SaveSettings
<1>3. Planned'
  BY <1>2 DEF ScheduleInv, Planned, Right, Settled
<1>4. Covered'
  BY <1>2 DEF ScheduleInv, Planned, Covered, Planning, Settled
<1>5. Answered'
  BY <1>2 DEF Answered
<1> QED
  BY <1>1, <1>3, <1>4, <1>5 DEF ScheduleInv

LEMMA PlanWaitStep == ASSUME ScheduleInv, PlanWait PROVE ScheduleInv'
<1> DEFINE next == NextRun(time, settings)
           due == settings.enabled /\ next - time <= Poll
<1>1. /\ next \in Nat /\ time <= next /\ Moment(next, settings)
      /\ \A m \in Nat : time <= m /\ m < next => ~Moment(m, settings)
  BY NextRunOf DEF ScheduleInv, ScheduleTyped
<1>2. /\ time \in Nat /\ Poll \in Nat
  BY BoundsNat DEF ScheduleInv, ScheduleTyped
<1>3. /\ waker.phase = "awake" /\ waker'.phase = "asleep" /\ waker'.due = due
      /\ waker'.wake = time + (IF due THEN next - time ELSE Poll)
      /\ waker' = [phase |-> "asleep", due |-> due,
                   wake |-> time + (IF due THEN next - time ELSE Poll)]
      /\ UNCHANGED <<time, settings, changed, asked, missed, started, errors>>
  BY DEF PlanWait
<1> HIDE DEF next
<1>4. IF due THEN waker'.wake = next /\ next <= time + Poll ELSE waker'.wake = time + Poll
  BY <1>1, <1>2, <1>3
<1>5. due \in BOOLEAN
  OBVIOUS
<1> HIDE DEF due
<1>6. ScheduleTyped'
  BY <1>1, <1>2, <1>3, <1>4, <1>5 DEF ScheduleInv, ScheduleTyped
<1>7. Planned'
  <2>1. time <= waker'.wake /\ waker'.wake <= time + Poll
    BY <1>1, <1>2, <1>4
  <2>2. CASE due
    <3>1. waker'.wake = next /\ settings.enabled
      BY <1>4, <2>2 DEF due
    <3> QED
      BY <1>1, <1>3, <2>1, <3>1 DEF Planned, Right, Settled
  <2>3. CASE ~due
    BY <1>3, <2>1, <2>3 DEF Planned
  <2> QED
    BY <2>2, <2>3
<1>8. Covered'
  <2> SUFFICES ASSUME settings.enabled, NEW t \in Nat, t < waker'.wake, Moment(t, settings), Settled(t)
               PROVE  t \in asked \cup missed
    BY <1>3 DEF Covered, Planning, Settled
  <2>1. CASE t < time
    BY <1>3, <2>1 DEF ScheduleInv, Covered, Planning
  <2>2. CASE ~(t < time)
    BY <1>1, <1>2, <1>4, <2>2 DEF due
  <2> QED
    BY <2>1, <2>2
<1>9. Answered'
  BY <1>3 DEF ScheduleInv, Answered, Right, Settled
<1> QED
  BY <1>6, <1>7, <1>8, <1>9 DEF ScheduleInv

LEMMA WakeUpStep == ASSUME ScheduleInv, WakeUp PROVE ScheduleInv'
<1>1. ScheduleTyped'
  BY DEF ScheduleInv, ScheduleTyped, WakeUp
<1>2. /\ waker.phase = "asleep" /\ time = waker.wake
      /\ waker'.phase = IF waker.due THEN "asking" ELSE "awake"
      /\ UNCHANGED <<time, settings, changed, asked, missed, started, errors>>
  BY DEF ScheduleInv, ScheduleTyped, WakeUp
<1>3. Planned'
  BY <1>2 DEF ScheduleInv, Planned, Right, Settled
<1>4. Covered'
  BY <1>2 DEF ScheduleInv, Covered, Planning, Settled
<1>5. Answered'
  BY <1>2 DEF ScheduleInv, Answered, Right, Settled
<1> QED
  BY <1>1, <1>3, <1>4, <1>5 DEF ScheduleInv

LEMMA PassTimeStep == ASSUME ScheduleInv, PassTime PROVE ScheduleInv'
<1>1. ScheduleTyped'
  <2>1. /\ time' = time + 1 /\ time \in Nat /\ Day \in Nat /\ changed.at \in Nat
        /\ UNCHANGED <<settings, changed, waker, asked, missed, started, errors>>
    BY BoundsNat DEF ScheduleInv, ScheduleTyped, PassTime
  <2>2. \A job \in started : job.time <= time'
    BY <2>1 DEF ScheduleInv, ScheduleTyped
  <2> QED
    BY <2>1, <2>2 DEF ScheduleInv, ScheduleTyped
<1>2. /\ waker.phase = "asleep" /\ time < waker.wake /\ time' = time + 1
      /\ UNCHANGED <<settings, changed, waker, asked, missed, started, errors>>
      /\ time \in Nat /\ waker.wake \in Nat /\ Poll \in Nat
  BY BoundsNat DEF ScheduleInv, ScheduleTyped, PassTime
<1>3. Planned'
  BY <1>2 DEF ScheduleInv, Planned, Right, Settled
<1>4. Covered'
  BY <1>2 DEF ScheduleInv, Covered, Planning, Settled
<1>5. Answered'
  BY <1>2 DEF ScheduleInv, Answered, Right, Settled
<1> QED
  BY <1>1, <1>3, <1>4, <1>5 DEF ScheduleInv

\* What every step of the loop that takes time keeps.
LEMMA TimeGoes ==
  ASSUME ScheduleInv, time' = time + 1, UNCHANGED <<settings, changed>>
  PROVE  /\ time \in Nat /\ time' \in Nat /\ Day <= time' /\ changed'.at <= time'
         /\ settings' \in Schedules /\ changed' \in [at : Nat, times : Nat]
         /\ \A job \in started : job.time <= time'
<1>1. time \in Nat /\ Day \in Nat /\ changed.at \in Nat /\ Day <= time /\ changed.at <= time
  BY BoundsNat DEF ScheduleInv, ScheduleTyped
<1>2. \A job \in started : job.time \in Nat /\ job.time <= time
  BY DEF ScheduleInv, ScheduleTyped
<1> QED
  BY <1>1, <1>2 DEF ScheduleInv, ScheduleTyped

LEMMA RunOnceStep == ASSUME ScheduleInv, RunOnce PROVE ScheduleInv'
<1> DEFINE i == settings.interval
           new == [time |-> time, interval |-> i]
<1>1. /\ waker.phase = "asking" /\ asked' = asked \cup {time} /\ time' = time + 1
      /\ UNCHANGED <<settings, changed, missed, errors>>
      /\ waker' = [waker EXCEPT !.phase = "awake"] /\ waker'.phase = "awake"
  BY DEF RunOnce, ScheduleInv, ScheduleTyped
<1>2. time \in Nat /\ i \in Nat \ {0}
  BY ScheduleOf DEF ScheduleInv, ScheduleTyped
<1>3. /\ started' \in {started, started \cup {new}}
      /\ \E job \in started' : job.interval = i /\ Slot(job.time, i) = Slot(time, i)
  <2>1. new.interval = i /\ new.time = time
    OBVIOUS
  <2> QED
    BY <2>1 DEF RunOnce
<1>4. new \in [time : Nat, interval : Nat \ {0}] /\ new.time = time /\ new.interval = i
  BY <1>2
<1> HIDE DEF new, i
<1>5. /\ started' \in SUBSET [time : Nat, interval : Nat \ {0}] /\ started \subseteq started'
      /\ \A job \in started' : job.time <= time
  BY <1>2, <1>3, <1>4 DEF ScheduleInv, ScheduleTyped
<1>6. ScheduleTyped'
  <2>1. \A job \in started' : job.time <= time'
    BY <1>1, <1>2, <1>5
  <2>2. waker' \in [phase : {"awake", "asleep", "asking"}, wake : Nat, due : BOOLEAN]
    BY <1>1 DEF ScheduleInv, ScheduleTyped
  <2>3. asked' \in SUBSET Nat /\ missed' \in SUBSET Nat /\ errors' \in Nat
    BY <1>1, <1>2 DEF ScheduleInv, ScheduleTyped
  <2> QED
    BY <1>1, <1>5, <2>1, <2>2, <2>3, TimeGoes DEF ScheduleTyped
<1>7. Planned'
  BY <1>1 DEF Planned
<1>8. Covered'
  <2> SUFFICES ASSUME settings.enabled, NEW t \in Nat, t < time + 1, Moment(t, settings), Settled(t)
               PROVE  t \in asked' \cup missed
    BY <1>1 DEF Covered, Planning, Settled
  <2>1. CASE t < time
    BY <1>1, <2>1 DEF ScheduleInv, Covered, Planning
  <2>2. CASE t = time
    BY <1>1, <2>2
  <2> QED
    BY <1>2, <2>1, <2>2
<1>9. Answered'
  <2>1. Right(time)
    BY <1>1 DEF ScheduleInv, Planned
  <2>2. \A t \in asked' : Right(t)
    BY <1>1, <2>1 DEF ScheduleInv, Answered
  <2>3. PICK job \in started' : job.interval = i /\ Slot(job.time, i) = Slot(time, i)
    BY <1>3
  <2>4. job.time \in Nat /\ job.time <= time
    BY <1>5
  <2>5. time < job.time + i
    BY <1>2, <2>3, <2>4, SlotOf
  <2>6. ASSUME NEW t \in asked' \ missed, Settled(t)
        PROVE  \E x \in started' : x.interval = i /\ x.time <= t /\ t < x.time + i
    <3>1. CASE t = time
      BY <2>3, <2>4, <2>5, <3>1
    <3>2. CASE t # time
      <4>1. t \in asked \ missed
        BY <1>1, <3>2
      <4> QED
        BY <1>5, <2>6, <4>1 DEF ScheduleInv, Answered, i
    <3> QED
      BY <3>1, <3>2
  <2> QED
    BY <1>1, <2>2, <2>6 DEF Answered, Right, Settled, i
<1> QED
  BY <1>6, <1>7, <1>8, <1>9 DEF ScheduleInv

LEMMA RunConflictsStep == ASSUME ScheduleInv, RunConflicts PROVE ScheduleInv'
<1>1. /\ waker.phase = "asking" /\ asked' = asked \cup {time} /\ missed' = missed \cup {time}
      /\ time' = time + 1 /\ errors' = errors + 1
      /\ UNCHANGED <<settings, changed, started>>
      /\ waker' = [waker EXCEPT !.phase = "awake"] /\ waker'.phase = "awake"
  BY DEF RunConflicts, ScheduleInv, ScheduleTyped
<1>2. time \in Nat
  BY DEF ScheduleInv, ScheduleTyped
<1>3. ScheduleTyped'
  <2>1. waker' \in [phase : {"awake", "asleep", "asking"}, wake : Nat, due : BOOLEAN]
    BY <1>1 DEF ScheduleInv, ScheduleTyped
  <2>2. asked' \in SUBSET Nat /\ missed' \in SUBSET Nat /\ errors' \in Nat
    BY <1>1, <1>2 DEF ScheduleInv, ScheduleTyped
  <2>3. started' \in SUBSET [time : Nat, interval : Nat \ {0}] /\ started' = started
    BY <1>1 DEF ScheduleInv, ScheduleTyped
  <2> QED
    BY <1>1, <2>1, <2>2, <2>3, TimeGoes DEF ScheduleTyped
<1>4. Planned'
  BY <1>1 DEF Planned
<1>5. Covered'
  <2> SUFFICES ASSUME settings.enabled, NEW t \in Nat, t < time + 1, Moment(t, settings), Settled(t)
               PROVE  t \in asked' \cup missed'
    BY <1>1 DEF Covered, Planning, Settled
  <2>1. CASE t < time
    BY <1>1, <2>1 DEF ScheduleInv, Covered, Planning
  <2>2. CASE t = time
    BY <1>1, <2>2
  <2> QED
    BY <1>2, <2>1, <2>2
<1>6. Answered'
  <2>1. \A t \in asked' : Right(t)
    BY <1>1 DEF ScheduleInv, Planned, Answered
  <2>2. asked' \ missed' \subseteq asked \ missed
    BY <1>1
  <2> QED
    BY <1>1, <2>1, <2>2 DEF ScheduleInv, Answered, Right, Settled
<1> QED
  BY <1>3, <1>4, <1>5, <1>6 DEF ScheduleInv

LEMMA RunFailsStep == ASSUME ScheduleInv, RunFails PROVE ScheduleInv'
<1>1. /\ waker.phase # "asleep" /\ missed' = missed \cup time..(time + Retry)
      /\ time' = time + 1 /\ errors' = errors + 1
      /\ UNCHANGED <<settings, changed, asked, started>>
      /\ waker' = [phase |-> "asleep", wake |-> time + Retry, due |-> FALSE]
  BY DEF RunFails
<1>2. time \in Nat /\ Retry \in Nat \ {0} /\ Poll \in Nat
  BY BoundsNat DEF ScheduleInv, ScheduleTyped
<1>3. ScheduleTyped'
  <2>1. waker' \in [phase : {"awake", "asleep", "asking"}, wake : Nat, due : BOOLEAN]
    BY <1>1, <1>2
  <2>2. asked' \in SUBSET Nat /\ missed' \in SUBSET Nat /\ errors' \in Nat
    BY <1>1, <1>2 DEF ScheduleInv, ScheduleTyped
  <2>3. started' \in SUBSET [time : Nat, interval : Nat \ {0}] /\ started' = started
    BY <1>1 DEF ScheduleInv, ScheduleTyped
  <2> QED
    BY <1>1, <2>1, <2>2, <2>3, TimeGoes DEF ScheduleTyped
<1>4. Planned'
  BY <1>1, <1>2 DEF Planned
<1>5. Covered'
  <2> SUFFICES ASSUME settings.enabled, NEW t \in Nat, t < time + Retry, Moment(t, settings), Settled(t)
               PROVE  t \in asked \cup missed'
    BY <1>1 DEF Covered, Planning, Settled
  <2>1. CASE t < time
    BY <1>1, <2>1 DEF ScheduleInv, Covered, Planning
  <2>2. CASE ~(t < time)
    BY <1>1, <1>2, <2>2
  <2> QED
    BY <2>1, <2>2
<1>6. Answered'
  <2>1. asked' \ missed' \subseteq asked \ missed
    BY <1>1
  <2> QED
    BY <1>1, <2>1 DEF ScheduleInv, Answered, Right, Settled
<1> QED
  BY <1>3, <1>4, <1>5, <1>6 DEF ScheduleInv

LEMMA ScheduleInductive == ScheduleInv /\ [ScheduleNext]_scheduleVars => ScheduleInv'
<1> SUFFICES ASSUME ScheduleInv, [ScheduleNext]_scheduleVars PROVE ScheduleInv'
  OBVIOUS
<1>1. ASSUME NEW s \in Schedules, SaveSettings(s) PROVE ScheduleInv'
  BY <1>1, SaveSettingsStep
<1>2. CASE PlanWait \/ WakeUp \/ PassTime
  BY <1>2, PlanWaitStep, WakeUpStep, PassTimeStep
<1>3. CASE RunOnce \/ RunConflicts \/ RunFails
  BY <1>3, RunOnceStep, RunConflictsStep, RunFailsStep
<1>4. CASE UNCHANGED scheduleVars
  BY <1>4 DEF ScheduleInv, ScheduleTyped, Planned, Right, Settled, Covered, Planning, Answered,
              scheduleVars
<1> QED
  BY <1>1, <1>2, <1>3, <1>4 DEF ScheduleNext

\* The invariant of the loop of the scheduler (CollectionScheduler._run).
THEOREM ScheduleInvariance == ScheduleSpec => []ScheduleInv
<1>1. ScheduleInit => ScheduleInv
  BY ScheduleInitially
<1>2. ScheduleInv /\ [ScheduleNext]_scheduleVars => ScheduleInv'
  BY ScheduleInductive
<1> QED
  BY <1>1, <1>2, PTL DEF ScheduleSpec

\* For every length of the day, every schedule by day or over midnight and whatever polls
\* and retries, the loop asks at the moments of the settings and at no other time
\* (next_run_at, CollectionScheduler._run).
THEOREM EveryMomentIsAsked == ScheduleSpec => []AsksAtEveryMoment
<1>1. ScheduleInv => AsksAtEveryMoment
  <2> SUFFICES ASSUME ScheduleInv PROVE AsksAtEveryMoment
    OBVIOUS
  <2>1. ASSUME settings.enabled, NEW t \in 0..(time - 1), Moment(t, settings), Settled(t)
        PROVE  t \in asked \cup missed
    <3>1. t \in Nat /\ t < Planning
      BY <2>1 DEF ScheduleInv, ScheduleTyped, Planned, Planning
    <3> QED
      BY <2>1, <3>1 DEF ScheduleInv, Covered
  <2> QED
    BY <2>1 DEF ScheduleInv, Answered, Right, AsksAtEveryMoment
<1> QED
  BY <1>1, ScheduleInvariance, PTL
=============================================================================
