---------------------------- MODULE MCTaskStore ----------------------------
(* A small instance of TaskStore: two publications of one item, which      *)
(* compete for the active slot, a rewrite task of the same item, and two   *)
(* worker slots, so that a stale and a current worker can meet on a task.  *)
EXTENDS TaskStore, TLC

CONSTANTS pub1, pub2, rew1, item, w1, w2

MCKeys == {pub1, pub2, rew1}
MCQueueOf == pub1 :> "publication" @@ pub2 :> "publication" @@ rew1 :> "rewrite"
MCSubjectOf == [k \in MCKeys |-> item]
MCServes == [w \in {w1, w2} |-> {"publication", "rewrite"}]
MCMaxAttempts == [q \in Queues |-> 2]
MCSymmetry == Permutations({pub1, pub2}) \cup Permutations({w1, w2})
=============================================================================
