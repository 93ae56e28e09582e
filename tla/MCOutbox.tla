------------------------------ MODULE MCOutbox ------------------------------
(* A small instance of Outbox: one rewrite and one publication task, one   *)
(* worker slot that may be either queue's process, two dispatchers.        *)
EXTENDS Outbox, TLC

CONSTANTS rew1, pub1, item

MCQueueOf == [k \in Keys |-> IF k = pub1 THEN "publication" ELSE "rewrite"]
MCSubjectOf == [k \in Keys |-> item]
MCServes == [w \in Workers |-> {"publication", "rewrite"}]
MCMaxAttempts == [q \in Queues |-> 2]
=============================================================================
