---------------------------- MODULE TaskLifecycle ----------------------------
(***************************************************************************)
(* What the background-task runtime promises about one task, whatever the  *)
(* workers, leases, crashes and retries that carry it out: the life cycle  *)
(* that TaskState names, a bounded number of executions, and an external   *)
(* effect (a recorded result, or a message in a MAX channel) that happens  *)
(* at most once and never belongs to a task that may run again or that is  *)
(* reported as failed or cancelled.  TaskStore implements this module.     *)
(***************************************************************************)
EXTENDS Naturals

CONSTANTS Tasks,        \* task identities
          Budget        \* Budget[t]: how many times t may be executed

VARIABLES phase,        \* phase[t]: the state a user of the task API sees
          tries,        \* tries[t]: executions started
          effect        \* effect[t]: external effects that took place

lifecycleVars == <<phase, tries, effect>>

Phases == {"absent", "pending", "running", "retry_wait",
           "succeeded", "failed", "cancelled", "needs_review"}

LifecycleInit ==
  /\ phase = [t \in Tasks |-> "absent"]
  /\ tries = [t \in Tasks |-> 0]
  /\ effect = [t \in Tasks |-> 0]

Keep(t) == tries'[t] = tries[t] /\ effect'[t] = effect[t]

Accept(t) == /\ phase[t] = "absent" /\ phase'[t] = "pending"
             /\ Keep(t)

Begin(t) == /\ phase[t] \in {"pending", "retry_wait"} /\ phase'[t] = "running"
            /\ tries[t] < Budget[t] /\ tries'[t] = tries[t] + 1
            /\ effect'[t] = effect[t]

\* Another execution, or an outright failure, only while there is no effect.
Retry(t) == /\ phase[t] = "running" /\ phase'[t] = "retry_wait"
            /\ effect[t] = 0 /\ tries[t] < Budget[t]
            /\ Keep(t)

GiveUp(t) == /\ \/ phase[t] = "running" /\ phase'[t] = "failed"
                \/ phase[t] \in {"pending", "retry_wait"} /\ phase'[t] = "cancelled"
             /\ effect[t] = 0
             /\ Keep(t)

Review(t) == /\ phase[t] = "running" /\ phase'[t] = "needs_review"
             /\ Keep(t)

\* A result may be recorded in the step that ends the task.
Succeed(t) == /\ phase[t] = "running" /\ phase'[t] = "succeeded"
              /\ tries'[t] = tries[t]
              /\ \/ effect'[t] = effect[t]
                 \/ effect[t] = 0 /\ effect'[t] = 1

\* A request on the wire may take effect after its task was given up.
TakeEffect(t) == /\ phase[t] \in {"running", "needs_review", "succeeded"}
                 /\ phase'[t] = phase[t] /\ tries'[t] = tries[t]
                 /\ effect[t] = 0 /\ effect'[t] = 1

Stay(t) == phase'[t] = phase[t] /\ Keep(t)

TaskStep(t) == Accept(t) \/ Begin(t) \/ Retry(t) \/ GiveUp(t) \/ Review(t)
                 \/ Succeed(t) \/ TakeEffect(t) \/ Stay(t)

\* One database transaction may move several tasks.
LifecycleNext ==
  /\ phase' \in [Tasks -> Phases]
  /\ tries' \in [Tasks -> Nat]
  /\ effect' \in [Tasks -> Nat]
  /\ \A t \in Tasks : TaskStep(t)

LifecycleSpec == LifecycleInit /\ [][LifecycleNext]_lifecycleVars
=============================================================================
