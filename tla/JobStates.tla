------------------------------ MODULE JobStates ------------------------------
(***************************************************************************)
(* The job state machine of core/job_state.rs and the part of a Job row    *)
(* (core/job.rs) that decides what may happen to the job next.             *)
(*                                                                         *)
(* Instants are kept relative to the current time, in ticks, so that a     *)
(* model needs no bounded clock: an instant in the future is the number of *)
(* ticks left until it (0 = due), an instant in the past its age.          *)
(***************************************************************************)
EXTENDS Integers

CONSTANT NoWorker      \* the worker_id of a row that is not Processing

\* JobStateKind, and "None" for an id the storage holds no row for.
Kinds == {"Enqueued", "Processing", "Succeeded", "Failed", "Deleted",
          "Scheduled", "AwaitingRetry"}

\* expires_at = None.  Dec leaves it alone.
NoExpiry == -1

\* JobState::can_transition_to, as the set of successors of a state.
CanTransitionTo(from, to) ==
    CASE from = "Enqueued"      -> to \in {"Processing", "Deleted", "Scheduled", "Failed"}
      [] from = "Processing"    -> to \in {"Succeeded", "Failed", "Deleted", "AwaitingRetry"}
      [] from = "Scheduled"     -> to \in {"Enqueued", "Deleted"}
      [] from = "Failed"        -> to \in {"AwaitingRetry", "Deleted", "Enqueued"}
      [] from = "AwaitingRetry" -> to \in {"Enqueued", "Deleted"}
      [] from = "Succeeded"     -> to = "Deleted"
      [] OTHER                  -> FALSE

IsFinal(kind) == kind \in {"Succeeded", "Failed", "Deleted"}

(***************************************************************************)
(* A row of the job table.  timer is the time left until enqueue_at of a   *)
(* Scheduled and retry_at of an AwaitingRetry job, and the time since      *)
(* started_at of a Processing job; expires is the time left until          *)
(* expires_at.                                                             *)
(***************************************************************************)
JobRow(Workers) ==
    [kind: Kinds \cup {"None"}, timer: Nat, worker: Workers \cup {NoWorker},
     attempt: Nat, expires: Nat \cup {NoExpiry}]

NoRow == [kind |-> "None", timer |-> 0, worker |-> NoWorker,
          attempt |-> 0, expires |-> NoExpiry]

Present(row) == row.kind # "None"

\* Job::new / with_config followed by an optional set_state(Scheduled).
NewJob(kind, timer) ==
    [kind |-> kind, timer |-> timer, worker |-> NoWorker,
     attempt |-> 0, expires |-> NoExpiry]

\* Replacing Job::state; every other field of the row is kept.
SetState(row, kind, timer) ==
    [row EXCEPT !.kind = kind, !.timer = timer, !.worker = NoWorker]

\* One tick nearer to a future instant, one tick further from a past one.
\* Ages are only compared with `limit`, so they stop growing just above it.
Dec(t) == IF t > 0 THEN t - 1 ELSE t
Inc(t, limit) == IF t > limit THEN t ELSE t + 1

Aged(row, limit) ==
    [row EXCEPT !.timer = IF row.kind = "Processing" THEN Inc(@, limit) ELSE Dec(@),
                !.expires = Dec(@)]

\* The status (JobQueue) of a job with a row of this kind; used: whether an id
\* that has no row had one before.
StatusOf(kind, used) ==
    CASE kind \in {"Enqueued", "Scheduled", "AwaitingRetry"} -> "waiting"
      [] kind = "Processing"                                -> "claimed"
      [] kind = "Succeeded"                                 -> "succeeded"
      [] kind = "Failed"                                    -> "failed"
      [] kind \in {"None", "Deleted"}                       -> IF used THEN "gone" ELSE "new"
==============================================================================
